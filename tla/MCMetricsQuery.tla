--------------------------- MODULE MCMetricsQuery ---------------------------
\* One experiment with a short id and one with a long one; the CostConfigurations of
\* the entrypoints.  Two ticks are a bucket: the window may begin and end inside one,
\* or begin with the second bucket, after traffic it has no part in.
EXTENDS MetricsQuery

CONSTANTS knn, join

OneShortOneLong == {knn, join}
OnlyJoin        == {join}
OfEntrypoints   == {{"aci"}, {"aci", "blob"}, {"aci", "postgres"},
                    {"aci", "blob", "databricks"}}
=============================================================================
