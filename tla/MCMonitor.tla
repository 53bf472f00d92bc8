----------------------------- MODULE MCMonitor -----------------------------
\* An instance of Monitor for TLC.  Time units are chosen so that the window
\* floor, the window cap and the per-call limit are all reachable and distinct:
\* the longest call reaches the per-call limit, shorter ones never do.
EXTENDS Monitor

TwoLengths == {1, 4}
AciAndBlob  == {"aci", "blob"}
=============================================================================
