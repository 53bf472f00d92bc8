----------------------------- MODULE Conflation -----------------------------
(***************************************************************************)
(* Conflation of the two building sources, region by region:               *)
(* get_fkb_osm_id_relations relates the buildings of a region, and         *)
(* merge_fkb_osm selects the geometries of the small dataset by the        *)
(* relation.                                                               *)
(*                                                                         *)
(* A building is its external id.  Of its geometry there remain the        *)
(* regions it intersects (the clip keeps a building on a border in both),  *)
(* the grid cell of its centroid, and for two buildings that intersect     *)
(* their IoU in percent: Null where they do not, 0 where they only touch.  *)
(* A building is a polygon, so the area of a union is never zero.  Both    *)
(* SELECTs filter with IN, so how often a row occurs does not matter.      *)
(***************************************************************************)
EXTENDS Integers, FiniteSets

CONSTANTS
  Fkb, Osm,   \* external ids of the two sources
  Regions,    \* the regions of a release
  Cells,      \* grid cells
  Ious,       \* values the IoU of two intersecting buildings can take
  Null        \* SQL's NULL

ASSUME ConflationAssumption ==
  /\ Fkb \cap Osm = {} /\ Null \notin Fkb \cup Osm
  /\ Ious \subseteq 0 .. 100 /\ Null \notin Ious

VARIABLES
  spans,    \* regions a building intersects
  cell,     \* grid cell of a building's centroid
  iou,      \* IoU of an FKB and an OSM building
  region,   \* region that is being conflated, Null between two
  ids,      \* the relation computed for it: pairs <<fkb_id, osm_id>>
  small,    \* conflated buildings of each region
  done      \* regions that are conflated

world == <<spans, cell, iou>>
vars == <<world, region, ids, small, done>>

Buildings == Fkb \cup Osm

\* What the raw files of a region hold after the clip; none are written, and
\* an empty table stands in for them, when there are no buildings.
FkbOf(reg) == {f \in Fkb : reg \in spans[f]}
OsmOf(reg) == {o \in Osm : reg \in spans[o]}

-----------------------------------------------------------------------------
(***************************************************************************)
(* The relation.                                                           *)
(***************************************************************************)

\* The condition of all three joins.
Joined(f, o) == cell[f] = cell[o] /\ iou[<<f, o>>] # Null

Candidates(reg) ==
  {[fkb |-> p[1], osm |-> p[2], max_iou |-> iou[p]] :
     p \in {q \in FkbOf(reg) \X OsmOf(reg) : Joined(q[1], q[2])}}

\* The LEFT JOINs add one row for every building without a partner.
CandidateFkbOnly(reg) ==
  Candidates(reg) \cup
    {[fkb |-> f, osm |-> Null, max_iou |-> Null] :
       f \in {g \in FkbOf(reg) : \A o \in OsmOf(reg) : ~Joined(g, o)}}

\* A mistake: an inner join.
CandidateInnerJoin(reg) == Candidates(reg)

CandidateOsmOnly(reg) ==
  Candidates(reg) \cup
    {[fkb |-> Null, osm |-> o, max_iou |-> Null] :
       o \in {p \in OsmOf(reg) : \A f \in FkbOf(reg) : ~Joined(f, p)}}

WithoutPartner(rows) == {<<r.fkb, r.osm>> : r \in {s \in rows : s.max_iou = Null}}

Overlapping(reg) ==
  {<<r.fkb, r.osm>> : r \in {s \in Candidates(reg) : s.max_iou > 70}}

Relation(reg) ==
  WithoutPartner(CandidateFkbOnly(reg)) \cup WithoutPartner(CandidateOsmOnly(reg))
    \cup Overlapping(reg)

GetFkbOsmIdRelations(reg) ==
  /\ region = Null /\ reg \notin done
  /\ region' = reg
  /\ ids' = Relation(reg)
  /\ UNCHANGED <<world, small, done>>

-----------------------------------------------------------------------------
(***************************************************************************)
(* The merge.                                                              *)
(***************************************************************************)

\* A mistake: OSM is preferred where both sources have the building.
IdsFkbWithoutOsm == {p[1] : p \in {q \in ids : q[1] # Null /\ q[2] = Null}}

IdsFkb == {p[1] : p \in {q \in ids : q[1] # Null}}

\* A mistake: OSM ids are taken from rows that name an FKB building too.
IdsOsmOfAllRows == {p[2] : p \in {q \in ids : q[2] # Null}}

IdsOsm == {p[2] : p \in {q \in ids : q[1] = Null /\ q[2] # Null}}

MergeFkbOsm ==
  /\ region # Null
  /\ small' = [small EXCEPT ![region] =
                 (FkbOf(region) \cap IdsFkb) \cup (OsmOf(region) \cap IdsOsm)]
  /\ done' = done \cup {region}
  /\ region' = Null
  /\ ids' = {}
  /\ UNCHANGED world

Init ==
  /\ spans \in [Buildings -> SUBSET Regions]
  /\ cell \in [Buildings -> Cells]
  /\ iou \in [Fkb \X Osm -> Ious \cup {Null}]
  /\ region = Null /\ ids = {}
  /\ small = [reg \in Regions |-> {}] /\ done = {}

Next == (\E reg \in Regions : GetFkbOsmIdRelations(reg)) \/ MergeFkbOsm

Spec == Init /\ [][Next]_vars

-----------------------------------------------------------------------------
\* A relation's row names buildings of the region, at least one, and a region
\* only ever holds buildings the clip left in it.
TypeOK ==
  /\ spans \in [Buildings -> SUBSET Regions]
  /\ cell \in [Buildings -> Cells]
  /\ iou \in [Fkb \X Osm -> Ious \cup {Null}]
  /\ region \in Regions \cup {Null}
  /\ ids \subseteq ((Fkb \cup {Null}) \X (Osm \cup {Null})) \ {<<Null, Null>>}
  /\ done \subseteq Regions
  /\ small \in [Regions -> SUBSET Buildings]

\* The join sees that f and o are the same building.
Same(reg, f, o) ==
  f \in FkbOf(reg) /\ o \in OsmOf(reg) /\ cell[f] = cell[o] /\ iou[<<f, o>>] # Null /\ iou[<<f, o>>] > 70

\* A building the join sees in both sources is in the small dataset of the
\* region once: with the geometry of FKB, also when it has a second partner
\* or is a partner of another building.
FkbIsPreferred ==
  \A reg \in done, f \in Fkb, o \in Osm :
    Same(reg, f, o) => f \in small[reg] /\ o \notin small[reg]

\* What the dataset leaves out of a region has an explanation: a building of
\* the other source in the same grid cell that it touches or overlaps.  A
\* building that touches nothing is never lost, whatever files are missing.
LostBuildingsHavePartner ==
  \A reg \in done :
    /\ \A f \in FkbOf(reg) \ small[reg] : \E o \in OsmOf(reg) : Joined(f, o)
    /\ \A o \in OsmOf(reg) \ small[reg] : \E f \in FkbOf(reg) : Joined(f, o)

\* The dataset of a region never holds buildings of both sources that touch or
\* overlap in one cell, whatever chains of partners the relation names.
KeptBuildingsDoNotOverlap ==
  \A reg \in done : \A f \in small[reg] \cap Fkb, o \in small[reg] \cap Osm : ~Joined(f, o)
=============================================================================
