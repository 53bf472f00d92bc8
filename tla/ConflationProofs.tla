-------------------------- MODULE ConflationProofs --------------------------
(***************************************************************************)
(* The conflation is right for every set of buildings, however their       *)
(* overlaps, cells and regions fall.  The inductive invariant says that    *)
(* the relation in hand is that of the region in hand, and that a finished *)
(* region holds what its relation names; the rest follows from what a      *)
(* relation contains.                                                      *)
(***************************************************************************)
EXTENDS Conflation, TLAPS

KeptOf(reg) ==
  {f \in FkbOf(reg) : \E o \in Osm \cup {Null} : <<f, o>> \in Relation(reg)}
    \cup {o \in OsmOf(reg) : <<Null, o>> \in Relation(reg)}

IInv ==
  /\ TypeOK
  /\ region # Null => ids = Relation(region)
  /\ \A reg \in done : small[reg] = KeptOf(reg)

-----------------------------------------------------------------------------
\* The rows of a relation: lone buildings of either source, and pairs above
\* the threshold.
LEMMA RelationRows ==
  ASSUME TypeOK, NEW reg \in Regions
  PROVE  Relation(reg) =
           {<<f, Null>> : f \in {g \in FkbOf(reg) : \A o \in OsmOf(reg) : ~Joined(g, o)}}
             \cup {<<Null, o>> : o \in {p \in OsmOf(reg) : \A f \in FkbOf(reg) : ~Joined(f, p)}}
             \cup {p \in FkbOf(reg) \X OsmOf(reg) : Joined(p[1], p[2]) /\ iou[p] > 70}
<1> DEFINE F == FkbOf(reg)
           O == OsmOf(reg)
           J == {q \in F \X O : Joined(q[1], q[2])}
           LoneF == {g \in F : \A o \in O : ~Joined(g, o)}
           LoneO == {p \in O : \A f \in F : ~Joined(f, p)}
           RowF(f) == [fkb |-> f, osm |-> Null, max_iou |-> Null]
           RowO(o) == [fkb |-> Null, osm |-> o, max_iou |-> Null]
           Row(p) == [fkb |-> p[1], osm |-> p[2], max_iou |-> iou[p]]
<1>1. Candidates(reg) = {Row(p) : p \in J}
  BY DEF Candidates
<1>2. \A p \in J : /\ p = <<p[1], p[2]>> /\ iou[p] # Null
                   /\ Row(p).max_iou = iou[p] /\ Row(p).fkb = p[1] /\ Row(p).osm = p[2]
  BY DEF Joined
<1>3. \A r \in Candidates(reg) : r.max_iou # Null
  BY <1>1, <1>2
<1>4. \A f : RowF(f).max_iou = Null /\ RowF(f).fkb = f /\ RowF(f).osm = Null
  OBVIOUS
<1>5. \A o : RowO(o).max_iou = Null /\ RowO(o).fkb = Null /\ RowO(o).osm = o
  OBVIOUS
<1>6. WithoutPartner(CandidateFkbOnly(reg)) = {<<f, Null>> : f \in LoneF}
  <2>1. CandidateFkbOnly(reg) = Candidates(reg) \cup {RowF(f) : f \in LoneF}
    BY DEF CandidateFkbOnly
  <2>2. {s \in CandidateFkbOnly(reg) : s.max_iou = Null} = {RowF(f) : f \in LoneF}
    <3> HIDE DEF LoneF, RowF
    <3> QED BY <1>3, <1>4, <2>1
  <2> HIDE DEF LoneF, RowF
  <2> QED BY <1>4, <2>2 DEF WithoutPartner
<1>7. WithoutPartner(CandidateOsmOnly(reg)) = {<<Null, o>> : o \in LoneO}
  <2>1. CandidateOsmOnly(reg) = Candidates(reg) \cup {RowO(o) : o \in LoneO}
    BY DEF CandidateOsmOnly
  <2>2. {s \in CandidateOsmOnly(reg) : s.max_iou = Null} = {RowO(o) : o \in LoneO}
    <3> HIDE DEF LoneO, RowO
    <3> QED BY <1>3, <1>5, <2>1
  <2> HIDE DEF LoneO, RowO
  <2> QED BY <1>5, <2>2 DEF WithoutPartner
<1>8. Overlapping(reg) = {p \in F \X O : Joined(p[1], p[2]) /\ iou[p] > 70}
  <2>1. {s \in Candidates(reg) : s.max_iou > 70} = {Row(p) : p \in {q \in J : iou[q] > 70}}
    <3> HIDE DEF J, Row
    <3> QED BY <1>1, <1>2
  <2>2. Overlapping(reg) = {p \in J : iou[p] > 70}
    <3> HIDE DEF J, Row
    <3> QED BY <1>2, <2>1 DEF Overlapping
  <2> QED BY <2>2
<1> QED
  BY <1>6, <1>7, <1>8 DEF Relation

\* A relation has the type of the ids.
LEMMA RelationType ==
  ASSUME TypeOK, NEW reg \in Regions
  PROVE  Relation(reg) \subseteq ((Fkb \cup {Null}) \X (Osm \cup {Null})) \ {<<Null, Null>>}
BY RelationRows, ConflationAssumption DEF FkbOf, OsmOf
-----------------------------------------------------------------------------
\* At first nothing is related.
LEMMA Initially == Init => IInv
<1> SUFFICES ASSUME Init PROVE IInv
  OBVIOUS
<1> QED
  BY DEF Init, IInv, TypeOK, world

\* The step that relates a region leaves its relation for the next one.
LEMMA RelatePreserves ==
  ASSUME IInv, NEW reg \in Regions, GetFkbOsmIdRelations(reg)
  PROVE  IInv'
<1> USE DEF GetFkbOsmIdRelations, world
<1>2. TypeOK'
  BY RelationType DEF IInv, TypeOK
<1>3. Relation(reg)' = Relation(reg)
  BY DEF Relation, Overlapping, WithoutPartner, CandidateFkbOnly, CandidateOsmOnly, Candidates,
         Joined, FkbOf, OsmOf
<1>4. \A r \in Regions : KeptOf(r)' = KeptOf(r)
  BY DEF KeptOf, Relation, Overlapping, WithoutPartner, CandidateFkbOnly, CandidateOsmOnly,
         Candidates, Joined, FkbOf, OsmOf
<1>5. ids' = Relation(region)'
  BY <1>3 DEF Relation, Overlapping, WithoutPartner, CandidateFkbOnly, CandidateOsmOnly,
         Candidates, Joined, FkbOf, OsmOf
<1> QED
  BY <1>2, <1>4, <1>5 DEF IInv, TypeOK

\* The merged region holds what its relation keeps.
LEMMA MergePreserves ==
  ASSUME IInv, MergeFkbOsm
  PROVE  IInv'
<1> USE DEF MergeFkbOsm, world
<1>1. region \in Regions /\ ids = Relation(region)
  BY DEF IInv, TypeOK
<1>2. FkbOf(region) \subseteq Fkb /\ OsmOf(region) \subseteq Osm
  BY DEF FkbOf, OsmOf
<1>3. TypeOK'
  BY <1>1, <1>2 DEF IInv, TypeOK, Buildings
<1>4. (FkbOf(region) \cap IdsFkb) \cup (OsmOf(region) \cap IdsOsm) = KeptOf(region)
  <2>1. ids \subseteq (Fkb \cup {Null}) \X (Osm \cup {Null})
    BY DEF IInv, TypeOK
  <2>2. FkbOf(region) \cap IdsFkb
          = {f \in FkbOf(region) : \E o \in Osm \cup {Null} : <<f, o>> \in ids}
    <3>1. ASSUME NEW f \in FkbOf(region), f \in IdsFkb
          PROVE  \E o \in Osm \cup {Null} : <<f, o>> \in ids
      <4>1. PICK p \in ids : p[1] = f
        BY <3>1 DEF IdsFkb
      <4>2. p = <<f, p[2]>> /\ p[2] \in Osm \cup {Null}
        BY <2>1, <4>1
      <4> QED BY <4>1, <4>2
    <3>2. ASSUME NEW f \in FkbOf(region), NEW o \in Osm \cup {Null}, <<f, o>> \in ids
          PROVE  f \in IdsFkb
      BY <1>2, <3>2, ConflationAssumption DEF IdsFkb
    <3> QED BY <3>1, <3>2
  <2>3. OsmOf(region) \cap IdsOsm = {o \in OsmOf(region) : <<Null, o>> \in ids}
    BY <1>2, <2>1, ConflationAssumption DEF IdsOsm
  <2> QED
    BY <1>1, <2>2, <2>3 DEF KeptOf
<1>5. \A r \in Regions : KeptOf(r)' = KeptOf(r)
  BY DEF KeptOf, Relation, Overlapping, WithoutPartner, CandidateFkbOnly, CandidateOsmOnly,
         Candidates, Joined, FkbOf, OsmOf
<1>6. \A r \in done' : small'[r] = KeptOf(r)
  BY <1>1, <1>4 DEF IInv, TypeOK
<1> QED
  BY <1>3, <1>5, <1>6 DEF IInv, TypeOK

\* The invariant holds in every reachable state.
THEOREM Invariance == Spec => []IInv
<1>1. IInv /\ [Next]_vars => IInv'
  <2> SUFFICES ASSUME IInv, [Next]_vars PROVE IInv'
    OBVIOUS
  <2>1. CASE Next
    BY <2>1, RelatePreserves, MergePreserves DEF Next
  <2>2. CASE UNCHANGED vars
    <3> USE <2>2 DEF vars, world
    <3>1. TypeOK'
      BY DEF IInv, TypeOK
    <3>2. \A r \in Regions : KeptOf(r)' = KeptOf(r) /\ Relation(r)' = Relation(r)
      BY DEF KeptOf, Relation, Overlapping, WithoutPartner, CandidateFkbOnly, CandidateOsmOnly,
             Candidates, Joined, FkbOf, OsmOf
    <3>3. region # Null => Relation(region)' = Relation(region)
      BY DEF Relation, Overlapping, WithoutPartner, CandidateFkbOnly, CandidateOsmOnly,
             Candidates, Joined, FkbOf, OsmOf
    <3> QED
      BY <3>1, <3>2, <3>3 DEF IInv, TypeOK
  <2> QED
    BY <2>1, <2>2
<1> QED
  BY Initially, <1>1, PTL DEF Spec

\* What a finished region holds, in terms of the buildings alone.
LEMMA KeptBuildings ==
  ASSUME IInv, NEW reg \in done
  PROVE  /\ reg \in Regions
         /\ \A f \in FkbOf(reg) :
              f \in small[reg] <=>
                \/ \A o \in OsmOf(reg) : ~Joined(f, o)
                \/ \E o \in OsmOf(reg) : Joined(f, o) /\ iou[<<f, o>>] > 70
         /\ \A o \in OsmOf(reg) :
              o \in small[reg] <=> \A f \in FkbOf(reg) : ~Joined(f, o)
<1>1. reg \in Regions /\ TypeOK /\ small[reg] = KeptOf(reg)
  BY DEF IInv, TypeOK
<1>2. /\ FkbOf(reg) \subseteq Fkb /\ OsmOf(reg) \subseteq Osm
      /\ Null \notin FkbOf(reg) /\ Null \notin OsmOf(reg)
      /\ FkbOf(reg) \cap OsmOf(reg) = {}
  BY ConflationAssumption DEF FkbOf, OsmOf
<1>3. ASSUME NEW f \in FkbOf(reg)
      PROVE  /\ <<f, Null>> \in Relation(reg) <=> \A o \in OsmOf(reg) : ~Joined(f, o)
             /\ \A o \in Osm : <<f, o>> \in Relation(reg)
                  <=> o \in OsmOf(reg) /\ Joined(f, o) /\ iou[<<f, o>>] > 70
  <2> DEFINE LoneF == {g \in FkbOf(reg) : \A o \in OsmOf(reg) : ~Joined(g, o)}
             LoneO == {p \in OsmOf(reg) : \A g \in FkbOf(reg) : ~Joined(g, p)}
             Pairs == {p \in FkbOf(reg) \X OsmOf(reg) : Joined(p[1], p[2]) /\ iou[p] > 70}
  <2>1. Relation(reg) = {<<g, Null>> : g \in LoneF} \cup {<<Null, o>> : o \in LoneO} \cup Pairs
    BY <1>1, RelationRows
  <2>2. f # Null /\ Null \notin Osm
    BY <1>2, <1>3, ConflationAssumption
  <2>3. <<f, Null>> \notin Pairs
    BY <1>2
  <2>4. \A o \in Osm : <<f, o>> \in Pairs
          <=> o \in OsmOf(reg) /\ Joined(f, o) /\ iou[<<f, o>>] > 70
    BY <1>3
  <2>5. f \in LoneF <=> \A o \in OsmOf(reg) : ~Joined(f, o)
    BY <1>3
  <2> HIDE DEF LoneF, LoneO, Pairs
  <2>6. <<f, Null>> \in Relation(reg) <=> f \in LoneF
    BY <2>1, <2>2, <2>3
  <2>7. \A o \in Osm : <<f, o>> \in Relation(reg) <=> <<f, o>> \in Pairs
    BY <2>1, <2>2
  <2> QED
    BY <2>4, <2>5, <2>6, <2>7
<1>4. ASSUME NEW o \in OsmOf(reg)
      PROVE  <<Null, o>> \in Relation(reg) <=> \A f \in FkbOf(reg) : ~Joined(f, o)
  BY <1>1, <1>2, RelationRows, ConflationAssumption
<1>5. \A f \in FkbOf(reg) :
        f \in small[reg] <=> \E o \in Osm \cup {Null} : <<f, o>> \in Relation(reg)
  BY <1>1, <1>2 DEF KeptOf
<1>6. \A o \in OsmOf(reg) : o \in small[reg] <=> <<Null, o>> \in Relation(reg)
  BY <1>1, <1>2 DEF KeptOf
<1>7. ASSUME NEW f \in FkbOf(reg)
      PROVE  f \in small[reg] <=>
               \/ \A o \in OsmOf(reg) : ~Joined(f, o)
               \/ \E o \in OsmOf(reg) : Joined(f, o) /\ iou[<<f, o>>] > 70
  <2>1. f \in small[reg] <=> \/ <<f, Null>> \in Relation(reg)
                             \/ \E o \in Osm : <<f, o>> \in Relation(reg)
    BY <1>5, <1>7
  <2>2. (\E o \in Osm : <<f, o>> \in Relation(reg))
          <=> \E o \in OsmOf(reg) : Joined(f, o) /\ iou[<<f, o>>] > 70
    BY <1>2, <1>3, <1>7
  <2> QED
    BY <1>3, <1>7, <2>1, <2>2
<1>8. \A o \in OsmOf(reg) : o \in small[reg] <=> \A f \in FkbOf(reg) : ~Joined(f, o)
  BY <1>4, <1>6
<1> QED
  BY <1>1, <1>7, <1>8

-----------------------------------------------------------------------------
\* Types, for every set of buildings.
THEOREM TypeCorrect == Spec => []TypeOK
BY Invariance, PTL DEF IInv

\* get_fkb_osm_id_relations and merge_fkb_osm keep the FKB geometry of every
\* pair they see, once, for every set of buildings and all their overlaps.
THEOREM PairsKeepFkb == Spec => []FkbIsPreferred
<1>1. IInv => FkbIsPreferred
  <2> SUFFICES ASSUME IInv, NEW reg \in done, NEW f \in Fkb, NEW o \in Osm, Same(reg, f, o)
               PROVE  f \in small[reg] /\ o \notin small[reg]
    BY DEF FkbIsPreferred
  <2>1. f \in FkbOf(reg) /\ o \in OsmOf(reg) /\ Joined(f, o) /\ iou[<<f, o>>] > 70
    BY DEF Same, Joined
  <2> QED
    BY <2>1, KeptBuildings
<1> QED
  BY Invariance, <1>1, PTL

\* A building that touches no building of the other source is never lost.
THEOREM LonelyBuildingsStay == Spec => []LostBuildingsHavePartner
<1>1. IInv => LostBuildingsHavePartner
  BY KeptBuildings DEF LostBuildingsHavePartner
<1> QED
  BY Invariance, <1>1, PTL

\* The dataset of a region never holds a pair of both sources in one cell that
\* touches or overlaps.
THEOREM NoOverlapsKept == Spec => []KeptBuildingsDoNotOverlap
<1>1. IInv => KeptBuildingsDoNotOverlap
  <2> SUFFICES ASSUME IInv, NEW reg \in done, NEW f \in small[reg] \cap Fkb,
                      NEW o \in small[reg] \cap Osm
               PROVE  ~Joined(f, o)
    BY DEF KeptBuildingsDoNotOverlap
  <2>1. f \in FkbOf(reg) /\ o \in OsmOf(reg)
    BY ConflationAssumption DEF IInv, TypeOK, KeptOf, FkbOf, OsmOf
  <2> QED
    BY <2>1, KeptBuildings
<1> QED
  BY Invariance, <1>1, PTL
=============================================================================
