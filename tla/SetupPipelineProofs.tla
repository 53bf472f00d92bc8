------------------------ MODULE SetupPipelineProofs ------------------------
(***************************************************************************)
(* Proofs about the setup pipeline, for every set of counties, every       *)
(* number of files, chunks and components, and every number of setups that *)
(* fail at any step; and the proof that to those who read its data the     *)
(* pipeline is PublishedReleases.                                          *)
(***************************************************************************)
EXTENDS SetupPipeline, TLAPS

Regional == {"county", "osm", "fkb", "small"}
Saving   == {"saveRelease", "saveRoot"}
Copying  == {"seed", "shapefile", "municipalities"}
Begun    == Regional \cup Saving \cup {"synthesize"} \cup Copying

\* The state is typed; a setup that runs has been counted.
TypeInv ==
  /\ TypeOK
  /\ table \in [Sizes -> [rows : SUBSET (Release \X (1 .. Chunks)), index : {"none", "built"}]]
  /\ at # "idle" => setups > 0

\* releases.parquet has a row for the release.
Known(r) == \E i \in 1 .. Len(releases) : releases[i] = r

NotLater(r, s) == r.day < s.day \/ (r.day = s.day /\ r.version <= s.version)

\* The last release is the greatest one, so that the next one is new.
ReleaseInv ==
  /\ \A i \in 1 .. Len(releases) :
       /\ NotLater(releases[i], releases[Len(releases)])
       /\ releases[i].day <= today
  /\ \A b \in blobs : Known(b.release)
  /\ \A r \in completed : Known(r)

\* A setup works on a release that no earlier setup has written to.
OwnInv ==
  at \in Begun => /\ Known(release) /\ release \notin completed
                  /\ \A b \in blobs : b.release = release => b.setup = setups

\* The regions behind the loop are done, and so are the files of the present one.
Done(reg) ==
  /\ Stored("osm", release, reg, 1) /\ Stored("fkb", release, reg, 1)
  /\ \A part \in 1 .. Parts : Stored("small", release, reg, part)

RegionInv ==
  /\ at = "county" => \A reg \in Regions \ todo : Done(reg)
  /\ at \in {"osm", "fkb", "small"} => \A reg \in Regions \ todo : reg # region => Done(reg)
  /\ at \in {"fkb", "small"} => Stored("osm", release, region, 1)
  /\ at = "small" => /\ Stored("fkb", release, region, 1) /\ progress \in 0 .. Parts - 1
                     /\ \A part \in 1 .. progress : Stored("small", release, region, part)

\* The larger datasets are begun after the regions are done, and have files of regions
\* with valid polygons only.
Larger == {"medium", "large"}

LargerInv ==
  /\ \A b \in blobs : b.dataset \in Larger => <<b.release, b.region>> \notin invalid
  /\ at \in Regional \cup Saving =>
       \A b \in blobs : b.dataset \in Larger => b.release # release

\* Once the regions are done, the files behind the loops over sizes are stored.
SizeInv ==
  /\ at \in Saving \cup {"synthesize"} \cup Copying => \A reg \in Regions : Done(reg)
  /\ at = "synthesize" => /\ size # "small"
                          /\ \A reg \in Regions \ todo : Stored(size, release, reg, 1)
                                                       \/ <<release, reg>> \in invalid
                          /\ size = "large" => Complete("medium", release)
  /\ at \in Copying => \A dataset \in Sizes : Complete(dataset, release)

\* The root catalog in memory is the stored one and lists only releases that
\* have their own catalog.
CatalogInv ==
  /\ at \in {"release"} \cup Regional \cup Saving => root = stac
  /\ at = "saveRoot" => release \in stacFiles
  /\ at \in {"synthesize"} \cup Copying => release \in stac
  /\ CatalogListsCompleteReleases

Whole(s) == table[s] = [rows |-> {release} \X (1 .. Chunks), index |-> "built"]

\* A table the setup is done with.
Kept(s) == Whole(s) \/ NoRows(s, release)

\* The tables and components behind the copying loops are those of the release, or were
\* passed over; the table in progress is a prefix without an index.
CopyInv ==
  /\ at = "seed" => /\ progress \in 0 .. Chunks
                    /\ progress > 0 => /\ HasRows
                                       /\ table[size] = [rows |-> {release} \X (1 .. progress),
                                                         index |-> "none"]
                    /\ size # "small" => Kept("small")
                    /\ size = "large" => Kept("medium")
  /\ at \in {"shapefile", "municipalities"} => \A s \in Sizes : Kept(s)
  /\ at = "shapefile" => /\ progress \in 0 .. Components - 1
                         /\ \A c \in 1 .. progress : c \in Written => shapefile[c] = release
  /\ at = "municipalities" => \A c \in Written : shapefile[c] = release

\* FinishedSetupRenewsCopies, and while the next setup has no release of its own.
FinishedInv ==
  at \in {"idle", "release"} /\ release \in completed =>
    /\ \A s \in Sizes : Kept(s)
    /\ \A c \in Written : shapefile[c] = release
    /\ release \in stac

IInv ==
  /\ TypeInv /\ ReleaseInv /\ OwnInv /\ OneSetupPerRelease
  /\ RegionInv /\ LargerInv /\ SizeInv /\ CatalogInv
  /\ CopyInv /\ CopiesAreOfCompleteReleases /\ FinishedInv

-----------------------------------------------------------------------------
\* At first there is no release.
LEMMA Initially == Init => IInv
<1> SUFFICES ASSUME Init PROVE IInv
  OBVIOUS
<1> USE SetupAssumption DEF Init, Regional, Saving, Copying, Begun
<1>1. TypeInv
  BY DEF TypeInv, TypeOK, Release, NoRelease, Steps, Sizes
<1>2. ReleaseInv /\ OwnInv /\ OneSetupPerRelease
  BY DEF ReleaseInv, OwnInv, OneSetupPerRelease
<1>3. RegionInv /\ LargerInv /\ SizeInv /\ CatalogInv
  BY DEF RegionInv, LargerInv, SizeInv, CatalogInv, CatalogListsCompleteReleases
<1>4. CopyInv /\ FinishedInv
  BY DEF CopyInv, FinishedInv
<1>5. CopiesAreOfCompleteReleases
  BY DEF CopiesAreOfCompleteReleases
<1> QED BY <1>1, <1>2, <1>3, <1>4, <1>5 DEF IInv

\* Every step keeps the types.
LEMMA TypeStep ==
  ASSUME TypeInv, [Next]_vars
  PROVE  TypeInv'
<1> USE SetupAssumption DEF TypeInv, TypeOK, Steps, Sizes, Goto, localVars, storeVars
<1>1. CASE StartSetup
  BY <1>1 DEF StartSetup
<1>2. CASE CreateRelease
  <2>1. NextRelease(today) \in Release
    <3>1. CASE releases = <<>>
      BY <3>1 DEF NextRelease, Release
    <3>2. CASE releases # <<>>
      <4>1. releases[Len(releases)] \in Release
        BY <3>2
      <4> QED BY <3>2, <4>1 DEF NextRelease, Release
    <3> QED BY <3>1, <3>2
  <2> QED BY <1>2, <2>1 DEF CreateRelease
<1>3. CASE FindCounty
  BY <1>3 DEF FindCounty
<1>4. CASE UploadOsm
  BY <1>4 DEF UploadOsm, Upload
<1>5. CASE UploadFkb
  BY <1>5 DEF UploadFkb, Upload
<1>6. CASE UploadSmall
  BY <1>6 DEF UploadSmall, Upload, AfterRegion
<1>7. CASE SaveReleaseCatalog
  BY <1>7 DEF SaveReleaseCatalog
<1>8. CASE SaveRootCatalog
  BY <1>8 DEF SaveRootCatalog, ListAlso
<1>9. CASE SynthesizeRegion
  BY <1>9 DEF SynthesizeRegion, TakeRegion
<1>18. CASE SkipRegion
  BY <1>18 DEF SkipRegion, TakeRegion
<1>10. CASE FinishSynthesis
  BY <1>10 DEF FinishSynthesis, LastSize, SizeAfter
<1>11. CASE SeedChunk
  BY <1>11 DEF SeedChunk, RowsWith, AppendedRows
<1>12. CASE BuildIndex
  BY <1>12 DEF BuildIndex, NextTable, LastSize, SizeAfter, AllSeeded
<1>13. CASE UploadComponent
  <2>1. shapefile' \in [1 .. Components -> Release]
    BY <1>13 DEF UploadComponent
  <2>2. progress' \in Nat /\ at' \in {"shapefile", "municipalities"}
    BY <1>13 DEF UploadComponent, NextComponent
  <2>3. UNCHANGED <<today, setups, release, size, todo, region, root, releases, counties, blobs,
                    invalid, stacFiles, stac, table, completed>>
    BY <1>13 DEF UploadComponent
  <2> QED BY <1>13, <2>1, <2>2, <2>3 DEF UploadComponent, NextComponent
<1>14. CASE PublishMunicipalities
  BY <1>14 DEF PublishMunicipalities
<1>15. CASE SetupFails \/ NextDay \/ UNCHANGED vars
  BY <1>15 DEF SetupFails, NextDay, vars
<1>16. CASE SkipTable
  BY <1>16 DEF SkipTable, NextTable, LastSize, SizeAfter
<1>17. CASE SkipComponent
  BY <1>17 DEF SkipComponent, NextComponent
<1> QED BY <1>1, <1>2, <1>3, <1>4, <1>5, <1>6, <1>7, <1>8, <1>9, <1>10, <1>11, <1>12, <1>13,
           <1>14, <1>15, <1>16, <1>17, <1>18 DEF Next, TestDataset, Derived

-----------------------------------------------------------------------------
(***************************************************************************)
(* Releases: each is new, and one setup writes it.                         *)
(***************************************************************************)

\* What the uploading steps do to the stored files.
LEMMA BlobsOfStep ==
  ASSUME TypeInv, [Next]_vars
  PROVE  \/ blobs' = blobs
         \/ /\ at \in Begun \ {"county"} /\ release' = release /\ setups' = setups
            /\ \E d \in Sizes \cup {"osm", "fkb"}, g \in Regions, p \in Nat :
                 blobs' = blobs \cup {[dataset |-> d, release |-> release, region |-> g,
                                       part |-> p, setup |-> setups]}
<1> USE DEF TypeInv, TypeOK, Sizes, Regional, Begun
<1>1. CASE UploadOsm
  BY <1>1 DEF UploadOsm, Upload
<1>2. CASE UploadFkb
  BY <1>2 DEF UploadFkb, Upload
<1>3. CASE UploadSmall
  BY <1>3 DEF UploadSmall, Upload
<1>4. CASE SynthesizeRegion
  BY <1>4 DEF SynthesizeRegion, TakeRegion
<1>5. CASE ~(UploadOsm \/ UploadFkb \/ UploadSmall \/ SynthesizeRegion)
  BY <1>5 DEF Next, TestDataset, Derived, vars, localVars, storeVars, StartSetup, CreateRelease,
     FindCounty, SaveReleaseCatalog, SaveRootCatalog, SkipRegion, FinishSynthesis, SeedChunk,
     BuildIndex, SkipTable, UploadComponent, SkipComponent, PublishMunicipalities, SetupFails,
     NextDay
<1> QED BY <1>1, <1>2, <1>3, <1>4, <1>5

\* A region is found to have nothing to clone once, when it is conflated.
LEMMA InvalidOfStep ==
  ASSUME [Next]_vars
  PROVE  \/ invalid' = invalid
         \/ /\ UploadFkb /\ at = "fkb" /\ release' = release
            /\ invalid' = invalid \cup {<<release, region>>}
<1>1. CASE UploadFkb
  BY <1>1 DEF UploadFkb
<1>2. CASE ~UploadFkb
  BY <1>2 DEF Next, TestDataset, Derived, vars, localVars, storeVars, StartSetup, CreateRelease,
     FindCounty, UploadOsm, UploadSmall, SaveReleaseCatalog, SaveRootCatalog, SynthesizeRegion,
     FinishSynthesis, SkipRegion, SkipTable, SkipComponent, SeedChunk, BuildIndex,
     UploadComponent, PublishMunicipalities, SetupFails, NextDay
<1> QED BY <1>1, <1>2

\* What is stored stays stored.
LEMMA StoredStays ==
  ASSUME TypeInv, [Next]_vars, NEW d, NEW r, NEW g, NEW p, Stored(d, r, g, p)
  PROVE  Stored(d, r, g, p)'
<1>1. blobs \subseteq blobs'
  BY BlobsOfStep
<1> QED BY <1>1 DEF Stored

\* The release a setup creates is on record for the first time.
LEMMA NextReleaseIsNew ==
  ASSUME TypeInv, ReleaseInv
  PROVE  ~Known(NextRelease(today))
<1> USE DEF TypeInv, TypeOK
<1> SUFFICES ASSUME NEW i \in 1 .. Len(releases), releases[i] = NextRelease(today)
             PROVE  FALSE
  BY DEF Known
<1> DEFINE latest == releases[Len(releases)]
<1>1. releases # <<>> /\ releases[i] \in Release /\ latest \in Release
  OBVIOUS
<1>2. NotLater(releases[i], latest) /\ latest.day <= today
  BY <1>1 DEF ReleaseInv
<1>3. /\ releases[i].day = today
      /\ releases[i].version = IF today > latest.day THEN 0 ELSE latest.version + 1
  BY <1>1 DEF NextRelease
<1> QED BY <1>1, <1>2, <1>3 DEF NotLater, Release

\* Every step keeps the releases in order.
LEMMA ReleaseStep ==
  ASSUME TypeInv, ReleaseInv, OwnInv, [Next]_vars
  PROVE  ReleaseInv'
<1> USE DEF TypeInv, TypeOK
<1>1. CASE CreateRelease
  <2> DEFINE new == NextRelease(today)
  <2>1. /\ new \in Release /\ new.day = today
        /\ releases # <<>> => NotLater(releases[Len(releases)], new)
    <3>1. CASE releases = <<>>
      BY <3>1 DEF NextRelease, Release
    <3>2. CASE releases # <<>>
      <4>1. releases[Len(releases)] \in Release /\ releases[Len(releases)].day <= today
        BY <3>2 DEF ReleaseInv
      <4> QED BY <3>2, <4>1 DEF NextRelease, Release, NotLater
    <3> QED BY <3>1, <3>2
  <2>2. /\ releases' = Append(releases, new) /\ today' = today /\ blobs' = blobs
        /\ completed' = completed
    BY <1>1 DEF CreateRelease
  <2> HIDE DEF new
  <2>3. /\ Len(releases') = Len(releases) + 1 /\ releases'[Len(releases')] = new
        /\ \A i \in 1 .. Len(releases) : releases'[i] = releases[i]
    BY <2>1, <2>2
  <2>4. ASSUME NEW i \in 1 .. Len(releases')
        PROVE  NotLater(releases'[i], new) /\ releases'[i].day <= today
    <3>1. CASE i = Len(releases')
      BY <2>1, <2>3, <3>1 DEF NotLater, Release
    <3>2. CASE i # Len(releases')
      <4>1. i \in 1 .. Len(releases) /\ releases # <<>>
        BY <2>3, <3>2
      <4>2. releases[i] \in Release /\ releases[Len(releases)] \in Release
        BY <4>1
      <4>3. NotLater(releases[i], releases[Len(releases)]) /\ releases[i].day <= today
        BY <4>1 DEF ReleaseInv
      <4> QED BY <2>1, <2>3, <4>1, <4>2, <4>3 DEF NotLater, Release
    <3> QED BY <3>1, <3>2
  <2>5. \A r : Known(r) => Known(r)'
    BY <2>3 DEF Known
  <2> QED BY <2>2, <2>3, <2>4, <2>5 DEF ReleaseInv
<1>2. CASE PublishMunicipalities
  BY <1>2 DEF PublishMunicipalities, storeVars, ReleaseInv, OwnInv, Begun, Copying, Known
<1>3. CASE ~(CreateRelease \/ PublishMunicipalities)
  <2>1. releases' = releases /\ completed' = completed /\ today' \in Nat /\ today <= today'
    BY <1>3 DEF Next, TestDataset, Derived, vars, localVars, storeVars, StartSetup, FindCounty,
       UploadOsm, UploadFkb, UploadSmall, SaveReleaseCatalog, SaveRootCatalog, SynthesizeRegion,
       FinishSynthesis, SkipRegion, SkipTable, SkipComponent,
       SeedChunk, BuildIndex, UploadComponent, SetupFails, NextDay
  <2>2. \A i \in 1 .. Len(releases) : releases[i].day <= today'
    <3> SUFFICES ASSUME NEW i \in 1 .. Len(releases) PROVE releases[i].day <= today'
      OBVIOUS
    <3>1. releases[i] \in Release
      OBVIOUS
    <3> QED BY <2>1, <3>1 DEF ReleaseInv, Release
  <2>3. \A b \in blobs' : Known(b.release)
    BY BlobsOfStep DEF OwnInv, ReleaseInv
  <2> QED BY <2>1, <2>2, <2>3 DEF ReleaseInv, Known
<1> QED BY <1>1, <1>2, <1>3

\* Files of a release are written by the one setup that created it.
LEMMA OwnStep ==
  ASSUME TypeInv, ReleaseInv, OwnInv, OneSetupPerRelease, [Next]_vars
  PROVE  OwnInv' /\ OneSetupPerRelease'
<1>1. OneSetupPerRelease'
  <2>1. CASE blobs' = blobs
    BY <2>1 DEF OneSetupPerRelease
  <2>2. CASE blobs' # blobs
    BY <2>2, BlobsOfStep DEF OneSetupPerRelease, OwnInv
  <2> QED BY <2>1, <2>2
<1>2. CASE CreateRelease
  <2>1. /\ release' = NextRelease(today) /\ releases' = Append(releases, release')
        /\ blobs' = blobs /\ completed' = completed
    BY <1>2 DEF CreateRelease
  <2>2. release' \notin completed /\ \A b \in blobs : b.release # release'
    BY <2>1, NextReleaseIsNew DEF ReleaseInv
  <2>3. Known(release)'
    BY <2>1 DEF Known, TypeInv, TypeOK
  <2> QED BY <1>1, <2>1, <2>2, <2>3 DEF OwnInv
<1>3. CASE ~CreateRelease
  <2> SUFFICES ASSUME at' \in Begun PROVE OwnInv'
    BY <1>1 DEF OwnInv
  <2>1. /\ at \in Begun /\ release' = release /\ releases' = releases
        /\ completed' = completed /\ setups' = setups
    BY <1>3 DEF Next, TestDataset, Derived, vars, localVars, storeVars, Goto, Begun, Regional,
       Saving, Copying, StartSetup, FindCounty, UploadOsm, UploadFkb, UploadSmall,
       SaveReleaseCatalog, SaveRootCatalog, SynthesizeRegion, SkipRegion, TakeRegion,
       FinishSynthesis, SeedChunk, BuildIndex, SkipTable, NextTable, UploadComponent,
       SkipComponent, NextComponent, PublishMunicipalities, SetupFails, NextDay
  <2>2. \A b \in blobs' : b.release = release => b.setup = setups
    BY <2>1, BlobsOfStep DEF OwnInv
  <2> QED BY <2>1, <2>2 DEF OwnInv, Known
<1> QED BY <1>2, <1>3

-----------------------------------------------------------------------------
(***************************************************************************)
(* Files: what the loops leave behind them is stored.                      *)
(***************************************************************************)
LEMMA DoneStays ==
  ASSUME TypeInv, [Next]_vars, release' = release, NEW reg, Done(reg)
  PROVE  Done(reg)'
<1>1. blobs \subseteq blobs'
  BY BlobsOfStep
<1> QED BY <1>1 DEF Done, Stored

\* Files are never deleted, so that complete datasets stay complete.
LEMMA CompleteStays ==
  ASSUME TypeInv, [Next]_vars, NEW dataset, NEW r, Complete(dataset, r)
  PROVE  Complete(dataset, r)'
<1>1. invalid \subseteq invalid'
  BY InvalidOfStep
<1> QED BY <1>1, StoredStays DEF Complete, PartsOf

\* A release that has nothing for a table never gets anything for it.
LEMMA NoRowsStays ==
  ASSUME [Next]_vars, NEW s, NEW r, NoRows(s, r)
  PROVE  NoRows(s, r)'
<1>1. invalid \subseteq invalid'
  BY InvalidOfStep
<1> QED BY <1>1 DEF NoRows

\* An uploaded file is stored.
LEMMA Uploaded ==
  ASSUME NEW d, NEW r, NEW g, NEW p, NEW s,
         [dataset |-> d, release |-> r, region |-> g, part |-> p, setup |-> s] \in blobs'
  PROVE  Stored(d, r, g, p)'
<1> DEFINE new == [dataset |-> d, release |-> r, region |-> g, part |-> p, setup |-> s]
<1>1. new.dataset = d /\ new.release = r /\ new.region = g /\ new.part = p
  OBVIOUS
<1> QED BY <1>1 DEF Stored

\* The last file of a region completes it.
LEMMA LastFile ==
  ASSUME TypeInv, RegionInv, UploadSmall, progress + 1 >= Parts
  PROVE  \A reg \in Regions \ todo : Done(reg)'
<1> SUFFICES ASSUME NEW reg \in Regions \ todo PROVE Done(reg)'
  OBVIOUS
<1>1. release' = release /\ blobs \subseteq blobs'
  BY DEF UploadSmall, Upload
<1>2. CASE reg # region
  BY <1>1, <1>2 DEF RegionInv, Done, Stored, UploadSmall
<1>3. CASE reg = region
  <2>1. /\ Stored("osm", release, region, 1) /\ Stored("fkb", release, region, 1)
        /\ progress + 1 = Parts /\ progress \in Nat
        /\ \A part \in 1 .. progress : Stored("small", release, region, part)
    BY SetupAssumption DEF RegionInv, UploadSmall
  <2>2. \E b \in blobs' : /\ b.dataset = "small" /\ b.release = release
                          /\ b.region = region /\ b.part = progress + 1
    BY Uploaded DEF UploadSmall, Upload, Stored
  <2>3. \A part \in 1 .. Parts : part \in 1 .. progress \/ part = progress + 1
    BY <2>1
  <2> QED BY <1>1, <1>3, <2>1, <2>2, <2>3 DEF Done, Stored
<1> QED BY <1>2, <1>3

\* Every step keeps the regions before the present one done.
LEMMA RegionStep ==
  ASSUME TypeInv, RegionInv, [Next]_vars
  PROVE  RegionInv'
<1> USE DEF Goto
<1>1. CASE CreateRelease
  BY <1>1 DEF CreateRelease, RegionInv
<1>2. CASE FindCounty
  <2>1. /\ at' = "osm" /\ release' = release
        /\ \A reg \in Regions \ todo' : reg # region' => reg \in Regions \ todo
    BY <1>2 DEF FindCounty
  <2> QED BY <1>2, <2>1, DoneStays DEF FindCounty, RegionInv
<1>3. CASE UploadOsm
  <2>1. /\ at = "osm" /\ at' = "fkb" /\ release' = release /\ region' = region /\ todo' = todo
        /\ Stored("osm", release, region, 1)'
    BY <1>3, Uploaded DEF UploadOsm, Upload
  <2> QED BY <2>1, DoneStays DEF RegionInv
<1>4. CASE UploadFkb
  <2>1. /\ at = "fkb" /\ at' = "small" /\ release' = release /\ region' = region /\ todo' = todo
        /\ progress' = 0 /\ Stored("fkb", release, region, 1)'
    BY <1>4, Uploaded DEF UploadFkb, Upload
  <2>2. Stored("osm", release, region, 1)'
    BY <2>1, <1>4 DEF RegionInv, UploadFkb, Upload, Stored
  <2> QED BY <2>1, <2>2, DoneStays, SetupAssumption DEF RegionInv
<1>5. CASE UploadSmall /\ progress + 1 < Parts
  <2>1. /\ at = "small" /\ at' = "small" /\ release' = release /\ region' = region
        /\ todo' = todo /\ progress' = progress + 1 /\ progress \in Nat /\ blobs \subseteq blobs'
    BY <1>5 DEF UploadSmall, Upload, TypeInv, TypeOK
  <2>2. /\ Stored("osm", release, region, 1)' /\ Stored("fkb", release, region, 1)'
        /\ \A part \in 1 .. progress : Stored("small", release, region, part)'
    BY <2>1 DEF RegionInv, Stored
  <2>4. \A part \in 1 .. progress' : Stored("small", release, region, part)'
    <3> SUFFICES ASSUME NEW part \in 1 .. progress'
                 PROVE  Stored("small", release, region, part)'
      OBVIOUS
    <3>1. CASE part = progress + 1
      BY <1>5, <2>1, <3>1, Uploaded DEF UploadSmall, Upload
    <3>2. CASE part # progress + 1
      <4>1. part \in 1 .. progress
        BY <2>1, <3>2
      <4> QED BY <2>2, <4>1
    <3> QED BY <3>1, <3>2
  <2>5. progress' \in 0 .. Parts - 1
    BY <1>5, <2>1, SetupAssumption
  <2>6. \A reg \in Regions \ todo' : reg # region' => Done(reg)'
    BY <2>1, DoneStays DEF RegionInv
  <2> QED BY <2>1, <2>2, <2>4, <2>5, <2>6 DEF RegionInv
<1>6. CASE UploadSmall /\ ~(progress + 1 < Parts)
  <2>1. \A reg \in Regions \ todo : Done(reg)'
    BY <1>6, LastFile, SetupAssumption DEF TypeInv, TypeOK
  <2>2. at' \in {"county", "saveRelease"} /\ todo' = todo
    BY <1>6 DEF UploadSmall, AfterRegion
  <2> QED BY <2>1, <2>2 DEF RegionInv
<1>7. CASE NextDay \/ UNCHANGED vars
  BY <1>7 DEF NextDay, vars, localVars, storeVars, RegionInv, Done, Stored
<1>8. CASE \/ StartSetup \/ SaveReleaseCatalog \/ SaveRootCatalog \/ Derived \/ SetupFails
  <2>1. at' \notin Regional
    BY <1>8 DEF Regional, Derived, StartSetup, SaveReleaseCatalog, SaveRootCatalog,
       SynthesizeRegion, SkipRegion, TakeRegion, FinishSynthesis, SeedChunk, BuildIndex, SkipTable,
       NextTable, UploadComponent, SkipComponent, NextComponent, PublishMunicipalities, SetupFails
  <2> QED BY <2>1 DEF Regional, RegionInv
<1> QED BY <1>1, <1>2, <1>3, <1>4, <1>5, <1>6, <1>7, <1>8 DEF Next, TestDataset

\* A dataset all of whose regions are done is complete.
LEMMA DoneIsComplete ==
  ASSUME \A reg \in Regions : Done(reg)
  PROVE  \A dataset \in {"osm", "fkb", "small"} : Complete(dataset, release)
BY DEF Done, Complete, PartsOf

\* A larger file is only uploaded for a region with valid polygons, and nothing new is
\* found out about a release that has larger files.
LEMMA LargerStep ==
  ASSUME TypeInv, ReleaseInv, LargerInv, [Next]_vars
  PROVE  LargerInv'
<1> USE DEF Goto, Regional, Saving, Larger
<1>1. CASE SynthesizeRegion
  <2>1. PICK reg \in Regions :
          /\ <<release, reg>> \notin invalid /\ at' = "synthesize" /\ invalid' = invalid
          /\ blobs' = blobs \cup {[dataset |-> size, release |-> release, region |-> reg,
                                   part |-> 1, setup |-> setups]}
    BY <1>1 DEF SynthesizeRegion, TakeRegion
  <2> QED BY <2>1 DEF LargerInv
<1>2. CASE UploadOsm \/ UploadFkb \/ UploadSmall
  <2>1. /\ at \in Regional /\ release' = release
        /\ \A b \in blobs' : b.dataset \in Larger => b \in blobs
    BY <1>2 DEF UploadOsm, UploadFkb, UploadSmall, Upload
  <2>2. \A x \in invalid' : x \in invalid \/ x[1] = release
    BY InvalidOfStep
  <2>3. ASSUME NEW b \in blobs', b.dataset \in Larger
        PROVE  <<b.release, b.region>> \notin invalid' /\ b.release # release
    BY <2>1, <2>2, <2>3 DEF LargerInv
  <2> QED BY <2>1, <2>3 DEF LargerInv
<1>3. CASE CreateRelease
  <2>1. release' = NextRelease(today) /\ UNCHANGED <<blobs, invalid>>
    BY <1>3 DEF CreateRelease
  <2> QED BY <2>1, NextReleaseIsNew DEF LargerInv, ReleaseInv
<1>4. CASE ~(\/ SynthesizeRegion \/ UploadOsm \/ UploadFkb \/ UploadSmall \/ CreateRelease)
  <2>1. /\ UNCHANGED <<blobs, invalid, release>>
        /\ at' \in Regional \cup Saving => at \in Regional \cup Saving
    BY <1>4 DEF Next, TestDataset, Derived, vars, localVars, storeVars, StartSetup, FindCounty,
       SaveReleaseCatalog, SaveRootCatalog, FinishSynthesis, SkipRegion, TakeRegion, SkipTable,
       NextTable, SkipComponent, NextComponent, SeedChunk, BuildIndex, UploadComponent,
       PublishMunicipalities, SetupFails, NextDay
  <2> QED BY <2>1 DEF LargerInv
<1> QED BY <1>1, <1>2, <1>3, <1>4

\* Every step keeps the sizes before the present one done.
LEMMA SizeStep ==
  ASSUME TypeInv, RegionInv, SizeInv, [Next]_vars
  PROVE  SizeInv'
<1> USE DEF Goto, Saving, Copying
<1>1. CASE UploadSmall
  <2>1. ASSUME at' = "saveRelease" PROVE \A reg \in Regions : Done(reg)'
    <3>1. todo = {} /\ ~(progress + 1 < Parts)
      BY <1>1, <2>1 DEF UploadSmall, AfterRegion
    <3> QED BY <1>1, <3>1, LastFile, SetupAssumption DEF TypeInv, TypeOK
  <2>2. at' \in {"small", "county", "saveRelease"}
    BY <1>1 DEF UploadSmall, AfterRegion
  <2> QED BY <2>1, <2>2 DEF SizeInv
<1>2. CASE SaveReleaseCatalog \/ SaveRootCatalog
  <2>1. /\ \A reg \in Regions : Done(reg)'
        /\ at' = "saveRoot" \/ (at' = "synthesize" /\ todo' = Regions /\ size' = "medium")
    BY <1>2, DoneStays DEF SaveReleaseCatalog, SaveRootCatalog, SizeInv
  <2> QED BY <2>1 DEF SizeInv
<1>3. CASE SynthesizeRegion \/ SkipRegion
  <2>1. /\ at = "synthesize" /\ at' = at /\ release' = release /\ size' = size
        /\ invalid' = invalid /\ \A reg \in Regions : Done(reg)'
    BY <1>3, DoneStays DEF SynthesizeRegion, SkipRegion, TakeRegion, storeVars, SizeInv
  <2>2. ASSUME NEW reg \in Regions \ todo'
        PROVE  Stored(size, release, reg, 1)' \/ <<release, reg>> \in invalid'
    <3>1. blobs \subseteq blobs'
      BY BlobsOfStep
    <3>2. CASE SynthesizeRegion /\ reg \in todo
      BY <2>1, <2>2, <3>2, Uploaded DEF SynthesizeRegion, TakeRegion
    <3>3. CASE SkipRegion /\ reg \in todo
      BY <2>1, <2>2, <3>3 DEF SkipRegion, TakeRegion
    <3>4. CASE reg \notin todo
      BY <2>1, <3>1, <3>4 DEF SizeInv, Stored
    <3> QED BY <1>3, <3>2, <3>3, <3>4
  <2>3. size = "large" => Complete("medium", release)'
    BY <2>1, CompleteStays DEF SizeInv
  <2> QED BY <2>1, <2>2, <2>3 DEF SizeInv
<1>4. CASE FinishSynthesis
  <2>1. /\ at = "synthesize" /\ release' = release /\ UNCHANGED <<blobs, invalid>> /\ todo = {}
        /\ \A reg \in Regions : Done(reg)'
    BY <1>4, DoneStays DEF FinishSynthesis, storeVars, SizeInv
  <2>2. Complete(size, release) /\ size \in {"medium", "large"}
    BY <2>1 DEF SizeInv, Complete, PartsOf, TypeInv, TypeOK, Sizes
  <2>3. CASE size = "large"
    <3>1. \A dataset \in Sizes : Complete(dataset, release)
      BY <2>1, <2>2, <2>3, DoneIsComplete DEF SizeInv, Sizes
    <3>2. at' = "seed"
      BY <1>4, <2>3 DEF FinishSynthesis, LastSize
    <3> QED BY <2>1, <3>1, <3>2 DEF SizeInv, Complete, Stored
  <2>4. CASE size = "medium"
    <3>1. at' = "synthesize" /\ size' = "large" /\ todo' = Regions
      BY <1>4, <2>4 DEF FinishSynthesis, LastSize, SizeAfter
    <3>2. Complete("medium", release)'
      BY <2>1, <2>2, <2>4 DEF Complete, Stored
    <3> QED BY <2>1, <3>1, <3>2 DEF SizeInv
  <2> QED BY <2>2, <2>3, <2>4
<1>5. CASE \/ SeedChunk \/ BuildIndex \/ SkipTable \/ UploadComponent \/ SkipComponent
           \/ NextDay \/ UNCHANGED vars
  <2>1. /\ release' = release /\ UNCHANGED <<blobs, invalid>>
        /\ (at \in Copying /\ at' \in Copying) \/ (at' = at /\ size' = size /\ todo' = todo)
    BY <1>5 DEF SeedChunk, BuildIndex, SkipTable, NextTable, UploadComponent, SkipComponent,
       NextComponent, NextDay, vars, localVars, storeVars
  <2>2. /\ \A reg \in Regions : Done(reg) => Done(reg)'
        /\ \A reg \in Regions : Stored(size, release, reg, 1) /\ size' = size =>
                                  Stored(size, release, reg, 1)'
        /\ \A dataset : Complete(dataset, release) => Complete(dataset, release)'
    BY <2>1 DEF Done, Complete, Stored
  <2>3. CASE at \in Copying /\ at' \in Copying
    BY <2>2, <2>3 DEF SizeInv
  <2>4. CASE at' = at /\ size' = size /\ todo' = todo
    BY <2>1, <2>2, <2>4 DEF SizeInv
  <2> QED BY <2>1, <2>3, <2>4
<1>6. CASE \/ StartSetup \/ CreateRelease \/ FindCounty \/ UploadOsm \/ UploadFkb
           \/ PublishMunicipalities \/ SetupFails
  BY <1>6 DEF StartSetup, CreateRelease, FindCounty, UploadOsm, UploadFkb,
     PublishMunicipalities, SetupFails, SizeInv
<1> QED BY <1>1, <1>2, <1>3, <1>4, <1>5, <1>6 DEF Next, TestDataset, Derived

-----------------------------------------------------------------------------
(***************************************************************************)
(* The catalog.                                                            *)
(***************************************************************************)
LEMMA CatalogStep ==
  ASSUME TypeInv, SizeInv, CatalogInv, [Next]_vars
  PROVE  CatalogInv' /\ stac \subseteq stac'
<1> USE DEF Goto, Regional, Saving, Copying
<1>1. CASE SaveRootCatalog
  <2>1. /\ at = "saveRoot" /\ at' = "synthesize" /\ stac' = stac \cup {release}
        /\ stacFiles' = stacFiles /\ release' = release /\ release \in stacFiles
    BY <1>1 DEF SaveRootCatalog, ListAlso, CatalogInv
  <2>2. \A dataset \in {"osm", "fkb", "small"} : Complete(dataset, release)
    BY <2>1, DoneIsComplete DEF SizeInv
  <2>3. CatalogListsCompleteReleases'
    BY <2>1, <2>2, CompleteStays DEF CatalogInv, CatalogListsCompleteReleases
  <2> QED BY <2>1, <2>3 DEF CatalogInv
<1>2. CASE SaveReleaseCatalog
  <2>1. /\ at' = "saveRoot" /\ stac' = stac /\ root' = root /\ release' = release
        /\ stacFiles' = stacFiles \cup {release} /\ root = stac
    BY <1>2 DEF SaveReleaseCatalog, CatalogInv
  <2>2. CatalogListsCompleteReleases'
    BY <2>1, CompleteStays DEF CatalogInv, CatalogListsCompleteReleases
  <2> QED BY <2>1, <2>2 DEF CatalogInv
<1>3. CASE ~(SaveRootCatalog \/ SaveReleaseCatalog)
  <2>1. stac' = stac /\ stacFiles' = stacFiles
    BY <1>3 DEF Next, TestDataset, Derived, vars, localVars, storeVars, StartSetup, CreateRelease,
       FindCounty, UploadOsm, UploadFkb, UploadSmall, SynthesizeRegion, SkipRegion,
       FinishSynthesis, SeedChunk, BuildIndex, SkipTable, UploadComponent, SkipComponent,
       PublishMunicipalities, SetupFails, NextDay
  <2>2. CatalogListsCompleteReleases'
    BY <2>1, CompleteStays DEF CatalogInv, CatalogListsCompleteReleases
  <2>3. CASE StartSetup
    BY <2>1, <2>2, <2>3 DEF StartSetup, CatalogInv
  <2>4. CASE CreateRelease \/ FindCounty \/ UploadOsm \/ UploadFkb
    BY <2>1, <2>2, <2>4 DEF CreateRelease, FindCounty, UploadOsm, UploadFkb, CatalogInv
  <2>5. CASE UploadSmall
    BY <2>1, <2>2, <2>5 DEF UploadSmall, AfterRegion, CatalogInv
  <2>6. CASE SynthesizeRegion \/ SkipRegion \/ FinishSynthesis \/ SeedChunk
    BY <2>1, <2>2, <2>6 DEF SynthesizeRegion, SkipRegion, TakeRegion, FinishSynthesis, SeedChunk,
       CatalogInv
  <2>7. CASE BuildIndex \/ SkipTable \/ UploadComponent \/ SkipComponent
    BY <2>1, <2>2, <2>7 DEF BuildIndex, SkipTable, NextTable, UploadComponent, SkipComponent,
       NextComponent, CatalogInv
  <2>8. CASE PublishMunicipalities \/ SetupFails \/ NextDay \/ UNCHANGED vars
    BY <2>1, <2>2, <2>8 DEF PublishMunicipalities, SetupFails, NextDay, vars, localVars, CatalogInv
  <2> QED BY <1>3, <2>3, <2>4, <2>5, <2>6, <2>7, <2>8 DEF Next, TestDataset, Derived
<1> QED BY <1>1, <1>2, <1>3

-----------------------------------------------------------------------------
(***************************************************************************)
(* The copies the engines read.                                            *)
(***************************************************************************)
LEMMA SeedChunkPreserves ==
  ASSUME TypeInv, SizeInv, CopyInv, CopiesAreOfCompleteReleases, SeedChunk
  PROVE  CopyInv' /\ CopiesAreOfCompleteReleases'
<1> DEFINE rows == {release} \X (1 .. (progress + 1))
           new  == [rows |-> rows, index |-> "none"]
<1> USE DEF TypeInv, TypeOK, Sizes
<1>1. /\ at = "seed" /\ at' = "seed" /\ size' = size /\ release' = release
      /\ progress \in Nat /\ progress < Chunks /\ progress' = progress + 1
      /\ shapefile' = shapefile /\ UNCHANGED <<blobs, invalid>> /\ size \in Sizes /\ HasRows
      /\ table' = [table EXCEPT ![size] = [rows |-> RowsWith(progress + 1),
                                           index |-> IF progress = 0 THEN "none" ELSE @.index]]
  BY DEF SeedChunk
<1>2. table' = [table EXCEPT ![size] = new]
  <2>1. RowsWith(progress + 1) = rows
    <3>1. CASE progress = 0
      <4>1. 1 .. (progress + 1) = {1} /\ progress + 1 = 1
        BY <3>1
      <4>2. {release} \X {1} = {<<release, 1>>}
        OBVIOUS
      <4> QED BY <4>1, <4>2 DEF RowsWith
    <3>2. CASE progress # 0
      <4>1. table[size].rows = {release} \X (1 .. progress)
        BY <1>1, <3>2 DEF CopyInv
      <4>2. RowsWith(progress + 1) = ({release} \X (1 .. progress)) \cup {<<release, progress + 1>>}
        BY <1>1, <3>2, <4>1 DEF RowsWith, AppendedRows
      <4>3. 1 .. (progress + 1) = (1 .. progress) \cup {progress + 1}
        BY <1>1
      <4> QED BY <4>2, <4>3
    <3> QED BY <3>1, <3>2
  <2>2. (IF progress = 0 THEN "none" ELSE table[size].index) = "none"
    BY <1>1 DEF CopyInv
  <2> HIDE DEF rows
  <2> QED BY <1>1, <2>1, <2>2
<1> HIDE DEF new
<1>3. /\ table'[size] = new /\ \A s \in Sizes : s # size => table'[s] = table[s]
  BY <1>1, <1>2
<1>4. CopyInv'
  <2>1. \A s \in Sizes : s # size /\ Kept(s) => Kept(s)'
    BY <1>1, <1>3 DEF Kept, Whole, NoRows
  <2>2. table'[size] = [rows |-> {release} \X (1 .. progress'), index |-> "none"]
    BY <1>1, <1>3 DEF new
  <2>3. progress' \in 0 .. Chunks
    BY <1>1, SetupAssumption
  <2>4. HasRows'
    BY <1>1 DEF HasRows
  <2> QED BY <1>1, <2>1, <2>2, <2>3, <2>4 DEF CopyInv
<1>5. \A dataset \in Sizes : Complete(dataset, release)
  BY <1>1 DEF SizeInv, Copying
<1>6. \A d, r : Complete(d, r)' <=> Complete(d, r)
  BY <1>1 DEF Complete, Stored
<1>7. CopiesAreOfCompleteReleases'
  <2>1. \A s \in Sizes : \A x, y \in table'[s].rows :
          x[1] = y[1] /\ \A dataset \in Sizes : Complete(dataset, x[1])
    <3>1. \A x \in rows : x[1] = release
      OBVIOUS
    <3>2. new.rows = rows
      BY DEF new
    <3> QED BY <1>3, <1>5, <3>1, <3>2 DEF CopiesAreOfCompleteReleases
  <2>2. \A s \in Sizes : table'[s].index = "built" =>
          \E x \in table'[s].rows : table'[s].rows = {x[1]} \X (1 .. Chunks)
    <3>1. new.index = "none"
      BY DEF new
    <3> QED BY <1>3, <3>1 DEF CopiesAreOfCompleteReleases
  <2>3. \A c \in 1 .. Components : shapefile'[c] # NoRelease =>
          \A dataset \in Sizes : Complete(dataset, shapefile'[c])
    BY <1>1 DEF CopiesAreOfCompleteReleases
  <2> QED BY <1>6, <2>1, <2>2, <2>3 DEF CopiesAreOfCompleteReleases
<1> QED BY <1>4, <1>7

\* Building an index leaves the rows.
LEMMA Indexed ==
  ASSUME NEW R, NEW i
  PROVE  [[rows |-> R, index |-> i] EXCEPT !.index = "built"] = [rows |-> R, index |-> "built"]
OBVIOUS

\* The next table is begun when the present one is done with.
LEMMA NextTablePreserves ==
  ASSUME TypeInv, CopyInv, at = "seed", NextTable, progress' = 0, shapefile' = shapefile,
         \A s \in Sizes : s = size \/ Kept(s) => Kept(s)'
  PROVE  CopyInv'
<1> USE SetupAssumption DEF TypeInv, TypeOK, Sizes
<1>1. CASE size = "large"
  <2>1. at' = "shapefile"
    BY <1>1 DEF NextTable, LastSize, Goto
  <2>2. \A s \in Sizes : Kept(s)'
    BY <1>1 DEF CopyInv
  <2> QED BY <2>1, <2>2 DEF CopyInv
<1>2. CASE size \in {"small", "medium"}
  <2>1. at' = "seed" /\ size' = IF size = "small" THEN "medium" ELSE "large"
    BY <1>2 DEF NextTable, LastSize, SizeAfter
  <2>2. Kept("small")' /\ (size = "medium" => Kept("medium")')
    BY <1>2 DEF CopyInv
  <2> QED BY <1>2, <2>1, <2>2 DEF CopyInv
<1> QED BY <1>1, <1>2

\* A table is passed over only for a larger size of a release without valid polygons.
LEMMA NothingToSeed ==
  ASSUME TypeInv, SizeInv, at = "seed", ~HasRows
  PROVE  NoRows(size, release)
<1>1. size \in Sizes /\ Complete(size, release) /\ Complete("small", release)
  BY DEF TypeInv, TypeOK, SizeInv, Copying, Sizes
<1>2. \A reg, part : ~Stored(size, release, reg, part)
  BY DEF HasRows, Stored
<1>3. PICK reg \in Regions : TRUE
  BY SetupAssumption
<1>4. size # "small"
  <2>1. 1 \in 1 .. Parts
    BY SetupAssumption
  <2> QED BY <1>1, <1>2, <1>3, <2>1 DEF Complete, PartsOf
<1>5. 1 \in PartsOf(size)
  BY <1>4 DEF PartsOf
<1> QED BY <1>1, <1>2, <1>4, <1>5 DEF Complete, NoRows

\* An index is built over a whole copy.
LEMMA BuildIndexPreserves ==
  ASSUME TypeInv, SizeInv, CopyInv, CopiesAreOfCompleteReleases, BuildIndex
  PROVE  CopyInv' /\ CopiesAreOfCompleteReleases'
<1> DEFINE new == [rows |-> {release} \X (1 .. Chunks), index |-> "built"]
<1> USE SetupAssumption DEF TypeInv, TypeOK, Sizes
<1>1. /\ at = "seed" /\ progress = Chunks /\ progress' = 0 /\ release' = release
      /\ shapefile' = shapefile /\ UNCHANGED <<blobs, invalid>> /\ size \in Sizes
      /\ table' = [table EXCEPT ![size].index = "built"]
  BY DEF BuildIndex, AllSeeded
<1>2. table[size] = [rows |-> {release} \X (1 .. Chunks), index |-> "none"]
  BY <1>1 DEF CopyInv
<1>3. table'[size] = new /\ \A s \in Sizes : s # size => table'[s] = table[s]
  <2>1. [table[size] EXCEPT !.index = "built"] = new
    BY <1>2, Indexed
  <2> HIDE DEF new
  <2> QED BY <1>1, <2>1
<1>4. CopyInv'
  <2>0. \A s \in Sizes : s = size \/ Kept(s) => Kept(s)'
    <3>1. \A s \in Sizes : s = size \/ Whole(s) => Whole(s)'
      BY <1>1, <1>3 DEF Whole
    <3>2. \A s \in Sizes : NoRows(s, release) => NoRows(s, release)'
      BY <1>1 DEF NoRows
    <3> QED BY <1>1, <3>1, <3>2 DEF Kept
  <2> QED BY <1>1, <2>0, NextTablePreserves DEF BuildIndex
<1>5. \A d, r : Complete(d, r)' <=> Complete(d, r)
  BY <1>1 DEF Complete, Stored
<1>6. \A s \in Sizes : table'[s].rows = table[s].rows
  <2>1. table'[size].rows = table[size].rows
    BY <1>2, <1>3
  <2> QED BY <1>3, <2>1
<1>7. \A s \in Sizes : table'[s].index = "built" =>
        \E x \in table'[s].rows : table'[s].rows = {x[1]} \X (1 .. Chunks)
  <2>1. <<release, 1>> \in new.rows /\ new.rows = {<<release, 1>>[1]} \X (1 .. Chunks)
    OBVIOUS
  <2>2. \A s \in Sizes \ {size} : table[s].index = "built" =>
          \E x \in table[s].rows : table[s].rows = {x[1]} \X (1 .. Chunks)
    BY DEF CopiesAreOfCompleteReleases
  <2> HIDE DEF new, TypeInv, TypeOK, Sizes
  <2>3. ASSUME NEW s \in Sizes \ {size}, table'[s].index = "built"
        PROVE  \E x \in table'[s].rows : table'[s].rows = {x[1]} \X (1 .. Chunks)
    <3>1. table'[s] = table[s]
      BY <1>3
    <3> QED BY <2>2, <2>3, <3>1
  <2>4. \E x \in table'[size].rows : table'[size].rows = {x[1]} \X (1 .. Chunks)
    <3>1. table'[size].rows = new.rows
      BY <1>3
    <3> QED BY <2>1, <3>1
  <2> QED BY <2>3, <2>4
<1>8. CopiesAreOfCompleteReleases'
  <2>1. \A s \in Sizes : \A x, y \in table'[s].rows :
          x[1] = y[1] /\ \A dataset \in Sizes : Complete(dataset, x[1])
    BY <1>6 DEF CopiesAreOfCompleteReleases
  <2>2. \A c \in 1 .. Components : shapefile'[c] # NoRelease =>
          \A dataset \in Sizes : Complete(dataset, shapefile'[c])
    BY <1>1 DEF CopiesAreOfCompleteReleases
  <2> HIDE DEF TypeInv, TypeOK, Sizes
  <2> QED BY <1>5, <1>7, <2>1, <2>2 DEF CopiesAreOfCompleteReleases
<1> QED BY <1>4, <1>8

\* A step that leaves tables and shapefile alone leaves them copies.
LEMMA SameCopies ==
  ASSUME TypeInv, CopiesAreOfCompleteReleases, [Next]_vars,
         table' = table, shapefile' = shapefile
  PROVE  CopiesAreOfCompleteReleases'
<1>1. \A d, r : Complete(d, r) => Complete(d, r)'
  BY CompleteStays
<1> QED BY <1>1 DEF CopiesAreOfCompleteReleases

\* After a component the next one is begun, or the copy is done.
LEMMA NextComponentPreserves ==
  ASSUME CopyInv, NextComponent, UNCHANGED <<release, table, invalid>>,
         \A c \in 1 .. progress + 1 : c \in Written => shapefile'[c] = release
  PROVE  CopyInv'
<1>1. /\ progress \in 0 .. Components - 1 /\ progress' = progress + 1
      /\ \A s \in Sizes : Kept(s)
  BY DEF NextComponent, CopyInv
<1>2. \A s \in Sizes : Kept(s)'
  BY <1>1 DEF Kept, Whole, NoRows
<1>3. CASE progress + 1 < Components
  <2>1. at' = "shapefile" /\ progress' \in 0 .. Components - 1
    BY <1>1, <1>3, SetupAssumption DEF NextComponent, Goto
  <2> QED BY <1>1, <1>2, <2>1 DEF CopyInv
<1>4. CASE ~(progress + 1 < Components)
  <2>1. at' = "municipalities" /\ Components = progress + 1
    BY <1>1, <1>4, SetupAssumption DEF NextComponent, Goto
  <2> QED BY <1>1, <1>2, <2>1 DEF CopyInv, Written
<1> QED BY <1>3, <1>4

\* Every step keeps the copies those of complete releases.
LEMMA CopyStep ==
  ASSUME TypeInv, SizeInv, CopyInv, CopiesAreOfCompleteReleases, [Next]_vars
  PROVE  CopyInv' /\ CopiesAreOfCompleteReleases'
<1> USE DEF Goto
<1>1. CASE SeedChunk
  BY <1>1, SeedChunkPreserves
<1>2. CASE BuildIndex
  BY <1>2, BuildIndexPreserves
<1>3. CASE UploadComponent
  <2>1. /\ at = "shapefile" /\ release' = release /\ table' = table
        /\ UNCHANGED <<blobs, invalid>>
        /\ progress \in 0 .. Components - 1
        /\ shapefile' = [shapefile EXCEPT ![progress + 1] = release]
        /\ shapefile \in [1 .. Components -> Release]
    BY <1>3 DEF UploadComponent, NextComponent, CopyInv, TypeInv, TypeOK
  <2>2. /\ \A c \in 1 .. progress + 1 : c \in Written => shapefile'[c] = release
        /\ \A c \in 1 .. Components : shapefile'[c] \in {release, shapefile[c]}
    <3>1. \A c \in 1 .. progress : c \in Written => shapefile[c] = release
      BY <2>1 DEF CopyInv
    <3>2. 1 .. progress + 1 \subseteq 1 .. Components
      BY <2>1, SetupAssumption
    <3>3. \A c \in 1 .. Components :
            shapefile'[c] = IF c = progress + 1 THEN release ELSE shapefile[c]
      BY <2>1
    <3>4. \A c \in 1 .. progress + 1 : c = progress + 1 \/ c \in 1 .. progress
      BY <2>1
    <3> QED BY <3>1, <3>2, <3>3, <3>4
  <2>3. CopyInv'
    BY <1>3, <2>1, <2>2, NextComponentPreserves DEF UploadComponent
  <2>5. \A dataset \in Sizes : Complete(dataset, release)
    BY <2>1 DEF SizeInv, Copying
  <2>6. \A d, r : Complete(d, r) => Complete(d, r)'
    BY CompleteStays
  <2>7. \A c \in 1 .. Components : shapefile'[c] # NoRelease =>
          \A dataset \in Sizes : Complete(dataset, shapefile'[c])
    BY <2>2, <2>5 DEF CopiesAreOfCompleteReleases
  <2>8. CopiesAreOfCompleteReleases'
    BY <2>1, <2>6, <2>7 DEF CopiesAreOfCompleteReleases
  <2> QED BY <2>3, <2>8
<1>4. CASE FinishSynthesis
  <2>1. /\ table' = table /\ shapefile' = shapefile /\ progress' = 0
        /\ at' = "synthesize" \/ (at' = "seed" /\ size' = "small")
    BY <1>4 DEF FinishSynthesis, storeVars
  <2>2. CopyInv'
    BY <2>1, SetupAssumption DEF CopyInv
  <2> QED BY <2>1, <2>2, SameCopies
<1>5. CASE NextDay \/ UNCHANGED vars
  <2>1. /\ table' = table /\ shapefile' = shapefile /\ progress' = progress /\ at' = at
        /\ size' = size /\ release' = release /\ UNCHANGED <<blobs, invalid>>
    BY <1>5 DEF NextDay, vars, localVars, storeVars
  <2> QED BY <2>1, SameCopies DEF CopyInv, Kept, Whole, NoRows, HasRows
<1>6. CASE TestDataset \/ SynthesizeRegion \/ SkipRegion \/ PublishMunicipalities \/ SetupFails
  <2>1. /\ table' = table /\ shapefile' = shapefile
        /\ at' \notin {"seed", "shapefile", "municipalities"}
    BY <1>6 DEF TestDataset, localVars, storeVars, StartSetup, CreateRelease, FindCounty, UploadOsm,
       UploadFkb, UploadSmall, AfterRegion, SaveReleaseCatalog, SaveRootCatalog, SynthesizeRegion,
       SkipRegion, TakeRegion, PublishMunicipalities, SetupFails
  <2> QED BY <2>1, SameCopies DEF CopyInv
<1>7. CASE SkipTable
  <2>1. /\ at = "seed" /\ NextTable /\ progress' = 0 /\ NoRows(size, release)
        /\ UNCHANGED <<release, table, shapefile, invalid>>
    BY <1>7, NothingToSeed DEF SkipTable, storeVars
  <2>2. \A s \in Sizes : s = size \/ Kept(s) => Kept(s)'
    BY <2>1 DEF Kept, Whole, NoRows
  <2>3. CopyInv'
    BY <2>1, <2>2, NextTablePreserves
  <2> QED BY <2>1, <2>3, SameCopies
<1>8. CASE SkipComponent
  <2>1. /\ at = "shapefile" /\ progress \in 0 .. Components - 1 /\ progress + 1 \notin Written
        /\ UNCHANGED <<release, table, shapefile, invalid>>
    BY <1>8 DEF SkipComponent, NextComponent, storeVars, CopyInv, Written
  <2>2. \A c \in 1 .. progress + 1 : c \in Written => shapefile'[c] = release
    <3>1. \A c \in 1 .. progress + 1 : c \in Written => c \in 1 .. progress
      BY <2>1
    <3> QED BY <2>1, <3>1 DEF CopyInv
  <2>3. CopyInv'
    BY <1>8, <2>1, <2>2, NextComponentPreserves DEF SkipComponent
  <2> QED BY <2>1, <2>3, SameCopies
<1> QED BY <1>1, <1>2, <1>3, <1>4, <1>5, <1>6, <1>7, <1>8 DEF Next, Derived

\* A setup that gets to its end leaves all copies at its release.
LEMMA FinishedStep ==
  ASSUME IInv, [Next]_vars
  PROVE  FinishedInv'
<1> USE DEF Goto, IInv
<1> SUFFICES ASSUME at' \in {"idle", "release"}, release' \in completed'
             PROVE  /\ \A s \in Sizes : Kept(s)'
                    /\ \A c \in Written : shapefile'[c] = release'
                    /\ release' \in stac'
  BY DEF FinishedInv
<1>1. CASE PublishMunicipalities
  BY <1>1 DEF PublishMunicipalities, storeVars, CopyInv, Kept, Whole, NoRows, CatalogInv, Copying
<1>2. CASE StartSetup \/ SetupFails \/ NextDay \/ UNCHANGED vars
  <2>1. /\ table' = table /\ shapefile' = shapefile /\ stac' = stac /\ release' = release
        /\ completed' = completed /\ invalid' = invalid /\ at \in {"idle", "release"} \cup Begun
    BY <1>2 DEF StartSetup, SetupFails, NextDay, vars, localVars, storeVars, TypeInv, TypeOK, Steps,
       Begun, Regional, Saving, Copying
  <2>2. at \in {"idle", "release"} /\ release \in completed
    BY <2>1 DEF OwnInv
  <2> QED BY <2>1, <2>2 DEF FinishedInv, Kept, Whole, NoRows
<1>3. CASE ~(PublishMunicipalities \/ StartSetup \/ SetupFails \/ NextDay \/ UNCHANGED vars)
  <2>1. at' \notin {"idle", "release"}
    BY <1>3 DEF Next, TestDataset, Derived, CreateRelease, FindCounty, UploadOsm, UploadFkb,
       UploadSmall, AfterRegion, SaveReleaseCatalog, SaveRootCatalog, SynthesizeRegion,
       SkipRegion, TakeRegion, FinishSynthesis, SeedChunk, BuildIndex, SkipTable, NextTable,
       UploadComponent, SkipComponent, NextComponent
  <2> QED BY <2>1
<1> QED BY <1>1, <1>2, <1>3

-----------------------------------------------------------------------------
\* Every step keeps the invariant.
LEMMA InvStep ==
  ASSUME IInv, [Next]_vars
  PROVE  IInv'
BY TypeStep, ReleaseStep, OwnStep, RegionStep, LargerStep, SizeStep, CatalogStep, CopyStep,
   FinishedStep
   DEF IInv

\* Releases, copies and the catalog agree in every reachable state (setup pipeline).
LEMMA Inductive == Spec => []IInv
<1>1. IInv /\ [Next]_vars => IInv'
  BY InvStep
<1> QED BY Initially, <1>1, PTL DEF Spec

\* The state stays in its domains, for every number of counties, files and setups.
THEOREM TypeCorrect == Spec => []TypeOK
<1>1. IInv => TypeOK
  BY DEF IInv, TypeInv
<1> QED BY Inductive, <1>1, PTL

\* However many setups fail, and wherever they do, no release is ever written to
\* by two of them: the release a setup creates is always a new one.
THEOREM ReleaseHasOneSetup == Spec => []OneSetupPerRelease
<1>1. IInv => OneSetupPerRelease
  BY DEF IInv
<1> QED BY Inductive, <1>1, PTL

\* A release listed in the stored root catalog has all its files.
THEOREM ListedIsComplete == Spec => []CatalogListsCompleteReleases
<1>1. IInv => CatalogListsCompleteReleases
  BY DEF IInv, CatalogInv
<1> QED BY Inductive, <1>1, PTL

\* The root catalog that a setup writes back never lacks a release it had.
THEOREM NothingIsUnlisted == Spec => ListedStaysListed
<1>1. IInv /\ [Next]_vars => [stac \subseteq stac']_vars
  BY CatalogStep DEF IInv
<1> QED BY Inductive, <1>1, PTL DEF Spec, ListedStaysListed

\* Tables and shapefile components are copies of complete releases, and a table
\* with an index is a whole one.
THEOREM CopiesAreComplete == Spec => []CopiesAreOfCompleteReleases
<1>1. IInv => CopiesAreOfCompleteReleases
  BY DEF IInv
<1> QED BY Inductive, <1>1, PTL

\* After a setup that ran to its end, tables and shapefile are whole copies of its release,
\* but for the tables the release has no rows for and the components GDAL did not write.
THEOREM FinishedIsWhole == Spec => []FinishedSetupRenewsCopies
<1>1. IInv => FinishedSetupRenewsCopies
  BY DEF IInv, FinishedInv, FinishedSetupRenewsCopies, Kept, Whole, IsCopyOf
<1> QED BY Inductive, <1>1, PTL

-----------------------------------------------------------------------------
(***************************************************************************)
(* The setups implement PublishedReleases.                                 *)
(***************************************************************************)

\* A setup builds the last release there is, and lists it once.
LatestInv ==
  /\ at \in Begun => releases # <<>> /\ release = releases[Len(releases)]
  /\ \A r \in stac : Known(r)
  /\ at \in Regional \cup Saving => release \notin stac

PublicInv == IInv /\ LatestInv

\* Releases that have been created stay in releases.parquet.
LEMMA KnownStays ==
  ASSUME TypeInv, [Next]_vars, NEW r, Known(r)
  PROVE  Known(r)'
<1>1. CASE CreateRelease
  <2>1. releases \in Seq(Release) /\ releases' = Append(releases, release')
    BY <1>1 DEF TypeInv, TypeOK, CreateRelease
  <2>2. PICK i \in 1 .. Len(releases) : releases[i] = r
    BY DEF Known
  <2>3. i \in 1 .. Len(releases') /\ releases'[i] = r
    BY <2>1, <2>2
  <2> QED BY <2>3 DEF Known
<1>2. CASE ~CreateRelease
  <2>1. releases' = releases
    BY <1>2 DEF Next, vars, storeVars, TestDataset, Derived, StartSetup, FindCounty, UploadOsm,
       UploadFkb, UploadSmall, SaveReleaseCatalog, SaveRootCatalog, SynthesizeRegion,
       FinishSynthesis, SkipRegion, SkipTable, SkipComponent, SeedChunk, BuildIndex,
       UploadComponent, PublishMunicipalities, SetupFails, NextDay
  <2> QED BY <2>1 DEF Known
<1> QED BY <1>1, <1>2

\* A new release is appended, and is not listed yet.
LEMMA LatestStep ==
  ASSUME IInv, LatestInv, [Next]_vars
  PROVE  LatestInv'
<1> USE DEF Goto, Regional, Saving, Copying, Begun
<1>1. CASE CreateRelease
  <2>1. /\ releases \in Seq(Release) /\ NextRelease(today) \in Release
        /\ releases' = Append(releases, release') /\ release' = NextRelease(today)
        /\ at' = "county" /\ stac' = stac
    <3>1. release' \in Release
      BY TypeStep DEF IInv, TypeInv, TypeOK
    <3> QED BY <1>1, <3>1 DEF IInv, TypeInv, TypeOK, CreateRelease
  <2>2. Len(releases') = Len(releases) + 1 /\ releases'[Len(releases')] = release'
        /\ releases' # <<>>
    BY <2>1
  <2>3. release' \notin stac
    BY <2>1, NextReleaseIsNew DEF IInv, LatestInv
  <2>4. \A r \in stac : Known(r)'
    BY KnownStays DEF IInv, LatestInv
  <2> QED BY <2>1, <2>2, <2>3, <2>4 DEF LatestInv
<1>2. CASE SaveRootCatalog
  <2>1. /\ stac' = stac \cup {release} /\ at = "saveRoot" /\ at' = "synthesize"
        /\ UNCHANGED <<releases, release>>
    BY <1>2 DEF SaveRootCatalog, ListAlso, IInv, CatalogInv
  <2>2. Known(release)
    BY <2>1 DEF IInv, OwnInv
  <2>3. \A r \in stac' : Known(r)'
    BY <2>1, <2>2 DEF Known, LatestInv
  <2> QED BY <2>1, <2>3 DEF LatestInv
<1>3. CASE StartSetup
  BY <1>3 DEF StartSetup, storeVars, LatestInv, Known
<1>4. CASE FindCounty
  BY <1>4 DEF FindCounty, LatestInv, Known
<1>5. CASE UploadOsm
  BY <1>5 DEF UploadOsm, LatestInv, Known
<1>6. CASE UploadFkb
  BY <1>6 DEF UploadFkb, LatestInv, Known
<1>7. CASE UploadSmall
  BY <1>7 DEF UploadSmall, AfterRegion, LatestInv, Known
<1>8. CASE SaveReleaseCatalog
  BY <1>8 DEF SaveReleaseCatalog, LatestInv, Known
<1>9. CASE SynthesizeRegion \/ SkipRegion
  BY <1>9 DEF SynthesizeRegion, SkipRegion, TakeRegion, storeVars, LatestInv, Known
<1>10. CASE FinishSynthesis
  BY <1>10 DEF FinishSynthesis, storeVars, LatestInv, Known
<1>11. CASE SeedChunk
  BY <1>11 DEF SeedChunk, LatestInv, Known
<1>12. CASE BuildIndex \/ SkipTable
  BY <1>12 DEF BuildIndex, SkipTable, NextTable, storeVars, LatestInv, Known
<1>13. CASE UploadComponent \/ SkipComponent
  BY <1>13 DEF UploadComponent, SkipComponent, NextComponent, storeVars, LatestInv, Known
<1>14. CASE PublishMunicipalities
  BY <1>14 DEF PublishMunicipalities, storeVars, LatestInv, Known
<1>15. CASE SetupFails
  BY <1>15 DEF SetupFails, storeVars, LatestInv, Known
<1>16. CASE NextDay
  BY <1>16 DEF NextDay, localVars, storeVars, LatestInv, Known
<1>17. CASE UNCHANGED vars
  BY <1>17 DEF vars, localVars, storeVars, LatestInv, Known
<1> QED
  BY <1>1, <1>2, <1>3, <1>4, <1>5, <1>6, <1>7, <1>8, <1>9, <1>10, <1>11, <1>12, <1>13, <1>14,
     <1>15, <1>16, <1>17
  DEF Next, TestDataset, Derived

\* All other releases of the catalog are earlier than the one a setup builds.
LEMMA OthersAreEarlier ==
  ASSUME PublicInv, at \in Begun, NEW q \in stac, q # release
  PROVE  Published!Earlier(q, release)
<1>1. q \in Release /\ release \in Release
  BY DEF PublicInv, IInv, TypeInv, TypeOK
<1>2. NotLater(q, release)
  BY DEF PublicInv, IInv, LatestInv, ReleaseInv, Known
<1>3. q.day = release.day /\ q.version = release.version => q = release
  BY <1>1 DEF Release
<1>4. q.day \in Nat /\ q.version \in Nat /\ release.day \in Nat /\ release.version \in Nat
  BY <1>1 DEF Release
<1> QED BY <1>2, <1>3, <1>4 DEF NotLater, Published!Earlier

\* While the copies are renewed, the release of the setup is the latest one listed.
LEMMA CopyingIsLatest ==
  ASSUME PublicInv, at \in Copying
  PROVE  release \in stac /\ Published!Latest(release)
<1>1. release \in stac
  BY DEF PublicInv, IInv, CatalogInv, Copying
<1> QED BY <1>1, OthersAreEarlier DEF Published!Latest, Begun

\* A whole copy shows its release, before and after a step.
LEMMA ReleaseOfTable ==
  ASSUME NEW s \in Sizes
  PROVE  /\ Whole(s) => TableRelease(s) = release
         /\ Whole(s)' => TableRelease(s)' = release'
<1>1. ASSUME NEW r, IsCopyOf(s, r)
      PROVE  \E x \in table[s].rows : x[1] = r /\ IsCopyOf(s, x[1])
  <2>1. table[s].rows = {r} \X (1 .. Chunks) /\ 1 \in 1 .. Chunks
    BY <1>1, SetupAssumption DEF IsCopyOf
  <2>2. <<r, 1>> \in table[s].rows /\ <<r, 1>>[1] = r
    BY <2>1
  <2> QED BY <1>1, <2>2
<1>2. ASSUME NEW r, NEW x \in table[s].rows, IsCopyOf(s, r)
      PROVE  x[1] = r
  BY <1>2 DEF IsCopyOf
<1>3. ASSUME Whole(s) PROVE TableRelease(s) = release
  <2>1. IsCopyOf(s, release)
    BY <1>3 DEF Whole, IsCopyOf
  <2>2. \E x \in table[s].rows : IsCopyOf(s, x[1])
    BY <1>1, <2>1
  <2> QED BY <1>2, <2>1, <2>2 DEF TableRelease
<1>4. ASSUME Whole(s)' PROVE TableRelease(s)' = release'
  <2>1. IsCopyOf(s, release)'
    BY <1>4 DEF Whole, IsCopyOf
  <2>2. table'[s].rows = {release'} \X (1 .. Chunks) /\ 1 \in 1 .. Chunks
    BY <1>4, SetupAssumption DEF Whole
  <2>3. <<release', 1>> \in table'[s].rows /\ <<release', 1>>[1] = release'
    BY <2>2
  <2>4. \A x \in table'[s].rows : x[1] = release'
    BY <2>2
  <2>5. \E x \in table'[s].rows : IsCopyOf(s, x[1])'
    BY <2>1, <2>3 DEF IsCopyOf
  <2> QED BY <2>4, <2>5 DEF TableRelease, IsCopyOf
<1> QED BY <1>3, <1>4

\* The place of a size among the copies.
PlaceOf(s) == CASE s = "small" -> 1 [] s = "medium" -> 2 [] s = "large" -> 3

\* The places of the tables among the copies are those of the sizes.
LEMMA Places ==
  /\ CopyOf(1) = TableRelease("small") /\ CopyOf(2) = TableRelease("medium")
  /\ CopyOf(3) = TableRelease("large") /\ CopyOf(4) = ShapefileRelease
  /\ CopyOf(1)' = TableRelease("small")' /\ CopyOf(2)' = TableRelease("medium")'
  /\ CopyOf(3)' = TableRelease("large")' /\ CopyOf(4)' = ShapefileRelease'
BY DEF CopyOf

\* What a listed release lacks are the tables it has no rows for.
LEMMA LackingIs ==
  ASSUME NEW r \in stac
  PROVE  /\ \A s \in Sizes : <<r, PlaceOf(s)>> \in Lacking <=> NoRows(s, r)
         /\ <<r, 4>> \notin Lacking
<1>1. \A i : <<r, i>> \in Lacking <=> /\ i \in 2 .. 3
                                     /\ NoRows(<<"small", "medium", "large">>[i], r)
  BY DEF Lacking
<1>2. <<r, 1>> \notin Lacking /\ <<r, 4>> \notin Lacking /\ ~NoRows("small", r)
  BY <1>1 DEF NoRows
<1>3. /\ <<r, 2>> \in Lacking <=> NoRows("medium", r)
      /\ <<r, 3>> \in Lacking <=> NoRows("large", r)
  BY <1>1
<1> QED BY <1>2, <1>3 DEF Sizes, PlaceOf

\* What a listed release lacks is settled.
LEMMA LackingStays ==
  ASSUME PublicInv, [Next]_vars, stac' = stac
  PROVE  Lacking' = Lacking
<1>1. ASSUME NEW q \in stac, NEW g PROVE <<q, g>> \in invalid' <=> <<q, g>> \in invalid
  <2>1. CASE invalid' = invalid
    BY <2>1
  <2>2. CASE at = "fkb" /\ invalid' = invalid \cup {<<release, region>>}
    <3>1. q # release
      BY <2>2 DEF PublicInv, LatestInv, Regional
    <3> QED BY <2>2, <3>1
  <2> QED BY <2>1, <2>2, InvalidOfStep
<1>2. \A q \in stac : \A s : NoRows(s, q)' <=> NoRows(s, q)
  BY <1>1 DEF NoRows
<1>3. \A x \in stac \X (2 .. 3) : x[1] \in stac
  OBVIOUS
<1> QED BY <1>2, <1>3 DEF Lacking

\* A table the setup is done with lets those after it have their turn.
LEMMA KeptIsPassed ==
  ASSUME NEW s \in Sizes, release \in stac, Kept(s)
  PROVE  CopyOf(PlaceOf(s)) = release \/ <<release, PlaceOf(s)>> \in Lacking
<1>1. CASE Whole(s)
  <2>1. TableRelease(s) = release
    BY <1>1, ReleaseOfTable
  <2> QED BY <2>1, Places DEF Sizes, PlaceOf
<1>2. CASE NoRows(s, release)
  BY <1>2, LackingIs
<1> QED BY <1>1, <1>2 DEF Kept

\* The tables before the one that is seeded are of the release or passed over.
LEMMA TurnOfTable ==
  ASSUME PublicInv, at = "seed", HasRows
  PROVE  PlaceOf(size) \in 1 .. 3 /\ Published!Turn(PlaceOf(size), release)
<1>1. release \in stac /\ Published!Latest(release)
  BY CopyingIsLatest DEF Copying
<1>2. size \in Sizes /\ (size # "small" => Kept("small")) /\ (size = "large" => Kept("medium"))
  BY DEF PublicInv, IInv, TypeInv, TypeOK, CopyInv
<1>3. <<release, PlaceOf(size)>> \notin Lacking
  <2>1. PICK b \in blobs : b.dataset = size /\ b.release = release
    BY DEF HasRows
  <2>2. b.region \in Regions
    BY DEF PublicInv, IInv, TypeInv, TypeOK
  <2>3. size # "small" => <<release, b.region>> \notin invalid
    BY <1>2, <2>1 DEF PublicInv, IInv, LargerInv, Larger, Sizes
  <2>4. ~NoRows(size, release)
    BY <2>2, <2>3 DEF NoRows
  <2> QED BY <1>1, <1>2, <2>4, LackingIs
<1>4. CASE size = "small"
  BY <1>1, <1>3, <1>4 DEF Published!Turn, PlaceOf
<1>5. CASE size = "medium"
  <2>1. CopyOf(1) = release \/ <<release, 1>> \in Lacking
    BY <1>1, <1>2, <1>5, KeptIsPassed DEF Sizes, PlaceOf
  <2> QED BY <1>1, <1>3, <1>5, <2>1 DEF Published!Turn, PlaceOf
<1>6. CASE size = "large"
  <2>1. /\ CopyOf(1) = release \/ <<release, 1>> \in Lacking
        /\ CopyOf(2) = release \/ <<release, 2>> \in Lacking
    BY <1>1, <1>2, <1>6, KeptIsPassed DEF Sizes, PlaceOf
  <2>2. \A j \in 1 .. (3 - 1) : CopyOf(j) = release \/ <<release, j>> \in Lacking
    BY <2>1
  <2> QED BY <1>1, <1>3, <1>6, <2>2 DEF Published!Turn, PlaceOf
<1> QED BY <1>2, <1>4, <1>5, <1>6 DEF Sizes, PlaceOf

\* The shapefile copy is made when the setup is done with all tables.
LEMMA TurnOfShapefile ==
  ASSUME PublicInv, at = "shapefile"
  PROVE  Published!Turn(4, release)
<1>1. release \in stac /\ Published!Latest(release) /\ <<release, 4>> \notin Lacking
  BY CopyingIsLatest, LackingIs DEF Copying
<1>2. \A s \in Sizes : Kept(s)
  BY DEF PublicInv, IInv, CopyInv
<1>3. /\ CopyOf(1) = release \/ <<release, 1>> \in Lacking
      /\ CopyOf(2) = release \/ <<release, 2>> \in Lacking
      /\ CopyOf(3) = release \/ <<release, 3>> \in Lacking
  BY <1>1, <1>2, KeptIsPassed DEF Sizes, PlaceOf
<1>4. \A j \in 1 .. (4 - 1) : CopyOf(j) = release \/ <<release, j>> \in Lacking
  BY <1>3
<1> QED BY <1>1, <1>4 DEF Published!Turn

\* A step that writes to one table moves one copy.
LEMMA OneTable ==
  ASSUME PublicInv, at = "seed", HasRows,
         shapefile' = shapefile, stac' = stac, Lacking' = Lacking,
         NEW s \in Sizes, s = size,
         \A t \in Sizes \ {s} : table'[t] = table[t],
         TableRelease(s)' \in {release, NoRelease}
  PROVE  Published!Next
<1> DEFINE k == PlaceOf(s)
           copies == [i \in 1 .. 4 |-> CopyOf(i)]
<1>1. k \in 1 .. 4 /\ Published!Turn(k, release) /\ release \in stac
  BY TurnOfTable, CopyingIsLatest DEF Copying
<1>2. ASSUME NEW t \in Sizes \ {s} PROVE TableRelease(t)' = TableRelease(t)
  <2>1. table'[t] = table[t]
    OBVIOUS
  <2> QED BY <2>1 DEF TableRelease, IsCopyOf
<1>3. ShapefileRelease' = ShapefileRelease
  BY DEF ShapefileRelease
<1>4. \A i \in 1 .. 4 : CopyOf(i)' = IF i = k THEN TableRelease(s)' ELSE CopyOf(i)
  <2>1. \A i \in 1 .. 4 : i \in {1, 2, 3, 4}
    OBVIOUS
  <2>2. CASE s = "small"
    <3>1. k = 1
      BY <2>2 DEF PlaceOf
    <3>2. TableRelease("medium")' = TableRelease("medium")
          /\ TableRelease("large")' = TableRelease("large")
      BY <1>2, <2>2 DEF Sizes
    <3> QED BY <1>3, <2>1, <2>2, <3>1, <3>2, Places
  <2>3. CASE s = "medium"
    <3>1. k = 2
      BY <2>3 DEF PlaceOf
    <3>2. TableRelease("small")' = TableRelease("small")
          /\ TableRelease("large")' = TableRelease("large")
      BY <1>2, <2>3 DEF Sizes
    <3> QED BY <1>3, <2>1, <2>3, <3>1, <3>2, Places
  <2>4. CASE s = "large"
    <3>1. k = 3
      BY <2>4 DEF PlaceOf
    <3>2. TableRelease("small")' = TableRelease("small")
          /\ TableRelease("medium")' = TableRelease("medium")
      BY <1>2, <2>4 DEF Sizes
    <3> QED BY <1>3, <2>1, <2>4, <3>1, <3>2, Places
  <2> QED BY <2>2, <2>3, <2>4 DEF Sizes
<1>5. copies' = [copies EXCEPT ![k] = TableRelease(s)']
  <2>1. copies' = [i \in 1 .. 4 |-> CopyOf(i)']
    OBVIOUS
  <2>2. \A i \in 1 .. 4 : copies[i] = CopyOf(i)
    OBVIOUS
  <2>3. DOMAIN copies = 1 .. 4
    OBVIOUS
  <2> HIDE DEF copies, k
  <2> QED BY <1>1, <1>4, <2>1, <2>2, <2>3
<1>6. CASE TableRelease(s)' = NoRelease
  <2>1. Published!Withdraw(k)
    BY <1>1, <1>5, <1>6 DEF Published!Withdraw
  <2> QED BY <1>1, <2>1 DEF Published!Next
<1>7. CASE TableRelease(s)' = release
  <2>1. Published!Deliver(k)
    BY <1>1, <1>5, <1>7 DEF Published!Deliver
  <2> QED BY <1>1, <2>1 DEF Published!Next
<1> QED BY <1>6, <1>7

\* Every step is one of PublishedReleases, or none that a reader would notice.
LEMMA PublicStep ==
  ASSUME PublicInv, [Next]_vars
  PROVE  [Published!Next]_(Published!vars)
<1> DEFINE copies == [i \in 1 .. 4 |-> CopyOf(i)]
<1>1. ASSUME UNCHANGED <<table, shapefile>> PROVE copies' = copies
  BY <1>1 DEF CopyOf, TableRelease, IsCopyOf, ShapefileRelease
<1>2. CASE SaveRootCatalog
  <2>1. /\ stac' = stac \cup {release} /\ at = "saveRoot"
        /\ UNCHANGED <<table, shapefile, invalid>>
    BY <1>2 DEF SaveRootCatalog, ListAlso, PublicInv, IInv, CatalogInv, Saving
  <2>2. release \in stac' \ stac
    BY <2>1 DEF PublicInv, LatestInv, Saving
  <2>3. \A q \in stac : Published!Earlier(q, release)
    BY <2>1, <2>2, OthersAreEarlier DEF Begun, Saving
  <2>4. copies' = copies
    BY <1>1, <2>1
  <2> DEFINE none == {i \in 2 .. 3 : NoRows(<<"small", "medium", "large">>[i], release)}
  <2>5. Lacking' = Lacking \cup ({release} \X none)
    <3>1. \A s, q : NoRows(s, q)' <=> NoRows(s, q)
      BY <2>1 DEF NoRows
    <3>2. Lacking' = {x \in stac' \X (2 .. 3) : NoRows(<<"small", "medium", "large">>[x[2]], x[1])}
      BY <3>1 DEF Lacking
    <3> QED BY <2>1, <3>2 DEF Lacking
  <2>6. none \in SUBSET (1 .. 4)
    OBVIOUS
  <2>7. Published!Publish
    <3> HIDE DEF none, copies
    <3> QED BY <2>1, <2>2, <2>3, <2>4, <2>5, <2>6 DEF Published!Publish, copies
  <2> QED BY <2>7 DEF Published!Next
<1>3. CASE SeedChunk
  <2>1. /\ at = "seed" /\ UNCHANGED <<stac, shapefile>> /\ size \in Sizes /\ HasRows
        /\ table' = [table EXCEPT ![size] = [rows |-> RowsWith(progress + 1),
                                             index |-> IF progress = 0 THEN "none" ELSE @.index]]
    BY <1>3 DEF SeedChunk, PublicInv, IInv, TypeInv, TypeOK
  <2> PICK s \in Sizes : s = size
    BY <2>1
  <2>2. /\ table'[s].index = "none"
        /\ \A t \in Sizes \ {s} : table'[t] = table[t]
    <3>1. progress \in 0 .. Chunks /\ (progress > 0 => table[size].index = "none")
      BY <2>1 DEF PublicInv, IInv, CopyInv
    <3>2. DOMAIN table = Sizes
      BY DEF PublicInv, IInv, TypeInv
    <3> QED BY <2>1, <3>1, <3>2
  <2>3. TableRelease(s)' = NoRelease
    <3>1. \A r : ~IsCopyOf(s, r)'
      BY <2>2 DEF IsCopyOf
    <3> QED BY <3>1 DEF TableRelease
  <2> QED BY <2>1, <2>2, <2>3, LackingStays, OneTable
<1>4. CASE BuildIndex
  <2>1. /\ at = "seed" /\ UNCHANGED <<stac, shapefile, release>> /\ size \in Sizes
        /\ progress = Chunks /\ table' = [table EXCEPT ![size].index = "built"]
    BY <1>4 DEF BuildIndex, AllSeeded, PublicInv, IInv, TypeInv, TypeOK
  <2>2. HasRows /\ table[size] = [rows |-> {release} \X (1 .. Chunks), index |-> "none"]
    BY <2>1, SetupAssumption DEF PublicInv, IInv, CopyInv
  <2>3. DOMAIN table = Sizes
    BY DEF PublicInv, IInv, TypeInv
  <2> PICK s \in Sizes : s = size
    BY <2>1
  <2>4. /\ table'[s] = [rows |-> {release} \X (1 .. Chunks), index |-> "built"]
        /\ \A t \in Sizes \ {s} : table'[t] = table[t]
    BY <2>1, <2>2, <2>3
  <2>5. Whole(s)'
    BY <2>1, <2>4 DEF Whole
  <2>6. TableRelease(s)' = release
    BY <2>1, <2>5, ReleaseOfTable
  <2> QED BY <2>1, <2>2, <2>4, <2>6, LackingStays, OneTable
<1>5. CASE UploadComponent
  <2>1. /\ at = "shapefile" /\ UNCHANGED <<stac, table>>
        /\ shapefile' = [shapefile EXCEPT ![progress + 1] = release]
        /\ progress + 1 \in 1 .. Components /\ DOMAIN shapefile = 1 .. Components
    BY <1>5, SetupAssumption DEF UploadComponent, NextComponent, PublicInv, IInv, TypeInv, TypeOK,
       CopyInv
  <2>2. Published!Turn(4, release) /\ release \in stac /\ Lacking' = Lacking
    BY <2>1, TurnOfShapefile, CopyingIsLatest, LackingStays DEF Copying
  <2>3. ShapefileRelease' \in {release, NoRelease}
    <3>1. 1 \in Written /\ progress \in Nat
      BY <2>1, SetupAssumption DEF Written, PublicInv, IInv, TypeInv, TypeOK
    <3>2. progress # 0 => shapefile[1] = release
      BY <2>1, <3>1 DEF PublicInv, IInv, CopyInv
    <3>3. shapefile'[1] = release
      BY <2>1, <3>1, <3>2
    <3> QED BY <3>3 DEF ShapefileRelease
  <2>4. \A i \in 1 .. 3 : CopyOf(i)' = CopyOf(i)
    <3>1. \A s \in Sizes : TableRelease(s)' = TableRelease(s)
      BY <2>1 DEF TableRelease, IsCopyOf
    <3>2. \A i \in 1 .. 3 : i \in {1, 2, 3}
      OBVIOUS
    <3> QED BY <3>1, <3>2, Places DEF Sizes
  <2>5. copies' = [copies EXCEPT ![4] = ShapefileRelease']
    <3>1. \A i \in 1 .. 4 : i = 4 \/ i \in 1 .. 3
      OBVIOUS
    <3>2. CopyOf(4)' = ShapefileRelease'
      BY Places
    <3>3. \A i \in 1 .. 4 : CopyOf(i)' = IF i = 4 THEN ShapefileRelease' ELSE CopyOf(i)
      BY <2>4, <3>1, <3>2
    <3> QED BY <3>3
  <2>6. CASE ShapefileRelease' = NoRelease
    <3>1. Published!Withdraw(4)
      BY <2>1, <2>2, <2>5, <2>6 DEF Published!Withdraw
    <3> QED BY <3>1 DEF Published!Next
  <2>7. CASE ShapefileRelease' = release
    <3>1. Published!Deliver(4)
      BY <2>1, <2>2, <2>5, <2>7 DEF Published!Deliver
    <3> QED BY <3>1 DEF Published!Next
  <2> QED BY <2>3, <2>6, <2>7
<1>6. CASE UNCHANGED <<stac, table, shapefile>>
  BY <1>1, <1>6, LackingStays DEF Published!vars
<1>7. \/ SaveRootCatalog \/ SeedChunk \/ BuildIndex \/ UploadComponent
      \/ UNCHANGED <<stac, table, shapefile>>
  BY DEF Next, vars, storeVars, TestDataset, Derived, StartSetup, CreateRelease, FindCounty,
     UploadOsm, UploadFkb, UploadSmall, SaveReleaseCatalog, SynthesizeRegion, SkipRegion,
     FinishSynthesis, SkipTable, SkipComponent, PublishMunicipalities, SetupFails, NextDay
<1> QED BY <1>2, <1>3, <1>4, <1>5, <1>6, <1>7

\* There is no release at first.
LEMMA PublicInitially == Init => LatestInv /\ Published!Init
<1> SUFFICES ASSUME Init PROVE LatestInv /\ Published!Init
  OBVIOUS
<1>1. LatestInv
  BY DEF Init, LatestInv, Begun, Regional, Saving, Copying
<1>2. \A i \in 1 .. 4 : CopyOf(i) = NoRelease
  <2>1. \A s \in Sizes : TableRelease(s) = NoRelease
    BY DEF Init, TableRelease
  <2>2. ShapefileRelease = NoRelease
    BY SetupAssumption DEF Init, ShapefileRelease
  <2> QED BY <2>1, <2>2, Places DEF Sizes
<1>3. Published!Init
  <2>1. Lacking = {}
    BY DEF Lacking, Init
  <2> QED BY <1>2, <2>1 DEF Published!Init, Init
<1> QED BY <1>1, <1>3

\* A setup always works on the last release there is (setup pipeline).
LEMMA PublicInductive == Spec => []PublicInv
<1>1. PublicInv /\ [Next]_vars => PublicInv'
  BY InvStep, LatestStep DEF PublicInv
<1>2. Init => PublicInv
  BY Initially, PublicInitially DEF PublicInv
<1> QED BY <1>1, <1>2, PTL DEF Spec

\* Whatever setups fail and wherever they do, readers of the catalog and of the copies
\* see what PublishedReleases allows (setup_benchmarking_framework).
THEOREM Refinement == Spec => ImplementsPublished
<1>1. PublicInv /\ [Next]_vars => [Published!Next]_(Published!vars)
  BY PublicStep
<1> QED BY <1>1, PublicInitially, PublicInductive, PTL DEF Spec, ImplementsPublished, Published!Spec

\* Releases are listed from older to newer, so the order of the copies is kept.
LEMMA OrderStep ==
  ASSUME Published!CopiesInOrder, [Published!Next]_(Published!vars)
  PROVE  Published!CopiesInOrder'
<1> DEFINE copies == [i \in 1 .. 4 |-> CopyOf(i)]
<1>1. \A i \in 1 .. 4 : copies[i] = NoRelease \/ copies[i] \in stac
  BY DEF Published!CopiesInOrder
<1>2. \A i, j \in 1 .. 4 :
        i < j => \/ copies[i] = NoRelease \/ copies[j] = NoRelease
                 \/ copies[i] = copies[j] \/ Published!Earlier(copies[j], copies[i])
                 \/ <<copies[j], i>> \in Lacking
  BY DEF Published!CopiesInOrder
<1>3. DOMAIN copies = 1 .. 4 /\ DOMAIN copies' = 1 .. 4
  OBVIOUS
<1> SUFFICES /\ \A i \in 1 .. 4 : copies'[i] = NoRelease \/ copies'[i] \in stac'
             /\ \A i, j \in 1 .. 4 :
                  i < j => \/ copies'[i] = NoRelease \/ copies'[j] = NoRelease
                           \/ copies'[i] = copies'[j]
                           \/ Published!Earlier(copies'[j], copies'[i])
                           \/ <<copies'[j], i>> \in Lacking'
  BY DEF Published!CopiesInOrder, Published!Earlier
<1>4. CASE Published!Publish
  <2>1. copies' = copies /\ stac \subseteq stac' /\ Lacking \subseteq Lacking'
    BY <1>4 DEF Published!Publish
  <2> HIDE DEF copies
  <2> QED BY <1>1, <1>2, <2>1
<1>5. ASSUME NEW k \in 1 .. 4, Published!Withdraw(k)
      PROVE  /\ \A i \in 1 .. 4 : copies'[i] = NoRelease \/ copies'[i] \in stac'
             /\ \A i, j \in 1 .. 4 :
                  i < j => \/ copies'[i] = NoRelease \/ copies'[j] = NoRelease
                           \/ copies'[i] = copies'[j]
                           \/ Published!Earlier(copies'[j], copies'[i])
                           \/ <<copies'[j], i>> \in Lacking'
  <2>1. copies' = [copies EXCEPT ![k] = NoRelease] /\ UNCHANGED <<stac, Lacking>>
    BY <1>5 DEF Published!Withdraw
  <2> HIDE DEF copies
  <2> QED BY <1>1, <1>2, <1>3, <2>1
<1>6. ASSUME NEW k \in 1 .. 4, Published!Deliver(k)
      PROVE  /\ \A i \in 1 .. 4 : copies'[i] = NoRelease \/ copies'[i] \in stac'
             /\ \A i, j \in 1 .. 4 :
                  i < j => \/ copies'[i] = NoRelease \/ copies'[j] = NoRelease
                           \/ copies'[i] = copies'[j]
                           \/ Published!Earlier(copies'[j], copies'[i])
                           \/ <<copies'[j], i>> \in Lacking'
  <2>1. PICK r \in stac : Published!Turn(k, r) /\ copies' = [copies EXCEPT ![k] = r]
    BY <1>6 DEF Published!Deliver
  <2>2. UNCHANGED <<stac, Lacking>>
    BY <1>6 DEF Published!Deliver
  <2>3. \A q \in stac : q = r \/ Published!Earlier(q, r)
    BY <2>1 DEF Published!Turn, Published!Latest
  <2>4. \A j \in 1 .. 4 : j < k => copies[j] = r \/ <<r, j>> \in Lacking
    <3>1. \A j \in 1 .. (k - 1) : copies[j] = r \/ <<r, j>> \in Lacking
      BY <2>1 DEF Published!Turn
    <3>2. \A j \in 1 .. 4 : j < k => j \in 1 .. (k - 1)
      OBVIOUS
    <3> HIDE DEF copies
    <3> QED BY <3>1, <3>2
  <2>5. copies'[k] = r /\ \A i \in (1 .. 4) \ {k} : copies'[i] = copies[i]
    <3> HIDE DEF copies
    <3> QED BY <1>3, <2>1
  <2> HIDE DEF copies
  <2>6. ASSUME NEW i \in 1 .. 4, NEW j \in 1 .. 4, i < j
        PROVE  \/ copies'[i] = NoRelease \/ copies'[j] = NoRelease
               \/ copies'[i] = copies'[j] \/ Published!Earlier(copies'[j], copies'[i])
               \/ <<copies'[j], i>> \in Lacking'
    <3>1. CASE i = k
      <4>1. copies'[i] = r /\ copies'[j] = copies[j]
        BY <2>5, <2>6, <3>1
      <4> QED BY <1>1, <2>3, <4>1
    <3>2. CASE j = k
      <4>1. copies'[j] = r /\ copies'[i] = copies[i]
        BY <2>5, <2>6, <3>2
      <4> QED BY <2>2, <2>4, <2>6, <3>2, <4>1
    <3>3. CASE i # k /\ j # k
      <4>1. copies'[j] = copies[j] /\ copies'[i] = copies[i]
        BY <2>5, <3>3
      <4> QED BY <1>2, <2>2, <2>6, <4>1
    <3> QED BY <3>1, <3>2, <3>3
  <2>7. \A i \in 1 .. 4 : copies'[i] = NoRelease \/ copies'[i] \in stac'
    BY <1>1, <2>1, <2>2, <2>5
  <2> QED BY <2>6, <2>7
<1>7. CASE UNCHANGED Published!vars
  <2>1. copies' = copies /\ UNCHANGED <<stac, Lacking>>
    BY <1>7 DEF Published!vars
  <2> HIDE DEF copies
  <2> QED BY <1>1, <1>2, <2>1
<1> QED BY <1>4, <1>5, <1>6, <1>7 DEF Published!Next

\* At any time the sizes and the shapefile copy are, where they can be used, of listed
\* releases, and none is of a newer one than those that are renewed before it, but for
\* those its release has nothing for.
THEOREM CopiesStayInOrder == Spec => []Published!CopiesInOrder
<1>1. Published!Init => Published!CopiesInOrder
  BY DEF Published!Init, Published!CopiesInOrder
<1>2. Published!CopiesInOrder /\ [Published!Next]_(Published!vars) => Published!CopiesInOrder'
  BY OrderStep
<1>3. PublicInv /\ [Next]_vars => [Published!Next]_(Published!vars)
  BY PublicStep
<1> QED BY <1>1, <1>2, <1>3, PublicInitially, PublicInductive, PTL DEF Spec
=============================================================================
