--------------------------- MODULE SetupPipeline ---------------------------
(***************************************************************************)
(* setup_benchmarking_framework: the container that builds a data release  *)
(* and hands it to the engines.  It creates a release, conflates the       *)
(* buildings region by region, saves the STAC catalog, synthesizes the     *)
(* larger datasets, seeds Postgres and uploads the shapefile copy.         *)
(*                                                                         *)
(* Any request of any step may fail, and the workflow may delete the       *)
(* container: both leave everything as the last finished upload left it,   *)
(* and the next setup starts from the beginning.  The workflow waits until *)
(* the container of the previous setup is gone, so setups do not overlap.  *)
(*                                                                         *)
(* Geometries, partition keys and row contents are left out: a dataset is  *)
(* its files.  Every county has the same number of files, at least one:    *)
(* reading a region without files would raise in DuckDB.  A county may     *)
(* still have nothing to clone, when all its conflated polygons are        *)
(* invalid: the setup warns and goes on without it, as it does without a   *)
(* table that would have no rows and without a missing shapefile component.*)
(***************************************************************************)
EXTENDS Integers, Sequences, FiniteSets

CONSTANTS
  Regions,     \* the counties, after SETUP_COUNTY_LIMIT
  Parts,       \* partitions of the conflated buildings of a region
  Chunks,      \* chunks in which a dataset is streamed into Postgres
  Components,  \* number of files of the shapefile copy
  Optional,    \* those of them that GDAL may not have written
  MaxSetups,   \* bound: setups that are started
  MaxDay       \* bound: days that pass

ASSUME SetupAssumption ==
  /\ IsFiniteSet(Regions) /\ Regions # {}
  /\ Parts \in Nat \ {0} /\ Chunks \in Nat \ {0} /\ Components \in Nat \ {0}
  /\ Optional \subseteq 2 .. Components
  /\ MaxSetups \in Nat /\ MaxDay \in Nat \ {0}

VARIABLES
  today,       \* the date, in UTC: setups run in containers
  setups,      \* setups started so far
  at,          \* step of the running setup, "idle" when there is none
  release,     \* release the setup builds
  size,        \* dataset size of the loops over sizes
  todo,        \* regions the present loop has not begun
  region,      \* region of the present iteration
  progress,    \* files or chunks the present loop has written
  root,        \* releases in the root catalog, as read when the setup began
  releases,    \* rows of releases.parquet, oldest first
  counties,    \* regions in counties.parquet
  blobs,       \* every upload of a dataset file
  invalid,     \* releases and regions whose conflated polygons are all invalid
  stacFiles,   \* releases whose catalog is stored
  stac,        \* releases the stored root catalog lists
  table,       \* the Postgres table of each dataset size
  shapefile,   \* release of each component of the shapefile copy
  completed    \* history: releases of setups that ran to their end

localVars == <<at, release, size, todo, region, progress, root>>
storeVars == <<releases, counties, blobs, invalid, stacFiles, stac, table, shapefile>>
vars == <<today, setups, localVars, storeVars, completed>>

Sizes == {"small", "medium", "large"}
Release == [day : Nat, version : Nat]
NoRelease == [day |-> 0, version |-> 0]   \* days are counted from one

\* DatasetSize, in the order of the enum.
SizeAfter(s) == CASE s = "small" -> "medium" [] s = "medium" -> "large" [] OTHER -> "none"

Goto(label) == at' = label

Upload(dataset, part) ==
  blobs' = blobs \cup {[dataset |-> dataset, release |-> release, region |-> region,
                        part |-> part, setup |-> setups]}

Stored(dataset, r, reg, part) ==
  \E b \in blobs : b.dataset = dataset /\ b.release = r /\ b.region = reg /\ b.part = part

-----------------------------------------------------------------------------
(***************************************************************************)
(* Step 1: TestDatasetService.run_pipeline.                                *)
(***************************************************************************)

\* get_catalog_root: the root catalog is read before the release exists.
StartSetup ==
  /\ at = "idle" /\ setups < MaxSetups
  /\ setups' = setups + 1
  /\ root' = stac
  /\ Goto("release")
  /\ UNCHANGED <<today, release, size, todo, region, progress, storeVars, completed>>

\* A mistake: the version is only reset, never counted.
ReleaseOfDay(date) == [day |-> date, version |-> 0]

\* create_release: the latest row by date_created is the last one appended.
NextRelease(date) ==
  IF releases = <<>> THEN [day |-> date, version |-> 0]
  ELSE LET latest == releases[Len(releases)] IN
       [day |-> date, version |-> IF date > latest.day THEN 0 ELSE latest.version + 1]

CreateRelease ==
  /\ at = "release"
  /\ release' = NextRelease(today)
  /\ releases' = Append(releases, release')
  /\ todo' = Regions
  /\ Goto("county")
  /\ UNCHANGED <<today, setups, size, region, progress, root, counties, blobs, invalid,
                 stacFiles, stac, table, shapefile, completed>>

\* get_county_polygons_by_id: from the cache, or from the API into the cache.
FindCounty ==
  /\ at = "county"
  /\ \E reg \in todo :
       /\ region' = reg
       /\ todo' = todo \ {reg}
       /\ counties' = counties \cup {reg}
  /\ Goto("osm")
  /\ UNCHANGED <<today, setups, release, size, progress, root, releases, blobs, invalid,
                 stacFiles, stac, table, shapefile, completed>>

\* The raw partitions of a source and region count as one file.
UploadOsm ==
  /\ at = "osm"
  /\ Upload("osm", 1)
  /\ Goto("fkb")
  /\ UNCHANGED <<today, setups, release, size, todo, region, progress, root, releases, counties,
                 invalid, stacFiles, stac, table, shapefile, completed>>

\* The raw files are read back and conflated before the first upload: whether any of
\* the polygons is valid is decided here, and known when the region is synthesized.
UploadFkb ==
  /\ at = "fkb"
  /\ Upload("fkb", 1)
  /\ invalid' \in {invalid, invalid \cup {<<release, region>>}}
  /\ progress' = 0
  /\ Goto("small")
  /\ UNCHANGED <<today, setups, release, size, todo, region, root, releases, counties,
                 stacFiles, stac, table, shapefile, completed>>

\* A mistake: the catalog is saved once the first region is done.
AfterFirstRegion == "saveRelease"

AfterRegion == IF todo = {} THEN "saveRelease" ELSE "county"

UploadSmall ==
  /\ at = "small"
  /\ Upload("small", progress + 1)
  /\ progress' = progress + 1
  /\ Goto(IF progress + 1 < Parts THEN "small" ELSE AfterRegion)
  /\ UNCHANGED <<today, setups, release, size, todo, region, root, releases, counties, invalid,
                 stacFiles, stac, table, shapefile, completed>>

\* save_catalog: pystac stores the children before their parent, and
\* StacIOService writes nothing but the root catalog twice.
SaveReleaseCatalog ==
  /\ at = "saveRelease"
  /\ stacFiles' = stacFiles \cup {release}
  /\ Goto("saveRoot")
  /\ UNCHANGED <<today, setups, release, size, todo, region, progress, root, releases, counties,
                 blobs, invalid, stac, table, shapefile, completed>>

\* A mistake: the stored root catalog forgets the releases it had.
ListOnly(r) == {r}

ListAlso(r) == root \cup {r}

SaveRootCatalog ==
  /\ at = "saveRoot"
  /\ stac' = ListAlso(release)
  /\ size' = "medium" /\ todo' = Regions
  /\ Goto("synthesize")
  /\ UNCHANGED <<today, setups, release, region, progress, root, releases, counties, blobs,
                 invalid, stacFiles, table, shapefile, completed>>

-----------------------------------------------------------------------------
(***************************************************************************)
(* Steps 2 to 5: the larger datasets, Postgres, the shapefile copy.        *)
(***************************************************************************)

\* __read_source_polygons: all files of the region, of which only valid polygons are kept.
TakeRegion(reg) ==
  /\ at = "synthesize" /\ reg \in todo
  /\ \A part \in 1 .. Parts : Stored("small", release, reg, part)
  /\ region' = reg
  /\ todo' = todo \ {reg}

\* One combined file is uploaded.
SynthesizeRegion ==
  /\ \E reg \in Regions :
       /\ TakeRegion(reg)
       /\ <<release, reg>> \notin invalid
       /\ blobs' = blobs \cup {[dataset |-> size, release |-> release, region |-> reg,
                                part |-> 1, setup |-> setups]}
  /\ UNCHANGED <<today, setups, at, release, size, progress, root, releases, counties, invalid,
                 stacFiles, stac, table, shapefile, completed>>

\* No polygon is left to clone: a warning, and the next region.
SkipRegion ==
  /\ \E reg \in Regions : TakeRegion(reg) /\ <<release, reg>> \in invalid
  /\ UNCHANGED <<today, setups, at, release, size, progress, root, storeVars, completed>>

\* A mistake: the loops over sizes leave out the last one.
LastSizeEarly(s) == s = "medium"

LastSize(s) == s = "large"

FinishSynthesis ==
  /\ at = "synthesize" /\ todo = {}
  /\ IF LastSize(size)
     THEN size' = "small" /\ UNCHANGED todo /\ Goto("seed")
     ELSE size' = SizeAfter(size) /\ todo' = Regions /\ UNCHANGED at
  /\ progress' = 0
  /\ UNCHANGED <<today, setups, release, region, root, storeVars, completed>>

\* A mistake: the first chunk is appended to the table of an earlier setup.
AppendedRows(chunk) == table[size].rows \cup {<<release, chunk>>}

\* if_exists="replace" for the first chunk, which also drops the old index.
RowsWith(chunk) == IF chunk = 1 THEN {<<release, chunk>>} ELSE AppendedRows(chunk)

\* No empty partition is ever uploaded, so a dataset has rows when it has a file.
HasRows == \E b \in blobs : b.dataset = size /\ b.release = release

\* to_postgis commits each chunk.
SeedChunk ==
  /\ at = "seed" /\ progress < Chunks /\ HasRows
  /\ table' = [table EXCEPT ![size] =
                 [rows |-> RowsWith(progress + 1),
                  index |-> IF progress = 0 THEN "none" ELSE @.index]]
  /\ progress' = progress + 1
  /\ UNCHANGED <<today, setups, at, release, size, todo, region, root, releases, counties,
                 blobs, invalid, stacFiles, stac, shapefile, completed>>

\* A mistake: the index is built over the first chunk.
AnySeeded == progress > 0

AllSeeded == progress = Chunks

NextTable == IF LastSize(size) THEN UNCHANGED size /\ Goto("shapefile")
                               ELSE size' = SizeAfter(size) /\ UNCHANGED at

BuildIndex ==
  /\ at = "seed" /\ AllSeeded
  /\ table' = [table EXCEPT ![size].index = "built"]
  /\ progress' = 0
  /\ NextTable
  /\ UNCHANGED <<today, setups, release, todo, region, root, releases, counties, blobs, invalid,
                 stacFiles, stac, shapefile, completed>>

\* total_rows is zero: a warning, and the table stays as an earlier setup left it.
\* (DuckDB may also refuse a pattern that no file matches, which SetupFails covers.)
SkipTable ==
  /\ at = "seed" /\ progress = 0 /\ ~HasRows
  /\ NextTable
  /\ UNCHANGED <<today, setups, release, todo, region, progress, root, storeVars, completed>>

\* copies/shapefile is one place for all releases; its files are uploaded one
\* after the other.
NextComponent ==
  /\ at = "shapefile"
  /\ progress' = progress + 1
  /\ Goto(IF progress + 1 < Components THEN "shapefile" ELSE "municipalities")

UploadComponent ==
  /\ NextComponent
  /\ shapefile' = [shapefile EXCEPT ![progress + 1] = release]
  /\ UNCHANGED <<today, setups, release, size, todo, region, root, releases, counties, blobs,
                 invalid, stacFiles, stac, table, completed>>

\* The file was not written: a warning, and the older one stays.
SkipComponent ==
  /\ progress + 1 \in Optional
  /\ NextComponent
  /\ UNCHANGED <<today, setups, release, size, todo, region, root, storeVars, completed>>

\* Step 6 copies a file that is the same for all releases; the setup ends.
PublishMunicipalities ==
  /\ at = "municipalities"
  /\ completed' = completed \cup {release}
  /\ Goto("idle")
  /\ UNCHANGED <<today, setups, release, size, todo, region, progress, root, storeVars>>

-----------------------------------------------------------------------------
(***************************************************************************)
(* The environment: a failing setup and the calendar.                      *)
(***************************************************************************)

SetupFails ==
  /\ at # "idle"
  /\ Goto("idle")
  /\ UNCHANGED <<today, setups, release, size, todo, region, progress, root, storeVars,
                 completed>>

NextDay ==
  /\ today < MaxDay
  /\ today' = today + 1
  /\ UNCHANGED <<setups, localVars, storeVars, completed>>

Init ==
  /\ today = 1 /\ setups = 0
  /\ at = "idle" /\ release = NoRelease /\ size = "small" /\ todo = {}
  /\ region \in Regions /\ progress = 0 /\ root = {}
  /\ releases = <<>> /\ counties = {} /\ blobs = {} /\ invalid = {} /\ stacFiles = {} /\ stac = {}
  /\ table = [s \in Sizes |-> [rows |-> {}, index |-> "none"]]
  /\ shapefile = [c \in 1 .. Components |-> NoRelease]
  /\ completed = {}

TestDataset == StartSetup \/ CreateRelease \/ FindCounty \/ UploadOsm \/ UploadFkb \/ UploadSmall
               \/ SaveReleaseCatalog \/ SaveRootCatalog

Derived == SynthesizeRegion \/ SkipRegion \/ FinishSynthesis
           \/ SeedChunk \/ BuildIndex \/ SkipTable
           \/ UploadComponent \/ SkipComponent \/ PublishMunicipalities

Next == TestDataset \/ Derived \/ SetupFails \/ NextDay

Spec == Init /\ [][Next]_vars

-----------------------------------------------------------------------------
Steps == {"idle", "release", "county", "osm", "fkb", "small", "saveRelease", "saveRoot",
          "synthesize", "seed", "shapefile", "municipalities"}

\* The state stays in its domains; a table only ever holds chunks that exist.
TypeOK ==
  /\ today \in 1 .. MaxDay /\ setups \in 0 .. MaxSetups
  /\ at \in Steps /\ release \in Release /\ size \in Sizes
  /\ todo \subseteq Regions /\ region \in Regions /\ progress \in Nat
  /\ releases \in Seq(Release) /\ counties \subseteq Regions
  /\ root \subseteq Release /\ stacFiles \subseteq Release /\ stac \subseteq Release
  /\ blobs \subseteq [dataset : Sizes \cup {"osm", "fkb"}, release : Release, region : Regions,
                      part : Nat, setup : 1 .. MaxSetups]
  /\ invalid \subseteq Release \X Regions
  /\ \A s \in Sizes : /\ table[s].rows \subseteq Release \X (1 .. Chunks)
                      /\ table[s].index \in {"none", "built"}
  /\ shapefile \in [1 .. Components -> Release]
  /\ completed \subseteq Release

PartsOf(dataset) == IF dataset = "small" THEN 1 .. Parts ELSE {1}

\* A larger dataset is complete without the regions that had nothing to clone.
Complete(dataset, r) ==
  \A reg \in Regions, part \in PartsOf(dataset) :
    \/ Stored(dataset, r, reg, part)
    \/ (dataset \in {"medium", "large"} /\ <<r, reg>> \in invalid)

\* A release without a valid polygon has nothing to fill the table of a larger size with.
NoRows(s, r) == s # "small" /\ \A reg \in Regions : <<r, reg>> \in invalid

\* The files of a release were all written by one setup: a setup that follows
\* a failed one, on the same or another day, never adds to its release.
OneSetupPerRelease == \A b, c \in blobs : b.release = c.release => b.setup = c.setup

\* A release the stored root catalog lists has its own catalog and all its raw
\* and conflated files, whatever failed after it was begun, and a listed
\* release stays listed.
CatalogListsCompleteReleases ==
  \A r \in stac : /\ r \in stacFiles
                  /\ \A dataset \in {"osm", "fkb", "small"} : Complete(dataset, r)

ListedStaysListed == [][stac \subseteq stac']_vars

\* What the engines read beside the files is a copy of one release of which
\* all datasets are complete, and a table that has the spatial index the setup
\* builds is a whole copy; a half seeded table never has it.
CopiesAreOfCompleteReleases ==
  /\ \A s \in Sizes : \A x, y \in table[s].rows :
       x[1] = y[1] /\ \A dataset \in Sizes : Complete(dataset, x[1])
  /\ \A c \in 1 .. Components : shapefile[c] # NoRelease =>
       \A dataset \in Sizes : Complete(dataset, shapefile[c])
  /\ \A s \in Sizes : table[s].index = "built" =>
       \E x \in table[s].rows : table[s].rows = {x[1]} \X (1 .. Chunks)

\* A table is of a release when it is a whole copy with its index.
IsCopyOf(s, r) == table[s] = [rows |-> {r} \X (1 .. Chunks), index |-> "built"]

Written == (1 .. Components) \ Optional

\* After a setup that ran to its end, whatever failed ones went before it, the release is
\* listed in the catalog, every component of the shapefile that is always written is of
\* it, and every table is a whole and indexed copy of it, except for the two ways in
\* which the code goes on with a warning: a table the release has no rows for, and a
\* component that was not written, stay as they were.
FinishedSetupRenewsCopies ==
  (at = "idle" /\ release \in completed) =>
    /\ release \in stac
    /\ \A s \in Sizes : IsCopyOf(s, release) \/ NoRows(s, release)
    /\ \A c \in Written : shapefile[c] = release

-----------------------------------------------------------------------------
(***************************************************************************)
(* What the engines and the readers of the catalog get to see of all this. *)
(***************************************************************************)

TableRelease(s) ==
  IF \E x \in table[s].rows : IsCopyOf(s, x[1])
  THEN (CHOOSE x \in table[s].rows : IsCopyOf(s, x[1]))[1]
  ELSE NoRelease

\* The shapefile is of a release when its components are, but for those it never had: with
\* an optional file of an older release beside the new ones it is of none.
ShapefileRelease ==
  IF \A c \in 1 .. Components :
       shapefile[c] = shapefile[1] \/ (c \in Optional /\ shapefile[c] = NoRelease)
  THEN shapefile[1] ELSE NoRelease

\* The copies in the order of steps 4 and 5.
CopyOf(i) == IF i = 4 THEN ShapefileRelease ELSE TableRelease(<<"small", "medium", "large">>[i])

\* A listed release may have nothing for the two larger tables.
Lacking ==
  {x \in stac \X (2 .. 3) : NoRows(<<"small", "medium", "large">>[x[2]], x[1])}

Published == INSTANCE PublishedReleases WITH
  Copies  <- 4,
  None    <- NoRelease,
  listed  <- stac,
  copy    <- [i \in 1 .. 4 |-> CopyOf(i)],
  lacking <- Lacking

\* Whatever setups fail and wherever they do, releases are listed in their order, and the
\* copies are renewed one by one, from the latest listed release only: a copy never goes
\* back to an older release, and none runs ahead of those before it but for the copies
\* the release has nothing for.
ImplementsPublished == Published!Spec
=============================================================================
