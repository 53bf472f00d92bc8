SPECIFICATION Spec
CONSTANTS
  oslo = oslo
  rogaland = rogaland
  Regions <- TwoRegions
  Parts = 2
  Chunks = 2
  Components = 2
  Optional <- SecondOnly
  MaxSetups = 2
  MaxDay = 2
INVARIANTS
  OneSetupPerRelease
  CatalogListsCompleteReleases
  CopiesAreOfCompleteReleases
  FinishedSetupRenewsCopies
PROPERTY
  ListedStaysListed
  ImplementsPublished
SYMMETRY Symmetry
CHECK_DEADLOCK FALSE
