SPECIFICATION Spec
CONSTANTS
  f1 = f1
  f2 = f2
  o1 = o1
  o2 = o2
  oslo = oslo
  akershus = akershus
  Null = Null
  Fkb <- TwoFkb
  Osm <- TwoOsm
  Regions <- TwoRegions
  Cells = {1, 2}
  Ious <- TouchingToEqual
INVARIANTS
  FkbIsPreferred
  LostBuildingsHavePartner
  KeptBuildingsDoNotOverlap
SYMMETRY Symmetry
CHECK_DEADLOCK FALSE
