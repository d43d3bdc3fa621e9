CONSTANTS
  o1 = o1
  o2 = o2
  k1 = k1
  k2 = k2
  Obj <- TwoObjects
  Key <- TwoNames
  EmptyName = EmptyName
  MaxVersion = 3
SPECIFICATION FairSpec
INVARIANTS TypeOK AmbiguousIsDisabled LatestIsUsed RegistryConsistent
PROPERTY StatusCatchesUp
