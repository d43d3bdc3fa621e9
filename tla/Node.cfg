CONSTANTS
  v1 = v1
  v2 = v2
  Volume <- TwoVolumes
  Sharing = {TRUE, FALSE}
  Faults = {"failure", "busy", "signal", "kill"}
  MaxRuns = 3
  MaxPrunes = 1
  MaxFaults = 2
SPECIFICATION NewOrUsed
SYMMETRY Symmetry
INVARIANTS TypeOK MountAllOrNothing SuccessMeansKept UmountCleans NodeConsistent PruneIsComplete
PROPERTIES NothingLost LocalNameKept
