CONSTANTS
  v1 = v1
  v2 = v2
  Volume <- TwoVolumes
  Sharing = {TRUE, FALSE}
  Faults = {"failure", "busy", "signal", "kill"}
  MaxRuns = 4
  MaxPrunes = 1
  MaxFaults = 0
SPECIFICATION NewOrUsed
SYMMETRY Symmetry
INVARIANTS UsedImageKept
