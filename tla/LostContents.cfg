CONSTANTS
  v1 = v1
  v2 = v2
  Volume <- TwoVolumes
  Steps = 2
  Commit = TRUE
  Events = {"localError"}
  MaxRuns = 2
  MaxEdits = 0
SPECIFICATION Spec
INVARIANT SuccessMeansWritten
