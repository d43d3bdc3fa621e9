CONSTANTS
  v1 = v1
  v2 = v2
  Volume <- TwoVolumes
  Steps = 2
  Commit = TRUE
  Events = {"drop", "protect", "apiError", "localError", "killed", "rerun"}
  MaxRuns = 2
  MaxEdits = 1
SPECIFICATION FairSpec
INVARIANTS TypeOK GenerationsDiffer ListedWhileMounted UnlistedAfterUmount
PROPERTIES LedgerKept CommandEnds
