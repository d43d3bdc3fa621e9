CONSTANTS
  u1 = u1
  u2 = u2
  n1 = n1
  w1 = w1
  w2 = w2
  Claim = {u1}
  Name = {n1}
  NameOf <- OneName
  Suitable = {u1}
  Immediate = {}
  Retain = {}
  AutoDelete = {u1}
  Guarded = {}
  Workload = {w1}
  Mounts <- MountsOne
  Writes <- MountsOne
  Policy <- NeverRestarted
  Faults = {"write", "restart", "forget", "annotation", "pvDelete"}
SPECIFICATION FromUnused
INVARIANTS RunningPodHasVolumes Consistent
