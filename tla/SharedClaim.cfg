CONSTANTS
  u1 = u1
  u2 = u2
  n1 = n1
  w1 = w1
  w2 = w2
  Claim = {u1}
  Name = {n1}
  NameOf <- OneName
  Suitable = {u1}
  Immediate = {}
  Retain = {}
  AutoDelete = {u1}
  Guarded = {}
  Workload = {w1, w2}
  Mounts <- MountsOne
  Writes <- MountsOne
  Policy <- NeverRestarted
  Faults = {}
SPECIFICATION FromUnused
INVARIANTS UsedVolumeKept
