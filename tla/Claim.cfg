CONSTANTS
  u1 = u1
  u2 = u2
  n1 = n1
  w1 = w1
  w2 = w2
  Claim = {u1}
  Name = {n1}
  NameOf <- OneName
  Suitable = {u1}
  Immediate = {u1}
  Retain = {}
  AutoDelete = {}
  Guarded = {u1}
  Workload = {}
  Mounts <- MountsOne
  Writes <- MountsOne
  Policy <- NeverRestarted
  Faults = {"write", "restart", "podLost", "pvDelete", "annotation"}
SPECIFICATION Spec
INVARIANTS TypeOK DeprovisionAfterClaim BoundClaimHasVolume FinalizerFirst FreedBeforeForgotten Consistent
PROPERTIES LifecycleKept
