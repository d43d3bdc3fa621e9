-------------------------- MODULE ProvisioningTypes --------------------------
(***************************************************************************)
(* Type correctness of Provisioning, for any set of claims, names and      *)
(* Pods, any assignment of names and classes and any set of faults.        *)
(***************************************************************************)
EXTENDS Provisioning, TLAPS

-----------------------------------------------------------------------------
(* Facts about the objects and the writes. *)

LEMMA NoObjects ==
  NoClaim \in ClaimObj /\ NoPV \in PVObj /\ NoPod \in PodObj /\ NoWork \in WorkObj
BY DEF NoClaim, NoPV, NoPod, NoWork, ClaimObj, PVObj, PodObj, WorkObj

\* Every update the controllers and the cluster make to a claim yields a claim.
LEMMA ClaimUpdates ==
  ASSUME NEW c \in ClaimObj
  PROVE  /\ [c EXCEPT !.del = TRUE] \in ClaimObj /\ [c EXCEPT !.prot = FALSE] \in ClaimObj
         /\ [c EXCEPT !.fin = TRUE] \in ClaimObj /\ [c EXCEPT !.fin = FALSE] \in ClaimObj
         /\ [c EXCEPT !.guard = FALSE] \in ClaimObj /\ [c EXCEPT !.noProt = TRUE] \in ClaimObj
         /\ [c EXCEPT !.node = TRUE] \in ClaimObj /\ [c EXCEPT !.env = FALSE] \in ClaimObj
         /\ [c EXCEPT !.bound = TRUE] \in ClaimObj
BY Zenon DEF ClaimObj

\* Likewise for volumes ...
LEMMA PVUpdates ==
  ASSUME NEW p \in PVObj
  PROVE  /\ [p EXCEPT !.del = TRUE] \in PVObj /\ [p EXCEPT !.prot = FALSE] \in PVObj
         /\ [p EXCEPT !.fin = FALSE] \in PVObj /\ [p EXCEPT !.ref = FALSE] \in PVObj
         /\ [p EXCEPT !.off = TRUE] \in PVObj
         /\ \A ph \in {"Available", "Bound", "Released"} : [p EXCEPT !.phase = ph] \in PVObj
BY Zenon DEF PVObj

\* ... and for the Pods of jobs.
LEMMA PodUpdates ==
  ASSUME NEW p \in PodObj
  PROVE  /\ [p EXCEPT !.del = TRUE] \in PodObj
         /\ \A st \in {"Running", "Succeeded", "Failed"} : [p EXCEPT !.st = st] \in PodObj
BY Zenon DEF PodObj

LEMMA NewObjects ==
  /\ \A b \in BOOLEAN :
       [NoClaim EXCEPT !.st = "live", !.prot = TRUE, !.env = TRUE, !.guard = b] \in ClaimObj
  /\ [NoPV EXCEPT !.st = "live", !.prot = TRUE, !.fin = TRUE, !.ref = TRUE] \in PVObj
  /\ [NoClaim EXCEPT !.st = "gone"] \in ClaimObj
  /\ [NoPV EXCEPT !.st = "gone"] \in PVObj
BY Zenon DEF NoClaim, NoPV, ClaimObj, PVObj

LEMMA PutClaimType ==
  ASSUME claims \in [Claim -> ClaimObj], NEW u \in Claim, NEW c \in ClaimObj, PutClaim(u, c)
  PROVE  claims' \in [Claim -> ClaimObj]
<1>1. StoredClaim(c) \in ClaimObj
  BY NewObjects, Zenon DEF StoredClaim
<1> QED
  BY <1>1 DEF PutClaim

LEMMA PutPVType ==
  ASSUME pvs \in [Claim -> PVObj], NEW u \in Claim, NEW p \in PVObj, PutPV(u, p)
  PROVE  pvs' \in [Claim -> PVObj]
<1>1. StoredPV(p) \in PVObj
  BY NewObjects, Zenon DEF StoredPV
<1> QED
  BY <1>1 DEF PutPV

LEMMA PutPodType ==
  ASSUME pods \in [Kind -> [Claim -> PodObj]], NEW k \in Kind, NEW u \in Claim,
         NEW p \in PodObj, PutPod(k, u, p)
  PROVE  pods' \in [Kind -> [Claim -> PodObj]]
BY DEF PutPod

LEMMA InitType == Init => TypeOK
<1> SUFFICES ASSUME Init PROVE TypeOK
  OBVIOUS
<1>1. claimStep \in ClaimSteps /\ podStep \in PodSteps
  BY DEF Init, ClaimSteps, PodSteps
<1>2. claims \in [Claim -> ClaimObj] /\ pvs \in [Claim -> PVObj] /\ work \in [Workload -> WorkObj]
  BY NoObjects DEF Init
<1>3. pods \in [Kind -> [Claim -> PodObj]]
  BY NoObjects DEF Init
<1> QED
  BY <1>1, <1>2, <1>3 DEF Init, TypeOK

-----------------------------------------------------------------------------
(* One lemma per kind of write. *)

\* What the manager keeps besides its caches stays well-typed.
ManagerOK == /\ claimQ \subseteq Name /\ pvQ \subseteq Claim /\ podQ \subseteq Workload
             /\ claimStep \in ClaimSteps /\ podStep \in PodSteps /\ known \in BOOLEAN

LEMMA ManagerKept ==
  ASSUME TypeOK, UNCHANGED <<queues, steps, known>>
  PROVE  ManagerOK'
BY DEF TypeOK, ManagerOK, queues, steps

LEMMA ClaimWriteType ==
  ASSUME TypeOK, ManagerOK', NEW u \in Claim, NEW c \in ClaimObj, PutClaim(u, c),
         UNCHANGED <<pvs, pods, work, vol, freed, caches>>
  PROVE  TypeOK'
<1>1. claims' \in [Claim -> ClaimObj]
  BY PutClaimType DEF TypeOK
<1> QED
  BY <1>1 DEF TypeOK, ManagerOK, caches

LEMMA PVWriteType ==
  ASSUME TypeOK, ManagerOK', NEW u \in Claim, NEW p \in PVObj, PutPV(u, p),
         UNCHANGED <<claims, pods, work, vol, freed, caches>>
  PROVE  TypeOK'
<1>1. pvs' \in [Claim -> PVObj]
  BY PutPVType DEF TypeOK
<1> QED
  BY <1>1 DEF TypeOK, ManagerOK, caches

LEMMA PodWriteType ==
  ASSUME TypeOK, ManagerOK', NEW k \in Kind, NEW u \in Claim, NEW p \in PodObj,
         PutPod(k, u, p), vol' \in [Claim -> BOOLEAN], freed' \subseteq Claim,
         UNCHANGED <<claims, pvs, work, caches>>
  PROVE  TypeOK'
<1>1. pods' \in [Kind -> [Claim -> PodObj]]
  BY PutPodType DEF TypeOK
<1> QED
  BY <1>1 DEF TypeOK, ManagerOK, caches

LEMMA NoWriteType ==
  ASSUME TypeOK, ManagerOK', UNCHANGED <<api, caches>>
  PROVE  TypeOK'
BY DEF TypeOK, ManagerOK, caches, api

LEMMA JobDeleteType ==
  ASSUME TypeOK, ManagerOK', NEW k \in Kind, NEW u \in Claim, JobDelete(k, u),
         UNCHANGED <<claims, pvs, work, vol, freed, caches>>
  PROVE  TypeOK'
<1>1. CASE pods[k][u].st = "none"
  BY <1>1, NoWriteType DEF JobDelete, api
<1>2. CASE pods[k][u].st # "none"
  <2>1. pods[k][u] \in PodObj
    BY DEF TypeOK
  <2>2. [pods[k][u] EXCEPT !.del = TRUE] \in PodObj
    BY <2>1, PodUpdates, Zenon
  <2>3. PutPod(k, u, [pods[k][u] EXCEPT !.del = TRUE])
    BY <1>2 DEF JobDelete, DeletePod
  <2> QED
    BY <2>2, <2>3, PodWriteType, Zenon DEF TypeOK
<1> QED
  BY <1>1, <1>2

LEMMA RestartedType ==
  ASSUME TypeOK, KubeAssumption, Restarted
  PROVE  TypeOK'
<1>1. claimStep' \in ClaimSteps /\ podStep' \in PodSteps
  BY DEF Restarted, ClaimSteps, PodSteps
<1>2. claimQ' \subseteq Name
  BY DEF Restarted, ClaimKeys, KubeAssumption
<1>3. pvQ' \subseteq Claim /\ podQ' \subseteq Workload
  BY DEF Restarted, PVKeys, PodKeys
<1> QED
  BY <1>1, <1>2, <1>3 DEF Restarted, TypeOK, api

-----------------------------------------------------------------------------
(* The steps of the controllers. *)

LEMMA PVCReconcileType ==
  ASSUME TypeOK, KubeAssumption, PVCReconcile
  PROVE  TypeOK'
<1>1. \A u \in Claim : /\ claims[u] \in ClaimObj /\ cclaims[u] \in ClaimObj
                       /\ pvs[u] \in PVObj /\ \A k \in Kind : pods[k][u] \in PodObj
  BY DEF TypeOK
<1>2. \A u \in Claim : NameOf[u] \in Name
  BY DEF KubeAssumption
<1>3. "provisioner" \in Kind
  BY DEF Kind
<1>4. ManagerOK
  BY DEF TypeOK, ManagerOK
<1>5. Idle \in ClaimSteps
  BY DEF ClaimSteps
<1>6. \A at \in {"unfinalize", "reap"}, u \in Claim :
        [at |-> at, u |-> u, seen |-> cclaims[u]] \in ClaimSteps
  BY <1>1 DEF ClaimSteps
<1>7. claimStep.at \in {"unfinalize", "reap"} => claimStep.u \in Claim /\ claimStep.seen \in ClaimObj
  BY <1>4 DEF ManagerOK, ClaimSteps, Idle
<1>8. ASSUME NEW n \in Name, ClaimNotFound(n) PROVE TypeOK'
  BY <1>4, <1>8, NoWriteType DEF ClaimNotFound, ManagerOK, steps
<1>9. ASSUME NEW u \in Claim, ReconcileClaim(u) PROVE TypeOK'
  <2>1. CASE ClaimUnprotect(u)
    <3>1. ManagerOK'
      BY <2>1, <1>4 DEF ClaimUnprotect, ClaimDone, ManagerOK, steps
    <3> QED
      BY <2>1, <3>1, <1>1, ClaimUpdates, ClaimWriteType, Zenon DEF ClaimUnprotect
  <2>2. CASE ClaimNothingToDo(u)
    BY <2>2, <1>4, NoWriteType DEF ClaimNothingToDo, ClaimDone, ManagerOK, steps
  <2>3. CASE ClaimDeletePod(u)
    <3>1. ManagerOK'
      BY <2>3, <1>4 DEF ClaimDeletePod, ClaimDone, ManagerOK, steps
    <3> QED
      BY <2>3, <3>1, <1>3, JobDeleteType DEF ClaimDeletePod
  <2>4. CASE ClaimDeletePV(u)
    <3>1. ManagerOK'
      BY <2>4, <1>4, <1>6 DEF ClaimDeletePV, ClaimDone, ManagerOK
    <3>2. CASE pvs[u].st = "live"
      BY <2>4, <3>1, <3>2, <1>1, PVUpdates, PVWriteType, Zenon DEF ClaimDeletePV, DeletePV
    <3>3. CASE pvs[u].st # "live"
      BY <2>4, <3>1, <3>3, NoWriteType DEF ClaimDeletePV, api
    <3> QED
      BY <3>2, <3>3
  <2>5. CASE ClaimRelease(u)
    <3>1. ManagerOK'
      BY <2>5, <1>4 DEF ClaimRelease, ClaimDone, ManagerOK, steps
    <3> QED
      BY <2>5, <3>1, <1>1, ClaimUpdates, ClaimWriteType, Zenon DEF ClaimRelease
  <2>6. CASE ClaimAddFinalizer(u)
    <3>1. ManagerOK'
      BY <2>6, <1>4 DEF ClaimAddFinalizer, ClaimDone, ManagerOK, steps
    <3> QED
      BY <2>6, <3>1, <1>1, ClaimUpdates, ClaimWriteType, Zenon DEF ClaimAddFinalizer
  <2>7. CASE ClaimPanic(u)
    BY <2>7, RestartedType DEF ClaimPanic
  <2>8. CASE ClaimCreatePod(u)
    <3>1. ManagerOK'
      BY <2>8, <1>4 DEF ClaimCreatePod, ClaimDone, ManagerOK, steps
    <3> QED
      BY <2>8, <3>1, <1>3, NoObjects, PodUpdates, PodWriteType, Zenon
      DEF ClaimCreatePod, JobCreate, TypeOK
  <2>9. CASE ClaimCreatePV(u)
    <3>1. ManagerOK'
      BY <2>9, <1>4, <1>6 DEF ClaimCreatePV, ClaimDone, ManagerOK
    <3> QED
      BY <2>9, <3>1, NewObjects, PVWriteType, Zenon DEF ClaimCreatePV
  <2>10. CASE ClaimStopPod(u)
    <3>1. ManagerOK'
      BY <2>10, <1>4 DEF ClaimStopPod, ClaimDone, ManagerOK, steps
    <3> QED
      BY <2>10, <3>1, JobDeleteType, <1>3 DEF ClaimStopPod
  <2> QED
    BY <1>9, <2>1, <2>2, <2>3, <2>4, <2>5, <2>6, <2>7, <2>8, <2>9, <2>10 DEF ReconcileClaim
<1>10. ASSUME ClaimUnfinalize PROVE TypeOK'
  <2>1. ManagerOK'
    BY <1>10, <1>2, <1>4, <1>5, <1>7 DEF ClaimUnfinalize, ManagerOK
  <2>2. CASE claims[claimStep.u] = claimStep.seen
    BY <1>10, <2>1, <2>2, <1>7, ClaimUpdates, ClaimWriteType, Zenon DEF ClaimUnfinalize
  <2>3. CASE claims[claimStep.u] # claimStep.seen
    BY <1>10, <2>1, <2>3, NoWriteType DEF ClaimUnfinalize, api
  <2> QED
    BY <2>2, <2>3
<1>11. ASSUME ClaimReapPod PROVE TypeOK'
  <2>1. ManagerOK'
    BY <1>11, <1>4, <1>5 DEF ClaimReapPod, ManagerOK, queues
  <2> QED
    BY <1>11, <2>1, <1>3, <1>7, JobDeleteType DEF ClaimReapPod
<1> QED
  BY <1>8, <1>9, <1>10, <1>11 DEF PVCReconcile

LEMMA PVReconcileType ==
  ASSUME TypeOK, PVReconcile
  PROVE  TypeOK'
<1>1. PICK u \in Claim : ReconcilePV(u)
  BY DEF PVReconcile
<1>2. ManagerOK /\ cpvs[u] \in PVObj /\ "deprovisioner" \in Kind
  BY DEF TypeOK, ManagerOK, Kind
<1>3. ASSUME PVDone(u), UNCHANGED <<claimQ, podQ, steps, known>> PROVE ManagerOK'
  BY <1>2, <1>3 DEF PVDone, ManagerOK, steps
<1>4. CASE PVNotFound(u)
  BY <1>3, <1>4, NoWriteType DEF PVNotFound
<1>5. CASE PVWait(u)
  BY <1>3, <1>5, NoWriteType DEF PVWait
<1>6. CASE PVRemoveClaimRef(u)
  BY <1>2, <1>3, <1>6, PVUpdates, PVWriteType, Zenon DEF PVRemoveClaimRef
<1>7. CASE PVCreatePod(u)
  BY <1>2, <1>3, <1>7, NoObjects, PodUpdates, PodWriteType, Zenon DEF PVCreatePod, JobCreate, TypeOK
<1>8. CASE PVDisableDeprovisioner(u)
  BY <1>2, <1>3, <1>8, PVUpdates, PVWriteType, Zenon DEF PVDisableDeprovisioner
<1>9. CASE PVDeletePod(u)
  BY <1>2, <1>3, <1>9, JobDeleteType DEF PVDeletePod
<1>10. CASE PVUnfinalize(u)
  BY <1>2, <1>3, <1>10, PVUpdates, PVWriteType, Zenon DEF PVUnfinalize
<1> QED
  BY <1>1, <1>4, <1>5, <1>6, <1>7, <1>8, <1>9, <1>10 DEF ReconcilePV

\* The loop's record stays one as its fields are assigned.
LEMMA PodStepUpdates ==
  ASSUME NEW s \in PodSteps, s # Idle
  PROVE  /\ s.todo \subseteq Name /\ s.kill \subseteq Name /\ s.err \in BOOLEAN /\ s.w \in Workload
         /\ \A t \in SUBSET Name : [s EXCEPT !.todo = t] \in PodSteps
         /\ \A t \in SUBSET Name : [s EXCEPT !.kill = t] \in PodSteps
         /\ \A t, k \in SUBSET Name : [s EXCEPT !.todo = t, !.kill = k] \in PodSteps
         /\ \A t \in SUBSET Name, b \in BOOLEAN : [s EXCEPT !.todo = t, !.err = b] \in PodSteps
         /\ \A t \in SUBSET Name, b \in BOOLEAN : [s EXCEPT !.kill = t, !.err = b] \in PodSteps
BY Zenon DEF PodSteps

LEMMA PodReconcileType ==
  ASSUME TypeOK, KubeAssumption, PodReconcile
  PROVE  TypeOK'
<1>1. ManagerOK
  BY DEF TypeOK, ManagerOK
<1>2. \A u \in Claim : claims[u] \in ClaimObj /\ cclaims[u] \in ClaimObj
  BY DEF TypeOK
<1>3. Idle \in PodSteps
  BY DEF PodSteps
<1>4. ASSUME podStep' \in PodSteps, UNCHANGED <<queues, claimStep, known>> PROVE ManagerOK'
  BY <1>1, <1>4 DEF ManagerOK, queues
<1>5. ASSUME NEW w \in Workload, PodTake(w) PROVE TypeOK'
  <2>1. [at |-> "loop", w |-> w, todo |-> Writes[w], kill |-> {}, err |-> FALSE] \in PodSteps
    BY DEF PodSteps, KubeAssumption
  <2>2. ManagerOK'
    BY <1>1, <1>3, <1>5, <2>1 DEF PodTake, ManagerOK
  <2> QED
    BY <1>5, <2>2, NoWriteType DEF PodTake
<1>6. ASSUME NEW n \in Name, PodSkipClaim(n) PROVE TypeOK'
  <2>1. podStep' \in PodSteps
    BY <1>1, <1>6, PodStepUpdates, Zenon DEF PodSkipClaim, Visits, Visited, ManagerOK
  <2> QED
    BY <1>4, <1>6, <2>1, NoWriteType DEF PodSkipClaim
<1>7. ASSUME NEW n \in Name, PodDeleteClaim(n) PROVE TypeOK'
  <2>1. podStep' \in PodSteps
    BY <1>1, <1>7, PodStepUpdates, Zenon DEF PodDeleteClaim, ManagerOK
  <2>2. ManagerOK'
    BY <1>4, <1>7, <2>1 DEF PodDeleteClaim
  <2>3. CASE UNCHANGED claims
    BY <1>7, <2>2, <2>3, NoWriteType DEF PodDeleteClaim, api
  <2>4. CASE \E u \in Claim : DeleteClaim(u)
    BY <1>2, <1>7, <2>2, <2>4, ClaimUpdates, ClaimWriteType, Zenon DEF PodDeleteClaim, DeleteClaim
  <2> QED
    BY <1>7, <2>3, <2>4 DEF PodDeleteClaim
<1>8. ASSUME NEW n \in Name, NEW u \in Claim, PodAnnotateClaim(n, u) PROVE TypeOK'
  <2>1. podStep' \in PodSteps
    <3>1. podStep \in PodSteps /\ podStep # Idle
      BY <1>1, <1>8 DEF ManagerOK, PodAnnotateClaim, Visits
    <3>2. podStep.todo \ {n} \in SUBSET Name /\ podStep.err \in BOOLEAN
      BY <3>1, PodStepUpdates, Zenon
    <3>3. CASE cclaims[u] = claims[u]
      <4>1. PICK k \in SUBSET Name :
              podStep' = [podStep EXCEPT !.todo = podStep.todo \ {n}, !.kill = k]
        BY <1>8, <3>3, Zenon DEF PodAnnotateClaim
      <4> QED
        BY <3>1, <3>2, <4>1, PodStepUpdates, Zenon
    <3>4. CASE cclaims[u] # claims[u]
      <4>1. PICK b \in BOOLEAN :
              podStep' = [podStep EXCEPT !.todo = podStep.todo \ {n}, !.err = b]
        BY <1>8, <3>2, <3>4, Zenon DEF PodAnnotateClaim
      <4> QED
        BY <3>1, <3>2, <4>1, PodStepUpdates, Zenon
    <3> QED
      BY <3>3, <3>4
  <2>2. ManagerOK'
    BY <1>4, <1>8, <2>1 DEF PodAnnotateClaim
  <2>3. CASE cclaims[u] = claims[u]
    BY <1>2, <1>8, <2>2, <2>3, ClaimUpdates, ClaimWriteType, Zenon DEF PodAnnotateClaim
  <2>4. CASE cclaims[u] # claims[u]
    BY <1>8, <2>2, <2>4, NoWriteType DEF PodAnnotateClaim, api
  <2> QED
    BY <2>3, <2>4
<1>9. ASSUME NEW n \in Name, NEW u \in Claim, PodFindsAnnotated(n, u) PROVE TypeOK'
  <2>1. podStep' \in PodSteps
    BY <1>1, <1>9, PodStepUpdates, Zenon DEF PodFindsAnnotated, Visits, ManagerOK
  <2> QED
    BY <1>4, <1>9, <2>1, NoWriteType DEF PodFindsAnnotated
<1>10. ASSUME PodDone PROVE TypeOK'
  <2>1. ManagerOK'
    BY <1>1, <1>3, <1>10, PodStepUpdates, Zenon DEF PodDone, ManagerOK
  <2> QED
    BY <1>10, <2>1, NoWriteType DEF PodDone
<1> QED
  BY <1>5, <1>6, <1>7, <1>8, <1>9, <1>10 DEF PodReconcile

-----------------------------------------------------------------------------
(* The steps of the cluster, its users, the watches and the faults. *)

LEMMA UsersType ==
  ASSUME TypeOK, KubeAssumption, Users
  PROVE  TypeOK'
<1>1. \A u \in Claim : claims[u] \in ClaimObj /\ pvs[u] \in PVObj
  BY DEF TypeOK
<1>2. ASSUME UNCHANGED manager PROVE ManagerOK' /\ UNCHANGED caches
  BY <1>2, ManagerKept DEF manager, queues, steps, caches
<1>3. ASSUME NEW u \in Claim, UserCreatesClaim(u) PROVE TypeOK'
  <2> DEFINE c == [NoClaim EXCEPT !.st = "live", !.prot = TRUE, !.env = TRUE,
                                  !.guard = u \in Guarded]
  <2>1. c \in ClaimObj
    <3>1. (u \in Guarded) \in BOOLEAN
      OBVIOUS
    <3> QED
      BY <3>1, NewObjects, Zenon
  <2>2. PutClaim(u, c) /\ UNCHANGED <<pvs, pods, work, vol, freed, manager>>
    BY <1>3 DEF UserCreatesClaim
  <2> HIDE DEF c
  <2> QED
    BY <1>2, <2>1, <2>2, ClaimWriteType
<1>4. ASSUME NEW u \in Claim, UserDeletesClaim(u) PROVE TypeOK'
  BY <1>1, <1>2, <1>4, ClaimUpdates, ClaimWriteType, Zenon DEF UserDeletesClaim, DeleteClaim
<1>5. ASSUME NEW u \in Claim, UserDropsAnnotation(u) PROVE TypeOK'
  BY <1>1, <1>2, <1>5, ClaimUpdates, ClaimWriteType, Zenon DEF UserDropsAnnotation
<1>6. ASSUME NEW u \in Claim, UserDeletesPV(u) PROVE TypeOK'
  BY <1>1, <1>2, <1>6, PVUpdates, PVWriteType, Zenon DEF UserDeletesPV, DeletePV
<1>7. ASSUME NEW u \in Claim, GuardLifted(u) PROVE TypeOK'
  BY <1>1, <1>2, <1>7, ClaimUpdates, ClaimWriteType, Zenon DEF GuardLifted
<1>8. ASSUME NEW u \in Claim, NodeSelected(u) PROVE TypeOK'
  BY <1>1, <1>2, <1>8, ClaimUpdates, ClaimWriteType, Zenon DEF NodeSelected
<1>9. ASSUME NEW w \in Workload, NEW p \in WorkObj, SetWork(w, p) PROVE TypeOK'
  <2>1. work' \in [Workload -> WorkObj]
    BY <1>9 DEF SetWork, TypeOK
  <2> QED
    BY <1>2, <1>9, <2>1 DEF SetWork, TypeOK, ManagerOK, caches
<1>10. \A w \in Workload : work[w] \in WorkObj
  BY DEF TypeOK
<1>11. ASSUME NEW p \in WorkObj,
              NEW st \in {"Pending", "Running", "Succeeded", "Failed", "gone"}
       PROVE  [p EXCEPT !.st = st] \in WorkObj
  BY Zenon DEF WorkObj
<1>12. ASSUME NEW w \in Workload, UserCreatesWork(w) PROVE TypeOK'
  BY <1>9, <1>11, <1>12, NoObjects, Zenon DEF UserCreatesWork
<1>13. ASSUME NEW w \in Workload, UserDeletesWork(w) PROVE TypeOK'
  BY <1>9, <1>11, <1>13, NoObjects, Zenon DEF UserDeletesWork
<1>14. ASSUME NEW w \in Workload, WorkStarts(w) PROVE TypeOK'
  <2>1. [st |-> "Running", vols |-> Mounted(w)] \in WorkObj
    BY DEF WorkObj, Mounted
  <2> QED
    BY <1>9, <1>14, <2>1 DEF WorkStarts
<1>15. ASSUME NEW w \in Workload, NEW st \in {"Succeeded", "Failed"}, WorkEnds(w, st)
       PROVE  TypeOK'
  <2>1. [work[w] EXCEPT !.st = st] \in WorkObj
    BY <1>10, <1>11, Zenon
  <2> QED
    BY <1>9, <1>15, <2>1 DEF WorkEnds
<1> QED
  BY <1>3, <1>4, <1>5, <1>6, <1>7, <1>8, <1>12, <1>13, <1>14, <1>15 DEF Users

LEMMA ClusterType ==
  ASSUME TypeOK, Cluster
  PROVE  TypeOK'
<1>1. \A u \in Claim : /\ claims[u] \in ClaimObj /\ pvs[u] \in PVObj
                       /\ \A k \in Kind : pods[k][u] \in PodObj
  BY DEF TypeOK
<1>2. ASSUME UNCHANGED manager PROVE ManagerOK' /\ UNCHANGED caches
  BY <1>2, ManagerKept DEF manager, queues, steps, caches
<1>3. ASSUME NEW u \in Claim, PVBound(u) PROVE TypeOK'
  BY <1>1, <1>2, <1>3, PVUpdates, PVWriteType, Zenon DEF PVBound
<1>4. ASSUME NEW u \in Claim, ClaimBound(u) PROVE TypeOK'
  BY <1>1, <1>2, <1>4, ClaimUpdates, ClaimWriteType, Zenon DEF ClaimBound
<1>5. ASSUME NEW u \in Claim, PVReleased(u) PROVE TypeOK'
  BY <1>1, <1>2, <1>5, PVUpdates, PVWriteType, Zenon DEF PVReleased
<1>6. ASSUME NEW u \in Claim, PVAvailable(u) PROVE TypeOK'
  BY <1>1, <1>2, <1>6, PVUpdates, PVWriteType, Zenon DEF PVAvailable
<1>7. ASSUME NEW u \in Claim, PVUnprotected(u) PROVE TypeOK'
  BY <1>1, <1>2, <1>7, PVUpdates, PVWriteType, Zenon DEF PVUnprotected
<1>8. ASSUME NEW u \in Claim, ClaimUnprotected(u) PROVE TypeOK'
  BY <1>1, <1>2, <1>8, ClaimUpdates, ClaimWriteType, Zenon DEF ClaimUnprotected
<1>9. ASSUME NEW k \in Kind, NEW u \in Claim, JobSucceeds(k, u) PROVE TypeOK'
  <2>1. vol' \in [Claim -> BOOLEAN] /\ freed' \subseteq Claim
    BY <1>9 DEF JobSucceeds, TypeOK
  <2> QED
    BY <1>1, <1>2, <1>9, <2>1, PodUpdates, PodWriteType, Zenon DEF JobSucceeds
<1>10. ASSUME NEW k \in Kind, NEW u \in Claim, JobFails(k, u) PROVE TypeOK'
  <2>1. vol' \in [Claim -> BOOLEAN] /\ freed' \subseteq Claim
    BY <1>10, Zenon DEF JobFails, TypeOK
  <2> QED
    BY <1>1, <1>2, <1>10, <2>1, PodUpdates, PodWriteType, Zenon DEF JobFails
<1>11. ASSUME NEW k \in Kind, NEW u \in Claim, JobRemoved(k, u) PROVE TypeOK'
  BY <1>2, <1>11, NoObjects, PodWriteType, Zenon DEF JobRemoved, TypeOK
<1> QED
  BY <1>3, <1>4, <1>5, <1>6, <1>7, <1>8, <1>9, <1>10, <1>11 DEF Cluster

LEMMA WatchType ==
  ASSUME TypeOK, KubeAssumption, Watch
  PROVE  TypeOK'
<1> USE DEF TypeOK, api, caches, queues, steps
<1>1. \A S \in SUBSET Claim : {NameOf[u] : u \in S} \subseteq Name
  BY DEF KubeAssumption
<1>2. CASE SyncClaims
  <2>1. claimQ' \subseteq Name
    BY <1>1, <1>2 DEF SyncClaims
  <2> QED
    BY <1>2, <2>1 DEF SyncClaims
<1>3. CASE SyncPVs
  BY <1>3 DEF SyncPVs
<1>4. CASE SyncPods
  <2>1. claimQ' \subseteq Name
    BY <1>1, <1>4 DEF SyncPods
  <2> QED
    BY <1>4, <2>1 DEF SyncPods
<1>5. CASE Resync
  <2>1. claimQ' \subseteq Name
    BY <1>1, <1>5 DEF Resync, ClaimKeys
  <2>2. pvQ' \subseteq Claim /\ podQ' \subseteq Workload
    BY <1>5 DEF Resync, PVKeys, PodKeys
  <2> QED
    BY <1>5, <2>1, <2>2 DEF Resync
<1>6. CASE Learn
  BY <1>6 DEF Learn
<1> QED
  BY <1>2, <1>3, <1>4, <1>5, <1>6 DEF Watch

LEMMA FaultType ==
  ASSUME TypeOK, KubeAssumption, Fault
  PROVE  TypeOK'
<1>1. ManagerOK
  BY DEF TypeOK, ManagerOK
<1>2. CASE Restart
  BY <1>2, RestartedType DEF Restart
<1>3. CASE Forget
  BY <1>3, <1>1, NoWriteType, Zenon DEF Forget, ManagerOK, queues, steps
<1>4. CASE ClaimStepFails
  <2>1. NameOf[claimStep.u] \in Name /\ Idle \in ClaimSteps
    BY <1>1, <1>4 DEF ClaimStepFails, ManagerOK, ClaimSteps, KubeAssumption
  <2>2. ManagerOK'
    BY <1>1, <1>4, <2>1 DEF ClaimStepFails, ManagerOK
  <2> QED
    BY <1>4, <2>2, NoWriteType DEF ClaimStepFails
<1>5. ASSUME NEW n \in Name, PodWriteFails(n) PROVE TypeOK'
  <2>1. podStep \in PodSteps /\ podStep # Idle
    BY <1>1, <1>5 DEF ManagerOK, PodWriteFails
  <2>2. podStep' \in PodSteps
    <3>1. CASE podStep' = [podStep EXCEPT !.kill = {}, !.err = TRUE]
      <4>1. {} \in SUBSET Name /\ TRUE \in BOOLEAN
        OBVIOUS
      <4> QED
        BY <2>1, <3>1, <4>1, PodStepUpdates, Zenon
    <3>2. CASE podStep' = [podStep EXCEPT !.todo = podStep.todo \ {n}, !.err = TRUE]
      <4>1. podStep.todo \ {n} \in SUBSET Name /\ TRUE \in BOOLEAN
        BY <2>1, PodStepUpdates, Zenon
      <4> QED
        BY <2>1, <3>2, <4>1, PodStepUpdates, Zenon
    <3> QED
      BY <1>5, <3>1, <3>2 DEF PodWriteFails
  <2>3. ManagerOK'
    BY <1>1, <1>5, <2>2 DEF PodWriteFails, ManagerOK, queues
  <2> QED
    BY <1>5, <2>3, NoWriteType DEF PodWriteFails
<1> QED
  BY <1>2, <1>3, <1>4, <1>5 DEF Fault

LEMMA NextType == TypeOK /\ [Next]_vars => TypeOK'
<1>1. ASSUME TypeOK, UNCHANGED vars PROVE TypeOK'
  BY <1>1 DEF TypeOK, vars
<1> QED
  BY <1>1, KubeAssumption, PVCReconcileType, PVReconcileType, PodReconcileType,
     UsersType, ClusterType, WatchType, FaultType, Zenon DEF Next

\* Every state of the manager and of its cluster is made of the values TypeOK
\* lists: whatever the controllers write is an object the API server can store,
\* whatever they enqueue is a key of the right kind.
THEOREM TypeCorrect == Spec => []TypeOK
<1>1. Init => TypeOK
  BY InitType
<1> QED
  BY <1>1, NextType, PTL DEF Spec

=============================================================================
