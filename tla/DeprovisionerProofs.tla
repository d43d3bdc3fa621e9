------------------------ MODULE DeprovisionerProofs ------------------------
(***************************************************************************)
(* When a volume is freed, for any set of claims, names and Pods.          *)
(* DeprovisionOnce of Provisioning holds under any faults but one: nobody  *)
(* else removes a finished Pod before the volume controller has seen it.   *)
(* RunningPodHasVolumes holds if no Pod is created under the name of an    *)
(* earlier one and no claim that is freed when a Pod completes is shared.  *)
(***************************************************************************)
EXTENDS ProvisioningProofs

\* The volume is marked as freed, or went away after it was.
Off(p) == p.st = "gone" \/ (p.st = "live" /\ p.off)

\* While the cache does not show that volume u was freed, its deprovisioner
\* Pod is kept, and the API server marks the volume only once it succeeded.
Once(u) ==
  /\ Off(cpvs[u]) => Off(pvs[u])
  /\ cpvs[u].st # "none" => pvs[u].st # "none"
  /\ pods["deprovisioner"][u].del => Off(cpvs[u])
  /\ ~Off(cpvs[u]) =>
       /\ Off(pvs[u]) => pods["deprovisioner"][u].st = "Succeeded"
       /\ cpods["deprovisioner"][u].st # "none" => pods["deprovisioner"][u].st # "none"
       /\ cpods["deprovisioner"][u].st \in {"Succeeded", "Failed"} =>
            pods["deprovisioner"][u].st = cpods["deprovisioner"][u].st

AllOnce == \A u \in Claim : Once(u)

\* A deprovisioner is started only for a volume that was not yet freed.
StartsUnfreed ==
  \A u \in Claim :
    pods["deprovisioner"][u].st = "none" /\ pods'["deprovisioner"][u].st # "none"
      => pvs[u].st = "live" /\ ~pvs[u].off

\* What every step is shown to do.
StaysOnce == AllOnce' /\ StartsUnfreed

LEMMA DeprovisionerKind == "provisioner" \in Kind /\ "deprovisioner" \in Kind
BY DEF Kind

-----------------------------------------------------------------------------
(* What a step may do to the volumes, the deprovisioners and their caches. *)

\* Nothing is written, a cache may catch up.
LEMMA OnceRead ==
  ASSUME AllOnce, NEW u \in Claim,
         pvs'[u] = pvs[u], pods'["deprovisioner"][u] = pods["deprovisioner"][u],
         cpvs'[u] = cpvs[u] \/ cpvs'[u] = pvs[u],
         \/ cpods'["deprovisioner"][u] = cpods["deprovisioner"][u]
         \/ cpods'["deprovisioner"][u] = pods["deprovisioner"][u]
  PROVE  Once(u)'
BY DEF AllOnce, Once, Off

LEMMA StaysRead ==
  ASSUME AllOnce, UNCHANGED <<pvs, pods>>,
         cpvs' = cpvs \/ cpvs' = pvs, cpods' = cpods \/ cpods' = pods
  PROVE  StaysOnce
<1>1. AllOnce'
  BY OnceRead, Zenon DEF AllOnce
<1>2. StartsUnfreed
  BY Zenon DEF StartsUnfreed
<1> QED
  BY <1>1, <1>2 DEF StaysOnce

\* A volume is written: its mark stays, it is marked only when the deprovisioner
\* succeeded, and it goes only when it is marked.
LEMMA StaysPV ==
  ASSUME TypeOK, AllOnce, NEW u \in Claim, NEW p \in PVObj, PutPV(u, p),
         p.st = "live", pvs[u].st # "gone",
         pvs[u].st = "live" /\ pvs[u].off => p.off,
         p.off => (pvs[u].st = "live" /\ pvs[u].off) \/ pods["deprovisioner"][u].st = "Succeeded",
         ~p.fin => p.off,
         UNCHANGED <<pods, cpvs, cpods>>
  PROVE  StaysOnce
<1>1. pvs'[u].st # "none" /\ (Off(pvs'[u]) <=> p.off)
  BY PutPVAt, StoredPVCases DEF Off
<1>2. ASSUME NEW v \in Claim PROVE Once(v)'
  <2>1. CASE v = u
    <3>1. Once(u) /\ (Off(pvs[u]) => Off(pvs'[u]))
      BY <1>1 DEF AllOnce, Off
    <3>2. Off(pvs'[u]) => Off(pvs[u]) \/ pods["deprovisioner"][u].st = "Succeeded"
      BY <1>1 DEF Off
    <3> QED
      BY <1>1, <2>1, <3>1, <3>2, Zenon DEF Once
  <2>2. CASE v # u
    <3>1. pvs'[v] = pvs[v]
      BY <2>2, PutPVAt
    <3> QED
      BY <3>1, OnceRead, Zenon
  <2> QED
    BY <2>1, <2>2
<1>3. StartsUnfreed
  BY Zenon DEF StartsUnfreed
<1> QED
  BY <1>2, <1>3 DEF StaysOnce, AllOnce

\* A Pod is written: a provisioner, or a deprovisioner as Once has it.
LEMMA StaysPod ==
  ASSUME TypeOK, AllOnce, NEW k \in Kind, NEW u \in Claim, NEW p \in PodObj, PutPod(k, u, p),
         k = "deprovisioner" =>
           /\ p.del => Off(cpvs[u])
           /\ \/ Off(cpvs[u])
              \/ /\ pods[k][u].st = "none" /\ cpods[k][u].st = "none" /\ p.st = "Running"
              \/ pods[k][u].st = "Running" /\ p.st # "none"
           /\ pods[k][u].st = "none" /\ p.st # "none" => pvs[u].st = "live" /\ ~pvs[u].off,
         UNCHANGED <<pvs, cpvs, cpods>>
  PROVE  StaysOnce
<1>1. /\ pods'[k][u] = p
      /\ \A v \in Claim : k # "deprovisioner" \/ v # u =>
           pods'["deprovisioner"][v] = pods["deprovisioner"][v]
  BY PutPodAt, DeprovisionerKind
<1>2. ASSUME NEW v \in Claim PROVE Once(v)'
  <2>1. CASE k = "deprovisioner" /\ v = u
    <3>1. Once(u) /\ cpods["deprovisioner"][u].st \in {"none", "Running", "Succeeded", "Failed"}
      BY DeprovisionerKind DEF AllOnce, TypeOK, PodObj
    <3>2. CASE Off(cpvs[u])
      BY <1>1, <2>1, <3>1, <3>2, Zenon DEF Once
    <3>3. CASE ~Off(cpvs[u])
      BY <1>1, <2>1, <3>1, <3>3 DEF Once
    <3> QED
      BY <3>2, <3>3
  <2>2. CASE k # "deprovisioner" \/ v # u
    <3>1. pods'["deprovisioner"][v] = pods["deprovisioner"][v]
      BY <1>1, <2>2, Zenon
    <3> QED
      BY <3>1, OnceRead, Zenon
  <2> QED
    BY <2>1, <2>2
<1>3. StartsUnfreed
  BY <1>1 DEF StartsUnfreed
<1> QED
  BY <1>2, <1>3 DEF StaysOnce, AllOnce

-----------------------------------------------------------------------------
(* The writes. *)

\* The binder, the protection controllers and whoever deletes a volume.
LEMMA StaysPVUpdate ==
  ASSUME TypeOK, AllKept, AllOnce, NEW u \in Claim, pvs[u].st = "live",
         NEW p \in PVUpdate(pvs[u]), PutPV(u, p), UNCHANGED <<pods, cpvs, cpods>>
  PROVE  StaysOnce
<1>1. pvs[u] \in PVObj /\ Kept(u)
  BY DEF TypeOK, AllKept
<1>2. p \in PVObj
  BY <1>1, PVUpdates, Zenon DEF PVUpdate
<1>3. p.st = "live" /\ p.off = pvs[u].off /\ p.fin = pvs[u].fin
  BY <1>1 DEF PVUpdate, PVObj
<1>4. ~p.fin => p.off
  BY <1>1, <1>3 DEF Kept, FreedKnown
<1> QED
  BY <1>2, <1>3, <1>4, StaysPV

\* ReconcileJob deletes a Pod: the deprovisioner's only once it reads that the
\* volume was freed.
LEMMA StaysJobDelete ==
  ASSUME TypeOK, AllOnce, NEW k \in Kind, NEW u \in Claim, JobDelete(k, u),
         k = "deprovisioner" => Off(cpvs[u]), UNCHANGED <<pvs, cpvs, cpods>>
  PROVE  StaysOnce
<1>1. CASE pods[k][u].st = "none"
  BY <1>1, StaysRead DEF JobDelete
<1>2. CASE pods[k][u].st # "none"
  <2> DEFINE p == [pods[k][u] EXCEPT !.del = TRUE]
  <2>1. pods[k][u] \in PodObj
    BY DEF TypeOK
  <2>2. p \in PodObj
    BY <2>1, PodUpdates, Zenon
  <2>3. PutPod(k, u, p)
    BY <1>2 DEF JobDelete, DeletePod
  <2> HIDE DEF p
  <2> QED
    BY <1>2, <2>2, <2>3, StaysPod
<1> QED
  BY <1>1, <1>2

-----------------------------------------------------------------------------
(* The steps. *)

LEMMA PVReconcileOnce ==
  ASSUME TypeOK, AllKept, AllOnce, PVReconcile
  PROVE  StaysOnce
<1> USE DEF api, caches, steps
<1>1. PICK u \in Claim : ReconcilePV(u)
  BY DEF PVReconcile
<1>2. Once(u) /\ pvs[u] \in PVObj /\ "deprovisioner" \in Kind
  BY DEF AllOnce, TypeOK, Kind
<1>3. CASE PVNotFound(u) \/ PVWait(u)
  BY <1>3, StaysRead DEF PVNotFound, PVWait
<1>4. CASE PVRemoveClaimRef(u)
  <2> DEFINE p == [pvs[u] EXCEPT !.ref = FALSE]
  <2>1. cpvs[u] = pvs[u] /\ pvs[u].st = "live" /\ pvs[u].fin
    BY <1>4 DEF PVRemoveClaimRef, PVReconciles, PVUpToDate
  <2>2. p \in PVObj
    BY <1>2, PVUpdates, Zenon
  <2>3. p.st = "live" /\ p.fin /\ p.off = pvs[u].off
    BY <1>2, <2>1 DEF PVObj
  <2>4. PutPV(u, p) /\ UNCHANGED <<pods, cpvs, cpods>>
    BY <1>4, <2>1 DEF PVRemoveClaimRef
  <2> HIDE DEF p
  <2> QED
    BY <2>1, <2>2, <2>3, <2>4, StaysPV
<1>5. CASE PVCreatePod(u)
  <2> DEFINE p == [NoPod EXCEPT !.st = "Running"]
  <2>1. p \in PodObj /\ p.st = "Running" /\ ~p.del
    BY Zenon DEF NoPod, PodObj
  <2>2. /\ PutPod("deprovisioner", u, p) /\ pods["deprovisioner"][u].st = "none"
        /\ UNCHANGED <<pvs, cpvs, cpods>>
    BY <1>5 DEF PVCreatePod, JobCreate
  <2>3. cpvs[u].st = "live" /\ ~cpvs[u].off /\ cpods["deprovisioner"][u].st = "none"
    BY <1>5 DEF PVCreatePod, PVReconciles, DeprovisionVerdict, JobVerdict
  <2>4. pvs[u].st = "live" /\ ~pvs[u].off
    BY <1>2, <2>2, <2>3 DEF Once, Off, PVObj
  <2> HIDE DEF p
  <2> QED
    BY <1>2, <2>1, <2>2, <2>3, <2>4, StaysPod
<1>6. CASE PVDisableDeprovisioner(u)
  <2> DEFINE p == [pvs[u] EXCEPT !.off = TRUE]
  <2>1. /\ cpvs[u] = pvs[u] /\ pvs[u].st = "live" /\ pvs[u].fin /\ ~cpvs[u].off
        /\ cpods["deprovisioner"][u].st = "Succeeded"
    BY <1>6
    DEF PVDisableDeprovisioner, PVReconciles, PVUpToDate, DeprovisionVerdict, JobVerdict
  <2>2. pods["deprovisioner"][u].st = "Succeeded"
    BY <1>2, <2>1 DEF Once, Off
  <2>3. p \in PVObj
    BY <1>2, PVUpdates, Zenon
  <2>4. p.st = "live" /\ p.fin /\ p.off
    BY <1>2, <2>1 DEF PVObj
  <2>5. PutPV(u, p) /\ UNCHANGED <<pods, cpvs, cpods>>
    BY <1>6, <2>1 DEF PVDisableDeprovisioner
  <2> HIDE DEF p
  <2> QED
    BY <2>1, <2>2, <2>3, <2>4, <2>5, StaysPV
<1>7. CASE PVDeletePod(u)
  <2>1. Off(cpvs[u])
    BY <1>7 DEF PVDeletePod, PVReconciles, DeprovisionVerdict, JobVerdict, Off
  <2> QED
    BY <1>2, <1>7, <2>1, StaysJobDelete DEF PVDeletePod
<1>8. CASE PVUnfinalize(u)
  <2> DEFINE p == [pvs[u] EXCEPT !.fin = FALSE]
  <2>1. cpvs[u] = pvs[u] /\ pvs[u].st = "live" /\ pvs[u].off
    BY <1>8 DEF PVUnfinalize, PVReconciles, PVUpToDate
  <2>2. p \in PVObj
    BY <1>2, PVUpdates, Zenon
  <2>3. p.st = "live" /\ p.off
    BY <1>2, <2>1 DEF PVObj
  <2>4. PutPV(u, p) /\ UNCHANGED <<pods, cpvs, cpods>>
    BY <1>8, <2>1 DEF PVUnfinalize
  <2> HIDE DEF p
  <2> QED
    BY <2>1, <2>2, <2>3, <2>4, StaysPV
<1> QED
  BY <1>1, <1>3, <1>4, <1>5, <1>6, <1>7, <1>8 DEF ReconcilePV

LEMMA PVCReconcileOnce ==
  ASSUME TypeOK, AllKept, AllOnce, PVCReconcile
  PROVE  StaysOnce
<1> USE DEF api, caches, steps, queues
<1>1. ASSUME NEW n \in Name, ClaimNotFound(n) PROVE StaysOnce
  BY <1>1, StaysRead DEF ClaimNotFound
<1>2. ASSUME NEW u \in Claim, ReconcileClaim(u) PROVE StaysOnce
  <2>1. CASE ClaimUnprotect(u) \/ ClaimNothingToDo(u) \/ ClaimRelease(u) \/ ClaimAddFinalizer(u)
    BY <2>1, StaysRead DEF ClaimUnprotect, ClaimNothingToDo, ClaimRelease, ClaimAddFinalizer
  <2>2. CASE ClaimDeletePod(u) \/ ClaimStopPod(u)
    BY <2>2, DeprovisionerKind, StaysJobDelete DEF ClaimDeletePod, ClaimStopPod
  <2>3. CASE ClaimDeletePV(u)
    <3>1. ASSUME pvs[u].st = "live" PROVE StaysOnce
      BY <2>3, <3>1, StaysPVUpdate, Zenon DEF ClaimDeletePV, DeletePV, PVUpdate
    <3>2. ASSUME pvs[u].st # "live" PROVE StaysOnce
      BY <2>3, <3>2, StaysRead, Zenon DEF ClaimDeletePV
    <3> QED
      BY <3>1, <3>2
  <2>4. CASE ClaimPanic(u)
    BY <2>4, StaysRead, Zenon DEF ClaimPanic, Restarted
  <2>5. CASE ClaimCreatePod(u)
    <3> DEFINE p == [NoPod EXCEPT !.st = "Running"]
    <3>1. p \in PodObj
      BY Zenon DEF NoPod, PodObj
    <3>2. PutPod("provisioner", u, p) /\ UNCHANGED <<pvs, cpvs, cpods>>
      BY <2>5 DEF ClaimCreatePod, JobCreate
    <3> HIDE DEF p
    <3> QED
      BY <3>1, <3>2, DeprovisionerKind, StaysPod
  <2>6. CASE ClaimCreatePV(u)
    <3> DEFINE p == [NoPV EXCEPT !.st = "live", !.prot = TRUE, !.fin = TRUE, !.ref = TRUE]
    <3>1. p \in PVObj /\ p.st = "live" /\ ~p.off /\ p.fin
      BY Zenon DEF NoPV, PVObj
    <3>2. PutPV(u, p) /\ pvs[u].st # "live" /\ UNCHANGED <<pods, cpvs, cpods>>
      BY <2>6 DEF ClaimCreatePV
    <3>3. pvs[u].st # "gone"
      BY <2>6 DEF ClaimCreatePV, Provisions, Reconciles, AllKept, Kept, ReferenceKept
    <3> HIDE DEF p
    <3> QED
      BY <3>1, <3>2, <3>3, StaysPV
  <2> QED
    BY <1>2, <2>1, <2>2, <2>3, <2>4, <2>5, <2>6 DEF ReconcileClaim
<1>3. ASSUME ClaimUnfinalize PROVE StaysOnce
  BY <1>3, StaysRead, Zenon DEF ClaimUnfinalize
<1>4. ASSUME ClaimReapPod PROVE StaysOnce
  <2>1. claimStep.u \in Claim
    BY <1>4 DEF ClaimReapPod, TypeOK, ClaimSteps, Idle
  <2> QED
    BY <1>4, <2>1, DeprovisionerKind, StaysJobDelete DEF ClaimReapPod
<1> QED
  BY <1>1, <1>2, <1>3, <1>4 DEF PVCReconcile

LEMMA PodReconcileOnce ==
  ASSUME AllOnce, PodReconcile
  PROVE  StaysOnce
<1> USE DEF api, caches, queues
<1>1. UNCHANGED <<pvs, pods, cpvs, cpods>>
  BY Zenon
  DEF PodReconcile, PodTake, PodSkipClaim, PodDeleteClaim, PodAnnotateClaim,
      PodFindsAnnotated, PodDone
<1> QED
  BY <1>1, StaysRead, Zenon

LEMMA UsersOnce ==
  ASSUME TypeOK, AllKept, AllOnce, Users
  PROVE  StaysOnce
<1> USE DEF manager, caches
<1>1. ASSUME NEW u \in Claim, UserDeletesPV(u) PROVE StaysOnce
  BY <1>1, StaysPVUpdate, Zenon DEF UserDeletesPV, DeletePV, PVUpdate
<1>2. ASSUME UNCHANGED <<pvs, pods, manager>> PROVE StaysOnce
  BY <1>2, StaysRead
<1> QED
  BY <1>1, <1>2, Zenon
  DEF Users, UserCreatesClaim, UserDeletesClaim, UserDropsAnnotation, GuardLifted, NodeSelected,
      UserCreatesWork, UserDeletesWork, WorkStarts, WorkEnds, SetWork

LEMMA ClusterOnce ==
  ASSUME TypeOK, AllKept, AllOnce, "podLost" \notin Faults, Cluster
  PROVE  StaysOnce
<1> USE DEF manager, caches
<1>1. ASSUME NEW u \in Claim,
             PVBound(u) \/ PVReleased(u) \/ PVAvailable(u) \/ PVUnprotected(u)
      PROVE  StaysOnce
  <2>1. \E p \in PVUpdate(pvs[u]) : PutPV(u, p)
    BY <1>1 DEF PVBound, PVReleased, PVAvailable, PVUnprotected, PVUpdate
  <2>2. pvs[u].st = "live" /\ UNCHANGED <<pods, cpvs, cpods>>
    BY <1>1 DEF PVBound, PVReleased, PVAvailable, PVUnprotected
  <2> QED
    BY <2>1, <2>2, StaysPVUpdate
<1>2. ASSUME NEW u \in Claim, ClaimUnprotected(u) \/ ClaimBound(u) PROVE StaysOnce
  BY <1>2, StaysRead DEF ClaimUnprotected, ClaimBound
<1>3. ASSUME NEW k \in Kind, NEW u \in Claim, JobSucceeds(k, u) \/ JobFails(k, u)
      PROVE  StaysOnce
  <2>1. PICK st \in {"Succeeded", "Failed"} : PutPod(k, u, [pods[k][u] EXCEPT !.st = st])
    BY <1>3 DEF JobSucceeds, JobFails
  <2> DEFINE p == [pods[k][u] EXCEPT !.st = st]
  <2>2. pods[k][u] \in PodObj /\ Once(u)
    BY DEF TypeOK, AllOnce
  <2>3. p \in PodObj /\ p.st = st /\ p.del = pods[k][u].del
    BY <2>2, PodUpdates DEF PodObj
  <2>4. PutPod(k, u, p)
    BY <2>1
  <2> HIDE DEF p
  <2>5. pods[k][u].st = "Running" /\ UNCHANGED <<pvs, cpvs, cpods>>
    BY <1>3 DEF JobSucceeds, JobFails
  <2>6. k = "deprovisioner" /\ p.del => Off(cpvs[u])
    BY <2>2, <2>3, Zenon DEF Once
  <2> QED
    BY <2>1, <2>3, <2>4, <2>5, <2>6, StaysPod
<1>4. ASSUME NEW k \in Kind, NEW u \in Claim, JobRemoved(k, u) PROVE StaysOnce
  <2>1. NoPod \in PodObj /\ NoPod.st = "none" /\ ~NoPod.del
    BY NoObjects DEF NoPod
  <2>2. PutPod(k, u, NoPod) /\ pods[k][u].del /\ UNCHANGED <<pvs, cpvs, cpods>>
    BY <1>4 DEF JobRemoved
  <2>3. k = "deprovisioner" => Off(cpvs[u])
    BY <2>2 DEF AllOnce, Once
  <2> QED
    BY <2>1, <2>2, <2>3, StaysPod
<1> QED
  BY <1>1, <1>2, <1>3, <1>4 DEF Cluster

LEMMA NextOnce ==
  ASSUME TypeOK, Consistent, AllOnce, "podLost" \notin Faults, [Next]_vars
  PROVE  StaysOnce
<1> USE DEF api, caches, queues, steps
<1>1. AllKept
  BY ConsistentParts
<1>2. CASE UNCHANGED vars
  BY <1>2, StaysRead DEF vars
<1>3. CASE Watch
  BY <1>3, StaysRead, Zenon DEF Watch, SyncClaims, SyncPVs, SyncPods, Resync, Learn
<1>4. CASE Fault
  BY <1>4, StaysRead, Zenon DEF Fault, Restart, Restarted, Forget, ClaimStepFails, PodWriteFails
<1> QED
  BY <1>1, <1>2, <1>3, <1>4, PVCReconcileOnce, PVReconcileOnce, PodReconcileOnce, UsersOnce,
     ClusterOnce, Zenon DEF Next

LEMMA InitOnce == Init => AllOnce
<1> SUFFICES ASSUME Init, NEW u \in Claim PROVE Once(u)
  BY DEF AllOnce
<1>1. pvs[u] = NoPV /\ cpvs[u] = NoPV
  BY DEF Init
<1>2. pods["deprovisioner"][u] = NoPod /\ cpods["deprovisioner"][u] = NoPod
  BY DeprovisionerKind DEF Init
<1> QED
  BY <1>1, <1>2 DEF Once, Off, NoPV, NoPod

\* Unless others remove finished Pods, no deprovisioner is started for a volume
\* that was marked as freed, however stale the volume and the Pod are that the
\* volume controller reads (ReconcileJob, OnCompleted).
THEOREM DeprovisionerRunsOnce ==
  ASSUME "podLost" \notin Faults
  PROVE  Spec => DeprovisionOnce
<1>1. Init => TypeOK /\ Consistent /\ AllOnce
  BY InitType, InitConsistent, InitOnce
<1>2. TypeOK /\ Consistent /\ AllOnce /\ [Next]_vars => (TypeOK /\ Consistent /\ AllOnce)'
  BY NextType, NextAdvances, NextOnce DEF StaysOnce
<1>3. TypeOK /\ Consistent /\ AllOnce /\ [Next]_vars => [StartsUnfreed]_vars
  BY NextOnce DEF StaysOnce
<1>4. DeprovisionOnce <=> [][StartsUnfreed]_vars
  BY PTL DEF DeprovisionOnce, StartsUnfreed
<1> QED
  BY <1>1, <1>2, <1>3, <1>4, PTL DEF Spec

-----------------------------------------------------------------------------
(* The volumes of running Pods. *)

\* The Pod will never run again, unless its name is used for another one.
Over(p) == p.st \in {"Succeeded", "Failed", "gone"}

\* Completing, the Pod may have its claim deleted and unprotected.
Frees(w, u) == u \in AutoDelete /\ NameOf[u] \in Writes[w] /\ Policy[w] # "Always"

\* A claim that a Pod frees is mounted by no other Pod.
Unshared == \A w, x \in Workload, u \in Claim : Frees(w, u) /\ NameOf[u] \in Mounts[x] => w = x

\* The Pod controller deals with Pods that are over only, and with the claims
\* they could write to.
OverFirst ==
  /\ \A w \in Workload :
       /\ Over(cwork[w]) => Over(work[w])
       /\ w \in podQ => Over(work[w]) /\ Policy[w] # "Always"
  /\ podStep # Idle =>
       /\ Over(work[podStep.w]) /\ Policy[podStep.w] # "Always"
       /\ podStep.todo \subseteq Writes[podStep.w]

\* A claim loses its protection only when it is deleted, and the protection is
\* waived only for a Pod that is over.
ProtectionKept(u) ==
  /\ claims[u].st = "live" /\ ~claims[u].prot => claims[u].del
  /\ claims[u].noProt => \E w \in Workload : Frees(w, u) /\ Over(work[w])

\* A running Pod holds the claims it was started with.
Held(w, u) ==
  work[w].st = "Running" /\ u \in work[w].vols =>
    NameOf[u] \in Mounts[w] /\ claims[u].st = "live" /\ claims[u].prot /\ claims[u].bound

InUseInv ==
  /\ OverFirst
  /\ \A u \in Claim : ProtectionKept(u) /\ \A w \in Workload : Held(w, u)

-----------------------------------------------------------------------------

LEMMA CompletedIsOver ==
  ASSUME NEW w, NEW p, PodCompleted(w, p)
  PROVE  Over(p) /\ Policy[w] # "Always"
BY DEF PodCompleted, Finished, Over

\* The loop of the Pod controller goes on, or ends.
LoopContinues ==
  \/ podStep' = Idle
  \/ podStep # Idle /\ podStep'.w = podStep.w /\ podStep'.todo \subseteq podStep.todo

\* No Pod changes; the manager may learn of one that is over.
LEMMA OverKept ==
  ASSUME OverFirst, work' = work, cwork' = cwork \/ cwork' = work, LoopContinues,
         \A w \in podQ' : w \in podQ \/ (Over(work[w]) /\ Policy[w] # "Always")
  PROVE  OverFirst'
<1>1. \A w \in Workload : Over(cwork'[w]) => Over(work'[w])
  BY DEF OverFirst
<1>2. \A w \in Workload : w \in podQ' => Over(work'[w]) /\ Policy[w] # "Always"
  BY DEF OverFirst
<1>3. podStep' # Idle =>
        /\ Over(work'[podStep'.w]) /\ Policy[podStep'.w] # "Always"
        /\ podStep'.todo \subseteq Writes[podStep'.w]
  BY DEF OverFirst, LoopContinues
<1> QED
  BY <1>1, <1>2, <1>3 DEF OverFirst, Over

\* A claim is written that keeps what running Pods need.
LEMMA ClaimHeld ==
  ASSUME TypeOK, InUseInv, NEW u \in Claim, NEW c \in ClaimObj, PutClaim(u, c), work' = work,
         c.st = "live",
         claims[u].st = "live" /\ claims[u].bound => c.bound,
         (\E w \in Workload : work[w].st = "Running" /\ u \in work[w].vols) => c.prot,
         ~c.prot => c.del,
         c.noProt => \E w \in Workload : Frees(w, u) /\ Over(work[w])
  PROVE  \A v \in Claim : ProtectionKept(v)' /\ \A w \in Workload : Held(w, v)'
<1>1. /\ c.prot => claims'[u] = c
      /\ claims'[u] = c \/ (claims'[u].st = "gone" /\ ~claims'[u].noProt)
      /\ \A v \in Claim \ {u} : claims'[v] = claims[v]
  <2>1. claims'[u] = StoredClaim(c) /\ \A v \in Claim \ {u} : claims'[v] = claims[v]
    BY PutClaimAt
  <2> QED
    BY <2>1 DEF StoredClaim, NoClaim
<1>2. ProtectionKept(u)'
  BY <1>1 DEF ProtectionKept, Over
<1>3. ASSUME NEW w \in Workload PROVE Held(w, u)'
  <2>1. Held(w, u)
    BY DEF InUseInv
  <2> QED
    BY <1>1, <2>1 DEF Held
<1>4. ASSUME NEW v \in Claim, v # u PROVE ProtectionKept(v)' /\ \A w \in Workload : Held(w, v)'
  BY <1>1, <1>4 DEF InUseInv, ProtectionKept, Held, Over
<1> QED
  BY <1>2, <1>3, <1>4

\* No claim and no Pod changes.
LEMMA ClaimsHeld ==
  ASSUME InUseInv, UNCHANGED <<claims, work>>
  PROVE  \A v \in Claim : ProtectionKept(v)' /\ \A w \in Workload : Held(w, v)'
BY DEF InUseInv, ProtectionKept, Held, Over

\* A Pod is written.
LEMMA WorkHeld ==
  ASSUME TypeOK, InUseInv, NEW w \in Workload, NEW p, work' = [work EXCEPT ![w] = p],
         UNCHANGED <<claims, cwork, podQ, podStep>>,
         Over(work[w]) => Over(p),
         p.st = "Running" => \A u \in p.vols :
           NameOf[u] \in Mounts[w] /\ claims[u].st = "live" /\ claims[u].prot /\ claims[u].bound
  PROVE  InUseInv'
<1>1. work'[w] = p /\ \A x \in Workload \ {w} : work'[x] = work[x]
  BY DEF TypeOK
<1>2. \A x \in Workload : Over(work[x]) => Over(work'[x])
  BY <1>1
<1>3. podStep # Idle => podStep.w \in Workload
  BY DEF TypeOK, PodSteps
<1>4. OverFirst'
  <2>1. /\ \A x \in Workload : Over(cwork'[x]) => Over(work'[x])
        /\ \A x \in Workload : x \in podQ' => Over(work'[x]) /\ Policy[x] # "Always"
    BY <1>2, Zenon DEF InUseInv, OverFirst
  <2>2. podStep' # Idle =>
          /\ Over(work'[podStep'.w]) /\ Policy[podStep'.w] # "Always"
          /\ podStep'.todo \subseteq Writes[podStep'.w]
    BY <1>2, <1>3, Zenon DEF InUseInv, OverFirst
  <2> QED
    BY <2>1, <2>2 DEF OverFirst, Over
<1>5. ASSUME NEW u \in Claim PROVE ProtectionKept(u)'
  <2>1. claims'[u] = claims[u] /\ ProtectionKept(u)
    BY DEF InUseInv
  <2> QED
    BY <1>2, <2>1 DEF ProtectionKept, Over
<1>6. ASSUME NEW u \in Claim, NEW x \in Workload PROVE Held(x, u)'
  <2>1. claims'[u] = claims[u] /\ Held(x, u)
    BY DEF InUseInv
  <2> QED
    BY <1>1, <2>1 DEF Held
<1> QED
  BY <1>4, <1>5, <1>6 DEF InUseInv

\* What the Pod controller and the running Pods have to do with does not change.
LEMMA InUseSame ==
  ASSUME InUseInv, UNCHANGED <<claims, work, cwork, podQ, podStep>>
  PROVE  InUseInv'
<1>1. OverFirst'
  BY OverKept DEF InUseInv, LoopContinues, OverFirst
<1> QED
  BY <1>1, ClaimsHeld, Zenon DEF InUseInv

\* The updates that leave a claim its protection.
ProtectedUpdate(c) ==
  { [c EXCEPT !.del = TRUE], [c EXCEPT !.fin = TRUE], [c EXCEPT !.fin = FALSE],
    [c EXCEPT !.guard = FALSE], [c EXCEPT !.node = TRUE], [c EXCEPT !.env = FALSE],
    [c EXCEPT !.bound = TRUE] }

LEMMA ProtectedHeld ==
  ASSUME TypeOK, InUseInv, NEW u \in Claim, claims[u].st = "live",
         NEW c \in ProtectedUpdate(claims[u]), PutClaim(u, c), work' = work
  PROVE  \A v \in Claim : ProtectionKept(v)' /\ \A w \in Workload : Held(w, v)'
<1>1. claims[u] \in ClaimObj /\ ProtectionKept(u) /\ \A w \in Workload : Held(w, u)
  BY DEF TypeOK, InUseInv
<1>2. c \in ClaimObj
  BY <1>1, ClaimUpdates, Zenon DEF ProtectedUpdate
<1>3. /\ c.st = "live" /\ c.prot = claims[u].prot /\ c.noProt = claims[u].noProt
      /\ (claims[u].del => c.del) /\ (claims[u].bound => c.bound)
  BY <1>1 DEF ProtectedUpdate, ClaimObj
<1>4. (\E w \in Workload : work[w].st = "Running" /\ u \in work[w].vols) => c.prot
  BY <1>1, <1>3 DEF Held
<1>5. (~c.prot => c.del) /\ (c.noProt => \E w \in Workload : Frees(w, u) /\ Over(work[w]))
  BY <1>1, <1>3 DEF ProtectionKept
<1> QED
  BY <1>2, <1>3, <1>4, <1>5, ClaimHeld

LEMMA ProtectedWrite ==
  ASSUME TypeOK, InUseInv, NEW u \in Claim, claims[u].st = "live",
         NEW c \in ProtectedUpdate(claims[u]), PutClaim(u, c), UNCHANGED <<work, cwork, podQ, podStep>>
  PROVE  InUseInv'
<1>1. OverFirst'
  BY OverKept DEF InUseInv, LoopContinues, OverFirst
<1> QED
  BY <1>1, ProtectedHeld, Zenon DEF InUseInv

\* The protection is removed from a deleted claim that no running Pod has.
LEMMA UnprotectedWrite ==
  ASSUME TypeOK, InUseInv, NEW u \in Claim, claims[u].st = "live", claims[u].del,
         PutClaim(u, [claims[u] EXCEPT !.prot = FALSE]), UNCHANGED <<work, cwork, podQ, podStep>>,
         \A w \in Workload : NameOf[u] \in Mounts[w] => work[w].st # "Running"
  PROVE  InUseInv'
<1> DEFINE c == [claims[u] EXCEPT !.prot = FALSE]
<1>1. claims[u] \in ClaimObj /\ ProtectionKept(u) /\ \A w \in Workload : Held(w, u)
  BY DEF TypeOK, InUseInv
<1>2. c \in ClaimObj
  BY <1>1, ClaimUpdates, Zenon
<1>3. c.st = "live" /\ c.noProt = claims[u].noProt /\ c.del /\ c.bound = claims[u].bound
  BY <1>1 DEF ClaimObj
<1>4. ~(\E w \in Workload : work[w].st = "Running" /\ u \in work[w].vols)
  BY <1>1 DEF Held
<1>5. c.noProt => \E w \in Workload : Frees(w, u) /\ Over(work[w])
  BY <1>1, <1>3 DEF ProtectionKept
<1>6. OverFirst'
  BY OverKept DEF InUseInv, LoopContinues, OverFirst
<1>7. \A v \in Claim : ProtectionKept(v)' /\ \A w \in Workload : Held(w, v)'
  <2>1. PutClaim(u, c)
    OBVIOUS
  <2> HIDE DEF c
  <2> QED
    BY <1>2, <1>3, <1>4, <1>5, <2>1, ClaimHeld
<1> QED
  BY <1>6, <1>7, Zenon DEF InUseInv

-----------------------------------------------------------------------------
(* The steps. *)

LEMMA PVCReconcileInUse ==
  ASSUME TypeOK, StepFollowsClaim, InUseInv, Unshared, PVCReconcile
  PROVE  InUseInv'
<1> USE DEF api, caches, steps, queues
<1>1. ASSUME NEW n \in Name, ClaimNotFound(n) PROVE InUseInv'
  BY <1>1, InUseSame DEF ClaimNotFound
<1>2. ASSUME NEW u \in Claim, ReconcileClaim(u) PROVE InUseInv'
  <2>1. CASE ClaimNothingToDo(u) \/ ClaimDeletePod(u) \/ ClaimDeletePV(u) \/ ClaimCreatePod(u)
               \/ ClaimCreatePV(u) \/ ClaimStopPod(u)
    BY <2>1, InUseSame, Zenon
    DEF ClaimNothingToDo, ClaimDeletePod, ClaimDeletePV, ClaimCreatePod, ClaimCreatePV, ClaimStopPod
  <2>2. CASE ClaimRelease(u) \/ ClaimAddFinalizer(u)
    <3>1. claims[u].st = "live" /\ UNCHANGED <<work, cwork, podQ, podStep>>
      BY <2>2 DEF ClaimRelease, ClaimAddFinalizer, Deprovisions, Reconciles, UpToDate
    <3>2. \E c \in ProtectedUpdate(claims[u]) : PutClaim(u, c)
      BY <2>2, Zenon DEF ClaimRelease, ClaimAddFinalizer, UpToDate, ProtectedUpdate
    <3> QED
      BY <3>1, <3>2, ProtectedWrite
  <2>3. CASE ClaimUnprotect(u)
    <3>1. /\ claims[u].st = "live" /\ claims[u].del /\ claims[u].noProt
          /\ PutClaim(u, [claims[u] EXCEPT !.prot = FALSE]) /\ UNCHANGED <<work, cwork, podQ, podStep>>
      BY <2>3, Zenon DEF ClaimUnprotect, Reconciles, UpToDate
    <3>2. ASSUME NEW w \in Workload, NameOf[u] \in Mounts[w] PROVE work[w].st # "Running"
      <4>1. PICK x \in Workload : Frees(x, u) /\ Over(work[x])
        BY <3>1 DEF InUseInv, ProtectionKept
      <4>2. x = w
        BY <3>2, <4>1 DEF Unshared
      <4> QED
        BY <4>1, <4>2 DEF Over
    <3> QED
      BY <3>1, <3>2, UnprotectedWrite
  <2>4. CASE ClaimPanic(u)
    <3>1. UNCHANGED <<claims, work>> /\ cwork' = work /\ podStep' = Idle /\ podQ' = PodKeys(work)
      BY <2>4, Zenon DEF ClaimPanic, Restarted
    <3>2. OverFirst'
      BY <3>1, CompletedIsOver, OverKept DEF InUseInv, LoopContinues, PodKeys
    <3> QED
      BY <3>1, <3>2, ClaimsHeld, Zenon DEF InUseInv
  <2> QED
    BY <1>2, <2>1, <2>2, <2>3, <2>4 DEF ReconcileClaim
<1>3. ASSUME ClaimUnfinalize PROVE InUseInv'
  <2> DEFINE u == claimStep.u
  <2>1. u \in Claim
    BY <1>3 DEF ClaimUnfinalize, TypeOK, ClaimSteps, Idle
  <2>2. CASE claims[u] = claimStep.seen /\ claims[u].st = "live"
    <3>1. \E c \in ProtectedUpdate(claims[u]) : PutClaim(u, c)
      BY <1>3, <2>2, Zenon DEF ClaimUnfinalize, ProtectedUpdate
    <3>2. UNCHANGED <<work, cwork, podQ, podStep>>
      BY <1>3, Zenon DEF ClaimUnfinalize
    <3> QED
      BY <2>1, <2>2, <3>1, <3>2, ProtectedWrite
  <2>3. CASE claims[u] # claimStep.seen
    BY <1>3, <2>3, InUseSame DEF ClaimUnfinalize
  <2>4. claimStep.seen.st = "live"
    BY <1>3 DEF ClaimUnfinalize, StepFollowsClaim
  <2> QED
    BY <2>2, <2>3, <2>4
<1>4. ASSUME ClaimReapPod PROVE InUseInv'
  BY <1>4, InUseSame DEF ClaimReapPod
<1> QED
  BY <1>1, <1>2, <1>3, <1>4 DEF PVCReconcile

LEMMA PodReconcileInUse ==
  ASSUME TypeOK, InUseInv, PodReconcile \/ \E n \in Name : PodWriteFails(n)
  PROVE  InUseInv'
<1> USE DEF api, caches, queues
<1>1. podStep # Idle => podStep \in [at : {"loop"}, w : Workload, todo : SUBSET Name, kill : SUBSET Name, err : BOOLEAN]
  BY DEF TypeOK, PodSteps
<1>2. ASSUME NEW w \in Workload, PodTake(w) PROVE InUseInv'
  <2>1. /\ w \in podQ /\ podQ' = podQ \ {w} /\ UNCHANGED <<claims, work, cwork>>
        /\ podStep' = Idle \/ (podStep'.w = w /\ podStep'.todo = Writes[w])
    BY <1>2 DEF PodTake
  <2>2. Over(work[w]) /\ Policy[w] # "Always"
    BY <2>1 DEF InUseInv, OverFirst
  <2>3. OverFirst'
    <3>1. /\ \A x \in Workload : Over(cwork'[x]) => Over(work'[x])
          /\ \A x \in Workload : x \in podQ' => Over(work'[x]) /\ Policy[x] # "Always"
      BY <2>1 DEF InUseInv, OverFirst
    <3>2. podStep' # Idle =>
            /\ Over(work'[podStep'.w]) /\ Policy[podStep'.w] # "Always"
            /\ podStep'.todo \subseteq Writes[podStep'.w]
      BY <2>1, <2>2
    <3> QED
      BY <3>1, <3>2 DEF OverFirst, Over
  <2> QED
    BY <2>1, <2>3, ClaimsHeld, Zenon DEF InUseInv
<1>3. ASSUME NEW n \in Name, PodSkipClaim(n) \/ PodWriteFails(n) \/ \E u \in Claim : PodFindsAnnotated(n, u)
      PROVE  InUseInv'
  <2>1. /\ podStep # Idle /\ UNCHANGED <<claims, work, cwork, podQ>>
        /\ \/ podStep' = [podStep EXCEPT !.todo = @ \ {n}]
           \/ podStep' = [podStep EXCEPT !.kill = {}, !.err = TRUE]
           \/ podStep' = [podStep EXCEPT !.todo = @ \ {n}, !.err = TRUE]
           \/ podStep' = [podStep EXCEPT !.todo = @ \ {n}, !.kill = {n}]
    BY <1>3, Zenon DEF PodSkipClaim, PodWriteFails, PodFindsAnnotated, Visits, Visited
  <2>2. LoopContinues
    BY <1>1, <2>1, Zenon DEF LoopContinues
  <2>3. OverFirst'
    BY <2>1, <2>2, OverKept DEF InUseInv
  <2> QED
    BY <2>1, <2>3, ClaimsHeld, Zenon DEF InUseInv
<1>4. ASSUME NEW n \in Name, PodDeleteClaim(n) PROVE InUseInv'
  <2>1. podStep # Idle /\ podStep' = [podStep EXCEPT !.kill = {}] /\ UNCHANGED <<work, cwork, podQ>>
    BY <1>4, Zenon DEF PodDeleteClaim
  <2>2. LoopContinues
    BY <1>1, <2>1 DEF LoopContinues
  <2>3. OverFirst'
    BY <2>1, <2>2, OverKept DEF InUseInv
  <2>4. ASSUME NEW u \in Claim, claims[u].st = "live", DeleteClaim(u)
        PROVE  \A v \in Claim : ProtectionKept(v)' /\ \A w \in Workload : Held(w, v)'
    BY <2>1, <2>4, ProtectedHeld, Zenon DEF DeleteClaim, ProtectedUpdate
  <2>5. ASSUME UNCHANGED claims
        PROVE  \A v \in Claim : ProtectionKept(v)' /\ \A w \in Workload : Held(w, v)'
    BY <2>1, <2>5, ClaimsHeld
  <2> QED
    BY <1>4, <2>3, <2>4, <2>5, Zenon DEF PodDeleteClaim, InUseInv
<1>5. ASSUME NEW n \in Name, NEW u \in Claim, PodAnnotateClaim(n, u) PROVE InUseInv'
  <2>1. /\ podStep # Idle /\ n \in podStep.todo /\ NameOf[u] = n /\ u \in AutoDelete
        /\ cclaims[u].st = "live" /\ UNCHANGED <<work, cwork, podQ>>
    BY <1>5, Zenon DEF PodAnnotateClaim, Visits, Annotates, ShouldDelete
  <2>2. podStep'.w = podStep.w /\ podStep'.todo = podStep.todo \ {n}
    BY <1>1, <1>5, <2>1, Zenon DEF PodAnnotateClaim
  <2>3. OverFirst'
    BY <2>1, <2>2, OverKept DEF InUseInv, LoopContinues
  <2>4. CASE cclaims[u] = claims[u]
    <3> DEFINE c == [claims[u] EXCEPT !.noProt = TRUE]
    <3>1. claims[u] \in ClaimObj /\ ProtectionKept(u) /\ \A w \in Workload : Held(w, u)
      BY DEF TypeOK, InUseInv
    <3>2. c \in ClaimObj
      BY <3>1, ClaimUpdates, Zenon
    <3>3. c.st = "live" /\ c.prot = claims[u].prot /\ c.del = claims[u].del /\ c.bound = claims[u].bound
      BY <2>1, <2>4, <3>1 DEF ClaimObj
    <3>4. podStep.w \in Workload /\ Frees(podStep.w, u) /\ Over(work[podStep.w])
      BY <1>1, <2>1 DEF InUseInv, OverFirst, Frees
    <3>5. (\E w \in Workload : work[w].st = "Running" /\ u \in work[w].vols) => c.prot
      BY <3>1, <3>3 DEF Held
    <3>6. ~c.prot => c.del
      BY <2>1, <2>4, <3>1, <3>3 DEF ProtectionKept
    <3>7. PutClaim(u, c)
      BY <1>5, <2>4, Zenon DEF PodAnnotateClaim
    <3> HIDE DEF c
    <3>8. \A v \in Claim : ProtectionKept(v)' /\ \A w \in Workload : Held(w, v)'
      BY <2>1, <3>2, <3>3, <3>4, <3>5, <3>6, <3>7, ClaimHeld
    <3> QED
      BY <2>3, <3>8, Zenon DEF InUseInv
  <2>5. CASE cclaims[u] # claims[u]
    <3>1. UNCHANGED claims
      BY <1>5, <2>5, Zenon DEF PodAnnotateClaim
    <3> QED
      BY <2>1, <2>3, <3>1, ClaimsHeld, Zenon DEF InUseInv
  <2> QED
    BY <2>4, <2>5
<1>6. ASSUME PodDone PROVE InUseInv'
  <2>1. /\ podStep # Idle /\ podStep' = Idle /\ podQ' \subseteq podQ \cup {podStep.w}
        /\ UNCHANGED <<claims, work, cwork>>
    BY <1>6, Zenon DEF PodDone
  <2>2. OverFirst'
    BY <2>1, OverKept, Zenon DEF InUseInv, OverFirst, LoopContinues
  <2> QED
    BY <2>1, <2>2, ClaimsHeld, Zenon DEF InUseInv
<1> QED
  BY <1>2, <1>3, <1>4, <1>5, <1>6, Zenon DEF PodReconcile

LEMMA UsersInUse ==
  ASSUME TypeOK, InUseInv, "reuse" \notin Faults, Users
  PROVE  InUseInv'
<1> USE DEF manager, caches, queues, steps
<1>1. ASSUME NEW u \in Claim, UserCreatesClaim(u) PROVE InUseInv'
  <2> DEFINE guard == u \in Guarded
             c == [NoClaim EXCEPT !.st = "live", !.prot = TRUE, !.env = TRUE, !.guard = guard]
  <2>1. c \in ClaimObj /\ c.st = "live" /\ c.prot /\ ~c.noProt
    <3> HIDE DEF guard
    <3>1. guard \in BOOLEAN
      BY DEF guard
    <3> QED
      BY <3>1, NewObjects, Zenon DEF NoClaim
  <2>2. PutClaim(u, c) /\ claims[u].st = "unborn" /\ UNCHANGED <<work, cwork, podQ, podStep>>
    BY <1>1 DEF UserCreatesClaim
  <2> HIDE DEF c
  <2>3. OverFirst'
    <3>1. LoopContinues
      BY <2>2 DEF LoopContinues
    <3> QED
      BY <2>2, <3>1, OverKept DEF InUseInv
  <2>4. \A v \in Claim : ProtectionKept(v)' /\ \A w \in Workload : Held(w, v)'
    BY <2>1, <2>2, ClaimHeld
  <2> QED
    BY <2>3, <2>4, Zenon DEF InUseInv
<1>2. ASSUME NEW u \in Claim,
             UserDeletesClaim(u) \/ UserDropsAnnotation(u) \/ GuardLifted(u) \/ NodeSelected(u)
      PROVE  InUseInv'
  <2>1. \E c \in ProtectedUpdate(claims[u]) : PutClaim(u, c)
    BY <1>2 DEF UserDeletesClaim, DeleteClaim, UserDropsAnnotation, GuardLifted, NodeSelected, ProtectedUpdate
  <2>2. claims[u].st = "live" /\ UNCHANGED <<work, cwork, podQ, podStep>>
    BY <1>2 DEF UserDeletesClaim, UserDropsAnnotation, GuardLifted, NodeSelected
  <2> QED
    BY <2>1, <2>2, ProtectedWrite
<1>3. ASSUME NEW u \in Claim, UserDeletesPV(u) PROVE InUseInv'
  BY <1>3, InUseSame DEF UserDeletesPV
<1>4. ASSUME NEW w \in Workload,
             \/ UserCreatesWork(w) \/ UserDeletesWork(w) \/ WorkStarts(w)
             \/ \E st \in {"Succeeded", "Failed"} : WorkEnds(w, st)
      PROVE  InUseInv'
  <2>1. PICK p : SetWork(w, p) /\ (Over(work[w]) => Over(p))
                 /\ (p.st = "Running" => work[w].st = "Pending" /\ p.vols = Mounted(w)
                       /\ \A u \in Mounted(w) : claims[u].bound /\ ~claims[u].del)
    <3>1. ASSUME UserCreatesWork(w) PROVE SetWork(w, [NoWork EXCEPT !.st = "Pending"]) /\ ~Over(work[w])
      BY <3>1 DEF UserCreatesWork, Over
    <3>2. CASE UserCreatesWork(w)
      BY <3>1, <3>2 DEF NoWork
    <3>3. CASE UserDeletesWork(w)
      BY <3>3 DEF UserDeletesWork, NoWork, Over
    <3>4. CASE WorkStarts(w)
      BY <3>4 DEF WorkStarts, Over
    <3>5. ASSUME NEW st \in {"Succeeded", "Failed"}, WorkEnds(w, st)
          PROVE  SetWork(w, [work[w] EXCEPT !.st = st]) /\ [work[w] EXCEPT !.st = st].st = st
      BY <3>5 DEF WorkEnds, TypeOK, WorkObj
    <3>6. CASE \E st \in {"Succeeded", "Failed"} : WorkEnds(w, st)
      BY <3>5, <3>6, Zenon DEF Over
    <3> QED
      BY <1>4, <3>2, <3>3, <3>4, <3>6, Zenon
  <2>2. work' = [work EXCEPT ![w] = p] /\ UNCHANGED <<claims, cwork, podQ, podStep>>
    BY <2>1 DEF SetWork
  <2>3. ASSUME p.st = "Running", NEW u \in p.vols
        PROVE  NameOf[u] \in Mounts[w] /\ claims[u].st = "live" /\ claims[u].prot /\ claims[u].bound
    BY <2>1, <2>3 DEF Mounted, InUseInv, ProtectionKept
  <2> QED
    BY <2>1, <2>2, <2>3, WorkHeld, Zenon
<1> QED
  BY <1>1, <1>2, <1>3, <1>4 DEF Users

LEMMA ClusterInUse ==
  ASSUME TypeOK, InUseInv, Cluster
  PROVE  InUseInv'
<1> USE DEF manager, caches, queues, steps
<1>1. ASSUME NEW u \in Claim, PVBound(u) \/ PVReleased(u) \/ PVAvailable(u) \/ PVUnprotected(u)
      PROVE  InUseInv'
  BY <1>1, InUseSame DEF PVBound, PVReleased, PVAvailable, PVUnprotected
<1>2. ASSUME NEW u \in Claim, ClaimBound(u) PROVE InUseInv'
  BY <1>2, ProtectedWrite, Zenon DEF ClaimBound, ProtectedUpdate
<1>3. ASSUME NEW u \in Claim, ClaimUnprotected(u) PROVE InUseInv'
  BY <1>3, UnprotectedWrite DEF ClaimUnprotected
<1>4. ASSUME NEW k \in Kind, NEW u \in Claim, JobSucceeds(k, u) \/ JobFails(k, u) \/ JobRemoved(k, u)
      PROVE  InUseInv'
  BY <1>4, InUseSame DEF JobSucceeds, JobFails, JobRemoved
<1> QED
  BY <1>1, <1>2, <1>3, <1>4 DEF Cluster

LEMMA WatchInUse ==
  ASSUME TypeOK, InUseInv, Watch \/ Restart \/ Forget \/ ClaimStepFails
  PROVE  InUseInv'
<1> USE DEF api, caches, queues, steps
<1>1. CASE SyncClaims \/ SyncPVs \/ Learn \/ Forget \/ ClaimStepFails
  BY <1>1, InUseSame DEF SyncClaims, SyncPVs, Learn, Forget, ClaimStepFails
<1>2. ASSUME UNCHANGED <<claims, work>>, cwork' = cwork \/ cwork' = work, LoopContinues,
             \A w \in podQ' : w \in podQ \/ (Over(work[w]) /\ Policy[w] # "Always")
      PROVE  InUseInv'
  BY <1>2, OverKept, ClaimsHeld, Zenon DEF InUseInv
<1>3. CASE SyncPods
  <2>1. ASSUME NEW w \in podQ', w \notin podQ PROVE Over(work[w]) /\ Policy[w] # "Always"
    <3>1. w \in Workload /\ PodCompleted(w, Latest(work[w], cwork[w]))
      BY <1>3, <2>1, Zenon DEF SyncPods
    <3>2. Over(Latest(work[w], cwork[w])) /\ Policy[w] # "Always"
      BY <3>1, CompletedIsOver
    <3>3. Over(cwork[w]) => Over(work[w])
      BY <3>1 DEF InUseInv, OverFirst
    <3> QED
      BY <3>2, <3>3 DEF Latest
  <2>2. UNCHANGED <<claims, work, podStep>> /\ cwork' = work
    BY <1>3 DEF SyncPods
  <2>3. LoopContinues
    BY <2>2 DEF LoopContinues
  <2> QED
    BY <1>2, <2>1, <2>2, <2>3
<1>4. CASE Resync
  <2>1. ASSUME NEW w \in podQ', w \notin podQ PROVE Over(work[w]) /\ Policy[w] # "Always"
    <3>1. w \in Workload /\ PodCompleted(w, cwork[w])
      BY <1>4, <2>1 DEF Resync, PodKeys
    <3> QED
      BY <3>1, CompletedIsOver DEF InUseInv, OverFirst
  <2>2. UNCHANGED <<claims, work, cwork, podStep>>
    BY <1>4 DEF Resync
  <2>3. LoopContinues
    BY <2>2 DEF LoopContinues
  <2> QED
    BY <1>2, <2>1, <2>2, <2>3
<1>5. CASE Restart
  <2>1. UNCHANGED <<claims, work>> /\ cwork' = work /\ podStep' = Idle /\ podQ' = PodKeys(work)
    BY <1>5, Zenon DEF Restart, Restarted
  <2>2. \A w \in podQ' : Over(work[w]) /\ Policy[w] # "Always"
    BY <2>1, CompletedIsOver DEF PodKeys
  <2>3. LoopContinues
    BY <2>1 DEF LoopContinues
  <2> QED
    BY <1>2, <2>1, <2>2, <2>3
<1> QED
  BY <1>1, <1>3, <1>4, <1>5 DEF Watch

LEMMA NextInUse ==
  ASSUME TypeOK, Consistent, InUseInv, Unshared, "reuse" \notin Faults, [Next]_vars
  PROVE  InUseInv'
<1>1. CASE UNCHANGED vars
  BY <1>1, InUseSame DEF vars
<1>2. CASE PVReconcile
  BY <1>2, InUseSame, Zenon
  DEF PVReconcile, ReconcilePV, PVNotFound, PVWait, PVRemoveClaimRef, PVCreatePod,
      PVDisableDeprovisioner, PVDeletePod, PVUnfinalize, api, caches, steps
<1>3. CASE PVCReconcile
  BY <1>3, PVCReconcileInUse DEF Consistent
<1> QED
  BY <1>1, <1>2, <1>3, PodReconcileInUse, UsersInUse, ClusterInUse, WatchInUse, Zenon DEF Next, Fault

LEMMA InitInUse == Init => InUseInv
<1> SUFFICES ASSUME Init PROVE InUseInv
  OBVIOUS
<1>1. OverFirst
  BY DEF Init, OverFirst, Over, NoWork
<1>2. \A u \in Claim : ProtectionKept(u)
  BY DEF Init, ProtectionKept, NoClaim
<1>3. \A u \in Claim, w \in Workload : Held(w, u)
  BY DEF Init, Held, NoWork
<1> QED
  BY <1>1, <1>2, <1>3 DEF InUseInv

\* Whatever fails, restarts and is read late, and although the manager takes the
\* protection off claims: as long as the claims that are freed with a Pod are
\* mounted by that Pod only, and Pods are not created again under the same name,
\* no volume is freed while a Pod runs that was started with it (Reconcile of
\* the Pod controller, removal of pvc-protection in that of the claims).
THEOREM RunningPodKeepsVolumes ==
  ASSUME Unshared, "reuse" \notin Faults
  PROVE  Spec => []RunningPodHasVolumes
<1>1. Init => TypeOK /\ Consistent /\ InUseInv
  BY InitType, InitConsistent, InitInUse
<1>2. TypeOK /\ Consistent /\ InUseInv /\ [Next]_vars => (TypeOK /\ Consistent /\ InUseInv)'
  BY NextType, NextAdvances, NextInUse
<1>3. TypeOK /\ Consistent /\ InUseInv => RunningPodHasVolumes
  <2> SUFFICES ASSUME TypeOK, Consistent, InUseInv, NEW w \in Workload, work[w].st = "Running",
                      NEW u \in work[w].vols
               PROVE  vol[u]
    BY DEF RunningPodHasVolumes
  <2>1. u \in Claim
    BY DEF TypeOK, WorkObj
  <2>2. claims[u].st = "live" /\ claims[u].bound
    BY <2>1 DEF InUseInv, Held
  <2> QED
    BY <2>1, <2>2, Zenon DEF Consistent, VolumeKept
<1> QED
  BY <1>1, <1>2, <1>3, PTL DEF Spec

=============================================================================
