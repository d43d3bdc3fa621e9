---------------------------- MODULE Provisioning ----------------------------
(***************************************************************************)
(* The manager (cmd/manager/main.go): the claim, volume and Pod            *)
(* controllers at work in one cluster, each with one worker, sharing the   *)
(* caches of one manager process.                                          *)
(***************************************************************************)
EXTENDS PVCController, PVController, PodController

Init ==
  /\ claims = [u \in Claim |-> NoClaim] /\ cclaims = claims
  /\ pvs = [u \in Claim |-> NoPV] /\ cpvs = pvs
  /\ pods = [k \in Kind |-> [u \in Claim |-> NoPod]] /\ cpods = pods
  /\ work = [w \in Workload |-> NoWork] /\ cwork = work
  /\ vol = [u \in Claim |-> FALSE] /\ freed = {}
  /\ claimQ = {} /\ pvQ = {} /\ podQ = {}
  /\ claimStep = Idle /\ podStep = Idle
  /\ known = TRUE

Users ==
  \/ \E u \in Claim :
       \/ UserCreatesClaim(u) \/ UserDeletesClaim(u) \/ UserDropsAnnotation(u)
       \/ UserDeletesPV(u) \/ GuardLifted(u) \/ NodeSelected(u)
  \/ \E w \in Workload :
       \/ UserCreatesWork(w) \/ UserDeletesWork(w) \/ WorkStarts(w)
       \/ \E st \in {"Succeeded", "Failed"} : WorkEnds(w, st)

Cluster ==
  \/ \E u \in Claim :
       \/ PVBound(u) \/ ClaimBound(u) \/ PVReleased(u) \/ PVAvailable(u)
       \/ PVUnprotected(u) \/ ClaimUnprotected(u)
  \/ \E k \in Kind, u \in Claim : JobSucceeds(k, u) \/ JobFails(k, u) \/ JobRemoved(k, u)

Watch == SyncClaims \/ SyncPVs \/ SyncPods \/ Resync \/ Learn

Fault == Restart \/ Forget \/ ClaimStepFails \/ \E n \in Name : PodWriteFails(n)

Next ==
  \/ PVCReconcile \/ PVReconcile \/ PodReconcile
  \/ Users \/ Cluster \/ Watch \/ Fault

Spec == Init /\ [][Next]_vars

\* The workers take every key (the queues are fair) and go on with what they
\* started; the watches deliver; resyncs recur; the cluster's controllers and
\* kubelets do their work.  What is tried over and over, through failed writes
\* and restarts, succeeds at last, hence strong fairness there.  Users, faults
\* and the outcome of a Pod are free.
Fairness ==
  /\ \A n \in Name : WF_vars(ClaimNotFound(n))
  /\ \A u \in Claim : WF_vars(ReconcileClaim(u)) /\ WF_vars(ReconcilePV(u))
  /\ SF_vars(ClaimUnfinalize) /\ SF_vars(ClaimReapPod)
  /\ WF_vars(PodReconcile)
  /\ \A n \in UNION {Mounts[w] : w \in Workload} :
       /\ SF_vars(PodDeleteClaim(n))
       /\ \A u \in Claim : SF_vars(PodAnnotateClaim(n, u)) /\ SF_vars(PodFindsAnnotated(n, u))
  /\ WF_vars(SyncClaims) /\ WF_vars(SyncPVs) /\ WF_vars(SyncPods) /\ WF_vars(Resync)
  /\ \A u \in Claim :
       /\ WF_vars(PVBound(u)) /\ WF_vars(ClaimBound(u))
       /\ WF_vars(PVReleased(u)) /\ WF_vars(PVAvailable(u))
       /\ WF_vars(PVUnprotected(u)) /\ WF_vars(ClaimUnprotected(u))
  /\ \A k \in Kind, u \in Claim :
       /\ WF_vars(JobSucceeds(k, u) \/ JobFails(k, u))
       /\ WF_vars(pods[k][u].del /\ JobRemoved(k, u))

FairSpec == Spec /\ Fairness

-----------------------------------------------------------------------------
(* Safety. *)

\* The values the state of the manager and of the cluster is made of.
TypeOK ==
  /\ claims \in [Claim -> ClaimObj] /\ cclaims \in [Claim -> ClaimObj]
  /\ pvs \in [Claim -> PVObj] /\ cpvs \in [Claim -> PVObj]
  /\ pods \in [Kind -> [Claim -> PodObj]] /\ cpods \in [Kind -> [Claim -> PodObj]]
  /\ work \in [Workload -> WorkObj] /\ cwork \in [Workload -> WorkObj]
  /\ vol \in [Claim -> BOOLEAN] /\ freed \subseteq Claim
  /\ claimQ \subseteq Name /\ pvQ \subseteq Claim /\ podQ \subseteq Workload
  /\ claimStep \in ClaimSteps /\ podStep \in PodSteps
  /\ known \in BOOLEAN

\* canDeprovision ("Make sure PVC doesn't exit anymore") reads caches that lag
\* and looks the claim up by name: still, whenever a deprovisioner Pod exists,
\* the claim of that very volume is gone from the API server.
DeprovisionAfterClaim ==
  \A u \in Claim : pods["deprovisioner"][u].st # "none" => claims[u].st = "gone"

\* A claim that is bound has its directory on the node, from the binding to
\* the end of the claim, whatever the provisioner Pods started twice, the
\* restarts and the stale reads in between do.
BoundClaimHasVolume ==
  \A u \in Claim : claims[u].st = "live" /\ claims[u].bound => vol[u]

\* The finalizer is on the claim before anything is created for it, and stays
\* until the claim's last moment: a volume or a provisioner Pod never stands
\* beside a claim that could vanish without the manager's cleanup.
FinalizerFirst ==
  \A u \in Claim :
    claims[u].st = "live" /\ (pods["provisioner"][u].st # "none" \/ pvs[u].st = "live")
      => claims[u].fin

\* OnCompleted disables the deprovisioner on the volume before its Pod is
\* deleted: once that is stored no other deprovisioner is started, even by a
\* reconciliation that reads an older volume.
DeprovisionOnce ==
  [][\A u \in Claim :
       pods["deprovisioner"][u].st = "none" /\ pods'["deprovisioner"][u].st # "none"
         => pvs[u].st = "live" /\ ~pvs[u].off]_vars

\* A volume object disappears only after a deprovisioner Pod succeeded for it
\* (that is: its contents were written back and its storage was freed).
FreedBeforeForgotten ==
  \A u \in Claim : pvs[u].st = "gone" => u \in freed

\* A running Pod has the volumes it was started with.
RunningPodHasVolumes ==
  \A w \in Workload : work[w].st = "Running" => \A u \in work[w].vols : vol[u]

-----------------------------------------------------------------------------
(* The inductive invariant behind the safety properties. *)

\* What the cache shows of a claim is what the claim was: it cannot be ahead,
\* and the finalizer is missed by the cache only until the claim controller
\* itself, having seen the deletion, removed it.
CacheFollowsClaim(u) ==
  /\ cclaims[u].st # "unborn" => claims[u].st # "unborn"
  /\ cclaims[u].st = "gone" => claims[u].st = "gone"
  /\ cclaims[u].st = "live" /\ claims[u].st = "live" =>
       /\ cclaims[u].del => claims[u].del
       /\ cclaims[u].fin => claims[u].fin
  /\ cclaims[u].st = "live" /\ cclaims[u].fin /\ claims[u].st = "gone" => cclaims[u].del

\* A claim the controller is about to let go of was seen deleted.
StepFollowsClaim ==
  claimStep.at = "unfinalize" =>
    /\ cclaims[claimStep.u].st = "live" => cclaims[claimStep.u].del
    /\ cclaims[claimStep.u].st # "unborn"
    /\ claimStep.seen.st = "live" /\ claimStep.seen.del
    /\ ~claimStep.seen.prot /\ ~claimStep.seen.guard

\* Nothing is made for a claim the cache has not seen.
SeenFirst(u) ==
  \/ pvs[u].st # "none" \/ pods["provisioner"][u].st # "none"
  \/ cpods["provisioner"][u].st # "none"
  => cclaims[u].st # "unborn"

\* The cache has shown the claim gone before its volume is unreferenced.
ReferenceKept(u) ==
  \/ pvs[u].st = "gone" \/ (pvs[u].st = "live" /\ ~pvs[u].ref)
  \/ cpvs[u].st = "live" /\ ~cpvs[u].ref
  \/ pods["deprovisioner"][u].st # "none" \/ cpods["deprovisioner"][u].st # "none"
  => cclaims[u].st = "gone"

\* A live claim with a volume object or a completed Pod has its directory.
VolumeKept(u) ==
  claims[u].st = "live" =>
    /\ \/ pvs[u].st = "live"
       \/ pods["provisioner"][u].st = "Succeeded"
       \/ cpods["provisioner"][u].st = "Succeeded"
       => vol[u]
    /\ claims[u].bound => pvs[u].st = "live"

\* Who says a volume was freed, knows it.
FreedKnown(u) ==
  /\ \/ pvs[u].st = "gone" \/ (pvs[u].st = "live" /\ pvs[u].off)
     \/ cpvs[u].st = "live" /\ cpvs[u].off
     \/ pods["deprovisioner"][u].st = "Succeeded"
     \/ cpods["deprovisioner"][u].st = "Succeeded"
     => u \in freed
  /\ pvs[u].st = "live" /\ ~pvs[u].fin => ~pvs[u].ref /\ pvs[u].off

\* Holds in every reachable state and is preserved by every step.
Consistent ==
  /\ StepFollowsClaim
  /\ FinalizerFirst
  /\ \A u \in Claim :
       /\ CacheFollowsClaim(u) /\ SeenFirst(u) /\ ReferenceKept(u)
       /\ VolumeKept(u) /\ FreedKnown(u)

-----------------------------------------------------------------------------
(* The promise to the users. *)

Life(c) == IF c.st = "live" /\ c.bound THEN "bound" ELSE c.st

Lifecycle == INSTANCE VolumeLifecycle WITH
  claim  <- [u \in Claim |-> Life(claims[u])],
  dir    <- vol,
  object <- [u \in Claim |-> pvs[u].st]

\* The three controllers, with lagging caches, failed writes and restarts,
\* take every volume through the life that VolumeLifecycle promises: there
\* before its claim is bound, freed only once the claim is gone, forgotten
\* only once it was freed (Reconcile of both controllers, ReconcileJob).
LifecycleKept == Lifecycle!Spec

-----------------------------------------------------------------------------
(* Liveness, under FairSpec. *)

\* A claim with a node gets bound to a volume, unless it is deleted first or
\* its provisioner Pod fails (which is never retried for the same claim).
ClaimGetsVolume ==
  \A u \in Claim :
    claims[u].st = "live" /\ claims[u].node
      ~> \/ claims[u].bound \/ claims[u].del \/ claims[u].st = "gone"
         \/ pods["provisioner"][u].st = "Failed"

\* A claim whose deletion was requested and that no Pod mounts goes away: the
\* manager's finalizer, its Pods and its volume never hold it for ever.
DeletedClaimGoes ==
  \A u \in Claim : claims[u].st = "live" /\ claims[u].del ~> claims[u].st = "gone"

\* A deleted volume whose claim is gone is freed and goes away, unless its
\* deprovisioner Pod fails.
DeletedPVGoes ==
  \A u \in Claim :
    pvs[u].st = "live" /\ pvs[u].del /\ claims[u].st = "gone"
      ~> pvs[u].st = "gone" \/ pods["deprovisioner"][u].st = "Failed"

\* The claim of a completed Pod goes away although the Pod stays: the Pod
\* controller deletes it and has its protection waived.
CompletedPodFreesClaim ==
  \A w \in Workload, u \in AutoDelete :
    PodCompleted(w, work[w]) /\ u \in work[w].vols
      ~> claims[u].st = "gone" \/ work[w].st = "gone"

-----------------------------------------------------------------------------
(* What comments, tests and the README say of the program and the program  *)
(* does not do.  Each is refuted by a run of its own.                      *)

\* "PersistentVolume pvc-$PVC_UID was not deleted" (e2e/manager/tests.bats):
\* once a claim is deleted its volume is deleted too, for good or for a failed
\* deprovisioner Pod to be looked at.
ReleasedPVGoes ==
  \A u \in Claim :
    pvs[u].st = "live" /\ claims[u].st = "gone" /\ u \notin Retain
      ~> pvs[u].st = "gone" \/ pods["deprovisioner"][u].st = "Failed"

\* "Don't trigger deprovisioner as long as PersistentVolumeClaim is used by a
\* Pod" (claim controller): the volume of a running Pod is not deleted.
UsedVolumeKept ==
  \A w \in Workload : work[w].st = "Running" => \A u \in work[w].vols : ~pvs[u].del

=============================================================================
