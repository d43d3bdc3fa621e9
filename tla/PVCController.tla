---------------------------- MODULE PVCController ----------------------------
(***************************************************************************)
(* internal/controllers/persistentvolumeclaim_controller.go: provisions a  *)
(* volume for a claim and cleans up when the claim is deleted.             *)
(*                                                                         *)
(* One worker takes a claim's name from claimQ and reads the claim, its    *)
(* volume and its Pod from the caches.  The caches lag independently, so   *)
(* the reads of a reconciliation and its first write are one step; a       *)
(* second write is a step of its own (claimStep).  An attempt that fails   *)
(* before it wrote anything (a conflict, AlreadyExists, an API error, a    *)
(* failed Pod) puts its key back and changes nothing: a stuttering step.   *)
(***************************************************************************)
EXTENDS Job

ClaimSteps == {Idle} \cup
  [at : {"unfinalize", "reap"}, u : Claim, seen : ClaimObj]

\* The worker reconciles the name of claim u and finds u in the cache.
Reconciles(u) ==
  /\ claimStep = Idle
  /\ NameOf[u] \in claimQ
  /\ cclaims[u].st = "live"

ClaimDone(u) == claimQ' = claimQ \ {NameOf[u]}

\* An Update succeeds on the stored object only.
UpToDate(u) == cclaims[u] = claims[u]

\* Mutant of ShouldProvision: the binding mode is taken for a second condition.
ShouldProvisionImmediate(u) ==
  known /\ ~cclaims[u].bound /\ u \in Suitable /\ u \in Immediate /\ cclaims[u].node

\* shouldProvision, for a claim of a known provisioner.
ShouldProvision(u) ==
  /\ known
  /\ ~cclaims[u].bound
  /\ u \in Suitable
  /\ u \in Immediate \/ cclaims[u].node

\* Mutant of Provisions: does not wait for the finalizer.
ProvisionsAtOnce(u) == Reconciles(u) /\ ~cclaims[u].del /\ ShouldProvision(u)

\* The claim is about to be provisioned: not deleted, own finalizer set.
Provisions(u) ==
  /\ Reconciles(u)
  /\ ~cclaims[u].del /\ cclaims[u].fin
  /\ ShouldProvision(u)

PVExists(u) == cpvs[u].st = "live"

ProvisionVerdict(u) ==
  JobVerdict(~PVExists(u) /\ cclaims[u].node /\ cclaims[u].env,
             cpods["provisioner"][u].st)

\* Mutant of Deprovisions: does not wait for third parties.
DeprovisionsAnyway(u) ==
  Reconciles(u) /\ cclaims[u].del /\ ~cclaims[u].prot /\ cclaims[u].fin

\* The claim is being deleted and only the own finalizer is left.
Deprovisions(u) ==
  /\ Reconciles(u)
  /\ cclaims[u].del /\ ~cclaims[u].prot /\ cclaims[u].fin /\ ~cclaims[u].guard

-----------------------------------------------------------------------------

ClaimNotFound(n) ==
  /\ claimStep = Idle /\ n \in claimQ
  /\ \A u \in Claim : NameOf[u] = n => cclaims[u].st # "live"
  /\ claimQ' = claimQ \ {n}
  /\ UNCHANGED <<api, caches, pvQ, podQ, steps, known>>

\* Remove pvc-protection where the Pod controller asked for it.
ClaimUnprotect(u) ==
  /\ Reconciles(u)
  /\ cclaims[u].del /\ cclaims[u].prot /\ cclaims[u].noProt
  /\ UpToDate(u)
  /\ PutClaim(u, [cclaims[u] EXCEPT !.prot = FALSE])
  /\ ClaimDone(u)
  /\ UNCHANGED <<pvs, pods, work, vol, freed, caches, pvQ, podQ, steps, known>>

\* Every return without a write and without an error.
ClaimNothingToDo(u) ==
  /\ Reconciles(u)
  /\ \/ cclaims[u].del /\ cclaims[u].prot /\ ~cclaims[u].noProt
     \/ cclaims[u].del /\ ~cclaims[u].prot /\ (~cclaims[u].fin \/ cclaims[u].guard)
     \/ ~cclaims[u].del /\ ~ShouldProvision(u)
     \/ /\ Provisions(u)
        /\ cclaims[u].env \/ ~PVExists(u)
        /\ ProvisionVerdict(u) \in {"absent", "wait"}
  /\ ClaimDone(u)
  /\ UNCHANGED <<api, caches, pvQ, podQ, steps, known>>

\* Deletion: the provisioner Pod goes first, ...
ClaimDeletePod(u) ==
  /\ Deprovisions(u)
  /\ ~JobAbsent("provisioner", u)
  /\ JobDelete("provisioner", u)
  /\ ClaimDone(u)
  /\ UNCHANGED <<claims, pvs, work, vol, freed, caches, pvQ, podQ, steps, known>>

\* ... then the volume is marked deleted unless it is to be retained, ...
ClaimDeletePV(u) ==
  /\ Deprovisions(u)
  /\ JobAbsent("provisioner", u)
  /\ PVExists(u) /\ u \notin Retain
  /\ IF pvs[u].st = "live" THEN DeletePV(u) ELSE UNCHANGED pvs
  /\ claimStep' = [at |-> "unfinalize", u |-> u, seen |-> cclaims[u]]
  /\ ClaimDone(u)
  /\ UNCHANGED <<claims, pods, work, vol, freed, caches, pvQ, podQ, podStep, known>>

\* ... then the finalizer is removed, in the same reconciliation, ...
ClaimUnfinalize ==
  /\ claimStep.at = "unfinalize"
  /\ LET u == claimStep.u IN
       IF claims[u] = claimStep.seen
       THEN PutClaim(u, [claimStep.seen EXCEPT !.fin = FALSE]) /\ UNCHANGED claimQ
       ELSE claimQ' = claimQ \cup {NameOf[u]} /\ UNCHANGED claims
  /\ claimStep' = Idle
  /\ UNCHANGED <<pvs, pods, work, vol, freed, caches, pvQ, podQ, podStep, known>>

\* Mutant of ClaimRelease: forgets the claims that got no volume.
ClaimReleaseRetained(u) ==
  /\ Deprovisions(u)
  /\ JobAbsent("provisioner", u)
  /\ u \in Retain
  /\ UpToDate(u)
  /\ PutClaim(u, [cclaims[u] EXCEPT !.fin = FALSE])
  /\ ClaimDone(u)
  /\ UNCHANGED <<pvs, pods, work, vol, freed, caches, pvQ, podQ, steps, known>>

\* ... or at once when no volume is found or it is retained.
ClaimRelease(u) ==
  /\ Deprovisions(u)
  /\ JobAbsent("provisioner", u)
  /\ ~PVExists(u) \/ u \in Retain
  /\ UpToDate(u)
  /\ PutClaim(u, [cclaims[u] EXCEPT !.fin = FALSE])
  /\ ClaimDone(u)
  /\ UNCHANGED <<pvs, pods, work, vol, freed, caches, pvQ, podQ, steps, known>>

-----------------------------------------------------------------------------

ClaimAddFinalizer(u) ==
  /\ Reconciles(u)
  /\ ~cclaims[u].del /\ ~cclaims[u].fin
  /\ ShouldProvision(u)
  /\ UpToDate(u)
  /\ PutClaim(u, [cclaims[u] EXCEPT !.fin = TRUE])
  /\ ClaimDone(u)
  /\ UNCHANGED <<pvs, pods, work, vol, freed, caches, pvQ, podQ, steps, known>>

\* A missing annotation is reported with the error of the volume's read: the
\* manager dies of a nil dereference when that read succeeded.
ClaimPanic(u) ==
  /\ Provisions(u)
  /\ ~cclaims[u].env /\ PVExists(u)
  /\ Restarted

ClaimCreatePod(u) ==
  /\ Provisions(u)
  /\ ProvisionVerdict(u) = "create"
  /\ JobCreate("provisioner", u)
  /\ ClaimDone(u)
  /\ UNCHANGED <<claims, pvs, work, vol, freed, caches, pvQ, podQ, steps, known>>

\* persistentVolumeForClaim: owned by the manager, bound to the claim's UID.
ClaimCreatePV(u) ==
  /\ Provisions(u)
  /\ ProvisionVerdict(u) = "complete"
  /\ pvs[u].st # "live"
  /\ PutPV(u, [NoPV EXCEPT !.st = "live", !.prot = TRUE, !.fin = TRUE, !.ref = TRUE])
  /\ claimStep' = [at |-> "reap", u |-> u, seen |-> cclaims[u]]
  /\ ClaimDone(u)
  /\ UNCHANGED <<claims, pods, work, vol, freed, caches, pvQ, podQ, podStep, known>>

\* The completed Pod is deleted after its volume was created.
ClaimReapPod ==
  /\ claimStep.at = "reap"
  /\ JobDelete("provisioner", claimStep.u)
  /\ claimStep' = Idle
  /\ UNCHANGED <<claims, pvs, work, vol, freed, caches, queues, podStep, known>>

\* The volume exists (or the node or an annotation is missing): no Pod needed.
ClaimStopPod(u) ==
  /\ Provisions(u)
  /\ cclaims[u].env \/ ~PVExists(u)
  /\ ProvisionVerdict(u) = "delete"
  /\ JobDelete("provisioner", u)
  /\ ClaimDone(u)
  /\ UNCHANGED <<claims, pvs, work, vol, freed, caches, pvQ, podQ, steps, known>>

\* The second write fails: the reconciliation starts over.
ClaimStepFails ==
  /\ "write" \in Faults
  /\ claimStep # Idle
  /\ claimQ' = claimQ \cup {NameOf[claimStep.u]}
  /\ claimStep' = Idle
  /\ UNCHANGED <<api, caches, pvQ, podQ, podStep, known>>

\* What a reconciliation of claim u starts with.
ReconcileClaim(u) ==
  \/ ClaimUnprotect(u) \/ ClaimNothingToDo(u)
  \/ ClaimDeletePod(u) \/ ClaimDeletePV(u) \/ ClaimRelease(u)
  \/ ClaimAddFinalizer(u) \/ ClaimPanic(u)
  \/ ClaimCreatePod(u) \/ ClaimCreatePV(u) \/ ClaimStopPod(u)

PVCReconcile ==
  \/ \E n \in Name : ClaimNotFound(n)
  \/ \E u \in Claim : ReconcileClaim(u)
  \/ ClaimUnfinalize \/ ClaimReapPod

=============================================================================
