---------------------------- MODULE PVController ----------------------------
(***************************************************************************)
(* internal/controllers/persistentvolume_controller.go: frees the storage  *)
(* of a deleted PersistentVolume, once its claim is gone, by running the   *)
(* deprovisioner Pod, and then lets the volume go.  Every reconciliation   *)
(* makes at most one write; as in PVCController, one that fails stutters.  *)
(* canDeprovision answers a conflict by reading the volume again and       *)
(* starting over, which is another reconciliation of the same key.         *)
(***************************************************************************)
EXTENDS Job

\* The worker takes volume u, finds it deleted and held by the own finalizer.
PVReconciles(u) ==
  /\ u \in pvQ
  /\ cpvs[u].st = "live" /\ cpvs[u].del /\ cpvs[u].fin

\* Mutant of PVDone: requeues the claim's name.
PVDoneRequeued(u) == pvQ' = (pvQ \ {u}) \cup {NameOf[u]}

PVDone(u) == pvQ' = pvQ \ {u}

PVUpToDate(u) == cpvs[u] = pvs[u]

\* Mutant of ClaimFound: a claim that was ever seen is found.
ClaimFoundEver(u) ==
  \E v \in Claim : NameOf[v] = NameOf[u] /\ cclaims[v].st # "unborn"

\* The claim of the reference is looked up by its name alone.
ClaimFound(u) ==
  \E v \in Claim : NameOf[v] = NameOf[u] /\ cclaims[v].st = "live"

\* Mutant of MustWait: the claim is not looked up.
MustWaitForBinder(u) == cpvs[u].phase = "Bound" \/ (cpvs[u].ref /\ ~known)

\* canDeprovision refuses: bound, claim still there, provisioner unknown.
MustWait(u) ==
  \/ cpvs[u].phase = "Bound"
  \/ cpvs[u].ref /\ (ClaimFound(u) \/ ~known)

CanDeprovision(u) == cpvs[u].phase # "Bound" /\ ~cpvs[u].ref

DeprovisionVerdict(u) == JobVerdict(~cpvs[u].off, cpods["deprovisioner"][u].st)

-----------------------------------------------------------------------------

PVNotFound(u) ==
  /\ u \in pvQ
  /\ ~PVReconciles(u)
  /\ PVDone(u)
  /\ UNCHANGED <<api, caches, claimQ, podQ, steps, known>>

\* Nothing is requeued: only another event of the volume or a resync retries.
PVWait(u) ==
  /\ PVReconciles(u)
  /\ MustWait(u) \/ (CanDeprovision(u) /\ DeprovisionVerdict(u) = "wait")
  /\ PVDone(u)
  /\ UNCHANGED <<api, caches, claimQ, podQ, steps, known>>

PVRemoveClaimRef(u) ==
  /\ PVReconciles(u)
  /\ cpvs[u].ref /\ ~MustWait(u)
  /\ PVUpToDate(u)
  /\ PutPV(u, [cpvs[u] EXCEPT !.ref = FALSE])
  /\ PVDone(u)
  /\ UNCHANGED <<claims, pods, work, vol, freed, caches, claimQ, podQ, steps, known>>

PVCreatePod(u) ==
  /\ PVReconciles(u) /\ CanDeprovision(u)
  /\ DeprovisionVerdict(u) = "create"
  /\ JobCreate("deprovisioner", u)
  /\ PVDone(u)
  /\ UNCHANGED <<claims, pvs, work, vol, freed, caches, claimQ, podQ, steps, known>>

\* OnCompleted: remember on the volume that it was freed.
PVDisableDeprovisioner(u) ==
  /\ PVReconciles(u) /\ CanDeprovision(u)
  /\ DeprovisionVerdict(u) = "complete"
  /\ PVUpToDate(u)
  /\ PutPV(u, [cpvs[u] EXCEPT !.off = TRUE])
  /\ PVDone(u)
  /\ UNCHANGED <<claims, pods, work, vol, freed, caches, claimQ, podQ, steps, known>>

\* Mutant of PVDeletePod: a completed Pod is deleted before OnCompleted is run.
PVDeleteCompletedPod(u) ==
  /\ PVReconciles(u) /\ CanDeprovision(u)
  /\ DeprovisionVerdict(u) \in {"delete", "complete"}
  /\ ~JobAbsent("deprovisioner", u)
  /\ JobDelete("deprovisioner", u)
  /\ PVDone(u)
  /\ UNCHANGED <<claims, pvs, work, vol, freed, caches, claimQ, podQ, steps, known>>

PVDeletePod(u) ==
  /\ PVReconciles(u) /\ CanDeprovision(u)
  /\ DeprovisionVerdict(u) = "delete"
  /\ ~JobAbsent("deprovisioner", u)
  /\ JobDelete("deprovisioner", u)
  /\ PVDone(u)
  /\ UNCHANGED <<claims, pvs, work, vol, freed, caches, claimQ, podQ, steps, known>>

\* Mutant of PVUnfinalize: not only after the deprovisioner.
PVUnfinalizeEarly(u) ==
  /\ PVReconciles(u) /\ CanDeprovision(u)
  /\ JobAbsent("deprovisioner", u)
  /\ PVUpToDate(u)
  /\ PutPV(u, [cpvs[u] EXCEPT !.fin = FALSE])
  /\ PVDone(u)
  /\ UNCHANGED <<claims, pods, work, vol, freed, caches, claimQ, podQ, steps, known>>

PVUnfinalize(u) ==
  /\ PVReconciles(u) /\ CanDeprovision(u)
  /\ cpvs[u].off
  /\ JobAbsent("deprovisioner", u)
  /\ PVUpToDate(u)
  /\ PutPV(u, [cpvs[u] EXCEPT !.fin = FALSE])
  /\ PVDone(u)
  /\ UNCHANGED <<claims, pods, work, vol, freed, caches, claimQ, podQ, steps, known>>

ReconcilePV(u) ==
  \/ PVNotFound(u) \/ PVWait(u) \/ PVRemoveClaimRef(u)
  \/ PVCreatePod(u) \/ PVDisableDeprovisioner(u)
  \/ PVDeletePod(u) \/ PVUnfinalize(u)

PVReconcile == \E u \in Claim : ReconcilePV(u)

=============================================================================
