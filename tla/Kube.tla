-------------------------------- MODULE Kube --------------------------------
(***************************************************************************)
(* The Kubernetes cluster as the k8storagex manager uses it: the objects   *)
(* the API server stores, the informer caches the manager reads from, the  *)
(* work queues the watches feed, and the other actors (users, scheduler,   *)
(* volume binder, protection controllers, kubelets).  None of this code is *)
(* in the repository; it is modelled from how the controllers use it.      *)
(*                                                                         *)
(* Reads of the manager's client are served by the caches, writes go to    *)
(* the API server.  An Update is refused unless the object that was read   *)
(* is still the stored one: every field below changes in one direction     *)
(* only, so equality of the objects stands for equality of their resource  *)
(* versions.  A Delete names the object and carries no precondition.       *)
(***************************************************************************)
EXTENDS Naturals, FiniteSets

CONSTANTS
  Claim,      \* the PersistentVolumeClaims (by UID) that are ever created
  Name,       \* claim names: two claims may have the same name in turn
  NameOf,     \* [Claim -> Name]
  Suitable,   \* claims whose storage class exists and whose volume mode fits
  Immediate,  \* claims of a class without WaitForFirstConsumer
  Retain,     \* claims whose volumes have a reclaim policy other than Delete
  AutoDelete, \* ReadWriteOnce claims whose provisioner frees on Pod completion
  Guarded,    \* claims that carry a finalizer of a third party
  Workload,   \* names of the users' Pods
  Mounts,     \* [Workload -> SUBSET Name]: the claims a Pod mounts...
  Writes,     \* [Workload -> SUBSET Name]: ... and those not mounted read-only
  Policy,     \* [Workload -> {"Always", "OnFailure", "Never"}]
  Faults      \* what may go wrong, a subset of FaultKind

\* A write fails after the reconciliation made another one; the manager is
\* restarted; a finished provisioner Pod is garbage-collected; the registry
\* loses the provisioner; a user removes an annotation the provisioner needs,
\* deletes a volume object, creates a Pod under the name of an earlier one.
FaultKind == {"write", "restart", "podLost", "forget", "annotation", "pvDelete", "reuse"}

ASSUME KubeAssumption ==
  /\ NameOf \in [Claim -> Name]
  /\ Suitable \subseteq Claim
  /\ Immediate \subseteq Claim
  /\ Retain \subseteq Claim
  /\ AutoDelete \subseteq Claim
  /\ Guarded \subseteq Claim
  /\ Mounts \in [Workload -> SUBSET Name]
  /\ Writes \in [Workload -> SUBSET Name]
  /\ \A w \in Workload : Writes[w] \subseteq Mounts[w]
  /\ Policy \in [Workload -> {"Always", "OnFailure", "Never"}]
  /\ Faults \subseteq FaultKind

VARIABLES
  claims, pvs, pods, work,       \* stored by the API server
  vol,                           \* is the claim's directory on its node?
  freed,                         \* claims whose deprovisioner Pod succeeded
  cclaims, cpvs, cpods, cwork,   \* the manager's informer caches
  claimQ, pvQ, podQ,             \* work queues of the three controllers
  claimStep, podStep,            \* reconciliations between two of their writes
  known                          \* does the registry resolve the provisioner?

api    == <<claims, pvs, pods, work, vol, freed>>
caches == <<cclaims, cpvs, cpods, cwork>>
queues == <<claimQ, pvQ, podQ>>
steps  == <<claimStep, podStep>>
vars   == <<claims, pvs, pods, work, vol, freed, cclaims, cpvs, cpods, cwork,
            claimQ, pvQ, podQ, claimStep, podStep, known>>

-----------------------------------------------------------------------------
(* Objects. *)

Kind == {"provisioner", "deprovisioner"}

\* prot, fin, guard: the finalizers kubernetes.io/pvc-protection, the manager's
\* own, and a third party's.  noProt: annotated no-protection.  node: annotated
\* with the selected node.  env: has the annotations the provisioner asks for.
\* bound: spec.volumeName is set.
ClaimObj == [st : {"unborn", "live", "gone"}, del : BOOLEAN, prot : BOOLEAN,
             fin : BOOLEAN, guard : BOOLEAN, noProt : BOOLEAN, node : BOOLEAN,
             env : BOOLEAN, bound : BOOLEAN]

NoClaim == [st |-> "unborn", del |-> FALSE, prot |-> FALSE, fin |-> FALSE,
            guard |-> FALSE, noProt |-> FALSE, node |-> FALSE, env |-> FALSE,
            bound |-> FALSE]

\* ref: spec.claimRef is set.  off: annotated not to run the deprovisioner.
PVObj == [st : {"none", "live", "gone"}, del : BOOLEAN, prot : BOOLEAN,
          fin : BOOLEAN, ref : BOOLEAN, off : BOOLEAN,
          phase : {"Pending", "Available", "Bound", "Released"}]

NoPV == [st |-> "none", del |-> FALSE, prot |-> FALSE, fin |-> FALSE,
         ref |-> FALSE, off |-> FALSE, phase |-> "Pending"]

PodObj == [st : {"none", "Running", "Succeeded", "Failed"}, del : BOOLEAN]

NoPod == [st |-> "none", del |-> FALSE]

WorkObj == [st : {"none", "Pending", "Running", "Succeeded", "Failed", "gone"},
            vols : SUBSET Claim]

NoWork == [st |-> "none", vols |-> {}]

Idle == [at |-> "idle"]

\* What the API server stores: an object whose deletion was requested
\* disappears with its last finalizer.
StoredClaim(c) ==
  IF c.del /\ ~c.prot /\ ~c.fin /\ ~c.guard
  THEN [NoClaim EXCEPT !.st = "gone"] ELSE c

StoredPV(p) ==
  IF p.del /\ ~p.prot /\ ~p.fin THEN [NoPV EXCEPT !.st = "gone"] ELSE p

PutClaim(u, c) == claims' = [claims EXCEPT ![u] = StoredClaim(c)]
PutPV(u, p)    == pvs' = [pvs EXCEPT ![u] = StoredPV(p)]
PutPod(k, u, p) == pods' = [pods EXCEPT ![k][u] = p]

\* Delete: finalizers defer it; a Pod is terminated gracefully.
DeleteClaim(u) == PutClaim(u, [claims[u] EXCEPT !.del = TRUE])
DeletePV(u)    == PutPV(u, [pvs[u] EXCEPT !.del = TRUE])
DeletePod(k, u) == PutPod(k, u, [pods[k][u] EXCEPT !.del = TRUE])

-----------------------------------------------------------------------------
(* Watches.  A cache is brought up to date kind by kind; each change is    *)
(* mapped to the keys of the controllers that watch the kind, through      *)
(* their predicates.                                                       *)

\* Mutant of Finished: the phase of the Pod is not looked at.
FinishedInAnyPhase(w, p) ==
  Policy[w] # "Always" /\ p.st \in {"Running", "Succeeded", "Failed"}

Finished(w, p) ==
  \/ Policy[w] = "Never" /\ p.st \in {"Succeeded", "Failed"}
  \/ Policy[w] = "OnFailure" /\ p.st = "Succeeded"

\* Predicate of the Pod controller, on the new object or the one last seen.
PodCompleted(w, p) == Finished(w, p) /\ Writes[w] # {}

\* Predicates of the PersistentVolume controller.
PVDeletion(p) == p.st = "live" /\ p.del /\ (known \/ p.fin)

Latest(new, old) == IF new.st \in {"none", "gone"} THEN old ELSE new

SyncClaims ==
  /\ cclaims # claims
  /\ cclaims' = claims
  /\ claimQ' = claimQ \cup {NameOf[u] : u \in {v \in Claim : cclaims[v] # claims[v]}}
  /\ UNCHANGED <<api, cpvs, cpods, cwork, pvQ, podQ, steps, known>>

SyncPVs ==
  /\ cpvs # pvs
  /\ cpvs' = pvs
  /\ pvQ' = pvQ \cup {u \in Claim : cpvs[u] # pvs[u] /\ PVDeletion(Latest(pvs[u], cpvs[u]))}
  /\ UNCHANGED <<api, cclaims, cpods, cwork, claimQ, podQ, steps, known>>

\* The provisioner Pods are mapped to their claim, the deprovisioner Pods to
\* their volume, every other Pod to itself.
SyncPods ==
  /\ <<cpods, cwork>> # <<pods, work>>
  /\ cpods' = pods /\ cwork' = work
  /\ claimQ' = claimQ \cup {NameOf[u] : u \in {v \in Claim :
                              cpods["provisioner"][v] # pods["provisioner"][v]}}
  /\ pvQ' = pvQ \cup {u \in Claim : cpods["deprovisioner"][u] # pods["deprovisioner"][u]}
  /\ podQ' = podQ \cup {w \in Workload : cwork[w] # work[w]
                          /\ PodCompleted(w, Latest(work[w], cwork[w]))}
  /\ UNCHANGED <<api, cclaims, cpvs, steps, known>>

\* The keys of a listing, as the start of the manager and each periodic
\* resync (every ten hours) enqueue them.
ClaimKeys(cs, js) ==
  {NameOf[u] : u \in {v \in Claim : cs[v].st = "live" \/ js["provisioner"][v].st # "none"}}
PVKeys(ps, js) ==
  {u \in Claim : PVDeletion(ps[u]) \/ js["deprovisioner"][u].st # "none"}
PodKeys(ws) == {w \in Workload : PodCompleted(w, ws[w])}

Resync ==
  /\ claimQ' = claimQ \cup ClaimKeys(cclaims, cpods)
  /\ pvQ' = pvQ \cup PVKeys(cpvs, cpods)
  /\ podQ' = podQ \cup PodKeys(cwork)
  /\ UNCHANGED <<api, caches, steps, known>>

\* The manager stops wherever it is and is started again: the caches are
\* filled before the controllers run, the queues hold what is listed.
Restarted ==
  /\ claimStep' = Idle /\ podStep' = Idle
  /\ cclaims' = claims /\ cpvs' = pvs /\ cpods' = pods /\ cwork' = work
  /\ claimQ' = ClaimKeys(claims, pods)
  /\ pvQ' = PVKeys(pvs, pods)
  /\ podQ' = PodKeys(work)
  /\ UNCHANGED <<api, known>>

Restart == "restart" \in Faults /\ Restarted

\* The registry starts or stops resolving the provisioner.
Learn  == ~known /\ known' = TRUE /\ UNCHANGED <<api, caches, queues, steps>>
Forget == /\ "forget" \in Faults
          /\ known /\ known' = FALSE /\ UNCHANGED <<api, caches, queues, steps>>

-----------------------------------------------------------------------------
(* Users and the scheduler. *)

manager == <<caches, queues, steps, known>>

UserCreatesClaim(u) ==
  /\ claims[u].st = "unborn"
  /\ \A v \in Claim : NameOf[v] = NameOf[u] => claims[v].st # "live"
  /\ PutClaim(u, [NoClaim EXCEPT !.st = "live", !.prot = TRUE, !.env = TRUE,
                                 !.guard = u \in Guarded])
  /\ UNCHANGED <<pvs, pods, work, vol, freed, manager>>

UserDeletesClaim(u) ==
  /\ claims[u].st = "live" /\ ~claims[u].del
  /\ DeleteClaim(u)
  /\ UNCHANGED <<pvs, pods, work, vol, freed, manager>>

UserDropsAnnotation(u) ==
  /\ "annotation" \in Faults
  /\ claims[u].st = "live" /\ claims[u].env
  /\ PutClaim(u, [claims[u] EXCEPT !.env = FALSE])
  /\ UNCHANGED <<pvs, pods, work, vol, freed, manager>>

UserDeletesPV(u) ==
  /\ "pvDelete" \in Faults
  /\ pvs[u].st = "live" /\ ~pvs[u].del
  /\ DeletePV(u)
  /\ UNCHANGED <<claims, pods, work, vol, freed, manager>>

GuardLifted(u) ==
  /\ claims[u].st = "live" /\ claims[u].guard
  /\ PutClaim(u, [claims[u] EXCEPT !.guard = FALSE])
  /\ UNCHANGED <<pvs, pods, work, vol, freed, manager>>

NodeSelected(u) ==
  /\ claims[u].st = "live" /\ ~claims[u].node
  /\ PutClaim(u, [claims[u] EXCEPT !.node = TRUE])
  /\ UNCHANGED <<pvs, pods, work, vol, freed, manager>>

SetWork(w, p) ==
  /\ work' = [work EXCEPT ![w] = p]
  /\ UNCHANGED <<claims, pvs, pods, vol, freed, manager>>

UserCreatesWork(w) ==
  /\ work[w].st = "none" \/ (work[w].st = "gone" /\ "reuse" \in Faults)
  /\ SetWork(w, [NoWork EXCEPT !.st = "Pending"])

UserDeletesWork(w) ==
  /\ work[w].st \notin {"none", "gone"}
  /\ SetWork(w, [NoWork EXCEPT !.st = "gone"])

\* The claims a Pod would get: one live claim per name it mounts.
Mounted(w) == {u \in Claim : claims[u].st = "live" /\ NameOf[u] \in Mounts[w]}

\* A Pod is scheduled and started once its claims are bound, none deleting.
WorkStarts(w) ==
  /\ work[w].st = "Pending"
  /\ Mounts[w] \subseteq {NameOf[u] : u \in Mounted(w)}
  /\ \A u \in Mounted(w) : claims[u].bound /\ ~claims[u].del
  /\ SetWork(w, [st |-> "Running", vols |-> Mounted(w)])

\* Any Pod may be evicted; one that is always restarted never succeeds.
WorkEnds(w, st) ==
  /\ work[w].st = "Running"
  /\ st = "Succeeded" => Policy[w] # "Always"
  /\ SetWork(w, [work[w] EXCEPT !.st = st])

-----------------------------------------------------------------------------
(* Binder, protection controllers, kubelets. *)

PVBound(u) ==
  /\ pvs[u].st = "live" /\ pvs[u].ref /\ ~pvs[u].del
  /\ pvs[u].phase = "Pending" /\ claims[u].st = "live"
  /\ PutPV(u, [pvs[u] EXCEPT !.phase = "Bound"])
  /\ UNCHANGED <<claims, pods, work, vol, freed, manager>>

ClaimBound(u) ==
  /\ pvs[u].st = "live" /\ pvs[u].ref /\ pvs[u].phase = "Bound"
  /\ claims[u].st = "live" /\ ~claims[u].bound
  /\ PutClaim(u, [claims[u] EXCEPT !.bound = TRUE])
  /\ UNCHANGED <<pvs, pods, work, vol, freed, manager>>

PVReleased(u) ==
  /\ pvs[u].st = "live" /\ pvs[u].ref /\ pvs[u].phase # "Released"
  /\ claims[u].st = "gone"
  /\ PutPV(u, [pvs[u] EXCEPT !.phase = "Released"])
  /\ UNCHANGED <<claims, pods, work, vol, freed, manager>>

PVAvailable(u) ==
  /\ pvs[u].st = "live" /\ ~pvs[u].ref /\ pvs[u].phase # "Available"
  /\ PutPV(u, [pvs[u] EXCEPT !.phase = "Available"])
  /\ UNCHANGED <<claims, pods, work, vol, freed, manager>>

PVUnprotected(u) ==
  /\ pvs[u].st = "live" /\ pvs[u].del /\ pvs[u].prot /\ pvs[u].phase # "Bound"
  /\ PutPV(u, [pvs[u] EXCEPT !.prot = FALSE])
  /\ UNCHANGED <<claims, pods, work, vol, freed, manager>>

\* A scheduled Pod that mounts the claim keeps it, completed or not.
ClaimUnprotected(u) ==
  /\ claims[u].st = "live" /\ claims[u].del /\ claims[u].prot
  /\ \A w \in Workload : NameOf[u] \in Mounts[w] => work[w].st \in {"none", "Pending", "gone"}
  /\ PutClaim(u, [claims[u] EXCEPT !.prot = FALSE])
  /\ UNCHANGED <<pvs, pods, work, vol, freed, manager>>

\* The shipped provisioners create the directory and fail when it exists; the
\* deprovisioners remove it.
JobSucceeds(k, u) ==
  /\ pods[k][u].st = "Running"
  /\ k = "provisioner" => ~vol[u]
  /\ PutPod(k, u, [pods[k][u] EXCEPT !.st = "Succeeded"])
  /\ vol' = [vol EXCEPT ![u] = (k = "provisioner")]
  /\ freed' = IF k = "provisioner" THEN freed ELSE freed \cup {u}
  /\ UNCHANGED <<claims, pvs, work, manager>>

\* A failed Pod did its work or did not.
JobFails(k, u) ==
  /\ pods[k][u].st = "Running"
  /\ PutPod(k, u, [pods[k][u] EXCEPT !.st = "Failed"])
  /\ \/ UNCHANGED vol
     \/ vol' = [vol EXCEPT ![u] = (k = "provisioner")]
  /\ UNCHANGED <<claims, pvs, work, freed, manager>>

JobRemoved(k, u) ==
  /\ pods[k][u].st \in {"Succeeded", "Failed"}
  /\ pods[k][u].del \/ "podLost" \in Faults
  /\ PutPod(k, u, NoPod)
  /\ UNCHANGED <<claims, pvs, work, vol, freed, manager>>

=============================================================================
