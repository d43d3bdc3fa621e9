--------------------------------- MODULE Job ---------------------------------
(***************************************************************************)
(* internal/utils/pod.go: a Pod that a controller runs to completion, once *)
(* per owner.  ReconcileJob reads the Pod from the cache and decides on at *)
(* most one write of its own; the owner's OnCompleted is run before the    *)
(* Pod is deleted.                                                         *)
(***************************************************************************)
EXTENDS Kube

\* Mutant of JobVerdict: a running Pod counts as completed.
JobVerdictEarly(should, st) ==
  CASE ~should -> IF st = "none" THEN "absent" ELSE "delete"
    [] should /\ st = "none"   -> "create"
    [] should /\ st = "Failed" -> "failed"
    [] OTHER                   -> "complete"

\* What ReconcileJob does next for a Pod it reads in state st.
JobVerdict(should, st) ==
  CASE ~should /\ st = "none"     -> "absent"
    [] ~should /\ st # "none"     -> "delete"
    [] should /\ st = "none"      -> "create"
    [] should /\ st = "Succeeded" -> "complete"
    [] should /\ st = "Failed"    -> "failed"
    [] OTHER                      -> "wait"

\* ReconcilePod: create the Pod.  AlreadyExists is an error of the attempt.
JobCreate(k, u) ==
  /\ pods[k][u].st = "none"
  /\ PutPod(k, u, [NoPod EXCEPT !.st = "Running"])

\* DeleteResource: a Pod that is already gone counts as done.
JobDelete(k, u) ==
  IF pods[k][u].st = "none" THEN UNCHANGED pods ELSE DeletePod(k, u)

\* DeletePod is done: the Pod is not found, by the read or by the delete.
JobAbsent(k, u) == cpods[k][u].st = "none" \/ pods[k][u].st = "none"

=============================================================================
