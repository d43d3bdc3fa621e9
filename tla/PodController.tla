---------------------------- MODULE PodController ----------------------------
(***************************************************************************)
(* internal/controllers/pod_controller.go: when a user's Pod completed,    *)
(* the claims it could write to are deleted, so that their volumes are     *)
(* committed and freed although the Pod still exists.  The reconciliation  *)
(* reads the Pod again by its name and walks over the claims; for each it  *)
(* annotates the claim it finds in the cache (kept in podStep.kill) and    *)
(* then deletes by name.                                                   *)
(***************************************************************************)
EXTENDS Kube

PodSteps == {Idle} \cup
  [at : {"loop"}, w : Workload, todo : SUBSET Name, kill : SUBSET Name, err : BOOLEAN]

ShouldDelete(u) == u \in AutoDelete /\ known

\* The claim of the cache is to be annotated first.
Annotates(u) == cclaims[u].st = "live" /\ ShouldDelete(u) /\ ~cclaims[u].noProt

\* The loop goes on with the names other than n.
Visited(n) == podStep' = [podStep EXCEPT !.todo = @ \ {n}]

\* The next claim name of the loop, the previous one being dealt with.
Visits(n) == podStep # Idle /\ podStep.kill = {} /\ n \in podStep.todo

-----------------------------------------------------------------------------

\* The completion the key was enqueued for is not checked again.
PodTake(w) ==
  /\ podStep = Idle /\ w \in podQ
  /\ podQ' = podQ \ {w}
  /\ podStep' = IF cwork[w].st \in {"none", "gone"} THEN Idle
                ELSE [at |-> "loop", w |-> w, todo |-> Writes[w], kill |-> {}, err |-> FALSE]
  /\ UNCHANGED <<api, caches, claimQ, pvQ, claimStep, known>>

PodSkipClaim(n) ==
  /\ Visits(n)
  /\ \A u \in Claim : NameOf[u] = n /\ cclaims[u].st = "live" =>
       ~ShouldDelete(u) \/ (cclaims[u].noProt /\ cclaims[u].del)
  /\ Visited(n)
  /\ UNCHANGED <<api, caches, queues, claimStep, known>>

\* Annotate the claim; NotFound is no error, a conflict is.
PodAnnotateClaim(n, u) ==
  /\ Visits(n)
  /\ NameOf[u] = n /\ Annotates(u)
  /\ IF cclaims[u] = claims[u]
     THEN /\ PutClaim(u, [cclaims[u] EXCEPT !.noProt = TRUE])
          /\ podStep' = [podStep EXCEPT !.todo = @ \ {n},
                                        !.kill = IF cclaims[u].del THEN {} ELSE {n}]
     ELSE /\ UNCHANGED claims
          /\ podStep' = [podStep EXCEPT !.todo = @ \ {n},
               !.err = @ \/ \E v \in Claim : NameOf[v] = n /\ claims[v].st = "live"]
  /\ UNCHANGED <<pvs, pods, work, vol, freed, caches, queues, claimStep, known>>

\* Mutant of PodFindsAnnotated: an annotated claim counts as deleted.
PodForgetsAnnotated(n, u) ==
  /\ Visits(n)
  /\ NameOf[u] = n /\ cclaims[u].st = "live"
  /\ ShouldDelete(u) /\ cclaims[u].noProt /\ ~cclaims[u].del
  /\ Visited(n)
  /\ UNCHANGED <<api, caches, queues, claimStep, known>>

\* Annotated by an earlier attempt, still to be deleted.
PodFindsAnnotated(n, u) ==
  /\ Visits(n)
  /\ NameOf[u] = n /\ cclaims[u].st = "live"
  /\ ShouldDelete(u) /\ cclaims[u].noProt /\ ~cclaims[u].del
  /\ podStep' = [podStep EXCEPT !.todo = @ \ {n}, !.kill = {n}]
  /\ UNCHANGED <<api, caches, queues, claimStep, known>>

\* The delete request carries the name only; NotFound is no error.
PodDeleteClaim(n) ==
  /\ podStep # Idle /\ n \in podStep.kill
  /\ podStep' = [podStep EXCEPT !.kill = {}]
  /\ \/ \E u \in Claim : NameOf[u] = n /\ claims[u].st = "live" /\ DeleteClaim(u)
     \/ /\ \A u \in Claim : NameOf[u] = n => claims[u].st # "live"
        /\ UNCHANGED claims
  /\ UNCHANGED <<pvs, pods, work, vol, freed, caches, queues, claimStep, known>>

\* An update or a delete of the loop fails: noted, and on with the next claim.
PodWriteFails(n) ==
  /\ "write" \in Faults
  /\ podStep # Idle
  /\ \/ n \in podStep.kill /\ podStep' = [podStep EXCEPT !.kill = {}, !.err = TRUE]
     \/ /\ Visits(n)
        /\ \E u \in Claim : NameOf[u] = n /\ Annotates(u)
        /\ podStep' = [podStep EXCEPT !.todo = @ \ {n}, !.err = TRUE]
  /\ UNCHANGED <<api, caches, queues, claimStep, known>>

PodDone ==
  /\ podStep # Idle /\ podStep.todo = {} /\ podStep.kill = {}
  /\ podQ' = IF podStep.err THEN podQ \cup {podStep.w} ELSE podQ
  /\ podStep' = Idle
  /\ UNCHANGED <<api, caches, claimQ, pvQ, claimStep, known>>

PodReconcile ==
  \/ \E w \in Workload : PodTake(w)
  \/ \E n \in Name :
       \/ PodSkipClaim(n) \/ PodDeleteClaim(n)
       \/ \E u \in Claim : PodAnnotateClaim(n, u) \/ PodFindsAnnotated(n, u)
  \/ PodDone

=============================================================================
