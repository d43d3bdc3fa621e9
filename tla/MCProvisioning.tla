--------------------------- MODULE MCProvisioning ---------------------------
(* Instances of Provisioning for TLC. *)
EXTENDS Provisioning, TLC
CONSTANTS u1, u2, n1, w1, w2

OneName == [u \in Claim |-> n1]
MountsOne == [w \in Workload |-> {n1}]
OnFailure == [w \in Workload |-> "OnFailure"]
NeverRestarted == [w \in Workload |-> "Never"]

\* Every claim was provisioned and bound, its provisioner Pod is removed, the
\* caches are up to date.
Provisioned ==
  /\ claims = [u \in Claim |-> [NoClaim EXCEPT !.st = "live", !.prot = TRUE, !.fin = TRUE,
                                  !.node = TRUE, !.env = TRUE, !.bound = TRUE]]
  /\ pvs = [u \in Claim |-> [NoPV EXCEPT !.st = "live", !.prot = TRUE, !.fin = TRUE,
                                  !.ref = TRUE, !.phase = "Bound"]]
  /\ pods = [k \in Kind |-> [u \in Claim |-> NoPod]]
  /\ cclaims = claims /\ cpvs = pvs /\ cpods = pods /\ cwork = work
  /\ vol = [u \in Claim |-> TRUE] /\ freed = {}
  /\ claimQ = {} /\ pvQ = {} /\ podQ = {}
  /\ claimStep = Idle /\ podStep = Idle
  /\ known = TRUE

\* ... and the users' Pods are running, or not created yet.
Started == work = [w \in Workload |-> [st |-> "Running", vols |-> Claim]] /\ Provisioned
Unused  == work = [w \in Workload |-> NoWork] /\ Provisioned

FairFromStarted == Started /\ [][Next]_vars /\ Fairness
FromUnused == Unused /\ [][Next]_vars

=============================================================================
