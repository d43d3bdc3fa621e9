-------------------------- MODULE VolumeLifecycle --------------------------
(***************************************************************************)
(* What the manager promises for the volume of a claim: it is there before *)
(* the claim is bound, it stays until the claim is gone, and its object is *)
(* kept until its storage was freed.  Every step changes one thing of one  *)
(* claim.  Provisioning implements this specification.                     *)
(***************************************************************************)
CONSTANT Claim

VARIABLES
  claim,   \* "unborn", "live", "bound" or "gone"
  dir,     \* is there a directory for the claim on its node?
  freed,   \* claims whose directory a deprovisioner has removed
  object   \* the PersistentVolume: "none", "live" or "gone"

lifecycle == <<claim, dir, freed, object>>

Init ==
  /\ claim = [u \in Claim |-> "unborn"]
  /\ dir = [u \in Claim |-> FALSE]
  /\ freed = {}
  /\ object = [u \in Claim |-> "none"]

Claimed(u) ==
  /\ claim[u] = "unborn"
  /\ claim' = [claim EXCEPT ![u] = "live"]
  /\ UNCHANGED <<dir, freed, object>>

\* Bound to a volume that has its storage.
Bound(u) ==
  /\ claim[u] = "live" /\ dir[u] /\ object[u] = "live"
  /\ claim' = [claim EXCEPT ![u] = "bound"]
  /\ UNCHANGED <<dir, freed, object>>

Unclaimed(u) ==
  /\ claim[u] \in {"live", "bound"}
  /\ claim' = [claim EXCEPT ![u] = "gone"]
  /\ UNCHANGED <<dir, freed, object>>

\* A provisioner makes the directory, maybe for a claim that is gone by then.
Provisioned(u) ==
  /\ claim[u] # "unborn" /\ ~dir[u]
  /\ dir' = [dir EXCEPT ![u] = TRUE]
  /\ UNCHANGED <<claim, freed, object>>

\* Only the storage of a claim that is gone is freed, entirely or, by a
\* deprovisioner that fails, without being known to be.
Freed(u) ==
  /\ claim[u] = "gone"
  /\ dir' = [dir EXCEPT ![u] = FALSE]
  /\ freed' \in {freed, freed \cup {u}}
  /\ UNCHANGED <<claim, object>>

Recorded(u) ==
  /\ claim[u] # "unborn" /\ object[u] = "none"
  /\ claim[u] # "gone" => dir[u]
  /\ object' = [object EXCEPT ![u] = "live"]
  /\ UNCHANGED <<claim, dir, freed>>

Forgotten(u) ==
  /\ claim[u] = "gone" /\ object[u] = "live" /\ u \in freed
  /\ object' = [object EXCEPT ![u] = "gone"]
  /\ UNCHANGED <<claim, dir, freed>>

Next ==
  \E u \in Claim :
    \/ Claimed(u) \/ Bound(u) \/ Unclaimed(u)
    \/ Provisioned(u) \/ Freed(u) \/ Recorded(u) \/ Forgotten(u)

Spec == Init /\ [][Next]_lifecycle

=============================================================================
