------------------------- MODULE ProvisioningProofs -------------------------
(***************************************************************************)
(* The safety of Provisioning, for any set of claims, names and Pods, any  *)
(* assignment of names and classes and any set of faults: Consistent is    *)
(* inductive, and implies the properties that matter.                      *)
(***************************************************************************)
EXTENDS ProvisioningTypes

\* The part of Consistent that is about one claim and its objects.
Kept(u) ==
  /\ CacheFollowsClaim(u) /\ SeenFirst(u) /\ ReferenceKept(u)
  /\ VolumeKept(u) /\ FreedKnown(u)
  /\ claims[u].st = "live" /\ (pods["provisioner"][u].st # "none" \/ pvs[u].st = "live")
       => claims[u].fin

AllKept == \A u \in Claim : Kept(u)

\* The volumes go on in their lives, as promised, or stay where they are.
LifeStep == [Lifecycle!Next]_(Lifecycle!lifecycle)

\* What every step is shown to do.
Advances == AllKept' /\ LifeStep

LEMMA ConsistentParts ==
  /\ Consistent <=> StepFollowsClaim /\ AllKept
  /\ Consistent' <=> StepFollowsClaim' /\ AllKept'
BY DEF Consistent, AllKept, Kept, FinalizerFirst

-----------------------------------------------------------------------------
(* What a write may do to the life of a volume, as VolumeLifecycle has it. *)

LEMMA ClaimLife ==
  ASSUME NEW u \in Claim, \A v \in Claim \ {u} : claims'[v] = claims[v],
         \/ Life(claims'[u]) = Life(claims[u])
         \/ Life(claims[u]) = "unborn" /\ Life(claims'[u]) = "live"
         \/ /\ Life(claims[u]) = "live" /\ Life(claims'[u]) = "bound"
            /\ vol[u] /\ pvs[u].st = "live"
         \/ Life(claims[u]) \in {"live", "bound"} /\ Life(claims'[u]) = "gone",
         UNCHANGED <<pvs, vol, freed>>
  PROVE  LifeStep
<1> DEFINE before == [v \in Claim |-> Life(claims[v])]
           after  == [v \in Claim |-> Life(claims'[v])]
<1>1. after = [before EXCEPT ![u] = Life(claims'[u])]
  <2>1. \A v \in Claim : Life(claims'[v]) =
           IF v = u THEN Life(claims'[u]) ELSE Life(claims[v])
    BY Zenon
  <2> QED
    BY <2>1, Zenon
<1>2. Life(claims'[u]) = Life(claims[u]) => after = before
  BY <1>1
<1> QED
  BY <1>1, <1>2, Zenon, SMTT(30)
  DEF LifeStep, Lifecycle!lifecycle, Lifecycle!Next, Lifecycle!Claimed, Lifecycle!Bound,
      Lifecycle!Unclaimed

LEMMA ObjectLife ==
  ASSUME NEW u \in Claim, \A v \in Claim \ {u} : pvs'[v] = pvs[v],
         \/ pvs'[u].st = pvs[u].st
         \/ /\ pvs[u].st = "none" /\ pvs'[u].st = "live" /\ Life(claims[u]) # "unborn"
            /\ Life(claims[u]) # "gone" => vol[u]
         \/ /\ pvs[u].st = "live" /\ pvs'[u].st = "gone"
            /\ Life(claims[u]) = "gone" /\ u \in freed,
         UNCHANGED <<claims, vol, freed>>
  PROVE  LifeStep
<1> DEFINE before == [v \in Claim |-> pvs[v].st]
           after  == [v \in Claim |-> pvs'[v].st]
<1>1. after = [before EXCEPT ![u] = pvs'[u].st]
  BY Zenon
<1>2. pvs'[u].st = pvs[u].st => after = before
  BY <1>1
<1> QED
  BY <1>1, <1>2, Zenon, SMTT(30)
  DEF LifeStep, Lifecycle!lifecycle, Lifecycle!Next, Lifecycle!Recorded, Lifecycle!Forgotten

\* The Pod of a job makes or removes the directory, or leaves it alone.
Stores(k, u) ==
  \/ UNCHANGED <<vol, freed>>
  \/ k = "provisioner" /\ vol' = [vol EXCEPT ![u] = TRUE] /\ UNCHANGED freed
  \/ /\ k = "deprovisioner" /\ vol' = [vol EXCEPT ![u] = FALSE]
     /\ freed' \in {freed, freed \cup {u}}

LEMMA StorageLife ==
  ASSUME TypeOK, NEW u \in Claim, NEW k \in Kind, Stores(k, u),
         UNCHANGED <<vol, freed>> \/ Life(claims[u]) # "unborn",
         UNCHANGED <<vol, freed>> \/ k = "provisioner" \/ Life(claims[u]) = "gone",
         UNCHANGED <<claims, pvs>>
  PROVE  LifeStep
<1>1. vol \in [Claim -> BOOLEAN]
  BY DEF TypeOK
<1>2. CASE UNCHANGED <<vol, freed>>
  BY <1>2 DEF LifeStep, Lifecycle!lifecycle
<1>3. CASE vol' = [vol EXCEPT ![u] = TRUE] /\ freed' = freed /\ Life(claims[u]) # "unborn"
  <2>1. vol[u] => UNCHANGED <<vol, freed>>
    BY <1>1, <1>3
  <2>2. ~vol[u] => Lifecycle!Provisioned(u)
    BY <1>3 DEF Lifecycle!Provisioned
  <2> QED
    BY <1>2, <2>1, <2>2 DEF LifeStep, Lifecycle!Next
<1>4. CASE /\ vol' = [vol EXCEPT ![u] = FALSE] /\ Life(claims[u]) = "gone"
           /\ freed' \in {freed, freed \cup {u}}
  <2>1. Lifecycle!Freed(u)
    BY <1>4 DEF Lifecycle!Freed
  <2> QED
    BY <2>1 DEF LifeStep, Lifecycle!Next
<1> QED
  BY <1>2, <1>3, <1>4 DEF Stores

-----------------------------------------------------------------------------
(* What a write may do to a claim's objects.  Each lemma is about one kind *)
(* of write, wherever it comes from.                                       *)

LEMMA StoredClaimCases ==
  ASSUME NEW c \in ClaimObj, c.st = "live"
  PROVE  \/ StoredClaim(c) = c
         \/ StoredClaim(c).st = "gone" /\ c.del /\ ~c.fin
BY DEF StoredClaim, NoClaim, ClaimObj

LEMMA StoredPVCases ==
  ASSUME NEW p \in PVObj, p.st = "live"
  PROVE  \/ StoredPV(p) = p
         \/ StoredPV(p).st = "gone" /\ ~p.fin
BY DEF StoredPV, NoPV, PVObj

LEMMA PutClaimAt ==
  ASSUME TypeOK, NEW u \in Claim, NEW c, PutClaim(u, c)
  PROVE  /\ claims'[u] = StoredClaim(c)
         /\ \A v \in Claim \ {u} : claims'[v] = claims[v]
BY DEF PutClaim, TypeOK

LEMMA PutPVAt ==
  ASSUME TypeOK, NEW u \in Claim, NEW p, PutPV(u, p)
  PROVE  /\ pvs'[u] = StoredPV(p)
         /\ \A v \in Claim \ {u} : pvs'[v] = pvs[v]
BY DEF PutPV, TypeOK

LEMMA PutPodAt ==
  ASSUME TypeOK, NEW k \in Kind, NEW u \in Claim, NEW p, PutPod(k, u, p)
  PROVE  /\ pods'[k][u] = p
         /\ \A j \in Kind, v \in Claim : j # k \/ v # u => pods'[j][v] = pods[j][v]
BY DEF PutPod, TypeOK

\* What is said of a claim depends on its own objects only.
LEMMA KeptElsewhere ==
  ASSUME AllKept, NEW v \in Claim,
         claims'[v] = claims[v], pvs'[v] = pvs[v],
         \A k \in Kind : pods'[k][v] = pods[k][v],
         vol'[v] = vol[v], v \in freed => v \in freed',
         UNCHANGED <<cclaims, cpvs, cpods>>
  PROVE  Kept(v)'
<1>1. Kept(v) /\ "provisioner" \in Kind /\ "deprovisioner" \in Kind
  BY DEF AllKept, Kind
<1> QED
  BY <1>1 DEF Kept, CacheFollowsClaim, SeenFirst, ReferenceKept, VolumeKept, FreedKnown

\* An update or a delete request that leaves the finalizer where it is.
LEMMA ClaimWritten ==
  ASSUME TypeOK, AllKept, NEW u \in Claim, NEW c \in ClaimObj,
         PutClaim(u, c), claims[u].st = "live", c.st = "live",
         claims[u].del => c.del, claims[u].fin => c.fin,
         c.bound => claims[u].bound \/ pvs[u].st = "live", claims[u].bound => c.bound,
         UNCHANGED <<pvs, pods, vol, freed, cclaims, cpvs, cpods>>
  PROVE  Advances
<1>1. AllKept'
  <2> SUFFICES ASSUME NEW v \in Claim PROVE Kept(v)'
    BY DEF AllKept
  <2>1. CASE v # u
    BY <2>1, PutClaimAt, KeptElsewhere
  <2>2. CASE v = u
    <3>1. Kept(u) /\ claims'[u] = StoredClaim(c)
      BY PutClaimAt DEF AllKept
    <3>2. CASE StoredClaim(c) = c
      BY <2>2, <3>1, <3>2
      DEF Kept, CacheFollowsClaim, SeenFirst, ReferenceKept, VolumeKept, FreedKnown
    <3>3. CASE StoredClaim(c).st = "gone" /\ c.del /\ ~c.fin
      BY <2>2, <3>1, <3>3
      DEF Kept, CacheFollowsClaim, SeenFirst, ReferenceKept, VolumeKept, FreedKnown
    <3> QED
      BY <3>2, <3>3, StoredClaimCases
  <2> QED
    BY <2>1, <2>2
<1>2. LifeStep
  <2>1. Kept(u) /\ claims'[u] = StoredClaim(c) /\ claims[u] \in ClaimObj
    BY PutClaimAt DEF AllKept, TypeOK
  <2>2. CASE StoredClaim(c) = c
    <3>1. \/ Life(c) = Life(claims[u])
          \/ /\ Life(claims[u]) = "live" /\ Life(c) = "bound"
             /\ vol[u] /\ pvs[u].st = "live"
      BY <2>1 DEF Life, Kept, VolumeKept, ClaimObj
    <3> QED
      BY <2>1, <2>2, <3>1, PutClaimAt, ClaimLife
  <2>3. CASE StoredClaim(c).st = "gone"
    BY <2>1, <2>3, PutClaimAt, ClaimLife DEF Life
  <2> QED
    BY <2>2, <2>3, StoredClaimCases
<1> QED
  BY <1>1, <1>2 DEF Advances

\* The controller lets go of a claim it has seen deleted.
LEMMA ClaimLetGo ==
  ASSUME TypeOK, AllKept, NEW u \in Claim, NEW c \in ClaimObj, PutClaim(u, c),
         c.del, ~c.prot, ~c.fin, ~c.guard,
         cclaims[u].st # "unborn", cclaims[u].st = "live" => cclaims[u].del,
         UNCHANGED <<pvs, pods, vol, freed, cclaims, cpvs, cpods>>
  PROVE  Advances
<1>1. AllKept'
  <2> SUFFICES ASSUME NEW v \in Claim PROVE Kept(v)'
    BY DEF AllKept
  <2>1. CASE v # u
    BY <2>1, PutClaimAt, KeptElsewhere
  <2>2. CASE v = u
    <3>1. Kept(u) /\ claims'[u] = StoredClaim(c)
      BY PutClaimAt DEF AllKept
    <3>2. StoredClaim(c).st = "gone"
      BY DEF StoredClaim, NoClaim
    <3> QED
      BY <2>2, <3>1, <3>2
      DEF Kept, CacheFollowsClaim, SeenFirst, ReferenceKept, VolumeKept, FreedKnown
  <2> QED
    BY <2>1, <2>2
<1>2. LifeStep
  <2>1. Kept(u) /\ claims'[u] = StoredClaim(c) /\ StoredClaim(c).st = "gone"
    BY PutClaimAt DEF AllKept, StoredClaim, NoClaim
  <2>2. claims[u].st \in {"live", "gone"}
    BY <2>1 DEF Kept, CacheFollowsClaim, TypeOK, ClaimObj
  <2> QED
    BY <2>1, <2>2, PutClaimAt, ClaimLife DEF Life
<1> QED
  BY <1>1, <1>2 DEF Advances

LEMMA ClaimBorn ==
  ASSUME TypeOK, AllKept, NEW u \in Claim, NEW c \in ClaimObj, PutClaim(u, c),
         claims[u].st = "unborn", c.st = "live", ~c.del, ~c.bound,
         UNCHANGED <<pvs, pods, vol, freed, cclaims, cpvs, cpods>>
  PROVE  Advances
<1>1. AllKept'
  <2> SUFFICES ASSUME NEW v \in Claim PROVE Kept(v)'
    BY DEF AllKept
  <2>1. CASE v # u
    BY <2>1, PutClaimAt, KeptElsewhere
  <2>2. CASE v = u
    <3>1. Kept(u) /\ claims'[u] = c
      BY PutClaimAt, StoredClaimCases DEF AllKept
    <3>2. pvs[u].st \in {"none", "live", "gone"} /\ cclaims[u].st \in {"unborn", "live", "gone"}
      BY DEF TypeOK, PVObj, ClaimObj
    <3>3. /\ cclaims[u].st = "unborn" /\ pvs[u].st = "none"
          /\ pods["provisioner"][u].st = "none" /\ cpods["provisioner"][u].st = "none"
      BY <3>1, <3>2 DEF Kept, CacheFollowsClaim, SeenFirst
    <3>4. /\ ~(cpvs[u].st = "live" /\ ~cpvs[u].ref)
          /\ pods["deprovisioner"][u].st = "none" /\ cpods["deprovisioner"][u].st = "none"
      BY <3>1, <3>3 DEF Kept, ReferenceKept
    <3> QED
      BY <2>2, <3>1, <3>3, <3>4
      DEF Kept, CacheFollowsClaim, SeenFirst, ReferenceKept, VolumeKept, FreedKnown
  <2> QED
    BY <2>1, <2>2
<1>2. LifeStep
  <2>1. claims'[u] = c
    BY PutClaimAt, StoredClaimCases
  <2> QED
    BY <2>1, PutClaimAt, ClaimLife DEF Life
<1> QED
  BY <1>1, <1>2 DEF Advances

\* A volume is created or written.
LEMMA PVWritten ==
  ASSUME TypeOK, AllKept, NEW u \in Claim, NEW p \in PVObj, PutPV(u, p),
         p.st = "live", cclaims[u].st # "unborn",
         ~p.ref => cclaims[u].st = "gone",
         p.off => u \in freed,
         ~p.fin => ~p.ref /\ p.off /\ pvs[u].st = "live", pvs[u].st # "gone",
         claims[u].st = "live" => claims[u].fin /\ vol[u],
         UNCHANGED <<claims, pods, vol, freed, cclaims, cpvs, cpods>>
  PROVE  Advances
<1>1. AllKept'
  <2> SUFFICES ASSUME NEW v \in Claim PROVE Kept(v)'
    BY DEF AllKept
  <2>1. CASE v # u
    BY <2>1, PutPVAt, KeptElsewhere
  <2>2. CASE v = u
    <3>1. Kept(u) /\ pvs'[u] = StoredPV(p)
      BY PutPVAt DEF AllKept
    <3>2. CASE StoredPV(p) = p
      BY <2>2, <3>1, <3>2, SMTT(30)
      DEF Kept, CacheFollowsClaim, SeenFirst, ReferenceKept, VolumeKept, FreedKnown
    <3>3. CASE StoredPV(p).st = "gone" /\ ~p.fin
      BY <2>2, <3>1, <3>3, SMTT(30)
      DEF Kept, CacheFollowsClaim, SeenFirst, ReferenceKept, VolumeKept, FreedKnown
    <3> QED
      BY <3>2, <3>3, StoredPVCases
  <2> QED
    BY <2>1, <2>2
<1>2. LifeStep
  <2>1. Kept(u) /\ pvs'[u] = StoredPV(p) /\ pvs[u].st \in {"none", "live"}
    BY PutPVAt, SMTT(30) DEF AllKept, TypeOK, PVObj
  <2>2. /\ Life(claims[u]) # "unborn"
        /\ Life(claims[u]) # "gone" => vol[u]
        /\ ~p.ref => Life(claims[u]) = "gone"
    BY <2>1 DEF Life, Kept, CacheFollowsClaim, TypeOK, ClaimObj
  <2>3. StoredPV(p).st = "live" \/ (StoredPV(p).st = "gone" /\ ~p.fin)
    BY StoredPVCases
  <2> QED
    BY <2>1, <2>2, <2>3, PutPVAt, ObjectLife, SMTT(30)
<1> QED
  BY <1>1, <1>2 DEF Advances

\* A Pod of a job is created, runs, is deleted or disappears.
LEMMA PodWritten ==
  ASSUME TypeOK, AllKept, NEW k \in Kind, NEW u \in Claim, NEW p \in PodObj, PutPod(k, u, p),
         k = "provisioner" /\ p.st # "none" =>
           cclaims[u].st # "unborn" /\ (claims[u].st = "live" => claims[u].fin),
         k = "provisioner" /\ p.st = "Succeeded" /\ claims[u].st = "live" => vol'[u],
         k = "deprovisioner" /\ p.st # "none" => cclaims[u].st = "gone",
         k = "deprovisioner" /\ p.st = "Succeeded" => u \in freed',
         Stores(k, u), p.st = "none" => UNCHANGED <<vol, freed>>,
         UNCHANGED <<claims, pvs, cclaims, cpvs, cpods>>
  PROVE  Advances
<1>0. /\ claims[u].st = "live" /\ vol[u] => vol'[u]
      /\ \A v \in Claim \ {u} : vol'[v] = vol[v]
      /\ freed \subseteq freed'
  <2>1. Kept(u) /\ vol \in [Claim -> BOOLEAN]
    BY DEF AllKept, TypeOK
  <2>2. claims[u].st = "live" /\ k = "deprovisioner" => p.st = "none"
    BY <2>1 DEF Kept, CacheFollowsClaim
  <2> QED
    BY <2>1, <2>2, Zenon, SMTT(30) DEF Stores
<1>1. AllKept'
  <2> SUFFICES ASSUME NEW v \in Claim PROVE Kept(v)'
    BY DEF AllKept
  <2>1. CASE v # u
    BY <1>0, <2>1, PutPodAt, KeptElsewhere
  <2>2. CASE v = u
    <3>1. Kept(u) /\ pods'[k][u] = p /\ \A j \in Kind : j # k => pods'[j][u] = pods[j][u]
      BY PutPodAt DEF AllKept
    <3>2. CASE k = "provisioner"
      <4>1. pods'["provisioner"][u] = p /\ pods'["deprovisioner"][u] = pods["deprovisioner"][u]
        BY <3>1, <3>2 DEF Kind
      <4>2. CacheFollowsClaim(u)' /\ SeenFirst(u)' /\ ReferenceKept(u)'
        BY <1>0, <2>2, <3>1, <3>2, <4>1, SMTT(30) DEF Kept, CacheFollowsClaim, SeenFirst, ReferenceKept
      <4>3. VolumeKept(u)' /\ FreedKnown(u)'
        BY <1>0, <2>2, <3>1, <3>2, <4>1, SMTT(30) DEF Kept, VolumeKept, FreedKnown
      <4> QED
        BY <1>0, <2>2, <3>1, <3>2, <4>1, <4>2, <4>3 DEF Kept
    <3>3. CASE k = "deprovisioner"
      <4>1. pods'["deprovisioner"][u] = p /\ pods'["provisioner"][u] = pods["provisioner"][u]
        BY <3>1, <3>3 DEF Kind
      <4>2. CacheFollowsClaim(u)' /\ SeenFirst(u)' /\ ReferenceKept(u)'
        BY <1>0, <2>2, <3>1, <3>3, <4>1, SMTT(30) DEF Kept, CacheFollowsClaim, SeenFirst, ReferenceKept
      <4>3. VolumeKept(u)' /\ FreedKnown(u)'
        BY <1>0, <2>2, <3>1, <3>3, <4>1, SMTT(30) DEF Kept, VolumeKept, FreedKnown
      <4> QED
        BY <1>0, <2>2, <3>1, <3>3, <4>1, <4>2, <4>3 DEF Kept
    <3> QED
      BY <3>2, <3>3 DEF Kind
  <2> QED
    BY <2>1, <2>2
<1>2. LifeStep
  <2>1. Kept(u)
    BY DEF AllKept
  <2>2. CASE p.st = "none"
    BY <2>2, StorageLife
  <2>3. CASE p.st # "none"
    <3>1. /\ Life(claims[u]) # "unborn"
          /\ k = "provisioner" \/ Life(claims[u]) = "gone"
      BY <2>1, <2>3 DEF Life, Kept, CacheFollowsClaim, Kind
    <3> QED
      BY <3>1, StorageLife
  <2> QED
    BY <2>2, <2>3
<1> QED
  BY <1>1, <1>2 DEF Advances

\* A cache is refreshed from the API server, or left as it is.
LEMMA CacheRead ==
  ASSUME TypeOK, AllKept,
         cclaims' = claims \/ cclaims' = cclaims,
         cpvs' = pvs \/ cpvs' = cpvs,
         cpods' = pods \/ cpods' = cpods,
         UNCHANGED <<claims, pvs, pods, vol, freed>>
  PROVE  Advances
<1>1. AllKept'
  <2> SUFFICES ASSUME NEW v \in Claim PROVE Kept(v)'
    BY DEF AllKept
  <2>1. Kept(v)
    BY DEF AllKept
  <2> QED
    BY <2>1, SMTT(30) DEF Kept, CacheFollowsClaim, SeenFirst, ReferenceKept, VolumeKept, FreedKnown
<1>2. LifeStep
  BY DEF LifeStep, Lifecycle!lifecycle
<1> QED
  BY <1>1, <1>2 DEF Advances

-----------------------------------------------------------------------------
(* The updates the steps make. *)

\* The updates of a claim other than its binding and its release.
ClaimUpdate(c) ==
  { [c EXCEPT !.del = TRUE], [c EXCEPT !.prot = FALSE], [c EXCEPT !.fin = TRUE],
    [c EXCEPT !.guard = FALSE], [c EXCEPT !.noProt = TRUE], [c EXCEPT !.node = TRUE],
    [c EXCEPT !.env = FALSE] }

LEMMA ClaimUpdated ==
  ASSUME TypeOK, AllKept, NEW u \in Claim, claims[u].st = "live",
         NEW c \in ClaimUpdate(claims[u]), PutClaim(u, c),
         UNCHANGED <<pvs, pods, vol, freed, cclaims, cpvs, cpods>>
  PROVE  Advances
<1>1. claims[u] \in ClaimObj
  BY DEF TypeOK
<1>2. c \in ClaimObj
  BY <1>1, ClaimUpdates, Zenon DEF ClaimUpdate
<1>3. /\ c.st = "live"
      /\ claims[u].del => c.del
      /\ claims[u].fin => c.fin
      /\ c.bound = claims[u].bound
  BY <1>1 DEF ClaimUpdate, ClaimObj
<1> QED
  BY <1>2, <1>3, ClaimWritten

\* The updates of a volume that keep its reference, its finalizer and its
\* annotation.
PVUpdate(p) ==
  { [p EXCEPT !.del = TRUE], [p EXCEPT !.prot = FALSE], [p EXCEPT !.phase = "Available"],
    [p EXCEPT !.phase = "Bound"], [p EXCEPT !.phase = "Released"] }

LEMMA PVUpdated ==
  ASSUME TypeOK, AllKept, NEW u \in Claim, pvs[u].st = "live",
         NEW p \in PVUpdate(pvs[u]), PutPV(u, p),
         UNCHANGED <<claims, pods, vol, freed, cclaims, cpvs, cpods>>
  PROVE  Advances
<1>1. pvs[u] \in PVObj /\ Kept(u)
  BY DEF TypeOK, AllKept
<1>2. p \in PVObj
  BY <1>1, PVUpdates, Zenon DEF PVUpdate
<1>3. p.st = "live" /\ p.ref = pvs[u].ref /\ p.off = pvs[u].off /\ p.fin = pvs[u].fin
  BY <1>1 DEF PVUpdate, PVObj
<1>4. /\ cclaims[u].st # "unborn"
      /\ claims[u].st = "live" => claims[u].fin /\ vol[u]
      /\ ~p.ref => cclaims[u].st = "gone"
      /\ p.off => u \in freed
      /\ ~p.fin => ~p.ref /\ p.off
  BY <1>1, <1>3 DEF Kept, SeenFirst, VolumeKept, ReferenceKept, FreedKnown
<1> QED
  BY <1>2, <1>3, <1>4, PVWritten

\* The volume is freed step by step: no reference, no deprovisioner, no
\* finalizer.
LEMMA PVFreed ==
  ASSUME TypeOK, AllKept, NEW u \in Claim, cpvs[u] = pvs[u], pvs[u].st = "live",
         NEW p \in { [pvs[u] EXCEPT !.ref = FALSE], [pvs[u] EXCEPT !.off = TRUE],
                     [pvs[u] EXCEPT !.fin = FALSE] },
         PutPV(u, p), cclaims[u].st = "gone",
         p.off => u \in freed, ~p.fin => ~p.ref /\ p.off,
         UNCHANGED <<claims, pods, vol, freed, cclaims, cpvs, cpods>>
  PROVE  Advances
<1>1. pvs[u] \in PVObj /\ Kept(u)
  BY DEF TypeOK, AllKept
<1>2. p \in PVObj
  BY <1>1, PVUpdates, Zenon
<1>3. p.st = "live"
  BY <1>1 DEF PVObj
<1>4. cclaims[u].st # "unborn" /\ claims[u].st = "gone"
  BY <1>1 DEF Kept, CacheFollowsClaim
<1> QED
  BY <1>2, <1>3, <1>4, PVWritten

LEMMA JobDeleted ==
  ASSUME TypeOK, AllKept, NEW k \in Kind, NEW u \in Claim, JobDelete(k, u),
         UNCHANGED <<claims, pvs, vol, freed, cclaims, cpvs, cpods>>
  PROVE  Advances
<1>1. CASE pods[k][u].st = "none"
  BY <1>1, CacheRead DEF JobDelete
<1>2. CASE pods[k][u].st # "none"
  <2> DEFINE p == [pods[k][u] EXCEPT !.del = TRUE]
  <2>1. pods[k][u] \in PodObj /\ Kept(u)
    BY DEF TypeOK, AllKept
  <2>2. p \in PodObj
    BY <2>1, PodUpdates, Zenon
  <2>3. p.st = pods[k][u].st
    BY <2>1 DEF PodObj
  <2>4. PutPod(k, u, p)
    BY <1>2 DEF JobDelete, DeletePod
  <2> HIDE DEF p
  <2>5. /\ k = "provisioner" /\ p.st # "none" =>
             cclaims[u].st # "unborn" /\ (claims[u].st = "live" => claims[u].fin)
        /\ k = "provisioner" /\ p.st = "Succeeded" /\ claims[u].st = "live" => vol'[u]
        /\ k = "deprovisioner" /\ p.st # "none" => cclaims[u].st = "gone"
        /\ k = "deprovisioner" /\ p.st = "Succeeded" => u \in freed'
        /\ Stores(k, u)
    BY <2>1, <2>3, SMTT(30) DEF Kept, SeenFirst, VolumeKept, ReferenceKept, FreedKnown, Stores
  <2> QED
    BY <2>2, <2>4, <2>5, PodWritten, SMTT(30)
<1> QED
  BY <1>1, <1>2

LEMMA RestartedKept ==
  ASSUME TypeOK, AllKept, Restarted
  PROVE  Advances /\ StepFollowsClaim'
<1>1. Advances
  BY CacheRead DEF Restarted, api
<1>2. StepFollowsClaim'
  BY DEF Restarted, StepFollowsClaim, Idle
<1> QED
  BY <1>1, <1>2

LEMMA StepKept ==
  ASSUME StepFollowsClaim, UNCHANGED <<cclaims, claimStep>>
  PROVE  StepFollowsClaim'
BY DEF StepFollowsClaim

-----------------------------------------------------------------------------
(* The steps of the controllers. *)

LEMMA PVCReconcileKept ==
  ASSUME TypeOK, AllKept, StepFollowsClaim, PVCReconcile
  PROVE  Advances /\ StepFollowsClaim'
<1>1. "provisioner" \in Kind
  BY DEF Kind
<1>2. \A u \in Claim : claims[u] \in ClaimObj /\ cclaims[u] \in ClaimObj /\ Kept(u)
  BY DEF TypeOK, AllKept
<1> USE DEF api, caches, steps, queues
<1>3. ASSUME NEW n \in Name, ClaimNotFound(n) PROVE Advances /\ StepFollowsClaim'
  BY <1>3, CacheRead, StepKept DEF ClaimNotFound
<1>4. ASSUME NEW u \in Claim, ReconcileClaim(u) PROVE Advances /\ StepFollowsClaim'
  <2>1. CASE ClaimUnprotect(u)
    <3>1. Advances
      BY <2>1, <1>1, ClaimUpdated, Zenon DEF ClaimUnprotect, Reconciles, UpToDate, ClaimUpdate
    <3> QED
      BY <2>1, <3>1, <1>1, StepKept DEF ClaimUnprotect
  <2>2. CASE ClaimNothingToDo(u)
    BY <2>2, <1>1, CacheRead, StepKept DEF ClaimNothingToDo
  <2>3. CASE ClaimDeletePod(u)
    BY <2>3, <1>1, JobDeleted, StepKept DEF ClaimDeletePod
  <2>4. CASE ClaimDeletePV(u)
    <3>1. ASSUME pvs[u].st = "live" PROVE Advances
      BY <2>4, <3>1, PVUpdated, Zenon DEF ClaimDeletePV, DeletePV, PVUpdate
    <3>2. ASSUME pvs[u].st # "live" PROVE Advances
      BY <2>4, <3>2, CacheRead, Zenon DEF ClaimDeletePV
    <3>3. StepFollowsClaim'
      <4>1. claimStep' = [at |-> "unfinalize", u |-> u, seen |-> cclaims[u]] /\ cclaims' = cclaims
        BY <2>4, Zenon DEF ClaimDeletePV
      <4>2. /\ cclaims[u].st = "live" /\ cclaims[u].del
            /\ ~cclaims[u].prot /\ ~cclaims[u].guard
        BY <2>4, Zenon DEF ClaimDeletePV, Deprovisions, Reconciles
      <4>3. claimStep'.u = u /\ claimStep'.seen = cclaims[u]
        BY <4>1, Zenon
      <4> QED
        BY <4>1, <4>2, <4>3 DEF StepFollowsClaim
    <3> QED
      BY <3>1, <3>2, <3>3
  <2>5. CASE ClaimRelease(u)
    <3> DEFINE c == [cclaims[u] EXCEPT !.fin = FALSE]
    <3>1. c \in ClaimObj
      BY <1>2, ClaimUpdates, Zenon
    <3>2. c.del /\ ~c.prot /\ ~c.fin /\ ~c.guard
      BY <2>5, <1>2 DEF ClaimRelease, Deprovisions, ClaimObj
    <3>3. PutClaim(u, c) /\ cclaims[u].st = "live" /\ cclaims[u].del
      BY <2>5 DEF ClaimRelease, Deprovisions, Reconciles
    <3> HIDE DEF c
    <3>4. Advances
      BY <2>5, <3>1, <3>2, <3>3, <1>1, ClaimLetGo DEF ClaimRelease
    <3> QED
      BY <2>5, <3>4, <1>1, StepKept DEF ClaimRelease
  <2>6. CASE ClaimAddFinalizer(u)
    <3>1. Advances
      BY <2>6, <1>1, ClaimUpdated, Zenon DEF ClaimAddFinalizer, Reconciles, UpToDate, ClaimUpdate
    <3> QED
      BY <2>6, <3>1, <1>1, StepKept DEF ClaimAddFinalizer
  <2>7. CASE ClaimPanic(u)
    BY <2>7, <1>1, RestartedKept DEF ClaimPanic
  <2>8. CASE ClaimCreatePod(u)
    <3> DEFINE p == [NoPod EXCEPT !.st = "Running"]
    <3>1. p \in PodObj /\ p.st = "Running"
      BY Zenon DEF NoPod, PodObj
    <3>2. PutPod("provisioner", u, p)
      BY <2>8 DEF ClaimCreatePod, JobCreate
    <3> HIDE DEF p
    <3>3. cclaims[u].st = "live" /\ (claims[u].st = "live" => claims[u].fin)
      BY <2>8, <1>2 DEF ClaimCreatePod, Provisions, Reconciles, Kept, CacheFollowsClaim
    <3>4. Advances
      BY <2>8, <3>1, <3>2, <3>3, <1>1, PodWritten, SMTT(30) DEF ClaimCreatePod, Stores
    <3> QED
      BY <2>8, <3>4, <1>1, StepKept DEF ClaimCreatePod
  <2>9. CASE ClaimCreatePV(u)
    <3> DEFINE p == [NoPV EXCEPT !.st = "live", !.prot = TRUE, !.fin = TRUE, !.ref = TRUE]
    <3>1. p \in PVObj /\ p.st = "live" /\ p.ref /\ ~p.off /\ p.fin
      BY Zenon DEF NoPV, PVObj
    <3>2. PutPV(u, p)
      BY <2>9 DEF ClaimCreatePV
    <3> HIDE DEF p
    <3>3. cpods["provisioner"][u].st = "Succeeded"
      BY <2>9 DEF ClaimCreatePV, ProvisionVerdict, JobVerdict
    <3>4. /\ cclaims[u].st = "live" /\ pvs[u].st # "gone"
          /\ claims[u].st = "live" => claims[u].fin /\ vol[u]
      BY <2>9, <3>3, <1>2
      DEF ClaimCreatePV, Provisions, Reconciles, Kept, CacheFollowsClaim, VolumeKept, ReferenceKept
    <3>5. Advances
      BY <2>9, <3>1, <3>2, <3>4, <1>1, PVWritten DEF ClaimCreatePV
    <3>6. StepFollowsClaim'
      BY <2>9 DEF ClaimCreatePV, StepFollowsClaim
    <3> QED
      BY <3>5, <3>6
  <2>10. CASE ClaimStopPod(u)
    BY <2>10, <1>1, JobDeleted, StepKept DEF ClaimStopPod
  <2> QED
    BY <1>4, <2>1, <2>2, <2>3, <2>4, <2>5, <2>6, <2>7, <2>8, <2>9, <2>10 DEF ReconcileClaim
<1>5. ASSUME ClaimUnfinalize PROVE Advances /\ StepFollowsClaim'
  <2>1. claimStep.u \in Claim /\ claimStep.seen \in ClaimObj
    BY <1>5 DEF ClaimUnfinalize, TypeOK, ClaimSteps, Idle
  <2>2. CASE claims[claimStep.u] = claimStep.seen
    <3> DEFINE c == [claimStep.seen EXCEPT !.fin = FALSE]
    <3>1. c \in ClaimObj
      BY <2>1, ClaimUpdates, Zenon
    <3>2. c.del /\ ~c.prot /\ ~c.fin /\ ~c.guard
      BY <1>1, <1>5, <2>1 DEF ClaimUnfinalize, StepFollowsClaim, ClaimObj
    <3>3. PutClaim(claimStep.u, c)
      BY <1>5, <2>2 DEF ClaimUnfinalize
    <3>4. /\ cclaims[claimStep.u].st # "unborn"
          /\ cclaims[claimStep.u].st = "live" => cclaims[claimStep.u].del
      BY <1>1, <1>5 DEF ClaimUnfinalize, StepFollowsClaim
    <3> HIDE DEF c
    <3> QED
      BY <1>1, <1>5, <2>1, <3>1, <3>2, <3>3, <3>4, ClaimLetGo
      DEF ClaimUnfinalize, StepFollowsClaim, Idle
  <2>3. CASE claims[claimStep.u] # claimStep.seen
    BY <1>1, <1>5, <2>3, CacheRead DEF ClaimUnfinalize, StepFollowsClaim, Idle
  <2> QED
    BY <2>2, <2>3
<1>6. ASSUME ClaimReapPod PROVE Advances /\ StepFollowsClaim'
  <2>1. claimStep.u \in Claim
    BY <1>6 DEF ClaimReapPod, TypeOK, ClaimSteps, Idle
  <2> QED
    BY <1>1, <1>6, <2>1, JobDeleted DEF ClaimReapPod, StepFollowsClaim, Idle
<1> QED
  BY <1>3, <1>4, <1>5, <1>6 DEF PVCReconcile

LEMMA PVReconcileKept ==
  ASSUME TypeOK, AllKept, StepFollowsClaim, PVReconcile
  PROVE  Advances /\ StepFollowsClaim'
<1> USE DEF api, caches, steps
<1>1. PICK u \in Claim : ReconcilePV(u)
  BY DEF PVReconcile
<1>2. StepFollowsClaim'
  BY <1>1, StepKept
  DEF ReconcilePV, PVNotFound, PVWait, PVRemoveClaimRef, PVCreatePod,
      PVDisableDeprovisioner, PVDeletePod, PVUnfinalize
<1>3. /\ Kept(u) /\ pvs[u] \in PVObj /\ "deprovisioner" \in Kind
      /\ cclaims[u].st \in {"unborn", "live", "gone"}
  BY DEF AllKept, TypeOK, Kind, ClaimObj
<1>4. cpvs[u].st = "live" /\ ~cpvs[u].ref => cclaims[u].st = "gone"
  BY <1>3, SMTT(30) DEF Kept, ReferenceKept
<1>5. CASE PVNotFound(u)
  BY <1>2, <1>5, CacheRead DEF PVNotFound
<1>6. CASE PVWait(u)
  BY <1>2, <1>6, CacheRead DEF PVWait
<1>7. CASE PVRemoveClaimRef(u)
  <2>1. cpvs[u] = pvs[u] /\ pvs[u].st = "live" /\ pvs[u].fin /\ cclaims[u].st # "live"
    BY <1>7 DEF PVRemoveClaimRef, PVReconciles, PVUpToDate, MustWait, ClaimFound
  <2>2. cclaims[u].st = "gone"
    BY <1>3, <2>1 DEF Kept, SeenFirst
  <2> DEFINE p == [pvs[u] EXCEPT !.ref = FALSE]
  <2>3. p.fin /\ p.off => u \in freed
    BY <1>3, <2>1 DEF Kept, FreedKnown, PVObj
  <2>4. p.fin
    BY <1>3, <2>1 DEF PVObj
  <2>5. PutPV(u, p)
    BY <1>7, <2>1 DEF PVRemoveClaimRef
  <2> QED
    BY <1>2, <1>7, <2>1, <2>2, <2>3, <2>4, <2>5, PVFreed, Zenon DEF PVRemoveClaimRef
<1>8. CASE PVCreatePod(u)
  <2> DEFINE p == [NoPod EXCEPT !.st = "Running"]
  <2>1. p \in PodObj /\ p.st = "Running"
    BY Zenon DEF NoPod, PodObj
  <2>2. PutPod("deprovisioner", u, p)
    BY <1>8 DEF PVCreatePod, JobCreate
  <2> HIDE DEF p
  <2>3. cclaims[u].st = "gone"
    BY <1>4, <1>8, SMTT(30) DEF PVCreatePod, PVReconciles, CanDeprovision
  <2> QED
    BY <1>2, <1>3, <1>8, <2>1, <2>2, <2>3, PodWritten, Zenon DEF PVCreatePod, Stores
<1>9. CASE PVDisableDeprovisioner(u)
  <2>1. /\ cpvs[u] = pvs[u] /\ pvs[u].st = "live" /\ pvs[u].fin
        /\ cclaims[u].st = "gone" /\ cpods["deprovisioner"][u].st = "Succeeded"
    BY <1>4, <1>9
    DEF PVDisableDeprovisioner, PVReconciles, PVUpToDate, CanDeprovision,
        DeprovisionVerdict, JobVerdict
  <2>2. u \in freed
    BY <1>3, <2>1 DEF Kept, FreedKnown
  <2> DEFINE p == [pvs[u] EXCEPT !.off = TRUE]
  <2>3. p.fin
    BY <1>3, <2>1 DEF PVObj
  <2>4. PutPV(u, p)
    BY <1>9, <2>1 DEF PVDisableDeprovisioner
  <2> QED
    BY <1>2, <1>9, <2>1, <2>2, <2>3, <2>4, PVFreed, Zenon DEF PVDisableDeprovisioner
<1>10. CASE PVDeletePod(u)
  BY <1>2, <1>3, <1>10, JobDeleted DEF PVDeletePod
<1>11. CASE PVUnfinalize(u)
  <2>1. /\ cpvs[u] = pvs[u] /\ pvs[u].st = "live" /\ pvs[u].off /\ ~pvs[u].ref
        /\ cclaims[u].st = "gone"
    BY <1>4, <1>11 DEF PVUnfinalize, PVReconciles, PVUpToDate, CanDeprovision
  <2>2. u \in freed
    BY <1>3, <2>1 DEF Kept, FreedKnown
  <2> DEFINE p == [pvs[u] EXCEPT !.fin = FALSE]
  <2>3. ~p.ref /\ p.off
    BY <1>3, <2>1 DEF PVObj
  <2>4. PutPV(u, p)
    BY <1>11, <2>1 DEF PVUnfinalize
  <2> QED
    BY <1>2, <1>11, <2>1, <2>2, <2>3, <2>4, PVFreed, Zenon DEF PVUnfinalize
<1> QED
  BY <1>1, <1>5, <1>6, <1>7, <1>8, <1>9, <1>10, <1>11 DEF ReconcilePV

LEMMA PodReconcileKept ==
  ASSUME TypeOK, AllKept, StepFollowsClaim, PodReconcile
  PROVE  Advances /\ StepFollowsClaim'
<1> USE DEF api, caches, queues
<1>1. ASSUME NEW w \in Workload, PodTake(w) PROVE Advances /\ StepFollowsClaim'
  BY <1>1, CacheRead, StepKept DEF PodTake
<1>2. ASSUME NEW n \in Name, PodSkipClaim(n) PROVE Advances /\ StepFollowsClaim'
  BY <1>2, CacheRead, StepKept DEF PodSkipClaim
<1>3. ASSUME NEW n \in Name, PodDeleteClaim(n) PROVE Advances /\ StepFollowsClaim'
  <2>1. CASE UNCHANGED claims
    BY <1>3, <2>1, CacheRead, StepKept DEF PodDeleteClaim
  <2>2. ASSUME NEW u \in Claim, claims[u].st = "live", DeleteClaim(u)
        PROVE  Advances /\ StepFollowsClaim'
    BY <1>3, <2>2, ClaimUpdated, StepKept, Zenon DEF PodDeleteClaim, DeleteClaim, ClaimUpdate
  <2> QED
    BY <1>3, <2>1, <2>2 DEF PodDeleteClaim
<1>4. ASSUME NEW n \in Name, NEW u \in Claim, PodAnnotateClaim(n, u)
      PROVE  Advances /\ StepFollowsClaim'
  <2>1. StepFollowsClaim'
    BY <1>4, StepKept DEF PodAnnotateClaim
  <2>2. ASSUME cclaims[u] = claims[u] PROVE Advances
    <3>1. claims[u].st = "live" /\ PutClaim(u, [claims[u] EXCEPT !.noProt = TRUE])
      BY <1>4, <2>2 DEF PodAnnotateClaim, Annotates
    <3> QED
      BY <1>4, <3>1, ClaimUpdated, Zenon DEF PodAnnotateClaim, ClaimUpdate
  <2>3. ASSUME cclaims[u] # claims[u] PROVE Advances
    BY <1>4, <2>3, CacheRead DEF PodAnnotateClaim
  <2> QED
    BY <2>1, <2>2, <2>3
<1>5. ASSUME NEW n \in Name, NEW u \in Claim, PodFindsAnnotated(n, u)
      PROVE  Advances /\ StepFollowsClaim'
  BY <1>5, CacheRead, StepKept DEF PodFindsAnnotated
<1>6. ASSUME PodDone PROVE Advances /\ StepFollowsClaim'
  BY <1>6, CacheRead, StepKept DEF PodDone
<1> QED
  BY <1>1, <1>2, <1>3, <1>4, <1>5, <1>6 DEF PodReconcile

-----------------------------------------------------------------------------
(* The steps of the cluster, its users, the watches and the faults. *)

LEMMA UsersKept ==
  ASSUME TypeOK, AllKept, StepFollowsClaim, Users
  PROVE  Advances /\ StepFollowsClaim'
<1> USE DEF manager, caches, queues, steps
<1>1. ASSUME NEW u \in Claim, UserCreatesClaim(u) PROVE Advances /\ StepFollowsClaim'
  <2> DEFINE c == [NoClaim EXCEPT !.st = "live", !.prot = TRUE, !.env = TRUE,
                                  !.guard = u \in Guarded]
  <2>1. c \in ClaimObj
    <3>1. (u \in Guarded) \in BOOLEAN
      OBVIOUS
    <3> QED
      BY <3>1, NewObjects, Zenon
  <2>2. c.st = "live" /\ ~c.del /\ ~c.bound
    BY DEF NoClaim
  <2>3. PutClaim(u, c) /\ claims[u].st = "unborn"
    BY <1>1 DEF UserCreatesClaim
  <2> HIDE DEF c
  <2> QED
    BY <1>1, <2>1, <2>2, <2>3, ClaimBorn, StepKept DEF UserCreatesClaim
<1>2. ASSUME NEW u \in Claim,
             \/ UserDeletesClaim(u) \/ UserDropsAnnotation(u) \/ GuardLifted(u) \/ NodeSelected(u)
      PROVE  Advances /\ StepFollowsClaim'
  <2>1. \E c \in ClaimUpdate(claims[u]) : PutClaim(u, c)
    BY <1>2 DEF UserDeletesClaim, DeleteClaim, UserDropsAnnotation, GuardLifted,
                NodeSelected, ClaimUpdate
  <2>2. /\ claims[u].st = "live"
        /\ UNCHANGED <<pvs, pods, vol, freed, cclaims, cpvs, cpods, claimStep>>
    BY <1>2 DEF UserDeletesClaim, UserDropsAnnotation, GuardLifted, NodeSelected
  <2> QED
    BY <2>1, <2>2, ClaimUpdated, StepKept
<1>3. ASSUME NEW u \in Claim, UserDeletesPV(u) PROVE Advances /\ StepFollowsClaim'
  BY <1>3, PVUpdated, StepKept, Zenon DEF UserDeletesPV, DeletePV, PVUpdate
<1>4. ASSUME NEW w, NEW p, SetWork(w, p) PROVE Advances /\ StepFollowsClaim'
  BY <1>4, CacheRead, StepKept DEF SetWork
<1> QED
  BY <1>1, <1>2, <1>3, <1>4, Zenon
  DEF Users, UserCreatesWork, UserDeletesWork, WorkStarts, WorkEnds

LEMMA ClusterKept ==
  ASSUME TypeOK, AllKept, StepFollowsClaim, Cluster
  PROVE  Advances /\ StepFollowsClaim'
<1> USE DEF manager, caches, queues, steps
<1>1. ASSUME NEW u \in Claim,
             PVBound(u) \/ PVReleased(u) \/ PVAvailable(u) \/ PVUnprotected(u)
      PROVE  Advances /\ StepFollowsClaim'
  <2>1. \E p \in PVUpdate(pvs[u]) : PutPV(u, p)
    BY <1>1 DEF PVBound, PVReleased, PVAvailable, PVUnprotected, PVUpdate
  <2>2. /\ pvs[u].st = "live"
        /\ UNCHANGED <<claims, pods, vol, freed, cclaims, cpvs, cpods, claimStep>>
    BY <1>1 DEF PVBound, PVReleased, PVAvailable, PVUnprotected
  <2> QED
    BY <2>1, <2>2, PVUpdated, StepKept
<1>2. ASSUME NEW u \in Claim, ClaimUnprotected(u) PROVE Advances /\ StepFollowsClaim'
  BY <1>2, ClaimUpdated, StepKept, Zenon DEF ClaimUnprotected, ClaimUpdate
<1>3. ASSUME NEW u \in Claim, ClaimBound(u) PROVE Advances /\ StepFollowsClaim'
  <2> DEFINE c == [claims[u] EXCEPT !.bound = TRUE]
  <2>1. claims[u] \in ClaimObj
    BY DEF TypeOK
  <2>2. c \in ClaimObj
    BY <2>1, ClaimUpdates, Zenon
  <2>3. /\ c.st = claims[u].st
        /\ claims[u].del => c.del
        /\ claims[u].fin => c.fin
        /\ c.bound
    BY <2>1 DEF ClaimObj
  <2>4. PutClaim(u, c) /\ pvs[u].st = "live" /\ claims[u].st = "live"
    BY <1>3 DEF ClaimBound
  <2> HIDE DEF c
  <2> QED
    BY <1>3, <2>2, <2>3, <2>4, ClaimWritten, StepKept DEF ClaimBound
<1>4. ASSUME NEW k \in Kind, NEW u \in Claim, JobSucceeds(k, u) \/ JobFails(k, u)
      PROVE  Advances /\ StepFollowsClaim'
  <2>1. PICK st \in {"Succeeded", "Failed"} :
          /\ PutPod(k, u, [pods[k][u] EXCEPT !.st = st])
          /\ st = "Succeeded" => JobSucceeds(k, u)
          /\ st = "Failed" => JobFails(k, u)
    BY <1>4 DEF JobSucceeds, JobFails
  <2> DEFINE p == [pods[k][u] EXCEPT !.st = st]
  <2>2. pods[k][u] \in PodObj /\ Kept(u) /\ vol \in [Claim -> BOOLEAN]
    BY DEF TypeOK, AllKept
  <2>3. p \in PodObj /\ p.st = st
    BY <2>2, PodUpdates DEF PodObj
  <2>4. PutPod(k, u, p)
    BY <2>1
  <2> HIDE DEF p
  <2>5. /\ pods[k][u].st = "Running"
        /\ UNCHANGED <<claims, pvs, cclaims, cpvs, cpods, claimStep>>
    BY <1>4 DEF JobSucceeds, JobFails
  <2>6. /\ k = "provisioner" =>
             cclaims[u].st # "unborn" /\ (claims[u].st = "live" => claims[u].fin)
        /\ k = "deprovisioner" => cclaims[u].st = "gone"
    BY <2>2, <2>5 DEF Kept, SeenFirst, ReferenceKept
  <2>7. /\ k = "provisioner" /\ st = "Succeeded" => vol'[u]
        /\ k = "deprovisioner" /\ st = "Succeeded" => u \in freed'
    BY <2>1, <2>2, Zenon DEF JobSucceeds
  <2>8. Stores(k, u)
    <3>1. CASE k = "provisioner"
      BY <2>1, <3>1, Zenon DEF JobSucceeds, JobFails, Stores
    <3>2. CASE k = "deprovisioner"
      BY <2>1, <3>2, Zenon DEF JobSucceeds, JobFails, Stores
    <3> QED
      BY <3>1, <3>2 DEF Kind
  <2> QED
    BY <2>1, <2>3, <2>4, <2>5, <2>6, <2>7, <2>8, PodWritten, StepKept, SMTT(30)
<1>5. ASSUME NEW k \in Kind, NEW u \in Claim, JobRemoved(k, u) PROVE Advances /\ StepFollowsClaim'
  <2>1. NoPod \in PodObj /\ NoPod.st = "none"
    BY NoObjects DEF NoPod
  <2> QED
    BY <1>5, <2>1, PodWritten, StepKept, SMTT(30) DEF JobRemoved, Stores
<1> QED
  BY <1>1, <1>2, <1>3, <1>4, <1>5 DEF Cluster

LEMMA WatchKept ==
  ASSUME TypeOK, AllKept, StepFollowsClaim, Watch
  PROVE  Advances /\ StepFollowsClaim'
<1> USE DEF api, caches, queues, steps
<1>1. Advances
  BY CacheRead, Zenon, SMTT(30) DEF Watch, SyncClaims, SyncPVs, SyncPods, Resync, Learn
<1>2. CASE cclaims' = claims /\ UNCHANGED <<claims, claimStep>>
  <2> SUFFICES ASSUME claimStep.at = "unfinalize" PROVE StepFollowsClaim'
    BY <1>1, <1>2 DEF StepFollowsClaim
  <2>1. claimStep.u \in Claim
    BY DEF TypeOK, ClaimSteps, Idle
  <2>2. Kept(claimStep.u) /\ cclaims[claimStep.u].st \in {"unborn", "live", "gone"}
    BY <2>1 DEF AllKept, TypeOK, ClaimObj
  <2>3. claims[claimStep.u].st # "unborn" /\ (claims[claimStep.u].st = "live" => claims[claimStep.u].del)
    BY <2>2 DEF StepFollowsClaim, Kept, CacheFollowsClaim
  <2> QED
    BY <1>2, <2>3 DEF StepFollowsClaim
<1>3. CASE UNCHANGED <<cclaims, claimStep>>
  BY <1>1, <1>3, StepKept
<1>4. (cclaims' = claims /\ UNCHANGED <<claims, claimStep>>) \/ UNCHANGED <<cclaims, claimStep>>
  BY Zenon DEF Watch, SyncClaims, SyncPVs, SyncPods, Resync, Learn
<1> QED
  BY <1>1, <1>2, <1>3, <1>4

LEMMA FaultKept ==
  ASSUME TypeOK, AllKept, StepFollowsClaim, Fault
  PROVE  Advances /\ StepFollowsClaim'
<1> USE DEF api, caches, queues, steps
<1>1. CASE Restart
  BY <1>1, RestartedKept DEF Restart
<1>2. CASE Forget
  BY <1>2, CacheRead, StepKept DEF Forget
<1>3. CASE ClaimStepFails
  <2>1. StepFollowsClaim'
    BY <1>3 DEF ClaimStepFails, StepFollowsClaim, Idle
  <2> QED
    BY <1>3, <2>1, CacheRead DEF ClaimStepFails
<1>4. ASSUME NEW n \in Name, PodWriteFails(n) PROVE Advances /\ StepFollowsClaim'
  BY <1>4, CacheRead, StepKept DEF PodWriteFails
<1> QED
  BY <1>1, <1>2, <1>3, <1>4 DEF Fault

-----------------------------------------------------------------------------

LEMMA InitConsistent == Init => Consistent
<1> SUFFICES ASSUME Init PROVE StepFollowsClaim /\ AllKept
  BY ConsistentParts
<1>1. StepFollowsClaim
  BY DEF Init, StepFollowsClaim, Idle
<1>2. ASSUME NEW u \in Claim
      PROVE  /\ claims[u].st = "unborn" /\ cclaims[u].st = "unborn" /\ pvs[u].st = "none" /\ cpvs[u].st = "none"
             /\ \A k \in Kind : pods[k][u].st = "none" /\ cpods[k][u].st = "none"
  <2>1. /\ claims = [v \in Claim |-> NoClaim] /\ cclaims = claims
        /\ pvs = [v \in Claim |-> NoPV] /\ cpvs = pvs
    BY Zenon DEF Init
  <2>2. pods = [k \in Kind |-> [v \in Claim |-> NoPod]] /\ cpods = pods
    BY Zenon DEF Init
  <2>3. claims[u].st = "unborn" /\ cclaims[u].st = "unborn" /\ pvs[u].st = "none" /\ cpvs[u].st = "none"
    BY <2>1 DEF NoClaim, NoPV
  <2>4. \A k \in Kind : pods[k][u].st = "none" /\ cpods[k][u].st = "none"
    BY <2>2 DEF NoPod
  <2> QED
    BY <2>3, <2>4, Zenon
<1>3. ASSUME NEW u \in Claim PROVE Kept(u)
  <2>1. "provisioner" \in Kind /\ "deprovisioner" \in Kind
    BY DEF Kind
  <2>2. /\ pods["provisioner"][u].st = "none" /\ cpods["provisioner"][u].st = "none"
        /\ pods["deprovisioner"][u].st = "none" /\ cpods["deprovisioner"][u].st = "none"
    BY <1>2, <2>1, Zenon
  <2>3. claims[u].st = "unborn" /\ cclaims[u].st = "unborn" /\ pvs[u].st = "none" /\ cpvs[u].st = "none"
    BY <1>2, Zenon
  <2> QED
    BY <2>2, <2>3, Zenon
    DEF Kept, CacheFollowsClaim, SeenFirst, ReferenceKept, VolumeKept, FreedKnown
<1> QED
  BY <1>1, <1>3 DEF AllKept

LEMMA NextAdvances ==
  ASSUME TypeOK, Consistent, [Next]_vars
  PROVE  Consistent' /\ LifeStep
<1> SUFFICES ASSUME TypeOK, AllKept, StepFollowsClaim, [Next]_vars
             PROVE  Advances /\ StepFollowsClaim'
  BY ConsistentParts DEF Advances
<1>1. CASE UNCHANGED vars
  BY <1>1, CacheRead, StepKept DEF vars
<1> QED
  BY <1>1, PVCReconcileKept, PVReconcileKept, PodReconcileKept, UsersKept, ClusterKept,
     WatchKept, FaultKept, Zenon DEF Next

\* The caches never run ahead of the API server, nothing is made for a claim
\* before its finalizer, and the claim's reference, directory and record of
\* being freed follow from each other, in every reachable state.
THEOREM AlwaysConsistent == Spec => []Consistent
<1>1. Init => TypeOK /\ Consistent
  BY InitType, InitConsistent
<1>2. TypeOK /\ Consistent /\ [Next]_vars => TypeOK' /\ Consistent'
  BY NextType, NextAdvances
<1> QED
  BY <1>1, <1>2, PTL DEF Spec

\* However many claims share a name and however stale its reads are, the volume
\* controller runs a deprovisioner for a volume only when the volume's own claim
\* is gone.
THEOREM DeprovisioningIsSafe == Spec => []DeprovisionAfterClaim
<1>1. Consistent => DeprovisionAfterClaim
  BY Zenon DEF Consistent, ReferenceKept, CacheFollowsClaim, DeprovisionAfterClaim
<1> QED
  BY <1>1, AlwaysConsistent, PTL

\* A bound claim has its directory, for as long as it lives.
THEOREM BoundClaimsAreBacked == Spec => []BoundClaimHasVolume
<1>1. Consistent => BoundClaimHasVolume
  BY Zenon DEF Consistent, VolumeKept, BoundClaimHasVolume
<1> QED
  BY <1>1, AlwaysConsistent, PTL

\* The claim controller's finalizer comes first and goes last.
THEOREM FinalizersComeFirst == Spec => []FinalizerFirst
<1>1. Consistent => FinalizerFirst
  BY DEF Consistent
<1> QED
  BY <1>1, AlwaysConsistent, PTL

\* No volume object disappears without a deprovisioner that succeeded.
THEOREM NothingIsForgotten == Spec => []FreedBeforeForgotten
<1>1. Consistent => FreedBeforeForgotten
  BY Zenon DEF Consistent, FreedKnown, FreedBeforeForgotten
<1> QED
  BY <1>1, AlwaysConsistent, PTL

\* Provisioning implements VolumeLifecycle: every volume goes through the life
\* its users are promised, for any number of claims and under every fault.
THEOREM ProvisioningImplementsLifecycle == Spec => LifecycleKept
<1>1. Init => Lifecycle!Init
  <2> SUFFICES ASSUME Init PROVE Lifecycle!Init
    OBVIOUS
  <2>1. claims = [u \in Claim |-> NoClaim] /\ pvs = [u \in Claim |-> NoPV]
    BY Zenon DEF Init
  <2>2. vol = [u \in Claim |-> FALSE] /\ freed = {}
    BY Zenon DEF Init
  <2>3. \A u \in Claim : Life(claims[u]) = "unborn" /\ pvs[u].st = "none"
    BY <2>1 DEF NoClaim, NoPV, Life
  <2> QED
    BY <2>2, <2>3, Zenon DEF Lifecycle!Init
<1>2. TypeOK /\ Consistent /\ [Next]_vars => LifeStep
  BY NextAdvances
<1> QED
  BY <1>1, <1>2, TypeCorrect, AlwaysConsistent, PTL DEF Spec, LifeStep, LifecycleKept, Lifecycle!Spec

=============================================================================
