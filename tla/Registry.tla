------------------------------ MODULE Registry ------------------------------
(***************************************************************************)
(* The registry of StorageProvisioners that the other controllers look     *)
(* provisioners up in (storageprovisioner_registry.go), the controller     *)
(* that keeps it (storageprovisioner_controller.go), and the load of it    *)
(* when the manager starts.                                                *)
(*                                                                         *)
(* Validation is a property of a specification: a provisioner is valid or  *)
(* it is not.  The reads of a reconciliation and its status update are one *)
(* step: an object that changes in between is an object that changed       *)
(* before, but whose change the manager has not seen.                      *)
(***************************************************************************)
EXTENDS Naturals

CONSTANTS
  Obj,        \* names of StorageProvisioner objects
  Key,        \* provisioner names, spec.name
  EmptyName,  \* the name in a zero StorageProvisioner
  MaxVersion  \* bound: specifications that users store

\* A StorageClass cannot refer to a provisioner with an empty name.
ASSUME RegistryAssumption == EmptyName \notin Key /\ MaxVersion \in Nat

VARIABLES
  objs,    \* StorageProvisioner objects in the API server
  cobjs,   \* ... in the cache of the manager
  reg,     \* ProvisionerRegistry.provisioners
  listed,  \* objects that a starting manager has listed and not yet put
  queue,   \* work queue of the controller
  version  \* the latest specification stored

vars == <<objs, cobjs, reg, listed, queue, version>>

-----------------------------------------------------------------------------

\* ver: the specification, numbered over all objects.  cond, seen: the
\* condition Configured (its status and reason) and its observedGeneration.
Object == [st : {"none", "live"}, ver : Nat, key : Key \cup {EmptyName}, valid : BOOLEAN,
           cond : {"none", "configured", "invalid", "duplicate"}, seen : Nat]

NoObject == [st |-> "none", ver |-> 0, key |-> EmptyName, valid |-> FALSE,
             cond |-> "none", seen |-> 0]

\* by: the object a key is set to.  A disabled key is mapped to nil.
Entry == [st : {"absent", "disabled", "set"}, by : SUBSET Obj, ver : Nat]

NoEntry  == [st |-> "absent", by |-> {}, ver |-> 0]
Disabled == [st |-> "disabled", by |-> {}, ver |-> 0]

Empty == [k \in Key \cup {EmptyName} |-> NoEntry]

\* Mutant of Rejects: a key that is disabled is free again.
RejectsOther(r, o, x) == r[x.key].st = "set" /\ r[x.key].by # {o}

\* Another object has the key, or it is disabled.
Rejects(r, o, x) == r[x.key].st # "absent" /\ r[x.key].by # {o}

ValidateProvisioner(x) == x.valid

PutVerdict(r, o, x) ==
  CASE ~ValidateProvisioner(x) -> "invalid"
    [] ValidateProvisioner(x) /\ Rejects(r, o, x) -> "duplicate"
    [] OTHER -> "configured"

\* Mutant of Put: the entry is named after the provisioner, not the object.
PutByProvisioner(r, o, x) ==
  CASE PutVerdict(r, o, x) = "invalid"   -> r
    [] PutVerdict(r, o, x) = "duplicate" -> [r EXCEPT ![x.key] = Disabled]
    [] OTHER -> [r EXCEPT ![x.key] = [st |-> "set", by |-> {x.key}, ver |-> x.ver]]

\* Mutant of Put: the copy that is registered is not replaced.
PutOnce(r, o, x) ==
  CASE PutVerdict(r, o, x) = "invalid"   -> r
    [] PutVerdict(r, o, x) = "duplicate" -> [r EXCEPT ![x.key] = Disabled]
    [] OTHER -> IF r[x.key].st = "set" THEN r
                ELSE [r EXCEPT ![x.key] = [st |-> "set", by |-> {o}, ver |-> x.ver]]

Put(r, o, x) ==
  CASE PutVerdict(r, o, x) = "invalid"   -> r
    [] PutVerdict(r, o, x) = "duplicate" -> [r EXCEPT ![x.key] = Disabled]
    [] OTHER -> [r EXCEPT ![x.key] = [st |-> "set", by |-> {o}, ver |-> x.ver]]

Delete(r, x) == [r EXCEPT ![x.key] = NoEntry]

-----------------------------------------------------------------------------
(* Users and the cluster. *)

\* A specification is created or updated; the condition of an object stays.
UserPuts(o, k, valid) ==
  /\ version < MaxVersion
  /\ version' = version + 1
  /\ objs' = [objs EXCEPT ![o] =
       [@ EXCEPT !.st = "live", !.ver = version + 1, !.key = k, !.valid = valid]]
  /\ UNCHANGED <<cobjs, reg, listed, queue>>

UserDeletes(o) ==
  /\ objs[o].st = "live"
  /\ objs' = [objs EXCEPT ![o] = NoObject]
  /\ UNCHANGED <<cobjs, reg, listed, queue, version>>

\* The manager was started: the registry is loaded before the caches are filled.
Loaded == \A o \in Obj : listed[o].st = "none"

\* The manager learns of a change.
Sync(o) ==
  /\ Loaded /\ cobjs[o] # objs[o]
  /\ cobjs' = [cobjs EXCEPT ![o] = objs[o]]
  /\ queue' = queue \cup {o}
  /\ UNCHANGED <<objs, reg, listed, version>>

\* The manager starts over, and lists the objects.  To stop while it loads
\* them is to start later.
Restart ==
  /\ Loaded
  /\ reg' = Empty /\ listed' = objs
  /\ cobjs' = [o \in Obj |-> NoObject]
  /\ queue' = {}
  /\ UNCHANGED <<objs, version>>

\* The next object of the list, in whatever order.
LoadProvisioners(o) ==
  /\ listed[o].st = "live"
  /\ reg' = Put(reg, o, listed[o])
  /\ listed' = [listed EXCEPT ![o] = NoObject]
  /\ UNCHANGED <<objs, cobjs, queue, version>>

\* The periodic resync of the cache.
Resync ==
  /\ queue' = queue \cup {o \in Obj : cobjs[o].st = "live"}
  /\ UNCHANGED <<objs, cobjs, reg, listed, version>>

-----------------------------------------------------------------------------
(* The controller. *)

\* Mutant of SetCondition: the generation is not compared.
SetConditionSameStatus(x, verdict) == x.cond # verdict

\* Is the condition another one than before?
SetCondition(x, verdict) == x.cond # verdict \/ x.seen # x.ver

\* The object that Get did not find is a zero one.
ReconcileDeleted(o) ==
  /\ o \in queue /\ cobjs[o].st = "none"
  /\ reg' = Delete(reg, NoObject)
  /\ queue' = queue \ {o}
  /\ UNCHANGED <<objs, cobjs, listed, version>>

\* A status update that conflicts or fails is made in another attempt, after
\* the object was put once more.
ReconcileObject(o) ==
  LET x == cobjs[o]
      verdict == PutVerdict(reg, o, x)
  IN
  /\ o \in queue /\ x.st = "live"
  /\ reg' = Put(reg, o, x)
  /\ \/ /\ ~SetCondition(x, verdict)
        /\ queue' = queue \ {o}
        /\ UNCHANGED objs
     \/ /\ SetCondition(x, verdict) /\ x = objs[o]
        /\ queue' = queue \ {o}
        /\ objs' = [objs EXCEPT ![o] = [@ EXCEPT !.cond = verdict, !.seen = x.ver]]
     \/ /\ SetCondition(x, verdict)
        /\ UNCHANGED <<objs, queue>>
  /\ UNCHANGED <<cobjs, listed, version>>

-----------------------------------------------------------------------------

Init ==
  /\ objs = [o \in Obj |-> NoObject]
  /\ cobjs = [o \in Obj |-> NoObject]
  /\ reg = Empty /\ listed = [o \in Obj |-> NoObject]
  /\ queue = {} /\ version = 0

Next ==
  \/ Restart \/ Resync
  \/ \E o \in Obj :
       \/ \E k \in Key, valid \in BOOLEAN : UserPuts(o, k, valid)
       \/ UserDeletes(o) \/ LoadProvisioners(o) \/ Sync(o) \/ ReconcileDeleted(o) \/ ReconcileObject(o)

Spec == Init /\ [][Next]_vars

\* The manager loads its list; the watch delivers, even if the manager is
\* started over and over; the queue is worked off; and a status update that is
\* tried again and again on the object as it is succeeds at last.
Fairness ==
  \A o \in Obj :
    /\ WF_vars(LoadProvisioners(o)) /\ SF_vars(Sync(o))
    /\ WF_vars(ReconcileDeleted(o)) /\ WF_vars(ReconcileObject(o))
    /\ SF_vars(ReconcileObject(o) /\ objs'[o] # objs[o])

FairSpec == Spec /\ Fairness

-----------------------------------------------------------------------------
(* Properties. *)

\* The values the registry, its controller and the objects they watch hold.
TypeOK ==
  /\ objs \in [Obj -> Object] /\ cobjs \in [Obj -> Object]
  /\ reg \in [Key \cup {EmptyName} -> Entry] /\ listed \in [Obj -> Object]
  /\ queue \subseteq Obj /\ version \in 0..MaxVersion

\* The manager has seen, and reconciled, the latest o.
Settled(o) == cobjs[o] = objs[o] /\ o \notin queue

Claims(o, k) == objs[o].st = "live" /\ objs[o].valid /\ objs[o].key = k

\* Put disables a key that two objects claim: once both were reconciled, no
\* lookup of Get answers with one of them, however they came to claim it,
\* through updates, deletions, lost status updates and restarts.
AmbiguousIsDisabled ==
  \A k \in Key : \A o, p \in Obj :
    o # p /\ Claims(o, k) /\ Claims(p, k) /\ Settled(o) /\ Settled(p) => reg[k].st # "set"

\* Put replaces the copy of an object that is registered: once it was
\* reconciled, Get answers with its latest specification.
LatestIsUsed ==
  \A o \in Obj :
    Claims(o, objs[o].key) /\ Settled(o) /\ reg[objs[o].key].by = {o}
      => reg[objs[o].key].ver = objs[o].ver

\* Whatever an object goes through, once the manager has reconciled it as it
\* is, its name is disabled or resolves to that very specification (Put,
\* Reconcile), and nothing is cached before the registry was loaded
\* (loadProvisioners): the inductive invariant.
RegistryConsistent ==
  /\ Loaded \/ \A o \in Obj : cobjs[o].st = "none"
  /\ \A o \in Obj :
       /\ objs[o].ver <= version /\ cobjs[o].ver <= version
       /\ objs[o].st = "live" => objs[o].key \in Key
       /\ Settled(o) /\ Claims(o, objs[o].key) =>
            reg[objs[o].key] \in {Disabled, [st |-> "set", by |-> {o}, ver |-> objs[o].ver]}

\* Reconcile writes the condition of every specification that stays: users
\* learn whether their latest change was taken.
StatusCatchesUp ==
  \A o \in Obj : []<>(objs[o].st = "none" \/ objs[o].seen = objs[o].ver)

=============================================================================
