--------------------------- MODULE RegistryProofs ---------------------------
(***************************************************************************)
(* Proofs about the registry of provisioners, for any objects and names and *)
(* any number of edits: it never resolves a name that two objects claim,   *)
(* and always resolves to the latest specification it was given.           *)
(***************************************************************************)
EXTENDS Registry, TLAPS

Inv == TypeOK /\ RegistryConsistent

-----------------------------------------------------------------------------

\* Put changes no entry but that of the object's name.
LEMMA PutElsewhere ==
  ASSUME NEW r \in [Key \cup {EmptyName} -> Entry], NEW o \in Obj, NEW x \in Object,
         NEW l \in Key \cup {EmptyName}, l # x.key
  PROVE  Put(r, o, x)[l] = r[l]
<1>1. \A e : [r EXCEPT ![x.key] = e][l] = r[l]
  OBVIOUS
<1> QED
  BY <1>1, Zenon DEF Put

\* What Put leaves of that entry: it is disabled or the object's own, unless
\* the object is invalid.
LEMMA PutEffect ==
  ASSUME NEW r \in [Key \cup {EmptyName} -> Entry], NEW o \in Obj, NEW x \in Object
  PROVE  /\ Put(r, o, x) \in [Key \cup {EmptyName} -> Entry]
         /\ ~x.valid => Put(r, o, x) = r
         /\ x.valid => Put(r, o, x)[x.key] \in {Disabled, [st |-> "set", by |-> {o}, ver |-> x.ver]}
<1> DEFINE own == [st |-> "set", by |-> {o}, ver |-> x.ver]
<1>0. x.key \in Key \cup {EmptyName} /\ x.ver \in Nat /\ x.valid \in BOOLEAN
  BY DEF Object
<1>1. Disabled \in Entry /\ own \in Entry
  BY <1>0 DEF Disabled, Entry
<1>2. CASE ~x.valid
  <2>1. Put(r, o, x) = r
    BY <1>2 DEF Put, PutVerdict, ValidateProvisioner
  <2> QED
    BY <1>2, <2>1
<1>3. CASE x.valid /\ Rejects(r, o, x)
  <2>1. PutVerdict(r, o, x) = "duplicate"
    BY <1>3 DEF PutVerdict, ValidateProvisioner
  <2>2. Put(r, o, x) = [r EXCEPT ![x.key] = Disabled]
    BY <2>1 DEF Put
  <2> QED
    BY <1>0, <1>1, <1>3, <2>2
<1>4. CASE x.valid /\ ~Rejects(r, o, x)
  <2>1. PutVerdict(r, o, x) = "configured"
    BY <1>4 DEF PutVerdict, ValidateProvisioner
  <2>2. Put(r, o, x) = [r EXCEPT ![x.key] = own]
    BY <2>1 DEF Put
  <2> QED
    BY <1>0, <1>1, <1>4, <2>2
<1> QED
  BY <1>0, <1>2, <1>3, <1>4

\* Put disables a name that another object has, or that is disabled.
LEMMA PutDisables ==
  ASSUME NEW r \in [Key \cup {EmptyName} -> Entry], NEW o \in Obj, NEW x \in Object,
         x.valid, r[x.key].st # "absent", r[x.key].by # {o}
  PROVE  Put(r, o, x)[x.key] = Disabled
<1>1. x.key \in Key \cup {EmptyName}
  BY DEF Object
<1>2. PutVerdict(r, o, x) = "duplicate"
  BY DEF PutVerdict, ValidateProvisioner, Rejects
<1>3. Put(r, o, x) = [r EXCEPT ![x.key] = Disabled]
  BY <1>2 DEF Put
<1> QED
  BY <1>1, <1>3

\* The verdict on an object is one of the conditions.
LEMMA VerdictType ==
  ASSUME NEW r, NEW o, NEW x PROVE PutVerdict(r, o, x) \in {"configured", "invalid", "duplicate"}
BY DEF PutVerdict

-----------------------------------------------------------------------------

LEMMA InitInv == Init => Inv
<1> SUFFICES ASSUME Init PROVE Inv
  OBVIOUS
<1>1. NoObject \in Object /\ NoEntry \in Entry
  BY DEF NoObject, NoEntry, Object, Entry
<1>2. TypeOK
  BY <1>1, RegistryAssumption DEF Init, TypeOK, Empty
<1>3. RegistryConsistent
  BY DEF Init, RegistryConsistent, Loaded, Claims, NoObject
<1> QED
  BY <1>2, <1>3 DEF Inv

LEMMA TypeKept == TypeOK /\ [Next]_vars => TypeOK'
<1> SUFFICES ASSUME TypeOK, [Next]_vars PROVE TypeOK'
  OBVIOUS
<1> USE RegistryAssumption
<1>0. NoObject \in Object /\ NoEntry \in Entry /\ NoObject.key = EmptyName
  BY DEF NoObject, NoEntry, Object, Entry
<1>1. CASE Restart
  BY <1>0, <1>1 DEF Restart, TypeOK, Empty
<1>2. CASE Resync
  BY <1>2 DEF Resync, TypeOK
<1>3. ASSUME NEW o \in Obj, NEW k \in Key, NEW valid \in BOOLEAN, UserPuts(o, k, valid) PROVE TypeOK'
  <2> DEFINE x == [objs[o] EXCEPT !.st = "live", !.ver = version + 1, !.key = k, !.valid = valid]
  <2>1. x \in Object
    <3>1. objs[o] \in Object /\ version + 1 \in Nat /\ k \in Key \cup {EmptyName}
      BY DEF TypeOK
    <3> QED
      BY <3>1, Zenon DEF Object
  <2>2. objs' = [objs EXCEPT ![o] = x] /\ version' = version + 1 /\ version < MaxVersion
        /\ UNCHANGED <<cobjs, reg, listed, queue>>
    BY <1>3, Zenon DEF UserPuts
  <2> QED
    BY <2>1, <2>2 DEF TypeOK
<1>4. ASSUME NEW o \in Obj, UserDeletes(o) PROVE TypeOK'
  BY <1>0, <1>4 DEF UserDeletes, TypeOK
<1>5. ASSUME NEW o \in Obj, LoadProvisioners(o) PROVE TypeOK'
  <2>1. listed[o] \in Object /\ reg \in [Key \cup {EmptyName} -> Entry]
    BY DEF TypeOK
  <2>2. reg' \in [Key \cup {EmptyName} -> Entry]
    BY <1>5, <2>1, PutEffect, Zenon DEF LoadProvisioners
  <2> QED
    BY <1>0, <1>5, <2>2 DEF LoadProvisioners, TypeOK
<1>6. ASSUME NEW o \in Obj, Sync(o) PROVE TypeOK'
  BY <1>6 DEF Sync, TypeOK
<1>7. ASSUME NEW o \in Obj, ReconcileDeleted(o) PROVE TypeOK'
  BY <1>0, <1>7 DEF ReconcileDeleted, Delete, TypeOK
<1>8. ASSUME NEW o \in Obj, ReconcileObject(o) PROVE TypeOK'
  <2> DEFINE verdict == PutVerdict(reg, o, cobjs[o])
             y == [objs[o] EXCEPT !.cond = verdict, !.seen = cobjs[o].ver]
  <2>1. cobjs[o] \in Object /\ reg \in [Key \cup {EmptyName} -> Entry] /\ objs[o] \in Object
    BY DEF TypeOK
  <2>2. reg' \in [Key \cup {EmptyName} -> Entry]
    BY <1>8, <2>1, PutEffect, Zenon DEF ReconcileObject
  <2>3. y \in Object
    <3>1. verdict \in {"configured", "invalid", "duplicate"} /\ cobjs[o].ver \in Nat
      BY <2>1, VerdictType DEF Object
    <3> QED
      BY <2>1, <3>1, Zenon DEF Object
  <2>4. objs' \in {objs, [objs EXCEPT ![o] = y]} /\ queue' \in {queue, queue \ {o}}
        /\ UNCHANGED <<cobjs, listed, version>>
    BY <1>8, Zenon DEF ReconcileObject
  <2>5. objs' \in [Obj -> Object]
    BY <2>3, <2>4 DEF TypeOK
  <2> QED
    BY <2>2, <2>4, <2>5 DEF TypeOK
<1>9. CASE UNCHANGED vars
  BY <1>9 DEF vars, TypeOK
<1> QED
  BY <1>1, <1>2, <1>3, <1>4, <1>5, <1>6, <1>7, <1>8, <1>9, Zenon DEF Next

-----------------------------------------------------------------------------
(* Once an object was reconciled. *)

\* The entry that the name of a reconciled object has.
Answered(o) ==
  Settled(o) /\ Claims(o, objs[o].key) =>
    reg[objs[o].key] \in {Disabled, [st |-> "set", by |-> {o}, ver |-> objs[o].ver]}

\* What is true of each object beside its entry.
Numbered(o) ==
  /\ objs[o].ver <= version /\ cobjs[o].ver <= version
  /\ objs[o].st = "live" => objs[o].key \in Key

LEMMA ConsistentParts ==
  RegistryConsistent <=>
    /\ Loaded \/ \A o \in Obj : cobjs[o].st = "none"
    /\ \A o \in Obj : Numbered(o) /\ Answered(o)
BY Zenon DEF RegistryConsistent, Numbered, Answered

\* A step that changes neither an object, nor its copy, nor its entry, and
\* does not take it from the queue.
LEMMA AnsweredStays ==
  ASSUME NEW o \in Obj, Answered(o),
         objs'[o] = objs[o], cobjs'[o] = cobjs[o], o \in queue => o \in queue',
         Claims(o, objs[o].key) => reg'[objs[o].key] = reg[objs[o].key]
  PROVE  Answered(o)'
BY Zenon DEF Answered, Settled, Claims

\* An object whose copy is another one now, or that is gone, need not be answered.
LEMMA NotSettled ==
  ASSUME NEW o \in Obj, cobjs'[o] # objs'[o] \/ objs'[o].st # "live" \/ o \in queue'
  PROVE  Answered(o)'
BY DEF Answered, Settled, Claims

\* To put one object does not change the answer for another, but by disabling
\* the name of both.
LEMMA PutKeepsOthers ==
  ASSUME TypeOK, NEW o \in Obj, NEW p \in Obj, o # p, NEW x \in Object,
         Answered(o), reg' = Put(reg, p, x),
         objs'[o] = objs[o], cobjs'[o] = cobjs[o], o \in queue => o \in queue'
  PROVE  Answered(o)'
<1> SUFFICES ASSUME Settled(o), Claims(o, objs[o].key)
             PROVE  Answered(o)'
  BY DEF Answered, Settled, Claims
<1> DEFINE k == objs[o].key
           own == [st |-> "set", by |-> {o}, ver |-> objs[o].ver]
<1>0. k \in Key \cup {EmptyName} /\ reg \in [Key \cup {EmptyName} -> Entry]
  BY DEF TypeOK, Object
<1>1. reg[k] \in {Disabled, own}
  BY DEF Answered
<1>2. /\ \A l \in Key \cup {EmptyName} : l # x.key => reg'[l] = reg[l]
      /\ ~x.valid => reg' = reg
      /\ x.valid /\ reg[x.key].st # "absent" /\ reg[x.key].by # {p} => reg'[x.key] = Disabled
  <2>1. \A l \in Key \cup {EmptyName} : l # x.key => Put(reg, p, x)[l] = reg[l]
    BY <1>0, PutElsewhere, Zenon
  <2>2. ~x.valid => Put(reg, p, x) = reg
    BY <1>0, PutEffect, Zenon
  <2>3. x.valid /\ reg[x.key].st # "absent" /\ reg[x.key].by # {p} => Put(reg, p, x)[x.key] = Disabled
    BY <1>0, PutDisables, Zenon
  <2> QED
    BY <2>1, <2>2, <2>3, Zenon
<1>3. reg[k].st # "absent" /\ reg[k].by # {p}
  BY <1>1 DEF Disabled
<1>4. reg'[k] = reg[k] \/ reg'[k] = Disabled
  BY <1>0, <1>2, <1>3, Zenon
<1> QED
  BY <1>1, <1>4, Zenon DEF Answered

-----------------------------------------------------------------------------

LEMMA ConsistentKept == Inv /\ TypeOK' /\ [Next]_vars => RegistryConsistent'
<1> SUFFICES ASSUME Inv, TypeOK', [Next]_vars
             PROVE  /\ Loaded' \/ \A o \in Obj : cobjs'[o].st = "none"
                    /\ \A o \in Obj : Numbered(o)' /\ Answered(o)'
  BY Zenon DEF RegistryConsistent, Numbered, Answered
<1> USE RegistryAssumption
<1>0. TypeOK /\ \A o \in Obj : Numbered(o) /\ Answered(o)
  BY ConsistentParts, Zenon DEF Inv
<1>a. Loaded \/ \A o \in Obj : cobjs[o].st = "none"
  BY ConsistentParts, Zenon DEF Inv
<1>b. NoObject.st = "none" /\ NoObject.ver = 0 /\ NoObject.key = EmptyName
  BY DEF NoObject
<1>c. version \in Nat
  BY <1>0 DEF TypeOK
<1>1. CASE Restart
  <2>1. \A o \in Obj : cobjs'[o] = NoObject /\ objs'[o] = objs[o] /\ version' = version
    BY <1>1 DEF Restart
  <2> QED
    BY <1>0, <1>b, <1>c, <2>1, NotSettled DEF Numbered
<1>2. CASE Resync
  <2>1. queue \subseteq queue' /\ UNCHANGED <<objs, cobjs, reg, listed, version>>
    BY <1>2 DEF Resync
  <2>2. \A o \in Obj : Answered(o)'
    BY <1>0, <2>1, AnsweredStays
  <2> QED
    BY <1>0, <1>a, <2>1, <2>2 DEF Numbered, Loaded
<1>3. ASSUME NEW p \in Obj, NEW k \in Key, NEW valid \in BOOLEAN, UserPuts(p, k, valid)
      PROVE  /\ Loaded' \/ \A o \in Obj : cobjs'[o].st = "none"
             /\ \A o \in Obj : Numbered(o)' /\ Answered(o)'
  <2>1. /\ version' = version + 1 /\ UNCHANGED <<cobjs, reg, listed, queue>>
        /\ \A o \in Obj \ {p} : objs'[o] = objs[o]
    BY <1>0, <1>3 DEF UserPuts, TypeOK
  <2>2. objs'[p].ver = version + 1 /\ objs'[p].key = k
    BY <1>0, <1>3 DEF UserPuts, TypeOK, Object
  <2>3. cobjs[p].ver \in Nat /\ cobjs[p].ver <= version
    BY <1>0 DEF TypeOK, Object, Numbered
  <2>4. cobjs'[p] # objs'[p]
    BY <1>c, <2>1, <2>2, <2>3
  <2>5. \A o \in Obj : Answered(o)'
    BY <1>0, <2>1, <2>4, AnsweredStays, NotSettled
  <2>6. \A o \in Obj : objs[o].ver \in Nat /\ cobjs[o].ver \in Nat
    BY <1>0 DEF TypeOK, Object
  <2>7. \A o \in Obj : Numbered(o)'
    BY <1>0, <1>c, <2>1, <2>2, <2>6 DEF Numbered
  <2> QED
    BY <1>a, <2>1, <2>5, <2>7 DEF Loaded
<1>4. ASSUME NEW p \in Obj, UserDeletes(p)
      PROVE  /\ Loaded' \/ \A o \in Obj : cobjs'[o].st = "none"
             /\ \A o \in Obj : Numbered(o)' /\ Answered(o)'
  <2>1. /\ objs'[p] = NoObject /\ UNCHANGED <<cobjs, reg, listed, queue, version>>
        /\ \A o \in Obj \ {p} : objs'[o] = objs[o]
    BY <1>0, <1>4 DEF UserDeletes, TypeOK
  <2>2. \A o \in Obj : Answered(o)'
    BY <1>0, <1>b, <2>1, AnsweredStays, NotSettled
  <2>3. \A o \in Obj : Numbered(o)'
    BY <1>0, <1>b, <1>c, <2>1 DEF Numbered
  <2> QED
    BY <1>a, <2>1, <2>2, <2>3 DEF Loaded
<1>5. ASSUME NEW p \in Obj, LoadProvisioners(p)
      PROVE  /\ Loaded' \/ \A o \in Obj : cobjs'[o].st = "none"
             /\ \A o \in Obj : Numbered(o)' /\ Answered(o)'
  <2>1. UNCHANGED <<objs, cobjs, queue, version>> /\ \A o \in Obj : cobjs[o].st = "none"
    BY <1>5, <1>a DEF LoadProvisioners, Loaded
  <2>2. \A o \in Obj : Answered(o)'
    BY <2>1, NotSettled
  <2> QED
    BY <1>0, <2>1, <2>2 DEF Numbered
<1>6. ASSUME NEW p \in Obj, Sync(p)
      PROVE  /\ Loaded' \/ \A o \in Obj : cobjs'[o].st = "none"
             /\ \A o \in Obj : Numbered(o)' /\ Answered(o)'
  <2>1. /\ cobjs'[p] = objs[p] /\ queue' = queue \cup {p} /\ UNCHANGED <<objs, reg, listed, version>>
        /\ Loaded /\ \A o \in Obj \ {p} : cobjs'[o] = cobjs[o]
    BY <1>0, <1>6 DEF Sync, TypeOK
  <2>2. \A o \in Obj : Answered(o)'
    BY <1>0, <2>1, AnsweredStays, NotSettled
  <2>3. \A o \in Obj : Numbered(o)'
    BY <1>0, <2>1 DEF Numbered
  <2> QED
    BY <2>1, <2>2, <2>3 DEF Loaded
<1>7. ASSUME NEW p \in Obj, ReconcileDeleted(p)
      PROVE  /\ Loaded' \/ \A o \in Obj : cobjs'[o].st = "none"
             /\ \A o \in Obj : Numbered(o)' /\ Answered(o)'
  <2>1. /\ queue' = queue \ {p} /\ cobjs[p].st = "none" /\ UNCHANGED <<objs, cobjs, listed, version>>
        /\ \A l \in Key : reg'[l] = reg[l]
    BY <1>0, <1>7, <1>b DEF ReconcileDeleted, Delete, TypeOK
  <2>2. ASSUME NEW o \in Obj PROVE Answered(o)'
    <3>1. Claims(o, objs[o].key) => reg'[objs[o].key] = reg[objs[o].key]
      BY <1>0, <2>1 DEF Claims, Numbered
    <3>2. CASE o = p
      BY <2>1, <3>2, NotSettled
    <3>3. CASE o # p
      BY <1>0, <2>1, <3>1, <3>3, AnsweredStays
    <3> QED
      BY <3>2, <3>3
  <2> QED
    BY <1>0, <1>a, <2>1, <2>2 DEF Numbered, Loaded
<1>8. ASSUME NEW p \in Obj, ReconcileObject(p)
      PROVE  /\ Loaded' \/ \A o \in Obj : cobjs'[o].st = "none"
             /\ \A o \in Obj : Numbered(o)' /\ Answered(o)'
  <2>1. /\ reg' = Put(reg, p, cobjs[p]) /\ UNCHANGED <<cobjs, listed, version>>
        /\ cobjs[p] \in Object /\ reg \in [Key \cup {EmptyName} -> Entry]
    BY <1>0, <1>8 DEF ReconcileObject, TypeOK
  <2> DEFINE y == [objs[p] EXCEPT !.cond = PutVerdict(reg, p, cobjs[p]), !.seen = cobjs[p].ver]
  <2>a. (queue' = queue \/ queue' = queue \ {p}) /\ (objs' = objs \/ objs' = [objs EXCEPT ![p] = y])
    BY <1>8, Zenon DEF ReconcileObject
  <2>b. y.ver = objs[p].ver /\ y.key = objs[p].key /\ y.st = objs[p].st
    <3>1. objs[p] \in Object
      BY <1>0 DEF TypeOK
    <3> QED
      BY <3>1 DEF Object
  <2>2. /\ \A o \in Obj \ {p} : objs'[o] = objs[o] /\ (o \in queue => o \in queue')
        /\ objs'[p].ver = objs[p].ver /\ objs'[p].key = objs[p].key /\ objs'[p].st = objs[p].st
    <3> HIDE DEF y
    <3> QED
      BY <1>0, <2>a, <2>b DEF TypeOK
  <2>3. ASSUME NEW o \in Obj \ {p} PROVE Answered(o)'
    BY <1>0, <2>1, <2>2, PutKeepsOthers
  <2>4. Answered(p)'
    <3> SUFFICES ASSUME cobjs'[p] = objs'[p], objs'[p].valid
                 PROVE  reg'[objs'[p].key] \in {Disabled, [st |-> "set", by |-> {p}, ver |-> objs'[p].ver]}
      BY DEF Answered, Settled, Claims
    <3>1. cobjs[p].valid /\ cobjs[p].key = objs'[p].key /\ cobjs[p].ver = objs'[p].ver
      BY <2>1
    <3>2. cobjs[p].valid => Put(reg, p, cobjs[p])[cobjs[p].key]
                              \in {Disabled, [st |-> "set", by |-> {p}, ver |-> cobjs[p].ver]}
      BY <2>1, PutEffect, Zenon
    <3> QED
      BY <2>1, <3>1, <3>2
  <2>5. \A o \in Obj : Numbered(o)'
    BY <1>0, <2>1, <2>2 DEF Numbered
  <2> QED
    BY <1>a, <2>1, <2>3, <2>4, <2>5 DEF Loaded
<1>9. CASE UNCHANGED vars
  <2>1. UNCHANGED <<objs, cobjs, reg, listed, queue, version>>
    BY <1>9 DEF vars
  <2>2. \A o \in Obj : Answered(o)'
    BY <1>0, <2>1, AnsweredStays
  <2> QED
    BY <1>0, <1>a, <2>1, <2>2 DEF Numbered, Loaded
<1> QED
  BY <1>1, <1>2, <1>3, <1>4, <1>5, <1>6, <1>7, <1>8, <1>9, Zenon DEF Next

LEMMA NextInv == Inv /\ [Next]_vars => Inv'
BY TypeKept, ConsistentKept, Zenon DEF Inv

-----------------------------------------------------------------------------

\* Whatever users do to the StorageProvisioner objects, in whatever order the
\* manager loads and learns of them: the name of one that was reconciled as it
\* is resolves to it, or to nothing (Put, Delete, loadProvisioners, Reconcile).
THEOREM RegistryStaysConsistent == Spec => [](TypeOK /\ RegistryConsistent)
<1>1. Inv <=> TypeOK /\ RegistryConsistent
  BY DEF Inv
<1> QED BY <1>1, InitInv, NextInv, PTL DEF Spec

\* The registry maps every name to nothing, to one copy of an object, or to the
\* mark that disables it, and versions stay in range (Put, Delete).
THEOREM RegistryTypeCorrect == Spec => []TypeOK
<1>1. Inv => TypeOK
  BY DEF Inv
<1> QED BY <1>1, InitInv, NextInv, PTL DEF Spec

\* Get never answers with one of two objects that claim a name and were both
\* reconciled (Put).
THEOREM AmbiguousNamesAreDisabled == Spec => []AmbiguousIsDisabled
<1>1. Inv => AmbiguousIsDisabled
  <2> SUFFICES ASSUME Inv, NEW k \in Key, NEW o \in Obj, NEW p \in Obj, o # p,
                      Claims(o, k), Claims(p, k), Settled(o), Settled(p)
               PROVE  reg[k].st # "set"
    BY Zenon DEF AmbiguousIsDisabled
  <2>1. objs[o].key = k /\ objs[p].key = k
    BY DEF Claims
  <2>2. /\ reg[k] \in {Disabled, [st |-> "set", by |-> {o}, ver |-> objs[o].ver]}
        /\ reg[k] \in {Disabled, [st |-> "set", by |-> {p}, ver |-> objs[p].ver]}
    BY <2>1, ConsistentParts, Zenon DEF Inv, Answered
  <2> QED
    BY <2>2 DEF Disabled
<1> QED BY <1>1, InitInv, NextInv, PTL DEF Spec

\* Get answers with the latest specification of an object that was reconciled
\* (Put).
THEOREM LatestSpecificationIsUsed == Spec => []LatestIsUsed
<1>1. Inv => LatestIsUsed
  <2> SUFFICES ASSUME Inv, NEW o \in Obj, Claims(o, objs[o].key), Settled(o),
                      reg[objs[o].key].by = {o}
               PROVE  reg[objs[o].key].ver = objs[o].ver
    BY Zenon DEF LatestIsUsed
  <2>1. reg[objs[o].key] \in {Disabled, [st |-> "set", by |-> {o}, ver |-> objs[o].ver]}
    BY ConsistentParts, Zenon DEF Inv, Answered
  <2> QED
    BY <2>1 DEF Disabled
<1> QED BY <1>1, InitInv, NextInv, PTL DEF Spec

=============================================================================
