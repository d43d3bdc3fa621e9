----------------------------- MODULE CacheLedger -----------------------------
(***************************************************************************)
(* What internal/ksync promises: the status of a Cache resource is a       *)
(* ledger of the volumes mounted from the cache, and every entry and every *)
(* removal is made in one piece, however many nodes write to it at once.   *)
(***************************************************************************)
EXTENDS Naturals

CONSTANT Volume

VARIABLE ledger

\* committable: may be written back.  gen: the generation it would become.
\* lock: a commit was granted and started.
Entry == [v : Volume, gen : Nat, committable : BOOLEAN, lock : BOOLEAN]

Ledger == [st : {"none", "stored"}, ro : BOOLEAN, used : Nat, gen : Nat, vols : SUBSET Entry]

NoLedger == [st |-> "none", ro |-> FALSE, used |-> 0, gen |-> 0, vols |-> {}]

Listed(l, v) == \E e \in l.vols : e.v = v

\* RegisterCacheVolume: one more use; a volume that is listed stays as it is.
Entered(l, v) ==
  LET g == IF l.ro THEN l.gen ELSE l.gen + 1 IN
  IF Listed(l, v) THEN l
  ELSE [l EXCEPT !.gen = g,
                 !.vols = @ \cup {[v |-> v, gen |-> g, committable |-> ~l.ro, lock |-> FALSE]}]
Registered(l, v) == [Entered(l, v) EXCEPT !.used = @ + 1]

\* UnregisterCacheVolume.
Unregistered(l, v) == [l EXCEPT !.vols = {e \in @ : e.v # v}]

\* PrepareCommit: one commit at a time.
Grantable(l, v) ==
  ~l.ro /\ (\E e \in l.vols : e.v = v /\ e.committable) /\ \A e \in l.vols : ~e.lock
Granted(l, v) == [l EXCEPT !.vols = {[e EXCEPT !.lock = (e.v = v)] : e \in @}]

Init == ledger = NoLedger \/ \E ro \in BOOLEAN : ledger = [NoLedger EXCEPT !.st = "stored", !.ro = ro]

Create   == ledger.st = "none" /\ ledger' = [NoLedger EXCEPT !.st = "stored"]
Drop     == ledger.st = "stored" /\ ledger' = NoLedger
Protect  == ledger.st = "stored" /\ ledger' = [ledger EXCEPT !.ro = ~@]
Enter(v) == ledger.st = "stored" /\ ledger' = Registered(ledger, v)
Leave(v) == ledger.st = "stored" /\ ledger' = Unregistered(ledger, v)
Grant(v) == Grantable(ledger, v) /\ ledger' = Granted(ledger, v)

Next == Create \/ Drop \/ Protect \/ \E v \in Volume : Enter(v) \/ Leave(v) \/ Grant(v)

Spec == Init /\ [][Next]_ledger

=============================================================================
