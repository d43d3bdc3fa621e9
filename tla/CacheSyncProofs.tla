--------------------------- MODULE CacheSyncProofs ---------------------------
(***************************************************************************)
(* CacheSync implements CacheLedger, for any number of volumes, retries,   *)
(* commands and edits.  The argument rests on one fact: a copy whose       *)
(* resource version is the latest one is what is stored (Fresh).           *)
(***************************************************************************)
EXTENDS CacheSync, TLAPS

\* A copy of the latest resource version is what is stored.
Fresh == \A v \in fresh : jobs[v].at = "put" => jobs[v].seen = cache

\* No volume has its commit going on.
NeverLocked == \A e \in cache.vols : ~e.lock

Inv == TypeOK /\ Fresh /\ NeverLocked

-----------------------------------------------------------------------------
(* The operators keep the types. *)

\* NoCache and the resources a client or a user creates are of type Cache.
LEMMA NewCacheType ==
  /\ NoCache \in Cache
  /\ [NoCache EXCEPT !.st = "stored"] \in Cache
  /\ [NoCache EXCEPT !.st = "stored"].vols = {}
BY Zenon DEF NoCache, Cache

\* addVolume appends an entry of the current or the next generation.
LEMMA AddVolumeType ==
  ASSUME NEW c \in Cache, NEW v \in Volume
  PROVE  AddVolume(c, v) \in Cache
<1> DEFINE g == IF c.ro THEN c.gen ELSE c.gen + 1
           e == [v |-> v, gen |-> g, committable |-> ~c.ro, lock |-> FALSE]
           w == c.vols \cup {e}
<1>1. g \in Nat BY DEF Cache
<1>2. e \in VolumeStatus BY <1>1 DEF VolumeStatus, Cache
<1>3. w \in SUBSET VolumeStatus BY <1>2, Zenon DEF Cache
<1>4. [c EXCEPT !.gen = g, !.vols = w] \in Cache
  <2> HIDE DEF g, w
  <2> QED BY <1>1, <1>3, Zenon DEF Cache
<1> QED BY <1>4 DEF AddVolume

\* RegisterCacheVolume counts the use, and nothing else.
LEMMA UsedType ==
  ASSUME NEW c \in Cache
  PROVE  [c EXCEPT !.used = @ + 1] \in Cache /\ [c EXCEPT !.used = @ + 1].vols = c.vols
<1>1. c.used + 1 \in Nat BY DEF Cache
<1> QED BY <1>1 DEF Cache

\* Each modification of updateCache's callers keeps the type of the resource.
LEMMA ModifiedType ==
  ASSUME NEW c \in Cache, NEW v \in Volume, NEW op, ~Grants(c, v)
  PROVE  Modified(op, c, v) \in Cache
<1>1. [AddVolume(c, v) EXCEPT !.used = @ + 1] \in Cache
  BY AddVolumeType, UsedType
<1>2. RemoveVolume(c, v) \in Cache BY DEF RemoveVolume, Cache
<1>3. PrepareCommit(c, v) \in Cache BY DEF PrepareCommit
<1> QED BY <1>1, <1>2, <1>3 DEF Modified

\* No modification sets a lock while none is set.
LEMMA ModifiedLocks ==
  ASSUME NEW c \in Cache, NEW v \in Volume, NEW op, \A e \in c.vols : ~e.lock
  PROVE  /\ ~Grants(c, v)
         /\ \A e \in Modified(op, c, v).vols : ~e.lock
<1>1. ~Grants(c, v) BY DEF Grants, CommitInProgress
<1>2. \A e \in [AddVolume(c, v) EXCEPT !.used = @ + 1].vols : ~e.lock
  <2>1. \A e \in AddVolume(c, v).vols : ~e.lock BY DEF AddVolume, Cache
  <2> QED BY <2>1, AddVolumeType, UsedType
<1>3. \A e \in RemoveVolume(c, v).vols : ~e.lock BY DEF RemoveVolume, Cache
<1>4. PrepareCommit(c, v) = c BY <1>1 DEF PrepareCommit
<1> QED BY <1>1, <1>2, <1>3, <1>4 DEF Modified

\* What a command is at is of type Job, wherever it goes on.
LEMMA JobType ==
  /\ NoJob \in Job
  /\ \A op \in {"register", "undo", "prepare", "release"} :
       /\ Start(op) \in Job /\ Start(op).at = "get" /\ Start(op).op = op
       /\ \A ok \in BOOLEAN : Exit(op, ok) \in Job /\ Exit(op, ok).at = "exit"
       /\ \A out : Updated(op, out) \in Job /\ Updated(op, out).at \in {"local", "exit"}
<1>0. 1 \in 1..Steps BY SyncAssumption
<1>1. NoJob \in Job BY <1>0, NewCacheType, Zenon DEF NoJob, Job
<1>2. ASSUME NEW op \in {"register", "undo", "prepare", "release"}
      PROVE  /\ Start(op) \in Job /\ Start(op).at = "get" /\ Start(op).op = op
             /\ \A ok \in BOOLEAN : Exit(op, ok) \in Job /\ Exit(op, ok).at = "exit"
             /\ [NoJob EXCEPT !.op = op, !.at = "local"] \in Job
             /\ [NoJob EXCEPT !.op = op, !.at = "local"].at = "local"
  <2> QED BY <1>1, Zenon DEF Start, Exit, Job
<1>3. ASSUME NEW op \in {"register", "undo", "prepare", "release"}, NEW out
      PROVE  Updated(op, out) \in Job /\ Updated(op, out).at \in {"local", "exit"}
  <2>1. (out # "error") \in BOOLEAN OBVIOUS
  <2> QED BY <2>1, <1>2, Zenon DEF Updated
<1> QED BY <1>1, <1>2, <1>3

-----------------------------------------------------------------------------
(* Every step keeps the invariant. *)

Ops == {"register", "undo", "prepare", "release"}

\* The resource stays as it is, and no other command gets a copy; or no copy is
\* of the new version.
Versioned(v) == \/ cache' = cache /\ fresh' \subseteq fresh \cup {v}
                \/ fresh' = {}

\* The command of one volume moves on, to a request with a copy only if the
\* copy is what is stored.
LEMMA JobMoves ==
  ASSUME Inv, NEW v \in Volume, NEW j \in Job, SetJob(v, j), Versioned(v),
         j.at = "put" => j.seen = cache'
  PROVE  jobs' \in [Volume -> Job] /\ fresh' \subseteq Volume /\ Fresh'
<1>1. jobs' \in [Volume -> Job] /\ jobs'[v] = j /\ \A w \in Volume \ {v} : jobs'[w] = jobs[w]
  BY DEF Inv, TypeOK, SetJob
<1>2. fresh' \subseteq Volume BY DEF Inv, TypeOK, Versioned
<1>3. ASSUME NEW w \in fresh', jobs'[w].at = "put"
      PROVE  jobs'[w].seen = cache'
  <2>1. CASE w = v BY <1>1, <1>3, <2>1
  <2>2. CASE w # v
    <3>1. jobs'[w] = jobs[w] BY <1>1, <1>2, <2>2
    <3>2. w \in fresh /\ cache' = cache BY <1>3, <2>2 DEF Versioned
    <3> QED BY <1>3, <3>1, <3>2 DEF Inv, Fresh
  <2> QED BY <2>1, <2>2
<1> QED BY <1>1, <1>2, <1>3 DEF Fresh

\* Every request keeps the invariant.
LEMMA RequestKeeps ==
  ASSUME Inv, NEW v \in Volume, Request(v)
  PROVE  Inv'
<1> DEFINE j == jobs[v]
<1>0. /\ j \in Job /\ j.op \in Ops /\ j.try \in 1..Steps /\ j.seen \in Cache
      /\ cache \in Cache
  BY DEF Inv, TypeOK, Job, Ops
<1>1. \A out : Updated(j.op, out) \in Job /\ Updated(j.op, out).at # "put"
  BY <1>0, JobType DEF Ops
<1>2. CASE Get(v)
  <2> DEFINE k == IF cache.st = "stored"
                  THEN [j EXCEPT !.at = "put", !.seen = cache]
                  ELSE IF j.op = "register" /\ j.at = "get"
                  THEN [j EXCEPT !.at = "create"]
                  ELSE Updated(j.op, "notfound")
  <2>1. k \in Job /\ (k.at = "put" => k.seen = cache)
    <3>1. /\ [j EXCEPT !.at = "put", !.seen = cache] \in Job
          /\ [j EXCEPT !.at = "put", !.seen = cache].seen = cache
      BY <1>0, Zenon DEF Job
    <3>2. [j EXCEPT !.at = "create"] \in Job /\ [j EXCEPT !.at = "create"].at = "create"
      BY <1>0 DEF Job
    <3> QED BY <1>1, <3>1, <3>2
  <2>2. SetJob(v, k) /\ cache' = cache /\ fresh' \subseteq fresh \cup {v} BY <1>2 DEF Get
  <2> HIDE DEF k
  <2>3. jobs' \in [Volume -> Job] /\ fresh' \subseteq Volume /\ Fresh' BY <2>1, <2>2, JobMoves DEF Versioned
  <2> QED BY <2>2, <2>3 DEF Request, Answer, Inv, TypeOK, NeverLocked
<1>3. CASE Create(v)
  <2> DEFINE k == [j EXCEPT !.at = "reget"]
  <2>1. k \in Job /\ k.at = "reget" BY <1>0 DEF Job
  <2>2. SetJob(v, k) BY <1>3 DEF Create
  <2>3. Versioned(v) /\ cache' \in Cache
    <3>1. \/ cache' = [NoCache EXCEPT !.st = "stored"] /\ fresh' = {}
          \/ cache' = cache /\ fresh' = fresh
      BY <1>3 DEF Create
    <3>2. cache' \in Cache BY <1>0, <3>1, NewCacheType, Zenon
    <3>3. fresh' = {} \/ (cache' = cache /\ fresh' = fresh) BY <3>1
    <3> QED BY <3>2, <3>3 DEF Versioned
  <2>4. NeverLocked' BY <1>3, NewCacheType, Zenon DEF Create, Inv, NeverLocked
  <2> HIDE DEF k
  <2>5. jobs' \in [Volume -> Job] /\ fresh' \subseteq Volume /\ Fresh' BY <2>1, <2>2, <2>3, JobMoves
  <2> QED BY <2>3, <2>4, <2>5 DEF Request, Answer, Inv, TypeOK
<1>4. CASE Put(v)
  <2> DEFINE k == Updated(j.op, "ok")
             new == Modified(j.op, j.seen, v)
  <2>1. j.seen = cache BY <1>4 DEF Put, IsLatest, Inv, Fresh
  <2>2. new \in Cache /\ \A e \in new.vols : ~e.lock
    BY <1>0, <2>1, ModifiedType, ModifiedLocks DEF Inv, NeverLocked
  <2>3. SetJob(v, k) /\ cache' = new /\ (fresh' = {} \/ (new = cache /\ fresh' = fresh \ {v}))
    BY <1>4 DEF Put
  <2>4. k \in Job /\ k.at # "put" BY <1>1
  <2> HIDE DEF k, new
  <2>5. Versioned(v) BY <2>3 DEF Versioned
  <2>6. jobs' \in [Volume -> Job] /\ fresh' \subseteq Volume /\ Fresh' BY <2>3, <2>4, <2>5, JobMoves
  <2> QED BY <2>2, <2>3, <2>5, <2>6 DEF Request, Answer, Inv, TypeOK, NeverLocked
<1>5. CASE PutRefused(v)
  <2> DEFINE k == IF cache.st = "none" THEN Updated(j.op, "notfound")
                  ELSE IF j.try < Steps
                  THEN [Start(j.op) EXCEPT !.try = j.try + 1]
                  ELSE Updated(j.op, "error")
  <2>1. k \in Job /\ k.at # "put"
    <3>1. ASSUME j.try < Steps
          PROVE  /\ [Start(j.op) EXCEPT !.try = j.try + 1] \in Job
                 /\ [Start(j.op) EXCEPT !.try = j.try + 1].at # "put"
      <4>1. j.try + 1 \in 1..Steps BY <1>0, <3>1, SyncAssumption
      <4>2. Start(j.op) \in Job /\ Start(j.op).at = "get" BY <1>0, JobType DEF Ops
      <4>3. ASSUME NEW i \in Job, i.at = "get", NEW t \in 1..Steps
            PROVE  [i EXCEPT !.try = t] \in Job /\ [i EXCEPT !.try = t].at # "put"
        BY <4>3 DEF Job
      <4> QED BY <4>1, <4>2, <4>3
    <3> QED BY <1>1, <3>1
  <2>2. SetJob(v, k) /\ cache' = cache /\ fresh' = fresh BY <1>5 DEF PutRefused
  <2> HIDE DEF k
  <2>3. jobs' \in [Volume -> Job] /\ fresh' \subseteq Volume /\ Fresh' BY <2>1, <2>2, JobMoves DEF Versioned
  <2> QED BY <2>2, <2>3 DEF Request, Answer, Inv, TypeOK, NeverLocked
<1>6. CASE RequestFails(v)
  <2>1. SetJob(v, Updated(j.op, "error")) /\ cache' = cache /\ fresh' = fresh \ {v}
    BY <1>6 DEF RequestFails
  <2>2. jobs' \in [Volume -> Job] /\ fresh' \subseteq Volume /\ Fresh' BY <1>1, <2>1, JobMoves DEF Versioned
  <2> QED BY <2>1, <2>2 DEF Request, Answer, Inv, TypeOK, NeverLocked
<1> QED BY <1>2, <1>3, <1>4, <1>5, <1>6 DEF Request, Answer

\* Every step of a command between its updates keeps the invariant.
LEMMA CommandKeeps ==
  ASSUME Inv, NEW v \in Volume,
         StartMount(v) \/ StartUnmount(v) \/ Mount(v) \/ Unmount(v) \/ Killed(v)
  PROVE  Inv' /\ UNCHANGED cache
<1>0. jobs[v] \in Job /\ jobs[v].op \in Ops BY DEF Inv, TypeOK, Job, Ops
<1>1. cache' = cache /\ (fresh' = fresh \/ fresh' = fresh \ {v})
  BY Zenon DEF StartMount, StartUnmount, Run, Mount, Unmount, Killed
<1>2. \E k \in Job : k.at # "put" /\ SetJob(v, k)
  <2>1. CASE StartMount(v) \/ StartUnmount(v)
    BY <2>1, JobType DEF StartMount, StartUnmount, Run
  <2>2. CASE Mount(v)
    BY <2>2, JobType, Zenon DEF Mount
  <2>3. CASE Unmount(v)
    BY <2>3, JobType DEF Unmount
  <2>4. CASE Killed(v)
    BY <1>0, <2>4, JobType, Zenon DEF Killed, Ops
  <2> QED BY <2>1, <2>2, <2>3, <2>4
<1>3. jobs' \in [Volume -> Job] /\ fresh' \subseteq Volume /\ Fresh' BY <1>1, <1>2, JobMoves DEF Versioned
<1>4. mounted' \subseteq Volume /\ written' \subseteq Volume
  <2> USE DEF Inv, TypeOK
  <2>1. CASE StartMount(v) \/ StartUnmount(v) BY <2>1 DEF StartMount, StartUnmount, Run
  <2>2. CASE Mount(v) BY <2>2 DEF Mount, LocalMount
  <2>3. CASE Unmount(v)
    <3>1. PICK ok \in BOOLEAN : LocalUnmount(v, ok) BY <2>3 DEF Unmount
    <3> QED BY <3>1 DEF LocalUnmount
  <2>4. CASE Killed(v) BY <2>4 DEF Killed
  <2> QED BY <2>1, <2>2, <2>3, <2>4
<1>5. runs' \in [Volume -> 0..MaxRuns] /\ edits' \in 0..MaxEdits
  <2>1. CASE StartMount(v) \/ StartUnmount(v)
    <3>1. runs[v] + 1 \in 0..MaxRuns
      BY <2>1, SyncAssumption DEF StartMount, StartUnmount, Run, Inv, TypeOK
    <3> QED BY <2>1, <3>1 DEF StartMount, StartUnmount, Run, Inv, TypeOK
  <2>2. CASE Mount(v) \/ Unmount(v) \/ Killed(v)
    BY <2>2, Zenon DEF Mount, Unmount, Killed, Inv, TypeOK
  <2> QED BY <2>1, <2>2
<1> QED BY <1>1, <1>3, <1>4, <1>5 DEF Inv, TypeOK, NeverLocked

\* What users do to the resource keeps the invariant.
LEMMA EditKeeps ==
  ASSUME Inv, UserDrops \/ UserProtects
  PROVE  Inv'
<1> DEFINE c == [cache EXCEPT !.ro = ~@]
<1>1. cache \in Cache BY DEF Inv, TypeOK
<1>2. c \in Cache /\ c.vols = cache.vols BY <1>1, Zenon DEF Cache
<1>3. NoCache \in Cache /\ NoCache.vols = {} BY NewCacheType, Zenon DEF NoCache
<1>4. /\ cache' = NoCache \/ cache' = c
      /\ fresh' = {} /\ UNCHANGED <<jobs, mounted, written, runs>>
      /\ edits < MaxEdits /\ edits' = edits + 1
  BY DEF UserDrops, UserProtects, Edit
<1> HIDE DEF c
<1>5. cache' \in Cache /\ NeverLocked' BY <1>2, <1>3, <1>4 DEF Inv, NeverLocked
<1>6. Fresh' /\ fresh' \subseteq Volume BY <1>4 DEF Fresh
<1>7. edits' \in 0..MaxEdits BY <1>4, SyncAssumption DEF Inv, TypeOK
<1> QED BY <1>4, <1>5, <1>6, <1>7 DEF Inv, TypeOK

-----------------------------------------------------------------------------
(* The theorems. *)

\* The invariant holds initially and is kept by every step.
LEMMA InvInductive ==
  /\ Init => Inv
  /\ Inv /\ [Next]_vars => Inv'
<1>1. ASSUME Init PROVE Inv
  <2>1. cache \in Cache /\ cache.vols = {} BY <1>1, NewCacheType, Zenon DEF Init, NoCache
  <2>2. jobs \in [Volume -> Job] /\ \A v \in Volume : jobs[v].at = "idle"
    BY <1>1, JobType, Zenon DEF Init, NoJob
  <2>3. 0 \in 0..MaxRuns /\ 0 \in 0..MaxEdits BY SyncAssumption
  <2> QED BY <1>1, <2>1, <2>2, <2>3, Zenon DEF Init, Inv, TypeOK, Fresh, NeverLocked
<1>2. ASSUME Inv, [Next]_vars PROVE Inv'
  <2>1. CASE UNCHANGED vars BY <1>2, <2>1 DEF vars, Inv, TypeOK, Fresh, NeverLocked
  <2>2. CASE Next
    BY <1>2, <2>1, <2>2, RequestKeeps, CommandKeeps, EditKeeps DEF Next, Rest
  <2> QED BY <1>2, <2>1, <2>2
<1> QED BY <1>1, <1>2

\* The variables keep their types through every retry, kill and edit of
\* updateCache and of the commands around it.
THEOREM SyncTypeCorrect == Spec => []TypeOK
<1>1. Inv => TypeOK BY DEF Inv
<1> QED BY <1>1, InvInductive, PTL DEF Spec

\* PrepareCommit grants no commit, to any volume, ever: commitInProgress
\* takes the volume that asks for one that is committing.  The lock it is meant
\* to take (CommitStartTime, and the message about "its lock" when one times
\* out) does not exist, and two nodes are never kept from committing at once.
THEOREM CommitNeverStarts == Spec => []NeverLocked
<1>1. Inv => NeverLocked BY DEF Inv
<1> QED BY <1>1, InvInductive, PTL DEF Spec

\* Every step of the commands is a step of the ledger, or leaves it alone.
LEMMA StepImplements ==
  ASSUME Inv, [Next]_vars
  PROVE  [Ledger!Next]_cache
<1>1. CASE UNCHANGED cache BY <1>1
<1>2. ASSUME NEW v \in Volume, Request(v) PROVE [Ledger!Next]_cache
  <2>1. CASE Get(v) \/ PutRefused(v) \/ RequestFails(v)
    BY <2>1 DEF Get, PutRefused, RequestFails
  <2>2. CASE Create(v)
    BY <2>2 DEF Create, NoCache, Ledger!Next, Ledger!Create, Ledger!NoLedger
  <2>3. CASE Put(v)
    <3>1. cache.st = "stored" /\ jobs[v].seen = cache
      BY <2>3 DEF Put, IsLatest, Inv, Fresh
    <3>2. cache' = Modified(jobs[v].op, cache, v) BY <2>3, <3>1 DEF Put
    <3>3. PrepareCommit(cache, v) = cache
      BY ModifiedLocks DEF Inv, TypeOK, NeverLocked, PrepareCommit
    <3>4. RemoveVolume(cache, v) = Ledger!Unregistered(cache, v)
      BY DEF RemoveVolume, Ledger!Unregistered
    <3>5. AddVolume(cache, v) = Ledger!Entered(cache, v)
      BY DEF AddVolume, Ledger!Entered, Ledger!Listed
    <3>6. [AddVolume(cache, v) EXCEPT !.used = @ + 1] = Ledger!Registered(cache, v)
      BY <3>5 DEF Ledger!Registered
    <3>7. \/ cache' = Ledger!Registered(cache, v)
          \/ cache' = Ledger!Unregistered(cache, v)
          \/ cache' = cache
      BY <3>2, <3>3, <3>4, <3>6 DEF Modified
    <3> QED BY <3>1, <3>7 DEF Ledger!Next, Ledger!Enter, Ledger!Leave
  <2> QED BY <1>2, <2>1, <2>2, <2>3 DEF Request, Answer
<1>3. CASE UserDrops
  BY <1>3 DEF UserDrops, Edit, NoCache, Ledger!Next, Ledger!Drop, Ledger!NoLedger
<1>4. CASE UserProtects
  BY <1>4 DEF UserProtects, Edit, Ledger!Next, Ledger!Protect
<1> QED BY <1>1, <1>2, <1>3, <1>4, CommandKeeps DEF Next, Rest, vars

\* However many nodes register, prepare and release volumes at once, and
\* whatever fails, the Cache resource is a ledger with atomic entries: the
\* retries on conflict of updateCache lose no update.
THEOREM SyncImplementsLedger == Spec => LedgerKept
<1>1. Init => Ledger!Init BY Zenon DEF Init, NoCache, Ledger!Init, Ledger!NoLedger
<1> QED BY <1>1, InvInductive, StepImplements, PTL DEF Spec, LedgerKept, Ledger!Spec

\* No entry is of a later generation than the cache.
Ordered == GenerationsDiffer /\ \A e \in cache.vols : e.gen <= cache.gen

\* The ledger keeps the generations apart, whoever writes to it.
LEMMA LedgerOrdered ==
  ASSUME cache \in Cache, Ordered, [Ledger!Next]_cache
  PROVE  Ordered'
<1>0. cache.gen \in Nat /\ \A e \in cache.vols : e \in VolumeStatus /\ e.gen \in Nat
  BY DEF Cache, VolumeStatus
<1>1. ASSUME cache'.vols \subseteq cache.vols, cache'.gen = cache.gen PROVE Ordered'
  BY <1>1 DEF Ordered, GenerationsDiffer
<1>2. CASE Ledger!Create \/ Ledger!Drop
  <2>1. cache'.vols = {}
    BY <1>2 DEF Ledger!Create, Ledger!Drop, Ledger!NoLedger
  <2> QED BY <2>1 DEF Ordered, GenerationsDiffer
<1>3. CASE Ledger!Protect
  <2>1. cache'.vols = cache.vols /\ cache'.gen = cache.gen
    BY <1>3 DEF Ledger!Protect, Cache
  <2> QED BY <1>1, <2>1
<1>4. ASSUME NEW v \in Volume, Ledger!Enter(v) PROVE Ordered'
  <2> DEFINE g == IF cache.ro THEN cache.gen ELSE cache.gen + 1
             new == [v |-> v, gen |-> g, committable |-> ~cache.ro, lock |-> FALSE]
  <2>1. CASE Ledger!Listed(cache, v)
    <3>1. cache' = [cache EXCEPT !.used = @ + 1]
      BY <1>4, <2>1 DEF Ledger!Enter, Ledger!Registered, Ledger!Entered
    <3>2. cache'.vols = cache.vols /\ cache'.gen = cache.gen
      BY <3>1 DEF Cache
    <3> QED BY <1>1, <3>2
  <2>2. CASE ~Ledger!Listed(cache, v)
    <3>1. cache' = [[cache EXCEPT !.gen = g, !.vols = @ \cup {new}] EXCEPT !.used = @ + 1]
      BY <1>4, <2>2 DEF Ledger!Enter, Ledger!Registered, Ledger!Entered
    <3>2. cache'.vols = cache.vols \cup {new} /\ cache'.gen = g
      <4> HIDE DEF new, g
      <4> QED BY <3>1 DEF Cache
    <3>3. g \in Nat /\ cache.gen <= g /\ new.gen = g /\ (new.committable => g = cache.gen + 1)
      <4>1. g \in Nat /\ cache.gen <= g /\ (~cache.ro => g = cache.gen + 1)
        BY <1>0
      <4>2. new.gen = g /\ new.committable = ~cache.ro
        BY Zenon
      <4> HIDE DEF new, g
      <4> QED BY <4>1, <4>2
    <3> HIDE DEF new, g
    <3>4. \A e \in cache'.vols : e.gen <= cache'.gen
      BY <1>0, <3>2, <3>3 DEF Ordered
    <3>5. \A e \in cache.vols : new.committable => e.gen # new.gen
      BY <1>0, <3>3 DEF Ordered
    <3>6. GenerationsDiffer'
      BY <3>2, <3>5 DEF Ordered, GenerationsDiffer
    <3> QED BY <3>4, <3>6 DEF Ordered
  <2> QED BY <2>1, <2>2
<1>5. ASSUME NEW v \in Volume, Ledger!Leave(v) PROVE Ordered'
  <2>1. cache'.vols \subseteq cache.vols /\ cache'.gen = cache.gen
    BY <1>5 DEF Ledger!Leave, Ledger!Unregistered, Cache
  <2> QED BY <1>1, <2>1
<1>6. ASSUME NEW v \in Volume, Ledger!Grant(v) PROVE Ordered'
  <2>1. cache'.vols = {[e EXCEPT !.lock = (e.v = v)] : e \in cache.vols} /\ cache'.gen = cache.gen
    BY <1>6 DEF Ledger!Grant, Ledger!Granted, Cache
  <2>2. \A e \in cache.vols : /\ [e EXCEPT !.lock = (e.v = v)].gen = e.gen
                              /\ [e EXCEPT !.lock = (e.v = v)].committable = e.committable
    BY <1>0 DEF VolumeStatus
  <2>3. \A e \in cache'.vols : e.gen <= cache'.gen
    BY <2>1, <2>2 DEF Ordered
  <2>4. ASSUME NEW e \in cache'.vols, NEW f \in cache'.vols, e.committable, f.committable, e.gen = f.gen
        PROVE  e = f
    <3>1. PICK a \in cache.vols : e = [a EXCEPT !.lock = (a.v = v)]
      BY <2>1
    <3>2. PICK b \in cache.vols : f = [b EXCEPT !.lock = (b.v = v)]
      BY <2>1
    <3>3. a = b
      BY <2>2, <2>4, <3>1, <3>2, ZenonT(30) DEF Ordered, GenerationsDiffer
    <3> QED BY <3>1, <3>2, <3>3
  <2> QED BY <2>3, <2>4 DEF Ordered, GenerationsDiffer
<1>7. CASE UNCHANGED cache
  BY <1>7 DEF Ordered, GenerationsDiffer
<1> QED BY <1>2, <1>3, <1>4, <1>5, <1>6, <1>7 DEF Ledger!Next

\* No two volumes that may be written back get the same generation from
\* addVolume, however many nodes register at once: it follows from the ledger.
THEOREM GenerationsNeverRepeat == Spec => []GenerationsDiffer
<1>1. Init => Ordered
  <2>1. Init => cache.vols = {} BY NewCacheType, Zenon DEF Init, NoCache
  <2> QED BY <2>1 DEF Ordered, GenerationsDiffer
<1>2. Inv /\ Ordered /\ [Next]_vars => Ordered'
  BY StepImplements, LedgerOrdered DEF Inv, TypeOK
<1>3. Ordered => GenerationsDiffer BY DEF Ordered
<1> QED BY <1>1, <1>2, <1>3, InvInductive, PTL DEF Spec

-----------------------------------------------------------------------------
(* Mounted volumes are listed. *)

Listed(v) == \E e \in cache.vols : e.v = v

\* What the commands that were run for a volume have left: the first one that
\* mounts it ends with it, and what is about to be mounted is listed.
Tracked(v) ==
  /\ jobs[v].at = "idle" <=> runs[v] = 0
  /\ jobs[v].op \in {"prepare", "release"} => runs[v] > 1
  /\ v \in mounted /\ runs[v] <= 1 => jobs[v].at = "exit" /\ jobs[v].op = "register"
  /\ edits = 0 /\ runs[v] <= 2 =>
       /\ jobs[v].op = "register" /\ jobs[v].at = "local" => Listed(v)
       /\ v \in mounted /\ jobs[v].op \in {"register", "prepare"} => Listed(v)

Tracking == (cache.st = "none" => cache.vols = {}) /\ \A v \in Volume : Tracked(v)

\* Where commands go keeps what they are about.
LEMMA JobShape ==
  \A op \in Ops :
    /\ Start(op).op = op /\ Start(op).at = "get"
    /\ \A ok : Exit(op, ok).op = op /\ Exit(op, ok).at = "exit"
    /\ \A out : /\ Updated(op, out).op = op /\ Updated(op, out).at \in {"local", "exit"}
                /\ op = "register" /\ out # "ok" => Updated(op, out).at = "exit"
<1> SUFFICES ASSUME NEW op \in Ops
             PROVE  /\ Start(op).op = op /\ Start(op).at = "get"
                    /\ \A ok : Exit(op, ok).op = op /\ Exit(op, ok).at = "exit"
                    /\ \A out : /\ Updated(op, out).op = op /\ Updated(op, out).at \in {"local", "exit"}
                                /\ op = "register" /\ out # "ok" => Updated(op, out).at = "exit"
  OBVIOUS
<1>1. Start(op).op = op /\ Start(op).at = "get"
  BY DEF Start, NoJob
<1>2. \A ok : Exit(op, ok).op = op /\ Exit(op, ok).at = "exit"
  BY DEF Exit, NoJob
<1>3. /\ [NoJob EXCEPT !.op = op, !.at = "local"].op = op
      /\ [NoJob EXCEPT !.op = op, !.at = "local"].at = "local"
  BY DEF NoJob
<1>4. ASSUME NEW out
      PROVE  /\ Updated(op, out).op = op /\ Updated(op, out).at \in {"local", "exit"}
             /\ op = "register" /\ out # "ok" => Updated(op, out).at = "exit"
  BY <1>2, <1>3, Zenon DEF Updated, Ops
<1> QED BY <1>1, <1>2, <1>4

\* What an update does to the entries of the resource.
LEMMA PutListed ==
  ASSUME Inv, NEW v \in Volume, NEW w \in Volume, Put(v)
  PROVE  /\ cache.st = "stored" /\ cache'.st = "stored"
         /\ jobs[v].op = "register" => Listed(v)'
         /\ Listed(w) /\ (w # v \/ jobs[v].op \in {"register", "prepare"}) => Listed(w)'
         /\ w # v /\ Listed(w)' => Listed(w)
         /\ jobs[v].op = "release" => ~Listed(v)'
<1>1. cache.st = "stored" /\ jobs[v].seen = cache /\ cache \in Cache
  BY DEF Put, IsLatest, Inv, Fresh, TypeOK
<1>2. cache' = Modified(jobs[v].op, cache, v)
  BY <1>1 DEF Put
<1>3. CASE jobs[v].op = "register"
  <2> DEFINE a == AddVolume(cache, v)
  <2>1. a \in Cache /\ cache' = [a EXCEPT !.used = @ + 1]
    BY <1>1, <1>2, <1>3, AddVolumeType DEF Modified
  <2>2. cache'.vols = a.vols /\ cache'.st = a.st
    <3> HIDE DEF a
    <3> QED BY <2>1 DEF Cache
  <2>3. /\ a.st = cache.st /\ cache.vols \subseteq a.vols /\ \E e \in a.vols : e.v = v
        /\ \A e \in a.vols : e \in cache.vols \/ e.v = v
    <3> DEFINE g == IF cache.ro THEN cache.gen ELSE cache.gen + 1
               new == [v |-> v, gen |-> g, committable |-> ~cache.ro, lock |-> FALSE]
    <3>1. CASE \E e \in cache.vols : e.v = v
      BY <3>1 DEF AddVolume
    <3>2. CASE ~\E e \in cache.vols : e.v = v
      <4>1. a = [cache EXCEPT !.gen = g, !.vols = @ \cup {new}]
        BY <3>2 DEF AddVolume
      <4>2. new.v = v
        BY Zenon
      <4> HIDE DEF a, g, new
      <4>3. a.st = cache.st /\ a.vols = cache.vols \cup {new}
        BY <1>1, <4>1 DEF Cache
      <4> QED BY <4>2, <4>3
    <3> QED BY <3>1, <3>2
  <2> HIDE DEF a
  <2> QED BY <1>1, <1>3, <2>2, <2>3 DEF Listed
<1>4. CASE jobs[v].op = "prepare"
  <2>1. PrepareCommit(cache, v) = cache
    BY <1>1, ModifiedLocks DEF Inv, NeverLocked, PrepareCommit
  <2>2. cache' = cache
    BY <1>2, <1>4, <2>1 DEF Modified
  <2> QED BY <1>1, <1>4, <2>2 DEF Listed
<1>5. CASE jobs[v].op \notin {"register", "prepare"}
  <2>1. cache' = RemoveVolume(cache, v)
    BY <1>2, <1>5 DEF Modified
  <2>2. cache'.st = cache.st /\ cache'.vols = {e \in cache.vols : e.v # v}
    BY <1>1, <2>1 DEF RemoveVolume, Cache
  <2> QED BY <1>1, <1>5, <2>2 DEF Listed
<1> QED BY <1>3, <1>4, <1>5

\* A volume that a step is not about.
LEMMA TrackedStays ==
  ASSUME NEW w \in Volume, Tracked(w), jobs'[w] = jobs[w], runs'[w] = runs[w],
         w \in mounted' => w \in mounted, edits' = 0 => edits = 0,
         edits' = 0 /\ Listed(w) => Listed(w)'
  PROVE  Tracked(w)'
BY DEF Tracked

\* Every request of updateCache.
LEMMA RequestTracks ==
  ASSUME Inv, Tracking, NEW v \in Volume, Request(v)
  PROVE  Tracking'
<1> DEFINE j == jobs[v]
<1>0. /\ j \in Job /\ j.op \in Ops /\ jobs \in [Volume -> Job] /\ cache \in Cache
  BY DEF Inv, TypeOK, Job, Ops
<1>1. j.at \in {"get", "create", "reget", "put"} /\ UNCHANGED <<mounted, runs, edits>>
  BY Zenon DEF Request, Answer, Get, Create, Put, PutRefused, RequestFails
<1>2. \A out : /\ Updated(j.op, out).op = j.op /\ Updated(j.op, out).at \in {"local", "exit"}
               /\ j.op = "register" /\ out # "ok" => Updated(j.op, out).at = "exit"
  BY <1>0, JobShape
<1>3. ASSUME NEW k, SetJob(v, k), k.op = j.op, k.at # "idle",
             cache'.st = "none" => cache'.vols = {},
             k.op = "register" /\ k.at = "local" => Listed(v)',
             \A w \in Volume : Listed(w) /\ (w # v \/ j.op \in {"register", "prepare"}) => Listed(w)'
      PROVE  Tracking'
  <2>1. jobs'[v] = k /\ \A w \in Volume \ {v} : jobs'[w] = jobs[w]
    BY <1>0, <1>3 DEF SetJob
  <2>2. ASSUME NEW w \in Volume \ {v} PROVE Tracked(w)'
    BY <1>1, <1>3, <2>1, TrackedStays DEF Tracking
  <2>3. Tracked(v)'
    <3>1. Tracked(v) /\ j.at # "idle" /\ j.at # "exit"
      BY <1>1 DEF Tracking
    <3> QED BY <1>1, <1>3, <2>1, <3>1 DEF Tracked
  <2> QED BY <1>3, <2>2, <2>3 DEF Tracking
<1>4. CASE Get(v)
  <2> DEFINE k == IF cache.st = "stored"
                  THEN [j EXCEPT !.at = "put", !.seen = cache]
                  ELSE IF j.op = "register" /\ j.at = "get"
                  THEN [j EXCEPT !.at = "create"]
                  ELSE Updated(j.op, "notfound")
  <2>1. k.op = j.op /\ k.at # "idle" /\ (k.op = "register" => k.at # "local")
    <3>1. /\ [j EXCEPT !.at = "put", !.seen = cache].op = j.op
          /\ [j EXCEPT !.at = "put", !.seen = cache].at = "put"
      BY <1>0 DEF Job
    <3>2. [j EXCEPT !.at = "create"].op = j.op /\ [j EXCEPT !.at = "create"].at = "create"
      BY <1>0 DEF Job
    <3>3. /\ Updated(j.op, "notfound").op = j.op /\ Updated(j.op, "notfound").at # "idle"
          /\ j.op = "register" => Updated(j.op, "notfound").at # "local"
      BY <1>2
    <3> QED BY <3>1, <3>2, <3>3, Zenon
  <2>2. SetJob(v, k) /\ cache' = cache
    BY <1>4 DEF Get
  <2> HIDE DEF k
  <2> QED BY <1>3, <2>1, <2>2 DEF Tracking, Listed
<1>5. CASE Create(v)
  <2> DEFINE k == [j EXCEPT !.at = "reget"]
  <2>1. k.op = j.op /\ k.at = "reget"
    BY <1>0 DEF Job
  <2>2. SetJob(v, k)
    BY <1>5 DEF Create
  <2>3. cache' = cache \/ (cache'.st = "stored" /\ cache.vols = {})
    BY <1>5 DEF Create, Tracking, NoCache
  <2> HIDE DEF k
  <2> QED BY <1>3, <2>1, <2>2, <2>3 DEF Tracking, Listed
<1>6. CASE Put(v)
  <2> DEFINE k == Updated(j.op, "ok")
  <2>1. k.op = j.op /\ k.at # "idle" /\ SetJob(v, k)
    BY <1>2, <1>6 DEF Put
  <2>2. /\ cache'.st = "stored" /\ (j.op = "register" => Listed(v)')
        /\ \A w \in Volume : Listed(w) /\ (w # v \/ j.op \in {"register", "prepare"}) => Listed(w)'
    BY <1>6, PutListed
  <2> HIDE DEF k
  <2> QED BY <1>3, <2>1, <2>2
<1>7. CASE PutRefused(v)
  <2> DEFINE k == IF cache.st = "none" THEN Updated(j.op, "notfound")
                  ELSE IF j.try < Steps
                  THEN [Start(j.op) EXCEPT !.try = j.try + 1]
                  ELSE Updated(j.op, "error")
  <2>1. k.op = j.op /\ k.at # "idle" /\ (k.op = "register" => k.at # "local")
    <3>1. /\ [Start(j.op) EXCEPT !.try = j.try + 1].op = j.op
          /\ [Start(j.op) EXCEPT !.try = j.try + 1].at = "get"
      BY DEF Start, NoJob
    <3>2. \A out \in {"notfound", "error"} :
            /\ Updated(j.op, out).op = j.op /\ Updated(j.op, out).at # "idle"
            /\ j.op = "register" => Updated(j.op, out).at # "local"
      BY <1>2
    <3> QED BY <3>1, <3>2, Zenon
  <2>2. SetJob(v, k) /\ cache' = cache
    BY <1>7 DEF PutRefused
  <2> HIDE DEF k
  <2> QED BY <1>3, <2>1, <2>2 DEF Tracking, Listed
<1>8. CASE RequestFails(v)
  <2> DEFINE k == Updated(j.op, "error")
  <2>1. k.op = j.op /\ k.at # "idle" /\ (k.op = "register" => k.at # "local")
    BY <1>2
  <2>2. SetJob(v, k) /\ cache' = cache
    BY <1>8 DEF RequestFails
  <2> HIDE DEF k
  <2> QED BY <1>3, <2>1, <2>2 DEF Tracking, Listed
<1> QED BY <1>4, <1>5, <1>6, <1>7, <1>8 DEF Request, Answer

\* Every step of a command between its updates.
LEMMA CommandTracks ==
  ASSUME Inv, Tracking, NEW v \in Volume,
         StartMount(v) \/ StartUnmount(v) \/ Mount(v) \/ Unmount(v) \/ Killed(v)
  PROVE  Tracking'
<1> DEFINE j == jobs[v]
<1>0. /\ j.op \in Ops /\ jobs \in [Volume -> Job] /\ runs \in [Volume -> 0..MaxRuns]
      /\ runs[v] \in Nat
  BY SyncAssumption DEF Inv, TypeOK, Job, Ops
<1>1. Tracked(v) /\ cache' = cache /\ edits' = edits
  BY Zenon DEF Tracking, StartMount, StartUnmount, Run, Mount, Unmount, Killed
<1>2. ASSUME NEW k, SetJob(v, k), NEW n, runs' = [runs EXCEPT ![v] = n],
             \A w \in Volume \ {v} : w \in mounted' => w \in mounted,
             jobs'[v] = k /\ runs'[v] = n => Tracked(v)'
      PROVE  Tracking'
  <2>1. /\ jobs'[v] = k /\ runs'[v] = n
        /\ \A w \in Volume \ {v} : jobs'[w] = jobs[w] /\ runs'[w] = runs[w]
    BY <1>0, <1>2 DEF SetJob
  <2>2. \A w \in Volume \ {v} : Tracked(w)'
    BY <1>1, <1>2, <2>1, TrackedStays DEF Tracking, Listed
  <2> QED BY <1>1, <1>2, <2>1, <2>2 DEF Tracking
<1>3. \A op \in Ops : /\ Start(op).op = op /\ Start(op).at = "get"
                      /\ \A ok : Exit(op, ok).op = op /\ Exit(op, ok).at = "exit"
  BY JobShape
<1>4. CASE StartMount(v)
  <2>1. /\ runs' = [runs EXCEPT ![v] = runs[v] + 1] /\ SetJob(v, Start("register"))
        /\ mounted' = mounted
        /\ j.at = "idle" \/ (j.at = "exit" /\ j.op \in {"register", "undo"})
    BY <1>4 DEF StartMount, Run
  <2>2. Start("register").op = "register" /\ Start("register").at = "get"
    BY <1>3 DEF Ops
  <2>3. ASSUME jobs'[v] = Start("register"), runs'[v] = runs[v] + 1 PROVE Tracked(v)'
    BY <1>0, <1>1, <2>1, <2>2, <2>3 DEF Tracked, Listed
  <2> QED BY <1>2, <2>1, <2>3, Zenon
<1>5. CASE StartUnmount(v)
  <2>1. /\ runs' = [runs EXCEPT ![v] = runs[v] + 1] /\ SetJob(v, Start("prepare"))
        /\ mounted' = mounted /\ j.at = "exit"
    BY <1>5 DEF StartUnmount, Run
  <2>2. Start("prepare").op = "prepare" /\ Start("prepare").at = "get"
    BY <1>3 DEF Ops
  <2>3. ASSUME jobs'[v] = Start("prepare"), runs'[v] = runs[v] + 1 PROVE Tracked(v)'
    BY <1>0, <1>1, <2>1, <2>2, <2>3 DEF Tracked, Listed
  <2> QED BY <1>2, <2>1, <2>3, Zenon
<1>6. CASE Mount(v) \/ Unmount(v) \/ Killed(v)
  <2>0. runs' = [runs EXCEPT ![v] = runs[v]]
    <3>1. runs' = runs
      BY <1>6, Zenon DEF Mount, Unmount, Killed
    <3> QED BY <1>0, <3>1
  <2>1. CASE Mount(v)
    <3>1. j.at = "local" /\ j.op = "register"
      BY <2>1 DEF Mount
    <3>2. CASE LocalMount(v, TRUE) /\ \E ok \in BOOLEAN : SetJob(v, Exit("register", ok))
      <4>1. PICK ok \in BOOLEAN : SetJob(v, Exit("register", ok))
        BY <3>2
      <4>2. mounted' = mounted \cup {v}
        BY <3>2 DEF LocalMount
      <4>3. Exit("register", ok).op = "register" /\ Exit("register", ok).at = "exit"
        BY <1>3 DEF Ops
      <4>4. ASSUME jobs'[v] = Exit("register", ok), runs'[v] = runs[v] PROVE Tracked(v)'
        BY <1>0, <1>1, <3>1, <4>3, <4>4 DEF Tracked, Listed
      <4> QED BY <1>2, <2>0, <4>1, <4>2, <4>4, Zenon
    <3>3. CASE LocalMount(v, FALSE) /\ SetJob(v, Start("undo"))
      <4>1. mounted' = mounted
        BY <3>3 DEF LocalMount
      <4>2. Start("undo").op = "undo" /\ Start("undo").at = "get"
        BY <1>3 DEF Ops
      <4>3. ASSUME jobs'[v] = Start("undo"), runs'[v] = runs[v] PROVE Tracked(v)'
        BY <1>0, <1>1, <3>1, <4>1, <4>2, <4>3 DEF Tracked, Listed
      <4> QED BY <1>2, <2>0, <3>3, <4>1, <4>3, Zenon
    <3> QED BY <2>1, <3>2, <3>3, Zenon DEF Mount
  <2>2. CASE Unmount(v)
    <3>1. j.at = "local" /\ j.op = "prepare" /\ SetJob(v, Start("release"))
      BY <2>2 DEF Unmount
    <3>2. mounted' \subseteq mounted
      <4>1. PICK ok \in BOOLEAN : LocalUnmount(v, ok)
        BY <2>2 DEF Unmount
      <4> QED BY <4>1 DEF LocalUnmount
    <3>3. Start("release").op = "release" /\ Start("release").at = "get"
      BY <1>3 DEF Ops
    <3>4. ASSUME jobs'[v] = Start("release"), runs'[v] = runs[v] PROVE Tracked(v)'
      BY <1>0, <1>1, <3>1, <3>2, <3>3, <3>4 DEF Tracked, Listed
    <3> QED BY <1>2, <2>0, <3>1, <3>2, <3>4, Zenon
  <2>3. CASE Killed(v)
    <3>1. j.at \notin {"idle", "exit"} /\ SetJob(v, Exit(j.op, FALSE))
      BY <2>3, Zenon DEF Killed
    <3>2. \/ mounted' \subseteq mounted
          \/ j.at = "local" /\ j.op = "register" /\ mounted' = mounted \cup {v}
      BY <2>3, Zenon DEF Killed
    <3>3. Exit(j.op, FALSE).op = j.op /\ Exit(j.op, FALSE).at = "exit"
      BY <1>0, <1>3, Zenon
    <3>4. ASSUME jobs'[v] = Exit(j.op, FALSE), runs'[v] = runs[v] PROVE Tracked(v)'
      <4>1. CASE mounted' \subseteq mounted
        BY <1>1, <3>1, <3>3, <3>4, <4>1, Zenon DEF Tracked, Listed
      <4>2. CASE j.at = "local" /\ j.op = "register" /\ mounted' = mounted \cup {v}
        BY <1>1, <3>3, <3>4, <4>2, Zenon DEF Tracked, Listed
      <4> QED BY <3>2, <4>1, <4>2, Zenon
    <3> QED BY <1>2, <2>0, <3>1, <3>2, <3>4, Zenon
  <2> QED BY <1>6, <2>1, <2>2, <2>3
<1> QED BY <1>4, <1>5, <1>6

\* The status lists a volume for as long as it is mounted: it is registered
\* before Store.Mount and unregistered after Store.Unmount, whatever the
\* commands of other nodes do, and wherever its own are killed or fail.
THEOREM MountedVolumesAreListed == Spec => []ListedWhileMounted
<1>1. Init => Tracking
  <2>1. ASSUME Init PROVE Tracking
    <3>1. cache.vols = {} /\ mounted = {} /\ runs = [v \in Volume |-> 0]
      BY <2>1, NewCacheType, Zenon DEF Init, NoCache
    <3>2. \A v \in Volume : jobs[v].at = "idle" /\ jobs[v].op = "register"
      BY <2>1, Zenon DEF Init, NoJob
    <3> QED BY <3>1, <3>2 DEF Tracking, Tracked
  <2> QED BY <2>1
<1>2. ASSUME Inv, Tracking, [Next]_vars PROVE Tracking'
  <2>1. CASE UserDrops \/ UserProtects
    <3>1. edits \in Nat /\ edits' = edits + 1 /\ UNCHANGED <<jobs, mounted, runs>> /\ cache.st = "stored"
      BY <2>1, <1>2 DEF UserDrops, UserProtects, Edit, Inv, TypeOK
    <3>2. cache'.st = "none" => cache'.vols = {}
      BY <2>1, <1>2 DEF UserDrops, UserProtects, Edit, NoCache, Inv, TypeOK, Cache
    <3>3. \A w \in Volume : Tracked(w)'
      BY <1>2, <3>1, TrackedStays DEF Tracking
    <3> QED BY <3>2, <3>3 DEF Tracking
  <2>2. CASE UNCHANGED vars
    BY <1>2, <2>2 DEF vars, Tracking, Tracked, Listed
  <2> QED BY <1>2, <2>1, <2>2, RequestTracks, CommandTracks, Zenon DEF Next, Rest
<1>3. Inv /\ Tracking => ListedWhileMounted
  BY DEF Inv, TypeOK, Tracking, Tracked, Listed, ListedWhileMounted
<1> QED BY <1>1, <1>2, <1>3, InvInductive, PTL DEF Spec

-----------------------------------------------------------------------------
(* Unmounted volumes are not. *)

\* An umount command that reported success.
Succeeded(j) == j.at = "exit" /\ j.op = "release" /\ j.ok

Removed ==
  /\ cache.st = "none" => cache.vols = {}
  /\ \A v \in Volume : Succeeded(jobs[v]) => ~Listed(v)

\* Commands succeed only where their last update did, or found no resource.
LEMMA Successes ==
  \A op \in Ops :
    /\ ~Succeeded(Start(op)) /\ ~Succeeded(Exit(op, FALSE)) /\ ~Succeeded(Updated(op, "error"))
    /\ op # "release" => \A ok : ~Succeeded(Exit(op, ok))
    /\ op # "release" => \A out : ~Succeeded(Updated(op, out))
<1> SUFFICES ASSUME NEW op \in Ops
             PROVE  /\ ~Succeeded(Start(op)) /\ ~Succeeded(Exit(op, FALSE))
                    /\ ~Succeeded(Updated(op, "error"))
                    /\ op # "release" => \A ok : ~Succeeded(Exit(op, ok))
                    /\ op # "release" => \A out : ~Succeeded(Updated(op, out))
  OBVIOUS
<1>1. ~Succeeded(Start(op)) /\ (op # "release" => \A ok : ~Succeeded(Exit(op, ok)))
  BY JobShape DEF Succeeded
<1>2. ~Succeeded(Exit(op, FALSE))
  <2>1. Exit(op, FALSE).ok = FALSE BY DEF Exit, NoJob
  <2> QED BY <2>1, Zenon DEF Succeeded
<1>3. op # "release" => \A out : ~Succeeded(Updated(op, out))
  BY JobShape DEF Succeeded
<1>4. ~Succeeded(Updated(op, "error"))
  <2>1. CASE op = "release"
    <3>1. Updated(op, "error") = Exit(op, FALSE) BY <2>1 DEF Updated
    <3> QED BY <1>2, <3>1
  <2> QED BY <1>3, <2>1
<1> QED BY <1>1, <1>2, <1>3, <1>4

\* A step that leaves the resource alone.
LEMMA MoveRemoves ==
  ASSUME Inv, Removed, NEW v \in Volume, NEW k, SetJob(v, k), UNCHANGED cache,
         Succeeded(k) => cache.st = "none"
  PROVE  Removed'
<1>1. jobs'[v] = k /\ \A w \in Volume \ {v} : jobs'[w] = jobs[w]
  BY DEF SetJob, Inv, TypeOK
<1> QED BY <1>1 DEF Removed, Listed

\* Every request of updateCache.
LEMMA RequestRemoves ==
  ASSUME Inv, Removed, NEW v \in Volume, Request(v)
  PROVE  Removed'
<1> DEFINE j == jobs[v]
<1>0. j \in Job /\ j.op \in Ops /\ jobs \in [Volume -> Job] /\ cache \in Cache
  BY DEF Inv, TypeOK, Job, Ops
<1>1. CASE Get(v)
  <2> DEFINE k == IF cache.st = "stored"
                  THEN [j EXCEPT !.at = "put", !.seen = cache]
                  ELSE IF j.op = "register" /\ j.at = "get"
                  THEN [j EXCEPT !.at = "create"]
                  ELSE Updated(j.op, "notfound")
  <2>1. cache.st # "none" => k.at = "put"
    <3>1. [j EXCEPT !.at = "put", !.seen = cache].at = "put" BY <1>0 DEF Job
    <3> QED BY <1>0, <3>1 DEF Cache
  <2>2. SetJob(v, k) /\ UNCHANGED cache BY <1>1 DEF Get
  <2> HIDE DEF k
  <2> QED BY <2>1, <2>2, MoveRemoves DEF Succeeded
<1>2. CASE PutRefused(v)
  <2> DEFINE k == IF cache.st = "none" THEN Updated(j.op, "notfound")
                  ELSE IF j.try < Steps
                  THEN [Start(j.op) EXCEPT !.try = j.try + 1]
                  ELSE Updated(j.op, "error")
  <2>1. cache.st # "none" => ~Succeeded(k)
    <3>1. [Start(j.op) EXCEPT !.try = j.try + 1].at = "get" BY DEF Start, NoJob
    <3>2. ~Succeeded(Updated(j.op, "error")) BY <1>0, Successes, Zenon
    <3> QED BY <3>1, <3>2, Zenon DEF Succeeded
  <2>2. SetJob(v, k) /\ UNCHANGED cache BY <1>2 DEF PutRefused
  <2> HIDE DEF k
  <2> QED BY <2>1, <2>2, MoveRemoves
<1>3. CASE RequestFails(v)
  <2>1. ~Succeeded(Updated(j.op, "error")) BY <1>0, Successes, Zenon
  <2>2. SetJob(v, Updated(j.op, "error")) /\ UNCHANGED cache BY <1>3 DEF RequestFails
  <2> QED BY <2>1, <2>2, MoveRemoves
<1>4. CASE Create(v)
  <2>1. jobs'[v].at = "reget" /\ \A w \in Volume \ {v} : jobs'[w] = jobs[w]
    BY <1>0, <1>4 DEF Create, SetJob, Job
  <2>2. cache' = cache \/ (cache'.st = "stored" /\ cache'.vols = {})
    BY <1>4 DEF Create, NoCache
  <2> QED BY <2>1, <2>2 DEF Removed, Listed, Succeeded
<1>5. CASE Put(v)
  <2>1. jobs'[v] = Updated(j.op, "ok") /\ \A w \in Volume \ {v} : jobs'[w] = jobs[w]
    BY <1>0, <1>5 DEF Put, SetJob
  <2>2. /\ cache'.st = "stored" /\ (j.op = "release" => ~Listed(v)')
        /\ \A w \in Volume \ {v} : Listed(w)' => Listed(w)
    BY <1>5, PutListed
  <2>3. Succeeded(jobs'[v]) => j.op = "release"
    BY <1>0, <2>1, Successes, Zenon
  <2> QED BY <2>1, <2>2, <2>3 DEF Removed
<1> QED BY <1>1, <1>2, <1>3, <1>4, <1>5 DEF Request, Answer

\* An umount command that reports success has removed the entry of its volume,
\* for good: UnregisterCacheVolume reports that it gave up, and a copy from
\* before the removal is never stored (updateCache).
THEOREM UnmountedVolumesAreUnlisted == Spec => []UnlistedAfterUmount
<1>1. Init => Removed
  <2>1. ASSUME Init PROVE Removed
    <3>1. cache.vols = {} /\ \A v \in Volume : jobs[v].at = "idle"
      BY <2>1, NewCacheType, Zenon DEF Init, NoCache, NoJob
    <3> QED BY <3>1 DEF Removed, Succeeded, Listed
  <2> QED BY <2>1
<1>2. ASSUME Inv, Removed, [Next]_vars PROVE Removed'
  <2>1. ASSUME NEW v \in Volume,
               StartMount(v) \/ StartUnmount(v) \/ Mount(v) \/ Unmount(v) \/ Killed(v)
        PROVE  Removed'
    <3>0. jobs[v].op \in Ops BY <1>2 DEF Inv, TypeOK, Job, Ops
    <3>1. \E k : SetJob(v, k) /\ ~Succeeded(k)
      <4>1. CASE StartMount(v) \/ StartUnmount(v)
        BY <4>1, Successes, Zenon DEF StartMount, StartUnmount, Run, Ops
      <4>2. CASE Mount(v)
        BY <4>2, Successes, Zenon DEF Mount, Ops
      <4>3. CASE Unmount(v)
        BY <4>3, Successes, Zenon DEF Unmount, Ops
      <4>4. CASE Killed(v)
        BY <3>0, <4>4, Successes, Zenon DEF Killed
      <4> QED BY <2>1, <4>1, <4>2, <4>3, <4>4
    <3>2. UNCHANGED cache BY <1>2, <2>1, CommandKeeps
    <3> QED BY <1>2, <3>1, <3>2, MoveRemoves
  <2>2. CASE UserDrops \/ UserProtects
    <3>1. cache.st = "stored" /\ UNCHANGED jobs
      BY <2>2 DEF UserDrops, UserProtects, Edit
    <3>2. cache'.vols = {} \/ (cache'.vols = cache.vols /\ cache'.st = "stored")
      BY <1>2, <2>2, <3>1 DEF UserDrops, UserProtects, Edit, NoCache, Inv, TypeOK, Cache
    <3> QED BY <1>2, <3>1, <3>2 DEF Removed, Listed
  <2>3. CASE UNCHANGED vars
    BY <1>2, <2>3 DEF vars, Removed, Listed
  <2> QED BY <1>2, <2>1, <2>2, <2>3, RequestRemoves, Zenon DEF Next, Rest
<1>3. Removed => UnlistedAfterUmount
  BY DEF Removed, Succeeded, Listed, UnlistedAfterUmount
<1> QED BY <1>1, <1>2, <1>3, InvInductive, PTL DEF Spec

=============================================================================
