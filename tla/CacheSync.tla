------------------------------ MODULE CacheSync ------------------------------
(***************************************************************************)
(* internal/ksync: the layerfs commands of many nodes keep the status of   *)
(* the Cache resource they share (sync.go) around mounting and unmounting  *)
(* their volumes (syncedstore.go).  Every update reads the resource, works *)
(* on the copy and stores it; the API server refuses a copy that is not of *)
(* the latest resource version, and the update starts over, a limited      *)
(* number of times.  The client reads from the API server, not a cache.    *)
(*                                                                         *)
(* Of the local store (internal/layerfs) only what its caller sees is here *)
(* (LocalMount, LocalUnmount).                                             *)
(***************************************************************************)
EXTENDS Naturals

CONSTANTS
  Volume,  \* names of the volumes of one cache (each is on one node)
  Steps,   \* how often an update is tried, backoff.Steps
  Commit,  \* does umount run with --commit?
  Events,  \* what else may happen, a subset of EventKind
  MaxRuns, \* bound: the commands that are run for a volume
  MaxEdits \* bound: what users do to the resource

\* A user deletes the resource, or makes it read-only or writable; a request
\* fails; the local store fails; a command is killed; one is run once more.
EventKind == {"drop", "protect", "apiError", "localError", "killed", "rerun"}

ASSUME SyncAssumption ==
  /\ Steps \in Nat \ {0} /\ Commit \in BOOLEAN /\ Events \subseteq EventKind
  /\ MaxRuns \in Nat /\ MaxEdits \in Nat

VARIABLES
  cache,     \* the Cache resource, without its resource version
  fresh,     \* commands whose copy is of the latest resource version
  jobs,      \* the command that runs, or ran last, for each volume
  mounted,   \* volumes the local store has mounted
  written,   \* volumes whose contents were committed
  runs,      \* commands started for each volume
  edits      \* what users did to the resource so far

vars == <<cache, fresh, jobs, mounted, written, runs, edits>>

-----------------------------------------------------------------------------

VolumeStatus == [v : Volume, gen : Nat, committable : BOOLEAN, lock : BOOLEAN]

Cache == [st : {"none", "stored"}, ro : BOOLEAN, used : Nat, gen : Nat,
          vols : SUBSET VolumeStatus]

NoCache == [st |-> "none", ro |-> FALSE, used |-> 0, gen |-> 0, vols |-> {}]

\* op: the update a command is at, or was at last.  at: its next request; the
\* call of the local store; or the exit of the command.
Job == [op : {"register", "undo", "prepare", "release"},
        at : {"idle", "get", "create", "reget", "put", "local", "exit"},
        try : 1..Steps, ok : BOOLEAN, seen : Cache]

NoJob == [op |-> "register", at |-> "idle", try |-> 1, ok |-> TRUE, seen |-> NoCache]

Start(op) == [NoJob EXCEPT !.op = op, !.at = "get"]
Exit(op, ok) == [NoJob EXCEPT !.op = op, !.at = "exit", !.ok = ok]

SetJob(v, j) == jobs' = [jobs EXCEPT ![v] = j]

-----------------------------------------------------------------------------
(* The modifications of the copy. *)

\* Mutant of AddVolume: the generation is not raised.
AddVolumeSameGeneration(c, v) ==
  [c EXCEPT !.vols = @ \cup {[v |-> v, gen |-> c.gen, committable |-> ~c.ro, lock |-> FALSE]}]

AddVolume(c, v) ==
  LET g == IF c.ro THEN c.gen ELSE c.gen + 1 IN
  IF \E e \in c.vols : e.v = v THEN c
  ELSE [c EXCEPT !.gen = g,
                 !.vols = @ \cup {[v |-> v, gen |-> g, committable |-> ~c.ro, lock |-> FALSE]}]

RemoveVolume(c, v) == [c EXCEPT !.vols = {e \in @ : e.v # v}]

\* True when some volume has no commit going on, the one that asks for one.  A
\* lock that timed out would be removed here, but none is ever set (theorem
\* CommitNeverStarts of CacheSyncProofs).
CommitInProgress(c) == \E e \in c.vols : ~e.lock

Grants(c, v) ==
  /\ ~c.ro
  /\ \E e \in c.vols : e.v = v /\ e.committable
  /\ ~CommitInProgress(c)

PrepareCommit(c, v) ==
  IF Grants(c, v)
  THEN [c EXCEPT !.vols = {[e EXCEPT !.lock = @ \/ e.v = v] : e \in c.vols}]
  ELSE c

Modified(op, c, v) ==
  CASE op = "register" -> [AddVolume(c, v) EXCEPT !.used = @ + 1]
    [] op = "prepare"  -> PrepareCommit(c, v)
    [] OTHER           -> RemoveVolume(c, v)

-----------------------------------------------------------------------------
(* updateCache, request by request. *)

\* How a command goes on after its update.  The errors of PrepareCommit and of
\* the undo after a failed mount are dropped; a resource that is gone is an
\* error of RegisterCacheVolume only.
Updated(op, outcome) ==
  CASE op = "register" -> IF outcome = "ok" THEN [NoJob EXCEPT !.op = op, !.at = "local"]
                          ELSE Exit(op, FALSE)
    [] op = "prepare"  -> [NoJob EXCEPT !.op = op, !.at = "local"]
    [] op = "undo"     -> Exit(op, FALSE)
    [] op = "release"  -> Exit(op, outcome # "error")

Get(v) ==
  /\ jobs[v].at \in {"get", "reget"}
  /\ fresh' = IF cache.st = "stored" THEN fresh \cup {v} ELSE fresh
  /\ SetJob(v, IF cache.st = "stored"
               THEN [jobs[v] EXCEPT !.at = "put", !.seen = cache]
               ELSE IF jobs[v].op = "register" /\ jobs[v].at = "get"
               THEN [jobs[v] EXCEPT !.at = "create"]
               ELSE Updated(jobs[v].op, "notfound"))
  /\ UNCHANGED cache

\* AlreadyExists is as good.
Create(v) ==
  /\ jobs[v].at = "create"
  /\ SetJob(v, [jobs[v] EXCEPT !.at = "reget"])
  /\ \/ cache.st = "none" /\ cache' = [NoCache EXCEPT !.st = "stored"] /\ fresh' = {}
     \/ cache.st = "stored" /\ UNCHANGED <<cache, fresh>>

\* Mutant of IsLatest: the copy overwrites whatever is stored.
IsStored(v) == cache.st = "stored"

\* The resource version of the copy is the latest one.
IsLatest(v) == cache.st = "stored" /\ v \in fresh

\* An update that changes nothing but, at most, when the node was last used
\* may or may not make a new version: the time is kept in seconds.
Put(v) ==
  LET new == Modified(jobs[v].op, jobs[v].seen, v) IN
  /\ jobs[v].at = "put" /\ IsLatest(v)
  /\ cache' = new
  /\ fresh' \in IF new # cache THEN {{}} ELSE {{}, fresh \ {v}}
  /\ SetJob(v, Updated(jobs[v].op, "ok"))

\* Mutant of PutRefused: a conflict is tried again with the same copy.
PutRefusedAgain(v) ==
  /\ jobs[v].at = "put" /\ ~IsLatest(v)
  /\ SetJob(v, IF cache.st = "none" THEN Updated(jobs[v].op, "notfound") ELSE jobs[v])
  /\ UNCHANGED <<cache, fresh>>

\* Mutant of PutRefused: one attempt too many.
PutRefusedLate(v) ==
  /\ jobs[v].at = "put" /\ ~IsLatest(v)
  /\ SetJob(v, IF cache.st = "none" THEN Updated(jobs[v].op, "notfound")
               ELSE IF jobs[v].try <= Steps
               THEN [Start(jobs[v].op) EXCEPT !.try = jobs[v].try + 1]
               ELSE Updated(jobs[v].op, "error"))
  /\ UNCHANGED <<cache, fresh>>

\* Mutant of PutRefused: the last conflict is dropped like the others.
PutRefusedSilently(v) ==
  /\ jobs[v].at = "put" /\ ~IsLatest(v)
  /\ SetJob(v, IF cache.st = "none" THEN Updated(jobs[v].op, "notfound")
               ELSE IF jobs[v].try < Steps
               THEN [Start(jobs[v].op) EXCEPT !.try = jobs[v].try + 1]
               ELSE Updated(jobs[v].op, "ok"))
  /\ UNCHANGED <<cache, fresh>>

\* NotFound, or a conflict: once more from the start, or the end.
PutRefused(v) ==
  /\ jobs[v].at = "put" /\ ~IsLatest(v)
  /\ SetJob(v, IF cache.st = "none" THEN Updated(jobs[v].op, "notfound")
               ELSE IF jobs[v].try < Steps
               THEN [Start(jobs[v].op) EXCEPT !.try = jobs[v].try + 1]
               ELSE Updated(jobs[v].op, "error"))
  /\ UNCHANGED <<cache, fresh>>

RequestFails(v) ==
  /\ "apiError" \in Events
  /\ jobs[v].at \in {"get", "create", "reget", "put"}
  /\ SetJob(v, Updated(jobs[v].op, "error"))
  /\ fresh' = fresh \ {v}
  /\ UNCHANGED cache

Answer(v) ==
  /\ Get(v) \/ Create(v) \/ Put(v) \/ PutRefused(v)
  /\ UNCHANGED <<mounted, written, runs, edits>>

Request(v) ==
  \/ Answer(v)
  \/ RequestFails(v) /\ UNCHANGED <<mounted, written, runs, edits>>

-----------------------------------------------------------------------------
(* The commands. *)

Run(v, op) ==
  /\ runs[v] < MaxRuns
  /\ runs' = [runs EXCEPT ![v] = @ + 1]
  /\ SetJob(v, Start(op))
  /\ UNCHANGED <<cache, fresh, mounted, written, edits>>

\* The provisioner Pod runs layerfs mount.
StartMount(v) ==
  /\ \/ jobs[v].at = "idle"
     \/ jobs[v].at = "exit" /\ jobs[v].op \in {"register", "undo"} /\ "rerun" \in Events
  /\ Run(v, "register")

\* The deprovisioner Pod runs layerfs umount, once the volume was provisioned.
StartUnmount(v) ==
  /\ jobs[v].at = "exit"
  /\ (jobs[v].op = "register" /\ jobs[v].ok) \/ "rerun" \in Events
  /\ Run(v, "prepare")

\* Mounting fails when the directory exists, or for reasons of its own, and
\* then cleans up.
LocalMount(v, ok) ==
  IF ok THEN v \notin mounted /\ mounted' = mounted \cup {v}
  ELSE (v \in mounted \/ "localError" \in Events) /\ UNCHANGED mounted

\* Unmounting fails when there is no container; a failure on the way may leave
\* the mount behind, or remove the container without having committed it.
LocalUnmount(v, ok) ==
  IF ok THEN /\ v \in mounted
             /\ mounted' = mounted \ {v}
             /\ written' = IF Commit THEN written \cup {v} ELSE written
  ELSE /\ v \notin mounted \/ "localError" \in Events
       /\ mounted' \in {mounted, mounted \ {v}}
       /\ UNCHANGED written

\* The command may still fail after the mount succeeded, at the chmod.
Mount(v) ==
  /\ jobs[v].at = "local" /\ jobs[v].op = "register"
  /\ \/ /\ LocalMount(v, TRUE)
        /\ \E ok \in BOOLEAN :
             (ok \/ "localError" \in Events) /\ SetJob(v, Exit("register", ok))
     \/ LocalMount(v, FALSE) /\ SetJob(v, Start("undo"))
  /\ UNCHANGED <<cache, fresh, written, runs, edits>>

\* PrepareCommit is not asked what it decided; the error of the unmount is only
\* noted in the resource.
Unmount(v) ==
  /\ jobs[v].at = "local" /\ jobs[v].op = "prepare"
  /\ SetJob(v, Start("release"))
  /\ \E ok \in BOOLEAN : LocalUnmount(v, ok)
  /\ UNCHANGED <<cache, fresh, runs, edits>>

\* The Pod is deleted, or its node fails; what the local store was doing may
\* be done or not.
Killed(v) ==
  /\ "killed" \in Events /\ jobs[v].at \notin {"idle", "exit"}
  /\ SetJob(v, Exit(jobs[v].op, FALSE))
  /\ fresh' = fresh \ {v}
  /\ \/ UNCHANGED <<mounted, written>>
     \/ /\ jobs[v].at = "local" /\ jobs[v].op = "register"
        /\ mounted' = mounted \cup {v} /\ UNCHANGED written
     \/ /\ jobs[v].at = "local" /\ jobs[v].op = "prepare"
        /\ mounted' = mounted \ {v}
        /\ written' \in {written, IF Commit THEN written \cup (mounted \cap {v}) ELSE written}
  /\ UNCHANGED <<cache, runs, edits>>

Edit(new) ==
  /\ cache.st = "stored" /\ edits < MaxEdits
  /\ cache' = new /\ fresh' = {} /\ edits' = edits + 1
  /\ UNCHANGED <<jobs, mounted, written, runs>>

UserDrops == "drop" \in Events /\ Edit(NoCache)
UserProtects == "protect" \in Events /\ Edit([cache EXCEPT !.ro = ~@])

-----------------------------------------------------------------------------

\* Users may have made the resource before, or let a command make it; one that
\* is read-only from the start is one they edit before any command is run.
Init ==
  /\ cache = NoCache \/ cache = [NoCache EXCEPT !.st = "stored"]
  /\ fresh = {}
  /\ jobs = [v \in Volume |-> NoJob]
  /\ mounted = {} /\ written = {}
  /\ runs = [v \in Volume |-> 0] /\ edits = 0

\* No command runs, and none need be started: not a deadlock.
Rest == (\A v \in Volume : jobs[v].at \in {"idle", "exit"}) /\ UNCHANGED vars

Next ==
  \/ \E v \in Volume :
       \/ Request(v)
       \/ StartMount(v) \/ StartUnmount(v) \/ Mount(v) \/ Unmount(v) \/ Killed(v)
  \/ UserDrops \/ UserProtects \/ Rest

Spec == Init /\ [][Next]_vars

\* A command that was started goes on, and the API server answers; nobody has to
\* start a command, and no request has to fail.
Fairness == \A v \in Volume : WF_vars(Answer(v) \/ Mount(v) \/ Unmount(v))

FairSpec == Spec /\ Fairness

-----------------------------------------------------------------------------
(* Properties. *)

\* The values the resource and the commands hold; no command makes more than
\* backoff.Steps attempts.
TypeOK ==
  /\ cache \in Cache /\ fresh \subseteq Volume
  /\ jobs \in [Volume -> Job]
  /\ mounted \subseteq Volume /\ written \subseteq Volume
  /\ runs \in [Volume -> 0..MaxRuns] /\ edits \in 0..MaxEdits

\* updateCache retries on conflict, so that no node undoes what another one
\* stored meanwhile: the resource changes as if every registration and every
\* removal were made in one piece (CacheLedger).
Ledger == INSTANCE CacheLedger WITH ledger <- cache
LedgerKept == Ledger!Spec

\* addVolume raises the generation for every volume that may be written back:
\* no two volumes of different nodes write back the same generation.
GenerationsDiffer ==
  \A e, f \in cache.vols : e.committable /\ f.committable /\ e.gen = f.gen => e = f

\* A volume that is mounted is listed until its umount command removes it,
\* whatever the commands of other nodes do and wherever its own are killed
\* (RegisterCacheVolume before Store.Mount, UnregisterCacheVolume after
\* Store.Unmount), unless a user edits the resource or more than one further
\* command is run for the volume (a repeated mount that fails unlists it).
ListedWhileMounted ==
  \A v \in mounted :
    edits = 0 /\ runs[v] <= 2 /\ jobs[v].op \in {"register", "prepare"}
      => \E e \in cache.vols : e.v = v

\* Once an umount command reports success the entry of its volume is gone, and
\* no node that worked on an older copy brings it back; a removal that gave up
\* after its last conflict, or whose request failed, is reported as an error of
\* the command (UnregisterCacheVolume, updateCache).
UnlistedAfterUmount ==
  \A v \in Volume :
    jobs[v].at = "exit" /\ jobs[v].op = "release" /\ jobs[v].ok => ~\E e \in cache.vols : e.v = v

\* Every command ends: an update that meets conflicts reads anew and gives up
\* after backoff.Steps attempts.
CommandEnds == \A v \in Volume : jobs[v].at = "get" ~> jobs[v].at = "exit"

\* An umount --commit command that succeeds has written the contents back.
SuccessMeansWritten ==
  \A v \in Volume :
    Commit /\ jobs[v].at = "exit" /\ jobs[v].op = "release" /\ jobs[v].ok => v \in written

=============================================================================
