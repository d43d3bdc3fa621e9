------------------------------ MODULE LayerStore ------------------------------
(***************************************************************************)
(* internal/layerfs on one node: the commands of cmd/layerfs mount and     *)
(* unmount the volumes of one cache as containers of its image, commit     *)
(* them to a new image and push it (store.go, push.go, mount.go), while    *)
(* another command prunes the images (prune.go).  Every operation of the   *)
(* store or of the file system is a step: the commands share the store and *)
(* hold no lock between two operations.                                    *)
(*                                                                         *)
(* A command is given the name of the container and, unless path is FALSE, *)
(* the mount directory; a volume has at most one command at a time.        *)
(***************************************************************************)
EXTENDS Naturals, Sequences, FiniteSets

CONSTANTS
  Volume,     \* the volumes of the cache on this node
  Sharing,    \* may the cache have an image in a registry?  A set of BOOLEAN
  Faults,     \* what may go wrong, a subset of FaultKind
  MaxRuns,    \* bound: the mount and umount commands
  MaxPrunes,  \* bound: the prune commands
  MaxFaults   \* bound: what goes wrong

\* An operation fails; a directory stays busy; the first signal cancels the
\* command's context; a second one, or a failing node, ends it.
FaultKind == {"failure", "busy", "signal", "kill"}

ASSUME StoreAssumption ==
  /\ Sharing \subseteq BOOLEAN /\ Faults \subseteq FaultKind
  /\ MaxRuns \in Nat /\ MaxPrunes \in Nat /\ MaxFaults \in Nat

VARIABLES
  shared,    \* the cache has an image in a registry (opts.Image is set)
  base,      \* of every image ever committed, the image it was made from
  stored,    \* the images in the store
  names,     \* the image that has the local name, and the one the registry's
  registry,  \* the image in the registry
  ctrs,      \* the container of each volume
  dirs,      \* the mount directory of each volume
  contents,  \* how far what was written into a volume has come
  cmds,      \* the command that runs, or ran last, for each volume
  prune,     \* the prune command
  runs,      \* commands started so far
  prunes,    \* prune commands started so far
  faults     \* what went wrong so far

vars == <<shared, base, stored, names, registry, ctrs, dirs, contents, cmds, prune, runs, prunes, faults>>

files == <<ctrs, dirs, contents>>
imgs == <<base, stored, names, registry>>

-----------------------------------------------------------------------------

\* Image 0 is no image: the volume starts empty ("scratch").
Image == Nat \ {0}
MaybeImage == Nat

\* dir: the arguments of the container have the mount directory (MOUNT_DIR).
Container == [base : MaybeImage, st : {"none", "made", "mounted"}, dirty : BOOLEAN, dir : BOOLEAN]
NoContainer == [base |-> 0, st |-> "none", dirty |-> FALSE, dir |-> FALSE]

\* made: how far a mount came.  at: the next operation, or how the command
\* ended.  image: the one it found or committed.  left: what a mount made and
\* could not remove.  failed: an operation failed that was not cancelled.
Command ==
  [made : {"nothing", "dir", "ctr"}, op : {"mount", "umount"},
   at : {"mkdir", "find", "create", "mount", "save", "bind", "drop", "rmdir",
         "detach", "open", "release", "commit", "push", "delete", "done", "killed"},
   ok : BOOLEAN, image : MaybeImage, path : BOOLEAN, commit : BOOLEAN,
   left : SUBSET {"dir", "ctr"}, cancelled : BOOLEAN, failed : BOOLEAN]

NewCommand(op, at, path, commit) ==
  [made |-> "nothing", op |-> op, at |-> at, ok |-> TRUE, image |-> 0, path |-> path,
   commit |-> commit, left |-> {}, cancelled |-> FALSE, failed |-> FALSE]

Active(v) == cmds[v].at \notin {"done", "killed"}

\* The images still to be looked at, the one to delete, its parent and whether
\* that had names when it was read; alone: no command ran meanwhile.
Pruning == [at : {"idle", "look", "family", "parent", "remove", "kin", "drop"},
            todo : SUBSET Image, id : MaybeImage, parent : MaybeImage, next : MaybeImage,
            named : BOOLEAN, nextNamed : BOOLEAN, alone : BOOLEAN]
NotPruning == [at |-> "idle", todo |-> {}, id |-> 0, parent |-> 0, next |-> 0,
               named |-> FALSE, nextNamed |-> FALSE, alone |-> FALSE]

-----------------------------------------------------------------------------
(* The store and the library that keeps it. *)

NamesOf(n) == {x \in {"local", "remote"} : names[x] = n}
InUse(n) == \E v \in Volume : ctrs[v].st # "none" /\ ctrs[v].base = n

Children(n) == {c \in stored : base[c] = n}
ParentOf(n) == IF base[n] \in stored THEN base[n] ELSE 0

\* The name is taken away from the image that had it.
Name(x, n) == names' = [names EXCEPT ![x] = n]

DeleteImage(n) ==
  /\ stored' = stored \ {n}
  /\ names' = [x \in DOMAIN names |-> IF names[x] = n THEN 0 ELSE names[x]]

Fault(kind) == kind \in Faults /\ faults < MaxFaults /\ faults' = faults + 1

Goes(v, at) == cmds' = [cmds EXCEPT ![v].at = at]
Ends(v, ok) == cmds' = [cmds EXCEPT ![v].at = "done", ![v].ok = @ /\ ok, ![v].image = 0]

-----------------------------------------------------------------------------
(* Mount. *)

Begin(v, c) ==
  /\ ~Active(v) /\ runs < MaxRuns
  /\ runs' = runs + 1
  /\ cmds' = [cmds EXCEPT ![v] = c]
  /\ prune' = [prune EXCEPT !.alone = FALSE]
  /\ UNCHANGED <<shared, imgs, files, prunes, faults>>

StartMount(v) == Begin(v, NewCommand("mount", "mkdir", TRUE, FALSE))

\* A directory that exists ends the command before anything is deferred.
Mkdir(v) ==
  /\ cmds[v].at = "mkdir"
  /\ \/ /\ dirs[v] = "none" /\ dirs' = [dirs EXCEPT ![v] = "empty"]
        /\ cmds' = [cmds EXCEPT ![v].at = "find", ![v].made = "dir"]
     \/ dirs[v] # "none" /\ Ends(v, FALSE) /\ UNCHANGED dirs
  /\ UNCHANGED <<imgs, ctrs, contents, faults>>

\* Mutant of FindImage: an image that is known by its name is not pulled.
FindUnpulled(v) ==
  /\ cmds[v].at = "find"
  /\ IF shared /\ registry # 0 THEN Name("remote", registry) ELSE UNCHANGED names
  /\ cmds' = [cmds EXCEPT ![v].at = "create",
                          ![v].image = IF shared THEN registry ELSE names["local"]]
  /\ UNCHANGED <<base, stored, registry, files, faults>>

\* newBuilder looks the local name up, or pulls the image of the registry; when
\* there is none it is called again for an empty container.
FindImage(v) ==
  /\ cmds[v].at = "find"
  /\ IF shared /\ registry # 0
     THEN stored' = stored \cup {registry} /\ Name("remote", registry)
     ELSE UNCHANGED <<stored, names>>
  /\ cmds' = [cmds EXCEPT ![v].at = "create",
                          ![v].image = IF shared THEN registry ELSE names["local"]]
  /\ UNCHANGED <<base, registry, files, faults>>

\* The name of the container may be taken, and the image be gone by now.
CreateContainer(v) ==
  /\ cmds[v].at = "create"
  /\ IF ctrs[v].st = "none" /\ cmds[v].image \in stored \cup {0}
     THEN /\ ctrs' = [ctrs EXCEPT ![v] = [NoContainer EXCEPT !.st = "made", !.base = cmds[v].image]]
          /\ contents' = [contents EXCEPT ![v] = "none"]
          /\ cmds' = [cmds EXCEPT ![v].at = "mount", ![v].made = "ctr"]
     ELSE /\ cmds' = [cmds EXCEPT ![v].at = "rmdir", ![v].ok = FALSE]
          /\ UNCHANGED <<ctrs, contents>>
  /\ UNCHANGED <<imgs, dirs, faults>>

MountContainer(v) ==
  /\ cmds[v].at = "mount"
  /\ ctrs' = [ctrs EXCEPT ![v].st = "mounted"] /\ Goes(v, "save")
  /\ UNCHANGED <<imgs, dirs, contents, faults>>

SaveMountDir(v) ==
  /\ cmds[v].at = "save"
  /\ ctrs' = [ctrs EXCEPT ![v].dir = TRUE] /\ Goes(v, "bind")
  /\ UNCHANGED <<imgs, dirs, contents, faults>>

\* The command may still fail after the mount succeeded, at the chmod.
BindMount(v) ==
  /\ cmds[v].at = "bind"
  /\ dirs' = [dirs EXCEPT ![v] = "bound"]
  /\ \/ Ends(v, TRUE) /\ UNCHANGED faults
     \/ Fault("failure") /\ Ends(v, FALSE)
  /\ UNCHANGED <<imgs, ctrs, contents>>

\* The deferred functions of a mount that failed, the last one first; their own
\* errors are ignored.  The container stays, mounted or not, if it cannot be
\* deleted.
DropContainer(v) ==
  /\ cmds[v].at = "drop"
  /\ \/ ctrs' = [ctrs EXCEPT ![v] = NoContainer] /\ Goes(v, "rmdir") /\ UNCHANGED faults
     \/ /\ Fault("failure")
        /\ \E st \in {ctrs[v].st, "made"} : ctrs' = [ctrs EXCEPT ![v].st = st]
        /\ cmds' = [cmds EXCEPT ![v].at = "rmdir", ![v].left = @ \cup {"ctr"}]
  /\ UNCHANGED <<imgs, dirs, contents>>

RemoveDir(v) ==
  /\ cmds[v].at = "rmdir"
  /\ \/ /\ dirs' = [dirs EXCEPT ![v] = IF @ = "empty" THEN "none" ELSE @]
        /\ Ends(v, FALSE) /\ UNCHANGED faults
     \/ /\ Fault("failure") /\ UNCHANGED dirs
        /\ cmds' = [cmds EXCEPT ![v].at = "done", ![v].ok = FALSE, ![v].image = 0,
                                ![v].left = @ \cup {"dir"}]
  /\ UNCHANGED <<imgs, ctrs, contents>>

-----------------------------------------------------------------------------
(* Unmount. *)

StartUmount(v) ==
  \E path, commit \in BOOLEAN :
    Begin(v, NewCommand("umount", IF path THEN "detach" ELSE "open", path, commit))

\* Mutant of Removed: a directory that is not mounted is not removed.
RemovedIfBound(d) == IF d = "bound" THEN "none" ELSE d

\* unmountAndDelete: the error of the unmount is dropped if the directory can
\* be removed, or is not there.
Removed(d) == "none"

\* How removing the directory ends.
UnmountAndDelete(v, ok) ==
  IF ok THEN dirs' = [dirs EXCEPT ![v] = Removed(@)] /\ UNCHANGED faults
  ELSE Fault("busy") /\ dirs[v] # "none" /\ UNCHANGED dirs

\* The error is overwritten by the next call.
Detach(v) ==
  /\ cmds[v].at = "detach"
  /\ \E ok \in BOOLEAN :
       /\ UnmountAndDelete(v, ok)
       /\ cmds' = [cmds EXCEPT ![v].at = "open", ![v].failed = ~ok]
  /\ UNCHANGED <<imgs, ctrs, contents>>

\* Without a container the command ends; one that was found may know of a
\* directory that the command was not given.
OpenBuilder(v) ==
  /\ cmds[v].at = "open"
  /\ \/ ctrs[v].st = "none" /\ Ends(v, FALSE) /\ UNCHANGED <<dirs, faults>>
     \/ /\ ctrs[v].st # "none" /\ (cmds[v].path \/ ~ctrs[v].dir)
        /\ Goes(v, "release") /\ UNCHANGED <<dirs, faults>>
     \/ /\ ctrs[v].st # "none" /\ ~cmds[v].path /\ ctrs[v].dir
        /\ \E ok \in BOOLEAN :
             /\ UnmountAndDelete(v, ok)
             /\ cmds' = [cmds EXCEPT ![v].at = "release", ![v].ok = ok, ![v].failed = ~ok]
  /\ UNCHANGED <<imgs, ctrs, contents>>

UnmountContainer(v) ==
  /\ cmds[v].at = "release"
  /\ ctrs' = [ctrs EXCEPT ![v].st = "made"]
  /\ Goes(v, IF cmds[v].ok /\ cmds[v].commit THEN "commit" ELSE "delete")
  /\ UNCHANGED <<imgs, dirs, contents, faults>>

\* Mutant of NothingChanged: what was committed in part is not looked at.
NothingToDo(c) == c.base # 0

\* commit makes an image even of an empty container that had none.
NothingChanged(c) == ~c.dirty /\ c.base # 0

\* A new image takes the local name.
CommitContainer(v) ==
  LET n == Len(base) + 1 IN
  /\ cmds[v].at = "commit"
  /\ IF NothingChanged(ctrs[v])
     THEN /\ cmds' = [cmds EXCEPT ![v].at = "delete", ![v].image = ctrs[v].base]
          /\ UNCHANGED <<imgs, contents>>
     ELSE /\ base' = Append(base, ctrs[v].base)
          /\ stored' = stored \cup {n} /\ Name("local", n)
          /\ contents' = [contents EXCEPT ![v] = IF @ = "written" THEN "committed" ELSE @]
          /\ cmds' = [cmds EXCEPT ![v].at = IF shared THEN "push" ELSE "delete", ![v].image = n]
          /\ UNCHANGED registry
  /\ UNCHANGED <<ctrs, dirs, faults>>

\* The image is read by its id and by the name it was committed under: it is
\* not found when it is gone, and may not be when another one has the name.
PushImage(v) ==
  /\ cmds[v].at = "push"
  /\ \/ /\ cmds[v].image \in stored
        /\ registry' = cmds[v].image
        /\ contents' = [contents EXCEPT ![v] = IF @ = "committed" THEN "pushed" ELSE @]
        /\ Goes(v, "delete")
     \/ /\ cmds[v].image \notin stored \/ names["local"] # cmds[v].image
        /\ cmds' = [cmds EXCEPT ![v].at = "delete", ![v].ok = FALSE, ![v].failed = TRUE]
        /\ UNCHANGED <<registry, contents>>
  /\ UNCHANGED <<base, stored, names, ctrs, dirs, faults>>

\* Mutant of KeepsContainer: the container is deleted in any case.
KeepsNothing(c) == FALSE

\* A cancelled command leaves the container, so that it can be tried again.
KeepsContainer(c) == c.cancelled

\* The deferred function of every umount that found its container.
DeleteContainer(v) ==
  /\ cmds[v].at = "delete"
  /\ ctrs' = IF KeepsContainer(cmds[v]) THEN ctrs ELSE [ctrs EXCEPT ![v] = NoContainer]
  /\ Ends(v, TRUE)
  /\ UNCHANGED <<imgs, dirs, contents, faults>>

-----------------------------------------------------------------------------
(* What goes wrong, and the Pods that use the volumes. *)

\* Mutant of Undo: the container stays.
UndoDir(at) ==
  CASE at \in {"find", "create", "mount", "save", "bind"} -> "rmdir"
    [] at \in {"release", "commit", "push"}    -> "delete"
    [] at \in {"mkdir", "open", "delete"}      -> "done"

\* Where an operation that fails leaves the rest to.
Undo(at) ==
  CASE at \in {"find", "create"}               -> "rmdir"
    [] at \in {"mount", "save", "bind"}        -> "drop"
    [] at \in {"release", "commit", "push"}    -> "delete"
    [] at \in {"mkdir", "open", "delete"}      -> "done"

\* The calls that are given the context fail once it is cancelled.
OperationFails(v) ==
  LET c == cmds[v] IN
  /\ c.at \in {"mkdir", "find", "create", "mount", "save", "bind",
              "open", "release", "commit", "push", "delete"}
  /\ \/ Fault("failure")
     \/ c.cancelled /\ c.at \in {"find", "create", "commit", "push"} /\ UNCHANGED faults
  /\ c.at = "delete" => ~KeepsContainer(c)
  /\ cmds' = [cmds EXCEPT ![v].at = Undo(c.at), ![v].ok = FALSE, ![v].failed = @ \/ ~c.cancelled]
  /\ UNCHANGED <<imgs, files>>

Cancel(v) ==
  /\ Fault("signal") /\ Active(v) /\ ~cmds[v].cancelled
  /\ cmds' = [cmds EXCEPT ![v].cancelled = TRUE]
  /\ UNCHANGED <<imgs, files>>

Kill(v) ==
  /\ Fault("kill") /\ Active(v)
  /\ cmds' = [cmds EXCEPT ![v].at = "killed", ![v].ok = FALSE, ![v].image = 0]
  /\ UNCHANGED <<imgs, files>>

\* The Pod that has the volume writes into its directory.
PodWrites(v) ==
  /\ dirs[v] = "bound" /\ ctrs[v].st # "none" /\ ~Active(v) /\ cmds[v].op = "mount"
  /\ ctrs' = [ctrs EXCEPT ![v].dirty = TRUE]
  /\ contents' = [contents EXCEPT ![v] = "written"]
  /\ UNCHANGED <<imgs, dirs, cmds, faults>>

-----------------------------------------------------------------------------
(* Prune. *)

PruneGoes(p) == prune' = p
Skip == [NotPruning EXCEPT !.at = "look", !.todo = prune.todo, !.alone = prune.alone]

\* Mutant of Dangling: images with names are not left out.
AllImages == stored

Dangling == {n \in stored : NamesOf(n) = {}}

\* findDanglingImages
StartPrune ==
  /\ prune.at = "idle" /\ prunes < MaxPrunes
  /\ prunes' = prunes + 1
  /\ PruneGoes([NotPruning EXCEPT !.at = "look", !.todo = Dangling,
                                  !.alone = \A v \in Volume : ~Active(v)])
  /\ UNCHANGED <<imgs, faults>>

\* The next image is left if it is gone, has a container or two names.  One
\* name that it got meanwhile does not count: deleteImages empties the list of
\* names of its copy.
LookAtImage ==
  /\ prune.at = "look"
  /\ \/ prune.todo = {} /\ PruneGoes([prune EXCEPT !.at = "idle"])
     \/ \E n \in prune.todo :
          LET p == [prune EXCEPT !.todo = @ \ {n}] IN
          PruneGoes(IF n \in stored /\ ~InUse(n) /\ Cardinality(NamesOf(n)) <= 1
                    THEN [p EXCEPT !.at = "family", !.id = n] ELSE p)
  /\ UNCHANGED <<imgs, prunes, faults>>

\* imageIsParent
LookForChildren ==
  /\ prune.at = "family"
  /\ PruneGoes(IF prune.id \in stored /\ Children(prune.id) = {}
               THEN [prune EXCEPT !.at = "parent"] ELSE Skip)
  /\ UNCHANGED <<imgs, prunes, faults>>

\* getParent
LookForParent ==
  /\ prune.at = "parent"
  /\ PruneGoes(IF prune.id \in stored
               THEN [prune EXCEPT !.at = "remove", !.parent = ParentOf(prune.id),
                                  !.named = NamesOf(ParentOf(prune.id)) # {}]
               ELSE Skip)
  /\ UNCHANGED <<imgs, prunes, faults>>

\* The store refuses to delete an image that a container was made from.
RemoveImage ==
  /\ prune.at = "remove"
  /\ IF prune.id \in stored /\ ~InUse(prune.id)
     THEN /\ DeleteImage(prune.id)
          /\ PruneGoes(IF prune.parent = 0 THEN Skip ELSE [prune EXCEPT !.at = "kin"])
     ELSE PruneGoes(Skip) /\ UNCHANGED <<stored, names>>
  /\ UNCHANGED <<base, registry, prunes, faults>>

\* Mutant of KeepsParent: the parents are never looked at.
KeepsEveryParent(p, named) == TRUE

\* The names are those that the parent had when it was found.
KeepsParent(p, named) == named \/ Children(p) # {}

\* The parents that are neither named nor parents any more go, too.
LookAtParent ==
  /\ prune.at = "kin"
  /\ PruneGoes(IF prune.parent \notin stored \/ KeepsParent(prune.parent, prune.named) THEN Skip
               ELSE [prune EXCEPT !.at = "drop", !.next = ParentOf(prune.parent),
                                  !.nextNamed = NamesOf(ParentOf(prune.parent)) # {}])
  /\ UNCHANGED <<imgs, prunes, faults>>

\* An error is only logged.
RemoveParent ==
  /\ prune.at = "drop"
  /\ IF prune.parent \in stored /\ ~InUse(prune.parent)
     THEN DeleteImage(prune.parent) ELSE UNCHANGED <<stored, names>>
  /\ PruneGoes(IF prune.next = 0 THEN Skip
               ELSE [prune EXCEPT !.at = "kin", !.parent = prune.next, !.named = prune.nextNamed,
                                  !.next = 0, !.nextNamed = FALSE])
  /\ UNCHANGED <<base, registry, prunes, faults>>

KillPrune ==
  /\ Fault("kill") /\ prune.at # "idle"
  /\ PruneGoes([NotPruning EXCEPT !.alone = FALSE])
  /\ UNCHANGED <<imgs, prunes>>

-----------------------------------------------------------------------------

NoImages == base = <<>> /\ stored = {} /\ names = [x \in {"local", "remote"} |-> 0] /\ registry = 0

NothingMounted ==
  /\ ctrs = [v \in Volume |-> NoContainer]
  /\ dirs = [v \in Volume |-> "none"]
  /\ contents = [v \in Volume |-> "none"]
  /\ cmds = [v \in Volume |-> [NewCommand("umount", "done", FALSE, FALSE) EXCEPT !.ok = FALSE]]
  /\ prune = NotPruning /\ prunes = 0 /\ faults = 0

\* A node that was not used yet.
Init == shared \in Sharing /\ NoImages /\ NothingMounted /\ runs = 0

Operation(v) ==
  \/ Mkdir(v) \/ FindImage(v) \/ CreateContainer(v) \/ MountContainer(v) \/ SaveMountDir(v)
  \/ BindMount(v) \/ DropContainer(v) \/ RemoveDir(v)
  \/ Detach(v) \/ OpenBuilder(v) \/ UnmountContainer(v) \/ CommitContainer(v) \/ PushImage(v)
  \/ DeleteContainer(v)
  \/ OperationFails(v) \/ Cancel(v) \/ Kill(v) \/ PodWrites(v)

PruneStep ==
  \/ StartPrune \/ LookAtImage \/ LookForChildren \/ LookForParent \/ RemoveImage
  \/ LookAtParent \/ RemoveParent \/ KillPrune

\* Nothing runs, and nothing need be started: not a deadlock.
Rest == (\A v \in Volume : ~Active(v)) /\ prune.at = "idle" /\ UNCHANGED vars

Next ==
  \/ \E v \in Volume : StartMount(v) \/ StartUmount(v)
  \/ (\E v \in Volume : Operation(v)) /\ UNCHANGED <<shared, prune, runs, prunes>>
  \/ PruneStep /\ UNCHANGED <<shared, files, cmds, runs>>
  \/ Rest

Spec == Init /\ [][Next]_vars

-----------------------------------------------------------------------------
(* Properties. *)

\* The values of the store, the commands and the prune command; a name is
\* always that of a stored image.
TypeOK ==
  /\ shared \in BOOLEAN
  /\ base \in Seq(MaybeImage) /\ stored \subseteq 1..Len(base)
  /\ names \in [{"local", "remote"} -> {0} \cup stored]
  /\ registry \in {0} \cup 1..Len(base)
  /\ ctrs \in [Volume -> Container]
  /\ dirs \in [Volume -> {"none", "empty", "bound"}]
  /\ contents \in [Volume -> {"none", "written", "committed", "pushed"}]
  /\ cmds \in [Volume -> Command]
  /\ prune \in Pruning
  /\ runs \in 0..MaxRuns /\ prunes \in 0..MaxPrunes /\ faults \in 0..MaxFaults

\* A container whose contents are not committed is removed only by an umount
\* without --commit or one in which an operation failed: not by the clean-up of
\* a mount that is tried again, not by a command that is cancelled or killed,
\* nor by the umount after one (the deferred functions of Mount and Unmount).
NothingLost ==
  [][\A v \in Volume :
       contents[v] = "written" /\ ctrs[v].st # "none" /\ ctrs'[v].st = "none"
         => cmds[v].op = "umount" /\ (cmds[v].failed \/ ~cmds[v].commit)]_vars

\* A mount that ends after it made the directory leaves both directory and
\* container (only the chmod of the command fails with both in place), or fails
\* and leaves of what it made only what it could not remove: a clean-up that
\* fails does not keep the other one from being done, and what stays is never
\* bound (the deferred functions of Mount, which ignore their own errors).
MountAllOrNothing ==
  \A v \in Volume :
    cmds[v].at = "done" /\ cmds[v].op = "mount" /\ cmds[v].made # "nothing"
      => \/ dirs[v] = "bound" /\ ctrs[v].st = "mounted" /\ ctrs[v].dir
         \/ /\ ~cmds[v].ok
            /\ dirs[v] = IF "dir" \in cmds[v].left THEN "empty" ELSE "none"
            /\ cmds[v].made = "ctr" /\ "ctr" \notin cmds[v].left => ctrs[v].st = "none"

\* Unmount reports success only if what was written is in the cache image, and
\* in the registry if the cache is shared, also when an earlier umount was
\* interrupted between commit and push.
SuccessMeansKept ==
  \A v \in Volume :
    cmds[v].at = "done" /\ cmds[v].op = "umount" /\ cmds[v].commit /\ cmds[v].ok
      => contents[v] \in {"none", IF shared THEN "pushed" ELSE "committed"}

\* An umount that is given the directory, is not cancelled and meets no failure
\* leaves neither the directory nor the container, wherever the commands
\* before it were killed, and whatever they could not remove: the volume can be
\* mounted again.
UmountCleans ==
  \A v \in Volume :
    cmds[v].at = "done" /\ cmds[v].op = "umount" /\ cmds[v].path
      /\ ~cmds[v].cancelled /\ ~cmds[v].failed
      => dirs[v] = "none" /\ ctrs[v].st = "none"

\* What a command did so far, from where it is: mounts first, then umounts, then
\* what the container has and no image.
VolumeConsistent(v) ==
  LET c == cmds[v] IN
  /\ c.at \in {"mkdir", "find", "create", "mount", "save", "bind", "drop", "rmdir"} => c.op = "mount"
  /\ c.at \in {"find", "create", "mount", "save", "bind", "drop", "rmdir"} => dirs[v] = "empty"
  /\ c.at \in {"mkdir", "find", "create"} => c.made # "ctr"
  /\ c.at = "mkdir" => c.made = "nothing"
  /\ c.at \in {"mount", "save", "bind", "drop"} => contents[v] = "none"
  /\ c.at = "mount" => ctrs[v].st = "made"
  /\ c.at \in {"save", "bind"} => ctrs[v].st = "mounted"
  /\ c.at = "bind" => ctrs[v].dir
  /\ c.at = "rmdir" /\ c.made = "ctr" /\ "ctr" \notin c.left => ctrs[v].st = "none"
  /\ c.at \in {"mkdir", "find", "create", "mount", "save", "bind", "drop", "rmdir"} =>
       "dir" \notin c.left
  /\ c.at \in {"detach", "open", "release", "commit", "push", "delete"} => c.op = "umount"
  /\ c.at \in {"open", "release", "commit", "push", "delete"} /\ c.path /\ ~c.failed => dirs[v] = "none"
  /\ c.at \in {"detach", "open"} => c.ok
  /\ c.at \in {"release", "commit", "push", "delete"} =>
       ctrs[v].st # "none" /\ (c.ok \/ c.failed \/ c.cancelled)
  /\ c.at = "push" => shared /\ contents[v] # "written"
  /\ c.at = "delete" /\ c.ok /\ c.commit =>
       contents[v] \in {"none", IF shared THEN "pushed" ELSE "committed"}
  /\ ctrs[v].st # "none" /\ ~ctrs[v].dirty => contents[v] = "none"
  /\ contents[v] = "pushed" => shared

\* The prune command never turns to the image of the local name: that name goes
\* to new images only.
PruneConsistent ==
  /\ prune.todo \subseteq 1..Len(base)
  /\ prune.id \in 0..Len(base) /\ prune.parent \in 0..Len(base) /\ prune.next \in 0..Len(base)
  /\ names["local"] # 0 =>
       /\ names["local"] \notin prune.todo
       /\ prune.at \in {"family", "parent", "remove"} => names["local"] # prune.id
       /\ prune.at \in {"remove", "kin"} /\ ~prune.named => names["local"] # prune.parent
       /\ prune.at = "drop" => names["local"] # prune.parent
       /\ prune.at = "drop" /\ ~prune.nextNamed => names["local"] # prune.next

\* Wherever the commands of a node are interrupted, what each of them left of
\* directory, container and contents follows from where it was (Mount and
\* Unmount), and the prune command has none of the images in its hands that the
\* cache is at (deleteImages): the inductive invariant of the node.
NodeConsistent ==
  /\ \A v \in Volume : VolumeConsistent(v)
  /\ MountAllOrNothing /\ SuccessMeansKept /\ UmountCleans
  /\ PruneConsistent

\* The cache keeps its local image whatever is pruned, and whenever a commit
\* moves the name (findDanglingImages, the names of the parents in removeImage).
LocalNameKept == [][names["local"] # 0 => names'["local"] # 0]_vars

\* A prune that runs alone leaves no image without a name but those that
\* containers or other images were made from, in whatever order it meets
\* parents and children (imageIsParent, the loop of removeImage).
PruneIsComplete ==
  prune.at = "idle" /\ prune.alone => \A n \in Dangling : InUse(n) \/ Children(n) # {}

\* The prune command deletes unused images only, not one that a mount has found
\* or an umount has yet to push.
UsedImageKept ==
  \A v \in Volume : cmds[v].at \in {"create", "push"} => cmds[v].image \in stored \cup {0}

=============================================================================
