--------------------------- MODULE LayerStoreProofs ---------------------------
(***************************************************************************)
(* The node of LayerStore is consistent for every set of volumes, every    *)
(* number of commands and every number of faults.                          *)
(***************************************************************************)
EXTENDS LayerStore, TLAPS

ImagesType ==
  /\ shared \in BOOLEAN
  /\ base \in Seq(MaybeImage) /\ stored \subseteq 1..Len(base)
  /\ names \in [{"local", "remote"} -> {0} \cup stored]
  /\ registry \in {0} \cup 1..Len(base)

FilesType ==
  /\ ctrs \in [Volume -> Container]
  /\ dirs \in [Volume -> {"none", "empty", "bound"}]
  /\ contents \in [Volume -> {"none", "written", "committed", "pushed"}]
  /\ cmds \in [Volume -> Command]

CountsType == runs \in 0..MaxRuns /\ prunes \in 0..MaxPrunes /\ faults \in 0..MaxFaults

\* What the commands of one volume reported, as in MountAllOrNothing,
\* SuccessMeansKept and UmountCleans.
Reported(v) ==
  /\ cmds[v].at = "done" /\ cmds[v].op = "mount" /\ cmds[v].made # "nothing"
       => \/ dirs[v] = "bound" /\ ctrs[v].st = "mounted" /\ ctrs[v].dir
          \/ /\ ~cmds[v].ok
             /\ dirs[v] = IF "dir" \in cmds[v].left THEN "empty" ELSE "none"
             /\ cmds[v].made = "ctr" /\ "ctr" \notin cmds[v].left => ctrs[v].st = "none"
  /\ cmds[v].at = "done" /\ cmds[v].op = "umount" /\ cmds[v].commit /\ cmds[v].ok
       => contents[v] \in {"none", IF shared THEN "pushed" ELSE "committed"}
  /\ cmds[v].at = "done" /\ cmds[v].op = "umount" /\ cmds[v].path
       /\ ~cmds[v].cancelled /\ ~cmds[v].failed
       => dirs[v] = "none" /\ ctrs[v].st = "none"

VolumeInv(v) == VolumeConsistent(v) /\ Reported(v)

\* The command of v leaves the other volumes alone.
Elsewhere(v) ==
  /\ shared' = shared
  /\ \A w \in Volume \ {v} :
       cmds'[w] = cmds[w] /\ ctrs'[w] = ctrs[w] /\ dirs'[w] = dirs[w] /\ contents'[w] = contents[w]

\* A step of one command is right if it is for its own volume.
LEMMA OneVolume ==
  ASSUME NEW v \in Volume, \A w \in Volume : VolumeInv(w), Elsewhere(v), VolumeInv(v)'
  PROVE  \A w \in Volume : VolumeInv(w)'
  BY DEF Elsewhere, VolumeInv, VolumeConsistent, Reported

LEMMA SameVolume ==
  ASSUME NEW v \in Volume, VolumeInv(v), UNCHANGED <<shared, cmds, ctrs, dirs, contents>>
  PROVE  VolumeInv(v)'
  BY DEF VolumeInv, VolumeConsistent, Reported

LEMMA ImagesAreNumbers ==
  ASSUME ImagesType
  PROVE  /\ Len(base) \in Nat /\ registry \in Nat
         /\ names["local"] \in Nat /\ names["remote"] \in Nat
         /\ \A n \in stored : n \in Image /\ n \in 1..Len(base) /\ base[n] \in Nat
<1>1. Len(base) \in Nat
  BY DEF ImagesType
<1>2. names["local"] \in {0} \cup stored /\ names["remote"] \in {0} \cup stored
  BY DEF ImagesType
<1>3. \A n \in stored : n \in 1..Len(base)
  BY DEF ImagesType
<1>4. \A n \in stored : base[n] \in Nat
  BY <1>1, <1>3 DEF ImagesType, MaybeImage
<1>5. \A n \in 1..Len(base) : n \in Nat /\ n # 0
  BY <1>1
<1>6. registry \in Nat
  BY <1>5 DEF ImagesType
<1> QED
  BY <1>1, <1>2, <1>3, <1>4, <1>5, <1>6 DEF Image

Stage ==
  {"mkdir", "find", "create", "mount", "save", "bind", "drop", "rmdir",
   "detach", "open", "release", "commit", "push", "delete", "done", "killed"}

\* Every update the operations make to a command yields a command.
LEMMA CommandUpdates ==
  ASSUME NEW c \in Command, NEW at \in Stage, NEW ok \in BOOLEAN, NEW failed \in BOOLEAN, NEW n \in Nat,
         NEW made \in {"nothing", "dir", "ctr"}
  PROVE  /\ [c EXCEPT !.at = at] \in Command /\ [c EXCEPT !.at = at, !.made = made] \in Command
         /\ [c EXCEPT !.at = at, !.image = n] \in Command /\ [c EXCEPT !.at = at, !.ok = ok] \in Command
         /\ [c EXCEPT !.at = at, !.ok = ok, !.image = n] \in Command
         /\ [c EXCEPT !.at = at, !.failed = failed] \in Command
         /\ [c EXCEPT !.at = at, !.ok = ok, !.failed = failed] \in Command
<1> USE DEF Command, MaybeImage, Stage
<1>1. [c EXCEPT !.at = at] \in Command /\ [c EXCEPT !.at = at, !.made = made] \in Command
  BY ZenonT(30)
<1>2. [c EXCEPT !.at = at, !.image = n] \in Command /\ [c EXCEPT !.at = at, !.ok = ok] \in Command
  BY ZenonT(30)
<1>3. [c EXCEPT !.at = at, !.ok = ok, !.image = n] \in Command
  BY ZenonT(30)
<1>4. [c EXCEPT !.at = at, !.failed = failed] \in Command
  BY ZenonT(30)
<1>5. [c EXCEPT !.at = at, !.ok = ok, !.failed = failed] \in Command
  BY ZenonT(30)
<1> HIDE DEF Command
<1> QED BY <1>1, <1>2, <1>3, <1>4, <1>5

\* The updates of a mount whose clean-up fails.
LEMMA LeftUpdates ==
  ASSUME NEW c \in Command, NEW left \in SUBSET {"dir", "ctr"}
  PROVE  /\ [c EXCEPT !.at = "rmdir", !.left = left] \in Command
         /\ [c EXCEPT !.at = "done", !.ok = FALSE, !.image = 0, !.left = left] \in Command
<1>1. [c EXCEPT !.at = "rmdir", !.left = left] \in Command
  BY ZenonT(30) DEF Command, Stage
<1>2. [c EXCEPT !.at = "done", !.ok = FALSE, !.image = 0, !.left = left] \in Command
  BY ZenonT(30) DEF Command, Stage, MaybeImage
<1> QED BY <1>1, <1>2

LEMMA CancelledType ==
  ASSUME NEW c \in Command
  PROVE  [c EXCEPT !.cancelled = TRUE] \in Command
  BY Zenon DEF Command

LEMMA GoesType ==
  ASSUME NEW v \in Volume, cmds \in [Volume -> Command], NEW at \in Stage, Goes(v, at)
  PROVE  cmds'[v] \in Command
<1>1. [cmds[v] EXCEPT !.at = at] \in Command
  BY CommandUpdates, Zenon
<1> QED BY <1>1 DEF Goes

LEMMA EndsType ==
  ASSUME NEW v \in Volume, cmds \in [Volume -> Command], NEW ok \in BOOLEAN, Ends(v, ok)
  PROVE  cmds'[v] \in Command
<1> DEFINE both == cmds[v].ok /\ ok
<1>1. both \in BOOLEAN /\ "done" \in Stage /\ 0 \in Nat
  BY DEF Stage
<1>2. [cmds[v] EXCEPT !.at = "done", !.ok = both, !.image = 0] \in Command
  <2> HIDE DEF both
  <2> QED BY <1>1, CommandUpdates, Zenon
<1> QED BY <1>2 DEF Ends

\* The operations of a mount.
LEMMA MountVolume ==
  ASSUME NEW v \in Volume, ImagesType, FilesType, VolumeInv(v), shared' = shared,
         Mkdir(v) \/ FindImage(v) \/ CreateContainer(v) \/ MountContainer(v)
           \/ SaveMountDir(v) \/ BindMount(v) \/ DropContainer(v) \/ RemoveDir(v)
  PROVE  FilesType' /\ Elsewhere(v) /\ VolumeInv(v)'
<1>1. CASE Mkdir(v)
  <2>1. cmds'[v] \in Command
    <3>1. [cmds[v] EXCEPT !.at = "find", !.made = "dir"] \in Command
      BY CommandUpdates, ZenonT(30) DEF FilesType, Stage
    <3>2. CASE cmds' = [cmds EXCEPT ![v].at = "find", ![v].made = "dir"]
      BY <3>1, <3>2 DEF FilesType
    <3>3. CASE Ends(v, FALSE)
      BY <3>3, EndsType, Zenon DEF FilesType
    <3> QED BY <1>1, <3>2, <3>3, Zenon DEF Mkdir
  <2>2. FilesType' /\ Elsewhere(v)
    BY <1>1, <2>1 DEF FilesType, Elsewhere, Mkdir, Ends
  <2>3. VolumeInv(v)'
    BY <1>1 DEF FilesType, VolumeInv, VolumeConsistent, Reported, Mkdir, Ends, Command, Container
  <2> QED BY <2>2, <2>3
<1>2. CASE FindImage(v)
  <2>1. registry \in Nat /\ names["local"] \in Nat
    BY ImagesAreNumbers
  <2>2. PICK n \in Nat : cmds' = [cmds EXCEPT ![v].at = "create", ![v].image = n]
    BY <1>2, <2>1, Zenon DEF FindImage
  <2>3. cmds'[v] \in Command
    <3>1. [cmds[v] EXCEPT !.at = "create", !.image = n] \in Command
      BY CommandUpdates, ZenonT(30) DEF FilesType, Stage
    <3> QED BY <2>2, <3>1 DEF FilesType
  <2>4. FilesType' /\ Elsewhere(v)
    BY <1>2, <2>2, <2>3 DEF FilesType, Elsewhere, FindImage, files
  <2>5. VolumeInv(v)'
    BY <1>2 DEF FilesType, VolumeInv, VolumeConsistent, Reported, FindImage, files, Command, Container
  <2> QED BY <2>4, <2>5
<1>3. CASE CreateContainer(v)
  <2>1. cmds'[v] \in Command
    <3>1. \/ cmds' = [cmds EXCEPT ![v].at = "mount", ![v].made = "ctr"]
          \/ cmds' = [cmds EXCEPT ![v].at = "rmdir", ![v].ok = FALSE]
      BY <1>3 DEF CreateContainer
    <3>2. /\ [cmds[v] EXCEPT !.at = "mount", !.made = "ctr"] \in Command
          /\ [cmds[v] EXCEPT !.at = "rmdir", !.ok = FALSE] \in Command
      BY CommandUpdates, ZenonT(30) DEF FilesType, Stage
    <3> QED BY <3>1, <3>2, Zenon DEF FilesType
  <2>2. ctrs'[v] \in Container
    <3>1. cmds[v].image \in Nat
      BY DEF FilesType, Command, MaybeImage
    <3>2. [NoContainer EXCEPT !.st = "made", !.base = cmds[v].image] \in Container
      BY <3>1, Zenon DEF NoContainer, Container, MaybeImage
    <3> QED BY <1>3, <3>2 DEF FilesType, CreateContainer
  <2>3. FilesType' /\ Elsewhere(v)
    BY <1>3, <2>1, <2>2 DEF FilesType, Elsewhere, CreateContainer
  <2>4. VolumeInv(v)'
    BY <1>3 DEF FilesType, VolumeInv, VolumeConsistent, Reported, CreateContainer, NoContainer, Command, Container
  <2> QED BY <2>3, <2>4
<1>4. CASE MountContainer(v)
  <2>1. cmds'[v] \in Command
    BY <1>4, GoesType DEF FilesType, MountContainer, Stage
  <2>2. ctrs'[v] \in Container
    BY <1>4 DEF FilesType, MountContainer, Goes, Container, MaybeImage
  <2>3. FilesType' /\ Elsewhere(v)
    BY <1>4, <2>1, <2>2 DEF FilesType, Elsewhere, MountContainer, Goes
  <2>4. VolumeInv(v)'
    BY <1>4 DEF FilesType, VolumeInv, VolumeConsistent, Reported, MountContainer, Goes, Command, Container
  <2> QED BY <2>3, <2>4
<1>5. CASE SaveMountDir(v)
  <2>1. cmds'[v] \in Command
    BY <1>5, GoesType DEF FilesType, SaveMountDir, Stage
  <2>2. ctrs'[v] \in Container
    BY <1>5, Zenon DEF FilesType, SaveMountDir, Goes, Container, MaybeImage
  <2>3. FilesType' /\ Elsewhere(v)
    BY <1>5, <2>1, <2>2 DEF FilesType, Elsewhere, SaveMountDir, Goes
  <2>4. VolumeInv(v)'
    BY <1>5 DEF FilesType, VolumeInv, VolumeConsistent, Reported, SaveMountDir, Goes, Command, Container
  <2> QED BY <2>3, <2>4
<1>6. CASE BindMount(v)
  <2>1. cmds'[v] \in Command
    BY <1>6, EndsType, Zenon DEF FilesType, BindMount
  <2>2. FilesType' /\ Elsewhere(v)
    BY <1>6, <2>1 DEF FilesType, Elsewhere, BindMount, Ends
  <2>3. VolumeInv(v)'
    BY <1>6 DEF FilesType, VolumeInv, VolumeConsistent, Reported, BindMount, Ends, Command, Container
  <2> QED BY <2>2, <2>3
<1>7. CASE DropContainer(v)
  <2>0. cmds[v].at = "drop" /\ UNCHANGED <<dirs, contents>>
    BY <1>7 DEF DropContainer
  <2>1. CASE ctrs' = [ctrs EXCEPT ![v] = NoContainer] /\ Goes(v, "rmdir")
    <3>1. cmds'[v] \in Command
      BY <2>1, GoesType DEF FilesType, Stage
    <3>2. ctrs'[v] \in Container
      BY <2>1 DEF FilesType, NoContainer, Container, MaybeImage
    <3>3. FilesType' /\ Elsewhere(v)
      BY <2>0, <2>1, <3>1, <3>2 DEF FilesType, Elsewhere, Goes, NoContainer
    <3>4. VolumeInv(v)'
      BY <2>0, <2>1 DEF FilesType, VolumeInv, VolumeConsistent, Reported, Goes, NoContainer, Command, Container
    <3> QED BY <3>3, <3>4
  <2>2. ASSUME NEW st \in {ctrs[v].st, "made"}, ctrs' = [ctrs EXCEPT ![v].st = st],
               cmds' = [cmds EXCEPT ![v].at = "rmdir", ![v].left = @ \cup {"ctr"}]
        PROVE  FilesType' /\ Elsewhere(v) /\ VolumeInv(v)'
    <3> DEFINE left == cmds[v].left \cup {"ctr"}
    <3>1. left \in SUBSET {"dir", "ctr"}
      BY Zenon DEF FilesType, Command
    <3>2. cmds'[v] \in Command
      <4>1. [cmds[v] EXCEPT !.at = "rmdir", !.left = left] \in Command
        <5> HIDE DEF left
        <5> QED BY <3>1, LeftUpdates, Zenon DEF FilesType
      <4> QED BY <2>2, <4>1 DEF FilesType
    <3>3. ctrs'[v] \in Container
      BY <2>2 DEF FilesType, Container, MaybeImage
    <3>4. FilesType' /\ Elsewhere(v)
      BY <2>0, <2>2, <3>2, <3>3 DEF FilesType, Elsewhere
    <3>5. VolumeInv(v)'
      BY <2>0, <2>2 DEF FilesType, VolumeInv, VolumeConsistent, Reported, Command, Container
    <3> QED BY <3>4, <3>5
  <2> QED BY <1>7, <2>1, <2>2, Zenon DEF DropContainer
<1>8. CASE RemoveDir(v)
  <2>0. cmds[v].at = "rmdir" /\ UNCHANGED <<ctrs, contents>>
    BY <1>8 DEF RemoveDir
  <2>1. CASE dirs' = [dirs EXCEPT ![v] = IF @ = "empty" THEN "none" ELSE @] /\ Ends(v, FALSE)
    <3>1. cmds'[v] \in Command
      BY <2>1, EndsType, Zenon DEF FilesType
    <3>2. FilesType' /\ Elsewhere(v)
      BY <2>0, <2>1, <3>1 DEF FilesType, Elsewhere, Ends
    <3>3. VolumeInv(v)'
      BY <2>0, <2>1 DEF FilesType, VolumeInv, VolumeConsistent, Reported, Ends, Command, Container
    <3> QED BY <3>2, <3>3
  <2>2. CASE /\ UNCHANGED dirs
             /\ cmds' = [cmds EXCEPT ![v].at = "done", ![v].ok = FALSE, ![v].image = 0,
                                     ![v].left = @ \cup {"dir"}]
    <3> DEFINE left == cmds[v].left \cup {"dir"}
    <3>1. left \in SUBSET {"dir", "ctr"}
      BY Zenon DEF FilesType, Command
    <3>2. cmds'[v] \in Command
      <4>1. [cmds[v] EXCEPT !.at = "done", !.ok = FALSE, !.image = 0, !.left = left] \in Command
        <5> HIDE DEF left
        <5> QED BY <3>1, LeftUpdates, Zenon DEF FilesType
      <4> QED BY <2>2, <4>1 DEF FilesType
    <3>3. FilesType' /\ Elsewhere(v)
      BY <2>0, <2>2, <3>2 DEF FilesType, Elsewhere
    <3>4. VolumeInv(v)'
      BY <2>0, <2>2 DEF FilesType, VolumeInv, VolumeConsistent, Reported, Command, Container
    <3> QED BY <3>3, <3>4
  <2> QED BY <1>8, <2>1, <2>2, Zenon DEF RemoveDir
<1> QED BY <1>1, <1>2, <1>3, <1>4, <1>5, <1>6, <1>7, <1>8

\* The operations of an umount.
LEMMA UmountVolume ==
  ASSUME NEW v \in Volume, ImagesType, FilesType, VolumeInv(v), shared' = shared,
         Detach(v) \/ OpenBuilder(v) \/ UnmountContainer(v) \/ CommitContainer(v)
           \/ PushImage(v) \/ DeleteContainer(v)
  PROVE  FilesType' /\ Elsewhere(v) /\ VolumeInv(v)'
<1>1. CASE Detach(v)
  <2>0. cmds[v].at = "detach" /\ UNCHANGED <<ctrs, contents>>
    BY <1>1 DEF Detach
  <2>1. PICK ok \in BOOLEAN : /\ UnmountAndDelete(v, ok)
                              /\ cmds' = [cmds EXCEPT ![v].at = "open", ![v].failed = ~ok]
    BY <1>1, Zenon DEF Detach
  <2>2. cmds'[v] \in Command
    <3> DEFINE failed == ~ok
    <3>1. [cmds[v] EXCEPT !.at = "open", !.failed = failed] \in Command
      BY CommandUpdates, ZenonT(30) DEF FilesType, Stage
    <3> QED BY <2>1, <3>1 DEF FilesType
  <2>3. (ok => dirs' = [dirs EXCEPT ![v] = "none"]) /\ (~ok => UNCHANGED dirs)
    BY <2>1 DEF UnmountAndDelete, Removed
  <2>4. FilesType' /\ Elsewhere(v)
    BY <1>1, <2>1, <2>2, <2>3, Zenon DEF FilesType, Elsewhere, Detach
  <2>5. ASSUME ok PROVE VolumeInv(v)'
    <3>1. cmds' = [cmds EXCEPT ![v].at = "open", ![v].failed = FALSE]
      BY <2>1, <2>5, Zenon
    <3> QED
      BY <2>0, <2>3, <2>5, <3>1 DEF FilesType, VolumeInv, VolumeConsistent, Reported, Command, Container
  <2>6. ASSUME ~ok PROVE VolumeInv(v)'
    <3>1. cmds' = [cmds EXCEPT ![v].at = "open", ![v].failed = TRUE]
      BY <2>1, <2>6, Zenon
    <3> QED
      BY <2>0, <2>3, <2>6, <3>1 DEF FilesType, VolumeInv, VolumeConsistent, Reported, Command, Container
  <2> QED BY <2>4, <2>5, <2>6
<1>2. CASE OpenBuilder(v)
  <2>0. cmds[v].at = "open" /\ UNCHANGED <<ctrs, contents>>
    BY <1>2, Zenon DEF OpenBuilder
  <2>1. CASE ctrs[v].st = "none" /\ Ends(v, FALSE) /\ UNCHANGED <<dirs, faults>>
    <3>1. cmds'[v] \in Command
      BY <2>1, EndsType, Zenon DEF FilesType
    <3>2. FilesType' /\ Elsewhere(v)
      BY <1>2, <2>1, <3>1 DEF FilesType, Elsewhere, OpenBuilder, Ends
    <3>3. VolumeInv(v)'
      BY <1>2, <2>1 DEF FilesType, VolumeInv, VolumeConsistent, Reported, OpenBuilder, Ends, Command, Container
    <3> QED BY <3>2, <3>3
  <2>2. CASE /\ ctrs[v].st # "none" /\ (cmds[v].path \/ ~ctrs[v].dir)
             /\ Goes(v, "release") /\ UNCHANGED <<dirs, faults>>
    <3>1. cmds'[v] \in Command
      BY <2>2, GoesType DEF FilesType, Stage
    <3>2. FilesType' /\ Elsewhere(v)
      BY <1>2, <2>2, <3>1, Zenon DEF FilesType, Elsewhere, OpenBuilder, Goes
    <3>3. VolumeInv(v)'
      BY <2>0, <2>2, SMTT(30) DEF FilesType, VolumeInv, VolumeConsistent, Reported, Goes, Command, Container
    <3> QED BY <3>2, <3>3
  <2>3. ASSUME NEW ok \in BOOLEAN, UnmountAndDelete(v, ok), ctrs[v].st # "none", ~cmds[v].path,
               cmds' = [cmds EXCEPT ![v].at = "release", ![v].ok = ok, ![v].failed = ~ok]
        PROVE  FilesType' /\ Elsewhere(v) /\ VolumeInv(v)'
    <3>1. cmds'[v] \in Command
      <4> DEFINE failed == ~ok
      <4>1. [cmds[v] EXCEPT !.at = "release", !.ok = ok, !.failed = failed] \in Command
        BY CommandUpdates, ZenonT(30) DEF FilesType, Stage
      <4> QED BY <2>3, <4>1 DEF FilesType
    <3>2. dirs' = [dirs EXCEPT ![v] = "none"] \/ UNCHANGED dirs
      BY <2>3 DEF UnmountAndDelete, Removed
    <3>3. FilesType' /\ Elsewhere(v)
      BY <1>2, <2>3, <3>1, <3>2, ZenonT(30) DEF FilesType, Elsewhere, OpenBuilder
    <3>4. ASSUME ok PROVE VolumeInv(v)'
      <4>1. cmds' = [cmds EXCEPT ![v].at = "release", ![v].ok = TRUE, ![v].failed = FALSE]
        BY <2>3, <3>4, Zenon
      <4> QED
        BY <2>0, <2>3, <3>2, <4>1 DEF FilesType, VolumeInv, VolumeConsistent, Reported, Command, Container
    <3>5. ASSUME ~ok PROVE VolumeInv(v)'
      <4>1. cmds' = [cmds EXCEPT ![v].at = "release", ![v].ok = FALSE, ![v].failed = TRUE]
        BY <2>3, <3>5, Zenon
      <4> QED
        BY <2>0, <2>3, <3>2, <4>1 DEF FilesType, VolumeInv, VolumeConsistent, Reported, Command, Container
    <3> QED BY <3>3, <3>4, <3>5
  <2> QED BY <1>2, <2>1, <2>2, <2>3, Zenon DEF OpenBuilder
<1>3. CASE UnmountContainer(v)
  <2>1. cmds'[v] \in Command
    <3>1. Goes(v, "commit") \/ Goes(v, "delete")
      BY <1>3 DEF UnmountContainer
    <3> QED BY <3>1, GoesType DEF FilesType, Stage
  <2>2. ctrs'[v] \in Container
    BY <1>3 DEF FilesType, UnmountContainer, Goes, Container, MaybeImage
  <2>3. FilesType' /\ Elsewhere(v)
    BY <1>3, <2>1, <2>2 DEF FilesType, Elsewhere, UnmountContainer, Goes
  <2>4. VolumeInv(v)'
    BY <1>3 DEF FilesType, VolumeInv, VolumeConsistent, Reported, UnmountContainer, Goes, Command, Container
  <2> QED BY <2>3, <2>4
<1>4. CASE CommitContainer(v)
  <2>1. ctrs[v].base \in Nat /\ Len(base) + 1 \in Nat
    BY DEF FilesType, ImagesType, Container, MaybeImage
  <2>2. PICK n \in Nat, at \in {"push", "delete"} : cmds' = [cmds EXCEPT ![v].at = at, ![v].image = n]
    BY <1>4, <2>1, SMTT(30) DEF CommitContainer
  <2>3. cmds'[v] \in Command
    <3>1. [cmds[v] EXCEPT !.at = at, !.image = n] \in Command
      BY CommandUpdates, ZenonT(30) DEF FilesType, Stage
    <3> QED BY <2>2, <3>1 DEF FilesType
  <2>4. FilesType' /\ Elsewhere(v)
    BY <1>4, <2>2, <2>3 DEF FilesType, Elsewhere, CommitContainer
  <2>5. VolumeInv(v)'
    BY <1>4, SMTT(30) DEF FilesType, VolumeInv, VolumeConsistent, Reported, CommitContainer, NothingChanged, Command, Container
  <2> QED BY <2>4, <2>5
<1>5. CASE PushImage(v)
  <2>1. cmds'[v] \in Command
    <3>1. [cmds[v] EXCEPT !.at = "delete", !.ok = FALSE, !.failed = TRUE] \in Command
      BY CommandUpdates, ZenonT(30) DEF FilesType, Stage
    <3>2. CASE cmds' = [cmds EXCEPT ![v].at = "delete", ![v].ok = FALSE, ![v].failed = TRUE]
      BY <3>1, <3>2 DEF FilesType
    <3>3. CASE Goes(v, "delete")
      BY <3>3, GoesType DEF FilesType, Stage
    <3> QED BY <1>5, <3>2, <3>3 DEF PushImage
  <2>2. FilesType' /\ Elsewhere(v)
    BY <1>5, <2>1 DEF FilesType, Elsewhere, PushImage, Goes
  <2>3. VolumeInv(v)'
    BY <1>5, SMTT(30) DEF FilesType, VolumeInv, VolumeConsistent, Reported, PushImage, Goes, Command, Container
  <2> QED BY <2>2, <2>3
<1>6. CASE DeleteContainer(v)
  <2>1. cmds'[v] \in Command
    <3>1. Ends(v, TRUE)
      BY <1>6, Zenon DEF DeleteContainer
    <3> QED BY <3>1, EndsType, Zenon DEF FilesType
  <2>2. ctrs'[v] \in Container
    BY <1>6 DEF FilesType, DeleteContainer, NoContainer, Container, MaybeImage
  <2>3. FilesType' /\ Elsewhere(v)
    BY <1>6, <2>1, <2>2 DEF FilesType, Elsewhere, DeleteContainer, Ends
  <2>4. VolumeInv(v)'
    BY <1>6 DEF FilesType, VolumeInv, VolumeConsistent, Reported, DeleteContainer, KeepsContainer, NoContainer, Ends, Command, Container
  <2> QED BY <2>3, <2>4
<1> QED BY <1>1, <1>2, <1>3, <1>4, <1>5, <1>6

\* What goes wrong, and what the Pods write.
LEMMA FaultVolume ==
  ASSUME NEW v \in Volume, ImagesType, FilesType, VolumeInv(v), shared' = shared,
         OperationFails(v) \/ Cancel(v) \/ Kill(v) \/ PodWrites(v)
  PROVE  FilesType' /\ Elsewhere(v) /\ VolumeInv(v)'
<1>1. CASE OperationFails(v)
  <2>1. PICK at : /\ at = Undo(cmds[v].at)
                  /\ cmds' = [cmds EXCEPT ![v].at = at, ![v].ok = FALSE, ![v].failed = @ \/ ~cmds[v].cancelled]
    BY <1>1, Zenon DEF OperationFails
  <2>2. /\ cmds[v].at \in {"find", "create"} => at = "rmdir"
        /\ cmds[v].at \in {"mount", "save", "bind"} => at = "drop"
        /\ cmds[v].at \in {"release", "commit", "push"} => at = "delete"
        /\ cmds[v].at \in {"mkdir", "open", "delete"} => at = "done"
    BY <2>1 DEF Undo
  <2>3. cmds[v].at \in {"mkdir", "find", "create", "mount", "save", "bind",
                       "open", "release", "commit", "push", "delete"}
        /\ UNCHANGED files /\ (cmds[v].at = "delete" => ~cmds[v].cancelled)
    BY <1>1 DEF OperationFails, KeepsContainer
  <2>4. at \in {"rmdir", "drop", "delete", "done"}
    BY <2>2, <2>3
  <2>5. cmds'[v] \in Command
    <3> DEFINE failed == cmds[v].failed \/ ~cmds[v].cancelled
    <3>1. failed \in BOOLEAN /\ at \in Stage
      BY <2>4 DEF Stage
    <3>2. [cmds[v] EXCEPT !.at = at, !.ok = FALSE, !.failed = failed] \in Command
      <4> HIDE DEF failed
      <4> QED BY <3>1, CommandUpdates, Zenon DEF FilesType
    <3> QED BY <2>1, <3>2 DEF FilesType
  <2>6. FilesType' /\ Elsewhere(v)
    BY <2>1, <2>3, <2>5 DEF FilesType, Elsewhere, files
  <2>7. VolumeInv(v)'
    BY <2>1, <2>2, <2>3 DEF FilesType, VolumeInv, VolumeConsistent, Reported, files, Command, Container
  <2> QED BY <2>6, <2>7
<1>2. CASE Cancel(v)
  <2>1. cmds'[v] \in Command
    <3>1. [cmds[v] EXCEPT !.cancelled = TRUE] \in Command
      BY CancelledType, Zenon DEF FilesType
    <3> QED BY <1>2, <3>1 DEF FilesType, Cancel
  <2>2. FilesType' /\ Elsewhere(v)
    BY <1>2, <2>1 DEF FilesType, Elsewhere, Cancel, files
  <2>3. VolumeInv(v)'
    BY <1>2 DEF FilesType, VolumeInv, VolumeConsistent, Reported, Cancel, files, Command, Container
  <2> QED BY <2>2, <2>3
<1>3. CASE Kill(v)
  <2>1. cmds' = [cmds EXCEPT ![v].at = "killed", ![v].ok = FALSE, ![v].image = 0] /\ UNCHANGED files
    BY <1>3 DEF Kill
  <2>2. cmds'[v] \in Command
    <3>1. [cmds[v] EXCEPT !.at = "killed", !.ok = FALSE, !.image = 0] \in Command
      BY CommandUpdates, ZenonT(30) DEF FilesType, Stage
    <3> QED BY <2>1, <3>1 DEF FilesType
  <2>3. FilesType' /\ Elsewhere(v)
    BY <2>1, <2>2 DEF FilesType, Elsewhere, files
  <2>4. VolumeInv(v)'
    BY <2>1 DEF FilesType, VolumeInv, VolumeConsistent, Reported, files, Command, Container
  <2> QED BY <2>3, <2>4
<1>4. CASE PodWrites(v)
  <2>1. ctrs'[v] \in Container
    BY <1>4, Zenon DEF FilesType, PodWrites, Active, Container, MaybeImage
  <2>2. FilesType' /\ Elsewhere(v)
    BY <1>4, <2>1 DEF FilesType, Elsewhere, PodWrites, Active
  <2>3. VolumeInv(v)'
    BY <1>4 DEF FilesType, VolumeInv, VolumeConsistent, Reported, PodWrites, Active, Command, Container
  <2> QED BY <2>2, <2>3
<1> QED BY <1>1, <1>2, <1>3, <1>4

\* A command that starts.
LEMMA BeginVolume ==
  ASSUME NEW v \in Volume, FilesType, NEW op, NEW at, NEW path \in BOOLEAN, NEW commit \in BOOLEAN,
         Begin(v, NewCommand(op, at, path, commit)),
         \/ op = "mount" /\ at = "mkdir"
         \/ op = "umount" /\ at \in {"detach", "open"} /\ (at = "open" => ~path),
         VolumeInv(v)
  PROVE  FilesType' /\ Elsewhere(v) /\ VolumeInv(v)'
<1>1. NewCommand(op, at, path, commit) \in Command
  BY DEF NewCommand, Command, MaybeImage
<1>2. cmds' = [cmds EXCEPT ![v] = NewCommand(op, at, path, commit)] /\ UNCHANGED <<files, shared>>
  BY DEF Begin
<1>3. FilesType' /\ Elsewhere(v)
  BY <1>1, <1>2 DEF FilesType, Elsewhere, files
<1>4. VolumeInv(v)'
  BY <1>2 DEF FilesType, VolumeInv, VolumeConsistent, Reported, files, NewCommand, Container
<1> QED BY <1>3, <1>4

LEMMA StartVolume ==
  ASSUME NEW v \in Volume, FilesType, VolumeInv(v), StartMount(v) \/ StartUmount(v)
  PROVE  FilesType' /\ Elsewhere(v) /\ VolumeInv(v)'
<1>1. CASE StartMount(v)
  BY <1>1, BeginVolume, Zenon DEF StartMount
<1>2. CASE StartUmount(v)
  <2>1. PICK path \in BOOLEAN, commit \in BOOLEAN :
          Begin(v, NewCommand("umount", IF path THEN "detach" ELSE "open", path, commit))
    BY <1>2 DEF StartUmount
  <2> DEFINE at == IF path THEN "detach" ELSE "open"
  <2>2. at \in {"detach", "open"} /\ (at = "open" => ~path)
    OBVIOUS
  <2>3. Begin(v, NewCommand("umount", at, path, commit))
    BY <2>1
  <2> HIDE DEF at
  <2> QED BY <2>2, <2>3, BeginVolume
<1> QED BY <1>1, <1>2

-----------------------------------------------------------------------------
(* The images and the prune command. *)

PruneInv == prune \in Pruning /\ PruneConsistent

\* The commands of the volumes give the local name to new images only.
LEMMA OperationImages ==
  ASSUME NEW v \in Volume, ImagesType, FilesType, PruneInv, Operation(v), UNCHANGED <<shared, prune>>
  PROVE  ImagesType' /\ PruneInv' /\ (names["local"] # 0 => names'["local"] # 0)
<1>1. CASE FindImage(v)
  <2>1. CASE shared /\ registry # 0
    <3>1. stored' = stored \cup {registry} /\ names' = [names EXCEPT !["remote"] = registry]
          /\ UNCHANGED <<base, registry>>
      BY <1>1, <2>1 DEF FindImage, Name
    <3>2. registry \in 1..Len(base)
      BY <2>1 DEF ImagesType
    <3>3. ImagesType'
      BY <3>1, <3>2 DEF ImagesType
    <3>4. names'["local"] = names["local"]
      BY <3>1 DEF ImagesType
    <3> QED BY <3>1, <3>3, <3>4 DEF PruneInv, PruneConsistent
  <2>2. CASE ~(shared /\ registry # 0)
    BY <1>1, <2>2 DEF FindImage, ImagesType, PruneInv, PruneConsistent
  <2> QED BY <2>1, <2>2
<1>2. CASE CommitContainer(v)
  <2>1. CASE NothingChanged(ctrs[v])
    BY <1>2, <2>1 DEF CommitContainer, imgs, ImagesType, PruneInv, PruneConsistent
  <2>2. CASE ~NothingChanged(ctrs[v])
    <3> DEFINE n == Len(base) + 1
    <3>1. /\ base' = Append(base, ctrs[v].base) /\ stored' = stored \cup {n}
          /\ names' = [names EXCEPT !["local"] = n] /\ UNCHANGED registry
      BY <1>2, <2>2 DEF CommitContainer, Name
    <3>2. ctrs[v].base \in MaybeImage
      BY DEF FilesType, Container
    <3>3. base' \in Seq(MaybeImage) /\ Len(base') = n /\ Len(base) \in Nat
      BY <3>1, <3>2 DEF ImagesType
    <3>4. ImagesType'
      <4>1. stored' \subseteq 1..Len(base') /\ registry' \in {0} \cup 1..Len(base')
        <5>1. \A m \in 1..Len(base) : m \in 1..n
          BY <3>3
        <5>2. n \in 1..n
          BY <3>3
        <5> QED BY <3>1, <3>3, <5>1, <5>2, Zenon DEF ImagesType
      <4>2. names' \in [{"local", "remote"} -> {0} \cup stored']
        BY <3>1 DEF ImagesType
      <4> QED BY <3>3, <4>1, <4>2 DEF ImagesType
    <3>5. names'["local"] = n
      BY <3>1 DEF ImagesType
    <3>6. PruneInv'
      BY <3>3, <3>5 DEF PruneInv, PruneConsistent
    <3> QED BY <3>3, <3>4, <3>5, <3>6
  <2> QED BY <2>1, <2>2
<1>3. CASE PushImage(v)
  BY <1>3 DEF PushImage, ImagesType, PruneInv, PruneConsistent
<1>4. CASE UNCHANGED imgs
  BY <1>4 DEF imgs, ImagesType, PruneInv, PruneConsistent
<1> QED
  BY <1>1, <1>2, <1>3, <1>4, Zenon DEF Operation, Mkdir, CreateContainer, MountContainer, SaveMountDir,
    BindMount, DropContainer, RemoveDir, Detach, OpenBuilder, UnmountContainer, DeleteContainer,
    OperationFails, Cancel, Kill, PodWrites

LEMMA ParentBound ==
  ASSUME ImagesType, NEW n
  PROVE  ParentOf(n) \in 0..Len(base)
<1>1. Len(base) \in Nat /\ \A m \in stored : m \in 1..Len(base)
  BY ImagesAreNumbers
<1> QED BY <1>1 DEF ParentOf

\* An image without names does not have the local one.
LEMMA Unnamed ==
  ASSUME ImagesType, NEW n, NamesOf(n) = {}
  PROVE  names["local"] # n
  BY DEF NamesOf

LEMMA DeleteOther ==
  ASSUME ImagesType, NEW n, DeleteImage(n), names["local"] # n, UNCHANGED <<shared, base, registry>>
  PROVE  ImagesType' /\ names'["local"] = names["local"]
<1>1. names' = [x \in {"local", "remote"} |-> IF names[x] = n THEN 0 ELSE names[x]] /\ stored' = stored \ {n}
  BY DEF DeleteImage, ImagesType
<1> QED BY <1>1, Zenon DEF ImagesType

LEMMA SkipInv ==
  ASSUME PruneInv, UNCHANGED base, names'["local"] = names["local"], prune' = Skip, Len(base) \in Nat
  PROVE  PruneInv'
<1>1. Skip \in Pruning
  BY Zenon DEF PruneInv, Pruning, Skip, NotPruning, MaybeImage
<1> QED BY <1>1 DEF PruneInv, PruneConsistent, Skip, NotPruning, Pruning

\* The prune command never takes the local name away.
LEMMA PruneImages ==
  ASSUME ImagesType, PruneInv, PruneStep, UNCHANGED shared
  PROVE  ImagesType' /\ PruneInv' /\ names'["local"] = names["local"]
<1>0. Len(base) \in Nat /\ \A n \in stored : n \in Nat /\ n # 0 /\ n \in 1..Len(base)
  BY ImagesAreNumbers DEF Image
<1>1. CASE StartPrune
  <2>1. PICK alone \in BOOLEAN :
          prune' = [NotPruning EXCEPT !.at = "look", !.todo = Dangling, !.alone = alone] /\ UNCHANGED imgs
    BY <1>1, Zenon DEF StartPrune, PruneGoes
  <2>2. Dangling \subseteq 1..Len(base) /\ Dangling \subseteq Image /\ names["local"] \notin Dangling
    BY <1>0, Unnamed DEF Dangling, Image
  <2>3. prune' \in Pruning
    BY <2>1, <2>2, Zenon DEF Pruning, NotPruning, MaybeImage
  <2> QED BY <1>0, <2>1, <2>2, <2>3 DEF PruneInv, PruneConsistent, NotPruning, imgs, ImagesType
<1>2. CASE LookAtImage
  <2>1. UNCHANGED imgs
    BY <1>2, Zenon DEF LookAtImage
  <2>2. CASE prune' = [prune EXCEPT !.at = "idle"]
    <3>1. prune' \in Pruning
      BY <2>2 DEF PruneInv, Pruning
    <3> QED BY <2>1, <2>2, <3>1, SMTT(30) DEF PruneInv, PruneConsistent, Pruning, imgs, ImagesType
  <2>3. ASSUME NEW n \in prune.todo, prune' = [prune EXCEPT !.todo = @ \ {n}], prune.at = "look"
        PROVE  ImagesType' /\ PruneInv' /\ names'["local"] = names["local"]
    <3>1. prune' \in Pruning
      BY <2>3 DEF PruneInv, Pruning
    <3> QED BY <2>1, <2>3, <3>1 DEF PruneInv, PruneConsistent, Pruning, imgs, ImagesType
  <2>4. ASSUME NEW n \in prune.todo, prune' = [prune EXCEPT !.todo = @ \ {n}, !.at = "family", !.id = n]
        PROVE  ImagesType' /\ PruneInv' /\ names'["local"] = names["local"]
    <3>1. n \in 1..Len(base) /\ n \in Nat
      BY <1>0 DEF PruneInv, PruneConsistent
    <3>2. prune' \in Pruning
      BY <2>4, <3>1, Zenon DEF PruneInv, Pruning, MaybeImage
    <3> QED BY <1>0, <2>1, <2>4, <3>1, <3>2 DEF PruneInv, PruneConsistent, Pruning, imgs, ImagesType
  <2> QED BY <1>2, <2>2, <2>3, <2>4, Zenon DEF LookAtImage, PruneGoes
<1>3. CASE LookForChildren
  <2>1. UNCHANGED imgs /\ (prune' = Skip \/ prune' = [prune EXCEPT !.at = "parent"]) /\ prune.at = "family"
    BY <1>3 DEF LookForChildren, PruneGoes
  <2>2. CASE prune' = Skip
    BY <1>0, <2>1, <2>2, SkipInv DEF imgs, ImagesType
  <2>3. CASE prune' = [prune EXCEPT !.at = "parent"]
    <3>1. prune' \in Pruning
      BY <2>3 DEF PruneInv, Pruning
    <3> QED BY <2>1, <2>3, <3>1, SMTT(30) DEF PruneInv, PruneConsistent, Pruning, imgs, ImagesType
  <2> QED BY <2>1, <2>2, <2>3
<1>4. CASE LookForParent
  <2> DEFINE p == ParentOf(prune.id)
  <2>1. /\ UNCHANGED imgs /\ prune.at = "parent"
        /\ \/ prune' = Skip
           \/ prune' = [prune EXCEPT !.at = "remove", !.parent = p, !.named = NamesOf(p) # {}]
    BY <1>4 DEF LookForParent, PruneGoes
  <2>2. p \in 0..Len(base) /\ p \in Nat
    BY <1>0, ParentBound
  <2>3. NamesOf(p) = {} => names["local"] # p
    BY Unnamed
  <2> HIDE DEF p
  <2>4. CASE prune' = Skip
    BY <1>0, <2>1, <2>4, SkipInv DEF imgs, ImagesType
  <2>5. ASSUME prune' = [prune EXCEPT !.at = "remove", !.parent = p, !.named = NamesOf(p) # {}]
        PROVE  ImagesType' /\ PruneInv' /\ names'["local"] = names["local"]
    <3>1. prune' \in Pruning
      BY <2>2, <2>5, Zenon DEF PruneInv, Pruning, MaybeImage
    <3> QED BY <2>1, <2>2, <2>3, <2>5, <3>1, Zenon DEF PruneInv, PruneConsistent, Pruning, imgs, ImagesType
  <2> QED BY <2>1, <2>4, <2>5
<1>5. CASE RemoveImage
  <2>1. prune.at = "remove" /\ UNCHANGED <<base, registry>>
    BY <1>5 DEF RemoveImage
  <2>2. CASE /\ prune.id \in stored /\ DeleteImage(prune.id)
             /\ prune' = Skip \/ prune' = [prune EXCEPT !.at = "kin"]
    <3>1. names["local"] # prune.id
      BY <1>0, <2>1, <2>2 DEF PruneInv, PruneConsistent
    <3>2. ImagesType' /\ names'["local"] = names["local"]
      BY <2>1, <2>2, <3>1, DeleteOther
    <3>3. CASE prune' = Skip
      BY <1>0, <2>1, <3>2, <3>3, SkipInv
    <3>4. CASE prune' = [prune EXCEPT !.at = "kin"]
      <4>1. prune' \in Pruning
        BY <3>4 DEF PruneInv, Pruning
      <4> QED BY <2>1, <3>2, <3>4, <4>1 DEF PruneInv, PruneConsistent, Pruning
    <3> QED BY <2>2, <3>3, <3>4
  <2>3. CASE prune' = Skip /\ UNCHANGED <<stored, names>>
    BY <1>0, <2>1, <2>3, SkipInv DEF ImagesType
  <2> QED BY <1>5, <2>2, <2>3 DEF RemoveImage, PruneGoes
<1>6. CASE LookAtParent
  <2> DEFINE p == ParentOf(prune.parent)
  <2>1. /\ UNCHANGED imgs /\ prune.at = "kin"
        /\ \/ prune' = Skip
           \/ /\ ~prune.named
              /\ prune' = [prune EXCEPT !.at = "drop", !.next = p, !.nextNamed = NamesOf(p) # {}]
    BY <1>6 DEF LookAtParent, PruneGoes, KeepsParent
  <2>2. p \in 0..Len(base) /\ p \in Nat
    BY <1>0, ParentBound
  <2>3. NamesOf(p) = {} => names["local"] # p
    BY Unnamed
  <2> HIDE DEF p
  <2>4. CASE prune' = Skip
    BY <1>0, <2>1, <2>4, SkipInv DEF imgs, ImagesType
  <2>5. ASSUME ~prune.named, prune' = [prune EXCEPT !.at = "drop", !.next = p, !.nextNamed = NamesOf(p) # {}]
        PROVE  ImagesType' /\ PruneInv' /\ names'["local"] = names["local"]
    <3>1. prune' \in Pruning
      BY <2>2, <2>5, Zenon DEF PruneInv, Pruning, MaybeImage
    <3> QED BY <2>1, <2>2, <2>3, <2>5, <3>1, Zenon DEF PruneInv, PruneConsistent, Pruning, imgs, ImagesType
  <2> QED BY <2>1, <2>4, <2>5
<1>7. CASE RemoveParent
  <2>1. prune.at = "drop" /\ UNCHANGED <<base, registry>>
    BY <1>7 DEF RemoveParent
  <2>2. ImagesType' /\ names'["local"] = names["local"]
    <3>1. CASE prune.parent \in stored /\ DeleteImage(prune.parent)
      <4>1. names["local"] # prune.parent
        BY <1>0, <2>1, <3>1 DEF PruneInv, PruneConsistent
      <4> QED BY <2>1, <3>1, <4>1, DeleteOther
    <3>2. CASE UNCHANGED <<stored, names>>
      BY <2>1, <3>2 DEF ImagesType
    <3> QED BY <1>7, <3>1, <3>2 DEF RemoveParent
  <2>3. CASE prune' = Skip
    BY <1>0, <2>1, <2>2, <2>3, SkipInv
  <2>4. CASE prune' = [prune EXCEPT !.at = "kin", !.parent = prune.next, !.named = prune.nextNamed,
                                    !.next = 0, !.nextNamed = FALSE]
    <3>1. prune' \in Pruning
      BY <2>4, Zenon DEF PruneInv, Pruning, MaybeImage
    <3> QED BY <1>0, <2>1, <2>2, <2>4, <3>1 DEF PruneInv, PruneConsistent, Pruning
  <2> QED BY <1>7, <2>3, <2>4 DEF RemoveParent, PruneGoes
<1>8. CASE KillPrune
  <2>1. prune' = [NotPruning EXCEPT !.alone = FALSE] /\ UNCHANGED imgs
    BY <1>8 DEF KillPrune, PruneGoes
  <2>2. prune' \in Pruning
    BY <2>1, Zenon DEF Pruning, NotPruning, MaybeImage
  <2> QED BY <1>0, <2>1, <2>2 DEF PruneInv, PruneConsistent, NotPruning, imgs, ImagesType
<1> QED BY <1>1, <1>2, <1>3, <1>4, <1>5, <1>6, <1>7, <1>8 DEF PruneStep

-----------------------------------------------------------------------------
(* The whole node. *)

Inv == TypeOK /\ NodeConsistent

LEMMA InvParts ==
  /\ Inv <=> /\ ImagesType /\ FilesType /\ PruneInv /\ CountsType
             /\ \A v \in Volume : VolumeInv(v)
  /\ Inv' <=> /\ ImagesType' /\ FilesType' /\ PruneInv' /\ CountsType'
              /\ \A v \in Volume : VolumeInv(v)'
<1>1. TypeOK <=> ImagesType /\ FilesType /\ CountsType /\ prune \in Pruning
  BY DEF TypeOK, ImagesType, FilesType, CountsType
<1>2. NodeConsistent <=> PruneConsistent /\ \A v \in Volume : VolumeInv(v)
  BY Zenon DEF NodeConsistent, MountAllOrNothing, SuccessMeansKept, UmountCleans, VolumeInv, Reported
<1>3. TypeOK' <=> ImagesType' /\ FilesType' /\ CountsType' /\ prune' \in Pruning
  BY DEF TypeOK, ImagesType, FilesType, CountsType
<1>4. NodeConsistent' <=> PruneConsistent' /\ \A v \in Volume : VolumeInv(v)'
  BY Zenon DEF NodeConsistent, MountAllOrNothing, SuccessMeansKept, UmountCleans, VolumeInv, Reported
<1> QED BY <1>1, <1>2, <1>3, <1>4 DEF Inv, PruneInv

LEMMA InitInv == Init => Inv
<1> SUFFICES ASSUME Init PROVE Inv
  OBVIOUS
<1> USE StoreAssumption DEF Init, NoImages, NothingMounted
<1>1. ImagesType
  BY DEF ImagesType, MaybeImage
<1>2. FilesType
  BY Zenon DEF FilesType, NewCommand, Command, NoContainer, Container, MaybeImage
<1>3. PruneInv
  BY DEF PruneInv, PruneConsistent, NotPruning, Pruning, MaybeImage
<1>4. CountsType
  BY DEF CountsType
<1>5. \A v \in Volume : VolumeInv(v)
  BY SMTT(30) DEF VolumeInv, VolumeConsistent, Reported, NewCommand, NoContainer
<1> QED BY <1>1, <1>2, <1>3, <1>4, <1>5, InvParts

LEMMA FaultsCount ==
  ASSUME CountsType, StoreAssumption, (\E kind : Fault(kind)) \/ UNCHANGED faults
  PROVE  faults' \in 0..MaxFaults
  BY DEF CountsType, Fault, StoreAssumption

LEMMA OperationVolume ==
  ASSUME NEW v \in Volume, ImagesType, FilesType, VolumeInv(v), shared' = shared, Operation(v)
  PROVE  FilesType' /\ Elsewhere(v) /\ VolumeInv(v)'
  BY MountVolume, UmountVolume, FaultVolume, Zenon DEF Operation

LEMMA NextInv == Inv /\ [Next]_vars => Inv'
<1> SUFFICES ASSUME Inv, [Next]_vars PROVE Inv'
  OBVIOUS
<1>0. /\ ImagesType /\ FilesType /\ PruneInv /\ CountsType
      /\ \A v \in Volume : VolumeInv(v)
  BY InvParts
<1>1. ASSUME NEW v \in Volume, StartMount(v) \/ StartUmount(v) PROVE Inv'
  <2>1. PICK c : Begin(v, c)
    BY <1>1, Zenon DEF StartMount, StartUmount
  <2>2. FilesType' /\ \A w \in Volume : VolumeInv(w)'
    BY <1>0, <1>1, StartVolume, OneVolume
  <2>3. ImagesType' /\ CountsType'
    BY <1>0, <2>1, StoreAssumption DEF Begin, imgs, ImagesType, CountsType
  <2>4. prune' = [prune EXCEPT !.alone = FALSE] /\ UNCHANGED imgs
    BY <2>1 DEF Begin
  <2>5. prune' \in Pruning
    BY <1>0, <2>4, Zenon DEF PruneInv, Pruning
  <2>6. PruneInv'
    BY <1>0, <2>4, <2>5, Zenon DEF PruneInv, PruneConsistent, Pruning, imgs
  <2> QED BY <2>2, <2>3, <2>6, InvParts
<1>2. ASSUME NEW v \in Volume, Operation(v), UNCHANGED <<shared, prune, runs, prunes>> PROVE Inv'
  <2>1. FilesType' /\ \A w \in Volume : VolumeInv(w)'
    BY <1>0, <1>2, OperationVolume, OneVolume
  <2>2. ImagesType' /\ PruneInv'
    BY <1>0, <1>2, OperationImages
  <2>3. (\E kind : Fault(kind)) \/ UNCHANGED faults
    BY <1>2, Zenon DEF Operation, Mkdir, FindImage, CreateContainer, MountContainer, SaveMountDir, BindMount,
      DropContainer, RemoveDir, Detach, OpenBuilder, UnmountAndDelete, UnmountContainer, CommitContainer,
      PushImage, DeleteContainer, OperationFails, Cancel, Kill, PodWrites
  <2>4. CountsType'
    BY <1>0, <1>2, <2>3, FaultsCount, StoreAssumption DEF CountsType
  <2> QED BY <2>1, <2>2, <2>4, InvParts
<1>3. ASSUME PruneStep, UNCHANGED <<shared, files, cmds, runs>> PROVE Inv'
  <2>1. ImagesType' /\ PruneInv'
    BY <1>0, <1>3, PruneImages
  <2>2. FilesType' /\ \A w \in Volume : VolumeInv(w)'
    BY <1>0, <1>3, SameVolume DEF files, FilesType
  <2>3. (\E kind : Fault(kind)) \/ UNCHANGED faults
    BY <1>3, Zenon DEF PruneStep, StartPrune, LookAtImage, LookForChildren, LookForParent, RemoveImage,
      LookAtParent, RemoveParent, KillPrune
  <2>4. prunes' \in 0..MaxPrunes
    <3>1. (prunes < MaxPrunes /\ prunes' = prunes + 1) \/ prunes' = prunes
      BY <1>3, Zenon DEF PruneStep, StartPrune, LookAtImage, LookForChildren, LookForParent, RemoveImage,
        LookAtParent, RemoveParent, KillPrune
    <3> QED BY <1>0, <3>1, StoreAssumption DEF CountsType
  <2>5. CountsType'
    BY <1>0, <1>3, <2>3, <2>4, FaultsCount, StoreAssumption DEF CountsType
  <2> QED BY <2>1, <2>2, <2>5, InvParts
<1>4. CASE UNCHANGED vars
  <2>1. ImagesType' /\ FilesType' /\ CountsType' /\ PruneInv'
    BY <1>0, <1>4, SMTT(30) DEF vars, ImagesType, FilesType, CountsType, PruneInv, PruneConsistent
  <2>2. \A w \in Volume : VolumeInv(w)'
    BY <1>0, <1>4, SameVolume, Zenon DEF vars
  <2> QED BY <2>1, <2>2, InvParts
<1> QED BY <1>1, <1>2, <1>3, <1>4 DEF Next, Rest

\* However the commands of a node interleave, fail, are cancelled or killed, and
\* whatever is pruned meanwhile: a mount is all or nothing, an umount that
\* reports success kept the contents, and one that met no failure cleaned up
\* (Mount, Unmount and their deferred functions).
THEOREM NodeStaysConsistent == Spec => [](TypeOK /\ NodeConsistent)
<1>1. Inv => TypeOK /\ NodeConsistent
  BY DEF Inv
<1> QED BY <1>1, InitInv, NextInv, PTL DEF Spec

\* The store, the commands and the prune command only ever have the values they
\* are meant to have; a name is never that of an image that was deleted
\* (removeImage deletes an image with its names, newBuilder and commit give a
\* name to images that are stored).
THEOREM StoreTypeCorrect == Spec => []TypeOK
<1>1. Inv => TypeOK
  BY DEF Inv
<1> QED BY <1>1, InitInv, NextInv, PTL DEF Spec

\* At whatever operation a mount fails, its deferred functions leave neither
\* directory nor container, but for the one they failed to remove (Mount); one
\* that succeeds leaves both.
THEOREM MountIsAllOrNothing == Spec => []MountAllOrNothing
<1>1. Inv => MountAllOrNothing
  BY DEF Inv, NodeConsistent
<1> QED BY <1>1, InitInv, NextInv, PTL DEF Spec

\* An umount that reports success has what was written in the cache image, and
\* in the registry of a shared cache, also when it finishes what an interrupted
\* one began (Unmount, commit, push).
THEOREM SuccessIsKept == Spec => []SuccessMeansKept
<1>1. Inv => SuccessMeansKept
  BY DEF Inv, NodeConsistent
<1> QED BY <1>1, InitInv, NextInv, PTL DEF Spec

\* An umount that meets no failure leaves neither directory nor container,
\* wherever the commands before it were killed (Unmount, unmountAndDelete).
THEOREM UmountLeavesNothing == Spec => []UmountCleans
<1>1. Inv => UmountCleans
  BY DEF Inv, NodeConsistent
<1> QED BY <1>1, InitInv, NextInv, PTL DEF Spec

\* Only an umount, without --commit or with an operation that failed, removes
\* a container whose contents are in no image (the deferred Delete of Unmount).
THEOREM ContentsAreNotLost == Spec => NothingLost
<1> DEFINE Lost(v) == contents[v] = "written" /\ ctrs[v].st # "none" /\ ctrs'[v].st = "none"
                      /\ ~(cmds[v].op = "umount" /\ (cmds[v].failed \/ ~cmds[v].commit))
<1>1. ASSUME Inv, [Next]_vars, NEW v \in Volume, Lost(v) PROVE FALSE
  <2>0. ImagesType /\ FilesType /\ VolumeInv(v)
    BY <1>1, InvParts, SMTT(30)
  <2>1. ctrs'[v] # ctrs[v]
    BY <1>1, SMTT(30)
  <2>2. PICK w \in Volume : Operation(w)
    BY <1>1, <2>1, Zenon DEF Next, PruneStep, StartMount, StartUmount, Begin, files, vars, Rest
  <2>3. CASE DropContainer(w) \/ DeleteContainer(w)
    BY <1>1, <2>0, <2>1, <2>3, Zenon
    DEF DropContainer, DeleteContainer, KeepsContainer, FilesType, Command, VolumeInv, VolumeConsistent
  <2>4. CASE CreateContainer(w) \/ MountContainer(w) \/ SaveMountDir(w) \/ UnmountContainer(w) \/ PodWrites(w)
    BY <1>1, <2>0, <2>1, <2>4
    DEF CreateContainer, MountContainer, SaveMountDir, UnmountContainer, PodWrites, FilesType, Container, NoContainer
  <2>5. CASE UNCHANGED ctrs
    BY <2>1, <2>5
  <2> QED
    BY <2>2, <2>3, <2>4, <2>5, Zenon DEF Operation, Mkdir, FindImage, BindMount, RemoveDir, Detach,
      OpenBuilder, CommitContainer, PushImage, OperationFails, Cancel, Kill, files
<1>2. Inv /\ [Next]_vars =>
        [\A v \in Volume : contents[v] = "written" /\ ctrs[v].st # "none" /\ ctrs'[v].st = "none"
           => cmds[v].op = "umount" /\ (cmds[v].failed \/ ~cmds[v].commit)]_vars
  BY <1>1
<1> QED BY <1>2, InitInv, NextInv, PTL DEF Spec, NothingLost

\* The image a cache is at survives every prune command, and every commit only
\* replaces it (findDanglingImages, removeImage, commit).
THEOREM CacheKeepsItsImage == Spec => LocalNameKept
<1>1. ASSUME Inv, [Next]_vars, names["local"] # 0 PROVE names'["local"] # 0
  <2>0. ImagesType /\ FilesType /\ PruneInv
    BY <1>1, InvParts
  <2>1. ASSUME NEW v \in Volume, Operation(v), UNCHANGED <<shared, prune>> PROVE names'["local"] # 0
    BY <1>1, <2>0, <2>1, OperationImages
  <2>2. ASSUME PruneStep, UNCHANGED shared PROVE names'["local"] # 0
    BY <1>1, <2>0, <2>2, PruneImages
  <2>3. CASE UNCHANGED names
    BY <1>1, <2>3
  <2> QED
    BY <1>1, <2>1, <2>2, <2>3, Zenon DEF Next, StartMount, StartUmount, Begin, imgs, Rest, vars
<1>2. Inv /\ [Next]_vars => [names["local"] # 0 => names'["local"] # 0]_vars
  BY <1>1
<1> QED BY <1>2, InitInv, NextInv, PTL DEF Spec, LocalNameKept

=============================================================================
