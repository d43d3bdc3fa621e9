----------------------------- MODULE PruneProofs ------------------------------
(***************************************************************************)
(* A prune command that runs alone is complete, for every set of volumes,  *)
(* every tree of images and every order in which it meets them.            *)
(***************************************************************************)
EXTENDS LayerStoreProofs, FiniteSetTheorems

\* The images that the prune command has in its hands and may still remove.
InHand ==
  prune.todo \cup (IF prune.at \in {"family", "parent", "remove"} THEN {prune.id} ELSE {})
             \cup (IF prune.at \in {"kin", "drop"} THEN {prune.parent} ELSE {})

\* Why an image without a name may be there at the end.
Needed(n) == InUse(n) \/ Children(n) # {}

\* Alone, what the prune command read of names and parents stays true: it only
\* deletes images without a name.  Every image that should go is in its hands.
AloneInv ==
  prune.alone =>
    /\ \A v \in Volume : ~Active(v)
    /\ prune.at = "idle" => prune.todo = {}
    /\ \A n \in prune.todo : NamesOf(n) = {}
    /\ prune.at \in {"family", "parent", "remove"} => NamesOf(prune.id) = {}
    /\ prune.at = "remove" => prune.parent = ParentOf(prune.id)
    /\ prune.at \in {"remove", "kin"} => (prune.named <=> NamesOf(prune.parent) # {})
    /\ prune.at = "drop" =>
         /\ NamesOf(prune.parent) = {}
         /\ prune.next = ParentOf(prune.parent)
         /\ prune.nextNamed <=> NamesOf(prune.next) # {}
    /\ \A n \in Dangling : Needed(n) \/ n \in InHand

-----------------------------------------------------------------------------

\* Nothing that the prune command looks at has changed.
LEMMA SameImages ==
  ASSUME UNCHANGED <<base, stored, names>>, ctrs' = ctrs
  PROVE  /\ Dangling' = Dangling
         /\ \A n : NamesOf(n)' = NamesOf(n) /\ ParentOf(n)' = ParentOf(n) /\ (Needed(n)' <=> Needed(n))
<1>1. \A n : NamesOf(n)' = NamesOf(n) /\ ParentOf(n)' = ParentOf(n)
  BY DEF NamesOf, ParentOf
<1>2. \A n : Needed(n)' <=> Needed(n)
  BY DEF Needed, InUse, Children
<1> QED BY <1>1, <1>2 DEF Dangling

\* An image without a name is deleted: the names stay, and its parent is the
\* only one that may not be needed any more.
LEMMA DeleteUnnamed ==
  ASSUME ImagesType, NEW n, n \in stored, NamesOf(n) = {}, DeleteImage(n), base' = base, ctrs' = ctrs
  PROVE  /\ names' = names
         /\ \A m : NamesOf(m)' = NamesOf(m)
         /\ \A m \in Dangling' : m \in Dangling /\ m # n /\ (Needed(m) => Needed(m)' \/ m = ParentOf(n))
<1>1. stored' = stored \ {n} /\ names' = [x \in DOMAIN names |-> IF names[x] = n THEN 0 ELSE names[x]]
  BY DEF DeleteImage
<1>2. names' = names
  <2>1. DOMAIN names = {"local", "remote"} /\ names = [x \in DOMAIN names |-> names[x]]
    BY DEF ImagesType
  <2>2. \A x \in DOMAIN names : names[x] # n
    BY <2>1 DEF NamesOf
  <2> QED BY <1>1, <2>1, <2>2, Zenon
<1>3. \A m : NamesOf(m)' = NamesOf(m)
  BY <1>2 DEF NamesOf
<1>4. ASSUME NEW m \in Dangling' PROVE m \in stored /\ m # n /\ NamesOf(m) = {}
  BY <1>1, <1>3, <1>4 DEF Dangling
<1>5. ASSUME NEW m \in stored, Needed(m), m # ParentOf(n) PROVE Needed(m)'
  <2>1. CASE InUse(m)
    BY <2>1 DEF InUse, Needed
  <2>2. ASSUME NEW c \in Children(m) PROVE Needed(m)'
    <3>1. c # n
      BY <1>5, <2>2 DEF Children, ParentOf
    <3>2. c \in Children(m)'
      BY <1>1, <2>2, <3>1 DEF Children
    <3> QED BY <3>2 DEF Needed
  <2> QED BY <1>5, <2>1, <2>2 DEF Needed
<1> QED BY <1>2, <1>3, <1>4, <1>5 DEF Dangling

\* The prune command turns to the next image, and nothing is forgotten.
LEMMA SkipAlone ==
  ASSUME AloneInv, prune' = Skip, cmds' = cmds, \A n : NamesOf(n)' = NamesOf(n),
         prune.alone => \A n \in Dangling' : Needed(n)' \/ n \in prune.todo
  PROVE  AloneInv'
<1>1. prune'.at = "look" /\ prune'.todo = prune.todo /\ prune'.alone = prune.alone
  BY DEF Skip, NotPruning
<1>2. InHand' = prune.todo
  BY <1>1 DEF InHand
<1>3. (\A v \in Volume : ~Active(v)) => \A v \in Volume : ~Active(v)'
  BY DEF Active
<1> QED BY <1>1, <1>2, <1>3 DEF AloneInv

\* Every step of the prune command.
LEMMA PruneAlone ==
  ASSUME ImagesType, PruneInv, AloneInv, PruneStep, UNCHANGED <<shared, files, cmds>>
  PROVE  AloneInv'
<1>0. ctrs' = ctrs /\ cmds' = cmds /\ prune \in Pruning
  BY DEF files, PruneInv
<1>a. (\A v \in Volume : ~Active(v)) => \A v \in Volume : ~Active(v)'
  BY <1>0 DEF Active
<1>1. CASE StartPrune
  <2> DEFINE alone == \A v \in Volume : ~Active(v)
  <2>1. prune' = [NotPruning EXCEPT !.at = "look", !.todo = Dangling, !.alone = alone]
        /\ UNCHANGED <<base, stored, names>>
    BY <1>1 DEF StartPrune, PruneGoes, imgs
  <2>2. prune'.at = "look" /\ prune'.todo = Dangling /\ (prune'.alone => alone)
    BY <2>1, Zenon DEF NotPruning
  <2>3. InHand' = Dangling /\ Dangling' = Dangling /\ \A n : NamesOf(n)' = NamesOf(n)
    BY <1>0, <2>1, <2>2, SameImages DEF InHand
  <2>4. \A n \in Dangling : NamesOf(n) = {}
    BY DEF Dangling
  <2> QED BY <1>a, <2>2, <2>3, <2>4 DEF AloneInv
<1>2. CASE LookAtImage
  <2>1. prune.at = "look" /\ UNCHANGED <<base, stored, names>>
    BY <1>2, Zenon DEF LookAtImage, imgs
  <2>2. /\ Dangling' = Dangling
        /\ \A n : NamesOf(n)' = NamesOf(n) /\ ParentOf(n)' = ParentOf(n) /\ (Needed(n)' <=> Needed(n))
    BY <1>0, <2>1, SameImages
  <2>3. InHand = prune.todo
    BY <2>1 DEF InHand
  <2>4. CASE prune.todo = {} /\ prune' = [prune EXCEPT !.at = "idle"]
    <3>1. prune'.at = "idle" /\ prune'.todo = {} /\ prune'.alone = prune.alone
      BY <1>0, <2>4 DEF Pruning
    <3>2. InHand' = {}
      BY <3>1 DEF InHand
    <3> QED BY <1>a, <2>2, <2>3, <2>4, <3>1, <3>2 DEF AloneInv
  <2>5. ASSUME NEW n \in prune.todo, prune' = [prune EXCEPT !.todo = @ \ {n}],
               ~(n \in stored /\ ~InUse(n) /\ Cardinality(NamesOf(n)) <= 1)
        PROVE  AloneInv'
    <3>1. prune'.at = "look" /\ prune'.todo = prune.todo \ {n} /\ prune'.alone = prune.alone
      BY <1>0, <2>1, <2>5 DEF Pruning
    <3>2. InHand' = prune.todo \ {n}
      BY <3>1 DEF InHand
    <3>3. NamesOf(n) = {} => Needed(n) \/ n \notin stored
      BY <2>5, FS_EmptySet DEF Needed
    <3> QED BY <1>a, <2>2, <2>3, <3>1, <3>2, <3>3 DEF AloneInv, Dangling
  <2>6. ASSUME NEW n \in prune.todo, prune' = [prune EXCEPT !.todo = @ \ {n}, !.at = "family", !.id = n]
        PROVE  AloneInv'
    <3>1. prune'.at = "family" /\ prune'.todo = prune.todo \ {n} /\ prune'.alone = prune.alone /\ prune'.id = n
      BY <1>0, <2>6 DEF Pruning
    <3>2. InHand' = prune.todo
      BY <2>6, <3>1 DEF InHand
    <3> QED BY <1>a, <2>2, <2>3, <2>6, <3>1, <3>2 DEF AloneInv
  <2> QED BY <1>2, <2>4, <2>5, <2>6, Zenon DEF LookAtImage, PruneGoes
<1>3. CASE LookForChildren
  <2>1. prune.at = "family" /\ UNCHANGED <<base, stored, names>>
    BY <1>3 DEF LookForChildren, imgs
  <2>2. /\ Dangling' = Dangling
        /\ \A n : NamesOf(n)' = NamesOf(n) /\ ParentOf(n)' = ParentOf(n) /\ (Needed(n)' <=> Needed(n))
    BY <1>0, <2>1, SameImages
  <2>3. InHand = prune.todo \cup {prune.id}
    BY <2>1 DEF InHand
  <2>4. CASE ~(prune.id \in stored /\ Children(prune.id) = {}) /\ prune' = Skip
    <3>1. prune.id \in stored => Needed(prune.id)
      BY <2>4 DEF Needed
    <3>2. prune.alone => \A n \in Dangling' : Needed(n)' \/ n \in prune.todo
      BY <2>2, <2>3, <3>1 DEF AloneInv, Dangling
    <3> QED BY <1>0, <2>2, <2>4, <3>2, SkipAlone
  <2>5. CASE prune' = [prune EXCEPT !.at = "parent"]
    <3>1. prune'.at = "parent" /\ prune'.todo = prune.todo /\ prune'.alone = prune.alone /\ prune'.id = prune.id
      BY <1>0, <2>5 DEF Pruning
    <3>2. InHand' = prune.todo \cup {prune.id}
      BY <3>1 DEF InHand
    <3> QED BY <1>a, <2>1, <2>2, <2>3, <3>1, <3>2 DEF AloneInv
  <2> QED BY <1>3, <2>4, <2>5 DEF LookForChildren, PruneGoes
<1>4. CASE LookForParent
  <2> DEFINE p == ParentOf(prune.id)
             named == NamesOf(p) # {}
  <2>1. prune.at = "parent" /\ UNCHANGED <<base, stored, names>>
    BY <1>4 DEF LookForParent, imgs
  <2>2. /\ Dangling' = Dangling
        /\ \A n : NamesOf(n)' = NamesOf(n) /\ ParentOf(n)' = ParentOf(n) /\ (Needed(n)' <=> Needed(n))
    BY <1>0, <2>1, SameImages
  <2>3. InHand = prune.todo \cup {prune.id}
    BY <2>1 DEF InHand
  <2>4. CASE prune.id \notin stored /\ prune' = Skip
    <3>1. prune.alone => \A n \in Dangling' : Needed(n)' \/ n \in prune.todo
      BY <2>2, <2>3, <2>4 DEF AloneInv, Dangling
    <3> QED BY <1>0, <2>2, <2>4, <3>1, SkipAlone
  <2>5. CASE prune' = [prune EXCEPT !.at = "remove", !.parent = p, !.named = named]
    <3>1. /\ prune'.at = "remove" /\ prune'.todo = prune.todo /\ prune'.alone = prune.alone
          /\ prune'.id = prune.id /\ prune'.parent = p /\ (prune'.named <=> named)
      <4> HIDE DEF p, named
      <4> QED BY <1>0, <2>5, Zenon DEF Pruning
    <3>2. InHand' = prune.todo \cup {prune.id}
      BY <3>1 DEF InHand
    <3>3. (prune.parent = ParentOf(prune.id))' /\ (prune.named <=> NamesOf(prune.parent) # {})'
      BY <2>2, <3>1
    <3> HIDE DEF p, named
    <3> QED BY <1>a, <2>1, <2>2, <2>3, <3>1, <3>2, <3>3 DEF AloneInv
  <2> QED BY <1>4, <2>4, <2>5 DEF LookForParent, PruneGoes
<1>5. CASE RemoveImage
  <2>1. prune.at = "remove" /\ base' = base
    BY <1>5 DEF RemoveImage
  <2>2. InHand = prune.todo \cup {prune.id}
    BY <2>1 DEF InHand
  <2>3. CASE ~(prune.id \in stored /\ ~InUse(prune.id)) /\ prune' = Skip /\ UNCHANGED <<stored, names>>
    <3>1. /\ Dangling' = Dangling
          /\ \A n : NamesOf(n)' = NamesOf(n) /\ (Needed(n)' <=> Needed(n))
      BY <1>0, <2>1, <2>3, SameImages
    <3>2. prune.alone => \A n \in Dangling' : Needed(n)' \/ n \in prune.todo
      BY <2>2, <2>3, <3>1 DEF AloneInv, Dangling, Needed
    <3> QED BY <1>0, <2>3, <3>1, <3>2, SkipAlone
  <2>4. CASE /\ prune.id \in stored /\ DeleteImage(prune.id)
             /\ prune' = IF prune.parent = 0 THEN Skip ELSE [prune EXCEPT !.at = "kin"]
    <3>1. CASE ~prune.alone
      BY <1>0, <2>4, <3>1, Zenon DEF AloneInv, Skip, NotPruning, Pruning
    <3>2. CASE prune.alone
      <4>1. NamesOf(prune.id) = {} /\ prune.parent = ParentOf(prune.id)
        BY <2>1, <3>2 DEF AloneInv
      <4>2. /\ \A n : NamesOf(n)' = NamesOf(n)
            /\ \A n \in Dangling' :
                 n \in Dangling /\ n # prune.id /\ (Needed(n) => Needed(n)' \/ n = prune.parent)
        BY <1>0, <2>1, <2>4, <4>1, DeleteUnnamed
      <4>3. \A n \in Dangling' : Needed(n)' \/ n \in prune.todo \/ n = prune.parent
        BY <2>2, <3>2, <4>2 DEF AloneInv
      <4>4. CASE prune.parent = 0
        <5>1. 0 \notin Dangling'
          BY <4>2, ImagesAreNumbers DEF Dangling, Image
        <5> QED BY <1>0, <2>4, <4>2, <4>3, <4>4, <5>1, SkipAlone
      <4>5. CASE prune.parent # 0
        <5>1. /\ prune'.at = "kin" /\ prune'.todo = prune.todo /\ prune'.alone = prune.alone
              /\ prune'.parent = prune.parent /\ prune'.named = prune.named
          BY <1>0, <2>4, <4>5 DEF Pruning
        <5>2. InHand' = prune.todo \cup {prune.parent}
          BY <5>1 DEF InHand
        <5> QED BY <1>a, <2>1, <4>2, <4>3, <5>1, <5>2 DEF AloneInv
      <4> QED BY <4>4, <4>5
    <3> QED BY <3>1, <3>2
  <2> QED BY <1>5, <2>3, <2>4 DEF RemoveImage, PruneGoes
<1>6. CASE LookAtParent
  <2> DEFINE p == ParentOf(prune.parent)
             named == NamesOf(p) # {}
  <2>1. prune.at = "kin" /\ UNCHANGED <<base, stored, names>>
    BY <1>6 DEF LookAtParent, imgs
  <2>2. /\ Dangling' = Dangling
        /\ \A n : NamesOf(n)' = NamesOf(n) /\ ParentOf(n)' = ParentOf(n) /\ (Needed(n)' <=> Needed(n))
    BY <1>0, <2>1, SameImages
  <2>3. InHand = prune.todo \cup {prune.parent}
    BY <2>1 DEF InHand
  <2>4. CASE /\ prune.parent \notin stored \/ prune.named \/ Children(prune.parent) # {}
             /\ prune' = Skip
    <3>1. prune.alone => \A n \in Dangling' : Needed(n)' \/ n \in prune.todo
      BY <2>1, <2>2, <2>3, <2>4 DEF AloneInv, Dangling, Needed
    <3> QED BY <1>0, <2>2, <2>4, <3>1, SkipAlone
  <2>5. CASE ~prune.named /\ prune' = [prune EXCEPT !.at = "drop", !.next = p, !.nextNamed = named]
    <3>1. /\ prune'.at = "drop" /\ prune'.todo = prune.todo /\ prune'.alone = prune.alone
          /\ prune'.parent = prune.parent /\ prune'.next = p /\ (prune'.nextNamed <=> named)
      <4> HIDE DEF p, named
      <4> QED BY <1>0, <2>5, Zenon DEF Pruning
    <3>2. InHand' = prune.todo \cup {prune.parent}
      BY <3>1 DEF InHand
    <3>3. (prune.next = ParentOf(prune.parent))' /\ (prune.nextNamed <=> NamesOf(prune.next) # {})'
      BY <2>2, <3>1
    <3> HIDE DEF p, named
    <3> QED BY <1>a, <2>1, <2>2, <2>3, <2>5, <3>1, <3>2, <3>3 DEF AloneInv
  <2> QED BY <1>6, <2>4, <2>5 DEF LookAtParent, PruneGoes, KeepsParent
<1>7. CASE RemoveParent
  <2>1. /\ prune.at = "drop" /\ base' = base
        /\ prune' = IF prune.next = 0 THEN Skip
                    ELSE [prune EXCEPT !.at = "kin", !.parent = prune.next, !.named = prune.nextNamed,
                                       !.next = 0, !.nextNamed = FALSE]
    BY <1>7 DEF RemoveParent, PruneGoes
  <2>2. InHand = prune.todo \cup {prune.parent}
    BY <2>1 DEF InHand
  <2>3. CASE ~prune.alone
    BY <1>0, <2>1, <2>3, Zenon DEF AloneInv, Skip, NotPruning, Pruning
  <2>4. CASE prune.alone
    <3>1. NamesOf(prune.parent) = {} /\ prune.next = ParentOf(prune.parent)
      BY <2>1, <2>4 DEF AloneInv
    <3> DEFINE Left ==
          /\ \A n : NamesOf(n)' = NamesOf(n)
          /\ \A n \in Dangling' : n \in Dangling /\ (Needed(n)' \/ n \in prune.todo \/ n = prune.next)
    <3>2. ASSUME prune.parent \in stored, DeleteImage(prune.parent) PROVE Left
      <4>1. /\ \A n : NamesOf(n)' = NamesOf(n)
            /\ \A n \in Dangling' :
                 n \in Dangling /\ n # prune.parent /\ (Needed(n) => Needed(n)' \/ n = prune.next)
        BY <1>0, <2>1, <3>1, <3>2, DeleteUnnamed
      <4> QED BY <2>2, <2>4, <4>1 DEF AloneInv
    <3>3. ASSUME ~(prune.parent \in stored /\ ~InUse(prune.parent)), UNCHANGED <<stored, names>> PROVE Left
      <4>1. /\ Dangling' = Dangling
            /\ \A n : NamesOf(n)' = NamesOf(n) /\ (Needed(n)' <=> Needed(n))
        BY <1>0, <2>1, <3>3, SameImages
      <4>2. prune.parent \in Dangling => Needed(prune.parent)
        BY <3>3 DEF Dangling, Needed
      <4> QED BY <2>2, <2>4, <4>1, <4>2 DEF AloneInv
    <3>4. Left
      BY <1>7, <3>2, <3>3 DEF RemoveParent
    <3>5. CASE prune.next = 0
      <4>1. 0 \notin Dangling'
        BY <3>4, ImagesAreNumbers DEF Dangling, Image
      <4> QED BY <1>0, <2>1, <3>4, <3>5, <4>1, SkipAlone
    <3>6. CASE prune.next # 0
      <4>1. /\ prune'.at = "kin" /\ prune'.todo = prune.todo /\ prune'.alone = prune.alone
            /\ prune'.parent = prune.next /\ prune'.named = prune.nextNamed
        BY <1>0, <2>1, <3>6, Zenon DEF Pruning
      <4>2. InHand' = prune.todo \cup {prune.next}
        BY <4>1 DEF InHand
      <4> QED BY <1>a, <2>1, <3>4, <4>1, <4>2 DEF AloneInv
    <3> QED BY <3>5, <3>6
  <2> QED BY <2>3, <2>4
<1>8. CASE KillPrune
  <2>1. ~prune'.alone
    BY <1>8 DEF KillPrune, PruneGoes, NotPruning
  <2> QED BY <2>1 DEF AloneInv
<1> QED BY <1>1, <1>2, <1>3, <1>4, <1>5, <1>6, <1>7, <1>8 DEF PruneStep

\* The only operation without a command is that of the Pod that writes: it
\* changes no image, and no container's image.
LEMMA OperationAlone ==
  ASSUME FilesType, AloneInv, NEW v \in Volume, Operation(v), prune' = prune
  PROVE  AloneInv'
<1>1. CASE Active(v)
  <2>1. ~prune'.alone
    BY <1>1 DEF AloneInv
  <2> QED BY <2>1 DEF AloneInv
<1>2. CASE ~Active(v)
  <2>1. PodWrites(v)
    BY <1>2, Zenon DEF Operation, Mkdir, FindImage, CreateContainer, MountContainer, SaveMountDir, BindMount,
      DropContainer, RemoveDir, Detach, OpenBuilder, UnmountContainer, CommitContainer, PushImage,
      DeleteContainer, OperationFails, Cancel, Kill, Active
  <2>2. ctrs' = [ctrs EXCEPT ![v].dirty = TRUE] /\ UNCHANGED <<base, stored, names, cmds>>
    BY <2>1 DEF PodWrites, imgs
  <2>3. \A w \in Volume : ctrs'[w].st = ctrs[w].st /\ ctrs'[w].base = ctrs[w].base
    BY <2>2 DEF FilesType, Container
  <2>4. \A n : NamesOf(n)' = NamesOf(n) /\ ParentOf(n)' = ParentOf(n)
    BY <2>2 DEF NamesOf, ParentOf
  <2>5. \A n : Needed(n)' <=> Needed(n)
    BY <2>2, <2>3 DEF Needed, InUse, Children
  <2>6. Dangling' = Dangling /\ InHand' = InHand
    BY <2>2, <2>4 DEF Dangling, InHand
  <2>7. \A w \in Volume : Active(w)' <=> Active(w)
    BY <2>2 DEF Active
  <2> QED BY <2>4, <2>5, <2>6, <2>7 DEF AloneInv
<1> QED BY <1>1, <1>2

\* A prune command that no other command meets ends only when every image left
\* without a name is in use or the parent of one that is kept, whatever order
\* the store lists the images in (deleteImages, imageIsParent, the loop over
\* the parents in removeImage).
THEOREM PruneLeavesNothingBehind == Spec => []PruneIsComplete
<1>1. Init => AloneInv
  BY DEF Init, NothingMounted, NotPruning, AloneInv
<1>2. Inv /\ AloneInv /\ [Next]_vars => AloneInv'
  <2> SUFFICES ASSUME Inv, AloneInv, [Next]_vars PROVE AloneInv'
    OBVIOUS
  <2>0. ImagesType /\ FilesType /\ PruneInv
    BY InvParts
  <2>1. ASSUME NEW v \in Volume, StartMount(v) \/ StartUmount(v) PROVE AloneInv'
    <3>1. prune' = [prune EXCEPT !.alone = FALSE]
      BY <2>1, Zenon DEF StartMount, StartUmount, Begin
    <3>2. ~prune'.alone
      BY <2>0, <3>1 DEF PruneInv, Pruning
    <3> QED BY <3>2 DEF AloneInv
  <2>2. ASSUME NEW v \in Volume, Operation(v), prune' = prune PROVE AloneInv'
    BY <2>0, <2>2, OperationAlone
  <2>3. ASSUME PruneStep, UNCHANGED <<shared, files, cmds>> PROVE AloneInv'
    BY <2>0, <2>3, PruneAlone
  <2>4. CASE UNCHANGED vars
    <3>1. UNCHANGED <<base, stored, names, ctrs, cmds, prune>>
      BY <2>4 DEF vars
    <3>2. /\ Dangling' = Dangling /\ InHand' = InHand
          /\ \A n : NamesOf(n)' = NamesOf(n) /\ ParentOf(n)' = ParentOf(n) /\ (Needed(n)' <=> Needed(n))
      BY <3>1, SameImages DEF InHand
    <3>3. \A w \in Volume : Active(w)' <=> Active(w)
      BY <3>1 DEF Active
    <3> QED BY <3>1, <3>2, <3>3 DEF AloneInv
  <2> QED BY <2>1, <2>2, <2>3, <2>4, Zenon DEF Next, Rest
<1>3. AloneInv => PruneIsComplete
  BY DEF AloneInv, PruneIsComplete, InHand, Needed
<1> QED BY <1>1, <1>2, <1>3, InitInv, NextInv, PTL DEF Spec

=============================================================================
