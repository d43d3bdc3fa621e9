# k8storagex in TLA+

A verification project for [k8storagex](https://github.com/mgoltzsche/k8storagex):
TLA+ models of the manager's controllers, of the provisioner registry, of what
provisioner Pods run with, of the layer store of a node and of the synchronisation
of cache volumes between nodes, TLC runs on small instances, and TLAPS proofs of
the central safety properties. Definitions are translated from
the Go sources; `PROJECT.json` names the lines each one stands for.

## The system

| Part | Source | State | Operations that change it |
|---|---|---|---|
| PersistentVolumeClaim controller | `internal/controllers/persistentvolumeclaim_controller.go` | finalizers of the claim, provisioner Pod, PersistentVolume | add and remove finalizers, create and delete the Pod, create and delete the volume |
| PersistentVolume controller | `internal/controllers/persistentvolume_controller.go` | claim reference, annotation, finalizer of the volume, deprovisioner Pod | remove the reference, create and delete the Pod, record its success, remove the finalizer |
| Pod controller | `internal/controllers/pod_controller.go` | annotation of the claims of a completed Pod | annotate and delete claims |
| Job runner | `internal/utils/pod.go`, `deleteresource.go`, `podmapper.go` | the Pods above | ReconcileJob, ReconcilePod, DeletePod |
| Registry and its controller | `internal/controllers/storageprovisioner_*.go` | map from provisioner name to object, status condition | Put, Delete, load at start, status update |
| Cache synchronisation | `internal/ksync` | status of a Cache resource | register, prepare commit, unregister, each with retries |
| layerfs store | `internal/layerfs/store.go` | containers, images, mounts of a node | mount, unmount, commit, push |
| layerfs prune | `internal/layerfs/prune.go` | images of a node | delete dangling images |
| layerfs CLI | `cmd/layerfs` | – | runs one store operation |
| Cache controller (disabled) | `internal/controllers/cache_controller.go` | finalizer, phase and conditions of a Cache | reset |
| Manager | `cmd/manager/main.go` | – | loads the registry, starts the controllers |
| Helpers | `internal/utils`, `internal/template` | – | pure functions |

A user creates a claim; the scheduler selects a node; the claim controller adds
its finalizer, runs a provisioner Pod on the node, and creates a volume bound to
the claim. When the claim is deleted (by a user, or by the Pod controller when
the Pod that wrote to it completed) the claim controller deletes the Pod and the
volume and removes its finalizer; the volume controller then waits for the claim
to be gone, runs the deprovisioner Pod, and lets the volume go. For cache volumes
the two Pods run `layerfs mount` and `layerfs umount`, which keep the Cache
resource that the nodes share.

What makes this hard to test: the controllers decide on caches that lag behind
the API server, kind by kind; they address objects by name; reconciliations
consist of several writes, any of which may fail or be the last one before the
process stops; several nodes write to one Cache resource; and the commands of a
node share its image store without a lock between two operations. The hazards,
with their lines, are in `PROJECT.json`.

## Modules

* `Kube` is the environment: the API server (optimistic locking, finalizers,
  graceful deletion), the manager's caches and queues, users, scheduler, volume
  binder, protection controllers and kubelets. It is external code, modelled from
  how the controllers use it, except for the watches and predicates.
* `Job`, `PVCController`, `PVController`, `PodController` hold one action per write
  of the code, and one for each way to return without a write.
* `Provisioning` composes them and states the properties. `MCProvisioning`
  instantiates it. `VolumeLifecycle` is the abstract specification: the claim, the
  directory, the knowledge that it was freed and the object of a volume, each
  changed in one piece. `Provisioning` refines it (`LifecycleKept`).
* `CacheLedger` is the abstract specification of the Cache status: a ledger whose
  entries are made and removed in one piece. `CacheSync` is `internal/ksync`,
  request by request, and refines it. `MCCacheSync` instantiates it.
* `Registry` is the provisioner registry with its controller; `MCRegistry`
  instantiates it.
* `LayerStore` is one node: the mount and umount commands of the volumes of a cache
  (`store.go`, `mount.go`, `push.go`) and the prune command (`prune.go`), operation
  by operation. `MCLayerStore` instantiates it, on a new node or one whose cache has
  an image already.
* `PodTemplates` is the data that `Provisioning` leaves out: the environment, the
  command and the paths of the two Pods of a volume, from the StorageProvisioner
  and the claim's annotations through Pod and volume to the deprovisioner.
  `MCPodTemplates` instantiates it.
* `ProvisioningTypes`, `ProvisioningProofs`, `DeprovisionerProofs`, `CacheSyncProofs`,
  `LayerStoreProofs`, `PruneProofs`, `RegistryProofs` and `PodTemplateProofs` hold the
  proofs.

### How the models correspond to the code

*Objects.* A claim, its volume (`pvc-<UID>`) and its two Pods are indexed by the
claim's UID. Fields are reduced to what the code tests. Each field moves in one
direction only, so equality of two copies stands for equality of resource
versions: an `Update` succeeds when the copy that was read equals the stored
object. A `Delete` has no precondition.

*Caches.* A watch brings a cache up to date with the API server one kind at a
time, and the kinds lag independently; Pods of the manager and of users are one
kind. Intermediate versions of an object may be skipped but a cache is always a
past snapshot of its kind. The manager's caches are shared by its controllers.

*Reconciliations.* The reads and the first write are one step; the second write
of a reconciliation is another one (`claimStep`, `podStep`), with the values read
before it. An attempt that fails before it wrote anything puts its key back and is
a stuttering step. A key that is enqueued while it is processed is processed
again, as in controller-runtime's queue. Each controller has one worker.

*Provisioner Pods.* `vol` says whether the claim's directory is on the node. The
shipped provisioner scripts fail when it exists; a failed Pod may have done its
work or not; a deprovisioner that succeeded removed it (`freed`).

*CacheSync.* The client reads the API server directly. A volume is on one node;
the node's record in the status is left out but for its volumes. `Phase` is never
set to `reject` (its controller is disabled), so read-only stands for both. The
store below is reduced to the outcomes its caller sees; `LayerStore` has its steps.
`fresh` is the set of commands whose copy has the resource version that is stored.
The branch of `commitInProgress` that removes a lock that timed out is left out, since
there are no locks (`CommitNeverStarts`). This is a disagreement of the code with
itself: `PrepareCommit` is written to take a lock (`CommitStartTime`, `sync.go:60`) and
a message speaks of "removing its lock from cluster" (`sync.go:194`), but
`commitInProgress` (`sync.go:189`) answers yes as soon as a volume has *no* commit
going on, which the volume that asks for one has not. So no commit is ever granted,
and nothing keeps two nodes from committing at once. It shows nowhere else because
`synchronizedStore.Unmount` does not look at the answer: it commits anyway.

*Registry.* A specification is its provisioner name, whether it is valid, and a
number. Provisioner names are not empty. Status updates conflict when the object
changed; equality of objects stands for that within a run of the manager. A manager
that starts lists the objects (`listed`) and puts them one by one, in any order, while
users go on to change them; its caches are filled after that.

*LayerStore.* `cmds[v].at` is the next operation of the command of volume `v`: for
`Mount` mkdir, find (or pull) the image, create the container, mount it, save the
directory in it, bind it, and the two deferred functions; for `Unmount` the removal
of the directory, the lookup of the container, unmount, commit, push, and the
deferred deletion. Each may fail (`OperationFails`, `Undo` names what is deferred by
then), be cancelled by a first signal or ended by a second one or a node failure
(`Kill`, whatever was deferred is not run). The deferred functions of `Mount` may fail
too, and ignore it; `left` remembers what they could not remove, the container or the
directory, and the properties of a failed mount except that and nothing else. Images are numbered as they are
committed; `names` has the two names of a cache, of the local image and of the one
in the registry. `contents` follows what a Pod wrote: in the container, committed,
pushed. What the libraries do (containers/storage, containers/image, buildah) is
modelled from how the code uses them: a name belongs to one image, the store
refuses to delete an image that a container was made from, and a push reads its
image by id and by the name it was committed under. Commands are given the name of
the container, as the shipped scripts do.

*PodTemplates.* A string of a specification is a literal, the placeholder of the
node's path, or one that does not exist; an environment is a sequence of pairs;
names are numbers, which `Ordered` sorts; commands are nil, empty or one of three.
`Lookup` is the reference for `uniqueEnv`: what a process sees is the last entry of a
name. `validateProvisioner` ignores that a specification cannot be substituted: one with an
unknown placeholder is registered, and no Pod is created for it. Worth knowing, and visible in
`Merge`: containers are merged in place, so the specification that the volume is
annotated with has the provisioner's variables and command in the template, and a
deprovisioner without a command of its own runs the provisioner's. That is why
`DeprovisionerBuildable` holds although nothing validates the deprovisioner.

## Runs

Deadlock is checked in every run but `templates`, where a volume goes through its
life once and the system rests when all are gone. `CacheSync` and `LayerStore` have
an explicit stuttering step for the state in which no command runs.

| Run | Instance | Shows |
|---|---|---|
| `claim` | one claim that is bound immediately, a third-party finalizer; failed writes, restarts, lost Pods, dropped annotations, deleted volume objects | the safety properties, the inductive invariant, and the refinement of `VolumeLifecycle` |
| `live` | one claim; failed writes and restarts; finished Pods are not removed by others | a claim gets its volume; deleted claims and volumes go; the deprovisioner is not started again once its success is stored |
| `auto` | one claim, from the bound state, and one Pod that is never restarted; failed writes, restarts, a registry that forgets, dropped annotations, deleted volume objects | a running Pod keeps its volumes; the inductive invariant |
| `auto_live` | one claim with a retained volume, one Pod restarted on failure, reused Pod names, from the bound state | the claim of a completed Pod goes away |
| `sync` | two volumes, two commands each, two attempts, all events, one edit | the ledger is implemented; generations differ; a mounted volume stays listed; one whose umount succeeded is not listed again; every command ends |
| `registry` | two objects, two names, three specifications | an ambiguous name is disabled; the latest specification is used; the inductive invariant; the status catches up |
| `node` | two volumes of one cache, with and without a registry, three commands on a new node or two on a used one or one where both volumes are written, one prune, two faults | mounts are all or nothing, but for what they fail to remove; nothing written is lost unnoticed; success means committed and pushed; an umount cleans up after anything; the cache keeps its image; a prune that runs alone is complete |
| `templates` | two volumes, one annotation, eight specifications that overlap, lack a command or have an unknown placeholder, edits at any time | what is registered has an image and a command; precedence of variables; the deprovisioner follows its provisioner; its Pod can be built; no volume gets another's directory |

Four more runs each refute what a comment, a test or the documentation of the
program says; `findings` in `PROJECT.json` quotes the line and says what happens:

* `leaked_pv`: a volume that the cache does not show when its claim is deleted is
  never deleted;
* `shared_claim`: the completion of one of two Pods, which use a bound claim, takes the
  volume from the other;
* `lost_contents`: `umount --commit` through `synchronizedStore` reports success
  although the commit failed;
* `pruned`: prune deletes an image that came into use after it was listed.

*Bounds.* Claims of different names interact only through the worker of their
controller, so one claim shows the races between API server, caches and
reconciliations; that claims of one name, which are looked up by name, do no harm
to each other is proved for any number of them. The number of writes per claim is
finite by itself. `MaxRuns` (commands per volume),
`MaxEdits` (edits of the resource) and `MaxVersion` (specifications) bound the
other models: two commands per volume are a mount and an umount or a repetition of
either, and two attempts are a conflict and the last attempt. `Steps` is 10 in the
code; nothing depends on it, as the proofs show for the safety properties. In
`LayerStore`, `MaxRuns`, `MaxPrunes` and `MaxFaults` bound the commands of the node and
what goes wrong: three commands are a mount and an umount of one volume and a mount of
the other, or an umount that is repeated; the run also starts, with two commands, from a
node where images were committed before, one from another, so that prune meets parents,
and where the image in the registry may be deleted from the node and pulled again, and from a node on which both volumes are mounted
and written, so that two umounts commit and push at once; two faults are an interrupted
command and a failure in the one after it, or a failure and one of its clean-up.
`UmountCleans` and `SuccessMeansKept` after more of them are proved. In `PodTemplates`,
`MaxEdits` leaves room for an edit of provisioner and claim before each of the steps
of a volume.

The faults are spread over `claim` and `auto`, and `auto` starts where the claim is
bound, to keep the state spaces small; the proofs start from the beginning and have
all faults at once.

*Fairness.* The work queues hand out every key; watches deliver; the informers
resync every ten hours; the cluster's controllers and kubelets do their work.
Strong fairness is assumed of writes that are tried again after each failure or
restart, since the queue retries for ever; in `Registry` also of the watch, so that a
manager that is started again and again is not always stopped before its caches are
filled. Nothing is assumed of users, faults, or
of whether a Pod succeeds. In `CacheSync` a command that was started goes on and
the API server answers its requests; no request has to fail, so commands do not
end merely because requests fail in the end.

Every property of a passing run has a mutant: a definition changed the way a
plausible bug would change it, under which the run finds the property violated.

## Proofs

TLAPS checks, for every set of claims, names, Pods and faults that satisfies
`KubeAssumption`:

* `ProvisioningTypes`: `TypeCorrect`.
* `ProvisioningProofs`: `AlwaysConsistent`, and from it `DeprovisioningIsSafe`,
  `BoundClaimsAreBacked`, `FinalizersComeFirst`, `NothingIsForgotten`.

No safety property is inductive by itself, since the controllers decide on caches.
`Consistent` says what a cache may still show: a cached claim is never ahead of the
stored one, and its finalizer is missing from the API server only when the cache
shows the deletion already (`CacheFollowsClaim`); the claim a half-done
reconciliation is about to release was seen deleted, with nobody else's finalizer
left (`StepFollowsClaim`); nothing is made for a claim the cache has not seen
(`SeenFirst`); a volume without its reference, stored or cached, and any
deprovisioner Pod imply that the claim is gone (`ReferenceKept`); a live claim with
a volume or a completed Pod has its directory (`VolumeKept`); and whoever says a
volume was freed is right (`FreedKnown`). The proof has one step per action.

`ProvisioningImplementsLifecycle` follows from the same invariant: with the mapping
`Life` (the stored claim, the directory, `freed`, the stored object), every step of a
controller, a cache, a user or a kubelet is a step of `VolumeLifecycle` or none. The
abstract guards are what the controllers cannot see and have to rely on: that a
directory is freed only when the claim is gone, and an object forgotten only when its
directory was.

`DeprovisionerProofs` proves `DeprovisionerRunsOnce` under one more assumption, that
`podLost` is none of the faults: when somebody else removes a finished Pod before the
volume controller saw it, the deprovisioner has to be run again. A volume controller that
reads an old volume may want to start a deprovisioner although the volume is marked; the
invariant `Once` says what stops it. As long as the cache does not show the mark, the Pod
is not deleted, the mark is stored only beside a Pod that succeeded, and a Pod the cache
shows still exists; so the creation fails.

It also proves `RunningPodKeepsVolumes`, for Pods of users, under two assumptions: that
the claims which are freed with a Pod are mounted by that Pod only (`Unshared`), and that
`reuse` is none of the faults, so that a Pod is not created again under the name of one
that is over. The instance of `auto` satisfies both; without the first the property is
false, which is what `shared_claim` shows. The volume is held by the protection of its
claim, and that is what the manager itself takes away. The invariant `InUseInv` says when
it may: what the Pod controller's cache, queue and half-done loop take for over is over
(`OverFirst`); a claim loses its protection only once it is deleted, and the protection
is waived only for a Pod that frees the claim and is over (`ProtectionKept`); and a
running Pod holds the claims it was started with, bound and protected (`Held`). By
`Unshared` the Pod that frees a claim and the Pod that runs with it are the same, and a
Pod that is over does not run again.

`CacheSyncProofs` proves, for every number of volumes and attempts under
`SyncAssumption`: `SyncTypeCorrect`; `CommitNeverStarts` (see *CacheSync* above); and
`SyncImplementsLedger`, the refinement of `CacheLedger`. Its invariant adds that a
command in `fresh` has a copy equal to the stored resource. `GenerationsNeverRepeat`
is proved of the ledger (every entry has a generation of at most that of the
resource, and committable ones differ) and holds of `CacheSync` since it implements
the ledger. `MountedVolumesAreListed` needs to know where a volume can get mounted:
`Tracked` says that the first command for a volume that mounts it ends with the mount,
that umount commands are never the first, and that what is about to be mounted is listed,
which the updates of other volumes keep. `UnmountedVolumesAreUnlisted` is the converse: an
umount succeeds only where its own update removed the entry or found no resource, and the
updates of other volumes, whose copies are the stored resource, do not bring it back.

`LayerStoreProofs` proves, for every number of volumes, commands, prunes and faults
under `StoreAssumption`: `NodeStaysConsistent`, and from it `StoreTypeCorrect`,
`MountIsAllOrNothing`, `SuccessIsKept`, `UmountLeavesNothing`, `ContentsAreNotLost` and
`CacheKeepsItsImage`. `NodeConsistent` is the inductive invariant. Its part for a
volume (`VolumeConsistent`) says what a command has done when it is at an operation:
that the directory is there from mkdir on, that a failed mount leaves what it could not
remove and nothing else, that a container with nothing to commit has
nothing written, that from the lookup on a container is there, and that a command that
is not successful was cancelled or had a failure. Its part for prune
(`PruneConsistent`) says that the image with the local name is none of those the
command still has in its hands; it is inductive because the local name only ever goes
to a new image, while names of the registry may return to an old one, which is what
the run `pruned` shows.

`PruneProofs` proves `PruneLeavesNothingBehind` under the same assumption, for every tree
of images. Its invariant `AloneInv` says that, as long as no other command runs, every
image that should go is among those the command has yet to look at (`InHand`), and that
the names and parents it has read are still right. What makes it inductive is that each
deletion hands on the parent: an image that loses its last child is the next the loop of
`removeImage` takes up, or has a name, or is in the list already.

`RegistryProofs` proves, for any objects, names and number of specifications under
`RegistryAssumption`: `RegistryStaysConsistent`, and from it `RegistryTypeCorrect`,
`AmbiguousNamesAreDisabled` and `LatestSpecificationIsUsed`. The two properties speak of
pairs of objects and of one kind of entry, and are not inductive: a name may have been
left behind by a deleted object, which `Delete` does not remove. `RegistryConsistent` says
that the name of an object that was reconciled as it is is disabled or its own; that
specifications are numbered, so that an edited object differs from its cached copy until
it is reconciled again; and that nothing is cached before the load is done, so that no
object counts as reconciled in a registry that is half loaded. `Put` keeps it because it
changes the entry of another object only by disabling it.

`PodTemplateProofs` proves, for every set of volumes, annotations, texts and
specifications under `TemplateAssumption` (which says what the fields of a specification
are): `TemplatesTypeCorrect`, `EnvHasPrecedence`, `DeprovisionerSeesTheSame`,
`DeprovisionerCanBeBuilt` and `DirectoriesAreOwn`. It has two parts. The first is about
the operators: `OrderedLists` (a finite set of numbers has a k-th element for every k up
to its size, by the pigeonhole principle, so that no induction is needed), `UniqueEnv`
(every name once, and `Lookup` is the same before and after), `LookupConcat` (the later
list takes precedence), `CopyFollows` (the copied annotations say what the annotations
said), and one lemma per step that a specification goes through. The second is the
invariant `TemplateInv`: a Pod is what its specification and annotations make of it
(`Made`), what is registered passed `validateProvisioner` and so has an image and a command
(`ValidatedIsRunnable`), a volume has what the Pod that succeeded recorded, and a deprovisioner Pod is
what the volume makes of it. What it says of Pods and volumes mentions neither the registry nor the claims, which is why
no edit matters.

Only model-checked: liveness (`ClaimGetsVolume`, `DeletedClaimGoes`, `DeletedPVGoes`,
`CompletedPodFreesClaim`, `CommandEnds`, `StatusCatchesUp`), which is out of the prover's
reach. Every safety property of a passing run is proved; `DeprovisionOnce` and
`RunningPodHasVolumes` under the assumptions named above, which their runs satisfy.

## Not modelled

* The Cache controller (`cache_controller.go`): `cmd/manager/main.go` does not set it up
  (TODO), the Pod it would start has the image `TODO`, and it removes finalizers through
  the status, which a resource with a status subresource ignores. There is no
  running behaviour to be faithful to.
* Code nothing calls: `newPodFromTemplate`, `addVolume`, `addVolumeMount`; the branches of
  `prune.go` that only other arguments reach (`untagImage`, `removeContainers`).
* `ResourceName`, a hash: the models index by what is hashed.
* Flags, store options, TLS and credentials of `cmd/layerfs`; leader election, metrics and
  health checks of the manager; events, conditions' texts and logs.
* Generated code.

## Plan

1. `LayerStore` in place of `LocalMount` and `LocalUnmount` in `CacheSync`, as one
   composition; the two agree on the outcomes today but the composed state space is
   out of reach of the present bounds.
2. `Registry` composed with `Provisioning` in place of `known`.
