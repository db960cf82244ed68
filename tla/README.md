# TLA+ models of the CSI based tool provider

The repository is a CSI driver that bind-mounts the file systems of container
images (tools) into pods, and an adapter that pulls those images from software
catalogs. This directory holds TLA+ models of both and of their environment
(kubelet, operator, power losses), their TLC configurations, and TLAPS proofs
of their safety and of a refinement. All paths below are relative to the
repository's root.

## The system

| Component | Code | State | Operations |
|---|---|---|---|
| Badger transactions | `vendor/github.com/dgraph-io/badger/v3/txn.go`, `y/watermark.go` | snapshots, read keys, committed keys; timestamps and their water marks | begin, commit with conflict check, discard |
| Metadata store | `pkg/toolprovider/metadatastore.go` | key-value store: container of an image, metadata of a container, container of a volume, volumes of a container, containers to clean | seven transactions; HTTP reader and deletion of a key; value-log GC |
| Node server | `pkg/toolprovider/nodeserver.go` | hashed mutex per volume; the bind mounts of the node | `NodePublishVolume`, `NodeUnpublishVolume` (one goroutine per call) |
| Image manager | `pkg/toolprovider/imageManager.go`, `updateImage` | the round it is in | `updateImages` on a tick or a change of the images file |
| Container cleaner | `pkg/toolprovider/containerCleaner.go`, `getContainersToDelete` | the list of its round | `cleanContainers` on a tick |
| Container storage | the `buildah` commands of `imageManager.go` | containers, their content, their mounts | from, mount, rm, rm --all |
| Driver | `pkg/toolprovider/driver.go`, `cmd/toolproviderplugin/main.go` | whether it runs, whether the store exists | start, creation of the store, goroutines |
| Software catalogs adapter | `pkg/catalogs/adapter.go`, `cmd/softwarecatalogsadapter/main.go` | catalogs, images of the round, images file | pull rounds: first, change, retry, tick |
| Images file | `adapter.go:136-152`, `getCatalogImagesFromConfigMap` | its text | written by the adapter, parsed by the image manager |
| Triggers of the rounds | `cmd/toolproviderplugin/main.go` | ticker, watch on the images file, pending events | select, hand over to the image manager, add the watch again |
| Identity, controller and gRPC servers, metrics, configuration, logging | the rest of `pkg` | none that matters | not modelled |

How they interact:

* The adapter writes the *images file* (image, image ID, catalog); the driver's
  image manager reads it. Nothing else passes between the two processes. A
  ticker and a watch on the file start the image manager's rounds.
* In the driver, the call handlers, the image manager and the container cleaner
  are goroutines that share the metadata store (one Badger transaction per
  operation) and the container storage. Handlers of one volume exclude each
  other by a mutex; nothing but Badger's conflict detection stands between a
  handler, the image manager and the cleaner.
* The kubelet may repeat, overlap and reorder calls. The driver, the adapter
  and the node may die at any time. The store is a host directory, so it
  survives the death of the node; the mounts do not. It is opened without
  `SyncWrites`, so a power loss can take it back to an earlier commit. An
  operator can delete single keys of it over HTTP.

What is hard here: `getContainersToDelete` looks for volumes with a scan that
Badger does not record as a read, so two transactions that should exclude each
other are not seen as conflicting; `updateImage` runs `buildah` commands, which
take seconds, inside a transaction; every command, mount and commit can fail
half way through an operation; the cleaner commits before it deletes; and the
adapter has several triggers, a retry timer and an order of catalogs that Go
chooses at random; the watch on the images file is lost with every
replacement of the file and added again only after a round was handed over.

What makes each part correct:

* *store, node server, cleaner*: a container with a volume record is never
  removed; what a publish mounts is what the store records; two handlers never
  mount over each other;
* *image manager*: the container serving an image is complete, not retired and
  serves nothing else; no container is forgotten except by a failure; a listed
  image ends up served with the listed content;
* *cleaner*: a retired container without volumes is forgotten in the end, one
  in use never is;
* *transactions*: a publish is refused ("being updated, retry") exactly when
  its image has moved, and the background goroutines never lose a transaction;
* *triggers*: no change of the images file goes unread;
* *images file*: what one process writes the other reads, whatever commands print;
* *adapter*: it does not settle on catalogs that are not those of the file; the
  latest content of a wanted image is published in the end; retries end.

## Modules

`BadgerTxn` gives every goroutine at most one open transaction: the keys it has
read in its snapshot (`reads`), and whether one of them was committed since
(`stale`, which is what `hasConflict` computes from timestamps). `Commit`
requires that the reads are not stale and makes the readers of the written keys
stale; a transaction without writes commits without a check, as in Badger.
`CommitFails` is the other end of every `db.Update`: the commit is refused, or
the oracle has accepted it, and has noted its keys, before the write is lost.

`Buildah` is the container storage, from how `imageManager.go` uses it: the
containers that exist, their content (`FromImageID`) and which are mounted. A
container's mount path is one to one with the container and not a value of its
own. Identifiers are never reused.

`MetadataStore` has one variable per family of keys, the key names, and per
transaction of `metadatastore.go` what it reads (`...Reads`) and what it writes
(`...Writes`, `...Commit`). A value that the properties do not tell apart is
reduced to the presence of its key. The operators marked *faulty variant*, here
and elsewhere, are not part of the model: each is one of the definitions with a
plausible bug.

`NodeServer` runs the two handlers step by step: lock and begin of the
transaction, commit, check of the target path, check of the source, mount, the
cleanup on an error, the reply; unmount, begin and commit of the drop, reply.
Every error return of the code is a disjunct.

`ImageManager` is the round of `updateImages`: read the file, retire the
missing images, list the mount points, then image by image inspect, mount again
or create, mount and commit, each with its failures. `ContainerCleaner` is the
round of `cleanContainers`.

`ToolProvider` composes them: the process starts, creates the store and
removes the containers of an earlier installation, dies (`Crash`) or dies with
the node (`Reboot`); the images file changes at any time. It also states the
properties. `ToolProviderInvariants` has the inductive invariants, in layers:
`CoreInv`, `MetadataInv`, `ExistInv` and `ReadsInv`, which make `IInv`;
`VolumeInv`; `AccountInv`; `RoundInv`. `ToolProviderProofs` proves what holds in every
environment of the driver (the first three layers), `ToolProviderSafetyProofs`
the others, all theorems about the driver, and the refinement below;
`MCToolProvider` has the instances for TLC.

`VolumeBindings` is the abstract specification: images, volumes and containers
with `Bind`, `Release`, `MountVolume`, `Create`, `Serve`, `Retire`, `Forget` and
`Delete`, each in one step, without transactions, locks, rounds or processes.
Its promise is `KnownContainersExist`. `ToolProviderBindings` instantiates it
with the driver's variables (`exists <- ctrs`, `current <- imageTag`,
`retired <- toClean`, `users <- volumes`, `target <- volMount`);
`VolumeBindingsProofs` proves the promise, `ToolProviderSafetyProofs` the
refinement.

Three modules put the driver in a harder environment, by steps of their own
beside `ToolProvider!Next` or by fairness:

* `Interventions` changes the store behind the driver's back, in two ways and
  in any order. `PowerLoss` has the first: `durable` is the store that a power
  loss would leave, which the system brings up to date at any time (`Sync`);
  `LosePower` goes back to it, loses memory and mounts, and keeps containers and
  images file. Badger appends whole transactions to one log, so what is left is
  a prefix. `OperatorDeletes` has the second: the HTTP `DELETE` of one key at any
  moment. `MCInterventions` has the instances.
* `BindMounts` adds which target paths are writable binds and which containers
  have lost files: `Mount` binds and remounts in two commands, and
  `NodeUnpublishVolume` runs `rm -Rf` on a target it could not unmount.
* `Kubelet` adds no step but the fairness of the caller: a publish is called
  again until it succeeds or the pod is given up.

The first two state the inductive invariant that is left of the driver's in
their environment (`InterventionsInv`) or that they add to it (`AnswerInv`);
`EnvironmentProofs` proves their safety.

`RoundTriggers` is the goroutine in front of the image manager: ticker channel
of capacity one, fsnotify watch and its Remove event, unbuffered hand-over,
watch added again. Adding a watch can fail also for a file that exists
(the system's limit on watches), and `main.go` drops that error: then the watch
is lost for good, and only the ticks carry `ChangesAreNoticed`. `WatchIsKept`
says that nothing else loses it. The image manager is reduced to reading the file and working
for any time. `ImagesFileProofs` proves its safety.

`SoftwareCatalogsAdapter` is the adapter: `ImagePuller`'s loop, the rounds of
`pullImages`, catalog by catalog and image by image in any order, the retry
timers, the ticker, the watcher, edits of the catalogs file (well-formed or
not), pushes to and outages of the registry, restarts.
`SoftwareCatalogsAdapterProofs` proves its safety. `CatalogPipeline` runs it
(by `INSTANCE`) beside `ImageManager` over one images file, and
`CatalogPipelineProofs` proves what it promises.

`ImagesFile` is the text of that file: the lines the adapter writes, sorted, and
the splits with which the image manager reads them, on texts that are sequences
of separators and words. A split is the set of its cuts (`Cuts`): a part begins at
the start of the text or after a separator and ends at the next one (`End`).
`ImagesFileProofs` proves what is read of what was written.

`BadgerOracle` is what `BadgerTxn` abstracts from: the oracle that gives
transactions their read and commit timestamps, finds conflicts among the commits
it remembers, and forgets commits up to the read timestamp below which, by its
water mark, no transaction is open. `WaterMark` has the two water marks: marks
sent into a channel, and the goroutine that takes them out at any time. A
transaction runs once; `Owner` says for which goroutine, and one that starts
after a process died is another one. `BadgerOracle!Abstract` is the refinement
mapping: a transaction is active from its read timestamp to its commit
timestamp or end, and stale when a key it reads has a later commit, remembered
or not. `BadgerOracleProofs` proves the refinement; `MCBadgerOracle` is an
instance with four transactions.

## Runs

| Run | Instance | Shows |
|---|---|---|
| `safety` | 1 image, 2 contents, 2 containers, 1 volume, 2 calls | the safety properties of the driver, `IInv`, and that it implements `VolumeBindings`, with crashes and reboots |
| `mounts` | `BindMounts`: 2 images, 2 containers, 2 volumes of one image with mutexes of their own, 1 call | one volume's drop leaves the other volume alone, images do not disturb each other, published volumes are read-only |
| `served` | 1 image, 2 contents, 3 containers, no call | `CatalogIsServed` |
| `published` | `Kubelet`: 1 image, 2 containers and an old one, 1 volume, 1 call | `RepeatedPublishesMount`, `RetiredContainersAreCollected`; restarts beside the containers of an earlier installation |
| `interventions` | `Interventions`: 1 image, 2 containers, 1 volume, 1 call, 1 deletion | what power losses and deletions leave intact |
| `repaired` | `Interventions`: 1 image, 3 containers, no call, 1 deletion | `InterventionsAreRepaired` |
| `adapter` | 1 image, 2 contents, 2 catalogs (one without updates) | safety and liveness of the adapter |
| `steady` | `CatalogPipeline`: 1 image, 2 catalogs, 2 containers | `SteadyImagesStayServed` |
| `imagesfile` | 2 images, 3 outputs, 3 catalog names | the text of the images file |
| `triggers` | no parameters | safety and liveness of the triggers |
| `used`, `intact` | as `safety` and `mounts` | violations: see *Findings* |

Bounds. `Containers` bounds how many containers a run can create: identifiers
are never reused, so a run with two containers covers one update of an image
(an old and a new container), which is what every race between a publish, the
update and the cleaner needs. `served` and `repaired` have three. The liveness
properties about serving let an image go when it needs a new container and all
were created (`NoContainerLeft`): with two, a deletion, or a power loss that
undoes a tag, would use up the second and leave nothing to show. With three,
`repaired` reaches states in which the store has gone back to the first
container, or to a tag without one, or the key of the container in service was
deleted, and another container is still to be created. With one content in
`Descriptions`, as in `published`, `interventions` and `repaired`, an image still
moves to a second container and retires the first: a mount that fails makes the
image manager replace the container (`GiveUpContainer`). Two calls are the
contention of one mutex; a third only waits. In `mounts` the two volumes
meet in the store only: one call is bound or dropped while the other volume is
recorded or mounted. Two calls on two volumes at the same time are in no run;
the theorems cover them, for any calls, volumes and mutexes. `Descriptions` says what the
images file can say of an image: a content, no ID (`NoID`: the local storage
decides) or nothing (`None`). `MaxRetries` caps the armed retry timers of the
adapter: one blocked and one more to come. `MaxDeletes` bounds the operator's
interventions: the properties are about what one deletion breaks, and the
driver's state at it is any reachable one. The outputs of `imagesfile` are an
ID, nothing and a warning with every separator in it. Containers, contents and
calls are symmetric in the safety runs, and the two volumes together with their
mutexes in `mounts`. TLC takes no symmetry for liveness; `repaired` fixes instead the
order in which identifiers are given (`IdentifiersInOrder`). That loses nothing:
an identifier is given once and nothing tells two of them apart, so every other
behaviour is one of these with its identifiers renamed. Deadlock is checked
everywhere.

Fairness. `ToolProvider!ManagerScheduling` restarts the process when it is down
(the kubelet does) and schedules the image manager and its ticker;
`Scheduling` also the cleaner and the handlers (weak fairness). A step that can
fail, a commit or a buildah command, succeeds when it is tried again and again
(strong fairness): `CleanerSucceeds` for the cleaner's commit, `ManagerSucceeds`
for each of the steps of the image manager. `Kubelet` adds that a publish is
repeated (`Retries`) and that the handlers' paths, commits and mounts do not fail
every time (`HandlersProgress`). Each liveness property is checked under no more
than it needs: `ServingSpec` (`ManagerScheduling` and `ManagerSucceeds`) for
`served`, the same two conditions for `repaired`, and `CleaningSpec` with the kubelet's
for `published`. Changes of the file, unpublishes, crashes, reboots, power
losses and deletions are not fair: the properties ask that the driver stays up
from some time on. `CatalogIsServed` and `RepeatedPublishesMount` are two halves
of one chain: the first ends with the image served by a mounted container, the
second starts there. In the adapter's `FairSpec` the puller and the ticker run
(weak fairness); the senders blocked on the unbuffered channel are served in
their order by the Go runtime, which is strong fairness for each of them; and
the write of the images file does not fail every time. In `RoundTriggers` main,
goroutine, rounds and ticker run (weak fairness).

Where a property lets go, on purpose:

* `InterventionsAreRepaired` lets go of an image whose tag a power loss took back
  to a deleted container, and asks of a container whose catalog record was
  deleted that it serves, not that a publish finds it; the code repairs neither.
  `OnlyPowerLossesDisconnect` and `RecordedContainersStay` show that only the power
  loss itself makes such a tag. `StoreStaysConsistent` is about power losses
  alone: nothing is said once a key was deleted by hand.
* `NoSilentLeak` lets go of the error returns and deaths named in `GivesUp`. The
  leaks of the code are there (`metadatastore.go:251`, `containerCleaner.go:28`,
  the name filter of `imageManager.go:86`): the property shows that there are no
  others, and no property catches these.
* `RepeatedPublishesMount` counts as mounted the bind that a failed remount has
  left, although every later publish of the volume is answered
  `FailedPrecondition`. That the source of a publish does not look empty or
  unreadable for ever is assumed (`HandlersProgress`): an image without files is
  answered `Aborted` each time.
* `SteadyImagesStayServed` is about images whose pulls succeed (`PullsSucceed`)
  while the catalogs file can be read (`SteadyEnvironment`).
* In `safety`, with one image, the part of `ServingContainersAreSound` about other
  images says nothing; the theorem says it for any images. Likewise for `mounts`,
  with one call, and "no other call" of `ConflictMeansUpdate`.

What TLC says of the invariants that the proofs use: `safety` checks `IInv`, and
`InterventionsInv`, `AnswerInv`, `SteadyInv`, and `VolumeInv`, `AccountInv`
and `RoundInv`, can be named as invariants in the configurations of their modules;
all were found to hold there before they were proved. `MCBadgerOracle.cfg` is a
configuration beside the twelve runs (two and a half minutes, 961 344 states):
two updates of an image, a publish and a round of the cleaner, with the reopening
of the store between any two steps.

## Findings

Two disagreements between the repository's words and its code are runs that
TLC refutes:

* `used`: a volume that is mounted can lose its record, so that the cleaner
  deletes the container under it: `cleaningOnError` after a `Mount` whose
  remount fails (`nodeserver.go:195-198`), or after a repeated publish of a
  mounted volume (`:165-172`), and `NodeUnpublishVolume` of a busy target
  (`:234-251`).
* `intact`: a bind mount that stayed writable after its remount failed is
  removed with `rm -Rf` when its unmount fails (`nodeserver.go:240`): the files
  of the container go, which every other volume of the image shares.

The modules state six more; each definition can be named in a
cfg of its module, and TLC then finds it violated:

* `ToolProvider!MissingImageIsNotFound`: an image outside the catalog is
  answered `Unknown` and not `NotFound`, because the error is compared with
  `badger.ErrEmptyKey` (`nodeserver.go:122`) and `Get` returns `ErrKeyNotFound`.
* `ToolProvider!UnusedContainersAreCleaned` (under `FairSpec`):
  `selectContainerForVolume` overwrites a volume's container without deleting
  its record on the old one. After the return for an empty container
  (`nodeserver.go:186`), or a crash, and an update of the image, the old
  container keeps a record nobody deletes and is never cleaned.
* `Interventions!ServedAfterRestart` (under `ServingInterventionsSpec`): a tag that a power
  loss takes back to a deleted container stays: inspecting the container fails
  in every round, and `updateImage` returns before it replaces it
  (`metadatastore.go:198`).
* `SoftwareCatalogsAdapter!FailedRoundIsRetried`: the result of
  `multierror.Append` is dropped (`adapter.go:125` and `:150`): a failed pull
  round is not retried before the next tick or change.
* `BadgerOracle!ReadsAreNotModified` (with all goroutines in `FirstWriters`): the
  read keys of a commit "weren't concurrently modified by another transaction"
  (`txn.go:737-740`). In a store that was never written to, transactions read at
  timestamp 0, which the water mark ignores (`y/watermark.go:231`): the oracle
  forgets commits while such a transaction is open and misses its conflicts. The
  driver does not meet this, as only its image manager finds something to write
  in an empty store.
* `SoftwareCatalogsAdapter!NeverPullNeverPulls` (with `NeverPull = TRUE`):
  `dontNeedImageUpdates` overrides `never_pull` (`adapter.go:118`).

## Proofs

Every theorem holds for any number of calls, volumes, mutexes, images, contents,
containers, catalogs and transactions. The assumptions are those of the modules
on their constants (the transactions are the calls and the two goroutines,
`None` and `NoID` are no identifiers, mutexes and images of volumes are
functions, an image ID with its catalog is not `None`); the theorems about
`VolumeBindings` and `BadgerOracle` state their own.

### The driver

Why invariants of their own: `RecordedContainersSurvive` is not inductive. It
needs that

* a publish that can still commit has chosen the container that the tag still
  names, because the tag is among the keys Badger checks (`SelectInv`), and a
  tagged container is not marked for cleaning (`TagsInv`);
* the cleaner's list, until its commit, holds containers that no tag and no
  volume leads to, with marks that are among the keys Badger checks; after its
  commit nothing leads to them (`CleanerInv`). A publish cannot add a record to
  one of them, since it would need its tag;
* the tags that the image manager has read are among the keys Badger checks for
  it, and the container it creates is unknown to everybody else (`ManagerInv`),
  because identifiers are never reused (`KnownInv`);
* no goroutine runs while the process is down, and the store is empty when
  `buildah rm --all` runs (`DriverInv`).

These are `CoreInv`, and it says of each goroutine only what holds *as long as
its transaction can commit*. So it does not depend on who else writes to the
store: an operator who deletes a key makes stale whoever has read it, and a power
loss ends all transactions. `MetadataInv` (what is referred to has its metadata)
and `ExistInv` (what is referred to exists) are kept apart for the same reason:
a deletion breaks the first, a power loss the second.

`ToolProviderProofs` splits `CoreInv` into what the handlers rely on
(`HandlerSide`) and what the store, the manager and the cleaner rely on
(`StoreSide`). A step of a handler leaves the second alone unless it commits; a
step of the others keeps the first when every tag it changes is among the keys it
commits (`HandlerFrame`). There is one lemma per action, or per group of actions
that change the same variables. That a container referred to is never deleted,
and loses no metadata, follows in one lemma for both (`NextKeepsReferred`).

`ToolProviderSafetyProofs` adds three layers:

* `VolumeInv` holds because of the mutex of a volume: a handler holds its
  volume's mutex from its first step to its return (`MutexInv`), so the target
  path it found empty is still empty when it mounts (`TargetInv`), and the
  records of a volume change only by its own handlers. From it follow
  `ChosenContainerIsHeld`, `BoundVolumesAreRecorded` and `NoMountOverMount`, for
  any assignment of volumes to mutexes.
* `ReadsInv` says which keys each open transaction has read. The image manager
  has read tags, which only it writes, and the mount path of a container that
  serves an image; the cleaner has read marks, and a commit of the manager marks
  only containers that serve an image (`ReferredAreSound`); a publish has read
  the tag of its image and the metadata of its container. Every step is shown to
  touch at most the keys of its own commit, and these to be apart from the reads
  of the background goroutines (`...WritesApart`). So their transactions are
  never stale (`Undisturbed`), `BackgroundNeverConflicts` and
  `ConflictMeansUpdate` hold, and `CoreInv` says of them what they have read
  without its condition. With it `IInv` is complete: `RecordedContainersSurvive`,
  `ServingContainersAreSound` and `MovedImagesAreNoticed` are its consequences.
* `AccountInv` gives `KnownContainersAreAccounted` and `NoSilentLeak`: a tag that
  a transaction takes away leaves its container marked, because the manager has
  read the tag's present value, and the cleaner's list is marked until its
  commit.
* `RoundInv` ties a round of the image manager to its copy of the images file: it
  retires no image that the copy lists, and the container it is about to enter
  has the listed content and is mounted. With it `CoreInv`, by which the cleaner's
  list has no container that a tag leads to, gives `ServedImagesStayServed`: what
  serves an image goes on serving it until a reboot. It is the safety half of
  `CatalogIsServed`; that the image comes to be served stays with TLC.

The refinement, `Spec => ImplementsBindings`: one lemma per component maps each of
its steps, under `IInv /\ VolumeInv`, to an abstract operation or a stutter.
`SelectInv` makes a commit of a publish a `Bind`, `ManagerInv` with `Undisturbed`
the commit of `updateImage` a `Serve`, `CleanerInv` the cleaner's commit a
`Forget` and its removals a `Delete` of something unknown (`UnknownContainer`),
`ChosenContainerIsHeld` and `TargetInv` a mount a `MountVolume`.
`VolumeBindingsProofs` proves the promise of the abstract specification, where
`KnownContainersExist` is inductive beside the types; `KnownExist` carries it over
to the driver through the refinement.

### Its environments

`EnvironmentProofs`:

* `Interventions`: `InterventionsInv` is `CoreInv` with `DurableInv`, which says
  of the store on the disk that the driver can start on it: a container in it
  serves one image and is not retired, and was created once; and with `Complete`
  (`VolumeInv`, `MetadataInv` and the same of the store on the disk) as long as
  no key was deleted. The driver changes the store in memory only in ways that
  keep the durable one legal beside it (`DriverKeepsDurable`); what is written
  back is legal because the store is (`SyncKeepsDurable`); a power loss is the
  death of the process (`DeathPreserves`) on another store that is legal too
  (`LosePowerKeepsDurable`); and a deletion takes records away and makes stale who
  has read them (`DeleteFrame`), which is all that `CoreInv` asks for
  (`DeletePreserves`). So beside both, `RecordedContainersStay`. A deletion ends
  `MetadataInv`, so that `StoreStaysConsistent` holds until the first one; a power
  loss ends `ExistInv`, that tags name existing containers, and
  `OnlyPowerLossesDisconnect` is that nothing else does.
* `BindMounts`: each step is a step of `ToolProvider` (`FilesImplement`), so that
  its invariants hold; with `AnswerInv`, a publish that is answered OK has mounted
  its volume itself, read-only, from the container that the store records
  (`PublishedIsReadOnly`).

### The adapter and the pipeline

`SoftwareCatalogsAdapterProofs` proves `[]TypeOK` and `[]StaleCatalogsAreNoticed`,
which is inductive together with the types and `InCatalog` (while images are left
to pull, the round is in a catalog).

`CatalogPipelineProofs` proves `SteadyImagesStayServed`. `SteadyInv` follows one
image through both processes: a round of the adapter has listed it or still has
to pull it (`ListedAgain`), what the image manager has read of it was listed
before it got its tag (`SeenListed`), and it updates only what it has read
(`WorksOnListed`). The types of the adapter's part come from
`SoftwareCatalogsAdapterProofs` by `INSTANCE`.

### The images file

`ImagesFileProofs` proves the three properties of `ImagesFile`, for any images,
catalog names and outputs. The invariant is `ListedInv`: the file is the content
of what it lists, in an order of its keys.

* `OnlyChangesAreWritten`: sorted keys come in one order only (`KeysAreUnique`:
  where two orders first differ, the smaller key has no place in the other), so
  a round that pulled the same has the same text.
* `ListedImagesAreRead`: the content is a join of lines, whose offsets add up
  (`ContentIsLines`); each offset is a cut (`LinesStartAtCuts`), and at it an
  image and "=" are read (`NameIsRead`).
* `ImageIDsAreReadBack`: no other cut is read as that image (`LineIsUnique`), and
  an ID made of words ends at the first comma of its line (`IDIsRead`). This
  theorem has a hypothesis, `NoOutputIsALine`: no output has a line, after its
  first, that is an image reference alone or followed by "=". Without it the
  property is false, for what a pull printed is written into the file as it is,
  and a line in it is read as the adapter's own. TLC evaluates the hypothesis for
  the outputs of `imagesfile`, warnings with every separator in them.

The content is as long as there are images, and a split looks at any text, so this
needs induction over the data. The theorems of the library that take a predicate
cannot be used, but the one about least elements of a well-founded relation takes
a set: `LeastElement` and `SetInduction` follow from it, and with them what the
recursion in the community modules' `FlattenSeq` computes (`FlattenIsJoin`).

The same module proves `[]TypeOK`, `[]WatchIsKept` and `TriggersAreNotLost` of
`RoundTriggers`: how the driver is told that the file was replaced.

### Badger's oracle

`BadgerOracleProofs` proves that the oracle implements `BadgerTxn`
(`ImplementsTxn`), that an open transaction's snapshot never changes
(`SnapshotIsFixed`), that no assertion of its code fails (`AssertionsHold`) and
that commits are serialized (`ReadsAreNotModified`), under one hypothesis,
`OneWritesFirst`: in a store that nothing was ever written to, at most one
goroutine finds something to write. For the driver this is the image manager: a
publish finds no tag there, the cleaner no mark. Without it the theorems are
false (see *Findings*).

`OracleInv` rests on the water marks. Marks of beginnings are sent in the order of
their indices, under the oracle's lock, so that whatever is read later begins
above what is done (`BeginsInOrder`); every end is sent after its beginning
(`MarksArePaired`); so an open transaction's index is never passed
(`OpenIsNotDone`), although its marks may still be in the channel. With indices
that are read timestamps, the oracle therefore remembers all commits above the
timestamp of any open transaction (`RemembersInv`), and its conflict check finds
them (`ConflictsAreFound`); with indices that are commit timestamps, no commit up
to the timestamp of an open transaction is still to be written (`SnapshotInv`).
The lemmas about the water mark are stated for any indices, with `slack` 0 for
read timestamps, which repeat, and 1 for commit timestamps, which do not.

### Only model-checked

Everything under fairness (`CatalogIsServed`, `RetiredContainersAreCollected`,
`RepeatedPublishesMount`, `LatestImagesArePublished`, `RetriesEnd`,
`ChangesAreNoticed`, `InterventionsAreRepaired`), which is out of
the prover's reach. Every invariant and action property of the passing runs is
proved.

## What is not modelled

* Transactions above Badger's size limit. Below it `Set` and `Delete` do not fail,
  so `deleteImagesCommit` and `getContainersToDeleteCommit` write all their keys
  or none. Above it (`ErrTxnTooBig`, about a hundred thousand writes) the loops of
  `metadatastore.go:144-167` and `:307-319` go on after the error of one key, and
  a mark could be written while its tag stays. A tag that cannot be read, which
  the first loop skips too, is modelled.
* The value-log garbage collection, which changes no key, and Badger's own
  recovery: that a log is replayed as a prefix of whole transactions is taken
  from its options and not modelled. A commit that failed is lost, it does not
  come back after a restart.
* The names of containers; a name filter that matches several containers is
  modelled by its effect, a command that fails after the container was created.
  The catalog that the store records is a value nothing depends on.
* A catalogs file that is removed (the watch of the configuration library ends
  then); the model's file is edited in place or swapped, or cannot be read.
* Identity and controller servers: they have no state and answer constants.
  The gRPC server: a call arrives at a handler at any time or never. That the
  server's goroutine ends silently when its listener fails (`server.go:101`) is
  noted as a hazard without a property.
* Metrics, configuration and logging, deployment manifests and examples.

## Plan

Done, in this order: transactions and store, node server, image manager and
cleaner, their composition, the inductive invariant and its proofs, the adapter
and its proof; the abstract specification with the refinement, the
environments, the triggers, the images file and the pipeline; the invariants of
the environments and of the pipeline with their proofs; the oracle below the
transactions, and the proof that it implements them; the images file, for any
images and outputs.

Left:

* to prove of `Kubelet` what is not liveness: the safety steps on which
  `RepeatedPublishesMount` rests, as `ServedImagesStayServed` is the one beneath
  `CatalogIsServed`.
