----------------------- MODULE ToolProviderSafetyProofs -----------------------
(***************************************************************************)
(* What ToolProvider guarantees, proved in layers on CoreInv: VolumeInv,   *)
(* by the mutexes; IInv, by what the transactions read when nobody else    *)
(* touches the store; and AccountInv, which loses no container from sight. *)
(* Last, that it implements VolumeBindings: every step of ToolProvider is  *)
(* a step of VolumeBindings or changes none of its variables.              *)
(***************************************************************************)
EXTENDS ToolProviderBindings, ToolProviderProofs

------------------------------------------------------------------------------
\* What the mutex of a volume gives its handlers.
\* Two handlers under way are never on the same volume.
LEMMA Exclusive ==
  ASSUME MutexInv, NEW k \in Calls, NEW u \in Calls, u # k,
         pc[k] # "idle", pc[u] # "idle"
  PROVE  vol[u] # vol[k]
BY DEF MutexInv

\* The steps of the image manager, of the cleaner and of the images file do
\* not touch what VolumeInv speaks of.
LEMMA VolumeFrame ==
  ASSUME VolumeInv, UNCHANGED <<nsVars, volumeContainer, volumes>>
  PROVE  VolumeInv'
BY DEF VolumeInv, MutexInv, TargetInv, ChosenContainerIsHeld, BoundVolumesAreRecorded, nsVars

LEMMA BackgroundKeepsVolumes ==
  ASSUME VolumeInv,
         \/ ImageManagerStep \/ ContainerCleanerStep
         \/ Start \/ RemoveAllContainers \/ WriteImagesFile
  PROVE  VolumeInv'
<1>1. CASE ImageManagerStep
  <2>1. UNCHANGED <<nsVars, volumeContainer, volumes>>
    BY <1>1
    DEF ImageManagerStep, IMNext, ReadImages, DeleteImagesBegin, DeleteImagesEnd,
        ListMountPoints, SkipImage, UpdateImageBegin, ReuseContainer, GiveUpContainer,
        CreateContainer, CreateContainerFails, MountNewContainer, MountNewContainerFails,
        UpdateImageCommit, UpdateImageCommitFails, UpdateImageSetFails, AbandonUpdate,
        deleteImagesCommit, updateImageCommit, storeVars
  <2> QED BY <2>1, VolumeFrame
<1>2. CASE ContainerCleanerStep
  <2>1. UNCHANGED <<nsVars, volumeContainer, volumes>>
    BY <1>2
    DEF ContainerCleanerStep, CCNext, CleanBegin, CleanCommit, CleanCommitFails,
        DeleteContainer, DeleteContainerFails, CleanNext, getContainersToDeleteCommit,
        storeVars
  <2> QED BY <2>1, VolumeFrame
<1>3. CASE Start \/ RemoveAllContainers \/ WriteImagesFile
  <2>1. UNCHANGED <<nsVars, volumeContainer, volumes>>
    BY <1>3 DEF Start, RemoveAllContainers, WriteImagesFile, storeVars
  <2> QED BY <2>1, VolumeFrame
<1> QED BY <1>1, <1>2, <1>3

\* When the process dies no handler is left to rely on anything.
LEMMA DeathKeepsVolumes ==
  ASSUME VolumeInv, ProcessDies
  PROVE  VolumeInv'
<1>1. \A k \in Calls : pc'[k] = "idle"
  BY DEF ProcessDies, HandlersDie
<1>2. UNCHANGED <<volumeContainer, volumes>>
  BY DEF ProcessDies, storeVars
<1> QED
  BY <1>1, <1>2
  DEF VolumeInv, MutexInv, TargetInv, ChosenContainerIsHeld, BoundVolumesAreRecorded

------------------------------------------------------------------------------
\* A call that takes the lock finds the mutex free, so nobody else held it.
LEMMA CallsKeepVolumes ==
  ASSUME CoreInv, VolumeInv, NEW k \in Calls, NEW v \in Volumes,
         NodePublishVolume(k, v) \/ NodeUnpublishVolume(k, v)
  PROVE  VolumeInv'
<1>1. HandlersTypeOK /\ HandlerInv
  BY DEF CoreInv, TypeOK
<1>2. /\ pc[k] = "idle" /\ mtx[MutexOf[v]] = None
      /\ mtx' = [mtx EXCEPT ![MutexOf[v]] = k]
      /\ vol' = [vol EXCEPT ![k] = v]
      /\ pc'[k] \in {"select", "reply", "drop"}
      /\ \A u \in Calls \ {k} : pc'[u] = pc[u] /\ vol'[u] = vol[u] /\ ctr'[u] = ctr[u]
      /\ UNCHANGED <<volumeContainer, volumes>>
  BY <1>1
  DEF HandlersTypeOK, NodePublishVolume, NodeUnpublishVolume, lock, selectFails, goto,
      storeVars
<1>3. \A w \in Volumes : volMount[w] = None => volMount'[w] = None
  BY <1>1 DEF HandlersTypeOK, NodePublishVolume, NodeUnpublishVolume
<1>4. MutexInv'
  <2> SUFFICES ASSUME NEW u \in Calls, pc'[u] # "idle"
               PROVE  mtx'[MutexOf[vol'[u]]] = u
    BY DEF MutexInv
  <2>1. CASE u = k
    BY <1>1, <1>2, <2>1, NodeServerAssumption DEF HandlersTypeOK
  <2>2. CASE u # k
    <3>1. /\ mtx[MutexOf[vol[u]]] = u
          /\ vol[u] \in Volumes
          /\ vol'[u] = vol[u]
      BY <1>1, <1>2, <2>2 DEF VolumeInv, MutexInv, HandlerInv
    <3>2. MutexOf[vol[u]] # MutexOf[v]
      BY <1>2, <3>1, NodeServerAssumption
    <3> QED BY <1>1, <1>2, <3>1, <3>2, NodeServerAssumption DEF HandlersTypeOK
  <2> QED BY <2>1, <2>2
<1>5. TargetInv' /\ ChosenContainerIsHeld' /\ BoundVolumesAreRecorded'
  BY <1>1, <1>2, <1>3
  DEF VolumeInv, TargetInv, ChosenContainerIsHeld, BoundVolumesAreRecorded, HandlerInv
<1> QED BY <1>4, <1>5 DEF VolumeInv

\* What every later step of a handler leaves alone.
LEMMA HandlerStepFrame ==
  ASSUME CoreInv, VolumeInv, NEW k \in Calls, Handler(k)
  PROVE  /\ pc[k] # "idle"
         /\ \A u \in Calls \ {k} : pc'[u] = pc[u] /\ vol'[u] = vol[u] /\ ctr'[u] = ctr[u]
         /\ \A u \in Calls \ {k} : pc[u] # "idle" => vol[u] # vol[k]
         /\ vol[k] \in Volumes
<1>1. HandlersTypeOK /\ HandlerInv
  BY DEF CoreInv, TypeOK
<1>2. /\ pc[k] # "idle"
      /\ \A u \in Calls \ {k} : pc'[u] = pc[u] /\ vol'[u] = vol[u] /\ ctr'[u] = ctr[u]
  BY <1>1
  DEF HandlersTypeOK, Handler, SelectCommit, selectFails, CheckTarget, CheckSource, Mount,
      CleaningOnError, DropBegin, DropCommit, Return, goto
<1>3. \A u \in Calls \ {k} : pc[u] # "idle" => vol[u] # vol[k]
  BY <1>2, Exclusive DEF VolumeInv
<1> QED BY <1>1, <1>2, <1>3 DEF HandlerInv

LEMMA HandlerKeepsMutex ==
  ASSUME CoreInv, VolumeInv, NEW k \in Calls, Handler(k)
  PROVE  MutexInv'
<1>1. HandlersTypeOK /\ HandlerInv
  BY DEF CoreInv, TypeOK
<1>2. CASE Return(k)
  <2>1. /\ pc'[k] = "idle"
        /\ mtx' = [mtx EXCEPT ![MutexOf[vol[k]]] = None]
        /\ mtx[MutexOf[vol[k]]] = k
    BY <1>1, <1>2, HandlerStepFrame
    DEF HandlersTypeOK, Return, goto, unlock, VolumeInv, MutexInv
  <2> SUFFICES ASSUME NEW u \in Calls, pc'[u] # "idle"
               PROVE  mtx'[MutexOf[vol'[u]]] = u
    BY DEF MutexInv
  <2>2. u # k /\ vol'[u] = vol[u] /\ mtx[MutexOf[vol[u]]] = u
    BY <2>1, HandlerStepFrame DEF VolumeInv, MutexInv
  <2> QED BY <1>1, <2>1, <2>2 DEF HandlersTypeOK
<1>3. CASE UNCHANGED <<mtx, vol>>
  BY <1>3, HandlerStepFrame DEF VolumeInv, MutexInv
<1> QED
  BY <1>2, <1>3
  DEF Handler, SelectCommit, CheckTarget, CheckSource, Mount, CleaningOnError, DropBegin,
      DropCommit

\* Only Mount fills a target path, and only that of the handler's own volume.
LEMMA HandlerKeepsTarget ==
  ASSUME CoreInv, VolumeInv, NEW k \in Calls, Handler(k)
  PROVE  TargetInv'
<1>1. HandlersTypeOK
  BY DEF CoreInv, TypeOK
<1>2. CASE Mount(k)
  <2>1. /\ pc'[k] \notin {"source", "mount"}
        /\ \A w \in Volumes \ {vol[k]} : volMount'[w] = volMount[w]
    BY <1>1, <1>2, HandlerStepFrame DEF HandlersTypeOK, Mount, goto
  <2>2. \A u \in Calls \ {k} : pc[u] # "idle" => vol[u] \in Volumes
    BY DEF CoreInv, HandlerInv
  <2> QED BY <2>1, <2>2, HandlerStepFrame DEF VolumeInv, TargetInv
<1>3. CASE UNCHANGED volMount
  <2>1. pc'[k] \in {"source", "mount"} => vol'[k] = vol[k] /\ volMount[vol[k]] = None
    BY <1>1, <1>3
    DEF HandlersTypeOK, VolumeInv, TargetInv, Handler, SelectCommit, selectFails,
        CheckTarget, CheckSource, Mount, CleaningOnError, DropBegin, DropCommit, Return, goto
  <2> QED BY <1>3, <2>1, HandlerStepFrame DEF VolumeInv, TargetInv
<1> QED
  BY <1>2, <1>3
  DEF Handler, SelectCommit, CheckTarget, CheckSource, CleaningOnError, DropBegin,
      DropCommit, Return

\* The records that a handler writes or deletes are those of its own volume.
LEMMA HandlerKeepsRecords ==
  ASSUME CoreInv, VolumeInv, NEW k \in Calls, Handler(k)
  PROVE  ChosenContainerIsHeld' /\ BoundVolumesAreRecorded'
<1>1. /\ HandlersTypeOK /\ HandlerInv
      /\ volumeContainer \in [Volumes -> Containers \cup {None}]
      /\ volumes \subseteq Containers \X Volumes
  BY DEF CoreInv, TypeOK, StoreTypeOK
<1>2. CASE SelectCommit(k) /\ selectContainerForVolumeCommit(k, vol[k], ctr[k])
  <2>1. /\ volumeContainer' = [volumeContainer EXCEPT ![vol[k]] = ctr[k]]
        /\ volumes' = volumes \cup {<<ctr[k], vol[k]>>}
        /\ vol' = vol /\ ctr' = ctr /\ ctr[k] \in Containers
    BY <1>1, <1>2 DEF SelectCommit, selectContainerForVolumeCommit, HandlerInv
  <2>2. ChosenContainerIsHeld'
    BY <1>1, <2>1, HandlerStepFrame DEF VolumeInv, ChosenContainerIsHeld, HandlerInv
  <2>3. BoundVolumesAreRecorded'
    BY <1>1, <2>1, HandlerStepFrame DEF VolumeInv, BoundVolumesAreRecorded
  <2> QED BY <2>2, <2>3
<1>3. CASE /\ CleaningOnError(k) \/ DropCommit(k)
           /\ volumeContainer' = [volumeContainer EXCEPT ![vol[k]] = None]
           /\ volumes' = volumes \ {<<ctr[k], vol[k]>>}
  <2>1. vol' = vol /\ ctr' = ctr /\ pc'[k] = "reply"
    BY <1>1, <1>3 DEF HandlersTypeOK, CleaningOnError, DropCommit, goto
  <2>2. ChosenContainerIsHeld'
    BY <1>1, <1>3, <2>1, HandlerStepFrame DEF VolumeInv, ChosenContainerIsHeld, HandlerInv
  <2>3. BoundVolumesAreRecorded'
    BY <1>1, <1>3, HandlerStepFrame, NodeServerAssumption
    DEF VolumeInv, BoundVolumesAreRecorded
  <2> QED BY <2>2, <2>3
<1>4. CASE /\ UNCHANGED <<volumeContainer, volumes>>
           /\ ~(SelectCommit(k) /\ selectContainerForVolumeCommit(k, vol[k], ctr[k]))
  <2>1. pc'[k] \in {"target", "source", "mount"} =>
          /\ pc[k] \in {"target", "source", "mount"}
          /\ vol'[k] = vol[k] /\ ctr'[k] = ctr[k]
    BY <1>1, <1>4
    DEF HandlersTypeOK, Handler, SelectCommit, selectFails, CheckTarget, CheckSource, Mount,
        CleaningOnError, DropBegin, DropCommit, Return, goto
  <2> QED
    BY <1>4, <2>1, HandlerStepFrame
    DEF VolumeInv, ChosenContainerIsHeld, BoundVolumesAreRecorded
<1> QED
  BY <1>2, <1>3, <1>4
  DEF Handler, SelectCommit, selectFails, CheckTarget, CheckSource, Mount, CleaningOnError,
      DropBegin, DropCommit, Return, storeVars, dropVolumeContainerOnMountError,
      dropVolumeContainerOnUnmountCommit

LEMMA NextKeepsVolumes == CoreInv /\ VolumeInv /\ [Next]_vars => VolumeInv'
<1> SUFFICES ASSUME CoreInv, VolumeInv, [Next]_vars PROVE VolumeInv'
  OBVIOUS
<1>1. CASE NodeServerStep
  <2>1. PICK k \in Calls :
          \/ \E v \in Volumes : NodePublishVolume(k, v) \/ NodeUnpublishVolume(k, v)
          \/ Handler(k)
    BY <1>1 DEF NodeServerStep, NSNext
  <2> QED
    BY <2>1, CallsKeepVolumes, HandlerKeepsMutex, HandlerKeepsTarget, HandlerKeepsRecords
    DEF VolumeInv
<1>2. CASE \/ ImageManagerStep \/ ContainerCleanerStep
           \/ Start \/ RemoveAllContainers \/ WriteImagesFile
  BY <1>2, BackgroundKeepsVolumes
<1>3. CASE Crash \/ Reboot
  BY <1>3, DeathKeepsVolumes DEF Crash, Reboot
<1>4. CASE UNCHANGED vars
  BY <1>4, VolumeFrame DEF vars, storeVars
<1> QED BY <1>1, <1>2, <1>3, <1>4 DEF Next

LEMMA InitKeepsVolumes == Init => VolumeInv
<1> SUFFICES ASSUME Init PROVE VolumeInv
  OBVIOUS
<1>1. \A k \in Calls : pc[k] = "idle"
  BY DEF Init, NSInit, HandlersIdle
<1>2. \A v \in Volumes : volumeContainer[v] = None
  BY DEF Init, StoreEmpty
<1>3. QED
  BY <1>1, <1>2
  DEF VolumeInv, MutexInv, TargetInv, ChosenContainerIsHeld, BoundVolumesAreRecorded


------------------------------------------------------------------------------
\* The transactions.  The image manager commits only at the end of its two.

ManagerWrites(W) ==
  \/ W = {}
  \/ imPc = "prune" /\ W = deleteImagesWrites(imMissing)
  \/ imPc = "commit" /\ W = updateImageWrites(imImage, imContainer, imNew)

LEMMA ManagerTouches ==
  ASSUME CoreInv, ManagerReads, ImageManagerStep
  PROVE  /\ ManagerReads'
         /\ stale'[ImageManager] => stale[ImageManager]
         /\ \E W : Touches(ImageManager, W) /\ ManagerWrites(W)
<1>1. TxnTypeOK /\ ImageManager \in Txns /\ IMNext
  BY ImageManagerAssumption DEF CoreInv, TypeOK, ImageManagerStep
<1>2. CASE ReadImages \/ ListMountPoints \/ SkipImage
  <2>1. UNCHANGED txnVars /\ imPc \notin {"reuse", "create", "mount", "commit"}
    BY <1>2 DEF ReadImages, ListMountPoints, SkipImage
  <2>2. ManagerReads'
    BY <2>1 DEF ManagerReads, txnVars
  <2> QED BY <1>1, <2>1, <2>2, UnchangedTouches DEF ManagerWrites
<1>3. CASE GiveUpContainer \/ CreateContainer \/ MountNewContainer
  <2>1. /\ UNCHANGED <<txnVars, imContainer>>
        /\ imPc' \in {"reuse", "create", "mount", "commit"}
    BY <1>3 DEF GiveUpContainer, CreateContainer, MountNewContainer, imUpdate
  <2>2. ManagerReads'
    BY <2>1 DEF ManagerReads, txnVars
  <2> QED BY <1>1, <2>1, <2>2, UnchangedTouches DEF ManagerWrites
<1>4. CASE DeleteImagesBegin
  <2>1. ManagerReads'
    BY <1>4, BeginRound DEF ManagerReads, deleteImagesReads, containerForImage
  <2> QED BY <1>4, <2>1, BeginRound DEF ManagerWrites
<1>5. CASE UpdateImageBegin
  <2>1. ManagerReads'
    BY <1>5, BeginUpdate
    DEF ManagerReads, updateImageReads, containerForImage, mountPathForContainer
  <2> QED BY <1>5, <2>1, BeginUpdate DEF ManagerWrites
<1>6. CASE DeleteImagesEnd
  BY <1>1, <1>6, CommitTouches, CommitFailsTouches
  DEF DeleteImagesEnd, deleteImagesCommit, ManagerReads, ManagerWrites, Ended
<1>7. CASE ReuseContainer
  BY <1>1, <1>7, CommitTouches DEF ReuseContainer, ManagerReads, ManagerWrites, Ended
<1>8. CASE CreateContainerFails \/ MountNewContainerFails \/ UpdateImageSetFails
  BY <1>1, <1>8, DiscardTouches
  DEF CreateContainerFails, MountNewContainerFails, UpdateImageSetFails, AbandonUpdate,
      ManagerReads, ManagerWrites, Ended
<1>9. CASE UpdateImageCommit \/ UpdateImageCommitFails
  BY <1>1, <1>9, CommitTouches, CommitFailsTouches
  DEF UpdateImageCommit, UpdateImageCommitFails, updateImageCommit, ManagerReads,
      ManagerWrites, Ended
<1> QED BY <1>1, <1>2, <1>3, <1>4, <1>5, <1>6, <1>7, <1>8, <1>9 DEF IMNext

------------------------------------------------------------------------------
\* The cleaner commits keys of the containers of its list.

CleanerWrites(W) ==
  \/ W = {}
  \/ ccPc = "commit" /\ W = getContainersToDeleteWrites(ccList)

LEMMA CleanerTouches ==
  ASSUME CoreInv, CleanerReads, ContainerCleanerStep
  PROVE  /\ CleanerReads'
         /\ stale'[ContainerCleaner] => stale[ContainerCleaner]
         /\ \E W : Touches(ContainerCleaner, W) /\ CleanerWrites(W)
<1>1. TxnTypeOK /\ ContainerCleaner \in Txns /\ CCNext
  BY ContainerCleanerAssumption DEF CoreInv, TypeOK, ContainerCleanerStep
<1>2. CASE CleanBegin
  <2>1. /\ Touches(ContainerCleaner, {}) /\ ~stale'[ContainerCleaner]
        /\ reads'[ContainerCleaner] = getContainersToDeleteReads
        /\ toClean' = toClean
    BY <1>1, <1>2, NewTransactionTouches, ReadsAreKeys
    DEF CoreInv, TypeOK, CleanBegin, storeVars
  <2>2. CleanerReads'
    BY <2>1 DEF CleanerReads, getContainersToDeleteReads, containerToClean
  <2> QED BY <2>1, <2>2 DEF CleanerWrites
<1>3. CASE CleanCommit \/ CleanCommitFails
  BY <1>1, <1>3, CommitTouches, CommitFailsTouches
  DEF CleanCommit, CleanCommitFails, getContainersToDeleteCommit, CleanerReads,
      CleanerWrites, Ended
<1>4. CASE DeleteContainer \/ DeleteContainerFails
  <2>1. UNCHANGED <<txnVars, toClean>>
    BY <1>4 DEF DeleteContainer, DeleteContainerFails, CleanNext, storeVars
  <2>2. CleanerReads'
    BY <2>1 DEF CleanerReads, txnVars
  <2> QED BY <1>1, <2>1, <2>2, UnchangedTouches DEF CleanerWrites
<1> QED BY <1>1, <1>2, <1>3, <1>4 DEF CCNext

------------------------------------------------------------------------------
\* The keys among the writes of the manager and of the cleaner.

LEMMA DeleteImagesKeys ==
  ASSUME NEW S, NEW x
  PROVE  /\ containerForImage(x) \in deleteImagesWrites(S) => x \in S
         /\ containerToClean(x) \in deleteImagesWrites(S) => \E i \in S : x = imageTag[i]
         /\ mountPathForContainer(x) \notin deleteImagesWrites(S)
         /\ catalogForContainer(x) \notin deleteImagesWrites(S)
<1>1. \A key \in deleteImagesWrites(S) :
        \E i \in S : key = containerForImage(i) \/ key = containerToClean(imageTag[i])
  BY DEF deleteImagesWrites
<1> QED BY <1>1, KeysDiffer

LEMMA CleanerKeys ==
  ASSUME NEW S, NEW x
  PROVE  /\ containerForImage(x) \notin getContainersToDeleteWrites(S)
         /\ mountPathForContainer(x) \in getContainersToDeleteWrites(S) => x \in S
         /\ catalogForContainer(x) \in getContainersToDeleteWrites(S) => x \in S
<1>1. \A key \in getContainersToDeleteWrites(S) :
        \E c \in S : key \in {mountPathForContainer(c), catalogForContainer(c),
                              containerToClean(c), imageIDForContainer(c)}
  BY DEF getContainersToDeleteWrites
<1> QED BY <1>1, KeysDiffer

------------------------------------------------------------------------------
\* Since the background goroutines never conflict, what they have read of the
\* store is still so.
LEMMA Undisturbed ==
  ASSUME IInv
  PROVE  /\ ~stale[ImageManager] /\ ~stale[ContainerCleaner]
         /\ imPc = "prune" => \A i \in imMissing : imageTag[i] # None
         /\ imPc \in {"reuse", "create", "mount", "commit"} =>
              imImage \in Images /\ imContainer = imageTag[imImage]
         /\ ccPc = "commit" => ccList \subseteq toClean
<1>1. ~stale[ImageManager] /\ ~stale[ContainerCleaner]
  BY DEF IInv, ReadsInv, BackgroundNeverConflicts, hasConflict
<1> QED BY <1>1 DEF IInv, CoreInv, ManagerInv, CleanerInv

LEMMA ReferredAreSound ==
  ASSUME IInv
  PROVE  ServingContainersAreSound /\ RecordedContainersSurvive
<1>1. /\ \A i \in Images : imageTag[i] # None => imageTag[i] \in Referred
      /\ \A c \in Containers, v \in Volumes : <<c, v>> \in volumes => c \in Referred
  BY DEF Referred, Tagged
<1> QED
  BY <1>1 DEF IInv, CoreInv, TagsInv, MetadataInv, ExistInv, ServingContainersAreSound,
              RecordedContainersSurvive

------------------------------------------------------------------------------
\* What one goroutine commits and what another has read.

LEMMA HandlerWritesApart ==
  ASSUME ReadsInv, NEW k \in Calls
  PROVE  /\ reads[ImageManager] \cap dropVolumeContainerWrites(vol[k], ctr[k]) = {}
         /\ reads[ContainerCleaner] \cap dropVolumeContainerWrites(vol[k], ctr[k]) = {}
         /\ \A j \in Calls :
              pc[j] = "select" => reads[j] \cap dropVolumeContainerWrites(vol[k], ctr[k]) = {}
BY KeysDiffer DEF ReadsInv, ManagerReads, CleanerReads, PublishReads, dropVolumeContainerWrites

\* The manager marks only containers that serve an image, which are not marked.
LEMMA ManagerWritesApart ==
  ASSUME IInv, CleanerReads, NEW W, ManagerWrites(W)
  PROVE  reads[ContainerCleaner] \cap W = {}
<1>1. \A i \in Images : imageTag[i] # None => imageTag[i] \notin toClean
  BY DEF IInv, CoreInv, TagsInv
<1>2. CASE imPc = "prune" /\ W = deleteImagesWrites(imMissing)
  <2>1. \A i \in imMissing : imageTag[i] \notin toClean
    BY <1>1, <1>2, Undisturbed DEF IInv, CoreInv, TypeOK, ImageManagerTypeOK
  <2> QED BY <1>2, <2>1, DeleteImagesKeys DEF CleanerReads
<1>3. CASE imPc = "commit" /\ W = updateImageWrites(imImage, imContainer, imNew)
  <2>1. imContainer # None => imContainer \notin toClean
    BY <1>1, <1>3, Undisturbed
  <2> QED BY <1>3, <2>1, KeysDiffer DEF CleanerReads, updateImageWrites
<1> QED BY <1>2, <1>3 DEF ManagerWrites

\* The cleaner's containers are marked, so that they serve no image.
LEMMA CleanerWritesApart ==
  ASSUME IInv, ManagerReads, PublishReads, NEW W, CleanerWrites(W)
  PROVE  /\ reads[ImageManager] \cap W = {}
         /\ \A k \in Calls : pc[k] = "select" /\ ~stale[k] => reads[k] \cap W = {}
<1>1. CASE ccPc = "commit" /\ W = getContainersToDeleteWrites(ccList)
  <2>1. \A i \in Images : imageTag[i] # None => imageTag[i] \notin ccList
    BY DEF IInv, CoreInv, CleanerInv, Referred, Tagged
  <2>2. reads[ImageManager] \cap W = {}
    <3>1. imPc \in {"reuse", "create", "mount", "commit"} /\ imContainer # None
            => imContainer \notin ccList
      BY <2>1, Undisturbed
    <3> QED BY <1>1, <3>1, CleanerKeys DEF ManagerReads
  <2>3. ASSUME NEW k \in Calls, pc[k] = "select", ~stale[k]
        PROVE  reads[k] \cap W = {}
    <3>1. ctr[k] \notin ccList
      <4>1. /\ ImageOf[vol[k]] \in Images /\ ctr[k] \in Containers
            /\ imageTag[ImageOf[vol[k]]] = ctr[k]
        BY <2>3, NodeServerAssumption DEF IInv, CoreInv, HandlerInv, SelectInv
      <4> QED BY <2>1, <4>1, ImageManagerAssumption
    <3> QED BY <1>1, <2>3, <3>1, CleanerKeys DEF PublishReads
  <2> QED BY <2>2, <2>3
<1> QED BY <1>1 DEF CleanerWrites

\* The manager's keys that a publish has read are the tag of its image.
LEMMA PublishConflicts ==
  ASSUME IInv, PublishReads, NEW W, ManagerWrites(W),
         NEW k \in Calls, pc[k] = "select", ~stale[k], reads[k] \cap W # {}
  PROVE  ImageOf[vol[k]] \in imMissing \cup {imImage}
<1>1. PICK key \in reads[k] : key \in W
  OBVIOUS
<1>2. key \in PublishKeys(k)
  BY <1>1 DEF PublishReads, PublishKeys
<1>3. CASE imPc = "prune" /\ W = deleteImagesWrites(imMissing)
  BY <1>1, <1>2, <1>3, DeleteImagesKeys DEF PublishKeys
<1>4. CASE imPc = "commit" /\ W = updateImageWrites(imImage, imContainer, imNew)
  <2>1. ctr[k] # imNew
    BY <1>4, NodeServerAssumption, ImageManagerAssumption
    DEF IInv, CoreInv, HandlerInv, SelectInv, ManagerInv, Referred, Tagged
  <2> QED BY <1>1, <1>2, <1>4, <2>1, KeysDiffer DEF updateImageWrites, PublishKeys
<1> QED BY <1>1, <1>3, <1>4 DEF ManagerWrites

------------------------------------------------------------------------------
\* Only the cleaner takes marks away.

LEMMA HandlersKeepMarks ==
  ASSUME NodeServerStep
  PROVE  toClean' = toClean
BY DEF NodeServerStep, NSNext, Handler, NodePublishVolume, NodeUnpublishVolume, SelectCommit,
       CheckTarget, CheckSource, Mount, CleaningOnError, DropBegin, DropCommit, Return,
       selectContainerForVolumeCommit, selectFails, dropVolumeContainerOnMountError,
       dropVolumeContainerOnUnmountCommit, storeVars

LEMMA ManagerKeepsMarks ==
  ASSUME ImageManagerStep
  PROVE  toClean \subseteq toClean'
<1>1. CASE DeleteImagesEnd
  BY <1>1 DEF DeleteImagesEnd, deleteImagesCommit, storeVars
<1>2. CASE UpdateImageCommit
  BY <1>2 DEF UpdateImageCommit, updateImageCommit
<1>3. CASE UNCHANGED storeVars
  BY <1>3 DEF storeVars
<1> QED
  BY <1>1, <1>2, <1>3
  DEF ImageManagerStep, IMNext, ReadImages, DeleteImagesBegin, ListMountPoints, SkipImage,
      UpdateImageBegin, ReuseContainer, GiveUpContainer, CreateContainer,
      CreateContainerFails, MountNewContainer, MountNewContainerFails,
      UpdateImageCommitFails, UpdateImageSetFails, AbandonUpdate

\* The steps outside the goroutines keep the transactions, or end them all.
LEMMA OthersKeepReads ==
  ASSUME Start \/ RemoveAllContainers \/ Crash \/ Reboot \/ WriteImagesFile \/ UNCHANGED vars
  PROVE  \/ UNCHANGED <<txnVars, toClean, pc, vol, ctr, imPc, imContainer, imMissing, imImage>>
         \/ reads' = [t \in Txns |-> {}] /\ stale' = [t \in Txns |-> FALSE]
BY DEF Start, RemoveAllContainers, Crash, Reboot, WriteImagesFile, vars, ProcessDies,
       DiscardAll, imUpdate, txnVars, storeVars, nsVars, imVars

LEMMA NextKeepsReads == IInv /\ [Next]_vars => ReadsInv'
<1> SUFFICES ASSUME IInv, [Next]_vars PROVE ReadsInv'
  OBVIOUS
<1>1. /\ ManagerReads /\ CleanerReads /\ PublishReads
      /\ ~stale[ImageManager] /\ ~stale[ContainerCleaner]
  BY DEF IInv, ReadsInv, BackgroundNeverConflicts, hasConflict
<1>2. /\ CoreInv
      /\ ImageManager \in Txns \ Calls /\ ContainerCleaner \in Txns \ Calls
      /\ ImageManager # ContainerCleaner /\ Calls \subseteq Txns
  BY Goroutines DEF IInv
<1>3. CASE NodeServerStep
  <2>1. PICK k \in Calls : HandlerTouches(k)
    BY <1>2, <1>3, HandlersTouch DEF NodeServerStep, NSNext, HandlerStep
  <2>2. /\ reads'[ImageManager] = reads[ImageManager] /\ ~stale'[ImageManager]
        /\ reads'[ContainerCleaner] = reads[ContainerCleaner] /\ ~stale'[ContainerCleaner]
        /\ \A u \in Calls \ {k} : reads'[u] = reads[u]
    BY <1>1, <1>2, <2>1, HandlerWritesApart DEF IInv, HandlerTouches, Touches, Kept
  <2>3. UNCHANGED <<imPc, imContainer, toClean>>
    BY <1>3, HandlersKeepMarks DEF NodeServerStep, imVars
  <2>4. PublishReads'
    BY <1>1, <2>1, <2>2 DEF PublishReads, HandlerTouches, PublishKeys
  <2> QED BY <1>1, <2>2, <2>3, <2>4
          DEF ReadsInv, ManagerReads, CleanerReads, BackgroundNeverConflicts, hasConflict
<1>4. CASE ImageManagerStep
  <2>1. PICK W : Touches(ImageManager, W) /\ ManagerWrites(W)
    BY <1>1, <1>2, <1>4, ManagerTouches
  <2>2. /\ reads'[ContainerCleaner] = reads[ContainerCleaner] /\ ~stale'[ContainerCleaner]
        /\ \A u \in Calls : reads'[u] = reads[u]
    BY <1>1, <1>2, <2>1, ManagerWritesApart DEF Touches, Kept
  <2>3. ManagerReads' /\ ~stale'[ImageManager]
    BY <1>1, <1>2, <1>4, ManagerTouches
  <2>4. toClean \subseteq toClean' /\ UNCHANGED <<pc, vol, ctr>>
    BY <1>4, ManagerKeepsMarks DEF ImageManagerStep, nsVars
  <2> QED BY <1>1, <2>2, <2>3, <2>4
          DEF ReadsInv, CleanerReads, PublishReads, BackgroundNeverConflicts, hasConflict
<1>5. CASE ContainerCleanerStep
  <2>1. PICK W : Touches(ContainerCleaner, W) /\ CleanerWrites(W)
    BY <1>1, <1>2, <1>5, CleanerTouches
  <2>2. /\ reads'[ImageManager] = reads[ImageManager] /\ ~stale'[ImageManager]
        /\ \A u \in Calls : reads'[u] = reads[u]
    BY <1>1, <1>2, <2>1, CleanerWritesApart DEF Touches, Kept
  <2>3. CleanerReads' /\ ~stale'[ContainerCleaner]
    BY <1>1, <1>2, <1>5, CleanerTouches
  <2>4. UNCHANGED <<pc, vol, ctr, imPc, imContainer>>
    BY <1>5 DEF ContainerCleanerStep, nsVars, imVars
  <2> QED BY <1>1, <2>2, <2>3, <2>4
          DEF ReadsInv, ManagerReads, PublishReads, BackgroundNeverConflicts, hasConflict
<1>6. CASE Start \/ RemoveAllContainers \/ Crash \/ Reboot \/ WriteImagesFile \/ UNCHANGED vars
  <2>1. CASE UNCHANGED <<txnVars, toClean, pc, vol, ctr, imPc, imContainer>>
    BY <1>1, <2>1 DEF ReadsInv, ManagerReads, CleanerReads, PublishReads,
                      BackgroundNeverConflicts, hasConflict, txnVars
  <2>2. CASE reads' = [t \in Txns |-> {}] /\ stale' = [t \in Txns |-> FALSE]
    BY <1>2, <2>2 DEF ReadsInv, ManagerReads, CleanerReads, PublishReads,
                      BackgroundNeverConflicts, hasConflict
  <2> QED BY <1>6, <2>1, <2>2, OthersKeepReads
<1> QED BY <1>3, <1>4, <1>5, <1>6 DEF Next

LEMMA InitReads == Init => ReadsInv
<1> SUFFICES ASSUME Init PROVE ReadsInv
  OBVIOUS
<1>1. reads = [t \in Txns |-> {}] /\ stale = [t \in Txns |-> FALSE]
  BY DEF Init, TxnInit
<1>2. ImageManager \in Txns /\ ContainerCleaner \in Txns /\ Calls \subseteq Txns
  BY ToolProviderAssumption
<1> QED BY <1>1, <1>2 DEF ReadsInv, ManagerReads, CleanerReads, PublishReads,
                          BackgroundNeverConflicts, hasConflict

------------------------------------------------------------------------------
\* The inductive invariant of the driver.

LEMMA InitEstablishes == Init => IInv /\ VolumeInv
<1>1. Init => CoreInv /\ ReadsInv /\ VolumeInv
  BY InitEstablishesCore, InitReads, InitKeepsVolumes
<1>2. Init => MetadataInv /\ ExistInv
  BY DEF Init, StoreEmpty, MetadataInv, ExistInv, Referred, Tagged
<1> QED BY <1>1, <1>2 DEF IInv

LEMMA NextPreserves == IInv /\ [Next]_vars => IInv'
BY NextPreservesCore, NextKeepsMetadata, NextKeepsContainers, NextKeepsReads DEF IInv

THEOREM InductiveInvariant == Spec => []IInv
<1>1. Init => IInv
  BY InitEstablishes
<1>2. IInv /\ [Next]_vars => IInv'
  BY NextPreserves
<1> QED BY <1>1, <1>2, PTL DEF Spec

\* Every variable keeps its type, whatever the number of calls, volumes,
\* images and containers.
THEOREM TypeCorrect == Spec => []TypeOK
<1>1. IInv => TypeOK
  BY DEF IInv, CoreInv
<1> QED BY <1>1, InductiveInvariant, PTL

\* The container cleaner never removes a container, nor its metadata, while a
\* volume is recorded on it (selectContainerForVolume, updateImage,
\* deleteImagesMissingFromCatalog, getContainersToDelete and the two drops,
\* interleaved in every way, with any failure and any crash).
THEOREM RecordedContainersAreSafe == Spec => []RecordedContainersSurvive
<1>1. IInv => RecordedContainersSurvive
  BY ReferredAreSound
<1> QED BY <1>1, InductiveInvariant, PTL

\* The container that serves an image exists with all its metadata, is not
\* marked for cleaning and serves no other image.
THEOREM ServingIsSound == Spec => []ServingContainersAreSound
<1>1. IInv => ServingContainersAreSound
  BY ReferredAreSound
<1> QED BY <1>1, InductiveInvariant, PTL

\* A publish whose image has moved to another container, or has been retired,
\* since the publish read it does not commit (selectContainerForVolume beside
\* updateImage and deleteImagesMissingFromCatalog).
THEOREM MovedImagesNoticed == Spec => []MovedImagesAreNoticed
<1>1. IInv => MovedImagesAreNoticed
  BY DEF IInv, CoreInv, SelectInv, MovedImagesAreNoticed, hasConflict
<1> QED BY <1>1, InductiveInvariant, PTL

\* No transaction of the image manager or of the cleaner is ever refused,
\* whatever runs beside it: updateImage never abandons for a conflict the
\* container it has created and mounted.
THEOREM BackgroundCommits == Spec => []BackgroundNeverConflicts
<1>1. IInv => BackgroundNeverConflicts
  BY DEF IInv, ReadsInv
<1> QED BY <1>1, InductiveInvariant, PTL

------------------------------------------------------------------------------
\* A publish begins to conflict only by a commit about its own image.
ConflictStep ==
  \A k \in Calls :
    pc[k] = "select" /\ ~hasConflict(k) /\ hasConflict(k)' =>
      ImageOf[vol[k]] \in imMissing \cup {imImage}

LEMMA NextConflictsByUpdate == IInv /\ [Next]_vars => ConflictStep
<1> SUFFICES ASSUME IInv, [Next]_vars,
                    NEW k \in Calls, pc[k] = "select", ~stale[k], stale'[k]
             PROVE  ImageOf[vol[k]] \in imMissing \cup {imImage}
  BY DEF ConflictStep, hasConflict
<1>1. CoreInv /\ ReadsInv /\ ManagerReads /\ CleanerReads /\ PublishReads
  BY DEF IInv, ReadsInv
<1>2. k \in Txns \ {ImageManager, ContainerCleaner}
  BY ToolProviderAssumption
<1>3. CASE NodeServerStep
  <2>1. PICK u \in Calls : HandlerTouches(u)
    BY <1>1, <1>3, HandlersTouch DEF NodeServerStep, NSNext, HandlerStep
  <2> QED BY <1>1, <1>2, <2>1, HandlerWritesApart DEF HandlerTouches, Touches
<1>4. CASE ImageManagerStep
  <2>1. PICK W : Touches(ImageManager, W) /\ ManagerWrites(W)
    BY <1>1, <1>4, ManagerTouches
  <2> QED BY <1>1, <1>2, <2>1, PublishConflicts DEF Touches, Kept
<1>5. CASE ContainerCleanerStep
  <2>1. PICK W : Touches(ContainerCleaner, W) /\ CleanerWrites(W)
    BY <1>1, <1>5, CleanerTouches
  <2> QED BY <1>1, <1>2, <2>1, CleanerWritesApart DEF Touches, Kept
<1>6. CASE Start \/ RemoveAllContainers \/ Crash \/ Reboot \/ WriteImagesFile \/ UNCHANGED vars
  BY <1>2, <1>6, OthersKeepReads DEF txnVars
<1> QED BY <1>3, <1>4, <1>5, <1>6 DEF Next

\* "Image is being updated. Please retry later" is answered for no other
\* reason: only a transaction of the image manager about the image of the
\* volume makes a publish conflict.
THEOREM ConflictsAreUpdates == Spec => ConflictMeansUpdate
<1>1. IInv /\ [Next]_vars => [ConflictStep]_vars
  BY NextConflictsByUpdate
<1> QED BY <1>1, InductiveInvariant, PTL DEF Spec, ConflictMeansUpdate, ConflictStep

------------------------------------------------------------------------------
\* The volumes.

LEMMA VolumeInvariant == Spec => [](IInv /\ VolumeInv)
<1>1. Init => IInv /\ VolumeInv
  BY InitEstablishes
<1>2. IInv /\ VolumeInv /\ [Next]_vars => (IInv /\ VolumeInv)'
  BY NextPreserves, NextKeepsVolumes DEF IInv
<1> QED BY <1>1, <1>2, PTL DEF Spec

\* From its commit to its mount, a publish finds the records of its volume as
\* it wrote them, whatever the other calls and the cleaner do.
THEOREM ChosenIsHeld == Spec => []ChosenContainerIsHeld
<1>1. VolumeInv => ChosenContainerIsHeld
  BY DEF VolumeInv
<1> QED BY <1>1, VolumeInvariant, PTL

\* A bound volume is always recorded on its container, where the cleaner looks.
THEOREM BoundIsRecorded == Spec => []BoundVolumesAreRecorded
<1>1. VolumeInv => BoundVolumesAreRecorded
  BY DEF VolumeInv
<1> QED BY <1>1, VolumeInvariant, PTL

\* No step mounts a volume over another mount, or changes a volume's container.
MountStep ==
  \A v \in Volumes :
    volMount'[v] # volMount[v] => volMount[v] = None \/ volMount'[v] = None

LEMMA NextMountsOnce == CoreInv /\ VolumeInv /\ [Next]_vars => MountStep
<1> SUFFICES ASSUME CoreInv, VolumeInv, [Next]_vars, volMount' # volMount,
                    NEW v \in Volumes
             PROVE  volMount'[v] # volMount[v] => volMount[v] = None \/ volMount'[v] = None
  BY DEF MountStep
<1>1. volMount \in [Volumes -> Containers \cup {None}]
  BY DEF CoreInv, TypeOK, HandlersTypeOK
<1>2. CASE NodeServerStep
  <2>1. PICK k \in Calls :
          \/ \E w \in Volumes : NodePublishVolume(k, w) \/ NodeUnpublishVolume(k, w)
          \/ Handler(k)
    BY <1>2 DEF NodeServerStep, NSNext
  <2>2. CASE \E w \in Volumes : NodePublishVolume(k, w) \/ NodeUnpublishVolume(k, w)
    BY <1>1, <2>2 DEF NodePublishVolume, NodeUnpublishVolume
  <2>3. CASE Handler(k)
    <3>1. Mount(k)
      BY <2>3
      DEF Handler, SelectCommit, CheckTarget, CheckSource, CleaningOnError, DropBegin,
          DropCommit, Return
    <3>2. volMount[vol[k]] = None
      BY <3>1 DEF Mount, VolumeInv, TargetInv
    <3> QED BY <1>1, <3>1, <3>2 DEF Mount
  <2> QED BY <2>1, <2>2, <2>3
<1>3. CASE Reboot
  BY <1>3 DEF Reboot
<1> QED
  BY <1>2, <1>3
  DEF Next, ImageManagerStep, ContainerCleanerStep, Start, RemoveAllContainers, Crash,
      WriteImagesFile, nsVars, vars

\* Two publishes of a volume never mount over one another: the check of the
\* target path and the mount are two steps of one critical section.
THEOREM MountedOnce == Spec => NoMountOverMount
<1>1. IInv /\ VolumeInv /\ [Next]_vars => [MountStep]_vars
  BY NextMountsOnce DEF IInv
<1> QED BY <1>1, VolumeInvariant, PTL DEF Spec, NoMountOverMount, MountStep

------------------------------------------------------------------------------
\* The containers.

\* What the store knows of the containers.
known == <<imageTag, mountPath, catalog, imageID, toClean>>

\* No handler changes it.
LEMMA HandlersKeepKnown ==
  ASSUME NodeServerStep
  PROVE  UNCHANGED <<known, imNew, ccList, imPc, ccPc>>
<1>1. UNCHANGED <<imVars, ccVars>>
  BY DEF NodeServerStep
<1>2. PICK k \in Calls :
        \/ \E v \in Volumes : NodePublishVolume(k, v) \/ NodeUnpublishVolume(k, v)
        \/ Handler(k)
  BY DEF NodeServerStep, NSNext
<1>3. CASE \E v \in Volumes : NodePublishVolume(k, v) \/ NodeUnpublishVolume(k, v)
  BY <1>1, <1>3 DEF NodePublishVolume, NodeUnpublishVolume, known, storeVars, imVars, ccVars
<1>4. CASE SelectCommit(k)
  BY <1>1, <1>4 DEF SelectCommit, selectContainerForVolumeCommit, selectFails, known,
                    storeVars, imVars, ccVars
<1>5. CASE CleaningOnError(k) \/ DropCommit(k)
  BY <1>1, <1>5 DEF CleaningOnError, DropCommit, dropVolumeContainerOnMountError,
                    dropVolumeContainerOnUnmountCommit, known, storeVars, imVars, ccVars
<1>6. CASE CheckTarget(k) \/ CheckSource(k) \/ Mount(k) \/ DropBegin(k) \/ Return(k)
  BY <1>1, <1>6 DEF CheckTarget, CheckSource, Mount, DropBegin, Return, known,
                    storeVars, imVars, ccVars
<1> QED BY <1>2, <1>3, <1>4, <1>5, <1>6 DEF Handler

\* Neither do the process and the node, and a death makes only the goroutines
\* forget.
LEMMA OthersKeepKnown ==
  ASSUME Start \/ RemoveAllContainers \/ Crash \/ Reboot \/ WriteImagesFile \/ UNCHANGED vars
  PROVE  /\ UNCHANGED known
         /\ \/ UNCHANGED <<imNew, ccList, imPc, ccPc>>
            \/ /\ drv' = "down" /\ imNew' = None /\ ccList' = {}
BY DEF Start, RemoveAllContainers, Crash, Reboot, WriteImagesFile, vars, ProcessDies, IMDies,
       CCDies, imUpdate, known, storeVars, imVars, ccVars

------------------------------------------------------------------------------
\* The image manager.

\* Only two commits of the manager change what is known, and only the three
\* error returns forget a new container.
LEMMA ManagerKeepsKnown ==
  ASSUME IInv, WorkInv, ImageManagerStep
  PROVE  \/ /\ UNCHANGED <<known, ccList, ccPc>>
            /\ \/ imNew' = imNew /\ (imNew = None \/ imPc' \in {"mount", "commit"})
               \/ imNew = None /\ imPc' = "mount"
               \/ imNew' = None /\ (MountNewContainerFails \/ UpdateImageCommitFails
                                      \/ UpdateImageSetFails)
         \/ DeleteImagesEnd /\ deleteImagesCommit(ImageManager, imMissing)
              /\ imNew' = None /\ imNew = None /\ UNCHANGED <<ccList, ccPc>>
         \/ UpdateImageCommit /\ imNew' = None /\ UNCHANGED <<ccList, ccPc>>
<1>1. UNCHANGED <<ccList, ccPc>> /\ IMNext
  BY DEF ImageManagerStep, ccVars
<1>2. CASE ReadImages \/ ListMountPoints \/ DeleteImagesBegin \/ UpdateImageBegin
             \/ GiveUpContainer
  BY <1>1, <1>2 DEF WorkInv, ReadImages, ListMountPoints, DeleteImagesBegin, UpdateImageBegin,
                    GiveUpContainer, imUpdate, known, storeVars
<1>3. CASE DeleteImagesEnd
  BY <1>1, <1>3 DEF WorkInv, DeleteImagesEnd, imUpdate, known, storeVars
<1>4. CASE SkipImage \/ ReuseContainer \/ CreateContainerFails
  BY <1>1, <1>4 DEF WorkInv, SkipImage, ReuseContainer, CreateContainerFails, AbandonUpdate,
                    NextImage, known, storeVars
<1>5. CASE CreateContainer \/ MountNewContainer
  BY <1>1, <1>5 DEF WorkInv, CreateContainer, MountNewContainer, imUpdate, known, storeVars
<1>6. CASE MountNewContainerFails \/ UpdateImageCommitFails \/ UpdateImageSetFails
  BY <1>1, <1>6 DEF MountNewContainerFails, UpdateImageCommitFails, UpdateImageSetFails,
                    AbandonUpdate, NextImage, known, storeVars
<1>7. CASE UpdateImageCommit
  BY <1>1, <1>7 DEF UpdateImageCommit, NextImage
<1> QED BY <1>1, <1>2, <1>3, <1>4, <1>5, <1>6, <1>7 DEF IMNext

\* Every tag that a transaction of the manager takes away leaves its container
\* marked for the cleaner.
LEMMA RetireKeepsAccount ==
  ASSUME IInv, DeleteImagesEnd, deleteImagesCommit(ImageManager, imMissing)
  PROVE  /\ UNCHANGED <<mountPath, catalog, imageID>>
         /\ toClean \subseteq toClean'
         /\ \A i \in Images : imageTag'[i] = imageTag[i] \/ imageTag[i] \in toClean'
<1>1. imageTag' = [i \in Images |-> IF i \in imMissing THEN None ELSE imageTag[i]]
  BY DEF deleteImagesCommit
<1>2. toClean' = toClean \cup {imageTag[i] : i \in imMissing}
  BY DEF deleteImagesCommit
<1> QED BY <1>1, <1>2 DEF deleteImagesCommit

LEMMA UpdateKeepsAccount ==
  ASSUME IInv, UpdateImageCommit
  PROVE  /\ mountPath' = mountPath \cup {imNew}
         /\ catalog' = catalog \cup {imNew}
         /\ imageID' = imageID \cup {imNew}
         /\ toClean \subseteq toClean'
         /\ imImage \in Images /\ imageTag'[imImage] = imNew
         /\ \A i \in Images : imageTag[i] # None =>
              imageTag'[i] = imageTag[i] \/ imageTag[i] \in toClean'
<1>1. imImage \in Images /\ imContainer = imageTag[imImage]
  BY Undisturbed DEF UpdateImageCommit
<1>2. imageTag \in [Images -> Containers \cup {None}]
  BY DEF IInv, CoreInv, TypeOK, StoreTypeOK
<1>3. imageTag' = [imageTag EXCEPT ![imImage] = imNew]
  BY DEF UpdateImageCommit, updateImageCommit
<1>4. toClean' = IF imContainer = None THEN toClean ELSE toClean \cup {imContainer}
  BY DEF UpdateImageCommit, updateImageCommit
<1> QED BY <1>1, <1>2, <1>3, <1>4 DEF UpdateImageCommit, updateImageCommit

------------------------------------------------------------------------------
\* The container cleaner.

\* Only the cleaner's commit changes what is known, and a container leaves the
\* list for the marks, for its deletion or because the deletion failed.
LEMMA CleanerKeepsAccount ==
  ASSUME IInv, WorkInv, ContainerCleanerStep
  PROVE  /\ UNCHANGED <<imageTag, imNew, imPc>>
         /\ \/ UNCHANGED known
            \/ /\ CleanCommit
               /\ mountPath' = mountPath \ ccList
               /\ catalog' = catalog \ ccList
               /\ imageID' = imageID \ ccList
               /\ toClean' = toClean \ ccList
         /\ \A c \in ccList : \/ c \in ccList' \cup toClean'
                              \/ c \notin ctrs'
                              \/ DeleteContainerFails
         /\ ccPc' = "idle" => ccList' = {}
<1>1. UNCHANGED <<imNew, imPc>> /\ CCNext
  BY DEF ContainerCleanerStep, imVars
<1>2. CASE CleanBegin
  BY <1>1, <1>2 DEF WorkInv, CleanBegin, known, storeVars
<1>3. CASE CleanCommit
  BY <1>1, <1>3 DEF CleanCommit, getContainersToDeleteCommit
<1>4. CASE CleanCommitFails
  BY <1>1, <1>4, Undisturbed DEF CleanCommitFails, known, storeVars
<1>5. CASE DeleteContainer \/ DeleteContainerFails
  BY <1>1, <1>5 DEF DeleteContainer, DeleteContainerFails, CleanNext, rm, known, storeVars
<1> QED BY <1>1, <1>2, <1>3, <1>4, <1>5 DEF CCNext

------------------------------------------------------------------------------
LEMMA NextKeepsAccount == IInv /\ AccountInv /\ [Next]_vars => AccountInv'
<1> SUFFICES ASSUME IInv, WorkInv, KnownContainersAreAccounted, [Next]_vars
             PROVE  WorkInv' /\ KnownContainersAreAccounted'
  BY DEF AccountInv
<1>1. UNCHANGED known => KnownContainersAreAccounted'
  BY DEF known, KnownContainersAreAccounted
<1>2. CASE NodeServerStep
  BY <1>1, <1>2, HandlersKeepKnown DEF WorkInv
<1>3. CASE ImageManagerStep
  <2>1. WorkInv'
    BY <1>3, ManagerKeepsKnown DEF WorkInv
  <2>2. CASE DeleteImagesEnd /\ deleteImagesCommit(ImageManager, imMissing)
    BY <2>1, <2>2, RetireKeepsAccount DEF KnownContainersAreAccounted
  <2>3. CASE UpdateImageCommit
    <3>1. None \notin Containers /\ mountPath \cup catalog \cup imageID \subseteq Containers
      BY ImageManagerAssumption DEF IInv, CoreInv, TypeOK, StoreTypeOK
    <3>2. SUFFICES ASSUME NEW c \in mountPath' \cup catalog' \cup imageID'
                   PROVE  c \in toClean' \/ \E i \in Images : imageTag'[i] = c
      BY <2>1 DEF KnownContainersAreAccounted
    <3>3. CASE c = imNew
      BY <2>3, <3>3, UpdateKeepsAccount
    <3>4. CASE c \in mountPath \cup catalog \cup imageID
      BY <2>3, <3>1, <3>4, UpdateKeepsAccount DEF KnownContainersAreAccounted
    <3> QED BY <2>3, <3>2, <3>3, <3>4, UpdateKeepsAccount
  <2> QED BY <1>1, <1>3, <2>1, <2>2, <2>3, ManagerKeepsKnown
<1>4. CASE ContainerCleanerStep
  <2>1. WorkInv'
    BY <1>4, CleanerKeepsAccount DEF WorkInv
  <2>2. KnownContainersAreAccounted'
    BY <1>1, <1>4, CleanerKeepsAccount DEF KnownContainersAreAccounted
  <2> QED BY <2>1, <2>2
<1>5. CASE Start \/ RemoveAllContainers \/ Crash \/ Reboot \/ WriteImagesFile \/ UNCHANGED vars
  BY <1>1, <1>5, OthersKeepKnown DEF WorkInv
<1> QED BY <1>2, <1>3, <1>4, <1>5 DEF Next

LEMMA InitAccounts == Init => AccountInv
BY DEF Init, StoreEmpty, IMIdle, CCIdle, AccountInv, WorkInv, KnownContainersAreAccounted

LEMMA AccountInvariant == Spec => [](IInv /\ AccountInv)
<1>1. Init => IInv /\ AccountInv
  BY InitEstablishes, InitAccounts
<1>2. IInv /\ AccountInv /\ [Next]_vars => (IInv /\ AccountInv)'
  BY NextPreserves, NextKeepsAccount
<1> QED BY <1>1, <1>2, PTL DEF Spec

\* The store never loses sight of a container it has metadata of: updateImage
\* and deleteImagesMissingFromCatalog mark what they retire, and the cleaner
\* forgets a mark only with the metadata.
THEOREM KnownAreAccounted == Spec => []KnownContainersAreAccounted
<1>1. AccountInv => KnownContainersAreAccounted
  BY DEF AccountInv
<1> QED BY <1>1, AccountInvariant, PTL

------------------------------------------------------------------------------
\* No step forgets a container that exists, but those that give it up.
LeakStep == \A c \in ctrs : Accounted(c) /\ c \in ctrs' /\ ~Accounted(c)' => GivesUp

LEMMA NextLeaksNothing == IInv /\ AccountInv /\ [Next]_vars => LeakStep
<1> SUFFICES ASSUME IInv, WorkInv, [Next]_vars, ~GivesUp,
                    NEW c \in ctrs, Accounted(c), c \in ctrs'
             PROVE  Accounted(c)'
  BY DEF AccountInv, LeakStep
<1>1. c # None
  BY ImageManagerAssumption DEF IInv, CoreInv, TypeOK, BuildahTypeOK
<1>2. CASE NodeServerStep
  BY <1>2, HandlersKeepKnown DEF Accounted, known
<1>3. CASE ImageManagerStep
  <2>1. CASE DeleteImagesEnd /\ deleteImagesCommit(ImageManager, imMissing)
    BY <1>1, <1>3, <2>1, RetireKeepsAccount, ManagerKeepsKnown DEF Accounted, DeleteImagesEnd,
       WorkInv, ImageManagerStep, ccVars, imUpdate
  <2>2. CASE UpdateImageCommit
    BY <1>1, <1>3, <2>2, UpdateKeepsAccount DEF Accounted, ImageManagerStep, ccVars
  <2>3. CASE UNCHANGED <<known, ccList>> /\ (imNew' = imNew \/ imNew = None)
    BY <1>1, <2>3 DEF Accounted, known
  <2> QED BY <1>3, <2>1, <2>2, <2>3, ManagerKeepsKnown DEF GivesUp
<1>4. CASE ContainerCleanerStep
  <2>1. ~DeleteContainerFails
    BY DEF GivesUp
  <2>2. CASE c \in ccList
    BY <1>4, <2>1, <2>2, CleanerKeepsAccount DEF Accounted
  <2>3. CASE c \notin ccList
    BY <1>4, <2>3, CleanerKeepsAccount DEF Accounted, known
  <2> QED BY <2>2, <2>3
<1>5. CASE Start \/ RemoveAllContainers \/ Crash \/ Reboot \/ WriteImagesFile \/ UNCHANGED vars
  BY <1>5, OthersKeepKnown DEF Accounted, known, GivesUp
<1> QED BY <1>2, <1>3, <1>4, <1>5 DEF Next

\* A container is forgotten, while it exists, only when the driver dies or a
\* command or a commit fails: updateImage, deleteImagesMissingFromCatalog and
\* the cleaner's rounds lose none, whatever runs beside them.
THEOREM NothingLeaks == Spec => NoSilentLeak
<1>1. IInv /\ AccountInv /\ [Next]_vars => [LeakStep]_vars
  BY NextLeaksNothing
<1> QED BY <1>1, AccountInvariant, PTL DEF Spec, NoSilentLeak, LeakStep

------------------------------------------------------------------------------
\* What serves an image goes on serving it.
ServedStep ==
  \A i \in Images, id \in ImageIDs :
    Serves(imageTag[i], id) /\ (imPc = "idle" \/ imImages[i] = id) =>
      Serves(imageTag[i], id)' \/ Reboot

\* A step that moves no tag and takes no container that a tag leads to.
LEMMA TagsKeepServing ==
  ASSUME CoreInv, UNCHANGED imageTag,
         \A c \in Tagged : /\ c \in ctrs => c \in ctrs'
                           /\ c \in mounted => c \in mounted'
                           /\ ctrImage[c] # None => ctrImage'[c] = ctrImage[c]
  PROVE  ServedStep
<1> SUFFICES ASSUME NEW i \in Images, NEW id \in ImageIDs, Serves(imageTag[i], id)
             PROVE  Serves(imageTag[i], id)'
  BY DEF ServedStep
<1>1. imageTag[i] \in Tagged
  BY ImageManagerAssumption DEF Serves, CoreInv, TypeOK, BuildahTypeOK, Tagged
<1> QED BY <1>1, ImageManagerAssumption DEF Serves

\* A commit of updateImage moves a tag to a container that serves the image as
\* the file that the round has read asks for.
LEMMA UpdateKeepsServing ==
  ASSUME CoreInv, RoundInv, UpdateImageCommit
  PROVE  ServedStep
<1> SUFFICES ASSUME NEW i \in Images, NEW id \in ImageIDs,
                    Serves(imageTag[i], id), imImages[i] = id
             PROVE  Serves(imageTag[i], id)'
  BY DEF ServedStep, UpdateImageCommit
<1>1. /\ imageTag' = [imageTag EXCEPT ![imImage] = imNew]
      /\ UNCHANGED <<ctrs, ctrImage, mounted>> /\ imPc = "commit"
  BY DEF UpdateImageCommit, updateImageCommit, buildahVars
<1>2. imageTag \in [Images -> Containers \cup {None}] /\ imImage \in Images
  BY <1>1 DEF CoreInv, TypeOK, StoreTypeOK, ManagerInv
<1>3. CASE i = imImage
  <2>1. imNew \in ctrs \cap mounted /\ ctrImage[imNew] \in pulled(id)
    BY <1>1, <1>3 DEF CoreInv, ManagerInv, RoundInv
  <2>2. pulled(id) = {id}
    BY ImageManagerAssumption DEF pulled
  <2>3. imageTag'[i] = imNew
    BY <1>1, <1>2, <1>3
  <2> QED BY <1>1, <2>1, <2>2, <2>3 DEF Serves
<1>4. CASE i # imImage
  BY <1>1, <1>2, <1>4 DEF Serves
<1> QED BY <1>3, <1>4

\* deleteImagesMissingFromCatalog takes only the tags of images that the file,
\* as the round has read it, does not list.
LEMMA RetireKeepsServing ==
  ASSUME CoreInv, RoundInv, DeleteImagesEnd
  PROVE  ServedStep
<1> SUFFICES ASSUME NEW i \in Images, NEW id \in ImageIDs,
                    Serves(imageTag[i], id), imImages[i] = id
             PROVE  Serves(imageTag[i], id)'
  BY DEF ServedStep, DeleteImagesEnd
<1>1. i \notin imMissing
  BY ImageManagerAssumption DEF RoundInv, DeleteImagesEnd
<1>2. imageTag'[i] = imageTag[i]
  BY <1>1 DEF DeleteImagesEnd, deleteImagesCommit, storeVars
<1>3. UNCHANGED <<ctrs, ctrImage, mounted>>
  BY DEF DeleteImagesEnd, buildahVars
<1> QED BY <1>2, <1>3 DEF Serves

LEMMA ManagerKeepsServing ==
  ASSUME CoreInv, RoundInv, ImageManagerStep
  PROVE  ServedStep /\ RoundInv'
<1>1. BuildahTypeOK /\ ManagerInv /\ Tagged \subseteq Referred /\ IMNext
  BY DEF CoreInv, TypeOK, Referred, ImageManagerStep
<1>2. CASE ReadImages \/ DeleteImagesBegin \/ ListMountPoints \/ SkipImage \/ GiveUpContainer
             \/ MountNewContainerFails \/ UpdateImageCommitFails
  <2>1. UNCHANGED <<imageTag, buildahVars>>
    BY <1>2 DEF ReadImages, DeleteImagesBegin, ListMountPoints, SkipImage, GiveUpContainer,
                MountNewContainerFails, UpdateImageCommitFails, AbandonUpdate, storeVars
  <2>2. ServedStep
    BY <2>1, TagsKeepServing DEF buildahVars
  <2>3. RoundInv'
    BY <1>2 DEF RoundInv, ReadImages, DeleteImagesBegin, ListMountPoints, SkipImage,
                GiveUpContainer, MountNewContainerFails, UpdateImageCommitFails, AbandonUpdate,
                NextImage, imagesMissingFrom, imUpdate
  <2> QED BY <2>2, <2>3
<1>3. CASE UpdateImageBegin
  <2>1. ServedStep
    BY <1>3, TagsKeepServing DEF UpdateImageBegin, storeVars, buildahVars
  <2>2. RoundInv'
    <3>1. imNewID' \in pulled(imImages[imImage']) /\ imImages' = imImages
            /\ imPc' \in {"reuse", "create"}
      BY <1>3 DEF UpdateImageBegin
    <3> QED BY <3>1 DEF RoundInv
  <2> QED BY <2>1, <2>2
<1>4. CASE DeleteImagesEnd
  <2>1. RoundInv'
    BY <1>4 DEF RoundInv, DeleteImagesEnd
  <2> QED BY <1>4, <2>1, RetireKeepsServing
<1>5. CASE ReuseContainer \/ MountNewContainer
  <2>1. /\ UNCHANGED <<imageTag, ctrs, ctrImage>> /\ mounted \subseteq mounted'
    BY <1>5 DEF ReuseContainer, MountNewContainer, mountContainer, storeVars, buildahVars
  <2>2. RoundInv'
    BY <1>5 DEF RoundInv, ReuseContainer, MountNewContainer, NextImage, mountContainer, imUpdate
  <2> QED BY <2>1, <2>2, TagsKeepServing
<1>6. CASE CreateContainer \/ CreateContainerFails
  <2>1. UNCHANGED imageTag /\ (UNCHANGED buildahVars \/ \E c \in Containers : from(c, imNewID))
    BY <1>6 DEF CreateContainer, CreateContainerFails, AbandonUpdate, storeVars
  <2>2. ServedStep
    <3>1. Tagged \subseteq Containers
      BY DEF Tagged, CoreInv, TypeOK, StoreTypeOK
    <3>2. /\ ctrs \subseteq ctrs' /\ mounted \subseteq mounted'
          /\ \A c \in Containers : ctrImage[c] # None => ctrImage'[c] = ctrImage[c]
      <4>1. CASE UNCHANGED buildahVars
        BY <4>1 DEF buildahVars
      <4>2. CASE \E c \in Containers : from(c, imNewID)
        BY <1>1, <4>2 DEF from, BuildahTypeOK
      <4> QED BY <2>1, <4>1, <4>2
    <3> QED BY <2>1, <3>1, <3>2, TagsKeepServing
  <2>3. RoundInv'
    BY <1>1, <1>6 DEF RoundInv, CreateContainer, CreateContainerFails, AbandonUpdate, NextImage,
                      from, BuildahTypeOK
  <2> QED BY <2>2, <2>3
<1>7. CASE UpdateImageCommit
  <2>1. RoundInv'
    BY <1>7 DEF RoundInv, UpdateImageCommit, NextImage
  <2> QED BY <1>7, <2>1, UpdateKeepsServing
<1>8. CASE UpdateImageSetFails
  <2>1. UNCHANGED <<imageTag, ctrImage>> /\ (UNCHANGED buildahVars \/ rm({imNew}))
    BY <1>8 DEF UpdateImageSetFails, AbandonUpdate, storeVars, rm, buildahVars
  <2>2. imNew \notin Tagged
    BY <1>1, <1>8 DEF ManagerInv, UpdateImageSetFails
  <2>3. RoundInv'
    BY <1>8 DEF RoundInv, UpdateImageSetFails, AbandonUpdate, NextImage
  <2> QED BY <2>1, <2>2, <2>3, TagsKeepServing DEF rm, buildahVars
<1> QED BY <1>1, <1>2, <1>3, <1>4, <1>5, <1>6, <1>7, <1>8 DEF IMNext

\* The cleaner removes no container that a tag leads to, and not the one that
\* the image manager is about to enter.
LEMMA CleanerKeepsServing ==
  ASSUME CoreInv, RoundInv, ContainerCleanerStep
  PROVE  ServedStep /\ RoundInv'
<1>1. /\ UNCHANGED <<imageTag, ctrImage, imVars>>
      /\ ctrs \ ccList \subseteq ctrs' /\ mounted \ ccList \subseteq mounted'
  <2>1. CASE CleanCommit
    BY <2>1 DEF CleanCommit, getContainersToDeleteCommit, buildahVars, ContainerCleanerStep
  <2>2. CASE CleanBegin \/ CleanCommitFails \/ DeleteContainer \/ DeleteContainerFails
    BY <2>2 DEF CleanBegin, CleanCommitFails, DeleteContainer, DeleteContainerFails, CleanNext,
                rm, storeVars, buildahVars, ContainerCleanerStep
  <2> QED BY <2>1, <2>2 DEF ContainerCleanerStep, CCNext
<1>2. ccList \cap Tagged = {}
  BY DEF CoreInv, CleanerInv, Referred
<1>3. ServedStep
  BY <1>1, <1>2, TagsKeepServing
<1>4. imPc = "commit" => imNew \notin ccList
  BY DEF CoreInv, ManagerInv
<1>5. RoundInv'
  BY <1>1, <1>4 DEF RoundInv, imVars
<1> QED BY <1>3, <1>5

\* Calls touch neither tags nor containers; the driver removes all containers
\* only when no tag leads to one.
LEMMA NextKeepsServing == CoreInv /\ RoundInv /\ [Next]_vars => ServedStep /\ RoundInv'
<1> SUFFICES ASSUME CoreInv, RoundInv, [Next]_vars
             PROVE  ServedStep /\ RoundInv'
  OBVIOUS
<1>1. CASE NodeServerStep
  <2>1. UNCHANGED <<imageTag, imVars>>
    BY <1>1, HandlersKeepKnown DEF known, NodeServerStep
  <2>2. UNCHANGED buildahVars
    BY <1>1 DEF NodeServerStep, NSNext, Handler, NodePublishVolume, NodeUnpublishVolume,
                SelectCommit, CheckTarget, CheckSource, Mount, CleaningOnError, DropBegin,
                DropCommit, Return
  <2>3. ServedStep
    BY <2>1, <2>2, TagsKeepServing DEF buildahVars
  <2>4. RoundInv'
    BY <2>1, <2>2 DEF RoundInv, imVars, buildahVars
  <2> QED BY <2>3, <2>4
<1>2. CASE ImageManagerStep
  BY <1>2, ManagerKeepsServing
<1>3. CASE ContainerCleanerStep
  BY <1>3, CleanerKeepsServing
<1>4. CASE Start \/ WriteImagesFile \/ UNCHANGED vars
  <2>1. UNCHANGED <<imageTag, buildahVars, imPc, imMissing, imImages, imUpdate>>
    BY <1>4 DEF Start, WriteImagesFile, vars, storeVars, imVars, imUpdate
  <2>2. ServedStep
    BY <2>1, TagsKeepServing DEF buildahVars
  <2>3. RoundInv'
    BY <2>1 DEF RoundInv, imUpdate, buildahVars
  <2> QED BY <2>2, <2>3
<1>5. CASE RemoveAllContainers
  <2>1. imPc = "idle" /\ Tagged = {}
    BY <1>5 DEF CoreInv, DriverInv, RemoveAllContainers
  <2>2. UNCHANGED imageTag /\ imPc' = "idle"
    BY <1>5, <2>1 DEF RemoveAllContainers, storeVars, imVars
  <2> QED BY <2>1, <2>2, TagsKeepServing DEF RoundInv
<1>6. CASE Crash
  <2>1. UNCHANGED <<imageTag, ctrs, ctrImage, mounted>> /\ imPc' = "idle"
    BY <1>6 DEF Crash, ProcessDies, IMDies, storeVars
  <2> QED BY <2>1, TagsKeepServing DEF RoundInv
<1>7. CASE Reboot
  <2>1. imPc' = "idle"
    BY <1>7 DEF Reboot, ProcessDies, IMDies
  <2> QED BY <1>7, <2>1 DEF ServedStep, RoundInv
<1> QED BY <1>1, <1>2, <1>3, <1>4, <1>5, <1>6, <1>7 DEF Next

\* An image that is served with the content the file lists for it is not left
\* without a mounted container of that content: not by a round that gives its
\* container up, nor by the cleaner, a failure or a start of the driver.
THEOREM ServedStayServed == Spec => ServedImagesStayServed
<1>1. Init => RoundInv
  BY DEF Init, IMIdle, RoundInv
<1>2. IInv => CoreInv
  BY DEF IInv
<1>3. CoreInv /\ RoundInv /\ [Next]_vars => RoundInv' /\ [ServedStep]_vars
  BY NextKeepsServing
<1> QED BY <1>1, <1>2, <1>3, InductiveInvariant, PTL
        DEF Spec, ServedImagesStayServed, ServedStep

------------------------------------------------------------------------------
\* The refinement of VolumeBindings.
\* What the refinement must keep, when a step is none of VolumeBindings'.
absVars == <<ctrs, imageTag, toClean, volumes, volMount>>

\* A container that leads nowhere in the store is unknown to the abstract
\* specification too: a record on it would need its mount path.
LEMMA UnknownContainer ==
  ASSUME IInv, NEW c \in Containers, c \notin mountPath \cup toClean \cup Tagged
  PROVE  c \notin Bindings!Known
<1>1. c \notin Bindings!Served
  BY DEF Bindings!Served, Tagged
<1>2. volumes \subseteq Containers \X Volumes
  BY DEF IInv, CoreInv, TypeOK, StoreTypeOK
<1>3. c \notin Bindings!Used
  BY <1>2, ReferredAreSound DEF Bindings!Used, RecordedContainersSurvive
<1> QED BY <1>1, <1>3 DEF Bindings!Known

\* A call starts: nothing happens, or a volume is unmounted.
LEMMA CallsImplement ==
  ASSUME NEW k \in Calls, NEW v \in Volumes,
         NodePublishVolume(k, v) \/ NodeUnpublishVolume(k, v)
  PROVE  Bindings!UnmountVolume(v) \/ UNCHANGED absVars
<1>1. CASE NodePublishVolume(k, v)
  BY <1>1 DEF NodePublishVolume, storeVars, buildahVars, absVars
<1>2. CASE NodeUnpublishVolume(k, v)
  BY <1>2
  DEF NodeUnpublishVolume, storeVars, buildahVars, absVars, Bindings!UnmountVolume
<1> QED BY <1>1, <1>2

\* The handlers bind and release at their commits, and mount.
LEMMA HandlerImplements ==
  ASSUME IInv, VolumeInv, NEW k \in Calls, Handler(k)
  PROVE  \/ Bindings!Bind(vol[k])
         \/ Bindings!Release(ctr[k], vol[k])
         \/ Bindings!MountVolume(ctr[k], vol[k])
         \/ UNCHANGED absVars
<1>1. CASE SelectCommit(k)
  <2>1. CASE selectContainerForVolumeCommit(k, vol[k], ctr[k])
    <3>1. ~stale[k]
      BY <2>1 DEF selectContainerForVolumeCommit, selectContainerForVolumeWrites,
               Commit, hasConflict
    <3>2. imageTag[ImageOf[vol[k]]] = ctr[k] /\ ctr[k] # None
      BY <1>1, <3>1, NodeServerAssumption
      DEF SelectCommit, IInv, CoreInv, SelectInv, HandlerInv
    <3> QED
      BY <1>1, <2>1, <3>2
      DEF SelectCommit, selectContainerForVolumeCommit, buildahVars, Bindings!Bind
  <2>2. CASE UNCHANGED storeVars
    BY <1>1, <2>2 DEF SelectCommit, buildahVars, storeVars, absVars
  <2> QED BY <1>1, <2>1, <2>2 DEF SelectCommit, selectFails
<1>2. CASE Mount(k)
  <2>1. <<ctr[k], vol[k]>> \in volumes /\ volMount[vol[k]] = None
    BY <1>2 DEF Mount, VolumeInv, ChosenContainerIsHeld, TargetInv
  <2> QED
    BY <1>2, <2>1 DEF Mount, storeVars, buildahVars, absVars, Bindings!MountVolume
<1>3. CASE CleaningOnError(k)
  BY <1>3
  DEF CleaningOnError, dropVolumeContainerOnMountError, storeVars, buildahVars, absVars,
      Bindings!Release
<1>4. CASE DropCommit(k)
  BY <1>4
  DEF DropCommit, dropVolumeContainerOnUnmountCommit, storeVars, buildahVars, absVars,
      Bindings!Release
<1>5. CASE CheckTarget(k) \/ CheckSource(k) \/ DropBegin(k) \/ Return(k)
  BY <1>5
  DEF CheckTarget, CheckSource, DropBegin, Return, storeVars, buildahVars, absVars
<1> QED BY <1>1, <1>2, <1>3, <1>4, <1>5 DEF Handler

\* The image manager creates, serves, retires, and deletes what it has created.
LEMMA ImageManagerImplements ==
  ASSUME IInv, ImageManagerStep
  PROVE  \/ \E c \in Containers : Bindings!Create(c) \/ Bindings!Delete({c})
         \/ \E i \in Images, c \in Containers : Bindings!Serve(i, c)
         \/ Bindings!Retire(imMissing)
         \/ UNCHANGED absVars
<1> USE DEF ImageManagerStep, nsVars
<1>1. ASSUME NEW c \in Containers, from(c, imNewID), UNCHANGED <<storeVars, nsVars>>
      PROVE  Bindings!Create(c)
  <2>1. c \notin ctrs \cup mountPath \cup toClean \cup Tagged
    BY <1>1 DEF from, IInv, CoreInv, KnownInv, Referred
  <2> QED
    BY <1>1, <2>1, UnknownContainer DEF from, storeVars, Bindings!Create
<1>2. ASSUME imPc = "commit"
      PROVE  /\ imNew \in Containers
             /\ imNew \in ctrs
             /\ imNew \notin Bindings!Known
  <2>1. imNew \in ctrs /\ imNew \notin mountPath \cup toClean \cup Tagged
    BY <1>2 DEF IInv, CoreInv, ManagerInv, Referred
  <2>2. imNew \in Containers
    BY <2>1 DEF IInv, CoreInv, TypeOK, BuildahTypeOK
  <2> QED BY <2>1, <2>2, UnknownContainer
<1>3. CASE DeleteImagesEnd
  <2>1. CASE deleteImagesCommit(ImageManager, imMissing)
    <3>1. \A i \in imMissing : imageTag[i] # None
      BY <1>3, Undisturbed DEF DeleteImagesEnd
    <3> QED
      BY <1>3, <2>1, <3>1
      DEF DeleteImagesEnd, deleteImagesCommit, buildahVars, Bindings!Retire
  <2>2. CASE UNCHANGED storeVars
    BY <1>3, <2>2 DEF DeleteImagesEnd, storeVars, buildahVars, absVars
  <2> QED BY <1>3, <2>1, <2>2 DEF DeleteImagesEnd
<1>4. CASE CreateContainer
  <2>1. PICK c \in Containers : from(c, imNewID)
    BY <1>4 DEF CreateContainer
  <2>2. UNCHANGED <<storeVars, nsVars>>
    BY <1>4 DEF CreateContainer
  <2> QED BY <1>1, <2>1, <2>2
<1>5. CASE CreateContainerFails
  <2>1. UNCHANGED <<storeVars, nsVars>>
    BY <1>5 DEF CreateContainerFails, AbandonUpdate
  <2>2. CASE UNCHANGED buildahVars
    BY <2>1, <2>2 DEF storeVars, buildahVars, absVars
  <2>3. CASE \E c \in Containers : from(c, imNewID)
    BY <1>1, <2>1, <2>3
  <2> QED BY <1>5, <2>2, <2>3 DEF CreateContainerFails
<1>6. CASE UpdateImageCommit
  <2>1. imContainer = imageTag[imImage] /\ imImage \in Images
    BY <1>6, Undisturbed DEF UpdateImageCommit
  <2>2. imNew \in Containers /\ Bindings!Serve(imImage, imNew)
    BY <1>2, <1>6, <2>1
    DEF UpdateImageCommit, updateImageCommit, buildahVars, Bindings!Serve
  <2> QED BY <2>1, <2>2
<1>7. CASE UpdateImageSetFails
  <2>1. CASE rm({imNew})
    <3>1. imNew \in Containers /\ Bindings!Delete({imNew})
      BY <1>2, <1>7, <2>1
      DEF UpdateImageSetFails, AbandonUpdate, rm, storeVars, Bindings!Delete
    <3> QED BY <3>1
  <2>2. CASE UNCHANGED buildahVars
    BY <1>7, <2>2 DEF UpdateImageSetFails, AbandonUpdate, storeVars, buildahVars, absVars
  <2> QED BY <1>7, <2>1, <2>2 DEF UpdateImageSetFails
<1>8. CASE \/ ReadImages \/ DeleteImagesBegin \/ ListMountPoints \/ SkipImage
           \/ UpdateImageBegin \/ ReuseContainer \/ GiveUpContainer
           \/ MountNewContainer \/ MountNewContainerFails \/ UpdateImageCommitFails
  BY <1>8
  DEF ReadImages, DeleteImagesBegin, ListMountPoints, SkipImage, UpdateImageBegin,
      ReuseContainer, GiveUpContainer, MountNewContainer, MountNewContainerFails,
      UpdateImageCommitFails, AbandonUpdate, mountContainer, storeVars, buildahVars, absVars
<1> QED BY <1>3, <1>4, <1>5, <1>6, <1>7, <1>8 DEF IMNext

\* The cleaner forgets at its commit, and deletes what it has forgotten.
LEMMA CleanerImplements ==
  ASSUME IInv, ContainerCleanerStep
  PROVE  \/ Bindings!Forget(ccList)
         \/ \E c \in Containers : Bindings!Delete({c})
         \/ UNCHANGED absVars
<1> USE DEF ContainerCleanerStep, nsVars
<1>1. ccList \subseteq Containers
  BY DEF IInv, CoreInv, TypeOK, CleanerTypeOK
<1>2. CASE CleanCommit
  <2>1. ccList \subseteq toClean /\ \A c \in ccList, v \in Volumes : <<c, v>> \notin volumes
    BY <1>2, Undisturbed DEF CleanCommit, IInv, CoreInv, CleanerInv, Referred
  <2>2. volumes \subseteq Containers \X Volumes
    BY DEF IInv, CoreInv, TypeOK, StoreTypeOK
  <2>3. ccList \cap Bindings!Used = {}
    BY <2>1, <2>2 DEF Bindings!Used
  <2> QED
    BY <1>2, <2>1, <2>3
    DEF CleanCommit, getContainersToDeleteCommit, buildahVars, Bindings!Forget
<1>3. CASE DeleteContainer
  <2>1. PICK c \in ccList : CleanNext(c) /\ rm({c})
    BY <1>3 DEF DeleteContainer
  <2>2. c \notin mountPath \cup toClean \cup Tagged
    BY <2>1 DEF CleanNext, IInv, CoreInv, CleanerInv, Referred
  <2>3. Bindings!Delete({c})
    BY <1>1, <2>1, <2>2, UnknownContainer DEF CleanNext, rm, storeVars, Bindings!Delete
  <2> QED BY <1>1, <2>3
<1>4. CASE CleanBegin \/ CleanCommitFails \/ DeleteContainerFails
  BY <1>4
  DEF CleanBegin, CleanCommitFails, DeleteContainerFails, CleanNext, storeVars,
      buildahVars, absVars
<1> QED BY <1>2, <1>3, <1>4 DEF CCNext

\* The driver removes containers while its new store is empty; the restart of
\* the node unmounts the volumes.
LEMMA DriverImplements ==
  ASSUME IInv, Start \/ RemoveAllContainers \/ Crash \/ Reboot \/ WriteImagesFile
  PROVE  \/ \E S \in SUBSET Containers : Bindings!Delete(S)
         \/ Bindings!UnmountAll
         \/ UNCHANGED absVars
<1>1. CASE RemoveAllContainers
  <2>1. PICK S \in SUBSET ctrs : rm(S)
    BY <1>1 DEF RemoveAllContainers
  <2>2. Tagged = {} /\ toClean = {} /\ volumes = {}
    BY <1>1 DEF RemoveAllContainers, IInv, CoreInv, DriverInv
  <2>3. Bindings!Known = {}
    BY <2>2 DEF Tagged, Bindings!Known, Bindings!Served, Bindings!Used
  <2>4. S \in SUBSET Containers
    BY <2>1 DEF IInv, CoreInv, TypeOK, BuildahTypeOK
  <2>5. Bindings!Delete(S)
    BY <1>1, <2>1, <2>3 DEF RemoveAllContainers, rm, storeVars, nsVars, Bindings!Delete
  <2> QED BY <2>4, <2>5
<1>2. CASE Reboot
  BY <1>2 DEF Reboot, ProcessDies, storeVars, Bindings!UnmountAll
<1>3. CASE Start \/ Crash \/ WriteImagesFile
  BY <1>3
  DEF Start, Crash, ProcessDies, WriteImagesFile, storeVars, buildahVars, nsVars, absVars
<1> QED BY <1>1, <1>2, <1>3

LEMMA StepImplements ==
  IInv /\ VolumeInv /\ [Next]_vars => [Bindings!Next]_(Bindings!bindingVars)
<1> SUFFICES ASSUME IInv, VolumeInv, [Next]_vars
             PROVE  Bindings!Next \/ UNCHANGED absVars
  BY DEF Bindings!bindingVars, absVars
<1>1. CASE NodeServerStep
  <2>1. PICK k \in Calls :
          \/ \E v \in Volumes : NodePublishVolume(k, v) \/ NodeUnpublishVolume(k, v)
          \/ Handler(k)
    BY <1>1 DEF NodeServerStep, NSNext
  <2>2. CASE Handler(k)
    <3>1. CASE UNCHANGED absVars
      BY <3>1
    <3>2. CASE ~UNCHANGED absVars
      <4>1. pc[k] # "idle"
        BY <2>2
        DEF Handler, SelectCommit, CheckTarget, CheckSource, Mount, CleaningOnError,
            DropBegin, DropCommit, Return
      <4>2. vol[k] \in Volumes
        BY <4>1 DEF IInv, CoreInv, HandlerInv
      <4>3. Handler(k) => Bindings!Bind(vol[k]) \/ ctr[k] \in Containers
        <5>1. CASE SelectCommit(k) \/ Mount(k) \/ CleaningOnError(k) \/ DropCommit(k)
          BY <5>1
          DEF SelectCommit, Mount, CleaningOnError, DropCommit, IInv, CoreInv, HandlerInv
        <5>2. CASE CheckTarget(k) \/ CheckSource(k) \/ DropBegin(k) \/ Return(k)
          BY <3>2, <5>2
          DEF CheckTarget, CheckSource, DropBegin, Return, storeVars, buildahVars, absVars
        <5> QED BY <5>1, <5>2 DEF Handler
      <4> QED BY <2>2, <3>2, <4>2, <4>3, HandlerImplements DEF Bindings!Next
    <3> QED BY <3>1, <3>2
  <2> QED BY <2>1, <2>2, CallsImplement DEF Bindings!Next
<1>2. CASE ImageManagerStep
  <2>1. imMissing \in SUBSET Images
    BY DEF IInv, CoreInv, TypeOK, ImageManagerTypeOK
  <2>2. \A c \in Containers : {c} \in SUBSET Containers
    OBVIOUS
  <2> QED BY <1>2, <2>1, <2>2, ImageManagerImplements DEF Bindings!Next
<1>3. CASE ContainerCleanerStep
  <2>1. ccList \in SUBSET Containers
    BY DEF IInv, CoreInv, TypeOK, CleanerTypeOK
  <2>2. \A c \in Containers : {c} \in SUBSET Containers
    OBVIOUS
  <2> QED BY <1>3, <2>1, <2>2, CleanerImplements DEF Bindings!Next
<1>4. CASE Start \/ RemoveAllContainers \/ Crash \/ Reboot \/ WriteImagesFile
  BY <1>4, DriverImplements DEF Bindings!Next
<1>5. CASE UNCHANGED vars
  BY <1>5 DEF vars, storeVars, buildahVars, nsVars, absVars
<1> QED BY <1>1, <1>2, <1>3, <1>4, <1>5 DEF Next

LEMMA InitImplements == Init => Bindings!Init
BY ToolProviderAssumption
DEF Init, StoreEmpty, NSInit, HandlersIdle, Bindings!Init

\* The driver implements the abstract specification: transactions, locks,
\* rounds, failures and restarts amount to operations that happen at once.
THEOREM DriverImplementsBindings == Spec => ImplementsBindings
<1>1. Init => Bindings!Init
  BY InitImplements
<1>2. IInv /\ VolumeInv /\ [Next]_vars => [Bindings!Next]_(Bindings!bindingVars)
  BY StepImplements
<1> QED BY <1>1, <1>2, VolumeInvariant, PTL DEF Spec, Bindings!Spec, ImplementsBindings

------------------------------------------------------------------------------
Promise == INSTANCE VolumeBindingsProofs WITH
  exists  <- ctrs,
  current <- imageTag,
  retired <- toClean,
  users   <- volumes,
  target  <- volMount

\* The two instances are of one specification.
LEMMA PromiseOfBindings ==
  /\ Bindings!Init <=> Promise!Init
  /\ Bindings!TypeOK <=> Promise!TypeOK
  /\ KnownContainersExist <=> Promise!KnownContainersExist
  /\ [Bindings!Next]_(Bindings!bindingVars) <=> [Promise!Next]_(Promise!bindingVars)
  /\ Bindings!BindingsAssumption <=> Promise!BindingsAssumption
<1>1. Bindings!Init <=> Promise!Init
  BY DEF Bindings!Init, Promise!Init
<1>2. Bindings!TypeOK <=> Promise!TypeOK
  BY DEF Bindings!TypeOK, Promise!TypeOK
<1>3. KnownContainersExist <=> Promise!KnownContainersExist
  BY DEF KnownContainersExist, Bindings!KnownContainersExist, Promise!KnownContainersExist,
         Bindings!Known, Promise!Known, Bindings!Served, Promise!Served, Bindings!Used,
         Promise!Used
<1>4. [Bindings!Next]_(Bindings!bindingVars) <=> [Promise!Next]_(Promise!bindingVars)
  BY DEF Bindings!bindingVars, Promise!bindingVars, Bindings!Next, Promise!Next,
         Bindings!Bind, Promise!Bind, Bindings!Release, Promise!Release,
         Bindings!MountVolume, Promise!MountVolume, Bindings!UnmountVolume,
         Promise!UnmountVolume, Bindings!Create, Promise!Create, Bindings!Serve,
         Promise!Serve, Bindings!Retire, Promise!Retire, Bindings!Forget, Promise!Forget,
         Bindings!Delete, Promise!Delete, Bindings!UnmountAll, Promise!UnmountAll,
         Bindings!Known, Promise!Known, Bindings!Served, Promise!Served, Bindings!Used,
         Promise!Used
<1>5. Bindings!BindingsAssumption <=> Promise!BindingsAssumption
  BY DEF Bindings!BindingsAssumption, Promise!BindingsAssumption
<1> QED BY <1>1, <1>2, <1>3, <1>4, <1>5

\* What VolumeBindings promises holds for the driver, by the refinement.
LEMMA InitKept == Init => Bindings!TypeOK /\ KnownContainersExist
BY InitImplements, PromiseOfBindings, Promise!InitPromise

LEMMA StepKeeps ==
  ASSUME IInv, VolumeInv, Bindings!TypeOK, KnownContainersExist, [Next]_vars
  PROVE  Bindings!TypeOK' /\ KnownContainersExist'
<1>1. [Promise!Next]_(Promise!bindingVars)
  BY StepImplements, PromiseOfBindings
<1>2. Promise!BindingsAssumption
  BY NodeServerAssumption, ImageManagerAssumption DEF Promise!BindingsAssumption
<1>3. Promise!TypeOK' /\ Promise!KnownContainersExist'
  BY <1>1, <1>2, PromiseOfBindings, Promise!NextPromise
<1>4. Bindings!TypeOK'
  BY <1>3 DEF Bindings!TypeOK, Promise!TypeOK
<1>5. KnownContainersExist'
  BY <1>3
  DEF KnownContainersExist, Bindings!KnownContainersExist, Promise!KnownContainersExist,
      Bindings!Known, Promise!Known, Bindings!Served, Promise!Served, Bindings!Used,
      Promise!Used
<1> QED BY <1>4, <1>5

\* No container that an image, a retirement or a volume record leads to is ever
\* deleted, and a container in use is never lost to the cleaner.
THEOREM KnownExist == Spec => []KnownContainersExist
<1>1. IInv /\ VolumeInv /\ Bindings!TypeOK /\ KnownContainersExist /\ [Next]_vars
        => Bindings!TypeOK' /\ KnownContainersExist'
  BY StepKeeps
<1> QED BY InitKept, <1>1, VolumeInvariant, PTL DEF Spec
==============================================================================
