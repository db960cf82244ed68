-------------------------- MODULE ToolProviderProofs -------------------------
(***************************************************************************)
(* Proof that every step of ToolProvider preserves CoreInv, for any set of *)
(* calls, volumes, images and containers, and what a step may do to the    *)
(* containers that a tag or a volume record leads to.  Nothing here relies *)
(* on what only the undisturbed driver guarantees, so the environments of  *)
(* the driver (power losses, keys deleted by hand) rest on it as well.     *)
(***************************************************************************)
EXTENDS ToolProviderInvariants, TLAPS

\* The part of CoreInv about the handlers, which the steps of the others
\* disturb only through the transactions, and the part about the store and the
\* background goroutines, which the handlers disturb only when they commit.
HandlerSide == TxnTypeOK /\ HandlersTypeOK /\ HandlerInv /\ SelectInv

StoreSide == /\ StoreTypeOK /\ BuildahTypeOK /\ ImageManagerTypeOK /\ CleanerTypeOK
             /\ drv \in {"down", "clean", "up"} /\ storeExists \in BOOLEAN
             /\ ManagerInv /\ CleanerInv /\ KnownInv /\ DriverInv /\ TagsInv

LEMMA Sides == CoreInv <=> HandlerSide /\ StoreSide
BY DEF CoreInv, TypeOK, HandlerSide, StoreSide

LEMMA SidesNext == CoreInv' <=> HandlerSide' /\ StoreSide'
BY DEF CoreInv, TypeOK, HandlerSide, StoreSide

LEMMA Goroutines ==
  /\ Calls \subseteq Txns
  /\ ImageManager \in Txns \ Calls
  /\ ContainerCleaner \in Txns \ Calls
  /\ ImageManager # ContainerCleaner
BY ToolProviderAssumption

------------------------------------------------------------------------------
\* The transactions.

\* A step leaves the transactions of T open, and forgets no conflict of theirs.
Kept(T) == \A u \in T : reads'[u] = reads[u] /\ (~stale'[u] => ~stale[u])

\* A step of transaction t makes stale only those that have read one of the
\* keys W.
Touches(t, W) ==
  /\ Kept(Txns \ {t})
  /\ \A u \in Txns \ {t} : stale'[u] => stale[u] \/ reads[u] \cap W # {}

Ended(t) == reads'[t] = {} /\ ~stale'[t]

LEMMA CommitTouches ==
  ASSUME TxnTypeOK, NEW t \in Txns, NEW W, Commit(t, W)
  PROVE  /\ TxnTypeOK' /\ Touches(t, W) /\ Ended(t)
         /\ \A u \in Txns \ {t} : reads[u] \cap W # {} => stale'[u]
<1>1. /\ reads' = [reads EXCEPT ![t] = {}]
      /\ stale' = [u \in Txns |-> u # t /\ (stale[u] \/ reads[u] \cap W # {})]
  BY DEF Commit
<1>2. TxnTypeOK'
  BY <1>1 DEF TxnTypeOK
<1>3. \A u \in Txns : stale'[u] <=> u # t /\ (stale[u] \/ reads[u] \cap W # {})
  BY <1>1
<1> QED BY <1>1, <1>2, <1>3 DEF TxnTypeOK, Touches, Kept, Ended

LEMMA CommitFailsTouches ==
  ASSUME TxnTypeOK, NEW t \in Txns, NEW W, CommitFails(t, W)
  PROVE  TxnTypeOK' /\ Touches(t, W) /\ Ended(t)
<1>1. PICK noted \in {{}, IF hasConflict(t) THEN {} ELSE W} :
        stale' = [u \in Txns |-> u # t /\ (stale[u] \/ reads[u] \cap noted # {})]
  BY DEF CommitFails
<1>2. \A u \in Txns : reads[u] \cap noted # {} => reads[u] \cap W # {}
  OBVIOUS
<1>3. reads' = [reads EXCEPT ![t] = {}]
  BY DEF CommitFails
<1>4. \A u \in Txns : stale'[u] <=> u # t /\ (stale[u] \/ reads[u] \cap noted # {})
  BY <1>1
<1>5. TxnTypeOK'
  BY <1>1, <1>3 DEF TxnTypeOK
<1>6. Ended(t) /\ \A u \in Txns \ {t} : reads'[u] = reads[u]
  BY <1>3, <1>4 DEF TxnTypeOK, Ended
<1> QED BY <1>2, <1>4, <1>5, <1>6 DEF Touches, Kept

LEMMA DiscardTouches ==
  ASSUME TxnTypeOK, NEW t \in Txns, NEW W, Discard(t)
  PROVE  TxnTypeOK' /\ Touches(t, W) /\ Ended(t)
BY DEF TxnTypeOK, Discard, Touches, Kept, Ended

LEMMA NewTransactionTouches ==
  ASSUME TxnTypeOK, NEW t \in Txns, NEW R \in SUBSET Keys, NEW W, NewTransaction(t, R)
  PROVE  TxnTypeOK' /\ Touches(t, W) /\ reads'[t] = R /\ ~stale'[t]
BY DEF TxnTypeOK, NewTransaction, Touches, Kept

LEMMA UnchangedTouches ==
  ASSUME NEW t \in Txns, NEW W, UNCHANGED txnVars
  PROVE  Touches(t, W) /\ reads'[t] = reads[t] /\ stale'[t] = stale[t]
BY DEF txnVars, Touches, Kept

\* Keys of different families, or of different containers, are different.
LEMMA KeysDiffer ==
  ASSUME NEW a, NEW b, NEW d, NEW e
  PROVE  /\ containerForImage(a) = containerForImage(b) <=> a = b
         /\ mountPathForContainer(a) = mountPathForContainer(b) <=> a = b
         /\ catalogForContainer(a) = catalogForContainer(b) <=> a = b
         /\ containerToClean(a) = containerToClean(b) <=> a = b
         /\ containerForImage(a) \notin {mountPathForContainer(b), catalogForContainer(b),
              imageIDForContainer(b), containerForVolume(b), volumeOnContainer(b, d),
              containerToClean(b)}
         /\ mountPathForContainer(a) \notin {catalogForContainer(b),
              imageIDForContainer(b), containerForVolume(b), volumeOnContainer(b, d),
              containerToClean(b)}
         /\ catalogForContainer(a) \notin {imageIDForContainer(b), containerForVolume(b),
              volumeOnContainer(b, d), containerToClean(b)}
         /\ containerToClean(a) \notin {imageIDForContainer(b), containerForVolume(b),
              volumeOnContainer(b, d)}
<1>1. \A f, g, x, y : <<f, x>> = <<g, y>> <=> f = g /\ x = y
  OBVIOUS
<1>2. \A f, g, x, y, z : <<f, x>> # <<g, y, z>>
  OBVIOUS
<1> QED
  BY <1>1, <1>2
  DEF containerForImage, mountPathForContainer, catalogForContainer, imageIDForContainer,
      containerForVolume, volumeOnContainer, containerToClean

------------------------------------------------------------------------------
\* The keys that the transactions read are keys of the store.

LEMMA ReadsAreKeys ==
  ASSUME StoreTypeOK
  PROVE  /\ \A i \in Images : selectContainerForVolumeReads(i) \in SUBSET Keys
         /\ \A v \in Volumes : dropVolumeContainerOnUnmountReads(v) \in SUBSET Keys
         /\ deleteImagesReads \in SUBSET Keys
         /\ \A i \in Images, id \in ImageIDs : updateImageReads(i, id) \in SUBSET Keys
         /\ getContainersToDeleteReads \in SUBSET Keys
<1>1. /\ \A i \in Images : containerForImage(i) \in Keys
      /\ \A c \in Containers : /\ mountPathForContainer(c) \in Keys
                               /\ catalogForContainer(c) \in Keys
                               /\ containerToClean(c) \in Keys
      /\ \A v \in Volumes : containerForVolume(v) \in Keys
  BY DEF Keys
<1>2. \A i \in Images : imageTag[i] \in Containers \cup {None}
  BY DEF StoreTypeOK
<1>3. \A i \in Images : selectContainerForVolumeReads(i) \in SUBSET Keys
  BY <1>1, <1>2 DEF selectContainerForVolumeReads
<1>4. \A v \in Volumes : dropVolumeContainerOnUnmountReads(v) \in SUBSET Keys
  BY <1>1 DEF dropVolumeContainerOnUnmountReads
<1>5. deleteImagesReads \in SUBSET Keys
  BY <1>1 DEF deleteImagesReads
<1>6. \A i \in Images, id \in ImageIDs : updateImageReads(i, id) \in SUBSET Keys
  BY <1>1, <1>2 DEF updateImageReads
<1>7. getContainersToDeleteReads \in SUBSET Keys
  BY <1>1 DEF StoreTypeOK, getContainersToDeleteReads
<1> QED BY <1>3, <1>4, <1>5, <1>6, <1>7

------------------------------------------------------------------------------
\* The handlers commit keys of volumes, and a publish has read the tag and the
\* metadata of its container.

PublishKeys(k) == {containerForImage(ImageOf[vol[k]]), mountPathForContainer(ctr[k]),
                   catalogForContainer(ctr[k])}

HandlerTouches(k) ==
  /\ Touches(k, dropVolumeContainerWrites(vol[k], ctr[k]))
  /\ stale'[k] => stale[k]
  /\ pc'[k] = "select" => reads'[k] \subseteq PublishKeys(k)'
  /\ \A u \in Calls \ {k} : pc'[u] = pc[u] /\ vol'[u] = vol[u] /\ ctr'[u] = ctr[u]

HandlerStep(k) == \/ \E v \in Volumes : NodePublishVolume(k, v) \/ NodeUnpublishVolume(k, v)
                  \/ Handler(k)

LEMMA HandlersTouch ==
  ASSUME CoreInv, NEW k \in Calls, HandlerStep(k)
  PROVE  TxnTypeOK' /\ HandlerTouches(k)
<1>1. TxnTypeOK /\ HandlersTypeOK /\ StoreTypeOK /\ k \in Txns
  BY Goroutines DEF CoreInv, TypeOK
<1>2. ASSUME NEW v \in Volumes, NodePublishVolume(k, v)
      PROVE  TxnTypeOK' /\ HandlerTouches(k)
  <2>1. /\ vol' = [vol EXCEPT ![k] = v]
        /\ \A u \in Calls \ {k} : pc'[u] = pc[u] /\ vol'[u] = vol[u] /\ ctr'[u] = ctr[u]
    BY <1>1, <1>2 DEF HandlersTypeOK, NodePublishVolume, goto, selectFails
  <2>2. CASE NewTransaction(k, selectContainerForVolumeReads(ImageOf[v]))
               /\ ctr' = [ctr EXCEPT ![k] = imageTag[ImageOf[v]]]
    <3>1. selectContainerForVolumeReads(ImageOf[v]) \in SUBSET Keys
      BY <1>1, ReadsAreKeys, NodeServerAssumption
    <3>2. /\ TxnTypeOK' /\ Touches(k, dropVolumeContainerWrites(vol[k], ctr[k]))
          /\ reads'[k] = selectContainerForVolumeReads(ImageOf[v]) /\ ~stale'[k]
      BY <1>1, <2>2, <3>1, NewTransactionTouches
    <3>3. reads'[k] \subseteq PublishKeys(k)'
      BY <1>1, <2>1, <2>2, <3>2
      DEF HandlersTypeOK, selectContainerForVolumeReads, PublishKeys, containerForImage,
          mountPathForContainer, catalogForContainer
    <3> QED BY <2>1, <3>2, <3>3 DEF HandlerTouches
  <2>3. CASE Discard(k) /\ pc' = [pc EXCEPT ![k] = "reply"]
    BY <1>1, <2>1, <2>3, DiscardTouches DEF HandlersTypeOK, HandlerTouches, Ended
  <2> QED BY <1>2, <2>2, <2>3 DEF NodePublishVolume, selectFails, goto
<1>3. CASE SelectCommit(k) \/ CleaningOnError(k) \/ DropCommit(k)
  <2>1. /\ pc'[k] # "select" /\ UNCHANGED <<vol, ctr>>
        /\ \A u \in Calls \ {k} : pc'[u] = pc[u]
    BY <1>1, <1>3
    DEF HandlersTypeOK, SelectCommit, CleaningOnError, DropCommit, goto, selectFails
  <2>2. LET W == dropVolumeContainerWrites(vol[k], ctr[k])
        IN  Commit(k, W) \/ CommitFails(k, W)
    BY <1>3
    DEF SelectCommit, selectContainerForVolumeCommit, selectContainerForVolumeWrites,
        CleaningOnError, dropVolumeContainerOnMountError, DropCommit,
        dropVolumeContainerOnUnmountCommit, dropVolumeContainerWrites
  <2> QED BY <1>1, <2>1, <2>2, CommitTouches, CommitFailsTouches DEF HandlerTouches, Ended
<1>4. CASE DropBegin(k)
  <2>1. /\ pc'[k] # "select"
        /\ \A u \in Calls \ {k} : pc'[u] = pc[u] /\ vol'[u] = vol[u] /\ ctr'[u] = ctr[u]
    BY <1>1, <1>4 DEF HandlersTypeOK, DropBegin, goto
  <2>2. dropVolumeContainerOnUnmountReads(vol[k]) \in SUBSET Keys
    BY <1>1, <1>4, ReadsAreKeys DEF CoreInv, HandlerInv, DropBegin
  <2>3. CASE NewTransaction(k, dropVolumeContainerOnUnmountReads(vol[k]))
    BY <1>1, <2>1, <2>2, <2>3, NewTransactionTouches DEF HandlerTouches
  <2>4. CASE UNCHANGED txnVars
    BY <1>1, <2>1, <2>4, UnchangedTouches DEF HandlerTouches, TxnTypeOK, txnVars
  <2> QED BY <1>4, <2>3, <2>4 DEF DropBegin
<1>5. CASE \/ \E v \in Volumes : NodeUnpublishVolume(k, v)
           \/ CheckTarget(k) \/ CheckSource(k) \/ Mount(k) \/ Return(k)
  <2>1. /\ pc'[k] # "select" /\ UNCHANGED txnVars
        /\ \A u \in Calls \ {k} : pc'[u] = pc[u] /\ vol'[u] = vol[u] /\ ctr'[u] = ctr[u]
    BY <1>1, <1>5
    DEF HandlersTypeOK, NodeUnpublishVolume, CheckTarget, CheckSource, Mount, Return, goto
  <2> QED BY <1>1, <2>1, UnchangedTouches DEF HandlerTouches, TxnTypeOK, txnVars
<1> QED BY <1>2, <1>3, <1>4, <1>5 DEF HandlerStep, Handler

\* What the store and the background goroutines rely on, beside a handler: a
\* publish records its volume only on a container that a tag leads to.
LEMMA StoreFrame ==
  ASSUME StoreSide, drv = "up", StoreTypeOK',
         UNCHANGED <<imageTag, mountPath, toClean, buildahVars, imVars, ccVars, drvVars>>,
         Referred' \subseteq Referred,
         Kept({ImageManager, ContainerCleaner})
  PROVE  StoreSide'
<1>1. /\ ~stale'[ImageManager] => ~stale[ImageManager]
      /\ ~stale'[ContainerCleaner] => ~stale[ContainerCleaner]
      /\ reads'[ImageManager] = reads[ImageManager]
      /\ reads'[ContainerCleaner] = reads[ContainerCleaner]
  BY DEF Kept
<1>2. BuildahTypeOK' /\ ImageManagerTypeOK' /\ CleanerTypeOK' /\ DriverInv' /\ TagsInv'
  BY DEF StoreSide, BuildahTypeOK, ImageManagerTypeOK, CleanerTypeOK, DriverInv, TagsInv,
         buildahVars, imVars, ccVars, drvVars
<1>3. ManagerInv'
  BY <1>1 DEF StoreSide, ManagerInv, buildahVars, imVars, ccVars
<1>4. CleanerInv' /\ KnownInv'
  BY <1>1 DEF StoreSide, CleanerInv, KnownInv, buildahVars, ccVars
<1> QED BY <1>2, <1>3, <1>4 DEF StoreSide, drvVars

\* A handler leaves what the other handlers rely on.
LEMMA OtherHandlers ==
  ASSUME CoreInv, NEW k \in Calls, HandlerStep(k), UNCHANGED imageTag, pc'[k] # "select"
  PROVE  SelectInv'
<1>1. HandlerTouches(k)
  BY HandlersTouch
<1>2. \A u \in Calls \ {k} : /\ pc'[u] = pc[u] /\ vol'[u] = vol[u] /\ ctr'[u] = ctr[u]
                             /\ reads'[u] = reads[u] /\ (~stale'[u] => ~stale[u])
  BY <1>1, Goroutines DEF HandlerTouches, Touches, Kept
<1> QED BY <1>2 DEF CoreInv, SelectInv

\* A publish commits only when its container still serves its image, so that a
\* handler never makes the store refer to another container.
LEMMA HandlersKeepStore ==
  ASSUME CoreInv, drv = "up", NEW k \in Calls, HandlerStep(k),
         UNCHANGED <<imVars, ccVars, drvVars>>
  PROVE  /\ StoreSide'
         /\ UNCHANGED <<imageTag, mountPath, catalog, imageID, toClean, buildahVars>>
         /\ Referred' \subseteq Referred
<1>1. StoreSide /\ HandlerSide /\ StoreTypeOK
  BY Sides DEF StoreSide
<1>2. Kept({ImageManager, ContainerCleaner})
  BY HandlersTouch, Goroutines DEF HandlerTouches, Touches, Kept
<1>3. CASE SelectCommit(k) /\ selectContainerForVolumeCommit(k, vol[k], ctr[k])
  <2>1. ctr[k] \in Containers /\ vol[k] \in Volumes /\ ImageOf[vol[k]] \in Images
    BY <1>1, <1>3, NodeServerAssumption DEF HandlerSide, HandlerInv, SelectCommit
  <2>2. imageTag[ImageOf[vol[k]]] = ctr[k]
    BY <1>1, <1>3 DEF HandlerSide, SelectInv, SelectCommit, selectContainerForVolumeCommit,
               selectContainerForVolumeWrites, Commit, hasConflict
  <2>3. ctr[k] \in Tagged
    BY <2>1, <2>2, NodeServerAssumption DEF Tagged
  <2>4. /\ UNCHANGED <<imageTag, mountPath, catalog, imageID, toClean, buildahVars>>
        /\ volumes' = volumes \cup {<<ctr[k], vol[k]>>}
        /\ volumeContainer' = [volumeContainer EXCEPT ![vol[k]] = ctr[k]]
    BY <1>3 DEF SelectCommit, selectContainerForVolumeCommit
  <2>5. Referred' \subseteq Referred
    BY <2>3, <2>4 DEF Referred, Tagged
  <2>6. StoreTypeOK'
    BY <1>1, <2>1, <2>4 DEF StoreTypeOK
  <2> QED BY <1>1, <1>2, <2>4, <2>5, <2>6, StoreFrame
<1>4. CASE /\ UNCHANGED <<imageTag, mountPath, catalog, imageID, toClean, buildahVars>>
           /\ volumes' \subseteq volumes
           /\ volumeContainer' \in [Volumes -> Containers \cup {None}]
  <2>1. Referred' \subseteq Referred /\ StoreTypeOK'
    BY <1>1, <1>4 DEF Referred, Tagged, StoreTypeOK
  <2> QED BY <1>1, <1>2, <1>4, <2>1, StoreFrame
<1>5. CASE CleaningOnError(k) \/ DropCommit(k)
  <2>1. /\ UNCHANGED <<imageTag, mountPath, catalog, imageID, toClean, buildahVars>>
        /\ volumes' \subseteq volumes
        /\ volumeContainer' \in [Volumes -> Containers \cup {None}]
    BY <1>1, <1>5 DEF StoreTypeOK, CleaningOnError, DropCommit, storeVars,
                  dropVolumeContainerOnMountError, dropVolumeContainerOnUnmountCommit
  <2> QED BY <1>4, <2>1
<1>6. CASE UNCHANGED <<storeVars, buildahVars>>
  <2>1. volumeContainer' \in [Volumes -> Containers \cup {None}] /\ volumes' \subseteq volumes
    BY <1>1, <1>6 DEF StoreTypeOK, storeVars
  <2> QED BY <1>4, <1>6, <2>1 DEF storeVars
<1> QED
  BY <1>3, <1>5, <1>6
  DEF HandlerStep, Handler, NodePublishVolume, NodeUnpublishVolume, SelectCommit, selectFails,
      CheckTarget, CheckSource, Mount, DropBegin, Return

LEMMA HandlersKeepTypes ==
  ASSUME CoreInv, NEW k \in Calls, HandlerStep(k)
  PROVE  HandlersTypeOK' /\ HandlerInv'
<1>1. HandlersTypeOK /\ HandlerInv /\ StoreTypeOK
  BY DEF CoreInv, TypeOK
<1>2. ASSUME NEW v \in Volumes, NodePublishVolume(k, v)
      PROVE  HandlersTypeOK' /\ HandlerInv'
  <2>1. HandlersTypeOK'
    BY <1>1, <1>2, NodeServerAssumption
    DEF HandlersTypeOK, StoreTypeOK, NodePublishVolume, lock, selectContainerForVolumeFinds,
        selectFails, goto, answer, selectStatus, PCs, Errs, Codes
  <2>2. HandlerInv'
    BY <1>1, <1>2, NodeServerAssumption
    DEF HandlersTypeOK, StoreTypeOK, HandlerInv, NodePublishVolume,
        selectContainerForVolumeFinds, selectFails, goto
  <2> QED BY <2>1, <2>2
<1>3. ASSUME NEW v \in Volumes, NodeUnpublishVolume(k, v)
      PROVE  HandlersTypeOK' /\ HandlerInv'
  BY <1>1, <1>3, NodeServerAssumption
  DEF HandlersTypeOK, HandlerInv, NodeUnpublishVolume, lock, goto, PCs
<1>4. CASE SelectCommit(k)
  BY <1>1, <1>4
  DEF HandlersTypeOK, HandlerInv, SelectCommit, selectFails, goto, answer, selectStatus,
      PCs, Errs, Codes
<1>5. CASE CheckTarget(k) \/ CheckSource(k)
  BY <1>1, <1>5
  DEF HandlersTypeOK, HandlerInv, CheckTarget, CheckSource, goto, answer, PCs, Codes
<1>6. CASE Mount(k)
  BY <1>1, <1>6 DEF HandlersTypeOK, HandlerInv, Mount, goto, answer, PCs, Codes
<1>7. CASE CleaningOnError(k) \/ DropCommit(k)
  BY <1>1, <1>7
  DEF HandlersTypeOK, HandlerInv, CleaningOnError, DropCommit, goto, answer, PCs, Codes
<1>8. CASE DropBegin(k)
  BY <1>1, <1>8
  DEF HandlersTypeOK, StoreTypeOK, HandlerInv, DropBegin, goto, answer, PCs, Codes
<1>9. CASE Return(k)
  BY <1>1, <1>9, NodeServerAssumption
  DEF HandlersTypeOK, HandlerInv, Return, unlock, goto, answer, PCs, Errs, Codes
<1> QED BY <1>2, <1>3, <1>4, <1>5, <1>6, <1>7, <1>8, <1>9 DEF HandlerStep, Handler

LEMMA HandlersKeepSelect ==
  ASSUME CoreInv, NEW k \in Calls, HandlerStep(k), UNCHANGED imageTag
  PROVE  SelectInv'
<1>1. HandlersTypeOK /\ StoreTypeOK /\ TxnTypeOK
  BY DEF CoreInv, TypeOK
<1>2. ASSUME NEW v \in Volumes, NodePublishVolume(k, v), pc'[k] = "select"
      PROVE  SelectInv'
  <2>1. /\ NewTransaction(k, selectContainerForVolumeReads(ImageOf[v]))
        /\ vol' = [vol EXCEPT ![k] = v]
        /\ ctr' = [ctr EXCEPT ![k] = imageTag[ImageOf[v]]]
        /\ pc' = [pc EXCEPT ![k] = "select"]
    BY <1>1, <1>2 DEF HandlersTypeOK, NodePublishVolume, selectFails, goto
  <2> QED
    BY <1>1, <2>1, Goroutines
    DEF HandlersTypeOK, TxnTypeOK, CoreInv, SelectInv, NewTransaction,
        selectContainerForVolumeReads
<1>3. pc'[k] # "select" \/ \E v \in Volumes : NodePublishVolume(k, v)
  BY <1>1
  DEF HandlersTypeOK, HandlerStep, Handler, NodeUnpublishVolume, SelectCommit, selectFails,
      CheckTarget, CheckSource, Mount, CleaningOnError, DropBegin, DropCommit, Return, goto
<1> QED BY <1>2, <1>3, OtherHandlers

LEMMA NodeServerPreserves ==
  ASSUME CoreInv, NodeServerStep
  PROVE  CoreInv'
<1>1. PICK k \in Calls : HandlerStep(k)
  BY DEF NodeServerStep, NSNext, HandlerStep
<1>2. drv = "up" /\ UNCHANGED <<imVars, ccVars, drvVars>>
  BY DEF NodeServerStep
<1>3. StoreSide' /\ UNCHANGED imageTag
  BY <1>1, <1>2, HandlersKeepStore
<1> QED
  BY <1>1, <1>3, HandlersTouch, HandlersKeepTypes, HandlersKeepSelect, SidesNext
  DEF HandlerSide

------------------------------------------------------------------------------
\* The image manager.

\* A step beside the handlers keeps what they rely on when every tag it
\* changes is among the keys it commits.
LEMMA HandlerFrame ==
  ASSUME HandlerSide, UNCHANGED nsVars, TxnTypeOK', Kept(Calls),
         \A u \in Calls, i \in Images :
           imageTag'[i] # imageTag[i] /\ containerForImage(i) \in reads[u] => stale'[u]
  PROVE  HandlerSide'
<1>1. HandlersTypeOK' /\ HandlerInv'
  BY DEF HandlerSide, HandlersTypeOK, HandlerInv, nsVars
<1>2. SelectInv'
  <2>1. SUFFICES ASSUME NEW u \in Calls, pc[u] = "select"
                 PROVE  /\ containerForImage(ImageOf[vol[u]]) \in reads[u]
                        /\ ~stale'[u] => imageTag'[ImageOf[vol[u]]] = ctr[u]
    BY DEF SelectInv, Kept, nsVars
  <2>2. ImageOf[vol[u]] \in Images
    BY <2>1, NodeServerAssumption DEF HandlerSide, HandlerInv
  <2> QED BY <2>1, <2>2 DEF HandlerSide, SelectInv, Kept
<1> QED BY <1>1, <1>2 DEF HandlerSide

LEMMA PulledIsImageID ==
  ASSUME ImageManagerTypeOK
  PROVE  \A i \in Images : imImages[i] # None => pulled(imImages[i]) \subseteq ImageIDs
BY ImageManagerAssumption DEF ImageManagerTypeOK, ImagesFiles, NoImages, pulled

\* A step of the manager that leaves the store alone, and of the containers
\* creates or removes at most one that nobody knows.
LEMMA ManagerFrame ==
  ASSUME CoreInv, drv = "up", UNCHANGED <<storeVars, nsVars, ccVars, drvVars>>,
         TxnTypeOK', Kept(Txns \ {ImageManager}),
         ImageManagerTypeOK', ManagerInv', BuildahTypeOK',
         \A c \in Containers : ctrImage[c] # None => ctrImage'[c] # None,
         \A c \in ctrs' : ctrImage'[c] # None
  PROVE  CoreInv'
<1>1. StoreSide /\ HandlerSide
  BY Sides
<1>2. HandlerSide'
  BY <1>1, HandlerFrame, Goroutines DEF Kept, storeVars
<1>3. Referred' = Referred /\ Tagged' = Tagged /\ Referred \subseteq Containers
  BY <1>1 DEF StoreSide, StoreTypeOK, Referred, Tagged, storeVars
<1>4. KnownInv'
  BY <1>1, <1>3 DEF StoreSide, StoreTypeOK, CleanerTypeOK, KnownInv, storeVars, ccVars
<1>5. CleanerInv'
  BY <1>1, <1>3, Goroutines DEF StoreSide, CleanerInv, Kept, storeVars, ccVars
<1>6. StoreSide'
  BY <1>1, <1>3, <1>4, <1>5
  DEF StoreSide, StoreTypeOK, CleanerTypeOK, DriverInv, TagsInv, storeVars, ccVars, drvVars
<1> QED BY <1>2, <1>6, SidesNext

\* What the manager's transactions leave the others.
LEMMA BeginRound ==
  ASSUME CoreInv, DeleteImagesBegin
  PROVE  /\ TxnTypeOK' /\ Touches(ImageManager, {})
         /\ reads'[ImageManager] = deleteImagesReads /\ ~stale'[ImageManager]
<1>1. deleteImagesReads \in SUBSET Keys
  BY ReadsAreKeys DEF CoreInv, TypeOK
<1> QED
  BY <1>1, NewTransactionTouches, Goroutines DEF CoreInv, TypeOK, DeleteImagesBegin

LEMMA BeginUpdate ==
  ASSUME CoreInv, UpdateImageBegin
  PROVE  /\ TxnTypeOK' /\ Touches(ImageManager, {})
         /\ imImage' \in Images /\ imNewID' \in ImageIDs
         /\ imContainer' = imageTag[imImage']
         /\ reads'[ImageManager] = updateImageReads(imImage', imNewID')
         /\ ~stale'[ImageManager]
         /\ imPc' \in {"reuse", "create"}
         /\ UNCHANGED imNew
<1>1. PICK i \in imTodo : \E id \in pulled(imImages[i]) :
        /\ NewTransaction(ImageManager, updateImageReads(i, id))
        /\ imImage' = i /\ imNewID' = id /\ imContainer' = imageTag[i]
        /\ imPc' \in {"reuse", "create"} /\ UNCHANGED imNew
  BY DEF UpdateImageBegin
<1>2. PICK id \in pulled(imImages[i]) :
        /\ NewTransaction(ImageManager, updateImageReads(i, id))
        /\ imImage' = i /\ imNewID' = id /\ imContainer' = imageTag[i]
        /\ imPc' \in {"reuse", "create"} /\ UNCHANGED imNew
  BY <1>1
<1>3. i \in Images /\ id \in ImageIDs
  BY <1>1, <1>2, PulledIsImageID
  DEF CoreInv, TypeOK, ImageManagerTypeOK, ManagerInv, UpdateImageBegin
<1>4. updateImageReads(i, id) \in SUBSET Keys
  BY <1>3, ReadsAreKeys DEF CoreInv, TypeOK
<1>5. /\ TxnTypeOK' /\ Touches(ImageManager, {})
      /\ reads'[ImageManager] = updateImageReads(i, id) /\ ~stale'[ImageManager]
  BY <1>2, <1>4, NewTransactionTouches, Goroutines DEF CoreInv, TypeOK
<1> QED BY <1>2, <1>3, <1>5

\* A step that changes neither the store nor a container.
LEMMA QuietStepsPreserve ==
  ASSUME CoreInv, drv = "up", UNCHANGED <<nsVars, ccVars, drvVars>>,
         ReadImages \/ DeleteImagesBegin \/ ListMountPoints \/ SkipImage
           \/ UpdateImageBegin \/ GiveUpContainer
  PROVE  CoreInv'
<1>1. /\ TxnTypeOK /\ StoreTypeOK /\ BuildahTypeOK /\ ImageManagerTypeOK
      /\ ManagerInv /\ KnownInv /\ ImageManager \in Txns
  BY Goroutines DEF CoreInv, TypeOK
<1>2. UNCHANGED <<storeVars, buildahVars>>
  BY DEF ReadImages, DeleteImagesBegin, ListMountPoints, SkipImage, UpdateImageBegin,
         GiveUpContainer
<1>3. TxnTypeOK' /\ Kept(Txns \ {ImageManager})
  <2>1. CASE UNCHANGED txnVars
    BY <1>1, <2>1 DEF TxnTypeOK, Kept, txnVars
  <2> QED
    BY <2>1, BeginRound, BeginUpdate
    DEF Touches, ReadImages, ListMountPoints, SkipImage, GiveUpContainer
<1>4. ImageManagerTypeOK' /\ ManagerInv'
  <2>1. CASE ReadImages
    BY <1>1, <2>1 DEF ImageManagerTypeOK, ManagerInv, ReadImages, imUpdate, IMPCs
  <2>2. CASE DeleteImagesBegin
    <3>1. ImageManagerTypeOK'
      BY <1>1, <2>2 DEF ImageManagerTypeOK, DeleteImagesBegin, imagesMissingFrom, imUpdate, IMPCs
    <3>2. ManagerInv'
      BY <1>1, <2>2, BeginRound
      DEF ManagerInv, DeleteImagesBegin, deleteImagesReads, imagesMissingFrom, storeVars
    <3> QED BY <3>1, <3>2
  <2>3. CASE ListMountPoints
    BY <1>1, <2>3
    DEF ImageManagerTypeOK, ManagerInv, BuildahTypeOK, ListMountPoints, imUpdate, IMPCs
  <2>4. CASE SkipImage
    BY <1>1, <2>4 DEF ImageManagerTypeOK, ManagerInv, SkipImage, NextImage, IMPCs
  <2>5. CASE UpdateImageBegin
    <3>1. ImageManagerTypeOK'
      BY <1>1, <2>5, BeginUpdate
      DEF StoreTypeOK, ImageManagerTypeOK, UpdateImageBegin, IMPCs
    <3>2. ManagerInv'
      BY <1>1, <2>5, BeginUpdate
      DEF ManagerInv, UpdateImageBegin, updateImageReads, storeVars
    <3> QED BY <3>1, <3>2
  <2>6. CASE GiveUpContainer
    BY <1>1, <2>6
    DEF ImageManagerTypeOK, ManagerInv, GiveUpContainer, imUpdate, txnVars, storeVars, IMPCs
  <2> QED BY <2>1, <2>2, <2>3, <2>4, <2>5, <2>6
<1>5. BuildahTypeOK' /\ UNCHANGED <<ctrs, ctrImage>>
  BY <1>1, <1>2 DEF BuildahTypeOK, buildahVars
<1> QED BY <1>1, <1>2, <1>3, <1>4, <1>5, ManagerFrame DEF KnownInv

LEMMA DeleteImagesEndPreserves ==
  ASSUME CoreInv, drv = "up", DeleteImagesEnd, UNCHANGED <<nsVars, ccVars, drvVars>>
  PROVE  CoreInv'
<1>1. StoreSide /\ HandlerSide /\ TxnTypeOK
  BY Sides DEF HandlerSide
<1>2. ImageManagerTypeOK' /\ imMissing' = {} /\ imPc' = "list" /\ UNCHANGED buildahVars
  BY <1>1 DEF StoreSide, ImageManagerTypeOK, DeleteImagesEnd, imUpdate, IMPCs
<1>3. ManagerInv' /\ BuildahTypeOK'
  BY <1>1, <1>2 DEF StoreSide, ManagerInv, BuildahTypeOK, buildahVars
<1>4. CASE deleteImagesCommit(ImageManager, imMissing)
  <2>1. /\ TxnTypeOK' /\ Kept(Txns \ {ImageManager})
        /\ \A u \in Calls, i \in imMissing : containerForImage(i) \in reads[u] => stale'[u]
    <3>1. Commit(ImageManager, deleteImagesWrites(imMissing))
      BY <1>4 DEF deleteImagesCommit
    <3>2. /\ TxnTypeOK' /\ Touches(ImageManager, deleteImagesWrites(imMissing))
          /\ \A u \in Txns \ {ImageManager} :
               reads[u] \cap deleteImagesWrites(imMissing) # {} => stale'[u]
      BY <1>1, <3>1, CommitTouches, Goroutines
    <3>3. \A i \in imMissing : containerForImage(i) \in deleteImagesWrites(imMissing)
      BY DEF deleteImagesWrites
    <3> QED BY <3>2, <3>3, Goroutines DEF Touches
  <2>2. imMissing \subseteq Images /\ \A i \in imMissing : imageTag[i] # None
    BY <1>1, <1>4
    DEF StoreSide, ImageManagerTypeOK, ManagerInv, DeleteImagesEnd, deleteImagesCommit,
        deleteImagesWrites, Commit, hasConflict
  <2>3. /\ \A i \in Images : imageTag'[i] = IF i \in imMissing THEN None ELSE imageTag[i]
        /\ UNCHANGED <<mountPath, catalog, imageID, volumeContainer, volumes>>
        /\ toClean' = toClean \cup {imageTag[i] : i \in imMissing}
    BY <1>4 DEF deleteImagesCommit
  <2>4. HandlerSide'
    <3>1. Kept(Calls)
      BY <2>1, Goroutines DEF Kept
    <3> QED BY <1>1, <2>1, <2>3, <3>1, HandlerFrame
  <2>5. toClean' \subseteq toClean \cup Tagged /\ Tagged' \subseteq Tagged
        /\ Referred' \subseteq Referred
    BY <2>2, <2>3 DEF Tagged, Referred
  <2>6. StoreTypeOK'
    BY <1>1, <1>4, <2>2, <2>5 DEF StoreSide, StoreTypeOK, deleteImagesCommit, Tagged
  <2>7. TagsInv'
    BY <1>1, <2>2, <2>3 DEF StoreSide, TagsInv
  <2>8. CleanerInv' /\ KnownInv'
    BY <1>1, <1>2, <2>1, <2>3, <2>5, Goroutines
    DEF StoreSide, CleanerInv, KnownInv, Kept, Referred, buildahVars, ccVars
  <2>9. StoreSide'
    BY <1>1, <1>2, <1>3, <2>3, <2>5, <2>6, <2>7, <2>8
    DEF StoreSide, CleanerTypeOK, DriverInv, ccVars, drvVars
  <2> QED BY <2>4, <2>9, SidesNext
<1>5. CASE CommitFails(ImageManager, deleteImagesWrites(imMissing)) /\ UNCHANGED storeVars
  <2>1. TxnTypeOK' /\ Kept(Txns \ {ImageManager})
    BY <1>1, <1>5, CommitFailsTouches, Goroutines DEF Touches
  <2> QED
    BY <1>1, <1>2, <1>3, <1>5, <2>1, ManagerFrame DEF StoreSide, KnownInv, buildahVars
<1> QED BY <1>4, <1>5 DEF DeleteImagesEnd

LEMMA ReuseContainerPreserves ==
  ASSUME CoreInv, drv = "up", ReuseContainer, UNCHANGED <<nsVars, ccVars, drvVars>>
  PROVE  CoreInv'
<1>1. StoreSide /\ TxnTypeOK
  BY Sides DEF HandlerSide
<1>2. TxnTypeOK' /\ Kept(Txns \ {ImageManager})
  BY <1>1, CommitTouches, Goroutines DEF ReuseContainer, Touches
<1>3. ImageManagerTypeOK' /\ ManagerInv'
  BY <1>1 DEF StoreSide, ImageManagerTypeOK, ManagerInv, ReuseContainer, NextImage, IMPCs
<1>4. BuildahTypeOK' /\ UNCHANGED <<ctrs, ctrImage>>
  BY <1>1 DEF StoreSide, BuildahTypeOK, ReuseContainer, mountContainer, buildahVars
<1> QED BY <1>1, <1>2, <1>3, <1>4, ManagerFrame DEF StoreSide, KnownInv, ReuseContainer

\* The identifier of a new container is one that nothing mentions.
LEMMA CreateContainerPreserves ==
  ASSUME CoreInv, drv = "up", CreateContainer, UNCHANGED <<nsVars, ccVars, drvVars>>
  PROVE  CoreInv'
<1>1. StoreSide /\ TxnTypeOK
  BY Sides DEF HandlerSide
<1>2. PICK c \in Containers : from(c, imNewID) /\ imNew' = c
  BY DEF CreateContainer
<1>3. /\ ctrImage[c] = None /\ ctrs' = ctrs \cup {c} /\ mounted' = mounted
      /\ ctrImage' = [ctrImage EXCEPT ![c] = imNewID]
      /\ imNewID \in ImageIDs
  BY <1>1, <1>2 DEF from, StoreSide, ManagerInv, CreateContainer
<1>4. c \notin ctrs \cup mountPath \cup toClean \cup ccList \cup Referred
  BY <1>1, <1>3 DEF StoreSide, KnownInv
<1>5. BuildahTypeOK' /\ \A d \in Containers : ctrImage[d] # None => ctrImage'[d] # None
  BY <1>1, <1>3, ImageManagerAssumption DEF StoreSide, BuildahTypeOK
<1>6. \A d \in ctrs' : ctrImage'[d] # None
  BY <1>1, <1>3, ImageManagerAssumption DEF StoreSide, BuildahTypeOK, KnownInv
<1>7. ImageManagerTypeOK'
  BY <1>1, <1>2 DEF StoreSide, ImageManagerTypeOK, CreateContainer, IMPCs
<1>8. ManagerInv'
  BY <1>1, <1>2, <1>3, <1>4
  DEF StoreSide, ManagerInv, CreateContainer, Referred, Tagged, txnVars, storeVars, ccVars
<1>9. TxnTypeOK' /\ Kept(Txns \ {ImageManager})
  BY <1>1 DEF TxnTypeOK, Kept, CreateContainer, txnVars
<1> QED BY <1>1, <1>3, <1>5, <1>6, <1>7, <1>8, <1>9, ManagerFrame DEF CreateContainer

LEMMA MountNewContainerPreserves ==
  ASSUME CoreInv, drv = "up", MountNewContainer, UNCHANGED <<nsVars, ccVars, drvVars>>
  PROVE  CoreInv'
<1>1. StoreSide /\ TxnTypeOK
  BY Sides DEF HandlerSide
<1>2. TxnTypeOK' /\ Kept(Txns \ {ImageManager})
  BY <1>1 DEF TxnTypeOK, Kept, MountNewContainer, txnVars
<1>3. BuildahTypeOK' /\ UNCHANGED <<ctrs, ctrImage>>
  BY <1>1 DEF StoreSide, BuildahTypeOK, MountNewContainer, mountContainer
<1>4. ImageManagerTypeOK' /\ ManagerInv'
  BY <1>1, <1>3
  DEF StoreSide, ImageManagerTypeOK, ManagerInv, MountNewContainer, imUpdate, IMPCs, Referred,
      Tagged, txnVars, storeVars, ccVars
<1> QED BY <1>1, <1>2, <1>3, <1>4, ManagerFrame DEF StoreSide, KnownInv, MountNewContainer

\* The error returns of updateImage.
Abandons == \/ CreateContainerFails \/ MountNewContainerFails
            \/ UpdateImageCommitFails \/ UpdateImageSetFails

LEMMA AbandonPreserves ==
  ASSUME CoreInv, drv = "up", UNCHANGED <<nsVars, ccVars, drvVars>>, Abandons
  PROVE  CoreInv'
<1>1. StoreSide /\ TxnTypeOK
  BY Sides DEF HandlerSide
<1>2. NextImage(imImage) /\ UNCHANGED storeVars
  BY DEF Abandons, CreateContainerFails, MountNewContainerFails, UpdateImageCommitFails,
         UpdateImageSetFails, AbandonUpdate
<1>3. TxnTypeOK' /\ Kept(Txns \ {ImageManager})
  <2>1. CASE Discard(ImageManager)
    BY <1>1, <2>1, DiscardTouches, Goroutines DEF Touches
  <2>2. CASE UpdateImageCommitFails
    BY <1>1, <2>2, CommitFailsTouches, Goroutines DEF UpdateImageCommitFails, Touches
  <2> QED BY <2>1, <2>2 DEF Abandons, CreateContainerFails, MountNewContainerFails,
                            UpdateImageSetFails, AbandonUpdate
<1>4. imPc \in {"create", "mount", "commit"} /\ imNewID \in ImageIDs
  BY <1>1 DEF StoreSide, ManagerInv, Abandons, CreateContainerFails, MountNewContainerFails,
              UpdateImageCommitFails, UpdateImageSetFails
<1>5. ImageManagerTypeOK' /\ ManagerInv'
  BY <1>1, <1>2, <1>4 DEF StoreSide, ImageManagerTypeOK, ManagerInv, NextImage, IMPCs
<1>6. /\ BuildahTypeOK'
      /\ \A c \in Containers : ctrImage[c] # None => ctrImage'[c] # None
      /\ \A c \in ctrs' : ctrImage'[c] # None
  <2>1. CASE UNCHANGED buildahVars
    BY <1>1, <2>1 DEF StoreSide, BuildahTypeOK, KnownInv, buildahVars
  <2>2. CASE \E c \in Containers : from(c, imNewID)
    BY <1>1, <1>4, <2>2, ImageManagerAssumption DEF StoreSide, BuildahTypeOK, KnownInv, from
  <2>3. CASE rm({imNew})
    BY <1>1, <2>3 DEF StoreSide, BuildahTypeOK, KnownInv, rm
  <2> QED BY <2>1, <2>2, <2>3
          DEF Abandons, CreateContainerFails, MountNewContainerFails, UpdateImageCommitFails,
              UpdateImageSetFails
<1> QED BY <1>2, <1>3, <1>5, <1>6, ManagerFrame

\* The new container replaces the old one, which is marked for cleaning.
LEMMA UpdateImageCommitPreserves ==
  ASSUME CoreInv, drv = "up", UpdateImageCommit, UNCHANGED <<nsVars, ccVars, drvVars>>
  PROVE  CoreInv'
<1>1. StoreSide /\ HandlerSide /\ TxnTypeOK
  BY Sides DEF HandlerSide
<1>2. Commit(ImageManager, updateImageWrites(imImage, imContainer, imNew))
  BY DEF UpdateImageCommit, updateImageCommit
<1>3. containerForImage(imImage) \in updateImageWrites(imImage, imContainer, imNew)
  BY DEF updateImageWrites
<1>4. /\ imImage \in Images
      /\ imContainer = imageTag[imImage]
      /\ imNew \in ctrs
      /\ imNew \notin mountPath \cup toClean \cup ccList \cup Referred
  BY <1>1, <1>2, <1>3 DEF StoreSide, ManagerInv, UpdateImageCommit, Commit, hasConflict
<1>5. imNew \in Containers /\ imNew # None
  BY <1>1, <1>4, ImageManagerAssumption DEF StoreSide, BuildahTypeOK
<1>6. \A i \in Images : imageTag'[i] = IF i = imImage THEN imNew ELSE imageTag[i]
  BY <1>1, <1>4 DEF StoreSide, StoreTypeOK, UpdateImageCommit, updateImageCommit
<1>7. /\ TxnTypeOK' /\ Kept(Txns \ {ImageManager})
      /\ \A u \in Txns \ {ImageManager} : containerForImage(imImage) \in reads[u] => stale'[u]
  BY <1>1, <1>2, <1>3, CommitTouches, Goroutines DEF Touches
<1>8. HandlerSide'
  <2>1. Kept(Calls)
    BY <1>7, Goroutines DEF Kept
  <2> QED BY <1>1, <1>6, <1>7, <2>1, HandlerFrame, Goroutines
<1>9. /\ mountPath' = mountPath \cup {imNew}
      /\ catalog' = catalog \cup {imNew}
      /\ imageID' = imageID \cup {imNew}
      /\ toClean' = IF imContainer = None THEN toClean ELSE toClean \cup {imContainer}
      /\ UNCHANGED <<volumeContainer, volumes, buildahVars>>
  BY DEF UpdateImageCommit, updateImageCommit
<1>10. imContainer # None => imContainer \in Referred /\ imContainer \in Containers
  BY <1>1, <1>4 DEF StoreSide, StoreTypeOK, Referred, Tagged
<1>11. Referred' \subseteq Referred \cup {imNew}
  BY <1>6, <1>9 DEF Referred, Tagged
<1>12. StoreTypeOK'
  BY <1>1, <1>5, <1>9, <1>10 DEF StoreSide, StoreTypeOK, UpdateImageCommit, updateImageCommit
<1>13. ImageManagerTypeOK' /\ ManagerInv'
  BY <1>1 DEF StoreSide, ImageManagerTypeOK, ManagerInv, UpdateImageCommit, NextImage, IMPCs
<1>14. TagsInv'
  <2>1. \A i \in Images : imageTag[i] # None => imageTag[i] \in Referred
    BY DEF Referred, Tagged
  <2> QED BY <1>1, <1>4, <1>5, <1>6, <1>9, <2>1 DEF StoreSide, TagsInv
<1>15. CleanerInv'
  BY <1>1, <1>4, <1>7, <1>9, <1>10, <1>11, Goroutines DEF StoreSide, CleanerInv, Kept, ccVars
<1>16. KnownInv'
  BY <1>1, <1>4, <1>9, <1>10, <1>11 DEF StoreSide, KnownInv, buildahVars, ccVars
<1>17. StoreSide'
  BY <1>1, <1>9, <1>12, <1>13, <1>14, <1>15, <1>16
  DEF StoreSide, BuildahTypeOK, CleanerTypeOK, DriverInv, buildahVars, nsVars, ccVars, drvVars
<1> QED BY <1>8, <1>17, SidesNext

LEMMA ImageManagerPreserves ==
  ASSUME CoreInv, ImageManagerStep
  PROVE  CoreInv'
BY QuietStepsPreserve, DeleteImagesEndPreserves, ReuseContainerPreserves,
   CreateContainerPreserves, MountNewContainerPreserves, AbandonPreserves,
   UpdateImageCommitPreserves
   DEF ImageManagerStep, IMNext, Abandons

------------------------------------------------------------------------------
\* The container cleaner.

LEMMA CleanerPreserves ==
  ASSUME CoreInv, ContainerCleanerStep
  PROVE  CoreInv'
<1>1. /\ StoreSide /\ HandlerSide /\ TxnTypeOK
      /\ drv = "up" /\ UNCHANGED <<nsVars, imVars, drvVars>>
  BY Sides DEF HandlerSide, ContainerCleanerStep
<1>2. /\ ImageManagerTypeOK' /\ DriverInv'
      /\ drv' \in {"down", "clean", "up"} /\ storeExists' \in BOOLEAN
  BY <1>1 DEF StoreSide, ImageManagerTypeOK, DriverInv, imVars, drvVars
<1>3. TxnTypeOK' /\ Kept(Txns \ {ContainerCleaner})
  <2>1. getContainersToDeleteReads \in SUBSET Keys
    BY <1>1, ReadsAreKeys DEF StoreSide
  <2>2. CASE CleanBegin
    BY <1>1, <2>1, <2>2, NewTransactionTouches, Goroutines DEF CleanBegin, Touches
  <2>3. CASE CleanCommit
    BY <1>1, <2>3, CommitTouches, Goroutines DEF CleanCommit, getContainersToDeleteCommit, Touches
  <2>4. CASE CleanCommitFails
    BY <1>1, <2>4, CommitFailsTouches, Goroutines DEF CleanCommitFails, Touches
  <2>5. CASE DeleteContainer \/ DeleteContainerFails
    BY <1>1, <2>5 DEF DeleteContainer, DeleteContainerFails, CleanNext, TxnTypeOK, Kept, txnVars
  <2> QED BY <2>2, <2>3, <2>4, <2>5 DEF ContainerCleanerStep, CCNext
<1>4. /\ UNCHANGED <<imageTag, volumeContainer, volumes, ctrImage>>
      /\ mountPath' \subseteq mountPath /\ catalog' \subseteq catalog
      /\ imageID' \subseteq imageID /\ toClean' \subseteq toClean
      /\ ctrs' \subseteq ctrs /\ mounted' \subseteq ctrs' /\ ccList' \subseteq ccList \cup toClean
  <2>1. CASE CleanBegin
    BY <1>1, <2>1
    DEF StoreSide, BuildahTypeOK, CleanBegin, containersToDelete, storeVars, buildahVars
  <2>2. CASE CleanCommit
    BY <1>1, <2>2
    DEF StoreSide, BuildahTypeOK, CleanCommit, getContainersToDeleteCommit, buildahVars
  <2>3. CASE CleanCommitFails
    BY <1>1, <2>3 DEF StoreSide, BuildahTypeOK, CleanCommitFails, storeVars, buildahVars
  <2>4. CASE DeleteContainer \/ DeleteContainerFails
    BY <1>1, <2>4
    DEF StoreSide, BuildahTypeOK, DeleteContainer, DeleteContainerFails, CleanNext, rm,
        storeVars, buildahVars
  <2> QED BY <2>1, <2>2, <2>3, <2>4 DEF ContainerCleanerStep, CCNext
<1>5. HandlerSide'
  <2>1. Kept(Calls)
    BY <1>3, Goroutines DEF Kept
  <2> QED BY <1>1, <1>3, <1>4, <2>1, HandlerFrame
<1>6. Referred' = Referred
  BY <1>4 DEF Referred, Tagged
<1>7. CleanerTypeOK' /\ CleanerInv'
  <2>1. CASE CleanBegin
    <3>1. /\ ccList' = containersToDelete /\ ccPc' = "commit" /\ UNCHANGED toClean
          /\ reads'[ContainerCleaner] = getContainersToDeleteReads
      BY <1>1, <2>1, Goroutines DEF CleanBegin, NewTransaction, TxnTypeOK, storeVars
    <3>2. containersToDelete \cap Referred = {}
      BY <1>1 DEF StoreSide, StoreTypeOK, TagsInv, containersToDelete, Referred, Tagged
    <3>3. containersToDelete \subseteq toClean
      BY DEF containersToDelete
    <3> QED BY <1>1, <1>6, <3>1, <3>2, <3>3
            DEF StoreSide, StoreTypeOK, CleanerTypeOK, CleanerInv, getContainersToDeleteReads
  <2>2. CASE CleanCommit
    <3>1. /\ ccPc' = "delete" /\ ccList' = ccList
          /\ mountPath' = mountPath \ ccList /\ toClean' = toClean \ ccList
      BY <2>2 DEF CleanCommit, getContainersToDeleteCommit
    <3> QED BY <1>1, <1>6, <3>1 DEF StoreSide, CleanerTypeOK, CleanerInv
  <2>3. CASE CleanCommitFails
    BY <1>1, <2>3 DEF StoreSide, CleanerTypeOK, CleanerInv, CleanCommitFails
  <2>4. CASE DeleteContainer \/ DeleteContainerFails
    <3>1. /\ ccPc = "delete" /\ ccPc' \in {"idle", "delete"} /\ ccList' \subseteq ccList
      BY <2>4 DEF DeleteContainer, DeleteContainerFails, CleanNext
    <3> QED BY <1>1, <1>4, <1>6, <3>1 DEF StoreSide, CleanerTypeOK, CleanerInv
  <2> QED BY <2>1, <2>2, <2>3, <2>4 DEF ContainerCleanerStep, CCNext
<1>8. KnownInv'
  BY <1>1, <1>4, <1>6 DEF StoreSide, KnownInv
<1>9. TagsInv'
  BY <1>1, <1>4 DEF StoreSide, TagsInv
<1>10. ManagerInv'
  <2>1. imPc \in {"mount", "commit"} => imNew \in ctrs'
    <3>1. CASE DeleteContainer
      BY <1>1, <3>1 DEF StoreSide, ManagerInv, DeleteContainer, rm
    <3>2. CASE UNCHANGED buildahVars
      BY <1>1, <3>2 DEF StoreSide, ManagerInv, buildahVars
    <3> QED BY <3>1, <3>2 DEF ContainerCleanerStep, CCNext, CleanBegin, CleanCommit,
                              CleanCommitFails, DeleteContainerFails
  <2> QED BY <1>1, <1>3, <1>4, <1>6, <2>1, Goroutines DEF StoreSide, ManagerInv, Kept, imVars
<1>11. StoreTypeOK' /\ BuildahTypeOK'
  BY <1>1, <1>4 DEF StoreSide, StoreTypeOK, BuildahTypeOK
<1>12. StoreSide'
  BY <1>2, <1>7, <1>8, <1>9, <1>10, <1>11 DEF StoreSide
<1> QED BY <1>5, <1>12, SidesNext

------------------------------------------------------------------------------
\* The process and the node.

LEMMA InitEstablishesCore == Init => CoreInv
<1> SUFFICES ASSUME Init PROVE CoreInv
  OBVIOUS
<1>1. TxnTypeOK /\ StoreTypeOK /\ BuildahTypeOK
  BY ToolProviderAssumption
     DEF Init, TxnInit, StoreEmpty, TxnTypeOK, StoreTypeOK, BuildahTypeOK
<1>2. HandlersTypeOK /\ ImageManagerTypeOK /\ CleanerTypeOK
  BY DEF Init, NSInit, HandlersIdle, IMIdle, CCIdle, HandlersTypeOK, ImageManagerTypeOK,
         CleanerTypeOK, PCs, Errs, Codes, IMPCs
<1>3. HandlerInv /\ SelectInv /\ ManagerInv /\ CleanerInv
  BY DEF Init, NSInit, HandlersIdle, IMIdle, CCIdle, HandlerInv, SelectInv, ManagerInv,
         CleanerInv
<1>4. Tagged = {} /\ Referred = {}
  BY DEF Init, StoreEmpty, Tagged, Referred
<1>5. KnownInv /\ DriverInv /\ TagsInv
  BY <1>4, ToolProviderAssumption
  DEF Init, StoreEmpty, NSInit, HandlersIdle, IMIdle, CCIdle, KnownInv, DriverInv, TagsInv
<1> QED BY <1>1, <1>2, <1>3, <1>5 DEF CoreInv, TypeOK, Init

\* A step that leaves the goroutines and the store alone.
LEMMA DriverFrame ==
  ASSUME CoreInv, UNCHANGED <<txnVars, storeVars, nsVars, ccVars>>,
         UNCHANGED <<imPc, imImages, imMissing, imMountPoints, imTodo, imUpdate>>,
         imagesFile' \in ImagesFiles, BuildahTypeOK', UNCHANGED ctrImage,
         ctrs' \subseteq ctrs, imPc # "idle" => ctrs' = ctrs,
         drv' \in {"down", "clean", "up"}, storeExists' \in BOOLEAN, DriverInv'
  PROVE  CoreInv'
<1>1. StoreSide /\ HandlerSide
  BY Sides
<1>2. HandlerSide'
  BY <1>1 DEF HandlerSide, TxnTypeOK, HandlersTypeOK, HandlerInv, SelectInv, txnVars, storeVars,
              nsVars
<1>3. Referred' = Referred
  BY DEF Referred, Tagged, storeVars
<1>4. StoreTypeOK' /\ ImageManagerTypeOK' /\ CleanerTypeOK'
  BY <1>1 DEF StoreSide, StoreTypeOK, ImageManagerTypeOK, CleanerTypeOK, imUpdate, storeVars,
              ccVars
<1>5. ManagerInv' /\ CleanerInv' /\ KnownInv' /\ TagsInv'
  BY <1>1, <1>3
  DEF StoreSide, ManagerInv, CleanerInv, KnownInv, TagsInv, imUpdate, txnVars, storeVars, ccVars
<1>6. StoreSide'
  BY <1>1, <1>4, <1>5 DEF StoreSide
<1> QED BY <1>2, <1>6, SidesNext

LEMMA StartPreserves ==
  ASSUME CoreInv, Start
  PROVE  CoreInv'
<1>1. DriverInv'
  BY DEF CoreInv, DriverInv, Tagged, Start, storeVars, nsVars, imVars, ccVars
<1>2. BuildahTypeOK' /\ UNCHANGED <<ctrs, ctrImage>>
  BY DEF CoreInv, TypeOK, BuildahTypeOK, Start, buildahVars
<1> QED BY <1>1, <1>2, DriverFrame DEF CoreInv, TypeOK, ImageManagerTypeOK, Start, imVars, imUpdate

LEMMA RemoveAllContainersPreserves ==
  ASSUME CoreInv, RemoveAllContainers
  PROVE  CoreInv'
<1>1. PICK S \in SUBSET ctrs : rm(S)
  BY DEF RemoveAllContainers
<1>2. BuildahTypeOK' /\ ctrs' \subseteq ctrs /\ ctrImage' = ctrImage
  BY <1>1 DEF CoreInv, TypeOK, BuildahTypeOK, rm
<1>3. DriverInv' /\ imPc = "idle"
  BY DEF CoreInv, DriverInv, RemoveAllContainers, Tagged, storeVars, nsVars, imVars, ccVars
<1> QED BY <1>2, <1>3, DriverFrame
        DEF CoreInv, TypeOK, ImageManagerTypeOK, RemoveAllContainers, imVars, imUpdate

LEMMA WriteImagesFilePreserves ==
  ASSUME CoreInv, WriteImagesFile
  PROVE  CoreInv'
<1>1. DriverInv'
  BY DEF CoreInv, DriverInv, Tagged, WriteImagesFile, storeVars, nsVars, ccVars, drvVars
<1>2. BuildahTypeOK' /\ UNCHANGED <<ctrs, ctrImage>>
  BY DEF CoreInv, TypeOK, BuildahTypeOK, WriteImagesFile, buildahVars
<1> QED BY <1>1, <1>2, DriverFrame DEF CoreInv, TypeOK, WriteImagesFile, drvVars

\* When the driver dies only the store and the containers are left to speak of.
LEMMA DeathPreserves ==
  ASSUME CoreInv, StoreTypeOK', BuildahTypeOK', UNCHANGED <<ctrImage, imagesFile, storeExists>>,
         drv' = "down", DiscardAll, HandlersDie, IMDies, CCDies,
         volMount' \in [Volumes -> Containers \cup {None}],
         TagsInv',
         \A c \in ctrs' \cup mountPath' \cup toClean' \cup Referred' : ctrImage[c] # None,
         ~storeExists => Tagged' = {} /\ mountPath' = {} /\ toClean' = {} /\ volumes' = {}
  PROVE  CoreInv'
<1>1. StoreSide /\ HandlerSide
  BY Sides
<1>2. HandlerSide'
  BY <1>1 DEF HandlerSide, TxnTypeOK, HandlersTypeOK, HandlerInv, SelectInv, DiscardAll,
              HandlersDie, PCs, Errs, Codes
<1>3. ImageManagerTypeOK' /\ CleanerTypeOK'
  BY <1>1 DEF StoreSide, ImageManagerTypeOK, CleanerTypeOK, IMDies, CCDies, IMPCs
<1>4. /\ imPc' = "idle" /\ ccPc' = "idle" /\ ccList' = {}
      /\ \A k \in Calls : pc'[k] = "idle"
  BY DEF HandlersDie, IMDies, CCDies
<1>5. ManagerInv' /\ CleanerInv' /\ KnownInv' /\ DriverInv'
  BY <1>1, <1>4 DEF StoreSide, ManagerInv, CleanerInv, KnownInv, DriverInv
<1>6. StoreSide'
  BY <1>1, <1>3, <1>5 DEF StoreSide
<1> QED BY <1>2, <1>6, SidesNext

LEMMA ProcessDiesPreserves ==
  ASSUME CoreInv, ProcessDies, mounted' \subseteq mounted,
         volMount' \in [Volumes -> Containers \cup {None}]
  PROVE  CoreInv'
<1>1. /\ StoreTypeOK /\ BuildahTypeOK /\ TagsInv /\ KnownInv /\ DriverInv
      /\ UNCHANGED <<storeVars, ctrs, ctrImage>>
  BY DEF CoreInv, TypeOK, ProcessDies
<1>2. StoreTypeOK' /\ BuildahTypeOK' /\ TagsInv' /\ Referred' = Referred /\ Tagged' = Tagged
  BY <1>1 DEF StoreTypeOK, BuildahTypeOK, TagsInv, Referred, Tagged, storeVars
<1> QED BY <1>1, <1>2, DeathPreserves DEF KnownInv, DriverInv, ProcessDies, storeVars

LEMMA StutterPreserves ==
  ASSUME CoreInv, UNCHANGED vars
  PROVE  CoreInv'
<1>1. DriverInv' /\ BuildahTypeOK'
  BY DEF CoreInv, TypeOK, BuildahTypeOK, DriverInv, Tagged, vars, storeVars, buildahVars, nsVars,
         imVars, ccVars, drvVars
<1> QED BY <1>1, DriverFrame
        DEF CoreInv, TypeOK, ImageManagerTypeOK, vars, buildahVars, imVars, imUpdate, drvVars

LEMMA NextPreservesCore == CoreInv /\ [Next]_vars => CoreInv'
<1> SUFFICES ASSUME CoreInv, [Next]_vars PROVE CoreInv'
  OBVIOUS
<1>1. CASE NodeServerStep
  BY <1>1, NodeServerPreserves
<1>2. CASE ImageManagerStep
  BY <1>2, ImageManagerPreserves
<1>3. CASE ContainerCleanerStep
  BY <1>3, CleanerPreserves
<1>4. CASE Start
  BY <1>4, StartPreserves
<1>5. CASE RemoveAllContainers
  BY <1>5, RemoveAllContainersPreserves
<1>6. CASE Crash
  BY <1>6, ProcessDiesPreserves DEF Crash, CoreInv, TypeOK, HandlersTypeOK
<1>7. CASE Reboot
  BY <1>7, ProcessDiesPreserves DEF Reboot
<1>8. CASE WriteImagesFile
  BY <1>8, WriteImagesFilePreserves
<1>9. CASE UNCHANGED vars
  BY <1>9, StutterPreserves
<1> QED BY <1>1, <1>2, <1>3, <1>4, <1>5, <1>6, <1>7, <1>8, <1>9 DEF Next

------------------------------------------------------------------------------
\* The containers that a tag or a volume record leads to.

\* No step deletes them or their metadata, and the only one that a step adds
\* is complete; an identifier once given stays known.
ReferredStay ==
  /\ \A c \in Referred : /\ c \in ctrs => c \in ctrs'
                         /\ c \in mountPath => c \in mountPath'
                         /\ c \in catalog => c \in catalog'
  /\ \A c \in Referred' : c \in Referred \/ c \in ctrs' \cap mountPath' \cap catalog'
  /\ \A c \in Containers : ctrImage[c] # None => ctrImage'[c] # None

LEMMA KeptReferences ==
  ASSUME UNCHANGED <<mountPath, catalog, buildahVars>>, Referred' \subseteq Referred
  PROVE  ReferredStay
BY DEF ReferredStay, buildahVars

LEMMA ManagerKeepsReferred ==
  ASSUME CoreInv, ImageManagerStep
  PROVE  ReferredStay
<1>1. StoreTypeOK /\ BuildahTypeOK /\ ManagerInv
  BY DEF CoreInv, TypeOK
<1>2. UNCHANGED storeVars => Referred' = Referred
  BY DEF Referred, Tagged, storeVars
<1>3. ASSUME UNCHANGED storeVars,
             \/ UNCHANGED buildahVars
             \/ imPc = "create" /\ \E c \in Containers : from(c, imNewID)
             \/ imPc = "commit" /\ rm({imNew})
      PROVE  ReferredStay
  <2>1. imPc = "create" => imNewID # None
    BY <1>1, ImageManagerAssumption DEF ManagerInv
  <2>2. imPc = "commit" => imNew \notin Referred
    BY <1>1 DEF ManagerInv
  <2> QED
    BY <1>1, <1>2, <1>3, <2>1, <2>2 DEF ReferredStay, BuildahTypeOK, from, rm, storeVars, buildahVars
<1>4. CASE DeleteImagesEnd
  <2>1. UNCHANGED <<mountPath, catalog, buildahVars>>
    BY <1>4 DEF DeleteImagesEnd, deleteImagesCommit, storeVars
  <2>2. Referred' \subseteq Referred
    BY <1>2, <1>4 DEF DeleteImagesEnd, deleteImagesCommit, Referred, Tagged
  <2> QED BY <2>1, <2>2, KeptReferences
<1>5. CASE UpdateImageCommit
  <2>1. imNew \in ctrs /\ imImage \in Images
    BY <1>1, <1>5 DEF ManagerInv, UpdateImageCommit
  <2>2. /\ imageTag' = [imageTag EXCEPT ![imImage] = imNew]
        /\ mountPath' = mountPath \cup {imNew} /\ catalog' = catalog \cup {imNew}
        /\ UNCHANGED <<volumes, ctrs, ctrImage>>
    BY <1>5 DEF UpdateImageCommit, updateImageCommit, buildahVars
  <2>3. Referred' \subseteq Referred \cup {imNew}
    BY <1>1, <2>1, <2>2 DEF StoreTypeOK, Referred, Tagged
  <2> QED BY <2>1, <2>2, <2>3 DEF ReferredStay
<1>6. CASE ReuseContainer
  <2>1. imPc = "reuse" /\ (UNCHANGED buildahVars \/ mountContainer(imContainer))
        /\ UNCHANGED storeVars
    BY <1>6 DEF ReuseContainer
  <2>2. UNCHANGED <<ctrs, ctrImage>>
    BY <2>1 DEF mountContainer, buildahVars
  <2> QED BY <1>2, <2>1, <2>2 DEF ReferredStay, storeVars
<1>7. CASE MountNewContainer
  BY <1>2, <1>7 DEF MountNewContainer, mountContainer, ReferredStay, storeVars
<1>8. CASE CreateContainer \/ CreateContainerFails
  BY <1>3, <1>8 DEF CreateContainer, CreateContainerFails, AbandonUpdate
<1>9. CASE UpdateImageSetFails
  BY <1>3, <1>9 DEF UpdateImageSetFails, AbandonUpdate
<1>10. CASE UNCHANGED <<storeVars, buildahVars>>
  BY <1>2, <1>10, KeptReferences DEF storeVars
<1> QED
  BY <1>4, <1>5, <1>6, <1>7, <1>8, <1>9, <1>10
  DEF ImageManagerStep, IMNext, ReadImages, DeleteImagesBegin, ListMountPoints, SkipImage,
      UpdateImageBegin, GiveUpContainer, MountNewContainerFails, UpdateImageCommitFails,
      AbandonUpdate

LEMMA CleanerKeepsReferred ==
  ASSUME CoreInv, ContainerCleanerStep
  PROVE  ReferredStay
<1>1. ccList \cap Referred = {}
  BY DEF CoreInv, CleanerInv
<1>2. /\ UNCHANGED <<imageTag, volumes, ctrImage>>
      /\ mountPath \ ccList \subseteq mountPath'
      /\ catalog \ ccList \subseteq catalog'
      /\ ctrs \ ccList \subseteq ctrs'
  <2>1. CASE CleanCommit
    BY <2>1 DEF CleanCommit, getContainersToDeleteCommit, buildahVars
  <2>2. CASE CleanBegin \/ CleanCommitFails \/ DeleteContainer \/ DeleteContainerFails
    BY <2>2 DEF CleanBegin, CleanCommitFails, DeleteContainer, DeleteContainerFails, CleanNext,
                rm, storeVars, buildahVars
  <2> QED BY <2>1, <2>2 DEF ContainerCleanerStep, CCNext
<1>3. Referred' = Referred
  BY <1>2 DEF Referred, Tagged
<1> QED BY <1>1, <1>2, <1>3 DEF ReferredStay

LEMMA NextKeepsReferred == CoreInv /\ [Next]_vars => ReferredStay
<1> SUFFICES ASSUME CoreInv, [Next]_vars PROVE ReferredStay
  OBVIOUS
<1>1. CASE NodeServerStep
  <2>1. PICK k \in Calls : HandlerStep(k)
    BY <1>1 DEF NodeServerStep, NSNext, HandlerStep
  <2> QED BY <1>1, <2>1, HandlersKeepStore, KeptReferences DEF NodeServerStep
<1>2. CASE ImageManagerStep
  BY <1>2, ManagerKeepsReferred
<1>3. CASE ContainerCleanerStep
  BY <1>3, CleanerKeepsReferred
<1>4. CASE RemoveAllContainers
  <2>1. Referred = {} /\ UNCHANGED <<imageTag, mountPath, catalog, volumes, ctrImage>>
    BY <1>4 DEF CoreInv, DriverInv, RemoveAllContainers, Referred, rm, storeVars
  <2> QED BY <2>1 DEF ReferredStay, Referred, Tagged
<1>5. CASE Start \/ Crash \/ Reboot \/ WriteImagesFile \/ UNCHANGED vars
  <2>1. UNCHANGED <<imageTag, mountPath, catalog, volumes, ctrs, ctrImage>>
    BY <1>5 DEF Start, Crash, Reboot, WriteImagesFile, ProcessDies, vars, storeVars, buildahVars
  <2> QED BY <2>1 DEF ReferredStay, Referred, Tagged
<1> QED BY <1>1, <1>2, <1>3, <1>4, <1>5 DEF Next

\* Therefore each of the two invariants about them is kept on its own.
LEMMA NextKeepsMetadata == CoreInv /\ MetadataInv /\ [Next]_vars => MetadataInv'
BY NextKeepsReferred DEF ReferredStay, MetadataInv

LEMMA NextKeepsContainers == CoreInv /\ ExistInv /\ [Next]_vars => ExistInv'
BY NextKeepsReferred DEF ReferredStay, ExistInv
==============================================================================
