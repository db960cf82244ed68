-------------------------- MODULE EnvironmentProofs --------------------------
(***************************************************************************)
(* What ToolProvider still guarantees in a hostile environment, for any    *)
(* values of the constants: when the node loses power and an operator      *)
(* deletes keys (Interventions), and when mounts are left half made        *)
(* (BindMounts).  Each rests on CoreInv, which every step of the driver    *)
(* preserves whatever the environment does.                                *)
(***************************************************************************)
EXTENDS Interventions, BindMounts, ToolProviderSafetyProofs

------------------------------------------------------------------------------
\* The steps of the driver, and the durable store beside them.

\* A step of the driver on a store that it has just created, or has yet to
\* create, finds it like that.
LEMMA StoreIsNewBefore ==
  ASSUME CoreInv, [Next]_vars, drv' = "clean" \/ ~storeExists'
  PROVE  drv = "clean" \/ ~storeExists
<1>1. CASE Start \/ RemoveAllContainers \/ Crash \/ Reboot
  BY <1>1 DEF Start, RemoveAllContainers, Crash, Reboot, ProcessDies
<1>2. CASE \/ NodeServerStep \/ ImageManagerStep \/ ContainerCleanerStep
           \/ WriteImagesFile \/ UNCHANGED vars
  BY <1>2 DEF NodeServerStep, ImageManagerStep, ContainerCleanerStep, WriteImagesFile,
              vars, drvVars
<1> QED BY <1>1, <1>2 DEF Next

\* The identifiers of the durable store stay known, and it stays empty as long
\* as the store is new.
LEMMA DriverKeepsDurable ==
  ASSUME InterventionsInv, [Next]_vars, UNCHANGED <<durable, deletes>>
  PROVE  InterventionsInv'
<1>1. CoreInv' /\ (deletes' = 0 => VolumeInv' /\ MetadataInv')
  BY NextPreservesCore, NextKeepsVolumes, NextKeepsMetadata DEF InterventionsInv, Complete
<1>2. DurableTypeOK' /\ DurableReferred' = DurableReferred
  BY DEF InterventionsInv, DurableInv, DurableTypeOK, DurableReferred
<1>3. \A c \in Containers : ctrImage[c] # None => ctrImage'[c] # None
  BY NextKeepsReferred DEF InterventionsInv, ReferredStay
<1>4. durable.mountPath \cup durable.toClean \cup DurableReferred \subseteq Containers
  BY DEF InterventionsInv, DurableInv, DurableTypeOK, DurableReferred
<1>5. drv' = "clean" \/ ~storeExists' => drv = "clean" \/ ~storeExists
  BY StoreIsNewBefore DEF InterventionsInv
<1>6. DurableInv'
  BY <1>2, <1>3, <1>4, <1>5 DEF InterventionsInv, DurableInv
<1>7. DurableComplete => DurableComplete'
  BY <1>2 DEF DurableComplete
<1> QED BY <1>1, <1>6, <1>7 DEF InterventionsInv, Complete

\* The store of the driver can be written back at any time.
LEMMA SyncKeepsDurable ==
  ASSUME InterventionsInv, Sync, UNCHANGED deletes
  PROVE  InterventionsInv'
<1>1. durable' = Store /\ UNCHANGED vars
  BY DEF Sync
<1>2. CoreInv' /\ (deletes' = 0 => VolumeInv' /\ MetadataInv')
  BY <1>1, NextPreservesCore, NextKeepsVolumes, NextKeepsMetadata
  DEF InterventionsInv, Complete
<1>3. DurableReferred' = Referred
  BY <1>1 DEF Store, DurableReferred, Referred, Tagged, vars, storeVars
<1>4. DurableTypeOK'
  BY <1>1 DEF Store, DurableTypeOK, InterventionsInv, CoreInv, TypeOK, StoreTypeOK, vars,
              storeVars
<1>5. UNCHANGED <<ctrImage, drv, storeExists>>
  BY <1>1 DEF vars, buildahVars, drvVars
<1>6. drv = "clean" \/ ~storeExists => mountPath \cup toClean \cup Referred = {}
  BY DEF InterventionsInv, CoreInv, DriverInv, Referred
<1>7. DurableInv'
  BY <1>1, <1>3, <1>4, <1>5, <1>6
  DEF DurableInv, Store, InterventionsInv, CoreInv, TagsInv, KnownInv
<1>8. Complete => DurableComplete'
  BY <1>1, <1>3
  DEF DurableComplete, Store, Complete, MetadataInv, VolumeInv, BoundVolumesAreRecorded
<1> QED BY <1>2, <1>7, <1>8 DEF InterventionsInv, Complete

\* The driver can start on what a power loss leaves.
LEMMA LosePowerKeepsDurable ==
  ASSUME InterventionsInv, LosePower, UNCHANGED deletes
  PROVE  InterventionsInv'
<1>1. DurableInv /\ CoreInv
  BY DEF InterventionsInv
<1>2. Referred' = DurableReferred
  BY DEF LosePower, Referred, Tagged, DurableReferred
<1>3. StoreTypeOK'
  BY <1>1 DEF LosePower, DurableInv, DurableTypeOK, StoreTypeOK
<1>4. BuildahTypeOK'
  BY <1>1 DEF LosePower, CoreInv, TypeOK, BuildahTypeOK
<1>5. TagsInv'
  BY <1>1 DEF LosePower, DurableInv, TagsInv
<1>6. /\ \A c \in mountPath' \cup toClean' \cup Referred' : ctrImage[c] # None
      /\ ~storeExists => mountPath' = {} /\ toClean' = {} /\ Referred' = {}
  BY <1>1, <1>2 DEF LosePower, DurableInv
<1>7. \A c \in ctrs' : ctrImage[c] # None
  BY <1>1 DEF LosePower, CoreInv, KnownInv
<1>8. Referred' = {} => Tagged' = {} /\ volumes' = {}
  BY <1>3 DEF Referred, StoreTypeOK
<1>9. CoreInv'
  BY <1>1, <1>3, <1>4, <1>5, <1>6, <1>7, <1>8, DeathPreserves DEF LosePower
<1>10. DurableInv' /\ (DurableComplete => DurableComplete')
  BY <1>1 DEF LosePower, DurableInv, DurableTypeOK, DurableReferred, DurableComplete
<1>11. ASSUME DurableComplete PROVE VolumeInv' /\ MetadataInv'
  <2>1. \A k \in Calls : pc'[k] = "idle"
    BY DEF LosePower, HandlersDie
  <2>2. VolumeInv'
    BY <1>11, <2>1
    DEF LosePower, DurableComplete, VolumeInv, MutexInv, TargetInv, ChosenContainerIsHeld,
        BoundVolumesAreRecorded
  <2>3. MetadataInv'
    BY <1>2, <1>11 DEF LosePower, DurableComplete, MetadataInv
  <2> QED BY <2>2, <2>3
<1> QED BY <1>9, <1>10, <1>11 DEF InterventionsInv, Complete

------------------------------------------------------------------------------
\* The deletions.

\* A deletion takes records away, and makes stale those who have read them.
LEMMA DeleteFrame ==
  ASSUME CoreInv, NEW key \in Keys, DeleteItem(key)
  PROVE  /\ \A i \in Images : \/ imageTag'[i] = imageTag[i]
                              \/ imageTag'[i] = None /\ key = containerForImage(i)
         /\ mountPath' \subseteq mountPath /\ volumes' \subseteq volumes
         /\ toClean' \subseteq toClean
         /\ \A c \in toClean : c \in toClean' \/ key = containerToClean(c)
         /\ Tagged' \subseteq Tagged /\ Referred' \subseteq Referred
         /\ UNCHANGED reads
         /\ \A t \in Txns : ~stale'[t] => ~stale[t] /\ key \notin reads[t]
<1>1. /\ \A i \in Images : \/ imageTag'[i] = imageTag[i]
                           \/ imageTag'[i] = None /\ key = containerForImage(i)
      /\ volumes' \subseteq volumes
  BY DEF DeleteItem
<1>2. Tagged' \subseteq Tagged /\ Referred' \subseteq Referred
  BY <1>1 DEF Tagged, Referred
<1> QED BY <1>1, <1>2 DEF DeleteItem

LEMMA DeletePreserves ==
  ASSUME CoreInv, NEW key \in Keys, DeleteItem(key),
         UNCHANGED <<buildahVars, nsVars, imVars, ccVars, drvVars>>
  PROVE  CoreInv'
<1>1. StoreSide /\ HandlerSide
  BY Sides
<1>2. TxnTypeOK' /\ StoreTypeOK'
  BY <1>1 DEF StoreSide, HandlerSide, TxnTypeOK, StoreTypeOK, DeleteItem
<1>3. HandlersTypeOK' /\ HandlerInv'
  BY <1>1 DEF HandlerSide, HandlersTypeOK, HandlerInv, nsVars
<1>4. SelectInv'
  <2> SUFFICES ASSUME NEW k \in Calls, pc'[k] = "select"
               PROVE  /\ containerForImage(ImageOf[vol'[k]]) \in reads'[k]
                      /\ ~stale'[k] => imageTag'[ImageOf[vol'[k]]] = ctr'[k]
    BY DEF SelectInv
  <2>1. vol[k] \in Volumes /\ ImageOf[vol[k]] \in Images /\ k \in Txns
    BY <1>1, NodeServerAssumption DEF HandlerSide, HandlerInv, nsVars
  <2> QED BY <1>1, <2>1, DeleteFrame DEF HandlerSide, SelectInv, nsVars
<1>5. BuildahTypeOK' /\ ImageManagerTypeOK' /\ CleanerTypeOK'
  BY <1>1 DEF StoreSide, BuildahTypeOK, ImageManagerTypeOK, CleanerTypeOK, buildahVars, imVars,
              ccVars
<1>6. ManagerInv'
  BY <1>1, DeleteFrame, Goroutines DEF StoreSide, ImageManagerTypeOK, ManagerInv, imVars, buildahVars, ccVars
<1>7. CleanerInv'
  BY <1>1, DeleteFrame, Goroutines DEF StoreSide, CleanerInv, ccVars
<1>8. KnownInv' /\ DriverInv' /\ TagsInv'
  BY <1>1, DeleteFrame
  DEF StoreSide, KnownInv, DriverInv, TagsInv, buildahVars, nsVars, imVars, ccVars, drvVars
<1>9. StoreSide'
  BY <1>1, <1>2, <1>5, <1>6, <1>7, <1>8 DEF StoreSide, drvVars
<1> QED BY <1>2, <1>3, <1>4, <1>9, SidesNext DEF HandlerSide

\* A deletion leaves the durable store as it is, with or without the key: a
\* power loss after it leaves a store that the driver can start on.
LEMMA OperatorKeepsDurable ==
  ASSUME InterventionsInv, OperatorDelete, UNCHANGED durable
  PROVE  InterventionsInv'
<1>1. PICK key \in Keys : DeleteItem(key)
  BY DEF OperatorDelete
<1>2. CoreInv'
  BY <1>1, DeletePreserves DEF InterventionsInv, OperatorDelete
<1>3. UNCHANGED <<durable, ctrImage, drv, storeExists>>
  BY DEF OperatorDelete, buildahVars, drvVars
<1>4. DurableInv'
  BY <1>3 DEF InterventionsInv, DurableInv, DurableTypeOK, DurableReferred
<1>5. deletes' \in Nat /\ deletes' # 0
  BY DEF InterventionsInv, OperatorDelete
<1> QED BY <1>2, <1>4, <1>5 DEF InterventionsInv

------------------------------------------------------------------------------
\* Interventions.

LEMMA InterventionsBegin == InterventionsInit => InterventionsInv
<1> SUFFICES ASSUME InterventionsInit PROVE InterventionsInv
  OBVIOUS
<1>1. IInv /\ VolumeInv /\ durable = Store
  BY InitEstablishes DEF InterventionsInit, DurableInit
<1>2. CoreInv /\ MetadataInv
  BY <1>1 DEF IInv
<1>3. DurableReferred = {} /\ DurableTypeOK
  BY <1>1, <1>2
  DEF InterventionsInit, Init, StoreEmpty, Store, DurableReferred, DurableTypeOK, CoreInv,
      TypeOK, StoreTypeOK
<1>4. DurableInv /\ DurableComplete
  BY <1>1, <1>3 DEF InterventionsInit, Init, StoreEmpty, Store, DurableInv, DurableComplete
<1> QED BY <1>1, <1>2, <1>4 DEF InterventionsInit, DeletesInit, InterventionsInv, Complete

LEMMA InterventionsNextPreserves ==
  InterventionsInv /\ [InterventionsNext]_interventionVars => InterventionsInv'
<1> SUFFICES ASSUME InterventionsInv, [InterventionsNext]_interventionVars
             PROVE  InterventionsInv'
  OBVIOUS
<1> QED
  BY DriverKeepsDurable, SyncKeepsDurable, LosePowerKeepsDurable, OperatorKeepsDurable
  DEF InterventionsNext, interventionVars

LEMMA InterventionsInvariant == InterventionsSpec => []InterventionsInv
BY InterventionsBegin, InterventionsNextPreserves, PTL DEF InterventionsSpec

\* What power losses leave is a consistent store, though an older one, as long
\* as no key was deleted by hand: each transaction of the metadata store is lost
\* as a whole, and what each one leaves is a store that a driver can start on.
THEOREM LossLeavesAStore == InterventionsSpec => []StoreStaysConsistent
<1>1. InterventionsInv => StoreStaysConsistent
  <2> SUFFICES ASSUME InterventionsInv, deletes = 0 PROVE StoreStaysConsistent
    BY DEF StoreStaysConsistent
  <2>1. /\ \A i \in Images : imageTag[i] # None => imageTag[i] \in Referred
        /\ \A r \in volumes : r[1] \in Referred
    BY DEF Referred, Tagged
  <2> QED
    BY <2>1 DEF InterventionsInv, Complete, MetadataInv, CoreInv, TagsInv, VolumeInv,
                BoundVolumesAreRecorded, StoreStaysConsistent
<1> QED BY <1>1, InterventionsInvariant, PTL

\* No step ever removes an existing container that a tag or a volume record
\* names, whatever was deleted and however often the store has gone back:
\* RemoveAllContainers runs only on a new store, and the cleaner, updateImage and
\* the handlers act on what the store says now.
THEOREM RecordedStay == InterventionsSpec => RecordedContainersStay
<1> DEFINE Stay == \A c \in ctrs \cap Referred : c \in ctrs'
<1>1. InterventionsInv /\ [InterventionsNext]_interventionVars => [Stay]_interventionVars
  <2> SUFFICES ASSUME InterventionsInv, InterventionsNext PROVE Stay
    OBVIOUS
  <2>1. CASE Next
    BY <2>1, NextKeepsReferred DEF InterventionsInv, ReferredStay
  <2>2. CASE Sync \/ LosePower \/ OperatorDelete
    BY <2>2 DEF Sync, LosePower, OperatorDelete, vars, buildahVars
  <2> QED BY <2>1, <2>2 DEF InterventionsNext
<1> QED BY <1>1, InterventionsInvariant, PTL DEF InterventionsSpec, RecordedContainersStay

\* In terms of the driver's invariants.
LEMMA ReferredExist == CoreInv => (ReferredContainersExist <=> ExistInv)
<1> SUFFICES ASSUME CoreInv PROVE ReferredContainersExist <=> ExistInv
  OBVIOUS
<1>1. /\ \A i \in Images : imageTag[i] # None => imageTag[i] \in Referred
      /\ \A r \in volumes : r[1] \in Referred
      /\ \A c \in Referred : \/ \E i \in Images : imageTag[i] # None /\ c = imageTag[i]
                             \/ \E r \in volumes : c = r[1]
  BY DEF Referred, Tagged
<1> QED BY <1>1 DEF CoreInv, TagsInv, ExistInv, ReferredContainersExist

\* Only a power loss makes the store lead to a container that does not exist.
\* Whatever keys an operator deletes, at whatever moment, and whatever the store
\* went back to before, the driver never deletes a container that a tag or a
\* volume record leads to, and enters only containers that exist.
THEOREM DisconnectedByLoss == InterventionsSpec => OnlyPowerLossesDisconnect
<1> DEFINE StillLeads == ReferredContainersExist => ReferredContainersExist' \/ LosePower
<1>1. ASSUME InterventionsInv, InterventionsInv', [InterventionsNext]_interventionVars
      PROVE  [StillLeads]_interventionVars
  <2>1. (ReferredContainersExist <=> ExistInv) /\ (ReferredContainersExist' <=> ExistInv')
    <3>1. CoreInv /\ CoreInv'
      BY <1>1 DEF InterventionsInv
    <3>2. ReferredContainersExist <=> ExistInv
      BY <3>1, ReferredExist
    <3>3. ReferredContainersExist' <=> ExistInv'
      BY <3>1, ReferredExist, PTL
    <3> QED BY <3>2, <3>3
  <2>2. CASE Next
    BY <1>1, <2>1, <2>2, NextKeepsContainers DEF InterventionsInv
  <2>3. CASE Sync
    BY <2>1, <2>3 DEF Sync, vars, storeVars, buildahVars, ExistInv, Referred, Tagged
  <2>4. CASE OperatorDelete
    <3>1. PICK key \in Keys : DeleteItem(key)
      BY <2>4 DEF OperatorDelete
    <3> QED
      BY <1>1, <2>1, <2>4, <3>1, DeleteFrame
      DEF InterventionsInv, OperatorDelete, ExistInv, buildahVars
  <2> QED BY <1>1, <2>2, <2>3, <2>4 DEF InterventionsNext
<1>2. InterventionsSpec => [][StillLeads]_interventionVars
  BY <1>1, InterventionsInvariant, PTL DEF InterventionsSpec
<1> QED BY <1>2 DEF OnlyPowerLossesDisconnect

------------------------------------------------------------------------------
\* BindMounts.

\* The files of the containers are only looked at: the driver's steps are those
\* of ToolProvider.
LEMMA FilesStepIsStep == filesNext => Next
<1>1. FileSteps \/ OtherHandlerSteps => NodeServerStep
  BY DEF FileSteps, OtherHandlerSteps, MountFiles, UnpublishFiles, NodeServerStep, NSNext, Handler
<1> QED BY <1>1 DEF filesNext, RebootFiles, Next

\* All that is proved of the driver holds of its bind mounts.
THEOREM FilesImplement == filesSpec => Spec
<1>1. filesInit => Init
  BY DEF filesInit
<1>2. [filesNext]_<<vars, fileVars>> => [Next]_vars
  BY FilesStepIsStep
<1> QED BY <1>1, <1>2, PTL DEF filesSpec, Spec

\* The driver's steps on writable and code.
LEMMA HandlerKeepsAnswer ==
  ASSUME CoreInv, AnswerInv, NEW k \in Calls,
         \/ MountFiles(k)
         \/ /\ UNCHANGED fileVars
            /\ \/ \E v \in Volumes : NodePublishVolume(k, v)
               \/ SelectCommit(k) \/ CheckTarget(k) \/ CheckSource(k)
               \/ CleaningOnError(k) \/ DropBegin(k) \/ DropCommit(k) \/ Return(k)
  PROVE  AnswerInv'
<1>1. HandlersTypeOK /\ HandlerInv
  BY DEF CoreInv, TypeOK
<1>2. /\ pc' = [pc EXCEPT ![k] = pc'[k]]
      /\ code' = [code EXCEPT ![k] = code'[k]]
      /\ pc'[k] \in {"idle", "select", "target", "source", "mount"} => code'[k] = ""
  <2>1. CASE MountFiles(k)
    BY <1>1, <2>1 DEF MountFiles, Mount, goto, answer, HandlersTypeOK, PCs, Codes
  <2>2. CASE \E v \in Volumes : NodePublishVolume(k, v)
    BY <1>1, <2>2
    DEF NodePublishVolume, selectFails, goto, answer, HandlersTypeOK, PCs, Codes, AnswerInv
  <2>3. CASE SelectCommit(k)
    BY <1>1, <2>3
    DEF SelectCommit, selectFails, goto, answer, HandlersTypeOK, PCs, Codes, AnswerInv
  <2>4. CASE CheckTarget(k) \/ CheckSource(k) \/ CleaningOnError(k)
    BY <1>1, <2>4
    DEF CheckTarget, CheckSource, CleaningOnError, goto, answer, HandlersTypeOK, PCs, Codes,
        AnswerInv
  <2>5. CASE DropBegin(k) \/ DropCommit(k) \/ Return(k)
    BY <1>1, <2>5
    DEF DropBegin, DropCommit, Return, goto, answer, HandlersTypeOK, PCs, Codes
  <2> QED BY <2>1, <2>2, <2>3, <2>4, <2>5
<1>3. writable' \subseteq {v \in Volumes : volMount'[v] # None}
  <2>1. CASE MountFiles(k)
    <3>1. vol[k] \in Volumes /\ ctr[k] # None
      BY <1>1, <2>1, NodeServerAssumption DEF MountFiles, Mount, HandlerInv
    <3>2. CASE volMount' = [volMount EXCEPT ![vol[k]] = ctr[k]]
      <4>1. writable' \subseteq writable \cup {vol[k]}
        BY <2>1 DEF MountFiles
      <4> QED BY <1>1, <3>1, <3>2, <4>1 DEF AnswerInv, HandlersTypeOK
    <3>3. CASE UNCHANGED volMount
      BY <2>1, <3>3 DEF MountFiles, AnswerInv
    <3> QED BY <2>1, <3>2, <3>3 DEF MountFiles, Mount
  <2>2. CASE UNCHANGED <<writable, volMount>>
    BY <2>2 DEF AnswerInv
  <2> QED
    BY <2>1, <2>2
    DEF fileVars, NodePublishVolume, SelectCommit, CheckTarget, CheckSource, CleaningOnError,
        DropBegin, DropCommit, Return
<1> QED BY <1>1, <1>2, <1>3 DEF AnswerInv, HandlersTypeOK

LEMMA UnpublishKeepsAnswer ==
  ASSUME CoreInv, AnswerInv, NEW k \in Calls, NEW v \in Volumes, UnpublishFiles(k, v)
  PROVE  AnswerInv'
<1>1. HandlersTypeOK
  BY DEF CoreInv, TypeOK
<1>2. /\ pc' = [pc EXCEPT ![k] = "drop"] /\ UNCHANGED code
      /\ volMount' = [volMount EXCEPT ![v] = None] \/ UNCHANGED volMount
  BY DEF UnpublishFiles, NodeUnpublishVolume, goto
<1>3. \A w \in writable' : w \in writable /\ (w = v => volMount'[v] # None)
  BY DEF UnpublishFiles
<1> QED BY <1>1, <1>2, <1>3 DEF AnswerInv, HandlersTypeOK

LEMMA FilesNextKeepsAnswer ==
  CoreInv /\ AnswerInv /\ [filesNext]_<<vars, fileVars>> => AnswerInv'
<1> SUFFICES ASSUME CoreInv, AnswerInv, [filesNext]_<<vars, fileVars>> PROVE AnswerInv'
  OBVIOUS
<1>1. CASE FileSteps
  BY <1>1, HandlerKeepsAnswer, UnpublishKeepsAnswer DEF FileSteps
<1>2. CASE OtherHandlerSteps /\ UNCHANGED fileVars
  BY <1>2, HandlerKeepsAnswer DEF OtherHandlerSteps
<1>3. CASE RebootFiles
  BY <1>3 DEF RebootFiles, Reboot, ProcessDies, HandlersDie, AnswerInv
<1>4. CASE Crash /\ UNCHANGED fileVars
  BY <1>4 DEF Crash, ProcessDies, HandlersDie, AnswerInv, fileVars
<1>5. CASE UNCHANGED <<pc, code, volMount, writable>>
  BY <1>5 DEF AnswerInv
<1> QED
  BY <1>1, <1>2, <1>3, <1>4, <1>5
  DEF filesNext, ImageManagerStep, ContainerCleanerStep, Start, RemoveAllContainers,
      WriteImagesFile, vars, fileVars, nsVars

\* A mount that is answered OK.
LEMMA AnswersAreMounts ==
  ASSUME CoreInv, AnswerInv, NEW k \in Calls, filesNext,
         pc[k] \in {"target", "source", "mount"}, code'[k] = "OK"
  PROVE  /\ MountFiles(k)
         /\ volMount' = [volMount EXCEPT ![vol[k]] = ctr[k]]
<1>1. HandlersTypeOK /\ code[k] = ""
  BY DEF CoreInv, TypeOK, AnswerInv
<1>2. code'[k] # code[k]
  BY <1>1
<1>3. CASE \E u \in Calls : MountFiles(u)
  <2>1. PICK u \in Calls : MountFiles(u)
    BY <1>3
  <2>2. u = k
    BY <1>1, <1>2, <2>1 DEF MountFiles, Mount, answer, HandlersTypeOK
  <2>3. code' = [code EXCEPT ![k] = "OK"]
    BY <1>1, <2>1, <2>2 DEF MountFiles, Mount, answer, HandlersTypeOK
  <2> QED BY <1>1, <2>1, <2>2, <2>3 DEF MountFiles, Mount, answer, HandlersTypeOK
<1>4. CASE \E u \in Calls, v \in Volumes : UnpublishFiles(u, v)
  BY <1>2, <1>4 DEF UnpublishFiles, NodeUnpublishVolume
<1>5. CASE OtherHandlerSteps
  <2>1. PICK u \in Calls :
          \/ \E v \in Volumes : NodePublishVolume(u, v)
          \/ SelectCommit(u) \/ CheckTarget(u) \/ CheckSource(u)
          \/ CleaningOnError(u) \/ DropBegin(u) \/ DropCommit(u) \/ Return(u)
    BY <1>5 DEF OtherHandlerSteps
  <2>2. CASE u # k
    BY <1>1, <1>2, <2>1, <2>2
    DEF HandlersTypeOK, NodePublishVolume, selectFails, SelectCommit, CheckTarget, CheckSource,
        CleaningOnError, DropBegin, DropCommit, Return, answer
  <2>3. CASE u = k
    BY <1>1, <2>1, <2>3
    DEF HandlersTypeOK, NodePublishVolume, SelectCommit, CheckTarget, CheckSource,
        CleaningOnError, DropBegin, DropCommit, Return, answer
  <2> QED BY <2>2, <2>3
<1>6. CASE RebootFiles \/ Crash
  BY <1>6 DEF RebootFiles, Reboot, Crash, ProcessDies, HandlersDie
<1>7. CASE UNCHANGED nsVars
  BY <1>2, <1>7 DEF nsVars
<1> QED
  BY <1>3, <1>4, <1>5, <1>6, <1>7
  DEF filesNext, FileSteps, ImageManagerStep, ContainerCleanerStep, Start, RemoveAllContainers,
      WriteImagesFile

\* A publish is answered OK only by a mount that it has made itself, read-only,
\* of the container that the store records for its volume: a bind that an
\* earlier publish left writable makes CheckTarget refuse the next one, until it
\* is unmounted.
THEOREM AnsweredIsReadOnly == filesSpec => PublishedIsReadOnly
<1> DEFINE ReadOnly ==
      \A k \in Calls :
        pc[k] \in {"target", "source", "mount"} /\ code'[k] = "OK" =>
          /\ vol[k] \notin writable'
          /\ volMount'[vol[k]] = volumeContainer'[vol[k]]
<1>1. filesInit => AnswerInv
  BY DEF filesInit, Init, NSInit, HandlersIdle, AnswerInv
<1>2. IInv /\ VolumeInv => CoreInv /\ TargetInv /\ ChosenContainerIsHeld
  BY DEF IInv, VolumeInv
<1>3. CoreInv /\ TargetInv /\ ChosenContainerIsHeld /\ AnswerInv
        /\ [filesNext]_<<vars, fileVars>> => [ReadOnly]_<<vars, fileVars>>
  <2> SUFFICES ASSUME CoreInv, TargetInv, ChosenContainerIsHeld, AnswerInv, filesNext,
                      NEW k \in Calls, pc[k] \in {"target", "source", "mount"},
                      code'[k] = "OK"
               PROVE  /\ vol[k] \notin writable'
                      /\ volMount'[vol[k]] = volumeContainer'[vol[k]]
    OBVIOUS
  <2>1. MountFiles(k) /\ volMount' = [volMount EXCEPT ![vol[k]] = ctr[k]]
    BY AnswersAreMounts
  <2>2. pc[k] = "mount" /\ volumeContainer' = volumeContainer /\ writable' = writable
    BY <2>1 DEF MountFiles, Mount, storeVars
  <2>3. vol[k] \in Volumes /\ volMount \in [Volumes -> Containers \cup {None}]
    BY <2>2 DEF CoreInv, TypeOK, HandlersTypeOK, HandlerInv
  <2>4. volMount[vol[k]] = None /\ volumeContainer[vol[k]] = ctr[k]
    BY <2>2 DEF TargetInv, ChosenContainerIsHeld
  <2> QED BY <2>1, <2>2, <2>3, <2>4 DEF AnswerInv
<1> QED
  BY <1>1, <1>2, <1>3, FilesNextKeepsAnswer, FilesImplement, VolumeInvariant, PTL
  DEF filesSpec, PublishedIsReadOnly
==============================================================================
