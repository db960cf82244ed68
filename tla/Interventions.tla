----------------------------- MODULE Interventions ----------------------------
(***************************************************************************)
(* The driver beside what changes its store behind its back: power losses  *)
(* and the operator's deletions, in any order.  A power loss can undo a    *)
(* deletion, and what it brings back can be deleted.                       *)
(***************************************************************************)
EXTENDS PowerLoss, OperatorDeletes

interventionVars == <<vars, durable, deletes>>

InterventionsInit == Init /\ DurableInit /\ DeletesInit

InterventionsNext == \/ Next /\ UNCHANGED <<durable, deletes>>
                     \/ (Sync \/ LosePower) /\ UNCHANGED deletes
                     \/ OperatorDelete /\ UNCHANGED durable

InterventionsSpec == InterventionsInit /\ [][InterventionsNext]_interventionVars

ServingInterventionsSpec == InterventionsSpec /\ ManagerScheduling /\ ManagerSucceeds

------------------------------------------------------------------------------
\* As long as no key was deleted by hand, what power losses leave is a store in
\* which the serving containers are complete and not retired, and every bound
\* volume is recorded on a container that the store knows: each transaction is
\* lost as a whole.
StoreStaysConsistent ==
  deletes = 0 =>
    /\ \A i, j \in Images :
         imageTag[i] # None =>
           /\ imageTag[i] \in (mountPath \cap catalog) \ toClean
           /\ imageTag[j] = imageTag[i] => j = i
    /\ \A r \in volumes : r[1] \in mountPath \cap catalog
    /\ \A v \in Volumes :
         volumeContainer[v] # None => <<volumeContainer[v], v>> \in volumes

\* No step ever removes an existing container that a tag or a volume record
\* names: not when the store has gone back to a moment at which a container was
\* retired, or tagged, or used by a volume, that is not so any more, and not
\* when keys are deleted between any two steps of the goroutines.
RecordedContainersStay ==
  [][\A c \in ctrs \cap Referred : c \in ctrs']_interventionVars

\* The containers that an image or a volume record leads to exist, and the ones
\* that serve are not retired.
ReferredContainersExist ==
  /\ \A r \in volumes : r[1] \in ctrs
  /\ \A i \in Images :
       imageTag[i] # None => /\ imageTag[i] \in ctrs \ toClean
                             /\ \A j \in Images : imageTag[j] = imageTag[i] => j = i

\* Only a power loss makes the store lead to a container that does not exist:
\* no deletion of a key by hand, and nothing that the driver does in a store
\* with keys deleted or gone back.
OnlyPowerLossesDisconnect ==
  [][ReferredContainersExist => ReferredContainersExist' \/ LosePower]_interventionVars

\* A tag that names a container which the driver had already deleted.
Lost(i) == imageTag[i] # None /\ imageTag[i] \notin ctrs

\* The image manager repairs what was deleted or went back: a listed image ends
\* up served with its content by a container that a publish finds.  It is served
\* but not found when the record of its container's catalog was deleted, which
\* nothing writes again; and a tag that went back to a deleted container stays.
InterventionsAreRepaired ==
  \A i \in Images, id \in ImageIDs :
    <>[](drv = "up" /\ imagesFile[i] = id) =>
      <>[]\/ /\ Serves(imageTag[i], id)
             /\ selectContainerForVolumeFinds(i) \/ imageTag[i] \notin catalog
          \/ Lost(i)
          \/ NoContainerLeft(i, id)

\* "if the node was just restarted, it might be that the container is not
\* mounted properly anymore": the image has its container, and mounting it
\* again is all that a restart of the node asks for.
ServedAfterRestart ==
  \A i \in Images, id \in ImageIDs :
    <>[](drv = "up" /\ imagesFile[i] = id) =>
      <>[](Serves(imageTag[i], id) \/ NoContainerLeft(i, id))

------------------------------------------------------------------------------
\* The containers that the durable store leads to.
DurableReferred ==
  {durable.imageTag[i] : i \in {j \in Images : durable.imageTag[j] # None}}
    \cup {r[1] : r \in durable.volumes}

DurableTypeOK ==
  durable \in [imageTag : [Images -> Containers \cup {None}], mountPath : SUBSET Containers,
               catalog : SUBSET Containers, imageID : SUBSET Containers,
               volumeContainer : [Volumes -> Containers \cup {None}],
               volumes : SUBSET (Containers \X Volumes), toClean : SUBSET Containers]

\* The durable store is one that the driver can start on again: a container in
\* it serves one image and is not retired, and every identifier in it belongs to
\* a container that was created, though perhaps deleted since.
DurableInv ==
  /\ DurableTypeOK
  /\ \A i, j \in Images :
       durable.imageTag[i] # None =>
         /\ durable.imageTag[i] \notin durable.toClean
         /\ durable.imageTag[j] = durable.imageTag[i] => j = i
  /\ \A c \in durable.mountPath \cup durable.toClean \cup DurableReferred :
       ctrImage[c] # None
  /\ drv = "clean" \/ ~storeExists =>
       durable.mountPath \cup durable.toClean \cup DurableReferred = {}

\* It has all records, those of the containers and those of the volumes.
DurableComplete ==
  /\ DurableReferred \subseteq durable.mountPath \cap durable.catalog
  /\ \A v \in Volumes :
       durable.volumeContainer[v] # None =>
         <<durable.volumeContainer[v], v>> \in durable.volumes

\* What holds as long as no key was deleted.
Complete == VolumeInv /\ MetadataInv /\ DurableComplete

\* What the driver still relies on beside power losses and deletions.
InterventionsInv == /\ CoreInv
                    /\ DurableInv
                    /\ deletes \in Nat
                    /\ deletes = 0 => Complete
==============================================================================
