------------------------------- MODULE PowerLoss ------------------------------
(***************************************************************************)
(* The store is opened with Badger's default options, without SyncWrites:  *)
(* a commit is in the page cache when it returns.  It survives the death   *)
(* of the process but not a hard reboot of the node, which keeps only the  *)
(* commits that the system had written back, while the container storage   *)
(* and the images file keep what was done since.                           *)
(*                                                                         *)
(* Transactions are appended to one log and replayed whole, in order, so   *)
(* what a hard reboot leaves is the store at some earlier moment.  The     *)
(* MANIFEST file is synced when the store is created.                      *)
(***************************************************************************)
EXTENDS ToolProviderInvariants

VARIABLE durable   \* the store that a power loss would leave

Store == [imageTag |-> imageTag, mountPath |-> mountPath, catalog |-> catalog,
          imageID |-> imageID, volumeContainer |-> volumeContainer,
          volumes |-> volumes, toClean |-> toClean]

DurableInit == durable = Store

\* Faulty variant: the keys of the images reach the disk before the others.
SyncTagsFirst ==
  /\ durable' = [durable EXCEPT !.imageTag = imageTag]
  /\ UNCHANGED vars

\* The system writes the log back, at any time.
Sync == /\ durable' = Store
        /\ UNCHANGED vars

\* The node stops: everything in memory is lost, and the mounts.
LosePower ==
  /\ imageTag' = durable.imageTag
  /\ mountPath' = durable.mountPath
  /\ catalog' = durable.catalog
  /\ imageID' = durable.imageID
  /\ volumeContainer' = durable.volumeContainer
  /\ volumes' = durable.volumes
  /\ toClean' = durable.toClean
  /\ drv' = "down"
  /\ DiscardAll /\ HandlersDie /\ IMDies /\ CCDies
  /\ mounted' = {}
  /\ volMount' = [v \in Volumes |-> None]
  /\ UNCHANGED <<ctrs, ctrImage, imagesFile, storeExists, durable>>
==============================================================================
