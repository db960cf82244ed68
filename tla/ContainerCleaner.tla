--------------------------- MODULE ContainerCleaner --------------------------
(***************************************************************************)
(* The container cleaner goroutine (cleanContainers of containerCleaner.go *)
(* and getContainersToDelete of metadatastore.go): on every tick it forgets *)
(* the retired containers without volumes, then deletes them one by one.   *)
(***************************************************************************)
EXTENDS MetadataStore

CONSTANT ContainerCleaner   \* the cleaner's transaction

ASSUME ContainerCleanerAssumption == ContainerCleaner \in Txns

VARIABLES ccPc,    \* where the cleaner is in its round
          ccList   \* containerIDs: the containers of this round

ccVars == <<ccPc, ccList>>

CleanerTypeOK == /\ ccPc \in {"idle", "commit", "delete"}
                 /\ ccList \subseteq Containers

CCIdle == ccPc = "idle" /\ ccList = {}

CCDies == ccPc' = "idle" /\ ccList' = {}

\* A round that finds nothing to delete changes nothing.
CleanBegin ==
  /\ ccPc = "idle"
  /\ containersToDelete # {}
  /\ NewTransaction(ContainerCleaner, getContainersToDeleteReads)
  /\ ccList' = containersToDelete
  /\ ccPc' = "commit"
  /\ UNCHANGED <<storeVars, buildahVars>>

CleanCommit ==
  /\ ccPc = "commit"
  /\ getContainersToDeleteCommit(ContainerCleaner, ccList)
  /\ ccPc' = "delete"
  /\ UNCHANGED <<buildahVars, ccList>>

\* The transaction fails: getContainersToDelete returns no container.
CleanCommitFails ==
  /\ ccPc = "commit"
  /\ CommitFails(ContainerCleaner, getContainersToDeleteWrites(ccList))
  /\ ccPc' = "idle"
  /\ ccList' = {}
  /\ UNCHANGED <<storeVars, buildahVars>>

\* deleteContainer for one container of the list.
CleanNext(c) ==
  /\ ccPc = "delete"
  /\ ccList' = ccList \ {c}
  /\ ccPc' = IF ccList' = {} THEN "idle" ELSE "delete"
  /\ UNCHANGED <<txnVars, storeVars>>

DeleteContainer == \E c \in ccList : CleanNext(c) /\ rm({c})

\* buildah rm fails: its error is ignored, and nothing mentions c any more.
DeleteContainerFails == \E c \in ccList : CleanNext(c) /\ UNCHANGED buildahVars

CCNext == \/ CleanBegin \/ CleanCommit \/ CleanCommitFails
          \/ DeleteContainer \/ DeleteContainerFails
==============================================================================
