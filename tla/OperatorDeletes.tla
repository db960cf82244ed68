---------------------------- MODULE OperatorDeletes ---------------------------
(***************************************************************************)
(* The DELETE endpoint of the metadata store: an operator removes any one  *)
(* key by hand, beside the transactions of the running driver.             *)
(***************************************************************************)
EXTENDS ToolProviderInvariants, Naturals

CONSTANT MaxDeletes   \* bound on the number of interventions

ASSUME OperatorAssumption == MaxDeletes \in Nat

VARIABLE deletes   \* the interventions made

DeletesInit == deletes = 0

\* A transaction of its own that reads nothing: it commits at once, and the
\* open transactions that have read the key will not commit.
DeleteItem(key) ==
  /\ stale' = [t \in Txns |-> stale[t] \/ key \in reads[t]]
  /\ UNCHANGED reads
  /\ imageTag' = [i \in Images |-> IF key = containerForImage(i) THEN None ELSE imageTag[i]]
  /\ mountPath' = {c \in mountPath : key # mountPathForContainer(c)}
  /\ catalog' = {c \in catalog : key # catalogForContainer(c)}
  /\ imageID' = {c \in imageID : key # imageIDForContainer(c)}
  /\ volumeContainer' =
       [v \in Volumes |-> IF key = containerForVolume(v) THEN None ELSE volumeContainer[v]]
  /\ volumes' = {r \in volumes : key # volumeOnContainer(r[2], r[1])}
  /\ toClean' = {c \in toClean : key # containerToClean(c)}

OperatorDelete ==
  /\ drv # "down"
  /\ deletes < MaxDeletes
  /\ deletes' = deletes + 1
  /\ \E key \in Keys : DeleteItem(key)
  /\ UNCHANGED <<buildahVars, nsVars, imVars, ccVars, drvVars>>
==============================================================================
