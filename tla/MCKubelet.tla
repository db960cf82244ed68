------------------------------- MODULE MCKubelet ------------------------------
(* Small instances of Kubelet for TLC. *)
EXTENDS Kubelet

CONSTANTS i1, v1, m1

OneImage == [v \in Volumes |-> i1]

OneMutex == [v \in Volumes |-> m1]

MCTxns == Calls \cup {ImageManager, ContainerCleaner}
==============================================================================
