---------------------------- MODULE MCInterventions ---------------------------
(* Small instances of Interventions for TLC. *)
EXTENDS Interventions, TLC

CONSTANTS i1, v1, m1, c1, c2, c3

OneImage == [v \in Volumes |-> i1]

OneMutex == [v \in Volumes |-> m1]

MCTxns == Calls \cup {ImageManager, ContainerCleaner}

Symmetry == Permutations(Containers)

\* TLC's liveness checking takes no symmetry.  Instead the identifiers are given
\* in one order: a behaviour with another order is one of these, renamed, since
\* buildah from never gives an identifier twice and nothing tells two apart.
IdentifiersInOrder == /\ ctrImage[c2] # None => ctrImage[c1] # None
                      /\ ctrImage[c3] # None => ctrImage[c2] # None

OrderedSpec ==
  /\ InterventionsInit
  /\ [][InterventionsNext /\ IdentifiersInOrder']_interventionVars
  /\ ManagerScheduling /\ ManagerSucceeds
==============================================================================
