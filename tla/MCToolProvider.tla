---------------------------- MODULE MCToolProvider ---------------------------
(* Small instances of ToolProvider for TLC. *)
EXTENDS ToolProviderBindings, TLC

CONSTANTS i1, v1, v2, m1, m2

OneImage == [v \in Volumes |-> i1]

\* Whether the hashes of the volumes share a mutex.
SharedMutex == [v \in Volumes |-> m1]

OwnMutex == [v \in Volumes |-> IF v = v1 THEN m1 ELSE m2]

MCTxns == Calls \cup {ImageManager, ContainerCleaner}

\* Sound: no constant distinguishes containers, image contents or calls.
Symmetry == Permutations(Containers \ OldContainers) \cup Permutations(ImageIDs)
              \cup Permutations(Calls)

\* Two volumes with mutexes of their own can be swapped with their mutexes.
VolumeSymmetry == Symmetry \cup
  {[x \in {v1, v2, m1, m2} |-> CASE x = v1 -> v2 [] x = v2 -> v1
                                 [] x = m1 -> m2 [] x = m2 -> m1]}
==============================================================================
