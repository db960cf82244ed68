----------------------------- MODULE MCBadgerOracle ---------------------------
(* A small instance of BadgerOracle for TLC: two updates of an image by the *)
(* image manager, a publish of it, and a round of the cleaner.              *)
EXTENDS BadgerOracle, TLC

CONSTANTS t1, t2, t3, t4, manager, handler, cleaner, tag, record

MCOwner  == t1 :> manager @@ t2 :> manager @@ t3 :> handler @@ t4 :> cleaner

MCReads  == t1 :> {tag} @@ t2 :> {tag} @@ t3 :> {tag} @@ t4 :> {record}

MCWrites == t1 :> {tag} @@ t2 :> {tag} @@ t3 :> {record} @@ t4 :> {record}

\* Sound: the two updates differ in nothing.
Symmetry == Permutations({t1, t2})
==============================================================================
