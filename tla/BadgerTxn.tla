------------------------------ MODULE BadgerTxn ------------------------------
(***************************************************************************)
(* The optimistic read-write transactions of the embedded Badger database, *)
(* as db.Update runs them (vendor/github.com/dgraph-io/badger/v3/txn.go).  *)
(*                                                                         *)
(* A transaction reads a snapshot taken when it starts, keeps its writes   *)
(* to itself, and commits unless a key it READ was committed by another    *)
(* transaction since its start.  A prefix scan reads only the keys it      *)
(* returns: keys that appear later under the prefix are not detected.      *)
(*                                                                         *)
(* Every transaction of the metadata store reads a set of keys that its    *)
(* snapshot determines, so reads[t] is fixed at the start, and stale[t]    *)
(* says whether one of them was committed since (what hasConflict finds by *)
(* comparing timestamps).                                                  *)
(***************************************************************************)

CONSTANT Txns      \* the goroutines that can hold an open transaction

VARIABLES reads,   \* reads[t]: the keys t's open transaction has read
          stale    \* stale[t]: one of them was committed since t started

txnVars == <<reads, stale>>

TxnInit == /\ reads = [t \in Txns |-> {}]
           /\ stale = [t \in Txns |-> FALSE]

\* A new read timestamp for t; the snapshot is the current store.
NewTransaction(t, R) == /\ reads' = [reads EXCEPT ![t] = R]
                        /\ stale' = [stale EXCEPT ![t] = FALSE]

hasConflict(t) == stale[t]

\* t commits the keys W.  A transaction without writes commits at once, with
\* no conflict check; a commit makes stale the transactions that read W.
Commit(t, W) ==
  /\ W # {} => ~hasConflict(t)
  /\ reads' = [reads EXCEPT ![t] = {}]
  /\ stale' = [u \in Txns |-> /\ u # t
                              /\ stale[u] \/ reads[u] \cap W # {}]

\* t's commit of W fails: it is refused, or the oracle has accepted it before
\* its writes are lost, and then it makes stale the transactions that read W.
CommitFails(t, W) ==
  /\ reads' = [reads EXCEPT ![t] = {}]
  /\ \E noted \in {{}, IF hasConflict(t) THEN {} ELSE W} :
       stale' = [u \in Txns |-> u # t /\ (stale[u] \/ reads[u] \cap noted # {})]

\* t's closure returned an error, or its process died.
Discard(t) == /\ reads' = [reads EXCEPT ![t] = {}]
              /\ stale' = [stale EXCEPT ![t] = FALSE]

DiscardAll == /\ reads' = [t \in Txns |-> {}]
              /\ stale' = [t \in Txns |-> FALSE]
==============================================================================
