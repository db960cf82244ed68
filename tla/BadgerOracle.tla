---------------------------- MODULE BadgerOracle ----------------------------
(***************************************************************************)
(* How Badger detects conflicts: the oracle's timestamps                   *)
(* (vendor/github.com/dgraph-io/badger/v3/txn.go, and Open of db.go).      *)
(*                                                                         *)
(* A transaction reads at the timestamp before the next one.  A commit is  *)
(* refused when a commit the oracle remembers is later than that and wrote *)
(* a key the transaction has read; otherwise it gets the next timestamp.   *)
(* The oracle forgets the commits that no open transaction can conflict    *)
(* with, which it knows from a water mark of the read timestamps.  A       *)
(* second water mark, of commits, makes a new transaction wait until what  *)
(* was committed before it has been written.                               *)
(*                                                                         *)
(* `Txns' are transactions, each of which runs once, for the goroutine     *)
(* Owner[t]; BadgerTxn, of which this is the implementation, names a       *)
(* transaction by its goroutine.  What the closure of t reads and, unless  *)
(* it gives up, writes is Reads[t] and Writes[t]: there is a transaction   *)
(* for everything a closure may do, and its snapshot, which determines     *)
(* what it does, never changes (SnapshotIsFixed).                          *)
(***************************************************************************)
EXTENDS WaterMark

CONSTANTS Txns, Reads, Writes, Owner,
          FirstWriters  \* the goroutines that find something to write in a
                        \* store that nothing was ever written to

VARIABLES nextTxnTs, lastCleanupTs,
          committedTxns,  \* the commits that the oracle remembers
          readMark, txnMark,
          pc,             \* pc[t]: new, waiting, open, checked (by newCommitTs,
                          \* which holds the lock), accepted, written, ended
          readTs, commitTs,
          written         \* the transactions whose writes the database has

txnState   == <<pc, readTs, commitTs>>
oracleVars == <<nextTxnTs, lastCleanupTs, committedTxns, readMark, txnMark,
                txnState, written>>

Init == /\ nextTxnTs = 1
        /\ lastCleanupTs = 0
        /\ committedTxns = {}
        /\ readMark = DoneAt(0)
        /\ txnMark = DoneAt(0)
        /\ pc = [t \in Txns |-> "new"]
        /\ readTs = [t \in Txns |-> 0]
        /\ commitTs = [t \in Txns |-> 0]
        /\ written = {}

\* The oracle's mutex: newCommitTs holds it from its check to its timestamp.
Unlocked == \A t \in Txns : pc[t] # "checked"

\* db.Update returns before its goroutine starts another transaction.
IsIdle(g) == \A t \in Txns : Owner[t] = g => pc[t] \in {"new", "ended"}

\* readTs() up to its wait.
NewTransaction(t) ==
  /\ pc[t] = "new"
  /\ IsIdle(Owner[t])
  /\ Unlocked
  /\ pc' = [pc EXCEPT ![t] = "waiting"]
  /\ readTs' = [readTs EXCEPT ![t] = nextTxnTs - 1]
  /\ readMark' = Begin(readMark, t)
  /\ UNCHANGED <<nextTxnTs, lastCleanupTs, committedTxns, txnMark, commitTs,
                 written>>

WaitForMark(t) ==
  /\ pc[t] = "waiting"
  /\ txnMark.doneUntil >= readTs[t]
  /\ pc' = [pc EXCEPT ![t] = "open"]
  /\ UNCHANGED <<nextTxnTs, lastCleanupTs, committedTxns, readMark, txnMark,
                 readTs, commitTs, written>>

\* The closure returned an error, or has written nothing, or the commit was
\* refused, which leaves the oracle as it was.
Discard(t) ==
  /\ pc[t] = "open"
  /\ pc' = [pc EXCEPT ![t] = "ended"]
  /\ readMark' = Done(readMark, t)
  /\ UNCHANGED <<nextTxnTs, lastCleanupTs, committedTxns, txnMark, readTs,
                 commitTs, written>>

hasConflict(t) == \E v \in committedTxns : /\ commitTs[v] > readTs[t]
                                           /\ Writes[v] \cap Reads[t] # {}

\* newCommitTs up to doneRead.  In a store without any version only the first
\* writers have something to write.
CheckConflict(t) ==
  /\ pc[t] = "open"
  /\ Writes[t] # {}
  /\ readTs[t] = 0 => Owner[t] \in FirstWriters
  /\ Unlocked
  /\ ~hasConflict(t)
  /\ pc' = [pc EXCEPT ![t] = "checked"]
  /\ readMark' = Done(readMark, t)
  /\ UNCHANGED <<nextTxnTs, lastCleanupTs, committedTxns, txnMark, readTs,
                 commitTs, written>>

\* cleanupCommittedTransactions: what is left of committedTxns.
Remembered(maxReadTs) ==
  IF maxReadTs = lastCleanupTs THEN committedTxns
  ELSE {v \in committedTxns : commitTs[v] > maxReadTs}

\* The rest of newCommitTs.
NewCommitTs(t) ==
  /\ pc[t] = "checked"
  /\ lastCleanupTs' = readMark.doneUntil
  /\ committedTxns' = Remembered(readMark.doneUntil) \cup {t}
  /\ commitTs' = [commitTs EXCEPT ![t] = nextTxnTs]
  /\ nextTxnTs' = nextTxnTs + 1
  /\ txnMark' = Begin(txnMark, t)
  /\ pc' = [pc EXCEPT ![t] = "accepted"]
  /\ UNCHANGED <<readMark, readTs, written>>

\* The entries of t are in the database, all at once.  (The commits are written
\* in the order of their timestamps, which nothing here depends on.)
Write(t) ==
  /\ pc[t] = "accepted"
  /\ pc' = [pc EXCEPT ![t] = "written"]
  /\ written' = written \cup {t}
  /\ UNCHANGED <<nextTxnTs, lastCleanupTs, committedTxns, readMark, txnMark,
                 readTs, commitTs>>

\* doneCommit: the writes succeeded, or failed for good.
DoneCommit(t) ==
  /\ pc[t] \in {"accepted", "written"}
  /\ pc' = [pc EXCEPT ![t] = "ended"]
  /\ txnMark' = Done(txnMark, t)
  /\ UNCHANGED <<nextTxnTs, lastCleanupTs, committedTxns, readMark, readTs,
                 commitTs, written>>

\* The goroutines of the two water marks.
ProcessReadMark ==
  /\ readMark.markCh # <<>>
  /\ readMark' \in Processed(readMark, readTs)
  /\ UNCHANGED <<nextTxnTs, lastCleanupTs, committedTxns, txnMark, txnState,
                 written>>

ProcessTxnMark ==
  /\ txnMark.markCh # <<>>
  /\ txnMark' \in Processed(txnMark, commitTs)
  /\ UNCHANGED <<nextTxnTs, lastCleanupTs, committedTxns, readMark, txnState,
                 written>>

\* The highest version of the database, 0 if nothing was ever written.
IsMaxVersion(v) == /\ v = 0 \/ \E t \in written : v = commitTs[t]
                   /\ \A t \in written : commitTs[t] <= v

\* The process dies, and Open starts a new oracle after the highest version.
\* The timestamps of commits that were not written are forgotten.
Reopen ==
  \E v \in {0} \cup {commitTs[t] : t \in written} :
    /\ IsMaxVersion(v)
    /\ nextTxnTs' = v + 1
    /\ lastCleanupTs' = 0
    /\ committedTxns' = {}
    /\ readMark' = DoneAt(v)
    /\ txnMark' = DoneAt(v)
    /\ pc' = [t \in Txns |-> IF pc[t] = "new" THEN "new" ELSE "ended"]
    /\ commitTs' = [t \in Txns |-> IF t \in written THEN commitTs[t] ELSE 0]
    /\ UNCHANGED <<readTs, written>>

Next == \/ \E t \in Txns : \/ NewTransaction(t) \/ WaitForMark(t) \/ Discard(t)
                           \/ CheckConflict(t) \/ NewCommitTs(t)
                           \/ Write(t) \/ DoneCommit(t)
        \/ ProcessReadMark \/ ProcessTxnMark \/ Reopen

Spec == Init /\ [][Next]_oracleVars

-----------------------------------------------------------------------------
(* What the oracle promises *)

\* t has a read timestamp and neither a commit timestamp nor an end.
IsActive(t) == pc[t] \in {"waiting", "open", "checked"}

\* A key that t reads was committed after t's read timestamp, whether the
\* oracle remembers that commit or not.
IsOvertaken(t) == \E v \in Txns : /\ commitTs[v] > readTs[t]
                                  /\ Writes[v] \cap Reads[t] # {}

Abstract == INSTANCE BadgerTxn
              WITH reads <- [t \in Txns |-> IF IsActive(t) THEN Reads[t] ELSE {}],
                   stale <- [t \in Txns |-> IsActive(t) /\ IsOvertaken(t)]

AbstractStep ==
  \/ \E t \in Txns : \/ Abstract!NewTransaction(t, Reads[t])
                     \/ Abstract!Commit(t, Writes[t])
                     \/ Abstract!Discard(t)
  \/ Abstract!DiscardAll

\* The oracle's timestamps decide as BadgerTxn, on which the model of the
\* driver rests, says: a commit passes if and only if no key the transaction
\* read was committed since its start, whatever the oracle has forgotten.
ImplementsTxn == Abstract!TxnInit /\ [][AbstractStep]_(Abstract!txnVars)

\* What t reads at its timestamp: the commits it sees.
Snapshot(t) == {v \in written : commitTs[v] <= readTs[t]}

\* An open transaction's snapshot never changes: no commit up to its read
\* timestamp is written after it has waited for the commits' water mark.
SnapshotIsFixed ==
  [][\A t \in Txns : pc[t] = "open" /\ pc'[t] = "open"
                       => Snapshot(t)' = Snapshot(t)]_oracleVars

\* The assertions of the code hold: processOne's for both water marks, and the
\* two of newCommitTs and its cleanup about lastCleanupTs.
AssertionsHold ==
  /\ MarkIsNotDone(readMark, readTs)
  /\ MarkIsNotDone(txnMark, commitTs)
  /\ \A t \in Txns : pc[t] = "checked" => /\ readMark.doneUntil >= lastCleanupTs
                                          /\ nextTxnTs >= readMark.doneUntil

\* What the comment of NewTransaction (txn.go:737-740) says of a commit: the
\* keys it has read were not concurrently modified by another transaction.
ReadsAreNotModified ==
  [][\A t \in Txns : pc[t] = "checked" /\ pc'[t] = "accepted"
                       => ~IsOvertaken(t)]_oracleVars

-----------------------------------------------------------------------------
(* The inductive invariant *)

States == {"new", "waiting", "open", "checked", "accepted", "written", "ended"}

TypeOK ==
  /\ nextTxnTs \in Nat \ {0}
  /\ lastCleanupTs \in Nat
  /\ committedTxns \subseteq Txns
  /\ written \subseteq Txns
  /\ pc \in [Txns -> States]
  /\ readTs \in [Txns -> Nat]
  /\ commitTs \in [Txns -> Nat]

\* The transactions that have begun at a water mark, and those of them that
\* have not told it that they are done.
HaveRead   == {t \in Txns : pc[t] # "new"}
Readers    == {t \in Txns : pc[t] \in {"waiting", "open"}}
Stamped    == {t \in Txns : commitTs[t] > 0}
Committers == {t \in Txns : pc[t] \in {"accepted", "written"}}

WaterMarksInv ==
  /\ MarkInv(readMark, readTs, 0, HaveRead, Readers)
  /\ MarkIsBelow(readMark, readTs, nextTxnTs - 1)
  /\ MarkInv(txnMark, commitTs, 1, Stamped, Committers)
  /\ MarkIsBelow(txnMark, commitTs, nextTxnTs - 1)
  /\ lastCleanupTs <= readMark.doneUntil

TimestampsInv ==
  \A t \in Txns :
    /\ commitTs[t] < nextTxnTs
    /\ IsActive(t) => readTs[t] < nextTxnTs
    /\ commitTs[t] > 0 => pc[t] \in {"accepted", "written", "ended"}
    /\ t \in Committers => commitTs[t] > 0
    /\ t \in written => commitTs[t] > 0 /\ pc[t] \in {"written", "ended"}

\* A goroutine has one transaction at a time, the lock one holder.
ExclusionInv ==
  \A t, u \in Txns :
    /\ Owner[t] = Owner[u] /\ {pc[t], pc[u]} \cap {"new", "ended"} = {} => t = u
    /\ pc[t] = "checked" /\ pc[u] = "checked" => t = u

\* The oracle remembers every commit that a reader can conflict with.  It does
\* not for a reader at timestamp 0, which the water mark does not know: of
\* these only a first writer commits, and none is open after a commit.
RemembersInv ==
  \A t \in Txns :
    /\ t \in Readers /\ readTs[t] > 0
         => \A v \in Txns : commitTs[v] > readTs[t] => v \in committedTxns
    /\ IsActive(t) /\ readTs[t] = 0 /\ Owner[t] \in FirstWriters => nextTxnTs = 1
    /\ pc[t] = "checked" => /\ readTs[t] = 0 => Owner[t] \in FirstWriters
                            /\ Writes[t] # {}
                            /\ ~IsOvertaken(t)

\* What was committed before an open transaction is written, or lost.
SnapshotInv ==
  \A t, v \in Txns : pc[t] \in {"open", "checked"} /\ pc[v] = "accepted"
                       => commitTs[v] > readTs[t]

\* The hypothesis of what is proved: one goroutine writes first.
OneWritesFirst == \A g, h \in FirstWriters : g = h

OracleInv == /\ TypeOK /\ WaterMarksInv /\ TimestampsInv
             /\ ExclusionInv /\ RemembersInv /\ SnapshotInv
==============================================================================
