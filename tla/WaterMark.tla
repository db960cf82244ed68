------------------------------ MODULE WaterMark ------------------------------
(***************************************************************************)
(* Badger's water mark (vendor/github.com/dgraph-io/badger/v3/             *)
(* y/watermark.go): transactions begin and finish at an index each, and    *)
(* DoneUntil is an index up to which all of them have finished.            *)
(*                                                                         *)
(* Begin and Done only send a mark into a channel; a goroutine of the      *)
(* water mark takes the marks out in their order, one at a time and at any *)
(* time (Processed).  A water mark is a record, the index of every         *)
(* transaction is a function.  The counter of an index in the code's       *)
(* `pending' is the number of the transactions of that index here; its     *)
(* heap is the set `indices'.  That the channel blocks when it is full is  *)
(* left out: it delays a caller, who holds the oracle's lock then.         *)
(***************************************************************************)
EXTENDS Naturals, Sequences

\* A water mark after Open has marked v as done, and its goroutine read that.
DoneAt(v) == [doneUntil |-> v, indices |-> {}, pending |-> {}, markCh |-> <<>>]

Send(m, mark) == [m EXCEPT !.markCh = Append(@, mark)]
Begin(m, t)   == Send(m, [txn |-> t, done |-> FALSE])
Done(m, t)    == Send(m, [txn |-> t, done |-> TRUE])

\* The indices that processOne pops from the heap: those below every index
\* that a transaction has begun and not finished.
Popped(indices, pending, index) ==
  {i \in indices : \A t \in pending : i < index[t]}

\* processOne leaves doneUntil at the last index it has popped.
Until(m, popped) == IF popped = {} THEN {m.doneUntil}
                    ELSE {i \in popped : \A j \in popped : j <= i}

\* The water marks (there is one) that the first mark of the channel leads to.
\* A mark of index 0 is dropped: process calls processOne for a positive index.
Processed(m, index) ==
  LET mark    == Head(m.markCh)
      rest    == [m EXCEPT !.markCh = Tail(@)]
      pending == IF mark.done THEN m.pending \ {mark.txn}
                              ELSE m.pending \cup {mark.txn}
      indices == m.indices \cup {index[mark.txn]}
      popped  == Popped(indices, pending, index)
  IN  IF index[mark.txn] = 0 THEN {rest}
      ELSE {[rest EXCEPT !.pending   = pending,
                         !.indices   = indices \ popped,
                         !.doneUntil = d] : d \in Until(m, popped)}

\* The assertion of processOne: a mark is not below what is done already.
MarkIsNotDone(m, index) ==
  m.markCh # <<>> /\ index[Head(m.markCh).txn] > 0
    => m.doneUntil <= index[Head(m.markCh).txn]

-----------------------------------------------------------------------------
(* What always holds of a water mark.  `begun' are the transactions that    *)
(* have ever sent it a mark, `open' those that have begun and not finished; *)
(* the indices of later beginnings are higher by at least `slack'.          *)

IsMark(m, begun) ==
  m \in [doneUntil : Nat, indices : SUBSET Nat, pending : SUBSET begun,
         markCh : Seq([txn : begun, done : BOOLEAN])]

\* Beginnings are sent in the order of their indices, so that none comes to
\* late: whatever was sent before it, or has been read, is not above it.
BeginsInOrder(m, index, slack) ==
  \A j \in 1..Len(m.markCh) : ~m.markCh[j].done =>
    /\ \A i \in 1..(j - 1) :
         index[m.markCh[i].txn] + slack <= index[m.markCh[j].txn]
    /\ \A x \in m.indices \cup {m.doneUntil} :
         x + slack <= index[m.markCh[j].txn]

\* Nothing that is done is above what the heap has, or above what is pending.
DoneIsLowest(m, index, slack) ==
  /\ \A x \in m.indices : m.doneUntil <= x
  /\ \A t \in m.pending : m.doneUntil + slack <= index[t]

\* t's beginning has been read, or was sent before the mark at j.
HasBegun(m, t, j) ==
  t \in m.pending \/ \E i \in 1..(j - 1) : m.markCh[i] = [txn |-> t, done |-> FALSE]

\* Every transaction begins once, and finishes once, after it has begun.
MarksArePaired(m, index, open) ==
  /\ \A i, j \in 1..Len(m.markCh) : i # j => m.markCh[i] # m.markCh[j]
  /\ \A j \in 1..Len(m.markCh) :
       m.markCh[j].done => /\ m.markCh[j].txn \notin open
                           /\ index[m.markCh[j].txn] > 0
                                => HasBegun(m, m.markCh[j].txn, j)
  /\ \A t \in open : index[t] > 0 => HasBegun(m, t, Len(m.markCh) + 1)

MarkInv(m, index, slack, begun, open) ==
  /\ IsMark(m, begun)
  /\ BeginsInOrder(m, index, slack)
  /\ DoneIsLowest(m, index, slack)
  /\ MarksArePaired(m, index, open)

\* No index above top has reached the water mark.
MarkIsBelow(m, index, top) ==
  /\ m.doneUntil <= top
  /\ \A x \in m.indices : x <= top
  /\ \A j \in 1..Len(m.markCh) : index[m.markCh[j].txn] <= top
==============================================================================
