------------------------- MODULE BadgerOracleProofs -------------------------
(***************************************************************************)
(* Proofs about Badger's oracle: that its timestamps implement the         *)
(* transactions of BadgerTxn, that the snapshot of a transaction never     *)
(* changes, and that the assertions of its code hold.                      *)
(***************************************************************************)
EXTENDS BadgerOracle, SequenceTheorems, TLAPS

-----------------------------------------------------------------------------
(* Water marks *)

\* A water mark that Open has set fulfils its invariant.
LEMMA DoneAtIsMark ==
  ASSUME NEW v \in Nat, NEW index, NEW slack, NEW begun, NEW top \in Nat, v <= top
  PROVE  /\ MarkInv(DoneAt(v), index, slack, begun, {})
         /\ MarkIsBelow(DoneAt(v), index, top)
  BY DEF MarkInv, MarkIsBelow, DoneAt, IsMark, BeginsInOrder, DoneIsLowest,
         MarksArePaired, HasBegun

\* n is m after the mark e was sent, which is of a transaction of `later'.
HasSent(m, n, e, begun, later) ==
  /\ IsMark(n, later)
  /\ n.doneUntil = m.doneUntil /\ n.indices = m.indices /\ n.pending = m.pending
  /\ Len(m.markCh) \in Nat /\ Len(n.markCh) = Len(m.markCh) + 1
  /\ n.markCh[Len(m.markCh) + 1] = e
  /\ \A i \in 1..Len(m.markCh) : /\ n.markCh[i] = m.markCh[i]
                               /\ m.markCh[i] \in [txn : begun, done : BOOLEAN]
  /\ \A u : \A j, k \in 1..(Len(m.markCh) + 2) :
       j <= k /\ j <= Len(m.markCh) + 1 /\ HasBegun(m, u, j) => HasBegun(n, u, k)

\* What sending a mark does to a water mark.
LEMMA SentMark ==
  ASSUME NEW m, NEW begun, NEW later, begun \subseteq later, IsMark(m, begun),
         NEW e \in [txn : later, done : BOOLEAN]
  PROVE  HasSent(m, Send(m, e), e, begun, later)
<1> DEFINE ch == m.markCh
           n  == Send(m, e)
<1>1. ch \in Seq([txn : begun, done : BOOLEAN])
  BY DEF IsMark
<1>2. [txn : begun, done : BOOLEAN] \subseteq [txn : later, done : BOOLEAN]
  OBVIOUS
<1>3. ch \in Seq([txn : later, done : BOOLEAN])
  BY <1>1, <1>2, SeqMonotonic
<1>4. Len(ch) \in Nat /\ \A i \in 1..Len(ch) : ch[i] \in [txn : begun, done : BOOLEAN]
  BY <1>1, LenProperties, ElementOfSeq
<1>5. /\ Append(ch, e) \in Seq([txn : later, done : BOOLEAN])
      /\ Len(Append(ch, e)) = Len(ch) + 1
      /\ \A i \in 1..Len(ch) : Append(ch, e)[i] = ch[i]
      /\ Append(ch, e)[Len(ch) + 1] = e
  BY <1>3, AppendProperties
<1>6. /\ n.markCh = Append(ch, e)
      /\ n.doneUntil = m.doneUntil /\ n.indices = m.indices /\ n.pending = m.pending
      /\ n \in [doneUntil : Nat, indices : SUBSET Nat, pending : SUBSET later,
               markCh : Seq([txn : later, done : BOOLEAN])]
  BY <1>5 DEF IsMark, Send
<1> HIDE DEF n
<1>7. ASSUME NEW u, NEW j \in 1..(Len(ch) + 2), NEW k \in 1..(Len(ch) + 2),
             j <= k, j <= Len(ch) + 1, HasBegun(m, u, j)
      PROVE  HasBegun(n, u, k)
  <2>1. CASE u \in m.pending
    BY <2>1, <1>6 DEF HasBegun
  <2>2. ASSUME NEW i \in 1..(j - 1), ch[i] = [txn |-> u, done |-> FALSE]
        PROVE  HasBegun(n, u, k)
    <3>1. i \in 1..Len(ch) /\ i \in 1..(k - 1)
      BY <1>4, <1>7
    <3> QED
      BY <2>2, <3>1, <1>5, <1>6 DEF HasBegun
  <2> QED
    BY <2>1, <2>2, <1>7 DEF HasBegun
<1> QED
  BY <1>4, <1>5, <1>6, <1>7 DEF IsMark, HasSent, n

\* A transaction that begins at an index above all that the water mark knows.
LEMMA BeginKeeps ==
  ASSUME NEW T, NEW m, NEW index \in [T -> Nat], NEW slack \in {0, 1},
         NEW begun \in SUBSET T, NEW open \in SUBSET begun, NEW top \in Nat,
         MarkInv(m, index, slack, begun, open), MarkIsBelow(m, index, top),
         NEW t \in T \ begun, NEW v \in Nat, top + slack <= v,
         NEW after \in [T -> Nat], after = [index EXCEPT ![t] = v]
  PROVE  /\ MarkInv(Begin(m, t), after, slack, begun \cup {t}, open \cup {t})
         /\ MarkIsBelow(Begin(m, t), after, v)
<1> DEFINE ch == m.markCh
<1>0. PICK n, last : last = [txn |-> t, done |-> FALSE] /\ n = Send(m, last)
  OBVIOUS
<1>1. IsMark(m, begun) /\ BeginsInOrder(m, index, slack)
      /\ DoneIsLowest(m, index, slack) /\ MarksArePaired(m, index, open)
  BY DEF MarkInv
<1>2. last \in [txn : begun \cup {t}, done : BOOLEAN] /\ last.txn = t
      /\ last.done = FALSE
  BY <1>0
<1>3. n = Begin(m, t) /\ begun \subseteq begun \cup {t}
  BY <1>0 DEF Begin
<1>4. /\ IsMark(n, begun \cup {t})
      /\ n.doneUntil = m.doneUntil /\ n.indices = m.indices /\ n.pending = m.pending
      /\ Len(ch) \in Nat /\ Len(n.markCh) = Len(ch) + 1
      /\ n.markCh[Len(ch) + 1] = last
      /\ \A i \in 1..Len(ch) : n.markCh[i] = ch[i] /\ ch[i] \in [txn : begun, done : BOOLEAN]
      /\ \A u : \A j, k \in 1..(Len(ch) + 2) :
           j <= k /\ j <= Len(ch) + 1 /\ HasBegun(m, u, j) => HasBegun(n, u, k)
  <2>1. PICK later : later = begun \cup {t}
    OBVIOUS
  <2>2. /\ IsMark(m, begun) /\ begun \subseteq later
        /\ last \in [txn : later, done : BOOLEAN] /\ n = Send(m, last)
    BY <2>1, <1>0, <1>1, <1>2
  <2>3. HasSent(m, n, last, begun, later)
    BY <2>2, SentMark
  <2> QED
    BY <2>1, <2>3 DEF HasSent
<1>len. Len(ch) \in Nat
  BY <1>4
<1>5. m.pending \subseteq begun /\ m.indices \subseteq Nat /\ m.doneUntil \in Nat
  BY <1>1 DEF IsMark
<1>6. \A u \in begun : after[u] = index[u]
  OBVIOUS
<1>7. after[t] = v
  OBVIOUS
<1>8. BeginsInOrder(n, after, slack)
  <2> SUFFICES ASSUME NEW j \in 1..(Len(ch) + 1), ~n.markCh[j].done
               PROVE  /\ \A i \in 1..(j - 1) :
                           after[n.markCh[i].txn] + slack <= after[n.markCh[j].txn]
                      /\ \A x \in m.indices \cup {m.doneUntil} :
                           x + slack <= after[n.markCh[j].txn]
    BY <1>4 DEF BeginsInOrder
  <2>1. CASE j \in 1..Len(ch)
    <3>1. /\ n.markCh[j] = ch[j] /\ ~ch[j].done
          /\ \A i \in 1..j : n.markCh[i] = ch[i] /\ ch[i].txn \in begun
      <4>1. j \in Nat /\ \A i \in 1..j : i \in 1..Len(ch)
        BY <2>1, <1>4
      <4>2. \A i \in 1..Len(ch) : n.markCh[i] = ch[i] /\ ch[i].txn \in begun
        BY <1>4
      <4>3. n.markCh[j] = ch[j]
        BY <2>1, <4>2
      <4> QED
        BY <2>1, <4>1, <4>2, <4>3
    <3>2. \A i \in 1..j : after[n.markCh[i].txn] = index[ch[i].txn]
      BY <3>1, <1>6
    <3>3. /\ \A i \in 1..(j - 1) : index[ch[i].txn] + slack <= index[ch[j].txn]
          /\ \A x \in m.indices \cup {m.doneUntil} : x + slack <= index[ch[j].txn]
      BY <2>1, <3>1, <1>1 DEF BeginsInOrder
    <3>4. j \in 1..j /\ \A i \in 1..(j - 1) : i \in 1..j
      BY <2>1, <1>4
    <3> QED
      BY <3>2, <3>3, <3>4
  <2>2. CASE j = Len(ch) + 1
    <3>1. \A i \in 1..Len(ch) : index[ch[i].txn] <= top /\ index[ch[i].txn] \in Nat
      BY <1>4 DEF MarkIsBelow
    <3>2. \A x \in m.indices \cup {m.doneUntil} : x <= top /\ x \in Nat
      BY <1>5 DEF MarkIsBelow
    <3>3. n.markCh[j].txn = t /\ after[n.markCh[j].txn] = v
      BY <2>2, <1>2, <1>4, <1>7
    <3>4. \A i \in 1..(j - 1) : i \in 1..Len(ch)
      BY <2>2, <1>4
    <3>5. \A i \in 1..Len(ch) : after[n.markCh[i].txn] = index[ch[i].txn]
      BY <1>4, <1>6
    <3>6. \A x \in Nat : x <= top => x + slack <= v
      OBVIOUS
    <3>7. \A i \in 1..(j - 1) : after[n.markCh[i].txn] + slack <= v
      BY <3>1, <3>4, <3>5, <3>6
    <3>8. \A x \in m.indices \cup {m.doneUntil} : x + slack <= v
      BY <3>2, <3>6
    <3> QED
      BY <3>3, <3>7, <3>8
  <2> QED
    BY <1>4, <2>1, <2>2
<1>9. DoneIsLowest(n, after, slack)
  BY <1>1, <1>4, <1>5, <1>6 DEF DoneIsLowest
<1>10. MarksArePaired(n, after, open \cup {t})
  <2>1. ASSUME NEW i \in 1..(Len(ch) + 1), NEW j \in 1..(Len(ch) + 1), i # j
        PROVE  n.markCh[i] # n.markCh[j]
    <3>1. \A l \in 1..Len(ch) : ch[l] # last
      BY <1>2, <1>4
    <3>2. CASE i \in 1..Len(ch) /\ j \in 1..Len(ch)
      BY <2>1, <3>2, <1>1, <1>4 DEF MarksArePaired
    <3>3. CASE i = Len(ch) + 1
      <4>1. j \in 1..Len(ch)
        BY <2>1, <3>3, <1>4
      <4>2. n.markCh[i] = last /\ n.markCh[j] = ch[j]
        BY <3>3, <4>1, <1>4
      <4> QED
        BY <4>1, <4>2, <3>1
    <3>4. CASE j = Len(ch) + 1
      <4>1. i \in 1..Len(ch) /\ n.markCh[j] = last /\ n.markCh[i] = ch[i]
        BY <2>1, <3>4, <1>4
      <4> QED
        BY <4>1, <3>1
    <3>5. /\ i \in 1..Len(ch) \/ i = Len(ch) + 1
          /\ j \in 1..Len(ch) \/ j = Len(ch) + 1
      BY <1>len
    <3> QED
      BY <3>2, <3>3, <3>4, <3>5
  <2>2. ASSUME NEW j \in 1..(Len(ch) + 1), n.markCh[j].done
        PROVE  /\ n.markCh[j].txn \notin open \cup {t}
               /\ after[n.markCh[j].txn] > 0 => HasBegun(n, n.markCh[j].txn, j)
    <3>1. j \in 1..Len(ch) /\ n.markCh[j] = ch[j]
      <4>1. j # Len(ch) + 1
        BY <2>2, <1>2, <1>4
      <4>2. j \in 1..Len(ch)
        BY <4>1, <1>4
      <4> QED
        BY <4>2, <1>4
    <3>2. ch[j].txn \in begun
      BY <3>1, <1>4
    <3>3. HasBegun(m, ch[j].txn, j) => HasBegun(n, ch[j].txn, j)
      <4>1. j \in 1..(Len(ch) + 2) /\ j <= j /\ j <= Len(ch) + 1
        BY <3>1, <1>4
      <4> QED
        BY <4>1, <1>4
    <3> QED
      BY <2>2, <3>1, <3>2, <3>3, <1>1, <1>6 DEF MarksArePaired
  <2>3. ASSUME NEW u \in open \cup {t}, after[u] > 0
        PROVE  HasBegun(n, u, Len(n.markCh) + 1)
    <3>1. CASE u = t
      <4>1. Len(ch) + 1 \in 1..(Len(n.markCh) + 1 - 1)
        BY <1>4
      <4>2. n.markCh[Len(ch) + 1] = [txn |-> u, done |-> FALSE]
        BY <3>1, <1>0, <1>4
      <4> QED
        BY <4>1, <4>2 DEF HasBegun
    <3>2. CASE u \in open
      <4>1. HasBegun(m, u, Len(ch) + 1)
        BY <3>2, <2>3, <1>1, <1>6 DEF MarksArePaired
      <4>2. /\ Len(ch) + 1 \in 1..(Len(ch) + 2)
            /\ Len(n.markCh) + 1 \in 1..(Len(ch) + 2)
            /\ Len(ch) + 1 <= Len(n.markCh) + 1 /\ Len(ch) + 1 <= Len(ch) + 1
        BY <1>4
      <4> QED
        BY <4>1, <4>2, <1>4
    <3> QED
      BY <3>1, <3>2
  <2> QED
    BY <2>1, <2>2, <2>3, <1>4 DEF MarksArePaired
<1>11. MarkIsBelow(n, after, v)
  <2>1. top <= v
    OBVIOUS
  <2>2. /\ m.doneUntil <= top /\ \A x \in m.indices : x <= top
        /\ \A j \in 1..Len(ch) : index[ch[j].txn] <= top /\ index[ch[j].txn] \in Nat
    BY <1>4 DEF MarkIsBelow
  <2>3. m.doneUntil <= v /\ \A x \in m.indices : x <= v
    BY <2>1, <2>2, <1>5
  <2>4. ASSUME NEW j \in 1..(Len(ch) + 1)
        PROVE  after[n.markCh[j].txn] <= v
    <3>1. CASE j \in 1..Len(ch)
      <4>0. n.markCh[j] = ch[j] /\ ch[j].txn \in begun
        BY <3>1, <1>4
      <4>1. after[n.markCh[j].txn] = index[ch[j].txn]
        BY <4>0, <1>6
      <4>2. index[ch[j].txn] <= top /\ index[ch[j].txn] \in Nat
        BY <3>1, <2>2
      <4> QED
        BY <4>1, <4>2, <2>1
    <3>2. CASE j = Len(ch) + 1
      BY <3>2, <1>2, <1>4, <1>7
    <3> QED
      BY <3>1, <3>2, <1>4
  <2> QED
    BY <2>3, <2>4, <1>4 DEF MarkIsBelow
<1> QED
  BY <1>3, <1>4, <1>8, <1>9, <1>10, <1>11 DEF MarkInv

\* An open transaction finishes.
LEMMA DoneKeeps ==
  ASSUME NEW T, NEW m, NEW index \in [T -> Nat], NEW slack \in {0, 1},
         NEW begun \in SUBSET T, NEW open \in SUBSET begun, NEW top \in Nat,
         MarkInv(m, index, slack, begun, open), MarkIsBelow(m, index, top),
         NEW t \in open, index[t] <= top
  PROVE  /\ MarkInv(Done(m, t), index, slack, begun, open \ {t})
         /\ MarkIsBelow(Done(m, t), index, top)
<1> DEFINE ch == m.markCh
<1>0. PICK n, last : last = [txn |-> t, done |-> TRUE] /\ n = Send(m, last)
  OBVIOUS
<1>1. IsMark(m, begun) /\ BeginsInOrder(m, index, slack)
      /\ DoneIsLowest(m, index, slack) /\ MarksArePaired(m, index, open)
  BY DEF MarkInv
<1>2. last \in [txn : begun, done : BOOLEAN] /\ last.txn = t /\ last.done = TRUE
  BY <1>0
<1>3. n = Done(m, t) /\ begun \subseteq begun
  BY <1>0 DEF Done
<1>4. /\ IsMark(n, begun)
      /\ n.doneUntil = m.doneUntil /\ n.indices = m.indices /\ n.pending = m.pending
      /\ Len(ch) \in Nat /\ Len(n.markCh) = Len(ch) + 1
      /\ n.markCh[Len(ch) + 1] = last
      /\ \A i \in 1..Len(ch) : n.markCh[i] = ch[i] /\ ch[i] \in [txn : begun, done : BOOLEAN]
      /\ \A u : \A j, k \in 1..(Len(ch) + 2) :
           j <= k /\ j <= Len(ch) + 1 /\ HasBegun(m, u, j) => HasBegun(n, u, k)
  <2>1. HasSent(m, n, last, begun, begun)
    BY <1>0, <1>1, <1>2, <1>3, SentMark
  <2> QED
    BY <2>1 DEF HasSent
<1>5. m.pending \subseteq begun /\ m.indices \subseteq Nat /\ m.doneUntil \in Nat
  BY <1>1 DEF IsMark
<1>6. BeginsInOrder(n, index, slack)
  <2> SUFFICES ASSUME NEW j \in 1..(Len(ch) + 1), ~n.markCh[j].done
               PROVE  /\ \A i \in 1..(j - 1) :
                           index[n.markCh[i].txn] + slack <= index[n.markCh[j].txn]
                      /\ \A x \in m.indices \cup {m.doneUntil} :
                           x + slack <= index[n.markCh[j].txn]
    BY <1>3, <1>4 DEF BeginsInOrder
  <2>1. j \in 1..Len(ch)
    BY <1>2, <1>4
  <2>2. \A i \in 1..(j - 1) : i \in 1..Len(ch)
    BY <2>1, <1>2
  <2> QED
    BY <2>1, <2>2, <1>1, <1>4 DEF BeginsInOrder
<1>7. DoneIsLowest(n, index, slack)
  BY <1>1, <1>4 DEF DoneIsLowest
<1>8. \A l \in 1..Len(ch) : ch[l] # last
  BY <1>1, <1>2, <1>4 DEF MarksArePaired
<1>10. MarksArePaired(n, index, open \ {t})
  <2>1. ASSUME NEW i \in 1..(Len(ch) + 1), NEW j \in 1..(Len(ch) + 1), i # j
        PROVE  n.markCh[i] # n.markCh[j]
    <3>1. CASE i \in 1..Len(ch) /\ j \in 1..Len(ch)
      BY <2>1, <3>1, <1>1, <1>4 DEF MarksArePaired
    <3>2. CASE i = Len(ch) + 1
      <4>1. j \in 1..Len(ch) /\ n.markCh[i] = last /\ n.markCh[j] = ch[j]
        BY <2>1, <3>2, <1>4
      <4> QED
        BY <4>1, <1>8
    <3>3. CASE j = Len(ch) + 1
      <4>1. i \in 1..Len(ch) /\ n.markCh[j] = last /\ n.markCh[i] = ch[i]
        BY <2>1, <3>3, <1>4
      <4> QED
        BY <4>1, <1>8
    <3> QED
      BY <1>4, <3>1, <3>2, <3>3
  <2>2. ASSUME NEW j \in 1..(Len(ch) + 1), n.markCh[j].done
        PROVE  /\ n.markCh[j].txn \notin open \ {t}
               /\ index[n.markCh[j].txn] > 0 => HasBegun(n, n.markCh[j].txn, j)
    <3>1. CASE j \in 1..Len(ch)
      <4>1. n.markCh[j] = ch[j] /\ j \in Nat
        BY <3>1, <1>4
      <4>2. /\ ch[j].txn \notin open
            /\ index[ch[j].txn] > 0 => HasBegun(m, ch[j].txn, j)
        BY <3>1, <4>1, <2>2, <1>1 DEF MarksArePaired
      <4>3. \A u : HasBegun(m, u, j) => HasBegun(n, u, j)
        <5>1. j \in 1..(Len(ch) + 2) /\ j <= j /\ j <= Len(ch) + 1
          BY <3>1, <1>4
        <5> QED
          BY <5>1, <1>4
      <4> QED
        BY <4>1, <4>2, <4>3
    <3>2. CASE j = Len(ch) + 1
      <4>1. n.markCh[j] = last /\ last.txn = t
        BY <3>2, <1>2, <1>4
      <4>2. index[t] > 0 => HasBegun(m, t, j)
        BY <3>2, <1>1 DEF MarksArePaired
      <4> QED
        BY <3>2, <4>1, <4>2, <1>2, <1>4
    <3> QED
      BY <1>2, <3>1, <3>2
  <2>3. ASSUME NEW u \in open \ {t}, index[u] > 0
        PROVE  HasBegun(n, u, Len(n.markCh) + 1)
    <3>1. HasBegun(m, u, Len(ch) + 1)
      BY <2>3, <1>1 DEF MarksArePaired
    <3>2. /\ Len(ch) + 1 \in 1..(Len(ch) + 2)
          /\ Len(n.markCh) + 1 \in 1..(Len(ch) + 2)
          /\ Len(ch) + 1 <= Len(n.markCh) + 1 /\ Len(ch) + 1 <= Len(ch) + 1
      BY <1>4
    <3> QED
      BY <3>1, <3>2, <1>4
  <2> QED
    BY <2>1, <2>2, <2>3, <1>4 DEF MarksArePaired
<1>11. MarkIsBelow(n, index, top)
  <2>1. \A j \in 1..Len(n.markCh) : \/ j \in 1..Len(ch) /\ n.markCh[j] = ch[j]
                                    \/ n.markCh[j] = last
    <3>1. \A j \in 1..Len(n.markCh) : j \in 1..Len(ch) \/ j = Len(ch) + 1
      BY <1>4
    <3> QED
      BY <3>1, <1>4
  <2> QED
    BY <2>1, <1>2, <1>4, <1>5 DEF MarkIsBelow
<1> QED
  BY <1>3, <1>4, <1>6, <1>7, <1>10, <1>11 DEF MarkInv

\* A mark that is read is not below what is done: processOne's assertion.
LEMMA HeadIsNotDone ==
  ASSUME NEW T, NEW m, NEW index \in [T -> Nat], NEW slack \in {0, 1},
         NEW begun \in SUBSET T, NEW open \in SUBSET begun,
         MarkInv(m, index, slack, begun, open), m.markCh # <<>>,
         index[Head(m.markCh).txn] > 0
  PROVE  /\ m.doneUntil <= index[Head(m.markCh).txn]
         /\ ~Head(m.markCh).done => m.doneUntil + slack <= index[Head(m.markCh).txn]
<1> DEFINE ch == m.markCh
<1>1. /\ ch \in Seq([txn : begun, done : BOOLEAN]) /\ m.doneUntil \in Nat
      /\ m.pending \subseteq begun
  BY DEF MarkInv, IsMark
<1>2. Len(ch) \in Nat \ {0} /\ Head(ch) = ch[1] /\ 1 \in 1..Len(ch)
  BY <1>1, EmptySeq
<1>3. ch[1] \in [txn : begun, done : BOOLEAN] /\ index[ch[1].txn] \in Nat
  <2>1. ch[1] \in [txn : begun, done : BOOLEAN]
    BY <1>1, <1>2, ElementOfSeq
  <2> QED
    BY <2>1
<1>4. CASE ~ch[1].done
  <2>1. m.doneUntil + slack <= index[ch[1].txn]
    BY <1>2, <1>4 DEF MarkInv, BeginsInOrder
  <2> QED
    BY <2>1, <1>1, <1>2, <1>3
<1>5. CASE ch[1].done
  <2>1. HasBegun(m, ch[1].txn, 1)
    BY <1>2, <1>5 DEF MarkInv, MarksArePaired
  <2>2. ch[1].txn \in m.pending
    BY <2>1 DEF HasBegun
  <2>3. m.doneUntil + slack <= index[ch[1].txn]
    BY <2>2 DEF MarkInv, DoneIsLowest
  <2> QED
    BY <2>3, <1>1, <1>2, <1>3, <1>5
<1> QED
  BY <1>4, <1>5, <1>3

\* The water mark's goroutine reads a mark.
LEMMA ProcessKeeps ==
  ASSUME NEW T, NEW m, NEW index \in [T -> Nat], NEW slack \in {0, 1},
         NEW begun \in SUBSET T, NEW open \in SUBSET begun, NEW top \in Nat,
         MarkInv(m, index, slack, begun, open), MarkIsBelow(m, index, top),
         m.markCh # <<>>, NEW n \in Processed(m, index)
  PROVE  /\ MarkInv(n, index, slack, begun, open)
         /\ MarkIsBelow(n, index, top)
         /\ m.doneUntil <= n.doneUntil
<1> DEFINE ch == m.markCh
<1>1. IsMark(m, begun) /\ BeginsInOrder(m, index, slack)
      /\ DoneIsLowest(m, index, slack) /\ MarksArePaired(m, index, open)
  BY DEF MarkInv
<1>2. /\ ch \in Seq([txn : begun, done : BOOLEAN]) /\ m.doneUntil \in Nat
      /\ m.pending \subseteq begun /\ m.indices \subseteq Nat
  BY <1>1 DEF IsMark
<1>3. PICK mark, x : mark = Head(ch) /\ x = index[mark.txn]
  OBVIOUS
<1>4. /\ Len(ch) \in Nat \ {0} /\ mark = ch[1]
      /\ Tail(ch) \in Seq([txn : begun, done : BOOLEAN])
      /\ Len(Tail(ch)) = Len(ch) - 1
      /\ \A i \in 1..(Len(ch) - 1) : Tail(ch)[i] = ch[i + 1]
      /\ \A i \in 1..Len(ch) : ch[i] \in [txn : begun, done : BOOLEAN]
  <2>1. Len(ch) \in Nat \ {0}
    BY <1>2, EmptySeq
  <2>2. \A i \in 1..Len(ch) : ch[i] \in [txn : begun, done : BOOLEAN]
    BY <1>2, ElementOfSeq
  <2>3. /\ Tail(ch) \in Seq([txn : begun, done : BOOLEAN])
        /\ Len(Tail(ch)) = Len(ch) - 1
        /\ \A i \in 1..Len(Tail(ch)) : Tail(ch)[i] = ch[i + 1]
    BY <1>2, HeadTailProperties
  <2>4. Head(ch) = ch[1]
    BY <1>2
  <2> QED
    BY <2>1, <2>2, <2>3, <2>4, <1>3
<1>len. Len(ch) \in Nat \ {0}
  BY <1>4
<1>5. /\ mark \in [txn : begun, done : BOOLEAN]
      /\ mark.txn \in begun /\ mark.done \in BOOLEAN /\ x \in Nat /\ x <= top
      /\ mark = [txn |-> mark.txn, done |-> mark.done]
  <2>1. 1 \in 1..Len(ch)
    BY <1>4
  <2>2. mark \in [txn : begun, done : BOOLEAN]
    BY <1>4, <2>1
  <2>3. index[ch[1].txn] <= top
    BY <2>1 DEF MarkIsBelow
  <2> QED
    BY <2>2, <2>3, <1>3, <1>4
<1>6. /\ x > 0 => m.doneUntil <= x
      /\ x > 0 /\ ~mark.done => m.doneUntil + slack <= x
  BY <1>3, HeadIsNotDone
<1>7. PICK pending, indices, popped :
        /\ pending = IF mark.done THEN m.pending \ {mark.txn}
                                  ELSE m.pending \cup {mark.txn}
        /\ indices = m.indices \cup {x}
        /\ popped = Popped(indices, pending, index)
  OBVIOUS
\* What becomes of the water mark, whichever the mark.
<1>8. /\ n.markCh = Tail(ch)
      /\ IsMark(n, begun)
      /\ m.doneUntil <= n.doneUntil
      /\ n.indices \subseteq indices
      /\ n.doneUntil = m.doneUntil \/ n.doneUntil \in indices
      /\ x > 0 => n.pending = pending
      /\ x = 0 => n.pending = m.pending
      /\ DoneIsLowest(n, index, slack)
  <2>1. CASE x = 0
    <3>1. n = [m EXCEPT !.markCh = Tail(@)]
      BY <2>1, <1>3 DEF Processed
    <3>2. /\ n.markCh = Tail(ch) /\ n.doneUntil = m.doneUntil
          /\ n.indices = m.indices /\ n.pending = m.pending /\ IsMark(n, begun)
      BY <3>1, <1>1, <1>4 DEF IsMark
    <3> QED
      BY <3>2, <2>1, <1>1, <1>2, <1>7 DEF DoneIsLowest
  <2>2. CASE x > 0
    <3>1. PICK d \in Until(m, popped) :
            n = [[m EXCEPT !.markCh = Tail(@)] EXCEPT !.pending = pending,
                                                     !.indices = indices \ popped,
                                                     !.doneUntil = d]
      <4>1. index[Head(ch).txn] # 0 /\ Head(ch) = mark /\ index[mark.txn] = x
        BY <2>2, <1>3, <1>5
      <4>2. n \in {[[m EXCEPT !.markCh = Tail(@)] EXCEPT !.pending = pending,
                                                       !.indices = indices \ popped,
                                                       !.doneUntil = d] :
                     d \in Until(m, popped)}
        BY <4>1, <1>7 DEF Processed
      <4> QED
        BY <4>2
    <3>2. /\ pending \subseteq begun /\ indices \subseteq Nat /\ popped \subseteq indices
          /\ \A i \in indices : i \in popped <=> \A u \in pending : i < index[u]
      BY <1>2, <1>5, <1>7 DEF Popped
    <3>3. \A i \in indices : m.doneUntil <= i
      <4>1. \A i \in m.indices : m.doneUntil <= i
        BY <1>1 DEF DoneIsLowest
      <4>2. m.doneUntil <= x
        BY <2>2, <1>6
      <4> QED
        BY <4>1, <4>2, <1>7
    <3>4. \/ d = m.doneUntil
          \/ d \in popped
      BY DEF Until
    <3>5. d \in Nat /\ m.doneUntil <= d
      <4>1. CASE d = m.doneUntil
        BY <4>1, <1>2
      <4>2. CASE d \in popped
        BY <4>2, <3>2, <3>3
      <4> QED
        BY <4>1, <4>2, <3>4
    <3>6. /\ n.markCh = Tail(ch) /\ n.pending = pending
          /\ n.indices = indices \ popped /\ n.doneUntil = d /\ IsMark(n, begun)
      BY <3>1, <3>2, <3>5, <1>1, <1>4 DEF IsMark
    <3>7. \A i \in indices \ popped : d <= i
      <4> SUFFICES ASSUME NEW i \in indices \ popped, d \in popped
                   PROVE  d <= i
        BY <3>3, <3>4
      <4>1. PICK u \in pending : ~(i < index[u])
        BY <3>2
      <4>2. d < index[u] /\ index[u] \in Nat /\ i \in Nat
        BY <4>1, <3>2
      <4> QED
        BY <4>1, <4>2, <3>5
    <3>8. \A u \in pending : d + slack <= index[u]
      <4> TAKE u \in pending
      <4>1. index[u] \in Nat
        BY <3>2
      <4>2. CASE d \in popped
        BY <4>1, <4>2, <3>2, <3>5
      <4>3. CASE d = m.doneUntil /\ u \in m.pending
        BY <4>3, <1>1 DEF DoneIsLowest
      <4>4. CASE d = m.doneUntil /\ u \notin m.pending
        <5>1. u = mark.txn /\ ~mark.done /\ index[u] = x
          BY <4>4, <1>3, <1>7
        <5> QED
          BY <5>1, <4>4, <2>2, <1>6
      <4> QED
        BY <4>2, <4>3, <4>4, <3>4
    <3>9. DoneIsLowest(n, index, slack)
      BY <3>6, <3>7, <3>8 DEF DoneIsLowest
    <3>10. d = m.doneUntil \/ d \in indices
      BY <3>2, <3>4
    <3> QED
      BY <2>2, <3>5, <3>6, <3>9, <3>10
  <2> QED
    BY <2>1, <2>2, <1>5
<1>9. BeginsInOrder(n, index, slack)
  <2> SUFFICES ASSUME NEW j \in 1..(Len(ch) - 1), ~ch[j + 1].done
               PROVE  /\ \A i \in 1..(j - 1) :
                           index[ch[i + 1].txn] + slack <= index[ch[j + 1].txn]
                      /\ \A y \in n.indices \cup {n.doneUntil} :
                           y + slack <= index[ch[j + 1].txn]
    <3>1. \A j \in 1..(Len(ch) - 1) : \A i \in 1..(j - 1) : i \in 1..(Len(ch) - 1)
      BY <1>4
    <3> QED
      BY <3>1, <1>4, <1>8 DEF BeginsInOrder
  <2>1. /\ \A i \in 1..j : index[ch[i].txn] + slack <= index[ch[j + 1].txn]
        /\ \A y \in m.indices \cup {m.doneUntil} : y + slack <= index[ch[j + 1].txn]
    <3>1. j + 1 \in 1..Len(ch) /\ (j + 1) - 1 = j
      BY <1>4
    <3> QED
      BY <3>1, <1>1 DEF BeginsInOrder
  <2>2. \A i \in 1..(j - 1) : i + 1 \in 1..j
    BY <1>4
  <2>3. x + slack <= index[ch[j + 1].txn]
    <3>1. 1 \in 1..j
      BY <1>4
    <3> QED
      BY <3>1, <2>1, <1>3, <1>4
  <2>4. \A y \in indices \cup {m.doneUntil} : y + slack <= index[ch[j + 1].txn]
    BY <2>1, <2>3, <1>7
  <2> QED
    BY <2>1, <2>2, <2>4, <1>8
\* A beginning that was sent, or read, still was.
<1>10. ASSUME NEW u \in begun, NEW j \in 1..Len(ch), index[u] > 0,
              HasBegun(m, u, j + 1), mark # [txn |-> u, done |-> TRUE]
       PROVE  HasBegun(n, u, j)
  <2>1. CASE u \in m.pending
    <3>1. mark.txn = u => ~mark.done
      BY <1>5, <1>10
    <3>2. u \in n.pending
      BY <2>1, <3>1, <1>5, <1>7, <1>8
    <3> QED
      BY <3>2 DEF HasBegun
  <2>2. ASSUME NEW i \in 1..j, ch[i] = [txn |-> u, done |-> FALSE]
        PROVE  HasBegun(n, u, j)
    <3>1. CASE i = 1
      <4>1. mark.txn = u /\ ~mark.done /\ x > 0
        BY <2>2, <3>1, <1>3, <1>4, <1>10
      <4>2. u \in n.pending
        BY <4>1, <1>7, <1>8
      <4> QED
        BY <4>2 DEF HasBegun
    <3>2. CASE i # 1
      <4>1. i - 1 \in 1..(j - 1) /\ i - 1 \in 1..(Len(ch) - 1) /\ (i - 1) + 1 = i
        BY <3>2, <1>4
      <4>2. n.markCh[i - 1] = ch[i]
        BY <4>1, <1>4, <1>8
      <4> QED
        BY <2>2, <4>1, <4>2 DEF HasBegun
    <3> QED
      BY <3>1, <3>2
  <2>3. (j + 1) - 1 = j
    BY <1>4
  <2> QED
    BY <2>1, <2>2, <2>3, <1>10 DEF HasBegun
<1>11. MarksArePaired(n, index, open)
  <2>1. ASSUME NEW i \in 1..(Len(ch) - 1), NEW j \in 1..(Len(ch) - 1), i # j
        PROVE  n.markCh[i] # n.markCh[j]
    <3>1. i + 1 \in 1..Len(ch) /\ j + 1 \in 1..Len(ch) /\ i + 1 # j + 1
      BY <2>1, <1>4
    <3>2. ch[i + 1] # ch[j + 1]
      BY <3>1, <1>1 DEF MarksArePaired
    <3> QED
      BY <3>2, <1>4, <1>8
  <2>2. ASSUME NEW j \in 1..(Len(ch) - 1), n.markCh[j].done
        PROVE  /\ n.markCh[j].txn \notin open
               /\ index[n.markCh[j].txn] > 0 => HasBegun(n, n.markCh[j].txn, j)
    <3>0. /\ j + 1 \in 1..Len(ch) /\ j \in 1..Len(ch)
          /\ 1 \in 1..Len(ch) /\ j + 1 # 1
      BY <1>len
    <3>1. /\ n.markCh[j] = ch[j + 1] /\ j + 1 \in 1..Len(ch) /\ j \in 1..Len(ch)
          /\ 1 \in 1..Len(ch) /\ j + 1 # 1
      BY <3>0, <1>8
    <3>2. /\ ch[j + 1].txn \notin open
          /\ index[ch[j + 1].txn] > 0 => HasBegun(m, ch[j + 1].txn, j + 1)
      BY <2>2, <3>1, <1>1 DEF MarksArePaired
    <3>3. ch[1] # ch[j + 1]
      BY <3>1, <1>1 DEF MarksArePaired
    <3>4. ch[j + 1] = [txn |-> ch[j + 1].txn, done |-> TRUE] /\ ch[j + 1].txn \in begun
      <4>1. ch[j + 1] \in [txn : begun, done : BOOLEAN] /\ ch[j + 1].done
        BY <2>2, <3>1, <1>4
      <4> QED
        BY <4>1
    <3>5. mark # [txn |-> ch[j + 1].txn, done |-> TRUE]
      BY <3>3, <3>4, <1>4
    <3> QED
      BY <3>1, <3>2, <3>4, <3>5, <1>10
  <2>3. ASSUME NEW u \in open, index[u] > 0
        PROVE  HasBegun(n, u, Len(n.markCh) + 1)
    <3>1. HasBegun(m, u, Len(ch) + 1) /\ u \in begun
      BY <2>3, <1>1 DEF MarksArePaired
    <3>2. mark # [txn |-> u, done |-> TRUE]
      <4>1. 1 \in 1..Len(ch)
        BY <1>4
      <4>2. ch[1].done => ch[1].txn \notin open
        BY <4>1, <1>1 DEF MarksArePaired
      <4> QED
        BY <4>2, <1>4
    <3>3. Len(ch) \in 1..Len(ch) /\ Len(n.markCh) + 1 = Len(ch)
      BY <1>4, <1>8
    <3> QED
      BY <2>3, <3>1, <3>2, <3>3, <1>10
  <2>4. Len(n.markCh) = Len(ch) - 1
    BY <1>4, <1>8
  <2> QED
    BY <2>1, <2>2, <2>3, <2>4 DEF MarksArePaired
<1>12. MarkIsBelow(n, index, top)
  <2>1. \A i \in indices : i <= top
    BY <1>5, <1>7 DEF MarkIsBelow
  <2>2. n.doneUntil <= top
    BY <2>1, <1>8 DEF MarkIsBelow
  <2>3. ASSUME NEW j \in 1..(Len(ch) - 1)
        PROVE  index[n.markCh[j].txn] <= top
    <3>1. n.markCh[j] = ch[j + 1] /\ j + 1 \in 1..Len(ch)
      BY <1>4, <1>8
    <3> QED
      BY <3>1 DEF MarkIsBelow
  <2>4. Len(n.markCh) = Len(ch) - 1
    BY <1>4, <1>8
  <2> QED
    BY <2>1, <2>2, <2>3, <2>4, <1>8 DEF MarkIsBelow
<1> QED
  BY <1>8, <1>9, <1>11, <1>12 DEF MarkInv

\* What has begun at a positive index and not finished is not done.
LEMMA OpenIsNotDone ==
  ASSUME NEW T, NEW m, NEW index \in [T -> Nat], NEW slack \in {0, 1},
         NEW begun \in SUBSET T, NEW open \in SUBSET begun,
         MarkInv(m, index, slack, begun, open),
         NEW t \in open, index[t] > 0
  PROVE  m.doneUntil + slack <= index[t]
<1>1. HasBegun(m, t, Len(m.markCh) + 1)
  BY DEF MarkInv, MarksArePaired
<1>2. CASE t \in m.pending
  BY <1>2 DEF MarkInv, DoneIsLowest
<1>3. CASE t \notin m.pending
  <2>1. Len(m.markCh) \in Nat
    BY LenProperties DEF MarkInv, IsMark
  <2>2. PICK i \in 1..Len(m.markCh) : m.markCh[i] = [txn |-> t, done |-> FALSE]
    <3>1. (Len(m.markCh) + 1) - 1 = Len(m.markCh)
      BY <2>1
    <3> QED
      BY <1>1, <1>3, <3>1 DEF HasBegun
  <2>3. ~m.markCh[i].done /\ m.markCh[i].txn = t
    BY <2>2
  <2> QED
    BY <2>3 DEF MarkInv, BeginsInOrder
<1> QED
  BY <1>2, <1>3

-----------------------------------------------------------------------------
(* The oracle *)

LEMMA InitInv == Init => OracleInv
<1> SUFFICES ASSUME Init PROVE OracleInv
  OBVIOUS
<1> USE DEF Init
<1>1. TypeOK
  BY DEF TypeOK, States
<1>2. WaterMarksInv
  <2>1. Readers = {} /\ Committers = {} /\ nextTxnTs - 1 = 0
    BY DEF Readers, Committers
  <2>2. /\ MarkInv(readMark, readTs, 0, HaveRead, {})
        /\ MarkIsBelow(readMark, readTs, 0)
    BY DoneAtIsMark
  <2>3. /\ MarkInv(txnMark, commitTs, 1, Stamped, {})
        /\ MarkIsBelow(txnMark, commitTs, 0)
    BY DoneAtIsMark
  <2>4. lastCleanupTs <= readMark.doneUntil
    BY DEF DoneAt
  <2> QED
    BY <2>1, <2>2, <2>3, <2>4 DEF WaterMarksInv
<1>3. TimestampsInv
  BY DEF TimestampsInv, IsActive, Committers
<1>4. ExclusionInv
  BY DEF ExclusionInv
<1>5. RemembersInv
  BY DEF RemembersInv, Readers, IsActive
<1>6. SnapshotInv
  BY DEF SnapshotInv
<1> QED
  BY <1>1, <1>2, <1>3, <1>4, <1>5, <1>6 DEF OracleInv

\* The types of the two water marks' indices, for the lemmas about them.
LEMMA MarksAreTyped ==
  ASSUME OracleInv
  PROVE  /\ readTs \in [Txns -> Nat] /\ commitTs \in [Txns -> Nat]
         /\ HaveRead \in SUBSET Txns /\ Readers \in SUBSET HaveRead
         /\ Stamped \in SUBSET Txns /\ Committers \in SUBSET Stamped
         /\ nextTxnTs - 1 \in Nat /\ 0 \in {0, 1} /\ 1 \in {0, 1}
         /\ readMark.doneUntil \in Nat /\ txnMark.doneUntil \in Nat
  BY DEF OracleInv, TypeOK, WaterMarksInv, TimestampsInv, MarkInv, IsMark,
         HaveRead, Readers, Stamped, Committers

LEMMA NewTransactionKeeps ==
  ASSUME OracleInv, NEW t \in Txns, NewTransaction(t)
  PROVE  OracleInv'
<1> USE DEF NewTransaction
<1>1. TypeOK'
  BY DEF OracleInv, TypeOK, States
<1>2. /\ pc \in [Txns -> States] /\ pc[t] = "new" /\ pc' = [pc EXCEPT ![t] = "waiting"]
      /\ readTs' = [readTs EXCEPT ![t] = nextTxnTs - 1]
  BY DEF OracleInv, TypeOK
<1>3. WaterMarksInv'
  <2>1. HaveRead' = HaveRead \cup {t} /\ Readers' = Readers \cup {t} /\ t \notin HaveRead
    BY <1>2 DEF HaveRead, Readers
  <2>2. /\ MarkInv(Begin(readMark, t), readTs', 0, HaveRead \cup {t}, Readers \cup {t})
        /\ MarkIsBelow(Begin(readMark, t), readTs', nextTxnTs - 1)
    <3>1. MarkInv(readMark, readTs, 0, HaveRead, Readers)
          /\ MarkIsBelow(readMark, readTs, nextTxnTs - 1)
      BY DEF OracleInv, WaterMarksInv
    <3>2. readTs' \in [Txns -> Nat] /\ (nextTxnTs - 1) + 0 <= nextTxnTs - 1
      BY <1>1, MarksAreTyped DEF TypeOK
    <3>3. PICK top, after : top = nextTxnTs - 1 /\ after = readTs'
      OBVIOUS
    <3>4. /\ readTs \in [Txns -> Nat] /\ HaveRead \in SUBSET Txns
          /\ Readers \in SUBSET HaveRead /\ top \in Nat /\ t \in Txns \ HaveRead
          /\ MarkInv(readMark, readTs, 0, HaveRead, Readers)
          /\ MarkIsBelow(readMark, readTs, top)
          /\ top + 0 <= top /\ after \in [Txns -> Nat] /\ 0 \in {0, 1}
          /\ after = [readTs EXCEPT ![t] = top]
      BY <1>2, <2>1, <3>1, <3>2, <3>3, MarksAreTyped
    <3>5. /\ MarkInv(Begin(readMark, t), after, 0, HaveRead \cup {t}, Readers \cup {t})
          /\ MarkIsBelow(Begin(readMark, t), after, top)
      BY <3>4, BeginKeeps
    <3> QED
      BY <3>3, <3>5
  <2>3. Committers' = Committers /\ Stamped' = Stamped
    BY <1>2 DEF Committers, Stamped
  <2>4. readMark'.doneUntil = readMark.doneUntil
    BY DEF Begin, Send, OracleInv, WaterMarksInv, MarkInv, IsMark
  <2> QED
    BY <2>1, <2>2, <2>3, <2>4 DEF OracleInv, WaterMarksInv
<1>4. TimestampsInv'
  BY <1>2 DEF OracleInv, TypeOK, TimestampsInv, IsActive, Committers
<1>5. ExclusionInv'
  BY <1>2 DEF OracleInv, TypeOK, ExclusionInv, IsIdle
<1>6. RemembersInv'
  <2>1. \A u \in Txns : u # t => pc'[u] = pc[u] /\ readTs'[u] = readTs[u]
    BY <1>2
  <2>2. pc'[t] = "waiting" /\ readTs'[t] = nextTxnTs - 1
    BY <1>2 DEF OracleInv, TypeOK
  <2>3. \A v \in Txns : ~(commitTs[v] > nextTxnTs - 1)
    BY DEF OracleInv, TypeOK, TimestampsInv
  <2>4. \A u \in Txns : u # t => (IsOvertaken(u)' <=> IsOvertaken(u))
    BY <2>1 DEF IsOvertaken
  <2>5. readTs'[t] = 0 => nextTxnTs = 1
    BY <2>2 DEF OracleInv, TypeOK
  <2> QED
    BY <2>1, <2>2, <2>3, <2>4, <2>5 DEF OracleInv, RemembersInv, Readers, IsActive
<1>7. SnapshotInv'
  BY <1>2 DEF OracleInv, TypeOK, SnapshotInv
<1> QED
  BY <1>1, <1>3, <1>4, <1>5, <1>6, <1>7 DEF OracleInv

LEMMA WaitForMarkKeeps ==
  ASSUME OracleInv, NEW t \in Txns, WaitForMark(t)
  PROVE  OracleInv'
<1> USE DEF WaitForMark
<1>1. TypeOK'
  BY DEF OracleInv, TypeOK, States
<1>2. pc \in [Txns -> States] /\ pc[t] = "waiting" /\ pc' = [pc EXCEPT ![t] = "open"]
  BY DEF OracleInv, TypeOK
<1>3. /\ HaveRead' = HaveRead /\ Readers' = Readers
      /\ Committers' = Committers /\ Stamped' = Stamped
  BY <1>2 DEF HaveRead, Readers, Committers, Stamped
<1>4. WaterMarksInv'
  BY <1>3 DEF OracleInv, WaterMarksInv
<1>5. TimestampsInv'
  BY <1>2 DEF OracleInv, TimestampsInv, IsActive, Committers
<1>6. ExclusionInv'
  BY <1>2 DEF OracleInv, ExclusionInv
<1>7. RemembersInv'
  BY <1>2, <1>3 DEF OracleInv, RemembersInv, IsActive, IsOvertaken
<1>8. SnapshotInv'
  <2>1. ASSUME NEW v \in Txns, pc[v] = "accepted"
        PROVE  commitTs[v] > readTs[t]
    <3>1. v \in Committers /\ commitTs[v] > 0
      BY <2>1 DEF Committers, OracleInv, TimestampsInv
    <3>2. txnMark.doneUntil + 1 <= commitTs[v]
      BY <3>1, MarksAreTyped, OpenIsNotDone DEF OracleInv, WaterMarksInv
    <3> QED
      BY <3>2, MarksAreTyped
  <2> QED
    BY <2>1, <1>2 DEF OracleInv, SnapshotInv
<1> QED
  BY <1>1, <1>4, <1>5, <1>6, <1>7, <1>8 DEF OracleInv

\* What Discard and CheckConflict do to the read timestamps' water mark.
LEMMA ReaderIsDone ==
  ASSUME OracleInv, NEW t \in Txns, pc[t] = "open"
  PROVE  /\ MarkInv(Done(readMark, t), readTs, 0, HaveRead, Readers \ {t})
         /\ MarkIsBelow(Done(readMark, t), readTs, nextTxnTs - 1)
         /\ Done(readMark, t).doneUntil = readMark.doneUntil
<1>1. t \in Readers /\ readTs[t] <= nextTxnTs - 1
  BY MarksAreTyped DEF Readers, OracleInv, TypeOK, TimestampsInv, IsActive
<1>2. MarkInv(readMark, readTs, 0, HaveRead, Readers)
      /\ MarkIsBelow(readMark, readTs, nextTxnTs - 1)
  BY DEF OracleInv, WaterMarksInv
<1>3. Done(readMark, t).doneUntil = readMark.doneUntil
  BY <1>2 DEF Done, Send, MarkInv, IsMark
<1> QED
  BY <1>1, <1>2, <1>3, MarksAreTyped, DoneKeeps

LEMMA DiscardKeeps ==
  ASSUME OracleInv, NEW t \in Txns, Discard(t)
  PROVE  OracleInv'
<1> USE DEF Discard
<1>1. TypeOK'
  BY DEF OracleInv, TypeOK, States
<1>2. pc \in [Txns -> States] /\ pc[t] = "open" /\ pc' = [pc EXCEPT ![t] = "ended"]
  BY DEF OracleInv, TypeOK
<1>3. /\ HaveRead' = HaveRead /\ Readers' = Readers \ {t}
      /\ Committers' = Committers /\ Stamped' = Stamped
  BY <1>2 DEF HaveRead, Readers, Committers, Stamped
<1>4. WaterMarksInv'
  BY <1>2, <1>3, ReaderIsDone DEF OracleInv, WaterMarksInv
<1>5. TimestampsInv'
  BY <1>2 DEF OracleInv, TimestampsInv, IsActive, Committers
<1>6. ExclusionInv'
  BY <1>2 DEF OracleInv, ExclusionInv
<1>7. RemembersInv'
  BY <1>2, <1>3 DEF OracleInv, RemembersInv, IsActive, IsOvertaken
<1>8. SnapshotInv'
  BY <1>2 DEF OracleInv, SnapshotInv
<1> QED
  BY <1>1, <1>4, <1>5, <1>6, <1>7, <1>8 DEF OracleInv

\* The check finds a conflict if there is one, whatever was forgotten.
LEMMA ConflictsAreFound ==
  ASSUME OracleInv, NEW t \in Txns, CheckConflict(t)
  PROVE  ~IsOvertaken(t)
<1>1. t \in Readers /\ IsActive(t)
  BY DEF CheckConflict, Readers, IsActive
<1>2. CASE readTs[t] > 0
  BY <1>1, <1>2 DEF CheckConflict, hasConflict, IsOvertaken, OracleInv, RemembersInv
<1>3. CASE readTs[t] = 0
  <2>1. nextTxnTs = 1
    BY <1>1, <1>3 DEF CheckConflict, OracleInv, RemembersInv
  <2>2. \A v \in Txns : ~(commitTs[v] > 0)
    BY <2>1, MarksAreTyped DEF OracleInv, TimestampsInv
  <2> QED
    BY <1>3, <2>2 DEF IsOvertaken
<1> QED
  BY <1>2, <1>3, MarksAreTyped

LEMMA CheckConflictKeeps ==
  ASSUME OracleInv, NEW t \in Txns, CheckConflict(t)
  PROVE  OracleInv'
<1>0. ~IsOvertaken(t)
  BY ConflictsAreFound
<1> USE DEF CheckConflict
<1>1. TypeOK'
  BY DEF OracleInv, TypeOK, States
<1>2. pc \in [Txns -> States] /\ pc[t] = "open" /\ pc' = [pc EXCEPT ![t] = "checked"]
  BY DEF OracleInv, TypeOK
<1>3. /\ HaveRead' = HaveRead /\ Readers' = Readers \ {t}
      /\ Committers' = Committers /\ Stamped' = Stamped
  BY <1>2 DEF HaveRead, Readers, Committers, Stamped
<1>4. WaterMarksInv'
  BY <1>2, <1>3, ReaderIsDone DEF OracleInv, WaterMarksInv
<1>5. TimestampsInv'
  BY <1>2 DEF OracleInv, TimestampsInv, IsActive, Committers
<1>6. ExclusionInv'
  BY <1>2 DEF OracleInv, ExclusionInv, Unlocked
<1>7. RemembersInv'
  BY <1>0, <1>2, <1>3 DEF OracleInv, RemembersInv, IsActive, IsOvertaken
<1>8. SnapshotInv'
  BY <1>2 DEF OracleInv, SnapshotInv
<1> QED
  BY <1>1, <1>4, <1>5, <1>6, <1>7, <1>8 DEF OracleInv

LEMMA NewCommitTsKeeps ==
  ASSUME OracleInv, OneWritesFirst, NEW t \in Txns, NewCommitTs(t)
  PROVE  OracleInv'
<1> USE DEF NewCommitTs
<1>1. TypeOK'
  BY MarksAreTyped DEF OracleInv, TypeOK, States, Remembered
<1>2. /\ pc \in [Txns -> States] /\ pc[t] = "checked" /\ pc' = [pc EXCEPT ![t] = "accepted"]
      /\ commitTs \in [Txns -> Nat] /\ commitTs' = [commitTs EXCEPT ![t] = nextTxnTs]
      /\ nextTxnTs \in Nat \ {0} /\ nextTxnTs' = nextTxnTs + 1
  BY DEF OracleInv, TypeOK
<1>3. /\ HaveRead' = HaveRead /\ Readers' = Readers
      /\ Committers' = Committers \cup {t} /\ Stamped' = Stamped \cup {t}
  BY <1>2 DEF HaveRead, Readers, Committers, Stamped
<1>4. WaterMarksInv'
  <2>1. PICK top, v, after : top = nextTxnTs - 1 /\ v = nextTxnTs /\ after = commitTs'
    OBVIOUS
  <2>2. /\ commitTs \in [Txns -> Nat] /\ Stamped \in SUBSET Txns
        /\ Committers \in SUBSET Stamped /\ top \in Nat /\ v \in Nat
        /\ MarkInv(txnMark, commitTs, 1, Stamped, Committers)
        /\ MarkIsBelow(txnMark, commitTs, top)
        /\ top + 1 <= v /\ after \in [Txns -> Nat] /\ 1 \in {0, 1}
        /\ after = [commitTs EXCEPT ![t] = v]
    BY <2>1, <1>1, <1>2, MarksAreTyped DEF OracleInv, WaterMarksInv, TypeOK
  <2>3. t \in Txns \ Stamped
    BY <1>2 DEF Stamped, OracleInv, TimestampsInv
  <2>4. /\ MarkInv(Begin(txnMark, t), after, 1, Stamped \cup {t}, Committers \cup {t})
        /\ MarkIsBelow(Begin(txnMark, t), after, v)
    BY <2>2, <2>3, BeginKeeps
  <2>5. nextTxnTs' - 1 = v
    BY <2>1, <1>2
  <2>6. MarkIsBelow(readMark, readTs, nextTxnTs' - 1)
    <3>1. \A x \in Nat : x <= nextTxnTs - 1 => x <= nextTxnTs' - 1
      BY <1>2
    <3>2. /\ readMark.doneUntil \in Nat /\ readMark.indices \subseteq Nat
          /\ \A j \in 1..Len(readMark.markCh) : readTs[readMark.markCh[j].txn] \in Nat
      <4>1. IsMark(readMark, HaveRead) /\ HaveRead \subseteq Txns
        BY DEF OracleInv, WaterMarksInv, MarkInv, HaveRead
      <4>2. \A j \in 1..Len(readMark.markCh) :
              readMark.markCh[j] \in [txn : HaveRead, done : BOOLEAN]
        BY <4>1, ElementOfSeq DEF IsMark
      <4> QED
        BY <4>1, <4>2, MarksAreTyped DEF IsMark
    <3> QED
      BY <3>1, <3>2 DEF OracleInv, WaterMarksInv, MarkIsBelow
  <2> QED
    BY <2>1, <2>4, <2>5, <2>6, <1>3, MarksAreTyped DEF OracleInv, WaterMarksInv
<1>5. TimestampsInv'
  <2>1. \A u \in Txns : readTs[u] \in Nat /\ commitTs[u] \in Nat
    BY MarksAreTyped
  <2> QED
    BY <2>1, <1>2 DEF OracleInv, TimestampsInv, IsActive, Committers
<1>6. ExclusionInv'
  BY <1>2 DEF OracleInv, ExclusionInv
<1>7. RemembersInv'
  <2>1. \A u \in Txns : u # t => pc'[u] = pc[u] /\ pc[u] # "checked"
    BY <1>2 DEF OracleInv, ExclusionInv
  <2>2. pc'[t] = "accepted"
    BY <1>2
  <2>3. ASSUME NEW u \in Readers, readTs[u] > 0, NEW v \in Txns, commitTs'[v] > readTs[u]
        PROVE  v \in committedTxns'
    <3>1. CASE v = t
      BY <3>1
    <3>2. CASE v # t
      <4>1. commitTs[v] > readTs[u]
        BY <2>3, <3>2, <1>2
      <4>2. v \in committedTxns
        <5>1. u \in Txns
          BY <2>3 DEF Readers
        <5> QED
          BY <2>3, <4>1, <5>1 DEF OracleInv, RemembersInv
      <4>3. readMark.doneUntil + 0 <= readTs[u]
        BY <2>3, MarksAreTyped, OpenIsNotDone DEF OracleInv, WaterMarksInv
      <4>4. commitTs[v] > readMark.doneUntil
        <5>1. commitTs[v] \in Nat /\ readTs[u] \in Nat
          BY <2>3, MarksAreTyped DEF Readers
        <5> QED
          BY <4>1, <4>3, <5>1, MarksAreTyped
      <4> QED
        BY <4>2, <4>4 DEF Remembered
    <3> QED
      BY <3>1, <3>2
  <2>4. ASSUME NEW u \in Txns, IsActive(u)', readTs[u] = 0, Owner[u] \in FirstWriters
        PROVE  FALSE
    <3>1. u # t /\ pc[u] \in {"waiting", "open"}
      BY <2>1, <2>2, <2>4 DEF IsActive
    <3>2. nextTxnTs = 1
      BY <3>1, <2>4 DEF OracleInv, RemembersInv, IsActive
    <3>3. readTs[t] = 0
      BY <3>2, <1>2, MarksAreTyped DEF OracleInv, TimestampsInv, IsActive
    <3>4. Owner[t] \in FirstWriters
      BY <3>3, <1>2 DEF OracleInv, RemembersInv
    <3>5. Owner[t] = Owner[u]
      BY <3>4, <2>4 DEF OneWritesFirst
    <3> QED
      BY <3>1, <3>5, <1>2 DEF OracleInv, ExclusionInv
  <2> QED
    BY <2>1, <2>2, <2>3, <2>4, <1>3 DEF RemembersInv
<1>8. SnapshotInv'
  <2>1. ASSUME NEW u \in Txns, pc[u] \in {"open", "checked"}
        PROVE  nextTxnTs > readTs[u]
    BY <2>1, MarksAreTyped DEF OracleInv, TimestampsInv, IsActive
  <2> QED
    BY <2>1, <1>2 DEF OracleInv, SnapshotInv
<1> QED
  BY <1>1, <1>4, <1>5, <1>6, <1>7, <1>8 DEF OracleInv

LEMMA WriteKeeps ==
  ASSUME OracleInv, NEW t \in Txns, Write(t)
  PROVE  OracleInv'
<1> USE DEF Write
<1>1. TypeOK'
  BY DEF OracleInv, TypeOK, States
<1>2. pc \in [Txns -> States] /\ pc[t] = "accepted" /\ pc' = [pc EXCEPT ![t] = "written"]
  BY DEF OracleInv, TypeOK
<1>3. /\ HaveRead' = HaveRead /\ Readers' = Readers
      /\ Committers' = Committers /\ Stamped' = Stamped
  BY <1>2 DEF HaveRead, Readers, Committers, Stamped
<1>4. WaterMarksInv'
  BY <1>3 DEF OracleInv, WaterMarksInv
<1>5. TimestampsInv'
  BY <1>2 DEF OracleInv, TimestampsInv, IsActive, Committers
<1>6. ExclusionInv'
  BY <1>2 DEF OracleInv, ExclusionInv
<1>7. RemembersInv'
  BY <1>2, <1>3 DEF OracleInv, RemembersInv, IsActive, IsOvertaken
<1>8. SnapshotInv'
  BY <1>2 DEF OracleInv, SnapshotInv
<1> QED
  BY <1>1, <1>4, <1>5, <1>6, <1>7, <1>8 DEF OracleInv

LEMMA DoneCommitKeeps ==
  ASSUME OracleInv, NEW t \in Txns, DoneCommit(t)
  PROVE  OracleInv'
<1> USE DEF DoneCommit
<1>1. TypeOK'
  BY DEF OracleInv, TypeOK, States
<1>2. /\ pc \in [Txns -> States] /\ pc[t] \in {"accepted", "written"}
      /\ pc' = [pc EXCEPT ![t] = "ended"]
  BY DEF OracleInv, TypeOK
<1>3. /\ HaveRead' = HaveRead /\ Readers' = Readers
      /\ Committers' = Committers \ {t} /\ Stamped' = Stamped
  BY <1>2 DEF HaveRead, Readers, Committers, Stamped
<1>4. WaterMarksInv'
  <2>1. t \in Committers /\ commitTs[t] <= nextTxnTs - 1
    BY <1>2, MarksAreTyped DEF Committers, OracleInv, TypeOK, TimestampsInv
  <2>2. /\ MarkInv(Done(txnMark, t), commitTs, 1, Stamped, Committers \ {t})
        /\ MarkIsBelow(Done(txnMark, t), commitTs, nextTxnTs - 1)
    BY <2>1, MarksAreTyped, DoneKeeps DEF OracleInv, WaterMarksInv
  <2> QED
    BY <2>2, <1>3 DEF OracleInv, WaterMarksInv
<1>5. TimestampsInv'
  BY <1>2 DEF OracleInv, TimestampsInv, IsActive, Committers
<1>6. ExclusionInv'
  BY <1>2 DEF OracleInv, ExclusionInv
<1>7. RemembersInv'
  BY <1>2, <1>3 DEF OracleInv, RemembersInv, IsActive, IsOvertaken
<1>8. SnapshotInv'
  BY <1>2 DEF OracleInv, SnapshotInv
<1> QED
  BY <1>1, <1>4, <1>5, <1>6, <1>7, <1>8 DEF OracleInv

\* Steps of the water marks' goroutines change nothing else.
LEMMA ProcessMarksKeeps ==
  ASSUME OracleInv, ProcessReadMark \/ ProcessTxnMark
  PROVE  OracleInv'
<1>1. UNCHANGED <<nextTxnTs, lastCleanupTs, committedTxns, pc, readTs, commitTs, written>>
  BY DEF ProcessReadMark, ProcessTxnMark, txnState
<1>2. /\ HaveRead' = HaveRead /\ Readers' = Readers
      /\ Committers' = Committers /\ Stamped' = Stamped
  BY <1>1 DEF HaveRead, Readers, Committers, Stamped
<1>3. /\ MarkInv(readMark', readTs, 0, HaveRead, Readers)
      /\ MarkIsBelow(readMark', readTs, nextTxnTs - 1)
      /\ lastCleanupTs <= readMark'.doneUntil
  <2>1. CASE ProcessReadMark
    <3>1. readMark.markCh # <<>> /\ readMark' \in Processed(readMark, readTs)
      BY <2>1 DEF ProcessReadMark
    <3>2. PICK n : n = readMark'
      OBVIOUS
    <3>3. /\ MarkInv(n, readTs, 0, HaveRead, Readers)
          /\ MarkIsBelow(n, readTs, nextTxnTs - 1)
          /\ readMark.doneUntil <= n.doneUntil
      BY <3>1, <3>2, MarksAreTyped, ProcessKeeps DEF OracleInv, WaterMarksInv
    <3>4. n.doneUntil \in Nat /\ lastCleanupTs \in Nat
      BY <3>3 DEF MarkInv, IsMark, OracleInv, TypeOK
    <3> QED
      BY <3>2, <3>3, <3>4, MarksAreTyped DEF OracleInv, WaterMarksInv
  <2>2. CASE ProcessTxnMark
    BY <2>2 DEF ProcessTxnMark, OracleInv, WaterMarksInv
  <2> QED
    BY <2>1, <2>2
<1>4. /\ MarkInv(txnMark', commitTs, 1, Stamped, Committers)
      /\ MarkIsBelow(txnMark', commitTs, nextTxnTs - 1)
  <2>1. CASE ProcessTxnMark
    <3>1. txnMark.markCh # <<>> /\ txnMark' \in Processed(txnMark, commitTs)
      BY <2>1 DEF ProcessTxnMark
    <3>2. PICK n : n = txnMark'
      OBVIOUS
    <3>3. /\ MarkInv(n, commitTs, 1, Stamped, Committers)
          /\ MarkIsBelow(n, commitTs, nextTxnTs - 1)
      BY <3>1, <3>2, MarksAreTyped, ProcessKeeps DEF OracleInv, WaterMarksInv
    <3> QED
      BY <3>2, <3>3
  <2>2. CASE ProcessReadMark
    BY <2>2 DEF ProcessReadMark, OracleInv, WaterMarksInv
  <2> QED
    BY <2>1, <2>2
<1>5. WaterMarksInv'
  BY <1>1, <1>2, <1>3, <1>4 DEF WaterMarksInv
<1> QED
  BY <1>1, <1>2, <1>5 DEF OracleInv, TypeOK, TimestampsInv, IsActive, ExclusionInv,
                          RemembersInv, IsOvertaken, SnapshotInv

LEMMA ReopenKeeps ==
  ASSUME OracleInv, Reopen
  PROVE  OracleInv'
<1>1. PICK v \in {0} \cup {commitTs[t] : t \in written} :
        /\ IsMaxVersion(v)
        /\ nextTxnTs' = v + 1
        /\ lastCleanupTs' = 0
        /\ committedTxns' = {}
        /\ readMark' = DoneAt(v)
        /\ txnMark' = DoneAt(v)
        /\ pc' = [t \in Txns |-> IF pc[t] = "new" THEN "new" ELSE "ended"]
        /\ commitTs' = [t \in Txns |-> IF t \in written THEN commitTs[t] ELSE 0]
        /\ UNCHANGED <<readTs, written>>
  BY DEF Reopen
<1>2. v \in Nat /\ \A t \in written : t \in Txns /\ commitTs[t] \in Nat /\ commitTs[t] <= v
  BY <1>1, MarksAreTyped DEF OracleInv, TypeOK, IsMaxVersion
<1>3. TypeOK'
  BY <1>1, <1>2 DEF OracleInv, TypeOK, States
<1>4. \A t \in Txns : pc'[t] \in {"new", "ended"} /\ (pc'[t] = "new" <=> pc[t] = "new")
  BY <1>1
<1>5. WaterMarksInv'
  <2>1. Readers' = {} /\ Committers' = {} /\ nextTxnTs' - 1 = v
    BY <1>1, <1>2, <1>4 DEF Readers, Committers
  <2>2. PICK rts, cts, hr, st : /\ rts = readTs' /\ cts = commitTs'
                                /\ hr = HaveRead' /\ st = Stamped'
    OBVIOUS
  <2>3. /\ MarkInv(DoneAt(v), rts, 0, hr, {}) /\ MarkIsBelow(DoneAt(v), rts, v)
        /\ MarkInv(DoneAt(v), cts, 1, st, {}) /\ MarkIsBelow(DoneAt(v), cts, v)
    BY <1>2, DoneAtIsMark
  <2>4. lastCleanupTs' <= readMark'.doneUntil
    BY <1>1, <1>2 DEF DoneAt
  <2> QED
    BY <2>1, <2>2, <2>3, <2>4, <1>1 DEF WaterMarksInv
<1>6. TimestampsInv'
  BY <1>1, <1>2, <1>4 DEF OracleInv, TypeOK, TimestampsInv, IsActive, Committers
<1>7. ExclusionInv' /\ RemembersInv' /\ SnapshotInv'
  BY <1>4 DEF ExclusionInv, RemembersInv, SnapshotInv, Readers, IsActive
<1> QED
  BY <1>3, <1>5, <1>6, <1>7 DEF OracleInv

\* Every step of the oracle keeps the invariant.
LEMMA NextKeeps ==
  ASSUME OracleInv, OneWritesFirst, [Next]_oracleVars
  PROVE  OracleInv'
<1>1. CASE Next
  BY <1>1, NewTransactionKeeps, WaitForMarkKeeps, DiscardKeeps, CheckConflictKeeps,
     NewCommitTsKeeps, WriteKeeps, DoneCommitKeeps, ProcessMarksKeeps, ReopenKeeps
     DEF Next
<1>2. CASE UNCHANGED oracleVars
  BY <1>2 DEF oracleVars, txnState, OracleInv, TypeOK, WaterMarksInv, TimestampsInv,
              ExclusionInv, RemembersInv, SnapshotInv, HaveRead, Readers, Stamped,
              Committers, IsActive, IsOvertaken
<1> QED
  BY <1>1, <1>2

\* What the oracle maintains, if one goroutine at most finds something to write
\* in a store that nothing was ever written to.
LEMMA OracleInvariant ==
  ASSUME OneWritesFirst
  PROVE  Spec => []OracleInv
<1>1. OracleInv /\ [Next]_oracleVars => OracleInv'
  BY NextKeeps
<1> QED
  BY <1>1, InitInv, PTL DEF Spec

\* The variables of the oracle have their types, however long it runs.
THEOREM OracleTypeCorrect ==
  ASSUME OneWritesFirst
  PROVE  Spec => []TypeOK
<1>1. OracleInv => TypeOK
  BY DEF OracleInv
<1> QED
  BY <1>1, OracleInvariant, PTL

-----------------------------------------------------------------------------
(* What the oracle promises *)

\* processOne never meets a mark below what is done already, and newCommitTs
\* and its cleanup never find the timestamps in the wrong order: no assertion
\* of the code stops the process.
THEOREM OracleAssertionsHold ==
  ASSUME OneWritesFirst
  PROVE  Spec => []AssertionsHold
<1>1. OracleInv => AssertionsHold
  <2> SUFFICES ASSUME OracleInv PROVE AssertionsHold
    OBVIOUS
  <2>1. MarkIsNotDone(readMark, readTs)
    BY MarksAreTyped, HeadIsNotDone DEF OracleInv, WaterMarksInv, MarkIsNotDone
  <2>2. MarkIsNotDone(txnMark, commitTs)
    BY MarksAreTyped, HeadIsNotDone DEF OracleInv, WaterMarksInv, MarkIsNotDone
  <2>3. readMark.doneUntil >= lastCleanupTs /\ nextTxnTs >= readMark.doneUntil
    BY MarksAreTyped DEF OracleInv, WaterMarksInv, MarkIsBelow, TypeOK, MarkInv, IsMark
  <2> QED
    BY <2>1, <2>2, <2>3 DEF AssertionsHold
<1> QED
  BY <1>1, OracleInvariant, PTL

\* A step of the oracle does not change what an open transaction sees: the
\* commits up to its read timestamp were written, or lost, before it opened.
THEOREM SnapshotsAreFixed ==
  ASSUME OneWritesFirst
  PROVE  Spec => SnapshotIsFixed
<1> DEFINE Fixed == \A t \in Txns : pc[t] = "open" /\ pc'[t] = "open"
                                      => Snapshot(t)' = Snapshot(t)
<1>1. OracleInv /\ [Next]_oracleVars => [Fixed]_oracleVars
  <2> SUFFICES ASSUME OracleInv, Next, NEW t \in Txns, pc[t] = "open", pc'[t] = "open"
               PROVE  Snapshot(t)' = Snapshot(t)
    OBVIOUS
  <2>1. /\ pc \in [Txns -> States] /\ written \subseteq Txns
        /\ readTs \in [Txns -> Nat] /\ commitTs \in [Txns -> Nat]
    BY DEF OracleInv, TypeOK
  <2>2. ASSUME NEW v \in Txns, \/ NewTransaction(v) \/ WaitForMark(v) \/ Discard(v)
                               \/ CheckConflict(v) \/ DoneCommit(v)
        PROVE  UNCHANGED <<written, commitTs>> /\ readTs'[t] = readTs[t]
    BY <2>1, <2>2 DEF NewTransaction, WaitForMark, Discard, CheckConflict, DoneCommit
  <2>3. ASSUME NEW v \in Txns, NewCommitTs(v)
        PROVE  Snapshot(t)' = Snapshot(t)
    <3>1. v \notin written
      BY <2>3 DEF NewCommitTs, OracleInv, TimestampsInv
    <3> QED
      BY <2>1, <2>3, <3>1 DEF NewCommitTs, Snapshot
  <2>4. ASSUME NEW v \in Txns, Write(v)
        PROVE  Snapshot(t)' = Snapshot(t)
    <3>1. ~(commitTs[v] <= readTs[t])
      BY <2>1, <2>4 DEF Write, OracleInv, SnapshotInv
    <3> QED
      BY <2>4, <3>1 DEF Write, Snapshot
  <2>5. CASE ProcessReadMark \/ ProcessTxnMark
    BY <2>5 DEF ProcessReadMark, ProcessTxnMark, txnState, Snapshot
  <2>6. CASE Reopen
    BY <2>6 DEF Reopen
  <2> QED
    BY <2>2, <2>3, <2>4, <2>5, <2>6 DEF Next, Snapshot
<1> QED
  BY <1>1, OracleInvariant, PTL DEF Spec, SnapshotIsFixed

\* A transaction that gets a commit timestamp has read nothing that another has
\* committed since its read timestamp, although the oracle forgets commits.
THEOREM CommitsAreSerialized ==
  ASSUME OneWritesFirst
  PROVE  Spec => ReadsAreNotModified
<1>1. OracleInv => [\A t \in Txns : pc[t] = "checked" /\ pc'[t] = "accepted"
                                     => ~IsOvertaken(t)]_oracleVars
  BY DEF OracleInv, RemembersInv
<1> QED
  BY <1>1, OracleInvariant, PTL DEF ReadsAreNotModified

-----------------------------------------------------------------------------
(* The oracle implements BadgerTxn *)

\* The variables of BadgerTxn that a state of the oracle stands for.
absReads == [t \in Txns |-> IF IsActive(t) THEN Reads[t] ELSE {}]
absStale == [t \in Txns |-> IsActive(t) /\ IsOvertaken(t)]

\* A new transaction has not been overtaken.
LEMMA NewTransactionImplements ==
  ASSUME OracleInv, NEW t \in Txns, NewTransaction(t)
  PROVE  Abstract!NewTransaction(t, Reads[t])
<1>1. /\ pc \in [Txns -> States] /\ readTs \in [Txns -> Nat]
      /\ commitTs \in [Txns -> Nat] /\ nextTxnTs \in Nat \ {0}
  BY DEF OracleInv, TypeOK
<1>2. /\ pc' = [pc EXCEPT ![t] = "waiting"] /\ commitTs' = commitTs
      /\ readTs' = [readTs EXCEPT ![t] = nextTxnTs - 1]
  BY DEF NewTransaction
<1>3. ~IsOvertaken(t)'
  <2>1. \A v \in Txns : ~(commitTs[v] > nextTxnTs - 1)
    BY <1>1 DEF OracleInv, TimestampsInv
  <2> QED
    BY <1>1, <1>2, <2>1 DEF IsOvertaken
<1>4. \A u \in Txns : u # t => /\ IsActive(u)' <=> IsActive(u)
                               /\ IsOvertaken(u)' <=> IsOvertaken(u)
  BY <1>1, <1>2 DEF IsActive, IsOvertaken
<1>5. IsActive(t)'
  BY <1>1, <1>2 DEF IsActive
<1>6. absReads' = [absReads EXCEPT ![t] = Reads[t]]
  BY <1>4, <1>5 DEF absReads
<1>7. absStale' = [absStale EXCEPT ![t] = FALSE]
  BY <1>3, <1>4 DEF absStale
<1> QED
  BY <1>6, <1>7 DEF Abstract!NewTransaction, absReads, absStale

\* A commit that is accepted makes stale the active transactions that have read
\* what it writes: its timestamp is above all of theirs.
LEMMA NewCommitTsImplements ==
  ASSUME OracleInv, NEW t \in Txns, NewCommitTs(t)
  PROVE  Abstract!Commit(t, Writes[t])
<1>1. /\ pc \in [Txns -> States] /\ readTs \in [Txns -> Nat]
      /\ commitTs \in [Txns -> Nat] /\ nextTxnTs \in Nat \ {0}
  BY DEF OracleInv, TypeOK
<1>2. /\ pc[t] = "checked" /\ pc' = [pc EXCEPT ![t] = "accepted"]
      /\ commitTs' = [commitTs EXCEPT ![t] = nextTxnTs] /\ readTs' = readTs
  BY DEF NewCommitTs
<1>3. ~absStale[t]
  BY <1>2 DEF OracleInv, RemembersInv, absStale
<1>4. ~IsActive(t)' /\ \A u \in Txns : u # t => (IsActive(u)' <=> IsActive(u))
  BY <1>1, <1>2 DEF IsActive
<1>5. ASSUME NEW u \in Txns, u # t, IsActive(u)
      PROVE  IsOvertaken(u)' <=> IsOvertaken(u) \/ Reads[u] \cap Writes[t] # {}
  <2>1. nextTxnTs > readTs[u]
    BY <1>1, <1>5 DEF OracleInv, TimestampsInv
  <2>2. ~(commitTs[t] > readTs[u])
    BY <1>1, <1>2 DEF OracleInv, TimestampsInv
  <2>3. \A v \in Txns : commitTs'[v] > readTs'[u] <=> v = t \/ commitTs[v] > readTs[u]
    BY <1>1, <1>2, <2>1
  <2> QED
    BY <2>2, <2>3 DEF IsOvertaken
<1>6. absReads' = [absReads EXCEPT ![t] = {}]
  BY <1>4 DEF absReads
<1>7. absStale' = [u \in Txns |-> u # t /\ (absStale[u] \/ absReads[u] \cap Writes[t] # {})]
  <2> DEFINE Is(u)      == IsActive(u)' /\ IsOvertaken(u)'
             Becomes(u) == u # t /\ (absStale[u] \/ absReads[u] \cap Writes[t] # {})
  <2>1. ASSUME NEW u \in Txns
        PROVE  Is(u) = Becomes(u)
    <3>1. CASE u = t
      BY <3>1, <1>4
    <3>2. CASE u # t /\ IsActive(u)
      BY <3>2, <1>4, <1>5 DEF absStale, absReads
    <3>3. CASE u # t /\ ~IsActive(u)
      BY <3>3, <1>4 DEF absStale, absReads
    <3> QED
      BY <3>1, <3>2, <3>3
  <2>2. absStale' = [u \in Txns |-> Is(u)]
    BY DEF absStale
  <2> HIDE DEF Is, Becomes
  <2>3. absStale' = [u \in Txns |-> Becomes(u)]
    BY <2>1, <2>2
  <2> QED
    BY <2>3 DEF Becomes
<1> QED
  BY <1>3, <1>6, <1>7 DEF Abstract!Commit, Abstract!hasConflict, absReads, absStale

\* A transaction that ends without a commit leaves the others as they are.
LEMMA DiscardImplements ==
  ASSUME OracleInv, NEW t \in Txns, Discard(t)
  PROVE  Abstract!Discard(t)
<1>1. pc \in [Txns -> States] /\ pc' = [pc EXCEPT ![t] = "ended"]
  BY DEF Discard, OracleInv, TypeOK
<1>2. /\ ~IsActive(t)'
      /\ \A u \in Txns : u # t => (IsActive(u)' <=> IsActive(u))
      /\ \A u \in Txns : IsOvertaken(u)' <=> IsOvertaken(u)
  BY <1>1 DEF IsActive, IsOvertaken, Discard
<1>3. absReads' = [absReads EXCEPT ![t] = {}]
  BY <1>2 DEF absReads
<1>4. absStale' = [absStale EXCEPT ![t] = FALSE]
  BY <1>2 DEF absStale
<1> QED
  BY <1>3, <1>4 DEF Abstract!Discard, absReads, absStale

\* The other steps of the oracle are invisible in BadgerTxn.
LEMMA OthersStutter ==
  ASSUME OracleInv,
         \/ \E t \in Txns : \/ WaitForMark(t) \/ CheckConflict(t)
                            \/ Write(t) \/ DoneCommit(t)
         \/ ProcessReadMark \/ ProcessTxnMark
  PROVE  UNCHANGED Abstract!txnVars
<1>1. UNCHANGED <<readTs, commitTs>>
  BY DEF WaitForMark, CheckConflict, Write, DoneCommit, ProcessReadMark, ProcessTxnMark,
         txnState
<1>2. \A u \in Txns : IsActive(u)' <=> IsActive(u)
  <2>1. pc \in [Txns -> States]
    BY DEF OracleInv, TypeOK
  <2> QED
    BY <2>1 DEF IsActive, WaitForMark, CheckConflict, Write, DoneCommit, ProcessReadMark,
                ProcessTxnMark, txnState
<1>3. absReads' = absReads
  BY <1>2 DEF absReads
<1>4. absStale' = absStale
  BY <1>1, <1>2 DEF absStale, IsOvertaken
<1> QED
  BY <1>3, <1>4 DEF Abstract!txnVars, absReads, absStale

\* A process that dies takes its open transactions with it.
LEMMA ReopenImplements ==
  ASSUME Reopen
  PROVE  Abstract!DiscardAll
<1>1. \A t \in Txns : ~IsActive(t)'
  BY DEF Reopen, IsActive
<1>2. absReads' = [t \in Txns |-> {}] /\ absStale' = [t \in Txns |-> FALSE]
  BY <1>1 DEF absReads, absStale
<1> QED
  BY <1>2 DEF Abstract!DiscardAll, absReads, absStale

\* The oracle implements BadgerTxn, the transactions that the driver's model is
\* built on: its commits pass if and only if no key that the transaction has
\* read was committed since its start, for any number of transactions, with
\* any reads and writes, whatever commits the oracle has forgotten.
THEOREM OracleImplementsTxn ==
  ASSUME OneWritesFirst
  PROVE  Spec => ImplementsTxn
<1>1. Init => Abstract!TxnInit
  BY DEF Init, Abstract!TxnInit, IsActive
<1>2. OracleInv /\ [Next]_oracleVars => [AbstractStep]_(Abstract!txnVars)
  <2> SUFFICES ASSUME OracleInv, [Next]_oracleVars
               PROVE  AbstractStep \/ UNCHANGED Abstract!txnVars
    OBVIOUS
  <2>1. CASE UNCHANGED oracleVars
    BY <2>1 DEF oracleVars, txnState, Abstract!txnVars, IsActive, IsOvertaken
  <2>2. CASE Next
    BY <2>2, NewTransactionImplements, NewCommitTsImplements, DiscardImplements,
       OthersStutter, ReopenImplements DEF Next, AbstractStep
  <2> QED
    BY <2>1, <2>2
<1> QED
  BY <1>1, <1>2, OracleInvariant, PTL DEF Spec, ImplementsTxn
=============================================================================
