-------------------------- MODULE ImagesFileProofs --------------------------
(***************************************************************************)
(* The images file, proved for every set of images, catalogs and outputs:  *)
(* what a round writes is what the image manager reads, and (at the end)   *)
(* how the driver is told that the file was replaced.                      *)
(*                                                                         *)
(* The text is a join of as many lines as there are images, so its facts   *)
(* are proved by induction over its parts; an induction is about a set of  *)
(* numbers, whose least element outside is the counterexample.             *)
(***************************************************************************)
EXTENDS ImagesFile, RoundTriggers, SequenceTheorems, FiniteSetTheorems, WellFoundedInduction, TLAPS

------------------------------------------------------------------------------
\* Induction over the naturals, in the form of their least elements: it is about
\* a set, and no operator has to be put in.
LEMMA LeastElement ==
  ASSUME NEW S \in SUBSET Nat, S # {}
  PROVE  \E m \in S : \A n \in S : m <= n
<1> DEFINE Below == {ss \in Nat \X Nat : ss[1] < ss[2]}
<1>1. IsWellFoundedOn(Below, Nat)
  BY NatLessThanWellFounded, Zenon DEF OpToRel
<1>2. PICK m \in S : \A n \in S : <<n, m>> \notin Below
  BY <1>1, WFMin
<1>3. ASSUME NEW n \in S PROVE m <= n
  <2>1. <<n, m>> \in Nat \X Nat /\ <<n, m>>[1] = n /\ <<n, m>>[2] = m
    OBVIOUS
  <2>2. ~(n < m)
    BY <1>2, <2>1
  <2> QED BY <2>2
<1> QED BY <1>3

\* A bounded set of naturals that is not empty has a greatest element.
LEMMA GreatestElement ==
  ASSUME NEW S \in SUBSET Nat, S # {}, NEW bound \in Nat, \A n \in S : n <= bound
  PROVE  \E m \in S : \A n \in S : n <= m
<1> DEFINE distances == {d \in Nat : \E n \in S : d = bound - n}
<1>1. distances # {} /\ distances \in SUBSET Nat
  <2>1. PICK n \in S : TRUE
    OBVIOUS
  <2>2. bound - n \in distances
    BY <2>1
  <2> QED BY <2>2
<1>2. PICK d \in distances : \A e \in distances : d <= e
  BY <1>1, LeastElement
<1>3. PICK m \in S : d = bound - m
  BY <1>2
<1>4. ASSUME NEW n \in S PROVE n <= m
  <2>1. bound - n \in distances
    OBVIOUS
  <2>2. d <= bound - n
    BY <1>2, <2>1
  <2> QED BY <1>3, <2>2
<1> QED BY <1>4

\* What holds at 0 and is handed on up to a bound holds up to the bound.
LEMMA SetInduction ==
  ASSUME NEW S, NEW bound \in Nat, 0 \in S,
         \A n \in 0..(bound - 1) : n \in S => n + 1 \in S
  PROVE  0..bound \subseteq S
<1> SUFFICES ASSUME (0..bound) \ S # {} PROVE FALSE
  OBVIOUS
<1>1. (0..bound) \ S \in SUBSET Nat
  OBVIOUS
<1>2. PICK m \in (0..bound) \ S : \A n \in (0..bound) \ S : m <= n
  BY <1>1, LeastElement
<1>3. m - 1 \in 0..(bound - 1) /\ m - 1 \in S
  BY <1>2
<1> QED BY <1>2, <1>3

------------------------------------------------------------------------------
\* The parts of a text.
\* Where a part ends: at the first separator after it, or at the end of the text.
LEMMA EndProperties ==
  ASSUME NEW T, NEW text \in Seq(T), NEW separator, NEW cut \in 0..Len(text)
  PROVE  /\ End(text, separator, cut) \in (cut + 1)..(Len(text) + 1)
         /\ End(text, separator, cut) <= Len(text) =>
              text[End(text, separator, cut)] = separator
         /\ \A p \in (cut + 1)..(End(text, separator, cut) - 1) : text[p] # separator
<1> DEFINE candidates == {p \in DOMAIN text : p > cut /\ text[p] = separator}
                           \cup {Len(text) + 1}
<1>1. Len(text) \in Nat /\ DOMAIN text = 1..Len(text)
  BY LenProperties
<1>2. candidates \in SUBSET Nat /\ candidates # {}
  BY <1>1
<1>3. PICK m \in candidates : \A p \in candidates : m <= p
  BY <1>2, LeastElement
<1>4. Min(candidates) \in candidates /\ \A p \in candidates : Min(candidates) <= p
  <2> HIDE DEF candidates
  <2> QED BY <1>3 DEF Min
<1>5. End(text, separator, cut) = Min(candidates)
  BY DEF End
<1> DEFINE E == End(text, separator, cut)
<1>6. E \in candidates /\ \A p \in candidates : E <= p
  BY <1>4, <1>5
<1> HIDE DEF E
<1>7. E \in (cut + 1)..(Len(text) + 1)
  BY <1>1, <1>6
<1>8. E <= Len(text) => text[E] = separator
  BY <1>1, <1>6
<1>9. ASSUME NEW p \in (cut + 1)..(E - 1), text[p] = separator
      PROVE  FALSE
  <2>1. p \in candidates
    BY <1>1, <1>7, <1>9
  <2> QED BY <1>6, <1>7, <1>9, <2>1
<1> QED BY <1>7, <1>8, <1>9 DEF E

\* Any position that looks like the end of a part is.
LEMMA EndIs ==
  ASSUME NEW T, NEW text \in Seq(T), NEW separator, NEW cut \in 0..Len(text),
         NEW e \in (cut + 1)..(Len(text) + 1),
         e <= Len(text) => text[e] = separator,
         \A p \in (cut + 1)..(e - 1) : text[p] # separator
  PROVE  End(text, separator, cut) = e
<1> Len(text) \in Nat
  BY LenProperties
<1> DEFINE E == End(text, separator, cut)
<1>1. /\ E \in (cut + 1)..(Len(text) + 1)
      /\ E <= Len(text) => text[E] = separator
      /\ \A p \in (cut + 1)..(E - 1) : text[p] # separator
  BY EndProperties
<1> HIDE DEF E
<1>2. ~(E < e) /\ ~(e < E)
  BY <1>1
<1>3. E = e
  BY <1>1, <1>2
<1> QED BY <1>3 DEF E

\* A part is the text between its cut and its end, token by token.
LEMMA PartProperties ==
  ASSUME NEW T, NEW text \in Seq(T), NEW separator, NEW cut \in 0..Len(text)
  PROVE  /\ Part(text, separator, cut) \in Seq(T)
         /\ Len(Part(text, separator, cut)) = End(text, separator, cut) - cut - 1
         /\ \A p \in 1..(End(text, separator, cut) - cut - 1) :
              Part(text, separator, cut)[p] = text[cut + p]
<1> DEFINE E == End(text, separator, cut)
<1>1. Len(text) \in Nat /\ E \in (cut + 1)..(Len(text) + 1)
  BY LenProperties, EndProperties
<1> HIDE DEF E
<1>2. \A p \in (cut + 1)..(E - 1) : text[p] \in T
  BY <1>1, ElementOfSeq
<1>3. /\ SubSeq(text, cut + 1, E - 1) \in Seq(T)
      /\ Len(SubSeq(text, cut + 1, E - 1))
           = IF cut + 1 <= E - 1 THEN (E - 1) - (cut + 1) + 1 ELSE 0
      /\ \A p \in 1..((E - 1) - (cut + 1) + 1) :
           SubSeq(text, cut + 1, E - 1)[p] = text[(cut + 1) + p - 1]
  BY <1>1, <1>2, SubSeqProperties
<1>4. Part(text, separator, cut) = SubSeq(text, cut + 1, E - 1)
  BY DEF Part, E
<1> HIDE DEF Part
<1>5. \A p \in 1..(E - cut - 1) : (cut + 1) + p - 1 = cut + p
  BY <1>1
<1>6. Len(SubSeq(text, cut + 1, E - 1)) = E - cut - 1 /\ (E - 1) - (cut + 1) + 1 = E - cut - 1
  BY <1>1, <1>3
<1> QED BY <1>3, <1>4, <1>5, <1>6 DEF E

------------------------------------------------------------------------------
\* Texts that are put together.
Extends(u, s, t) ==
  /\ Len(s) \in Nat /\ Len(t) \in Nat
  /\ Len(u) = Len(s) + Len(t)
  /\ \A p \in 1..Len(s) : u[p] = s[p]
  /\ \A p \in 1..Len(t) : u[Len(s) + p] = t[p]

\* Where the tokens of two texts are when they are put one after the other.
LEMMA ConcatPositions ==
  ASSUME NEW S, NEW s \in Seq(S), NEW t \in Seq(S), NEW u, u = s \o t
  PROVE  Extends(u, s, t)
<1>1. Len(s) \in Nat /\ Len(t) \in Nat
  BY LenProperties
<1>2. /\ Len(u) = Len(s) + Len(t)
      /\ \A p \in 1..(Len(s) + Len(t)) :
           u[p] = IF p <= Len(s) THEN s[p] ELSE t[p - Len(s)]
  BY ConcatProperties
<1>3. \A p \in 1..Len(s) : u[p] = s[p]
  BY <1>1, <1>2
<1>4. ASSUME NEW p \in 1..Len(t) PROVE u[Len(s) + p] = t[p]
  <2>1. PICK q \in 1..(Len(s) + Len(t)) : q = Len(s) + p
    BY <1>1
  <2>2. ~(q <= Len(s)) /\ q - Len(s) = p
    BY <1>1, <2>1
  <2> QED BY <1>2, <2>1, <2>2
<1> QED BY <1>1, <1>2, <1>3, <1>4 DEF Extends

\* The joins of the first parts.
IsJoin(T, S, parts, bound) ==
  /\ T \in [0..bound -> Seq(S)]
  /\ T[0] = <<>>
  /\ \A n \in 1..bound : T[n] = T[n - 1] \o parts[n]

\* The joins of the first parts exist: each is the one before and a part more.
LEMMA JoinExists ==
  ASSUME NEW S, NEW parts, NEW L \in Nat, \A n \in 1..L : parts[n] \in Seq(S)
  PROVE  \E T : IsJoin(T, S, parts, L)
<1> DEFINE reached == {n \in 0..L : \E T : IsJoin(T, S, parts, n)}
<1>2. 0 \in reached
  <2>1. <<>> \in Seq(S)
    BY EmptySeq
  <2>2. IsJoin([n \in 0..0 |-> <<>>], S, parts, 0)
    BY <2>1 DEF IsJoin
  <2> QED BY <2>2
<1>3. ASSUME NEW n \in 0..(L - 1), n \in reached
      PROVE  n + 1 \in reached
  <2>1. PICK T : IsJoin(T, S, parts, n)
    BY <1>3
  <2>2. T[n] \in Seq(S) /\ parts[n + 1] \in Seq(S)
    BY <2>1 DEF IsJoin
  <2>3. PICK next \in Seq(S) : next = T[n] \o parts[n + 1]
    BY <2>2, ConcatProperties
  <2> DEFINE U == [m \in 0..(n + 1) |-> IF m = n + 1 THEN next ELSE T[m]]
  <2>4. U \in [0..(n + 1) -> Seq(S)] /\ U[0] = <<>>
    BY <2>1, <2>3 DEF IsJoin
  <2>5. ASSUME NEW m \in 1..(n + 1) PROVE U[m] = U[m - 1] \o parts[m]
    <3>1. CASE m = n + 1
      <4>1. U[m] = next /\ U[m - 1] = T[n]
        BY <3>1
      <4> HIDE DEF U
      <4> QED BY <2>3, <3>1, <4>1, Zenon
    <3>2. CASE m # n + 1
      <4>1. U[m] = T[m] /\ U[m - 1] = T[m - 1] /\ m \in 1..n
        BY <3>2
      <4>2. \A k \in 1..n : T[k] = T[k - 1] \o parts[k]
        BY <2>1, Zenon DEF IsJoin
      <4> HIDE DEF U
      <4> QED BY <4>1, <4>2, Zenon
    <3> QED BY <3>1, <3>2
  <2>6. IsJoin(U, S, parts, n + 1)
    <3> HIDE DEF U
    <3> QED BY <2>4, <2>5, Zenon DEF IsJoin
  <2> QED BY <2>6
<1>4. 0..L \subseteq reached
  <2> HIDE DEF reached
  <2> QED BY <1>2, <1>3, SetInduction
<1>5. L \in reached
  BY <1>4
<1> QED BY <1>5

\* The recursive function inside FlattenSeq computes the joins.
Flattened(parts, L) ==
  CHOOSE g : g = [i \in 1..L |-> IF i = 1 THEN parts[i] ELSE g[i - 1] \o parts[i]]

\* Its value for all the parts is their join.
LEMMA FlattenIsJoin ==
  ASSUME NEW S, NEW parts, NEW L \in Nat, \A n \in 1..L : parts[n] \in Seq(S),
         NEW T, IsJoin(T, S, parts, L), L # 0
  PROVE  Flattened(parts, L)[L] = T[L]
<1> DEFINE Step(g) == [i \in 1..L |-> IF i = 1 THEN parts[i] ELSE g[i - 1] \o parts[i]]
           flatten == Flattened(parts, L)
           agree == {n \in 0..L : n = 0 \/ flatten[n] = T[n]}
<1>3. \A i \in 1..L : T[i] = IF i = 1 THEN parts[i] ELSE T[i - 1] \o parts[i]
  <2> SUFFICES ASSUME NEW i \in 1..L, i = 1
               PROVE  T[i] = parts[i]
    BY DEF IsJoin
  <2>1. 1 \in 1..L /\ 1 - 1 = 0
    OBVIOUS
  <2>2. T[1] = <<>> \o parts[1]
    BY <2>1, Zenon DEF IsJoin
  <2> QED BY <2>1, <2>2, ConcatEmptySeq
<1>4. flatten = Step(flatten)
  <2> DEFINE g == [i \in 1..L |-> T[i]]
  <2>1. ASSUME NEW i \in 1..L PROVE g[i] = Step(g)[i]
    <3>1. CASE i = 1
      BY <1>3, <3>1
    <3>2. CASE i # 1
      <4>1. i - 1 \in 1..L
        BY <3>2
      <4> QED BY <1>3, <3>2, <4>1
    <3> QED BY <3>1, <3>2
  <2>2. g = Step(g)
    BY <2>1
  <2>3. flatten = CHOOSE f : f = Step(f)
    BY DEF Flattened
  <2> HIDE DEF g, Step, flatten
  <2> QED BY <2>2, <2>3
<1> HIDE DEF flatten
<1>5. ASSUME NEW n \in 0..(L - 1), n \in agree
      PROVE  n + 1 \in agree
  <2>1. n + 1 \in 1..L
    OBVIOUS
  <2>2. PICK i \in 1..L : i = n + 1 /\ i - 1 = n
    BY <2>1
  <2>3. flatten[i] = IF i = 1 THEN parts[i] ELSE flatten[n] \o parts[i]
    BY <1>4, <2>2
  <2>4. T[i] = IF i = 1 THEN parts[i] ELSE T[n] \o parts[i]
    BY <1>3, <2>2
  <2>5. i = 1 \/ flatten[n] = T[n]
    BY <1>5, <2>2
  <2>6. flatten[i] = T[i]
    BY <2>3, <2>4, <2>5
  <2> QED BY <2>1, <2>2, <2>6
<1>6. 0..L \subseteq agree
  <2>1. 0 \in agree
    OBVIOUS
  <2> HIDE DEF agree
  <2> QED BY <1>5, <2>1, SetInduction
<1>7. L \in agree
  BY <1>6
<1> QED BY <1>7 DEF flatten

\* Where the parts of a joined text are: the end of each, which is the offset of
\* the next.
AreOffsets(O, parts, L, text) ==
  /\ O \in [0..L -> Nat]
  /\ O[0] = 0 /\ O[L] = Len(text)
  /\ \A n \in 1..L :
       /\ O[n] = O[n - 1] + Len(parts[n])
       /\ O[n] <= Len(text)
       /\ \A p \in 1..Len(parts[n]) : text[O[n - 1] + p] = parts[n][p]

\* In a join every part is at its offset, and the offsets add up.
LEMMA JoinOffsets ==
  ASSUME NEW S, NEW parts, NEW L \in Nat, \A n \in 1..L : parts[n] \in Seq(S),
         NEW T, IsJoin(T, S, parts, L), NEW text, text = T[L]
  PROVE  text \in Seq(S) /\ \E O : AreOffsets(O, parts, L, text)
<1>3. text = T[L]
  OBVIOUS
<1>4. /\ T \in [0..L -> Seq(S)] /\ T[0] = <<>>
      /\ \A n \in 1..L : T[n] = T[n - 1] \o parts[n]
  BY DEF IsJoin
<1>5. ASSUME NEW n \in 1..L
      PROVE  Extends(T[n], T[n - 1], parts[n])
  <2>1. T[n - 1] \in Seq(S)
    BY <1>4
  <2>2. T[n] = T[n - 1] \o parts[n]
    BY <1>4, Zenon
  <2> QED BY <2>1, <2>2, ConcatPositions, Zenon
<1>6. ASSUME NEW m \in 0..L
      PROVE  \A n \in m..L : /\ Len(T[m]) <= Len(T[n])
                             /\ \A p \in 1..Len(T[m]) : T[n][p] = T[m][p]
  <2> DEFINE kept == {d \in 0..(L - m) :
                        /\ Len(T[m]) <= Len(T[m + d])
                        /\ \A p \in 1..Len(T[m]) : T[m + d][p] = T[m][p]}
  <2>1. Len(T[m]) \in Nat
    BY <1>4, LenProperties
  <2>2. 0 \in kept
    BY <2>1
  <2>3. ASSUME NEW d \in 0..((L - m) - 1), d \in kept
        PROVE  d + 1 \in kept
    <3>1. PICK k \in 1..L : k = m + (d + 1) /\ k - 1 = m + d
      OBVIOUS
    <3>2. PICK before, after, first :
            before = T[k - 1] /\ after = T[k] /\ first = T[m]
      OBVIOUS
    <3>3. Extends(after, before, parts[k])
      BY <1>5, <3>2
    <3>4. Len(first) <= Len(before) /\ \A p \in 1..Len(first) : before[p] = first[p]
      BY <2>3, <3>1, <3>2
    <3>5. Len(first) \in Nat
      BY <2>1, <3>2
    <3>6. Len(first) <= Len(after) /\ \A p \in 1..Len(first) : after[p] = first[p]
      BY <3>3, <3>4, <3>5 DEF Extends
    <3>7. d + 1 \in 0..(L - m)
      OBVIOUS
    <3> QED BY <3>1, <3>2, <3>6, <3>7
  <2>4. 0..(L - m) \subseteq kept
    <3>1. L - m \in Nat
      OBVIOUS
    <3> HIDE DEF kept
    <3> QED BY <2>2, <2>3, <3>1, SetInduction
  <2>5. ASSUME NEW n \in m..L
        PROVE  /\ Len(T[m]) <= Len(T[n])
               /\ \A p \in 1..Len(T[m]) : T[n][p] = T[m][p]
    <3>1. PICK d \in 0..(L - m) : m + d = n
      <4>1. n - m \in 0..(L - m) /\ m + (n - m) = n
        OBVIOUS
      <4> QED BY <4>1
    <3>2. d \in kept
      BY <2>4
    <3> QED BY <3>1, <3>2
  <2> QED BY <2>5
<1> DEFINE O == [n \in 0..L |-> Len(T[n])]
<1>7. O \in [0..L -> Nat] /\ O[0] = 0 /\ O[L] = Len(text)
  BY <1>3, <1>4, LenProperties, EmptySeq
<1>8. ASSUME NEW n \in 1..L
      PROVE  /\ O[n] = O[n - 1] + Len(parts[n])
             /\ O[n] <= Len(text)
             /\ \A p \in 1..Len(parts[n]) : text[O[n - 1] + p] = parts[n][p]
  <2>1. n \in 0..L /\ n - 1 \in 0..L /\ L \in n..L
    OBVIOUS
  <2>2. PICK before, after, part : before = T[n - 1] /\ after = T[n] /\ part = parts[n]
    OBVIOUS
  <2>3. O[n] = Len(after) /\ O[n - 1] = Len(before)
    BY <2>1, <2>2
  <2>4. Extends(after, before, part)
    BY <1>5, <2>2
  <2>5. Len(after) <= Len(text) /\ \A p \in 1..Len(after) : text[p] = after[p]
    BY <1>3, <1>6, <2>1, <2>2
  <2>6. /\ Len(after) = Len(before) + Len(part)
        /\ \A p \in 1..Len(part) : text[Len(before) + p] = part[p]
    BY <2>4, <2>5 DEF Extends
  <2> HIDE DEF O
  <2> QED BY <2>2, <2>3, <2>5, <2>6
<1> HIDE DEF O
<1>9. AreOffsets(O, parts, L, text)
  BY <1>7, <1>8 DEF AreOffsets
<1>10. text \in Seq(S)
  BY <1>3, <1>4
<1> QED BY <1>9, <1>10

\* So it is in what FlattenSeq of the community modules puts together.
LEMMA FlattenOffsets ==
  ASSUME NEW S, NEW parts \in Seq(Seq(S))
  PROVE  /\ FlattenSeq(parts) \in Seq(S)
         /\ \E O : AreOffsets(O, parts, Len(parts), FlattenSeq(parts))
<1>1. Len(parts) \in Nat /\ \A n \in 1..Len(parts) : parts[n] \in Seq(S)
  BY LenProperties, ElementOfSeq
<1>2. PICK T : IsJoin(T, S, parts, Len(parts))
  BY <1>1, JoinExists
<1>3. CASE Len(parts) = 0
  <2>1. FlattenSeq(parts) = T[Len(parts)]
    BY <1>2, <1>3, EmptySeq DEF FlattenSeq, IsJoin
  <2> QED BY <1>1, <1>2, <2>1, JoinOffsets
<1>4. CASE Len(parts) # 0
  <2>1. Flattened(parts, Len(parts))[Len(parts)] = T[Len(parts)]
    BY <1>1, <1>2, <1>4, FlattenIsJoin
  <2>2. FlattenSeq(parts) = T[Len(parts)]
    BY <1>4, <2>1, Zenon DEF FlattenSeq, Flattened
  <2> QED BY <1>1, <1>2, <2>2, JoinOffsets
<1> QED BY <1>3, <1>4

\* Every position is in one of the parts.
LEMMA PositionInLine ==
  ASSUME NEW L \in Nat, NEW O, NEW text, Len(text) \in Nat,
         O \in [0..L -> Nat], O[0] = 0, O[L] = Len(text), NEW p \in 1..Len(text)
  PROVE  \E n \in 1..L : O[n - 1] < p /\ p <= O[n]
<1> DEFINE after == {n \in 0..L : p <= O[n]}
<1>1. Len(text) \in Nat /\ \A n \in 0..L : O[n] \in Nat
  OBVIOUS
<1>2. after \in SUBSET Nat /\ after # {}
  <2>1. L \in after
    BY <1>1
  <2> QED BY <1>1, <2>1
<1>3. PICK n \in after : \A m \in after : n <= m
  BY <1>2, LeastElement
<1>4. n # 0
  BY <1>3
<1>5. n \in 1..L /\ n - 1 \in 0..L /\ n - 1 \notin after
  BY <1>1, <1>3, <1>4
<1>6. O[n - 1] < p
  BY <1>1, <1>5
<1> QED BY <1>3, <1>5, <1>6

------------------------------------------------------------------------------
\* The file: its keys and its lines.
\* A line, token by token.
IsLine(line, i, imageID, catalogName) ==
  LET N == Len(imageID)
      M == Len(catalogName) IN
  /\ N \in Nat /\ M \in Nat /\ Len(line) = N + M + 4
  /\ line[1] = i /\ line[2] = Equals
  /\ \A p \in 1..N : line[2 + p] = imageID[p]
  /\ line[N + 3] = Comma
  /\ \A p \in 1..M : line[N + 3 + p] = catalogName[p]
  /\ line[N + M + 4] = Newline

\* The line that the adapter writes for an image, token by token.
LEMMA LinePositions ==
  ASSUME NEW i \in Images, NEW description \in Described
  PROVE  /\ Line(i, description) \in Seq(Tokens)
         /\ IsLine(Line(i, description), i, description.imageID, description.catalogName)
<1>1. PICK imageID, catalogName :
        imageID = description.imageID /\ catalogName = description.catalogName
  OBVIOUS
<1>2. imageID \in Seq(Tokens) /\ catalogName \in Seq(Tokens \ {Newline})
  BY <1>1, FileAssumption DEF Described
<1>3. catalogName \in Seq(Tokens)
  BY <1>2, SeqMonotonic
<1>4. i \in Tokens
  BY FileAssumption DEF Images, ToSet, Tokens
<1>5. {Equals, Comma, Newline} \subseteq Tokens
  BY DEF Tokens, Separators
<1>6. PICK head, comma, end : head = <<i, Equals>> /\ comma = <<Comma>> /\ end = <<Newline>>
  OBVIOUS
<1>7. /\ head \in Seq(Tokens) /\ comma \in Seq(Tokens) /\ end \in Seq(Tokens)
      /\ Len(head) = 2 /\ head[1] = i /\ head[2] = Equals
      /\ Len(comma) = 1 /\ comma[1] = Comma /\ Len(end) = 1 /\ end[1] = Newline
  BY <1>4, <1>5, <1>6
<1>8. PICK a : a = imageID \o comma
  OBVIOUS
<1>9. a \in Seq(Tokens) /\ Extends(a, imageID, comma)
  BY <1>2, <1>7, <1>8, ConcatPositions, ConcatProperties
<1>10. PICK b : b = a \o catalogName
  OBVIOUS
<1>11. b \in Seq(Tokens) /\ Extends(b, a, catalogName)
  BY <1>3, <1>9, <1>10, ConcatPositions, ConcatProperties
<1>12. PICK c : c = head \o b
  OBVIOUS
<1>13. c \in Seq(Tokens) /\ Extends(c, head, b)
  BY <1>7, <1>11, <1>12, ConcatPositions, ConcatProperties
<1>14. PICK line : line = c \o end
  OBVIOUS
<1>15. line \in Seq(Tokens) /\ Extends(line, c, end)
  BY <1>7, <1>13, <1>14, ConcatPositions, ConcatProperties
<1>16. Line(i, description) = line
  BY <1>1, <1>6, <1>8, <1>10, <1>12, <1>14, Zenon DEF Line, String
<1>17. PICK N, M : N = Len(imageID) /\ M = Len(catalogName)
  OBVIOUS
<1>18. /\ N \in Nat /\ M \in Nat /\ Len(a) = N + 1 /\ Len(b) = N + 1 + M
       /\ Len(c) = N + M + 3 /\ Len(line) = N + M + 4
  BY <1>7, <1>9, <1>11, <1>13, <1>15, <1>17 DEF Extends
<1>19. /\ \A p \in 1..N : a[p] = imageID[p]
       /\ a[N + 1] = Comma
  BY <1>7, <1>9, <1>17, <1>18 DEF Extends
<1>20. /\ \A p \in 1..(N + 1) : b[p] = a[p]
       /\ \A p \in 1..M : b[N + 1 + p] = catalogName[p]
  BY <1>11, <1>17, <1>18 DEF Extends
<1>21. /\ c[1] = i /\ c[2] = Equals
       /\ \A p \in 1..(N + 1 + M) : c[2 + p] = b[p]
  BY <1>7, <1>13, <1>18 DEF Extends
<1>22. /\ \A p \in 1..(N + M + 3) : line[p] = c[p]
       /\ line[N + M + 4] = Newline
  BY <1>7, <1>15, <1>18 DEF Extends
<1>23. ASSUME NEW p \in 1..N PROVE line[2 + p] = imageID[p]
  <2>1. p \in 1..(N + 1) /\ p \in 1..(N + 1 + M) /\ 2 + p \in 1..(N + M + 3)
    BY <1>18
  <2>2. b[p] = imageID[p]
    BY <1>19, <1>20, <2>1
  <2>3. line[2 + p] = c[2 + p] /\ c[2 + p] = b[p]
    BY <1>21, <1>22, <2>1
  <2> QED BY <2>2, <2>3
<1>24. line[N + 3] = Comma
  <2>1. N + 1 \in 1..(N + 1 + M) /\ 2 + (N + 1) = N + 3 /\ N + 3 \in 1..(N + M + 3)
    BY <1>18
  <2>2. b[N + 1] = Comma
    BY <1>18, <1>19, <1>20
  <2>3. c[2 + (N + 1)] = b[N + 1] /\ line[N + 3] = c[N + 3]
    BY <1>21, <1>22, <2>1
  <2> QED BY <2>1, <2>2, <2>3
<1>25. ASSUME NEW p \in 1..M PROVE line[N + 3 + p] = catalogName[p]
  <2>1. PICK q \in 1..(N + 1 + M) : q = N + 1 + p /\ 2 + q = N + 3 + p
    BY <1>18
  <2>2. b[q] = catalogName[p]
    BY <1>20, <2>1
  <2>3. 2 + q \in 1..(N + M + 3)
    BY <1>18, <2>1
  <2>4. line[2 + q] = c[2 + q] /\ c[2 + q] = b[q]
    BY <1>21, <1>22, <2>3
  <2> QED BY <2>1, <2>2, <2>4
<1>26. line[1] = i /\ line[2] = Equals
  BY <1>18, <1>21, <1>22
<1>27. IsLine(line, i, imageID, catalogName)
  BY <1>17, <1>18, <1>22, <1>23, <1>24, <1>25, <1>26 DEF IsLine
<1> QED BY <1>1, <1>15, <1>16, <1>27

\* There are finitely many images: those of a sequence.
LEMMA ImagesAreFinite == IsFiniteSet(Images)
<1>1. Len(ImageNames) \in Nat /\ DOMAIN ImageNames = 1..Len(ImageNames)
  BY FileAssumption, LenProperties
<1>2. IsFiniteSet(DOMAIN ImageNames)
  BY <1>1, FS_Interval
<1>3. ImageNames \in [DOMAIN ImageNames -> Images]
  <2>1. ImageNames \in [1..Len(ImageNames) -> Words]
    BY FileAssumption, LenProperties
  <2> QED BY <1>1, <2>1 DEF Images, ToSet
<1>4. \A i \in Images : \E n \in DOMAIN ImageNames : ImageNames[n] = i
  BY DEF Images, ToSet
<1>5. ImageNames \in Surjection(DOMAIN ImageNames, Images)
  BY <1>3, <1>4 DEF Surjection
<1> QED BY <1>2, <1>5, FS_Surjection

\* In an order of some images each of them has one place.
Orders(order, S) ==
  /\ order \in Seq(S)
  /\ \A m, n \in 1..Len(order) : m # n => order[m] # order[n]
  /\ \A i \in S : \E n \in 1..Len(order) : order[n] = i

\* The keys of a map come in such an order.
LEMMA KeysAreOrdered ==
  ASSUME NEW S \in SUBSET Images, NEW pulled \in [S -> Described],
         NEW order \in keys(pulled)
  PROVE  Orders(order, S)
<1>1. DOMAIN pulled = S
  OBVIOUS
<1>3. IsFiniteSet(S)
  BY ImagesAreFinite, FS_Subset
<1> DEFINE L == Cardinality(S)
<1>4. L \in Nat
  BY <1>3, FS_CardinalityType
<1>5. /\ order \in [1..L -> S]
      /\ \A m, n \in 1..L : m # n => order[m] # order[n]
  BY <1>1 DEF keys, KeysOfMap, SetToSeqs
<1> HIDE DEF L
<1>6. order \in Seq(S) /\ Len(order) = L
  BY <1>4, <1>5
<1>7. order \in Injection(1..L, S)
  BY <1>5 DEF Injection, IsInjective
<1>8. IsFiniteSet(1..L) /\ Cardinality(1..L) = Cardinality(S)
  BY <1>4, FS_Interval DEF L
<1>9. order \in Surjection(1..L, S)
  BY <1>3, <1>7, <1>8, FS_Injection
<1>10. \A i \in S : \E n \in 1..L : order[n] = i
  BY <1>9 DEF Surjection
<1> QED BY <1>5, <1>6, <1>10 DEF Orders

\* The place of an image is where it stands in the order of strings.
LEMMA PlaceProperties ==
  ASSUME NEW i \in Images
  PROVE  Place(i) \in Nat /\ ImageNames[Place(i)] = i
<1>1. Len(ImageNames) \in Nat /\ DOMAIN ImageNames = 1..Len(ImageNames)
  BY FileAssumption, LenProperties
<1>2. \E n \in DOMAIN ImageNames : ImageNames[n] = i
  BY DEF Images, ToSet
<1>3. Place(i) \in DOMAIN ImageNames /\ ImageNames[Place(i)] = i
  BY <1>2 DEF Place
<1> QED BY <1>1, <1>3

\* The places of the keys go up.
LEMMA KeysAreSorted ==
  ASSUME NEW S \in SUBSET Images, NEW pulled \in [S -> Described],
         NEW order \in keys(pulled)
  PROVE  \A m, n \in 1..Len(order) : m < n => Place(order[m]) < Place(order[n])
<1>1. order \in Seq(S)
  BY KeysAreOrdered DEF Orders
<1>2. DOMAIN order = 1..Len(order)
  BY <1>1, LenProperties
<1> QED BY <1>2 DEF keys

\* Where two sorted orders first differ, neither can have the smaller key.
LEMMA NoSmallerKey ==
  ASSUME NEW S \in SUBSET Images, NEW pulled \in [S -> Described],
         NEW first \in keys(pulled), NEW second \in keys(pulled),
         NEW k \in 1..Len(first), k \in 1..Len(second),
         \A n \in 1..(k - 1) : first[n] = second[n],
         Place(first[k]) < Place(second[k])
  PROVE  FALSE
<1>0. Orders(first, S) /\ Orders(second, S)
  BY KeysAreOrdered
<1>1. /\ first \in Seq(S) /\ second \in Seq(S)
      /\ \A m, n \in 1..Len(first) : m # n => first[m] # first[n]
      /\ \A i \in S : \E n \in 1..Len(second) : second[n] = i
  BY <1>0 DEF Orders
<1>2. Len(first) \in Nat /\ Len(second) \in Nat
  BY <1>1, LenProperties
<1>3. first[k] \in S /\ second[k] \in S
  BY <1>1, ElementOfSeq
<1>4. Place(first[k]) \in Nat /\ Place(second[k]) \in Nat
  BY <1>3, PlaceProperties
<1>5. PICK j \in 1..Len(second) : second[j] = first[k]
  BY <1>1, <1>3
<1>6. CASE j < k
  <2>1. j \in 1..(k - 1) /\ j \in 1..Len(first) /\ j # k
    BY <1>2, <1>6
  <2>2. first[j] = first[k]
    BY <1>5, <2>1
  <2> QED BY <1>1, <2>1, <2>2
<1>7. CASE j = k
  BY <1>4, <1>5, <1>7
<1>8. CASE k < j
  <2>1. Place(second[k]) < Place(second[j])
    BY <1>8, KeysAreSorted
  <2>2. Place(second[k]) < Place(first[k])
    BY <1>5, <2>1
  <2> QED BY <1>4, <2>2
<1> QED BY <1>2, <1>6, <1>7, <1>8

\* There are as many keys as there are images in the map.
LEMMA KeysHaveALength ==
  ASSUME NEW S \in SUBSET Images, NEW pulled \in [S -> Described],
         NEW order \in keys(pulled)
  PROVE  Len(order) = Cardinality(S)
<1>1. order \in Seq(S) /\ order \in [1..Cardinality(S) -> S]
  <2>1. DOMAIN pulled = S
    OBVIOUS
  <2> QED BY <2>1, KeysAreOrdered DEF Orders, keys, KeysOfMap, SetToSeqs
<1>2. IsFiniteSet(S)
  BY ImagesAreFinite, FS_Subset
<1>3. Cardinality(S) \in Nat
  BY <1>2, FS_CardinalityType
<1>4. DOMAIN order = 1..Len(order) /\ DOMAIN order = 1..Cardinality(S) /\ Len(order) \in Nat
  BY <1>1, LenProperties
<1>5. 1..Len(order) = 1..Cardinality(S)
  BY <1>4
<1> QED BY <1>3, <1>4, <1>5

\* Sorted keys come in one order only.
LEMMA KeysAreUnique ==
  ASSUME NEW S \in SUBSET Images, NEW pulled \in [S -> Described],
         NEW first \in keys(pulled), NEW second \in keys(pulled)
  PROVE  first = second
<1>1. first \in Seq(S) /\ second \in Seq(S)
  BY KeysAreOrdered DEF Orders
<1>2. PICK L : L = Len(first) /\ L = Len(second)
  BY KeysHaveALength
<1>3. L \in Nat
  BY <1>1, <1>2, LenProperties
<1> DEFINE differ == {n \in 1..L : first[n] # second[n]}
<1>4. SUFFICES ASSUME differ # {} PROVE FALSE
  BY <1>1, <1>2, SeqEqual
<1>5. differ \in SUBSET Nat
  BY <1>3
<1>6. PICK k \in differ : \A n \in differ : k <= n
  BY <1>4, <1>5, LeastElement
<1>7. \A n \in 1..(k - 1) : first[n] = second[n]
  BY <1>3, <1>6
<1>8. k \in 1..Len(first) /\ k \in 1..Len(second)
  BY <1>2, <1>6
<1>9. first[k] \in Images /\ second[k] \in Images /\ first[k] # second[k]
  <2>1. first[k] \in S /\ second[k] \in S
    BY <1>1, <1>8, ElementOfSeq
  <2> QED BY <1>6, <2>1
<1>10. Place(first[k]) \in Nat /\ Place(second[k]) \in Nat /\ Place(first[k]) # Place(second[k])
  BY <1>9, PlaceProperties
<1>11. ~(Place(first[k]) < Place(second[k]))
  BY <1>7, <1>8, NoSmallerKey
<1>12. ~(Place(second[k]) < Place(first[k]))
  BY <1>7, <1>8, NoSmallerKey
<1> QED BY <1>10, <1>11, <1>12

------------------------------------------------------------------------------
\* The lines in the file.
\* The text from one cut to the next is the line of an image.
IsLineAt(text, from, to, i, imageID, catalogName) ==
  LET N == Len(imageID)
      M == Len(catalogName) IN
  /\ from \in Nat /\ N \in Nat /\ M \in Nat
  /\ to = from + N + M + 4 /\ to <= Len(text)
  /\ text[from + 1] = i /\ text[from + 2] = Equals
  /\ \A p \in 1..N : text[from + 2 + p] = imageID[p]
  /\ text[from + N + 3] = Comma
  /\ \A p \in 1..M : text[from + N + 3 + p] = catalogName[p]
  /\ text[to] = Newline

\* A text is the lines of the images of a map, in an order of its keys.
AreLines(O, L, text, pulled, order) ==
  /\ O \in [0..L -> Nat]
  /\ O[0] = 0 /\ O[L] = Len(text)
  /\ \A n \in 1..L :
       IsLineAt(text, O[n - 1], O[n], order[n],
                pulled[order[n]].imageID, pulled[order[n]].catalogName)

\* A line that is copied into a text at a cut is a line at that cut.
LEMMA LineIsThere ==
  ASSUME NEW text, Len(text) \in Nat, NEW from \in Nat, NEW to, to <= Len(text),
         NEW line, NEW i, NEW imageID, NEW catalogName,
         IsLine(line, i, imageID, catalogName),
         to = from + Len(line),
         \A p \in 1..Len(line) : text[from + p] = line[p]
  PROVE  IsLineAt(text, from, to, i, imageID, catalogName)
<1>1. PICK N, M : N = Len(imageID) /\ M = Len(catalogName)
  OBVIOUS
<1>2. /\ N \in Nat /\ M \in Nat /\ Len(line) = N + M + 4
      /\ line[1] = i /\ line[2] = Equals
      /\ \A p \in 1..N : line[2 + p] = imageID[p]
      /\ line[N + 3] = Comma
      /\ \A p \in 1..M : line[N + 3 + p] = catalogName[p]
      /\ line[N + M + 4] = Newline
  BY <1>1 DEF IsLine
<1>3. to = from + N + M + 4
  BY <1>2
<1>4. text[from + 1] = i /\ text[from + 2] = Equals
  BY <1>2
<1>5. ASSUME NEW p \in 1..N PROVE text[from + 2 + p] = imageID[p]
  <2>1. 2 + p \in 1..Len(line) /\ from + (2 + p) = from + 2 + p
    BY <1>2
  <2> QED BY <1>2, <2>1
<1>6. text[from + N + 3] = Comma
  <2>1. N + 3 \in 1..Len(line) /\ from + (N + 3) = from + N + 3
    BY <1>2
  <2> QED BY <1>2, <2>1
<1>7. ASSUME NEW p \in 1..M PROVE text[from + N + 3 + p] = catalogName[p]
  <2>1. N + 3 + p \in 1..Len(line) /\ from + (N + 3 + p) = from + N + 3 + p
    BY <1>2
  <2> QED BY <1>2, <2>1
<1>8. text[to] = Newline
  <2>1. N + M + 4 \in 1..Len(line) /\ from + (N + M + 4) = to
    BY <1>2
  <2> QED BY <1>2, <2>1
<1> QED BY <1>1, <1>2, <1>3, <1>4, <1>5, <1>6, <1>7, <1>8 DEF IsLineAt

\* The content that a round compares and writes is lines, one per key.
LEMMA ContentIsLines ==
  ASSUME NEW S \in SUBSET Images, NEW pulled \in [S -> Described],
         NEW order \in keys(pulled)
  PROVE  /\ Content(pulled, order) \in Seq(Tokens)
         /\ \E O : AreLines(O, Len(order), Content(pulled, order), pulled, order)
<1>1. order \in Seq(S)
  BY KeysAreOrdered DEF Orders
<1>2. PICK L \in Nat : L = Len(order) /\ DOMAIN order = 1..L
  BY <1>1, LenProperties
<1> DEFINE parts == [n \in 1..L |-> Line(order[n], pulled[order[n]])]
<1>3. ASSUME NEW n \in 1..L
      PROVE  /\ parts[n] \in Seq(Tokens)
             /\ IsLine(parts[n], order[n], pulled[order[n]].imageID, pulled[order[n]].catalogName)
  <2>1. order[n] \in S
    BY <1>1, <1>2, ElementOfSeq
  <2>2. order[n] \in Images /\ pulled[order[n]] \in Described
    BY <2>1
  <2>3. parts[n] = Line(order[n], pulled[order[n]])
    OBVIOUS
  <2> HIDE DEF parts
  <2> QED BY <2>2, <2>3, LinePositions
<1>4. Content(pulled, order) = FlattenSeq(parts)
  BY <1>2 DEF Content
<1>5. parts \in Seq(Seq(Tokens)) /\ Len(parts) = L
  BY <1>3
<1> HIDE DEF parts
<1>6. PICK text : text = FlattenSeq(parts)
  OBVIOUS
<1>7. text \in Seq(Tokens) /\ \E O : AreOffsets(O, parts, L, text)
  BY <1>5, <1>6, FlattenOffsets
<1>8. PICK O : AreOffsets(O, parts, L, text)
  BY <1>7
<1>9. /\ O \in [0..L -> Nat] /\ O[0] = 0 /\ O[L] = Len(text)
  BY <1>8 DEF AreOffsets
<1>10. ASSUME NEW n \in 1..L
       PROVE  IsLineAt(text, O[n - 1], O[n], order[n],
                       pulled[order[n]].imageID, pulled[order[n]].catalogName)
  <2>1. PICK from, to, line, i, imageID, catalogName :
          /\ from = O[n - 1] /\ to = O[n] /\ line = parts[n] /\ i = order[n]
          /\ imageID = pulled[order[n]].imageID
          /\ catalogName = pulled[order[n]].catalogName
    OBVIOUS
  <2>2. IsLine(line, i, imageID, catalogName)
    BY <1>3, <2>1
  <2>3. /\ to = from + Len(line) /\ to <= Len(text)
        /\ \A p \in 1..Len(line) : text[from + p] = line[p]
    BY <1>8, <2>1 DEF AreOffsets
  <2>4. from \in Nat
    BY <1>9, <2>1
  <2>5. Len(text) \in Nat
    BY <1>7, LenProperties
  <2>6. IsLineAt(text, from, to, i, imageID, catalogName)
    BY <2>2, <2>3, <2>4, <2>5, LineIsThere
  <2> QED BY <2>1, <2>6
<1>11. AreLines(O, L, text, pulled, order)
  BY <1>9, <1>10 DEF AreLines
<1> QED BY <1>2, <1>4, <1>6, <1>7, <1>11

------------------------------------------------------------------------------
\* What the reader makes of a line.
LEMMA SeparatorsDiffer ==
  /\ Equals # Comma /\ Equals # Newline /\ Comma # Newline
  /\ \A w \in Words : w # Equals /\ w # Comma /\ w # Newline
<1>1. Equals # Comma /\ Equals # Newline /\ Comma # Newline
  BY DEF Equals, Comma, Newline
<1>2. \A w \in Words : w \notin {Equals, Comma, Newline}
  BY FileAssumption DEF Separators
<1> QED BY <1>1, <1>2

\* An image reference has no separator in it.
LEMMA ImagesAreWords == Images \subseteq Words
<1> SUFFICES ASSUME NEW i \in Images PROVE i \in Words
  OBVIOUS
<1>1. PICK n \in DOMAIN ImageNames : ImageNames[n] = i
  BY DEF Images, ToSet
<1>2. DOMAIN ImageNames = 1..Len(ImageNames)
  BY FileAssumption, LenProperties
<1>3. ImageNames[n] \in Words
  BY <1>1, <1>2, FileAssumption, ElementOfSeq
<1> QED BY <1>1, <1>3

\* A text of one token.
LEMMA SingletonText ==
  ASSUME NEW T, NEW text \in Seq(T), Len(text) = 1
  PROVE  text = <<text[1]>>
<1>1. text[1] \in T
  BY ElementOfSeq
<1>2. PICK other : other = <<text[1]>>
  OBVIOUS
<1>3. other \in Seq(T) /\ Len(other) = 1 /\ other[1] = text[1]
  BY <1>1, <1>2
<1>4. \A p \in 1..Len(text) : text[p] = other[p]
  BY <1>3
<1>5. text = other
  BY <1>3, <1>4, SeqEqual
<1> QED BY <1>2, <1>5

\* The name that is read in a line that starts with an image.
LEMMA NameIsRead ==
  ASSUME NEW text \in Seq(Tokens), NEW from, NEW to, NEW i \in Images,
         NEW imageID, NEW catalogName,
         IsLineAt(text, from, to, i, imageID, catalogName)
  PROVE  /\ Part(text, Newline, from) # <<>>
         /\ imageName(Part(text, Newline, from)) = <<i>>
<1>1. /\ from \in Nat /\ to \in Nat /\ from + 4 <= to /\ to <= Len(text)
      /\ text[from + 1] = i /\ text[from + 2] = Equals
  BY DEF IsLineAt
<1>2. Len(text) \in Nat
  BY LenProperties
<1>3. from \in 0..Len(text)
  BY <1>1, <1>2
<1>4. PICK line, end : line = Part(text, Newline, from) /\ end = End(text, Newline, from)
  OBVIOUS
<1>5. /\ end \in (from + 1)..(Len(text) + 1)
      /\ end <= Len(text) => text[end] = Newline
  BY <1>3, <1>4, EndProperties
<1>6. /\ line \in Seq(Tokens) /\ Len(line) = end - from - 1
      /\ \A p \in 1..(end - from - 1) : line[p] = text[from + p]
  BY <1>3, <1>4, PartProperties
<1>7. i # Newline /\ i # Equals /\ Equals # Newline
  BY SeparatorsDiffer, ImagesAreWords
<1>8. end # from + 1 /\ end # from + 2
  BY <1>1, <1>2, <1>5, <1>7
<1>9. end - from - 1 \in Nat /\ 2 <= end - from - 1
  BY <1>1, <1>2, <1>5, <1>8
<1>10. line[1] = i /\ line[2] = Equals
  BY <1>1, <1>6, <1>9
<1>11. Len(line) \in Nat /\ 2 <= Len(line)
  BY <1>6, <1>9
<1>12. line # <<>>
  BY <1>6, <1>11, EmptySeq
<1>13. End(line, Equals, 0) = 2
  <2>1. 0 \in 0..Len(line) /\ 2 \in (0 + 1)..(Len(line) + 1)
    BY <1>11
  <2>2. \A p \in (0 + 1)..(2 - 1) : line[p] # Equals
    BY <1>7, <1>10
  <2> QED BY <1>6, <1>10, <2>1, <2>2, EndIs
<1>14. PICK name : name = Part(line, Equals, 0)
  OBVIOUS
<1>15. name \in Seq(Tokens) /\ Len(name) = 1 /\ name[1] = line[1]
  <2>1. 0 \in 0..Len(line)
    BY <1>11
  <2>2. PICK e : e = End(line, Equals, 0) /\ e = 2
    BY <1>13
  <2>3. /\ name \in Seq(Tokens) /\ Len(name) = e - 0 - 1
        /\ \A p \in 1..(e - 0 - 1) : name[p] = line[0 + p]
    BY <1>6, <1>14, <2>1, <2>2, PartProperties
  <2> QED BY <2>2, <2>3
<1>16. name = <<i>>
  BY <1>10, <1>15, SingletonText
<1> QED BY <1>4, <1>12, <1>14, <1>16 DEF imageName

\* A line starts at the start of the text or after a newline.
LEMMA LinesStartAtCuts ==
  ASSUME NEW O, NEW L \in Nat, NEW text \in Seq(Tokens), NEW pulled, NEW order,
         AreLines(O, L, text, pulled, order), NEW n \in 1..L
  PROVE  O[n - 1] \in Cuts(text, Newline)
<1>1. CASE n = 1
  <2>1. O[n - 1] = 0
    BY <1>1 DEF AreLines
  <2> QED BY <2>1 DEF Cuts
<1>2. CASE n # 1
  <2>1. PICK m \in 1..L : m = n - 1
    BY <1>2
  <2>2. PICK from, to, i, imageID, catalogName :
          to = O[m] /\ IsLineAt(text, from, to, i, imageID, catalogName)
    BY DEF AreLines
  <2>3. to \in Nat /\ 1 <= to /\ to <= Len(text) /\ text[to] = Newline
    BY <2>2 DEF IsLineAt
  <2>4. to \in DOMAIN text
    BY <2>3, LenProperties
  <2> QED BY <2>1, <2>2, <2>3, <2>4 DEF Cuts
<1> QED BY <1>1, <1>2

------------------------------------------------------------------------------
\* What a step keeps: the file is the lines of what it lists.  It says where
\* the text comes from, which none of the properties does.
ListedInv ==
  \E S \in SUBSET Images :
    /\ listed \in [S -> Described]
    /\ \E order \in keys(listed) : file = Content(listed, order)

\* One round at a time; an empty file lists nothing.
LEMMA ListedInvariant == FileSpec => []ListedInv
<1>1. FileInit => ListedInv
  <2> SUFFICES ASSUME FileInit PROVE ListedInv
    OBVIOUS
  <2>1. listed = <<>> /\ file = <<>>
    BY DEF FileInit
  <2>2. {} \in SUBSET Images /\ listed \in [{} -> Described] /\ DOMAIN listed = {}
    BY <2>1
  <2>3. Cardinality({}) = 0 /\ 1..0 = {}
    BY FS_EmptySet
  <2>4. <<>> \in keys(listed)
    BY <2>2, <2>3 DEF keys, KeysOfMap, SetToSeqs
  <2>5. Content(listed, <<>>) = <<>>
    <3>1. [n \in DOMAIN <<>> |-> Line(<<>>[n], listed[<<>>[n]])] = <<>>
      OBVIOUS
    <3> QED BY <3>1, EmptySeq, Zenon DEF Content, FlattenSeq
  <2> QED BY <2>1, <2>2, <2>4, <2>5 DEF ListedInv
<1>2. ListedInv /\ [FileNext]_fileVars => ListedInv'
  <2> SUFFICES ASSUME ListedInv, [FileNext]_fileVars
               PROVE  ListedInv'
    OBVIOUS
  <2>1. CASE PullRound
    <3>0. PICK S \in SUBSET Images : \E pulled \in [S -> Described] :
            \E order \in keys(pulled) :
              IF file = Content(pulled, order)
              THEN UNCHANGED <<file, listed>>
              ELSE \/ file' = Content(pulled, order) /\ listed' = pulled
                   \/ UNCHANGED <<file, listed>>
      BY <2>1 DEF PullRound
    <3>1. PICK pulled \in [S -> Described] :
            \E order \in keys(pulled) :
              IF file = Content(pulled, order)
              THEN UNCHANGED <<file, listed>>
              ELSE \/ file' = Content(pulled, order) /\ listed' = pulled
                   \/ UNCHANGED <<file, listed>>
      BY <3>0
    <3>2. PICK order \in keys(pulled) :
            \/ file' = Content(pulled, order) /\ listed' = pulled
            \/ UNCHANGED <<file, listed>>
      BY <3>1
    <3>3. CASE file' = Content(pulled, order) /\ listed' = pulled
      BY <3>2, <3>3 DEF ListedInv
    <3>4. CASE UNCHANGED <<file, listed>>
      BY <3>4 DEF ListedInv
    <3> QED BY <3>2, <3>3, <3>4
  <2>2. CASE RestartAdapter \/ UNCHANGED fileVars
    BY <2>2 DEF ListedInv, RestartAdapter, fileVars
  <2> QED BY <2>1, <2>2 DEF FileNext
<1> QED BY <1>1, <1>2, PTL DEF FileSpec

\* What the file is, when there are images in it: the lines, and where they are.
LEMMA FileIsLines ==
  ASSUME ListedInv
  PROVE  \E S \in SUBSET Images, order \in keys(listed), L \in Nat : \E O :
           /\ listed \in [S -> Described] /\ Orders(order, S) /\ L = Len(order)
           /\ file \in Seq(Tokens) /\ AreLines(O, L, file, listed, order)
<1>1. PICK S \in SUBSET Images :
        listed \in [S -> Described] /\ \E order \in keys(listed) : file = Content(listed, order)
  BY DEF ListedInv
<1>2. PICK order \in keys(listed) : file = Content(listed, order)
  BY <1>1
<1>3. Orders(order, S)
  BY <1>1, KeysAreOrdered
<1>4. Len(order) \in Nat
  BY <1>3, LenProperties DEF Orders
<1>5. file \in Seq(Tokens) /\ \E O : AreLines(O, Len(order), file, listed, order)
  BY <1>1, <1>2, ContentIsLines
<1> QED BY <1>1, <1>3, <1>4, <1>5

\* A round that pulled what the file already lists does not replace it: two
\* sorted orders of the same keys are one, so the text is the same.
THEOREM OnlyChangesWritten == FileSpec => OnlyChangesAreWritten
<1>1. ListedInv /\ [FileNext]_fileVars => [file' # file => images' # listed]_fileVars
  <2> SUFFICES ASSUME ListedInv, FileNext, file' # file
               PROVE  images' # listed
    OBVIOUS
  <2>1. PullRound
    BY DEF FileNext, RestartAdapter
  <2>0. PICK S \in SUBSET Images : \E pulled \in [S -> Described] :
          /\ images' = pulled
          /\ \E order \in keys(pulled) :
               file = Content(pulled, order) => UNCHANGED <<file, listed>>
    BY <2>1 DEF PullRound
  <2>2. PICK pulled \in [S -> Described] :
          /\ images' = pulled
          /\ \E order \in keys(pulled) :
               file = Content(pulled, order) => UNCHANGED <<file, listed>>
    BY <2>0
  <2>3. PICK order \in keys(pulled) :
          file = Content(pulled, order) => UNCHANGED <<file, listed>>
    BY <2>2
  <2>4. PICK before \in keys(listed) : file = Content(listed, before)
    BY DEF ListedInv
  <2>5. SUFFICES ASSUME pulled = listed PROVE FALSE
    BY <2>2
  <2>6. order = before
    BY <2>4, <2>5, KeysAreUnique
  <2> QED BY <2>3, <2>4, <2>5, <2>6
<1> QED BY <1>1, ListedInvariant, PTL DEF FileSpec, OnlyChangesAreWritten

\* An image that the adapter lists is read, whatever the pulls printed: its line
\* starts at a cut of the text, with its name and "=".
THEOREM ListedImagesRead == FileSpec => []ListedImagesAreRead
<1>1. ListedInv => ListedImagesAreRead
  <2> SUFFICES ASSUME ListedInv, NEW i \in DOMAIN listed
               PROVE  <<i>> \in DOMAIN getCatalogImagesFromConfigMap(file)
    BY DEF ListedImagesAreRead
  <2>0. PICK S \in SUBSET Images, order \in keys(listed), L \in Nat : \E O :
          /\ listed \in [S -> Described] /\ Orders(order, S) /\ L = Len(order)
          /\ file \in Seq(Tokens) /\ AreLines(O, L, file, listed, order)
    BY FileIsLines
  <2>1. PICK O :
          /\ listed \in [S -> Described] /\ Orders(order, S) /\ L = Len(order)
          /\ file \in Seq(Tokens) /\ AreLines(O, L, file, listed, order)
    BY <2>0
  <2>2. i \in S /\ i \in Images
    BY <2>1
  <2>3. PICK n \in 1..L : order[n] = i
    BY <2>1, <2>2 DEF Orders
  <2>4. PICK cut, to, imageID, catalogName :
          cut = O[n - 1] /\ IsLineAt(file, cut, to, i, imageID, catalogName)
    BY <2>1, <2>3 DEF AreLines
  <2>5. cut \in Cuts(file, Newline)
    BY <2>1, <2>4, LinesStartAtCuts
  <2>6. Part(file, Newline, cut) # <<>> /\ imageName(Part(file, Newline, cut)) = <<i>>
    BY <2>1, <2>2, <2>4, NameIsRead
  <2>7. cut \in imageLines(file)
    BY <2>5, <2>6 DEF imageLines
  <2>8. DOMAIN getCatalogImagesFromConfigMap(file)
          = {imageName(Part(file, Newline, c)) : c \in imageLines(file)}
    BY DEF getCatalogImagesFromConfigMap
  <2> QED BY <2>6, <2>7, <2>8
<1> QED BY <1>1, ListedInvariant, PTL

------------------------------------------------------------------------------
\* The image IDs.
\* An ID that is made of image IDs is made of words.
LEMMA PlainIDs ==
  ASSUME NEW imageID \in Seq(Tokens), ToSet(imageID) \subseteq ImageIDs
  PROVE  \A p \in 1..Len(imageID) : imageID[p] \in Words
<1>1. DOMAIN imageID = 1..Len(imageID)
  BY LenProperties
<1> QED BY <1>1, FileAssumption DEF ToSet

\* The line of an image whose ID is made of words ends where it was meant to,
\* and its ID ends at its first comma.
LEMMA IDIsRead ==
  ASSUME NEW text \in Seq(Tokens), NEW from, NEW to, NEW i \in Images,
         NEW imageID \in Seq(Tokens), NEW catalogName,
         IsLineAt(text, from, to, i, imageID, catalogName),
         \A p \in 1..Len(imageID) : imageID[p] \in Words,
         \A p \in 1..Len(catalogName) : catalogName[p] # Newline
  PROVE  imageDescription(Part(text, Newline, from))[1] = imageID
<1>1. PICK N, M : N = Len(imageID) /\ M = Len(catalogName)
  OBVIOUS
<1>2. /\ from \in Nat /\ N \in Nat /\ M \in Nat
      /\ to = from + N + M + 4 /\ to <= Len(text)
      /\ text[from + 1] = i /\ text[from + 2] = Equals
      /\ \A p \in 1..N : text[from + 2 + p] = imageID[p]
      /\ text[from + N + 3] = Comma
      /\ \A p \in 1..M : text[from + N + 3 + p] = catalogName[p]
      /\ text[to] = Newline
  BY <1>1 DEF IsLineAt
<1>3. /\ from \in Nat /\ N \in Nat /\ M \in Nat /\ Len(text) \in Nat
      /\ to \in Nat /\ to = from + N + M + 4 /\ to <= Len(text)
  BY <1>2, LenProperties
<1>4. i # Newline /\ Equals # Newline /\ Comma # Newline /\ Equals # Comma
  BY SeparatorsDiffer, ImagesAreWords
<1>5. \A p \in 1..N : imageID[p] # Newline /\ imageID[p] # Equals /\ imageID[p] # Comma
  BY <1>1, SeparatorsDiffer
<1>6. ASSUME NEW p \in (from + 1)..(to - 1) PROVE text[p] # Newline
  <2>1. CASE p = from + 1 \/ p = from + 2 \/ p = from + N + 3
    BY <1>2, <1>4, <2>1
  <2>2. CASE from + 2 < p /\ p < from + N + 3
    <3>1. PICK q \in 1..N : from + 2 + q = p
      <4>1. p - (from + 2) \in 1..N /\ from + 2 + (p - (from + 2)) = p
        BY <1>3, <2>2
      <4> QED BY <4>1
    <3> QED BY <1>2, <1>5, <3>1
  <2>3. CASE from + N + 3 < p
    <3>1. PICK q \in 1..M : from + N + 3 + q = p
      <4>1. p - (from + N + 3) \in 1..M /\ from + N + 3 + (p - (from + N + 3)) = p
        BY <1>3, <2>3
      <4> QED BY <4>1
    <3> QED BY <1>1, <1>2, <3>1
  <2> QED BY <1>3, <2>1, <2>2, <2>3
<1>7. from \in 0..Len(text) /\ to \in (from + 1)..(Len(text) + 1)
  BY <1>3
<1>8. PICK end : end = End(text, Newline, from)
  OBVIOUS
<1>9. end = to
  BY <1>2, <1>6, <1>7, <1>8, EndIs
<1>10. PICK line : line = Part(text, Newline, from)
  OBVIOUS
<1>11. /\ line \in Seq(Tokens) /\ Len(line) = end - from - 1
       /\ \A p \in 1..(end - from - 1) : line[p] = text[from + p]
  <2>1. from \in 0..Len(text)
    BY <1>7
  <2>2. Part(text, Newline, from) \in Seq(Tokens)
    BY <2>1, PartProperties
  <2>3. Len(Part(text, Newline, from)) = End(text, Newline, from) - from - 1
    BY <2>1, PartProperties
  <2>4. \A p \in 1..(End(text, Newline, from) - from - 1) :
          Part(text, Newline, from)[p] = text[from + p]
    BY <2>1, PartProperties
  <2> QED BY <1>8, <1>10, <2>2, <2>3, <2>4
<1>12. PICK K \in Nat : K = Len(line) /\ K = N + M + 3
  BY <1>3, <1>9, <1>11
<1>13. \A p \in 1..K : line[p] = text[from + p]
  BY <1>11, <1>12
<1>14. /\ line[1] = i /\ line[2] = Equals /\ line[N + 3] = Comma
  <2>1. line[1] = i /\ line[2] = Equals
    BY <1>2, <1>12, <1>13
  <2>2. N + 3 \in 1..K /\ from + (N + 3) = from + N + 3
    BY <1>2, <1>12
  <2> QED BY <1>2, <1>13, <2>1, <2>2
<1>15. ASSUME NEW p \in 1..N PROVE line[2 + p] = imageID[p]
  <2>1. 2 + p \in 1..K /\ from + (2 + p) = from + 2 + p
    BY <1>2, <1>12
  <2> QED BY <1>2, <1>13, <2>1
<1>16. PICK first : first = End(line, Equals, 0) /\ first = 2
  <2>1. 0 \in 0..Len(line) /\ 2 \in (0 + 1)..(Len(line) + 1) /\ 2 <= Len(line)
    BY <1>12, <1>2
  <2>2. \A p \in (0 + 1)..(2 - 1) : line[p] # Equals
    BY <1>14, SeparatorsDiffer, ImagesAreWords
  <2>3. End(line, Equals, 0) = 2
    BY <1>11, <1>14, <2>1, <2>2, EndIs
  <2> QED BY <2>3
<1>17. PICK after, D : after = End(line, Equals, first) /\ D = Part(line, Equals, first)
  OBVIOUS
<1>18. first \in 0..Len(line)
  BY <1>2, <1>12, <1>16
<1>19. /\ after \in (first + 1)..(Len(line) + 1)
       /\ after <= Len(line) => line[after] = Equals
  BY <1>11, <1>17, <1>18, EndProperties
<1>20. /\ D \in Seq(Tokens) /\ Len(D) = after - first - 1
       /\ \A p \in 1..(after - first - 1) : D[p] = line[first + p]
  BY <1>11, <1>17, <1>18, PartProperties
<1>21. N + 4 <= after
  <2>1. after \in Nat /\ 3 <= after
    BY <1>16, <1>19
  <2>2. SUFFICES ASSUME after < N + 4 PROVE FALSE
    BY <1>2, <2>1
  <2>3. line[after] = Equals
    BY <1>2, <1>12, <1>19, <2>1, <2>2
  <2>4. CASE after = N + 3
    BY <1>4, <1>14, <2>3, <2>4
  <2>5. CASE after < N + 3
    <3>1. after - 2 \in 1..N /\ 2 + (after - 2) = after
      BY <1>3, <2>1, <2>5
    <3>2. PICK q \in 1..N : 2 + q = after
      BY <3>1
    <3> QED BY <1>5, <1>15, <2>3, <3>2
  <2> QED BY <1>3, <2>1, <2>2, <2>4, <2>5
<1>22. PICK J \in Nat : J = Len(D) /\ N + 1 <= J
  BY <1>2, <1>16, <1>19, <1>20, <1>21
<1>23. \A p \in 1..J : D[p] = line[2 + p]
  BY <1>16, <1>20, <1>22
<1>24. D[N + 1] = Comma
  <2>1. N + 1 \in 1..J /\ 2 + (N + 1) = N + 3
    BY <1>2, <1>22
  <2> QED BY <1>14, <1>23, <2>1
<1>25. ASSUME NEW p \in 1..N PROVE D[p] = imageID[p]
  <2>1. p \in 1..J
    BY <1>2, <1>22
  <2> QED BY <1>15, <1>23, <2>1
<1>26. PICK comma : comma = N + 1
  OBVIOUS
<1>27. comma = End(D, Comma, 0)
  <2>1. 0 \in 0..Len(D) /\ comma \in (0 + 1)..(Len(D) + 1)
    BY <1>3, <1>22, <1>26
  <2>2. \A p \in (0 + 1)..(comma - 1) : D[p] # Comma
    BY <1>3, <1>5, <1>25, <1>26
  <2>3. D \in Seq(Tokens) /\ D[comma] = Comma
    BY <1>20, <1>24, <1>26
  <2> QED BY <2>1, <2>2, <2>3, EndIs
<1>28. PICK read : read = Part(D, Comma, 0)
  OBVIOUS
<1>29. /\ read \in Seq(Tokens) /\ Len(read) = comma - 0 - 1
       /\ \A p \in 1..(comma - 0 - 1) : read[p] = D[0 + p]
  <2>1. 0 \in 0..Len(D)
    BY <1>22
  <2> QED BY <1>20, <1>27, <1>28, <2>1, PartProperties
<1>30. Len(read) = N /\ \A p \in 1..N : read[p] = D[p]
  <2>1. comma - 0 - 1 = N
    BY <1>3, <1>26
  <2>2. Len(read) = N /\ \A p \in 1..N : read[p] = D[0 + p]
    BY <1>29, <2>1
  <2>3. \A p \in 1..N : 0 + p = p
    BY <1>3
  <2> QED BY <2>2, <2>3
<1>31. read = imageID
  <2>1. \A p \in 1..Len(read) : read[p] = imageID[p]
    BY <1>25, <1>30
  <2> QED BY <1>1, <1>29, <1>30, <2>1, SeqEqual
<1>32. Contains(line, Equals)
  <2>1. 2 \in 1..Len(line)
    BY <1>2, <1>12
  <2> QED BY <1>14, <2>1 DEF Contains
<1>33. imageDescription(line) = SplitDescription(D)
  BY <1>16, <1>17, <1>32 DEF imageDescription
<1>34. SplitDescription(D)[1] = read
  BY <1>28 DEF SplitDescription
<1> QED BY <1>10, <1>31, <1>33, <1>34

\* A line break inside the line of an image is one that its pull printed, and
\* something was printed after it.
LEMMA BreaksAreInOutputs ==
  ASSUME NEW text, NEW from, NEW to, NEW j \in Images,
         NEW imageID \in Outputs, NEW catalogName,
         IsLineAt(text, from, to, j, imageID, catalogName),
         \A p \in 1..Len(catalogName) : catalogName[p] # Newline,
         NEW cut \in (from + 1)..(to - 1), text[cut] = Newline
  PROVE  \E p \in 1..(Len(imageID) - 1) : cut = from + 2 + p /\ imageID[p] = Newline
<1>1. PICK N, M : N = Len(imageID) /\ M = Len(catalogName)
  OBVIOUS
<1>2. /\ from \in Nat /\ N \in Nat /\ M \in Nat
      /\ to = from + N + M + 4 /\ to <= Len(text)
      /\ text[from + 1] = j /\ text[from + 2] = Equals
      /\ \A p \in 1..N : text[from + 2 + p] = imageID[p]
      /\ text[from + N + 3] = Comma
      /\ \A p \in 1..M : text[from + N + 3 + p] = catalogName[p]
  BY <1>1 DEF IsLineAt
<1>3. /\ from \in Nat /\ N \in Nat /\ M \in Nat /\ to \in Nat /\ to = from + N + M + 4
  <2>1. from \in Nat /\ N \in Nat /\ M \in Nat
    BY <1>2
  <2>2. to = from + N + M + 4
    BY <1>2
  <2> QED BY <2>1, <2>2
<1>4. j # Newline /\ Equals # Newline /\ Comma # Newline
  BY SeparatorsDiffer, ImagesAreWords
<1>5. cut # from + 1 /\ cut # from + 2 /\ cut # from + N + 3
  BY <1>2, <1>4
<1>6. ~(from + N + 3 < cut)
  <2>1. SUFFICES ASSUME from + N + 3 < cut PROVE FALSE
    OBVIOUS
  <2>2. cut - (from + N + 3) \in 1..M /\ from + N + 3 + (cut - (from + N + 3)) = cut
    BY <1>3, <2>1
  <2>3. PICK q \in 1..M : from + N + 3 + q = cut
    BY <2>2
  <2> QED BY <1>1, <1>2, <2>3
<1>7. PICK p \in 1..N : from + 2 + p = cut
  <2>1. cut - (from + 2) \in 1..N /\ from + 2 + (cut - (from + 2)) = cut
    BY <1>3, <1>5, <1>6
  <2> QED BY <2>1
<1>8. imageID[p] = Newline
  BY <1>2, <1>7
<1>9. imageID \in Seq(Tokens)
  BY FileAssumption
<1>10. imageID # <<>>
  BY <1>1, <1>7, <1>9, EmptySeq
<1>11. Newline # Last(imageID)
  BY <1>10, FileAssumption
<1>12. Last(imageID) = imageID[N]
  BY <1>1 DEF Last
<1>13. p # N
  BY <1>8, <1>11, <1>12
<1>14. p \in 1..(N - 1)
  BY <1>3, <1>13
<1> QED BY <1>1, <1>7, <1>8, <1>14

\* What follows such a line break is not read as the line of an image.
LEMMA BreaksStartNoImage ==
  ASSUME NoOutputIsALine,
         NEW text \in Seq(Tokens), NEW from, NEW to, NEW i \in Images, NEW j,
         NEW imageID \in Outputs, NEW catalogName,
         IsLineAt(text, from, to, j, imageID, catalogName),
         NEW p \in 1..(Len(imageID) - 1), imageID[p] = Newline,
         NEW cut, cut = from + 2 + p,
         imageName(Part(text, Newline, cut)) = <<i>>
  PROVE  FALSE
<1>1. PICK N, M : N = Len(imageID) /\ M = Len(catalogName)
  OBVIOUS
<1>2. /\ from \in Nat /\ N \in Nat /\ M \in Nat
      /\ to = from + N + M + 4 /\ to <= Len(text)
      /\ \A q \in 1..N : text[from + 2 + q] = imageID[q]
      /\ text[from + N + 3] = Comma
  BY <1>1 DEF IsLineAt
<1>3. /\ from \in Nat /\ N \in Nat /\ M \in Nat /\ Len(text) \in Nat
      /\ cut \in Nat /\ cut + 2 <= Len(text) /\ p \in 1..(N - 1)
  <2>1. from \in Nat /\ N \in Nat /\ M \in Nat /\ to = from + N + M + 4 /\ to <= Len(text)
    BY <1>2
  <2>2. Len(text) \in Nat
    BY LenProperties
  <2>3. p \in 1..(N - 1)
    BY <1>1
  <2>4. cut = from + 2 + p
    OBVIOUS
  <2> QED BY <2>1, <2>2, <2>3, <2>4
<1>4. cut \in 0..Len(text)
  BY <1>3
<1>5. PICK line, end : line = Part(text, Newline, cut) /\ end = End(text, Newline, cut)
  OBVIOUS
<1>6. /\ end \in (cut + 1)..(Len(text) + 1)
      /\ end <= Len(text) => text[end] = Newline
  BY <1>4, <1>5, EndProperties
<1>7. /\ line \in Seq(Tokens) /\ Len(line) = end - cut - 1
      /\ \A q \in 1..(end - cut - 1) : line[q] = text[cut + q]
  BY <1>4, <1>5, PartProperties
<1>8. PICK K \in Nat : K = Len(line)
  BY <1>7, LenProperties
<1>9. 0 \in 0..Len(line)
  BY <1>8
<1>10. PICK name, e : name = Part(line, Equals, 0) /\ e = End(line, Equals, 0)
  OBVIOUS
<1>11. /\ e \in (0 + 1)..(Len(line) + 1)
       /\ e <= Len(line) => line[e] = Equals
  BY <1>7, <1>9, <1>10, EndProperties
<1>12. /\ Len(name) = e - 0 - 1
       /\ \A q \in 1..(e - 0 - 1) : name[q] = line[0 + q]
  BY <1>7, <1>9, <1>10, PartProperties
<1>13. Len(name) = 1 /\ name[1] = i
  BY <1>5, <1>10 DEF imageName
<1>14. e = 2
  <2>1. e \in Nat
    BY <1>8, <1>11
  <2>2. 1 = e - 0 - 1
    BY <1>12, <1>13
  <2> QED BY <2>1, <2>2
<1>15. 1 <= K
  BY <1>8, <1>11, <1>14
<1>16. name[1] = line[1]
  <2>1. 1 \in 1..(e - 0 - 1) /\ 0 + 1 = 1
    BY <1>14
  <2> QED BY <1>12, <2>1
<1>17. text[cut + 1] = i
  <2>1. 1 \in 1..(end - cut - 1)
    BY <1>3, <1>6, <1>7, <1>8, <1>15
  <2> QED BY <1>7, <1>13, <1>16, <2>1
<1>18. text[cut + 2] \in {Equals, Newline}
  <2>1. CASE 2 <= K
    <3>1. line[2] = Equals
      BY <1>8, <1>11, <1>14, <2>1
    <3>2. 2 \in 1..(end - cut - 1)
      BY <1>7, <2>1, <1>8
    <3> QED BY <1>7, <3>1, <3>2
  <2>2. CASE K = 1
    <3>1. end - cut - 1 = 1
      BY <1>7, <1>8, <2>2
    <3>2. end = cut + 2 /\ end <= Len(text)
      BY <1>3, <1>6, <3>1
    <3> QED BY <1>6, <3>2
  <2>3. 2 <= K \/ K = 1
    BY <1>15
  <2> QED BY <2>1, <2>2, <2>3
<1>19. imageID[p + 1] = i
  <2>1. p + 1 \in 1..N /\ from + 2 + (p + 1) = cut + 1
    BY <1>3
  <2> QED BY <1>2, <1>17, <2>1
<1>20. CASE p + 2 <= N
  <2>1. p \in 1..N /\ p + 2 \in 1..N /\ from + 2 + (p + 2) = cut + 2
    BY <1>3, <1>20
  <2>2. imageID[p + 2] \in {Equals, Newline}
    BY <1>2, <1>18, <2>1
  <2>3. DOMAIN imageID = 1..N
    BY <1>1, FileAssumption, LenProperties
  <2> QED BY <1>19, <2>1, <2>2, <2>3 DEF NoOutputIsALine
<1>21. CASE p + 1 = N
  <2>1. cut + 2 = from + N + 3
    BY <1>3, <1>21
  <2> QED BY <1>2, <1>18, <2>1, SeparatorsDiffer
<1> QED BY <1>3, <1>20, <1>21

\* No catalog's name has a line break in it.
LEMMA NamesHaveNoBreaks ==
  ASSUME NEW catalogName \in CatalogNames
  PROVE  \A p \in 1..Len(catalogName) : catalogName[p] # Newline
<1>1. catalogName \in Seq(Tokens \ {Newline})
  BY FileAssumption
<1>2. \A p \in 1..Len(catalogName) : catalogName[p] \in Tokens \ {Newline}
  BY <1>1, ElementOfSeq
<1> QED BY <1>2

\* After the last line there is nothing.
LEMMA LastPartIsEmpty ==
  ASSUME NEW text \in Seq(Tokens), NEW cut, cut = Len(text)
  PROVE  Part(text, Newline, cut) = <<>>
<1>1. PICK last \in Nat : last = Len(text)
  BY LenProperties
<1>2. last \in 0..Len(text)
  BY <1>1
<1>3. PICK end, part : end = End(text, Newline, last) /\ part = Part(text, Newline, last)
  OBVIOUS
<1>4. end \in (last + 1)..(Len(text) + 1)
  BY <1>2, <1>3, EndProperties
<1>5. part \in Seq(Tokens) /\ Len(part) = end - last - 1
  BY <1>2, <1>3, PartProperties
<1>6. end - last - 1 = 0
  BY <1>1, <1>4
<1>7. Len(part) = 0
  BY <1>5, <1>6
<1>8. part = <<>>
  BY <1>5, <1>7, EmptySeq
<1> QED BY <1>1, <1>3, <1>8

\* The only line that is read as the line of an image is the one that was
\* written for it.
LEMMA LineIsUnique ==
  ASSUME NoOutputIsALine,
         NEW S \in SUBSET Images, NEW pulled \in [S -> Described],
         NEW L \in Nat, NEW order, Orders(order, S), L = Len(order),
         NEW O, NEW text \in Seq(Tokens), AreLines(O, L, text, pulled, order),
         NEW n \in 1..L, NEW cut \in imageLines(text),
         imageName(Part(text, Newline, cut)) = <<order[n]>>
  PROVE  cut = O[n - 1]
<1>1. \A m \in 1..L : order[m] \in S /\ order[m] \in Images
  <2>1. order \in Seq(S)
    BY DEF Orders
  <2> QED BY <2>1, ElementOfSeq
<1>2. Len(text) \in Nat /\ O[0] = 0 /\ O[L] = Len(text)
  BY LenProperties DEF AreLines
<1>3. \A m \in 1..L : O[m - 1] \in Nat /\ O[m] \in Nat
  <2>1. O \in [0..L -> Nat]
    BY DEF AreLines
  <2> QED BY <2>1
<1>4. cut \in Cuts(text, Newline) /\ Part(text, Newline, cut) # <<>>
  BY DEF imageLines
<1>5. ASSUME NEW m \in 1..L, cut = O[m - 1]
      PROVE  cut = O[n - 1]
  <2>1. PICK to, j, imageID, catalogName :
          j = order[m] /\ IsLineAt(text, cut, to, j, imageID, catalogName)
    BY <1>5 DEF AreLines
  <2>2. j \in Images
    BY <1>1, <2>1
  <2>3. imageName(Part(text, Newline, cut)) = <<j>>
    BY <2>1, <2>2, NameIsRead
  <2>4. <<j>> = <<order[n]>>
    BY <2>3
  <2>5. j = order[n]
    BY <2>4
  <2>6. m = n
    BY <2>1, <2>5 DEF Orders
  <2> QED BY <1>5, <2>6
<1>6. CASE cut = 0
  <2>1. 1 \in 1..L /\ O[1 - 1] = 0
    BY <1>2
  <2> QED BY <1>5, <1>6, <2>1
<1>7. CASE cut # 0
  <2>1. cut \in 1..Len(text) /\ text[cut] = Newline
    <3>1. cut \in DOMAIN text /\ text[cut] = Newline
      BY <1>4, <1>7 DEF Cuts
    <3> QED BY <3>1, LenProperties
  <2>2. PICK m \in 1..L : O[m - 1] < cut /\ cut <= O[m]
    BY <1>2, <2>1, PositionInLine DEF AreLines
  <2>3. CASE cut = O[m] /\ m = L
    <3>1. cut = Len(text)
      BY <1>2, <2>3
    <3>2. Part(text, Newline, cut) = <<>>
      BY <1>2, <3>1, LastPartIsEmpty
    <3> QED BY <1>4, <3>2
  <2>4. CASE cut = O[m] /\ m # L
    <3>1. PICK k \in 1..L : k = m + 1 /\ k - 1 = m
      BY <2>4
    <3> QED BY <1>5, <2>4, <3>1
  <2>5. CASE cut # O[m]
    <3>1. PICK from, to, j, imageID, catalogName :
            /\ from = O[m - 1] /\ to = O[m] /\ j = order[m]
            /\ imageID = pulled[j].imageID /\ catalogName = pulled[j].catalogName
            /\ IsLineAt(text, from, to, j, imageID, catalogName)
      BY DEF AreLines
    <3>2. j \in S /\ j \in Images
      BY <1>1, <3>1
    <3>3. imageID \in Outputs /\ catalogName \in CatalogNames
      BY <3>1, <3>2 DEF Described
    <3>4. \A p \in 1..Len(catalogName) : catalogName[p] # Newline
      BY <3>3, NamesHaveNoBreaks
    <3>5. cut \in (from + 1)..(to - 1)
      <4>1. from \in Nat /\ to \in Nat /\ cut \in Nat
        BY <1>2, <1>3, <2>1, <3>1
      <4>2. from < cut /\ cut <= to /\ cut # to
        BY <2>2, <2>5, <3>1
      <4> QED BY <4>1, <4>2
    <3>6. PICK p \in 1..(Len(imageID) - 1) : cut = from + 2 + p /\ imageID[p] = Newline
      <4>1. IsLineAt(text, from, to, j, imageID, catalogName) /\ text[cut] = Newline
        BY <2>1, <3>1
      <4>2. j \in Images /\ imageID \in Outputs
        BY <3>2, <3>3
      <4> QED BY <3>4, <3>5, <4>1, <4>2, BreaksAreInOutputs
    <3>7. order[n] \in Images
      BY <1>1
    <3> QED BY <3>1, <3>3, <3>6, <3>7, BreaksStartNoImage
  <2> QED BY <2>3, <2>4, <2>5
<1> QED BY <1>6, <1>7

\* An image whose pull printed an image ID, or nothing, is read back with it, as
\* long as no other pull prints a line of the file.
THEOREM ImageIDsReadBack ==
  ASSUME NoOutputIsALine
  PROVE  FileSpec => []ImageIDsAreReadBack
<1>1. ListedInv => ImageIDsAreReadBack
  <2> SUFFICES ASSUME ListedInv, NEW i \in DOMAIN listed,
                      ToSet(listed[i].imageID) \subseteq ImageIDs
               PROVE  getCatalogImagesFromConfigMap(file)[<<i>>][1] = listed[i].imageID
    BY DEF ImageIDsAreReadBack
  <2>0. PICK S \in SUBSET Images, order \in keys(listed), L \in Nat : \E O :
          /\ listed \in [S -> Described] /\ Orders(order, S) /\ L = Len(order)
          /\ file \in Seq(Tokens) /\ AreLines(O, L, file, listed, order)
    BY FileIsLines
  <2>1. PICK O :
          /\ listed \in [S -> Described] /\ Orders(order, S) /\ L = Len(order)
          /\ file \in Seq(Tokens) /\ AreLines(O, L, file, listed, order)
    BY <2>0
  <2>2. i \in S /\ i \in Images
    BY <2>1
  <2>3. PICK n \in 1..L : order[n] = i
    BY <2>1, <2>2 DEF Orders
  <2>4. PICK cut, to, imageID, catalogName :
          /\ cut = O[n - 1] /\ imageID = listed[i].imageID
          /\ catalogName = listed[i].catalogName
          /\ IsLineAt(file, cut, to, i, imageID, catalogName)
    BY <2>1, <2>3 DEF AreLines
  <2>5. Part(file, Newline, cut) # <<>> /\ imageName(Part(file, Newline, cut)) = <<i>>
    BY <2>1, <2>2, <2>4, NameIsRead
  <2>6. cut \in imageLines(file)
    <3>1. cut \in Cuts(file, Newline)
      BY <2>1, <2>4, LinesStartAtCuts
    <3> QED BY <2>5, <3>1 DEF imageLines
  <2> DEFINE linesOf == {c \in imageLines(file) : imageName(Part(file, Newline, c)) = <<i>>}
  <2>7. linesOf = {cut}
    <3>1. cut \in linesOf
      BY <2>5, <2>6
    <3>2. ASSUME NEW c \in linesOf PROVE c = cut
      <4>1. c \in imageLines(file) /\ imageName(Part(file, Newline, c)) = <<order[n]>>
        BY <2>3
      <4> QED BY <2>1, <2>4, <4>1, LineIsUnique
    <3> QED BY <3>1, <3>2
  <2>8. Max(linesOf) = cut
    <3>1. cut \in Nat
      BY <2>4 DEF IsLineAt
    <3> HIDE DEF linesOf
    <3> QED BY <2>7, <3>1 DEF Max
  <2>9. getCatalogImagesFromConfigMap(file)[<<i>>]
          = imageDescription(Part(file, Newline, Max(linesOf)))
    <3>1. <<i>> \in {imageName(Part(file, Newline, c)) : c \in imageLines(file)}
      BY <2>5, <2>6
    <3> QED BY <3>1 DEF getCatalogImagesFromConfigMap
  <2>10. imageID \in Outputs /\ catalogName \in CatalogNames
    BY <2>1, <2>2, <2>4 DEF Described
  <2>11. imageID \in Seq(Tokens)
    BY <2>10, FileAssumption
  <2>12. \A p \in 1..Len(imageID) : imageID[p] \in Words
    BY <2>4, <2>11, PlainIDs
  <2>13. \A p \in 1..Len(catalogName) : catalogName[p] # Newline
    BY <2>10, NamesHaveNoBreaks
  <2>14. imageDescription(Part(file, Newline, cut))[1] = imageID
    BY <2>1, <2>2, <2>4, <2>11, <2>12, <2>13, IDIsRead
  <2> HIDE DEF linesOf
  <2> QED BY <2>4, <2>8, <2>9, <2>14
<1> QED BY <1>1, ListedInvariant, PTL

------------------------------------------------------------------------------
\* The triggers of the driver's rounds.
TriggerInv == TypeOK /\ WatchIsKept

\* One step at a time.
LEMMA TriggerInvariant == Spec => []TriggerInv
<1>0. /\ 0 \in 0..1 /\ 1 \in 0..1
      /\ "select" \notin {"event", "add"}
  OBVIOUS
<1>1. Init => TriggerInv
  BY <1>0, Zenon DEF Init, TriggerInv, TypeOK, WatchIsKept
<1>2. TriggerInv /\ [Next]_triggerVars => TriggerInv'
  <2> SUFFICES ASSUME TriggerInv, [Next]_triggerVars
               PROVE  TriggerInv'
    OBVIOUS
  <2> USE <1>0 DEF TriggerInv, TypeOK, WatchIsKept
  <2>1. CASE StartMain
    BY <2>1, Zenon DEF StartMain
  <2>2. CASE WatchImagesFile
    BY <2>2, Zenon DEF WatchImagesFile, Add
  <2>3. CASE StartImageManager
    BY <2>3, Zenon DEF StartImageManager
  <2>4. CASE SelectTick
    BY <2>4, Zenon DEF SelectTick
  <2>5. CASE SelectEvent
    BY <2>5, Zenon DEF SelectEvent
  <2>6. CASE HandOver
    BY <2>6, Zenon DEF HandOver
  <2>7. CASE AddAgain
    BY <2>7, Zenon DEF AddAgain, Add
  <2>8. CASE ReadFile
    BY <2>8, Zenon DEF ReadFile
  <2>9. CASE EndRound
    BY <2>9, Zenon DEF EndRound
  <2>10. CASE Tick
    BY <2>10, Zenon DEF Tick
  <2>11. CASE ReplaceFile
    BY <2>11, Zenon DEF ReplaceFile
  <2>12. CASE Restart
    BY <2>12, Zenon DEF Restart
  <2>13. CASE UNCHANGED triggerVars
    BY <2>13, Zenon DEF triggerVars
  <2> QED BY <2>1, <2>2, <2>3, <2>4, <2>5, <2>6, <2>7, <2>8, <2>9, <2>10, <2>11, <2>12, <2>13
         DEF Next, Main, Goroutine, Rounds
<1> QED BY <1>1, <1>2, PTL DEF Spec

\* The ticker's channel holds one tick at most, and main, the goroutine and the
\* rounds are each in one of their places.
THEOREM TriggersTypeCorrect == Spec => []TypeOK
<1>1. TriggerInv => TypeOK
  BY DEF TriggerInv
<1> QED BY <1>1, TriggerInvariant, PTL

\* Unless the last watcher.Add has failed, the watch is on the file, its end is
\* about to be told, or it is about to be added, in every state: replacements,
\* ticks and rounds in any order do not lose it.
THEOREM WatchKept == Spec => []WatchIsKept
<1>1. TriggerInv => WatchIsKept
  BY DEF TriggerInv
<1> QED BY <1>1, TriggerInvariant, PTL

\* A trigger stays on its way until a round has read the changed file: no step
\* of the goroutine, of a round or of the adapter drops it.
THEOREM NoTriggerIsLost == Spec => TriggersAreNotLost
<1>1. [Next]_triggerVars =>
        [RoundIsComing /\ exists /\ ~current => RoundIsComing' \/ current']_triggerVars
  <2> SUFFICES ASSUME Next, RoundIsComing, exists, ~current
               PROVE  RoundIsComing' \/ current'
    OBVIOUS
  <2> USE DEF RoundIsComing
  <2>1. CASE Main
    BY <2>1 DEF Main, StartMain, WatchImagesFile, StartImageManager
  <2>2. CASE Goroutine
    BY <2>2 DEF Goroutine, SelectTick, SelectEvent, HandOver, AddAgain
  <2>3. CASE Rounds
    BY <2>3 DEF Rounds, ReadFile, EndRound
  <2>4. CASE Tick \/ ReplaceFile \/ Restart
    BY <2>4 DEF Tick, ReplaceFile, Restart
  <2> QED BY <2>1, <2>2, <2>3, <2>4 DEF Next
<1> QED BY <1>1, PTL DEF Spec, TriggersAreNotLost
==============================================================================
