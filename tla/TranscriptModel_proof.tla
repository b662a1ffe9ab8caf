----------------------- MODULE TranscriptModel_proof -----------------------
(***************************************************************************)
(* Proofs about the transcript, for any lanes, texts, time stamps and      *)
(* number of finals.                                                       *)
(***************************************************************************)
EXTENDS TranscriptModel, SequenceTheorems, FiniteSetTheorems, TLAPS

-----------------------------------------------------------------------------
(* The inductive invariant.                                                *)

\* upper_bound keeps the finals sorted, and a line behind those of its time,
\* only if they were sorted; a line is not earlier than the baseline only if
\* none before was.
TmInv == TmTypeOK /\ SortedByTime /\ KeepsEveryFinal /\ BaselineIsEarliest

-----------------------------------------------------------------------------
(* The two library calls of apply().                                       *)

Sorted(s) == \A i, j \in 1..Len(s) : i < j => s[i].ts <= s[j].ts

\* What an upper bound is: everything before it is not later than ts, and
\* the line it stands in front of is.
FitsAt(s, ts, i) ==
  /\ \A j \in 1..(i - 1) : s[j].ts <= ts
  /\ i <= Len(s) => ts < s[i].ts

LEMMA PrefixSize ==
  ASSUME NEW n \in Nat
  PROVE  IsFiniteSet(1..n) /\ Cardinality(1..n) = n
<1>1. 1 \in Int /\ n \in Int
  OBVIOUS
<1>2. IsFiniteSet(1..n) /\ Cardinality(1..n) = IF 1 > n THEN 0 ELSE n - 1 + 1
  BY <1>1, FS_Interval
<1> QED
  BY <1>2

LEMMA LineTime ==
  ASSUME NEW s \in Seq(Line)
  PROVE  /\ Len(s) \in Nat
         /\ \A i \in 1..Len(s) : s[i] \in Line /\ s[i].ts \in Nat
<1>1. \A i \in 1..Len(s) : s[i] \in Line
  OBVIOUS
<1>2. \A e \in Line : e.ts \in Nat
  BY DEF Line
<1> QED
  BY <1>1, <1>2

\* A sorted sequence has an upper bound for every time stamp: as many
\* lines as are not later than it make up a prefix.
LEMMA UpperBoundFits ==
  ASSUME NEW s \in Seq(Line), Sorted(s), NEW ts \in Nat
  PROVE  /\ UpperBound(s, ts) \in 1..(Len(s) + 1)
         /\ FitsAt(s, ts, UpperBound(s, ts))
<1> DEFINE Early == {i \in 1..Len(s) : s[i].ts <= ts}
           n == Cardinality(Early)
<1>0. Len(s) \in Nat /\ \A i \in 1..Len(s) : s[i].ts \in Nat
  BY LineTime
<1>1. /\ IsFiniteSet(1..Len(s)) /\ Cardinality(1..Len(s)) = Len(s)
      /\ IsFiniteSet(Early) /\ n \in Nat /\ n <= Len(s)
  <2>1. IsFiniteSet(1..Len(s)) /\ Cardinality(1..Len(s)) = Len(s)
    BY <1>0, PrefixSize
  <2>2. Early \subseteq 1..Len(s)
    OBVIOUS
  <2> HIDE DEF Early
  <2>3. IsFiniteSet(Early) /\ n <= Len(s)
    BY <2>1, <2>2, FS_Subset
  <2>4. n \in Nat
    BY <2>3, FS_CardinalityType
  <2> QED
    BY <2>1, <2>3, <2>4
<1>2. \A i \in Early : i <= n
  <2> SUFFICES ASSUME NEW i \in Early PROVE i <= n
    OBVIOUS
  <2>1. 1..i \subseteq Early
    BY <1>0 DEF Sorted
  <2>2. i \in Nat /\ IsFiniteSet(1..i) /\ Cardinality(1..i) = i
    BY PrefixSize
  <2> HIDE DEF Early
  <2> QED
    BY <1>1, <2>1, <2>2, FS_Subset
<1>3. \A i \in 1..n : i \in Early
  <2> SUFFICES ASSUME NEW i \in 1..n, i \notin Early PROVE FALSE
    OBVIOUS
  <2>1. Early \subseteq 1..(i - 1)
    BY <1>0, <1>1 DEF Sorted
  <2>2. IsFiniteSet(1..(i - 1)) /\ Cardinality(1..(i - 1)) = i - 1
    <3>1. i - 1 \in Nat
      BY <1>1
    <3> QED
      BY <3>1, PrefixSize
  <2>3. n <= i - 1
    <3> HIDE DEF Early
    <3>1. Cardinality(Early) <= Cardinality(1..(i - 1))
      BY <2>1, <2>2, FS_Subset
    <3> QED
      BY <2>2, <3>1
  <2> QED
    BY <1>1, <2>3
<1>4. n + 1 \in 1..(Len(s) + 1) /\ FitsAt(s, ts, n + 1)
  <2> HIDE DEF n
  <2> QED
    BY <1>0, <1>1, <1>2, <1>3 DEF FitsAt
<1>5. \E i \in 1..(Len(s) + 1) : FitsAt(s, ts, i)
  <2> HIDE DEF n
  <2> QED
    BY <1>4
<1> QED
  BY <1>5 DEF UpperBound, FitsAt

\* Insertion moves the lines from position k on by one.
LEMMA InsertAtView ==
  ASSUME NEW s \in Seq(Line), NEW k \in 1..(Len(s) + 1), NEW e \in Line
  PROVE  /\ InsertAt(s, k, e) \in Seq(Line)
         /\ Len(InsertAt(s, k, e)) = Len(s) + 1
         /\ \A i \in 1..(Len(s) + 1) :
              InsertAt(s, k, e)[i] = IF i < k THEN s[i] ELSE IF i = k THEN e ELSE s[i - 1]
<1> DEFINE a == SubSeq(s, 1, k - 1)
           b == SubSeq(s, k, Len(s))
<1>1. /\ a \in Seq(Line) /\ Len(a) = k - 1
      /\ \A i \in 1..(k - 1) : a[i] = s[i]
  BY SubSeqProperties
<1>2. /\ b \in Seq(Line) /\ Len(b) = Len(s) - k + 1
      /\ \A i \in 1..(Len(s) - k + 1) : b[i] = s[k + i - 1]
  BY SubSeqProperties
<1> HIDE DEF a, b
<1>3. /\ a \o <<e>> \in Seq(Line) /\ Len(a \o <<e>>) = k
      /\ \A i \in 1..k : (a \o <<e>>)[i] = IF i < k THEN s[i] ELSE e
  BY <1>1, ConcatProperties
<1>4. /\ (a \o <<e>>) \o b \in Seq(Line)
      /\ Len((a \o <<e>>) \o b) = Len(s) + 1
      /\ \A i \in 1..(Len(s) + 1) : ((a \o <<e>>) \o b)[i]
           = IF i < k THEN s[i] ELSE IF i = k THEN e ELSE s[i - 1]
  <2> DEFINE c == a \o <<e>>
  <2> HIDE DEF c
  <2>1. /\ c \in Seq(Line) /\ Len(c) = k
        /\ \A i \in 1..k : c[i] = IF i < k THEN s[i] ELSE e
    BY <1>3 DEF c
  <2>2. /\ c \o b \in Seq(Line)
        /\ Len(c \o b) = Len(s) + 1
        /\ \A i \in 1..(Len(s) + 1) : (c \o b)[i] = IF i <= k THEN c[i] ELSE b[i - k]
    BY <1>2, <2>1, ConcatProperties
  <2>3. \A i \in 1..(Len(s) + 1) : k < i => b[i - k] = s[i - 1]
    BY <1>2
  <2>4. \A i \in 1..(Len(s) + 1) : (c \o b)[i]
           = IF i < k THEN s[i] ELSE IF i = k THEN e ELSE s[i - 1]
    BY <2>1, <2>2, <2>3
  <2> QED
    BY <2>2, <2>4 DEF c
<1> QED
  BY <1>4 DEF InsertAt, a, b

\* Inserting at the upper bound keeps a sequence sorted.
LEMMA InsertKeepsSorted ==
  ASSUME NEW s \in Seq(Line), Sorted(s), NEW e \in Line
  PROVE  LET t == InsertAt(s, UpperBound(s, e.ts), e)
         IN  /\ t \in Seq(Line)
             /\ Sorted(t)
             /\ \A n \in Int : (n <= e.ts /\ \A i \in 1..Len(s) : n <= s[i].ts)
                   => \A i \in 1..Len(t) : n <= t[i].ts
<1> DEFINE k == UpperBound(s, e.ts)
           t == InsertAt(s, k, e)
<1>0. e.ts \in Nat /\ Len(s) \in Nat /\ \A i \in 1..Len(s) : s[i].ts \in Nat
  <2>1. e.ts \in Nat
    BY DEF Line
  <2> QED
    BY <2>1, LineTime
<1>1. k \in 1..(Len(s) + 1) /\ FitsAt(s, e.ts, k)
  BY <1>0, UpperBoundFits
<1> HIDE DEF k
<1>2. /\ t \in Seq(Line) /\ Len(t) = Len(s) + 1
      /\ \A i \in 1..(Len(s) + 1) :
           t[i] = IF i < k THEN s[i] ELSE IF i = k THEN e ELSE s[i - 1]
  BY <1>1, InsertAtView
<1> HIDE DEF t
<1>3. \A i \in 1..Len(s) : k <= i => e.ts <= s[i].ts
  BY <1>0, <1>1 DEF FitsAt, Sorted
<1>4. \A i \in 1..Len(s) : i < k => s[i].ts <= e.ts
  BY <1>0, <1>1 DEF FitsAt
<1>5. Sorted(t)
  <2> SUFFICES ASSUME NEW i \in 1..Len(t), NEW j \in 1..Len(t), i < j
               PROVE  t[i].ts <= t[j].ts
    BY DEF Sorted
  <2>1. CASE j < k
    BY <1>1, <1>2, <2>1 DEF Sorted
  <2>2. CASE j = k
    BY <1>1, <1>2, <1>4, <2>2
  <2>3. CASE k < j /\ i < k
    <3>1. t[i] = s[i] /\ t[j] = s[j - 1]
      BY <1>1, <1>2, <2>3
    <3>2. i \in 1..Len(s) /\ j - 1 \in 1..Len(s) /\ i <= j - 1
      BY <1>1, <1>2, <2>3
    <3>3. s[i].ts <= s[j - 1].ts
      <4>1. CASE i = j - 1
        BY <1>0, <3>2, <4>1
      <4>2. CASE i < j - 1
        BY <3>2, <4>2 DEF Sorted
      <4> QED
        BY <3>2, <4>1, <4>2
    <3> QED
      BY <3>1, <3>3
  <2>4. CASE k < j /\ i = k
    <3>1. t[i] = e /\ t[j] = s[j - 1] /\ j - 1 \in 1..Len(s) /\ k <= j - 1
      BY <1>1, <1>2, <2>4
    <3> QED
      BY <1>3, <3>1
  <2>5. CASE k < j /\ k < i
    <3>1. t[i] = s[i - 1] /\ t[j] = s[j - 1]
      BY <1>1, <1>2, <2>5
    <3>2. i - 1 \in 1..Len(s) /\ j - 1 \in 1..Len(s) /\ i - 1 < j - 1
      BY <1>1, <1>2, <2>5
    <3> QED
      BY <3>1, <3>2 DEF Sorted
  <2> QED
    BY <1>1, <1>2, <2>1, <2>2, <2>3, <2>4, <2>5
<1>6. ASSUME NEW n \in Int, n <= e.ts, \A i \in 1..Len(s) : n <= s[i].ts,
             NEW i \in 1..Len(t)
      PROVE  n <= t[i].ts
  BY <1>1, <1>2, <1>6
<1> QED
  BY <1>2, <1>5, <1>6 DEF t, k

\* Where the line at p stands after an insertion at k.
Moved(p, k) == IF p < k THEN p ELSE p + 1

LEMMA MovedView ==
  ASSUME NEW n \in Nat, NEW k \in 1..(n + 1), NEW p \in 1..n
  PROVE  /\ Moved(p, k) \in 1..(n + 1) /\ Moved(p, k) # k
         /\ p < k <=> Moved(p, k) < k
         /\ Moved(p, k) < k => Moved(p, k) = p
         /\ ~(Moved(p, k) < k) => Moved(p, k) - 1 = p
BY DEF Moved

LEMMA MovedApart ==
  ASSUME NEW k \in Int, NEW p \in Int, NEW q \in Int
  PROVE  /\ p # q => Moved(p, k) # Moved(q, k)
         /\ p < q => Moved(p, k) < Moved(q, k)
BY DEF Moved

LEMMA HoldsBy ==
  ASSUME NEW s, NEW a, NEW m, Len(s) = m, Len(a) = m, NEW place \in [1..m -> 1..m],
         \A i \in 1..m : s[place[i]] = a[i],
         \A i, j \in 1..m : i < j => place[i] # place[j],
         \A i, j \in 1..m : i < j /\ a[i].ts = a[j].ts => place[i] < place[j]
  PROVE  Holds(s, a)
<1>1. place \in [1..Len(a) -> 1..Len(s)]
  OBVIOUS
<1>2. /\ \A i \in 1..Len(a) : s[place[i]] = a[i]
      /\ \A i, j \in 1..Len(a) : i < j => place[i] # place[j]
      /\ \A i, j \in 1..Len(a) : i < j /\ a[i].ts = a[j].ts => place[i] < place[j]
  OBVIOUS
<1> QED
  BY <1>1, <1>2 DEF Holds

\* Inserting at the upper bound of a sorted sequence keeps every line, and
\* puts the new one behind those of its time stamp.
LEMMA InsertHolds ==
  ASSUME NEW s \in Seq(Line), Sorted(s), NEW a \in Seq(Line), Holds(s, a), NEW e \in Line
  PROVE  Holds(InsertAt(s, UpperBound(s, e.ts), e), Append(a, e))
<1> DEFINE k == UpperBound(s, e.ts)
           t == InsertAt(s, k, e)
           b == Append(a, e)
           n == Len(a)
<1>0. /\ e.ts \in Nat /\ n \in Nat /\ Len(s) = n
      /\ \A i \in 1..n : s[i].ts \in Nat
  <2>1. e.ts \in Nat
    BY DEF Line
  <2>2. Len(s) = n
    BY DEF Holds
  <2> QED
    BY <2>1, <2>2, LineTime
<1>1. k \in 1..(n + 1) /\ FitsAt(s, e.ts, k)
  BY <1>0, UpperBoundFits
<1>2. PICK place \in [1..n -> 1..n] :
        /\ \A i \in 1..n : s[place[i]] = a[i]
        /\ \A i, j \in 1..n : i < j => place[i] # place[j]
        /\ \A i, j \in 1..n : i < j /\ a[i].ts = a[j].ts => place[i] < place[j]
  BY <1>0 DEF Holds
<1>3. /\ t \in Seq(Line) /\ Len(t) = n + 1
      /\ \A i \in 1..(n + 1) :
           t[i] = IF i < k THEN s[i] ELSE IF i = k THEN e ELSE s[i - 1]
  <2>1. k \in 1..(Len(s) + 1)
    BY <1>0, <1>1
  <2> HIDE DEF k
  <2> QED
    BY <1>0, <2>1, InsertAtView
<1>4. Len(b) = n + 1 /\ b[n + 1] = e /\ \A i \in 1..n : b[i] = a[i]
  OBVIOUS
<1> HIDE DEF k, n, t, b
<1>5. \A i \in 1..n : place[i] \in 1..n
  BY <1>2
<1>6. ASSUME NEW i \in 1..n
      PROVE  /\ Moved(place[i], k) \in 1..(n + 1) /\ Moved(place[i], k) # k
             /\ t[Moved(place[i], k)] = a[i]
  <2>1. /\ Moved(place[i], k) \in 1..(n + 1) /\ Moved(place[i], k) # k
        /\ Moved(place[i], k) < k => Moved(place[i], k) = place[i]
        /\ ~(Moved(place[i], k) < k) => Moved(place[i], k) - 1 = place[i]
    BY <1>0, <1>1, <1>5, MovedView
  <2> QED
    BY <1>2, <1>3, <2>1
<1> DEFINE place2 == [i \in 1..(n + 1) |-> IF i = n + 1 THEN k ELSE Moved(place[i], k)]
<1>7. /\ place2 \in [1..(n + 1) -> 1..(n + 1)]
      /\ place2[n + 1] = k
      /\ \A i \in 1..n : place2[i] = Moved(place[i], k)
  <2>1. n + 1 \in 1..(n + 1) /\ \A i \in 1..n : i \in 1..(n + 1) /\ i # n + 1
    BY <1>0
  <2>2. \A i \in 1..(n + 1) : i # n + 1 => i \in 1..n
    BY <1>0
  <2> QED
    BY <1>1, <1>6, <2>1, <2>2
<1>8. ASSUME NEW i \in 1..n, NEW j \in 1..n
      PROVE  /\ place[i] # place[j] => Moved(place[i], k) # Moved(place[j], k)
             /\ place[i] < place[j] => Moved(place[i], k) < Moved(place[j], k)
  <2>1. k \in Int /\ place[i] \in Int /\ place[j] \in Int
    BY <1>1, <1>5
  <2> QED
    BY <2>1, MovedApart
\* The lines of the new one's time stamp stand in front of it.
<1>9. ASSUME NEW i \in 1..n, a[i].ts = e.ts
      PROVE  Moved(place[i], k) < k
  <2>1. place[i] \in 1..n /\ s[place[i]].ts = e.ts
    BY <1>2, <1>9
  <2>2. ASSUME k <= place[i]
        PROVE  FALSE
    <3>1. k \in 1..n /\ e.ts < s[k].ts
      BY <1>0, <1>1, <2>1, <2>2 DEF FitsAt
    <3>2. s[k].ts \in Nat /\ s[k].ts <= s[place[i]].ts
      <4>1. CASE k = place[i]
        BY <1>0, <3>1, <4>1
      <4>2. CASE k < place[i]
        BY <1>0, <2>1, <3>1, <4>2 DEF Sorted
      <4> QED
        BY <1>0, <2>1, <2>2, <3>1, <4>1, <4>2
    <3> QED
      BY SMTT(30), <1>0, <2>1, <3>1, <3>2
  <2>3. k \in Int /\ place[i] \in Int
    BY <1>1, <2>1
  <2>4. place[i] < k
    BY <2>2, <2>3
  <2> QED
    BY <1>0, <1>1, <2>1, <2>4, MovedView
<1> HIDE DEF place2
<1>10. \A i \in 1..(n + 1) : t[place2[i]] = b[i]
  <2> SUFFICES ASSUME NEW i \in 1..(n + 1) PROVE t[place2[i]] = b[i]
    OBVIOUS
  <2>1. CASE i = n + 1
    <3>1. t[k] = e
      BY <1>1, <1>3
    <3> QED
      BY <1>4, <1>7, <2>1, <3>1
  <2>2. CASE i # n + 1
    <3>1. i \in 1..n
      BY <1>0, <2>2
    <3> QED
      BY <1>4, <1>6, <1>7, <3>1
  <2> QED
    BY <2>1, <2>2
<1>11. ASSUME NEW i \in 1..(n + 1), NEW j \in 1..(n + 1), i < j
       PROVE  /\ place2[i] # place2[j]
              /\ b[i].ts = b[j].ts => place2[i] < place2[j]
  <2>1. i \in 1..n
    BY <1>0, <1>11
  <2>2. CASE j = n + 1
    BY <1>4, <1>6, <1>7, <1>9, <2>1, <2>2
  <2>3. CASE j # n + 1
    <3>1. j \in 1..n
      BY <1>0, <2>3
    <3>2. /\ place[i] # place[j]
          /\ a[i].ts = a[j].ts => place[i] < place[j]
      BY <1>2, <1>11, <2>1, <3>1
    <3>3. b[i] = a[i] /\ b[j] = a[j] /\ place2[i] = Moved(place[i], k)
          /\ place2[j] = Moved(place[j], k)
      BY <1>4, <1>7, <2>1, <3>1
    <3> QED
      BY <1>8, <2>1, <3>1, <3>2, <3>3
  <2> QED
    BY <2>2, <2>3
<1>12. Holds(t, b)
  <2> DEFINE m == n + 1
  <2>1. place2 \in [1..m -> 1..m] /\ Len(t) = m /\ Len(b) = m
    BY <1>3, <1>4, <1>7
  <2>2. /\ \A i \in 1..m : t[place2[i]] = b[i]
        /\ \A i, j \in 1..m : i < j => place2[i] # place2[j]
        /\ \A i, j \in 1..m : i < j /\ b[i].ts = b[j].ts => place2[i] < place2[j]
    BY <1>10, <1>11
  <2> HIDE DEF m
  <2> QED
    BY SMTT(30), <2>1, <2>2, HoldsBy
<1> QED
  BY <1>12 DEF t, b, k

-----------------------------------------------------------------------------
(* The invariant.                                                          *)

\* An empty transcript holds all that arrived.
LEMMA HoldsNothing == Holds(<<>>, <<>>)
<1>1. \A i \in 1..Len(<<>>) : FALSE
  OBVIOUS
<1>2. [i \in 1..Len(<<>>) |-> i] \in [1..Len(<<>>) -> 1..Len(<<>>)]
  OBVIOUS
<1> QED
  BY <1>1, <1>2 DEF Holds

LEMMA TmInitial == TmInit => TmInv
BY HoldsNothing DEF TmInit, TmInv, TmTypeOK, SortedByTime, BaselineIsEarliest,
                    KeepsEveryFinal, NoLine, NoFrame

\* apply(): the baseline moves to the new event if that is earlier, so it
\* stays below the lines it already was below of.
LEMMA BaselineMoves ==
  ASSUME TmInv, NEW ts \in Nat, firstTs' = EarliestWith(ts)
  PROVE  /\ firstTs' \in Nat /\ firstTs' <= ts
         /\ \A t \in Nat : 0 <= firstTs /\ firstTs <= t => firstTs' <= t
BY DEF TmInv, TmTypeOK, EarliestWith

LEMMA InterimStep ==
  ASSUME TmInv, NEW l \in Lanes, NEW text \in Nat, NEW ts \in Nat,
         ApplyInterim(l, text, ts), UNCHANGED frame
  PROVE  TmInv'
<1>1. /\ firstTs' \in Nat /\ firstTs' <= ts
      /\ \A t \in Nat : 0 <= firstTs /\ firstTs <= t => firstTs' <= t
  BY BaselineMoves DEF ApplyInterim
<1>2. TmTypeOK'
  BY <1>1 DEF TmInv, TmTypeOK, ApplyInterim
<1>3. SortedByTime'
  BY DEF TmInv, SortedByTime, ApplyInterim
<1>4. finals \in Seq(Line) /\ \A i \in DOMAIN finals : finals[i].ts \in Nat
  BY LineTime DEF TmInv, TmTypeOK
<1>5. \A m \in Lanes : pending[m].ts \in Nat
  BY DEF TmInv, TmTypeOK
<1>6. \A m \in Lanes : pending'[m] # NoLine => firstTs' <= pending'[m].ts
  BY <1>1, <1>5 DEF TmInv, TmTypeOK, BaselineIsEarliest, ApplyInterim
<1>7. BaselineIsEarliest'
  <2>1. frame \notin {NoFrame, 0} => firstTs' <= frame
    BY <1>1 DEF TmInv, TmTypeOK, BaselineIsEarliest, NoFrame
  <2> QED
    BY <1>1, <1>4, <1>6, <2>1 DEF TmInv, BaselineIsEarliest, ApplyInterim, NoLine
<1>8. KeepsEveryFinal'
  BY DEF TmInv, KeepsEveryFinal, ApplyInterim
<1> QED
  BY <1>2, <1>3, <1>7, <1>8 DEF TmInv

LEMMA FinalStep ==
  ASSUME TmInv, NEW l \in Lanes, NEW text \in Nat, NEW ts \in Nat,
         ApplyFinal(l, text, ts), UNCHANGED frame
  PROVE  TmInv'
<1> DEFINE line == [lane |-> l, text |-> text, ts |-> ts]
<1>1. /\ firstTs' \in Nat /\ firstTs' <= ts
      /\ \A t \in Nat : 0 <= firstTs /\ firstTs <= t => firstTs' <= t
  BY BaselineMoves DEF ApplyFinal
<1>2. /\ finals \in Seq(Line) /\ Sorted(finals)
      /\ \A i \in 1..Len(finals) : finals[i].ts \in Nat
  <2>1. finals \in Seq(Line) /\ DOMAIN finals = 1..Len(finals)
    BY DEF TmInv, TmTypeOK
  <2>2. Sorted(finals)
    BY <2>1 DEF TmInv, SortedByTime, Sorted
  <2> QED
    BY <2>1, <2>2, LineTime
<1>3. pending' \in [Lanes -> [text : Nat, ts : Nat]]
  BY DEF TmInv, TmTypeOK, ApplyFinal, NoLine
<1>4. \A m \in Lanes : pending'[m] # NoLine => firstTs' <= pending'[m].ts
  <2>1. \A m \in Lanes : pending[m].ts \in Nat
    BY DEF TmInv, TmTypeOK
  <2> QED
    BY <1>1, <2>1 DEF TmInv, TmTypeOK, BaselineIsEarliest, ApplyFinal
<1>5. /\ finals' \in Seq(Line) /\ arrived' \in Seq(Line)
      /\ Sorted(finals') /\ Holds(finals', arrived')
      /\ \A i \in 1..Len(finals') : firstTs' <= finals'[i].ts
  <2>0. arrived \in Seq(Line) /\ Holds(finals, arrived)
    BY DEF TmInv, TmTypeOK, KeepsEveryFinal
  <2>1. CASE text = 0
    BY <1>1, <1>2, <2>0, <2>1 DEF TmInv, TmTypeOK, ApplyFinal, BaselineIsEarliest
  <2>2. CASE text # 0
    <3>1. line \in Line /\ line.ts = ts
      BY <2>2 DEF Line
    <3>2. /\ finals' = InsertAt(finals, UpperBound(finals, line.ts), line)
          /\ arrived' = Append(arrived, line)
      BY <2>2, <3>1 DEF ApplyFinal
    <3>3. \A i \in 1..Len(finals) : firstTs' <= finals[i].ts
      BY <1>1, <1>2 DEF TmInv, BaselineIsEarliest
    <3>4. arrived' \in Seq(Line)
      BY <3>1, <3>2 DEF TmInv, TmTypeOK
    <3> HIDE DEF line
    <3>5. finals' \in Seq(Line) /\ Sorted(finals') /\ Holds(finals', arrived')
      BY <1>2, <2>0, <3>1, <3>2, InsertKeepsSorted, InsertHolds
    <3>6. \A i \in 1..Len(finals') : firstTs' <= finals'[i].ts
      <4>1. firstTs' \in Int /\ firstTs' <= line.ts
        BY <1>1, <3>1
      <4> QED
        BY <1>2, <3>1, <3>2, <3>3, <4>1, InsertKeepsSorted
    <3> QED
      BY <3>4, <3>5, <3>6
  <2> QED
    BY <2>1, <2>2
<1>6. TmTypeOK'
  BY <1>1, <1>3, <1>5 DEF TmInv, TmTypeOK
<1>7. SortedByTime'
  BY <1>5 DEF SortedByTime, Sorted
<1>8. BaselineIsEarliest'
  <2>1. frame \notin {NoFrame, 0} => firstTs' <= frame
    BY <1>1 DEF TmInv, TmTypeOK, BaselineIsEarliest, NoFrame
  <2> QED
    BY <1>1, <1>4, <1>5, <2>1 DEF BaselineIsEarliest, NoLine
<1>9. KeepsEveryFinal'
  BY <1>5 DEF KeepsEveryFinal
<1> QED
  BY <1>6, <1>7, <1>8, <1>9 DEF TmInv

\* The calls of the window's thread.
LEMMA WindowStep ==
  ASSUME TmInv, Clear \/ ReadBase \/ Draw \/ UNCHANGED tmVars
  PROVE  TmInv'
<1>1. CASE Clear
  BY <1>1, HoldsNothing DEF Clear, TmInv, TmTypeOK, SortedByTime, BaselineIsEarliest,
              KeepsEveryFinal, NoLine
<1>2. CASE ReadBase
  BY <1>2 DEF ReadBase, modelVars, TmInv, TmTypeOK, SortedByTime, BaselineIsEarliest,
              KeepsEveryFinal, NoLine, NoFrame
<1>3. CASE Draw
  BY <1>3 DEF Draw, modelVars, TmInv, TmTypeOK, SortedByTime, BaselineIsEarliest,
              KeepsEveryFinal, NoLine, NoFrame
<1>4. CASE UNCHANGED tmVars
  BY <1>4 DEF tmVars, modelVars, TmInv, TmTypeOK, SortedByTime, BaselineIsEarliest,
              KeepsEveryFinal, NoLine
<1> QED
  BY <1>1, <1>2, <1>3, <1>4

\* The invariant of the transcript.
THEOREM TranscriptInvariant == TmSpec => []TmInv
<1>1. TmInv /\ [TmNext]_tmVars => TmInv'
  <2> SUFFICES ASSUME TmInv, [TmNext]_tmVars PROVE TmInv'
    OBVIOUS
  <2>1. ASSUME NEW l \in Lanes, NEW text \in Texts, NEW ts \in Times, Report(l, text, ts)
        PROVE  TmInv'
    <3>1. text \in Nat /\ ts \in Nat
      BY EventAssumption
    <3> QED
      BY <2>1, <3>1, InterimStep, FinalStep DEF Report
  <2>2. CASE Clear \/ ReadBase \/ Draw \/ UNCHANGED tmVars
    BY <2>2, WindowStep
  <2> QED
    BY <2>1, <2>2 DEF TmNext
<1> QED
  BY <1>1, TmInitial, PTL DEF TmSpec

\* Every call keeps the types of the transcript's members.
THEOREM TranscriptTypes == TmSpec => []TmTypeOK
<1>1. TmInv => TmTypeOK
  BY DEF TmInv
<1> QED
  BY <1>1, TranscriptInvariant, PTL

\* The finals are sorted by capture time, whatever order they come in.
THEOREM FinalsSorted == TmSpec => []SortedByTime
<1>1. TmInv => SortedByTime
  BY DEF TmInv
<1> QED
  BY <1>1, TranscriptInvariant, PTL

\* No final is lost, repeated or edited, and those of one time stamp stay in
\* the order they came in.
THEOREM EveryFinalKept == TmSpec => []KeepsEveryFinal
<1>1. TmInv => KeepsEveryFinal
  BY DEF TmInv
<1> QED
  BY <1>1, TranscriptInvariant, PTL

\* No line is earlier than the clock of its session, and no frame is drawn
\* against the clock of a session that was cleared.
THEOREM BaselineBelow == TmSpec => []BaselineIsEarliest
<1>1. TmInv => BaselineIsEarliest
  BY DEF TmInv
<1> QED
  BY <1>1, TranscriptInvariant, PTL

\* Where n lines are put in n different places, no place is left over.
LEMMA EveryPlaceTaken ==
  ASSUME NEW n \in Nat, NEW place \in [1..n -> 1..n],
         \A i, j \in 1..n : i < j => place[i] # place[j],
         NEW p \in 1..n
  PROVE  \E i \in 1..n : place[i] = p
<1> SUFFICES ASSUME \A i \in 1..n : place[i] # p PROVE FALSE
  OBVIOUS
<1> DEFINE Rest == (1..n) \ {p}
<1>1. IsFiniteSet(1..n) /\ Cardinality(1..n) = n
  BY PrefixSize
<1>2. IsFiniteSet(Rest) /\ Cardinality(Rest) = n - 1
  BY <1>1, FS_RemoveElement
<1>3. place \in [1..n -> Rest]
  OBVIOUS
<1> HIDE DEF Rest
<1>4. Cardinality(Rest) < Cardinality(1..n)
  BY <1>1, <1>2
<1>5. \E i, j \in 1..n : i # j /\ place[i] = place[j]
  BY <1>1, <1>2, <1>3, <1>4, FS_PigeonHole
<1> QED
  BY <1>5

\* In a sorted sequence, a later line stands further back, and of two
\* neighbours the second is not earlier.
LEMMA LaterIsBehind ==
  ASSUME NEW s \in Seq(Line), Sorted(s), NEW p \in 1..Len(s), NEW q \in 1..Len(s)
  PROVE  /\ s[p].ts < s[q].ts => p < q
         /\ p < q => p + 1 \in 1..Len(s) /\ s[p].ts <= s[p + 1].ts /\ s[p + 1].ts <= s[q].ts
<1>1. Len(s) \in Nat /\ \A i \in 1..Len(s) : s[i].ts \in Nat
  BY LineTime
<1>2. s[p].ts < s[q].ts => p < q
  <2> SUFFICES ASSUME s[p].ts < s[q].ts, q < p PROVE FALSE
    BY <1>1
  <2> QED
    BY <1>1 DEF Sorted
<1>3. ASSUME p < q
      PROVE  p + 1 \in 1..Len(s) /\ s[p].ts <= s[p + 1].ts /\ s[p + 1].ts <= s[q].ts
  <2>1. p + 1 \in 1..Len(s) /\ p < p + 1
    BY <1>1, <1>3
  <2>2. CASE q = p + 1
    BY <1>1, <2>1, <2>2 DEF Sorted
  <2>3. CASE p + 1 < q
    BY <1>1, <2>1, <2>3 DEF Sorted
  <2> QED
    BY <1>3, <2>1, <2>2, <2>3
<1> QED
  BY <1>2, <1>3

\* The cues of a sorted transcript above its baseline, in which every final
\* stands where its time and its turn put it.
LEMMA CuesOfInvariant == TmInv => CuesRunOn
<1> SUFFICES ASSUME TmInv PROVE CuesRunOn
  OBVIOUS
<1> DEFINE n == Len(arrived)
<1>1. finals \in Seq(Line) /\ arrived \in Seq(Line) /\ Len(finals) = n
  BY DEF TmInv, TmTypeOK, KeepsEveryFinal, Holds
<1>2. /\ n \in Nat /\ DOMAIN finals = 1..n
      /\ \A i \in 1..n : finals[i].ts \in Nat
  BY <1>1, LineTime
<1>3. Sorted(finals)
  BY <1>1, <1>2 DEF TmInv, SortedByTime, Sorted
<1>4. PICK place \in [1..n -> 1..n] :
        /\ \A i \in 1..n : finals[place[i]] = arrived[i]
        /\ \A i, j \in 1..n : i < j => place[i] # place[j]
        /\ \A i, j \in 1..n : i < j /\ arrived[i].ts = arrived[j].ts => place[i] < place[j]
  BY <1>1 DEF TmInv, KeepsEveryFinal, Holds
<1> HIDE DEF n
<1>5. \A r \in 1..n : \E j \in 1..n : place[j] = r
  <2>1. n \in Nat
    BY <1>2
  <2>2. \A i, j \in 1..n : i < j => place[i] # place[j]
    BY <1>4
  <2> QED
    BY <2>1, <2>2, EveryPlaceTaken
<1> USE DEF n
<1>6. firstTs \in Int /\ \A i \in 1..n : firstTs <= finals[i].ts
  <2>1. firstTs \in Int
    BY DEF TmInv, TmTypeOK
  <2>2. \A i \in 1..n : firstTs <= finals[i].ts
    BY <1>2 DEF TmInv, BaselineIsEarliest
  <2> QED
    BY <2>1, <2>2
<1>7. /\ Len(Cues) = n
      /\ \A i \in 1..n : Cues[i].start = finals[i].ts - firstTs /\ Cues[i].end = CueEnd(i)
  <2>1. Cues = [i \in 1..n |-> [start |-> finals[i].ts - firstTs, end |-> CueEnd(i)]]
    BY <1>2 DEF Cues
  <2> HIDE DEF n
  <2> QED
    BY <1>2, <2>1
<1>8. ASSUME NEW i \in 1..n PROVE RunsOn(i, Cues[place[i]])
  <2>1. PICK p \in 1..n : p = place[i]
    OBVIOUS
  <2>2. /\ finals[p] = arrived[i] /\ finals[p].ts \in Nat
        /\ Cues[p].start = arrived[i].ts - firstTs /\ 0 <= Cues[p].start
        /\ Cues[p].end = CueEnd(p)
    BY <1>2, <1>4, <1>6, <1>7, <2>1
\* Who is later stands further back; who shares the time does so as well if
\* it arrived later, and only then.
  <2>3. ASSUME NEW j \in 1..n
        PROVE  \E q \in 1..n :
                 /\ q = place[j] /\ finals[q] = arrived[j] /\ arrived[j].ts \in Nat
                 /\ arrived[i].ts < arrived[j].ts => p < q
                 /\ i < j /\ arrived[j].ts = arrived[i].ts => p < q
                 /\ p < q /\ arrived[j].ts = arrived[i].ts => i < j
    <3>1. PICK q \in 1..n : q = place[j]
      OBVIOUS
    <3>2. finals[q] = arrived[j] /\ arrived[j].ts \in Nat
      BY <1>2, <1>4, <3>1
    <3>3. arrived[i].ts < arrived[j].ts => p < q
      BY <1>1, <1>3, <2>2, <3>2, LaterIsBehind
    <3>4. i < j /\ arrived[j].ts = arrived[i].ts => p < q
      BY <1>4, <2>1, <3>1
    <3>5. p < q /\ arrived[j].ts = arrived[i].ts => i < j
      <4> SUFFICES ASSUME p < q, arrived[j].ts = arrived[i].ts, j <= i PROVE FALSE
        BY <1>2
      <4>1. CASE j = i
        BY <2>1, <3>1, <4>1
      <4>2. CASE j < i
        <5>1. q < p
          BY <1>4, <2>1, <3>1, <4>2
        <5> QED
          BY <1>2, <5>1
      <4> QED
        BY <1>2, <4>1, <4>2
    <3> QED
      BY <3>1, <3>2, <3>3, <3>4, <3>5
  <2>4. CASE p < n /\ finals[p].ts < finals[p + 1].ts
    <3>1. PICK r \in 1..n : r = p + 1 /\ finals[p].ts < finals[r].ts
      BY <1>2, <2>4
    <3>2. PICK j \in 1..n : place[j] = r
      BY <1>5
    <3>3. finals[r] = arrived[j] /\ j \in Later(i)
      BY <1>4, <2>2, <3>1, <3>2 DEF Later
    <3>4. ASSUME NEW k \in 1..n, arrived[i].ts < arrived[k].ts
          PROVE  arrived[j].ts <= arrived[k].ts
      <4>1. PICK q \in 1..n : finals[q] = arrived[k] /\ p < q
        BY <2>3, <3>4
      <4>2. finals[p + 1].ts <= finals[q].ts
        BY <1>1, <1>3, <4>1, LaterIsBehind
      <4> QED
        BY <3>1, <3>3, <4>1, <4>2
    <3>5. ASSUME NEW k \in 1..n, i < k, arrived[k].ts = arrived[i].ts
          PROVE  FALSE
      <4>1. PICK q \in 1..n : finals[q] = arrived[k] /\ p < q
        BY <2>3, <3>5
      <4>2. finals[p + 1].ts <= finals[q].ts
        BY <1>1, <1>3, <4>1, LaterIsBehind
      <4>3. finals[r].ts <= finals[p].ts /\ finals[r].ts \in Nat
        BY <1>2, <2>2, <3>1, <3>5, <4>1, <4>2
      <4> QED
        BY <2>2, <3>1, <4>3
    <3>6. Cues[p].end = arrived[j].ts - firstTs
      BY <1>1, <2>2, <2>4, <3>1, <3>3 DEF CueEnd
    <3>7. \A k \in Later(i) : arrived[j].ts <= arrived[k].ts
      BY <3>4 DEF Later
    <3>8. ~Overtaken(i)
      BY <3>5 DEF Overtaken
    <3> QED
      BY <2>1, <2>2, <3>3, <3>6, <3>7, <3>8 DEF RunsOn
  <2>5. CASE ~(p < n /\ finals[p].ts < finals[p + 1].ts)
    <3>1. Cues[p].end = Cues[p].start + Fallback
      BY <1>1, <2>2, <2>5 DEF CueEnd
    <3>2. CASE p = n
      <4>1. ASSUME NEW k \in 1..n, arrived[i].ts < arrived[k].ts PROVE FALSE
        <5>1. PICK q \in 1..n : p < q
          BY <2>3, <4>1
        <5> QED
          BY <1>2, <3>2, <5>1
      <4>2. Later(i) = {}
        BY <4>1 DEF Later
      <4> QED
        BY <2>1, <2>2, <3>1, <4>2 DEF RunsOn
    <3>3. CASE p < n
      <4>1. PICK r \in 1..n : r = p + 1 /\ finals[r].ts = finals[p].ts
        <5>1. p + 1 \in 1..n /\ p < p + 1 /\ finals[p + 1].ts \in Nat
          BY <1>2, <3>3
        <5>2. finals[p].ts <= finals[p + 1].ts
          BY <1>1, <1>3, <5>1, LaterIsBehind
        <5> QED
          BY <2>2, <2>5, <3>3, <5>1, <5>2
      <4>2. PICK j \in 1..n : place[j] = r
        BY <1>5
      <4>3. arrived[j].ts = arrived[i].ts
        BY <1>4, <2>2, <4>1, <4>2
      <4>4. i < j
        BY <1>2, <2>3, <4>1, <4>2, <4>3
      <4>5. Overtaken(i)
        BY <4>3, <4>4 DEF Overtaken
      <4> QED
        BY <2>1, <2>2, <3>1, <4>5 DEF RunsOn
    <3> QED
      BY <1>2, <3>2, <3>3
  <2> QED
    BY <2>4, <2>5
<1> QED
  BY <1>4, <1>7, <1>8 DEF CuesRunOn

\* The exported cues are those of the finals as they arrived, in any order.
THEOREM CuesAreSound == TmSpec => []CuesRunOn
BY CuesOfInvariant, TranscriptInvariant, PTL
=============================================================================
