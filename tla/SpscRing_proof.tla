--------------------------- MODULE SpscRing_proof ---------------------------
(***************************************************************************)
(* Proofs about the ring, for every capacity, every number of close        *)
(* credits and every number of frames.                                     *)
(***************************************************************************)
EXTENDS SpscRing, TLAPS

-----------------------------------------------------------------------------
(* The inductive invariant behind the safety properties.                   *)

\* The indexes count the stores made to them.
IndexInv == head = IndexAfter(pushed) /\ tail = IndexAfter(popped)

\* Who knows how much of the other side's progress.
WindowInv ==
  /\ tailSeen <= popped /\ popped <= headSeen /\ headSeen <= pushed
  /\ pushed <= tailSeen + Capacity
  /\ ppc \in {"write", "publish"} => pushed < tailSeen + Capacity /\ ~closed
  /\ cpc \in {"move", "retire"} => popped < headSeen
  /\ out = IF cpc = "retire" THEN popped + 1 ELSE popped
  /\ ppc \in {"write", "publish", "release"} => ~refused /\ ~closed

\* Each credit is a frame that was released and not yet asked for, or one
\* of close()'s.
CreditInv ==
  /\ released + (IF ppc = "release" THEN 1 ELSE 0) = pushed
  /\ sem + popped + (IF cpc \in {"loadHead", "move", "retire", "checkClosed", "done"} THEN 1 ELSE 0)
       = released + (IF woken THEN CloseCredits ELSE 0)
  /\ woken => closed
  /\ wokenSeen => woken
  /\ cpc = "loadHead" => popped < headSeen \/ (wokenSeen /\ headSeen = pushed)
  /\ cpc \in {"checkClosed", "done"} => wokenSeen /\ popped = pushed

\* What the slots hold: the accepted frames, and the one being written.
BufferInv ==
  /\ \A k \in (out + 1)..pushed : buf[SlotOf(k)] = k
  /\ ppc = "publish" => buf[head] = pushed + 1

RingInv == TypeOK /\ IndexInv /\ WindowInv /\ CreditInv /\ BufferInv

-----------------------------------------------------------------------------
(* Arithmetic of the indexes.                                              *)

\* The index after n stores is a slot.
LEMMA IndexInSlots == ASSUME NEW n \in Nat PROVE IndexAfter(n) \in Slots
BY RingAssumption DEF IndexAfter, Slots, Size

\* Euclidean division by the number of slots.
LEMMA Division ==
  ASSUME NEW n \in Nat
  PROVE  n \div Size \in Nat /\ n = Size * (n \div Size) + (n % Size)
BY RingAssumption DEF Size

LEMMA Remainder ==
  ASSUME NEW q \in Nat, NEW r \in Slots
  PROVE  (Size * q + r) % Size = r
BY RingAssumption DEF Size, Slots

LEMMA OneLap == ASSUME NEW q \in Nat PROVE Size * (q + 1) = Size * q + Size
BY RingAssumption DEF Size

\* One more store moves the index one slot on, wrapping at the end.
LEMMA IndexStep ==
  ASSUME NEW n \in Nat
  PROVE  (IndexAfter(n) + 1) % Size = IndexAfter(n + 1)
<1> DEFINE q == n \div Size
           r == n % Size
<1>1. q \in Nat /\ n = Size * q + r
  BY Division
<1>2. r \in Slots
  BY IndexInSlots DEF IndexAfter
<1>3. Size \in Nat \ {0}
  BY RingAssumption DEF Size
<1> HIDE DEF q, r
<1>4. CASE r + 1 = Size
  <2>1. n + 1 = Size * (q + 1) + 0
    <3>1. Size * (q + 1) = Size * q + Size
      BY <1>1, OneLap
    <3>2. Size * q \in Nat
      BY <1>1, <1>3
    <3> QED
      BY <1>1, <1>2, <1>3, <1>4, <3>1, <3>2 DEF Slots
  <2>2. (n + 1) % Size = 0
    BY <2>1, <1>1, <1>3, Remainder DEF Slots
  <2>3. (r + 1) % Size = 0
    BY <1>3, <1>4
  <2> QED
    BY <2>2, <2>3 DEF IndexAfter, r
<1>5. CASE r + 1 # Size
  <2>1. r + 1 \in Slots
    BY <1>2, <1>3, <1>5 DEF Slots
  <2>2. n + 1 = Size * q + (r + 1)
    BY <1>1, <1>2, <1>3 DEF Slots
  <2>3. (n + 1) % Size = r + 1
    BY <2>1, <2>2, <1>1, Remainder
  <2>4. (r + 1) % Size = r + 1
    BY <2>1, <1>3 DEF Slots
  <2> QED
    BY <2>3, <2>4 DEF IndexAfter, r
<1> QED
  BY <1>4, <1>5

LEMMA MultipleOfSize ==
  ASSUME NEW d \in Int, d # 0
  PROVE  Size * d >= Size \/ Size * d <= -Size
<1>1. CASE d >= 1
  BY <1>1, RingAssumption DEF Size
<1>2. CASE d <= -1
  BY <1>2, RingAssumption DEF Size
<1> QED
  BY <1>1, <1>2

LEMMA Distribute ==
  ASSUME NEW p \in Int, NEW q \in Int
  PROVE  Size * q - Size * p = Size * (q - p)
BY RingAssumption DEF Size

\* Two counts less than a lap apart have different indexes.
LEMMA IndexInjective ==
  ASSUME NEW m \in Nat, NEW n \in Nat, m < n, n - m < Size
  PROVE  IndexAfter(m) # IndexAfter(n)
<1> SUFFICES ASSUME n % Size = m % Size PROVE FALSE
  BY DEF IndexAfter
<1> DEFINE p == m \div Size
           q == n \div Size
<1>1. /\ p \in Nat /\ m = Size * p + (n % Size)
      /\ q \in Nat /\ n = Size * q + (n % Size)
  BY Division
<1>2. n % Size \in Int /\ Size \in Int
  BY IndexInSlots, RingAssumption DEF IndexAfter, Slots, Size
<1> HIDE DEF p, q
<1>3. Size * p \in Int /\ Size * q \in Int
  BY <1>1, <1>2
<1>4. n - m = Size * q - Size * p
  BY <1>1, <1>2, <1>3
<1>5. n - m = Size * (q - p)
  BY <1>1, <1>4, Distribute
<1>6. CASE q = p
  BY <1>5, <1>6, <1>2, <1>1
<1>7. CASE q # p
  BY <1>5, <1>7, <1>1, <1>2, MultipleOfSize
<1> QED
  BY <1>6, <1>7

\* Exactly a lap apart, they are the same.
LEMMA IndexLap ==
  ASSUME NEW m \in Nat PROVE IndexAfter(m + Size) = IndexAfter(m)
<1>1. m = Size * (m \div Size) + (m % Size) /\ m \div Size \in Nat /\ m % Size \in Slots
  BY Division, IndexInSlots DEF IndexAfter
<1>2. Size \in Nat
  BY RingAssumption DEF Size
<1>3. m + Size = Size * ((m \div Size) + 1) + (m % Size)
  BY <1>1, <1>2 DEF Slots
<1> QED
  BY <1>1, <1>3, Remainder DEF IndexAfter

\* tryPush's full test: with at most Capacity frames in the window, the
\* next index meets the tail just when the window is full.
LEMMA FullTest ==
  ASSUME NEW h \in Nat, NEW t \in Nat, t <= h, h <= t + Capacity
  PROVE  (IndexAfter(h) + 1) % Size = IndexAfter(t) <=> h = t + Capacity
<1>1. (IndexAfter(h) + 1) % Size = IndexAfter(h + 1)
  BY IndexStep
<1>2. CASE h = t + Capacity
  <2>1. h + 1 = t + Size
    BY <1>2, RingAssumption DEF Size
  <2> QED
    BY <1>1, <1>2, <2>1, IndexLap
<1>3. CASE h # t + Capacity
  <2>1. h + 1 - t < Size /\ t < h + 1
    BY <1>3, RingAssumption DEF Size
  <2> QED
    BY <1>1, <1>3, <2>1, IndexInjective
<1> QED
  BY <1>2, <1>3

\* tryPop's empty test.
LEMMA EmptyTest ==
  ASSUME NEW h \in Nat, NEW t \in Nat, t <= h, h <= t + Capacity
  PROVE  IndexAfter(t) = IndexAfter(h) <=> t = h
<1>1. CASE t = h
  BY <1>1
<1>2. CASE t # h
  <2>1. t < h /\ h - t < Size
    BY <1>2, RingAssumption DEF Size
  <2> QED
    BY <1>2, <2>1, IndexInjective
<1> QED
  BY <1>1, <1>2

-----------------------------------------------------------------------------
(* The inductive invariant.                                                *)

LEMMA TypeStep ==
  ASSUME TypeOK, [Next]_vars PROVE TypeOK'
<1> USE RingAssumption DEF TypeOK, Slots, Size, ProducerAt, ConsumerAt
<1>1. CASE PushLoadTail
  BY <1>1 DEF PushLoadTail, consumerVars
<1>2. CASE PushWrite
  BY <1>2 DEF PushWrite, consumerVars
<1>3. CASE PushPublish
  BY <1>3 DEF PushPublish, consumerVars
<1>4. CASE PushRelease
  BY <1>4 DEF PushRelease, consumerVars
<1>5. CASE PopAcquire
  BY <1>5 DEF PopAcquire, producerVars
<1>6. CASE PopLoadHead
  BY <1>6 DEF PopLoadHead, producerVars
<1>7. CASE PopMove
  BY <1>7 DEF PopMove, producerVars
<1>8. CASE PopRetire
  BY <1>8 DEF PopRetire, producerVars
<1>9. CASE PopAgain
  BY <1>9 DEF PopAgain, producerVars
<1>10. CASE PopCheckClosed
  BY <1>10 DEF PopCheckClosed, producerVars
<1>11. CASE CloseStore
  BY <1>11 DEF CloseStore, producerVars, consumerVars
<1>12. CASE CloseWake
  BY <1>12 DEF CloseWake, producerVars, consumerVars
<1>13. CASE UNCHANGED vars
  BY <1>13 DEF vars
<1> QED
  BY <1>1, <1>2, <1>3, <1>4, <1>5, <1>6, <1>7, <1>8, <1>9, <1>10, <1>11, <1>12, <1>13
     DEF Next, Producer, Consumer

LEMMA InitInv == Init => RingInv
<1> SUFFICES ASSUME Init PROVE RingInv
  OBVIOUS
<1> USE RingAssumption DEF Init
<1>1. TypeOK
  <2>1. buf \in [Slots -> Nat]
    OBVIOUS
  <2>2. 0 \in Slots
    BY DEF Slots, Size
  <2> QED
    BY <2>1, <2>2 DEF TypeOK, ProducerAt, ConsumerAt
<1>2. IndexInv
  BY DEF IndexInv, IndexAfter, Size
<1>3. WindowInv
  BY DEF WindowInv
<1>4. CreditInv
  BY DEF CreditInv
<1>5. BufferInv
  BY DEF BufferInv
<1> QED
  BY <1>1, <1>2, <1>3, <1>4, <1>5 DEF RingInv

\* What the two tests mean once the invariant holds: tryPush is refused
\* exactly when the window is full, tryPop fails exactly when the frames
\* seen are all popped.
LEMMA PushTest ==
  ASSUME RingInv, NEW t \in tailSeen..popped
  PROVE  /\ t \in Nat /\ t <= pushed /\ pushed <= t + Capacity
         /\ (head + 1) % Size = IndexAfter(t) <=> pushed = t + Capacity
<1>1. t \in Nat /\ t <= pushed /\ pushed <= t + Capacity /\ pushed \in Nat
  BY RingAssumption DEF RingInv, TypeOK, WindowInv
<1> QED
  BY <1>1, FullTest DEF RingInv, IndexInv

LEMMA PopTest ==
  ASSUME RingInv, NEW h \in headSeen..pushed
  PROVE  /\ h \in Nat /\ popped <= h
         /\ tail = IndexAfter(h) <=> h = popped
<1>1. h \in Nat /\ popped \in Nat /\ popped <= h /\ h <= popped + Capacity
  BY RingAssumption DEF RingInv, TypeOK, WindowInv
<1> QED
  BY <1>1, EmptyTest DEF RingInv, IndexInv

LEMMA IndexStepInv ==
  ASSUME RingInv, [Next]_vars PROVE IndexInv'
<1> USE DEF RingInv, IndexInv, TypeOK
<1>1. CASE PushPublish
  BY <1>1, IndexStep DEF PushPublish, consumerVars, IndexAfter, Size
<1>2. CASE PopRetire
  BY <1>2, IndexStep DEF PopRetire, producerVars, IndexAfter, Size
<1>3. ASSUME UNCHANGED <<head, tail, pushed, popped>> PROVE IndexInv'
  BY <1>3 DEF IndexAfter, Size
<1>4. ASSUME Next, ~PushPublish, ~PopRetire PROVE UNCHANGED <<head, tail, pushed, popped>>
  BY <1>4 DEF Next, Producer, Consumer, PushLoadTail, PushWrite, PushRelease, PopAcquire,
     PopLoadHead, PopMove, PopAgain, PopCheckClosed, CloseStore, CloseWake,
     producerVars, consumerVars
<1> QED
  BY <1>1, <1>2, <1>3, <1>4 DEF vars

LEMMA WindowStep ==
  ASSUME RingInv, [Next]_vars PROVE WindowInv'
<1> USE RingAssumption DEF RingInv, TypeOK, WindowInv, ProducerAt, ConsumerAt
<1>1. CASE PushLoadTail
  <2>1. PICK t \in tailSeen..popped :
          /\ tailSeen' = t
          /\ refused' = ((head + 1) % Size = IndexAfter(t))
          /\ ppc' = IF (head + 1) % Size = IndexAfter(t) THEN "idle" ELSE "write"
    BY <1>1 DEF PushLoadTail
  <2>2. /\ t \in Nat /\ t <= pushed /\ pushed <= t + Capacity
        /\ (head + 1) % Size = IndexAfter(t) <=> pushed = t + Capacity
    BY PushTest
  <2>3. UNCHANGED <<closed, pushed, consumerVars>> /\ ~closed
    BY <1>1 DEF PushLoadTail
  <2> QED
    BY <2>1, <2>2, <2>3 DEF consumerVars
<1>2. CASE PushWrite
  BY <1>2 DEF PushWrite, consumerVars
<1>3. CASE PushPublish
  BY <1>3 DEF PushPublish, consumerVars
<1>4. CASE PushRelease
  BY <1>4 DEF PushRelease, consumerVars
<1>5. CASE PopAcquire
  BY <1>5 DEF PopAcquire, producerVars, CreditInv
<1>6. CASE PopLoadHead
  <2>1. PICK h \in headSeen..pushed :
          /\ headSeen' = h
          /\ cpc' = IF tail = IndexAfter(h) THEN "checkClosed" ELSE "move"
    BY <1>6 DEF PopLoadHead
  <2>2. /\ h \in Nat /\ popped <= h
        /\ tail = IndexAfter(h) <=> h = popped
    BY PopTest
  <2> QED
    BY <1>6, <2>1, <2>2 DEF PopLoadHead, producerVars
<1>7. CASE PopMove
  <2>1. out' = popped + 1
    <3>1. cpc = "move" /\ popped + 1 \in (out + 1)..pushed /\ buf[SlotOf(popped + 1)] = popped + 1
      BY <1>7 DEF PopMove, BufferInv
    <3>2. tail = SlotOf(popped + 1)
      BY DEF IndexInv, IndexAfter, SlotOf
    <3> QED
      BY <1>7, <3>1, <3>2 DEF PopMove
  <2> QED
    BY <1>7, <2>1 DEF PopMove, producerVars
<1>8. CASE PopRetire
  BY <1>8 DEF PopRetire, producerVars
<1>9. CASE PopAgain
  BY <1>9 DEF PopAgain, producerVars
<1>10. CASE PopCheckClosed
  BY <1>10 DEF PopCheckClosed, producerVars
<1>11. CASE CloseStore
  BY <1>11 DEF CloseStore, producerVars, consumerVars
<1>12. CASE CloseWake
  BY <1>12 DEF CloseWake, producerVars, consumerVars
<1>13. CASE UNCHANGED vars
  BY <1>13 DEF vars
<1> QED
  BY <1>1, <1>2, <1>3, <1>4, <1>5, <1>6, <1>7, <1>8, <1>9, <1>10, <1>11, <1>12, <1>13
     DEF Next, Producer, Consumer

LEMMA CreditStep ==
  ASSUME RingInv, [Next]_vars PROVE CreditInv'
<1> USE RingAssumption DEF RingInv, TypeOK, WindowInv, CreditInv, ProducerAt, ConsumerAt
<1>1. CASE PushLoadTail
  <2>1. ppc' \in {"idle", "write"} /\ ppc = "idle"
    BY <1>1 DEF PushLoadTail
  <2> QED
    BY <1>1, <2>1 DEF PushLoadTail, consumerVars
<1>2. CASE PushWrite
  BY <1>2 DEF PushWrite, consumerVars
<1>3. CASE PushPublish
  BY <1>3 DEF PushPublish, consumerVars
<1>4. CASE PushRelease
  BY <1>4 DEF PushRelease, consumerVars
<1>5. CASE PopAcquire
  BY <1>5 DEF PopAcquire, producerVars
<1>6. CASE PopLoadHead
  <2>1. PICK h \in headSeen..pushed :
          /\ headSeen' = h
          /\ cpc' = IF tail = IndexAfter(h) THEN "checkClosed" ELSE "move"
    BY <1>6 DEF PopLoadHead
  <2>2. /\ h \in Nat /\ popped <= h
        /\ tail = IndexAfter(h) <=> h = popped
    BY PopTest
  <2> QED
    BY <1>6, <2>1, <2>2 DEF PopLoadHead, producerVars
<1>7. CASE PopMove
  BY <1>7 DEF PopMove, producerVars
<1>8. CASE PopRetire
  BY <1>8 DEF PopRetire, producerVars
<1>9. CASE PopAgain
  BY <1>9 DEF PopAgain, producerVars
<1>10. CASE PopCheckClosed
  <2>1. cpc = "checkClosed" /\ closed /\ wokenSeen
    BY <1>10 DEF PopCheckClosed
  <2>2. cpc' = "done"
    BY <1>10, <2>1, Zenon DEF PopCheckClosed
  <2> QED
    BY <1>10, <2>1, <2>2 DEF PopCheckClosed, producerVars
<1>11. CASE CloseStore
  BY <1>11 DEF CloseStore, producerVars, consumerVars
<1>12. CASE CloseWake
  BY <1>12 DEF CloseWake, producerVars, consumerVars
<1>13. CASE UNCHANGED vars
  BY <1>13 DEF vars
<1> QED
  BY <1>1, <1>2, <1>3, <1>4, <1>5, <1>6, <1>7, <1>8, <1>9, <1>10, <1>11, <1>12, <1>13
     DEF Next, Producer, Consumer

LEMMA BufferStep ==
  ASSUME RingInv, [Next]_vars PROVE BufferInv'
<1> USE RingAssumption DEF RingInv, TypeOK, BufferInv
<1>1. CASE PushWrite
  <2>1. pushed < out + Size /\ out <= pushed
    BY <1>1 DEF PushWrite, WindowInv, Size
  <2>2. ASSUME NEW k \in (out + 1)..pushed PROVE SlotOf(k) # head
    <3>1. k - 1 \in Nat /\ k - 1 < pushed /\ pushed - (k - 1) < Size
      BY <2>1 DEF Size
    <3> QED
      BY <3>1, IndexInjective DEF SlotOf, IndexInv, IndexAfter
  <2> QED
    BY <1>1, <2>2 DEF PushWrite, consumerVars, SlotOf, Size
<1>2. CASE PushPublish
  <2>1. buf[SlotOf(pushed + 1)] = pushed + 1
    BY <1>2 DEF PushPublish, IndexInv, IndexAfter, SlotOf
  <2> QED
    BY <1>2, <2>1 DEF PushPublish, consumerVars, SlotOf, Size
<1>3. CASE PopMove
  <2>1. out = popped /\ popped < pushed /\ pushed <= popped + Capacity
    BY <1>3 DEF PopMove, WindowInv
  <2>2. popped + 1 \in (out + 1)..pushed /\ tail = SlotOf(popped + 1)
    BY <2>1 DEF IndexInv, IndexAfter, SlotOf
  <2>3. out' = popped + 1
    BY <1>3, <2>2 DEF PopMove
  <2>4. ASSUME NEW k \in (popped + 2)..pushed PROVE SlotOf(k) # tail
    <3>1. k - 1 \in Nat /\ popped < k - 1 /\ (k - 1) - popped < Size
      BY <2>1 DEF Size
    <3> QED
      BY <3>1, IndexInjective DEF SlotOf, IndexInv, IndexAfter
  <2>5. (ppc = "publish") => head # tail
    <3>1. (ppc = "publish") => pushed < popped + Size - 1
      BY <2>1 DEF WindowInv, Size
    <3> QED
      BY <2>1, <3>1, IndexInjective DEF IndexInv, Size
  <2> QED
    BY <1>3, <2>1, <2>3, <2>4, <2>5 DEF PopMove, producerVars, SlotOf, Size
<1>4. ASSUME UNCHANGED <<buf, out, head, pushed>>, ppc' = "publish" => ppc = "publish"
      PROVE  BufferInv'
  BY <1>4 DEF SlotOf, Size
<1>5. ASSUME Next, ~PushWrite, ~PushPublish, ~PopMove
      PROVE  UNCHANGED <<buf, out, head, pushed>> /\ (ppc' = "publish" => ppc = "publish")
  BY <1>5 DEF Next, Producer, Consumer, PushLoadTail, PushRelease, PopAcquire, PopLoadHead,
     PopRetire, PopAgain, PopCheckClosed, CloseStore, CloseWake, producerVars, consumerVars
<1> QED
  BY <1>1, <1>2, <1>3, <1>4, <1>5 DEF vars

LEMMA InvStep == RingInv /\ [Next]_vars => RingInv'
BY TypeStep, IndexStepInv, WindowStep, CreditStep, BufferStep DEF RingInv

-----------------------------------------------------------------------------
(* Theorems.                                                               *)

\* The invariant holds in every reachable state.
THEOREM RingInvariant == Spec => []RingInv
BY InitInv, InvStep, PTL DEF Spec

\* Every variable keeps its type, in particular the indexes stay in the
\* buffer.
THEOREM TypeCorrect == Spec => []TypeOK
<1>1. RingInv => TypeOK
  BY DEF RingInv
<1> QED
  BY <1>1, RingInvariant, PTL

\* tryPush and tryPop never touch a slot the other thread may be touching:
\* each access happens after the other thread's last one.
THEOREM RaceFreedom == Spec => []NoSlotRace
<1>1. RingInv => NoSlotRace
  BY RingAssumption DEF RingInv, TypeOK, WindowInv, NoSlotRace, Size
<1> QED
  BY <1>1, RingInvariant, PTL

\* popWait finds the ring empty only after close() released its credits.
THEOREM NoSpuriousWakeup == Spec => []EmptyOnlyAfterClose
<1>1. RingInv => EmptyOnlyAfterClose
  BY DEF RingInv, CreditInv, EmptyOnlyAfterClose
<1> QED
  BY <1>1, RingInvariant, PTL

\* popWait returns nullopt only when the ring is closed and drained.
THEOREM DrainBeforeEnd == Spec => []DrainedWhenDone
<1>1. RingInv => DrainedWhenDone
  BY DEF RingInv, TypeOK, WindowInv, CreditInv, DrainedWhenDone
<1> QED
  BY <1>1, RingInvariant, PTL

\* What a tryPop moves out is the frame after the last one.
LEMMA MoveNext ==
  ASSUME RingInv, PopMove
  PROVE  out' = out + 1 /\ out < pushed
<1>1. out = popped /\ popped < pushed /\ popped \in Nat /\ pushed \in Nat
  BY DEF PopMove, RingInv, TypeOK, WindowInv
<1>2. tail = SlotOf(out + 1) /\ out + 1 \in (out + 1)..pushed
  BY <1>1 DEF RingInv, IndexInv, IndexAfter, SlotOf
<1> QED
  BY <1>1, <1>2 DEF PopMove, RingInv, BufferInv

LEMMA OnlyMoveDelivers ==
  ASSUME [Next]_vars, out' # out PROVE PopMove
BY DEF Next, Producer, Consumer, PushLoadTail, PushWrite, PushPublish, PushRelease,
   PopAcquire, PopLoadHead, PopRetire, PopAgain, PopCheckClosed, CloseStore, CloseWake,
   producerVars, consumerVars, vars

\* Frames come out in the order they went in, none lost, none repeated.
THEOREM InOrderDelivery == Spec => InOrder
<1>1. RingInv /\ [Next]_vars => [out' # out => out' = out + 1]_vars
  BY MoveNext, OnlyMoveDelivers
<1> QED
  BY <1>1, RingInvariant, PTL DEF Spec, InOrder

\* Every step of the ring is a step of the channel or leaves it alone.
LEMMA ChannelStep ==
  ASSUME RingInv, [Next]_vars PROVE [Channel!Next]_(Channel!chanVars)
<1> USE RingAssumption DEF RingInv, TypeOK
<1> USE DEF Channel!chanVars
<1>1. CASE PushLoadTail
  <2>1. PICK t \in tailSeen..popped :
          /\ tailSeen' = t
          /\ refused' = ((head + 1) % Size = IndexAfter(t))
    BY <1>1 DEF PushLoadTail
  <2>2. t \in tailSeen..out
    BY DEF WindowInv
  <2>3. /\ refused' = (pushed = t + Capacity)
        /\ t \in Nat /\ pushed <= t + Capacity
    BY <2>1, PushTest
  <2>4. ~closed /\ UNCHANGED <<closed, pushed, out, cpc>>
    BY <1>1 DEF PushLoadTail, consumerVars
  <2>5. CASE pushed = t + Capacity
    <3>1. pushed - t = Capacity
      BY <2>3, <2>5
    <3>2. refused' = TRUE
      BY <2>3, <2>5, Zenon
    <3>3. Channel!Refuse
      BY <2>1, <2>2, <2>4, <3>1, <3>2 DEF Channel!Refuse
    <3> QED
      BY <3>3 DEF Channel!Next
  <2>6. CASE pushed # t + Capacity
    <3>1. pushed - t < Capacity
      BY <2>3, <2>6
    <3>2. refused' = FALSE
      BY <2>3, <2>6, Zenon
    <3>3. Channel!Learn
      BY <2>1, <2>2, <2>4, <3>1, <3>2 DEF Channel!Learn
    <3> QED
      BY <3>3 DEF Channel!Next
  <2> QED
    BY <2>5, <2>6
<1>2. CASE PushPublish
  <2>1. Channel!Accept
    BY <1>2 DEF PushPublish, consumerVars, WindowInv, Channel!Accept
  <2> QED
    BY <2>1 DEF Channel!Next
<1>3. CASE PopMove
  <2>1. out' = out + 1 /\ out < pushed
    BY <1>3, MoveNext
  <2>2. Channel!Deliver
    BY <1>3, <2>1 DEF PopMove, producerVars, Channel!Deliver
  <2> QED
    BY <2>2 DEF Channel!Next
<1>4. CASE PopCheckClosed
  <2>1. closed /\ wokenSeen /\ out = pushed
    BY <1>4 DEF PopCheckClosed, CreditInv, WindowInv
  <2>2. cpc' = "done"
    BY <1>4, <2>1, Zenon DEF PopCheckClosed
  <2>3. Channel!End
    BY <1>4, <2>1, <2>2 DEF PopCheckClosed, producerVars, Channel!End
  <2> QED
    BY <2>3 DEF Channel!Next
<1>5. CASE CloseStore
  <2>1. Channel!Close
    BY <1>5 DEF CloseStore, producerVars, consumerVars, Channel!Close
  <2> QED
    BY <2>1 DEF Channel!Next
<1>6. ASSUME UNCHANGED <<pushed, out, tailSeen, refused, closed>>,
             cpc' = "done" <=> cpc = "done"
      PROVE  UNCHANGED Channel!chanVars
  BY <1>6
<1>7. ASSUME Next, ~PushLoadTail, ~PushPublish, ~PopMove, ~PopCheckClosed, ~CloseStore
      PROVE  UNCHANGED <<pushed, out, tailSeen, refused, closed>> /\ (cpc' = "done" <=> cpc = "done")
  BY <1>7 DEF Next, Producer, Consumer, PushWrite, PushRelease, PopAcquire, PopLoadHead,
     PopRetire, PopAgain, CloseWake, producerVars, consumerVars
<1> QED
  BY <1>1, <1>2, <1>3, <1>4, <1>5, <1>6, <1>7 DEF vars

\* The ring implements the bounded channel.
THEOREM Refinement == Spec => ImplementsChannel
<1>1. Init => Channel!Init
  BY DEF Init, Channel!Init
<1>2. RingInv /\ [Next]_vars => [Channel!Next]_(Channel!chanVars)
  BY ChannelStep
<1> QED
  BY <1>1, <1>2, RingInvariant, PTL DEF Spec, ImplementsChannel, Channel!Spec
=============================================================================
