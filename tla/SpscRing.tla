------------------------------ MODULE SpscRing ------------------------------
(***************************************************************************)
(* The lock-free ring between a WebSocket connection thread (producer,     *)
(* tryPush) and a lane's worker thread (consumer, popWait), one step per   *)
(* access to shared memory, under the C++ memory orders the code asks for. *)
(*                                                                         *)
(* A frame is its ordinal: the k-th frame accepted is frame k, and 0 is an *)
(* empty or moved-from slot.                                               *)
(*                                                                         *)
(* Memory model.  head_ and tail_ each have one writer, so a load returns  *)
(* the value of some store between the last one that happens before the    *)
(* load and the latest one.  Stores are numbered by the frames they        *)
(* publish (pushed) or retire (popped); headSeen and tailSeen are the      *)
(* stores each thread is sure to see.  An acquire load raises the bound to *)
(* the store it reads; sem_.acquire() raises it to every push whose        *)
(* sem_.release() came before, since a semaphore's read-modify-writes form *)
(* one release sequence.  The slots are plain memory: touching one is a    *)
(* race unless the other thread's last access is among the stores seen.    *)
(***************************************************************************)
EXTENDS Integers

CONSTANTS Capacity,        \* the constructor's argument, kRingCapacityChunks
          CloseCredits,    \* kCloseWakeupCredits
          MaxFrames        \* bound: tryPush is not called after this many frames

ASSUME RingAssumption ==
  /\ Capacity \in Nat \ {0}
  /\ CloseCredits \in Nat \ {0}
  /\ MaxFrames \in Nat

Size == Capacity + 1       \* buf_.size()
Slots == 0..(Size - 1)

VARIABLES
  buf,         \* buf_
  head,        \* head_
  tail,        \* tail_
  closed,      \* closed_
  sem,         \* sem_'s count
  ppc,         \* where the producer is in tryPush
  cpc,         \* where the consumer is in popWait
  out,         \* the frame last moved out of the ring by tryPop
  pushed,      \* stores to head_ so far = frames accepted
  popped,      \* stores to tail_ so far = frames retired
  released,    \* sem_.release() calls made by tryPush
  woken,       \* close()'s sem_.release(kCloseWakeupCredits) has been made
  headSeen,    \* stores to head_ that happen before the consumer's next step
  tailSeen,    \* stores to tail_ that happen before the producer's next step
  wokenSeen,   \* close()'s release happens before the consumer's next step
  refused      \* the last tryPush returned false

vars == <<buf, head, tail, closed, sem, ppc, cpc, out, pushed, popped, released,
          woken, headSeen, tailSeen, wokenSeen, refused>>

producerVars == <<ppc, pushed, released, tailSeen, refused>>
consumerVars == <<cpc, out, popped, headSeen, wokenSeen>>

\* The value of head_ or tail_ after its n-th store.
IndexAfter(n) == n % Size
\* The slot frame k is kept in.
SlotOf(k) == (k - 1) % Size

ProducerAt == {"idle", "write", "publish", "release"}
ConsumerAt == {"acquire", "loadHead", "move", "retire", "returned", "checkClosed", "done"}

TypeOK ==
  /\ buf \in [Slots -> Nat]
  /\ head \in Slots /\ tail \in Slots
  /\ closed \in BOOLEAN /\ woken \in BOOLEAN /\ wokenSeen \in BOOLEAN /\ refused \in BOOLEAN
  /\ ppc \in ProducerAt /\ cpc \in ConsumerAt
  /\ sem \in Nat /\ out \in Nat /\ pushed \in Nat /\ popped \in Nat
  /\ released \in Nat /\ headSeen \in Nat /\ tailSeen \in Nat

Init ==
  /\ buf = [i \in Slots |-> 0]
  /\ head = 0 /\ tail = 0 /\ sem = 0 /\ out = 0
  /\ closed = FALSE /\ woken = FALSE /\ wokenSeen = FALSE /\ refused = FALSE
  /\ ppc = "idle" /\ cpc = "acquire"
  /\ pushed = 0 /\ popped = 0 /\ released = 0 /\ headSeen = 0 /\ tailSeen = 0

-----------------------------------------------------------------------------
(* tryPush.  Pipeline::stop() joins every producer before it closes the    *)
(* rings, so no call starts once closed is set.                            *)

\* Mutant: the ring never reports full.
PushLoadTail_NeverFull ==
  /\ ppc = "idle" /\ ~closed /\ pushed < MaxFrames
  /\ tailSeen' \in tailSeen..popped
  /\ refused' = FALSE
  /\ ppc' = "write"
  /\ UNCHANGED <<buf, head, tail, closed, sem, pushed, released, woken, consumerVars>>

\* Mutant: the spare slot is counted twice, so the ring is full one early.
PushLoadTail_FullEarly ==
  /\ ppc = "idle" /\ ~closed /\ pushed < MaxFrames
  /\ \E t \in tailSeen..popped :
       /\ tailSeen' = t
       /\ LET full == (head + 2) % Size = IndexAfter(t)
          IN  /\ refused' = full
              /\ ppc' = IF full THEN "idle" ELSE "write"
  /\ UNCHANGED <<buf, head, tail, closed, sem, pushed, released, woken, consumerVars>>

\* The acquire load of tail_ and the full test.
PushLoadTail ==
  /\ ppc = "idle" /\ ~closed /\ pushed < MaxFrames
  /\ \E t \in tailSeen..popped :
       /\ tailSeen' = t
       /\ LET full == (head + 1) % Size = IndexAfter(t)
          IN  /\ refused' = full
              /\ ppc' = IF full THEN "idle" ELSE "write"
  /\ UNCHANGED <<buf, head, tail, closed, sem, pushed, released, woken, consumerVars>>

\* Mutant: the semaphore is released before head_ is stored.
PushWrite_CreditFirst ==
  /\ ppc = "write"
  /\ buf' = [buf EXCEPT ![head] = pushed + 1]
  /\ sem' = sem + 1
  /\ ppc' = "publish"
  /\ UNCHANGED <<head, tail, closed, pushed, released, tailSeen, refused, woken, consumerVars>>

PushWrite ==
  /\ ppc = "write"
  /\ buf' = [buf EXCEPT ![head] = pushed + 1]
  /\ ppc' = "publish"
  /\ UNCHANGED <<head, tail, closed, sem, pushed, released, tailSeen, refused, woken,
                 consumerVars>>

PushPublish ==
  /\ ppc = "publish"
  /\ head' = (head + 1) % Size
  /\ pushed' = pushed + 1
  /\ ppc' = "release"
  /\ UNCHANGED <<buf, tail, closed, sem, released, tailSeen, refused, woken, consumerVars>>

\* Mutant: the credit is forgotten.
PushRelease_NoCredit ==
  /\ ppc = "release"
  /\ released' = released + 1
  /\ ppc' = "idle"
  /\ UNCHANGED <<buf, head, tail, closed, sem, pushed, tailSeen, refused, woken, consumerVars>>

PushRelease ==
  /\ ppc = "release"
  /\ sem' = sem + 1
  /\ released' = released + 1
  /\ ppc' = "idle"
  /\ UNCHANGED <<buf, head, tail, closed, pushed, tailSeen, refused, woken, consumerVars>>

Producer == PushLoadTail \/ PushWrite \/ PushPublish \/ PushRelease

-----------------------------------------------------------------------------
(* popWait, and the tryPop it calls.                                       *)

PopAcquire ==
  /\ cpc = "acquire" /\ sem > 0
  /\ sem' = sem - 1
  /\ headSeen' = IF released > headSeen THEN released ELSE headSeen
  /\ wokenSeen' = woken
  /\ cpc' = "loadHead"
  /\ UNCHANGED <<buf, head, tail, closed, out, popped, woken, producerVars>>

\* The acquire load of head_ and the empty test.
PopLoadHead ==
  /\ cpc = "loadHead"
  /\ \E h \in headSeen..pushed :
       /\ headSeen' = h
       /\ cpc' = IF tail = IndexAfter(h) THEN "checkClosed" ELSE "move"
  /\ UNCHANGED <<buf, head, tail, closed, sem, out, popped, wokenSeen, woken, producerVars>>

PopMove ==
  /\ cpc = "move"
  /\ out' = buf[tail]
  /\ buf' = [buf EXCEPT ![tail] = 0]
  /\ cpc' = "retire"
  /\ UNCHANGED <<head, tail, closed, sem, popped, headSeen, wokenSeen, woken, producerVars>>

PopRetire ==
  /\ cpc = "retire"
  /\ tail' = (tail + 1) % Size
  /\ popped' = popped + 1
  /\ cpc' = "returned"
  /\ UNCHANGED <<buf, head, closed, sem, out, headSeen, wokenSeen, woken, producerVars>>

\* The worker is done with the frame and calls popWait again.
PopAgain ==
  /\ cpc = "returned"
  /\ cpc' = "acquire"
  /\ UNCHANGED <<buf, head, tail, closed, sem, out, popped, headSeen, wokenSeen, woken,
                 producerVars>>

\* Nothing to pop: nullopt if closed_ reads true (which it must once the
\* close is seen, and may as soon as it is stored), round the loop if not.
PopCheckClosed ==
  /\ cpc = "checkClosed"
  /\ \E c \in {closed, wokenSeen} : cpc' = IF c THEN "done" ELSE "acquire"
  /\ UNCHANGED <<buf, head, tail, closed, sem, out, popped, headSeen, wokenSeen, woken,
                 producerVars>>

Consumer == \/ PopAcquire \/ PopLoadHead \/ PopMove \/ PopRetire \/ PopAgain \/ PopCheckClosed

-----------------------------------------------------------------------------
(* close(), called by Pipeline::stop() after the producers are joined.     *)

CloseStore ==
  /\ ~closed /\ ppc = "idle"
  /\ closed' = TRUE
  /\ UNCHANGED <<buf, head, tail, sem, woken, producerVars, consumerVars>>

\* Mutant: close() does not release the semaphore.
CloseWake_NoCredits ==
  /\ closed /\ ~woken
  /\ woken' = TRUE
  /\ UNCHANGED <<buf, head, tail, closed, sem, producerVars, consumerVars>>

CloseWake ==
  /\ closed /\ ~woken
  /\ sem' = sem + CloseCredits
  /\ woken' = TRUE
  /\ UNCHANGED <<buf, head, tail, closed, producerVars, consumerVars>>

Next == Producer \/ Consumer \/ CloseStore \/ CloseWake

\* A thread inside tryPush, popWait or close keeps running, and the worker
\* keeps calling popWait; nobody has to push or to close.
Fairness ==
  /\ WF_vars(PushWrite) /\ WF_vars(PushPublish) /\ WF_vars(PushRelease)
  /\ WF_vars(Consumer)
  /\ WF_vars(CloseWake)

Spec == Init /\ [][Next]_vars
FairSpec == Spec /\ Fairness

-----------------------------------------------------------------------------
(* Properties                                                              *)

\* No data race on a slot (the reason for every acquire/release pair in
\* tryPush and tryPop): the producer writes a slot only after it has seen
\* the consumer retire the slot's previous frame, the consumer moves out of
\* one only after it has seen the producer publish it.
NoSlotRace ==
  /\ ppc = "write" => pushed + 1 - Size <= tailSeen
  /\ cpc = "move" => popped < headSeen

\* tryPop moves out exactly the next frame: the consumer never receives a
\* stale, overwritten, moved-from or repeated frame.
InOrder == [][out' # out => out' = out + 1]_vars

\* The semaphore and the indexes agree: a frame's credit is never visible
\* before the frame, so popWait comes back empty-handed only after close()
\* has released its credits and never spins before that.
EmptyOnlyAfterClose == cpc = "checkClosed" => woken

\* popWait returns nullopt only when every accepted frame was handed out
\* (close unblocks the consumer AND drains the ring).
DrainedWhenDone == cpc = "done" => closed /\ out = pushed

\* Every accepted frame reaches the worker: no wakeup is lost.
EveryFrameArrives == \A k \in 1..MaxFrames : (pushed >= k) ~> (out >= k)

\* close() makes the worker's loop end: Pipeline::stop()'s join returns.
CloseEndsConsumer == closed ~> (cpc = "done")

\* The ring implements the channel its users rely on.
Channel == INSTANCE BoundedChannel
             WITH accepted <- pushed, delivered <- out, known <- tailSeen,
                  refused <- refused, closed <- closed, ended <- (cpc = "done")
ImplementsChannel == Channel!Spec
=============================================================================
