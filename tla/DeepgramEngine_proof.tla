------------------------ MODULE DeepgramEngine_proof ------------------------
(***************************************************************************)
(* Proofs about the cloud engine, for any lanes, length of the run and     *)
(* number of finals.                                                       *)
(***************************************************************************)
EXTENDS DeepgramEngine, TranscriptModel_proof

-----------------------------------------------------------------------------
(* The inductive invariant.                                                *)

\* The thread that sends runs between start() and the join of stop(), and
\* only behind the join is a slot reset.
ThreadInv ==
  /\ phase = "new" => keepAlive = "off" /\ \A l \in Lanes : conn[l] = "none"
  /\ keepAlive \in {"check", "sleep", "send"} => phase \in {"up", "stopping"}
  /\ phase \in {"up", "stopping"} => \A l \in Lanes : conn[l] # "none"

\* A connection's audio starts with it, and is fed a unit at a time: the
\* stamp of a unit, its place behind the epoch, is never later than the
\* time it was fed.
AudioInv ==
  \A l \in Lanes :
    /\ phase = "new" \/ conn[l] = "connecting" => sent[l] = <<>> /\ done[l] = 0
    /\ epoch[l] <= clock /\ lastFed[l] <= clock
    /\ \A i \in 1 .. Len(sent[l]) :
         /\ epoch[l] + i - 1 <= sent[l][i] /\ sent[l][i] <= lastFed[l]
         /\ \A j \in 1 .. i - 1 : sent[l][j] < sent[l][i]

\* What a lane still has to say was spoken no earlier than the finals it has,
\* and will be stamped no earlier either, on this connection or the next.
SpokenInv ==
  \A k \in 1 .. Len(finals) :
    LET f == finals[k]
        l == f.lane IN
    /\ f.ts < f.text /\ f.text <= lastFed[l] + 1
    /\ conn[l] = "open" => f.ts <= epoch[l] + done[l]
    /\ \A i \in done[l] + 1 .. Len(sent[l]) : f.text <= sent[l][i] + 1

DgInv == TmInv /\ DgTypeOK /\ ThreadInv /\ AudioInv /\ SpokenInv /\ LaneInSpokenOrder

-----------------------------------------------------------------------------
(* The proofs.                                                             *)

LEMMA LaneFacts ==
  ASSUME DgTypeOK, NEW l \in Lanes
  PROVE  /\ clock \in Nat /\ epoch[l] \in Nat /\ done[l] \in Nat /\ lastFed[l] \in Int
         /\ sent[l] \in Seq(0 .. MaxClock) /\ Len(sent[l]) \in Nat
         /\ \A i \in 1 .. Len(sent[l]) : sent[l][i] \in Nat
<1>1. sent[l] \in Seq(0 .. MaxClock)
  BY DEF DgTypeOK
<1>2. Len(sent[l]) \in Nat /\ \A i \in 1 .. Len(sent[l]) : sent[l][i] \in 0 .. MaxClock
  BY <1>1, LenProperties, ElementOfSeq
<1>3. clock \in 0 .. MaxClock /\ epoch[l] \in 0 .. MaxClock /\ done[l] \in Nat
      /\ lastFed[l] \in -1 .. MaxClock
  BY DEF DgTypeOK
<1> QED
  BY <1>1, <1>2, <1>3, ClockAssumption

LEMMA FinalFacts ==
  ASSUME TmInv, NEW k \in 1 .. Len(finals)
  PROVE  /\ finals[k] \in Line /\ finals[k].lane \in Lanes
         /\ finals[k].ts \in Nat /\ finals[k].text \in Nat
<1>1. finals[k] \in Line
  BY LineTime DEF TmInv, TmTypeOK
<1> QED
  BY <1>1 DEF Line

LEMMA DgInitial == DgInit => DgInv
<1> SUFFICES ASSUME DgInit PROVE DgInv
  OBVIOUS
<1>1. TmInv
  BY TmInitial DEF DgInit
<1>2. DgTypeOK
  BY <1>1, ClockAssumption DEF DgInit, DgTypeOK, TmInv
<1>3. ThreadInv
  BY DEF DgInit, ThreadInv
<1>4. AudioInv
  BY DEF DgInit, AudioInv
<1>5. finals = <<>>
  BY DEF DgInit, TmInit
<1>6. SpokenInv /\ LaneInSpokenOrder
  BY <1>5 DEF SpokenInv, LaneInSpokenOrder
<1> QED
  BY <1>1, <1>2, <1>3, <1>4, <1>6 DEF DgInv

-----------------------------------------------------------------------------
(* The steps that leave the transcript alone.                              *)

LEMMA QuietTranscript ==
  ASSUME DgInv, UNCHANGED tmVars
  PROVE  TmInv' /\ LaneInSpokenOrder'
<1>1. TmInv'
  BY WindowStep DEF DgInv
<1>2. LaneInSpokenOrder'
  BY DEF DgInv, LaneInSpokenOrder, tmVars, modelVars
<1> QED
  BY <1>1, <1>2

\* start(), stop() and the KeepAlive thread: the slots change hands.
LEMMA ControlStep ==
  ASSUME DgInv,
         Start \/ StopBegin \/ StopStep \/ KeepAlive \/ UNCHANGED dgVars
  PROVE  DgInv'
<1>0. UNCHANGED <<tmVars, clock, epoch, failed, sent, done, lastFed>>
  BY DEF Start, StopBegin, StopStep, StopJoin, StopLane, StopEnd, KeepAlive, KaCheck,
         KaSleep, KaSend, dgVars, laneVars
<1>1. TmInv' /\ LaneInSpokenOrder'
  BY <1>0, QuietTranscript
<1>2. /\ phase' \in {"new", "up", "stopping", "closing", "stopped"}
      /\ conn' \in [Lanes -> {"none", "connecting", "open"}]
      /\ keepAlive' \in {"off", "check", "sleep", "send", "ended"}
      /\ toSend' \subseteq Lanes
  BY DEF DgInv, DgTypeOK, Start, StopBegin, StopStep, StopJoin, StopLane, StopEnd,
         KeepAlive, KaCheck, KaSleep, KaSend, dgVars, laneVars
<1>3. DgTypeOK'
  BY <1>0, <1>1, <1>2 DEF DgInv, DgTypeOK, TmInv
<1>4. ThreadInv'
  <2>1. CASE Start
    BY <2>1 DEF DgInv, ThreadInv, Start
  <2>2. CASE StopBegin
    BY <2>2 DEF DgInv, ThreadInv, StopBegin, laneVars
  <2>3. CASE StopStep
    BY <2>3 DEF DgInv, DgTypeOK, ThreadInv, StopStep, StopJoin, StopLane, StopEnd, laneVars
  <2>4. CASE KeepAlive
    BY <2>4 DEF DgInv, ThreadInv, KeepAlive, KaCheck, KaSleep, KaSend, laneVars
  <2>5. CASE UNCHANGED dgVars
    BY <2>5 DEF DgInv, ThreadInv, dgVars, laneVars
  <2> QED
    BY <2>1, <2>2, <2>3, <2>4, <2>5
<1>5. \A l \in Lanes :
        /\ conn'[l] = "connecting" => phase = "new" \/ conn[l] = "connecting"
        /\ conn'[l] = "open" => conn[l] = "open"
        /\ phase' = "new" => phase = "new"
  BY DEF DgInv, DgTypeOK, Start, StopBegin, StopStep, StopJoin, StopLane, StopEnd,
         KeepAlive, KaCheck, KaSleep, KaSend, dgVars, laneVars
<1>6. AudioInv'
  BY <1>0, <1>5 DEF DgInv, AudioInv
<1>7. SpokenInv'
  <2>1. finals' = finals
    BY <1>0 DEF tmVars, modelVars
  <2>2. \A k \in 1 .. Len(finals) : finals[k].lane \in Lanes
    BY FinalFacts DEF DgInv
  <2> QED
    BY <1>0, <1>5, <2>1, <2>2 DEF DgInv, SpokenInv
<1> QED
  BY <1>1, <1>3, <1>4, <1>6, <1>7 DEF DgInv

LEMMA TickStep ==
  ASSUME DgInv, Tick
  PROVE  DgInv'
<1>0. /\ clock < MaxClock /\ clock' = clock + 1
      /\ UNCHANGED <<tmVars, phase, laneVars, keepAlive, toSend>>
  BY DEF Tick
<1>1. TmInv' /\ LaneInSpokenOrder'
  BY <1>0, QuietTranscript
<1>2. clock \in Nat /\ clock' \in 0 .. MaxClock
  BY <1>0, ClockAssumption DEF DgInv, DgTypeOK
<1>3. DgTypeOK'
  BY <1>0, <1>1, <1>2 DEF DgInv, DgTypeOK, TmInv, laneVars
<1>4. ThreadInv'
  BY <1>0 DEF DgInv, ThreadInv, laneVars
<1>5. \A l \in Lanes : epoch[l] <= clock' /\ lastFed[l] <= clock'
  BY <1>0, LaneFacts DEF DgInv, AudioInv
<1>6. AudioInv'
  BY <1>0, <1>5 DEF DgInv, AudioInv, laneVars
<1>7. SpokenInv'
  BY <1>0 DEF DgInv, SpokenInv, laneVars, tmVars, modelVars
<1> QED
  BY <1>1, <1>3, <1>4, <1>6, <1>7 DEF DgInv
-----------------------------------------------------------------------------
(* The connections.                                                        *)

\* A new epoch is the current time, which no final of the lane was spoken
\* after.
LEMMA OpenStep ==
  ASSUME DgInv, NEW l \in Lanes, ConnOpens(l)
  PROVE  DgInv'
<1>0. /\ conn[l] = "connecting" /\ conn' = [conn EXCEPT ![l] = "open"]
      /\ epoch' = [epoch EXCEPT ![l] = clock] /\ failed' = [failed EXCEPT ![l] = FALSE]
      /\ UNCHANGED <<tmVars, phase, clock, sent, done, lastFed, keepAlive, toSend>>
  BY DEF ConnOpens
<1>1. TmInv' /\ LaneInSpokenOrder'
  BY <1>0, QuietTranscript
<1>2. DgTypeOK'
  BY <1>0, <1>1 DEF DgInv, DgTypeOK, TmInv
<1>3. ThreadInv'
  BY <1>0 DEF DgInv, DgTypeOK, ThreadInv
<1>4. sent[l] = <<>> /\ done[l] = 0 /\ lastFed[l] <= clock
  BY <1>0 DEF DgInv, AudioInv
<1>5. /\ conn'[l] = "open" /\ epoch'[l] = clock
      /\ \A m \in Lanes : m # l => conn'[m] = conn[m] /\ epoch'[m] = epoch[m]
  BY <1>0 DEF DgInv, DgTypeOK
<1>6. AudioInv'
  <2> SUFFICES ASSUME NEW m \in Lanes
               PROVE  /\ phase = "new" \/ conn'[m] = "connecting" => sent[m] = <<>> /\ done[m] = 0
                      /\ epoch'[m] <= clock /\ lastFed[m] <= clock
                      /\ \A i \in 1 .. Len(sent[m]) :
                           /\ epoch'[m] + i - 1 <= sent[m][i] /\ sent[m][i] <= lastFed[m]
                           /\ \A j \in 1 .. i - 1 : sent[m][j] < sent[m][i]
    BY <1>0 DEF AudioInv
  <2>1. CASE m = l
    BY <1>4, <1>5, <2>1, LaneFacts DEF DgInv
  <2>2. CASE m # l
    BY <1>5, <2>2 DEF DgInv, AudioInv
  <2> QED
    BY <2>1, <2>2
<1>7. SpokenInv'
  <2>0. finals' = finals
    BY <1>0 DEF tmVars, modelVars
  <2> SUFFICES ASSUME NEW k \in 1 .. Len(finals), conn'[finals[k].lane] = "open"
               PROVE  finals[k].ts <= epoch'[finals[k].lane] + done[finals[k].lane]
    BY <1>0, <2>0 DEF DgInv, SpokenInv
  <2>1. /\ finals[k].lane \in Lanes /\ finals[k].ts \in Nat /\ finals[k].text \in Nat
    BY FinalFacts DEF DgInv
  <2>2. finals[k].ts < finals[k].text /\ finals[k].text <= lastFed[finals[k].lane] + 1
    BY DEF DgInv, SpokenInv
  <2>3. CASE finals[k].lane = l
    <3>1. lastFed[l] \in Int /\ clock \in Nat
      BY LaneFacts DEF DgInv
    <3> QED
      BY SMTT(30), <1>4, <1>5, <2>1, <2>2, <2>3, <3>1
  <2>4. CASE finals[k].lane # l
    BY <1>5, <2>1, <2>4 DEF DgInv, SpokenInv
  <2> QED
    BY <2>3, <2>4
<1> QED
  BY <1>1, <1>2, <1>3, <1>6, <1>7 DEF DgInv

LEMMA FailStep ==
  ASSUME DgInv, NEW l \in Lanes, ConnFails(l)
  PROVE  DgInv'
<1>0. /\ failed' = [failed EXCEPT ![l] = TRUE]
      /\ UNCHANGED <<tmVars, phase, clock, conn, epoch, sent, done, lastFed, keepAlive, toSend>>
  BY DEF ConnFails
<1>1. TmInv' /\ LaneInSpokenOrder'
  BY <1>0, QuietTranscript
<1>2. DgTypeOK'
  BY <1>0, <1>1 DEF DgInv, DgTypeOK, TmInv
<1>3. ThreadInv' /\ AudioInv'
  BY <1>0 DEF DgInv, ThreadInv, AudioInv
<1>4. SpokenInv'
  BY <1>0 DEF DgInv, SpokenInv, tmVars, modelVars
<1> QED
  BY <1>1, <1>2, <1>3, <1>4 DEF DgInv

LEMMA CloseStep ==
  ASSUME DgInv, NEW l \in Lanes, ConnCloses(l)
  PROVE  DgInv'
<1>0. /\ conn[l] = "open" /\ conn' = [conn EXCEPT ![l] = "connecting"]
      /\ sent' = [sent EXCEPT ![l] = <<>>] /\ done' = [done EXCEPT ![l] = 0]
      /\ UNCHANGED <<tmVars, phase, clock, epoch, failed, lastFed, keepAlive, toSend>>
  BY DEF ConnCloses
<1>1. TmInv' /\ LaneInSpokenOrder'
  BY <1>0, QuietTranscript
<1>2. DgTypeOK'
  BY <1>0, <1>1 DEF DgInv, DgTypeOK, TmInv
<1>3. ThreadInv'
  BY <1>0 DEF DgInv, DgTypeOK, ThreadInv
<1>4. /\ conn'[l] = "connecting" /\ sent'[l] = <<>> /\ done'[l] = 0
      /\ \A m \in Lanes : m # l => /\ conn'[m] = conn[m] /\ sent'[m] = sent[m]
                                   /\ done'[m] = done[m]
  BY <1>0 DEF DgInv, DgTypeOK
<1>5. AudioInv'
  <2> SUFFICES ASSUME NEW m \in Lanes
               PROVE  /\ phase = "new" \/ conn'[m] = "connecting"
                           => sent'[m] = <<>> /\ done'[m] = 0
                      /\ epoch[m] <= clock /\ lastFed[m] <= clock
                      /\ \A i \in 1 .. Len(sent'[m]) :
                           /\ epoch[m] + i - 1 <= sent'[m][i] /\ sent'[m][i] <= lastFed[m]
                           /\ \A j \in 1 .. i - 1 : sent'[m][j] < sent'[m][i]
    BY <1>0 DEF AudioInv
  <2>1. CASE m = l
    BY <1>4, <2>1 DEF DgInv, AudioInv
  <2>2. CASE m # l
    BY <1>4, <2>2 DEF DgInv, AudioInv
  <2> QED
    BY <2>1, <2>2
<1>6. SpokenInv'
  <2>0. finals' = finals
    BY <1>0 DEF tmVars, modelVars
  <2> SUFFICES ASSUME NEW k \in 1 .. Len(finals)
               PROVE  LET f == finals[k]
                          m == f.lane IN
                      /\ conn'[m] = "open" => f.ts <= epoch[m] + done'[m]
                      /\ \A i \in done'[m] + 1 .. Len(sent'[m]) : f.text <= sent'[m][i] + 1
    BY <1>0, <2>0 DEF DgInv, SpokenInv
  <2>1. finals[k].lane \in Lanes
    BY FinalFacts DEF DgInv
  <2>2. CASE finals[k].lane = l
    BY <1>4, <2>2
  <2>3. CASE finals[k].lane # l
    BY <1>4, <2>1, <2>3 DEF DgInv, SpokenInv
  <2> QED
    BY <2>2, <2>3
<1> QED
  BY <1>1, <1>2, <1>3, <1>5, <1>6 DEF DgInv

-----------------------------------------------------------------------------
(* Audio and results.                                                      *)

\* A unit is later than every one the lane was fed before, and so than all
\* its finals speak of.
LEMMA FeedStep ==
  ASSUME DgInv, NEW l \in Lanes, Feed(l)
  PROVE  DgInv'
<1>0. /\ phase = "up" /\ lastFed[l] < clock
      /\ lastFed' = [lastFed EXCEPT ![l] = clock]
      /\ sent' = IF conn[l] = "open" THEN [sent EXCEPT ![l] = Append(sent[l], clock)] ELSE sent
      /\ UNCHANGED <<tmVars, phase, clock, conn, epoch, failed, done, keepAlive, toSend>>
  BY DEF Feed
<1>1. TmInv' /\ LaneInSpokenOrder'
  BY <1>0, QuietTranscript
<1>2. /\ clock \in 0 .. MaxClock /\ clock \in Nat /\ epoch[l] \in Nat /\ done[l] \in Nat
      /\ lastFed[l] \in Int /\ sent[l] \in Seq(0 .. MaxClock) /\ Len(sent[l]) \in Nat
      /\ \A i \in 1 .. Len(sent[l]) : sent[l][i] \in Nat
  BY LaneFacts DEF DgInv, DgTypeOK
<1>3. /\ lastFed'[l] = clock
      /\ \A m \in Lanes : m # l => lastFed'[m] = lastFed[m] /\ sent'[m] = sent[m]
  BY <1>0 DEF DgInv, DgTypeOK
<1>4. /\ epoch[l] <= clock
      /\ \A i \in 1 .. Len(sent[l]) :
           /\ epoch[l] + i - 1 <= sent[l][i] /\ sent[l][i] <= lastFed[l]
           /\ \A j \in 1 .. i - 1 : sent[l][j] < sent[l][i]
  BY DEF DgInv, AudioInv
<1> DEFINE n == Len(sent[l])
\* What is fed to an open connection is lost on no other.
<1>5. \/ sent'[l] = sent[l]
      \/ /\ conn[l] = "open" /\ Len(sent'[l]) = n + 1 /\ sent'[l][n + 1] = clock
         /\ sent'[l] \in Seq(0 .. MaxClock)
         /\ \A i \in 1 .. n : sent'[l][i] = sent[l][i]
  <2>1. CASE conn[l] = "open"
    <3>1. sent'[l] = Append(sent[l], clock)
      BY <1>0, <2>1 DEF DgInv, DgTypeOK
    <3>2. /\ Append(sent[l], clock) \in Seq(0 .. MaxClock)
          /\ Len(Append(sent[l], clock)) = Len(sent[l]) + 1
          /\ Append(sent[l], clock)[Len(sent[l]) + 1] = clock
          /\ \A i \in 1 .. Len(sent[l]) : Append(sent[l], clock)[i] = sent[l][i]
      BY <1>2, AppendProperties
    <3> QED
      BY <2>1, <3>1, <3>2
  <2>2. CASE conn[l] # "open"
    BY <1>0, <2>2
  <2> QED
    BY <2>1, <2>2
<1>6. sent' \in [Lanes -> Seq(0 .. MaxClock)]
  <2>1. \A m \in Lanes : sent[m] \in Seq(0 .. MaxClock)
    BY DEF DgInv, DgTypeOK
  <2>2. \A m \in Lanes : sent'[m] \in Seq(0 .. MaxClock)
    BY <1>3, <1>5, <2>1
  <2>3. sent' = [m \in Lanes |-> sent'[m]]
    BY <1>0 DEF DgInv, DgTypeOK
  <2> QED
    BY <2>2, <2>3
<1>7. DgTypeOK'
  <2>1. lastFed' \in [Lanes -> -1 .. MaxClock]
    BY <1>0, <1>2 DEF DgInv, DgTypeOK
  <2> QED
    BY <1>0, <1>1, <1>6, <2>1 DEF DgInv, DgTypeOK, TmInv
<1>8. ThreadInv'
  BY <1>0 DEF DgInv, ThreadInv
<1> HIDE DEF n
<1>9. n \in Nat /\ n = Len(sent[l])
  BY <1>2 DEF n
\* The new unit's place is not later than the clock: the one before it, if
\* there is one, was fed earlier.
<1>10. epoch[l] + (n + 1) - 1 <= clock
  <2>1. CASE n = 0
    BY <1>2, <1>4, <2>1
  <2>2. CASE n # 0
    <3>1. n \in 1 .. Len(sent[l])
      BY <1>9, <2>2
    <3>2. epoch[l] + n - 1 <= sent[l][n] /\ sent[l][n] <= lastFed[l] /\ sent[l][n] \in Nat
      BY <1>2, <1>4, <3>1
    <3> QED
      BY SMTT(30), <1>0, <1>2, <1>9, <3>2
  <2> QED
    BY <2>1, <2>2
<1>11. ASSUME NEW i \in 1 .. Len(sent'[l])
       PROVE  /\ epoch[l] + i - 1 <= sent'[l][i] /\ sent'[l][i] <= clock
              /\ \A j \in 1 .. i - 1 : sent'[l][j] < sent'[l][i]
  <2>1. CASE sent'[l] = sent[l]
    <3>1. /\ i \in 1 .. Len(sent[l])
          /\ epoch[l] + i - 1 <= sent[l][i] /\ sent[l][i] <= lastFed[l]
          /\ \A j \in 1 .. i - 1 : sent[l][j] < sent[l][i]
          /\ sent[l][i] \in Nat
      BY <1>2, <1>4, <2>1
    <3> QED
      BY <1>0, <1>2, <2>1, <3>1
  <2>2. CASE /\ Len(sent'[l]) = n + 1 /\ sent'[l][n + 1] = clock
             /\ \A j \in 1 .. n : sent'[l][j] = sent[l][j]
    <3>1. CASE i = n + 1
      <4>1. epoch[l] + i - 1 <= sent'[l][i] /\ sent'[l][i] <= clock
        BY <1>2, <1>10, <2>2, <3>1
      <4>2. ASSUME NEW j \in 1 .. i - 1
            PROVE  sent'[l][j] < sent'[l][i]
        <5>1. j \in 1 .. n /\ j \in 1 .. Len(sent[l])
          BY <1>9, <3>1
        <5>2. sent'[l][j] = sent[l][j] /\ sent[l][j] <= lastFed[l] /\ sent[l][j] \in Nat
          BY <1>2, <1>4, <2>2, <5>1
        <5> QED
          BY SMTT(30), <1>0, <1>2, <2>2, <3>1, <5>2
      <4> QED
        BY <4>1, <4>2
    <3>2. CASE i # n + 1
      <4>1. i \in 1 .. n /\ i \in 1 .. Len(sent[l])
        BY <1>9, <2>2, <3>2
      <4>2. \A j \in 1 .. i - 1 : j \in 1 .. n
        BY <1>9, <4>1
      <4>3. /\ epoch[l] + i - 1 <= sent[l][i] /\ sent[l][i] <= lastFed[l]
            /\ \A j \in 1 .. i - 1 : sent[l][j] < sent[l][i]
            /\ sent[l][i] \in Nat
        BY <1>2, <1>4, <4>1
      <4> QED
        BY SMTT(30), <1>0, <1>2, <2>2, <4>1, <4>2, <4>3
    <3> QED
      BY <3>1, <3>2
  <2> QED
    BY <1>5, <1>9, <2>1, <2>2
<1>12. AudioInv'
  <2> SUFFICES ASSUME NEW m \in Lanes
               PROVE  /\ phase = "new" \/ conn[m] = "connecting"
                           => sent'[m] = <<>> /\ done[m] = 0
                      /\ epoch[m] <= clock /\ lastFed'[m] <= clock
                      /\ \A i \in 1 .. Len(sent'[m]) :
                           /\ epoch[m] + i - 1 <= sent'[m][i] /\ sent'[m][i] <= lastFed'[m]
                           /\ \A j \in 1 .. i - 1 : sent'[m][j] < sent'[m][i]
    BY <1>0 DEF AudioInv
  <2>1. CASE m = l
    <3>1. conn[l] = "connecting" => sent'[l] = <<>> /\ done[l] = 0
      BY <1>5 DEF DgInv, AudioInv
    <3> QED
      BY SMTT(30), <1>0, <1>2, <1>3, <1>4, <1>11, <2>1, <3>1
  <2>2. CASE m # l
    BY <1>3, <2>2 DEF DgInv, AudioInv
  <2> QED
    BY <2>1, <2>2
<1>13. SpokenInv'
  <2>0. finals' = finals
    BY <1>0 DEF tmVars, modelVars
  <2> SUFFICES ASSUME NEW k \in 1 .. Len(finals)
               PROVE  LET f == finals[k]
                          m == f.lane IN
                      /\ f.text <= lastFed'[m] + 1
                      /\ \A i \in done[m] + 1 .. Len(sent'[m]) : f.text <= sent'[m][i] + 1
    BY ZenonT(60), <1>0, <2>0 DEF DgInv, SpokenInv
  <2>1. finals[k].lane \in Lanes /\ finals[k].text \in Nat
    BY FinalFacts DEF DgInv
  <2>2. CASE finals[k].lane = l
    <3>1. /\ finals[k].text <= lastFed[l] + 1
          /\ \A i \in done[l] + 1 .. Len(sent[l]) : finals[k].text <= sent[l][i] + 1
      BY <2>2 DEF DgInv, SpokenInv
    <3>2. finals[k].text <= clock + 1
      BY SMTT(30), <1>0, <1>2, <2>1, <3>1
    <3>3. ASSUME NEW i \in done[l] + 1 .. Len(sent'[l])
          PROVE  finals[k].text <= sent'[l][i] + 1
      <4>1. CASE sent'[l] = sent[l]
        BY <3>1, <4>1
      <4>2. CASE /\ Len(sent'[l]) = n + 1 /\ sent'[l][n + 1] = clock
                 /\ \A j \in 1 .. n : sent'[l][j] = sent[l][j]
        <5>1. CASE i = n + 1
          BY <3>2, <4>2, <5>1
        <5>2. CASE i # n + 1
          <6>1. i \in 1 .. n /\ i \in done[l] + 1 .. Len(sent[l])
            BY SMTT(30), <1>2, <1>9, <4>2, <5>2
          <6> QED
            BY <3>1, <4>2, <6>1
        <5> QED
          BY <5>1, <5>2
      <4> QED
        BY <1>5, <1>9, <4>1, <4>2
    <3> QED
      BY <1>3, <2>2, <3>2, <3>3
  <2>3. CASE finals[k].lane # l
    BY <1>3, <2>1, <2>3 DEF DgInv, SpokenInv
  <2> QED
    BY <2>2, <2>3
<1> QED
  BY <1>1, <1>7, <1>8, <1>12, <1>13 DEF DgInv

\* A line not earlier than the lines of its lane goes behind them all.
LEMMA InsertBehind ==
  ASSUME NEW s \in Seq(Line), Sorted(s), NEW e \in Line, NEW i \in 1 .. Len(s),
         s[i].ts <= e.ts
  PROVE  i < UpperBound(s, e.ts)
<1> DEFINE k == UpperBound(s, e.ts)
<1>1. e.ts \in Nat /\ Len(s) \in Nat /\ \A j \in 1 .. Len(s) : s[j].ts \in Nat
  <2>1. e.ts \in Nat
    BY DEF Line
  <2> QED
    BY <2>1, LineTime
<1>2. k \in 1 .. (Len(s) + 1) /\ FitsAt(s, e.ts, k)
  BY <1>1, UpperBoundFits
<1> HIDE DEF k
<1>3. ASSUME k <= i
      PROVE  FALSE
  <2>1. k \in 1 .. Len(s) /\ e.ts < s[k].ts
    BY <1>1, <1>2, <1>3 DEF FitsAt
  <2>2. s[k].ts <= s[i].ts
    BY <1>1, <1>3, <2>1 DEF Sorted
  <2> QED
    BY <1>1, <2>1, <2>2
<1>4. k \in Int
  BY <1>2
<1>5. i < k
  BY <1>3, <1>4
<1> QED
  BY <1>5 DEF k

LEMMA ResultFacts ==
  ASSUME DgInv, NEW l \in Lanes, NEW i \in Int, conn[l] = "open",
         i \in done[l] + 1 .. Len(sent[l])
  PROVE  /\ i \in Nat /\ i \in 1 .. Len(sent[l])
         /\ sent[l][i] + 1 \in Nat \ {0} /\ ResultTs(l, i) \in Nat
         /\ ResultTs(l, i) < sent[l][i] + 1 /\ sent[l][i] + 1 <= lastFed[l] + 1
         /\ ResultTs(l, i) = epoch[l] + i - 1
<1>1. /\ done[l] \in Nat /\ epoch[l] \in Nat /\ Len(sent[l]) \in Nat /\ lastFed[l] \in Int
      /\ \A j \in 1 .. Len(sent[l]) : sent[l][j] \in Nat
  BY LaneFacts DEF DgInv
<1>2. i \in Nat /\ i \in 1 .. Len(sent[l])
  BY <1>1
<1>3. epoch[l] + i - 1 <= sent[l][i] /\ sent[l][i] <= lastFed[l]
  BY <1>2 DEF DgInv, AudioInv
<1>4. ResultTs(l, i) = epoch[l] + i - 1 /\ ResultTs(l, i) \in Nat
  BY <1>1, <1>2 DEF ResultTs
<1> QED
  BY SMTT(30), <1>1, <1>2, <1>3, <1>4

LEMMA InterimResult ==
  ASSUME DgInv, NEW l \in Lanes, NEW i \in Int, conn[l] = "open",
         i \in done[l] + 1 .. Len(sent[l]),
         ApplyInterim(l, sent[l][i] + 1, ResultTs(l, i)),
         UNCHANGED <<done, frame, phase, clock, conn, epoch, failed, sent, lastFed, keepAlive,
                     toSend>>
  PROVE  DgInv'
<1>1. TmInv'
  BY ResultFacts, InterimStep DEF DgInv
<1>2. finals' = finals
  BY DEF ApplyInterim
<1>3. DgTypeOK'
  BY <1>1 DEF DgInv, DgTypeOK, TmInv
<1>4. ThreadInv' /\ AudioInv'
  BY DEF DgInv, ThreadInv, AudioInv
<1>5. SpokenInv' /\ LaneInSpokenOrder'
  BY <1>2 DEF DgInv, SpokenInv, LaneInSpokenOrder
<1> QED
  BY <1>1, <1>3, <1>4, <1>5 DEF DgInv

\* A final speaks of audio behind that of the lane's earlier finals, and its
\* stamp puts it behind them.
LEMMA FinalResult ==
  ASSUME DgInv, NEW l \in Lanes, NEW i \in Int, conn[l] = "open",
         i \in done[l] + 1 .. Len(sent[l]),
         ApplyFinal(l, sent[l][i] + 1, ResultTs(l, i)), done' = [done EXCEPT ![l] = i],
         UNCHANGED <<frame, phase, clock, conn, epoch, failed, sent, lastFed, keepAlive, toSend>>
  PROVE  DgInv'
<1> DEFINE e == [lane |-> l, text |-> sent[l][i] + 1, ts |-> ResultTs(l, i)]
           k == UpperBound(finals, e.ts)
           n == Len(finals)
<1>1. /\ i \in Nat /\ i \in 1 .. Len(sent[l])
      /\ sent[l][i] + 1 \in Nat \ {0} /\ ResultTs(l, i) \in Nat
      /\ ResultTs(l, i) < sent[l][i] + 1 /\ sent[l][i] + 1 <= lastFed[l] + 1
      /\ ResultTs(l, i) = epoch[l] + i - 1
  BY ResultFacts
<1>2. TmInv'
  BY <1>1, FinalStep DEF DgInv
<1>3. /\ e \in Line /\ e.ts \in Nat
      /\ e.lane = l /\ e.text = sent[l][i] + 1 /\ e.ts = ResultTs(l, i)
  BY <1>1 DEF Line
<1>4. finals' = InsertAt(finals, k, e)
  BY <1>1, <1>3 DEF ApplyFinal
<1> HIDE DEF e
<1>5. finals \in Seq(Line) /\ Sorted(finals) /\ n \in Nat
  <2>1. finals \in Seq(Line) /\ DOMAIN finals = 1 .. Len(finals)
    BY DEF DgInv, TmInv, TmTypeOK
  <2>2. Sorted(finals)
    BY <2>1 DEF DgInv, TmInv, SortedByTime, Sorted
  <2> QED
    BY <2>1, <2>2, LineTime
<1>6. k \in 1 .. n + 1
  BY <1>3, <1>5, UpperBoundFits
<1>7. /\ Len(finals') = n + 1
      /\ \A m \in 1 .. n + 1 :
           finals'[m] = IF m < k THEN finals[m] ELSE IF m = k THEN e ELSE finals[m - 1]
  <2>1. k \in 1 .. (Len(finals) + 1) /\ finals' = InsertAt(finals, k, e)
    BY <1>4, <1>6
  <2> HIDE DEF k
  <2>2. /\ Len(InsertAt(finals, k, e)) = Len(finals) + 1
        /\ \A m \in 1 .. (Len(finals) + 1) : InsertAt(finals, k, e)[m]
             = IF m < k THEN finals[m] ELSE IF m = k THEN e ELSE finals[m - 1]
    BY SMTT(30), <1>3, <1>5, <2>1, InsertAtView
  <2> QED
    BY <2>1, <2>2
<1>8. /\ done[l] \in Nat /\ epoch[l] \in Nat /\ Len(sent[l]) \in Nat
      /\ \A j \in 1 .. Len(sent[l]) : sent[l][j] \in Nat
  BY LaneFacts DEF DgInv
<1>9. ASSUME NEW q \in 1 .. n, finals[q].lane = l
      PROVE  q < k /\ finals[q].text <= e.text /\ finals[q].ts <= epoch[l] + i
  <2>1. finals[q].ts \in Nat /\ finals[q].ts <= epoch[l] + done[l]
        /\ finals[q].text <= sent[l][i] + 1
    BY <1>9, FinalFacts DEF DgInv, SpokenInv
  <2>2. finals[q].ts <= e.ts /\ finals[q].ts <= epoch[l] + i
    <3>1. done[l] + 1 <= i
      BY <1>8
    <3>2. epoch[l] + done[l] <= epoch[l] + i - 1
      BY <1>1, <1>8, <3>1
    <3>3. e.ts = epoch[l] + i - 1
      BY <1>1, <1>3
    <3> HIDE DEF k, n
    <3> QED
      BY SMTT(30), <1>8, <2>1, <3>2, <3>3
  <2> QED
    BY <1>3, <1>5, <2>1, <2>2, InsertBehind
<1> HIDE DEF k, n
<1>10. /\ done'[l] = i
       /\ \A m \in Lanes : m # l => done'[m] = done[m]
  BY DEF DgInv, DgTypeOK
<1>11. DgTypeOK'
  <2>1. done' \in [Lanes -> Nat]
    BY <1>1 DEF DgInv, DgTypeOK
  <2> QED
    BY <1>2, <2>1 DEF DgInv, DgTypeOK, TmInv
<1>12. ThreadInv'
  BY DEF DgInv, ThreadInv
<1>13. phase # "new"
  BY DEF DgInv, ThreadInv
<1>14. AudioInv'
  <2>1. \A m \in Lanes : conn[m] = "connecting" => m # l
    OBVIOUS
  <2>2. \A m \in Lanes : conn[m] = "connecting" => sent[m] = <<>> /\ done'[m] = 0
    BY <1>10, <2>1 DEF DgInv, AudioInv
  <2> QED
    BY <1>13, <2>2 DEF DgInv, AudioInv
<1>15. DOMAIN finals' = 1 .. n + 1
  BY <1>2, <1>7 DEF TmInv, TmTypeOK
\* Every line of the new transcript is the new one or one of the old.
<1>16. ASSUME NEW m \in 1 .. n + 1
       PROVE  \/ m = k /\ finals'[m] = e
              \/ m < k /\ m \in 1 .. n /\ finals'[m] = finals[m]
              \/ k < m /\ m - 1 \in 1 .. n /\ finals'[m] = finals[m - 1]
  <2>0. n \in Nat /\ k \in 1 .. n + 1
    BY <1>5, <1>6
  <2>1. CASE m < k
    BY <1>7, <2>0, <2>1
  <2>2. CASE m = k
    BY <1>7, <2>0, <2>2
  <2>3. CASE k < m
    <3>1. ~(m < k) /\ m # k /\ m - 1 \in 1 .. n
      BY <2>0, <2>3
    <3> QED
      BY <1>7, <2>3, <3>1
  <2> QED
    BY <2>0, <2>1, <2>2, <2>3
<1>17. SpokenInv'
  <2> DEFINE Spoken(f) ==
        /\ f.ts < f.text /\ f.text <= lastFed[f.lane] + 1
        /\ conn[f.lane] = "open" => f.ts <= epoch[f.lane] + done'[f.lane]
        /\ \A j \in done'[f.lane] + 1 .. Len(sent[f.lane]) : f.text <= sent[f.lane][j] + 1
  <2>1. Spoken(e)
    <3>1. e.ts <= epoch[l] + i
      BY <1>1, <1>3, <1>8
    <3>2. ASSUME NEW j \in i + 1 .. Len(sent[l])
          PROVE  e.text <= sent[l][j] + 1
      <4>1. j \in 1 .. Len(sent[l]) /\ i \in 1 .. j - 1
        BY <1>1, <1>8
      <4>2. sent[l][i] < sent[l][j]
        BY <4>1 DEF DgInv, AudioInv
      <4> QED
        BY <1>1, <1>3, <1>8, <4>1, <4>2
    <3> QED
      BY <1>1, <1>3, <1>10, <3>1, <3>2
  <2>2. ASSUME NEW q \in 1 .. n
        PROVE  Spoken(finals[q])
    <3>0. finals[q].lane \in Lanes /\ finals[q].ts \in Nat
      BY FinalFacts DEF DgInv, n
    <3>1. /\ finals[q].ts < finals[q].text /\ finals[q].text <= lastFed[finals[q].lane] + 1
          /\ conn[finals[q].lane] = "open"
                => finals[q].ts <= epoch[finals[q].lane] + done[finals[q].lane]
          /\ \A j \in done[finals[q].lane] + 1 .. Len(sent[finals[q].lane]) :
                finals[q].text <= sent[finals[q].lane][j] + 1
      BY DEF DgInv, SpokenInv, n
    <3>2. CASE finals[q].lane = l
      <4>1. finals[q].ts <= epoch[l] + i
        BY <1>9, <3>2
      <4>2. \A j \in i + 1 .. Len(sent[l]) : j \in done[l] + 1 .. Len(sent[l])
        BY <1>1, <1>8
      <4> QED
        BY <1>10, <3>1, <3>2, <4>1, <4>2
    <3>3. CASE finals[q].lane # l
      BY <1>10, <3>0, <3>1, <3>3
    <3> QED
      BY <3>2, <3>3
  <2> HIDE DEF Spoken
  <2>3. \A m \in 1 .. n + 1 : Spoken(finals'[m])
    BY <1>16, <2>1, <2>2
  <2> QED
    BY <1>7, <2>3 DEF SpokenInv, Spoken
<1>18. LaneInSpokenOrder'
  <2>0. n \in Nat /\ k \in 1 .. n + 1
    BY <1>5, <1>6
  <2>1. \A q \in 1 .. n : \A r \in 1 .. n :
          r < q /\ finals[r].lane = finals[q].lane => finals[r].text <= finals[q].text
    <3>1. DOMAIN finals = 1 .. n
      BY <1>5 DEF n
    <3>2. \A q \in 1 .. n : \A r \in 1 .. n : r < q => r \in 1 .. q - 1
      BY <2>0
    <3> QED
      BY <3>1, <3>2 DEF DgInv, LaneInSpokenOrder
  <2>2. ASSUME NEW q \in 1 .. n + 1, NEW r \in 1 .. q - 1,
               finals'[r].lane = finals'[q].lane
        PROVE  finals'[r].text <= finals'[q].text
    <3>0. r \in 1 .. n + 1 /\ r < q
      BY <2>0
    <3>1. CASE q = k /\ finals'[q] = e
      <4>1. r < k /\ r \in 1 .. n /\ finals'[r] = finals[r]
        BY <1>16, <2>0, <3>0, <3>1
      <4> QED
        BY <1>3, <1>9, <2>2, <3>1, <4>1
    <3>2. CASE q < k /\ q \in 1 .. n /\ finals'[q] = finals[q]
      <4>1. r < k /\ r \in 1 .. n /\ finals'[r] = finals[r]
        BY <1>16, <2>0, <3>0, <3>2
      <4> QED
        BY <2>1, <2>2, <3>0, <3>2, <4>1
    <3>3. CASE k < q /\ q - 1 \in 1 .. n /\ finals'[q] = finals[q - 1]
      <4>1. finals[q - 1].lane # l
        <5>1. ~(q - 1 < k)
          BY <2>0, <3>3
        <5> QED
          BY <1>9, <3>3, <5>1
      <4>2. CASE r = k /\ finals'[r] = e
        BY <1>3, <2>2, <3>3, <4>1, <4>2
      <4>3. CASE r < k /\ r \in 1 .. n /\ finals'[r] = finals[r]
        <5>1. r < q - 1
          BY <2>0, <3>3, <4>3
        <5> QED
          BY <2>1, <2>2, <3>3, <4>3, <5>1
      <4>4. CASE k < r /\ r - 1 \in 1 .. n /\ finals'[r] = finals[r - 1]
        <5>1. r - 1 < q - 1
          BY <2>0, <3>0
        <5> QED
          BY <2>1, <2>2, <3>3, <4>4, <5>1
      <4> QED
        BY <1>16, <3>0, <4>2, <4>3, <4>4
    <3> QED
      BY <1>16, <3>1, <3>2, <3>3
  <2>3. \A q \in 1 .. n + 1 : finals'[q].ts < finals'[q].text
    BY <1>7, <1>17 DEF SpokenInv
  <2> QED
    BY <1>15, <2>2, <2>3 DEF LaneInSpokenOrder
<1> QED
  BY <1>2, <1>11, <1>12, <1>14, <1>17, <1>18 DEF DgInv

-----------------------------------------------------------------------------
(* The theorems.                                                           *)

LEMMA DgStep == DgInv /\ [DgNext]_dgVars => DgInv'
<1> SUFFICES ASSUME DgInv, [DgNext]_dgVars PROVE DgInv'
  OBVIOUS
<1>1. CASE Start \/ StopBegin \/ StopStep \/ KeepAlive \/ UNCHANGED dgVars
  BY <1>1, ControlStep
<1>2. CASE Tick
  BY <1>2, TickStep
<1>3. ASSUME NEW l \in Lanes, ConnOpens(l) \/ ConnFails(l) \/ ConnCloses(l) \/ Feed(l)
      PROVE  DgInv'
  BY <1>3, OpenStep, FailStep, CloseStep, FeedStep
<1>4. ASSUME NEW l \in Lanes, NEW i \in 1 .. MaxClock + 1, Result(l, i)
      PROVE  DgInv'
  <2>1. i \in Int
    OBVIOUS
  <2> QED
    BY <1>4, <2>1, InterimResult, FinalResult DEF Result
<1> QED
  BY <1>1, <1>2, <1>3, <1>4 DEF DgNext

\* The invariant of the engine.
THEOREM DgInvariant == DgSpec => []DgInv
BY DgInitial, DgStep, PTL DEF DgSpec

\* Every call, callback and slice of a thread keeps the types.
THEOREM DgTypeCorrect == DgSpec => []DgTypeOK
<1>1. DgInv => DgTypeOK
  BY DEF DgInv
<1> QED
  BY <1>1, DgInvariant, PTL

\* Lines of a lane stand in the order they were spoken in, across any number
\* of reconnections.
THEOREM SpokenOrder == DgSpec => []LaneInSpokenOrder
<1>1. DgInv => LaneInSpokenOrder
  BY DEF DgInv
<1> QED
  BY <1>1, DgInvariant, PTL

\* The KeepAlive thread never visits a slot that stop() has reset.
THEOREM KeepAliveSafe == DgSpec => []KeepAliveBeforeReset
<1>1. DgInv => KeepAliveBeforeReset
  BY DEF DgInv, DgTypeOK, ThreadInv, KeepAliveBeforeReset
<1> QED
  BY <1>1, DgInvariant, PTL

\* The transcript the engine reports to keeps what TranscriptModel promises.
THEOREM DgKeepsTranscript ==
  DgSpec => [](SortedByTime /\ KeepsEveryFinal /\ BaselineIsEarliest /\ CuesRunOn)
<1>1. DgInv => SortedByTime /\ KeepsEveryFinal /\ BaselineIsEarliest /\ CuesRunOn
  BY CuesOfInvariant DEF DgInv, TmInv
<1> QED
  BY <1>1, DgInvariant, PTL
=============================================================================
