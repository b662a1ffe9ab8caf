----------------------- MODULE ParakeetEngine_proof -----------------------
(***************************************************************************)
(* Proofs about the offline engine, for any lanes, thresholds, chunk sizes *)
(* and amount of audio.                                                    *)
(***************************************************************************)
EXTENDS ParakeetEngine, TranscriptModel_proof

-----------------------------------------------------------------------------
(* The inductive invariant behind the safety properties.                   *)

Closing == {"drop", "decode", "final"}

\* Who holds decodeMu_, and that the worker and the flush exclude each other.
LockInv ==
  /\ holder = Worker <=> worker \in {"check", "emit"}
  /\ \A l \in Lanes : holder = l <=> feeder[l] = "final"
  /\ main \in {"flush", "done"} => worker = "done"
  /\ main \in {"join", "flush", "done"} => interimStop

\* A generation is ahead of the finals decoded only while one is being
\* decoded, and a snapshot never is.
Sound(l, j) ==
  /\ j.utt = j.gen + 1 /\ j.gen <= decoded[l].count
  /\ j.gen = decoded[l].count => decoded[l].end <= j.from
  /\ j.from = j.ts

GenInv ==
  /\ \A l \in Lanes : gen[l] = decoded[l].count + IF feeder[l] \in Closing THEN 1 ELSE 0
  /\ \A l \in Lanes : job[l] # NoJob => Sound(l, job[l])
  /\ worker \in {"lock", "check", "emit"} =>
       wjob.job # NoJob /\ Sound(wjob.lane, wjob.job)
  /\ worker = "emit" => wjob.job.gen = decoded[wjob.lane].count

\* An open utterance starts behind the last final, and no further back than
\* the history reaches.
OpenInv ==
  \A l \in Lanes :
    /\ base[l] = IF total[l] > HistoryMax THEN total[l] - HistoryMax ELSE 0
    /\ speech[l] >= 0 => speech[l] < total[l] /\ total[l] - speech[l] <= MaxSpeech
    /\ openStart[l] >= 0 => lastFinalEnd[l] <= openStart[l]
    /\ openStart[l] >= 0 /\ segments[l] = <<>> =>
         speech[l] >= 0 /\ openStart[l] > speech[l] - Lookback
    /\ feeder[l] \in Closing => openStart[l] = -1 /\ segments[l] # <<>>
                                /\ lastFinalEnd[l] = Head(segments[l]).end
    /\ feeder[l] \notin Closing => lastFinalEnd[l] = decoded[l].end

\* Segments are pending only while the lane is drained, and once flushed a
\* lane hears nothing.
FlushInv ==
  \A l \in Lanes :
    /\ feeder[l] \in {"idle", "queue", "gone"} => segments[l] = <<>>
    /\ main = "join" => feeder[l] = "idle"
    /\ main = "done" => feeder[l] = "gone"
    /\ feeder[l] = "gone" => main \in {"flush", "done"}
    /\ feeder[l] = "queue" => main = "run"
    /\ main \in {"flush", "done"} /\ feeder[l] # "idle" => speech[l] = -1

ParakeetInv == TypeOK /\ LockInv /\ GenInv /\ OpenInv /\ FlushInv

-----------------------------------------------------------------------------
(* Helpers                                                                 *)

LEMMA Thresholds ==
  /\ Lookback \in Nat /\ FirstDelay \in Nat /\ Interval \in Nat /\ HistoryMax \in Nat
  /\ MaxSpeech \in Nat /\ MaxSegs \in Nat /\ MaxAudio \in Nat
  /\ MaxSpeech + Lookback <= HistoryMax
BY AudioAssumption, HistoryAssumption

LEMMA HeadSegment ==
  ASSUME NEW s \in Seq(Segment), s # <<>>
  PROVE  /\ Head(s) \in Segment /\ Tail(s) \in Seq(Segment)
         /\ Head(s).start \in Nat /\ Head(s).end \in Nat
<1>1. Head(s) \in Segment /\ Tail(s) \in Seq(Segment)
  BY HeadTailProperties
<1>2. \A g \in Segment : g.start \in Nat /\ g.end \in Nat
  BY Thresholds DEF Segment
<1> QED
  BY <1>1, <1>2

\* What feed() relies on of the detector's answer.
LEMMA JobTypes ==
  ASSUME NEW j \in Job \cup {NoJob}, j # NoJob
  PROVE  j \in Job /\ j.from \in Nat /\ j.ts \in Nat /\ j.gen \in Nat /\ j.utt \in Nat
BY DEF Job

\* The start of the open utterance is still in the history, and behind the
\* last final.
LEMMA OpenAtInReach ==
  ASSUME ParakeetInv, NEW l \in Lanes, feeder[l] = "queue", speech[l] >= 0
  PROVE  /\ OpenAt(l) \in Nat /\ DueAt(l) \in Nat
         /\ base[l] <= OpenAt(l) /\ lastFinalEnd[l] <= OpenAt(l)
         /\ OpenAt(l) > speech[l] - Lookback
         /\ segments[l] = <<>>
<1>1. /\ speech[l] \in Int /\ total[l] \in Nat /\ base[l] \in Nat
      /\ openStart[l] \in Nat \cup {-1} /\ lastFinalEnd[l] \in Nat /\ nextInterim[l] \in Nat
  BY Thresholds DEF ParakeetInv, TypeOK
<1>2. segments[l] = <<>>
  BY DEF ParakeetInv, FlushInv
<1>3. /\ base[l] = IF total[l] > HistoryMax THEN total[l] - HistoryMax ELSE 0
      /\ speech[l] < total[l] /\ total[l] - speech[l] <= MaxSpeech
      /\ openStart[l] >= 0 => lastFinalEnd[l] <= openStart[l]
                              /\ openStart[l] > speech[l] - Lookback
  BY <1>2 DEF ParakeetInv, OpenInv
<1>4. /\ OpenAt(l) \in Nat
      /\ lastFinalEnd[l] <= OpenAt(l) /\ OpenAt(l) > speech[l] - Lookback
  BY <1>1, <1>3, Thresholds DEF OpenAt
<1>5. base[l] <= OpenAt(l)
  BY <1>1, <1>3, <1>4, Thresholds
<1>6. DueAt(l) \in Nat
  BY <1>1, <1>4, Thresholds DEF DueAt
<1> QED
  BY <1>2, <1>4, <1>5, <1>6

-----------------------------------------------------------------------------
(* One lemma per action, one step per part of the invariant.               *)

LEMMA FeedStep ==
  ASSUME ParakeetInv, NEW l \in Lanes, Feed(l)
  PROVE  ParakeetInv'
<1>0. PICK n \in Chunks, segs \in SeqOf(Segment, MaxSegs), s \in -1..MaxAudio :
        Hear(l, n, segs, s)
  BY DEF Feed
<1>a. /\ total[l] + n <= MaxAudio
      /\ Detects(l, total[l] + n, segs, s)
      /\ total' = [total EXCEPT ![l] = total[l] + n]
      /\ base' = [base EXCEPT ![l] = HistoryStart(l, total[l] + n)]
      /\ segments' = [segments EXCEPT ![l] = segs]
      /\ speech' = [speech EXCEPT ![l] = s]
  <2>1. total[l] + n <= MaxAudio /\ Detects(l, total[l] + n, segs, s)
    BY <1>0 DEF Hear
  <2>2. total' = [total EXCEPT ![l] = total[l] + n]
    BY <1>0 DEF Hear
  <2>3. base' = [base EXCEPT ![l] = HistoryStart(l, total[l] + n)]
    BY <1>0 DEF Hear
  <2>4. segments' = [segments EXCEPT ![l] = segs] /\ speech' = [speech EXCEPT ![l] = s]
    BY <1>0 DEF Hear
  <2> QED
    BY <2>1, <2>2, <2>3, <2>4
<1>b. /\ main = "run" /\ feeder[l] = "idle" /\ feeder' = [feeder EXCEPT ![l] = "drain"]
      /\ UNCHANGED <<openStart, lastFinalEnd, nextInterim, gen, job, interimStop, holder,
                     worker, wjob, main, decoded>>
  BY DEF Feed, Goto, sharedVars
<1>c. total[l] \in Nat /\ base[l] \in Nat /\ n \in Nat /\ s \in Int
  BY Thresholds, AudioAssumption DEF ParakeetInv, TypeOK
<1>d. segs \in Seq(Segment)
  BY Thresholds DEF SeqOf
<1>1. TypeOK'
  <2>1. total' \in [Lanes -> 0..MaxAudio] /\ speech' \in [Lanes -> -1..MaxAudio]
    <3>1. total[l] + n \in 0..MaxAudio
      BY <1>a, <1>c, Thresholds
    <3> QED
      BY <1>a, <3>1 DEF ParakeetInv, TypeOK
  <2>2. base' \in [Lanes -> Nat]
    <3>1. HistoryStart(l, total[l] + n) \in Nat
      BY <1>c, Thresholds DEF HistoryStart
    <3> QED
      BY <1>a, <3>1 DEF ParakeetInv, TypeOK
  <2>3. segments' \in [Lanes -> Seq(Segment)]
    BY <1>a, <1>d DEF ParakeetInv, TypeOK
  <2> QED
    BY <1>b, <2>1, <2>2, <2>3 DEF ParakeetInv, TypeOK
<1>2. LockInv'
  BY DEF ParakeetInv, LockInv, Feed, Goto, sharedVars
<1>3. GenInv'
  BY DEF ParakeetInv, GenInv, Feed, Goto, Closing, Sound, sharedVars
<1>4. OpenInv'
  <2> SUFFICES ASSUME NEW m \in Lanes
               PROVE  /\ base'[m] = IF total'[m] > HistoryMax THEN total'[m] - HistoryMax ELSE 0
                      /\ speech'[m] >= 0 => speech'[m] < total'[m] /\ total'[m] - speech'[m] <= MaxSpeech
                      /\ openStart[m] >= 0 => lastFinalEnd[m] <= openStart[m]
                      /\ openStart[m] >= 0 /\ segments'[m] = <<>> =>
                           speech'[m] >= 0 /\ openStart[m] > speech'[m] - Lookback
                      /\ feeder'[m] \in Closing => openStart[m] = -1 /\ segments'[m] # <<>>
                                                   /\ lastFinalEnd[m] = Head(segments'[m]).end
                      /\ feeder'[m] \notin Closing => lastFinalEnd[m] = decoded[m].end
    BY <1>b DEF OpenInv
  <2>1. CASE m # l
    <3>1. /\ base'[m] = base[m] /\ total'[m] = total[m] /\ speech'[m] = speech[m]
          /\ segments'[m] = segments[m] /\ feeder'[m] = feeder[m]
      BY <1>a, <1>b, <2>1 DEF ParakeetInv, TypeOK
    <3> QED
      BY <3>1 DEF ParakeetInv, OpenInv
  <2>2. CASE m = l
    <3>1. /\ total'[l] = total[l] + n /\ speech'[l] = s /\ segments'[l] = segs
          /\ feeder'[l] = "drain"
          /\ base'[l] = HistoryStart(l, total[l] + n)
      BY <1>a, <1>b DEF ParakeetInv, TypeOK
    <3>2. /\ base[l] = IF total[l] > HistoryMax THEN total[l] - HistoryMax ELSE 0
          /\ openStart[l] >= 0 => lastFinalEnd[l] <= openStart[l]
          /\ openStart[l] >= 0 => speech[l] >= 0 /\ openStart[l] > speech[l] - Lookback
          /\ lastFinalEnd[l] = decoded[l].end
      BY <1>b DEF ParakeetInv, OpenInv, FlushInv, Closing
    <3>3. base'[l] = IF total'[l] > HistoryMax THEN total'[l] - HistoryMax ELSE 0
      BY <1>c, <3>1, <3>2, Thresholds DEF HistoryStart
    <3>4. /\ speech[l] >= 0 /\ segs = <<>> => s = speech[l]
          /\ Opens(s, total[l] + n)
      <4> DEFINE now == total[l] + n
      <4>1. Detects(l, now, segs, s)
        BY <1>a
      <4> HIDE DEF now
      <4>2. speech[l] >= 0 => IF segs = <<>> THEN s = speech[l] ELSE segs[1].start = speech[l]
        BY ONLY <4>1, Zenon DEF Detects
      <4>3. Opens(s, now)
        BY ONLY <4>1, Zenon DEF Detects
      <4> QED
        BY <4>2, <4>3, Zenon DEF now
    <3>5. feeder'[l] \notin Closing
      BY <3>1 DEF Closing
    <3>6. /\ speech'[l] >= 0 => speech'[l] < total'[l] /\ total'[l] - speech'[l] <= MaxSpeech
          /\ openStart[l] >= 0 /\ segments'[l] = <<>> =>
               speech'[l] >= 0 /\ openStart[l] > speech'[l] - Lookback
      <4>a. openStart[l] \in Nat \cup {-1} /\ speech[l] \in -1..MaxAudio
        BY DEF ParakeetInv, TypeOK
      <4>1. openStart[l] \in Int /\ speech[l] \in Int
        BY <4>a, Thresholds
      <4> QED
        BY <1>c, <3>1, <3>2, <3>4, <4>1 DEF Opens
    <3> QED
      BY <2>2, <3>2, <3>3, <3>5, <3>6
  <2> QED
    BY <2>1, <2>2
<1>5. FlushInv'
  BY <1>a, <1>b DEF ParakeetInv, TypeOK, FlushInv
<1> QED
  BY <1>1, <1>2, <1>3, <1>4, <1>5 DEF ParakeetInv

LEMMA BumpStep ==
  ASSUME ParakeetInv, NEW l \in Lanes, Bump(l)
  PROVE  ParakeetInv'
<1>a. segments[l] \in Seq(Segment) /\ segments[l] # <<>> /\ Head(segments[l]).end \in Nat
  BY HeadSegment DEF Bump, ParakeetInv, TypeOK
<1>1. TypeOK'
  <2>1. gen[l] + 1 \in Nat
    <3>1. gen[l] \in Nat
      BY DEF ParakeetInv, TypeOK
    <3> QED
      BY <3>1
  <2> QED
    BY <1>a, <2>1 DEF ParakeetInv, TypeOK, Bump, Goto, vadVars
<1>2. LockInv'
  BY DEF ParakeetInv, LockInv, Bump, Goto
<1>3. GenInv'
  <2>1. \A m \in Lanes : gen'[m] = decoded[m].count + IF feeder'[m] \in Closing THEN 1 ELSE 0
    <3>1. decoded[l].count \in Nat
      BY DEF ParakeetInv, TypeOK
    <3>a. gen[l] = decoded[l].count + IF feeder[l] \in Closing THEN 1 ELSE 0
      BY DEF ParakeetInv, GenInv
    <3>b. feeder[l] \notin Closing
      BY DEF Bump, Closing
    <3>2. gen'[l] = gen[l] + 1 /\ feeder'[l] = "drop"
      BY DEF ParakeetInv, TypeOK, Bump, Goto
    <3>3. \A m \in Lanes : m # l => gen'[m] = gen[m] /\ feeder'[m] = feeder[m]
      BY DEF ParakeetInv, TypeOK, Bump, Goto
    <3> QED
      BY <3>1, <3>a, <3>b, <3>2, <3>3 DEF ParakeetInv, GenInv, Closing
  <2>2. UNCHANGED <<job, worker, wjob, decoded>>
    BY DEF Bump
  <2> QED
    BY <2>1, <2>2 DEF ParakeetInv, GenInv, Sound
<1>4. OpenInv'
  <2>1. /\ openStart'[l] = -1 /\ lastFinalEnd'[l] = Head(segments[l]).end
        /\ feeder'[l] = "drop"
        /\ \A m \in Lanes : m # l => /\ openStart'[m] = openStart[m]
                                     /\ lastFinalEnd'[m] = lastFinalEnd[m]
                                     /\ feeder'[m] = feeder[m]
        /\ UNCHANGED <<base, total, speech, segments, decoded>>
    BY DEF ParakeetInv, TypeOK, Bump, Goto, vadVars
  <2> QED
    BY <1>a, <2>1 DEF ParakeetInv, OpenInv, Closing
<1>5. FlushInv'
  BY DEF ParakeetInv, FlushInv, Bump, Goto, vadVars
<1> QED
  BY <1>1, <1>2, <1>3, <1>4, <1>5 DEF ParakeetInv

LEMMA DropJobStep ==
  ASSUME ParakeetInv, NEW l \in Lanes, DropJob(l)
  PROVE  ParakeetInv'
<1>1. TypeOK'
  BY DEF ParakeetInv, TypeOK, DropJob, Goto, Job, NoJob, Free, Worker, vadVars, laneVars
<1>2. LockInv'
  BY DEF ParakeetInv, LockInv, DropJob, Goto
<1>3. GenInv'
  BY DEF ParakeetInv, TypeOK, GenInv, DropJob, Goto, Closing, Sound, NoJob
<1>4. OpenInv'
  <2>1. /\ UNCHANGED <<base, total, speech, segments, openStart, lastFinalEnd, decoded>>
        /\ \A m \in Lanes : feeder'[m] \in Closing <=> feeder[m] \in Closing
    BY DEF ParakeetInv, TypeOK, DropJob, Goto, Closing, vadVars, laneVars
  <2> QED
    BY <2>1 DEF ParakeetInv, OpenInv
<1>5. FlushInv'
  BY DEF ParakeetInv, FlushInv, DropJob, Goto, vadVars
<1> QED
  BY <1>1, <1>2, <1>3, <1>4, <1>5 DEF ParakeetInv

LEMMA LockFinalStep ==
  ASSUME ParakeetInv, NEW l \in Lanes, LockFinal(l)
  PROVE  ParakeetInv'
<1>1. TypeOK'
  BY DEF ParakeetInv, TypeOK, LockFinal, Goto, vadVars, laneVars
<1>2. LockInv'
  <2>1. holder = Free /\ l \in Nat /\ \A m \in Lanes : m \in Nat
    BY LaneAssumption DEF LockFinal
  <2>2. holder # Worker /\ \A m \in Lanes : holder # m
    BY <2>1 DEF Free, Worker
  <2>3. worker \notin {"check", "emit"} /\ \A m \in Lanes : feeder[m] # "final"
    BY <2>2 DEF ParakeetInv, LockInv
  <2>4. /\ holder' = l /\ feeder' = [feeder EXCEPT ![l] = "final"]
        /\ UNCHANGED <<worker, main, interimStop>>
    BY DEF LockFinal, Goto
  <2>5. l # Worker
    BY <2>1 DEF Worker
  <2>6. \A m \in Lanes : feeder'[m] = "final" <=> m = l
    BY <2>3, <2>4 DEF ParakeetInv, TypeOK
  <2> QED
    BY <2>3, <2>4, <2>5, <2>6 DEF ParakeetInv, LockInv
<1>3. GenInv'
  BY DEF ParakeetInv, GenInv, LockFinal, Goto, Closing, Sound
<1>4. OpenInv'
  <2>1. /\ UNCHANGED <<base, total, speech, segments, openStart, lastFinalEnd, decoded>>
        /\ \A m \in Lanes : feeder'[m] \in Closing <=> feeder[m] \in Closing
    BY DEF ParakeetInv, TypeOK, LockFinal, Goto, Closing, vadVars, laneVars
  <2> QED
    BY <2>1 DEF ParakeetInv, OpenInv
<1>5. FlushInv'
  BY DEF ParakeetInv, FlushInv, LockFinal, Goto, vadVars
<1> QED
  BY <1>1, <1>2, <1>3, <1>4, <1>5 DEF ParakeetInv

LEMMA EmitFinalStep ==
  ASSUME ParakeetInv, NEW l \in Lanes, EmitFinal(l)
  PROVE  ParakeetInv'
<1>a. segments[l] \in Seq(Segment) /\ segments[l] # <<>>
  BY DEF EmitFinal, ParakeetInv, TypeOK, OpenInv, Closing
<1>b. Tail(segments[l]) \in Seq(Segment) /\ Head(segments[l]).end \in Nat
  BY <1>a, HeadSegment
<1>c. /\ feeder[l] = "final" /\ feeder' = [feeder EXCEPT ![l] = "drain"]
      /\ decoded' = [decoded EXCEPT ![l] =
           [count |-> decoded[l].count + 1, end |-> Head(segments[l]).end]]
      /\ segments' = [segments EXCEPT ![l] = Tail(segments[l])]
      /\ holder' = Free
      /\ UNCHANGED <<speech, total, base, openStart, lastFinalEnd, nextInterim, gen, job,
                     interimStop, worker, wjob, main>>
  BY DEF EmitFinal, Goto, laneVars, ParakeetInv, TypeOK
<1>1. TypeOK'
  <2>1. [count |-> decoded[l].count + 1, end |-> Head(segments[l]).end]
          \in [count : Nat, end : Nat]
    <3>1. decoded[l].count \in Nat
      BY DEF ParakeetInv, TypeOK
    <3> QED
      BY <1>b, <3>1
  <2> QED
    BY <1>b, <1>c, <2>1 DEF ParakeetInv, TypeOK
<1>2. LockInv'
  <2>1. holder = l /\ l \in Nat /\ \A m \in Lanes : m \in Nat
    BY <1>c, LaneAssumption DEF ParakeetInv, LockInv
  <2>2. worker \notin {"check", "emit"}
    BY <2>1 DEF ParakeetInv, LockInv, Worker
  <2>3. \A m \in Lanes : feeder'[m] # "final"
    BY <1>c, <2>1 DEF ParakeetInv, TypeOK, LockInv
  <2>4. holder' # Worker /\ \A m \in Lanes : holder' # m
    BY <1>c, <2>1 DEF Free, Worker
  <2> QED
    BY <1>c, <2>2, <2>3, <2>4 DEF ParakeetInv, LockInv
<1>3. GenInv'
  <2>1. gen[l] = decoded[l].count + 1 /\ decoded[l].count \in Nat
    BY <1>c DEF ParakeetInv, TypeOK, GenInv, Closing
  <2>2. /\ decoded'[l].count = decoded[l].count + 1 /\ feeder'[l] = "drain"
        /\ \A m \in Lanes : m # l => decoded'[m] = decoded[m] /\ feeder'[m] = feeder[m]
    BY <1>c DEF ParakeetInv, TypeOK
  <2>3. \A m \in Lanes, j \in Job \cup {NoJob} :
          j # NoJob /\ Sound(m, j) => Sound(m, j)'
    <3> SUFFICES ASSUME NEW m \in Lanes, NEW j \in Job \cup {NoJob}, j # NoJob, Sound(m, j)
                 PROVE  Sound(m, j)'
      OBVIOUS
    <3>1. j.gen \in Nat
      BY JobTypes
    <3> QED
      BY <2>1, <2>2, <3>1 DEF Sound
  <2>4. worker \notin {"check", "emit"}
    BY <1>c, LaneAssumption DEF ParakeetInv, LockInv, Worker
  <2>5. job \in [Lanes -> Job \cup {NoJob}] /\ wjob.job \in Job \cup {NoJob} /\ wjob.lane \in Lanes
    BY DEF ParakeetInv, TypeOK
  <2>6. \A m \in Lanes : gen[m] = decoded'[m].count + IF feeder'[m] \in Closing THEN 1 ELSE 0
    BY <2>1, <2>2 DEF ParakeetInv, GenInv, Closing
  <2>7. \A m \in Lanes : job[m] # NoJob => Sound(m, job[m])'
    BY <1>c, <2>3, <2>5 DEF ParakeetInv, GenInv, Sound
  <2>8. worker = "lock" => wjob.job # NoJob /\ Sound(wjob.lane, wjob.job)'
    BY <1>c, <2>3, <2>5 DEF ParakeetInv, GenInv, Sound
  <2> QED
    BY <1>c, <2>4, <2>6, <2>7, <2>8 DEF GenInv, Sound
<1>4. OpenInv'
  <2>1. /\ segments'[l] = Tail(segments[l]) /\ feeder'[l] = "drain"
        /\ decoded'[l].end = Head(segments[l]).end
        /\ \A m \in Lanes : m # l => /\ segments'[m] = segments[m] /\ feeder'[m] = feeder[m]
                                     /\ decoded'[m] = decoded[m]
    BY <1>c DEF ParakeetInv, TypeOK
  <2>2. openStart[l] = -1 /\ lastFinalEnd[l] = Head(segments[l]).end
    BY <1>c DEF ParakeetInv, OpenInv, Closing
  <2> QED
    BY <1>c, <2>1, <2>2 DEF ParakeetInv, OpenInv, Closing
<1>5. FlushInv'
  BY <1>c DEF ParakeetInv, TypeOK, FlushInv
<1> QED
  BY <1>1, <1>2, <1>3, <1>4, <1>5 DEF ParakeetInv

LEMMA DrainDoneStep ==
  ASSUME ParakeetInv, NEW l \in Lanes, DrainDone(l)
  PROVE  ParakeetInv'
<1>1. TypeOK'
  BY DEF ParakeetInv, TypeOK, DrainDone, Goto, Job, Segment, Free, Worker, vadVars,
       laneVars, sharedVars, tmVars, modelVars
<1>2. LockInv'
  BY DEF ParakeetInv, LockInv, DrainDone, Goto, sharedVars
<1>3. GenInv'
  BY LaneAssumption DEF ParakeetInv, GenInv, DrainDone, Goto, Closing, Sound, sharedVars
<1>4. OpenInv'
  BY DEF ParakeetInv, TypeOK, OpenInv, DrainDone, Goto, Closing, vadVars, laneVars
<1>5. FlushInv'
  BY DEF ParakeetInv, TypeOK, FlushInv, DrainDone, Goto, vadVars
<1> QED
  BY <1>1, <1>2, <1>3, <1>4, <1>5 DEF ParakeetInv

LEMMA QuietStep ==
  ASSUME ParakeetInv, NEW l \in Lanes, Quiet(l)
  PROVE  ParakeetInv'
<1>1. TypeOK'
  BY DEF ParakeetInv, TypeOK, Quiet, Goto, vadVars, laneVars, sharedVars
<1>2. LockInv'
  BY DEF ParakeetInv, LockInv, Quiet, Goto, sharedVars
<1>3. GenInv'
  BY DEF ParakeetInv, GenInv, Quiet, Goto, Closing, Sound, sharedVars
<1>4. OpenInv'
  BY DEF ParakeetInv, TypeOK, OpenInv, Quiet, Goto, Closing, vadVars, laneVars
<1>5. FlushInv'
  BY DEF ParakeetInv, FlushInv, Quiet, Goto, vadVars
<1> QED
  BY <1>1, <1>2, <1>3, <1>4, <1>5 DEF ParakeetInv

LEMMA NotDueStep ==
  ASSUME ParakeetInv, NEW l \in Lanes, NotDue(l)
  PROVE  ParakeetInv'
<1>a. /\ OpenAt(l) \in Nat /\ DueAt(l) \in Nat
      /\ base[l] <= OpenAt(l) /\ lastFinalEnd[l] <= OpenAt(l)
      /\ OpenAt(l) > speech[l] - Lookback
      /\ speech[l] >= 0 /\ feeder[l] = "queue"
  BY OpenAtInReach DEF NotDue
<1>1. TypeOK'
  BY <1>a DEF ParakeetInv, TypeOK, NotDue, Goto, vadVars, sharedVars
<1>2. LockInv'
  BY DEF ParakeetInv, LockInv, NotDue, Goto, sharedVars
<1>3. GenInv'
  BY DEF ParakeetInv, GenInv, NotDue, Goto, Closing, Sound, sharedVars
<1>4. OpenInv'
  <2>1. /\ openStart'[l] = OpenAt(l) /\ feeder'[l] = "idle"
        /\ \A m \in Lanes : m # l => openStart'[m] = openStart[m] /\ feeder'[m] = feeder[m]
        /\ UNCHANGED <<speech, segments, total, base, lastFinalEnd, decoded>>
    BY DEF ParakeetInv, TypeOK, NotDue, Goto, vadVars
  <2> QED
    BY <1>a, <2>1 DEF ParakeetInv, OpenInv, Closing
<1>5. FlushInv'
  BY DEF ParakeetInv, FlushInv, NotDue, Goto, vadVars
<1> QED
  BY <1>1, <1>2, <1>3, <1>4, <1>5 DEF ParakeetInv

LEMMA QueueStep ==
  ASSUME ParakeetInv, NEW l \in Lanes, Queue(l)
  PROVE  ParakeetInv'
<1>a. /\ OpenAt(l) \in Nat /\ DueAt(l) \in Nat
      /\ base[l] <= OpenAt(l) /\ lastFinalEnd[l] <= OpenAt(l)
      /\ OpenAt(l) > speech[l] - Lookback
      /\ speech[l] >= 0 /\ feeder[l] = "queue"
  BY OpenAtInReach DEF Queue
<1>b. /\ gen[l] \in Nat /\ total[l] \in Nat /\ base[l] \in Nat /\ decoded[l].count \in Nat
      /\ gen[l] = decoded[l].count /\ lastFinalEnd[l] = decoded[l].end
  <2>1. /\ gen[l] \in Nat /\ total[l] \in Nat /\ base[l] \in Nat
        /\ decoded[l].count \in Nat
    BY Thresholds DEF ParakeetInv, TypeOK
  <2>2. feeder[l] \notin Closing
    BY <1>a DEF Closing
  <2>3. /\ gen[l] = decoded[l].count + IF feeder[l] \in Closing THEN 1 ELSE 0
        /\ feeder[l] \notin Closing => lastFinalEnd[l] = decoded[l].end
    BY DEF ParakeetInv, GenInv, OpenInv
  <2> QED
    BY <2>1, <2>2, <2>3
<1> DEFINE j == [from |-> OpenAt(l), ts |-> OpenAt(l), gen |-> gen[l],
                 utt |-> decoded[l].count + 1]
<1>c. job' = job \/ job' = [job EXCEPT ![l] = j]
  <2>1. (IF OpenAt(l) > base[l] THEN OpenAt(l) ELSE base[l]) = OpenAt(l)
    BY <1>a, <1>b
  <2> QED
    BY <2>1 DEF Queue
<1>d. j \in Job /\ Sound(l, j)
  BY <1>a, <1>b DEF Job, Sound
<1>1. TypeOK'
  <2>1. job' \in [Lanes -> Job \cup {NoJob}]
    <3> HIDE DEF j
    <3>1. job \in [Lanes -> Job \cup {NoJob}]
      BY DEF ParakeetInv, TypeOK
    <3>2. j \in Job \cup {NoJob}
      BY <1>d
    <3> QED
      BY <1>c, <3>1, <3>2
  <2>2. total[l] + Interval \in Nat
    BY <1>b, Thresholds
  <2> QED
    BY <1>a, <2>1, <2>2 DEF ParakeetInv, TypeOK, Queue, Goto, vadVars
<1>2. LockInv'
  BY DEF ParakeetInv, LockInv, Queue, Goto
<1>3. GenInv'
  <2>1. /\ feeder'[l] = "idle" /\ \A m \in Lanes : m # l => feeder'[m] = feeder[m]
        /\ UNCHANGED <<gen, worker, wjob, decoded>>
    BY DEF ParakeetInv, TypeOK, Queue, Goto
  <2>2. \A m \in Lanes : job'[m] # NoJob => Sound(m, job'[m])
    <3> HIDE DEF j
    <3>1. /\ job \in [Lanes -> Job \cup {NoJob}]
          /\ \A m \in Lanes : job[m] # NoJob => Sound(m, job[m])
      BY DEF ParakeetInv, TypeOK, GenInv
    <3>2. CASE job' = job
      BY <3>1, <3>2
    <3>3. CASE job' = [job EXCEPT ![l] = j]
      BY <1>d, <3>1, <3>3
    <3> QED
      BY <1>c, <3>2, <3>3
  <2>3. \A m \in Lanes : gen[m] = decoded[m].count + IF feeder'[m] \in Closing THEN 1 ELSE 0
    BY <1>a, <2>1 DEF ParakeetInv, GenInv, Closing
  <2> QED
    BY <2>1, <2>2, <2>3 DEF ParakeetInv, GenInv, Sound
<1>4. OpenInv'
  <2>1. /\ openStart'[l] = OpenAt(l) /\ feeder'[l] = "idle"
        /\ \A m \in Lanes : m # l => openStart'[m] = openStart[m] /\ feeder'[m] = feeder[m]
        /\ UNCHANGED <<speech, segments, total, base, lastFinalEnd, decoded>>
    BY DEF ParakeetInv, TypeOK, Queue, Goto, vadVars
  <2> QED
    BY <1>a, <2>1 DEF ParakeetInv, OpenInv, Closing
<1>5. FlushInv'
  BY DEF ParakeetInv, FlushInv, Queue, Goto, vadVars
<1> QED
  BY <1>1, <1>2, <1>3, <1>4, <1>5 DEF ParakeetInv

LEMMA WorkerPickStep ==
  ASSUME ParakeetInv, WorkerPick
  PROVE  ParakeetInv'
<1>a. PICK l \in Lanes : /\ job[l] # NoJob
                        /\ wjob' = [lane |-> l, job |-> job[l]]
                        /\ job' = [job EXCEPT ![l] = NoJob]
  BY DEF WorkerPick
<1>1. TypeOK'
  <2>1. job[l] \in Job \cup {NoJob}
    BY DEF ParakeetInv, TypeOK
  <2>2. wjob' \in [lane : Lanes, job : Job \cup {NoJob}]
    BY <1>a, <2>1
  <2>3. job' \in [Lanes -> Job \cup {NoJob}]
    BY <1>a DEF ParakeetInv, TypeOK
  <2> QED
    BY <2>2, <2>3 DEF ParakeetInv, TypeOK, WorkerPick, vadVars, laneVars
<1>2. LockInv'
  BY DEF ParakeetInv, LockInv, WorkerPick
<1>3. GenInv'
  <2>1. job[l] # NoJob /\ Sound(l, job[l])
    BY <1>a DEF ParakeetInv, GenInv
  <2>2. /\ wjob'.lane = l /\ wjob'.job = job[l] /\ worker' = "lock"
        /\ UNCHANGED <<gen, feeder, decoded>>
    BY <1>a DEF WorkerPick
  <2>3. \A m \in Lanes : job'[m] # NoJob => job'[m] = job[m]
    BY <1>a DEF ParakeetInv, TypeOK
  <2> QED
    BY <2>1, <2>2, <2>3 DEF ParakeetInv, GenInv, Sound
<1>4. OpenInv'
  BY DEF ParakeetInv, OpenInv, WorkerPick, vadVars, laneVars
<1>5. FlushInv'
  BY DEF ParakeetInv, FlushInv, WorkerPick, vadVars
<1> QED
  BY <1>1, <1>2, <1>3, <1>4, <1>5 DEF ParakeetInv

LEMMA WorkerExitStep ==
  ASSUME ParakeetInv, WorkerExit
  PROVE  ParakeetInv'
<1>1. TypeOK'
  BY DEF ParakeetInv, TypeOK, WorkerExit, vadVars, laneVars, sharedVars
<1>2. LockInv'
  BY DEF ParakeetInv, LockInv, WorkerExit, sharedVars
<1>3. GenInv'
  BY DEF ParakeetInv, GenInv, WorkerExit, Sound, sharedVars
<1>4. OpenInv'
  BY DEF ParakeetInv, OpenInv, WorkerExit, vadVars, laneVars
<1>5. FlushInv'
  BY DEF ParakeetInv, FlushInv, WorkerExit, vadVars
<1> QED
  BY <1>1, <1>2, <1>3, <1>4, <1>5 DEF ParakeetInv

LEMMA WorkerLockStep ==
  ASSUME ParakeetInv, WorkerLock
  PROVE  ParakeetInv'
<1>1. TypeOK'
  BY DEF ParakeetInv, TypeOK, WorkerLock, vadVars, laneVars
<1>2. LockInv'
  BY LaneAssumption DEF ParakeetInv, LockInv, WorkerLock, Free, Worker
<1>3. GenInv'
  BY DEF ParakeetInv, GenInv, WorkerLock, Sound
<1>4. OpenInv'
  BY DEF ParakeetInv, OpenInv, WorkerLock, vadVars, laneVars
<1>5. FlushInv'
  BY DEF ParakeetInv, FlushInv, WorkerLock, vadVars
<1> QED
  BY <1>1, <1>2, <1>3, <1>4, <1>5 DEF ParakeetInv

LEMMA WorkerSkipStep ==
  ASSUME ParakeetInv, WorkerSkip
  PROVE  ParakeetInv'
<1>1. TypeOK'
  BY DEF ParakeetInv, TypeOK, WorkerSkip, vadVars, laneVars
<1>2. LockInv'
  BY LaneAssumption DEF ParakeetInv, LockInv, WorkerSkip, Free, Worker
<1>3. GenInv'
  BY DEF ParakeetInv, GenInv, WorkerSkip, Sound
<1>4. OpenInv'
  BY DEF ParakeetInv, OpenInv, WorkerSkip, vadVars, laneVars
<1>5. FlushInv'
  BY DEF ParakeetInv, FlushInv, WorkerSkip, vadVars
<1> QED
  BY <1>1, <1>2, <1>3, <1>4, <1>5 DEF ParakeetInv

LEMMA WorkerCheckStep ==
  ASSUME ParakeetInv, WorkerCheck
  PROVE  ParakeetInv'
<1>1. TypeOK'
  BY DEF ParakeetInv, TypeOK, WorkerCheck, vadVars, laneVars, sharedVars
<1>2. LockInv'
  BY DEF ParakeetInv, LockInv, WorkerCheck, sharedVars
<1>3. GenInv'
  <2>1. wjob.lane \in Lanes /\ wjob.job \in Job \cup {NoJob} /\ wjob.job # NoJob
    BY DEF ParakeetInv, TypeOK, GenInv, WorkerCheck
  <2>2. wjob.job.gen \in Nat
    BY <2>1, JobTypes
  <2>3. /\ decoded[wjob.lane].count \in Nat
        /\ wjob.job.gen <= decoded[wjob.lane].count
        /\ gen[wjob.lane] = wjob.job.gen
    BY <2>1 DEF ParakeetInv, TypeOK, GenInv, Sound, WorkerCheck
  <2>4. decoded[wjob.lane].count <= gen[wjob.lane]
    BY <2>1, <2>3 DEF ParakeetInv, GenInv
  <2>5. wjob.job.gen = decoded[wjob.lane].count
    BY <2>2, <2>3, <2>4
  <2> QED
    BY <2>5 DEF ParakeetInv, GenInv, Sound, WorkerCheck, sharedVars
<1>4. OpenInv'
  BY DEF ParakeetInv, OpenInv, WorkerCheck, vadVars, laneVars
<1>5. FlushInv'
  BY DEF ParakeetInv, FlushInv, WorkerCheck, vadVars
<1> QED
  BY <1>1, <1>2, <1>3, <1>4, <1>5 DEF ParakeetInv

LEMMA WorkerEmitStep ==
  ASSUME ParakeetInv, WorkerEmit
  PROVE  ParakeetInv'
<1>1. TypeOK'
  BY DEF ParakeetInv, TypeOK, WorkerEmit, vadVars, laneVars
<1>2. LockInv'
  BY LaneAssumption DEF ParakeetInv, LockInv, WorkerEmit, Free, Worker
<1>3. GenInv'
  BY DEF ParakeetInv, GenInv, WorkerEmit, Sound
<1>4. OpenInv'
  BY DEF ParakeetInv, OpenInv, WorkerEmit, vadVars, laneVars
<1>5. FlushInv'
  BY DEF ParakeetInv, FlushInv, WorkerEmit, vadVars
<1> QED
  BY <1>1, <1>2, <1>3, <1>4, <1>5 DEF ParakeetInv

LEMMA StopBeginStep ==
  ASSUME ParakeetInv, StopBegin
  PROVE  ParakeetInv'
<1>1. TypeOK'
  BY DEF ParakeetInv, TypeOK, StopBegin, vadVars, laneVars
<1>2. LockInv'
  BY DEF ParakeetInv, LockInv, StopBegin
<1>3. GenInv'
  BY DEF ParakeetInv, GenInv, StopBegin, Sound
<1>4. OpenInv'
  BY DEF ParakeetInv, OpenInv, StopBegin, vadVars, laneVars
<1>5. FlushInv'
  BY DEF ParakeetInv, FlushInv, StopBegin, vadVars
<1> QED
  BY <1>1, <1>2, <1>3, <1>4, <1>5 DEF ParakeetInv

LEMMA StopJoinStep ==
  ASSUME ParakeetInv, StopJoin
  PROVE  ParakeetInv'
<1>1. TypeOK'
  BY DEF ParakeetInv, TypeOK, StopJoin, vadVars, laneVars, sharedVars
<1>2. LockInv'
  BY DEF ParakeetInv, LockInv, StopJoin, sharedVars
<1>3. GenInv'
  BY DEF ParakeetInv, GenInv, StopJoin, Sound, sharedVars
<1>4. OpenInv'
  BY DEF ParakeetInv, OpenInv, StopJoin, vadVars, laneVars
<1>5. FlushInv'
  BY DEF ParakeetInv, FlushInv, StopJoin, vadVars
<1> QED
  BY <1>1, <1>2, <1>3, <1>4, <1>5 DEF ParakeetInv

LEMMA FlushStep ==
  ASSUME ParakeetInv, NEW l \in Lanes, Flush(l)
  PROVE  ParakeetInv'
<1>a. /\ speech[l] \in -1..MaxAudio /\ total[l] \in 0..MaxAudio
      /\ feeder[l] = "idle" /\ main = "flush"
  BY DEF ParakeetInv, TypeOK, Flush
<1>b. /\ segments[l] = <<>>
      /\ speech[l] >= 0 => speech[l] < total[l]
      /\ openStart[l] >= 0 => speech[l] >= 0
  BY <1>a DEF ParakeetInv, FlushInv, OpenInv
<1>c. /\ speech' = [speech EXCEPT ![l] = -1]
      /\ segments' = [segments EXCEPT ![l] =
           IF speech[l] < 0 THEN <<>> ELSE <<[start |-> speech[l], end |-> total[l]]>>]
      /\ feeder' = [feeder EXCEPT ![l] = "drain"]
      /\ UNCHANGED <<total, base, openStart, lastFinalEnd, nextInterim, decoded>>
  BY DEF Flush, Goto, laneVars
<1>1. TypeOK'
  <2>1. speech[l] >= 0 => [start |-> speech[l], end |-> total[l]] \in Segment
    BY <1>a, <1>b, Thresholds DEF Segment
  <2>2. segments' \in [Lanes -> Seq(Segment)]
    <3>1. <<[start |-> speech[l], end |-> total[l]]>> \in Seq(Segment) \/ speech[l] < 0
      BY <1>a, <2>1
    <3>2. (IF speech[l] < 0 THEN <<>> ELSE <<[start |-> speech[l], end |-> total[l]]>>)
             \in Seq(Segment)
      BY <3>1
    <3>3. segments \in [Lanes -> Seq(Segment)]
      BY DEF ParakeetInv, TypeOK
    <3> QED
      BY <1>c, <3>2, <3>3
  <2>3. speech' \in [Lanes -> -1..MaxAudio]
    BY <1>c, Thresholds DEF ParakeetInv, TypeOK
  <2> QED
    BY <1>c, <2>2, <2>3 DEF ParakeetInv, TypeOK, Flush, sharedVars
<1>2. LockInv'
  BY DEF ParakeetInv, LockInv, Flush, Goto, sharedVars
<1>3. GenInv'
  BY DEF ParakeetInv, GenInv, Flush, Goto, Closing, Sound, sharedVars
<1>4. OpenInv'
  <2>1. /\ speech'[l] = -1 /\ feeder'[l] = "drain"
        /\ segments'[l] = IF speech[l] < 0 THEN <<>> ELSE <<[start |-> speech[l], end |-> total[l]]>>
        /\ \A m \in Lanes : m # l => /\ speech'[m] = speech[m] /\ segments'[m] = segments[m]
                                     /\ feeder'[m] = feeder[m]
    BY <1>c DEF ParakeetInv, TypeOK
  <2>2. openStart[l] >= 0 => segments'[l] # <<>>
    BY <1>a, <1>b, <2>1
  <2>3. lastFinalEnd[l] = decoded[l].end
    BY <1>a DEF ParakeetInv, OpenInv, Closing
  <2> QED
    BY <1>c, <2>1, <2>2, <2>3 DEF ParakeetInv, OpenInv, Closing
<1>5. FlushInv'
  BY DEF ParakeetInv, TypeOK, FlushInv, Flush, Goto
<1> QED
  BY <1>1, <1>2, <1>3, <1>4, <1>5 DEF ParakeetInv

LEMMA StopEndStep ==
  ASSUME ParakeetInv, StopEnd
  PROVE  ParakeetInv'
<1>1. TypeOK'
  BY DEF ParakeetInv, TypeOK, StopEnd, vadVars, laneVars, sharedVars
<1>2. LockInv'
  BY DEF ParakeetInv, LockInv, StopEnd, sharedVars
<1>3. GenInv'
  BY DEF ParakeetInv, GenInv, StopEnd, Sound, sharedVars
<1>4. OpenInv'
  BY DEF ParakeetInv, OpenInv, StopEnd, vadVars, laneVars
<1>5. FlushInv'
  BY DEF ParakeetInv, FlushInv, StopEnd, vadVars
<1> QED
  BY <1>1, <1>2, <1>3, <1>4, <1>5 DEF ParakeetInv

-----------------------------------------------------------------------------
(* The invariant of the engine.                                            *)

LEMMA Initial == Init => ParakeetInv
<1> SUFFICES ASSUME Init PROVE ParakeetInv
  OBVIOUS
<1>1. (CHOOSE l \in Lanes : TRUE) \in Lanes
  BY LaneAssumption
<1>2. TypeOK
  <2>1. /\ speech \in [Lanes -> -1..MaxAudio] /\ total \in [Lanes -> 0..MaxAudio]
        /\ base \in [Lanes -> Nat] /\ openStart \in [Lanes -> Nat \cup {-1}]
        /\ lastFinalEnd \in [Lanes -> Nat] /\ nextInterim \in [Lanes -> Nat]
    BY Thresholds DEF Init
  <2>2. segments \in [Lanes -> Seq(Segment)]
    BY DEF Init
  <2>3. gen \in [Lanes -> Nat] /\ job \in [Lanes -> Job \cup {NoJob}]
    BY DEF Init
  <2>4. wjob \in [lane : Lanes, job : Job \cup {NoJob}]
    BY <1>1 DEF Init
  <2>5. decoded \in [Lanes -> [count : Nat, end : Nat]]
    BY DEF Init
  <2>6. /\ interimStop \in BOOLEAN /\ holder \in Lanes \cup {Free, Worker}
        /\ feeder \in [Lanes -> {"idle", "drain", "drop", "decode", "final", "queue", "gone"}]
        /\ worker \in {"wait", "lock", "check", "emit", "done"}
        /\ main \in {"run", "join", "flush", "done"}
    BY DEF Init
  <2> QED
    BY <2>1, <2>2, <2>3, <2>4, <2>5, <2>6 DEF TypeOK
<1>3. LockInv
  BY LaneAssumption DEF Init, LockInv, Free, Worker
<1>4. GenInv
  BY DEF Init, GenInv, Closing
<1>5. OpenInv
  BY Thresholds DEF Init, OpenInv, Closing
<1>6. FlushInv
  BY DEF Init, FlushInv
<1> QED
  BY <1>2, <1>3, <1>4, <1>5, <1>6 DEF ParakeetInv

LEMMA Stutter == ASSUME ParakeetInv, UNCHANGED vars PROVE ParakeetInv'
<1>1. UNCHANGED <<vadVars, laneVars, sharedVars, threadVars, decoded>>
  BY DEF vars, parakeetVars
<1>2. TypeOK'
  BY <1>1 DEF ParakeetInv, TypeOK, vadVars, laneVars, sharedVars, threadVars
<1>3. LockInv' /\ FlushInv'
  BY <1>1 DEF ParakeetInv, LockInv, FlushInv, vadVars, laneVars, sharedVars, threadVars
<1>4. GenInv'
  BY <1>1 DEF ParakeetInv, GenInv, Sound, vadVars, laneVars, sharedVars, threadVars
<1>5. OpenInv'
  BY <1>1 DEF ParakeetInv, OpenInv, vadVars, laneVars, sharedVars, threadVars
<1> QED
  BY <1>2, <1>3, <1>4, <1>5 DEF ParakeetInv

\* The invariant: who holds the lock, how generations and finals keep step,
\* how far an open utterance reaches back, and what a flush leaves.
THEOREM ParakeetInvariant == Spec => []ParakeetInv
<1>1. ParakeetInv /\ [Next]_vars => ParakeetInv'
  <2> SUFFICES ASSUME ParakeetInv, [Next]_vars PROVE ParakeetInv'
    OBVIOUS
  <2>1. ASSUME NEW l \in Lanes, Feed(l) \/ Drain(l) \/ Interim(l) PROVE ParakeetInv'
    BY <2>1, FeedStep, BumpStep, DropJobStep, LockFinalStep, EmitFinalStep, DrainDoneStep,
       QuietStep, NotDueStep, QueueStep DEF Drain, Interim
  <2>2. CASE WorkerStep
    BY <2>2, WorkerPickStep, WorkerExitStep, WorkerLockStep, WorkerSkipStep,
       WorkerCheckStep, WorkerEmitStep DEF WorkerStep
  <2>3. CASE StopBegin \/ StopStep
    BY <2>3, StopBeginStep, StopJoinStep, FlushStep, StopEndStep DEF StopStep
  <2>4. CASE UNCHANGED vars
    BY <2>4, Stutter
  <2> QED
    BY <2>1, <2>2, <2>3, <2>4 DEF Next
<1> QED
  BY <1>1, Initial, PTL DEF Spec

\* The engine's members keep their types.
THEOREM ParakeetTypes == Spec => []TypeOK
<1>1. ParakeetInv => TypeOK
  BY DEF ParakeetInv
<1> QED
  BY <1>1, ParakeetInvariant, PTL

-----------------------------------------------------------------------------
(* The transcript inside the engine.                                       *)

\* Only the two callbacks touch the transcript.
LEMMA OnlyCallbacks ==
  ASSUME [Next]_vars
  PROVE  \/ WorkerEmit
         \/ \E l \in Lanes : EmitFinal(l)
         \/ UNCHANGED tmVars
<1>1. ASSUME NEW l \in Lanes, Feed(l) \/ Drain(l) \/ Interim(l)
      PROVE  EmitFinal(l) \/ UNCHANGED tmVars
  BY <1>1 DEF Drain, Interim, Feed, Bump, DropJob, LockFinal, DrainDone, Quiet, NotDue,
       Queue
<1>2. CASE WorkerStep
  BY <1>2 DEF WorkerStep, WorkerPick, WorkerExit, WorkerLock, WorkerSkip, WorkerCheck
<1>3. CASE StopBegin \/ StopStep
  BY <1>3 DEF StopStep, StopBegin, StopJoin, Flush, StopEnd
<1>4. CASE UNCHANGED vars
  BY <1>4 DEF vars
<1> QED
  BY <1>1, <1>2, <1>3, <1>4 DEF Next

\* What the worker is about to report when it has passed the check.
LEMMA EmittedJob ==
  ASSUME ParakeetInv, worker = "emit"
  PROVE  /\ wjob.lane \in Lanes
         /\ wjob.job.utt \in Nat /\ wjob.job.ts \in Nat /\ wjob.job.from \in Nat
         /\ wjob.job.utt = decoded[wjob.lane].count + 1
         /\ decoded[wjob.lane].end <= wjob.job.from
<1>1. wjob.lane \in Lanes /\ wjob.job \in Job \cup {NoJob} /\ wjob.job # NoJob
  BY DEF ParakeetInv, TypeOK, GenInv
<1>2. wjob.job.utt \in Nat /\ wjob.job.ts \in Nat /\ wjob.job.from \in Nat
  BY <1>1, JobTypes
<1>3. /\ wjob.job.utt = wjob.job.gen + 1
      /\ wjob.job.gen = decoded[wjob.lane].count
      /\ decoded[wjob.lane].end <= wjob.job.from
  BY DEF ParakeetInv, GenInv, Sound
<1> QED
  BY <1>1, <1>2, <1>3

LEMMA EmittedFinal ==
  ASSUME ParakeetInv, NEW l \in Lanes, feeder[l] = "final"
  PROVE  decoded[l].count + 1 \in Nat /\ Head(segments[l]).start \in Nat
<1>1. segments[l] \in Seq(Segment) /\ segments[l] # <<>>
  BY DEF ParakeetInv, TypeOK, OpenInv, Closing
<1>2. decoded[l].count \in Nat
  BY DEF ParakeetInv, TypeOK
<1> QED
  BY <1>1, <1>2, HeadSegment

LEMMA TranscriptStep == ParakeetInv /\ TmInv /\ [Next]_vars => TmInv'
<1> SUFFICES ASSUME ParakeetInv, TmInv, [Next]_vars PROVE TmInv'
  OBVIOUS
<1>1. CASE WorkerEmit
  <2>1. /\ ApplyInterim(wjob.lane, wjob.job.utt, wjob.job.ts) /\ UNCHANGED frame
        /\ worker = "emit"
    BY <1>1 DEF WorkerEmit
  <2> QED
    BY <2>1, EmittedJob, InterimStep
<1>2. ASSUME NEW l \in Lanes, EmitFinal(l) PROVE TmInv'
  <2>1. feeder[l] = "final"
    BY <1>2 DEF EmitFinal
  <2>2. decoded[l].count + 1 \in Nat /\ Head(segments[l]).start \in Nat
    BY <2>1, EmittedFinal
  <2>3. \/ ApplyFinal(l, decoded[l].count + 1, Head(segments[l]).start) /\ UNCHANGED frame
        \/ UNCHANGED tmVars
    BY <1>2 DEF EmitFinal
  <2> QED
    BY <2>2, <2>3, FinalStep, WindowStep
<1>3. CASE UNCHANGED tmVars
  BY <1>3, WindowStep
<1> QED
  BY <1>1, <1>2, <1>3, OnlyCallbacks

\* The engine drives the transcript only as TranscriptModel allows: what two
\* lanes and the worker report leaves the finals sorted above the baseline.
THEOREM TranscriptKept == Spec => []TmInv
<1>1. Init => TmInv
  BY TmInitial DEF Init
<1> QED
  BY <1>1, TranscriptStep, ParakeetInvariant, PTL DEF Spec

-----------------------------------------------------------------------------
(* The properties.                                                         *)

LEMMA InterimIsOpen ==
  ASSUME ParakeetInv, TmInv, [Next]_vars, NEW l \in Lanes,
         pending'[l] # pending[l], pending'[l] # NoLine
  PROVE  /\ worker = "emit"
         /\ pending'[l].text = decoded[l].count + 1
<1>0. pending \in [Lanes -> [text : Nat, ts : Nat]]
  BY DEF TmInv, TmTypeOK
<1>1. CASE WorkerEmit
  <2>1. /\ worker = "emit"
        /\ pending' = [pending EXCEPT ![wjob.lane] =
                         [text |-> wjob.job.utt, ts |-> wjob.job.ts]]
    BY <1>1 DEF WorkerEmit, ApplyInterim
  <2>2. l = wjob.lane
    BY <1>0, <2>1
  <2>3. pending'[l].text = wjob.job.utt
    BY <1>0, <2>1, <2>2
  <2> QED
    BY <2>1, <2>2, <2>3, EmittedJob
<1>2. ASSUME NEW m \in Lanes, EmitFinal(m) PROVE FALSE
  <2>1. UNCHANGED tmVars \/ pending' = [pending EXCEPT ![m] = NoLine]
    BY <1>2 DEF EmitFinal, ApplyFinal
  <2>2. pending' = pending \/ pending' = [pending EXCEPT ![m] = NoLine]
    BY <2>1 DEF tmVars, modelVars
  <2> QED
    BY <1>0, <2>2
<1>3. CASE UNCHANGED tmVars
  BY <1>3 DEF tmVars, modelVars
<1> QED
  BY <1>1, <1>2, <1>3, OnlyCallbacks

\* A stale interim is never reported: an interim is about the utterance after
\* the last final decoded, however the two decodes race for the lock.
THEOREM NoStaleInterims == Spec => NoStaleInterim
<1>1. ParakeetInv /\ TmInv /\ [Next]_vars =>
        [\A l \in Lanes : pending'[l] # pending[l] /\ pending'[l] # NoLine
           => pending'[l].text = decoded[l].count + 1]_vars
  BY InterimIsOpen
<1> QED
  BY <1>1, ParakeetInvariant, TranscriptKept, PTL DEF Spec, NoStaleInterim

\* While stop() flushes, and after it, no interim is reported.
THEOREM FlushIsQuiet == Spec => NoInterimInFlush
<1>1. ParakeetInv /\ TmInv /\ [Next]_vars =>
        [\A l \in Lanes : main \in {"flush", "done"} =>
           pending'[l] \in {pending[l], NoLine}]_vars
  BY InterimIsOpen DEF ParakeetInv, LockInv
<1> QED
  BY <1>1, ParakeetInvariant, TranscriptKept, PTL DEF Spec, NoInterimInFlush

\* No audio of a segment that has its final is reported as an interim.
THEOREM InterimsCutClean == Spec => []NoAudioTwice
<1>1. ParakeetInv => NoAudioTwice
  BY EmittedJob DEF NoAudioTwice
<1> QED
  BY <1>1, ParakeetInvariant, PTL

\* A snapshot starts where its utterance does: the history still has it.
THEOREM HeadsKept == Spec => []HeadKept
<1>1. ParakeetInv => HeadKept
  BY DEF ParakeetInv, GenInv, Sound, HeadKept
<1> QED
  BY <1>1, ParakeetInvariant, PTL

\* When stop() returns every segment has been closed and decoded.
THEOREM FlushComplete == Spec => []FlushedAtStop
<1>1. ParakeetInv => FlushedAtStop
  <2> SUFFICES ASSUME ParakeetInv, main = "done", NEW l \in Lanes
               PROVE  speech[l] = -1 /\ segments[l] = <<>> /\ decoded[l].count = gen[l]
    BY DEF FlushedAtStop
  <2>1. feeder[l] = "gone"
    BY DEF ParakeetInv, FlushInv
  <2>2. speech[l] = -1 /\ segments[l] = <<>>
    BY <2>1 DEF ParakeetInv, FlushInv
  <2>3. decoded[l].count \in Nat
    BY DEF ParakeetInv, TypeOK
  <2>4. feeder[l] \notin Closing
    BY <2>1 DEF Closing
  <2>5. gen[l] = decoded[l].count + 0
    BY <2>4 DEF ParakeetInv, GenInv
  <2> QED
    BY <2>2, <2>3, <2>5
<1> QED
  BY <1>1, ParakeetInvariant, PTL
=============================================================================
