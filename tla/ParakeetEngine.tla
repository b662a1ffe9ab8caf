--------------------------- MODULE ParakeetEngine ---------------------------
(***************************************************************************)
(* The offline engine: the feeder of each lane, the interim worker and the *)
(* thread that stops the engine, over two locks.  interimMu_ guards single *)
(* steps; decodeMu_ is held over a decode and the callback, so it has an   *)
(* owner.  The callback is TranscriptModel's apply().                      *)
(*                                                                         *)
(* Audio is counted in units; a unit stands for the samples between two    *)
(* things the thresholds tell apart.  All lanes start at time 0.  The text *)
(* of an event is the ordinal of its utterance in the lane, so that the    *)
(* transcript shows what a line is about; 0 is the empty text.             *)
(*                                                                         *)
(* External, from how the code uses the library: the voice detector closes *)
(* segments in order, without overlap, each at most MaxSpeech long; what   *)
(* it has detected stays detected until a segment closes it; flushing it   *)
(* closes the segment that is open.                                        *)
(***************************************************************************)
EXTENDS TranscriptModel

CONSTANTS
  Lookback, FirstDelay, Interval,   \* kInterimLookbackSec, ...
  HistoryMax,                       \* kHistoryMaxSec
  MaxSpeech,                        \* kVadMaxSpeechSec
  Chunks,                           \* sizes of the pieces fed
  MaxSegs,                          \* segments one piece can close
  MaxAudio                          \* bound on the audio of a lane

ASSUME AudioAssumption ==
  /\ {Lookback, FirstDelay, Interval, HistoryMax, MaxSpeech, MaxSegs, MaxAudio} \subseteq Nat
  /\ Chunks \subseteq Nat \ {0}
\* "Must exceed kVadMaxSpeechSec", and by the lookback.
ASSUME HistoryAssumption == HistoryMax >= MaxSpeech + Lookback

VARIABLES
  speech,        \* the detector: start of the open segment, -1 if none
  segments,      \* the detector: segments closed and not popped
  total,         \* absSampleCount_
  base,          \* historyBase_
  openStart,     \* openStartAbs_
  lastFinalEnd,  \* lastFinalEndAbs_
  nextInterim,   \* nextInterimAtAbs_
  gen,           \* utteranceGen_
  job,           \* interimJobs_, NoJob if not valid
  interimStop,   \* interimStop_
  holder,        \* who holds decodeMu_
  feeder,        \* where the feeder of each lane is (stop() when flushing)
  worker,        \* where the interim worker is
  wjob,          \* the job it has taken
  main,          \* where stop() is
  decoded        \* history: how many finals of the lane have been decoded,
                 \* and the end of the last one

vadVars == <<speech, segments>>
laneVars == <<total, base, openStart, lastFinalEnd, nextInterim>>
sharedVars == <<gen, job, interimStop, holder>>
threadVars == <<feeder, worker, wjob, main>>
parakeetVars == <<vadVars, laneVars, sharedVars, threadVars, decoded>>
vars == <<parakeetVars, tmVars>>

Free == -1
Worker == -2

Segment == {s \in [start : 0..MaxAudio, end : 0..MaxAudio] : s.start < s.end}
NoJob == [from |-> -1, ts |-> -1, gen |-> 0, utt |-> 0]

\* from: first sample; ts: start of the utterance; utt: history, which one.
Job == [from : Nat, ts : Nat, gen : Nat, utt : Nat]

TypeOK ==
  /\ speech \in [Lanes -> -1..MaxAudio]
  /\ segments \in [Lanes -> Seq(Segment)]
  /\ total \in [Lanes -> 0..MaxAudio] /\ base \in [Lanes -> Nat]
  /\ openStart \in [Lanes -> Nat \cup {-1}]
  /\ lastFinalEnd \in [Lanes -> Nat] /\ nextInterim \in [Lanes -> Nat]
  /\ gen \in [Lanes -> Nat]
  /\ job \in [Lanes -> Job \cup {NoJob}]
  /\ interimStop \in BOOLEAN
  /\ holder \in Lanes \cup {Free, Worker}
  /\ feeder \in [Lanes -> {"idle", "drain", "drop", "decode", "final", "queue", "gone"}]
  /\ worker \in {"wait", "lock", "check", "emit", "done"}
  /\ wjob \in [lane : Lanes, job : Job \cup {NoJob}]
  /\ main \in {"run", "join", "flush", "done"}
  /\ decoded \in [Lanes -> [count : Nat, end : Nat]]

Init ==
  /\ TmInit
  /\ speech = [l \in Lanes |-> -1]
  /\ segments = [l \in Lanes |-> <<>>]
  /\ total = [l \in Lanes |-> 0] /\ base = [l \in Lanes |-> 0]
  /\ openStart = [l \in Lanes |-> -1]
  /\ lastFinalEnd = [l \in Lanes |-> 0] /\ nextInterim = [l \in Lanes |-> 0]
  /\ gen = [l \in Lanes |-> 0]
  /\ job = [l \in Lanes |-> NoJob]
  /\ interimStop = FALSE
  /\ holder = Free
  /\ feeder = [l \in Lanes |-> "idle"]
  /\ worker = "wait" /\ wjob = [lane |-> CHOOSE l \in Lanes : TRUE, job |-> NoJob]
  /\ main = "run"
  /\ decoded = [l \in Lanes |-> [count |-> 0, end |-> 0]]

Goto(l, p) == feeder' = [feeder EXCEPT ![l] = p]

-----------------------------------------------------------------------------
(* The feeder of a lane                                                    *)

\* Speech open from s (-1: none) at position now has not been cut for length.
Opens(s, now) == s >= 0 => s < now /\ now - s <= MaxSpeech

\* The detector has closed segs and has speech open from s on (-1: none),
\* at position now.
Detects(l, now, segs, s) ==
  LET EndBefore(i) == IF i = 1 THEN lastFinalEnd[l] ELSE segs[i - 1].end IN
  /\ \A i \in DOMAIN segs :
       /\ EndBefore(i) <= segs[i].start /\ segs[i].end <= now
       /\ segs[i].end - segs[i].start <= MaxSpeech
  /\ speech[l] >= 0 => IF segs = <<>> THEN s = speech[l] ELSE segs[1].start = speech[l]
  /\ s >= 0 => EndBefore(Len(segs) + 1) <= s
  /\ Opens(s, now)

\* The rolling history, cut to what it may hold.
HistoryStart(l, now) ==
  IF now - base[l] > HistoryMax THEN now - HistoryMax ELSE base[l]

\* The history grows by n and loses what is too old; the detector listens.
Hear(l, n, segs, s) ==
  LET now == total[l] + n IN
  /\ now <= MaxAudio
  /\ Detects(l, now, segs, s)
  /\ total' = [total EXCEPT ![l] = now]
  /\ base' = [base EXCEPT ![l] = HistoryStart(l, now)]
  /\ segments' = [segments EXCEPT ![l] = segs]
  /\ speech' = [speech EXCEPT ![l] = s]

\* feed(), up to the drain.
Feed(l) ==
  /\ main = "run" /\ feeder[l] = "idle"
  /\ \E n \in Chunks, segs \in SeqOf(Segment, MaxSegs), s \in -1..MaxAudio :
       Hear(l, n, segs, s)
  /\ Goto(l, "drain")
  /\ UNCHANGED <<openStart, lastFinalEnd, nextInterim, sharedVars, worker, wjob, main,
                 decoded, tmVars>>

\* Mutant: the utterance stays open.
Bump_StaysOpen(l) ==
  /\ feeder[l] = "drain" /\ segments[l] # <<>>
  /\ gen' = [gen EXCEPT ![l] = @ + 1]
  /\ lastFinalEnd' = [lastFinalEnd EXCEPT ![l] = Head(segments[l]).end]
  /\ Goto(l, "drop")
  /\ UNCHANGED <<vadVars, total, base, openStart, nextInterim, job, interimStop, holder,
                 worker, wjob, main, decoded, tmVars>>

\* drainSegments(): close the bookkeeping of the utterance...
Bump(l) ==
  /\ feeder[l] = "drain" /\ segments[l] # <<>>
  /\ gen' = [gen EXCEPT ![l] = @ + 1]
  /\ openStart' = [openStart EXCEPT ![l] = -1]
  /\ lastFinalEnd' = [lastFinalEnd EXCEPT ![l] = Head(segments[l]).end]
  /\ Goto(l, "drop")
  /\ UNCHANGED <<vadVars, total, base, nextInterim, job, interimStop, holder,
                 worker, wjob, main, decoded, tmVars>>

\* ...drop a superseded snapshot, under interimMu_...
DropJob(l) ==
  /\ feeder[l] = "drop"
  /\ job' = [job EXCEPT ![l] = NoJob]
  /\ Goto(l, "decode")
  /\ UNCHANGED <<vadVars, laneVars, gen, interimStop, holder, worker, wjob, main,
                 decoded, tmVars>>

\* ...take decodeMu_...
LockFinal(l) ==
  /\ feeder[l] = "decode" /\ holder = Free
  /\ holder' = l
  /\ Goto(l, "final")
  /\ UNCHANGED <<vadVars, laneVars, gen, job, interimStop, worker, wjob, main,
                 decoded, tmVars>>

\* ...decode, report the final unless it is empty, and pop the segment.
EmitFinal(l) ==
  /\ feeder[l] = "final"
  /\ \/ ApplyFinal(l, decoded[l].count + 1, Head(segments[l]).start) /\ UNCHANGED frame
     \/ UNCHANGED tmVars
  /\ decoded' = [decoded EXCEPT ![l] = [count |-> @.count + 1, end |-> Head(segments[l]).end]]
  /\ segments' = [segments EXCEPT ![l] = Tail(@)]
  /\ holder' = Free
  /\ Goto(l, "drain")
  /\ UNCHANGED <<speech, laneVars, gen, job, interimStop, worker, wjob, main>>

\* feed() goes on to the interim; stop() destroys the detector.
DrainDone(l) ==
  /\ feeder[l] = "drain" /\ segments[l] = <<>>
  /\ Goto(l, IF main = "run" THEN "queue" ELSE "gone")
  /\ UNCHANGED <<vadVars, laneVars, sharedVars, worker, wjob, main, decoded, tmVars>>

\* Mutant: reaches back without a floor.
OpenAt_NoFloor(l) ==
  IF openStart[l] >= 0 THEN openStart[l] ELSE total[l] - Lookback

OpenAt(l) ==
  IF openStart[l] >= 0 THEN openStart[l]
  ELSE IF lastFinalEnd[l] > total[l] - Lookback THEN lastFinalEnd[l]
  ELSE total[l] - Lookback

\* maybeQueueInterim(), no speech or a pause the detector has not confirmed.
Quiet(l) ==
  /\ feeder[l] = "queue"
  /\ Goto(l, "idle")
  /\ UNCHANGED <<vadVars, laneVars, sharedVars, worker, wjob, main, decoded, tmVars>>

DueAt(l) == IF openStart[l] >= 0 THEN nextInterim[l] ELSE OpenAt(l) + FirstDelay

\* maybeQueueInterim(), speech but no interim due.
NotDue(l) ==
  /\ feeder[l] = "queue" /\ speech[l] >= 0
  /\ total[l] < DueAt(l)
  /\ openStart' = [openStart EXCEPT ![l] = OpenAt(l)]
  /\ nextInterim' = [nextInterim EXCEPT ![l] = DueAt(l)]
  /\ Goto(l, "idle")
  /\ UNCHANGED <<vadVars, total, base, lastFinalEnd, sharedVars, worker, wjob, main,
                 decoded, tmVars>>

\* maybeQueueInterim(): the audio of the open utterance as far as the history
\* has it replaces the lane's snapshot.
Queue(l) ==
  LET from == IF OpenAt(l) > base[l] THEN OpenAt(l) ELSE base[l] IN
  /\ feeder[l] = "queue" /\ speech[l] >= 0
  /\ total[l] >= DueAt(l)
  /\ openStart' = [openStart EXCEPT ![l] = OpenAt(l)]
  /\ nextInterim' = [nextInterim EXCEPT ![l] = total[l] + Interval]
  /\ job' = IF from >= total[l] THEN job
            ELSE [job EXCEPT ![l] = [from |-> from, ts |-> OpenAt(l), gen |-> gen[l],
                                     utt |-> decoded[l].count + 1]]
  /\ Goto(l, "idle")
  /\ UNCHANGED <<vadVars, total, base, lastFinalEnd, gen, interimStop, holder,
                 worker, wjob, main, decoded, tmVars>>

-----------------------------------------------------------------------------
(* The interim worker                                                      *)

\* Woken with interimMu_ held: the first lane that has a snapshot.
WorkerPick ==
  /\ worker = "wait" /\ ~interimStop
  /\ \E l \in Lanes :
       /\ job[l] # NoJob /\ \A k \in Lanes : k < l => job[k] = NoJob
       /\ wjob' = [lane |-> l, job |-> job[l]]
       /\ job' = [job EXCEPT ![l] = NoJob]
  /\ worker' = "lock"
  /\ UNCHANGED <<vadVars, laneVars, gen, interimStop, holder, feeder, main, decoded, tmVars>>

WorkerExit ==
  /\ worker = "wait" /\ interimStop
  /\ worker' = "done"
  /\ UNCHANGED <<vadVars, laneVars, sharedVars, feeder, wjob, main, decoded, tmVars>>

WorkerLock ==
  /\ worker = "lock" /\ holder = Free
  /\ holder' = Worker
  /\ worker' = "check"
  /\ UNCHANGED <<vadVars, laneVars, gen, job, interimStop, feeder, wjob, main, decoded, tmVars>>

\* Mutant: the lock is kept on the way back to the loop.
WorkerSkip_KeepsLock ==
  /\ worker = "check"
  /\ worker' = "wait"
  /\ UNCHANGED <<vadVars, laneVars, sharedVars, feeder, wjob, main, decoded, tmVars>>

\* The utterance is over, or the decode is empty or repeats the last interim.
WorkerSkip ==
  /\ worker = "check"
  /\ holder' = Free
  /\ worker' = "wait"
  /\ UNCHANGED <<vadVars, laneVars, gen, job, interimStop, feeder, wjob, main, decoded, tmVars>>

\* Mutant: the generation is not checked again.
WorkerCheck_NoRecheck ==
  /\ worker = "check"
  /\ worker' = "emit"
  /\ UNCHANGED <<vadVars, laneVars, sharedVars, feeder, wjob, main, decoded, tmVars>>

\* Decoded, and the generation is still the one of the snapshot...
WorkerCheck ==
  /\ worker = "check" /\ gen[wjob.lane] = wjob.job.gen
  /\ worker' = "emit"
  /\ UNCHANGED <<vadVars, laneVars, sharedVars, feeder, wjob, main, decoded, tmVars>>

\* ...so the interim is reported, and decodeMu_ released.
WorkerEmit ==
  /\ worker = "emit"
  /\ ApplyInterim(wjob.lane, wjob.job.utt, wjob.job.ts) /\ UNCHANGED frame
  /\ holder' = Free
  /\ worker' = "wait"
  /\ UNCHANGED <<vadVars, laneVars, gen, job, interimStop, feeder, wjob, main, decoded>>

-----------------------------------------------------------------------------
(* stop(), called when the feeders have ended                              *)

StopBegin ==
  /\ main = "run" /\ \A l \in Lanes : feeder[l] = "idle"
  /\ interimStop' = TRUE
  /\ main' = "join"
  /\ UNCHANGED <<vadVars, laneVars, gen, job, holder, feeder, worker, wjob, decoded, tmVars>>

StopJoin ==
  /\ main = "join" /\ worker = "done"
  /\ main' = "flush"
  /\ UNCHANGED <<vadVars, laneVars, sharedVars, feeder, worker, wjob, decoded, tmVars>>

\* Mutant: the detector is destroyed before it is drained.
Flush_NoDrain(l) ==
  /\ main = "flush" /\ feeder[l] = "idle"
  /\ \A k \in Lanes : k < l => feeder[k] = "gone"
  /\ speech' = [speech EXCEPT ![l] = -1]
  /\ segments' = [segments EXCEPT ![l] =
       IF speech[l] < 0 THEN <<>> ELSE <<[start |-> speech[l], end |-> total[l]]>>]
  /\ Goto(l, "gone")
  /\ UNCHANGED <<laneVars, sharedVars, worker, wjob, main, decoded, tmVars>>

\* The lanes one after the other: flush the detector, then drain it.
Flush(l) ==
  /\ main = "flush" /\ feeder[l] = "idle"
  /\ \A k \in Lanes : k < l => feeder[k] = "gone"
  /\ speech' = [speech EXCEPT ![l] = -1]
  /\ segments' = [segments EXCEPT ![l] =
       IF speech[l] < 0 THEN <<>> ELSE <<[start |-> speech[l], end |-> total[l]]>>]
  /\ Goto(l, "drain")
  /\ UNCHANGED <<laneVars, sharedVars, worker, wjob, main, decoded, tmVars>>

StopEnd ==
  /\ main = "flush" /\ \A l \in Lanes : feeder[l] = "gone"
  /\ holder = Free
  /\ main' = "done"
  /\ UNCHANGED <<vadVars, laneVars, sharedVars, feeder, worker, wjob, decoded, tmVars>>

Drain(l) == Bump(l) \/ DropJob(l) \/ LockFinal(l) \/ EmitFinal(l) \/ DrainDone(l)
Interim(l) == Quiet(l) \/ NotDue(l) \/ Queue(l)
WorkerStep ==
  WorkerPick \/ WorkerExit \/ WorkerLock \/ WorkerSkip \/ WorkerCheck \/ WorkerEmit
StopStep == StopJoin \/ (\E l \in Lanes : Flush(l)) \/ StopEnd

Next ==
  \/ \E l \in Lanes : Feed(l) \/ Drain(l) \/ Interim(l)
  \/ WorkerStep
  \/ StopBegin \/ StopStep

Spec == Init /\ [][Next]_vars

\* Threads inside a call go on; nobody has to feed audio or to stop.
Fairness ==
  /\ \A l \in Lanes : WF_vars(Drain(l)) /\ WF_vars(Interim(l))
  /\ WF_vars(WorkerStep) /\ WF_vars(StopStep)

FairSpec == Spec /\ Fairness

-----------------------------------------------------------------------------
(* Properties                                                              *)

\* "A stale interim can never be emitted after this final": an interim is
\* about an utterance whose final has not been decoded, whenever the worker
\* took its snapshot.
NoStaleInterim ==
  [][\A l \in Lanes : pending'[l] # pending[l] /\ pending'[l] # NoLine
       => pending'[l].text = decoded[l].count + 1]_vars

\* "A new utterance can never reach back into already-finalized audio": what
\* is reported as an interim was cut behind the last segment decoded.
NoAudioTwice ==
  worker = "emit" => decoded[wjob.lane].end <= wjob.job.from

\* "An interim always re-decodes the whole open utterance (so its first words
\* never vanish from the line)": the history still has its start.
HeadKept == \A l \in Lanes : job[l] # NoJob => job[l].from = job[l].ts

\* "Emit whatever speech was still buffered when capture ended": when stop()
\* returns, every segment has been closed and decoded, once.
FlushedAtStop ==
  main = "done" => \A l \in Lanes : /\ speech[l] = -1 /\ segments[l] = <<>>
                                    /\ decoded[l].count = gen[l]

\* "No interim can be emitted during or after the flush."
NoInterimInFlush ==
  [][\A l \in Lanes : main \in {"flush", "done"} =>
        pending'[l] \in {pending[l], NoLine}]_vars

\* stop() returns, whatever the worker and the locks are doing.
StopReturns == (main = "join") ~> (main = "done")
=============================================================================
