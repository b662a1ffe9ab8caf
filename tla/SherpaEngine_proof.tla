------------------------- MODULE SherpaEngine_proof -------------------------
(***************************************************************************)
(* Proofs about the streaming engine, for any lanes, texts and times and   *)
(* whatever the recognizer makes of the audio.                             *)
(***************************************************************************)
EXTENDS SherpaEngine, TranscriptModel_proof

-----------------------------------------------------------------------------
(* The inductive invariant behind the two action properties.               *)

\* What feed() keeps of an utterance says when its first loud chunk came.
UtteranceInv ==
  \A l \in Lanes :
    /\ voiced[l] <=> startTs[l] >= 0
    /\ startTs[l] = (IF l \in ended THEN -1 ELSE onset[l])

\* Streams live no longer than the recognizer (sherpa_engine.cpp:317).
StreamInv ==
  /\ streams # {} => rec # "none"
  /\ phase = "up" => streams = Lanes
  /\ phase \in {"new", "stopped"} => rec = "none"

SherpaInv == TmInv /\ SherpaTypeOK /\ UtteranceInv /\ StreamInv

-----------------------------------------------------------------------------
(* The proofs.                                                             *)

LEMMA SherpaInitial == SherpaInit => SherpaInv
<1> SUFFICES ASSUME SherpaInit PROVE SherpaInv
  OBVIOUS
<1>1. TmInv
  BY TmInitial DEF SherpaInit
<1>2. SherpaTypeOK
  BY <1>1 DEF SherpaInit, SherpaTypeOK, TmInv
<1>3. UtteranceInv
  BY DEF SherpaInit, UtteranceInv
<1>4. StreamInv
  BY LaneAssumption DEF SherpaInit, StreamInv
<1> QED
  BY <1>1, <1>2, <1>3, <1>4 DEF SherpaInv

-----------------------------------------------------------------------------
(* One lemma per action.                                                   *)

LEMMA StartStep ==
  ASSUME SherpaInv, Start
  PROVE  SherpaInv'
<1>1. TmInv'
  BY WindowStep DEF SherpaInv, Start
<1>2. SherpaTypeOK'
  BY <1>1 DEF SherpaInv, SherpaTypeOK, TmInv, Start, laneVars, history
<1>3. UtteranceInv'
  BY DEF SherpaInv, UtteranceInv, Start, laneVars, history
<1>4. StreamInv'
  BY ProviderAssumption DEF SherpaInv, SherpaTypeOK, StreamInv, Start
<1> QED
  BY <1>1, <1>2, <1>3, <1>4 DEF SherpaInv

LEMMA StopStep ==
  ASSUME SherpaInv, Stop
  PROVE  SherpaInv'
<1>1. TmInv'
  BY WindowStep DEF SherpaInv, Stop
<1>2. SherpaTypeOK'
  BY <1>1 DEF SherpaInv, SherpaTypeOK, TmInv, Stop, laneVars, history
<1>3. UtteranceInv'
  BY DEF SherpaInv, UtteranceInv, Stop, laneVars, history
<1>4. StreamInv'
  BY DEF Stop, StreamInv
<1> QED
  BY <1>1, <1>2, <1>3, <1>4 DEF SherpaInv

LEMMA WindowKeeps ==
  ASSUME SherpaInv, Window
  PROVE  SherpaInv'
<1>1. TmInv'
  BY WindowStep DEF SherpaInv, Window
<1>2. SherpaTypeOK'
  BY <1>1 DEF SherpaInv, SherpaTypeOK, TmInv, Window, laneVars, history
<1>3. UtteranceInv'
  BY DEF SherpaInv, UtteranceInv, Window, laneVars, history
<1>4. StreamInv'
  BY DEF SherpaInv, StreamInv, Window
<1> QED
  BY <1>1, <1>2, <1>3, <1>4 DEF SherpaInv

\* The time of an event is the start of its utterance if that has signal; the
\* start that feed() computes is the first loud chunk.
LEMMA StartIsHeard ==
  ASSUME SherpaInv, NEW l \in Lanes, NEW loud \in BOOLEAN, NEW ts \in Nat
  PROVE  /\ EventTs(l, loud, ts) \in Nat
         /\ StartWith(l, loud, ts) \in Nat \cup {-1}
         /\ Voiced(l, loud) \in BOOLEAN
         /\ Voiced(l, loud) <=> StartWith(l, loud, ts) >= 0
         /\ Voiced(l, loud) => EventTs(l, loud, ts) = StartWith(l, loud, ts)
         /\ Onset(l, loud, ts) = StartWith(l, loud, ts)
<1>1. startTs[l] \in Nat \cup {-1} /\ voiced[l] \in BOOLEAN
  BY DEF SherpaInv, SherpaTypeOK
<1>2. voiced[l] <=> startTs[l] >= 0
  BY DEF SherpaInv, UtteranceInv
<1>3. Onset(l, loud, ts) = IF startTs[l] < 0 /\ loud THEN ts ELSE startTs[l]
  BY DEF Onset, SherpaInv, UtteranceInv
<1>4. CASE voiced[l]
  BY <1>1, <1>2, <1>3, <1>4 DEF EventTs, StartWith, Voiced
<1>5. CASE ~voiced[l] /\ loud
  BY <1>1, <1>2, <1>3, <1>5 DEF EventTs, StartWith, Voiced
<1>6. CASE ~voiced[l] /\ ~loud
  BY <1>1, <1>2, <1>3, <1>6 DEF EventTs, StartWith, Voiced
<1> QED
  BY <1>4, <1>5, <1>6

LEMMA EndpointStep ==
  ASSUME SherpaInv, NEW l \in Lanes, NEW loud \in BOOLEAN, NEW text \in Nat, NEW ts \in Nat,
         FeedEndpoint(l, loud, text, ts)
  PROVE  SherpaInv'
<1> DEFINE start == StartWith(l, loud, ts)
           at == EventTs(l, loud, ts)
<1>1. at \in Nat /\ start \in Nat \cup {-1} /\ Onset(l, loud, ts) = start
  BY StartIsHeard
<1>2. ApplyFinal(l, text, at) \/ UNCHANGED modelVars
  BY DEF FeedEndpoint
<1>3. /\ now' = [now EXCEPT ![l] = ts]
      /\ lastInterim' = [lastInterim EXCEPT ![l] = 0]
      /\ voiced' = [voiced EXCEPT ![l] = FALSE] /\ startTs' = [startTs EXCEPT ![l] = -1]
      /\ onset' = [onset EXCEPT ![l] = start] /\ ended' = ended \cup {l}
      /\ UNCHANGED <<frame, phase, rec, streams>>
  BY <1>1 DEF FeedEndpoint, Hear, AfterEndpoint
<1> HIDE DEF start, at
<1>4. TmInv'
  BY <1>1, <1>2, <1>3, FinalStep, WindowStep DEF SherpaInv, tmVars
<1>5. SherpaTypeOK'
  BY <1>1, <1>3, <1>4 DEF SherpaInv, SherpaTypeOK, TmInv
<1>6. UtteranceInv'
  BY <1>3 DEF SherpaInv, SherpaTypeOK, UtteranceInv
<1>7. StreamInv'
  BY <1>3 DEF SherpaInv, StreamInv
<1> QED
  BY <1>4, <1>5, <1>6, <1>7 DEF SherpaInv

LEMMA InterimKeeps ==
  ASSUME SherpaInv, NEW l \in Lanes, NEW loud \in BOOLEAN, NEW text \in Nat, NEW ts \in Nat,
         FeedInterim(l, loud, text, ts)
  PROVE  SherpaInv'
<1> DEFINE start == StartWith(l, loud, ts)
           at == EventTs(l, loud, ts)
           v == Voiced(l, loud)
<1>1. /\ at \in Nat /\ start \in Nat \cup {-1} /\ v \in BOOLEAN
      /\ v <=> start >= 0
      /\ Onset(l, loud, ts) = start
  BY StartIsHeard
<1>2. ApplyInterim(l, text, at) \/ UNCHANGED modelVars
  BY DEF FeedInterim
<1>3. /\ now' = [now EXCEPT ![l] = ts]
      /\ lastInterim' = [lastInterim EXCEPT ![l] = text]
      /\ voiced' = [voiced EXCEPT ![l] = v] /\ startTs' = [startTs EXCEPT ![l] = start]
      /\ onset' = [onset EXCEPT ![l] = start] /\ ended' = ended \ {l}
      /\ UNCHANGED <<frame, phase, rec, streams>>
  BY <1>1 DEF FeedInterim, Hear
<1> HIDE DEF start, at, v
<1>4. TmInv'
  BY <1>1, <1>2, <1>3, InterimStep, WindowStep DEF SherpaInv, tmVars
<1>5. SherpaTypeOK'
  BY <1>1, <1>3, <1>4 DEF SherpaInv, SherpaTypeOK, TmInv
<1>6. UtteranceInv'
  BY <1>1, <1>3 DEF SherpaInv, SherpaTypeOK, UtteranceInv
<1>7. StreamInv'
  BY <1>3 DEF SherpaInv, StreamInv
<1> QED
  BY <1>4, <1>5, <1>6, <1>7 DEF SherpaInv

-----------------------------------------------------------------------------
\* The engine's inductive invariant.
THEOREM SherpaInvariant == SherpaSpec => []SherpaInv
<1>1. SherpaInv /\ [SherpaNext]_sherpaVars => SherpaInv'
  <2> SUFFICES ASSUME SherpaInv, [SherpaNext]_sherpaVars PROVE SherpaInv'
    OBVIOUS
  <2>1. CASE Start
    BY <2>1, StartStep
  <2>2. CASE Stop
    BY <2>2, StopStep
  <2>3. CASE Window
    BY <2>3, WindowKeeps
  <2>4. ASSUME NEW l \in Lanes, Feed(l) PROVE SherpaInv'
    <3>1. PICK loud \in BOOLEAN, text \in Texts, ts \in Times :
            FeedEndpoint(l, loud, text, ts) \/ FeedInterim(l, loud, text, ts)
      BY <2>4 DEF Feed
    <3>2. text \in Nat /\ ts \in Nat
      BY EventAssumption
    <3> QED
      BY <3>1, <3>2, EndpointStep, InterimKeeps
  <2>5. CASE UNCHANGED sherpaVars
    <3>1. TmInv'
      BY <2>5, WindowStep DEF SherpaInv, sherpaVars
    <3> QED
      BY <2>5, <3>1 DEF SherpaInv, SherpaTypeOK, UtteranceInv, StreamInv, TmInv, sherpaVars,
                        laneVars, history, tmVars, modelVars
  <2> QED
    BY <2>1, <2>2, <2>3, <2>4, <2>5 DEF SherpaNext
<1> QED
  BY <1>1, SherpaInitial, PTL DEF SherpaSpec

\* What a step reports of a lane, interim or final: the first loud chunk of the
\* utterance its chunk belongs to, which there is.
LEMMA LineIsVoiced ==
  ASSUME SherpaInv, [SherpaNext]_sherpaVars, NEW l \in Lanes, NEW t \in Reported(l)
  PROVE  onset'[l] >= 0 /\ t = onset'[l]
<1>1. /\ pending \in [Lanes -> [text : Nat, ts : Nat]] /\ arrived \in Seq(Line)
      /\ onset \in [Lanes -> Nat \cup {-1}]
  BY DEF SherpaInv, SherpaTypeOK, TmTypeOK
<1>2. PICK k \in Lanes, loud \in BOOLEAN, text \in Texts, ts \in Times :
        FeedEndpoint(k, loud, text, ts) \/ FeedInterim(k, loud, text, ts)
  <2>1. CASE Window
    <3>1. \/ pending' = pending /\ arrived' = arrived
          \/ pending' = [i \in Lanes |-> NoLine] /\ arrived' = <<>>
      BY <2>1 DEF Window, Clear, ReadBase, Draw, modelVars
    <3> QED
      BY <1>1, <3>1 DEF Reported
  <2>2. CASE Start \/ Stop \/ UNCHANGED sherpaVars
    <3>1. pending' = pending /\ arrived' = arrived
      BY <2>2 DEF Start, Stop, sherpaVars, tmVars, modelVars
    <3> QED
      BY <1>1, <3>1 DEF Reported
  <2> QED
    BY <2>1, <2>2 DEF SherpaNext, Feed
<1>3. ts \in Nat
  BY EventAssumption
<1> DEFINE at == EventTs(k, loud, ts)
           v == Voiced(k, loud)
           first == Onset(k, loud, ts)
<1>4. v => at = first /\ first >= 0
  BY <1>3, StartIsHeard
<1>5. onset' = [onset EXCEPT ![k] = first]
  BY <1>2 DEF FeedEndpoint, FeedInterim
<1>6. \/ ApplyFinal(k, text, at) /\ v
      \/ ApplyInterim(k, text, at) /\ v
      \/ UNCHANGED modelVars
  BY <1>2 DEF FeedEndpoint, FeedInterim
<1> HIDE DEF at, v, first
<1>7. CASE ApplyFinal(k, text, at) /\ v
  <2>1. /\ pending' = [pending EXCEPT ![k] = NoLine]
        /\ arrived' \in {arrived, Append(arrived, [lane |-> k, text |-> text, ts |-> at])}
    BY <1>7 DEF ApplyFinal
  <2>2. pending'[l] \in {pending[l], NoLine}
    BY <1>1, <2>1
  <2>3. /\ Len(arrived') > Len(arrived) /\ arrived'[Len(arrived')].lane = l
        /\ t = arrived'[Len(arrived')].ts
    BY <2>2 DEF Reported
  <2>4. arrived' = Append(arrived, [lane |-> k, text |-> text, ts |-> at])
    BY <1>1, <2>1, <2>3
  <2>5. arrived'[Len(arrived')] = [lane |-> k, text |-> text, ts |-> at]
    BY <1>1, <2>4
  <2>6. l = k /\ t = at
    BY <2>3, <2>5
  <2> QED
    BY <1>1, <1>4, <1>5, <1>7, <2>6
<1>8. CASE ApplyInterim(k, text, at) /\ v
  <2>1. pending' = [pending EXCEPT ![k] = [text |-> text, ts |-> at]] /\ arrived' = arrived
    BY <1>8 DEF ApplyInterim
  <2>2. pending'[l] # pending[l] /\ t = pending'[l].ts
    BY <1>1, <2>1 DEF Reported
  <2>3. l = k /\ t = at
    BY <1>1, <2>1, <2>2
  <2> QED
    BY <1>1, <1>4, <1>5, <1>8, <2>3
<1>9. CASE UNCHANGED modelVars
  BY <1>1, <1>9 DEF Reported, modelVars
<1> QED
  BY <1>6, <1>7, <1>8, <1>9

\* No line, interim or final, is reported of an utterance none of whose chunks
\* was above the silence floor.
THEOREM SilenceIsQuiet == SherpaSpec => SilenceSaysNothing
<1>1. SherpaInv /\ [SherpaNext]_sherpaVars =>
        [\A l \in Lanes : Reported(l) # {} => onset'[l] >= 0]_sherpaVars
  BY LineIsVoiced
<1> QED
  BY <1>1, SherpaInvariant, PTL DEF SherpaSpec, SilenceSaysNothing

\* Every line of an utterance, interim or final, carries the time of its first
\* chunk with signal.
THEOREM StartsAreShared == SherpaSpec => EventsShareTheStart
<1>1. SherpaInv /\ [SherpaNext]_sherpaVars =>
        [\A l \in Lanes :
           \A t \in Reported(l) : onset'[l] >= 0 => t = onset'[l]]_sherpaVars
  BY LineIsVoiced
<1> QED
  BY <1>1, SherpaInvariant, PTL DEF SherpaSpec, EventsShareTheStart

\* The transcript the engine reports to keeps what TranscriptModel promises:
\* finals sorted, none lost or out of its turn, no line before the baseline,
\* and the cues exported from it.
THEOREM SherpaKeepsTranscript ==
  SherpaSpec => [](SortedByTime /\ KeepsEveryFinal /\ BaselineIsEarliest /\ CuesRunOn)
<1>1. SherpaInv => SortedByTime /\ KeepsEveryFinal /\ BaselineIsEarliest /\ CuesRunOn
  BY CuesOfInvariant DEF SherpaInv, TmInv
<1> QED
  BY <1>1, SherpaInvariant, PTL
=============================================================================
