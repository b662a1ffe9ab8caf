---------------------------- MODULE SherpaEngine ----------------------------
(***************************************************************************)
(* The streaming engine (stt/sherpa_engine.cpp) reporting to the           *)
(* transcript.  start(), feed() and stop() hold mu_ throughout, the        *)
(* callback into TranscriptModel included, so each is one action; the      *)
(* feeding threads of the lanes, stop() and the window interleave.         *)
(*                                                                         *)
(* External: the recognizer's text so far and its endpoint decision, after *)
(* each chunk, are arbitrary; a lane's capture times do not go backwards.  *)
(***************************************************************************)
EXTENDS TranscriptModel

CONSTANT Provider     \* opts_.provider: "cpu" or a GPU provider
ASSUME ProviderAssumption == Provider \in {"cpu", "cuda"}

VARIABLES
  phase,          \* what the owner has called: new, up, failed, stopped
  rec,            \* rec_ as the provider it runs on (effectiveProvider_), or "none"
  streams,        \* lanes with a stream
  lastInterim,    \* lastInterim_
  voiced,         \* voiced_
  startTs,        \* utteranceStartTsMs_
  now,            \* capture time of each lane's last chunk
  onset,          \* history: the first loud chunk of the utterance that each
                  \* lane's last chunk belonged to, -1 if none was loud
  ended           \* history: lanes whose last chunk ended its utterance

history == <<onset, ended>>
laneVars == <<lastInterim, voiced, startTs, now, history>>
sherpaVars == <<tmVars, phase, rec, streams, laneVars>>

SherpaTypeOK ==
  /\ TmTypeOK
  /\ phase \in {"new", "up", "failed", "stopped"}
  /\ rec \in {"none", "cpu", Provider} /\ streams \subseteq Lanes
  /\ lastInterim \in [Lanes -> Nat] /\ startTs \in [Lanes -> Nat \cup {-1}]
  /\ voiced \in [Lanes -> BOOLEAN]
  /\ onset \in [Lanes -> Nat \cup {-1}] /\ ended \subseteq Lanes
  /\ now \in [Lanes -> Nat]

SherpaInit ==
  /\ TmInit
  /\ phase = "new" /\ rec = "none" /\ streams = {}
  /\ lastInterim = [l \in Lanes |-> 0]
  /\ voiced = [l \in Lanes |-> FALSE]
  /\ startTs = [l \in Lanes |-> -1] /\ now = [l \in Lanes |-> 0]
  /\ onset = startTs /\ ended = {}

-----------------------------------------------------------------------------
\* createRecognizer(): the GPU runtime answers, the model files are complete,
\* and the library neither fails nor throws.
CreatesRecognizer(provider, gpu, model) == (provider = "cpu" \/ gpu) /\ model

\* start(): the requested provider, else the CPU; then a stream per lane.
Start ==
  /\ phase = "new"
  /\ \E gpu, model \in BOOLEAN, made \in SUBSET Lanes :
       IF CreatesRecognizer(Provider, gpu, model) \/ CreatesRecognizer("cpu", gpu, model)
       THEN /\ rec' = IF CreatesRecognizer(Provider, gpu, model) THEN Provider ELSE "cpu"
            /\ streams' = made
            /\ phase' = IF made = Lanes THEN "up" ELSE "failed"
       ELSE phase' = "failed" /\ UNCHANGED <<rec, streams>>
  /\ UNCHANGED <<tmVars, laneVars>>

\* What feed() resets at an endpoint, reported or not.
AfterEndpoint(l) ==
  /\ lastInterim' = [lastInterim EXCEPT ![l] = 0]
  /\ voiced' = [voiced EXCEPT ![l] = FALSE]
  /\ startTs' = [startTs EXCEPT ![l] = -1]

Voiced(l, loud) == voiced[l] \/ loud

\* The start of the utterance: its first chunk with signal.
StartWith(l, loud, ts) == IF loud /\ ~voiced[l] THEN ts ELSE startTs[l]

\* The time an event of this chunk carries.
EventTs(l, loud, ts) ==
  IF StartWith(l, loud, ts) >= 0 THEN StartWith(l, loud, ts) ELSE ts

\* The history, which knows only the chunks and where utterances end.
Onset(l, loud, ts) ==
  LET before == IF l \in ended THEN -1 ELSE onset[l]
  IN  IF before < 0 /\ loud THEN ts ELSE before

\* Pipeline feeds an engine between its start() and its stop() only (see
\* EngineOutlivesWorkers), so feed() always finds a recognizer and a stream.
Hear(l, ts) ==
  /\ phase = "up" /\ ts >= now[l]
  /\ now' = [now EXCEPT ![l] = ts]

\* Mutant: a final is reported without a look at voiced_.
FeedEndpoint_Ungated(l, loud, text, ts) ==
  /\ Hear(l, ts)
  /\ IF text # 0
     THEN Len(arrived) < MaxFinals /\ ApplyFinal(l, text, EventTs(l, loud, ts))
     ELSE UNCHANGED modelVars
  /\ AfterEndpoint(l)
  /\ onset' = [onset EXCEPT ![l] = Onset(l, loud, ts)] /\ ended' = ended \cup {l}
  /\ UNCHANGED <<frame, phase, rec, streams>>

\* Mutant: a final carries the time of its last chunk.
FeedEndpoint_OwnTime(l, loud, text, ts) ==
  /\ Hear(l, ts)
  /\ IF text # 0 /\ Voiced(l, loud)
     THEN Len(arrived) < MaxFinals /\ ApplyFinal(l, text, ts)
     ELSE UNCHANGED modelVars
  /\ AfterEndpoint(l)
  /\ onset' = [onset EXCEPT ![l] = Onset(l, loud, ts)] /\ ended' = ended \cup {l}
  /\ UNCHANGED <<frame, phase, rec, streams>>

\* feed() when the recognizer has found an endpoint.
FeedEndpoint(l, loud, text, ts) ==
  /\ Hear(l, ts)
  /\ IF text # 0 /\ Voiced(l, loud)
     THEN Len(arrived) < MaxFinals /\ ApplyFinal(l, text, EventTs(l, loud, ts))
     ELSE UNCHANGED modelVars
  /\ AfterEndpoint(l)
  /\ onset' = [onset EXCEPT ![l] = Onset(l, loud, ts)] /\ ended' = ended \cup {l}
  /\ UNCHANGED <<frame, phase, rec, streams>>

\* feed() in the middle of an utterance: report the text if it changed.
FeedInterim(l, loud, text, ts) ==
  /\ Hear(l, ts)
  /\ IF text # lastInterim[l] /\ text # 0 /\ Voiced(l, loud)
     THEN ApplyInterim(l, text, EventTs(l, loud, ts))
     ELSE UNCHANGED modelVars
  /\ lastInterim' = [lastInterim EXCEPT ![l] = text]
  /\ voiced' = [voiced EXCEPT ![l] = Voiced(l, loud)]
  /\ startTs' = [startTs EXCEPT ![l] = StartWith(l, loud, ts)]
  /\ onset' = [onset EXCEPT ![l] = Onset(l, loud, ts)] /\ ended' = ended \ {l}
  /\ UNCHANGED <<frame, phase, rec, streams>>

\* stop(), also by the destructor; what was heard is not flushed.
Stop ==
  /\ phase \in {"up", "failed"} /\ phase' = "stopped"
  /\ streams' = {} /\ rec' = "none"
  /\ UNCHANGED <<tmVars, laneVars>>

Feed(l) ==
  \E loud \in BOOLEAN, text \in Texts, ts \in Times :
    FeedEndpoint(l, loud, text, ts) \/ FeedInterim(l, loud, text, ts)

Window == (Clear \/ ReadBase \/ Draw) /\ UNCHANGED <<phase, rec, streams, laneVars>>

SherpaNext == Start \/ Stop \/ Window \/ \E l \in Lanes : Feed(l)

SherpaSpec == SherpaInit /\ [][SherpaNext]_sherpaVars

-----------------------------------------------------------------------------
\* The times of the lines of lane l a step reports: a new interim, a new final.
Reported(l) ==
  (IF pending'[l] \in {pending[l], NoLine} THEN {} ELSE {pending'[l].ts})
  \cup (IF Len(arrived') > Len(arrived) /\ arrived'[Len(arrived')].lane = l
          THEN {arrived'[Len(arrived')].ts} ELSE {})

\* sherpa_engine.h:50-53 (voiced_): no line, interim or final, is reported of
\* an utterance in which no chunk was above the silence floor, however the
\* recognizer's text came about.
SilenceSaysNothing == [][\A l \in Lanes : Reported(l) # {} => onset'[l] >= 0]_sherpaVars

\* sherpa_engine.cpp:284-287: every line of an utterance, its interims and its
\* final, carries the time of its first chunk with signal, so a line does not
\* move when it is revised or becomes final.
EventsShareTheStart ==
  [][\A l \in Lanes : \A t \in Reported(l) : onset'[l] >= 0 => t = onset'[l]]_sherpaVars
=============================================================================
