---------------------------- MODULE Control_proof ----------------------------
(***************************************************************************)
(* Proofs about what a user starts and stops: the desktop process with its *)
(* engine swaps, for any modes and any number of launches and swaps; and   *)
(* the extension's offscreen document and service worker, for any number   *)
(* of attempts, sockets, messages and clicks.                              *)
(***************************************************************************)
EXTENDS App, Extension, FiniteSetTheorems, SequenceTheorems, TLAPS

-----------------------------------------------------------------------------
(* The inductive invariant behind OneChain and ShownModeRuns.              *)

Framing == {"pump", "look", "widgets"}
Saved == {"saveModal", "writeModal", "swap"}
Working == {"stopPipeline", "stopEngine", "startEngine", "startPipeline", "publish",
            "flipReady", "flipFailed"}

\* What runs is what the three holders hold, and each holds a whole chain or
\* the part of one that is being built or taken down.
HolderInv ==
  /\ running = {engine, swap.engine, result.engine} \ {0}
  /\ listening = {pipeline, swap.pipeline, result.pipeline} \ {0}
  /\ pipeline \in {0, engine} /\ swap.pipeline \in {0, swap.engine}
  /\ result.pipeline = result.engine
  /\ {engine, swap.engine, result.engine} \subseteq Engines

\* Only one of them holds anything: the main thread before and after a swap,
\* the worker during it, the result between its last two steps and adoption.
HandOverInv ==
  /\ swap.pc # "none" => engine = 0 /\ pipeline = 0
  /\ swap.pc \notin {"stopPipeline", "stopEngine", "startPipeline", "publish"} => swap.engine = 0
  /\ swap.pc \notin {"stopPipeline", "publish"} => swap.pipeline = 0
  /\ swap.pc = "publish" => swap.pipeline = swap.engine
  /\ swap.pc \in {"startPipeline", "publish"} => swap.engine # 0
  /\ result.engine # 0 => swap.pc = "flipReady" \/ (swap.pc = "ended" /\ swapState = "ready")

\* Where the main thread is against the worker: a new swap begins only after
\* the last one has been adopted, although swapState is loaded twice a frame.
TurnInv ==
  /\ ui \notin Framing \cup Saved \cup {"join"} => swap.pc = "none"
  /\ ui \in Framing \cup Saved \cup {"join"} =>
       /\ swapState = "idle" <=> swap.pc = "none"
       /\ swapState = "working" <=> swap.pc \in Working
       /\ swapState \in {"ready", "failed"} <=> swap.pc = "ended"
  /\ ui \in {"off", "setup", "saveSetup", "writeSetup", "engine"} => engine = 0 /\ pipeline = 0
  /\ ui \notin Framing \cup Saved \cup {"join", "stopPipeline", "stopEngine"} => swapState = "idle"
  /\ ui \in {"pipeline", "stopEngine"} => pipeline = 0
  /\ ui \in {"pump", "widgets"} /\ modal => swapState # "working"
  /\ ui \in {"look", "widgets"} /\ modal => swapState = "idle"
  /\ ui \in Framing /\ reopen => swapState = "idle"
  /\ ui \in Saved => swapState = "idle" /\ ~reopen
  /\ ui = "widgets" /\ ~swapping => swapState # "working"

\* For which mode what runs was built.
ModeInv ==
  /\ DOMAIN builtFor = Engines
  /\ ui = "pipeline" => engine # 0
  /\ ui \in Framing \cup {"pipeline"} /\ engine # 0 => builtFor[engine] = cfg.mode
  /\ ui \in Framing => pipeline = engine
  /\ ui \in Framing /\ swap.pc # "none" => swap.mode = cfg.mode
  /\ swap.pc \in {"startPipeline", "publish"} => builtFor[swap.engine] = swap.mode
  /\ result.engine # 0 => builtFor[result.engine] = swap.mode
  /\ swap.pc = "flipFailed" \/ swapState = "failed" => result.error
  /\ ui \in Framing /\ engine = 0 /\ swap.pc = "none" => engineError
  /\ swap.pc = "flipReady" \/ (swapState = "ready" /\ swap.pc = "ended") => result.engine # 0

Shapes ==
  /\ swap = [pc |-> swap.pc, engine |-> swap.engine, pipeline |-> swap.pipeline, mode |-> swap.mode]
  /\ result = [engine |-> result.engine, pipeline |-> result.pipeline, error |-> result.error]

ChainInv == Shapes /\ HolderInv /\ HandOverInv /\ TurnInv /\ ModeInv

-----------------------------------------------------------------------------
(* The inductive invariant behind SettingsSurvive.                         *)

Settled == {"saveSetup", "saveModal", "writeSetup", "writeModal"}
Choosing == {"setup", "saveSetup", "writeSetup"}

\* The file holds what was settled last, unless a save is about to begin or
\* something was taken away; so does cfg, which is what a save writes.  Nobody
\* chooses in a headless launch.
DiskInv ==
  /\ cfg.key \in BOOLEAN /\ picked.key \in BOOLEAN
  /\ excused \in [mode : BOOLEAN, key : BOOLEAN]
  /\ ui \notin {"saveSetup", "saveModal"} =>
       /\ file.kind = "whole" => /\ picked.mode # NoMode
                                 /\ Loaded(file, TRUE).mode = picked.mode \/ excused.mode
       /\ file.kind # "torn" => Loaded(file, TRUE).key = picked.key \/ excused.key
  /\ ui # "off" => cfg.key = picked.key \/ excused.key
  /\ ui \in Settled => cfg.mode = picked.mode /\ picked.mode \in Modes
  /\ ui \in Choosing => ~flags.headless
  /\ file.kind # "whole" => file.mode = NoMode
  /\ SettingsSurvive

-----------------------------------------------------------------------------
(* The proofs.                                                             *)

\* A new engine gets a number that is none of those running.
LEMMA FreshEngine == NewEngine \in Engines \ {0} /\ (running = {} => NewEngine \notin running)
BY DEF NewEngine, Engines

LEMMA ChainInitial == AppInit => ChainInv
BY DEF AppInit, ChainInv, Shapes, HolderInv, HandOverInv, TurnInv, ModeInv, NoSwap, NoResult,
   Framing, Saved, Working, Engines

-----------------------------------------------------------------------------
(* One lemma per action.                                                   *)

LEMMA LaunchKeeps ==
  ASSUME ChainInv, NEW args, NEW unprotects, Launch(args, unprotects)
  PROVE  ChainInv'
<1>1. Shapes'
  BY DEF ChainInv, Shapes, Launch, settings, objects, worker, frame, counts
<1>2. HolderInv'
  BY DEF ChainInv, Shapes, HolderInv, HandOverInv, TurnInv, Framing, Saved, Working, Launch, settings, objects, worker, frame, counts
<1>3. HandOverInv'
  BY DEF ChainInv, Shapes, HolderInv, HandOverInv, TurnInv, Framing, Saved, Working, Launch, settings, objects, worker, frame, counts
<1>4. TurnInv'
  BY DEF ChainInv, Shapes, TurnInv, Framing, Saved, Working, Launch, settings, objects, worker, frame, counts
<1>5. ModeInv'
  BY DEF ChainInv, Shapes, HolderInv, HandOverInv, TurnInv, ModeInv, Framing, Saved, Working, Engines, Launch, settings, objects, worker, frame, counts
<1> QED
  BY <1>1, <1>2, <1>3, <1>4, <1>5 DEF ChainInv

LEMMA ChooseModeKeeps ==
  ASSUME ChainInv, NEW m, NEW ask, NEW field, ChooseMode(m, ask, field)
  PROVE  ChainInv'
<1>1. Shapes'
  BY DEF ChainInv, Shapes, ChooseMode, Settle, settings, objects, worker, frame, counts
<1>2. HolderInv'
  BY DEF ChainInv, Shapes, HolderInv, HandOverInv, TurnInv, Framing, Saved, Working, ChooseMode, Settle, settings, objects, worker, frame, counts
<1>3. HandOverInv'
  BY DEF ChainInv, Shapes, HolderInv, HandOverInv, TurnInv, Framing, Saved, Working, ChooseMode, Settle, settings, objects, worker, frame, counts
<1>4. TurnInv'
  BY DEF ChainInv, Shapes, TurnInv, Framing, Saved, Working, ChooseMode, Settle, settings, objects, worker, frame, counts
<1>5. ModeInv'
  BY DEF ChainInv, Shapes, HolderInv, HandOverInv, TurnInv, ModeInv, Framing, Saved, Working, Engines, ChooseMode, Settle, settings, objects, worker, frame, counts
<1> QED
  BY <1>1, <1>2, <1>3, <1>4, <1>5 DEF ChainInv

LEMMA SetupClosedKeeps ==
  ASSUME ChainInv, SetupClosed
  PROVE  ChainInv'
<1>1. Shapes'
  BY DEF ChainInv, Shapes, SetupClosed, ProcessEnds, settings, objects, worker, frame, counts, NoSwap, NoResult
<1>2. HolderInv'
  BY DEF ChainInv, Shapes, HolderInv, HandOverInv, TurnInv, Framing, Saved, Working, SetupClosed, ProcessEnds, settings, objects, worker, frame, counts, NoSwap, NoResult
<1>3. HandOverInv'
  BY DEF ChainInv, Shapes, HolderInv, HandOverInv, TurnInv, Framing, Saved, Working, SetupClosed, ProcessEnds, settings, objects, worker, frame, counts, NoSwap, NoResult
<1>4. TurnInv'
  BY DEF ChainInv, Shapes, TurnInv, Framing, Saved, Working, SetupClosed, ProcessEnds, settings, objects, worker, frame, counts, NoSwap, NoResult
<1>5. ModeInv'
  BY DEF ChainInv, Shapes, HolderInv, HandOverInv, TurnInv, ModeInv, Framing, Saved, Working, Engines, SetupClosed, ProcessEnds, settings, objects, worker, frame, counts, NoSwap, NoResult
<1> QED
  BY <1>1, <1>2, <1>3, <1>4, <1>5 DEF ChainInv

LEMMA SaveOpensKeeps ==
  ASSUME ChainInv, NEW ok, SaveOpens(ok)
  PROVE  ChainInv'
<1>1. Shapes'
  BY DEF ChainInv, Shapes, SaveOpens, settings, objects, worker, frame, counts
<1>2. HolderInv'
  BY DEF ChainInv, Shapes, HolderInv, HandOverInv, TurnInv, Framing, Saved, Working, SaveOpens, settings, objects, worker, frame, counts
<1>3. HandOverInv'
  BY DEF ChainInv, Shapes, HolderInv, HandOverInv, TurnInv, Framing, Saved, Working, SaveOpens, settings, objects, worker, frame, counts
<1>4. TurnInv'
  BY DEF ChainInv, Shapes, TurnInv, Framing, Saved, Working, SaveOpens, settings, objects, worker, frame, counts
<1>5. ModeInv'
  BY DEF ChainInv, Shapes, HolderInv, HandOverInv, TurnInv, ModeInv, Framing, Saved, Working, Engines, SaveOpens, settings, objects, worker, frame, counts
<1> QED
  BY <1>1, <1>2, <1>3, <1>4, <1>5 DEF ChainInv

LEMMA SaveWritesKeeps ==
  ASSUME ChainInv, NEW whole, NEW protects, SaveWrites(whole, protects)
  PROVE  ChainInv'
<1>1. Shapes'
  BY DEF ChainInv, Shapes, SaveWrites, settings, objects, worker, frame, counts
<1>2. HolderInv'
  BY DEF ChainInv, Shapes, HolderInv, HandOverInv, TurnInv, Framing, Saved, Working, SaveWrites, settings, objects, worker, frame, counts
<1>3. HandOverInv'
  BY DEF ChainInv, Shapes, HolderInv, HandOverInv, TurnInv, Framing, Saved, Working, SaveWrites, settings, objects, worker, frame, counts
<1>4. TurnInv'
  BY DEF ChainInv, Shapes, TurnInv, Framing, Saved, Working, SaveWrites, settings, objects, worker, frame, counts
<1>5. ModeInv'
  BY DEF ChainInv, Shapes, HolderInv, HandOverInv, TurnInv, ModeInv, Framing, Saved, Working, Engines, SaveWrites, settings, objects, worker, frame, counts
<1> QED
  BY <1>1, <1>2, <1>3, <1>4, <1>5 DEF ChainInv

LEMMA EngineStarts ==
  ASSUME ChainInv, ui = "engine", ui' = "pipeline",
         builtFor' = [builtFor EXCEPT ![NewEngine] = cfg.mode],
         engine' = NewEngine, running' = running \cup {NewEngine},
         UNCHANGED <<cfg, pipeline, listening, worker, frame>>
  PROVE  ChainInv'
<1>1. Shapes'
  BY DEF ChainInv, Shapes, worker, frame
<1>2. HolderInv'
  BY FreshEngine DEF ChainInv, Shapes, HolderInv, HandOverInv, TurnInv, Framing, Saved, Working, worker, frame
<1>3. HandOverInv'
  BY FreshEngine DEF ChainInv, Shapes, HolderInv, HandOverInv, TurnInv, Framing, Saved, Working, worker, frame
<1>4. TurnInv'
  BY DEF ChainInv, Shapes, TurnInv, Framing, Saved, Working, worker, frame
<1>5. ModeInv'
  BY FreshEngine DEF ChainInv, Shapes, HolderInv, HandOverInv, TurnInv, ModeInv, Framing, Saved, Working, Engines, worker, frame
<1> QED
  BY <1>1, <1>2, <1>3, <1>4, <1>5 DEF ChainInv

LEMMA ProcessIsOver ==
  ASSUME ChainInv, ProcessEnds, running' = {}, listening' = {}
  PROVE  ChainInv'
<1>1. Shapes'
  BY DEF ChainInv, Shapes, ProcessEnds, NoSwap, NoResult
<1>2. HolderInv'
  BY DEF ChainInv, Shapes, HolderInv, HandOverInv, TurnInv, Framing, Saved, Working, ProcessEnds, NoSwap, NoResult
<1>3. HandOverInv'
  BY DEF ChainInv, Shapes, HolderInv, HandOverInv, TurnInv, Framing, Saved, Working, ProcessEnds, NoSwap, NoResult
<1>4. TurnInv'
  BY DEF ChainInv, Shapes, TurnInv, Framing, Saved, Working, ProcessEnds, NoSwap, NoResult
<1>5. ModeInv'
  BY DEF ChainInv, Shapes, HolderInv, HandOverInv, TurnInv, ModeInv, Framing, Saved, Working, Engines, ProcessEnds, NoSwap, NoResult
<1> QED
  BY <1>1, <1>2, <1>3, <1>4, <1>5 DEF ChainInv

LEMMA EngineFails ==
  ASSUME ChainInv, ui = "engine", ui' = "setup", UNCHANGED <<cfg, objects, worker, frame>>
  PROVE  ChainInv'
BY DEF ChainInv, Shapes, HolderInv, HandOverInv, TurnInv, ModeInv, Framing, Saved, Working, objects, worker, frame

LEMMA StartEngineKeeps ==
  ASSUME ChainInv, NEW ok, StartEngine(ok)
  PROVE  ChainInv'
<1>1. CASE ok
  BY <1>1, EngineStarts DEF StartEngine
<1>2. CASE ~ok /\ ProcessEnds
  <2>1. running = {} /\ listening = {}
    BY DEF ChainInv, HolderInv, HandOverInv, TurnInv, Framing, Saved, StartEngine
  <2> QED
    BY <1>2, <2>1, ProcessIsOver DEF StartEngine
<1>3. CASE ~ok /\ ~ProcessEnds
  BY <1>3, EngineFails DEF StartEngine, objects
<1> QED
  BY <1>1, <1>2, <1>3

LEMMA PipelineStarts ==
  ASSUME ChainInv, ui = "pipeline", ui' \in {"headless", "pump"},
         pipeline' = engine, listening' = listening \cup {engine},
         UNCHANGED <<cfg, builtFor, engine, running, worker, frame>>
  PROVE  ChainInv'
<1>1. Shapes'
  BY DEF ChainInv, Shapes, worker, frame
<1>2. HolderInv'
  <2>1. /\ engine # 0 /\ pipeline = 0 /\ swap.pc = "none"
        /\ swap.engine = 0 /\ swap.pipeline = 0 /\ result.engine = 0 /\ result.pipeline = 0
    BY DEF ChainInv, HolderInv, HandOverInv, TurnInv, ModeInv, Framing, Saved
  <2>2. running = {engine} /\ listening = {}
    BY <2>1 DEF ChainInv, HolderInv
  <2>3. listening' = {pipeline', swap'.pipeline, result'.pipeline} \ {0}
    BY <2>1, <2>2 DEF worker
  <2> QED
    BY <2>1, <2>2, <2>3 DEF ChainInv, HolderInv, worker
<1>3. HandOverInv'
  BY DEF ChainInv, Shapes, HolderInv, HandOverInv, TurnInv, Framing, Saved, Working, worker, frame
<1>4. TurnInv'
  BY DEF ChainInv, Shapes, TurnInv, Framing, Saved, Working, worker, frame
<1>5. ModeInv'
  BY DEF ChainInv, Shapes, HolderInv, HandOverInv, TurnInv, ModeInv, Framing, Saved, Working, Engines, worker, frame
<1> QED
  BY <1>1, <1>2, <1>3, <1>4, <1>5 DEF ChainInv

LEMMA StartPipelineKeeps ==
  ASSUME ChainInv, NEW ok, StartPipeline(ok)
  PROVE  ChainInv'
<1>1. CASE ok
  BY <1>1, PipelineStarts DEF StartPipeline
<1>2. CASE ~ok
  <2>1. running = {engine} \ {0} /\ listening = {}
    BY DEF ChainInv, HolderInv, HandOverInv, TurnInv, Framing, Saved, StartPipeline
  <2> QED
    BY <1>2, <2>1, ProcessIsOver DEF StartPipeline
<1> QED
  BY <1>1, <1>2

LEMMA HeadlessEndsKeeps ==
  ASSUME ChainInv, HeadlessEnds
  PROVE  ChainInv'
<1>1. Shapes'
  BY DEF ChainInv, Shapes, HeadlessEnds, settings, objects, worker, frame, counts
<1>2. HolderInv'
  BY DEF ChainInv, Shapes, HolderInv, HandOverInv, TurnInv, Framing, Saved, Working, HeadlessEnds, settings, objects, worker, frame, counts
<1>3. HandOverInv'
  BY DEF ChainInv, Shapes, HolderInv, HandOverInv, TurnInv, Framing, Saved, Working, HeadlessEnds, settings, objects, worker, frame, counts
<1>4. TurnInv'
  BY DEF ChainInv, Shapes, TurnInv, Framing, Saved, Working, HeadlessEnds, settings, objects, worker, frame, counts
<1>5. ModeInv'
  BY DEF ChainInv, Shapes, HolderInv, HandOverInv, TurnInv, ModeInv, Framing, Saved, Working, Engines, HeadlessEnds, settings, objects, worker, frame, counts
<1> QED
  BY <1>1, <1>2, <1>3, <1>4, <1>5 DEF ChainInv

LEMMA QuitKeeps ==
  ASSUME ChainInv, Quit
  PROVE  ChainInv'
<1>1. Shapes'
  BY DEF ChainInv, Shapes, Quit, settings, objects, worker, frame, counts
<1>2. HolderInv'
  BY DEF ChainInv, Shapes, HolderInv, HandOverInv, TurnInv, Framing, Saved, Working, Quit, settings, objects, worker, frame, counts
<1>3. HandOverInv'
  BY DEF ChainInv, Shapes, HolderInv, HandOverInv, TurnInv, Framing, Saved, Working, Quit, settings, objects, worker, frame, counts
<1>4. TurnInv'
  BY DEF ChainInv, Shapes, TurnInv, Framing, Saved, Working, Quit, settings, objects, worker, frame, counts
<1>5. ModeInv'
  BY DEF ChainInv, Shapes, HolderInv, HandOverInv, TurnInv, ModeInv, Framing, Saved, Working, Engines, Quit, settings, objects, worker, frame, counts
<1> QED
  BY <1>1, <1>2, <1>3, <1>4, <1>5 DEF ChainInv

LEMMA AdoptKeeps ==
  ASSUME ChainInv, Adopt
  PROVE  ChainInv'
<1>1. Shapes'
  BY DEF ChainInv, Shapes, Adopt, settings, objects, worker, frame, counts, NoSwap, NoResult
<1>2. HolderInv'
  BY DEF ChainInv, Shapes, HolderInv, HandOverInv, TurnInv, Framing, Saved, Working, Adopt, settings, objects, worker, frame, counts, NoSwap, NoResult
<1>3. HandOverInv'
  BY DEF ChainInv, Shapes, HolderInv, HandOverInv, TurnInv, Framing, Saved, Working, Adopt, settings, objects, worker, frame, counts, NoSwap, NoResult
<1>4. TurnInv'
  BY DEF ChainInv, Shapes, TurnInv, Framing, Saved, Working, Adopt, settings, objects, worker, frame, counts, NoSwap, NoResult
<1>5. ModeInv'
  BY DEF ChainInv, Shapes, HolderInv, HandOverInv, TurnInv, ModeInv, Framing, Saved, Working, Engines, Adopt, settings, objects, worker, frame, counts, NoSwap, NoResult
<1> QED
  BY <1>1, <1>2, <1>3, <1>4, <1>5 DEF ChainInv

LEMMA LookKeeps ==
  ASSUME ChainInv, Look
  PROVE  ChainInv'
<1>1. Shapes'
  BY DEF ChainInv, Shapes, Look, settings, objects, worker, frame, counts
<1>2. HolderInv'
  BY DEF ChainInv, Shapes, HolderInv, HandOverInv, TurnInv, Framing, Saved, Working, Look, settings, objects, worker, frame, counts
<1>3. HandOverInv'
  BY DEF ChainInv, Shapes, HolderInv, HandOverInv, TurnInv, Framing, Saved, Working, Look, settings, objects, worker, frame, counts
<1>4. TurnInv'
  BY DEF ChainInv, Shapes, TurnInv, Framing, Saved, Working, Look, settings, objects, worker, frame, counts
<1>5. ModeInv'
  BY DEF ChainInv, Shapes, HolderInv, HandOverInv, TurnInv, ModeInv, Framing, Saved, Working, Engines, Look, settings, objects, worker, frame, counts
<1> QED
  BY <1>1, <1>2, <1>3, <1>4, <1>5 DEF ChainInv

LEMMA FrameDoneKeeps ==
  ASSUME ChainInv, FrameDone
  PROVE  ChainInv'
<1>1. Shapes'
  BY DEF ChainInv, Shapes, FrameDone, settings, objects, worker, frame, counts
<1>2. HolderInv'
  BY DEF ChainInv, Shapes, HolderInv, HandOverInv, TurnInv, Framing, Saved, Working, FrameDone, settings, objects, worker, frame, counts
<1>3. HandOverInv'
  BY DEF ChainInv, Shapes, HolderInv, HandOverInv, TurnInv, Framing, Saved, Working, FrameDone, settings, objects, worker, frame, counts
<1>4. TurnInv'
  BY DEF ChainInv, Shapes, TurnInv, Framing, Saved, Working, FrameDone, settings, objects, worker, frame, counts
<1>5. ModeInv'
  BY DEF ChainInv, Shapes, HolderInv, HandOverInv, TurnInv, ModeInv, Framing, Saved, Working, Engines, FrameDone, settings, objects, worker, frame, counts
<1> QED
  BY <1>1, <1>2, <1>3, <1>4, <1>5 DEF ChainInv

LEMMA OpenSettingsKeeps ==
  ASSUME ChainInv, OpenSettings
  PROVE  ChainInv'
<1>1. Shapes'
  BY DEF ChainInv, Shapes, OpenSettings, settings, objects, worker, frame, counts
<1>2. HolderInv'
  BY DEF ChainInv, Shapes, HolderInv, HandOverInv, TurnInv, Framing, Saved, Working, OpenSettings, settings, objects, worker, frame, counts
<1>3. HandOverInv'
  BY DEF ChainInv, Shapes, HolderInv, HandOverInv, TurnInv, Framing, Saved, Working, OpenSettings, settings, objects, worker, frame, counts
<1>4. TurnInv'
  BY DEF ChainInv, Shapes, TurnInv, Framing, Saved, Working, OpenSettings, settings, objects, worker, frame, counts
<1>5. ModeInv'
  BY DEF ChainInv, Shapes, HolderInv, HandOverInv, TurnInv, ModeInv, Framing, Saved, Working, Engines, OpenSettings, settings, objects, worker, frame, counts
<1> QED
  BY <1>1, <1>2, <1>3, <1>4, <1>5 DEF ChainInv

LEMMA CloseSettingsKeeps ==
  ASSUME ChainInv, CloseSettings
  PROVE  ChainInv'
<1>1. Shapes'
  BY DEF ChainInv, Shapes, CloseSettings, settings, objects, worker, frame, counts
<1>2. HolderInv'
  BY DEF ChainInv, Shapes, HolderInv, HandOverInv, TurnInv, Framing, Saved, Working, CloseSettings, settings, objects, worker, frame, counts
<1>3. HandOverInv'
  BY DEF ChainInv, Shapes, HolderInv, HandOverInv, TurnInv, Framing, Saved, Working, CloseSettings, settings, objects, worker, frame, counts
<1>4. TurnInv'
  BY DEF ChainInv, Shapes, TurnInv, Framing, Saved, Working, CloseSettings, settings, objects, worker, frame, counts
<1>5. ModeInv'
  BY DEF ChainInv, Shapes, HolderInv, HandOverInv, TurnInv, ModeInv, Framing, Saved, Working, Engines, CloseSettings, settings, objects, worker, frame, counts
<1> QED
  BY <1>1, <1>2, <1>3, <1>4, <1>5 DEF ChainInv

LEMMA PickKeeps ==
  ASSUME ChainInv, NEW m, NEW ask, NEW field, Pick(m, ask, field)
  PROVE  ChainInv'
<1>1. Shapes'
  BY DEF ChainInv, Shapes, Pick, Settle, settings, objects, worker, frame, counts
<1>2. HolderInv'
  BY DEF ChainInv, Shapes, HolderInv, HandOverInv, TurnInv, Framing, Saved, Working, Pick, Settle, settings, objects, worker, frame, counts
<1>3. HandOverInv'
  BY DEF ChainInv, Shapes, HolderInv, HandOverInv, TurnInv, Framing, Saved, Working, Pick, Settle, settings, objects, worker, frame, counts
<1>4. TurnInv'
  BY DEF ChainInv, Shapes, TurnInv, Framing, Saved, Working, Pick, Settle, settings, objects, worker, frame, counts
<1>5. ModeInv'
  BY DEF ChainInv, Shapes, HolderInv, HandOverInv, TurnInv, ModeInv, Framing, Saved, Working, Engines, Pick, Settle, settings, objects, worker, frame, counts
<1> QED
  BY <1>1, <1>2, <1>3, <1>4, <1>5 DEF ChainInv

LEMMA BeginEngineSwapKeeps ==
  ASSUME ChainInv, BeginEngineSwap
  PROVE  ChainInv'
<1>1. Shapes'
  BY DEF ChainInv, Shapes, BeginEngineSwap, settings, objects, worker, frame, counts
<1>2. HolderInv'
  BY DEF ChainInv, Shapes, HolderInv, HandOverInv, TurnInv, Framing, Saved, Working, BeginEngineSwap, settings, objects, worker, frame, counts
<1>3. HandOverInv'
  BY DEF ChainInv, Shapes, HolderInv, HandOverInv, TurnInv, Framing, Saved, Working, BeginEngineSwap, settings, objects, worker, frame, counts
<1>4. TurnInv'
  BY DEF ChainInv, Shapes, TurnInv, Framing, Saved, Working, BeginEngineSwap, settings, objects, worker, frame, counts
<1>5. ModeInv'
  BY DEF ChainInv, Shapes, HolderInv, HandOverInv, TurnInv, ModeInv, Framing, Saved, Working, Engines, BeginEngineSwap, settings, objects, worker, frame, counts
<1> QED
  BY <1>1, <1>2, <1>3, <1>4, <1>5 DEF ChainInv

LEMMA SwapStopsPipelineKeeps ==
  ASSUME ChainInv, SwapStopsPipeline
  PROVE  ChainInv'
<1>1. Shapes'
  BY DEF ChainInv, Shapes, SwapStopsPipeline, settings, objects, worker, frame, counts
<1>2. HolderInv'
  BY DEF ChainInv, Shapes, HolderInv, HandOverInv, TurnInv, Framing, Saved, Working, SwapStopsPipeline, settings, objects, worker, frame, counts
<1>3. HandOverInv'
  BY DEF ChainInv, Shapes, HolderInv, HandOverInv, TurnInv, Framing, Saved, Working, SwapStopsPipeline, settings, objects, worker, frame, counts
<1>4. TurnInv'
  BY DEF ChainInv, Shapes, TurnInv, Framing, Saved, Working, SwapStopsPipeline, settings, objects, worker, frame, counts
<1>5. ModeInv'
  BY DEF ChainInv, Shapes, HolderInv, HandOverInv, TurnInv, ModeInv, Framing, Saved, Working, Engines, SwapStopsPipeline, settings, objects, worker, frame, counts
<1> QED
  BY <1>1, <1>2, <1>3, <1>4, <1>5 DEF ChainInv

LEMMA SwapStopsEngineKeeps ==
  ASSUME ChainInv, SwapStopsEngine
  PROVE  ChainInv'
<1>1. Shapes'
  BY DEF ChainInv, Shapes, SwapStopsEngine, settings, objects, worker, frame, counts
<1>2. HolderInv'
  BY DEF ChainInv, Shapes, HolderInv, HandOverInv, TurnInv, Framing, Saved, Working, SwapStopsEngine, settings, objects, worker, frame, counts
<1>3. HandOverInv'
  BY DEF ChainInv, Shapes, HolderInv, HandOverInv, TurnInv, Framing, Saved, Working, SwapStopsEngine, settings, objects, worker, frame, counts
<1>4. TurnInv'
  BY DEF ChainInv, Shapes, TurnInv, Framing, Saved, Working, SwapStopsEngine, settings, objects, worker, frame, counts
<1>5. ModeInv'
  BY DEF ChainInv, Shapes, HolderInv, HandOverInv, TurnInv, ModeInv, Framing, Saved, Working, Engines, SwapStopsEngine, settings, objects, worker, frame, counts
<1> QED
  BY <1>1, <1>2, <1>3, <1>4, <1>5 DEF ChainInv

LEMMA SwapStartsEngineKeeps ==
  ASSUME ChainInv, NEW ok, SwapStartsEngine(ok)
  PROVE  ChainInv'
<1>1. Shapes'
  BY DEF ChainInv, Shapes, SwapStartsEngine, settings, objects, worker, frame, counts
<1>2. HolderInv'
  BY FreshEngine DEF ChainInv, Shapes, HolderInv, HandOverInv, TurnInv, Framing, Saved, Working, SwapStartsEngine, settings, objects, worker, frame, counts
<1>3. HandOverInv'
  BY FreshEngine DEF ChainInv, Shapes, HolderInv, HandOverInv, TurnInv, Framing, Saved, Working, SwapStartsEngine, settings, objects, worker, frame, counts
<1>4. TurnInv'
  BY DEF ChainInv, Shapes, TurnInv, Framing, Saved, Working, SwapStartsEngine, settings, objects, worker, frame, counts
<1>5. ModeInv'
  <2>1. /\ swap.pc = "startEngine" /\ engine = 0 /\ pipeline = 0 /\ result.engine = 0
        /\ engine' = 0 /\ pipeline' = 0 /\ UNCHANGED <<ui, cfg, swapState, engineError>>
    BY DEF ChainInv, HandOverInv, SwapStartsEngine, settings, frame
  <2>2. DOMAIN builtFor = Engines /\ (ui \in Framing => swap.mode = cfg.mode) /\ ui # "pipeline"
    BY <2>1 DEF ChainInv, TurnInv, ModeInv, Framing, Saved
  <2>3. swapState \notin {"ready", "failed"}
    BY <2>1 DEF ChainInv, TurnInv, Framing, Saved
  <2>4. CASE ok
    <3>1. swap' = [pc |-> "startPipeline", engine |-> NewEngine, pipeline |-> swap.pipeline,
                   mode |-> swap.mode] /\ result' = result
      BY <2>4 DEF ChainInv, Shapes, SwapStartsEngine
    <3>2. DOMAIN builtFor' = Engines /\ builtFor'[NewEngine] = swap.mode
      BY <2>2, <2>4, FreshEngine DEF SwapStartsEngine
    <3> QED
      BY <2>1, <2>2, <2>3, <3>1, <3>2 DEF ModeInv
  <2>5. CASE ~ok
    <3>1. swap' = [pc |-> "flipFailed", engine |-> swap.engine, pipeline |-> swap.pipeline,
                   mode |-> swap.mode] /\ builtFor' = builtFor
      BY <2>5 DEF ChainInv, Shapes, SwapStartsEngine
    <3>2. result' = [engine |-> result.engine, pipeline |-> result.pipeline, error |-> TRUE]
      BY <2>5 DEF ChainInv, Shapes, SwapStartsEngine
    <3> QED
      BY <2>1, <2>2, <2>3, <3>1, <3>2 DEF ModeInv
  <2> QED
    BY <2>4, <2>5
<1> QED
  BY <1>1, <1>2, <1>3, <1>4, <1>5 DEF ChainInv

LEMMA SwapStartsPipelineKeeps ==
  ASSUME ChainInv, NEW ok, SwapStartsPipeline(ok)
  PROVE  ChainInv'
<1>1. Shapes'
  BY DEF ChainInv, Shapes, SwapStartsPipeline, settings, objects, worker, frame, counts
<1>2. HolderInv'
  BY DEF ChainInv, Shapes, HolderInv, HandOverInv, TurnInv, Framing, Saved, Working, SwapStartsPipeline, settings, objects, worker, frame, counts
<1>3. HandOverInv'
  BY DEF ChainInv, Shapes, HolderInv, HandOverInv, TurnInv, Framing, Saved, Working, SwapStartsPipeline, settings, objects, worker, frame, counts
<1>4. TurnInv'
  BY DEF ChainInv, Shapes, TurnInv, Framing, Saved, Working, SwapStartsPipeline, settings, objects, worker, frame, counts
<1>5. ModeInv'
  BY DEF ChainInv, Shapes, HolderInv, HandOverInv, TurnInv, ModeInv, Framing, Saved, Working, Engines, SwapStartsPipeline, settings, objects, worker, frame, counts
<1> QED
  BY <1>1, <1>2, <1>3, <1>4, <1>5 DEF ChainInv

LEMMA SwapPublishesKeeps ==
  ASSUME ChainInv, SwapPublishes
  PROVE  ChainInv'
<1>1. Shapes'
  BY DEF ChainInv, Shapes, SwapPublishes, settings, objects, worker, frame, counts
<1>2. HolderInv'
  BY DEF ChainInv, Shapes, HolderInv, HandOverInv, TurnInv, Framing, Saved, Working, SwapPublishes, settings, objects, worker, frame, counts
<1>3. HandOverInv'
  BY DEF ChainInv, Shapes, HolderInv, HandOverInv, TurnInv, Framing, Saved, Working, SwapPublishes, settings, objects, worker, frame, counts
<1>4. TurnInv'
  BY DEF ChainInv, Shapes, TurnInv, Framing, Saved, Working, SwapPublishes, settings, objects, worker, frame, counts
<1>5. ModeInv'
  BY DEF ChainInv, Shapes, HolderInv, HandOverInv, TurnInv, ModeInv, Framing, Saved, Working, Engines, SwapPublishes, settings, objects, worker, frame, counts
<1> QED
  BY <1>1, <1>2, <1>3, <1>4, <1>5 DEF ChainInv

LEMMA SwapFlipsKeeps ==
  ASSUME ChainInv, SwapFlips
  PROVE  ChainInv'
<1>1. Shapes'
  BY DEF ChainInv, Shapes, SwapFlips, settings, objects, worker, frame, counts
<1>2. HolderInv'
  BY DEF ChainInv, Shapes, HolderInv, HandOverInv, TurnInv, Framing, Saved, Working, SwapFlips, settings, objects, worker, frame, counts
<1>3. HandOverInv'
  BY DEF ChainInv, Shapes, HolderInv, HandOverInv, TurnInv, Framing, Saved, Working, SwapFlips, settings, objects, worker, frame, counts
<1>4. TurnInv'
  BY DEF ChainInv, Shapes, TurnInv, Framing, Saved, Working, SwapFlips, settings, objects, worker, frame, counts
<1>5. ModeInv'
  BY DEF ChainInv, Shapes, HolderInv, HandOverInv, TurnInv, ModeInv, Framing, Saved, Working, Engines, SwapFlips, settings, objects, worker, frame, counts
<1> QED
  BY <1>1, <1>2, <1>3, <1>4, <1>5 DEF ChainInv

LEMMA JoinSwapKeeps ==
  ASSUME ChainInv, JoinSwap
  PROVE  ChainInv'
<1>1. Shapes'
  BY DEF ChainInv, Shapes, JoinSwap, settings, objects, worker, frame, counts, NoSwap, NoResult
<1>2. HolderInv'
  BY DEF ChainInv, Shapes, HolderInv, HandOverInv, TurnInv, Framing, Saved, Working, JoinSwap, settings, objects, worker, frame, counts, NoSwap, NoResult
<1>3. HandOverInv'
  BY DEF ChainInv, Shapes, HolderInv, HandOverInv, TurnInv, Framing, Saved, Working, JoinSwap, settings, objects, worker, frame, counts, NoSwap, NoResult
<1>4. TurnInv'
  BY DEF ChainInv, Shapes, TurnInv, Framing, Saved, Working, JoinSwap, settings, objects, worker, frame, counts, NoSwap, NoResult
<1>5. ModeInv'
  BY DEF ChainInv, Shapes, HolderInv, HandOverInv, TurnInv, ModeInv, Framing, Saved, Working, Engines, JoinSwap, settings, objects, worker, frame, counts, NoSwap, NoResult
<1> QED
  BY <1>1, <1>2, <1>3, <1>4, <1>5 DEF ChainInv

LEMMA StopPipelineKeeps ==
  ASSUME ChainInv, StopPipeline
  PROVE  ChainInv'
<1>1. Shapes'
  BY DEF ChainInv, Shapes, StopPipeline, settings, objects, worker, frame, counts
<1>2. HolderInv'
  BY DEF ChainInv, Shapes, HolderInv, HandOverInv, TurnInv, Framing, Saved, Working, StopPipeline, settings, objects, worker, frame, counts
<1>3. HandOverInv'
  BY DEF ChainInv, Shapes, HolderInv, HandOverInv, TurnInv, Framing, Saved, Working, StopPipeline, settings, objects, worker, frame, counts
<1>4. TurnInv'
  BY DEF ChainInv, Shapes, TurnInv, Framing, Saved, Working, StopPipeline, settings, objects, worker, frame, counts
<1>5. ModeInv'
  BY DEF ChainInv, Shapes, HolderInv, HandOverInv, TurnInv, ModeInv, Framing, Saved, Working, Engines, StopPipeline, settings, objects, worker, frame, counts
<1> QED
  BY <1>1, <1>2, <1>3, <1>4, <1>5 DEF ChainInv

LEMMA StopEngineKeeps ==
  ASSUME ChainInv, StopEngine
  PROVE  ChainInv'
<1>1. Shapes'
  BY DEF ChainInv, Shapes, StopEngine, ProcessEnds, settings, objects, worker, frame, counts, NoSwap, NoResult
<1>2. HolderInv'
  BY DEF ChainInv, Shapes, HolderInv, HandOverInv, TurnInv, Framing, Saved, Working, StopEngine, ProcessEnds, settings, objects, worker, frame, counts, NoSwap, NoResult
<1>3. HandOverInv'
  BY DEF ChainInv, Shapes, HolderInv, HandOverInv, TurnInv, Framing, Saved, Working, StopEngine, ProcessEnds, settings, objects, worker, frame, counts, NoSwap, NoResult
<1>4. TurnInv'
  BY DEF ChainInv, Shapes, TurnInv, Framing, Saved, Working, StopEngine, ProcessEnds, settings, objects, worker, frame, counts, NoSwap, NoResult
<1>5. ModeInv'
  BY DEF ChainInv, Shapes, HolderInv, HandOverInv, TurnInv, ModeInv, Framing, Saved, Working, Engines, StopEngine, ProcessEnds, settings, objects, worker, frame, counts, NoSwap, NoResult
<1> QED
  BY <1>1, <1>2, <1>3, <1>4, <1>5 DEF ChainInv

LEMMA CrashKeeps ==
  ASSUME ChainInv, Crash
  PROVE  ChainInv'
<1>1. Shapes'
  BY DEF ChainInv, Shapes, Crash, ProcessEnds, settings, objects, worker, frame, counts, NoSwap, NoResult
<1>2. HolderInv'
  BY DEF ChainInv, Shapes, HolderInv, HandOverInv, TurnInv, Framing, Saved, Working, Crash, ProcessEnds, settings, objects, worker, frame, counts, NoSwap, NoResult
<1>3. HandOverInv'
  BY DEF ChainInv, Shapes, HolderInv, HandOverInv, TurnInv, Framing, Saved, Working, Crash, ProcessEnds, settings, objects, worker, frame, counts, NoSwap, NoResult
<1>4. TurnInv'
  BY DEF ChainInv, Shapes, TurnInv, Framing, Saved, Working, Crash, ProcessEnds, settings, objects, worker, frame, counts, NoSwap, NoResult
<1>5. ModeInv'
  BY DEF ChainInv, Shapes, HolderInv, HandOverInv, TurnInv, ModeInv, Framing, Saved, Working, Engines, Crash, ProcessEnds, settings, objects, worker, frame, counts, NoSwap, NoResult
<1> QED
  BY <1>1, <1>2, <1>3, <1>4, <1>5 DEF ChainInv

LEMMA NothingHappens ==
  ASSUME ChainInv, UNCHANGED vars
  PROVE  ChainInv'
BY DEF ChainInv, Shapes, HolderInv, HandOverInv, TurnInv, ModeInv, vars, settings, objects, worker,
   frame, counts

-----------------------------------------------------------------------------
\* The process's inductive invariant.
THEOREM ChainInvariant == AppSpec => []ChainInv
<1>1. ChainInv /\ [AppNext]_vars => ChainInv'
  <2> SUFFICES ASSUME ChainInv, [AppNext]_vars PROVE ChainInv'
    OBVIOUS
  <2>1. CASE Startup
    BY <2>1, LaunchKeeps, ChooseModeKeeps, SetupClosedKeeps, SaveOpensKeeps, StartEngineKeeps,
       StartPipelineKeeps, SaveWritesKeeps, HeadlessEndsKeeps DEF Startup
  <2>2. CASE Window
    BY <2>2, QuitKeeps, AdoptKeeps, LookKeeps, FrameDoneKeeps, OpenSettingsKeeps,
       CloseSettingsKeeps, PickKeeps, BeginEngineSwapKeeps DEF Window
  <2>3. CASE Worker
    BY <2>3, SwapStopsPipelineKeeps, SwapStopsEngineKeeps, SwapStartsEngineKeeps,
       SwapStartsPipelineKeeps, SwapPublishesKeeps, SwapFlipsKeeps DEF Worker
  <2>4. CASE Shutdown \/ Crash
    BY <2>4, JoinSwapKeeps, StopPipelineKeeps, StopEngineKeeps, CrashKeeps DEF Shutdown
  <2> QED
    BY <2>1, <2>2, <2>3, <2>4, NothingHappens DEF AppNext
<1> QED
  BY <1>1, ChainInitial, PTL DEF AppSpec

\* One engine and one Pipeline at a time, both stopped when the process ends.
THEOREM OneChainAlways == AppSpec => []OneChain
<1>1. ChainInv => OneChain
  <2> SUFFICES ASSUME ChainInv PROVE OneChain
    OBVIOUS
  <2>1. \E e : running \subseteq {e}
    BY DEF ChainInv, HolderInv, HandOverInv
  <2>2. running = {} \/ \E e : running = {e}
    BY <2>1
  <2>3. Cardinality(running) <= 1
    <3>1. CASE running = {}
      BY <3>1, FS_EmptySet
    <3>2. ASSUME NEW e, running = {e} PROVE Cardinality(running) <= 1
      <4>1. Cardinality({e}) = 1
        BY FS_Singleton
      <4> QED
        BY <3>2, <4>1
    <3> QED
      BY <2>2, <3>1, <3>2
  <2>4. listening \subseteq running
    BY DEF ChainInv, HolderInv
  <2>5. ui = "off" => running = {}
    BY DEF ChainInv, HolderInv, HandOverInv, TurnInv, Framing, Saved
  <2> QED
    BY <2>3, <2>4, <2>5 DEF OneChain
<1> QED
  BY <1>1, ChainInvariant, PTL

\* Between swaps the window has the engine of the mode it shows, or an error.
THEOREM ShownIsRunning == AppSpec => []ShownModeRuns
<1>1. ChainInv => ShownModeRuns
  BY DEF ChainInv, HolderInv, HandOverInv, TurnInv, ModeInv, ShownModeRuns, Framing, Saved
<1> QED
  BY <1>1, ChainInvariant, PTL

-----------------------------------------------------------------------------
(* The settings file.                                                      *)

\* Steps that do not touch the settings and neither begin nor end a save.
LEMMA DiskRests ==
  ASSUME DiskInv, UNCHANGED <<settings, flags>>,
         ui' = ui \/ (ui' \notin Settled \cup {"engine"} /\ ui \notin Settled \cup {"off"}),
         ui' = ui \/ ui' # "setup" \/ ~flags.headless
  PROVE  DiskInv'
BY DEF DiskInv, SettingsSurvive, Settled, Choosing, settings, Loaded

LEMMA ProcessEndsKeepsDisk ==
  ASSUME DiskInv, ProcessEnds, UNCHANGED <<file, picked, excused>>,
         ui \notin {"saveSetup", "saveModal"}
  PROVE  DiskInv'
BY DEF DiskInv, SettingsSurvive, Settled, Choosing, ProcessEnds, Loaded, Absent

LEMMA DiskInitial == AppInit => DiskInv
<1> SUFFICES ASSUME AppInit PROVE DiskInv
  OBVIOUS
<1>1. file \in Files /\ ui = "off" /\ cfg.key \in BOOLEAN
  BY DEF AppInit, Loaded
<1>2. Loaded(file, TRUE).mode # NoMode /\ Loaded(file, TRUE).key \in BOOLEAN
  BY ModesAssumption DEF Loaded
<1>3. excused = [mode |-> FALSE, key |-> FALSE]
  BY DEF AppInit
<1>4. CASE file.kind = "whole"
  <2>1. picked = [mode |-> Loaded(file, TRUE).mode, key |-> Loaded(file, TRUE).key]
    BY <1>4 DEF AppInit
  <2> QED
    BY <1>1, <1>2, <1>3, <1>4, <2>1 DEF DiskInv, SettingsSurvive, Settled, Choosing
<1>5. CASE file.kind # "whole"
  <2>1. picked = [mode |-> NoMode, key |-> FALSE]
    BY <1>5 DEF AppInit
  <2>2. file \in {Absent, Torn}
    BY <1>1, <1>5 DEF Files
  <2>3. file.key = "none" /\ file.mode = NoMode
    BY <2>2 DEF Torn, Absent
  <2>4. Loaded(file, TRUE).key = FALSE
    BY <2>3 DEF Loaded
  <2> QED
    BY <1>1, <1>5, <1>3, <2>1, <2>3, <2>4 DEF DiskInv, SettingsSurvive, Settled, Choosing
<1> QED
  BY <1>4, <1>5

\* A launch reads what the file holds; what it cannot read is excused.
LEMMA LaunchKeepsDisk ==
  ASSUME DiskInv, NEW args, NEW unprotects \in BOOLEAN, Launch(args, unprotects)
  PROVE  DiskInv'
<1> DEFINE base == Loaded(file, unprotects)
           line == ParseArgs(args, base)
<1>1. /\ ui = "off" /\ UNCHANGED <<file, picked>>
      /\ excused' \in [mode : BOOLEAN, key : BOOLEAN] /\ excused'.mode = excused.mode
      /\ excused.key \/ file.kind = "torn" \/ (file.key = "protected" /\ ~unprotects)
           => excused'.key
  <2>1. excused' = [excused EXCEPT !.key = @ \/ file.kind = "torn"
                                              \/ (file.key = "protected" /\ ~unprotects)]
    BY DEF Launch
  <2>2. excused \in [mode : BOOLEAN, key : BOOLEAN]
    BY DEF DiskInv
  <2>3. /\ excused' \in [mode : BOOLEAN, key : BOOLEAN] /\ excused'.mode = excused.mode
        /\ excused.key \/ file.kind = "torn" \/ (file.key = "protected" /\ ~unprotects)
             => excused'.key
    BY <2>1, <2>2
  <2> QED
    BY <2>3 DEF Launch
<1>2. /\ base.key \in BOOLEAN
      /\ (file.key = "protected" /\ ~unprotects) \/ base.key = Loaded(file, TRUE).key
      /\ base.mode = Loaded(file, TRUE).mode
  BY DEF Loaded
<1>3. /\ line.base.key = base.key
      /\ line.flags.mode = NoMode => line.base.mode = base.mode
  BY DEF ParseArgs, Loaded
<1>4. /\ line.runs => /\ flags' = line.flags /\ cfg' = line.base /\ ui' \in {"setup", "engine"}
                      /\ ui' = "engine" => line.flags.headless \/ line.flags.mode # NoMode
                                             \/ file.kind = "whole"
                      /\ ui' = "setup" => ~line.flags.headless
      /\ ~line.runs => UNCHANGED <<flags, cfg, ui>>
  BY DEF Launch
<1>5. /\ file.kind = "whole" => /\ picked.mode # NoMode
                                /\ base.mode = picked.mode \/ excused'.mode
      /\ base.key = picked.key \/ excused'.key
  BY <1>1, <1>2 DEF DiskInv
<1>8. file.kind # "whole" => base.mode = Default
  BY <1>2, ModesAssumption DEF DiskInv, Loaded
<1> HIDE DEF base, line
<1>6. CASE line.runs
  <2>1. (ui' # "off" => cfg'.key = picked'.key \/ excused'.key) /\ cfg'.key \in BOOLEAN
    BY <1>1, <1>2, <1>3, <1>4, <1>5, <1>6
  <2>2. SettingsSurvive'
    BY <1>1, <1>3, <1>4, <1>5, <1>6, <1>8, <2>1 DEF SettingsSurvive
  <2>3. ui' \notin Settled /\ (ui' \in Choosing => ~flags'.headless)
    BY <1>4, <1>6 DEF Settled, Choosing
  <2>4. /\ file'.kind = "whole" => /\ picked'.mode # NoMode
                                   /\ Loaded(file', TRUE).mode = picked'.mode \/ excused'.mode
        /\ file'.kind # "torn" => Loaded(file', TRUE).key = picked'.key \/ excused'.key
        /\ picked'.key \in BOOLEAN
        /\ file'.kind # "whole" => file'.mode = NoMode
    BY <1>1 DEF DiskInv
  <2> QED
    BY <1>1, <2>1, <2>2, <2>3, <2>4 DEF DiskInv
<1>7. CASE ~line.runs
  <2>1. UNCHANGED <<flags, cfg, ui, file, picked>> /\ ui = "off"
    BY <1>1, <1>4, <1>7
  <2> QED
    BY <1>1, <2>1 DEF DiskInv, SettingsSurvive, Settled, Choosing, Loaded
<1> QED
  BY <1>6, <1>7

\* A pick settles cfg and what the user wants in one step.
LEMMA SettleKeepsDisk ==
  ASSUME DiskInv, NEW m \in Modes, NEW ask, NEW field, Settle(m, ask, field),
         ui \notin Settled \cup {"off"}, ui' \in {"saveSetup", "saveModal"},
         ui' = "saveSetup" => ui = "setup",
         UNCHANGED <<file, excused, flags>>
  PROVE  DiskInv'
<1>1. cfg'.mode = picked'.mode /\ picked'.mode \in Modes
  BY DEF Settle
<1>2. cfg'.key \in BOOLEAN /\ picked'.key \in BOOLEAN /\ (cfg'.key = picked'.key \/ excused.key)
  BY DEF DiskInv, Settle, FieldHolds
<1> QED
  BY <1>1, <1>2 DEF DiskInv, SettingsSurvive, Settled, Choosing

LEMMA SaveOpensKeepsDisk ==
  ASSUME DiskInv, NEW ok \in BOOLEAN, SaveOpens(ok)
  PROVE  DiskInv'
<1>1. /\ UNCHANGED <<cfg, picked, flags>> /\ ui \in {"saveSetup", "saveModal"}
      /\ ui' \in {"engine", "writeSetup"} => ~flags.headless
  BY DEF SaveOpens, counts, DiskInv, Choosing
<1>2. CASE ok
  <2>1. /\ file'.kind = "torn" /\ file'.mode = NoMode /\ ui' \in {"writeSetup", "writeModal"}
        /\ excused' = [excused EXCEPT !.mode = FALSE]
    BY <1>2 DEF SaveOpens, Torn, Absent
  <2>2. excused' \in [mode : BOOLEAN, key : BOOLEAN] /\ excused'.key = excused.key
    BY <2>1 DEF DiskInv
  <2> QED
    BY <1>1, <2>1, <2>2 DEF DiskInv, SettingsSurvive, Settled, Choosing
<1>3. CASE ~ok
  <2>1. /\ file' = file /\ excused' = [mode |-> TRUE, key |-> TRUE]
        /\ ui' \in {"engine", "swap"}
    BY <1>3 DEF SaveOpens
  <2>2. cfg.mode = picked.mode /\ picked.mode # NoMode
    BY <1>1, ModesAssumption DEF DiskInv, Settled
  <2> QED
    BY <1>1, <2>1, <2>2 DEF DiskInv, SettingsSurvive, Settled, Choosing
<1> QED
  BY <1>2, <1>3

LEMMA SaveWritesKeepsDisk ==
  ASSUME DiskInv, NEW whole \in BOOLEAN, NEW protects \in BOOLEAN, SaveWrites(whole, protects)
  PROVE  DiskInv'
<1>1. /\ UNCHANGED <<cfg, picked, flags>> /\ ui \in {"writeSetup", "writeModal"}
      /\ ui' \in {"engine", "swap"}
      /\ excused' = [excused EXCEPT !.key = \/ ~whole \/ (cfg.key /\ ~protects)
                                            \/ @ /\ cfg.key # picked.key]
      /\ ui' = "engine" => ~flags.headless
  BY DEF SaveWrites, counts, DiskInv, Choosing
<1>2. /\ excused' \in [mode : BOOLEAN, key : BOOLEAN] /\ excused'.mode = excused.mode
      /\ ~whole \/ (cfg.key /\ ~protects) \/ (excused.key /\ cfg.key # picked.key)
           => excused'.key
  <2>1. excused \in [mode : BOOLEAN, key : BOOLEAN]
    BY DEF DiskInv
  <2> QED
    BY <1>1, <2>1
<1>3. /\ cfg.mode = picked.mode /\ picked.mode \in Modes /\ picked.mode # NoMode
      /\ cfg.key = picked.key \/ excused.key
      /\ cfg.key \in BOOLEAN /\ picked.key \in BOOLEAN
  BY <1>1, ModesAssumption DEF DiskInv, Settled
<1>4. CASE whole
  <2>1. file' = [kind |-> "whole", mode |-> cfg.mode, ask |-> cfg.ask,
                 key |-> IF cfg.key /\ protects THEN "protected" ELSE "none"]
    BY <1>4 DEF SaveWrites
  <2>2. Loaded(file', TRUE).mode = cfg.mode
    BY <1>3, <2>1 DEF Loaded
  <2>3. Loaded(file', TRUE).key = (cfg.key /\ protects)
    BY <2>1 DEF Loaded
  <2>4. Loaded(file', TRUE).key = picked.key \/ excused'.key
    <3>1. excused'.key \/ (cfg.key = picked.key /\ (cfg.key => protects))
      BY <1>2, <1>3
    <3> QED
      BY <1>3, <2>3, <3>1
  <2> QED
    BY <1>1, <1>2, <1>3, <2>1, <2>2, <2>4 DEF DiskInv, SettingsSurvive, Settled, Choosing
<1>5. CASE ~whole
  <2>1. file'.kind = "torn" /\ file'.mode = NoMode
    BY <1>5 DEF SaveWrites, Torn, Absent
  <2> QED
    BY <1>1, <1>2, <1>3, <1>5, <2>1 DEF DiskInv, SettingsSurvive, Settled, Choosing
<1> QED
  BY <1>4, <1>5

\* A kill before the save loses both settings, one during it the key.
LEMMA CrashKeepsDisk ==
  ASSUME DiskInv, Crash
  PROVE  DiskInv'
<1>1. /\ UNCHANGED <<file, picked>> /\ ui' = "off" /\ cfg'.key \in BOOLEAN
      /\ excused' = [mode |-> excused.mode \/ ui \in {"saveSetup", "saveModal"},
                     key |-> excused.key \/ ui \in {"saveSetup", "saveModal",
                                                    "writeSetup", "writeModal"}]
  BY DEF Crash, ProcessEnds, Loaded
<1>2. excused' \in [mode : BOOLEAN, key : BOOLEAN]
  BY <1>1 DEF DiskInv
<1>3. /\ excused.mode \/ ui \in {"saveSetup", "saveModal"} => excused'.mode
      /\ excused.key \/ ui \in {"saveSetup", "saveModal"} => excused'.key
  BY <1>1
<1>4. ui \in {"saveSetup", "saveModal"} => picked.mode # NoMode
  BY ModesAssumption DEF DiskInv, Settled
<1>5. /\ file'.kind = "whole" => /\ picked'.mode # NoMode
                                 /\ Loaded(file', TRUE).mode = picked'.mode \/ excused'.mode
      /\ file'.kind # "torn" => Loaded(file', TRUE).key = picked'.key \/ excused'.key
      /\ picked'.key \in BOOLEAN
      /\ file'.kind # "whole" => file'.mode = NoMode
  BY <1>1, <1>3, <1>4 DEF DiskInv
<1> QED
  BY <1>1, <1>2, <1>5 DEF DiskInv, SettingsSurvive, Settled, Choosing

LEMMA StartupKeepsDisk ==
  ASSUME DiskInv, Startup
  PROVE  DiskInv'
<1>1. ASSUME NEW args, NEW unprotects \in BOOLEAN, Launch(args, unprotects)
      PROVE  DiskInv'
  BY <1>1, LaunchKeepsDisk
<1>2. ASSUME NEW m \in Modes, NEW ask, NEW field, ChooseMode(m, ask, field)
      PROVE  DiskInv'
  <2>1. /\ Settle(m, ask, field) /\ ui = "setup" /\ ui' = "saveSetup"
        /\ UNCHANGED <<file, excused, flags>>
    BY <1>2 DEF ChooseMode
  <2>2. ui \notin Settled \cup {"off"} /\ ui' \in {"saveSetup", "saveModal"}
    BY <2>1 DEF Settled
  <2> QED
    BY <2>1, <2>2, SettleKeepsDisk
<1>3. CASE SetupClosed
  BY <1>3, ProcessEndsKeepsDisk DEF SetupClosed
<1>4. ASSUME NEW ok \in BOOLEAN, SaveOpens(ok)
      PROVE  DiskInv'
  BY <1>4, SaveOpensKeepsDisk
<1>5. ASSUME NEW ok \in BOOLEAN, StartEngine(ok)
      PROVE  DiskInv'
  <2>1. ui = "engine" /\ UNCHANGED <<file, picked, excused>>
    BY <1>5 DEF StartEngine
  <2>2. \/ ProcessEnds
        \/ UNCHANGED <<cfg, flags>> /\ ui' \in {"pipeline", "setup"}
             /\ (ui' = "setup" => ~flags.headless)
    BY <1>5 DEF StartEngine
  <2>3. CASE ProcessEnds
    BY <2>1, <2>3, ProcessEndsKeepsDisk
  <2>4. CASE UNCHANGED <<cfg, flags>> /\ ui' \in {"pipeline", "setup"}
                /\ (ui' = "setup" => ~flags.headless)
    BY <2>1, <2>4, DiskRests DEF Settled, settings
  <2> QED
    BY <2>2, <2>3, <2>4
<1>6. ASSUME NEW ok \in BOOLEAN, StartPipeline(ok)
      PROVE  DiskInv'
  <2>1. ui = "pipeline" /\ UNCHANGED <<file, picked, excused>>
    BY <1>6 DEF StartPipeline
  <2>2. ProcessEnds \/ (UNCHANGED <<cfg, flags>> /\ ui' \in {"headless", "pump"})
    BY <1>6 DEF StartPipeline
  <2>3. CASE ProcessEnds
    BY <2>1, <2>3, ProcessEndsKeepsDisk
  <2>4. CASE UNCHANGED <<cfg, flags>> /\ ui' \in {"headless", "pump"}
    BY <2>1, <2>4, DiskRests DEF Settled, settings
  <2> QED
    BY <2>2, <2>3, <2>4
<1>7. ASSUME NEW whole \in BOOLEAN, NEW protects \in BOOLEAN, SaveWrites(whole, protects)
      PROVE  DiskInv'
  BY <1>7, SaveWritesKeepsDisk
<1>8. CASE HeadlessEnds
  BY <1>8, DiskRests DEF HeadlessEnds, counts, Settled
<1> QED
  BY <1>1, <1>2, <1>3, <1>4, <1>5, <1>6, <1>7, <1>8 DEF Startup

LEMMA WindowKeepsDisk ==
  ASSUME DiskInv, Window
  PROVE  DiskInv'
<1>1. ASSUME NEW m \in Modes, NEW ask, NEW field, Pick(m, ask, field)
      PROVE  DiskInv'
  <2>1. /\ Settle(m, ask, field) /\ ui = "widgets" /\ ui' = "saveModal"
        /\ UNCHANGED <<file, excused, flags>>
    BY <1>1 DEF Pick
  <2>2. ui \notin Settled \cup {"off"} /\ ui' \in {"saveSetup", "saveModal"}
    BY <2>1 DEF Settled
  <2> QED
    BY <2>1, <2>2, SettleKeepsDisk
<1>2. CASE Quit \/ Adopt \/ Look
  <2>1. /\ UNCHANGED <<settings, flags>> /\ ui \in {"pump", "look"}
        /\ ui' \in {"join", "look", "widgets"}
    BY <1>2 DEF Quit, Adopt, Look, counts
  <2> QED
    BY <2>1, DiskRests DEF Settled
<1>3. CASE FrameDone \/ OpenSettings \/ CloseSettings \/ BeginEngineSwap
  <2>1. UNCHANGED <<settings, flags>> /\ ui \in {"widgets", "swap"} /\ ui' = "pump"
    BY <1>3 DEF FrameDone, OpenSettings, CloseSettings, BeginEngineSwap, counts
  <2> QED
    BY <2>1, DiskRests DEF Settled
<1> QED
  BY <1>1, <1>2, <1>3 DEF Window

LEMMA WorkerKeepsDisk ==
  ASSUME DiskInv, Worker
  PROVE  DiskInv'
<1>1. UNCHANGED <<settings, flags, ui>>
  BY DEF Worker, SwapStopsPipeline, SwapStopsEngine, SwapStartsEngine, SwapStartsPipeline,
         SwapPublishes, SwapFlips, counts
<1> QED
  BY <1>1, DiskRests

LEMMA ShutdownKeepsDisk ==
  ASSUME DiskInv, Shutdown
  PROVE  DiskInv'
<1>1. CASE JoinSwap \/ StopPipeline
  <2>1. /\ UNCHANGED <<settings, flags>> /\ ui \in {"join", "stopPipeline"}
        /\ ui' \in {"stopPipeline", "stopEngine"}
    BY <1>1 DEF JoinSwap, StopPipeline, counts
  <2> QED
    BY <2>1, DiskRests DEF Settled
<1>2. CASE StopEngine
  BY <1>2, ProcessEndsKeepsDisk DEF StopEngine
<1> QED
  BY <1>1, <1>2 DEF Shutdown

\* What the settings, the file and what was lost are to each other holds in
\* every reachable state, whatever was killed or cut short in between.
THEOREM DiskInvariant == AppSpec => []DiskInv
<1>1. AppInit => DiskInv
  BY DiskInitial
<1>2. DiskInv /\ [AppNext]_vars => DiskInv'
  <2> SUFFICES ASSUME DiskInv, [AppNext]_vars PROVE DiskInv'
    OBVIOUS
  <2>1. CASE UNCHANGED vars
    BY <2>1, DiskRests DEF vars, counts
  <2> QED
    BY <2>1, StartupKeepsDisk, WindowKeepsDisk, WorkerKeepsDisk, ShutdownKeepsDisk,
       CrashKeepsDisk DEF AppNext
<1> QED
  BY <1>1, <1>2, PTL DEF AppSpec

\* Whatever launches, saves, failures and kills came before it, a launch that
\* leaves the mode to the settings runs the one picked last, unless that save
\* could not open the file, or it is headless and the file cannot be read, with
\* the key, unless a torn file, a kill in a save or DPAPI took it away.
THEOREM SettingsAlwaysSurvive == AppSpec => []SettingsSurvive
<1>1. DiskInv => SettingsSurvive
  BY DEF DiskInv
<1> QED
  BY <1>1, DiskInvariant, PTL

-----------------------------------------------------------------------------
(* The inductive invariants: of the document ...                           *)

\* An attempt has no streams before its microphone is granted, nor once it
\* has given up; attempts still to come have done nothing.
AttemptInv ==
  /\ \A g \in Gens : g > gen => pc[g] = "none"
  /\ \A g \in Gens : pc[g] \in {"none", "mic", "bailed"} => Streams(g) \cap live = {}

OffInv == OffTypeOK /\ AttemptInv /\ HelloBeforeAudio /\ NeverStranded

(* ... and of the service worker above it.                                *)

LastCall == calls[Len(calls)]
StopAt(places) == calls # <<>> /\ LastCall.kind = "stop" /\ LastCall.at \in places

\* A user who waits has at most the last call under way, and once that is a
\* stop which has closed the document, nobody creates it again.
PatientInv ==
  patient =>
    /\ \A k \in DOMAIN calls : k < Len(calls) => calls[k].at = "done"
    /\ StopAt({"report", "done"}) => ~doc

\* An attempt under way is then the newest, no call competes with it, and
\* what it loads its module into is its own context, still open.
UnderWay(g) == pc[g] \in {"mic", "tab", "module"}
Undisturbed ==
  \A g \in Gens : UnderWay(g) =>
    /\ g = gen /\ calls # <<>> /\ LastCall = [kind |-> "start", at |-> "done"]
    /\ pc[g] = "module" => g \in contexts

\* What may still make the document report a capture: messages on their way,
\* sockets, timers.
Trace ==
  \/ \E i \in 1 .. Len(mail) : mail[i] \in {"running", "connected", "disconnected"}
  \/ \E s \in Socks : sock[s] # "none"
  \/ timers # {}

\* While nothing captures, only a stop under way leaves "running" shown or a
\* trace of it; it ends once the document is gone and its messages are taken.
ShownInv ==
  patient =>
    /\ Undisturbed
    /\ stored = "running" \/ Trace => Capturing \/ StopAt({"has", "close", "report"})
    /\ StopAt({"close"}) => doc
    /\ ~doc => mail = <<>> \/ StopAt({"report"})

\* Nothing outlives the document.
GoneInv == ~doc => live = {} /\ timers = {} /\ \A s \in Socks : sock[s] = "none"

WorkerInv == ExtTypeOK /\ OffInv /\ GoneInv /\ PatientInv
ExtInv == WorkerInv /\ ShownInv

-----------------------------------------------------------------------------
(* The status messages on their way.                                       *)

LEMMA StatusSent ==
  ASSUME OffTypeOK, NEW patch \in Patches, Status(patch)
  PROVE  mail' \in Seq(Patches) /\ Len(mail') <= MaxMail
BY OffscreenAssumption DEF OffTypeOK, Status

LEMMA StatusTaken ==
  ASSUME OffTypeOK, mail # <<>>
  PROVE  Tail(mail) \in Seq(Patches) /\ Len(Tail(mail)) <= MaxMail /\ Head(mail) \in Patches
BY OffscreenAssumption DEF OffTypeOK

LEMMA StatusPrefix ==
  ASSUME OffTypeOK, NEW n \in 0 .. Len(mail)
  PROVE  SubSeq(mail, 1, n) \in Seq(Patches) /\ Len(SubSeq(mail, 1, n)) <= MaxMail
<1>1. mail \in Seq(Patches) /\ Len(mail) <= MaxMail /\ Len(mail) \in Nat /\ MaxMail \in Nat
  BY OffscreenAssumption DEF OffTypeOK
<1>2. \A i \in 1 .. n : mail[i] \in Patches
  BY <1>1
<1>3. SubSeq(mail, 1, n) \in Seq(Patches) /\ Len(SubSeq(mail, 1, n)) = n
  BY <1>1, <1>2, SubSeqProperties
<1> QED
  BY <1>1, <1>3

-----------------------------------------------------------------------------
(* The document: one lemma per action.                                     *)

LEMMA StreamsApart ==
  ASSUME NEW g \in Gens
  PROVE  /\ <<"mic", g>> \in Streams(g)
         /\ Streams(g) \subseteq {"mic", "tab"} \X Gens
         /\ \A h \in Gens : h # g => Streams(h) \cap Streams(g) = {}
BY DEF Streams

LEMMA OffInitial == OffInit => OffInv
<1> SUFFICES ASSUME OffInit PROVE OffInv
  OBVIOUS
<1>1. mail \in Seq(Patches) /\ Len(mail) <= MaxMail
  BY OffscreenAssumption DEF OffInit
<1>2. OffTypeOK
  <2>1. live \subseteq {"mic", "tab"} \X Gens
    BY DEF OffInit
  <2>2. /\ pc \in [Gens -> {"none", "mic", "tab", "module", "running", "bailed", "failed"}]
        /\ sock \in [Socks -> {"none", "connecting", "open", "closing"}]
    BY DEF OffInit
  <2>0. 0 \in 0 .. MaxGen
    BY OffscreenAssumption
  <2>3. /\ gen \in 0 .. MaxGen /\ contexts \subseteq Gens
        /\ ctx \in 0 .. MaxGen /\ tracks \in 0 .. MaxGen
    BY <2>0 DEF OffInit
  <2>4. /\ ws \in Socks \cup {NoSock} /\ helloed \subseteq Socks
        /\ timers \subseteq Socks /\ reconnectTimer \in Socks \cup {NoSock}
        /\ drops \in 0 .. MaxDrops
    BY OffscreenAssumption DEF OffInit
  <2> QED
    BY <1>1, <2>1, <2>2, <2>3, <2>4 DEF OffInit, OffTypeOK
<1>3. AttemptInv
  BY DEF OffInit, AttemptInv
<1>4. HelloBeforeAudio /\ NeverStranded
  BY DEF OffInit, HelloBeforeAudio, FrameGoesOut, NeverStranded
<1> QED
  BY <1>2, <1>3, <1>4 DEF OffInv

LEMMA BeginStartKeeps ==
  ASSUME OffInv, BeginStart
  PROVE  OffInv'
<1>1. OffTypeOK'
  BY OffscreenAssumption DEF OffInv, OffTypeOK, Gens, Streams, BeginStart, attemptVars, mediaVars, socketVars
<1>2. AttemptInv'
  BY DEF OffInv, OffTypeOK, AttemptInv, Gens, Streams, BeginStart, attemptVars, mediaVars, socketVars
<1>3. HelloBeforeAudio'
  BY OffscreenAssumption DEF OffInv, OffTypeOK, HelloBeforeAudio, FrameGoesOut, BeginStart, attemptVars, mediaVars, socketVars
<1>4. NeverStranded'
  BY OffscreenAssumption DEF OffInv, OffTypeOK, NeverStranded, Gens, BeginStart, attemptVars, mediaVars, socketVars
<1> QED
  BY <1>1, <1>2, <1>3, <1>4 DEF OffInv

LEMMA MicDeniedKeeps ==
  ASSUME OffInv, NEW g \in Gens, MicDenied(g)
  PROVE  OffInv'
<1>0. mail' \in Seq(Patches) /\ Len(mail') <= MaxMail
  BY StatusSent DEF OffInv, OffTypeOK, Patches, MicDenied
<1>1. OffTypeOK'
  BY <1>0, OffscreenAssumption DEF OffInv, OffTypeOK, Gens, Streams, MicDenied, GoTo, Stale, attemptVars, mediaVars, socketVars
<1>2. AttemptInv'
  BY DEF OffInv, OffTypeOK, AttemptInv, Gens, Streams, MicDenied, GoTo, Stale, attemptVars, mediaVars, socketVars
<1>3. HelloBeforeAudio'
  BY OffscreenAssumption DEF OffInv, OffTypeOK, HelloBeforeAudio, FrameGoesOut, MicDenied, GoTo, Stale, attemptVars, mediaVars, socketVars
<1>4. NeverStranded'
  BY OffscreenAssumption DEF OffInv, OffTypeOK, NeverStranded, Gens, MicDenied, GoTo, Stale, attemptVars, mediaVars, socketVars
<1> QED
  BY <1>1, <1>2, <1>3, <1>4 DEF OffInv

LEMMA MicGrantedKeeps ==
  ASSUME OffInv, NEW g \in Gens, MicGranted(g)
  PROVE  OffInv'
<1>1. OffTypeOK'
  BY OffscreenAssumption DEF OffInv, OffTypeOK, Gens, Streams, MicGranted, GoTo, Stale, attemptVars, mediaVars, socketVars
<1>2. AttemptInv'
  <2>1. \A h \in Gens : h > gen' => pc'[h] = "none"
    BY DEF OffInv, OffTypeOK, AttemptInv, Gens, MicGranted, GoTo
  <2>2. ASSUME NEW h \in Gens, pc'[h] \in {"none", "mic", "bailed"}
        PROVE  Streams(h) \cap live' = {}
    <3>1. Streams(h) \cap live = {}
      BY <2>2 DEF OffInv, OffTypeOK, AttemptInv, MicGranted, GoTo
    <3>2. live' = live \/ (h # g /\ live' = live \cup {<<"mic", g>>})
      BY <2>2 DEF OffInv, OffTypeOK, MicGranted, GoTo
    <3> QED
      BY <3>1, <3>2, StreamsApart
  <2> QED
    BY <2>1, <2>2 DEF AttemptInv
<1>3. HelloBeforeAudio'
  BY OffscreenAssumption DEF OffInv, OffTypeOK, HelloBeforeAudio, FrameGoesOut, MicGranted, GoTo, Stale, attemptVars, mediaVars, socketVars
<1>4. NeverStranded'
  BY OffscreenAssumption DEF OffInv, OffTypeOK, NeverStranded, Gens, MicGranted, GoTo, Stale, attemptVars, mediaVars, socketVars
<1> QED
  BY <1>1, <1>2, <1>3, <1>4 DEF OffInv

LEMMA TabFailedKeeps ==
  ASSUME OffInv, NEW g \in Gens, TabFailed(g)
  PROVE  OffInv'
<1>0. mail' \in Seq(Patches) /\ Len(mail') <= MaxMail
  BY StatusSent DEF OffInv, OffTypeOK, Patches, TabFailed
<1>1. OffTypeOK'
  BY <1>0, OffscreenAssumption DEF OffInv, OffTypeOK, Gens, Streams, TabFailed, GoTo, Stale, attemptVars, mediaVars, socketVars
<1>2. AttemptInv'
  BY DEF OffInv, OffTypeOK, AttemptInv, Gens, Streams, TabFailed, GoTo, Stale, attemptVars, mediaVars, socketVars
<1>3. HelloBeforeAudio'
  BY OffscreenAssumption DEF OffInv, OffTypeOK, HelloBeforeAudio, FrameGoesOut, TabFailed, GoTo, Stale, attemptVars, mediaVars, socketVars
<1>4. NeverStranded'
  BY OffscreenAssumption DEF OffInv, OffTypeOK, NeverStranded, Gens, TabFailed, GoTo, Stale, attemptVars, mediaVars, socketVars
<1> QED
  BY <1>1, <1>2, <1>3, <1>4 DEF OffInv

LEMMA TabGrantedKeeps ==
  ASSUME OffInv, NEW g \in Gens, TabGranted(g)
  PROVE  OffInv'
<1>1. OffTypeOK'
  <2>1. live' \subseteq {"mic", "tab"} \X Gens
    BY StreamsApart DEF OffInv, OffTypeOK, TabGranted
  <2>2. g \in 0 .. MaxGen
    BY OffscreenAssumption DEF Gens
  <2> QED
    BY <2>1, <2>2, OffscreenAssumption DEF OffInv, OffTypeOK, TabGranted, GoTo, socketVars
<1>2. AttemptInv'
  <2>1. \A h \in Gens : h > gen' => pc'[h] = "none"
    BY DEF OffInv, OffTypeOK, AttemptInv, Gens, TabGranted, GoTo
  <2>2. ASSUME NEW h \in Gens, pc'[h] \in {"none", "mic", "bailed"}
        PROVE  Streams(h) \cap live' = {}
    <3>1. \/ h = g /\ live' = live \ Streams(g)
          \/ h # g /\ pc'[h] = pc[h] /\ live' \in {live \ Streams(g), live \cup Streams(g)}
      BY <2>2 DEF OffInv, OffTypeOK, TabGranted, GoTo
    <3>2. h # g => Streams(h) \cap live = {}
      BY <2>2, <3>1 DEF OffInv, AttemptInv
    <3> QED
      BY <3>1, <3>2, StreamsApart
  <2> QED
    BY <2>1, <2>2 DEF AttemptInv
<1>3. HelloBeforeAudio'
  BY OffscreenAssumption DEF OffInv, OffTypeOK, HelloBeforeAudio, FrameGoesOut, TabGranted, GoTo, Stale, attemptVars, mediaVars, socketVars
<1>4. NeverStranded'
  BY OffscreenAssumption DEF OffInv, OffTypeOK, NeverStranded, Gens, TabGranted, GoTo, Stale, attemptVars, mediaVars, socketVars
<1> QED
  BY <1>1, <1>2, <1>3, <1>4 DEF OffInv

LEMMA ModuleStaleKeeps ==
  ASSUME OffInv, NEW g \in Gens, ModuleStale(g)
  PROVE  OffInv'
<1>1. OffTypeOK'
  BY OffscreenAssumption DEF OffInv, OffTypeOK, Gens, Streams, ModuleStale, GoTo, Stale, attemptVars, mediaVars, socketVars
<1>2. AttemptInv'
  BY DEF OffInv, OffTypeOK, AttemptInv, Gens, Streams, ModuleStale, GoTo, Stale, attemptVars, mediaVars, socketVars
<1>3. HelloBeforeAudio'
  BY OffscreenAssumption DEF OffInv, OffTypeOK, HelloBeforeAudio, FrameGoesOut, ModuleStale, GoTo, Stale, attemptVars, mediaVars, socketVars
<1>4. NeverStranded'
  BY OffscreenAssumption DEF OffInv, OffTypeOK, NeverStranded, Gens, ModuleStale, GoTo, Stale, attemptVars, mediaVars, socketVars
<1> QED
  BY <1>1, <1>2, <1>3, <1>4 DEF OffInv

LEMMA ModuleLoadedKeeps ==
  ASSUME OffInv, NEW g \in Gens, ModuleLoaded(g)
  PROVE  OffInv'
<1>0. mail' \in Seq(Patches) /\ Len(mail') <= MaxMail
  BY StatusSent DEF OffInv, OffTypeOK, Patches, ModuleLoaded
<1>1. OffTypeOK'
  BY <1>0, OffscreenAssumption DEF OffInv, OffTypeOK, Gens, Streams, ModuleLoaded, GoTo, Stale, ConnectWs, attemptVars, mediaVars, socketVars
<1>2. AttemptInv'
  BY DEF OffInv, OffTypeOK, AttemptInv, Gens, Streams, ModuleLoaded, GoTo, Stale, ConnectWs, attemptVars, mediaVars, socketVars
<1>3. HelloBeforeAudio'
  BY OffscreenAssumption DEF OffInv, OffTypeOK, HelloBeforeAudio, FrameGoesOut, ModuleLoaded, GoTo, Stale, ConnectWs, attemptVars, mediaVars, socketVars
<1>4. NeverStranded'
  BY OffscreenAssumption DEF OffInv, OffTypeOK, NeverStranded, Gens, ModuleLoaded, GoTo, Stale, ConnectWs, attemptVars, mediaVars, socketVars
<1> QED
  BY <1>1, <1>2, <1>3, <1>4 DEF OffInv

LEMMA ModuleThrowsKeeps ==
  ASSUME OffInv, NEW g \in Gens, ModuleThrows(g)
  PROVE  OffInv'
<1>1. OffTypeOK'
  BY OffscreenAssumption DEF OffInv, OffTypeOK, Gens, Streams, ModuleThrows, GoTo, Stale, attemptVars, mediaVars, socketVars
<1>2. AttemptInv'
  BY DEF OffInv, OffTypeOK, AttemptInv, Gens, Streams, ModuleThrows, GoTo, Stale, attemptVars, mediaVars, socketVars
<1>3. HelloBeforeAudio'
  BY OffscreenAssumption DEF OffInv, OffTypeOK, HelloBeforeAudio, FrameGoesOut, ModuleThrows, GoTo, Stale, attemptVars, mediaVars, socketVars
<1>4. NeverStranded'
  BY OffscreenAssumption DEF OffInv, OffTypeOK, NeverStranded, Gens, ModuleThrows, GoTo, Stale, attemptVars, mediaVars, socketVars
<1> QED
  BY <1>1, <1>2, <1>3, <1>4 DEF OffInv

LEMMA SockOpensKeeps ==
  ASSUME OffInv, NEW s \in Socks, SockOpens(s)
  PROVE  OffInv'
<1>0. mail' \in Seq(Patches) /\ Len(mail') <= MaxMail
  BY StatusSent DEF OffInv, OffTypeOK, Patches, SockOpens
<1>1. OffTypeOK'
  BY <1>0, OffscreenAssumption DEF OffInv, OffTypeOK, Gens, Streams, SockOpens, attemptVars, mediaVars, socketVars
<1>2. AttemptInv'
  BY DEF OffInv, OffTypeOK, AttemptInv, Gens, Streams, SockOpens, attemptVars, mediaVars, socketVars
<1>3. HelloBeforeAudio'
  BY OffscreenAssumption DEF OffInv, OffTypeOK, HelloBeforeAudio, FrameGoesOut, SockOpens, attemptVars, mediaVars, socketVars
<1>4. NeverStranded'
  BY OffscreenAssumption DEF OffInv, OffTypeOK, NeverStranded, Gens, SockOpens, attemptVars, mediaVars, socketVars
<1> QED
  BY <1>1, <1>2, <1>3, <1>4 DEF OffInv

LEMMA SockClosesKeeps ==
  ASSUME OffInv, NEW s \in Socks, SockCloses(s)
  PROVE  OffInv'
<1>0. mail' \in Seq(Patches) /\ Len(mail') <= MaxMail
  BY StatusSent DEF OffInv, OffTypeOK, Patches, SockCloses
<1>1. OffTypeOK'
  BY <1>0, OffscreenAssumption DEF OffInv, OffTypeOK, Gens, Streams, SockCloses, Reconnect, attemptVars, mediaVars, socketVars
<1>2. AttemptInv'
  BY DEF OffInv, OffTypeOK, AttemptInv, Gens, Streams, SockCloses, Reconnect, attemptVars, mediaVars, socketVars
<1>3. HelloBeforeAudio'
  BY OffscreenAssumption DEF OffInv, OffTypeOK, HelloBeforeAudio, FrameGoesOut, SockCloses, Reconnect, attemptVars, mediaVars, socketVars
<1>4. NeverStranded'
  BY OffscreenAssumption DEF OffInv, OffTypeOK, NeverStranded, Gens, SockCloses, Reconnect, attemptVars, mediaVars, socketVars
<1> QED
  BY <1>1, <1>2, <1>3, <1>4 DEF OffInv

LEMMA TimerFiresKeeps ==
  ASSUME OffInv, NEW s \in Socks, TimerFires(s)
  PROVE  OffInv'
<1>1. OffTypeOK'
  BY OffscreenAssumption DEF OffInv, OffTypeOK, Gens, Streams, TimerFires, ConnectWs, attemptVars, mediaVars, socketVars
<1>2. AttemptInv'
  BY DEF OffInv, OffTypeOK, AttemptInv, Gens, Streams, TimerFires, ConnectWs, attemptVars, mediaVars, socketVars
<1>3. HelloBeforeAudio'
  BY OffscreenAssumption DEF OffInv, OffTypeOK, HelloBeforeAudio, FrameGoesOut, TimerFires, ConnectWs, attemptVars, mediaVars, socketVars
<1>4. NeverStranded'
  BY OffscreenAssumption DEF OffInv, OffTypeOK, NeverStranded, Gens, TimerFires, ConnectWs, attemptVars, mediaVars, socketVars
<1> QED
  BY <1>1, <1>2, <1>3, <1>4 DEF OffInv

LEMMA StopCaptureKeeps ==
  ASSUME OffInv, StopCapture
  PROVE  OffInv'
<1>0. mail' \in Seq(Patches) /\ Len(mail') <= MaxMail
  BY StatusSent DEF OffInv, OffTypeOK, Patches, StopCapture
<1>1. OffTypeOK'
  <2>1. sock' \in [Socks -> {"none", "connecting", "open", "closing"}]
    BY DEF OffInv, OffTypeOK, StopCapture
  <2>2. /\ live' \subseteq {"mic", "tab"} \X Gens
        /\ contexts' \subseteq Gens /\ timers' \subseteq Socks
    BY DEF OffInv, OffTypeOK, StopCapture
  <2>0. 0 \in 0 .. MaxGen
    BY OffscreenAssumption
  <2>3. /\ gen' \in 0 .. MaxGen /\ active' = FALSE /\ pc' = pc
        /\ ctx' = 0 /\ tracks' = 0 /\ ws' = NoSock /\ reconnectTimer' = NoSock
        /\ helloed' = helloed /\ drops' = drops
    BY OffscreenAssumption DEF OffInv, OffTypeOK, StopCapture
  <2> QED
    BY <1>0, <2>0, <2>1, <2>2, <2>3 DEF OffInv, OffTypeOK
<1>2. AttemptInv'
  BY DEF OffInv, OffTypeOK, AttemptInv, Gens, Streams, StopCapture, attemptVars, mediaVars, socketVars
<1>3. HelloBeforeAudio'
  BY OffscreenAssumption DEF OffInv, OffTypeOK, HelloBeforeAudio, FrameGoesOut, StopCapture, attemptVars, mediaVars, socketVars
<1>4. NeverStranded'
  BY OffscreenAssumption DEF OffInv, OffTypeOK, NeverStranded, Gens, StopCapture, attemptVars, mediaVars, socketVars
<1> QED
  BY <1>1, <1>2, <1>3, <1>4 DEF OffInv

LEMMA TakeMailKeeps ==
  ASSUME OffInv, TakeMail
  PROVE  OffInv'
<1>0. mail' \in Seq(Patches) /\ Len(mail') <= MaxMail
  BY StatusTaken DEF OffInv, TakeMail
<1>1. OffTypeOK'
  BY <1>0, OffscreenAssumption DEF OffInv, OffTypeOK, Gens, Streams, TakeMail, attemptVars, mediaVars, socketVars
<1>2. AttemptInv'
  BY DEF OffInv, OffTypeOK, AttemptInv, Gens, Streams, TakeMail, attemptVars, mediaVars, socketVars
<1>3. HelloBeforeAudio'
  BY OffscreenAssumption DEF OffInv, OffTypeOK, HelloBeforeAudio, FrameGoesOut, TakeMail, attemptVars, mediaVars, socketVars
<1>4. NeverStranded'
  BY OffscreenAssumption DEF OffInv, OffTypeOK, NeverStranded, Gens, TakeMail, attemptVars, mediaVars, socketVars
<1> QED
  BY <1>1, <1>2, <1>3, <1>4 DEF OffInv

LEMMA DocStepKeeps ==
  ASSUME OffInv, DocStep
  PROVE  OffInv'
BY MicDeniedKeeps, MicGrantedKeeps, TabFailedKeeps, TabGrantedKeeps, ModuleStaleKeeps,
   ModuleLoadedKeeps, ModuleThrowsKeeps, SockOpensKeeps, SockClosesKeeps, TimerFiresKeeps
   DEF DocStep, AttemptStep, SocketStep

LEMMA DocRests ==
  ASSUME OffInv, UNCHANGED docVars
  PROVE  OffInv'
BY DEF OffInv, OffTypeOK, AttemptInv, HelloBeforeAudio, NeverStranded, FrameGoesOut, docVars,
   attemptVars, mediaVars, socketVars

\* The document's inductive invariant.
THEOREM OffscreenInvariant == OffSpec => []OffInv
<1>1. OffInv /\ [OffNext]_docVars => OffInv'
  BY BeginStartKeeps, StopCaptureKeeps, DocStepKeeps, TakeMailKeeps, DocRests DEF OffNext
<1> QED
  BY <1>1, OffInitial, PTL DEF OffSpec

\* An attempt that gives up early leaves no stream on.
THEOREM NothingLeftOn == OffSpec => []BailedLeavesNothingOn
<1>1. OffInv => BailedLeavesNothingOn
  BY DEF OffInv, AttemptInv, BailedLeavesNothingOn
<1> QED
  BY <1>1, OffscreenInvariant, PTL

\* Audio goes out on connections that carried a hello only.
THEOREM HelloFirst == OffSpec => []HelloBeforeAudio
<1>1. OffInv => HelloBeforeAudio
  BY DEF OffInv
<1> QED
  BY <1>1, OffscreenInvariant, PTL

\* A running capture has a connection or a retry to come.
THEOREM AlwaysRetrying == OffSpec => []NeverStranded
<1>1. OffInv => NeverStranded
  BY DEF OffInv
<1> QED
  BY <1>1, OffscreenInvariant, PTL

-----------------------------------------------------------------------------
(* The service worker: what each of its steps does to the document and to  *)
(* the calls.                                                              *)

\* The document goes on, or ends.
DocChange ==
  \/ UNCHANGED <<docVars, doc>>
  \/ doc /\ UNCHANGED doc /\ (BeginStart \/ StopCapture \/ DocStep)
  \/ UNCHANGED doc /\ TakeMail
  \/ ~doc /\ doc' = TRUE /\ UNCHANGED docVars
  \/ doc /\ DocumentEnds

LEMMA DocumentEndsKeeps ==
  ASSUME OffInv, DocumentEnds
  PROVE  OffInv' /\ live' = {}
<1>1. PICK n \in 0 .. Len(mail) : mail' = SubSeq(mail, 1, n)
  BY DEF DocumentEnds
<1>2. mail' \in Seq(Patches) /\ Len(mail') <= MaxMail
  BY <1>1, StatusPrefix DEF OffInv
<1>3. 0 \in 0 .. MaxGen
  BY OffscreenAssumption
<1>4. /\ pc' \in [Gens -> {"none", "mic", "tab", "module", "running", "bailed", "failed"}]
      /\ sock' \in [Socks -> {"none", "connecting", "open", "closing"}]
  BY DEF DocumentEnds
<1>5. OffTypeOK'
  BY <1>2, <1>3, <1>4 DEF DocumentEnds, OffTypeOK, OffInv
<1>6. AttemptInv'
  BY DEF DocumentEnds, AttemptInv
<1>7. HelloBeforeAudio' /\ NeverStranded'
  BY DEF DocumentEnds, HelloBeforeAudio, FrameGoesOut, NeverStranded
<1> QED
  BY <1>5, <1>6, <1>7 DEF OffInv, DocumentEnds

\* The document keeps its invariant, and what is gone stays empty.
LEMMA DocChangeKeeps ==
  ASSUME OffInv, GoneInv, doc \in BOOLEAN, DocChange
  PROVE  OffInv' /\ doc' \in BOOLEAN /\ GoneInv'
<1>1. CASE UNCHANGED <<docVars, doc>>
  BY <1>1, DocRests DEF GoneInv, docVars, mediaVars, socketVars
<1>2. CASE doc /\ UNCHANGED doc /\ (BeginStart \/ StopCapture \/ DocStep)
  BY <1>2, BeginStartKeeps, StopCaptureKeeps, DocStepKeeps DEF GoneInv
<1>3. CASE UNCHANGED doc /\ TakeMail
  BY <1>3, TakeMailKeeps DEF GoneInv, TakeMail, mediaVars, socketVars
<1>4. CASE ~doc /\ doc' = TRUE /\ UNCHANGED docVars
  BY <1>4, DocRests DEF GoneInv
<1>5. CASE doc /\ DocumentEnds
  BY <1>5, DocumentEndsKeeps DEF GoneInv, DocumentEnds
<1> QED
  BY <1>1, <1>2, <1>3, <1>4, <1>5 DEF DocChange

\* A call goes on to another of its awaits.
LEMMA CallGoesOn ==
  ASSUME calls \in Seq(Call), Len(calls) <= MaxClicks, NEW k, NEW kind, NEW from, NEW where,
         At(k, kind, from), ContinueAt(k, where), [kind |-> kind, at |-> where] \in Call
  PROVE  /\ calls' \in Seq(Call) /\ Len(calls') = Len(calls) /\ DOMAIN calls' = DOMAIN calls
         /\ k \in DOMAIN calls
         /\ calls'[k].kind = kind /\ calls'[k].at = where
         /\ \A j \in DOMAIN calls : j # k => calls'[j] = calls[j]
<1>1. k \in 1 .. Len(calls) /\ calls[k] = [kind |-> kind, at |-> from] /\ Len(calls) \in Nat
  BY DEF At
<1> DEFINE c == [kind |-> kind, at |-> where]
<1>2. calls' = [calls EXCEPT ![k] = c] /\ c.kind = kind /\ c.at = where /\ c \in Call
  <2>1. [calls[k] EXCEPT !.at = where] = c
    BY <1>1
  <2> QED
    BY <2>1 DEF ContinueAt
<1> HIDE DEF c
<1>3. calls' \in Seq(Call) /\ Len(calls') = Len(calls) /\ DOMAIN calls' = DOMAIN calls
  BY <1>1, <1>2, ExceptSeq
<1>4. calls'[k] = c /\ \A j \in DOMAIN calls : j # k => calls'[j] = calls[j]
  BY <1>1, <1>2
<1> QED
  BY <1>1, <1>2, <1>3, <1>4

\* How a step moves the calls, and what that needs of the document.
CallChange ==
  \/ UNCHANGED calls /\ (doc' => doc)
  \/ \E k \in DOMAIN calls :
       /\ calls[k].at # "done"
       /\ calls' \in Seq(Call) /\ Len(calls') = Len(calls) /\ DOMAIN calls' = DOMAIN calls
       /\ calls'[k].kind = calls[k].kind
       /\ \A j \in DOMAIN calls : j # k => calls'[j] = calls[j]
       /\ calls[k].kind = "stop" =>
            (doc' => doc) /\ (patient' /\ calls'[k].at \in {"report", "done"} => ~doc')
  \/ \E kind \in {"start", "stop"} :
       /\ calls' \in Seq(Call) /\ Len(calls') = Len(calls) + 1 /\ Len(calls') <= MaxClicks
       /\ DOMAIN calls' = 1 .. Len(calls) + 1
       /\ \A j \in DOMAIN calls : calls'[j] = calls[j]
       /\ calls'[Len(calls) + 1].at \in {"stream", "send"}
       /\ patient' => patient /\ Quiet

LEMMA PatienceKept ==
  ASSUME calls \in Seq(Call), Len(calls) <= MaxClicks, PatientInv, CallChange,
         patient' => patient
  PROVE  PatientInv' /\ calls' \in Seq(Call) /\ Len(calls') <= MaxClicks
<1>1. Len(calls) \in Nat /\ DOMAIN calls = 1 .. Len(calls)
  OBVIOUS
<1>2. CASE UNCHANGED calls /\ (doc' => doc)
  BY <1>2 DEF PatientInv, StopAt, LastCall
<1>3. ASSUME NEW k \in DOMAIN calls,
             calls[k].at # "done",
             calls' \in Seq(Call), Len(calls') = Len(calls), DOMAIN calls' = DOMAIN calls,
             calls'[k].kind = calls[k].kind,
             \A j \in DOMAIN calls : j # k => calls'[j] = calls[j],
             calls[k].kind = "stop" =>
               (doc' => doc) /\ (patient' /\ calls'[k].at \in {"report", "done"} => ~doc')
      PROVE  PatientInv'
  <2> SUFFICES ASSUME patient'
               PROVE  /\ \A j \in DOMAIN calls' : j < Len(calls') => calls'[j].at = "done"
                      /\ calls' # <<>> /\ LastCall'.kind = "stop"
                           /\ LastCall'.at \in {"report", "done"} => ~doc'
    BY DEF PatientInv, StopAt
  <2>1. k = Len(calls)
    BY <1>1, <1>3 DEF PatientInv
  <2>2. \A j \in DOMAIN calls' : j < Len(calls') => calls'[j].at = "done"
    BY <1>1, <1>3, <2>1 DEF PatientInv
  <2>3. LastCall' = calls'[k]
    BY <1>3, <2>1 DEF LastCall
  <2> QED
    BY <1>3, <2>2, <2>3
<1>4. ASSUME calls' \in Seq(Call), Len(calls') = Len(calls) + 1,
             DOMAIN calls' = 1 .. Len(calls) + 1,
             \A j \in DOMAIN calls : calls'[j] = calls[j],
             calls'[Len(calls) + 1].at \in {"stream", "send"},
             patient' => patient /\ Quiet
      PROVE  PatientInv'
  <2> SUFFICES ASSUME patient'
               PROVE  /\ \A j \in DOMAIN calls' : j < Len(calls') => calls'[j].at = "done"
                      /\ LastCall'.at \notin {"report", "done"}
    BY DEF PatientInv, StopAt
  <2>1. \A j \in DOMAIN calls : calls[j].at = "done"
    BY <1>4 DEF Quiet
  <2>2. \A j \in DOMAIN calls' : j < Len(calls') => j \in DOMAIN calls
    BY <1>1, <1>4
  <2>3. LastCall' = calls'[Len(calls) + 1]
    BY SMTT(30), <1>4 DEF LastCall
  <2> QED
    BY <1>4, <2>1, <2>2, <2>3
<1> QED
  BY <1>2, <1>3, <1>4 DEF CallChange

-----------------------------------------------------------------------------
(* The service worker: one lemma per action.                               *)

\* A call at an await goes on to another one, and, for a user who waits, a stop()
\* that has got to its report found the document gone.
Moves(k, kind, from, where) ==
  /\ kind \in {"start", "stop"} /\ At(k, kind, from) /\ ContinueAt(k, where)
  /\ from # "done" /\ [kind |-> kind, at |-> where] \in Call
  /\ kind = "stop" => (doc' => doc) /\ (patient' /\ where \in {"report", "done"} => ~doc')

LEMMA CallMoves ==
  ASSUME WorkerInv, NEW k, NEW kind, NEW from, NEW where, Moves(k, kind, from, where)
  PROVE  CallChange
<1>1. calls \in Seq(Call) /\ Len(calls) <= MaxClicks
  BY DEF WorkerInv, ExtTypeOK
<1>2. /\ calls' \in Seq(Call) /\ Len(calls') = Len(calls) /\ DOMAIN calls' = DOMAIN calls
      /\ k \in DOMAIN calls
      /\ calls'[k].kind = kind /\ calls'[k].at = where
      /\ \A j \in DOMAIN calls : j # k => calls'[j] = calls[j]
  BY <1>1, CallGoesOn DEF Moves
<1>3. calls[k].kind = kind /\ calls[k].at = from
  BY DEF Moves, At
<1> QED
  BY <1>2, <1>3 DEF CallChange, Moves

\* The rest of the worker's state.
WorkerKept ==
  /\ patient' => patient
  /\ patient' \in BOOLEAN
  /\ lastStatus' \in Capture /\ stored' \in Capture \cup {"none"}
  /\ restoring' \in Capture \cup {"none"} /\ evictions' \in 0 .. MaxEvictions

\* What is left to show of a step once its effect on document and calls is
\* known.
LEMMA StepKeeps ==
  ASSUME WorkerInv, DocChange, CallChange, WorkerKept
  PROVE  WorkerInv'
<1>0. /\ patient' => patient
      /\ patient' \in BOOLEAN
      /\ lastStatus' \in Capture /\ stored' \in Capture \cup {"none"}
      /\ restoring' \in Capture \cup {"none"} /\ evictions' \in 0 .. MaxEvictions
  BY DEF WorkerKept
<1>1. OffInv' /\ doc' \in BOOLEAN /\ GoneInv'
  BY DocChangeKeeps DEF WorkerInv, ExtTypeOK
<1>2. PatientInv' /\ calls' \in Seq(Call) /\ Len(calls') <= MaxClicks
  BY <1>0, PatienceKept DEF WorkerInv, ExtTypeOK
<1> QED
  BY <1>0, <1>1, <1>2 DEF WorkerInv, ExtTypeOK, OffInv

LEMMA GotStreamIdStep ==
  ASSUME WorkerInv, NEW k, GotStreamId(k)
  PROVE  WorkerInv'
<1>1. DocChange
  BY DEF DocChange, GotStreamId
<1>2. \E from, where : Moves(k, "start", from, where)
  BY DEF Moves, GotStreamId, Call, At
<1>3. CallChange
  BY <1>2, CallMoves
<1>4. WorkerKept
  BY DEF WorkerKept, WorkerInv, ExtTypeOK, GotStreamId, Broadcast, Capture
<1> QED
  BY <1>1, <1>3, <1>4, StepKeeps

LEMMA StartFailsStep ==
  ASSUME WorkerInv, NEW k, StartFails(k)
  PROVE  WorkerInv'
<1>1. DocChange
  BY DEF DocChange, StartFails
<1>2. \E from, where : Moves(k, "start", from, where)
  BY DEF Moves, StartFails, Call, At
<1>3. CallChange
  BY <1>2, CallMoves
<1>4. WorkerKept
  BY DEF WorkerKept, WorkerInv, ExtTypeOK, StartFails, Broadcast, Capture
<1> QED
  BY <1>1, <1>3, <1>4, StepKeeps

LEMMA StartHasOffscreenStep ==
  ASSUME WorkerInv, NEW k, StartHasOffscreen(k)
  PROVE  WorkerInv'
<1>1. DocChange
  BY DEF DocChange, StartHasOffscreen
<1>2. \E from, where : Moves(k, "start", from, where)
  BY DEF Moves, StartHasOffscreen, Call, At
<1>3. CallChange
  BY <1>2, CallMoves
<1>4. WorkerKept
  BY DEF WorkerKept, WorkerInv, ExtTypeOK, StartHasOffscreen, Broadcast, Capture
<1> QED
  BY <1>1, <1>3, <1>4, StepKeeps

LEMMA CreateDocumentStep ==
  ASSUME WorkerInv, NEW k, CreateDocument(k)
  PROVE  WorkerInv'
<1>1. DocChange
  BY DEF DocChange, CreateDocument
<1>2. \E from, where : Moves(k, "start", from, where)
  BY DEF Moves, CreateDocument, Call, At
<1>3. CallChange
  BY <1>2, CallMoves
<1>4. WorkerKept
  BY DEF WorkerKept, WorkerInv, ExtTypeOK, CreateDocument, Broadcast, Capture
<1> QED
  BY <1>1, <1>3, <1>4, StepKeeps

LEMMA SendStartStep ==
  ASSUME WorkerInv, NEW k, SendStart(k)
  PROVE  WorkerInv'
<1>1. DocChange
  BY DEF DocChange, SendStart
<1>2. \E from, where : Moves(k, "start", from, where)
  BY DEF Moves, SendStart, Call, At
<1>3. CallChange
  BY <1>2, CallMoves
<1>4. WorkerKept
  BY DEF WorkerKept, WorkerInv, ExtTypeOK, SendStart, Broadcast, Capture
<1> QED
  BY <1>1, <1>3, <1>4, StepKeeps

LEMMA SendStartLostStep ==
  ASSUME WorkerInv, NEW k, SendStartLost(k)
  PROVE  WorkerInv'
<1>1. DocChange
  BY DEF DocChange, SendStartLost
<1>2. \E from, where : Moves(k, "start", from, where)
  BY DEF Moves, SendStartLost, Call, At
<1>3. CallChange
  BY <1>2, CallMoves
<1>4. WorkerKept
  BY DEF WorkerKept, WorkerInv, ExtTypeOK, SendStartLost, Broadcast, Capture
<1> QED
  BY <1>1, <1>3, <1>4, StepKeeps

LEMMA SendStopStep ==
  ASSUME WorkerInv, NEW k, SendStop(k)
  PROVE  WorkerInv'
<1>1. DocChange
  BY DEF DocChange, SendStop
<1>2. \E from, where : Moves(k, "stop", from, where)
  BY DEF Moves, SendStop, Call, At
<1>3. CallChange
  BY <1>2, CallMoves
<1>4. WorkerKept
  BY DEF WorkerKept, WorkerInv, ExtTypeOK, SendStop, Broadcast, Capture
<1> QED
  BY <1>1, <1>3, <1>4, StepKeeps

LEMMA StopHasOffscreenStep ==
  ASSUME WorkerInv, NEW k, StopHasOffscreen(k)
  PROVE  WorkerInv'
<1>1. DocChange
  BY DEF DocChange, StopHasOffscreen
<1>2. \E from, where : Moves(k, "stop", from, where)
  BY DEF Moves, StopHasOffscreen, Call, At
<1>3. CallChange
  BY <1>2, CallMoves
<1>4. WorkerKept
  BY DEF WorkerKept, WorkerInv, ExtTypeOK, StopHasOffscreen, Broadcast, Capture
<1> QED
  BY <1>1, <1>3, <1>4, StepKeeps

LEMMA CloseDocumentStep ==
  ASSUME WorkerInv, NEW k, CloseDocument(k)
  PROVE  WorkerInv'
<1>1. DocChange
  BY DEF DocChange, CloseDocument
<1>2. Moves(k, "stop", "close", "report")
  BY DEF Moves, CloseDocument, DocumentEnds, Call
<1>3. CallChange
  BY <1>2, CallMoves
<1>4. WorkerKept
  BY DEF WorkerKept, WorkerInv, ExtTypeOK, CloseDocument, Broadcast, Capture
<1> QED
  BY <1>1, <1>3, <1>4, StepKeeps

LEMMA CloseRejectedStep ==
  ASSUME WorkerInv, NEW k, CloseRejected(k)
  PROVE  WorkerInv'
<1>1. DocChange
  BY DEF DocChange, CloseRejected
<1>2. \E from, where : Moves(k, "stop", from, where)
  BY DEF Moves, CloseRejected, Call, At
<1>3. CallChange
  BY <1>2, CallMoves
<1>4. WorkerKept
  BY DEF WorkerKept, WorkerInv, ExtTypeOK, CloseRejected, Broadcast, Capture
<1> QED
  BY <1>1, <1>3, <1>4, StepKeeps

LEMMA StopReportsStep ==
  ASSUME WorkerInv, NEW k, StopReports(k)
  PROVE  WorkerInv'
<1>1. DocChange
  BY DEF DocChange, StopReports
<1>2. Moves(k, "stop", "report", "done")
  <2>1. patient => ~doc
    <3> SUFFICES ASSUME patient PROVE ~doc
      OBVIOUS
    <3>1. k \in DOMAIN calls /\ calls[k] = [kind |-> "stop", at |-> "report"]
      BY DEF StopReports, At
    <3>2. k = Len(calls) /\ calls # <<>>
      BY <3>1 DEF WorkerInv, ExtTypeOK, PatientInv
    <3> QED
      BY <3>1, <3>2 DEF WorkerInv, PatientInv, StopAt, LastCall
  <2> QED
    BY <2>1 DEF Moves, StopReports, Call
<1>3. CallChange
  BY <1>2, CallMoves
<1>4. WorkerKept
  BY DEF WorkerKept, WorkerInv, ExtTypeOK, StopReports, Broadcast, Capture
<1> QED
  BY <1>1, <1>3, <1>4, StepKeeps

LEMMA ClickAdds ==
  ASSUME WorkerInv, NEW kind \in {"start", "stop"}, NEW where \in {"stream", "send"},
         [kind |-> kind, at |-> where] \in Call, Click(kind, where)
  PROVE  CallChange
<1> DEFINE c == [kind |-> kind, at |-> where]
<1>1. c \in Call /\ c.at = where /\ calls' = Append(calls, c)
  BY DEF Click
<1> HIDE DEF c
<1>2. calls \in Seq(Call) /\ Len(calls) \in Nat /\ Len(calls) < MaxClicks /\ MaxClicks \in Nat
  BY ExtensionAssumption DEF WorkerInv, ExtTypeOK, Click
<1>3. /\ calls' \in Seq(Call) /\ Len(calls') = Len(calls) + 1 /\ Len(calls') <= MaxClicks
      /\ DOMAIN calls' = 1 .. Len(calls) + 1
      /\ \A j \in DOMAIN calls : calls'[j] = calls[j]
      /\ calls'[Len(calls) + 1] = c
  BY <1>1, <1>2
<1> QED
  BY <1>1, <1>3 DEF CallChange, Click

LEMMA ClickStartStep ==
  ASSUME WorkerInv, ClickStart
  PROVE  WorkerInv'
<1>1. DocChange
  BY DEF DocChange, ClickStart
<1>2. CallChange
  BY ClickAdds DEF ClickStart, Call
<1>4. WorkerKept
  BY DEF WorkerKept, WorkerInv, ExtTypeOK, ClickStart, Click, Broadcast, Capture
<1> QED
  BY <1>1, <1>2, <1>4, StepKeeps

LEMMA ClickStopStep ==
  ASSUME WorkerInv, ClickStop
  PROVE  WorkerInv'
<1>1. DocChange
  BY DEF DocChange, ClickStop
<1>2. CallChange
  BY ClickAdds DEF ClickStop, Call
<1>4. WorkerKept
  BY DEF WorkerKept, WorkerInv, ExtTypeOK, ClickStop, Click, Broadcast, Capture
<1> QED
  BY <1>1, <1>2, <1>4, StepKeeps

LEMMA OffscreenStatusStep ==
  ASSUME WorkerInv, OffscreenStatus
  PROVE  WorkerInv'
<1>1. DocChange /\ CallChange
  BY DEF DocChange, CallChange, OffscreenStatus
<1>2. WorkerKept
  BY DEF WorkerKept, WorkerInv, ExtTypeOK, OffscreenStatus, Broadcast, Merged, Capture
<1> QED
  BY <1>1, <1>2, StepKeeps

LEMMA EvictStep ==
  ASSUME WorkerInv, Evict
  PROVE  WorkerInv'
<1>1. DocChange /\ CallChange
  BY DEF DocChange, CallChange, Evict
<1>2. WorkerKept
  BY ExtensionAssumption DEF WorkerKept, WorkerInv, ExtTypeOK, Evict, Broadcast, Merged, Capture
<1> QED
  BY <1>1, <1>2, StepKeeps

LEMMA RestoreStep ==
  ASSUME WorkerInv, Restore
  PROVE  WorkerInv'
<1>1. DocChange /\ CallChange
  BY DEF DocChange, CallChange, Restore
<1>2. WorkerKept
  BY DEF WorkerKept, WorkerInv, ExtTypeOK, Restore, Broadcast, Merged, Capture
<1> QED
  BY <1>1, <1>2, StepKeeps

LEMMA DocumentRunsStep ==
  ASSUME WorkerInv, DocumentRuns
  PROVE  WorkerInv'
<1>1. DocChange /\ CallChange
  BY DEF DocChange, CallChange, DocumentRuns, swVars
<1>2. WorkerKept
  BY DEF WorkerKept, WorkerInv, ExtTypeOK, DocumentRuns, swVars, Broadcast, Merged, Capture
<1> QED
  BY <1>1, <1>2, StepKeeps

-----------------------------------------------------------------------------
LEMMA WorkerInitial == ExtInit => WorkerInv
<1> SUFFICES ASSUME ExtInit PROVE WorkerInv
  OBVIOUS
<1>1. OffInv /\ GoneInv
  BY OffInitial DEF ExtInit, OffInit, GoneInv
<1>2. calls \in Seq(Call) /\ Len(calls) <= MaxClicks /\ PatientInv
  BY ExtensionAssumption DEF ExtInit, PatientInv, StopAt
<1>3. ExtTypeOK
  <2>1. 0 \in 0 .. MaxEvictions
    BY ExtensionAssumption
  <2> QED
    BY <1>1, <1>2, <2>1 DEF ExtInit, ExtTypeOK, OffInv, Capture
<1> QED
  BY <1>1, <1>2, <1>3 DEF WorkerInv

LEMMA WorkerStep == WorkerInv /\ [ExtNext]_extVars => WorkerInv'
<1> SUFFICES ASSUME WorkerInv, [ExtNext]_extVars PROVE WorkerInv'
  OBVIOUS
<1>1. ASSUME NEW k \in 1 .. MaxClicks, CallStep(k) PROVE WorkerInv'
  BY <1>1, GotStreamIdStep, StartFailsStep, StartHasOffscreenStep, CreateDocumentStep,
     SendStartStep, SendStartLostStep, SendStopStep, StopHasOffscreenStep,
     CloseDocumentStep, CloseRejectedStep, StopReportsStep DEF CallStep
<1>2. CASE UNCHANGED extVars
  <2>1. OffInv'
    BY <1>2, DocRests DEF WorkerInv, extVars
  <2> QED
    BY <1>2, <2>1 DEF WorkerInv, ExtTypeOK, OffInv, GoneInv, PatientInv, StopAt, LastCall,
                      extVars, swVars, docVars, mediaVars, socketVars
<1> QED
  BY <1>1, <1>2, ClickStartStep, ClickStopStep, OffscreenStatusStep, EvictStep, RestoreStep,
     DocumentRunsStep DEF ExtNext

-----------------------------------------------------------------------------
(* What the popup shows: the steps of the document.                        *)

\* An undisturbed document ends no capture, and starts to leave traces of one
\* only by capturing.
ShowsOn ==
  /\ \A g \in Gens : UnderWay(g)' => UnderWay(g)
  /\ \A g \in Gens : pc'[g] = "module" => g \in contexts'
  /\ Capturing => Capturing'
  /\ Trace' => Trace \/ Capturing'

Telling == {"running", "connected", "disconnected"}

LEMMA AppendTells ==
  ASSUME mail \in Seq(Patches), NEW patch \in Patches, patch \notin Telling,
         mail' = Append(mail, patch),
         \E i \in 1 .. Len(mail') : mail'[i] \in Telling
  PROVE  \E i \in 1 .. Len(mail) : mail[i] \in Telling
BY DEF Telling

LEMMA TailTells ==
  ASSUME mail \in Seq(Patches), mail # <<>>, mail' = Tail(mail),
         \E i \in 1 .. Len(mail') : mail'[i] \in Telling
  PROVE  \E i \in 1 .. Len(mail) : mail[i] \in Telling
<1>1. PICK i \in 1 .. Len(Tail(mail)) : Tail(mail)[i] \in Telling
  OBVIOUS
<1>2. Len(Tail(mail)) = Len(mail) - 1 /\ Len(mail) \in Nat /\ Tail(mail)[i] = mail[i + 1]
  OBVIOUS
<1>3. i + 1 \in 1 .. Len(mail) /\ mail[i + 1] \in Telling
  BY <1>1, <1>2
<1> QED
  BY <1>3

\* An attempt that ends without capturing reports at most an error.
LEMMA AttemptEnds ==
  ASSUME OffTypeOK, Undisturbed, NEW g \in Gens, UnderWay(g), GoTo(g, "bailed") \/ GoTo(g, "failed"),
         UNCHANGED mail \/ Status("error"), UNCHANGED <<contexts, sock, timers>>
  PROVE  ShowsOn
<1>1. \A h \in Gens : pc'[h] = pc[h] \/ (h = g /\ pc'[h] \in {"bailed", "failed"})
  BY DEF OffTypeOK, GoTo
<1>2. /\ \A h \in Gens : UnderWay(h)' => UnderWay(h)
      /\ \A h \in Gens : pc'[h] = "module" => h \in contexts'
  BY <1>1 DEF UnderWay, Undisturbed
<1>3. Capturing => Capturing'
  BY <1>1 DEF Capturing, UnderWay
<1>4. Trace' => Trace
  <2>1. (\E i \in 1 .. Len(mail') : mail'[i] \in Telling)
           => \E i \in 1 .. Len(mail) : mail[i] \in Telling
    BY AppendTells DEF OffTypeOK, Status, Patches, Telling
  <2> QED
    BY <2>1 DEF Trace, Telling
<1> QED
  BY <1>2, <1>3, <1>4 DEF ShowsOn

\* A granted stream takes the attempt to its next await.
LEMMA AttemptGoesOn ==
  ASSUME OffTypeOK, Undisturbed, NEW g \in Gens, UnderWay(g), NEW where \in {"tab", "module"},
         GoTo(g, where), where = "module" => g \in contexts', contexts \subseteq contexts',
         UNCHANGED <<mail, sock, timers>>
  PROVE  ShowsOn
<1>1. \A h \in Gens : pc'[h] = pc[h] \/ (h = g /\ pc'[h] = where)
  BY DEF OffTypeOK, GoTo
<1>2. /\ \A h \in Gens : UnderWay(h)' => UnderWay(h)
      /\ \A h \in Gens : pc'[h] = "module" => h \in contexts'
  BY <1>1 DEF UnderWay, Undisturbed
<1>3. Capturing => Capturing'
  BY <1>1 DEF Capturing, UnderWay
<1>4. Trace' => Trace
  BY DEF Trace
<1> QED
  BY <1>2, <1>3, <1>4 DEF ShowsOn

LEMMA LoadedShows ==
  ASSUME OffTypeOK, Undisturbed, NEW g \in Gens, ModuleLoaded(g)
  PROVE  ShowsOn
<1>1. \A h \in Gens : pc'[h] = pc[h] \/ (h = g /\ pc'[h] = "running")
  BY DEF OffTypeOK, ModuleLoaded, GoTo
<1>2. pc'[g] = "running" /\ pc[g] = "module" /\ contexts' = contexts
  BY DEF OffTypeOK, ModuleLoaded, GoTo, mediaVars
<1>3. g \in contexts
  BY <1>2 DEF Undisturbed, UnderWay
<1>4. Capturing'
  BY <1>2, <1>3 DEF Capturing
<1>5. /\ \A h \in Gens : UnderWay(h)' => UnderWay(h)
      /\ \A h \in Gens : pc'[h] = "module" => h \in contexts'
  BY <1>1, <1>2 DEF UnderWay, Undisturbed
<1> QED
  BY <1>4, <1>5 DEF ShowsOn

\* A socket or a timer is a trace already.
LEMMA SocketShows ==
  ASSUME OffTypeOK, Undisturbed, NEW s \in Socks, SocketStep(s)
  PROVE  ShowsOn
<1>1. UNCHANGED <<pc, contexts>>
  BY DEF SocketStep, SockOpens, SockCloses, TimerFires, attemptVars, mediaVars
<1>2. Trace
  BY DEF Trace, SocketStep, SockOpens, SockCloses, TimerFires
<1>3. /\ \A h \in Gens : UnderWay(h)' => UnderWay(h)
      /\ \A h \in Gens : pc'[h] = "module" => h \in contexts'
      /\ Capturing => Capturing'
  BY <1>1 DEF UnderWay, Undisturbed, Capturing
<1> QED
  BY <1>2, <1>3 DEF ShowsOn

LEMMA DocStepShows ==
  ASSUME OffTypeOK, Undisturbed, DocStep
  PROVE  ShowsOn
<1>1. ASSUME NEW g \in Gens, AttemptStep(g) PROVE ShowsOn
  <2>0. \A h \in Gens : UnderWay(h) => ~Stale(h)
    BY DEF Undisturbed, Stale
  <2>1. CASE MicDenied(g) \/ TabFailed(g) \/ ModuleThrows(g)
    <3>1. /\ UnderWay(g) /\ (GoTo(g, "bailed") \/ GoTo(g, "failed"))
          /\ UNCHANGED mail \/ Status("error")
          /\ UNCHANGED <<contexts, sock, timers>>
      BY <2>1 DEF UnderWay, MicDenied, TabFailed, ModuleThrows, mediaVars, socketVars
    <3> QED
      BY <3>1, AttemptEnds
  <2>2. CASE MicGranted(g)
    <3>1. UnderWay(g) /\ GoTo(g, "tab") /\ UNCHANGED <<contexts, mail, sock, timers>>
      BY <2>0, <2>2 DEF UnderWay, MicGranted, socketVars
    <3> QED
      BY <3>1, AttemptGoesOn
  <2>3. CASE TabGranted(g)
    <3>1. /\ UnderWay(g) /\ GoTo(g, "module") /\ contexts' = contexts \cup {g}
          /\ UNCHANGED <<mail, sock, timers>>
      BY <2>0, <2>3 DEF UnderWay, TabGranted, socketVars
    <3> QED
      BY <3>1, AttemptGoesOn
  <2>4. ~ModuleStale(g)
    BY <2>0 DEF UnderWay, ModuleStale
  <2> QED
    BY <1>1, <2>1, <2>2, <2>3, <2>4, LoadedShows DEF AttemptStep
<1> QED
  BY <1>1, SocketShows DEF DocStep

-----------------------------------------------------------------------------
(* What the popup shows: the steps of the worker.                          *)

\* For a user who waits the only call that can go on is the last.
LEMMA LastMoves ==
  ASSUME WorkerInv, patient, NEW k, NEW kind \in {"start", "stop"}, NEW from, NEW where,
         At(k, kind, from), ContinueAt(k, where), from # "done",
         [kind |-> kind, at |-> where] \in Call
  PROVE  /\ calls # <<>> /\ LastCall.kind = kind /\ LastCall.at = from
         /\ calls' # <<>> /\ LastCall'.kind = kind /\ LastCall'.at = where
<1>1. calls \in Seq(Call) /\ Len(calls) <= MaxClicks /\ Len(calls) \in Nat
  BY DEF WorkerInv, ExtTypeOK
<1>2. /\ calls' \in Seq(Call) /\ Len(calls') = Len(calls)
      /\ k \in 1 .. Len(calls) /\ calls'[k].kind = kind /\ calls'[k].at = where
  BY <1>1, CallGoesOn
<1>3. calls[k].kind = kind /\ calls[k].at = from
  BY DEF At
<1>4. k = Len(calls)
  BY SMTT(30), <1>1, <1>2, <1>3 DEF WorkerInv, PatientInv
<1> QED
  BY <1>1, <1>2, <1>3, <1>4 DEF LastCall

\* A step of the last start() that leaves the document's attempts alone.
LEMMA StartShows ==
  ASSUME WorkerInv, ShownInv, patient, NEW k, NEW from, NEW where,
         At(k, "start", from), ContinueAt(k, where), from # "done",
         [kind |-> "start", at |-> where] \in Call,
         UNCHANGED docVars, doc => doc', stored' = "running" => stored = "running"
  PROVE  ShownInv'
<1>1. /\ calls # <<>> /\ LastCall.kind = "start" /\ LastCall.at = from
      /\ LastCall'.kind = "start"
  BY LastMoves
<1>2. \A places : ~StopAt(places) /\ ~StopAt(places)'
  BY <1>1 DEF StopAt
<1>3. \A g \in Gens : ~UnderWay(g)
  BY <1>1 DEF ShownInv, Undisturbed
<1>4. Undisturbed'
  BY <1>3 DEF Undisturbed, UnderWay, docVars, attemptVars
<1>5. (Trace' => Trace) /\ (Capturing => Capturing') /\ mail' = mail
  BY DEF Trace, Capturing, docVars, attemptVars, mediaVars, socketVars
<1>6. Trace \/ stored = "running" => Capturing
  BY <1>2 DEF ShownInv
<1>7. ~doc => mail = <<>>
  BY <1>2 DEF ShownInv
<1> QED
  BY <1>2, <1>4, <1>5, <1>6, <1>7 DEF ShownInv

\* A step of the last stop(): no attempt is under way.
LEMMA StopQuiet ==
  ASSUME WorkerInv, ShownInv, patient, NEW k, NEW from, NEW where,
         At(k, "stop", from), ContinueAt(k, where), from # "done",
         [kind |-> "stop", at |-> where] \in Call
  PROVE  /\ \A g \in Gens : ~UnderWay(g)
         /\ \A places : (StopAt(places) <=> from \in places) /\ (StopAt(places)' <=> where \in places)
<1>1. /\ calls # <<>> /\ LastCall.kind = "stop" /\ LastCall.at = from
      /\ calls' # <<>> /\ LastCall'.kind = "stop" /\ LastCall'.at = where
  BY LastMoves
<1> QED
  BY <1>1 DEF ShownInv, Undisturbed, StopAt

LEMMA CallShows ==
  ASSUME WorkerInv, WorkerInv', ShownInv, patient, NEW k, CallStep(k)
  PROVE  ShownInv'
<1>1. CASE GotStreamId(k) \/ StartFails(k) \/ StartHasOffscreen(k) \/ CreateDocument(k)
           \/ SendStartLost(k)
  <2>1. \E from, where :
          /\ At(k, "start", from) /\ ContinueAt(k, where) /\ from # "done"
          /\ [kind |-> "start", at |-> where] \in Call
    BY <1>1 DEF GotStreamId, StartFails, StartHasOffscreen, CreateDocument, SendStartLost, Call
  <2>2. UNCHANGED docVars /\ (stored' = "running" => stored = "running")
    BY <1>1 DEF GotStreamId, StartFails, StartHasOffscreen, CreateDocument, SendStartLost,
                Broadcast
  <2>3. doc' = doc \/ doc' = TRUE
    BY <1>1 DEF GotStreamId, StartFails, StartHasOffscreen, CreateDocument, SendStartLost
  <2>4. doc => doc'
    BY <2>3
  <2> QED
    BY <2>1, <2>2, <2>4, StartShows
<1>2. CASE SendStart(k)
  <2>0. /\ At(k, "start", "send") /\ ContinueAt(k, "done") /\ BeginStart /\ doc
        /\ UNCHANGED <<doc, stored>> /\ [kind |-> "start", at |-> "done"] \in Call
    BY <1>2 DEF SendStart, Call
  <2>1. /\ calls # <<>> /\ LastCall.kind = "start" /\ LastCall.at = "send"
        /\ calls' # <<>> /\ LastCall'.kind = "start" /\ LastCall'.at = "done"
    BY <2>0, LastMoves
  <2>2. \A places : ~StopAt(places) /\ ~StopAt(places)'
    BY <2>1 DEF StopAt
  <2>3. \A g \in Gens : ~UnderWay(g)
    BY <2>1 DEF ShownInv, Undisturbed
  <2>4. gen' = gen + 1 /\ gen + 1 \in Gens /\ pc[gen + 1] = "none" /\ pc'[gen + 1] = "mic"
        /\ \A g \in Gens : g # gen + 1 => pc'[g] = pc[g]
    <3>1. gen + 1 \in Gens /\ gen + 1 > gen
      BY <2>0, OffscreenAssumption DEF BeginStart, WorkerInv, OffInv, OffTypeOK, Gens
    <3> QED
      BY <2>0, <3>1 DEF BeginStart, WorkerInv, OffInv, OffTypeOK, AttemptInv
  <2>5. LastCall' = [kind |-> "start", at |-> "done"]
    <3>1. LastCall' \in Call
      BY <2>1 DEF WorkerInv, ExtTypeOK, LastCall
    <3> QED
      BY <2>1, <3>1 DEF Call
  <2>6. Undisturbed'
    BY <2>1, <2>3, <2>4, <2>5 DEF Undisturbed, UnderWay
  <2>7. /\ Trace' => Trace
        /\ Capturing => Capturing'
    BY <2>0, <2>4 DEF BeginStart, Trace, Capturing, mediaVars, socketVars
  <2>8. stored = "running" \/ Trace => Capturing
    BY <2>2 DEF ShownInv
  <2> QED
    BY <2>0, <2>2, <2>6, <2>7, <2>8 DEF ShownInv
<1>3. CASE SendStop(k)
  <2>0. /\ At(k, "stop", "send") /\ ContinueAt(k, "has")
        /\ UNCHANGED doc /\ [kind |-> "stop", at |-> "has"] \in Call
        /\ UNCHANGED <<pc, contexts>> \/ StopCapture
        /\ ~doc => UNCHANGED mail
    BY <1>3 DEF SendStop, Call, docVars, attemptVars, mediaVars
  <2>1. /\ \A g \in Gens : ~UnderWay(g)
        /\ \A places : (StopAt(places) <=> "send" \in places) /\ (StopAt(places)' <=> "has" \in places)
    BY <2>0, StopQuiet
  <2>2. Undisturbed'
    BY <2>0, <2>1 DEF Undisturbed, UnderWay, StopCapture
  <2>3. ~doc => mail = <<>>
    BY <2>1 DEF ShownInv
  <2> QED
    BY <2>0, <2>1, <2>2, <2>3 DEF ShownInv
<1>4. CASE StopHasOffscreen(k) /\ doc
  <2>0. /\ At(k, "stop", "has") /\ ContinueAt(k, "close")
        /\ UNCHANGED <<doc, pc>> /\ [kind |-> "stop", at |-> "close"] \in Call
    BY <1>4 DEF StopHasOffscreen, Call, docVars, attemptVars
  <2>1. /\ \A g \in Gens : ~UnderWay(g)
        /\ \A places : (StopAt(places)' <=> "close" \in places)
    BY <2>0, StopQuiet
  <2>2. Undisturbed'
    BY <2>0, <2>1 DEF Undisturbed, UnderWay
  <2> QED
    BY <1>4, <2>0, <2>1, <2>2 DEF ShownInv
<1>5. CASE StopHasOffscreen(k) /\ ~doc
  <2>0. /\ At(k, "stop", "has") /\ ContinueAt(k, "done") /\ stored' = "idle"
        /\ UNCHANGED <<doc, docVars>> /\ [kind |-> "stop", at |-> "done"] \in Call
    BY <1>5 DEF StopHasOffscreen, Broadcast, Call
  <2>1. /\ \A g \in Gens : ~UnderWay(g)
        /\ \A places : (StopAt(places) <=> "has" \in places) /\ (StopAt(places)' <=> "done" \in places)
    BY <2>0, StopQuiet
  <2>2. Undisturbed'
    BY <2>0, <2>1 DEF Undisturbed, UnderWay, docVars, attemptVars
  <2>3. mail' = <<>>
    BY <1>5, <2>0, <2>1 DEF ShownInv, docVars
  <2>4. ~Trace'
    BY <1>5, <2>0, <2>3 DEF Trace, WorkerInv, GoneInv, docVars, socketVars
  <2> QED
    BY <2>0, <2>1, <2>2, <2>3, <2>4 DEF ShownInv
<1>6. CASE CloseDocument(k)
  <2>0. /\ At(k, "stop", "close") /\ ContinueAt(k, "report")
        /\ pc' = [g \in Gens |-> "none"] /\ [kind |-> "stop", at |-> "report"] \in Call
    BY <1>6 DEF CloseDocument, DocumentEnds, Call
  <2>1. \A places : (StopAt(places)' <=> "report" \in places)
    BY <2>0, StopQuiet
  <2>2. Undisturbed'
    BY <2>0 DEF Undisturbed, UnderWay
  <2> QED
    BY <2>1, <2>2 DEF ShownInv
<1>7. ~CloseRejected(k)
  <2> SUFFICES ASSUME CloseRejected(k) PROVE FALSE
    OBVIOUS
  <2>0. /\ At(k, "stop", "close") /\ ContinueAt(k, "done") /\ ~doc
        /\ [kind |-> "stop", at |-> "done"] \in Call
    BY DEF CloseRejected, Call
  <2>1. \A places : (StopAt(places) <=> "close" \in places)
    BY <2>0, StopQuiet
  <2> QED
    BY <2>0, <2>1 DEF ShownInv
<1>8. CASE StopReports(k)
  <2>0. /\ At(k, "stop", "report") /\ ContinueAt(k, "done") /\ stored' = "idle"
        /\ UNCHANGED <<doc, docVars>> /\ [kind |-> "stop", at |-> "done"] \in Call
        /\ mail = <<>>
    BY <1>8 DEF StopReports, Broadcast, Call
  <2>1. /\ \A g \in Gens : ~UnderWay(g)
        /\ \A places : (StopAt(places) <=> "report" \in places) /\ (StopAt(places)' <=> "done" \in places)
    BY <2>0, StopQuiet
  <2>2. Undisturbed'
    BY <2>0, <2>1 DEF Undisturbed, UnderWay, docVars, attemptVars
  <2>3. ~doc
    BY <2>1 DEF WorkerInv, PatientInv
  <2>4. ~Trace' /\ mail' = <<>>
    BY <2>0, <2>3 DEF Trace, WorkerInv, GoneInv, docVars, socketVars
  <2> QED
    BY <2>0, <2>1, <2>2, <2>4 DEF ShownInv
<1> QED
  BY <1>1, <1>2, <1>3, <1>4, <1>5, <1>6, <1>7, <1>8 DEF CallStep

\* A click of a user who waits finds nothing under way.
LEMMA ClickShows ==
  ASSUME WorkerInv, ShownInv, patient', NEW kind \in {"start", "stop"},
         NEW where \in {"stream", "send"}, Click(kind, where),
         UNCHANGED <<docVars, doc>>, stored' = "running" => stored = "running"
  PROVE  ShownInv'
<1>1. patient /\ Quiet
  BY DEF Click
<1>2. calls \in Seq(Call) /\ Len(calls) \in Nat
  BY DEF WorkerInv, ExtTypeOK
<1>3. calls # <<>> => LastCall.at = "done"
  <2>1. calls # <<>> => Len(calls) \in DOMAIN calls
    BY <1>2
  <2> QED
    BY <1>1, <2>1 DEF Quiet, LastCall
<1>4. LastCall'.at = where
  <2> DEFINE c == [kind |-> kind, at |-> where]
  <2>1. calls' = Append(calls, c) /\ c.at = where
    BY DEF Click
  <2> HIDE DEF c
  <2>2. Len(calls') = Len(calls) + 1 /\ calls'[Len(calls) + 1] = c
    BY <1>2, <2>1
  <2> QED
    BY <2>1, <2>2 DEF LastCall
<1>5. \A g \in Gens : ~UnderWay(g)
  BY <1>1 DEF Quiet, UnderWay
<1>6. Undisturbed'
  BY <1>5 DEF Undisturbed, UnderWay, docVars, attemptVars
<1>7. ~StopAt({"close"})' /\ ~StopAt({"has", "close", "report"}) /\ mail' = <<>>
  BY <1>1, <1>3, <1>4 DEF StopAt, Quiet, docVars
<1>8. (Trace' => Trace) /\ (Capturing => Capturing')
  BY DEF Trace, Capturing, docVars, attemptVars, mediaVars, socketVars
<1>9. stored = "running" \/ Trace => Capturing
  BY <1>1, <1>7 DEF ShownInv
<1> QED
  BY <1>6, <1>7, <1>8, <1>9 DEF ShownInv

\* What a message makes the popup show it has left a trace of.
LEMMA StatusShows ==
  ASSUME WorkerInv, ShownInv, patient, OffscreenStatus
  PROVE  ShownInv'
<1>0. /\ UNCHANGED <<doc, calls, pc, gen, contexts, sock, timers>>
      /\ mail # <<>> /\ mail' = Tail(mail) /\ stored' = Merged(Head(mail))
  BY DEF OffscreenStatus, TakeMail, Broadcast, attemptVars, mediaVars, socketVars
<1>1. mail \in Seq(Patches)
  BY DEF WorkerInv, OffInv, OffTypeOK
<1>2. Trace' => Trace
  <2>1. (\E i \in 1 .. Len(mail') : mail'[i] \in Telling)
           => \E i \in 1 .. Len(mail) : mail[i] \in Telling
    BY <1>0, <1>1, TailTells
  <2> QED
    BY <1>0, <2>1 DEF Trace, Telling
<1>3. stored' = "running" => Trace
  <2>1. Head(mail) = mail[1] /\ 1 \in 1 .. Len(mail) /\ mail[1] \in Patches
    BY <1>0, <1>1
  <2>2. stored' = "running" => Head(mail) \in {"running", "connected", "disconnected"}
    BY <1>0, <2>1 DEF Merged, Patches, Capture
  <2> QED
    BY <2>1, <2>2 DEF Trace
<1>4. /\ Undisturbed => Undisturbed'
      /\ Capturing' <=> Capturing
      /\ \A places : StopAt(places)' <=> StopAt(places)
  BY <1>0 DEF Undisturbed, UnderWay, Capturing, StopAt, LastCall
<1>5. ~doc' => mail = <<>> \/ StopAt({"report"})
  BY <1>0 DEF ShownInv
<1> QED
  BY <1>0, <1>2, <1>3, <1>4, <1>5 DEF ShownInv

LEMMA DocumentShows ==
  ASSUME WorkerInv, ShownInv, patient, DocumentRuns
  PROVE  ShownInv'
<1>0. doc /\ DocStep /\ UNCHANGED <<doc, calls, stored>>
  BY DEF DocumentRuns, swVars
<1>1. Undisturbed /\ OffTypeOK
  BY DEF ShownInv, WorkerInv, OffInv
<1>2. ShowsOn
  BY <1>0, <1>1, DocStepShows
<1>3. gen' = gen
  BY <1>0 DEF DocStep, AttemptStep, MicDenied, MicGranted, TabFailed, TabGranted, ModuleStale,
              ModuleLoaded, ModuleThrows, SocketStep, SockOpens, SockCloses, TimerFires,
              attemptVars
<1>4. /\ LastCall' = LastCall
      /\ \A places : StopAt(places)' <=> StopAt(places)
  BY <1>0 DEF StopAt, LastCall
<1>5. Undisturbed'
  BY <1>0, <1>1, <1>2, <1>3, <1>4 DEF ShowsOn, Undisturbed
<1>6. stored' = "running" \/ Trace' => Capturing' \/ StopAt({"has", "close", "report"})'
  BY <1>0, <1>2, <1>4 DEF ShowsOn, ShownInv
<1> QED
  BY <1>0, <1>5, <1>6 DEF ShownInv

\* Eviction and restore touch what the worker remembers, not what is shown.
LEMMA RestShows ==
  ASSUME ShownInv, patient, UNCHANGED <<docVars, doc, calls, stored>>
  PROVE  ShownInv'
<1>1. /\ Undisturbed => Undisturbed'
      /\ Capturing' <=> Capturing
      /\ Trace' <=> Trace
      /\ mail' = mail
  BY DEF Undisturbed, UnderWay, Capturing, Trace, LastCall, docVars, attemptVars, mediaVars,
         socketVars
<1>2. \A places : StopAt(places)' <=> StopAt(places)
  BY DEF StopAt, LastCall
<1> QED
  BY <1>1, <1>2 DEF ShownInv

LEMMA ShownStep ==
  ASSUME WorkerInv, WorkerInv', ShownInv, [ExtNext]_extVars
  PROVE  ShownInv'
<1> SUFFICES ASSUME patient' PROVE ShownInv'
  BY DEF ShownInv
<1>1. CASE ClickStart
  <2>1. /\ Click("start", "stream") /\ UNCHANGED <<docVars, doc>> /\ stored' = "starting"
    BY <1>1 DEF ClickStart, Broadcast
  <2> QED
    BY <2>1, ClickShows
<1>2. CASE ClickStop
  <2>1. /\ Click("stop", "send") /\ UNCHANGED <<docVars, doc, stored>>
    BY <1>2 DEF ClickStop
  <2> QED
    BY <2>1, ClickShows
<1>3. ASSUME NEW k \in 1 .. MaxClicks, CallStep(k) PROVE ShownInv'
  <2>1. patient
    BY <1>3 DEF CallStep, GotStreamId, StartFails, StartHasOffscreen, CreateDocument, SendStart,
                SendStartLost, SendStop, StopHasOffscreen, CloseDocument, CloseRejected,
                StopReports
  <2> QED
    BY <1>3, <2>1, CallShows
<1>4. CASE OffscreenStatus
  BY <1>4, StatusShows DEF OffscreenStatus
<1>5. CASE DocumentRuns
  BY <1>5, DocumentShows DEF DocumentRuns, swVars
<1>6. CASE Evict \/ Restore \/ UNCHANGED extVars
  BY <1>6, RestShows DEF Evict, Restore, extVars, swVars
<1> QED
  BY <1>1, <1>2, <1>3, <1>4, <1>5, <1>6 DEF ExtNext

LEMMA ExtInitial == ExtInit => ExtInv
<1> SUFFICES ASSUME ExtInit PROVE ExtInv
  OBVIOUS
<1>1. WorkerInv
  BY WorkerInitial
<1>2. /\ stored = "none" /\ mail = <<>> /\ timers = {} /\ calls = <<>>
      /\ \A s \in Socks : sock[s] = "none"
      /\ \A g \in Gens : pc[g] = "none"
  BY DEF ExtInit, OffInit
<1>3. ShownInv
  BY <1>2 DEF ShownInv, Undisturbed, UnderWay, Trace, StopAt
<1> QED
  BY <1>1, <1>3 DEF ExtInv

-----------------------------------------------------------------------------
(* The theorems.                                                           *)

\* The inductive invariant of the service worker with its document.
THEOREM ExtensionInvariant == ExtSpec => []ExtInv
<1>1. ExtInv /\ [ExtNext]_extVars => ExtInv'
  BY WorkerStep, ShownStep DEF ExtInv
<1> QED
  BY <1>1, ExtInitial, PTL DEF ExtSpec

\* For a user who waits, the popup does not settle at "running" while
\* nothing captures.
THEOREM ShownIsTrue == ExtSpec => []ShownRunningIsRunning
<1>1. ExtInv => ShownRunningIsRunning
  <2> SUFFICES ASSUME ExtInv, patient, Quiet, stored = "running"
               PROVE  Capturing
    BY DEF ShownRunningIsRunning
  <2>1. calls # <<>> => LastCall.at = "done"
    <3>1. calls # <<>> => Len(calls) \in DOMAIN calls
      BY DEF ExtInv, WorkerInv, ExtTypeOK
    <3> QED
      BY <3>1 DEF Quiet, LastCall
  <2> QED
    BY <2>1 DEF ExtInv, ShownInv, StopAt
<1> QED
  BY <1>1, ExtensionInvariant, PTL

\* For a user who waits, nothing stays on after a stop.
THEOREM StopIsComplete == ExtSpec => []StopEndsEverything
<1>1. ExtInv => StopEndsEverything
  <2> SUFFICES ASSUME ExtInv, patient, Quiet, calls # <<>>, calls[Len(calls)].kind = "stop"
               PROVE  ~doc /\ live = {}
    BY DEF StopEndsEverything
  <2>1. Len(calls) \in DOMAIN calls
    BY DEF ExtInv, WorkerInv, ExtTypeOK
  <2>2. LastCall.at = "done"
    BY <2>1 DEF Quiet, LastCall
  <2> QED
    BY <2>2 DEF ExtInv, WorkerInv, GoneInv, PatientInv, StopAt, LastCall
<1> QED
  BY <1>1, ExtensionInvariant, PTL

\* What holds of the document by itself holds of it under the worker, which
\* closes it at any time.
THEOREM DocumentInExtension ==
  ExtSpec => [](BailedLeavesNothingOn /\ HelloBeforeAudio /\ NeverStranded)
<1>1. ExtInv => BailedLeavesNothingOn /\ HelloBeforeAudio /\ NeverStranded
  BY DEF ExtInv, WorkerInv, OffInv, AttemptInv, BailedLeavesNothingOn
<1> QED
  BY <1>1, ExtensionInvariant, PTL
=============================================================================
