-------------------------------- MODULE App --------------------------------
(***************************************************************************)
(* The desktop process from launch to exit, and again: main()'s startup    *)
(* loop (main.cpp:170-300), the window's frame loop with the worker thread *)
(* that swaps the engine in place (main_window.cpp:534-924), the chooser   *)
(* page (main_window.cpp:942-1026) and the settings file they share        *)
(* (config.cpp:251-362).                                                   *)
(*                                                                         *)
(* An engine is a number no other running engine has, and a Pipeline is    *)
(* the number of the engine it feeds; 0 is a null unique_ptr.  A mode is a *)
(* card of the Settings page: an engine with its provider.  The deepgram   *)
(* key is present or not, and in the file absent, protected or, as older   *)
(* versions wrote it, plain.                                               *)
(***************************************************************************)
EXTENDS Naturals, Sequences, FiniteSets

CONSTANTS Modes, Default, NoMode,
          MaxLaunches,  \* bound: processes started
          MaxPicks      \* bound: cards picked, over all processes

ASSUME ModesAssumption == Default \in Modes /\ NoMode \notin Modes
ASSUME BoundsAssumption == MaxLaunches \in Nat /\ MaxPicks \in Nat

VARIABLES
  file,      \* settings.json: [kind, mode, ask, key]
  cfg,       \* Config: [mode, ask, key]
  flags,     \* this launch's command line: [mode, headless]
  ui,        \* where the main thread is
  builtFor,  \* the mode each of those not stopped was constructed for
  engine, pipeline,    \* the main thread's unique_ptrs
  running, listening,  \* engines and Pipelines started and not stopped
  swap,      \* the worker thread: [pc, engine, pipeline, mode]
  swapState, \* the atomic
  result,    \* SwapResult: [engine, pipeline, error]
  swapping, modal, reopen, engineError,  \* runUi's locals
  launches, picks, \* what the bounds count
  picked,    \* history: the mode and key the user last settled on
  excused    \* history: [mode, key], what the disk, DPAPI or a crash took away

settings == <<file, cfg, picked, excused>>
objects == <<builtFor, engine, pipeline, running, listening>>
worker == <<swap, swapState, result>>
frame == <<swapping, modal, reopen, engineError>>
counts == <<flags, launches, picks>>
vars == <<settings, objects, worker, frame, counts, ui>>

Absent == [kind |-> "absent", mode |-> NoMode, ask |-> FALSE, key |-> "none"]
Torn == [Absent EXCEPT !.kind = "torn"]
Files == {Absent, Torn} \cup
  [kind : {"whole"}, mode : Modes \cup {NoMode}, ask : BOOLEAN,
   key : {"none", "plain", "protected"}]
Engines == 0 .. 2
NewEngine == IF 1 \in running THEN 2 ELSE 1
NoFlags == [mode |-> NoMode, headless |-> FALSE]
NoSwap == [pc |-> "none", engine |-> 0, pipeline |-> 0, mode |-> NoMode]
NoResult == [engine |-> 0, pipeline |-> 0, error |-> FALSE]

\* loadSettingsFile: an invalid value leaves the default; a blob that cannot
\* be unprotected is no key.
Loaded(f, unprotects) ==
  [mode |-> IF f.mode \in Modes THEN f.mode ELSE Default,
   ask |-> f.ask,
   key |-> f.key = "plain" \/ (f.key = "protected" /\ unprotects)]

\* The command line: what parseArgs sees at each flag, with the value that
\* follows it.  A mode flag is --engine or --provider, "tuned" any flag whose
\* value is accepted and that says nothing of the mode, "wrong" a value that
\* is refused or missing or a flag that is not known.
Tokens == ({"mode"} \X Modes) \cup ({"headless", "help", "tuned", "wrong"} \X {NoMode})
ArgLines == {<<>>} \cup {<<t>> : t \in Tokens} \cup (Tokens \X Tokens)

\* parseArgs over the file's settings: of several mode flags the last one
\* counts; a wrong flag refuses the line and --help ends the parse, so that
\* in either case the process does not go on.
ParseArgs(args, base) ==
  LET given == {args[i][1] : i \in DOMAIN args}
      modes == {i \in DOMAIN args : args[i][1] = "mode"}
      last == CHOOSE i \in modes : \A j \in modes : j <= i
      mode == IF modes = {} THEN NoMode ELSE args[last][2]
  IN [runs |-> given \cap {"help", "wrong"} = {},
      flags |-> [mode |-> mode, headless |-> "headless" \in given],
      base |-> [base EXCEPT !.mode = IF mode = NoMode THEN @ ELSE mode]]

AppInit ==
  /\ file \in Files
  /\ cfg = Loaded(Absent, TRUE) /\ flags = NoFlags
  /\ ui = "off" /\ builtFor = [e \in Engines |-> NoMode]
  /\ engine = 0 /\ pipeline = 0 /\ running = {} /\ listening = {}
  /\ swap = NoSwap /\ swapState = "idle" /\ result = NoResult
  /\ swapping = FALSE /\ modal = FALSE /\ reopen = FALSE /\ engineError = FALSE
  /\ launches = 0 /\ picks = 0 /\ excused = [mode |-> FALSE, key |-> FALSE]
  /\ picked = IF file.kind = "whole" THEN [mode |-> Loaded(file, TRUE).mode,
                                           key |-> Loaded(file, TRUE).key]
                                     ELSE [mode |-> NoMode, key |-> FALSE]

\* The process ends and its variables with it; running and listening stay, as
\* the record of what it stopped first.
ProcessEnds ==
  /\ ui' = "off" /\ cfg' = Loaded(Absent, TRUE) /\ flags' = NoFlags
  /\ builtFor' = [e \in Engines |-> NoMode]
  /\ engine' = 0 /\ pipeline' = 0
  /\ swap' = NoSwap /\ swapState' = "idle" /\ result' = NoResult
  /\ swapping' = FALSE /\ modal' = FALSE /\ reopen' = FALSE /\ engineError' = FALSE

-----------------------------------------------------------------------------
(* Startup.                                                                *)

\* The command line overrides the file; a line that is refused or asks for
\* help ends the process.  The page opens on a first run or when asked for,
\* unless the launch is headless or says how to run.
Launch(args, unprotects) ==
  LET base == Loaded(file, unprotects)
      line == ParseArgs(args, base)
  IN /\ ui = "off" /\ launches < MaxLaunches
     /\ launches' = launches + 1
     /\ excused' = [excused EXCEPT !.key = @ \/ file.kind = "torn"
                                            \/ (file.key = "protected" /\ ~unprotects)]
     /\ IF line.runs
        THEN /\ flags' = line.flags /\ cfg' = line.base
             /\ ui' = IF /\ ~line.flags.headless /\ line.flags.mode = NoMode
                         /\ file.kind # "whole" \/ base.ask
                      THEN "setup" ELSE "engine"
        ELSE UNCHANGED <<flags, cfg, ui>>
     /\ UNCHANGED <<file, picks, picked, objects, worker, frame>>

\* What the user does with the key field, which shows cfg's key.
Fields == {"untouched", "typed", "cleared"}
FieldHolds(key, field) == field = "typed" \/ (field = "untouched" /\ key)

\* Mutant: the key field is not filled from cfg, so picking a mode clears the key.
Settle_EmptyField(m, ask, field) ==
  /\ picks < MaxPicks /\ picks' = picks + 1
  /\ cfg' = [mode |-> m, ask |-> ask, key |-> FieldHolds(FALSE, field)]
  /\ picked' = [mode |-> m, key |-> FieldHolds(picked.key, field)]

\* A card is picked: the draft becomes cfg, with the key as the field holds it.
Settle(m, ask, field) ==
  /\ picks < MaxPicks /\ picks' = picks + 1
  /\ cfg' = [mode |-> m, ask |-> ask, key |-> FieldHolds(cfg.key, field)]
  /\ picked' = [mode |-> m, key |-> FieldHolds(picked.key, field)]

ChooseMode(m, ask, field) ==
  /\ ui = "setup" /\ Settle(m, ask, field)
  /\ ui' = "saveSetup"
  /\ UNCHANGED <<file, excused, objects, worker, frame, flags, launches>>

\* Chooser closed without choosing = quit.
SetupClosed ==
  /\ ui = "setup" /\ ProcessEnds
  /\ UNCHANGED <<file, picked, excused, running, listening, launches, picks>>

\* saveSettingsFile: fopen truncates the file, or fails and leaves it.
SaveOpens(opened) ==
  /\ ui \in {"saveSetup", "saveModal"}
  /\ IF opened
     THEN /\ file' = Torn /\ excused' = [excused EXCEPT !.mode = FALSE]
          /\ ui' = IF ui = "saveSetup" THEN "writeSetup" ELSE "writeModal"
     ELSE /\ excused' = [mode |-> TRUE, key |-> TRUE] /\ UNCHANGED file
          /\ ui' = IF ui = "saveSetup" THEN "engine" ELSE "swap"
  /\ UNCHANGED <<cfg, picked, objects, worker, frame, counts>>

\* fwrite and fclose; a short write leaves no JSON object behind.  A key DPAPI
\* does not protect is left out.
SaveWrites(whole, protects) ==
  /\ ui \in {"writeSetup", "writeModal"}
  /\ file' = IF whole
             THEN [kind |-> "whole", mode |-> cfg.mode, ask |-> cfg.ask,
                   key |-> IF cfg.key /\ protects THEN "protected" ELSE "none"]
             ELSE Torn
  /\ excused' = [excused EXCEPT !.key = \/ ~whole \/ (cfg.key /\ ~protects)
                                        \/ @ /\ cfg.key # picked.key]
  /\ ui' = IF ui = "writeSetup" THEN "engine" ELSE "swap"
  /\ UNCHANGED <<cfg, picked, objects, worker, frame, counts>>

\* makeEngine and start: a failure ends a headless run and otherwise opens the
\* page again; the engine object is destroyed.
StartEngine(starts) ==
  /\ ui = "engine"
  /\ IF starts
     THEN /\ builtFor' = [builtFor EXCEPT ![NewEngine] = cfg.mode]
          /\ engine' = NewEngine /\ running' = running \cup {NewEngine} /\ ui' = "pipeline"
          /\ UNCHANGED <<cfg, flags, pipeline, worker, frame>>
     ELSE /\ UNCHANGED running
          /\ \/ flags.headless /\ ProcessEnds
             \/ /\ ~flags.headless /\ ui' = "setup"
                /\ UNCHANGED <<cfg, flags, builtFor, engine, pipeline, worker, frame>>
  /\ UNCHANGED <<file, picked, excused, listening, launches, picks>>

\* The server cannot listen: main returns, which destroys the engine.
StartPipeline(listens) ==
  /\ ui = "pipeline"
  /\ IF listens
     THEN /\ pipeline' = engine /\ listening' = listening \cup {engine}
          /\ ui' = IF flags.headless THEN "headless" ELSE "pump"
          /\ UNCHANGED <<cfg, flags, builtFor, engine, running, worker, frame>>
     ELSE /\ running' = running \ {engine} /\ ProcessEnds /\ UNCHANGED listening
  /\ UNCHANGED <<file, picked, excused, launches, picks>>

\* --duration has passed, or SIGINT.
HeadlessEnds ==
  /\ ui = "headless" /\ ui' = "stopPipeline"
  /\ UNCHANGED <<settings, objects, worker, frame, counts>>

-----------------------------------------------------------------------------
(* The window: a frame that sees no WM_QUIT is Adopt, Look and its widgets.  *)

Quit ==
  /\ ui = "pump" /\ ui' = "join"
  /\ UNCHANGED <<settings, objects, worker, frame, counts>>

\* The first load of swapState.
Adopt ==
  /\ ui = "pump" /\ ui' = "look"
  /\ \/ /\ swapState = "ready" /\ swap.pc = "ended"
        /\ engine' = result.engine /\ pipeline' = result.pipeline
        /\ result' = NoResult /\ swap' = NoSwap /\ swapState' = "idle"
        /\ UNCHANGED <<reopen, engineError>>
     \/ /\ swapState = "failed" /\ swap.pc = "ended"
        /\ engineError' = result.error /\ reopen' = TRUE
        /\ swap' = NoSwap /\ swapState' = "idle"
        /\ UNCHANGED <<engine, pipeline, result>>
     \/ /\ swapState \in {"idle", "working"}
        /\ UNCHANGED <<engine, pipeline, worker, reopen, engineError>>
  /\ UNCHANGED <<settings, builtFor, running, listening, swapping, modal, counts>>

\* The second load: the worker may have finished since the first.
Look ==
  /\ ui = "look" /\ ui' = "widgets"
  /\ swapping' = (swapState = "working")
  /\ UNCHANGED <<settings, objects, worker, modal, reopen, engineError, counts>>

\* A frame in which the user does nothing that matters here.
FrameDone ==
  /\ ui = "widgets" /\ ~reopen /\ ui' = "pump"
  /\ UNCHANGED <<settings, objects, worker, frame, counts>>

\* Mutant: the gear stays enabled during a swap.
OpenSettings_Always ==
  /\ ui = "widgets" /\ (reopen \/ ~modal)
  /\ reopen' = FALSE /\ modal' = TRUE /\ ui' = "pump"
  /\ UNCHANGED <<settings, objects, worker, swapping, engineError, counts>>

\* The gear, which is disabled while swapping and covered by an open modal, or
\* the reopening a failed swap asked for.
OpenSettings ==
  /\ ui = "widgets" /\ (reopen \/ (~swapping /\ ~modal))
  /\ reopen' = FALSE /\ modal' = TRUE /\ ui' = "pump"
  /\ UNCHANGED <<settings, objects, worker, swapping, engineError, counts>>

CloseSettings ==
  /\ ui = "widgets" /\ modal /\ ~reopen
  /\ modal' = FALSE /\ ui' = "pump"
  /\ UNCHANGED <<settings, objects, worker, swapping, reopen, engineError, counts>>

Pick(m, ask, field) ==
  /\ ui = "widgets" /\ modal /\ ~reopen
  /\ Settle(m, ask, field) /\ ui' = "saveModal"
  /\ UNCHANGED <<file, excused, objects, worker, frame, flags, launches>>

\* Mutant: the worker is handed the draft as it was before the pick.
BeginEngineSwap_OldConfig ==
  /\ ui = "swap" /\ swap.pc \in {"none", "ended"}
  /\ swap' = [pc |-> "stopPipeline", engine |-> engine, pipeline |-> pipeline,
              mode |-> IF engine = 0 THEN cfg.mode ELSE builtFor[engine]]
  /\ engine' = 0 /\ pipeline' = 0
  /\ swapState' = "working" /\ engineError' = FALSE
  /\ modal' = FALSE /\ ui' = "pump"
  /\ UNCHANGED <<settings, builtFor, running, listening, result, swapping, reopen, counts>>

\* beginEngineSwap joins what is left of an earlier worker, hands engine and
\* pipeline to a new one and closes the popup.
BeginEngineSwap ==
  /\ ui = "swap" /\ swap.pc \in {"none", "ended"}
  /\ swap' = [pc |-> "stopPipeline", engine |-> engine, pipeline |-> pipeline,
              mode |-> cfg.mode]
  /\ engine' = 0 /\ pipeline' = 0
  /\ swapState' = "working" /\ engineError' = FALSE
  /\ modal' = FALSE /\ ui' = "pump"
  /\ UNCHANGED <<settings, builtFor, running, listening, result, swapping, reopen, counts>>

-----------------------------------------------------------------------------
(* The worker thread.                                                      *)

SwapStopsPipeline ==
  /\ swap.pc = "stopPipeline"
  /\ listening' = listening \ {swap.pipeline}
  /\ swap' = [swap EXCEPT !.pc = "stopEngine", !.pipeline = 0]
  /\ UNCHANGED <<settings, builtFor, engine, pipeline, running, swapState, result,
                 frame, counts, ui>>

SwapStopsEngine ==
  /\ swap.pc = "stopEngine"
  /\ running' = running \ {swap.engine}
  /\ builtFor' = [builtFor EXCEPT ![swap.engine] = NoMode]
  /\ swap' = [swap EXCEPT !.pc = "startEngine", !.engine = 0]
  /\ UNCHANGED <<settings, engine, pipeline, listening, swapState, result,
                 frame, counts, ui>>

SwapStartsEngine(starts) ==
  /\ swap.pc = "startEngine"
  /\ IF starts
     THEN /\ builtFor' = [builtFor EXCEPT ![NewEngine] = swap.mode]
          /\ running' = running \cup {NewEngine}
          /\ swap' = [swap EXCEPT !.pc = "startPipeline", !.engine = NewEngine]
          /\ UNCHANGED result
     ELSE /\ result' = [result EXCEPT !.error = TRUE]
          /\ swap' = [swap EXCEPT !.pc = "flipFailed"]
          /\ UNCHANGED <<builtFor, running>>
  /\ UNCHANGED <<settings, engine, pipeline, listening, swapState, frame, counts, ui>>

SwapStartsPipeline(listens) ==
  /\ swap.pc = "startPipeline"
  /\ IF listens
     THEN /\ listening' = listening \cup {swap.engine} /\ UNCHANGED <<running, result>>
          /\ swap' = [swap EXCEPT !.pc = "publish", !.pipeline = swap.engine]
     ELSE /\ running' = running \ {swap.engine} /\ UNCHANGED listening
          /\ result' = [result EXCEPT !.error = TRUE]
          /\ swap' = [swap EXCEPT !.pc = "flipFailed", !.engine = 0]
  /\ UNCHANGED <<settings, builtFor, engine, pipeline, swapState, frame, counts, ui>>

SwapPublishes ==
  /\ swap.pc = "publish"
  /\ result' = [result EXCEPT !.engine = swap.engine, !.pipeline = swap.pipeline]
  /\ swap' = [swap EXCEPT !.pc = "flipReady", !.engine = 0, !.pipeline = 0]
  /\ UNCHANGED <<settings, objects, swapState, frame, counts, ui>>

\* Mutant: a failed swap is not published.
SwapFlips_OnlyReady ==
  /\ swap.pc \in {"flipReady", "flipFailed"}
  /\ swapState' = IF swap.pc = "flipReady" THEN "ready" ELSE swapState
  /\ swap' = [swap EXCEPT !.pc = "ended"]
  /\ UNCHANGED <<settings, objects, result, frame, counts, ui>>

\* swapState is flipped last.
SwapFlips ==
  /\ swap.pc \in {"flipReady", "flipFailed"}
  /\ swapState' = IF swap.pc = "flipReady" THEN "ready" ELSE "failed"
  /\ swap' = [swap EXCEPT !.pc = "ended"]
  /\ UNCHANGED <<settings, objects, result, frame, counts, ui>>

-----------------------------------------------------------------------------
(* Shutdown and crash.                                                     *)

\* Finish a swap in flight; what it built becomes ours to stop.
JoinSwap ==
  /\ ui = "join" /\ swap.pc \in {"none", "ended"}
  /\ swap' = NoSwap /\ ui' = "stopPipeline"
  /\ IF result.pipeline # 0
     THEN /\ pipeline' = result.pipeline /\ engine' = result.engine
          /\ result' = [result EXCEPT !.engine = 0, !.pipeline = 0]
     ELSE UNCHANGED <<engine, pipeline, result>>
  /\ UNCHANGED <<settings, builtFor, running, listening, swapState, frame, counts>>

StopPipeline ==
  /\ ui = "stopPipeline" /\ ui' = "stopEngine"
  /\ listening' = listening \ {pipeline} /\ pipeline' = 0
  /\ UNCHANGED <<settings, builtFor, engine, running, worker, frame, counts>>

StopEngine ==
  /\ ui = "stopEngine"
  /\ running' = running \ {engine} /\ ProcessEnds
  /\ UNCHANGED <<file, picked, excused, listening, launches, picks>>

\* The process is killed; the file stays as it is.
Crash ==
  /\ ui # "off" /\ ProcessEnds
  /\ running' = {} /\ listening' = {}
  /\ excused' = [mode |-> excused.mode \/ ui \in {"saveSetup", "saveModal"},
                 key |-> excused.key \/ ui \in {"saveSetup", "saveModal",
                                                "writeSetup", "writeModal"}]
  /\ UNCHANGED <<file, picked, launches, picks>>

Startup ==
  \/ \E args \in ArgLines, unprotects \in BOOLEAN : Launch(args, unprotects)
  \/ \E m \in Modes, ask \in BOOLEAN, field \in Fields : ChooseMode(m, ask, field)
  \/ SetupClosed
  \/ \E ok \in BOOLEAN : SaveOpens(ok) \/ StartEngine(ok) \/ StartPipeline(ok)
  \/ \E whole, protects \in BOOLEAN : SaveWrites(whole, protects)
  \/ HeadlessEnds
Window ==
  \/ Quit \/ Adopt \/ Look \/ FrameDone \/ OpenSettings \/ CloseSettings
  \/ \E m \in Modes, ask \in BOOLEAN, field \in Fields : Pick(m, ask, field)
  \/ BeginEngineSwap
Worker ==
  \/ SwapStopsPipeline \/ SwapStopsEngine
  \/ \E ok \in BOOLEAN : SwapStartsEngine(ok) \/ SwapStartsPipeline(ok)
  \/ SwapPublishes \/ SwapFlips
Shutdown == JoinSwap \/ StopPipeline \/ StopEngine
AppNext == Startup \/ Window \/ Worker \/ Shutdown \/ Crash

\* The frame loop and the worker keep running, an engine's start() returns
\* and a save ends, so does shutdown once begun.  No launch, pick, quit or
\* crash is promised.
Saving == \E ok, protects \in BOOLEAN : SaveOpens(ok) \/ SaveWrites(ok, protects)
Frame == Adopt \/ Look \/ FrameDone \/ OpenSettings \/ BeginEngineSwap
AppSpec == AppInit /\ [][AppNext]_vars
           /\ WF_vars(Worker) /\ WF_vars(Frame) /\ WF_vars(Shutdown) /\ WF_vars(Saving)

-----------------------------------------------------------------------------
(* Properties.                                                             *)

AppTypeOK ==
  /\ file \in Files /\ cfg \in [mode : Modes, ask : BOOLEAN, key : BOOLEAN]
  /\ flags \in [mode : Modes \cup {NoMode}, headless : BOOLEAN]
  /\ ui \in {"off", "setup", "saveSetup", "writeSetup", "engine", "pipeline", "headless",
             "pump", "look", "widgets", "saveModal", "writeModal", "swap", "join",
             "stopPipeline", "stopEngine"}
  /\ builtFor \in [Engines -> Modes \cup {NoMode}]
  /\ engine \in Engines /\ pipeline \in Engines
  /\ running \subseteq Engines /\ listening \subseteq Engines
  /\ swap \in [pc : {"none", "stopPipeline", "stopEngine", "startEngine", "startPipeline",
                     "publish", "flipReady", "flipFailed", "ended"},
               engine : Engines, pipeline : Engines, mode : Modes \cup {NoMode}]
  /\ swapState \in {"idle", "working", "ready", "failed"}
  /\ result \in [engine : Engines, pipeline : Engines, error : BOOLEAN]
  /\ {swapping, modal, reopen, engineError} \subseteq BOOLEAN
  /\ excused \in [mode : BOOLEAN, key : BOOLEAN]
  /\ launches \in Nat /\ picks \in Nat
  /\ picked \in [mode : Modes \cup {NoMode}, key : BOOLEAN]

\* Whatever the frames, the worker, the modal and the closing window do in
\* between: there is never a second engine or a second listener on the port,
\* no engine stops under the Pipeline that feeds it, and a process that has
\* ended by itself has stopped both (main_window.cpp:586-592, 903-924).
OneChain ==
  /\ Cardinality(running) <= 1
  /\ listening \subseteq running
  /\ ui = "off" => running = {}

\* What the status bar stands for: outside a swap the window has the engine of
\* the mode cfg shows, or none and an error to show instead
\* (main_window.cpp:691-726).
ShownModeRuns ==
  ui = "widgets" /\ swapState = "idle" =>
    IF engine = 0 THEN engineError
    ELSE pipeline = engine /\ engine \in listening /\ builtFor[engine] = cfg.mode

\* A launch that leaves the mode to the settings runs the one the user picked
\* last, across restarts and however a save was cut short: a torn file is asked
\* for again (main.cpp:193), not silently replaced by the defaults.  Only a
\* headless launch, which cannot ask, runs the default then.  The key comes
\* back too, plain or protected in the file, and survives a later change of
\* mode.  What the code gives up is excused: a mode whose save could not open
\* the file, and a key that a torn file, a crash in a save or DPAPI took away,
\* until a later save holds what the user settled on.
SettingsSurvive ==
  ui = "engine" /\ flags.mode = NoMode =>
    /\ IF flags.headless /\ file.kind # "whole"
       THEN cfg.mode = Default
       ELSE picked.mode # NoMode /\ (cfg.mode = picked.mode \/ excused.mode)
    /\ cfg.key = picked.key \/ excused.key

\* A swap that began is adopted or reported, or the process ends.
SwapEnds == swapState = "working" ~> (swapState = "idle" \/ ui = "off")
=============================================================================
