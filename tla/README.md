# Dual-stream transcription pipeline: TLA+ models and proofs

A browser extension captures the microphone and a tab, sends both as 16 kHz
PCM frames over one local WebSocket, and a desktop program feeds them, lane by
lane, to a speech-to-text engine and shows the transcript. This directory holds
TLA+ models of that program, the TLC runs that check them on small instances,
and TLAPS proofs for instances of any size.

## Inventory

| Part (source) | State | Operations | Interacts with | Hard because |
|---|---|---|---|---|
| Audio ring (`core/spsc_ring.h`) | slots, `head_`, `tail_`, `closed_`, semaphore | `tryPush`, `popWait`/`tryPop`, `close` | producer: connection thread; consumer: worker | lock-free, weak memory orders, lost wakeups, drain on close |
| WebSocket server (`net/ws_server.*`) | `helloSeen_`, `activeId_`, `rejected_` | open, hello, bye, frame, close, `stop`, `broadcast` | callbacks into Pipeline on one thread per connection | the lock covers the bookkeeping, not the callbacks |
| Pipeline (`app/pipeline.*`) | `connected_`, `stopping_`, two rings, two workers, counters | `onAudio`, `onHello`, `onClientGone`, `workerLoop`, `pushStatus`, `stop` | server, rings, engine, main thread | teardown order, late callbacks, full rings, dead worker |
| Wire protocol (`core/protocol.*`) | none | parse and write frames, hello, bye | both senders, server | two copies of one layout |
| Parakeet engine (`stt/parakeet_engine.*`) | per-lane VAD, history, generation, one interim job per lane | `start`, `feed`, interim worker, `stop` | two feed threads, one interim thread, transcript callback | stale interims, two locks, sample-index arithmetic |
| Sherpa engine (`stt/sherpa_engine.*`) | per-lane stream, `voiced_`, `lastInterim_`, utterance start | `start`, `feed`, `stop` | feed threads, callback | endpointing, text out of silence, GPU fallback |
| Deepgram engine (`stt/deepgram_engine.*`) | two sockets, epochs, `connectionError_`, keepalive thread | `start`, `feed`, socket callbacks, `stop` | cloud service, callback | reconnection resets the audio clock; thread against `stop` |
| Transcript model (`app/transcript_model.*`) | pending line per lane, sorted finals, first timestamp | `apply`, `snapshot`, `clear`, exports | engine threads, window | out-of-order events, stale pending lines |
| Capture (`extension/offscreen.js`, `pcm-worklet.js`) | generation, `active`, socket, tracks, audio context, reconnect timer, accumulators | `start`, `stop`, `connectWs`, `sendFrame` | service worker, server | every await is an interleaving point; retry |
| Service worker, popup (`extension/sw.js`, `popup.js`) | last status, session storage, offscreen document | start, stop, status messages, restore | popup, offscreen document | eviction, overlapping start and stop |
| Main window (`ui/main_window.cpp`) | owned engine and pipeline, swap thread and result | frame loop, engine swap, settings, shutdown | everything on the desktop side | hand-over between threads, partial failure |
| Startup (`main.cpp`) | command line, settings | chooser, engine start, headless loop | engine, pipeline, window | retry and exit paths |
| Settings (`app/config.cpp`, `core/secret_store.cpp`) | settings file | parse, load, save | startup, window | precedence, crash while saving, lost key |
| WAV reader and client (`core/wav.cpp`, `tools/wav_client`) | none, a test client's progress | read, stream, bye | server | damaged files, padding |
| GPU probe, save dialog, version | none | operating-system I/O | engines, window | not concurrent |

What makes each part correct:

* **Ring**: no two threads touch a slot without an order between them; frames
  come out once, in order; nobody sleeps while there is a frame; `nullopt`
  means closed and drained.
* **Server**: one producer at a time; the slot is freed when its holder goes,
  and Pipeline hears of it (but see the second hello under Findings).
* **Pipeline**: teardown uses nothing that is gone; accepted frames are fed;
  `connected_` tells the truth; a dead lane harms only itself; `stop()` ends.
* **Engines**: no interim after its final; no line out of silence; one time per
  utterance; spoken order kept across reconnections; `stop()` flushes and joins.
* **Transcript**: finals sorted and never lost; nothing before the baseline;
  each cue runs to the next later line.
* **Extension**: hello before audio; an active capture has the server's slot or
  is on its way to it; what is given up is switched off; the popup tells the
  truth; stop ends everything.
* **Window**: one engine and pipeline at a time, the one of the mode shown, or
  an error; a swap is always settled.
* **Settings**: what the user picked last comes back after crashes, or the user
  is asked again.
* **Audio**: samples reach the engine whole, in order, in their lane.

The hazards, each at its line with the properties that would catch it, are in
`PROJECT.json`.

## How the modules fit

```
SpscRing ==implements==> BoundedChannel <==a lane is one== Pipeline
WsServer --extended by--> Pipeline, Session
Pipeline --with a record of byes--> SecondGone
TranscriptModel --extended by--> ParakeetEngine, SherpaEngine, DeepgramEngine
Offscreen --extended by--> Extension
WireProtocol, WavReader --extended by--> AudioPath --files for TLC--> MCAudioPath
App
```

The cuts between the parts are themselves checked. The ring assumes one
producer at a time and a close after the last push: `SingleProducer`, proved of
the server, and `RingsClosedLast`, proved of the pipeline. Pipeline uses a ring
as one step per push and pop: the ring's refinement of `BoundedChannel`.
`Session` takes one socket or timer per capture: `NeverStranded` and
`StopEndsEverything` of the extension. `SherpaEngine` takes `feed` to come
between `start` and `stop`: `EngineOutlivesWorkers` and `OneChain`.

## Modules

### SpscRing, BoundedChannel

`SpscRing` takes one step per access to shared memory. `head`, `tail`, `buf`,
`closed` and `sem` are the members of the class; `ppc` and `cpc` say where the
producer is in `tryPush` and the consumer in `popWait`. A frame is its ordinal,
so a lost, repeated or overwritten frame shows as a wrong number.

Loads follow the C++ memory orders. `head_` and `tail_` have one writer each,
so a load may return any store between the last one known to the reader
(`headSeen`, `tailSeen`) and the latest. Acquire loads and the semaphore raise
that bound. A slot access is a race unless the other thread's last access is
among the stores seen: `NoSlotRace`. Producers on different connection threads
follow each other through `helloMu_`, so they count as one producer.

`BoundedChannel` is what the rest relies on: refuse when full as far as the
producer can tell, deliver in order, end only when closed and drained.

### WsServer

`at[c]` is where the thread of connection `c` is. Each critical section of
`helloMu_` is one step; between them, and inside the callbacks, other threads
run. `helloSeen`, `activeId` and `rejected` are the members. Assumed of the
library: a connection's messages and its Close come one at a time on its own
thread, and `stop()` joins those threads. A `close()` of the server is only a
request: what the peer has sent already is still delivered, a second hello as
well as frames and bye. So a refused client can be let in by a second hello
once the slot is free, and the model has what follows from it: its Close, found
in `rejected_`, frees the slot without a word to Pipeline.

### Session

The server with the extension's `connectWs()` as a client. `active`, `ws`,
`opened` and `timer` are the extension's side, `hellos` and `byes` the messages
on their way. Connections outside `Mine` are foreign clients that do as they
like: they may say any number of hellos, the extension says one per connection,
so a refused connection of its own never gets in (`OwnRefusedStaysOut`, proved).
`Restart` is an engine swap: the server forgets everything. Names of
connections are reused once both sides have forgotten them (`Forget`), so the
number of connections in a run is not bounded by the number of names.

### Pipeline

Extends `WsServer`: the callback bodies take the place of `Return(c)`, each
load or store of a shared flag one step (`connected_`, then `stopping_`, then
the broadcast). `tryPush` and a `popWait` that returns are one step, which
`SpscRing` justifies; the push still sees an old tail (`known`). The main
thread runs the heartbeat, `Pipeline::stop()` in its order, then the engine's
`stop()`. `feed` may throw. `readmitted` is a history variable: the client that
set `connected_` last, if it had been refused before; `NoGhostClient` excuses
that one. `SecondGone` adds to Pipeline the connections that said bye while they
held the slot, for finding 1.

### TranscriptModel

Every method holds `mu_` throughout, so each is one action: `ApplyInterim`,
`ApplyFinal` (the two paths of `apply`), `Clear`. `pending`, `finals` and
`firstTs` are the members. A frame of the window is two steps, `ReadBase` and
`Draw`, because `main_window.cpp` calls `baseTsMs()` and `snapshot()` one after
the other. `UpperBound` is `std::upper_bound`; `Cues` are the start and end of
each cue of `toSrt()` and `toVtt()`, which compute them alike. `arrived` is a
history variable: the finals in the order they came. Conservation and cues are
stated over it, not over the sorted list: each final reported has a cue, from
its start to that of the earliest later line, wherever it was inserted. A cue
whose start a later arrival shares lasts for the fixed time, and may overlap the
cues behind it. `BaselineIsEarliest` speaks of the clock an export reads with
the finals, under one lock, and of the clock a frame has read, which `clear()`
has never reset since; what a frame may draw between its two reads stands under
Findings. The three engine modules
extend it: its `apply` is their callback.

### ParakeetEngine

`feeder[l]` is where the feed thread of lane `l` is: `drain` (the loop test),
`drop` (about to take `interimMu_`), `decode` (about to take `decodeMu_`),
`final` (holding it), `queue` (at `maybeQueueInterim`). `stop()` runs the same
drain on its own thread after the feeders are gone. `worker` is the interim
worker: waiting, about to take `decodeMu_`, holding it before and after its
generation check. `interimMu_` protects single steps; `decodeMu_` has an owner,
`holder`.

`Bump` and `DropJob` are separate steps because the generation is bumped
outside `interimMu_`. A spurious or missed wakeup of the worker changes
nothing: it waits under `interimMu_` for a condition that is itself guarded by
it. A decode may come out empty, or repeat the last interim; both are left open
(`WorkerSkip`, the second disjunct of `EmitFinal`).

Audio is counted in units, a unit standing for the samples between two things
the thresholds tell apart; of the thresholds only `HistoryMax >= MaxSpeech +
Lookback` is assumed (the code has 25, 20 and 0.6 seconds). The voice detector
is external: segments in order, without overlap, none longer than `MaxSpeech`.
A decode is identified by its segment's ordinal in the lane, and an interim
carries the ordinal of the utterance it is about, so that the transcript shows
whether a line is stale.

### SherpaEngine

`start()`, `feed()` and `stop()` hold `mu_` throughout, so each is one action;
lanes, `stop()` and the window interleave. `voiced`, `lastInterim` and
`startTs` are the members of those names, `rec` and `streams` the recognizer
(with the provider it ended up on) and its streams. What the recognizer makes
of a chunk and whether it finds an endpoint are arbitrary. `onset` and `ended`
are history variables, which know only the chunks and where utterances end, not
`voiced` or `startTs`; the properties compare every line a step reports,
interim or final, with them.

### DeepgramEngine

A connection per lane (`conn`), with `epoch`, `failed` and the audio the
service has received on it (`sent`, each unit as the time it was fed). A result
names a unit, and its text is the time that unit was spoken, so the transcript
shows whether its times are right. The keepalive thread's loop over the sockets
(`toSend`) interleaves with the steps of `stop()`.

### Offscreen, Extension

JavaScript runs to completion between awaits, so an action of `Offscreen` is
the code from one await or event to the next. A call of `start()` is named by
its `myGen`; `pc[g]` is the await it is suspended at. `live` and `contexts` are
what is really captured and open, `tracks` and `ctx` what the script remembers
of it; the difference is what leaks. `Extension` adds the worker's calls, each
at its await, the status they broadcast and store, eviction, and the popup,
which shows what is stored. Sockets and timers are names that are reused.

### App

The desktop process. `ui` is where the main thread is, from `Launch` through
the chooser and the engine's start to the frame loop (`pump`, `look`,
`widgets`) and shutdown; `swap.pc` is where the worker thread is. `engine` and
`pipeline` are the main thread's pointers, `swap` and `result` hold the
worker's; `running` and `listening` are what really runs. `swapState` is the
atomic, loaded twice a frame (`Adopt`, `Look`). The settings file is absent,
torn (truncated and not yet, or not fully, rewritten) or whole. `Crash` may
come at any point. `excused` records what the code gives up: the mode of a
save that could not open the file, and the key that a torn file, a crash in a
save or a failing data protection API took away, until a later save holds what
the user settled on. A torn or missing file makes a launch ask; a headless
launch cannot ask and runs the default mode, which `SettingsSurvive` states.

### WireProtocol, WavReader, AudioPath

`WireProtocol` has the frame layout three times, as the code has: written by
the extension, written by the desktop's serializer, parsed by the server.
`WavReader` is the walk over a file's chunks, one `ReadChunk` per round of the
loop. `AudioPath` runs both clients against the server's parser over a
connection that may drop, with numbered samples. The test client's files are
any set of `RiffFile`s: any list of chunks, at most one of them a fmt chunk, and
only the last one cut off. Two odd chunks lead the reader astray. Behind an odd
fmt chunk it takes what follows one byte off for headers: its result is then
`Astray`, and the client may go on with any run of the file (`Misread`) or with
a refusal. An odd data chunk is written one byte past its vector: its reading is
not `sound`, and the client may crash at any later step (`Crashes`).
`FilesArrive` excuses these files and no others. `MCAudioPath` holds the files
TLC tries, odd data and odd fmt chunks among them.

## Runs

| Run | Instance | Shows |
|---|---|---|
| `ring` | 2 slots, 5 frames, 2 close credits | no slot race, no early or lost wakeup, refinement of `BoundedChannel` |
| `session` | 2 names for the extension, 1 foreign client, 1 drop, 1 replaced server | single producer, release only through the holder's end, an active capture gets the slot |
| `pipeline_safety` | 2 connections, 2 lanes of 1 slot, 2 frames each, symmetric | teardown order, drain, `connected_`, each lane a `BoundedChannel` |
| `pipeline_liveness` | 1 connection, 2 lanes | accepted frames are fed, `stop()` terminates |
| `parakeet` | 1 lane, 5 units, pieces of 1 and 2, history of 4 | no stale interim, complete flush, interims cut behind finals and from the first word, `stop()` returns |
| `sherpa` | 2 lanes, 3 finals, 2 times, empty and full texts | no interim or final out of silence, one start per utterance; the transcript's order, conservation, baseline, cues |
| `extension` | 3 clicks, 1 drop, 1 eviction, 2 sockets, 2 messages in flight | what the popup shows, what a stop and a failed start leave on, hello first, always retrying |
| `deepgram` | 2 lanes, 3 instants, 2 finals | spoken order across reconnections, keepalive joined first |
| `app` | 2 modes, 2 launches, 2 picks, every file and pair of flags | one engine, shown mode runs, settings survive, swaps settle |
| `audio_path` | chunk of 3; blocks of 2, 4, 7 up to 11 samples; 2 drops; 17 files a lane | whole, ordered samples; exactly the files' audio, a crash only for odd chunks |
| `pipeline_second_gone` | 2 connections, 1 lane | fails: finding 1 |
| `offscreen_stale` | 3 attempts, 3 sockets, 2 drops | fails: finding 2 |

Bounds. Five frames through three slots wrap each index and let the producer
meet a full ring with an old tail. In `session` two names let a capture be
stopped and started while its old connection is still known to the server, and
one foreign client can hold the slot or be refused. Two frames through a lane
of one slot fill it and overflow it; lanes interact only through stop. Five
units through a history of four cut it under an open utterance, and a piece of
two can close two segments; lanes of the Parakeet engine share only the two
locks and the worker, for which one feeder, the worker and `stop()` already
contend, and the proofs cover any number of lanes. Three finals with two times
give ties and every insertion point. Three clicks are start, stop, start, or a
start, a failure and its retry. Three instants give audio before, across and
after a reconnection. Two launches give a save in the one and a load in the
other, two picks a swap after the first start. Blocks of 2, 4 and 7 end inside
a chunk, straddle one and span several. Each bound is a constant named in its
module.

Deadlock is not checked where the program stops: consumer ended, process off,
`stop()` returned, bounds used up. `sherpa` never stops and is checked for it.
Symmetry over connections and lanes is used only in `pipeline_safety`, which
has no liveness.

The type invariants of the modules are not among the runs' properties except
where a proof needs them: they are parts of the inductive invariants, which
stand in the proof modules beside the theorems about them (`RingInv`, `WsInv`,
`SessionInv`, `PipeInv`, `TmInv`, `ParakeetInv`, `SherpaInv`, `DgInv`, `ExtInv`,
`SpeechInv`, `WavInv`). `AppTypeOK` documents its module.

Fairness. A thread inside a call goes on: the callbacks, the handler's critical
sections, the workers, the drain of a segment, the steps of `stop()` and of a
swap, the frame loop, a save. The browser answers every call and delivers every
message; a connection closed from one side is answered or times out. Strong
fairness is used once, for a bye's arrival, which the handler of another
message of the same connection can postpone. Nobody is assumed to click,
connect, send, or quit. The operating system's scheduler, the browser's event
loop and the library's joins justify this; a `feed` or `start` that never
returns would break it, and is outside the model.

`ShownRunningIsRunning`, `StopEndsEverything` and `StartingIsLeft` are about a
user who waits (`patient`): who clicks while nothing is under way. A quick
start, stop, start can leave the popup at a wrong state, and a stop that meets
a start between its awaits lets the start create the document again.

## Findings

1. `SecondGoneIsHarmless`: a client that holds the slot says bye; its Close
   frees the slot and unlocks `helloMu_` before it calls `onClientGone` a second
   time. The next client's hello is accepted in between and sets `connected_`,
   and the late call clears it while that client streams (pipeline.cpp:57-61).
2. `StaleTouchesNothing`: a superseded `start()` whose microphone request is
   refused clears `active` before it looks at its generation, and one resumed
   after `addModule` closes the shared context and tracks, which may be the
   newer attempt's (offscreen.js:27-30, 105-113, 141-147).

Other differences between the code and what it says, or ought to do, met while
modelling. Present in the models, without a run of their own:

* A refused client's second hello, sent before the server's `close()` took
  effect, is accepted once the slot is free (ws_server.cpp:83-105 does not look
  at `rejected_`). Its Close is then silenced (ws_server.cpp:53-61), so the slot
  is freed while `connected_` stays true. `SlotReleasedLoudly` and
  `NoGhostClient` except this case and no other. Neither the extension nor the
  test client says a second hello.
* A bye, or the Close, of a connection that never held the slot fires
  `onClientGone` while another client streams (ws_server.cpp:107-114 against
  55-57).
* A frame reads baseline and lines under two locks: a line that arrives in
  between, earlier than the baseline read, is drawn as 00:00 for one frame
  (main_window.cpp:866 against transcript_model.h:36-40).
* A segment whose decode is empty leaves its interim on screen
  (parakeet_engine.cpp:293 against parakeet_engine.h:38-40).
* A Deepgram result's time counts audio sent, not time passed: after a pause a
  line is stamped earlier than it was spoken. Lines of one lane stay in order
  (`LaneInSpokenOrder`); lines of the two lanes may not. A clean Close of the
  service leaves `runtimeError()` empty while audio is lost.
* The comment at pipeline.cpp:110 says `pushStatus` never runs on the main
  thread; the heartbeat (main.cpp:283) does. `NoBroadcastAfterReset` holds all
  the same, because that thread also runs `stop()`.
* An engine given on the command line that fails to start opens the chooser,
  which README.md:238-239 says such flags never show.
* A headless launch on a torn settings file cannot ask and runs the default
  mode (main.cpp:193-197).
* The pad byte of an odd fmt chunk is not skipped (core/wav.cpp:56-68); an odd
  data chunk is read into a vector one byte too short (core/wav.cpp:78-79).
* The server does not look at a hello's channels; the test client says no second
  hello after a reconnection.

Outside the models, noticed in the source:

* The reconnect delay grows to 8 s; a capture does not always reconnect "within
  a second".
* A flag's `--language` is written to the settings file by a later save
  (config.cpp:248-250 rules that out); a NaN passes `--endpoint-silence`
  (config.cpp:164).
* A Direct3D failure returns from `runUi` without stopping what runs
  (main_window.cpp:546-551).

## Proofs

All for every value of the constants, under the modules' named assumptions.

* `SpscRing_proof`. Arithmetic first: an index is a store count modulo the
  size, two counts less than a lap apart have different indexes, so the full
  and empty tests mean what they should (`FullTest`, `EmptyTest`). `RingInv`
  then has four parts, none inductive alone: indexes count stores; the windows
  of what each thread has seen; credits (a credit is a released frame not yet
  asked for, or one of `close()`'s); slot contents. From it: types, race
  freedom, order, no empty pop before close, drain, and the refinement.
* `Server_proof`: the server alone, in a session and inside the pipeline.
  `SingleProducer` is not inductive: it needs that the entry in `helloSeen_` is
  set exactly for the slot's holder and that a thread in `onAudio` or `onHello`
  is the holder's (`WsInv`). That a refused connection stays out holds only of
  the extension's, each of which has one hello to say: `HelloInv` says that none
  is left once it was refused, and gives `OwnRefusedStaysOut`. A session step is a server step, or it forgets a connection both
  sides are through with, or it replaces a server; `StoppedInv` says no
  connection thread outlives `stop()`, so the replaced server's slot is free.
  A pipeline step is a server step too (`PipelineRunsServer`); `ControlInv`
  ties each torn-down object to the main thread's position, `LaneInv` the
  counters of a lane to each other, and `GhostInv` says a true `connected_`
  belongs to a holder, to one whose `onClientGone` is still to run, or to one
  that was let in after a refusal. From
  these each lane refines `BoundedChannel` (`LanesRefine`).
* `TranscriptModel_proof`. `std::upper_bound` finds its position only in a
  sorted sequence (`UpperBoundFits`: as many lines as are not later than the new
  one form a prefix), and insertion there keeps it sorted
  (`InsertKeepsSorted`). That nothing is lost or swapped is a bijection from
  arrivals to places in the transcript; an insertion moves the places behind
  it up by one, and stays behind every line of its own time (`InsertHolds`).
  `TmInv` is types, order, that bijection and the baseline together.
* `ParakeetEngine_proof`. No stale interim is not inductive: what excludes it
  is that a generation runs ahead of the decoded finals exactly while a final is
  being produced (`GenInv`), that the worker has passed its check only while it
  holds `decodeMu_` (`LockInv`), and that an open utterance starts behind the
  last final and within the history (`OpenInv`); `FlushInv` ties the segments
  left to the feeder's position. `ParakeetInv` is their conjunction.
* `SherpaEngine_proof`. `UtteranceInv` ties the code's members to the chunks'
  history: `voiced` is set exactly while there is a start, and the start is the
  history's onset, or none once the utterance has ended. With it every line a
  step reports, interim or final, has a voice behind it and the onset's time.
  `TmInv` is carried along.
* `DeepgramEngine_proof`. That a lane's finals stand in spoken order is not
  inductive. `AudioInv`: a connection's audio is stamped from the time it
  opened, and a stamp is never later than the clock at the feed. `SpokenInv`:
  what a connection has still to transcribe was spoken no earlier than the
  lane's finals, and will be stamped no earlier; a new connection's stamps
  begin at a clock no earlier than any of theirs. `ThreadInv`: the keepalive
  thread is past its start only between `start()`'s last connection and the
  join in `stop()`.
* `Control_proof`: the extension's document and worker, and the desktop
  process. `AttemptInv` says what each attempt may hold at each await, and that
  an attempt which gave up holds nothing; with the sockets' part, `OffInv`, it
  is inductive for the document alone and, because closing the document resets
  it, inside the extension. `PatientInv` is the worker's side: a user who waits
  has at most the last call under way, and once that is a stop that has closed
  the document, nobody creates it again. `ShownInv` is the popup's: for such a
  user an attempt under way is the newest and alone (`Undisturbed`), and
  "running", stored or still to be reported, is either true or left by a stop
  that is under way and will overwrite it.
  Of the process, `HolderInv`: what runs is what main thread, worker and result
  hold; `HandOverInv`: only one of the three holds anything; `TurnInv`: where
  the main thread may be for each value of `swapState`, although it loads it
  twice a frame; `ModeInv`: for which mode what is held was built. Their
  conjunction `ChainInv` gives `OneChain` and `ShownModeRuns`. `DiskInv`: file
  and `cfg` hold what the user settled last, unless a save is about to begin or
  something was taken away; a file that is not whole holds no mode, and the
  chooser opens only in a launch that is not headless. It gives
  `SettingsSurvive`.
* `AudioPath_proof`, the extension's half. `SpeechIsContiguous` speaks of
  frames that were heard; `SpeechInv` adds what is under way. An accumulator
  holds what its lane spoke last (`AccInv`). `Follows` gives a lane a place
  before each message in flight: its frames lead from place to place without a
  gap up to what was collected, and what was heard on this connection ends
  where they begin, what was heard on an earlier one no later. The
  accumulator's loop is a recursive definition: its rows exist for any number
  of samples (`RowsExist`, induction stated over sets of numbers,
  `SetInduction`) and each keeps the loop's invariant, `Collecting`.
  `VoiceIsParsed` says that the server reads of the extension's frame the lane
  and the samples put into it.
  The test client's half begins with what its reader makes of a file. The file
  is laid out chunk by chunk (`LaidOut`, `FileIsLaidOut`), the loop's rounds
  exist and end (`Rounds`, `WalkUnfolds`), and its invariant is `Reached`: after
  k rounds it stands at chunk k + 1 with the format of the fmt chunk it passed
  and no data chunk behind it, or it has ended with what `AudioOf` says of the
  file (`RoundKeeps`). So the reader returns the audio exactly when there is one
  (`ReaderFindsAudio`), for any list of chunks without an odd fmt chunk before
  the last one and without an odd data chunk (`Sound`). Of other files only that
  the result has its type is proved. The client itself needs a balance
  in `WavInv`: on the first connection, what a lane heard and what is still in
  flight for it are together what was sent (`Balanced`), and no audio is ahead
  of the hello (`Greeted`). When the bye is through nothing is in flight, which
  gives `FilesArrive`. What the balance needs of the library's `FlattenSeq` is
  proved first (`FlattenAppend`, `FlattenTail`).

Only model-checked: everything that must eventually happen (`CaptureGetsSlot`,
`StopTerminates`, `StartingIsLeft` and the other liveness properties are out of
this prover's reach) and the two expected failures. The library's induction
theorems are out of reach too, because they take an operator; the inductions
over samples, chunks and rounds go through `SetInduction` instead, over the set
of numbers for which the claim holds, and the recursions are functions.

## Not modelled

* `streamState`'s two seconds, the back-off's length and other durations: a
  timer fires at any time.
* `ParakeetEngine::start`, `createRecognizer` and both engines' search for
  model files: they run before any other thread, and only their outcome
  (started or not, GPU or CPU) is in `App` and `SherpaEngine`.
* The status JSON for the popup, Deepgram's URL, message contents beyond what
  decides a branch; logging; drawing; formatting of times.
* Settings other than mode, ask-on-start and key; the values of tuning flags.
* GPU probe, save dialog, version: operating-system calls without state.
