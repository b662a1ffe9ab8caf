------------------------------ MODULE Pipeline ------------------------------
(***************************************************************************)
(* Pipeline composes the WebSocket server with one ring and one worker     *)
(* thread per lane, and is driven by the main thread: heartbeat, stop(),   *)
(* then the engine's stop().                                               *)
(*                                                                         *)
(* The callbacks' bodies replace WsServer's Return(c).  A tryPush or a     *)
(* popWait that returns a frame is one step here: SpscRing shows that each *)
(* takes effect at one instant, BoundedChannel says what it promises, and  *)
(* MicChannel and TabChannel below check that each lane keeps it.  What    *)
(* SpscRing takes for granted of its users (one producer, no tryPush once  *)
(* the ring is being closed) is SingleProducer and ClosedAfterProducers.   *)
(***************************************************************************)
EXTENDS WsServer

CONSTANTS Lanes,           \* StreamId: the rings and workers
          Capacity,        \* kRingCapacityChunks
          MaxFrames        \* bound: frames that arrive on one lane

ASSUME PipeAssumption == Capacity \in Nat \ {0} /\ MaxFrames \in Nat

VARIABLES
  connected,     \* connected_
  stopping,      \* stopping_
  cb,            \* how far a connection's thread is in its callback
  readmitted,    \* history: who set connected_, if it had been refused before
  main,          \* where the main thread is
  serverAlive,   \* server_ is not null
  engineUp,      \* the engine has not been stopped
  accepted,      \* per lane: frames tryPush took
  known,         \* per lane: pops the producer has learnt of
  refused,       \* per lane: did the last tryPush fail?
  dropped,       \* per lane: dropped_
  delivered,     \* per lane: frames popWait handed out
  processed,     \* per lane: frames fed to the engine
  closedRing,    \* lanes whose ring is closed
  worker         \* per lane: where workerLoop is

laneVars == <<accepted, known, refused, dropped, delivered, processed, closedRing, worker>>
controlVars == <<connected, stopping, cb, readmitted, main, serverAlive, engineUp>>
vars == <<wsVars, controlVars, laneVars>>

MainAt == {"run", "heartbeat", "stopServer", "joinServer", "closeRings", "joinWorkers",
           "stopEngine", "off"}

TypeOK ==
  /\ WsTypeOK
  /\ connected \in BOOLEAN /\ stopping \in BOOLEAN
  /\ serverAlive \in BOOLEAN /\ engineUp \in BOOLEAN
  /\ cb \in [Conns -> {"entry", "status", "broadcast"}]
  /\ readmitted \subseteq Conns
  /\ main \in MainAt
  /\ accepted \in [Lanes -> Nat] /\ known \in [Lanes -> Nat] /\ dropped \in [Lanes -> Nat]
  /\ delivered \in [Lanes -> Nat] /\ processed \in [Lanes -> Nat]
  /\ refused \in [Lanes -> BOOLEAN]
  /\ closedRing \subseteq Lanes
  /\ worker \in [Lanes -> {"wait", "feed", "dead", "done"}]

Init ==
  /\ WsInit
  /\ connected = FALSE /\ stopping = FALSE /\ serverAlive = TRUE /\ engineUp = TRUE
  /\ cb = [c \in Conns |-> "entry"] /\ readmitted = {}
  /\ main = "run"
  /\ accepted = [l \in Lanes |-> 0] /\ known = accepted /\ dropped = accepted
  /\ delivered = accepted /\ processed = accepted
  /\ refused = [l \in Lanes |-> FALSE]
  /\ closedRing = {}
  /\ worker = [l \in Lanes |-> "wait"]

-----------------------------------------------------------------------------
(* Callbacks on the connection threads.                                    *)

\* Mutant: the ring is full one frame early.
OnAudio_FullEarly(c, l) ==
  /\ at[c] = "onAudio"
  /\ accepted[l] + dropped[l] < MaxFrames
  /\ \E k \in known[l]..delivered[l] :
       LET full == accepted[l] + 1 - k = Capacity
       IN  /\ known' = [known EXCEPT ![l] = k]
           /\ refused' = [refused EXCEPT ![l] = full]
           /\ accepted' = IF full THEN accepted ELSE [accepted EXCEPT ![l] = @ + 1]
           /\ dropped' = IF full THEN [dropped EXCEPT ![l] = @ + 1] ELSE dropped
  /\ Return(c)
  /\ UNCHANGED <<controlVars, delivered, processed, closedRing, worker>>

\* onAudio: push the frame on its lane's ring, count it if the ring is full.
OnAudio(c, l) ==
  /\ at[c] = "onAudio"
  /\ accepted[l] + dropped[l] < MaxFrames
  /\ \E k \in known[l]..delivered[l] :
       LET full == accepted[l] - k = Capacity
       IN  /\ known' = [known EXCEPT ![l] = k]
           /\ refused' = [refused EXCEPT ![l] = full]
           /\ accepted' = IF full THEN accepted ELSE [accepted EXCEPT ![l] = @ + 1]
           /\ dropped' = IF full THEN [dropped EXCEPT ![l] = @ + 1] ELSE dropped
  /\ Return(c)
  /\ UNCHANGED <<controlVars, delivered, processed, closedRing, worker>>

OnHello(c) ==
  /\ at[c] = "onHello" /\ cb[c] = "entry"
  /\ connected' = TRUE
  /\ readmitted' = {c} \cap rejected
  /\ cb' = [cb EXCEPT ![c] = "status"]
  /\ UNCHANGED <<wsVars, stopping, main, serverAlive, engineUp, laneVars>>

\* Mutant: the disconnect counts only if it is the slot holder's, but the
\* slot has been freed before the callback.
OnClientGone_IfActive(c) ==
  /\ at[c] \in {"onBye", "onGone"} /\ cb[c] = "entry"
  /\ connected' = IF activeId = c THEN FALSE ELSE connected
  /\ readmitted' = IF connected' THEN readmitted ELSE {}
  /\ cb' = [cb EXCEPT ![c] = "status"]
  /\ UNCHANGED <<wsVars, stopping, main, serverAlive, engineUp, laneVars>>

OnClientGone(c) ==
  /\ at[c] \in {"onBye", "onGone"} /\ cb[c] = "entry"
  /\ connected' = FALSE
  /\ readmitted' = {}
  /\ cb' = [cb EXCEPT ![c] = "status"]
  /\ UNCHANGED <<wsVars, stopping, main, serverAlive, engineUp, laneVars>>

\* pushStatus, first the load of stopping_...
StatusSkip(c) ==
  /\ cb[c] = "status" /\ stopping
  /\ Return(c)
  /\ cb' = [cb EXCEPT ![c] = "entry"]
  /\ UNCHANGED <<connected, stopping, readmitted, main, serverAlive, engineUp, laneVars>>

StatusGo(c) ==
  /\ cb[c] = "status" /\ ~stopping
  /\ cb' = [cb EXCEPT ![c] = "broadcast"]
  /\ UNCHANGED <<wsVars, connected, stopping, readmitted, main, serverAlive, engineUp, laneVars>>

\* ...then the broadcast through server_.
StatusSent(c) ==
  /\ cb[c] = "broadcast"
  /\ Return(c)
  /\ cb' = [cb EXCEPT ![c] = "entry"]
  /\ UNCHANGED <<connected, stopping, readmitted, main, serverAlive, engineUp, laneVars>>

Callback(c) ==
  \/ \E l \in Lanes : OnAudio(c, l)
  \/ OnHello(c) \/ OnClientGone(c)
  \/ StatusSkip(c) \/ StatusGo(c) \/ StatusSent(c)

\* The rest of a connection's life is the server's; no frame is sent once
\* every lane has had MaxFrames.
Connection(c) ==
  /\ Handler(c) \/ PeerCloses(c)
  /\ at'[c] = "onAudio" => \E l \in Lanes : accepted[l] + dropped[l] < MaxFrames
  /\ UNCHANGED <<controlVars, laneVars>>

-----------------------------------------------------------------------------
(* workerLoop                                                              *)

WorkerPop(l) ==
  /\ worker[l] = "wait" /\ delivered[l] < accepted[l]
  /\ delivered' = [delivered EXCEPT ![l] = @ + 1]
  /\ worker' = [worker EXCEPT ![l] = "feed"]
  /\ UNCHANGED <<wsVars, controlVars, accepted, known, refused, dropped, processed, closedRing>>

\* Mutant: the worker returns after one frame.
WorkerFeed_Once(l) ==
  /\ worker[l] = "feed"
  /\ processed' = [processed EXCEPT ![l] = @ + 1]
  /\ worker' = [worker EXCEPT ![l] = "done"]
  /\ UNCHANGED <<wsVars, controlVars, accepted, known, refused, dropped, delivered, closedRing>>

WorkerFeed(l) ==
  /\ worker[l] = "feed"
  /\ processed' = [processed EXCEPT ![l] = @ + 1]
  /\ worker' = [worker EXCEPT ![l] = "wait"]
  /\ UNCHANGED <<wsVars, controlVars, accepted, known, refused, dropped, delivered, closedRing>>

\* feed throws: the exception is logged and the lane's worker returns.
WorkerThrow(l) ==
  /\ worker[l] = "feed"
  /\ worker' = [worker EXCEPT ![l] = "dead"]
  /\ UNCHANGED <<wsVars, controlVars, accepted, known, refused, dropped, delivered, processed,
                 closedRing>>

\* Mutant: the worker leaves as soon as the ring is closed.
WorkerEnd_NoDrain(l) ==
  /\ worker[l] = "wait" /\ l \in closedRing
  /\ worker' = [worker EXCEPT ![l] = "done"]
  /\ UNCHANGED <<wsVars, controlVars, accepted, known, refused, dropped, delivered, processed,
                 closedRing>>

\* popWait returns nullopt.
WorkerEnd(l) ==
  /\ worker[l] = "wait" /\ l \in closedRing /\ delivered[l] = accepted[l]
  /\ worker' = [worker EXCEPT ![l] = "done"]
  /\ UNCHANGED <<wsVars, controlVars, accepted, known, refused, dropped, delivered, processed,
                 closedRing>>

Worker(l) == WorkerPop(l) \/ WorkerFeed(l) \/ WorkerThrow(l) \/ WorkerEnd(l)

-----------------------------------------------------------------------------
(* The main thread: the wait loop's pushStatus, Pipeline::stop(), and the  *)
(* engine's stop() after it.                                               *)

Heartbeat ==
  /\ main = "run" /\ ~stopping
  /\ main' = "heartbeat"
  /\ UNCHANGED <<wsVars, connected, stopping, cb, readmitted, serverAlive, engineUp, laneVars>>

HeartbeatSent ==
  /\ main = "heartbeat"
  /\ main' = "run"
  /\ UNCHANGED <<wsVars, connected, stopping, cb, readmitted, serverAlive, engineUp, laneVars>>

Stop ==
  /\ main = "run"
  /\ stopping' = TRUE
  /\ main' = "stopServer"
  /\ UNCHANGED <<wsVars, connected, cb, readmitted, serverAlive, engineUp, laneVars>>

StopServer ==
  /\ main = "stopServer"
  /\ StopBegin
  /\ main' = "joinServer"
  /\ UNCHANGED <<connected, stopping, cb, readmitted, serverAlive, engineUp, laneVars>>

ServerJoined ==
  /\ main = "joinServer"
  /\ StopEnd
  /\ main' = "closeRings"
  /\ UNCHANGED <<connected, stopping, cb, readmitted, serverAlive, engineUp, laneVars>>

\* Mutant: only one ring is closed.
CloseRing_First(l) ==
  /\ main = "closeRings" /\ l \notin closedRing
  /\ closedRing' = closedRing \cup {l}
  /\ main' = "joinWorkers"
  /\ UNCHANGED <<wsVars, connected, stopping, cb, readmitted, serverAlive, engineUp,
                 accepted, known, refused, dropped, delivered, processed, worker>>

CloseRing(l) ==
  /\ main = "closeRings" /\ l \notin closedRing
  /\ closedRing' = closedRing \cup {l}
  /\ main' = IF closedRing' = Lanes THEN "joinWorkers" ELSE main
  /\ UNCHANGED <<wsVars, connected, stopping, cb, readmitted, serverAlive, engineUp,
                 accepted, known, refused, dropped, delivered, processed, worker>>

\* Mutant: the workers are detached instead of joined.
WorkersJoined_Detached ==
  /\ main = "joinWorkers"
  /\ serverAlive' = FALSE
  /\ main' = "stopEngine"
  /\ UNCHANGED <<wsVars, connected, stopping, cb, readmitted, engineUp, laneVars>>

\* Both workers have returned: server_.reset().
WorkersJoined ==
  /\ main = "joinWorkers"
  /\ \A l \in Lanes : worker[l] \in {"dead", "done"}
  /\ serverAlive' = FALSE
  /\ main' = "stopEngine"
  /\ UNCHANGED <<wsVars, connected, stopping, cb, readmitted, engineUp, laneVars>>

EngineStop ==
  /\ main = "stopEngine"
  /\ engineUp' = FALSE
  /\ main' = "off"
  /\ UNCHANGED <<wsVars, connected, stopping, cb, readmitted, serverAlive, laneVars>>

StopStep == StopServer \/ ServerJoined \/ (\E l \in Lanes : CloseRing(l)) \/ WorkersJoined
            \/ EngineStop

Main == Heartbeat \/ HeartbeatSent \/ Stop \/ StopStep

Next ==
  \/ \E c \in Conns : Callback(c) \/ Connection(c)
  \/ \E l \in Lanes : Worker(l)
  \/ Main

\* Threads inside a callback, a feed or stop() go on; a connection that has
\* to end ends.  Nobody has to connect, to speak, or to quit.
Fairness ==
  /\ \A c \in Conns : /\ WF_vars(Callback(c))
                      /\ WF_vars(Connection(c) /\ (RejectConn(c) \/ CloseEvent(c)))
                      /\ WF_vars(Connection(c) /\ MustEnd(c) /\ PeerCloses(c))
  /\ \A l \in Lanes : WF_vars(Worker(l))
  /\ WF_vars(HeartbeatSent) /\ WF_vars(StopStep)

Spec == Init /\ [][Next]_vars
FairSpec == Spec /\ Fairness

-----------------------------------------------------------------------------
(* Properties                                                              *)

\* Pipeline::stop() resets server_ only when no thread can be in, or get
\* into, a broadcast through it: the claim made at stopping_.
NoBroadcastAfterReset ==
  ~serverAlive => /\ main # "heartbeat"
                  /\ \A c \in Conns : cb[c] # "broadcast"

\* The engine is stopped only when no worker is inside feed() or will be.
EngineOutlivesWorkers == ~engineUp => \A l \in Lanes : worker[l] \in {"dead", "done"}

\* What the ring asks of close(): every producer has left tryPush for good.
ClosedAfterProducers == closedRing # {} => \A c \in Conns : at[c] \in {"none", "gone"}

\* stop() loses no accepted frame: a worker that did not die of an exception
\* has fed every one when it is joined.
DrainedAtStop ==
  main \in {"stopEngine", "off"} =>
    \A l \in Lanes : worker[l] = "done" => processed[l] = accepted[l]

\* The UI never shows a client that is not there: with the slot free and no
\* callback running, connected_ is false; unless the client shown last was
\* refused and then let in by a second hello: its end is not reported.
NoGhostClient ==
  (activeId = NoConn /\ \A c \in Conns : at[c] \notin InCallback)
    => ~connected \/ readmitted # {}

\* Each lane is a bounded channel from the connections to its worker.
Lane(l) == INSTANCE BoundedChannel
             WITH accepted <- accepted[l], delivered <- delivered[l], known <- known[l],
                  refused <- refused[l], closed <- (l \in closedRing),
                  ended <- (worker[l] = "done")
LanesAreChannels ==
  /\ \A l \in Lanes : Lane(l)!Init
  /\ [][\A l \in Lanes : Lane(l)!Next \/ UNCHANGED Lane(l)!chanVars]_vars

\* A frame the ring took is fed to the engine, unless its lane's worker has
\* died: not even stop() or the death of the other lane prevents it.
AcceptedIsFed ==
  \A l \in Lanes : \A k \in 1..MaxFrames :
    (accepted[l] >= k) ~> (processed[l] >= k \/ worker[l] = "dead")

\* stop() terminates: neither join waits for ever.
StopTerminates == stopping ~> (main = "off")
=============================================================================
