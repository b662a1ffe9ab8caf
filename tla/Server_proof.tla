---------------------------- MODULE Server_proof ----------------------------
(***************************************************************************)
(* Proofs about the WebSocket server, alone and in its two compositions:   *)
(* the session with the extension, in which servers are replaced, and the  *)
(* pipeline the server feeds.  For any connections, lanes, ring capacity,  *)
(* number of frames, drops and restarts.                                   *)
(***************************************************************************)
EXTENDS Session, Pipeline, TLAPS

-----------------------------------------------------------------------------
(* The inductive invariants: of the server ...                             *)

\* Whoever has the slot has said hello and is not given up; who is past its
\* callbacks is forgotten.
SlotInv ==
  /\ \A c \in Conns : helloSeen[c] = "yes" <=> activeId = c
  /\ \A c \in Conns : at[c] \in {"onAudio", "onHello"} => activeId = c
  /\ \A c \in Conns : at[c] \in {"none", "onGone", "gone"} => helloSeen[c] = "absent"
  /\ \A c \in Conns : at[c] = "none" => c \notin closing

\* A connection that is refused is being closed, and is not refused while it
\* holds the slot.
RejectInv ==
  /\ rejected \subseteq closing
  /\ \A c \in rejected : at[c] \notin {"none", "onGone", "gone"}
  /\ \A c \in Conns : at[c] = "refuse" => helloSeen[c] # "yes"

WsInv == WsTypeOK /\ SlotInv /\ RejectInv

(* ... of a session ...                                                    *)

\* No thread is left of a server that has stopped.
StoppedInv == server = "stopped" => \A c \in Conns : at[c] \in {"none", "gone"}

\* onopen and close() are about the socket the module remembers.
SocketInv == opened => ws # NoConn

\* The extension's hello is the first thing its connection's thread hears,
\* and the only hello: once it was refused the slot is out of reach.
HelloInv ==
  /\ \A c \in hellos : at[c] \notin {"none", "refuse"} /\ helloSeen[c] # "yes"
                       /\ c \notin rejected
  /\ RefusedStaysOut

SessionInv == SessionTypeOK /\ WsInv /\ StoppedInv /\ SocketInv /\ HelloInv

(* ... and of the pipeline.                                                *)

\* Where the main thread is says what it has torn down.
ControlInv ==
  /\ stopping <=> main \notin {"run", "heartbeat"}
  /\ server = "up" <=> main \in {"run", "heartbeat", "stopServer"}
  /\ server = "stopping" <=> main = "joinServer"
  /\ server = "stopped" => \A c \in Conns : at[c] \in {"none", "gone"}
  /\ \A c \in Conns : cb[c] # "entry" => at[c] \in {"onHello", "onBye", "onGone"}
  /\ serverAlive <=> main \notin {"stopEngine", "off"}
  /\ engineUp <=> main # "off"
  /\ closedRing # {} => main \in {"closeRings", "joinWorkers", "stopEngine", "off"}
  /\ main \in {"stopEngine", "off"} => \A l \in Lanes : worker[l] \in {"dead", "done"}

\* What the counters of a lane have to do with each other.
LaneInv ==
  \A l \in Lanes :
    /\ known[l] <= delivered[l] /\ delivered[l] <= accepted[l]
    /\ accepted[l] <= known[l] + Capacity
    /\ delivered[l] = processed[l] + (IF worker[l] \in {"feed", "dead"} THEN 1 ELSE 0)
    /\ worker[l] = "done" => delivered[l] = accepted[l] /\ l \in closedRing

\* connected_ is true only for a client whose end is about to be reported or
\* will be: it has the slot, and was not refused before.
GhostInv ==
  connected /\ readmitted = {} =>
    \/ \E c \in Conns : at[c] = "onGone" /\ cb[c] = "entry"
    \/ activeId # NoConn /\ activeId \notin rejected

PipeInv == TypeOK /\ WsInv /\ ControlInv /\ LaneInv /\ GhostInv

-----------------------------------------------------------------------------
(* The server: the single-client rule.                                     *)

LEMMA WsInitInv == WsInit => WsInv
BY ConnAssumption DEF WsInit, WsInv, WsTypeOK, SlotInv, RejectInv, Position

LEMMA WsTypeStep ==
  ASSUME WsTypeOK, [WsNext]_wsVars PROVE WsTypeOK'
<1> USE DEF WsTypeOK, Position, Goto
<1>1. ASSUME NEW c \in Conns, Handler(c) PROVE WsTypeOK'
  <2>1. CASE Open(c)
    BY <2>1 DEF Open
  <2>2. CASE BadHello(c)
    BY <2>2 DEF BadHello
  <2>3. CASE AcceptHello(c)
    BY <2>3 DEF AcceptHello
  <2>4. CASE RefuseHello(c)
    BY <2>4 DEF RefuseHello
  <2>5. CASE RejectConn(c)
    BY <2>5 DEF RejectConn
  <2>6. CASE Bye(c)
    BY <2>6 DEF Bye
  <2>7. CASE Audio(c)
    BY <2>7 DEF Audio
  <2>8. CASE CloseEvent(c)
    BY <2>8 DEF CloseEvent
  <2> QED
    BY <1>1, <2>1, <2>2, <2>3, <2>4, <2>5, <2>6, <2>7, <2>8 DEF Handler
<1>2. ASSUME NEW c \in Conns, PeerCloses(c) PROVE WsTypeOK'
  BY <1>2 DEF PeerCloses
<1>3. ASSUME NEW c \in Conns, Return(c) PROVE WsTypeOK'
  BY <1>3 DEF Return
<1>4. CASE StopBegin
  BY <1>4 DEF StopBegin
<1>5. CASE StopEnd
  BY <1>5 DEF StopEnd
<1>6. CASE UNCHANGED wsVars
  BY <1>6 DEF wsVars
<1> QED
  BY <1>1, <1>2, <1>3, <1>4, <1>5, <1>6 DEF WsNext

\* The bookkeeping of the slot agrees with itself after each step.
LEMMA SlotStep ==
  ASSUME WsInv, [WsNext]_wsVars PROVE SlotInv'
<1> USE ConnAssumption DEF WsInv, WsTypeOK, SlotInv, Position, Goto
<1>1. ASSUME NEW c \in Conns, Handler(c) PROVE SlotInv'
  <2>1. CASE Open(c)
    BY <2>1 DEF Open
  <2>2. CASE BadHello(c)
    BY <2>2 DEF BadHello, Receives
  <2>3. CASE AcceptHello(c)
    BY <2>3 DEF AcceptHello, Receives
  <2>4. CASE RefuseHello(c)
    BY <2>4 DEF RefuseHello, Receives
  <2>5. CASE RejectConn(c)
    BY <2>5 DEF RejectConn
  <2>6. CASE Bye(c)
    BY <2>6 DEF Bye, Receives
  <2>7. CASE Audio(c)
    BY <2>7 DEF Audio, Receives
  <2>8. CASE CloseEvent(c)
    BY <2>8 DEF CloseEvent
  <2> QED
    BY <1>1, <2>1, <2>2, <2>3, <2>4, <2>5, <2>6, <2>7, <2>8 DEF Handler
<1>2. ASSUME NEW c \in Conns, PeerCloses(c) PROVE SlotInv'
  BY <1>2 DEF PeerCloses
<1>3. ASSUME NEW c \in Conns, Return(c) PROVE SlotInv'
  BY <1>3 DEF Return, InCallback
<1>4. CASE StopBegin
  BY <1>4 DEF StopBegin
<1>5. CASE StopEnd
  BY <1>5 DEF StopEnd
<1>6. CASE UNCHANGED wsVars
  BY <1>6 DEF wsVars
<1> QED
  BY <1>1, <1>2, <1>3, <1>4, <1>5, <1>6 DEF WsNext

LEMMA RejectStep ==
  ASSUME WsInv, [WsNext]_wsVars PROVE RejectInv'
<1> USE ConnAssumption DEF WsInv, WsTypeOK, SlotInv, RejectInv, Position, Goto
<1>1. ASSUME NEW c \in Conns, Handler(c) PROVE RejectInv'
  <2>1. CASE Open(c)
    BY <2>1 DEF Open
  <2>2. CASE BadHello(c)
    BY <2>2 DEF BadHello, Receives
  <2>3. CASE AcceptHello(c)
    BY <2>3 DEF AcceptHello, Receives
  <2>4. CASE RefuseHello(c)
    BY <2>4 DEF RefuseHello, Receives
  <2>5. CASE RejectConn(c)
    BY <2>5 DEF RejectConn
  <2>6. CASE Bye(c)
    BY <2>6 DEF Bye, Receives
  <2>7. CASE Audio(c)
    BY <2>7 DEF Audio, Receives
  <2>8. CASE CloseEvent(c)
    BY <2>8 DEF CloseEvent
  <2> QED
    BY <1>1, <2>1, <2>2, <2>3, <2>4, <2>5, <2>6, <2>7, <2>8 DEF Handler
<1>2. ASSUME NEW c \in Conns, PeerCloses(c) PROVE RejectInv'
  BY <1>2 DEF PeerCloses
<1>3. ASSUME NEW c \in Conns, Return(c) PROVE RejectInv'
  BY <1>3 DEF Return, InCallback
<1>4. CASE StopBegin
  BY <1>4 DEF StopBegin
<1>5. CASE StopEnd
  BY <1>5 DEF StopEnd
<1>6. CASE UNCHANGED wsVars
  BY <1>6 DEF wsVars
<1> QED
  BY <1>1, <1>2, <1>3, <1>4, <1>5, <1>6 DEF WsNext

LEMMA WsInvStep == WsInv /\ [WsNext]_wsVars => WsInv'
BY WsTypeStep, SlotStep, RejectStep DEF WsInv

-----------------------------------------------------------------------------
\* The invariant holds in every reachable state.
THEOREM WsInvariant == WsSpec => []WsInv
BY WsInitInv, WsInvStep, PTL DEF WsSpec

\* Every variable keeps its type.
THEOREM WsTypeCorrect == WsSpec => []WsTypeOK
<1>1. WsInv => WsTypeOK
  BY DEF WsInv
<1> QED
  BY <1>1, WsInvariant, PTL

\* A frame is only ever handed on while its connection holds the slot.
THEOREM AudioIsActive == WsSpec => []AudioFromActive
<1>1. WsInv => AudioFromActive
  BY DEF WsInv, SlotInv, AudioFromActive
<1> QED
  BY <1>1, WsInvariant, PTL

\* The rings behind onAudio have one producer at a time, whatever number of
\* clients connect.
THEOREM OneProducer == WsSpec => []SingleProducer
<1>1. WsInv => SingleProducer
  BY DEF WsInv, SlotInv, SingleProducer
<1> QED
  BY <1>1, WsInvariant, PTL

LEMMA ReleaseIsLoud ==
  ASSUME WsInv, WsNext, NEW c \in Conns, activeId = c, activeId' # c
  PROVE  activeId' = NoConn /\ (c \notin rejected => at'[c] = "onGone")
<1>1. PICK d \in Conns : AcceptHello(d) \/ CloseEvent(d)
  BY DEF WsNext, Handler, Open, BadHello, RefuseHello, RejectConn, Bye, Audio,
     PeerCloses, Return, StopBegin, StopEnd
<1>2. CASE AcceptHello(d)
  BY <1>2, ConnAssumption DEF AcceptHello
<1>3. CASE CloseEvent(d)
  <2>1. d = c
    BY <1>3 DEF CloseEvent
  <2> QED
    BY <1>3, <2>1 DEF CloseEvent, Goto, WsInv, WsTypeOK
<1> QED
  BY <1>1, <1>2, <1>3

\* The slot changes hands only through the end of its holder, which Pipeline
\* is told of unless that holder had been refused before.
THEOREM SlotRelease == WsSpec => SlotReleasedLoudly
<1> DEFINE Released(c) == activeId = c /\ activeId' # c
                            => activeId' = NoConn /\ (c \notin rejected => at'[c] = "onGone")
<1>1. WsInv /\ [WsNext]_wsVars => [\A c \in Conns : Released(c)]_wsVars
  BY ReleaseIsLoud
<1> QED
  BY <1>1, WsInvariant, PTL DEF WsSpec, SlotReleasedLoudly

-----------------------------------------------------------------------------
(* The session: the server as the extension and its other clients meet it, *)
(* replaced by engine swaps, its connections' names used again.            *)

\* A connection's name is reused, or a new server starts from nothing; every
\* other step of the session is a step of the server or leaves it alone.
LEMMA SessionStep ==
  ASSUME SessionTypeOK, [SessionNext]_sessionVars
  PROVE  [WsNext]_wsVars \/ (\E c \in Conns : Forget(c)) \/ Restart
<1>1. CASE StartCapture \/ NotEstablished \/ TimerFires \/ StopCapture
  BY <1>1 DEF StartCapture, NotEstablished, TimerFires, StopCapture
<1>2. CASE Established \/ Disconnected
  <2>1. ws \in Conns
    BY <1>2, SessionAssumption DEF Established, Disconnected, SessionTypeOK
  <2>2. Open(ws) \/ PeerCloses(ws)
    BY <1>2 DEF Established, Disconnected
  <2> QED
    BY <2>1, <2>2 DEF WsNext, Handler
<1>3. ASSUME NEW c \in Conns, HelloArrives(c) \/ ByeArrives(c) \/ OldSocketCloses(c)
                                \/ ServerRuns(c) \/ FrameArrives(c) \/ Foreign(c)
      PROVE  WsNext
  BY <1>3 DEF HelloArrives, ByeArrives, OldSocketCloses, ServerRuns, FrameArrives, Foreign,
              WsNext, Handler
<1>4. ASSUME NEW c \in Conns, MessageLost(c) PROVE UNCHANGED wsVars
  BY <1>4 DEF MessageLost
<1>5. CASE ServerStops
  BY <1>5 DEF ServerStops, WsNext
<1>6. CASE UNCHANGED sessionVars
  BY <1>6 DEF sessionVars
<1> QED
  BY <1>1, <1>2, <1>3, <1>4, <1>5, <1>6 DEF SessionNext

LEMMA ForgetKeeps ==
  ASSUME WsInv, NEW c \in Conns, Forget(c) PROVE WsInv'
<1>1. WsTypeOK'
  BY DEF Forget, WsInv, WsTypeOK, Position, Goto
<1>2. SlotInv'
  BY DEF Forget, WsInv, WsTypeOK, Position, Goto, SlotInv
<1>3. RejectInv'
  BY DEF Forget, WsInv, WsTypeOK, Position, Goto, RejectInv
<1> QED
  BY <1>1, <1>2, <1>3 DEF WsInv

LEMMA RestartKeeps ==
  ASSUME WsInv, Restart PROVE WsInv'
BY ConnAssumption DEF Restart, WsInv, WsTypeOK, Position, SlotInv, RejectInv

LEMMA ClientStep ==
  ASSUME SessionTypeOK, SocketInv, WsTypeOK', [SessionNext]_sessionVars
  PROVE  SessionTypeOK' /\ SocketInv'
<1> USE SessionAssumption DEF SessionTypeOK, SocketInv, clientVars
<1>1. CASE StartCapture \/ TimerFires
  <2>1. PICK c \in Mine : ws' = c /\ opened' = FALSE
    BY <1>1 DEF StartCapture, TimerFires, Connect
  <2> QED
    BY <1>1, <2>1 DEF StartCapture, TimerFires
<1>2. CASE NotEstablished \/ Disconnected
  <2>1. drops' \in 0 .. MaxDrops
    BY <1>2 DEF NotEstablished, Disconnected
  <2>2. ws' = NoConn /\ opened' = FALSE /\ timer' = active /\ active' = active
    BY <1>2 DEF NotEstablished, Disconnected, OnClose
  <2>3. hellos' \subseteq Mine /\ byes' \subseteq Mine /\ restarts' = restarts
    BY <1>2 DEF NotEstablished, Disconnected
  <2> QED
    BY <2>1, <2>2, <2>3
<1>3. CASE Established \/ StopCapture
  BY <1>3 DEF Established, StopCapture
<1>4. ASSUME NEW c \in Conns, HelloArrives(c) \/ ByeArrives(c) \/ OldSocketCloses(c)
                                \/ ServerRuns(c) \/ FrameArrives(c) \/ Foreign(c)
      PROVE  SessionTypeOK' /\ SocketInv'
  BY <1>4 DEF HelloArrives, ByeArrives, OldSocketCloses, ServerRuns, FrameArrives, Foreign
<1>5. ASSUME NEW c \in Conns, MessageLost(c) \/ Forget(c) PROVE SessionTypeOK' /\ SocketInv'
  BY <1>5 DEF MessageLost, Forget
<1>6. CASE ServerStops \/ Restart
  BY <1>6 DEF ServerStops, Restart
<1>7. CASE UNCHANGED sessionVars
  BY <1>7 DEF sessionVars
<1> QED
  BY <1>1, <1>2, <1>3, <1>4, <1>5, <1>6, <1>7 DEF SessionNext

LEMMA StoppedStep ==
  ASSUME WsInv, StoppedInv, [WsNext]_wsVars PROVE StoppedInv'
<1> USE DEF StoppedInv, WsInv, WsTypeOK, Goto
<1>1. ASSUME NEW c \in Conns, Handler(c) \/ PeerCloses(c) \/ Return(c) PROVE StoppedInv'
  BY <1>1 DEF Handler, Open, BadHello, AcceptHello, RefuseHello, RejectConn, Bye, Audio, CloseEvent,
              PeerCloses, Return, Receives, InCallback
<1>2. CASE StopBegin \/ StopEnd \/ UNCHANGED wsVars
  BY <1>2 DEF StopBegin, StopEnd, wsVars
<1> QED
  BY <1>1, <1>2 DEF WsNext

\* The extension says hello once per connection: at a step of the session,
\* nothing that would let a refused connection of its own in is under way.
LEMMA HelloStep ==
  ASSUME SessionInv, [SessionNext]_sessionVars PROVE HelloInv'
<1> USE SessionAssumption DEF SessionInv, SessionTypeOK, WsInv, WsTypeOK, SlotInv, RejectInv,
      HelloInv, RefusedStaysOut, Position, Goto, clientVars, wsVars
<1>1. CASE StartCapture \/ NotEstablished \/ TimerFires \/ StopCapture
  BY <1>1 DEF StartCapture, NotEstablished, TimerFires, StopCapture, OnClose, Connect
<1>2. CASE Established
  <2>1. ws \in Mine /\ at[ws] = "none" /\ ws \notin rejected
    BY <1>2 DEF Established, Open
  <2> QED
    BY <1>2, <2>1, ConnAssumption DEF Established, Open
<1>3. CASE Disconnected
  BY <1>3 DEF Disconnected, PeerCloses, OnClose
<1>4. ASSUME NEW c \in Conns, HelloArrives(c) PROVE HelloInv'
  <2>1. CASE AcceptHello(c)
    BY <1>4, <2>1 DEF HelloArrives, AcceptHello, Receives
  <2>2. CASE RefuseHello(c)
    BY <1>4, <2>2 DEF HelloArrives, RefuseHello, Receives
  <2> QED
    BY <1>4, <2>1, <2>2 DEF HelloArrives
<1>5. ASSUME NEW c \in Conns, ByeArrives(c) \/ OldSocketCloses(c) \/ FrameArrives(c) PROVE HelloInv'
  BY <1>5 DEF ByeArrives, OldSocketCloses, FrameArrives, Bye, PeerCloses, Audio, Receives
<1>6. ASSUME NEW c \in Conns, ServerRuns(c) PROVE HelloInv'
  <2>1. CASE RejectConn(c)
    BY <1>6, <2>1 DEF ServerRuns, RejectConn
  <2>2. CASE CloseEvent(c)
    BY <1>6, <2>2, ConnAssumption DEF ServerRuns, CloseEvent
  <2>3. CASE Return(c)
    BY <1>6, <2>3 DEF ServerRuns, Return, InCallback
  <2> QED
    BY <1>6, <2>1, <2>2, <2>3 DEF ServerRuns
<1>7. ASSUME NEW c \in Conns, Foreign(c) PROVE HelloInv'
  <2>1. /\ c \notin Mine /\ UNCHANGED <<hellos, rejected>>
        /\ \A d \in Mine : at'[d] = at[d] /\ helloSeen'[d] = helloSeen[d]
        /\ activeId' \in {activeId, c}
    BY <1>7 DEF Foreign, Open, BadHello, AcceptHello, RefuseHello, Bye, Audio, PeerCloses
  <2> QED
    BY <2>1
<1>8. ASSUME NEW c \in Conns, MessageLost(c) \/ Forget(c) PROVE HelloInv'
  BY <1>8 DEF MessageLost, Forget
<1>9. CASE ServerStops
  BY <1>9 DEF ServerStops, StopBegin, StopEnd
<1>10. CASE Restart
  BY <1>10 DEF Restart
<1>11. CASE UNCHANGED sessionVars
  BY <1>11 DEF sessionVars
<1> QED
  BY <1>1, <1>2, <1>3, <1>4, <1>5, <1>6, <1>7, <1>8, <1>9, <1>10, <1>11 DEF SessionNext

\* The server's invariant survives what the server's own module leaves out:
\* names that are used again and servers that are replaced.
THEOREM SessionInvariant == SessionSpec => []SessionInv
<1>1. SessionInit => SessionInv
  <2> SUFFICES ASSUME SessionInit PROVE SessionInv
    OBVIOUS
  <2>1. WsInv /\ server = "up"
    BY WsInitInv DEF SessionInit, WsInit
  <2>2. SessionTypeOK
    <3>1. drops \in 0 .. MaxDrops /\ restarts \in 0 .. MaxRestarts
      BY SessionAssumption DEF SessionInit
    <3>2. active \in BOOLEAN /\ opened \in BOOLEAN /\ timer \in BOOLEAN
      BY Zenon DEF SessionInit
    <3>3. ws \in Mine \cup {NoConn} /\ hellos \subseteq Mine /\ byes \subseteq Mine
      BY DEF SessionInit
    <3> QED
      BY <2>1, <3>1, <3>2, <3>3 DEF SessionTypeOK, WsInv
  <2>3. SocketInv
    BY Zenon DEF SessionInit, SocketInv
  <2>4. StoppedInv
    BY <2>1 DEF StoppedInv
  <2>5. HelloInv
    BY DEF SessionInit, WsInit, HelloInv, RefusedStaysOut
  <2> QED
    BY <2>1, <2>2, <2>3, <2>4, <2>5 DEF SessionInv
<1>2. SessionInv /\ [SessionNext]_sessionVars => SessionInv'
  <2> SUFFICES ASSUME SessionInv, [SessionNext]_sessionVars PROVE SessionInv'
    OBVIOUS
  <2> USE DEF SessionInv
  <2>1. WsInv'
    BY SessionStep, WsInvStep, ForgetKeeps, RestartKeeps
  <2>2. StoppedInv'
    <3>1. ASSUME NEW c \in Conns, Forget(c) PROVE StoppedInv'
      BY <3>1 DEF Forget, Goto, StoppedInv, WsInv, WsTypeOK
    <3>2. CASE Restart
      BY <3>2 DEF Restart, StoppedInv
    <3> QED
      BY <3>1, <3>2, SessionStep, StoppedStep
  <2>3. SessionTypeOK' /\ SocketInv'
    BY <2>1, ClientStep DEF WsInv
  <2>4. HelloInv'
    BY HelloStep
  <2> QED
    BY <2>1, <2>2, <2>3, <2>4
<1> QED
  BY <1>1, <1>2, PTL DEF SessionSpec

\* Through reconnections, refusals and replaced servers, at most one thread
\* pushes audio.
THEOREM SessionOneProducer == SessionSpec => []SingleProducer
<1>1. SessionInv => SingleProducer
  BY DEF SessionInv, WsInv, SlotInv, SingleProducer
<1> QED
  BY <1>1, SessionInvariant, PTL

\* Whatever foreign clients do, a connection of the extension that was refused
\* never holds the slot.
THEOREM OwnRefusedStaysOut == SessionSpec => []RefusedStaysOut
<1>1. SessionInv => RefusedStaysOut
  BY DEF SessionInv, HelloInv
<1> QED
  BY <1>1, SessionInvariant, PTL

\* Through all of that, too, the slot is released by nothing but the end of
\* its holder: a server is replaced only when nobody holds it any more.
THEOREM SessionSlotRelease == SessionSpec => SlotReleasedLoudly
<1> DEFINE Released(c) == activeId = c /\ activeId' # c
                            => activeId' = NoConn /\ (c \notin rejected => at'[c] = "onGone")
<1>1. SessionInv /\ [SessionNext]_sessionVars => [\A c \in Conns : Released(c)]_wsVars
  <2> SUFFICES ASSUME SessionInv, [SessionNext]_sessionVars, NEW c \in Conns,
                      activeId = c, activeId' # c
               PROVE  activeId' = NoConn /\ (c \notin rejected => at'[c] = "onGone")
    OBVIOUS
  <2>1. ASSUME NEW d \in Conns, Forget(d) PROVE FALSE
    BY <2>1 DEF Forget
  <2>2. ASSUME Restart PROVE FALSE
    BY <2>2 DEF Restart, SessionInv, StoppedInv, WsInv, SlotInv
  <2>3. WsNext
    BY <2>1, <2>2, SessionStep DEF SessionInv, wsVars
  <2> QED
    BY <2>3, ReleaseIsLoud DEF SessionInv
<1> QED
  BY <1>1, SessionInvariant, PTL DEF SessionSpec, SlotReleasedLoudly

-----------------------------------------------------------------------------
(* A step of the pipeline is a step of the server, or leaves it alone, so  *)
(* what is proved of the server holds here.                                *)

LEMMA ServerStep ==
  ASSUME [Next]_vars PROVE [WsNext]_wsVars
<1>1. ASSUME NEW c \in Conns, Callback(c) PROVE [WsNext]_wsVars
  <2>1. Return(c) \/ UNCHANGED wsVars
    BY <1>1 DEF Callback, OnAudio, OnHello, OnClientGone, StatusSkip, StatusGo, StatusSent
  <2> QED
    BY <2>1 DEF WsNext
<1>2. ASSUME NEW c \in Conns, Connection(c) PROVE [WsNext]_wsVars
  BY <1>2 DEF Connection, WsNext
<1>3. ASSUME NEW l \in Lanes, Worker(l) PROVE [WsNext]_wsVars
  BY <1>3 DEF Worker, WorkerPop, WorkerFeed, WorkerThrow, WorkerEnd
<1>4. CASE Main
  <2>1. StopBegin \/ StopEnd \/ UNCHANGED wsVars
    BY <1>4 DEF Main, Heartbeat, HeartbeatSent, Stop, StopStep, StopServer, ServerJoined,
       CloseRing, WorkersJoined, EngineStop
  <2> QED
    BY <2>1 DEF WsNext
<1>5. CASE UNCHANGED vars
  BY <1>5 DEF vars
<1> QED
  BY <1>1, <1>2, <1>3, <1>4, <1>5 DEF Next

\* The server inside the pipeline is the server.
THEOREM PipelineRunsServer == Spec => WsSpec
<1>1. Init => WsInit
  BY DEF Init
<1>2. [Next]_vars => [WsNext]_wsVars
  BY ServerStep
<1> QED
  BY <1>1, <1>2, PTL DEF Spec, WsSpec

-----------------------------------------------------------------------------
\* What a push that has learnt of k pops does to its lane.
Pushed(l, k) ==
  /\ known' = [known EXCEPT ![l] = k]
  /\ refused' = [refused EXCEPT ![l] = (accepted[l] - k = Capacity)]
  /\ accepted' = IF accepted[l] - k = Capacity THEN accepted
                 ELSE [accepted EXCEPT ![l] = @ + 1]
  /\ dropped' = IF accepted[l] - k = Capacity THEN [dropped EXCEPT ![l] = @ + 1]
                ELSE dropped

LEMMA PushView ==
  ASSUME NEW c \in Conns, NEW l \in Lanes, OnAudio(c, l)
  PROVE  \E k \in known[l]..delivered[l] : Pushed(l, k)
BY DEF OnAudio, Pushed

LEMMA PipeInitInv == Init => PipeInv
<1> SUFFICES ASSUME Init PROVE PipeInv
  OBVIOUS
<1>1. WsInv /\ WsTypeOK
  BY WsInitInv DEF Init, WsInv
<1>2. TypeOK
  BY <1>1 DEF Init, TypeOK, MainAt
<1>3. ControlInv
  BY DEF Init, WsInit, ControlInv
<1>4. LaneInv
  BY PipeAssumption DEF Init, LaneInv
<1>5. GhostInv
  BY DEF Init, GhostInv
<1> QED
  BY <1>1, <1>2, <1>3, <1>4, <1>5 DEF PipeInv

LEMMA PipeTypeStep ==
  ASSUME PipeInv, [Next]_vars PROVE TypeOK'
<1>1. WsTypeOK'
  BY ServerStep, WsTypeStep DEF PipeInv, WsInv
<1> USE <1>1 DEF PipeInv, TypeOK, MainAt, controlVars, laneVars
<1>2. ASSUME NEW c \in Conns, NEW l \in Lanes, OnAudio(c, l) PROVE TypeOK'
  <2>1. PICK k \in known[l]..delivered[l] : Pushed(l, k)
    BY <1>2, PushView
  <2>2. k \in Nat
    OBVIOUS
  <2>3. accepted' \in [Lanes -> Nat] /\ dropped' \in [Lanes -> Nat] /\ known' \in [Lanes -> Nat]
    BY <2>1, <2>2 DEF Pushed
  <2>4. refused' \in [Lanes -> BOOLEAN]
    BY <2>1, Zenon DEF Pushed
  <2> QED
    BY <1>2, <2>3, <2>4 DEF OnAudio
<1>3. ASSUME NEW c \in Conns, Callback(c), \A l \in Lanes : ~OnAudio(c, l) PROVE TypeOK'
  BY <1>3 DEF Callback, OnHello, OnClientGone, StatusSkip, StatusGo, StatusSent
<1>4. ASSUME NEW c \in Conns, Connection(c) PROVE TypeOK'
  BY <1>4 DEF Connection
<1>5. ASSUME NEW l \in Lanes, Worker(l) PROVE TypeOK'
  BY <1>5 DEF Worker, WorkerPop, WorkerFeed, WorkerThrow, WorkerEnd
<1>6. CASE Main
  BY <1>6 DEF Main, Heartbeat, HeartbeatSent, Stop, StopStep, StopServer, ServerJoined,
     CloseRing, WorkersJoined, EngineStop
<1>7. CASE UNCHANGED vars
  BY <1>7 DEF vars
<1> QED
  BY <1>2, <1>3, <1>4, <1>5, <1>6, <1>7 DEF Next

-----------------------------------------------------------------------------
\* What a connection's thread does to the control state.
LEMMA CallbackControl ==
  ASSUME PipeInv, NEW c \in Conns, Callback(c) \/ Connection(c) PROVE ControlInv'
<1> USE DEF PipeInv, TypeOK, WsTypeOK, Position, ControlInv
<1>1. ASSUME NEW l \in Lanes, OnAudio(c, l) PROVE ControlInv'
  BY <1>1 DEF OnAudio, Return, Goto, InCallback, controlVars
<1>2. CASE OnHello(c)
  BY <1>2 DEF OnHello, wsVars, laneVars
<1>3. CASE OnClientGone(c)
  BY <1>3 DEF OnClientGone, wsVars, laneVars
<1>4. CASE StatusSkip(c)
  BY <1>4 DEF StatusSkip, Return, Goto, InCallback, laneVars
<1>5. CASE StatusGo(c)
  BY <1>5 DEF StatusGo, wsVars, laneVars
<1>6. CASE StatusSent(c)
  BY <1>6 DEF StatusSent, Return, Goto, InCallback, laneVars
<1>7. CASE Connection(c)
  <2>1. /\ UNCHANGED <<server, controlVars, laneVars>>
        /\ \A d \in Conns : at[d] \in {"none", "gone"} /\ server = "stopped"
             => at'[d] \in {"none", "gone"}
        /\ \A d \in Conns : cb[d] # "entry" => at'[d] = at[d]
    BY <1>7 DEF Connection, Handler, Open, BadHello, AcceptHello, RefuseHello, RejectConn, Bye,
       Audio, PeerCloses, CloseEvent, Receives, Goto
  <2> QED
    BY <2>1 DEF controlVars, laneVars
<1> QED
  BY <1>1, <1>2, <1>3, <1>4, <1>5, <1>6, <1>7 DEF Callback

LEMMA ControlStep ==
  ASSUME PipeInv, [Next]_vars PROVE ControlInv'
<1> USE DEF PipeInv, TypeOK, ControlInv, controlVars, laneVars, MainAt
<1>1. ASSUME NEW l \in Lanes, Worker(l) PROVE ControlInv'
  BY <1>1 DEF Worker, WorkerPop, WorkerFeed, WorkerThrow, WorkerEnd, wsVars
<1>2. CASE Heartbeat \/ HeartbeatSent \/ Stop
  BY <1>2 DEF Heartbeat, HeartbeatSent, Stop, wsVars
<1>3. CASE StopServer
  BY <1>3 DEF StopServer, StopBegin
<1>4. CASE ServerJoined
  BY <1>4 DEF ServerJoined, StopEnd
<1>5. ASSUME NEW l \in Lanes, CloseRing(l) PROVE ControlInv'
  BY <1>5 DEF CloseRing, wsVars
<1>6. CASE WorkersJoined
  BY <1>6 DEF WorkersJoined, wsVars
<1>7. CASE EngineStop
  BY <1>7 DEF EngineStop, wsVars
<1>8. CASE UNCHANGED vars
  BY <1>8 DEF vars, wsVars
<1> QED
  BY <1>1, <1>2, <1>3, <1>4, <1>5, <1>6, <1>7, <1>8, CallbackControl DEF Next, Main, StopStep

-----------------------------------------------------------------------------
LEMMA LaneStep ==
  ASSUME PipeInv, [Next]_vars PROVE LaneInv'
<1> USE PipeAssumption DEF PipeInv, TypeOK, LaneInv
<1>1. ASSUME NEW c \in Conns, NEW l \in Lanes, OnAudio(c, l) PROVE LaneInv'
  <2>1. PICK k \in known[l]..delivered[l] : Pushed(l, k)
    BY <1>1, PushView
  <2>2. k \in Nat /\ known[l] <= k /\ k <= delivered[l]
    OBVIOUS
  <2>3. closedRing = {}
    <3>1. at[c] = "onAudio"
      BY <1>1 DEF OnAudio
    <3>2. server # "stopped"
      BY <3>1 DEF ControlInv
    <3> QED
      BY <3>2 DEF ControlInv, WsTypeOK
  <2>4. UNCHANGED <<delivered, processed, closedRing, worker>>
    BY <1>1 DEF OnAudio
  <2> QED
    BY <2>1, <2>2, <2>3, <2>4 DEF Pushed
<1>2. ASSUME NEW l \in Lanes, WorkerPop(l) PROVE LaneInv'
  BY <1>2 DEF WorkerPop
<1>3. ASSUME NEW l \in Lanes, WorkerFeed(l) PROVE LaneInv'
  BY <1>3 DEF WorkerFeed
<1>4. ASSUME NEW l \in Lanes, WorkerThrow(l) PROVE LaneInv'
  BY <1>4 DEF WorkerThrow
<1>5. ASSUME NEW l \in Lanes, WorkerEnd(l) PROVE LaneInv'
  BY <1>5 DEF WorkerEnd
<1>6. ASSUME NEW l \in Lanes, CloseRing(l) PROVE LaneInv'
  BY <1>6 DEF CloseRing
<1>7. CASE UNCHANGED laneVars
  BY <1>7 DEF laneVars
<1>8. ASSUME NEW c \in Conns, Callback(c), \A l \in Lanes : ~OnAudio(c, l)
      PROVE  UNCHANGED laneVars
  BY <1>8 DEF Callback, OnHello, OnClientGone, StatusSkip, StatusGo, StatusSent
<1>9. ASSUME NEW c \in Conns, Connection(c) PROVE UNCHANGED laneVars
  BY <1>9 DEF Connection
<1>10. ASSUME Main, \A l \in Lanes : ~CloseRing(l) PROVE UNCHANGED laneVars
  BY <1>10 DEF Main, Heartbeat, HeartbeatSent, Stop, StopStep, StopServer, ServerJoined,
     WorkersJoined, EngineStop
<1> QED
  BY <1>1, <1>2, <1>3, <1>4, <1>5, <1>6, <1>7, <1>8, <1>9, <1>10 DEF Next, Worker, vars

LEMMA GhostStep ==
  ASSUME PipeInv, [Next]_vars PROVE GhostInv'
<1> USE DEF PipeInv, TypeOK, WsTypeOK, Position, GhostInv
<1>1. ASSUME NEW c \in Conns, OnHello(c) PROVE GhostInv'
  <2>1. activeId' = c /\ c # NoConn /\ rejected' = rejected
    BY <1>1, ConnAssumption DEF OnHello, wsVars, WsInv, SlotInv
  <2>2. readmitted' = {} => c \notin rejected
    BY <1>1 DEF OnHello
  <2> QED
    BY <2>1, <2>2
<1>2. ASSUME NEW c \in Conns, OnClientGone(c) PROVE GhostInv'
  BY <1>2 DEF OnClientGone
<1>3. ASSUME NEW c \in Conns, NEW l \in Lanes, OnAudio(c, l) PROVE GhostInv'
  BY <1>3 DEF OnAudio, Return, Goto, controlVars
<1>4. ASSUME NEW c \in Conns, StatusSkip(c) \/ StatusGo(c) \/ StatusSent(c) PROVE GhostInv'
  <2>1. /\ UNCHANGED <<connected, readmitted, activeId, rejected>>
        /\ cb[c] # "entry"
        /\ \A d \in Conns \ {c} : at'[d] = at[d] /\ cb'[d] = cb[d]
    BY <1>4 DEF StatusSkip, StatusGo, StatusSent, Return, Goto, wsVars
  <2> QED
    BY <2>1
<1>5. ASSUME NEW c \in Conns, Connection(c) PROVE GhostInv'
  <2>1. UNCHANGED <<connected, readmitted, cb>>
    BY <1>5 DEF Connection, controlVars
  <2>2. ASSUME NEW d \in Conns, at[d] = "onGone" PROVE at'[d] = "onGone"
    BY <1>5, <2>2 DEF Connection, Handler, Open, BadHello, AcceptHello, RefuseHello, RejectConn,
       Bye, Audio, PeerCloses, CloseEvent, Receives, Goto
  <2>3. CASE activeId' = NoConn /\ activeId # NoConn
    <3>1. CloseEvent(c) /\ activeId = c
      BY <1>5, <2>3, ConnAssumption DEF Connection, Handler, Open, BadHello, AcceptHello, RefuseHello,
         RejectConn, Bye, Audio, PeerCloses, CloseEvent
    <3>2. CASE c \in rejected
      BY <2>1, <2>2, <3>1, <3>2
    <3>3. CASE c \notin rejected
      <4>1. at'[c] = "onGone" /\ cb[c] = "entry"
        BY <3>1, <3>3 DEF CloseEvent, Goto, ControlInv
      <4> QED
        BY <2>1, <4>1
    <3> QED
      BY <3>2, <3>3
  <2>4. CASE ~(activeId' = NoConn /\ activeId # NoConn)
    <3>1. activeId \notin rejected /\ activeId # NoConn
            => activeId' \notin rejected' /\ activeId' # NoConn
      BY <1>5, <2>4, ConnAssumption DEF Connection, Handler, Open, BadHello, AcceptHello, RefuseHello,
         RejectConn, Bye, Audio, PeerCloses, CloseEvent, WsInv, SlotInv, RejectInv
    <3> QED
      BY <2>1, <2>2, <3>1
  <2> QED
    BY <2>3, <2>4
<1>6. ASSUME UNCHANGED <<connected, readmitted, cb, at, activeId, rejected>> PROVE GhostInv'
  BY <1>6
<1>7. ASSUME NEW l \in Lanes, Worker(l)
      PROVE  UNCHANGED <<connected, readmitted, cb, at, activeId, rejected>>
  BY <1>7 DEF Worker, WorkerPop, WorkerFeed, WorkerThrow, WorkerEnd, wsVars, controlVars
<1>8. CASE Main
  <2>1. UNCHANGED <<connected, readmitted, cb, at, activeId, rejected>>
    BY <1>8 DEF Main, Heartbeat, HeartbeatSent, Stop, StopStep, StopServer, ServerJoined,
       CloseRing, WorkersJoined, EngineStop, StopBegin, StopEnd, wsVars
  <2> QED
    BY <2>1, <1>6
<1>9. CASE UNCHANGED vars
  BY <1>9 DEF vars, wsVars, controlVars
<1> QED
  BY <1>1, <1>2, <1>3, <1>4, <1>5, <1>6, <1>7, <1>8, <1>9 DEF Next, Callback

LEMMA PipeInvStep == PipeInv /\ [Next]_vars => PipeInv'
<1>1. WsInv /\ [Next]_vars => WsInv'
  BY ServerStep, WsInvStep
<1> QED
  BY <1>1, PipeTypeStep, ControlStep, LaneStep, GhostStep DEF PipeInv

-----------------------------------------------------------------------------
(* Theorems.                                                               *)

\* The invariant holds in every reachable state.
THEOREM PipeInvariant == Spec => []PipeInv
BY PipeInitInv, PipeInvStep, PTL DEF Spec

\* Every variable keeps its type.
THEOREM PipeTypeCorrect == Spec => []TypeOK
<1>1. PipeInv => TypeOK
  BY DEF PipeInv
<1> QED
  BY <1>1, PipeInvariant, PTL

\* Nobody broadcasts through a server that stop() has reset.
THEOREM BroadcastSafe == Spec => []NoBroadcastAfterReset
<1>1. PipeInv => NoBroadcastAfterReset
  BY DEF PipeInv, TypeOK, WsTypeOK, MainAt, ControlInv, NoBroadcastAfterReset
<1> QED
  BY <1>1, PipeInvariant, PTL

\* No worker is inside feed() when the engine is stopped.
THEOREM EngineSafe == Spec => []EngineOutlivesWorkers
<1>1. PipeInv => EngineOutlivesWorkers
  BY DEF PipeInv, TypeOK, MainAt, ControlInv, EngineOutlivesWorkers
<1> QED
  BY <1>1, PipeInvariant, PTL

\* The rings are closed when no connection thread can push any more: what
\* the ring's own proof assumes of its producer.
THEOREM RingsClosedLast == Spec => []ClosedAfterProducers
<1>1. PipeInv => ClosedAfterProducers
  BY DEF PipeInv, TypeOK, MainAt, WsTypeOK, ControlInv, ClosedAfterProducers
<1> QED
  BY <1>1, PipeInvariant, PTL

\* Every accepted frame of a live lane has been fed when stop() returns.
THEOREM NothingLostAtStop == Spec => []DrainedAtStop
<1>1. PipeInv => DrainedAtStop
  BY DEF PipeInv, TypeOK, LaneInv, DrainedAtStop
<1> QED
  BY <1>1, PipeInvariant, PTL

\* connected_ is never left true without a client, but by one that was
\* refused before it was let in.
THEOREM NoGhost == Spec => []NoGhostClient
<1>1. PipeInv => NoGhostClient
  BY DEF PipeInv, GhostInv, NoGhostClient, InCallback
<1> QED
  BY <1>1, PipeInvariant, PTL

-----------------------------------------------------------------------------
(* Each lane is a bounded channel: the pipeline's side of the refinement    *)
(* that the ring's own proof completes.                                     *)

LEMMA LaneInitial ==
  ASSUME Init, NEW l \in Lanes PROVE Lane(l)!Init
BY DEF Init, Lane!Init

\* A push that has learnt of k pops: accepted, or refused because they leave
\* the ring full.
LEMMA PushIsOffer ==
  ASSUME PipeInv, NEW l \in Lanes, NEW k \in known[l]..delivered[l], Pushed(l, k),
         l \notin closedRing, UNCHANGED <<delivered, closedRing, worker>>
  PROVE  Lane(l)!Next
<1> USE PipeAssumption DEF PipeInv, TypeOK
<1>1. k \in Nat /\ known'[l] = k /\ accepted[l] - k <= Capacity
  BY DEF Pushed, LaneInv
<1>2. CASE accepted[l] - k = Capacity
  <2>1. accepted'[l] = accepted[l]
    BY <1>2 DEF Pushed
  <2>2. refused'[l] = TRUE
    BY <1>2, Zenon DEF Pushed
  <2>3. Lane(l)!Refuse
    BY <1>1, <1>2, <2>1, <2>2 DEF Lane!Refuse
  <2> QED
    BY <2>3 DEF Lane!Next
<1>3. CASE accepted[l] - k # Capacity
  <2>1. accepted'[l] = accepted[l] + 1 /\ accepted[l] - k < Capacity
    BY <1>1, <1>3 DEF Pushed
  <2>2. refused'[l] = FALSE
    BY <1>3, Zenon DEF Pushed
  <2>3. Lane(l)!Accept
    BY <1>1, <2>1, <2>2 DEF Lane!Accept
  <2> QED
    BY <2>3 DEF Lane!Next
<1> QED
  BY <1>2, <1>3

\* A step of the pipeline is a step of each lane's channel or leaves it alone.
LEMMA LaneIsChannel ==
  ASSUME PipeInv, [Next]_vars, NEW m \in Lanes
  PROVE  Lane(m)!Next \/ UNCHANGED Lane(m)!chanVars
<1> USE DEF Lane!chanVars, PipeInv, TypeOK
<1>1. ASSUME NEW c \in Conns, NEW l \in Lanes, OnAudio(c, l)
      PROVE  Lane(m)!Next \/ UNCHANGED Lane(m)!chanVars
  <2>1. PICK k \in known[l]..delivered[l] : Pushed(l, k)
    BY <1>1, PushView
  <2>2. closedRing = {}
    <3>1. server # "stopped"
      BY <1>1 DEF OnAudio, ControlInv
    <3> QED
      BY <3>1 DEF ControlInv, WsTypeOK
  <2>3. UNCHANGED <<delivered, closedRing, worker>>
    BY <1>1 DEF OnAudio
  <2>4. CASE m = l
    BY <2>1, <2>2, <2>3, <2>4, PushIsOffer
  <2>5. CASE m # l
    <3>1. accepted'[m] = accepted[m] /\ known'[m] = known[m] /\ refused'[m] = refused[m]
      BY <2>1, <2>5 DEF Pushed
    <3> QED
      BY <2>3, <3>1
  <2> QED
    BY <2>4, <2>5
<1>2. ASSUME NEW l \in Lanes, WorkerPop(l)
      PROVE  Lane(m)!Next \/ UNCHANGED Lane(m)!chanVars
  <2>1. /\ UNCHANGED <<accepted, known, refused, closedRing>>
        /\ worker'[m] = "done" <=> worker[m] = "done"
    BY <1>2 DEF WorkerPop
  <2>2. CASE m = l
    <3>1. /\ worker[m] # "done" /\ delivered[m] < accepted[m]
          /\ delivered'[m] = delivered[m] + 1
      BY <1>2, <2>2 DEF WorkerPop
    <3>2. Lane(m)!Deliver
      BY <2>1, <3>1 DEF Lane!Deliver
    <3> QED
      BY <3>2 DEF Lane!Next
  <2>3. CASE m # l
    BY <1>2, <2>1, <2>3 DEF WorkerPop
  <2> QED
    BY <2>2, <2>3
<1>3. ASSUME NEW l \in Lanes, WorkerFeed(l) \/ WorkerThrow(l)
      PROVE  UNCHANGED Lane(m)!chanVars
  <2>1. UNCHANGED <<accepted, known, refused, delivered, closedRing>>
    BY <1>3 DEF WorkerFeed, WorkerThrow
  <2>2. worker'[m] = "done" <=> worker[m] = "done"
    BY <1>3 DEF WorkerFeed, WorkerThrow
  <2> QED
    BY <2>1, <2>2
<1>4. ASSUME NEW l \in Lanes, WorkerEnd(l)
      PROVE  Lane(m)!Next \/ UNCHANGED Lane(m)!chanVars
  <2>1. UNCHANGED <<accepted, known, refused, delivered, closedRing>>
    BY <1>4 DEF WorkerEnd
  <2>2. CASE m = l
    <3>1. m \in closedRing /\ delivered[m] = accepted[m] /\ worker'[m] = "done"
      BY <1>4, <2>2 DEF WorkerEnd
    <3>2. Lane(m)!End
      BY <2>1, <3>1 DEF Lane!End
    <3> QED
      BY <3>2 DEF Lane!Next
  <2>3. CASE m # l
    BY <1>4, <2>1, <2>3 DEF WorkerEnd
  <2> QED
    BY <2>2, <2>3
<1>5. ASSUME NEW l \in Lanes, CloseRing(l)
      PROVE  Lane(m)!Next \/ UNCHANGED Lane(m)!chanVars
  <2>1. /\ UNCHANGED <<accepted, known, refused, delivered, worker>>
        /\ closedRing' = closedRing \cup {l}
    BY <1>5 DEF CloseRing
  <2>2. CASE m = l
    <3>1. Lane(m)!Close
      BY <2>1, <2>2 DEF Lane!Close
    <3> QED
      BY <3>1 DEF Lane!Next
  <2>3. CASE m # l
    BY <2>1, <2>3
  <2> QED
    BY <2>2, <2>3
<1>6. ASSUME UNCHANGED laneVars PROVE UNCHANGED Lane(m)!chanVars
  BY <1>6 DEF laneVars
<1>7. ASSUME NEW c \in Conns, Callback(c), \A l \in Lanes : ~OnAudio(c, l)
      PROVE  UNCHANGED laneVars
  BY <1>7 DEF Callback, OnHello, OnClientGone, StatusSkip, StatusGo, StatusSent
<1>8. ASSUME NEW c \in Conns, Connection(c) PROVE UNCHANGED laneVars
  BY <1>8 DEF Connection
<1>9. ASSUME Main, \A l \in Lanes : ~CloseRing(l) PROVE UNCHANGED laneVars
  BY <1>9 DEF Main, Heartbeat, HeartbeatSent, Stop, StopStep, StopServer, ServerJoined,
     WorkersJoined, EngineStop
<1> QED
  BY <1>1, <1>2, <1>3, <1>4, <1>5, <1>6, <1>7, <1>8, <1>9 DEF Next, Worker, vars

\* Each lane of the pipeline keeps the promises of the bounded channel, in the
\* composition with the server, its callbacks and stop(), and however a worker
\* ends.
THEOREM LanesRefine == Spec => LanesAreChannels
<1>1. Init => \A l \in Lanes : Lane(l)!Init
  BY LaneInitial
<1>2. PipeInv /\ [Next]_vars => [\A l \in Lanes : Lane(l)!Next \/ UNCHANGED Lane(l)!chanVars]_vars
  BY LaneIsChannel
<1> QED
  BY <1>1, <1>2, PipeInvariant, PTL DEF Spec, LanesAreChannels
=============================================================================
