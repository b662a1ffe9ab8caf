------------------------------ MODULE Session ------------------------------
(***************************************************************************)
(* The server with the extension's reconnect loop as one of its clients:   *)
(* connectWs() and its handlers, start and stop of a capture, engine swaps *)
(* that replace the server (a Pipeline is stopped and a new one started),  *)
(* and foreign clients that do as they like.                               *)
(*                                                                         *)
(* One capture has one socket or one retry timer: a stop closes the        *)
(* document and with it its sockets and timers (module Extension).  The    *)
(* messages of a connection arrive in order, before its close; a dropped   *)
(* connection loses them.  The name of a connection is reused once both    *)
(* sides have forgotten it.                                                *)
(***************************************************************************)
EXTENDS WsServer

CONSTANTS Mine,          \* connections of the extension; the others are foreign
          MaxDrops,      \* bound on connections dropped or refused by the network
          MaxRestarts    \* bound on replaced servers

ASSUME SessionAssumption == Mine \subseteq Conns /\ MaxDrops \in Nat /\ MaxRestarts \in Nat

VARIABLES
  active,     \* a capture is on
  ws,         \* its socket; NoConn between connections
  opened,     \* whether that socket is open
  timer,      \* whether a retry is scheduled
  hellos,     \* connections with a hello on its way
  byes,       \* connections with a bye on its way
  drops, restarts

clientVars == <<active, ws, opened, timer, hellos, byes>>
sessionVars == <<wsVars, clientVars, drops, restarts>>

SessionTypeOK ==
  /\ WsTypeOK
  /\ active \in BOOLEAN /\ opened \in BOOLEAN /\ timer \in BOOLEAN
  /\ ws \in Mine \cup {NoConn}
  /\ hellos \subseteq Mine /\ byes \subseteq Mine
  /\ drops \in 0 .. MaxDrops /\ restarts \in 0 .. MaxRestarts

SessionInit ==
  /\ WsInit
  /\ active = FALSE /\ ws = NoConn /\ opened = FALSE /\ timer = FALSE
  /\ hellos = {} /\ byes = {} /\ drops = 0 /\ restarts = 0

InFlight(c) == c \in hellos \cup byes

-----------------------------------------------------------------------------
Connect == \E c \in Mine : at[c] = "none" /\ ws' = c /\ opened' = FALSE

StartCapture ==
  /\ ~active /\ active' = TRUE
  /\ Connect
  /\ UNCHANGED <<wsVars, timer, hellos, byes, drops, restarts>>

\* The connection is established: the server's Open, and onopen's hello.
Established ==
  /\ ws # NoConn /\ ~opened /\ Open(ws)
  /\ opened' = TRUE /\ hellos' = hellos \cup {ws}
  /\ UNCHANGED <<active, ws, timer, byes, drops, restarts>>

HelloArrives(c) ==
  /\ c \in hellos /\ hellos' = hellos \ {c}
  /\ AcceptHello(c) \/ RefuseHello(c)
  /\ UNCHANGED <<active, ws, opened, timer, byes, drops, restarts>>

\* Mutant: a connection the server closes is taken for the end.
OnClose_NoRetry ==
  ws' = NoConn /\ opened' = FALSE /\ timer' = FALSE /\ UNCHANGED active

\* onclose schedules the next connectWs().
OnClose ==
  ws' = NoConn /\ opened' = FALSE /\ timer' = active /\ UNCHANGED active

\* Nobody listens (a server is being replaced), or the network fails.
NotEstablished ==
  /\ ws # NoConn /\ ~opened
  /\ IF server = "up" THEN drops < MaxDrops /\ drops' = drops + 1 ELSE UNCHANGED drops
  /\ OnClose
  /\ UNCHANGED <<wsVars, hellos, byes, restarts>>

\* The server's close of the current connection is answered, or the network
\* drops it.
Disconnected ==
  /\ ws # NoConn /\ opened /\ PeerCloses(ws)
  /\ IF MustEnd(ws) THEN UNCHANGED drops ELSE drops < MaxDrops /\ drops' = drops + 1
  /\ OnClose
  /\ hellos' = hellos \ {ws} /\ byes' = byes \ {ws}
  /\ UNCHANGED restarts

TimerFires ==
  /\ timer /\ timer' = FALSE /\ Connect
  /\ UNCHANGED <<wsVars, active, hellos, byes, drops, restarts>>

\* bye, then close().
StopCapture ==
  /\ active /\ active' = FALSE /\ timer' = FALSE
  /\ byes' = IF opened THEN byes \cup {ws} ELSE byes
  /\ ws' = NoConn /\ opened' = FALSE
  /\ UNCHANGED <<wsVars, hellos, drops, restarts>>

ByeArrives(c) ==
  /\ c \in byes \ hellos /\ Bye(c) /\ byes' = byes \ {c}
  /\ UNCHANGED <<active, ws, opened, timer, hellos, drops, restarts>>

\* The close of a socket the extension has given up.
OldSocketCloses(c) ==
  /\ c \in Mine \ {ws} /\ ~InFlight(c) /\ PeerCloses(c)
  /\ UNCHANGED <<clientVars, drops, restarts>>

\* Both sides are done with a connection: its name is free again.
Forget(c) ==
  /\ at[c] = "gone"
  /\ Goto(c, "none")
  /\ closing' = closing \ {c} /\ lost' = lost \ {c}
  /\ hellos' = hellos \ {c} /\ byes' = byes \ {c}
  /\ UNCHANGED <<helloSeen, activeId, rejected, server>>
  /\ UNCHANGED <<active, ws, opened, timer, drops, restarts>>

\* A message to a thread that only has its Close left is never delivered.
MessageLost(c) ==
  /\ InFlight(c) /\ c \in lost \cup closing
  /\ hellos' = hellos \ {c} /\ byes' = byes \ {c}
  /\ UNCHANGED <<wsVars, active, ws, opened, timer, drops, restarts>>

-----------------------------------------------------------------------------
\* The swap's new Pipeline brings a new server; what the old one knew is gone.
Restart ==
  /\ server = "stopped" /\ restarts < MaxRestarts /\ restarts' = restarts + 1
  /\ at' = [c \in Conns |-> "none"]
  /\ helloSeen' = [c \in Conns |-> "absent"] /\ activeId' = NoConn
  /\ rejected' = {} /\ closing' = {} /\ lost' = {} /\ server' = "up"
  /\ hellos' = {} /\ byes' = {}
  /\ UNCHANGED <<active, ws, opened, timer, drops>>

ServerRuns(c) ==
  /\ RejectConn(c) \/ CloseEvent(c) \/ Return(c)
  /\ UNCHANGED <<clientVars, drops, restarts>>

FrameArrives(c) ==
  /\ c \in Mine /\ Audio(c)
  /\ UNCHANGED <<clientVars, drops, restarts>>

Foreign(c) ==
  /\ c \in Conns \ Mine
  /\ Open(c) \/ BadHello(c) \/ AcceptHello(c) \/ RefuseHello(c) \/ Bye(c) \/ Audio(c) \/ PeerCloses(c)
  /\ UNCHANGED <<clientVars, drops, restarts>>

ServerStops ==
  /\ (restarts < MaxRestarts /\ StopBegin) \/ StopEnd
  /\ UNCHANGED <<clientVars, drops, restarts>>

SessionNext ==
  \/ StartCapture \/ Established \/ NotEstablished \/ Disconnected \/ TimerFires \/ StopCapture
  \/ \E c \in Conns : HelloArrives(c) \/ ByeArrives(c) \/ OldSocketCloses(c) \/ MessageLost(c)
                        \/ Forget(c) \/ ServerRuns(c) \/ FrameArrives(c) \/ Foreign(c)
  \/ ServerStops \/ Restart

\* Threads run and messages arrive; a swap brings its new server; what one side
\* has closed, the other answers.  Nobody has to start, stop or leave.
SessionFairness ==
  /\ WF_sessionVars(Established \/ NotEstablished) /\ WF_sessionVars(TimerFires)
  /\ WF_sessionVars(MustEnd(ws) /\ Disconnected)
  /\ WF_sessionVars(ServerStops /\ StopEnd) /\ WF_sessionVars(Restart)
  /\ \A c \in Conns :
       /\ WF_sessionVars(HelloArrives(c)) /\ SF_sessionVars(ByeArrives(c))
       /\ WF_sessionVars(OldSocketCloses(c)) /\ WF_sessionVars(Forget(c))
       /\ WF_sessionVars(ServerRuns(c))
       /\ WF_sessionVars(MustEnd(c) /\ Foreign(c) /\ PeerCloses(c))

SessionSpec == SessionInit /\ [][SessionNext]_sessionVars /\ SessionFairness

-----------------------------------------------------------------------------
\* A connection of the extension that was refused never comes to hold the
\* slot: its one hello has been used.  So its slot is never released silently.
RefusedStaysOut == \A c \in rejected \cap Mine : activeId # c /\ helloSeen[c] # "yes"

\* README "the extension reconnects": an active capture comes to hold the
\* server's slot, also right after a stop (its old connection still holds it:
\* bye does not free the slot), after a refusal, a dropped connection, or an
\* engine swap that replaced the server; unless a foreign client got in first.
CaptureGetsSlot ==
  active ~> ~active \/ (ws # NoConn /\ activeId = ws) \/ activeId \in Conns \ Mine
=============================================================================
