------------------------------ MODULE WsServer ------------------------------
(***************************************************************************)
(* The WebSocket endpoint: one thread per connection runs the callback the *)
(* server installed, and helloMu_ guards the hello bookkeeping but not the *)
(* callbacks into Pipeline, which run after it is unlocked.  at[c] says    *)
(* where the thread of connection c is: a critical section is one step, a  *)
(* callback is an interval other threads can run in.                       *)
(*                                                                         *)
(* A connection is a model value used once, as the library's ids are.      *)
(* External, from how the code uses the library: the messages and the      *)
(* Close event of a connection are delivered one at a time by its thread,  *)
(* Close last; server_->stop() closes every connection and joins its       *)
(* thread.  A close() from this side is no more than a request: messages    *)
(* already on their way, a second hello among them, are still delivered.   *)
(***************************************************************************)
EXTENDS Integers, FiniteSets

CONSTANTS Conns,           \* connections
          NoConn           \* activeId_ when it is empty

ASSUME ConnAssumption == NoConn \notin Conns

VARIABLES
  at,          \* where each connection's thread is
  helloSeen,   \* helloSeen_: "absent" is no entry, "no" false, "yes" true
  activeId,    \* activeId_
  rejected,    \* rejected_
  closing,     \* connections the server has called ws.close() on
  lost,        \* connections with nothing left to deliver but Close
  server       \* up, being stopped, stopped

wsVars == <<at, helloSeen, activeId, rejected, closing, lost, server>>

Position == {"none", "idle", "onHello", "refuse", "onAudio", "onBye", "onGone", "gone"}
InCallback == {"onHello", "onAudio", "onBye", "onGone"}

WsTypeOK ==
  /\ at \in [Conns -> Position]
  /\ helloSeen \in [Conns -> {"absent", "no", "yes"}]
  /\ activeId \in Conns \cup {NoConn}
  /\ rejected \subseteq Conns /\ closing \subseteq Conns /\ lost \subseteq Conns
  /\ server \in {"up", "stopping", "stopped"}

WsInit ==
  /\ at = [c \in Conns |-> "none"]
  /\ helloSeen = [c \in Conns |-> "absent"]
  /\ activeId = NoConn
  /\ rejected = {} /\ closing = {} /\ lost = {}
  /\ server = "up"

Goto(c, p) == at' = [at EXCEPT ![c] = p]

\* A message of c is delivered: its thread is free and its peer not gone.
Receives(c) == at[c] = "idle" /\ c \notin lost

-----------------------------------------------------------------------------
Open(c) ==
  /\ at[c] = "none" /\ server = "up"
  /\ Goto(c, "idle")
  /\ helloSeen' = [helloSeen EXCEPT ![c] = "no"]
  /\ UNCHANGED <<activeId, rejected, closing, lost, server>>

\* hello of another version, sample rate or format.
BadHello(c) ==
  /\ Receives(c)
  /\ closing' = closing \cup {c}
  /\ UNCHANGED <<at, helloSeen, activeId, rejected, lost, server>>

\* Mutant: the slot is not looked at.
AcceptHello_Any(c) ==
  /\ Receives(c)
  /\ activeId' = c
  /\ helloSeen' = [helloSeen EXCEPT ![c] = "yes"]
  /\ Goto(c, "onHello")
  /\ UNCHANGED <<rejected, closing, lost, server>>

\* A valid hello: the single-client decision, under the lock.
AcceptHello(c) ==
  /\ Receives(c)
  /\ activeId \in {NoConn, c}
  /\ activeId' = c
  /\ helloSeen' = [helloSeen EXCEPT ![c] = "yes"]
  /\ Goto(c, "onHello")
  /\ UNCHANGED <<rejected, closing, lost, server>>

RefuseHello(c) ==
  /\ Receives(c)
  /\ activeId \notin {NoConn, c}
  /\ Goto(c, "refuse")
  /\ UNCHANGED <<helloSeen, activeId, rejected, closing, lost, server>>

\* The error has been sent: remember the refusal, close the connection.
RejectConn(c) ==
  /\ at[c] = "refuse"
  /\ rejected' = rejected \cup {c}
  /\ closing' = closing \cup {c}
  /\ Goto(c, "idle")
  /\ UNCHANGED <<helloSeen, activeId, lost, server>>

Bye(c) ==
  /\ Receives(c)
  /\ Goto(c, "onBye")
  /\ UNCHANGED <<helloSeen, activeId, rejected, closing, lost, server>>

\* A binary frame: the check under the lock, then onAudio without it.
\* Frames before hello, and frames that do not parse, leave no trace.
Audio(c) ==
  /\ Receives(c)
  /\ helloSeen[c] = "yes"
  /\ Goto(c, "onAudio")
  /\ UNCHANGED <<helloSeen, activeId, rejected, closing, lost, server>>

\* The connection's end of stream, by the peer's choice or in answer to a
\* close from this side.
PeerCloses(c) ==
  /\ at[c] \notin {"none", "gone"} /\ c \notin lost
  /\ lost' = lost \cup {c}
  /\ UNCHANGED <<at, helloSeen, activeId, rejected, closing, server>>

\* Mutant: every connection the server closed is silenced, not only those
\* it refused.
CloseEvent_Silent(c) ==
  /\ at[c] = "idle" /\ c \in lost
  /\ helloSeen' = [helloSeen EXCEPT ![c] = "absent"]
  /\ activeId' = IF activeId = c THEN NoConn ELSE activeId
  /\ rejected' = rejected \ {c}
  /\ Goto(c, IF c \in closing THEN "gone" ELSE "onGone")
  /\ UNCHANGED <<closing, lost, server>>

CloseEvent(c) ==
  /\ at[c] = "idle" /\ c \in lost
  /\ helloSeen' = [helloSeen EXCEPT ![c] = "absent"]
  /\ activeId' = IF activeId = c THEN NoConn ELSE activeId
  /\ rejected' = rejected \ {c}
  /\ Goto(c, IF c \in rejected THEN "gone" ELSE "onGone")
  /\ UNCHANGED <<closing, lost, server>>

\* The callback into Pipeline returns.
Return(c) ==
  /\ at[c] \in InCallback
  /\ Goto(c, IF at[c] = "onGone" THEN "gone" ELSE "idle")
  /\ UNCHANGED <<helloSeen, activeId, rejected, closing, lost, server>>

\* stop(): server_->stop() turns new connections away and closes the rest...
StopBegin ==
  /\ server = "up"
  /\ server' = "stopping"
  /\ UNCHANGED <<at, helloSeen, activeId, rejected, closing, lost>>

\* Mutant: stop() does not wait for the connection threads.
StopEnd_NoJoin ==
  /\ server = "stopping"
  /\ server' = "stopped"
  /\ helloSeen' = [c \in Conns |-> "absent"]
  /\ UNCHANGED <<at, activeId, rejected, closing, lost>>

\* ...and returns once every connection thread is joined.
StopEnd ==
  /\ server = "stopping"
  /\ \A c \in Conns : at[c] \in {"none", "gone"}
  /\ server' = "stopped"
  /\ helloSeen' = [c \in Conns |-> "absent"]
  /\ UNCHANGED <<at, activeId, rejected, closing, lost>>

\* Steps of a connection's thread outside the callbacks.
Handler(c) ==
  \/ Open(c) \/ BadHello(c) \/ AcceptHello(c) \/ RefuseHello(c) \/ RejectConn(c)
  \/ Bye(c) \/ Audio(c) \/ CloseEvent(c)

WsNext ==
  \/ \E c \in Conns : Handler(c) \/ PeerCloses(c) \/ Return(c)
  \/ StopBegin \/ StopEnd

\* A connection closed from this side, or by stop(), is answered by its peer.
MustEnd(c) == c \in closing \/ server = "stopping"

WsSpec == WsInit /\ [][WsNext]_wsVars

-----------------------------------------------------------------------------
(* Properties                                                              *)

\* "The AudioFrame rings downstream require a single producer per stream":
\* at most one connection thread is ever between its hello check and the end
\* of onAudio, although the lock is released in between.
SingleProducer ==
  \A c, d \in Conns : at[c] = "onAudio" /\ at[d] = "onAudio" => c = d

\* The check made under the lock is still true when the frame is handed on:
\* no frame of a client that has lost, or never had, the active slot.
AudioFromActive == \A c \in Conns : at[c] = "onAudio" => activeId = c

\* The slot is given up only through the end of its holder, never by a
\* takeover, and Pipeline hears of it; but for a holder that was refused and
\* let in by a second hello, whose end rejected_ still silences.
SlotReleasedLoudly ==
  [][\A c \in Conns : activeId = c /\ activeId' # c =>
       activeId' = NoConn /\ (c \notin rejected => at'[c] = "onGone")]_wsVars
=============================================================================
