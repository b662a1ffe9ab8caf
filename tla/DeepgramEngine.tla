--------------------------- MODULE DeepgramEngine ---------------------------
(***************************************************************************)
(* The cloud engine (stt/deepgram_engine.cpp): a connection per lane whose *)
(* library thread runs the message callback and reconnects by itself, the  *)
(* KeepAlive thread, the feeding threads, and stop(), all reporting to the *)
(* transcript.                                                             *)
(*                                                                         *)
(* Time and audio are counted in units: clock is the wall clock (nowMs), a *)
(* lane is fed at most a unit of audio per unit of time.  sent[l][i] is    *)
(* when unit i of the current connection was fed, and the text of a result *)
(* is the time its words were spoken, plus one: the transcript then shows  *)
(* whether its lines stand in the order they were spoken in.               *)
(*                                                                         *)
(* External, from how the code uses the service: a result names the offset *)
(* of its first unit in the audio of its connection; results come in the   *)
(* order of the audio; messages of a connection come before its Close, one *)
(* at a time, and none after ws->stop() has returned.                      *)
(***************************************************************************)
EXTENDS TranscriptModel

CONSTANT MaxClock     \* bound on the wall clock
ASSUME ClockAssumption == MaxClock \in Nat

VARIABLES
  phase,       \* new, up, stopping (flag set), closing (KeepAlive joined), stopped
  clock,
  conn,        \* ws_[l]: none, connecting, open
  epoch,       \* connectionEpochMs_
  failed,      \* connectionError_ is not empty: runtimeError() returns it
  sent,        \* the audio of the connection, as the times it was fed
  done,        \* units of it that have their final
  lastFed,     \* when a lane was last fed
  keepAlive,   \* the thread: off, check, sleep, send, ended
  toSend       \* ws_ slots the KeepAlive in progress has still to visit

laneVars == <<conn, epoch, failed, sent, done, lastFed>>
dgVars == <<tmVars, phase, clock, laneVars, keepAlive, toSend>>

DgTypeOK ==
  /\ TmTypeOK
  /\ phase \in {"new", "up", "stopping", "closing", "stopped"} /\ clock \in 0 .. MaxClock
  /\ conn \in [Lanes -> {"none", "connecting", "open"}]
  /\ epoch \in [Lanes -> 0 .. MaxClock] /\ failed \in [Lanes -> BOOLEAN]
  /\ sent \in [Lanes -> Seq(0 .. MaxClock)] /\ done \in [Lanes -> Nat]
  /\ lastFed \in [Lanes -> -1 .. MaxClock]
  /\ keepAlive \in {"off", "check", "sleep", "send", "ended"} /\ toSend \subseteq Lanes

DgInit ==
  /\ TmInit
  /\ phase = "new" /\ clock = 0
  /\ conn = [l \in Lanes |-> "none"] /\ epoch = [l \in Lanes |-> 0]
  /\ failed = [l \in Lanes |-> FALSE]
  /\ sent = [l \in Lanes |-> <<>>] /\ done = [l \in Lanes |-> 0]
  /\ lastFed = [l \in Lanes |-> -1]
  /\ keepAlive = "off" /\ toSend = {}

-----------------------------------------------------------------------------
\* start() with a key (without one it returns false before doing anything).
Start ==
  /\ phase = "new" /\ phase' = "up"
  /\ conn' = [l \in Lanes |-> "connecting"]
  /\ keepAlive' = "check"
  /\ UNCHANGED <<tmVars, clock, epoch, failed, sent, done, lastFed, toSend>>

\* Mutant: the anchor is that of start(), also after a reconnection.
ConnOpens_StartEpoch(l) ==
  /\ conn[l] = "connecting" /\ conn' = [conn EXCEPT ![l] = "open"]
  /\ failed' = [failed EXCEPT ![l] = FALSE]
  /\ UNCHANGED <<tmVars, phase, clock, epoch, sent, done, lastFed, keepAlive, toSend>>

ConnOpens(l) ==
  /\ conn[l] = "connecting" /\ conn' = [conn EXCEPT ![l] = "open"]
  /\ epoch' = [epoch EXCEPT ![l] = clock]
  /\ failed' = [failed EXCEPT ![l] = FALSE]
  /\ UNCHANGED <<tmVars, phase, clock, sent, done, lastFed, keepAlive, toSend>>

ConnFails(l) ==
  /\ conn[l] = "connecting"
  /\ failed' = [failed EXCEPT ![l] = TRUE]
  /\ UNCHANGED <<tmVars, phase, clock, conn, epoch, sent, done, lastFed, keepAlive, toSend>>

\* Close only logs; the library reconnects, to an audio stream that is empty.
ConnCloses(l) ==
  /\ conn[l] = "open" /\ conn' = [conn EXCEPT ![l] = "connecting"]
  /\ sent' = [sent EXCEPT ![l] = <<>>] /\ done' = [done EXCEPT ![l] = 0]
  /\ UNCHANGED <<tmVars, phase, clock, epoch, failed, lastFed, keepAlive, toSend>>

\* parseDeepgramMessage: the connection's epoch plus the result's "start".
ResultTs(l, i) == epoch[l] + (i - 1)

Result(l, i) ==
  /\ conn[l] = "open" /\ i \in done[l] + 1 .. Len(sent[l])
  /\ \/ /\ ApplyInterim(l, sent[l][i] + 1, ResultTs(l, i)) /\ UNCHANGED done
     \/ /\ Len(arrived) < MaxFinals
        /\ ApplyFinal(l, sent[l][i] + 1, ResultTs(l, i)) /\ done' = [done EXCEPT ![l] = i]
  /\ UNCHANGED <<frame, phase, clock, conn, epoch, failed, sent, lastFed, keepAlive, toSend>>

\* feed(): what is sent on a connection that is not open is lost.
Feed(l) ==
  /\ phase = "up" /\ lastFed[l] < clock
  /\ lastFed' = [lastFed EXCEPT ![l] = clock]
  /\ sent' = IF conn[l] = "open" THEN [sent EXCEPT ![l] = Append(@, clock)] ELSE sent
  /\ UNCHANGED <<tmVars, phase, clock, conn, epoch, failed, done, keepAlive, toSend>>

Tick == clock < MaxClock /\ clock' = clock + 1
          /\ UNCHANGED <<tmVars, phase, laneVars, keepAlive, toSend>>

-----------------------------------------------------------------------------
(* The KeepAlive thread; the slices and the interval are any number.       *)
KaCheck ==
  /\ keepAlive = "check"
  /\ keepAlive' = IF phase = "up" THEN "sleep" ELSE "ended"
  /\ UNCHANGED <<tmVars, phase, clock, laneVars, toSend>>

KaSleep ==
  /\ keepAlive = "sleep"
  /\ \/ keepAlive' = "check" /\ UNCHANGED toSend
     \/ keepAlive' = "send" /\ toSend' = Lanes
  /\ UNCHANGED <<tmVars, phase, clock, laneVars>>

KaSend ==
  /\ keepAlive = "send"
  /\ \E l \in toSend : toSend' = toSend \ {l}
  /\ keepAlive' = IF toSend' = {} THEN "check" ELSE "send"
  /\ UNCHANGED <<tmVars, phase, clock, laneVars>>

-----------------------------------------------------------------------------
StopBegin ==
  /\ phase = "up" /\ phase' = "stopping"
  /\ UNCHANGED <<tmVars, clock, laneVars, keepAlive, toSend>>

\* Mutant: the sockets are torn down while the thread may still send.
StopJoin_Detached ==
  /\ phase = "stopping" /\ phase' = "closing"
  /\ UNCHANGED <<tmVars, clock, laneVars, keepAlive, toSend>>

StopJoin ==
  /\ phase = "stopping" /\ keepAlive = "ended" /\ phase' = "closing"
  /\ UNCHANGED <<tmVars, clock, laneVars, keepAlive, toSend>>

\* CloseStream, ws->stop() (which joins the callback's thread), reset().
StopLane(l) ==
  /\ phase = "closing" /\ conn[l] # "none"
  /\ conn' = [conn EXCEPT ![l] = "none"]
  /\ UNCHANGED <<tmVars, phase, clock, epoch, failed, sent, done, lastFed, keepAlive, toSend>>

StopEnd ==
  /\ phase = "closing" /\ \A l \in Lanes : conn[l] = "none"
  /\ phase' = "stopped"
  /\ UNCHANGED <<tmVars, clock, laneVars, keepAlive, toSend>>

KeepAlive == KaCheck \/ KaSleep \/ KaSend
StopStep == StopJoin \/ (\E l \in Lanes : StopLane(l)) \/ StopEnd

DgNext ==
  \/ Start \/ StopBegin \/ StopStep \/ KeepAlive \/ Tick
  \/ \E l \in Lanes :
       ConnOpens(l) \/ ConnFails(l) \/ ConnCloses(l) \/ Feed(l) \/ \E i \in 1 .. MaxClock + 1 : Result(l, i)

DgSpec == DgInit /\ [][DgNext]_dgVars

-----------------------------------------------------------------------------
\* deepgram_engine.h:20-23, 68-73 (connectionEpochMs_ plus "start"): the finals
\* of a lane stand in the order their words were spoken in, whatever
\* connections they came through, and none is stamped later than it was
\* spoken, however long the capture pauses or the connection is down.
LaneInSpokenOrder ==
  \A i \in DOMAIN finals :
    /\ finals[i].ts < finals[i].text
    /\ \A j \in 1 .. i - 1 :
         finals[j].lane = finals[i].lane => finals[j].text <= finals[i].text

\* deepgram_engine.cpp:243-244: the KeepAlive thread "can never touch a ws_[] slot
\* mid-reset".
KeepAliveBeforeReset == keepAlive = "send" => \A l \in toSend : conn[l] # "none"
=============================================================================
