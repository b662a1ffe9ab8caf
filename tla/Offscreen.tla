----------------------------- MODULE Offscreen -----------------------------
(***************************************************************************)
(* The offscreen document that captures audio (extension/offscreen.js).    *)
(* Its script runs to completion between awaits, so one action is the code *)
(* from one await or event to the next.  A call of start() is named by its *)
(* myGen; pc[g] is the await it is suspended at.                           *)
(*                                                                         *)
(* External, from how the script uses the browser: a getUserMedia call, a  *)
(* module load, a socket or a timer answers after any delay; close() on a  *)
(* socket is followed by its close event; addModule rejects at most when   *)
(* its context has been closed.  The desktop ends a connection or refuses  *)
(* one at most MaxDrops times.  The back-off only sets how late a timer    *)
(* fires, which is any time here, so reconnectAttempts is left out.        *)
(***************************************************************************)
EXTENDS Integers, Sequences, FiniteSets

CONSTANTS MaxGen,    \* bound on startGeneration
          Socks,     \* names of WebSockets and of timers, reused once closed
          NoSock,    \* null
          MaxMail,   \* bound on status messages in flight
          MaxDrops   \* bound on connections ended or refused by the desktop

ASSUME OffscreenAssumption ==
  /\ MaxGen \in Nat /\ MaxMail \in Nat \ {0} /\ MaxDrops \in Nat
  /\ NoSock \notin Socks

VARIABLES
  gen,             \* startGeneration
  active,
  pc,              \* the await each start() call is at
  live,            \* captured streams not stopped: <<kind, myGen>>
  contexts,        \* AudioContexts not closed, by the myGen that made them
  ctx,             \* the module's ctx, by that myGen; 0 is null
  tracks,          \* whose streams the module's tracks hold; 0 is []
  sock,            \* readyState of each socket; "none" is closed or unused
  ws,              \* the module's ws
  helloed,         \* sockets a hello has been sent on
  timers,          \* pending reconnect timers
  reconnectTimer,  \* the one the module remembers
  mail,            \* status messages on their way to the service worker
  drops            \* connections ended or refused by the desktop so far

attemptVars == <<gen, active, pc>>
mediaVars == <<live, contexts, ctx, tracks>>
socketVars == <<sock, ws, helloed, timers, reconnectTimer, drops>>
docVars == <<attemptVars, mediaVars, socketVars, mail>>

Gens == 1 .. MaxGen
Streams(g) == {<<"mic", g>>, <<"tab", g>>}
Patches == {"running", "idle", "error", "connected", "disconnected"}

OffTypeOK ==
  /\ gen \in 0 .. MaxGen /\ active \in BOOLEAN
  /\ pc \in [Gens -> {"none", "mic", "tab", "module", "running", "bailed", "failed"}]
  /\ live \subseteq {"mic", "tab"} \X Gens
  /\ contexts \subseteq Gens /\ ctx \in 0 .. MaxGen /\ tracks \in 0 .. MaxGen
  /\ sock \in [Socks -> {"none", "connecting", "open", "closing"}]
  /\ ws \in Socks \cup {NoSock} /\ helloed \subseteq Socks
  /\ timers \subseteq Socks /\ reconnectTimer \in Socks \cup {NoSock}
  /\ mail \in Seq(Patches) /\ Len(mail) <= MaxMail
  /\ drops \in 0 .. MaxDrops

OffInit ==
  /\ gen = 0 /\ active = FALSE /\ pc = [g \in Gens |-> "none"]
  /\ live = {} /\ contexts = {} /\ ctx = 0 /\ tracks = 0
  /\ sock = [s \in Socks |-> "none"] /\ ws = NoSock /\ helloed = {}
  /\ timers = {} /\ reconnectTimer = NoSock
  /\ mail = <<>> /\ drops = 0

Stale(g) == gen # g
GoTo(g, where) == pc' = [pc EXCEPT ![g] = where]
Status(patch) == Len(mail) < MaxMail /\ mail' = Append(mail, patch)

-----------------------------------------------------------------------------
(* start(): one action per await.                                          *)
BeginStart ==
  /\ gen < MaxGen
  /\ gen' = gen + 1 /\ active' = TRUE
  /\ pc' = [pc EXCEPT ![gen + 1] = "mic"]
  /\ UNCHANGED <<mediaVars, socketVars, mail>>

\* active is cleared before the attempt looks whether it is still the newest.
MicDenied(g) ==
  /\ pc[g] = "mic"
  /\ active' = FALSE
  /\ GoTo(g, "bailed")
  /\ IF Stale(g) THEN UNCHANGED mail ELSE Status("error")
  /\ UNCHANGED <<gen, mediaVars, socketVars>>

\* A stream granted to a stale attempt is stopped in the same step.
MicGranted(g) ==
  /\ pc[g] = "mic"
  /\ IF Stale(g)
     THEN GoTo(g, "bailed") /\ UNCHANGED live
     ELSE GoTo(g, "tab") /\ live' = live \cup {<<"mic", g>>}
  /\ UNCHANGED <<gen, active, contexts, ctx, tracks, socketVars, mail>>

\* Mutant: the microphone is not given back.
TabFailed_KeepsMic(g) ==
  /\ pc[g] = "tab"
  /\ GoTo(g, "bailed")
  /\ IF Stale(g) THEN UNCHANGED mail ELSE Status("error")
  /\ UNCHANGED <<gen, active, mediaVars, socketVars>>

TabFailed(g) ==
  /\ pc[g] = "tab"
  /\ GoTo(g, "bailed")
  /\ live' = live \ Streams(g)
  /\ IF Stale(g) THEN UNCHANGED mail ELSE Status("error")
  /\ UNCHANGED <<gen, active, contexts, ctx, tracks, socketVars>>

TabGranted(g) ==
  /\ pc[g] = "tab"
  /\ IF Stale(g)
     THEN GoTo(g, "bailed") /\ live' = live \ Streams(g) /\ UNCHANGED <<contexts, ctx, tracks>>
     ELSE /\ GoTo(g, "module")
          /\ live' = live \cup Streams(g)
          /\ contexts' = contexts \cup {g}
          /\ ctx' = g /\ tracks' = g
  /\ UNCHANGED <<gen, active, socketVars, mail>>

\* connectWs() with the next free name.
ConnectWs(s) ==
  /\ sock[s] = "none"
  /\ sock' = [sock EXCEPT ![s] = "connecting"]
  /\ ws' = s

\* The module is loaded: a stale attempt closes what ctx and tracks hold now.
ModuleStale(g) ==
  /\ pc[g] = "module" /\ Stale(g)
  /\ GoTo(g, "failed")
  /\ contexts' = contexts \ {ctx} /\ ctx' = 0
  /\ live' = live \ Streams(tracks) /\ tracks' = 0
  /\ UNCHANGED <<gen, active, socketVars, mail>>

ModuleLoaded(g) ==
  /\ pc[g] = "module" /\ ~Stale(g) /\ ctx # 0
  /\ GoTo(g, "running")
  /\ \E s \in Socks : ConnectWs(s)
  /\ Status("running")
  /\ UNCHANGED <<gen, active, mediaVars, helloed, timers, reconnectTimer, drops>>

\* The load rejects, or ctx is null when the nodes are built: start() throws.
ModuleThrows(g) ==
  /\ pc[g] = "module"
  /\ g \notin contexts \/ (~Stale(g) /\ ctx = 0)
  /\ GoTo(g, "failed")
  /\ UNCHANGED <<gen, active, mediaVars, socketVars, mail>>

-----------------------------------------------------------------------------
(* The connection.                                                         *)

\* Mutant: hello goes out once per capture instead of once per connection.
SockOpens_HelloOnce(s) ==
  /\ sock[s] = "connecting"
  /\ sock' = [sock EXCEPT ![s] = "open"]
  /\ helloed' = IF helloed = {} THEN {s} ELSE helloed
  /\ Status("connected")
  /\ UNCHANGED <<attemptVars, mediaVars, ws, timers, reconnectTimer, drops>>

\* onopen sends the hello on the variable ws, which throws unless it is open.
SockOpens(s) ==
  /\ sock[s] = "connecting"
  /\ sock' = [sock EXCEPT ![s] = "open"]
  /\ helloed' = IF ws # NoSock /\ sock'[ws] = "open" THEN helloed \cup {ws} ELSE helloed
  /\ Status("connected")
  /\ UNCHANGED <<attemptVars, mediaVars, ws, timers, reconnectTimer, drops>>

\* Mutant: only a lost connection is retried, not a refused one.
Reconnect_Lost(s) ==
  IF active /\ sock[s] # "connecting"
  THEN \E t \in Socks \ timers : timers' = timers \cup {t} /\ reconnectTimer' = t
  ELSE UNCHANGED <<timers, reconnectTimer>>

Reconnect(s) ==
  IF active
  THEN \E t \in Socks \ timers : timers' = timers \cup {t} /\ reconnectTimer' = t
  ELSE UNCHANGED <<timers, reconnectTimer>>

\* onclose: after close() from this side, or because the desktop ended or
\* refused the connection.
SockCloses(s) ==
  /\ sock[s] # "none"
  /\ IF sock[s] = "closing" THEN UNCHANGED drops ELSE drops < MaxDrops /\ drops' = drops + 1
  /\ sock' = [sock EXCEPT ![s] = "none"]
  /\ helloed' = helloed \ {s}
  /\ Reconnect(s)
  /\ Status("disconnected")
  /\ UNCHANGED <<attemptVars, mediaVars, ws>>

TimerFires(t) ==
  /\ t \in timers
  /\ timers' = timers \ {t}
  /\ \E s \in Socks : ConnectWs(s)
  /\ UNCHANGED <<attemptVars, mediaVars, helloed, reconnectTimer, drops, mail>>

\* Whether sendFrame() puts a frame on the connection: ws exists and is open.
FrameGoesOut == ws # NoSock /\ sock[ws] = "open"

-----------------------------------------------------------------------------
StopCapture ==
  /\ gen < MaxGen
  /\ gen' = gen + 1 /\ active' = FALSE /\ UNCHANGED pc
  /\ timers' = timers \ {reconnectTimer} /\ reconnectTimer' = NoSock
  /\ sock' = IF ws # NoSock /\ sock[ws] # "none" THEN [sock EXCEPT ![ws] = "closing"] ELSE sock
  /\ ws' = NoSock
  /\ live' = live \ Streams(tracks) /\ tracks' = 0
  /\ contexts' = contexts \ {ctx} /\ ctx' = 0
  /\ Status("idle")
  /\ UNCHANGED <<helloed, drops>>

\* The service worker takes a message.
TakeMail ==
  /\ mail # <<>> /\ mail' = Tail(mail)
  /\ UNCHANGED <<attemptVars, mediaVars, socketVars>>

AttemptStep(g) ==
  \/ MicDenied(g) \/ MicGranted(g) \/ TabFailed(g) \/ TabGranted(g)
  \/ ModuleStale(g) \/ ModuleLoaded(g) \/ ModuleThrows(g)

SocketStep(s) == SockOpens(s) \/ SockCloses(s) \/ TimerFires(s)

DocStep == (\E g \in Gens : AttemptStep(g)) \/ (\E s \in Socks : SocketStep(s))

OffNext == BeginStart \/ StopCapture \/ DocStep \/ TakeMail

\* The browser answers every request and delivers every event.
OffFairness ==
  /\ WF_docVars(TakeMail)
  /\ \A g \in Gens : WF_docVars(AttemptStep(g))
  /\ \A s \in Socks : WF_docVars(SockOpens(s) \/ SockCloses(s)) /\ WF_docVars(TimerFires(s))

OffSpec == OffInit /\ [][OffNext]_docVars /\ OffFairness

-----------------------------------------------------------------------------
\* offscreen.js:115,123,129: an attempt that gives up before it shared its
\* streams leaves no microphone or tab stream on, whatever overtook it.
BailedLeavesNothingOn == \A g \in Gens : pc[g] = "bailed" => Streams(g) \cap live = {}

\* sendFrame (offscreen.js:38) against onopen: audio only ever goes out on a
\* connection that carried a hello; the desktop drops frames before it.
HelloBeforeAudio == FrameGoesOut => ws \in helloed

\* onclose (offscreen.js:80): while the capture is active, a running attempt
\* always has a connection, a close event or a retry that will go on.
NeverStranded ==
  active /\ gen > 0 /\ pc[gen] = "running" =>
    timers # {} \/ (ws # NoSock /\ sock[ws] # "none")

\* offscreen.js:27-30: "each start() attempt check, after every await, whether
\* it is still the current attempt before touching shared state; if not, it
\* tears down whatever it privately acquired and bails."
StaleTouchesNothing ==
  [][\A g \in Gens : pc[g] \in {"mic", "tab", "module"} /\ pc'[g] # pc[g] /\ Stale(g)
        => UNCHANGED <<active, ctx, tracks, ws>>]_docVars
=============================================================================
