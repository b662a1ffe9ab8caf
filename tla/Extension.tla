----------------------------- MODULE Extension -----------------------------
(***************************************************************************)
(* The service worker and the popup (extension/sw.js, popup.js) with the   *)
(* offscreen document they create, command and close.  A call of the       *)
(* worker's start() or stop() is one click; several are suspended at their *)
(* awaits at once.  Of a status only the field "capture" is kept.          *)
(*                                                                         *)
(* The popup draws each broadcast before the next click, and getStatus     *)
(* prefers what is stored, which every broadcast writes: so the popup      *)
(* shows stored.  Eviction loses lastStatus; the restore it was to start   *)
(* with is answered at any later time, also after the waking event.        *)
(*                                                                         *)
(* External, from how the script uses the browser: messages of the         *)
(* document arrive in order, and the answer to closeDocument after the     *)
(* last of them; what was still in the document is lost with it.           *)
(***************************************************************************)
EXTENDS Offscreen

CONSTANTS MaxClicks,     \* bound on clicks
          MaxEvictions   \* bound on evictions of the worker

ASSUME ExtensionAssumption == MaxClicks \in Nat /\ MaxEvictions \in Nat

VARIABLES
  doc,         \* whether the offscreen document exists
  calls,       \* the start() and stop() calls, each at an await
  lastStatus,  \* the worker's variable
  stored,      \* what session storage holds; "none" before the first write
  restoring,   \* the answer to the restore under way, "none" if there is none
  evictions,
  patient      \* history: every click came when nothing was under way

swVars == <<calls, lastStatus, stored, restoring, evictions, patient>>
extVars == <<docVars, doc, swVars>>

Capture == {"idle", "starting", "running", "error"}
Call == [kind : {"start"}, at : {"stream", "has", "create", "send", "done"}]
          \cup [kind : {"stop"}, at : {"send", "has", "close", "report", "done"}]

ExtTypeOK ==
  /\ OffTypeOK
  /\ doc \in BOOLEAN
  /\ calls \in Seq(Call) /\ Len(calls) <= MaxClicks
  /\ lastStatus \in Capture
  /\ stored \in Capture \cup {"none"} /\ restoring \in Capture \cup {"none"}
  /\ evictions \in 0 .. MaxEvictions /\ patient \in BOOLEAN

ExtInit ==
  /\ OffInit
  /\ doc = FALSE
  /\ calls = <<>> /\ lastStatus = "idle" /\ stored = "none" /\ restoring = "none"
  /\ evictions = 0 /\ patient = TRUE

Broadcast(capture) == lastStatus' = capture /\ stored' = capture

\* What a patch leaves of, or makes of, the capture field.
Merged(patch) == IF patch \in Capture THEN patch ELSE lastStatus

At(k, kind, where) == k \in DOMAIN calls /\ calls[k] = [kind |-> kind, at |-> where]
ContinueAt(k, where) == calls' = [calls EXCEPT ![k].at = where]

\* Nothing is under way: every call is done, every message has arrived, every
\* attempt of the document has ended.
Quiet ==
  /\ \A k \in DOMAIN calls : calls[k].at = "done"
  /\ mail = <<>>
  /\ \A g \in Gens : pc[g] \notin {"mic", "tab", "module"}

-----------------------------------------------------------------------------
(* The popup.                                                              *)
ShowsRunning == stored \in {"running", "starting"}

Click(kind, where) ==
  /\ Len(calls) < MaxClicks
  /\ calls' = Append(calls, [kind |-> kind, at |-> where])
  /\ patient' = (patient /\ Quiet)

ClickStart ==
  /\ ~ShowsRunning /\ Click("start", "stream")
  /\ Broadcast("starting")
  /\ UNCHANGED <<docVars, doc, restoring, evictions>>

ClickStop ==
  /\ ShowsRunning /\ Click("stop", "send")
  /\ UNCHANGED <<docVars, doc, lastStatus, stored, restoring, evictions>>

-----------------------------------------------------------------------------
(* start() of the worker.                                                  *)
GotStreamId(k) ==
  /\ At(k, "start", "stream") /\ ContinueAt(k, "has")
  /\ UNCHANGED <<docVars, doc, lastStatus, stored, restoring, evictions, patient>>

\* Mutant: the error is swallowed.
StartFails_Silent(k) ==
  /\ At(k, "start", "stream") \/ (At(k, "start", "create") /\ doc) \/ (At(k, "start", "send") /\ ~doc)
  /\ ContinueAt(k, "done")
  /\ UNCHANGED <<docVars, doc, lastStatus, stored, restoring, evictions, patient>>

\* No tab, no stream id, a document that exists already or no longer.
StartFails(k) ==
  /\ At(k, "start", "stream") \/ (At(k, "start", "create") /\ doc) \/ (At(k, "start", "send") /\ ~doc)
  /\ ContinueAt(k, "done")
  /\ Broadcast("error")
  /\ UNCHANGED <<docVars, doc, restoring, evictions, patient>>

StartHasOffscreen(k) ==
  /\ At(k, "start", "has") /\ ContinueAt(k, IF doc THEN "send" ELSE "create")
  /\ UNCHANGED <<docVars, doc, lastStatus, stored, restoring, evictions, patient>>

CreateDocument(k) ==
  /\ At(k, "start", "create") /\ ~doc
  /\ doc' = TRUE /\ ContinueAt(k, "send")
  /\ UNCHANGED <<docVars, lastStatus, stored, restoring, evictions, patient>>

SendStart(k) ==
  /\ At(k, "start", "send") /\ doc /\ BeginStart
  /\ ContinueAt(k, "done")
  /\ UNCHANGED <<doc, lastStatus, stored, restoring, evictions, patient>>

\* Without the document an open popup is a receiver too: no error is raised.
SendStartLost(k) ==
  /\ At(k, "start", "send") /\ ~doc
  /\ ContinueAt(k, "done")
  /\ UNCHANGED <<docVars, doc, lastStatus, stored, restoring, evictions, patient>>

-----------------------------------------------------------------------------
(* stop() of the worker.                                                   *)
SendStop(k) ==
  /\ At(k, "stop", "send") /\ ContinueAt(k, "has")
  /\ IF doc THEN StopCapture ELSE UNCHANGED docVars
  /\ UNCHANGED <<doc, lastStatus, stored, restoring, evictions, patient>>

\* Mutant: the document is left open.
StopHasOffscreen_KeepsDoc(k) ==
  /\ At(k, "stop", "has") /\ ContinueAt(k, "done")
  /\ Broadcast("idle")
  /\ UNCHANGED <<docVars, doc, restoring, evictions, patient>>

StopHasOffscreen(k) ==
  /\ At(k, "stop", "has")
  /\ IF doc
     THEN ContinueAt(k, "close") /\ UNCHANGED <<lastStatus, stored>>
     ELSE ContinueAt(k, "done") /\ Broadcast("idle")
  /\ UNCHANGED <<docVars, doc, restoring, evictions, patient>>

\* Everything the document held ends with it; of its messages a prefix
\* arrives.
DocumentEnds ==
  /\ doc' = FALSE
  /\ gen' = 0 /\ active' = FALSE /\ pc' = [g \in Gens |-> "none"]
  /\ live' = {} /\ contexts' = {} /\ ctx' = 0 /\ tracks' = 0
  /\ sock' = [s \in Socks |-> "none"] /\ ws' = NoSock /\ helloed' = {}
  /\ timers' = {} /\ reconnectTimer' = NoSock
  /\ \E n \in 0 .. Len(mail) : mail' = SubSeq(mail, 1, n)
  /\ UNCHANGED drops

CloseDocument(k) ==
  /\ At(k, "stop", "close") /\ doc
  /\ DocumentEnds /\ ContinueAt(k, "report")
  /\ UNCHANGED <<lastStatus, stored, restoring, evictions, patient>>

\* Another stop() closed it first: closeDocument rejects and stop() throws.
CloseRejected(k) ==
  /\ At(k, "stop", "close") /\ ~doc /\ ContinueAt(k, "done")
  /\ UNCHANGED <<docVars, doc, lastStatus, stored, restoring, evictions, patient>>

\* Mutant: idle is not reported after the close.
StopReports_Silent(k) ==
  /\ At(k, "stop", "report") /\ mail = <<>> /\ ContinueAt(k, "done")
  /\ UNCHANGED <<docVars, doc, lastStatus, stored, restoring, evictions, patient>>

StopReports(k) ==
  /\ At(k, "stop", "report") /\ mail = <<>> /\ ContinueAt(k, "done")
  /\ Broadcast("idle")
  /\ UNCHANGED <<docVars, doc, restoring, evictions, patient>>

-----------------------------------------------------------------------------
\* An offscreen-status message is merged, broadcast and stored.
OffscreenStatus ==
  /\ TakeMail /\ Broadcast(Merged(Head(mail)))
  /\ UNCHANGED <<doc, calls, restoring, evictions, patient>>

Evict ==
  /\ evictions < MaxEvictions /\ evictions' = evictions + 1
  /\ \A k \in DOMAIN calls : calls[k].at = "done"
  /\ mail = <<>> /\ restoring = "none"
  /\ lastStatus' = "idle" /\ restoring' = stored
  /\ UNCHANGED <<docVars, doc, calls, stored, patient>>

Restore ==
  /\ restoring # "none"
  /\ lastStatus' = restoring /\ restoring' = "none"
  /\ UNCHANGED <<docVars, doc, calls, stored, evictions, patient>>

DocumentRuns == doc /\ DocStep /\ UNCHANGED <<doc, swVars>>

CallStep(k) ==
  \/ GotStreamId(k) \/ StartFails(k) \/ StartHasOffscreen(k) \/ CreateDocument(k)
  \/ SendStart(k) \/ SendStartLost(k)
  \/ SendStop(k) \/ StopHasOffscreen(k) \/ CloseDocument(k) \/ CloseRejected(k) \/ StopReports(k)

ExtNext ==
  \/ ClickStart \/ ClickStop
  \/ \E k \in 1 .. MaxClicks : CallStep(k)
  \/ OffscreenStatus \/ Evict \/ Restore \/ DocumentRuns

\* The browser answers every call, delivers every message and runs the page.
ExtFairness ==
  /\ \A k \in 1 .. MaxClicks : WF_extVars(CallStep(k))
  /\ WF_extVars(OffscreenStatus)
  /\ \A g \in Gens : WF_extVars(doc /\ AttemptStep(g) /\ UNCHANGED <<doc, swVars>>)

ExtSpec == ExtInit /\ [][ExtNext]_extVars /\ ExtFairness

-----------------------------------------------------------------------------
Capturing == \E g \in Gens : pc[g] = "running" /\ g \in contexts

\* sw.js:58, offscreen.js:105,124: for a user who waits, and unless an eviction
\* intervenes, the popup does not stay at "starting": every way a start can end
\* is reported.
StartingIsLeft ==
  patient /\ evictions = 0 /\ stored = "starting" ~>
    stored # "starting" \/ ~patient \/ evictions > 0

\* sw.js:57,66 with offscreen.js:171: for a user who waits, the popup never
\* settles at "running" while nothing captures.
ShownRunningIsRunning == patient /\ Quiet /\ stored = "running" => Capturing

\* sw.js:65: for a user who waits, nothing stays on after a stop, whatever the
\* document had lost track of (a start the popup wrongly offered over a running
\* capture overwrites its ctx and tracks).
StopEndsEverything ==
  patient /\ Quiet /\ calls # <<>> /\ calls[Len(calls)].kind = "stop" => ~doc /\ live = {}
=============================================================================
