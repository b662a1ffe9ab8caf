-------------------------- MODULE TranscriptModel --------------------------
(***************************************************************************)
(* The transcript shown on screen.  Engine threads call apply(), the       *)
(* window's thread calls clear() and, once a frame, baseTsMs() and then    *)
(* snapshot(); each call holds mu_, so each is one step, and other threads *)
(* run between the two of a frame.                                         *)
(*                                                                         *)
(* A text is a number, 0 the empty one; a time stamp is a natural number.  *)
(***************************************************************************)
EXTENDS Integers, Sequences, SequencesExt

CONSTANTS Lanes,          \* the streams, mic and tab
          MaxFinals,      \* bound on the finals of one session
          Texts, Times,   \* what the engines report
          Fallback        \* kFallbackCueDurationMs

ASSUME FallbackAssumption == Fallback \in Nat \ {0}
ASSUME EventAssumption == Texts \subseteq Nat /\ Times \subseteq Nat
ASSUME LaneAssumption == Lanes \subseteq Nat /\ Lanes # {}

VARIABLES
  pending,     \* pending_: the open line of each lane, or NoLine
  finals,      \* finals_
  firstTs,     \* firstTsMs_, -1 before the first event
  arrived,     \* history: the finals kept since clear(), as they came
  frame        \* the baseline a frame being drawn has read, or NoFrame

modelVars == <<pending, finals, firstTs, arrived>>
tmVars == <<modelVars, frame>>

NoLine == [text |-> 0, ts |-> 0]
NoFrame == -1

Line == [lane : Lanes, text : Nat \ {0}, ts : Nat]

TmTypeOK ==
  /\ pending \in [Lanes -> [text : Nat, ts : Nat]]
  /\ finals \in Seq(Line) /\ arrived \in Seq(Line)
  /\ firstTs \in Nat \cup {-1}
  /\ frame \in Nat \cup {NoFrame}

TmInit ==
  /\ pending = [l \in Lanes |-> NoLine]
  /\ finals = <<>> /\ arrived = <<>>
  /\ firstTs = -1
  /\ frame = NoFrame

-----------------------------------------------------------------------------
\* Mutant: finals are appended.
UpperBound_Append(s, ts) == Len(s) + 1

\* Mutant: lower_bound, in front of the lines of the same time.
UpperBound_Lower(s, ts) ==
  CHOOSE i \in 1..(Len(s) + 1) :
    /\ \A j \in 1..(i - 1) : s[j].ts < ts
    /\ i <= Len(s) => ts <= s[i].ts

\* std::upper_bound on the finals: behind every line not later than ts.
UpperBound(s, ts) ==
  CHOOSE i \in 1..(Len(s) + 1) :
    /\ \A j \in 1..(i - 1) : s[j].ts <= ts
    /\ i <= Len(s) => ts < s[i].ts

\* Mutant: the first event sets the baseline for good.
EarliestWith_First(ts) == IF firstTs < 0 THEN ts ELSE firstTs

\* The earliest time stamp seen, interims included.
EarliestWith(ts) == IF firstTs < 0 \/ ts < firstTs THEN ts ELSE firstTs

ApplyInterim(l, text, ts) ==
  /\ firstTs' = EarliestWith(ts)
  /\ pending' = [pending EXCEPT ![l] = [text |-> text, ts |-> ts]]
  /\ UNCHANGED <<finals, arrived>>

ApplyFinal(l, text, ts) ==
  LET line == [lane |-> l, text |-> text, ts |-> ts] IN
  /\ firstTs' = EarliestWith(ts)
  /\ pending' = [pending EXCEPT ![l] = NoLine]
  /\ IF text = 0
       THEN UNCHANGED <<finals, arrived>>
       ELSE /\ finals' = InsertAt(finals, UpperBound(finals, ts), line)
            /\ arrived' = Append(arrived, line)

Clear ==
  /\ frame = NoFrame            \* the same thread draws
  /\ finals' = <<>> /\ arrived' = <<>>
  /\ pending' = [l \in Lanes |-> NoLine]
  /\ firstTs' = -1
  /\ UNCHANGED frame

\* A frame: baseTsMs(), then snapshot().
ReadBase ==
  /\ frame = NoFrame
  /\ frame' = IF firstTs < 0 THEN 0 ELSE firstTs
  /\ UNCHANGED modelVars

\* snapshot(): the finals, then each lane's open line that has a text.
Snapshot ==
  LET shown == SetToSortSeq({l \in Lanes : pending[l].text # 0}, <)
      Open(l) == [lane |-> l, text |-> pending[l].text, ts |-> pending[l].ts]
  IN  finals \o [i \in DOMAIN shown |-> Open(shown[i])]

Draw ==
  /\ frame # NoFrame
  /\ frame' = NoFrame
  /\ UNCHANGED modelVars

\* Mutant: a successor with the same start ends the cue.
CueEnd_NoTie(i) ==
  IF i < Len(finals)
    THEN finals[i + 1].ts - firstTs
    ELSE finals[i].ts - firstTs + Fallback

\* The subtitle cues of toSrt() and toVtt(), as times since firstTs.
CueEnd(i) ==
  IF i < Len(finals) /\ finals[i].ts < finals[i + 1].ts
    THEN finals[i + 1].ts - firstTs
    ELSE finals[i].ts - firstTs + Fallback

Cues == [i \in DOMAIN finals |->
           [start |-> finals[i].ts - firstTs, end |-> CueEnd(i)]]

-----------------------------------------------------------------------------
\* An engine's thread reports a line of one of its lanes.
Report(l, text, ts) ==
  /\ \/ ApplyInterim(l, text, ts)
     \/ ApplyFinal(l, text, ts) /\ Len(arrived) < MaxFinals
  /\ UNCHANGED frame

TmNext ==
  \/ \E l \in Lanes, text \in Texts, ts \in Times : Report(l, text, ts)
  \/ Clear \/ ReadBase \/ Draw

TmSpec == TmInit /\ [][TmNext]_tmVars

-----------------------------------------------------------------------------
(* Properties                                                              *)

\* "finals_ sorted by capture timestamp (not arrival order)": binary search
\* and export both rely on it, whatever order the lanes report in.
SortedByTime ==
  \A i, j \in DOMAIN finals : i < j => finals[i].ts <= finals[j].ts

\* s holds the lines of a, each once, those of one time stamp in their order:
\* place says where each of them stands.
Holds(s, a) ==
  /\ Len(s) = Len(a)
  /\ \E place \in [1..Len(a) -> 1..Len(s)] :
       /\ \A i \in 1..Len(a) : s[place[i]] = a[i]
       /\ \A i, j \in 1..Len(a) : i < j => place[i] # place[j]
       /\ \A i, j \in 1..Len(a) : i < j /\ a[i].ts = a[j].ts => place[i] < place[j]

\* Finals "are never edited once inserted": none is lost or repeated, and
\* those of one time stamp stay in the order they came in.
KeepsEveryFinal == Holds(finals, arrived)

\* The clock of a session starts at its earliest line, interims included: an
\* export, which reads the clock and the finals under one lock, clamps no line
\* to 00:00.  The window reads the clock first and the lines in a second call,
\* so a line reported in between may be drawn as 00:00 for one frame; but the
\* clock it has read is never one that clear() has reset since.
BaselineIsEarliest ==
  /\ \A i \in DOMAIN finals : 0 <= firstTs /\ firstTs <= finals[i].ts
  /\ \A l \in Lanes : pending[l] # NoLine => 0 <= firstTs /\ firstTs <= pending[l].ts
  /\ frame \notin {NoFrame, 0} => 0 <= firstTs /\ firstTs <= frame

Later(i) == {j \in 1..Len(arrived) : arrived[j].ts > arrived[i].ts}
Overtaken(i) == \E j \in 1..Len(arrived) : i < j /\ arrived[j].ts = arrived[i].ts

\* The cue of the i-th final that arrived: from its own start to the start of
\* the earliest line later than it; for a fixed time if no line is later, or
\* if one that arrived after it has the same start (such a cue may overlap the
\* cues behind it).
RunsOn(i, cue) ==
  /\ cue.start = arrived[i].ts - firstTs /\ 0 <= cue.start
  /\ IF Overtaken(i) \/ Later(i) = {}
       THEN cue.end = cue.start + Fallback
       ELSE \E j \in Later(i) : /\ cue.end = arrived[j].ts - firstTs
                                /\ \A k \in Later(i) : arrived[j].ts <= arrived[k].ts

\* "cue N runs from its own start to cue N+1's start", said of the finals as
\* they were reported, in whatever order: the export has a cue for each.
CuesRunOn ==
  \E place \in [1..Len(arrived) -> 1..Len(Cues)] :
    /\ \A i \in 1..Len(arrived) :
         finals[place[i]] = arrived[i] /\ RunsOn(i, Cues[place[i]])
    /\ \A i, j \in 1..Len(arrived) : i < j => place[i] # place[j]
=============================================================================
