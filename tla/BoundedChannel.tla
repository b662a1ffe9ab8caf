--------------------------- MODULE BoundedChannel ---------------------------
(***************************************************************************)
(* What one per-stream queue of the pipeline promises to the code around   *)
(* it, without indexes, semaphores or memory orders.  A frame is its       *)
(* ordinal: the k-th frame accepted is frame k.                            *)
(*                                                                         *)
(*   - a frame offered while Capacity accepted frames are not known to be  *)
(*     consumed is refused, every other one is accepted;                   *)
(*   - accepted frames are delivered in order, none twice, none skipped;   *)
(*   - the consumer is told "no more" only after Close, and only once      *)
(*     every accepted frame has been delivered.                            *)
(*                                                                         *)
(* SpscRing.tla implements this interface; Pipeline.tla shows that each of *)
(* its two lanes does.                                                     *)
(***************************************************************************)
EXTENDS Integers

CONSTANT Capacity          \* frames the channel holds

VARIABLES accepted,        \* number of frames accepted so far
          delivered,       \* ordinal of the last frame delivered
          known,           \* deliveries the producer has learnt of
          refused,         \* was the last offer refused?
          closed,          \* has the channel been closed?
          ended            \* has the consumer been told "no more"?

chanVars == <<accepted, delivered, known, refused, closed, ended>>

Init ==
  /\ accepted = 0 /\ delivered = 0 /\ known = 0
  /\ refused = FALSE /\ closed = FALSE /\ ended = FALSE

\* The producer learns how much has been consumed, possibly less than
\* really has, and there is room for a frame.
Learn ==
  /\ ~closed
  /\ known' \in known..delivered
  /\ accepted - known' < Capacity
  /\ refused' = FALSE
  /\ UNCHANGED <<accepted, delivered, closed, ended>>

Accept ==
  /\ ~closed
  /\ known' \in known..delivered
  /\ accepted - known' < Capacity
  /\ accepted' = accepted + 1
  /\ refused' = FALSE
  /\ UNCHANGED <<delivered, closed, ended>>

Refuse ==
  /\ ~closed
  /\ known' \in known..delivered
  /\ accepted - known' = Capacity
  /\ refused' = TRUE
  /\ UNCHANGED <<accepted, delivered, closed, ended>>

Deliver ==
  /\ ~ended
  /\ delivered < accepted
  /\ delivered' = delivered + 1
  /\ UNCHANGED <<accepted, known, refused, closed, ended>>

Close ==
  /\ closed' = TRUE
  /\ UNCHANGED <<accepted, delivered, known, refused, ended>>

End ==
  /\ closed /\ delivered = accepted
  /\ ended' = TRUE
  /\ UNCHANGED <<accepted, delivered, known, refused, closed>>

Next == Learn \/ Accept \/ Refuse \/ Deliver \/ Close \/ End

Spec == Init /\ [][Next]_chanVars
=============================================================================
