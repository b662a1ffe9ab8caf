----------------------------- MODULE SecondGone -----------------------------
(***************************************************************************)
(* Pipeline with a record of the clients whose disconnect has been told    *)
(* once already, by their bye: the Close of such a connection calls        *)
(* onClientGone a second time.                                             *)
(***************************************************************************)
EXTENDS Pipeline

VARIABLE saidBye   \* connections that said bye while they held the slot

Saying(c) == at[c] = "onBye" /\ cb[c] = "entry" /\ cb'[c] = "status" /\ activeId = c
Greeting(c) == at[c] = "onHello" /\ cb[c] = "entry" /\ cb'[c] = "status"

ByeSpec ==
  /\ Init /\ saidBye = {}
  /\ [][Next /\ saidBye' = (saidBye \cup {c \in Conns : Saying(c)})
                             \ {c \in Conns : Greeting(c)}]_<<vars, saidBye>>

-----------------------------------------------------------------------------
\* "onClientGone may fire twice for one disconnect [...] both harmless": the
\* second one, for a client that has said bye, changes nothing (looked at
\* while the application is not being stopped anyway).
SecondGoneIsHarmless ==
  [][\A c \in saidBye :
       (at[c] = "onGone" /\ cb[c] = "entry" /\ cb'[c] = "status" /\ ~stopping)
         => connected' = connected]_vars
=============================================================================
