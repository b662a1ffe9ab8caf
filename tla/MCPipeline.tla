----------------------------- MODULE MCPipeline -----------------------------
(* Two connections competing for the slot and two lanes whose rings hold    *)
(* fewer frames than arrive.                                                *)
EXTENDS Pipeline, TLC

CONSTANTS c1, c2, mic, tab

\* The connections are interchangeable, and so are the lanes (used where no
\* liveness is checked).
Symmetry == Permutations(Conns) \cup Permutations(Lanes)
=============================================================================
