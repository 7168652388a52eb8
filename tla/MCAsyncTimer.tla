--------------------------- MODULE MCAsyncTimer ---------------------------
(* The timer wheel on a small instance. *)
EXTENDS AsyncTimer, TLC

CONSTANTS c1, c2, c3

\* The structures are interchangeable: malloc may return any of them.
Symmetry == Permutations(CB)
=============================================================================
