---------------------------- MODULE MCAsyncWait ----------------------------
(* The event queue on a small instance. *)
EXTENDS AsyncWait, TLC

CONSTANTS c1, c2, c3, c4

\* The structures are interchangeable: malloc may return any of them.
Symmetry == Permutations(CB)
=============================================================================
