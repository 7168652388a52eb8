------------------------ MODULE MCAsyncTimerService ------------------------
(* The timer wheel against its service specification, on a small instance. *)
EXTENDS AsyncTimerService

CONSTANTS c1, c2, c3
=============================================================================
