--------------------------- MODULE MCTaskScheduler ---------------------------
(* A small instance of TaskScheduler: a ring of two slots and a pipe of two *)
(* bytes, so that both fill, wrap and refuse.                               *)
EXTENDS TaskScheduler
CONSTANTS p1, loop
TwoThreads == {p1, loop}
=============================================================================
