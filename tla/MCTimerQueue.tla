----------------------------- MODULE MCTimerQueue -----------------------------
(* Instances of TimerQueue: delays of 0, of the shortest interval and of a   *)
(* longer one, so that events tie, fall due out of order and go stale.       *)
EXTENDS TimerQueue
=============================================================================
