----------------------------- MODULE MCEventLoop -----------------------------
(* Instances of EventLoop.  One to four threads: with four the index runs  *)
(* over several schedulers and wraps.                                        *)
EXTENDS EventLoop
=============================================================================
