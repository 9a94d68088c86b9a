--------------------------- MODULE MCFrameHandoff ---------------------------
(* An instance of FrameHandoff with two frames, the second of which can be   *)
(* written while the first is taken.                                         *)
EXTENDS FrameHandoff
=============================================================================
