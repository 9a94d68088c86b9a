---------------------------- MODULE MCRtspPusher ----------------------------
(* Two connections, which a pusher of two channels opens one after the other. *)
EXTENDS RtspPusher
=============================================================================
