---------------------------- MODULE MCLiveStream ----------------------------
(* A small instance of LiveStream for TLC. *)
EXTENDS LiveStream
=============================================================================
