---------------------------- MODULE MCEventLoop ----------------------------
(* Two threads post three tasks each into a pipe of three words for TLC.   *)
EXTENDS EventLoop

=============================================================================
