---------------------------- MODULE MCPlayerPump ----------------------------
(* Small instances of PlayerPump for TLC. *)
EXTENDS PlayerPump
=============================================================================
