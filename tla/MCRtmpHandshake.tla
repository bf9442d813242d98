--------------------------- MODULE MCRtmpHandshake ---------------------------
(* Small instances of RtmpHandshake for TLC. *)
EXTENDS RtmpHandshake
=============================================================================
