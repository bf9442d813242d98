--------------------------- MODULE MCTimingWheel ---------------------------
(* A small instance of TimingWheel for TLC. *)
EXTENDS TimingWheel

=============================================================================
