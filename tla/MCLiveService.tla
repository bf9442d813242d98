--------------------------- MODULE MCLiveService ---------------------------
(* Three connections on two event loops for TLC. *)
EXTENDS LiveService

CONSTANTS pub1, play1, pub2, loop1, loop2

Connections == {pub1, play1, pub2}
TwoLoops    == {loop1, loop2}
KindsOfConn == (pub1 :> {"publish"}) @@ (play1 :> {"play"}) @@ (pub2 :> {"publish"})
LoopOfConn  == (pub1 :> loop1) @@ (play1 :> loop1) @@ (pub2 :> loop2)
=============================================================================
