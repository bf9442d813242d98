----------------------------- MODULE ByteStream -----------------------------
(***************************************************************************)
(* What a message buffer promises: bytes come out in the order in which    *)
(* they went in, none is lost, changed or seen twice.  The k-th byte that  *)
(* is put in is the number k - 1.                                          *)
(***************************************************************************)
EXTENDS Integers, Sequences

CONSTANT MaxBytes       (* bound: bytes put in                              *)

VARIABLES
  queue,                (* bytes that are in                                *)
  count,                (* bytes that have been put in                      *)
  out                   (* bytes that have been taken out                   *)

StreamInit == queue = <<>> /\ count = 0 /\ out = 0

Put(n) ==
  /\ count' = count + n
  /\ queue' = [i \in 1 .. Len(queue) + n |-> IF i <= Len(queue) THEN queue[i] ELSE count + i - Len(queue) - 1]
  /\ UNCHANGED out

Take(n) ==
  /\ queue' = [i \in 1 .. Len(queue) - n |-> queue[i + n]]
  /\ out' = out + n
  /\ UNCHANGED count

StreamNext ==
  \/ \E n \in 0 .. MaxBytes : Put(n)
  \/ \E n \in 0 .. Len(queue) : Take(n)

StreamSpec == StreamInit /\ [][StreamNext]_<<queue, count, out>>
=============================================================================
