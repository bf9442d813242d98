----------------------------- MODULE MsgBuffer -----------------------------
(***************************************************************************)
(* LSSMsgBuffer: a vector of bytes with a head and a tail, which moves its *)
(* contents to the front or to a larger vector when it needs room.         *)
(***************************************************************************)
EXTENDS Integers, Sequences

CONSTANTS
  Offset,       (* kBufferOffset (8)                                        *)
  Length,       (* of the constructor (kBufferDefaultLength, 2048)          *)
  Ext,          (* extBuffer of readFd (8192)                               *)
  MaxBytes      (* bound: bytes written                                     *)

ASSUME MsgBufferAssumption ==
  /\ Offset \in Nat /\ Length \in Nat /\ Ext \in Nat /\ MaxBytes \in Nat
  /\ Length >= Offset

VARIABLES
  vec,          (* [mem: buffer_, size: of buffer_, cap, head, tail]        *)
  written,      (* history: bytes appended, the k-th is the number k - 1    *)
  taken         (* history: bytes retrieved                                 *)

bufVars == <<vec, written, taken>>

Readable(buf) == buf.tail - buf.head
Writable(buf) == buf.size - buf.tail

(* n bytes, numbered from first, at the tail *)
WriteAt(buf, first, n) ==
  [mem  |-> [i \in 0 .. buf.size - 1 |->
              IF buf.tail <= i /\ i < buf.tail + n THEN first + i - buf.tail ELSE buf.mem[i]],
   size |-> buf.size, cap |-> buf.cap, head |-> buf.head, tail |-> buf.tail + n]

(* What is readable, copied to the front of a vector of that size *)
Moved(buf, vector, size) ==
  [i \in 0 .. size - 1 |->
    IF Offset <= i /\ i < Offset + Readable(buf) THEN buf.mem[buf.head + i - Offset] ELSE vector[i]]

InFront(buf, vector, size, cap) ==
  [mem |-> Moved(buf, vector, size), size |-> size, cap |-> cap, head |-> Offset, tail |-> Offset + Readable(buf)]

Compact(buf) == InFront(buf, buf.mem, buf.size, buf.cap)

Zeros(size) == [i \in 0 .. size - 1 |-> 0]

Larger(buf, n) ==
  IF 2 * buf.size > Offset + Readable(buf) + n THEN 2 * buf.size ELSE Offset + Readable(buf) + n

Grow(buf, n) ==
  LET len == Larger(buf, n) IN InFront(buf, Zeros(len + Offset), len + Offset, len)

Compacts(buf, n) == buf.head + Writable(buf) >= n + Offset

EnsureWriteable(buf, n) ==
  IF Writable(buf) >= n THEN buf
  ELSE IF Compacts(buf, n) THEN Compact(buf)
  ELSE Grow(buf, n)

Appended(buf, first, n) == WriteAt(EnsureWriteable(buf, n), first, n)

AppendBytes(n) ==
  /\ written + n <= MaxBytes
  /\ vec' = Appended(vec, written, n)
  /\ written' = written + n
  /\ UNCHANGED taken

(* readv fills the rest of the vector, then extBuffer *)
ReadFd(n) ==
  /\ written + n <= MaxBytes
  /\ n <= Writable(vec) + (IF Writable(vec) < Ext THEN Ext ELSE 0)
  /\ vec' = IF n <= Writable(vec) THEN WriteAt(vec, written, n)
          ELSE Appended(WriteAt(vec, written, Writable(vec)), written + Writable(vec), n - Writable(vec))
  /\ written' = written + n
  /\ UNCHANGED taken

Kept(buf) == IF buf.size > 2 * buf.cap THEN buf.cap ELSE buf.size

RetrieveAll(buf) ==
  [mem |-> [i \in 0 .. Kept(buf) - 1 |-> buf.mem[i]], size |-> Kept(buf), cap |-> buf.cap,
   head |-> Offset, tail |-> Offset]

HeadMovesPast(buf, n) ==                                     (* mutant *)
  [mem |-> buf.mem, size |-> buf.size, cap |-> buf.cap, head |-> buf.head + n + 1, tail |-> buf.tail]

HeadMoves(buf, n) ==
  [mem |-> buf.mem, size |-> buf.size, cap |-> buf.cap, head |-> buf.head + n, tail |-> buf.tail]

Retrieve(n) ==
  /\ vec' = IF n >= Readable(vec) THEN RetrieveAll(vec) ELSE HeadMoves(vec, n)
  /\ taken' = taken + (IF n >= Readable(vec) THEN Readable(vec) ELSE n)
  /\ UNCHANGED written

BufInit ==
  /\ vec = [mem |-> Zeros(Length + Offset), size |-> Length + Offset, cap |-> Length,
             head |-> Offset, tail |-> Offset]
  /\ written = 0 /\ taken = 0

BufNext ==
  \/ \E n \in 0 .. MaxBytes : AppendBytes(n) \/ ReadFd(n)
  \/ \E n \in 0 .. MaxBytes : Retrieve(n)

BufSpec == BufInit /\ [][BufNext]_bufVars
-----------------------------------------------------------------------------
(* Properties *)

WellFormed(buf) ==
  /\ buf.size \in Nat /\ buf.cap \in Nat /\ buf.head \in Nat /\ buf.tail \in Nat
  /\ Offset <= buf.head /\ buf.head <= buf.tail /\ buf.tail <= buf.size
  /\ buf.size = buf.cap + Offset /\ buf.cap >= Offset
  /\ buf.mem \in [0 .. buf.size - 1 -> Nat]

(* Head and tail stay in the vector and behind the offset, and the vector  *)
(* is never cut below what it holds (retrieveAll resizes it).              *)
BufTypeOK == WellFormed(vec) /\ written \in Nat /\ taken \in Nat

(* The readable bytes are from, from + 1, ... *)
Holds(buf, from) == \A i \in 0 .. Readable(buf) - 1 : buf.mem[buf.head + i] = from + i

(* However the contents are moved, they are the bytes that were appended   *)
(* and not yet retrieved, in order.                                        *)
BytesInOrder == Readable(vec) = written - taken /\ Holds(vec, taken)

(* The readable bytes as a sequence *)
Contents == [i \in 1 .. Readable(vec) |-> vec.mem[vec.head + i - 1]]

(* The buffer implements a stream of bytes: append adds to its end,        *)
(* retrieve removes from its beginning, and making room does neither.      *)
Stream == INSTANCE ByteStream WITH queue <- Contents, count <- written, out <- taken

ImplementsByteStream == Stream!StreamSpec
=============================================================================
