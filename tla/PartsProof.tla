----------------------------- MODULE PartsProof -----------------------------
(***************************************************************************)
(* Proofs about the parts of the server that share no state: MsgBuffer,    *)
(* for every length, offset and size of a read, TimeCorrector, for every   *)
(* timestamp and limit, TaskManager, Dns and Udp.                          *)
(***************************************************************************)
EXTENDS MsgBuffer, TimeCorrector, TaskManager, Dns, Udp, NumberFacts, SequenceTheorems, TLAPS

-----------------------------------------------------------------------------
(* MsgBuffer: the contents are what was appended and not yet retrieved,    *)
(* and the buffer implements ByteStream                                    *)

(* What well-formedness says of the numbers *)
LEMMA Facts ==
  ASSUME NEW buf, WellFormed(buf)
  PROVE  /\ Offset \in Nat /\ buf.size \in Nat /\ buf.cap \in Nat /\ buf.head \in Nat /\ buf.tail \in Nat
         /\ Offset <= buf.head /\ buf.head <= buf.tail /\ buf.tail <= buf.size
         /\ buf.size = buf.cap + Offset /\ buf.cap >= Offset
         /\ Readable(buf) \in Nat /\ Readable(buf) = buf.tail - buf.head
         /\ Writable(buf) \in Nat /\ Writable(buf) = buf.size - buf.tail
         /\ \A i \in 0 .. buf.size - 1 : buf.mem[i] \in Nat
<1>1. /\ Offset \in Nat /\ buf.size \in Nat /\ buf.cap \in Nat /\ buf.head \in Nat /\ buf.tail \in Nat
      /\ Offset <= buf.head /\ buf.head <= buf.tail /\ buf.tail <= buf.size
      /\ buf.size = buf.cap + Offset /\ buf.cap >= Offset
  BY MsgBufferAssumption DEF WellFormed
<1>2. Readable(buf) = buf.tail - buf.head /\ Writable(buf) = buf.size - buf.tail
  BY DEF Readable, Writable
<1>3. Readable(buf) \in Nat /\ Writable(buf) \in Nat
  BY <1>1, <1>2
<1>4. ASSUME NEW i \in 0 .. buf.size - 1 PROVE buf.mem[i] \in Nat
  BY DEF WellFormed
<1>. QED BY <1>1, <1>2, <1>3, <1>4

(* and the other way round *)
LEMMA Builds ==
  ASSUME NEW buf,
         buf.size \in Nat, buf.cap \in Nat, buf.head \in Nat, buf.tail \in Nat,
         Offset <= buf.head, buf.head <= buf.tail, buf.tail <= buf.size,
         buf.size = buf.cap + Offset, buf.cap >= Offset, buf.mem \in [0 .. buf.size - 1 -> Nat]
  PROVE  WellFormed(buf)
BY DEF WellFormed

(* Writing into the room behind the tail extends what is held *)
LEMMA WriteLemma ==
  ASSUME NEW buf, WellFormed(buf), NEW from \in Nat, Holds(buf, from),
         NEW first \in Nat, first = from + Readable(buf), NEW n \in Nat, n <= Writable(buf)
  PROVE  /\ WellFormed(WriteAt(buf, first, n)) /\ Holds(WriteAt(buf, first, n), from)
         /\ Readable(WriteAt(buf, first, n)) = Readable(buf) + n
<1>. DEFINE w == WriteAt(buf, first, n)
            byte(i) == IF buf.tail <= i /\ i < buf.tail + n THEN first + i - buf.tail ELSE buf.mem[i]
<1>1. /\ w.size = buf.size /\ w.cap = buf.cap /\ w.head = buf.head /\ w.tail = buf.tail + n
      /\ w.mem = [i \in 0 .. buf.size - 1 |-> byte(i)]
  BY DEF WriteAt
<1>2. ASSUME NEW i \in 0 .. buf.size - 1 PROVE byte(i) \in Nat
  <2>1. CASE buf.tail <= i /\ i < buf.tail + n
    BY <2>1, Facts
  <2>2. CASE ~(buf.tail <= i /\ i < buf.tail + n)
    BY <2>2, Facts
  <2>. QED BY <2>1, <2>2
<1>3. ASSUME NEW i \in 0 .. Readable(buf) + n - 1 PROVE byte(buf.head + i) = from + i
  <2>1. CASE i < Readable(buf)
    <3>1. i \in 0 .. Readable(buf) - 1 /\ ~(buf.tail <= buf.head + i)
      BY <2>1, Facts
    <3>. QED BY <3>1 DEF Holds
  <2>2. CASE i >= Readable(buf)
    <3>1. buf.tail <= buf.head + i /\ buf.head + i < buf.tail + n /\ first + (buf.head + i) - buf.tail = from + i
      BY <2>2, Facts
    <3>. QED BY <3>1
  <2>. QED BY <2>1, <2>2, Facts
<1>4. \A i \in 0 .. Readable(buf) + n - 1 : buf.head + i \in 0 .. buf.size - 1
  BY Facts
<1>. HIDE DEF w, byte
<1>5. Readable(w) = Readable(buf) + n
  <2>1. w.tail = buf.tail + n /\ w.head = buf.head
    BY <1>1
  <2>2. buf.tail \in Nat /\ buf.head \in Nat
    BY Facts
  <2>. QED BY <2>1, <2>2 DEF Readable
<1>6. w.mem \in [0 .. w.size - 1 -> Nat]
  BY <1>1, <1>2
<1>7. WellFormed(w)
  <2>1. buf.tail + n \in Nat /\ buf.head <= buf.tail + n /\ buf.tail + n <= buf.size
    BY Facts
  <2>2. w.tail \in Nat /\ w.head <= w.tail /\ w.tail <= w.size
    BY <1>1, <2>1
  <2>. QED BY <1>1, <1>6, <2>2, Facts, Builds
<1>8. ASSUME NEW i \in 0 .. Readable(w) - 1 PROVE w.mem[w.head + i] = from + i
  <2>1. i \in 0 .. Readable(buf) + n - 1
    BY <1>5, Facts
  <2>2. w.mem[w.head + i] = byte(buf.head + i)
    BY <1>1, <1>4, <2>1
  <2>. QED BY <1>3, <2>1, <2>2
<1>9. Holds(w, from)
  BY <1>8 DEF Holds
<1>. QED BY <1>5, <1>7, <1>9 DEF w

LEMMA Index ==
  ASSUME NEW head \in Nat, NEW tail \in Nat, NEW size \in Nat, NEW offset \in Nat, NEW len \in Nat,
         NEW i \in 0 .. len + offset - 1, offset <= i, i < offset + (tail - head), tail <= size
  PROVE  head + i - offset \in 0 .. size - 1
OBVIOUS

(* Copying the contents to the front of a vector with room for them *)
LEMMA MovedLemma ==
  ASSUME NEW buf, WellFormed(buf), NEW from \in Nat, Holds(buf, from),
         NEW len \in Nat, len >= Offset, Readable(buf) <= len,
         NEW size, size = len + Offset, NEW vector \in [0 .. size - 1 -> Nat]
  PROVE  /\ WellFormed(InFront(buf, vector, size, len)) /\ Holds(InFront(buf, vector, size, len), from)
         /\ Readable(InFront(buf, vector, size, len)) = Readable(buf)
         /\ Writable(InFront(buf, vector, size, len)) = len - Readable(buf)
<1>. DEFINE b == InFront(buf, vector, size, len)
            byte(i) == IF Offset <= i /\ i < Offset + Readable(buf) THEN buf.mem[buf.head + i - Offset] ELSE vector[i]
<1>0. Offset \in Nat
  BY MsgBufferAssumption
<1>1. b.mem = [i \in 0 .. len + Offset - 1 |-> byte(i)]
  BY <1>0 DEF Moved, InFront
<1>a. b.size = len + Offset /\ b.cap = len /\ b.head = Offset /\ b.tail = Offset + Readable(buf)
  BY DEF InFront
<1>2. ASSUME NEW i \in 0 .. len + Offset - 1 PROVE byte(i) \in Nat
  <2>1. CASE Offset <= i /\ i < Offset + Readable(buf)
    <3>0. /\ buf.head \in Nat /\ buf.tail \in Nat /\ buf.size \in Nat /\ buf.tail <= buf.size
          /\ Readable(buf) = buf.tail - buf.head /\ Readable(buf) \in Nat
      BY Facts
    <3>1. buf.head + i - Offset \in 0 .. buf.size - 1
      BY <1>0, <2>1, <3>0, Index
    <3>. QED BY <2>1, <3>1, Facts
  <2>2. CASE ~(Offset <= i /\ i < Offset + Readable(buf))
    BY <1>0, <2>2
  <2>. QED BY <2>1, <2>2
<1>3. ASSUME NEW i \in 0 .. Readable(buf) - 1 PROVE byte(Offset + i) = from + i
  <2>1. Offset <= Offset + i /\ Offset + i < Offset + Readable(buf) /\ buf.head + (Offset + i) - Offset = buf.head + i
    BY <1>0, Facts
  <2>. QED BY <2>1 DEF Holds
<1>4. \A i \in 0 .. Readable(buf) - 1 : Offset + i \in 0 .. len + Offset - 1
  BY <1>0, Facts
<1>. HIDE DEF byte, b
<1>5. Readable(b) = Readable(buf) /\ Writable(b) = len - Readable(buf)
  BY <1>0, <1>1, <1>a, Facts DEF Readable, Writable
<1>6. b.mem \in [0 .. b.size - 1 -> Nat]
  <2>1. [i \in 0 .. len + Offset - 1 |-> byte(i)] \in [0 .. len + Offset - 1 -> Nat]
    BY <1>2
  <2>2. 0 .. b.size - 1 = 0 .. len + Offset - 1
    BY <1>0, <1>a
  <2>. QED BY <1>1, <2>1, <2>2
<1>7. WellFormed(b)
  <2>1. /\ b.size \in Nat /\ b.tail \in Nat /\ b.head \in Nat /\ Offset <= b.head /\ b.head <= b.tail
        /\ b.tail <= b.size
    BY <1>0, <1>1, <1>a, Facts
  <2>. QED BY <1>1, <1>a, <1>6, <2>1, Builds
<1>8. ASSUME NEW i \in 0 .. Readable(b) - 1 PROVE b.mem[b.head + i] = from + i
  <2>1. i \in 0 .. Readable(buf) - 1
    BY <1>5
  <2>2. b.mem[b.head + i] = byte(Offset + i)
    BY <1>1, <1>a, <1>4, <2>1
  <2>. QED BY <1>3, <2>1, <2>2
<1>9. Holds(b, from)
  BY <1>8 DEF Holds
<1>. QED BY <1>5, <1>7, <1>9 DEF b

(* Making room keeps the contents *)
LEMMA EnsureLemma ==
  ASSUME NEW buf, WellFormed(buf), NEW from \in Nat, Holds(buf, from), NEW n \in Nat
  PROVE  /\ WellFormed(EnsureWriteable(buf, n)) /\ Holds(EnsureWriteable(buf, n), from)
         /\ Readable(EnsureWriteable(buf, n)) = Readable(buf)
         /\ n <= Writable(EnsureWriteable(buf, n))
<1>1. CASE Writable(buf) >= n
  BY <1>1, Facts DEF EnsureWriteable
<1>2. CASE ~(Writable(buf) >= n) /\ Compacts(buf, n)
  <2>1. buf.cap \in Nat /\ buf.cap >= Offset /\ Readable(buf) <= buf.cap /\ n <= buf.cap - Readable(buf)
    BY <1>2, Facts DEF Compacts
  <2>2. buf.size = buf.cap + Offset /\ buf.mem \in [0 .. buf.size - 1 -> Nat]
    BY DEF WellFormed
  <2>4. /\ WellFormed(Compact(buf)) /\ Holds(Compact(buf), from) /\ Readable(Compact(buf)) = Readable(buf)
        /\ Writable(Compact(buf)) = buf.cap - Readable(buf)
    BY <2>1, <2>2, MovedLemma DEF Compact
  <2>. QED BY <1>2, <2>1, <2>4 DEF EnsureWriteable
<1>3. CASE ~(Writable(buf) >= n) /\ ~Compacts(buf, n)
  <2>. DEFINE len == Larger(buf, n)
  <2>1. /\ len \in Nat /\ len >= Offset /\ Readable(buf) <= len /\ n <= len - Readable(buf)
    <3>1. CASE 2 * buf.size > Offset + Readable(buf) + n
      <4>1. len = 2 * buf.size
        BY <3>1 DEF Larger
      <4>. QED BY <3>1, <4>1, Facts
    <3>2. CASE ~(2 * buf.size > Offset + Readable(buf) + n)
      <4>1. len = Offset + Readable(buf) + n
        BY <3>2 DEF Larger
      <4>. QED BY <3>2, <4>1, Facts
    <3>. QED BY <3>1, <3>2
  <2>2. \A k : Zeros(k) \in [0 .. k - 1 -> Nat]
    BY DEF Zeros
  <2>3. Grow(buf, n) = InFront(buf, Zeros(len + Offset), len + Offset, len)
    BY DEF Grow
  <2>. HIDE DEF len
  <2>4. /\ WellFormed(Grow(buf, n)) /\ Holds(Grow(buf, n), from) /\ Readable(Grow(buf, n)) = Readable(buf)
        /\ Writable(Grow(buf, n)) = len - Readable(buf)
    BY <2>1, <2>2, <2>3, MovedLemma
  <2>. QED BY <1>3, <2>1, <2>4 DEF EnsureWriteable
<1>. QED BY <1>1, <1>2, <1>3

LEMMA AppendedLemma ==
  ASSUME NEW buf, WellFormed(buf), NEW from \in Nat, Holds(buf, from),
         NEW first \in Nat, first = from + Readable(buf), NEW n \in Nat
  PROVE  /\ WellFormed(Appended(buf, first, n)) /\ Holds(Appended(buf, first, n), from)
         /\ Readable(Appended(buf, first, n)) = Readable(buf) + n
<1>. DEFINE e == EnsureWriteable(buf, n)
<1>1. /\ WellFormed(e) /\ Holds(e, from) /\ Readable(e) = Readable(buf) /\ n <= Writable(e)
  BY EnsureLemma
<1>2. Appended(buf, first, n) = WriteAt(e, first, n)
  BY DEF Appended
<1>. HIDE DEF e
<1>. QED BY <1>1, <1>2, WriteLemma

(* The invariant is inductive as it stands *)
LEMMA InitHolds == BufInit => BufTypeOK /\ BytesInOrder
BY MsgBufferAssumption DEF BufInit, BufTypeOK, BytesInOrder, WellFormed, Holds, Readable, Zeros

(* What the two invariants say, for the state and for the next one *)
LEMMA Unprimed ==
  ASSUME BufTypeOK, BytesInOrder
  PROVE  /\ WellFormed(vec) /\ Holds(vec, taken) /\ written \in Nat /\ taken \in Nat
         /\ Readable(vec) = written - taken /\ written = taken + Readable(vec)
<1>1. WellFormed(vec) /\ Holds(vec, taken) /\ written \in Nat /\ taken \in Nat /\ Readable(vec) = written - taken
  BY DEF BufTypeOK, BytesInOrder
<1>. QED BY <1>1, Facts

LEMMA Primed ==
  ASSUME WellFormed(vec'), Holds(vec', taken'), written' \in Nat, taken' \in Nat, Readable(vec') = written' - taken'
  PROVE  BufTypeOK' /\ BytesInOrder'
BY DEF BufTypeOK, BytesInOrder, WellFormed, Holds, Readable

LEMMA NextKeeps ==
  BufTypeOK /\ BytesInOrder /\ [BufNext]_bufVars => BufTypeOK' /\ BytesInOrder'
<1>. SUFFICES ASSUME BufTypeOK, BytesInOrder, [BufNext]_bufVars PROVE BufTypeOK' /\ BytesInOrder'
  OBVIOUS
<1>0. /\ WellFormed(vec) /\ written \in Nat /\ taken \in Nat /\ Holds(vec, taken)
      /\ written = taken + Readable(vec) /\ Readable(vec) \in Nat /\ MaxBytes \in Nat
  BY Unprimed, Facts, MsgBufferAssumption
<1>1. ASSUME NEW n \in 0 .. MaxBytes, AppendBytes(n) PROVE BufTypeOK' /\ BytesInOrder'
  <2>1. vec' = Appended(vec, written, n) /\ written' = written + n /\ taken' = taken
    BY <1>1 DEF AppendBytes
  <2>2. WellFormed(vec') /\ Holds(vec', taken) /\ Readable(vec') = Readable(vec) + n
    BY <1>0, <2>1, AppendedLemma
  <2>3. n \in Nat /\ Readable(vec') = written' - taken'
    BY <1>0, <2>1, <2>2
  <2>. QED BY <1>0, <2>1, <2>2, <2>3, Primed
<1>2. ASSUME NEW n \in 0 .. MaxBytes, ReadFd(n) PROVE BufTypeOK' /\ BytesInOrder'
  <2>0. written' = written + n /\ taken' = taken /\ n \in Nat
    BY <1>0, <1>2 DEF ReadFd
  <2>1. WellFormed(vec') /\ Holds(vec', taken) /\ Readable(vec') = Readable(vec) + n
    <3>1. CASE n <= Writable(vec)
      <4>1. vec' = WriteAt(vec, written, n)
        BY <1>2, <3>1 DEF ReadFd
      <4>. QED BY <1>0, <2>0, <3>1, <4>1, WriteLemma
    <3>2. CASE ~(n <= Writable(vec))
      <4>. DEFINE w == Writable(vec)
                  full == WriteAt(vec, written, w)
      <4>1. w \in Nat /\ n - w \in Nat /\ written + w \in Nat
        BY <1>0, <2>0, <3>2, Facts
      <4>2. vec' = Appended(full, written + w, n - w)
        BY <1>2, <3>2 DEF ReadFd
      <4>. HIDE DEF w
      <4>3. w <= Writable(vec)
        BY <4>1 DEF w
      <4>4. WellFormed(full) /\ Holds(full, taken) /\ Readable(full) = Readable(vec) + w
        BY <1>0, <4>1, <4>3, WriteLemma
      <4>. HIDE DEF full
      <4>5. written + w = taken + Readable(full)
        BY <1>0, <4>1, <4>4
      <4>6. WellFormed(vec') /\ Holds(vec', taken) /\ Readable(vec') = Readable(full) + (n - w)
        BY <1>0, <4>1, <4>2, <4>4, <4>5, AppendedLemma
      <4>. QED BY <1>0, <2>0, <4>1, <4>4, <4>6
    <3>. QED BY <3>1, <3>2
  <2>2. Readable(vec') = written' - taken'
    BY <1>0, <2>0, <2>1
  <2>. QED BY <1>0, <2>0, <2>1, <2>2, Primed
<1>3. ASSUME NEW n \in 0 .. MaxBytes, Retrieve(n) PROVE BufTypeOK' /\ BytesInOrder'
  <2>0. n \in Nat
    BY <1>0
  <2>1. CASE n >= Readable(vec)
    <3>1. vec' = RetrieveAll(vec) /\ written' = written /\ taken' = taken + Readable(vec)
      BY <1>3, <2>1 DEF Retrieve
    <3>2. Kept(vec) = vec.size
      BY <1>0, Facts DEF Kept
    <3>3. /\ vec'.size = vec.size /\ vec'.cap = vec.cap /\ vec'.head = Offset /\ vec'.tail = Offset
          /\ vec'.mem = [i \in 0 .. vec.size - 1 |-> vec.mem[i]]
      BY <3>1, <3>2 DEF RetrieveAll
    <3>4. vec'.mem \in [0 .. vec'.size - 1 -> Nat]
      BY <1>0, <3>3, Facts
    <3>5. WellFormed(vec')
      <4>1. /\ vec.size \in Nat /\ vec.cap \in Nat /\ Offset \in Nat /\ Offset <= vec.size
            /\ vec.size = vec.cap + Offset /\ vec.cap >= Offset
        BY <1>0, Facts
      <4>. QED BY SMTT(20), <3>3, <3>4, <4>1, Builds
    <3>6. Readable(vec') = 0
      BY <1>0, <3>3, Facts DEF Readable
    <3>. QED BY <1>0, <3>1, <3>5, <3>6, Primed DEF Holds
  <2>2. CASE ~(n >= Readable(vec))
    <3>1. vec' = HeadMoves(vec, n) /\ written' = written /\ taken' = taken + n
      BY <1>3, <2>2 DEF Retrieve
    <3>2. /\ vec'.size = vec.size /\ vec'.cap = vec.cap /\ vec'.head = vec.head + n /\ vec'.tail = vec.tail
          /\ vec'.mem = vec.mem
      BY <3>1 DEF HeadMoves
    <3>3. WellFormed(vec')
      <4>1. vec'.mem \in [0 .. vec'.size - 1 -> Nat]
        BY <1>0, <3>2 DEF WellFormed
      <4>2. vec'.head \in Nat /\ Offset <= vec'.head /\ vec'.head <= vec'.tail
        BY <1>0, <2>0, <2>2, <3>2, Facts
      <4>. QED BY <1>0, <3>2, <4>1, <4>2, Facts, Builds
    <3>4. Readable(vec') = Readable(vec) - n
      BY <1>0, <2>0, <3>2, Facts DEF Readable
    <3>5. ASSUME NEW i \in 0 .. Readable(vec') - 1 PROVE vec'.mem[vec'.head + i] = taken' + i
      <4>1. n + i \in 0 .. Readable(vec) - 1 /\ vec'.head + i = vec.head + (n + i) /\ taken' + i = taken + (n + i)
        BY <1>0, <2>0, <3>1, <3>2, <3>4, Facts
      <4>2. vec.mem[vec.head + (n + i)] = taken + (n + i)
        BY <1>0, <4>1 DEF Holds
      <4>. QED BY <3>2, <4>1, <4>2
    <3>6. taken' \in Nat /\ written' \in Nat /\ Readable(vec') = written' - taken'
      BY <1>0, <2>0, <3>1, <3>4
    <3>7. Holds(vec', taken')
      BY <3>5 DEF Holds
    <3>. QED BY <3>3, <3>6, <3>7, Primed
  <2>. QED BY <2>1, <2>2
<1>4. CASE UNCHANGED bufVars
  BY <1>0, <1>4, Unprimed, Primed DEF bufVars
<1>. QED BY <1>1, <1>2, <1>3, <1>4 DEF BufNext

(* LSSMsgBuffer: head_, tail_ and cap_ stay in their places *)
THEOREM BufferTypeTheorem == BufSpec => []BufTypeOK
<1>1. BufSpec => [](BufTypeOK /\ BytesInOrder)
  BY InitHolds, NextKeeps, PTL DEF BufSpec
<1>. QED BY <1>1, PTL

(* LSSMsgBuffer: append, readFd, retrieve and ensureWriteableBytes keep    *)
(* the bytes and their order                                               *)
THEOREM BytesTheorem == BufSpec => []BytesInOrder
<1>1. BufSpec => [](BufTypeOK /\ BytesInOrder)
  BY InitHolds, NextKeeps, PTL DEF BufSpec
<1>. QED BY <1>1, PTL
-----------------------------------------------------------------------------
(* Refinement *)

LEMMA ContentsLemma ==
  ASSUME BufTypeOK, BytesInOrder
  PROVE  /\ Contents = [i \in 1 .. written - taken |-> taken + i - 1]
         /\ Len(Contents) = written - taken /\ written - taken \in Nat
<1>1. Readable(vec) = written - taken /\ Readable(vec) \in Nat /\ taken \in Nat /\ vec.head \in Nat
  BY Unprimed, Facts
<1>2. ASSUME NEW i \in 1 .. Readable(vec) PROVE vec.mem[vec.head + i - 1] = taken + i - 1
  <2>1. i - 1 \in 0 .. Readable(vec) - 1 /\ vec.head + (i - 1) = vec.head + i - 1
    BY <1>1
  <2>2. vec.mem[vec.head + (i - 1)] = taken + (i - 1)
    BY <2>1 DEF BytesInOrder, Holds
  <2>. QED BY <1>1, <2>1, <2>2
<1>3. Contents = [i \in 1 .. written - taken |-> taken + i - 1]
  BY <1>1, <1>2 DEF Contents
<1>. QED BY <1>1, <1>3

LEMMA StepRefines ==
  ASSUME BufTypeOK, BytesInOrder, BufTypeOK', BytesInOrder', [BufNext]_bufVars
  PROVE  [Stream!StreamNext]_<<Contents, written, taken>>
<1>. USE MsgBufferAssumption
<1>0. written \in Nat /\ taken \in Nat
  BY DEF BufTypeOK
<1>a. /\ Contents = [i \in 1 .. written - taken |-> taken + i - 1]
      /\ Len(Contents) = written - taken /\ written - taken \in Nat
  BY ContentsLemma
<1>b. Contents' = [i \in 1 .. written' - taken' |-> taken' + i - 1]
  <2>0. WellFormed(vec') /\ Holds(vec', taken') /\ Readable(vec') = written' - taken' /\ taken' \in Nat
    BY DEF BufTypeOK, BytesInOrder, WellFormed, Holds, Readable
  <2>1. Readable(vec') \in Nat /\ vec'.head \in Nat
    BY <2>0, Facts
  <2>2. ASSUME NEW i \in 1 .. Readable(vec') PROVE vec'.mem[vec'.head + i - 1] = taken' + i - 1
    <3>1. i - 1 \in 0 .. Readable(vec') - 1 /\ vec'.head + (i - 1) = vec'.head + i - 1
      BY <2>1
    <3>2. vec'.mem[vec'.head + (i - 1)] = taken' + (i - 1)
      BY <2>0, <3>1 DEF Holds
    <3>. QED BY <2>0, <2>1, <3>1, <3>2
  <2>. QED BY <2>0, <2>2 DEF Contents, Readable
<1>1. ASSUME NEW n \in 0 .. MaxBytes, written' = written + n, taken' = taken
      PROVE  Stream!Put(n)
  <2>. DEFINE new == [i \in 1 .. Len(Contents) + n |->
                       IF i <= Len(Contents) THEN Contents[i] ELSE written + i - Len(Contents) - 1]
  <2>1. new = [i \in 1 .. written' - taken' |-> taken' + i - 1]
    BY <1>0, <1>a, <1>1
  <2>. QED BY <1>b, <1>1, <2>1 DEF Stream!Put
<1>2. ASSUME NEW n \in 0 .. Len(Contents), written' = written, taken' = taken + n
      PROVE  Stream!Take(n)
  <2>. DEFINE new == [i \in 1 .. Len(Contents) - n |-> Contents[i + n]]
  <2>1. new = [i \in 1 .. written' - taken' |-> taken' + i - 1]
    BY <1>0, <1>a, <1>2
  <2>. QED BY <1>b, <1>2, <2>1 DEF Stream!Take
<1>3. ASSUME NEW n \in 0 .. MaxBytes, AppendBytes(n) PROVE Stream!StreamNext
  BY <1>1, <1>3 DEF AppendBytes, Stream!StreamNext
<1>4. ASSUME NEW n \in 0 .. MaxBytes, ReadFd(n) PROVE Stream!StreamNext
  BY <1>1, <1>4 DEF ReadFd, Stream!StreamNext
<1>5. ASSUME NEW n \in 0 .. MaxBytes, Retrieve(n) PROVE Stream!StreamNext
  <2>. DEFINE k == IF n >= Readable(vec) THEN Readable(vec) ELSE n
  <2>1. k \in 0 .. Len(Contents) /\ written' = written /\ taken' = taken + k
    BY <1>a, <1>5 DEF Retrieve, BytesInOrder
  <2>. HIDE DEF k
  <2>. QED BY <1>2, <2>1 DEF Stream!StreamNext
<1>6. CASE UNCHANGED bufVars
  <2>1. Contents' = Contents /\ written' = written /\ taken' = taken
    BY <1>6 DEF bufVars, Contents, Readable
  <2>. QED BY <2>1
<1>. QED BY <1>3, <1>4, <1>5, <1>6 DEF BufNext

(* LSSMsgBuffer implements a byte stream, for every length and every       *)
(* sequence of appends, reads and retrieves                                *)
THEOREM RefinesByteStream == BufSpec => ImplementsByteStream
<1>1. BufInit => Stream!StreamInit
  BY MsgBufferAssumption DEF BufInit, Stream!StreamInit, Contents, Readable, Zeros
<1>2. BufSpec => [](BufTypeOK /\ BytesInOrder)
  BY InitHolds, NextKeeps, PTL DEF BufSpec
<1>3. /\ BufTypeOK /\ BytesInOrder /\ (BufTypeOK /\ BytesInOrder)' /\ [BufNext]_bufVars
      => [Stream!StreamNext]_<<Contents, written, taken>>
  BY StepRefines
<1>. QED BY <1>1, <1>2, <1>3, PTL DEF BufSpec, ImplementsByteStream, Stream!StreamSpec
-----------------------------------------------------------------------------
(* TimeCorrector: what one call does to a corrector, and from it the       *)
(* properties of the chain                                                 *)

(* A corrector that has taken any number of frames *)
Sound(c) ==
  /\ c \in Corrector
  /\ c.vo >= -1 /\ c.vc >= -1 /\ (c.vo # -1 => c.vc >= 0)
  /\ c.ao >= -1 /\ c.ac >= -1 /\ (c.ao # -1 => c.ac >= 0)
  /\ c.audios > 0 => c.ao # -1

(* and that has left all of them as they were *)
Follows(c) == (c.vo # -1 => c.vc = c.vo) /\ (c.ao # -1 => c.ac = c.ao)

NoJump(old, new) ==
  /\ old.vo # -1 => Fine(new.vc - old.vc)
  /\ new.audios = 1 /\ old.audios = 0 /\ old.vo # -1 => Fine(new.ac - old.vc)
  /\ new.audios > 1 => Fine(new.ac - old.ac)

LEMMA StepLemma ==
  ASSUME NEW from \in Nat, NEW delta \in Int, NEW instead \in {VideoDelta, AudioDelta}
  PROVE  /\ NotBelowZero(from + Step(delta, instead)) \in Nat
         /\ Fine(NotBelowZero(from + Step(delta, instead)) - from)
         /\ Fine(delta) /\ from + delta \in Nat => NotBelowZero(from + Step(delta, instead)) = from + delta
<1>. DEFINE d == Step(delta, instead)
<1>1. d \in Int /\ -MaxDelta < d /\ d < MaxDelta /\ MaxDelta \in Nat /\ (Fine(delta) => d = delta)
  BY TimeAssumption DEF Step, Fine
<1>. HIDE DEF d
<1>2. NotBelowZero(from + d) \in Nat /\ -MaxDelta < NotBelowZero(from + d) - from
      /\ NotBelowZero(from + d) - from < MaxDelta
  BY <1>1 DEF NotBelowZero
<1>3. Fine(delta) /\ from + delta \in Nat => NotBelowZero(from + d) = from + delta
  BY <1>1 DEF NotBelowZero
<1>. QED BY <1>2, <1>3 DEF d, Fine

LEMMA FineZero == Fine(0)
BY TimeAssumption DEF Fine

(* What a video and an audio leave of a corrector *)
LEMMA VideoFields ==
  ASSUME NEW c \in Corrector, NEW x \in Int, NEW y \in Int, NEW k \in Nat
  PROVE  /\ WithVideo(c, x, y, k) \in Corrector
         /\ WithVideo(c, x, y, k).vo = x /\ WithVideo(c, x, y, k).vc = y
         /\ WithVideo(c, x, y, k).ao = c.ao /\ WithVideo(c, x, y, k).ac = c.ac
         /\ WithVideo(c, x, y, k).audios = k
<1>1. WithVideo(c, x, y, k) \in Corrector
  BY DEF Corrector, WithVideo
<1>2. WithVideo(c, x, y, k).vo = x /\ WithVideo(c, x, y, k).vc = y /\ WithVideo(c, x, y, k).audios = k
  BY DEF Corrector, WithVideo
<1>3. WithVideo(c, x, y, k).ao = c.ao /\ WithVideo(c, x, y, k).ac = c.ac
  BY DEF Corrector, WithVideo
<1>. QED BY <1>1, <1>2, <1>3

LEMMA AudioFields ==
  ASSUME NEW c \in Corrector, NEW x \in Int, NEW y \in Int, NEW k \in Nat
  PROVE  /\ WithAudio(c, x, y, k) \in Corrector
         /\ WithAudio(c, x, y, k).ao = x /\ WithAudio(c, x, y, k).ac = y
         /\ WithAudio(c, x, y, k).vo = c.vo /\ WithAudio(c, x, y, k).vc = c.vc
         /\ WithAudio(c, x, y, k).audios = k
<1>1. WithAudio(c, x, y, k) \in Corrector
  BY DEF Corrector, WithAudio
<1>2. WithAudio(c, x, y, k).ao = x /\ WithAudio(c, x, y, k).ac = y /\ WithAudio(c, x, y, k).audios = k
  BY DEF Corrector, WithAudio
<1>3. WithAudio(c, x, y, k).vo = c.vo /\ WithAudio(c, x, y, k).vc = c.vc
  BY DEF Corrector, WithAudio
<1>. QED BY <1>1, <1>2, <1>3

(* correctVideoTimestampByVideo *)
LEMMA VideoLemma ==
  ASSUME NEW c, Sound(c), NEW time \in Nat
  PROVE  /\ Sound(VideoByVideo(c, time)) /\ VideoByVideo(c, time).vc \in Nat
         /\ NoJump(c, VideoByVideo(c, time))
         /\ Follows(c) /\ Close(c, "video", time) => Follows(VideoByVideo(c, time)) /\ VideoByVideo(c, time).vc = time
<1>. DEFINE s == FirstVideo(c, time)
            n == VideoByVideo(c, time)
<1>1. /\ c.vo \in Int /\ c.vc \in Int /\ c.ao \in Int /\ c.ac \in Int /\ c.audios \in Nat
      /\ c \in Corrector
  BY DEF Sound, Corrector
<1>2. /\ s \in Corrector /\ s.vo \in Nat /\ s.vc \in Nat /\ s.ao = c.ao /\ s.ac = c.ac
      /\ c.vo # -1 => s.vo = c.vo /\ s.vc = c.vc
  <2>1. CASE c.vo # -1
    BY <1>1, <2>1 DEF FirstVideo, Sound
  <2>2. CASE c.vo = -1 /\ c.ao # -1 /\ ~Fine(Int32(c.ao - time))
    <3>1. s = WithVideo(c, c.ao, c.ac, c.audios)
      BY <2>2 DEF FirstVideo
    <3>2. c.ao \in Nat /\ c.ac \in Nat
      BY <1>1, <2>2 DEF Sound
    <3>3. s \in Corrector /\ s.vo = c.ao /\ s.vc = c.ac /\ s.ao = c.ao /\ s.ac = c.ac
      BY <1>1, <3>1, VideoFields
    <3>. QED BY <2>2, <3>2, <3>3
  <2>3. CASE c.vo = -1 /\ ~(c.ao # -1 /\ ~Fine(Int32(c.ao - time)))
    <3>1. s = WithVideo(c, time, time, c.audios)
      BY <2>3 DEF FirstVideo
    <3>2. s \in Corrector /\ s.vo = time /\ s.vc = time /\ s.ao = c.ao /\ s.ac = c.ac
      BY <1>1, <3>1, VideoFields
    <3>. QED BY <2>3, <3>2
  <2>. QED BY <2>1, <2>2, <2>3
<1>3. Follows(c) /\ Close(c, "video", time) => s.vc = s.vo /\ Fine(time - s.vo)
  <2>. SUFFICES ASSUME Follows(c), Close(c, "video", time) PROVE s.vc = s.vo /\ Fine(time - s.vo)
    OBVIOUS
  <2>1. CASE c.vo # -1
    BY <1>1, <2>1 DEF FirstVideo, Follows, Close
  <2>2. CASE c.vo = -1
    <3>1. c.ao # -1 => Fine(Int32(c.ao - time))
      <4>1. c.ao # -1 => Fine(time - c.ao)
        BY DEF Close
      <4>. QED BY <1>1, <4>1, TimeAssumption DEF Fine, Int32
    <3>2. s = WithVideo(c, time, time, c.audios)
      BY <2>2, <3>1 DEF FirstVideo
    <3>3. s.vo = time /\ s.vc = time
      BY <1>1, <3>2, VideoFields
    <3>4. time - s.vo = 0
      BY <3>3
    <3>. QED BY <3>3, <3>4, FineZero
  <2>. QED BY <2>1, <2>2
<1>4. n = WithVideo(s, time, NotBelowZero(s.vc + Step(time - s.vo, VideoDelta)), 0)
  BY DEF VideoByVideo
<1>. DEFINE v == NotBelowZero(s.vc + Step(time - s.vo, VideoDelta))
<1>. HIDE DEF s, n
<1>5. v \in Nat /\ Fine(v - s.vc) /\ (Fine(time - s.vo) /\ s.vc + (time - s.vo) \in Nat => v = s.vc + (time - s.vo))
  <2>1. s.vc \in Nat /\ time - s.vo \in Int
    BY <1>2
  <2>. QED BY <2>1, StepLemma
<1>6. n.audios = 0 /\ n.vo = time /\ n.vc = v /\ n.ao = c.ao /\ n.ac = c.ac /\ n \in Corrector
  BY <1>2, <1>4, <1>5, VideoFields
<1>. HIDE DEF v
<1>7. Sound(n)
  BY <1>5, <1>6 DEF Sound
<1>8. NoJump(c, n)
  BY <1>2, <1>5, <1>6 DEF NoJump
<1>9. ASSUME Follows(c), Close(c, "video", time) PROVE Follows(n) /\ n.vc = time
  <2>1. v = time
    BY <1>2, <1>3, <1>5, <1>9
  <2>. QED BY <1>6, <1>9, <2>1 DEF Follows
<1>. QED BY <1>5, <1>6, <1>7, <1>8, <1>9 DEF n

(* correctAudioTimestampByVideo and correctAudioTimestampByAudio *)
LEMMA AudioLemma ==
  ASSUME NEW c, Sound(c), NEW time \in Nat
  PROVE  /\ Sound(AudioByVideo(c, time)) /\ AudioByVideo(c, time).ac \in Nat
         /\ NoJump(c, AudioByVideo(c, time))
         /\ Follows(c) /\ Close(c, "audio", time) => Follows(AudioByVideo(c, time)) /\ AudioByVideo(c, time).ac = time
<1>. DEFINE n == AudioByVideo(c, time)
            byAudio == NotBelowZero(c.ac + Step(time - c.ao, AudioDelta))
            byVideo == NotBelowZero(c.vc + Step(time - c.vo, VideoDelta))
<1>1. /\ c.vo \in Int /\ c.vc \in Int /\ c.ao \in Int /\ c.ac \in Int /\ c.audios \in Nat
      /\ c \in Corrector
  BY DEF Sound, Corrector
<1>2. CASE c.audios > 0
  <2>1. c.ao # -1 /\ c.ac \in Nat
    BY <1>1, <1>2 DEF Sound
  <2>2. n = WithAudio(c, time, byAudio, c.audios + 1)
    BY <1>2, <2>1 DEF AudioByVideo, AudioByAudio
  <2>3. /\ byAudio \in Nat /\ Fine(byAudio - c.ac)
        /\ Fine(time - c.ao) /\ c.ac + (time - c.ao) \in Nat => byAudio = c.ac + (time - c.ao)
    <3>1. time - c.ao \in Int /\ AudioDelta \in {VideoDelta, AudioDelta}
      BY <1>1
    <3>. QED BY <2>1, <3>1, StepLemma
  <2>. HIDE DEF byAudio, n
  <2>4. n.vo = c.vo /\ n.vc = c.vc /\ n.ao = time /\ n.ac = byAudio /\ n.audios = c.audios + 1 /\ n \in Corrector
    BY <1>1, <2>2, <2>3, AudioFields
  <2>5. Sound(n)
    BY <1>1, <2>3, <2>4 DEF Sound
  <2>6. n.vc - c.vc = 0
    BY <1>1, <2>4
  <2>7. NoJump(c, n)
    BY <1>1, <1>2, <2>3, <2>4, <2>6, FineZero DEF NoJump
  <2>8. ASSUME Follows(c), Close(c, "audio", time) PROVE Follows(n) /\ n.ac = time
    <3>1. Fine(time - c.ao) /\ c.ac = c.ao
      BY <1>1, <2>1, <2>8 DEF Close, Follows
    <3>2. byAudio = time
      BY <1>1, <2>3, <3>1
    <3>. QED BY <2>4, <2>8, <3>2 DEF Follows
  <2>. QED BY <2>3, <2>4, <2>5, <2>7, <2>8 DEF n
<1>3. CASE ~(c.audios > 0) /\ c.vo = -1
  <2>1. n = WithAudio(c, time, time, 1)
    BY <1>3 DEF AudioByVideo
  <2>. HIDE DEF n
  <2>2. n.vo = c.vo /\ n.vc = c.vc /\ n.ao = time /\ n.ac = time /\ n.audios = 1 /\ n \in Corrector
    BY <1>1, <2>1, AudioFields
  <2>3. Sound(n)
    BY <1>1, <2>2 DEF Sound
  <2>4. NoJump(c, n)
    BY <1>3, <2>2 DEF NoJump
  <2>5. Follows(c) => Follows(n)
    BY <2>2 DEF Follows
  <2>. QED BY <2>2, <2>3, <2>4, <2>5 DEF n
<1>4. CASE ~(c.audios > 0) /\ c.vo # -1
  <2>1. c.vc \in Nat /\ c.audios = 0
    BY <1>1, <1>4 DEF Sound
  <2>2. n = WithAudio(c, time, byVideo, 1)
    BY <1>4 DEF AudioByVideo
  <2>3. /\ byVideo \in Nat /\ Fine(byVideo - c.vc)
        /\ Fine(time - c.vo) /\ c.vc + (time - c.vo) \in Nat => byVideo = c.vc + (time - c.vo)
    <3>1. time - c.vo \in Int /\ VideoDelta \in {VideoDelta, AudioDelta}
      BY <1>1
    <3>. QED BY <2>1, <3>1, StepLemma
  <2>. HIDE DEF byVideo, n
  <2>4. n.vo = c.vo /\ n.vc = c.vc /\ n.ao = time /\ n.ac = byVideo /\ n.audios = 1 /\ n \in Corrector
    BY <1>1, <2>2, <2>3, AudioFields
  <2>5. Sound(n)
    BY <1>1, <1>4, <2>1, <2>3, <2>4 DEF Sound
  <2>6. n.vc - c.vc = 0
    BY <1>1, <2>4
  <2>7. NoJump(c, n)
    BY <2>3, <2>4, <2>6, FineZero DEF NoJump
  <2>8. ASSUME Follows(c), Close(c, "audio", time) PROVE Follows(n) /\ n.ac = time
    <3>1. Fine(time - c.vo) /\ c.vc = c.vo
      BY <1>1, <1>4, <2>8 DEF Close, Follows
    <3>2. byVideo = time
      BY <1>1, <2>3, <3>1
    <3>. QED BY <2>4, <2>8, <3>2 DEF Follows
  <2>. QED BY <2>3, <2>4, <2>5, <2>7, <2>8 DEF n
<1>. QED BY <1>2, <1>3, <1>4

(* correctTimestamp, of a frame of any kind *)
LEMMA CorrectLemma ==
  ASSUME NEW c, Sound(c), NEW time \in 0 .. 2 * Half - 1, NEW kind \in Kinds
  PROVE  /\ Sound(Correct(c, kind, time)) /\ Corrected(Correct(c, kind, time), kind) \in 0 .. 2 * Half - 1
         /\ NoJump(c, Correct(c, kind, time))
         /\ Follows(c) /\ Close(c, kind, time) =>
              /\ Follows(Correct(c, kind, time))
              /\ kind \in {"video", "audio"} => Corrected(Correct(c, kind, time), kind) = time
<1>. DEFINE n == Correct(c, kind, time)
            m == 2 * Half
<1>0. m \in Nat \ {0} /\ time \in Nat /\ time < m
  BY TimeAssumption
<1>1. CASE kind = "video"
  <2>1. n = VideoByVideo(c, time) /\ Corrected(n, kind) = n.vc % m
    BY <1>1 DEF Correct, Corrected
  <2>. HIDE DEF m
  <2>2. n.vc \in Nat
    BY <1>0, <2>1, VideoLemma
  <2>3. n.vc % m \in 0 .. m - 1 /\ (n.vc = time => n.vc % m = time)
    BY <1>0, <2>2, ModType, ModSmall
  <2>. QED BY <1>0, <1>1, <2>1, <2>3, VideoLemma DEF m
<1>2. CASE kind = "audio"
  <2>1. n = AudioByVideo(c, time) /\ Corrected(n, kind) = n.ac % m
    BY <1>2 DEF Correct, Corrected
  <2>. HIDE DEF m
  <2>2. n.ac \in Nat
    BY <1>0, <2>1, AudioLemma
  <2>3. n.ac % m \in 0 .. m - 1 /\ (n.ac = time => n.ac % m = time)
    BY <1>0, <2>2, ModType, ModSmall
  <2>. QED BY <1>0, <1>2, <2>1, <2>3, AudioLemma DEF m
<1>3. CASE kind \notin {"video", "audio"}
  <2>1. Correct(c, kind, time) = c /\ Corrected(Correct(c, kind, time), kind) = 0
    BY <1>3 DEF Correct, Corrected, Kinds
  <2>2. c.vc - c.vc = 0 /\ c.ac - c.ac = 0 /\ c.audios \in Nat /\ (c.audios > 1 => c.audios > 0)
    BY DEF Sound, Corrector
  <2>3. NoJump(c, c)
    BY <2>2, FineZero DEF NoJump
  <2>. QED BY <1>0, <1>3, <2>1, <2>3
<1>. QED BY <1>1, <1>2, <1>3

(* Both correctors are sound, and follow an even source *)
ChainInv ==
  /\ frames \in 0 .. MaxFrames /\ even \in BOOLEAN
  /\ frame.kind \in Kinds /\ {frame.source, frame.stream, frame.player} \subseteq 0 .. 2 * Half - 1
  /\ Sound(stream) /\ Sound(player)
  /\ even => Follows(stream) /\ Follows(player)
  /\ EvenUnchanged

LEMMA ChainInit == TimeInit => ChainInv
<1>. SUFFICES ASSUME TimeInit PROVE ChainInv
  OBVIOUS
<1>1. Sound(stream) /\ Follows(stream) /\ player = stream
  BY DEF TimeInit, Sound, Follows, Corrector
<1>. QED BY <1>1, TimeAssumption DEF TimeInit, ChainInv, EvenUnchanged, Kinds

LEMMA ChainFrame ==
  ASSUME ChainInv, NEW kind \in Kinds, NEW time \in FrameTimes, Frame(kind, time)
  PROVE  ChainInv' /\ NoJump(stream, stream') /\ NoJump(player, player')
<1>. DEFINE at == AtStream(kind)
            st == Corrected(stream', at)
            pl == Corrected(player', kind)
<1>1. time \in 0 .. 2 * Half - 1 /\ at \in Kinds
  BY TimeAssumption DEF AtStream, Kinds
<1>2. /\ stream' = Correct(stream, at, time) /\ player' = Correct(player, kind, st)
      /\ frame' = [kind |-> kind, source |-> time, stream |-> st, player |-> pl]
      /\ even' = (even /\ Close(stream, at, time) /\ Close(player, kind, st))
      /\ frames < MaxFrames /\ frames' = frames + 1
  BY DEF Frame
<1>3. Sound(stream) /\ Sound(player) /\ (even => Follows(stream) /\ Follows(player)) /\ even \in BOOLEAN
  BY DEF ChainInv
<1>. HIDE DEF at, st, pl
<1>4. Sound(stream') /\ NoJump(stream, stream')
  BY <1>1, <1>2, <1>3, CorrectLemma
<1>5. st \in 0 .. 2 * Half - 1
  BY <1>1, <1>2, <1>3, CorrectLemma DEF st
<1>6. Sound(player') /\ NoJump(player, player')
  BY <1>2, <1>3, <1>5, CorrectLemma
<1>7. pl \in 0 .. 2 * Half - 1
  BY <1>2, <1>3, <1>5, CorrectLemma DEF pl
<1>8. frames' \in 0 .. MaxFrames /\ even' \in BOOLEAN
  BY <1>2, <1>3, TimeAssumption DEF ChainInv
<1>9. frame'.kind = kind /\ frame'.source = time /\ frame'.stream = st /\ frame'.player = pl
  BY <1>2
<1>10. ASSUME even' PROVE Follows(stream') /\ Follows(player')
  <2>1. Follows(stream) /\ Close(stream, at, time) /\ Follows(player) /\ Close(player, kind, st)
    BY <1>2, <1>3, <1>10
  <2>. QED BY <1>1, <1>2, <1>3, <1>5, <2>1, CorrectLemma
<1>11. ASSUME even', kind # "header"
       PROVE  st = time /\ pl = (IF kind = "key" THEN 0 ELSE time)
  <2>1. Follows(stream) /\ Close(stream, at, time) /\ Follows(player) /\ Close(player, kind, st)
    BY <1>2, <1>3, <1>11
  <2>2. at \in {"video", "audio"}
    BY <1>11 DEF at, AtStream, Kinds
  <2>3. st = time
    BY <1>1, <1>2, <1>3, <2>1, <2>2, CorrectLemma DEF st
  <2>4. kind = "key" => pl = 0
    BY DEF pl, Corrected
  <2>5. kind # "key" => pl = time
    <3>. SUFFICES ASSUME kind # "key" PROVE pl = time
      OBVIOUS
    <3>1. kind \in {"video", "audio"}
      BY <1>11 DEF Kinds
    <3>2. pl = st
      BY <1>2, <1>3, <1>5, <2>1, <3>1, CorrectLemma DEF pl
    <3>. QED BY <2>3, <3>2
  <2>. QED BY <2>3, <2>4, <2>5
<1>12. EvenUnchanged'
  BY <1>9, <1>11 DEF EvenUnchanged
<1>13. ChainInv'
  BY <1>1, <1>4, <1>5, <1>6, <1>7, <1>8, <1>9, <1>10, <1>12 DEF ChainInv, Sound, Follows
<1>. QED BY <1>4, <1>6, <1>13

LEMMA ChainNext == ChainInv /\ [TimeNext]_timeVars => ChainInv'
<1>. SUFFICES ASSUME ChainInv, [TimeNext]_timeVars PROVE ChainInv'
  OBVIOUS
<1>1. CASE TimeNext
  BY <1>1, ChainFrame DEF TimeNext
<1>2. CASE UNCHANGED timeVars
  BY <1>2 DEF timeVars, ChainInv, Sound, Follows, EvenUnchanged
<1>. QED BY <1>1, <1>2

(* TimeCorrector: no timestamp below zero, whatever a source sends         *)
THEOREM TimeTypeTheorem == TimeSpec => []TimeTypeOK
<1>1. ChainInv => TimeTypeOK
  BY DEF ChainInv, TimeTypeOK, Sound
<1>. QED BY <1>1, ChainInit, ChainNext, PTL DEF TimeSpec

(* correctTimestamp twice: a source without jumps passes unchanged, but    *)
(* for the key frames at the player                                        *)
THEOREM EvenTheorem == TimeSpec => []EvenUnchanged
<1>1. ChainInv => EvenUnchanged
  BY DEF ChainInv
<1>. QED BY <1>1, ChainInit, ChainNext, PTL DEF TimeSpec

(* kMaxVideoDeltaTime and kMaxAudioDeltaTime bound the steps of what comes *)
(* out, for every source                                                   *)
THEOREM NoJumpsTheorem == TimeSpec => NoJumps
<1>1. ASSUME ChainInv, [TimeNext]_timeVars
      PROVE  [\A c \in {<<stream, stream'>>, <<player, player'>>} :
                LET old == c[1] new == c[2] IN
                  /\ old.vo # -1 => Fine(new.vc - old.vc)
                  /\ new.audios = 1 /\ old.audios = 0 /\ old.vo # -1 => Fine(new.ac - old.vc)
                  /\ new.audios > 1 => Fine(new.ac - old.ac)]_timeVars
  <2>1. CASE TimeNext
    <3>1. NoJump(stream, stream') /\ NoJump(player, player')
      BY <1>1, <2>1, ChainFrame DEF TimeNext
    <3>. QED BY <3>1 DEF NoJump
  <2>2. CASE UNCHANGED timeVars
    BY <2>2
  <2>. QED BY <1>1, <2>1, <2>2
<1>. QED BY <1>1, ChainInit, ChainNext, PTL DEF TimeSpec, NoJumps
-----------------------------------------------------------------------------
(* DnsService *)

LEMMA DnsInitHolds == DnsInit => DnsTypeOK
<1>. SUFFICES ASSUME DnsInit
              PROVE  DnsTypeOK
  OBVIOUS
<1>1. tries \in 0 .. Retry - 1
  BY DnsAssumption DEF DnsInit
<1>2. hosts \in [Hosts -> {NotAdded, {}} \cup Addresses] /\ todo \subseteq {h \in Hosts : hosts[h] # NotAdded}
  BY DEF DnsInit
<1>. QED BY <1>1, <1>2 DEF DnsInit, DnsTypeOK

(* updateHost does not replace addresses by none *)
LEMMA UpdateLemma ==
  ASSUME DnsTypeOK, NEW h \in Hosts, NEW list \in Addresses \cup {{}}
  PROVE  /\ Update(h, list) \in [Hosts -> {NotAdded, {}} \cup Addresses]
         /\ \A g \in Hosts : hosts[g] # NotAdded => Update(h, list)[g] # NotAdded
         /\ \A g \in Hosts : hosts[g] \notin {NotAdded, {}} => Update(h, list)[g] \notin {NotAdded, {}}
<1>1. hosts \in [Hosts -> {NotAdded, {}} \cup Addresses]
  BY DEF DnsTypeOK
<1>2. CASE list = {}
  BY <1>1, <1>2 DEF Update
<1>3. CASE list # {}
  <2>1. Update(h, list) = [hosts EXCEPT ![h] = list] /\ list \in Addresses
    BY <1>3 DEF Update
  <2>2. list # NotAdded
    BY <2>1, DnsAssumption
  <2>. QED BY <1>1, <1>3, <2>1, <2>2
<1>. QED BY <1>2, <1>3

LEMMA LookupLemma ==
  ASSUME DnsTypeOK, NEW list \in Addresses \cup {{}}, Lookup(list)
  PROVE  \E h \in todo : h \in Hosts /\ hosts' = Update(h, list) /\ todo' \in {todo, todo \ {h}}
<1>1. PICK h \in todo : h = CHOOSE g \in todo : TRUE
  BY DEF Lookup
<1>2. h \in Hosts
  BY <1>1 DEF DnsTypeOK
<1>. QED BY <1>1, <1>2 DEF Lookup

LEMMA DnsNextHolds == DnsTypeOK /\ [DnsNext]_dnsVars => DnsTypeOK'
<1>. SUFFICES ASSUME DnsTypeOK, [DnsNext]_dnsVars
              PROVE  DnsTypeOK'
  OBVIOUS
<1>. USE DnsAssumption
<1>1. CASE Start \/ Stop \/ Notify \/ Join \/ Waits \/ TimesOut
  <2>1. UNCHANGED <<hosts, todo, tries>>
    BY <1>1 DEF Start, Stop, Notify, Join, Waits, TimesOut
  <2>2. worker' \in {"none", "test", "hosts", "wait", "over"} /\ serving' \in BOOLEAN
    BY <1>1 DEF DnsTypeOK, Start, Stop, Notify, Join, Waits, TimesOut
  <2>3. stopper' \in {"idle", "notify", "join"} /\ stops' \in BOOLEAN
    BY <1>1 DEF DnsTypeOK, Start, Stop, Notify, Join, Waits, TimesOut
  <2>4. stops' => worker' = "none"
    <3>1. CASE Notify
      BY <3>1 DEF DnsTypeOK, Notify
    <3>. QED BY <1>1, <3>1 DEF DnsTypeOK, Start, Stop, Join, Waits, TimesOut
  <2>. QED BY <2>1, <2>2, <2>3, <2>4 DEF DnsTypeOK
<1>2. CASE Test
  BY <1>2 DEF DnsTypeOK, Test
<1>3. ASSUME NEW h \in Hosts, AddHost(h) PROVE DnsTypeOK'
  BY <1>3 DEF DnsTypeOK, AddHost
<1>4. ASSUME NEW list \in Addresses \cup {{}}, Lookup(list) PROVE DnsTypeOK'
  <2>1. PICK h \in todo : h \in Hosts /\ hosts' = Update(h, list) /\ todo' \in {todo, todo \ {h}}
    BY <1>4, LookupLemma
  <2>2. /\ hosts' \in [Hosts -> {NotAdded, {}} \cup Addresses]
        /\ \A g \in Hosts : hosts[g] # NotAdded => hosts'[g] # NotAdded
    BY <2>1, UpdateLemma
  <2>3. tries' \in 0 .. Retry - 1
    BY <1>4 DEF Lookup, TriesAgain, DnsTypeOK
  <2>. QED BY <1>4, <2>1, <2>2, <2>3 DEF Lookup, DnsTypeOK
<1>5. CASE UNCHANGED dnsVars
  BY <1>5 DEF dnsVars, DnsTypeOK
<1>. QED BY <1>1, <1>2, <1>3, <1>4, <1>5 DEF DnsNext

(* DnsTypeOK: the worker has only added hosts to look up, and there is no  *)
(* worker when stop() has returned, wherever it was when stop() came.      *)
THEOREM DnsTypeTheorem == DnsSpec => []DnsTypeOK
BY DnsInitHolds, DnsNextHolds, PTL DEF DnsSpec

(* ResolvedStays: once a host is resolved, addHost and failed lookups      *)
(* leave it an address, for any number of hosts, addresses and tries.      *)
THEOREM ResolvedStaysTheorem == DnsSpec => ResolvedStays
<1>. DEFINE Stays == \A h \in Hosts : hosts[h] \notin {NotAdded, {}} => hosts'[h] \notin {NotAdded, {}}
<1>1. DnsTypeOK /\ [DnsNext]_dnsVars => [Stays]_dnsVars
  <2>. SUFFICES ASSUME DnsTypeOK, DnsNext
                PROVE  Stays
    OBVIOUS
  <2>1. CASE UNCHANGED hosts
    BY <2>1
  <2>2. ASSUME NEW h \in Hosts, AddHost(h) PROVE Stays
    BY <2>2 DEF AddHost, DnsTypeOK
  <2>3. ASSUME NEW list \in Addresses \cup {{}}, Lookup(list) PROVE Stays
    BY <2>3, LookupLemma, UpdateLemma
  <2>. QED BY <2>1, <2>2, <2>3 DEF DnsNext, Start, Stop, Notify, Join, Test, Waits, TimesOut
<1>. QED BY <1>1, DnsTypeTheorem, PTL DEF DnsSpec, ResolvedStays
-----------------------------------------------------------------------------
(* LSSTaskMgr *)

(* A task that runs is in the set, and due unless its callback restarted   *)
(* it; the others are in it exactly if they have not run.                  *)
TaskInv ==
  /\ clock \in Nat /\ now \in Nat /\ now <= clock /\ working \in BOOLEAN
  /\ task \in [Tasks -> [when : Int, interval : Nat]] /\ started \in [Tasks -> Nat]
  /\ tasks \subseteq Tasks /\ added \subseteq Tasks /\ left \subseteq tasks
  /\ ~working => left = {} /\ running = NoTask
  /\ \A t \in Tasks : task[t].when # -1 => task[t].when = started[t] + task[t].interval
  /\ \A t \in added : task[t].when # -1
  /\ tasks \ {running} = (added \ ran) \ {running}
  /\ running # NoTask =>
       /\ running \in left /\ running \in added
       /\ running \in ran <=> task[running].when < now

LEMMA TaskInitHolds == TaskInit => TaskInv
<1>. SUFFICES ASSUME TaskInit
              PROVE  TaskInv
  OBVIOUS
<1>1. task \in [Tasks -> [when : Int, interval : Nat]] /\ started \in [Tasks -> Nat] /\ \A t \in Tasks : task[t].when = -1
  BY DEF TaskInit
<1>2. clock = 0 /\ now = 0 /\ tasks = {} /\ added = {} /\ left = {} /\ running = NoTask /\ working = FALSE
  BY DEF TaskInit
<1>3. tasks \ {running} = {} /\ (added \ ran) \ {running} = {}
  BY <1>2
<1>4. clock \in Nat /\ now \in Nat /\ now <= clock
  BY <1>2
<1>5. tasks \subseteq Tasks /\ added \subseteq Tasks /\ left \subseteq tasks
  BY <1>2
<1>. QED BY <1>1, <1>2, <1>3, <1>4, <1>5 DEF TaskInv

LEMMA TaskNextHolds == TaskInv /\ [TaskNext]_taskVars => TaskInv'
<1>. SUFFICES ASSUME TaskInv, [TaskNext]_taskVars
              PROVE  TaskInv'
  OBVIOUS
<1>. USE TaskAssumption
<1>1. CASE Tick
  BY <1>1 DEF TaskInv, Tick
<1>2. CASE Work
  BY <1>2 DEF TaskInv, Work
<1>3. CASE WorkEnds
  BY <1>3 DEF TaskInv, WorkEnds
<1>4. ASSUME NEW t \in Tasks, NEW i \in Intervals, MakeTask(t, i) PROVE TaskInv'
  <2>1. i \in Nat /\ t \notin added
    BY <1>4 DEF TaskInv, MakeTask
  <2>2. task' = [task EXCEPT ![t] = [when |-> clock + i, interval |-> i]] /\ started' = [started EXCEPT ![t] = clock]
        /\ UNCHANGED <<clock, tasks, left, working, now, running, added, ran>>
    BY <1>4 DEF MakeTask
  <2>3. task' \in [Tasks -> [when : Int, interval : Nat]] /\ started' \in [Tasks -> Nat]
    BY <2>1, <2>2 DEF TaskInv
  <2>4. \A s \in Tasks : task'[s].when # -1 => task'[s].when = started'[s] + task'[s].interval
    BY <2>1, <2>2 DEF TaskInv
  <2>5. \A s \in Tasks : s # t => task'[s] = task[s]
    BY <2>2 DEF TaskInv
  <2>6. running # NoTask => running \in Tasks /\ running # t
    BY <2>1 DEF TaskInv
  <2>. QED BY <2>1, <2>2, <2>3, <2>4, <2>5, <2>6 DEF TaskInv
<1>5. ASSUME NEW t \in Tasks, AddTask(t) PROVE TaskInv'
  BY <1>5 DEF TaskInv, AddTask
<1>6. ASSUME NEW t \in Tasks, DelTask(t) PROVE TaskInv'
  BY <1>6 DEF TaskInv, DelTask
<1>7. ASSUME NEW t \in Tasks, NotDue(t) PROVE TaskInv'
  BY <1>7 DEF TaskInv, NotDue
<1>8. ASSUME NEW t \in Tasks, RunDue(t) PROVE TaskInv'
  BY <1>8 DEF TaskInv, RunDue
<1>9. ASSUME NEW t \in Tasks, Restart(t) PROVE TaskInv'
  BY <1>9 DEF TaskInv, Restart, RestartAt
<1>10. ASSUME NEW t \in Tasks, Returns(t) PROVE TaskInv'
  BY <1>10 DEF TaskInv, Returns, Erased
<1>11. CASE UNCHANGED taskVars
  BY <1>11 DEF taskVars, TaskInv
<1>. QED BY <1>1, <1>2, <1>3, <1>4, <1>5, <1>6, <1>7, <1>8, <1>9, <1>10, <1>11 DEF TaskNext

(* OnceInTime: whatever work, restart, add and del do to the set, a task   *)
(* runs once for every start, and not before its interval is over.         *)
THEOREM OnceInTimeTheorem == TaskSpec => OnceInTime
<1>. DEFINE InTime == \A t \in Tasks : running # t /\ running' = t => clock > started[t] + task[t].interval
<1>1. TaskSpec => []TaskInv
  BY TaskInitHolds, TaskNextHolds, PTL DEF TaskSpec
<1>2. TaskInv => (~working => tasks = added \ ran)
  BY TaskAssumption DEF TaskInv
<1>3. TaskInv /\ [TaskNext]_taskVars => [InTime]_taskVars
  <2>. SUFFICES ASSUME TaskInv, TaskNext, NEW t \in Tasks, running # t, running' = t
                PROVE  clock > started[t] + task[t].interval
    OBVIOUS
  <2>1. RunDue(t)
    BY TaskAssumption DEF TaskNext, Tick, Work, WorkEnds, MakeTask, AddTask, DelTask, NotDue, RunDue, Restart, Returns
  <2>2. t \in left /\ task[t].when < now /\ running = NoTask
    BY <2>1 DEF RunDue
  <2>3. t \in added
    BY <2>2, TaskAssumption DEF TaskInv
  <2>4. task[t].when = started[t] + task[t].interval /\ started[t] \in Nat /\ task[t].interval \in Nat
    BY <2>3 DEF TaskInv
  <2>. QED BY <2>2, <2>4 DEF TaskInv
<1>. QED BY <1>1, <1>2, <1>3, PTL DEF TaskSpec, OnceInTime
-----------------------------------------------------------------------------
(* LSSUdpSocket *)

(* The datagrams from + 1, from + 2, ... of the other threads *)
Numbered(list, from) == \A i \in 1 .. Len(list) : list[i] = [by |-> "other", nr |-> from + i]

UdpJobs == [do : {"open", "send", "close", "stop"}, list : Seq(Datagram)]

(* The jobs of js send the datagrams after from, one after the other, up to to *)
Chained(js, from, to) ==
  \E at \in Seq(Nat) :
    /\ Len(at) = Len(js) + 1 /\ at[1] = from /\ at[Len(js) + 1] = to
    /\ \A j \in 1 .. Len(at) : at[j] <= to
    /\ \A j \in 1 .. Len(js) : Numbered(js[j].list, at[j]) /\ at[j + 1] = at[j] + Len(js[j].list)

(* The next datagrams of a caller behind what it has sent *)
LEMMA FifoAppend ==
  ASSUME NEW out \in Seq(Datagram), NEW l \in Seq(Datagram), NEW by \in Callers, NEW n \in Nat,
         Fifo(out, by, n), \A i \in 1 .. Len(l) : l[i] = [by |-> by, nr |-> n + i]
  PROVE  Fifo(out \o l, by, n + Len(l))
<1>. DEFINE z == out \o l
            a == Len(out)
            b == Len(l)
<1>1. a \in Nat /\ b \in Nat /\ DOMAIN out = 1 .. a
  OBVIOUS
<1>2. /\ z \in Seq(Datagram) /\ Len(z) = a + b /\ DOMAIN z = 1 .. a + b
      /\ \A i \in 1 .. a : i \in 1 .. a + b /\ z[i] = out[i]
      /\ \A i \in 1 .. b : a + i \in 1 .. a + b /\ z[a + i] = l[i]
      /\ \A i \in 1 .. a + b : i \in 1 .. a \/ (i - a \in 1 .. b /\ z[i] = l[i - a])
  BY <1>1, ConcatProperties
<1>3. /\ \A i \in 1 .. a : out[i].by = by => out[i].nr \in 1 .. n
      /\ \A k \in 1 .. n : \E i \in 1 .. a : out[i] = [by |-> by, nr |-> k]
      /\ \A i, j \in 1 .. a : i < j /\ out[i].by = by /\ out[j].by = by => out[i].nr < out[j].nr
  BY <1>1 DEF Fifo
<1>. HIDE DEF z, a, b
<1>4. \A i \in 1 .. a + b : \/ i \in 1 .. a /\ z[i] = out[i]
                            \/ i - a \in 1 .. b /\ z[i].by = by /\ z[i].nr = n + (i - a)
  <2>1. ASSUME NEW i \in 1 .. b PROVE l[i].by = by /\ l[i].nr = n + i
    <3>1. l[i] = [by |-> by, nr |-> n + i]
      BY DEF b
    <3>. QED BY <3>1
  <2>. QED BY <1>2, <2>1
<1>5. \A i \in 1 .. a + b : z[i].by = by => z[i].nr \in 1 .. n + b
  <2>. SUFFICES ASSUME NEW i \in 1 .. a + b, z[i].by = by
                PROVE  z[i].nr \in 1 .. n + b
    OBVIOUS
  <2>1. CASE i \in 1 .. a /\ z[i] = out[i]
    <3>1. z[i].nr \in 1 .. n
      BY <1>3, <2>1
    <3>. QED BY <1>1, <3>1
  <2>2. CASE i - a \in 1 .. b /\ z[i].nr = n + (i - a)
    BY <1>1, <2>2
  <2>. QED BY <1>4, <2>1, <2>2
<1>6. \A k \in 1 .. n + b : \E i \in 1 .. a + b : z[i] = [by |-> by, nr |-> k]
  <2>. SUFFICES ASSUME NEW k \in 1 .. n + b
                PROVE  \E i \in 1 .. a + b : z[i] = [by |-> by, nr |-> k]
    OBVIOUS
  <2>1. CASE k \in 1 .. n
    BY <1>2, <1>3, <2>1
  <2>2. CASE k \notin 1 .. n
    <3>1. k - n \in 1 .. b /\ n + (k - n) = k
      BY <1>1, <2>2
    <3>2. a + (k - n) \in 1 .. a + b /\ z[a + (k - n)] = l[k - n]
      BY <1>2, <3>1
    <3>. QED BY <3>1, <3>2 DEF b
  <2>. QED BY <2>1, <2>2
<1>7. ASSUME NEW i \in 1 .. a + b, NEW j \in 1 .. a + b, i < j, z[i].by = by, z[j].by = by
      PROVE  z[i].nr < z[j].nr
  <2>1. CASE j \in 1 .. a
    <3>1. i \in 1 .. a
      BY <1>1, <1>7, <2>1
    <3>. QED BY <1>2, <1>3, <1>7, <2>1, <3>1
  <2>2. CASE j \notin 1 .. a
    <3>1. j - a \in 1 .. b /\ z[j].nr = n + (j - a)
      BY <1>4, <2>2
    <3>2. CASE i \in 1 .. a
      <4>1. z[i].nr \in 1 .. n
        BY <1>2, <1>3, <1>7, <3>2
      <4>. QED BY <1>1, <3>1, <4>1
    <3>3. CASE i \notin 1 .. a
      <4>1. i - a \in 1 .. b /\ z[i].nr = n + (i - a)
        BY <1>4, <3>3
      <4>. QED BY <1>1, <1>7, <3>1, <4>1
    <3>. QED BY <3>2, <3>3
  <2>. QED BY <2>1, <2>2
<1>. QED BY <1>2, <1>5, <1>6, <1>7 DEF Fifo, z, b

(* Datagrams of the others change nothing for a caller *)
LEMMA FifoOthers ==
  ASSUME NEW out \in Seq(Datagram), NEW l \in Seq(Datagram), NEW by \in Callers, NEW n \in Nat,
         Fifo(out, by, n), \A i \in 1 .. Len(l) : l[i].by # by
  PROVE  Fifo(out \o l, by, n)
<1>. DEFINE z == out \o l
            a == Len(out)
            b == Len(l)
<1>1. a \in Nat /\ b \in Nat /\ DOMAIN out = 1 .. a
  OBVIOUS
<1>2. /\ DOMAIN z = 1 .. a + b
      /\ \A i \in 1 .. a : i \in 1 .. a + b /\ z[i] = out[i]
      /\ \A i \in 1 .. a + b : i \in 1 .. a \/ (i - a \in 1 .. b /\ z[i] = l[i - a])
  BY <1>1, ConcatProperties
<1>. HIDE DEF z
<1>3. \A i \in 1 .. a + b : z[i].by = by => i \in 1 .. a /\ z[i] = out[i]
  BY <1>2
<1>. HIDE DEF a, b
<1>. QED BY <1>1, <1>2, <1>3 DEF Fifo, z

LEMMA ChainPop ==
  ASSUME NEW js \in Seq(UdpJobs), js # <<>>, NEW from, NEW to, Chained(js, from, to)
  PROVE  /\ from \in Nat /\ Head(js) \in UdpJobs /\ Numbered(Head(js).list, from)
         /\ Chained(Tail(js), from + Len(Head(js).list), to)
<1>1. PICK at \in Seq(Nat) :
        /\ Len(at) = Len(js) + 1 /\ at[1] = from /\ at[Len(js) + 1] = to
        /\ \A j \in 1 .. Len(at) : at[j] <= to
        /\ \A j \in 1 .. Len(js) : Numbered(js[j].list, at[j]) /\ at[j + 1] = at[j] + Len(js[j].list)
  BY DEF Chained
<1>2. Len(js) \in Nat /\ Len(js) > 0 /\ Head(js) = js[1] /\ 1 \in 1 .. Len(js) /\ js[1] \in UdpJobs
  OBVIOUS
<1>3. from \in Nat /\ Numbered(Head(js).list, from) /\ at[2] = from + Len(Head(js).list)
  BY <1>1, <1>2
<1>4. Tail(js) \in Seq(UdpJobs) /\ Len(Tail(js)) = Len(js) - 1 /\ \A j \in 1 .. Len(Tail(js)) : Tail(js)[j] = js[j + 1]
  BY <1>2, HeadTailProperties
<1>5. Tail(at) \in Seq(Nat) /\ Len(Tail(at)) = Len(js) /\ \A j \in 1 .. Len(js) : Tail(at)[j] = at[j + 1]
  BY <1>1, <1>2, HeadTailProperties
<1>. DEFINE rest == Tail(js) more == Tail(at)
<1>. HIDE DEF rest, more
<1>6. /\ Len(more) = Len(rest) + 1 /\ more[1] = at[2] /\ more[Len(rest) + 1] = to
      /\ \A j \in 1 .. Len(more) : more[j] <= to
  <2>1. \A j \in 1 .. Len(more) : j + 1 \in 1 .. Len(at) /\ more[j] = at[j + 1]
    BY <1>1, <1>2, <1>5 DEF more
  <2>. QED BY <1>1, <1>2, <1>4, <1>5, <2>1 DEF rest, more
<1>7. ASSUME NEW j \in 1 .. Len(rest)
      PROVE  Numbered(rest[j].list, more[j]) /\ more[j + 1] = more[j] + Len(rest[j].list)
  <2>1. j + 1 \in 1 .. Len(js) /\ j \in 1 .. Len(js) /\ rest[j] = js[j + 1] /\ more[j] = at[j + 1] /\ more[j + 1] = at[j + 1 + 1]
    BY SMTT(20), <1>2, <1>4, <1>5 DEF rest, more
  <2>. QED BY <1>1, <2>1
<1>8. Chained(rest, at[2], to)
  BY <1>5, <1>6, <1>7 DEF Chained, more
<1>. QED BY <1>2, <1>3, <1>8 DEF rest

LEMMA ChainPush ==
  ASSUME NEW js \in Seq(UdpJobs), NEW job \in UdpJobs, NEW from, NEW to,
         Chained(js, from, to), Numbered(job.list, to)
  PROVE  to \in Nat /\ Chained(Append(js, job), from, to + Len(job.list))
<1>1. PICK at \in Seq(Nat) :
        /\ Len(at) = Len(js) + 1 /\ at[1] = from /\ at[Len(js) + 1] = to
        /\ \A j \in 1 .. Len(at) : at[j] <= to
        /\ \A j \in 1 .. Len(js) : Numbered(js[j].list, at[j]) /\ at[j + 1] = at[j] + Len(js[j].list)
  BY DEF Chained
<1>. DEFINE n    == to + Len(job.list)
            more == Append(at, n)
            all  == Append(js, job)
<1>2. /\ Len(js) \in Nat /\ Len(js) + 1 \in 1 .. Len(at) /\ to \in Nat /\ Len(job.list) \in Nat
      /\ n \in Nat /\ to <= n
  BY <1>1 DEF UdpJobs
<1>. HIDE DEF n
<1>3. /\ more \in Seq(Nat) /\ Len(more) = Len(js) + 2 /\ more[Len(js) + 2] = n
      /\ \A j \in 1 .. Len(js) + 1 : more[j] = at[j]
  BY <1>1, <1>2
<1>4. /\ Len(all) = Len(js) + 1 /\ all[Len(js) + 1] = job
      /\ \A j \in 1 .. Len(js) : all[j] = js[j]
  OBVIOUS
<1>. HIDE DEF more, all
<1>5. ASSUME NEW j \in 1 .. Len(all)
      PROVE  Numbered(all[j].list, more[j]) /\ more[j + 1] = more[j] + Len(all[j].list)
  <2>1. CASE j \in 1 .. Len(js)
    <3>1. j \in 1 .. Len(js) + 1 /\ j + 1 \in 1 .. Len(js) + 1
      BY <1>2, <2>1
    <3>. QED BY <1>1, <1>3, <1>4, <2>1, <3>1
  <2>2. CASE j = Len(js) + 1
    <3>1. more[j] = to /\ all[j] = job /\ more[j + 1] = n
      BY <1>1, <1>2, <1>3, <1>4, <2>2
    <3>. QED BY <3>1 DEF n
  <2>. QED BY <1>2, <1>4, <2>1, <2>2
<1>6. /\ Len(more) = Len(all) + 1 /\ more[1] = from /\ more[Len(all) + 1] = n
      /\ \A j \in 1 .. Len(more) : more[j] <= n
  <2>1. ASSUME NEW j \in 1 .. Len(more) PROVE more[j] <= n
    <3>1. CASE j \in 1 .. Len(js) + 1
      <4>1. more[j] = at[j] /\ at[j] <= to /\ at[j] \in Nat
        BY <1>1, <1>3, <3>1
      <4>. QED BY <1>2, <4>1
    <3>2. CASE j = Len(js) + 2
      BY <1>2, <1>3, <3>2
    <3>. QED BY <1>2, <1>3, <3>1, <3>2
  <2>2. Len(more) = Len(all) + 1 /\ more[1] = from /\ more[Len(all) + 1] = n
    BY <1>1, <1>2, <1>3, <1>4
  <2>. QED BY <2>1, <2>2
<1>7. Chained(all, from, n)
  BY <1>3, <1>5, <1>6 DEF Chained
<1>. QED BY <1>2, <1>7 DEF all, n

(* What is sent and what waits are the datagrams of the loop's thread and  *)
(* the first n of the others, whose next ones the jobs are to send.        *)
OrderInv ==
  /\ asked \in [Callers -> Nat]
  /\ wire \in Seq(Datagram) /\ queue \in Seq(Datagram) /\ jobs \in Seq(UdpJobs)
  /\ \A j \in 1 .. Len(jobs) : jobs[j].do # "send" => jobs[j].list = <<>>
  /\ Fifo(wire \o queue, "loop", asked["loop"])
  /\ \E n \in Nat : Fifo(wire \o queue, "other", n) /\ Chained(jobs, n, asked["other"])

(* The descriptor is opened once, by the first job, and registered while   *)
(* it is open; with datagrams waiting it is registered for writing.        *)
EventInv ==
  /\ \A j \in 1 .. Len(jobs) : jobs[j].do = "open" => j = 1 /\ udpFd = "none"
  /\ udpFd = "none" => jobs # <<>> /\ Head(jobs).do = "open" /\ queue = <<>>
  /\ udpFd = "open" => registered
  /\ queue # <<>> /\ udpFd = "open" => wantsOut
  /\ queue # <<>> /\ udpFd = "open" /\ taking => edgeOut \/ missed

LEMMA UdpInitHolds == UdpInit => OrderInv /\ EventInv
<1>. SUFFICES ASSUME UdpInit
              PROVE  OrderInv /\ EventInv
  OBVIOUS
<1>. DEFINE job == Job("open", <<>>)
<1>1. job \in UdpJobs /\ job.do = "open" /\ job.list = <<>>
  BY DEF Job, UdpJobs
<1>. HIDE DEF job
<1>2. /\ jobs = <<job>> /\ wire = <<>> /\ queue = <<>> /\ udpFd = "none"
      /\ asked \in [Callers -> Nat] /\ asked["loop"] = 0 /\ asked["other"] = 0
  BY DEF UdpInit, job, Callers
<1>3. /\ jobs \in Seq(UdpJobs) /\ Len(jobs) = 1 /\ jobs[1] = job /\ Head(jobs) = job /\ jobs # <<>>
      /\ wire \in Seq(Datagram) /\ queue \in Seq(Datagram) /\ wire \o queue = <<>>
  BY <1>1, <1>2
<1>4. Numbered(job.list, 0) /\ Len(job.list) = 0
  BY <1>1 DEF Numbered
<1>5. Fifo(wire \o queue, "loop", 0) /\ Fifo(wire \o queue, "other", 0)
  BY <1>3 DEF Fifo
<1>6. \A j \in 1 .. Len(jobs) : j = 1
  BY <1>3
<1>7. Chained(jobs, 0, 0)
  <2>1. <<0, 0>> \in Seq(Nat) /\ Len(<<0, 0>>) = 2 /\ <<0, 0>>[1] = 0 /\ <<0, 0>>[2] = 0
    OBVIOUS
  <2>2. PICK at \in Seq(Nat) : Len(at) = 2 /\ at[1] = 0 /\ at[2] = 0
    BY <2>1
  <2>3. \A j \in 1 .. Len(at) : at[j] <= 0
    BY <2>2
  <2>. QED BY <1>3, <1>4, <1>6, <2>2, <2>3 DEF Chained
<1>8. OrderInv
  BY <1>1, <1>2, <1>3, <1>5, <1>6, <1>7 DEF OrderInv
<1>. QED BY <1>1, <1>2, <1>3, <1>6, <1>8 DEF EventInv

(* A job is asked for *)
LEMMA AskKeeps ==
  ASSUME OrderInv, EventInv, NEW job \in UdpJobs, jobs' = Append(jobs, job),
         asked' = [asked EXCEPT !["other"] = @ + Len(job.list)],
         job.do # "open", job.do # "send" => job.list = <<>>, Numbered(job.list, asked["other"]),
         UNCHANGED <<udpFd, registered, wantsOut, queue, wire, taking, edgeOut, missed>>
  PROVE  OrderInv' /\ EventInv'
<1>1. jobs \in Seq(UdpJobs) /\ asked \in [Callers -> Nat] /\ Len(job.list) \in Nat
  BY DEF OrderInv, UdpJobs
<1>2. /\ jobs' \in Seq(UdpJobs) /\ Len(jobs') = Len(jobs) + 1 /\ jobs'[Len(jobs) + 1] = job
      /\ \A j \in 1 .. Len(jobs) : jobs'[j] = jobs[j]
  BY <1>1
<1>3. Len(jobs) \in Nat /\ \A j \in 1 .. Len(jobs') : j \in 1 .. Len(jobs) \/ j = Len(jobs) + 1
  BY <1>1, <1>2
<1>4. jobs # <<>> => jobs' # <<>> /\ Head(jobs') = Head(jobs)
  BY <1>1
<1>5. /\ asked' \in [Callers -> Nat] /\ asked'["loop"] = asked["loop"]
      /\ asked'["other"] = asked["other"] + Len(job.list)
  BY <1>1 DEF Callers
<1>6. PICK n \in Nat : Fifo(wire \o queue, "other", n) /\ Chained(jobs, n, asked["other"])
  BY DEF OrderInv
<1>7. Chained(jobs', n, asked'["other"])
  BY <1>1, <1>5, <1>6, ChainPush
<1>8. OrderInv'
  BY <1>2, <1>3, <1>5, <1>6, <1>7 DEF OrderInv
<1>9. EventInv'
  BY <1>2, <1>3, <1>4 DEF EventInv
<1>. QED BY <1>8, <1>9

(* A job is taken *)
LEMMA JobTaken ==
  ASSUME OrderInv, EventInv, NEW what, Run(what)
  PROVE  /\ jobs # <<>> /\ Head(jobs) \in UdpJobs /\ Head(jobs).do = what /\ jobs' \in Seq(UdpJobs)
         /\ List \in Seq(Datagram) /\ (what # "send" => List = <<>>)
         /\ \E n \in Nat : /\ Fifo(wire \o queue, "other", n) /\ Numbered(List, n)
                           /\ Chained(jobs', n + Len(List), asked["other"])
         /\ \A j \in 1 .. Len(jobs') : jobs'[j].do # "send" => jobs'[j].list = <<>>
         /\ \A j \in 1 .. Len(jobs') : jobs'[j].do # "open"
         /\ what # "open" => udpFd # "none"
<1>1. jobs \in Seq(UdpJobs) /\ jobs # <<>> /\ Head(jobs).do = what /\ jobs' = Tail(jobs)
  BY DEF OrderInv, Run
<1>2. PICK n \in Nat : Fifo(wire \o queue, "other", n) /\ Chained(jobs, n, asked["other"])
  BY DEF OrderInv
<1>3. /\ Head(jobs) \in UdpJobs /\ Numbered(Head(jobs).list, n)
      /\ Chained(Tail(jobs), n + Len(Head(jobs).list), asked["other"])
  BY <1>1, <1>2, ChainPop
<1>4. Head(jobs) = jobs[1] /\ 1 \in 1 .. Len(jobs)
  BY <1>1
<1>5. /\ jobs' \in Seq(UdpJobs) /\ Len(jobs') = Len(jobs) - 1
      /\ \A j \in 1 .. Len(jobs') : j + 1 \in 1 .. Len(jobs) /\ j + 1 # 1 /\ jobs'[j] = jobs[j + 1]
  BY <1>1, HeadTailProperties
<1>6. List \in Seq(Datagram) /\ (what # "send" => List = <<>>)
  BY <1>1, <1>3, <1>4 DEF OrderInv, List, UdpJobs
<1>7. \A j \in 1 .. Len(jobs') : jobs'[j].do # "open" /\ (jobs'[j].do # "send" => jobs'[j].list = <<>>)
  BY <1>5 DEF OrderInv, EventInv
<1>8. what # "open" => udpFd # "none"
  BY <1>1 DEF EventInv
<1>. QED BY <1>1, <1>2, <1>3, <1>5, <1>6, <1>7, <1>8 DEF List

(* Nothing is sent, and no job taken *)
LEMMA QuietUdp ==
  ASSUME OrderInv, EventInv, UNCHANGED <<jobs, queue, asked, wire>>,
         udpFd' = udpFd \/ (udpFd # "none" /\ udpFd' = "closed"),
         udpFd' = "open" => registered' = registered /\ wantsOut' = wantsOut,
         udpFd' = "open" /\ taking' /\ queue # <<>> => edgeOut' \/ missed'
  PROVE  OrderInv' /\ EventInv'
<1>1. OrderInv'
  BY DEF OrderInv
<1>2. EventInv'
  BY DEF EventInv
<1>. QED BY <1>1, <1>2

(* A job that sends nothing is done *)
LEMMA PopKeeps ==
  ASSUME OrderInv, EventInv, NEW what \in {"open", "close", "stop"}, Run(what),
         UNCHANGED <<queue, asked, wire>>,
         what = "open" => udpFd' = "open" /\ registered',
         what # "open" => udpFd' \notin {"none", "open"}
  PROVE  OrderInv' /\ EventInv'
<1>1. /\ jobs # <<>> /\ Head(jobs).do = what /\ jobs' \in Seq(UdpJobs) /\ List = <<>>
      /\ \A j \in 1 .. Len(jobs') : jobs'[j].do # "send" => jobs'[j].list = <<>>
      /\ \A j \in 1 .. Len(jobs') : jobs'[j].do # "open"
  BY JobTaken
<1>2. PICK n \in Nat : /\ Fifo(wire \o queue, "other", n)
                      /\ Chained(jobs', n + Len(List), asked["other"])
  BY JobTaken
<1>3. n + Len(List) = n /\ jobs \in Seq(UdpJobs)
  BY <1>1 DEF OrderInv
<1>4. OrderInv'
  BY <1>1, <1>2, <1>3 DEF OrderInv
<1>5. what = "open" => queue = <<>>
  <2>1. 1 \in 1 .. Len(jobs) /\ Head(jobs) = jobs[1]
    BY <1>1, <1>3
  <2>. QED BY <1>1, <2>1 DEF EventInv
<1>6. EventInv'
  BY <1>1, <1>5 DEF EventInv
<1>. QED BY <1>4, <1>6

(* sendInLoop, of a task or at once: directly if nothing waits, else       *)
(* behind what waits                                                       *)
LEMMA DeliverKeeps ==
  ASSUME OrderInv, EventInv, NEW l \in Seq(Datagram), Deliver(l), udpFd # "none"
  PROVE  /\ wire' \in Seq(Datagram) /\ queue' \in Seq(Datagram)
         /\ wire' \o queue' = (wire \o queue) \o l
         /\ UNCHANGED <<udpFd, registered, taking>>
         /\ queue' # <<>> /\ udpFd = "open" => wantsOut' /\ (taking => edgeOut' \/ missed')
<1>1. /\ UNCHANGED <<udpFd, registered, taking, missed>>
      /\ wire' = IF Direct(l) THEN wire \o l ELSE wire
      /\ queue' = IF Direct(l) THEN queue ELSE queue \o l
      /\ wantsOut' = (wantsOut \/ (Wakes(l) /\ registered /\ udpFd = "open"))
      /\ edgeOut' = (edgeOut \/ (Wakes(l) /\ registered /\ udpFd = "open" /\ taking))
  BY DEF Deliver
<1>2. wire \in Seq(Datagram) /\ queue \in Seq(Datagram)
  BY DEF OrderInv
<1>3. CASE Direct(l)
  <2>1. queue = <<>> /\ wire' = wire \o l /\ queue' = <<>>
    BY <1>1, <1>3 DEF Direct
  <2>2. wire \o l \in Seq(Datagram) /\ wire \o <<>> = wire /\ (wire \o l) \o <<>> = wire \o l
    BY <1>2, ConcatProperties, ConcatEmptySeq
  <2>. QED BY <1>1, <2>1, <2>2
<1>4. CASE ~Direct(l)
  <2>1. wire' = wire /\ queue' = queue \o l /\ queue \o l \in Seq(Datagram)
    BY <1>1, <1>2, <1>4, ConcatProperties
  <2>2. wire \o (queue \o l) = (wire \o queue) \o l
    BY <1>2, ConcatAssociative
  <2>3. udpFd = "open" => wantsOut' /\ (taking => edgeOut')
    BY <1>1, <1>4 DEF Wakes, EventInv
  <2>. QED BY <1>1, <1>2, <2>1, <2>2, <2>3
<1>. QED BY <1>3, <1>4

(* The sends of other threads *)
LEMMA SendKeeps ==
  ASSUME OrderInv, EventInv, SendInLoop
  PROVE  OrderInv' /\ EventInv'
<1>1. Run("send") /\ Deliver(List) /\ asked' = asked
  BY DEF SendInLoop
<1>2. /\ List \in Seq(Datagram) /\ jobs' \in Seq(UdpJobs) /\ udpFd # "none"
      /\ \A j \in 1 .. Len(jobs') : jobs'[j].do # "send" => jobs'[j].list = <<>>
      /\ \A j \in 1 .. Len(jobs') : jobs'[j].do # "open"
  BY <1>1, JobTaken
<1>3. PICK n \in Nat : /\ Fifo(wire \o queue, "other", n) /\ Numbered(List, n)
                      /\ Chained(jobs', n + Len(List), asked["other"])
  BY <1>1, JobTaken
<1>. DEFINE l   == List
            out == wire \o queue
<1>4. /\ wire' \in Seq(Datagram) /\ queue' \in Seq(Datagram) /\ wire' \o queue' = out \o l
      /\ UNCHANGED <<udpFd, registered, taking>>
      /\ queue' # <<>> /\ udpFd = "open" => wantsOut' /\ (taking => edgeOut' \/ missed')
  BY <1>1, <1>2, DeliverKeeps
<1>5. /\ out \in Seq(Datagram) /\ l \in Seq(Datagram) /\ asked \in [Callers -> Nat]
      /\ Fifo(out, "loop", asked["loop"]) /\ Fifo(out, "other", n)
      /\ "loop" \in Callers /\ "other" \in Callers
  BY <1>2, <1>3, ConcatProperties DEF OrderInv, Callers
<1>6. \A i \in 1 .. Len(l) : l[i] = [by |-> "other", nr |-> n + i]
  BY <1>3 DEF Numbered
<1>. HIDE DEF l, out
<1>7. Fifo(out \o l, "other", n + Len(l))
  BY <1>5, <1>6, FifoAppend
<1>8. Fifo(out \o l, "loop", asked["loop"])
  <2>1. ASSUME NEW i \in 1 .. Len(l) PROVE l[i].by # "loop"
    <3>1. l[i] = [by |-> "other", nr |-> n + i]
      BY <1>6
    <3>. QED BY <3>1
  <2>. QED BY <1>5, <2>1, FifoOthers
<1>9. n + Len(l) \in Nat
  BY <1>5
<1>10. OrderInv'
  BY <1>1, <1>2, <1>3, <1>4, <1>5, <1>7, <1>8, <1>9 DEF OrderInv, l
<1>11. EventInv'
  BY <1>2, <1>4 DEF EventInv
<1>. QED BY <1>10, <1>11

(* The sends of the loop's thread *)
LEMMA HereKeeps ==
  ASSUME OrderInv, EventInv, NEW n \in Nat, SendHere(n)
  PROVE  OrderInv' /\ EventInv'
<1>. DEFINE l   == Made("loop", n)
            out == wire \o queue
            k   == asked["loop"]
<1>1. Deliver(l) /\ udpFd # "none" /\ jobs' = jobs /\ asked' = [asked EXCEPT !["loop"] = @ + n]
  BY DEF SendHere, Asks
<1>2. asked \in [Callers -> Nat] /\ k \in Nat /\ Fifo(out, "loop", k)
  BY DEF OrderInv, Callers
<1>3. /\ l \in Seq(Datagram) /\ Len(l) = n
      /\ \A i \in 1 .. Len(l) : l[i] = [by |-> "loop", nr |-> k + i]
  BY <1>2 DEF Made, Datagram, Callers
<1>4. /\ asked' \in [Callers -> Nat] /\ asked'["other"] = asked["other"] /\ asked'["loop"] = k + n
  BY <1>1, <1>2 DEF Callers
<1>. HIDE DEF l, k
<1>5. /\ wire' \in Seq(Datagram) /\ queue' \in Seq(Datagram) /\ wire' \o queue' = out \o l
      /\ UNCHANGED <<udpFd, registered, taking>>
      /\ queue' # <<>> /\ udpFd = "open" => wantsOut' /\ (taking => edgeOut' \/ missed')
  BY <1>1, <1>3, DeliverKeeps
<1>6. PICK m \in Nat : Fifo(out, "other", m) /\ Chained(jobs, m, asked["other"])
  BY DEF OrderInv
<1>7. out \in Seq(Datagram) /\ "loop" \in Callers /\ "other" \in Callers
  BY ConcatProperties DEF OrderInv, Callers
<1>. HIDE DEF out
<1>8. Fifo(out \o l, "loop", k + n)
  BY <1>2, <1>3, <1>7, FifoAppend
<1>9. Fifo(out \o l, "other", m)
  <2>1. ASSUME NEW i \in 1 .. Len(l) PROVE l[i].by # "other"
    <3>1. l[i] = [by |-> "loop", nr |-> k + i]
      BY <1>3
    <3>. QED BY <3>1
  <2>. QED BY <1>3, <1>6, <1>7, <2>1, FifoOthers
<1>10. OrderInv'
  BY <1>1, <1>4, <1>5, <1>6, <1>8, <1>9 DEF OrderInv
<1>11. EventInv'
  BY <1>1, <1>5 DEF EventInv
<1>. QED BY <1>10, <1>11

(* onWrite: the first ones that wait go *)
LEMMA WriteKeeps ==
  ASSUME OrderInv, EventInv, NEW k \in 0 .. Len(queue), OnWrite(k)
  PROVE  OrderInv' /\ EventInv'
<1>1. wire \in Seq(Datagram) /\ queue \in Seq(Datagram)
  BY DEF OrderInv
<1>2. /\ wire' = wire \o SubSeq(queue, 1, k) /\ queue' = SubSeq(queue, k + 1, Len(queue))
      /\ taking' = (k = Len(queue)) /\ udpFd = "open"
      /\ UNCHANGED <<udpFd, registered, wantsOut, jobs, asked, missed>>
  BY DEF OnWrite, Rest
<1>. DEFINE first == SubSeq(queue, 1, k)
            rest  == SubSeq(queue, k + 1, Len(queue))
<1>3. /\ first \in Seq(Datagram) /\ rest \in Seq(Datagram) /\ Len(rest) = Len(queue) - k
      /\ first \o rest = queue
  <2>1. /\ first \in Seq(Datagram) /\ Len(first) = k
        /\ \A i \in 1 .. k : first[i] = queue[i]
    BY <1>1
  <2>2. /\ rest \in Seq(Datagram) /\ Len(rest) = Len(queue) - k
        /\ \A i \in 1 .. Len(queue) - k : rest[i] = queue[k + i]
    BY <1>1
  <2>. DEFINE all == first \o rest
  <2>. HIDE DEF first, rest
  <2>3. /\ all \in Seq(Datagram) /\ Len(all) = Len(queue)
        /\ \A i \in 1 .. Len(queue) : all[i] = IF i <= k THEN first[i] ELSE rest[i - k]
    BY <1>1, <2>1, <2>2, ConcatProperties
  <2>. HIDE DEF all
  <2>4. \A i \in 1 .. Len(queue) : all[i] = queue[i]
    <3>. SUFFICES ASSUME NEW i \in 1 .. Len(queue)
                  PROVE  all[i] = queue[i]
      OBVIOUS
    <3>1. CASE i <= k
      BY <2>1, <2>3, <3>1
    <3>2. CASE ~(i <= k)
      <4>1. i - k \in 1 .. Len(queue) - k /\ k + (i - k) = i
        BY <1>1, <3>2
      <4>. QED BY <2>2, <2>3, <3>2, <4>1
    <3>. QED BY <3>1, <3>2
  <2>5. all = queue
    BY <1>1, <2>3, <2>4, SeqEqual
  <2>. QED BY <2>1, <2>2, <2>5 DEF all
<1>4. wire' = wire \o first /\ queue' = rest
  BY <1>2
<1>. HIDE DEF first, rest
<1>5. wire' \in Seq(Datagram) /\ wire' \o queue' = wire \o queue
  <2>1. wire \o first \in Seq(Datagram)
    BY <1>1, <1>3, ConcatProperties
  <2>2. (wire \o first) \o rest = wire \o (first \o rest)
    <3>1. wire \in Seq(Datagram) /\ first \in Seq(Datagram) /\ rest \in Seq(Datagram)
      BY <1>1, <1>3
    <3>. HIDE DEF Datagram
    <3>. QED BY <3>1, ConcatAssociative
  <2>. QED BY <1>3, <1>4, <2>1, <2>2
<1>6. OrderInv'
  BY <1>2, <1>3, <1>4, <1>5 DEF OrderInv
<1>7. taking' => queue' = <<>>
  <2>. SUFFICES ASSUME taking'
                PROVE  queue' = <<>>
    OBVIOUS
  <2>1. k = Len(queue)
    BY <1>2
  <2>2. rest \in Seq(Datagram) /\ Len(rest) = Len(queue) - k
    BY <1>3
  <2>3. Len(rest) = 0
    BY <1>1, <2>1, <2>2
  <2>4. rest = <<>>
    BY <2>2, <2>3, EmptySeq
  <2>. QED BY <1>4, <2>4
<1>8. queue' # <<>> => queue # <<>>
  BY <1>1, <1>3, <1>4
<1>9. EventInv'
  BY <1>2, <1>7, <1>8 DEF EventInv
<1>. QED BY <1>6, <1>9

LEMMA UdpNextHolds == OrderInv /\ EventInv /\ [UdpNext]_udpVars => OrderInv' /\ EventInv'
<1>. SUFFICES ASSUME OrderInv, EventInv, [UdpNext]_udpVars
              PROVE  OrderInv' /\ EventInv'
  OBVIOUS
<1>1. CASE Open
  BY <1>1, PopKeeps DEF Open
<1>2. ASSUME NEW n \in 1 .. 2, Send(n) PROVE OrderInv' /\ EventInv'
  <2>. DEFINE l   == Made("other", n)
              job == Job("send", l)
  <2>1. asked \in [Callers -> Nat] /\ asked["other"] \in Nat
    BY DEF OrderInv, Callers
  <2>2. l \in Seq(Datagram) /\ Len(l) = n /\ Numbered(l, asked["other"])
    BY <2>1 DEF Made, Datagram, Callers, Numbered
  <2>. HIDE DEF l
  <2>3. job \in UdpJobs /\ job.do = "send" /\ job.list = l
    BY <2>2 DEF Job, UdpJobs
  <2>4. jobs' = Append(jobs, job) /\ asked' = [asked EXCEPT !["other"] = @ + n]
    BY <1>2 DEF Send, Asks, l
  <2>5. UNCHANGED <<udpFd, registered, wantsOut, queue, wire, taking, edgeOut, missed>>
    BY <1>2 DEF Send
  <2>. HIDE DEF job
  <2>. QED BY <2>2, <2>3, <2>4, <2>5, AskKeeps
<1>3. ASSUME NEW what \in {"close", "stop"}, AskClose(what) PROVE OrderInv' /\ EventInv'
  <2>. DEFINE job == Job(what, <<>>)
  <2>1. job \in UdpJobs /\ job.do = what /\ job.list = <<>> /\ Len(job.list) = 0
    BY DEF Job, UdpJobs
  <2>2. Numbered(job.list, asked["other"]) /\ asked \in [Callers -> Nat]
    BY <2>1 DEF Numbered, OrderInv
  <2>3. jobs' = Append(jobs, job) /\ asked' = asked
    BY <1>3 DEF AskClose
  <2>4. UNCHANGED <<udpFd, registered, wantsOut, queue, wire, taking, edgeOut, missed>>
    BY <1>3 DEF AskClose
  <2>. HIDE DEF job
  <2>5. asked' = [asked EXCEPT !["other"] = @ + Len(job.list)]
    <3>1. asked["other"] \in Nat
      BY <2>2 DEF Callers
    <3>. QED BY <2>1, <2>2, <2>3, <3>1
  <2>. QED BY <2>1, <2>2, <2>3, <2>4, <2>5, AskKeeps
<1>4. CASE SendInLoop
  BY <1>4, SendKeeps
<1>5. CASE CloseInLoop
  <2>1. Run("close") /\ udpFd' \notin {"none", "open"} /\ UNCHANGED <<queue, asked, wire>>
    BY <1>5, JobTaken DEF CloseInLoop, CloseFd
  <2>. QED BY <2>1, PopKeeps
<1>6. CASE StopInLoop
  BY <1>6, PopKeeps DEF StopInLoop
<1>7. CASE Fails \/ StopHere
  BY <1>7, QuietUdp DEF Fails, CloseFd, StopHere
<1>8. CASE OnRead \/ Comes
  <2>1. UNCHANGED <<udpFd, registered, wantsOut, jobs, queue, asked, wire, taking>>
    BY <1>8 DEF OnRead, Comes
  <2>2. edgeOut \/ missed => edgeOut' \/ missed'
    BY <1>8 DEF OnRead, Comes
  <2>3. udpFd' = "open" /\ taking' /\ queue # <<>> => edgeOut' \/ missed'
    BY <2>1, <2>2 DEF EventInv
  <2>. QED BY <2>1, <2>3, QuietUdp
<1>9. CASE Fills \/ Drains
  BY <1>9, QuietUdp DEF Fills, Drains, EventInv
<1>10. ASSUME NEW k \in 0 .. Len(queue), OnWrite(k) PROVE OrderInv' /\ EventInv'
  BY <1>10, WriteKeeps
<1>11. ASSUME NEW n \in 1 .. 2, SendHere(n) PROVE OrderInv' /\ EventInv'
  BY <1>11, HereKeeps
<1>12. CASE UNCHANGED udpVars
  BY <1>12, QuietUdp DEF udpVars, EventInv
<1>. QED BY <1>1, <1>2, <1>3, <1>4, <1>5, <1>6, <1>7, <1>8, <1>9, <1>10, <1>11, <1>12 DEF UdpNext

LEMMA OrderedIn ==
  ASSUME OrderInv, EventInv
  PROVE  SendsInOrder
<1>1. PICK n \in Nat : Fifo(wire \o queue, "other", n) /\ Chained(jobs, n, asked["other"])
  BY DEF OrderInv
<1>2. PICK at \in Seq(Nat) :
        /\ Len(at) = Len(jobs) + 1 /\ at[1] = n /\ at[Len(jobs) + 1] = asked["other"]
        /\ \A j \in 1 .. Len(at) : at[j] <= asked["other"]
  BY <1>1 DEF Chained
<1>3. jobs \in Seq(UdpJobs) /\ Len(jobs) \in Nat /\ asked["other"] \in Nat
  BY DEF OrderInv, Callers
<1>4. n <= asked["other"]
  BY <1>2, <1>3
<1>5. jobs = <<>> => n = asked["other"]
  BY <1>2
<1>6. n \in 0 .. asked["other"]
  BY <1>3, <1>4
<1>. QED BY <1>1, <1>5, <1>6 DEF SendsInOrder, OrderInv, EventInv

(* SendsInOrder: whatever send, sendInLoop, onWrite, the closes and the    *)
(* kernel do, the datagrams of the loop's thread, and those of the other   *)
(* threads, go out once and each in the order of the calls, and those that *)
(* wait have an event to come unless it was lost with a read (onRead).     *)
THEOREM SendsInOrderTheorem == UdpSpec => []SendsInOrder
BY UdpInitHolds, UdpNextHolds, OrderedIn, PTL DEF UdpSpec
=============================================================================
