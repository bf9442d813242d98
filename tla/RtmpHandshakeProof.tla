------------------------- MODULE RtmpHandshakeProof -------------------------
(***************************************************************************)
(* Proofs about RtmpHandshake, for packets of any length, both kinds of    *)
(* client and every way to cut the two streams: what an end writes is      *)
(* C0C1, C2 and messages, and what its parser is given is what follows     *)
(* the handshake.                                                          *)
(***************************************************************************)
EXTENDS RtmpHandshake, SequenceTheorems, TLAPS

Stream == Seq(Bytes)

LEMMA Concat ==
  ASSUME NEW s \in Stream, NEW t \in Stream
  PROVE  s \o t \in Stream /\ Len(s \o t) = Len(s) + Len(t) /\ Len(s) \in Nat /\ Len(t) \in Nat
BY ConcatProperties, LenProperties DEF Stream

LEMMA Assoc ==
  ASSUME NEW s \in Stream, NEW t \in Stream, NEW u \in Stream
  PROVE  (s \o t) \o u = s \o (t \o u)
BY ConcatAssociative DEF Stream

LEMMA Empty ==
  ASSUME NEW s \in Stream
  PROVE  s \o <<>> = s /\ <<>> \o s = s /\ <<>> \in Stream /\ Len(s) \in Nat /\ (s = <<>> <=> Len(s) = 0)
BY ConcatEmptySeq, EmptySeq, LenProperties DEF Stream

(* What is left of a stream when n bytes are taken from it                 *)
LEMMA FromType ==
  ASSUME NEW s \in Stream, NEW n \in Nat, n <= Len(s)
  PROVE  From(s, n) \in Stream /\ Len(From(s, n)) = Len(s) - n
<1>1. Len(s) \in Nat /\ \A i \in n + 1 .. Len(s) : s[i] \in Bytes
  BY LenProperties, ElementOfSeq DEF Stream
<1>2. SubSeq(s, n + 1, Len(s)) \in Seq(Bytes)
  BY <1>1, SubSeqProperties
<1>3. Len(SubSeq(s, n + 1, Len(s))) = IF n + 1 <= Len(s) THEN Len(s) - (n + 1) + 1 ELSE 0
  BY <1>1, SubSeqProperties
<1>. QED BY <1>1, <1>2, <1>3 DEF From, Stream

LEMMA FirstType ==
  ASSUME NEW s \in Stream, NEW n \in Nat, n <= Len(s)
  PROVE  SubSeq(s, 1, n) \in Stream /\ Len(SubSeq(s, 1, n)) = n
<1>1. Len(s) \in Nat /\ \A i \in 1 .. n : s[i] \in Bytes
  BY LenProperties, ElementOfSeq DEF Stream
<1>2. SubSeq(s, 1, n) \in Seq(Bytes)
  BY <1>1, SubSeqProperties
<1>3. Len(SubSeq(s, 1, n)) = IF 1 <= n THEN n - 1 + 1 ELSE 0
  BY <1>1, SubSeqProperties
<1>. QED BY <1>1, <1>2, <1>3 DEF Stream

(* First n, then the rest                                                  *)
LEMMA Split ==
  ASSUME NEW s \in Stream, NEW n \in Nat, n <= Len(s)
  PROVE  /\ SubSeq(s, 1, n) \in Stream /\ Len(SubSeq(s, 1, n)) = n
         /\ From(s, n) \in Stream /\ Len(From(s, n)) = Len(s) - n
         /\ SubSeq(s, 1, n) \o From(s, n) = s
<1>1. Len(s) \in Nat /\ s \in Seq(Bytes)
  BY LenProperties DEF Stream
<1>2. 1 \in 1 .. Len(s) + 1 /\ n \in 1 - 1 .. Len(s) /\ Len(s) \in n .. Len(s)
  BY <1>1
<1>3. SubSeq(s, 1, n) \o SubSeq(s, n + 1, Len(s)) = SubSeq(s, 1, Len(s))
  BY <1>1, <1>2, ConcatAdjacentSubSeq, Zenon
<1>4. SubSeq(s, 1, Len(s)) = s
  BY <1>1, SubSeqFull
<1>5. SubSeq(s, 1, n) \o From(s, n) = s
  BY <1>3, <1>4, Zenon DEF From
<1>. QED BY <1>5, FirstType, FromType

(* ... which is the only way to cut it there                               *)
LEMMA Cut ==
  ASSUME NEW s \in Stream, NEW t \in Stream, NEW u \in Stream, u = s \o t
  PROVE  SubSeq(u, 1, Len(s)) = s /\ From(u, Len(s)) = t
<1>1. Len(s) \in Nat /\ Len(t) \in Nat /\ Len(u) = Len(s) + Len(t)
  BY Concat
<1>2. PICK n : n = Len(s)
  OBVIOUS
<1>3. PICK a, b : a = SubSeq(u, 1, n) /\ b = From(u, n)
  OBVIOUS
<1>4. a \in Stream /\ Len(a) = n /\ b \in Stream /\ Len(b) = Len(u) - n /\ a \o b = u
  <2>1. u \in Stream
    BY Concat
  <2>2. n \in Nat /\ n <= Len(u)
    BY <1>1, <1>2
  <2>. QED BY <1>3, <2>1, <2>2, Split
<1>5. \A i \in 1 .. n : a[i] = u[i] /\ s[i] = u[i]
  BY <1>1, <1>2, <1>4, ConcatProperties DEF Stream
<1>6. a = s
  BY <1>2, <1>4, <1>5, SeqEqual DEF Stream
<1>7. s \o b = s \o t
  BY <1>4, <1>6
<1>8. b = t
  <2>1. \A i \in 1 .. Len(b) : (s \o b)[n + i] = b[i]
    BY <1>1, <1>2, <1>4, ConcatProperties DEF Stream
  <2>2. \A i \in 1 .. Len(t) : (s \o t)[n + i] = t[i]
    BY <1>1, <1>2, ConcatProperties DEF Stream
  <2>3. Len(b) = Len(t)
    BY <1>1, <1>2, <1>4
  <2>4. \A i \in 1 .. Len(b) : b[i] = t[i]
    BY <1>7, <2>1, <2>2, <2>3
  <2>. QED BY <1>4, <2>3, <2>4, SeqEqual DEF Stream
<1>. QED BY <1>2, <1>3, <1>6, <1>8

LEMMA FromFrom ==
  ASSUME NEW s \in Stream, NEW m \in Nat, NEW n \in Nat, m + n <= Len(s)
  PROVE  From(From(s, m), n) = From(s, m + n)
<1>1. Len(s) \in Nat
  BY LenProperties DEF Stream
<1>2. PICK a, b, c, d : a = SubSeq(s, 1, m) /\ b = From(s, m) /\ c = SubSeq(b, 1, n) /\ d = From(b, n)
  OBVIOUS
<1>3. a \in Stream /\ Len(a) = m /\ b \in Stream /\ Len(b) = Len(s) - m /\ a \o b = s
  <2>1. m <= Len(s)
    BY <1>1
  <2>. QED BY <1>2, <2>1, Split
<1>4. c \in Stream /\ Len(c) = n /\ d \in Stream /\ c \o d = b
  <2>1. n <= Len(b)
    BY <1>1, <1>3
  <2>. QED BY <1>2, <1>3, <2>1, Split
<1>5. (a \o c) \o d = a \o (c \o d)
  <2>1. a \in Stream /\ c \in Stream /\ d \in Stream
    BY <1>3, <1>4
  <2>. QED BY <2>1, Assoc
<1>6. s = (a \o c) \o d
  BY <1>3, <1>4, <1>5, Zenon
<1>7. a \o c \in Stream /\ Len(a \o c) = m + n
  BY <1>3, <1>4, Concat
<1>8. From(s, Len(a \o c)) = d
  BY <1>4, <1>6, <1>7, Cut
<1>. QED BY <1>2, <1>7, <1>8

LEMMA FromConcat ==
  ASSUME NEW s \in Stream, NEW t \in Stream, NEW n \in Nat, n <= Len(s)
  PROVE  From(s \o t, n) = From(s, n) \o t
<1>1. PICK a, b : a = SubSeq(s, 1, n) /\ b = From(s, n)
  OBVIOUS
<1>2. a \in Stream /\ Len(a) = n /\ b \in Stream /\ a \o b = s
  BY <1>1, Split
<1>3. (a \o b) \o t = a \o (b \o t)
  BY ZenonT(30), <1>2, Assoc
<1>4. b \o t \in Stream /\ s \o t \in Stream
  BY <1>2, Concat
<1>5. s \o t = a \o (b \o t)
  BY <1>2, <1>3, Zenon
<1>6. From(s \o t, Len(a)) = b \o t
  <2>1. PICK u, v : u = s \o t /\ v = b \o t
    OBVIOUS
  <2>2. u \in Stream /\ v \in Stream /\ u = a \o v
    BY <1>4, <1>5, <2>1
  <2>3. From(u, Len(a)) = v
    BY <1>2, <2>2, Cut
  <2>. QED BY <2>1, <2>3
<1>. QED BY <1>1, <1>2, <1>6, Zenon

(* What a stream had before it has it still                                *)
Extends(s, t) == \E r \in Stream : t = s \o r

LEMMA ExtendsFirst ==
  ASSUME NEW s \in Stream, NEW t \in Stream, Extends(s, t), NEW n \in Nat, n <= Len(s)
  PROVE  SubSeq(t, 1, n) = SubSeq(s, 1, n) /\ n <= Len(t)
<1>1. PICK r \in Stream : t = s \o r
  BY DEF Extends
<1>2. Len(t) = Len(s) + Len(r) /\ Len(s) \in Nat /\ Len(r) \in Nat
  BY <1>1, Concat
<1>3. PICK a, b : a = SubSeq(s, 1, n) /\ b = From(s, n)
  OBVIOUS
<1>4. a \in Stream /\ Len(a) = n /\ b \in Stream /\ a \o b = s
  BY <1>3, Split
<1>5. (a \o b) \o r = a \o (b \o r)
  <2>1. a \in Stream /\ b \in Stream /\ r \in Stream
    BY <1>1, <1>4
  <2>. QED BY ZenonT(30), <2>1, Assoc
<1>6. t = a \o (b \o r)
  BY <1>1, <1>4, <1>5, Zenon
<1>7. b \o r \in Stream /\ a \o (b \o r) \in Stream
  BY <1>4, Concat
<1>8. SubSeq(t, 1, n) = a
  BY <1>4, <1>6, <1>7, Cut
<1>. QED BY <1>2, <1>3, <1>8

LEMMA ExtendsTrans ==
  ASSUME NEW s \in Stream, NEW t \in Stream, NEW u \in Stream, Extends(s, t), Extends(t, u)
  PROVE  Extends(s, u)
<1>1. PICK r \in Stream : t = s \o r
  BY DEF Extends
<1>2. PICK q \in Stream : u = t \o q
  BY DEF Extends
<1>3. (s \o r) \o q = s \o (r \o q)
  BY ZenonT(30), Assoc
<1>4. u = s \o (r \o q)
  BY <1>1, <1>2, <1>3, Zenon
<1>5. r \o q \in Stream
  BY Concat
<1>. QED BY <1>4, <1>5 DEF Extends

LEMMA ExtendsSelf ==
  ASSUME NEW s \in Stream
  PROVE  Extends(s, s)
BY Empty DEF Extends

(* A segment that arrives                                                  *)
LEMMA Segment ==
  ASSUME NEW s \in Stream, NEW k \in Nat, NEW n \in Nat, k + n <= Len(s)
  PROVE  /\ SubSeq(s, k + 1, k + n) \in Stream
         /\ SubSeq(s, 1, k) \o SubSeq(s, k + 1, k + n) = SubSeq(s, 1, k + n)
<1>1. Len(s) \in Nat /\ \A i \in k + 1 .. k + n : s[i] \in Bytes
  BY LenProperties, ElementOfSeq DEF Stream
<1>2. SubSeq(s, k + 1, k + n) \in Seq(Bytes)
  BY <1>1, SubSeqProperties
<1>3. SubSeq(s, 1, k) \o SubSeq(s, k + 1, k + n) = SubSeq(s, 1, k + n)
  BY <1>1, ConcatAdjacentSubSeq DEF Stream
<1>. QED BY <1>2, <1>3 DEF Stream

LEMMA HelloFacts ==
  /\ PacketSize \in Nat \ {0}
  /\ Hello \in Stream /\ Len(Hello) = PacketSize + 1 /\ Hello # <<>>
  /\ Echo \in Stream /\ Len(Echo) = PacketSize /\ Echo # <<>>
  /\ Message \in Stream /\ Len(Message) = 1 /\ Message # <<>>
<1>1. PacketSize \in Nat \ {0}
  BY RtmpHandshakeAssumption
<1>2. \A b \in Bytes : Repeat(b, PacketSize) \in Stream /\ Len(Repeat(b, PacketSize)) = PacketSize
  BY <1>1 DEF Repeat, Stream
<1>3. "1" \in Bytes /\ "2" \in Bytes /\ <<"v">> \in Stream /\ Len(<<"v">>) = 1
  BY DEF Bytes, Stream
<1>4. Message \in Stream /\ Len(Message) = 1
  BY DEF Bytes, Stream, Message
<1>5. Hello \in Stream /\ Len(Hello) = 1 + PacketSize
  BY <1>2, <1>3, Concat DEF Hello
<1>6. Echo \in Stream /\ Len(Echo) = PacketSize
  BY <1>2, <1>3 DEF Echo
<1>7. Hello # <<>> /\ Echo # <<>> /\ Message # <<>>
  <2>1. Len(Hello) # 0 /\ Len(Echo) # 0 /\ Len(Message) # 0
    BY <1>1, <1>4, <1>5, <1>6
  <2>. QED BY <1>4, <1>5, <1>6, <2>1, Empty
<1>8. Len(Hello) = PacketSize + 1
  BY <1>1, <1>5
<1>. QED BY <1>1, <1>4, <1>5, <1>6, <1>7, <1>8
-----------------------------------------------------------------------------
(* The same for an operator the provers leave as it is: they take \o apart *)
(* wherever they see it.                                                   *)
Cat(s, t) == s \o t
First(s, n) == SubSeq(s, 1, n)

LEMMA CatType ==
  ASSUME NEW s \in Stream, NEW t \in Stream
  PROVE  Cat(s, t) \in Stream /\ Len(Cat(s, t)) = Len(s) + Len(t) /\ Len(s) \in Nat /\ Len(t) \in Nat
BY Concat DEF Cat

LEMMA CatEmpty ==
  /\ <<>> \in Stream
  /\ \A s \in Stream : Cat(s, <<>>) = s /\ Cat(<<>>, s) = s /\ Len(s) \in Nat /\ (s = <<>> <=> Len(s) = 0)
BY Empty, EmptySeq DEF Cat, Stream

LEMMA CatAssoc ==
  ASSUME NEW s \in Stream, NEW t \in Stream, NEW u \in Stream
  PROVE  Cat(Cat(s, t), u) = Cat(s, Cat(t, u))
<1>1. (s \o t) \o u = s \o (t \o u)
  BY Assoc
<1>. QED BY <1>1, Zenon DEF Cat

LEMMA FromCat ==
  ASSUME NEW s \in Stream, NEW t \in Stream, NEW n \in Nat, n <= Len(s)
  PROVE  From(Cat(s, t), n) = Cat(From(s, n), t)
<1>1. From(s \o t, n) = From(s, n) \o t
  BY FromConcat
<1>. QED BY <1>1, Zenon DEF Cat

LEMMA FirstFrom ==
  ASSUME NEW s \in Stream, NEW n \in Nat, n <= Len(s)
  PROVE  /\ First(s, n) \in Stream /\ Len(First(s, n)) = n
         /\ From(s, n) \in Stream /\ Len(From(s, n)) = Len(s) - n
         /\ Cat(First(s, n), From(s, n)) = s
<1>1. PICK a, b : a = SubSeq(s, 1, n) /\ b = From(s, n)
  OBVIOUS
<1>2. a \in Stream /\ Len(a) = n /\ b \in Stream /\ Len(b) = Len(s) - n /\ a \o b = s
  BY <1>1, Split
<1>3. Cat(a, b) = s
  BY <1>2 DEF Cat
<1>4. a = First(s, n)
  BY <1>1 DEF First
<1>. QED BY <1>1, <1>2, <1>3, <1>4

LEMMA FromEnds ==
  ASSUME NEW s \in Stream
  PROVE  From(s, 0) = s /\ From(s, Len(s)) = <<>>
<1>1. Len(s) \in Nat /\ s \in Seq(Bytes)
  BY LenProperties DEF Stream
<1>2. SubSeq(s, 1, Len(s)) = s
  BY <1>1, SubSeqFull
<1>3. From(s, 0) = s
  BY <1>1, <1>2 DEF From
<1>4. From(s, Len(s)) \in Stream /\ Len(From(s, Len(s))) = Len(s) - Len(s)
  BY <1>1, FromType
<1>5. From(s, Len(s)) = <<>>
  <2>1. PICK b : b = From(s, Len(s))
    OBVIOUS
  <2>2. b \in Stream /\ Len(b) = 0
    BY <1>1, <1>4, <2>1
  <2>3. b = <<>>
    BY <2>2, CatEmpty
  <2>. QED BY <2>1, <2>3
<1>. QED BY <1>3, <1>5

LEMMA FirstKept ==
  ASSUME NEW s \in Stream, NEW t \in Stream, Extends(s, t), NEW n \in Nat, n <= Len(s)
  PROVE  First(t, n) = First(s, n) /\ n <= Len(t)
BY ExtendsFirst DEF First

(* Taking n more bytes from what was read of a stream a                    *)
LEMMA TakeLemma ==
  ASSUME NEW a \in Stream, NEW b \in Stream, NEW c \in Stream, NEW k \in Nat, k <= Len(a),
         Cat(b, c) = From(a, k), NEW n \in Nat, n <= Len(b)
  PROVE  /\ From(b, n) \in Stream /\ Cat(From(b, n), c) = From(a, k + n)
         /\ k + n <= Len(a) /\ Len(From(b, n)) = Len(b) - n
<1>1. /\ Cat(b, c) \in Stream /\ Len(Cat(b, c)) = Len(b) + Len(c) /\ Len(b) \in Nat /\ Len(c) \in Nat
      /\ Len(a) \in Nat
  BY CatType
<1>2. Len(From(a, k)) = Len(a) - k
  BY FromType
<1>3. k + n <= Len(a)
  BY <1>1, <1>2
<1>4. From(Cat(b, c), n) = Cat(From(b, n), c)
  BY FromCat
<1>5. From(From(a, k), n) = From(a, k + n)
  BY <1>3, FromFrom
<1>6. From(b, n) \in Stream /\ Len(From(b, n)) = Len(b) - n
  BY FromType
<1>. QED BY <1>3, <1>4, <1>5, <1>6

(* The n bytes after the first k *)
Seg(s, k, n) == SubSeq(s, k + 1, k + n)

LEMMA ArriveLemma ==
  ASSUME NEW s \in Stream, NEW k \in Nat, NEW n \in Nat, k + n <= Len(s)
  PROVE  Seg(s, k, n) \in Stream /\ First(s, k + n) = Cat(First(s, k), Seg(s, k, n))
<1>1. SubSeq(s, k + 1, k + n) \in Stream
      /\ SubSeq(s, 1, k) \o SubSeq(s, k + 1, k + n) = SubSeq(s, 1, k + n)
  BY Segment
<1>. QED BY <1>1, Zenon DEF First, Cat, Seg

LEMMA HeadAndTail ==
  ASSUME NEW b \in Stream, b # <<>>
  PROVE  /\ Head(b) \in Bytes /\ <<Head(b)>> \in Stream /\ Tail(b) \in Stream
         /\ Cat(<<Head(b)>>, Tail(b)) = b
<1>1. Head(b) \in Bytes /\ Tail(b) \in Seq(Bytes) /\ Len(Tail(b)) = Len(b) - 1
      /\ \A i \in 1 .. Len(Tail(b)) : Tail(b)[i] = b[i + 1]
  BY HeadTailProperties DEF Stream
<1>2. <<Head(b)>> \in Seq(Bytes)
  BY <1>1
<1>3. Len(b) \in Nat /\ Len(b) # 0
  BY Empty
<1>4. PICK u : u = <<Head(b)>> \o Tail(b)
  OBVIOUS
<1>5. /\ u \in Seq(Bytes) /\ Len(u) = Len(b)
      /\ \A i \in 1 .. Len(b) : u[i] = IF i <= 1 THEN Head(b) ELSE Tail(b)[i - 1]
  BY <1>1, <1>2, <1>3, <1>4, ConcatProperties
<1>6. \A i \in 1 .. Len(b) : u[i] = b[i]
  BY <1>1, <1>3, <1>5
<1>7. u = b
  BY <1>5, <1>6, SeqEqual DEF Stream
<1>. QED BY <1>1, <1>2, <1>4, <1>7 DEF Stream, Cat
-----------------------------------------------------------------------------
(* Writing: one end e becomes f                                            *)
ClientStates == {"Init", "PostC0C1", "WaitS0S1", "WaitS2", "PostC2", "Doning", "Done"}
ServerStates == {"WaitC0C1", "PostS0S1", "PostS2", "WaitC2", "Done"}

EndRec ==
  [client : BOOLEAN, code : BOOLEAN, hs : ClientStates \cup ServerStates, ctx : {"handshake", "message"},
   in : Stream, out : Stream, wrote : Stream, sock : Stream, edge : BOOLEAN, got : Stream, open : BOOLEAN]

(* What an end has said, written or queued *)
Spoken(e) == Cat(e.wrote, e.out)

(* Nothing changes but what is queued and written, and the handshake's     *)
(* state.                                                                  *)
Quiet(e, f) ==
  /\ e \in EndRec /\ f \in EndRec /\ Extends(e.wrote, f.wrote)
  /\ f.client = e.client /\ f.code = e.code /\ f.ctx = e.ctx /\ f.in = e.in
  /\ f.sock = e.sock /\ f.got = e.got /\ f.open = e.open

(* ... and b is said *)
Adds(e, f, b) == "none" \notin WriteResults => Spoken(f) = Cat(Spoken(e), b)

LEMMA EndTypes ==
  ASSUME NEW e \in EndRec
  PROVE  /\ e.in \in Stream /\ e.out \in Stream /\ e.wrote \in Stream /\ e.sock \in Stream /\ e.got \in Stream
         /\ e.client \in BOOLEAN /\ e.code \in BOOLEAN /\ e.edge \in BOOLEAN /\ e.open \in BOOLEAN
         /\ e.hs \in ClientStates \cup ServerStates /\ e.ctx \in {"handshake", "message"}
         /\ Spoken(e) \in Stream
<1>1. /\ e.in \in Stream /\ e.out \in Stream /\ e.wrote \in Stream /\ e.sock \in Stream /\ e.got \in Stream
      /\ e.client \in BOOLEAN /\ e.code \in BOOLEAN /\ e.edge \in BOOLEAN /\ e.open \in BOOLEAN
      /\ e.hs \in ClientStates \cup ServerStates /\ e.ctx \in {"handshake", "message"}
  BY DEF EndRec
<1>2. Spoken(e) \in Stream
  BY <1>1, CatType DEF Spoken
<1>. QED BY <1>1, <1>2

LEMMA QuietTrans ==
  ASSUME NEW e, NEW f, NEW g, Quiet(e, f), Quiet(f, g)
  PROVE  Quiet(e, g)
<1>1. e.wrote \in Stream /\ f.wrote \in Stream /\ g.wrote \in Stream
  BY EndTypes DEF Quiet
<1>2. Extends(e.wrote, g.wrote)
  BY <1>1, ExtendsTrans DEF Quiet
<1>. QED BY <1>2 DEF Quiet

LEMMA QuietState ==
  ASSUME NEW e \in EndRec, NEW h \in ClientStates \cup ServerStates, NEW f, f = [e EXCEPT !.hs = h]
  PROVE  Quiet(e, f) /\ Spoken(f) = Spoken(e) /\ f.hs = h /\ f.out = e.out
<1>1. e.wrote \in Stream
  BY EndTypes
<1>2. /\ f \in EndRec /\ f.hs = h /\ f.out = e.out /\ f.wrote = e.wrote
      /\ f.client = e.client /\ f.code = e.code /\ f.ctx = e.ctx /\ f.in = e.in
      /\ f.sock = e.sock /\ f.got = e.got /\ f.open = e.open
  BY DEF EndRec
<1>3. Extends(e.wrote, f.wrote)
  BY <1>1, <1>2, ExtendsSelf
<1>4. Quiet(e, f) /\ Spoken(f) = Spoken(e)
  BY <1>2, <1>3 DEF Quiet, Spoken
<1>. QED BY <1>2, <1>4

(* Bytes that go to the end of the queue, the first part of which is       *)
(* written                                                                 *)
Kept(e, f) ==
  /\ e \in EndRec /\ f \in EndRec /\ f.hs = e.hs /\ f.client = e.client /\ f.code = e.code
  /\ f.ctx = e.ctx /\ f.in = e.in /\ f.sock = e.sock /\ f.got = e.got /\ f.open = e.open

LEMMA Queued ==
  ASSUME NEW e, NEW f, Kept(e, f), NEW b \in Stream, NEW w \in Stream, NEW q \in Stream,
         f.wrote = Cat(e.wrote, w), f.out = q
  PROVE  /\ Quiet(e, f)
         /\ Cat(w, q) = Cat(e.out, b) => Spoken(f) = Cat(Spoken(e), b)
<1>1. e.wrote \in Stream /\ e.out \in Stream
  BY EndTypes DEF Kept
<1>2. Extends(e.wrote, f.wrote)
  BY DEF Extends, Cat
<1>3. Cat(Cat(e.wrote, w), q) = Cat(e.wrote, Cat(w, q))
  BY <1>1, CatAssoc
<1>4. Cat(Cat(e.wrote, e.out), b) = Cat(e.wrote, Cat(e.out, b))
  BY <1>1, CatAssoc
<1>5. ASSUME Cat(w, q) = Cat(e.out, b) PROVE Spoken(f) = Cat(Spoken(e), b)
  BY <1>3, <1>4, <1>5, Zenon DEF Spoken
<1>6. Quiet(e, f)
  BY <1>2 DEF Quiet, Kept
<1>. QED BY <1>5, <1>6

LEMMA WriteLemma ==
  ASSUME NEW e \in EndRec, NEW b \in Stream, b # <<>>, NEW w \in WriteResults, NEW f, f = Write(e, b, w)
  PROVE  Quiet(e, f) /\ f.hs = e.hs /\ Adds(e, f, b)
<1>1. e.wrote \in Stream /\ e.out \in Stream /\ <<>> \in Stream
  BY EndTypes, CatEmpty
<1>2. Head(b) \in Bytes /\ <<Head(b)>> \in Stream /\ Tail(b) \in Stream /\ Cat(<<Head(b)>>, Tail(b)) = b
  BY HeadAndTail
<1>. SUFFICES \E v \in Stream, q \in Stream :
                /\ Kept(e, f) /\ f.wrote = Cat(e.wrote, v) /\ f.out = q
                /\ "none" \notin WriteResults => Cat(v, q) = Cat(e.out, b)
  <2>1. PICK v \in Stream, q \in Stream :
          /\ Kept(e, f) /\ f.wrote = Cat(e.wrote, v) /\ f.out = q
          /\ "none" \notin WriteResults => Cat(v, q) = Cat(e.out, b)
    OBVIOUS
  <2>2. Quiet(e, f) /\ (Cat(v, q) = Cat(e.out, b) => Spoken(f) = Cat(Spoken(e), b))
    BY <2>1, Queued
  <2>3. f.hs = e.hs
    BY <2>1 DEF Kept
  <2>. QED BY <2>1, <2>2, <2>3 DEF Adds
<1>4. CASE e.out # <<>>
  <2>1. Cat(e.wrote, <<>>) = e.wrote /\ Cat(e.out, b) \in Stream
    BY <1>1, CatEmpty, CatType
  <2>2. Cat(<<>>, Cat(e.out, b)) = Cat(e.out, b)
    BY <2>1, CatEmpty
  <2>3. PICK q \in Stream : q = Cat(e.out, b)
    BY <2>1
  <2>4. f = [e EXCEPT !.out = q, !.edge = TRUE]
    BY <1>4, <2>3 DEF Write, Cat
  <2>5. Kept(e, f) /\ f.wrote = e.wrote /\ f.out = q
    BY <2>4 DEF EndRec, Kept
  <2>. QED BY <1>1, <2>1, <2>2, <2>3, <2>5
<1>5. CASE e.out = <<>> /\ w = "all"
  <2>1. Cat(b, <<>>) = b /\ Cat(<<>>, b) = b /\ Cat(e.wrote, b) \in Stream
    BY <1>1, CatEmpty, CatType
  <2>2. PICK s \in Stream : s = Cat(e.wrote, b)
    BY <2>1
  <2>3. f = [e EXCEPT !.wrote = s]
    BY <1>5, <2>2 DEF Write, Cat
  <2>4. Kept(e, f) /\ f.wrote = s /\ f.out = <<>>
    BY <1>5, <2>3 DEF EndRec, Kept
  <2>. QED BY <1>1, <1>5, <2>1, <2>2, <2>4
<1>6. CASE e.out = <<>> /\ w = "part"
  <2>1. Cat(<<>>, b) = b
    BY CatEmpty
  <2>2. Append(e.wrote, Head(b)) = e.wrote \o <<Head(b)>> /\ Cat(e.wrote, <<Head(b)>>) \in Stream
    BY <1>1, <1>2, AppendIsConcat, CatType DEF Stream
  <2>3. PICK s \in Stream, q \in Stream : s = Cat(e.wrote, <<Head(b)>>) /\ q = Tail(b)
    BY <1>2, <2>2
  <2>4. s = Append(e.wrote, Head(b))
    BY <2>2, <2>3, Zenon DEF Cat
  <2>5. f = [e EXCEPT !.wrote = s, !.out = q, !.edge = TRUE]
    BY <1>6, <2>3, <2>4 DEF Write
  <2>6. Kept(e, f) /\ f.wrote = s /\ f.out = q
    BY <2>5 DEF EndRec, Kept
  <2>. QED BY <1>2, <1>6, <2>1, <2>3, <2>6
<1>7. CASE e.out = <<>> /\ w \notin {"all", "part"}
  <2>1. w = "none" /\ "none" \in WriteResults
    BY <1>7, RtmpHandshakeAssumption
  <2>2. <<"stray">> \in Stream
    BY DEF Bytes, Stream
  <2>3. Cat(e.wrote, <<>>) = e.wrote /\ Cat(<<"stray">>, b) \in Stream
    BY <1>1, <2>2, CatEmpty, CatType
  <2>4. PICK q \in Stream : q = Cat(<<"stray">>, b)
    BY <2>3
  <2>5. f = [e EXCEPT !.out = q, !.edge = TRUE]
    BY <1>7, <2>1, <2>4 DEF Write, Cat
  <2>6. Kept(e, f) /\ f.wrote = e.wrote /\ f.out = q
    BY <2>5 DEF EndRec, Kept
  <2>. QED BY <1>1, <2>1, <2>3, <2>6
<1>. QED BY <1>4, <1>5, <1>6, <1>7

LEMMA SendListLemma ==
  ASSUME NEW e \in EndRec, NEW b \in Stream, NEW f, f = SendList(e, b)
  PROVE  Quiet(e, f) /\ f.hs = e.hs /\ Adds(e, f, b)
<1>1. e.wrote \in Stream /\ e.out \in Stream /\ <<>> \in Stream
  BY EndTypes, CatEmpty
<1>2. Cat(e.wrote, <<>>) = e.wrote /\ Cat(e.out, b) \in Stream
  BY <1>1, CatEmpty, CatType
<1>3. PICK q \in Stream : q = Cat(e.out, b)
  BY <1>2
<1>4. f = [e EXCEPT !.out = q, !.edge = TRUE]
  BY <1>3 DEF SendList, Cat
<1>5. Kept(e, f) /\ f.wrote = e.wrote /\ f.out = q
  BY <1>4 DEF EndRec, Kept
<1>6. f.wrote = Cat(e.wrote, <<>>)
  BY <1>2, <1>5
<1>7. Quiet(e, f) /\ (Cat(<<>>, q) = Cat(e.out, b) => Spoken(f) = Cat(Spoken(e), b))
  BY <1>1, <1>5, <1>6, Queued
<1>8. Cat(<<>>, q) = Cat(e.out, b)
  BY <1>3, CatEmpty
<1>. QED BY <1>5, <1>7, <1>8 DEF Kept, Adds

LEMMA AfterWriteType ==
  /\ \A h \in ClientStates : AfterWrite(h) \in ClientStates
  /\ \A h \in ServerStates : AfterWrite(h) \in ServerStates
BY DEF AfterWrite, ClientStates, ServerStates

LEMMA SendC2S2Lemma ==
  ASSUME NEW e \in EndRec, NEW w \in WriteResults, NEW f, f = SendC2S2(e, w)
  PROVE  Quiet(e, f) /\ f.hs \in {e.hs, AfterWrite(e.hs)} /\ Adds(e, f, Echo)
<1>1. PICK s : s = Write(e, Echo, w)
  OBVIOUS
<1>2. Quiet(e, s) /\ s.hs = e.hs /\ Adds(e, s, Echo)
  BY <1>1, HelloFacts, WriteLemma
<1>3. CASE s.out = <<>>
  <2>1. PICK h : h = AfterWrite(s.hs)
    OBVIOUS
  <2>2. f = [s EXCEPT !.hs = h]
    BY <1>1, <1>3, <2>1 DEF SendC2S2
  <2>3. h \in ClientStates \cup ServerStates /\ s \in EndRec
    BY <1>2, <2>1, EndTypes, AfterWriteType DEF Quiet
  <2>4. Quiet(s, f) /\ Spoken(f) = Spoken(s) /\ f.hs = h
    BY <2>2, <2>3, QuietState
  <2>. QED BY <1>2, <2>1, <2>4, QuietTrans DEF Adds
<1>4. CASE s.out # <<>>
  BY <1>1, <1>2, <1>4 DEF SendC2S2
<1>. QED BY <1>3, <1>4

LEMMA WriteCompleteLemma ==
  ASSUME NEW e \in EndRec, NEW w \in WriteResults, NEW f, f = WriteComplete(e, w)
  PROVE  /\ Quiet(e, f)
         /\ e.hs = "PostS0S1" => f.hs \in {"PostS2", "WaitC2"} /\ Adds(e, f, Echo)
         /\ e.hs # "PostS0S1" => f.hs = AfterWrite(e.hs) /\ Spoken(f) = Spoken(e)
<1>1. CASE e.hs = "PostS0S1"
  <2>1. PICK s : s = [e EXCEPT !.hs = "PostS2"]
    OBVIOUS
  <2>2. Quiet(e, s) /\ Spoken(s) = Spoken(e) /\ s.hs = "PostS2"
    <3>1. "PostS2" \in ClientStates \cup ServerStates
      BY DEF ServerStates
    <3>. QED BY <2>1, <3>1, QuietState
  <2>3. f = SendC2S2(s, w)
    BY <1>1, <2>1 DEF WriteComplete
  <2>4. Quiet(s, f) /\ f.hs \in {s.hs, AfterWrite(s.hs)} /\ Adds(s, f, Echo)
    <3>1. s \in EndRec
      BY <2>2 DEF Quiet
    <3>. QED BY <2>3, <3>1, SendC2S2Lemma
  <2>5. AfterWrite("PostS2") = "WaitC2"
    BY DEF AfterWrite
  <2>. QED BY <1>1, <2>2, <2>4, <2>5, QuietTrans DEF Adds
<1>2. CASE e.hs # "PostS0S1"
  <2>1. PICK h : h = AfterWrite(e.hs)
    OBVIOUS
  <2>2. h \in ClientStates \cup ServerStates
    BY <2>1, EndTypes, AfterWriteType
  <2>3. f = [e EXCEPT !.hs = h]
    BY <1>2, <2>1 DEF WriteComplete
  <2>. QED BY <1>2, <2>1, <2>2, <2>3, QuietState
<1>. QED BY <1>1, <1>2

LEMMA SendC1S1Lemma ==
  ASSUME NEW e \in EndRec, e.hs \in {"PostC0C1", "PostS0S1"}, NEW w \in Outcomes, NEW f, f = SendC1S1(e, w)
  PROVE  /\ Quiet(e, f)
         /\ e.hs = "PostC0C1" => f.hs \in {"PostC0C1", "WaitS0S1"} /\ Adds(e, f, Hello)
         /\ e.hs = "PostS0S1" =>
              \/ f.hs = "PostS0S1" /\ Adds(e, f, Hello)
              \/ f.hs \in {"PostS2", "WaitC2"} /\ Adds(e, f, Cat(Hello, Echo))
<1>1. w[1] \in WriteResults /\ w[2] \in WriteResults
  BY DEF Outcomes
<1>2. PICK s : s = Write(e, Hello, w[1])
  OBVIOUS
<1>3. Quiet(e, s) /\ s.hs = e.hs /\ Adds(e, s, Hello)
  BY <1>1, <1>2, HelloFacts, WriteLemma
<1>4. CASE s.out = <<>>
  <2>1. f = WriteComplete(s, w[2])
    BY <1>2, <1>4 DEF SendC1S1
  <2>2. /\ Quiet(s, f)
        /\ s.hs = "PostS0S1" => f.hs \in {"PostS2", "WaitC2"} /\ Adds(s, f, Echo)
        /\ s.hs # "PostS0S1" => f.hs = AfterWrite(s.hs) /\ Spoken(f) = Spoken(s)
    <3>1. s \in EndRec
      BY <1>3 DEF Quiet
    <3>. QED BY <1>1, <2>1, <3>1, WriteCompleteLemma
  <2>3. AfterWrite("PostC0C1") = "WaitS0S1"
    BY DEF AfterWrite
  <2>4. Quiet(e, f)
    BY <1>3, <2>2, QuietTrans
  <2>5. ASSUME e.hs = "PostS0S1" PROVE Adds(e, f, Cat(Hello, Echo))
    <3>1. Cat(Cat(Spoken(e), Hello), Echo) = Cat(Spoken(e), Cat(Hello, Echo))
      BY EndTypes, HelloFacts, CatAssoc
    <3>. QED BY <1>3, <2>2, <2>5, <3>1 DEF Adds
  <2>. QED BY <1>3, <2>2, <2>3, <2>4, <2>5 DEF Adds
<1>5. CASE s.out # <<>>
  BY <1>2, <1>3, <1>5 DEF SendC1S1
<1>. QED BY <1>4, <1>5
-----------------------------------------------------------------------------
(* Reading                                                                 *)

(* What an end has taken of the handshake of its peer *)
Taken(e) ==
  IF e.ctx = "message" THEN 2 * PacketSize + 1
  ELSE IF e.hs \in {"PostC2", "Done", "PostS0S1", "PostS2", "WaitC2"} THEN PacketSize + 1 ELSE 0

(* What was read and is to be read is what follows, in the stream a        *)
Hears(e, a) == Taken(e) <= Len(a) /\ Cat(Cat(e.got, e.in), e.sock) = From(a, Taken(e))

Both == Cat(Hello, Echo)
All  == Cat(Both, Message)

(* What this code has said in a state, and what another client has         *)
Said(e) ==
  IF e.ctx = "message" THEN IF e.client \/ e.got # <<>> THEN All ELSE Both
  ELSE IF e.hs \in {"Init", "WaitC0C1"} THEN <<>>
  ELSE IF e.hs \in {"PostC0C1", "WaitS0S1", "PostS0S1"} THEN Hello ELSE Both

Foretold(hs) ==
  IF hs = "Init" THEN <<>> ELSE IF hs = "WaitS0S1" THEN Hello ELSE IF hs = "WaitS2" THEN Both ELSE All

Says(e) ==
  IF e.code THEN Spoken(e) = Said(e)
  ELSE e.out = <<>> /\ (e.wrote = Foretold(e.hs) \/ (e.wrote # <<>> /\ Head(e.wrote) = "bad"))

(* The states of RtmpContext and of RtmpHandShake that go together *)
EndOK(e) ==
  /\ e \in EndRec
  /\ e.client => e.hs \in ClientStates
  /\ ~e.client => e.hs \in ServerStates /\ e.code
  /\ e.code => e.hs # "WaitS2"
  /\ ~e.code => e.ctx = "handshake"
  /\ e.ctx = "handshake" => e.got = <<>> /\ e.hs # "Doning" /\ (e.hs = "Done" => e.client)
  /\ e.ctx = "message" => e.hs \in {"Doning", "Done"}

(* e becomes f, where a has arrived *)
Good(e, f, a) ==
  /\ EndOK(f) /\ f.client = e.client /\ f.code = e.code /\ Extends(e.wrote, f.wrote)
  /\ f.code => Hears(f, a)
  /\ "none" \notin WriteResults => (Says(e) => Says(f))

LEMMA SpeechFacts ==
  /\ Both \in Stream /\ All \in Stream
  /\ Cat(<<>>, Hello) = Hello /\ Cat(<<>>, Both) = Both
  /\ Cat(Hello, Echo) = Both /\ Cat(Both, Message) = All
<1>1. Both \in Stream
  BY HelloFacts, CatType DEF Both
<1>2. All \in Stream
  BY <1>1, HelloFacts, CatType DEF All
<1>. QED BY <1>1, <1>2, HelloFacts, CatEmpty DEF Both, All

LEMMA GoodTrans ==
  ASSUME NEW e \in EndRec, NEW f, NEW g, NEW a, Good(e, f, a), Good(f, g, a)
  PROVE  Good(e, g, a)
<1>1. e.wrote \in Stream /\ f.wrote \in Stream /\ g.wrote \in Stream
  BY EndTypes DEF Good, EndOK
<1>2. Extends(e.wrote, g.wrote)
  BY <1>1, ExtendsTrans DEF Good
<1>. QED BY <1>2 DEF Good

LEMMA GoodSelf ==
  ASSUME NEW e, NEW a, EndOK(e), e.code => Hears(e, a)
  PROVE  Good(e, e, a)
<1>1. Extends(e.wrote, e.wrote)
  BY EndTypes, ExtendsSelf DEF EndOK
<1>. QED BY <1>1 DEF Good

(* An event, and a close, disturb nothing *)
LEMMA CloseLemma ==
  ASSUME NEW e, NEW a, EndOK(e), e.code => Hears(e, a), NEW f, f = Close(e)
  PROVE  Good(e, f, a)
<1>1. /\ f \in EndRec /\ f.client = e.client /\ f.code = e.code /\ f.hs = e.hs /\ f.ctx = e.ctx
      /\ f.in = e.in /\ f.out = e.out /\ f.wrote = e.wrote /\ f.sock = e.sock /\ f.got = e.got
  BY DEF Close, EndOK, EndRec
<1>2. Extends(e.wrote, f.wrote)
  BY <1>1, EndTypes, ExtendsSelf DEF EndOK
<1>3. EndOK(f)
  BY <1>1 DEF EndOK
<1>4. Taken(f) = Taken(e) /\ Said(f) = Said(e) /\ Spoken(f) = Spoken(e)
  BY <1>1 DEF Taken, Said, Spoken
<1>5. f.code => Hears(f, a)
  BY <1>1, <1>4 DEF Hears
<1>6. Says(e) => Says(f)
  BY <1>1, <1>4 DEF Says
<1>. QED BY <1>1, <1>2, <1>3, <1>5, <1>6 DEF Good

(* A quiet step of this code, from what the buffer is cut to *)
LEMMA QuietGood ==
  ASSUME NEW e \in EndRec, NEW m, NEW f, NEW a,
         Extends(e.wrote, m.wrote), m.client = e.client, m.code = e.code,
         Quiet(m, f), EndOK(f), Hears(m, a), Taken(f) = Taken(m),
         "none" \notin WriteResults => (Says(e) => Says(f))
  PROVE  Good(e, f, a)
<1>1. e.wrote \in Stream /\ m.wrote \in Stream /\ f.wrote \in Stream
  BY EndTypes DEF Quiet
<1>2. Extends(e.wrote, f.wrote)
  BY <1>1, ExtendsTrans DEF Quiet
<1>3. Hears(f, a)
  BY DEF Quiet, Hears
<1>. QED BY <1>2, <1>3 DEF Good, Quiet

LEMMA WaitC0C1Lemma ==
  ASSUME NEW e, EndOK(e), e.code, e.ctx = "handshake", e.hs = "WaitC0C1",
         NEW a \in Stream, Hears(e, a), NEW w \in Outcomes, NEW f, f = WaitC0C1(e, w)
  PROVE  Good(e, f, a)
<1>1. /\ e \in EndRec /\ ~e.client /\ e.got = <<>> /\ e.in \in Stream /\ e.sock \in Stream
      /\ e.wrote \in Stream
  BY EndTypes DEF EndOK, ClientStates
<1>2. CASE Len(e.in) < PacketSize + 1
  <2>1. f = e
    BY <1>2 DEF WaitC0C1
  <2>. QED BY <2>1, GoodSelf
<1>3. CASE ~(Len(e.in) < PacketSize + 1) /\ ~Accepted(SubSeq(e.in, 1, PacketSize + 1))
  <2>1. f = Close(e)
    BY <1>3 DEF WaitC0C1
  <2>. QED BY <2>1, CloseLemma
<1>4. CASE ~(Len(e.in) < PacketSize + 1) /\ Accepted(SubSeq(e.in, 1, PacketSize + 1))
  <2>1. PICK i : i = From(e.in, PacketSize + 1)
    OBVIOUS
  <2>2. PICK m : m = [e EXCEPT !.hs = "PostS0S1", !.in = i]
    OBVIOUS
  <2>3. f = SendC1S1(m, w)
    BY <1>4, <2>1, <2>2 DEF WaitC0C1
  <2>4. i \in Stream /\ Cat(i, e.sock) = From(a, PacketSize + 1) /\ PacketSize + 1 <= Len(a)
    <3>1. Taken(e) = 0
      BY DEF Taken
    <3>2. Cat(e.in, e.sock) = From(a, 0) /\ 0 <= Len(a)
      BY <1>1, <3>1, CatEmpty DEF Hears
    <3>3. PacketSize + 1 \in Nat /\ PacketSize + 1 <= Len(e.in) /\ 0 \in Nat /\ 0 + (PacketSize + 1) = PacketSize + 1
      BY <1>1, <1>4, HelloFacts, CatEmpty
    <3>. QED BY <1>1, <2>1, <3>2, <3>3, TakeLemma
  <2>5. /\ m \in EndRec /\ m.client = e.client /\ m.code = e.code /\ m.ctx = "handshake" /\ m.got = <<>>
        /\ m.in = i /\ m.sock = e.sock /\ m.hs = "PostS0S1" /\ m.wrote = e.wrote /\ m.out = e.out
    BY <1>1, <2>2, <2>4 DEF EndRec, ServerStates
  <2>6. /\ Quiet(m, f)
        /\ \/ f.hs = "PostS0S1" /\ Adds(m, f, Hello)
           \/ f.hs \in {"PostS2", "WaitC2"} /\ Adds(m, f, Cat(Hello, Echo))
    BY <2>3, <2>5, SendC1S1Lemma
  <2>7. f.client = e.client /\ f.code = e.code /\ f.ctx = "handshake" /\ f.got = <<>> /\ f \in EndRec
    BY <2>5, <2>6 DEF Quiet
  <2>8. EndOK(f)
    BY <1>1, <2>6, <2>7 DEF EndOK, ServerStates
  <2>9. Taken(m) = PacketSize + 1 /\ Taken(f) = PacketSize + 1
    BY <2>5, <2>6, <2>7 DEF Taken
  <2>10. Hears(m, a)
    <3>1. Cat(m.got, m.in) = i
      BY <2>4, <2>5, CatEmpty
    <3>. QED BY <2>4, <2>5, <2>9, <3>1 DEF Hears
  <2>11. ASSUME "none" \notin WriteResults, Says(e) PROVE Says(f)
    <3>1. Spoken(e) = <<>>
      BY <2>11 DEF Says, Said
    <3>2. Spoken(m) = <<>>
      BY <2>5, <3>1 DEF Spoken
    <3>3. \/ f.hs = "PostS0S1" /\ Spoken(f) = Hello
          \/ f.hs \in {"PostS2", "WaitC2"} /\ Spoken(f) = Both
      BY <2>6, <2>11, <3>2, SpeechFacts DEF Adds
    <3>4. Spoken(f) = Said(f)
      BY <2>7, <3>3 DEF Said
    <3>. QED BY <2>7, <3>4 DEF Says
  <2>12. Extends(e.wrote, m.wrote)
    BY <1>1, <2>5, ExtendsSelf
  <2>. QED BY <1>1, <2>5, <2>6, <2>8, <2>9, <2>10, <2>11, <2>12, QuietGood
<1>. QED BY <1>2, <1>3, <1>4

LEMMA WaitS0S1Lemma ==
  ASSUME NEW e, EndOK(e), e.code, e.ctx = "handshake", e.hs = "WaitS0S1",
         NEW a \in Stream, Hears(e, a), NEW w \in Outcomes, NEW f, f = WaitS0S1(e, w)
  PROVE  Good(e, f, a)
<1>1. /\ e \in EndRec /\ e.client /\ e.got = <<>> /\ e.in \in Stream /\ e.sock \in Stream
      /\ e.wrote \in Stream /\ Len(e.in) \in Nat /\ w[1] \in WriteResults
  BY EndTypes, CatEmpty DEF EndOK, ServerStates, Outcomes
<1>2. CASE Len(e.in) < PacketSize + 1
  <2>1. f = e
    BY <1>2 DEF WaitS0S1
  <2>. QED BY <2>1, GoodSelf
<1>3. CASE ~(Len(e.in) < PacketSize + 1) /\ ~Accepted(SubSeq(e.in, 1, PacketSize + 1))
  <2>1. f = Close(e)
    BY <1>3 DEF WaitS0S1
  <2>. QED BY <2>1, CloseLemma
<1>4. CASE ~(Len(e.in) < PacketSize + 1) /\ Accepted(SubSeq(e.in, 1, PacketSize + 1))
  <2>1. PICK i : i = From(e.in, PacketSize + 1)
    OBVIOUS
  <2>2. /\ i \in Stream /\ Cat(i, e.sock) = From(a, PacketSize + 1) /\ PacketSize + 1 <= Len(a)
        /\ Len(i) = Len(e.in) - (PacketSize + 1)
    <3>1. Taken(e) = 0
      BY DEF Taken
    <3>2. Cat(e.in, e.sock) = From(a, 0) /\ 0 <= Len(a)
      BY <1>1, <3>1, CatEmpty DEF Hears
    <3>3. PacketSize + 1 \in Nat /\ PacketSize + 1 <= Len(e.in) /\ 0 \in Nat /\ 0 + (PacketSize + 1) = PacketSize + 1
      BY <1>1, <1>4, HelloFacts
    <3>. QED BY <1>1, <2>1, <3>2, <3>3, TakeLemma
  <2>3. AfterWrite("Doning") = "Done" /\ AfterWrite("PostC2") = "Done"
    BY DEF AfterWrite
  <2>4. CASE Len(i) = PacketSize
    <3>1. PICK m : m = [e EXCEPT !.hs = "Doning", !.in = <<>>]
      OBVIOUS
    <3>2. PICK g : g = SendC2S2(m, w[1])
      OBVIOUS
    <3>3. PICK h : h = [g EXCEPT !.ctx = "message"]
      OBVIOUS
    <3>4. f = SendList(h, Message)
      BY <1>4, <2>1, <2>4, <3>1, <3>2, <3>3 DEF WaitS0S1
    <3>5. /\ m \in EndRec /\ m.client = e.client /\ m.code = e.code /\ m.ctx = "handshake" /\ m.got = <<>>
          /\ m.in = <<>> /\ m.sock = e.sock /\ m.hs = "Doning" /\ m.wrote = e.wrote /\ m.out = e.out
      BY <1>1, <3>1, CatEmpty DEF EndRec, ClientStates
    <3>6. Quiet(m, g) /\ g.hs \in {"Doning", "Done"} /\ Adds(m, g, Echo)
      BY <1>1, <2>3, <3>2, <3>5, SendC2S2Lemma
    <3>7. /\ h \in EndRec /\ h.client = e.client /\ h.code = e.code /\ h.ctx = "message" /\ h.got = <<>>
          /\ h.in = <<>> /\ h.sock = e.sock /\ h.hs = g.hs /\ h.wrote = g.wrote /\ h.out = g.out
      BY <3>3, <3>5, <3>6 DEF Quiet, EndRec
    <3>8. Quiet(h, f) /\ f.hs = h.hs /\ Adds(h, f, Message)
      BY <3>4, <3>7, HelloFacts, SendListLemma
    <3>9. /\ f \in EndRec /\ f.client = e.client /\ f.code = e.code /\ f.ctx = "message" /\ f.got = <<>>
          /\ f.hs \in {"Doning", "Done"}
      BY <3>6, <3>7, <3>8 DEF Quiet
    <3>10. EndOK(f)
      BY <1>1, <3>9 DEF EndOK, ClientStates
    <3>11. Taken(h) = 2 * PacketSize + 1 /\ Taken(f) = 2 * PacketSize + 1
      BY <3>7, <3>9 DEF Taken
    <3>12. Hears(h, a)
      <4>1. 2 * PacketSize + 1 \in Nat /\ 2 * PacketSize + 1 = Len(e.in)
        <5>1. PICK n, k : n = Len(e.in) /\ k = PacketSize
          OBVIOUS
        <5>2. n \in Nat /\ k \in Nat /\ k = n - (k + 1)
          BY <1>1, <2>2, <2>4, <5>1, HelloFacts
        <5>3. 2 * k + 1 \in Nat /\ 2 * k + 1 = n
          BY <5>2
        <5>. QED BY <5>1, <5>3
      <4>2. Taken(e) = 0
        BY DEF Taken
      <4>3. Cat(e.in, e.sock) = From(a, 0) /\ 0 <= Len(a)
        BY <1>1, <4>2, CatEmpty DEF Hears
      <4>4. 0 \in Nat /\ 2 * PacketSize + 1 <= Len(e.in) /\ 0 + (2 * PacketSize + 1) = 2 * PacketSize + 1
        BY <1>1, <4>1
      <4>5. /\ Cat(From(e.in, 2 * PacketSize + 1), e.sock) = From(a, 2 * PacketSize + 1)
            /\ 2 * PacketSize + 1 <= Len(a)
        BY <1>1, <4>1, <4>3, <4>4, TakeLemma
      <4>6. From(e.in, 2 * PacketSize + 1) = <<>>
        BY <1>1, <4>1, FromEnds
      <4>7. Cat(h.got, h.in) = <<>>
        BY <3>7, CatEmpty
      <4>. QED BY <3>7, <3>11, <4>5, <4>6, <4>7 DEF Hears
    <3>13. ASSUME "none" \notin WriteResults, Says(e) PROVE Says(f)
      <4>1. Spoken(e) = Hello
        BY <3>13 DEF Says, Said
      <4>2. Spoken(m) = Hello
        BY <3>5, <4>1 DEF Spoken
      <4>3. Spoken(g) = Both
        BY <3>6, <3>13, <4>2 DEF Adds, Both
      <4>4. Spoken(h) = Both
        BY <3>7, <4>3 DEF Spoken
      <4>5. Spoken(f) = All
        BY <3>8, <3>13, <4>4 DEF Adds, All
      <4>6. Said(f) = All
        BY <1>1, <3>9 DEF Said
      <4>. QED BY <3>9, <4>5, <4>6 DEF Says
    <3>14. Extends(e.wrote, h.wrote)
      BY <3>5, <3>6, <3>7 DEF Quiet
    <3>. QED BY <1>1, <3>7, <3>8, <3>10, <3>11, <3>12, <3>13, <3>14, QuietGood
  <2>5. CASE Len(i) # PacketSize
    <3>1. PICK m : m = [e EXCEPT !.hs = "PostC2", !.in = i]
      OBVIOUS
    <3>2. f = SendC2S2(m, w[1])
      BY <1>4, <2>1, <2>5, <3>1 DEF WaitS0S1
    <3>3. /\ m \in EndRec /\ m.client = e.client /\ m.code = e.code /\ m.ctx = "handshake" /\ m.got = <<>>
          /\ m.in = i /\ m.sock = e.sock /\ m.hs = "PostC2" /\ m.wrote = e.wrote /\ m.out = e.out
      BY <1>1, <2>2, <3>1 DEF EndRec, ClientStates
    <3>4. Quiet(m, f) /\ f.hs \in {"PostC2", "Done"} /\ Adds(m, f, Echo)
      BY <1>1, <2>3, <3>2, <3>3, SendC2S2Lemma
    <3>5. f.client = e.client /\ f.code = e.code /\ f.ctx = "handshake" /\ f.got = <<>> /\ f \in EndRec
      BY <3>3, <3>4 DEF Quiet
    <3>6. EndOK(f)
      BY <1>1, <3>4, <3>5 DEF EndOK, ClientStates
    <3>7. Taken(m) = PacketSize + 1 /\ Taken(f) = PacketSize + 1
      BY <3>3, <3>4, <3>5 DEF Taken
    <3>8. Hears(m, a)
      <4>1. Cat(m.got, m.in) = i
        BY <2>2, <3>3, CatEmpty
      <4>. QED BY <2>2, <3>3, <3>7, <4>1 DEF Hears
    <3>9. ASSUME "none" \notin WriteResults, Says(e) PROVE Says(f)
      <4>1. Spoken(e) = Hello
        BY <3>9 DEF Says, Said
      <4>2. Spoken(m) = Hello
        BY <3>3, <4>1 DEF Spoken
      <4>3. Spoken(f) = Both
        BY <3>4, <3>9, <4>2 DEF Adds, Both
      <4>4. Said(f) = Both
        BY <3>4, <3>5 DEF Said
      <4>. QED BY <3>5, <4>3, <4>4 DEF Says
    <3>10. Extends(e.wrote, m.wrote)
      BY <1>1, <3>3, ExtendsSelf
    <3>. QED BY <1>1, <3>3, <3>4, <3>6, <3>7, <3>8, <3>9, <3>10, QuietGood
  <2>. QED BY <2>4, <2>5
<1>. QED BY <1>2, <1>3, <1>4
LEMMA ParseMessageLemma ==
  ASSUME NEW e \in EndRec, NEW f, f = ParseMessage(e)
  PROVE  /\ f \in EndRec /\ f.client = e.client /\ f.code = e.code /\ f.ctx = e.ctx /\ f.hs = e.hs
         /\ f.sock = e.sock /\ Extends(e.wrote, f.wrote) /\ f.in = <<>> /\ f.got = Cat(e.got, e.in)
         /\ IF ~e.client /\ e.got = <<>> /\ e.in # <<>> THEN Adds(e, f, Message) ELSE Spoken(f) = Spoken(e)
<1>1. e.got \in Stream /\ e.in \in Stream /\ e.wrote \in Stream /\ <<>> \in Stream
  BY EndTypes, CatEmpty
<1>2. PICK g \in Stream : g = Cat(e.got, e.in)
  BY <1>1, CatType
<1>3. PICK t : t = [e EXCEPT !.got = g, !.in = <<>>]
  OBVIOUS
<1>4. /\ t \in EndRec /\ t.client = e.client /\ t.code = e.code /\ t.ctx = e.ctx /\ t.hs = e.hs
      /\ t.sock = e.sock /\ t.wrote = e.wrote /\ t.out = e.out /\ t.in = <<>> /\ t.got = g
  BY <1>1, <1>2, <1>3 DEF EndRec
<1>5. t = [e EXCEPT !.got = @ \o e.in, !.in = <<>>]
  BY <1>2, <1>3 DEF Cat
<1>6. Spoken(t) = Spoken(e)
  BY <1>4 DEF Spoken
<1>7. Extends(e.wrote, t.wrote)
  BY <1>1, <1>4, ExtendsSelf
<1>8. CASE ~e.client /\ e.got = <<>> /\ e.in # <<>>
  <2>1. f = SendList(t, Message)
    BY <1>5, <1>8 DEF ParseMessage
  <2>2. Quiet(t, f) /\ f.hs = t.hs /\ Adds(t, f, Message)
    BY <1>4, <2>1, HelloFacts, SendListLemma
  <2>. QED BY <1>2, <1>4, <1>6, <1>8, <2>2 DEF Quiet, Adds
<1>9. CASE ~(~e.client /\ e.got = <<>> /\ e.in # <<>>)
  <2>1. f = t
    BY <1>5, <1>9 DEF ParseMessage
  <2>. QED BY <1>2, <1>4, <1>6, <1>7, <1>9, <2>1
<1>. QED BY <1>8, <1>9

LEMMA MessageGood ==
  ASSUME NEW e, EndOK(e), e.code, e.ctx = "message", NEW a \in Stream, Hears(e, a),
         NEW f, f = ParseMessage(e)
  PROVE  Good(e, f, a)
<1>1. e \in EndRec /\ e.got \in Stream /\ e.in \in Stream /\ e.sock \in Stream
  BY EndTypes DEF EndOK
<1>2. /\ f \in EndRec /\ f.client = e.client /\ f.code = e.code /\ f.ctx = e.ctx /\ f.hs = e.hs
      /\ f.sock = e.sock /\ Extends(e.wrote, f.wrote) /\ f.in = <<>> /\ f.got = Cat(e.got, e.in)
      /\ IF ~e.client /\ e.got = <<>> /\ e.in # <<>> THEN Adds(e, f, Message) ELSE Spoken(f) = Spoken(e)
  BY <1>1, ParseMessageLemma
<1>3. EndOK(f)
  BY <1>2 DEF EndOK
<1>4. Cat(f.got, f.in) = Cat(e.got, e.in)
  BY <1>1, <1>2, CatType, CatEmpty
<1>5. Taken(f) = Taken(e)
  BY <1>2 DEF Taken
<1>6. Hears(f, a)
  BY <1>2, <1>4, <1>5 DEF Hears
<1>7. f.got # <<>> <=> e.got # <<>> \/ e.in # <<>>
  <2>1. Cat(e.got, e.in) \in Stream /\ Len(Cat(e.got, e.in)) = Len(e.got) + Len(e.in)
        /\ Len(e.got) \in Nat /\ Len(e.in) \in Nat
    BY <1>1, CatType
  <2>2. /\ Cat(e.got, e.in) = <<>> <=> Len(Cat(e.got, e.in)) = 0
        /\ e.got = <<>> <=> Len(e.got) = 0
        /\ e.in = <<>> <=> Len(e.in) = 0
    BY <1>1, <2>1, CatEmpty
  <2>3. PICK i, j, k : i = Len(e.got) /\ j = Len(e.in) /\ k = Len(Cat(e.got, e.in))
    OBVIOUS
  <2>4. i \in Nat /\ j \in Nat /\ k = i + j
    BY <2>1, <2>3
  <2>5. k = 0 <=> i = 0 /\ j = 0
    BY <2>4
  <2>. QED BY <1>2, <2>2, <2>3, <2>5, Zenon
<1>8. ASSUME "none" \notin WriteResults, Says(e) PROVE Says(f)
  <2>1. Spoken(e) = IF e.client \/ e.got # <<>> THEN All ELSE Both
    BY <1>8 DEF Says, Said
  <2>2. Spoken(f) = IF e.client \/ e.got # <<>> \/ e.in # <<>> THEN All ELSE Both
    <3>1. CASE ~e.client /\ e.got = <<>> /\ e.in # <<>>
      BY <1>2, <1>8, <2>1, <3>1, SpeechFacts DEF Adds
    <3>2. CASE ~(~e.client /\ e.got = <<>> /\ e.in # <<>>)
      BY <1>2, <2>1, <3>2
    <3>. QED BY <3>1, <3>2
  <2>3. Said(f) = IF f.client \/ f.got # <<>> THEN All ELSE Both
    BY <1>2 DEF Said
  <2>. QED BY <1>2, <1>7, <2>2, <2>3 DEF Says
<1>. QED BY <1>2, <1>3, <1>6, <1>8 DEF Good

LEMMA WaitC2Lemma ==
  ASSUME NEW e, EndOK(e), e.code, e.ctx = "handshake", e.hs = "WaitC2",
         NEW a \in Stream, Hears(e, a), NEW f, f = WaitC2(e)
  PROVE  Good(e, f, a)
<1>1. /\ e \in EndRec /\ ~e.client /\ e.got = <<>> /\ e.in \in Stream /\ e.sock \in Stream
      /\ e.wrote \in Stream /\ Len(e.in) \in Nat
  BY EndTypes, CatEmpty DEF EndOK, ClientStates
<1>2. CASE Len(e.in) < PacketSize
  <2>1. f = e
    BY <1>2 DEF WaitC2
  <2>. QED BY <2>1, GoodSelf
<1>3. CASE ~(Len(e.in) < PacketSize)
  <2>1. PICK i : i = From(e.in, PacketSize)
    OBVIOUS
  <2>2. PICK m : m = [e EXCEPT !.hs = "Done", !.ctx = "message", !.in = i]
    OBVIOUS
  <2>3. f = ParseMessage(m)
    BY <1>3, <2>1, <2>2 DEF WaitC2
  <2>4. i \in Stream /\ Cat(i, e.sock) = From(a, 2 * PacketSize + 1) /\ 2 * PacketSize + 1 <= Len(a)
    <3>1. Taken(e) = PacketSize + 1
      BY DEF Taken
    <3>2. Cat(e.in, e.sock) = From(a, PacketSize + 1) /\ PacketSize + 1 <= Len(a)
      BY <1>1, <3>1, CatEmpty DEF Hears
    <3>3. /\ PacketSize \in Nat /\ PacketSize + 1 \in Nat /\ PacketSize <= Len(e.in)
      BY <1>1, <1>3, HelloFacts
    <3>4. PICK k : k = PacketSize + 1
      OBVIOUS
    <3>5. k \in Nat /\ k <= Len(a) /\ Cat(e.in, e.sock) = From(a, k)
      BY <3>2, <3>3, <3>4
    <3>6. i \in Stream /\ Cat(i, e.sock) = From(a, k + PacketSize) /\ k + PacketSize <= Len(a)
      BY <1>1, <2>1, <3>3, <3>5, TakeLemma
    <3>7. k + PacketSize = 2 * PacketSize + 1
      BY <3>3, <3>4
    <3>. QED BY <3>6, <3>7, Zenon
  <2>5. /\ m \in EndRec /\ m.client = e.client /\ m.code = e.code /\ m.ctx = "message" /\ m.got = <<>>
        /\ m.in = i /\ m.sock = e.sock /\ m.hs = "Done" /\ m.wrote = e.wrote /\ m.out = e.out
    BY <1>1, <2>2, <2>4 DEF EndRec, ServerStates
  <2>6. EndOK(m)
    BY <1>1, <2>5 DEF EndOK, ServerStates
  <2>7. Hears(m, a)
    <3>1. Cat(m.got, m.in) = i /\ Taken(m) = 2 * PacketSize + 1
      BY <2>4, <2>5, CatEmpty DEF Taken
    <3>. QED BY <2>4, <2>5, <3>1 DEF Hears
  <2>8. ASSUME Says(e) PROVE Says(m)
    <3>1. Spoken(e) = Both
      BY <2>8 DEF Says, Said
    <3>2. Spoken(m) = Both /\ Said(m) = Both
      BY <1>1, <2>5, <3>1 DEF Spoken, Said
    <3>. QED BY <2>5, <3>2 DEF Says
  <2>9. Extends(e.wrote, m.wrote)
    BY <1>1, <2>5, ExtendsSelf
  <2>10. Good(e, m, a)
    BY <2>5, <2>6, <2>7, <2>8, <2>9 DEF Good
  <2>11. Good(m, f, a)
    BY <2>3, <2>5, <2>6, <2>7, MessageGood
  <2>. QED BY <1>1, <2>10, <2>11, GoodTrans
<1>. QED BY <1>2, <1>3

LEMMA ParseLemma ==
  ASSUME NEW e, EndOK(e), e.code, NEW a \in Stream, Hears(e, a), NEW w \in Outcomes, NEW f, f = Parse(e, w)
  PROVE  Good(e, f, a)
<1>1. CASE e.ctx = "message"
  <2>1. f = ParseMessage(e)
    BY <1>1 DEF Parse
  <2>. QED BY <1>1, <2>1, MessageGood
<1>2. e.ctx \in {"handshake", "message"}
  BY EndTypes DEF EndOK
<1>3. CASE e.ctx = "handshake" /\ e.hs = "WaitC0C1"
  <2>1. f = WaitC0C1(e, w)
    BY <1>3 DEF Parse
  <2>. QED BY <1>3, <2>1, WaitC0C1Lemma
<1>4. CASE e.ctx = "handshake" /\ e.hs = "WaitC2"
  <2>1. f = WaitC2(e)
    BY <1>4 DEF Parse
  <2>. QED BY <1>4, <2>1, WaitC2Lemma
<1>5. CASE e.ctx = "handshake" /\ e.hs = "WaitS0S1"
  <2>1. f = WaitS0S1(e, w)
    BY <1>5 DEF Parse
  <2>. QED BY <1>5, <2>1, WaitS0S1Lemma
<1>6. CASE e.ctx = "handshake" /\ e.hs \notin {"WaitC0C1", "WaitC2", "WaitS0S1"}
  <2>1. f = e
    BY <1>6 DEF Parse
  <2>. QED BY <2>1, GoodSelf
<1>. QED BY <1>1, <1>2, <1>3, <1>4, <1>5, <1>6
-----------------------------------------------------------------------------
(* The handlers                                                            *)

LEMMA ReadLemma ==
  ASSUME NEW e, EndOK(e), e.code, NEW a \in Stream, Hears(e, a), NEW w \in Outcomes,
         NEW f, f = Parse(ReadFd(e), w)
  PROVE  Good(e, f, a)
<1>1. /\ e \in EndRec /\ e.got \in Stream /\ e.in \in Stream /\ e.sock \in Stream /\ e.wrote \in Stream
      /\ <<>> \in Stream
  BY EndTypes, CatEmpty DEF EndOK
<1>2. PICK i \in Stream : i = Cat(e.in, e.sock)
  BY <1>1, CatType
<1>3. PICK m : m = [e EXCEPT !.in = i, !.sock = <<>>, !.edge = FALSE]
  OBVIOUS
<1>4. m = ReadFd(e)
  BY <1>2, <1>3 DEF Cat, ReadFd
<1>5. /\ m \in EndRec /\ m.client = e.client /\ m.code = e.code /\ m.ctx = e.ctx /\ m.got = e.got
      /\ m.in = i /\ m.sock = <<>> /\ m.hs = e.hs /\ m.wrote = e.wrote /\ m.out = e.out
  BY <1>1, <1>3 DEF EndRec
<1>6. EndOK(m)
  BY <1>5 DEF EndOK
<1>7. Hears(m, a)
  <2>1. Cat(Cat(e.got, e.in), e.sock) = Cat(e.got, Cat(e.in, e.sock))
    BY <1>1, CatAssoc
  <2>2. Cat(m.got, m.in) \in Stream
    BY <1>1, <1>5, CatType
  <2>3. Cat(Cat(m.got, m.in), m.sock) = Cat(m.got, m.in)
    BY <1>5, <2>2, CatEmpty
  <2>4. Taken(m) = Taken(e)
    BY <1>5 DEF Taken
  <2>. QED BY <1>2, <1>5, <2>1, <2>3, <2>4 DEF Hears
<1>8. ASSUME Says(e) PROVE Says(m)
  BY <1>5, <1>8 DEF Says, Spoken, Said
<1>9. Extends(e.wrote, m.wrote)
  BY <1>1, <1>5, ExtendsSelf
<1>10. Good(e, m, a)
  BY <1>5, <1>6, <1>7, <1>8, <1>9 DEF Good
<1>11. Good(m, f, a)
  BY <1>4, <1>5, <1>6, <1>7, ParseLemma
<1>. QED BY <1>1, <1>10, <1>11, GoodTrans

LEMMA CompleteLemma ==
  ASSUME NEW e, EndOK(e), e.code, e.ctx = "handshake", NEW a \in Stream, Hears(e, a),
         NEW w \in WriteResults, NEW f, f = WriteComplete(e, w)
  PROVE  Good(e, f, a)
<1>1. e \in EndRec /\ e.wrote \in Stream /\ e.got = <<>> /\ e.hs # "Doning" /\ e.hs # "WaitS2"
  BY EndTypes DEF EndOK
<1>2. /\ Quiet(e, f)
      /\ e.hs = "PostS0S1" => f.hs \in {"PostS2", "WaitC2"} /\ Adds(e, f, Echo)
      /\ e.hs # "PostS0S1" => f.hs = AfterWrite(e.hs) /\ Spoken(f) = Spoken(e)
  BY <1>1, WriteCompleteLemma
<1>3. f \in EndRec /\ f.client = e.client /\ f.code = e.code /\ f.ctx = "handshake" /\ f.got = <<>>
  BY <1>1, <1>2 DEF Quiet
<1>4. /\ e.hs = "PostS2" => f.hs = "WaitC2"
      /\ e.hs = "PostC0C1" => f.hs = "WaitS0S1"
      /\ e.hs = "PostC2" => f.hs = "Done"
      /\ e.hs \notin {"PostS0S1", "PostS2", "PostC0C1", "PostC2"} => f.hs = e.hs
  BY <1>1, <1>2 DEF AfterWrite
<1>5. EndOK(f)
  BY <1>1, <1>2, <1>3, <1>4 DEF EndOK, ClientStates, ServerStates
<1>6. Taken(f) = Taken(e)
  BY <1>2, <1>3, <1>4 DEF Taken
<1>7. ASSUME "none" \notin WriteResults, Says(e) PROVE Says(f)
  <2>1. Spoken(e) = Said(e)
    BY <1>7 DEF Says
  <2>2. CASE e.hs = "PostS0S1"
    <3>1. Spoken(f) = Both
      BY <1>2, <1>7, <2>1, <2>2, SpeechFacts DEF Said, Adds
    <3>2. Said(f) = Both
      BY <1>2, <1>3, <2>2 DEF Said
    <3>. QED BY <1>3, <3>1, <3>2 DEF Says
  <2>3. CASE e.hs # "PostS0S1"
    <3>1. Said(f) = Said(e)
      BY <1>3, <1>4, <2>3 DEF Said
    <3>. QED BY <1>2, <1>3, <2>1, <2>3, <3>1 DEF Says
  <2>. QED BY <2>2, <2>3
<1>8. Extends(e.wrote, e.wrote)
  BY <1>1, ExtendsSelf
<1>. QED BY <1>1, <1>2, <1>5, <1>6, <1>7, <1>8, QuietGood

LEMMA WritevLemma ==
  ASSUME NEW e, EndOK(e), e.code, NEW a \in Stream, Hears(e, a), NEW n \in Nat, n <= Len(e.out),
         NEW t, t = [e EXCEPT !.wrote = @ \o SubSeq(e.out, 1, n), !.out = From(@, n), !.edge = Len(e.out) > n]
  PROVE  Good(e, t, a)
<1>1. e \in EndRec /\ e.wrote \in Stream /\ e.out \in Stream /\ (Len(e.out) > n) \in BOOLEAN
  BY EndTypes DEF EndOK
<1>2. PICK g, q : g = First(e.out, n) /\ q = From(e.out, n)
  OBVIOUS
<1>3. g \in Stream /\ q \in Stream /\ Cat(g, q) = e.out
  BY <1>1, <1>2, FirstFrom
<1>4. PICK s \in Stream : s = Cat(e.wrote, g)
  BY <1>1, <1>3, CatType
<1>5. PICK b \in BOOLEAN : b = (Len(e.out) > n)
  BY <1>1
<1>6. t = [e EXCEPT !.wrote = s, !.out = q, !.edge = b]
  BY <1>2, <1>4, <1>5 DEF Cat, First
<1>7. /\ t \in EndRec /\ t.client = e.client /\ t.code = e.code /\ t.ctx = e.ctx /\ t.got = e.got
      /\ t.in = e.in /\ t.sock = e.sock /\ t.hs = e.hs /\ t.wrote = s /\ t.out = q
  BY <1>1, <1>3, <1>4, <1>5, <1>6 DEF EndRec
<1>8. EndOK(t)
  BY <1>7 DEF EndOK
<1>9. Spoken(t) = Spoken(e)
  <2>1. Cat(Cat(e.wrote, g), q) = Cat(e.wrote, Cat(g, q))
    BY <1>1, <1>3, CatAssoc
  <2>. QED BY <1>3, <1>4, <1>7, <2>1 DEF Spoken
<1>10. Taken(t) = Taken(e) /\ Said(t) = Said(e)
  BY <1>7 DEF Taken, Said
<1>11. Hears(t, a)
  BY <1>7, <1>10 DEF Hears
<1>12. Says(e) => Says(t)
  BY <1>7, <1>9, <1>10 DEF Says
<1>13. Extends(e.wrote, t.wrote)
  BY <1>3, <1>4, <1>7 DEF Extends, Cat
<1>. QED BY <1>7, <1>8, <1>11, <1>12, <1>13 DEF Good

LEMMA StartLemma ==
  ASSUME NEW e, EndOK(e), e.code, e.client, e.hs = "Init", NEW a \in Stream, Hears(e, a), NEW w \in Outcomes,
         NEW f, f = SendC1S1([e EXCEPT !.hs = "PostC0C1"], w)
  PROVE  Good(e, f, a)
<1>1. e \in EndRec /\ e.wrote \in Stream /\ e.ctx = "handshake" /\ e.got = <<>>
  BY EndTypes DEF EndOK
<1>2. PICK m : m = [e EXCEPT !.hs = "PostC0C1"]
  OBVIOUS
<1>3. Quiet(e, m) /\ Spoken(m) = Spoken(e) /\ m.hs = "PostC0C1"
  <2>1. "PostC0C1" \in ClientStates \cup ServerStates
    BY DEF ClientStates
  <2>. QED BY <1>1, <1>2, <2>1, QuietState
<1>4. Quiet(m, f) /\ f.hs \in {"PostC0C1", "WaitS0S1"} /\ Adds(m, f, Hello)
  <2>1. m \in EndRec /\ f = SendC1S1(m, w)
    BY <1>2, <1>3 DEF Quiet
  <2>. QED BY <1>3, <2>1, SendC1S1Lemma
<1>5. Quiet(e, f)
  BY <1>3, <1>4, QuietTrans
<1>6. f \in EndRec /\ f.client = e.client /\ f.code = e.code /\ f.ctx = "handshake" /\ f.got = <<>>
  BY <1>1, <1>5 DEF Quiet
<1>7. EndOK(f)
  BY <1>4, <1>6 DEF EndOK, ClientStates
<1>8. Taken(f) = Taken(e)
  BY <1>1, <1>4, <1>6 DEF Taken
<1>9. ASSUME "none" \notin WriteResults, Says(e) PROVE Says(f)
  <2>1. Spoken(e) = <<>>
    BY <1>1, <1>9 DEF Says, Said
  <2>2. Spoken(f) = Hello
    BY <1>3, <1>4, <1>9, <2>1, SpeechFacts DEF Adds
  <2>3. Said(f) = Hello
    BY <1>4, <1>6 DEF Said
  <2>. QED BY <1>6, <2>2, <2>3 DEF Says
<1>10. Extends(e.wrote, e.wrote)
  BY <1>1, ExtendsSelf
<1>. QED BY <1>1, <1>5, <1>7, <1>8, <1>9, <1>10, QuietGood

(* A client that is not this code; bad says that it speaks another version *)
LEMMA ExternalLemma ==
  ASSUME NEW e, EndOK(e), ~e.code, NEW need \in Nat, need <= Len(e.sock), NEW b \in Stream, b # <<>>,
         NEW h \in {"WaitS0S1", "WaitS2", "Done"},
         Cat(Foretold(e.hs), b) = Foretold(h) \/ (e.hs = "Init" /\ Head(b) = "bad"),
         NEW f, f = [e EXCEPT !.hs = h, !.sock = From(@, need), !.wrote = @ \o b], NEW a
  PROVE  Good(e, f, a)
<1>1. /\ e \in EndRec /\ e.client /\ e.ctx = "handshake" /\ e.got = <<>> /\ e.wrote \in Stream
      /\ e.sock \in Stream
  BY EndTypes DEF EndOK
<1>2. PICK s \in Stream, k \in Stream : s = Cat(e.wrote, b) /\ k = From(e.sock, need)
  BY <1>1, CatType, FirstFrom
<1>3. f = [e EXCEPT !.hs = h, !.sock = k, !.wrote = s]
  BY <1>2 DEF Cat
<1>4. /\ f \in EndRec /\ f.client = e.client /\ f.code = e.code /\ f.ctx = e.ctx /\ f.got = e.got
      /\ f.hs = h /\ f.wrote = s /\ f.out = e.out
  BY <1>1, <1>2, <1>3 DEF EndRec, ClientStates
<1>5. EndOK(f)
  BY <1>1, <1>4 DEF EndOK, ClientStates
<1>6. Extends(e.wrote, f.wrote)
  BY <1>2, <1>4 DEF Extends, Cat
<1>7. ASSUME Says(e) PROVE Says(f)
  <2>1. e.out = <<>> /\ (e.wrote = Foretold(e.hs) \/ (e.wrote # <<>> /\ Head(e.wrote) = "bad"))
    BY <1>7 DEF Says
  <2>2. s # <<>>
    <3>1. Len(s) = Len(e.wrote) + Len(b) /\ Len(e.wrote) \in Nat /\ Len(b) \in Nat /\ Len(b) # 0
      BY <1>1, <1>2, CatType, CatEmpty
    <3>2. Len(s) # 0
      BY <3>1
    <3>. QED BY <1>2, <3>2, CatEmpty
  <2>3. CASE e.wrote # <<>> /\ Head(e.wrote) = "bad"
    <3>1. Head(s) = Head(e.wrote)
      <4>1. Len(e.wrote) \in Nat /\ Len(e.wrote) # 0
        BY <1>1, <2>3, CatEmpty
      <4>2. s[1] = e.wrote[1]
        BY <1>1, <1>2, <4>1, ConcatProperties DEF Cat, Stream
      <4>. QED BY <1>1, <1>2, <2>2, <2>3, <4>2, HeadTailProperties DEF Stream
    <3>. QED BY <1>4, <2>1, <2>2, <2>3, <3>1 DEF Says
  <2>4. CASE e.wrote = Foretold(e.hs) /\ Cat(Foretold(e.hs), b) = Foretold(h)
    BY <1>2, <1>4, <2>1, <2>4 DEF Says
  <2>5. CASE e.wrote = Foretold(e.hs) /\ e.hs = "Init" /\ Head(b) = "bad"
    <3>1. e.wrote = <<>>
      BY <2>5 DEF Foretold
    <3>2. s = b
      BY <1>2, <3>1, CatEmpty
    <3>. QED BY <1>4, <2>1, <2>2, <2>5, <3>2 DEF Says
  <2>. QED BY <2>1, <2>3, <2>4, <2>5
<1>. QED BY <1>4, <1>5, <1>6, <1>7 DEF Good
-----------------------------------------------------------------------------
(* The inductive invariant: the states that go together, what was heard of *)
(* the peer, and what was said.  It speaks of any two ends en and numbers  *)
(* of bytes ar.                                                            *)

Arrived(en, ar, x) == First(en[Peer(x)].wrote, ar[x])

EndInv(en, ar, x) ==
  /\ en[x].client = (x = "client") /\ EndOK(en[x])
  /\ ar[x] <= Len(en[Peer(x)].wrote)
  /\ en[x].code => Hears(en[x], Arrived(en, ar, x))

Inv(en, ar) ==
  /\ en \in [Ends -> EndRec] /\ ar \in [Ends -> Nat]
  /\ \A x \in Ends : EndInv(en, ar, x)

Spoke(en) == \A x \in Ends : Says(en[x])

LEMMA PeerFacts ==
  /\ Peer("client") = "server" /\ Peer("server") = "client"
  /\ \A x \in Ends : Peer(x) \in Ends /\ Peer(x) # x /\ Peer(Peer(x)) = x /\ Ends = {x, Peer(x)}
<1>1. \E y \in Ends : y # "client"
  BY DEF Ends
<1>2. \E y \in Ends : y # "server"
  BY DEF Ends
<1>3. Peer("client") = "server"
  BY <1>1 DEF Ends, Peer
<1>4. Peer("server") = "client"
  BY <1>2 DEF Ends, Peer
<1>. QED BY <1>3, <1>4 DEF Ends

LEMMA InvFacts ==
  ASSUME NEW en, NEW ar, Inv(en, ar), NEW x \in Ends
  PROVE  /\ EndInv(en, ar, x) /\ EndOK(en[x]) /\ en[x] \in EndRec /\ ar[x] \in Nat
         /\ en[Peer(x)].wrote \in Stream /\ ar[x] <= Len(en[Peer(x)].wrote) /\ Len(en[Peer(x)].wrote) \in Nat
         /\ Arrived(en, ar, x) \in Stream /\ Len(Arrived(en, ar, x)) = ar[x]
         /\ en[x].code => Hears(en[x], Arrived(en, ar, x))
<1>1. EndInv(en, ar, x) /\ en[x] \in EndRec /\ ar[x] \in Nat /\ en[Peer(x)] \in EndRec
  BY PeerFacts DEF Inv
<1>2. en[Peer(x)].wrote \in Stream
  BY <1>1, EndTypes
<1>3. Len(en[Peer(x)].wrote) \in Nat
  BY <1>2, CatEmpty
<1>4. Arrived(en, ar, x) \in Stream /\ Len(Arrived(en, ar, x)) = ar[x]
  BY <1>1, <1>2, FirstFrom DEF Arrived, EndInv
<1>. QED BY <1>1, <1>2, <1>3, <1>4 DEF EndInv

(* A handler of x changes its end only *)
LEMMA HandlerLemma ==
  ASSUME NEW en, NEW ar, Inv(en, ar), NEW x \in Ends, NEW f, Good(en[x], f, Arrived(en, ar, x)),
         NEW new, new = [en EXCEPT ![x] = f]
  PROVE  Inv(new, ar) /\ ("none" \notin WriteResults => (Spoke(en) => Spoke(new)))
<1>1. /\ Peer(x) \in Ends /\ Peer(x) # x /\ Peer(Peer(x)) = x /\ Ends = {x, Peer(x)}
  BY PeerFacts
<1>2. PICK y : y = Peer(x)
  OBVIOUS
<1>3. new[x] = f /\ new[y] = en[y] /\ f \in EndRec /\ new \in [Ends -> EndRec] /\ ar \in [Ends -> Nat]
  BY <1>1, <1>2 DEF Inv, Good, EndOK
<1>4. EndInv(new, ar, x)
  <2>1. Arrived(new, ar, x) = Arrived(en, ar, x)
    BY <1>2, <1>3 DEF Arrived
  <2>2. EndInv(en, ar, x)
    BY DEF Inv
  <2>. QED BY <1>2, <1>3, <2>1, <2>2 DEF EndInv, Good
<1>5. EndInv(new, ar, y)
  <2>1. EndInv(en, ar, y) /\ en[x].wrote \in Stream /\ f.wrote \in Stream /\ ar[y] \in Nat
    BY <1>1, <1>2, <1>3, EndTypes DEF Inv
  <2>2. Extends(en[x].wrote, f.wrote) /\ ar[y] <= Len(en[x].wrote)
    BY <1>1, <1>2, <2>1 DEF Good, EndInv
  <2>3. First(f.wrote, ar[y]) = First(en[x].wrote, ar[y]) /\ ar[y] <= Len(f.wrote)
    BY <2>1, <2>2, FirstKept
  <2>4. Arrived(new, ar, y) = Arrived(en, ar, y)
    BY <1>1, <1>2, <1>3, <2>3 DEF Arrived
  <2>. QED BY <1>1, <1>2, <1>3, <2>1, <2>3, <2>4 DEF EndInv
<1>6. Inv(new, ar)
  BY <1>1, <1>2, <1>3, <1>4, <1>5 DEF Inv
<1>7. ASSUME "none" \notin WriteResults, Spoke(en) PROVE Spoke(new)
  BY <1>1, <1>2, <1>3, <1>7 DEF Spoke, Good
<1>. QED BY <1>6, <1>7

(* A segment of n bytes arrives at x, which becomes f: only what x has not *)
(* read changes.                                                           *)
Receives(en, ar, x, n, f, new, more) ==
  /\ n \in Nat /\ ar[x] + n <= Len(en[Peer(x)].wrote)
  /\ f \in EndRec /\ f.client = en[x].client /\ f.code = en[x].code /\ f.ctx = en[x].ctx
  /\ f.got = en[x].got /\ f.in = en[x].in /\ f.hs = en[x].hs /\ f.wrote = en[x].wrote /\ f.out = en[x].out
  /\ f.sock = Cat(en[x].sock, Seg(en[Peer(x)].wrote, ar[x], n))
  /\ new \in [Ends -> EndRec] /\ new[x] = f /\ new[Peer(x)] = en[Peer(x)]
  /\ more \in [Ends -> Nat] /\ more[x] = ar[x] + n /\ more[Peer(x)] = ar[Peer(x)]

LEMMA SegmentLemma ==
  ASSUME NEW en, NEW ar, Inv(en, ar), NEW x \in Ends, NEW n, NEW f, NEW new, NEW more,
         Receives(en, ar, x, n, f, new, more)
  PROVE  Inv(new, more) /\ (Spoke(en) => Spoke(new))
<1>1. /\ Peer(x) \in Ends /\ Peer(x) # x /\ Peer(Peer(x)) = x /\ Ends = {x, Peer(x)}
  BY PeerFacts
<1>2. PICK y : y = Peer(x)
  OBVIOUS
<1>3. PICK a, e, g : a = Arrived(en, ar, x) /\ e = en[x] /\ g = Seg(en[Peer(x)].wrote, ar[x], n)
  OBVIOUS
<1>4. /\ n \in Nat /\ ar[x] + n <= Len(en[Peer(x)].wrote)
      /\ f \in EndRec /\ f.client = e.client /\ f.code = e.code /\ f.ctx = e.ctx /\ f.got = e.got
      /\ f.in = e.in /\ f.hs = e.hs /\ f.wrote = e.wrote /\ f.out = e.out /\ f.sock = Cat(e.sock, g)
      /\ new \in [Ends -> EndRec] /\ new[x] = f /\ new[Peer(x)] = en[Peer(x)]
      /\ more \in [Ends -> Nat] /\ more[x] = ar[x] + n /\ more[Peer(x)] = ar[Peer(x)]
  BY <1>3 DEF Receives
<1>5. /\ EndOK(e) /\ e \in EndRec /\ ar[x] \in Nat /\ a \in Stream /\ Len(a) = ar[x]
      /\ e.code => Hears(e, a)
  BY <1>3, InvFacts
<1>6. e.sock \in Stream /\ e.got \in Stream /\ e.in \in Stream /\ e.wrote \in Stream
  BY <1>5, EndTypes
<1>7. g \in Stream /\ First(en[y].wrote, ar[x] + n) = Cat(a, g)
  <2>1. PICK v, k : v = en[y].wrote /\ k = ar[x]
    OBVIOUS
  <2>2. v \in Stream /\ k \in Nat /\ k + n <= Len(v) /\ g = Seg(v, k, n)
    BY <1>2, <1>3, <1>4, <2>1, InvFacts
  <2>3. Seg(v, k, n) \in Stream /\ First(v, k + n) = Cat(First(v, k), Seg(v, k, n))
    BY <1>4, <2>2, ArriveLemma
  <2>. QED BY <1>2, <1>3, <2>1, <2>2, <2>3 DEF Arrived
<1>8. EndInv(new, more, x)
  <2>1. EndInv(en, ar, x)
    BY DEF Inv
  <2>2. EndOK(f)
    BY <1>5, <1>4 DEF EndOK
  <2>3. Arrived(new, more, x) = Cat(a, g)
    BY <1>2, <1>7, <1>4 DEF Arrived
  <2>4. ASSUME e.code PROVE Hears(f, Cat(a, g))
    <3>1. Taken(e) <= Len(a) /\ Cat(Cat(e.got, e.in), e.sock) = From(a, Taken(e)) /\ Taken(f) = Taken(e)
      BY <1>5, <1>4, <2>4 DEF Hears, Taken
    <3>2. Taken(e) \in Nat
      BY HelloFacts DEF Taken
    <3>3. Cat(e.got, e.in) \in Stream
      BY <1>6, CatType
    <3>4. Cat(Cat(Cat(e.got, e.in), e.sock), g) = Cat(Cat(e.got, e.in), Cat(e.sock, g))
      BY <1>6, <1>7, <3>3, CatAssoc
    <3>5. From(Cat(a, g), Taken(e)) = Cat(From(a, Taken(e)), g)
      BY <1>5, <1>7, <3>1, <3>2, FromCat
    <3>6. Len(Cat(a, g)) = Len(a) + Len(g) /\ Len(a) \in Nat /\ Len(g) \in Nat
      BY <1>5, <1>7, CatType
    <3>7. Taken(f) <= Len(Cat(a, g))
      <4>1. PICK i, j, k, m : i = Taken(e) /\ j = Len(a) /\ k = Len(g) /\ m = Len(Cat(a, g))
        OBVIOUS
      <4>2. i \in Nat /\ j \in Nat /\ k \in Nat /\ m = j + k /\ i <= j
        BY <3>1, <3>2, <3>6, <4>1
      <4>3. i <= m
        BY <4>2
      <4>. QED BY <3>1, <4>1, <4>3
    <3>. QED BY <1>4, <3>1, <3>4, <3>5, <3>7 DEF Hears
  <2>5. more[x] <= Len(new[Peer(x)].wrote)
    BY <1>4
  <2>. QED BY <1>3, <1>4, <2>1, <2>2, <2>3, <2>4, <2>5 DEF EndInv
<1>9. EndInv(new, more, y)
  <2>1. EndInv(en, ar, y)
    BY <1>1, <1>2 DEF Inv
  <2>2. Arrived(new, more, y) = Arrived(en, ar, y)
    BY <1>1, <1>2, <1>3, <1>4 DEF Arrived
  <2>. QED BY <1>1, <1>2, <1>3, <1>4, <2>1, <2>2 DEF EndInv
<1>10. Inv(new, more)
  BY <1>1, <1>2, <1>8, <1>9, <1>4 DEF Inv
<1>11. ASSUME Spoke(en) PROVE Spoke(new)
  <2>1. Says(e) /\ Says(en[y])
    BY <1>1, <1>2, <1>3, <1>11 DEF Spoke
  <2>2. Says(f)
    BY <1>4, <2>1 DEF Says, Spoken, Said
  <2>. QED BY <1>1, <1>2, <1>4, <2>1, <2>2 DEF Spoke
<1>. QED BY <1>10, <1>11

LEMMA InitLemma ==
  ASSUME Init
  PROVE  Inv(end, arrived) /\ Spoke(end)
<1>1. PICK c \in Clients : end = [x \in Ends |-> NewEnd(x, x = "server" \/ c = "code")]
  BY DEF Init
<1>2. arrived = [x \in Ends |-> 0]
  BY DEF Init
<1>3. ASSUME NEW x \in Ends PROVE EndInv(end, arrived, x) /\ Says(end[x]) /\ end[x] \in EndRec
  <2>1. PICK k \in BOOLEAN : k = (x = "server" \/ c = "code")
    OBVIOUS
  <2>2. PICK e : e = NewEnd(x, k)
    OBVIOUS
  <2>3. end[x] = e
    BY <1>1, <2>1, <2>2
  <2>4. <<>> \in Stream
    BY CatEmpty
  <2>5. /\ e.client = (x = "client") /\ e.code = k /\ e.hs = (IF x = "client" THEN "Init" ELSE "WaitC0C1")
        /\ e.ctx = "handshake" /\ e.in = <<>> /\ e.out = <<>> /\ e.wrote = <<>> /\ e.sock = <<>> /\ e.got = <<>>
    BY <2>2 DEF NewEnd
  <2>6. e \in EndRec
    BY <2>2, <2>4 DEF NewEnd, EndRec, ClientStates, ServerStates
  <2>7. EndOK(e)
    BY <2>1, <2>5, <2>6 DEF EndOK, ClientStates, ServerStates, Ends
  <2>8. end[Peer(x)].wrote = <<>> /\ arrived[x] = 0
    BY <1>1, <1>2, PeerFacts DEF NewEnd
  <2>9. Len(<<>>) = 0 /\ First(<<>>, 0) = <<>> /\ From(<<>>, 0) = <<>>
    <3>1. <<>> \in Stream /\ Len(<<>>) = 0
      BY CatEmpty
    <3>2. From(<<>>, 0) = <<>>
      BY <3>1, FromEnds
    <3>3. First(<<>>, 0) \in Stream /\ Len(First(<<>>, 0)) = 0
      BY <3>1, FirstFrom
    <3>4. First(<<>>, 0) = <<>>
      BY <3>3, CatEmpty
    <3>. QED BY <3>1, <3>2, <3>4
  <2>10. Arrived(end, arrived, x) = <<>>
    BY <2>8, <2>9 DEF Arrived
  <2>11. Hears(e, <<>>)
    <3>1. Taken(e) = 0
      BY <2>5 DEF Taken
    <3>2. Cat(Cat(e.got, e.in), e.sock) = <<>>
      BY <2>4, <2>5, CatEmpty
    <3>. QED BY <2>9, <3>1, <3>2 DEF Hears
  <2>12. Says(e)
    <3>1. Spoken(e) = <<>>
      BY <2>4, <2>5, CatEmpty DEF Spoken
    <3>2. Said(e) = <<>>
      BY <2>5 DEF Said
    <3>3. ~e.code => e.hs = "Init"
      BY <2>1, <2>5 DEF Ends
    <3>. QED BY <2>5, <3>1, <3>2, <3>3 DEF Says, Foretold
  <2>. QED BY <2>3, <2>5, <2>6, <2>7, <2>8, <2>9, <2>10, <2>11, <2>12 DEF EndInv
<1>. QED BY <1>1, <1>2, <1>3 DEF Inv, Spoke
-----------------------------------------------------------------------------
(* The steps                                                               *)

(* The handler's result is that of x, and the rest stays                   *)
LEMMA EndStep ==
  ASSUME Inv(end, arrived), NEW x \in Ends, NEW f, Good(end[x], f, Arrived(end, arrived, x)),
         end' = [end EXCEPT ![x] = f], arrived' = arrived
  PROVE  Inv(end', arrived') /\ ("none" \notin WriteResults => (Spoke(end) => Spoke(end')))
<1>1. PICK new : new = [end EXCEPT ![x] = f]
  OBVIOUS
<1>2. Inv(new, arrived) /\ ("none" \notin WriteResults => (Spoke(end) => Spoke(new)))
  BY <1>1, HandlerLemma
<1>. QED BY <1>1, <1>2

LEMMA StartStep ==
  ASSUME Inv(end, arrived), Start
  PROVE  Inv(end', arrived') /\ ("none" \notin WriteResults => (Spoke(end) => Spoke(end')))
<1>1. PICK w \in Outcomes : end' = [end EXCEPT !["client"] = SendC1S1([@ EXCEPT !.hs = "PostC0C1"], w)]
  BY DEF Start
<1>2. PICK e, a : e = end["client"] /\ a = Arrived(end, arrived, "client")
  OBVIOUS
<1>3. "client" \in Ends
  BY DEF Ends
<1>4. PICK f : f = SendC1S1([e EXCEPT !.hs = "PostC0C1"], w)
  OBVIOUS
<1>5. e.code /\ e.hs = "Init" /\ EndOK(e) /\ e.client /\ a \in Stream /\ Hears(e, a)
  BY <1>2, <1>3, InvFacts DEF Start, Code, EndInv
<1>6. Good(e, f, a)
  BY <1>4, <1>5, StartLemma
<1>7. end' = [end EXCEPT !["client"] = f] /\ arrived' = arrived
  <2>1. end \in [Ends -> EndRec]
    BY DEF Inv
  <2>. QED BY <1>1, <1>2, <1>3, <1>4, <2>1 DEF Start
<1>. QED BY <1>2, <1>3, <1>6, <1>7, EndStep

LEMMA ArriveStep ==
  ASSUME Inv(end, arrived), NEW x \in Ends, NEW n \in 1 .. InFlight(x), Arrive(x, n)
  PROVE  Inv(end', arrived') /\ ("none" \notin WriteResults => (Spoke(end) => Spoke(end')))
<1>1. arrived[x] \in Nat /\ Len(end[Peer(x)].wrote) \in Nat
  BY InvFacts
<1>2. n \in Nat /\ arrived[x] + n <= Len(end[Peer(x)].wrote)
  <2>1. PICK i, j : i = arrived[x] /\ j = Len(end[Peer(x)].wrote)
    OBVIOUS
  <2>2. i \in Nat /\ j \in Nat /\ n \in 1 .. j - i
    BY <1>1, <2>1 DEF InFlight
  <2>3. n \in Nat /\ i + n <= j
    BY <2>2
  <2>. QED BY <2>1, <2>3
<1>3. PICK e, g : e = end[x] /\ g = Seg(end[Peer(x)].wrote, arrived[x], n)
  OBVIOUS
<1>4. e \in EndRec /\ e.sock \in Stream /\ g \in Stream
  <2>1. end[Peer(x)].wrote \in Stream /\ e \in EndRec
    BY <1>3, InvFacts
  <2>. QED BY <1>1, <1>2, <1>3, <2>1, ArriveLemma, EndTypes
<1>5. PICK s \in Stream : s = Cat(e.sock, g)
  BY <1>4, CatType
<1>6. PICK f : f = [e EXCEPT !.sock = s, !.edge = TRUE]
  OBVIOUS
<1>7. /\ f \in EndRec /\ f.client = e.client /\ f.code = e.code /\ f.ctx = e.ctx /\ f.got = e.got
      /\ f.in = e.in /\ f.sock = s /\ f.hs = e.hs /\ f.wrote = e.wrote /\ f.out = e.out
  BY <1>4, <1>5, <1>6 DEF EndRec
<1>8. end \in [Ends -> EndRec] /\ arrived \in [Ends -> Nat] /\ Peer(x) \in Ends /\ Peer(x) # x
  BY PeerFacts DEF Inv
<1>9. end' = [end EXCEPT ![x] = f]
  <2>1. SubSeq(end[Peer(x)].wrote, arrived[x] + 1, arrived[x] + n) = g
    BY <1>3, Zenon DEF Seg
  <2>2. end[x].sock \o g = s
    BY <1>3, <1>5, Zenon DEF Cat
  <2>3. end' = [end EXCEPT ![x].sock = @ \o g, ![x].edge = TRUE]
    BY <2>1 DEF Arrive
  <2>4. end' = [end EXCEPT ![x].sock = s, ![x].edge = TRUE]
    BY <2>2, <2>3
  <2>. QED BY <1>3, <1>6, <1>8, <2>4
<1>10. end' \in [Ends -> EndRec] /\ end'[x] = f /\ end'[Peer(x)] = end[Peer(x)]
  BY <1>7, <1>8, <1>9
<1>11. arrived' \in [Ends -> Nat] /\ arrived'[x] = arrived[x] + n /\ arrived'[Peer(x)] = arrived[Peer(x)]
  BY <1>1, <1>2, <1>8 DEF Arrive
<1>12. Inv(end', arrived') /\ (Spoke(end) => Spoke(end'))
  <2>1. PICK new, more : new = end' /\ more = arrived'
    OBVIOUS
  <2>2. Receives(end, arrived, x, n, f, new, more)
    BY <1>2, <1>3, <1>5, <1>7, <1>10, <1>11, <2>1 DEF Receives
  <2>3. Inv(new, more) /\ (Spoke(end) => Spoke(new))
    BY <2>2, SegmentLemma
  <2>. QED BY <2>1, <2>3
<1>. QED BY <1>12

LEMMA OnReadStep ==
  ASSUME Inv(end, arrived), NEW x \in Ends, OnRead(x)
  PROVE  Inv(end', arrived') /\ ("none" \notin WriteResults => (Spoke(end) => Spoke(end')))
<1>1. PICK w \in Outcomes : end' = [end EXCEPT ![x] = Parse(ReadFd(@), w)]
  BY DEF OnRead
<1>2. PICK e, a : e = end[x] /\ a = Arrived(end, arrived, x)
  OBVIOUS
<1>3. PICK f : f = Parse(ReadFd(e), w)
  OBVIOUS
<1>4. e.code /\ EndOK(e) /\ a \in Stream /\ Hears(e, a)
  BY <1>2, InvFacts DEF OnRead, Code
<1>5. Good(e, f, a)
  BY <1>3, <1>4, ReadLemma
<1>6. end' = [end EXCEPT ![x] = f] /\ arrived' = arrived
  BY <1>1, <1>2, <1>3 DEF OnRead
<1>. QED BY <1>2, <1>5, <1>6, EndStep

LEMMA OnWriteStep ==
  ASSUME Inv(end, arrived), NEW x \in Ends, OnWrite(x)
  PROVE  Inv(end', arrived') /\ ("none" \notin WriteResults => (Spoke(end) => Spoke(end')))
<1>1. PICK w \in Outcomes :
        LET e == end[x]
            n == IF w[1] = "all" THEN Len(e.out) ELSE 1
            t == [e EXCEPT !.wrote = @ \o SubSeq(e.out, 1, n), !.out = From(@, n), !.edge = Len(e.out) > n]
        IN  end' = [end EXCEPT ![x] = IF t.out = <<>> /\ t.ctx = "handshake" THEN WriteComplete(t, w[2]) ELSE t]
  BY DEF OnWrite
<1>2. PICK e, a : e = end[x] /\ a = Arrived(end, arrived, x)
  OBVIOUS
<1>3. PICK n : n = IF w[1] = "all" THEN Len(e.out) ELSE 1
  OBVIOUS
<1>4. PICK t : t = [e EXCEPT !.wrote = @ \o SubSeq(e.out, 1, n), !.out = From(@, n), !.edge = Len(e.out) > n]
  OBVIOUS
<1>5. PICK f : f = IF t.out = <<>> /\ t.ctx = "handshake" THEN WriteComplete(t, w[2]) ELSE t
  OBVIOUS
<1>6. e.code /\ EndOK(e) /\ e \in EndRec /\ a \in Stream /\ Hears(e, a) /\ e.out # <<>> /\ arrived' = arrived
  BY <1>2, InvFacts DEF OnWrite, Code
<1>7. n \in Nat /\ n <= Len(e.out)
  <2>1. Len(e.out) \in Nat /\ Len(e.out) # 0
    BY <1>6, EndTypes, CatEmpty
  <2>. QED BY <1>3, <2>1
<1>8. Good(e, t, a)
  BY <1>4, <1>6, <1>7, WritevLemma
<1>9. Good(e, f, a)
  <2>1. CASE t.out = <<>> /\ t.ctx = "handshake"
    <3>1. f = WriteComplete(t, w[2]) /\ w[2] \in WriteResults
      BY <1>5, <2>1 DEF Outcomes
    <3>2. EndOK(t) /\ t.code /\ Hears(t, a)
      BY <1>6, <1>8 DEF Good
    <3>3. Good(t, f, a)
      BY <1>6, <2>1, <3>1, <3>2, CompleteLemma
    <3>. QED BY <1>6, <1>8, <3>3, GoodTrans
  <2>2. CASE ~(t.out = <<>> /\ t.ctx = "handshake")
    <3>1. f = t
      BY <1>5, <2>2
    <3>. QED BY <1>8, <3>1
  <2>. QED BY <2>1, <2>2
<1>10. end' = [end EXCEPT ![x] = f]
  BY <1>1, <1>2, <1>3, <1>4, <1>5
<1>. QED BY <1>2, <1>6, <1>9, <1>10, EndStep

LEMMA EofStep ==
  ASSUME Inv(end, arrived), NEW x \in Ends, Eof(x)
  PROVE  Inv(end', arrived') /\ ("none" \notin WriteResults => (Spoke(end) => Spoke(end')))
<1>1. PICK e, a, f : e = end[x] /\ a = Arrived(end, arrived, x) /\ f = Close(e)
  OBVIOUS
<1>2. EndOK(e) /\ (e.code => Hears(e, a))
  BY <1>1, InvFacts
<1>3. Good(e, f, a)
  BY <1>1, <1>2, CloseLemma
<1>4. end' = [end EXCEPT ![x] = f] /\ arrived' = arrived
  <2>1. end \in [Ends -> EndRec]
    BY DEF Inv
  <2>. QED BY <1>1, <2>1 DEF Eof
<1>. QED BY <1>1, <1>3, <1>4, EndStep

LEMMA ExternalStep ==
  ASSUME Inv(end, arrived), NEW from \in ClientStates, NEW need \in Nat, NEW h \in {"WaitS0S1", "WaitS2", "Done"},
         NEW b \in Stream, b # <<>>, Cat(Foretold(from), b) = Foretold(h) \/ (from = "Init" /\ Head(b) = "bad"),
         ExternalSays(from, need, h, b)
  PROVE  Inv(end', arrived') /\ ("none" \notin WriteResults => (Spoke(end) => Spoke(end')))
<1>1. PICK e, a : e = end["client"] /\ a = Arrived(end, arrived, "client")
  OBVIOUS
<1>2. PICK f : f = [e EXCEPT !.hs = h, !.sock = From(@, need), !.wrote = @ \o b]
  OBVIOUS
<1>3. "client" \in Ends
  BY DEF Ends
<1>4. EndOK(e) /\ ~e.code /\ e.hs = from /\ need <= Len(e.sock) /\ arrived' = arrived /\ e \in EndRec
  <2>1. EndOK(e) /\ e \in EndRec
    BY <1>1, <1>3, InvFacts
  <2>2. Len(e.sock) \in Nat /\ Len(e.sock) >= need
    BY SMTT(20), <1>1, <2>1, EndTypes, CatEmpty DEF ExternalSays
  <2>. QED BY <1>1, <2>1, <2>2 DEF ExternalSays
<1>5. Good(e, f, a)
  BY <1>2, <1>4, ExternalLemma
<1>6. end' = [end EXCEPT !["client"] = f]
  <2>1. end \in [Ends -> EndRec]
    BY DEF Inv
  <2>. QED BY <1>1, <1>2, <1>3, <1>4, <2>1 DEF ExternalSays, EndRec
<1>. QED BY <1>1, <1>3, <1>4, <1>5, <1>6, EndStep

LEMMA ExternalNextStep ==
  ASSUME Inv(end, arrived), ExternalNext \/ ExternalBad
  PROVE  Inv(end', arrived') /\ ("none" \notin WriteResults => (Spoke(end) => Spoke(end')))
<1>1. /\ Foretold("Init") = <<>> /\ Foretold("WaitS0S1") = Hello
      /\ Foretold("WaitS2") = Both /\ Foretold("Done") = All
  BY DEF Foretold
<1>2. {"Init", "WaitS0S1", "WaitS2"} \subseteq ClientStates
  BY DEF ClientStates
<1>3. 0 \in Nat /\ PacketSize + 1 \in Nat /\ PacketSize \in Nat
  BY HelloFacts
<1>4. CASE ExternalSays("Init", 0, "WaitS0S1", Hello)
  <2>1. Cat(Foretold("Init"), Hello) = Foretold("WaitS0S1")
    BY <1>1, SpeechFacts
  <2>. QED BY <1>2, <1>3, <1>4, <2>1, HelloFacts, ExternalStep
<1>5. CASE ExternalSays("WaitS0S1", PacketSize + 1, "WaitS2", Echo)
  <2>1. Cat(Foretold("WaitS0S1"), Echo) = Foretold("WaitS2")
    BY <1>1, SpeechFacts
  <2>. QED BY <1>2, <1>3, <1>5, <2>1, HelloFacts, ExternalStep
<1>6. CASE ExternalSays("WaitS2", PacketSize, "Done", Message)
  <2>1. Cat(Foretold("WaitS2"), Message) = Foretold("Done")
    BY <1>1, SpeechFacts
  <2>. QED BY <1>2, <1>3, <1>6, <2>1, HelloFacts, ExternalStep
<1>7. CASE ExternalBad
  <2>1. PICK b : b = [Hello EXCEPT ![1] = "bad"]
    OBVIOUS
  <2>2. b \in Stream /\ b # <<>> /\ Head(b) = "bad"
    <3>1. Hello \in Seq(Bytes) /\ Len(Hello) = PacketSize + 1 /\ PacketSize \in Nat
      BY HelloFacts DEF Stream
    <3>2. 1 \in 1 .. Len(Hello) /\ "bad" \in Bytes
      BY <3>1 DEF Bytes
    <3>3. b \in Seq(Bytes) /\ Len(b) = Len(Hello) /\ b[1] = "bad"
      BY <2>1, <3>1, <3>2, ExceptSeq
    <3>4. Len(b) # 0
      BY <3>1, <3>3
    <3>5. b # <<>>
      BY <3>3, <3>4, CatEmpty DEF Stream
    <3>. QED BY <3>3, <3>5, HeadTailProperties DEF Stream
  <2>3. ExternalSays("Init", 0, "WaitS0S1", b)
    BY <1>7, <2>1 DEF ExternalBad
  <2>. QED BY <1>2, <1>3, <2>2, <2>3, ExternalStep
<1>. QED BY <1>4, <1>5, <1>6, <1>7 DEF ExternalNext

LEMMA NextStep ==
  ASSUME Inv(end, arrived), [Next]_vars
  PROVE  Inv(end', arrived') /\ ("none" \notin WriteResults => (Spoke(end) => Spoke(end')))
<1>1. CASE Start
  BY <1>1, StartStep
<1>2. ASSUME NEW x \in Ends, NEW n \in 1 .. InFlight(x), Arrive(x, n)
      PROVE  Inv(end', arrived') /\ ("none" \notin WriteResults => (Spoke(end) => Spoke(end')))
  BY <1>2, ArriveStep
<1>3. ASSUME NEW x \in Ends, OnRead(x)
      PROVE  Inv(end', arrived') /\ ("none" \notin WriteResults => (Spoke(end) => Spoke(end')))
  BY <1>3, OnReadStep
<1>4. ASSUME NEW x \in Ends, OnWrite(x)
      PROVE  Inv(end', arrived') /\ ("none" \notin WriteResults => (Spoke(end) => Spoke(end')))
  BY <1>4, OnWriteStep
<1>5. ASSUME NEW x \in Ends, Eof(x)
      PROVE  Inv(end', arrived') /\ ("none" \notin WriteResults => (Spoke(end) => Spoke(end')))
  BY <1>5, EofStep
<1>6. CASE ExternalNext \/ ExternalBad
  BY <1>6, ExternalNextStep
<1>7. CASE UNCHANGED vars
  BY <1>7 DEF vars
<1>. QED BY <1>1, <1>2, <1>3, <1>4, <1>5, <1>6, <1>7 DEF Next

(* The states of RtmpHandShake and of RtmpContext that go together, and     *)
(* that what waits in the buffers is what follows in the stream behind the *)
(* packets the handshake has taken (handShake, onRead, writeComplete).     *)
THEOREM HandshakeInvariant == Spec => []Inv(end, arrived)
<1>1. Init => Inv(end, arrived)
  BY InitLemma
<1>2. Inv(end, arrived) /\ [Next]_vars => Inv(end, arrived)'
  BY NextStep
<1>. QED BY <1>1, <1>2, PTL DEF Spec

(* The states of client and server are apart, buffers hold bytes, and no   *)
(* more bytes arrive than were written.                                    *)
THEOREM HandshakeTypeTheorem == Spec => []TypeOK
<1>1. ASSUME Inv(end, arrived) PROVE TypeOK
  <2>1. ASSUME NEW x \in Ends
        PROVE  /\ end[x].client = (x = "client") /\ end[x].code \in BOOLEAN
               /\ end[x].ctx \in {"handshake", "message"}
               /\ end[x].edge \in BOOLEAN /\ end[x].open \in BOOLEAN
               /\ \A f \in {"in", "out", "wrote", "sock", "got"} : end[x][f] \in Seq(Bytes)
               /\ arrived[x] \in 0 .. Len(end[Peer(x)].wrote)
    <3>1. /\ EndInv(end, arrived, x) /\ end[x] \in EndRec /\ arrived[x] \in Nat
          /\ arrived[x] <= Len(end[Peer(x)].wrote) /\ Len(end[Peer(x)].wrote) \in Nat
      BY <1>1, InvFacts
    <3>2. PICK e : e = end[x]
      OBVIOUS
    <3>3. /\ e.in \in Stream /\ e.out \in Stream /\ e.wrote \in Stream /\ e.sock \in Stream /\ e.got \in Stream
          /\ e.code \in BOOLEAN /\ e.edge \in BOOLEAN /\ e.open \in BOOLEAN /\ e.ctx \in {"handshake", "message"}
      BY <3>1, <3>2, EndTypes
    <3>4. \A f \in {"in", "out", "wrote", "sock", "got"} : e[f] \in Stream
      BY <3>3
    <3>5. arrived[x] \in 0 .. Len(end[Peer(x)].wrote)
      BY <3>1
    <3>. QED BY <3>1, <3>2, <3>3, <3>4, <3>5 DEF EndInv, Stream
  <2>2. end["client"].hs \in {"Init", "PostC0C1", "WaitS0S1", "WaitS2", "PostC2", "Doning", "Done"}
    <3>1. "client" \in Ends
      BY DEF Ends
    <3>2. EndInv(end, arrived, "client")
      BY <1>1, <3>1, InvFacts
    <3>. QED BY <3>2 DEF EndInv, EndOK, ClientStates
  <2>3. end["server"].hs \in {"WaitC0C1", "PostS0S1", "PostS2", "WaitC2", "Done"}
    <3>1. "server" \in Ends
      BY DEF Ends
    <3>2. EndInv(end, arrived, "server")
      BY <1>1, <3>1, InvFacts
    <3>. QED BY <3>2 DEF EndInv, EndOK, ServerStates
  <2>. QED BY <2>1, <2>2, <2>3 DEF TypeOK
<1>. QED BY <1>1, HandshakeInvariant, PTL

(* The parser of messages is given exactly what follows the handshake,     *)
(* however TCP cuts the stream (handShake, retrieve, parse), and whatever  *)
(* write() answers.                                                        *)
THEOREM FramingTheorem == Spec => []FramingExact
<1>1. ASSUME Inv(end, arrived), NEW x \in Ends, end[x].ctx = "message"
      PROVE  end[x].got \o end[x].in \o end[x].sock
               = From(SubSeq(end[Peer(x)].wrote, 1, arrived[x]), 2 * PacketSize + 1)
  <2>1. EndOK(end[x]) /\ (end[x].code => Hears(end[x], Arrived(end, arrived, x)))
    BY <1>1, InvFacts
  <2>2. Hears(end[x], Arrived(end, arrived, x)) /\ Taken(end[x]) = 2 * PacketSize + 1
    BY <1>1, <2>1 DEF EndOK, Taken
  <2>3. Cat(Cat(end[x].got, end[x].in), end[x].sock) = From(Arrived(end, arrived, x), 2 * PacketSize + 1)
    BY <2>2 DEF Hears
  <2>. QED BY <2>3, Zenon DEF Cat, Arrived, First
<1>2. Inv(end, arrived) => FramingExact
  BY <1>1, Zenon DEF FramingExact
<1>. QED BY <1>2, HandshakeInvariant, PTL

(* The bytes of an end go out in order, none missing and none added, when  *)
(* write() never answers EAGAIN, after which a stray byte goes out         *)
(* (sendInLoop, lssvc_tcpconn.cpp:197).                                    *)
THEOREM StreamTheorem ==
  ASSUME "none" \notin WriteResults
  PROVE  Spec => []StreamIntact
<1>1. Init => Inv(end, arrived) /\ Spoke(end)
  BY InitLemma
<1>2. Inv(end, arrived) /\ Spoke(end) /\ [Next]_vars => Inv(end, arrived)' /\ Spoke(end)'
  BY NextStep
<1>3. ASSUME Inv(end, arrived), Spoke(end), NEW x \in Ends, end[x].wrote # <<>>, Head(end[x].wrote) # "bad"
      PROVE  IsPrefix(end[x].wrote, Hello \o Echo \o Message)
  <2>1. PICK e, s : e = end[x] /\ s = e.wrote
    OBVIOUS
  <2>2. e \in EndRec /\ s \in Stream /\ e.out \in Stream /\ Says(e)
    BY <1>3, <2>1, InvFacts, EndTypes DEF Spoke
  <2>3. Extends(<<>>, Hello) /\ Extends(<<>>, All) /\ Extends(Hello, All) /\ Extends(Both, All) /\ Extends(All, All)
    <3>1. Extends(Hello, Both) /\ Extends(Both, All)
      BY HelloFacts DEF Extends, Both, All, Cat
    <3>2. Extends(Hello, All)
      BY <3>1, HelloFacts, SpeechFacts, ExtendsTrans
    <3>3. All = <<>> \o All /\ Hello = <<>> \o Hello
      BY HelloFacts, SpeechFacts, Empty
    <3>4. Extends(<<>>, Hello) /\ Extends(<<>>, All)
      BY <3>3, HelloFacts, SpeechFacts DEF Extends
    <3>5. Extends(All, All)
      BY SpeechFacts, ExtendsSelf
    <3>. QED BY <3>1, <3>2, <3>4, <3>5
  <2>4. Extends(s, All)
    <3>1. CASE e.code
      <4>1. Spoken(e) \in {<<>>, Hello, Both, All}
        BY <2>2, <3>1 DEF Says, Said
      <4>2. Spoken(e) \in Stream /\ Extends(Spoken(e), All)
        BY <2>2, <2>3, <4>1, EndTypes
      <4>3. Extends(s, Spoken(e))
        BY <2>1, <2>2 DEF Extends, Spoken, Cat
      <4>. QED BY <2>2, <4>2, <4>3, SpeechFacts, ExtendsTrans
    <3>2. CASE ~e.code
      <4>1. s = Foretold(e.hs)
        BY <1>3, <2>1, <2>2, <3>2 DEF Says
      <4>2. s \in {<<>>, Hello, Both, All}
        BY <4>1 DEF Foretold
      <4>. QED BY <2>3, <4>2
    <3>. QED BY <3>1, <3>2
  <2>5. Len(s) \in Nat /\ Len(s) <= Len(s)
    BY <2>2, CatEmpty
  <2>6. SubSeq(All, 1, Len(s)) = SubSeq(s, 1, Len(s)) /\ Len(s) <= Len(All)
    BY <2>2, <2>4, <2>5, SpeechFacts, ExtendsFirst
  <2>7. IsPrefix(s, All)
    BY <2>6 DEF IsPrefix
  <2>8. All = Hello \o Echo \o Message
    BY Zenon DEF All, Both, Cat
  <2>. QED BY <2>1, <2>7, <2>8
<1>4. Inv(end, arrived) /\ Spoke(end) => StreamIntact
  BY <1>3, Zenon DEF StreamIntact
<1>. QED BY <1>1, <1>2, <1>4, PTL DEF Spec
=============================================================================
