--------------------------- MODULE LiveStreamProof ---------------------------
(***************************************************************************)
(* Proofs about the packet window of a live stream and the cursors of its  *)
(* players, for every number of players, every size of ring and batch and  *)
(* every latency.                                                          *)
(***************************************************************************)
EXTENDS LiveStream, NumberFacts

UserRec ==
  [outIndex : Index, outTs : Int, outFrames : Seq(Packet),
   pending : [Media -> Index], sentIndex : [Media -> Index]]

DecoderRec ==
  [cfg : [Media -> Index], last : Index, lost : BOOLEAN, early : BOOLEAN]

(* Headers are packets the stream has had. *)
HeadersSeen == \A m \in Media : headers[m] \subseteq 0 .. frameIndex

(* The frames a player holds follow the last one it sent and end at its    *)
(* cursor, which is never past the newest packet.                          *)
Consecutive(f) == \A k \in DOMAIN f : f[k].index = f[1].index + k - 1

CursorOK(u, last) ==
  /\ u.outIndex <= frameIndex
  /\ last <= u.outIndex
  /\ Consecutive(u.outFrames)
  /\ u.outFrames # <<>> => /\ u.outFrames[1].index > last
                           /\ u.outFrames[Len(u.outFrames)].index = u.outIndex

WindowInv == TypeOK /\ RingIsWindow /\ GopsInRing /\ HeadersSeen

IInv == WindowInv /\ \A p \in Players : CursorOK(user[p], decoder[p].last)
-----------------------------------------------------------------------------
(* What the slots hold                                                     *)

(* The slot of a packet that was published holds that packet, or, when it  *)
(* has left the window, a later one.                                       *)
LEMMA SlotLemma ==
  ASSUME TypeOK, RingIsWindow, NEW i \in Nat, i <= frameIndex
  PROVE  LET q == ring[i % BufferSize]
         IN  /\ q \in Packet
             /\ q.index >= i
             /\ q.index <= frameIndex
             /\ q.index > frameIndex - BufferSize
             /\ i > frameIndex - BufferSize => q.index = i
<1> DEFINE s == i % BufferSize
           q == ring[s]
<1>1. BufferSize \in Nat \ {0} /\ frameIndex \in Nat
  BY LiveStreamAssumption DEF TypeOK, Index, None
<1>2. s \in 0 .. BufferSize - 1 /\ s <= i
  <2>1. s \in 0 .. BufferSize - 1
    BY <1>1, ModType
  <2>2. CASE i < BufferSize
    BY <1>1, <2>2, ModSmall
  <2>3. CASE i >= BufferSize
    <3> HIDE DEF s
    <3> QED
      BY <1>1, <2>1, <2>3
  <2> QED
    BY <1>1, <2>1, <2>2, <2>3
<1>3. /\ q # NoPacket
      /\ q.index % BufferSize = s
      /\ frameIndex - BufferSize < q.index
      /\ q.index <= frameIndex
  BY <1>1, <1>2 DEF RingIsWindow
<1>4. q \in Packet
  BY <1>2, <1>3 DEF TypeOK
<1>5. q.index \in Nat
  BY <1>4 DEF Packet
<1>6. i > frameIndex - BufferSize => q.index = i
  <2> SUFFICES ASSUME i > frameIndex - BufferSize PROVE q.index = i
    OBVIOUS
  <2> DEFINE j == q.index
  <2>1. j \in Nat /\ j - i < BufferSize /\ i - j < BufferSize /\ j % BufferSize = i % BufferSize
    BY <1>1, <1>3, <1>5
  <2> HIDE DEF j
  <2>2. j = i
    BY <1>1, <2>1, ModWindow
  <2> QED
    BY <2>2 DEF j
<1>7. q.index >= i
  BY <1>1, <1>3, <1>5, <1>6
<1> QED
  BY <1>3, <1>4, <1>6, <1>7

(* A GOP entry is a packet of the stream.                                  *)
LEMMA GopLemma ==
  ASSUME WindowInv, NEW g \in gops
  PROVE  g.index \in Nat /\ g.index <= frameIndex
<1>1. BufferSize \in Nat \ {0} /\ frameIndex \in Index /\ g.index \in Nat
  BY LiveStreamAssumption DEF WindowInv, TypeOK
<1>2. CASE ring[g.index % BufferSize].index = g.index
  <2> DEFINE s == g.index % BufferSize
  <2>1. s \in 0 .. BufferSize - 1
    BY <1>1, ModType
  <2>2. ring[s] # NoPacket
    BY <1>1, <1>2 DEF NoPacket, None
  <2> QED
    BY <1>1, <1>2, <2>1, <2>2 DEF WindowInv, RingIsWindow
<1>3. CASE g.index = 0 /\ frameIndex = BufferSize
  BY <1>1, <1>3
<1> QED
  BY <1>1, <1>2, <1>3 DEF WindowInv, GopsInRing

(* getGopByLatency answers the index of a packet of the stream, or -1.     *)
LEMMA GopByLatencyType ==
  ASSUME WindowInv
  PROVE  GopByLatency \in Index /\ GopByLatency <= frameIndex
<1> DEFINE S == {g.index : g \in RecentGops}
<1>0. frameIndex \in Index
  BY DEF WindowInv, TypeOK
<1>1. CASE RecentGops = {}
  BY <1>0, <1>1 DEF GopByLatency, Index, None
<1>2. CASE RecentGops # {}
  <2>1. \A x \in S : x \in Nat /\ x <= frameIndex
    BY GopLemma DEF RecentGops
  <2>2. S \in SUBSET Nat /\ S # {}
    BY <1>2, <2>1
  <2>3. Smallest(S) \in S
    <3> HIDE DEF S
    <3>1. \E x \in S : \A y \in S : x <= y
      BY <2>2, LeastElement
    <3> QED
      BY <3>1 DEF Smallest
  <2>4. GopByLatency = Smallest(S)
    BY <1>2 DEF GopByLatency
  <2> QED
    BY <2>1, <2>3, <2>4 DEF Index
<1> QED
  BY <1>1, <1>2

(* getMeta, getAudioHeader and getVideoHeader answer a header or nothing.  *)
LEMMA HeaderForType ==
  ASSUME WindowInv, NEW m \in Media, NEW i \in Int
  PROVE  HeaderFor(m, i) \in Index
<1> DEFINE upTo == {h \in headers[m] : h <= i}
<1>1. headers[m] \subseteq 0 .. frameIndex /\ frameIndex \in Index
  BY DEF WindowInv, HeadersSeen, TypeOK
<1>2. CASE headers[m] = {}
  BY <1>2 DEF HeaderFor, Index
<1>3. ASSUME NEW S \in SUBSET headers[m], S # {}
      PROVE  Largest(S) \in S /\ Largest(S) \in Index
  <2>1. frameIndex \in Nat
    BY <1>1, <1>3 DEF Index, None
  <2>2. S \in SUBSET (0 .. frameIndex)
    BY <1>1
  <2>3. \E x \in S : \A y \in S : y <= x
    BY <1>3, <2>1, <2>2, GreatestElement
  <2>4. Largest(S) \in S
    BY <2>3 DEF Largest
  <2> QED
    BY <1>1, <2>2, <2>4, Largest(S) \in 0 .. frameIndex DEF Index
<1>4. CASE headers[m] # {} /\ i > 0 /\ upTo # {}
  BY <1>3, <1>4 DEF HeaderFor
<1>5. CASE headers[m] # {} /\ ~ (i > 0 /\ upTo # {})
  BY <1>3, <1>5 DEF HeaderFor
<1> QED
  BY <1>2, <1>4, <1>5
-----------------------------------------------------------------------------
(* What getFrames does to a player                                         *)

(* A player that is put on a GOP keeps its frames and gets a cursor.       *)
LEMMA EnqueueLemma ==
  ASSUME WindowInv, NEW u \in UserRec, NEW send \in [Media -> BOOLEAN],
         GopByLatency # None
  PROVE  LET v == Enqueue(u, send)
         IN  /\ v \in UserRec
             /\ v.outIndex = GopByLatency - 1
             /\ v.outFrames = u.outFrames
<1>1. GopByLatency \in Nat
  BY GopByLatencyType DEF Index
<1>2. \A m \in Media : HeaderFor(m, GopByLatency) \in Index
  BY <1>1, HeaderForType
<1>3. GopByLatency - 1 \in Index
  BY <1>1 DEF Index, None
<1> QED
  BY <1>2, <1>3 DEF Enqueue, UserRec

(* locateGop and skipFrame never move the cursor of a player back, nor     *)
(* past the newest packet.                                                 *)
LEMMA LocatedLemma ==
  ASSUME WindowInv, NEW u \in UserRec, u.outIndex <= frameIndex,
         u.outIndex >= 0 \/ GopByLatency # None
  PROVE  LET v == Located(u)
         IN  /\ v \in UserRec
             /\ v.outIndex >= u.outIndex
             /\ v.outIndex <= frameIndex
             /\ v.outFrames = u.outFrames
<1>0. /\ u.outIndex \in Index /\ frameIndex \in Index
      /\ GopByLatency \in Index /\ GopByLatency <= frameIndex
      /\ u.outIndex \in Int /\ frameIndex \in Int /\ GopByLatency \in Int
  BY GopByLatencyType DEF WindowInv, TypeOK, UserRec, Index, None
<1>1. CASE u.outIndex >= 0 /\ ~NeedSkip(u)
  BY <1>0, <1>1 DEF Located, Index
<1>2. CASE u.outIndex >= 0 /\ NeedSkip(u)
  <2>0. Located(u) = SkipFrame(u)
    BY <1>0, <1>2 DEF Located
  <2>1. CASE GopByLatency = None \/ GopByLatency <= u.outIndex
    BY <1>0, <2>0, <2>1 DEF SkipFrame, Index
  <2>2. CASE ~(GopByLatency = None \/ GopByLatency <= u.outIndex)
    <3> DEFINE send == [m \in Media |-> HeaderFor(m, GopByLatency) > u.sentIndex[m]]
    <3>1. send \in [Media -> BOOLEAN]
      OBVIOUS
    <3>2. SkipFrame(u) = Enqueue(u, send)
      BY <2>2 DEF SkipFrame
    <3> HIDE DEF send
    <3> QED
      BY <1>0, <2>0, <2>2, <3>1, <3>2, EnqueueLemma DEF Index, None
  <2> QED
    BY <2>1, <2>2
<1>3. CASE ~(u.outIndex >= 0)
  <2> DEFINE send == [m \in Media |-> m \in has]
  <2>1. send \in [Media -> BOOLEAN]
    OBVIOUS
  <2>2. Located(u) = Enqueue(u, send)
    BY <1>0, <1>3 DEF Located, LocateGop, Index
  <2> HIDE DEF send
  <2> QED
    BY <1>0, <1>3, <2>1, <2>2, EnqueueLemma DEF Index, None
<1> QED
  BY <1>1, <1>2, <1>3

(* getNextFrame reads consecutive packets behind the cursor.               *)
LEMMA NextFramesLemma ==
  ASSUME WindowInv, NEW u \in UserRec
  PROVE  LET f == NextFrames(u)
         IN  /\ f \in Seq(Packet)
             /\ Consecutive(f)
             /\ f # <<>> => /\ f[1].index > u.outIndex
                            /\ f[Len(f)].index <= frameIndex
<1> DEFINE i     == u.outIndex + 1
           first == ring[i % BufferSize]
           left  == frameIndex - first.index + 1
           n     == IF left < BatchSize THEN left ELSE BatchSize
           f     == [k \in 1 .. n |-> ring[(first.index + k - 1) % BufferSize]]
<1>0. /\ i \in Nat /\ u.outIndex \in Int /\ frameIndex \in Int
      /\ BufferSize \in Nat \ {0} /\ BatchSize \in Nat \ {0}
  BY LiveStreamAssumption DEF UserRec, Index, None, WindowInv, TypeOK
<1>1. CASE i > frameIndex
  <2>1. NextFrames(u) = <<>>
    BY <1>1 DEF NextFrames
  <2> QED
    BY <2>1 DEF Consecutive
<1>2. CASE i <= frameIndex
  <2>1. NextFrames(u) = f
    BY <1>0, <1>2 DEF NextFrames
  <2>2. /\ first \in Packet /\ first.index >= i
        /\ first.index <= frameIndex
        /\ first.index > frameIndex - BufferSize
    BY <1>0, <1>2, SlotLemma DEF WindowInv
  <2>3. first.index \in Nat
    BY <2>2 DEF Packet
  <2>4. n \in Nat \ {0} /\ first.index + n - 1 <= frameIndex
    BY <1>0, <2>2, <2>3
  <2>5. ASSUME NEW k \in 1 .. n
        PROVE  f[k] \in Packet /\ f[k].index = first.index + k - 1
    <3> DEFINE j == first.index + k - 1
    <3>1. j \in Nat /\ j <= frameIndex /\ j > frameIndex - BufferSize
      BY <1>0, <2>2, <2>3, <2>4
    <3>2. f[k] = ring[j % BufferSize]
      OBVIOUS
    <3> HIDE DEF j, f
    <3>3. f[k] \in Packet /\ f[k].index = j
      BY <3>1, <3>2, SlotLemma DEF WindowInv
    <3> QED
      BY <3>3 DEF j
  <2>6. f \in Seq(Packet) /\ Len(f) = n /\ DOMAIN f = 1 .. n /\ f # <<>>
    <3>1. f \in [1 .. n -> Packet]
      BY <2>5
    <3> HIDE DEF f, n
    <3>2. f \in Seq(Packet) /\ Len(f) = n
      BY <2>4, <3>1
    <3> QED
      BY <2>4, <3>1, <3>2
  <2> HIDE DEF f, n, first
  <2>7. f[1].index = first.index /\ f[Len(f)].index = first.index + n - 1
    BY <2>3, <2>4, <2>5, <2>6
  <2>8. Consecutive(f)
    BY <2>3, <2>5, <2>6, <2>7 DEF Consecutive
  <2> QED
    BY <1>0, <2>1, <2>2, <2>3, <2>4, <2>6, <2>7, <2>8
<1> QED
  BY <1>0, <1>1, <1>2

(* What getFrames hands out follows what was sent, and the cursor follows. *)
LEMMA GetFramesLemma ==
  ASSUME WindowInv, NEW u \in UserRec, NEW last \in Index, CursorOK(u, last)
  PROVE  GetFrames(u) \in UserRec /\ CursorOK(GetFrames(u), last)
<1>0. u.outIndex \in Index /\ frameIndex \in Index /\ last \in Int
  BY DEF UserRec, WindowInv, TypeOK, Index, None
<1>1. CASE ~Idle(u) \/ (u.outIndex < 0 /\ GopByLatency = None)
  BY <1>1 DEF GetFrames
<1>2. CASE Idle(u) /\ ~(u.outIndex < 0 /\ GopByLatency = None)
  <2> DEFINE v == Located(u)
             f == NextFrames(v)
             w == GetNextFrame(v)
  <2>0. GetFrames(u) = w
    BY <1>2 DEF GetFrames
  <2>1. /\ v \in UserRec /\ v.outIndex >= u.outIndex
        /\ v.outIndex <= frameIndex /\ v.outFrames = <<>>
    BY <1>0, <1>2, LocatedLemma DEF Idle, CursorOK, Index, None
  <2>2. v.outIndex \in Index /\ v.outIndex \in Int
    BY <2>1 DEF UserRec, Index, None
  <2> HIDE DEF v
  <2>3. /\ f \in Seq(Packet) /\ Consecutive(f)
        /\ f # <<>> => f[1].index > v.outIndex /\ f[Len(f)].index <= frameIndex
    BY <2>1, NextFramesLemma
  <2>4. CASE f = <<>>
    <3>1. w = v
      BY <2>4 DEF GetNextFrame
    <3> QED
      <4>1. last <= v.outIndex
        BY <1>0, <2>1, <2>2 DEF CursorOK, Index, None
      <4>2. CursorOK(v, last)
        BY <2>1, <4>1 DEF CursorOK, Consecutive
      <4> HIDE DEF w
      <4> QED
        BY <2>0, <2>1, <3>1, <4>2
  <2>5. CASE f # <<>>
    <3> DEFINE n == Len(f)
               l == f[n]
    <3>1. n \in Nat \ {0} /\ 1 \in DOMAIN f /\ n \in DOMAIN f /\ DOMAIN f = 1 .. n
      BY <2>3, <2>5
    <3>2. l \in Packet /\ f[1] \in Packet
      BY <2>3, <3>1
    <3>3. l.index \in Nat /\ l.ts \in Int /\ f[1].index \in Nat
      BY <3>2 DEF Packet
    <3>4. l.index = f[1].index + n - 1
      BY <2>3, <3>1 DEF Consecutive
    <3>5. w = [v EXCEPT !.outFrames = f, !.outIndex = l.index, !.outTs = l.ts]
      BY <2>5 DEF GetNextFrame
    <3> HIDE DEF f, w
    <3>6. w \in UserRec
      BY <2>1, <2>3, <3>3, <3>5 DEF UserRec, Index
    <3>7. w.outFrames = f /\ w.outIndex = l.index
      BY <2>1, <3>5 DEF UserRec
    <3>8. last <= l.index /\ f[1].index > last /\ l.index <= frameIndex
      BY <1>0, <2>1, <2>2, <2>3, <2>5, <3>1, <3>3, <3>4 DEF CursorOK, Index, None
    <3>9. CursorOK(w, last)
      BY <2>3, <3>7, <3>8 DEF CursorOK
    <3> QED
      BY <2>0, <3>6, <3>9 DEF w
  <2> QED
    BY <2>4, <2>5
<1> QED
  BY <1>1, <1>2
-----------------------------------------------------------------------------
(* What postFrames does to a player                                        *)

(* Sending a header or the frames keeps the cursor in order.               *)
LEMMA PushLemma ==
  ASSUME NEW u \in UserRec, NEW last \in Index, CursorOK(u, last)
  PROVE  /\ Push(u) \in UserRec
         /\ LastSent(last, u) \in Index
         /\ CursorOK(Push(u), LastSent(last, u))
<1>1. CASE NextHeader(u) # {}
  <2>1. Push(u) \in UserRec
    BY <1>1 DEF Push, UserRec, Index
  <2>2. Push(u).outIndex = u.outIndex /\ Push(u).outFrames = u.outFrames
    BY <1>1 DEF Push, UserRec
  <2>3. LastSent(last, u) = last
    BY <1>1 DEF LastSent
  <2> HIDE DEF Push
  <2> QED
    BY <2>1, <2>2, <2>3 DEF CursorOK
<1>2. CASE NextHeader(u) = {}
  <2> DEFINE v == [u EXCEPT !.outFrames = <<>>]
             l == LastSent(last, u)
  <2>0. <<>> \in Seq(Packet)
    OBVIOUS
  <2>1. v \in UserRec /\ v.outIndex = u.outIndex /\ v.outFrames = <<>>
    BY <2>0 DEF UserRec
  <2>2. l <= u.outIndex /\ l \in Index
    <3>1. CASE u.outFrames = <<>>
      BY <3>1 DEF LastSent, CursorOK
    <3>2. CASE u.outFrames # <<>>
      BY <1>2, <3>2 DEF LastSent, CursorOK, UserRec, Index, None
    <3> QED
      BY <3>1, <3>2
  <2>3. Push(u) = v
    BY <1>2 DEF Push
  <2> HIDE DEF v, l
  <2>4. CursorOK(v, l)
    BY <2>1, <2>2 DEF CursorOK, Consecutive
  <2> QED
    BY <2>1, <2>2, <2>3, <2>4 DEF l
<1> QED
  BY <1>1, <1>2

(* The indices of the header packets in a batch are indices of packets.    *)
LEMMA HeadersInLemma ==
  ASSUME frameIndex \in Index, NEW u \in UserRec, NEW last \in Index,
         CursorOK(u, last), NEW m \in Media, HeadersIn(u.outFrames, m) # {}
  PROVE  Largest(HeadersIn(u.outFrames, m)) \in Index
<1> DEFINE f == u.outFrames
           S == HeadersIn(f, m)
<1>1. f \in Seq(Packet) /\ Consecutive(f)
  BY DEF UserRec, CursorOK
<1>2. f # <<>>
  BY DEF HeadersIn
<1>3. /\ Len(f) \in Nat \ {0} /\ DOMAIN f = 1 .. Len(f)
      /\ \A k \in DOMAIN f : f[k].index \in Nat
  <2>1. /\ Len(f) \in Nat \ {0} /\ DOMAIN f = 1 .. Len(f)
        /\ \A k \in DOMAIN f : f[k] \in Packet
    <3> HIDE DEF f
    <3> QED
      BY <1>1, <1>2
  <2> QED
    BY <2>1 DEF Packet
<1>4. /\ f[Len(f)].index <= frameIndex /\ frameIndex \in Nat
  BY <1>2, <1>3 DEF CursorOK, Index, None
<1>5. ASSUME NEW k \in DOMAIN f PROVE f[k].index \in 0 .. frameIndex
  <2> DEFINE n == Len(f)
  <2>1. n \in Nat \ {0} /\ k \in 1 .. n /\ 1 \in DOMAIN f /\ n \in DOMAIN f
    BY <1>3
  <2>2. /\ f[k].index = f[1].index + k - 1
        /\ f[n].index = f[1].index + n - 1
    BY <1>1, <2>1 DEF Consecutive
  <2>3. f[1].index \in Nat /\ f[n].index <= frameIndex
    BY <1>3, <1>4, <2>1
  <2>4. f[1].index + n - 1 <= frameIndex
    BY <2>2, <2>3
  <2>5. f[1].index + k - 1 >= 0 /\ f[1].index + k - 1 <= f[1].index + n - 1
    BY <2>1, <2>3
  <2>6. f[k].index >= 0 /\ f[k].index <= frameIndex /\ f[k].index \in Int
    BY <1>4, <2>1, <2>2, <2>3, <2>4, <2>5
  <2> QED
    BY <1>4, <2>6
<1>6. S \in SUBSET (0 .. frameIndex) /\ S # {}
  BY <1>5 DEF HeadersIn
<1> HIDE DEF S
<1>7. \E x \in S : \A y \in S : y <= x
  BY <1>4, <1>6, GreatestElement
<1>8. Largest(S) \in S
  BY <1>7 DEF Largest
<1>9. Largest(S) \in Index
  BY <1>4, <1>6, <1>8, Largest(S) \in 0 .. frameIndex DEF Index
<1> QED
  BY <1>9 DEF S

(* The far end's configuration is made of indices of headers.              *)
LEMMA ConfiguredLemma ==
  ASSUME frameIndex \in Index, NEW u \in UserRec, NEW last \in Index,
         CursorOK(u, last), NEW cfg \in [Media -> Index]
  PROVE  Configured(cfg, u) \in [Media -> Index]
<1> DEFINE Cfg(m) ==
             IF NextHeader(u) # {} THEN IF m \in NextHeader(u) THEN u.pending[m] ELSE cfg[m]
             ELSE IF HeadersIn(u.outFrames, m) # {} THEN Largest(HeadersIn(u.outFrames, m))
             ELSE cfg[m]
<1>1. Configured(cfg, u) = [m \in Media |-> Cfg(m)]
  BY DEF Configured
<1>2. ASSUME NEW m \in Media PROVE Cfg(m) \in Index
  BY HeadersInLemma DEF UserRec
<1> HIDE DEF Cfg
<1> QED
  BY <1>1, <1>2
-----------------------------------------------------------------------------
(* The invariant is inductive                                              *)

LEMMA InitInv == Init => IInv
<1> SUFFICES ASSUME Init PROVE IInv
  OBVIOUS
<1>0. BufferSize \in Nat \ {0} /\ <<>> \in Seq(Packet)
  BY LiveStreamAssumption
<1>1. TypeOK
  <2>1. frameIndex \in Index /\ gops = {} /\ latestTs \in Int /\ has = {}
        /\ mediaTs \in Int /\ headers \in [Media -> SUBSET Nat]
    BY DEF Init, Index, None
  <2>6. ready \in BOOLEAN
    BY Zenon DEF Init
  <2>2. ring \in [0 .. BufferSize - 1 -> Packet \cup {NoPacket}]
    BY DEF Init
  <2>3. [m \in Media |-> None] \in [Media -> Index] /\ [m \in Media |-> 0] \in [Media -> Index]
        /\ None \in Index
    BY DEF Index
  <2>4. user \in [Players -> UserRec]
    BY <1>0, <2>3 DEF Init, UserRec
  <2>5. decoder \in [Players -> DecoderRec]
    BY <2>3 DEF Init, DecoderRec
  <2> QED
    BY <2>1, <2>2, <2>4, <2>5, <2>6 DEF TypeOK, UserRec, DecoderRec
<1>2. RingIsWindow
  BY <1>0 DEF Init, RingIsWindow
<1>3. GopsInRing /\ HeadersSeen
  BY DEF Init, GopsInRing, HeadersSeen
<1>4. ASSUME NEW p \in Players PROVE CursorOK(user[p], decoder[p].last)
  BY DEF Init, CursorOK, Consecutive, None
<1> QED
  BY <1>1, <1>2, <1>3, <1>4 DEF IInv, WindowInv

(* A packet takes the slot of the packet that leaves the window.           *)
LEMMA AddPacketInv ==
  ASSUME IInv, NEW kind \in Kinds, NEW d \in Deltas, AddPacket(kind, d)
  PROVE  IInv'
<1> DEFINE i   == frameIndex + 1
           ts  == IF kind \in HeaderKinds THEN 0
                  ELSE IF mediaTs + d < 0 THEN 0 ELSE mediaTs + d
           pkt == [index |-> i, kind |-> kind, ts |-> ts]
           gop == IF kind \in KeyKinds THEN {[index |-> i, ts |-> ts]} ELSE {}
<1>0. /\ BufferSize \in Nat \ {0} /\ frameIndex \in Int /\ frameIndex >= -1
      /\ i \in Nat /\ ts \in Int /\ kind \in AllKinds /\ pkt \in Packet
  BY LiveStreamAssumption DEF IInv, WindowInv, TypeOK, Index, None, Packet
<1>1. /\ frameIndex' = i
      /\ mediaTs' \in Int
      /\ ready' \in BOOLEAN
      /\ headers' = [m \in Media |->
                       headers[m] \cup (IF m \in HeaderMedia(kind) THEN {i} ELSE {})]
      /\ has' = has \cup MediaSeen(kind)
      /\ latestTs' = ts
      /\ ring' = [ring EXCEPT ![i % BufferSize] = pkt]
      /\ gops' = UnexpiredGops(gops \cup gop, i - BufferSize)
      /\ UNCHANGED <<user, decoder>>
  BY <1>0 DEF AddPacket, Store, IInv, WindowInv, TypeOK
<1>2. i % BufferSize \in 0 .. BufferSize - 1
  BY <1>0, ModType
<1>3. gops' \subseteq gops \cup gop
  BY <1>1 DEF UnexpiredGops
<1> HIDE DEF ts
<1>4. TypeOK'
  <2>1. frameIndex' \in Index /\ latestTs' \in Int
    BY <1>0, <1>1 DEF Index
  <2>2. ring' \in [0 .. BufferSize - 1 -> Packet \cup {NoPacket}]
    BY <1>0, <1>1, <1>2 DEF IInv, WindowInv, TypeOK
  <2>3. gops' \subseteq [index : Nat, ts : Int]
    BY <1>0, <1>3 DEF IInv, WindowInv, TypeOK
  <2>4. headers' \in [Media -> SUBSET Nat]
    BY <1>0, <1>1 DEF IInv, WindowInv, TypeOK
  <2>5. has' \subseteq Media
    BY <1>1 DEF MediaSeen, HeaderMedia, Media, IInv, WindowInv, TypeOK
  <2> QED
    BY <1>1, <2>1, <2>2, <2>3, <2>4, <2>5 DEF IInv, WindowInv, TypeOK
<1>5. RingIsWindow'
  <2> SUFFICES ASSUME NEW s \in 0 .. BufferSize - 1
               PROVE  \/ ring'[s] = NoPacket /\ frameIndex' < s
                      \/ /\ ring'[s] # NoPacket
                         /\ ring'[s].index % BufferSize = s
                         /\ frameIndex' - BufferSize < ring'[s].index
                         /\ ring'[s].index <= frameIndex'
    BY DEF RingIsWindow
  <2>1. CASE s = i % BufferSize
    <3>1. ring'[s] = pkt
      BY <1>1, <1>2, <2>1 DEF IInv, WindowInv, TypeOK
    <3>2. pkt # NoPacket
      BY <1>0 DEF NoPacket, None
    <3> QED
      BY <1>0, <1>1, <2>1, <3>1, <3>2
  <2>2. CASE s # i % BufferSize
    <3> DEFINE q == ring[s]
    <3>1. ring'[s] = q
      BY <1>1, <2>2 DEF IInv, WindowInv, TypeOK
    <3>2. CASE q = NoPacket /\ frameIndex < s
      <4>1. i # s
        BY <1>0, <2>2, ModSmall
      <4> QED
        BY <1>0, <1>1, <3>1, <3>2, <4>1
    <3>3. CASE /\ q # NoPacket
               /\ q.index % BufferSize = s
               /\ frameIndex - BufferSize < q.index
               /\ q.index <= frameIndex
      <4>1. q.index \in Nat
        BY <3>3 DEF IInv, WindowInv, TypeOK, Packet
      <4>2. i # q.index + BufferSize
        BY <1>0, <2>2, <3>3, <4>1, ModBack
      <4> QED
        BY <1>0, <1>1, <3>1, <3>3, <4>1, <4>2
    <3> QED
      BY <3>2, <3>3 DEF IInv, WindowInv, RingIsWindow
  <2> QED
    BY <2>1, <2>2
<1>6. GopsInRing'
  <2> SUFFICES ASSUME NEW g \in gops'
               PROVE  \/ ring'[g.index % BufferSize].index = g.index
                      \/ g.index = 0 /\ frameIndex' = BufferSize
    BY DEF GopsInRing
  <2>1. CASE g \in gop
    BY <1>0, <1>1, <1>2, <2>1 DEF IInv, WindowInv, TypeOK
  <2>2. CASE g \in gops
    <3> DEFINE j == g.index
    <3>1. j \in Nat /\ j <= frameIndex
      BY <2>2, GopLemma DEF IInv
    <3>2. i > BufferSize => j > i - BufferSize
      BY <1>0, <1>1 DEF UnexpiredGops
    <3>3. CASE j = 0 /\ i = BufferSize
      BY <1>1, <3>3
    <3>4. CASE ~(j = 0 /\ i = BufferSize)
      <4>1. j > i - BufferSize
        BY <1>0, <3>1, <3>2, <3>4
      <4>2. i % BufferSize # j % BufferSize
        <5> SUFFICES ASSUME i % BufferSize = j % BufferSize PROVE FALSE
          OBVIOUS
        <5> HIDE DEF i, j
        <5>1. frameIndex + 1 = i
          BY DEF i
        <5>2. i - j < BufferSize /\ j - i < BufferSize
          BY <1>0, <3>1, <4>1, <5>1
        <5>3. i = j
          BY <1>0, <3>1, <5>2, ModWindow
        <5> QED
          BY <1>0, <3>1, <5>1, <5>3
      <4>3. ring[j % BufferSize].index = j
        BY <1>0, <2>2, <3>1, <4>1 DEF IInv, WindowInv, GopsInRing
      <4>4. j % BufferSize \in 0 .. BufferSize - 1
        BY <1>0, <3>1, ModType
      <4> QED
        BY <1>1, <4>2, <4>3, <4>4 DEF IInv, WindowInv, TypeOK
    <3> QED
      BY <3>3, <3>4
  <2> QED
    BY <1>3, <2>1, <2>2
<1>7. HeadersSeen'
  <2>1. ASSUME NEW m \in Media PROVE headers'[m] \subseteq 0 .. frameIndex'
    BY <1>0, <1>1 DEF IInv, WindowInv, HeadersSeen
  <2> QED
    BY <2>1 DEF HeadersSeen
<1>8. ASSUME NEW p \in Players PROVE CursorOK(user[p], decoder[p].last)'
  <2>1. user[p].outIndex \in Int
    BY DEF IInv, WindowInv, TypeOK, Index, None
  <2> QED
    <3>1. user' = user /\ decoder' = decoder /\ frameIndex' = frameIndex + 1
      BY <1>1
    <3>2. CursorOK(user[p], decoder[p].last)
      BY DEF IInv
    <3>3. user[p].outIndex <= frameIndex'
      BY <1>0, <2>1, <3>1, <3>2 DEF CursorOK
    <3> QED
      BY <3>1, <3>2, <3>3 DEF CursorOK, Consecutive
<1> QED
  BY <1>4, <1>5, <1>6, <1>7, <1>8 DEF IInv, WindowInv

(* A player reads the window and leaves it alone.                          *)
LEMMA PostFramesInv ==
  ASSUME IInv, NEW p \in Players, NEW canSend \in BOOLEAN, PostFrames(p, canSend)
  PROVE  IInv'
<1> DEFINE u == GetFrames(user[p])
           l == decoder[p].last
           w == IF canSend THEN Push(u) ELSE u
           k == IF canSend THEN LastSent(l, u) ELSE l
           c == IF canSend THEN Configured(decoder[p].cfg, u) ELSE decoder[p].cfg
<1>0. /\ user[p] \in UserRec /\ decoder[p] \in DecoderRec
      /\ l \in Index /\ CursorOK(user[p], l) /\ frameIndex \in Index
  BY DEF IInv, WindowInv, TypeOK, UserRec, DecoderRec
<1>1. u \in UserRec /\ CursorOK(u, l)
  BY <1>0, GetFramesLemma DEF IInv
<1>2. w \in UserRec /\ k \in Index /\ CursorOK(w, k)
  BY <1>0, <1>1, PushLemma
<1>3. c \in [Media -> Index]
  BY <1>0, <1>1, ConfiguredLemma DEF DecoderRec
<1>4. UNCHANGED stream
  BY DEF PostFrames
<1>5. user' = [user EXCEPT ![p] = w]
  BY DEF PostFrames
<1>6. PICK lost \in BOOLEAN, early \in BOOLEAN :
        decoder' = [decoder EXCEPT ![p] =
                      [cfg |-> c, last |-> k, lost |-> lost, early |-> early]]
  <2> DEFINE lost  == IF ~Idle(user[p]) THEN decoder[p].lost
                      ELSE FellOut(user[p]) \/ (decoder[p].lost /\ Located(user[p]) = user[p])
             early == decoder[p].early \/ (u.outFrames # <<>> /\ GivenEarly(u))
  <2>1. lost \in BOOLEAN /\ early \in BOOLEAN
    BY <1>0 DEF DecoderRec
  <2>2. decoder' = [decoder EXCEPT ![p] =
                      [cfg |-> c, last |-> k, lost |-> lost, early |-> early]]
    BY DEF PostFrames, IInv, WindowInv, TypeOK
  <2> HIDE DEF lost, early, c, k
  <2> QED
    BY <2>1, <2>2
<1> HIDE DEF u, w, k, c
<1>7. WindowInv'
  <2>1. user' \in [Players -> UserRec]
    BY <1>2, <1>5 DEF IInv, WindowInv, TypeOK, UserRec
  <2>2. decoder' \in [Players -> DecoderRec]
    BY <1>2, <1>3, <1>6 DEF IInv, WindowInv, TypeOK, DecoderRec
  <2>3. TypeOK'
    BY <1>4, <2>1, <2>2 DEF stream, IInv, WindowInv, TypeOK, UserRec, DecoderRec
  <2> QED
    BY <1>4, <2>3 DEF stream, IInv, WindowInv, RingIsWindow, GopsInRing, HeadersSeen
<1>8. ASSUME NEW q \in Players PROVE CursorOK(user[q], decoder[q].last)'
  <2>1. CASE q = p
    <3>1. user'[q] = w /\ decoder'[q].last = k
      BY <1>5, <1>6, <2>1 DEF IInv, WindowInv, TypeOK
    <3> QED
      BY <1>2, <1>4, <3>1 DEF stream, CursorOK, Consecutive
  <2>2. CASE q # p
    <3>1. user'[q] = user[q] /\ decoder'[q] = decoder[q]
      BY <1>5, <1>6, <2>2 DEF IInv, WindowInv, TypeOK
    <3> QED
      BY <1>4, <3>1 DEF stream, IInv, CursorOK, Consecutive
  <2> QED
    BY <2>1, <2>2
<1> QED
  BY <1>7, <1>8 DEF IInv

LEMMA NextInv == IInv /\ [Next]_vars => IInv'
<1> SUFFICES ASSUME IInv, [Next]_vars PROVE IInv'
  OBVIOUS
<1>1. ASSUME NEW kind \in Kinds, NEW d \in Deltas, AddPacket(kind, d) PROVE IInv'
  BY <1>1, AddPacketInv
<1>2. ASSUME NEW p \in Players, NEW canSend \in BOOLEAN, PostFrames(p, canSend) PROVE IInv'
  BY <1>2, PostFramesInv
<1>3. CASE UNCHANGED vars
  BY <1>3 DEF vars, stream, IInv, WindowInv, TypeOK, RingIsWindow, GopsInRing,
              HeadersSeen, CursorOK, Consecutive
<1> QED
  BY <1>1, <1>2, <1>3 DEF Next

LEMMA SpecInv == Spec => []IInv
  BY InitInv, NextInv, PTL DEF Spec
-----------------------------------------------------------------------------
(* Theorems                                                                *)

(* Every variable of the stream and its players has its type: no null      *)
(* packet is handed out, no cursor is negative but the initial -1.         *)
THEOREM TypeCorrect == Spec => []TypeOK
  BY SpecInv, PTL DEF IInv, WindowInv

(* The ring is a window without holes, for every size.                     *)
THEOREM WindowTheorem == Spec => []RingIsWindow
  BY SpecInv, PTL DEF IInv, WindowInv

(* The GOPs a player can be put on are in the ring, except GOP 0 in the    *)
(* one moment before expired GOPs are cleared for the first time.          *)
THEOREM GopsTheorem == Spec => []GopsInRing
  BY SpecInv, PTL DEF IInv, WindowInv

(* No player is sent a frame twice or out of order, whatever the size of   *)
(* the ring, the batches and the latency.                                  *)
THEOREM OrderTheorem == Spec => []FramesInOrder
<1>1. IInv => FramesInOrder
  <2> SUFFICES ASSUME IInv, NEW p \in Players, NEW k \in DOMAIN Held(p).outFrames
               PROVE  LET f == Held(p).outFrames
                      IN  f[k].index > decoder[p].last /\ f[k].index = f[1].index + k - 1
    BY DEF FramesInOrder
  <2> DEFINE u == Held(p)
             f == u.outFrames
             l == decoder[p].last
  <2>1. user[p] \in UserRec /\ l \in Index /\ l \in Int /\ CursorOK(user[p], l)
    BY DEF IInv, WindowInv, TypeOK, UserRec, Index, None
  <2>2. u \in UserRec /\ CursorOK(u, l)
    BY <2>1, GetFramesLemma DEF Held, IInv
  <2> HIDE DEF u
  <2>3. f \in Seq(Packet) /\ Consecutive(f) /\ (f # <<>> => f[1].index > l)
    BY <2>2 DEF UserRec, CursorOK
  <2> HIDE DEF f
  <2>4. k \in DOMAIN f
    BY DEF f, u
  <2>5. f # <<>> /\ k \in Nat \ {0} /\ 1 \in DOMAIN f /\ f[1] \in Packet
    BY <2>3, <2>4
  <2>6. f[1].index \in Nat
    BY <2>5 DEF Packet
  <2>7. f[k].index = f[1].index + k - 1
    BY <2>3, <2>4 DEF Consecutive
  <2>8. f[k].index > l
    BY <2>1, <2>3, <2>5, <2>6, <2>7
  <2> QED
    BY <2>7, <2>8 DEF f, u
<1> QED
  BY <1>1, SpecInv, PTL
-----------------------------------------------------------------------------
(* What players start with and what they decode with                       *)

UpTo(i) == {h \in headers["video"] : h <= i}

KindOK(q) == q.kind = "videoHeader" <=> q.index \in headers["video"]

(* A GOP entry in the ring has the key frame it was made for, the newest   *)
(* packet gave the last timestamp unless it is a header, and headers that  *)
(* are still in the ring are packets there.                                *)
GopsAreKeys ==
  \A g \in gops : LET q == ring[g.index % BufferSize]
                  IN  q.index = g.index => q.kind \in KeyKinds /\ q.ts = g.ts

NewestOK ==
  frameIndex >= 0 => LET q == ring[frameIndex % BufferSize]
                     IN  q.kind \notin HeaderKinds => q.ts = mediaTs /\ latestTs = mediaTs

KindsOK == \A s \in 0 .. BufferSize - 1 : ring[s] # NoPacket => KindOK(ring[s])

HeadersKnown == headers["video"] # {} => "video" \in has

StreamInv == GopsAreKeys /\ NewestOK /\ KindsOK /\ HeadersKnown

(* The configuration a player has before the frames it holds, and the      *)
(* first frame it is for, or the last one it was for.                      *)
Ahead(u, d) == IF u.pending["video"] # None THEN u.pending["video"] ELSE d.cfg["video"]
From(u)     == IF u.outFrames = <<>> THEN u.outIndex ELSE u.outFrames[1].index

Suits(u, d)   == UpTo(From(u)) # {} => Ahead(u, d) = Largest(UpTo(From(u)))
BringsOwn(u)  == u.outFrames # <<>> /\ u.outFrames[1].kind = "videoHeader"
Overlooked(u) == \E h \in UpTo(From(u)) : h > u.sentIndex["video"]

(* A player that is not lost has the configuration for what comes next.    *)
(* One that is lost may have missed a header, but then one that is newer   *)
(* than the one it was sent last, so that the next skip sends it anew.     *)
DecoderOK(u, d) ==
  /\ \A k \in DOMAIN u.outFrames : KindOK(u.outFrames[k])
  /\ u.outFrames = <<>> => d.last = u.outIndex
  /\ ~d.early => u.sentIndex["video"] <= 0 \/ u.sentIndex["video"] <= u.outIndex
  /\ ~d.early /\ u.outIndex >= 0 => Suits(u, d) \/ BringsOwn(u) \/ (d.lost /\ Overlooked(u))

PlayersInv == \A p \in Players : DecoderOK(user[p], decoder[p])

LEMMA LargestIs ==
  ASSUME NEW S \in SUBSET Int, NEW x \in S, \A y \in S : y <= x
  PROVE  Largest(S) = x
<1>1. \A z \in S : (\A y \in S : y <= z) => z = x
  OBVIOUS
<1>. QED BY <1>1 DEF Largest

(* Of the headers up to a packet there is a newest one *)
LEMMA NewestHeader ==
  ASSUME TypeOK, HeadersSeen, NEW S \in SUBSET headers["video"], S # {}
  PROVE  Largest(S) \in S /\ S \in SUBSET Nat /\ \A y \in S : y <= Largest(S)
<1>1. "video" \in Media
  BY DEF Media
<1>2. headers["video"] \subseteq 0 .. frameIndex /\ frameIndex \in Index
  BY <1>1 DEF HeadersSeen, TypeOK
<1>3. frameIndex \in Nat /\ S \in SUBSET (0 .. frameIndex)
  BY <1>2 DEF Index, None
<1>4. \E x \in S : \A y \in S : y <= x
  BY <1>3, GreatestElement
<1>5. PICK x \in S : \A y \in S : y <= x
  BY <1>4
<1>6. S \in SUBSET Int
  BY <1>3
<1>7. Largest(S) = x
  BY <1>5, <1>6, LargestIs
<1>. QED BY <1>3, <1>5, <1>7

LEMMA InitStream == Init => StreamInv /\ PlayersInv
<1>. SUFFICES ASSUME Init
              PROVE  StreamInv /\ PlayersInv
  OBVIOUS
<1>1. "video" \in Media /\ headers["video"] = {}
  BY DEF Init, Media
<1>2. StreamInv
  BY <1>1 DEF Init, StreamInv, GopsAreKeys, NewestOK, KindsOK, HeadersKnown
<1>3. ASSUME NEW p \in Players PROVE DecoderOK(user[p], decoder[p])
  <2>1. /\ user[p].outFrames = <<>> /\ user[p].outIndex = -1 /\ user[p].sentIndex["video"] = 0
        /\ decoder[p].last = -1
    BY <1>1 DEF Init, None
  <2>. QED BY <2>1 DEF DecoderOK
<1>. QED BY <1>2, <1>3 DEF PlayersInv

(* addPacket: the packet in the slot of the newest one, and of others *)
LEMMA AddPacketStream ==
  ASSUME IInv, IInv', StreamInv, NEW kind \in Kinds, NEW d \in Deltas, AddPacket(kind, d)
  PROVE  StreamInv'
<1> DEFINE i   == frameIndex + 1
           ts  == IF kind \in HeaderKinds THEN 0
                  ELSE IF mediaTs + d < 0 THEN 0 ELSE mediaTs + d
           pkt == [index |-> i, kind |-> kind, ts |-> ts]
           gop == IF kind \in KeyKinds THEN {[index |-> i, ts |-> ts]} ELSE {}
<1>0. /\ BufferSize \in Nat \ {0} /\ frameIndex \in Int /\ i \in Nat
      /\ ring \in [0 .. BufferSize - 1 -> Packet \cup {NoPacket}]
  BY LiveStreamAssumption DEF IInv, WindowInv, TypeOK, Index, None
<1>1. /\ frameIndex' = i /\ latestTs' = ts /\ (kind \notin HeaderKinds => mediaTs' = ts)
      /\ headers' = [m \in Media |->
                       headers[m] \cup (IF m \in HeaderMedia(kind) THEN {i} ELSE {})]
      /\ has' = has \cup MediaSeen(kind)
      /\ ring' = [ring EXCEPT ![i % BufferSize] = pkt]
      /\ gops' = UnexpiredGops(gops \cup gop, i - BufferSize)
  BY <1>0 DEF AddPacket, Store
<1>2. i % BufferSize \in 0 .. BufferSize - 1
  BY <1>0, ModType
<1>3. gops' \subseteq gops \cup gop
  BY <1>1 DEF UnexpiredGops
<1>4. /\ pkt.index = i /\ pkt.kind = kind /\ pkt.ts = ts
      /\ \A g \in gop : g.index = i /\ g.ts = ts /\ kind \in KeyKinds
  OBVIOUS
<1>5. /\ ring'[i % BufferSize] = pkt
      /\ \A s \in 0 .. BufferSize - 1 : s # i % BufferSize => ring'[s] = ring[s]
  BY <1>0, <1>1, <1>2
<1>6. headers'["video"] = headers["video"] \cup (IF kind = "videoHeader" THEN {i} ELSE {})
  BY <1>1 DEF Media, HeaderMedia
<1> HIDE DEF pkt, gop, ts, i
<1>7. GopsAreKeys'
  <2>. SUFFICES ASSUME NEW g \in gops', ring'[g.index % BufferSize].index = g.index
                PROVE  /\ ring'[g.index % BufferSize].kind \in KeyKinds
                       /\ ring'[g.index % BufferSize].ts = g.ts
    BY DEF GopsAreKeys
  <2>1. CASE g \in gop
    BY <1>4, <1>5, <2>1
  <2>2. CASE g \in gops
    <3>1. g.index \in Nat /\ g.index <= frameIndex
      BY <2>2, GopLemma DEF IInv
    <3>2. g.index # i
      BY <1>0, <3>1 DEF i
    <3>3. g.index % BufferSize \in 0 .. BufferSize - 1
      BY <1>0, <3>1, ModType
    <3>4. ring'[g.index % BufferSize] = ring[g.index % BufferSize]
      BY <1>4, <1>5, <3>2, <3>3
    <3>. QED BY <2>2, <3>4 DEF StreamInv, GopsAreKeys
  <2>. QED BY <1>3, <2>1, <2>2
<1>8. NewestOK'
  BY <1>1, <1>4, <1>5 DEF NewestOK
<1>9. KindsOK'
  <2>. SUFFICES ASSUME NEW s \in 0 .. BufferSize - 1, ring'[s] # NoPacket
                PROVE  ring'[s].kind = "videoHeader" <=> ring'[s].index \in headers'["video"]
    BY DEF KindsOK, KindOK
  <2>1. CASE s = i % BufferSize
    <3>1. i \notin headers["video"]
      <4>1. headers["video"] \subseteq 0 .. frameIndex
        BY DEF IInv, WindowInv, HeadersSeen, Media
      <4>. QED BY <1>0, <4>1 DEF i
    <3>. QED BY <1>4, <1>5, <1>6, <2>1, <3>1
  <2>2. CASE s # i % BufferSize
    <3>1. ring'[s] = ring[s]
      BY <1>5, <2>2
    <3>2. ring[s].kind = "videoHeader" <=> ring[s].index \in headers["video"]
      BY <3>1 DEF StreamInv, KindsOK, KindOK
    <3>3. ring[s].index # i
      <4>1. ring[s].index <= frameIndex /\ ring[s] \in Packet
        BY <1>0, <3>1 DEF IInv, WindowInv, RingIsWindow
      <4>. QED BY <1>0, <4>1 DEF i, Packet
    <3>. QED BY <1>6, <3>1, <3>2, <3>3
  <2>. QED BY <2>1, <2>2
<1>10. HeadersKnown'
  BY <1>1, <1>6 DEF HeadersKnown, StreamInv, MediaSeen, HeaderMedia
<1>. QED BY <1>7, <1>8, <1>9, <1>10 DEF StreamInv

(* addPacket changes nothing of what a player holds *)
LEMMA AddPacketPlayers ==
  ASSUME IInv, PlayersInv, NEW kind \in Kinds, NEW d \in Deltas, AddPacket(kind, d)
  PROVE  PlayersInv'
<1>1. /\ frameIndex \in Index /\ user' = user /\ decoder' = decoder
      /\ headers["video"] \subseteq 0 .. frameIndex
      /\ \E new \in SUBSET {frameIndex + 1} : headers'["video"] = headers["video"] \cup new
  BY DEF AddPacket, IInv, WindowInv, TypeOK, HeadersSeen, Media
<1>2. PICK new \in SUBSET {frameIndex + 1} : headers'["video"] = headers["video"] \cup new
  BY <1>1
<1>3. ASSUME NEW i \in Int, i <= frameIndex
      PROVE  /\ i \in headers'["video"] <=> i \in headers["video"]
             /\ {h \in headers'["video"] : h <= i} = {h \in headers["video"] : h <= i}
  <2>1. frameIndex \in Int
    BY <1>1 DEF Index, None
  <2>2. \A h \in new : h = frameIndex + 1 /\ ~(h <= i)
    BY <1>2, <1>3, <2>1
  <2>3. i \notin new
    BY <1>3, <2>2
  <2>. QED BY <1>2, <2>2, <2>3
<1>4. ASSUME NEW p \in Players PROVE DecoderOK(user[p], decoder[p])'
  <2>0. PICK u, e : u = user[p] /\ e = decoder[p]
    OBVIOUS
  <2>1. u \in UserRec /\ CursorOK(u, e.last) /\ DecoderOK(u, e)
    BY <2>0 DEF IInv, WindowInv, TypeOK, UserRec, PlayersInv
  <2>2. user'[p] = u /\ decoder'[p] = e
    BY <1>1, <2>0
  <2>3. \A k \in DOMAIN u.outFrames : u.outFrames[k].index \in Int /\ u.outFrames[k].index <= frameIndex
    <3>. SUFFICES ASSUME NEW k \in DOMAIN u.outFrames
                  PROVE  u.outFrames[k].index \in Int /\ u.outFrames[k].index <= frameIndex
      OBVIOUS
    <3>. DEFINE f == u.outFrames
                n == Len(f)
    <3>1. f \in Seq(Packet) /\ Consecutive(f) /\ u.outIndex <= frameIndex
      BY <2>1 DEF UserRec, CursorOK
    <3>2. f # <<>> /\ f[n].index = u.outIndex
      BY <2>1 DEF CursorOK
    <3>. HIDE DEF f
    <3>3. k \in 1 .. n /\ n \in 1 .. n /\ 1 \in 1 .. n /\ DOMAIN f = 1 .. n
      BY <3>1, <3>2 DEF f
    <3>4. f[k] \in Packet /\ f[1] \in Packet
      BY <3>1, <3>3
    <3>5. f[k].index = f[1].index + k - 1 /\ f[n].index = f[1].index + n - 1
      BY <3>1, <3>3 DEF Consecutive
    <3>6. f[k].index \in Nat /\ f[1].index \in Nat
      BY <3>4 DEF Packet
    <3>7. f[1].index + n - 1 <= frameIndex
      BY <3>1, <3>2, <3>5
    <3>8. frameIndex \in Int /\ n \in Nat /\ k \in Nat /\ k <= n
      BY <1>1, <3>3 DEF Index, None
    <3>9. f[k].index <= frameIndex
      BY <3>5, <3>6, <3>7, <3>8
    <3>. QED BY <3>6, <3>9 DEF f
  <2>4. From(u) \in Int /\ From(u) <= frameIndex
    <3>1. CASE u.outFrames = <<>>
      BY <2>1, <3>1 DEF From, CursorOK, UserRec, Index, None
    <3>2. CASE u.outFrames # <<>>
      <4>1. 1 \in DOMAIN u.outFrames
        BY <2>1, <3>2 DEF UserRec
      <4>. QED BY <2>3, <3>2, <4>1 DEF From
    <3>. QED BY <3>1, <3>2
  <2>5. UpTo(From(u))' = UpTo(From(u))
    BY <1>3, <2>4 DEF UpTo, From
  <2>6. \A k \in DOMAIN u.outFrames : KindOK(u.outFrames[k])'
    <3>1. \A k \in DOMAIN u.outFrames : KindOK(u.outFrames[k])
      BY <2>1 DEF DecoderOK
    <3>. QED BY <1>3, <2>3, <3>1 DEF KindOK
  <2>7. Suits(u, e)' <=> Suits(u, e)
    BY <2>5 DEF Suits, Ahead
  <2>8. Overlooked(u)' <=> Overlooked(u)
    BY <2>5 DEF Overlooked
  <2>9. DecoderOK(u, e)'
    BY <2>1, <2>6, <2>7, <2>8 DEF DecoderOK, BringsOwn
  <2>. QED BY <2>2, <2>9
<1>. QED BY <1>1, <1>4 DEF PlayersInv

(* What getNextFrame reads: from the slot behind the cursor on *)
LEMMA ReadLemma ==
  ASSUME WindowInv, NEW u \in UserRec, u.outIndex + 1 <= frameIndex
  PROVE  LET f == NextFrames(u)
         IN  /\ f # <<>> /\ f[1] = ring[(u.outIndex + 1) % BufferSize]
             /\ \A k \in DOMAIN f : \E s \in 0 .. BufferSize - 1 : f[k] = ring[s]
<1> DEFINE i     == u.outIndex + 1
           first == ring[i % BufferSize]
           left  == frameIndex - first.index + 1
           n     == IF left < BatchSize THEN left ELSE BatchSize
           f     == [k \in 1 .. n |-> ring[(first.index + k - 1) % BufferSize]]
<1>0. /\ i \in Nat /\ u.outIndex \in Int /\ frameIndex \in Int
      /\ BufferSize \in Nat \ {0} /\ BatchSize \in Nat \ {0}
  BY LiveStreamAssumption DEF UserRec, Index, None, WindowInv, TypeOK
<1>1. NextFrames(u) = f
  BY <1>0 DEF NextFrames
<1>2. i % BufferSize \in 0 .. BufferSize - 1
  BY <1>0, ModType
<1>3. /\ first \in Packet /\ first.index >= i
      /\ first.index <= frameIndex
  BY <1>0, SlotLemma DEF WindowInv
<1>4. first.index \in Nat
  BY <1>3 DEF Packet
<1>5. first.index % BufferSize = i % BufferSize
  <2>1. first # NoPacket
    BY <1>4 DEF NoPacket, None
  <2>. QED BY <1>2, <2>1 DEF WindowInv, RingIsWindow
<1>6. n \in Nat \ {0}
  BY <1>0, <1>3, <1>4
<1>7. DOMAIN f = 1 .. n /\ 1 \in 1 .. n
  BY <1>6
<1>8. f[1] = ring[i % BufferSize]
  <2>1. f[1] = ring[(first.index + 1 - 1) % BufferSize]
    BY <1>7
  <2>2. first.index + 1 - 1 = first.index
    BY SMTT(20), <1>4
  <2> HIDE DEF f, first, i
  <2>. QED BY <1>5, <2>1, <2>2
<1>9. ASSUME NEW k \in DOMAIN f PROVE \E s \in 0 .. BufferSize - 1 : f[k] = ring[s]
  <2>1. first.index + k - 1 \in Nat
    BY <1>4, <1>7
  <2>2. (first.index + k - 1) % BufferSize \in 0 .. BufferSize - 1
    BY <1>0, <2>1, ModType
  <2>3. f[k] = ring[(first.index + k - 1) % BufferSize]
    OBVIOUS
  <2>. QED BY <2>2, <2>3
<1>10. f # <<>>
  BY <1>7
<1>. HIDE DEF f, i
<1>. QED BY <1>1, <1>8, <1>9, <1>10 DEF i

(* Where the frames that getFrames hands out begin: behind the cursor, or  *)
(* at the GOP that locateGop or skipFrame found.                           *)
Continues(u, v) == v = u /\ u.outIndex >= 0

Joins(u, v) ==
  /\ u.outIndex < 0 /\ GopByLatency # None
  /\ v = Enqueue(u, [m \in Media |-> m \in has])

Skips(u, v) ==
  /\ u.outIndex >= 0 /\ GopByLatency # None /\ GopByLatency > u.outIndex
  /\ v = Enqueue(u, [m \in Media |-> HeaderFor(m, GopByLatency) > u.sentIndex[m]])

LEMMA LocatedHow ==
  ASSUME WindowInv, NEW u \in UserRec, u.outIndex >= 0 \/ GopByLatency # None
  PROVE  LET v == Located(u) IN Continues(u, v) \/ Joins(u, v) \/ (Skips(u, v) /\ u # v)
<1>0. /\ u.outIndex \in Int /\ GopByLatency \in Int /\ frameIndex \in Int
      /\ GopByLatency \in Index
  BY GopByLatencyType DEF WindowInv, TypeOK, UserRec, Index, None
<1>1. CASE u.outIndex < 0
  <2>1. ~(u.outIndex >= 0)
    BY <1>0, <1>1
  <2>2. Located(u) = Enqueue(u, [m \in Media |-> m \in has])
    BY <1>1 DEF Located, LocateGop
  <2>. QED BY <1>1, <2>1, <2>2 DEF Joins
<1>2. CASE u.outIndex >= 0
  <2>1. Located(u) = u \/ (NeedSkip(u) /\ Located(u) = SkipFrame(u))
    BY <1>0, <1>2 DEF Located
  <2>2. CASE Located(u) = SkipFrame(u) /\ ~(GopByLatency = None \/ GopByLatency <= u.outIndex)
    <3>1. Located(u) = Enqueue(u, [m \in Media |-> HeaderFor(m, GopByLatency) > u.sentIndex[m]])
      BY <2>2 DEF SkipFrame
    <3>2. Skips(u, Located(u))
      BY <1>0, <1>2, <2>2, <3>1 DEF Skips
    <3>. QED
      <4>. CASE u = Located(u)
        BY <1>2 DEF Continues
      <4>. CASE u # Located(u)
        BY <3>2
      <4>. QED OBVIOUS
  <2>3. CASE Located(u) = SkipFrame(u) /\ (GopByLatency = None \/ GopByLatency <= u.outIndex)
    BY <1>2, <2>3 DEF SkipFrame, Continues
  <2>4. CASE Located(u) = u
    BY <1>2, <2>4 DEF Continues
  <2>. QED BY <2>1, <2>2, <2>3, <2>4
<1>. QED BY <1>0, <1>1, <1>2

LEMMA HandsOut ==
  ASSUME WindowInv, NEW u \in UserRec, u.outIndex <= frameIndex, Idle(u), GetFrames(u) # u
  PROVE  LET v == Located(u)
             w == GetFrames(u)
             f == w.outFrames
         IN  /\ Continues(u, v) \/ Joins(u, v) \/ (Skips(u, v) /\ u # v)
             /\ v \in UserRec /\ v.outIndex + 1 \in Nat /\ v.outIndex + 1 <= frameIndex
             /\ f # <<>> /\ f \in Seq(Packet) /\ Consecutive(f)
             /\ f[1] = ring[(v.outIndex + 1) % BufferSize]
             /\ \A k \in DOMAIN f : \E s \in 0 .. BufferSize - 1 : f[k] = ring[s]
             /\ w.outIndex = f[Len(f)].index
             /\ w.pending = v.pending /\ w.sentIndex = v.sentIndex
<1>1. u.outIndex >= 0 \/ GopByLatency # None
  BY DEF GetFrames, UserRec, Index, None
<1>2. GetFrames(u) = GetNextFrame(Located(u))
  BY DEF GetFrames
<1>3. PICK v : v = Located(u)
  OBVIOUS
<1>4. v \in UserRec /\ v.outIndex <= frameIndex
  BY <1>1, <1>3, LocatedLemma
<1>5. Continues(u, v) \/ Joins(u, v) \/ (Skips(u, v) /\ u # v)
  BY <1>1, <1>3, LocatedHow
<1>6. /\ v.outIndex \in Int /\ v.outIndex + 1 \in Nat /\ frameIndex \in Int
      /\ GopByLatency \in Int /\ GopByLatency <= frameIndex
  BY <1>4, GopByLatencyType DEF UserRec, WindowInv, TypeOK, Index, None
<1>7. PICK f : f = NextFrames(v)
  OBVIOUS
<1>8. v.outIndex + 1 <= frameIndex
  <2>1. CASE Joins(u, v) \/ Skips(u, v)
    <3>1. v.outIndex = GopByLatency - 1
      BY <2>1 DEF Joins, Skips, Enqueue, UserRec
    <3>. QED BY <1>6, <3>1
  <2>2. CASE v = u
    <3>1. f # <<>>
      BY <1>2, <1>3, <1>7, <2>2 DEF GetNextFrame
    <3>2. ~(v.outIndex + 1 > frameIndex)
      BY <1>7, <3>1 DEF NextFrames
    <3>. QED BY <1>6, <3>2
  <2>. QED BY <1>5, <2>1, <2>2 DEF Continues
<1>9. /\ f # <<>> /\ f[1] = ring[(v.outIndex + 1) % BufferSize]
      /\ \A k \in DOMAIN f : \E s \in 0 .. BufferSize - 1 : f[k] = ring[s]
  BY <1>4, <1>7, <1>8, ReadLemma
<1>10. f \in Seq(Packet) /\ Consecutive(f)
  BY <1>4, <1>7, NextFramesLemma
<1>11. GetFrames(u) = [v EXCEPT !.outFrames = f, !.outIndex = f[Len(f)].index, !.outTs = f[Len(f)].ts]
  BY <1>2, <1>3, <1>7, <1>9 DEF GetNextFrame
<1>12. PICK w : w = GetFrames(u)
  OBVIOUS
<1>13. /\ w.outFrames = f /\ w.outIndex = f[Len(f)].index
       /\ w.pending = v.pending /\ w.sentIndex = v.sentIndex
  BY <1>4, <1>11, <1>12 DEF UserRec
<1>. QED BY <1>3, <1>4, <1>5, <1>6, <1>8, <1>9, <1>10, <1>12, <1>13

(* The GOP that getGopByLatency finds is recent *)
LEMMA GopFound ==
  ASSUME WindowInv, GopByLatency # None
  PROVE  \E g \in gops : g.index = GopByLatency /\ latestTs - g.ts <= Latency
<1> DEFINE S == {g.index : g \in RecentGops}
<1>1. RecentGops # {} /\ GopByLatency = Smallest(S)
  BY DEF GopByLatency
<1>2. \A x \in S : x \in Nat
  BY GopLemma DEF RecentGops
<1>3. S \in SUBSET Nat /\ S # {}
  BY <1>1, <1>2
<1>4. Smallest(S) \in S
  <2> HIDE DEF S
  <2>1. \E x \in S : \A y \in S : x <= y
    BY <1>3, LeastElement
  <2>. QED BY <2>1 DEF Smallest
<1>5. PICK g \in RecentGops : g.index = GopByLatency
  BY <1>1, <1>4
<1>6. g \in gops /\ g.index \in Nat
  BY <1>5, GopLemma DEF RecentGops
<1>7. latestTs - g.ts <= Latency
  BY <1>5, <1>6 DEF RecentGops
<1>. QED BY <1>5, <1>6, <1>7

(* The packet in the slot of that GOP *)
LEMMA GopPacket ==
  ASSUME WindowInv, StreamInv, GopByLatency # None
  PROVE  LET q == ring[GopByLatency % BufferSize]
         IN  \/ q.index = GopByLatency /\ q.kind \in KeyKinds /\ latestTs - q.ts <= Latency
             \/ /\ GopByLatency = 0 /\ frameIndex = BufferSize
                /\ q = ring[frameIndex % BufferSize] /\ q.index = frameIndex
<1>0. BufferSize \in Nat \ {0} /\ frameIndex \in Index
  BY LiveStreamAssumption DEF WindowInv, TypeOK
<1>1. PICK g \in gops : g.index = GopByLatency /\ latestTs - g.ts <= Latency
  BY GopFound
<1>2. CASE ring[g.index % BufferSize].index = g.index
  BY <1>1, <1>2 DEF StreamInv, GopsAreKeys
<1>3. CASE g.index = 0 /\ frameIndex = BufferSize
  <2>1. frameIndex \in Nat /\ frameIndex % BufferSize = 0 % BufferSize
    BY <1>0, <1>3, ModBack
  <2>2. ring[frameIndex % BufferSize].index = frameIndex
    <3>1. frameIndex > frameIndex - BufferSize /\ frameIndex <= frameIndex
      BY <1>0, <2>1
    <3>. QED BY <2>1, <3>1, SlotLemma DEF WindowInv
  <2>. QED BY <1>1, <1>3, <2>1, <2>2
<1>. QED BY <1>2, <1>3 DEF WindowInv, GopsInRing

(* The first of the frames that getFrames hands out *)
LEMMA FirstFrame ==
  ASSUME WindowInv, StreamInv, NEW u \in UserRec, u.outIndex <= frameIndex, Idle(u), GetFrames(u) # u
  PROVE  LET v == Located(u)
             q == GetFrames(u).outFrames[1]
         IN  \/ Continues(u, v) /\ (FellOut(u) \/ q.index = u.outIndex + 1)
             \/ /\ Joins(u, v) \/ (Skips(u, v) /\ u # v)
                /\ \/ q.index = GopByLatency /\ q.kind \in KeyKinds /\ latestTs - q.ts <= Latency
                   \/ /\ GopByLatency = 0 /\ frameIndex = BufferSize
                      /\ q = ring[frameIndex % BufferSize] /\ q.index = frameIndex
<1>1. PICK v : v = Located(u)
  OBVIOUS
<1>2. PICK q : q = GetFrames(u).outFrames[1]
  OBVIOUS
<1>3. /\ Continues(u, v) \/ Joins(u, v) \/ (Skips(u, v) /\ u # v)
      /\ v.outIndex + 1 \in Nat /\ v.outIndex + 1 <= frameIndex
      /\ q = ring[(v.outIndex + 1) % BufferSize]
  BY <1>1, <1>2, HandsOut
<1>4. CASE Continues(u, v)
  <2>1. v = u /\ u.outIndex >= 0 /\ u.outIndex \in Int /\ frameIndex \in Int /\ BufferSize \in Int
    BY <1>4, LiveStreamAssumption DEF Continues, UserRec, WindowInv, TypeOK, Index, None
  <2>2. CASE u.outIndex < frameIndex - BufferSize
    BY <1>1, <1>2, <1>4, <2>1, <2>2 DEF FellOut
  <2>3. CASE ~(u.outIndex < frameIndex - BufferSize)
    <3>1. u.outIndex + 1 > frameIndex - BufferSize /\ u.outIndex + 1 \in Nat /\ u.outIndex + 1 <= frameIndex
      BY <1>3, <2>1, <2>3
    <3>2. ring[(u.outIndex + 1) % BufferSize].index = u.outIndex + 1
      BY <3>1, SlotLemma DEF WindowInv
    <3>. QED BY <1>1, <1>2, <1>3, <1>4, <2>1, <3>2
  <2>. QED BY <2>2, <2>3
<1>5. CASE Joins(u, v) \/ (Skips(u, v) /\ u # v)
  <2>1. GopByLatency # None /\ v.outIndex = GopByLatency - 1
    BY <1>5 DEF Joins, Skips, Enqueue, UserRec
  <2>2. v.outIndex + 1 = GopByLatency
    BY <2>1, GopByLatencyType DEF Index, None
  <2>3. q = ring[GopByLatency % BufferSize]
    BY <1>3, <2>2
  <2>. QED BY <1>1, <1>2, <1>5, <2>1, <2>3, GopPacket
<1>. QED BY <1>3, <1>4, <1>5

(* A player that has nothing and is handed something got it from getFrames *)
LEMMA HeldFrames ==
  ASSUME IInv, StreamInv, PlayersInv, NEW p \in Players, Idle(user[p]), Held(p).outFrames # <<>>
  PROVE  LET u == user[p] IN
         /\ u \in UserRec /\ u.outIndex <= frameIndex /\ GetFrames(u) # u
         /\ Held(p) = GetFrames(u) /\ decoder[p].last = u.outIndex
<1>1. user[p].outFrames = <<>>
  BY DEF Idle
<1>2. Held(p) = GetFrames(user[p]) /\ GetFrames(user[p]) # user[p]
  BY <1>1 DEF Held
<1>3. user[p] \in UserRec /\ user[p].outIndex <= frameIndex
  BY DEF IInv, WindowInv, TypeOK, UserRec, CursorOK
<1>4. decoder[p].last = user[p].outIndex
  BY <1>1 DEF PlayersInv, DecoderOK
<1>. QED BY <1>2, <1>3, <1>4

LEMMA GapFromInv ==
  ASSUME IInv, StreamInv, PlayersInv
  PROVE  GapLandsOnKeyFrame
<1>. SUFFICES ASSUME NEW p \in Players, Idle(user[p]), Held(p).outFrames # <<>>
              PROVE  LET f == Held(p).outFrames
                     IN  \/ user[p].outIndex >= 0 /\ f[1].index = decoder[p].last + 1
                         \/ f[1].kind \in KeyKinds
                         \/ FellOut(user[p])
                         \/ GopByLatency = 0 /\ frameIndex = BufferSize
  BY DEF GapLandsOnKeyFrame
<1>1. PICK u : u = user[p]
  OBVIOUS
<1>2. /\ u \in UserRec /\ u.outIndex <= frameIndex /\ GetFrames(u) # u /\ Idle(u)
      /\ Held(p) = GetFrames(u) /\ decoder[p].last = u.outIndex
  BY <1>1, HeldFrames
<1>3. WindowInv
  BY DEF IInv
<1>4. PICK q : q = GetFrames(u).outFrames[1]
  OBVIOUS
<1>5. \/ u.outIndex >= 0 /\ (FellOut(u) \/ q.index = u.outIndex + 1)
      \/ q.kind \in KeyKinds
      \/ GopByLatency = 0 /\ frameIndex = BufferSize
  BY <1>2, <1>3, <1>4, FirstFrame DEF Continues
<1>. QED BY <1>1, <1>2, <1>4, <1>5

LEMMA LatencyFromInv ==
  ASSUME IInv, StreamInv, PlayersInv
  PROVE  JoinsWithinLatency
<1>. SUFFICES ASSUME NEW p \in Players, Idle(user[p]), Held(p).outFrames # <<>>,
                     ring[frameIndex % BufferSize].kind \notin HeaderKinds
              PROVE  LET f == Held(p).outFrames
                     IN  \/ user[p].outIndex >= 0 /\ f[1].index = decoder[p].last + 1
                         \/ mediaTs - f[1].ts <= Latency
                         \/ FellOut(user[p])
  BY DEF JoinsWithinLatency
<1>1. PICK u : u = user[p]
  OBVIOUS
<1>2. /\ u \in UserRec /\ u.outIndex <= frameIndex /\ GetFrames(u) # u /\ Idle(u)
      /\ Held(p) = GetFrames(u) /\ decoder[p].last = u.outIndex
  BY <1>1, HeldFrames
<1>3. WindowInv
  BY DEF IInv
<1>4. PICK q : q = GetFrames(u).outFrames[1]
  OBVIOUS
<1>5. \/ u.outIndex >= 0 /\ (FellOut(u) \/ q.index = u.outIndex + 1)
      \/ latestTs - q.ts <= Latency
      \/ q = ring[frameIndex % BufferSize]
  BY <1>2, <1>3, <1>4, FirstFrame DEF Continues
<1>6. frameIndex >= 0
  <2>1. Located(u).outIndex + 1 \in Nat /\ Located(u).outIndex + 1 <= frameIndex /\ frameIndex \in Int
    BY <1>2, <1>3, HandsOut DEF WindowInv, TypeOK, Index, None
  <2>. QED BY <2>1
<1>7. ring[frameIndex % BufferSize].ts = mediaTs /\ latestTs = mediaTs
  BY <1>6 DEF StreamInv, NewestOK
<1>8. mediaTs \in Int /\ Latency \in Nat
  BY <1>3, LiveStreamAssumption DEF WindowInv, TypeOK
<1>9. mediaTs - mediaTs <= Latency
  BY <1>8
<1>10. \/ u.outIndex >= 0 /\ (FellOut(u) \/ q.index = u.outIndex + 1)
       \/ mediaTs - q.ts <= Latency
  BY <1>5, <1>7, <1>9
<1>. QED BY <1>1, <1>2, <1>4, <1>10
-----------------------------------------------------------------------------
(* Which header a player decodes with                                      *)

LEMMA UpToType ==
  ASSUME WindowInv, NEW i \in Int
  PROVE  /\ UpTo(i) \in SUBSET headers["video"] /\ UpTo(i) \in SUBSET Nat
         /\ UpTo(i) # {} => /\ Largest(UpTo(i)) \in UpTo(i)
                            /\ \A h \in UpTo(i) : h <= Largest(UpTo(i))
<1>1. UpTo(i) \in SUBSET headers["video"]
  BY DEF UpTo
<1>2. TypeOK /\ HeadersSeen
  BY DEF WindowInv
<1>3. headers["video"] \in SUBSET Nat
  BY <1>2 DEF TypeOK, Media
<1>. QED BY <1>1, <1>2, <1>3, NewestHeader

(* What locateGop and skipFrame look up for a GOP, given its first frame   *)
LEMMA HeaderOfGop ==
  ASSUME WindowInv, StreamInv, GopByLatency # None, NEW q, KindOK(q),
         \/ q.index = GopByLatency
         \/ GopByLatency = 0 /\ q.index = frameIndex,
         q.kind # "videoHeader", UpTo(q.index) # {}
  PROVE  HeaderFor("video", GopByLatency) = Largest(UpTo(q.index))
<1>1. GopByLatency \in Nat /\ frameIndex \in Int
  BY GopByLatencyType DEF WindowInv, TypeOK, Index, None
<1>2. headers["video"] # {}
  BY DEF UpTo
<1>3. CASE q.index = GopByLatency
  <2>1. GopByLatency # 0
    <3>. SUFFICES ASSUME GopByLatency = 0
                  PROVE  FALSE
      OBVIOUS
    <3>1. PICK h \in headers["video"] : h <= 0
      BY <1>3 DEF UpTo
    <3>2. h \in Nat
      BY DEF WindowInv, TypeOK, Media
    <3>3. q.index = h
      BY <1>3, <3>1, <3>2
    <3>. QED BY <3>3 DEF KindOK
  <2>2. GopByLatency > 0
    BY <1>1, <2>1
  <2>. QED BY <1>2, <1>3, <2>2 DEF HeaderFor, UpTo
<1>4. CASE GopByLatency = 0 /\ q.index = frameIndex
  <2>1. headers["video"] \subseteq 0 .. frameIndex
    BY DEF WindowInv, HeadersSeen, Media
  <2>2. UpTo(q.index) = headers["video"]
    BY <1>1, <1>4, <2>1 DEF UpTo
  <2>3. ~(GopByLatency > 0)
    BY <1>4
  <2>. QED BY <1>2, <2>2, <2>3 DEF HeaderFor
<1>. QED BY <1>3, <1>4

LEMMA StaysWhere ==
  ASSUME NEW u \in UserRec, Idle(u), GetFrames(u) = u, u.outIndex >= 0
  PROVE  Located(u) = u
<1>1. ~(u.outIndex < 0)
  BY DEF UserRec, Index, None
<1>2. PICK v : v = Located(u)
  OBVIOUS
<1>3. u = GetNextFrame(v) /\ u.outFrames = <<>>
  BY <1>1, <1>2 DEF GetFrames, Idle
<1>4. CASE NextFrames(v) = <<>>
  BY <1>2, <1>3, <1>4 DEF GetNextFrame
<1>5. CASE NextFrames(v) # <<>>
  <2>1. u = [v EXCEPT !.outFrames = NextFrames(v), !.outIndex = NextFrames(v)[Len(NextFrames(v))].index,
                      !.outTs = NextFrames(v)[Len(NextFrames(v))].ts]
    BY <1>3, <1>5 DEF GetNextFrame
  <2>2. "outFrames" \in DOMAIN v
    <3>1. DOMAIN u = DOMAIN v
      BY <2>1
    <3>. QED BY <3>1 DEF UserRec
  <2>3. u.outFrames = NextFrames(v)
    BY <2>1, <2>2
  <2>. QED BY <1>3, <1>5, <2>3
<1>. QED BY <1>4, <1>5

(* The frames that follow the last one: no header in between, or lost *)
LEMMA ContinuesWell ==
  ASSUME WindowInv, NEW u \in UserRec, NEW w \in UserRec, NEW d \in DecoderRec, DecoderOK(u, d), ~d.early,
         NEW lost \in BOOLEAN, d.lost => lost, u.outFrames = <<>>, u.outIndex >= 0,
         w.pending = u.pending, w.sentIndex = u.sentIndex, w.outFrames # <<>>,
         NEW q \in Packet, q = w.outFrames[1], KindOK(q), q.index > u.outIndex,
         lost \/ q.index = u.outIndex + 1
  PROVE  Suits(w, d) \/ BringsOwn(w) \/ (lost /\ Overlooked(w))
<1>. SUFFICES ASSUME q.kind # "videoHeader"
              PROVE  Suits(w, d) \/ (lost /\ Overlooked(w))
  BY DEF BringsOwn
<1>1. From(w) = q.index /\ From(u) = u.outIndex /\ ~BringsOwn(u)
  BY DEF From, BringsOwn
<1>2. q.index \in Nat /\ u.outIndex \in Int /\ u.sentIndex["video"] \in Int
  <2>1. q.index \in Nat
    BY DEF Packet
  <2>2. u.outIndex \in Index /\ u.sentIndex["video"] \in Index
    BY DEF UserRec, Media
  <2>. QED BY <2>1, <2>2 DEF Index, None
<1>3. q.index \notin headers["video"]
  BY DEF KindOK
<1>4. UpTo(q.index) \in SUBSET Nat
  BY <1>2, UpToType
<1>5. CASE UpTo(q.index) = UpTo(u.outIndex)
  <2>1. Suits(u, d) => Suits(w, d)
    BY <1>1, <1>5 DEF Suits, Ahead
  <2>2. Overlooked(u) => Overlooked(w)
    BY <1>1, <1>5 DEF Overlooked
  <2>3. Suits(u, d) \/ (d.lost /\ Overlooked(u))
    BY <1>1 DEF DecoderOK
  <2>. QED BY <2>1, <2>2, <2>3
<1>6. CASE UpTo(q.index) # UpTo(u.outIndex)
  <2>1. PICK h \in UpTo(q.index) : ~(h <= u.outIndex)
    <3>. SUFFICES ASSUME \A h \in UpTo(q.index) : h <= u.outIndex
                  PROVE  FALSE
      OBVIOUS
    <3>1. UpTo(u.outIndex) \in SUBSET Nat
      BY <1>2, UpToType
    <3>2. \A h \in UpTo(u.outIndex) : h \in Nat /\ h <= u.outIndex /\ h \in headers["video"]
      BY <3>1 DEF UpTo
    <3>3. \A h \in UpTo(u.outIndex) : h <= q.index
      BY <1>2, <3>2
    <3>4. UpTo(u.outIndex) \subseteq UpTo(q.index)
      BY <3>2, <3>3 DEF UpTo
    <3>5. UpTo(q.index) \subseteq UpTo(u.outIndex)
      BY DEF UpTo
    <3>. QED BY <1>6, <3>4, <3>5
  <2>2. h \in Nat /\ h <= q.index /\ h # q.index
    BY <1>3, <1>4, <2>1 DEF UpTo
  <2>3. lost
    BY <1>2, <2>1, <2>2
  <2>4. u.sentIndex["video"] <= 0 \/ u.sentIndex["video"] <= u.outIndex
    BY DEF DecoderOK
  <2>5. h > u.sentIndex["video"]
    BY <1>2, <2>1, <2>2, <2>4
  <2>. QED BY <1>1, <2>1, <2>3, <2>5 DEF Overlooked
<1>. QED BY <1>5, <1>6

(* The frames of a GOP: the header is looked up and sent, or it is the one *)
(* the player has.                                                         *)
LEMMA StartsWell ==
  ASSUME WindowInv, StreamInv, NEW u \in UserRec, NEW v \in UserRec, NEW w \in UserRec,
         NEW d \in DecoderRec, DecoderOK(u, d), ~d.early,
         Joins(u, v) \/ Skips(u, v), Idle(u),
         w.pending = v.pending, w.sentIndex = v.sentIndex, w.outFrames # <<>>,
         NEW q \in Packet, q = w.outFrames[1], KindOK(q),
         \/ q.index = GopByLatency
         \/ GopByLatency = 0 /\ q.index = frameIndex
  PROVE  Suits(w, d) \/ BringsOwn(w)
<1>. SUFFICES ASSUME q.kind # "videoHeader", UpTo(q.index) # {}
              PROVE  Ahead(w, d) = Largest(UpTo(q.index))
  BY DEF BringsOwn, Suits, From
<1>1. PICK n : n = Largest(UpTo(q.index))
  OBVIOUS
<1>2. HeaderFor("video", GopByLatency) = n
  <2>1. GopByLatency # None
    BY DEF Joins, Skips
  <2>. QED BY <1>1, <2>1, HeaderOfGop
<1>3. n \in UpTo(q.index) /\ n \in Nat /\ (\A h \in UpTo(q.index) : h <= n) /\ q.index \in Nat
  <2>1. q.index \in Int /\ q.index \in Nat
    BY DEF Packet
  <2>. QED BY <1>1, <2>1, UpToType
<1>4. u.outFrames = <<>> /\ u.pending["video"] = None
  BY DEF Idle, Media
<1>5. CASE v.pending["video"] = n
  BY <1>1, <1>3, <1>5 DEF Ahead, None
<1>6. CASE v.pending["video"] # n
  <2>1. ~Joins(u, v)
    <3>. SUFFICES ASSUME Joins(u, v)
                  PROVE  FALSE
      OBVIOUS
    <3>1. "video" \in has
      BY DEF UpTo, StreamInv, HeadersKnown
    <3>. QED BY <1>2, <1>6, <3>1 DEF Joins, Enqueue, UserRec, Media
  <2>2. Skips(u, v)
    BY <2>1
  <2>3. /\ u.outIndex >= 0 /\ GopByLatency > u.outIndex
        /\ v.pending["video"] = IF n > u.sentIndex["video"] THEN n ELSE u.pending["video"]
    BY <1>2, <2>2 DEF Skips, Enqueue, UserRec, Media
  <2>4. /\ ~(n > u.sentIndex["video"]) /\ v.pending["video"] = None
        /\ u.sentIndex["video"] \in Int /\ u.outIndex \in Int /\ GopByLatency \in Int
    BY <1>4, <1>6, <2>3, GopByLatencyType DEF UserRec, Index, None, Media
  <2>5. q.index = GopByLatency
    BY <2>3, <2>4
  <2>6. u.sentIndex["video"] <= 0 \/ u.sentIndex["video"] <= u.outIndex
    BY DEF DecoderOK
  <2>7. n <= u.outIndex
    BY <1>3, <2>3, <2>4, <2>6
  <2>8. UpTo(q.index) = UpTo(u.outIndex)
    <3>1. UpTo(q.index) \in SUBSET Nat /\ UpTo(u.outIndex) \in SUBSET Nat
      BY <1>3, <2>4, UpToType
    <3>2. \A h \in UpTo(q.index) : h <= u.outIndex
      BY <1>3, <2>4, <2>7, <3>1
    <3>3. \A h \in UpTo(u.outIndex) : h <= q.index
      BY <1>3, <2>3, <2>4, <2>5, <3>1 DEF UpTo
    <3>. QED BY <3>2, <3>3 DEF UpTo
  <2>9. ~Overlooked(u) /\ From(u) = u.outIndex /\ ~BringsOwn(u)
    <3>1. From(u) = u.outIndex /\ ~BringsOwn(u)
      BY <1>4 DEF From, BringsOwn
    <3>2. \A h \in UpTo(u.outIndex) : h \in Nat /\ h <= n
      BY <1>3, <2>4, <2>8, UpToType
    <3>3. \A h \in UpTo(u.outIndex) : ~(h > u.sentIndex["video"])
      BY <1>3, <2>4, <3>2
    <3>. QED BY <3>1, <3>3 DEF Overlooked
  <2>10. Suits(u, d)
    BY <2>3, <2>9 DEF DecoderOK
  <2>11. Ahead(u, d) = n
    BY <1>1, <2>8, <2>9, <2>10 DEF Suits
  <2>. QED BY <1>1, <1>4, <2>4, <2>11 DEF Ahead
<1>. QED BY <1>5, <1>6

(* What getFrames hands out, or leaves with the player, suits its decoder *)
LEMMA GetFramesDecodes ==
  ASSUME WindowInv, StreamInv, NEW u \in UserRec, NEW d \in DecoderRec,
         CursorOK(u, d.last), DecoderOK(u, d), NEW lost \in BOOLEAN,
         Idle(u) => (FellOut(u) => lost) /\ (d.lost /\ Located(u) = u => lost),
         ~Idle(u) => (d.lost => lost),
         NEW w, w = GetFrames(u)
  PROVE  /\ \A k \in DOMAIN w.outFrames : KindOK(w.outFrames[k])
         /\ w.outFrames = <<>> => d.last = w.outIndex
         /\ ~d.early /\ ~(w.outFrames # <<>> /\ GivenEarly(w)) =>
              w.sentIndex["video"] <= 0 \/ w.sentIndex["video"] <= w.outIndex
         /\ ~d.early /\ w.outIndex >= 0 =>
              Suits(w, d) \/ BringsOwn(w) \/ (lost /\ Overlooked(w))
<1>1. CASE w = u
  <2>1. u.outIndex >= 0 => (d.lost => lost)
    BY <1>1, StaysWhere
  <2>. QED BY <1>1, <2>1 DEF DecoderOK
<1>2. CASE w # u
  <2>0. Idle(u) /\ u.outFrames = <<>> /\ u.outIndex <= frameIndex /\ GetFrames(u) # u
    BY <1>2 DEF GetFrames, Idle, CursorOK
  <2>1. PICK v : v = Located(u)
    OBVIOUS
  <2>2. PICK f : f = w.outFrames
    OBVIOUS
  <2>3. /\ Continues(u, v) \/ Joins(u, v) \/ (Skips(u, v) /\ u # v)
        /\ v \in UserRec
        /\ f # <<>> /\ f \in Seq(Packet) /\ Consecutive(f)
        /\ \A k \in DOMAIN f : \E s \in 0 .. BufferSize - 1 : f[k] = ring[s]
        /\ w.outIndex = f[Len(f)].index
        /\ w.pending = v.pending /\ w.sentIndex = v.sentIndex
    BY <2>0, <2>1, <2>2, HandsOut
  <2>4. Len(f) \in Nat /\ Len(f) >= 1 /\ 1 \in 1 .. Len(f) /\ Len(f) \in 1 .. Len(f) /\ DOMAIN f = 1 .. Len(f)
    BY <2>3
  <2>5. PICK q : q = f[1]
    OBVIOUS
  <2>6. q \in Packet /\ q.index \in Nat
    <3>1. f[1] \in Packet
      BY <2>3, <2>4
    <3>. QED BY <2>5, <3>1 DEF Packet
  <2>7. \A k \in DOMAIN f : KindOK(f[k])
    <3>. SUFFICES ASSUME NEW k \in DOMAIN f
                  PROVE  KindOK(f[k])
      OBVIOUS
    <3>1. PICK s \in 0 .. BufferSize - 1 : f[k] = ring[s]
      BY <2>3
    <3>2. f[k] \in Packet
      BY <2>3
    <3>3. f[k] # NoPacket
      <4>1. f[k].index \in Nat
        BY <3>2 DEF Packet
      <4>2. NoPacket.index \notin Nat
        BY DEF NoPacket, None
      <4>. QED BY <4>1, <4>2
    <3>. QED BY <3>1, <3>3 DEF StreamInv, KindsOK
  <2>8. KindOK(q)
    BY <2>4, <2>5, <2>7
  <2>9. w.outIndex = q.index + Len(f) - 1
    BY <2>3, <2>4, <2>5 DEF Consecutive
  <2>10. w.outIndex \in Nat /\ q.index <= w.outIndex
    BY <2>4, <2>6, <2>9
  <2>11. w \in UserRec
    BY GetFramesLemma DEF DecoderRec
  <2>12. PICK h : h = GetFrames(u).outFrames[1]
    OBVIOUS
  <2>13. h = q
    BY <2>2, <2>5, <2>12
  <2>14. \/ Continues(u, v) /\ (FellOut(u) \/ q.index = u.outIndex + 1)
         \/ /\ Joins(u, v) \/ (Skips(u, v) /\ u # v)
            /\ q.index = GopByLatency \/ (GopByLatency = 0 /\ q.index = frameIndex)
    BY <2>0, <2>1, <2>12, <2>13, FirstFrame
  <2>15. u.outIndex \in Int /\ u.sentIndex["video"] \in Int
    <3>1. u.outIndex \in Index /\ u.sentIndex["video"] \in Index
      BY DEF UserRec, Media
    <3>. QED BY <3>1 DEF Index, None
  <2>16. CASE Continues(u, v) /\ (FellOut(u) \/ q.index = u.outIndex + 1)
    <3>1. v = u /\ u.outIndex >= 0
      BY <2>16 DEF Continues
    <3>2. q.index > u.outIndex
      <4>1. GetFrames(u) = GetNextFrame(u)
        BY <2>0, <2>1, <3>1 DEF GetFrames
      <4>2. NextFrames(u) # <<>>
        BY <2>0, <4>1 DEF GetNextFrame
      <4>3. w = [u EXCEPT !.outFrames = NextFrames(u), !.outIndex = NextFrames(u)[Len(NextFrames(u))].index,
                          !.outTs = NextFrames(u)[Len(NextFrames(u))].ts]
        BY <4>1, <4>2 DEF GetNextFrame
      <4>4. f = NextFrames(u)
        BY <2>2, <4>3 DEF UserRec
      <4>. QED BY <2>5, <4>2, <4>4, NextFramesLemma
    <3>3. (d.lost => lost) /\ (lost \/ q.index = u.outIndex + 1)
      BY <2>0, <2>1, <2>16, <3>1
    <3>4. ~d.early => Suits(w, d) \/ BringsOwn(w) \/ (lost /\ Overlooked(w))
      BY <2>0, <2>2, <2>3, <2>5, <2>6, <2>8, <2>11, <3>1, <3>2, <3>3, ContinuesWell
    <3>5. w.sentIndex = u.sentIndex /\ u.outIndex <= w.outIndex
      BY <2>3, <2>6, <2>10, <2>15, <3>1, <3>2
    <3>6. ~d.early => w.sentIndex["video"] <= 0 \/ w.sentIndex["video"] <= w.outIndex
      BY <2>10, <2>15, <3>5 DEF DecoderOK
    <3>. QED BY <2>2, <2>3, <2>7, <3>4, <3>6
  <2>17. CASE /\ Joins(u, v) \/ (Skips(u, v) /\ u # v)
              /\ q.index = GopByLatency \/ (GopByLatency = 0 /\ q.index = frameIndex)
    <3>1. ~d.early => Suits(w, d) \/ BringsOwn(w)
      BY <2>0, <2>2, <2>3, <2>5, <2>6, <2>8, <2>11, <2>17, StartsWell
    <3>2. \/ w.sentIndex["video"] = w.pending["video"]
          \/ w.sentIndex = u.sentIndex \/ w.sentIndex["video"] = u.sentIndex["video"]
      <4>1. PICK send : v = Enqueue(u, send)
        BY <2>17 DEF Joins, Skips
      <4>2. \/ v.sentIndex["video"] = v.pending["video"]
            \/ v.sentIndex["video"] = u.sentIndex["video"]
        BY <4>1 DEF Enqueue, UserRec, Media
      <4>. QED BY <2>3, <4>2
    <3>3. u.outIndex <= w.outIndex
      <4>1. GopByLatency \in Int /\ frameIndex \in Int
        BY GopByLatencyType DEF WindowInv, TypeOK, Index, None
      <4>2. u.outIndex < 0 \/ u.outIndex < GopByLatency
        BY <2>17, <2>15, <4>1 DEF Joins, Skips
      <4>. QED BY <2>0, <2>6, <2>10, <2>15, <2>17, <4>1, <4>2
    <3>4. ~(w.outFrames # <<>> /\ GivenEarly(w)) => ~(w.pending["video"] > q.index)
      BY <2>2, <2>3, <2>5 DEF GivenEarly, Media
    <3>5. w.pending["video"] \in Int
      <4>1. w.pending["video"] \in Index
        BY <2>11 DEF UserRec, Media
      <4>. QED BY <4>1 DEF Index, None
    <3>6. ~(w.pending["video"] > q.index) => w.pending["video"] <= w.outIndex
      BY <2>6, <2>10, <3>5
    <3>7. ~d.early => u.sentIndex["video"] <= 0 \/ u.sentIndex["video"] <= w.outIndex
      BY <2>10, <2>15, <3>3 DEF DecoderOK
    <3>8. ~d.early /\ ~(w.outFrames # <<>> /\ GivenEarly(w)) =>
              w.sentIndex["video"] <= 0 \/ w.sentIndex["video"] <= w.outIndex
      BY <3>2, <3>4, <3>6, <3>7
    <3>. QED BY <2>2, <2>3, <2>7, <3>1, <3>8
  <2>. QED BY <2>14, <2>16, <2>17
<1>. QED BY <1>1, <1>2

(* The header packets of a batch are the headers of that time *)
LEMMA InBand ==
  ASSUME WindowInv, NEW f \in Seq(Packet), Consecutive(f), \A k \in DOMAIN f : KindOK(f[k]),
         NEW n \in 1 .. Len(f), NEW g \in Seq(Packet), Len(g) = n, \A k \in 1 .. n : g[k] = f[k]
  PROVE  HeadersIn(g, "video") = {h \in headers["video"] : f[1].index <= h /\ h <= f[n].index}
<1>1. Len(f) \in Nat /\ DOMAIN f = 1 .. Len(f) /\ DOMAIN g = 1 .. n /\ n \in Nat /\ n <= Len(f) /\ 1 \in 1 .. Len(f)
  OBVIOUS
<1>2. \A k \in 1 .. n : g[k] = f[k] /\ f[k] \in Packet /\ KindOK(f[k]) /\ f[k].index = f[1].index + k - 1
  BY <1>1 DEF Consecutive
<1>3. f[1] \in Packet
  BY <1>1
<1>4. f[1].index \in Nat
  BY <1>3 DEF Packet
<1>5. \A k \in 1 .. n : "video" \in HeaderMedia(g[k].kind) <=> f[k].kind = "videoHeader"
  BY <1>2 DEF HeaderMedia
<1>6. \A k \in 1 .. n : f[k].kind = "videoHeader" <=> f[k].index \in headers["video"]
  BY <1>2 DEF KindOK
<1>7. ASSUME NEW h \in HeadersIn(g, "video")
      PROVE  h \in headers["video"] /\ f[1].index <= h /\ h <= f[n].index
  <2>1. PICK k \in 1 .. n : "video" \in HeaderMedia(g[k].kind) /\ h = g[k].index
    BY <1>1 DEF HeadersIn
  <2>2. h = f[k].index /\ h \in headers["video"]
    BY <1>2, <1>5, <1>6, <2>1
  <2>3. h = f[1].index + k - 1 /\ f[n].index = f[1].index + n - 1
    BY <1>1, <1>2, <2>2
  <2>. QED BY <1>1, <1>4, <2>2, <2>3
<1>8. ASSUME NEW h \in headers["video"], f[1].index <= h, h <= f[n].index
      PROVE  h \in HeadersIn(g, "video")
  <2>1. h \in Nat
    BY DEF WindowInv, TypeOK, Media
  <2>2. f[n].index = f[1].index + n - 1
    BY <1>1, <1>2
  <2>3. PICK k \in 1 .. n : h = f[1].index + k - 1
    <3>1. h - f[1].index + 1 \in 1 .. n /\ h = f[1].index + (h - f[1].index + 1) - 1
      BY <1>1, <1>4, <1>8, <2>1, <2>2
    <3>. QED BY <3>1
  <2>4. f[k].index = h
    BY <1>2, <2>3
  <2>5. "video" \in HeaderMedia(g[k].kind) /\ g[k].index = h
    BY <1>2, <1>5, <1>6, <2>4
  <2>. QED BY <1>1, <2>5 DEF HeadersIn
<1>. QED BY <1>7, <1>8

(* What a player decodes the n-th frame of its batch with: the last header *)
(* in the batch, or else the one it has before the batch.                  *)
LEMMA BatchDecodes ==
  ASSUME WindowInv, NEW f \in Seq(Packet), Consecutive(f), \A k \in DOMAIN f : KindOK(f[k]),
         NEW n \in 1 .. Len(f), NEW g \in Seq(Packet), Len(g) = n, \A k \in 1 .. n : g[k] = f[k],
         NEW S, S = HeadersIn(g, "video")
  PROVE  /\ S # {} => Largest(S) = Largest(UpTo(f[n].index))
         /\ S = {} => UpTo(f[n].index) = UpTo(f[1].index) /\ f[1].kind # "videoHeader"
<1>1. S = {h \in headers["video"] : f[1].index <= h /\ h <= f[n].index}
  BY InBand
<1>2. Len(f) \in Nat /\ DOMAIN f = 1 .. Len(f) /\ n \in Nat /\ n <= Len(f) /\ 1 \in 1 .. Len(f)
  OBVIOUS
<1>3. f[1] \in Packet /\ f[n] \in Packet /\ f[n].index = f[1].index + n - 1 /\ KindOK(f[1])
  BY <1>2 DEF Consecutive
<1>4. f[1].index \in Nat /\ f[n].index \in Nat
  BY <1>3 DEF Packet
<1>5. f[1].index <= f[n].index
  BY <1>2, <1>3, <1>4
<1>6. headers["video"] \in SUBSET Nat
  BY DEF WindowInv, TypeOK, Media
<1>7. CASE S # {}
  <2>1. PICK x \in S : TRUE
    BY <1>7
  <2>2. x \in UpTo(f[n].index) /\ f[1].index <= x /\ x \in Nat
    BY <1>1, <1>6, <2>1 DEF UpTo
  <2>3. PICK m : m = Largest(UpTo(f[n].index))
    OBVIOUS
  <2>4. m \in UpTo(f[n].index) /\ \A h \in UpTo(f[n].index) : h <= m
    BY <1>4, <2>2, <2>3, UpToType
  <2>5. m \in headers["video"] /\ m \in Nat /\ m <= f[n].index /\ x <= m
    BY <1>6, <2>2, <2>4 DEF UpTo
  <2>6. m \in S
    BY <1>1, <1>4, <2>2, <2>5
  <2>7. \A h \in S : h <= m
    BY <1>1, <2>4 DEF UpTo
  <2>8. S \in SUBSET Int
    BY <1>1, <1>6
  <2>9. Largest(S) = m
    BY <2>6, <2>7, <2>8, LargestIs
  <2>. QED BY <1>7, <2>3, <2>9
<1>8. CASE S = {}
  <2>1. \A h \in headers["video"] : h <= f[n].index => h <= f[1].index
    BY <1>1, <1>4, <1>6, <1>8
  <2>2. \A h \in headers["video"] : h <= f[1].index => h <= f[n].index
    BY <1>4, <1>5, <1>6
  <2>3. UpTo(f[n].index) = UpTo(f[1].index)
    BY <2>1, <2>2 DEF UpTo
  <2>4. f[1].index \notin headers["video"]
    <3>1. f[1].index <= f[1].index
      BY <1>4
    <3>. QED BY <1>1, <1>5, <1>8, <3>1
  <2>. QED BY <1>3, <1>8, <2>3, <2>4 DEF KindOK
<1>. QED BY <1>7, <1>8

LEMMA Headless ==
  ASSUME NEW u
  PROVE  /\ NextHeader(u) \in {{"meta"}, {"audio"}, {"video"}, {}}
         /\ "video" \in NextHeader(u) => u.pending["video"] # None
         /\ NextHeader(u) = {} => u.pending["video"] = None
BY DEF NextHeader

(* postFrames sends a header, or the frames *)
LEMMA PushDecodes ==
  ASSUME WindowInv, NEW u \in UserRec, NEW d \in DecoderRec, CursorOK(u, d.last), DecoderOK(u, d),
         NEW w, w = Push(u), NEW e \in DecoderRec, e.cfg = Configured(d.cfg, u), e.last = LastSent(d.last, u),
         e.lost = d.lost, e.early = d.early
  PROVE  DecoderOK(w, e)
<1>0. d.cfg \in [Media -> Index] /\ "video" \in Media
  BY DEF DecoderRec, Media
<1>1. CASE NextHeader(u) # {}
  <2>1. /\ w.outFrames = u.outFrames /\ w.outIndex = u.outIndex /\ w.sentIndex = u.sentIndex
        /\ w.pending["video"] = IF "video" \in NextHeader(u) THEN None ELSE u.pending["video"]
    BY <1>0, <1>1 DEF Push, UserRec
  <2>2. e.cfg["video"] = IF "video" \in NextHeader(u) THEN u.pending["video"] ELSE d.cfg["video"]
    BY <1>0, <1>1 DEF Configured
  <2>3. e.last = d.last
    BY <1>1 DEF LastSent
  <2>4. Ahead(w, e) = Ahead(u, d)
    BY <2>1, <2>2, Headless DEF Ahead
  <2>5. From(w) = From(u)
    BY <2>1 DEF From
  <2>. QED BY <2>1, <2>3, <2>4, <2>5 DEF DecoderOK, Suits, BringsOwn, Overlooked
<1>2. CASE NextHeader(u) = {}
  <2>1. w.outFrames = <<>> /\ w.outIndex = u.outIndex /\ w.sentIndex = u.sentIndex /\ w.pending = u.pending
    BY <1>2 DEF Push, UserRec
  <2>2. u.pending["video"] = None
    BY <1>2, Headless
  <2>3. PICK f : f = u.outFrames
    OBVIOUS
  <2>4. PICK S : S = HeadersIn(f, "video")
    OBVIOUS
  <2>5. e.cfg["video"] = IF S # {} THEN Largest(S) ELSE d.cfg["video"]
    BY <1>0, <1>2, <2>3, <2>4 DEF Configured
  <2>6. From(w) = u.outIndex /\ Ahead(w, e) = e.cfg["video"] /\ Ahead(u, d) = d.cfg["video"]
    BY <2>1, <2>2 DEF From, Ahead
  <2>7. CASE f = <<>>
    <3>1. S = {}
      BY <2>4, <2>7 DEF HeadersIn
    <3>2. e.last = d.last /\ From(u) = u.outIndex /\ d.last = u.outIndex
      BY <1>2, <2>3, <2>7 DEF LastSent, From, DecoderOK
    <3>3. Suits(u, d) => Suits(w, e)
      BY <2>5, <2>6, <3>1, <3>2 DEF Suits
    <3>4. Overlooked(u) => Overlooked(w)
      BY <2>1, <2>6, <3>2 DEF Overlooked
    <3>. QED BY <2>1, <2>3, <2>7, <3>2, <3>3, <3>4 DEF DecoderOK, BringsOwn
  <2>8. CASE f # <<>>
    <3>1. f \in Seq(Packet) /\ Consecutive(f) /\ \A k \in DOMAIN f : KindOK(f[k])
      BY <2>3 DEF UserRec, CursorOK, DecoderOK
    <3>2. PICK n : n = Len(f)
      OBVIOUS
    <3>3. n \in 1 .. Len(f)
      BY <2>8, <3>1, <3>2
    <3>4. e.last = f[n].index /\ u.outIndex = f[n].index
      BY <1>2, <2>3, <2>8, <3>2 DEF LastSent, CursorOK
    <3>5. \A k \in 1 .. n : f[k] = f[k]
      OBVIOUS
    <3>6. /\ S # {} => Largest(S) = Largest(UpTo(f[n].index))
          /\ S = {} => UpTo(f[n].index) = UpTo(f[1].index) /\ f[1].kind # "videoHeader"
      BY <2>4, <3>1, <3>2, <3>3, <3>5, BatchDecodes
    <3>7. From(u) = f[1].index /\ From(w) = f[n].index
      BY <2>3, <2>6, <2>8, <3>4 DEF From
    <3>8. CASE S # {}
      <4>1. Suits(w, e)
        BY <2>5, <2>6, <3>6, <3>7, <3>8 DEF Suits
      <4>. QED BY <2>1, <3>4, <4>1 DEF DecoderOK
    <3>9. CASE S = {}
      <4>1. Suits(u, d) => Suits(w, e)
        BY <2>5, <2>6, <3>6, <3>7, <3>9 DEF Suits
      <4>2. Overlooked(u) => Overlooked(w)
        BY <2>1, <3>6, <3>7, <3>9 DEF Overlooked
      <4>3. ~BringsOwn(u)
        BY <2>3, <3>6, <3>9 DEF BringsOwn
      <4>. QED BY <2>1, <3>4, <4>1, <4>2, <4>3 DEF DecoderOK
    <3>. QED BY <3>8, <3>9
  <2>. QED BY <2>7, <2>8
<1>. QED BY <1>1, <1>2

LEMMA PostFramesPlayers ==
  ASSUME IInv, StreamInv, PlayersInv, NEW p \in Players, NEW canSend \in BOOLEAN, PostFrames(p, canSend)
  PROVE  StreamInv' /\ PlayersInv'
<1>1. UNCHANGED stream
  BY DEF PostFrames
<1>2. StreamInv'
  BY <1>1 DEF stream, StreamInv, GopsAreKeys, NewestOK, KindsOK, KindOK, HeadersKnown
<1>3. ASSUME NEW u, NEW d, DecoderOK(u, d) PROVE DecoderOK(u, d)'
  BY <1>1, <1>3 DEF stream, DecoderOK, KindOK, Suits, BringsOwn, Overlooked, UpTo, From, Ahead
<1>4. PICK u, d : u = user[p] /\ d = decoder[p]
  OBVIOUS
<1>5. u \in UserRec /\ d \in DecoderRec /\ CursorOK(u, d.last) /\ DecoderOK(u, d) /\ WindowInv
  BY <1>4 DEF IInv, WindowInv, TypeOK, UserRec, DecoderRec, PlayersInv
<1>6. PICK w : w = GetFrames(u)
  OBVIOUS
<1>7. PICK lost : lost = IF ~Idle(u) THEN d.lost ELSE FellOut(u) \/ (d.lost /\ Located(u) = u)
  OBVIOUS
<1>8. PICK early : early = (d.early \/ (w.outFrames # <<>> /\ GivenEarly(w)))
  OBVIOUS
<1>9. lost \in BOOLEAN /\ early \in BOOLEAN
  BY <1>5, <1>7, <1>8 DEF DecoderRec
<1>10. w \in UserRec /\ CursorOK(w, d.last)
  BY <1>5, <1>6, GetFramesLemma DEF DecoderRec
<1>11. PICK e : e = [d EXCEPT !.lost = lost, !.early = early]
  OBVIOUS
<1>12. e \in DecoderRec /\ e.cfg = d.cfg /\ e.last = d.last /\ e.lost = lost /\ e.early = early
  BY <1>5, <1>9, <1>11 DEF DecoderRec
<1>13. DecoderOK(w, e)
  <2>1. /\ \A k \in DOMAIN w.outFrames : KindOK(w.outFrames[k])
        /\ w.outFrames = <<>> => d.last = w.outIndex
        /\ ~d.early /\ ~(w.outFrames # <<>> /\ GivenEarly(w)) =>
              w.sentIndex["video"] <= 0 \/ w.sentIndex["video"] <= w.outIndex
        /\ ~d.early /\ w.outIndex >= 0 =>
              Suits(w, d) \/ BringsOwn(w) \/ (lost /\ Overlooked(w))
    <3>1. /\ Idle(u) => (FellOut(u) => lost) /\ (d.lost /\ Located(u) = u => lost)
          /\ ~Idle(u) => (d.lost => lost)
      BY <1>7
    <3>. QED BY <1>5, <1>6, <1>9, <3>1, GetFramesDecodes
  <2>2. Suits(w, d) <=> Suits(w, e)
    BY <1>12 DEF Suits, Ahead
  <2>. QED BY <1>8, <1>12, <2>1, <2>2 DEF DecoderOK
<1>14. /\ user' = [user EXCEPT ![p] = IF canSend THEN Push(w) ELSE w]
       /\ decoder' = [decoder EXCEPT ![p] =
            [cfg |-> IF canSend THEN Configured(d.cfg, w) ELSE d.cfg,
             last |-> IF canSend THEN LastSent(d.last, w) ELSE d.last, lost |-> lost, early |-> early]]
  <2>1. p \in DOMAIN decoder
    BY DEF IInv, WindowInv, TypeOK
  <2>. QED BY <1>4, <1>6, <1>7, <1>8, <2>1 DEF PostFrames
<1>15. DecoderOK(user'[p], decoder'[p])
  <2>0. p \in DOMAIN decoder /\ p \in DOMAIN user
    BY DEF IInv, WindowInv, TypeOK
  <2>1. CASE canSend
    <3>1. PICK z : z = [cfg |-> Configured(d.cfg, w), last |-> LastSent(d.last, w),
                        lost |-> lost, early |-> early]
      OBVIOUS
    <3>2. user'[p] = Push(w) /\ decoder'[p] = z
      BY <1>14, <2>0, <2>1, <3>1
    <3>3. z.cfg = Configured(e.cfg, w) /\ z.last = LastSent(e.last, w) /\ z.lost = e.lost /\ z.early = e.early
      BY <1>12, <3>1
    <3>4. CursorOK(w, e.last) /\ e.last \in Index /\ e.cfg \in [Media -> Index] /\ frameIndex \in Index
      BY <1>5, <1>10, <1>12 DEF DecoderRec, WindowInv, TypeOK
    <3>5. Configured(e.cfg, w) \in [Media -> Index]
      BY <1>10, <3>4, ConfiguredLemma
    <3>6. LastSent(e.last, w) \in Index
      BY <1>10, <3>4, PushLemma
    <3>7. z \in DecoderRec
      BY <1>9, <1>12, <3>1, <3>5, <3>6 DEF DecoderRec
    <3>. QED BY <1>5, <1>10, <1>12, <1>13, <3>2, <3>3, <3>4, <3>7, PushDecodes
  <2>2. CASE ~canSend
    <3>1. user'[p] = w
      BY <1>14, <2>0, <2>2
    <3>2. decoder'[p] = [cfg |-> d.cfg, last |-> d.last, lost |-> lost, early |-> early]
      BY <1>14, <2>0, <2>2
    <3>3. e = [cfg |-> e.cfg, last |-> e.last, lost |-> e.lost, early |-> e.early]
      BY <1>12 DEF DecoderRec
    <3>4. decoder'[p] = e
      BY <1>12, <3>2, <3>3
    <3>. QED BY <1>13, <3>1, <3>4
  <2>. QED BY <2>1, <2>2
<1>16. ASSUME NEW x \in Players PROVE DecoderOK(user'[x], decoder'[x])
  <2>1. CASE x = p
    BY <1>15, <2>1
  <2>2. CASE x # p
    <3>1. user'[x] = user[x] /\ decoder'[x] = decoder[x]
      BY <1>14, <2>2 DEF IInv, WindowInv, TypeOK
    <3>. QED BY <3>1 DEF PlayersInv
  <2>. QED BY <2>1, <2>2
<1>17. ASSUME NEW x \in Players PROVE DecoderOK(user[x], decoder[x])'
  <2>1. PICK y, z : y = user'[x] /\ z = decoder'[x]
    OBVIOUS
  <2>2. DecoderOK(y, z)
    BY <1>16, <2>1
  <2>3. DecoderOK(y, z)'
    BY <1>3, <2>2
  <2>. QED BY <2>1, <2>3
<1>. QED BY <1>2, <1>17 DEF PlayersInv

LEMMA NextPlayers == IInv /\ IInv' /\ StreamInv /\ PlayersInv /\ [Next]_vars => StreamInv' /\ PlayersInv'
<1> SUFFICES ASSUME IInv, IInv', StreamInv, PlayersInv, [Next]_vars
             PROVE  StreamInv' /\ PlayersInv'
  OBVIOUS
<1>1. ASSUME NEW kind \in Kinds, NEW d \in Deltas, AddPacket(kind, d) PROVE StreamInv' /\ PlayersInv'
  BY <1>1, AddPacketStream, AddPacketPlayers
<1>2. ASSUME NEW p \in Players, NEW canSend \in BOOLEAN, PostFrames(p, canSend)
      PROVE  StreamInv' /\ PlayersInv'
  BY <1>2, PostFramesPlayers
<1>3. CASE UNCHANGED vars
  <2>1. UNCHANGED stream /\ user' = user /\ decoder' = decoder
    BY <1>3 DEF vars
  <2>2. StreamInv'
    BY <2>1 DEF stream, StreamInv, GopsAreKeys, NewestOK, KindsOK, KindOK, HeadersKnown
  <2>3. ASSUME NEW u, NEW d, DecoderOK(u, d) PROVE DecoderOK(u, d)'
    BY <2>1, <2>3 DEF stream, DecoderOK, KindOK, Suits, BringsOwn, Overlooked, UpTo, From, Ahead
  <2>4. ASSUME NEW x \in Players PROVE DecoderOK(user[x], decoder[x])'
    <3>1. PICK y, z : y = user[x] /\ z = decoder[x]
      OBVIOUS
    <3>2. DecoderOK(y, z)
      BY <3>1 DEF PlayersInv
    <3>3. DecoderOK(y, z)'
      BY <2>3, <3>2
    <3>4. y = user'[x] /\ z = decoder'[x]
      BY <2>1, <3>1
    <3>. QED BY <3>3, <3>4
  <2>. QED BY <2>2, <2>4 DEF PlayersInv
<1> QED
  BY <1>1, <1>2, <1>3 DEF Next

LEMMA SpecPlayers == Spec => [](IInv /\ StreamInv /\ PlayersInv)
  BY InitInv, InitStream, NextInv, NextPlayers, PTL DEF Spec

LEMMA DecodedFromInv ==
  ASSUME IInv, StreamInv, PlayersInv
  PROVE  DecodedWithItsHeader
<1>. SUFFICES ASSUME NEW p \in Players, ~(decoder[p].lost \/ FellOut(user[p]) \/ decoder[p].early),
                     NEW k \in DOMAIN Held(p).outFrames,
                     UpTo(Held(p).outFrames[k].index) # {}
              PROVE  ConfigAt(p, k) = Largest(UpTo(Held(p).outFrames[k].index))
  BY DEF DecodedWithItsHeader, UpTo
<1>1. PICK u, d : u = user[p] /\ d = decoder[p]
  OBVIOUS
<1>2. /\ u \in UserRec /\ d \in DecoderRec /\ CursorOK(u, d.last) /\ DecoderOK(u, d) /\ WindowInv
      /\ ~d.lost /\ ~FellOut(u) /\ ~d.early
  BY <1>1 DEF IInv, WindowInv, TypeOK, UserRec, DecoderRec, PlayersInv
<1>3. PICK w : w = Held(p)
  OBVIOUS
<1>4. CursorOK(w, d.last) /\ w \in UserRec
  BY <1>1, <1>2, <1>3, GetFramesLemma DEF Held, DecoderRec
<1>5. /\ \A j \in DOMAIN w.outFrames : KindOK(w.outFrames[j])
      /\ w.outIndex >= 0 => Suits(w, d) \/ BringsOwn(w)
  <2>1. CASE w = u
    BY <1>2, <2>1 DEF DecoderOK
  <2>2. CASE w # u
    <3>1. w = GetFrames(u)
      BY <1>1, <1>3, <2>2 DEF Held
    <3>2. PICK lost \in BOOLEAN : lost = FALSE
      OBVIOUS
    <3>3. /\ Idle(u) => (FellOut(u) => lost) /\ (d.lost /\ Located(u) = u => lost)
          /\ ~Idle(u) => (d.lost => lost)
      BY <1>2
    <3>4. StreamInv
      OBVIOUS
    <3>. QED BY <1>2, <3>1, <3>2, <3>3, <3>4, GetFramesDecodes
  <2>. QED BY <2>1, <2>2
<1>6. PICK f : f = w.outFrames
  OBVIOUS
<1>7. f \in Seq(Packet) /\ Consecutive(f) /\ k \in 1 .. Len(f) /\ f # <<>>
  BY <1>3, <1>4, <1>6 DEF UserRec, CursorOK
<1>8. w.outIndex >= 0
  <2>1. f[Len(f)] \in Packet /\ w.outIndex = f[Len(f)].index
    BY <1>4, <1>6, <1>7 DEF CursorOK
  <2>. QED BY <2>1 DEF Packet
<1>9. PICK g : g = SubSeq(f, 1, k)
  OBVIOUS
<1>10. g \in Seq(Packet) /\ Len(g) = k /\ \A j \in 1 .. k : g[j] = f[j]
  BY <1>7, <1>9
<1>11. PICK S : S = HeadersIn(g, "video")
  OBVIOUS
<1>12. /\ S # {} => Largest(S) = Largest(UpTo(f[k].index))
       /\ S = {} => UpTo(f[k].index) = UpTo(f[1].index) /\ f[1].kind # "videoHeader"
  BY <1>2, <1>5, <1>6, <1>7, <1>10, <1>11, BatchDecodes
<1>13. ConfigAt(p, k) = IF S # {} THEN Largest(S) ELSE Ahead(w, d)
  <2>1. CASE S # {}
    BY <1>3, <1>6, <1>9, <1>11, <2>1 DEF ConfigAt
  <2>2. CASE S = {} /\ w.pending["video"] # None
    BY <1>3, <1>6, <1>9, <1>11, <2>2 DEF ConfigAt, Ahead
  <2>3. CASE S = {} /\ w.pending["video"] = None
    BY <1>1, <1>3, <1>6, <1>9, <1>11, <2>3 DEF ConfigAt, Ahead
  <2>. QED BY <2>1, <2>2, <2>3
<1>14. CASE S = {}
  <2>1. Suits(w, d)
    BY <1>5, <1>6, <1>8, <1>12, <1>14 DEF BringsOwn
  <2>2. Ahead(w, d) = Largest(UpTo(f[1].index))
    BY <1>3, <1>6, <1>7, <1>12, <1>14, <2>1 DEF Suits, From
  <2>. QED BY <1>3, <1>6, <1>12, <1>13, <1>14, <2>2
<1>15. CASE S # {}
  BY <1>3, <1>6, <1>12, <1>13, <1>15
<1>. QED BY <1>14, <1>15

(* locateGop and skipFrame put a player on a key frame, and getNextFrame   *)
(* goes on where it stopped, for every size of ring and batch.             *)
THEOREM GapTheorem == Spec => []GapLandsOnKeyFrame
  BY SpecPlayers, GapFromInv, PTL

(* getGopByLatency: who joins or skips starts within the latency, for      *)
(* every latency and every size of the ring.                               *)
THEOREM LatencyTheorem == Spec => []JoinsWithinLatency
  BY SpecPlayers, LatencyFromInv, PTL

(* The comparisons with *_header_index_ in skipFrame: whoever has not lost *)
(* track decodes every frame with the header of its time, although headers *)
(* in the packets that are skipped are only sent when they are newer.      *)
THEOREM HeaderTheorem == Spec => []DecodedWithItsHeader
  BY SpecPlayers, DecodedFromInv, PTL
=============================================================================
