--------------------------- MODULE RtmpChunkProof ---------------------------
(***************************************************************************)
(* Proofs about RtmpChunk, for any chunk stream ids, messages, timestamps, *)
(* sizes of chunks and every way to cut and mix the chunk streams: the     *)
(* reader never takes payload for a header or a header for payload, and    *)
(* messages arrive whole, in order and with their headers.                 *)
(*                                                                         *)
(* What is between the writer and the reader is looked at as a sequence of *)
(* whole chunks (Consists), each the next of its chunk stream (Stream,     *)
(* Ghosts).  The reader stands at the first of them, has perhaps begun it, *)
(* and what it remembers of the id is what it needs to read that chunk     *)
(* (StandsAt).                                                             *)
(***************************************************************************)
EXTENDS RtmpChunk, NumberFacts, SequenceTheorems, TLAPS

(* \o, opaque *)
Glue(s, t) == s \o t
(* what is left of s when n elements are taken from it *)
Beyond(s, n) == SubSeq(s, n + 1, Len(s))

LEMMA GlueFacts ==
  ASSUME NEW T, NEW s \in Seq(T), NEW t \in Seq(T)
  PROVE  /\ Glue(s, t) \in Seq(T) /\ Len(Glue(s, t)) = Len(s) + Len(t) /\ Len(s) \in Nat /\ Len(t) \in Nat
         /\ \A i \in 1 .. Len(s) : Glue(s, t)[i] = s[i]
         /\ \A i \in Len(s) + 1 .. Len(s) + Len(t) : Glue(s, t)[i] = t[i - Len(s)]
         /\ \A i \in 1 .. Len(Glue(s, t)) :
              \/ i \in 1 .. Len(s) /\ Glue(s, t)[i] = s[i]
              \/ i - Len(s) \in 1 .. Len(t) /\ Glue(s, t)[i] = t[i - Len(s)]
BY ConcatProperties, LenProperties DEF Glue

LEMMA GlueHalves ==
  ASSUME NEW T, NEW s \in Seq(T), NEW t \in Seq(T)
  PROVE  /\ Glue(s, t) \in Seq(T) /\ Len(Glue(s, t)) = Len(s) + Len(t)
         /\ \A i \in 1 .. Len(Glue(s, t)) :
              \/ i \in 1 .. Len(s) /\ Glue(s, t)[i] = s[i]
              \/ i - Len(s) \in 1 .. Len(t) /\ Glue(s, t)[i] = t[i - Len(s)]
BY GlueFacts, Zenon

LEMMA GlueParts ==
  ASSUME NEW T, NEW s \in Seq(T), NEW t \in Seq(T)
  PROVE  /\ Glue(s, t) \in Seq(T) /\ Len(Glue(s, t)) = Len(s) + Len(t) /\ Len(s) \in Nat /\ Len(t) \in Nat
         /\ \A i \in 1 .. Len(s) : Glue(s, t)[i] = s[i]
         /\ \A i \in Len(s) + 1 .. Len(s) + Len(t) : Glue(s, t)[i] = t[i - Len(s)]
BY GlueFacts, Zenon

LEMMA GlueTwice ==
  ASSUME NEW T, NEW s \in Seq(T), NEW t \in Seq(T), NEW r \in Seq(T)
  PROVE  Glue(Glue(s, t), r) = Glue(s, Glue(t, r))
BY ConcatAssociative DEF Glue

LEMMA BeyondFacts ==
  ASSUME NEW T, NEW s \in Seq(T), NEW n \in Nat, n <= Len(s)
  PROVE  /\ Beyond(s, n) \in Seq(T) /\ Len(Beyond(s, n)) = Len(s) - n /\ Len(s) \in Nat
         /\ \A i \in 1 .. Len(s) - n : Beyond(s, n)[i] = s[n + i]
<1>1. Len(s) \in Nat /\ \A i \in n + 1 .. Len(s) : s[i] \in T
  BY LenProperties, ElementOfSeq
<1>2. SubSeq(s, n + 1, Len(s)) \in Seq(T)
  BY <1>1, SubSeqProperties
<1>3. Len(SubSeq(s, n + 1, Len(s))) = IF n + 1 <= Len(s) THEN Len(s) - (n + 1) + 1 ELSE 0
  BY <1>1, SubSeqProperties
<1>4. \A i \in 1 .. Len(s) - (n + 1) + 1 : SubSeq(s, n + 1, Len(s))[i] = s[(n + 1) + i - 1]
  BY <1>1, SubSeqProperties
<1>5. \A i \in 1 .. Len(s) - n : (n + 1) + i - 1 = n + i /\ i \in 1 .. Len(s) - (n + 1) + 1
  BY <1>1
<1>. QED BY <1>1, <1>2, <1>3, <1>4, <1>5 DEF Beyond

LEMMA FirstFacts ==
  ASSUME NEW T, NEW s \in Seq(T), NEW n \in Nat, n <= Len(s)
  PROVE  /\ SubSeq(s, 1, n) \in Seq(T) /\ Len(SubSeq(s, 1, n)) = n
         /\ \A i \in 1 .. n : SubSeq(s, 1, n)[i] = s[i]
<1>1. Len(s) \in Nat /\ \A i \in 1 .. n : s[i] \in T
  BY LenProperties, ElementOfSeq
<1>2. SubSeq(s, 1, n) \in Seq(T)
  BY <1>1, SubSeqProperties
<1>3. Len(SubSeq(s, 1, n)) = IF 1 <= n THEN n - 1 + 1 ELSE 0
  BY <1>1, SubSeqProperties
<1>4. \A i \in 1 .. n - 1 + 1 : SubSeq(s, 1, n)[i] = s[1 + i - 1]
  BY <1>1, SubSeqProperties
<1>5. \A i \in 1 .. n : 1 + i - 1 = i /\ i \in 1 .. n - 1 + 1
  OBVIOUS
<1>. QED BY <1>2, <1>3, <1>4, <1>5

LEMMA MoreFacts ==
  ASSUME NEW T, NEW s \in Seq(T), NEW e \in T
  PROVE  /\ Append(s, e) \in Seq(T) /\ Len(Append(s, e)) = Len(s) + 1 /\ Len(s) \in Nat
         /\ \A i \in 1 .. Len(s) : Append(s, e)[i] = s[i]
         /\ Append(s, e)[Len(s) + 1] = e
BY AppendProperties, LenProperties

LEMMA RestFacts ==
  ASSUME NEW T, NEW s \in Seq(T), s # <<>>
  PROVE  /\ Tail(s) \in Seq(T) /\ Len(Tail(s)) = Len(s) - 1 /\ Len(s) \in Nat /\ Len(s) >= 1
         /\ Head(s) = s[1] /\ Head(s) \in T
         /\ \A i \in 1 .. Len(Tail(s)) : Tail(s)[i] = s[i + 1]
BY HeadTailProperties, EmptySeq, LenProperties

LEMMA NoneFacts ==
  ASSUME NEW T, NEW s \in Seq(T)
  PROVE  <<>> \in Seq(T) /\ Len(s) \in Nat /\ (s = <<>> <=> Len(s) = 0) /\ \A i \in 1 .. Len(s) : s[i] \in T
BY EmptySeq, LenProperties, ElementOfSeq

(* A segment moves from the wire to the buffer *)
LEMMA Moved ==
  ASSUME NEW T, NEW s \in Seq(T), NEW t \in Seq(T), NEW n \in Nat, n <= Len(t)
  PROVE  Glue(Glue(s, SubSeq(t, 1, n)), Beyond(t, n)) = Glue(s, t)
<1>1. PICK a, b : a = SubSeq(t, 1, n) /\ b = Beyond(t, n)
  OBVIOUS
<1>2. a \in Seq(T) /\ Len(a) = n /\ (\A i \in 1 .. n : a[i] = t[i])
  BY <1>1, FirstFacts
<1>3. b \in Seq(T) /\ Len(b) = Len(t) - n /\ (\A i \in 1 .. Len(t) - n : b[i] = t[n + i]) /\ Len(t) \in Nat
  BY <1>1, BeyondFacts
<1>4. /\ Glue(a, b) \in Seq(T) /\ Len(Glue(a, b)) = n + Len(b)
      /\ \A i \in 1 .. Len(Glue(a, b)) :
           \/ i \in 1 .. n /\ Glue(a, b)[i] = a[i]
           \/ i - n \in 1 .. Len(b) /\ Glue(a, b)[i] = b[i - n]
  <2>1. /\ Glue(a, b) \in Seq(T) /\ Len(Glue(a, b)) = Len(a) + Len(b)
        /\ \A i \in 1 .. Len(Glue(a, b)) :
             \/ i \in 1 .. Len(a) /\ Glue(a, b)[i] = a[i]
             \/ i - Len(a) \in 1 .. Len(b) /\ Glue(a, b)[i] = b[i - Len(a)]
    <3>1. a \in Seq(T) /\ b \in Seq(T)
      BY <1>2, <1>3
    <3>. QED BY <3>1, GlueHalves
  <2>. QED BY <1>2, <2>1
<1>5. Glue(a, b) = t
  <2>1. Len(Glue(a, b)) = Len(t)
    BY <1>3, <1>4
  <2>2. ASSUME NEW i \in 1 .. Len(t) PROVE Glue(a, b)[i] = t[i]
    <3>1. i \in 1 .. Len(Glue(a, b)) /\ i = n + (i - n)
      BY <1>3, <2>1
    <3>. QED BY <1>2, <1>3, <1>4, <3>1
  <2>. QED BY <1>4, <2>1, <2>2, SeqEqual
<1>6. Glue(Glue(s, a), b) = Glue(s, Glue(a, b))
  BY <1>2, <1>3, GlueTwice
<1>. QED BY <1>1, <1>5, <1>6

(* What is taken from the buffer is taken from the stream *)
LEMMA TakenOff ==
  ASSUME NEW T, NEW s \in Seq(T), NEW t \in Seq(T), NEW n \in Nat, n <= Len(s)
  PROVE  Glue(Beyond(s, n), t) = Beyond(Glue(s, t), n)
<1>1. PICK a, b : a = Glue(s, t) /\ b = Beyond(s, n)
  OBVIOUS
<1>2. /\ a \in Seq(T) /\ Len(a) = Len(s) + Len(t) /\ Len(s) \in Nat /\ Len(t) \in Nat
      /\ (\A i \in 1 .. Len(s) : a[i] = s[i]) /\ (\A i \in Len(s) + 1 .. Len(s) + Len(t) : a[i] = t[i - Len(s)])
  BY <1>1, GlueFacts
<1>3. b \in Seq(T) /\ Len(b) = Len(s) - n /\ \A i \in 1 .. Len(s) - n : b[i] = s[n + i]
  BY <1>1, BeyondFacts
<1>4. PICK u, v : u = Glue(b, t) /\ v = Beyond(a, n)
  OBVIOUS
<1>5. /\ u \in Seq(T) /\ Len(u) = Len(b) + Len(t)
      /\ \A i \in 1 .. Len(u) : \/ i \in 1 .. Len(b) /\ u[i] = b[i]
                                \/ i - Len(b) \in 1 .. Len(t) /\ u[i] = t[i - Len(b)]
  <2>1. b \in Seq(T)
    BY <1>3
  <2>2. /\ Glue(b, t) \in Seq(T) /\ Len(Glue(b, t)) = Len(b) + Len(t)
        /\ \A i \in 1 .. Len(Glue(b, t)) :
             \/ i \in 1 .. Len(b) /\ Glue(b, t)[i] = b[i]
             \/ i - Len(b) \in 1 .. Len(t) /\ Glue(b, t)[i] = t[i - Len(b)]
    BY <2>1, GlueHalves
  <2>. QED BY <1>4, <2>2
<1>6. v \in Seq(T) /\ Len(v) = Len(a) - n /\ \A i \in 1 .. Len(a) - n : v[i] = a[n + i]
  <2>1. n <= Len(a)
    BY <1>2
  <2>2. a \in Seq(T)
    BY <1>2
  <2>. QED BY <1>4, <2>1, <2>2, BeyondFacts
<1>7. Len(u) = Len(v)
  BY <1>2, <1>3, <1>5, <1>6
<1>8. ASSUME NEW i \in 1 .. Len(u) PROVE u[i] = v[i]
  <2>1. CASE i \in 1 .. Len(b) /\ u[i] = b[i]
    <3>1. n + i \in 1 .. Len(s) /\ i \in 1 .. Len(s) - n /\ i \in 1 .. Len(a) - n
      BY <1>2, <1>3, <2>1
    <3>. QED BY <1>2, <1>3, <1>6, <2>1, <3>1
  <2>2. CASE i - Len(b) \in 1 .. Len(t) /\ u[i] = t[i - Len(b)]
    <3>1. n + i \in Len(s) + 1 .. Len(s) + Len(t) /\ (n + i) - Len(s) = i - Len(b) /\ i \in 1 .. Len(a) - n
      BY <1>2, <1>3, <1>5, <2>2
    <3>2. a[n + i] = t[(n + i) - Len(s)]
      BY <1>2, <3>1
    <3>. QED BY <1>6, <2>2, <3>1, <3>2
  <2>. QED BY <1>5, <2>1, <2>2
<1>. QED BY <1>1, <1>4, <1>5, <1>6, <1>7, <1>8, SeqEqual
-----------------------------------------------------------------------------
(* A stream that consists of chunks: cut[p] cells are in the first p       *)
Cuts(u, w, cut) ==
  /\ cut \in [0 .. Len(w) -> Nat] /\ cut[0] = 0 /\ cut[Len(w)] = Len(u)
  /\ \A p, q \in 0 .. Len(w) : p <= q => cut[p] <= cut[q]
  /\ \A p \in 1 .. Len(w) : /\ cut[p] = cut[p - 1] + Len(w[p])
                            /\ \A x \in 1 .. Len(w[p]) : u[cut[p - 1] + x] = w[p][x]
Consists(u, w) == \E cut : Cuts(u, w, cut)

LEMMA ConsistsNone == Consists(<<>>, <<>>)
<1>1. Cuts(<<>>, <<>>, [p \in 0 .. 0 |-> 0])
  BY DEF Cuts
<1>. QED BY <1>1 DEF Consists

LEMMA ConsistsMore ==
  ASSUME NEW T, NEW u \in Seq(T), NEW w \in Seq(Seq(T)), NEW k \in Seq(T), Consists(u, w)
  PROVE  Consists(Glue(u, k), Append(w, k))
<1>1. PICK cut : Cuts(u, w, cut)
  BY DEF Consists
<1>2. PICK g, a : g = Glue(u, k) /\ a = Append(w, k)
  OBVIOUS
<1>3. PICK n \in Nat : n = Len(w)
  BY LenProperties
<1>4. /\ Len(g) = Len(u) + Len(k) /\ Len(u) \in Nat /\ Len(k) \in Nat
      /\ (\A i \in 1 .. Len(u) : g[i] = u[i]) /\ (\A i \in Len(u) + 1 .. Len(u) + Len(k) : g[i] = k[i - Len(u)])
  BY <1>2, GlueFacts
<1>5. Len(a) = n + 1 /\ (\A i \in 1 .. n : a[i] = w[i]) /\ a[n + 1] = k
  BY <1>2, <1>3, MoreFacts
<1>6. /\ cut \in [0 .. n -> Nat] /\ cut[0] = 0 /\ cut[n] = Len(u)
      /\ \A p, q \in 0 .. n : p <= q => cut[p] <= cut[q]
      /\ \A p \in 1 .. n : /\ cut[p] = cut[p - 1] + Len(w[p])
                            /\ \A x \in 1 .. Len(w[p]) : u[cut[p - 1] + x] = w[p][x]
  BY <1>1, <1>3 DEF Cuts
<1>7. \A p \in 1 .. n : Len(w[p]) \in Nat
  BY <1>3, LenProperties, ElementOfSeq
<1>8. PICK d : d = [p \in 0 .. n + 1 |-> IF p <= n THEN cut[p] ELSE Len(g)]
  OBVIOUS
<1>9. d \in [0 .. n + 1 -> Nat] /\ d[0] = 0 /\ d[n + 1] = Len(g) /\ (\A p \in 0 .. n : d[p] = cut[p])
  BY <1>4, <1>6, <1>8
<1>10. \A p, q \in 0 .. n + 1 : p <= q => d[p] <= d[q]
  <2>1. \A p \in 0 .. n : cut[p] \in Nat /\ cut[p] <= Len(u)
    BY <1>6
  <2>2. Len(g) \in Nat /\ Len(u) <= Len(g)
    BY <1>4
  <2>3. ASSUME NEW p \in 0 .. n + 1, NEW q \in 0 .. n + 1, p <= q PROVE d[p] <= d[q]
    <3>1. CASE q = n + 1 /\ p = n + 1
      BY <1>9, <2>2, <3>1
    <3>2. CASE q = n + 1 /\ p \in 0 .. n
      <4>1. d[q] = Len(g) /\ d[p] = cut[p] /\ cut[p] \in Nat /\ cut[p] <= Len(u)
        BY <1>9, <2>1, <3>2
      <4>. QED BY <1>4, <2>2, <4>1
    <3>3. CASE q \in 0 .. n
      <4>1. p \in 0 .. n /\ d[q] = cut[q] /\ d[p] = cut[p]
        BY <1>9, <2>3, <3>3
      <4>. QED BY <1>6, <2>3, <3>3, <4>1
    <3>. QED BY <2>3, <3>1, <3>2, <3>3
  <2>. QED BY <2>3
<1>11. ASSUME NEW p \in 1 .. n + 1
       PROVE  /\ d[p] = d[p - 1] + Len(a[p])
              /\ \A x \in 1 .. Len(a[p]) : g[d[p - 1] + x] = a[p][x]
  <2>1. CASE p \in 1 .. n
    <3>1. p - 1 \in 0 .. n /\ p \in 0 .. n /\ cut[p - 1] \in Nat /\ cut[p] \in Nat /\ cut[p] <= Len(u)
      BY <1>6, <2>1
    <3>2. PICK l \in Nat : l = Len(w[p])
      BY <1>7, <2>1
    <3>3. /\ cut[p] = cut[p - 1] + l /\ a[p] = w[p] /\ d[p] = cut[p] /\ d[p - 1] = cut[p - 1]
          /\ \A x \in 1 .. l : u[cut[p - 1] + x] = w[p][x]
      BY <1>5, <1>6, <1>9, <2>1, <3>1, <3>2
    <3>4. \A x \in 1 .. l : cut[p - 1] + x \in 1 .. Len(u)
      <4>1. PICK e \in Nat : e = cut[p - 1]
        BY <3>1
      <4>2. e + l <= Len(u) /\ Len(u) \in Nat
        BY <1>4, <3>1, <3>3, <4>1
      <4>. QED BY SMTT(20), <4>1, <4>2
    <3>5. \A x \in 1 .. l : g[cut[p - 1] + x] = w[p][x]
      BY <1>4, <3>3, <3>4
    <3>. QED BY <3>2, <3>3, <3>5
  <2>2. CASE p = n + 1
    <3>1. p - 1 = n /\ n \in 0 .. n
      BY <2>2
    <3>2. a[p] = k /\ d[p] = Len(g) /\ d[p - 1] = Len(u)
      BY <1>5, <1>6, <1>9, <2>2, <3>1
    <3>3. \A x \in 1 .. Len(k) : Len(u) + x \in Len(u) + 1 .. Len(u) + Len(k) /\ (Len(u) + x) - Len(u) = x
      BY <1>4
    <3>. QED BY <1>4, <3>2, <3>3
  <2>. QED BY <2>1, <2>2
<1>12. Cuts(g, a, d)
  BY <1>5, <1>9, <1>10, <1>11 DEF Cuts
<1>. QED BY <1>2, <1>12 DEF Consists

LEMMA ConsistsLess ==
  ASSUME NEW T, NEW u \in Seq(T), NEW w \in Seq(Seq(T)), Consists(u, w), w # <<>>
  PROVE  /\ Len(w[1]) \in Nat /\ Len(w[1]) <= Len(u)
         /\ \A x \in 1 .. Len(w[1]) : u[x] = w[1][x]
         /\ Len(w) >= 2 /\ Len(w[2]) >= 1 => Len(u) > Len(w[1]) /\ u[Len(w[1]) + 1] = w[2][1]
         /\ Len(w) = 1 => Len(u) = Len(w[1])
         /\ Consists(Beyond(u, Len(w[1])), Tail(w))
<1>1. PICK cut : Cuts(u, w, cut)
  BY DEF Consists
<1>2. /\ Tail(w) \in Seq(Seq(T)) /\ Len(Tail(w)) = Len(w) - 1 /\ Len(w) \in Nat /\ Len(w) >= 1
      /\ \A i \in 1 .. Len(Tail(w)) : Tail(w)[i] = w[i + 1]
  BY RestFacts
<1>3. PICK n, m : n \in Nat /\ n = Len(w) /\ m = Len(w[1])
  BY <1>2
<1>. n \in Nat
  BY <1>3
<1>4. \A p \in 1 .. n : Len(w[p]) \in Nat
  BY <1>3, LenProperties, ElementOfSeq
<1>5. /\ cut \in [0 .. n -> Nat] /\ cut[0] = 0 /\ cut[n] = Len(u)
      /\ \A p, q \in 0 .. n : p <= q => cut[p] <= cut[q]
      /\ \A p \in 1 .. n : /\ cut[p] = cut[p - 1] + Len(w[p])
                            /\ \A x \in 1 .. Len(w[p]) : u[cut[p - 1] + x] = w[p][x]
  BY <1>1, <1>3 DEF Cuts
<1>6. m \in Nat /\ cut[1] = m /\ m <= Len(u) /\ n >= 1 /\ Len(u) \in Nat
  <2>1. 1 \in 1 .. n /\ 1 \in 0 .. n /\ n \in 0 .. n
    BY <1>2, <1>3
  <2>2. Len(u) \in Nat
    BY LenProperties
  <2>. QED BY <1>3, <1>4, <1>5, <2>1, <2>2
<1>7. \A x \in 1 .. m : u[x] = w[1][x]
  <2>1. 1 \in 1 .. n /\ 1 - 1 = 0
    BY <1>6
  <2>2. \A x \in 1 .. Len(w[1]) : u[cut[1 - 1] + x] = w[1][x]
    BY <1>5, <2>1
  <2>3. cut[1 - 1] = 0
    BY <1>5, <2>1
  <2>4. \A x \in 1 .. m : cut[1 - 1] + x = x
    BY <2>3
  <2>. QED BY <1>3, <2>2, <2>4
<1>8. n >= 2 /\ Len(w[2]) >= 1 => Len(u) > m /\ u[m + 1] = w[2][1]
  <2>1. ASSUME n >= 2, Len(w[2]) >= 1 PROVE Len(u) > m /\ u[m + 1] = w[2][1]
    <3>1. 2 \in 1 .. n /\ 2 \in 0 .. n /\ n \in 0 .. n /\ 1 \in 1 .. Len(w[2]) /\ cut[2] \in Nat
      BY <1>4, <1>5, <2>1
    <3>2. cut[2] = cut[1] + Len(w[2]) /\ u[cut[1] + 1] = w[2][1] /\ cut[2] <= cut[n]
      BY <1>5, <2>1, <3>1
    <3>. QED BY <1>4, <1>5, <1>6, <2>1, <3>1, <3>2
  <2>. QED BY <2>1
<1>9. n = 1 => Len(u) = m
  BY <1>5, <1>6
<1>10. PICK v, t : v = Beyond(u, m) /\ t = Tail(w)
  OBVIOUS
<1>11. Len(v) = Len(u) - m /\ \A i \in 1 .. Len(u) - m : v[i] = u[m + i]
  BY ZenonT(20), <1>6, <1>10, BeyondFacts
<1>12. Len(t) = n - 1 /\ \A i \in 1 .. n - 1 : t[i] = w[i + 1]
  BY <1>2, <1>3, <1>10
<1>13. PICK d : d = [p \in 0 .. n - 1 |-> cut[p + 1] - m]
  OBVIOUS
<1>14. \A p \in 0 .. n - 1 : cut[p + 1] \in Nat /\ cut[p + 1] >= m /\ d[p] = cut[p + 1] - m
  <2>1. \A p \in 0 .. n - 1 : p + 1 \in 0 .. n /\ 1 \in 0 .. n /\ 1 <= p + 1
    BY <1>6
  <2>. QED BY <1>5, <1>6, <1>13, <2>1
<1>15. d \in [0 .. n - 1 -> Nat] /\ d[0] = 0 /\ d[n - 1] = Len(v)
  <2>1. 0 \in 0 .. n - 1 /\ n - 1 \in 0 .. n - 1 /\ (n - 1) + 1 = n /\ 0 + 1 = 1
    BY <1>6
  <2>2. d[0] = cut[1] - m /\ d[n - 1] = cut[n] - m
    BY <1>14, <2>1
  <2>3. \A p \in 0 .. n - 1 : d[p] \in Nat
    <3>1. \A a, b \in Nat : a >= b => a - b \in Nat
      OBVIOUS
    <3>. QED BY SMTT(20), <1>6, <1>14, <3>1
  <2>4. d \in [0 .. n - 1 -> Nat]
    BY <1>13, <2>3
  <2>. QED BY <1>5, <1>6, <1>11, <2>2, <2>4
<1>16. \A p, q \in 0 .. n - 1 : p <= q => d[p] <= d[q]
  <2>1. \A p, q \in 0 .. n - 1 : p <= q => p + 1 \in 0 .. n /\ q + 1 \in 0 .. n /\ p + 1 <= q + 1
    OBVIOUS
  <2>2. ASSUME NEW p \in 0 .. n - 1, NEW q \in 0 .. n - 1, p <= q PROVE d[p] <= d[q]
    <3>1. cut[p + 1] <= cut[q + 1]
      BY <1>5, <2>1, <2>2
    <3>2. d[p] = cut[p + 1] - m /\ d[q] = cut[q + 1] - m /\ cut[p + 1] \in Nat /\ cut[q + 1] \in Nat
      BY <1>14
    <3>. QED BY <1>6, <3>1, <3>2
  <2>. QED BY <2>2
<1>17. ASSUME NEW p \in 1 .. n - 1
       PROVE  /\ d[p] = d[p - 1] + Len(t[p])
              /\ \A x \in 1 .. Len(t[p]) : v[d[p - 1] + x] = t[p][x]
  <2>1. p + 1 \in 1 .. n /\ (p + 1) - 1 = p /\ (p - 1) + 1 = p /\ p - 1 \in 0 .. n - 1 /\ p \in 0 .. n - 1 /\ n \in 0 .. n
        /\ p + 1 \in 0 .. n /\ p + 1 <= n
    BY <1>6
  <2>2. /\ cut[p + 1] = cut[p] + Len(w[p + 1]) /\ t[p] = w[p + 1] /\ Len(w[p + 1]) \in Nat
        /\ \A x \in 1 .. Len(w[p + 1]) : u[cut[p] + x] = w[p + 1][x]
    BY <1>4, <1>5, <1>12, <2>1
  <2>3. d[p] = cut[p + 1] - m /\ d[p - 1] = cut[p] - m /\ cut[p] \in Nat /\ cut[p] >= m /\ cut[p + 1] \in Nat
    BY <1>14, <2>1
  <2>4. cut[p + 1] <= Len(u)
    BY <1>5, <2>1
  <2>5. PICK l \in Nat, e \in Nat : l = Len(w[p + 1]) /\ e = cut[p]
    BY <2>2, <2>3
  <2>6. e >= m /\ e + l <= Len(u) /\ d[p - 1] = e - m /\ d[p] = (e + l) - m
    BY <2>2, <2>3, <2>4, <2>5
  <2>7. \A x \in 1 .. l : (e - m) + x \in 1 .. Len(u) - m /\ m + ((e - m) + x) = e + x
    BY <1>6, <2>6
  <2>8. \A x \in 1 .. l : v[(e - m) + x] = u[e + x]
    BY <1>11, <2>7
  <2>9. \A x \in 1 .. l : u[e + x] = w[p + 1][x]
    BY <2>2, <2>5
  <2>10. (e + l) - m = (e - m) + l
    BY <1>6
  <2>. QED BY <2>2, <2>5, <2>6, <2>8, <2>9, <2>10
<1>18. Cuts(v, t, d)
  BY <1>12, <1>15, <1>16, <1>17 DEF Cuts
<1>. QED BY <1>3, <1>6, <1>7, <1>8, <1>9, <1>10, <1>18 DEF Consists
-----------------------------------------------------------------------------
(* The chunks of a message *)

Cell == [is : {"basic"}, fmt : 0 .. 3, low : Nat]
        \cup [is : {"id", "ts", "len", "type", "sid", "ext"}, v : Nat] \cup [is : {"data"}]

SentMessage ==
  [csid : Csids, len : Nat, type : Nat, sid : Nat, ts : Nat, fmt : 0 .. 3, value : Nat, delta : Nat]

Parts(m)   == IF m.len = 0 THEN 1 ELSE (m.len + Large - 1) \div Large
Chunk(m, j) == Chunks(m.fmt, m, m.value, Large)[j]

(* what is left of the message, how much of it is in the chunk, and where  *)
(* the fields and the data of a chunk begin                                *)
Left(m, j)  == m.len - (j - 1) * Large
Units(m, j) == IF Left(m, j) < Large THEN Left(m, j) ELSE Large
Ids(c)      == IF c < 64 THEN 0 ELSE IF c < 320 THEN 1 ELSE 2
FormatOf(m, j) == IF j = 1 THEN m.fmt ELSE 3
FieldsAt(m) == 2 + Ids(m.csid)
AfterFields(m, j) == FieldsAt(m) + Fields(FormatOf(m, j))
DataAt(m, j) == AfterFields(m, j) + (IF Extended(m) THEN 1 ELSE 0)

LEMMA ChunkConstants ==
  /\ Large \in Nat /\ Large > 0 /\ Small \in Nat /\ Small > 0 /\ Small <= Large
  /\ Radix \in Nat /\ Radix > 0 /\ Mark \in Nat
  /\ \A c \in Csids : c \in Nat /\ c >= 2 /\ c <= 65599
<1>1. \A c \in Csids : c \in Nat /\ c >= 2 /\ c <= 65599
  BY CsidsAssumption
<1>2. Radix \in Nat \ {0} /\ Small \in Nat \ {0} /\ Large \in Nat /\ Small <= Large
  BY SizesAssumption
<1>. QED BY <1>1, <1>2 DEF Mark

LEMMA GlueCells ==
  ASSUME NEW s \in Seq(Cell), NEW t \in Seq(Cell)
  PROVE  /\ Glue(s, t) \in Seq(Cell) /\ Len(Glue(s, t)) = Len(s) + Len(t) /\ Len(s) \in Nat /\ Len(t) \in Nat
         /\ \A i \in 1 .. Len(s) : Glue(s, t)[i] = s[i]
         /\ \A i \in Len(s) + 1 .. Len(s) + Len(t) : Glue(s, t)[i] = t[i - Len(s)]
BY GlueParts

LEMMA GlueChunks ==
  ASSUME NEW s \in Seq(Seq(Cell)), NEW t \in Seq(Seq(Cell))
  PROVE  /\ Glue(s, t) \in Seq(Seq(Cell)) /\ Len(Glue(s, t)) = Len(s) + Len(t)
         /\ Len(s) \in Nat /\ Len(t) \in Nat
         /\ \A i \in 1 .. Len(s) : Glue(s, t)[i] = s[i]
         /\ \A i \in Len(s) + 1 .. Len(s) + Len(t) : Glue(s, t)[i] = t[i - Len(s)]
BY GlueParts

LEMMA PartsFacts ==
  ASSUME NEW m \in SentMessage
  PROVE  /\ Parts(m) \in Nat /\ Parts(m) >= 1 /\ Left(m, 1) = m.len
         /\ m.len <= Large => Parts(m) = 1
         /\ \A j \in 1 .. Parts(m) :
              /\ Left(m, j) \in Nat /\ (m.len > 0 => Left(m, j) > 0)
              /\ j < Parts(m) <=> Left(m, j) > Large
              /\ Left(m, j + 1) = Left(m, j) - Large
<1>1. m.len \in Nat /\ Large \in Nat /\ Large > 0 /\ Large \in Nat \ {0}
  BY ChunkConstants DEF SentMessage
<1>2. Left(m, 1) = m.len
  BY <1>1 DEF Left
<1>3. \A j \in Nat : Left(m, j + 1) = Left(m, j) - Large
  BY <1>1 DEF Left
<1>4. CASE m.len = 0
  <2>1. Parts(m) = 1
    BY <1>4 DEF Parts
  <2>. QED BY <1>1, <1>2, <1>3, <1>4, <2>1
<1>5. CASE m.len > 0
  <2>1. PICK n \in Nat : n = m.len + Large - 1
    BY <1>1
  <2>2. PICK q, r : q = n \div Large /\ r = n % Large
    OBVIOUS
  <2>3. n = (Large * q) + r /\ r \in 0 .. Large - 1 /\ q \in Int
    <3>1. n = (Large * (n \div Large)) + (n % Large) /\ (n % Large) \in 0 .. Large - 1 /\ (n \div Large) \in Int
      BY <1>1
    <3>. QED BY <2>2, <3>1
  <2>4. Parts(m) = q
    BY <1>1, <1>5, <2>1, <2>2 DEF Parts
  <2>5. \A a, b \in Int : a < b => (Large * a) + Large <= Large * b
    BY <1>1, Gap
  <2>6. q >= 1
    <3>1. q < 1 => (Large * q) + Large <= Large * 1
      BY <2>3, <2>5
    <3>2. PICK x \in Int : x = Large * q
      BY <1>1, <2>3
    <3>. QED BY <1>1, <1>5, <2>1, <2>3, <3>1, <3>2
  <2>7. m.len <= Large => q = 1
    <3>1. 1 < q => (Large * 1) + Large <= Large * q
      BY <2>3, <2>5
    <3>2. PICK x \in Int : x = Large * q
      BY <1>1, <2>3
    <3>. QED BY <1>1, <2>1, <2>3, <2>6, <3>1, <3>2
  <2>8. ASSUME NEW j \in 1 .. q
        PROVE  Left(m, j) \in Nat /\ Left(m, j) > 0 /\ (j < q <=> Left(m, j) > Large)
    <3>1. PICK x \in Int, y \in Int : x = Large * q /\ y = Large * (j - 1)
      BY <1>1, <2>3
    <3>2. Left(m, j) = m.len - y
      BY <1>1, <3>1 DEF Left
    <3>3. j - 1 < q => y + Large <= x
      <4>1. j - 1 \in Int /\ q \in Int
        BY <2>3
      <4>2. j - 1 < q => (Large * (j - 1)) + Large <= Large * q
        BY <2>5, <4>1
      <4>. QED BY <3>1, <4>2
    <3>4. j < q => (y + Large) + Large <= x
      <4>1. j - 1 \in Int /\ j \in Int /\ q \in Int /\ j - 1 < j
        BY <2>3
      <4>2. j < q => (Large * j) + Large <= Large * q
        BY <2>5, <4>1
      <4>3. (Large * (j - 1)) + Large <= Large * j
        BY <2>5, <4>1
      <4>4. PICK z \in Int : z = Large * j
        BY <1>1
      <4>. QED BY <1>1, <3>1, <4>2, <4>3, <4>4
    <3>5. j = q => x = y + Large
      BY <1>1, <2>3, <3>1
    <3>. QED BY <1>1, <2>1, <2>3, <3>1, <3>2, <3>3, <3>4, <3>5
  <2>. QED BY <1>1, <1>2, <1>3, <2>3, <2>4, <2>6, <2>7, <2>8
<1>. QED BY <1>1, <1>4, <1>5

(* The basic header: one to three cells that name the chunk stream *)
LEMMA BasicFacts ==
  ASSUME NEW c \in Csids, NEW f \in 0 .. 3
  PROVE  LET b == BasicHeader(f, c) IN
         /\ b \in Seq(Cell) /\ Len(b) = 1 + Ids(c) /\ Ids(c) \in 0 .. 2
         /\ b[1].is = "basic" /\ b[1].fmt = f /\ IdCells(b[1]) = Ids(c)
         /\ Ids(c) = 0 => b[1].low = c /\ c # 0 /\ c # 1
         /\ Ids(c) = 1 => b[1].low = 0 /\ 64 + b[2].v = c
         /\ Ids(c) = 2 => b[1].low = 1 /\ 64 + b[2].v + 256 * b[3].v = c
<1>1. c \in Nat /\ c >= 2 /\ c <= 65599
  BY ChunkConstants
<1>2. CASE c < 64
  <2>1. BasicHeader(f, c) = <<[is |-> "basic", fmt |-> f, low |-> c]>>
    BY <1>2 DEF BasicHeader
  <2>2. [is |-> "basic", fmt |-> f, low |-> c] \in Cell
    BY <1>1 DEF Cell
  <2>. QED BY <1>1, <1>2, <2>1, <2>2 DEF Ids, IdCells
<1>3. CASE ~(c < 64) /\ c < 320
  <2>1. BasicHeader(f, c) = <<[is |-> "basic", fmt |-> f, low |-> 0], [is |-> "id", v |-> c - 64]>>
    BY <1>1, <1>3 DEF BasicHeader
  <2>2. [is |-> "basic", fmt |-> f, low |-> 0] \in Cell /\ [is |-> "id", v |-> c - 64] \in Cell
    BY <1>1, <1>3 DEF Cell
  <2>. QED BY <1>1, <1>3, <2>1, <2>2 DEF Ids, IdCells
<1>4. CASE ~(c < 320)
  <2>0. PICK n \in Nat : n = c - 64
    BY <1>1, <1>4
  <2>1. PICK x, y : x = n % 256 /\ y = n \div 256
    OBVIOUS
  <2>2. x \in Nat /\ y \in Nat /\ n = 256 * y + x
    BY <2>1
  <2>3. BasicHeader(f, c) = <<[is |-> "basic", fmt |-> f, low |-> 1], [is |-> "id", v |-> x], [is |-> "id", v |-> y]>>
    BY <1>1, <1>4, <2>0, <2>1 DEF BasicHeader
  <2>4. /\ [is |-> "basic", fmt |-> f, low |-> 1] \in Cell
        /\ [is |-> "id", v |-> x] \in Cell /\ [is |-> "id", v |-> y] \in Cell
    BY <2>2 DEF Cell
  <2>5. 64 + x + 256 * y = c
    BY <1>1, <2>0, <2>2
  <2>. QED BY <1>1, <1>4, <2>3, <2>4, <2>5 DEF Ids, IdCells
<1>. QED BY <1>1, <1>2, <1>3, <1>4

LEMMA FieldFacts ==
  ASSUME NEW m \in SentMessage, NEW f \in 0 .. 3, NEW field \in Nat
  PROVE  LET h == MessageHeader(f, m, field) IN
         /\ h \in Seq(Cell) /\ Len(h) = Fields(f) /\ Fields(f) \in 0 .. 4 /\ (f # 3 => Fields(f) > 0)
         /\ f # 3 => h[1].is = "ts" /\ h[1].v = field
         /\ f \in {0, 1} => h[2].v = m.len /\ h[3].v = m.type
         /\ f = 0 => h[4].v = m.sid
<1>1. m.len \in Nat /\ m.type \in Nat /\ m.sid \in Nat
  BY DEF SentMessage
<1>2. PICK all : all = <<[is |-> "ts", v |-> field], [is |-> "len", v |-> m.len],
                         [is |-> "type", v |-> m.type], [is |-> "sid", v |-> m.sid]>>
  OBVIOUS
<1>3. all \in Seq(Cell)
  <2>1. /\ [is |-> "ts", v |-> field] \in Cell /\ [is |-> "len", v |-> m.len] \in Cell
        /\ [is |-> "type", v |-> m.type] \in Cell /\ [is |-> "sid", v |-> m.sid] \in Cell
    BY <1>1 DEF Cell
  <2>. QED BY <1>2, <2>1
<1>4. Fields(f) \in 0 .. 4 /\ Fields(f) \in Nat /\ (f # 3 => Fields(f) >= 1) /\ (f \in {0, 1} => Fields(f) >= 3) /\ (f = 0 => Fields(f) = 4)
  BY DEF Fields
<1>5. MessageHeader(f, m, field) = SubSeq(all, 1, Fields(f))
  BY <1>2 DEF MessageHeader, Fields
<1>6. /\ SubSeq(all, 1, Fields(f)) \in Seq(Cell) /\ Len(SubSeq(all, 1, Fields(f))) = Fields(f)
      /\ \A i \in 1 .. Fields(f) : SubSeq(all, 1, Fields(f))[i] = all[i]
  <2>1. Len(all) = 4
    BY <1>2
  <2>2. Fields(f) <= Len(all)
    BY <1>4, <2>1
  <2>. QED BY <1>3, <1>4, <2>2, FirstFacts
<1>7. /\ all[1].is = "ts" /\ all[1].v = field /\ all[2].v = m.len /\ all[3].v = m.type /\ all[4].v = m.sid
  BY <1>2
<1>. QED BY <1>4, <1>5, <1>6, <1>7

(* k consists of b, h, e and d *)
OfFour(k, T, b, h, e, d) ==
  /\ k \in Seq(T) /\ Len(k) = Len(b) + Len(h) + Len(e) + Len(d)
  /\ Len(b) \in Nat /\ Len(h) \in Nat /\ Len(e) \in Nat /\ Len(d) \in Nat
  /\ \A i \in 1 .. Len(b) : k[i] = b[i]
  /\ \A i \in Len(b) + 1 .. Len(b) + Len(h) : k[i] = h[i - Len(b)]
  /\ \A i \in Len(b) + Len(h) + 1 .. Len(b) + Len(h) + Len(e) : k[i] = e[i - (Len(b) + Len(h))]
  /\ \A i \in Len(b) + Len(h) + Len(e) + 1 .. Len(k) : k[i] = d[i - (Len(b) + Len(h) + Len(e))]

LEMMA FourGlued ==
  ASSUME NEW T, NEW b \in Seq(T), NEW h \in Seq(T), NEW e \in Seq(T), NEW d \in Seq(T),
         NEW k, k = Glue(Glue(Glue(b, h), e), d)
  PROVE  OfFour(k, T, b, h, e, d)
<1>1. PICK p : p = Glue(b, h)
  OBVIOUS
<1>2. /\ p \in Seq(T) /\ Len(p) = Len(b) + Len(h) /\ Len(b) \in Nat /\ Len(h) \in Nat
      /\ \A i \in 1 .. Len(b) : p[i] = b[i]
      /\ \A i \in Len(b) + 1 .. Len(b) + Len(h) : p[i] = h[i - Len(b)]
  BY <1>1, GlueFacts
<1>3. PICK q : q = Glue(p, e)
  OBVIOUS
<1>4. /\ q \in Seq(T) /\ Len(q) = Len(p) + Len(e) /\ Len(e) \in Nat
      /\ \A i \in 1 .. Len(p) : q[i] = p[i]
      /\ \A i \in Len(p) + 1 .. Len(p) + Len(e) : q[i] = e[i - Len(p)]
  <2>1. p \in Seq(T)
    BY <1>2
  <2>. QED BY <1>3, <2>1, GlueFacts
<1>5. k = Glue(q, d)
  BY <1>1, <1>3
<1>6. /\ k \in Seq(T) /\ Len(k) = Len(q) + Len(d) /\ Len(d) \in Nat
      /\ \A i \in 1 .. Len(q) : k[i] = q[i]
      /\ \A i \in Len(q) + 1 .. Len(q) + Len(d) : k[i] = d[i - Len(q)]
  <2>1. q \in Seq(T) /\ d \in Seq(T)
    BY <1>4
  <2>2. PICK u : u = Glue(q, d)
    OBVIOUS
  <2>3. /\ u \in Seq(T) /\ Len(u) = Len(q) + Len(d) /\ Len(d) \in Nat
        /\ \A i \in 1 .. Len(q) : u[i] = q[i]
        /\ \A i \in Len(q) + 1 .. Len(q) + Len(d) : u[i] = d[i - Len(q)]
    BY <2>1, <2>2, GlueFacts
  <2>. QED BY <1>5, <2>2, <2>3
<1>7. PICK x \in Nat, y \in Nat, z \in Nat, n \in Nat : x = Len(b) /\ y = Len(h) /\ z = Len(e) /\ n = Len(d)
  BY <1>2, <1>4, <1>6
<1>8. Len(p) = x + y /\ Len(q) = x + y + z /\ Len(k) = x + y + z + n
  BY <1>2, <1>4, <1>6, <1>7
<1>9. \A i \in 1 .. x : k[i] = b[i]
  <2>1. \A i \in 1 .. x : i \in 1 .. Len(b) /\ i \in 1 .. Len(p) /\ i \in 1 .. Len(q)
    BY <1>7, <1>8
  <2>. QED BY <1>2, <1>4, <1>6, <2>1
<1>10. \A i \in x + 1 .. x + y : k[i] = h[i - x]
  <2>1. \A i \in x + 1 .. x + y : i \in 1 .. Len(p) /\ i \in 1 .. Len(q)
    BY <1>8
  <2>2. \A i \in x + 1 .. x + y : p[i] = h[i - x]
    BY <1>2, <1>7
  <2>. QED BY <1>4, <1>6, <2>1, <2>2
<1>11. \A i \in x + y + 1 .. x + y + z : k[i] = e[i - (x + y)]
  <2>1. \A i \in x + y + 1 .. x + y + z : i \in 1 .. Len(q)
    BY <1>8
  <2>2. \A i \in x + y + 1 .. x + y + z : q[i] = e[i - (x + y)]
    BY <1>4, <1>7, <1>8
  <2>. QED BY <1>6, <2>1, <2>2
<1>12. \A i \in x + y + z + 1 .. x + y + z + n : k[i] = d[i - (x + y + z)]
  BY <1>6, <1>7, <1>8
<1>. QED BY <1>6, <1>7, <1>8, <1>9, <1>10, <1>11, <1>12 DEF OfFour

Field(m) == IF m.value > Mark THEN Mark ELSE m.value

(* What the reader finds in a chunk, cell by cell *)
ShapeOf(k, m, j) ==
  LET f  == FormatOf(m, j)
      at == FieldsAt(m)
      c  == m.csid
  IN  /\ k \in Seq(Cell) /\ Len(k) = DataAt(m, j) - 1 + Units(m, j)
      /\ k[1].is = "basic" /\ k[1].fmt = f /\ IdCells(k[1]) = Ids(c)
      /\ Ids(c) = 0 => k[1].low = c /\ c # 0 /\ c # 1
      /\ Ids(c) = 1 => k[1].low = 0 /\ 64 + k[2].v = c
      /\ Ids(c) = 2 => k[1].low = 1 /\ 64 + k[2].v + 256 * k[3].v = c
      /\ f # 3 => k[at].v = Field(m)
      /\ f \in {0, 1} => k[at + 1].v = m.len /\ k[at + 2].v = m.type
      /\ f = 0 => k[at + 3].v = m.sid
      /\ Extended(m) => k[AfterFields(m, j)].is = "ext" /\ k[AfterFields(m, j)].v = m.value
      /\ \A x \in DataAt(m, j) .. Len(k) : k[x].is = "data"

LEMMA ChunkFacts ==
  ASSUME NEW m \in SentMessage, NEW j \in 1 .. Parts(m)
  PROVE  ShapeOf(Chunk(m, j), m, j)
<1>1. /\ m.csid \in Csids /\ m.fmt \in 0 .. 3 /\ m.value \in Nat /\ m.len \in Nat
      /\ Mark \in Nat /\ Large \in Nat /\ Large > 0
  BY ChunkConstants DEF SentMessage
<1>2. Field(m) \in Nat /\ (Field(m) = Mark <=> Extended(m))
  BY <1>1 DEF Field, Extended
<1>3. Left(m, j) \in Nat /\ Parts(m) \in Nat /\ j \in Nat
  BY PartsFacts
<1>4. Units(m, j) \in Nat
  BY <1>1, <1>3 DEF Units
<1>5a. PICK f \in 0 .. 3 : f = FormatOf(m, j)
  BY <1>1 DEF FormatOf
<1>5. PICK e, d, b, h :
        /\ e = (IF Extended(m) THEN <<[is |-> "ext", v |-> m.value]>> ELSE <<>>)
        /\ d = Payload(Units(m, j)) /\ b = BasicHeader(f, m.csid) /\ h = MessageHeader(f, m, Field(m))
  BY Zenon
<1>6. Chunk(m, j) = Glue(Glue(Glue(b, h), e), d)
  <2>0. e = IF Field(m) = Mark THEN <<[is |-> "ext", v |-> m.value]>> ELSE <<>>
    BY <1>2, <1>5
  <2>1. d = Payload(IF m.len - (j - 1) * Large < Large THEN m.len - (j - 1) * Large ELSE Large)
    BY <1>5 DEF Units, Left
  <2>2. Chunk(m, j) = IF j = 1 THEN BasicHeader(m.fmt, m.csid) \o MessageHeader(m.fmt, m, Field(m)) \o e \o d
                      ELSE BasicHeader(3, m.csid) \o e \o d
    <3>1. /\ Field(m) = (IF m.value > Mark THEN Mark ELSE m.value)
          /\ j \in 1 .. (IF m.len = 0 THEN 1 ELSE (m.len + Large - 1) \div Large)
      BY DEF Field, Parts
    <3>. QED BY <2>0, <2>1, <3>1 DEF Chunk, Chunks
  <2>3. CASE j = 1
    BY <1>5, <1>5a, <2>2, <2>3 DEF Glue, FormatOf
  <2>4. CASE j # 1
    <3>1. f = 3
      BY <1>5a, <2>4 DEF FormatOf
    <3>2. h = <<>>
      <4>1. Fields(3) = 0
        BY DEF Fields
      <4>2. h \in Seq(Cell) /\ Len(h) = 0
        BY <1>2, <1>5, <3>1, <4>1, FieldFacts
      <4>. QED BY <4>2, NoneFacts
    <3>3. b \in Seq(Cell)
      BY <1>1, <1>5, BasicFacts
    <3>4. Glue(b, h) = b
      BY <3>2, <3>3, ConcatEmptySeq DEF Glue
    <3>5. Chunk(m, j) = b \o e \o d
      BY <1>5, <2>2, <2>4, <3>1
    <3>. QED BY <3>4, <3>5 DEF Glue
  <2>. QED BY <2>3, <2>4
<1>7. /\ b \in Seq(Cell) /\ Len(b) = 1 + Ids(m.csid) /\ Ids(m.csid) \in 0 .. 2
      /\ b[1].is = "basic" /\ b[1].fmt = f /\ IdCells(b[1]) = Ids(m.csid)
      /\ Ids(m.csid) = 0 => b[1].low = m.csid /\ m.csid # 0 /\ m.csid # 1
      /\ Ids(m.csid) = 1 => b[1].low = 0 /\ 64 + b[2].v = m.csid
      /\ Ids(m.csid) = 2 => b[1].low = 1 /\ 64 + b[2].v + 256 * b[3].v = m.csid
  <2>1. m.csid \in Csids
    BY <1>1
  <2>. QED BY <1>5, <2>1, BasicFacts
<1>8. /\ h \in Seq(Cell) /\ Len(h) = Fields(f) /\ Fields(f) \in 0 .. 4 /\ (f # 3 => Fields(f) > 0)
      /\ f # 3 => h[1].is = "ts" /\ h[1].v = Field(m)
      /\ f \in {0, 1} => h[2].v = m.len /\ h[3].v = m.type
      /\ f = 0 => h[4].v = m.sid
  BY <1>2, <1>5, FieldFacts
<1>9. /\ e \in Seq(Cell) /\ Len(e) = (IF Extended(m) THEN 1 ELSE 0)
      /\ Extended(m) => e[1].is = "ext" /\ e[1].v = m.value
  <2>1. [is |-> "ext", v |-> m.value] \in Cell
    BY <1>1 DEF Cell
  <2>2. CASE Extended(m)
    BY <1>5, <2>1, <2>2
  <2>3. CASE ~Extended(m)
    BY <1>5, <2>3
  <2>. QED BY <2>2, <2>3
<1>10. d \in Seq(Cell) /\ Len(d) = Units(m, j) /\ \A i \in 1 .. Units(m, j) : d[i].is = "data"
  <2>1. [is |-> "data"] \in Cell
    BY DEF Cell
  <2>. QED BY <1>4, <1>5, <2>1 DEF Payload
<1>11. PICK k, x : k = Chunk(m, j) /\ x = Len(b) + Len(h)
  OBVIOUS
<1>12. /\ k \in Seq(Cell) /\ Len(k) = x + Len(e) + Len(d)
       /\ \A i \in 1 .. Len(b) : k[i] = b[i]
       /\ \A i \in Len(b) + 1 .. x : k[i] = h[i - Len(b)]
       /\ \A i \in x + 1 .. x + Len(e) : k[i] = e[i - x]
       /\ \A i \in x + Len(e) + 1 .. Len(k) : k[i] = d[i - (x + Len(e))]
  <2>1. /\ b \in Seq(Cell) /\ h \in Seq(Cell) /\ e \in Seq(Cell) /\ d \in Seq(Cell)
    BY <1>7, <1>8, <1>9, <1>10
  <2>2. PICK g : g = Glue(Glue(Glue(b, h), e), d)
    OBVIOUS
  <2>3. /\ g \in Seq(Cell) /\ Len(g) = Len(b) + Len(h) + Len(e) + Len(d)
        /\ \A i \in 1 .. Len(b) : g[i] = b[i]
        /\ \A i \in Len(b) + 1 .. Len(b) + Len(h) : g[i] = h[i - Len(b)]
        /\ \A i \in Len(b) + Len(h) + 1 .. Len(b) + Len(h) + Len(e) : g[i] = e[i - (Len(b) + Len(h))]
        /\ \A i \in Len(b) + Len(h) + Len(e) + 1 .. Len(g) : g[i] = d[i - (Len(b) + Len(h) + Len(e))]
    <3>1. OfFour(g, Cell, b, h, e, d)
      BY <2>1, <2>2, FourGlued
    <3>. QED BY <3>1, Zenon DEF OfFour
  <2>. QED BY <1>6, <1>11, <2>2, <2>3
<1>13. /\ x + 1 = AfterFields(m, j) /\ x + Len(e) + 1 = DataAt(m, j) /\ Len(b) + 1 = FieldsAt(m) /\ x \in Nat
       /\ x = 1 + Ids(m.csid) + Fields(f)
  <2>1. PICK y \in Nat, z \in Nat : y = Ids(m.csid) /\ z = Fields(f)
    BY <1>7, <1>8
  <2>2. x = 1 + y + z /\ Len(b) = 1 + y
    BY <1>7, <1>8, <1>11, <2>1
  <2>3. FieldsAt(m) = 2 + y /\ AfterFields(m, j) = 2 + y + z
    BY <1>5a, <2>1 DEF AfterFields, FieldsAt
  <2>4. DataAt(m, j) = 2 + y + z + Len(e)
    BY <1>9, <2>3 DEF DataAt
  <2>5. PICK l \in Nat : l = Len(e)
    BY <1>9
  <2>6. Len(b) + 1 = FieldsAt(m) /\ x = 1 + Ids(m.csid) + Fields(f)
    BY <2>1, <2>2, <2>3
  <2>7. x \in Nat /\ x + 1 = AfterFields(m, j)
    BY <2>2, <2>3
  <2>8. x + Len(e) + 1 = DataAt(m, j)
    BY <2>2, <2>4, <2>5
  <2>. QED BY <2>6, <2>7, <2>8
<1>14. Len(k) = DataAt(m, j) - 1 + Units(m, j)
  BY <1>9, <1>10, <1>12, <1>13
<1>15. /\ k[1] = b[1] /\ (Ids(m.csid) >= 1 => k[2] = b[2]) /\ (Ids(m.csid) >= 2 => k[3] = b[3])
  BY <1>7, <1>12
<1>16. /\ f # 3 => k[FieldsAt(m)] = h[1]
       /\ f \in {0, 1} => k[FieldsAt(m) + 1] = h[2] /\ k[FieldsAt(m) + 2] = h[3]
       /\ f = 0 => k[FieldsAt(m) + 3] = h[4]
  <2>1. PICK y \in Nat : y = Len(b)
    BY <1>7
  <2>2. FieldsAt(m) = y + 1 /\ x = y + Fields(f)
    BY <1>8, <1>11, <1>13, <2>1
  <2>3. /\ f # 3 => y + 1 \in y + 1 .. x
        /\ f \in {0, 1} => y + 2 \in y + 1 .. x /\ y + 3 \in y + 1 .. x
        /\ f = 0 => y + 4 \in y + 1 .. x
    BY <2>2 DEF Fields
  <2>4. (y + 1) - y = 1 /\ (y + 2) - y = 2 /\ (y + 3) - y = 3 /\ (y + 4) - y = 4
        /\ (y + 1) + 1 = y + 2 /\ (y + 1) + 2 = y + 3 /\ (y + 1) + 3 = y + 4
    OBVIOUS
  <2>5. \A i \in y + 1 .. x : k[i] = h[i - y]
    BY <1>12, <2>1
  <2>. QED BY <2>2, <2>3, <2>4, <2>5
<1>17. Extended(m) => k[AfterFields(m, j)] = e[1]
  <2>1. ASSUME Extended(m) PROVE k[x + 1] = e[1]
    <3>1. x + 1 \in x + 1 .. x + Len(e) /\ (x + 1) - x = 1
      BY <1>9, <1>13, <2>1
    <3>. QED BY <1>12, <3>1
  <2>. QED BY <1>13, <2>1
<1>18. \A i \in DataAt(m, j) .. Len(k) : k[i].is = "data"
  <2>1. ASSUME NEW i \in DataAt(m, j) .. Len(k) PROVE k[i].is = "data"
    <3>1. PICK y \in Nat : y = x + Len(e)
      BY <1>9, <1>13
    <3>2. DataAt(m, j) = y + 1 /\ Len(k) = y + Units(m, j)
      BY <1>10, <1>12, <1>13, <3>1
    <3>3. i \in y + 1 .. Len(k) /\ i - y \in 1 .. Units(m, j)
      BY <1>4, <2>1, <3>1, <3>2
    <3>4. k[i] = d[i - y]
      BY <1>12, <3>1, <3>3
    <3>. QED BY <1>10, <3>3, <3>4
  <2>. QED BY <2>1
<1>19. k \in Seq(Cell) /\ f = FormatOf(m, j)
  BY <1>5a, <1>12
<1>20. ShapeOf(k, m, j)
  <2>1. Len(k) = DataAt(m, j) - 1 + Units(m, j) /\ k \in Seq(Cell)
    BY <1>14, <1>19
  <2>2. k[1].is = "basic" /\ k[1].fmt = f /\ IdCells(k[1]) = Ids(m.csid)
    BY <1>7, <1>15, Zenon
  <2>3. /\ Ids(m.csid) = 0 => k[1].low = m.csid /\ m.csid # 0 /\ m.csid # 1
        /\ Ids(m.csid) = 1 => k[1].low = 0 /\ 64 + k[2].v = m.csid
        /\ Ids(m.csid) = 2 => k[1].low = 1 /\ 64 + k[2].v + 256 * k[3].v = m.csid
    BY <1>7, <1>15
  <2>4. /\ f # 3 => k[FieldsAt(m)].v = Field(m)
        /\ f \in {0, 1} => k[FieldsAt(m) + 1].v = m.len /\ k[FieldsAt(m) + 2].v = m.type
        /\ f = 0 => k[FieldsAt(m) + 3].v = m.sid
    BY <1>8, <1>16, Zenon
  <2>5. Extended(m) => k[AfterFields(m, j)].is = "ext" /\ k[AfterFields(m, j)].v = m.value
    BY <1>9, <1>17, Zenon
  <2>. QED BY <1>18, <1>19, <2>1, <2>2, <2>3, <2>4, <2>5, Zenon DEF ShapeOf
<1>. QED BY <1>11, <1>20
-----------------------------------------------------------------------------
(* What ParseChunk does, once the parts of the header have got names *)
Outcome(f, c, at, body, packet, ext, full, value, ts, first, bytes, whole, header) ==
  /\ packet = (IF inPacket[c].open THEN inPacket[c]
               ELSE [open |-> TRUE, space |-> HeaderLen(f, c, at), ts |-> 0])
  /\ ext = HasExt(f, c, at)
  /\ full = (Len(buf) >= body)
  /\ value = (IF ext /\ full THEN (IF buf[body].is = "ext" THEN Swap(buf[body].v) ELSE 0) ELSE 0)
  /\ ts = (IF ext /\ full /\ f # 0 THEN value + inPrev[c].ts ELSE HeaderTs(f, c, at, packet.ts))
  /\ first = (IF ext THEN body + 1 ELSE body)
  /\ bytes = Min({packet.space, inChunk})
  /\ whole = ((ext => full) /\ Len(buf) - first + 1 >= bytes)
  /\ header = [len |-> IF f \in {0, 1} THEN buf[at + 1].v ELSE inPrev[c].len,
               type |-> IF f \in {0, 1} THEN buf[at + 2].v ELSE inPrev[c].type,
               sid |-> IF f = 0 THEN buf[at + 3].v ELSE inPrev[c].sid, ts |-> ts, set |-> TRUE]

Taken(f, c, at, body, packet, ext, full, value, ts, first, bytes, whole, header) ==
  /\ inDelta' = [inDelta EXCEPT ![c] =
       IF ext /\ full /\ f # 0 THEN value ELSE HeaderDelta(f, c, at)]
  /\ inExt' = [inExt EXCEPT ![c] = ext]
  /\ lost' = ((ext /\ full /\ buf[body].is # "ext") \/ (whole /\ ~Are("data", first, bytes)))
  /\ IF ~whole
     THEN /\ inPacket' = [inPacket EXCEPT ![c] = [packet EXCEPT !.ts = ts]]
          /\ waiting' = TRUE
          /\ UNCHANGED <<buf, inPrev, inChunk, received>>
     ELSE /\ buf' = SubSeq(buf, first + bytes, Len(buf))
          /\ inPrev' = [inPrev EXCEPT ![c] = header]
          /\ inPacket' = [inPacket EXCEPT ![c] =
               IF packet.space = bytes THEN NoPacket
               ELSE [packet EXCEPT !.space = @ - bytes, !.ts = ts]]
          /\ received' = IF packet.space = bytes
                         THEN [received EXCEPT ![c] = Append(@, header)] ELSE received
          /\ inChunk' = IF packet.space = bytes /\ header.type = SetChunkSize THEN Large ELSE inChunk
          /\ UNCHANGED waiting

LEMMA ParseMeans ==
  ASSUME ParseChunk
  PROVE  \E f, c, at, body, packet, ext, full, value, ts, first, bytes, whole, header :
           /\ f = buf[1].fmt /\ c = CsidIn(buf[1]) /\ at = 2 + IdCells(buf[1]) /\ body = at + Fields(f)
           /\ Outcome(f, c, at, body, packet, ext, full, value, ts, first, bytes, whole, header)
           /\ Taken(f, c, at, body, packet, ext, full, value, ts, first, bytes, whole, header)
<1>1. PICK f, c, at : f = buf[1].fmt /\ c = CsidIn(buf[1]) /\ at = 2 + IdCells(buf[1])
  OBVIOUS
<1>2. PICK body : body = at + Fields(f)
  OBVIOUS
<1>3. PICK packet, ext, full :
        /\ packet = (IF inPacket[c].open THEN inPacket[c]
                     ELSE [open |-> TRUE, space |-> HeaderLen(f, c, at), ts |-> 0])
        /\ ext = HasExt(f, c, at)
        /\ full = (Len(buf) >= body)
  OBVIOUS
<1>4. PICK value : value = (IF ext /\ full THEN (IF buf[body].is = "ext" THEN Swap(buf[body].v) ELSE 0) ELSE 0)
  OBVIOUS
<1>5. PICK ts, first, bytes :
        /\ ts = (IF ext /\ full /\ f # 0 THEN value + inPrev[c].ts ELSE HeaderTs(f, c, at, packet.ts))
        /\ first = (IF ext THEN body + 1 ELSE body)
        /\ bytes = Min({packet.space, inChunk})
  OBVIOUS
<1>6. PICK whole, header :
        /\ whole = ((ext => full) /\ Len(buf) - first + 1 >= bytes)
        /\ header = [len |-> IF f \in {0, 1} THEN buf[at + 1].v ELSE inPrev[c].len,
                     type |-> IF f \in {0, 1} THEN buf[at + 2].v ELSE inPrev[c].type,
                     sid |-> IF f = 0 THEN buf[at + 3].v ELSE inPrev[c].sid, ts |-> ts, set |-> TRUE]
  OBVIOUS
<1>7. Outcome(f, c, at, body, packet, ext, full, value, ts, first, bytes, whole, header)
  BY <1>3, <1>4, <1>5, <1>6, Zenon DEF Outcome
<1>8. Taken(f, c, at, body, packet, ext, full, value, ts, first, bytes, whole, header)
  <2>. USE <1>1, <1>2, <1>3, <1>4, <1>5, <1>6
  <2>1. inDelta' = [inDelta EXCEPT ![c] =
       IF ext /\ full /\ f # 0 THEN value ELSE HeaderDelta(f, c, at)]
    BY ZenonT(30) DEF ParseChunk
  <2>2. inExt' = [inExt EXCEPT ![c] = ext]
    BY ZenonT(30) DEF ParseChunk
  <2>3. lost' = ((ext /\ full /\ buf[body].is # "ext") \/ (whole /\ ~Are("data", first, bytes)))
    BY ZenonT(30) DEF ParseChunk
  <2>4. CASE ~whole
    <3>1. /\ inPacket' = [inPacket EXCEPT ![c] = [packet EXCEPT !.ts = ts]]
          /\ waiting' = TRUE
          /\ UNCHANGED <<buf, inPrev, inChunk, received>>
      BY ZenonT(30), <2>4 DEF ParseChunk
    <3>. QED BY <2>1, <2>2, <2>3, <2>4, <3>1, Zenon DEF Taken
  <2>5. CASE whole
    <3>1. /\ buf' = SubSeq(buf, first + bytes, Len(buf))
          /\ inPrev' = [inPrev EXCEPT ![c] = header]
          /\ inPacket' = [inPacket EXCEPT ![c] =
               IF packet.space = bytes THEN NoPacket
               ELSE [packet EXCEPT !.space = @ - bytes, !.ts = ts]]
      BY ZenonT(30), <2>5 DEF ParseChunk
    <3>2. /\ received' = IF packet.space = bytes
                         THEN [received EXCEPT ![c] = Append(@, header)] ELSE received
          /\ inChunk' = IF packet.space = bytes /\ header.type = SetChunkSize THEN Large ELSE inChunk
          /\ UNCHANGED waiting
      BY <2>5 DEF ParseChunk
    <3>. QED BY <2>1, <2>2, <2>3, <2>5, <3>1, <3>2, Zenon DEF Taken
  <2>. QED BY <2>4, <2>5
<1>. QED BY <1>1, <1>2, <1>7, <1>8, Zenon
-----------------------------------------------------------------------------
LEMMA MinOfTwo ==
  ASSUME NEW a \in Nat, NEW b \in Nat
  PROVE  Min({a, b}) = IF a <= b THEN a ELSE b
<1>1. PICK x \in {a, b} : \A y \in {a, b} : x <= y
  OBVIOUS
<1>2. \A z \in {a, b} : (\A y \in {a, b} : z <= y) => z = IF a <= b THEN a ELSE b
  OBVIOUS
<1>. QED BY <1>1, <1>2 DEF Min

(* The reader's buffer begins with chunk k: as much of it as has arrived *)
Starts(k) ==
  /\ buf \in Seq(Cell)
  /\ \A x \in 1 .. Len(k) : x <= Len(buf) => buf[x] = k[x]
  /\ Len(buf) > Len(k) => buf[Len(k) + 1].is = "basic"

LEMMA ShapeRanges ==
  ASSUME NEW m \in SentMessage, NEW j \in 1 .. Parts(m)
  PROVE  /\ FormatOf(m, j) \in 0 .. 3 /\ Fields(FormatOf(m, j)) \in 0 .. 4 /\ Ids(m.csid) \in 0 .. 2
         /\ FieldsAt(m) \in Nat /\ FieldsAt(m) >= 2 /\ FieldsAt(m) = 2 + Ids(m.csid)
         /\ AfterFields(m, j) = FieldsAt(m) + Fields(FormatOf(m, j)) /\ AfterFields(m, j) \in Nat
         /\ DataAt(m, j) = AfterFields(m, j) + (IF Extended(m) THEN 1 ELSE 0) /\ DataAt(m, j) \in Nat
         /\ Units(m, j) \in Nat /\ Left(m, j) \in Nat /\ m.csid \in Csids
         /\ FormatOf(m, j) # 3 => Fields(FormatOf(m, j)) >= 1
         /\ FormatOf(m, j) \in {0, 1} => Fields(FormatOf(m, j)) >= 3
         /\ FormatOf(m, j) = 0 => Fields(FormatOf(m, j)) = 4
<1>1. m.fmt \in 0 .. 3 /\ m.csid \in Csids /\ Large \in Nat
  BY ChunkConstants DEF SentMessage
<1>2. PICK f \in 0 .. 3 : f = FormatOf(m, j)
  BY <1>1 DEF FormatOf
<1>3. Fields(f) \in 0 .. 4 /\ (f # 3 => Fields(f) >= 1) /\ (f \in {0, 1} => Fields(f) >= 3) /\ (f = 0 => Fields(f) = 4)
  BY DEF Fields
<1>4. Ids(m.csid) \in 0 .. 2
  BY DEF Ids
<1>5. Left(m, j) \in Nat /\ Units(m, j) \in Nat
  BY <1>1, PartsFacts DEF Units
<1>6. FieldsAt(m) = 2 + Ids(m.csid) /\ AfterFields(m, j) = FieldsAt(m) + Fields(f)
      /\ DataAt(m, j) = AfterFields(m, j) + (IF Extended(m) THEN 1 ELSE 0)
  BY <1>2 DEF FieldsAt, AfterFields, DataAt
<1>. QED BY <1>1, <1>2, <1>3, <1>4, <1>5, <1>6

(* What the reader finds when a whole header is there *)
HeaderSeen(m, j, k) ==
  LET f  == FormatOf(m, j)
      at == FieldsAt(m)
      body == AfterFields(m, j)
  IN  /\ buf[1].fmt = f /\ CsidIn(buf[1]) = m.csid /\ 2 + IdCells(buf[1]) = at /\ at + Fields(f) = body
      /\ Len(buf) + 1 >= body /\ Len(buf) \in Nat
      /\ f # 3 => buf[at].v = Field(m)
      /\ f \in {0, 1} => buf[at + 1].v = m.len /\ buf[at + 2].v = m.type
      /\ f = 0 => buf[at + 3].v = m.sid
      /\ Extended(m) /\ Len(buf) >= body => buf[body].is = "ext" /\ buf[body].v = m.value
      /\ ~Extended(m) /\ Len(buf) >= body => buf[body].is # "ext"
      /\ \A x \in DataAt(m, j) .. Len(k) : x <= Len(buf) => buf[x].is = "data"
      /\ Len(buf) > Len(k) => buf[Len(k) + 1].is = "basic"

LEMMA HeaderRead ==
  ASSUME NEW m \in SentMessage, NEW j \in 1 .. Parts(m), NEW k, k = Chunk(m, j), Starts(k), ~NeedsHeader
  PROVE  HeaderSeen(m, j, k)
<1>1. ShapeOf(k, m, j)
  BY ChunkFacts
<1>2. PICK n, i, f, y, at, body, data, u :
        /\ n \in Nat /\ n = Len(buf) /\ i = Ids(m.csid) /\ f = FormatOf(m, j) /\ y = Fields(f)
        /\ at = FieldsAt(m) /\ body = AfterFields(m, j) /\ data = DataAt(m, j) /\ u = Units(m, j)
  BY DEF Starts
<1>. n \in Nat
  BY <1>2
<1>3. /\ f \in 0 .. 3 /\ y \in 0 .. 4 /\ i \in 0 .. 2 /\ at = 2 + i /\ body = at + y
      /\ data = body + (IF Extended(m) THEN 1 ELSE 0) /\ u \in Nat
      /\ (f # 3 => y >= 1) /\ (f \in {0, 1} => y >= 3) /\ (f = 0 => y = 4)
  BY <1>2, ShapeRanges
<1>4. /\ k \in Seq(Cell) /\ Len(k) = data - 1 + u /\ k[1].is = "basic" /\ k[1].fmt = f /\ IdCells(k[1]) = i
      /\ i = 0 => k[1].low = m.csid /\ m.csid # 0 /\ m.csid # 1
      /\ i = 1 => k[1].low = 0 /\ 64 + k[2].v = m.csid
      /\ i = 2 => k[1].low = 1 /\ 64 + k[2].v + 256 * k[3].v = m.csid
      /\ f # 3 => k[at].v = Field(m)
      /\ f \in {0, 1} => k[at + 1].v = m.len /\ k[at + 2].v = m.type
      /\ f = 0 => k[at + 3].v = m.sid
      /\ Extended(m) => k[body].is = "ext" /\ k[body].v = m.value
      /\ \A x \in data .. Len(k) : k[x].is = "data"
  BY <1>1, <1>2, Zenon DEF ShapeOf
<1>5. \A x \in 1 .. Len(k) : x <= n => buf[x] = k[x]
  BY <1>2 DEF Starts
<1>6. n > 1
  BY <1>2 DEF NeedsHeader
<1>7. PICK l \in Nat : l = Len(k) /\ l = data - 1 + u /\ l >= body - 1
  BY <1>3, <1>4
<1>8. buf[1] = k[1]
  BY <1>3, <1>5, <1>6, <1>7
<1>9. n > 1 + i /\ n >= 1 + i + y
  <2>1. IdCells(buf[1]) = i /\ Fields(buf[1].fmt) = y
    BY <1>2, <1>4, <1>8
  <2>. QED BY <1>2, <1>3, <1>6, <2>1 DEF NeedsHeader
<1>10. \A x \in 1 .. body - 1 : buf[x] = k[x]
  BY <1>3, <1>5, <1>7, <1>9
<1>11. (i >= 1 => buf[2] = k[2]) /\ (i = 2 => buf[3] = k[3])
  BY <1>3, <1>10
<1>12. CsidIn(buf[1]) = m.csid
  <2>1. CASE i = 0
    BY SMTT(20), <1>4, <1>8, <2>1, Zenon DEF CsidIn
  <2>2. CASE i = 1
    BY <1>4, <1>8, <1>11, <2>2 DEF CsidIn
  <2>3. CASE i = 2
    <3>1. buf[1].low = 1 /\ 64 + buf[2].v + 256 * buf[3].v = m.csid
      BY <1>4, <1>8, <1>11, <2>3
    <3>. QED BY <3>1 DEF CsidIn
  <2>. QED BY <1>3, <2>1, <2>2, <2>3
<1>13. /\ f # 3 => buf[at] = k[at]
       /\ f \in {0, 1} => buf[at + 1] = k[at + 1] /\ buf[at + 2] = k[at + 2]
       /\ f = 0 => buf[at + 3] = k[at + 3]
  BY <1>3, <1>10
<1>14. n >= body /\ l >= body => buf[body] = k[body]
  BY <1>3, <1>5, <1>7
<1>15. n > l => buf[l + 1].is = "basic"
  BY <1>2, <1>7 DEF Starts
<1>16. \A x \in data .. Len(k) : x <= n => buf[x].is = "data"
  <2>1. \A x \in data .. Len(k) : x \in 1 .. Len(k)
    BY <1>3, <1>7
  <2>. QED BY <1>4, <1>5, <2>1
<1>17. Extended(m) /\ n >= body => buf[body].is = "ext" /\ buf[body].v = m.value
  <2>1. Extended(m) => l >= body
    BY <1>3, <1>7
  <2>. QED BY <1>4, <1>14, <2>1
<1>18. ~Extended(m) /\ n >= body => buf[body].is # "ext"
  <2>1. ASSUME ~Extended(m), n >= body PROVE buf[body].is # "ext"
    <3>1. data = body
      BY <1>3, <2>1
    <3>2. CASE l >= body
      BY <1>3, <1>7, <1>16, <2>1, <3>1, <3>2
    <3>3. CASE ~(l >= body)
      <4>1. l + 1 = body
        BY <1>3, <1>7, <3>3
      <4>. QED BY <1>15, <2>1, <3>3, <1>3, <1>7, <4>1
    <3>. QED BY <3>2, <3>3
  <2>. QED BY <2>1
<1>19. buf[1].fmt = f /\ 2 + IdCells(buf[1]) = at /\ at + Fields(f) = body /\ n + 1 >= body
  BY SMTT(20), <1>2, <1>3, <1>4, <1>8, <1>9
<1>20. /\ f # 3 => buf[at].v = Field(m)
       /\ f \in {0, 1} => buf[at + 1].v = m.len /\ buf[at + 2].v = m.type
       /\ f = 0 => buf[at + 3].v = m.sid
  BY <1>4, <1>13, Zenon
<1>. QED BY <1>2, <1>7, <1>12, <1>15, <1>16, <1>17, <1>18, <1>19, <1>20, Zenon DEF HeaderSeen
-----------------------------------------------------------------------------
(* Types of the reader *)
HeaderType == [len : Nat, type : Nat, sid : Nat, ts : Nat, set : BOOLEAN]
PacketType == [open : BOOLEAN, space : Nat, ts : Nat]

ReaderTypes ==
  /\ inPrev \in [Csids -> HeaderType] /\ inPacket \in [Csids -> PacketType]
  /\ inDelta \in [Csids -> Nat] /\ inExt \in [Csids -> BOOLEAN]
  /\ received \in [Csids -> Seq(HeaderType)]
  /\ inChunk \in {Small, Large} /\ lost \in BOOLEAN /\ waiting \in BOOLEAN

LEMMA SwapType ==
  ASSUME NEW v \in Nat
  PROVE  Swap(v) \in Nat
<1>1. Radix \in Nat /\ Radix > 0
  BY ChunkConstants
<1>2. PICK q, r : q = v % Radix /\ r = v \div Radix
  OBVIOUS
<1>3. q \in Nat /\ r \in Nat
  BY <1>1, <1>2
<1>4. q * Radix \in Nat
  BY <1>1, <1>3
<1>. QED BY <1>2, <1>3, <1>4 DEF Swap

(* A whole header is there, and these are its parts                        *)
Reading(m, q, k, c, f, at, body, packet, ext, full, value, ts, first, bytes, whole, header) ==
  /\ m \in SentMessage /\ q \in 1 .. Parts(m) /\ k = Chunk(m, q) /\ HeaderSeen(m, q, k) /\ ReaderTypes
  /\ c = m.csid /\ f = FormatOf(m, q) /\ at = FieldsAt(m) /\ body = AfterFields(m, q)
  /\ Outcome(f, c, at, body, packet, ext, full, value, ts, first, bytes, whole, header)

LEMMA OutcomeTypes ==
  ASSUME NEW m, NEW j, NEW k, NEW c, NEW f, NEW at, NEW body,
         NEW packet, NEW ext, NEW full, NEW value, NEW ts, NEW first, NEW bytes, NEW whole, NEW header,
         Reading(m, j, k, c, f, at, body, packet, ext, full, value, ts, first, bytes, whole, header)
  PROVE  /\ packet \in PacketType /\ packet.open /\ ext \in BOOLEAN /\ full \in BOOLEAN /\ whole \in BOOLEAN
         /\ value \in Nat /\ ts \in Nat /\ first \in Nat /\ first >= 2
         /\ bytes \in Nat /\ bytes <= packet.space
         /\ bytes = IF packet.space <= inChunk THEN packet.space ELSE inChunk
         /\ header \in HeaderType /\ HeaderDelta(f, c, at) \in Nat /\ inChunk \in Nat /\ inChunk > 0
<1>. /\ m \in SentMessage /\ j \in 1 .. Parts(m) /\ HeaderSeen(m, j, k) /\ ReaderTypes
     /\ c = m.csid /\ f = FormatOf(m, j) /\ at = FieldsAt(m) /\ body = AfterFields(m, j)
     /\ Outcome(f, c, at, body, packet, ext, full, value, ts, first, bytes, whole, header)
  BY Zenon DEF Reading
<1>1. /\ f \in 0 .. 3 /\ c \in Csids /\ at \in Nat /\ body \in Nat /\ body >= 2
      /\ m.len \in Nat /\ m.type \in Nat /\ m.sid \in Nat /\ m.value \in Nat
  BY ShapeRanges DEF SentMessage
<1>2. Field(m) \in Nat
  BY <1>1, ChunkConstants DEF Field
<1>3. /\ f # 3 => buf[at].v \in Nat
      /\ f \in {0, 1} => buf[at + 1].v \in Nat /\ buf[at + 2].v \in Nat
      /\ f = 0 => buf[at + 3].v \in Nat
      /\ Len(buf) \in Nat
  BY <1>1, <1>2 DEF HeaderSeen
<1>4. /\ inPrev[c] \in HeaderType /\ inPacket[c] \in PacketType /\ inDelta[c] \in Nat /\ inExt[c] \in BOOLEAN
      /\ inChunk \in Nat /\ inChunk > 0
  BY <1>1, ChunkConstants DEF ReaderTypes
<1>5. HeaderLen(f, c, at) \in Nat
  BY <1>1, <1>3, <1>4 DEF HeaderLen, HeaderType
<1>6. packet \in PacketType /\ packet.open
  BY <1>4, <1>5 DEF Outcome, PacketType
<1>7. ext \in BOOLEAN /\ full \in BOOLEAN /\ whole \in BOOLEAN
  <2>1. /\ ext = HasExt(f, c, at) /\ full = (Len(buf) >= body)
        /\ whole = ((ext => full) /\ Len(buf) - first + 1 >= bytes)
    BY Zenon DEF Outcome
  <2>2. HasExt(f, c, at) \in BOOLEAN
    BY <1>4 DEF HasExt
  <2>. QED BY <2>1, <2>2
<1>8. HeaderTs(f, c, at, packet.ts) \in Nat
  <2>1. packet.ts \in Nat /\ inPrev[c].ts \in Nat
    BY <1>4, <1>6 DEF PacketType, HeaderType
  <2>2. CASE f = 0
    BY <1>3, <2>2 DEF HeaderTs
  <2>3. CASE f \in {1, 2}
    BY SMTT(20), <1>3, <2>1, <2>3 DEF HeaderTs
  <2>4. CASE f = 3
    BY <1>4, <2>1, <2>4 DEF HeaderTs
  <2>. QED BY <1>1, <2>2, <2>3, <2>4
<1>9. HeaderDelta(f, c, at) \in Nat
  <2>1. CASE f = 0
    BY <2>1 DEF HeaderDelta
  <2>2. CASE f \in {1, 2}
    BY <1>3, <2>2 DEF HeaderDelta
  <2>3. CASE f = 3
    BY <1>4, <2>3 DEF HeaderDelta
  <2>. QED BY <1>1, <2>1, <2>2, <2>3
<1>10. value \in Nat
  <2>1. ASSUME ext, full, buf[body].is = "ext" PROVE buf[body].v \in Nat
    <3>1. Len(buf) >= body
      BY <2>1 DEF Outcome
    <3>2. Extended(m)
      BY <2>1, <3>1 DEF HeaderSeen
    <3>. QED BY <1>1, <3>1, <3>2 DEF HeaderSeen
  <2>. QED BY <2>1, SwapType DEF Outcome
<1>11. ts \in Nat
  <2>1. ts = (IF ext /\ full /\ f # 0 THEN value + inPrev[c].ts ELSE HeaderTs(f, c, at, packet.ts))
    BY Zenon DEF Outcome
  <2>2. inPrev[c].ts \in Nat
    BY <1>4 DEF HeaderType
  <2>. QED BY <1>8, <1>10, <2>1, <2>2
<1>12. first \in Nat /\ first >= 2
  <2>1. first = (IF ext THEN body + 1 ELSE body)
    BY Zenon DEF Outcome
  <2>. QED BY <1>1, <2>1
<1>13. packet.space \in Nat
  BY <1>6 DEF PacketType
<1>14. bytes = IF packet.space <= inChunk THEN packet.space ELSE inChunk
  BY <1>4, <1>13, MinOfTwo DEF Outcome
<1>15. header \in HeaderType
  <2>1. /\ inPrev[c].len \in Nat /\ inPrev[c].type \in Nat /\ inPrev[c].sid \in Nat
    BY <1>4 DEF HeaderType
  <2>. QED BY <1>3, <1>11, <2>1 DEF Outcome, HeaderType
<1>. QED BY <1>4, <1>6, <1>7, <1>9, <1>10, <1>11, <1>12, <1>13, <1>14, <1>15
-----------------------------------------------------------------------------
(* How messages follow each other on a chunk stream *)
GoodMessage(s, i) ==
  /\ s[i].fmt = 0 => s[i].ts = s[i].value /\ s[i].delta = 0
  /\ s[i].fmt # 0 => i > 1 /\ s[i].sid = s[i - 1].sid /\ s[i].ts = s[i - 1].ts + s[i].value
  /\ s[i].fmt \in {2, 3} => s[i].len = s[i - 1].len /\ s[i].type = s[i - 1].type
  /\ s[i].fmt \in {1, 2} => s[i].delta = s[i].value
  /\ s[i].fmt = 3 => s[i].delta = s[i].value /\ s[i].delta = s[i - 1].delta
  /\ s[i].ts = 0 => s[i].delta = 0

(* A header says what was sent *)
Matches(h, s, x) ==
  /\ h.len = s[x].len /\ h.type = s[x].type /\ h.sid = s[x].sid
  /\ Exact(s, x) => h.ts = s[x].ts

(* v, p, e, d: what the reader keeps of a chunk stream, in inPrev,         *)
(* inPacket, inExt and inDelta                                             *)

(* The reader stands before the first chunk of message i, and has not yet  *)
(* looked at it                                                            *)
Fresh(p, e, d, s, i) ==
  /\ p = NoPacket
  /\ i > 1 => e = Extended(s[i - 1]) /\ (Exact(s, i - 1) => d = s[i - 1].delta)

(* It has looked at it, and there was not enough                           *)
Tried(p, e, d, s, i) ==
  /\ i <= Len(s) /\ p.open
  /\ IF s[i].len = 0 /\ s[i].fmt \in {2, 3} THEN p.space > 0 ELSE p.space = s[i].len
  /\ e = IF s[i].fmt = 3 THEN Extended(s[i - 1]) ELSE Extended(s[i])
  /\ ~Ambiguous(s, i) /\ Exact(s, i) => p.ts = s[i].ts /\ d = s[i].delta

(* j chunks of message i have been read                                    *)
Within(v, p, e, d, s, i, j) ==
  /\ i <= Len(s) /\ j < Parts(s[i]) /\ ~Ambiguous(s, i)
  /\ Matches(v, s, i)
  /\ p.open /\ p.space = Left(s[i], j + 1) /\ e = Extended(s[i])
  /\ Exact(s, i) => p.ts = s[i].ts /\ d = s[i].delta

StandsAt(v, p, e, d, s, i, j) ==
  \/ /\ j = 0 /\ (i > 1 => Matches(v, s, i - 1))
     /\ Fresh(p, e, d, s, i) \/ Tried(p, e, d, s, i)
  \/ j > 0 /\ Within(v, p, e, d, s, i, j)

LEMMA ExactBefore ==
  ASSUME NEW s \in Seq(SentMessage), NEW i \in 1 .. Len(s), Exact(s, i)
  PROVE  /\ ~Extended(s[i])
         /\ s[i].fmt # 0 /\ i > 1 => Exact(s, i - 1)
<1>1. PICK k \in 1 .. i : s[k].fmt = 0 /\ \A x \in k .. i : ~Extended(s[x])
  BY DEF Exact
<1>2. ~Extended(s[i])
  BY <1>1
<1>3. ASSUME s[i].fmt # 0, i > 1 PROVE Exact(s, i - 1)
  <2>1. k \in 1 .. i - 1
    BY <1>1, <1>3
  <2>2. \A x \in k .. i - 1 : x \in k .. i
    BY <2>1
  <2>. QED BY <1>1, <2>1, <2>2 DEF Exact
<1>. QED BY <1>2, <1>3
-----------------------------------------------------------------------------
(* The reader stands at part j + 1 of message i of s, whose header is there *)
Judging(s, i, j, m, q, k, c, f, at, body, packet, ext, full, value, ts, first, bytes, whole, header) ==
  /\ s \in Seq(SentMessage) /\ i \in 1 .. Len(s) /\ j \in Nat /\ m = s[i] /\ q = j + 1
  /\ GoodMessage(s, i) /\ (m.len <= Small \/ inChunk = Large)
  /\ Reading(m, q, k, c, f, at, body, packet, ext, full, value, ts, first, bytes, whole, header)
  /\ StandsAt(inPrev[c], inPacket[c], inExt[c], inDelta[c], s, i, j)

(* What it finds when the chunk is not ambiguous *)
FindsIt(s, i, m, q, k, c, f, at, body, packet, ext, full, ts, first, bytes, whole, header) ==
  /\ packet.space = Left(m, q) /\ (ext <=> Extended(m))
  /\ bytes = Units(m, q) /\ first = DataAt(m, q)
  /\ whole <=> Len(buf) >= Len(k)
  /\ ~(ext /\ full /\ buf[body].is # "ext")
  /\ whole => Are("data", first, bytes)
  /\ Exact(s, i) => ts = m.ts /\ HeaderDelta(f, c, at) = m.delta
  /\ Matches(header, s, i)

(* What it finds when it is *)
FindsOther(s, i, m, c, body, packet, ext, full, first, bytes, whole) ==
  /\ IF m.len = 0 /\ m.fmt \in {2, 3} THEN packet.space > 0 ELSE packet.space = m.len
  /\ ext <=> IF m.fmt = 3 THEN Extended(s[i - 1]) ELSE Extended(m)
  /\ whole => (ext /\ full /\ buf[body].is # "ext") \/ ~Are("data", first, bytes)
  /\ i > 1 => Matches(inPrev[c], s, i - 1)


(* A chunk that is not ambiguous is understood                             *)
LEMMA Understood ==
  ASSUME NEW s, NEW i, NEW j, NEW m, NEW q, NEW k, NEW c, NEW f, NEW at, NEW body,
         NEW packet, NEW ext, NEW full, NEW value, NEW ts, NEW first, NEW bytes, NEW whole, NEW header,
         Judging(s, i, j, m, q, k, c, f, at, body, packet, ext, full, value, ts, first, bytes, whole, header),
         ~Ambiguous(s, i)
  PROVE  FindsIt(s, i, m, q, k, c, f, at, body, packet, ext, full, ts, first, bytes, whole, header)
<1>. /\ s \in Seq(SentMessage) /\ i \in 1 .. Len(s) /\ j \in Nat /\ m = s[i] /\ q = j + 1
     /\ GoodMessage(s, i) /\ (m.len <= Small \/ inChunk = Large)
     /\ Reading(m, q, k, c, f, at, body, packet, ext, full, value, ts, first, bytes, whole, header)
     /\ StandsAt(inPrev[c], inPacket[c], inExt[c], inDelta[c], s, i, j)
  BY Zenon DEF Judging
<1>a. /\ m \in SentMessage /\ q \in 1 .. Parts(m) /\ k = Chunk(m, q)
      /\ c = m.csid /\ f = FormatOf(m, q) /\ at = FieldsAt(m) /\ body = AfterFields(m, q)
  BY Zenon DEF Reading
<1>b. Outcome(f, c, at, body, packet, ext, full, value, ts, first, bytes, whole, header)
  BY Zenon DEF Reading
<1>c. HeaderSeen(m, q, k)
  BY Zenon DEF Reading
<1>d. ReaderTypes
  BY Zenon DEF Reading
<1>1. m \in SentMessage /\ Len(s) \in Nat /\ q \in Nat
  BY <1>a
<1>2. /\ m.csid \in Csids /\ m.fmt \in 0 .. 3 /\ m.value \in Nat /\ m.len \in Nat /\ m.ts \in Nat /\ m.delta \in Nat
      /\ m.type \in Nat /\ m.sid \in Nat /\ Mark \in Nat
  <2>1. Mark \in Nat
    BY ChunkConstants
  <2>. QED BY <1>a, <2>1 DEF SentMessage
<1>3. /\ f \in 0 .. 3 /\ at \in Nat /\ body \in Nat /\ body >= 2 /\ DataAt(m, q) \in Nat
      /\ DataAt(m, q) = body + (IF Extended(m) THEN 1 ELSE 0)
      /\ Units(m, q) \in Nat /\ Left(m, q) \in Nat
  <2>1. /\ FormatOf(m, q) \in 0 .. 3 /\ Fields(FormatOf(m, q)) \in 0 .. 4 /\ Ids(m.csid) \in 0 .. 2
        /\ FieldsAt(m) \in Nat /\ FieldsAt(m) >= 2
        /\ AfterFields(m, q) = FieldsAt(m) + Fields(FormatOf(m, q)) /\ AfterFields(m, q) \in Nat
        /\ DataAt(m, q) = AfterFields(m, q) + (IF Extended(m) THEN 1 ELSE 0) /\ DataAt(m, q) \in Nat
        /\ Units(m, q) \in Nat /\ Left(m, q) \in Nat
    BY <1>a, ShapeRanges
  <2>. QED BY SMTT(20), <1>a, <2>1
<1>4. /\ packet \in PacketType /\ packet.open /\ ext \in BOOLEAN /\ full \in BOOLEAN /\ whole \in BOOLEAN
      /\ first \in Nat /\ bytes \in Nat
      /\ bytes = IF packet.space <= inChunk THEN packet.space ELSE inChunk
      /\ inChunk \in Nat /\ inChunk > 0
  BY OutcomeTypes
<1>5. /\ ext = HasExt(f, c, at) /\ full = (Len(buf) >= body)
      /\ packet = (IF inPacket[c].open THEN inPacket[c]
                   ELSE [open |-> TRUE, space |-> HeaderLen(f, c, at), ts |-> 0])
      /\ ts = (IF ext /\ full /\ f # 0 THEN value + inPrev[c].ts ELSE HeaderTs(f, c, at, packet.ts))
      /\ first = (IF ext THEN body + 1 ELSE body)
      /\ whole = ((ext => full) /\ Len(buf) - first + 1 >= bytes)
  BY <1>b, Zenon DEF Outcome
<1>6. /\ f # 3 => buf[at].v = Field(m)
      /\ f \in {0, 1} => buf[at + 1].v = m.len /\ buf[at + 2].v = m.type
      /\ f = 0 => buf[at + 3].v = m.sid
      /\ Extended(m) /\ Len(buf) >= body => buf[body].is = "ext"
      /\ \A x \in DataAt(m, q) .. Len(k) : x <= Len(buf) => buf[x].is = "data"
      /\ Len(buf) \in Nat
  BY <1>a, <1>c, Zenon DEF HeaderSeen
<1>7. /\ j = 0 => f = m.fmt
      /\ j > 0 => f = 3
  BY <1>a DEF FormatOf
<1>8. /\ m.fmt = 0 => m.ts = m.value /\ m.delta = 0
      /\ m.fmt # 0 => i > 1 /\ m.sid = s[i - 1].sid /\ m.ts = s[i - 1].ts + m.value
      /\ m.fmt \in {2, 3} => m.len = s[i - 1].len /\ m.type = s[i - 1].type
      /\ m.fmt \in {1, 2} => m.delta = m.value
      /\ m.fmt = 3 => m.delta = m.value /\ m.delta = s[i - 1].delta
      /\ m.ts = 0 => m.delta = 0
  BY Zenon DEF GoodMessage
<1>9. /\ m.fmt \in {2, 3} => m.len # 0
      /\ m.fmt = 3 => (Extended(m) <=> Extended(s[i - 1]))
  BY DEF Ambiguous
<1>10. i > 1 => s[i - 1] \in SentMessage /\ s[i - 1].ts \in Nat /\ s[i - 1].delta \in Nat
  <2>1. i > 1 => i - 1 \in 1 .. Len(s)
    BY <1>1
  <2>2. i > 1 => s[i - 1] \in SentMessage
    BY <2>1
  <2>. QED BY <2>2 DEF SentMessage
<1>11. /\ Left(m, 1) = m.len /\ j < Parts(m)
  <2>1. Parts(m) \in Nat /\ Left(m, 1) = m.len
    BY <1>1, PartsFacts
  <2>. QED BY <1>a, <2>1
<1>12. /\ packet.space = Left(m, q)
       /\ f = 3 => (inExt[c] <=> Extended(m))
       /\ f \in {2, 3} => inPrev[c].len = m.len /\ inPrev[c].type = m.type
       /\ f # 0 => inPrev[c].sid = m.sid
       /\ Exact(s, i) /\ f \in {1, 2} => f = m.fmt /\ inPrev[c].ts = s[i - 1].ts
       /\ Exact(s, i) /\ f = 3 => HeaderTs(f, c, at, packet.ts) = m.ts /\ HeaderDelta(f, c, at) = m.delta
       /\ f = 0 => f = m.fmt
       /\ f \in {0, 1, 2, 3}
  <2>1. CASE j = 0 /\ Fresh(inPacket[c], inExt[c], inDelta[c], s, i) /\ (i > 1 => Matches(inPrev[c], s, i - 1))
    <3>1. inPacket[c] = NoPacket /\ ~inPacket[c].open
      BY <2>1 DEF Fresh, NoPacket
    <3>2. packet.space = HeaderLen(f, c, at) /\ packet.ts = 0
      BY <1>5, <3>1
    <3>3. f = m.fmt /\ f \in {0, 1, 2, 3}
      BY <1>3, <1>7, <2>1
    <3>4. f \in {2, 3} => i > 1 /\ inPrev[c].len = m.len /\ inPrev[c].type = m.type
      BY <1>8, <2>1, <3>3 DEF Matches
    <3>5. f # 0 => i > 1 /\ inPrev[c].sid = m.sid
      BY <1>8, <2>1, <3>3 DEF Matches
    <3>6. HeaderLen(f, c, at) = m.len
      <4>1. CASE f \in {0, 1}
        BY <1>6, <4>1 DEF HeaderLen
      <4>2. CASE f \in {2, 3}
        BY <1>9, <3>3, <3>4, <4>2 DEF HeaderLen
      <4>. QED BY <3>3, <4>1, <4>2
    <3>7. f = 3 => (inExt[c] <=> Extended(m))
      <4>1. ASSUME f = 3 PROVE inExt[c] <=> Extended(m)
        <5>1. inExt[c] = Extended(s[i - 1])
          BY <2>1, <3>5, <4>1 DEF Fresh
        <5>. QED BY <1>9, <3>3, <4>1, <5>1
      <4>. QED BY <4>1
    <3>8. ASSUME Exact(s, i), f # 0
          PROVE  /\ inPrev[c].ts = s[i - 1].ts /\ inDelta[c] = s[i - 1].delta
      <4>1. Exact(s, i - 1)
        BY <3>3, <3>5, <3>8, ExactBefore
      <4>. QED BY <2>1, <3>5, <3>8, <4>1 DEF Fresh, Matches
    <3>9. f = 3 => (Exact(s, i) => HeaderTs(f, c, at, packet.ts) = m.ts /\ HeaderDelta(f, c, at) = m.delta)
      <4>1. ASSUME f = 3, Exact(s, i) PROVE HeaderTs(f, c, at, packet.ts) = m.ts /\ HeaderDelta(f, c, at) = m.delta
        <5>1. HeaderTs(f, c, at, packet.ts) = inDelta[c] + inPrev[c].ts /\ HeaderDelta(f, c, at) = inDelta[c]
          BY <3>2, <4>1 DEF HeaderTs, HeaderDelta
        <5>2. m.ts = s[i - 1].ts + m.value /\ m.delta = m.value /\ m.delta = s[i - 1].delta /\ i > 1
          BY <1>8, <3>3, <4>1
        <5>. QED BY <1>2, <1>10, <3>8, <4>1, <5>1, <5>2
      <4>. QED BY <4>1
    <3>10. f \in {1, 2} => (Exact(s, i) => inPrev[c].ts = s[i - 1].ts)
      BY <3>8
    <3>11. f \in {2, 3} => inPrev[c].len = m.len /\ inPrev[c].type = m.type
      BY <3>4
    <3>. QED BY <1>11, <2>1, <3>2, <3>3, <3>5, <3>6, <3>7, <3>9, <3>10, <3>11
  <2>2. CASE j = 0 /\ Tried(inPacket[c], inExt[c], inDelta[c], s, i) /\ (i > 1 => Matches(inPrev[c], s, i - 1))
    <3>1. inPacket[c].open /\ packet = inPacket[c]
      BY <1>5, <2>2 DEF Tried
    <3>2. packet.space = m.len
      BY <1>9, <2>2, <3>1 DEF Tried
    <3>3. f = m.fmt /\ f \in {0, 1, 2, 3}
      BY <1>3, <1>7, <2>2
    <3>4. f \in {2, 3} => i > 1 /\ inPrev[c].len = m.len /\ inPrev[c].type = m.type
      BY <1>8, <2>2, <3>3 DEF Matches
    <3>5. f # 0 => i > 1 /\ inPrev[c].sid = m.sid
      BY <1>8, <2>2, <3>3 DEF Matches
    <3>6. f = 3 => (inExt[c] <=> Extended(m))
      BY <1>9, <2>2, <3>3 DEF Tried
    <3>7. ASSUME Exact(s, i), f # 0 PROVE inPrev[c].ts = s[i - 1].ts
      <4>1. Exact(s, i - 1)
        BY <3>3, <3>5, <3>7, ExactBefore
      <4>. QED BY <2>2, <3>5, <3>7, <4>1 DEF Matches
    <3>8. ASSUME Exact(s, i), f = 3 PROVE HeaderTs(f, c, at, packet.ts) = m.ts /\ HeaderDelta(f, c, at) = m.delta
      <4>1. packet.ts = m.ts /\ inDelta[c] = m.delta
        BY <2>2, <3>1, <3>8 DEF Tried
      <4>2. HeaderTs(f, c, at, packet.ts) = (IF m.ts = 0 THEN m.delta + s[i - 1].ts ELSE m.ts) /\ HeaderDelta(f, c, at) = m.delta
        BY <3>7, <3>8, <4>1 DEF HeaderTs, HeaderDelta
      <4>3. m.ts = s[i - 1].ts + m.value /\ s[i - 1].ts \in Nat /\ (m.ts = 0 => m.delta = 0)
        BY <1>8, <1>10, <3>3, <3>5, <3>8
      <4>. QED BY <1>2, <4>2, <4>3
    <3>9. f \in {1, 2} => (Exact(s, i) => inPrev[c].ts = s[i - 1].ts)
      BY <3>7
    <3>. QED BY <1>11, <2>2, <3>2, <3>3, <3>4, <3>5, <3>6, <3>8, <3>9
  <2>3. CASE j > 0 /\ Within(inPrev[c], inPacket[c], inExt[c], inDelta[c], s, i, j)
    <3>1. inPacket[c].open /\ packet = inPacket[c]
      BY <1>5, <2>3 DEF Within
    <3>2. packet.space = Left(m, q) /\ (inExt[c] <=> Extended(m))
      BY <2>3, <3>1 DEF Within
    <3>3. f = 3
      BY <1>7, <2>3
    <3>4. /\ inPrev[c].len = m.len /\ inPrev[c].type = m.type /\ inPrev[c].sid = m.sid
          /\ Exact(s, i) => inPrev[c].ts = m.ts
      BY <2>3 DEF Within, Matches
    <3>5. ASSUME Exact(s, i) PROVE HeaderTs(f, c, at, packet.ts) = m.ts /\ HeaderDelta(f, c, at) = m.delta
      <4>1. packet.ts = m.ts /\ inDelta[c] = m.delta
        BY <2>3, <3>1, <3>5 DEF Within
      <4>2. HeaderTs(f, c, at, packet.ts) = (IF m.ts = 0 THEN m.delta + m.ts ELSE m.ts) /\ HeaderDelta(f, c, at) = m.delta
        BY <3>3, <3>4, <3>5, <4>1 DEF HeaderTs, HeaderDelta
      <4>. QED BY <1>2, <1>8, <4>2
    <3>. QED BY <3>2, <3>3, <3>4, <3>5
  <2>. QED BY <2>1, <2>2, <2>3 DEF StandsAt
<1>13. ext <=> Extended(m)
  <2>1. CASE f = 3
    BY <1>4, <1>5, <1>12, <2>1 DEF HasExt
  <2>2. CASE f # 3
    <3>1. Field(m) = Mark <=> Extended(m)
      BY <1>2 DEF Field, Extended
    <3>2. HasExt(f, c, at) <=> buf[at].v = Mark
      BY <2>2 DEF HasExt
    <3>. QED BY <1>4, <1>5, <1>6, <2>2, <3>1, <3>2
  <2>. QED BY <2>1, <2>2
<1>14. first = DataAt(m, q)
  <2>1. DataAt(m, q) = body + (IF Extended(m) THEN 1 ELSE 0) /\ body \in Nat
    BY <1>3
  <2>2. first = (IF ext THEN body + 1 ELSE body)
    BY <1>5
  <2>3. CASE Extended(m)
    BY <1>13, <2>1, <2>2, <2>3
  <2>4. CASE ~Extended(m)
    BY <1>13, <2>1, <2>2, <2>4
  <2>. QED BY <2>3, <2>4
<1>15. bytes = Units(m, q)
  <2>1. Small \in Nat /\ Large \in Nat /\ Small <= Large /\ inChunk \in {Small, Large}
    BY <1>d, ChunkConstants DEF ReaderTypes
  <2>2. Left(m, q) <= m.len
    <3>1. PICK y \in Int : y = j * Large
      BY <2>1
    <3>2. y >= 0
      BY <2>1, <3>1
    <3>3. (j + 1) - 1 = j
      OBVIOUS
    <3>. QED BY <1>2, <3>1, <3>2, <3>3 DEF Left
  <2>3. bytes = IF Left(m, q) <= inChunk THEN Left(m, q) ELSE inChunk
    BY <1>4, <1>12
  <2>4. PICK e : e = Left(m, q)
    OBVIOUS
  <2>5. e \in Nat /\ m.len \in Nat
    BY <1>2, <1>3, <2>4
  <2>6. e <= m.len /\ bytes = IF e <= inChunk THEN e ELSE inChunk
    BY <2>2, <2>3, <2>4
  <2>7. bytes = IF e < Large THEN e ELSE Large
    <3>1. CASE inChunk = Large
      BY <2>1, <2>5, <2>6, <3>1
    <3>2. CASE inChunk # Large
      <4>1. inChunk = Small /\ m.len <= Small
        BY <2>1, <2>5, <3>2
      <4>2. e <= Small /\ bytes = e
        BY <2>1, <2>5, <2>6, <4>1
      <4>. QED BY <2>1, <2>5, <4>2
    <3>. QED BY <3>1, <3>2
  <2>. QED BY <2>4, <2>7 DEF Units
<1>16. Len(k) = first - 1 + bytes
  <2>1. ShapeOf(k, m, q)
    BY <1>a, ChunkFacts
  <2>. QED BY <1>14, <1>15, <2>1, Zenon DEF ShapeOf
<1>17. whole <=> Len(buf) >= Len(k)
  <2>1. PICK n \in Nat, b \in Nat, y \in Nat : n = Len(buf) /\ b = bytes /\ y = first
    BY <1>4, <1>6
  <2>2. y = IF Extended(m) THEN body + 1 ELSE body
    BY <1>5, <1>13, <2>1
  <2>3. full <=> n >= body
    BY <1>4, <1>5, <2>1
  <2>4. whole <=> (Extended(m) => n >= body) /\ n - y + 1 >= b
    BY <1>4, <1>5, <1>13, <2>1, <2>3
  <2>5. Len(k) = y - 1 + b
    BY <1>16, <2>1
  <2>6. ((Extended(m) => n >= body) /\ n - y + 1 >= b) <=> n >= y - 1 + b
    <3>1. CASE Extended(m)
      BY <1>3, <2>2, <3>1
    <3>2. CASE ~Extended(m)
      BY <1>3, <2>2, <3>2
    <3>. QED BY <3>1, <3>2
  <2>. QED BY <2>1, <2>4, <2>5, <2>6
<1>18. ~(ext /\ full /\ buf[body].is # "ext")
  BY <1>5, <1>6, <1>13
<1>19. whole => Are("data", first, bytes)
  <2>1. ASSUME whole, NEW x \in first .. first + bytes - 1 PROVE buf[x].is = "data"
    <3>1. x \in DataAt(m, q) .. Len(k) /\ x <= Len(buf)
      <4>1. PICK n \in Nat, b \in Nat, y \in Nat : n = Len(buf) /\ b = bytes /\ y = first
        BY <1>4, <1>6
      <4>2. n >= y - 1 + b /\ Len(k) = y - 1 + b /\ x \in y .. y + b - 1
        BY <1>16, <1>17, <2>1, <4>1
      <4>. QED BY <1>14, <4>1, <4>2
    <3>. QED BY <1>6, <3>1
  <2>. QED BY <2>1 DEF Are
<1>20. ASSUME Exact(s, i) PROVE ts = m.ts /\ HeaderDelta(f, c, at) = m.delta
  <2>1. ~Extended(m)
    BY <1>20, ExactBefore
  <2>2. ts = HeaderTs(f, c, at, packet.ts)
    BY <1>5, <1>13, <2>1
  <2>3. Field(m) = m.value
    BY SMTT(20), <1>2, <2>1, ChunkConstants DEF Extended, Field
  <2>4. CASE f = 0
    <3>1. HeaderTs(f, c, at, packet.ts) = m.value /\ HeaderDelta(f, c, at) = 0
      BY <1>6, <2>3, <2>4 DEF HeaderTs, HeaderDelta
    <3>. QED BY <1>8, <1>12, <2>2, <2>4, <3>1
  <2>5. CASE f \in {1, 2}
    <3>1. HeaderTs(f, c, at, packet.ts) = m.value + s[i - 1].ts /\ HeaderDelta(f, c, at) = m.value
      BY <1>6, <1>12, <1>20, <2>3, <2>5 DEF HeaderTs, HeaderDelta
    <3>. QED BY <1>2, <1>8, <1>10, <1>12, <1>20, <2>2, <2>5, <3>1
  <2>6. CASE f = 3
    BY <1>12, <1>20, <2>2, <2>6
  <2>. QED BY <1>12, <2>4, <2>5, <2>6
<1>21. Matches(header, s, i)
  <2>1. header = [len |-> IF f \in {0, 1} THEN buf[at + 1].v ELSE inPrev[c].len,
                  type |-> IF f \in {0, 1} THEN buf[at + 2].v ELSE inPrev[c].type,
                  sid |-> IF f = 0 THEN buf[at + 3].v ELSE inPrev[c].sid, ts |-> ts, set |-> TRUE]
    BY <1>b, Zenon DEF Outcome
  <2>2. header.len = m.len /\ header.type = m.type /\ header.sid = m.sid /\ header.ts = ts
    BY <1>6, <1>12, <2>1
  <2>. QED BY <1>20, <2>2 DEF Matches
<1>. QED BY <1>12, <1>13, <1>14, <1>15, <1>17, <1>18, <1>19, <1>20, <1>21, Zenon DEF FindsIt
(* A chunk that is ambiguous is never taken for another one unnoticed: the *)
(* reader waits, or it has lost the framing                                *)
LEMMA Puzzled ==
  ASSUME NEW s, NEW i, NEW j, NEW m, NEW q, NEW k, NEW c, NEW f, NEW at, NEW body,
         NEW packet, NEW ext, NEW full, NEW value, NEW ts, NEW first, NEW bytes, NEW whole, NEW header,
         Judging(s, i, j, m, q, k, c, f, at, body, packet, ext, full, value, ts, first, bytes, whole, header),
         Ambiguous(s, i)
  PROVE  j = 0 /\ q = 1 /\ FindsOther(s, i, m, c, body, packet, ext, full, first, bytes, whole)
<1>. /\ s \in Seq(SentMessage) /\ i \in 1 .. Len(s) /\ j \in Nat /\ m = s[i] /\ q = j + 1
     /\ GoodMessage(s, i)
     /\ Reading(m, q, k, c, f, at, body, packet, ext, full, value, ts, first, bytes, whole, header)
     /\ StandsAt(inPrev[c], inPacket[c], inExt[c], inDelta[c], s, i, j)
  BY Zenon DEF Judging
<1>d. j = 0 /\ q = 1
  <2>1. ~(j > 0)
    BY DEF StandsAt, Within
  <2>. QED BY <2>1
<1>. /\ Reading(m, 1, k, c, f, at, body, packet, ext, full, value, ts, first, bytes, whole, header)
     /\ StandsAt(inPrev[c], inPacket[c], inExt[c], inDelta[c], s, i, 0)
  BY <1>d
<1>a. /\ m \in SentMessage /\ 1 \in 1 .. Parts(m) /\ k = Chunk(m, 1)
      /\ c = m.csid /\ f = FormatOf(m, 1) /\ at = FieldsAt(m) /\ body = AfterFields(m, 1)
  BY Zenon DEF Reading
<1>b. Outcome(f, c, at, body, packet, ext, full, value, ts, first, bytes, whole, header)
  BY Zenon DEF Reading
<1>c. HeaderSeen(m, 1, k)
  BY Zenon DEF Reading
<1>1. m.fmt \in 0 .. 3 /\ m.len \in Nat /\ m.value \in Nat /\ m.csid \in Csids /\ Mark \in Nat
  <2>1. Mark \in Nat
    BY ChunkConstants
  <2>. QED BY <1>a, <2>1 DEF SentMessage
<1>2. /\ body \in Nat /\ body >= 2 /\ DataAt(m, 1) \in Nat /\ f = m.fmt
      /\ DataAt(m, 1) = body + (IF Extended(m) THEN 1 ELSE 0) /\ Units(m, 1) \in Nat
  <2>1. /\ FieldsAt(m) \in Nat /\ FieldsAt(m) >= 2 /\ Fields(FormatOf(m, 1)) \in 0 .. 4
        /\ AfterFields(m, 1) = FieldsAt(m) + Fields(FormatOf(m, 1)) /\ AfterFields(m, 1) \in Nat
        /\ DataAt(m, 1) = AfterFields(m, 1) + (IF Extended(m) THEN 1 ELSE 0) /\ DataAt(m, 1) \in Nat
        /\ Units(m, 1) \in Nat
    BY <1>a, ShapeRanges
  <2>2. FormatOf(m, 1) = m.fmt
    BY DEF FormatOf
  <2>. QED BY SMTT(20), <1>a, <2>1, <2>2
<1>3. /\ packet.open /\ ext \in BOOLEAN /\ full \in BOOLEAN /\ whole \in BOOLEAN
      /\ first \in Nat /\ bytes \in Nat /\ packet \in PacketType
      /\ bytes = IF packet.space <= inChunk THEN packet.space ELSE inChunk
      /\ inChunk \in Nat /\ inChunk > 0
  BY OutcomeTypes
<1>4. /\ ext = HasExt(f, c, at) /\ full = (Len(buf) >= body)
      /\ packet = (IF inPacket[c].open THEN inPacket[c]
                   ELSE [open |-> TRUE, space |-> HeaderLen(f, c, at), ts |-> 0])
      /\ first = (IF ext THEN body + 1 ELSE body)
      /\ whole = ((ext => full) /\ Len(buf) - first + 1 >= bytes)
  BY <1>b, Zenon DEF Outcome
<1>5. /\ f # 3 => buf[at].v = Field(m)
      /\ Extended(m) /\ Len(buf) >= body => buf[body].is = "ext"
      /\ ~Extended(m) /\ Len(buf) >= body => buf[body].is # "ext"
      /\ Len(buf) > Len(k) => buf[Len(k) + 1].is = "basic"
      /\ Len(buf) \in Nat
  BY <1>a, <1>c, Zenon DEF HeaderSeen
<1>6. m.fmt \in {2, 3} /\ i > 1 /\ m.len = s[i - 1].len
      /\ (m.len = 0 \/ (m.fmt = 3 /\ ~(Extended(m) <=> Extended(s[i - 1]))))
  BY DEF Ambiguous, GoodMessage, Extended
<1>7. Matches(inPrev[c], s, i - 1) /\ (Fresh(inPacket[c], inExt[c], inDelta[c], s, i) \/ Tried(inPacket[c], inExt[c], inDelta[c], s, i))
  BY <1>6 DEF StandsAt
<1>8. /\ IF m.len = 0 THEN packet.space > 0 ELSE packet.space = m.len
      /\ m.fmt = 3 => inExt[c] = Extended(s[i - 1])
  <2>1. CASE Fresh(inPacket[c], inExt[c], inDelta[c], s, i)
    <3>1. packet.space = HeaderLen(f, c, at)
      BY <1>4, <2>1 DEF Fresh, NoPacket
    <3>2. inPrev[c].len = m.len
      BY <1>6, <1>7 DEF Matches
    <3>3. HeaderLen(f, c, at) = IF m.len = 0 THEN inChunk ELSE m.len
      BY <1>2, <1>6, <3>2 DEF HeaderLen
    <3>. QED BY <1>3, <1>6, <2>1, <3>1, <3>3 DEF Fresh
  <2>2. CASE Tried(inPacket[c], inExt[c], inDelta[c], s, i)
    BY <1>4, <1>6, <2>2 DEF Tried
  <2>. QED BY <1>7, <2>1, <2>2
<1>9. ext <=> IF m.fmt = 3 THEN Extended(s[i - 1]) ELSE Extended(m)
  <2>1. CASE m.fmt = 3
    BY <1>2, <1>3, <1>4, <1>8, <2>1 DEF HasExt
  <2>2. CASE m.fmt # 3
    <3>1. Field(m) = Mark <=> Extended(m)
      BY <1>1 DEF Field, Extended
    <3>2. HasExt(f, c, at) <=> buf[at].v = Mark
      BY <1>2, <2>2 DEF HasExt
    <3>. QED BY <1>2, <1>3, <1>4, <1>5, <2>2, <3>1, <3>2
  <2>. QED BY <2>1, <2>2
<1>10. bytes > 0
  BY <1>1, <1>3, <1>8
<1>11. Len(k) = DataAt(m, 1) - 1 + Units(m, 1)
  <2>1. ShapeOf(k, m, 1)
    BY <1>a, ChunkFacts
  <2>. QED BY <2>1, Zenon DEF ShapeOf
<1>12. ASSUME whole, ~(ext /\ full /\ buf[body].is # "ext"), Are("data", first, bytes) PROVE FALSE
  <2>1. PICK n \in Nat, b \in Nat, y \in Nat : n = Len(buf) /\ b = bytes /\ y = first
    BY <1>3, <1>5
  <2>2. (ext => n >= body) /\ n >= y /\ b > 0
    <3>1. (ext => full) /\ n - y + 1 >= b /\ (full <=> n >= body)
      BY <1>3, <1>4, <1>12, <2>1
    <3>. QED BY <1>10, <2>1, <3>1
  <2>3. buf[y].is = "data"
    BY <1>12, <2>1, <2>2 DEF Are
  <2>4. ext <=> Extended(m)
    <3>1. CASE ext
      BY <1>3, <1>4, <1>5, <1>12, <2>1, <2>2, <3>1
    <3>2. CASE ~ext
      BY <1>3, <1>4, <1>5, <2>1, <2>2, <2>3, <3>2
    <3>. QED BY <3>1, <3>2
  <2>5. m.len = 0
    <3>1. CASE m.fmt = 3
      BY <1>6, <1>9, <2>4, <3>1
    <3>2. CASE m.fmt # 3
      BY <1>6, <3>2
    <3>. QED BY <3>1, <3>2
  <2>6. Units(m, 1) = 0
    <3>1. Left(m, 1) = 0
      BY <1>a, <2>5, PartsFacts
    <3>2. Large \in Nat /\ Large > 0
      BY ChunkConstants
    <3>. QED BY <3>1, <3>2 DEF Units
  <2>7. y = DataAt(m, 1)
    BY <1>2, <1>4, <2>1, <2>4
  <2>8. Len(k) + 1 = y /\ n > Len(k)
    BY <1>2, <1>11, <2>2, <2>6, <2>7
  <2>. QED BY <1>5, <2>1, <2>3, <2>8
<1>13. /\ IF m.len = 0 /\ m.fmt \in {2, 3} THEN packet.space > 0 ELSE packet.space = m.len
       /\ ext <=> IF m.fmt = 3 THEN Extended(s[i - 1]) ELSE Extended(m)
       /\ whole => (ext /\ full /\ buf[body].is # "ext") \/ ~Are("data", first, bytes)
       /\ i > 1 => Matches(inPrev[c], s, i - 1)
  BY <1>6, <1>7, <1>8, <1>9, <1>12
<1>. QED BY <1>d, <1>13, Zenon DEF FindsOther
-----------------------------------------------------------------------------
(* The invariant *)

Announces(m) == m.type = SetChunkSize /\ m.len <= Small

(* A message longer than Small has been announced before                   *)
Covered(S, c, i) ==
  S[c][i].len > Small =>
    /\ Control \in Csids
    /\ \E f \in 1 .. Len(S[Control]) : Announces(S[Control][f]) /\ (c = Control => f < i)

(* The writer remembers the last message *)
LastKept(s, o, e) ==
  o.set =>
    /\ Len(s) >= 1
    /\ \A n \in Nat : n = Len(s) =>
         /\ o.len = s[n].len /\ o.type = s[n].type /\ o.sid = s[n].sid /\ o.ts = s[n].ts
         /\ e = s[n].delta

Written(S) ==
  /\ S \in [Csids -> Seq(SentMessage)]
  /\ \A c \in Csids : \A i \in 1 .. Len(S[c]) : S[c][i].csid = c /\ GoodMessage(S[c], i) /\ Covered(S, c, i)

WriterInv ==
  /\ Written(sent)
  /\ outPrev \in [Csids -> HeaderType] /\ outDelta \in [Csids -> Nat]
  /\ pending \in [Csids -> Seq(Seq(Cell))]
  /\ \A c \in Csids : LastKept(sent[c], outPrev[c], outDelta[c])

(* h: the chunks of the messages s in their order, as message and part *)
Pos == [msg : Nat, part : Nat]
After(s, p) == IF p.part < Parts(s[p.msg]) THEN [msg |-> p.msg, part |-> p.part + 1]
               ELSE [msg |-> p.msg + 1, part |-> 1]
ChunkOf(s, p) == Chunk(s[p.msg], p.part)

Queue(s, h) ==
  /\ h \in Seq(Pos)
  /\ \A n \in 1 .. Len(h) : h[n].msg \in 1 .. Len(s) /\ h[n].part \in 1 .. Parts(s[h[n].msg])
  /\ \A n, p \in 1 .. Len(h) : n <= p => h[n].msg <= h[p].msg
  /\ \A n, p \in 1 .. Len(h) : p = n + 1 => h[p] = After(s, h[n])
  /\ Len(s) = 0 => Len(h) = 0
  /\ Len(s) > 0 => Len(h) > 0 /\ h[1] = [msg |-> 1, part |-> 1]
  /\ \A n \in 1 .. Len(h) : n = Len(h) => h[n].msg = Len(s) /\ h[n].part = Parts(s[h[n].msg])
  /\ \A i \in 1 .. Len(s) : \E n \in 1 .. Len(h) : h[n].msg = i

(* w: those that are not yet on the wire; t: how many are there or further *)
Waiting(s, w, h, t) ==
  /\ t \in Nat /\ t <= Len(h)
  /\ w \in Seq(Seq(Cell)) /\ Len(w) = Len(h) - t
  /\ \A x \in 1 .. Len(w) : w[x] = ChunkOf(s, h[t + x])

(* a: the messages received; r: how many chunks have been read; j: how     *)
(* many of the message that is being read                                  *)
ReadSoFar(s, a, v, p, e, d, h, r, j) ==
  /\ Len(a) <= Len(s)
  /\ \A x \in 1 .. Len(a) : ~Ambiguous(s, x) /\ Matches(a[x], s, x)
  /\ j \in Nat /\ StandsAt(v, p, e, d, s, Len(a) + 1, j)
  /\ r < Len(h) => h[r + 1] = [msg |-> Len(a) + 1, part |-> j + 1]
  /\ r = Len(h) => Len(a) = Len(s) /\ j = 0

(* D and W: the chunks that are transmitted and not read: by csid and      *)
(* number, and as cells; b: the buffer, u: the wire                        *)
Stream(S, b, u, h, t, r, D, W) ==
  /\ D \in Seq([csid : Csids, nr : Nat]) /\ W \in Seq(Seq(Cell)) /\ Len(W) = Len(D)
  /\ b \in Seq(Cell) /\ u \in Seq(Cell) /\ Consists(Glue(b, u), W)
  /\ \A p \in 1 .. Len(D) : /\ r[D[p].csid] < D[p].nr /\ D[p].nr <= t[D[p].csid]
                            /\ W[p] = ChunkOf(S[D[p].csid], h[D[p].csid][D[p].nr])
  /\ \A p, q \in 1 .. Len(D) : p < q /\ D[p].csid = D[q].csid => D[p].nr < D[q].nr
  /\ \A c \in Csids : \A n \in Nat : r[c] < n /\ n <= t[c] =>
       \E p \in 1 .. Len(D) : D[p].csid = c /\ D[p].nr = n

MessageOf(S, h, x) == S[x.csid][h[x.csid][x.nr].msg]

(* What is longer than the reader's first chunks comes after an            *)
(* announcement; n: inChunk                                                *)
InTime(S, n, h, r, D) ==
  /\ Control \in Csids =>
       \A x \in 1 .. Len(h[Control]) :
         x <= r[Control] /\ Announces(S[Control][h[Control][x].msg]) => n = Large
  /\ \A p \in 1 .. Len(D) : MessageOf(S, h, D[p]).len > Small =>
       n = Large \/ \E q \in 1 .. Len(D) : q < p /\ D[q].csid = Control /\ Announces(MessageOf(S, h, D[q]))

(* The reader waits for nothing that has come *)
Waits(S, g, b, h, D, W) ==
  g => \/ Len(D) = 0 \/ Len(b) < Len(W[1])
       \/ Ambiguous(S[D[1].csid], h[D[1].csid][D[1].nr].msg)

Ghosts(h, t, r, j, D, W) ==
  /\ \A c \in Csids :
       /\ Queue(sent[c], h[c]) /\ Waiting(sent[c], pending[c], h[c], t[c])
       /\ ReadSoFar(sent[c], received[c], inPrev[c], inPacket[c], inExt[c], inDelta[c], h[c], r[c], j[c])
       /\ r[c] \in Nat /\ r[c] <= t[c]
  /\ Stream(sent, buf, wire, h, t, r, D, W)
  /\ InTime(sent, inChunk, h, r, D) /\ Waits(sent, waiting, buf, h, D, W)

ReceivedAsSent(s, a) ==
  (\A i \in 1 .. Len(s) : ~Ambiguous(s, i)) =>
    Len(a) <= Len(s) /\ \A x \in 1 .. Len(a) : Matches(a[x], s, x)

SomeAmbiguous(S) == \E c \in Csids : \E i \in 1 .. Len(S[c]) : Ambiguous(S[c], i)

ChunkInv ==
  /\ WriterInv /\ ReaderTypes
  /\ \A c \in Csids : ReceivedAsSent(sent[c], received[c])
  /\ IF lost THEN SomeAmbiguous(sent) ELSE \E h, t, r, j, D, W : Ghosts(h, t, r, j, D, W)
-----------------------------------------------------------------------------
(* What is said about a message holds when more are sent                   *)
LEMMA MoreSent ==
  ASSUME NEW s \in Seq(SentMessage), NEW u \in Seq(SentMessage), Len(s) <= Len(u),
         \A x \in 1 .. Len(s) : u[x] = s[x] /\ GoodMessage(s, x)
  PROVE  /\ \A i \in 1 .. Len(s) : /\ GoodMessage(u, i)
                                   /\ Ambiguous(u, i) <=> Ambiguous(s, i)
         /\ \A h : \A i \in 1 .. Len(s) : Matches(h, u, i) <=> Matches(h, s, i)
         /\ \A v, p, e, d, j : \A i \in 1 .. Len(s) + 1 :
              StandsAt(v, p, e, d, s, i, j) => StandsAt(v, p, e, d, u, i, j)
<1>1. Len(s) \in Nat /\ Len(u) \in Nat
  OBVIOUS
<1>2. \A i \in 1 .. Len(s) : /\ u[i] = s[i] /\ (i > 1 => u[i - 1] = s[i - 1])
                             /\ s[i].fmt \in 0 .. 3 /\ (s[i].fmt # 0 => i > 1)
  <2>1. \A i \in 1 .. Len(s) : s[i] \in SentMessage
    OBVIOUS
  <2>2. \A i \in 1 .. Len(s) : s[i].fmt \in 0 .. 3
    BY <2>1 DEF SentMessage
  <2>3. \A i \in 1 .. Len(s) : s[i].fmt # 0 => i > 1
    BY DEF GoodMessage
  <2>4. \A i \in 1 .. Len(s) : i > 1 => i - 1 \in 1 .. Len(s)
    BY <1>1
  <2>. QED BY <2>2, <2>3, <2>4
<1>3. \A i \in 1 .. Len(s) : GoodMessage(u, i)
  BY <1>2 DEF GoodMessage
<1>4. \A i \in 1 .. Len(s) : Ambiguous(u, i) <=> Ambiguous(s, i)
  <2>1. ASSUME NEW i \in 1 .. Len(s) PROVE Ambiguous(u, i) <=> Ambiguous(s, i)
    <3>1. CASE s[i].fmt = 3
      <4>1. u[i] = s[i] /\ u[i - 1] = s[i - 1]
        BY <1>2, <3>1
      <4>. QED BY <4>1, Zenon DEF Ambiguous
    <3>2. CASE s[i].fmt # 3
      <4>1. u[i] = s[i]
        BY <1>2
      <4>. QED BY <3>2, <4>1, Zenon DEF Ambiguous
    <3>. QED BY <3>1, <3>2
  <2>. QED BY <2>1
<1>5. \A i \in 1 .. Len(s) : Exact(u, i) <=> Exact(s, i)
  <2>1. ASSUME NEW i \in 1 .. Len(s) PROVE Exact(u, i) <=> Exact(s, i)
    <3>1. \A k \in 1 .. i : k \in 1 .. Len(s) /\ u[k] = s[k] /\ \A x \in k .. i : x \in 1 .. Len(s) /\ u[x] = s[x]
      BY <1>1, <1>2
    <3>. QED BY <3>1 DEF Exact
  <2>. QED BY <2>1
<1>6. ASSUME NEW h, NEW i \in 1 .. Len(s) PROVE Matches(h, u, i) <=> Matches(h, s, i)
  BY <1>2, <1>5 DEF Matches
<1>7. ASSUME NEW v, NEW p, NEW e, NEW d, NEW j, NEW i \in 1 .. Len(s) + 1, StandsAt(v, p, e, d, s, i, j)
      PROVE  StandsAt(v, p, e, d, u, i, j)
  <2>1. i > 1 => i - 1 \in 1 .. Len(s)
    BY <1>1
  <2>2. i <= Len(s) => i \in 1 .. Len(s)
    BY <1>1
  <2>3. i > 1 => /\ u[i - 1] = s[i - 1] /\ (Exact(u, i - 1) <=> Exact(s, i - 1))
                 /\ (Matches(v, u, i - 1) <=> Matches(v, s, i - 1))
    BY <1>2, <1>5, <1>6, <2>1
  <2>4. i <= Len(s) => /\ u[i] = s[i] /\ (Exact(u, i) <=> Exact(s, i)) /\ (Ambiguous(u, i) <=> Ambiguous(s, i))
                       /\ (Matches(v, u, i) <=> Matches(v, s, i)) /\ (s[i].fmt # 0 => i > 1) /\ i <= Len(u)
    BY <1>1, <1>2, <1>4, <1>5, <1>6, <2>2
  <2>6. Within(v, p, e, d, s, i, j) => Within(v, p, e, d, u, i, j)
    BY <2>4 DEF Within
  <2>7. Fresh(p, e, d, s, i) => Fresh(p, e, d, u, i)
    BY <2>3 DEF Fresh
  <2>8. Tried(p, e, d, s, i) => Tried(p, e, d, u, i)
    <3>1. ASSUME Tried(p, e, d, s, i) PROVE Tried(p, e, d, u, i)
      <4>1. u[i] = s[i] /\ i <= Len(u) /\ (s[i].fmt = 3 => u[i - 1] = s[i - 1])
        BY <2>3, <2>4, <3>1 DEF Tried
      <4>. QED BY <2>4, <3>1, <4>1 DEF Tried
    <3>. QED BY <3>1
  <2>. QED BY <1>7, <2>3, <2>6, <2>7, <2>8 DEF StandsAt
<1>. QED BY <1>3, <1>4, <1>6, <1>7
-----------------------------------------------------------------------------
(* buildChunk *)

LEMMA Grows ==
  ASSUME NEW S \in [Csids -> Seq(SentMessage)], NEW c \in Csids, NEW z \in SentMessage,
         NEW U, U = [S EXCEPT ![c] = Append(@, z)]
  PROVE  /\ U \in [Csids -> Seq(SentMessage)] /\ Len(S[c]) \in Nat
         /\ \A x \in Csids : /\ Len(S[x]) \in Nat /\ Len(U[x]) \in Nat /\ Len(S[x]) <= Len(U[x])
                             /\ \A i \in 1 .. Len(S[x]) : i \in 1 .. Len(U[x]) /\ U[x][i] = S[x][i]
                             /\ x # c => U[x] = S[x]
         /\ U[c] = Append(S[c], z) /\ Len(U[c]) = Len(S[c]) + 1 /\ U[c][Len(S[c]) + 1] = z
<1>1. /\ Append(S[c], z) \in Seq(SentMessage) /\ Len(Append(S[c], z)) = Len(S[c]) + 1 /\ Len(S[c]) \in Nat
      /\ \A i \in 1 .. Len(S[c]) : Append(S[c], z)[i] = S[c][i]
      /\ Append(S[c], z)[Len(S[c]) + 1] = z
  <2>1. S[c] \in Seq(SentMessage)
    OBVIOUS
  <2>. QED BY <2>1, MoreFacts
<1>2. U[c] = Append(S[c], z) /\ \A x \in Csids : x # c => U[x] = S[x]
  OBVIOUS
<1>3. U \in [Csids -> Seq(SentMessage)]
  BY <1>1
<1>4. \A x \in Csids : Len(S[x]) \in Nat
  OBVIOUS
<1>. QED BY <1>1, <1>2, <1>3, <1>4

LEMMA WrittenMore ==
  ASSUME NEW S, Written(S), NEW c \in Csids, NEW z \in SentMessage, z.csid = c,
         NEW U, U = [S EXCEPT ![c] = Append(@, z)], NEW n \in Nat, n = Len(S[c]) + 1, GoodMessage(U[c], n),
         z.len > Small => Control \in Csids /\ \E i \in 1 .. Len(S[Control]) : S[Control][i].type = SetChunkSize
  PROVE  Written(U)
<1>1. /\ U \in [Csids -> Seq(SentMessage)] /\ Len(S[c]) \in Nat /\ S \in [Csids -> Seq(SentMessage)]
      /\ \A x \in Csids : /\ Len(S[x]) \in Nat /\ Len(U[x]) \in Nat /\ Len(S[x]) <= Len(U[x])
                          /\ \A i \in 1 .. Len(S[x]) : i \in 1 .. Len(U[x]) /\ U[x][i] = S[x][i]
                          /\ x # c => U[x] = S[x]
      /\ Len(U[c]) = n /\ U[c][n] = z
  <2>1. S \in [Csids -> Seq(SentMessage)]
    BY DEF Written
  <2>. QED BY <2>1, Grows
<1>2. ASSUME NEW x \in Csids, NEW i \in 1 .. Len(S[x])
      PROVE  U[x][i].csid = x /\ GoodMessage(U[x], i) /\ Covered(U, x, i)
  <2>1. S[x][i].csid = x /\ GoodMessage(S[x], i) /\ Covered(S, x, i)
    BY DEF Written
  <2>2. U[x][i] = S[x][i]
    BY <1>1
  <2>3. GoodMessage(U[x], i)
    <3>1. \A y \in 1 .. Len(S[x]) : U[x][y] = S[x][y] /\ GoodMessage(S[x], y)
      BY <1>1 DEF Written
    <3>2. S[x] \in Seq(SentMessage) /\ U[x] \in Seq(SentMessage) /\ Len(S[x]) <= Len(U[x])
      BY <1>1
    <3>. QED BY <3>1, <3>2, MoreSent
  <2>4. Covered(U, x, i)
    <3>1. ASSUME S[x][i].len > Small
          PROVE  Control \in Csids /\ \E f \in 1 .. Len(U[Control]) : Announces(U[Control][f]) /\ (x = Control => f < i)
      <4>1. Control \in Csids /\ \E f \in 1 .. Len(S[Control]) : Announces(S[Control][f]) /\ (x = Control => f < i)
        BY <2>1, <3>1 DEF Covered
      <4>. QED BY <1>1, <4>1
    <3>. QED BY <2>2, <3>1 DEF Covered
  <2>. QED BY <2>1, <2>2, <2>3, <2>4
<1>3. Covered(U, c, n)
  <2>1. ASSUME z.len > Small
        PROVE  Control \in Csids /\ \E f \in 1 .. Len(U[Control]) : Announces(U[Control][f]) /\ (c = Control => f < n)
    <3>1. PICK i \in 1 .. Len(S[Control]) : S[Control][i].type = SetChunkSize
      BY <2>1
    <3>2. Control \in Csids /\ Covered(S, Control, i) /\ Small \in Nat /\ S[Control][i] \in SentMessage
      BY <1>1, <2>1, ChunkConstants DEF Written
    <3>3. PICK f \in 1 .. Len(S[Control]) : Announces(S[Control][f])
      <4>1. S[Control][i].len \in Nat
        BY <3>2 DEF SentMessage
      <4>2. CASE S[Control][i].len <= Small
        BY <3>1, <4>2 DEF Announces
      <4>3. CASE S[Control][i].len > Small
        BY <3>2, <4>3 DEF Covered
      <4>. QED BY <3>2, <4>1, <4>2, <4>3
    <3>4. f \in 1 .. Len(U[Control]) /\ U[Control][f] = S[Control][f]
      BY <1>1, <3>2
    <3>5. c = Control => f < n
      BY <1>1
    <3>. QED BY <3>2, <3>3, <3>4, <3>5
  <2>. QED BY <1>1, <2>1 DEF Covered
<1>4. ASSUME NEW x \in Csids, NEW i \in 1 .. Len(U[x])
      PROVE  U[x][i].csid = x /\ GoodMessage(U[x], i) /\ Covered(U, x, i)
  <2>1. CASE i \in 1 .. Len(S[x])
    BY <1>2, <2>1
  <2>2. CASE ~(i \in 1 .. Len(S[x]))
    <3>1. x = c /\ i = n
      BY <1>1, <2>2
    <3>. QED BY <1>1, <1>3, <3>1
  <2>. QED BY <2>1, <2>2
<1>. QED BY <1>1, <1>4 DEF Written

(* Chunks of a message and of its record in the history are the same       *)
LEMMA ChunksOfRecord ==
  ASSUME NEW m, NEW z, NEW f, NEW v, m.csid = z.csid, m.len = z.len, m.type = z.type, m.sid = z.sid
  PROVE  Chunks(f, m, v, Large) = Chunks(f, z, v, Large)
<1>1. \A a : MessageHeader(f, m, a) = MessageHeader(f, z, a)
  BY DEF MessageHeader
<1>. QED BY <1>1 DEF Chunks

LEMMA ChunksFacts ==
  ASSUME NEW z \in SentMessage, NEW k, k = Chunks(z.fmt, z, z.value, Large)
  PROVE  k \in Seq(Seq(Cell)) /\ Len(k) = Parts(z) /\ \A j \in 1 .. Parts(z) : k[j] = Chunk(z, j)
<1>1. \A j \in 1 .. Parts(z) : k[j] = Chunk(z, j)
  BY DEF Chunk
<1>2. \A j \in 1 .. Parts(z) : Chunk(z, j) \in Seq(Cell)
  BY ChunkFacts, Zenon DEF ShapeOf
<1>3. Parts(z) \in Nat
  BY PartsFacts
<1>4. DOMAIN k = 1 .. Parts(z) /\ k = [j \in 1 .. Parts(z) |-> k[j]]
  BY DEF Chunks, Parts
<1>5. k \in [1 .. Parts(z) -> Seq(Cell)]
  BY <1>1, <1>2, <1>4
<1>. QED BY <1>1, <1>3, <1>4, <1>5, SeqDef

LEMMA SendMeans ==
  ASSUME WriterInv, NEW m \in Messages, NEW ts \in Times, NEW fmt0 \in BOOLEAN, Send(m, ts, fmt0)
  PROVE  \E c \in Csids, z \in SentMessage :
           /\ z.csid = c /\ sent' = [sent EXCEPT ![c] = Append(@, z)]
           /\ pending' = [pending EXCEPT ![c] = @ \o Chunks(z.fmt, z, z.value, Large)]
           /\ UNCHANGED <<wire, reader>> /\ WriterInv'
<1>1. /\ m \in [csid : Csids, len : Nat, type : Nat, sid : Nat] /\ ts \in Nat
  BY MessagesAssumption
<1>2. PICK c, prev, old : c \in Csids /\ c = m.csid /\ prev = outPrev[c] /\ old = outDelta[c]
  BY <1>1
<1>. c \in Csids
  BY <1>2
<1>3. /\ prev \in HeaderType /\ old \in Nat /\ LastKept(sent[c], prev, old) /\ sent[c] \in Seq(SentMessage)
      /\ prev.len \in Nat /\ prev.type \in Nat /\ prev.sid \in Nat /\ prev.ts \in Nat /\ prev.set \in BOOLEAN
      /\ Written(sent) /\ sent \in [Csids -> Seq(SentMessage)]
  BY <1>2 DEF WriterInv, Written, HeaderType
<1>4. PICK useDelta \in BOOLEAN : useDelta = UseDelta(fmt0, prev, m, ts)
  BY <1>3 DEF UseDelta
<1>5. PICK value : value = IF useDelta THEN ts - prev.ts ELSE ts
  OBVIOUS
<1>6. useDelta => prev.set /\ ts >= prev.ts /\ m.sid = prev.sid
  BY <1>4 DEF UseDelta
<1>7. value \in Nat
  BY <1>1, <1>3, <1>5, <1>6
<1>8. PICK fmt : fmt = Format(m, prev, value, old, useDelta)
  OBVIOUS
<1>9. /\ fmt \in 0 .. 3 /\ (fmt = 0 <=> ~useDelta)
      /\ fmt \in {2, 3} => m.type = prev.type /\ m.len = prev.len
      /\ fmt = 3 => value = old
  BY <1>8 DEF Format
<1>10. PICK delta : delta = CASE fmt = 0 -> 0 [] fmt \in {1, 2} -> value [] fmt = 3 -> old
  OBVIOUS
<1>11. /\ fmt = 0 => delta = 0
       /\ fmt \in {1, 2} => delta = value
       /\ fmt = 3 => delta = old
       /\ delta \in Nat
  BY <1>3, <1>7, <1>9, <1>10
<1>12. PICK z : z = [csid |-> m.csid, len |-> m.len, type |-> m.type, sid |-> m.sid, ts |-> ts,
                     fmt |-> fmt, value |-> value, delta |-> delta]
  OBVIOUS
<1>13. z \in SentMessage /\ z.csid = c
  BY <1>1, <1>2, <1>7, <1>9, <1>11, <1>12 DEF SentMessage
<1>14. PICK head : head = [len |-> m.len, type |-> m.type, sid |-> m.sid, ts |-> ts, set |-> TRUE]
  OBVIOUS
<1>15. /\ sent' = [sent EXCEPT ![c] = Append(@, z)]
       /\ pending' = [pending EXCEPT ![c] = @ \o Chunks(fmt, m, value, Large)]
       /\ outPrev' = [outPrev EXCEPT ![c] = head]
       /\ outDelta' = [outDelta EXCEPT ![c] = delta]
       /\ UNCHANGED <<wire, reader>>
       /\ m.len <= Small \/ Announced
  BY <1>2, <1>4, <1>5, <1>8, <1>10, <1>12, <1>14 DEF Send
<1>16. PICK k : k = Chunks(z.fmt, z, z.value, Large)
  OBVIOUS
<1>17. /\ Chunks(fmt, m, value, Large) = k
       /\ k \in Seq(Seq(Cell))
  <2>1. m.csid = z.csid /\ m.len = z.len /\ m.type = z.type /\ m.sid = z.sid /\ z.fmt = fmt /\ z.value = value
    BY <1>12
  <2>. QED BY <1>13, <1>16, <2>1, ChunksOfRecord, ChunksFacts
<1>18a. PICK n \in Nat : n = Len(sent[c]) + 1
  BY <1>3
<1>18. PICK U : U = sent' /\ n = Len(sent[c]) + 1
  BY <1>18a
<1>19. /\ U \in [Csids -> Seq(SentMessage)] /\ \A x \in Csids : x # c => U[x] = sent[x]
       /\ Len(U[c]) = n /\ U[c][n] = z /\ \A i \in 1 .. Len(sent[c]) : U[c][i] = sent[c][i]
  <2>1. U = [sent EXCEPT ![c] = Append(@, z)]
    BY <1>15, <1>18
  <2>. QED BY <1>3, <1>13, <1>18, <2>1, Grows
<1>20. GoodMessage(U[c], n)
  <2>1. /\ z.fmt = fmt /\ z.value = value /\ z.delta = delta /\ z.ts = ts /\ z.len = m.len /\ z.type = m.type /\ z.sid = m.sid
    BY <1>12
  <2>2. fmt # 0 => /\ n > 1 /\ U[c][n - 1].sid = m.sid /\ ts = U[c][n - 1].ts + value
                   /\ old = U[c][n - 1].delta /\ prev.type = U[c][n - 1].type /\ prev.len = U[c][n - 1].len
    <3>1. ASSUME fmt # 0
          PROVE  /\ n > 1 /\ U[c][n - 1].sid = m.sid /\ ts = U[c][n - 1].ts + value
                 /\ old = U[c][n - 1].delta /\ prev.type = U[c][n - 1].type /\ prev.len = U[c][n - 1].len
      <4>1. useDelta /\ prev.set /\ ts >= prev.ts /\ m.sid = prev.sid
        BY <1>6, <1>9, <3>1
      <4>2. PICK l \in Nat : l = Len(sent[c])
        BY <1>3
      <4>3. /\ l >= 1 /\ prev.len = sent[c][l].len /\ prev.type = sent[c][l].type
            /\ prev.sid = sent[c][l].sid /\ prev.ts = sent[c][l].ts /\ old = sent[c][l].delta
        BY <1>3, <4>1, <4>2 DEF LastKept
      <4>4. n - 1 = l /\ n > 1 /\ U[c][n - 1] = sent[c][l]
        BY <1>18, <1>19, <4>2, <4>3
      <4>. QED BY <1>1, <1>3, <1>5, <4>1, <4>3, <4>4
    <3>. QED BY <3>1
  <2>3. ts = 0 => delta = 0
    <3>2. ts = 0 /\ fmt # 0 => value = 0
      BY <1>1, <1>3, <1>5, <1>6, <1>9
    <3>. QED BY <1>9, <1>11, <3>2
  <2>4. fmt = 0 => value = ts
    BY <1>5, <1>9
  <2>. QED BY <1>9, <1>11, <1>19, <2>1, <2>2, <2>3, <2>4 DEF GoodMessage
<1>21. Written(U)
  <2>1. U = [sent EXCEPT ![c] = Append(@, z)]
    BY <1>15, <1>18
  <2>2. z.len > Small => Control \in Csids /\ \E i \in 1 .. Len(sent[Control]) : sent[Control][i].type = SetChunkSize
    <3>1. z.len = m.len /\ m.len \in Nat /\ Small \in Nat
      BY <1>1, <1>12, ChunkConstants
    <3>. QED BY <1>15, <3>1 DEF Announced
  <2>. QED BY <1>3, <1>13, <1>18, <1>20, <2>1, <2>2, WrittenMore
<1>22. /\ outPrev' \in [Csids -> HeaderType] /\ outDelta' \in [Csids -> Nat]
       /\ pending' \in [Csids -> Seq(Seq(Cell))]
  <2>1. head \in HeaderType
    BY <1>1, <1>14 DEF HeaderType
  <2>2. pending[c] \in Seq(Seq(Cell)) /\ pending \in [Csids -> Seq(Seq(Cell))]
        /\ outPrev \in [Csids -> HeaderType] /\ outDelta \in [Csids -> Nat]
    BY DEF WriterInv
  <2>3. pending[c] \o k \in Seq(Seq(Cell))
    BY <1>17, <2>2, ConcatProperties
  <2>. QED BY <1>11, <1>15, <1>17, <2>1, <2>2, <2>3
<1>23. ASSUME NEW x \in Csids PROVE LastKept(sent'[x], outPrev'[x], outDelta'[x])
  <2>1. CASE x = c
    <3>1. /\ outPrev'[x] = head /\ outDelta'[x] = delta
      <4>1. outPrev \in [Csids -> HeaderType] /\ outDelta \in [Csids -> Nat]
        BY DEF WriterInv
      <4>. QED BY <1>15, <2>1, <4>1
    <3>2. /\ head.len = z.len /\ head.type = z.type /\ head.sid = z.sid /\ head.ts = z.ts /\ delta = z.delta
      BY <1>12, <1>14
    <3>3. Len(U[c]) = n /\ n >= 1 /\ U[c][n] = z
      BY <1>3, <1>18, <1>19
    <3>. QED BY <1>18, <2>1, <3>1, <3>2, <3>3 DEF LastKept
  <2>2. CASE x # c
    <3>1. outPrev'[x] = outPrev[x] /\ outDelta'[x] = outDelta[x] /\ sent'[x] = sent[x]
      BY <1>15, <1>18, <1>19, <2>2 DEF WriterInv
    <3>. QED BY <3>1 DEF WriterInv
  <2>. QED BY <2>1, <2>2
<1>24. WriterInv'
  BY <1>18, <1>21, <1>22, <1>23 DEF WriterInv
<1>. QED BY <1>13, <1>15, <1>16, <1>17, <1>24

(* g is h with the k chunks of message n *)
Longer(h, g, n, k) ==
  /\ h \in Seq(Pos) /\ g \in Seq(Pos) /\ Len(h) \in Nat /\ Len(g) = Len(h) + k
  /\ \A x \in 1 .. Len(h) : g[x] = h[x]
  /\ \A x \in Len(h) + 1 .. Len(h) + k : g[x] = [msg |-> n, part |-> x - Len(h)]

LEMMA LongerExists ==
  ASSUME NEW h \in Seq(Pos), NEW n \in Nat, NEW k \in Nat
  PROVE  \E g : Longer(h, g, n, k)
<1>1. PICK w : w = [x \in 1 .. k |-> [msg |-> n, part |-> x]]
  OBVIOUS
<1>2. w \in Seq(Pos) /\ Len(w) = k /\ \A x \in 1 .. k : w[x] = [msg |-> n, part |-> x]
  BY <1>1 DEF Pos
<1>3. PICK g : g = Glue(h, w)
  OBVIOUS
<1>4. /\ g \in Seq(Pos) /\ Len(g) = Len(h) + Len(w) /\ Len(h) \in Nat
      /\ \A x \in 1 .. Len(h) : g[x] = h[x]
      /\ \A x \in Len(h) + 1 .. Len(h) + Len(w) : g[x] = w[x - Len(h)]
  <2>1. h \in Seq(Pos) /\ w \in Seq(Pos)
    BY <1>2
  <2>. QED BY <1>3, <2>1, GlueFacts
<1>5. \A x \in Len(h) + 1 .. Len(h) + k : x - Len(h) \in 1 .. k
  BY <1>4
<1>6. Longer(h, g, n, k)
  BY <1>2, <1>4, <1>5 DEF Longer
<1>. QED BY <1>6

(* z is sent after s, and g has its chunks after those in h *)
OneMore(s, z, u, h, g, n) ==
  /\ s \in Seq(SentMessage) /\ z \in SentMessage /\ u = Append(s, z)
  /\ Queue(s, h) /\ n \in Nat /\ n = Len(s) + 1 /\ Longer(h, g, n, Parts(z))

LEMMA QueueMore ==
  ASSUME NEW s, NEW z, NEW u, NEW h, NEW g, NEW n, OneMore(s, z, u, h, g, n)
  PROVE  /\ Queue(u, g)
         /\ \A x \in 1 .. Len(h) : g[x] = h[x] /\ u[h[x].msg] = s[h[x].msg] /\ ChunkOf(u, g[x]) = ChunkOf(s, h[x])
<1>. s \in Seq(SentMessage) /\ z \in SentMessage /\ u = Append(s, z) /\ n \in Nat /\ n = Len(s) + 1
  BY DEF OneMore
<1>0. Queue(s, h) /\ Longer(h, g, n, Parts(z))
  BY DEF OneMore
<1>1. /\ u \in Seq(SentMessage) /\ Len(u) = n /\ Len(s) \in Nat
      /\ \A i \in 1 .. Len(s) : u[i] = s[i]
      /\ u[n] = z
  BY MoreFacts
<1>2. Parts(z) \in Nat /\ Parts(z) >= 1
  BY PartsFacts
<1>3. PICK l \in Nat, k \in Nat : l = Len(h) /\ k = Parts(z) /\ k >= 1
  BY <1>0, <1>2 DEF Longer
<1>4. /\ g \in Seq(Pos) /\ Len(g) = l + k
      /\ \A x \in 1 .. l : g[x] = h[x]
      /\ \A x \in l + 1 .. l + k : g[x] = [msg |-> n, part |-> x - l]
  BY <1>0, <1>3 DEF Longer
<1>4a. /\ \A x \in l + 1 .. l + k : g[x].msg = n /\ g[x].part = x - l /\ g[x].part \in 1 .. k
       /\ Parts(u[n]) = k
  <2>1. ASSUME NEW x \in l + 1 .. l + k PROVE g[x].msg = n /\ g[x].part = x - l /\ g[x].part \in 1 .. k
    <3>1. g[x] = [msg |-> n, part |-> x - l]
      BY <1>4
    <3>2. x - l \in 1 .. k
      OBVIOUS
    <3>. QED BY <3>1, <3>2
  <2>2. Parts(u[n]) = k
    BY <1>1, <1>3
  <2>. QED BY <2>1, <2>2
<1>5. /\ \A x \in 1 .. l : h[x].msg \in 1 .. Len(s) /\ h[x].part \in 1 .. Parts(s[h[x].msg])
      /\ \A x, p \in 1 .. l : x <= p => h[x].msg <= h[p].msg
      /\ \A x, p \in 1 .. l : p = x + 1 => h[p] = After(s, h[x])
      /\ Len(s) = 0 => l = 0
      /\ Len(s) > 0 => l > 0 /\ h[1] = [msg |-> 1, part |-> 1]
      /\ \A x \in 1 .. l : x = l => h[x].msg = Len(s) /\ h[x].part = Parts(s[h[x].msg])
      /\ \A i \in 1 .. Len(s) : \E x \in 1 .. l : h[x].msg = i
  BY <1>0, <1>3 DEF Queue
<1>6. \A x \in 1 .. l : g[x] = h[x] /\ u[h[x].msg] = s[h[x].msg] /\ ChunkOf(u, g[x]) = ChunkOf(s, h[x])
  BY <1>1, <1>4, <1>5 DEF ChunkOf
<1>7. ASSUME NEW x \in 1 .. l + k PROVE g[x].msg \in 1 .. n /\ g[x].part \in 1 .. Parts(u[g[x].msg])
  <2>1. CASE x \in 1 .. l
    <3>1. h[x].msg \in 1 .. Len(s) /\ h[x].part \in 1 .. Parts(s[h[x].msg])
      BY <1>5, <2>1
    <3>2. g[x] = h[x] /\ u[h[x].msg] = s[h[x].msg]
      BY <1>6, <2>1
    <3>3. h[x].msg \in 1 .. n
      BY <1>1, <3>1
    <3>. QED BY <3>1, <3>2, <3>3
  <2>2. CASE x \in l + 1 .. l + k
    <3>1. g[x].msg = n /\ g[x].part \in 1 .. k /\ Parts(u[n]) = k /\ n \in 1 .. n
      BY <1>1, <1>4a, <2>2
    <3>. QED BY <3>1
  <2>. QED BY <2>1, <2>2
<1>8. ASSUME NEW x \in 1 .. l + k, NEW p \in 1 .. l + k, x <= p PROVE g[x].msg <= g[p].msg
  <2>1. CASE x \in 1 .. l /\ p \in 1 .. l
    BY <1>4, <1>5, <1>8, <2>1
  <2>2. CASE p \in l + 1 .. l + k
    <3>1. g[p].msg = n /\ g[x].msg \in 1 .. n
      BY <1>4a, <1>7, <2>2
    <3>. QED BY <3>1
  <2>. QED BY <1>8, <2>1, <2>2
<1>9. ASSUME NEW x \in 1 .. l + k, NEW p \in 1 .. l + k, p = x + 1 PROVE g[p] = After(u, g[x])
  <2>1. CASE p \in 1 .. l
    <3>1. x \in 1 .. l
      BY <1>9, <2>1
    <3>2. After(u, g[x]) = After(s, h[x])
      BY <1>6, <3>1 DEF After
    <3>. QED BY <1>4, <1>5, <1>9, <2>1, <3>1, <3>2
  <2>2. CASE x = l
    <3>1. x \in 1 .. l /\ h[x].msg = Len(s) /\ h[x].part = Parts(s[h[x].msg]) /\ u[h[x].msg] = s[h[x].msg] /\ g[x] = h[x]
      BY <1>5, <1>6, <2>2
    <3>2. Parts(s[h[x].msg]) \in Nat
      <4>1. s[h[x].msg] \in SentMessage
        BY <1>5, <3>1
      <4>. QED BY <4>1, PartsFacts
    <3>3. After(u, g[x]) = [msg |-> n, part |-> 1]
      <4>0. PICK y \in Nat : y = Parts(s[h[x].msg])
        BY <3>2
      <4>1. ~(g[x].part < Parts(u[g[x].msg])) /\ g[x].msg + 1 = n
        <5>1. g[x].part = y /\ Parts(u[g[x].msg]) = y /\ g[x].msg = Len(s)
          BY <3>1, <4>0
        <5>. QED BY <1>1, <5>1
      <4>. QED BY <4>1 DEF After
    <3>4. g[p] = [msg |-> n, part |-> 1]
      <4>1. p \in l + 1 .. l + k /\ p - l = 1
        BY <1>3, <1>9, <2>2
      <4>. QED BY <1>4, <4>1
    <3>. QED BY <3>3, <3>4
  <2>3. CASE x \in l + 1 .. l + k
    <3>1. /\ g[x] = [msg |-> n, part |-> x - l] /\ g[p] = [msg |-> n, part |-> (x - l) + 1] /\ x - l < k
      <4>1. p \in l + 1 .. l + k /\ p - l = (x - l) + 1 /\ x - l < k
        BY <1>3, <1>9, <2>3
      <4>. QED BY <1>4, <2>3, <4>1
    <3>2. g[x].part < Parts(u[g[x].msg]) /\ g[x].msg = n /\ g[x].part = x - l
      BY <1>4a, <2>3, <3>1
    <3>. QED BY <3>1, <3>2 DEF After
  <2>. QED BY <1>9, <2>1, <2>2, <2>3
<1>10. Len(u) > 0 /\ l + k > 0 /\ g[1] = [msg |-> 1, part |-> 1]
  <2>1. CASE Len(s) = 0
    <3>1. l = 0 /\ n = 1 /\ 1 \in l + 1 .. l + k
      BY <1>3, <1>5, <2>1
    <3>. QED BY <1>1, <1>3, <1>4, <3>1
  <2>2. CASE Len(s) > 0
    <3>1. l > 0 /\ h[1] = [msg |-> 1, part |-> 1] /\ 1 \in 1 .. l
      BY <1>5, <2>2
    <3>. QED BY <1>1, <1>3, <1>4, <3>1
  <2>. QED BY <1>1, <2>1, <2>2
<1>11. ASSUME NEW x \in 1 .. l + k, x = l + k PROVE g[x].msg = n /\ g[x].part = Parts(u[g[x].msg])
  <2>1. x \in l + 1 .. l + k /\ x - l = k
    BY <1>3, <1>11
  <2>. QED BY <1>4a, <2>1
<1>12. ASSUME NEW i \in 1 .. n PROVE \E x \in 1 .. l + k : g[x].msg = i
  <2>1. CASE i \in 1 .. Len(s)
    <3>1. PICK x \in 1 .. l : h[x].msg = i
      BY <1>5, <2>1
    <3>2. x \in 1 .. l + k /\ g[x].msg = i
      BY <1>4, <3>1
    <3>. QED BY <3>2
  <2>2. CASE i = n
    <3>1. l + 1 \in 1 .. l + k /\ g[l + 1].msg = n
      BY <1>3, <1>4a
    <3>. QED BY <2>2, <3>1
  <2>. QED BY <1>1, <2>1, <2>2
<1>13. Queue(u, g)
  BY <1>1, <1>4, <1>7, <1>8, <1>9, <1>10, <1>11, <1>12 DEF Queue
<1>. QED BY <1>3, <1>6, <1>13

LEMMA WaitingMore ==
  ASSUME NEW s, NEW z, NEW u, NEW h, NEW g, NEW n, OneMore(s, z, u, h, g, n),
         NEW w, NEW t, Waiting(s, w, h, t), NEW k, k = Chunks(z.fmt, z, z.value, Large)
  PROVE  Waiting(u, w \o k, g, t)
<1>. s \in Seq(SentMessage) /\ z \in SentMessage /\ u = Append(s, z) /\ n \in Nat /\ n = Len(s) + 1
  BY DEF OneMore
<1>0. Queue(s, h) /\ Longer(h, g, n, Parts(z))
  BY DEF OneMore
<1>1. k \in Seq(Seq(Cell)) /\ Len(k) = Parts(z) /\ \A j \in 1 .. Parts(z) : k[j] = Chunk(z, j)
  BY ChunksFacts
<1>2. PICK l \in Nat, y \in Nat, q \in Nat : l = Len(h) /\ y = Len(w) /\ q = Parts(z)
  BY <1>0, PartsFacts DEF Longer, Waiting
<1>3. /\ t \in Nat /\ t <= l /\ w \in Seq(Seq(Cell)) /\ y = l - t
      /\ \A x \in 1 .. y : w[x] = ChunkOf(s, h[t + x])
  BY <1>2 DEF Waiting
<1>4. /\ Len(g) = l + q /\ \A x \in l + 1 .. l + q : g[x] = [msg |-> n, part |-> x - l]
  BY <1>0, <1>2 DEF Longer
<1>5. /\ Glue(w, k) \in Seq(Seq(Cell)) /\ Len(Glue(w, k)) = y + q
      /\ \A x \in 1 .. y : Glue(w, k)[x] = w[x]
      /\ \A x \in y + 1 .. y + q : Glue(w, k)[x] = k[x - y]
  <2>1. w \in Seq(Seq(Cell)) /\ k \in Seq(Seq(Cell)) /\ Len(k) = q
    BY <1>1, <1>2, <1>3
  <2>2. PICK b : b = Glue(w, k)
    OBVIOUS
  <2>3. /\ b \in Seq(Seq(Cell)) /\ Len(b) = Len(w) + Len(k)
        /\ \A x \in 1 .. Len(w) : b[x] = w[x]
        /\ \A x \in Len(w) + 1 .. Len(w) + Len(k) : b[x] = k[x - Len(w)]
    <3>1. w \in Seq(Seq(Cell)) /\ k \in Seq(Seq(Cell))
      BY <2>1
    <3>2. /\ Glue(w, k) \in Seq(Seq(Cell)) /\ Len(Glue(w, k)) = Len(w) + Len(k) /\ Len(w) \in Nat /\ Len(k) \in Nat
          /\ \A i \in 1 .. Len(w) : Glue(w, k)[i] = w[i]
          /\ \A i \in Len(w) + 1 .. Len(w) + Len(k) : Glue(w, k)[i] = k[i - Len(w)]
      BY <3>1, GlueChunks
    <3>. QED BY <2>2, <3>2, Zenon
  <2>. QED BY <1>2, <2>1, <2>2, <2>3
<1>6. u[n] = z
  BY MoreFacts
<1>7. ASSUME NEW x \in 1 .. y + q PROVE Glue(w, k)[x] = ChunkOf(u, g[t + x])
  <2>1. CASE x \in 1 .. y
    <3>1. t + x \in 1 .. l
      BY <1>3, <2>1
    <3>2. ChunkOf(u, g[t + x]) = ChunkOf(s, h[t + x])
      <4>1. g[t + x] = h[t + x]
        BY <1>0, <1>2, <3>1 DEF Longer
      <4>2. h[t + x].msg \in 1 .. Len(s)
        BY <1>0, <1>2, <3>1 DEF Queue
      <4>3. u[h[t + x].msg] = s[h[t + x].msg]
        BY <4>2, MoreFacts
      <4>. QED BY <4>1, <4>3 DEF ChunkOf
    <3>. QED BY <1>3, <1>5, <2>1, <3>2
  <2>2. CASE x \in y + 1 .. y + q
    <3>1. PICK v \in 1 .. q : v = x - y
      BY <2>2
    <3>2. t + x \in l + 1 .. l + q /\ (t + x) - l = v
      BY <1>3, <2>2, <3>1
    <3>3. g[t + x] = [msg |-> n, part |-> v]
      BY <1>4, <3>2
    <3>4. ChunkOf(u, g[t + x]) = Chunk(z, v)
      BY <1>6, <3>3 DEF ChunkOf
    <3>5. Glue(w, k)[x] = k[v]
      BY <1>5, <2>2, <3>1
    <3>. QED BY <1>1, <1>2, <3>4, <3>5
  <2>. QED BY <2>1, <2>2
<1>8. Waiting(u, Glue(w, k), g, t)
  <2>1. t <= Len(g) /\ y + q = Len(g) - t
    BY <1>3, <1>4
  <2>. QED BY <1>3, <1>5, <1>7, <2>1 DEF Waiting
<1>. QED BY <1>8 DEF Glue

LEMMA ReadMore ==
  ASSUME NEW s, NEW z, NEW u, NEW h, NEW g, NEW n, OneMore(s, z, u, h, g, n),
         \A x \in 1 .. Len(s) : GoodMessage(s, x),
         NEW a \in Seq(HeaderType), NEW v, NEW p, NEW e, NEW d, NEW r \in Nat, r <= Len(h), NEW j,
         ReadSoFar(s, a, v, p, e, d, h, r, j)
  PROVE  ReadSoFar(u, a, v, p, e, d, g, r, j)
<1>. s \in Seq(SentMessage) /\ z \in SentMessage /\ u = Append(s, z) /\ n \in Nat /\ n = Len(s) + 1
  BY DEF OneMore
<1>0. Queue(s, h) /\ Longer(h, g, n, Parts(z))
  BY DEF OneMore
<1>1. /\ u \in Seq(SentMessage) /\ Len(u) = n /\ Len(s) \in Nat /\ Len(a) \in Nat
      /\ \A i \in 1 .. Len(s) : u[i] = s[i]
  BY MoreFacts
<1>2. PICK l \in Nat, k \in Nat : l = Len(h) /\ k = Parts(z) /\ k >= 1
  BY <1>0, PartsFacts DEF Longer
<1>3. /\ Len(g) = l + k /\ \A x \in 1 .. l : g[x] = h[x]
      /\ \A x \in l + 1 .. l + k : g[x] = [msg |-> n, part |-> x - l]
  BY <1>0, <1>2 DEF Longer
<1>4. /\ Len(a) <= Len(s) /\ \A x \in 1 .. Len(a) : ~Ambiguous(s, x) /\ Matches(a[x], s, x)
      /\ j \in Nat /\ StandsAt(v, p, e, d, s, Len(a) + 1, j)
      /\ r < l => h[r + 1] = [msg |-> Len(a) + 1, part |-> j + 1]
      /\ r = l => Len(a) = Len(s) /\ j = 0
  BY <1>2 DEF ReadSoFar
<1>5. /\ \A i \in 1 .. Len(s) : Ambiguous(u, i) <=> Ambiguous(s, i)
      /\ \A x : \A i \in 1 .. Len(s) : Matches(x, u, i) <=> Matches(x, s, i)
      /\ \A i \in 1 .. Len(s) + 1 : StandsAt(v, p, e, d, s, i, j) => StandsAt(v, p, e, d, u, i, j)
  <2>1. Len(s) <= Len(u) /\ u \in Seq(SentMessage) /\ \A x \in 1 .. Len(s) : u[x] = s[x] /\ GoodMessage(s, x)
    BY <1>1
  <2>. QED BY <2>1, MoreSent
<1>6. \A x \in 1 .. Len(a) : ~Ambiguous(u, x) /\ Matches(a[x], u, x)
  BY <1>1, <1>4, <1>5
<1>7. StandsAt(v, p, e, d, u, Len(a) + 1, j)
  BY <1>1, <1>4, <1>5
<1>8. g[r + 1] = [msg |-> Len(a) + 1, part |-> j + 1] /\ r < Len(g)
  <2>1. CASE r < l
    <3>1. r + 1 \in 1 .. l /\ r < l + k
      BY <1>2, <2>1
    <3>. QED BY <1>3, <1>4, <2>1, <3>1
  <2>2. CASE r = l
    BY <1>2, <1>3, <1>4, <2>2
  <2>. QED BY <1>2, <2>1, <2>2
<1>9. Len(a) <= Len(u)
  BY <1>1, <1>4
<1>. QED BY <1>4, <1>6, <1>7, <1>8, <1>9 DEF ReadSoFar

(* What is received stays as sent when more is sent *)
LEMMA ReceivedMore ==
  ASSUME NEW s \in Seq(SentMessage), NEW u \in Seq(SentMessage), Len(s) <= Len(u),
         \A x \in 1 .. Len(s) : u[x] = s[x] /\ GoodMessage(s, x),
         NEW a \in Seq(HeaderType), ReceivedAsSent(s, a)
  PROVE  ReceivedAsSent(u, a)
<1>1. /\ \A i \in 1 .. Len(s) : GoodMessage(u, i) /\ (Ambiguous(u, i) <=> Ambiguous(s, i))
      /\ \A x : \A i \in 1 .. Len(s) : Matches(x, u, i) <=> Matches(x, s, i)
  BY MoreSent
<1>2. Len(s) \in Nat /\ Len(u) \in Nat /\ Len(a) \in Nat
  OBVIOUS
<1>3. ASSUME \A i \in 1 .. Len(u) : ~Ambiguous(u, i)
      PROVE  Len(a) <= Len(u) /\ \A x \in 1 .. Len(a) : Matches(a[x], u, x)
  <2>1. \A i \in 1 .. Len(s) : ~Ambiguous(s, i)
    BY <1>1, <1>2, <1>3
  <2>2. Len(a) <= Len(s) /\ \A x \in 1 .. Len(a) : Matches(a[x], s, x)
    BY <2>1 DEF ReceivedAsSent
  <2>. QED BY <1>1, <1>2, <2>2
<1>. QED BY <1>3 DEF ReceivedAsSent

LEMMA SendKeeps ==
  ASSUME ChunkInv, NEW m \in Messages, NEW ts \in Times, NEW fmt0 \in BOOLEAN, Send(m, ts, fmt0)
  PROVE  ChunkInv'
<1>0. WriterInv /\ ReaderTypes
  BY DEF ChunkInv
<1>1. PICK c \in Csids, z \in SentMessage :
           /\ z.csid = c /\ sent' = [sent EXCEPT ![c] = Append(@, z)]
           /\ pending' = [pending EXCEPT ![c] = @ \o Chunks(z.fmt, z, z.value, Large)]
           /\ UNCHANGED <<wire, reader>> /\ WriterInv'
  BY <1>0, SendMeans
<1>2. /\ wire' = wire /\ buf' = buf /\ waiting' = waiting /\ inPrev' = inPrev /\ inPacket' = inPacket
      /\ inDelta' = inDelta /\ inExt' = inExt /\ inChunk' = inChunk /\ received' = received /\ lost' = lost
  BY <1>1 DEF reader
<1>3. PICK S, U : S = sent /\ U = sent'
  OBVIOUS
<1>4. /\ S \in [Csids -> Seq(SentMessage)] /\ Written(S) /\ \A x \in Csids : \A i \in 1 .. Len(S[x]) : GoodMessage(S[x], i)
  BY <1>0, <1>3 DEF WriterInv, Written
<1>5. /\ U \in [Csids -> Seq(SentMessage)]
      /\ \A x \in Csids : /\ Len(S[x]) \in Nat /\ Len(U[x]) \in Nat /\ Len(S[x]) <= Len(U[x])
                          /\ \A i \in 1 .. Len(S[x]) : i \in 1 .. Len(U[x]) /\ U[x][i] = S[x][i]
                          /\ x # c => U[x] = S[x]
      /\ U[c] = Append(S[c], z)
  <2>1. U = [S EXCEPT ![c] = Append(@, z)]
    BY <1>1, <1>3
  <2>. QED BY <1>4, <2>1, Grows
<1>6. ReaderTypes'
  BY <1>0, <1>2 DEF ReaderTypes
<1>7. ASSUME NEW x \in Csids PROVE ReceivedAsSent(U[x], received'[x])
  <2>1. /\ S[x] \in Seq(SentMessage) /\ U[x] \in Seq(SentMessage) /\ Len(S[x]) <= Len(U[x])
        /\ \A i \in 1 .. Len(S[x]) : U[x][i] = S[x][i] /\ GoodMessage(S[x], i)
    BY <1>4, <1>5
  <2>2. received[x] \in Seq(HeaderType) /\ ReceivedAsSent(S[x], received[x])
    BY <1>0, <1>3 DEF ChunkInv, ReaderTypes
  <2>. QED BY <1>2, <2>1, <2>2, ReceivedMore
<1>8. ASSUME NEW x \in Csids, NEW i \in 1 .. Len(S[x])
      PROVE  Ambiguous(U[x], i) <=> Ambiguous(S[x], i)
  <2>1. /\ S[x] \in Seq(SentMessage) /\ U[x] \in Seq(SentMessage) /\ Len(S[x]) <= Len(U[x])
        /\ \A y \in 1 .. Len(S[x]) : U[x][y] = S[x][y] /\ GoodMessage(S[x], y)
    BY <1>4, <1>5
  <2>. QED BY <2>1, MoreSent
<1>9. CASE lost
  <2>1. SomeAmbiguous(S)
    BY <1>3, <1>9 DEF ChunkInv
  <2>2. SomeAmbiguous(U)
    BY <1>5, <1>8, <2>1 DEF SomeAmbiguous
  <2>. QED BY <1>1, <1>2, <1>3, <1>6, <1>7, <1>9, <2>2 DEF ChunkInv
<1>10. CASE ~lost
  <2>1. PICK h, t, r, j, D, W : Ghosts(h, t, r, j, D, W)
    BY <1>10 DEF ChunkInv
  <2>2. \A x \in Csids :
          /\ Queue(S[x], h[x]) /\ Waiting(S[x], pending[x], h[x], t[x])
          /\ ReadSoFar(S[x], received[x], inPrev[x], inPacket[x], inExt[x], inDelta[x], h[x], r[x], j[x])
          /\ r[x] \in Nat /\ r[x] <= t[x]
    BY <1>3, <2>1, Zenon DEF Ghosts
  <2>3. \A x \in Csids : t[x] \in Nat /\ Len(h[x]) \in Nat /\ t[x] <= Len(h[x]) /\ h[x] \in Seq(Pos)
    BY <2>2 DEF Waiting, Queue
  <2>4. PICK n \in Nat, k \in Nat : n = Len(S[c]) + 1 /\ k = Parts(z)
    BY <1>5, PartsFacts
  <2>5. PICK g : Longer(h[c], g, n, k)
    <3>1. h[c] \in Seq(Pos)
      BY <2>3
    <3>. QED BY <3>1, LongerExists
  <2>6. PICK H : H = [x \in Csids |-> IF x = c THEN g ELSE h[x]]
    OBVIOUS
  <2>7. H[c] = g /\ \A x \in Csids : x # c => H[x] = h[x]
    BY <2>6
  <2>8. OneMore(S[c], z, U[c], h[c], g, n)
    BY <1>4, <1>5, <2>2, <2>4, <2>5 DEF OneMore
  <2>9. /\ Queue(U[c], g)
        /\ \A x \in 1 .. Len(h[c]) : g[x] = h[c][x] /\ U[c][h[c][x].msg] = S[c][h[c][x].msg]
                                     /\ ChunkOf(U[c], g[x]) = ChunkOf(S[c], h[c][x])
    <3>1. PICK s, u, q : s = S[c] /\ u = U[c] /\ q = h[c]
      OBVIOUS
    <3>2. OneMore(s, z, u, q, g, n)
      BY <2>8, <3>1
    <3>3. /\ Queue(u, g)
          /\ \A x \in 1 .. Len(q) : g[x] = q[x] /\ u[q[x].msg] = s[q[x].msg] /\ ChunkOf(u, g[x]) = ChunkOf(s, q[x])
      BY <3>2, QueueMore
    <3>. QED BY <3>1, <3>3
  <2>10. \A x \in Csids : \A i \in 1 .. Len(h[x]) :
           /\ H[x][i] = h[x][i] /\ U[x][h[x][i].msg] = S[x][h[x][i].msg]
           /\ ChunkOf(U[x], H[x][i]) = ChunkOf(S[x], h[x][i])
           /\ Ambiguous(U[x], h[x][i].msg) <=> Ambiguous(S[x], h[x][i].msg)
    <3>1. ASSUME NEW x \in Csids, NEW i \in 1 .. Len(h[x])
          PROVE  /\ H[x][i] = h[x][i] /\ U[x][h[x][i].msg] = S[x][h[x][i].msg]
                 /\ ChunkOf(U[x], H[x][i]) = ChunkOf(S[x], h[x][i])
                 /\ Ambiguous(U[x], h[x][i].msg) <=> Ambiguous(S[x], h[x][i].msg)
      <4>1. CASE x = c
        <5>1. h[x][i].msg \in 1 .. Len(S[x])
          BY <2>2 DEF Queue
        <5>. QED BY <1>8, <2>7, <2>9, <4>1, <5>1
      <4>2. CASE x # c
        BY <1>5, <2>7, <4>2
      <4>. QED BY <4>1, <4>2
    <3>. QED BY <3>1
  <2>11. ASSUME NEW x \in Csids
         PROVE  /\ Queue(U[x], H[x]) /\ Waiting(U[x], pending'[x], H[x], t[x])
                /\ ReadSoFar(U[x], received'[x], inPrev'[x], inPacket'[x], inExt'[x], inDelta'[x], H[x], r[x], j[x])
    <3>1. CASE x = c
      <4>1. pending'[c] = pending[c] \o Chunks(z.fmt, z, z.value, Large)
        BY <1>0, <1>1 DEF WriterInv
      <4>2. Waiting(U[c], pending'[c], g, t[c])
        <5>1. Waiting(S[c], pending[c], h[c], t[c])
          BY <2>2
        <5>2. PICK w, e : w = pending[c] /\ e = Chunks(z.fmt, z, z.value, Large)
          OBVIOUS
        <5>3. Waiting(U[c], w \o e, g, t[c])
          BY <2>8, <5>1, <5>2, WaitingMore
        <5>. QED BY <4>1, <5>2, <5>3
      <4>3. ReadSoFar(U[c], received[c], inPrev[c], inPacket[c], inExt[c], inDelta[c], g, r[c], j[c])
        <5>1. received[c] \in Seq(HeaderType)
          BY <1>0 DEF ReaderTypes
        <5>2. r[c] \in Nat /\ r[c] <= Len(h[c])
          BY <2>2, <2>3
        <5>3. ReadSoFar(S[c], received[c], inPrev[c], inPacket[c], inExt[c], inDelta[c], h[c], r[c], j[c])
          BY <2>2
        <5>4. PICK s, u, q, a, v, p, e, d, y, o :
                 /\ s = S[c] /\ u = U[c] /\ q = h[c] /\ a = received[c] /\ v = inPrev[c] /\ p = inPacket[c]
                 /\ e = inExt[c] /\ d = inDelta[c] /\ y = r[c] /\ o = j[c]
          OBVIOUS
        <5>5. /\ OneMore(s, z, u, q, g, n) /\ \A i \in 1 .. Len(s) : GoodMessage(s, i)
              /\ a \in Seq(HeaderType) /\ y \in Nat /\ y <= Len(q) /\ ReadSoFar(s, a, v, p, e, d, q, y, o)
          BY <1>4, <2>8, <5>1, <5>2, <5>3, <5>4
        <5>6. ReadSoFar(u, a, v, p, e, d, g, y, o)
          BY <5>5, ReadMore
        <5>. QED BY <5>4, <5>6
      <4>. QED BY <1>2, <2>7, <2>9, <3>1, <4>2, <4>3
    <3>2. CASE x # c
      <4>1. pending'[x] = pending[x]
        BY <1>0, <1>1, <3>2 DEF WriterInv
      <4>. QED BY <1>2, <1>5, <2>2, <2>7, <3>2, <4>1
    <3>. QED BY <3>1, <3>2
  <2>12. /\ D \in Seq([csid : Csids, nr : Nat]) /\ W \in Seq(Seq(Cell)) /\ Len(W) = Len(D)
         /\ buf \in Seq(Cell) /\ wire \in Seq(Cell) /\ Consists(Glue(buf, wire), W)
         /\ \A p \in 1 .. Len(D) : /\ r[D[p].csid] < D[p].nr /\ D[p].nr <= t[D[p].csid]
                                   /\ W[p] = ChunkOf(S[D[p].csid], h[D[p].csid][D[p].nr])
         /\ \A p, q \in 1 .. Len(D) : p < q /\ D[p].csid = D[q].csid => D[p].nr < D[q].nr
         /\ \A x \in Csids : \A i \in Nat : r[x] < i /\ i <= t[x] =>
              \E p \in 1 .. Len(D) : D[p].csid = x /\ D[p].nr = i
    BY <1>3, <2>1, Zenon DEF Ghosts, Stream
  <2>13. \A p \in 1 .. Len(D) : D[p].csid \in Csids /\ D[p].nr \in 1 .. Len(h[D[p].csid])
    <3>1. ASSUME NEW p \in 1 .. Len(D) PROVE D[p].csid \in Csids /\ D[p].nr \in 1 .. Len(h[D[p].csid])
      <4>1. D[p] \in [csid : Csids, nr : Nat]
        <5>1. D \in Seq([csid : Csids, nr : Nat]) /\ p \in 1 .. Len(D)
          BY <2>12
        <5>. QED BY <5>1, ElementOfSeq
      <4>2. PICK x \in Csids, i \in Nat : D[p].csid = x /\ D[p].nr = i
        BY <4>1
      <4>3. r[x] < i /\ i <= t[x]
        BY <2>12, <4>2
      <4>4. r[x] \in Nat /\ t[x] \in Nat /\ Len(h[x]) \in Nat /\ t[x] <= Len(h[x])
        BY <2>2, <2>3
      <4>5. i \in 1 .. Len(h[x])
        BY <4>3, <4>4
      <4>. QED BY <4>2, <4>5
    <3>. QED BY <3>1
  <2>14. Stream(U, buf', wire', H, t, r, D, W)
    <3>1. \A p \in 1 .. Len(D) : W[p] = ChunkOf(U[D[p].csid], H[D[p].csid][D[p].nr])
      <4>1. ASSUME NEW p \in 1 .. Len(D) PROVE W[p] = ChunkOf(U[D[p].csid], H[D[p].csid][D[p].nr])
        <5>1. PICK x, i : x = D[p].csid /\ i = D[p].nr
          OBVIOUS
        <5>2. x \in Csids /\ i \in 1 .. Len(h[x]) /\ W[p] = ChunkOf(S[x], h[x][i])
          BY <2>12, <2>13, <5>1
        <5>3. ChunkOf(U[x], H[x][i]) = ChunkOf(S[x], h[x][i])
          BY <2>10, <5>2
        <5>. QED BY <5>1, <5>2, <5>3
      <4>. QED BY <4>1
    <3>. QED BY <1>2, <2>12, <3>1 DEF Stream
  <2>15. \A p \in 1 .. Len(D) : MessageOf(U, H, D[p]) = MessageOf(S, h, D[p])
    <3>1. ASSUME NEW p \in 1 .. Len(D) PROVE MessageOf(U, H, D[p]) = MessageOf(S, h, D[p])
      <4>1. PICK x, i : x = D[p].csid /\ i = D[p].nr
        OBVIOUS
      <4>2. H[x][i] = h[x][i] /\ U[x][h[x][i].msg] = S[x][h[x][i].msg]
        BY <2>10, <2>13, <4>1
      <4>. QED BY <4>1, <4>2 DEF MessageOf
    <3>. QED BY <3>1
  <2>16. InTime(U, inChunk', H, r, D)
    <3>1. InTime(S, inChunk, h, r, D)
      BY <1>3, <2>1, Zenon DEF Ghosts
    <3>2. ASSUME Control \in Csids, NEW x \in 1 .. Len(H[Control]), x <= r[Control],
                 Announces(U[Control][H[Control][x].msg])
          PROVE  inChunk = Large
      <4>1. x \in 1 .. Len(h[Control])
        BY <2>2, <2>3, <3>2
      <4>2. Announces(S[Control][h[Control][x].msg])
        BY <2>10, <3>2, <4>1
      <4>. QED BY <3>1, <3>2, <4>1, <4>2 DEF InTime
    <3>. QED BY <1>2, <2>15, <3>1, <3>2 DEF InTime
  <2>17. Waits(U, waiting', buf', H, D, W)
    <3>1. Waits(S, waiting, buf, h, D, W)
      BY <1>3, <2>1, Zenon DEF Ghosts
    <3>2. Len(D) # 0 => /\ H[D[1].csid][D[1].nr] = h[D[1].csid][D[1].nr]
                        /\ Ambiguous(U[D[1].csid], h[D[1].csid][D[1].nr].msg) <=> Ambiguous(S[D[1].csid], h[D[1].csid][D[1].nr].msg)
      <4>1. Len(D) # 0 => 1 \in 1 .. Len(D)
        BY <2>12
      <4>. QED BY <2>10, <2>13, <4>1
    <3>. QED BY <1>2, <3>1, <3>2 DEF Waits
  <2>18. Ghosts(H, t, r, j, D, W)'
    BY <1>3, <2>2, <2>11, <2>14, <2>16, <2>17 DEF Ghosts
  <2>. QED BY <1>1, <1>2, <1>3, <1>6, <1>7, <1>10, <2>18 DEF ChunkInv
<1>. QED BY <1>9, <1>10
-----------------------------------------------------------------------------
(* A chunk is put on the wire *)
LEMMA WaitingLess ==
  ASSUME NEW s, NEW w, NEW h, NEW t, Queue(s, h), Waiting(s, w, h, t), w # <<>>, NEW k, k = Head(w)
  PROVE  /\ t + 1 \in 1 .. Len(h) /\ Waiting(s, Tail(w), h, t + 1)
         /\ k \in Seq(Cell) /\ k = ChunkOf(s, h[t + 1])
<1>1. /\ t \in Nat /\ t <= Len(h) /\ w \in Seq(Seq(Cell)) /\ Len(w) = Len(h) - t
      /\ \A x \in 1 .. Len(w) : w[x] = ChunkOf(s, h[t + x])
  BY DEF Waiting
<1>2. PICK l \in Nat : l = Len(h)
  BY DEF Queue
<1>3. PICK v : v = Tail(w)
  OBVIOUS
<1>4. /\ v \in Seq(Seq(Cell)) /\ Len(v) = Len(w) - 1 /\ Len(w) \in Nat /\ Len(w) >= 1
      /\ k = w[1] /\ k \in Seq(Cell)
      /\ \A x \in 1 .. Len(v) : v[x] = w[x + 1]
  BY <1>1, <1>3, RestFacts
<1>5. PICK n \in Nat : n = t + 1
  BY <1>1
<1>6. n \in 1 .. l /\ Len(v) = l - n /\ k = ChunkOf(s, h[n])
  BY <1>1, <1>2, <1>4, <1>5
<1>7. ASSUME NEW x \in 1 .. Len(v) PROVE v[x] = ChunkOf(s, h[n + x])
  <2>1. x + 1 \in 1 .. Len(w) /\ t + (x + 1) = n + x
    BY <1>1, <1>4, <1>5
  <2>2. w[x + 1] = ChunkOf(s, h[t + (x + 1)])
    BY <1>1, <2>1
  <2>. QED BY <1>4, <2>1, <2>2
<1>8. Waiting(s, v, h, n)
  <2>1. n <= Len(h) /\ Len(v) = Len(h) - n
    BY <1>2, <1>6
  <2>. QED BY <1>4, <1>7, <2>1 DEF Waiting
<1>. QED BY <1>2, <1>3, <1>4, <1>5, <1>6, <1>8

LEMMA ChunkLength ==
  ASSUME NEW s \in Seq(SentMessage), NEW p, p.msg \in 1 .. Len(s), p.part \in 1 .. Parts(s[p.msg]),
         NEW k, k = ChunkOf(s, p)
  PROVE  k \in Seq(Cell) /\ Len(k) \in Nat /\ Len(k) >= 1 /\ k[1].is = "basic"
<1>1. s[p.msg] \in SentMessage
  BY ElementOfSeq
<1>2. PICK m \in SentMessage : m = s[p.msg]
  BY <1>1
<1>2a. PICK j \in 1 .. Parts(m) : j = p.part
  BY <1>2
<1>3. ShapeOf(k, m, j)
  BY <1>2, <1>2a, ChunkFacts DEF ChunkOf
<1>4. k \in Seq(Cell) /\ Len(k) = DataAt(m, j) - 1 + Units(m, j) /\ k[1].is = "basic"
  BY <1>3, Zenon DEF ShapeOf
<1>5. /\ FieldsAt(m) \in Nat /\ FieldsAt(m) >= 2 /\ Fields(FormatOf(m, j)) \in 0 .. 4 /\ Units(m, j) \in Nat
      /\ DataAt(m, j) = AfterFields(m, j) + (IF Extended(m) THEN 1 ELSE 0)
      /\ AfterFields(m, j) = FieldsAt(m) + Fields(FormatOf(m, j))
  BY ShapeRanges
<1>. QED BY SMTT(20), <1>4, <1>5

(* The chunk x is added at the end *)
LEMMA StreamMore ==
  ASSUME NEW S, NEW b, NEW u, NEW h, NEW t, NEW r, NEW D, NEW W, Stream(S, b, u, h, t, r, D, W),
         NEW c \in Csids, NEW n \in Nat, n = t[c] + 1, t[c] \in Nat, r[c] \in Nat, r[c] <= t[c],
         NEW v, v[c] = n, \A x \in Csids : x # c => v[x] = t[x],
         NEW k \in Seq(Cell), k = ChunkOf(S[c], h[c][n]), NEW x, x = [csid |-> c, nr |-> n],
         \A y \in Csids : r[y] \in Nat /\ t[y] \in Nat
  PROVE  Stream(S, b, Glue(u, k), h, v, r, Append(D, x), Append(W, k))
<1>1. /\ D \in Seq([csid : Csids, nr : Nat]) /\ W \in Seq(Seq(Cell)) /\ Len(W) = Len(D)
      /\ b \in Seq(Cell) /\ u \in Seq(Cell) /\ Consists(Glue(b, u), W)
      /\ \A p \in 1 .. Len(D) : /\ r[D[p].csid] < D[p].nr /\ D[p].nr <= t[D[p].csid]
                                /\ W[p] = ChunkOf(S[D[p].csid], h[D[p].csid][D[p].nr])
      /\ \A p, q \in 1 .. Len(D) : p < q /\ D[p].csid = D[q].csid => D[p].nr < D[q].nr
      /\ \A y \in Csids : \A i \in Nat : r[y] < i /\ i <= t[y] =>
           \E p \in 1 .. Len(D) : D[p].csid = y /\ D[p].nr = i
  BY Zenon DEF Stream
<1>2. PICK E, V : E = Append(D, x) /\ V = Append(W, k)
  OBVIOUS
<1>3. x \in [csid : Csids, nr : Nat] /\ x.csid = c /\ x.nr = n
  OBVIOUS
<1>4. PICK l \in Nat : l = Len(D)
  BY <1>1, LenProperties
<1>5. /\ E \in Seq([csid : Csids, nr : Nat]) /\ Len(E) = l + 1
      /\ \A p \in 1 .. l : E[p] = D[p]
      /\ E[l + 1] = x
  BY <1>1, <1>2, <1>3, <1>4, MoreFacts
<1>6. /\ V \in Seq(Seq(Cell)) /\ Len(V) = l + 1
      /\ \A p \in 1 .. l : V[p] = W[p]
      /\ V[l + 1] = k
  <2>1. W \in Seq(Seq(Cell)) /\ k \in Seq(Cell) /\ Len(W) = l
    BY <1>1, <1>4
  <2>. QED BY <1>2, <2>1, MoreFacts
<1>7. Glue(u, k) \in Seq(Cell) /\ Consists(Glue(b, Glue(u, k)), V)
  <2>1. Glue(u, k) \in Seq(Cell) /\ Glue(b, u) \in Seq(Cell)
    BY <1>1, GlueFacts
  <2>2. Glue(Glue(b, u), k) = Glue(b, Glue(u, k))
    <3>1. b \in Seq(Cell) /\ u \in Seq(Cell) /\ k \in Seq(Cell)
      BY <1>1
    <3>. QED BY <3>1, GlueTwice
  <2>3. Consists(Glue(Glue(b, u), k), V)
    BY <1>1, <1>2, <2>1, ConsistsMore
  <2>. QED BY <2>1, <2>2, <2>3
<1>8. ASSUME NEW p \in 1 .. l + 1
      PROVE  /\ r[E[p].csid] < E[p].nr /\ E[p].nr <= v[E[p].csid]
             /\ V[p] = ChunkOf(S[E[p].csid], h[E[p].csid][E[p].nr])
  <2>1. CASE p \in 1 .. l
    <3>1. D[p] \in [csid : Csids, nr : Nat]
      BY <1>1, <1>4, <2>1, ElementOfSeq
    <3>2. PICK y \in Csids, i \in Nat : y = D[p].csid /\ i = D[p].nr
      BY <3>1
    <3>3. r[y] < i /\ i <= t[y] /\ W[p] = ChunkOf(S[y], h[y][i])
      BY <1>1, <1>4, <2>1, <3>2
    <3>4. i <= v[y]
      <4>1. CASE y = c
        BY <3>3, <4>1
      <4>2. CASE y # c
        BY <3>3, <4>2
      <4>. QED BY <4>1, <4>2
    <3>. QED BY <1>5, <1>6, <2>1, <3>2, <3>3, <3>4
  <2>2. CASE p = l + 1
    <3>1. r[c] < n
      OBVIOUS
    <3>. QED BY <1>3, <1>5, <1>6, <2>2, <3>1
  <2>. QED BY <2>1, <2>2
<1>9. ASSUME NEW p \in 1 .. l + 1, NEW q \in 1 .. l + 1, p < q, E[p].csid = E[q].csid
      PROVE  E[p].nr < E[q].nr
  <2>1. p \in 1 .. l
    BY <1>9
  <2>2. CASE q \in 1 .. l
    <3>1. E[p] = D[p] /\ E[q] = D[q]
      BY <1>5, <2>1, <2>2
    <3>. QED BY <1>1, <1>4, <1>9, <2>1, <2>2, <3>1
  <2>3. CASE q = l + 1
    <3>0. D[p] \in [csid : Csids, nr : Nat]
      BY <1>1, <1>4, <2>1, ElementOfSeq
    <3>1. D[p].csid = c /\ E[p] = D[p] /\ E[q].nr = n
      BY <1>3, <1>5, <1>9, <2>1, <2>3
    <3>2. PICK i \in Nat : i = D[p].nr
      BY <3>0
    <3>3. i <= t[c]
      BY <1>1, <1>4, <2>1, <3>1, <3>2
    <3>. QED BY <3>1, <3>2, <3>3
  <2>. QED BY <2>2, <2>3
<1>10. ASSUME NEW y \in Csids, NEW i \in Nat, r[y] < i, i <= v[y]
       PROVE  \E p \in 1 .. l + 1 : E[p].csid = y /\ E[p].nr = i
  <2>1. CASE i <= t[y]
    <3>1. PICK p \in 1 .. l : D[p].csid = y /\ D[p].nr = i
      BY <1>1, <1>4, <1>10, <2>1
    <3>. QED BY <1>5, <3>1
  <2>2. CASE ~(i <= t[y])
    <3>1. y = c
      BY <1>10, <2>2
    <3>2. i = n
      BY <1>10, <2>2, <3>1
    <3>. QED BY <1>3, <1>5, <3>1, <3>2
  <2>. QED BY <2>1, <2>2
<1>11. Stream(S, b, Glue(u, k), h, v, r, E, V)
  BY SMTT(20), <1>1, <1>5, <1>6, <1>7, <1>8, <1>9, <1>10 DEF Stream
<1>. QED BY <1>2, <1>11
(* What is announced comes first *)
LEMMA InTimeMore ==
  ASSUME NEW S, Written(S), NEW l, NEW h, NEW t, NEW r, NEW D, NEW W, NEW b, NEW u,
         Stream(S, b, u, h, t, r, D, W), InTime(S, l, h, r, D),
         \A y \in Csids : Queue(S[y], h[y]) /\ t[y] \in Nat /\ r[y] \in Nat,
         NEW c \in Csids, NEW n \in Nat, n = t[c] + 1, n \in 1 .. Len(h[c]),
         c # Control => Control \notin Csids \/ t[Control] = Len(h[Control]),
         NEW x, x = [csid |-> c, nr |-> n]
  PROVE  InTime(S, l, h, r, Append(D, x))
<1>1. /\ D \in Seq([csid : Csids, nr : Nat])
      /\ \A y \in Csids : \A i \in Nat : r[y] < i /\ i <= t[y] =>
           \E p \in 1 .. Len(D) : D[p].csid = y /\ D[p].nr = i
  BY Zenon DEF Stream
<1>2. /\ Control \in Csids =>
           \A y \in 1 .. Len(h[Control]) :
             y <= r[Control] /\ Announces(S[Control][h[Control][y].msg]) => l = Large
      /\ \A p \in 1 .. Len(D) : MessageOf(S, h, D[p]).len > Small =>
           l = Large \/ \E q \in 1 .. Len(D) : q < p /\ D[q].csid = Control /\ Announces(MessageOf(S, h, D[q]))
  BY Zenon DEF InTime
<1>3. PICK E : E = Append(D, x)
  OBVIOUS
<1>4. PICK e \in Nat : e = Len(D)
  BY <1>1, LenProperties
<1>5. x \in [csid : Csids, nr : Nat] /\ x.csid = c /\ x.nr = n
  OBVIOUS
<1>6. /\ Len(E) = e + 1 /\ E[e + 1] = x
      /\ \A p \in 1 .. e : E[p] = D[p]
  BY <1>1, <1>3, <1>4, <1>5, MoreFacts
<1>7. ASSUME NEW p \in 1 .. e + 1, MessageOf(S, h, E[p]).len > Small, l # Large
      PROVE  \E q \in 1 .. e + 1 : q < p /\ E[q].csid = Control /\ Announces(MessageOf(S, h, E[q]))
  <2>1. CASE p \in 1 .. e
    <3>1. PICK q \in 1 .. e : q < p /\ D[q].csid = Control /\ Announces(MessageOf(S, h, D[q]))
      BY <1>2, <1>4, <1>6, <1>7, <2>1
    <3>. QED BY <1>6, <3>1
  <2>2. CASE p = e + 1
    <3>1. PICK i : i = h[c][n].msg
      OBVIOUS
    <3>2. i \in 1 .. Len(S[c])
      BY SMTT(20), <3>1 DEF Queue
    <3>3. S[c][i].len > Small
      BY <1>5, <1>6, <1>7, <2>2, <3>1 DEF MessageOf
    <3>4. Control \in Csids /\ \E f \in 1 .. Len(S[Control]) : Announces(S[Control][f]) /\ (c = Control => f < i)
      BY <3>2, <3>3 DEF Written, Covered
    <3>5. PICK f \in 1 .. Len(S[Control]) : Announces(S[Control][f]) /\ (c = Control => f < i)
      BY <3>4
    <3>6. PICK y \in 1 .. Len(h[Control]) : h[Control][y].msg = f
      BY <3>4 DEF Queue
    <3>7. PICK k \in Nat : k = Len(h[Control])
      BY <3>4 DEF Queue
    <3>8. y <= t[Control]
      <4>1. CASE c = Control
        <5>1. f < i /\ S[c] = S[Control] /\ Len(S[c]) \in Nat
          BY <3>4, <3>5, <4>1 DEF Written
        <5>2. ~(n <= y)
          <6>1. ASSUME n <= y PROVE FALSE
            <7>1. h[c][n].msg <= h[c][y].msg
              BY <3>6, <4>1, <6>1 DEF Queue
            <7>. QED BY SMTT(20), <3>1, <3>2, <3>5, <3>6, <4>1, <5>1, <7>1
          <6>. QED BY <6>1
        <5>. QED BY <3>4, <3>6, <3>7, <4>1, <5>2
      <4>2. CASE c # Control
        BY <3>4, <3>6, <3>7, <4>2
      <4>. QED BY <4>1, <4>2
    <3>9. ~(y <= r[Control])
      BY <1>2, <1>7, <3>4, <3>5, <3>6
    <3>10. PICK q \in 1 .. e : D[q].csid = Control /\ D[q].nr = y
      <4>1. r[Control] \in Nat /\ y \in Nat
        BY <3>4, <3>6
      <4>2. r[Control] < y
        BY <3>9, <4>1
      <4>3. \A z \in Nat : r[Control] < z /\ z <= t[Control] =>
              \E q \in 1 .. Len(D) : D[q].csid = Control /\ D[q].nr = z
        BY <1>1, <3>4, Zenon
      <4>. QED BY <1>4, <3>8, <4>1, <4>2, <4>3
    <3>11. q \in 1 .. e + 1 /\ q < p /\ E[q] = D[q]
      BY <1>6, <2>2
    <3>12. Announces(MessageOf(S, h, E[q]))
      BY <3>5, <3>6, <3>10, <3>11 DEF MessageOf
    <3>. QED BY <3>10, <3>11, <3>12
  <2>. QED BY <2>1, <2>2
<1>. QED BY <1>2, <1>3, <1>6, <1>7 DEF InTime

LEMMA WaitsMore ==
  ASSUME NEW S, NEW g, NEW b, NEW u, NEW h, NEW t, NEW r, NEW D, NEW W,
         Stream(S, b, u, h, t, r, D, W), Waits(S, g, b, h, D, W),
         NEW k \in Seq(Cell), Len(k) >= 1, NEW x \in [csid : Csids, nr : Nat]
  PROVE  Waits(S, g, b, h, Append(D, x), Append(W, k))
<1>1. /\ D \in Seq([csid : Csids, nr : Nat]) /\ W \in Seq(Seq(Cell)) /\ Len(W) = Len(D)
      /\ b \in Seq(Cell) /\ u \in Seq(Cell) /\ Consists(Glue(b, u), W)
  BY Zenon DEF Stream
<1>2. PICK E, V : E = Append(D, x) /\ V = Append(W, k)
  OBVIOUS
<1>3. PICK e \in Nat : e = Len(D)
  BY <1>1, LenProperties
<1>4. /\ E[e + 1] = x
      /\ \A p \in 1 .. e : E[p] = D[p]
  BY <1>1, <1>2, <1>3, MoreFacts
<1>5. V[e + 1] = k /\ \A p \in 1 .. e : V[p] = W[p]
  <2>1. W \in Seq(Seq(Cell)) /\ Len(W) = e
    BY <1>1, <1>3
  <2>. QED BY <1>2, <2>1, MoreFacts
<1>6. CASE e = 0
  <2>1. PICK cut : Cuts(Glue(b, u), W, cut)
    BY <1>1 DEF Consists
  <2>2. Len(Glue(b, u)) = 0
    BY <1>1, <1>3, <1>6, <2>1 DEF Cuts
  <2>3. Len(Glue(b, u)) = Len(b) + Len(u) /\ Len(b) \in Nat /\ Len(u) \in Nat
    BY <1>1, GlueFacts
  <2>4. Len(b) = 0
    <3>1. PICK y \in Nat, z \in Nat : y = Len(b) /\ z = Len(u)
      BY <2>3
    <3>2. y + z = 0
      BY <2>2, <2>3, <3>1
    <3>. QED BY <3>1, <3>2
  <2>5. V[1] = k
    BY <1>5, <1>6
  <2>. QED BY <1>2, <2>4, <2>5 DEF Waits
<1>7. CASE e # 0
  <2>1. E[1] = D[1] /\ V[1] = W[1]
    BY <1>4, <1>5, <1>7
  <2>. QED BY <1>2, <1>3, <1>7, <2>1 DEF Waits
<1>. QED BY <1>6, <1>7

LEMMA TransmitKeeps ==
  ASSUME ChunkInv, NEW c \in Csids, Transmit(c)
  PROVE  ChunkInv'
<1>1. WriterInv /\ ReaderTypes
  BY DEF ChunkInv
<1>2. PICK k, w : k = Head(pending[c]) /\ w = pending[c]
  OBVIOUS
<1>3. /\ wire' = Glue(wire, k) /\ pending' = [pending EXCEPT ![c] = Tail(w)] /\ w # <<>>
      /\ c # Control => Control \notin Csids \/ pending[Control] = <<>>
      /\ UNCHANGED <<writer, reader>>
  BY <1>2 DEF Transmit, Glue
<1>4. /\ buf' = buf /\ waiting' = waiting /\ inPrev' = inPrev /\ inPacket' = inPacket
      /\ inDelta' = inDelta /\ inExt' = inExt /\ inChunk' = inChunk /\ received' = received /\ lost' = lost
      /\ outPrev' = outPrev /\ outDelta' = outDelta /\ sent' = sent
  BY <1>3 DEF reader, writer
<1>5. pending \in [Csids -> Seq(Seq(Cell))] /\ Written(sent) /\ sent \in [Csids -> Seq(SentMessage)]
  BY <1>1 DEF WriterInv, Written
<1>6. w \in Seq(Seq(Cell)) /\ Tail(w) \in Seq(Seq(Cell))
  <2>1. w \in Seq(Seq(Cell))
    BY <1>2, <1>5
  <2>. QED BY <1>3, <2>1, RestFacts
<1>7. pending' \in [Csids -> Seq(Seq(Cell))] /\ pending'[c] = Tail(w) /\ \A y \in Csids : y # c => pending'[y] = pending[y]
  BY <1>3, <1>5, <1>6
<1>8. WriterInv'
  BY <1>1, <1>4, <1>7 DEF WriterInv
<1>9. ReaderTypes'
  BY <1>1, <1>4 DEF ReaderTypes
<1>10. \A y \in Csids : ReceivedAsSent(sent'[y], received'[y])
  BY <1>4 DEF ChunkInv
<1>11. CASE lost
  <2>1. SomeAmbiguous(sent')
    BY <1>4, <1>11 DEF ChunkInv
  <2>. QED BY <1>4, <1>8, <1>9, <1>10, <1>11, <2>1 DEF ChunkInv
<1>12. CASE ~lost
  <2>1. PICK h, t, r, j, D, W : Ghosts(h, t, r, j, D, W)
    BY <1>12 DEF ChunkInv
  <2>2. \A y \in Csids :
          /\ Queue(sent[y], h[y]) /\ Waiting(sent[y], pending[y], h[y], t[y])
          /\ ReadSoFar(sent[y], received[y], inPrev[y], inPacket[y], inExt[y], inDelta[y], h[y], r[y], j[y])
          /\ r[y] \in Nat /\ r[y] <= t[y]
    BY <2>1, Zenon DEF Ghosts
  <2>3. /\ Stream(sent, buf, wire, h, t, r, D, W) /\ InTime(sent, inChunk, h, r, D)
        /\ Waits(sent, waiting, buf, h, D, W)
    BY <2>1, Zenon DEF Ghosts
  <2>4. \A y \in Csids : t[y] \in Nat
    BY <2>2 DEF Waiting
  <2>5. PICK n \in Nat : n = t[c] + 1
    BY <2>4
  <2>6. n \in 1 .. Len(h[c]) /\ Waiting(sent[c], Tail(w), h[c], n) /\ k \in Seq(Cell) /\ k = ChunkOf(sent[c], h[c][n])
    <3>1. PICK s, q, i : s = sent[c] /\ q = h[c] /\ i = t[c]
      OBVIOUS
    <3>2. Queue(s, q) /\ Waiting(s, w, q, i) /\ w # <<>> /\ k = Head(w) /\ n = i + 1
      BY <1>2, <1>3, <2>2, <2>5, <3>1
    <3>3. /\ i + 1 \in 1 .. Len(q) /\ Waiting(s, Tail(w), q, i + 1)
          /\ k \in Seq(Cell) /\ k = ChunkOf(s, q[i + 1])
      BY <3>2, WaitingLess
    <3>. QED BY <3>1, <3>2, <3>3
  <2>7. Len(k) >= 1
    <3>1. PICK s, p : s = sent[c] /\ p = h[c][n]
      OBVIOUS
    <3>2. s \in Seq(SentMessage) /\ p.msg \in 1 .. Len(s) /\ p.part \in 1 .. Parts(s[p.msg]) /\ k = ChunkOf(s, p)
      BY <1>5, <2>2, <2>6, <3>1 DEF Queue
    <3>. QED BY <3>2, ChunkLength
  <2>9. PICK T : T = [y \in Csids |-> IF y = c THEN n ELSE t[y]]
    OBVIOUS
  <2>10. T[c] = n /\ \A y \in Csids : y # c => T[y] = t[y]
    BY <2>9
  <2>11. PICK x : x = [csid |-> c, nr |-> n]
    OBVIOUS
  <2>12. PICK E, V : E = Append(D, x) /\ V = Append(W, k)
    OBVIOUS
  <2>13. Stream(sent, buf, wire', h, T, r, E, V)
    BY <1>3, <2>2, <2>3, <2>4, <2>5, <2>6, <2>10, <2>11, <2>12, StreamMore
  <2>14. InTime(sent, inChunk, h, r, E)
    <3>1. c # Control => Control \notin Csids \/ t[Control] = Len(h[Control])
      <4>1. ASSUME Control \in Csids, pending[Control] = <<>> PROVE t[Control] = Len(h[Control])
        <5>1. Waiting(sent[Control], pending[Control], h[Control], t[Control]) /\ Queue(sent[Control], h[Control])
          BY <2>2, <4>1
        <5>2. Len(h[Control]) \in Nat
          BY <5>1 DEF Queue
        <5>. QED BY <4>1, <5>1, <5>2 DEF Waiting
      <4>. QED BY <1>3, <4>1
    <3>2. \A y \in Csids : Queue(sent[y], h[y]) /\ t[y] \in Nat /\ r[y] \in Nat
      BY <2>2, <2>4
    <3>. QED BY <1>5, <2>3, <2>5, <2>6, <2>11, <2>12, <3>1, <3>2, InTimeMore
  <2>15. Waits(sent, waiting, buf, h, E, V)
    <3>1. x \in [csid : Csids, nr : Nat]
      BY <2>11
    <3>. QED BY <2>3, <2>6, <2>7, <2>12, <3>1, WaitsMore
  <2>16. ASSUME NEW y \in Csids
         PROVE  /\ Queue(sent[y], h[y]) /\ Waiting(sent[y], pending'[y], h[y], T[y])
                /\ ReadSoFar(sent[y], received[y], inPrev[y], inPacket[y], inExt[y], inDelta[y], h[y], r[y], j[y])
                /\ r[y] \in Nat /\ r[y] <= T[y]
    <3>1. CASE y = c
      <4>1. r[c] <= n
        BY <2>2, <2>4, <2>5
      <4>. QED BY <1>7, <2>2, <2>6, <2>10, <3>1, <4>1
    <3>2. CASE y # c
      BY <1>7, <2>2, <2>10, <3>2
    <3>. QED BY <3>1, <3>2
  <2>17. Ghosts(h, T, r, j, E, V)'
    BY <1>4, <2>13, <2>14, <2>15, <2>16 DEF Ghosts
  <2>. QED BY <1>4, <1>8, <1>9, <1>10, <1>12, <2>17 DEF ChunkInv
<1>. QED BY <1>11, <1>12
-----------------------------------------------------------------------------
(* A segment arrives *)
LEMMA SegmentKeeps ==
  ASSUME ChunkInv, NEW n, Segment(n)
  PROVE  ChunkInv'
<1>1. WriterInv /\ ReaderTypes
  BY DEF ChunkInv
<1>2. /\ ~lost /\ n \in 1 .. Len(wire) /\ buf' = Glue(buf, SubSeq(wire, 1, n)) /\ wire' = Beyond(wire, n)
      /\ waiting' = FALSE
      /\ UNCHANGED <<writer, pending, inPrev, inPacket, inDelta, inExt, inChunk, received, lost>>
  BY DEF Segment, Glue, Beyond
<1>3. /\ outPrev' = outPrev /\ outDelta' = outDelta /\ sent' = sent /\ pending' = pending
      /\ inPrev' = inPrev /\ inPacket' = inPacket /\ inDelta' = inDelta /\ inExt' = inExt
      /\ inChunk' = inChunk /\ received' = received /\ lost' = lost
  BY <1>2 DEF writer
<1>4. WriterInv' /\ ReaderTypes'
  BY <1>1, <1>2, <1>3 DEF WriterInv, ReaderTypes
<1>5. \A y \in Csids : ReceivedAsSent(sent'[y], received'[y])
  BY <1>3 DEF ChunkInv
<1>6. PICK h, t, r, j, D, W : Ghosts(h, t, r, j, D, W)
  BY <1>2 DEF ChunkInv
<1>7. \A y \in Csids :
        /\ Queue(sent[y], h[y]) /\ Waiting(sent[y], pending[y], h[y], t[y])
        /\ ReadSoFar(sent[y], received[y], inPrev[y], inPacket[y], inExt[y], inDelta[y], h[y], r[y], j[y])
        /\ r[y] \in Nat /\ r[y] <= t[y]
  BY <1>6, Zenon DEF Ghosts
<1>8. Stream(sent, buf, wire, h, t, r, D, W) /\ InTime(sent, inChunk, h, r, D)
  BY <1>6, Zenon DEF Ghosts
<1>9. Stream(sent, buf', wire', h, t, r, D, W)
  <2>1. buf \in Seq(Cell) /\ wire \in Seq(Cell) /\ Consists(Glue(buf, wire), W)
    BY <1>8 DEF Stream
  <2>2. n \in Nat /\ n <= Len(wire)
    BY <1>2, <2>1, LenProperties
  <2>3. SubSeq(wire, 1, n) \in Seq(Cell) /\ Beyond(wire, n) \in Seq(Cell)
    BY <2>1, <2>2, FirstFacts, BeyondFacts
  <2>4. Glue(buf, SubSeq(wire, 1, n)) \in Seq(Cell)
    BY <2>1, <2>3, GlueFacts
  <2>5. Glue(buf', wire') = Glue(buf, wire)
    BY <1>2, <2>1, <2>2, Moved
  <2>. QED BY <1>2, <1>8, <2>1, <2>3, <2>4, <2>5 DEF Stream
<1>10. Waits(sent, waiting', buf', h, D, W)
  BY <1>2 DEF Waits
<1>11. Ghosts(h, t, r, j, D, W)'
  BY <1>3, <1>7, <1>8, <1>9, <1>10 DEF Ghosts
<1>. QED BY <1>2, <1>3, <1>4, <1>5, <1>11 DEF ChunkInv
-----------------------------------------------------------------------------
(* What is on its way *)
InPlace(S, h, t, r) ==
  /\ S \in [Csids -> Seq(SentMessage)]
  /\ \A y \in Csids : /\ Queue(S[y], h[y]) /\ t[y] \in Nat /\ t[y] <= Len(h[y])
                      /\ r[y] \in Nat /\ r[y] <= t[y]

(* Chunk k is number n of chunk stream c, part q of message i *)
IsChunk(S, h, k, c, n, i, q) ==
  /\ c \in Csids /\ n \in 1 .. Len(h[c]) /\ h[c][n].msg = i /\ h[c][n].part = q
  /\ i \in 1 .. Len(S[c]) /\ q \in 1 .. Parts(S[c][i]) /\ S[c][i] \in SentMessage
  /\ k = Chunk(S[c][i], q) /\ k \in Seq(Cell) /\ Len(k) \in Nat /\ Len(k) >= 1 /\ k[1].is = "basic"

LEMMA InStream ==
  ASSUME NEW S, NEW b, NEW u, NEW h, NEW t, NEW r, NEW D, NEW W, Stream(S, b, u, h, t, r, D, W),
         InPlace(S, h, t, r), NEW p \in 1 .. Len(D)
  PROVE  \E c, n, i, q : /\ IsChunk(S, h, W[p], c, n, i, q) /\ D[p] = [csid |-> c, nr |-> n]
                         /\ r[c] < n /\ n <= t[c]
<1>1. /\ D \in Seq([csid : Csids, nr : Nat])
      /\ r[D[p].csid] < D[p].nr /\ D[p].nr <= t[D[p].csid]
      /\ W[p] = ChunkOf(S[D[p].csid], h[D[p].csid][D[p].nr])
  BY Zenon DEF Stream
<1>2. D[p] \in [csid : Csids, nr : Nat]
  BY <1>1, ElementOfSeq
<1>3. PICK c \in Csids, n \in Nat : D[p] = [csid |-> c, nr |-> n]
  BY <1>2
<1>4. PICK s, g, l, k : s = S[c] /\ g = h[c] /\ l = Len(h[c]) /\ k = W[p]
  OBVIOUS
<1>5. r[c] < n /\ n <= t[c] /\ k = ChunkOf(s, g[n])
  BY <1>1, <1>3, <1>4
<1>6. s \in Seq(SentMessage) /\ Queue(s, g) /\ l = Len(g) /\ l \in Nat /\ t[c] \in Nat /\ t[c] <= l /\ r[c] \in Nat
  <2>1. Queue(s, g)
    BY <1>4 DEF InPlace
  <2>2. Len(g) \in Nat
    BY <2>1 DEF Queue
  <2>. QED BY <1>4, <2>1, <2>2 DEF InPlace
<1>7. n \in 1 .. Len(g)
  BY <1>5, <1>6
<1>8. PICK x : x = g[n]
  OBVIOUS
<1>9. x.msg \in 1 .. Len(s) /\ x.part \in 1 .. Parts(s[x.msg]) /\ k = ChunkOf(s, x)
  BY <1>5, <1>6, <1>7, <1>8 DEF Queue
<1>10. k \in Seq(Cell) /\ Len(k) \in Nat /\ Len(k) >= 1 /\ k[1].is = "basic"
  BY SMTT(20), <1>6, <1>9, ChunkLength
<1>11. s[x.msg] \in SentMessage /\ k = Chunk(s[x.msg], x.part)
  BY <1>6, <1>9, ElementOfSeq DEF ChunkOf
<1>12. IsChunk(S, h, k, c, n, x.msg, x.part)
  BY <1>4, <1>7, <1>8, <1>9, <1>10, <1>11 DEF IsChunk
<1>. QED BY <1>3, <1>4, <1>5, <1>12

(* The buffer starts with the first of them *)
LEMMA FirstInBuffer ==
  ASSUME NEW S, NEW b, b = buf, NEW u, NEW h, NEW t, NEW r, NEW D, NEW W, Stream(S, b, u, h, t, r, D, W),
         InPlace(S, h, t, r), Len(D) # 0
  PROVE  Starts(W[1])
<1>1. /\ D \in Seq([csid : Csids, nr : Nat]) /\ W \in Seq(Seq(Cell)) /\ Len(W) = Len(D)
      /\ b \in Seq(Cell) /\ u \in Seq(Cell) /\ Consists(Glue(b, u), W)
  BY Zenon DEF Stream
<1>2. PICK l \in Nat : l = Len(D) /\ l >= 1
  BY <1>1, LenProperties
<1>3. PICK g : g = Glue(b, u)
  OBVIOUS
<1>4. /\ g \in Seq(Cell) /\ Len(g) = Len(b) + Len(u) /\ Len(b) \in Nat /\ Len(u) \in Nat
      /\ \A i \in 1 .. Len(b) : g[i] = b[i]
  <2>1. b \in Seq(Cell) /\ u \in Seq(Cell)
    BY <1>1
  <2>2. /\ Glue(b, u) \in Seq(Cell) /\ Len(Glue(b, u)) = Len(b) + Len(u) /\ Len(b) \in Nat /\ Len(u) \in Nat
        /\ \A i \in 1 .. Len(b) : Glue(b, u)[i] = b[i]
        /\ \A i \in Len(b) + 1 .. Len(b) + Len(u) : Glue(b, u)[i] = u[i - Len(b)]
    BY <2>1, GlueCells
  <2>. QED BY <1>3, <2>2, Zenon
<1>5. W # <<>>
  BY <1>1, <1>2
<1>6. PICK k : k = W[1]
  OBVIOUS
<1>7. /\ Len(k) \in Nat /\ Len(k) <= Len(g)
      /\ \A x \in 1 .. Len(k) : g[x] = k[x]
      /\ Len(W) >= 2 /\ Len(W[2]) >= 1 => Len(g) > Len(k) /\ g[Len(k) + 1] = W[2][1]
      /\ Len(W) = 1 => Len(g) = Len(k)
  <2>1. /\ Len(W[1]) \in Nat /\ Len(W[1]) <= Len(g)
        /\ \A x \in 1 .. Len(W[1]) : g[x] = W[1][x]
        /\ Len(W) >= 2 /\ Len(W[2]) >= 1 => Len(g) > Len(W[1]) /\ g[Len(W[1]) + 1] = W[2][1]
        /\ Len(W) = 1 => Len(g) = Len(W[1])
    <3>1. g \in Seq(Cell) /\ W \in Seq(Seq(Cell)) /\ Consists(g, W)
      BY <1>1, <1>3, <1>4
    <3>. QED BY <1>5, <3>1, ConsistsLess
  <2>. QED BY <1>6, <2>1
<1>8. ASSUME NEW x \in 1 .. Len(k), x <= Len(b) PROVE b[x] = k[x]
  BY <1>4, <1>7, <1>8
<1>9. ASSUME Len(b) > Len(k) PROVE b[Len(k) + 1].is = "basic"
  <2>1. l # 1
    BY <1>1, <1>2, <1>4, <1>7, <1>9
  <2>2. 2 \in 1 .. Len(D)
    BY <1>2, <2>1
  <2>3. Len(W[2]) \in Nat /\ Len(W[2]) >= 1 /\ W[2][1].is = "basic"
    <3>1. PICK c, n, i, q : IsChunk(S, h, W[2], c, n, i, q)
      BY <2>2, InStream
    <3>. QED BY <3>1 DEF IsChunk
  <2>4. g[Len(k) + 1] = W[2][1]
    BY <1>1, <1>2, <1>7, <2>1, <2>3
  <2>5. Len(k) + 1 \in 1 .. Len(b)
    BY <1>4, <1>7, <1>9
  <2>. QED BY <1>4, <2>3, <2>4, <2>5
<1>. QED BY <1>1, <1>6, <1>8, <1>9 DEF Starts

(* A whole chunk that is not ambiguous has more cells than the reader asks *)
LEMMA WholeIsEnough ==
  ASSUME NEW s \in Seq(SentMessage), NEW i \in 1 .. Len(s), NEW q \in 1 .. Parts(s[i]), ~Ambiguous(s, i),
         NEW k, k = Chunk(s[i], q), Starts(k), Len(buf) >= Len(k)
  PROVE  ~NeedsHeader
<1>1. PICK m \in SentMessage : m = s[i]
  BY ElementOfSeq
<1>2. PICK l, n, j, f, y :
        l = Len(buf) /\ n = Len(k) /\ j = Ids(m.csid) /\ f = FormatOf(m, q) /\ y = Fields(f)
  OBVIOUS
<1>3. ShapeOf(k, m, q)
  BY <1>1, ChunkFacts
<1>4. /\ n = DataAt(m, q) - 1 + Units(m, q) /\ k[1].fmt = f /\ IdCells(k[1]) = j /\ k \in Seq(Cell)
  BY <1>2, <1>3, Zenon DEF ShapeOf
<1>5. /\ y \in 0 .. 4 /\ j \in 0 .. 2 /\ Units(m, q) \in Nat /\ DataAt(m, q) \in Nat
      /\ DataAt(m, q) >= 2 + j + y /\ f \in 0 .. 3 /\ (f # 3 => y >= 1)
  <2>1. /\ FormatOf(m, q) \in 0 .. 3 /\ Fields(FormatOf(m, q)) \in 0 .. 4 /\ Ids(m.csid) \in 0 .. 2
        /\ FieldsAt(m) = 2 + Ids(m.csid)
        /\ AfterFields(m, q) = FieldsAt(m) + Fields(FormatOf(m, q)) /\ AfterFields(m, q) \in Nat
        /\ DataAt(m, q) = AfterFields(m, q) + (IF Extended(m) THEN 1 ELSE 0) /\ DataAt(m, q) \in Nat
        /\ Units(m, q) \in Nat
        /\ FormatOf(m, q) # 3 => Fields(FormatOf(m, q)) >= 1
    BY <1>1, ShapeRanges
  <2>. QED BY <1>2, <2>1
<1>6. f = 3 => Units(m, q) >= 1
  <2>1. ASSUME f = 3 PROVE Units(m, q) >= 1
    <3>1. m.len \in Nat /\ m.fmt \in 0 .. 3 /\ Large \in Nat /\ Large > 0
      BY ChunkConstants DEF SentMessage
    <3>2. m.len > 0
      <4>1. CASE q = 1
        <5>1. m.fmt = 3
          BY <1>2, <2>1, <4>1 DEF FormatOf
        <5>. QED BY <1>1, <3>1, <5>1 DEF Ambiguous
      <4>2. CASE q # 1
        <5>1. Parts(m) \in Nat /\ q \in 1 .. Parts(m) /\ (m.len <= Large => Parts(m) = 1)
          BY <1>1, PartsFacts
        <5>. QED BY <3>1, <4>2, <5>1
      <4>. QED BY <4>1, <4>2
    <3>3. Left(m, q) \in Nat /\ Left(m, q) > 0
      BY <1>1, <3>2, PartsFacts
    <3>. QED BY <3>1, <3>3 DEF Units
  <2>. QED BY <2>1
<1>7. n \in Nat /\ l \in Nat /\ n >= 1 + j + y /\ n > 1 + j /\ l >= n
  <2>1. l \in Nat /\ n \in Nat
    BY <1>2, <1>4, LenProperties DEF Starts
  <2>2. PICK d \in Nat, z \in Nat : d = DataAt(m, q) /\ z = Units(m, q)
    BY <1>5
  <2>3. n = d - 1 + z /\ d >= 2 + j + y /\ (f = 3 => z >= 1)
    BY <1>4, <1>5, <1>6, <2>2
  <2>4. j \in Nat /\ y \in Nat /\ (f # 3 => y >= 1)
    BY <1>5
  <2>5. d \in Nat /\ z \in Nat
    BY <2>2
  <2>6. y >= 1 \/ z >= 1
    BY <2>3, <2>4
  <2>7. n = d - 1 + z /\ d >= 2 + j + y
    BY <2>3
  <2>8. n >= 1 + j + y /\ n > 1 + j
    BY <2>1, <2>4, <2>5, <2>6, <2>7
  <2>9. Len(k) = n /\ Len(buf) = l
    BY <1>2
  <2>10. l >= n
    BY <2>9
  <2>. QED BY <2>1, <2>8, <2>10
<1>8. buf[1] = k[1]
  <2>1. 1 \in 1 .. Len(k) /\ 1 <= Len(buf)
    <3>1. j \in Nat /\ y \in Nat
      BY <1>5
    <3>2. Len(k) = n /\ Len(buf) = l
      BY <1>2
    <3>. QED BY <1>7, <3>1, <3>2
  <2>. QED BY <2>1 DEF Starts
<1>9. IdCells(buf[1]) = j /\ Fields(buf[1].fmt) = y
  BY <1>2, <1>4, <1>8
<1>10. j \in Nat /\ y \in Nat
  BY <1>5
<1>11. Len(buf) = l
  BY <1>2
<1>. QED BY <1>7, <1>9, <1>10, <1>11 DEF NeedsHeader

LEMMA GhostsFacts ==
  ASSUME ChunkInv, NEW h, NEW t, NEW r, NEW j, NEW D, NEW W, Ghosts(h, t, r, j, D, W)
  PROVE  /\ \A y \in Csids :
              /\ Queue(sent[y], h[y]) /\ Waiting(sent[y], pending[y], h[y], t[y])
              /\ ReadSoFar(sent[y], received[y], inPrev[y], inPacket[y], inExt[y], inDelta[y], h[y], r[y], j[y])
              /\ r[y] \in Nat /\ r[y] <= t[y]
         /\ Stream(sent, buf, wire, h, t, r, D, W) /\ InTime(sent, inChunk, h, r, D)
         /\ Waits(sent, waiting, buf, h, D, W)
         /\ InPlace(sent, h, t, r) /\ Written(sent)
<1>1. /\ \A y \in Csids :
           /\ Queue(sent[y], h[y]) /\ Waiting(sent[y], pending[y], h[y], t[y])
           /\ ReadSoFar(sent[y], received[y], inPrev[y], inPacket[y], inExt[y], inDelta[y], h[y], r[y], j[y])
           /\ r[y] \in Nat /\ r[y] <= t[y]
      /\ Stream(sent, buf, wire, h, t, r, D, W) /\ InTime(sent, inChunk, h, r, D)
      /\ Waits(sent, waiting, buf, h, D, W)
  BY Zenon DEF Ghosts
<1>2. Written(sent)
  BY Zenon DEF ChunkInv, WriterInv
<1>3. sent \in [Csids -> Seq(SentMessage)]
  BY <1>2, Zenon DEF Written
<1>4. \A y \in Csids : t[y] \in Nat /\ t[y] <= Len(h[y])
  BY <1>1, Zenon DEF Waiting
<1>5. InPlace(sent, h, t, r)
  BY <1>1, <1>3, <1>4 DEF InPlace
<1>. QED BY <1>1, <1>2, <1>5, Zenon

(* The reader returns *)
LEMMA ReturnKeeps ==
  ASSUME ChunkInv, Return
  PROVE  ChunkInv'
<1>1. WriterInv /\ ReaderTypes
  BY DEF ChunkInv
<1>2. /\ ~lost /\ NeedsHeader /\ waiting' = TRUE
      /\ UNCHANGED <<writer, pending, wire, buf, inPrev, inPacket, inDelta, inExt, inChunk, received, lost>>
  BY DEF Return
<1>3. /\ outPrev' = outPrev /\ outDelta' = outDelta /\ sent' = sent /\ pending' = pending /\ wire' = wire /\ buf' = buf
      /\ inPrev' = inPrev /\ inPacket' = inPacket /\ inDelta' = inDelta /\ inExt' = inExt
      /\ inChunk' = inChunk /\ received' = received /\ lost' = lost
  BY <1>2 DEF writer
<1>4. WriterInv' /\ ReaderTypes'
  BY <1>1, <1>2, <1>3 DEF WriterInv, ReaderTypes
<1>5. \A y \in Csids : ReceivedAsSent(sent'[y], received'[y])
  BY <1>3 DEF ChunkInv
<1>6. PICK h, t, r, j, D, W : Ghosts(h, t, r, j, D, W)
  BY <1>2 DEF ChunkInv
<1>7. /\ \A y \in Csids :
           /\ Queue(sent[y], h[y]) /\ Waiting(sent[y], pending[y], h[y], t[y])
           /\ ReadSoFar(sent[y], received[y], inPrev[y], inPacket[y], inExt[y], inDelta[y], h[y], r[y], j[y])
           /\ r[y] \in Nat /\ r[y] <= t[y]
      /\ Stream(sent, buf, wire, h, t, r, D, W) /\ InTime(sent, inChunk, h, r, D)
      /\ Waits(sent, waiting, buf, h, D, W)
      /\ InPlace(sent, h, t, r) /\ Written(sent)
  BY <1>6, GhostsFacts
<1>8. Waits(sent, TRUE, buf, h, D, W)
  <2>1. ASSUME Len(D) # 0, ~Ambiguous(sent[D[1].csid], h[D[1].csid][D[1].nr].msg) PROVE Len(buf) < Len(W[1])
    <3>1. 1 \in 1 .. Len(D)
      BY <1>7, <2>1, LenProperties DEF Stream
    <3>2. PICK c, n, i, q : IsChunk(sent, h, W[1], c, n, i, q) /\ D[1] = [csid |-> c, nr |-> n]
      BY <1>7, <3>1, InStream
    <3>3. PICK s, k : s = sent[c] /\ k = W[1]
      OBVIOUS
    <3>4. /\ c \in Csids /\ h[c][n].msg = i /\ i \in 1 .. Len(s) /\ q \in 1 .. Parts(s[i])
          /\ k = Chunk(s[i], q) /\ Len(k) \in Nat
      BY <3>2, <3>3 DEF IsChunk
    <3>5. s \in Seq(SentMessage) /\ ~Ambiguous(s, i)
      BY <1>7, <2>1, <3>2, <3>3, <3>4 DEF InPlace
    <3>6. Starts(k)
      BY <1>7, <2>1, <3>3, FirstInBuffer
    <3>7. ~(Len(buf) >= Len(k))
      BY <1>2, <3>4, <3>5, <3>6, WholeIsEnough
    <3>8. Len(buf) \in Nat
      BY <3>6, LenProperties DEF Starts
    <3>. QED BY <3>3, <3>4, <3>7, <3>8
  <2>. QED BY <2>1 DEF Waits
<1>9. Ghosts(h, t, r, j, D, W)'
  BY <1>2, <1>3, <1>7, <1>8 DEF Ghosts
<1>. QED BY <1>2, <1>3, <1>4, <1>5, <1>9 DEF ChunkInv
-----------------------------------------------------------------------------
(* The first chunk on its way: the next one of its chunk stream *)
FirstOf(S, b, u, h, t, r, D, W, c, n, i, q) ==
  /\ Stream(S, b, u, h, t, r, D, W) /\ InPlace(S, h, t, r) /\ Len(D) # 0
  /\ IsChunk(S, h, W[1], c, n, i, q) /\ D[1] = [csid |-> c, nr |-> n] /\ n = r[c] + 1

LEMMA NextChunk ==
  ASSUME NEW S, NEW b, NEW u, NEW h, NEW t, NEW r, NEW D, NEW W, Stream(S, b, u, h, t, r, D, W),
         InPlace(S, h, t, r), Len(D) # 0
  PROVE  \E c, n, i, q : FirstOf(S, b, u, h, t, r, D, W, c, n, i, q)
<1>1. /\ D \in Seq([csid : Csids, nr : Nat])
      /\ \A p, q \in 1 .. Len(D) : p < q /\ D[p].csid = D[q].csid => D[p].nr < D[q].nr
      /\ \A y \in Csids : \A i \in Nat : r[y] < i /\ i <= t[y] =>
           \E p \in 1 .. Len(D) : D[p].csid = y /\ D[p].nr = i
  BY Zenon DEF Stream
<1>2. PICK l \in Nat : l = Len(D) /\ l >= 1
  BY <1>1, LenProperties
<1>3. 1 \in 1 .. Len(D)
  BY <1>2
<1>4. PICK c, n, i, q : /\ IsChunk(S, h, W[1], c, n, i, q) /\ D[1] = [csid |-> c, nr |-> n]
                        /\ r[c] < n /\ n <= t[c]
  BY <1>3, InStream
<1>5. c \in Csids /\ n \in Nat /\ r[c] \in Nat /\ t[c] \in Nat
  <2>1. c \in Csids /\ n \in 1 .. Len(h[c])
    BY <1>4 DEF IsChunk
  <2>2. n \in Nat
    BY <2>1
  <2>. QED BY <2>1, <2>2 DEF InPlace
<1>6. n = r[c] + 1
  <2>1. PICK x \in Nat : x = r[c] + 1
    BY <1>5
  <2>2. r[c] < x /\ x <= t[c]
    BY <1>4, <1>5, <2>1
  <2>3. PICK p \in 1 .. l : D[p].csid = c /\ D[p].nr = x
    BY <1>1, <1>2, <1>5, <2>2
  <2>4. CASE p = 1
    BY <1>4, <2>1, <2>3, <2>4
  <2>5. CASE p # 1
    <3>1. 1 < p /\ D[1].csid = D[p].csid
      BY <1>4, <2>3, <2>5
    <3>2. D[1].nr < D[p].nr
      BY <1>1, <1>2, <1>3, <3>1
    <3>. QED BY <1>4, <1>5, <2>1, <2>3, <3>2
  <2>. QED BY <2>4, <2>5
<1>7. FirstOf(S, b, u, h, t, r, D, W, c, n, i, q)
  BY <1>4, <1>6 DEF FirstOf
<1>. QED BY <1>7

(* It is taken from the buffer; R: r after that *)
LEMMA StreamLess ==
  ASSUME NEW S, NEW b, NEW u, NEW h, NEW t, NEW r, NEW D, NEW W, NEW c, NEW n, NEW i, NEW q,
         FirstOf(S, b, u, h, t, r, D, W, c, n, i, q), Len(W[1]) <= Len(b),
         NEW R, R[c] = n, \A y \in Csids : y # c => R[y] = r[y]
  PROVE  Stream(S, Beyond(b, Len(W[1])), u, h, t, R, Tail(D), Tail(W))
<1>1. Stream(S, b, u, h, t, r, D, W) /\ InPlace(S, h, t, r) /\ Len(D) # 0
      /\ IsChunk(S, h, W[1], c, n, i, q) /\ D[1] = [csid |-> c, nr |-> n] /\ n = r[c] + 1
  BY DEF FirstOf
<1>2. /\ D \in Seq([csid : Csids, nr : Nat]) /\ W \in Seq(Seq(Cell)) /\ Len(W) = Len(D)
      /\ b \in Seq(Cell) /\ u \in Seq(Cell) /\ Consists(Glue(b, u), W)
      /\ \A p \in 1 .. Len(D) : /\ r[D[p].csid] < D[p].nr /\ D[p].nr <= t[D[p].csid]
                                /\ W[p] = ChunkOf(S[D[p].csid], h[D[p].csid][D[p].nr])
      /\ \A p, x \in 1 .. Len(D) : p < x /\ D[p].csid = D[x].csid => D[p].nr < D[x].nr
      /\ \A y \in Csids : \A x \in Nat : r[y] < x /\ x <= t[y] =>
           \E p \in 1 .. Len(D) : D[p].csid = y /\ D[p].nr = x
  BY <1>1, Zenon DEF Stream
<1>3. PICK l \in Nat : l = Len(D) /\ l >= 1
  BY <1>1, <1>2, LenProperties
<1>4. PICK E, V, k : E = Tail(D) /\ V = Tail(W) /\ k = W[1]
  OBVIOUS
<1>5. /\ E \in Seq([csid : Csids, nr : Nat]) /\ Len(E) = l - 1
      /\ \A p \in 1 .. l - 1 : E[p] = D[p + 1]
  <2>1. D # <<>>
    BY <1>2, <1>3
  <2>. QED BY <1>2, <1>3, <1>4, <2>1, RestFacts
<1>6. /\ V \in Seq(Seq(Cell)) /\ Len(V) = l - 1 /\ W # <<>>
      /\ \A p \in 1 .. l - 1 : V[p] = W[p + 1]
  <2>1. W # <<>>
    BY <1>2, <1>3
  <2>. QED BY <1>2, <1>3, <1>4, <2>1, RestFacts
<1>7. Len(k) \in Nat /\ Len(k) <= Len(b) /\ c \in Csids /\ n \in Nat /\ r[c] \in Nat
  <2>1. Len(k) \in Nat /\ c \in Csids /\ n \in 1 .. Len(h[c])
    BY <1>1, <1>4 DEF IsChunk
  <2>2. r[c] \in Nat /\ n \in Nat
    BY <1>1, <2>1 DEF InPlace
  <2>. QED BY <1>4, <2>1, <2>2
<1>8. Beyond(b, Len(k)) \in Seq(Cell) /\ Consists(Glue(Beyond(b, Len(k)), u), V)
  <2>1. PICK g : g = Glue(b, u)
    OBVIOUS
  <2>2. g \in Seq(Cell) /\ Consists(g, W)
    BY <1>2, <2>1, GlueFacts
  <2>3. Consists(Beyond(g, Len(W[1])), Tail(W))
    BY <1>2, <1>6, <2>2, ConsistsLess
  <2>4. Glue(Beyond(b, Len(k)), u) = Beyond(g, Len(k))
    BY <1>2, <1>7, <2>1, TakenOff
  <2>5. Beyond(b, Len(k)) \in Seq(Cell)
    BY <1>2, <1>7, BeyondFacts
  <2>. QED BY <1>4, <2>3, <2>4, <2>5
<1>9. ASSUME NEW p \in 1 .. l - 1
      PROVE  /\ R[E[p].csid] < E[p].nr /\ E[p].nr <= t[E[p].csid]
             /\ V[p] = ChunkOf(S[E[p].csid], h[E[p].csid][E[p].nr])
  <2>1. p + 1 \in 1 .. l /\ 1 \in 1 .. l /\ 1 < p + 1
    BY <1>3
  <2>2. D[p + 1] \in [csid : Csids, nr : Nat]
    BY <1>2, <1>3, <2>1, ElementOfSeq
  <2>3. PICK y \in Csids, x \in Nat : D[p + 1] = [csid |-> y, nr |-> x]
    BY <2>2
  <2>4. r[y] < x /\ x <= t[y] /\ W[p + 1] = ChunkOf(S[y], h[y][x])
    <3>1. D[p + 1].csid = y /\ D[p + 1].nr = x
      BY <2>3
    <3>. QED BY <1>2, <1>3, <2>1, <3>1
  <2>5. R[y] < x
    <3>1. CASE y = c
      <4>1. D[1].csid = D[p + 1].csid /\ D[1].nr = n /\ D[p + 1].nr = x
        BY <1>1, <2>3, <3>1
      <4>2. D[1].nr < D[p + 1].nr
        BY <1>2, <1>3, <2>1, <4>1
      <4>. QED BY <3>1, <4>1, <4>2
    <3>2. CASE y # c
      BY <2>4, <3>2
    <3>. QED BY <3>1, <3>2
  <2>6. E[p].csid = y /\ E[p].nr = x /\ V[p] = W[p + 1]
    BY SMTT(20), <1>5, <1>6, <2>3
  <2>. QED BY <2>4, <2>5, <2>6
<1>10. ASSUME NEW p \in 1 .. l - 1, NEW x \in 1 .. l - 1, p < x, E[p].csid = E[x].csid
       PROVE  E[p].nr < E[x].nr
  <2>1. p + 1 \in 1 .. l /\ x + 1 \in 1 .. l /\ p + 1 < x + 1
    BY <1>3, <1>10
  <2>2. E[p] = D[p + 1] /\ E[x] = D[x + 1]
    BY <1>5
  <2>3. PICK y, z : y = p + 1 /\ z = x + 1
    OBVIOUS
  <2>4. D[y].csid = D[z].csid /\ y \in 1 .. Len(D) /\ z \in 1 .. Len(D) /\ y < z
    BY <1>3, <1>10, <2>1, <2>2, <2>3
  <2>5. D[y].nr < D[z].nr
    BY <1>2, <2>4
  <2>. QED BY <2>2, <2>3, <2>5
<1>11. ASSUME NEW y \in Csids, NEW x \in Nat, R[y] < x, x <= t[y]
       PROVE  \E p \in 1 .. l - 1 : E[p].csid = y /\ E[p].nr = x
  <2>1. r[y] < x /\ (y = c => n < x)
    <3>1. CASE y = c
      BY <1>1, <1>7, <1>11, <3>1
    <3>2. CASE y # c
      BY <1>11, <3>2
    <3>. QED BY <3>1, <3>2
  <2>2. PICK p \in 1 .. l : D[p].csid = y /\ D[p].nr = x
    BY <1>2, <1>3, <1>11, <2>1
  <2>3. p # 1
    BY <1>1, <1>7, <2>1, <2>2
  <2>4. PICK z \in 1 .. l - 1 : z + 1 = p
    <3>1. p - 1 \in 1 .. l - 1 /\ (p - 1) + 1 = p
      BY <2>3
    <3>. QED BY <3>1
  <2>5. E[z] = D[p]
    BY <1>5, <2>4
  <2>. QED BY <2>2, <2>5
<1>12. Stream(S, Beyond(b, Len(k)), u, h, t, R, E, V)
  BY SMTT(20), <1>2, <1>5, <1>6, <1>8, <1>9, <1>10, <1>11 DEF Stream
<1>. QED BY <1>4, <1>12
LEMMA InTimeLess ==
  ASSUME NEW S, NEW b, NEW u, NEW h, NEW t, NEW r, NEW D, NEW W, NEW c, NEW n, NEW i, NEW q,
         FirstOf(S, b, u, h, t, r, D, W, c, n, i, q), NEW l, InTime(S, l, h, r, D),
         NEW R, R[c] = n, \A y \in Csids : y # c => R[y] = r[y],
         NEW o, l = Large => o = Large, c = Control /\ Announces(S[c][i]) => o = Large
  PROVE  InTime(S, o, h, R, Tail(D))
<1>1. Stream(S, b, u, h, t, r, D, W) /\ InPlace(S, h, t, r) /\ Len(D) # 0
      /\ IsChunk(S, h, W[1], c, n, i, q) /\ D[1] = [csid |-> c, nr |-> n] /\ n = r[c] + 1
  BY DEF FirstOf
<1>2. D \in Seq([csid : Csids, nr : Nat])
  BY <1>1, Zenon DEF Stream
<1>3. PICK e \in Nat : e = Len(D) /\ e >= 1
  BY <1>1, <1>2, LenProperties
<1>4. PICK E : E = Tail(D)
  OBVIOUS
<1>5. /\ Len(E) = e - 1
      /\ \A p \in 1 .. e - 1 : E[p] = D[p + 1]
  <2>1. D # <<>>
    BY <1>2, <1>3
  <2>. QED BY <1>2, <1>3, <1>4, <2>1, RestFacts
<1>6. /\ Control \in Csids =>
           \A x \in 1 .. Len(h[Control]) :
             x <= r[Control] /\ Announces(S[Control][h[Control][x].msg]) => l = Large
      /\ \A p \in 1 .. Len(D) : MessageOf(S, h, D[p]).len > Small =>
           l = Large \/ \E x \in 1 .. Len(D) : x < p /\ D[x].csid = Control /\ Announces(MessageOf(S, h, D[x]))
  BY Zenon DEF InTime
<1>7. c \in Csids /\ h[c][n].msg = i /\ n \in Nat /\ r[c] \in Nat
  <2>1. c \in Csids /\ h[c][n].msg = i /\ n \in 1 .. Len(h[c])
    BY <1>1 DEF IsChunk
  <2>2. n \in Nat
    BY <2>1
  <2>. QED BY <1>1, <2>1, <2>2 DEF InPlace
<1>8. D[1].csid = Control /\ Announces(MessageOf(S, h, D[1])) => o = Large
  <2>1. D[1].csid = c /\ D[1].nr = n
    BY <1>1
  <2>. QED BY <1>7, <2>1 DEF MessageOf
<1>9. ASSUME Control \in Csids, NEW x \in 1 .. Len(h[Control]), x <= R[Control],
             Announces(S[Control][h[Control][x].msg])
      PROVE  o = Large
  <2>1. CASE x <= r[Control]
    BY <1>6, <1>9, <2>1
  <2>2. CASE ~(x <= r[Control])
    <3>1. c = Control
      BY <1>9, <2>2
    <3>2. x = n
      BY <1>1, <1>7, <1>9, <2>2, <3>1
    <3>. QED BY <1>7, <1>9, <3>1, <3>2
  <2>. QED BY <2>1, <2>2
<1>10. ASSUME NEW p \in 1 .. e - 1, MessageOf(S, h, E[p]).len > Small, o # Large
       PROVE  \E x \in 1 .. e - 1 : x < p /\ E[x].csid = Control /\ Announces(MessageOf(S, h, E[x]))
  <2>1. PICK y \in 1 .. e : y = p + 1
    BY <1>3
  <2>2. MessageOf(S, h, D[y]).len > Small
    BY <1>5, <1>10, <2>1
  <2>3. PICK x \in 1 .. e : x < y /\ D[x].csid = Control /\ Announces(MessageOf(S, h, D[x]))
    BY <1>3, <1>6, <1>10, <2>2
  <2>4. x # 1
    BY <1>8, <1>10, <2>3
  <2>5. PICK z \in 1 .. e - 1 : z + 1 = x
    <3>1. x - 1 \in 1 .. e - 1 /\ (x - 1) + 1 = x
      BY <2>4
    <3>. QED BY <3>1
  <2>6. E[z] = D[x] /\ z < p
    BY <1>5, <2>1, <2>3, <2>5
  <2>. QED BY <2>3, <2>6
<1>11. InTime(S, o, h, R, E)
  BY <1>5, <1>9, <1>10 DEF InTime
<1>. QED BY <1>4, <1>11
-----------------------------------------------------------------------------
(* What a chunk stream has received *)
LEMMA AsSent ==
  ASSUME NEW s, NEW a, NEW v, NEW p, NEW e, NEW d, NEW h, NEW r, NEW j, ReadSoFar(s, a, v, p, e, d, h, r, j)
  PROVE  ReceivedAsSent(s, a)
BY DEF ReadSoFar, ReceivedAsSent

(* Chunk r + 1 is that of part q of message i                              *)
Reached(s, a, h, r, j, i, q) ==
  /\ s \in Seq(SentMessage) /\ a \in Seq(HeaderType) /\ Queue(s, h) /\ r \in Nat /\ r < Len(h)
  /\ Len(a) <= Len(s) /\ \A x \in 1 .. Len(a) : ~Ambiguous(s, x) /\ Matches(a[x], s, x)
  /\ j \in Nat /\ i = Len(a) + 1 /\ q = j + 1 /\ h[r + 1] = [msg |-> i, part |-> q]
  /\ i \in 1 .. Len(s) /\ q \in 1 .. Parts(s[i])

LEMMA ReadLast ==
  ASSUME NEW s, NEW a, NEW h, NEW r, NEW j, NEW i, NEW q, Reached(s, a, h, r, j, i, q), q = Parts(s[i]),
         ~Ambiguous(s, i), NEW o \in HeaderType, Matches(o, s, i), NEW e, NEW d, Fresh(NoPacket, e, d, s, i + 1)
  PROVE  ReadSoFar(s, Append(a, o), o, NoPacket, e, d, h, r + 1, 0)
<1>1. /\ s \in Seq(SentMessage) /\ a \in Seq(HeaderType) /\ Queue(s, h) /\ r \in Nat /\ r < Len(h)
      /\ Len(a) <= Len(s) /\ \A x \in 1 .. Len(a) : ~Ambiguous(s, x) /\ Matches(a[x], s, x)
      /\ j \in Nat /\ i = Len(a) + 1 /\ q = j + 1 /\ h[r + 1] = [msg |-> i, part |-> q]
      /\ i \in 1 .. Len(s) /\ q \in 1 .. Parts(s[i])
  BY DEF Reached
<1>2. PICK b : b = Append(a, o)
  OBVIOUS
<1>3. Len(b) = i /\ b[i] = o /\ Len(a) \in Nat /\ \A x \in 1 .. Len(a) : b[x] = a[x]
  BY <1>1, <1>2, MoreFacts
<1>4. ASSUME NEW x \in 1 .. i PROVE ~Ambiguous(s, x) /\ Matches(b[x], s, x)
  <2>1. CASE x \in 1 .. Len(a)
    BY <1>1, <1>3, <2>1
  <2>2. CASE x = i
    BY <1>3, <2>2
  <2>. QED BY <1>1, <1>3, <2>1, <2>2
<1>5. StandsAt(o, NoPacket, e, d, s, i + 1, 0)
  <2>1. (i + 1) - 1 = i
    BY <1>1
  <2>. QED BY <2>1 DEF StandsAt
<1>6. PICK n \in Nat, l \in Nat : n = r + 1 /\ l = Len(h)
  <2>1. h \in Seq(Pos)
    BY <1>1 DEF Queue
  <2>2. r + 1 \in Nat /\ Len(h) \in Nat
    BY <1>1, <2>1
  <2>. QED BY <2>2
<1>7. n \in 1 .. l /\ h[n] = [msg |-> i, part |-> q]
  BY <1>1, <1>6
<1>8. n < l => h[n + 1] = [msg |-> i + 1, part |-> 1]
  <2>1. ASSUME n < l PROVE h[n + 1] = [msg |-> i + 1, part |-> 1]
    <3>1. n + 1 \in 1 .. l
      BY <1>6, <2>1
    <3>2. h[n + 1] = After(s, h[n])
      BY <1>1, <1>6, <1>7, <3>1 DEF Queue
    <3>3. h[n].msg = i /\ h[n].part = q /\ ~(h[n].part < Parts(s[h[n].msg]))
      <4>1. h[n].msg = i /\ h[n].part = q
        BY <1>7
      <4>2. ~(q < q)
        BY <1>1
      <4>. QED BY <4>1, <4>2
    <3>. QED BY <3>2, <3>3 DEF After
  <2>. QED BY <2>1
<1>9. n = l => i = Len(s)
  BY <1>1, <1>6, <1>7 DEF Queue
<1>10. ReadSoFar(s, b, o, NoPacket, e, d, h, n, 0)
  <2>1. Len(b) <= Len(s) /\ \A x \in 1 .. Len(b) : ~Ambiguous(s, x) /\ Matches(b[x], s, x)
    BY <1>1, <1>3, <1>4
  <2>2. StandsAt(o, NoPacket, e, d, s, Len(b) + 1, 0)
    BY <1>3, <1>5
  <2>3. n < Len(h) => h[n + 1] = [msg |-> Len(b) + 1, part |-> 0 + 1]
    BY <1>3, <1>6, <1>8
  <2>4. n = Len(h) => Len(b) = Len(s)
    BY <1>3, <1>6, <1>9
  <2>. QED BY <2>1, <2>2, <2>3, <2>4 DEF ReadSoFar
<1>. QED BY <1>2, <1>6, <1>10

LEMMA ReadPart ==
  ASSUME NEW s, NEW a, NEW h, NEW r, NEW j, NEW i, NEW q, Reached(s, a, h, r, j, i, q), q < Parts(s[i]),
         NEW o, NEW p, NEW e, NEW d, Within(o, p, e, d, s, i, q)
  PROVE  ReadSoFar(s, a, o, p, e, d, h, r + 1, q)
<1>1. /\ s \in Seq(SentMessage) /\ a \in Seq(HeaderType) /\ Queue(s, h) /\ r \in Nat /\ r < Len(h)
      /\ Len(a) <= Len(s) /\ \A x \in 1 .. Len(a) : ~Ambiguous(s, x) /\ Matches(a[x], s, x)
      /\ j \in Nat /\ i = Len(a) + 1 /\ q = j + 1 /\ h[r + 1] = [msg |-> i, part |-> q]
      /\ i \in 1 .. Len(s) /\ q \in 1 .. Parts(s[i])
  BY DEF Reached
<1>2. StandsAt(o, p, e, d, s, i, q)
  BY <1>1 DEF StandsAt
<1>3. PICK n \in Nat, l \in Nat : n = r + 1 /\ l = Len(h)
  <2>1. h \in Seq(Pos)
    BY <1>1 DEF Queue
  <2>2. r + 1 \in Nat /\ Len(h) \in Nat
    BY <1>1, <2>1
  <2>. QED BY <2>2
<1>4. n \in 1 .. l /\ h[n] = [msg |-> i, part |-> q] /\ q \in Nat
  BY <1>1, <1>3
<1>5. n < l => h[n + 1] = [msg |-> i, part |-> q + 1]
  <2>1. ASSUME n < l PROVE h[n + 1] = [msg |-> i, part |-> q + 1]
    <3>1. n + 1 \in 1 .. l
      BY <1>3, <2>1
    <3>2. h[n + 1] = After(s, h[n])
      BY <1>1, <1>3, <1>4, <3>1 DEF Queue
    <3>3. h[n].msg = i /\ h[n].part = q /\ h[n].part < Parts(s[h[n].msg])
      BY <1>4
    <3>. QED BY <3>2, <3>3 DEF After
  <2>. QED BY <2>1
<1>6. n # l
  <2>1. ASSUME n = l PROVE FALSE
    <3>1. h[n].part = Parts(s[h[n].msg])
      BY <1>1, <1>3, <1>4, <2>1 DEF Queue
    <3>2. q = Parts(s[i])
      BY <1>4, <3>1
    <3>. QED BY <1>4, <3>2
  <2>. QED BY <2>1
<1>7. ReadSoFar(s, a, o, p, e, d, h, n, q)
  BY <1>1, <1>2, <1>3, <1>4, <1>5, <1>6 DEF ReadSoFar
<1>. QED BY <1>3, <1>7
-----------------------------------------------------------------------------
(* parseMessage: one round of its loop *)

(* The first chunk in the buffer is number n of chunk stream c, part q of  *)
(* message i                                                               *)
Facing(h, t, r, j, D, W, c, n, i, q) ==
  /\ ChunkInv /\ ~lost /\ ~waiting /\ ~NeedsHeader
  /\ Ghosts(h, t, r, j, D, W) /\ FirstOf(sent, buf, wire, h, t, r, D, W, c, n, i, q)
  /\ Reached(sent[c], received[c], h[c], r[c], j[c], i, q)
  /\ StandsAt(inPrev[c], inPacket[c], inExt[c], inDelta[c], sent[c], i, j[c])
  /\ GoodMessage(sent[c], i) /\ sent[c][i].csid = c /\ Starts(W[1])
  /\ sent[c][i].len <= Small \/ inChunk = Large

LEMMA ParseFaces ==
  ASSUME ChunkInv, ParseChunk
  PROVE  \E h, t, r, j, D, W, c, n, i, q : Facing(h, t, r, j, D, W, c, n, i, q)
<1>1. ~lost /\ ~waiting /\ ~NeedsHeader
  BY DEF ParseChunk
<1>2. PICK h, t, r, j, D, W : Ghosts(h, t, r, j, D, W)
  BY <1>1 DEF ChunkInv
<1>3. /\ \A y \in Csids :
           /\ Queue(sent[y], h[y]) /\ Waiting(sent[y], pending[y], h[y], t[y])
           /\ ReadSoFar(sent[y], received[y], inPrev[y], inPacket[y], inExt[y], inDelta[y], h[y], r[y], j[y])
           /\ r[y] \in Nat /\ r[y] <= t[y]
      /\ Stream(sent, buf, wire, h, t, r, D, W) /\ InTime(sent, inChunk, h, r, D)
      /\ Waits(sent, waiting, buf, h, D, W)
      /\ InPlace(sent, h, t, r) /\ Written(sent)
  BY <1>2, GhostsFacts
<1>4. Len(D) # 0
  <2>1. ASSUME Len(D) = 0 PROVE FALSE
    <3>1. /\ D \in Seq([csid : Csids, nr : Nat]) /\ W \in Seq(Seq(Cell)) /\ Len(W) = Len(D)
          /\ buf \in Seq(Cell) /\ wire \in Seq(Cell) /\ Consists(Glue(buf, wire), W)
      BY <1>3, Zenon DEF Stream
    <3>2. PICK cut : Cuts(Glue(buf, wire), W, cut)
      BY <3>1 DEF Consists
    <3>3. Len(Glue(buf, wire)) = 0
      BY <2>1, <3>1, <3>2 DEF Cuts
    <3>4. Len(Glue(buf, wire)) = Len(buf) + Len(wire) /\ Len(buf) \in Nat /\ Len(wire) \in Nat
      BY <3>1, GlueFacts
    <3>5. PICK y \in Nat, z \in Nat : y = Len(buf) /\ z = Len(wire)
      BY <3>4
    <3>6. y + z = 0
      BY <3>3, <3>4, <3>5
    <3>7. Len(buf) <= 1
      BY <3>5, <3>6
    <3>. QED BY <1>1, <3>7 DEF NeedsHeader
  <2>. QED BY <2>1
<1>5. PICK c, n, i, q : FirstOf(sent, buf, wire, h, t, r, D, W, c, n, i, q)
  BY <1>3, <1>4, NextChunk
<1>6. IsChunk(sent, h, W[1], c, n, i, q) /\ D[1] = [csid |-> c, nr |-> n] /\ n = r[c] + 1
  BY <1>5 DEF FirstOf
<1>7. /\ c \in Csids /\ n \in 1 .. Len(h[c]) /\ h[c][n].msg = i /\ h[c][n].part = q
      /\ i \in 1 .. Len(sent[c]) /\ q \in 1 .. Parts(sent[c][i])
  BY <1>6 DEF IsChunk
<1>8. ReaderTypes
  BY DEF ChunkInv
<1>9. Reached(sent[c], received[c], h[c], r[c], j[c], i, q)
  <2>1. PICK s, a, g, x, y : s = sent[c] /\ a = received[c] /\ g = h[c] /\ x = r[c] /\ y = j[c]
    OBVIOUS
  <2>2. s \in Seq(SentMessage) /\ a \in Seq(HeaderType) /\ Queue(s, g) /\ x \in Nat
    BY <1>3, <1>7, <1>8, <2>1 DEF InPlace, ReaderTypes
  <2>3. Len(g) \in Nat /\ n = x + 1 /\ n \in 1 .. Len(g)
    <3>1. g \in Seq(Pos)
      BY <2>2 DEF Queue
    <3>. QED BY <1>6, <1>7, <2>1, <3>1, LenProperties
  <2>4. x < Len(g)
    BY <2>2, <2>3
  <2>5. ReadSoFar(s, a, inPrev[c], inPacket[c], inExt[c], inDelta[c], g, x, y)
    BY <1>3, <1>7, <2>1
  <2>6. /\ Len(a) <= Len(s) /\ \A z \in 1 .. Len(a) : ~Ambiguous(s, z) /\ Matches(a[z], s, z)
        /\ y \in Nat /\ g[x + 1] = [msg |-> Len(a) + 1, part |-> y + 1]
    BY <2>4, <2>5 DEF ReadSoFar
  <2>7. i = Len(a) + 1 /\ q = y + 1
    BY <1>7, <2>1, <2>3, <2>6
  <2>8. g[x + 1] = [msg |-> i, part |-> q] /\ i \in 1 .. Len(s) /\ q \in 1 .. Parts(s[i])
    BY <1>7, <2>1, <2>6, <2>7
  <2>9. Reached(s, a, g, x, y, i, q)
    BY <2>2, <2>4, <2>6, <2>7, <2>8 DEF Reached
  <2>. QED BY <2>1, <2>9
<1>10. StandsAt(inPrev[c], inPacket[c], inExt[c], inDelta[c], sent[c], i, j[c])
  <2>1. i = Len(received[c]) + 1
    BY <1>9 DEF Reached
  <2>. QED BY <1>3, <1>7, <2>1 DEF ReadSoFar
<1>11. GoodMessage(sent[c], i) /\ sent[c][i].csid = c
  BY <1>3, <1>7 DEF Written
<1>12. Starts(W[1])
  BY <1>3, <1>4, FirstInBuffer
<1>13. sent[c][i].len <= Small \/ inChunk = Large
  <2>1. ASSUME inChunk # Large PROVE ~(sent[c][i].len > Small)
    <3>1. 1 \in 1 .. Len(D) /\ Len(D) \in Nat
      BY <1>3, <1>4, LenProperties DEF Stream
    <3>2. ~(MessageOf(sent, h, D[1]).len > Small)
      BY <1>3, <2>1, <3>1 DEF InTime
    <3>. QED BY <1>6, <1>7, <3>2 DEF MessageOf
  <2>2. sent[c][i].len \in Nat /\ Small \in Nat
    <3>1. sent[c][i] \in SentMessage
      BY <1>6 DEF IsChunk
    <3>. QED BY <3>1, ChunkConstants DEF SentMessage
  <2>. QED BY <2>1, <2>2
<1>14. Facing(h, t, r, j, D, W, c, n, i, q)
  BY <1>1, <1>2, <1>5, <1>9, <1>10, <1>11, <1>12, <1>13 DEF Facing
<1>. QED BY SMTT(20), <1>14
LEMMA ParseReads ==
  ASSUME NEW h, NEW t, NEW r, NEW j, NEW D, NEW W, NEW c, NEW n, NEW i, NEW q,
         Facing(h, t, r, j, D, W, c, n, i, q), ParseChunk
  PROVE  \E f, at, body, packet, ext, full, value, ts, first, bytes, whole, header :
           /\ Reading(sent[c][i], q, W[1], c, f, at, body, packet, ext, full, value, ts, first, bytes, whole, header)
           /\ Taken(f, c, at, body, packet, ext, full, value, ts, first, bytes, whole, header)
<1>1. /\ IsChunk(sent, h, W[1], c, n, i, q) /\ sent[c][i].csid = c /\ Starts(W[1]) /\ ~NeedsHeader /\ ReaderTypes
  BY DEF Facing, FirstOf, ChunkInv
<1>2. PICK m, k : m = sent[c][i] /\ k = W[1]
  OBVIOUS
<1>3. m \in SentMessage /\ q \in 1 .. Parts(m) /\ k = Chunk(m, q) /\ Starts(k) /\ m.csid = c
  BY <1>1, <1>2 DEF IsChunk
<1>4. HeaderSeen(m, q, k)
  BY <1>1, <1>3, HeaderRead
<1>5. PICK f, x, at, body, packet, ext, full, value, ts, first, bytes, whole, header :
           /\ f = buf[1].fmt /\ x = CsidIn(buf[1]) /\ at = 2 + IdCells(buf[1]) /\ body = at + Fields(f)
           /\ Outcome(f, x, at, body, packet, ext, full, value, ts, first, bytes, whole, header)
           /\ Taken(f, x, at, body, packet, ext, full, value, ts, first, bytes, whole, header)
  BY ParseMeans
<1>6. f = FormatOf(m, q) /\ x = c /\ at = FieldsAt(m) /\ body = AfterFields(m, q)
  <2>1. /\ buf[1].fmt = FormatOf(m, q) /\ CsidIn(buf[1]) = m.csid /\ 2 + IdCells(buf[1]) = FieldsAt(m)
        /\ FieldsAt(m) + Fields(FormatOf(m, q)) = AfterFields(m, q)
    BY <1>4, Zenon DEF HeaderSeen
  <2>. QED BY <1>3, <1>5, <2>1
<1>7. Outcome(f, c, at, body, packet, ext, full, value, ts, first, bytes, whole, header)
      /\ Taken(f, c, at, body, packet, ext, full, value, ts, first, bytes, whole, header)
  BY <1>5, <1>6, Zenon
<1>8. Reading(m, q, k, c, f, at, body, packet, ext, full, value, ts, first, bytes, whole, header)
  BY <1>1, <1>3, <1>4, <1>6, <1>7, Zenon DEF Reading
<1>. QED BY <1>2, <1>7, <1>8, Zenon

(* What the reader keeps after it *)
Kept(f, c, at, packet, ext, ts, first, bytes, whole, header) ==
  /\ \A y \in Csids : y # c =>
       /\ inPrev'[y] = inPrev[y] /\ inPacket'[y] = inPacket[y] /\ inExt'[y] = inExt[y]
       /\ inDelta'[y] = inDelta[y] /\ received'[y] = received[y]
  /\ inExt'[c] = ext
  /\ ~ext => inDelta'[c] = HeaderDelta(f, c, at)
  /\ ~whole => /\ inPacket'[c] = [packet EXCEPT !.ts = ts] /\ waiting' = TRUE
               /\ buf' = buf /\ inPrev' = inPrev /\ inChunk' = inChunk /\ received' = received
  /\ whole =>
       /\ buf' = SubSeq(buf, first + bytes, Len(buf)) /\ inPrev'[c] = header /\ waiting' = waiting
       /\ inChunk' = IF packet.space = bytes /\ header.type = SetChunkSize THEN Large ELSE inChunk
       /\ packet.space = bytes => inPacket'[c] = NoPacket /\ received'[c] = Append(received[c], header)
       /\ packet.space # bytes =>
            /\ inPacket'[c] = [packet EXCEPT !.space = @ - bytes, !.ts = ts]
            /\ received'[c] = received[c]

LEMMA ReaderKeeps ==
  ASSUME NEW m, NEW q, NEW k, NEW c, NEW f, NEW at, NEW body,
         NEW packet, NEW ext, NEW full, NEW value, NEW ts, NEW first, NEW bytes, NEW whole, NEW header,
         Reading(m, q, k, c, f, at, body, packet, ext, full, value, ts, first, bytes, whole, header),
         Taken(f, c, at, body, packet, ext, full, value, ts, first, bytes, whole, header)
  PROVE  ReaderTypes' /\ Kept(f, c, at, packet, ext, ts, first, bytes, whole, header)
<1>1. /\ c \in Csids /\ ReaderTypes
  BY Zenon DEF Reading, SentMessage
<1>2. /\ packet \in PacketType /\ packet.open /\ ext \in BOOLEAN /\ full \in BOOLEAN /\ whole \in BOOLEAN
      /\ value \in Nat /\ ts \in Nat /\ bytes \in Nat /\ bytes <= packet.space
      /\ header \in HeaderType /\ HeaderDelta(f, c, at) \in Nat
  BY OutcomeTypes
<1>3. /\ inPrev \in [Csids -> HeaderType] /\ inPacket \in [Csids -> PacketType]
      /\ inDelta \in [Csids -> Nat] /\ inExt \in [Csids -> BOOLEAN]
      /\ received \in [Csids -> Seq(HeaderType)]
      /\ inChunk \in {Small, Large} /\ waiting \in BOOLEAN
  BY <1>1 DEF ReaderTypes
<1>4. /\ inDelta' = [inDelta EXCEPT ![c] = IF ext /\ full /\ f # 0 THEN value ELSE HeaderDelta(f, c, at)]
      /\ inExt' = [inExt EXCEPT ![c] = ext]
      /\ lost' = ((ext /\ full /\ buf[body].is # "ext") \/ (whole /\ ~Are("data", first, bytes)))
  BY Zenon DEF Taken
<1>5. ~whole => /\ inPacket' = [inPacket EXCEPT ![c] = [packet EXCEPT !.ts = ts]] /\ waiting' = TRUE
                /\ buf' = buf /\ inPrev' = inPrev /\ inChunk' = inChunk /\ received' = received
  BY DEF Taken
<1>6. whole => /\ buf' = SubSeq(buf, first + bytes, Len(buf))
               /\ inPrev' = [inPrev EXCEPT ![c] = header]
               /\ inPacket' = [inPacket EXCEPT ![c] = IF packet.space = bytes THEN NoPacket
                                                      ELSE [packet EXCEPT !.space = @ - bytes, !.ts = ts]]
               /\ received' = IF packet.space = bytes THEN [received EXCEPT ![c] = Append(@, header)] ELSE received
               /\ inChunk' = IF packet.space = bytes /\ header.type = SetChunkSize THEN Large ELSE inChunk
               /\ waiting' = waiting
  BY DEF Taken
<1>7. inDelta' \in [Csids -> Nat] /\ inExt' \in [Csids -> BOOLEAN] /\ lost' \in BOOLEAN
  <2>1. (IF ext /\ full /\ f # 0 THEN value ELSE HeaderDelta(f, c, at)) \in Nat
    BY <1>2
  <2>2. inDelta' \in [Csids -> Nat] /\ inExt' \in [Csids -> BOOLEAN]
    BY <1>2, <1>3, <1>4, <2>1
  <2>3. lost' \in BOOLEAN
    BY <1>4, Zenon
  <2>. QED BY <2>2, <2>3
<1>8. PICK o, p : o = [packet EXCEPT !.ts = ts] /\ p = [packet EXCEPT !.space = @ - bytes, !.ts = ts]
  OBVIOUS
<1>9. o \in PacketType /\ p \in PacketType /\ NoPacket \in PacketType
  <2>1. NoPacket \in PacketType
    BY DEF PacketType, NoPacket
  <2>2. PICK z \in Nat : z = packet.space - bytes
    <3>1. packet.space \in Nat
      BY <1>2 DEF PacketType
    <3>. QED BY <1>2, <3>1
  <2>3. p = [packet EXCEPT !.space = z, !.ts = ts]
    BY <1>8, <2>2
  <2>4. o \in PacketType
    BY <1>2, <1>8 DEF PacketType
  <2>5. p \in PacketType
    BY <1>2, <2>3 DEF PacketType
  <2>. QED BY <2>1, <2>4, <2>5
<1>10. Append(received[c], header) \in Seq(HeaderType)
  BY <1>1, <1>2, <1>3, MoreFacts
<1>11. CASE ~whole
  <2>1. inPacket' = [inPacket EXCEPT ![c] = o]
    BY <1>5, <1>8, <1>11
  <2>2. inPacket' \in [Csids -> PacketType] /\ inPacket'[c] = o
    BY <1>1, <1>3, <1>9, <2>1
  <2>3. ReaderTypes'
    BY <1>3, <1>5, <1>7, <1>11, <2>2 DEF ReaderTypes
  <2>. QED BY <1>1, <1>3, <1>4, <1>5, <1>8, <1>11, <2>1, <2>2, <2>3 DEF Kept
<1>12. CASE whole
  <2>1. inPacket' = [inPacket EXCEPT ![c] = IF packet.space = bytes THEN NoPacket ELSE p]
    BY <1>6, <1>8, <1>12
  <2>2. inPacket' \in [Csids -> PacketType]
    BY <1>1, <1>3, <1>9, <2>1
  <2>3. inPrev' \in [Csids -> HeaderType] /\ inPrev'[c] = header
    BY <1>1, <1>2, <1>3, <1>6, <1>12
  <2>4. received' \in [Csids -> Seq(HeaderType)]
    BY <1>1, <1>3, <1>6, <1>10, <1>12
  <2>5. inChunk' \in {Small, Large} /\ waiting' \in BOOLEAN
    BY <1>3, <1>6, <1>12
  <2>6. ReaderTypes'
    BY <1>7, <2>2, <2>3, <2>4, <2>5 DEF ReaderTypes
  <2>7. /\ packet.space = bytes => inPacket'[c] = NoPacket /\ received'[c] = Append(received[c], header)
        /\ packet.space # bytes => inPacket'[c] = p /\ received'[c] = received[c]
    BY <1>1, <1>3, <1>6, <1>12, <2>1
  <2>8. \A y \in Csids : y # c => inPrev'[y] = inPrev[y] /\ inPacket'[y] = inPacket[y] /\ received'[y] = received[y]
    BY <1>3, <1>6, <1>12, <2>1
  <2>. QED BY <1>1, <1>3, <1>4, <1>6, <1>8, <1>12, <2>3, <2>6, <2>7, <2>8 DEF Kept
<1>. QED BY <1>2, <1>11, <1>12
-----------------------------------------------------------------------------
(* The round: what it starts from, what it finds and what it does          *)
Round(h, t, r, j, D, W, c, n, i, q, f, at, body, packet, ext, full, value, ts, first, bytes, whole, header) ==
  /\ Facing(h, t, r, j, D, W, c, n, i, q)
  /\ Reading(sent[c][i], q, W[1], c, f, at, body, packet, ext, full, value, ts, first, bytes, whole, header)
  /\ Taken(f, c, at, body, packet, ext, full, value, ts, first, bytes, whole, header)
  /\ UNCHANGED <<writer, pending, wire>>

(* Where it leads to *)
StandsThere(h, t, r, j, c, R, J, E, V) ==
  /\ lost' = FALSE
  /\ R[c] \in Nat /\ R[c] <= t[c] /\ \A y \in Csids : y # c => R[y] = r[y] /\ J[y] = j[y]
  /\ ReadSoFar(sent[c], received'[c], inPrev'[c], inPacket'[c], inExt'[c], inDelta'[c], h[c], R[c], J[c])
  /\ Stream(sent, buf', wire, h, t, R, E, V) /\ InTime(sent, inChunk', h, R, E)
  /\ Waits(sent, waiting', buf', h, E, V)

LEMMA StillGood ==
  ASSUME NEW h, NEW t, NEW r, NEW j, NEW D, NEW W, NEW c, NEW n, NEW i, NEW q, NEW f, NEW at, NEW body,
         NEW packet, NEW ext, NEW full, NEW value, NEW ts, NEW first, NEW bytes, NEW whole, NEW header,
         Round(h, t, r, j, D, W, c, n, i, q, f, at, body, packet, ext, full, value, ts, first, bytes, whole, header),
         NEW R, NEW J, NEW E, NEW V, StandsThere(h, t, r, j, c, R, J, E, V)
  PROVE  ChunkInv'
<1>. /\ lost' = FALSE
     /\ R[c] \in Nat /\ R[c] <= t[c] /\ \A y \in Csids : y # c => R[y] = r[y] /\ J[y] = j[y]
     /\ ReadSoFar(sent[c], received'[c], inPrev'[c], inPacket'[c], inExt'[c], inDelta'[c], h[c], R[c], J[c])
     /\ Stream(sent, buf', wire, h, t, R, E, V) /\ InTime(sent, inChunk', h, R, E)
     /\ Waits(sent, waiting', buf', h, E, V)
  BY Zenon DEF StandsThere
<1>1. /\ Facing(h, t, r, j, D, W, c, n, i, q) /\ UNCHANGED <<writer, pending, wire>>
      /\ Reading(sent[c][i], q, W[1], c, f, at, body, packet, ext, full, value, ts, first, bytes, whole, header)
      /\ Taken(f, c, at, body, packet, ext, full, value, ts, first, bytes, whole, header)
  BY Zenon DEF Round
<1>2. ChunkInv /\ Ghosts(h, t, r, j, D, W)
  BY <1>1, Zenon DEF Facing
<1>3. /\ outPrev' = outPrev /\ outDelta' = outDelta /\ sent' = sent /\ pending' = pending /\ wire' = wire
  BY <1>1 DEF writer
<1>4. WriterInv'
  <2>1. WriterInv
    BY <1>2 DEF ChunkInv
  <2>. QED BY <1>3, <2>1 DEF WriterInv
<1>5. /\ ReaderTypes'
      /\ \A y \in Csids : y # c =>
           /\ inPrev'[y] = inPrev[y] /\ inPacket'[y] = inPacket[y] /\ inExt'[y] = inExt[y]
           /\ inDelta'[y] = inDelta[y] /\ received'[y] = received[y]
  <2>1. PICK m, k : m = sent[c][i] /\ k = W[1]
    OBVIOUS
  <2>2. /\ Reading(m, q, k, c, f, at, body, packet, ext, full, value, ts, first, bytes, whole, header)
        /\ Taken(f, c, at, body, packet, ext, full, value, ts, first, bytes, whole, header)
    BY <1>1, <2>1, Zenon
  <2>3. ReaderTypes' /\ Kept(f, c, at, packet, ext, ts, first, bytes, whole, header)
    BY <2>2, ReaderKeeps
  <2>. QED BY <2>3 DEF Kept
<1>6. /\ \A y \in Csids :
           /\ Queue(sent[y], h[y]) /\ Waiting(sent[y], pending[y], h[y], t[y])
           /\ ReadSoFar(sent[y], received[y], inPrev[y], inPacket[y], inExt[y], inDelta[y], h[y], r[y], j[y])
           /\ r[y] \in Nat /\ r[y] <= t[y]
  BY <1>2, GhostsFacts
<1>7. ASSUME NEW y \in Csids
      PROVE  /\ Queue(sent[y], h[y]) /\ Waiting(sent[y], pending[y], h[y], t[y])
             /\ ReadSoFar(sent[y], received'[y], inPrev'[y], inPacket'[y], inExt'[y], inDelta'[y], h[y], R[y], J[y])
             /\ R[y] \in Nat /\ R[y] <= t[y]
  <2>1. CASE y = c
    BY <1>6, <2>1
  <2>2. CASE y # c
    <3>1. /\ inPrev'[y] = inPrev[y] /\ inPacket'[y] = inPacket[y] /\ inExt'[y] = inExt[y]
          /\ inDelta'[y] = inDelta[y] /\ received'[y] = received[y] /\ R[y] = r[y] /\ J[y] = j[y]
      BY <1>5, <2>2
    <3>. QED BY <1>6, <3>1
  <2>. QED BY <2>1, <2>2
<1>8. Ghosts(h, t, R, J, E, V)'
  BY <1>3, <1>7 DEF Ghosts
<1>9. \A y \in Csids : ReceivedAsSent(sent'[y], received'[y])
  BY <1>3, <1>7, AsSent
<1>. QED BY <1>4, <1>5, <1>8, <1>9 DEF ChunkInv

(* The framing is lost *)
LEMMA LostGood ==
  ASSUME NEW h, NEW t, NEW r, NEW j, NEW D, NEW W, NEW c, NEW n, NEW i, NEW q, NEW f, NEW at, NEW body,
         NEW packet, NEW ext, NEW full, NEW value, NEW ts, NEW first, NEW bytes, NEW whole, NEW header,
         Round(h, t, r, j, D, W, c, n, i, q, f, at, body, packet, ext, full, value, ts, first, bytes, whole, header),
         lost' = TRUE, Ambiguous(sent[c], i)
  PROVE  ChunkInv'
<1>1. /\ Facing(h, t, r, j, D, W, c, n, i, q) /\ UNCHANGED <<writer, pending, wire>>
      /\ Reading(sent[c][i], q, W[1], c, f, at, body, packet, ext, full, value, ts, first, bytes, whole, header)
      /\ Taken(f, c, at, body, packet, ext, full, value, ts, first, bytes, whole, header)
  BY Zenon DEF Round
<1>2. ChunkInv /\ IsChunk(sent, h, W[1], c, n, i, q)
  BY <1>1, Zenon DEF Facing, FirstOf
<1>3. /\ outPrev' = outPrev /\ outDelta' = outDelta /\ sent' = sent /\ pending' = pending /\ wire' = wire
  BY <1>1 DEF writer
<1>4. WriterInv'
  <2>1. WriterInv
    BY <1>2 DEF ChunkInv
  <2>. QED BY <1>3, <2>1 DEF WriterInv
<1>5. /\ ReaderTypes'
      /\ \A y \in Csids : y # c => received'[y] = received[y]
  <2>1. PICK m, k : m = sent[c][i] /\ k = W[1]
    OBVIOUS
  <2>2. /\ Reading(m, q, k, c, f, at, body, packet, ext, full, value, ts, first, bytes, whole, header)
        /\ Taken(f, c, at, body, packet, ext, full, value, ts, first, bytes, whole, header)
    BY <1>1, <2>1, Zenon
  <2>3. ReaderTypes' /\ Kept(f, c, at, packet, ext, ts, first, bytes, whole, header)
    BY <2>2, ReaderKeeps
  <2>. QED BY <2>3 DEF Kept
<1>6. c \in Csids /\ i \in 1 .. Len(sent[c])
  BY <1>2 DEF IsChunk
<1>7. ASSUME NEW y \in Csids PROVE ReceivedAsSent(sent[y], received'[y])
  <2>1. CASE y = c
    BY <1>6, <2>1 DEF ReceivedAsSent
  <2>2. CASE y # c
    BY <1>2, <1>5, <2>2 DEF ChunkInv
  <2>. QED BY <2>1, <2>2
<1>8. SomeAmbiguous(sent)
  BY <1>6 DEF SomeAmbiguous
<1>. QED BY <1>3, <1>4, <1>5, <1>7, <1>8 DEF ChunkInv

(* The chunk is not whole *)
NotYet(W, j, c, i, whole) ==
  /\ lost' = FALSE /\ ~whole /\ (Len(buf) < Len(W[1]) \/ Ambiguous(sent[c], i))
  /\ StandsAt(inPrev[c], inPacket'[c], inExt'[c], inDelta'[c], sent[c], i, j[c])

(* The stream when nothing has been taken from the buffer: the reader waits *)
LEMMA NotWhole ==
  ASSUME NEW h, NEW t, NEW r, NEW j, NEW D, NEW W, NEW c, NEW n, NEW i, NEW q, NEW f, NEW at, NEW body,
         NEW packet, NEW ext, NEW full, NEW value, NEW ts, NEW first, NEW bytes, NEW whole, NEW header,
         Round(h, t, r, j, D, W, c, n, i, q, f, at, body, packet, ext, full, value, ts, first, bytes, whole, header),
         NotYet(W, j, c, i, whole)
  PROVE  ChunkInv'
<1>. /\ lost' = FALSE /\ ~whole /\ (Len(buf) < Len(W[1]) \/ Ambiguous(sent[c], i))
     /\ StandsAt(inPrev[c], inPacket'[c], inExt'[c], inDelta'[c], sent[c], i, j[c])
  BY Zenon DEF NotYet
<1>1. /\ Facing(h, t, r, j, D, W, c, n, i, q)
      /\ Reading(sent[c][i], q, W[1], c, f, at, body, packet, ext, full, value, ts, first, bytes, whole, header)
      /\ Taken(f, c, at, body, packet, ext, full, value, ts, first, bytes, whole, header)
  BY Zenon DEF Round
<1>2. /\ ChunkInv /\ Ghosts(h, t, r, j, D, W) /\ Reached(sent[c], received[c], h[c], r[c], j[c], i, q)
      /\ IsChunk(sent, h, W[1], c, n, i, q) /\ D[1] = [csid |-> c, nr |-> n] /\ Len(D) # 0
  BY <1>1, Zenon DEF Facing, FirstOf
<1>3. buf' = buf /\ inPrev' = inPrev /\ inChunk' = inChunk /\ received' = received /\ waiting' = TRUE
  <2>1. PICK m, k : m = sent[c][i] /\ k = W[1]
    OBVIOUS
  <2>2. /\ Reading(m, q, k, c, f, at, body, packet, ext, full, value, ts, first, bytes, whole, header)
        /\ Taken(f, c, at, body, packet, ext, full, value, ts, first, bytes, whole, header)
    BY <1>1, <2>1, Zenon
  <2>3. ReaderTypes' /\ Kept(f, c, at, packet, ext, ts, first, bytes, whole, header)
    BY <2>2, ReaderKeeps
  <2>. QED BY <2>3 DEF Kept
<1>4. /\ Stream(sent, buf, wire, h, t, r, D, W) /\ InTime(sent, inChunk, h, r, D)
      /\ \A y \in Csids : r[y] \in Nat /\ r[y] <= t[y]
  BY <1>2, GhostsFacts
<1>5. c \in Csids /\ h[c][n].msg = i
  BY <1>2 DEF IsChunk
<1>6. ReadSoFar(sent[c], received[c], inPrev[c], inPacket'[c], inExt'[c], inDelta'[c], h[c], r[c], j[c])
  BY <1>2 DEF Reached, ReadSoFar
<1>7. Waits(sent, waiting', buf, h, D, W)
  <2>1. D[1].csid = c /\ D[1].nr = n
    BY <1>2
  <2>. QED BY <1>5, <2>1 DEF Waits
<1>8. StandsThere(h, t, r, j, c, r, j, D, W)
  BY <1>3, <1>4, <1>5, <1>6, <1>7, Zenon DEF StandsThere
<1>. QED BY <1>8, StillGood
-----------------------------------------------------------------------------
LEMMA RoundJudges ==
  ASSUME NEW h, NEW t, NEW r, NEW j, NEW D, NEW W, NEW c, NEW n, NEW i, NEW q, NEW f, NEW at, NEW body,
         NEW packet, NEW ext, NEW full, NEW value, NEW ts, NEW first, NEW bytes, NEW whole, NEW header,
         Round(h, t, r, j, D, W, c, n, i, q, f, at, body, packet, ext, full, value, ts, first, bytes, whole, header),
         NEW s, s = sent[c], NEW m, m = s[i], NEW o, o = j[c], NEW k, k = W[1]
  PROVE  Judging(s, i, o, m, q, k, c, f, at, body, packet, ext, full, value, ts, first, bytes, whole, header)
<1>1. /\ Facing(h, t, r, j, D, W, c, n, i, q)
      /\ Reading(sent[c][i], q, W[1], c, f, at, body, packet, ext, full, value, ts, first, bytes, whole, header)
  BY Zenon DEF Round
<1>2. /\ Reached(sent[c], received[c], h[c], r[c], j[c], i, q) /\ GoodMessage(sent[c], i)
      /\ StandsAt(inPrev[c], inPacket[c], inExt[c], inDelta[c], sent[c], i, j[c])
      /\ (sent[c][i].len <= Small \/ inChunk = Large)
  BY <1>1, Zenon DEF Facing
<1>3. s \in Seq(SentMessage) /\ i \in 1 .. Len(s) /\ o \in Nat /\ q = o + 1
  BY <1>2 DEF Reached
<1>4. /\ Reading(m, q, k, c, f, at, body, packet, ext, full, value, ts, first, bytes, whole, header)
      /\ StandsAt(inPrev[c], inPacket[c], inExt[c], inDelta[c], s, i, o) /\ GoodMessage(s, i)
      /\ (m.len <= Small \/ inChunk = Large)
  BY <1>1, <1>2, Zenon
<1>. QED BY <1>3, <1>4, Zenon DEF Judging

(* What a round does to what the reader keeps *)
LEMMA RoundKeeps ==
  ASSUME NEW h, NEW t, NEW r, NEW j, NEW D, NEW W, NEW c, NEW n, NEW i, NEW q, NEW f, NEW at, NEW body,
         NEW packet, NEW ext, NEW full, NEW value, NEW ts, NEW first, NEW bytes, NEW whole, NEW header,
         Round(h, t, r, j, D, W, c, n, i, q, f, at, body, packet, ext, full, value, ts, first, bytes, whole, header)
  PROVE  /\ ReaderTypes' /\ Kept(f, c, at, packet, ext, ts, first, bytes, whole, header)
         /\ packet \in PacketType /\ packet.open /\ ext \in BOOLEAN /\ whole \in BOOLEAN /\ ts \in Nat
         /\ first \in Nat /\ bytes \in Nat /\ header \in HeaderType /\ HeaderDelta(f, c, at) \in Nat
         /\ lost' = ((ext /\ full /\ buf[body].is # "ext") \/ (whole /\ ~Are("data", first, bytes)))
         /\ lost' \in BOOLEAN
<1>1. PICK m, k : m = sent[c][i] /\ k = W[1]
  OBVIOUS
<1>2. /\ Reading(m, q, k, c, f, at, body, packet, ext, full, value, ts, first, bytes, whole, header)
      /\ Taken(f, c, at, body, packet, ext, full, value, ts, first, bytes, whole, header)
  BY <1>1, Zenon DEF Round
<1>3. ReaderTypes' /\ Kept(f, c, at, packet, ext, ts, first, bytes, whole, header)
  BY <1>2, ReaderKeeps
<1>4. /\ packet \in PacketType /\ packet.open /\ ext \in BOOLEAN /\ whole \in BOOLEAN /\ ts \in Nat
      /\ first \in Nat /\ bytes \in Nat /\ header \in HeaderType /\ HeaderDelta(f, c, at) \in Nat
  BY <1>2, OutcomeTypes
<1>5. lost' = ((ext /\ full /\ buf[body].is # "ext") \/ (whole /\ ~Are("data", first, bytes)))
  BY <1>2, Zenon DEF Taken
<1>6. lost' \in BOOLEAN
  BY <1>3 DEF ReaderTypes
<1>. QED BY <1>3, <1>4, <1>5, <1>6, Zenon

(* A chunk that is ambiguous *)
LEMMA PuzzledKeeps ==
  ASSUME NEW h, NEW t, NEW r, NEW j, NEW D, NEW W, NEW c, NEW n, NEW i, NEW q, NEW f, NEW at, NEW body,
         NEW packet, NEW ext, NEW full, NEW value, NEW ts, NEW first, NEW bytes, NEW whole, NEW header,
         Round(h, t, r, j, D, W, c, n, i, q, f, at, body, packet, ext, full, value, ts, first, bytes, whole, header),
         Ambiguous(sent[c], i)
  PROVE  ChunkInv'
<1>1. PICK s, m, k, o : s = sent[c] /\ m = s[i] /\ k = W[1] /\ o = j[c]
  OBVIOUS
<1>2. Judging(s, i, o, m, q, k, c, f, at, body, packet, ext, full, value, ts, first, bytes, whole, header)
  BY <1>1, RoundJudges
<1>3. o = 0 /\ q = 1 /\ FindsOther(s, i, m, c, body, packet, ext, full, first, bytes, whole)
  <2>1. Ambiguous(s, i)
    BY <1>1
  <2>. QED BY <1>2, <2>1, Puzzled
<1>4. /\ Kept(f, c, at, packet, ext, ts, first, bytes, whole, header)
      /\ packet \in PacketType /\ packet.open /\ ext \in BOOLEAN /\ whole \in BOOLEAN /\ ts \in Nat
  BY RoundKeeps
<1>5. lost' = ((ext /\ full /\ buf[body].is # "ext") \/ (whole /\ ~Are("data", first, bytes)))
  BY Zenon DEF Round, Taken
<1>6. lost' \in BOOLEAN
  BY RoundKeeps
<1>7. /\ IF m.len = 0 /\ m.fmt \in {2, 3} THEN packet.space > 0 ELSE packet.space = m.len
      /\ ext <=> IF m.fmt = 3 THEN Extended(s[i - 1]) ELSE Extended(m)
      /\ whole => (ext /\ full /\ buf[body].is # "ext") \/ ~Are("data", first, bytes)
      /\ i > 1 => Matches(inPrev[c], s, i - 1)
  BY <1>3, Zenon DEF FindsOther
<1>8. CASE lost' = TRUE
  BY <1>8, LostGood
<1>9. CASE lost' = FALSE
  <2>1. ~whole
    BY <1>5, <1>7, <1>9, Zenon
  <2>2. PICK y : y = [packet EXCEPT !.ts = ts]
    OBVIOUS
  <2>3. y.open /\ y.space = packet.space /\ inPacket'[c] = y /\ inExt'[c] = ext
    <3>1. inPacket'[c] = [packet EXCEPT !.ts = ts] /\ inExt'[c] = ext
      BY <1>4, <2>1, Zenon DEF Kept
    <3>. QED BY <1>4, <2>2, <3>1 DEF PacketType
  <2>4. PICK z : z = inDelta'[c]
    OBVIOUS
  <2>5. Tried(y, ext, z, s, i)
    <3>1. ext = IF s[i].fmt = 3 THEN Extended(s[i - 1]) ELSE Extended(s[i])
      <4>1. CASE m.fmt = 3
        BY <1>1, <1>4, <1>7, <4>1 DEF Extended
      <4>2. CASE m.fmt # 3
        BY <1>1, <1>4, <1>7, <4>2 DEF Extended
      <4>. QED BY <4>1, <4>2
    <3>2. i <= Len(s)
      <4>1. s \in Seq(SentMessage) /\ i \in 1 .. Len(s)
        BY <1>2, Zenon DEF Judging
      <4>. QED BY <4>1
    <3>. QED BY <1>1, <1>7, <2>3, <3>1, <3>2 DEF Tried
  <2>6. StandsAt(inPrev[c], y, ext, z, s, i, o)
    BY <1>3, <1>7, <2>5 DEF StandsAt
  <2>7. StandsAt(inPrev[c], inPacket'[c], inExt'[c], inDelta'[c], sent[c], i, j[c])
    BY <1>1, <2>3, <2>4, <2>6, Zenon
  <2>8. NotYet(W, j, c, i, whole)
    BY <1>9, <2>1, <2>7, Zenon DEF NotYet
  <2>. QED BY <2>8, NotWhole
<1>. QED BY <1>6, <1>8, <1>9
-----------------------------------------------------------------------------
(* A chunk that is not ambiguous is read for what it is *)
ReadIt(s, i, m, q, k, c, packet, ts, first, bytes, whole, header) ==
  /\ lost' = FALSE
  /\ packet.space = Left(m, q) /\ inExt'[c] = Extended(m)
  /\ bytes = Units(m, q) /\ first = DataAt(m, q)
  /\ whole <=> Len(buf) >= Len(k)
  /\ Exact(s, i) => ts = m.ts /\ inDelta'[c] = m.delta
  /\ Matches(header, s, i)

LEMMA ClearFacts ==
  ASSUME NEW h, NEW t, NEW r, NEW j, NEW D, NEW W, NEW c, NEW n, NEW i, NEW q, NEW f, NEW at, NEW body,
         NEW packet, NEW ext, NEW full, NEW value, NEW ts, NEW first, NEW bytes, NEW whole, NEW header,
         Round(h, t, r, j, D, W, c, n, i, q, f, at, body, packet, ext, full, value, ts, first, bytes, whole, header),
         ~Ambiguous(sent[c], i), NEW s, s = sent[c], NEW m, m = s[i], NEW k, k = W[1]
  PROVE  ReadIt(s, i, m, q, k, c, packet, ts, first, bytes, whole, header)
<1>1. PICK o : o = j[c]
  OBVIOUS
<1>2. Judging(s, i, o, m, q, k, c, f, at, body, packet, ext, full, value, ts, first, bytes, whole, header)
  BY <1>1, RoundJudges
<1>3. FindsIt(s, i, m, q, k, c, f, at, body, packet, ext, full, ts, first, bytes, whole, header)
  <2>1. ~Ambiguous(s, i)
    OBVIOUS
  <2>. QED BY <1>2, <2>1, Understood
<1>4. /\ Kept(f, c, at, packet, ext, ts, first, bytes, whole, header)
      /\ ext \in BOOLEAN /\ whole \in BOOLEAN /\ lost' \in BOOLEAN
  BY RoundKeeps
<1>5. lost' = ((ext /\ full /\ buf[body].is # "ext") \/ (whole /\ ~Are("data", first, bytes)))
  BY Zenon DEF Round, Taken
<1>6. /\ packet.space = Left(m, q) /\ (ext <=> Extended(m))
      /\ bytes = Units(m, q) /\ first = DataAt(m, q)
      /\ whole <=> Len(buf) >= Len(k)
      /\ ~(ext /\ full /\ buf[body].is # "ext")
      /\ whole => Are("data", first, bytes)
      /\ Exact(s, i) => ts = m.ts /\ HeaderDelta(f, c, at) = m.delta
      /\ Matches(header, s, i)
  BY <1>3, Zenon DEF FindsIt
<1>7. lost' = FALSE
  BY <1>5, <1>6, Zenon
<1>8. inExt'[c] = ext
  BY <1>4, Zenon DEF Kept
<1>9. inExt'[c] = Extended(m)
  BY <1>4, <1>6, <1>8 DEF Extended
<1>10. ASSUME Exact(s, i) PROVE ts = m.ts /\ inDelta'[c] = m.delta
  <2>1. s \in Seq(SentMessage) /\ i \in 1 .. Len(s)
    BY <1>2, Zenon DEF Judging
  <2>2. ~Extended(m)
    BY <1>10, <2>1, ExactBefore
  <2>3. ~ext
    BY <1>6, <2>2, Zenon
  <2>4. inDelta'[c] = HeaderDelta(f, c, at)
    BY <1>4, <2>3, Zenon DEF Kept
  <2>. QED BY <1>6, <1>10, <2>4, Zenon
<1>. QED BY <1>6, <1>7, <1>9, <1>10, Zenon DEF ReadIt

(* It is not whole: the reader waits for the rest *)
LEMMA ClearWaits ==
  ASSUME NEW h, NEW t, NEW r, NEW j, NEW D, NEW W, NEW c, NEW n, NEW i, NEW q, NEW f, NEW at, NEW body,
         NEW packet, NEW ext, NEW full, NEW value, NEW ts, NEW first, NEW bytes, NEW whole, NEW header,
         Round(h, t, r, j, D, W, c, n, i, q, f, at, body, packet, ext, full, value, ts, first, bytes, whole, header),
         ~Ambiguous(sent[c], i), ~whole
  PROVE  ChunkInv'
<1>1. PICK s, m, k, o : s = sent[c] /\ m = s[i] /\ k = W[1] /\ o = j[c]
  OBVIOUS
<1>2. Judging(s, i, o, m, q, k, c, f, at, body, packet, ext, full, value, ts, first, bytes, whole, header)
  BY <1>1, RoundJudges
<1>3. /\ s \in Seq(SentMessage) /\ i \in 1 .. Len(s) /\ o \in Nat /\ q = o + 1
      /\ StandsAt(inPrev[c], inPacket[c], inExt[c], inDelta[c], s, i, o) /\ ~Ambiguous(s, i)
      /\ Reading(m, q, k, c, f, at, body, packet, ext, full, value, ts, first, bytes, whole, header)
  BY <1>1, <1>2, Zenon DEF Judging
<1>4. /\ lost' = FALSE
      /\ packet.space = Left(m, q) /\ inExt'[c] = Extended(m)
      /\ whole <=> Len(buf) >= Len(k)
      /\ Exact(s, i) => ts = m.ts /\ inDelta'[c] = m.delta
  <2>1. ReadIt(s, i, m, q, k, c, packet, ts, first, bytes, whole, header)
    BY <1>1, ClearFacts
  <2>. QED BY <2>1, Zenon DEF ReadIt
<1>5. /\ Kept(f, c, at, packet, ext, ts, first, bytes, whole, header)
      /\ packet \in PacketType /\ packet.open
  BY RoundKeeps
<1>6. PICK y : y = [packet EXCEPT !.ts = ts]
  OBVIOUS
<1>7. PICK z, e : z = inDelta'[c] /\ e = inExt'[c]
  OBVIOUS
<1>8. y.open /\ y.space = Left(m, q) /\ y.ts = ts /\ inPacket'[c] = y
  <2>1. inPacket'[c] = [packet EXCEPT !.ts = ts]
    BY <1>5, Zenon DEF Kept
  <2>. QED BY <1>4, <1>5, <1>6, <2>1 DEF PacketType
<1>9. StandsAt(inPrev[c], y, e, z, s, i, o)
  <2>1. i <= Len(s) /\ Left(m, 1) = m.len
    BY SMTT(20), <1>1, <1>3, ElementOfSeq, PartsFacts
  <2>2. CASE o = 0
    <3>1. ~(s[i].len = 0 /\ s[i].fmt \in {2, 3}) /\ ~(s[i].fmt = 3 /\ Extended(s[i]) # Extended(s[i - 1]))
      BY <1>3, Zenon DEF Ambiguous
    <3>2. q = 1 /\ y.space = m.len
      BY <1>3, <1>8, <2>1, <2>2
    <3>3. e = IF s[i].fmt = 3 THEN Extended(s[i - 1]) ELSE Extended(s[i])
      BY <1>1, <1>4, <1>7, <3>1
    <3>4. Tried(y, e, z, s, i)
      BY <1>1, <1>4, <1>7, <1>8, <2>1, <3>1, <3>2, <3>3 DEF Tried
    <3>5. i > 1 => Matches(inPrev[c], s, i - 1)
      BY <1>3, <2>2 DEF StandsAt
    <3>. QED BY <2>2, <3>4, <3>5 DEF StandsAt
  <2>3. CASE o > 0
    <3>1. Within(inPrev[c], inPacket[c], inExt[c], inDelta[c], s, i, o)
      BY <1>3, <2>3 DEF StandsAt
    <3>2. i <= Len(s) /\ o < Parts(s[i]) /\ Matches(inPrev[c], s, i)
      BY <3>1, Zenon DEF Within
    <3>3. y.space = Left(s[i], o + 1) /\ e = Extended(s[i])
      BY <1>1, <1>3, <1>4, <1>7, <1>8, Zenon
    <3>4. Exact(s, i) => y.ts = s[i].ts /\ z = s[i].delta
      BY <1>1, <1>4, <1>7, <1>8
    <3>5. Within(inPrev[c], y, e, z, s, i, o)
      BY <1>3, <1>8, <3>2, <3>3, <3>4, Zenon DEF Within
    <3>. QED BY <2>3, <3>5 DEF StandsAt
  <2>. QED BY <1>3, <2>2, <2>3
<1>10. Len(buf) < Len(W[1])
  <2>1. Len(buf) \in Nat /\ Len(k) \in Nat
    <3>1. m \in SentMessage /\ q \in 1 .. Parts(m) /\ k = Chunk(m, q) /\ HeaderSeen(m, q, k)
      BY <1>3, Zenon DEF Reading
    <3>2. ShapeOf(k, m, q)
      BY <3>1, ChunkFacts
    <3>3. k \in Seq(Cell)
      BY <3>2, Zenon DEF ShapeOf
    <3>. QED BY <3>1, <3>3 DEF HeaderSeen
  <2>2. ~(Len(buf) >= Len(k))
    BY <1>4
  <2>. QED BY <1>1, <2>1, <2>2
<1>11. StandsAt(inPrev[c], inPacket'[c], inExt'[c], inDelta'[c], sent[c], i, j[c])
  BY <1>1, <1>7, <1>8, <1>9, Zenon
<1>12. NotYet(W, j, c, i, whole)
  BY <1>4, <1>10, <1>11, Zenon DEF NotYet
<1>. QED BY <1>12, NotWhole

(* The message goes on, or it is complete *)
LEMMA ClearReads ==
  ASSUME NEW h, NEW t, NEW r, NEW j, NEW D, NEW W, NEW c, NEW n, NEW i, NEW q, NEW f, NEW at, NEW body,
         NEW packet, NEW ext, NEW full, NEW value, NEW ts, NEW first, NEW bytes, NEW whole, NEW header,
         Round(h, t, r, j, D, W, c, n, i, q, f, at, body, packet, ext, full, value, ts, first, bytes, whole, header),
         ~Ambiguous(sent[c], i), whole
  PROVE  /\ \E g : ReadSoFar(sent[c], received'[c], inPrev'[c], inPacket'[c], inExt'[c], inDelta'[c], h[c], r[c] + 1, g)
         /\ c = Control /\ Announces(sent[c][i]) => inChunk' = Large
         /\ inChunk = Large => inChunk' = Large
<1>1. PICK s, m, k, o : s = sent[c] /\ m = s[i] /\ k = W[1] /\ o = j[c]
  OBVIOUS
<1>2. Judging(s, i, o, m, q, k, c, f, at, body, packet, ext, full, value, ts, first, bytes, whole, header)
  BY <1>1, RoundJudges
<1>3. /\ s \in Seq(SentMessage) /\ i \in 1 .. Len(s) /\ o \in Nat /\ q = o + 1 /\ ~Ambiguous(s, i)
      /\ Reading(m, q, k, c, f, at, body, packet, ext, full, value, ts, first, bytes, whole, header)
  BY <1>1, <1>2, Zenon DEF Judging
<1>4. /\ lost' = FALSE
      /\ packet.space = Left(m, q) /\ inExt'[c] = Extended(m) /\ bytes = Units(m, q)
      /\ Exact(s, i) => ts = m.ts /\ inDelta'[c] = m.delta
      /\ Matches(header, s, i)
  <2>1. ReadIt(s, i, m, q, k, c, packet, ts, first, bytes, whole, header)
    BY <1>1, ClearFacts
  <2>. QED BY <2>1, Zenon DEF ReadIt
<1>5. /\ Kept(f, c, at, packet, ext, ts, first, bytes, whole, header)
      /\ packet \in PacketType /\ packet.open /\ header \in HeaderType /\ bytes \in Nat
  BY RoundKeeps
<1>6. /\ inPrev'[c] = header
      /\ inChunk' = IF packet.space = bytes /\ header.type = SetChunkSize THEN Large ELSE inChunk
      /\ packet.space = bytes => inPacket'[c] = NoPacket /\ received'[c] = Append(received[c], header)
      /\ packet.space # bytes =>
           /\ inPacket'[c] = [packet EXCEPT !.space = @ - bytes, !.ts = ts]
           /\ received'[c] = received[c]
  BY <1>5, Zenon DEF Kept
<1>7. /\ m \in SentMessage /\ q \in 1 .. Parts(m) /\ Parts(m) \in Nat
      /\ Left(m, q) \in Nat /\ (q < Parts(m) <=> Left(m, q) > Large) /\ Left(m, q + 1) = Left(m, q) - Large
      /\ m.len <= Large => Parts(m) = 1
  <2>1. m \in SentMessage /\ q \in 1 .. Parts(m)
    BY <1>3, Zenon DEF Reading
  <2>. QED BY <2>1, PartsFacts
<1>8. Large \in Nat /\ Large > 0 /\ Small \in Nat /\ Small <= Large
  BY ChunkConstants
<1>9. packet.space = bytes <=> q = Parts(m)
  BY <1>4, <1>7, <1>8 DEF Units
<1>10. Reached(s, received[c], h[c], r[c], o, i, q)
  <2>1. Facing(h, t, r, j, D, W, c, n, i, q)
    BY Zenon DEF Round
  <2>2. Reached(sent[c], received[c], h[c], r[c], j[c], i, q)
    BY <2>1, Zenon DEF Facing
  <2>. QED BY <1>1, <2>2, Zenon
<1>11. inChunk = Large => inChunk' = Large
  BY <1>6
<1>12. ASSUME c = Control, Announces(sent[c][i]) PROVE inChunk' = Large
  <2>1. m.type = SetChunkSize /\ m.len <= Small
    BY <1>1, <1>12 DEF Announces
  <2>2. m.len \in Nat
    BY <1>7 DEF SentMessage
  <2>3. q = Parts(m)
    BY <1>7, <1>8, <2>1, <2>2
  <2>4. header.type = m.type
    BY <1>1, <1>4 DEF Matches
  <2>. QED BY <1>6, <1>9, <2>1, <2>3, <2>4
<1>13. PICK a, e, d, v, g, x : /\ a = received[c] /\ e = inExt'[c] /\ d = inDelta'[c] /\ v = inPrev'[c]
                              /\ g = h[c] /\ x = r[c]
  OBVIOUS
<1>14. CASE q = Parts(m)
  <2>1. Fresh(NoPacket, e, d, s, i + 1)
    <3>1. (i + 1) - 1 = i
      BY <1>3
    <3>2. e = Extended(s[i]) /\ (Exact(s, i) => d = s[i].delta)
      BY <1>1, <1>4, <1>13, Zenon
    <3>. QED BY <3>1, <3>2 DEF Fresh
  <2>2. ReadSoFar(s, Append(a, header), header, NoPacket, e, d, g, x + 1, 0)
    <3>1. Reached(s, a, g, x, o, i, q)
      BY <1>10, <1>13, Zenon
    <3>2. q = Parts(s[i])
      BY <1>1, <1>14
    <3>3. Matches(header, s, i)
      BY <1>4, Zenon
    <3>. QED BY <1>3, <1>5, <2>1, <3>1, <3>2, <3>3, ReadLast
  <2>3. received'[c] = Append(a, header) /\ inPrev'[c] = header /\ inPacket'[c] = NoPacket
    BY <1>6, <1>9, <1>13, <1>14
  <2>4. ReadSoFar(sent[c], received'[c], inPrev'[c], inPacket'[c], inExt'[c], inDelta'[c], h[c], r[c] + 1, 0)
    BY <1>1, <1>13, <2>2, <2>3, Zenon
  <2>. QED BY <1>11, <1>12, <2>4
<1>15. CASE q # Parts(m)
  <2>1. PICK p : p = [packet EXCEPT !.space = @ - bytes, !.ts = ts]
    OBVIOUS
  <2>2. packet.space # bytes
    BY <1>9, <1>15
  <2>3. p.open /\ p.space = packet.space - bytes /\ p.ts = ts
    BY <1>5, <2>1 DEF PacketType
  <2>4. q < Parts(m)
    BY <1>7, <1>15
  <2>5. bytes = Large
    BY <1>4, <1>7, <1>8, <2>4 DEF Units
  <2>6. p.space = Left(m, q + 1)
    BY <1>4, <1>7, <2>3, <2>5
  <2>7. Within(header, p, e, d, s, i, q)
    <3>1. i <= Len(s)
      BY <1>3
    <3>2. e = Extended(s[i]) /\ (Exact(s, i) => p.ts = s[i].ts /\ d = s[i].delta)
      BY <1>1, <1>4, <1>13, <2>3
    <3>3. q < Parts(s[i]) /\ p.space = Left(s[i], q + 1)
      BY <1>1, <2>4, <2>6
    <3>. QED BY <1>3, <1>4, <2>3, <3>1, <3>2, <3>3, Zenon DEF Within
  <2>8. ReadSoFar(s, a, header, p, e, d, g, x + 1, q)
    <3>1. Reached(s, a, g, x, o, i, q)
      BY <1>10, <1>13, Zenon
    <3>2. q < Parts(s[i])
      BY <1>1, <2>4
    <3>. QED BY <2>7, <3>1, <3>2, ReadPart
  <2>9. received'[c] = a /\ inPrev'[c] = header /\ inPacket'[c] = p
    BY <1>6, <1>13, <2>1, <2>2
  <2>10. ReadSoFar(sent[c], received'[c], inPrev'[c], inPacket'[c], inExt'[c], inDelta'[c], h[c], r[c] + 1, q)
    BY <1>1, <1>13, <2>8, <2>9, Zenon
  <2>. QED BY <1>11, <1>12, <2>10
<1>. QED BY <1>14, <1>15

(* It is whole: it is taken from the buffer *)
LEMMA ClearTakes ==
  ASSUME NEW h, NEW t, NEW r, NEW j, NEW D, NEW W, NEW c, NEW n, NEW i, NEW q, NEW f, NEW at, NEW body,
         NEW packet, NEW ext, NEW full, NEW value, NEW ts, NEW first, NEW bytes, NEW whole, NEW header,
         Round(h, t, r, j, D, W, c, n, i, q, f, at, body, packet, ext, full, value, ts, first, bytes, whole, header),
         ~Ambiguous(sent[c], i), whole
  PROVE  ChunkInv'
<1>1. PICK g : ReadSoFar(sent[c], received'[c], inPrev'[c], inPacket'[c], inExt'[c], inDelta'[c], h[c], r[c] + 1, g)
  BY ClearReads
<1>2. /\ c = Control /\ Announces(sent[c][i]) => inChunk' = Large
      /\ inChunk = Large => inChunk' = Large
  BY ClearReads
<1>3. Facing(h, t, r, j, D, W, c, n, i, q)
  BY Zenon DEF Round
<1>4. /\ ChunkInv /\ ~waiting /\ Ghosts(h, t, r, j, D, W) /\ FirstOf(sent, buf, wire, h, t, r, D, W, c, n, i, q)
  BY <1>3, Zenon DEF Facing
<1>5. /\ Stream(sent, buf, wire, h, t, r, D, W) /\ InTime(sent, inChunk, h, r, D)
      /\ \A y \in Csids : r[y] \in Nat /\ r[y] <= t[y]
  BY <1>4, GhostsFacts
<1>6. /\ IsChunk(sent, h, W[1], c, n, i, q) /\ D[1] = [csid |-> c, nr |-> n] /\ n = r[c] + 1 /\ Len(D) # 0
  BY <1>4, Zenon DEF FirstOf
<1>7. c \in Csids
  BY <1>6 DEF IsChunk
<1>8. PICK R : R = [y \in Csids |-> IF y = c THEN n ELSE r[y]]
  OBVIOUS
<1>9. PICK J : J = [y \in Csids |-> IF y = c THEN g ELSE j[y]]
  OBVIOUS
<1>10. /\ R[c] = n /\ J[c] = g
       /\ \A y \in Csids : y # c => R[y] = r[y] /\ J[y] = j[y]
  BY <1>7, <1>8, <1>9
<1>11. n \in Nat /\ n <= t[c]
  <2>1. 1 \in 1 .. Len(D)
    BY <1>5, <1>6, LenProperties DEF Stream
  <2>2. D[1].nr <= t[D[1].csid]
    BY <1>5, <2>1, Zenon DEF Stream
  <2>. QED BY <1>5, <1>6, <1>7, <2>2
<1>12. /\ lost' = FALSE /\ bytes = Units(sent[c][i], q) /\ first = DataAt(sent[c][i], q)
       /\ whole <=> Len(buf) >= Len(W[1])
  <2>1. PICK s, m, k : s = sent[c] /\ m = s[i] /\ k = W[1]
    OBVIOUS
  <2>2. ReadIt(s, i, m, q, k, c, packet, ts, first, bytes, whole, header)
    BY <2>1, ClearFacts
  <2>3. lost' = FALSE /\ bytes = Units(m, q) /\ first = DataAt(m, q) /\ (whole <=> Len(buf) >= Len(k))
    BY <2>2, Zenon DEF ReadIt
  <2>. QED BY <2>1, <2>3, Zenon
<1>13. buf' = Beyond(buf, Len(W[1])) /\ waiting' = waiting
  <2>1. Kept(f, c, at, packet, ext, ts, first, bytes, whole, header)
    BY RoundKeeps
  <2>2. buf' = SubSeq(buf, first + bytes, Len(buf)) /\ waiting' = waiting
    BY <2>1, Zenon DEF Kept
  <2>3. PICK m, k : m = sent[c][i] /\ k = W[1]
    OBVIOUS
  <2>4. m \in SentMessage /\ q \in 1 .. Parts(m) /\ k = Chunk(m, q)
    BY <1>6, <2>3, Zenon DEF IsChunk
  <2>5. DataAt(m, q) \in Nat /\ Units(m, q) \in Nat
    BY <2>4, ShapeRanges
  <2>6. Len(k) = DataAt(m, q) - 1 + Units(m, q)
    <3>1. ShapeOf(k, m, q)
      BY <2>4, ChunkFacts
    <3>. QED BY <3>1, Zenon DEF ShapeOf
  <2>7. first + bytes = Len(k) + 1
    BY <1>12, <2>3, <2>5, <2>6
  <2>. QED BY <2>2, <2>3, <2>7 DEF Beyond
<1>14. Len(W[1]) <= Len(buf)
  <2>1. Len(buf) \in Nat /\ Len(W[1]) \in Nat
    <3>1. Len(W[1]) \in Nat
      BY <1>6, Zenon DEF IsChunk
    <3>2. buf \in Seq(Cell)
      BY <1>5, Zenon DEF Stream
    <3>. QED BY <3>1, <3>2, LenProperties
  <2>. QED BY <1>12, <2>1
<1>15. PICK E, V : E = Tail(D) /\ V = Tail(W)
  OBVIOUS
<1>16. Stream(sent, buf', wire, h, t, R, E, V)
  <2>1. Stream(sent, Beyond(buf, Len(W[1])), wire, h, t, R, Tail(D), Tail(W))
    <3>1. R[c] = n /\ \A y \in Csids : y # c => R[y] = r[y]
      BY <1>10
    <3>. QED BY <1>4, <1>14, <3>1, StreamLess
  <2>. QED BY <1>13, <1>15, <2>1, Zenon
<1>17. InTime(sent, inChunk', h, R, E)
  <2>1. PICK l, o : l = inChunk /\ o = inChunk'
    OBVIOUS
  <2>2. InTime(sent, l, h, r, D) /\ (l = Large => o = Large) /\ (c = Control /\ Announces(sent[c][i]) => o = Large)
    BY <1>2, <1>5, <2>1
  <2>3. R[c] = n /\ \A y \in Csids : y # c => R[y] = r[y]
    BY <1>10
  <2>4. InTime(sent, o, h, R, Tail(D))
    BY <1>4, <2>2, <2>3, InTimeLess
  <2>. QED BY <1>15, <2>1, <2>4, Zenon
<1>18. Waits(sent, waiting', buf', h, E, V)
  BY <1>4, <1>13 DEF Waits
<1>19. R[c] \in Nat /\ R[c] <= t[c]
  BY <1>10, <1>11
<1>20. ReadSoFar(sent[c], received'[c], inPrev'[c], inPacket'[c], inExt'[c], inDelta'[c], h[c], R[c], J[c])
  BY <1>1, <1>6, <1>10, Zenon
<1>21. StandsThere(h, t, r, j, c, R, J, E, V)
  BY <1>10, <1>12, <1>16, <1>17, <1>18, <1>19, <1>20, Zenon DEF StandsThere
<1>. QED BY <1>21, StillGood

(* parseMessage: a round of its loop *)
LEMMA ParseKeeps ==
  ASSUME ChunkInv, ParseChunk
  PROVE  ChunkInv'
<1>1. PICK h, t, r, j, D, W, c, n, i, q : Facing(h, t, r, j, D, W, c, n, i, q)
  BY ParseFaces
<1>2. PICK f, at, body, packet, ext, full, value, ts, first, bytes, whole, header :
        /\ Reading(sent[c][i], q, W[1], c, f, at, body, packet, ext, full, value, ts, first, bytes, whole, header)
        /\ Taken(f, c, at, body, packet, ext, full, value, ts, first, bytes, whole, header)
  BY SMTT(20), <1>1, ParseReads
<1>3. UNCHANGED <<writer, pending, wire>>
  BY DEF ParseChunk
<1>4. Round(h, t, r, j, D, W, c, n, i, q, f, at, body, packet, ext, full, value, ts, first, bytes, whole, header)
  BY <1>1, <1>2, <1>3, Zenon DEF Round
<1>5. CASE Ambiguous(sent[c], i)
  BY <1>4, <1>5, PuzzledKeeps
<1>6. CASE ~Ambiguous(sent[c], i) /\ ~whole
  BY <1>4, <1>6, ClearWaits
<1>7. CASE ~Ambiguous(sent[c], i) /\ whole
  BY <1>4, <1>7, ClearTakes
<1>. QED BY <1>5, <1>6, <1>7
-----------------------------------------------------------------------------
(* Nothing has been sent *)
LEMMA ChunkStarts ==
  ASSUME ChunkInit
  PROVE  ChunkInv
<1>1. /\ outPrev = [c \in Csids |-> NoHeader] /\ outDelta = [c \in Csids |-> 0]
      /\ pending = [c \in Csids |-> <<>>] /\ wire = <<>> /\ sent = [c \in Csids |-> <<>>]
      /\ buf = <<>> /\ waiting = TRUE
      /\ inPrev = [c \in Csids |-> NoHeader] /\ inPacket = [c \in Csids |-> NoPacket]
      /\ inDelta = [c \in Csids |-> 0] /\ inExt = [c \in Csids |-> FALSE]
      /\ inChunk = Small /\ received = [c \in Csids |-> <<>>] /\ lost = FALSE
  BY DEF ChunkInit
<1>2. NoHeader \in HeaderType /\ NoHeader.set = FALSE /\ NoPacket \in PacketType
  BY DEF NoHeader, NoPacket, HeaderType, PacketType
<1>3. \A T : <<>> \in Seq(T)
  OBVIOUS
<1>3a. Len(<<>>) = 0
  OBVIOUS
<1>4. WriterInv
  <2>1. Written(sent)
    <3>1. sent \in [Csids -> Seq(SentMessage)]
      BY <1>1, <1>3
    <3>2. \A c \in Csids : Len(sent[c]) = 0
      BY <1>1
    <3>. QED BY <3>1, <3>2 DEF Written
  <2>2. \A c \in Csids : LastKept(sent[c], outPrev[c], outDelta[c])
    BY <1>1, <1>2 DEF LastKept
  <2>3. outPrev \in [Csids -> HeaderType] /\ outDelta \in [Csids -> Nat]
    BY <1>1, <1>2
  <2>4. pending \in [Csids -> Seq(Seq(Cell))]
    BY <1>1, <1>3
  <2>. QED BY <2>1, <2>2, <2>3, <2>4 DEF WriterInv
<1>5. ReaderTypes
  <2>1. inPrev \in [Csids -> HeaderType] /\ inPacket \in [Csids -> PacketType]
    BY <1>1, <1>2
  <2>2. received \in [Csids -> Seq(HeaderType)]
    BY <1>1, <1>3
  <2>. QED BY <1>1, <2>1, <2>2 DEF ReaderTypes
<1>6. ASSUME NEW c \in Csids PROVE ReceivedAsSent(sent[c], received[c])
  <2>1. Len(sent[c]) = 0 /\ Len(received[c]) = 0
    BY <1>1
  <2>. QED BY <2>1 DEF ReceivedAsSent
<1>7. PICK h, z : h = [c \in Csids |-> <<>>] /\ z = [c \in Csids |-> 0]
  OBVIOUS
<1>8. PICK none : none = <<>>
  OBVIOUS
<1>9. (\A T : none \in Seq(T)) /\ Len(none) = 0
  BY <1>3, <1>8
<1>10. Queue(none, none)
  BY <1>9 DEF Queue
<1>11. Waiting(none, none, none, 0)
  BY <1>9 DEF Waiting
<1>12. PICK v, p, e, d, o : v = NoHeader /\ p = NoPacket /\ e = FALSE /\ d = 0 /\ o = 0
  OBVIOUS
<1>12a. ReadSoFar(none, none, v, p, e, d, none, o, o)
  <2>1. Fresh(p, e, d, none, 1)
    BY <1>12 DEF Fresh
  <2>2. ~(1 > 1)
    OBVIOUS
  <2>3. StandsAt(v, p, e, d, none, 1, o)
    BY <1>12, <2>1, <2>2, Zenon DEF StandsAt
  <2>4. Len(none) + 1 = 1
    BY <1>9
  <2>5. StandsAt(v, p, e, d, none, Len(none) + 1, o)
    BY <2>3, <2>4, Zenon
  <2>6. ~(o < Len(none)) /\ o \in Nat /\ Len(none) <= Len(none) /\ ~\E x : x \in 1 .. Len(none)
    BY <1>9, <1>12
  <2>. QED BY <1>12, <2>5, <2>6, Zenon DEF ReadSoFar
<1>13. ASSUME NEW c \in Csids
       PROVE  /\ Queue(sent[c], h[c]) /\ Waiting(sent[c], pending[c], h[c], z[c])
              /\ ReadSoFar(sent[c], received[c], inPrev[c], inPacket[c], inExt[c], inDelta[c], h[c], z[c], z[c])
              /\ z[c] \in Nat /\ z[c] <= z[c]
  <2>1. /\ sent[c] = none /\ h[c] = none /\ pending[c] = none /\ received[c] = none /\ z[c] = 0
        /\ inPrev[c] = NoHeader /\ inPacket[c] = NoPacket /\ inExt[c] = FALSE /\ inDelta[c] = 0
    BY <1>1, <1>7, <1>8
  <2>2. Queue(sent[c], h[c]) /\ Waiting(sent[c], pending[c], h[c], z[c])
    BY <1>10, <1>11, <2>1
  <2>3. ReadSoFar(sent[c], received[c], inPrev[c], inPacket[c], inExt[c], inDelta[c], h[c], z[c], z[c])
    BY <1>12, <1>12a, <2>1, Zenon
  <2>4. z[c] \in Nat /\ z[c] <= z[c]
    BY <2>1
  <2>. QED BY <2>2, <2>3, <2>4
<1>14. Stream(sent, buf, wire, h, z, z, none, none)
  <2>1. Glue(buf, wire) = <<>>
    <3>1. buf \in Seq(Cell) /\ wire \in Seq(Cell) /\ Len(buf) = 0 /\ Len(wire) = 0
      BY <1>1, <1>3
    <3>2. Glue(buf, wire) \in Seq(Cell) /\ Len(Glue(buf, wire)) = 0
      <4>1. PICK b, u : b = buf /\ u = wire
        OBVIOUS
      <4>2. b \in Seq(Cell) /\ u \in Seq(Cell) /\ Len(b) = 0 /\ Len(u) = 0
        BY <3>1, <4>1, Zenon
      <4>3. Glue(b, u) \in Seq(Cell) /\ Len(Glue(b, u)) = Len(b) + Len(u)
        BY <4>2, GlueFacts
      <4>4. Glue(b, u) \in Seq(Cell) /\ Len(Glue(b, u)) = 0
        BY <4>2, <4>3
      <4>. QED BY <4>1, <4>4, Zenon
    <3>. QED BY <3>2, NoneFacts
  <2>2. Consists(Glue(buf, wire), none)
    BY <1>8, <2>1, ConsistsNone
  <2>3. buf \in Seq(Cell) /\ wire \in Seq(Cell)
    BY <1>1, <1>3
  <2>4. \A c \in Csids : \A n \in Nat : ~(z[c] < n /\ n <= z[c])
    BY <1>7
  <2>. QED BY <1>9, <2>2, <2>3, <2>4 DEF Stream
<1>15. InTime(sent, inChunk, h, z, none)
  <2>1. Control \in Csids => Len(h[Control]) = 0
    BY <1>7
  <2>. QED BY <1>9, <2>1 DEF InTime
<1>16. Waits(sent, waiting, buf, h, none, none)
  BY <1>9 DEF Waits
<1>17. Ghosts(h, z, z, z, none, none)
  BY <1>13, <1>14, <1>15, <1>16 DEF Ghosts
<1>. QED BY <1>1, <1>4, <1>5, <1>6, <1>17 DEF ChunkInv

(* Nothing changes *)
LEMMA ChunkStays ==
  ASSUME ChunkInv, UNCHANGED chunkVars
  PROVE  ChunkInv'
<1>1. /\ outPrev' = outPrev /\ outDelta' = outDelta /\ sent' = sent /\ pending' = pending /\ wire' = wire
      /\ buf' = buf /\ waiting' = waiting /\ inPrev' = inPrev /\ inPacket' = inPacket /\ inDelta' = inDelta
      /\ inExt' = inExt /\ inChunk' = inChunk /\ received' = received /\ lost' = lost
  BY DEF chunkVars, writer, reader
<1>2. WriterInv' /\ ReaderTypes'
  <2>1. WriterInv /\ ReaderTypes
    BY DEF ChunkInv
  <2>2. WriterInv'
    BY <1>1, <2>1 DEF WriterInv
  <2>3. ReaderTypes'
    BY <1>1, <2>1 DEF ReaderTypes
  <2>. QED BY <2>2, <2>3
<1>3. \A c \in Csids : ReceivedAsSent(sent'[c], received'[c])
  BY <1>1 DEF ChunkInv
<1>4. CASE lost
  BY <1>1, <1>2, <1>3, <1>4 DEF ChunkInv
<1>5. CASE ~lost
  <2>1. PICK h, t, r, j, D, W : Ghosts(h, t, r, j, D, W)
    BY <1>5 DEF ChunkInv
  <2>2. Ghosts(h, t, r, j, D, W)'
    BY <1>1, <2>1 DEF Ghosts
  <2>. QED BY <1>1, <1>2, <1>3, <1>5, <2>2 DEF ChunkInv
<1>. QED BY <1>4, <1>5

LEMMA ChunkStep ==
  ASSUME ChunkInv, [ChunkNext]_chunkVars
  PROVE  ChunkInv'
<1>1. ASSUME NEW m \in Messages, NEW ts \in Times, NEW fmt0 \in BOOLEAN, Send(m, ts, fmt0) PROVE ChunkInv'
  BY <1>1, SendKeeps
<1>2. ASSUME NEW c \in Csids, Transmit(c) PROVE ChunkInv'
  BY <1>2, TransmitKeeps
<1>3. ASSUME NEW n \in 1 .. Len(wire), Segment(n) PROVE ChunkInv'
  BY <1>3, SegmentKeeps
<1>4. CASE Return
  BY <1>4, ReturnKeeps
<1>5. CASE ParseChunk
  BY <1>5, ParseKeeps
<1>6. CASE UNCHANGED chunkVars
  BY <1>6, ChunkStays
<1>. QED BY <1>1, <1>2, <1>3, <1>4, <1>5, <1>6 DEF ChunkNext
-----------------------------------------------------------------------------
(* What the invariant says of the framing *)
LEMMA FramingFollows ==
  ASSUME ChunkInv
  PROVE  FramingKept
<1>1. CASE SomeAmbiguous(sent)
  BY <1>1 DEF FramingKept, SomeAmbiguous
<1>2. CASE ~SomeAmbiguous(sent)
  <2>1. ~lost
    BY <1>2 DEF ChunkInv
  <2>2. PICK h, t, r, j, D, W : Ghosts(h, t, r, j, D, W)
    BY <2>1 DEF ChunkInv
  <2>3. /\ \A y \in Csids :
             /\ Queue(sent[y], h[y]) /\ Waiting(sent[y], pending[y], h[y], t[y])
             /\ ReadSoFar(sent[y], received[y], inPrev[y], inPacket[y], inExt[y], inDelta[y], h[y], r[y], j[y])
             /\ r[y] \in Nat /\ r[y] <= t[y]
        /\ Stream(sent, buf, wire, h, t, r, D, W)
        /\ Waits(sent, waiting, buf, h, D, W) /\ InPlace(sent, h, t, r)
    BY <2>2, GhostsFacts
  <2>4. /\ D \in Seq([csid : Csids, nr : Nat]) /\ W \in Seq(Seq(Cell)) /\ Len(W) = Len(D)
        /\ buf \in Seq(Cell) /\ wire \in Seq(Cell) /\ Consists(Glue(buf, wire), W)
        /\ \A y \in Csids : \A n \in Nat : r[y] < n /\ n <= t[y] =>
             \E p \in 1 .. Len(D) : D[p].csid = y /\ D[p].nr = n
    BY <2>3, Zenon DEF Stream
  <2>5. /\ Len(Glue(buf, wire)) = Len(buf) + Len(wire) /\ Len(buf) \in Nat /\ Len(wire) \in Nat
        /\ Glue(buf, wire) \in Seq(Cell)
    BY <2>4, GlueFacts
  <2>6. TakesFirst
    <3>1. CASE Len(D) = 0
      <4>1. PICK cut : Cuts(Glue(buf, wire), W, cut)
        BY <2>4 DEF Consists
      <4>2. Len(Glue(buf, wire)) = 0
        BY <2>4, <3>1, <4>1 DEF Cuts
      <4>3. Len(buf) = 0
        <5>1. PICK y \in Nat, z \in Nat : y = Len(buf) /\ z = Len(wire)
          BY <2>5
        <5>2. y + z = 0
          BY <2>5, <4>2, <5>1
        <5>. QED BY <5>1, <5>2
      <4>4. buf = <<>>
        BY <2>4, <4>3, NoneFacts
      <4>. QED BY <4>4 DEF TakesFirst
    <3>2. CASE Len(D) # 0
      <4>1. PICK c, n, i, q : FirstOf(sent, buf, wire, h, t, r, D, W, c, n, i, q)
        BY <2>3, <3>2, NextChunk
      <4>2. IsChunk(sent, h, W[1], c, n, i, q)
        BY <4>1, Zenon DEF FirstOf
      <4>3. PICK k : k = W[1]
        OBVIOUS
      <4>4. Starts(k)
        BY <2>3, <3>2, <4>3, FirstInBuffer
      <4>5. Len(k) \in Nat /\ Len(k) >= 1 /\ k[1].is = "basic"
        BY <4>2, <4>3 DEF IsChunk
      <4>6. ASSUME buf # <<>> PROVE buf[1].is = "basic"
        <5>1. Len(buf) # 0
          BY <2>4, <4>6, NoneFacts
        <5>2. 1 \in 1 .. Len(k) /\ 1 <= Len(buf)
          BY <2>5, <4>5, <5>1
        <5>3. buf[1] = k[1]
          BY <4>4, <5>2 DEF Starts
        <5>. QED BY <4>5, <5>3
      <4>. QED BY <4>6 DEF TakesFirst
    <3>. QED BY <3>1, <3>2
  <2>7. ASSUME waiting, wire = <<>>, \A c \in Csids : pending[c] = <<>>
        PROVE  \A c \in Csids : Len(received[c]) = Len(sent[c])
    <3>1. Len(D) = 0
      <4>1. ASSUME Len(D) # 0 PROVE FALSE
        <5>1. PICK c, n, i, q : FirstOf(sent, buf, wire, h, t, r, D, W, c, n, i, q)
          BY <2>3, <4>1, NextChunk
        <5>2. IsChunk(sent, h, W[1], c, n, i, q) /\ D[1] = [csid |-> c, nr |-> n]
          BY <5>1, Zenon DEF FirstOf
        <5>3. c \in Csids /\ i \in 1 .. Len(sent[c]) /\ h[c][n].msg = i
          BY <5>2 DEF IsChunk
        <5>4. ~Ambiguous(sent[c], i)
          BY <1>2, <5>3 DEF SomeAmbiguous
        <5>5. ~Ambiguous(sent[D[1].csid], h[D[1].csid][D[1].nr].msg)
          <6>1. D[1].csid = c /\ D[1].nr = n
            BY <5>2
          <6>. QED BY <5>3, <5>4, <6>1
        <5>6. Len(buf) < Len(W[1])
          BY <2>3, <2>7, <4>1, <5>5 DEF Waits
        <5>7. Len(W[1]) \in Nat /\ Len(W[1]) <= Len(Glue(buf, wire))
          <6>1. W # <<>>
            BY <2>4, <4>1, NoneFacts
          <6>2. PICK u : u = Glue(buf, wire)
            OBVIOUS
          <6>3. u \in Seq(Cell) /\ Consists(u, W)
            BY <2>4, <2>5, <6>2
          <6>4. Len(W[1]) \in Nat /\ Len(W[1]) <= Len(u)
            BY <2>4, <6>1, <6>3, ConsistsLess
          <6>. QED BY <6>2, <6>4
        <5>8. Len(wire) = 0
          BY <2>7
        <5>. QED BY <2>5, <5>6, <5>7, <5>8
      <4>. QED BY <4>1
    <3>2. ASSUME NEW c \in Csids PROVE Len(received[c]) = Len(sent[c])
      <4>1. PICK s, a, g, x, y, o : /\ s = sent[c] /\ a = received[c] /\ g = h[c] /\ x = t[c] /\ y = r[c] /\ o = j[c]
        OBVIOUS
      <4>2. x \in Nat /\ x <= Len(g) /\ Len(pending[c]) = Len(g) - x /\ y \in Nat /\ y <= x /\ Len(g) \in Nat
        BY <2>3, <4>1, LenProperties DEF Waiting, Queue
      <4>3. Len(pending[c]) = 0
        BY <2>7
      <4>4. ~(y < x)
        <5>1. ASSUME y < x PROVE FALSE
          <6>1. \E p \in 1 .. Len(D) : D[p].csid = c /\ D[p].nr = x
            <7>1. r[c] < x /\ x <= t[c] /\ x \in Nat
              BY <4>1, <4>2, <5>1
            <7>. QED BY <2>4, <7>1
          <6>. QED BY <3>1, <6>1
        <5>. QED BY <5>1
      <4>5. y = Len(g)
        BY <4>2, <4>3, <4>4
      <4>6. y = Len(g) => Len(a) = Len(s)
        BY <2>3, <4>1 DEF ReadSoFar
      <4>. QED BY <4>1, <4>5, <4>6
    <3>. QED BY <3>2
  <2>. QED BY <2>1, <2>6, <2>7 DEF FramingKept
<1>. QED BY <1>1, <1>2

(* What it says of the messages *)
LEMMA IntactFollows ==
  ASSUME ChunkInv
  PROVE  MessagesIntact
<1>1. ASSUME NEW c \in Csids, \A i \in 1 .. Len(sent[c]) : ~Ambiguous(sent[c], i)
      PROVE  /\ Len(received[c]) <= Len(sent[c])
             /\ \A i \in 1 .. Len(received[c]) :
                  /\ received[c][i].len = sent[c][i].len /\ received[c][i].type = sent[c][i].type
                  /\ received[c][i].sid = sent[c][i].sid
                  /\ Exact(sent[c], i) => received[c][i].ts = sent[c][i].ts
  <2>1. ReceivedAsSent(sent[c], received[c])
    BY DEF ChunkInv
  <2>2. PICK s, a : s = sent[c] /\ a = received[c]
    OBVIOUS
  <2>3. Len(a) <= Len(s) /\ \A x \in 1 .. Len(a) : Matches(a[x], s, x)
    BY <1>1, <2>1, <2>2 DEF ReceivedAsSent
  <2>. QED BY <2>2, <2>3 DEF Matches
<1>. QED BY <1>1 DEF MessagesIntact

(* The chunk stream of RtmpContext: buildChunk writes and parseMessage     *)
(* reads.  However the chunks of several ids are mixed and TCP cuts the    *)
(* stream, the reader takes no payload for a header and no header for      *)
(* payload, and when everything has been read all messages have arrived,   *)
(* unless a header was sent that is ambiguous.                             *)
THEOREM ChunkFraming == ChunkSpec => []FramingKept
<1>1. ChunkInit => ChunkInv
  BY ChunkStarts
<1>2. ChunkInv /\ [ChunkNext]_chunkVars => ChunkInv'
  BY ChunkStep
<1>3. ChunkInv => FramingKept
  BY FramingFollows
<1>. QED BY <1>1, <1>2, <1>3, PTL DEF ChunkSpec

(* The messages of each chunk stream id arrive in order, with the length,  *)
(* type and stream they were sent with, and the timestamp too when no      *)
(* extended one has come since the last header of format 0.                *)
THEOREM ChunkMessages == ChunkSpec => []MessagesIntact
<1>1. ChunkInit => ChunkInv
  BY ChunkStarts
<1>2. ChunkInv /\ [ChunkNext]_chunkVars => ChunkInv'
  BY ChunkStep
<1>3. ChunkInv => MessagesIntact
  BY IntactFollows
<1>. QED BY <1>1, <1>2, <1>3, PTL DEF ChunkSpec
=============================================================================
