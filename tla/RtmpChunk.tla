------------------------------ MODULE RtmpChunk ------------------------------
(***************************************************************************)
(* The chunk stream of RTMP: buildChunk of RtmpContext writes messages as  *)
(* chunks with compressed headers, parseMessage reads them back from a TCP *)
(* stream that may end anywhere.                                           *)
(*                                                                         *)
(* A cell of the wire is a field of a header or a unit of payload.  A      *)
(* timestamp is a number of two digits of base Radix; the 24-bit field of  *)
(* a header has room for one, and its largest value, Mark, announces an    *)
(* extended timestamp.                                                     *)
(***************************************************************************)
EXTENDS Integers, Sequences, SequencesExt, FiniteSetsExt

CONSTANTS
  Csids,        (* chunk stream ids: 2 .. 65599                            *)
  Messages,     (* what may be sent: [csid, len, type, sid]                *)
  Times,        (* timestamps                                              *)
  Radix,        (* base of the digits: 2^24 for the code                   *)
  Small,        (* chunk size before the peer is told another (128)        *)
  Large,        (* out_chunk_size_ (4096)                                  *)
  MaxSent       (* bound: messages                                         *)

Mark     == Radix - 1
Control  == 2                        (* csid of control messages *)
SetChunkSize == 1                    (* a message type *)

ASSUME CsidsAssumption == Csids \subseteq Nat /\ \A c \in Csids : c >= 2 /\ c <= 65599
ASSUME MessagesAssumption ==
  /\ Messages \subseteq [csid : Csids, len : Nat, type : Nat, sid : Nat] /\ Times \subseteq Nat
  /\ \A m \in Messages : m.type = SetChunkSize => m.csid = Control
ASSUME SizesAssumption ==
  /\ Radix \in Nat \ {0} /\ Small \in Nat \ {0} /\ Large \in Nat /\ Small <= Large

NoHeader == [len |-> 0, type |-> 0, sid |-> 0, ts |-> 0, set |-> FALSE]
NoPacket == [open |-> FALSE, space |-> 0, ts |-> 0]

VARIABLES
  outPrev,      (* out_message_headers_                                    *)
  outDelta,     (* out_deltas_                                             *)
  pending,      (* chunks that are built and not yet on the wire, by csid  *)
  wire,         (* cells on their way                                      *)
  sent,         (* history: messages and the headers they got, by csid     *)
  buf,          (* the reader's LSSMsgBuffer                               *)
  waiting,      (* parseMessage has returned: it needs more                *)
  inPrev,       (* in_message_headers_                                     *)
  inPacket,     (* in_packets_: space left and header->timestamp           *)
  inDelta,      (* in_deltas_                                              *)
  inExt,        (* in_ext_                                                 *)
  inChunk,      (* in_chunk_size_                                          *)
  received,     (* messageComplete, by csid                                *)
  lost          (* the reader has taken a cell for what it is not          *)

writer    == <<outPrev, outDelta, sent>>
reader    == <<buf, waiting, inPrev, inPacket, inDelta, inExt, inChunk, received, lost>>
chunkVars == <<writer, reader, pending, wire>>

(* memcpy writes a number in host order, BytesReader reads network order   *)
Swap(v) == (v % Radix) * Radix + v \div Radix
-----------------------------------------------------------------------------
(* buildChunk *)

BasicHeader(fmt, c) ==
  IF c < 64 THEN <<[is |-> "basic", fmt |-> fmt, low |-> c]>>
  ELSE IF c < 64 + 256 THEN <<[is |-> "basic", fmt |-> fmt, low |-> 0], [is |-> "id", v |-> c - 64]>>
  ELSE <<[is |-> "basic", fmt |-> fmt, low |-> 1],
         [is |-> "id", v |-> (c - 64) % 256], [is |-> "id", v |-> (c - 64) \div 256]>>

MessageHeader(fmt, m, field) ==
  LET all == <<[is |-> "ts", v |-> field], [is |-> "len", v |-> m.len],
               [is |-> "type", v |-> m.type], [is |-> "sid", v |-> m.sid]>>
  IN  SubSeq(all, 1, CASE fmt = 0 -> 4 [] fmt = 1 -> 3 [] fmt = 2 -> 1 [] fmt = 3 -> 0)

Payload(n) == [i \in 1 .. n |-> [is |-> "data"]]

Chunks(fmt, m, value, size) ==
  LET field == IF value > Mark THEN Mark ELSE value
      ext   == IF field = Mark THEN <<[is |-> "ext", v |-> value]>> ELSE <<>>
      count == IF m.len = 0 THEN 1 ELSE (m.len + size - 1) \div size
      Data(i) == Payload(IF m.len - (i - 1) * size < size THEN m.len - (i - 1) * size ELSE size)
  IN  [i \in 1 .. count |->
        IF i = 1 THEN BasicHeader(fmt, m.csid) \o MessageHeader(fmt, m, field) \o ext \o Data(i)
        ELSE BasicHeader(3, m.csid) \o ext \o Data(i)]

(* the format of the header: how much of the previous one still holds *)
FormatAnyLength(m, prev, value, delta, useDelta) ==   (* mutant *)
  IF ~useDelta THEN 0
  ELSE IF m.type # prev.type THEN 1
  ELSE IF value # delta THEN 2 ELSE 3

Format(m, prev, value, delta, useDelta) ==
  IF ~useDelta THEN 0
  ELSE IF m.type # prev.type \/ m.len # prev.len THEN 1
  ELSE IF value # delta THEN 2 ELSE 3

UseDeltaAlways(fmt0, prev, m, ts) ==                  (* mutant: time may run backwards *)
  ~fmt0 /\ prev.set /\ m.sid = prev.sid

UseDelta(fmt0, prev, m, ts) ==
  ~fmt0 /\ prev.set /\ ts >= prev.ts /\ m.sid = prev.sid

(* SetChunkSize comes before what is larger than the reader's first chunks *)
Announced == Control \in Csids /\ \E i \in 1 .. Len(sent[Control]) : sent[Control][i].type = SetChunkSize

(* Large is also the size of the writer's own chunks *)
Send(m, ts, fmt0) ==
  /\ MapThenSumSet(LAMBDA c : Len(sent[c]), Csids) < MaxSent
  /\ m.len <= Small \/ Announced
  /\ LET prev     == outPrev[m.csid]
         useDelta == UseDelta(fmt0, prev, m, ts)
         value    == IF useDelta THEN ts - prev.ts ELSE ts
         fmt      == Format(m, prev, value, outDelta[m.csid], useDelta)
         delta    == CASE fmt = 0 -> 0 [] fmt \in {1, 2} -> value [] fmt = 3 -> outDelta[m.csid]
     IN  /\ pending' = [pending EXCEPT ![m.csid] = @ \o Chunks(fmt, m, value, Large)]
         /\ outPrev' = [outPrev EXCEPT ![m.csid] =
              [len |-> m.len, type |-> m.type, sid |-> m.sid, ts |-> ts, set |-> TRUE]]
         /\ outDelta' = [outDelta EXCEPT ![m.csid] = delta]
         /\ sent' = [sent EXCEPT ![m.csid] = Append(@,
              [csid |-> m.csid, len |-> m.len, type |-> m.type, sid |-> m.sid, ts |-> ts,
               fmt |-> fmt, value |-> value, delta |-> delta])]
  /\ UNCHANGED <<wire, reader>>

(* This code sends message by message; other peers mix the chunks of       *)
(* different ids.  Control messages come first.                            *)
Transmit(c) ==
  /\ pending[c] # <<>>
  /\ c # Control => Control \notin Csids \/ pending[Control] = <<>>
  /\ wire' = wire \o Head(pending[c])
  /\ pending' = [pending EXCEPT ![c] = Tail(@)]
  /\ UNCHANGED <<writer, reader>>

(* A segment of any length arrives *)
Segment(n) ==
  /\ ~lost /\ waiting /\ n \in 1 .. Len(wire)
  /\ buf' = buf \o SubSeq(wire, 1, n)
  /\ wire' = SubSeq(wire, n + 1, Len(wire))
  /\ waiting' = FALSE
  /\ UNCHANGED <<writer, pending, inPrev, inPacket, inDelta, inExt, inChunk, received, lost>>
-----------------------------------------------------------------------------
(* parseMessage: one round of its loop *)

IdCells(b) == IF b.low = 0 THEN 1 ELSE IF b.low = 1 THEN 2 ELSE 0
Fields(fmt) == CASE fmt = 0 -> 4 [] fmt = 1 -> 3 [] fmt = 2 -> 1 [] fmt = 3 -> 0

CsidIn(b) ==
  CASE b.low = 0 -> 64 + buf[2].v [] b.low = 1 -> 64 + buf[2].v + 256 * buf[3].v [] OTHER -> b.low

Are(kind, from, n) == \A i \in from .. from + n - 1 : buf[i].is = kind

(* nothing is there to be read, or not a whole header *)
NeedsHeader ==
  IF Len(buf) <= 1 THEN TRUE
  ELSE LET n == 1 + IdCells(buf[1]) IN Len(buf) <= n \/ Len(buf) < n + Fields(buf[1].fmt)

TakesFirst == buf # <<>> => buf[1].is = "basic"

Return ==
  /\ ~waiting /\ ~lost /\ TakesFirst /\ NeedsHeader
  /\ waiting' = TRUE
  /\ UNCHANGED <<writer, pending, wire, buf, inPrev, inPacket, inDelta, inExt, inChunk, received, lost>>

(* What the header says: length of the message, timestamp and delta        *)
HeaderLen(fmt, c, at) ==
  IF fmt \in {0, 1} THEN buf[at + 1].v
  ELSE IF inPrev[c].len = 0 THEN inChunk ELSE inPrev[c].len

HeaderTs(fmt, c, at, ts) ==
  CASE fmt = 0 -> buf[at].v
    [] fmt \in {1, 2} -> buf[at].v + inPrev[c].ts
    [] fmt = 3 -> IF ts = 0 THEN inDelta[c] + inPrev[c].ts ELSE ts

HeaderDelta(fmt, c, at) ==
  CASE fmt = 0 -> 0 [] fmt \in {1, 2} -> buf[at].v [] fmt = 3 -> inDelta[c]

ExtAlwaysAsked(fmt, c, at) ==      (* mutant: a chunk without a header has none *)
  fmt # 3 /\ buf[at].v = Mark

HasExt(fmt, c, at) == IF fmt = 3 THEN inExt[c] ELSE buf[at].v = Mark

ParseChunk ==
  /\ ~waiting /\ ~lost /\ TakesFirst /\ ~NeedsHeader
  /\ LET b      == buf[1]
         fmt    == b.fmt
         c      == CsidIn(b)
         at     == 2 + IdCells(b)                   (* first field *)
         body   == at + Fields(fmt)                 (* extended timestamp or payload *)
         packet == IF inPacket[c].open THEN inPacket[c]
                   ELSE [open |-> TRUE, space |-> HeaderLen(fmt, c, at), ts |-> 0]
         ext    == HasExt(fmt, c, at)
         full   == Len(buf) >= body                 (* an extended timestamp is there *)
         value  == IF ext /\ full THEN (IF buf[body].is = "ext" THEN Swap(buf[body].v) ELSE 0) ELSE 0
         ts1    == HeaderTs(fmt, c, at, packet.ts)
         ts     == IF ext /\ full /\ fmt # 0 THEN value + inPrev[c].ts ELSE ts1
         first  == IF ext THEN body + 1 ELSE body
         bytes  == Min({packet.space, inChunk})
         whole  == (ext => full) /\ Len(buf) - first + 1 >= bytes
         prev   == inPrev[c]
         header == [len |-> IF fmt \in {0, 1} THEN buf[at + 1].v ELSE prev.len,
                    type |-> IF fmt \in {0, 1} THEN buf[at + 2].v ELSE prev.type,
                    sid |-> IF fmt = 0 THEN buf[at + 3].v ELSE prev.sid, ts |-> ts, set |-> TRUE]
     IN  /\ inDelta' = [inDelta EXCEPT ![c] =
              IF ext /\ full /\ fmt # 0 THEN value ELSE HeaderDelta(fmt, c, at)]
         /\ inExt' = [inExt EXCEPT ![c] = ext]
         /\ lost' = ((ext /\ full /\ buf[body].is # "ext") \/ (whole /\ ~Are("data", first, bytes)))
         /\ IF ~whole
            THEN /\ inPacket' = [inPacket EXCEPT ![c] = [packet EXCEPT !.ts = ts]]
                 /\ waiting' = TRUE
                 /\ UNCHANGED <<buf, inPrev, inChunk, received>>
            ELSE /\ buf' = SubSeq(buf, first + bytes, Len(buf))
                 /\ inPrev' = [inPrev EXCEPT ![c] = header]
                 /\ inPacket' = [inPacket EXCEPT ![c] =
                      IF packet.space = bytes THEN NoPacket
                      ELSE [packet EXCEPT !.space = @ - bytes, !.ts = ts]]
                 /\ received' = IF packet.space = bytes
                                THEN [received EXCEPT ![c] = Append(@, header)] ELSE received
                 /\ inChunk' = IF packet.space = bytes /\ header.type = SetChunkSize THEN Large ELSE inChunk
                 /\ UNCHANGED waiting
  /\ UNCHANGED <<writer, pending, wire>>

ChunkInit ==
  /\ outPrev = [c \in Csids |-> NoHeader] /\ outDelta = [c \in Csids |-> 0]
  /\ pending = [c \in Csids |-> <<>>] /\ wire = <<>> /\ sent = [c \in Csids |-> <<>>]
  /\ buf = <<>> /\ waiting = TRUE
  /\ inPrev = [c \in Csids |-> NoHeader] /\ inPacket = [c \in Csids |-> NoPacket]
  /\ inDelta = [c \in Csids |-> 0] /\ inExt = [c \in Csids |-> FALSE]
  /\ inChunk = Small /\ received = [c \in Csids |-> <<>>] /\ lost = FALSE

ChunkNext ==
  \/ \E m \in Messages, ts \in Times, fmt0 \in BOOLEAN : Send(m, ts, fmt0)
  \/ \E c \in Csids : Transmit(c)
  \/ \E n \in 1 .. Len(wire) : Segment(n)
  \/ Return \/ ParseChunk

ChunkSpec == ChunkInit /\ [][ChunkNext]_chunkVars
-----------------------------------------------------------------------------
(* Properties *)

ChunkTypeOK ==
  /\ \A c \in Csids : inPacket[c].space \in 0 .. Max({m.len : m \in Messages} \cup {Large})
  /\ \A c \in Csids : inPrev[c].ts \in Nat /\ outDelta[c] \in Nat /\ inDelta[c] \in Nat
  /\ inChunk \in {Small, Large} /\ lost \in BOOLEAN /\ waiting \in BOOLEAN

(* A message whose timestamp does not fit into the header *)
Extended(m) == m.value >= Mark

(* Headers that the reader cannot tell apart from others: a message of no  *)
(* length whose header does not say so (parseMessage takes the length for  *)
(* unknown), and a header of format 3 after an extended timestamp, or one  *)
(* of a chunk without it (in_ext_).                                        *)
Ambiguous(s, i) ==
  \/ s[i].len = 0 /\ s[i].fmt \in {2, 3}
  \/ s[i].fmt = 3 /\ Extended(s[i]) # Extended(s[i - 1])

(* However the stream is cut into segments and chunks of different ids are *)
(* mixed, the reader takes no payload for a header and no header for       *)
(* payload, and when everything has been read everything has arrived: it   *)
(* never waits for what does not come.  A header that is ambiguous is the  *)
(* only way to lose the framing.                                           *)
FramingKept ==
  \/ /\ ~lost /\ (~waiting => TakesFirst)
     /\ waiting /\ wire = <<>> /\ (\A c \in Csids : pending[c] = <<>>) =>
          \A c \in Csids : Len(received[c]) = Len(sent[c])
  \/ \E c \in Csids : \E i \in 1 .. Len(sent[c]) : Ambiguous(sent[c], i)

(* The timestamp is lost from an extended one, whose bytes are swapped or  *)
(* dropped, to the next header of format 0.                                *)
Exact(s, i) ==
  \E k \in 1 .. i : s[k].fmt = 0 /\ \A j \in k .. i : ~Extended(s[j])

(* Messages arrive whole, in order, with type, length, stream and          *)
(* timestamp as they were sent, for each chunk stream id.                  *)
MessagesIntact ==
  \A c \in Csids :
    LET s == sent[c] r == received[c] IN
      (\A i \in 1 .. Len(s) : ~Ambiguous(s, i)) =>
        /\ Len(r) <= Len(s)
        /\ \A i \in 1 .. Len(r) :
             /\ r[i].len = s[i].len /\ r[i].type = s[i].type /\ r[i].sid = s[i].sid
             /\ Exact(s, i) => r[i].ts = s[i].ts
=============================================================================
