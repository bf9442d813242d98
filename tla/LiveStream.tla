----------------------------- MODULE LiveStream -----------------------------
(***************************************************************************)
(* The packet window of one live stream and the cursors of its players:    *)
(* LiveStream (live_stream.cpp), GopMgr (gop_mgr.cpp), CodecHeader         *)
(* (codec_header.cpp) and the sending half of RtmpPlayerUser               *)
(* (rtmp_playeruser.cpp).                                                  *)
(*                                                                         *)
(* The publisher's loop thread runs addPacket, the players' loop threads   *)
(* run postFrames.  LiveStream::lock_ covers everything addPacket and      *)
(* getFrames do to the window, so each of the two is one action.  When a   *)
(* player is woken up is the subject of module PlayerPump; here postFrames *)
(* may run at any time, with the RTMP context ready to send or not.        *)
(*                                                                         *)
(* A packet is its index, its kind and its corrected timestamp.  A video   *)
(* sequence header is a key frame to CodecUtils::isKeyFrame (FLV 0x17 0x00)*)
(* and TimeCorrector::correctTimestamp answers 0 for every codec header.   *)
(***************************************************************************)
EXTENDS Integers, Sequences, FiniteSets

CONSTANTS
  Players,      (* the players of the stream                               *)
  BufferSize,   (* packet_buffer_size_: slots of the ring                  *)
  BatchSize,    (* frames getNextFrame hands out at once (10)              *)
  Latency,      (* AppInfo::content_latency_, in units of the timestamps   *)
  Kinds,        (* the kinds of packets the publisher sends                *)
  Deltas,       (* differences of timestamps of successive media frames    *)
  MaxIndex      (* bound: index of the last packet the publisher sends     *)

HeaderKinds == {"meta", "audioHeader", "videoHeader"}
KeyKinds    == {"videoHeader", "key"}     (* CodecUtils::isKeyFrame        *)
AllKinds    == HeaderKinds \cup {"key", "inter", "audio"}
Media       == {"meta", "audio", "video"}

ASSUME LiveStreamAssumption ==
  /\ BufferSize \in Nat \ {0}
  /\ BatchSize \in Nat \ {0}
  /\ Latency \in Nat
  /\ Kinds \subseteq AllKinds
  /\ Deltas \subseteq Int
  /\ MaxIndex \in Nat

VARIABLES
  frameIndex,   (* frame_index_                                            *)
  ring,         (* packet_buffer_: slot -> packet                          *)
  gops,         (* gops_: entries in the order of their indices            *)
  latestTs,     (* GopMgr::lastest_timestamp_                              *)
  headers,      (* CodecHeader: media -> indices of its headers            *)
  has,          (* {has_audio_, has_video_, has_meta_} that are true       *)
  ready,        (* ready_                                                  *)
  mediaTs,      (* the last timestamp the publisher's corrector gave out   *)
  user,         (* the PlayerUser of every player                          *)
  decoder       (* history: what the player at the far end has received    *)

stream == <<frameIndex, ring, gops, latestTs, headers, has, ready, mediaTs>>
vars == <<stream, user, decoder>>

None == -1
Index == Nat \cup {None}
Packet == [index : Nat, kind : AllKinds, ts : Int]
NoPacket == [index |-> None, kind |-> "none", ts |-> 0]

Largest(S)  == CHOOSE x \in S : \A y \in S : y <= x
Smallest(S) == CHOOSE x \in S : \A y \in S : x <= y
-----------------------------------------------------------------------------
(* GopMgr and CodecHeader *)

RecentGopsAll == gops     (* mutant: the latency is not compared *)

(* The newest GOPs that are all within the latency: the loop of            *)
(* getGopByLatency walks from the newest entry and stops at the first one  *)
(* that is too old.                                                        *)
RecentGops ==
  {g \in gops : \A h \in gops : h.index >= g.index => latestTs - h.ts <= Latency}

GopByLatency ==
  IF RecentGops = {} THEN None ELSE Smallest({g.index : g \in RecentGops})

(* mutant: an entry at min_idx itself is kept *)
UnexpiredGopsKeep(gs, min) == {g \in gs : g.index >= min}

(* clearExpiredGop, which addPacket calls only for a positive min_idx *)
UnexpiredGops(gs, min) ==
  IF min > 0 THEN {g \in gs : g.index > min} ELSE gs

(* getMeta, getAudioHeader, getVideoHeader: the newest header at or before *)
(* the index, or the newest one when there is none.                        *)
HeaderFor(m, index) ==
  LET upTo == {h \in headers[m] : h <= index}
  IN  CASE headers[m] = {}          -> None
        [] index > 0 /\ upTo # {}   -> Largest(upTo)
        [] OTHER                    -> Largest(headers[m])
-----------------------------------------------------------------------------
HeaderMedia(kind) ==
  CASE kind = "meta"        -> {"meta"}
    [] kind = "audioHeader" -> {"audio"}
    [] kind = "videoHeader" -> {"video"}
    [] OTHER                -> {}

(* The branch for a meta packet in addPacket reads "has_meta_;": it        *)
(* leaves has_meta_ false.                                                 *)
MediaSeen(kind) == HeaderMedia(kind) \ {"meta"}

StoreNext(pkt) ==         (* mutant: the slot after *)
  [ring EXCEPT ![(pkt.index + 1) % BufferSize] = pkt]

Store(pkt) == [ring EXCEPT ![pkt.index % BufferSize] = pkt]

AddPacket(kind, d) ==
  LET i   == frameIndex + 1
      ts  == IF kind \in HeaderKinds THEN 0
             ELSE IF mediaTs + d < 0 THEN 0 ELSE mediaTs + d
      gop == IF kind \in KeyKinds THEN {[index |-> i, ts |-> ts]} ELSE {}
  IN  /\ frameIndex < MaxIndex
      /\ frameIndex' = i
      /\ mediaTs' = IF kind \in HeaderKinds THEN mediaTs ELSE ts
      /\ ready' = (ready \/ kind \in KeyKinds)
      /\ headers' = [m \in Media |->
                       headers[m] \cup (IF m \in HeaderMedia(kind) THEN {i} ELSE {})]
      /\ has' = has \cup MediaSeen(kind)
      /\ latestTs' = ts
      /\ ring' = Store([index |-> i, kind |-> kind, ts |-> ts])
      /\ gops' = UnexpiredGops(gops \cup gop, i - BufferSize)
      /\ UNCHANGED <<user, decoder>>
-----------------------------------------------------------------------------
(* LiveStream::getFrames and the functions it calls, as functions of the   *)
(* PlayerUser u they update.  u.pending holds meta_, audio_header_ and     *)
(* video_header_; u.sentIndex holds meta_index_, audio_header_index_ and   *)
(* video_header_index_.  wait_meta_, wait_audio_ and wait_video_ are true  *)
(* at the start of every locateGop: once a header of a media was seen      *)
(* there is one to send, so locateGop never returns half way.              *)

HasMedia == has # {}

Idle(u) == u.outFrames = <<>> /\ \A m \in Media : u.pending[m] = None

EnqueueLate(u, send) ==   (* mutant: the cursor is put on the GOP, not before it *)
  [u EXCEPT !.pending   = [m \in Media |-> IF send[m] THEN HeaderFor(m, GopByLatency) ELSE @[m]],
            !.sentIndex = [m \in Media |-> IF send[m] THEN HeaderFor(m, GopByLatency) ELSE @[m]],
            !.outIndex  = GopByLatency]

Enqueue(u, send) ==
  [u EXCEPT !.pending   = [m \in Media |-> IF send[m] THEN HeaderFor(m, GopByLatency) ELSE @[m]],
            !.sentIndex = [m \in Media |-> IF send[m] THEN HeaderFor(m, GopByLatency) ELSE @[m]],
            !.outIndex  = GopByLatency - 1]

LocateGop(u) == Enqueue(u, [m \in Media |-> m \in has])

SkipFrameBack(u) ==       (* mutant: index <= out_index is not checked *)
  IF GopByLatency = None THEN u
  ELSE Enqueue(u, [m \in Media |-> HeaderFor(m, GopByLatency) > u.sentIndex[m]])

SkipFrameBare(u) ==       (* mutant: the headers are not looked up again *)
  IF GopByLatency = None \/ GopByLatency <= u.outIndex THEN u
  ELSE [u EXCEPT !.outIndex = GopByLatency - 1]

SkipFrame(u) ==
  IF GopByLatency = None \/ GopByLatency <= u.outIndex THEN u
  ELSE Enqueue(u, [m \in Media |-> HeaderFor(m, GopByLatency) > u.sentIndex[m]])

NeedSkip(u) ==
  \/ u.outIndex < frameIndex - BufferSize
  \/ latestTs - u.outTs > 2 * Latency

(* The ring holds consecutive packets from any packet in it to the newest, *)
(* so only the first read can meet an index other than the expected one.   *)
NextFrames(u) ==
  LET first == ring[(u.outIndex + 1) % BufferSize]
      left  == frameIndex - first.index + 1
  IN  IF u.outIndex + 1 > frameIndex THEN <<>>
      ELSE [k \in 1 .. (IF left < BatchSize THEN left ELSE BatchSize) |->
              ring[(first.index + k - 1) % BufferSize]]

GetNextFrame(u) ==
  LET frames == NextFrames(u)
      last   == frames[Len(frames)]
  IN  IF frames = <<>> THEN u
      ELSE [u EXCEPT !.outFrames = frames, !.outIndex = last.index, !.outTs = last.ts]

(* The cursor from which getFrames reads; None when locateGop fails *)
Located(u) ==
  IF u.outIndex < 0 THEN LocateGop(u)
  ELSE IF NeedSkip(u) THEN SkipFrame(u) ELSE u

GetFrames(u) ==
  IF ~Idle(u) \/ (u.outIndex < 0 /\ GopByLatency = None) THEN u
  ELSE GetNextFrame(Located(u))
-----------------------------------------------------------------------------
(* RtmpPlayerUser::postFrames: one header or all frames per call, in the   *)
(* order meta, audio, video, frames; nothing when the context is busy.     *)

NextHeader(u) ==
  CASE u.pending["meta"] # None  -> {"meta"}
    [] u.pending["meta"] = None /\ u.pending["audio"] # None -> {"audio"}
    [] u.pending["meta"] = None /\ u.pending["audio"] = None
         /\ u.pending["video"] # None -> {"video"}
    [] OTHER -> {}

Push(u) ==
  IF NextHeader(u) # {}
  THEN [u EXCEPT !.pending = [m \in Media |-> IF m \in NextHeader(u) THEN None ELSE @[m]]]
  ELSE [u EXCEPT !.outFrames = <<>>]

(* History: the codec configuration of the far end.  It takes over the     *)
(* headers that are sent, also those that are packets of the window.       *)
HeadersIn(frames, m) ==
  {frames[k].index : k \in {j \in DOMAIN frames : m \in HeaderMedia(frames[j].kind)}}

Configured(cfg, u) ==
  [m \in Media |->
     LET inBand == HeadersIn(u.outFrames, m)
     IN  CASE NextHeader(u) # {} -> IF m \in NextHeader(u) THEN u.pending[m] ELSE cfg[m]
           [] NextHeader(u) = {} /\ inBand # {} -> Largest(inBand)
           [] OTHER -> cfg[m]]

LastSent(last, u) ==
  IF NextHeader(u) = {} /\ u.outFrames # <<>> THEN u.outFrames[Len(u.outFrames)].index
  ELSE last

(* History: the player has lost track when the window has moved past it    *)
(* and there was no GOP to skip to; it recovers with the next GOP.         *)
FellOut(u) ==
  u.outIndex >= 0 /\ u.outIndex < frameIndex - BufferSize /\ Located(u) = u

(* History: the player was given a header newer than the GOP it starts at. *)
GivenEarly(u) == \E m \in Media : u.pending[m] > u.outFrames[1].index

PostFrames(p, canSend) ==
  LET u == GetFrames(user[p])
  IN  /\ ready /\ HasMedia
      /\ user' = [user EXCEPT ![p] = IF canSend THEN Push(u) ELSE u]
      /\ decoder' = [decoder EXCEPT ![p] =
           [cfg  |-> IF canSend THEN Configured(@.cfg, u) ELSE @.cfg,
            last |-> IF canSend THEN LastSent(@.last, u) ELSE @.last,
            lost |-> IF ~Idle(user[p]) THEN @.lost
                     ELSE FellOut(user[p]) \/ (@.lost /\ Located(user[p]) = user[p]),
            early |-> @.early \/ (u.outFrames # <<>> /\ GivenEarly(u))]]
      /\ UNCHANGED stream

Init ==
  /\ frameIndex = -1
  /\ ring = [s \in 0 .. BufferSize - 1 |-> NoPacket]
  /\ gops = {}
  /\ latestTs = 0
  /\ headers = [m \in Media |-> {}]
  /\ has = {}
  /\ ready = FALSE
  /\ mediaTs = 0
  /\ user = [p \in Players |->
       [outIndex |-> None, outTs |-> 0, outFrames |-> <<>>,
        pending |-> [m \in Media |-> None], sentIndex |-> [m \in Media |-> 0]]]
  /\ decoder = [p \in Players |-> [cfg |-> [m \in Media |-> None], last |-> None,
                                    lost |-> FALSE, early |-> FALSE]]

Next ==
  \/ \E kind \in Kinds, d \in Deltas : AddPacket(kind, d)
  \/ \E p \in Players, canSend \in BOOLEAN : PostFrames(p, canSend)

Spec == Init /\ [][Next]_vars
-----------------------------------------------------------------------------
(* Properties *)

(* Types of all variables: the window holds packets, cursors are indices.  *)
TypeOK ==
  /\ frameIndex \in Index
  /\ ring \in [0 .. BufferSize - 1 -> Packet \cup {NoPacket}]
  /\ gops \subseteq [index : Nat, ts : Int]
  /\ latestTs \in Int
  /\ headers \in [Media -> SUBSET Nat]
  /\ has \subseteq Media
  /\ ready \in BOOLEAN
  /\ mediaTs \in Int
  /\ user \in [Players ->
       [outIndex : Index, outTs : Int, outFrames : Seq(Packet),
        pending : [Media -> Index], sentIndex : [Media -> Index]]]
  /\ decoder \in [Players -> [cfg : [Media -> Index], last : Index,
                         lost : BOOLEAN, early : BOOLEAN]]

(* The ring is a window without holes: each of the last BufferSize packets *)
(* is in its slot, and a slot that was never written is empty.  getFrames  *)
(* relies on it: it reads slots by index and follows the indices it finds. *)
RingIsWindow ==
  \A s \in 0 .. BufferSize - 1 :
    \/ /\ ring[s] = NoPacket
       /\ frameIndex < s
    \/ /\ ring[s] # NoPacket
       /\ ring[s].index % BufferSize = s
       /\ frameIndex - BufferSize < ring[s].index
       /\ ring[s].index <= frameIndex

(* A GOP that locateGop or skipFrame may choose starts at a packet that is *)
(* still in its slot, but for one packet time: when the window holds       *)
(* exactly the packets 1 .. BufferSize, addPacket does not yet clear       *)
(* expired GOPs and packet 0 is overwritten (live_stream.cpp:89-92).       *)
GopsInRing ==
  \A g \in gops :
    \/ ring[g.index % BufferSize].index = g.index
    \/ g.index = 0 /\ frameIndex = BufferSize

(* What the player holds to be sent when postFrames has called getFrames   *)
Held(p) == IF ready /\ HasMedia THEN GetFrames(user[p]) ELSE user[p]

(* A player never goes back: whatever addPacket does to the window between *)
(* two reads, no frame is sent twice or out of order, and a batch has no   *)
(* holes (getNextFrame, skipFrame, the clear of out_frames_).              *)
FramesInOrder ==
  \A p \in Players :
    LET f == Held(p).outFrames
    IN  \A k \in DOMAIN f : /\ f[k].index > decoder[p].last
                            /\ f[k].index = f[1].index + k - 1

(* When the frames sent to a player leave a gap, what follows the gap can  *)
(* be decoded: a player starts with a key frame and goes on with the       *)
(* packet after its last one or with a key frame (locateGop, skipFrame).   *)
(* The exceptions are a player that fell out of the window while there was *)
(* no GOP to skip to, and the join at GOP 0 in the moment GopsInRing       *)
(* excepts.                                                                *)
GapLandsOnKeyFrame ==
  \A p \in Players :
    LET f == Held(p).outFrames
    IN  Idle(user[p]) /\ f # <<>> =>
          \/ user[p].outIndex >= 0 /\ f[1].index = decoder[p].last + 1
          \/ f[1].kind \in KeyKinds
          \/ FellOut(user[p])
          \/ GopByLatency = 0 /\ frameIndex = BufferSize

(* The video configuration the far end has when it decodes the k-th frame  *)
(* of a batch: the last header packet before it in the batch, or else the  *)
(* header sent ahead of the batch, or else the one it had.                 *)
ConfigAt(p, k) ==
  LET u      == Held(p)
      inBand == HeadersIn(SubSeq(u.outFrames, 1, k), "video")
  IN  CASE inBand # {}                                -> Largest(inBand)
        [] inBand = {} /\ u.pending["video"] # None   -> u.pending["video"]
        [] OTHER                                      -> decoder[p].cfg["video"]

(* Every video frame a player is given is decoded with the sequence header *)
(* that was in force when the frame was published, also when the publisher *)
(* changes its header and the player skips over the packet that changed it *)
(* (the comparisons with *_header_index_ in skipFrame).  It cannot hold for*)
(* a player that has fallen out of the window, nor for one that was given  *)
(* a header newer than its GOP and so is not given that header again.      *)
DecodedWithItsHeader ==
  \A p \in Players : ~(decoder[p].lost \/ FellOut(user[p]) \/ decoder[p].early) =>
    \A k \in DOMAIN Held(p).outFrames :
      LET f    == Held(p).outFrames[k]
          upTo == {h \in headers["video"] : h <= f.index}
      IN  f.kind \in {"key", "inter"} /\ upTo # {} => ConfigAt(p, k) = Largest(upTo)

(* A player that joins or skips gets a GOP that starts at most Latency     *)
(* before the newest media frame, unless the newest packet is a header:    *)
(* its timestamp 0 makes every GOP look recent (addFrame, correctTimestamp)*)
JoinsWithinLatency ==
  \A p \in Players :
    LET f == Held(p).outFrames
    IN  Idle(user[p]) /\ f # <<>> =>
          \/ user[p].outIndex >= 0 /\ f[1].index = decoder[p].last + 1
          \/ mediaTs - f[1].ts <= Latency
          \/ ring[frameIndex % BufferSize].kind \in HeaderKinds
          \/ FellOut(user[p])
=============================================================================
