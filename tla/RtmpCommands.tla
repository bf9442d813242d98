---------------------------- MODULE RtmpCommands ----------------------------
(***************************************************************************)
(* The dialogue of an RTMP client and server once the handshake is done:   *)
(* what RtmpContext answers to each message, the chunk size each end       *)
(* announces, the acknowledgement of bytes, and the name of the session a  *)
(* player or publisher ends up in.                                         *)
(*                                                                         *)
(* An end is this code's RtmpContext or another program that follows the   *)
(* protocol.  Messages are whole here (RtmpChunk cuts and joins them) and  *)
(* in the order of pushOutQueue (PlayerPump shows that it is emptied).     *)
(***************************************************************************)
EXTENDS Integers, Sequences, SequencesExt

CONSTANTS
  Window,         (* ack_size_ at first: 2048 * 1000                        *)
  OtherWindows,   (* what another program sends as window size              *)
  Urls,           (* [host, port, path]: the parts of a tcUrl               *)
  Streams,        (* [name, param]                                          *)
  MaxSaid         (* bound: what another program sends                      *)

(* Sizes are numbers; a tcUrl names at least an application *)
ASSUME RtmpCommandsAssumption ==
  /\ Window \in Nat /\ OtherWindows \subseteq Nat
  /\ \A u \in Urls : /\ u = [host |-> u.host, port |-> u.port, path |-> u.path]
                     /\ u.path \in Seq(ToSet(u.path)) \ {<<>>}
  /\ \A s \in Streams : s = [name |-> s.name, param |-> s.param]

Ends     == {"client", "server"}
Peer(e)  == IF e = "client" THEN "server" ELSE "client"
Kinds    == {<<"own", "own">>, <<"other", "own">>, <<"own", "other">>}
NoStream == [name |-> "", param |-> ""]
NoUrl    == [host |-> "", port |-> "", path |-> <<>>]

VARIABLES
  kind,           (* <<client, server>>: this code or another program       *)
  stream,         (* messages on their way to an end                        *)
  buffered,       (* bytes of the first of them that the end has read       *)
  lastLeft,       (* last_left_                                             *)
  inBytes,        (* in_bytes_                                              *)
  ackSize,        (* ack_size_                                              *)
  inChunkSize,    (* in_chunk_size_                                         *)
  ctx,            (* app_, tc_url_, name_, session_name_, is_player_        *)
  calls,          (* calls of the RtmpHandler                               *)
  closed,         (* forceClose                                             *)
  asked,          (* history: what the client asks for                      *)
  said,           (* history: messages of the other program                 *)
  total,          (* history: bytes read and reported, and the window then  *)
  requests,       (* history: ids the server has to answer                  *)
  results         (* history: ids of the answers the client has got         *)

conn    == <<stream, buffered, lastLeft, inBytes, total>>
history == <<kind, asked, said>>
cmdVars == <<conn, history, ackSize, inChunkSize, ctx, calls, closed, requests, results>>

Own(e) == IF e = "client" THEN kind[1] = "own" ELSE kind[2] = "own"

(* The length in units of half of the first chunk size: the commands with  *)
(* a URL or a list of properties do not fit into one chunk of 128 bytes.   *)
Big(m)  == m.is \in {"connect", "accepted", "media"}
Size(m) == IF Big(m) THEN 3 ELSE 1
Msg(is, id) == [is |-> is, id |-> id, app |-> <<>>, url |-> NoUrl, name |-> NoStream]
-----------------------------------------------------------------------------
(* The session name *)

(* app_ up to its first "/" goes; name_ loses its parameters; a tcUrl of   *)
(* four or five parts gives domain and app, without the port.              *)
ParseWholePath(c) ==                           (* mutant: all that follows the domain *)
  [c EXCEPT !.app = c.url.path, !.name.param = "", !.param = c.name.param,
            !.session = <<c.url.host, c.url.path, c.name.name>>]

ParseNameAndTcUrl(c) ==
  LET known == Len(c.url.path) \in {1, 2}
      app   == IF known THEN <<c.url.path[1]>>
               ELSE IF Len(c.app) > 1 THEN Tail(c.app) ELSE c.app
  IN  [c EXCEPT !.app = app, !.name.param = "", !.param = c.name.param,
                !.session = <<IF known THEN c.url.host ELSE "", app, c.name.name>>]
-----------------------------------------------------------------------------
(* Reading: parse and parseMessage up to messageComplete *)

CountAgain(e, n) == inBytes[e] + buffered[e] + n               (* mutant *)
Counted(e, n)    == inBytes[e] + (buffered[e] + n - lastLeft[e])

(* sendBytesRecv *)
Reports(e, n)    == Counted(e, n) >= ackSize[e]
BytesRecv(e, n)  == IF Reports(e, n) THEN <<Msg("bytesRead", Counted(e, n))>> ELSE <<>>

Count(e, n) ==
  /\ inBytes' = [inBytes EXCEPT ![e] = IF Reports(e, n) THEN 0 ELSE Counted(e, n)]
  /\ total' = [total EXCEPT ![e] =
       [read |-> @.read + n, window |-> ackSize[e],
        reported |-> @.reported + IF Reports(e, n) THEN Counted(e, n) ELSE 0]]

Readable(e) == Own(e) /\ ~closed[e] /\ stream[e] # <<>>
Rest(e)     == Size(Head(stream[e])) - buffered[e]

(* A read that ends inside a message *)
ReadPart(e, n) ==
  /\ Readable(e) /\ n < Rest(e)
  /\ buffered' = [buffered EXCEPT ![e] = @ + n]
  /\ lastLeft' = [lastLeft EXCEPT ![e] = buffered[e] + n]
  /\ stream' = [stream EXCEPT ![Peer(e)] = @ \o BytesRecv(e, n)]
  /\ Count(e, n)
  /\ UNCHANGED <<history, ackSize, inChunkSize, ctx, calls, closed, requests, results>>

(* A read that ends with a message; the bytes are reported before it is    *)
(* handled and answered.                                                   *)
Complete(e, answers) ==
  /\ buffered' = [buffered EXCEPT ![e] = 0] /\ lastLeft' = [lastLeft EXCEPT ![e] = 0]
  /\ stream' = [stream EXCEPT ![e] = Tail(@), ![Peer(e)] = @ \o BytesRecv(e, Rest(e)) \o answers]
  /\ Count(e, Rest(e))
  /\ UNCHANGED history

Got(e, is) == Readable(e) /\ Head(stream[e]).is = is
-----------------------------------------------------------------------------
(* messageComplete *)

HandleChunkSize(e) ==
  /\ Got(e, "chunkSize") /\ Complete(e, <<>>)
  /\ inChunkSize' = [inChunkSize EXCEPT ![e] = Head(stream[e]).id]
  /\ UNCHANGED <<ackSize, ctx, calls, closed, requests, results>>

HandleAckWindowSize(e) ==
  /\ Got(e, "ackSize") /\ Complete(e, <<>>)
  /\ ackSize' = [ackSize EXCEPT ![e] = Head(stream[e]).id]
  /\ UNCHANGED <<inChunkSize, ctx, calls, closed, requests, results>>

(* sendUserCtrlMessage writes the value over the type, so an event goes    *)
(* out with the upper half of its value as its type: that of a stream that *)
(* begins, for what is asked and answered here.                            *)
UserCtrl(value) == Msg("streamBegin", value)

(* The other events of handleUserMessage are only logged; so are bytes     *)
(* read, the peer's bandwidth and commands that are not in commands_.      *)
HandleUserMessage(e) ==
  /\ Got(e, "ping")
  /\ Complete(e, <<UserCtrl(Head(stream[e]).id)>>)
  /\ UNCHANGED <<ackSize, inChunkSize, ctx, calls, closed, requests, results>>

Ignored(e) ==
  /\ \E is \in {"bytesRead", "bandwidth", "streamBegin", "onStatus", "unknown"} : Got(e, is)
  /\ Complete(e, <<>>)
  /\ UNCHANGED <<ackSize, inChunkSize, ctx, calls, closed, requests, results>>

Media(e) ==
  /\ Got(e, "media") /\ Complete(e, <<>>)
  /\ calls' = [calls EXCEPT ![e] = Append(@, <<"onRecv">>)]
  /\ UNCHANGED <<ackSize, inChunkSize, ctx, closed, requests, results>>

ConnectAnswer(e) ==
  <<Msg("ackSize", ackSize[e]), Msg("bandwidth", ackSize[e]), Msg("chunkSize", 4096), Msg("accepted", 1)>>

HandleConnect(e) ==
  /\ Got(e, "connect")
  /\ Complete(e, ConnectAnswer(e))
  /\ ctx' = [ctx EXCEPT ![e].url = Head(stream[e]).url, ![e].app = Head(stream[e]).app]
  /\ requests' = Append(requests, Head(stream[e]).id)
  /\ UNCHANGED <<ackSize, inChunkSize, calls, closed, results>>

ResultId(e) == Head(stream[e]).id

HandleCreateStream(e) ==
  /\ Got(e, "createStream")
  /\ Complete(e, <<Msg("created", ResultId(e))>>)
  /\ requests' = Append(requests, Head(stream[e]).id)
  /\ UNCHANGED <<ackSize, inChunkSize, ctx, calls, closed, results>>

HandlePlay(e) ==
  /\ Got(e, "play")
  /\ Complete(e, <<UserCtrl(1), Msg("onStatus", 0)>>)
  /\ ctx' = [ctx EXCEPT ![e] = ParseNameAndTcUrl([@ EXCEPT !.name = Head(stream[e]).name, !.player = TRUE])]
  /\ calls' = [calls EXCEPT ![e] = Append(@, <<"onPlay", ctx'[e].session>>)]
  /\ UNCHANGED <<ackSize, inChunkSize, closed, requests, results>>

HandlePublish(e) ==
  /\ Got(e, "publish")
  /\ Complete(e, <<Msg("onStatus", 0)>>)
  /\ ctx' = [ctx EXCEPT ![e] = ParseNameAndTcUrl([@ EXCEPT !.name = Head(stream[e]).name, !.player = FALSE])]
  /\ calls' = [calls EXCEPT ![e] = Append(@, <<"onPublish", ctx'[e].session>>)]
  /\ UNCHANGED <<ackSize, inChunkSize, closed, requests, results>>

PlaysAnyway(e) ==                              (* mutant: is_player_ is not asked *)
  [Msg("play", 0) EXCEPT !.name = ctx[e].name]

Request(e) ==
  IF ctx[e].player THEN [Msg("play", 0) EXCEPT !.name = ctx[e].name]
  ELSE [Msg("publish", 5) EXCEPT !.name = ctx[e].name]

HandleResult(e) ==
  /\ Got(e, "accepted") \/ Got(e, "created")
  /\ LET id == Head(stream[e]).id IN
       /\ Complete(e, CASE id = 1 -> <<Msg("createStream", 4)>>
                        [] id = 4 -> <<Request(e)>>
                        [] OTHER -> <<>>)
       /\ calls' = IF id = 5 THEN [calls EXCEPT ![e] = Append(@, <<"onPublishPrepare">>)] ELSE calls
       /\ results' = Append(results, id)
  /\ UNCHANGED <<ackSize, inChunkSize, ctx, closed, requests>>

HandleError(e) ==
  /\ Got(e, "error") /\ Complete(e, <<>>)
  /\ closed' = [closed EXCEPT ![e] = TRUE]
  /\ UNCHANGED <<ackSize, inChunkSize, ctx, calls, requests, results>>
-----------------------------------------------------------------------------
(* The two ends *)

NewContext(player, url) ==
  [app |-> <<>>, url |-> url, name |-> NoStream, param |-> "", session |-> <<>>, player |-> player]

ConnectMsg(c) == [Msg("connect", 1) EXCEPT !.app = c.app, !.url = c.url]

(* play or publish of this code's client, up to sendConnect: the name of   *)
(* the stream stays in the URL                                             *)
SendConnect ==
  /\ Own("client") /\ asked = <<>>
  /\ \E url \in Urls, s \in Streams, player \in BOOLEAN :
       LET c == ParseNameAndTcUrl(NewContext(player, [url EXCEPT !.path = <<@[1], s.name>>])) IN
         /\ ctx' = [ctx EXCEPT !["client"] = c]
         /\ stream' = [stream EXCEPT !["server"] = @ \o <<Msg("chunkSize", 4096), ConnectMsg(c)>>]
         /\ asked' = <<IF player THEN "onPlay" ELSE "onPublish", url, s>>
  /\ UNCHANGED <<kind, said, buffered, lastLeft, inBytes, total, ackSize, inChunkSize, calls,
                 closed, requests, results>>

(* Another client: it asks in order, does not wait for answers and may say *)
(* other things in between; its chunks are as small as the server expects  *)
(* or as it has announced.                                                 *)
OtherClient ==
  /\ ~Own("client")
  /\ \/ /\ asked = <<>>
        /\ \E url \in Urls, s \in Streams, call \in {"onPlay", "onPublish"} :
             /\ asked' = <<call, url, s>>
             /\ stream' = [stream EXCEPT !["server"] =
                  <<[Msg("connect", 1) EXCEPT !.app = url.path, !.url = url], Msg("createStream", 2)>>]
        /\ UNCHANGED said
     \/ /\ asked # <<>> /\ "request" \notin ToSet(said)
        /\ stream' = [stream EXCEPT !["server"] = Append(@,
             [Msg(IF asked[1] = "onPlay" THEN "play" ELSE "publish", 3) EXCEPT !.name = asked[3]])]
        /\ said' = Append(said, "request")
        /\ UNCHANGED asked
     \/ /\ asked # <<>> /\ Len(said) < MaxSaid
        /\ \E m \in {Msg("ping", 7), Msg("unknown", 0), Msg("bytesRead", 0), Msg("media", 0)}
                     \cup {Msg("ackSize", w) : w \in OtherWindows} :
             /\ stream' = [stream EXCEPT !["server"] = Append(@, m)]
             /\ said' = Append(said, m.is)
        /\ UNCHANGED asked
  /\ UNCHANGED <<kind, buffered, lastLeft, inBytes, total, ackSize, inChunkSize, ctx, calls,
                 closed, requests, results>>

(* Another server answers each request once, with a result or an error     *)
Answers(m) ==
  CASE m.is = "connect"      -> {<<Msg("chunkSize", 4096), Msg("accepted", 1)>>, <<Msg("error", 1)>>}
    [] m.is = "createStream" -> {<<Msg("created", m.id)>>, <<Msg("error", m.id)>>}
    [] m.is = "play"         -> {<<Msg("onStatus", 0), Msg("media", 0)>>}
    [] m.is = "publish"      -> {<<Msg("onStatus", 0)>>, <<Msg("onStatus", 0), Msg("created", m.id)>>}
    [] OTHER                 -> {<<>>}

OtherServer ==
  /\ ~Own("server")
  /\ \/ /\ stream["server"] # <<>>
        /\ \E answer \in Answers(Head(stream["server"])) :
             stream' = [stream EXCEPT !["server"] = Tail(@), !["client"] = @ \o answer]
        /\ requests' = IF Head(stream["server"]).is \in {"connect", "createStream", "publish"}
                       THEN Append(requests, Head(stream["server"]).id) ELSE requests
        /\ inChunkSize' = IF Head(stream["server"]).is = "chunkSize"
                          THEN [inChunkSize EXCEPT !["server"] = Head(stream["server"]).id] ELSE inChunkSize
        /\ UNCHANGED said
     \/ /\ asked # <<>> /\ Len(said) < MaxSaid
        /\ \E m \in {Msg("ping", 7), Msg("bandwidth", 0)} \cup {Msg("ackSize", w) : w \in OtherWindows} :
             /\ stream' = [stream EXCEPT !["client"] = Append(@, m)]
             /\ said' = Append(said, m.is)
        /\ UNCHANGED <<requests, inChunkSize>>
  /\ UNCHANGED <<kind, asked, buffered, lastLeft, inBytes, total, ackSize, ctx, calls, closed, results>>

(* Another client reads what it is sent *)
OtherReads ==
  /\ ~Own("client") /\ stream["client"] # <<>>
  /\ LET m == Head(stream["client"]) IN
       /\ results' = IF m.is \in {"accepted", "created"} THEN Append(results, m.id) ELSE results
       /\ inChunkSize' = IF m.is = "chunkSize" THEN [inChunkSize EXCEPT !["client"] = m.id] ELSE inChunkSize
  /\ stream' = [stream EXCEPT !["client"] = Tail(@)]
  /\ UNCHANGED <<history, buffered, lastLeft, inBytes, total, ackSize, ctx, calls, closed, requests>>

CmdInit ==
  /\ kind \in Kinds
  /\ stream = [e \in Ends |-> <<>>]
  /\ buffered = [e \in Ends |-> 0] /\ lastLeft = [e \in Ends |-> 0] /\ inBytes = [e \in Ends |-> 0]
  /\ ackSize = [e \in Ends |-> Window] /\ inChunkSize = [e \in Ends |-> 128]
  /\ ctx = [e \in Ends |-> NewContext(FALSE, NoUrl)]
  /\ calls = [e \in Ends |-> <<>>] /\ closed = [e \in Ends |-> FALSE]
  /\ asked = <<>> /\ said = <<>> /\ requests = <<>> /\ results = <<>>
  /\ total = [e \in Ends |-> [read |-> 0, reported |-> 0, window |-> Window]]

CmdNext ==
  \/ SendConnect \/ OtherClient \/ OtherServer \/ OtherReads
  \/ \E e \in Ends :
       \/ \E n \in 1 .. 2 : ReadPart(e, n)
       \/ HandleChunkSize(e) \/ HandleAckWindowSize(e) \/ HandleUserMessage(e) \/ Ignored(e)
       \/ Media(e) \/ HandleConnect(e) \/ HandleCreateStream(e) \/ HandlePlay(e)
       \/ HandlePublish(e) \/ HandleResult(e) \/ HandleError(e)
CmdSpec == CmdInit /\ [][CmdNext]_cmdVars
-----------------------------------------------------------------------------
(* Properties *)

CmdTypeOK ==
  /\ \A e \in Ends : /\ ackSize[e] \in OtherWindows \cup {Window}
                     /\ inChunkSize[e] \in {128, 4096}
                     /\ lastLeft[e] \in 0 .. 2 /\ buffered[e] = lastLeft[e]
  /\ \A e \in Ends : ctx[e].app \in {<<>>} \cup {<<u.path[1]>> : u \in Urls}
                                     \cup {u.path : u \in Urls} \cup {Tail(u.path) : u \in Urls}

(* However reads cut the stream, every byte is counted once, and none      *)
(* waits for an acknowledgement once a window of them has been read; with  *)
(* a window of nothing, none waits at all (in_bytes_, last_left_).  A      *)
(* window that has just become smaller is looked at with the next read.    *)
BytesAcknowledged ==
  \A e \in Ends :
    /\ total[e].read = total[e].reported + inBytes[e]
    /\ inBytes[e] < total[e].window \/ inBytes[e] = 0

(* A message that takes more than one chunk is not read before the chunk   *)
(* size it was built with: handleConnect and sendConnect announce it first *)
(* (rtmp_context.cpp:696, 970).                                            *)
ChunkSizeKnown ==
  \A e \in Ends :
    Own(Peer(e)) /\ stream[e] # <<>> /\ Head(stream[e]).is \in {"connect", "accepted"} =>
      inChunkSize[e] = 4096

(* The answers on their way *)
Coming == {i \in 1 .. Len(stream["client"]) : stream["client"][i].is \in {"accepted", "created"}}

(* The client gets one answer to each request, with its id, in the order   *)
(* of the requests (handleConnect answers 1, handleCreateStream what it    *)
(* was given).                                                             *)
AnswersInOrder ==
  \E n \in 0 .. Len(requests) : \E at \in [1 .. n -> Coming] :
    /\ \A k, l \in 1 .. n : k < l => at[k] < at[l]
    /\ \A i \in Coming : \E k \in 1 .. n : at[k] = i
    /\ LET all == results \o [k \in 1 .. n |-> stream["client"][at[k]].id]
       IN  IF Own("server") THEN all = requests ELSE IsPrefix(all, requests)

(* This code's client that publishes is left without onPublishPrepare when *)
(* the server is this code's too: it waits for the _result with id 5       *)
(* (handleResult, rtmp_context.cpp:1127), but handlePublish (:1100)        *)
(* answers with onStatus only.  All it gets are 1 and 4.                   *)
PublisherWaits == Own("client") /\ Own("server") => ToSet(results) \subseteq {1, 4}

(* Between requests and answers the dialogue does not stop: every end can  *)
(* read what it is sent, answers come in order, and when nothing is on its *)
(* way any more, the handler of this code's server has been asked to play  *)
(* or to publish, unless another client has not asked for it; and this     *)
(* code's client at another server has the answer to createStream or has   *)
(* been refused.  That is as far as it goes for a client that publishes,   *)
(* which goes on waiting (PublisherWaits).                                 *)
DialogueCompletes ==
  /\ ChunkSizeKnown /\ AnswersInOrder /\ PublisherWaits
  /\ asked # <<>> /\ (\A e \in Ends : stream[e] = <<>>) =>
       \/ Own("server") /\ ~Own("client") /\ "request" \notin ToSet(said)
       \/ Own("server") /\ \E i \in 1 .. Len(calls["server"]) : calls["server"][i][1] = asked[1]
       \/ ~Own("server") /\ (closed["client"] \/ 4 \in ToSet(results))

(* The handler is asked for what the client wants, once: as player or      *)
(* publisher, in the session <domain>/<app>/<name> whatever port, instance *)
(* or parameters come with it.  This code's client leaves the name empty,  *)
(* and a tcUrl of more than five parts does not name the domain.           *)
JoinsAsAsked ==
  LET joins == {i \in 1 .. Len(calls["server"]) : calls["server"][i][1] # "onRecv"} IN
    \A i \in joins :
      /\ joins = {i}
      /\ Own("client") \/ Len(asked[2].path) < 3 =>
           calls["server"][i] = <<asked[1], <<asked[2].host, <<asked[2].path[1]>>,
                                              IF Own("client") THEN "" ELSE asked[3].name>> >>
=============================================================================
