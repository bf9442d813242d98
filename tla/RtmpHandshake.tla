---------------------------- MODULE RtmpHandshake ----------------------------
(***************************************************************************)
(* The RTMP handshake of a client and a server over TCP: RtmpHandShake     *)
(* (rtmp_handshake.cpp), the states of RtmpContext that drive it           *)
(* (rtmp_context.cpp:34-72), and the part of LSSTcpConnection that carries *)
(* it: sendInLoop, onRead and onWrite (lssvc_tcpconn.cpp).                 *)
(*                                                                         *)
(* TCP delivers what was written in segments of any size.  A byte is what  *)
(* it belongs to: "v" is the version byte of C0 or S0, "1" and "2" belong  *)
(* to C1/S1 and C2/S2, "m" is a message after the handshake, "bad" is a    *)
(* version the other end does not accept, and "stray" is no byte of any of *)
(* them.  The server is the code's; the client is the code's or one that   *)
(* follows the protocol (external).                                        *)
(***************************************************************************)
EXTENDS Integers, Sequences, SequencesExt

CONSTANTS
  PacketSize,    (* kRtmpHandShakePacketSize: the length of C1, S1, C2, S2 *)
  Clients,       (* what the client may be: "code" (this one), "external" *)
  WriteResults   (* what write() may do with the bytes it is given         *)

ASSUME RtmpHandshakeAssumption ==
  /\ PacketSize \in Nat \ {0}
  /\ Clients # {} /\ Clients \subseteq {"code", "external"}
  /\ WriteResults # {} /\ WriteResults \subseteq {"all", "part", "none"}

Ends == {"client", "server"}
Peer(x) == CHOOSE y \in Ends : y # x

VARIABLES
  end,       (* the two ends of the connection                             *)
  arrived    (* end -> how many of the bytes its peer wrote have arrived   *)

vars == <<end, arrived>>

(* Fields of an end: client is is_client_, code says that it runs this     *)
(* code, hs is RtmpHandShake::state_,                                      *)
(* ctx is RtmpContext::state_,                                             *)
(* in is message_buffer_, out is io_vec_list_, wrote (history) is all that *)
(* the kernel took, sock is what has arrived and was not read, edge says   *)
(* that epoll has an event to report, got (history) is what was given to   *)
(* parseMessage, open says that the connection is not closed.              *)
NewEnd(x, code) ==
  [client |-> x = "client", code |-> code,
   hs |-> IF x = "client" THEN "Init" ELSE "WaitC0C1", ctx |-> "handshake",
   in |-> <<>>, out |-> <<>>, wrote |-> <<>>,
   sock |-> <<>>, edge |-> FALSE, got |-> <<>>, open |-> TRUE]

Repeat(b, n) == [k \in 1 .. n |-> b]
Hello   == <<"v">> \o Repeat("1", PacketSize)      (* C1S1_ *)
Echo    == Repeat("2", PacketSize)                 (* C2S2_ *)
Message == <<"m">>

From(s, n) == SubSeq(s, n + 1, Len(s))
-----------------------------------------------------------------------------
(* LSSTcpConnection, as functions of the end e they update.  w is the      *)
(* outcome of write(): all bytes taken, one of them, or EAGAIN.            *)

WriteForget(e, bytes, w) ==     (* mutant: a short write counts as complete *)
  [e EXCEPT !.wrote = IF w = "all" THEN @ \o bytes ELSE Append(@, Head(bytes))]

(* sendInLoop(buf, size).  send_len is a size_t, so EAGAIN is not noticed  *)
(* (lssvc_tcpconn.cpp:197): size grows by one and the vector starts one    *)
(* byte before buf.                                                        *)
Write(e, bytes, w) ==
  IF e.out # <<>> THEN [e EXCEPT !.out = @ \o bytes, !.edge = TRUE]
  ELSE IF w = "all" THEN [e EXCEPT !.wrote = @ \o bytes]
  ELSE IF w = "part" THEN
    [e EXCEPT !.wrote = Append(@, Head(bytes)), !.out = Tail(bytes), !.edge = TRUE]
  ELSE [e EXCEPT !.out = <<"stray">> \o bytes, !.edge = TRUE]

(* send(list): queued, and written when epoll says so *)
SendList(e, bytes) == [e EXCEPT !.out = @ \o bytes, !.edge = TRUE]

Close(e) == [e EXCEPT !.open = FALSE, !.edge = FALSE]
-----------------------------------------------------------------------------
(* RtmpHandShake.  A write that takes everything at once calls             *)
(* writeComplete before sendC1S1 or sendC2S2 returns.                      *)

AfterWriteS2(hs) ==       (* mutant: kHandShakeWaitS2 for kHandShakeWaitC2 *)
  CASE hs = "PostS2"              -> "WaitS2"
    [] hs = "PostC0C1"            -> "WaitS0S1"
    [] hs \in {"PostC2", "Doning"} -> "Done"
    [] OTHER                      -> hs

AfterWrite(hs) ==
  CASE hs = "PostS2"              -> "WaitC2"
    [] hs = "PostC0C1"            -> "WaitS0S1"
    [] hs \in {"PostC2", "Doning"} -> "Done"
    [] OTHER                      -> hs

SendC2S2(e, w) ==
  LET sent == Write(e, Echo, w)
  IN  IF sent.out = <<>> THEN [sent EXCEPT !.hs = AfterWrite(@)] ELSE sent

WriteCompleteNoS2(e, w) ==      (* mutant: S2 is not sent *)
  [e EXCEPT !.hs = AfterWrite(@)]

WriteComplete(e, w) ==
  IF e.hs = "PostS0S1" THEN SendC2S2([e EXCEPT !.hs = "PostS2"], w)
  ELSE [e EXCEPT !.hs = AfterWrite(@)]

(* w[1] is the outcome of this write, w[2] of the one it may lead to *)
SendC1S1(e, w) ==
  LET sent == Write(e, Hello, w[1])
  IN  IF sent.out = <<>> THEN WriteComplete(sent, w[2]) ELSE sent

(* checkC1S1: version and digest are right *)
Accepted(bytes) == bytes = Hello

(* handShake and parse.  The first message, connect, is answered by the    *)
(* server.                                                                 *)
ParseMessage(e) ==
  LET taken == [e EXCEPT !.got = @ \o e.in, !.in = <<>>]
  IN  IF ~e.client /\ e.got = <<>> /\ e.in # <<>> THEN SendList(taken, Message) ELSE taken

WaitC0C1(e, w) ==
  IF Len(e.in) < PacketSize + 1 THEN e
  ELSE IF Accepted(SubSeq(e.in, 1, PacketSize + 1))
  THEN SendC1S1([e EXCEPT !.hs = "PostS0S1", !.in = From(@, PacketSize + 1)], w)
  ELSE Close(e)

WaitC2Short(e) ==         (* mutant: the size of C2 is not checked *)
  ParseMessage([e EXCEPT !.hs = "Done", !.ctx = "message", !.in = From(@, PacketSize)])

WaitC2(e) ==
  IF Len(e.in) < PacketSize THEN e
  ELSE ParseMessage([e EXCEPT !.hs = "Done", !.ctx = "message", !.in = From(@, PacketSize)])

(* S2 is taken only if it is all that remains after S0S1 in the buffer     *)
WaitS0S1(e, w) ==
  LET rest == From(e.in, PacketSize + 1)
  IN  IF Len(e.in) < PacketSize + 1 THEN e
      ELSE IF ~Accepted(SubSeq(e.in, 1, PacketSize + 1)) THEN Close(e)
      ELSE IF Len(rest) = PacketSize
      THEN SendList([SendC2S2([e EXCEPT !.hs = "Doning", !.in = <<>>], w[1])
                       EXCEPT !.ctx = "message"], Message)
      ELSE SendC2S2([e EXCEPT !.hs = "PostC2", !.in = rest], w[1])

Parse(e, w) ==
  IF e.ctx = "message" THEN ParseMessage(e)
  ELSE CASE e.hs = "WaitC0C1" -> WaitC0C1(e, w)
         [] e.hs = "WaitC2"   -> WaitC2(e)
         [] e.hs = "WaitS0S1" -> WaitS0S1(e, w)
         [] OTHER             -> e
-----------------------------------------------------------------------------
Outcomes == WriteResults \X WriteResults

(* What the code runs at x: not an external client *)
Code(x) == end[x].open /\ end[x].code

(* The client is connected: onConnection, start *)
Start ==
  /\ Code("client") /\ end["client"].hs = "Init"
  /\ \E w \in Outcomes :
       end' = [end EXCEPT !["client"] = SendC1S1([@ EXCEPT !.hs = "PostC0C1"], w)]
  /\ UNCHANGED arrived

InFlight(x) == Len(end[Peer(x)].wrote) - arrived[x]

(* A segment of n bytes arrives at x *)
Arrive(x, n) ==
  /\ end[x].open
  /\ arrived' = [arrived EXCEPT ![x] = @ + n]
  /\ end' = [end EXCEPT ![x].sock = @ \o SubSeq(end[Peer(x)].wrote, arrived[x] + 1, arrived[x] + n),
                        ![x].edge = TRUE]

(* onRead: reads what has arrived and parses what is buffered *)
ReadFd(e) == [e EXCEPT !.in = @ \o e.sock, !.sock = <<>>, !.edge = FALSE]

OnRead(x) ==
  /\ Code(x) /\ end[x].edge /\ end[x].sock # <<>>
  /\ \E w \in Outcomes : end' = [end EXCEPT ![x] = Parse(ReadFd(@), w)]
  /\ UNCHANGED arrived

(* onWrite, when the event has nothing to read: writev takes everything,   *)
(* which completes the write, or a byte, and the rest when there is room.  *)
OnWrite(x) ==
  /\ Code(x) /\ end[x].edge /\ end[x].sock = <<>> /\ end[x].out # <<>>
  /\ \E w \in Outcomes :
       LET e == end[x]
           n == IF w[1] = "all" THEN Len(e.out) ELSE 1
           t == [e EXCEPT !.wrote = @ \o SubSeq(e.out, 1, n), !.out = From(@, n),
                          !.edge = Len(e.out) > n]
       IN  end' = [end EXCEPT ![x] =
                     IF t.out = <<>> /\ t.ctx = "handshake" THEN WriteComplete(t, w[2]) ELSE t]
  /\ UNCHANGED arrived

(* The peer has closed and all it wrote was read: readFd answers 0 *)
Eof(x) ==
  /\ end[x].open /\ ~end[Peer(x)].open /\ InFlight(x) = 0 /\ end[x].sock = <<>>
  /\ end' = [end EXCEPT ![x] = Close(@)]
  /\ UNCHANGED arrived
-----------------------------------------------------------------------------
(* A client that follows the protocol: C0C1; C2 when it has S0S1; its      *)
(* first message when it has S2.                                           *)
ExternalSays(from, need, to, bytes) ==
  LET e == end["client"]
  IN  /\ ~e.code /\ e.open /\ e.hs = from /\ Len(e.sock) >= need
      /\ end' = [end EXCEPT !["client"].hs = to, !["client"].sock = From(@, need),
                            !["client"].wrote = @ \o bytes]
      /\ UNCHANGED arrived

ExternalNext ==
  \/ ExternalSays("Init", 0, "WaitS0S1", Hello)
  \/ ExternalSays("WaitS0S1", PacketSize + 1, "WaitS2", Echo)
  \/ ExternalSays("WaitS2", PacketSize, "Done", Message)

(* One that speaks another version *)
ExternalBad == ExternalSays("Init", 0, "WaitS0S1", [Hello EXCEPT ![1] = "bad"])
-----------------------------------------------------------------------------
Init ==
  /\ \E c \in Clients : end = [x \in Ends |-> NewEnd(x, x = "server" \/ c = "code")]
  /\ arrived = [x \in Ends |-> 0]

Next ==
  \/ Start
  \/ \E x \in Ends : \/ \E n \in 1 .. InFlight(x) : Arrive(x, n)
                     \/ OnRead(x) \/ OnWrite(x) \/ Eof(x)
  \/ ExternalNext \/ ExternalBad

(* TCP delivers, the loops serve their events, and a client that follows   *)
(* the protocol goes on with it.                                           *)
Fairness ==
  /\ WF_vars(Start) /\ WF_vars(ExternalNext)
  /\ \A x \in Ends : /\ WF_vars(\E n \in 1 .. InFlight(x) : Arrive(x, n))
                     /\ WF_vars(OnRead(x)) /\ WF_vars(OnWrite(x)) /\ WF_vars(Eof(x))

Spec == Init /\ [][Next]_vars /\ Fairness
-----------------------------------------------------------------------------
(* Properties *)

Bytes == {"v", "1", "2", "m", "bad", "stray"}

(* The states of the client and of the server are apart; buffers hold      *)
(* bytes; no more bytes arrive than were written.                          *)
TypeOK ==
  /\ end["client"].hs \in {"Init", "PostC0C1", "WaitS0S1", "WaitS2", "PostC2", "Doning", "Done"}
  /\ end["server"].hs \in {"WaitC0C1", "PostS0S1", "PostS2", "WaitC2", "Done"}
  /\ \A x \in Ends :
       /\ end[x].client = (x = "client") /\ end[x].code \in BOOLEAN
       /\ end[x].ctx \in {"handshake", "message"}
       /\ end[x].edge \in BOOLEAN /\ end[x].open \in BOOLEAN
       /\ \A f \in {"in", "out", "wrote", "sock", "got"} : end[x][f] \in Seq(Bytes)
       /\ arrived[x] \in 0 .. Len(end[Peer(x)].wrote)

(* However write() splits what it is given and whenever it completes, the  *)
(* bytes of an end go out in the order C0C1 (S0S1), C2 (S2), messages,     *)
(* none missing and none added (sendInLoop, writeComplete, sendConnect).   *)
StreamIntact ==
  \A x \in Ends : end[x].wrote # <<>> /\ Head(end[x].wrote) # "bad" =>
    IsPrefix(end[x].wrote, Hello \o Echo \o Message)

(* However TCP splits the stream, the message parser is given exactly the  *)
(* bytes that follow the handshake: none of C2 or S2, and none is lost     *)
(* between the reads (handShake, retrieve, the recursion in parse).        *)
FramingExact ==
  \A x \in Ends :
    end[x].ctx = "message" =>
      end[x].got \o end[x].in \o end[x].sock
        = From(SubSeq(end[Peer(x)].wrote, 1, arrived[x]), 2 * PacketSize + 1)

(* A client that follows the protocol gets through: the server parses its  *)
(* first message, also when C2 came while S2 was being written and was     *)
(* left in the buffer (handShake has no case for kHandShakePostS2).  The   *)
(* one thing that may stop it is a write event that was swallowed: loop()  *)
(* ran onRead only, and no event is left for what is queued.               *)
Swallowed == end["server"].out # <<>> /\ ~end["server"].edge

ServerFinishes ==
  ~end["client"].code /\ end["client"].wrote = Hello
    ~> end["server"].got = Message \/ Swallowed

(* "S2 packet has come, no need to wait for it" (rtmp_handshake.cpp:120):  *)
(* when it has not, the client waits for it, and gets through as well.     *)
ClientFinishes == <>(end["client"].ctx = "message")
=============================================================================
