------------------------------- MODULE TcpLink -------------------------------
(***************************************************************************)
(* The sockets of one event loop: LSSAcceptor and TcpServer, the           *)
(* LSSTcpConnections they make, a TcpClient, and the registration and      *)
(* dispatch of events in LSSEventLoop (addEvent, delEvent, enableWriting,  *)
(* loop).  The kernel gives out the lowest free descriptor, drops a        *)
(* closed one from epoll, and reports an edge once.                        *)
(***************************************************************************)
EXTENDS Integers, FiniteSets

CONSTANTS
  Conns,        (* connections that may be accepted                        *)
  MaxFd,        (* bound: descriptors, besides those of the process        *)
  Nothing       (* no object, no event                                     *)

Server  == "acceptor"
Client  == "client"
Objects == Conns \cup {Server, Client}
Fds     == 1 .. MaxFd
NoFd    == -1

ASSUME LinkAssumption ==
  /\ MaxFd \in Nat \ {0}
  /\ {Server, Client} \cap Conns = {} /\ Nothing \notin Objects

VARIABLES
  socket,       (* the kernel's descriptors: descriptor -> object          *)
  edges,        (* events of a registered descriptor not yet reported      *)
  writing,      (* descriptors registered with EPOLLOUT                    *)
  input,        (* what an object has not read: "no", "data" or "eof"      *)
  link,         (* the client's connection: "none", "syn", "up", "failed"  *)
  fd,           (* fd_ of the objects                                      *)
  events,       (* LSSEventLoop::events_                                   *)
  connections,  (* TcpServer::connections_                                 *)
  shut,         (* closed_ of connections and client                       *)
  status,       (* TcpClient::status_                                      *)
  made,         (* connections accepted so far                             *)
  fresh,        (* history: connections and client opened in this round    *)
  batch,        (* epoll_events_: what is left of the round's reports      *)
  phase         (* of loop(): "poll", "batch", "accept", "callback" (of    *)
                (* the object whose handler runs) or "tasks"               *)

kernel   == <<socket, edges, writing, input, link>>
objects  == <<fd, events, connections, shut, status>>
linkVars == <<kernel, objects, made, fresh, batch, phase>>
-----------------------------------------------------------------------------
(* Descriptors and their registration *)

FreeFds   == {f \in Fds : socket[f] = Nothing}
Lowest(S) == CHOOSE f \in S : \A g \in S : f <= g

(* addEvent: nothing when events_ already has the descriptor *)
AddEvent(evs, o, f) == IF evs[f] = Nothing THEN [evs EXCEPT ![f] = o] ELSE evs

DelNothing(o) == events            (* mutant: the entry stays *)

(* delEvent *)
DelEvent(o) == IF fd[o] = NoFd THEN events ELSE [events EXCEPT ![fd[o]] = Nothing]

(* LSSTcpConnection::onClose, with TcpServer::onConnectionClose as its     *)
(* close_cb_, and TcpClient::onClose; the kernel forgets the descriptor.   *)
OnClose(o) ==
  /\ events' = DelEvent(o)
  /\ connections' = connections \ {o}
  /\ shut' = [shut EXCEPT ![o] = TRUE]
  /\ status' = IF o = Client THEN "disconnected" ELSE status
  /\ fd' = [fd EXCEPT ![o] = NoFd]
  /\ socket' = [f \in Fds |-> IF f = fd[o] THEN Nothing ELSE socket[f]]
  /\ edges' = [f \in Fds |-> IF f = fd[o] THEN {} ELSE edges[f]]
  /\ writing' = writing \ {fd[o]}
  /\ input' = [x \in Objects |-> IF x = o THEN "no" ELSE input[x]]
  /\ link' = IF o = Client THEN "none" ELSE link

(* LSSAcceptor::onClose: stop, then open, which closes the old descriptor  *)
(* before it asks for a new one.                                           *)
Reopen ==
  LET f == Lowest(FreeFds \cup {fd[Server]}) IN
    /\ socket' = [[socket EXCEPT ![fd[Server]] = Nothing] EXCEPT ![f] = Server]
    /\ events' = AddEvent(DelEvent(Server), Server, f)
    /\ fd' = [fd EXCEPT ![Server] = f]
    /\ edges' = [g \in Fds |-> IF g \in {f, fd[Server]} THEN {} ELSE edges[g]]
    /\ UNCHANGED <<writing, input, link, connections, shut, status>>

(* epoll_ctl(MOD), which reports again what is ready *)
Ready(o, out) ==
  (IF input[o] = "no" THEN {} ELSE {"in"}) \cup (IF out THEN {"out"} ELSE {})

EnableWriting(o, on) ==
  /\ writing' = IF on THEN writing \cup {fd[o]} ELSE writing \ {fd[o]}
  /\ edges' = [edges EXCEPT ![fd[o]] = (IF on THEN @ ELSE @ \ {"out"}) \cup Ready(o, on)]
-----------------------------------------------------------------------------
(* The network.  Only what loop() can tell apart: input, the end of it, an *)
(* error, and the outcome of the client's connect.                         *)

Up(o) == o \in Conns \/ (o = Client /\ link = "up")

Arrive(o, what) ==
  /\ Up(o) /\ fd[o] # NoFd /\ input[o] = "no"
  /\ input' = [input EXCEPT ![o] = what]
  /\ edges' = [edges EXCEPT ![fd[o]] = @ \cup {"in"}]
  /\ UNCHANGED <<socket, writing, link, objects, made, fresh, batch, phase>>

Break(o) ==
  /\ Up(o) /\ fd[o] # NoFd /\ "err" \notin edges[fd[o]]
  /\ edges' = [edges EXCEPT ![fd[o]] = @ \cup {"err", "hup"}]
  /\ UNCHANGED <<socket, writing, input, link, objects, made, fresh, batch, phase>>

Answer(up) ==
  /\ link = "syn"
  /\ link' = IF up THEN "up" ELSE "failed"
  /\ edges' = [edges EXCEPT ![fd[Client]] = @ \cup IF up THEN {"out"} ELSE {"err", "hup"}]
  /\ UNCHANGED <<socket, writing, input, objects, made, fresh, batch, phase>>

(* The peer reads, and there is room for what is to be written *)
Drain(o) ==
  /\ Up(o) /\ fd[o] \in writing /\ "out" \notin edges[fd[o]]
  /\ edges' = [edges EXCEPT ![fd[o]] = @ \cup {"out"}]
  /\ UNCHANGED <<socket, writing, input, link, objects, made, fresh, batch, phase>>

Knock ==
  /\ "in" \notin edges[fd[Server]] /\ Conns # made
  /\ edges' = [edges EXCEPT ![fd[Server]] = @ \cup {"in"}]
  /\ UNCHANGED <<socket, writing, input, link, objects, made, fresh, batch, phase>>
-----------------------------------------------------------------------------
(* LSSEventLoop::loop *)

Poll ==
  /\ phase = "poll"
  /\ batch' = {[fd |-> f, of |-> socket[f], kinds |-> edges[f]] : f \in {g \in Fds : edges[g] # {}}}
  /\ edges' = [f \in Fds |-> {}]
  /\ phase' = "batch"
  /\ UNCHANGED <<socket, writing, input, link, objects, made, fresh>>

Handler(kinds) ==
  IF "err" \in kinds THEN "close"
  ELSE IF "hup" \in kinds /\ "in" \notin kinds THEN "close"
  ELSE IF "in" \in kinds THEN "read" ELSE "write"

(* A report of the round that is handled next: its handler is that of the  *)
(* object that events_ has under the descriptor now.                       *)
Dispatch(r, o, handler) ==
  /\ phase = "batch" /\ r \in batch
  /\ events[r.fd] = o /\ handler = Handler(r.kinds)
  /\ batch' = batch \ {r}
  /\ UNCHANGED made

SkipAny(r) ==                      (* mutant: a report is lost *)
  /\ phase = "batch" /\ r \in batch
  /\ batch' = batch \ {r}
  /\ UNCHANGED <<kernel, objects, made, fresh, phase>>

Skip(r) ==
  /\ phase = "batch" /\ r \in batch /\ events[r.fd] = Nothing
  /\ batch' = batch \ {r}
  /\ UNCHANGED <<kernel, objects, made, fresh, phase>>

(* onError and onClose *)
Closes(r, o) ==
  /\ Dispatch(r, o, "close")
  /\ IF o = Server THEN Reopen ELSE OnClose(o)
  /\ UNCHANGED <<fresh, phase>>

(* LSSTcpConnection::onRead, also that of a client that is connected, up   *)
(* to message_cb_                                                          *)
Connected(o) == o \in Conns \/ (o = Client /\ status = "connected")

Reads(r, o) ==
  /\ Dispatch(r, o, "read") /\ Connected(o)
  /\ IF input[o] = "eof" THEN OnClose(o) ELSE
       /\ input' = [input EXCEPT ![o] = "no"]
       /\ UNCHANGED <<socket, edges, writing, link, objects>>
  /\ phase' = IF input[o] = "data" THEN "callback" ELSE phase
  /\ UNCHANGED fresh

(* onWrite: everything is written, up to write_complete_cb_; some of it,   *)
(* until there is no more room; or writev fails.  That of the acceptor     *)
(* does nothing.                                                           *)
WritesAll(r, o) ==
  /\ Dispatch(r, o, "write") /\ Connected(o)
  /\ EnableWriting(o, FALSE)
  /\ phase' = "callback"
  /\ UNCHANGED <<socket, input, link, objects, fresh>>

WritesSome(r, o) ==
  /\ Dispatch(r, o, "write") /\ (Connected(o) \/ o = Server)
  /\ UNCHANGED <<kernel, objects, fresh, phase>>

WriteFails(r, o) ==
  /\ Dispatch(r, o, "write") /\ Connected(o)
  /\ OnClose(o)
  /\ UNCHANGED <<fresh, phase>>

(* TcpClient::onRead and onWrite while connecting: the status changes, and *)
(* nothing is read or written, up to connected_cb_                         *)
Connects(r) ==
  /\ \E handler \in {"read", "write"} : Dispatch(r, Client, handler)
  /\ status = "connecting"
  /\ IF link = "failed" THEN OnClose(Client) ELSE
       /\ status' = "connected"
       /\ UNCHANGED <<kernel, fd, events, connections, shut>>
  /\ phase' = IF link = "failed" THEN phase ELSE "callback"
  /\ UNCHANGED fresh

CallbackReturns ==
  /\ phase = "callback"
  /\ phase' = "batch"
  /\ UNCHANGED <<kernel, objects, made, fresh, batch>>

(* LSSAcceptor::onRead, TcpServer::onAccept: until there is nobody left *)
AcceptBegins(r) ==
  /\ Dispatch(r, Server, "read")
  /\ phase' = "accept"
  /\ UNCHANGED <<kernel, objects, fresh>>

Accept(o) ==
  /\ phase = "accept" /\ o \in Conns \ made /\ FreeFds # {}
  /\ LET f == Lowest(FreeFds) IN
       /\ socket' = [socket EXCEPT ![f] = o]
       /\ fd' = [fd EXCEPT ![o] = f]
       /\ events' = AddEvent(events, o, f)
  /\ connections' = connections \cup {o}
  /\ made' = made \cup {o} /\ fresh' = fresh \cup {o}
  /\ UNCHANGED <<edges, writing, input, link, shut, status, batch, phase>>

AcceptEnds ==
  /\ phase = "accept"
  /\ phase' = "batch"
  /\ UNCHANGED <<kernel, objects, made, fresh, batch>>

(* no descriptor is left, or another error *)
AcceptFails ==
  /\ phase = "accept"
  /\ Reopen
  /\ phase' = "batch"
  /\ UNCHANGED <<made, fresh, batch>>

BatchCut ==                        (* mutant: tasks run between events *)
  /\ phase = "batch"
  /\ phase' = "tasks"
  /\ UNCHANGED <<kernel, objects, made, fresh, batch>>

BatchDone ==
  /\ phase = "batch" /\ batch = {}
  /\ phase' = "tasks"
  /\ UNCHANGED <<kernel, objects, made, fresh, batch>>
-----------------------------------------------------------------------------
(* forceClose, send and connect, which enqueueTask runs at once when a     *)
(* callback calls them, and else leaves to runTask; and the idle timeouts  *)
(* of the wheel.                                                           *)

InLoop == phase \in {"callback", "tasks"}

TaskClose(o) ==
  /\ InLoop /\ o # Server /\ fd[o] # NoFd
  /\ OnClose(o)
  /\ UNCHANGED <<made, fresh, batch, phase>>

TaskSend(o) ==
  /\ InLoop /\ Connected(o) /\ fd[o] # NoFd
  /\ EnableWriting(o, TRUE)
  /\ UNCHANGED <<socket, input, link, objects, made, fresh, batch, phase>>

(* connectInLoop: connect succeeds at once, or the answer is not there yet *)
Connect(atOnce) ==
  /\ InLoop /\ status = "init" /\ FreeFds # {}
  /\ LET f == Lowest(FreeFds) IN
       /\ socket' = [socket EXCEPT ![f] = Client]
       /\ fd' = [fd EXCEPT ![Client] = f]
       /\ events' = AddEvent(events, Client, f)
       /\ writing' = writing \cup {f}
       /\ edges' = [edges EXCEPT ![f] = IF atOnce THEN {"out"} ELSE {}]
  /\ link' = IF atOnce THEN "up" ELSE "syn"
  /\ status' = IF atOnce THEN "connected" ELSE "connecting"
  /\ fresh' = fresh \cup {Client}
  /\ UNCHANGED <<input, connections, shut, made, batch, phase>>

(* no socket, or connect fails at once *)
ConnectFails ==
  /\ InLoop /\ status = "init"
  /\ OnClose(Client)
  /\ UNCHANGED <<made, fresh, batch, phase>>

RoundDone ==
  /\ phase = "tasks"
  /\ phase' = "poll"
  /\ fresh' = {}
  /\ UNCHANGED <<kernel, objects, made, batch>>

(* The server has been started: open() has been run *)
LinkInit ==
  /\ socket = [f \in Fds |-> IF f = 1 THEN Server ELSE Nothing]
  /\ edges = [f \in Fds |-> {}] /\ writing = {}
  /\ input = [o \in Objects |-> "no"] /\ link = "none"
  /\ fd = [o \in Objects |-> IF o = Server THEN 1 ELSE NoFd]
  /\ events = [f \in Fds |-> IF f = 1 THEN Server ELSE Nothing]
  /\ connections = {} /\ made = {} /\ fresh = {} /\ batch = {}
  /\ shut = [o \in Objects |-> FALSE]
  /\ status = "init" /\ phase = "poll"

Network ==
  \/ \E o \in Conns \cup {Client} : Arrive(o, "data") \/ Arrive(o, "eof") \/ Break(o) \/ Drain(o)
  \/ Answer(TRUE) \/ Answer(FALSE) \/ Knock

Reports ==
  \E r \in batch :
    \/ Skip(r) \/ AcceptBegins(r) \/ Connects(r)
    \/ \E o \in Objects :
         Closes(r, o) \/ Reads(r, o) \/ WritesAll(r, o) \/ WritesSome(r, o) \/ WriteFails(r, o)

LinkNext ==
  \/ Network \/ Poll \/ Reports \/ CallbackReturns \/ BatchDone \/ RoundDone
  \/ AcceptEnds \/ AcceptFails \/ Connect(TRUE) \/ Connect(FALSE) \/ ConnectFails
  \/ \E o \in Conns : Accept(o)
  \/ \E o \in Conns \cup {Client} : TaskClose(o) \/ TaskSend(o)

LinkSpec == LinkInit /\ [][LinkNext]_linkVars
-----------------------------------------------------------------------------
(* Properties *)

LinkTypeOK ==
  /\ socket \in [Fds -> Objects \cup {Nothing}] /\ events \in [Fds -> Objects \cup {Nothing}]
  /\ edges \in [Fds -> SUBSET {"in", "out", "err", "hup"}] /\ writing \subseteq Fds
  /\ input \in [Objects -> {"no", "data", "eof"}] /\ link \in {"none", "syn", "up", "failed"}
  /\ fd \in [Objects -> Fds \cup {-1}]
  /\ connections \subseteq made /\ fresh \subseteq made \cup {Client} /\ made \subseteq Conns
  /\ shut \in [Objects -> BOOLEAN]
  /\ status \in {"init", "connecting", "connected", "disconnected"}
  /\ batch \subseteq [fd : Fds, of : Objects, kinds : SUBSET {"in", "out", "err", "hup"}]
  /\ phase \in {"poll", "batch", "accept", "callback", "tasks"}

(* Descriptors are used again as soon as they are closed, so the loop, its *)
(* objects and the kernel have to agree about each: events_ has exactly    *)
(* the open descriptors, each under the object that holds it, closed       *)
(* objects hold none, the server knows the connections that are open, and  *)
(* the acceptor listens (addEvent, delEvent, onConnectionClose, open).     *)
DescriptorsAgree ==
  /\ events = socket
  /\ \A o \in Objects : fd[o] # NoFd => socket[fd[o]] = o
  /\ \A f \in Fds : socket[f] # Nothing => fd[socket[f]] = f
  /\ \A o \in Objects : shut[o] => fd[o] = NoFd
  /\ connections = {o \in made : ~shut[o]}
  /\ writing \subseteq {f \in Fds : socket[f] # Nothing}
  /\ fd[Server] # NoFd

(* A report may be older than the object that gets it: one that is closed  *)
(* earlier in the round leaves its descriptor to the next that is opened.  *)
(* Only connections accepted, and a client that a callback connects, in    *)
(* that same round, and the acceptor opened again can get the report of    *)
(* another (loop, delEvent, onAccept, connectInLoop).                      *)
StaleOnlyFresh ==
  \A r \in batch : events[r.fd] \in {Nothing, r.of, Server} \cup fresh

Reported(o) ==
  "in" \in edges[fd[o]] \/ \E r \in batch : r.of = o /\ r.kinds \cap {"in", "err"} # {}

(* An edge is reported once, so what a connection has not read must be     *)
(* still to be reported (loop, LSSTcpConnection::onRead).                  *)
InputIsReported ==
  \A o \in connections : input[o] # "no" => Reported(o)
=============================================================================
