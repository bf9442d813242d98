---------------------------- MODULE NetworkProof ----------------------------
(***************************************************************************)
(* Proofs about TcpLink, EventLoop and TimingWheel, which share no state.  *)
(*                                                                         *)
(* TcpLink, for any number of connections and descriptors: events_, the    *)
(* objects and the kernel agree about every descriptor, reports reach      *)
(* those they are meant for, and input is reported.                        *)
(*                                                                         *)
(* EventLoop, for any number of posters, tasks and words that fit into the *)
(* pipe: the types, and that a loop that waits with a task in its queue is *)
(* woken unless the pipe is full.                                          *)
(*                                                                         *)
(* TimingWheel, for wheels of any size: entries keep to their slots, a     *)
(* connection is closed exactly when it has been idle for IdleTime ticks,  *)
(* a timer of less than an hour fires in the tick the code expects it in,  *)
(* and one of less than a minute at most a second early by the clock.      *)
(***************************************************************************)
EXTENDS TcpLink, EventLoop, TimingWheel, NumberFacts, TLAPS

(***************************************************************************)
(* TcpLink                                                                 *)
(***************************************************************************)

(* What DescriptorsAgree needs to be inductive: an object that has not     *)
(* been opened holds nothing and is not marked as closed, the acceptor is  *)
(* never closed for good, and it never asks for write events, so that it   *)
(* may change its descriptor without a word to epoll.                      *)
Unopened ==
  /\ \A o \in Conns \ made : fd[o] = NoFd /\ ~shut[o]
  /\ status = "init" => fd[Client] = NoFd /\ ~shut[Client]

Listening == ~shut[Server] /\ fd[Server] \notin writing

DescTypes ==
  /\ socket \in [Fds -> Objects \cup {Nothing}]
  /\ fd \in [Objects -> Fds \cup {NoFd}]
  /\ shut \in [Objects -> BOOLEAN]
  /\ made \subseteq Conns

BatchInv == \A r \in batch : r.fd \in Fds

DescInv == DescTypes /\ DescriptorsAgree /\ Unopened /\ Listening

LEMMA ObjectFacts ==
  /\ Server \in Objects /\ Client \in Objects /\ Server # Client
  /\ Conns \subseteq Objects /\ Nothing \notin Objects
  /\ Server \notin Conns /\ Client \notin Conns
  /\ 1 \in Fds /\ NoFd \notin Fds /\ Fds \subseteq Nat
BY LinkAssumption DEF Objects, Server, Client, Fds, NoFd

(* The kernel gives out one of the descriptors that are free *)
LEMMA LowestIn ==
  ASSUME NEW S \in SUBSET Fds, S # {}
  PROVE  Lowest(S) \in S
<1>1. \E f \in S : \A g \in S : f <= g
  BY ObjectFacts, LeastElement
<1>. QED BY <1>1 DEF Lowest

LEMMA DescInit == LinkInit => DescInv /\ BatchInv
BY ObjectFacts DEF LinkInit, DescInv, DescTypes, DescriptorsAgree, Unopened, Listening, BatchInv

(* The object of a report holds the descriptor of the report *)
LEMMA Handled ==
  ASSUME DescInv, BatchInv, NEW r \in batch, NEW o \in Objects, events[r.fd] = o
  PROVE  fd[o] = r.fd /\ fd[o] \in Fds /\ socket[fd[o]] = o
BY ObjectFacts DEF DescInv, DescTypes, DescriptorsAgree, BatchInv

(* Who holds a descriptor has been opened *)
LEMMA Holder ==
  ASSUME DescInv, NEW o \in Objects \ {Server}, fd[o] # NoFd
  PROVE  o \in made \cup {Client}
BY ObjectFacts DEF DescInv, Unopened, Objects

(* onClose of a connection or of the client *)
LEMMA CloseKeeps ==
  ASSUME DescInv, NEW o \in Objects \ {Server}, o \in made \cup {Client},
         OnClose(o), made' = made
  PROVE  DescInv'
<1>. USE ObjectFacts DEF DescInv
<1>1. DescTypes'
  BY DEF DescTypes, OnClose
<1>2. events' = socket'
  <2>1. CASE fd[o] = NoFd
    BY <2>1 DEF DescTypes, DescriptorsAgree, OnClose, DelEvent
  <2>2. CASE fd[o] # NoFd
    BY <2>2 DEF DescTypes, DescriptorsAgree, OnClose, DelEvent
  <2>. QED BY <2>1, <2>2
<1>3. \A x \in Objects : fd'[x] # NoFd => socket'[fd'[x]] = x
  BY DEF DescTypes, DescriptorsAgree, OnClose
<1>4. \A f \in Fds : socket'[f] # Nothing => fd'[socket'[f]] = f
  BY DEF DescTypes, DescriptorsAgree, OnClose
<1>5. /\ \A x \in Objects : shut'[x] => fd'[x] = NoFd
      /\ connections' = {x \in made' : ~shut'[x]}
  BY DEF DescTypes, DescriptorsAgree, OnClose
<1>6. writing' \subseteq {f \in Fds : socket'[f] # Nothing}
  BY DEF DescTypes, DescriptorsAgree, OnClose
<1>7. fd'[Server] # NoFd /\ Listening'
  BY DEF DescTypes, DescriptorsAgree, OnClose, Listening
<1>8. Unopened'
  BY DEF DescTypes, DescriptorsAgree, OnClose, Unopened
<1>. QED BY <1>1, <1>2, <1>3, <1>4, <1>5, <1>6, <1>7, <1>8 DEF DescriptorsAgree

(* An object that holds nothing opens a free descriptor *)
LEMMA OpenKeeps ==
  ASSUME DescInv, NEW o \in Objects, fd[o] = NoFd, ~shut[o], NEW f \in FreeFds,
         socket' = [socket EXCEPT ![f] = o], fd' = [fd EXCEPT ![o] = f],
         events' = AddEvent(events, o, f), shut' = shut
  PROVE  /\ socket' \in [Fds -> Objects \cup {Nothing}] /\ fd' \in [Objects -> Fds \cup {NoFd}]
         /\ events' = socket'
         /\ \A x \in Objects : fd'[x] # NoFd => socket'[fd'[x]] = x
         /\ \A g \in Fds : socket'[g] # Nothing => fd'[socket'[g]] = g
         /\ \A x \in Objects : shut'[x] => fd'[x] = NoFd
         /\ \A g \in writing \cup {f} : g \in Fds /\ socket'[g] # Nothing
         /\ fd'[Server] = fd[Server] /\ fd[Server] # f
<1>. USE ObjectFacts DEF DescInv, DescTypes
<1>1. f \in Fds /\ socket[f] = Nothing
  BY DEF FreeFds
<1>2. events' = socket'
  BY <1>1 DEF DescriptorsAgree, AddEvent
<1>3. \A x \in Objects : fd'[x] # NoFd => socket'[fd'[x]] = x
  BY <1>1 DEF DescriptorsAgree
<1>4. \A g \in Fds : socket'[g] # Nothing => fd'[socket'[g]] = g
  BY <1>1 DEF DescriptorsAgree
<1>5. \A x \in Objects : shut'[x] => fd'[x] = NoFd
  BY DEF DescriptorsAgree
<1>6. \A g \in writing \cup {f} : g \in Fds /\ socket'[g] # Nothing
  BY <1>1 DEF DescriptorsAgree
<1>7. fd'[Server] = fd[Server] /\ fd[Server] # f
  BY <1>1 DEF DescriptorsAgree
<1>. QED BY <1>1, <1>2, <1>3, <1>4, <1>5, <1>6, <1>7

(* onClose of the acceptor *)
LEMMA ReopenKeeps ==
  ASSUME DescInv, Reopen, made' = made
  PROVE  DescInv'
<1>. USE ObjectFacts DEF DescInv, DescTypes
<1>. DEFINE old == fd[Server]
            f   == Lowest(FreeFds \cup {old})
<1>1. old \in Fds /\ socket[old] = Server
  BY DEF DescriptorsAgree
<1>2. f \in Fds /\ (f = old \/ socket[f] = Nothing)
  BY <1>1, LowestIn DEF FreeFds
<1>. HIDE DEF f
<1>3. /\ socket' = [[socket EXCEPT ![old] = Nothing] EXCEPT ![f] = Server]
      /\ events' = AddEvent(DelEvent(Server), Server, f)
      /\ fd' = [fd EXCEPT ![Server] = f]
      /\ UNCHANGED <<writing, connections, shut, status>>
  BY DEF Reopen, f
<1>4. events' = socket'
  <2>1. DelEvent(Server) = [events EXCEPT ![old] = Nothing]
    BY DEF DescriptorsAgree, DelEvent
  <2>2. [events EXCEPT ![old] = Nothing][f] = Nothing
    BY <1>1, <1>2 DEF DescriptorsAgree
  <2>. QED BY <1>3, <2>1, <2>2 DEF DescriptorsAgree, AddEvent
<1>5. \A x \in Objects : fd'[x] # NoFd => socket'[fd'[x]] = x
  BY ZenonT(20), <1>1, <1>2, <1>3 DEF DescriptorsAgree
<1>6. \A g \in Fds : socket'[g] # Nothing => fd'[socket'[g]] = g
  BY <1>1, <1>2, <1>3 DEF DescriptorsAgree
<1>7. writing' \subseteq {g \in Fds : socket'[g] # Nothing} /\ f \notin writing
  BY <1>1, <1>2, <1>3 DEF DescriptorsAgree, Listening
<1>8. DescTypes' /\ Listening' /\ Unopened'
  BY <1>2, <1>3, <1>7 DEF Listening, Unopened
<1>9. \A x \in Objects : shut'[x] => fd'[x] = NoFd
  BY <1>3 DEF DescriptorsAgree, Listening
<1>10. connections' = {x \in made' : ~shut'[x]}
  BY <1>3 DEF DescriptorsAgree
<1>11. fd'[Server] # NoFd
  BY <1>2, <1>3
<1>12. DescriptorsAgree'
  BY <1>4, <1>5, <1>6, <1>7, <1>9, <1>10, <1>11 DEF DescriptorsAgree
<1>. QED BY <1>8, <1>12

(* Nothing but what epoll reports changes *)
LEMMA SameDescriptors ==
  ASSUME DescInv, UNCHANGED <<socket, fd, events, connections, shut, made>>,
         status' = status \/ status' # "init",
         writing' \subseteq writing \cup {f \in Fds : socket[f] # Nothing /\ f # fd[Server]}
  PROVE  DescInv'
BY DEF DescInv, DescTypes, DescriptorsAgree, Unopened, Listening

LEMMA DescNext == DescInv /\ BatchInv /\ [LinkNext]_linkVars => DescInv' /\ BatchInv'
<1>. SUFFICES ASSUME DescInv, BatchInv, [LinkNext]_linkVars
              PROVE  DescInv' /\ BatchInv'
  OBVIOUS
<1>. USE ObjectFacts
<1>1. CASE Network
  BY <1>1, SameDescriptors DEF Network, Arrive, Break, Drain, Answer, Knock, objects, BatchInv
<1>2. CASE Poll
  <2>1. DescInv'
    BY <1>2, SameDescriptors DEF Poll, objects
  <2>2. BatchInv'
    BY <1>2 DEF Poll, BatchInv
  <2>. QED BY <2>1, <2>2
<1>3. ASSUME NEW r \in batch, Skip(r) \/ AcceptBegins(r)
      PROVE  DescInv' /\ BatchInv'
  BY <1>3, SameDescriptors DEF Skip, AcceptBegins, Dispatch, kernel, objects, BatchInv
<1>4. ASSUME NEW r \in batch, Connects(r)
      PROVE  DescInv' /\ BatchInv'
  <2>1. BatchInv' /\ made' = made
    BY <1>4 DEF Connects, Dispatch, BatchInv
  <2>2. CASE link = "failed"
    BY <1>4, <2>1, <2>2, CloseKeeps DEF Connects
  <2>3. CASE link # "failed"
    BY <1>4, <2>1, <2>3, SameDescriptors DEF Connects, kernel
  <2>. QED BY <2>1, <2>2, <2>3
<1>5. ASSUME NEW r \in batch, NEW o \in Objects, Closes(r, o)
      PROVE  DescInv' /\ BatchInv'
  <2>1. BatchInv' /\ made' = made /\ events[r.fd] = o
    BY <1>5 DEF Closes, Dispatch, BatchInv
  <2>2. fd[o] # NoFd
    BY <2>1, Handled
  <2>3. CASE o = Server
    BY <1>5, <2>1, <2>3, ReopenKeeps DEF Closes
  <2>4. CASE o # Server
    BY <1>5, <2>1, <2>2, <2>4, CloseKeeps, Holder DEF Closes
  <2>. QED BY <2>1, <2>3, <2>4
<1>6. ASSUME NEW r \in batch, NEW o \in Objects,
             WritesAll(r, o) \/ WritesSome(r, o) \/ WriteFails(r, o)
      PROVE  DescInv' /\ BatchInv'
  <2>1. BatchInv' /\ made' = made /\ events[r.fd] = o
    BY <1>6 DEF WritesAll, WritesSome, WriteFails, Dispatch, BatchInv
  <2>2. CASE WriteFails(r, o)
    <3>1. fd[o] # NoFd /\ o # Server
      BY <2>1, <2>2, Handled DEF WriteFails, Connected
    <3>. QED BY <2>1, <2>2, <3>1, CloseKeeps, Holder DEF WriteFails
  <2>3. CASE WritesAll(r, o) \/ WritesSome(r, o)
    <3>1. writing' \subseteq writing
      BY <2>3 DEF WritesAll, WritesSome, EnableWriting, kernel
    <3>2. UNCHANGED <<socket, fd, events, connections, shut, status>>
      BY <2>3 DEF WritesAll, WritesSome, kernel, objects
    <3>. QED BY <2>1, <3>1, <3>2, SameDescriptors
  <2>. QED BY <1>6, <2>2, <2>3
<1>7. ASSUME NEW r \in batch, NEW o \in Objects, Reads(r, o)
      PROVE  DescInv' /\ BatchInv'
  <2>1. BatchInv' /\ made' = made /\ events[r.fd] = o /\ o # Server
    BY <1>7 DEF Reads, Dispatch, Connected, BatchInv
  <2>2. fd[o] # NoFd
    BY <2>1, Handled
  <2>3. CASE input[o] = "eof"
    BY <1>7, <2>1, <2>2, <2>3, CloseKeeps, Holder DEF Reads
  <2>4. CASE input[o] # "eof"
    BY <1>7, <2>1, <2>4, SameDescriptors DEF Reads, objects
  <2>. QED BY <2>1, <2>3, <2>4
<1>8. CASE CallbackReturns \/ BatchDone \/ RoundDone \/ AcceptEnds
  BY <1>8, SameDescriptors DEF CallbackReturns, BatchDone, RoundDone, AcceptEnds, kernel, objects, BatchInv
<1>9. CASE AcceptFails
  BY <1>9, ReopenKeeps DEF AcceptFails, BatchInv
<1>10. ASSUME NEW o \in Conns, Accept(o) PROVE DescInv' /\ BatchInv'
  <2>. DEFINE f == Lowest(FreeFds)
  <2>1. f \in FreeFds /\ fd[o] = NoFd /\ ~shut[o]
    BY <1>10, LowestIn DEF Accept, FreeFds, DescInv, Unopened
  <2>. HIDE DEF f
  <2>2. /\ socket' = [socket EXCEPT ![f] = o] /\ fd' = [fd EXCEPT ![o] = f]
        /\ events' = AddEvent(events, o, f)
        /\ connections' = connections \cup {o} /\ made' = made \cup {o}
        /\ UNCHANGED <<writing, shut, status, batch>>
    BY <1>10 DEF Accept, f
  <2>3. /\ socket' \in [Fds -> Objects \cup {Nothing}] /\ fd' \in [Objects -> Fds \cup {NoFd}]
        /\ events' = socket'
        /\ \A x \in Objects : fd'[x] # NoFd => socket'[fd'[x]] = x
        /\ \A g \in Fds : socket'[g] # Nothing => fd'[socket'[g]] = g
        /\ \A x \in Objects : shut'[x] => fd'[x] = NoFd
        /\ \A g \in writing \cup {f} : g \in Fds /\ socket'[g] # Nothing
        /\ fd'[Server] = fd[Server] /\ fd[Server] # f
    BY <2>1, <2>2, OpenKeeps
  <2>4. connections' = {x \in made' : ~shut'[x]}
    BY <2>1, <2>2 DEF DescInv, DescTypes, DescriptorsAgree
  <2>5. DescriptorsAgree'
    BY <2>2, <2>3, <2>4 DEF DescInv, DescriptorsAgree
  <2>6. DescTypes' /\ Listening' /\ Unopened'
    BY <2>2, <2>3 DEF DescInv, DescTypes, Listening, Unopened
  <2>. QED BY <2>2, <2>5, <2>6 DEF DescInv, BatchInv
<1>11. ASSUME NEW atOnce \in BOOLEAN, Connect(atOnce) PROVE DescInv' /\ BatchInv'
  <2>. DEFINE f == Lowest(FreeFds)
  <2>1. f \in FreeFds /\ fd[Client] = NoFd /\ ~shut[Client]
    BY <1>11, LowestIn DEF Connect, FreeFds, DescInv, Unopened
  <2>. HIDE DEF f
  <2>2. /\ socket' = [socket EXCEPT ![f] = Client] /\ fd' = [fd EXCEPT ![Client] = f]
        /\ events' = AddEvent(events, Client, f) /\ writing' = writing \cup {f}
        /\ status' # "init"
        /\ UNCHANGED <<connections, shut, made, batch>>
    BY <1>11 DEF Connect, f
  <2>3. /\ socket' \in [Fds -> Objects \cup {Nothing}] /\ fd' \in [Objects -> Fds \cup {NoFd}]
        /\ events' = socket'
        /\ \A x \in Objects : fd'[x] # NoFd => socket'[fd'[x]] = x
        /\ \A g \in Fds : socket'[g] # Nothing => fd'[socket'[g]] = g
        /\ \A x \in Objects : shut'[x] => fd'[x] = NoFd
        /\ \A g \in writing \cup {f} : g \in Fds /\ socket'[g] # Nothing
        /\ fd'[Server] = fd[Server] /\ fd[Server] # f
    BY <2>1, <2>2, OpenKeeps
  <2>4. writing' \subseteq {g \in Fds : socket'[g] # Nothing}
    BY <2>2, <2>3
  <2>5. connections' = {x \in made' : ~shut'[x]} /\ fd'[Server] # NoFd
    BY <2>2, <2>3 DEF DescInv, DescriptorsAgree
  <2>6. DescriptorsAgree'
    BY <2>3, <2>4, <2>5 DEF DescriptorsAgree
  <2>7. DescTypes' /\ Listening' /\ Unopened'
    BY <2>2, <2>3 DEF DescInv, DescTypes, Listening, Unopened
  <2>. QED BY <2>2, <2>6, <2>7 DEF DescInv, BatchInv
<1>12. CASE ConnectFails
  BY <1>12, CloseKeeps DEF ConnectFails, BatchInv
<1>13. ASSUME NEW o \in Conns \cup {Client}, TaskClose(o) PROVE DescInv' /\ BatchInv'
  BY <1>13, CloseKeeps, Holder DEF TaskClose, BatchInv
<1>14. ASSUME NEW o \in Conns \cup {Client}, TaskSend(o) PROVE DescInv' /\ BatchInv'
  <2>1. fd[o] \in Fds /\ socket[fd[o]] = o /\ fd[o] # fd[Server]
    BY <1>14 DEF TaskSend, DescInv, DescTypes, DescriptorsAgree
  <2>2. writing' \subseteq writing \cup {fd[o]}
    BY <1>14 DEF TaskSend, EnableWriting
  <2>3. UNCHANGED <<socket, fd, events, connections, shut, made, status, batch>>
    BY <1>14 DEF TaskSend, objects
  <2>. QED BY <2>1, <2>2, <2>3, SameDescriptors DEF BatchInv
<1>15. CASE UNCHANGED linkVars
  BY <1>15, SameDescriptors DEF linkVars, kernel, objects, BatchInv
<1>. QED
  BY <1>1, <1>2, <1>3, <1>4, <1>5, <1>6, <1>7, <1>8, <1>9, <1>10, <1>11, <1>12, <1>13, <1>14, <1>15
     DEF LinkNext, Reports

(* addEvent, delEvent, onClose, accept and open: whatever order of errors, *)
(* closes and accepts, the loop, its objects and the kernel agree about    *)
(* every descriptor.                                                       *)
THEOREM DescriptorsTheorem == LinkSpec => []DescriptorsAgree
<1>1. DescInv => DescriptorsAgree
  BY DEF DescInv
<1>. QED BY <1>1, DescInit, DescNext, PTL DEF LinkSpec

(***************************************************************************)
(* The reports of a round.                                                 *)
(***************************************************************************)

ReportTypes ==
  /\ edges \in [Fds -> SUBSET {"in", "out", "err", "hup"}]
  /\ input \in [Objects -> {"no", "data", "eof"}]

(* What StaleOnlyFresh and InputIsReported need to be inductive: outside   *)
(* of a round nothing is left of it; a report is about an object that was  *)
(* there, and while that is open it has the descriptor of the report; who  *)
(* holds no descriptor has nothing to read.                                *)
RoundInv ==
  /\ phase \in {"poll", "tasks"} => batch = {}
  /\ \A r \in batch : r.of \notin Conns \ made /\ (r.of \in connections => fd[r.of] = r.fd)
  /\ \A o \in connections : fd[o] \in Fds
  /\ \A o \in Objects : fd[o] = NoFd => input[o] = "no"

ReportInv == ReportTypes /\ RoundInv /\ StaleOnlyFresh /\ InputIsReported

Tells(r) == r.kinds \cap {"in", "err"} # {}

LEMMA ReportInit == LinkInit => ReportInv
BY ObjectFacts
   DEF LinkInit, ReportInv, ReportTypes, RoundInv, StaleOnlyFresh, InputIsReported

(* A step of a round in which the reports of lost are handled *)
LEMMA RoundKeeps ==
  ASSUME DescInv, BatchInv, ReportInv, NEW lost, batch' = batch \ lost, made' = made,
         phase' \in {"poll", "tasks"} => phase \in {"poll", "tasks"} \/ batch' = {},
         connections' \subseteq connections, ReportTypes',
         \A o \in connections' : fd'[o] = fd[o],
         \A o \in connections' : input'[o] # "no" =>
             \/ "in" \in edges'[fd[o]]
             \/ input[o] # "no" /\ ("in" \in edges[fd[o]] => "in" \in edges'[fd[o]]),
         \A r \in lost \cap batch : Tells(r) /\ r.of \in connections' => input'[r.of] = "no",
         \A o \in Objects : fd'[o] = NoFd => input'[o] = "no",
         \/ batch' = {}
         \/ fresh \subseteq fresh' /\ \A f \in Fds : events'[f] \in {Nothing, events[f], Server} \cup fresh'
  PROVE  ReportInv'
<1>1. RoundInv'
  <2>1. phase' \in {"poll", "tasks"} => batch' = {}
    BY DEF ReportInv, RoundInv
  <2>2. \A r \in batch' : r.of \notin Conns \ made' /\ (r.of \in connections' => fd'[r.of] = r.fd)
    BY DEF ReportInv, RoundInv
  <2>3. \A o \in connections' : fd'[o] \in Fds
    BY DEF ReportInv, RoundInv
  <2>. QED BY <2>1, <2>2, <2>3 DEF RoundInv
<1>2. StaleOnlyFresh'
  <2>. SUFFICES ASSUME NEW r \in batch'
                PROVE  events'[r.fd] \in {Nothing, r.of, Server} \cup fresh'
    BY DEF StaleOnlyFresh
  <2>1. r \in batch /\ r.fd \in Fds /\ events[r.fd] \in {Nothing, r.of, Server} \cup fresh
    BY DEF ReportInv, StaleOnlyFresh, BatchInv
  <2>2. fresh \subseteq fresh' /\ events'[r.fd] \in {Nothing, events[r.fd], Server} \cup fresh'
    BY <2>1
  <2>. QED BY <2>1, <2>2
<1>3. InputIsReported'
  <2>. SUFFICES ASSUME NEW o \in connections', input'[o] # "no", "in" \notin edges'[fd[o]]
                PROVE  \E r \in batch' : r.of = o /\ Tells(r)
    BY DEF InputIsReported, Reported, Tells
  <2>1. o \in connections /\ input[o] # "no" /\ "in" \notin edges[fd[o]]
    OBVIOUS
  <2>2. PICK r \in batch : r.of = o /\ Tells(r)
    BY <2>1 DEF ReportInv, InputIsReported, Reported, Tells
  <2>3. r \notin lost
    BY <2>2
  <2>. QED BY <2>2, <2>3
<1>. QED BY <1>1, <1>2, <1>3 DEF ReportInv

(* Connections that are open hold different descriptors *)
LEMMA HoldersDiffer ==
  ASSUME DescInv, ReportInv, NEW o \in connections
  PROVE  /\ o \in Objects \ {Server, Client} /\ fd[o] \in Fds /\ socket[fd[o]] = o
         /\ \A x \in Objects : fd[x] = fd[o] => x = o
<1>. USE ObjectFacts
<1>1. fd[o] \in Fds /\ o \in made
  BY DEF DescInv, DescriptorsAgree, ReportInv, RoundInv
<1>2. o \in Conns /\ o \in Objects
  BY <1>1 DEF DescInv, DescTypes
<1>3. socket[fd[o]] = o
  BY <1>1, <1>2 DEF DescInv, DescriptorsAgree
<1>4. \A x \in Objects : fd[x] = fd[o] => x = o
  BY <1>1, <1>3 DEF DescInv, DescriptorsAgree
<1>. QED BY <1>1, <1>2, <1>3, <1>4

(* onClose of o *)
LEMMA CloseReports ==
  ASSUME DescInv, BatchInv, ReportInv, NEW o \in Objects, OnClose(o),
         NEW lost, batch' = batch \ lost, \A r \in lost \cap batch : Tells(r) => r.of = o \/ r.of \notin connections,
         UNCHANGED <<made, fresh, phase>>
  PROVE  ReportInv'
<1>. USE ObjectFacts
<1>1. /\ connections' = connections \ {o} /\ fd' = [fd EXCEPT ![o] = NoFd]
      /\ edges' = [f \in Fds |-> IF f = fd[o] THEN {} ELSE edges[f]]
      /\ input' = [y \in Objects |-> IF y = o THEN "no" ELSE input[y]]
      /\ events' = DelEvent(o)
  BY DEF OnClose
<1>2. ReportTypes'
  BY <1>1 DEF ReportInv, ReportTypes
<1>3. \A y \in connections' : /\ y \in connections /\ y # o /\ fd'[y] = fd[y]
                              /\ edges'[fd[y]] = edges[fd[y]]
                              /\ input'[y] \in {"no", input[y]}
  <2>. SUFFICES ASSUME NEW y \in connections'
                PROVE  /\ y \in connections /\ y # o /\ fd'[y] = fd[y]
                       /\ edges'[fd[y]] = edges[fd[y]]
                       /\ input'[y] \in {"no", input[y]}
    OBVIOUS
  <2>1. y \in connections /\ y # o
    BY <1>1
  <2>2. y \in Objects /\ fd[y] \in Fds /\ fd[y] # fd[o]
    BY <2>1, HoldersDiffer
  <2>. QED BY <1>1, <2>1, <2>2 DEF DescInv, DescTypes
<1>4. \A y \in Objects : fd'[y] = NoFd => input'[y] = "no"
  BY <1>1 DEF DescInv, DescTypes, ReportInv, RoundInv
<1>5. \A f \in Fds : events'[f] \in {Nothing, events[f], Server}
  <2>1. events' = events \/ events' = [events EXCEPT ![fd[o]] = Nothing]
    BY <1>1 DEF DelEvent
  <2>2. events \in [Fds -> Objects \cup {Nothing}]
    BY DEF DescInv, DescTypes, DescriptorsAgree
  <2>. QED BY <2>1, <2>2
<1>6. \A r \in lost \cap batch : Tells(r) /\ r.of \in connections' => input'[r.of] = "no"
  <2>. SUFFICES ASSUME NEW r \in lost \cap batch, Tells(r), r.of \in connections'
                PROVE  input'[r.of] = "no"
    OBVIOUS
  <2>1. r.of = o
    BY <1>1
  <2>. QED BY <1>1, <2>1
<1>7. /\ connections' \subseteq connections /\ made' = made /\ fresh' = fresh /\ phase' = phase
      /\ \A y \in connections' : fd'[y] = fd[y]
  BY <1>1, <1>3
<1>8. \A y \in connections' : input'[y] # "no" =>
        \/ "in" \in edges'[fd[y]]
        \/ input[y] # "no" /\ ("in" \in edges[fd[y]] => "in" \in edges'[fd[y]])
  BY <1>3
<1>. QED BY <1>2, <1>4, <1>5, <1>6, <1>7, <1>8, RoundKeeps

(* onClose of the acceptor *)
LEMMA ReopenReports ==
  ASSUME DescInv, BatchInv, ReportInv, Reopen,
         NEW lost, batch' = batch \ lost, \A r \in lost \cap batch : Tells(r) => r.of \notin connections,
         UNCHANGED <<made, fresh>>, phase' \notin {"poll", "tasks"}
  PROVE  ReportInv'
<1>. USE ObjectFacts
<1>. DEFINE old == fd[Server]
            f   == Lowest(FreeFds \cup {old})
<1>1. old \in Fds /\ socket[old] = Server
  BY DEF DescInv, DescTypes, DescriptorsAgree
<1>2. f \in Fds /\ (f = old \/ socket[f] = Nothing)
  BY <1>1, LowestIn DEF FreeFds
<1>. HIDE DEF f
<1>3. /\ events' = AddEvent(DelEvent(Server), Server, f)
      /\ fd' = [fd EXCEPT ![Server] = f]
      /\ edges' = [g \in Fds |-> IF g \in {f, old} THEN {} ELSE edges[g]]
      /\ UNCHANGED <<input, connections>>
  BY DEF Reopen, f
<1>4. ReportTypes'
  BY <1>3 DEF ReportInv, ReportTypes
<1>5. \A y \in connections' : /\ y \in connections /\ fd'[y] = fd[y]
                              /\ edges'[fd[y]] = edges[fd[y]] /\ input'[y] = input[y]
  <2>. SUFFICES ASSUME NEW y \in connections'
                PROVE  /\ y \in connections /\ fd'[y] = fd[y]
                       /\ edges'[fd[y]] = edges[fd[y]] /\ input'[y] = input[y]
    OBVIOUS
  <2>1. y \in connections
    BY <1>3
  <2>2. y \in Objects \ {Server} /\ fd[y] \in Fds /\ socket[fd[y]] = y
    BY <2>1, HoldersDiffer
  <2>3. fd[y] # old /\ fd[y] # f
    BY <1>1, <1>2, <2>2
  <2>. QED BY <1>3, <2>1, <2>2, <2>3 DEF DescInv, DescTypes
<1>6. \A y \in Objects : fd'[y] = NoFd => input'[y] = "no"
  BY <1>2, <1>3 DEF DescInv, DescTypes, ReportInv, RoundInv
<1>7. \A g \in Fds : events'[g] \in {Nothing, events[g], Server}
  <2>1. events \in [Fds -> Objects \cup {Nothing}]
    BY DEF DescInv, DescTypes, DescriptorsAgree
  <2>. QED BY <1>3, <2>1 DEF DelEvent, AddEvent
<1>8. connections' = connections
  BY <1>3
<1>. QED BY <1>4, <1>5, <1>6, <1>7, <1>8, RoundKeeps

(* What is not read stays so, and no object changes its descriptor *)
LEMMA QuietReports ==
  ASSUME DescInv, BatchInv, ReportInv, NEW lost, batch' = batch \ lost,
         \A r \in lost \cap batch : Tells(r) => r.of \notin connections,
         UNCHANGED <<made, input, connections, fd, events>>, fresh' = fresh \/ batch' = {},
         phase' \in {"poll", "tasks"} => phase \in {"poll", "tasks"} \/ batch' = {},
         edges' \in [Fds -> SUBSET {"in", "out", "err", "hup"}],
         \A f \in Fds : "in" \in edges[f] => "in" \in edges'[f]
  PROVE  ReportInv'
<1>1. ReportTypes'
  BY DEF ReportInv, ReportTypes
<1>2. \A o \in connections' : input'[o] # "no" =>
             \/ "in" \in edges'[fd[o]]
             \/ input[o] # "no" /\ ("in" \in edges[fd[o]] => "in" \in edges'[fd[o]])
  <2>1. \A o \in connections : fd[o] \in Fds
    BY DEF ReportInv, RoundInv
  <2>. QED BY <2>1
<1>3. \A o \in Objects : fd'[o] = NoFd => input'[o] = "no"
  BY DEF ReportInv, RoundInv
<1>4. \/ batch' = {}
      \/ fresh' = fresh /\ \A f \in Fds : events'[f] \in {Nothing, events[f], Server}
  OBVIOUS
<1>5. connections' \subseteq connections /\ \A o \in connections' : fd'[o] = fd[o]
  OBVIOUS
<1>6. \A r \in lost \cap batch : Tells(r) /\ r.of \in connections' => input'[r.of] = "no"
  OBVIOUS
<1>. QED BY <1>1, <1>2, <1>3, <1>4, <1>5, <1>6, RoundKeeps

(* A report is about the object that gets it, or about one that is gone *)
LEMMA GetsItsOwn ==
  ASSUME DescInv, BatchInv, ReportInv, NEW r \in batch, r.of \in connections
  PROVE  events[r.fd] = r.of /\ r.of \notin {Server, Client, Nothing}
<1>1. fd[r.of] = r.fd
  BY DEF ReportInv, RoundInv
<1>2. r.of \in Objects \ {Server, Client} /\ socket[fd[r.of]] = r.of
  BY HoldersDiffer
<1>. QED BY <1>1, <1>2, ObjectFacts DEF DescInv, DescriptorsAgree

(* What epoll_ctl does to the edges *)
LEMMA EnableEdges ==
  ASSUME ReportTypes, NEW o \in Objects, NEW on \in BOOLEAN, EnableWriting(o, on)
  PROVE  /\ edges' \in [Fds -> SUBSET {"in", "out", "err", "hup"}]
         /\ \A f \in Fds : "in" \in edges[f] => "in" \in edges'[f]
<1>1. Ready(o, on) \subseteq {"in", "out"}
  BY DEF Ready
<1>2. edges' = [edges EXCEPT ![fd[o]] = (IF on THEN @ ELSE @ \ {"out"}) \cup Ready(o, on)]
  BY DEF EnableWriting
<1>. QED BY <1>1, <1>2 DEF ReportTypes

(* The network: an edge is added, or input comes with its edge *)
LEMMA NetworkReports ==
  ASSUME DescInv, BatchInv, ReportInv, Network
  PROVE  ReportInv'
<1>. USE ObjectFacts
<1>1. ASSUME NEW o \in Conns \cup {Client}, NEW what \in {"data", "eof"}, Arrive(o, what)
      PROVE  ReportInv'
  <2>1. /\ input' = [input EXCEPT ![o] = what] /\ fd[o] # NoFd
        /\ edges' = [edges EXCEPT ![fd[o]] = @ \cup {"in"}]
        /\ UNCHANGED <<made, connections, fd, events, fresh, batch, phase>>
    BY <1>1 DEF Arrive, objects
  <2>2. ReportTypes'
    BY <2>1 DEF ReportInv, ReportTypes
  <2>3. \A y \in connections' : input'[y] # "no" =>
             \/ "in" \in edges'[fd[y]]
             \/ input[y] # "no" /\ ("in" \in edges[fd[y]] => "in" \in edges'[fd[y]])
    <3>. SUFFICES ASSUME NEW y \in connections, input'[y] # "no"
                  PROVE  \/ "in" \in edges'[fd[y]]
                         \/ input[y] # "no" /\ ("in" \in edges[fd[y]] => "in" \in edges'[fd[y]])
      BY <2>1
    <3>1. fd[y] \in Fds /\ y \in Objects
      BY HoldersDiffer
    <3>2. CASE y = o
      BY <2>1, <3>1, <3>2 DEF ReportInv, ReportTypes
    <3>3. CASE y # o
      BY <2>1, <3>1, <3>3 DEF ReportInv, ReportTypes
    <3>. QED BY <3>2, <3>3
  <2>4. \A y \in Objects : fd'[y] = NoFd => input'[y] = "no"
    BY <2>1 DEF ReportInv, RoundInv, ReportTypes
  <2>5. batch' = batch \ {}
    BY <2>1
  <2>6. \/ batch' = {}
        \/ fresh' = fresh /\ \A f \in Fds : events'[f] \in {Nothing, events[f], Server}
    BY <2>1
  <2>7. \A y \in connections' : fd'[y] = fd[y]
    BY <2>1
  <2>8. connections' \subseteq connections
    BY <2>1
  <2>9. phase' \in {"poll", "tasks"} => phase \in {"poll", "tasks"} \/ batch' = {}
    BY <2>1
  <2>10. \A r \in {} \cap batch : Tells(r) /\ r.of \in connections' => input'[r.of] = "no"
    OBVIOUS
  <2>. QED BY <2>1, <2>2, <2>3, <2>4, <2>5, <2>6, <2>7, <2>8, <2>9, <2>10, RoundKeeps
<1>2. ASSUME NEW f, NEW more \in SUBSET {"in", "out", "err", "hup"},
             edges' = [edges EXCEPT ![f] = @ \cup more],
             UNCHANGED <<made, input, connections, fd, events, fresh, batch, phase>>
      PROVE  ReportInv'
  <2>1. /\ edges' \in [Fds -> SUBSET {"in", "out", "err", "hup"}]
        /\ \A g \in Fds : "in" \in edges[g] => "in" \in edges'[g]
    BY <1>2 DEF ReportInv, ReportTypes
  <2>2. batch' = batch \ {}
    BY <1>2
  <2>3. phase' \in {"poll", "tasks"} => phase \in {"poll", "tasks"}
    BY <1>2
  <2>4. UNCHANGED <<made, input, connections, fd, events>> /\ fresh' = fresh
    BY <1>2
  <2>5. \A r \in {} \cap batch : Tells(r) => r.of \notin connections
    OBVIOUS
  <2>6. /\ fresh' = fresh \/ batch' = {}
        /\ phase' \in {"poll", "tasks"} => phase \in {"poll", "tasks"} \/ batch' = {}
    BY <2>3, <2>4
  <2>. QED BY <2>1, <2>2, <2>4, <2>5, <2>6, QuietReports
<1>3. ASSUME NEW o \in Conns \cup {Client}, Break(o) PROVE ReportInv'
  <2>1. /\ edges' = [edges EXCEPT ![fd[o]] = @ \cup {"err", "hup"}]
        /\ UNCHANGED <<made, input, connections, fd, events, fresh, batch, phase>>
    BY <1>3 DEF Break, objects
  <2>. QED BY <1>2, <2>1
<1>4. ASSUME NEW up \in BOOLEAN, Answer(up) PROVE ReportInv'
  <2>1. /\ edges' = [edges EXCEPT ![fd[Client]] = @ \cup IF up THEN {"out"} ELSE {"err", "hup"}]
        /\ UNCHANGED <<made, input, connections, fd, events, fresh, batch, phase>>
    BY <1>4 DEF Answer, objects
  <2>2. (IF up THEN {"out"} ELSE {"err", "hup"}) \in SUBSET {"in", "out", "err", "hup"}
    OBVIOUS
  <2>. QED BY <1>2, <2>1, <2>2
<1>5. CASE Knock
  <2>1. /\ edges' = [edges EXCEPT ![fd[Server]] = @ \cup {"in"}]
        /\ UNCHANGED <<made, input, connections, fd, events, fresh, batch, phase>>
    BY <1>5 DEF Knock, objects
  <2>. QED BY <1>2, <2>1
<1>6. ASSUME NEW o \in Conns \cup {Client}, Drain(o) PROVE ReportInv'
  <2>1. /\ edges' = [edges EXCEPT ![fd[o]] = @ \cup {"out"}]
        /\ UNCHANGED <<made, input, connections, fd, events, fresh, batch, phase>>
    BY <1>6 DEF Drain, objects
  <2>. QED BY <1>2, <2>1
<1>. QED BY <1>1, <1>3, <1>4, <1>5, <1>6 DEF Network

(* A report that says nothing of input, or of another object *)
LEMMA NotTold ==
  ASSUME DescInv, BatchInv, ReportInv, NEW r \in batch, NEW o, events[r.fd] = o,
         o \in {Nothing, Server, Client} \/ ~Tells(r)
  PROVE  \A x \in {r} \cap batch : Tells(x) => x.of \notin connections
BY GetsItsOwn

(* The reports of a round, one after the other *)
LEMMA ReportsReports ==
  ASSUME DescInv, BatchInv, ReportInv, Reports
  PROVE  ReportInv'
<1>. USE ObjectFacts
<1>0. ReportTypes
  BY DEF ReportInv
<1>1. ASSUME NEW r \in batch, Skip(r) \/ AcceptBegins(r) PROVE ReportInv'
  <2>1. /\ events[r.fd] \in {Nothing, Server} /\ batch' = batch \ {r} /\ phase' \notin {"poll", "tasks"}
        /\ UNCHANGED <<made, input, connections, fd, events, fresh, edges>>
    BY <1>1 DEF Skip, AcceptBegins, Dispatch, kernel, objects
  <2>2. \A x \in {r} \cap batch : Tells(x) => x.of \notin connections
    BY <2>1, NotTold
  <2>3. edges' \in [Fds -> SUBSET {"in", "out", "err", "hup"}]
    BY <1>0, <2>1 DEF ReportTypes
  <2>. QED BY <2>1, <2>2, <2>3, QuietReports
<1>2. ASSUME NEW r \in batch, Connects(r) PROVE ReportInv'
  <2>1. /\ events[r.fd] = Client /\ batch' = batch \ {r} /\ phase' \notin {"poll", "tasks"}
        /\ UNCHANGED <<made, fresh>>
    BY <1>2 DEF Connects, Dispatch
  <2>2. \A x \in {r} \cap batch : Tells(x) => x.of \notin connections
    BY <2>1, NotTold
  <2>3. CASE link = "failed"
    <3>1. OnClose(Client) /\ phase' = phase
      BY <1>2, <2>3 DEF Connects
    <3>2. \A x \in {r} \cap batch : Tells(x) => x.of = Client \/ x.of \notin connections
      BY <2>2
    <3>. QED BY <2>1, <3>1, <3>2, CloseReports
  <2>4. CASE link # "failed"
    <3>1. UNCHANGED <<input, connections, fd, events, edges>>
      BY <1>2, <2>4 DEF Connects, kernel
    <3>2. edges' \in [Fds -> SUBSET {"in", "out", "err", "hup"}]
      BY <1>0, <3>1 DEF ReportTypes
    <3>. QED BY <2>1, <2>2, <3>1, <3>2, QuietReports
  <2>. QED BY <2>3, <2>4
<1>3. ASSUME NEW r \in batch, NEW o \in Objects, Closes(r, o) PROVE ReportInv'
  <2>1. /\ events[r.fd] = o /\ batch' = batch \ {r} /\ phase' \notin {"poll", "tasks"}
        /\ UNCHANGED <<made, fresh, phase>>
    BY <1>3 DEF Closes, Dispatch
  <2>2. CASE o = Server
    <3>1. Reopen
      BY <1>3, <2>2 DEF Closes
    <3>2. \A x \in {r} \cap batch : Tells(x) => x.of \notin connections
      BY <2>1, <2>2, NotTold
    <3>. QED BY <2>1, <3>1, <3>2, ReopenReports
  <2>3. CASE o # Server
    <3>1. OnClose(o)
      BY <1>3, <2>3 DEF Closes
    <3>2. \A x \in {r} \cap batch : Tells(x) => x.of = o \/ x.of \notin connections
      BY <2>1, GetsItsOwn
    <3>. QED BY <2>1, <3>1, <3>2, CloseReports
  <2>. QED BY <2>2, <2>3
<1>4. ASSUME NEW r \in batch, NEW o \in Objects,
             WritesAll(r, o) \/ WritesSome(r, o) \/ WriteFails(r, o)
      PROVE  ReportInv'
  <2>1. /\ events[r.fd] = o /\ batch' = batch \ {r} /\ phase' \notin {"poll", "tasks"}
        /\ "write" = Handler(r.kinds)
        /\ UNCHANGED <<made, fresh>>
    BY <1>4 DEF WritesAll, WritesSome, WriteFails, Dispatch
  <2>2. ~Tells(r)
    BY <2>1 DEF Handler, Tells
  <2>3. \A x \in {r} \cap batch : Tells(x) => x.of \notin connections
    BY <2>2
  <2>4. CASE WriteFails(r, o)
    <3>1. OnClose(o) /\ phase' = phase
      BY <2>4 DEF WriteFails
    <3>2. \A x \in {r} \cap batch : Tells(x) => x.of = o \/ x.of \notin connections
      BY <2>3
    <3>. QED BY <2>1, <3>1, <3>2, CloseReports
  <2>5. CASE WritesAll(r, o) \/ WritesSome(r, o)
    <3>1. UNCHANGED <<input, connections, fd, events>> /\ (EnableWriting(o, FALSE) \/ edges' = edges)
      BY <2>5 DEF WritesAll, WritesSome, kernel, objects
    <3>2. /\ edges' \in [Fds -> SUBSET {"in", "out", "err", "hup"}]
          /\ \A f \in Fds : "in" \in edges[f] => "in" \in edges'[f]
      <4>1. CASE EnableWriting(o, FALSE)
        BY <1>0, <4>1, EnableEdges
      <4>2. CASE edges' = edges
        BY <1>0, <4>2 DEF ReportTypes
      <4>. QED BY <3>1, <4>1, <4>2
    <3>. QED BY <2>1, <2>3, <3>1, <3>2, QuietReports
  <2>. QED BY <1>4, <2>4, <2>5
<1>5. ASSUME NEW r \in batch, NEW o \in Objects, Reads(r, o) PROVE ReportInv'
  <2>1. /\ events[r.fd] = o /\ batch' = batch \ {r} /\ phase' \notin {"poll", "tasks"}
        /\ UNCHANGED <<made, fresh>>
    BY <1>5 DEF Reads, Dispatch
  <2>2. \A x \in {r} \cap batch : x.of \in connections => x.of = o
    BY <2>1, GetsItsOwn
  <2>3. CASE input[o] = "eof"
    <3>1. OnClose(o) /\ phase' = phase
      BY <1>5, <2>3 DEF Reads
    <3>2. \A x \in {r} \cap batch : Tells(x) => x.of = o \/ x.of \notin connections
      BY <2>2
    <3>. QED BY <2>1, <3>1, <3>2, CloseReports
  <2>4. CASE input[o] # "eof"
    <3>1. /\ input' = [input EXCEPT ![o] = "no"]
          /\ UNCHANGED <<edges, connections, fd, events>>
      BY <1>5, <2>4 DEF Reads, objects
    <3>2. ReportTypes'
      BY <1>0, <3>1 DEF ReportTypes
    <3>3. \A y \in Objects : input'[y] \in {"no", input[y]}
      BY <1>0, <3>1 DEF ReportTypes
    <3>4. \A y \in connections' : input'[y] # "no" =>
               \/ "in" \in edges'[fd[y]]
               \/ input[y] # "no" /\ ("in" \in edges[fd[y]] => "in" \in edges'[fd[y]])
      BY <3>1, <3>3, HoldersDiffer
    <3>5. \A y \in Objects : fd'[y] = NoFd => input'[y] = "no"
      BY <3>1, <3>3 DEF ReportInv, RoundInv
    <3>6. \A x \in {r} \cap batch : Tells(x) /\ x.of \in connections' => input'[x.of] = "no"
      BY <1>0, <2>2, <3>1 DEF ReportTypes
    <3>7. connections' \subseteq connections /\ \A y \in connections' : fd'[y] = fd[y]
      BY <3>1
    <3>8. \/ batch' = {}
          \/ fresh' = fresh /\ \A f \in Fds : events'[f] \in {Nothing, events[f], Server}
      BY <2>1, <3>1
    <3>. QED BY <2>1, <3>2, <3>4, <3>5, <3>6, <3>7, <3>8, RoundKeeps
  <2>. QED BY <2>3, <2>4
<1>. QED BY <1>1, <1>2, <1>3, <1>4, <1>5 DEF Reports

(* A round begins: every edge becomes a report of its object *)
LEMMA PollReports ==
  ASSUME DescInv, ReportInv, Poll
  PROVE  ReportInv'
<1>. USE ObjectFacts
<1>1. /\ batch' = {[fd |-> f, of |-> socket[f], kinds |-> edges[f]] : f \in {g \in Fds : edges[g] # {}}}
      /\ edges' = [f \in Fds |-> {}] /\ phase' = "batch" /\ phase = "poll"
      /\ UNCHANGED <<input, fd, events, connections, made, fresh>>
  BY DEF Poll, objects
<1>2. ReportTypes'
  BY <1>1 DEF ReportInv, ReportTypes
<1>3. ASSUME NEW r \in batch' PROVE r.fd \in Fds /\ r.of = socket[r.fd] /\ r.kinds = edges[r.fd]
  BY <1>1
<1>4. RoundInv'
  <2>1. \A r \in batch' : r.of \notin Conns \ made' /\ (r.of \in connections' => fd'[r.of] = r.fd)
    <3>. SUFFICES ASSUME NEW r \in batch'
                  PROVE  r.of \notin Conns \ made /\ (r.of \in connections => fd[r.of] = r.fd)
      BY <1>1
    <3>1. r.of # Nothing => fd[r.of] = r.fd /\ r.fd # NoFd
      <4>1. r.fd \in Fds /\ r.of = socket[r.fd]
        BY <1>3
      <4>2. socket[r.fd] # Nothing => fd[socket[r.fd]] = r.fd
        BY <4>1 DEF DescInv, DescriptorsAgree
      <4>. QED BY <4>1, <4>2
    <3>2. connections \subseteq Conns
      BY DEF DescInv, DescTypes, DescriptorsAgree
    <3>3. r.of \in Conns => r.of \in made
      BY <3>1 DEF DescInv, Unopened
    <3>. QED BY <3>1, <3>2, <3>3
  <2>. QED BY <1>1, <2>1 DEF ReportInv, RoundInv
<1>5. StaleOnlyFresh'
  BY <1>1, <1>3 DEF StaleOnlyFresh, DescInv, DescriptorsAgree
<1>6. InputIsReported'
  <2>. SUFFICES ASSUME NEW o \in connections, input[o] # "no"
                PROVE  \E r \in batch' : r.of = o /\ r.kinds \cap {"in", "err"} # {}
    BY <1>1 DEF InputIsReported, Reported
  <2>1. batch = {}
    BY <1>1 DEF ReportInv, RoundInv
  <2>2. "in" \in edges[fd[o]]
    BY <2>1 DEF ReportInv, InputIsReported, Reported
  <2>3. fd[o] \in Fds /\ socket[fd[o]] = o
    BY HoldersDiffer
  <2>4. PICK r : r = [fd |-> fd[o], of |-> socket[fd[o]], kinds |-> edges[fd[o]]]
    OBVIOUS
  <2>5. r \in batch'
    BY <1>1, <2>2, <2>3, <2>4
  <2>6. r.of = o /\ "in" \in r.kinds
    BY <2>2, <2>3, <2>4
  <2>. QED BY <2>5, <2>6
<1>. QED BY <1>2, <1>4, <1>5, <1>6 DEF ReportInv

(* A connection is accepted: nobody reported anything of it *)
LEMMA AcceptReports ==
  ASSUME DescInv, BatchInv, ReportInv, NEW o \in Conns, Accept(o)
  PROVE  ReportInv'
<1>. USE ObjectFacts
<1>. DEFINE f == Lowest(FreeFds)
<1>1. f \in FreeFds /\ fd[o] = NoFd
  BY LowestIn DEF Accept, FreeFds, DescInv, Unopened
<1>. HIDE DEF f
<1>2. /\ fd' = [fd EXCEPT ![o] = f] /\ events' = AddEvent(events, o, f)
      /\ connections' = connections \cup {o} /\ made' = made \cup {o} /\ fresh' = fresh \cup {o}
      /\ o \notin made /\ phase = "accept"
      /\ UNCHANGED <<edges, input, batch, phase>>
  BY DEF Accept, f
<1>3. f \in Fds /\ events[f] = Nothing
  BY <1>1 DEF FreeFds, DescInv, DescriptorsAgree
<1>4. ReportTypes'
  BY <1>2 DEF ReportInv, ReportTypes
<1>5. \A x \in connections : x # o /\ fd'[x] = fd[x]
  BY <1>2 DEF DescInv, DescTypes, DescriptorsAgree
<1>6. fd'[o] = f
  BY <1>2 DEF DescInv, DescTypes
<1>7. RoundInv'
  <2>1. \A r \in batch' : r.of \notin Conns \ made' /\ (r.of \in connections' => fd'[r.of] = r.fd)
    BY <1>2, <1>5 DEF ReportInv, RoundInv
  <2>2. \A x \in connections' : fd'[x] \in Fds
    BY <1>2, <1>3, <1>5, <1>6 DEF ReportInv, RoundInv
  <2>3. \A x \in Objects : fd'[x] = NoFd => input'[x] = "no"
    BY <1>2, <1>1 DEF ReportInv, RoundInv, DescInv, DescTypes
  <2>. QED BY <1>2, <2>1, <2>2, <2>3 DEF RoundInv
<1>8. StaleOnlyFresh'
  <2>1. \A g \in Fds : events'[g] \in {events[g], o}
    BY <1>2, <1>3 DEF AddEvent, DescInv, DescTypes, DescriptorsAgree
  <2>. QED BY <1>2, <2>1 DEF StaleOnlyFresh, ReportInv, BatchInv
<1>9. InputIsReported'
  <2>1. input'[o] = "no"
    BY <1>1, <1>2 DEF ReportInv, RoundInv
  <2>2. \A x \in connections : input[x] # "no" =>
          "in" \in edges'[fd'[x]] \/ \E r \in batch' : r.of = x /\ r.kinds \cap {"in", "err"} # {}
    BY <1>2, <1>5 DEF ReportInv, InputIsReported, Reported
  <2>. QED BY <1>2, <2>1, <2>2 DEF InputIsReported, Reported
<1>. QED BY <1>4, <1>7, <1>8, <1>9 DEF ReportInv

LEMMA ReportNext == DescInv /\ BatchInv /\ ReportInv /\ [LinkNext]_linkVars => ReportInv'
<1>. SUFFICES ASSUME DescInv, BatchInv, ReportInv, [LinkNext]_linkVars
              PROVE  ReportInv'
  OBVIOUS
<1>. USE ObjectFacts
<1>0. /\ ReportTypes /\ batch \ {} = batch
      /\ \A r \in {} \cap batch : Tells(r) => r.of \notin connections
      /\ \A r \in {} \cap batch : Tells(r) => r.of = Client \/ r.of \notin connections
  BY DEF ReportInv
<1>1. CASE Network
  BY <1>1, NetworkReports
<1>2. CASE Poll
  BY <1>2, PollReports
<1>3. CASE Reports
  BY <1>3, ReportsReports
<1>4. CASE CallbackReturns \/ BatchDone \/ RoundDone \/ AcceptEnds \/ UNCHANGED linkVars
  <2>1. /\ UNCHANGED <<made, input, connections, fd, events, edges>> /\ batch' = batch \ {}
        /\ fresh' = fresh \/ RoundDone
    BY <1>0, <1>4 DEF CallbackReturns, BatchDone, RoundDone, AcceptEnds, kernel, objects, linkVars
  <2>2. RoundDone => batch' = {}
    BY <1>0, <2>1 DEF RoundDone, ReportInv, RoundInv
  <2>3. phase' \in {"poll", "tasks"} => phase \in {"poll", "tasks"} \/ batch' = {}
    BY <1>0, <1>4, <2>1, <2>2 DEF CallbackReturns, BatchDone, AcceptEnds, linkVars
  <2>4. edges' \in [Fds -> SUBSET {"in", "out", "err", "hup"}]
    BY <1>0, <2>1 DEF ReportTypes
  <2>5. fresh' = fresh \/ batch' = {}
    BY <2>1, <2>2
  <2>6. \A f \in Fds : "in" \in edges[f] => "in" \in edges'[f]
    BY <2>1
  <2>. QED BY <1>0, <2>1, <2>3, <2>4, <2>5, <2>6, QuietReports
<1>5. CASE AcceptFails
  <2>1. Reopen /\ batch' = batch \ {} /\ phase' \notin {"poll", "tasks"} /\ UNCHANGED <<made, fresh>>
    BY <1>0, <1>5 DEF AcceptFails
  <2>. QED BY <1>0, <2>1, ReopenReports
<1>6. ASSUME NEW o \in Conns, Accept(o) PROVE ReportInv'
  BY <1>6, AcceptReports
<1>7. ASSUME NEW atOnce \in BOOLEAN, Connect(atOnce) PROVE ReportInv'
  <2>. DEFINE f == Lowest(FreeFds)
  <2>1. f \in FreeFds
    BY <1>7, LowestIn DEF Connect, FreeFds
  <2>. HIDE DEF f
  <2>2. /\ fd' = [fd EXCEPT ![Client] = f] /\ events' = AddEvent(events, Client, f)
        /\ edges' = [edges EXCEPT ![f] = IF atOnce THEN {"out"} ELSE {}]
        /\ fresh' = fresh \cup {Client}
        /\ UNCHANGED <<input, connections, made, batch, phase>>
    BY <1>7 DEF Connect, f
  <2>3. batch' = batch \ {}
    BY <2>2
  <2>4. ReportTypes'
    BY <1>0, <2>2 DEF ReportTypes
  <2>5. \A o \in connections' : fd'[o] = fd[o]
    BY <2>2, HoldersDiffer DEF DescInv, DescTypes
  <2>6. \A o \in connections' : input'[o] # "no" =>
             \/ "in" \in edges'[fd[o]]
             \/ input[o] # "no" /\ ("in" \in edges[fd[o]] => "in" \in edges'[fd[o]])
    <3>. SUFFICES ASSUME NEW o \in connections, input[o] # "no"
                  PROVE  "in" \in edges[fd[o]] => "in" \in edges'[fd[o]]
      BY <2>2
    <3>1. fd[o] \in Fds /\ socket[fd[o]] = o /\ o # Nothing
      BY HoldersDiffer
    <3>2. fd[o] # f
      BY <2>1, <3>1 DEF FreeFds
    <3>. QED BY <1>0, <2>2, <3>1, <3>2 DEF ReportTypes
  <2>7. \A o \in Objects : fd'[o] = NoFd => input'[o] = "no"
    <3>1. f # NoFd
      BY <2>1 DEF FreeFds
    <3>. QED BY <2>2, <3>1 DEF DescInv, DescTypes, ReportInv, RoundInv
  <2>8. \A r \in {} \cap batch : Tells(r) /\ r.of \in connections' => input'[r.of] = "no"
    OBVIOUS
  <2>9. /\ made' = made /\ connections' \subseteq connections
        /\ phase' \in {"poll", "tasks"} => phase \in {"poll", "tasks"}
    BY <2>2
  <2>10. fresh \subseteq fresh' /\ \A g \in Fds : events'[g] \in {Nothing, events[g], Server} \cup fresh'
    <3>1. events \in [Fds -> Objects \cup {Nothing}]
      BY DEF DescInv, DescTypes, DescriptorsAgree
    <3>. QED BY <2>2, <3>1 DEF AddEvent
  <2>. QED BY <2>3, <2>4, <2>5, <2>6, <2>7, <2>8, <2>9, <2>10, RoundKeeps
<1>8. CASE ConnectFails
  <2>1. OnClose(Client) /\ batch' = batch \ {} /\ UNCHANGED <<made, fresh, phase>>
    BY <1>0, <1>8 DEF ConnectFails
  <2>. QED BY <1>0, <2>1, CloseReports
<1>9. ASSUME NEW o \in Conns \cup {Client}, TaskClose(o) PROVE ReportInv'
  <2>1. OnClose(o) /\ batch' = batch \ {} /\ UNCHANGED <<made, fresh, phase>>
    BY <1>0, <1>9 DEF TaskClose
  <2>2. \A r \in {} \cap batch : Tells(r) => r.of = o \/ r.of \notin connections
    OBVIOUS
  <2>. QED BY <2>1, <2>2, CloseReports
<1>10. ASSUME NEW o \in Conns \cup {Client}, TaskSend(o) PROVE ReportInv'
  <2>1. /\ EnableWriting(o, TRUE) /\ batch' = batch \ {}
        /\ UNCHANGED <<made, input, connections, fd, events, fresh, phase>>
    BY <1>0, <1>10 DEF TaskSend, objects
  <2>2. /\ edges' \in [Fds -> SUBSET {"in", "out", "err", "hup"}]
        /\ \A f \in Fds : "in" \in edges[f] => "in" \in edges'[f]
    BY <1>0, <2>1, EnableEdges
  <2>3. phase' \in {"poll", "tasks"} => phase \in {"poll", "tasks"} \/ batch' = {}
    BY <2>1
  <2>4. fresh' = fresh \/ batch' = {}
    BY <2>1
  <2>. QED BY <1>0, <2>1, <2>2, <2>3, <2>4, QuietReports
<1>. QED
  BY <1>1, <1>2, <1>3, <1>4, <1>5, <1>6, <1>7, <1>8, <1>9, <1>10 DEF LinkNext

LEMMA ReportsRight == LinkSpec => []ReportInv
BY DescInit, ReportInit, DescNext, ReportNext, PTL DEF LinkSpec

(* loop, delEvent, onAccept, connectInLoop: a report that is older than    *)
(* the object that gets it goes to a connection accepted in the same       *)
(* round, to a client that a callback of the round connects, or to the     *)
(* acceptor, for any number of connections and descriptors.                *)
THEOREM StaleTheorem == LinkSpec => []StaleOnlyFresh
<1>1. ReportInv => StaleOnlyFresh
  BY DEF ReportInv
<1>. QED BY <1>1, ReportsRight, PTL

(* loop, onRead: edges are reported once, but what an open connection has  *)
(* not read is still to be reported, whatever is closed and opened before. *)
THEOREM InputTheorem == LinkSpec => []InputIsReported
<1>1. ReportInv => InputIsReported
  BY DEF ReportInv
<1>. QED BY <1>1, ReportsRight, PTL

(***************************************************************************)
(* EventLoop                                                               *)
(***************************************************************************)

(* Whenever the loop is not about to look at its queue, and not only while *)
(* it polls, a task in the queue has somebody or something to wake the     *)
(* loop; the thread may be told to start with tasks already there.         *)
BeforeQueue == loopPc \in {"starting", "entering", "polling"}

Woken == edge \/ words = PipeCapacity \/ \E p \in Posters : posterPc[p] = "waking"

WakeInv == LoopTypeOK /\ (BeforeQueue /\ tasks # <<>> => Woken)

LEMMA LoopTypeInit == LoopInit => LoopTypeOK
<1>. SUFFICES ASSUME LoopInit PROVE LoopTypeOK
  OBVIOUS
<1>1. 0 \in 0 .. MaxPosts /\ 0 \in 0 .. PipeCapacity /\ <<>> \in Seq(Posters)
  BY EventLoopAssumption
<1>2. posts \in [Posters -> 0 .. MaxPosts] /\ ran \in [Posters -> Nat] /\ posterPc \in [Posters -> {"idle", "waking"}]
  BY <1>1 DEF LoopInit
<1>. QED BY <1>1, <1>2 DEF LoopInit, LoopTypeOK

LEMMA LoopTypeNext ==
  ASSUME LoopTypeOK, [LoopNext]_loopVars
  PROVE  LoopTypeOK'
<1>. USE EventLoopAssumption
<1>1. CASE AskRun \/ GotLoop \/ Quit \/ Join
  <2>1. CASE AskRun
    BY <2>1 DEF AskRun, LoopTypeOK, pipeVars
  <2>2. CASE GotLoop
    BY <2>2 DEF GotLoop, LoopTypeOK, pipeVars
  <2>3. CASE Quit
    BY <2>3 DEF Quit, LoopTypeOK, pipeVars
  <2>4. CASE Join
    BY <2>4 DEF Join, LoopTypeOK, pipeVars
  <2>. QED BY <1>1, <2>1, <2>2, <2>3, <2>4
<1>2. CASE WaitForRun \/ EnterLoop \/ PollPipe \/ PollOther
  <2>1. CASE WaitForRun
    BY <2>1 DEF WaitForRun, LoopTypeOK, pipeVars
  <2>2. CASE EnterLoop
    BY <2>2 DEF EnterLoop, LoopTypeOK, pipeVars
  <2>3. CASE PollPipe
    BY <2>3 DEF PollPipe, LoopTypeOK, pipeVars
  <2>4. CASE PollOther
    BY <2>4 DEF PollOther, LoopTypeOK, pipeVars
  <2>. QED BY <1>2, <2>1, <2>2, <2>3, <2>4
<1>3. CASE ReadPipe
  <2>1. WordsLeft \in 0 .. PipeCapacity
    BY DEF WordsLeft, LoopTypeOK
  <2>. QED BY <1>3, <2>1 DEF ReadPipe, LoopTypeOK
<1>4. CASE LockTasks \/ RoundEnds
  BY <1>4 DEF LockTasks, RoundEnds, LoopTypeOK, pipeVars
<1>5. CASE RunTask
  <2>1. Head(tasks) \in Posters /\ Tail(tasks) \in Seq(Posters)
    BY <1>5 DEF RunTask, LoopTypeOK
  <2>2. ran' \in [Posters -> Nat]
    BY SMTT(20), <1>5, <2>1 DEF RunTask, LoopTypeOK
  <2>. QED BY <1>5, <2>1, <2>2 DEF RunTask, LoopTypeOK, threadVars, pipeVars
<1>6. ASSUME NEW p \in Posters, Lock(p) PROVE LoopTypeOK'
  <2>1. tasks' \in Seq(Posters)
    BY <1>6 DEF Lock, LoopTypeOK
  <2>2. posts' \in [Posters -> 0 .. MaxPosts]
    BY <1>6 DEF Lock, LoopTypeOK
  <2>3. posterPc' \in [Posters -> {"idle", "waking"}]
    BY <1>6 DEF Lock, LoopTypeOK
  <2>. QED BY <1>6, <2>1, <2>2, <2>3 DEF Lock, LoopTypeOK, threadVars, pipeVars
<1>7. ASSUME NEW p \in Posters, NEW lost \in BOOLEAN, InitPipe(p, lost) PROVE LoopTypeOK'
  BY <1>7 DEF InitPipe, LoopTypeOK, threadVars
<1>8. ASSUME NEW p \in Posters, WakeUp(p) PROVE LoopTypeOK'
  <2>1. words' \in 0 .. PipeCapacity
    BY <1>8 DEF WakeUp, LoopTypeOK
  <2>2. posterPc' \in [Posters -> {"idle", "waking"}]
    BY <1>8 DEF WakeUp, LoopTypeOK
  <2>3. edge' \in BOOLEAN
    BY <1>8 DEF WakeUp, LoopTypeOK
  <2>. QED BY <1>8, <2>1, <2>2, <2>3 DEF WakeUp, LoopTypeOK, threadVars
<1>9. CASE UNCHANGED loopVars
  BY <1>9 DEF loopVars, threadVars, pipeVars, LoopTypeOK
<1>. QED BY <1>1, <1>2, <1>3, <1>4, <1>5, <1>6, <1>7, <1>8, <1>9 DEF LoopNext, LoopThread, Wakes

LEMMA WakeInit == LoopInit => WakeInv
BY LoopTypeInit DEF LoopInit, WakeInv

(* Only runTask, with the lock, makes the queue empty before the loop goes *)
(* back to epoll_wait; a poster adds a task and is then about to wake.     *)
LEMMA WakeNext ==
  ASSUME WakeInv, [LoopNext]_loopVars
  PROVE  WakeInv'
<1>. SUFFICES ASSUME BeforeQueue', tasks' # <<>> PROVE Woken'
  BY LoopTypeNext DEF WakeInv
<1>0. LoopTypeOK /\ (BeforeQueue /\ tasks # <<>> => Woken)
  BY DEF WakeInv
<1>1. CASE AskRun \/ GotLoop \/ Quit \/ Join
  BY <1>0, <1>1 DEF AskRun, GotLoop, Quit, Join, Woken, BeforeQueue, pipeVars
<1>2. CASE WaitForRun \/ EnterLoop
  BY <1>0, <1>2 DEF WaitForRun, EnterLoop, Woken, BeforeQueue, pipeVars
<1>3. CASE PollPipe \/ PollOther \/ ReadPipe \/ LockTasks \/ RunTask
  BY <1>3 DEF PollPipe, PollOther, ReadPipe, LockTasks, RunTask, BeforeQueue, threadVars
<1>4. CASE RoundEnds
  BY <1>4 DEF RoundEnds
<1>5. ASSUME NEW p \in Posters, Lock(p) PROVE Woken'
  BY <1>0, <1>5 DEF Lock, Woken, LoopTypeOK
<1>6. ASSUME NEW p \in Posters, NEW lost \in BOOLEAN, InitPipe(p, lost) PROVE Woken'
  BY <1>6 DEF InitPipe, Woken
<1>7. ASSUME NEW p \in Posters, WakeUp(p) PROVE Woken'
  <2>1. CASE words < PipeCapacity
    BY <1>7, <2>1 DEF WakeUp, Woken
  <2>2. CASE ~(words < PipeCapacity)
    <3>1. words = PipeCapacity
      BY <1>0, <2>2, EventLoopAssumption DEF LoopTypeOK
    <3>. QED BY <1>7, <2>2, <3>1 DEF WakeUp, Woken
  <2>. QED BY <2>1, <2>2
<1>8. CASE UNCHANGED loopVars
  BY <1>0, <1>8 DEF loopVars, threadVars, pipeVars, Woken, BeforeQueue
<1>. QED BY <1>1, <1>2, <1>3, <1>4, <1>5, <1>6, <1>7, <1>8 DEF LoopNext, LoopThread, Wakes

(* LSSEventLoopThread, LSSEventLoop, LSSPipeEvent: the program counters,   *)
(* the lock, the queue and the pipe keep their types                       *)
THEOREM LoopTypeTheorem == LoopSpec => []LoopTypeOK
<1>1. LoopTypeOK /\ [LoopNext]_loopVars => LoopTypeOK'
  BY LoopTypeNext
<1>. QED BY <1>1, LoopTypeInit, PTL DEF LoopSpec

(* enqueueTask, wakeUp and runTask: no task waits for the loop's timeout,  *)
(* but for a pipe that is full                                             *)
THEOREM WokenTheorem == LoopSpec => []WokenUnlessFull
<1>1. WakeInv /\ [LoopNext]_loopVars => WakeInv'
  BY WakeNext
<1>2. WakeInv => WokenUnlessFull
  BY DEF WakeInv, WokenUnlessFull, BeforeQueue, Woken
<1>. QED BY <1>1, <1>2, WakeInit, PTL DEF LoopSpec

(***************************************************************************)
(* TimingWheel                                                             *)
(***************************************************************************)

Request == [e : Entries, delay : Nat]

(* The references of a connection are in the second wheel, none of them    *)
(* for later than its last activity asks, and one for just that tick.      *)
Referenced(c) ==
  /\ \A l \in Levels : \A i \in Slot(l) : \A r \in wheels[l][i] :
       r.e = c => l = "second" /\ tick + i + 1 <= conn[c].active + IdleTime
  /\ conn[c].open =>
       LET last == conn[c].active + IdleTime - tick - 1
       IN  last \in Slot("second") /\ \E r \in wheels["second"][last] : r.e = c

IdleOf(c) ==
  /\ conn[c].active <= tick
  /\ conn[c].open <=> conn[c].used /\ tick < conn[c].active + IdleTime
  /\ Referenced(c)

IInv == TypeOK /\ \A c \in Connections : IdleOf(c)

(* The wheels of the constants: the second wheel counts in ticks, the      *)
(* others in at least a minute                                             *)
LEMMA LevelFacts ==
  /\ \A l \in Levels : Unit[l] \in Nat /\ Unit[l] > 0 /\ Slots[l] \in Nat /\ Slots[l] > 0
  /\ Unit["second"] = 1 /\ Limit["second"] = Minute /\ Slots["second"] = Minute
  /\ \A l \in Levels : l # "second" => Unit[l] >= Minute
  /\ IdleTime \in Nat /\ 0 < IdleTime /\ IdleTime < Minute /\ Minute \in Nat
<1>1. /\ Minute \in Nat /\ Minute > 1 /\ PerHour \in Nat /\ PerHour > 1
      /\ PerDay \in Nat /\ PerDay > 1 /\ Days \in Nat /\ Days > 0
      /\ IdleTime \in 1 .. Minute - 1
  BY TimingWheelAssumption
<1>2. \A a, b \in Nat : b > 1 => a * b \in Nat /\ a * b >= a
  OBVIOUS
<1>3. Hour \in Nat /\ Hour >= Minute
  BY <1>1, <1>2 DEF Hour
<1>4. Day \in Nat /\ Day >= Hour
  BY <1>1, <1>2, <1>3 DEF Day
<1>. QED BY <1>1, <1>3, <1>4 DEF Levels, Unit, Slots, Limit

(* insertEntry keeps the shape of the wheels, loses nothing, and adds only *)
(* what was asked for                                                      *)
LEMMA InsertLemma ==
  ASSUME NEW w, WheelType(w), NEW reqs, reqs \subseteq Request
  PROVE  /\ WheelType(Insert(w, reqs))
         /\ \A l \in Levels : \A i \in Slot(l) :
              /\ w[l][i] \subseteq Insert(w, reqs)[l][i]
              /\ \A r \in Insert(w, reqs)[l][i] :
                   r \in w[l][i] \/ \E q \in reqs : /\ r.e = q.e
                                                    /\ q.delay >= Unit[l] /\ q.delay < Limit[l]
                                                    /\ q.delay \div Unit[l] = i + 1
<1>. DEFINE new(l, i) ==
       {[e |-> r.e, rest |-> r.delay % Unit[l]] :
          r \in {q \in reqs : q.delay \in Unit[l] .. Limit[l] - 1 /\ q.delay \div Unit[l] = i + 1}}
<1>1. Insert(w, reqs) = [l \in Levels |-> [i \in Slot(l) |-> w[l][i] \cup new(l, i)]]
  BY DEF Insert
<1>2. ASSUME NEW l \in Levels, NEW i \in Slot(l)
      PROVE  /\ new(l, i) \subseteq [e : Entries, rest : 0 .. Unit[l] - 1]
             /\ \A r \in new(l, i) : \E q \in reqs : /\ r.e = q.e
                                                     /\ q.delay >= Unit[l] /\ q.delay < Limit[l]
                                                     /\ q.delay \div Unit[l] = i + 1
  <2>. SUFFICES ASSUME NEW q \in reqs, q.delay \in Unit[l] .. Limit[l] - 1,
                       q.delay \div Unit[l] = i + 1
                PROVE  /\ q.delay % Unit[l] \in 0 .. Unit[l] - 1
                       /\ q.e \in Entries
                       /\ q.delay >= Unit[l] /\ q.delay < Limit[l]
    OBVIOUS
  <2>1. q.e \in Entries /\ q.delay \in Nat
    BY DEF Request
  <2>2. Unit[l] \in Nat \ {0}
    BY LevelFacts
  <2>3. q.delay % Unit[l] \in 0 .. Unit[l] - 1
    BY <2>1, <2>2, ModType
  <2>4. Limit[l] \in Int
    BY TimingWheelAssumption, LevelFacts DEF Limit, Levels, Hour, Day
  <2>. QED BY <2>1, <2>2, <2>3, <2>4
<1>. HIDE DEF new
<1>. QED BY <1>1, <1>2 DEF WheelType

(* popUp moves every slot of one wheel a place forward *)
LEMMA PopUpLemma ==
  ASSUME NEW w, WheelType(w), NEW l0 \in Levels
  PROVE  /\ WheelType(PopUp(w, l0))
         /\ \A l \in Levels : \A i \in Slot(l) :
              PopUp(w, l0)[l][i] = IF l # l0 THEN w[l][i]
                                   ELSE IF i + 1 \in Slot(l) THEN w[l][i + 1] ELSE {}
<1>1. DOMAIN w = Levels
  BY DEF WheelType
<1>2. PopUp(w, l0) =
        [l \in Levels |-> IF l = l0 THEN [i \in Slot(l0) |-> IF i + 1 \in Slot(l0) THEN w[l0][i + 1] ELSE {}]
                          ELSE w[l]]
  BY <1>1 DEF PopUp
<1>3. \A l \in Levels : \A i \in Slot(l) :
        PopUp(w, l0)[l][i] = IF l # l0 THEN w[l][i]
                             ELSE IF i + 1 \in Slot(l) THEN w[l][i + 1] ELSE {}
  BY <1>2
<1>4. PopUp(w, l0) = [l \in Levels |-> [i \in Slot(l) |-> PopUp(w, l0)[l][i]]]
  <2>1. \A l \in Levels : w[l] = [i \in Slot(l) |-> w[l][i]]
    BY DEF WheelType
  <2>2. \A l \in Levels : PopUp(w, l0)[l] = [i \in Slot(l) |-> PopUp(w, l0)[l][i]]
    BY <1>2, <2>1
  <2>. QED BY <1>2, <2>2
<1>5. \A l \in Levels : \A i \in Slot(l) :
        PopUp(w, l0)[l][i] \subseteq [e : Entries, rest : 0 .. Unit[l] - 1]
  BY <1>3 DEF WheelType
<1>. QED BY <1>3, <1>4, <1>5 DEF WheelType

(* A request for IdleTime ticks goes to one slot of the second wheel       *)
LEMMA InsertIdleLemma ==
  ASSUME NEW w, WheelType(w), NEW c \in Connections
  PROVE  LET new == Insert(w, {[e |-> c, delay |-> IdleTime]})
         IN  /\ WheelType(new)
             /\ IdleTime - 1 \in Slot("second")
             /\ \E r \in new["second"][IdleTime - 1] : r.e = c
             /\ \A l \in Levels : \A i \in Slot(l) :
                  /\ w[l][i] \subseteq new[l][i]
                  /\ \A r \in new[l][i] :
                       r \in w[l][i] \/ (r.e = c /\ l = "second" /\ i = IdleTime - 1)
<1>. DEFINE req == [e |-> c, delay |-> IdleTime]
            new == Insert(w, {req})
<1>1. IdleTime \in Nat /\ IdleTime > 0 /\ IdleTime < Minute /\ Minute \in Nat
  BY LevelFacts
<1>2. {req} \subseteq Request
  BY <1>1 DEF Request, Entries
<1>3. IdleTime \div 1 = IdleTime
  BY <1>1
<1>4. Unit["second"] = 1 /\ Limit["second"] = Minute /\ "second" \in Levels
  BY LevelFacts DEF Levels
<1>5. IdleTime - 1 \in Slot("second")
  BY <1>1, LevelFacts DEF Slot
<1>6. \E r \in new["second"][IdleTime - 1] : r.e = c
  <2>1. [e |-> req.e, rest |-> req.delay % Unit["second"]] \in new["second"][IdleTime - 1]
    <3>1. req.delay \in Unit["second"] .. Limit["second"] - 1
      BY <1>1, <1>4
    <3>2. req.delay \div Unit["second"] = IdleTime - 1 + 1
      BY <1>1, <1>3, <1>4
    <3>. HIDE DEF req
    <3>. QED BY <1>4, <1>5, <3>1, <3>2 DEF Insert
  <2>. QED BY <2>1
<1>7. ASSUME NEW l \in Levels, NEW i \in Slot(l), NEW r \in new[l][i], r \notin w[l][i]
      PROVE  r.e = c /\ l = "second" /\ i = IdleTime - 1
  <2>1. PICK q \in {req} : r.e = q.e /\ q.delay >= Unit[l] /\ q.delay < Limit[l]
                           /\ q.delay \div Unit[l] = i + 1
    <3>. HIDE DEF req
    <3>. QED BY <1>2, <1>7, InsertLemma
  <2>2. r.e = c /\ IdleTime >= Unit[l] /\ IdleTime \div Unit[l] = i + 1
    BY <2>1
  <2>3. l = "second"
    BY <2>2, <1>1, LevelFacts
  <2>4. i \in Int
    BY LevelFacts DEF Slot
  <2>. QED BY <2>2, <2>3, <2>4, <1>1, <1>3, <1>4
<1>8. WheelType(new) /\ \A l \in Levels : \A i \in Slot(l) : w[l][i] \subseteq new[l][i]
  <2>. HIDE DEF req
  <2>. QED BY <1>2, InsertLemma
<1>. QED BY <1>5, <1>6, <1>7, <1>8
-----------------------------------------------------------------------------
(* The references of a connection are in the second wheel *)
OnlySecond(w, c) ==
  \A l \in Levels : \A i \in Slot(l) : \A r \in w[l][i] : r.e = c => l = "second"

(* Turning wheel w into v moves the references of c a slot forward *)
Forward(w, v, c) ==
  /\ \A l \in Levels : \A i \in Slot(l) : \A r \in v[l][i] :
       r.e = c => l = "second" /\ i + 1 \in Slot("second") /\ r \in w["second"][i + 1]
  /\ \A i \in Slot("second") : i + 1 \in Slot("second") => w["second"][i + 1] \subseteq v["second"][i]

(* The seconds: what repeats is a timer *)
LEMMA AfterSecondLemma ==
  ASSUME TypeOK
  PROVE  /\ WheelType(AfterSecond(wheels))
         /\ \A c \in Connections :
              OnlySecond(wheels, c) => Forward(wheels, AfterSecond(wheels), c)
<1>. DEFINE P == PopUp(wheels, "second")
            A == Insert(P, Repeats(wheels))
<1>1. "second" \in Levels /\ WheelType(wheels)
  BY DEF Levels, TypeOK
<1>2. /\ WheelType(P)
      /\ \A l \in Levels : \A i \in Slot(l) :
           P[l][i] = IF l # "second" THEN wheels[l][i]
                     ELSE IF i + 1 \in Slot(l) THEN wheels[l][i + 1] ELSE {}
  BY <1>1, PopUpLemma
<1>3. ASSUME NEW q \in Repeats(wheels)
      PROVE  q \in Request /\ q.e \in Timers
  <2>1. PICK r \in wheels["second"][0] : /\ r.e \in Timers /\ timer[r.e].every
                                         /\ q = [e |-> r.e, delay |-> timer[r.e].delay]
    BY DEF Repeats
  <2>2. timer[r.e].delay \in Nat
    BY <2>1 DEF TypeOK
  <2>. QED BY <2>1, <2>2 DEF Request, Entries
<1>. HIDE DEF P
<1>4. Repeats(wheels) \subseteq Request
  BY <1>3
<1>5. WheelType(A)
  BY <1>2, <1>4, InsertLemma
<1>6. \A l \in Levels : \A i \in Slot(l) : P[l][i] \subseteq A[l][i]
  BY <1>2, <1>4, InsertLemma
<1>7. ASSUME NEW l \in Levels, NEW i \in Slot(l), NEW r \in A[l][i], r.e \in Connections
      PROVE  r \in P[l][i]
  <2>1. r \in P[l][i] \/ \E q \in Repeats(wheels) : r.e = q.e
    BY <1>2, <1>4, InsertLemma
  <2>. QED BY <1>3, <1>7, <2>1, TimingWheelAssumption
<1>. HIDE DEF A
<1>8. ASSUME NEW c \in Connections, OnlySecond(wheels, c)
      PROVE  Forward(wheels, A, c)
  <2>1. ASSUME NEW l \in Levels, NEW i \in Slot(l), NEW r \in A[l][i], r.e = c
        PROVE  l = "second" /\ i + 1 \in Slot("second") /\ r \in wheels["second"][i + 1]
    <3>1. r \in P[l][i]
      BY <1>7, <2>1
    <3>2. l = "second"
      BY <1>2, <1>8, <2>1, <3>1 DEF OnlySecond
    <3>. QED BY <1>2, <3>1, <3>2
  <2>. QED BY <1>1, <1>2, <1>6, <2>1 DEF Forward
<1>. QED BY <1>5, <1>8 DEF A, P, AfterSecond

(* The higher wheels hold no connection *)
LEMMA TurnedLemma ==
  ASSUME TypeOK, NEW t
  PROVE  /\ WheelType(Turned(wheels, t))
         /\ \A c \in Connections :
              OnlySecond(wheels, c) => Forward(wheels, Turned(wheels, t), c)
<1>. DEFINE A == AfterSecond(wheels)
<1>1. /\ WheelType(A)
      /\ \A c \in Connections : OnlySecond(wheels, c) => Forward(wheels, A, c)
  BY AfterSecondLemma
<1>2. CASE Higher(t) = {}
  BY <1>1, <1>2 DEF Turned
<1>3. CASE Higher(t) # {}
  <2>1. PICK h \in Higher(t) : Turned(wheels, t) = Insert(PopUp(A, h), Migrates(A, h))
    BY <1>3 DEF Turned
  <2>2. h \in Levels /\ h # "second" /\ "second" \in Levels /\ 0 \in Slot(h)
    BY LevelFacts DEF Higher, Levels, Slot
  <2>. DEFINE P == PopUp(A, h)
              T == Insert(P, Migrates(A, h))
  <2>. HIDE DEF A
  <2>3. /\ WheelType(P)
        /\ \A l \in Levels : \A i \in Slot(l) :
             P[l][i] = IF l # h THEN A[l][i]
                       ELSE IF i + 1 \in Slot(l) THEN A[l][i + 1] ELSE {}
    BY <1>1, <2>2, PopUpLemma
  <2>4. ASSUME NEW q \in Migrates(A, h)
        PROVE  q \in Request /\ \E r \in A[h][0] : q.e = r.e
    <3>1. PICK r \in A[h][0] : q = [e |-> r.e, delay |-> r.rest]
      BY DEF Migrates
    <3>2. r \in [e : Entries, rest : 0 .. Unit[h] - 1] /\ Unit[h] \in Nat
      BY <1>1, <2>2, LevelFacts DEF WheelType
    <3>. QED BY <3>1, <3>2 DEF Request
  <2>5. Migrates(A, h) \subseteq Request
    BY <2>4
  <2>. HIDE DEF P
  <2>6. WheelType(T) /\ \A l \in Levels : \A i \in Slot(l) : P[l][i] \subseteq T[l][i]
    BY <2>3, <2>5, InsertLemma
  <2>7. ASSUME NEW l \in Levels, NEW i \in Slot(l), NEW r \in T[l][i]
        PROVE  r \in P[l][i] \/ \E q \in A[h][0] : r.e = q.e
    <3>1. r \in P[l][i] \/ \E q \in Migrates(A, h) : r.e = q.e
      BY <2>3, <2>5, InsertLemma
    <3>. QED BY <2>4, <3>1
  <2>. HIDE DEF T
  <2>8. ASSUME NEW c \in Connections, OnlySecond(wheels, c)
        PROVE  Forward(wheels, T, c)
    <3>1. Forward(wheels, A, c)
      BY <1>1, <2>8
    <3>2. ASSUME NEW l \in Levels, NEW i \in Slot(l), NEW r \in T[l][i], r.e = c
          PROVE  l = "second" /\ r \in A[l][i]
      <4>1. \A q \in A[h][0] : q.e # c
        BY <2>2, <3>1 DEF Forward
      <4>2. r \in P[l][i]
        BY <2>7, <3>2, <4>1
      <4>3. l = h => i + 1 \in Slot(l) /\ r \in A[l][i + 1]
        BY <2>3, <4>2
      <4>4. l # h
        BY <2>2, <3>1, <3>2, <4>3 DEF Forward
      <4>5. r \in A[l][i]
        BY <2>3, <4>2, <4>4
      <4>. QED BY <3>1, <3>2, <4>5 DEF Forward
    <3>3. \A i \in Slot("second") : A["second"][i] \subseteq T["second"][i]
      BY <2>2, <2>3, <2>6
    <3>. QED BY <2>2, <3>1, <3>2, <3>3 DEF Forward
  <2>. QED BY <2>1, <2>6, <2>8 DEF T, P
<1>. QED BY <1>2, <1>3
-----------------------------------------------------------------------------
(* What an operation does to the idle time of one connection: nothing ...  *)
LEMMA OthersLemma ==
  ASSUME NEW c \in Connections, IdleOf(c), conn'[c] = conn[c], tick' = tick,
         \A l \in Levels : \A i \in Slot(l) :
           /\ wheels[l][i] \subseteq wheels'[l][i]
           /\ \A r \in wheels'[l][i] : r.e = c => r \in wheels[l][i]
  PROVE  IdleOf(c)'
<1>1. "second" \in Levels
  BY DEF Levels
<1>. QED BY <1>1 DEF IdleOf, Referenced

(* ... or it starts again *)
LEMMA ActivityLemma ==
  ASSUME TypeOK, NEW c \in Connections, OnlySecond(wheels, c),
         IdleOf(c), tick' = tick,
         wheels' = Insert(wheels, {[e |-> c, delay |-> IdleTime]}),
         conn'[c].active = tick, conn'[c].open = TRUE, conn'[c].used = TRUE
  PROVE  IdleOf(c)'
<1>. DEFINE last == conn'[c].active + IdleTime - tick' - 1
<1>1. tick \in Nat /\ conn[c].active \in Nat /\ IdleTime \in Nat /\ IdleTime > 0
  BY LevelFacts DEF TypeOK
<1>2. last = IdleTime - 1
  BY <1>1
<1>3. /\ IdleTime - 1 \in Slot("second")
      /\ \E r \in wheels'["second"][IdleTime - 1] : r.e = c
      /\ \A l \in Levels : \A i \in Slot(l) : \A r \in wheels'[l][i] :
           r \in wheels[l][i] \/ (r.e = c /\ l = "second" /\ i = IdleTime - 1)
  BY InsertIdleLemma DEF TypeOK
<1>4. ASSUME NEW l \in Levels, NEW i \in Slot(l), NEW r \in wheels'[l][i], r.e = c
      PROVE  l = "second" /\ tick' + i + 1 <= conn'[c].active + IdleTime
  <2>1. i \in Int
    BY LevelFacts DEF Slot
  <2>2. CASE r \in wheels[l][i]
    <3>1. l = "second" /\ tick + i + 1 <= conn[c].active + IdleTime /\ conn[c].active <= tick
      BY <1>4, <2>2 DEF IdleOf, Referenced
    <3>. QED BY <1>1, <2>1, <3>1
  <2>3. CASE l = "second" /\ i = IdleTime - 1
    BY <1>1, <2>3
  <2>. QED BY <1>3, <2>2, <2>3
<1>5. Referenced(c)'
  BY <1>2, <1>3, <1>4 DEF Referenced
<1>. QED BY <1>1, <1>5 DEF IdleOf

LEMMA InitInv == Init => IInv
<1>. SUFFICES ASSUME Init PROVE IInv
  OBVIOUS
<1>1. \A l \in Levels : \A i \in Slot(l) : wheels[l][i] = {}
  BY DEF Init
<1>2. WheelType(wheels)
  BY DEF Init, WheelType
<1>3. TypeOK
  <2>1. timer \in [Timers -> [on : BOOLEAN, delay : Nat \ {0}, every : BOOLEAN, at : Nat, since : Nat]]
    BY DEF Init
  <2>2. conn \in [Connections -> [used : BOOLEAN, open : BOOLEAN, active : Nat]]
    BY DEF Init
  <2>3. now \in Nat /\ lastTs \in Nat /\ tick \in Nat
    BY DEF Init
  <2>4. corrupt \in BOOLEAN
    BY DEF Init
  <2>. QED BY <1>2, <2>1, <2>2, <2>3, <2>4 DEF TypeOK
<1>4. ASSUME NEW c \in Connections PROVE IdleOf(c)
  BY <1>1 DEF Init, IdleOf, Referenced
<1>. QED BY <1>3, <1>4 DEF IInv

LEMMA WaitInv == ASSUME IInv, NEW d \in Steps, Wait(d) PROVE IInv'
<1>1. d \in Nat /\ now \in Nat
  BY TimingWheelAssumption DEF IInv, TypeOK
<1>2. TypeOK'
  BY <1>1 DEF IInv, TypeOK, Wait
<1>3. \A c \in Connections : IdleOf(c)'
  BY DEF IInv, Wait, IdleOf, Referenced
<1>. QED BY <1>2, <1>3 DEF IInv

LEMMA FirstTimerInv == ASSUME IInv, FirstTimer PROVE IInv'
<1>1. TypeOK'
  BY DEF IInv, TypeOK, FirstTimer
<1>2. \A c \in Connections : IdleOf(c)'
  BY DEF IInv, FirstTimer, IdleOf, Referenced
<1>. QED BY <1>1, <1>2 DEF IInv

LEMMA RunInv ==
  ASSUME IInv, NEW t \in Timers, NEW d \in Delays, NEW every \in BOOLEAN, Run(t, d, every)
  PROVE  IInv'
<1>. DEFINE reqs == {[e |-> t, delay |-> d]}
<1>1. d \in Nat \ {0} /\ TypeOK /\ WheelType(wheels)
  BY TimingWheelAssumption DEF IInv, TypeOK
<1>2. reqs \subseteq Request
  BY <1>1 DEF Request, Entries
<1>3. wheels' = Insert(wheels, reqs) /\ conn' = conn /\ tick' = tick
  BY DEF Run
<1>4. \A q \in reqs : q.e = t
  OBVIOUS
<1>5. TypeOK'
  <2>1. WheelType(wheels')
    BY <1>1, <1>2, <1>3, InsertLemma
  <2>2. (d < Limit["day"]) \in BOOLEAN
    OBVIOUS
  <2>3. timer' \in [Timers -> [on : BOOLEAN, delay : Nat \ {0}, every : BOOLEAN, at : Nat, since : Nat]]
    <3>1. timer' = [timer EXCEPT ![t] = [on |-> d < Limit["day"], delay |-> d, every |-> every,
                                         at |-> tick, since |-> now]]
      BY DEF Run
    <3>2. tick \in Nat /\ now \in Nat
      BY <1>1 DEF TypeOK
    <3>3. [on |-> d < Limit["day"], delay |-> d, every |-> every, at |-> tick, since |-> now]
            \in [on : BOOLEAN, delay : Nat \ {0}, every : BOOLEAN, at : Nat, since : Nat]
      BY <1>1, <2>2, <3>2, Zenon
    <3>. QED BY <1>1, <3>1, <3>3 DEF TypeOK
  <2>. QED BY <1>1, <1>3, <2>1, <2>3 DEF Run, TypeOK
<1>. HIDE DEF reqs
<1>6. ASSUME NEW c \in Connections PROVE IdleOf(c)'
  <2>1. c # t
    BY TimingWheelAssumption
  <2>2. \A l \in Levels : \A i \in Slot(l) :
          /\ wheels[l][i] \subseteq wheels'[l][i]
          /\ \A r \in wheels'[l][i] : r \in wheels[l][i] \/ \E q \in reqs : r.e = q.e
    BY <1>1, <1>2, <1>3, InsertLemma
  <2>3. \A l \in Levels : \A i \in Slot(l) :
          /\ wheels[l][i] \subseteq wheels'[l][i]
          /\ \A r \in wheels'[l][i] : r.e = c => r \in wheels[l][i]
    BY <1>4, <2>1, <2>2
  <2>4. IdleOf(c)
    BY DEF IInv
  <2>. QED BY <1>3, <2>3, <2>4, OthersLemma
<1>. QED BY <1>5, <1>6 DEF IInv

(* EnableCheckIdleTimeout and ExtendLife: one connection is active *)
LEMMA ActiveInv ==
  ASSUME IInv, NEW c \in Connections, EnableCheckIdleTimeout(c) \/ ExtendLife(c)
  PROVE  IInv'
<1>. DEFINE req == [e |-> c, delay |-> IdleTime]
<1>1. TypeOK /\ WheelType(wheels) /\ \A x \in Connections : IdleOf(x)
  BY DEF IInv, TypeOK
<1>2. /\ wheels' = Insert(wheels, {req}) /\ tick' = tick
      /\ UNCHANGED <<now, lastTs, timer, corrupt>>
  BY DEF EnableCheckIdleTimeout, ExtendLife
<1>3. WheelType(wheels')
  BY <1>1, <1>2, InsertIdleLemma
<1>4. /\ conn' \in [Connections -> [used : BOOLEAN, open : BOOLEAN, active : Nat]]
      /\ conn'[c].active = tick /\ conn'[c].open = TRUE /\ conn'[c].used = TRUE
      /\ \A x \in Connections : x # c => conn'[x] = conn[x]
  <2>1. tick \in Nat /\ conn \in [Connections -> [used : BOOLEAN, open : BOOLEAN, active : Nat]]
    BY <1>1 DEF TypeOK
  <2>2. CASE EnableCheckIdleTimeout(c)
    BY <2>1, <2>2 DEF EnableCheckIdleTimeout
  <2>3. CASE ExtendLife(c)
    <3>1. conn' = [conn EXCEPT ![c].active = tick] /\ conn[c].open
      BY <2>3 DEF ExtendLife
    <3>2. conn[c].used
      BY <1>1, <3>1 DEF IdleOf
    <3>3. conn[c].used = TRUE /\ conn[c].open = TRUE
      BY <2>1, <3>1, <3>2
    <3>. QED BY <2>1, <3>1, <3>3
  <2>. QED BY <2>2, <2>3
<1>5. TypeOK'
  BY <1>1, <1>2, <1>3, <1>4 DEF TypeOK
<1>6. IdleOf(c)'
  <2>1. OnlySecond(wheels, c)
    BY <1>1 DEF OnlySecond, IdleOf, Referenced
  <2>. QED BY <1>1, <1>2, <1>4, <2>1, ActivityLemma
<1>7. ASSUME NEW x \in Connections, x # c PROVE IdleOf(x)'
  <2>1. \A l \in Levels : \A i \in Slot(l) :
          /\ wheels[l][i] \subseteq wheels'[l][i]
          /\ \A r \in wheels'[l][i] : r \in wheels[l][i] \/ r.e = c
    BY <1>1, <1>2, InsertIdleLemma
  <2>2. \A l \in Levels : \A i \in Slot(l) :
          /\ wheels[l][i] \subseteq wheels'[l][i]
          /\ \A r \in wheels'[l][i] : r.e = x => r \in wheels[l][i]
    BY <1>7, <2>1
  <2>. QED BY <1>1, <1>2, <1>4, <1>7, <2>2, OthersLemma
<1>. QED BY <1>5, <1>6, <1>7 DEF IInv

(* What onTimer leaves of a connection *)
LEMMA OnTimerIdle ==
  ASSUME IInv, OnTimer, NEW c \in Connections
  PROVE  /\ conn'[c].used = conn[c].used /\ conn'[c].active = conn[c].active
         /\ conn'[c].open \in BOOLEAN
         /\ IdleOf(c)'
<1>. DEFINE T == Turned(wheels, tick + 1)
<1>1. TypeOK /\ IdleOf(c)
  BY DEF IInv
<1>2. tick \in Nat /\ IdleTime \in Nat /\ conn[c] \in [used : BOOLEAN, open : BOOLEAN, active : Nat]
  BY <1>1, LevelFacts DEF TypeOK
<1>3. /\ conn'[c].used = conn[c].used /\ conn'[c].active = conn[c].active
      /\ conn'[c].open = (conn[c].open /\ Held(T, c))
  BY <1>2 DEF OnTimer
<1>4. tick' = tick + 1 /\ wheels' = T
  BY DEF OnTimer
<1>5. Forward(wheels, T, c)
  BY <1>1, TurnedLemma DEF OnlySecond, IdleOf, Referenced
<1>. HIDE DEF T
<1>6. ASSUME NEW l \in Levels, NEW i \in Slot(l), NEW r \in T[l][i], r.e = c
      PROVE  /\ l = "second" /\ i \in Nat
             /\ tick + 1 + i + 1 <= conn[c].active + IdleTime
  <2>1. l = "second" /\ i + 1 \in Slot("second") /\ r \in wheels["second"][i + 1]
    BY <1>5, <1>6 DEF Forward
  <2>2. "second" \in Levels /\ i \in Nat
    BY <2>1, LevelFacts DEF Slot, Levels
  <2>3. tick + (i + 1) + 1 <= conn[c].active + IdleTime
    BY <1>1, <1>6, <2>1, <2>2 DEF IdleOf, Referenced
  <2>. QED BY <1>2, <2>1, <2>2, <2>3
<1>7. Held(T, c) => tick + 1 < conn[c].active + IdleTime
  BY <1>2, <1>6 DEF Held
<1>. DEFINE last == conn[c].active + IdleTime - tick - 1
<1>8. ASSUME conn[c].open, tick + 1 < conn[c].active + IdleTime
      PROVE  last - 1 \in Slot("second") /\ \E r \in T["second"][last - 1] : r.e = c
  <2>1. last \in Slot("second") /\ \E r \in wheels["second"][last] : r.e = c
    BY <1>1, <1>8 DEF IdleOf, Referenced
  <2>2. last \in Int /\ last >= 1
    BY <1>2, <1>8
  <2>. HIDE DEF last
  <2>3. last - 1 \in Slot("second") /\ (last - 1) + 1 = last
    BY <2>1, <2>2, LevelFacts DEF Slot
  <2>4. wheels["second"][last] \subseteq T["second"][last - 1]
    BY <1>5, <2>1, <2>3 DEF Forward
  <2>. QED BY <2>1, <2>3, <2>4
<1>9. conn[c].open => (Held(T, c) <=> tick + 1 < conn[c].active + IdleTime)
  BY <1>7, <1>8 DEF Held, Levels
<1>10. conn'[c].open <=> conn'[c].used /\ tick' < conn'[c].active + IdleTime
  <2>1. conn[c].open <=> conn[c].used /\ tick < conn[c].active + IdleTime
    BY <1>1 DEF IdleOf
  <2>2. tick + 1 < conn[c].active + IdleTime => tick < conn[c].active + IdleTime
    BY <1>2
  <2>3. conn'[c].open <=> conn[c].open /\ Held(T, c)
    BY <1>3
  <2>4. conn'[c].open <=> conn[c].used /\ tick + 1 < conn[c].active + IdleTime
    BY <1>9, <2>1, <2>2, <2>3, Zenon
  <2>. QED BY <1>3, <1>4, <2>4
<1>11. conn'[c].active + IdleTime - tick' - 1 = last - 1
  BY <1>2, <1>3, <1>4
<1>12. Referenced(c)'
  <2>1. \A l \in Levels : \A i \in Slot(l) : \A r \in T[l][i] :
          r.e = c => l = "second" /\ tick' + i + 1 <= conn'[c].active + IdleTime
    BY <1>3, <1>4, <1>6
  <2>2. conn'[c].open => last - 1 \in Slot("second") /\ \E r \in T["second"][last - 1] : r.e = c
    BY <1>3, <1>7, <1>8
  <2>. QED BY <1>4, <1>11, <2>1, <2>2 DEF Referenced
<1>13. conn'[c].active <= tick'
  BY <1>1, <1>2, <1>3, <1>4 DEF IdleOf
<1>14. conn'[c].open \in BOOLEAN
  BY <1>3
<1>. QED BY <1>3, <1>10, <1>12, <1>13, <1>14 DEF IdleOf

LEMMA OnTimerInv == ASSUME IInv, OnTimer PROVE IInv'
<1>1. TypeOK
  BY DEF IInv
<1>2. \A c \in Connections : IdleOf(c)'
  BY OnTimerIdle
<1>3. WheelType(wheels')
  BY <1>1, TurnedLemma DEF OnTimer
<1>4. now' \in Nat /\ lastTs' \in Nat /\ tick' \in Nat
  <2>1. now' = now /\ lastTs' = now /\ tick' = tick + 1
    BY DEF OnTimer, NextTs
  <2>. QED BY <1>1, <2>1 DEF TypeOK
<1>5. corrupt' \in BOOLEAN
  BY DEF OnTimer, Misplaced
<1>6. conn' \in [Connections -> [used : BOOLEAN, open : BOOLEAN, active : Nat]]
  <2>1. \A c \in Connections :
          [conn[c] EXCEPT !.open = @ /\ Held(Turned(wheels, tick + 1), c)]
            \in [used : BOOLEAN, open : BOOLEAN, active : Nat]
    <3>. SUFFICES ASSUME NEW c \in Connections, NEW b \in BOOLEAN
                  PROVE  [conn[c] EXCEPT !.open = b] \in [used : BOOLEAN, open : BOOLEAN, active : Nat]
      BY DEF Held
    <3>. QED BY <1>1 DEF TypeOK
  <2>. QED BY <2>1 DEF OnTimer
<1>7. timer' \in [Timers -> [on : BOOLEAN, delay : Nat \ {0}, every : BOOLEAN, at : Nat, since : Nat]]
  <2>. DEFINE after(t) ==
         IF ~Fires(t) THEN timer[t]
         ELSE IF timer[t].every THEN [timer[t] EXCEPT !.at = tick + 1, !.since = now]
         ELSE [timer[t] EXCEPT !.on = FALSE]
  <2>1. tick + 1 \in Nat /\ now \in Nat
    BY <1>1 DEF TypeOK
  <2>2. ASSUME NEW t \in Timers
        PROVE  after(t) \in [on : BOOLEAN, delay : Nat \ {0}, every : BOOLEAN, at : Nat, since : Nat]
    <3>1. timer[t] \in [on : BOOLEAN, delay : Nat \ {0}, every : BOOLEAN, at : Nat, since : Nat]
      BY <1>1 DEF TypeOK
    <3>. QED BY <2>1, <3>1
  <2>3. timer' = [t \in Timers |-> after(t)]
    BY DEF OnTimer
  <2>. QED BY <2>2, <2>3
<1>8. TypeOK'
  BY <1>3, <1>4, <1>5, <1>6, <1>7 DEF TypeOK
<1>. QED BY <1>2, <1>8 DEF IInv

LEMMA NextInv == IInv /\ [Next]_vars => IInv'
<1>. SUFFICES ASSUME IInv, [Next]_vars PROVE IInv'
  OBVIOUS
<1>1. ASSUME NEW d \in Steps, Wait(d) PROVE IInv'
  BY <1>1, WaitInv
<1>2. ASSUME NEW t \in Timers, NEW d \in Delays, NEW every \in BOOLEAN, Run(t, d, every) PROVE IInv'
  BY <1>2, RunInv
<1>3. ASSUME NEW c \in Connections, EnableCheckIdleTimeout(c) \/ ExtendLife(c) PROVE IInv'
  BY <1>3, ActiveInv
<1>4. CASE OnTimer
  BY <1>4, OnTimerInv
<1>5. CASE FirstTimer
  BY <1>5, FirstTimerInv
<1>6. CASE UNCHANGED vars
  <2>1. UNCHANGED <<now, lastTs, tick, wheels, timer, conn, corrupt>>
    BY <1>6 DEF vars
  <2>2. TypeOK'
    BY <2>1 DEF IInv, TypeOK
  <2>3. \A c \in Connections : IdleOf(c)'
    BY <2>1 DEF IInv, IdleOf, Referenced
  <2>. QED BY <2>2, <2>3 DEF IInv
<1>. QED BY <1>1, <1>2, <1>3, <1>4, <1>5, <1>6 DEF Next

(* The references to an open connection are in the second wheel, the last   *)
(* where onTimer reaches it IdleTime after the last extendLife, and every  *)
(* slot holds what insertEntry may put there.                              *)
THEOREM WheelInvariant == Spec => []IInv
<1>1. Init => IInv
  BY InitInv
<1>2. IInv /\ [Next]_vars => IInv'
  BY NextInv
<1>. QED BY <1>1, <1>2, PTL DEF Spec

(* Every slot of every wheel holds entries with less left than the unit of *)
(* its wheel, whatever is asked of insertEntry and in whatever order.      *)
THEOREM WheelTypeTheorem == Spec => []TypeOK
<1>1. IInv => TypeOK
  BY DEF IInv
<1>. QED BY <1>1, WheelInvariant, PTL

(* A connection closes in the tick in which it has been idle for IdleTime, *)
(* neither before nor after, for every size of the wheels and every number *)
(* of references that extendLife leaves in them.                           *)
THEOREM IdleTheorem == Spec => []IdleExactly
<1>1. IInv => IdleExactly
  BY DEF IInv, IdleOf, IdleExactly
<1>. QED BY <1>1, WheelInvariant, PTL
-----------------------------------------------------------------------------
(* Timers.  Ticks in whole minutes: what is left of x is x % Minute.       *)
FullMinute(x) == x - (x % Minute)

LEMMA MinuteFacts ==
  ASSUME NEW x \in Nat
  PROVE  /\ x % Minute \in 0 .. Minute - 1
         /\ (x \div Minute) * Minute = FullMinute(x)
         /\ x \div Minute \in Nat /\ x % Minute \in Nat /\ FullMinute(x) \in Int
<1>1. Minute \in Nat \ {0}
  BY TimingWheelAssumption
<1>2. x = (Minute * (x \div Minute)) + (x % Minute) /\ x \div Minute \in Nat
  BY <1>1
<1>3. x % Minute \in 0 .. Minute - 1
  BY <1>1, ModType
<1>4. Minute * (x \div Minute) = (x \div Minute) * Minute
  BY <1>1, <1>2
<1>5. x % Minute \in Nat /\ FullMinute(x) \in Int
  BY <1>1, <1>3 DEF FullMinute
<1>. QED BY <1>1, <1>2, <1>3, <1>4, <1>5 DEF FullMinute

(* A number that is a multiple of Minute plus r has remainder r            *)
LEMMA Remainder ==
  ASSUME NEW x \in Nat, NEW q \in Int, NEW r \in 0 .. Minute - 1, x = (Minute * q) + r
  PROVE  x % Minute = r
<1>1. Minute \in Nat \ {0}
  BY TimingWheelAssumption
<1>2. PICK p \in Int : x = (Minute * p) + (x % Minute) /\ (x % Minute) \in 0 .. Minute - 1
  BY <1>1, DivMod
<1>. DEFINE a == Minute * p
            b == Minute * q
            s == x % Minute
<1>3. a \in Int /\ b \in Int /\ (p = q => a = b)
  BY <1>1
<1>4. /\ p < q => a + Minute <= b
      /\ q < p => b + Minute <= a
  BY <1>1, Gap
<1>5. a + s = b + r /\ s \in 0 .. Minute - 1
  BY <1>2
<1>. HIDE DEF a, b, s
<1>6. s = r
  BY <1>1, <1>3, <1>4, <1>5
<1>. QED BY <1>6 DEF s

(* The next tick is in the same minute, or it is a full minute             *)
LEMMA NextMinute ==
  ASSUME NEW x \in Nat
  PROVE  /\ (x + 1) % Minute # 0 => FullMinute(x + 1) = FullMinute(x)
         /\ (x + 1) % Minute = 0 => FullMinute(x + 1) = FullMinute(x) + Minute /\ FullMinute(x + 1) = x + 1
<1>1. Minute \in Nat \ {0} /\ Minute > 1
  BY TimingWheelAssumption
<1>2. PICK q \in Int : x = (Minute * q) + (x % Minute) /\ (x % Minute) \in 0 .. Minute - 1
  BY <1>1, DivMod
<1>3. CASE x % Minute < Minute - 1
  <2>1. x + 1 = (Minute * q) + ((x % Minute) + 1) /\ (x % Minute) + 1 \in 0 .. Minute - 1
    BY <1>1, <1>2, <1>3
  <2>2. (x + 1) % Minute = (x % Minute) + 1
    BY <1>2, <2>1, Remainder
  <2>. QED BY <1>2, <2>2 DEF FullMinute
<1>4. CASE x % Minute = Minute - 1
  <2>1. Minute * (q + 1) = (Minute * q) + Minute /\ q + 1 \in Int
    BY <1>1, <1>2
  <2>2. x + 1 = (Minute * (q + 1)) + 0 /\ 0 \in 0 .. Minute - 1
    BY <1>1, <1>2, <1>4, <2>1
  <2>3. (x + 1) % Minute = 0
    BY <1>2, <2>1, <2>2, Remainder
  <2>. QED BY <1>1, <1>4, <2>3 DEF FullMinute
<1>. QED BY <1>1, <1>2, <1>3, <1>4

(* A full minute and d more: what is left is what is left of d             *)
LEMMA AfterFull ==
  ASSUME NEW x \in Nat, NEW d \in Nat, NEW y \in Nat, y = FullMinute(x) + d
  PROVE  y % Minute = d % Minute
<1>1. Minute \in Nat \ {0}
  BY TimingWheelAssumption
<1>2. PICK p \in Int : x = (Minute * p) + (x % Minute) /\ (x % Minute) \in 0 .. Minute - 1
  BY <1>1, DivMod
<1>3. PICK q \in Int : d = (Minute * q) + (d % Minute) /\ (d % Minute) \in 0 .. Minute - 1
  BY <1>1, DivMod
<1>4. Minute * (p + q) = (Minute * p) + (Minute * q) /\ p + q \in Int
  BY <1>1, <1>2, <1>3
<1>5. FullMinute(x) = Minute * p
  BY <1>1, <1>2 DEF FullMinute
<1>6. y = (Minute * (p + q)) + (d % Minute)
  BY <1>1, <1>3, <1>4, <1>5
<1>. QED BY <1>3, <1>4, <1>6, Remainder

(* A multiple of an hour or a day is one of a minute: only the minute      *)
(* wheel is turned.                                                        *)
LEMMA OnlyMinutes ==
  ASSUME NEW x \in Nat
  PROVE  Higher(x) = IF x % Minute = 0 THEN {"minute"} ELSE {}
<1>1. Minute \in Nat \ {0} /\ PerHour \in Nat \ {0} /\ PerDay \in Nat \ {0}
  BY TimingWheelAssumption
<1>2. ASSUME NEW k \in Nat \ {0}, x % (Minute * k) = 0 PROVE x % Minute = 0
  <2>1. Minute * k \in Nat \ {0}
    BY <1>1
  <2>2. PICK q \in Int : x = ((Minute * k) * q) + (x % (Minute * k))
    BY <2>1, DivMod
  <2>3. x = ((Minute * k) * q) + 0
    BY <1>2, <2>2
  <2>4. (Minute * k) * q = Minute * (k * q) /\ k * q \in Int
    BY <1>1, <1>2, <2>2
  <2>5. 0 \in 0 .. Minute - 1
    BY <1>1
  <2>. QED BY <2>3, <2>4, <2>5, Remainder
<1>3. x % Hour = 0 => x % Minute = 0
  BY <1>1, <1>2 DEF Hour
<1>4. x % Day = 0 => x % Minute = 0
  <2>1. PerHour * PerDay \in Nat \ {0} /\ (Minute * PerHour) * PerDay = Minute * (PerHour * PerDay)
    BY <1>1
  <2>. QED BY <1>2, <2>1 DEF Hour, Day
<1>. QED BY <1>3, <1>4 DEF Higher
-----------------------------------------------------------------------------
(* A delay d goes to slot i of wheel l.                                    *)
Fits(l, i, d) == d >= Unit[l] /\ d < Limit[l] /\ d \div Unit[l] = i + 1

LEMMA InsertExactly ==
  ASSUME NEW w, NEW reqs, reqs \subseteq Request, NEW l \in Levels, NEW i \in Slot(l), NEW r
  PROVE  r \in Insert(w, reqs)[l][i] <=>
           \/ r \in w[l][i]
           \/ \E q \in reqs : Fits(l, i, q.delay) /\ r = [e |-> q.e, rest |-> q.delay % Unit[l]]
<1>1. \A q \in reqs : q.delay \in Int
  BY DEF Request
<1>2. Unit[l] \in Int /\ Limit[l] \in Int
  BY LevelFacts, TimingWheelAssumption DEF Limit, Levels, Hour, Day
<1>3. \A q \in reqs : q.delay \in Unit[l] .. Limit[l] - 1 <=> q.delay >= Unit[l] /\ q.delay < Limit[l]
  BY <1>1, <1>2
<1>4. Insert(w, reqs)[l][i] = w[l][i] \cup
        {[e |-> q.e, rest |-> q.delay % Unit[l]] :
           q \in {q \in reqs : q.delay \in Unit[l] .. Limit[l] - 1 /\ q.delay \div Unit[l] = i + 1}}
  BY DEF Insert
<1>. QED BY <1>3, <1>4 DEF Fits

LEMMA HourFacts ==
  /\ Minute \in Nat /\ Minute > 1 /\ PerHour \in Nat /\ PerHour > 1
  /\ Hour \in Nat /\ Hour >= Minute /\ Hour = Minute * PerHour
  /\ Slot("second") = 0 .. Minute - 1 /\ Slot("minute") = 0 .. PerHour - 1
  /\ Unit["second"] = 1 /\ Limit["second"] = Minute
  /\ Unit["minute"] = Minute /\ Limit["minute"] = Hour
  /\ Unit["hour"] = Hour /\ Day \in Nat /\ Unit["day"] = Day /\ Day >= Hour
  /\ \A l \in Levels : Limit[l] \in Nat /\ Limit[l] <= Limit["day"]
<1>1. /\ Minute \in Nat /\ Minute > 1 /\ PerHour \in Nat /\ PerHour > 1
      /\ PerDay \in Nat /\ PerDay > 1 /\ Days \in Nat /\ Days > 0
  BY TimingWheelAssumption
<1>2. \A a, b \in Nat : b > 1 => a * b \in Nat /\ a * b >= a
  OBVIOUS
<1>3. Hour \in Nat /\ Hour >= Minute
  BY <1>1, <1>2 DEF Hour
<1>4. Day \in Nat /\ Day >= Hour
  BY <1>1, <1>2, <1>3 DEF Day
<1>5. (Days + 1) * Day \in Nat /\ (Days + 1) * Day >= Day
  <2>1. \A a, b \in Nat : b > 0 => (b + 1) * a \in Nat /\ (b + 1) * a >= a
    OBVIOUS
  <2>. QED BY <1>1, <1>4, <2>1
<1>. QED BY <1>1, <1>3, <1>4, <1>5 DEF Levels, Unit, Slots, Slot, Limit, Hour

(* Where a delay of less than an hour goes                                 *)
LEMMA FitsSecond ==
  ASSUME NEW d \in Nat \ {0}, d < Minute
  PROVE  /\ d - 1 \in Slot("second") /\ Fits("second", d - 1, d)
         /\ \A l \in Levels : \A i \in Slot(l) : Fits(l, i, d) => l = "second" /\ i = d - 1
<1>1. d \div 1 = d
  OBVIOUS
<1>2. ASSUME NEW l \in Levels, NEW i \in Slot(l), Fits(l, i, d) PROVE l = "second" /\ i = d - 1
  <2>1. l = "second"
    BY <1>2, HourFacts, LevelFacts DEF Fits, Levels
  <2>2. i \in Int
    BY <2>1, HourFacts
  <2>. QED BY <1>1, <1>2, <2>1, <2>2, HourFacts DEF Fits
<1>. QED BY <1>1, <1>2, HourFacts DEF Fits

LEMMA FitsMinute ==
  ASSUME NEW d \in Nat, Minute <= d, d < Hour
  PROVE  /\ \E i \in Slot("minute") : Fits("minute", i, d)
         /\ \A l \in Levels : \A i \in Slot(l) : Fits(l, i, d) =>
              l = "minute" /\ ((i + 1) * Minute) + (d % Minute) = d
<1>1. d \div Minute \in Nat /\ (d \div Minute) * Minute = FullMinute(d) /\ d % Minute \in 0 .. Minute - 1
  BY MinuteFacts
<1>. DEFINE k == d \div Minute
<1>2. k * Minute = d - (d % Minute) /\ k \in Nat
  BY <1>1 DEF FullMinute
<1>3. k # 0
  <2>1. k = 0 => k * Minute = 0
    BY HourFacts
  <2>. QED BY <1>1, <1>2, <2>1, HourFacts
<1>4. k <= PerHour
  <2>1. PerHour < k => (Minute * PerHour) + Minute <= Minute * k
    BY <1>2, HourFacts, Gap
  <2>2. Minute * k = k * Minute
    BY <1>2, HourFacts
  <2>. QED BY <1>1, <1>2, <2>1, <2>2, HourFacts
<1>5. k - 1 \in Slot("minute") /\ Fits("minute", k - 1, d)
  BY <1>2, <1>3, <1>4, HourFacts DEF Fits
<1>6. ASSUME NEW l \in Levels, NEW i \in Slot(l), Fits(l, i, d)
      PROVE  l = "minute" /\ ((i + 1) * Minute) + (d % Minute) = d
  <2>1. l = "minute"
    BY <1>6, HourFacts DEF Fits, Levels
  <2>2. i + 1 = k
    BY <1>6, <2>1, HourFacts DEF Fits
  <2>3. (i + 1) * Minute = d - (d % Minute)
    BY <1>2, <2>2
  <2>4. d % Minute \in Int
    BY <1>1, HourFacts
  <2>. QED BY <2>1, <2>3, <2>4
<1>. QED BY <1>5, <1>6

LEMMA FitsHigher ==
  ASSUME NEW d \in Nat, Hour <= d, NEW l \in Levels, NEW i \in Slot(l), Fits(l, i, d)
  PROVE  l \in {"hour", "day"} /\ d < Limit["day"]
BY HourFacts DEF Fits, Levels
-----------------------------------------------------------------------------
(* The tick timer m is to fire at                                          *)
Due(m) == m.at + m.delay - (IF m.delay < Minute THEN 0 ELSE m.at % Minute)

(* Entry r of a timer of less than an hour, in slot i of wheel l after     *)
(* tick k, acts when the timer is due.  One that came down from the minute *)
(* wheel had something left: it cannot fire in a full minute, where its    *)
(* next entry would be moved on at once.                                   *)
Placed(l, i, r, k, m) ==
  \/ l = "second" /\ k + i + 1 = Due(m) /\ (m.delay >= Minute => m.delay % Minute # 0)
  \/ /\ l = "minute" /\ m.delay >= Minute /\ r.rest = m.delay % Minute
     /\ FullMinute(k) + ((i + 1) * Minute) + r.rest = Due(m)

(* Timer t with record m in wheels w after tick k: its entries are those   *)
(* of a timer that is on, and one that is on has an entry.                 *)
GoodTimer(t, m, w, k) ==
  /\ \A l \in Levels : \A i \in Slot(l) : \A r \in w[l][i] : r.e = t =>
       /\ m.on
       /\ m.delay < Hour => Placed(l, i, r, k, m)
       /\ m.delay >= Hour => l \in {"hour", "day"}
  /\ m.on /\ m.delay < Hour => \E l \in Levels : \E i \in Slot(l) : \E r \in w[l][i] : r.e = t

TimerRec == [on : BOOLEAN, delay : Nat \ {0}, every : BOOLEAN, at : Nat, since : Nat]

TimerInv == ~corrupt => \A t \in Timers : GoodTimer(t, timer[t], wheels, tick)

LEMMA SameEntries ==
  ASSUME NEW t, NEW m, NEW k, NEW w, NEW v, GoodTimer(t, m, w, k),
         \A l \in Levels : \A i \in Slot(l) : \A r : r.e = t => (r \in v[l][i] <=> r \in w[l][i])
  PROVE  GoodTimer(t, m, v, k)
BY DEF GoodTimer

(* A timer with no entry that is started, or starts again.  In a full      *)
(* minute the minute wheel is turned next.                                 *)
LEMMA Started ==
  ASSUME NEW t, NEW m \in TimerRec, NEW w, NEW v, NEW k \in Nat, m.at = k,
         m.on <=> m.delay < Limit["day"],
         \A l \in Levels : \A i \in Slot(l) : \A r : r.e = t =>
           (r \in v[l][i] <=> Fits(l, i, m.delay) /\ r = [e |-> t, rest |-> m.delay % Unit[l]])
  PROVE  GoodTimer(t, m, v, k)
<1>1. m.delay \in Nat \ {0}
  BY DEF TimerRec
<1>2. ASSUME NEW l \in Levels, NEW i \in Slot(l), NEW r \in v[l][i], r.e = t
      PROVE  Fits(l, i, m.delay) /\ r.rest = m.delay % Unit[l]
  BY <1>2
<1>3. ASSUME NEW l \in Levels, NEW i \in Slot(l), Fits(l, i, m.delay)
      PROVE  \E r \in v[l][i] : r.e = t
  <2>1. PICK r : r = [e |-> t, rest |-> m.delay % Unit[l]]
    OBVIOUS
  <2>2. r.e = t
    BY <2>1
  <2>. QED BY <1>3, <2>1, <2>2
<1>4. k % Minute \in 0 .. Minute - 1
  BY MinuteFacts
<1>5. CASE m.delay < Minute
  <2>1. /\ m.delay - 1 \in Slot("second") /\ Fits("second", m.delay - 1, m.delay)
        /\ \A l \in Levels : \A i \in Slot(l) : Fits(l, i, m.delay) => l = "second" /\ i = m.delay - 1
    BY <1>1, <1>5, FitsSecond
  <2>2. m.on /\ m.delay < Hour
    BY <1>1, <1>5, HourFacts DEF Levels
  <2>3. Due(m) = k + m.delay
    BY <1>1, <1>5 DEF Due
  <2>4. ASSUME NEW l \in Levels, NEW i \in Slot(l), NEW r \in v[l][i], r.e = t
        PROVE  Placed(l, i, r, k, m)
    <3>1. l = "second" /\ i = m.delay - 1
      BY <1>2, <2>1, <2>4
    <3>. QED BY SMTT(20), <1>1, <1>5, <2>3, <3>1, HourFacts DEF Placed
  <2>5. "second" \in Levels
    BY DEF Levels
  <2>. QED BY <1>1, <1>3, <2>1, <2>2, <2>4, <2>5, HourFacts DEF GoodTimer
<1>6. CASE Minute <= m.delay /\ m.delay < Hour
  <2>1. /\ \E i \in Slot("minute") : Fits("minute", i, m.delay)
        /\ \A l \in Levels : \A i \in Slot(l) : Fits(l, i, m.delay) =>
              l = "minute" /\ ((i + 1) * Minute) + (m.delay % Minute) = m.delay
    BY <1>1, <1>6, FitsMinute
  <2>2. m.on
    BY <1>1, <1>6, HourFacts DEF Levels
  <2>3. Due(m) = FullMinute(k) + m.delay
    BY SMTT(20), <1>1, <1>4, <1>6, HourFacts DEF Due, FullMinute
  <2>4. ASSUME NEW l \in Levels, NEW i \in Slot(l), NEW r \in v[l][i], r.e = t
        PROVE  Placed(l, i, r, k, m)
    <3>1. l = "minute" /\ r.rest = m.delay % Minute /\ ((i + 1) * Minute) + r.rest = m.delay
      BY <1>2, <2>1, <2>4, HourFacts
    <3>2. (i + 1) * Minute \in Int /\ FullMinute(k) \in Int /\ r.rest \in Int
      <4>1. i \in Int
        BY <3>1, HourFacts
      <4>2. m.delay % Minute \in Int
        BY <1>1, MinuteFacts, HourFacts
      <4>3. FullMinute(k) \in Int
        BY <1>4, HourFacts DEF FullMinute
      <4>4. (i + 1) * Minute \in Int
        BY <4>1, HourFacts
      <4>. QED BY <3>1, <4>2, <4>3, <4>4
    <3>. QED BY <1>6, <2>3, <3>1, <3>2 DEF Placed
  <2>5. "minute" \in Levels
    BY DEF Levels
  <2>6. \E l \in Levels : \E i \in Slot(l) : \E r \in v[l][i] : r.e = t
    BY <1>3, <2>1, <2>5
  <2>7. ~(m.delay >= Hour)
    BY <1>1, <1>6, HourFacts
  <2>. QED BY <2>2, <2>4, <2>6, <2>7 DEF GoodTimer
<1>7. CASE Hour <= m.delay
  <2>1. ASSUME NEW l \in Levels, NEW i \in Slot(l), NEW r \in v[l][i], r.e = t
        PROVE  m.on /\ l \in {"hour", "day"}
    BY <1>1, <1>2, <1>7, <2>1, FitsHigher
  <2>. QED BY <1>1, <1>7, <2>1, HourFacts DEF GoodTimer
<1>. QED BY <1>1, <1>5, <1>6, <1>7, HourFacts
-----------------------------------------------------------------------------
(* The entries of a timer after the seconds are turned ...                 *)
LEMMA AfterSecondExactly ==
  ASSUME TypeOK, NEW t \in Timers, NEW l \in Levels, NEW i \in Slot(l), NEW r, r.e = t
  PROVE  r \in AfterSecond(wheels)[l][i] <=>
           \/ l = "second" /\ i + 1 \in Slot("second") /\ r \in wheels["second"][i + 1]
           \/ l # "second" /\ r \in wheels[l][i]
           \/ /\ Fires(t) /\ timer[t].every /\ Fits(l, i, timer[t].delay)
              /\ r = [e |-> t, rest |-> timer[t].delay % Unit[l]]
<1>1. PICK P, reqs : P = PopUp(wheels, "second") /\ reqs = Repeats(wheels)
  OBVIOUS
<1>2. "second" \in Levels /\ WheelType(wheels) /\ AfterSecond(wheels) = Insert(P, reqs)
  BY <1>1 DEF Levels, TypeOK, AfterSecond
<1>3. P[l][i] = IF l # "second" THEN wheels[l][i]
                ELSE IF i + 1 \in Slot(l) THEN wheels[l][i + 1] ELSE {}
  BY <1>1, <1>2, PopUpLemma
<1>4. reqs = {[e |-> x.e, delay |-> timer[x.e].delay] :
                x \in {q \in wheels["second"][0] : q.e \in Timers /\ timer[q.e].every}}
  BY <1>1 DEF Repeats
<1>5. ASSUME NEW q \in reqs PROVE q \in Request /\ Fires(q.e) /\ q.e \in Timers /\ timer[q.e].every
                                  /\ q.delay = timer[q.e].delay
  <2>1. PICK x \in wheels["second"][0] : /\ x.e \in Timers /\ timer[x.e].every
                                         /\ q = [e |-> x.e, delay |-> timer[x.e].delay]
    BY <1>4
  <2>2. q.e = x.e /\ q.delay = timer[x.e].delay
    BY <2>1
  <2>3. timer[x.e].delay \in Nat
    BY <2>1 DEF TypeOK
  <2>. QED BY <2>1, <2>2, <2>3 DEF Request, Entries, Fires
<1>6. Fires(t) /\ timer[t].every =>
        \E q \in reqs : q.e = t /\ q.delay = timer[t].delay
  <2>1. ASSUME NEW x \in wheels["second"][0], x.e = t, timer[t].every
        PROVE  [e |-> x.e, delay |-> timer[x.e].delay] \in reqs
    BY <1>4, <2>1
  <2>. QED BY <2>1 DEF Fires
<1>7. r \in Insert(P, reqs)[l][i] <=>
        \/ r \in P[l][i]
        \/ \E q \in reqs : Fits(l, i, q.delay) /\ r = [e |-> q.e, rest |-> q.delay % Unit[l]]
  <2>1. reqs \subseteq Request
    BY <1>5
  <2>. QED BY <2>1, InsertExactly
<1>8. r \in P[l][i] <=> \/ l = "second" /\ i + 1 \in Slot("second") /\ r \in wheels["second"][i + 1]
                        \/ l # "second" /\ r \in wheels[l][i]
  BY <1>3
<1>9. (\E q \in reqs : Fits(l, i, q.delay) /\ r = [e |-> q.e, rest |-> q.delay % Unit[l]])
        <=> /\ Fires(t) /\ timer[t].every /\ Fits(l, i, timer[t].delay)
            /\ r = [e |-> t, rest |-> timer[t].delay % Unit[l]]
  <2>1. ASSUME NEW q \in reqs, r = [e |-> q.e, rest |-> q.delay % Unit[l]] PROVE q.e = t
    BY <2>1
  <2>. QED BY <1>5, <1>6, <2>1
<1>. QED BY <1>2, <1>7, <1>8, <1>9

(* ... and after the minutes                                               *)
LEMMA TurnedExactly ==
  ASSUME TypeOK
  PROVE  /\ (tick + 1) % Minute # 0 => Turned(wheels, tick + 1) = AfterSecond(wheels)
         /\ (tick + 1) % Minute = 0 =>
              \A l \in Levels : \A i \in Slot(l) : \A r :
                r \in Turned(wheels, tick + 1)[l][i] <=>
                  \/ l = "minute" /\ i + 1 \in Slot("minute") /\ r \in AfterSecond(wheels)["minute"][i + 1]
                  \/ l # "minute" /\ r \in AfterSecond(wheels)[l][i]
                  \/ \E q \in AfterSecond(wheels)["minute"][0] :
                       Fits(l, i, q.rest) /\ r = [e |-> q.e, rest |-> q.rest % Unit[l]]
<1>1. PICK A : A = AfterSecond(wheels)
  OBVIOUS
<1>2. WheelType(A) /\ tick + 1 \in Nat
  BY <1>1, AfterSecondLemma DEF TypeOK
<1>3. CASE (tick + 1) % Minute # 0
  BY <1>2, <1>3, OnlyMinutes DEF Turned
<1>4. CASE (tick + 1) % Minute = 0
  <2>1. Higher(tick + 1) = {"minute"}
    BY <1>2, <1>4, OnlyMinutes
  <2>2. PICK P, reqs : P = PopUp(A, "minute") /\ reqs = Migrates(A, "minute")
    OBVIOUS
  <2>3. Turned(wheels, tick + 1) = Insert(P, reqs)
    BY <1>1, <2>1, <2>2 DEF Turned
  <2>4. "minute" \in Levels /\ 0 \in Slot("minute")
    BY HourFacts DEF Levels
  <2>5. reqs = {[e |-> q.e, delay |-> q.rest] : q \in A["minute"][0]}
    BY <2>2 DEF Migrates
  <2>6. reqs \subseteq Request
    <3>1. A["minute"][0] \subseteq [e : Entries, rest : 0 .. Unit["minute"] - 1]
      BY <1>2, <2>4 DEF WheelType
    <3>2. \A q \in A["minute"][0] : q.e \in Entries /\ q.rest \in Nat
      BY <3>1, HourFacts
    <3>. QED BY <2>5, <3>2 DEF Request
  <2>7. ASSUME NEW l \in Levels, NEW i \in Slot(l), NEW r
        PROVE  r \in Insert(P, reqs)[l][i] <=>
                 \/ l = "minute" /\ i + 1 \in Slot("minute") /\ r \in A["minute"][i + 1]
                 \/ l # "minute" /\ r \in A[l][i]
                 \/ \E q \in A["minute"][0] :
                      Fits(l, i, q.rest) /\ r = [e |-> q.e, rest |-> q.rest % Unit[l]]
    <3>1. r \in Insert(P, reqs)[l][i] <=>
            \/ r \in P[l][i]
            \/ \E q \in reqs : Fits(l, i, q.delay) /\ r = [e |-> q.e, rest |-> q.delay % Unit[l]]
      BY <2>6, InsertExactly
    <3>2. P[l][i] = IF l # "minute" THEN A[l][i]
                    ELSE IF i + 1 \in Slot(l) THEN A[l][i + 1] ELSE {}
      BY <1>2, <2>2, <2>4, PopUpLemma
    <3>3. (\E q \in reqs : Fits(l, i, q.delay) /\ r = [e |-> q.e, rest |-> q.delay % Unit[l]])
            <=> \E q \in A["minute"][0] :
                  Fits(l, i, q.rest) /\ r = [e |-> q.e, rest |-> q.rest % Unit[l]]
      <4>1. ASSUME NEW x \in reqs PROVE \E q \in A["minute"][0] : x.e = q.e /\ x.delay = q.rest
        BY <2>5
      <4>2. ASSUME NEW q \in A["minute"][0] PROVE \E x \in reqs : x.e = q.e /\ x.delay = q.rest
        <5>1. [e |-> q.e, delay |-> q.rest] \in reqs
          BY <2>5
        <5>. QED BY <5>1
      <4>. QED BY <4>1, <4>2
    <3>. QED BY <3>1, <3>2, <3>3
  <2>. QED BY <1>1, <1>4, <2>3, <2>7
<1>. QED BY <1>3, <1>4
-----------------------------------------------------------------------------
(* A timer fires in the tick it is due, from the only entry it has, and if *)
(* its delay is a minute or more, not in a full minute.                    *)
LEMMA FiresAlone ==
  ASSUME TypeOK, NEW t \in Timers, GoodTimer(t, timer[t], wheels, tick), Fires(t)
  PROVE  /\ timer[t].on /\ timer[t].delay < Hour
         /\ timer[t].delay >= Minute => (tick + 1) % Minute # 0
         /\ \A l \in Levels : \A i \in Slot(l) : \A r \in wheels[l][i] :
              r.e = t => l = "second" /\ i = 0
<1>1. PICK m : m = timer[t]
  OBVIOUS
<1>2. m \in TimerRec /\ tick \in Nat /\ m.delay \in Nat \ {0} /\ m.at \in Nat
  BY <1>1 DEF TypeOK, TimerRec
<1>3. "second" \in Levels /\ 0 \in Slot("second")
  BY HourFacts DEF Levels
<1>4. PICK f \in wheels["second"][0] : f.e = t
  BY DEF Fires
<1>5. m.on /\ m.delay < Hour /\ Placed("second", 0, f, tick, m)
  BY <1>1, <1>2, <1>3, <1>4, HourFacts DEF GoodTimer
<1>6. tick + 1 = Due(m) /\ (m.delay >= Minute => m.delay % Minute # 0)
  BY <1>2, <1>5 DEF Placed
<1>7. ASSUME m.delay >= Minute PROVE (tick + 1) % Minute # 0
  <2>1. m.at % Minute \in 0 .. Minute - 1
    BY <1>2, MinuteFacts
  <2>2. tick + 1 = FullMinute(m.at) + m.delay
    BY SMTT(20), <1>2, <1>6, <1>7, <2>1, HourFacts DEF Due, FullMinute
  <2>3. (tick + 1) % Minute = m.delay % Minute
    BY <1>2, <2>2, AfterFull
  <2>. QED BY <1>6, <1>7, <2>3
<1>8. ASSUME NEW l \in Levels, NEW i \in Slot(l), NEW r \in wheels[l][i], r.e = t
      PROVE  l = "second" /\ i = 0
  <2>1. Placed(l, i, r, tick, m)
    BY <1>1, <1>5, <1>8 DEF GoodTimer
  <2>2. CASE l = "second"
    <3>1. i \in Int
      BY <2>2, HourFacts
    <3>2. tick + i + 1 = tick + 1
      BY <1>6, <2>1, <2>2 DEF Placed
    <3>. QED BY <1>2, <2>2, <3>1, <3>2
  <2>3. CASE l = "minute"
    <3>1. /\ m.delay >= Minute /\ r.rest = m.delay % Minute
          /\ FullMinute(tick) + ((i + 1) * Minute) + r.rest = tick + 1
      BY <1>6, <2>1, <2>3 DEF Placed
    <3>2. i \in Nat
      BY <2>3, HourFacts
    <3>3. (i + 1) * Minute = (i * Minute) + Minute /\ i * Minute \in Nat
      BY <3>2, HourFacts
    <3>4. r.rest \in 0 .. Minute - 1 /\ r.rest # 0
      BY <1>2, <1>6, <3>1, MinuteFacts
    <3>5. tick % Minute \in 0 .. Minute - 1 /\ FullMinute(tick) = tick - (tick % Minute)
      BY <1>2, MinuteFacts DEF FullMinute
    <3>6. PICK a \in Nat : a = i * Minute
      BY <3>3
    <3>7. PICK b \in 0 .. Minute - 1 : b = tick % Minute
      BY <3>5
    <3>8. PICK c \in 0 .. Minute - 1 : c = r.rest
      BY <3>4
    <3>9. tick - b + (a + Minute) + c = tick + 1
      BY <3>1, <3>3, <3>5, <3>6, <3>7, <3>8
    <3>10. c >= 1 /\ Minute - b >= 1
      BY <3>4, <3>7, <3>8, HourFacts
    <3>11. Minute \in Nat /\ tick \in Nat
      BY <1>2, HourFacts
    <3>12. a \in Nat /\ b \in Nat /\ c \in Nat
      BY <3>6, <3>7, <3>8, <3>11
    <3>. QED BY <3>9, <3>10, <3>11, <3>12
  <2>. QED BY <2>1, <2>2, <2>3 DEF Placed
<1>. QED BY <1>1, <1>5, <1>7, <1>8

(* One that fires goes, or starts again                                    *)
LEMMA FiredTimer ==
  ASSUME TypeOK, NEW t \in Timers, GoodTimer(t, timer[t], wheels, tick), Fires(t),
         NEW m \in TimerRec,
         timer[t].every => m.at = tick + 1 /\ m.on = TRUE /\ m.delay = timer[t].delay,
         ~timer[t].every => m.on = FALSE
  PROVE  GoodTimer(t, m, Turned(wheels, tick + 1), tick + 1)
<1>1. PICK A, T : A = AfterSecond(wheels) /\ T = Turned(wheels, tick + 1)
  OBVIOUS
<1>2. PICK d : d = timer[t].delay
  OBVIOUS
<1>3. tick + 1 \in Nat /\ d \in Nat \ {0}
  BY <1>2 DEF TypeOK
<1>4. /\ d < Hour /\ (d >= Minute => (tick + 1) % Minute # 0)
      /\ \A l \in Levels : \A i \in Slot(l) : \A r \in wheels[l][i] : r.e = t => l = "second" /\ i = 0
  BY <1>2, FiresAlone
<1>5. ASSUME NEW l \in Levels, NEW i \in Slot(l), NEW r, r.e = t
      PROVE  r \in A[l][i] <=> timer[t].every /\ Fits(l, i, d) /\ r = [e |-> t, rest |-> d % Unit[l]]
  <2>1. "second" \in Levels
    BY DEF Levels
  <2>2. ~(l = "second" /\ i + 1 \in Slot("second") /\ r \in wheels["second"][i + 1])
    <3>1. l = "second" => i \in Nat /\ i + 1 # 0
      BY HourFacts
    <3>. QED BY <1>4, <1>5, <2>1, <3>1
  <2>3. ~(l # "second" /\ r \in wheels[l][i])
    BY <1>4, <1>5
  <2>. QED BY <1>1, <1>2, <1>5, <2>2, <2>3, AfterSecondExactly
<1>6. ASSUME NEW l \in Levels, NEW i \in Slot(l), NEW r, r.e = t
      PROVE  r \in T[l][i] <=> r \in A[l][i]
  <2>1. CASE (tick + 1) % Minute # 0
    BY <1>1, <2>1, TurnedExactly
  <2>2. CASE (tick + 1) % Minute = 0
    <3>1. d < Minute
      BY <1>3, <1>4, <2>2, HourFacts
    <3>2. "minute" \in Levels /\ 0 \in Slot("minute")
      BY HourFacts DEF Levels
    <3>3. ASSUME NEW j \in Slot("minute"), NEW q \in A["minute"][j] PROVE q.e # t
      BY <1>3, <1>5, <3>1, <3>2, <3>3, FitsSecond
    <3>4. ~(\E q \in A["minute"][0] : Fits(l, i, q.rest) /\ r = [e |-> q.e, rest |-> q.rest % Unit[l]])
      BY <1>6, <3>2, <3>3
    <3>5. r \in T[l][i] <=>
            \/ l = "minute" /\ i + 1 \in Slot("minute") /\ r \in A["minute"][i + 1]
            \/ l # "minute" /\ r \in A[l][i]
            \/ \E q \in A["minute"][0] : Fits(l, i, q.rest) /\ r = [e |-> q.e, rest |-> q.rest % Unit[l]]
      BY <1>1, <2>2, TurnedExactly
    <3>. QED BY <1>6, <3>3, <3>4, <3>5
  <2>. QED BY <2>1, <2>2
<1>7. CASE timer[t].every
  <2>1. m.at = tick + 1 /\ m.on = TRUE /\ m.delay = d
    BY <1>2, <1>7
  <2>2. m.on <=> m.delay < Limit["day"]
    BY <1>3, <1>4, <2>1, HourFacts DEF Levels
  <2>3. \A l \in Levels : \A i \in Slot(l) : \A r : r.e = t =>
          (r \in T[l][i] <=> Fits(l, i, m.delay) /\ r = [e |-> t, rest |-> m.delay % Unit[l]])
    BY <1>5, <1>6, <1>7, <2>1
  <2>4. GoodTimer(t, m, T, tick + 1)
    BY <1>3, <2>1, <2>2, <2>3, Started
  <2>. QED BY <1>1, <2>4
<1>8. CASE ~timer[t].every
  <2>1. \A l \in Levels : \A i \in Slot(l) : \A r \in T[l][i] : r.e # t
    BY <1>5, <1>6, <1>8
  <2>. QED BY <1>1, <1>8, <2>1 DEF GoodTimer
<1>. QED BY <1>7, <1>8
(* One that does not fire moves on: in the second wheel, in the minute     *)
(* wheel, or from its front slot to the seconds.                           *)
LEMMA WaitingTimer ==
  ASSUME TypeOK, NEW t \in Timers, GoodTimer(t, timer[t], wheels, tick), ~Fires(t),
         ~Misplaced(wheels, tick + 1)
  PROVE  GoodTimer(t, timer[t], Turned(wheels, tick + 1), tick + 1)
<1>1. PICK A, T, m : A = AfterSecond(wheels) /\ T = Turned(wheels, tick + 1) /\ m = timer[t]
  OBVIOUS
<1>2. tick \in Nat /\ m.delay \in Nat \ {0} /\ m \in TimerRec
  BY <1>1 DEF TypeOK, TimerRec
<1>3. /\ "second" \in Levels /\ "minute" \in Levels
      /\ 0 \in Slot("second") /\ 0 \in Slot("minute")
  BY HourFacts DEF Levels
<1>4. ASSUME NEW l \in Levels, NEW i \in Slot(l), NEW r, r.e = t
      PROVE  r \in A[l][i] <=>
               \/ l = "second" /\ i + 1 \in Slot("second") /\ r \in wheels["second"][i + 1]
               \/ l # "second" /\ r \in wheels[l][i]
  BY <1>1, <1>4, AfterSecondExactly
<1>5. Due(m) \in Int
  <2>1. m.at \in Nat
    BY <1>2 DEF TimerRec
  <2>2. m.at % Minute \in Nat
    BY <2>1, MinuteFacts
  <2>. QED BY <1>2, <2>1, <2>2 DEF Due
(* the seconds *)
<1>6. ASSUME NEW l \in Levels, NEW i \in Slot(l), NEW r \in A[l][i], r.e = t
      PROVE  /\ m.on
             /\ m.delay < Hour => \/ Placed(l, i, r, tick, m) /\ l = "minute"
                                  \/ Placed(l, i, r, tick + 1, m) /\ l = "second"
             /\ m.delay >= Hour => l \in {"hour", "day"}
  <2>1. CASE l = "second"
    <3>1. i + 1 \in Slot("second") /\ r \in wheels["second"][i + 1]
      BY <1>4, <1>6, <2>1
    <3>2. i \in Int
      BY <2>1, HourFacts
    <3>3. m.on /\ (m.delay >= Hour => FALSE) /\ (m.delay < Hour => Placed("second", i + 1, r, tick, m))
      BY <1>1, <1>3, <1>6, <3>1 DEF GoodTimer
    <3>4. ASSUME m.delay < Hour PROVE Placed(l, i, r, tick + 1, m)
      <4>1. tick + (i + 1) + 1 = Due(m) /\ (m.delay >= Minute => m.delay % Minute # 0)
        BY <3>3, <3>4 DEF Placed
      <4>. QED BY <1>2, <1>5, <2>1, <3>2, <4>1 DEF Placed
    <3>. QED BY <2>1, <3>3, <3>4
  <2>2. CASE l # "second"
    <3>1. r \in wheels[l][i]
      BY <1>4, <1>6, <2>2
    <3>2. m.on /\ (m.delay < Hour => Placed(l, i, r, tick, m)) /\ (m.delay >= Hour => l \in {"hour", "day"})
      BY <1>1, <1>6, <3>1 DEF GoodTimer
    <3>. QED BY <2>2, <3>2 DEF Placed
  <2>. QED BY <2>1, <2>2
<1>7. m.on /\ m.delay < Hour => \E l \in Levels : \E i \in Slot(l) : \E r \in A[l][i] : r.e = t
  <2>. SUFFICES ASSUME m.on, m.delay < Hour
                PROVE  \E l \in Levels : \E i \in Slot(l) : \E r \in A[l][i] : r.e = t
    OBVIOUS
  <2>1. PICK l \in Levels : \E i \in Slot(l) : \E r \in wheels[l][i] : r.e = t
    BY <1>1 DEF GoodTimer
  <2>2. PICK i \in Slot(l) : \E r \in wheels[l][i] : r.e = t
    BY <2>1
  <2>3. PICK r \in wheels[l][i] : r.e = t
    BY <2>2
  <2>4. CASE l # "second"
    BY <1>4, <2>3, <2>4
  <2>5. CASE l = "second"
    <3>1. i # 0
      BY <2>3, <2>5 DEF Fires
    <3>2. i - 1 \in Slot("second") /\ (i - 1) + 1 = i
      BY <2>5, <3>1, HourFacts
    <3>3. r \in A["second"][i - 1]
      BY <1>3, <1>4, <2>3, <2>5, <3>2
    <3>. QED BY <1>3, <2>3, <3>2, <3>3
  <2>. QED BY <2>4, <2>5
(* not a full minute *)
<1>8. CASE (tick + 1) % Minute # 0
  <2>1. T = A
    BY <1>1, <1>8, TurnedExactly
  <2>2. FullMinute(tick + 1) = FullMinute(tick)
    BY <1>2, <1>8, NextMinute
  <2>3. ASSUME NEW l \in Levels, NEW i \in Slot(l), NEW r \in A[l][i], r.e = t, m.delay < Hour
        PROVE  Placed(l, i, r, tick + 1, m)
    BY <1>6, <2>2, <2>3 DEF Placed
  <2>. QED BY <1>1, <1>6, <1>7, <2>1, <2>3 DEF GoodTimer
(* a full minute *)
<1>9. CASE (tick + 1) % Minute = 0
  <2>1. FullMinute(tick + 1) = FullMinute(tick) + Minute /\ FullMinute(tick + 1) = tick + 1
    BY <1>2, <1>9, NextMinute
  <2>2. FullMinute(tick) \in Int /\ FullMinute(tick) + Minute = tick + 1
    BY <1>2, <2>1, HourFacts, MinuteFacts
  <2>3. WheelType(A)
    BY <1>1, AfterSecondLemma
  <2>4. ASSUME NEW q \in A["minute"][0]
        PROVE  q.e \in Entries /\ q.rest \in 1 .. Minute - 1
    <3>1. q \in [e : Entries, rest : 0 .. Minute - 1]
      BY <1>3, <2>3, HourFacts DEF WheelType
    <3>2. q.rest # 0
      <4>1. Higher(tick + 1) = {"minute"}
        BY <1>2, <1>9, OnlyMinutes
      <4>. QED BY <1>1, <4>1 DEF Misplaced
    <3>. QED BY <3>1, <3>2, HourFacts
  <2>5. ASSUME NEW l \in Levels, NEW i \in Slot(l), NEW r, r.e = t
        PROVE  r \in T[l][i] <=>
                 \/ l = "minute" /\ i + 1 \in Slot("minute") /\ r \in A["minute"][i + 1]
                 \/ l # "minute" /\ r \in A[l][i]
                 \/ \E q \in A["minute"][0] : Fits(l, i, q.rest) /\ r = [e |-> q.e, rest |-> q.rest % Unit[l]]
    BY <1>1, <1>9, TurnedExactly
  <2>6. ASSUME NEW j \in Slot("minute"), NEW q \in A["minute"][j], q.e = t
        PROVE  /\ m.on /\ m.delay < Hour /\ m.delay >= Minute /\ q.rest = m.delay % Minute
               /\ j \in Nat /\ tick + 1 + (j * Minute) + q.rest = Due(m)
    <3>1. m.on /\ m.delay < Hour /\ Placed("minute", j, q, tick, m)
      BY <1>2, <1>3, <1>6, <2>6, HourFacts
    <3>2. /\ m.delay >= Minute /\ q.rest = m.delay % Minute
          /\ FullMinute(tick) + ((j + 1) * Minute) + q.rest = Due(m)
      BY <3>1 DEF Placed
    <3>3. j \in Nat /\ q.rest \in Int
      <4>1. m.delay % Minute \in Nat
        BY <1>2, MinuteFacts
      <4>2. j \in Nat
        BY HourFacts
      <4>. QED BY <3>2, <4>1, <4>2
    <3>4. (j + 1) * Minute = (j * Minute) + Minute /\ j * Minute \in Int
      BY <3>3, HourFacts
    <3>5. tick + 1 + (j * Minute) + q.rest = FullMinute(tick) + ((j + 1) * Minute) + q.rest
      BY <2>2, <3>3, <3>4, HourFacts
    <3>. QED BY <3>1, <3>2, <3>3, <3>5
  <2>7. ASSUME NEW l \in Levels, NEW i \in Slot(l), NEW r \in T[l][i], r.e = t
        PROVE  /\ m.on
               /\ m.delay < Hour => Placed(l, i, r, tick + 1, m)
               /\ m.delay >= Hour => l \in {"hour", "day"}
    <3>1. CASE l = "minute" /\ i + 1 \in Slot("minute") /\ r \in A["minute"][i + 1]
      <4>1. /\ m.on /\ m.delay < Hour /\ m.delay >= Minute /\ r.rest = m.delay % Minute
            /\ tick + 1 + ((i + 1) * Minute) + r.rest = Due(m)
        BY <2>6, <2>7, <3>1
      <4>2. ~(m.delay >= Hour)
        BY <1>2, <4>1, HourFacts
      <4>. QED BY <2>1, <3>1, <4>1, <4>2 DEF Placed
    <3>2. CASE l # "minute" /\ r \in A[l][i]
      BY <1>6, <2>7, <3>2
    <3>3. CASE \E q \in A["minute"][0] : Fits(l, i, q.rest) /\ r = [e |-> q.e, rest |-> q.rest % Unit[l]]
      <4>1. PICK q \in A["minute"][0] : Fits(l, i, q.rest) /\ q.e = t
        BY <2>7, <3>3
      <4>2. /\ m.on /\ m.delay < Hour /\ m.delay >= Minute /\ q.rest = m.delay % Minute
            /\ tick + 1 + (0 * Minute) + q.rest = Due(m)
        BY <1>3, <2>6, <4>1
      <4>3. q.rest \in Nat \ {0} /\ q.rest < Minute
        BY <2>4, HourFacts
      <4>4. l = "second" /\ i = q.rest - 1
        BY <4>1, <4>3, FitsSecond
      <4>5. 0 * Minute = 0
        BY HourFacts
      <4>6. (tick + 1) + i + 1 = Due(m)
        BY <1>2, <4>2, <4>3, <4>4, <4>5
      <4>7. ~(m.delay >= Hour)
        BY <1>2, <4>2, HourFacts
      <4>. QED BY <4>2, <4>3, <4>4, <4>6, <4>7 DEF Placed
    <3>. QED BY <2>5, <2>7, <3>1, <3>2, <3>3
  <2>8. m.on /\ m.delay < Hour => \E l \in Levels : \E i \in Slot(l) : \E r \in T[l][i] : r.e = t
    <3>. SUFFICES ASSUME m.on, m.delay < Hour
                  PROVE  \E l \in Levels : \E i \in Slot(l) : \E r \in T[l][i] : r.e = t
      OBVIOUS
    <3>1. PICK l \in Levels : \E i \in Slot(l) : \E r \in A[l][i] : r.e = t
      BY <1>7
    <3>2. PICK i \in Slot(l) : \E r \in A[l][i] : r.e = t
      BY <3>1
    <3>3. PICK r \in A[l][i] : r.e = t
      BY <3>2
    <3>4. CASE l # "minute"
      BY <2>5, <3>3, <3>4
    <3>5. CASE l = "minute" /\ i # 0
      <4>1. i - 1 \in Slot("minute") /\ (i - 1) + 1 = i
        BY <3>5, HourFacts
      <4>2. r \in T["minute"][i - 1]
        BY <1>3, <2>5, <3>3, <3>5, <4>1
      <4>. QED BY <1>3, <3>3, <4>1, <4>2
    <3>6. CASE l = "minute" /\ i = 0
      <4>1. r \in A["minute"][0] /\ r.rest \in Nat \ {0} /\ r.rest < Minute
        BY <2>4, <3>3, <3>6, HourFacts
      <4>2. r.rest - 1 \in Slot("second") /\ Fits("second", r.rest - 1, r.rest)
        BY <4>1, FitsSecond
      <4>3. PICK x : x = [e |-> r.e, rest |-> r.rest % Unit["second"]]
        OBVIOUS
      <4>4. x.e = t
        BY <3>3, <4>3
      <4>5. x \in T["second"][r.rest - 1]
        BY <1>3, <2>5, <4>1, <4>2, <4>3, <4>4
      <4>. QED BY <1>3, <4>2, <4>4, <4>5
    <3>. QED BY <3>4, <3>5, <3>6
  <2>. QED BY <1>1, <2>7, <2>8 DEF GoodTimer
<1>. QED BY <1>8, <1>9
-----------------------------------------------------------------------------
(* The actions                                                             *)
LEMMA RunTimers ==
  ASSUME IInv, TimerInv, NEW t \in Timers, NEW d \in Delays, NEW every \in BOOLEAN, Run(t, d, every)
  PROVE  TimerInv'
<1>1. /\ d \in Nat \ {0} /\ TypeOK /\ ~corrupt /\ ~timer[t].on /\ tick' = tick /\ tick \in Nat
      /\ \A x \in Timers : GoodTimer(x, timer[x], wheels, tick)
  BY TimingWheelAssumption DEF IInv, TypeOK, TimerInv, Run
<1>2. PICK reqs : reqs = {[e |-> t, delay |-> d]}
  OBVIOUS
<1>3. reqs \subseteq Request /\ wheels' = Insert(wheels, reqs)
  BY <1>1, <1>2 DEF Request, Entries, Run
<1>4. PICK m : m = [on |-> d < Limit["day"], delay |-> d, every |-> every, at |-> tick, since |-> now]
  OBVIOUS
<1>5. /\ timer'[t] = m /\ m.delay = d /\ m.at = tick
      /\ m.on <=> m.delay < Limit["day"]
      /\ \A x \in Timers : x # t => timer'[x] = timer[x]
  BY <1>1, <1>4 DEF TypeOK, Run
<1>6. m \in TimerRec
  <2>1. timer'[t] \in TimerRec
    BY RunInv DEF IInv, TypeOK, TimerRec
  <2>. QED BY <1>5, <2>1
<1>7. ASSUME NEW l \in Levels, NEW i \in Slot(l), NEW r
      PROVE  r \in wheels'[l][i] <=>
               \/ r \in wheels[l][i]
               \/ Fits(l, i, d) /\ r = [e |-> t, rest |-> d % Unit[l]]
  BY <1>2, <1>3, InsertExactly
<1>8. GoodTimer(t, m, wheels', tick)
  <2>1. \A l \in Levels : \A i \in Slot(l) : \A r \in wheels[l][i] : r.e # t
    BY <1>1 DEF GoodTimer
  <2>2. \A l \in Levels : \A i \in Slot(l) : \A r : r.e = t =>
          (r \in wheels'[l][i] <=> Fits(l, i, m.delay) /\ r = [e |-> t, rest |-> m.delay % Unit[l]])
    BY <1>5, <1>7, <2>1
  <2>3. tick \in Nat /\ m.at = tick /\ (m.on <=> m.delay < Limit["day"])
    BY <1>1, <1>5
  <2>. QED BY <1>6, <2>2, <2>3, Started
<1>9. ASSUME NEW x \in Timers, x # t PROVE GoodTimer(x, timer[x], wheels', tick)
  <2>1. \A l \in Levels : \A i \in Slot(l) : \A r : r.e = x => (r \in wheels'[l][i] <=> r \in wheels[l][i])
    BY <1>7, <1>9
  <2>. QED BY <1>1, <2>1, SameEntries
<1>10. \A x \in Timers : GoodTimer(x, timer'[x], wheels', tick')
  BY <1>1, <1>5, <1>8, <1>9
<1>. QED BY <1>10 DEF TimerInv, GoodTimer, Placed, Due

LEMMA ActiveTimers ==
  ASSUME IInv, TimerInv, NEW c \in Connections, EnableCheckIdleTimeout(c) \/ ExtendLife(c)
  PROVE  TimerInv'
<1>1. /\ wheels' = Insert(wheels, {[e |-> c, delay |-> IdleTime]})
      /\ UNCHANGED <<tick, timer, corrupt>> /\ ~corrupt /\ WheelType(wheels)
  BY DEF EnableCheckIdleTimeout, ExtendLife, IInv, TypeOK
<1>2. ASSUME NEW t \in Timers PROVE GoodTimer(t, timer'[t], wheels', tick')
  <2>1. c # t
    BY TimingWheelAssumption
  <2>2. \A l \in Levels : \A i \in Slot(l) :
          /\ wheels[l][i] \subseteq wheels'[l][i]
          /\ \A r \in wheels'[l][i] : r \in wheels[l][i] \/ r.e = c
    BY <1>1, InsertIdleLemma
  <2>3. \A l \in Levels : \A i \in Slot(l) : \A r : r.e = t => (r \in wheels'[l][i] <=> r \in wheels[l][i])
    BY <2>1, <2>2
  <2>4. GoodTimer(t, timer[t], wheels, tick)
    BY <1>1 DEF TimerInv
  <2>5. GoodTimer(t, timer[t], wheels', tick)
    BY <2>3, <2>4, SameEntries
  <2>. QED BY <1>1, <2>5
<1>. QED BY <1>2 DEF TimerInv, GoodTimer, Placed, Due

LEMMA OnTimerTimers == ASSUME IInv, TimerInv, OnTimer PROVE TimerInv'
<1>. SUFFICES ASSUME ~corrupt', NEW t \in Timers PROVE GoodTimer(t, timer'[t], wheels', tick')
  BY DEF TimerInv, GoodTimer, Placed, Due
<1>1. /\ TypeOK /\ ~Misplaced(wheels, tick + 1) /\ tick' = tick + 1
      /\ wheels' = Turned(wheels, tick + 1) /\ GoodTimer(t, timer[t], wheels, tick)
      /\ timer[t] \in TimerRec
  BY DEF IInv, TypeOK, TimerInv, OnTimer, TimerRec
<1>2. timer'[t] = IF ~Fires(t) THEN timer[t]
                  ELSE IF timer[t].every THEN [timer[t] EXCEPT !.at = tick + 1, !.since = now]
                  ELSE [timer[t] EXCEPT !.on = FALSE]
  BY DEF OnTimer
<1>3. CASE ~Fires(t)
  BY <1>1, <1>2, <1>3, WaitingTimer
<1>4. CASE Fires(t)
  <2>1. PICK m : m = timer'[t]
    OBVIOUS
  <2>2. m \in TimerRec
    BY <2>1, OnTimerInv DEF IInv, TypeOK, TimerRec
  <2>3. timer[t].on
    BY <1>1, <1>4, FiresAlone
  <2>4. timer[t].every => m.at = tick + 1 /\ m.on = TRUE /\ m.delay = timer[t].delay
    BY <1>1, <1>2, <1>4, <2>1, <2>3 DEF TimerRec
  <2>5. ~timer[t].every => m.on = FALSE
    BY <1>1, <1>2, <1>4, <2>1 DEF TimerRec
  <2>6. GoodTimer(t, m, Turned(wheels, tick + 1), tick + 1)
    BY <1>1, <1>4, <2>2, <2>4, <2>5, FiredTimer
  <2>. QED BY <1>1, <2>1, <2>6
<1>. QED BY <1>3, <1>4

LEMMA InitTimers == Init => TimerInv
<1>. SUFFICES ASSUME Init PROVE TimerInv
  OBVIOUS
<1>1. \A l \in Levels : \A i \in Slot(l) : wheels[l][i] = {}
  BY DEF Init
<1>2. \A t \in Timers : timer[t].on = FALSE
  BY DEF Init
<1>. QED BY <1>1, <1>2 DEF TimerInv, GoodTimer

LEMMA NextTimers == IInv /\ TimerInv /\ [Next]_vars => TimerInv'
<1>. SUFFICES ASSUME IInv, TimerInv, [Next]_vars PROVE TimerInv'
  OBVIOUS
<1>1. ASSUME UNCHANGED <<tick, wheels, timer, corrupt>> PROVE TimerInv'
  BY <1>1 DEF TimerInv, GoodTimer, Placed, Due
<1>2. ASSUME NEW d \in Steps, Wait(d) PROVE TimerInv'
  BY <1>1, <1>2 DEF Wait
<1>3. ASSUME NEW t \in Timers, NEW d \in Delays, NEW every \in BOOLEAN, Run(t, d, every) PROVE TimerInv'
  BY <1>3, RunTimers
<1>4. ASSUME NEW c \in Connections, EnableCheckIdleTimeout(c) \/ ExtendLife(c) PROVE TimerInv'
  BY <1>4, ActiveTimers
<1>5. CASE OnTimer
  BY <1>5, OnTimerTimers
<1>6. CASE FirstTimer
  BY <1>1, <1>6 DEF FirstTimer
<1>7. CASE UNCHANGED vars
  BY <1>1, <1>7 DEF vars
<1>. QED BY <1>2, <1>3, <1>4, <1>5, <1>6, <1>7 DEF Next

(* A timer of less than an hour that has not fired is in the second or the *)
(* minute wheel and fires in the tick Expected, once: for every size of    *)
(* the wheels, insertEntry, popUp and the move from the minutes to the     *)
(* seconds keep what is left of its delay.  That tick is exact for a delay *)
(* of less than a minute; a longer one counts from the last full minute,   *)
(* so the code fires it up to 59 seconds early.                            *)
THEOREM PunctualTheorem == Spec => []Punctual
<1>1. Init => TimerInv
  BY InitTimers
<1>2. IInv /\ TimerInv /\ [Next]_vars => TimerInv'
  BY NextTimers
<1>3. ASSUME IInv, TimerInv PROVE Punctual
  <2>. SUFFICES ASSUME ~corrupt, NEW t \in Timers, timer[t].delay < Hour
                PROVE  /\ timer[t].on => Held(wheels, t)
                       /\ \A l \in Levels : \A i \in Slot(l) : \A r \in wheels[l][i] :
                            r.e = t => timer[t].on /\ l \in {"second", "minute"} /\ ActsAt(l, i, r) = Expected(t)
    BY DEF Punctual
  <2>1. GoodTimer(t, timer[t], wheels, tick) /\ timer[t] \in TimerRec /\ tick \in Nat
    BY <1>3 DEF IInv, TypeOK, TimerInv, TimerRec
  <2>2. Due(timer[t]) = Expected(t)
    BY DEF Due, Expected
  <2>3. ASSUME NEW l \in Levels, NEW i \in Slot(l), NEW r \in wheels[l][i], r.e = t
        PROVE  timer[t].on /\ l \in {"second", "minute"} /\ ActsAt(l, i, r) = Expected(t)
    <3>1. timer[t].on /\ Placed(l, i, r, tick, timer[t])
      BY <2>1, <2>3 DEF GoodTimer
    <3>2. CASE l = "second"
      BY <2>2, <3>1, <3>2 DEF Placed, ActsAt
    <3>3. CASE l = "minute"
      <4>1. (tick \div Minute) * Minute = FullMinute(tick) /\ tick \div Minute \in Nat
        BY <2>1, MinuteFacts
      <4>2. i \in Nat /\ Minute \in Nat
        BY <3>3, HourFacts
      <4>3. \A a, b, c \in Nat : (a + b + 1) * c = (a * c) + ((b + 1) * c)
        OBVIOUS
      <4>4. ((tick \div Minute) + i + 1) * Minute = FullMinute(tick) + ((i + 1) * Minute)
        BY <4>1, <4>2, <4>3
      <4>. QED BY <2>2, <3>1, <3>3, <4>4 DEF Placed, ActsAt
    <3>. QED BY <3>1, <3>2, <3>3 DEF Placed
  <2>. QED BY <2>1, <2>3 DEF GoodTimer, Held
<1>. QED BY <1>1, <1>2, <1>3, WheelInvariant, PTL DEF Spec
-----------------------------------------------------------------------------
(* By the clock: a timer that is on was started now or earlier, and since  *)
(* the first tick after that each tick has taken a second or more.         *)
Elapsed(m) ==
  m.on => /\ m.since <= now /\ m.at <= tick
          /\ m.at < tick => lastTs - m.since >= (tick - m.at - 1) * Second

ElapsedInv == \A t \in Timers : Elapsed(timer[t])

LEMMA TimesSecond ==
  ASSUME NEW k \in Int
  PROVE  k * Second \in Int /\ (k + 1) * Second = (k * Second) + Second /\ 0 * Second = 0
BY TimingWheelAssumption

LEMMA OnTimerElapsed == ASSUME IInv, ElapsedInv, OnTimer PROVE ElapsedInv'
<1>. SUFFICES ASSUME NEW t \in Timers, timer'[t].on PROVE Elapsed(timer[t])'
  BY DEF ElapsedInv, Elapsed
<1>1. PICK m : m = timer[t]
  OBVIOUS
<1>2. /\ tick \in Nat /\ now \in Nat /\ lastTs \in Nat /\ m \in TimerRec
      /\ tick' = tick + 1 /\ lastTs' = now /\ now' = now /\ now - lastTs >= Second
      /\ Second \in Nat
  BY <1>1, TimingWheelAssumption DEF IInv, TypeOK, OnTimer, NextTs, TimerRec
<1>3. timer'[t] = IF ~Fires(t) THEN m
                  ELSE IF m.every THEN [m EXCEPT !.at = tick + 1, !.since = now]
                  ELSE [m EXCEPT !.on = FALSE]
  BY <1>1 DEF OnTimer
<1>4. CASE ~Fires(t)
  <2>1. timer'[t] = m /\ Elapsed(m) /\ m.on
    BY <1>1, <1>3, <1>4 DEF ElapsedInv
  <2>2. m.since \in Nat /\ m.at \in Nat /\ m.since <= now /\ m.at <= tick
    BY <1>2, <2>1 DEF Elapsed, TimerRec
  <2>3. CASE m.at = tick
    <3>1. tick + 1 - m.at - 1 = 0
      BY <1>2, <2>2, <2>3
    <3>2. (tick + 1 - m.at - 1) * Second = 0
      BY <3>1, TimesSecond
    <3>. QED BY <1>2, <2>1, <2>2, <3>2 DEF Elapsed
  <2>4. CASE m.at < tick
    <3>1. PICK k \in Int : k = tick - m.at - 1
      BY <1>2, <2>2
    <3>2. lastTs - m.since >= k * Second
      BY <2>1, <2>4, <3>1 DEF Elapsed
    <3>3. tick + 1 - m.at - 1 = k + 1
      BY <1>2, <2>2, <3>1
    <3>4. k * Second \in Int /\ (k + 1) * Second = (k * Second) + Second
      BY TimesSecond
    <3>5. now - m.since >= (tick + 1 - m.at - 1) * Second
      BY <1>2, <2>2, <3>2, <3>3, <3>4
    <3>. QED BY <1>2, <2>1, <2>2, <3>5 DEF Elapsed
  <2>. QED BY <1>2, <2>2, <2>3, <2>4
<1>5. CASE Fires(t)
  <2>1. timer'[t].at = tick + 1 /\ timer'[t].since = now
    BY <1>2, <1>3, <1>5 DEF TimerRec
  <2>. QED BY <1>2, <2>1 DEF Elapsed
<1>. QED BY <1>4, <1>5

LEMMA NextElapsed == IInv /\ ElapsedInv /\ [Next]_vars => ElapsedInv'
<1>. SUFFICES ASSUME IInv, ElapsedInv, [Next]_vars PROVE ElapsedInv'
  OBVIOUS
<1>1. ASSUME UNCHANGED <<timer, tick>>, now' = now \/ \E d \in Steps : now' = now + d,
             lastTs' = lastTs \/ (lastTs = 0 /\ lastTs' = now)
      PROVE  ElapsedInv'
  <2>. SUFFICES ASSUME NEW t \in Timers, Elapsed(timer[t]) PROVE Elapsed(timer[t])'
    BY DEF ElapsedInv
  <2>1. now \in Nat /\ lastTs \in Nat /\ timer[t] \in TimerRec
    BY DEF IInv, TypeOK, TimerRec
  <2>2. now' \in Nat /\ now' >= now
    BY <1>1, <2>1, TimingWheelAssumption
  <2>3. lastTs' \in Nat /\ lastTs' >= lastTs
    BY <1>1, <2>1
  <2>4. timer[t].since \in Nat /\ timer[t].at \in Nat /\ tick \in Nat
    BY <2>1 DEF TimerRec, IInv, TypeOK
  <2>5. PICK x : x = (tick - timer[t].at - 1) * Second
    OBVIOUS
  <2>6. x \in Int
    BY <2>4, <2>5, TimingWheelAssumption
  <2>7. timer[t].on => /\ timer[t].since <= now' /\ timer[t].at <= tick
                       /\ timer[t].at < tick => lastTs' - timer[t].since >= x
    BY <2>1, <2>2, <2>3, <2>4, <2>5, <2>6 DEF Elapsed
  <2>. QED BY <1>1, <2>5, <2>7 DEF Elapsed
<1>2. ASSUME NEW d \in Steps, Wait(d) PROVE ElapsedInv'
  BY <1>1, <1>2 DEF Wait
<1>3. ASSUME NEW t \in Timers, NEW d \in Delays, NEW every \in BOOLEAN, Run(t, d, every) PROVE ElapsedInv'
  <2>1. /\ timer'[t].since = now /\ timer'[t].at = tick
        /\ \A x \in Timers : x # t => timer'[x] = timer[x]
        /\ UNCHANGED <<now, lastTs, tick>> /\ now \in Nat /\ tick \in Nat
    BY <1>3 DEF Run, IInv, TypeOK
  <2>2. \A x \in Timers : Elapsed(timer'[x])
    BY <2>1 DEF ElapsedInv, Elapsed
  <2>. QED BY <2>1, <2>2 DEF ElapsedInv, Elapsed
<1>4. ASSUME NEW c \in Connections, EnableCheckIdleTimeout(c) \/ ExtendLife(c) PROVE ElapsedInv'
  BY <1>1, <1>4 DEF EnableCheckIdleTimeout, ExtendLife
<1>5. CASE OnTimer
  BY <1>5, OnTimerElapsed
<1>6. CASE FirstTimer
  BY <1>1, <1>6 DEF FirstTimer
<1>7. CASE UNCHANGED vars
  BY <1>1, <1>7 DEF vars
<1>. QED BY <1>2, <1>3, <1>4, <1>5, <1>6, <1>7 DEF Next

LEMMA EarlyStep ==
  ASSUME IInv, TimerInv, ElapsedInv, OnTimer, NEW t \in Timers, Fires(t), timer[t].delay < Minute
  PROVE  now - timer[t].since >= (timer[t].delay - 1) * Second
<1>1. PICK m : m = timer[t]
  OBVIOUS
<1>2. /\ tick \in Nat /\ now \in Nat /\ lastTs \in Nat /\ m \in TimerRec /\ m.since \in Nat /\ m.at \in Nat
      /\ m.delay \in Nat \ {0} /\ now - lastTs >= Second /\ Second \in Nat
  BY <1>1, TimingWheelAssumption DEF IInv, TypeOK, OnTimer, TimerRec
<1>3. TypeOK /\ GoodTimer(t, m, wheels, tick)
  BY <1>1 DEF IInv, TimerInv, OnTimer
<1>4. m.on
  BY <1>1, <1>3, FiresAlone
<1>5. m.since <= now /\ (m.at < tick => lastTs - m.since >= (tick - m.at - 1) * Second)
  BY <1>1, <1>4 DEF ElapsedInv, Elapsed
<1>6. tick + 1 = m.at + m.delay
  <2>1. PICK f \in wheels["second"][0] : f.e = t
    BY DEF Fires
  <2>2. "second" \in Levels /\ 0 \in Slot("second") /\ m.delay < Hour
    BY <1>1, <1>2, HourFacts DEF Levels
  <2>3. Placed("second", 0, f, tick, m)
    BY <1>3, <2>1, <2>2 DEF GoodTimer
  <2>. QED BY <1>1, <1>2, <2>3 DEF Placed, Due
<1>7. CASE m.delay = 1
  <2>1. (m.delay - 1) * Second = 0
    BY <1>7, TimesSecond
  <2>. QED BY <1>1, <1>2, <1>5, <2>1
<1>8. CASE m.delay # 1
  <2>1. PICK k \in Int : k = tick - m.at - 1
    BY <1>2
  <2>2. m.at < tick /\ m.delay - 1 = k + 1
    BY <1>2, <1>6, <1>8, <2>1
  <2>3. k * Second \in Int /\ (k + 1) * Second = (k * Second) + Second
    BY TimesSecond
  <2>4. lastTs - m.since >= k * Second
    BY <1>5, <2>1, <2>2
  <2>5. now - m.since >= (k + 1) * Second
    BY <1>2, <2>3, <2>4
  <2>. QED BY <1>1, <2>2, <2>5
<1>. QED BY <1>7, <1>8

(* A timer of less than a minute fires at most a second before its time by *)
(* the clock: onTimer lets a second pass between ticks and sets last_ts_   *)
(* to the time of the round, however late that is.  Of longer delays       *)
(* nothing is said here (see Expected).                                    *)
THEOREM EarlyTheorem == Spec => AtMostASecondEarly
<1>1. Init => TimerInv /\ ElapsedInv
  <2>1. Init => ElapsedInv
    BY DEF Init, ElapsedInv, Elapsed
  <2>. QED BY <2>1, InitTimers
<1>2. IInv /\ TimerInv /\ ElapsedInv /\ [Next]_vars => (TimerInv /\ ElapsedInv)'
  BY NextTimers, NextElapsed
<1>3. IInv /\ TimerInv /\ ElapsedInv /\ [Next]_vars =>
        [\A t \in Timers :
           OnTimer /\ Fires(t) /\ timer[t].delay < Minute =>
             now - timer[t].since >= (timer[t].delay - 1) * Second]_vars
  BY EarlyStep
<1>. QED BY <1>1, <1>2, <1>3, WheelInvariant, PTL DEF Spec, AtMostASecondEarly
=============================================================================
