-------------------------------- MODULE Udp --------------------------------
(***************************************************************************)
(* LSSUdpSocket, as UdpClient and as UdpServer: datagrams that the loop's  *)
(* thread and others ask to send, the queue of what the kernel did not     *)
(* take, the edge triggered events, and the close.                         *)
(*                                                                         *)
(* What the loop's thread asks for, in a callback or in another task, is   *)
(* done at once; what other threads ask for is a task of the loop          *)
(* (enqueueTask).  A callback (message_cb_, write_complete_cb_,            *)
(* connected_cb_) is the last thing of its handler that touches this       *)
(* state, and close_cb_ the first: what they ask for is a step of its own  *)
(* after the handler's, or before it.                                      *)
(***************************************************************************)
EXTENDS Integers, Sequences

CONSTANT MaxDatagrams   (* bound: sent, and received                        *)

VARIABLES
  side,         (* "client" or "server"                                     *)
  udpFd,        (* fd_ and closed_: "none", "open", "closed"                *)
  registered,   (* LSSEventLoop::events_ has the descriptor                 *)
  wantsOut,     (* and epoll reports that it can be written                 *)
  jobs,         (* tasks of the loop: [do, list of datagrams]               *)
  queue,        (* buffer_list_                                             *)
  asked,        (* history: how many datagrams each caller gave to send()   *)
  wire,         (* history: datagrams the kernel took                       *)
  taking,       (* the kernel takes datagrams                               *)
  edgeOut,      (* a write event is not yet reported                        *)
  missed,       (* history: it was reported together with a read event      *)
  inbox, seen   (* datagrams in the kernel, and given to message_cb_        *)

udpVars == <<side, udpFd, registered, wantsOut, jobs, queue, asked, wire, taking, edgeOut, missed, inbox, seen>>

Callers  == {"loop", "other"}
Datagram == [by : Callers, nr : Nat]

Job(what, list) == [do |-> what, list |-> list]
Run(what)       == jobs # <<>> /\ Head(jobs).do = what /\ jobs' = Tail(jobs)
List            == Head(jobs).list

(* connectInLoop and open; the descriptor is new, so adding it succeeds    *)
Open ==
  /\ Run("open")
  /\ udpFd' = "open" /\ registered' = TRUE
  /\ UNCHANGED <<side, wantsOut, queue, asked, wire, taking, edgeOut, missed, inbox, seen>>

CanSend == udpFd = "open" \/ side = "server"

(* send() of a list of n datagrams, or of one; a client checks connected_  *)
Made(by, n) == [i \in 1 .. n |-> [by |-> by, nr |-> asked[by] + i]]

Asks(by, n) ==
  /\ CanSend /\ asked["loop"] + asked["other"] + n <= MaxDatagrams
  /\ asked' = [asked EXCEPT ![by] = @ + n]

(* sendto of one datagram directly, which the kernel takes *)
DirectAlways(list) == Len(list) = 1 /\ udpFd = "open" /\ taking                 (* mutant *)

Direct(list) == Len(list) = 1 /\ queue = <<>> /\ udpFd = "open" /\ taking

(* enableWriting(true) *)
Wakes(list) == ~Direct(list)

(* sendInLoop; enableWriting reports at once if the kernel takes datagrams *)
Deliver(list) ==
  /\ wire' = IF Direct(list) THEN wire \o list ELSE wire
  /\ queue' = IF Direct(list) THEN queue ELSE queue \o list
  /\ wantsOut' = (wantsOut \/ (Wakes(list) /\ registered /\ udpFd = "open"))
  /\ edgeOut' = (edgeOut \/ (Wakes(list) /\ registered /\ udpFd = "open" /\ taking))
  /\ UNCHANGED <<side, udpFd, registered, taking, missed, inbox, seen>>

(* send() on another thread *)
Send(n) ==
  /\ Asks("other", n)
  /\ jobs' = Append(jobs, Job("send", Made("other", n)))
  /\ UNCHANGED <<side, udpFd, registered, wantsOut, queue, wire, taking, edgeOut, missed, inbox, seen>>

SendInLoop == Run("send") /\ Deliver(List) /\ UNCHANGED asked

(* send() on the loop's thread, of a socket that has been opened *)
SendHere(n) ==
  /\ udpFd # "none" /\ Asks("loop", n)
  /\ Deliver(Made("loop", n))
  /\ UNCHANGED jobs

(* UdpClient::onClose deletes its event, LSSUdpSocket::onClose does not    *)
CloseFd == udpFd' = "closed" /\ registered' = (side = "server")

(* forceClose, and UdpServer::stop, on another thread                      *)
AskClose(what) ==
  /\ udpFd = "open" /\ what = "stop" => side = "server"
  /\ \A i \in DOMAIN jobs : jobs[i].do = "send"
  /\ jobs' = Append(jobs, Job(what, <<>>))
  /\ UNCHANGED <<side, udpFd, registered, wantsOut, queue, asked, wire, taking, edgeOut, missed, inbox, seen>>

CloseInLoop ==
  /\ Run("close")
  /\ IF udpFd = "open" THEN CloseFd ELSE UNCHANGED <<udpFd, registered>>
  /\ edgeOut' = FALSE
  /\ UNCHANGED <<side, wantsOut, queue, asked, wire, taking, missed, inbox, seen>>

(* delEvent finds the event by its descriptor, which is gone after a close *)
StopInLoop ==
  /\ Run("stop")
  /\ udpFd' = "closed" /\ registered' = (registered /\ udpFd # "open")
  /\ edgeOut' = FALSE
  /\ UNCHANGED <<side, wantsOut, queue, asked, wire, taking, missed, inbox, seen>>

(* UdpServer::stop on the loop's thread *)
StopHere ==
  /\ side = "server" /\ udpFd = "open"
  /\ udpFd' = "closed" /\ registered' = FALSE /\ edgeOut' = FALSE
  /\ UNCHANGED <<side, wantsOut, jobs, queue, asked, wire, taking, missed, inbox, seen>>

(* onTimeout, when the last entry of the timing wheel goes, onError, and   *)
(* forceClose on the loop's thread                                         *)
Fails ==
  /\ udpFd = "open" /\ CloseFd
  /\ edgeOut' = FALSE
  /\ UNCHANGED <<side, wantsOut, jobs, queue, asked, wire, taking, missed, inbox, seen>>

Rest(k) == SubSeq(queue, k + 1, Len(queue))

(* onWrite: k datagrams go, then the queue is empty or the kernel takes no *)
(* more.                                                                   *)
OnWrite(k) ==
  /\ edgeOut /\ registered /\ udpFd = "open" /\ inbox = 0
  /\ edgeOut' = FALSE
  /\ wire' = wire \o SubSeq(queue, 1, k) /\ queue' = Rest(k)
  /\ taking' = (k = Len(queue))
  /\ UNCHANGED <<side, udpFd, registered, wantsOut, jobs, asked, missed, inbox, seen>>

Delivered == seen + inbox

(* An event with both: loop() calls onRead only, which reads until nothing *)
(* is left.                                                                *)
OnRead ==
  /\ registered /\ udpFd = "open" /\ inbox > 0
  /\ seen' = Delivered /\ inbox' = 0
  /\ missed' = (missed \/ edgeOut) /\ edgeOut' = FALSE
  /\ UNCHANGED <<side, udpFd, registered, wantsOut, jobs, queue, asked, wire, taking>>

(* The kernel: datagrams come, and its buffer fills up and drains          *)
Comes ==
  /\ udpFd = "open" /\ seen + inbox < MaxDatagrams
  /\ inbox' = inbox + 1
  /\ UNCHANGED <<side, udpFd, registered, wantsOut, jobs, queue, asked, wire, taking, edgeOut, missed, seen>>

Fills ==
  /\ udpFd = "open" /\ taking /\ ~edgeOut /\ queue = <<>> /\ taking' = FALSE
  /\ UNCHANGED <<side, udpFd, registered, wantsOut, jobs, queue, asked, wire, edgeOut, missed, inbox, seen>>

Drains ==
  /\ udpFd = "open" /\ ~taking /\ taking' = TRUE
  /\ edgeOut' = wantsOut
  /\ UNCHANGED <<side, udpFd, registered, wantsOut, jobs, queue, asked, wire, missed, inbox, seen>>

UdpInit ==
  /\ side \in {"client", "server"}
  /\ udpFd = "none" /\ registered = FALSE /\ wantsOut = FALSE /\ jobs = <<Job("open", <<>>)>> /\ queue = <<>>
  /\ asked = [by \in Callers |-> 0] /\ wire = <<>> /\ taking = TRUE /\ edgeOut = FALSE /\ missed = FALSE
  /\ inbox = 0 /\ seen = 0

UdpNext ==
  \/ Open \/ SendInLoop \/ CloseInLoop \/ StopInLoop \/ StopHere \/ Fails \/ OnRead \/ Comes \/ Fills \/ Drains
  \/ \E n \in 1 .. 2 : Send(n) \/ SendHere(n)
  \/ \E what \in {"close", "stop"} : AskClose(what)
  \/ \E k \in 0 .. Len(queue) : OnWrite(k)

UdpSpec == UdpInit /\ [][UdpNext]_udpVars
-----------------------------------------------------------------------------
(* Properties *)

(* A client is among the events of the loop exactly while it is open; of a *)
(* server that closes itself the entry stays.                              *)
UdpTypeOK ==
  /\ side \in {"client", "server"} /\ udpFd \in {"none", "open", "closed"}
  /\ {registered, wantsOut, taking, edgeOut, missed} \subseteq BOOLEAN
  /\ asked \in [Callers -> 0 .. MaxDatagrams] /\ asked["loop"] + asked["other"] <= MaxDatagrams
  /\ inbox \in 0 .. MaxDatagrams /\ seen \in 0 .. MaxDatagrams - inbox
  /\ {Len(queue), Len(wire)} \subseteq 0 .. MaxDatagrams
  /\ side = "client" => (registered <=> udpFd = "open")

(* out has the caller's first n datagrams, each once and in their order *)
Fifo(out, by, n) ==
  /\ \A i \in DOMAIN out : out[i].by = by => out[i].nr \in 1 .. n
  /\ \A k \in 1 .. n : \E i \in DOMAIN out : out[i] = [by |-> by, nr |-> k]
  /\ \A i, j \in DOMAIN out : i < j /\ out[i].by = by /\ out[j].by = by => out[i].nr < out[j].nr

(* A datagram that is sent directly does not overtake one that waits in    *)
(* buffer_list_, and none is sent twice or left out: those of the loop's   *)
(* thread leave in the order of its calls, and so do those of the other    *)
(* threads, all of them once the loop has run their tasks.  Between the    *)
(* two no order is kept: a send on the loop's thread is done at once       *)
(* (lssvc_eventloop.cpp:167-168) and overtakes earlier ones of other       *)
(* threads that still wait in tasks_.  What waits in buffer_list_ is sent  *)
(* when the kernel takes it: there is an event to come, unless the event   *)
(* came together with a datagram (see OnRead).                             *)
SendsInOrder ==
  /\ Fifo(wire \o queue, "loop", asked["loop"])
  /\ \E n \in 0 .. asked["other"] :
       Fifo(wire \o queue, "other", n) /\ (jobs = <<>> => n = asked["other"])
  /\ queue # <<>> /\ udpFd = "open" /\ taking => edgeOut \/ missed
=============================================================================
