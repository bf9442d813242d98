----------------------------- MODULE PlayerPump -----------------------------
(***************************************************************************)
(* What keeps frames flowing to a player: LSSConnection::active_ and the   *)
(* tasks that set it, RtmpPlayerUser::postFrames, the send gate of         *)
(* RtmpContext (sending_, out_waiting_queue_), and the epoll events of the *)
(* player's socket.  They are edge triggered: an event is reported once,   *)
(* with all that is ready, and loop() serves one handler, reading first.   *)
(*                                                                         *)
(* Two threads take part: the loop of the publisher, which runs addPacket  *)
(* and activeAllPlayers, and the loop of the player's connection, which    *)
(* runs the active tasks, the play command, the control messages and the   *)
(* write completions.  With sameLoop they are one thread, and enqueueTask  *)
(* calls the task on the spot.  active_ is the only variable both threads  *)
(* use without a lock, so every load and store of it is a step.            *)
(*                                                                         *)
(* The window of packets is reduced to the number of packets between the   *)
(* player's cursor and the newest packet; module LiveStream has the rest.  *)
(***************************************************************************)
EXTENDS Integers

CONSTANTS
  Eager,       (* frames that always wake the players (300)                *)
  Every,       (* later, every Every-th frame wakes them (5)               *)
  Batch,       (* frames getNextFrame hands out at once (10)               *)
  Headers,     (* codec headers that locateGop puts before the frames      *)
  SingleMax,   (* RTMP_SINGLE_MAX: control messages sent at once (10)      *)
  MaxLag,      (* bound: packets behind the cursor, the size of the window *)
  MaxWaiting,  (* bound: control messages in out_waiting_queue_            *)
  MaxTasks     (* bound: active tasks queued in the player's loop          *)

ASSUME PlayerPumpAssumption ==
  /\ {Eager, Headers} \subseteq Nat
  /\ {Every, Batch, SingleMax, MaxLag, MaxTasks} \subseteq Nat \ {0}
  /\ MaxWaiting \in Nat \ {0, 1}
  /\ Eager % Every = 0

VARIABLES
  sameLoop,    (* the publisher and the player share an event loop         *)
  frameIndex,  (* frame_index_, up to Eager and then modulo Every          *)
  ready,       (* ready_ and hasMedia()                                    *)
  gop,         (* getGopByLatency finds a GOP                              *)
  lag,         (* packets that follow the player's cursor                  *)
  pub,         (* where the publisher's thread is in addPacket             *)
  joined,      (* the user is in players_                                  *)
  active,      (* active_                                                  *)
  tasks,       (* active tasks queued in the player's loop                 *)
  at,          (* where the player's thread is                             *)
  sending,     (* sending_: data in io_vec_list_, EPOLLOUT asked for       *)
  inbox,       (* a message of the player is in the socket, unread         *)
  edge,        (* the socket is on epoll's list of events to report        *)
  full,        (* the socket takes no more data                            *)
  waiting,     (* control messages in out_waiting_queue_                   *)
  located,     (* out_index_ >= 0: locateGop has found a GOP               *)
  hdrs,        (* codec headers to be sent before the frames               *)
  held,        (* frames in out_frames_                                    *)
  refused,     (* history: the last postFrames found the stream not ready  *)
  beat,        (* history: flips when a packet is published                *)
  served       (* history: flips when frames are sent to the player        *)

streamVars == <<sameLoop, frameIndex, ready, gop, pub, beat>>
wireVars   == <<sending, waiting, edge, full>>
userVars   == <<located, hdrs, held>>
vars == <<streamVars, lag, joined, active, tasks, at, inbox, wireVars, userVars, refused, served>>

Least(a, b) == IF a < b THEN a ELSE b
-----------------------------------------------------------------------------
(* The publisher's thread *)

(* One thread runs both: it finishes one handler before the next *)
Free == sameLoop => at = "idle" /\ pub = "idle"

WakesEarly(i) == i < Eager      (* mutant: nothing wakes players later on *)

Wakes(i) == i < Eager \/ i % Every = 0

(* frame_index_ after i, kept small: only i < Eager and i % Every matter *)
Following(i) == IF i + 1 < Eager + Every THEN i + 1 ELSE Eager

(* addPacket up to the end of its lock scope *)
AddPacket(r, g) ==
  /\ pub = "idle" /\ Free
  /\ ready => r
  /\ frameIndex' = Following(frameIndex)
  /\ ready' = r
  /\ gop' = g
  /\ lag' = IF located THEN Least(lag + 1, MaxLag) ELSE 0
  /\ pub' = IF Wakes(Following(frameIndex)) THEN "activate" ELSE "idle"
  /\ beat' = 1 - beat
  /\ UNCHANGED <<sameLoop, joined, active, tasks, at, inbox, wireVars, userVars, refused, served>>

(* activeAllPlayers: LSSConnection::active of the player *)
ActivatePlayer ==
  /\ pub = "activate"
  /\ sameLoop => at = "idle"
  /\ pub' = "idle"
  /\ IF joined /\ ~active
     THEN IF sameLoop
          THEN active' = TRUE /\ at' = "post" /\ UNCHANGED tasks
          ELSE tasks < MaxTasks /\ tasks' = tasks + 1 /\ UNCHANGED <<active, at>>
     ELSE UNCHANGED <<active, tasks, at>>
  /\ UNCHANGED <<sameLoop, frameIndex, ready, gop, beat, lag, joined, inbox, wireVars, userVars,
                 refused, served>>
-----------------------------------------------------------------------------
(* The player's thread *)

(* A message of the player reaches the socket *)
Arrive ==
  /\ ~inbox
  /\ inbox' = TRUE
  /\ edge' = TRUE
  /\ UNCHANGED <<streamVars, lag, joined, active, tasks, at, sending, waiting, full, userVars, refused, served>>

(* onRead, which reads the socket empty: the event is consumed *)
Reading == at = "idle" /\ Free /\ edge /\ inbox /\ inbox' = FALSE

(* RtmpContext::send with n messages waiting: nothing while a send is in   *)
(* progress, else up to SingleMax of them go to the socket.  enableWriting *)
(* makes epoll report the socket anew.                                     *)
SendControl(n) ==
  /\ sending' = TRUE
  /\ waiting' = IF sending THEN n ELSE n - Least(n, SingleMax)
  /\ edge' = ~sending

(* handlePlay: two control messages, then onPlay, which inserts the user   *)
(* into players_.                                                          *)
Play ==
  /\ Reading
  /\ ~joined
  /\ waiting + 2 <= MaxWaiting
  /\ sending' = TRUE
  /\ waiting' = IF sending THEN waiting + 2 ELSE 1
  /\ edge' = ~sending
  /\ joined' = TRUE
  /\ at' = "join"
  /\ UNCHANGED <<streamVars, lag, active, tasks, full, userVars, refused, served>>

(* A message that is answered, such as a ping *)
Control ==
  /\ Reading
  /\ waiting < MaxWaiting
  /\ SendControl(waiting + 1)
  /\ UNCHANGED <<streamVars, lag, joined, active, tasks, at, full, userVars, refused, served>>

(* A message that is not answered, such as an acknowledgement *)
Acknowledge ==
  /\ Reading
  /\ edge' = FALSE
  /\ UNCHANGED <<streamVars, lag, joined, active, tasks, at, sending, waiting, full, userVars, refused, served>>

(* The end of addPlayer: active() on the connection's own thread *)
JoinActive ==
  /\ at = "join"
  /\ active' = TRUE
  /\ at' = IF active THEN "idle" ELSE "post"
  /\ UNCHANGED <<streamVars, lag, joined, tasks, inbox, wireVars, userVars, refused, served>>

(* runTask runs a task of active() *)
RunTask ==
  /\ at = "idle" /\ tasks > 0
  /\ tasks' = tasks - 1
  /\ active' = TRUE
  /\ at' = "post"
  /\ UNCHANGED <<streamVars, lag, joined, inbox, wireVars, userVars, refused, served>>

(* The event loop calls onWrite when the event has nothing to read *)
Writing == at = "idle" /\ Free /\ edge /\ ~inbox /\ ~full /\ sending

(* writev takes a part and then answers EAGAIN *)
WriteSome ==
  /\ Writing
  /\ edge' = FALSE
  /\ full' = TRUE
  /\ UNCHANGED <<streamVars, lag, joined, active, tasks, at, inbox, sending, waiting, userVars, refused, served>>

(* The far end reads: the socket can be written again *)
Drain ==
  /\ full
  /\ full' = FALSE
  /\ edge' = TRUE
  /\ UNCHANGED <<streamVars, lag, joined, active, tasks, at, inbox, sending, waiting, userVars, refused, served>>

WriteDoneQuiet ==        (* mutant: the handler is not told that the queue is empty *)
  /\ Writing
  /\ sending' = (waiting > 0)
  /\ waiting' = waiting - Least(waiting, SingleMax)
  /\ edge' = (waiting > 0)
  /\ UNCHANGED <<streamVars, lag, joined, active, tasks, at, inbox, full, userVars, refused, served>>

(* The socket has taken everything: onWrite, onWriteComplete and           *)
(* checkAndSend, which sends what is waiting or calls onActive.            *)
WriteDone ==
  /\ Writing
  /\ sending' = (waiting > 0)
  /\ waiting' = waiting - Least(waiting, SingleMax)
  /\ edge' = (waiting > 0)
  /\ at' = IF waiting = 0 /\ joined THEN "post" ELSE "idle"
  /\ UNCHANGED <<streamVars, lag, joined, active, tasks, inbox, full, userVars, refused, served>>
-----------------------------------------------------------------------------
(* postFrames.  Everything it does but deactive() is on data of the        *)
(* player's thread or under the stream's lock, so it is one step.          *)

(* getNextFrame, l packets behind, with h headers queued *)
Behind(l, h) == [hdrs |-> h, held |-> Least(l, Batch), lag |-> l - Least(l, Batch)]

(* getFrames: what the user holds and how far behind its cursor is.  The   *)
(* GOP that locateGop finds lies anywhere in the window; skipFrame finds   *)
(* one that lies before the cursor, and queues the headers that changed.   *)
Fetched ==
  IF hdrs + held > 0 THEN {[hdrs |-> hdrs, held |-> held, lag |-> lag]}
  ELSE IF located
  THEN {Behind(lag, 0)} \cup {Behind(l, h) : l \in 1 .. (IF gop THEN lag ELSE 0), h \in 0 .. Headers}
  ELSE IF gop THEN {Behind(l, Headers) : l \in 1 .. MaxLag} ELSE {Behind(0, 0)}

NotReady ==
  /\ at = "post" /\ ~ready
  /\ at' = "idle"
  /\ refused' = TRUE
  /\ UNCHANGED <<streamVars, lag, joined, active, tasks, inbox, wireVars, userVars, served>>

Post(f) ==
  LET sent == f.hdrs + f.held > 0 /\ ~sending IN
      /\ at = "post" /\ ready
      /\ located' = (located \/ gop)
      /\ lag' = f.lag
      /\ refused' = FALSE
      /\ hdrs' = IF sent /\ f.hdrs > 0 THEN f.hdrs - 1 ELSE f.hdrs
      /\ held' = IF sent /\ f.hdrs = 0 THEN 0 ELSE f.held
      /\ served' = IF sent /\ f.hdrs = 0 THEN 1 - served ELSE served
      /\ sending' = (sending \/ sent)
      /\ edge' = (edge \/ sent)
      /\ at' = IF f.hdrs + f.held = 0 THEN "deactivate" ELSE "idle"
      /\ UNCHANGED <<streamVars, joined, active, tasks, inbox, waiting, full>>

DeactivateNot ==         (* mutant: the user stays active when it has nothing to send *)
  /\ at = "deactivate"
  /\ at' = "idle"
  /\ UNCHANGED <<streamVars, lag, joined, active, tasks, inbox, wireVars, userVars, refused, served>>

(* deactive(), when there was nothing to send *)
Deactivate ==
  /\ at = "deactivate"
  /\ active' = FALSE
  /\ at' = "idle"
  /\ UNCHANGED <<streamVars, lag, joined, tasks, inbox, wireVars, userVars, refused, served>>
-----------------------------------------------------------------------------
Init ==
  /\ sameLoop \in BOOLEAN
  /\ frameIndex \in 0 .. Eager + Every - 1
  /\ ready \in BOOLEAN /\ gop \in BOOLEAN
  /\ gop => ready
  /\ lag = 0 /\ pub = "idle"
  /\ joined = FALSE /\ active = FALSE /\ tasks = 0 /\ at = "idle"
  /\ sending = FALSE /\ waiting = 0
  /\ inbox = FALSE /\ edge = FALSE /\ full = FALSE
  /\ located = FALSE /\ hdrs = 0 /\ held = 0
  /\ refused = FALSE /\ beat = 0 /\ served = 0

OnRead == Play \/ Control \/ Acknowledge

Next ==
  \/ \E r, g \in BOOLEAN : (g => r) /\ AddPacket(r, g)
  \/ ActivatePlayer
  \/ Arrive \/ OnRead \/ JoinActive \/ RunTask
  \/ WriteSome \/ Drain \/ WriteDone
  \/ NotReady
  \/ \E f \in Fetched : Post(f)
  \/ Deactivate

(* Loops run their handlers to the end and serve their tasks, and the far  *)
(* end keeps reading, so that what is being written, which is finite, gets *)
(* written.  Reading and writing are strongly fair: the loop serves every  *)
(* event epoll_wait reports before it asks again, whatever else it serves. *)
(* Nothing obliges a publisher to publish or a player to play.             *)
Fairness ==
  /\ WF_vars(ActivatePlayer)
  /\ SF_vars(OnRead)
  /\ WF_vars(JoinActive)
  /\ WF_vars(RunTask)
  /\ SF_vars(WriteDone)
  /\ WF_vars(Drain)
  /\ WF_vars(NotReady)
  /\ WF_vars(\E f \in Fetched : Post(f))
  /\ WF_vars(Deactivate)

Spec == Init /\ [][Next]_vars /\ Fairness
-----------------------------------------------------------------------------
(* Properties *)

TypeOK ==
  /\ sameLoop \in BOOLEAN
  /\ frameIndex \in 0 .. Eager + Every - 1
  /\ ready \in BOOLEAN /\ gop \in BOOLEAN /\ joined \in BOOLEAN /\ active \in BOOLEAN
  /\ sending \in BOOLEAN /\ inbox \in BOOLEAN /\ edge \in BOOLEAN /\ full \in BOOLEAN
  /\ located \in BOOLEAN /\ refused \in BOOLEAN
  /\ lag \in 0 .. MaxLag
  /\ pub \in {"idle", "activate"}
  /\ tasks \in 0 .. MaxTasks
  /\ at \in {"idle", "join", "post", "deactivate"}
  /\ waiting \in 0 .. MaxWaiting
  /\ hdrs \in 0 .. Headers
  /\ held \in 0 .. Batch
  /\ beat \in 0 .. 1 /\ served \in 0 .. 1

(* An active connection has a reason to call postFrames again, because     *)
(* active() will not: a write in progress, or postFrames itself running.   *)
(* The exception is a player that found the stream not ready               *)
(* (rtmp_playeruser.cpp:17-20 returns without deactive()).                 *)
ActiveMeansBusy == active => at # "idle" \/ sending \/ refused

(* Frames and headers that were taken from the stream wait for a write in  *)
(* progress: its completion calls postFrames, nothing else would.          *)
HeldBehindWrite == hdrs + held > 0 => at # "idle" \/ sending

(* Control messages wait only for a send in progress (send, checkAndSend). *)
WaitingBehindSend == waiting > 0 => sending

(* Whatever has been taken for the peer has a completion to come that      *)
(* sends it: frames by postFrames, control messages by checkAndSend.       *)
NothingStranded == HeldBehindWrite /\ WaitingBehindSend

(* There is data to write, the socket takes it, and epoll has nothing to   *)
(* report: onWrite is not called until something else makes an event.      *)
Stalled == sending /\ ~edge /\ ~full

(* "handle write events" (lssvc_tcpconn.h:85): a socket that can be        *)
(* written is written.  But a message that arrives before the event is     *)
(* reported is reported with it, and loop() (lssvc_eventloop.cpp:143-147)  *)
(* calls onRead and not onWrite; the event is edge triggered, so it does   *)
(* not come again.                                                         *)
WriteEventHandled == ~Stalled

(* Packets keep being published, and control messages do not: checkAndSend *)
(* sends what is waiting first, and frames only when nothing is.           *)
Publishing == []<>(beat = 0) /\ []<>(beat = 1) /\ <>[](waiting = 0)

(* As long as packets are published, a player that has been put on a GOP   *)
(* is sent frames again and again, unless a write event is swallowed (see  *)
(* WriteEventHandled): a wakeup that active() skips because deactive() has *)
(* not run yet is made up for by a later packet.                           *)
KeepsServed == Publishing /\ <>[](located /\ ~Stalled) => []<>(served = 0) /\ []<>(served = 1)
=============================================================================
