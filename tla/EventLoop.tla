------------------------------ MODULE EventLoop ------------------------------
(***************************************************************************)
(* LSSEventLoopThread and the task queue of its LSSEventLoop: the owner    *)
(* starts and destroys the thread, other threads enqueue tasks and wake    *)
(* the loop through a pipe, and the loop polls, reads the pipe and runs    *)
(* the tasks.  Sockets and their events are in TcpLink.                    *)
(***************************************************************************)
EXTENDS Integers, Sequences

CONSTANTS
  Posters,        (* threads that call enqueueTask                         *)
  MaxPosts,       (* bound: tasks of a poster                              *)
  PipeCapacity,   (* words a pipe holds (8192)                             *)
  Nobody          (* holds the lock when it is free                        *)

ASSUME EventLoopAssumption ==
  /\ MaxPosts \in Nat /\ PipeCapacity \in Nat \ {0}
  /\ Nobody \notin Posters \cup {"loop"}
  /\ "loop" \notin Posters

VARIABLES
  ownerPc,        (* the thread that has the LSSEventLoopThread            *)
  loopPc,         (* its own thread: start() and loop()                    *)
  asked,          (* LSSEventLoopThread::running_                          *)
  promised,       (* promise_loop_ has its value, loop_ points to the loop *)
  running,        (* LSSEventLoop::running_                                *)
  quitEarly,      (* history: quit() came before loop() had begun          *)
  mutex,          (* LSSEventLoop::lock_                                   *)
  tasks,          (* tasks_                                                *)
  posterPc,       (* where a poster is in enqueueTask                      *)
  posts,          (* bound: tasks it has posted                            *)
  ran,            (* history: tasks that have run, by poster               *)
  hasPipe,        (* pipe_ exists and is registered with epoll             *)
  known,          (* events_ has the pipe                                  *)
  words,          (* 8-byte words in the pipe                              *)
  edge            (* epoll has an edge of the pipe to report               *)

threadVars == <<ownerPc, loopPc, asked, promised, running, quitEarly>>
pipeVars   == <<hasPipe, known, words, edge>>
loopVars   == <<threadVars, pipeVars, mutex, tasks, posterPc, posts, ran>>
-----------------------------------------------------------------------------
(* LSSEventLoopThread *)

(* run, up to the call of get() *)
AskRun ==
  /\ ownerPc = "made"
  /\ asked' = TRUE
  /\ ownerPc' = "asked"
  /\ UNCHANGED <<loopPc, promised, running, quitEarly, pipeVars, mutex, tasks, posterPc, posts, ran>>

(* get() returns *)
GotLoop ==
  /\ ownerPc = "asked" /\ promised
  /\ ownerPc' = "up"
  /\ UNCHANGED <<loopPc, asked, promised, running, quitEarly, pipeVars, mutex, tasks, posterPc, posts, ran>>

(* ~LSSEventLoopThread: run() has been done, quit(), then join() *)
Quit ==
  /\ ownerPc = "up"
  /\ running' = FALSE
  /\ quitEarly' = (loopPc = "entering")
  /\ ownerPc' = "joining"
  /\ UNCHANGED <<loopPc, asked, promised, pipeVars, mutex, tasks, posterPc, posts, ran>>

Join ==
  /\ ownerPc = "joining" /\ loopPc = "ended"
  /\ ownerPc' = "gone"
  /\ UNCHANGED <<loopPc, asked, promised, running, quitEarly, pipeVars, mutex, tasks, posterPc, posts, ran>>

(* start: the loop exists before the thread waits for run() *)
WaitForRun ==
  /\ loopPc = "starting" /\ asked
  /\ promised' = TRUE
  /\ loopPc' = "entering"
  /\ UNCHANGED <<ownerPc, asked, running, quitEarly, pipeVars, mutex, tasks, posterPc, posts, ran>>
-----------------------------------------------------------------------------
(* LSSEventLoop::loop *)

EnterLoop ==
  /\ loopPc = "entering"
  /\ running' = TRUE
  /\ loopPc' = "polling"
  /\ UNCHANGED <<ownerPc, asked, promised, quitEarly, pipeVars, mutex, tasks, posterPc, posts, ran>>

(* epoll_wait reports the pipe *)
PollPipe ==
  /\ loopPc = "polling" /\ edge
  /\ edge' = FALSE
  /\ loopPc' = "pipe"
  /\ UNCHANGED <<ownerPc, asked, promised, running, quitEarly, hasPipe, known, words, mutex, tasks,
                 posterPc, posts, ran>>

(* it returns after a second, or for sockets only *)
PollOther ==
  /\ loopPc = "polling"
  /\ loopPc' = "round"
  /\ UNCHANGED <<ownerPc, asked, promised, running, quitEarly, pipeVars, mutex, tasks, posterPc, posts, ran>>

(* LSSPipeEvent::onRead reads one word, however many there are.  Without   *)
(* an entry in events_ the event is skipped.                               *)
WordsLeft == IF known /\ words > 0 THEN words - 1 ELSE words

ReadPipe ==
  /\ loopPc = "pipe"
  /\ words' = WordsLeft
  /\ loopPc' = "round"
  /\ UNCHANGED <<ownerPc, asked, promised, running, quitEarly, hasPipe, known, edge, mutex, tasks,
                 posterPc, posts, ran>>

(* runTask, with the lock *)
LockTasks ==
  /\ loopPc = "round" /\ mutex = Nobody
  /\ mutex' = "loop"
  /\ loopPc' = "tasks"
  /\ UNCHANGED <<ownerPc, asked, promised, running, quitEarly, pipeVars, tasks, posterPc, posts, ran>>

RunOne ==               (* mutant: the queue is dropped after its first task *)
  /\ loopPc = "tasks" /\ tasks # <<>>
  /\ ran' = [ran EXCEPT ![Head(tasks)] = @ + 1]
  /\ tasks' = <<>>
  /\ UNCHANGED <<threadVars, pipeVars, mutex, posterPc, posts>>

RunTask ==
  /\ loopPc = "tasks" /\ tasks # <<>>
  /\ ran' = [ran EXCEPT ![Head(tasks)] = @ + 1]
  /\ tasks' = Tail(tasks)
  /\ UNCHANGED <<threadVars, pipeVars, mutex, posterPc, posts>>

RoundNeverLast ==       (* mutant: running_ is not tested *)
  /\ loopPc = "tasks" /\ tasks = <<>>
  /\ mutex' = Nobody
  /\ loopPc' = "polling"
  /\ UNCHANGED <<ownerPc, asked, promised, running, quitEarly, pipeVars, tasks, posterPc, posts, ran>>

(* the queue is empty: unlock, the wheel's onTimer, and running_ again *)
RoundEnds ==
  /\ loopPc = "tasks" /\ tasks = <<>>
  /\ mutex' = Nobody
  /\ loopPc' = IF running THEN "polling" ELSE "ended"
  /\ UNCHANGED <<ownerPc, asked, promised, running, quitEarly, pipeVars, tasks, posterPc, posts, ran>>
-----------------------------------------------------------------------------
(* enqueueTask from another thread, once the pool has been started *)

Lock(p) ==
  /\ ownerPc = "up" /\ posterPc[p] = "idle" /\ posts[p] < MaxPosts
  /\ mutex = Nobody
  /\ mutex' = p
  /\ posts' = [posts EXCEPT ![p] = @ + 1]
  /\ tasks' = Append(tasks, p)
  /\ posterPc' = [posterPc EXCEPT ![p] = "waking"]
  /\ UNCHANGED <<threadVars, pipeVars, ran>>

(* initPipe.  events_ has no lock: when the loop looks up or changes it at *)
(* the same time, the new entry may be lost, while epoll has the pipe.     *)
InitPipe(p, lost) ==
  /\ posterPc[p] = "waking" /\ ~hasPipe
  /\ lost => loopPc \in {"pipe", "round", "tasks"}
  /\ hasPipe' = TRUE
  /\ known' = ~lost
  /\ UNCHANGED <<threadVars, words, edge, mutex, tasks, posterPc, posts, ran>>

UnlockFirst(p) ==         (* mutant: no word is written *)
  /\ posterPc[p] = "waking" /\ hasPipe
  /\ mutex' = Nobody
  /\ posterPc' = [posterPc EXCEPT ![p] = "idle"]
  /\ UNCHANGED <<threadVars, pipeVars, tasks, posts, ran>>

(* wakeUp: every write that fits is an edge; the answer of write is not    *)
(* looked at.                                                              *)
WakeUp(p) ==
  /\ posterPc[p] = "waking" /\ hasPipe
  /\ words' = IF words < PipeCapacity THEN words + 1 ELSE words
  /\ edge' = (edge \/ words < PipeCapacity)
  /\ mutex' = Nobody
  /\ posterPc' = [posterPc EXCEPT ![p] = "idle"]
  /\ UNCHANGED <<threadVars, hasPipe, known, tasks, posts, ran>>
-----------------------------------------------------------------------------
LoopInit ==
  /\ ownerPc = "made" /\ loopPc = "starting"
  /\ asked = FALSE /\ promised = FALSE /\ running = FALSE /\ quitEarly = FALSE
  /\ mutex = Nobody /\ tasks = <<>>
  /\ posterPc = [p \in Posters |-> "idle"]
  /\ posts = [p \in Posters |-> 0]
  /\ ran = [p \in Posters |-> 0]
  /\ hasPipe = FALSE /\ known = FALSE /\ words = 0 /\ edge = FALSE

LoopThread ==
  \/ WaitForRun \/ EnterLoop \/ PollPipe \/ PollOther \/ ReadPipe
  \/ LockTasks \/ RunTask \/ RoundEnds

Wakes(p) == InitPipe(p, TRUE) \/ InitPipe(p, FALSE) \/ WakeUp(p)

LoopNext ==
  \/ AskRun \/ GotLoop \/ Quit \/ Join
  \/ LoopThread
  \/ \E p \in Posters : Lock(p) \/ Wakes(p)

(* Threads go on with what they have begun, and the loop gets its mutex    *)
(* when it is free again and again; nobody has to run, post or quit.       *)
LoopFairness ==
  /\ WF_loopVars(GotLoop) /\ WF_loopVars(Join)
  /\ WF_loopVars(LoopThread) /\ SF_loopVars(LockTasks)
  /\ \A p \in Posters : WF_loopVars(Wakes(p))

LoopSpec == LoopInit /\ [][LoopNext]_loopVars /\ LoopFairness
-----------------------------------------------------------------------------
(* Properties *)

LoopTypeOK ==
  /\ ownerPc \in {"made", "asked", "up", "joining", "gone"}
  /\ loopPc \in {"starting", "entering", "polling", "pipe", "round", "tasks", "ended"}
  /\ asked \in BOOLEAN /\ promised \in BOOLEAN /\ running \in BOOLEAN /\ quitEarly \in BOOLEAN
  /\ mutex \in Posters \cup {"loop", Nobody}
  /\ tasks \in Seq(Posters)
  /\ posterPc \in [Posters -> {"idle", "waking"}]
  /\ posts \in [Posters -> 0 .. MaxPosts]
  /\ ran \in [Posters -> Nat]
  /\ hasPipe \in BOOLEAN /\ known \in BOOLEAN /\ edge \in BOOLEAN
  /\ words \in 0 .. PipeCapacity

(* While the loop waits in epoll_wait with a task in its queue, somebody   *)
(* is about to wake it, the pipe has an edge for it, or the pipe is full   *)
(* of words that onRead has left there: the tasks are only late, until the *)
(* timeout of a second, when the pipe is full (enqueueTask, wakeUp,        *)
(* LSSPipeEvent::onRead, runTask).                                         *)
WokenUnlessFull ==
  loopPc = "polling" /\ tasks # <<>> =>
    edge \/ words = PipeCapacity \/ \E p \in Posters : posterPc[p] = "waking"

(* What has been posted runs, unless the loop is told to quit *)
PostedRuns ==
  \A p \in Posters : \A n \in 1 .. MaxPosts :
    (posts[p] >= n) ~> (ran[p] >= n \/ ownerPc \in {"joining", "gone"})

(* The owner never waits for ever: run() returns, whether the thread waits *)
(* for it before or after, and the destructor ends, unless quit() came     *)
(* before loop() set running_.                                             *)
OwnerReturns ==
  /\ (ownerPc = "asked") ~> (ownerPc # "asked")
  /\ (ownerPc = "joining") ~> (ownerPc = "gone" \/ quitEarly)
=============================================================================
