---------------------------- MODULE TaskManager ----------------------------
(***************************************************************************)
(* LSSTaskMgr and LSSTask: main calls work() again and again, which runs   *)
(* the tasks that are due and drops those that were not restarted; other   *)
(* threads add and delete tasks.                                           *)
(***************************************************************************)
EXTENDS Integers, FiniteSets

CONSTANTS
  Tasks,
  Intervals,    (* of the tasks                                             *)
  MaxClock,     (* bound: of LSSTime::nowMs                                 *)
  NoTask        (* no task is running                                       *)

ASSUME TaskAssumption == Intervals \subseteq Nat /\ NoTask \notin Tasks

VARIABLES
  clock,
  task,         (* LSSTask: [when, interval], when -1 before its creation   *)
  tasks,        (* tasks_                                                   *)
  left,         (* tasks the iteration has not passed                       *)
  working,      (* work() holds lock_                                       *)
  now,          (* of work()                                                *)
  running,      (* the task whose callback runs                             *)
  started,      (* history: clock at a task's creation or restart           *)
  added,        (* history: tasks added and not deleted                     *)
  ran           (* history: tasks that ran since they were started or added *)

taskVars == <<clock, task, tasks, left, working, now, running, started, added, ran>>

Tick ==
  /\ clock < MaxClock /\ clock' = clock + 1
  /\ UNCHANGED <<task, tasks, left, working, now, running, started, added, ran>>

(* LSSTask(), then add(): the first is not under the lock *)
MakeTask(t, i) ==
  /\ task[t].when = -1
  /\ task' = [task EXCEPT ![t] = [when |-> clock + i, interval |-> i]]
  /\ started' = [started EXCEPT ![t] = clock]
  /\ UNCHANGED <<clock, tasks, left, working, now, running, added, ran>>

(* add(), of a task that is not in the set; one that work() dropped is due *)
(* as it was                                                               *)
AddTask(t) ==
  /\ task[t].when # -1 /\ ~working
  /\ t \notin tasks
  /\ tasks' = tasks \cup {t} /\ added' = added \cup {t} /\ ran' = ran \ {t}
  /\ UNCHANGED <<clock, task, left, working, now, running, started>>

(* del(), and nobody has the task any more *)
DelTask(t) ==
  /\ t \in tasks /\ ~working
  /\ tasks' = tasks \ {t} /\ added' = added \ {t} /\ ran' = ran \ {t}
  /\ task' = [task EXCEPT ![t].when = -1]
  /\ UNCHANGED <<clock, left, working, now, running, started>>

Work ==
  /\ ~working
  /\ working' = TRUE /\ now' = clock /\ left' = tasks
  /\ UNCHANGED <<clock, task, tasks, running, started, added, ran>>

NotDue(t) ==
  /\ t \in left /\ running = NoTask /\ ~(task[t].when < now)
  /\ left' = left \ {t}
  /\ UNCHANGED <<clock, task, tasks, working, now, running, started, added, ran>>

RunDue(t) ==
  /\ t \in left /\ running = NoTask /\ task[t].when < now
  /\ running' = t /\ ran' = ran \cup {t}
  /\ UNCHANGED <<clock, task, tasks, left, working, now, started, added>>

RestartAt(t) == task[t].interval + clock

(* restart(), by the callback *)
Restart(t) ==
  /\ running = t /\ t \in ran
  /\ task' = [task EXCEPT ![t].when = RestartAt(t)]
  /\ started' = [started EXCEPT ![t] = clock] /\ ran' = ran \ {t}
  /\ UNCHANGED <<clock, tasks, left, working, now, running, added>>

ErasedAlways(t) == TRUE                             (* mutant *)

Erased(t) == task[t].when < now

Returns(t) ==
  /\ running = t
  /\ running' = NoTask /\ left' = left \ {t}
  /\ tasks' = IF Erased(t) THEN tasks \ {t} ELSE tasks
  /\ UNCHANGED <<clock, task, working, now, started, added, ran>>

WorkEnds ==
  /\ working /\ left = {}
  /\ working' = FALSE
  /\ UNCHANGED <<clock, task, tasks, left, now, running, started, added, ran>>

TaskInit ==
  /\ clock = 0 /\ task = [t \in Tasks |-> [when |-> -1, interval |-> 0]] /\ tasks = {} /\ left = {}
  /\ working = FALSE /\ now = 0 /\ running = NoTask /\ started = [t \in Tasks |-> 0] /\ added = {} /\ ran = {}

TaskNext ==
  \/ Tick \/ Work \/ WorkEnds
  \/ \E t \in Tasks :
       \/ \E i \in Intervals : MakeTask(t, i)
       \/ AddTask(t) \/ DelTask(t) \/ NotDue(t) \/ RunDue(t) \/ Restart(t) \/ Returns(t)

TaskSpec == TaskInit /\ [][TaskNext]_taskVars
-----------------------------------------------------------------------------
(* Properties *)

(* The iteration never stands on a task that was taken from the set.       *)
TaskTypeOK ==
  /\ clock \in 0 .. MaxClock /\ now \in 0 .. clock /\ working \in BOOLEAN
  /\ task \in [Tasks -> [when : Int, interval : {0} \cup Intervals]]
  /\ tasks \subseteq Tasks /\ left \subseteq tasks /\ running \in left \cup {NoTask}
  /\ ~working => left = {}

(* Between two calls of work a task is in the set exactly if it has not    *)
(* run since it was started or added: a restarted task is not lost, and no *)
(* other runs twice.  A callback is not run before the interval since the start  *)
(* is over, also when callbacks take long and the clock moves on while     *)
(* work runs.                                                              *)
OnceInTime ==
  /\ [](~working => tasks = added \ ran)
  /\ [][\A t \in Tasks : running # t /\ running' = t => clock > started[t] + task[t].interval]_taskVars
=============================================================================
