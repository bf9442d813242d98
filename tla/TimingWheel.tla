----------------------------- MODULE TimingWheel -----------------------------
(***************************************************************************)
(* LSSTimingWheel (lssvc_timing_wheel.cpp) as the loop uses it, and the    *)
(* idle timeout of connections that is built on it (TimeoutEntry,          *)
(* enableCheckIdleTimeout and extendLife in lssvc_tcpconn).                *)
(*                                                                         *)
(* Four wheels hold entries in slots.  An entry acts when its last         *)
(* reference goes: a timer calls back, a connection times out.  Entries of *)
(* the minute wheel and up are wrapped in a callback that inserts what is  *)
(* left of the delay into a lower wheel.  Loop and wheel are one thread,   *)
(* so an operation is one action.                                          *)
(***************************************************************************)
EXTENDS Integers

CONSTANTS
  Timers,        (* timers of runAfter and runEvery                        *)
  Connections,   (* connections that are closed when they are idle         *)
  Minute,        (* kTimingMinute: ticks (60)                              *)
  PerHour,       (* kTimingHour / kTimingMinute (60)                       *)
  PerDay,        (* kTimingDay / kTimingHour (24)                          *)
  Days,          (* slots of the day wheel (30)                            *)
  IdleTime,      (* max_idle_time_ (30 for the server, 3 for a client)     *)
  Delays,        (* delays and intervals that are asked for                *)
  Second,        (* 1000 ms, in units of the clock                         *)
  Steps,         (* how far the clock moves at a time                      *)
  MaxNow         (* bound: the clock                                       *)

Hour == Minute * PerHour
Day  == Hour * PerDay

ASSUME TimingWheelAssumption ==
  /\ {Minute, PerHour, PerDay} \subseteq Nat \ {0, 1}
  /\ {Days, Second} \subseteq Nat \ {0}
  /\ IdleTime \in 1 .. Minute - 1
  /\ Delays \subseteq Nat \ {0}
  /\ Steps \subseteq Nat \ {0}
  /\ MaxNow \in Nat
  /\ Timers \cap Connections = {}

VARIABLES
  now,        (* the clock, LSSTime::nowMs()                               *)
  lastTs,     (* last_ts_                                                  *)
  tick,       (* tick_                                                     *)
  wheels,     (* wheels_: level -> slot -> entries                         *)
  timer,      (* the timers: delay, repeating, and when last (re)started   *)
  conn,       (* the connections: open, and tick of the last activity      *)
  corrupt     (* an entry was put into slot -1: out of range               *)

vars == <<now, lastTs, tick, wheels, timer, conn, corrupt>>

Levels == {"second", "minute", "hour", "day"}
Unit   == [second |-> 1, minute |-> Minute, hour |-> Hour, day |-> Day]
Limit  == [second |-> Minute, minute |-> Hour, hour |-> Day, day |-> (Days + 1) * Day]
Slots  == [second |-> Minute, minute |-> PerHour, hour |-> PerDay, day |-> Days]
Slot(l) == 0 .. Slots[l] - 1
-----------------------------------------------------------------------------
(* insertEntry for a set of requests [e |-> entry, delay |-> delay].  A    *)
(* delay of 0 goes to slot -1 of the seconds, see Misplaced; one of more   *)
(* than Days days is dropped.                                              *)

InsertLate(w, reqs) ==    (* mutant: slot delay, not delay - 1 *)
  [l \in Levels |-> [i \in Slot(l) |-> w[l][i] \cup
     {[e |-> r.e, rest |-> r.delay % Unit[l]] :
        r \in {q \in reqs : q.delay \in Unit[l] .. Limit[l] - 1 /\ q.delay \div Unit[l] = i}}]]

Insert(w, reqs) ==
  [l \in Levels |-> [i \in Slot(l) |-> w[l][i] \cup
     {[e |-> r.e, rest |-> r.delay % Unit[l]] :
        r \in {q \in reqs : q.delay \in Unit[l] .. Limit[l] - 1 /\ q.delay \div Unit[l] = i + 1}}]]

(* popUp: the front slot goes and an empty one comes at the end *)
PopUp(w, l) ==
  [w EXCEPT ![l] = [i \in Slot(l) |-> IF i + 1 \in Slot(l) THEN w[l][i + 1] ELSE {}]]

(* What the entries of a front slot insert when they go: repeating timers  *)
(* start again, entries of the higher wheels move down.                    *)
Repeats(w) ==
  {[e |-> r.e, delay |-> timer[r.e].delay] :
     r \in {q \in w["second"][0] : q.e \in Timers /\ timer[q.e].every}}

Migrates(w, l) == {[e |-> r.e, delay |-> r.rest] : r \in w[l][0]}

(* The wheel that onTimer turns besides that of the seconds.  A multiple   *)
(* of an hour is a multiple of a minute: "else if" never gets to the hours *)
(* and days (lssvc_timing_wheel.cpp:90-96).                                *)
Higher(t) ==
  IF t % Minute = 0 THEN {"minute"}
  ELSE IF t % Hour = 0 THEN {"hour"}
  ELSE IF t % Day = 0 THEN {"day"} ELSE {}

AfterSecond(w) == Insert(PopUp(w, "second"), Repeats(w))

Turned(w, t) ==
  IF Higher(t) = {} THEN AfterSecond(w)
  ELSE LET l == CHOOSE h \in Higher(t) : TRUE
       IN  Insert(PopUp(AfterSecond(w), l), Migrates(AfterSecond(w), l))

(* A migrating entry with nothing left: insertSecondEntry(0) *)
Misplaced(w, t) == \E l \in Higher(t) : \E r \in AfterSecond(w)[l][0] : r.rest = 0

Held(w, e) == \E l \in Levels : \E i \in Slot(l) : \E r \in w[l][i] : r.e = e
-----------------------------------------------------------------------------
(* Time passes *)
Wait(d) ==
  /\ ~corrupt
  /\ now + d <= MaxNow
  /\ now' = now + d
  /\ UNCHANGED <<lastTs, tick, wheels, timer, conn, corrupt>>

(* runAfter, runEvery.  An entry that is dropped calls back at once, so    *)
(* that of runEvery would never return.                                    *)
Run(t, d, every) ==
  /\ ~corrupt
  /\ ~timer[t].on
  /\ every => d < Limit["day"]
  /\ timer' = [timer EXCEPT ![t] =
       [on |-> d < Limit["day"], delay |-> d, every |-> every, at |-> tick, since |-> now]]
  /\ wheels' = Insert(wheels, {[e |-> t, delay |-> d]})
  /\ UNCHANGED <<now, lastTs, tick, conn, corrupt>>

(* enableCheckIdleTimeout for a new connection *)
EnableCheckIdleTimeout(c) ==
  /\ ~corrupt
  /\ ~conn[c].used
  /\ conn' = [conn EXCEPT ![c] = [used |-> TRUE, open |-> TRUE, active |-> tick]]
  /\ wheels' = Insert(wheels, {[e |-> c, delay |-> IdleTime]})
  /\ UNCHANGED <<now, lastTs, tick, timer, corrupt>>

ExtendLifeNot(c) ==       (* mutant: the entry is not inserted again *)
  /\ ~corrupt
  /\ conn[c].open
  /\ conn' = [conn EXCEPT ![c].active = tick]
  /\ UNCHANGED <<now, lastTs, tick, wheels, timer, corrupt>>

(* extendLife, when the connection reads or writes: one more reference *)
ExtendLife(c) ==
  /\ ~corrupt
  /\ conn[c].open
  /\ conn' = [conn EXCEPT ![c].active = tick]
  /\ wheels' = Insert(wheels, {[e |-> c, delay |-> IdleTime]})
  /\ UNCHANGED <<now, lastTs, tick, timer, corrupt>>

Fires(t) == \E r \in wheels["second"][0] : r.e = t

NextTsStep == lastTs + Second     (* mutant: catches up with the clock *)

NextTs == now

(* onTimer, which the loop calls in every round *)
OnTimer ==
  /\ ~corrupt
  /\ lastTs # 0
  /\ now - lastTs >= Second
  /\ lastTs' = NextTs
  /\ tick' = tick + 1
  /\ corrupt' = Misplaced(wheels, tick + 1)
  /\ wheels' = Turned(wheels, tick + 1)
  /\ timer' = [t \in Timers |->
       IF ~Fires(t) THEN timer[t]
       ELSE IF timer[t].every THEN [timer[t] EXCEPT !.at = tick + 1, !.since = now]
       ELSE [timer[t] EXCEPT !.on = FALSE]]
  /\ conn' = [c \in Connections |->
       [conn[c] EXCEPT !.open = @ /\ Held(Turned(wheels, tick + 1), c)]]
  /\ UNCHANGED now

(* The first round of the loop *)
FirstTimer ==
  /\ ~corrupt
  /\ lastTs = 0 /\ now > 0
  /\ lastTs' = now
  /\ UNCHANGED <<now, tick, wheels, timer, conn, corrupt>>

Init ==
  /\ now = 1 /\ lastTs = 0 /\ tick = 0
  /\ wheels = [l \in Levels |-> [i \in Slot(l) |-> {}]]
  /\ timer = [t \in Timers |-> [on |-> FALSE, delay |-> 1, every |-> FALSE, at |-> 0, since |-> 0]]
  /\ conn = [c \in Connections |-> [used |-> FALSE, open |-> FALSE, active |-> 0]]
  /\ corrupt = FALSE

Next ==
  \/ \E d \in Steps : Wait(d)
  \/ \E t \in Timers, d \in Delays, every \in BOOLEAN : Run(t, d, every)
  \/ \E c \in Connections : EnableCheckIdleTimeout(c) \/ ExtendLife(c)
  \/ OnTimer \/ FirstTimer

Spec == Init /\ [][Next]_vars
-----------------------------------------------------------------------------
(* Properties *)

Entries == Timers \cup Connections

WheelType(w) ==
  /\ w = [l \in Levels |-> [i \in Slot(l) |-> w[l][i]]]
  /\ \A l \in Levels : \A i \in Slot(l) : w[l][i] \subseteq [e : Entries, rest : 0 .. Unit[l] - 1]

(* Every slot holds entries with less than a unit of its wheel left *)
TypeOK ==
  /\ now \in Nat /\ lastTs \in Nat /\ tick \in Nat
  /\ WheelType(wheels)
  /\ timer \in [Timers -> [on : BOOLEAN, delay : Nat \ {0}, every : BOOLEAN, at : Nat, since : Nat]]
  /\ conn \in [Connections -> [used : BOOLEAN, open : BOOLEAN, active : Nat]]
  /\ corrupt \in BOOLEAN

(* The tick at which entry r in slot i of the second or minute wheel acts *)
ActsAt(l, i, r) ==
  IF l = "second" THEN tick + i + 1 ELSE (tick \div Minute + i + 1) * Minute + r.rest

(* The tick at which a timer of less than an hour fires: a delay of less   *)
(* than a minute is exact, a longer one counts from the last full minute.  *)
Expected(t) ==
  timer[t].at + timer[t].delay - (IF timer[t].delay < Minute THEN 0 ELSE timer[t].at % Minute)

(* A timer of less than an hour that has not fired is in the second or the *)
(* minute wheel, where it fires when it is expected to, once (insertEntry, *)
(* popUp, and the migration from minutes to seconds inside popUp).         *)
Punctual ==
  ~corrupt =>
    \A t \in Timers : timer[t].delay < Hour =>
      /\ timer[t].on => Held(wheels, t)
      /\ \A l \in Levels : \A i \in Slot(l) : \A r \in wheels[l][i] :
           r.e = t => timer[t].on /\ l \in {"second", "minute"} /\ ActsAt(l, i, r) = Expected(t)

(* A connection is open as long as its last activity is less than IdleTime *)
(* ticks ago and no longer, whatever references extendLife has left in the *)
(* wheel.                                                                  *)
IdleExactly ==
  ~corrupt => \A c \in Connections :
    conn[c].open <=> conn[c].used /\ tick < conn[c].active + IdleTime

(* By the clock, a timer of less than a minute fires at most a second      *)
(* before its time, however irregular the rounds of the loop are: after    *)
(* the first tick, which may follow at once, ticks are at least a second   *)
(* apart (last_ts_ = now).                                                 *)
AtMostASecondEarly ==
  [][\A t \in Timers :
       OnTimer /\ Fires(t) /\ timer[t].delay < Minute =>
         now - timer[t].since >= (timer[t].delay - 1) * Second]_vars
=============================================================================
