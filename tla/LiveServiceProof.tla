-------------------------- MODULE LiveServiceProof --------------------------
(***************************************************************************)
(* Proofs about LiveService, for any number of loops, connections and      *)
(* commands: whoever destroys a user closes its connection, a stream has   *)
(* one publisher, no threads wait for each other, and users and sessions   *)
(* fit each other and the commands.                                        *)
(*                                                                         *)
(* The predicates on stacks take the state as parameters, us for user and  *)
(* ss for session, so that lemmas about them speak of both ends of a step. *)
(***************************************************************************)
EXTENDS LiveService, FiniteSetTheorems, SequenceTheorems, TLAPS

UserRecord    == [kind : {"play", "publish"}, conn : Conns, session : Nat, destroyed : BOOLEAN]
SessionRecord == [publisher : Nat \cup {None}, players : SUBSET Nat]

UserOps   == {"addPlayer", "setPublisher", "publisher", "closeUser", "closed", "closeNoLock", "remove"}
LockNames == {<<"service">>} \cup ({"session"} \X Nat) \cup ({"loop"} \X Loops)

Steps ==
  ({"create"} \X [kind : {"play", "publish"}, conn : Conns])
  \cup ({"join"} \X [kind : {"play", "publish"}, conn : Conns, session : Nat])
  \cup (UserOps \X Nat) \cup ({"onClose", "push"} \X Conns) \cup ({"notify", "tasks"} \X Loops)
  \cup ({"activeAll", "clear", "noPlayers"} \X Nat) \cup ({"erase"} \X {None})
  \cup ({"release"} \X LockNames)

Types ==
  /\ todo \in [Threads -> Seq(Steps)]
  /\ queue \in [Loops -> Seq({"onClose"} \X Conns)]
  /\ closed \in [Conns -> BOOLEAN]
  /\ context \in [Conns -> Nat \cup {None}]
  /\ user \in Seq(UserRecord) /\ session \in Seq(SessionRecord)
  /\ current \in Nat \cup {None}

-----------------------------------------------------------------------------
(* What a step needs to be right, wherever it is in a stack *)

(* A connection is being closed, or closed: one of its users is destroyed  *)
Gone(us, c) == \E u \in 1 .. Len(us) : us[u].conn = c /\ us[u].destroyed

(* Reused, of the users us *)
Twice(us) == \E u, v \in 1 .. Len(us) : u # v /\ us[u].conn = us[v].conn

Fits(us, n, e) ==
  /\ e[1] \in UserOps => e[2] \in 1 .. Len(us)
  /\ e[1] \in {"closed", "remove"} => us[e[2]].destroyed
  /\ e[1] \in {"setPublisher", "publisher"} => us[e[2]].kind = "publish"
  /\ e[1] = "addPlayer" => us[e[2]].kind = "play"
  /\ e[1] = "join" => e[2].session \in 1 .. n
  /\ e[1] \in {"activeAll", "clear", "noPlayers"} => e[2] \in 1 .. n
  /\ e[1] = "push" => Gone(us, e[2])

(* Where a step may be in the stack q of the loop l: a loop releases at    *)
(* most one lock, last.                                                    *)
Alone   == {"create", "join", "addPlayer", "setPublisher", "activeAll"}
OnLoops == Alone \cup {"publisher", "onClose", "closeUser", "closed", "push", "notify", "tasks", "release"}

OwnsSession(q) == q[Len(q)][1] = "release" /\ q[Len(q)][2][1] = "session"

Placed(us, l, q, i) ==
  /\ q[i][1] \in OnLoops
  /\ q[i][1] = "release" => i = Len(q) /\ i > 1 /\ (q[i][2][1] = "session" \/ q[i][2] = <<"loop", l>>)
  /\ q[i][1] \in Alone => Len(q) = 1
  /\ q[i][1] = "publisher" => i + 1 = Len(q) /\ q[i + 1] = <<"release", <<"session", us[q[i][2]].session>>>>
  /\ q[i][1] = "notify" => OwnsSession(q)
  /\ q[i][1] = "tasks" => i + 1 = Len(q) /\ q[i + 1] = <<"release", <<"loop", l>>>>
  /\ q[i][1] = "onClose" => Len(q) = 1 \/ Gone(us, q[i][2])
  /\ q[i][1] = "closeUser" => Len(q) = 1 \/ Twice(us) \/ us[q[i][2]].destroyed
  /\ q[i][1] = "closed" => Twice(us) \/ (i = 1 /\ Len(q) = 2 /\ q[2][1] \in {"onClose", "push"})
  /\ q[i][1] = "push" => Twice(us) \/ q[Len(q)][1] # "release" \/ OwnsSession(q)

LoopStack(us, l, q) == \A i \in 1 .. Len(q) : Placed(us, l, q, i)

(* The stack of the task manager's thread: onTimer, and clear inside it    *)
ClearStack(us, ss, q, s) ==
  /\ Len(q) >= 4
  /\ q[Len(q) - 3] = <<"noPlayers", s>> /\ q[Len(q) - 2] = <<"release", <<"session", s>>>>
  /\ \A i \in 1 .. Len(q) - 4 :
       /\ q[i][1] \in {"closeNoLock", "push", "remove"}
       /\ q[i][1] # "push" => us[q[i][2]].session = s
       /\ q[i][1] = "closeNoLock" /\ us[q[i][2]].kind = "publish" => i = 1 /\ ss[s].publisher = q[i][2]

TimerStack(us, ss, q) ==
  q # <<>> =>
    /\ Len(q) >= 2 /\ q[Len(q)] = <<"release", <<"service">>>> /\ q[Len(q) - 1] = <<"erase", None>>
    /\ \/ Len(q) = 2
       \/ Len(q) = 3 /\ q[1][1] = "clear"
       \/ \E s \in 1 .. Len(ss) : ClearStack(us, ss, q, s)
-----------------------------------------------------------------------------
(* The invariant *)

Listed(us, ss) ==
  /\ \A u \in 1 .. Len(us) : us[u].session \in 1 .. Len(ss)
  /\ \A s \in 1 .. Len(ss) :
       /\ ss[s].publisher # None =>
            /\ ss[s].publisher \in 1 .. Len(us)
            /\ us[ss[s].publisher].kind = "publish" /\ us[ss[s].publisher].session = s
       /\ \A p \in ss[s].players : p \in 1 .. Len(us) /\ us[p].kind = "play" /\ us[p].session = s

Links ==
  /\ current # None => current \in 1 .. Len(session)
  /\ \A c \in Conns : context[c] # None => context[c] \in 1 .. Len(user) /\ user[context[c]].conn = c
  /\ \A l \in Loops : \A i \in 1 .. Len(queue[l]) :
       LoopOf[queue[l][i][2]] = l /\ Gone(user, queue[l][i][2])

StepsFit  == \A t \in Threads : \A i \in 1 .. Len(todo[t]) : Fits(user, Len(session), todo[t][i])
LoopsOK   == \A l \in Loops : LoopStack(user, l, todo[l])
TimerOK   == TimerStack(user, session, todo[Timer])
Exclusive == \A t, w \in Threads : \A lock \in LockNames : Holds(t, lock) /\ Holds(w, lock) => t = w

StackInv == Types /\ Listed(user, session) /\ Links /\ StepsFit /\ LoopsOK /\ TimerOK /\ Exclusive
-----------------------------------------------------------------------------
(* Stacks *)

LEMMA StepTypes ==
  ASSUME NEW e \in Steps
  PROVE  /\ e = <<e[1], e[2]>>
         /\ e[1] = "create" => e[2] \in [kind : {"play", "publish"}, conn : Conns]
         /\ e[1] = "join" => e[2] \in [kind : {"play", "publish"}, conn : Conns, session : Nat]
         /\ e[1] \in UserOps => e[2] \in Nat
         /\ e[1] \in {"onClose", "push"} => e[2] \in Conns
         /\ e[1] \in {"notify", "tasks"} => e[2] \in Loops
         /\ e[1] \in {"activeAll", "clear", "noPlayers"} => e[2] \in Nat
         /\ e[1] = "erase" => e[2] = None
         /\ e[1] = "release" => e[2] \in LockNames
BY DEF Steps, UserOps

LEMMA ConcatTail ==
  ASSUME NEW S, NEW o \in Seq(S), NEW q \in Seq(S), q # <<>>, NEW z, z = o \o Tail(q)
  PROVE  /\ z \in Seq(S) /\ Len(z) = Len(o) + Len(q) - 1
         /\ \A i \in 1 .. Len(z) : z[i] = IF i <= Len(o) THEN o[i] ELSE q[i - Len(o) + 1]
<1>1. Tail(q) \in Seq(S) /\ Len(Tail(q)) = Len(q) - 1 /\ \A i \in 1 .. Len(Tail(q)) : Tail(q)[i] = q[i + 1]
  BY HeadTailProperties
<1>2. /\ z \in Seq(S) /\ Len(z) = Len(o) + Len(Tail(q))
      /\ \A i \in 1 .. Len(o) + Len(Tail(q)) : z[i] = IF i <= Len(o) THEN o[i] ELSE Tail(q)[i - Len(o)]
  BY <1>1, ConcatProperties
<1>. QED BY <1>1, <1>2

LEMMA ReleasedSeq ==
  ASSUME NEW S, NEW s \in Seq(S), NEW z, z = Released(s)
  PROVE  /\ z \in Seq(S)
         /\ \/ /\ z = s
               /\ Len(s) > 0 => s[1][1] # "release"
            \/ /\ Len(s) > 0 /\ s[1][1] = "release" /\ Len(z) = Len(s) - 1
               /\ \A i \in 1 .. Len(z) : z[i] = s[i + 1]
<1>1. CASE s = <<>>
  BY <1>1, EmptySeq DEF Released
<1>2. CASE s # <<>>
  <2>1. Len(s) > 0 /\ Head(s) = s[1]
    BY <1>2
  <2>2. CASE s[1][1] = "release"
    BY <1>2, <2>1, <2>2, HeadTailProperties DEF Released
  <2>3. CASE s[1][1] # "release"
    BY <1>2, <2>1, <2>3 DEF Released
  <2>. QED BY <2>2, <2>3
<1>. QED BY <1>1, <1>2

(* Then: what is in the stack afterwards, and where *)
Follows(z, o, q) ==
  /\ Len(z) = Len(o) + Len(q) - 1
  /\ \A i \in 1 .. Len(z) : z[i] = IF i <= Len(o) THEN o[i] ELSE q[i - Len(o) + 1]
  /\ Len(z) > 0 => z[1][1] # "release"

Drops(z, q) ==
  /\ Len(q) >= 2 /\ q[2][1] = "release" /\ Len(z) = Len(q) - 2
  /\ \A i \in 1 .. Len(z) : z[i] = q[i + 2]

Elements(z, o, q) ==
  /\ \A i \in 1 .. Len(z) : (\E j \in 1 .. Len(o) : z[i] = o[j]) \/ (\E j \in 2 .. Len(q) : z[i] = q[j])
  /\ \A j \in 1 .. Len(o) : \E i \in 1 .. Len(z) : z[i] = o[j]
  /\ \A j \in 2 .. Len(q) : q[j][1] # "release" => \E i \in 1 .. Len(z) : z[i] = q[j]

NoRelease(o) == \A i \in 1 .. Len(o) : o[i][1] # "release"

LEMMA ThenShape ==
  ASSUME NEW o \in Seq(Steps), NEW q \in Seq(Steps), q # <<>>, NoRelease(o),
         NEW z, z = Released(o \o Tail(q))
  PROVE  /\ z \in Seq(Steps)
         /\ Follows(z, o, q) \/ (o = <<>> /\ Drops(z, q))
         /\ Elements(z, o, q)
<1>. DEFINE s == o \o Tail(q)
<1>1. /\ s \in Seq(Steps) /\ Len(s) = Len(o) + Len(q) - 1
      /\ \A i \in 1 .. Len(s) : s[i] = IF i <= Len(o) THEN o[i] ELSE q[i - Len(o) + 1]
  BY ConcatTail
<1>. z = Released(s)
  OBVIOUS
<1>. HIDE DEF s
<1>2. /\ z \in Seq(Steps)
      /\ \/ z = s /\ (Len(s) > 0 => s[1][1] # "release")
         \/ /\ Len(s) > 0 /\ s[1][1] = "release" /\ Len(z) = Len(s) - 1
            /\ \A i \in 1 .. Len(z) : z[i] = s[i + 1]
  BY <1>1, ReleasedSeq
<1>3. CASE z = s /\ (Len(s) > 0 => s[1][1] # "release")
  <2>1. Follows(z, o, q)
    BY <1>1, <1>3 DEF Follows
  <2>2. \A i \in 1 .. Len(z) : (\E j \in 1 .. Len(o) : z[i] = o[j]) \/ (\E j \in 2 .. Len(q) : z[i] = q[j])
    <3>. SUFFICES ASSUME NEW i \in 1 .. Len(z), i > Len(o)
                  PROVE  i - Len(o) + 1 \in 2 .. Len(q) /\ z[i] = q[i - Len(o) + 1]
      BY <2>1 DEF Follows
    <3>. QED BY <2>1 DEF Follows
  <2>3. \A j \in 1 .. Len(o) : j \in 1 .. Len(z) /\ z[j] = o[j]
    BY <2>1 DEF Follows
  <2>4. \A j \in 2 .. Len(q) : j + Len(o) - 1 \in 1 .. Len(z) /\ z[j + Len(o) - 1] = q[j]
    BY <2>1 DEF Follows
  <2>. QED BY <1>2, <2>1, <2>2, <2>3, <2>4 DEF Elements
<1>4. CASE /\ Len(s) > 0 /\ s[1][1] = "release" /\ Len(z) = Len(s) - 1
           /\ \A i \in 1 .. Len(z) : z[i] = s[i + 1]
  <2>1. Len(o) = 0
    BY SMTT(20), <1>1, <1>4 DEF NoRelease
  <2>2. o = <<>>
    BY <2>1
  <2>3. Drops(z, q)
    BY <1>1, <1>4, <2>1 DEF Drops
  <2>4. \A i \in 1 .. Len(z) : i + 2 \in 2 .. Len(q) /\ z[i] = q[i + 2]
    BY <2>3 DEF Drops
  <2>5. \A j \in 2 .. Len(q) : q[j][1] # "release" => j - 2 \in 1 .. Len(z) /\ z[j - 2] = q[j]
    BY <2>3 DEF Drops
  <2>. QED BY <1>2, <2>1, <2>2, <2>3, <2>4, <2>5 DEF Elements
<1>. QED BY <1>2, <1>3, <1>4

(* What is left of a loop's stack is still in its place *)
LEMMA LoopRest ==
  ASSUME NEW us, NEW l, NEW q \in Seq(Steps), q # <<>>, LoopStack(us, l, q),
         NEW o \in Seq(Steps), NoRelease(o), NEW z, z = Released(o \o Tail(q))
  PROVE  /\ Follows(z, o, q) \/ (o = <<>> /\ z = <<>>)
         /\ \A i \in 1 .. Len(z) : i > Len(o) => Placed(us, l, z, i)
<1>1. z \in Seq(Steps) /\ (Follows(z, o, q) \/ (o = <<>> /\ Drops(z, q)))
  BY ThenShape
<1>2. CASE o = <<>> /\ Drops(z, q)
  <2>1. Len(q) = 2
    BY <1>2 DEF Drops, LoopStack, Placed
  <2>. QED BY <1>1, <1>2, <2>1 DEF Drops
<1>3. CASE Follows(z, o, q)
  <2>. SUFFICES ASSUME NEW i \in 1 .. Len(z), i > Len(o)
                PROVE  Placed(us, l, z, i)
    BY <1>3
  <2>. DEFINE j == i - Len(o) + 1
  <2>1. j \in 2 .. Len(q) /\ z[i] = q[j] /\ Placed(us, l, q, j)
    BY <1>3 DEF Follows, LoopStack
  <2>2. z[Len(z)] = q[Len(q)] /\ Len(z) >= 1 /\ (i = Len(z) <=> j = Len(q))
    <3>1. Len(z) \in 1 .. Len(z) /\ Len(z) > Len(o) /\ Len(z) - Len(o) + 1 = Len(q) /\ Len(z) >= 1
      BY <1>1, <1>3 DEF Follows
    <3>2. z[Len(z)] = q[Len(z) - Len(o) + 1]
      BY <1>3, <3>1 DEF Follows
    <3>. QED BY <3>1, <3>2
  <2>3. j + 1 = Len(q) => i + 1 = Len(z) /\ z[i + 1] = q[j + 1]
    BY SMTT(20), <1>3, <2>1 DEF Follows
  <2>4. q[j][1] = "release" => i > 1
    BY <1>3, <2>1 DEF Follows
  <2>. HIDE DEF j
  <2>5. z[i][1] \in OnLoops /\ z[i][1] \notin Alone
    BY <2>1 DEF Placed
  <2>6. OwnsSession(z) <=> OwnsSession(q)
    BY <2>2 DEF OwnsSession
  <2>7. z[i][1] = "release" => i = Len(z) /\ i > 1 /\ (z[i][2][1] = "session" \/ z[i][2] = <<"loop", l>>)
    BY <2>1, <2>2, <2>4 DEF Placed
  <2>8. /\ z[i][1] = "publisher" => i + 1 = Len(z) /\ z[i + 1] = <<"release", <<"session", us[z[i][2]].session>>>>
        /\ z[i][1] = "tasks" => i + 1 = Len(z) /\ z[i + 1] = <<"release", <<"loop", l>>>>
    BY <2>1, <2>3 DEF Placed
  <2>9. /\ z[i][1] = "onClose" => Gone(us, z[i][2])
        /\ z[i][1] = "closeUser" => Twice(us) \/ us[z[i][2]].destroyed
        /\ z[i][1] = "closed" => Twice(us)
    BY <2>1 DEF Placed
  <2>10. /\ z[i][1] = "notify" => OwnsSession(z)
         /\ z[i][1] = "push" => Twice(us) \/ z[Len(z)][1] # "release" \/ OwnsSession(z)
    BY <2>1, <2>2, <2>6 DEF Placed
  <2>. QED BY <2>5, <2>7, <2>8, <2>9, <2>10 DEF Placed
<1>. QED BY <1>1, <1>2, <1>3

LEMMA PopNone ==
  ASSUME NEW us, NEW l, NEW q \in Seq(Steps), q # <<>>, LoopStack(us, l, q),
         NEW z, z = Released(<<>> \o Tail(q))
  PROVE  LoopStack(us, l, z)
<1>1. <<>> \in Seq(Steps) /\ Len(<<>>) = 0 /\ NoRelease(<<>>)
  BY DEF NoRelease
<1>2. \A i \in 1 .. Len(z) : i > 0 => Placed(us, l, z, i)
  BY <1>1, LoopRest
<1>. QED BY <1>2 DEF LoopStack

LEMMA PopOne ==
  ASSUME NEW us, NEW l, NEW q \in Seq(Steps), q # <<>>, LoopStack(us, l, q),
         NEW e \in Steps,
         \/ e[1] \in Alone /\ Len(q) = 1
         \/ e[1] = "closeUser" /\ (Len(q) = 1 \/ Twice(us) \/ us[e[2]].destroyed),
         NEW z, z = Released(<<e>> \o Tail(q))
  PROVE  LoopStack(us, l, z)
<1>1. <<e>> \in Seq(Steps) /\ Len(<<e>>) = 1 /\ NoRelease(<<e>>)
  BY DEF NoRelease, Alone
<1>2. Follows(z, <<e>>, q) /\ \A i \in 1 .. Len(z) : i > 1 => Placed(us, l, z, i)
  BY <1>1, LoopRest
<1>3. Len(z) = Len(q) /\ z[1] = e
  BY <1>1, <1>2 DEF Follows
<1>4. Placed(us, l, z, 1)
  BY <1>3 DEF Placed, Alone, OnLoops
<1>. QED BY <1>2, <1>4 DEF LoopStack

LEMMA PopClosed ==
  ASSUME NEW us, NEW l, NEW q \in Seq(Steps), q # <<>>, LoopStack(us, l, q),
         NEW e \in Steps, NEW f \in Steps, Len(q) = 1 \/ Twice(us),
         e[1] = "closed", f[1] \in {"onClose", "push"}, Gone(us, f[2]),
         NEW z, z = Released(<<e, f>> \o Tail(q))
  PROVE  LoopStack(us, l, z)
<1>. DEFINE o == <<e, f>>
<1>1. o \in Seq(Steps) /\ Len(o) = 2 /\ o[1] = e /\ o[2] = f
  OBVIOUS
<1>2. z = Released(o \o Tail(q))
  OBVIOUS
<1>. HIDE DEF o
<1>3. NoRelease(o)
  BY <1>1 DEF NoRelease
<1>4. o # <<>>
  <2>1. o = <<>> => Len(o) = 0
    OBVIOUS
  <2>. QED BY <1>1, <2>1
<1>5. Follows(z, o, q) /\ \A i \in 1 .. Len(z) : i > Len(o) => Placed(us, l, z, i)
  BY <1>1, <1>2, <1>3, <1>4, LoopRest
<1>6. \A i \in 1 .. Len(z) : i > 2 => Placed(us, l, z, i)
  BY <1>1, <1>5
<1>7. Len(q) \in Nat /\ Len(q) >= 1
  OBVIOUS
<1>8. Len(z) = Len(q) + 1 /\ z[1] = e /\ z[2] = f
  BY <1>1, <1>5, <1>7 DEF Follows
<1>9. Placed(us, l, z, 1)
  <2>1. z[1][1] = "closed" /\ z[1][1] \in OnLoops /\ z[1][1] \notin Alone
    BY <1>8 DEF Alone, OnLoops
  <2>2. Len(q) = 1 => Len(z) = 2 /\ z[2][1] \in {"onClose", "push"}
    BY <1>8
  <2>. QED BY <2>1, <2>2 DEF Placed
<1>10. Placed(us, l, z, 2)
  <2>1. z[2][1] \in {"onClose", "push"} /\ z[2][1] \in OnLoops /\ z[2][1] \notin Alone /\ Gone(us, z[2][2])
    BY <1>8 DEF Alone, OnLoops
  <2>2. Len(q) = 1 => z[Len(z)][1] # "release"
    <3>1. Len(q) = 1 => Len(z) = 2
      BY <1>8
    <3>. QED BY <2>1, <3>1
  <2>. QED BY <2>1, <2>2 DEF Placed
<1>11. \A i \in 1 .. Len(z) : i = 1 \/ i = 2 \/ i > 2
  BY <1>8
<1>. QED BY <1>6, <1>9, <1>10, <1>11 DEF LoopStack

LEMMA PopTask ==
  ASSUME NEW us, NEW l \in Loops, NEW q \in Seq(Steps), q # <<>>, LoopStack(us, l, q),
         q[1][1] = "tasks", NEW e \in Steps, e[1] = "onClose", Gone(us, e[2]), NEW f \in Steps, f[1] = "tasks",
         NEW z, z = Released(<<e, f>> \o Tail(q))
  PROVE  LoopStack(us, l, z)
<1>. DEFINE o == <<e, f>>
<1>1. o \in Seq(Steps) /\ Len(o) = 2 /\ o[1] = e /\ o[2] = f
  OBVIOUS
<1>2. z = Released(o \o Tail(q))
  OBVIOUS
<1>. HIDE DEF o
<1>3. NoRelease(o)
  BY <1>1 DEF NoRelease
<1>4. o # <<>>
  <2>1. o = <<>> => Len(o) = 0
    OBVIOUS
  <2>. QED BY <1>1, <2>1
<1>5. Follows(z, o, q) /\ \A i \in 1 .. Len(z) : i > Len(o) => Placed(us, l, z, i)
  BY <1>1, <1>2, <1>3, <1>4, LoopRest
<1>6. \A i \in 1 .. Len(z) : i > 2 => Placed(us, l, z, i)
  BY <1>1, <1>5
<1>7. Len(q) = 2 /\ q[2] = <<"release", <<"loop", l>>>>
  <2>1. Placed(us, l, q, 1)
    BY DEF LoopStack
  <2>. QED BY <2>1 DEF Placed
<1>8. Len(z) = 3 /\ z[1] = e /\ z[2] = f /\ z[3] = <<"release", <<"loop", l>>>>
  <2>1. Len(z) = 3
    BY <1>1, <1>5, <1>7 DEF Follows
  <2>2. \A i \in 1 .. 3 : z[i] = IF i <= 2 THEN o[i] ELSE q[i - 1]
    <3>1. \A i \in 1 .. Len(z) : z[i] = IF i <= Len(o) THEN o[i] ELSE q[i - Len(o) + 1]
      BY <1>5 DEF Follows
    <3>2. \A i \in 1 .. 3 : i - Len(o) + 1 = i - 1
      BY <1>1
    <3>. QED BY <1>1, <2>1, <3>1, <3>2
  <2>3. z[1] = o[1] /\ z[2] = o[2] /\ z[3] = q[2]
    BY <2>2
  <2>. QED BY <1>1, <1>7, <2>1, <2>3
<1>9. Placed(us, l, z, 1)
  <2>1. z[1][1] = "onClose" /\ z[1][1] \in OnLoops /\ z[1][1] \notin Alone /\ Gone(us, z[1][2])
    BY <1>8 DEF Alone, OnLoops
  <2>. QED BY <2>1 DEF Placed
<1>10. Placed(us, l, z, 2)
  <2>1. z[2][1] = "tasks" /\ z[2][1] \in OnLoops /\ z[2][1] \notin Alone
    BY <1>8 DEF Alone, OnLoops
  <2>2. 2 + 1 = Len(z) /\ z[2 + 1] = <<"release", <<"loop", l>>>>
    BY <1>8
  <2>. QED BY <2>1, <2>2 DEF Placed
<1>11. \A i \in 1 .. Len(z) : i = 1 \/ i = 2 \/ i > 2
  BY <1>8
<1>. QED BY <1>6, <1>9, <1>10, <1>11 DEF LoopStack
-----------------------------------------------------------------------------
(* Users and sessions grow, and what was right stays right *)

Extends(us, us2) ==
  /\ Len(us) <= Len(us2)
  /\ \A u \in 1 .. Len(us) :
       /\ us2[u].kind = us[u].kind /\ us2[u].conn = us[u].conn /\ us2[u].session = us[u].session
       /\ us[u].destroyed => us2[u].destroyed

LEMMA GoneStays ==
  ASSUME NEW us \in Seq(UserRecord), NEW us2 \in Seq(UserRecord), Extends(us, us2)
  PROVE  /\ Twice(us) => Twice(us2)
         /\ \A c : Gone(us, c) => Gone(us2, c)
<1>1. \A u \in 1 .. Len(us) : u \in 1 .. Len(us2)
  BY DEF Extends
<1>2. \A c : Gone(us, c) => Gone(us2, c)
  BY <1>1 DEF Gone, Extends
<1>3. Twice(us) => Twice(us2)
  <2>. SUFFICES ASSUME NEW u \in 1 .. Len(us), NEW v \in 1 .. Len(us), u # v, us[u].conn = us[v].conn
                PROVE  Twice(us2)
    BY DEF Twice
  <2>1. u \in 1 .. Len(us2) /\ v \in 1 .. Len(us2) /\ us2[u].conn = us2[v].conn
    BY <1>1 DEF Extends
  <2>. QED BY <2>1 DEF Twice
<1>. QED BY <1>2, <1>3

LEMMA FitsStays ==
  ASSUME NEW us \in Seq(UserRecord), NEW us2 \in Seq(UserRecord), Extends(us, us2),
         NEW n \in Nat, NEW n2 \in Nat, n <= n2, NEW e, Fits(us, n, e)
  PROVE  Fits(us2, n2, e)
<1>1. \A u \in 1 .. Len(us) : u \in 1 .. Len(us2)
  BY DEF Extends
<1>2. e[1] \in UserOps =>
        /\ e[2] \in 1 .. Len(us) /\ e[2] \in 1 .. Len(us2)
        /\ us2[e[2]].kind = us[e[2]].kind /\ (us[e[2]].destroyed => us2[e[2]].destroyed)
  BY <1>1 DEF Fits, Extends
<1>3. \A k \in 1 .. n : k \in 1 .. n2
  OBVIOUS
<1>. QED BY <1>2, <1>3, GoneStays DEF Fits, UserOps

LEMMA LoopStays ==
  ASSUME NEW us \in Seq(UserRecord), NEW us2 \in Seq(UserRecord), Extends(us, us2),
         NEW n, NEW l, NEW q, LoopStack(us, l, q), \A i \in 1 .. Len(q) : Fits(us, n, q[i])
  PROVE  LoopStack(us2, l, q)
<1>. SUFFICES ASSUME NEW i \in 1 .. Len(q)
              PROVE  Placed(us2, l, q, i)
  BY DEF LoopStack
<1>1. Placed(us, l, q, i) /\ Fits(us, n, q[i])
  BY DEF LoopStack
<1>2. q[i][1] \in {"publisher", "closeUser"} =>
        us2[q[i][2]].session = us[q[i][2]].session /\ (us[q[i][2]].destroyed => us2[q[i][2]].destroyed)
  BY <1>1 DEF Fits, UserOps, Extends
<1>. QED BY <1>1, <1>2, GoneStays DEF Placed

LEMMA SetToSeqIn ==
  ASSUME NEW S, IsFiniteSet(S)
  PROVE  /\ Cardinality(S) \in Nat
         /\ \A i \in 1 .. Cardinality(S) : SetToSeq(S)[i] \in S
<1>1. Cardinality(S) \in Nat /\ ExistsBijection(1 .. Cardinality(S), S)
  BY FS_CardinalityType
<1>2. \E f \in [1 .. Cardinality(S) -> S] : IsInjective(f)
  BY <1>1 DEF ExistsBijection, Bijection, Injection, IsInjective
<1>3. SetToSeq(S) \in [1 .. Cardinality(S) -> S]
  BY <1>2 DEF SetToSeq
<1>. QED BY <1>1, <1>3

(* The locks that are released in q *)
HoldsIn(q, lock) == \E i \in 1 .. Len(q) : q[i][1] = "release" /\ q[i][2] = lock

LEMMA HoldsInStack ==
  ASSUME todo \in [Threads -> Seq(Steps)], NEW t \in Threads, NEW lock
  PROVE  Holds(t, lock) <=> HoldsIn(todo[t], lock)
<1>1. todo[t] \in Seq(Steps)
  OBVIOUS
<1>2. \A i \in 1 .. Len(todo[t]) : todo[t][i] = <<todo[t][i][1], todo[t][i][2]>>
  BY <1>1, StepTypes
<1>. QED BY <1>2 DEF Holds, HoldsIn

LEMMA NotEmpty ==
  ASSUME NEW S, NEW q \in Seq(S), Len(q) > 0
  PROVE  q # <<>>
OBVIOUS

LEMMA ThenParts ==
  ASSUME NEW o \in Seq(Steps), NEW q \in Seq(Steps), q # <<>>, NoRelease(o),
         NEW z, z = Released(o \o Tail(q))
  PROVE  /\ z \in Seq(Steps)
         /\ \A lock : HoldsIn(z, lock) => HoldsIn(q, lock)
         /\ \A us, n : /\ \A i \in 1 .. Len(o) : Fits(us, n, o[i])
                       /\ \A i \in 1 .. Len(q) : Fits(us, n, q[i])
                       => \A i \in 1 .. Len(z) : Fits(us, n, z[i])
<1>1. z \in Seq(Steps) /\ Elements(z, o, q)
  BY ThenShape
<1>2. \A i \in 1 .. Len(z) : (\E j \in 1 .. Len(o) : z[i] = o[j]) \/ (\E j \in 1 .. Len(q) : z[i] = q[j])
  BY <1>1 DEF Elements
<1>3. \A lock : HoldsIn(z, lock) => HoldsIn(q, lock)
  <2>. SUFFICES ASSUME NEW lock, NEW i \in 1 .. Len(z), z[i][1] = "release", z[i][2] = lock
                PROVE  \E j \in 1 .. Len(q) : q[j][1] = "release" /\ q[j][2] = lock
    BY DEF HoldsIn
  <2>. QED BY <1>2 DEF NoRelease
<1>. QED BY <1>1, <1>2, <1>3

(* Holding: ops, the release, and what was there *)
Among(e, r, o, q) == e = r \/ (\E j \in 1 .. Len(o) : e = o[j]) \/ (\E j \in 1 .. Len(q) : e = q[j])

Stacked(o, r, q) == o \o <<r>> \o Tail(q)

LEMMA HoldingShape ==
  ASSUME NEW o \in Seq(Steps), o # <<>>, NEW q \in Seq(Steps), q # <<>>, NEW r \in Steps
  PROVE  /\ Stacked(o, r, q) \in Seq(Steps) /\ Len(Stacked(o, r, q)) = Len(o) + Len(q)
         /\ \A i \in 1 .. Len(o) : Stacked(o, r, q)[i] = o[i]
         /\ Stacked(o, r, q)[Len(o) + 1] = r
         /\ \A i \in 2 .. Len(q) : Stacked(o, r, q)[i + Len(o)] = q[i]
         /\ \A i \in 1 .. Len(Stacked(o, r, q)) : Among(Stacked(o, r, q)[i], r, o, q)
<1>. DEFINE s == o \o <<r>>
            z == Stacked(o, r, q)
<1>1. <<r>> \in Seq(Steps) /\ Len(<<r>>) = 1 /\ <<r>>[1] = r
  OBVIOUS
<1>2. /\ s \in Seq(Steps) /\ Len(s) = Len(o) + Len(<<r>>)
      /\ \A i \in 1 .. Len(o) + Len(<<r>>) : s[i] = IF i <= Len(o) THEN o[i] ELSE <<r>>[i - Len(o)]
  BY <1>1, ConcatProperties
<1>3. z = s \o Tail(q)
  BY DEF Stacked
<1>. HIDE DEF s, z
<1>4. Len(o) \in Nat /\ Len(q) \in Nat /\ Len(q) > 0
  OBVIOUS
<1>5. Len(s) = Len(o) + 1 /\ (\A i \in 1 .. Len(o) : s[i] = o[i]) /\ s[Len(o) + 1] = r
  <2>1. Len(s) = Len(o) + 1
    BY <1>1, <1>2
  <2>2. \A i \in 1 .. Len(o) : s[i] = o[i]
    BY <1>1, <1>2, <1>4
  <2>3. s[Len(o) + 1] = r
    <3>1. Len(o) + 1 \in 1 .. Len(o) + Len(<<r>>) /\ ~(Len(o) + 1 <= Len(o)) /\ Len(o) + 1 - Len(o) = 1
      BY <1>1, <1>4
    <3>. QED BY <1>1, <1>2, <3>1
  <2>. QED BY <2>1, <2>2, <2>3
<1>6. s \in Seq(Steps)
  BY <1>2
<1>7. /\ z \in Seq(Steps) /\ Len(z) = Len(s) + Len(q) - 1
      /\ \A i \in 1 .. Len(z) : z[i] = IF i <= Len(s) THEN s[i] ELSE q[i - Len(s) + 1]
  <2>1. Tail(q) \in Seq(Steps) /\ Len(Tail(q)) = Len(q) - 1 /\ \A i \in 1 .. Len(Tail(q)) : Tail(q)[i] = q[i + 1]
    BY HeadTailProperties
  <2>2. /\ z \in Seq(Steps) /\ Len(z) = Len(s) + Len(Tail(q))
        /\ \A i \in 1 .. Len(s) + Len(Tail(q)) : z[i] = IF i <= Len(s) THEN s[i] ELSE Tail(q)[i - Len(s)]
    <3>1. Tail(q) \in Seq(Steps)
      BY <2>1
    <3>2. /\ s \o Tail(q) \in Seq(Steps) /\ Len(s \o Tail(q)) = Len(s) + Len(Tail(q))
          /\ \A i \in 1 .. Len(s) + Len(Tail(q)) : (s \o Tail(q))[i] = IF i <= Len(s) THEN s[i] ELSE Tail(q)[i - Len(s)]
      BY <1>6, <3>1, ConcatProperties
    <3>. QED BY <1>3, <3>2
  <2>3. Len(s) \in Nat
    BY <1>6
  <2>. QED BY <1>4, <2>1, <2>2, <2>3
<1>8. Len(z) = Len(o) + Len(q)
  BY <1>4, <1>5, <1>7
<1>9. \A i \in 1 .. Len(o) : z[i] = o[i]
  BY SMTT(20), <1>4, <1>5, <1>7
<1>10. z[Len(o) + 1] = r
  BY <1>4, <1>5, <1>7
<1>11. \A i \in 2 .. Len(q) : z[i + Len(o)] = q[i]
  <2>. SUFFICES ASSUME NEW i \in 2 .. Len(q)
                PROVE  z[i + Len(o)] = q[i]
    OBVIOUS
  <2>1. i + Len(o) \in 1 .. Len(z) /\ ~(i + Len(o) <= Len(s)) /\ i + Len(o) - Len(s) + 1 = i
    BY <1>4, <1>5, <1>8
  <2>. QED BY SMTT(20), <1>7, <2>1
<1>12. ASSUME NEW i \in 1 .. Len(z)
       PROVE  Among(z[i], r, o, q)
  <2>1. CASE i <= Len(o)
    <3>1. i \in 1 .. Len(o)
      BY <2>1
    <3>. QED BY <1>9, <3>1 DEF Among
  <2>2. CASE i = Len(o) + 1
    BY <1>10, <2>2 DEF Among
  <2>3. CASE i > Len(o) + 1
    <3>1. i - Len(o) \in 2 .. Len(q) /\ i - Len(o) \in 1 .. Len(q) /\ (i - Len(o)) + Len(o) = i
      BY <1>4, <1>8, <2>3
    <3>2. z[i] = q[i - Len(o)]
      BY <1>11, <3>1
    <3>. QED BY <3>1, <3>2 DEF Among
  <2>. QED BY <1>4, <2>1, <2>2, <2>3
<1>. QED BY <1>7, <1>8, <1>9, <1>10, <1>11, <1>12 DEF z

(* A loop that takes the lock of a session *)
LEMMA HoldingLoop ==
  ASSUME NEW us, NEW l, NEW s \in Nat,
         NEW r \in Steps, r = <<"release", <<"session", s>>>>,
         NEW o \in Seq(Steps), o # <<>>,
         \A i \in 1 .. Len(o) :
           /\ o[i][1] \in {"notify", "onClose", "push", "publisher"}
           /\ o[i][1] = "onClose" => Gone(us, o[i][2])
           /\ o[i][1] = "publisher" => i = Len(o) /\ us[o[i][2]].session = s,
         NEW z, Len(z) = Len(o) + 1, \A i \in 1 .. Len(o) : z[i] = o[i], z[Len(o) + 1] = r
  PROVE  LoopStack(us, l, z)
<1>3. Len(o) \in Nat /\ Len(o) > 0 /\ Len(z) = Len(o) + 1
  OBVIOUS
<1>4. z[Len(z)] = r /\ r[1] = "release" /\ r[2] = <<"session", s>> /\ r[2][1] = "session"
  BY <1>3
<1>5. OwnsSession(z)
  BY <1>4 DEF OwnsSession
<1>. SUFFICES ASSUME NEW i \in 1 .. Len(z)
              PROVE  Placed(us, l, z, i)
  BY DEF LoopStack
<1>6. CASE i = Len(z)
  <2>1. z[i][1] = "release" /\ z[i][2][1] = "session" /\ i > 1
    BY <1>3, <1>4, <1>6
  <2>2. z[i][1] \in OnLoops /\ z[i][1] \notin Alone
    BY <2>1 DEF OnLoops, Alone
  <2>. QED BY <1>6, <2>1, <2>2 DEF Placed
<1>7. CASE i # Len(z)
  <2>1. i \in 1 .. Len(o) /\ z[i] = o[i]
    BY <1>3, <1>7
  <2>2. z[i][1] \in {"notify", "onClose", "push", "publisher"} /\ z[i][1] \in OnLoops /\ z[i][1] \notin Alone
    BY <2>1 DEF OnLoops, Alone
  <2>3. z[i][1] = "onClose" => Gone(us, z[i][2])
    BY <2>1
  <2>4. z[i][1] = "publisher" => i + 1 = Len(z) /\ z[i + 1] = <<"release", <<"session", us[z[i][2]].session>>>>
    <3>. SUFFICES ASSUME z[i][1] = "publisher"
                  PROVE  i + 1 = Len(z) /\ us[z[i][2]].session = s
      BY <1>4
    <3>. QED BY <1>3, <2>1
  <2>. QED BY <1>5, <2>2, <2>3, <2>4 DEF Placed
<1>. QED BY <1>6, <1>7

LEMMA AtLeast ==
  ASSUME NEW m \in Nat, NEW n \in Nat, m >= n
  PROVE  m = n \/ m >= n + 1
OBVIOUS

(* What is left of the stack of the task manager while it clears a session *)
LEMMA TimerHead ==
  ASSUME NEW us, NEW ss, NEW q \in Seq(Steps), q # <<>>, TimerStack(us, ss, q)
  PROVE  /\ q[1][1] \in {"clear", "erase", "closeNoLock", "push", "remove", "noPlayers"}
         /\ q[1][1] = "erase" => Len(q) = 2
         /\ q[1][1] = "clear" => Len(q) = 3
         /\ q[1][1] = "noPlayers" => Len(q) = 4
         /\ q[1][1] \in {"closeNoLock", "push", "remove"} => Len(q) >= 5 /\ \E s \in 1 .. Len(ss) : ClearStack(us, ss, q, s)
<1>1. Len(q) \in Nat /\ Len(q) >= 2 /\ q[Len(q)] = <<"release", <<"service">>>> /\ q[Len(q) - 1] = <<"erase", None>>
  BY DEF TimerStack
<1>2. CASE Len(q) = 2
  <2>1. q[1] = <<"erase", None>>
    BY <1>1, <1>2
  <2>. QED BY <1>2, <2>1
<1>3. CASE Len(q) = 3 /\ q[1][1] = "clear"
  BY <1>3
<1>4. CASE \E s \in 1 .. Len(ss) : ClearStack(us, ss, q, s)
  <2>1. PICK s \in 1 .. Len(ss) : ClearStack(us, ss, q, s)
    BY <1>4
  <2>2. CASE Len(q) = 4
    <3>1. q[1] = <<"noPlayers", s>>
      BY <2>1, <2>2 DEF ClearStack
    <3>. QED BY <2>2, <3>1
  <2>3. CASE Len(q) >= 4 + 1
    <3>1. 1 \in 1 .. Len(q) - 4
      BY <1>1, <2>3
    <3>2. q[1][1] \in {"closeNoLock", "push", "remove"}
      BY <2>1, <3>1 DEF ClearStack
    <3>. QED BY <1>4, <2>3, <3>2
  <2>4. Len(q) >= 4
    BY <2>1 DEF ClearStack
  <2>. QED BY <1>1, <2>2, <2>3, <2>4, AtLeast
<1>. QED BY <1>2, <1>3, <1>4 DEF TimerStack

LEMMA TimerRest ==
  ASSUME NEW us, NEW ss, NEW q \in Seq(Steps), q # <<>>, TimerStack(us, ss, q),
         q[1][1] \in {"closeNoLock", "push", "remove"},
         NEW o \in Seq(Steps),
         \A i \in 1 .. Len(o) : \/ o[i][1] = "push"
                                \/ /\ o[i][1] = "remove" /\ q[1][1] = "closeNoLock"
                                   /\ us[o[i][2]].session = us[q[1][2]].session,
         NEW ss2, Len(ss) \in Nat, Len(ss2) \in Nat, Len(ss) <= Len(ss2),
         NEW z, z = Released(o \o Tail(q))
  PROVE  TimerStack(us, ss2, z)
<1>1. Len(q) >= 5 /\ Len(q) \in Nat /\ Len(o) \in Nat
  BY TimerHead
<1>2. PICK s \in 1 .. Len(ss) : ClearStack(us, ss, q, s)
  BY TimerHead
<1>3. q[Len(q)] = <<"release", <<"service">>>> /\ q[Len(q) - 1] = <<"erase", None>>
  BY DEF TimerStack
<1>4. q[Len(q) - 3] = <<"noPlayers", s>> /\ q[Len(q) - 2] = <<"release", <<"session", s>>>>
  BY <1>2 DEF ClearStack
<1>5. \A i \in 1 .. Len(q) - 4 :
        /\ q[i][1] \in {"closeNoLock", "push", "remove"}
        /\ q[i][1] # "push" => us[q[i][2]].session = s
        /\ q[i][1] = "closeNoLock" /\ us[q[i][2]].kind = "publish" => i = 1 /\ ss[s].publisher = q[i][2]
  BY <1>2 DEF ClearStack
<1>6. q[2][1] # "release"
  <2>1. CASE Len(q) = 5
    BY <1>4, <2>1
  <2>2. CASE Len(q) >= 5 + 1
    <3>1. 2 \in 1 .. Len(q) - 4
      BY <1>1, <2>2
    <3>. QED BY <1>5, <3>1
  <2>. QED BY <1>1, <2>1, <2>2, AtLeast
<1>7. NoRelease(o)
  BY DEF NoRelease
<1>8. z \in Seq(Steps) /\ Follows(z, o, q)
  BY <1>6, <1>7, ThenShape DEF Drops
<1>9. Len(z) = Len(o) + Len(q) - 1 /\ \A i \in 1 .. Len(z) : z[i] = IF i <= Len(o) THEN o[i] ELSE q[i - Len(o) + 1]
  BY <1>8 DEF Follows
<1>10. \A k \in 0 .. 3 : z[Len(z) - k] = q[Len(q) - k]
  <2>. SUFFICES ASSUME NEW k \in 0 .. 3
                PROVE  z[Len(z) - k] = q[Len(q) - k]
    OBVIOUS
  <2>1. Len(z) - k \in 1 .. Len(z) /\ ~(Len(z) - k <= Len(o)) /\ (Len(z) - k) - Len(o) + 1 = Len(q) - k
    BY <1>1, <1>9
  <2>. QED BY <1>9, <2>1
<1>11. ASSUME NEW i \in 1 .. Len(z) - 4
       PROVE  /\ z[i][1] \in {"closeNoLock", "push", "remove"}
              /\ z[i][1] # "push" => us[z[i][2]].session = s
              /\ z[i][1] = "closeNoLock" => us[z[i][2]].kind # "publish"
  <2>1. CASE i <= Len(o)
    <3>1. i \in 1 .. Len(o) /\ z[i] = o[i]
      BY SMTT(20), <1>1, <1>9, <2>1
    <3>2. 1 \in 1 .. Len(q) - 4
      BY <1>1
    <3>3. q[1][1] = "closeNoLock" => us[q[1][2]].session = s
      BY <1>5, <3>2
    <3>. QED BY <3>1, <3>3
  <2>2. CASE i > Len(o)
    <3>1. i - Len(o) + 1 \in 1 .. Len(q) - 4 /\ i - Len(o) + 1 # 1
      BY <1>1, <1>9, <2>2
    <3>2. i \in 1 .. Len(z) /\ ~(i <= Len(o))
      BY <1>1, <1>9, <2>2
    <3>3. z[i] = q[i - Len(o) + 1]
      BY <1>9, <3>2
    <3>. QED BY <1>5, <3>1, <3>3
  <2>. QED BY <1>1, <2>1, <2>2
<1>12. Len(z) >= 4
  BY <1>1, <1>9
<1>13. z[Len(z)] = q[Len(q)] /\ z[Len(z) - 1] = q[Len(q) - 1] /\ z[Len(z) - 2] = q[Len(q) - 2] /\ z[Len(z) - 3] = q[Len(q) - 3]
  BY <1>1, <1>9, <1>10, <1>12
<1>14. ClearStack(us, ss2, z, s)
  BY <1>4, <1>11, <1>12, <1>13 DEF ClearStack
<1>15. s \in 1 .. Len(ss2)
  OBVIOUS
<1>16. Len(z) >= 2
  BY <1>1, <1>9
<1>. QED BY <1>3, <1>13, <1>14, <1>15, <1>16 DEF TimerStack

LEMMA TimerDrops ==
  ASSUME NEW us, NEW ss, NEW q \in Seq(Steps), q # <<>>, TimerStack(us, ss, q),
         q[1][1] \in {"erase", "noPlayers"}, NEW ss2,
         NEW z, z = Released(<<>> \o Tail(q))
  PROVE  TimerStack(us, ss2, z)
<1>1. <<>> \in Seq(Steps) /\ Len(<<>>) = 0 /\ NoRelease(<<>>)
  BY DEF NoRelease
<1>2. z \in Seq(Steps) /\ (Follows(z, <<>>, q) \/ Drops(z, q))
  BY <1>1, ThenShape
<1>3. q[Len(q)] = <<"release", <<"service">>>> /\ q[Len(q) - 1] = <<"erase", None>>
  BY DEF TimerStack
<1>4. CASE q[1][1] = "erase"
  <2>1. Len(q) = 2 /\ q[2][1] = "release"
    BY <1>3, <1>4, TimerHead
  <2>2. Follows(z, <<>>, q) => Len(z) = 1 /\ z[1] = q[2] /\ z[1][1] # "release"
    <3>. SUFFICES ASSUME Follows(z, <<>>, q)
                  PROVE  Len(z) = 1 /\ z[1] = q[2] /\ z[1][1] # "release"
      OBVIOUS
    <3>1. Len(z) = 1
      BY <1>1, <2>1 DEF Follows
    <3>2. \A i \in 1 .. 1 : z[i] = IF i <= 0 THEN <<>>[i] ELSE q[i - 0 + 1]
      BY <1>1, <3>1 DEF Follows
    <3>. QED BY <3>1, <3>2 DEF Follows
  <2>3. Len(z) = 0
    BY <1>2, <2>1, <2>2 DEF Drops
  <2>. QED BY <1>2, <2>3 DEF TimerStack
<1>5. CASE q[1][1] = "noPlayers"
  <2>1. Len(q) = 4
    BY <1>5, TimerHead
  <2>2. PICK s \in 1 .. Len(ss) : ClearStack(us, ss, q, s)
    <3>1. Len(q) # 2 /\ Len(q) # 3
      BY <2>1
    <3>. QED BY <3>1 DEF TimerStack
  <2>3. q[2] = <<"release", <<"session", s>>>>
    BY <2>1, <2>2 DEF ClearStack
  <2>4. ~Follows(z, <<>>, q)
    <3>. SUFFICES ASSUME Follows(z, <<>>, q)
                  PROVE  FALSE
      OBVIOUS
    <3>1. Len(z) = 3
      BY <1>1, <2>1 DEF Follows
    <3>2. \A i \in 1 .. 3 : z[i] = IF i <= 0 THEN <<>>[i] ELSE q[i - 0 + 1]
      BY <1>1, <3>1 DEF Follows
    <3>3. z[1] = q[2]
      BY <3>2
    <3>. QED BY <2>3, <3>1, <3>3 DEF Follows
  <2>5. Drops(z, q)
    BY <1>2, <2>4
  <2>6. Len(z) = 2
    BY <2>1, <2>5 DEF Drops
  <2>7. z[1] = q[3] /\ z[2] = q[4]
    BY <2>5, <2>6 DEF Drops
  <2>8. q[4] = <<"release", <<"service">>>> /\ q[3] = <<"erase", None>>
    BY <1>3, <2>1
  <2>9. Len(z) >= 2 /\ z[Len(z)] = <<"release", <<"service">>>> /\ z[Len(z) - 1] = <<"erase", None>>
    <3>1. Len(z) >= 2 /\ Len(z) - 1 = 1
      <4>1. 2 >= 2 /\ 2 - 1 = 1
        OBVIOUS
      <4>. QED BY <2>6, <4>1, Zenon
    <3>2. z[Len(z)] = z[2] /\ z[Len(z) - 1] = z[1]
      BY <2>6, <3>1
    <3>3. z[2] = <<"release", <<"service">>>> /\ z[1] = <<"erase", None>>
      BY <2>7, <2>8
    <3>. QED BY <3>1, <3>2, <3>3
  <2>. QED BY <2>6, <2>9 DEF TimerStack
<1>. QED BY <1>4, <1>5

(* onTimer finds a session to clear, and clear begins *)
LEMMA TimerBegins ==
  ASSUME NEW us, NEW ss, NEW z \in Seq(Steps), Len(z) = 3, z[1][1] = "clear",
         z[2] = <<"erase", None>>, z[3] = <<"release", <<"service">>>>
  PROVE  TimerStack(us, ss, z)
BY DEF TimerStack

LEMMA TimerClears ==
  ASSUME NEW us, NEW ss, Len(ss) \in Nat, NEW q \in Seq(Steps), q # <<>>, TimerStack(us, ss, q), q[1][1] = "clear",
         NEW s \in 1 .. Len(ss), NEW o \in Seq(Steps), NEW n \in Nat, Len(o) = n + 1,
         o[n + 1] = <<"noPlayers", s>>,
         \A i \in 1 .. n : /\ o[i][1] = "closeNoLock" /\ us[o[i][2]].session = s
                           /\ us[o[i][2]].kind = "publish" => i = 1 /\ ss[s].publisher = o[i][2],
         NEW z, Len(z) = Len(o) + Len(q), \A i \in 1 .. Len(o) : z[i] = o[i],
         z[Len(o) + 1] = <<"release", <<"session", s>>>>, \A i \in 2 .. Len(q) : z[i + Len(o)] = q[i]
  PROVE  TimerStack(us, ss, z)
<1>1. Len(q) = 3
  BY TimerHead
<1>2. q[3] = <<"release", <<"service">>>> /\ q[2] = <<"erase", None>>
  BY <1>1 DEF TimerStack
<1>3. Len(z) = n + 4
  BY <1>1
<1>4. z[n + 4] = q[3] /\ z[n + 3] = q[2]
  <2>1. 3 + Len(o) = n + 4 /\ 2 + Len(o) = n + 3 /\ 3 \in 2 .. Len(q) /\ 2 \in 2 .. Len(q)
    BY <1>1
  <2>. QED BY <2>1
<1>5. z[n + 1] = <<"noPlayers", s>> /\ z[n + 2] = <<"release", <<"session", s>>>>
  <2>1. n + 1 \in 1 .. Len(o) /\ Len(o) + 1 = n + 2
    OBVIOUS
  <2>. QED BY <2>1
<1>6. Len(z) - 3 = n + 1 /\ Len(z) - 2 = n + 2 /\ Len(z) - 1 = n + 3 /\ Len(z) - 4 = n /\ Len(z) >= 4
  BY <1>3
<1>7. \A i \in 1 .. n : z[i] = o[i]
  OBVIOUS
<1>8. ClearStack(us, ss, z, s)
  BY <1>5, <1>6, <1>7 DEF ClearStack
<1>. QED BY SMTT(20), <1>2, <1>3, <1>4, <1>6, <1>8 DEF TimerStack

LEMMA TimerStays ==
  ASSUME NEW us \in Seq(UserRecord), NEW us2 \in Seq(UserRecord), Extends(us, us2),
         NEW ss, NEW ss2, Len(ss) \in Nat, Len(ss2) \in Nat, Len(ss) <= Len(ss2),
         NEW n, NEW q \in Seq(Steps), TimerStack(us, ss, q), \A i \in 1 .. Len(q) : Fits(us, n, q[i]),
         \A s \in 1 .. Len(ss) : HoldsIn(q, <<"session", s>>) => ss2[s].publisher = ss[s].publisher
  PROVE  TimerStack(us2, ss2, q)
<1>. SUFFICES ASSUME NEW s \in 1 .. Len(ss), ClearStack(us, ss, q, s)
              PROVE  s \in 1 .. Len(ss2) /\ ClearStack(us2, ss2, q, s)
  BY DEF TimerStack
<1>1. Len(q) \in Nat /\ Len(q) >= 4 /\ q[Len(q) - 2] = <<"release", <<"session", s>>>>
  BY DEF ClearStack
<1>2. HoldsIn(q, <<"session", s>>)
  <2>1. Len(q) - 2 \in 1 .. Len(q)
    BY <1>1
  <2>. QED BY SMTT(20), <1>1, <2>1 DEF HoldsIn
<1>3. ss2[s].publisher = ss[s].publisher
  BY <1>2
<1>4. ASSUME NEW i \in 1 .. Len(q) - 4
      PROVE  /\ q[i][1] \in {"closeNoLock", "push", "remove"}
             /\ q[i][1] # "push" => us2[q[i][2]].session = s
             /\ q[i][1] = "closeNoLock" /\ us2[q[i][2]].kind = "publish" => i = 1 /\ ss2[s].publisher = q[i][2]
  <2>1. i \in 1 .. Len(q)
    BY <1>1
  <2>2. q[i][1] \in {"closeNoLock", "push", "remove"}
    BY DEF ClearStack
  <2>3. q[i][1] # "push" => q[i][2] \in 1 .. Len(us)
    BY <2>1, <2>2 DEF Fits, UserOps
  <2>4. q[i][1] # "push" => us2[q[i][2]].session = us[q[i][2]].session /\ us2[q[i][2]].kind = us[q[i][2]].kind
    BY <2>3 DEF Extends
  <2>. QED BY <1>3, <2>2, <2>4 DEF ClearStack
<1>. QED BY <1>4 DEF ClearStack
-----------------------------------------------------------------------------
(* A step of one thread leaves the stacks of the others in order *)

LEMMA StackStep ==
  ASSUME StackInv, NEW t \in Threads, NEW z \in Seq(Steps), todo' = [todo EXCEPT ![t] = z],
         user' \in Seq(UserRecord), Extends(user, user'),
         session' \in Seq(SessionRecord), Len(session) <= Len(session'),
         \A i \in 1 .. Len(z) : Fits(user', Len(session'), z[i]),
         t \in Loops => LoopStack(user', t, z),
         t = Timer => TimerStack(user', session', z),
         t # Timer => \A s \in 1 .. Len(session) :
           HoldsIn(todo[Timer], <<"session", s>>) => session'[s].publisher = session[s].publisher,
         \A lock \in LockNames : HoldsIn(z, lock) => HoldsIn(todo[t], lock) \/ Free(lock)
  PROVE  todo' \in [Threads -> Seq(Steps)] /\ StepsFit' /\ LoopsOK' /\ TimerOK' /\ Exclusive'
<1>. USE LiveServiceAssumption
<1>1. todo \in [Threads -> Seq(Steps)] /\ user \in Seq(UserRecord) /\ Len(session) \in Nat /\ Len(session') \in Nat
  BY DEF StackInv, Types
<1>2. todo' \in [Threads -> Seq(Steps)]
  BY <1>1
<1>3. todo'[t] = z /\ \A w \in Threads \ {t} : todo'[w] = todo[w]
  BY <1>1
<1>4. StepsFit'
  <2>. SUFFICES ASSUME NEW w \in Threads, NEW i \in 1 .. Len(todo'[w])
                PROVE  Fits(user', Len(session'), todo'[w][i])
    BY DEF StepsFit
  <2>1. CASE w = t
    BY <1>3, <2>1
  <2>2. CASE w # t
    <3>1. Fits(user, Len(session), todo'[w][i])
      BY <1>3, <2>2 DEF StackInv, StepsFit
    <3>. QED BY <1>1, <3>1, FitsStays
  <2>. QED BY <2>1, <2>2
<1>5. LoopsOK'
  <2>. SUFFICES ASSUME NEW l \in Loops
                PROVE  LoopStack(user', l, todo'[l])
    BY DEF LoopsOK
  <2>1. CASE l = t
    BY <1>3, <2>1
  <2>2. CASE l # t
    <3>1. l \in Threads /\ todo'[l] = todo[l]
      BY <1>3, <2>2 DEF Threads
    <3>2. LoopStack(user, l, todo[l])
      BY DEF StackInv, LoopsOK
    <3>3. \A i \in 1 .. Len(todo[l]) : Fits(user, Len(session), todo[l][i])
      BY <3>1 DEF StackInv, StepsFit
    <3>4. LoopStack(user', l, todo[l])
      BY <1>1, <3>2, <3>3, LoopStays
    <3>. QED BY <3>1, <3>4
  <2>. QED BY <2>1, <2>2
<1>6. TimerOK'
  <2>. SUFFICES TimerStack(user', session', todo'[Timer])
    BY DEF TimerOK
  <2>1. CASE Timer = t
    BY <1>3, <2>1
  <2>2. CASE Timer # t
    <3>1. Timer \in Threads /\ todo'[Timer] = todo[Timer] /\ todo[Timer] \in Seq(Steps)
      BY <1>1, <1>3, <2>2 DEF Threads
    <3>2. TimerStack(user, session, todo[Timer])
      BY DEF StackInv, TimerOK
    <3>3. \A i \in 1 .. Len(todo[Timer]) : Fits(user, Len(session), todo[Timer][i])
      BY <3>1 DEF StackInv, StepsFit
    <3>4. \A s \in 1 .. Len(session) : HoldsIn(todo[Timer], <<"session", s>>) => session'[s].publisher = session[s].publisher
      BY <2>2
    <3>5. TimerStack(user', session', todo[Timer])
      BY <1>1, <3>1, <3>2, <3>3, <3>4, TimerStays
    <3>. QED BY <3>1, <3>5
  <2>. QED BY <2>1, <2>2
<1>7. Exclusive'
  <2>1. \A w \in Threads : \A lock : Holds(w, lock)' <=> HoldsIn(todo'[w], lock)
    <3>. SUFFICES ASSUME NEW w \in Threads, NEW lock
                  PROVE  Holds(w, lock)' <=> HoldsIn(todo'[w], lock)
      OBVIOUS
    <3>1. todo'[w] \in Seq(Steps)
      BY <1>2
    <3>2. \A i \in 1 .. Len(todo'[w]) : todo'[w][i] = <<todo'[w][i][1], todo'[w][i][2]>>
      BY <3>1, StepTypes
    <3>. QED BY <3>2 DEF Holds, HoldsIn
  <2>2. \A w \in Threads : \A lock : Holds(w, lock) <=> HoldsIn(todo[w], lock)
    BY <1>1, HoldsInStack
  <2>. SUFFICES ASSUME NEW v \in Threads, NEW w \in Threads, NEW lock \in LockNames,
                       HoldsIn(todo'[v], lock), HoldsIn(todo'[w], lock)
                PROVE  v = w
    BY <2>1 DEF Exclusive
  <2>3. \A x \in Threads : HoldsIn(todo'[x], lock) => HoldsIn(todo[x], lock) \/ (x = t /\ \A y \in Threads : ~HoldsIn(todo[y], lock))
    BY <1>3, <2>2 DEF Free
  <2>4. HoldsIn(todo[v], lock) /\ HoldsIn(todo[w], lock) => v = w
    BY <2>2 DEF StackInv, Exclusive
  <2>. QED BY <2>3, <2>4
<1>. QED BY <1>2, <1>4, <1>5, <1>6, <1>7

LEMMA AtFacts ==
  ASSUME StackInv, NEW t \in Threads, NEW op, At(t, op)
  PROVE  /\ todo[t] \in Seq(Steps) /\ todo[t] # <<>> /\ todo[t][1] \in Steps
         /\ todo[t][1][1] = op /\ todo[t][1][2] = Arg(t)
         /\ 1 \in 1 .. Len(todo[t]) /\ Fits(user, Len(session), todo[t][1])
         /\ t \in Loops => LoopStack(user, t, todo[t]) /\ Placed(user, t, todo[t], 1) /\ op \in OnLoops
         /\ t = Timer => /\ TimerStack(user, session, todo[t])
                         /\ op \in {"clear", "erase", "closeNoLock", "push", "remove", "noPlayers"}
         /\ t \in Loops <=> t # Timer
<1>1. todo[t] \in Seq(Steps) /\ todo[t] # <<>>
  BY DEF StackInv, Types, At, Idle
<1>2. Head(todo[t]) = todo[t][1] /\ 1 \in 1 .. Len(todo[t]) /\ todo[t][1] \in Steps
  BY <1>1
<1>3. todo[t][1][1] = op /\ todo[t][1][2] = Arg(t)
  BY <1>2 DEF At, Arg
<1>4. Fits(user, Len(session), todo[t][1])
  BY <1>2 DEF StackInv, StepsFit
<1>5. t \in Loops => LoopStack(user, t, todo[t]) /\ Placed(user, t, todo[t], 1) /\ op \in OnLoops
  BY <1>2, <1>3 DEF StackInv, LoopsOK, LoopStack, Placed
<1>6. t = Timer => TimerStack(user, session, todo[t])
  BY DEF StackInv, TimerOK
<1>7. t = Timer => op \in {"clear", "erase", "closeNoLock", "push", "remove", "noPlayers"}
  BY <1>1, <1>3, <1>6, TimerHead
<1>8. t \in Loops <=> t # Timer
  BY LiveServiceAssumption DEF Threads
<1>. QED BY <1>1, <1>2, <1>3, <1>4, <1>5, <1>6, <1>7, <1>8

LEMMA ExtendsItself ==
  ASSUME NEW us \in Seq(UserRecord)
  PROVE  Extends(us, us)
BY DEF Extends

LEMMA StackTypes ==
  ASSUME StackInv
  PROVE  /\ user \in Seq(UserRecord) /\ session \in Seq(SessionRecord) /\ todo \in [Threads -> Seq(Steps)]
         /\ Len(user) \in Nat /\ Len(session) \in Nat
         /\ queue \in [Loops -> Seq({"onClose"} \X Conns)]
         /\ closed \in [Conns -> BOOLEAN] /\ context \in [Conns -> Nat \cup {None}]
         /\ current \in Nat \cup {None}
BY DEF StackInv, Types

(* A step that ends with Then *)
LEMMA ThenStep ==
  ASSUME StackInv, NEW t \in Threads, NEW op, At(t, op),
         NEW o \in Seq(Steps), NoRelease(o), Then(t, o),
         user' \in Seq(UserRecord), Extends(user, user'),
         session' \in Seq(SessionRecord), Len(session) <= Len(session'),
         \A i \in 1 .. Len(o) : Fits(user', Len(session'), o[i]),
         t \in Loops => LoopStack(user', t, Released(o \o Tail(todo[t]))),
         t = Timer => TimerStack(user', session', Released(o \o Tail(todo[t]))),
         t # Timer => \A s \in 1 .. Len(session) :
           HoldsIn(todo[Timer], <<"session", s>>) => session'[s].publisher = session[s].publisher
  PROVE  todo' \in [Threads -> Seq(Steps)] /\ StepsFit' /\ LoopsOK' /\ TimerOK' /\ Exclusive'
<1>. DEFINE z == Released(o \o Tail(todo[t]))
<1>1. todo[t] \in Seq(Steps) /\ todo[t] # <<>> /\ user \in Seq(UserRecord) /\ Len(session) \in Nat /\ Len(session') \in Nat
  BY AtFacts, StackTypes
<1>2. todo' = [todo EXCEPT ![t] = z]
  BY DEF Then
<1>3. \A i \in 1 .. Len(todo[t]) : Fits(user', Len(session'), todo[t][i])
  <2>. SUFFICES ASSUME NEW i \in 1 .. Len(todo[t])
                PROVE  Fits(user', Len(session'), todo[t][i])
    OBVIOUS
  <2>1. Fits(user, Len(session), todo[t][i])
    BY DEF StackInv, StepsFit
  <2>. QED BY <1>1, <2>1, FitsStays
<1>4. z = Released(o \o Tail(todo[t]))
  OBVIOUS
<1>. HIDE DEF z
<1>5. /\ z \in Seq(Steps)
      /\ \A lock : HoldsIn(z, lock) => HoldsIn(todo[t], lock)
      /\ \A us, n : /\ \A i \in 1 .. Len(o) : Fits(us, n, o[i])
                    /\ \A i \in 1 .. Len(todo[t]) : Fits(us, n, todo[t][i])
                    => \A i \in 1 .. Len(z) : Fits(us, n, z[i])
  <2>. DEFINE q == todo[t]
  <2>1. q \in Seq(Steps) /\ q # <<>> /\ z = Released(o \o Tail(q))
    BY <1>1, <1>4
  <2>. HIDE DEF q
  <2>2. /\ z \in Seq(Steps)
        /\ \A lock : HoldsIn(z, lock) => HoldsIn(q, lock)
        /\ \A us, n : /\ \A i \in 1 .. Len(o) : Fits(us, n, o[i])
                      /\ \A i \in 1 .. Len(q) : Fits(us, n, q[i])
                      => \A i \in 1 .. Len(z) : Fits(us, n, z[i])
    BY <2>1, ThenParts
  <2>. QED BY <2>2 DEF q
<1>6. \A i \in 1 .. Len(z) : Fits(user', Len(session'), z[i])
  BY <1>3, <1>5
<1>7. (t \in Loops => LoopStack(user', t, z)) /\ (t = Timer => TimerStack(user', session', z))
  BY <1>4
<1>. QED BY <1>2, <1>5, <1>6, <1>7, StackStep

(* The stack of the thread, seen from the state after the step *)
LEMMA StackBefore ==
  ASSUME StackInv, NEW t \in Threads, NEW op, At(t, op),
         user' \in Seq(UserRecord), Extends(user, user')
  PROVE  /\ t \in Loops => LoopStack(user', t, todo[t])
         /\ t = Timer => TimerStack(user', session, todo[t])
<1>1. /\ todo[t] \in Seq(Steps) /\ user \in Seq(UserRecord) /\ Len(session) \in Nat
      /\ t \in Loops => LoopStack(user, t, todo[t])
      /\ t = Timer => TimerStack(user, session, todo[t])
  BY AtFacts, StackTypes
<1>2. \A i \in 1 .. Len(todo[t]) : Fits(user, Len(session), todo[t][i])
  BY DEF StackInv, StepsFit
<1>3. t \in Loops => LoopStack(user', t, todo[t])
  BY <1>1, <1>2, LoopStays
<1>4. t = Timer => TimerStack(user', session, todo[t])
  <2>1. /\ Len(session) <= Len(session)
        /\ \A s \in 1 .. Len(session) : HoldsIn(todo[t], <<"session", s>>) => session[s].publisher = session[s].publisher
    BY <1>1
  <2>. QED BY <1>1, <1>2, <2>1, TimerStays
<1>. QED BY <1>3, <1>4

LEMMA DoneStep ==
  ASSUME StackInv, NEW t \in Threads, NEW op, At(t, op), op # "clear", Then(t, <<>>),
         user' \in Seq(UserRecord), Extends(user, user'),
         session' \in Seq(SessionRecord), Len(session) <= Len(session'),
         t # Timer => \A s \in 1 .. Len(session) :
           HoldsIn(todo[Timer], <<"session", s>>) => session'[s].publisher = session[s].publisher
  PROVE  todo' \in [Threads -> Seq(Steps)] /\ StepsFit' /\ LoopsOK' /\ TimerOK' /\ Exclusive'
<1>1. <<>> \in Seq(Steps) /\ NoRelease(<<>>) /\ \A i \in 1 .. Len(<<>>) : Fits(user', Len(session'), <<>>[i])
  BY DEF NoRelease
<1>2. /\ todo[t] \in Seq(Steps) /\ todo[t] # <<>> /\ todo[t][1][1] = op
      /\ t = Timer => op \in {"clear", "erase", "closeNoLock", "push", "remove", "noPlayers"}
  BY AtFacts
<1>3. /\ t \in Loops => LoopStack(user', t, todo[t])
      /\ t = Timer => TimerStack(user', session, todo[t])
  BY StackBefore
<1>4. t \in Loops => LoopStack(user', t, Released(<<>> \o Tail(todo[t])))
  BY <1>2, <1>3, PopNone
<1>5. t = Timer => TimerStack(user', session', Released(<<>> \o Tail(todo[t])))
  <2>1. CASE t = Timer /\ op \in {"erase", "noPlayers"}
    BY <1>2, <1>3, <2>1, TimerDrops
  <2>2. CASE t = Timer /\ op \in {"closeNoLock", "push", "remove"}
    <3>1. Len(session) \in Nat /\ Len(session') \in Nat
      BY StackTypes
    <3>2. \A i \in 1 .. Len(<<>>) : FALSE
      OBVIOUS
    <3>. QED BY <1>1, <1>2, <1>3, <2>2, <3>1, <3>2, TimerRest
  <2>. QED BY <1>2, <2>1, <2>2
<1>. QED BY <1>1, <1>4, <1>5, ThenStep
-----------------------------------------------------------------------------
(* Users, sessions and what refers to them *)

LEMMA ListedUsers ==
  ASSUME NEW us, NEW us2, NEW ss, Listed(us, ss), Extends(us, us2), Len(us2) = Len(us)
  PROVE  Listed(us2, ss)
<1>1. \A u \in 1 .. Len(us) : us2[u].kind = us[u].kind /\ us2[u].session = us[u].session
  BY DEF Extends
<1>2. \A u \in 1 .. Len(us2) : us2[u].session \in 1 .. Len(ss)
  BY <1>1 DEF Listed
<1>3. ASSUME NEW s \in 1 .. Len(ss), ss[s].publisher # None
      PROVE  /\ ss[s].publisher \in 1 .. Len(us2)
             /\ us2[ss[s].publisher].kind = "publish" /\ us2[ss[s].publisher].session = s
  BY <1>1, <1>3 DEF Listed
<1>4. ASSUME NEW s \in 1 .. Len(ss), NEW p \in ss[s].players
      PROVE  p \in 1 .. Len(us2) /\ us2[p].kind = "play" /\ us2[p].session = s
  BY <1>1 DEF Listed
<1>. QED BY <1>2, <1>3, <1>4 DEF Listed

LEMMA ListedStays ==
  ASSUME StackInv, Extends(user, user'), Len(user') = Len(user), session' = session
  PROVE  Listed(user', session')
<1>1. Listed(user', session)
  BY ListedUsers DEF StackInv
<1>. QED BY <1>1

LEMMA LinksStay ==
  ASSUME StackInv, UNCHANGED <<queue, context, current>>,
         user' \in Seq(UserRecord), Extends(user, user'), session' \in Seq(SessionRecord), Len(session) <= Len(session')
  PROVE  Links'
<1>1. Links /\ user \in Seq(UserRecord) /\ Len(session) \in Nat /\ Len(session') \in Nat
  BY StackTypes DEF StackInv
<1>2. \A u \in 1 .. Len(user) : u \in 1 .. Len(user') /\ user'[u].conn = user[u].conn
  BY <1>1 DEF Extends
<1>3. \A c : Gone(user, c) => Gone(user', c)
  BY <1>1, GoneStays
<1>4. current' # None => current' \in 1 .. Len(session')
  BY <1>1 DEF Links
<1>5. \A c \in Conns : context'[c] # None => context'[c] \in 1 .. Len(user') /\ user'[context'[c]].conn = c
  BY <1>1, <1>2 DEF Links
<1>6. \A l \in Loops : \A i \in 1 .. Len(queue'[l]) : LoopOf[queue'[l][i][2]] = l /\ Gone(user', queue'[l][i][2])
  BY <1>1, <1>3 DEF Links
<1>. QED BY <1>4, <1>5, <1>6 DEF Links

(* A connection is in the queue of its loop *)
LEMMA PushKeeps ==
  ASSUME StackInv, NEW t \in Threads, Push(t)
  PROVE  StackInv'
<1>. DEFINE c == Arg(t)
<1>1. At(t, "push") /\ Then(t, <<>>) /\ UNCHANGED <<closed, context, user, session, current>>
  BY DEF Push
<1>2. todo[t][1] \in Steps /\ todo[t][1][1] = "push" /\ todo[t][1][2] = c /\ Fits(user, Len(session), todo[t][1])
  BY <1>1, AtFacts
<1>3. c \in Conns /\ Gone(user, c)
  BY <1>2, StepTypes DEF Fits
<1>4. /\ user' \in Seq(UserRecord) /\ Extends(user, user')
      /\ session' \in Seq(SessionRecord) /\ Len(session) <= Len(session') /\ session' = session
  BY <1>1, StackTypes, ExtendsItself
<1>5. todo' \in [Threads -> Seq(Steps)] /\ StepsFit' /\ LoopsOK' /\ TimerOK' /\ Exclusive'
  BY <1>1, <1>4, DoneStep
<1>. DEFINE l == LoopOf[c]
            e == <<"onClose", c>>
<1>6. queue' = [queue EXCEPT ![l] = Append(@, e)] /\ l \in Loops /\ e \in {"onClose"} \X Conns /\ e[2] = c
  BY <1>3, LiveServiceAssumption DEF Push
<1>. HIDE DEF e
<1>7. queue \in [Loops -> Seq({"onClose"} \X Conns)]
  BY StackTypes
<1>8. queue[l] \in Seq({"onClose"} \X Conns) /\ queue'[l] = Append(queue[l], e) /\ queue'[l] \in Seq({"onClose"} \X Conns)
  BY <1>6, <1>7
<1>9. queue' \in [Loops -> Seq({"onClose"} \X Conns)] /\ \A m \in Loops \ {l} : queue'[m] = queue[m]
  BY <1>6, <1>7, <1>8
<1>10. Types'
  BY <1>1, <1>4, <1>5, <1>9, StackTypes DEF Types
<1>11. Listed(user', session')
  BY <1>1, <1>4, ListedStays
<1>12. Links'
  <2>1. Links
    BY DEF StackInv
  <2>2. ASSUME NEW m \in Loops, NEW i \in 1 .. Len(queue'[m])
        PROVE  LoopOf[queue'[m][i][2]] = m /\ Gone(user', queue'[m][i][2])
    <3>1. CASE m # l
      BY <1>1, <1>9, <2>1, <3>1 DEF Links
    <3>2. CASE m = l
      <4>1. \/ i \in 1 .. Len(queue[l]) /\ queue'[l][i] = queue[l][i]
            \/ queue'[l][i] = e
        BY <1>8, <3>2
      <4>2. i \in 1 .. Len(queue[l]) /\ queue'[l][i] = queue[l][i] => LoopOf[queue'[m][i][2]] = m /\ Gone(user', queue'[m][i][2])
        BY <1>1, <1>6, <2>1, <3>2 DEF Links
      <4>. QED BY <1>1, <1>3, <1>6, <3>2, <4>1, <4>2
    <3>. QED BY <3>1, <3>2
  <2>. QED BY <1>1, <2>1, <2>2 DEF Links
<1>. QED BY <1>5, <1>10, <1>11, <1>12 DEF StackInv

LEMMA DataStays ==
  ASSUME StackInv, UNCHANGED <<queue, closed, context, user, session, current>>,
         todo' \in [Threads -> Seq(Steps)], StepsFit', LoopsOK', TimerOK', Exclusive'
  PROVE  StackInv'
<1>1. /\ user' \in Seq(UserRecord) /\ Extends(user, user') /\ Len(user') = Len(user)
      /\ session' \in Seq(SessionRecord) /\ Len(session) <= Len(session') /\ session' = session
  BY StackTypes, ExtendsItself
<1>2. Types'
  BY StackTypes DEF Types
<1>3. Listed(user', session') /\ Links'
  BY <1>1, ListedStays, LinksStay
<1>. QED BY <1>2, <1>3 DEF StackInv

LEMMA NotifyKeeps ==
  ASSUME StackInv, NEW t \in Threads, Notify(t)
  PROVE  StackInv'
<1>1. At(t, "notify") /\ Then(t, <<>>) /\ UNCHANGED <<queue, closed, context, user, session, current>>
  BY DEF Notify
<1>2. /\ user' \in Seq(UserRecord) /\ Extends(user, user')
      /\ session' \in Seq(SessionRecord) /\ Len(session) <= Len(session') /\ session' = session
  BY <1>1, StackTypes, ExtendsItself
<1>3. todo' \in [Threads -> Seq(Steps)] /\ StepsFit' /\ LoopsOK' /\ TimerOK' /\ Exclusive'
  BY <1>1, <1>2, DoneStep
<1>. QED BY <1>1, <1>3, DataStays

LEMMA RunFrontKeeps ==
  ASSUME StackInv, NEW l \in Loops, RunFront(l)
  PROVE  StackInv'
<1>1. l \in Threads /\ l # Timer
  BY LiveServiceAssumption DEF Threads
<1>2. At(l, "tasks") /\ UNCHANGED <<closed, context, user, session, current>>
  BY DEF RunFront
<1>3. /\ todo[l] \in Seq(Steps) /\ todo[l] # <<>> /\ todo[l][1] \in Steps /\ LoopStack(user, l, todo[l])
      /\ todo[l][1][1] = "tasks"
  BY <1>1, <1>2, AtFacts
<1>4. /\ user' \in Seq(UserRecord) /\ Extends(user, user') /\ Len(user') = Len(user) /\ user' = user
      /\ session' \in Seq(SessionRecord) /\ Len(session) <= Len(session') /\ session' = session
  BY <1>2, StackTypes, ExtendsItself
<1>5. CASE queue[l] = <<>>
  <2>1. Then(l, <<>>) /\ UNCHANGED queue
    BY <1>5 DEF RunFront
  <2>2. todo' \in [Threads -> Seq(Steps)] /\ StepsFit' /\ LoopsOK' /\ TimerOK' /\ Exclusive'
    BY <1>1, <1>2, <1>4, <2>1, DoneStep
  <2>. QED BY <1>2, <2>1, <2>2, DataStays
<1>6. CASE queue[l] # <<>>
  <2>. DEFINE e == Head(queue[l])
              f == <<"tasks", l>>
              o == <<e, f>>
  <2>1. Then(l, o) /\ queue' = [queue EXCEPT ![l] = Tail(@)]
    BY <1>6 DEF RunFront
  <2>2. queue[l] \in Seq({"onClose"} \X Conns)
    BY StackTypes
  <2>3. e \in {"onClose"} \X Conns /\ e = queue[l][1] /\ 1 \in 1 .. Len(queue[l])
    BY <1>6, <2>2
  <2>4. e \in Steps /\ e[1] = "onClose" /\ Gone(user, e[2])
    BY <2>3 DEF StackInv, Links, Steps
  <2>5. f \in Steps /\ f[1] = "tasks"
    BY DEF Steps
  <2>. HIDE DEF e, f
  <2>6. o \in Seq(Steps) /\ NoRelease(o) /\ \A i \in 1 .. Len(o) : o[i] = e \/ o[i] = f
    BY <2>4, <2>5 DEF NoRelease
  <2>7. \A i \in 1 .. Len(o) : Fits(user', Len(session'), o[i])
    BY <2>4, <2>5, <2>6 DEF Fits, UserOps
  <2>8. LoopStack(user', l, Released(o \o Tail(todo[l])))
    BY <1>3, <1>4, <2>4, <2>5, PopTask
  <2>9. todo' \in [Threads -> Seq(Steps)] /\ StepsFit' /\ LoopsOK' /\ TimerOK' /\ Exclusive'
    BY <1>1, <1>2, <1>4, <2>1, <2>6, <2>7, <2>8, ThenStep
  <2>10. Tail(queue[l]) \in Seq({"onClose"} \X Conns) /\ \A i \in 1 .. Len(Tail(queue[l])) : i + 1 \in 1 .. Len(queue[l]) /\ Tail(queue[l])[i] = queue[l][i + 1]
    BY <1>6, <2>2
  <2>11. /\ queue' \in [Loops -> Seq({"onClose"} \X Conns)]
         /\ queue'[l] = Tail(queue[l]) /\ \A m \in Loops \ {l} : queue'[m] = queue[m]
    BY <2>1, <2>10, StackTypes
  <2>12. Types'
    BY <1>2, <1>4, <2>9, <2>11, StackTypes DEF Types
  <2>13. Links'
    <3>1. Links
      BY DEF StackInv
    <3>2. ASSUME NEW m \in Loops, NEW i \in 1 .. Len(queue'[m])
          PROVE  LoopOf[queue'[m][i][2]] = m /\ Gone(user', queue'[m][i][2])
      <4>1. \E j \in 1 .. Len(queue[m]) : queue'[m][i] = queue[m][j]
        BY <2>10, <2>11
      <4>. QED BY <1>2, <3>1, <4>1 DEF Links
    <3>. QED BY <1>2, <3>1, <3>2 DEF Links
  <2>14. Listed(user', session')
    BY <1>4, ListedStays
  <2>. QED BY <2>9, <2>12, <2>13, <2>14 DEF StackInv
<1>. QED BY <1>5, <1>6

LEMMA OnCloseKeeps ==
  ASSUME StackInv, NEW t \in Threads, OnClose(t)
  PROVE  StackInv'
<1>. DEFINE c == Arg(t)
            q == todo[t]
<1>1. At(t, "onClose") /\ UNCHANGED <<queue, user, session, current>>
  BY DEF OnClose
<1>2. /\ closed' = [closed EXCEPT ![c] = TRUE] /\ context' = [context EXCEPT ![c] = None]
      /\ Then(t, IF closed[c] \/ context[c] = None THEN <<>> ELSE <<<<"closeUser", context[c]>>>>)
  BY DEF OnClose
<1>3. /\ q \in Seq(Steps) /\ q # <<>> /\ q[1] \in Steps /\ q[1][1] = "onClose" /\ q[1][2] = c
      /\ t \in Loops /\ t # Timer /\ LoopStack(user, t, q) /\ Placed(user, t, q, 1)
  BY <1>1, AtFacts
<1>4. c \in Conns
  BY <1>3, StepTypes
<1>5. /\ user' \in Seq(UserRecord) /\ Extends(user, user') /\ Len(user') = Len(user) /\ user' = user
      /\ session' \in Seq(SessionRecord) /\ Len(session) <= Len(session') /\ session' = session
  BY <1>1, StackTypes, ExtendsItself
<1>6. todo' \in [Threads -> Seq(Steps)] /\ StepsFit' /\ LoopsOK' /\ TimerOK' /\ Exclusive'
  <2>1. CASE closed[c] \/ context[c] = None
    <3>1. Then(t, <<>>)
      BY <1>2, <2>1
    <3>. QED BY <1>1, <1>3, <1>5, <3>1, DoneStep
  <2>2. CASE ~(closed[c] \/ context[c] = None)
    <3>. DEFINE e == <<"closeUser", context[c]>>
    <3>1. Then(t, <<e>>)
      BY <1>2, <2>2
    <3>2. context[c] \in 1 .. Len(user) /\ user[context[c]].conn = c
      BY <1>4, <2>2 DEF StackInv, Links
    <3>3. e \in Steps /\ e[1] = "closeUser" /\ e[2] = context[c]
      BY <3>2 DEF Steps, UserOps
    <3>. HIDE DEF e
    <3>4. Len(q) = 1 \/ Gone(user, c)
      BY <1>3 DEF Placed
    <3>5. Gone(user, c) => Twice(user) \/ user[e[2]].destroyed
      BY <3>2, <3>3 DEF Gone, Twice
    <3>6. Len(q) = 1 \/ Twice(user') \/ user'[e[2]].destroyed
      BY <1>5, <3>4, <3>5
    <3>. DEFINE o == <<e>>
    <3>7. o \in Seq(Steps) /\ NoRelease(o) /\ \A i \in 1 .. Len(o) : o[i] = e
      BY <3>3 DEF NoRelease
    <3>8. Fits(user', Len(session'), e)
      BY <1>5, <3>2, <3>3 DEF Fits
    <3>9. LoopStack(user', t, Released(o \o Tail(q)))
      BY <1>3, <1>5, <3>3, <3>6, PopOne
    <3>10. \A i \in 1 .. Len(o) : Fits(user', Len(session'), o[i])
      BY <3>7, <3>8
    <3>. QED BY <1>1, <1>3, <1>5, <3>1, <3>7, <3>9, <3>10, ThenStep
  <2>. QED BY <2>1, <2>2
<1>7. closed' \in [Conns -> BOOLEAN] /\ context' \in [Conns -> Nat \cup {None}]
  BY <1>2, <1>4, StackTypes
<1>8. Types'
  BY <1>1, <1>5, <1>6, <1>7, StackTypes DEF Types
<1>9. Links'
  <2>1. Links
    BY DEF StackInv
  <2>2. \A d \in Conns : context'[d] # None => context'[d] = context[d]
    BY <1>2, <1>4, StackTypes
  <2>. QED BY <1>1, <2>1, <2>2 DEF Links
<1>10. Listed(user', session')
  BY <1>5, ListedStays
<1>. QED BY <1>6, <1>8, <1>9, <1>10 DEF StackInv

Destroyed(us, u) == [us EXCEPT ![u].destroyed = TRUE]

LEMMA Destroy ==
  ASSUME NEW us \in Seq(UserRecord), NEW u \in 1 .. Len(us)
  PROVE  /\ Destroyed(us, u) \in Seq(UserRecord) /\ Len(Destroyed(us, u)) = Len(us)
         /\ Extends(us, Destroyed(us, u)) /\ Destroyed(us, u)[u].destroyed
         /\ \A v \in 1 .. Len(us) : v # u => Destroyed(us, u)[v] = us[v]
<1>. DEFINE r   == [us[u] EXCEPT !.destroyed = TRUE]
            us2 == Destroyed(us, u)
<1>1. us[u] \in UserRecord
  OBVIOUS
<1>2. r \in UserRecord /\ r.kind = us[u].kind /\ r.conn = us[u].conn /\ r.session = us[u].session /\ r.destroyed
  BY <1>1 DEF UserRecord
<1>3. us2 = [us EXCEPT ![u] = r]
  BY DEF Destroyed
<1>. HIDE DEF r, us2
<1>4. us2 \in Seq(UserRecord) /\ Len(us2) = Len(us) /\ \A v \in 1 .. Len(us) : us2[v] = IF v = u THEN r ELSE us[v]
  <2>1. /\ [us EXCEPT ![u] = r] \in Seq(UserRecord) /\ Len([us EXCEPT ![u] = r]) = Len(us)
        /\ \A v \in 1 .. Len(us) : [us EXCEPT ![u] = r][v] = IF v = u THEN r ELSE us[v]
    BY <1>2, ExceptSeq
  <2>. QED BY <1>3, <2>1
<1>5. Extends(us, us2)
  BY <1>2, <1>4 DEF Extends
<1>. QED BY <1>2, <1>4, <1>5 DEF us2

LEMMA UserDestroyed ==
  ASSUME StackInv, NEW u \in 1 .. Len(user), user' = [user EXCEPT ![u].destroyed = TRUE]
  PROVE  /\ user' \in Seq(UserRecord) /\ Len(user') = Len(user) /\ Extends(user, user')
         /\ user'[u].destroyed /\ user'[u].conn = user[u].conn /\ Gone(user', user[u].conn)
         /\ \A v \in 1 .. Len(user) : v # u => user'[v] = user[v]
<1>1. user \in Seq(UserRecord)
  BY StackTypes
<1>2. user' = Destroyed(user, u)
  BY DEF Destroyed
<1>3. /\ Destroyed(user, u) \in Seq(UserRecord) /\ Len(Destroyed(user, u)) = Len(user)
      /\ Extends(user, Destroyed(user, u)) /\ Destroyed(user, u)[u].destroyed
      /\ \A v \in 1 .. Len(user) : v # u => Destroyed(user, u)[v] = user[v]
  BY <1>1, Destroy
<1>4. user'[u].conn = user[u].conn
  BY <1>1, <1>2, <1>3 DEF Extends
<1>5. Gone(user', user[u].conn)
  BY <1>2, <1>3, <1>4 DEF Gone
<1>. QED BY <1>2, <1>3, <1>4, <1>5

(* What forceClose of a destroyed user's connection leaves to be done *)
LEMMA ForceCloses ==
  ASSUME NEW t, NEW c \in Conns
  PROVE  \E f \in Steps : /\ ForceClose(t, c) = <<f>> /\ f[2] = c
                          /\ f[1] = IF LoopOf[c] = t THEN "onClose" ELSE "push"
<1>1. CASE LoopOf[c] = t
  <2>1. <<"onClose", c>> \in Steps
    BY DEF Steps
  <2>. QED BY <1>1, <2>1 DEF ForceClose
<1>2. CASE LoopOf[c] # t
  <2>1. <<"push", c>> \in Steps
    BY DEF Steps
  <2>. QED BY <1>2, <2>1 DEF ForceClose
<1>. QED BY <1>1, <1>2

LEMMA PairOfSteps ==
  ASSUME NEW e \in Steps, NEW f \in Steps
  PROVE  <<e>> \o <<f>> = <<e, f>>
<1>1. /\ <<e>> \in Seq(Steps) /\ <<f>> \in Seq(Steps) /\ Len(<<e>>) = 1 /\ Len(<<f>>) = 1
      /\ <<e>>[1] = e /\ <<f>>[1] = f
  OBVIOUS
<1>2. /\ <<e>> \o <<f>> \in Seq(Steps) /\ Len(<<e>> \o <<f>>) = Len(<<e>>) + Len(<<f>>)
      /\ \A i \in 1 .. Len(<<e>>) + Len(<<f>>) : (<<e>> \o <<f>>)[i] = IF i <= Len(<<e>>) THEN <<e>>[i] ELSE <<f>>[i - Len(<<e>>)]
  BY <1>1, ConcatProperties
<1>. DEFINE z == <<e>> \o <<f>>
            y == <<e, f>>
<1>3. z \in Seq(Steps) /\ Len(z) = 2 /\ z[1] = e /\ z[2] = f
  BY <1>1, <1>2
<1>4. y \in Seq(Steps) /\ Len(y) = 2 /\ y[1] = e /\ y[2] = f
  OBVIOUS
<1>. HIDE DEF z, y
<1>5. \A i \in 1 .. Len(z) : z[i] = y[i]
  BY <1>3, <1>4
<1>6. z = y
  BY <1>3, <1>4, <1>5, SeqEqual
<1>. QED BY <1>6 DEF z, y

LEMMA CloseUserKeeps ==
  ASSUME StackInv, NEW t \in Threads, CloseUser(t)
  PROVE  StackInv'
<1>. DEFINE u == Arg(t)
            q == todo[t]
<1>1. At(t, "closeUser") /\ UNCHANGED <<queue, closed, context, session, current>>
  BY DEF CloseUser
<1>2. /\ user' = [user EXCEPT ![u].destroyed = TRUE]
      /\ Then(t, IF user[u].destroyed THEN <<>> ELSE <<<<"closed", u>>>> \o ForceClose(t, user[u].conn))
  BY DEF CloseUser
<1>3. /\ q \in Seq(Steps) /\ q # <<>> /\ q[1][1] = "closeUser" /\ q[1][2] = u /\ Fits(user, Len(session), q[1])
      /\ t \in Loops /\ t # Timer /\ Placed(user, t, q, 1)
  BY <1>1, AtFacts
<1>4. u \in 1 .. Len(user) /\ user \in Seq(UserRecord)
  BY <1>3, StackTypes DEF Fits, UserOps
<1>5. /\ user' \in Seq(UserRecord) /\ Len(user') = Len(user) /\ Extends(user, user')
      /\ user'[u].destroyed /\ Gone(user', user[u].conn)
  BY <1>2, <1>4, UserDestroyed
<1>6. session' \in Seq(SessionRecord) /\ Len(session) <= Len(session') /\ session' = session
  BY <1>1, StackTypes
<1>7. LoopStack(user', t, q)
  BY <1>1, <1>3, <1>5, StackBefore
<1>8. todo' \in [Threads -> Seq(Steps)] /\ StepsFit' /\ LoopsOK' /\ TimerOK' /\ Exclusive'
  <2>1. CASE user[u].destroyed
    <3>1. Then(t, <<>>)
      BY <1>2, <2>1
    <3>. QED BY <1>1, <1>3, <1>5, <1>6, <3>1, DoneStep
  <2>2. CASE ~user[u].destroyed
    <3>. DEFINE e == <<"closed", u>>
    <3>1. user[u].conn \in Conns
      <4>1. user[u] \in UserRecord
        BY <1>4
      <4>. QED BY <4>1 DEF UserRecord
    <3>2. PICK f \in Steps : /\ ForceClose(t, user[u].conn) = <<f>> /\ f[2] = user[u].conn
                             /\ f[1] = IF LoopOf[user[u].conn] = t THEN "onClose" ELSE "push"
      BY <3>1, ForceCloses
    <3>3. e \in Steps /\ e[1] = "closed" /\ e[2] = u
      BY <1>4 DEF Steps, UserOps
    <3>4. Then(t, <<e>> \o <<f>>)
      BY <1>2, <2>2, <3>2
    <3>. HIDE DEF e
    <3>5. <<e>> \o <<f>> = <<e, f>>
      BY <3>3, PairOfSteps
    <3>. DEFINE o == <<e, f>>
    <3>6. f[1] \in {"onClose", "push"} /\ Gone(user', f[2])
      BY <1>5, <3>2
    <3>7. o \in Seq(Steps) /\ NoRelease(o) /\ \A i \in 1 .. Len(o) : o[i] = e \/ o[i] = f
      BY <3>3, <3>6 DEF NoRelease
    <3>8. Fits(user', Len(session'), e) /\ Fits(user', Len(session'), f)
      BY <1>4, <1>5, <3>3, <3>6 DEF Fits, UserOps
    <3>9. Len(q) = 1 \/ Twice(user')
      BY <1>3, <1>4, <1>5, <2>2, GoneStays DEF Placed
    <3>10. LoopStack(user', t, Released(o \o Tail(q)))
      BY <1>3, <1>7, <3>3, <3>6, <3>9, PopClosed
    <3>11. \A i \in 1 .. Len(o) : Fits(user', Len(session'), o[i])
      BY <3>7, <3>8
    <3>12. Then(t, o)
      BY <3>4, <3>5
    <3>. QED BY <1>1, <1>3, <1>5, <1>6, <3>7, <3>10, <3>11, <3>12, ThenStep
  <2>. QED BY <2>1, <2>2
<1>9. Types'
  BY <1>1, <1>5, <1>6, <1>8, StackTypes DEF Types
<1>10. Listed(user', session') /\ Links'
  BY <1>1, <1>5, <1>6, ListedStays, LinksStay
<1>. QED BY <1>8, <1>9, <1>10 DEF StackInv

LEMMA SessionUpdate ==
  ASSUME NEW ss \in Seq(SessionRecord), NEW s \in 1 .. Len(ss), NEW r \in SessionRecord,
         NEW ss2, ss2 = [ss EXCEPT ![s] = r]
  PROVE  /\ ss2 \in Seq(SessionRecord) /\ Len(ss2) = Len(ss) /\ ss2[s] = r
         /\ \A k \in 1 .. Len(ss) : k # s => ss2[k] = ss[k]
<1>1. /\ [ss EXCEPT ![s] = r] \in Seq(SessionRecord) /\ Len([ss EXCEPT ![s] = r]) = Len(ss)
      /\ \A k \in 1 .. Len(ss) : [ss EXCEPT ![s] = r][k] = IF k = s THEN r ELSE ss[k]
  BY ExceptSeq
<1>. QED BY <1>1

LEMMA ListedUpdate ==
  ASSUME NEW us, NEW ss, Listed(us, ss), NEW ss2, Len(ss2) = Len(ss), NEW s \in 1 .. Len(ss),
         \A k \in 1 .. Len(ss) : k # s => ss2[k] = ss[k],
         ss2[s].publisher # None =>
           /\ ss2[s].publisher \in 1 .. Len(us)
           /\ us[ss2[s].publisher].kind = "publish" /\ us[ss2[s].publisher].session = s,
         \A p \in ss2[s].players : p \in 1 .. Len(us) /\ us[p].kind = "play" /\ us[p].session = s
  PROVE  Listed(us, ss2)
<1>1. \A u \in 1 .. Len(us) : us[u].session \in 1 .. Len(ss2)
  BY DEF Listed
<1>2. ASSUME NEW k \in 1 .. Len(ss2), ss2[k].publisher # None
      PROVE  /\ ss2[k].publisher \in 1 .. Len(us)
             /\ us[ss2[k].publisher].kind = "publish" /\ us[ss2[k].publisher].session = k
  <2>1. CASE k = s
    BY <1>2, <2>1
  <2>2. CASE k # s
    BY <1>2, <2>2 DEF Listed
  <2>. QED BY <2>1, <2>2
<1>3. ASSUME NEW k \in 1 .. Len(ss2), NEW p \in ss2[k].players
      PROVE  p \in 1 .. Len(us) /\ us[p].kind = "play" /\ us[p].session = k
  <2>1. CASE k = s
    BY <1>3, <2>1
  <2>2. CASE k # s
    BY <1>3, <2>2 DEF Listed
  <2>. QED BY <2>1, <2>2
<1>. QED BY <1>1, <1>2, <1>3 DEF Listed

(* A step that changes one session, and is done *)
LEMMA UpdateKeeps ==
  ASSUME StackInv, NEW t \in Threads, NEW op, At(t, op), op # "clear", Then(t, <<>>),
         UNCHANGED <<queue, closed, context, user, current>>,
         NEW s \in 1 .. Len(session), NEW r \in SessionRecord, session' = [session EXCEPT ![s] = r],
         r.publisher # None =>
           r.publisher \in 1 .. Len(user) /\ user[r.publisher].kind = "publish" /\ user[r.publisher].session = s,
         \A p \in r.players : p \in 1 .. Len(user) /\ user[p].kind = "play" /\ user[p].session = s,
         t # Timer /\ HoldsIn(todo[Timer], <<"session", s>>) => r.publisher = session[s].publisher
  PROVE  StackInv'
<1>1. /\ user' \in Seq(UserRecord) /\ Extends(user, user') /\ Len(user') = Len(user) /\ user' = user
      /\ session \in Seq(SessionRecord)
  BY StackTypes, ExtendsItself
<1>2. /\ session' \in Seq(SessionRecord) /\ Len(session') = Len(session) /\ session'[s] = r
      /\ \A k \in 1 .. Len(session) : k # s => session'[k] = session[k]
  BY <1>1, SessionUpdate
<1>3. Len(session) <= Len(session')
  BY <1>1, <1>2
<1>4. t # Timer => \A k \in 1 .. Len(session) :
        HoldsIn(todo[Timer], <<"session", k>>) => session'[k].publisher = session[k].publisher
  BY <1>2
<1>5. todo' \in [Threads -> Seq(Steps)] /\ StepsFit' /\ LoopsOK' /\ TimerOK' /\ Exclusive'
  BY <1>1, <1>2, <1>3, <1>4, DoneStep
<1>6. Types'
  BY <1>1, <1>2, <1>5, StackTypes DEF Types
<1>7. Listed(user, session')
  <2>. DEFINE ss2 == session'
  <2>1. Listed(user, session)
    BY DEF StackInv
  <2>2. /\ Len(ss2) = Len(session) /\ ss2[s] = r
        /\ \A k \in 1 .. Len(session) : k # s => ss2[k] = session[k]
    BY <1>2
  <2>. HIDE DEF ss2
  <2>3. ss2[s].publisher # None =>
           /\ ss2[s].publisher \in 1 .. Len(user)
           /\ user[ss2[s].publisher].kind = "publish" /\ user[ss2[s].publisher].session = s
    BY <2>2
  <2>4. \A p \in ss2[s].players : p \in 1 .. Len(user) /\ user[p].kind = "play" /\ user[p].session = s
    BY <2>2
  <2>5. Listed(user, ss2)
    BY <2>1, <2>2, <2>3, <2>4, ListedUpdate
  <2>. QED BY <2>5 DEF ss2
<1>8. Listed(user', session') /\ Links'
  BY <1>1, <1>2, <1>3, <1>7, LinksStay
<1>. QED BY <1>5, <1>6, <1>8 DEF StackInv

LEMMA SessionAt ==
  ASSUME StackInv, NEW s \in 1 .. Len(session)
  PROVE  /\ session[s] \in SessionRecord
         /\ session[s].publisher \in Nat \cup {None} /\ session[s].players \subseteq Nat
         /\ session[s].publisher # None =>
              /\ session[s].publisher \in 1 .. Len(user)
              /\ user[session[s].publisher].kind = "publish" /\ user[session[s].publisher].session = s
         /\ \A p \in session[s].players : p \in 1 .. Len(user) /\ user[p].kind = "play" /\ user[p].session = s
<1>1. session[s] \in SessionRecord
  BY StackTypes
<1>2. session[s].publisher \in Nat \cup {None} /\ session[s].players \subseteq Nat
  BY <1>1 DEF SessionRecord
<1>. QED BY <1>1, <1>2 DEF StackInv, Listed

LEMMA UserAt ==
  ASSUME StackInv, NEW u \in 1 .. Len(user)
  PROVE  /\ user[u] \in UserRecord /\ u \in Nat /\ user[u].session \in 1 .. Len(session)
         /\ user[u].conn \in Conns /\ user[u].kind \in {"play", "publish"} /\ user[u].destroyed \in BOOLEAN
<1>1. user[u] \in UserRecord /\ u \in Nat
  BY StackTypes
<1>2. user[u].session \in 1 .. Len(session)
  BY DEF StackInv, Listed
<1>. QED BY <1>1, <1>2 DEF UserRecord

(* The argument of a step about a user is a user *)
LEMMA UserOp ==
  ASSUME StackInv, NEW t \in Threads, NEW op \in UserOps, At(t, op)
  PROVE  Arg(t) \in 1 .. Len(user)
BY AtFacts DEF Fits

LEMMA AddPlayerKeeps ==
  ASSUME StackInv, NEW t \in Threads, AddPlayer(t)
  PROVE  StackInv'
<1>. DEFINE u == Arg(t)
            s == user[u].session
            r == [session[s] EXCEPT !.players = @ \cup {u}]
<1>1. At(t, "addPlayer") /\ Then(t, <<>>) /\ UNCHANGED <<queue, closed, context, user, current>> /\ session' = [session EXCEPT ![s] = r]
  BY DEF AddPlayer
<1>2. "addPlayer" \in UserOps
  BY DEF UserOps
<1>3. u \in 1 .. Len(user) /\ user[u].kind = "play"
  BY <1>1, <1>2, UserOp, AtFacts DEF Fits
<1>4. u \in Nat /\ s \in 1 .. Len(session)
  BY <1>3, UserAt
<1>5. session[s] \in SessionRecord
  BY <1>4, SessionAt
<1>6. r \in SessionRecord /\ r.publisher = session[s].publisher /\ r.players = session[s].players \cup {u}
  BY <1>4, <1>5 DEF SessionRecord
<1>. HIDE DEF r
<1>7. r.publisher # None => r.publisher \in 1 .. Len(user) /\ user[r.publisher].kind = "publish" /\ user[r.publisher].session = s
  BY <1>4, <1>6, SessionAt
<1>8. \A p \in r.players : p \in 1 .. Len(user) /\ user[p].kind = "play" /\ user[p].session = s
  BY <1>3, <1>4, <1>6, SessionAt
<1>. HIDE DEF s
<1>. QED BY <1>1, <1>4, <1>6, <1>7, <1>8, UpdateKeeps

LEMMA AssignPublisherKeeps ==
  ASSUME StackInv, NEW t \in Threads, AssignPublisher(t)
  PROVE  StackInv'
<1>. DEFINE u == Arg(t)
            s == user[u].session
            r == [session[s] EXCEPT !.publisher = u]
            q == todo[t]
<1>1. At(t, "publisher") /\ Then(t, <<>>) /\ UNCHANGED <<queue, closed, context, user, current>> /\ session' = [session EXCEPT ![s] = r]
  BY DEF AssignPublisher
<1>2. "publisher" \in UserOps
  BY DEF UserOps
<1>3. u \in 1 .. Len(user) /\ user[u].kind = "publish"
  BY <1>1, <1>2, UserOp, AtFacts DEF Fits
<1>4. u \in Nat /\ s \in 1 .. Len(session)
  BY <1>3, UserAt
<1>5. session[s] \in SessionRecord
  BY <1>4, SessionAt
<1>6. r \in SessionRecord /\ r.publisher = u /\ r.players = session[s].players
  BY <1>4, <1>5 DEF SessionRecord
<1>. HIDE DEF r
<1>7. r.publisher # None => r.publisher \in 1 .. Len(user) /\ user[r.publisher].kind = "publish" /\ user[r.publisher].session = s
  BY <1>3, <1>6
<1>8. \A p \in r.players : p \in 1 .. Len(user) /\ user[p].kind = "play" /\ user[p].session = s
  BY <1>4, <1>6, SessionAt
<1>9. ~HoldsIn(todo[Timer], <<"session", s>>)
  <2>1. t \in Loops /\ t # Timer /\ Placed(user, t, q, 1) /\ q[1][1] = "publisher" /\ q[1][2] = u /\ q \in Seq(Steps)
    BY <1>1, AtFacts
  <2>2. 1 + 1 = Len(q) /\ q[1 + 1] = <<"release", <<"session", s>>>>
    BY <2>1 DEF Placed
  <2>3. 2 \in 1 .. Len(q) /\ q[2] = <<"release", <<"session", s>>>>
    BY <2>2
  <2>4. HoldsIn(q, <<"session", s>>)
    BY <2>3 DEF HoldsIn
  <2>5. Timer \in Threads /\ <<"session", s>> \in LockNames
    BY <1>4 DEF Threads, LockNames
  <2>. HIDE DEF s
  <2>6. Holds(t, <<"session", s>>) <=> HoldsIn(q, <<"session", s>>)
    BY StackTypes, HoldsInStack
  <2>7. Holds(Timer, <<"session", s>>) <=> HoldsIn(todo[Timer], <<"session", s>>)
    BY <2>5, StackTypes, HoldsInStack
  <2>. QED BY <2>1, <2>4, <2>5, <2>6, <2>7 DEF StackInv, Exclusive
<1>. HIDE DEF s
<1>. QED BY <1>1, <1>4, <1>6, <1>7, <1>8, <1>9, UpdateKeeps

(* Every user is taken for a publisher *)
LEMMA AllTaken ==
  ASSUME StackInv, NEW u \in 1 .. Len(user)
  PROVE  TakenForPublisher(u)
BY UserAt DEF TakenForPublisher, UserType, PlayerWebRTC

LEMMA RemoveUserKeeps ==
  ASSUME StackInv, NEW t \in Threads, RemoveUser(t)
  PROVE  StackInv'
<1>. DEFINE u == Arg(t)
            s == user[u].session
            r == [session[s] EXCEPT !.publisher = None]
<1>1. Then(t, <<>>) /\ UNCHANGED <<queue, closed, context, user, current>>
  BY DEF RemoveUser
<1>2. PICK op \in {"remove", "closed"} : At(t, op) /\ (op = "closed" => Free(<<"session", s>>))
  BY DEF RemoveUser
<1>3. op \in UserOps /\ op # "clear"
  BY <1>2 DEF UserOps
<1>4. u \in 1 .. Len(user)
  BY <1>2, <1>3, UserOp
<1>5. s \in 1 .. Len(session)
  BY <1>4, UserAt
<1>6. session[s] \in SessionRecord /\ TakenForPublisher(u)
  BY <1>4, <1>5, SessionAt, AllTaken
<1>7. /\ r \in SessionRecord /\ r.publisher = None /\ r.players = session[s].players
      /\ session' = [session EXCEPT ![s] = r]
  BY <1>6 DEF SessionRecord, RemoveUser
<1>. HIDE DEF r
<1>8. r.publisher # None => r.publisher \in 1 .. Len(user) /\ user[r.publisher].kind = "publish" /\ user[r.publisher].session = s
  BY <1>5, <1>7, SessionAt
<1>9. \A p \in r.players : p \in 1 .. Len(user) /\ user[p].kind = "play" /\ user[p].session = s
  BY <1>5, <1>7, SessionAt
<1>10. t # Timer => ~HoldsIn(todo[Timer], <<"session", s>>)
  <2>1. t # Timer => op = "closed"
    BY <1>2, AtFacts DEF OnLoops, Alone
  <2>2. Timer \in Threads
    BY DEF Threads
  <2>. HIDE DEF s
  <2>3. Holds(Timer, <<"session", s>>) <=> HoldsIn(todo[Timer], <<"session", s>>)
    BY <2>2, StackTypes, HoldsInStack
  <2>. QED BY <1>2, <2>1, <2>2, <2>3 DEF Free
<1>. HIDE DEF s
<1>. QED BY <1>1, <1>2, <1>3, <1>5, <1>7, <1>8, <1>9, <1>10, UpdateKeeps

LEMMA NoPlayersKeeps ==
  ASSUME StackInv, NoPlayers
  PROVE  StackInv'
<1>. DEFINE s == Arg(Timer)
            r == [session[s] EXCEPT !.players = {}]
<1>1. /\ At(Timer, "noPlayers") /\ Then(Timer, <<>>) /\ UNCHANGED <<queue, closed, context, user, current>>
      /\ session' = [session EXCEPT ![s] = r]
  BY DEF NoPlayers
<1>2. Timer \in Threads
  BY DEF Threads
<1>3. s \in 1 .. Len(session)
  BY <1>1, <1>2, AtFacts DEF Fits
<1>4. session[s] \in SessionRecord
  BY <1>3, SessionAt
<1>5. r \in SessionRecord /\ r.publisher = session[s].publisher /\ r.players = {}
  BY <1>4 DEF SessionRecord
<1>. HIDE DEF r
<1>6. r.publisher # None => r.publisher \in 1 .. Len(user) /\ user[r.publisher].kind = "publish" /\ user[r.publisher].session = s
  BY <1>3, <1>5, SessionAt
<1>7. \A p \in r.players : p \in 1 .. Len(user) /\ user[p].kind = "play" /\ user[p].session = s
  BY <1>5
<1>. HIDE DEF s
<1>. QED BY <1>1, <1>2, <1>3, <1>5, <1>6, <1>7, UpdateKeeps

LEMMA EraseKeeps ==
  ASSUME StackInv, Erase
  PROVE  StackInv'
<1>1. At(Timer, "erase") /\ current' = None /\ Then(Timer, <<>>) /\ UNCHANGED <<queue, closed, context, user, session>>
  BY DEF Erase
<1>2. Timer \in Threads
  BY DEF Threads
<1>3. /\ user' \in Seq(UserRecord) /\ Extends(user, user') /\ Len(user') = Len(user) /\ user' = user
      /\ session' \in Seq(SessionRecord) /\ Len(session) <= Len(session') /\ session' = session
  BY <1>1, StackTypes, ExtendsItself
<1>4. todo' \in [Threads -> Seq(Steps)] /\ StepsFit' /\ LoopsOK' /\ TimerOK' /\ Exclusive'
  BY <1>1, <1>2, <1>3, DoneStep
<1>5. Types'
  BY <1>1, <1>3, <1>4, StackTypes DEF Types
<1>6. Links'
  BY <1>1 DEF StackInv, Links
<1>7. Listed(user', session')
  BY <1>3, ListedStays
<1>. QED BY <1>4, <1>5, <1>6, <1>7 DEF StackInv

LEMMA CloseUserNoLockKeeps ==
  ASSUME StackInv, CloseUserNoLock
  PROVE  StackInv'
<1>. DEFINE u == Arg(Timer)
            s == user[u].session
            q == todo[Timer]
<1>1. At(Timer, "closeNoLock") /\ UNCHANGED <<queue, closed, context, session, current>>
  BY DEF CloseUserNoLock
<1>2. /\ user' = [user EXCEPT ![u].destroyed = TRUE]
      /\ \/ Then(Timer, <<>>)
         \/ Then(Timer, ForceClose(Timer, user[u].conn) \o <<<<"remove", u>>>>)
  BY DEF CloseUserNoLock
<1>3. Timer \in Threads
  BY DEF Threads
<1>4. /\ q \in Seq(Steps) /\ q # <<>> /\ q[1][1] = "closeNoLock" /\ q[1][2] = u
  BY <1>1, <1>3, AtFacts
<1>5. u \in 1 .. Len(user) /\ user \in Seq(UserRecord)
  BY <1>1, <1>3, UserOp, StackTypes DEF UserOps
<1>6. /\ user' \in Seq(UserRecord) /\ Len(user') = Len(user) /\ Extends(user, user')
      /\ user'[u].destroyed /\ Gone(user', user[u].conn)
  BY <1>2, <1>5, UserDestroyed
<1>7. session' \in Seq(SessionRecord) /\ Len(session) <= Len(session') /\ session' = session
  BY <1>1, StackTypes
<1>8. todo' \in [Threads -> Seq(Steps)] /\ StepsFit' /\ LoopsOK' /\ TimerOK' /\ Exclusive'
  <2>1. CASE Then(Timer, <<>>)
    BY <1>1, <1>3, <1>6, <1>7, <2>1, DoneStep
  <2>2. CASE Then(Timer, ForceClose(Timer, user[u].conn) \o <<<<"remove", u>>>>)
    <3>. DEFINE e == <<"remove", u>>
    <3>1. user[u].conn \in Conns
      BY <1>5, UserAt
    <3>2. PICK f \in Steps : /\ ForceClose(Timer, user[u].conn) = <<f>> /\ f[2] = user[u].conn
                             /\ f[1] = IF LoopOf[user[u].conn] = Timer THEN "onClose" ELSE "push"
      BY <3>1, ForceCloses
    <3>3. f[1] = "push"
      BY <3>1, <3>2, LiveServiceAssumption
    <3>4. e \in Steps /\ e[1] = "remove" /\ e[2] = u
      BY <1>5 DEF Steps, UserOps
    <3>5. Then(Timer, <<f>> \o <<e>>)
      BY <2>2, <3>2
    <3>. HIDE DEF e
    <3>. DEFINE o == <<f, e>>
    <3>6. Then(Timer, o)
      BY <3>4, <3>5, PairOfSteps
    <3>7. o \in Seq(Steps) /\ NoRelease(o) /\ \A i \in 1 .. Len(o) : o[i] = e \/ o[i] = f
      BY <3>3, <3>4 DEF NoRelease
    <3>8. Fits(user', Len(session'), e) /\ Fits(user', Len(session'), f)
      BY <1>5, <1>6, <3>2, <3>3, <3>4 DEF Fits, UserOps
    <3>9. \A i \in 1 .. Len(o) : Fits(user', Len(session'), o[i])
      BY <3>7, <3>8
    <3>10. TimerStack(user', session, q)
      BY <1>1, <1>3, <1>6, StackBefore
    <3>11. \A i \in 1 .. Len(o) : \/ o[i][1] = "push"
                                  \/ /\ o[i][1] = "remove" /\ q[1][1] = "closeNoLock"
                                     /\ user'[o[i][2]].session = user'[q[1][2]].session
      BY <1>4, <3>3, <3>4, <3>7
    <3>12. Len(session) \in Nat /\ Len(session') \in Nat
      BY <1>7, StackTypes
    <3>. HIDE DEF o
    <3>13. TimerStack(user', session', Released(o \o Tail(q)))
      BY <1>4, <1>7, <3>7, <3>10, <3>11, <3>12, TimerRest
    <3>14. Timer \notin Loops
      BY LiveServiceAssumption
    <3>. QED BY <1>1, <1>3, <1>6, <1>7, <3>6, <3>7, <3>9, <3>13, <3>14, ThenStep
  <2>. QED BY <1>2, <2>1, <2>2
<1>9. Types'
  BY <1>1, <1>6, <1>7, <1>8, StackTypes DEF Types
<1>10. Listed(user', session') /\ Links'
  BY <1>1, <1>6, <1>7, ListedStays, LinksStay
<1>. QED BY <1>8, <1>9, <1>10 DEF StackInv

LEMMA AppendOne ==
  ASSUME NEW S, NEW q \in Seq(S), NEW e \in S, NEW z, z = Append(q, e)
  PROVE  /\ z \in Seq(S) /\ Len(q) \in Nat /\ Len(z) = Len(q) + 1 /\ z[Len(q) + 1] = e
         /\ \A i \in 1 .. Len(q) : i \in 1 .. Len(z) /\ z[i] = q[i]
         /\ \A i \in 1 .. Len(z) : i \in 1 .. Len(q) \/ i = Len(q) + 1
OBVIOUS

LEMMA CreateSessionKeeps ==
  ASSUME StackInv, NEW t \in Threads, CreateSession(t)
  PROVE  StackInv'
<1>. DEFINE cmd == Arg(t)
            q == todo[t]
            n == [publisher |-> None, players |-> {}]
<1>1. At(t, "create") /\ UNCHANGED <<queue, closed, context, user>>
  BY DEF CreateSession
<1>2. PICK s : /\ s = IF current # None THEN current ELSE Len(session) + 1
               /\ session' = IF current # None THEN session ELSE Append(session, n)
               /\ current' = s
               /\ Then(t, <<<<"join", [kind |-> cmd.kind, conn |-> cmd.conn, session |-> s]>>>>)
  BY DEF CreateSession
<1>3. /\ q \in Seq(Steps) /\ q # <<>> /\ q[1] \in Steps /\ q[1][1] = "create" /\ q[1][2] = cmd
      /\ t \in Loops /\ t # Timer /\ Placed(user, t, q, 1)
  BY <1>1, AtFacts
<1>4. cmd \in [kind : {"play", "publish"}, conn : Conns] /\ Len(q) = 1
  BY <1>3, StepTypes DEF Placed, Alone
<1>5. /\ user' \in Seq(UserRecord) /\ Extends(user, user') /\ user' = user
      /\ session \in Seq(SessionRecord) /\ Len(session) \in Nat
  BY <1>1, StackTypes, ExtendsItself
<1>6. n \in SessionRecord /\ n.publisher = None /\ n.players = {}
  BY DEF SessionRecord
<1>. HIDE DEF n
<1>7. /\ session' \in Seq(SessionRecord) /\ Len(session') \in Nat /\ Len(session) <= Len(session') /\ s \in 1 .. Len(session') /\ s \in Nat
      /\ \A k \in 1 .. Len(session) : k \in 1 .. Len(session') /\ session'[k] = session[k]
      /\ \A k \in 1 .. Len(session') : k \in 1 .. Len(session) \/ session'[k] = n
  <2>1. CASE current # None
    <3>1. current \in 1 .. Len(session)
      BY <2>1 DEF StackInv, Links
    <3>. QED BY <1>2, <1>5, <2>1, <3>1
  <2>2. CASE current = None
    <3>1. session' = Append(session, n) /\ s = Len(session) + 1
      BY <1>2, <2>2
    <3>2. /\ session' \in Seq(SessionRecord) /\ Len(session') = Len(session) + 1 /\ session'[Len(session) + 1] = n
          /\ \A i \in 1 .. Len(session) : i \in 1 .. Len(session') /\ session'[i] = session[i]
          /\ \A i \in 1 .. Len(session') : i \in 1 .. Len(session) \/ i = Len(session) + 1
      BY <1>5, <1>6, <3>1, AppendOne
    <3>. QED BY <1>5, <3>1, <3>2
  <2>. QED BY <2>1, <2>2
<1>8. todo' \in [Threads -> Seq(Steps)] /\ StepsFit' /\ LoopsOK' /\ TimerOK' /\ Exclusive'
  <2>. DEFINE a == [kind |-> cmd.kind, conn |-> cmd.conn, session |-> s]
              e == <<"join", a>>
  <2>1. a \in [kind : {"play", "publish"}, conn : Conns, session : Nat] /\ a.session = s
    BY <1>4, <1>7
  <2>2. Then(t, <<e>>)
    BY <1>2
  <2>. HIDE DEF a
  <2>3. e \in Steps /\ e[1] = "join" /\ e[2] = a
    BY <2>1 DEF Steps
  <2>. HIDE DEF e
  <2>. DEFINE o == <<e>>
  <2>4. o \in Seq(Steps) /\ NoRelease(o) /\ \A i \in 1 .. Len(o) : o[i] = e
    BY <2>3 DEF NoRelease
  <2>5. Fits(user', Len(session'), e)
    BY <1>7, <2>1, <2>3 DEF Fits, UserOps
  <2>6. \A i \in 1 .. Len(o) : Fits(user', Len(session'), o[i])
    BY <2>4, <2>5
  <2>7. LoopStack(user', t, q)
    BY <1>1, <1>3, <1>5, StackBefore
  <2>8. e[1] \in Alone
    BY <2>3 DEF Alone
  <2>9. LoopStack(user', t, Released(o \o Tail(q)))
    BY <1>3, <1>4, <2>3, <2>7, <2>8, PopOne
  <2>10. \A k \in 1 .. Len(session) : HoldsIn(todo[Timer], <<"session", k>>) => session'[k].publisher = session[k].publisher
    BY <1>7
  <2>. QED BY <1>1, <1>3, <1>5, <1>7, <2>2, <2>4, <2>6, <2>9, <2>10, ThenStep
<1>9. Types'
  BY <1>1, <1>2, <1>5, <1>7, <1>8, StackTypes DEF Types
<1>10. Listed(user', session')
  <2>1. Listed(user, session)
    BY DEF StackInv
  <2>2. \A u \in 1 .. Len(user) : user[u].session \in 1 .. Len(session')
    BY <1>7, <2>1 DEF Listed
  <2>3. ASSUME NEW k \in 1 .. Len(session')
        PROVE  /\ session'[k].publisher # None =>
                 /\ session'[k].publisher \in 1 .. Len(user)
                 /\ user[session'[k].publisher].kind = "publish" /\ user[session'[k].publisher].session = k
               /\ \A p \in session'[k].players : p \in 1 .. Len(user) /\ user[p].kind = "play" /\ user[p].session = k
    <3>1. CASE k \in 1 .. Len(session) /\ session'[k] = session[k]
      BY <2>1, <3>1 DEF Listed
    <3>2. CASE session'[k] = n
      BY <1>6, <3>2
    <3>. QED BY <1>7, <3>1, <3>2
  <2>. QED BY <1>5, <2>2, <2>3 DEF Listed
<1>11. Links'
  BY <1>1, <1>2, <1>7 DEF StackInv, Links
<1>. QED BY <1>8, <1>9, <1>10, <1>11 DEF StackInv

LEMMA JoinKeeps ==
  ASSUME StackInv, NEW t \in Threads, Join(t)
  PROVE  StackInv'
<1>. DEFINE cmd == Arg(t)
            q == todo[t]
            u == Len(user) + 1
            n == [kind |-> cmd.kind, conn |-> cmd.conn, session |-> cmd.session, destroyed |-> FALSE]
            op == IF cmd.kind = "play" THEN "addPlayer" ELSE "setPublisher"
            e == <<op, u>>
<1>1. At(t, "join") /\ UNCHANGED <<queue, closed, session, current>>
  BY DEF Join
<1>2. /\ user' = Append(user, n)
      /\ context' = [context EXCEPT ![cmd.conn] = u]
  BY DEF Join
<1>3. Then(t, <<e>>)
  <2>1. CASE cmd.kind = "play"
    BY <2>1 DEF Join
  <2>2. CASE cmd.kind # "play"
    BY <2>2 DEF Join
  <2>. QED BY <2>1, <2>2
<1>4. /\ q \in Seq(Steps) /\ q # <<>> /\ q[1] \in Steps /\ q[1][1] = "join" /\ q[1][2] = cmd
      /\ t \in Loops /\ t # Timer /\ Placed(user, t, q, 1) /\ Fits(user, Len(session), q[1])
  BY <1>1, AtFacts
<1>5. /\ cmd \in [kind : {"play", "publish"}, conn : Conns, session : Nat] /\ Len(q) = 1
      /\ cmd.session \in 1 .. Len(session)
  BY <1>4, StepTypes DEF Placed, Alone, Fits
<1>6. n \in UserRecord /\ n.kind = cmd.kind /\ n.conn = cmd.conn /\ n.session = cmd.session
  BY <1>5 DEF UserRecord
<1>. HIDE DEF n
<1>7. /\ user' \in Seq(UserRecord) /\ Len(user) \in Nat /\ Len(user') = Len(user) + 1 /\ user'[Len(user) + 1] = n
      /\ \A i \in 1 .. Len(user) : i \in 1 .. Len(user') /\ user'[i] = user[i]
      /\ \A i \in 1 .. Len(user') : i \in 1 .. Len(user) \/ i = Len(user) + 1
  BY <1>2, <1>6, StackTypes, AppendOne
<1>8. Extends(user, user')
  BY <1>7 DEF Extends
<1>9. session' \in Seq(SessionRecord) /\ Len(session) <= Len(session') /\ session' = session
  BY <1>1, StackTypes
<1>10. u \in Nat /\ u \in 1 .. Len(user') /\ user'[u].kind = cmd.kind /\ user'[u].conn = cmd.conn
  BY <1>6, <1>7
<1>. HIDE DEF u
<1>11. todo' \in [Threads -> Seq(Steps)] /\ StepsFit' /\ LoopsOK' /\ TimerOK' /\ Exclusive'
  <2>1. /\ e \in Steps /\ e[1] \in {"addPlayer", "setPublisher"} /\ e[2] = u
        /\ e[1] = "addPlayer" => cmd.kind = "play"
        /\ e[1] = "setPublisher" => cmd.kind # "play"
    BY <1>10 DEF Steps, UserOps
  <2>2. Then(t, <<e>>)
    BY <1>3
  <2>. HIDE DEF e
  <2>. DEFINE o == <<e>>
  <2>3. o \in Seq(Steps) /\ NoRelease(o) /\ \A i \in 1 .. Len(o) : o[i] = e
    BY <2>1 DEF NoRelease
  <2>4. cmd.kind \in {"play", "publish"}
    BY <1>5
  <2>5. Fits(user', Len(session'), e)
    BY <1>10, <2>1, <2>4 DEF Fits, UserOps
  <2>6. \A i \in 1 .. Len(o) : Fits(user', Len(session'), o[i])
    BY <2>3, <2>5
  <2>7. LoopStack(user', t, q)
    BY <1>1, <1>4, <1>7, <1>8, StackBefore
  <2>8. e[1] \in Alone
    BY <2>1 DEF Alone
  <2>9. LoopStack(user', t, Released(o \o Tail(q)))
    BY <1>4, <1>5, <2>1, <2>7, <2>8, PopOne
  <2>10. \A k \in 1 .. Len(session) : HoldsIn(todo[Timer], <<"session", k>>) => session'[k].publisher = session[k].publisher
    BY <1>9
  <2>. QED BY <1>1, <1>4, <1>7, <1>8, <1>9, <2>2, <2>3, <2>6, <2>9, <2>10, ThenStep
<1>12. context' \in [Conns -> Nat \cup {None}]
  BY <1>2, <1>10, StackTypes
<1>13. Types'
  BY <1>1, <1>7, <1>9, <1>11, <1>12, StackTypes DEF Types
<1>14. Listed(user', session')
  <2>1. Listed(user, session)
    BY DEF StackInv
  <2>2. \A v \in 1 .. Len(user') : user'[v].session \in 1 .. Len(session)
    BY <1>5, <1>6, <1>7, <2>1 DEF Listed
  <2>3. \A k \in 1 .. Len(session) : session[k].publisher # None =>
          /\ session[k].publisher \in 1 .. Len(user')
          /\ user'[session[k].publisher].kind = "publish" /\ user'[session[k].publisher].session = k
    BY <1>7, <2>1 DEF Listed
  <2>4. \A k \in 1 .. Len(session) : \A p \in session[k].players :
          p \in 1 .. Len(user') /\ user'[p].kind = "play" /\ user'[p].session = k
    BY <1>7, <2>1 DEF Listed
  <2>. QED BY <1>9, <2>2, <2>3, <2>4 DEF Listed
<1>15. Links'
  <2>1. Links
    BY DEF StackInv
  <2>2. ASSUME NEW c \in Conns, context'[c] # None
        PROVE  context'[c] \in 1 .. Len(user') /\ user'[context'[c]].conn = c
    <3>1. CASE c = cmd.conn
      <4>1. context'[c] = u
        BY <1>2, <3>1, StackTypes
      <4>. QED BY <1>10, <3>1, <4>1
    <3>2. CASE c # cmd.conn
      <4>1. context'[c] = context[c]
        BY <1>2, <3>2, StackTypes
      <4>. QED BY <1>7, <2>1, <2>2, <4>1 DEF Links
    <3>. QED BY <3>1, <3>2
  <2>3. \A c : Gone(user, c) => Gone(user', c)
    BY <1>7, <1>8, StackTypes, GoneStays
  <2>4. current' # None => current' \in 1 .. Len(session')
    BY <1>1, <1>9, <2>1 DEF Links
  <2>5. \A l \in Loops : \A i \in 1 .. Len(queue'[l]) : LoopOf[queue'[l][i][2]] = l /\ Gone(user', queue'[l][i][2])
    BY <1>1, <2>1, <2>3 DEF Links
  <2>. QED BY <2>2, <2>4, <2>5 DEF Links
<1>. QED BY <1>11, <1>13, <1>14, <1>15 DEF StackInv

(* A loop's thread takes the lock of a session *)
LEMMA LoopTakes ==
  ASSUME StackInv, NEW t \in Loops, NEW op \in Alone, At(t, op), NEW s \in 1 .. Len(session),
         NEW o \in Seq(Steps), o # <<>>, Holding(t, <<"session", s>>, o),
         user' \in Seq(UserRecord), Extends(user, user'), UNCHANGED session,
         \A i \in 1 .. Len(o) :
           /\ o[i][1] \in {"notify", "onClose", "push", "publisher"}
           /\ o[i][1] = "onClose" => Gone(user', o[i][2])
           /\ o[i][1] = "publisher" => i = Len(o) /\ user'[o[i][2]].session = s
           /\ Fits(user', Len(session), o[i])
  PROVE  todo' \in [Threads -> Seq(Steps)] /\ StepsFit' /\ LoopsOK' /\ TimerOK' /\ Exclusive'
<1>. DEFINE lock == <<"session", s>>
            r == <<"release", lock>>
            q == todo[t]
            z == o \o <<r>> \o Tail(q)
<1>1. t \in Threads /\ t # Timer
  BY LiveServiceAssumption DEF Threads
<1>2. q \in Seq(Steps) /\ q # <<>> /\ q[1][1] = op /\ Placed(user, t, q, 1)
  BY <1>1, AtFacts
<1>3. Len(q) = 1
  BY <1>2 DEF Placed
<1>4. /\ user \in Seq(UserRecord) /\ session' \in Seq(SessionRecord) /\ session' = session
      /\ Len(session) \in Nat /\ Len(session') = Len(session) /\ Len(session) <= Len(session')
  BY StackTypes
<1>5. s \in Nat /\ lock \in LockNames /\ r \in Steps /\ r[1] = "release" /\ r[2] = lock
  BY <1>4 DEF LockNames, Steps
<1>6. todo' = [todo EXCEPT ![t] = z] /\ Free(lock)
  BY DEF Holding
<1>7. NoRelease(o)
  BY DEF NoRelease
<1>8. r = <<"release", <<"session", s>>>> /\ z = o \o <<r>> \o Tail(q)
  OBVIOUS
<1>9. \A i \in 1 .. Len(q) : Fits(user', Len(session'), q[i])
  <2>1. \A i \in 1 .. Len(q) : Fits(user, Len(session), q[i])
    BY <1>1 DEF StackInv, StepsFit
  <2>. QED BY <1>4, <2>1, FitsStays
<1>. HIDE DEF r, z, lock, q
<1>10. /\ z \in Seq(Steps) /\ Len(z) = Len(o) + Len(q)
       /\ \A i \in 1 .. Len(o) : z[i] = o[i]
       /\ z[Len(o) + 1] = r
       /\ \A i \in 2 .. Len(q) : z[i + Len(o)] = q[i]
       /\ \A i \in 1 .. Len(z) : \/ z[i] = r
                                 \/ \E j \in 1 .. Len(o) : z[i] = o[j]
                                 \/ \E j \in 1 .. Len(q) : z[i] = q[j]
  <2>1. q \in Seq(Steps) /\ q # <<>>
    BY <1>2
  <2>2. r \in Steps
    BY <1>5
  <2>3. z = Stacked(o, r, q)
    BY <1>8 DEF Stacked
  <2>4. /\ z \in Seq(Steps) /\ Len(z) = Len(o) + Len(q)
        /\ \A i \in 1 .. Len(o) : z[i] = o[i]
        /\ z[Len(o) + 1] = r
        /\ \A i \in 2 .. Len(q) : z[i + Len(o)] = q[i]
        /\ \A i \in 1 .. Len(z) : Among(z[i], r, o, q)
    <3>1. o # <<>> /\ q # <<>> /\ q \in Seq(Steps) /\ r \in Steps
      BY <2>1, <2>2
    <3>2. /\ Stacked(o, r, q) \in Seq(Steps) /\ Len(Stacked(o, r, q)) = Len(o) + Len(q)
          /\ \A i \in 1 .. Len(o) : Stacked(o, r, q)[i] = o[i]
          /\ Stacked(o, r, q)[Len(o) + 1] = r
          /\ \A i \in 2 .. Len(q) : Stacked(o, r, q)[i + Len(o)] = q[i]
          /\ \A i \in 1 .. Len(Stacked(o, r, q)) : Among(Stacked(o, r, q)[i], r, o, q)
      BY <3>1, HoldingShape
    <3>. QED BY <2>3, <3>2
  <2>. QED BY <2>4 DEF Among
<1>11. \A i \in 1 .. Len(z) : Fits(user', Len(session'), z[i])
  <2>1. Fits(user', Len(session'), r)
    BY <1>5 DEF Fits, UserOps
  <2>. QED BY <1>4, <1>9, <1>10, <2>1
<1>12. \A k : HoldsIn(z, k) => k = r[2] \/ HoldsIn(q, k)
  <2>. SUFFICES ASSUME NEW k, NEW i \in 1 .. Len(z), z[i][1] = "release", z[i][2] = k
                PROVE  k = r[2] \/ \E j \in 1 .. Len(q) : q[j][1] = "release" /\ q[j][2] = k
    BY DEF HoldsIn
  <2>. QED BY ZenonT(30), <1>7, <1>10 DEF NoRelease
<1>13. Len(z) = Len(o) + 1
  BY <1>3, <1>10
<1>14. LoopStack(user', t, z)
  <2>1. \A i \in 1 .. Len(o) :
          /\ o[i][1] \in {"notify", "onClose", "push", "publisher"}
          /\ o[i][1] = "onClose" => Gone(user', o[i][2])
          /\ o[i][1] = "publisher" => i = Len(o) /\ user'[o[i][2]].session = s
    OBVIOUS
  <2>2. \A i \in 1 .. Len(o) : z[i] = o[i]
    BY <1>10
  <2>3. z[Len(o) + 1] = r /\ r = <<"release", <<"session", s>>>> /\ s \in Nat /\ r \in Steps
    BY <1>5, <1>8, <1>10
  <2>. QED BY <1>13, <2>1, <2>2, <2>3, HoldingLoop
<1>15. \A k \in LockNames : HoldsIn(z, k) => HoldsIn(todo[t], k) \/ Free(k)
  BY <1>5, <1>6, <1>12 DEF q
<1>16. \A k \in 1 .. Len(session) : HoldsIn(todo[Timer], <<"session", k>>) => session'[k].publisher = session[k].publisher
  BY <1>4
<1>. QED BY <1>1, <1>4, <1>6, <1>10, <1>11, <1>14, <1>15, <1>16, StackStep

LEMMA SetPublisherKeeps ==
  ASSUME StackInv, NEW t \in Threads, SetPublisher(t)
  PROVE  StackInv'
<1>. DEFINE u == Arg(t)
            s == user[u].session
            old == session[s].publisher
            e == <<"publisher", u>>
<1>1. At(t, "setPublisher") /\ UNCHANGED <<queue, closed, context, session, current>>
  BY DEF SetPublisher
<1>2. /\ t \in Loops /\ t # Timer /\ Fits(user, Len(session), todo[t][1])
      /\ todo[t][1][1] = "setPublisher" /\ todo[t][1][2] = u
  BY <1>1, AtFacts DEF OnLoops
<1>3. u \in 1 .. Len(user) /\ user[u].kind = "publish"
  BY <1>2 DEF Fits, UserOps
<1>4. u \in Nat /\ s \in 1 .. Len(session) /\ user \in Seq(UserRecord)
  BY <1>3, UserAt, StackTypes
<1>5. e \in Steps /\ e[1] = "publisher" /\ e[2] = u
  BY <1>4 DEF Steps, UserOps
<1>6. "setPublisher" \in Alone
  BY SMTT(20) DEF Alone
<1>7. \/ user' = user /\ Holding(t, <<"session", s>>, <<e>>)
      \/ /\ old # None /\ user' = [user EXCEPT ![old].destroyed = TRUE]
         /\ Holding(t, <<"session", s>>, ForceClose(t, user[old].conn) \o <<e>>)
  <2>1. CASE old = None \/ (old # None /\ user[old].destroyed)
    BY SMTT(20), <2>1 DEF SetPublisher
  <2>2. CASE ~(old = None \/ (old # None /\ user[old].destroyed))
    BY <2>2 DEF SetPublisher
  <2>. QED BY SMTT(20), <2>1, <2>2
<1>. HIDE DEF e
<1>8. /\ user' \in Seq(UserRecord) /\ Extends(user, user') /\ Len(user') = Len(user)
      /\ todo' \in [Threads -> Seq(Steps)] /\ StepsFit' /\ LoopsOK' /\ TimerOK' /\ Exclusive'
  <2>1. CASE user' = user /\ Holding(t, <<"session", s>>, <<e>>)
    <3>. DEFINE o == <<e>>
    <3>1. o \in Seq(Steps) /\ o # <<>> /\ Len(o) = 1 /\ o[1] = e
      BY <1>5
    <3>2. user' \in Seq(UserRecord) /\ Extends(user, user') /\ Len(user') = Len(user)
      BY <1>4, <2>1, ExtendsItself
    <3>3. Holding(t, <<"session", s>>, o)
      BY <2>1
    <3>. HIDE DEF o
    <3>4. Fits(user', Len(session), e) /\ user'[u].session = s
      BY <1>3, <1>5, <2>1 DEF Fits
    <3>5. \A i \in 1 .. Len(o) :
            /\ o[i][1] \in {"notify", "onClose", "push", "publisher"}
            /\ o[i][1] = "onClose" => Gone(user', o[i][2])
            /\ o[i][1] = "publisher" => i = Len(o) /\ user'[o[i][2]].session = s
            /\ Fits(user', Len(session), o[i])
      BY <1>5, <3>1, <3>4
    <3>. QED BY <1>1, <1>2, <1>4, <1>6, <3>1, <3>2, <3>3, <3>5, LoopTakes
  <2>2. CASE /\ old # None /\ user' = [user EXCEPT ![old].destroyed = TRUE]
             /\ Holding(t, <<"session", s>>, ForceClose(t, user[old].conn) \o <<e>>)
    <3>1. old \in 1 .. Len(user)
      BY <1>4, <2>2, SessionAt
    <3>2. user[old].conn \in Conns
      BY <3>1, UserAt
    <3>3. PICK f \in Steps : /\ ForceClose(t, user[old].conn) = <<f>> /\ f[2] = user[old].conn
                             /\ f[1] = IF LoopOf[user[old].conn] = t THEN "onClose" ELSE "push"
      BY <3>2, ForceCloses
    <3>4. /\ user' \in Seq(UserRecord) /\ Extends(user, user') /\ Len(user') = Len(user)
          /\ Gone(user', user[old].conn)
      <4>. HIDE DEF old
      <4>1. user' = [user EXCEPT ![old].destroyed = TRUE]
        BY <2>2
      <4>2. old \in 1 .. Len(user)
        BY <3>1
      <4>. QED BY <1>4, <4>1, <4>2, UserDestroyed
    <3>. DEFINE o == <<f, e>>
    <3>5. o \in Seq(Steps) /\ o # <<>> /\ Len(o) = 2 /\ o[1] = f /\ o[2] = e
      BY SMTT(20), <1>5
    <3>6. Holding(t, <<"session", s>>, o)
      BY <1>5, <2>2, <3>3, PairOfSteps
    <3>. HIDE DEF o
    <3>7. u \in 1 .. Len(user') /\ user'[u].session = s /\ user'[u].kind = "publish"
      BY <1>3, <3>4 DEF Extends
    <3>8. Fits(user', Len(session), e)
      BY SMTT(20), <1>5, <3>7 DEF Fits
    <3>9. f[1] \in {"onClose", "push"} /\ Gone(user', f[2])
      BY <3>3, <3>4
    <3>10. Fits(user', Len(session), f)
      BY <3>9 DEF Fits, UserOps
    <3>11. \A i \in 1 .. Len(o) :
            /\ o[i][1] \in {"notify", "onClose", "push", "publisher"}
            /\ o[i][1] = "onClose" => Gone(user', o[i][2])
            /\ o[i][1] = "publisher" => i = Len(o) /\ user'[o[i][2]].session = s
            /\ Fits(user', Len(session), o[i])
      <4>. SUFFICES ASSUME NEW i \in 1 .. Len(o)
                    PROVE  /\ o[i][1] \in {"notify", "onClose", "push", "publisher"}
                           /\ o[i][1] = "onClose" => Gone(user', o[i][2])
                           /\ o[i][1] = "publisher" => i = Len(o) /\ user'[o[i][2]].session = s
                           /\ Fits(user', Len(session), o[i])
        OBVIOUS
      <4>1. CASE i = 1
        BY <3>5, <3>9, <3>10, <4>1
      <4>2. CASE i = 2
        BY <1>5, <3>5, <3>7, <3>8, <4>2
      <4>. QED BY <3>5, <4>1, <4>2
    <3>. QED BY <1>1, <1>2, <1>4, <1>6, <3>4, <3>5, <3>6, <3>11, LoopTakes
  <2>. QED BY <1>7, <2>1, <2>2
<1>9. session' = session /\ session' \in Seq(SessionRecord) /\ Len(session) <= Len(session')
  BY <1>1, StackTypes
<1>10. Types'
  BY <1>1, <1>8, <1>9, StackTypes DEF Types
<1>11. Listed(user', session') /\ Links'
  BY <1>1, <1>8, <1>9, ListedStays, LinksStay
<1>. QED BY <1>8, <1>10, <1>11 DEF StackInv

(* A step that only changes the stack of its thread *)
LEMMA StackOnly ==
  ASSUME StackInv, NEW t \in Threads, NEW z \in Seq(Steps), todo' = [todo EXCEPT ![t] = z],
         UNCHANGED <<queue, closed, context, user, session, current>>,
         \A i \in 1 .. Len(z) : Fits(user, Len(session), z[i]),
         t \in Loops => LoopStack(user, t, z),
         t = Timer => TimerStack(user, session, z),
         \A lock \in LockNames : HoldsIn(z, lock) => HoldsIn(todo[t], lock) \/ Free(lock)
  PROVE  StackInv'
<1>1. /\ user' \in Seq(UserRecord) /\ Extends(user, user') /\ user' = user
      /\ session' \in Seq(SessionRecord) /\ Len(session) <= Len(session') /\ session' = session
  BY StackTypes, ExtendsItself
<1>2. /\ \A i \in 1 .. Len(z) : Fits(user', Len(session'), z[i])
      /\ t \in Loops => LoopStack(user', t, z)
      /\ t = Timer => TimerStack(user', session', z)
      /\ \A s \in 1 .. Len(session) : HoldsIn(todo[Timer], <<"session", s>>) => session'[s].publisher = session[s].publisher
  BY <1>1
<1>3. todo' \in [Threads -> Seq(Steps)] /\ StepsFit' /\ LoopsOK' /\ TimerOK' /\ Exclusive'
  BY <1>1, <1>2, StackStep
<1>. QED BY <1>3, DataStays

LEMMA EmptyStack ==
  ASSUME NEW us, NEW ss, NEW l, NEW n
  PROVE  /\ <<>> \in Seq(Steps) /\ LoopStack(us, l, <<>>) /\ TimerStack(us, ss, <<>>)
         /\ \A lock : ~HoldsIn(<<>>, lock)
         /\ \A i \in 1 .. Len(<<>>) : Fits(us, n, <<>>[i])
BY DEF LoopStack, TimerStack, HoldsIn

(* What activeAllPlayers does with the loops of the players *)
NotifyOps(t, s) ==
  LET others == {LoopOf[user[p].conn] : p \in session[s].players} \ {t}
  IN  [i \in 1 .. Cardinality(others) |-> <<"notify", SetToSeq(others)[i]>>]

LEMMA NotifyList ==
  ASSUME StackInv, NEW t \in Threads, NEW s \in 1 .. Len(session)
  PROVE  NotifyOps(t, s) \in Seq(Steps) /\ \A i \in 1 .. Len(NotifyOps(t, s)) : NotifyOps(t, s)[i][1] = "notify"
<1>. DEFINE others == {LoopOf[user[p].conn] : p \in session[s].players} \ {t}
            n == Cardinality(others)
            o == [i \in 1 .. n |-> <<"notify", SetToSeq(others)[i]>>]
<1>1. \A p \in session[s].players : LoopOf[user[p].conn] \in Loops
  <2>. SUFFICES ASSUME NEW p \in session[s].players
                PROVE  LoopOf[user[p].conn] \in Loops
    OBVIOUS
  <2>1. p \in 1 .. Len(user)
    BY SessionAt
  <2>2. user[p].conn \in Conns
    BY <2>1, UserAt
  <2>. QED BY <2>2, LiveServiceAssumption
<1>2. others \in SUBSET Loops
  BY <1>1
<1>3. IsFiniteSet(others)
  BY <1>2, LiveServiceAssumption, FS_Subset
<1>4. NotifyOps(t, s) = o
  BY DEF NotifyOps
<1>. HIDE DEF others
<1>5. n \in Nat /\ \A i \in 1 .. n : SetToSeq(others)[i] \in Loops
  BY <1>2, <1>3, SetToSeqIn
<1>. HIDE DEF n
<1>6. ASSUME NEW i \in 1 .. n
      PROVE  /\ o[i] \in Steps /\ o[i][1] = "notify"
  BY <1>5 DEF Steps
<1>7. o \in Seq(Steps) /\ Len(o) = n
  BY <1>5, <1>6
<1>. HIDE DEF o
<1>. QED BY <1>4, <1>6, <1>7

LEMMA ActiveAllKeeps ==
  ASSUME StackInv, NEW t \in Threads, ActiveAll(t)
  PROVE  StackInv'
<1>. DEFINE s == Arg(t)
            o == NotifyOps(t, s)
            q == todo[t]
<1>1. At(t, "activeAll") /\ Holding(t, <<"session", s>>, o) /\ UNCHANGED <<queue, closed, context, user, session, current>>
  BY DEF ActiveAll, NotifyOps
<1>2. /\ t \in Loops /\ t # Timer /\ q \in Seq(Steps) /\ q # <<>> /\ q[1][1] = "activeAll" /\ q[1][2] = s
      /\ Fits(user, Len(session), q[1]) /\ Placed(user, t, q, 1)
  BY <1>1, AtFacts DEF OnLoops
<1>3. s \in 1 .. Len(session) /\ Len(q) = 1
  BY <1>2 DEF Fits, Placed, Alone
<1>4. o \in Seq(Steps) /\ \A i \in 1 .. Len(o) : o[i][1] = "notify"
  BY <1>3, NotifyList
<1>. HIDE DEF o
<1>5. CASE o = <<>>
  <2>1. o = <<>>
    BY <1>5
  <2>2. todo' = [todo EXCEPT ![t] = Released(Tail(q))]
    BY <1>1, <2>1 DEF Holding
  <2>3. Tail(q) \in Seq(Steps) /\ Len(Tail(q)) = 0
    BY <1>2, <1>3
  <2>4. Released(Tail(q)) = <<>>
    BY <2>3 DEF Released
  <2>5. todo' = [todo EXCEPT ![t] = <<>>]
    BY <2>2, <2>4
  <2>6. /\ <<>> \in Seq(Steps) /\ LoopStack(user, t, <<>>) /\ TimerStack(user, session, <<>>)
        /\ \A lock : ~HoldsIn(<<>>, lock)
        /\ \A i \in 1 .. Len(<<>>) : Fits(user, Len(session), <<>>[i])
    BY EmptyStack
  <2>. QED BY <1>1, <2>5, <2>6, StackOnly
<1>6. CASE o # <<>>
  <2>1. o # <<>>
    BY <1>6
  <2>2. "activeAll" \in Alone
    BY DEF Alone
  <2>3. user' \in Seq(UserRecord) /\ Extends(user, user') /\ UNCHANGED session
    BY <1>1, StackTypes, ExtendsItself
  <2>4. \A i \in 1 .. Len(o) :
           /\ o[i][1] \in {"notify", "onClose", "push", "publisher"}
           /\ o[i][1] = "onClose" => Gone(user', o[i][2])
           /\ o[i][1] = "publisher" => i = Len(o) /\ user'[o[i][2]].session = s
           /\ Fits(user', Len(session), o[i])
    BY <1>4 DEF Fits, UserOps
  <2>5. Holding(t, <<"session", s>>, o)
    BY <1>1
  <2>. HIDE DEF s
  <2>6. todo' \in [Threads -> Seq(Steps)] /\ StepsFit' /\ LoopsOK' /\ TimerOK' /\ Exclusive'
    BY <1>1, <1>2, <1>3, <1>4, <2>1, <2>2, <2>3, <2>4, <2>5, LoopTakes
  <2>. QED BY <1>1, <2>6, DataStays
<1>. QED BY <1>5, <1>6

(* What arrives at a connection, and the tasks of a loop *)
LEMMA BeginKeeps ==
  ASSUME StackInv, NEW l \in Loops, Idle(l), NEW e \in Steps, todo' = [todo EXCEPT ![l] = <<e>>],
         UNCHANGED <<queue, closed, context, user, session, current>>,
         e[1] \in {"create", "onClose", "activeAll"}, e[1] = "activeAll" => e[2] \in 1 .. Len(session)
  PROVE  StackInv'
<1>. DEFINE z == <<e>>
<1>1. z \in Seq(Steps) /\ Len(z) = 1 /\ z[1] = e
  OBVIOUS
<1>2. todo' = [todo EXCEPT ![l] = z] /\ l \in Threads /\ l # Timer
  BY LiveServiceAssumption DEF Threads
<1>. HIDE DEF z
<1>3. \A i \in 1 .. Len(z) : Fits(user, Len(session), z[i])
  BY <1>1 DEF Fits, UserOps
<1>4. LoopStack(user, l, z)
  BY <1>1 DEF LoopStack, Placed, OnLoops, Alone
<1>5. \A lock : ~HoldsIn(z, lock)
  BY <1>1 DEF HoldsIn
<1>. QED BY <1>1, <1>2, <1>3, <1>4, <1>5, StackOnly

LEMMA CommandKeeps ==
  ASSUME StackInv, NEW l \in Loops, NEW c \in Conns, NEW kind \in Kinds[c], Command(l, c, kind)
  PROVE  StackInv'
<1>. DEFINE e == <<"create", [kind |-> kind, conn |-> c]>>
<1>1. Idle(l) /\ todo' = [todo EXCEPT ![l] = <<e>>] /\ UNCHANGED <<queue, closed, context, user, session, current>>
  BY DEF Command, Open
<1>2. kind \in {"play", "publish"}
  BY LiveServiceAssumption
<1>3. e \in Steps /\ e[1] = "create"
  BY <1>2 DEF Steps
<1>. HIDE DEF e
<1>. QED BY <1>1, <1>3, BeginKeeps

LEMMA PeerCloseKeeps ==
  ASSUME StackInv, NEW l \in Loops, NEW c \in Conns, PeerClose(l, c)
  PROVE  StackInv'
<1>. DEFINE e == <<"onClose", c>>
<1>1. Idle(l) /\ todo' = [todo EXCEPT ![l] = <<e>>] /\ UNCHANGED <<queue, closed, context, user, session, current>>
  BY DEF PeerClose, Open
<1>2. e \in Steps /\ e[1] = "onClose"
  BY DEF Steps
<1>. HIDE DEF e
<1>. QED BY <1>1, <1>2, BeginKeeps

LEMMA MediaKeeps ==
  ASSUME StackInv, NEW l \in Loops, NEW c \in Conns, Media(l, c)
  PROVE  StackInv'
<1>1. Idle(l) /\ LoopOf[c] = l /\ UNCHANGED <<queue, closed, context, user, session, current>>
  BY DEF Media, Open
<1>2. CASE context[c] = None
  <2>. DEFINE e == <<"onClose", c>>
  <2>1. todo' = [todo EXCEPT ![l] = <<e>>]
    BY <1>1, <1>2 DEF Media, ForceClose
  <2>2. e \in Steps /\ e[1] = "onClose"
    BY DEF Steps
  <2>. HIDE DEF e
  <2>. QED BY <1>1, <2>1, <2>2, BeginKeeps
<1>3. CASE context[c] # None
  <2>. DEFINE s == user[context[c]].session
              e == <<"activeAll", s>>
  <2>1. todo' = [todo EXCEPT ![l] = <<e>>]
    BY <1>3 DEF Media
  <2>2. context[c] \in 1 .. Len(user)
    BY <1>3 DEF StackInv, Links
  <2>3. s \in 1 .. Len(session) /\ s \in Nat
    BY <2>2, UserAt, StackTypes
  <2>4. e \in Steps /\ e[1] = "activeAll" /\ e[2] = s
    BY <2>3 DEF Steps
  <2>. HIDE DEF e
  <2>. QED BY <1>1, <2>1, <2>3, <2>4, BeginKeeps
<1>. QED BY <1>2, <1>3

LEMMA RunTaskKeeps ==
  ASSUME StackInv, NEW l \in Loops, RunTask(l)
  PROVE  StackInv'
<1>. DEFINE lock == <<"loop", l>>
            e == <<"tasks", l>>
            r == <<"release", lock>>
            z == <<e, r>>
<1>1. Idle(l) /\ Free(lock) /\ todo' = [todo EXCEPT ![l] = z] /\ UNCHANGED <<queue, closed, context, user, session, current>>
  BY DEF RunTask
<1>2. e \in Steps /\ e[1] = "tasks" /\ r \in Steps /\ r[1] = "release" /\ r[2] = lock /\ r = <<"release", <<"loop", l>>>>
  BY DEF Steps, LockNames
<1>. HIDE DEF e, r, lock
<1>3. z \in Seq(Steps) /\ Len(z) = 2 /\ z[1] = e /\ z[2] = r
  BY <1>2
<1>. HIDE DEF z
<1>4. l \in Threads /\ l # Timer
  BY LiveServiceAssumption DEF Threads
<1>5. \A i \in 1 .. Len(z) : i = 1 \/ i = 2
  BY <1>3
<1>6. Fits(user, Len(session), e) /\ Fits(user, Len(session), r)
  BY <1>2 DEF Fits, UserOps
<1>7. \A i \in 1 .. Len(z) : Fits(user, Len(session), z[i])
  BY <1>3, <1>5, <1>6
<1>8. Placed(user, l, z, 1)
  <2>1. z[1][1] = "tasks" /\ z[1][1] \in OnLoops /\ z[1][1] \notin Alone /\ 1 + 1 = Len(z) /\ z[1 + 1] = <<"release", <<"loop", l>>>>
    BY <1>2, <1>3 DEF OnLoops, Alone
  <2>. QED BY <2>1 DEF Placed
<1>9. Placed(user, l, z, 2)
  <2>1. z[2][1] = "release" /\ z[2][1] \in OnLoops /\ z[2][1] \notin Alone /\ z[2][2] = <<"loop", l>> /\ Len(z) = 2
    BY <1>2, <1>3 DEF OnLoops, Alone
  <2>. QED BY <2>1 DEF Placed
<1>10. LoopStack(user, l, z)
  BY <1>5, <1>8, <1>9 DEF LoopStack
<1>11. \A k : HoldsIn(z, k) => k = lock
  BY <1>2, <1>3, <1>5 DEF HoldsIn
<1>. QED BY <1>1, <1>3, <1>4, <1>7, <1>10, <1>11, StackOnly

LEMMA OnTimerKeeps ==
  ASSUME StackInv, OnTimer
  PROVE  StackInv'
<1>. DEFINE e == <<"clear", current>>
            f == <<"erase", None>>
            r == <<"release", <<"service">>>>
            z == <<e, f, r>>
<1>1. /\ Idle(Timer) /\ Free(<<"service">>) /\ current # None /\ todo' = [todo EXCEPT ![Timer] = z]
      /\ UNCHANGED <<queue, closed, context, user, session, current>>
  BY DEF OnTimer
<1>2. current \in 1 .. Len(session) /\ current \in Nat
  BY <1>1, StackTypes DEF StackInv, Links
<1>3. /\ e \in Steps /\ e[1] = "clear" /\ e[2] = current
      /\ f \in Steps /\ f[1] = "erase" /\ f = <<"erase", None>>
      /\ r \in Steps /\ r[1] = "release" /\ r[2] = <<"service">> /\ r = <<"release", <<"service">>>>
  BY <1>2 DEF Steps, LockNames
<1>. HIDE DEF e, f, r
<1>4. z \in Seq(Steps) /\ Len(z) = 3 /\ z[1] = e /\ z[2] = f /\ z[3] = r
  BY <1>3
<1>. HIDE DEF z
<1>5. \A i \in 1 .. Len(z) : i = 1 \/ i = 2 \/ i = 3
  BY <1>4
<1>6. Fits(user, Len(session), e) /\ Fits(user, Len(session), f) /\ Fits(user, Len(session), r)
  BY <1>2, <1>3 DEF Fits, UserOps
<1>7. \A i \in 1 .. Len(z) : Fits(user, Len(session), z[i])
  BY <1>4, <1>5, <1>6
<1>8. TimerStack(user, session, z)
  BY <1>3, <1>4, TimerBegins
<1>9. \A k : HoldsIn(z, k) => k = <<"service">>
  BY <1>3, <1>4, <1>5 DEF HoldsIn
<1>10. Timer \in Threads /\ Timer \notin Loops
  BY LiveServiceAssumption DEF Threads
<1>. QED BY <1>1, <1>4, <1>7, <1>8, <1>9, <1>10, StackOnly

LEMMA ConcatThree ==
  ASSUME NEW a \in Seq(Steps), NEW b \in Seq(Steps), NEW e \in Steps
  PROVE  /\ a \o b \o <<e>> \in Seq(Steps)
         /\ Len(a) \in Nat /\ Len(b) \in Nat /\ Len(a \o b \o <<e>>) = Len(a) + Len(b) + 1
         /\ \A i \in 1 .. Len(a) : (a \o b \o <<e>>)[i] = a[i]
         /\ \A i \in 1 .. Len(b) : (a \o b \o <<e>>)[Len(a) + i] = b[i]
         /\ (a \o b \o <<e>>)[Len(a) + Len(b) + 1] = e
<1>1. <<e>> \in Seq(Steps) /\ Len(<<e>>) = 1 /\ <<e>>[1] = e /\ Len(a) \in Nat /\ Len(b) \in Nat
  OBVIOUS
<1>2. /\ a \o b \in Seq(Steps) /\ Len(a \o b) = Len(a) + Len(b)
      /\ \A i \in 1 .. Len(a) + Len(b) : (a \o b)[i] = IF i <= Len(a) THEN a[i] ELSE b[i - Len(a)]
  BY ConcatProperties
<1>. DEFINE c == a \o b
            z == c \o <<e>>
<1>3. c \in Seq(Steps) /\ Len(c) = Len(a) + Len(b)
  BY <1>2
<1>4. \A i \in 1 .. Len(a) : c[i] = a[i]
  <2>. SUFFICES ASSUME NEW i \in 1 .. Len(a)
                PROVE  c[i] = a[i]
    OBVIOUS
  <2>1. i \in 1 .. Len(a) + Len(b) /\ i <= Len(a)
    BY <1>1
  <2>. QED BY <1>2, <2>1
<1>5. \A i \in 1 .. Len(b) : c[Len(a) + i] = b[i]
  <2>. SUFFICES ASSUME NEW i \in 1 .. Len(b)
                PROVE  c[Len(a) + i] = b[i]
    OBVIOUS
  <2>1. Len(a) + i \in 1 .. Len(a) + Len(b) /\ ~(Len(a) + i <= Len(a)) /\ Len(a) + i - Len(a) = i
    BY <1>1
  <2>. QED BY <1>2, <2>1
<1>. HIDE DEF c
<1>6. /\ c \o <<e>> \in Seq(Steps) /\ Len(c \o <<e>>) = Len(c) + Len(<<e>>)
      /\ \A i \in 1 .. Len(c) + Len(<<e>>) : (c \o <<e>>)[i] = IF i <= Len(c) THEN c[i] ELSE <<e>>[i - Len(c)]
  <2>1. c \in Seq(Steps)
    BY <1>3
  <2>2. <<e>> \in Seq(Steps)
    BY <1>1
  <2>. QED BY <2>1, <2>2, ConcatProperties
<1>7. z \in Seq(Steps) /\ Len(z) = Len(a) + Len(b) + 1
  BY <1>1, <1>3, <1>6
<1>8. \A i \in 1 .. Len(c) : z[i] = c[i]
  <2>. SUFFICES ASSUME NEW i \in 1 .. Len(c)
                PROVE  z[i] = c[i]
    OBVIOUS
  <2>1. i \in 1 .. Len(c) + Len(<<e>>) /\ i <= Len(c)
    BY <1>1, <1>3
  <2>. QED BY <1>6, <2>1
<1>9. z[Len(a) + Len(b) + 1] = e
  <2>1. Len(a) + Len(b) + 1 \in 1 .. Len(c) + Len(<<e>>) /\ ~(Len(a) + Len(b) + 1 <= Len(c)) /\ Len(a) + Len(b) + 1 - Len(c) = 1
    BY <1>1, <1>3
  <2>. QED BY <1>1, <1>6, <2>1
<1>. HIDE DEF z
<1>10. \A i \in 1 .. Len(a) : z[i] = a[i]
  <2>1. \A i \in 1 .. Len(a) : i \in 1 .. Len(c)
    BY <1>1, <1>3
  <2>. QED BY <1>4, <1>8, <2>1
<1>11. \A i \in 1 .. Len(b) : z[Len(a) + i] = b[i]
  <2>1. \A i \in 1 .. Len(b) : Len(a) + i \in 1 .. Len(c)
    BY <1>1, <1>3
  <2>. QED BY <1>5, <1>8, <2>1
<1>. QED BY <1>1, <1>7, <1>9, <1>10, <1>11 DEF z, c

LEMMA CloseList ==
  ASSUME NEW n \in Nat, NEW f, \A i \in 1 .. n : f[i] \in Nat
  PROVE  /\ [i \in 1 .. n |-> <<"closeNoLock", f[i]>>] \in Seq(Steps)
         /\ Len([i \in 1 .. n |-> <<"closeNoLock", f[i]>>]) = n
         /\ \A k \in 1 .. n : [i \in 1 .. n |-> <<"closeNoLock", f[i]>>][k] = <<"closeNoLock", f[k]>>
<1>1. \A i \in 1 .. n : <<"closeNoLock", f[i]>> \in Steps
  BY DEF Steps, UserOps
<1>. QED BY <1>1

(* What clear does: the publisher, then the players, then players_.clear() *)
ClearOps(s) ==
  (IF session[s].publisher = None THEN <<>> ELSE <<<<"closeNoLock", session[s].publisher>>>>)
  \o [i \in 1 .. Cardinality(session[s].players) |-> <<"closeNoLock", SetToSeq(session[s].players)[i]>>]
  \o <<<<"noPlayers", s>>>>

LEMMA ClearList ==
  ASSUME StackInv, NEW s \in 1 .. Len(session)
  PROVE  \E n \in Nat :
           /\ ClearOps(s) \in Seq(Steps) /\ Len(ClearOps(s)) = n + 1 /\ ClearOps(s)[n + 1] = <<"noPlayers", s>>
           /\ \A i \in 1 .. n :
                /\ ClearOps(s)[i][1] = "closeNoLock" /\ ClearOps(s)[i][2] \in 1 .. Len(user)
                /\ user[ClearOps(s)[i][2]].session = s
                /\ user[ClearOps(s)[i][2]].kind = "publish" => i = 1 /\ session[s].publisher = ClearOps(s)[i][2]
<1>. DEFINE players == session[s].players
            pub == session[s].publisher
            m == Cardinality(players)
            f == SetToSeq(players)
            a == IF pub = None THEN <<>> ELSE <<<<"closeNoLock", pub>>>>
            b == [i \in 1 .. m |-> <<"closeNoLock", f[i]>>]
            e == <<"noPlayers", s>>
            o == a \o b \o <<e>>
<1>1. /\ pub # None => pub \in 1 .. Len(user) /\ user[pub].session = s
      /\ \A p \in players : p \in 1 .. Len(user) /\ user[p].kind = "play" /\ user[p].session = s
  BY SessionAt
<1>2. Len(user) \in Nat /\ s \in Nat
  BY StackTypes
<1>3. ClearOps(s) = o
  BY DEF ClearOps
<1>4. e \in Steps /\ e = <<"noPlayers", s>>
  BY <1>2 DEF Steps
<1>. HIDE DEF players, pub, e
<1>5. IsFiniteSet(players)
  <2>1. IsFiniteSet(1 .. Len(user))
    BY <1>2, FS_Interval
  <2>2. players \in SUBSET (1 .. Len(user))
    BY <1>1
  <2>. QED BY <2>1, <2>2, FS_Subset
<1>6. m \in Nat /\ \A i \in 1 .. m : f[i] \in players
  BY <1>5, SetToSeqIn
<1>. HIDE DEF m, f
<1>7. \A i \in 1 .. m : f[i] \in Nat /\ f[i] \in 1 .. Len(user) /\ user[f[i]].kind = "play" /\ user[f[i]].session = s
  BY <1>1, <1>2, <1>6
<1>8. b \in Seq(Steps) /\ Len(b) = m /\ \A k \in 1 .. m : b[k] = <<"closeNoLock", f[k]>>
  BY <1>6, <1>7, CloseList
<1>. HIDE DEF b
<1>9. \E k \in 0 .. 1 : /\ a \in Seq(Steps) /\ Len(a) = k
                        /\ k = 1 => pub # None /\ a[1][1] = "closeNoLock" /\ a[1][2] = pub
  <2>1. CASE pub = None
    <3>1. a = <<>>
      BY <2>1
    <3>2. a \in Seq(Steps) /\ Len(a) = 0
      BY <3>1
    <3>. QED BY <3>2
  <2>2. CASE pub # None
    <3>. DEFINE c == <<"closeNoLock", pub>>
    <3>1. a = <<c>>
      BY <2>2
    <3>2. c \in Steps /\ c[1] = "closeNoLock" /\ c[2] = pub
      BY <1>1, <1>2, <2>2 DEF Steps, UserOps
    <3>. HIDE DEF c
    <3>3. a \in Seq(Steps) /\ Len(a) = 1 /\ a[1] = c
      BY <3>1, <3>2
    <3>. QED BY <2>2, <3>2, <3>3
  <2>. QED BY <2>1, <2>2
<1>. HIDE DEF a
<1>10. PICK k \in 0 .. 1 : /\ a \in Seq(Steps) /\ Len(a) = k
                           /\ k = 1 => pub # None /\ a[1][1] = "closeNoLock" /\ a[1][2] = pub
  BY <1>9
<1>11. /\ o \in Seq(Steps)
       /\ Len(a) \in Nat /\ Len(b) \in Nat /\ Len(o) = Len(a) + Len(b) + 1
       /\ \A i \in 1 .. Len(a) : o[i] = a[i]
       /\ \A i \in 1 .. Len(b) : o[Len(a) + i] = b[i]
       /\ o[Len(a) + Len(b) + 1] = e
  <2>1. a \in Seq(Steps)
    BY <1>10
  <2>2. b \in Seq(Steps)
    BY <1>8
  <2>3. e \in Steps
    BY <1>4
  <2>4. /\ a \o b \o <<e>> \in Seq(Steps)
        /\ Len(a) \in Nat /\ Len(b) \in Nat /\ Len(a \o b \o <<e>>) = Len(a) + Len(b) + 1
        /\ \A i \in 1 .. Len(a) : (a \o b \o <<e>>)[i] = a[i]
        /\ \A i \in 1 .. Len(b) : (a \o b \o <<e>>)[Len(a) + i] = b[i]
        /\ (a \o b \o <<e>>)[Len(a) + Len(b) + 1] = e
    BY <2>1, <2>2, <2>3, ConcatThree
  <2>. QED BY <2>4
<1>. HIDE DEF o
<1>. DEFINE n == k + m
<1>12. n \in Nat /\ Len(o) = n + 1 /\ o[n + 1] = e
  BY <1>6, <1>8, <1>10, <1>11
<1>13. ASSUME NEW i \in 1 .. n
       PROVE  /\ o[i][1] = "closeNoLock" /\ o[i][2] \in 1 .. Len(user) /\ user[o[i][2]].session = s
              /\ user[o[i][2]].kind = "publish" => i = 1 /\ pub = o[i][2]
  <2>1. CASE i <= k
    <3>1. i = 1 /\ k = 1
      BY <1>10, <2>1
    <3>2. o[1] = a[1]
      BY <1>10, <1>11, <3>1
    <3>. QED BY <1>1, <1>10, <3>1, <3>2
  <2>2. CASE ~(i <= k)
    <3>1. i - k \in 1 .. m /\ k + (i - k) = i
      BY <1>6, <1>10, <2>2
    <3>2. o[i] = b[i - k]
      BY <1>8, <1>10, <1>11, <3>1
    <3>3. o[i] = <<"closeNoLock", f[i - k]>>
      BY <1>8, <3>1, <3>2
    <3>4. o[i][1] = "closeNoLock" /\ o[i][2] = f[i - k]
      BY <3>3
    <3>. QED BY <1>7, <3>1, <3>4
  <2>. QED BY <2>1, <2>2
<1>. QED BY <1>3, <1>4, <1>11, <1>12, <1>13 DEF pub

LEMMA ClearKeeps ==
  ASSUME StackInv, Clear
  PROVE  StackInv'
<1>. DEFINE s == Arg(Timer)
            lock == <<"session", s>>
            r == <<"release", lock>>
            q == todo[Timer]
            e == <<"noPlayers", s>>
            o == ClearOps(s)
            z == o \o <<r>> \o Tail(q)
<1>1. At(Timer, "clear") /\ Holding(Timer, lock, o) /\ UNCHANGED <<queue, closed, context, user, session, current>>
  BY DEF Clear, ClearOps
<1>2. Timer \in Threads /\ Timer \notin Loops
  BY LiveServiceAssumption DEF Threads
<1>3. /\ q \in Seq(Steps) /\ q # <<>> /\ q[1][1] = "clear" /\ q[1][2] = s
      /\ TimerStack(user, session, q) /\ Fits(user, Len(session), q[1])
  BY <1>1, <1>2, AtFacts
<1>4. s \in 1 .. Len(session) /\ Len(session) \in Nat /\ s \in Nat
  BY <1>3, StackTypes DEF Fits
<1>5. \E n \in Nat :
        /\ o \in Seq(Steps) /\ Len(o) = n + 1 /\ o[n + 1] = e
        /\ \A i \in 1 .. n : /\ o[i][1] = "closeNoLock" /\ o[i][2] \in 1 .. Len(user) /\ user[o[i][2]].session = s
                             /\ user[o[i][2]].kind = "publish" => i = 1 /\ session[s].publisher = o[i][2]
  <2>. HIDE DEF s
  <2>1. s \in 1 .. Len(session)
    BY <1>4
  <2>2. \E n \in Nat :
           /\ ClearOps(s) \in Seq(Steps) /\ Len(ClearOps(s)) = n + 1 /\ ClearOps(s)[n + 1] = <<"noPlayers", s>>
           /\ \A i \in 1 .. n :
                /\ ClearOps(s)[i][1] = "closeNoLock" /\ ClearOps(s)[i][2] \in 1 .. Len(user)
                /\ user[ClearOps(s)[i][2]].session = s
                /\ user[ClearOps(s)[i][2]].kind = "publish" => i = 1 /\ session[s].publisher = ClearOps(s)[i][2]
    BY <2>1, ClearList
  <2>. QED BY <2>2
<1>6. e[1] = "noPlayers" /\ e[2] = s /\ e = <<"noPlayers", s>>
  OBVIOUS
<1>. HIDE DEF e
<1>7. z = o \o <<r>> \o Tail(q)
  OBVIOUS
<1>. HIDE DEF o
<1>8. PICK n \in Nat :
        /\ o \in Seq(Steps) /\ Len(o) = n + 1 /\ o[n + 1] = e
        /\ \A i \in 1 .. n : /\ o[i][1] = "closeNoLock" /\ o[i][2] \in 1 .. Len(user) /\ user[o[i][2]].session = s
                             /\ user[o[i][2]].kind = "publish" => i = 1 /\ session[s].publisher = o[i][2]
  BY <1>5
<1>9. o # <<>>
  BY <1>8, NotEmpty
<1>10. todo' = [todo EXCEPT ![Timer] = z] /\ Free(lock)
  BY <1>1, <1>9 DEF Holding
<1>11. r \in Steps /\ r[1] = "release" /\ r[2] = lock /\ r = <<"release", <<"session", s>>>>
  BY <1>4 DEF Steps, LockNames
<1>. HIDE DEF r, z, lock, s, q
<1>12. /\ z \in Seq(Steps) /\ Len(z) = Len(o) + Len(q)
       /\ \A i \in 1 .. Len(o) : z[i] = o[i]
       /\ z[Len(o) + 1] = r
       /\ \A i \in 2 .. Len(q) : z[i + Len(o)] = q[i]
       /\ \A i \in 1 .. Len(z) : \/ z[i] = r
                                 \/ \E j \in 1 .. Len(o) : z[i] = o[j]
                                 \/ \E j \in 1 .. Len(q) : z[i] = q[j]
  <2>1. q \in Seq(Steps) /\ q # <<>>
    BY <1>3
  <2>2. r \in Steps /\ o \in Seq(Steps)
    BY <1>8, <1>11
  <2>3. z = Stacked(o, r, q)
    BY <1>7, <1>9 DEF Stacked
  <2>4. o # <<>>
    BY <1>7, <1>9
  <2>5. /\ z \in Seq(Steps) /\ Len(z) = Len(o) + Len(q)
        /\ \A i \in 1 .. Len(o) : z[i] = o[i]
        /\ z[Len(o) + 1] = r
        /\ \A i \in 2 .. Len(q) : z[i + Len(o)] = q[i]
        /\ \A i \in 1 .. Len(z) : Among(z[i], r, o, q)
    BY ZenonT(40), <2>1, <2>2, <2>3, <2>4, HoldingShape
  <2>. QED BY <2>5 DEF Among
<1>13. \A i \in 1 .. Len(o) : o[i][1] \in {"closeNoLock", "noPlayers"} /\ Fits(user, Len(session), o[i])
  <2>. SUFFICES ASSUME NEW i \in 1 .. Len(o)
                PROVE  o[i][1] \in {"closeNoLock", "noPlayers"} /\ Fits(user, Len(session), o[i])
    OBVIOUS
  <2>1. CASE i \in 1 .. n
    BY <1>8, <2>1 DEF Fits, UserOps
  <2>2. CASE i = n + 1
    BY <1>4, <1>6, <1>8, <2>2 DEF Fits, UserOps
  <2>. QED BY <1>8, <2>1, <2>2
<1>14. \A i \in 1 .. Len(z) : Fits(user, Len(session), z[i])
  <2>1. \A i \in 1 .. Len(q) : Fits(user, Len(session), q[i])
    BY <1>2 DEF StackInv, StepsFit, q
  <2>2. Fits(user, Len(session), r)
    BY <1>11 DEF Fits, UserOps
  <2>. QED BY <1>12, <1>13, <2>1, <2>2
<1>15. \A k : HoldsIn(z, k) => k = lock \/ HoldsIn(q, k)
  <2>. SUFFICES ASSUME NEW k, NEW i \in 1 .. Len(z), z[i][1] = "release", z[i][2] = k
                PROVE  k = lock \/ \E j \in 1 .. Len(q) : q[j][1] = "release" /\ q[j][2] = k
    BY DEF HoldsIn
  <2>. QED BY <1>11, <1>12, <1>13
<1>16. TimerStack(user, session, z)
  <2>1. z[Len(o) + 1] = <<"release", <<"session", s>>>> /\ o[n + 1] = <<"noPlayers", s>>
    BY <1>6, <1>8, <1>11, <1>12
  <2>2. \A i \in 1 .. n : /\ o[i][1] = "closeNoLock" /\ user[o[i][2]].session = s
                          /\ user[o[i][2]].kind = "publish" => i = 1 /\ session[s].publisher = o[i][2]
    BY <1>8
  <2>3. q \in Seq(Steps) /\ q # <<>> /\ TimerStack(user, session, q) /\ q[1][1] = "clear"
    BY <1>3
  <2>4. o \in Seq(Steps) /\ Len(o) = n + 1
    BY <1>8
  <2>5. /\ Len(z) = Len(o) + Len(q)
        /\ \A i \in 1 .. Len(o) : z[i] = o[i]
        /\ \A i \in 2 .. Len(q) : z[i + Len(o)] = q[i]
    BY <1>12
  <2>. QED BY <1>4, <2>1, <2>2, <2>3, <2>4, <2>5, TimerClears
<1>. QED BY <1>1, <1>2, <1>10, <1>12, <1>14, <1>15, <1>16, StackOnly DEF q

LEMMA StackInvInit ==
  ASSUME Init
  PROVE  StackInv
<1>1. /\ queue = [l \in Loops |-> <<>>] /\ todo = [t \in Threads |-> <<>>]
      /\ closed = [c \in Conns |-> FALSE] /\ context = [c \in Conns |-> None]
      /\ user = <<>> /\ session = <<>> /\ current = None
  BY DEF Init
<1>2. Timer \in Threads /\ \A l \in Loops : l \in Threads
  BY DEF Threads
<1>3. /\ todo \in [Threads -> Seq(Steps)] /\ queue \in [Loops -> Seq({"onClose"} \X Conns)]
      /\ user \in Seq(UserRecord) /\ session \in Seq(SessionRecord) /\ Len(user) = 0 /\ Len(session) = 0
  BY <1>1
<1>4. Types
  BY <1>1, <1>3 DEF Types
<1>5. Listed(user, session) /\ Links
  BY <1>1, <1>3 DEF Listed, Links
<1>6. StepsFit
  BY <1>1 DEF StepsFit
<1>7. LoopsOK
  BY <1>1, <1>2 DEF LoopsOK, LoopStack
<1>8. TimerOK
  BY <1>1, <1>2 DEF TimerOK, TimerStack
<1>9. Exclusive
  BY <1>1 DEF Exclusive, Holds
<1>. QED BY <1>4, <1>5, <1>6, <1>7, <1>8, <1>9 DEF StackInv

LEMMA StackInvStep ==
  ASSUME StackInv, NEW t \in Threads, Step(t)
  PROVE  StackInv'
<1>1. CASE Continue(t)
  BY <1>1, PushKeeps, NotifyKeeps, ActiveAllKeeps, OnCloseKeeps, CloseUserKeeps, RemoveUserKeeps,
     CreateSessionKeeps, JoinKeeps, AddPlayerKeeps, SetPublisherKeeps, AssignPublisherKeeps DEF Continue
<1>2. CASE t \in Loops /\ OnLoop(t)
  BY <1>2, RunTaskKeeps, RunFrontKeeps DEF OnLoop
<1>3. CASE t \in Loops /\ \E c \in Conns : Arrives(t, c)
  BY <1>3, CommandKeeps, MediaKeeps, PeerCloseKeeps DEF Arrives
<1>4. CASE OnTimer \/ OnTaskManager
  BY <1>4, OnTimerKeeps, ClearKeeps, CloseUserNoLockKeeps, NoPlayersKeeps, EraseKeeps DEF OnTaskManager
<1>. QED BY <1>1, <1>2, <1>3, <1>4 DEF Step

LEMMA StackInvNext ==
  ASSUME StackInv, [Next]_vars
  PROVE  StackInv'
<1>1. CASE Next
  BY <1>1, StackInvStep DEF Next
<1>2. CASE UNCHANGED vars
  <2>1. /\ todo' = todo /\ queue' = queue /\ closed' = closed /\ context' = context /\ user' = user
        /\ session' = session /\ current' = current
    BY <1>2 DEF vars
  <2>2. Types /\ Listed(user, session) /\ Links /\ StepsFit /\ LoopsOK /\ TimerOK /\ Exclusive
    BY DEF StackInv
  <2>3. Types'
    BY <2>1, <2>2 DEF Types
  <2>4. Listed(user, session)'
    BY <2>1, <2>2 DEF Listed
  <2>5. Links'
    <3>1. (current # None => current \in 1 .. Len(session))'
      BY <2>1, <2>2 DEF Links
    <3>2. (\A c \in Conns : context[c] # None => context[c] \in 1 .. Len(user) /\ user[context[c]].conn = c)'
      BY <2>1, <2>2 DEF Links
    <3>3. (\A l \in Loops : \A i \in 1 .. Len(queue[l]) :
             LoopOf[queue[l][i][2]] = l /\ Gone(user, queue[l][i][2]))'
      BY <2>1, <2>2 DEF Links, Gone
    <3>. QED BY <3>1, <3>2, <3>3 DEF Links
  <2>6. StepsFit' /\ LoopsOK' /\ TimerOK'
    BY <2>1, <2>2 DEF StepsFit, LoopsOK, TimerOK
  <2>7. Exclusive'
    BY <2>1, <2>2 DEF Exclusive, Holds
  <2>. QED BY <2>3, <2>4, <2>5, <2>6, <2>7 DEF StackInv
<1>. QED BY <1>1, <1>2

(* StackInv is what the other theorems rest on: what is on the threads'    *)
(* stacks fits the users, sessions and locks, and every lock has at most   *)
(* one owner (the mutexes of LiveService, LiveSession and LSSEventLoop).   *)
THEOREM StacksAreRight == Spec => []StackInv
BY StackInvInit, StackInvNext, PTL DEF Spec
-----------------------------------------------------------------------------
(* The order in which locks are taken *)

Rank(lock) == IF lock[1] = "service" THEN 1 ELSE IF lock[1] = "session" THEN 2 ELSE 3

LEMMA NeedsRank ==
  ASSUME NEW t \in Threads, Needs(t) # None
  PROVE  \/ At(t, "create") /\ Rank(Needs(t)) = 1
         \/ /\ At(t, "activeAll") \/ At(t, "clear") \/ At(t, "addPlayer") \/ At(t, "setPublisher") \/ At(t, "closed")
            /\ Rank(Needs(t)) = 2
         \/ (At(t, "push") \/ At(t, "notify")) /\ Rank(Needs(t)) = 3
<1>1. CASE At(t, "create")
  <2>1. Needs(t) = <<"service">>
    BY <1>1 DEF Needs, At
  <2>. QED BY <1>1, <2>1 DEF Rank
<1>2. CASE At(t, "push")
  <2>1. Needs(t) = <<"loop", LoopOf[Arg(t)]>>
    BY <1>2 DEF Needs, At
  <2>. QED BY <1>2, <2>1 DEF Rank
<1>3. CASE At(t, "notify")
  <2>1. Needs(t) = <<"loop", Arg(t)>>
    BY <1>3 DEF Needs, At
  <2>. QED BY <1>3, <2>1 DEF Rank
<1>4. CASE At(t, "activeAll") \/ At(t, "clear")
  <2>1. Needs(t) = <<"session", Arg(t)>>
    BY <1>4 DEF Needs, At
  <2>. QED BY <1>4, <2>1 DEF Rank
<1>5. CASE At(t, "addPlayer") \/ At(t, "setPublisher") \/ At(t, "closed")
  <2>1. Needs(t) = <<"session", user[Arg(t)].session>>
    BY <1>5 DEF Needs, At
  <2>. QED BY <1>5, <2>1 DEF Rank
<1>. QED BY <1>1, <1>2, <1>3, <1>4, <1>5 DEF Needs

LEMMA LoopOrder ==
  ASSUME StackInv, NEW t \in Loops, Needs(t) # None, NEW lock, Holds(t, lock)
  PROVE  Twice(user) \/ Rank(lock) < Rank(Needs(t))
<1>. DEFINE q == todo[t]
<1>1. t \in Threads
  BY DEF Threads
<1>2. PICK i \in 1 .. Len(q) : q[i][1] = "release" /\ q[i][2] = lock
  BY <1>1, StackTypes, HoldsInStack DEF HoldsIn
<1>3. PICK op \in {"create", "activeAll", "clear", "addPlayer", "setPublisher", "closed", "push", "notify"} : At(t, op)
  BY <1>1, NeedsRank
<1>4. /\ q \in Seq(Steps) /\ q # <<>> /\ q[1][1] = op /\ 1 \in 1 .. Len(q)
      /\ LoopStack(user, t, q) /\ Placed(user, t, q, 1) /\ op \in OnLoops
  BY <1>1, <1>3, AtFacts
<1>. HIDE DEF q
<1>5. Placed(user, t, q, i)
  BY <1>2, <1>4 DEF LoopStack
<1>6. Len(q) \in Nat /\ i = Len(q) /\ i > 1
  BY <1>2, <1>4, <1>5 DEF Placed
<1>7. op \notin Alone /\ op # "clear"
  BY <1>4, <1>6 DEF Placed, OnLoops, Alone
<1>8. CASE op = "closed"
  BY <1>2, <1>4, <1>6, <1>8 DEF Placed
<1>9. CASE op \in {"push", "notify"}
  <2>1. Rank(Needs(t)) = 3
    BY <1>1, <1>3, <1>9, NeedsRank DEF At
  <2>2. Twice(user) \/ OwnsSession(q)
    BY <1>2, <1>4, <1>6, <1>9 DEF Placed
  <2>3. OwnsSession(q) => lock[1] = "session"
    BY <1>2, <1>6 DEF OwnsSession
  <2>. QED BY <2>1, <2>2, <2>3 DEF Rank
<1>. QED BY <1>3, <1>7, <1>8, <1>9 DEF Alone

LEMMA TimerOrder ==
  ASSUME StackInv, Needs(Timer) # None, NEW lock, Holds(Timer, lock)
  PROVE  Rank(lock) < Rank(Needs(Timer))
<1>. DEFINE q == todo[Timer]
<1>1. Timer \in Threads
  BY DEF Threads
<1>2. PICK i \in 1 .. Len(q) : q[i][1] = "release" /\ q[i][2] = lock
  BY <1>1, StackTypes, HoldsInStack DEF HoldsIn
<1>3. PICK op \in {"create", "activeAll", "clear", "addPlayer", "setPublisher", "closed", "push", "notify"} : At(Timer, op)
  BY <1>1, NeedsRank
<1>4. /\ q \in Seq(Steps) /\ q # <<>> /\ q[1][1] = op /\ TimerStack(user, session, q)
      /\ op \in {"clear", "push"}
  BY <1>1, <1>3, AtFacts
<1>. HIDE DEF q
<1>5. /\ Len(q) \in Nat /\ q[Len(q)] = <<"release", <<"service">>>> /\ q[Len(q) - 1] = <<"erase", None>>
  BY <1>4 DEF TimerStack
<1>6. CASE op = "clear"
  <2>1. Len(q) = 3
    BY <1>4, <1>6, TimerHead
  <2>2. Rank(Needs(Timer)) = 2
    BY <1>1, <1>3, <1>6, NeedsRank DEF At
  <2>3. i = 3
    BY <1>2, <1>4, <1>5, <1>6, <2>1
  <2>4. lock[1] = "service"
    BY <1>2, <1>5, <2>1, <2>3
  <2>. QED BY <2>2, <2>4 DEF Rank
<1>7. CASE op = "push"
  <2>1. PICK s \in 1 .. Len(session) : ClearStack(user, session, q, s)
    BY <1>4, <1>7, TimerHead
  <2>2. Rank(Needs(Timer)) = 3
    BY <1>1, <1>3, <1>7, NeedsRank DEF At
  <2>3. ~(i \in 1 .. Len(q) - 4)
    BY <1>2, <2>1 DEF ClearStack
  <2>4. /\ Len(q) >= 4 /\ q[Len(q) - 3] = <<"noPlayers", s>>
        /\ q[Len(q) - 2] = <<"release", <<"session", s>>>>
    BY <2>1 DEF ClearStack
  <2>5. i = Len(q) \/ i = Len(q) - 1 \/ i = Len(q) - 2 \/ i = Len(q) - 3
    BY <1>5, <2>3, <2>4
  <2>6. i # Len(q) - 1 /\ i # Len(q) - 3
    BY SMTT(20), <1>2, <1>5, <2>4
  <2>7. lock[1] = "service" \/ lock[1] = "session"
    BY <1>2, <1>5, <2>4, <2>5, <2>6
  <2>. QED BY <2>2, <2>7 DEF Rank
<1>. QED BY <1>4, <1>6, <1>7

LEMMA NoCycle ==
  ASSUME StackInv
  PROVE  NoWaitCycle
<1>. SUFFICES ASSUME ~Reused, NEW S \in (SUBSET Threads) \ {{}}
              PROVE  \E t \in S : Needs(t) = None \/ \A w \in S : ~Holds(w, Needs(t))
  BY DEF NoWaitCycle
<1>. SUFFICES ASSUME \A t \in S : Needs(t) # None /\ \E w \in S : Holds(w, Needs(t))
              PROVE  FALSE
  OBVIOUS
<1>0. ~Twice(user) /\ S # {} /\ S \in SUBSET Threads
  <2>1. Twice(user) => Reused
    BY Zenon DEF Reused, Twice
  <2>. QED BY <2>1
<1>1. \A t \in S : Rank(Needs(t)) \in 1 .. 3
  BY DEF Rank
<1>2. \A t \in S : \E w \in S : Rank(Needs(t)) < Rank(Needs(w))
  <2>. SUFFICES ASSUME NEW t \in S
                PROVE  \E w \in S : Rank(Needs(t)) < Rank(Needs(w))
    OBVIOUS
  <2>1. PICK w \in S : Holds(w, Needs(t))
    OBVIOUS
  <2>2. Needs(w) # None /\ w \in Threads
    BY <1>0
  <2>3. Rank(Needs(t)) < Rank(Needs(w))
    BY <1>0, <2>1, <2>2, LoopOrder, TimerOrder DEF Threads
  <2>. QED BY <2>3
<1>3. PICK t1 \in S : TRUE
  BY <1>0
<1>4. PICK t2 \in S : Rank(Needs(t1)) < Rank(Needs(t2))
  BY <1>2
<1>5. PICK t3 \in S : Rank(Needs(t2)) < Rank(Needs(t3))
  BY <1>2
<1>6. PICK t4 \in S : Rank(Needs(t3)) < Rank(Needs(t4))
  BY <1>2
<1>. QED BY <1>1, <1>4, <1>5, <1>6

(* NoWaitCycle: the locks of LiveService, of a session and of a loop are   *)
(* taken in this order by onPlay, onPublish, onRecv, onTimer, closeUser    *)
(* and runTask, whatever the number of loops and connections; in every set *)
(* of threads somebody's next step waits for no other of the set.          *)
THEOREM NoThreadsWaitForEachOther == Spec => []NoWaitCycle
BY StacksAreRight, NoCycle, PTL
-----------------------------------------------------------------------------
(* What a step of t does to the steps that are pending: it puts those of   *)
(* new on the stack, takes the first one off, and leaves the others.       *)
Moves(t, new) ==
  /\ \A w \in Threads : w # t => todo'[w] = todo[w]
  /\ \A i \in 1 .. Len(todo'[t]) : todo'[t][i][1] # "release" =>
       \/ todo'[t][i] \in new
       \/ \E j \in 1 .. Len(todo[t]) : todo'[t][i] = todo[t][j]
  /\ \A op, x : op # "release" =>
       /\ Pending(op, x)' => Pending(op, x) \/ <<op, x>> \in new
       /\ Pending(op, x) => Pending(op, x)' \/ (At(t, op) /\ Arg(t) = x)
       /\ <<op, x>> \in new => Pending(op, x)'

Entries(ops) == {ops[j] : j \in 1 .. Len(ops)}

(* The publisher that setPublisher is about to replace has been closed *)
Replaces ==
  \A u \in 1 .. Len(user) : Pending("publisher", u) =>
    \/ session[user[u].session].publisher = None
    \/ user[session[user[u].session].publisher].destroyed

LEMMA StackMoves ==
  ASSUME StackInv, NEW t \in Threads, NEW new,
         \A w \in Threads : w # t => todo'[w] = todo[w],
         \A i \in 1 .. Len(todo'[t]) : todo'[t][i][1] # "release" =>
           \/ todo'[t][i] \in new
           \/ \E j \in 1 .. Len(todo[t]) : todo'[t][i] = todo[t][j],
         \A e \in new : \E i \in 1 .. Len(todo'[t]) : todo'[t][i] = e,
         \A j \in 2 .. Len(todo[t]) : todo[t][j][1] # "release" =>
           \E i \in 1 .. Len(todo'[t]) : todo'[t][i] = todo[t][j]
  PROVE  Moves(t, new)
<1>. SUFFICES ASSUME NEW op, NEW x, op # "release"
              PROVE  /\ Pending(op, x)' => Pending(op, x) \/ <<op, x>> \in new
                     /\ Pending(op, x) => Pending(op, x)' \/ (At(t, op) /\ Arg(t) = x)
                     /\ <<op, x>> \in new => Pending(op, x)'
  BY DEF Moves
<1>. DEFINE e == <<op, x>>
<1>1. e[1] # "release" /\ e[1] = op /\ e[2] = x
  OBVIOUS
<1>. HIDE DEF e
<1>2. /\ Pending(op, x) <=> \E w \in Threads : \E i \in 1 .. Len(todo[w]) : todo[w][i] = e
      /\ Pending(op, x)' <=> \E w \in Threads : \E i \in 1 .. Len(todo'[w]) : todo'[w][i] = e
      /\ <<op, x>> \in new <=> e \in new
  BY DEF Pending, e
<1>4. ASSUME Pending(op, x)'
      PROVE  Pending(op, x) \/ <<op, x>> \in new
  <2>0. PICK w \in Threads : \E i \in 1 .. Len(todo'[w]) : todo'[w][i] = e
    BY <1>2, <1>4
  <2>1. PICK i \in 1 .. Len(todo'[w]) : todo'[w][i] = e
    BY <2>0
  <2>2. CASE w = t
    <3>1. i \in 1 .. Len(todo'[t]) /\ todo'[t][i] = e /\ todo'[t][i][1] # "release"
      BY <1>1, <2>1, <2>2
    <3>. QED BY <1>2, <3>1
  <2>3. CASE w # t
    BY <1>2, <2>1, <2>3
  <2>. QED BY <2>2, <2>3
<1>5. ASSUME Pending(op, x)
      PROVE  Pending(op, x)' \/ (At(t, op) /\ Arg(t) = x)
  <2>0. PICK w \in Threads : \E i \in 1 .. Len(todo[w]) : todo[w][i] = e
    BY <1>2, <1>5
  <2>1. PICK i \in 1 .. Len(todo[w]) : todo[w][i] = e
    BY <2>0
  <2>2. CASE w # t
    BY <1>2, <2>1, <2>2
  <2>3. CASE w = t /\ i \in 2 .. Len(todo[t])
    <3>1. \E k \in 1 .. Len(todo'[t]) : todo'[t][k] = e
      BY <1>1, <2>1, <2>3
    <3>. QED BY <1>2, <3>1
  <2>4. CASE w = t /\ i = 1
    <3>1. todo[t] \in Seq(Steps) /\ todo[t][1] = e
      BY <2>1, <2>4, StackTypes
    <3>2. Len(todo[t]) > 0
      BY <2>1, <2>4, <3>1
    <3>3. todo[t] # <<>>
      BY <3>1, <3>2, NotEmpty
    <3>4. Head(todo[t]) = todo[t][1]
      BY <3>1, <3>3
    <3>. QED BY <1>1, <3>1, <3>3, <3>4 DEF At, Idle, Arg
  <2>. QED BY <2>1, <2>2, <2>3, <2>4, StackTypes
<1>6. ASSUME <<op, x>> \in new
      PROVE  Pending(op, x)'
  BY <1>2, <1>6
<1>. QED BY <1>4, <1>5, <1>6

LEMMA SeqsJoin ==
  ASSUME NEW S, NEW T, NEW q \in Seq(S)
  PROVE  q \in Seq(S \cup T) /\ q \in Seq(T \cup S)
OBVIOUS

(* Of a step that ends with Then(t, ops) *)
LEMMA ThenMoves ==
  ASSUME StackInv, NEW t \in Threads, NEW op, At(t, op),
         NEW S, NEW ops \in Seq(S), Then(t, ops), NoRelease(ops)
  PROVE  Moves(t, Entries(ops))
<1>. DEFINE q == todo[t]
            T == S \cup Steps
            y == ops \o Tail(q)
            z == Released(y)
<1>1. q \in Seq(Steps) /\ q # <<>>
  BY AtFacts
<1>2. todo' = [todo EXCEPT ![t] = z]
  BY DEF Then
<1>. HIDE DEF q
<1>3. q \in Seq(T) /\ ops \in Seq(T)
  BY <1>1, SeqsJoin
<1>. HIDE DEF T
<1>4. /\ y \in Seq(T) /\ Len(y) = Len(ops) + Len(q) - 1
      /\ \A i \in 1 .. Len(y) : y[i] = IF i <= Len(ops) THEN ops[i] ELSE q[i - Len(ops) + 1]
  BY <1>1, <1>3, ConcatTail
<1>. HIDE DEF y
<1>5. /\ z \in Seq(T)
      /\ \/ /\ z = y
            /\ Len(y) > 0 => y[1][1] # "release"
         \/ /\ Len(y) > 0 /\ y[1][1] = "release" /\ Len(z) = Len(y) - 1
            /\ \A i \in 1 .. Len(z) : z[i] = y[i + 1]
  BY <1>4, ReleasedSeq
<1>. HIDE DEF z
<1>6. Len(y) \in Nat /\ Len(z) \in Nat /\ Len(ops) \in Nat /\ Len(q) \in Nat
  BY <1>1, <1>4, <1>5
<1>7. \A i \in 1 .. Len(z) : \E k \in 1 .. Len(y) : z[i] = y[k]
  <2>1. \A i \in 1 .. Len(z) : Len(z) = Len(y) - 1 => i + 1 \in 1 .. Len(y)
    BY <1>6
  <2>. QED BY <1>5, <2>1
<1>8. \A k \in 1 .. Len(y) : y[k][1] # "release" => \E i \in 1 .. Len(z) : z[i] = y[k]
  <2>. SUFFICES ASSUME NEW k \in 1 .. Len(y), y[k][1] # "release"
                PROVE  \E i \in 1 .. Len(z) : z[i] = y[k]
    OBVIOUS
  <2>1. CASE z = y
    BY <2>1
  <2>2. CASE y[1][1] = "release" /\ Len(z) = Len(y) - 1 /\ \A i \in 1 .. Len(z) : z[i] = y[i + 1]
    <3>1. k # 1
      BY <2>2
    <3>2. k - 1 \in 1 .. Len(z) /\ k - 1 + 1 = k
      BY <1>6, <2>2, <3>1
    <3>. QED BY <2>2, <3>2
  <2>. QED BY <1>5, <2>1, <2>2
<1>9. \A i \in 1 .. Len(y) : \/ \E j \in 1 .. Len(ops) : y[i] = ops[j]
                             \/ \E j \in 1 .. Len(q) : y[i] = q[j]
  <2>. SUFFICES ASSUME NEW i \in 1 .. Len(y)
                PROVE  \/ \E j \in 1 .. Len(ops) : y[i] = ops[j]
                       \/ \E j \in 1 .. Len(q) : y[i] = q[j]
    OBVIOUS
  <2>1. CASE i <= Len(ops)
    BY <1>4, <1>6, <2>1
  <2>2. CASE ~(i <= Len(ops))
    <3>1. i - Len(ops) + 1 \in 1 .. Len(q)
      BY <1>4, <1>6, <2>2
    <3>. QED BY <1>4, <2>2, <3>1
  <2>. QED BY <2>1, <2>2
<1>10. \A j \in 1 .. Len(ops) : \E i \in 1 .. Len(y) : y[i] = ops[j]
  <2>1. Len(q) >= 1
    BY <1>1
  <2>2. \A j \in 1 .. Len(ops) : j \in 1 .. Len(y) /\ j <= Len(ops)
    BY <1>4, <1>6, <2>1
  <2>. QED BY <1>4, <2>2
<1>11. \A j \in 2 .. Len(q) : \E i \in 1 .. Len(y) : y[i] = q[j]
  <2>. SUFFICES ASSUME NEW j \in 2 .. Len(q)
                PROVE  \E i \in 1 .. Len(y) : y[i] = q[j]
    OBVIOUS
  <2>. DEFINE k == j + Len(ops) - 1
  <2>1. k \in 1 .. Len(y) /\ ~(k <= Len(ops)) /\ k - Len(ops) + 1 = j
    BY <1>4, <1>6
  <2>. HIDE DEF k
  <2>2. y[k] = q[k - Len(ops) + 1]
    BY <1>4, <2>1
  <2>. QED BY <2>1, <2>2
<1>12. \A i \in 1 .. Len(z) : \/ \E j \in 1 .. Len(ops) : z[i] = ops[j]
                              \/ \E j \in 1 .. Len(q) : z[i] = q[j]
  BY <1>7, <1>9
<1>13. \A j \in 1 .. Len(ops) : \E i \in 1 .. Len(z) : z[i] = ops[j]
  <2>. SUFFICES ASSUME NEW j \in 1 .. Len(ops)
                PROVE  \E i \in 1 .. Len(z) : z[i] = ops[j]
    OBVIOUS
  <2>1. ops[j][1] # "release"
    BY DEF NoRelease
  <2>2. PICK k \in 1 .. Len(y) : y[k] = ops[j]
    BY <1>10
  <2>. QED BY <1>8, <2>1, <2>2
<1>14. \A j \in 2 .. Len(q) : q[j][1] # "release" => \E i \in 1 .. Len(z) : z[i] = q[j]
  <2>. SUFFICES ASSUME NEW j \in 2 .. Len(q), q[j][1] # "release"
                PROVE  \E i \in 1 .. Len(z) : z[i] = q[j]
    OBVIOUS
  <2>1. PICK k \in 1 .. Len(y) : y[k] = q[j]
    BY <1>11
  <2>. QED BY <1>8, <2>1
<1>15. todo'[t] = z /\ \A w \in Threads : w # t => todo'[w] = todo[w]
  BY <1>2, StackTypes
<1>16. \A i \in 1 .. Len(todo'[t]) : todo'[t][i][1] # "release" =>
         \/ todo'[t][i] \in Entries(ops)
         \/ \E j \in 1 .. Len(todo[t]) : todo'[t][i] = todo[t][j]
  BY <1>12, <1>15 DEF q, Entries
<1>17. \A e \in Entries(ops) : \E i \in 1 .. Len(todo'[t]) : todo'[t][i] = e
  BY <1>13, <1>15 DEF Entries
<1>18. \A j \in 2 .. Len(todo[t]) : todo[t][j][1] # "release" =>
         \E i \in 1 .. Len(todo'[t]) : todo'[t][i] = todo[t][j]
  BY <1>14, <1>15 DEF q
<1>19. \A w \in Threads : w # t => todo'[w] = todo[w]
  BY <1>15
<1>. QED BY <1>16, <1>17, <1>18, <1>19, StackMoves

LEMMA NoneMoves ==
  ASSUME StackInv, NEW t \in Threads, NEW op, At(t, op), Then(t, <<>>)
  PROVE  Moves(t, {})
<1>1. <<>> \in Seq({}) /\ NoRelease(<<>>)
  BY DEF NoRelease
<1>2. Entries(<<>>) = {}
  BY DEF Entries
<1>3. Moves(t, Entries(<<>>))
  BY <1>1, ThenMoves
<1>. QED BY <1>2, <1>3

LEMMA OneMoves ==
  ASSUME StackInv, NEW t \in Threads, NEW op, At(t, op), NEW e, e[1] # "release", Then(t, <<e>>)
  PROVE  Moves(t, {e})
<1>1. <<e>> \in Seq({e}) /\ NoRelease(<<e>>)
  BY DEF NoRelease
<1>2. Entries(<<e>>) = {e}
  BY DEF Entries
<1>3. Moves(t, Entries(<<e>>))
  BY <1>1, ThenMoves
<1>. QED BY <1>2, <1>3

LEMMA TwoMoves ==
  ASSUME StackInv, NEW t \in Threads, NEW op, At(t, op), NEW e, NEW f, e[1] # "release", f[1] # "release",
         Then(t, <<e, f>>)
  PROVE  Moves(t, {e, f})
<1>1. <<e, f>> \in Seq({e, f}) /\ NoRelease(<<e, f>>)
  BY DEF NoRelease
<1>2. Entries(<<e, f>>) = {e, f}
  BY DEF Entries
<1>3. Moves(t, Entries(<<e, f>>))
  BY <1>1, ThenMoves
<1>. QED BY <1>2, <1>3

(* Of a step that begins with Holding(t, lock, ops) *)
LEMMA HoldMoves ==
  ASSUME StackInv, NEW t \in Threads, NEW op, At(t, op), NEW lock \in LockNames,
         NEW ops \in Seq(Steps), Holding(t, lock, ops), NoRelease(ops)
  PROVE  Moves(t, Entries(ops))
<1>. DEFINE q == todo[t]
            r == <<"release", lock>>
            z == ops \o <<r>> \o Tail(q)
<1>1. q \in Seq(Steps) /\ q # <<>>
  BY AtFacts
<1>2. CASE ops = <<>>
  <2>1. todo' = [todo EXCEPT ![t] = Released(Tail(q))]
    BY <1>2 DEF Holding
  <2>2. Tail(q) \in Seq(Steps)
    BY <1>1
  <2>. HIDE DEF q
  <2>3. <<>> \o Tail(q) = Tail(q)
    BY <2>2
  <2>. USE DEF q
  <2>4. Then(t, <<>>)
    BY <2>1, <2>3 DEF Then
  <2>5. Moves(t, {})
    BY <2>4, NoneMoves
  <2>6. Entries(ops) = {}
    BY <1>2 DEF Entries
  <2>. QED BY <2>5, <2>6
<1>3. CASE ops # <<>>
  <2>1. todo' = [todo EXCEPT ![t] = z]
    BY <1>3 DEF Holding
  <2>2. todo'[t] = z /\ \A w \in Threads : w # t => todo'[w] = todo[w]
    BY <2>1, StackTypes
  <2>3. r \in Steps /\ r[1] = "release"
    BY DEF Steps
  <2>. HIDE DEF q, r
  <2>4. z = Stacked(ops, r, q)
    BY DEF Stacked
  <2>. HIDE DEF z
  <2>5. /\ z \in Seq(Steps) /\ Len(z) = Len(ops) + Len(q)
        /\ \A i \in 1 .. Len(ops) : z[i] = ops[i]
        /\ z[Len(ops) + 1] = r
        /\ \A i \in 2 .. Len(q) : z[i + Len(ops)] = q[i]
        /\ \A i \in 1 .. Len(z) : Among(z[i], r, ops, q)
    <3>1. /\ Stacked(ops, r, q) \in Seq(Steps) /\ Len(Stacked(ops, r, q)) = Len(ops) + Len(q)
          /\ \A i \in 1 .. Len(ops) : Stacked(ops, r, q)[i] = ops[i]
          /\ Stacked(ops, r, q)[Len(ops) + 1] = r
          /\ \A i \in 2 .. Len(q) : Stacked(ops, r, q)[i + Len(ops)] = q[i]
          /\ \A i \in 1 .. Len(Stacked(ops, r, q)) : Among(Stacked(ops, r, q)[i], r, ops, q)
      BY <1>1, <1>3, <2>3, HoldingShape
    <3>. QED BY <2>4, <3>1
  <2>6. Len(ops) \in Nat /\ Len(q) \in Nat
    BY <1>1
  <2>7. \A i \in 1 .. Len(todo'[t]) : todo'[t][i][1] # "release" =>
          \/ todo'[t][i] \in Entries(ops)
          \/ \E j \in 1 .. Len(todo[t]) : todo'[t][i] = todo[t][j]
    BY ZenonT(30), <2>2, <2>3, <2>5 DEF Entries, Among, q
  <2>8. \A e \in Entries(ops) : \E i \in 1 .. Len(todo'[t]) : todo'[t][i] = e
    <3>1. \A j \in 1 .. Len(ops) : j \in 1 .. Len(z)
      BY <2>5, <2>6
    <3>. QED BY <2>2, <2>5, <3>1 DEF Entries
  <2>9. \A j \in 2 .. Len(todo[t]) : todo[t][j][1] # "release" =>
          \E i \in 1 .. Len(todo'[t]) : todo'[t][i] = todo[t][j]
    <3>1. \A j \in 2 .. Len(q) : j + Len(ops) \in 1 .. Len(z)
      BY <2>5, <2>6
    <3>. QED BY <2>2, <2>5, <3>1 DEF q
  <2>10. \A w \in Threads : w # t => todo'[w] = todo[w]
    BY <2>2
  <2>. QED BY <2>7, <2>8, <2>9, <2>10, StackMoves
<1>. QED BY <1>2, <1>3

(* Of a step that an idle thread begins *)
LEMMA IdleMoves ==
  ASSUME StackInv, NEW t \in Threads, Idle(t), NEW z, todo' = [todo EXCEPT ![t] = z]
  PROVE  Moves(t, Entries(z))
<1>1. todo'[t] = z /\ \A w \in Threads : w # t => todo'[w] = todo[w]
  BY StackTypes
<1>2. \A i \in 1 .. Len(todo'[t]) : todo'[t][i][1] # "release" =>
          \/ todo'[t][i] \in Entries(z)
          \/ \E j \in 1 .. Len(todo[t]) : todo'[t][i] = todo[t][j]
  BY <1>1 DEF Entries
<1>3. \A e \in Entries(z) : \E i \in 1 .. Len(todo'[t]) : todo'[t][i] = e
  BY <1>1 DEF Entries
<1>4. \A j \in 2 .. Len(todo[t]) : todo[t][j][1] # "release" =>
          \E i \in 1 .. Len(todo'[t]) : todo'[t][i] = todo[t][j]
  BY DEF Idle
<1>. QED BY <1>1, <1>2, <1>3, <1>4, StackMoves
-----------------------------------------------------------------------------
(* Whoever is destroyed is being closed, or was a player of a session that *)
(* has been left                                                           *)

CloseComes(c) == closed[c] \/ Closing(c)
Left(u)       == current # user[u].session \/ Pending("erase", None)

(* Nobody pushes, runs or finishes the closing of a connection *)
LEMMA ClosingStays ==
  ASSUME NEW t \in Threads, NEW new, Moves(t, new), ~At(t, "onClose"), ~At(t, "push"),
         UNCHANGED queue, \A c \in Conns : closed[c] => closed'[c]
  PROVE  \A c \in Conns : CloseComes(c) => CloseComes(c)'
<1>. SUFFICES ASSUME NEW c \in Conns, CloseComes(c)
              PROVE  CloseComes(c)'
  OBVIOUS
<1>1. Pending("onClose", c) => Pending("onClose", c)'
  BY DEF Moves
<1>2. Pending("push", c) => Pending("push", c)'
  BY DEF Moves
<1>3. Contains(queue[LoopOf[c]], <<"onClose", c>>) => Contains(queue[LoopOf[c]], <<"onClose", c>>)'
  OBVIOUS
<1>. QED BY <1>1, <1>2, <1>3 DEF CloseComes, Closing

LEMMA LeftStays ==
  ASSUME NEW t \in Threads, NEW new, Moves(t, new), ~At(t, "erase"), UNCHANGED current, Extends(user, user')
  PROVE  \A u \in 1 .. Len(user) : Left(u) => Left(u)'
<1>1. Pending("erase", None) => Pending("erase", None)'
  BY DEF Moves
<1>. QED BY <1>1 DEF Left, Extends

CloseOrLeft(u) ==
  \/ \E c \in Conns : user[u].conn = c /\ CloseComes(c)
  \/ user[u].kind = "play" /\ Left(u)

(* DestroyedIsClosing *)
DestroyedClose == \A u \in 1 .. Len(user) : user[u].destroyed => CloseOrLeft(u)

LEMMA DestroyedFrame ==
  ASSUME DestroyedClose, Extends(user, user'),
         \A c \in Conns : CloseComes(c) => CloseComes(c)',
         \A u \in 1 .. Len(user) : Left(u) => Left(u)',
         \A u \in 1 .. Len(user') : user'[u].destroyed =>
           \/ u \in 1 .. Len(user) /\ user[u].destroyed
           \/ CloseOrLeft(u)'
  PROVE  DestroyedClose'
<1>. SUFFICES ASSUME NEW u \in 1 .. Len(user'), user'[u].destroyed
              PROVE  CloseOrLeft(u)'
  BY DEF DestroyedClose
<1>. SUFFICES ASSUME u \in 1 .. Len(user), user[u].destroyed
              PROVE  CloseOrLeft(u)'
  OBVIOUS
<1>1. user'[u].conn = user[u].conn /\ user'[u].kind = user[u].kind
  BY DEF Extends
<1>2. CloseOrLeft(u)
  BY DEF DestroyedClose
<1>3. ASSUME NEW c \in Conns, user[u].conn = c, CloseComes(c)
      PROVE  CloseOrLeft(u)'
  <2>1. user'[u].conn = c /\ CloseComes(c)'
    BY <1>1, <1>3
  <2>. QED BY <2>1 DEF CloseOrLeft
<1>4. ASSUME user[u].kind = "play", Left(u)
      PROVE  CloseOrLeft(u)'
  <2>1. user'[u].kind = "play" /\ Left(u)'
    BY <1>1, <1>4
  <2>. QED BY <2>1 DEF CloseOrLeft
<1>. QED BY <1>2, <1>3, <1>4 DEF CloseOrLeft

-----------------------------------------------------------------------------
(* Whoever feeds a stream is its publisher, or was forgotten *)

LEMMA ReplacesFrame ==
  ASSUME StackInv, StackInv', Replaces, NEW t \in Threads, NEW new, Moves(t, new), Extends(user, user'),
         \A u : <<"publisher", u>> \notin new,
         \A s \in 1 .. Len(session) : session'[s].publisher = session[s].publisher \/ session'[s].publisher = None
  PROVE  Replaces'
<1>. SUFFICES ASSUME NEW u \in 1 .. Len(user'), Pending("publisher", u)'
              PROVE  \/ session'[user'[u].session].publisher = None
                     \/ user'[session'[user'[u].session].publisher].destroyed
  BY DEF Replaces
<1>1. Pending("publisher", u)
  BY DEF Moves
<1>2. u \in 1 .. Len(user)
  <2>1. PICK w \in Threads : \E i \in 1 .. Len(todo[w]) : todo[w][i] = <<"publisher", u>>
    BY <1>1 DEF Pending
  <2>2. PICK i \in 1 .. Len(todo[w]) : todo[w][i] = <<"publisher", u>>
    BY <2>1
  <2>3. Fits(user, Len(session), todo[w][i])
    BY DEF StackInv, StepsFit
  <2>. QED BY <2>2, <2>3 DEF Fits, UserOps
<1>. DEFINE s == user[u].session
            p == session[s].publisher
<1>3. user'[u].session = s /\ s \in 1 .. Len(session)
  BY <1>2, UserAt DEF Extends
<1>4. p = None \/ user[p].destroyed
  BY <1>1, <1>2 DEF Replaces
<1>5. p # None => p \in 1 .. Len(user)
  BY <1>3, SessionAt
<1>6. session'[s].publisher = p \/ session'[s].publisher = None
  BY <1>3
<1>7. p # None /\ user[p].destroyed => user'[p].destroyed
  BY <1>5 DEF Extends
<1>. HIDE DEF s, p
<1>. QED BY <1>3, <1>4, <1>6, <1>7

(* The user feeds its stream before and after the step *)
LEMMA FeederFrame ==
  ASSUME StackInv, OneFeeder, NEW t \in Threads, NEW new, Moves(t, new), Extends(user, user'),
         NEW u \in 1 .. Len(user), ~(At(t, "setPublisher") /\ Arg(t) = u), ~(At(t, "publisher") /\ Arg(t) = u),
         \A c \in Conns : closed[c] => closed'[c], Feeding(u)'
  PROVE  session[user[u].session].publisher = u \/ u \in forgotten \/ Twice(user)
<1>1. user'[u].kind = user[u].kind /\ user'[u].conn = user[u].conn /\ (user[u].destroyed => user'[u].destroyed)
  BY DEF Extends
<1>2. user[u].conn \in Conns
  BY UserAt
<1>3. Pending("setPublisher", u) => Pending("setPublisher", u)'
  BY DEF Moves
<1>4. Pending("publisher", u) => Pending("publisher", u)'
  BY DEF Moves
<1>5. Feeding(u)
  <2>1. user'[u].kind = "publish" /\ ~user'[u].destroyed /\ ~closed'[user'[u].conn] /\ ~Joining(u)'
    BY DEF Feeding
  <2>2. ~Joining(u)
    BY <1>3, <1>4, <2>1 DEF Joining
  <2>. QED BY <1>1, <1>2, <2>1, <2>2 DEF Feeding
<1>. QED BY <1>5 DEF OneFeeder, Reused, Twice

LEMMA OneFeederFrame ==
  ASSUME StackInv, OneFeeder, NEW t \in Threads, NEW new, Moves(t, new), user' \in Seq(UserRecord), Extends(user, user'),
         ~At(t, "setPublisher"), ~At(t, "publisher"),
         \A c \in Conns : closed[c] => closed'[c], forgotten \subseteq forgotten',
         \A s \in 1 .. Len(session) :
           \/ session'[s].publisher = session[s].publisher
           \/ \A u \in 1 .. Len(user) : session[s].publisher = u => u \in forgotten' \/ user'[u].destroyed,
         \A u \in 1 .. Len(user') : u \in 1 .. Len(user) \/ ~Feeding(u)'
  PROVE  OneFeeder'
<1>. SUFFICES ASSUME NEW u \in 1 .. Len(user'), Feeding(u)'
              PROVE  session'[user'[u].session].publisher = u \/ u \in forgotten' \/ Reused'
  BY DEF OneFeeder
<1>1. u \in 1 .. Len(user)
  OBVIOUS
<1>2. session[user[u].session].publisher = u \/ u \in forgotten \/ Twice(user)
  BY <1>1, FeederFrame
<1>3. Twice(user) => Twice(user')
  BY GoneStays, StackTypes
<1>4. Twice(user') => Reused'
  BY DEF Twice, Reused
<1>5. user'[u].session = user[u].session /\ user[u].session \in 1 .. Len(session)
  BY <1>1, UserAt DEF Extends
<1>6. ~user'[u].destroyed
  BY DEF Feeding
<1>. QED BY <1>1, <1>2, <1>3, <1>4, <1>5, <1>6

-----------------------------------------------------------------------------
(* A step after which nobody is the publisher who was not before *)

UserInv == DestroyedClose /\ OneFeeder /\ Replaces

LEMMA OneOp ==
  ASSUME NEW t, NEW op, NEW op2, At(t, op), op # op2
  PROVE  ~At(t, op2)
BY DEF At

LEMMA FrameStep ==
  ASSUME StackInv, StackInv', UserInv, NEW t \in Threads, NEW new, Moves(t, new),
         \A x : <<"publisher", x>> \notin new, ~At(t, "setPublisher"), ~At(t, "publisher"),
         user' \in Seq(UserRecord), Extends(user, user'),
         forgotten \subseteq forgotten', \A c \in Conns : closed[c] => closed'[c],
         \A c \in Conns : CloseComes(c) => CloseComes(c)',
         \A u \in 1 .. Len(user) : Left(u) => Left(u)',
         \A u \in 1 .. Len(user') : user'[u].destroyed => (u \in 1 .. Len(user) /\ user[u].destroyed) \/ CloseOrLeft(u)',
         \A u \in 1 .. Len(user') : u \in 1 .. Len(user) \/ ~Feeding(u)',
         \A s \in 1 .. Len(session) :
           \/ session'[s].publisher = session[s].publisher
           \/ /\ session'[s].publisher = None
              /\ \A u \in 1 .. Len(user) : session[s].publisher = u => u \in forgotten' \/ user'[u].destroyed
  PROVE  UserInv'
<1>1. DestroyedClose /\ Replaces /\ OneFeeder
  BY DEF UserInv
<1>2. DestroyedClose'
  BY <1>1, DestroyedFrame
<1>3. Replaces'
  <2>1. \A s \in 1 .. Len(session) : session'[s].publisher = session[s].publisher \/ session'[s].publisher = None
    OBVIOUS
  <2>. QED BY <1>1, <2>1, ReplacesFrame
<1>4. OneFeeder'
  <2>1. \A s \in 1 .. Len(session) :
          \/ session'[s].publisher = session[s].publisher
          \/ \A u \in 1 .. Len(user) : session[s].publisher = u => u \in forgotten' \/ user'[u].destroyed
    OBVIOUS
  <2>. QED BY <1>1, <2>1, OneFeederFrame
<1>. QED BY <1>2, <1>3, <1>4 DEF UserInv

LEMMA SameUsers ==
  ASSUME StackInv, StackInv', UserInv, NEW t \in Threads, NEW new, Moves(t, new),
         \A x : <<"publisher", x>> \notin new, ~At(t, "erase"), ~At(t, "setPublisher"), ~At(t, "publisher"),
         UNCHANGED <<user, current, forgotten>>,
         \A c \in Conns : closed[c] => closed'[c],
         \A c \in Conns : CloseComes(c) => CloseComes(c)',
         \A s \in 1 .. Len(session) : session'[s].publisher = session[s].publisher
  PROVE  UserInv'
<1>1. user' = user /\ user' \in Seq(UserRecord) /\ Extends(user, user') /\ forgotten \subseteq forgotten'
  BY StackTypes, ExtendsItself
<1>2. \A u \in 1 .. Len(user) : Left(u) => Left(u)'
  BY <1>1, LeftStays
<1>3. /\ \A u \in 1 .. Len(user') : user'[u].destroyed => (u \in 1 .. Len(user) /\ user[u].destroyed) \/ CloseOrLeft(u)'
      /\ \A u \in 1 .. Len(user') : u \in 1 .. Len(user) \/ ~Feeding(u)'
  BY <1>1
<1>. QED BY <1>1, <1>2, <1>3, FrameStep

LEMMA QuietStep ==
  ASSUME StackInv, StackInv', UserInv, NEW t \in Threads, NEW new, Moves(t, new),
         \A x : <<"publisher", x>> \notin new,
         ~At(t, "onClose"), ~At(t, "push"), ~At(t, "erase"), ~At(t, "setPublisher"), ~At(t, "publisher"),
         UNCHANGED <<queue, closed, user, current, forgotten>>,
         \A s \in 1 .. Len(session) : session'[s].publisher = session[s].publisher
  PROVE  UserInv'
<1>1. \A c \in Conns : closed[c] => closed'[c]
  OBVIOUS
<1>2. \A c \in Conns : CloseComes(c) => CloseComes(c)'
  BY <1>1, ClosingStays
<1>. QED BY <1>1, <1>2, SameUsers

LEMMA NotifyUsers ==
  ASSUME StackInv, StackInv', UserInv, NEW t \in Threads, Notify(t)
  PROVE  UserInv'
<1>1. At(t, "notify") /\ Then(t, <<>>) /\ UNCHANGED <<queue, closed, user, session, current, forgotten>>
  BY DEF Notify
<1>2. Moves(t, {})
  BY <1>1, NoneMoves
<1>3. ~At(t, "onClose") /\ ~At(t, "push") /\ ~At(t, "erase") /\ ~At(t, "setPublisher") /\ ~At(t, "publisher")
  BY <1>1, OneOp
<1>. QED BY <1>1, <1>2, <1>3, QuietStep

(* A session's players change, not its publisher *)
LEMMA PlayersUsers ==
  ASSUME StackInv, StackInv', UserInv, NEW t \in Threads, NEW op \in {"addPlayer", "noPlayers"}, At(t, op), Then(t, <<>>),
         UNCHANGED <<queue, closed, user, current, forgotten>>,
         NEW s \in 1 .. Len(session), NEW p, session' = [session EXCEPT ![s].players = p]
  PROVE  UserInv'
<1>1. Moves(t, {})
  BY NoneMoves
<1>2. ~At(t, "onClose") /\ ~At(t, "push") /\ ~At(t, "erase") /\ ~At(t, "setPublisher") /\ ~At(t, "publisher")
  BY OneOp
<1>3. \A k \in 1 .. Len(session) : session'[k].publisher = session[k].publisher
  <2>1. \A k \in 1 .. Len(session) : session[k] \in SessionRecord
    BY SessionAt
  <2>2. session \in Seq(SessionRecord)
    BY StackTypes
  <2>. QED BY <2>1, <2>2 DEF SessionRecord
<1>. QED BY <1>1, <1>2, <1>3, QuietStep

LEMMA AddPlayerUsers ==
  ASSUME StackInv, StackInv', UserInv, NEW t \in Threads, AddPlayer(t)
  PROVE  UserInv'
<1>. DEFINE u == Arg(t)
            s == user[u].session
            p == session[s].players \cup {u}
<1>1. At(t, "addPlayer") /\ Then(t, <<>>) /\ UNCHANGED <<queue, closed, user, current, forgotten>>
  BY DEF AddPlayer
<1>2. session' = [session EXCEPT ![s].players = p]
  BY DEF AddPlayer
<1>3. u \in 1 .. Len(user)
  BY <1>1, UserOp DEF UserOps
<1>4. s \in 1 .. Len(session)
  BY <1>3, UserAt
<1>. HIDE DEF s, p
<1>. QED BY <1>1, <1>2, <1>4, PlayersUsers

LEMMA NoPlayersUsers ==
  ASSUME StackInv, StackInv', UserInv, NoPlayers
  PROVE  UserInv'
<1>. DEFINE s == Arg(Timer)
<1>1. At(Timer, "noPlayers") /\ Then(Timer, <<>>) /\ UNCHANGED <<queue, closed, user, current, forgotten>>
  BY DEF NoPlayers
<1>2. session' = [session EXCEPT ![s].players = {}]
  BY DEF NoPlayers
<1>3. Timer \in Threads
  BY DEF Threads
<1>4. s \in 1 .. Len(session)
  <2>1. todo[Timer][1][1] = "noPlayers" /\ todo[Timer][1][2] = s /\ Fits(user, Len(session), todo[Timer][1])
    BY <1>1, <1>3, AtFacts
  <2>. QED BY <2>1 DEF Fits
<1>. HIDE DEF s
<1>. QED BY <1>1, <1>2, <1>3, <1>4, PlayersUsers

(* What an idle thread begins *)
LEMMA BeginUsers ==
  ASSUME StackInv, StackInv', UserInv, NEW t \in Threads, Idle(t), NEW z, todo' = [todo EXCEPT ![t] = z],
         \A i \in 1 .. Len(z) : z[i][1] # "publisher",
         UNCHANGED <<queue, closed, user, session, current, forgotten>>
  PROVE  UserInv'
<1>1. Moves(t, Entries(z))
  BY IdleMoves
<1>2. \A x : <<"publisher", x>> \notin Entries(z)
  <2>1. \A x : <<"publisher", x>>[1] = "publisher"
    OBVIOUS
  <2>. QED BY <2>1 DEF Entries
<1>3. \A op : ~At(t, op)
  BY DEF At
<1>. QED BY <1>1, <1>2, <1>3, QuietStep

LEMMA ArrivesUsers ==
  ASSUME StackInv, StackInv', UserInv, NEW l \in Loops, NEW c \in Conns, Arrives(l, c)
  PROVE  UserInv'
<1>. SUFFICES ASSUME NEW e, e[1] # "publisher", Idle(l), todo' = [todo EXCEPT ![l] = <<e>>],
                     UNCHANGED <<queue, closed, user, session, current, forgotten>>
              PROVE  UserInv'
  <2>1. ASSUME NEW kind \in Kinds[c], Command(l, c, kind)
        PROVE  UserInv'
    BY <2>1 DEF Command, Open
  <2>2. CASE PeerClose(l, c)
    BY <2>2 DEF PeerClose, Open
  <2>3. CASE Media(l, c)
    <3>1. /\ Idle(l) /\ LoopOf[c] = l /\ UNCHANGED <<queue, closed, user, session, current, forgotten>>
          /\ todo' = [todo EXCEPT ![l] = IF context[c] = None THEN ForceClose(l, c) ELSE <<<<"activeAll", user[context[c]].session>>>>]
      BY <2>3 DEF Media, Open
    <3>2. ForceClose(l, c) = <<<<"onClose", c>>>>
      BY <3>1 DEF ForceClose
    <3>3. CASE context[c] = None
      <4>1. todo' = [todo EXCEPT ![l] = <<<<"onClose", c>>>>]
        BY <3>1, <3>2, <3>3
      <4>. QED BY <3>1, <4>1
    <3>4. CASE context[c] # None
      <4>1. todo' = [todo EXCEPT ![l] = <<<<"activeAll", user[context[c]].session>>>>]
        BY <3>1, <3>4
      <4>. QED BY <3>1, <4>1
    <3>. QED BY <3>3, <3>4
  <2>. QED BY <2>1, <2>2, <2>3 DEF Arrives
<1>1. l \in Threads
  BY DEF Threads
<1>2. \A i \in 1 .. Len(<<e>>) : <<e>>[i][1] # "publisher"
  OBVIOUS
<1>. QED BY <1>1, <1>2, BeginUsers

LEMMA RunTaskUsers ==
  ASSUME StackInv, StackInv', UserInv, NEW l \in Loops, RunTask(l)
  PROVE  UserInv'
<1>. DEFINE z == <<<<"tasks", l>>, <<"release", <<"loop", l>>>>>>
<1>1. \A i \in 1 .. Len(z) : z[i][1] # "publisher"
  OBVIOUS
<1>2. /\ Idle(l) /\ todo' = [todo EXCEPT ![l] = z]
      /\ UNCHANGED <<queue, closed, user, session, current, forgotten>>
  BY DEF RunTask
<1>3. l \in Threads
  BY DEF Threads
<1>. HIDE DEF z
<1>. QED BY <1>1, <1>2, <1>3, BeginUsers

LEMMA OnTimerUsers ==
  ASSUME StackInv, StackInv', UserInv, OnTimer
  PROVE  UserInv'
<1>. DEFINE z == <<<<"clear", current>>, <<"erase", None>>, <<"release", <<"service">>>>>>
<1>1. \A i \in 1 .. Len(z) : z[i][1] # "publisher"
  OBVIOUS
<1>2. /\ Idle(Timer) /\ todo' = [todo EXCEPT ![Timer] = z]
      /\ UNCHANGED <<queue, closed, user, session, current, forgotten>>
  BY DEF OnTimer
<1>3. Timer \in Threads
  BY DEF Threads
<1>. HIDE DEF z
<1>. QED BY <1>1, <1>2, <1>3, BeginUsers

(* A thread takes a session's lock to notify, or to close, several *)
LEMMA HoldUsers ==
  ASSUME StackInv, StackInv', UserInv, NEW t \in Threads, NEW op \in {"activeAll", "clear"}, At(t, op),
         NEW s \in Nat, NEW o \in Seq(Steps), Holding(t, <<"session", s>>, o),
         \A i \in 1 .. Len(o) : o[i][1] \in {"notify", "closeNoLock", "noPlayers"},
         UNCHANGED <<queue, closed, user, session, current, forgotten>>
  PROVE  UserInv'
<1>. DEFINE lock == <<"session", s>>
<1>1. lock \in LockNames /\ Holding(t, lock, o)
  BY DEF LockNames
<1>. HIDE DEF lock
<1>2. NoRelease(o)
  BY DEF NoRelease
<1>3. Moves(t, Entries(o))
  BY <1>1, <1>2, HoldMoves
<1>4. \A x : <<"publisher", x>> \notin Entries(o)
  <2>1. \A x : <<"publisher", x>>[1] = "publisher"
    OBVIOUS
  <2>. QED BY <2>1 DEF Entries
<1>5. ~At(t, "onClose") /\ ~At(t, "push") /\ ~At(t, "erase") /\ ~At(t, "setPublisher") /\ ~At(t, "publisher")
  BY OneOp
<1>. QED BY <1>3, <1>4, <1>5, QuietStep

LEMMA ClearUsers ==
  ASSUME StackInv, StackInv', UserInv, Clear
  PROVE  UserInv'
<1>. DEFINE s == Arg(Timer)
            o == ClearOps(s)
<1>1. At(Timer, "clear") /\ Holding(Timer, <<"session", s>>, o) /\ UNCHANGED <<queue, closed, user, session, current, forgotten>>
  BY DEF Clear, ClearOps
<1>2. Timer \in Threads
  BY DEF Threads
<1>3. s \in 1 .. Len(session) /\ s \in Nat
  <2>1. todo[Timer][1][1] = "clear" /\ todo[Timer][1][2] = s /\ Fits(user, Len(session), todo[Timer][1])
    BY <1>1, <1>2, AtFacts
  <2>. QED BY <2>1, StackTypes DEF Fits
<1>. HIDE DEF s
<1>4. s \in 1 .. Len(session)
  BY <1>3
<1>5. \E n \in Nat :
           /\ ClearOps(s) \in Seq(Steps) /\ Len(ClearOps(s)) = n + 1 /\ ClearOps(s)[n + 1] = <<"noPlayers", s>>
           /\ \A i \in 1 .. n :
                /\ ClearOps(s)[i][1] = "closeNoLock" /\ ClearOps(s)[i][2] \in 1 .. Len(user)
                /\ user[ClearOps(s)[i][2]].session = s
                /\ user[ClearOps(s)[i][2]].kind = "publish" => i = 1 /\ session[s].publisher = ClearOps(s)[i][2]
  BY <1>4, ClearList
<1>6. o \in Seq(Steps) /\ \A i \in 1 .. Len(o) : o[i][1] \in {"notify", "closeNoLock", "noPlayers"}
  <2>1. PICK n \in Nat : /\ o \in Seq(Steps) /\ Len(o) = n + 1 /\ o[n + 1] = <<"noPlayers", s>>
                         /\ \A i \in 1 .. n : o[i][1] = "closeNoLock"
    BY <1>5
  <2>2. \A i \in 1 .. Len(o) : i \in 1 .. n \/ i = n + 1
    BY <2>1
  <2>. QED BY <2>1, <2>2
<1>. HIDE DEF o
<1>. QED BY <1>1, <1>2, <1>3, <1>6, HoldUsers

LEMMA ActiveAllUsers ==
  ASSUME StackInv, StackInv', UserInv, NEW t \in Threads, ActiveAll(t)
  PROVE  UserInv'
<1>. DEFINE s == Arg(t)
            o == NotifyOps(t, s)
<1>1. At(t, "activeAll") /\ Holding(t, <<"session", s>>, o) /\ UNCHANGED <<queue, closed, user, session, current, forgotten>>
  BY DEF ActiveAll, NotifyOps
<1>2. s \in 1 .. Len(session) /\ s \in Nat
  <2>1. todo[t][1][1] = "activeAll" /\ todo[t][1][2] = s /\ Fits(user, Len(session), todo[t][1])
    BY <1>1, AtFacts
  <2>. QED BY <2>1, StackTypes DEF Fits
<1>. HIDE DEF s
<1>3. o \in Seq(Steps) /\ \A i \in 1 .. Len(o) : o[i][1] = "notify"
  BY <1>2, NotifyList
<1>. HIDE DEF o
<1>. QED BY <1>1, <1>2, <1>3, HoldUsers
-----------------------------------------------------------------------------
(* The steps that close a connection *)

(* They leave sessions as they are, and destroy nobody *)
LEMMA ClosingUsers ==
  ASSUME StackInv, StackInv', UserInv, NEW t \in Threads, NEW op \in {"push", "tasks", "onClose"}, At(t, op),
         NEW new, Moves(t, new), \A x : <<"publisher", x>> \notin new,
         UNCHANGED <<user, session, current, forgotten>>,
         \A c \in Conns : closed[c] => closed'[c],
         \A c \in Conns : CloseComes(c) => CloseComes(c)'
  PROVE  UserInv'
<1>1. ~At(t, "erase") /\ ~At(t, "setPublisher") /\ ~At(t, "publisher")
  BY OneOp
<1>2. \A s \in 1 .. Len(session) : session'[s].publisher = session[s].publisher
  OBVIOUS
<1>. QED BY <1>1, <1>2, SameUsers

LEMMA PushUsers ==
  ASSUME StackInv, StackInv', UserInv, NEW t \in Threads, Push(t)
  PROVE  UserInv'
<1>. DEFINE d == Arg(t)
            l == LoopOf[d]
            e == <<"onClose", d>>
<1>1. At(t, "push") /\ Then(t, <<>>) /\ UNCHANGED <<closed, user, session, current, forgotten>>
  BY DEF Push
<1>2. queue' = [queue EXCEPT ![l] = Append(@, e)]
  BY DEF Push
<1>3. d \in Conns
  <2>1. todo[t][1] \in Steps /\ todo[t][1][1] = "push" /\ todo[t][1][2] = d
    BY <1>1, AtFacts
  <2>. QED BY <2>1, StepTypes
<1>4. l \in Loops /\ queue \in [Loops -> Seq({"onClose"} \X Conns)] /\ e \in {"onClose"} \X Conns
  BY <1>3, StackTypes, LiveServiceAssumption
<1>5. /\ Len(queue[l]) \in Nat /\ Len(queue'[l]) = Len(queue[l]) + 1 /\ queue'[l][Len(queue[l]) + 1] = e
      /\ \A i \in 1 .. Len(queue[l]) : i \in 1 .. Len(queue'[l]) /\ queue'[l][i] = queue[l][i]
      /\ \A m \in Loops : m # l => queue'[m] = queue[m]
  <2>1. queue'[l] = Append(queue[l], e) /\ \A m \in Loops : m # l => queue'[m] = queue[m]
    BY <1>2, <1>4
  <2>2. queue[l] \in Seq({"onClose"} \X Conns)
    BY <1>4
  <2>. HIDE DEF e, l
  <2>. QED BY <1>4, <2>1, <2>2, AppendOne
<1>6. Contains(queue'[l], e)
  <2>1. Len(queue[l]) + 1 \in 1 .. Len(queue'[l])
    BY <1>5
  <2>. QED BY <1>5, <2>1 DEF Contains
<1>7. \A m \in Loops : \A f : Contains(queue[m], f) => Contains(queue'[m], f)
  BY <1>5 DEF Contains
<1>8. Moves(t, {})
  BY <1>1, NoneMoves
<1>9. ASSUME NEW c \in Conns, CloseComes(c)
      PROVE  CloseComes(c)'
  <2>1. LoopOf[c] \in Loops
    BY LiveServiceAssumption
  <2>2. Pending("onClose", c) => Pending("onClose", c)'
    BY <1>1, <1>8 DEF Moves, At
  <2>3. Pending("push", c) => Pending("push", c)' \/ c = d
    BY <1>8 DEF Moves
  <2>4. Contains(queue[LoopOf[c]], <<"onClose", c>>) => Contains(queue'[LoopOf[c]], <<"onClose", c>>)
    BY <1>7, <2>1
  <2>5. c = d => Contains(queue'[LoopOf[c]], <<"onClose", c>>)
    BY <1>6
  <2>. QED BY <1>1, <1>9, <2>2, <2>3, <2>4, <2>5 DEF CloseComes, Closing
<1>10. \A c \in Conns : closed[c] => closed'[c]
  BY <1>1
<1>. QED BY <1>1, <1>8, <1>9, <1>10, ClosingUsers

LEMMA RunFrontUsers ==
  ASSUME StackInv, StackInv', UserInv, NEW l \in Loops, RunFront(l)
  PROVE  UserInv'
<1>1. l \in Threads
  BY DEF Threads
<1>2. At(l, "tasks") /\ UNCHANGED <<closed, user, session, current, forgotten>>
  BY DEF RunFront
<1>3. ~At(l, "onClose") /\ ~At(l, "push") /\ ~At(l, "erase") /\ ~At(l, "setPublisher") /\ ~At(l, "publisher")
  BY <1>2, OneOp
<1>4. CASE queue[l] = <<>>
  <2>1. Then(l, <<>>) /\ UNCHANGED queue
    BY <1>4 DEF RunFront
  <2>2. Moves(l, {})
    BY <1>1, <1>2, <2>1, NoneMoves
  <2>. QED BY <1>1, <1>2, <1>3, <2>1, <2>2, QuietStep
<1>5. CASE queue[l] # <<>>
  <2>. DEFINE e == Head(queue[l])
              f == <<"tasks", l>>
  <2>1. Then(l, <<e, f>>) /\ queue' = [queue EXCEPT ![l] = Tail(@)]
    BY <1>5 DEF RunFront
  <2>2. queue[l] \in Seq({"onClose"} \X Conns) /\ queue \in [Loops -> Seq({"onClose"} \X Conns)]
    BY StackTypes
  <2>3. e[1] = "onClose" /\ e = queue[l][1] /\ f[1] = "tasks"
    BY <1>5, <2>2
  <2>. HIDE DEF e, f
  <2>4. Moves(l, {e, f})
    BY <1>1, <1>2, <2>1, <2>3, TwoMoves
  <2>5. \A x : <<"publisher", x>> \notin {e, f}
    <3>1. \A x : <<"publisher", x>>[1] = "publisher"
      OBVIOUS
    <3>. QED BY <2>3, <3>1
  <2>6. \A m \in Loops : \A g : Contains(queue[m], g) => Contains(queue'[m], g) \/ (m = l /\ g = e)
    <3>. SUFFICES ASSUME NEW m \in Loops, NEW g, NEW i \in 1 .. Len(queue[m]), queue[m][i] = g
                  PROVE  Contains(queue'[m], g) \/ (m = l /\ g = e)
      BY DEF Contains
    <3>1. CASE m # l
      <4>1. queue'[m] = queue[m]
        BY <2>1, <2>2, <3>1
      <4>. QED BY <4>1 DEF Contains
    <3>2. CASE m = l /\ i = 1
      BY <2>3, <3>2
    <3>3. CASE m = l /\ i # 1
      <4>1. queue'[l] = Tail(queue[l])
        BY <2>1, <2>2
      <4>2. Len(Tail(queue[l])) = Len(queue[l]) - 1 /\ \A j \in 1 .. Len(Tail(queue[l])) : Tail(queue[l])[j] = queue[l][j + 1]
        BY <1>5, <2>2, HeadTailProperties
      <4>3. i - 1 \in 1 .. Len(Tail(queue[l])) /\ i - 1 + 1 = i
        BY <2>2, <3>3, <4>2
      <4>4. Tail(queue[l])[i - 1] = g
        BY <3>3, <4>2, <4>3
      <4>. QED BY <3>3, <4>1, <4>3, <4>4 DEF Contains
    <3>. QED BY <3>1, <3>2, <3>3
  <2>7. ASSUME NEW c \in Conns, CloseComes(c)
        PROVE  CloseComes(c)'
    <3>1. LoopOf[c] \in Loops
      BY LiveServiceAssumption
    <3>2. Pending("onClose", c) => Pending("onClose", c)'
      BY <1>3, <2>4 DEF Moves
    <3>3. Pending("push", c) => Pending("push", c)'
      BY <1>3, <2>4 DEF Moves
    <3>4. Contains(queue[LoopOf[c]], <<"onClose", c>>) => Contains(queue'[LoopOf[c]], <<"onClose", c>>) \/ <<"onClose", c>> = e
      BY <2>6, <3>1
    <3>5. <<"onClose", c>> \in {e, f} => Pending("onClose", c)'
      BY <2>4 DEF Moves
    <3>. QED BY <1>2, <2>7, <3>2, <3>3, <3>4, <3>5 DEF CloseComes, Closing
  <2>8. \A c \in Conns : closed[c] => closed'[c]
    BY <1>2
  <2>. QED BY <1>1, <1>2, <2>4, <2>5, <2>7, <2>8, ClosingUsers
<1>. QED BY <1>4, <1>5

LEMMA OnCloseUsers ==
  ASSUME StackInv, StackInv', UserInv, NEW t \in Threads, OnClose(t)
  PROVE  UserInv'
<1>. DEFINE d == Arg(t)
<1>1. At(t, "onClose") /\ UNCHANGED <<queue, user, session, current, forgotten>>
  BY DEF OnClose
<1>2. closed' = [closed EXCEPT ![d] = TRUE] /\ closed \in [Conns -> BOOLEAN]
  BY StackTypes DEF OnClose
<1>3. \E new : Moves(t, new) /\ \A x : <<"publisher", x>> \notin new
  <2>1. CASE closed[d] \/ context[d] = None
    <3>1. Then(t, <<>>)
      BY <2>1 DEF OnClose
    <3>2. Moves(t, {})
      BY <1>1, <3>1, NoneMoves
    <3>. QED BY <3>2
  <2>2. CASE ~(closed[d] \/ context[d] = None)
    <3>. DEFINE e == <<"closeUser", context[d]>>
    <3>1. Then(t, <<e>>)
      BY <2>2 DEF OnClose
    <3>2. e[1] = "closeUser"
      OBVIOUS
    <3>. HIDE DEF e
    <3>3. Moves(t, {e})
      BY <1>1, <3>1, <3>2, OneMoves
    <3>4. \A x : <<"publisher", x>>[1] = "publisher"
      OBVIOUS
    <3>. QED BY <3>2, <3>3, <3>4
  <2>. QED BY <2>1, <2>2
<1>4. PICK new : Moves(t, new) /\ \A x : <<"publisher", x>> \notin new
  BY <1>3
<1>5. \A c \in Conns : (closed[c] => closed'[c]) /\ (c = d => closed'[c])
  BY <1>2
<1>6. ASSUME NEW c \in Conns, CloseComes(c)
      PROVE  CloseComes(c)'
  <2>1. Pending("onClose", c) => Pending("onClose", c)' \/ c = d
    BY <1>4 DEF Moves
  <2>2. Pending("push", c) => Pending("push", c)'
    BY <1>1, <1>4 DEF Moves, At
  <2>. QED BY <1>1, <1>5, <1>6, <2>1, <2>2 DEF CloseComes, Closing
<1>. QED BY <1>1, <1>4, <1>5, <1>6, ClosingUsers
-----------------------------------------------------------------------------
(* The steps that create or destroy users, or leave a session *)

LEMMA CreateSessionUsers ==
  ASSUME StackInv, StackInv', UserInv, NEW t \in Threads, CreateSession(t)
  PROVE  UserInv'
<1>. DEFINE cmd == Arg(t)
            n == [publisher |-> None, players |-> {}]
<1>1. At(t, "create") /\ UNCHANGED <<queue, closed, user, forgotten>>
  BY DEF CreateSession
<1>2. PICK s : /\ s = IF current # None THEN current ELSE Len(session) + 1
               /\ session' = IF current # None THEN session ELSE Append(session, n)
               /\ current' = s
               /\ Then(t, <<<<"join", [kind |-> cmd.kind, conn |-> cmd.conn, session |-> s]>>>>)
  BY DEF CreateSession
<1>3. /\ user' = user /\ user' \in Seq(UserRecord) /\ Extends(user, user') /\ forgotten \subseteq forgotten'
      /\ Len(session) \in Nat /\ session \in Seq(SessionRecord)
  BY <1>1, StackTypes, ExtendsItself
<1>4. \A k \in 1 .. Len(session) : session'[k].publisher = session[k].publisher
  BY <1>2, <1>3
<1>. DEFINE e == <<"join", [kind |-> cmd.kind, conn |-> cmd.conn, session |-> s]>>
<1>5. Then(t, <<e>>) /\ e[1] = "join"
  BY <1>2
<1>. HIDE DEF e
<1>6. Moves(t, {e})
  BY <1>1, <1>5, OneMoves
<1>7. \A x : <<"publisher", x>> \notin {e}
  <2>1. \A x : <<"publisher", x>>[1] = "publisher"
    OBVIOUS
  <2>. QED BY <1>5, <2>1
<1>8. ~At(t, "onClose") /\ ~At(t, "push") /\ ~At(t, "erase") /\ ~At(t, "setPublisher") /\ ~At(t, "publisher")
  BY <1>1, OneOp
<1>9. \A c \in Conns : closed[c] => closed'[c]
  BY <1>1
<1>10. \A c \in Conns : CloseComes(c) => CloseComes(c)'
  BY <1>1, <1>6, <1>8, <1>9, ClosingStays
<1>11. ASSUME NEW u \in 1 .. Len(user), Left(u)
       PROVE  Left(u)'
  <2>1. user[u].session \in 1 .. Len(session)
    BY UserAt
  <2>2. Pending("erase", None) => Pending("erase", None)'
    BY <1>6, <1>8 DEF Moves
  <2>3. CASE current # None
    BY <1>2, <1>3, <1>11, <2>2, <2>3 DEF Left
  <2>4. CASE current = None
    <3>1. current' = Len(session) + 1
      BY <1>2, <2>4
    <3>. QED BY <1>3, <2>1, <3>1 DEF Left
  <2>. QED BY <2>3, <2>4
<1>12. /\ \A u \in 1 .. Len(user') : user'[u].destroyed => (u \in 1 .. Len(user) /\ user[u].destroyed) \/ CloseOrLeft(u)'
       /\ \A u \in 1 .. Len(user') : u \in 1 .. Len(user) \/ ~Feeding(u)'
  BY <1>3
<1>. QED BY <1>3, <1>4, <1>6, <1>7, <1>8, <1>9, <1>10, <1>11, <1>12, FrameStep

LEMMA JoinUsers ==
  ASSUME StackInv, StackInv', UserInv, NEW t \in Threads, Join(t)
  PROVE  UserInv'
<1>0. PICK u \in Nat : u = Len(user) + 1
  BY StackTypes
<1>. DEFINE cmd == Arg(t)
            n == [kind |-> cmd.kind, conn |-> cmd.conn, session |-> cmd.session, destroyed |-> FALSE]
            op == IF cmd.kind = "play" THEN "addPlayer" ELSE "setPublisher"
            e == <<op, u>>
<1>1. At(t, "join") /\ UNCHANGED <<queue, closed, session, current, forgotten>>
  BY DEF Join
<1>2. user' = Append(user, n)
  BY DEF Join
<1>3. Then(t, <<e>>)
  <2>1. CASE cmd.kind = "play"
    BY <1>0, <2>1 DEF Join
  <2>2. CASE cmd.kind # "play"
    BY <1>0, <2>2 DEF Join
  <2>. QED BY <2>1, <2>2
<1>4. todo[t][1] \in Steps /\ todo[t][1][1] = "join" /\ todo[t][1][2] = cmd
  BY <1>1, AtFacts
<1>5. cmd \in [kind : {"play", "publish"}, conn : Conns, session : Nat]
  BY <1>4, StepTypes
<1>6. n \in UserRecord /\ n.kind = cmd.kind /\ n.destroyed = FALSE
  BY <1>5 DEF UserRecord
<1>. HIDE DEF n
<1>7. /\ user' \in Seq(UserRecord) /\ Len(user) \in Nat /\ Len(user') = Len(user) + 1 /\ user'[u] = n
      /\ \A i \in 1 .. Len(user) : i \in 1 .. Len(user') /\ user'[i] = user[i]
      /\ \A i \in 1 .. Len(user') : i \in 1 .. Len(user) \/ i = u
  <2>1. user \in Seq(UserRecord)
    BY StackTypes
  <2>2. /\ user' \in Seq(UserRecord) /\ Len(user) \in Nat /\ Len(user') = Len(user) + 1 /\ user'[Len(user) + 1] = n
        /\ \A i \in 1 .. Len(user) : i \in 1 .. Len(user') /\ user'[i] = user[i]
        /\ \A i \in 1 .. Len(user') : i \in 1 .. Len(user) \/ i = Len(user) + 1
    BY <1>2, <1>6, <2>1, AppendOne
  <2>. QED BY <1>0, <2>2
<1>8. Extends(user, user')
  BY <1>7 DEF Extends
<1>9. e[1] = op /\ op \in {"addPlayer", "setPublisher"} /\ (cmd.kind # "play" => e = <<"setPublisher", u>>)
  OBVIOUS
<1>. HIDE DEF op, e
<1>10. Moves(t, {e})
  BY <1>1, <1>3, <1>9, OneMoves
<1>11. \A x : <<"publisher", x>> \notin {e}
  <2>1. \A x : <<"publisher", x>>[1] = "publisher"
    OBVIOUS
  <2>. QED BY <1>9, <2>1
<1>12. ~At(t, "onClose") /\ ~At(t, "push") /\ ~At(t, "erase") /\ ~At(t, "setPublisher") /\ ~At(t, "publisher")
  BY <1>1, OneOp
<1>13. (\A c \in Conns : closed[c] => closed'[c]) /\ forgotten \subseteq forgotten'
  BY <1>1
<1>14. \A c \in Conns : CloseComes(c) => CloseComes(c)'
  BY <1>1, <1>10, <1>12, <1>13, ClosingStays
<1>15. \A v \in 1 .. Len(user) : Left(v) => Left(v)'
  BY <1>1, <1>8, <1>10, <1>12, LeftStays
<1>16. \A v \in 1 .. Len(user') : user'[v].destroyed => (v \in 1 .. Len(user) /\ user[v].destroyed) \/ CloseOrLeft(v)'
  BY <1>6, <1>7
<1>17. ~Feeding(u)'
  <2>1. user'[u].kind = cmd.kind
    BY <1>6, <1>7
  <2>2. cmd.kind # "play" => <<"setPublisher", u>> \in {e}
    BY <1>9
  <2>3. <<"setPublisher", u>> \in {e} => Pending("setPublisher", u)'
    BY <1>10 DEF Moves
  <2>. QED BY <2>1, <2>2, <2>3 DEF Feeding, Joining
<1>18. \A v \in 1 .. Len(user') : v \in 1 .. Len(user) \/ ~Feeding(v)'
  BY <1>7, <1>17
<1>19. \A k \in 1 .. Len(session) : session'[k].publisher = session[k].publisher
  BY <1>1
<1>. QED BY <1>7, <1>8, <1>10, <1>11, <1>12, <1>13, <1>14, <1>15, <1>16, <1>18, <1>19, FrameStep

(* A step that destroys u, and does what closes its connection *)
LEMMA DestroyUsers ==
  ASSUME StackInv, StackInv', UserInv, NEW t \in Threads, NEW op \in {"closeUser", "closeNoLock"}, At(t, op),
         NEW new, Moves(t, new), \A x : <<"publisher", x>> \notin new,
         NEW u \in 1 .. Len(user), user' \in Seq(UserRecord), Len(user') = Len(user), Extends(user, user'),
         \A v \in 1 .. Len(user) : v # u => user'[v] = user[v],
         UNCHANGED <<queue, closed, session, current, forgotten>>,
         user[u].destroyed \/ CloseOrLeft(u)'
  PROVE  UserInv'
<1>1. ~At(t, "onClose") /\ ~At(t, "push") /\ ~At(t, "erase") /\ ~At(t, "setPublisher") /\ ~At(t, "publisher")
  BY OneOp
<1>2. (\A c \in Conns : closed[c] => closed'[c]) /\ forgotten \subseteq forgotten'
  OBVIOUS
<1>3. \A c \in Conns : CloseComes(c) => CloseComes(c)'
  BY <1>1, <1>2, ClosingStays
<1>4. \A v \in 1 .. Len(user) : Left(v) => Left(v)'
  BY <1>1, LeftStays
<1>5. \A v \in 1 .. Len(user') : user'[v].destroyed => (v \in 1 .. Len(user) /\ user[v].destroyed) \/ CloseOrLeft(v)'
  <2>. SUFFICES ASSUME NEW v \in 1 .. Len(user'), user'[v].destroyed
                PROVE  (v \in 1 .. Len(user) /\ user[v].destroyed) \/ CloseOrLeft(v)'
    OBVIOUS
  <2>1. CASE v = u
    BY <2>1
  <2>2. CASE v # u
    BY <2>2
  <2>. QED BY <2>1, <2>2
<1>6. /\ \A v \in 1 .. Len(user') : v \in 1 .. Len(user) \/ ~Feeding(v)'
      /\ \A s \in 1 .. Len(session) : session'[s].publisher = session[s].publisher
  OBVIOUS
<1>. QED BY <1>1, <1>2, <1>3, <1>4, <1>5, <1>6, FrameStep

LEMMA ClosePending ==
  ASSUME NEW t, NEW c \in Conns, NEW f, f = <<"onClose", c>> \/ f = <<"push", c>>,
         NEW new, f \in new, Moves(t, new)
  PROVE  CloseComes(c)'
<1>1. <<"onClose", c>> \in new => Pending("onClose", c)'
  BY DEF Moves
<1>2. <<"push", c>> \in new => Pending("push", c)'
  BY DEF Moves
<1>. QED BY <1>1, <1>2 DEF CloseComes, Closing

LEMMA CloseUserUsers ==
  ASSUME StackInv, StackInv', UserInv, NEW t \in Threads, CloseUser(t)
  PROVE  UserInv'
<1>1. At(t, "closeUser") /\ UNCHANGED <<queue, closed, session, current, forgotten>>
  BY DEF CloseUser
<1>2. PICK u \in 1 .. Len(user) : u = Arg(t)
  BY <1>1, UserOp DEF UserOps
<1>3. PICK c \in Conns : c = user[u].conn
  BY <1>2, UserAt
<1>4. /\ user' = [user EXCEPT ![u].destroyed = TRUE]
      /\ Then(t, IF user[u].destroyed THEN <<>> ELSE <<<<"closed", u>>>> \o ForceClose(t, c))
  BY <1>2, <1>3 DEF CloseUser
<1>5. user' \in Seq(UserRecord) /\ Len(user') = Len(user) /\ Extends(user, user') /\ \A v \in 1 .. Len(user) : v # u => user'[v] = user[v]
  BY <1>4, UserDestroyed
<1>6. CASE user[u].destroyed
  <2>1. Then(t, <<>>)
    BY <1>4, <1>6
  <2>2. Moves(t, {})
    BY <1>1, <2>1, NoneMoves
  <2>3. \A x : <<"publisher", x>> \notin {}
    OBVIOUS
  <2>. QED BY <1>1, <1>5, <1>6, <2>2, <2>3, DestroyUsers
<1>7. CASE ~user[u].destroyed
  <2>. DEFINE e == <<"closed", u>>
              f == IF LoopOf[c] = t THEN <<"onClose", c>> ELSE <<"push", c>>
  <2>1. ForceClose(t, c) = <<f>> /\ f \in Steps /\ f[1] \in {"onClose", "push"} /\ (f = <<"onClose", c>> \/ f = <<"push", c>>)
    BY DEF ForceClose, Steps
  <2>2. e \in Steps /\ e[1] = "closed"
    <3>1. u \in Nat
      OBVIOUS
    <3>. QED BY <3>1 DEF Steps, UserOps
  <2>3. Then(t, <<e>> \o <<f>>)
    BY <1>4, <1>7, <2>1
  <2>. HIDE DEF e, f
  <2>4. <<e>> \o <<f>> = <<e, f>>
    BY <2>1, <2>2, PairOfSteps
  <2>5. Then(t, <<e, f>>)
    BY <2>3, <2>4
  <2>6. Moves(t, {e, f})
    BY <1>1, <2>1, <2>2, <2>5, TwoMoves
  <2>7. \A x : <<"publisher", x>> \notin {e, f}
    <3>1. \A x : <<"publisher", x>>[1] = "publisher"
      OBVIOUS
    <3>. QED BY <2>1, <2>2, <3>1
  <2>8. CloseOrLeft(u)'
    <3>1. f \in {e, f}
      OBVIOUS
    <3>2. CloseComes(c)'
      BY <1>3, <2>1, <2>6, <3>1, ClosePending
    <3>3. user'[u].conn = c
      BY <1>4, <1>3, UserDestroyed
    <3>. QED BY <3>2, <3>3 DEF CloseOrLeft
  <2>. QED BY <1>1, <1>5, <2>6, <2>7, <2>8, DestroyUsers
<1>. QED BY <1>6, <1>7

LEMMA CloseUserNoLockUsers ==
  ASSUME StackInv, StackInv', UserInv, CloseUserNoLock
  PROVE  UserInv'
<1>1. At(Timer, "closeNoLock") /\ UNCHANGED <<queue, closed, session, current, forgotten>>
  BY DEF CloseUserNoLock
<1>2. Timer \in Threads
  BY DEF Threads
<1>3. PICK u \in 1 .. Len(user) : u = Arg(Timer)
  BY <1>1, <1>2, UserOp DEF UserOps
<1>4. PICK c \in Conns : c = user[u].conn
  BY <1>3, UserAt
<1>5. PICK s \in 1 .. Len(session) : s = user[u].session
  BY <1>3, UserAt
<1>6. /\ user' = [user EXCEPT ![u].destroyed = TRUE]
      /\ IF user[u].destroyed \/ (TakenForPublisher(u) /\ session[s].publisher = None)
         THEN Then(Timer, <<>>) ELSE Then(Timer, ForceClose(Timer, c) \o <<<<"remove", u>>>>)
  BY <1>3, <1>4, <1>5 DEF CloseUserNoLock
<1>7. /\ user' \in Seq(UserRecord) /\ Len(user') = Len(user) /\ Extends(user, user')
      /\ user'[u].conn = c /\ \A v \in 1 .. Len(user) : v # u => user'[v] = user[v]
  BY <1>4, <1>6, UserDestroyed
<1>9. CASE user[u].destroyed \/ (TakenForPublisher(u) /\ session[s].publisher = None)
  <2>1. Then(Timer, <<>>)
    BY <1>6, <1>9
  <2>2. Moves(Timer, {})
    BY <1>1, <1>2, <2>1, NoneMoves
  <2>3. \A x : <<"publisher", x>> \notin {}
    OBVIOUS
  <2>4. user[u].destroyed \/ CloseOrLeft(u)'
    <3>. SUFFICES ASSUME ~user[u].destroyed
                  PROVE  CloseOrLeft(u)'
      OBVIOUS
    <3>1. session[s].publisher = None
      BY <1>9
    <3>. DEFINE q == todo[Timer]
    <3>2. /\ q \in Seq(Steps) /\ q # <<>> /\ q[1][1] = "closeNoLock" /\ q[1][2] = u /\ TimerStack(user, session, q)
      BY <1>1, <1>2, <1>3, AtFacts
    <3>3. /\ Len(q) \in Nat /\ Len(q) >= 5 /\ q[Len(q) - 1] = <<"erase", None>>
          /\ \E k \in 1 .. Len(session) : ClearStack(user, session, q, k)
      <4>. HIDE DEF q
      <4>1. Len(q) >= 5 /\ \E k \in 1 .. Len(session) : ClearStack(user, session, q, k)
        BY <3>2, TimerHead
      <4>. QED BY <3>2, <4>1 DEF TimerStack
    <3>4. user[u].kind # "publish"
      <4>1. PICK k \in 1 .. Len(session) : ClearStack(user, session, q, k)
        BY <3>3
      <4>. HIDE DEF q
      <4>2. 1 \in 1 .. Len(q) - 4
        BY <3>3
      <4>3. /\ q[1][1] # "push" => user[q[1][2]].session = k
            /\ q[1][1] = "closeNoLock" /\ user[q[1][2]].kind = "publish" => session[k].publisher = q[1][2]
        BY <4>1, <4>2 DEF ClearStack
      <4>4. k = s
        BY <1>5, <3>2, <4>3
      <4>5. u # None
        BY LiveServiceAssumption
      <4>. QED BY <3>1, <3>2, <4>3, <4>4, <4>5
    <3>5. Pending("erase", None)
      <4>1. Len(q) - 1 \in 1 .. Len(q)
        BY <3>3
      <4>. QED BY <1>2, <3>3, <4>1 DEF Pending
    <3>6. Pending("erase", None)'
      BY <1>1, <2>2, <3>5, OneOp DEF Moves
    <3>7. user'[u].kind = "play"
      BY <1>7, <3>4, UserAt DEF Extends
    <3>. QED BY <3>6, <3>7 DEF CloseOrLeft, Left
  <2>. QED BY <1>1, <1>2, <1>7, <2>2, <2>3, <2>4, DestroyUsers
<1>10. CASE ~(user[u].destroyed \/ (TakenForPublisher(u) /\ session[s].publisher = None))
  <2>. DEFINE e == <<"remove", u>>
              f == IF LoopOf[c] = Timer THEN <<"onClose", c>> ELSE <<"push", c>>
  <2>1. /\ ForceClose(Timer, c) = <<f>> /\ f \in Steps /\ f[1] \in {"onClose", "push"}
        /\ f = <<"onClose", c>> \/ f = <<"push", c>>
    BY DEF ForceClose, Steps
  <2>2. e \in Steps /\ e[1] = "remove"
    <3>1. u \in Nat
      OBVIOUS
    <3>. QED BY <3>1 DEF Steps, UserOps
  <2>3. Then(Timer, <<f>> \o <<e>>)
    BY <1>6, <1>10, <2>1
  <2>. HIDE DEF e, f
  <2>4. <<f>> \o <<e>> = <<f, e>>
    BY <2>1, <2>2, PairOfSteps
  <2>5. Then(Timer, <<f, e>>)
    BY <2>3, <2>4
  <2>6. Moves(Timer, {f, e})
    BY <1>1, <1>2, <2>1, <2>2, <2>5, TwoMoves
  <2>7. \A x : <<"publisher", x>> \notin {f, e}
    <3>1. \A x : <<"publisher", x>>[1] = "publisher"
      OBVIOUS
    <3>. QED BY <2>1, <2>2, <3>1
  <2>8. CloseOrLeft(u)'
    <3>1. f \in {f, e}
      OBVIOUS
    <3>2. CloseComes(c)'
      BY <2>1, <2>6, <3>1, ClosePending
    <3>. QED BY <1>7, <3>2 DEF CloseOrLeft
  <2>. QED BY <1>1, <1>2, <1>7, <2>6, <2>7, <2>8, DestroyUsers
<1>. QED BY <1>9, <1>10

LEMMA EraseUsers ==
  ASSUME StackInv, StackInv', UserInv, Erase
  PROVE  UserInv'
<1>1. /\ At(Timer, "erase") /\ Then(Timer, <<>>) /\ current' = None
      /\ UNCHANGED <<queue, closed, user, session, forgotten>>
  BY DEF Erase
<1>2. Timer \in Threads
  BY DEF Threads
<1>3. Moves(Timer, {})
  BY <1>1, <1>2, NoneMoves
<1>4. ~At(Timer, "onClose") /\ ~At(Timer, "push") /\ ~At(Timer, "setPublisher") /\ ~At(Timer, "publisher")
  BY <1>1, OneOp
<1>5. user' = user /\ user' \in Seq(UserRecord) /\ Extends(user, user')
  BY <1>1, StackTypes, ExtendsItself
<1>6. (\A c \in Conns : closed[c] => closed'[c]) /\ forgotten \subseteq forgotten' /\ UNCHANGED queue
  BY <1>1
<1>7. \A c \in Conns : CloseComes(c) => CloseComes(c)'
  BY <1>2, <1>3, <1>4, <1>6, ClosingStays
<1>8. \A u \in 1 .. Len(user) : Left(u) => Left(u)'
  <2>. SUFFICES ASSUME NEW u \in 1 .. Len(user)
                PROVE  Left(u)'
    OBVIOUS
  <2>1. user[u].session \in 1 .. Len(session)
    BY UserAt
  <2>2. current' # user'[u].session
    BY <1>1, <2>1, LiveServiceAssumption
  <2>. QED BY <2>2 DEF Left
<1>9. /\ \A u \in 1 .. Len(user') : user'[u].destroyed => (u \in 1 .. Len(user) /\ user[u].destroyed) \/ CloseOrLeft(u)'
      /\ \A u \in 1 .. Len(user') : u \in 1 .. Len(user) \/ ~Feeding(u)'
      /\ \A s \in 1 .. Len(session) : session'[s].publisher = session[s].publisher
      /\ \A x : <<"publisher", x>> \notin {}
  BY <1>1
<1>. QED BY <1>2, <1>3, <1>4, <1>5, <1>6, <1>7, <1>8, <1>9, FrameStep

LEMMA RemoveUserUsers ==
  ASSUME StackInv, StackInv', UserInv, NEW t \in Threads, RemoveUser(t)
  PROVE  UserInv'
<1>1. Then(t, <<>>) /\ UNCHANGED <<queue, closed, user, current>>
  BY DEF RemoveUser
<1>2. PICK op \in {"remove", "closed"} : At(t, op)
  BY DEF RemoveUser
<1>3. PICK u \in 1 .. Len(user) : u = Arg(t)
  BY <1>2, UserOp DEF UserOps
<1>4. PICK s \in 1 .. Len(session) : s = user[u].session
  BY <1>3, UserAt
<1>5. TakenForPublisher(u) /\ session[s] \in SessionRecord
  BY AllTaken, SessionAt
<1>6. /\ session' = [session EXCEPT ![s] = [session[s] EXCEPT !.publisher = None]]
      /\ forgotten' = forgotten \cup ({session[s].publisher} \ {u, None})
  BY <1>3, <1>4, <1>5 DEF RemoveUser
<1>7. session'[s].publisher = None /\ \A k \in 1 .. Len(session) : k # s => session'[k] = session[k]
  <2>1. session \in Seq(SessionRecord)
    BY StackTypes
  <2>. QED BY <1>5, <1>6, <2>1 DEF SessionRecord
<1>8. user[u].destroyed
  BY <1>2, <1>3, AtFacts DEF Fits
<1>9. Moves(t, {})
  BY <1>1, <1>2, NoneMoves
<1>10. ~At(t, "onClose") /\ ~At(t, "push") /\ ~At(t, "erase") /\ ~At(t, "setPublisher") /\ ~At(t, "publisher")
  BY <1>2, OneOp
<1>11. user' = user /\ user' \in Seq(UserRecord) /\ Extends(user, user')
  BY <1>1, StackTypes, ExtendsItself
<1>12. (\A c \in Conns : closed[c] => closed'[c]) /\ forgotten \subseteq forgotten' /\ UNCHANGED <<queue, current>>
  BY <1>1, <1>6
<1>13. \A c \in Conns : CloseComes(c) => CloseComes(c)'
  BY <1>9, <1>10, <1>12, ClosingStays
<1>14. \A v \in 1 .. Len(user) : Left(v) => Left(v)'
  BY <1>9, <1>10, <1>11, <1>12, LeftStays
<1>15. \A k \in 1 .. Len(session) :
         \/ session'[k].publisher = session[k].publisher
         \/ /\ session'[k].publisher = None
            /\ \A v \in 1 .. Len(user) : session[k].publisher = v => v \in forgotten' \/ user'[v].destroyed
  <2>1. \A v \in 1 .. Len(user) : session[s].publisher = v => v \in forgotten' \/ user'[v].destroyed
    BY <1>6, <1>8, <1>11, LiveServiceAssumption
  <2>. QED BY <1>7, <2>1
<1>16. /\ \A v \in 1 .. Len(user') : user'[v].destroyed => (v \in 1 .. Len(user) /\ user[v].destroyed) \/ CloseOrLeft(v)'
       /\ \A v \in 1 .. Len(user') : v \in 1 .. Len(user) \/ ~Feeding(v)'
       /\ \A x : <<"publisher", x>> \notin {}
  BY <1>11
<1>. QED BY <1>9, <1>10, <1>11, <1>12, <1>13, <1>14, <1>15, <1>16, FrameStep

(* setPublisher: the old publisher is closed before the new one is set *)
LEMMA SetPublisherFrame ==
  ASSUME StackInv, StackInv', UserInv, NEW t \in Threads, At(t, "setPublisher"), NEW u \in 1 .. Len(user), Arg(t) = u,
         NEW new, Moves(t, new), <<"publisher", u>> \in new, \A x : <<"publisher", x>> \in new => x = u,
         UNCHANGED <<queue, closed, session, current, forgotten>>,
         user' \in Seq(UserRecord), Len(user') = Len(user), Extends(user, user'),
         \A v \in 1 .. Len(user) : user'[v].destroyed => user[v].destroyed \/ CloseOrLeft(v)',
         session[user[u].session].publisher = None \/ user'[session[user[u].session].publisher].destroyed
  PROVE  UserInv'
<1>1. ~At(t, "onClose") /\ ~At(t, "push") /\ ~At(t, "erase") /\ ~At(t, "publisher")
  BY OneOp
<1>2. (\A c \in Conns : closed[c] => closed'[c]) /\ DestroyedClose /\ Replaces /\ OneFeeder
  BY DEF UserInv
<1>3. DestroyedClose'
  <2>1. \A c \in Conns : CloseComes(c) => CloseComes(c)'
    BY <1>1, <1>2, ClosingStays
  <2>2. \A v \in 1 .. Len(user) : Left(v) => Left(v)'
    BY <1>1, LeftStays
  <2>. QED BY <1>2, <2>1, <2>2, DestroyedFrame
<1>4. Replaces'
  <2>. SUFFICES ASSUME NEW x \in 1 .. Len(user'), Pending("publisher", x)'
                PROVE  \/ session'[user'[x].session].publisher = None
                       \/ user'[session'[user'[x].session].publisher].destroyed
    BY DEF Replaces
  <2>1. PICK k \in 1 .. Len(session) : k = user[x].session
    BY UserAt
  <2>2. user'[x].session = k /\ session'[k].publisher = session[k].publisher
    BY <2>1 DEF Extends
  <2>3. CASE x = u
    BY <2>1, <2>2, <2>3
  <2>4. CASE x # u
    <3>1. Pending("publisher", x)
      BY <2>4 DEF Moves
    <3>2. session[k].publisher = None \/ user[session[k].publisher].destroyed
      BY <1>2, <2>1, <3>1 DEF Replaces
    <3>3. session[k].publisher # None => session[k].publisher \in 1 .. Len(user)
      BY SessionAt
    <3>. QED BY <2>2, <3>2, <3>3 DEF Extends
  <2>. QED BY SMTT(20), <2>3, <2>4
<1>5. OneFeeder'
  <2>. SUFFICES ASSUME NEW v \in 1 .. Len(user'), Feeding(v)'
                PROVE  session'[user'[v].session].publisher = v \/ v \in forgotten' \/ Reused'
    BY DEF OneFeeder
  <2>1. Pending("publisher", u)'
    BY DEF Moves
  <2>2. v # u
    BY <2>1 DEF Feeding, Joining
  <2>3. session[user[v].session].publisher = v \/ v \in forgotten \/ Twice(user)
    BY <1>1, <1>2, <2>2, FeederFrame
  <2>4. Twice(user) => Twice(user')
    BY GoneStays, StackTypes
  <2>5. Twice(user') => Reused'
    BY DEF Twice, Reused
  <2>6. user'[v].session = user[v].session
    BY DEF Extends
  <2>. QED BY <2>3, <2>4, <2>5, <2>6
<1>. QED BY <1>3, <1>4, <1>5 DEF UserInv

LEMMA SetPublisherUsers ==
  ASSUME StackInv, StackInv', UserInv, NEW t \in Threads, SetPublisher(t)
  PROVE  UserInv'
<1>1. At(t, "setPublisher") /\ UNCHANGED <<queue, closed, session, current, forgotten>>
  BY DEF SetPublisher
<1>2. PICK u \in 1 .. Len(user) : u = Arg(t)
  BY <1>1, UserOp DEF UserOps
<1>3. PICK s \in 1 .. Len(session) : s = user[u].session
  BY <1>2, UserAt
<1>4. PICK old : old = session[s].publisher
  BY SMTT(20)
<1>. DEFINE e    == <<"publisher", u>>
            lock == <<"session", s>>
<1>5. \/ (old = None \/ user[old].destroyed) /\ Holding(t, lock, <<e>>) /\ user' = user
      \/ /\ old # None /\ ~user[old].destroyed /\ user' = [user EXCEPT ![old].destroyed = TRUE]
         /\ Holding(t, lock, ForceClose(t, user[old].conn) \o <<e>>)
  BY <1>2, <1>3, <1>4 DEF SetPublisher
<1>6. e \in Steps /\ e[1] = "publisher" /\ e[2] = u /\ <<"publisher", u>> = e /\ \A x : <<"publisher", x>> = e => x = u
  <2>1. u \in Nat
    OBVIOUS
  <2>. QED BY <2>1 DEF Steps, UserOps
<1>7. lock \in LockNames
  BY SMTT(20) DEF LockNames
<1>. HIDE DEF e, lock
<1>8. CASE (old = None \/ user[old].destroyed) /\ Holding(t, lock, <<e>>) /\ user' = user
  <2>. DEFINE o == <<e>>
  <2>1. o \in Seq(Steps) /\ NoRelease(o) /\ Entries(o) = {e} /\ Holding(t, lock, o)
    BY <1>6, <1>8 DEF NoRelease, Entries
  <2>. HIDE DEF o
  <2>2. Moves(t, Entries(o))
    BY <1>1, <1>7, <2>1, HoldMoves
  <2>3. Moves(t, {e}) /\ <<"publisher", u>> \in {e} /\ \A x : <<"publisher", x>> \in {e} => x = u
    BY <1>6, <2>1, <2>2
  <2>4. user' \in Seq(UserRecord) /\ Len(user') = Len(user) /\ Extends(user, user') /\ user' = user
    BY <1>8, StackTypes, ExtendsItself
  <2>5. session[user[u].session].publisher = None \/ user'[session[user[u].session].publisher].destroyed
    BY <1>3, <1>4, <1>8
  <2>6. \A v \in 1 .. Len(user) : user'[v].destroyed => user[v].destroyed \/ CloseOrLeft(v)'
    BY SMTT(20), <2>4
  <2>. QED BY <1>1, <1>2, <2>3, <2>4, <2>5, <2>6, SetPublisherFrame
<1>9. CASE /\ old # None /\ ~user[old].destroyed /\ user' = [user EXCEPT ![old].destroyed = TRUE]
           /\ Holding(t, lock, ForceClose(t, user[old].conn) \o <<e>>)
  <2>1. old \in 1 .. Len(user)
    BY <1>4, <1>9, SessionAt
  <2>2. PICK c \in Conns : c = user[old].conn
    BY <2>1, UserAt
  <2>. DEFINE f == IF LoopOf[c] = t THEN <<"onClose", c>> ELSE <<"push", c>>
  <2>3. /\ ForceClose(t, c) = <<f>> /\ f \in Steps /\ f[1] \in {"onClose", "push"}
        /\ f = <<"onClose", c>> \/ f = <<"push", c>>
    BY DEF ForceClose, Steps
  <2>. HIDE DEF f
  <2>4. <<f>> \o <<e>> = <<f, e>>
    BY <1>6, <2>3, PairOfSteps
  <2>. DEFINE o == <<f, e>>
  <2>5. o \in Seq(Steps) /\ NoRelease(o) /\ Entries(o) = {f, e}
    BY <1>6, <2>3 DEF NoRelease, Entries
  <2>6. Holding(t, lock, o)
    BY <1>9, <2>2, <2>3, <2>4
  <2>. HIDE DEF o
  <2>7. Moves(t, Entries(o))
    BY <1>1, <1>7, <2>5, <2>6, HoldMoves
  <2>8. Moves(t, {f, e}) /\ <<"publisher", u>> \in {f, e} /\ \A x : <<"publisher", x>> \in {f, e} => x = u
    <3>1. \A x : <<"publisher", x>>[1] = "publisher"
      OBVIOUS
    <3>. QED BY <1>6, <2>3, <2>5, <2>7, <3>1
  <2>9. /\ user' \in Seq(UserRecord) /\ Len(user') = Len(user) /\ Extends(user, user')
        /\ user'[old].destroyed /\ user'[old].conn = c
        /\ \A v \in 1 .. Len(user) : v # old => user'[v] = user[v]
    BY <1>9, <2>1, <2>2, UserDestroyed
  <2>10. session[user[u].session].publisher = None \/ user'[session[user[u].session].publisher].destroyed
    BY <1>3, <1>4, <2>9
  <2>11. CloseOrLeft(old)'
    <3>1. f \in {f, e}
      OBVIOUS
    <3>2. CloseComes(c)'
      BY <2>3, <2>8, <3>1, ClosePending
    <3>. QED BY <2>9, <3>2 DEF CloseOrLeft
  <2>12. \A v \in 1 .. Len(user) : user'[v].destroyed => user[v].destroyed \/ CloseOrLeft(v)'
    <3>. SUFFICES ASSUME NEW v \in 1 .. Len(user), user'[v].destroyed
                  PROVE  user[v].destroyed \/ CloseOrLeft(v)'
      OBVIOUS
    <3>1. CASE v = old
      BY <2>11, <3>1
    <3>2. CASE v # old
      BY <2>9, <3>2
    <3>. QED BY <3>1, <3>2
  <2>. QED BY <1>1, <1>2, <2>8, <2>9, <2>10, <2>12, SetPublisherFrame
<1>. QED BY <1>5, <1>8, <1>9

(* The session's lock keeps everybody else from replacing its publisher *)
LEMMA OneReplaces ==
  ASSUME StackInv, StackInv', NEW t \in Threads, At(t, "publisher"), Then(t, <<>>), UNCHANGED user,
         NEW u \in 1 .. Len(user), Arg(t) = u,
         NEW x \in 1 .. Len(user), Pending("publisher", x)'
  PROVE  user[x].session # user[u].session
<1>. DEFINE q == todo[t]
            z == todo'[t]
<1>1. PICK s \in 1 .. Len(session) : s = user[u].session
  BY UserAt
<1>. DEFINE lock == <<"session", s>>
<1>2. lock \in LockNames
  BY DEF LockNames
<1>. HIDE DEF lock
<1>3. /\ q \in Seq(Steps) /\ q # <<>> /\ Placed(user, t, q, 1) /\ q[1][1] = "publisher" /\ q[1][2] = u /\ t # Timer
  BY AtFacts
<1>4. Len(q) = 2 /\ q[2] = <<"release", lock>>
  <2>1. 1 + 1 = Len(q) /\ q[1 + 1] = <<"release", lock>>
    BY <1>1, <1>3 DEF Placed, lock
  <2>. QED BY <2>1
<1>5. z = Released(<<>> \o Tail(q)) /\ \A w \in Threads : w # t => todo'[w] = todo[w]
  BY StackTypes DEF Then
<1>. HIDE DEF q, z
<1>6. z \in Seq(Steps) /\ Len(z) = 0
  <2>. DEFINE y == <<>> \o Tail(q)
  <2>1. <<>> \in Seq(Steps) /\ Len(<<>>) = 0
    OBVIOUS
  <2>2. y \in Seq(Steps) /\ Len(y) = Len(<<>>) + Len(q) - 1 /\ \A i \in 1 .. Len(y) : y[i] = IF i <= Len(<<>>) THEN <<>>[i] ELSE q[i - Len(<<>>) + 1]
    BY <1>3, <2>1, ConcatTail
  <2>3. z = Released(y)
    BY <1>5
  <2>. HIDE DEF y
  <2>4. Len(y) = 1
    BY <1>4, <2>1, <2>2
  <2>5. y[1] = q[2]
    <3>1. 1 \in 1 .. Len(y) /\ ~(1 <= 0)
      BY <2>4
    <3>2. y[1] = q[1 - 0 + 1]
      BY <2>1, <2>2, <3>1
    <3>. QED BY <3>2
  <2>6. y[1][1] = "release"
    BY <1>4, <2>5
  <2>. QED BY <2>2, <2>3, <2>4, <2>6, ReleasedSeq
<1>7. PICK w \in Threads : \E i \in 1 .. Len(todo'[w]) : todo'[w][i] = <<"publisher", x>>
  BY DEF Pending
<1>8. w # t
  BY <1>6, <1>7 DEF z
<1>9. \E i \in 1 .. Len(todo[w]) : todo[w][i] = <<"publisher", x>>
  BY <1>5, <1>7, <1>8
<1>10. PICK i \in 1 .. Len(todo[w]) : todo[w][i] = <<"publisher", x>>
  BY <1>9
<1>. DEFINE p == todo[w]
<1>11. p \in Seq(Steps) /\ i \in 1 .. Len(p) /\ p[i][1] = "publisher" /\ p[i][2] = x
  BY <1>10, StackTypes
<1>12. w \in Loops
  <2>. SUFFICES ASSUME w = Timer
                PROVE  FALSE
    BY DEF Threads
  <2>1. TimerStack(user, session, p)
    BY DEF StackInv, TimerOK
  <2>. HIDE DEF p
  <2>2. Len(p) >= 2 /\ p[Len(p)] = <<"release", <<"service">>>> /\ p[Len(p) - 1] = <<"erase", None>> /\ Len(p) \in Nat
    BY <1>11, <2>1 DEF TimerStack
  <2>3. i # Len(p) /\ i # Len(p) - 1
    BY <1>11, <2>2
  <2>4. CASE Len(p) = 2
    BY <1>11, <2>3, <2>4
  <2>5. CASE Len(p) = 3 /\ p[1][1] = "clear"
    BY <1>11, <2>3, <2>5
  <2>6. CASE \E k \in 1 .. Len(session) : ClearStack(user, session, p, k)
    <3>1. PICK k \in 1 .. Len(session) : ClearStack(user, session, p, k)
      BY <2>6
    <3>2. Len(p) >= 4 /\ p[Len(p) - 3] = <<"noPlayers", k>> /\ p[Len(p) - 2] = <<"release", <<"session", k>>>>
      BY <3>1 DEF ClearStack
    <3>3. i # Len(p) - 3 /\ i # Len(p) - 2
      BY <1>11, <3>2
    <3>4. i \in 1 .. Len(p) - 4
      BY SMTT(20), <1>11, <2>2, <2>3, <3>2, <3>3
    <3>5. p[i][1] \in {"closeNoLock", "push", "remove"}
      BY <3>1, <3>4 DEF ClearStack
    <3>. QED BY <1>11, <3>5
  <2>. QED BY <1>11, <2>1, <2>4, <2>5, <2>6, NotEmpty DEF TimerStack
<1>13. Placed(user, w, p, i)
  BY <1>11, <1>12 DEF StackInv, LoopsOK, LoopStack
<1>. HIDE DEF p
<1>14. i + 1 = Len(p) /\ p[i + 1] = <<"release", <<"session", user[x].session>>>> /\ i + 1 \in 1 .. Len(p)
  BY <1>11, <1>13 DEF Placed
<1>. SUFFICES ASSUME user[x].session = s
              PROVE  FALSE
  BY <1>1
<1>15. p[i + 1] = <<"release", lock>>
  BY <1>14 DEF lock
<1>16. Holds(w, lock)
  BY <1>14, <1>15 DEF Holds, p
<1>17. Holds(t, lock)
  <2>1. 2 \in 1 .. Len(q)
    BY <1>4
  <2>. QED BY <1>4, <2>1 DEF Holds, q
<1>. QED BY <1>2, <1>8, <1>16, <1>17 DEF StackInv, Exclusive

(* publisher_ = user: the old one has been closed *)
LEMMA AssignPublisherUsers ==
  ASSUME StackInv, StackInv', UserInv, NEW t \in Threads, AssignPublisher(t)
  PROVE  UserInv'
<1>1. At(t, "publisher") /\ Then(t, <<>>) /\ UNCHANGED <<queue, closed, user, current, forgotten>>
  BY DEF AssignPublisher
<1>2. PICK u \in 1 .. Len(user) : u = Arg(t)
  BY <1>1, UserOp DEF UserOps
<1>3. PICK s \in 1 .. Len(session) : s = user[u].session
  BY <1>2, UserAt
<1>4. session' = [session EXCEPT ![s] = [session[s] EXCEPT !.publisher = u]]
  BY <1>2, <1>3 DEF AssignPublisher
<1>5. session'[s].publisher = u /\ \A k \in 1 .. Len(session) : k # s => session'[k] = session[k]
  <2>1. session \in Seq(SessionRecord) /\ session[s] \in SessionRecord
    BY StackTypes
  <2>. QED BY <1>4, <2>1 DEF SessionRecord
<1>6. Moves(t, {})
  BY <1>1, NoneMoves
<1>7. ~At(t, "onClose") /\ ~At(t, "push") /\ ~At(t, "erase") /\ ~At(t, "setPublisher")
  BY <1>1, OneOp
<1>8. user' = user /\ user' \in Seq(UserRecord) /\ Extends(user, user') /\ \A c \in Conns : closed[c] => closed'[c]
  BY <1>1, StackTypes, ExtendsItself
<1>9. DestroyedClose /\ Replaces /\ OneFeeder
  BY DEF UserInv
<1>10. DestroyedClose'
  <2>1. \A c \in Conns : CloseComes(c) => CloseComes(c)'
    BY <1>1, <1>6, <1>7, <1>8, ClosingStays
  <2>2. \A v \in 1 .. Len(user) : Left(v) => Left(v)'
    BY <1>1, <1>6, <1>7, <1>8, LeftStays
  <2>3. \A v \in 1 .. Len(user') : user'[v].destroyed => (v \in 1 .. Len(user) /\ user[v].destroyed) \/ CloseOrLeft(v)'
    BY <1>8
  <2>. QED BY <1>8, <1>9, <2>1, <2>2, <2>3, DestroyedFrame
<1>11. Replaces'
  <2>. SUFFICES ASSUME NEW x \in 1 .. Len(user'), Pending("publisher", x)'
                PROVE  \/ session'[user'[x].session].publisher = None
                       \/ user'[session'[user'[x].session].publisher].destroyed
    BY DEF Replaces
  <2>1. x \in 1 .. Len(user) /\ user'[x].session = user[x].session
    BY <1>8
  <2>2. PICK k \in 1 .. Len(session) : k = user[x].session
    BY <2>1, UserAt
  <2>3. k # s
    BY <1>1, <1>2, <1>3, <2>1, <2>2, OneReplaces
  <2>4. session'[k].publisher = session[k].publisher
    BY <1>5, <2>3
  <2>5. Pending("publisher", x)
    BY <1>6 DEF Moves
  <2>6. session[k].publisher = None \/ user[session[k].publisher].destroyed
    BY <1>9, <2>1, <2>2, <2>5 DEF Replaces
  <2>. QED BY <1>8, <2>1, <2>2, <2>4, <2>6
<1>12. OneFeeder'
  <2>. SUFFICES ASSUME NEW v \in 1 .. Len(user'), Feeding(v)'
                PROVE  session'[user'[v].session].publisher = v \/ v \in forgotten' \/ Reused'
    BY DEF OneFeeder
  <2>1. v \in 1 .. Len(user) /\ user'[v].session = user[v].session
    BY <1>8
  <2>2. PICK k \in 1 .. Len(session) : k = user[v].session
    BY <2>1, UserAt
  <2>3. CASE v = u
    BY <1>3, <1>5, <2>1, <2>3
  <2>4. CASE v # u
    <3>1. ~(At(t, "publisher") /\ Arg(t) = v) /\ ~(At(t, "setPublisher") /\ Arg(t) = v)
      BY <1>2, <1>7, <2>4
    <3>2. session[user[v].session].publisher = v \/ v \in forgotten \/ Twice(user)
      BY <1>6, <1>8, <1>9, <2>1, <3>1, FeederFrame
    <3>3. Twice(user) => Twice(user')
      BY <1>8
    <3>4. Twice(user') => Reused'
      BY DEF Twice, Reused
    <3>5. session[s].publisher # v
      <4>1. Pending("publisher", u)
        <5>1. /\ todo[t] \in Seq(Steps) /\ 1 \in 1 .. Len(todo[t]) /\ todo[t][1] \in Steps
              /\ todo[t][1][1] = "publisher" /\ todo[t][1][2] = u
          BY <1>1, <1>2, AtFacts
        <5>2. todo[t][1] = <<"publisher", u>>
          BY <5>1, StepTypes
        <5>. QED BY <5>1, <5>2 DEF Pending
      <4>2. session[s].publisher = None \/ user[session[s].publisher].destroyed
        BY <1>3, <1>9, <4>1 DEF Replaces
      <4>3. ~user[v].destroyed /\ v # None
        BY <1>8, <2>1, LiveServiceAssumption DEF Feeding
      <4>. QED BY <4>2, <4>3
    <3>6. session[k].publisher = v => session'[k].publisher = v
      BY <1>5, <3>5
    <3>. QED BY <1>1, <2>1, <2>2, <3>2, <3>3, <3>4, <3>6
  <2>. QED BY <2>3, <2>4
<1>. QED BY <1>10, <1>11, <1>12 DEF UserInv
-----------------------------------------------------------------------------
(* Every step *)

LEMMA UserInvInit ==
  ASSUME Init
  PROVE  UserInv
<1>1. user = <<>> /\ Len(user) = 0
  BY DEF Init
<1>. QED BY <1>1 DEF UserInv, DestroyedClose, OneFeeder, Replaces

LEMMA UserInvStep ==
  ASSUME StackInv, StackInv', UserInv, NEW t \in Threads, Step(t)
  PROVE  UserInv'
<1>1. CASE Continue(t)
  BY <1>1, PushUsers, NotifyUsers, ActiveAllUsers, OnCloseUsers, CloseUserUsers, RemoveUserUsers,
     CreateSessionUsers, JoinUsers, AddPlayerUsers, SetPublisherUsers, AssignPublisherUsers DEF Continue
<1>2. CASE t \in Loops /\ OnLoop(t)
  BY <1>2, RunTaskUsers, RunFrontUsers DEF OnLoop
<1>3. CASE t \in Loops /\ \E c \in Conns : Arrives(t, c)
  BY <1>3, ArrivesUsers
<1>4. CASE OnTimer \/ OnTaskManager
  BY <1>4, OnTimerUsers, ClearUsers, CloseUserNoLockUsers, NoPlayersUsers, EraseUsers DEF OnTaskManager
<1>. QED BY <1>1, <1>2, <1>3, <1>4 DEF Step

LEMMA UserInvNext ==
  ASSUME StackInv, StackInv', UserInv, [Next]_vars
  PROVE  UserInv'
<1>1. CASE Next
  BY <1>1, UserInvStep DEF Next
<1>2. CASE UNCHANGED vars
  <2>1. todo' = todo /\ queue' = queue /\ closed' = closed /\ user' = user /\ session' = session
        /\ current' = current /\ forgotten' = forgotten
    BY <1>2 DEF vars
  <2>2. \A op, x : Pending(op, x)' <=> Pending(op, x)
    BY <2>1 DEF Pending
  <2>3. \A c \in Conns : CloseComes(c) => CloseComes(c)'
    BY <2>1, <2>2 DEF CloseComes, Closing
  <2>4. \A u \in 1 .. Len(user) : CloseOrLeft(u) => CloseOrLeft(u)'
    BY <2>1, <2>2, <2>3 DEF CloseOrLeft, Left
  <2>5. DestroyedClose'
    BY <2>1, <2>4 DEF UserInv, DestroyedClose
  <2>6. Replaces'
    BY <2>1, <2>2 DEF UserInv, Replaces
  <2>7. \A u \in 1 .. Len(user) : Feeding(u)' => Feeding(u)
    BY <2>1, <2>2 DEF Feeding, Joining
  <2>8. Reused' <=> Reused
    BY <2>1 DEF Reused
  <2>9. OneFeeder'
    BY <2>1, <2>7, <2>8 DEF UserInv, OneFeeder
  <2>. QED BY <2>5, <2>6, <2>9 DEF UserInv
<1>. QED BY <1>1, <1>2

(* What addPlayer, setPublisher, closeUser and clear keep about users and     *)
(* sessions, whatever waits for the lock of a session meanwhile.             *)
THEOREM UsersAreRight == Spec => []UserInv
BY StacksAreRight, UserInvInit, UserInvNext, PTL DEF Spec

LEMMA DestroyedCloses ==
  ASSUME StackInv, DestroyedClose
  PROVE  DestroyedIsClosing
<1>. SUFFICES ASSUME NEW u \in 1 .. Len(user), user[u].destroyed
              PROVE  \/ closed[user[u].conn] \/ Closing(user[u].conn)
                     \/ user[u].kind = "play" /\ (current # user[u].session \/ Pending("erase", None))
  BY DEF DestroyedIsClosing
<1>1. CloseOrLeft(u)
  BY DEF DestroyedClose
<1>. QED BY <1>1 DEF CloseOrLeft, CloseComes, Left

(* DestroyedIsClosing: destroyed_ keeps everybody else from closing the    *)
(* user, and closeUser, closeUserNoLock and setPublisher, which set it,    *)
(* have then called forceClose, or leave a player of a session that goes.  *)
THEOREM WhoDestroysCloses == Spec => []DestroyedIsClosing
<1>1. StackInv /\ UserInv => DestroyedIsClosing
  BY DestroyedCloses DEF UserInv
<1>. QED BY <1>1, StacksAreRight, UsersAreRight, PTL

(* OneFeeder: setPublisher closes the publisher that it replaces, so that  *)
(* whoever feeds a stream is its publisher_, unless another's leaving made *)
(* the session forget it (RemoveUser), for any number of publishers.       *)
THEOREM StreamHasOneFeeder == Spec => []OneFeeder
<1>1. UserInv => OneFeeder
  BY DEF UserInv
<1>. QED BY <1>1, UsersAreRight, PTL
-----------------------------------------------------------------------------
(* The commands that a thread is working on: who has one has nothing else  *)
(* to do                                                                   *)
Asked    == {"create", "join"}
Askers   == {t \in Threads : \E i \in 1 .. Len(todo[t]) : todo[t][i][1] \in Asked}
Joiners  == {t \in Threads : \E i \in 1 .. Len(todo[t]) : todo[t][i][1] = "join"}

LEMMA TimerOps ==
  ASSUME NEW us, NEW ss, NEW q \in Seq(Steps), TimerStack(us, ss, q), NEW i \in 1 .. Len(q)
  PROVE  q[i][1] \in {"clear", "erase", "closeNoLock", "push", "remove", "noPlayers", "release"}
<1>1. Len(q) \in Nat /\ q # <<>>
  BY NotEmpty
<1>2. Len(q) >= 2 /\ q[Len(q)] = <<"release", <<"service">>>> /\ q[Len(q) - 1] = <<"erase", None>>
  BY <1>1 DEF TimerStack
<1>3. CASE i = Len(q) \/ i = Len(q) - 1
  BY <1>2, <1>3
<1>4. CASE i < Len(q) - 1 /\ Len(q) = 3 /\ q[1][1] = "clear"
  <2>1. i = 1
    BY <1>4
  <2>. QED BY <1>4, <2>1
<1>5. CASE i < Len(q) - 1 /\ \E k \in 1 .. Len(ss) : ClearStack(us, ss, q, k)
  <2>1. PICK k \in 1 .. Len(ss) : ClearStack(us, ss, q, k)
    BY <1>5
  <2>2. Len(q) >= 4 /\ q[Len(q) - 3] = <<"noPlayers", k>> /\ q[Len(q) - 2] = <<"release", <<"session", k>>>>
    BY <2>1 DEF ClearStack
  <2>3. i = Len(q) - 3 \/ i = Len(q) - 2 \/ i \in 1 .. Len(q) - 4
    BY <1>1, <1>5, <2>2
  <2>4. i \in 1 .. Len(q) - 4 => q[i][1] \in {"closeNoLock", "push", "remove"}
    BY <2>1 DEF ClearStack
  <2>. QED BY <2>2, <2>3, <2>4
<1>6. ASSUME Len(q) = 2 PROVE i = Len(q) \/ i = Len(q) - 1
  <2>1. i \in 1 .. 2
    BY <1>6
  <2>. QED BY <1>6, <2>1
<1>7. i = Len(q) \/ i = Len(q) - 1 \/ i < Len(q) - 1
  BY <1>1
<1>. QED BY <1>1, <1>3, <1>4, <1>5, <1>6, <1>7 DEF TimerStack

LEMMA AskedFirst ==
  ASSUME StackInv, NEW t \in Threads, NEW i \in 1 .. Len(todo[t]), todo[t][i][1] \in Asked
  PROVE  At(t, todo[t][i][1])
<1>1. todo[t] \in Seq(Steps) /\ Len(todo[t]) \in Nat
  BY StackTypes
<1>2. t # Timer
  <2>. SUFFICES ASSUME t = Timer
                PROVE  FALSE
    OBVIOUS
  <2>1. TimerStack(user, session, todo[t])
    BY DEF StackInv, TimerOK
  <2>2. todo[t][i][1] \in {"clear", "erase", "closeNoLock", "push", "remove", "noPlayers", "release"}
    BY <1>1, <2>1, TimerOps
  <2>. QED BY <2>2 DEF Asked
<1>3. Placed(user, t, todo[t], i)
  BY <1>2 DEF Threads, StackInv, LoopsOK, LoopStack
<1>4. Len(todo[t]) = 1
  BY <1>3 DEF Placed, Alone, Asked
<1>5. todo[t] # <<>> /\ Head(todo[t]) = todo[t][1] /\ i = 1
  BY <1>1, <1>4
<1>. QED BY <1>5 DEF At, Idle

LEMMA WhoAsks ==
  ASSUME StackInv, NEW t \in Threads
  PROVE  /\ t \in Askers <=> At(t, "create") \/ At(t, "join")
         /\ t \in Joiners <=> At(t, "join")
<1>1. ASSUME NEW op, At(t, op)
      PROVE  \E i \in 1 .. Len(todo[t]) : todo[t][i][1] = op
  BY <1>1, AtFacts
<1>2. ASSUME NEW i \in 1 .. Len(todo[t]), todo[t][i][1] \in Asked
      PROVE  At(t, todo[t][i][1])
  BY <1>2, AskedFirst
<1>3. t \in Askers => At(t, "create") \/ At(t, "join")
  BY <1>2 DEF Askers, Asked
<1>4. t \in Joiners => At(t, "join")
  BY <1>2 DEF Joiners, Asked
<1>5. At(t, "create") \/ At(t, "join") => t \in Askers
  BY <1>1 DEF Askers, Asked
<1>6. At(t, "join") => t \in Joiners
  BY <1>1 DEF Joiners
<1>. QED BY <1>3, <1>4, <1>5, <1>6

(* A step that has nothing to do with commands                             *)
SameAsked == Askers' = Askers /\ Joiners' = Joiners

LEMMA CalmStep ==
  ASSUME StackInv, NEW t \in Threads, NEW new, Moves(t, new), \A e \in new : e[1] \notin Asked,
         ~At(t, "create"), ~At(t, "join")
  PROVE  SameAsked
<1>1. Moves(t, new) /\ \A e \in new : e[1] \notin Asked
  OBVIOUS
<1>2. t \notin Askers /\ t \notin Joiners
  BY WhoAsks
<1>3. \A i \in 1 .. Len(todo[t]) : todo[t][i][1] \notin Asked
  BY <1>2 DEF Askers
<1>4. \A i \in 1 .. Len(todo'[t]) : todo'[t][i][1] # "release" =>
        todo'[t][i] \in new \/ \E j \in 1 .. Len(todo[t]) : todo'[t][i] = todo[t][j]
  BY <1>1 DEF Moves
<1>5. \A i \in 1 .. Len(todo'[t]) : todo'[t][i][1] \notin Asked
  BY <1>1, <1>3, <1>4 DEF Asked
<1>6. \A w \in Threads : w # t => todo'[w] = todo[w]
  BY <1>1 DEF Moves
<1>7. ASSUME NEW w \in Threads
      PROVE  (w \in Askers' <=> w \in Askers) /\ (w \in Joiners' <=> w \in Joiners)
  <2>1. CASE w = t
    BY <1>2, <1>5, <2>1 DEF Askers, Joiners, Asked
  <2>2. CASE w # t
    <3>1. todo'[w] = todo[w]
      BY <1>6, <2>2
    <3>. QED BY <3>1 DEF Askers, Joiners
  <2>. QED BY <2>1, <2>2
<1>8. Askers \subseteq Threads /\ Joiners \subseteq Threads /\ Askers' \subseteq Threads /\ Joiners' \subseteq Threads
  BY DEF Askers, Joiners
<1>. QED BY <1>7, <1>8 DEF SameAsked

LEMMA CalmNone ==
  ASSUME StackInv, NEW t \in Threads, NEW op, op \notin Asked, At(t, op), Then(t, <<>>)
  PROVE  SameAsked
<1>1. Moves(t, {})
  BY NoneMoves
<1>2. ~At(t, "create") /\ ~At(t, "join")
  BY OneOp DEF Asked
<1>. QED BY <1>1, <1>2, CalmStep

LEMMA CalmOne ==
  ASSUME StackInv, NEW t \in Threads, NEW op, op \notin Asked, At(t, op),
         NEW e, e[1] \notin Asked, e[1] # "release", Then(t, <<e>>)
  PROVE  SameAsked
<1>1. Moves(t, {e})
  BY OneMoves
<1>2. ~At(t, "create") /\ ~At(t, "join")
  BY OneOp DEF Asked
<1>. QED BY <1>1, <1>2, CalmStep

LEMMA CalmTwo ==
  ASSUME StackInv, NEW t \in Threads, NEW op, op \notin Asked, At(t, op),
         NEW e, e[1] \notin Asked, e[1] # "release", NEW f, f[1] \notin Asked, f[1] # "release", Then(t, <<e, f>>)
  PROVE  SameAsked
<1>1. Moves(t, {e, f})
  BY TwoMoves
<1>2. ~At(t, "create") /\ ~At(t, "join")
  BY OneOp DEF Asked
<1>. QED BY <1>1, <1>2, CalmStep

LEMMA CalmHold ==
  ASSUME StackInv, NEW t \in Threads, NEW op, op \notin Asked, At(t, op), NEW lock \in LockNames,
         NEW o \in Seq(Steps), Holding(t, lock, o), NoRelease(o), \A i \in 1 .. Len(o) : o[i][1] \notin Asked
  PROVE  SameAsked
<1>1. Moves(t, Entries(o))
  BY HoldMoves
<1>2. ~At(t, "create") /\ ~At(t, "join")
  BY OneOp DEF Asked
<1>3. \A e \in Entries(o) : e[1] \notin Asked
  BY DEF Entries
<1>. QED BY <1>1, <1>2, <1>3, CalmStep

LEMMA CalmIdle ==
  ASSUME StackInv, NEW t \in Threads, Idle(t), NEW z, todo' = [todo EXCEPT ![t] = z],
         \A i \in 1 .. Len(z) : z[i][1] \notin Asked
  PROVE  SameAsked
<1>1. Moves(t, Entries(z))
  BY IdleMoves
<1>2. ~At(t, "create") /\ ~At(t, "join")
  BY DEF At
<1>3. \A e \in Entries(z) : e[1] \notin Asked
  BY DEF Entries
<1>. QED BY <1>1, <1>2, <1>3, CalmStep
-----------------------------------------------------------------------------
(* The steps leave room for the users and sessions that are asked for      *)

Room ==
  /\ Len(user) + Cardinality(Askers) <= MaxUsers
  /\ Len(session) <= Len(user) + Cardinality(Joiners)
  /\ forgotten \subseteq 1 .. Len(user)

LEMMA AskersFinite ==
  /\ IsFiniteSet(Threads) /\ Cardinality(Threads) \in Nat
  /\ IsFiniteSet(Askers) /\ Cardinality(Askers) \in Nat /\ Cardinality(Askers) <= Cardinality(Threads)
  /\ IsFiniteSet(Joiners) /\ Cardinality(Joiners) \in Nat /\ Cardinality(Joiners) <= Cardinality(Threads)
<1>1. IsFiniteSet(Threads)
  BY LiveServiceAssumption, FS_AddElement DEF Threads
<1>2. Askers \subseteq Threads /\ Joiners \subseteq Threads
  BY DEF Askers, Joiners
<1>. QED BY <1>1, <1>2, FS_Subset, FS_CardinalityType

(* A step that neither asks nor joins                                      *)
LEMMA RoomFrame ==
  ASSUME StackInv, Room, SameAsked, Len(user') = Len(user), Len(session') = Len(session),
         forgotten' \subseteq 1 .. Len(user)
  PROVE  Room'
BY DEF Room, SameAsked

LEMMA NoneRoom ==
  ASSUME StackInv, Room, NEW t \in Threads, NEW op, op \notin Asked, At(t, op), Then(t, <<>>),
         UNCHANGED <<user, forgotten>>, Len(session') = Len(session)
  PROVE  Room'
<1>1. SameAsked
  BY CalmNone
<1>. QED BY <1>1, RoomFrame DEF Room

(* Steps that only change stacks, queues or who is in a session            *)
LEMMA PlainRoom ==
  ASSUME StackInv, Room, NEW t \in Threads, Push(t) \/ Notify(t) \/ (t = Timer /\ Erase)
  PROVE  Room'
<1>1. PICK op \in {"push", "notify", "erase"} : At(t, op)
  BY DEF Push, Notify, Erase
<1>2. Then(t, <<>>) /\ UNCHANGED <<user, session, forgotten>>
  BY DEF Push, Notify, Erase
<1>. QED BY <1>1, <1>2, NoneRoom DEF Asked

LEMMA SessionRoom ==
  ASSUME StackInv, Room, NEW t \in Threads, NEW s \in 1 .. Len(session), NEW r \in SessionRecord,
         session' = [session EXCEPT ![s] = r],
         NEW op, op \notin Asked, At(t, op), Then(t, <<>>), UNCHANGED user, forgotten' \subseteq 1 .. Len(user)
  PROVE  Room'
<1>1. Len(session') = Len(session)
  BY StackTypes, SessionUpdate
<1>2. SameAsked
  BY CalmNone
<1>. QED BY <1>1, <1>2, RoomFrame

LEMMA AddPlayerRoom ==
  ASSUME StackInv, Room, NEW t \in Threads, AddPlayer(t)
  PROVE  Room'
<1>1. At(t, "addPlayer") /\ Then(t, <<>>) /\ UNCHANGED <<user, forgotten>>
  BY DEF AddPlayer
<1>2. PICK u \in 1 .. Len(user) : u = Arg(t)
  BY <1>1, UserOp DEF UserOps
<1>3. PICK s \in 1 .. Len(session) : s = user[u].session
  BY <1>2, UserAt
<1>4. PICK r : r = [session[s] EXCEPT !.players = @ \cup {u}]
  OBVIOUS
<1>5. session[s] \in SessionRecord /\ u \in Nat
  BY SessionAt, UserAt
<1>6. r \in SessionRecord
  BY <1>4, <1>5 DEF SessionRecord
<1>7. session' = [session EXCEPT ![s] = r]
  BY <1>2, <1>3, <1>4 DEF AddPlayer
<1>. QED BY <1>1, <1>6, <1>7, SessionRoom DEF Asked, Room

LEMMA AssignPublisherRoom ==
  ASSUME StackInv, Room, NEW t \in Threads, AssignPublisher(t)
  PROVE  Room'
<1>1. At(t, "publisher") /\ Then(t, <<>>) /\ UNCHANGED <<user, forgotten>>
  BY DEF AssignPublisher
<1>2. PICK u \in 1 .. Len(user) : u = Arg(t)
  BY <1>1, UserOp DEF UserOps
<1>3. PICK s \in 1 .. Len(session) : s = user[u].session
  BY <1>2, UserAt
<1>4. PICK r : r = [session[s] EXCEPT !.publisher = u]
  OBVIOUS
<1>5. session[s] \in SessionRecord /\ u \in Nat
  BY SessionAt, UserAt
<1>6. r \in SessionRecord
  BY <1>4, <1>5 DEF SessionRecord
<1>7. session' = [session EXCEPT ![s] = r]
  BY <1>2, <1>3, <1>4 DEF AssignPublisher
<1>. QED BY <1>1, <1>6, <1>7, SessionRoom DEF Asked, Room

LEMMA NoPlayersRoom ==
  ASSUME StackInv, Room, NoPlayers
  PROVE  Room'
<1>1. At(Timer, "noPlayers") /\ Then(Timer, <<>>) /\ UNCHANGED <<user, forgotten>>
  BY DEF NoPlayers
<1>2. Timer \in Threads
  BY DEF Threads
<1>3. PICK s \in 1 .. Len(session) : s = Arg(Timer)
  BY <1>1, <1>2, AtFacts DEF Fits
<1>4. PICK r : r = [session[s] EXCEPT !.players = {}]
  OBVIOUS
<1>5. session[s] \in SessionRecord
  BY SessionAt
<1>6. r \in SessionRecord
  BY <1>4, <1>5 DEF SessionRecord
<1>7. session' = [session EXCEPT ![s] = r]
  BY <1>3, <1>4 DEF NoPlayers
<1>. QED BY <1>1, <1>2, <1>6, <1>7, SessionRoom DEF Asked, Room

(* removeUser: who is forgotten was the publisher, so one of the users     *)
LEMMA RemoveUserRoom ==
  ASSUME StackInv, Room, NEW t \in Threads, RemoveUser(t)
  PROVE  Room'
<1>1. Then(t, <<>>) /\ UNCHANGED user
  BY DEF RemoveUser
<1>2. PICK op \in {"remove", "closed"} : At(t, op)
  BY DEF RemoveUser
<1>3. PICK u \in 1 .. Len(user) : u = Arg(t)
  BY <1>2, UserOp DEF UserOps
<1>4. PICK s \in 1 .. Len(session) : s = user[u].session
  BY <1>3, UserAt
<1>5. TakenForPublisher(u) /\ session[s] \in SessionRecord
  BY AllTaken, SessionAt
<1>6. PICK r : r = [session[s] EXCEPT !.publisher = None]
  OBVIOUS
<1>7. r \in SessionRecord
  BY <1>5, <1>6 DEF SessionRecord
<1>8. session' = [session EXCEPT ![s] = r] /\ forgotten' = forgotten \cup ({session[s].publisher} \ {u, None})
  BY <1>3, <1>4, <1>5, <1>6 DEF RemoveUser
<1>9. forgotten' \subseteq 1 .. Len(user)
  <2>1. session[s].publisher # None => session[s].publisher \in 1 .. Len(user)
    BY SessionAt
  <2>. QED BY <1>8, <2>1 DEF Room
<1>. QED BY <1>1, <1>2, <1>7, <1>8, <1>9, SessionRoom DEF Asked

LEMMA RunFrontRoom ==
  ASSUME StackInv, Room, NEW l \in Loops, RunFront(l)
  PROVE  Room'
<1>1. l \in Threads /\ At(l, "tasks") /\ UNCHANGED <<user, session, forgotten>>
  BY DEF RunFront, Threads
<1>2. SameAsked
  <2>1. CASE queue[l] = <<>>
    <3>1. Then(l, <<>>)
      BY <2>1 DEF RunFront
    <3>. QED BY <1>1, <3>1, CalmNone DEF Asked
  <2>2. CASE queue[l] # <<>>
    <3>1. PICK e, f : e = Head(queue[l]) /\ f = <<"tasks", l>>
      OBVIOUS
    <3>2. Then(l, <<e, f>>)
      BY <2>2, <3>1 DEF RunFront
    <3>3. queue[l] \in Seq({"onClose"} \X Conns)
      BY StackTypes
    <3>4. e[1] = "onClose" /\ f[1] = "tasks"
      BY <2>2, <3>1, <3>3
    <3>. QED BY <1>1, <3>2, <3>4, CalmTwo DEF Asked
  <2>. QED BY <2>1, <2>2
<1>. QED BY <1>1, <1>2, RoomFrame DEF Room

LEMMA OnCloseRoom ==
  ASSUME StackInv, Room, NEW t \in Threads, OnClose(t)
  PROVE  Room'
<1>1. At(t, "onClose") /\ UNCHANGED <<user, session, forgotten>>
  BY DEF OnClose
<1>2. PICK d : d = Arg(t)
  OBVIOUS
<1>3. SameAsked
  <2>1. CASE closed[d] \/ context[d] = None
    <3>1. Then(t, <<>>)
      BY <1>2, <2>1 DEF OnClose
    <3>. QED BY <1>1, <3>1, CalmNone DEF Asked
  <2>2. CASE ~(closed[d] \/ context[d] = None)
    <3>1. PICK e : e = <<"closeUser", context[d]>>
      OBVIOUS
    <3>2. Then(t, <<e>>) /\ e[1] = "closeUser"
      BY <1>2, <2>2, <3>1 DEF OnClose
    <3>. QED BY <1>1, <3>2, CalmOne DEF Asked
  <2>. QED BY <2>1, <2>2
<1>. QED BY <1>1, <1>3, RoomFrame DEF Room

(* What becomes of a user's connection when the user is destroyed          *)
LEMMA CloseSteps ==
  ASSUME NEW t, NEW c \in Conns
  PROVE  \E f \in Steps : ForceClose(t, c) = <<f>> /\ f[1] \in {"onClose", "push"}
BY ForceCloses

LEMMA CloseUserRoom ==
  ASSUME StackInv, Room, NEW t \in Threads, CloseUser(t)
  PROVE  Room'
<1>1. At(t, "closeUser") /\ UNCHANGED <<session, forgotten>>
  BY DEF CloseUser
<1>2. PICK u \in 1 .. Len(user) : u = Arg(t)
  BY <1>1, UserOp DEF UserOps
<1>3. PICK c \in Conns : c = user[u].conn
  BY UserAt
<1>4. /\ user' = [user EXCEPT ![u].destroyed = TRUE]
      /\ Then(t, IF user[u].destroyed THEN <<>> ELSE <<<<"closed", u>>>> \o ForceClose(t, c))
  BY <1>2, <1>3 DEF CloseUser
<1>5. Len(user') = Len(user)
  BY <1>4, UserDestroyed
<1>6. SameAsked
  <2>1. CASE user[u].destroyed
    <3>1. Then(t, <<>>)
      BY <1>4, <2>1
    <3>. QED BY <1>1, <3>1, CalmNone DEF Asked
  <2>2. CASE ~user[u].destroyed
    <3>1. PICK f \in Steps : ForceClose(t, c) = <<f>> /\ f[1] \in {"onClose", "push"}
      BY CloseSteps
    <3>2. PICK e : e = <<"closed", u>>
      OBVIOUS
    <3>3. e \in Steps /\ e[1] = "closed"
      BY <3>2, UserAt DEF Steps, UserOps
    <3>4. Then(t, <<e>> \o <<f>>)
      BY <1>4, <2>2, <3>1, <3>2
    <3>5. Then(t, <<e, f>>)
      BY <3>1, <3>3, <3>4, PairOfSteps
    <3>. QED BY <1>1, <3>1, <3>3, <3>5, CalmTwo DEF Asked
  <2>. QED BY <2>1, <2>2
<1>. QED BY <1>1, <1>5, <1>6, RoomFrame DEF Room

LEMMA CloseUserNoLockRoom ==
  ASSUME StackInv, Room, CloseUserNoLock
  PROVE  Room'
<1>1. At(Timer, "closeNoLock") /\ Timer \in Threads /\ UNCHANGED <<session, forgotten>>
  BY DEF CloseUserNoLock, Threads
<1>2. PICK u \in 1 .. Len(user) : u = Arg(Timer)
  BY <1>1, UserOp DEF UserOps
<1>3. PICK c \in Conns : c = user[u].conn
  BY UserAt
<1>4. /\ user' = [user EXCEPT ![u].destroyed = TRUE]
      /\ Then(Timer, <<>>) \/ Then(Timer, ForceClose(Timer, c) \o <<<<"remove", u>>>>)
  BY <1>2, <1>3 DEF CloseUserNoLock
<1>5. Len(user') = Len(user)
  BY <1>4, UserDestroyed
<1>6. SameAsked
  <2>1. CASE Then(Timer, <<>>)
    BY <1>1, <2>1, CalmNone DEF Asked
  <2>2. CASE Then(Timer, ForceClose(Timer, c) \o <<<<"remove", u>>>>)
    <3>1. PICK f \in Steps : ForceClose(Timer, c) = <<f>> /\ f[1] \in {"onClose", "push"}
      BY CloseSteps
    <3>2. PICK e : e = <<"remove", u>>
      OBVIOUS
    <3>3. e \in Steps /\ e[1] = "remove"
      BY <3>2, UserAt DEF Steps, UserOps
    <3>4. Then(Timer, <<f>> \o <<e>>)
      BY <2>2, <3>1, <3>2
    <3>5. Then(Timer, <<f, e>>)
      BY <3>1, <3>3, <3>4, PairOfSteps
    <3>. QED BY <1>1, <3>1, <3>3, <3>5, CalmTwo DEF Asked
  <2>. QED BY <1>4, <2>1, <2>2
<1>. QED BY <1>1, <1>5, <1>6, RoomFrame DEF Room

LEMMA SetPublisherRoom ==
  ASSUME StackInv, Room, NEW t \in Threads, SetPublisher(t)
  PROVE  Room'
<1>1. At(t, "setPublisher") /\ UNCHANGED <<session, forgotten>>
  BY DEF SetPublisher
<1>2. PICK u \in 1 .. Len(user) : u = Arg(t)
  BY <1>1, UserOp DEF UserOps
<1>3. PICK s \in 1 .. Len(session) : s = user[u].session
  BY <1>2, UserAt
<1>4. PICK old : old = session[s].publisher
  OBVIOUS
<1>5. PICK e, lock : e = <<"publisher", u>> /\ lock = <<"session", s>>
  OBVIOUS
<1>6. \/ Holding(t, lock, <<e>>) /\ user' = user
      \/ /\ old # None /\ user' = [user EXCEPT ![old].destroyed = TRUE]
         /\ Holding(t, lock, ForceClose(t, user[old].conn) \o <<e>>)
  BY <1>2, <1>3, <1>4, <1>5 DEF SetPublisher
<1>7. e \in Steps /\ e[1] = "publisher" /\ lock \in LockNames
  BY <1>5, UserAt, StackTypes DEF Steps, UserOps, LockNames
<1>8. CASE Holding(t, lock, <<e>>) /\ user' = user
  <2>1. PICK o : o = <<e>>
    OBVIOUS
  <2>2. o \in Seq(Steps) /\ NoRelease(o) /\ (\A i \in 1 .. Len(o) : o[i][1] \notin Asked) /\ Holding(t, lock, o)
    BY <1>7, <1>8, <2>1 DEF NoRelease, Asked
  <2>3. SameAsked
    BY <1>1, <1>7, <2>2, CalmHold DEF Asked
  <2>. QED BY <1>1, <1>8, <2>3, RoomFrame DEF Room
<1>9. CASE /\ old # None /\ user' = [user EXCEPT ![old].destroyed = TRUE]
           /\ Holding(t, lock, ForceClose(t, user[old].conn) \o <<e>>)
  <2>1. old \in 1 .. Len(user)
    BY <1>4, <1>9, SessionAt
  <2>2. PICK c \in Conns : c = user[old].conn
    BY <2>1, UserAt
  <2>3. PICK f \in Steps : ForceClose(t, c) = <<f>> /\ f[1] \in {"onClose", "push"}
    BY CloseSteps
  <2>4. PICK o : o = <<f, e>>
    OBVIOUS
  <2>5. <<f>> \o <<e>> = o
    BY <1>7, <2>4, PairOfSteps
  <2>6. Holding(t, lock, o)
    BY <1>9, <2>2, <2>3, <2>5
  <2>7. o \in Seq(Steps) /\ NoRelease(o) /\ \A i \in 1 .. Len(o) : o[i][1] \notin Asked
    BY <1>7, <2>3, <2>4 DEF NoRelease, Asked
  <2>8. SameAsked
    BY <1>1, <1>7, <2>6, <2>7, CalmHold DEF Asked
  <2>9. Len(user') = Len(user)
    BY <1>9, <2>1, UserDestroyed
  <2>. QED BY <1>1, <2>8, <2>9, RoomFrame DEF Room
<1>. QED BY <1>6, <1>8, <1>9

LEMMA ActiveAllRoom ==
  ASSUME StackInv, Room, NEW t \in Threads, ActiveAll(t)
  PROVE  Room'
<1>. DEFINE s == Arg(t)
            o == NotifyOps(t, s)
<1>1. At(t, "activeAll") /\ Holding(t, <<"session", s>>, o) /\ UNCHANGED <<user, session, forgotten>>
  BY DEF ActiveAll, NotifyOps
<1>2. s \in 1 .. Len(session) /\ s \in Nat
  <2>1. todo[t][1][1] = "activeAll" /\ todo[t][1][2] = s /\ Fits(user, Len(session), todo[t][1])
    BY <1>1, AtFacts
  <2>. QED BY <2>1, StackTypes DEF Fits
<1>. HIDE DEF s
<1>3. o \in Seq(Steps) /\ \A i \in 1 .. Len(o) : o[i][1] = "notify"
  BY <1>2, NotifyList
<1>. HIDE DEF o
<1>4. <<"session", s>> \in LockNames
  BY <1>2 DEF LockNames
<1>5. SameAsked
  BY <1>1, <1>3, <1>4, CalmHold DEF NoRelease, Asked
<1>. QED BY <1>1, <1>5, RoomFrame DEF Room

LEMMA ClearRoom ==
  ASSUME StackInv, Room, Clear
  PROVE  Room'
<1>. DEFINE s == Arg(Timer)
            o == ClearOps(s)
<1>1. At(Timer, "clear") /\ Holding(Timer, <<"session", s>>, o) /\ UNCHANGED <<user, session, forgotten>>
  BY DEF Clear, ClearOps
<1>2. Timer \in Threads
  BY DEF Threads
<1>3. s \in 1 .. Len(session) /\ s \in Nat
  <2>1. todo[Timer][1][1] = "clear" /\ todo[Timer][1][2] = s /\ Fits(user, Len(session), todo[Timer][1])
    BY <1>1, <1>2, AtFacts
  <2>. QED BY <2>1, StackTypes DEF Fits
<1>. HIDE DEF s
<1>4. \E n \in Nat :
           /\ ClearOps(s) \in Seq(Steps) /\ Len(ClearOps(s)) = n + 1 /\ ClearOps(s)[n + 1] = <<"noPlayers", s>>
           /\ \A i \in 1 .. n :
                /\ ClearOps(s)[i][1] = "closeNoLock" /\ ClearOps(s)[i][2] \in 1 .. Len(user)
                /\ user[ClearOps(s)[i][2]].session = s
                /\ user[ClearOps(s)[i][2]].kind = "publish" => i = 1 /\ session[s].publisher = ClearOps(s)[i][2]
  BY <1>3, ClearList
<1>5. o \in Seq(Steps) /\ \A i \in 1 .. Len(o) : o[i][1] \in {"closeNoLock", "noPlayers"}
  <2>1. PICK n \in Nat : /\ o \in Seq(Steps) /\ Len(o) = n + 1 /\ o[n + 1] = <<"noPlayers", s>>
                         /\ \A i \in 1 .. n : o[i][1] = "closeNoLock"
    BY <1>4
  <2>2. \A i \in 1 .. Len(o) : i \in 1 .. n \/ i = n + 1
    BY <2>1
  <2>. QED BY <2>1, <2>2
<1>. HIDE DEF o
<1>6. <<"session", s>> \in LockNames
  BY <1>3 DEF LockNames
<1>7. SameAsked
  BY <1>1, <1>2, <1>5, <1>6, CalmHold DEF NoRelease, Asked
<1>. QED BY <1>1, <1>7, RoomFrame DEF Room

(* What an idle thread begins that is no command                           *)
LEMMA IdleRoom ==
  ASSUME StackInv, Room, NEW t \in Threads, Idle(t), NEW z, todo' = [todo EXCEPT ![t] = z],
         \A i \in 1 .. Len(z) : z[i][1] \notin Asked, UNCHANGED <<user, session, forgotten>>
  PROVE  Room'
<1>1. SameAsked
  BY CalmIdle
<1>. QED BY <1>1, RoomFrame DEF Room

LEMMA RunTaskRoom ==
  ASSUME StackInv, Room, NEW l \in Loops, RunTask(l)
  PROVE  Room'
<1>1. PICK z : z = <<<<"tasks", l>>, <<"release", <<"loop", l>>>>>>
  OBVIOUS
<1>2. Idle(l) /\ todo' = [todo EXCEPT ![l] = z] /\ UNCHANGED <<user, session, forgotten>>
  BY <1>1 DEF RunTask
<1>3. \A i \in 1 .. Len(z) : z[i][1] \notin Asked
  BY <1>1 DEF Asked
<1>. QED BY <1>2, <1>3, IdleRoom DEF Threads

LEMMA OnTimerRoom ==
  ASSUME StackInv, Room, OnTimer
  PROVE  Room'
<1>1. PICK z : z = <<<<"clear", current>>, <<"erase", None>>, <<"release", <<"service">>>>>>
  OBVIOUS
<1>2. Idle(Timer) /\ todo' = [todo EXCEPT ![Timer] = z] /\ UNCHANGED <<user, session, forgotten>>
  BY <1>1 DEF OnTimer
<1>3. \A i \in 1 .. Len(z) : z[i][1] \notin Asked
  BY <1>1 DEF Asked
<1>. QED BY <1>2, <1>3, IdleRoom DEF Threads

LEMMA DataRoom ==
  ASSUME StackInv, Room, NEW l \in Loops, NEW c \in Conns, Media(l, c) \/ PeerClose(l, c)
  PROVE  Room'
<1>1. PICK e : /\ e[1] \in {"onClose", "activeAll"} /\ Idle(l) /\ todo' = [todo EXCEPT ![l] = <<e>>]
               /\ UNCHANGED <<user, session, forgotten>>
  <2>1. CASE PeerClose(l, c)
    <3>1. <<"onClose", c>>[1] = "onClose"
      OBVIOUS
    <3>. QED BY <2>1, <3>1 DEF PeerClose, Open
  <2>2. CASE Media(l, c)
    <3>1. /\ Idle(l) /\ LoopOf[c] = l /\ UNCHANGED <<user, session, forgotten>>
          /\ todo' = [todo EXCEPT ![l] = IF context[c] = None THEN ForceClose(l, c)
                                         ELSE <<<<"activeAll", user[context[c]].session>>>>]
      BY <2>2 DEF Media, Open
    <3>2. ForceClose(l, c) = <<<<"onClose", c>>>>
      BY <3>1 DEF ForceClose
    <3>3. CASE context[c] = None
      <4>1. todo' = [todo EXCEPT ![l] = <<<<"onClose", c>>>>]
        BY <3>1, <3>2, <3>3
      <4>. QED BY <3>1, <4>1
    <3>4. CASE context[c] # None
      <4>1. todo' = [todo EXCEPT ![l] = <<<<"activeAll", user[context[c]].session>>>>]
        BY <3>1, <3>4
      <4>. QED BY <3>1, <4>1
    <3>. QED BY <3>3, <3>4
  <2>. QED BY <2>1, <2>2
<1>2. \A i \in 1 .. Len(<<e>>) : <<e>>[i][1] \notin Asked
  BY <1>1 DEF Asked
<1>. QED BY <1>1, <1>2, IdleRoom DEF Threads
-----------------------------------------------------------------------------
(* The life of a command *)

(* What one thread works on, all others the same                           *)
LEMMA OneThread ==
  ASSUME NEW t \in Threads, \A w \in Threads : w # t => todo'[w] = todo[w]
  PROVE  /\ \A w \in Threads : w # t => (w \in Askers' <=> w \in Askers) /\ (w \in Joiners' <=> w \in Joiners)
         /\ Askers' \subseteq Threads /\ Joiners' \subseteq Threads
         /\ Askers \subseteq Threads /\ Joiners \subseteq Threads
BY DEF Askers, Joiners

(* A command is all its thread has to do                                   *)
LEMMA OnlyStep ==
  ASSUME StackInv, NEW t \in Threads, NEW op \in Alone, At(t, op), NEW e, e[1] # "release", Then(t, <<e>>)
  PROVE  Len(todo'[t]) = 1 /\ todo'[t][1] = e
<1>1. PICK q : q = todo[t]
  OBVIOUS
<1>2. q \in Seq(Steps) /\ q # <<>> /\ t \in Loops
  BY <1>1, AtFacts DEF Alone
<1>3. Len(q) = 1
  BY <1>1, <1>2, AtFacts DEF Placed
<1>4. Tail(q) = <<>>
  <2>1. Tail(q) \in Seq(Steps) /\ Len(Tail(q)) = 0
    BY <1>2, <1>3
  <2>. QED BY <2>1, EmptySeq
<1>5. <<e>> \o Tail(q) = <<e>>
  <2>1. <<e>> \in Seq({e})
    OBVIOUS
  <2>. QED BY <1>4, <2>1, ConcatEmptySeq
<1>6. Released(<<e>>) = <<e>>
  BY DEF Released
<1>7. todo'[t] = <<e>>
  <2>1. todo' = [todo EXCEPT ![t] = Released(<<e>> \o Tail(q))]
    BY <1>1 DEF Then
  <2>. QED BY <1>5, <1>6, <2>1, StackTypes
<1>. QED BY <1>7

LEMMA AskerGone ==
  ASSUME NEW A, NEW B, NEW t, IsFiniteSet(A), IsFiniteSet(B), t \in A, B = A \ {t}
  PROVE  Cardinality(B) = Cardinality(A) - 1
BY FS_RemoveElement

LEMMA AskerMore ==
  ASSUME NEW A, NEW B, NEW t, IsFiniteSet(A), IsFiniteSet(B), t \notin A, B = A \cup {t}
  PROVE  Cardinality(B) = Cardinality(A) + 1
BY FS_AddElement

(* A command is taken up while there is room for its user                  *)
LEMMA CommandRoom ==
  ASSUME StackInv, Room, NEW l \in Loops, NEW c \in Conns, NEW kind \in Kinds[c], Command(l, c, kind)
  PROVE  Room'
<1>1. l \in Threads /\ Idle(l) /\ UNCHANGED <<user, session, forgotten>>
  BY DEF Command, Open, Threads
<1>2. PICK e : e = <<"create", [kind |-> kind, conn |-> c]>>
  OBVIOUS
<1>3. e[1] = "create" /\ todo' = [todo EXCEPT ![l] = <<e>>]
  BY <1>2 DEF Command
<1>4. todo'[l] = <<e>> /\ \A w \in Threads : w # l => todo'[w] = todo[w]
  BY <1>1, <1>3, StackTypes
<1>5. l \notin Askers /\ l \notin Joiners
  BY <1>1 DEF Idle, Askers, Joiners
<1>6. l \in Askers' /\ l \notin Joiners'
  BY <1>1, <1>3, <1>4 DEF Askers, Joiners, Asked
<1>7. Askers' = Askers \cup {l} /\ Joiners' = Joiners
  BY <1>1, <1>4, <1>5, <1>6, OneThread
<1>8. Len(user) + Cardinality(Askers) < MaxUsers
  BY DEF Command, Commands, Askers, Asked
<1>9. Cardinality(Askers') = Cardinality(Askers) + 1
  <2>1. IsFiniteSet(Askers')
    BY <1>7, AskersFinite, FS_AddElement
  <2>. QED BY <1>5, <1>7, <2>1, AskersFinite, AskerMore
<1>. QED BY <1>1, <1>7, <1>8, <1>9, AskersFinite, StackTypes, LiveServiceAssumption DEF Room

(* createSession: a thread that joins adds a session at most               *)
LEMMA CreateSessionRoom ==
  ASSUME StackInv, Room, NEW t \in Threads, CreateSession(t)
  PROVE  Room'
<1>1. At(t, "create") /\ UNCHANGED <<user, forgotten>>
  BY DEF CreateSession
<1>2. PICK n : n = [publisher |-> None, players |-> {}]
  OBVIOUS
<1>3. PICK e : e[1] = "join" /\ Then(t, <<e>>) /\ (session' = session \/ session' = Append(session, n))
  BY <1>2 DEF CreateSession
<1>4. Len(session') <= Len(session) + 1 /\ Len(session') \in Nat
  <2>1. n \in SessionRecord
    BY <1>2 DEF SessionRecord
  <2>. QED BY <1>3, <2>1, StackTypes
<1>5. Moves(t, {e})
  BY <1>1, <1>3, OneMoves
<1>6. \A w \in Threads : w # t => todo'[w] = todo[w]
  BY <1>5 DEF Moves
<1>7. t \in Askers /\ t \notin Joiners
  BY <1>1, WhoAsks, OneOp
<1>8. t \in Askers' /\ t \in Joiners'
  <2>1. Len(todo'[t]) = 1 /\ todo'[t][1] = e
    BY <1>1, <1>3, OnlyStep DEF Alone
  <2>. QED BY <1>3, <2>1 DEF Askers, Joiners, Asked
<1>9. Askers' = Askers /\ Joiners' = Joiners \cup {t}
  BY <1>6, <1>7, <1>8, OneThread
<1>10. Cardinality(Joiners') = Cardinality(Joiners) + 1
  <2>1. IsFiniteSet(Joiners')
    BY <1>9, AskersFinite, FS_AddElement
  <2>. QED BY <1>7, <1>9, <2>1, AskersFinite, AskerMore
<1>. QED BY <1>1, <1>4, <1>9, <1>10, AskersFinite, StackTypes DEF Room

(* The user takes the room that its command had                            *)
LEMMA JoinRoom ==
  ASSUME StackInv, Room, NEW t \in Threads, Join(t)
  PROVE  Room'
<1>1. At(t, "join") /\ UNCHANGED <<session, forgotten>>
  BY DEF Join
<1>2. PICK e : e[1] \in {"addPlayer", "setPublisher"} /\ Then(t, <<e>>)
  <2>1. CASE Arg(t).kind = "play"
    <3>1. <<"addPlayer", Len(user) + 1>>[1] = "addPlayer"
      OBVIOUS
    <3>2. Then(t, <<<<"addPlayer", Len(user) + 1>>>>)
      BY <2>1 DEF Join
    <3>. QED BY <3>1, <3>2
  <2>2. CASE Arg(t).kind # "play"
    <3>1. <<"setPublisher", Len(user) + 1>>[1] = "setPublisher"
      OBVIOUS
    <3>2. Then(t, <<<<"setPublisher", Len(user) + 1>>>>)
      BY <2>2 DEF Join
    <3>. QED BY <3>1, <3>2
  <2>. QED BY <2>1, <2>2
<1>3. Len(user') = Len(user) + 1
  <2>1. PICK n : user' = Append(user, n)
    BY DEF Join
  <2>2. n = user'[Len(user) + 1]
    BY <2>1, StackTypes
  <2>. QED BY <2>1, StackTypes
<1>4. Moves(t, {e})
  BY <1>1, <1>2, OneMoves
<1>5. \A w \in Threads : w # t => todo'[w] = todo[w]
  BY <1>4 DEF Moves
<1>6. t \in Askers /\ t \in Joiners
  BY <1>1, WhoAsks
<1>7. t \notin Askers' /\ t \notin Joiners'
  <2>1. Len(todo'[t]) = 1 /\ todo'[t][1] = e
    BY <1>1, <1>2, OnlyStep DEF Alone
  <2>. QED BY <1>2, <2>1 DEF Askers, Joiners, Asked
<1>8. Askers' = Askers \ {t} /\ Joiners' = Joiners \ {t}
  BY <1>5, <1>6, <1>7, OneThread
<1>9. Cardinality(Askers') = Cardinality(Askers) - 1 /\ Cardinality(Joiners') = Cardinality(Joiners) - 1
  <2>1. IsFiniteSet(Askers') /\ IsFiniteSet(Joiners')
    BY <1>8, AskersFinite, FS_Subset
  <2>. QED BY <1>6, <1>8, <2>1, AskersFinite, AskerGone
<1>10. forgotten' \subseteq 1 .. Len(user')
  BY <1>1, <1>3, StackTypes DEF Room
<1>. QED BY <1>1, <1>3, <1>9, <1>10, AskersFinite, StackTypes DEF Room

RoomInv == StackInv /\ Room /\ exited \in BOOLEAN

LEMMA RoomInit ==
  ASSUME Init
  PROVE  RoomInv
<1>1. StackInv
  BY StackInvInit
<1>2. todo = [t \in Threads |-> <<>>] /\ user = <<>> /\ session = <<>> /\ forgotten = {} /\ exited = FALSE
  BY DEF Init
<1>3. Askers = {} /\ Joiners = {}
  BY <1>2 DEF Askers, Joiners
<1>4. Cardinality(Askers) = 0 /\ Cardinality(Joiners) = 0
  BY <1>3, FS_EmptySet
<1>5. Len(user) = 0 /\ Len(session) = 0 /\ forgotten \subseteq 1 .. Len(user) /\ exited \in BOOLEAN
  BY <1>2
<1>6. Room
  BY <1>4, <1>5, LiveServiceAssumption DEF Room
<1>. QED BY <1>1, <1>5, <1>6 DEF RoomInv

LEMMA RoomStep ==
  ASSUME StackInv, Room, NEW t \in Threads, Step(t)
  PROVE  Room'
<1>1. CASE Continue(t)
  <2>1. CASE Push(t) \/ Notify(t)
    BY <2>1, PlainRoom
  <2>2. CASE ActiveAll(t) \/ OnClose(t) \/ CloseUser(t) \/ RemoveUser(t)
    BY <2>2, ActiveAllRoom, OnCloseRoom, CloseUserRoom, RemoveUserRoom
  <2>3. CASE CreateSession(t) \/ Join(t) \/ AddPlayer(t) \/ SetPublisher(t) \/ AssignPublisher(t)
    BY <2>3, CreateSessionRoom, JoinRoom, AddPlayerRoom, SetPublisherRoom, AssignPublisherRoom
  <2>. QED BY <1>1, <2>1, <2>2, <2>3 DEF Continue
<1>2. CASE t \in Loops /\ OnLoop(t)
  BY <1>2, RunTaskRoom, RunFrontRoom DEF OnLoop
<1>3. CASE t \in Loops /\ \E c \in Conns : Arrives(t, c)
  BY <1>3, CommandRoom, DataRoom DEF Arrives
<1>4. CASE t = Timer /\ (OnTimer \/ OnTaskManager)
  BY <1>4, OnTimerRoom, ClearRoom, CloseUserNoLockRoom, NoPlayersRoom, PlainRoom DEF OnTaskManager
<1>. QED BY <1>1, <1>2, <1>3, <1>4 DEF Step

LEMMA RoomNext ==
  ASSUME RoomInv, [Next]_vars
  PROVE  RoomInv'
<1>1. StackInv /\ Room /\ exited \in BOOLEAN
  BY DEF RoomInv
<1>2. StackInv'
  BY <1>1, StackInvNext
<1>3. CASE Next
  <2>1. PICK t \in Threads : Step(t) /\ exited' = Destroys(t)
    BY <1>3 DEF Next
  <2>2. Room'
    BY <1>1, <2>1, RoomStep
  <2>3. exited' \in BOOLEAN
    BY <2>1, Zenon DEF Destroys
  <2>. QED BY <1>2, <2>2, <2>3 DEF RoomInv
<1>4. CASE UNCHANGED vars
  <2>1. todo' = todo /\ user' = user /\ session' = session /\ forgotten' = forgotten /\ exited' = exited
    BY <1>4 DEF vars
  <2>2. Askers' = Askers /\ Joiners' = Joiners
    BY <2>1 DEF Askers, Joiners
  <2>3. Room' /\ exited' \in BOOLEAN
    BY <1>1, <2>1, <2>2 DEF Room
  <2>. QED BY <1>2, <2>3 DEF RoomInv
<1>. QED BY <1>3, <1>4

LEMMA RoomForAll ==
  ASSUME RoomInv
  PROVE  TypeOK
<1>1. StackInv /\ Room /\ exited \in BOOLEAN
  BY DEF RoomInv
<1>2. closed \in [Conns -> BOOLEAN]
  BY <1>1, StackTypes
<1>3. context \in [Conns -> (1 .. Len(user)) \cup {None}]
  <2>1. \A c \in Conns : context[c] \in (1 .. Len(user)) \cup {None}
    BY <1>1 DEF StackInv, Links
  <2>. QED BY <1>1, <2>1, StackTypes
<1>4. Len(user) <= MaxUsers /\ Len(session) <= Len(user) + Cardinality(Threads) /\ forgotten \subseteq 1 .. Len(user)
  BY <1>1, AskersFinite, StackTypes, LiveServiceAssumption DEF Room
<1>5. \A u \in 1 .. Len(user) :
        user[u] \in [kind : {"play", "publish"}, conn : Conns, session : 1 .. Len(session), destroyed : BOOLEAN]
  <2>. SUFFICES ASSUME NEW u \in 1 .. Len(user)
                PROVE  user[u] \in [kind : {"play", "publish"}, conn : Conns, session : 1 .. Len(session), destroyed : BOOLEAN]
    OBVIOUS
  <2>1. user[u] \in UserRecord /\ user[u].session \in 1 .. Len(session)
    BY <1>1, UserAt
  <2>. QED BY <2>1 DEF UserRecord
<1>6. \A s \in 1 .. Len(session) :
        /\ session[s].publisher \in {u \in 1 .. Len(user) : user[u].kind = "publish"} \cup {None}
        /\ session[s].players \subseteq {u \in 1 .. Len(user) : user[u].kind = "play"}
  BY <1>1, SessionAt
<1>7. current \in (1 .. Len(session)) \cup {None}
  BY <1>1 DEF StackInv, Links
<1>. QED BY <1>1, <1>2, <1>3, <1>4, <1>5, <1>6, <1>7 DEF TypeOK

(* TypeOK: contexts, sessions and the users they name fit each other, and  *)
(* there are no more users and sessions than commands.                     *)
THEOREM UsersFitSessions == Spec => []TypeOK
<1>1. Init => RoomInv
  BY RoomInit
<1>2. RoomInv /\ [Next]_vars => RoomInv'
  BY RoomNext
<1>3. RoomInv => TypeOK
  BY RoomForAll
<1>. QED BY <1>1, <1>2, <1>3, PTL DEF Spec
=============================================================================
