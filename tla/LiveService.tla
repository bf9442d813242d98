----------------------------- MODULE LiveService -----------------------------
(***************************************************************************)
(* LiveService, LiveSession and LiveUser: connections of several event     *)
(* loops publish to and play one stream name, while the thread of the task *)
(* manager closes sessions that have timed out.                            *)
(*                                                                         *)
(* Every thread has a list of the steps it has still to do (its calls); a  *)
(* step that calls another function puts that function's steps in front.   *)
(* So a callback that runs inside forceClose on the loop's own thread runs *)
(* with the locks its callers hold.  Mutexes are not recursive.            *)
(***************************************************************************)
EXTENDS Naturals, Sequences, FiniteSets, SequencesExt

CONSTANTS
  Loops,         (* event loops, each its own thread                       *)
  Timer,         (* the thread of the task manager                         *)
  Conns,         (* connections that RtmpServer has accepted               *)
  LoopOf,        (* the loop of a connection                               *)
  Kinds,         (* the commands a connection may send                     *)
  None,          (* no user, no session                                  *)
  MaxUsers       (* bound: play and publish commands, all together         *)

Threads == Loops \cup {Timer}

ASSUME LiveServiceAssumption ==
  /\ IsFiniteSet(Loops) /\ Timer \notin Loops /\ None \notin Nat
  /\ LoopOf \in [Conns -> Loops]
  /\ Kinds \in [Conns -> SUBSET {"play", "publish"}]
  /\ MaxUsers \in Nat

VARIABLES
  queue,      (* LSSEventLoop::tasks_ : the connections to be closed       *)
  todo,       (* what a thread has still to do                             *)
  closed,     (* LSSTcpConnection::closed_                                 *)
  context,    (* contexts_[kUserContext]                                   *)
  user,       (* the users created so far                                  *)
  session,    (* the sessions created so far: publisher_ and players_      *)
  current,    (* sessions_: the session of the name                        *)
  forgotten,  (* history: publishers that another user's leaving removed   *)
  exited      (* checkInLoopThread has ended the program                   *)

vars == <<queue, todo, closed, context, user, session, current, forgotten, exited>>

(* UserType, of which closeUser compares the numbers *)
UserType == [publish |-> 0, play |-> 7]
PlayerWebRTC == 8
-----------------------------------------------------------------------------
(* The steps of a thread.  A section that calls nothing is one step, which *)
(* waits for its lock; the others begin with a step that takes the lock    *)
(* and end with one that releases it, so that a thread holds the locks it  *)
(* has still to release: <<"service">> is LiveService::lock_, the others   *)
(* are those of a session and of a loop.                                   *)

Idle(t)   == todo[t] = <<>>
At(t, op) == ~Idle(t) /\ Head(todo[t])[1] = op
Arg(t)    == Head(todo[t])[2]

Holds(t, lock) == \E i \in 1 .. Len(todo[t]) : todo[t][i] = <<"release", lock>>
Free(lock)     == \A t \in Threads : ~Holds(t, lock)

(* A release is part of the step before it *)
Released(ops) == IF ops # <<>> /\ Head(ops)[1] = "release" THEN Tail(ops) ELSE ops

(* The step is done, ops come next *)
Then(t, ops) == todo' = [todo EXCEPT ![t] = Released(ops \o Tail(@))]

(* The lock is free and taken, and held until ops are done *)
Holding(t, lock, ops) ==
  /\ Free(lock)
  /\ todo' = [todo EXCEPT ![t] =
       IF ops = <<>> THEN Released(Tail(@)) ELSE ops \o <<<<"release", lock>>>> \o Tail(@)]

(* LiveUser::close, LSSTcpConnection::forceClose: enqueueTask runs it at   *)
(* once on the loop's own thread                                           *)
ForceClose(t, c) == IF LoopOf[c] = t THEN <<<<"onClose", c>>>> ELSE <<<<"push", c>>>>

(* tasks_.push *)
Push(t) ==
  /\ At(t, "push") /\ Free(<<"loop", LoopOf[Arg(t)]>>)
  /\ queue' = [queue EXCEPT ![LoopOf[Arg(t)]] = Append(@, <<"onClose", Arg(t)>>)]
  /\ Then(t, <<>>)
  /\ UNCHANGED <<closed, context, user, session, current, forgotten>>

(* active() of a connection of another loop.  What its task does is in     *)
(* PlayerPump; it takes no lock, and is not kept here.                     *)
Notify(t) ==
  /\ At(t, "notify") /\ Free(<<"loop", Arg(t)>>)
  /\ Then(t, <<>>)
  /\ UNCHANGED <<queue, closed, context, user, session, current, forgotten>>

(* runTask: all tasks, with the loop's lock held *)
RunTask(l) ==
  /\ Idle(l) /\ queue[l] # <<>> /\ Free(<<"loop", l>>)
  /\ todo' = [todo EXCEPT ![l] = <<<<"tasks", l>>, <<"release", <<"loop", l>>>>>>]
  /\ UNCHANGED <<queue, closed, context, user, session, current, forgotten>>

RunFront(l) ==
  /\ At(l, "tasks")
  /\ IF queue[l] = <<>> THEN Then(l, <<>>) /\ UNCHANGED queue
     ELSE /\ Then(l, <<Head(queue[l]), <<"tasks", l>>>>)
          /\ queue' = [queue EXCEPT ![l] = Tail(@)]
  /\ UNCHANGED <<closed, context, user, session, current, forgotten>>
-----------------------------------------------------------------------------
(* What arrives at a connection *)

Open(l, c) == Idle(l) /\ LoopOf[c] = l /\ ~closed[c]

(* onPlay and onPublish, which start with createSession *)
Commands ==
  Len(user) + Cardinality({t \in Threads : \E i \in 1 .. Len(todo[t]) : todo[t][i][1] \in {"create", "join"}})

Command(l, c, kind) ==
  /\ Open(l, c)
  /\ Commands < MaxUsers
  /\ todo' = [todo EXCEPT ![l] = <<<<"create", [kind |-> kind, conn |-> c]>>>>]
  /\ UNCHANGED <<queue, closed, context, user, session, current, forgotten>>

(* onRecv: data before a command closes the connection; else it goes to    *)
(* the user's stream, which activates all players (activeAllPlayers).      *)
Media(l, c) ==
  /\ Open(l, c)
  /\ todo' = [todo EXCEPT ![l] =
       IF context[c] = None THEN ForceClose(l, c)
       ELSE <<<<"activeAll", user[context[c]].session>>>>]
  /\ UNCHANGED <<queue, closed, context, user, session, current, forgotten>>

(* end of file, an error or the idle timeout *)
PeerClose(l, c) ==
  /\ Open(l, c)
  /\ todo' = [todo EXCEPT ![l] = <<<<"onClose", c>>>>]
  /\ UNCHANGED <<queue, closed, context, user, session, current, forgotten>>

ActiveAll(t) ==
  /\ At(t, "activeAll")
  /\ LET others == {LoopOf[user[p].conn] : p \in session[Arg(t)].players} \ {t}
     IN  Holding(t, <<"session", Arg(t)>>, [i \in 1 .. Cardinality(others) |-> <<"notify", SetToSeq(others)[i]>>])
  /\ UNCHANGED <<queue, closed, context, user, session, current, forgotten>>

(* LSSTcpConnection::onClose, TcpServer::onConnectionClose,                *)
(* RtmpServer::onDestroyed and LiveService::onConnectionDestroy.  Only     *)
(* this thread uses the context, so it may be cleared right away.          *)
OnClose(t) ==
  /\ At(t, "onClose")
  /\ LET c == Arg(t) IN
       /\ closed' = [closed EXCEPT ![c] = TRUE]
       /\ context' = [context EXCEPT ![c] = None]
       /\ Then(t, IF closed[c] \/ context[c] = None THEN <<>> ELSE <<<<"closeUser", context[c]>>>>)
  /\ UNCHANGED <<queue, user, session, current, forgotten>>

-----------------------------------------------------------------------------
(* LiveService::createSession, with the service's lock.  The name is valid *)
(* and configured.                                                         *)
CreateSession(t) ==
  /\ At(t, "create") /\ Free(<<"service">>)
  /\ LET cmd == Arg(t)
         s   == IF current # None THEN current ELSE Len(session) + 1
     IN  /\ session' = IF current # None THEN session
                       ELSE Append(session, [publisher |-> None, players |-> {}])
         /\ current' = s
         /\ Then(t, <<<<"join", [kind |-> cmd.kind, conn |-> cmd.conn, session |-> s]>>>>)
  /\ UNCHANGED <<queue, closed, context, user, forgotten>>

(* createPlayerUser and createPublisher, then addPlayer or setPublisher.   *)
(* A second command of a connection replaces its context.                  *)
Join(t) ==
  /\ At(t, "join")
  /\ LET cmd == Arg(t) u == Len(user) + 1 IN
       /\ user' = Append(user, [kind |-> cmd.kind, conn |-> cmd.conn, session |-> cmd.session, destroyed |-> FALSE])
       /\ context' = [context EXCEPT ![cmd.conn] = u]
       /\ Then(t, IF cmd.kind = "play" THEN <<<<"addPlayer", u>>>>
                  ELSE <<<<"setPublisher", u>>>>)
  /\ UNCHANGED <<queue, closed, session, current, forgotten>>

AddAsPublisher(t) ==     (* mutant: the player becomes the publisher *)
  /\ At(t, "addPlayer") /\ Free(<<"session", user[Arg(t)].session>>)
  /\ LET u == Arg(t) IN session' = [session EXCEPT ![user[u].session].publisher = u]
  /\ Then(t, <<>>)
  /\ UNCHANGED <<queue, closed, context, user, current, forgotten>>

AddPlayer(t) ==
  /\ At(t, "addPlayer") /\ Free(<<"session", user[Arg(t)].session>>)
  /\ LET u == Arg(t) IN session' = [session EXCEPT ![user[u].session].players = @ \cup {u}]
  /\ Then(t, <<>>)
  /\ UNCHANGED <<queue, closed, context, user, current, forgotten>>

SetWithoutClose(t) ==    (* mutant: the connection of the old one is not closed *)
  /\ At(t, "setPublisher")
  /\ LET u    == Arg(t)
         old  == session[user[u].session].publisher
     IN  /\ Holding(t, <<"session", user[u].session>>, <<<<"publisher", u>>>>)
         /\ user' = IF old = None THEN user ELSE [user EXCEPT ![old].destroyed = TRUE]
  /\ UNCHANGED <<queue, closed, context, session, current, forgotten>>

SetOnly(t) ==            (* mutant: the old publisher stays *)
  /\ At(t, "setPublisher")
  /\ Holding(t, <<"session", user[Arg(t)].session>>, <<<<"publisher", Arg(t)>>>>)
  /\ UNCHANGED <<queue, closed, context, user, session, current, forgotten>>

(* setPublisher: the publisher that is replaced is closed, by whoever is   *)
(* first to set destroyed_; publisher_ is assigned after that.             *)
SetPublisher(t) ==
  /\ At(t, "setPublisher")
  /\ LET u    == Arg(t)
         old  == session[user[u].session].publisher
         lock == <<"session", user[u].session>>
     IN  IF old = None \/ (old # None /\ user[old].destroyed)
         THEN Holding(t, lock, <<<<"publisher", u>>>>) /\ UNCHANGED user
         ELSE /\ user' = [user EXCEPT ![old].destroyed = TRUE]
              /\ Holding(t, lock, ForceClose(t, user[old].conn) \o <<<<"publisher", u>>>>)
  /\ UNCHANGED <<queue, closed, context, session, current, forgotten>>

AssignPublisher(t) ==
  /\ At(t, "publisher")
  /\ LET u == Arg(t) IN session' = [session EXCEPT ![user[u].session].publisher = u]
  /\ Then(t, <<>>)
  /\ UNCHANGED <<queue, closed, context, user, current, forgotten>>

CloseUserTwice(t) ==     (* mutant: destroyed_ is not tested *)
  /\ At(t, "closeUser")
  /\ LET u == Arg(t) IN
       /\ user' = [user EXCEPT ![u].destroyed = TRUE]
       /\ Then(t, <<<<"closed", u>>>> \o ForceClose(t, user[u].conn))
  /\ UNCHANGED <<queue, closed, context, session, current, forgotten>>

(* closeUser *)
CloseUser(t) ==
  /\ At(t, "closeUser")
  /\ LET u == Arg(t) IN
       /\ user' = [user EXCEPT ![u].destroyed = TRUE]
       /\ Then(t, IF user[u].destroyed THEN <<>>
                  ELSE <<<<"closed", u>>>> \o ForceClose(t, user[u].conn))
  /\ UNCHANGED <<queue, closed, context, session, current, forgotten>>

(* The type of a player is below kUserTypePlayerWebRTC, too, so a player   *)
(* takes the branch of the publishers (live_session.cpp:110): publisher_   *)
(* goes, whoever it is, and players_ keeps the player.                     *)
TakenForPublisher(u) == UserType[user[u].kind] <= PlayerWebRTC

RemoveUser(t) ==
  /\ At(t, "remove") \/ (At(t, "closed") /\ Free(<<"session", user[Arg(t)].session>>))
  /\ LET u == Arg(t) IN
       /\ session' = [session EXCEPT ![user[u].session] =
         IF TakenForPublisher(u) THEN [@ EXCEPT !.publisher = None]
         ELSE [@ EXCEPT !.players = @ \ {u}]]
       /\ forgotten' = forgotten \cup
            IF TakenForPublisher(u) THEN {session[user[u].session].publisher} \ {u, None} ELSE {}
  /\ Then(t, <<>>)
  /\ UNCHANGED <<queue, closed, context, user, current>>
-----------------------------------------------------------------------------
(* LiveService::onTimer finds that the session has timed out, and keeps    *)
(* the service's lock until it has erased it.  Whether it has is open: a   *)
(* stream does after 20 seconds without data, a session without players    *)
(* after the configured time.                                              *)
OnTimer ==
  /\ Idle(Timer) /\ Free(<<"service">>) /\ current # None
  /\ todo' = [todo EXCEPT ![Timer] =
       <<<<"clear", current>>, <<"erase", None>>, <<"release", <<"service">>>>>>]
  /\ UNCHANGED <<queue, closed, context, user, session, current, forgotten>>

(* LiveSession::clear: closeUserNoLock for the publisher, then for each    *)
(* player, then players_.clear().                                          *)
Clear ==
  /\ At(Timer, "clear")
  /\ LET s == session[Arg(Timer)] IN
       Holding(Timer, <<"session", Arg(Timer)>>,
                   (IF s.publisher = None THEN <<>> ELSE <<<<"closeNoLock", s.publisher>>>>)
                   \o [i \in 1 .. Cardinality(s.players) |-> <<"closeNoLock", SetToSeq(s.players)[i]>>]
                   \o <<<<"noPlayers", Arg(Timer)>>>>)
  /\ UNCHANGED <<queue, closed, context, user, session, current, forgotten>>

(* closeUserNoLock.  For a player, taken for a publisher, the connection   *)
(* is closed only if there still is a publisher_.                          *)
CloseUserNoLock ==
  /\ At(Timer, "closeNoLock")
  /\ LET u == Arg(Timer) s == user[u].session IN
       /\ user' = [user EXCEPT ![u].destroyed = TRUE]
       /\ IF user[u].destroyed \/ (TakenForPublisher(u) /\ session[s].publisher = None)
          THEN Then(Timer, <<>>)
          ELSE Then(Timer, ForceClose(Timer, user[u].conn) \o <<<<"remove", u>>>>)
  /\ UNCHANGED <<queue, closed, context, session, current, forgotten>>

NoPlayers ==
  /\ At(Timer, "noPlayers")
  /\ session' = [session EXCEPT ![Arg(Timer)].players = {}]
  /\ Then(Timer, <<>>)
  /\ UNCHANGED <<queue, closed, context, user, current, forgotten>>

Erase ==
  /\ At(Timer, "erase")
  /\ current' = None
  /\ Then(Timer, <<>>)
  /\ UNCHANGED <<queue, closed, context, user, session, forgotten>>
-----------------------------------------------------------------------------
Init ==
  /\ queue = [l \in Loops |-> <<>>]
  /\ todo = [t \in Threads |-> <<>>]
  /\ closed = [c \in Conns |-> FALSE]
  /\ context = [c \in Conns |-> None]
  /\ user = <<>> /\ session = <<>> /\ current = None
  /\ forgotten = {} /\ exited = FALSE

(* What the threads do with what they have begun *)
Continue(t) ==
  \/ Push(t) \/ Notify(t) \/ ActiveAll(t)
  \/ OnClose(t) \/ CloseUser(t) \/ RemoveUser(t)
  \/ CreateSession(t) \/ Join(t) \/ AddPlayer(t) \/ SetPublisher(t) \/ AssignPublisher(t)

OnLoop(l) == RunTask(l) \/ RunFront(l)

OnTaskManager ==
  Clear \/ CloseUserNoLock \/ NoPlayers \/ Erase

Arrives(l, c) ==
  \/ \E kind \in Kinds[c] : Command(l, c, kind)
  \/ Media(l, c) \/ PeerClose(l, c)

(* A user lives in the context of its connection, in its session, and on   *)
(* the stacks of the calls it is passed to; it holds its connection.  The  *)
(* server holds a connection until it is closed.                           *)
Held(u) ==
  \/ \E c \in Conns : context[c] = u
  \/ \E s \in 1 .. Len(session) : u = session[s].publisher \/ u \in session[s].players
  \/ \E t \in Threads : \E i \in 1 .. Len(todo[t]) :
       todo[t][i][1] \in {"closeUser", "closed", "addPlayer", "setPublisher", "publisher", "closeNoLock", "remove"}
         /\ todo[t][i][2] = u

Exists(c) == ~closed[c] \/ \E u \in 1 .. Len(user) : user[u].conn = c /\ Held(u)

(* ~LSSTcpConnection calls onClose and so checkInLoopThread: the thread    *)
(* that lets go of a connection has to be that of its loop.                *)
Destroys(t) == \E c \in Conns : LoopOf[c] # t /\ Exists(c) /\ ~Exists(c)'

Step(t) ==
  \/ Continue(t)
  \/ t \in Loops /\ (OnLoop(t) \/ \E c \in Conns : Arrives(t, c))
  \/ t = Timer /\ (OnTimer \/ OnTaskManager)

Next == ~exited /\ \E t \in Threads : Step(t) /\ exited' = Destroys(t)

Spec == Init /\ [][Next]_vars
-----------------------------------------------------------------------------
(* Properties *)

TypeOK ==
  /\ closed \in [Conns -> BOOLEAN]
  /\ context \in [Conns -> (1 .. Len(user)) \cup {None}]
  /\ Len(user) <= MaxUsers /\ Len(session) <= Len(user) + Cardinality(Threads)
  /\ \A u \in 1 .. Len(user) :
       user[u] \in [kind : {"play", "publish"}, conn : Conns, session : 1 .. Len(session), destroyed : BOOLEAN]
  /\ \A s \in 1 .. Len(session) :
       /\ session[s].publisher \in {u \in 1 .. Len(user) : user[u].kind = "publish"} \cup {None}
       /\ session[s].players \subseteq {u \in 1 .. Len(user) : user[u].kind = "play"}
  /\ current \in (1 .. Len(session)) \cup {None}
  /\ forgotten \subseteq 1 .. Len(user) /\ exited \in BOOLEAN

(* A connection that sent a second play or publish *)
Reused == \E u, v \in 1 .. Len(user) : u # v /\ user[u].conn = user[v].conn

(* The lock that a thread needs for its next step *)
Needs(t) ==
  CASE At(t, "create") -> <<"service">>
    [] At(t, "push") -> <<"loop", LoopOf[Arg(t)]>>
    [] At(t, "notify") -> <<"loop", Arg(t)>>
    [] At(t, "activeAll") \/ At(t, "clear") -> <<"session", Arg(t)>>
    [] At(t, "addPlayer") \/ At(t, "setPublisher") \/ At(t, "closed") -> <<"session", user[Arg(t)].session>>
    [] OTHER -> None

(* As long as every connection sends one command, no threads wait for each *)
(* other and none for itself: service, session and loop locks are taken in *)
(* that order, and what runs inside forceClose or runTask finds its user   *)
(* destroyed and takes none (closeUser, setPublisher, clear, runTask).     *)
NoWaitCycle ==
  Reused \/ \A S \in (SUBSET Threads) \ {{}} : \E t \in S : Needs(t) = None \/ \A w \in S : ~Holds(w, Needs(t))

Pending(op, x) ==
  \E t \in Threads : \E i \in 1 .. Len(todo[t]) : todo[t][i] = <<op, x>>

Closing(c) ==
  \/ Pending("onClose", c) \/ Pending("push", c)
  \/ Contains(queue[LoopOf[c]], <<"onClose", c>>)

(* destroyed_ keeps everybody else from closing a user, so whoever sets it *)
(* sees to it that the connection closes.  Only players of a session that  *)
(* is cleared are left out: they are taken for publishers.                 *)
DestroyedIsClosing ==
  \A u \in 1 .. Len(user) :
    user[u].destroyed =>
      \/ closed[user[u].conn] \/ Closing(user[u].conn)
      \/ user[u].kind = "play" /\ (current # user[u].session \/ Pending("erase", None))

Joining(u) == Pending("setPublisher", u) \/ Pending("publisher", u)

(* A user whose packets the stream of its session takes as those of its    *)
(* publisher *)
Feeding(u) ==
  user[u].kind = "publish" /\ ~user[u].destroyed /\ ~closed[user[u].conn] /\ ~Joining(u)

(* A stream has one publisher: whoever feeds it is publisher_, so that the *)
(* next one replaces it, unless another user that left has made the        *)
(* session forget it (setPublisher, closeUser).                            *)
OneFeeder ==
  \A u \in 1 .. Len(user) :
    Feeding(u) => session[user[u].session].publisher = u \/ u \in forgotten \/ Reused

(* "return it is publishing stream or not" (live_session.h:66, isPublishing) *)
IsPublishing ==
  \A u \in 1 .. Len(user) : Feeding(u) => session[user[u].session].publisher # None


(* "It is forbidden to run loop on other thread." (lssvc_eventloop.cpp:190): *)
(* the check in onClose, which a destructor calls too, never fails.        *)
ChecksPass == ~exited
=============================================================================
