---------------------------- MODULE ContextProof ----------------------------
(***************************************************************************)
(* Proofs about an RTMP context, for every value of the constants.         *)
(*                                                                         *)
(* PlayerPump: whoever is active, holds frames or queues messages has a    *)
(* write or a handler to come back to.                                     *)
(*                                                                         *)
(* RtmpCommands: every byte is counted and reported, the dialogue goes on  *)
(* until the server's handler has been asked, and it is asked once, for    *)
(* what the client wants.  The streams of messages are looked at as    *)
(* sequences (Has, Once, Leads, Lists); Talk relates what is asked for,    *)
(* what is on its way in both directions and what has been called, and     *)
(* most messages leave it as it is (QuietKeeps).                           *)
(***************************************************************************)
EXTENDS PlayerPump, RtmpCommands, SequenceTheorems, TLAPS

(* Only a user in players_ is ever active or has postFrames called *)
OnlyJoined == active \/ tasks > 0 \/ at # "idle" \/ hdrs + held > 0 => joined

(* addPlayer runs in the handler of the play command, which has just sent  *)
(* its control messages                                                    *)
JoinSends == at = "join" => sending

(* deactive() is reached with nothing to send *)
DeactivateEmpty == at = "deactivate" => hdrs + held = 0

(* Frames come from a stream that is ready, and it stays ready *)
HeldMeansReady == hdrs + held > 0 => ready

IInv ==
  /\ TypeOK
  /\ ActiveMeansBusy /\ HeldBehindWrite /\ WaitingBehindSend
  /\ OnlyJoined /\ JoinSends /\ DeactivateEmpty /\ HeldMeansReady

(* The types of the constants, one by one *)
LEMMA PumpConstants ==
  /\ Eager \in Nat /\ Every \in Nat /\ Every > 0 /\ Batch \in Nat /\ Headers \in Nat
  /\ MaxLag \in Nat /\ MaxTasks \in Nat /\ MaxWaiting \in Nat /\ MaxWaiting > 1
  /\ SingleMax \in Nat /\ SingleMax > 0
  BY PlayerPumpAssumption

(* The smaller of two numbers is one of them and at most the other *)
LEMMA LeastLemma ==
  ASSUME NEW a \in Int, NEW b \in Int
  PROVE  /\ Least(a, b) \in Int
         /\ Least(a, b) <= a /\ Least(a, b) <= b
         /\ a >= 0 /\ b >= 0 => Least(a, b) >= 0
  BY DEF Least

(* What getFrames leaves with the player stays within the bounds of the    *)
(* batch, the headers and the window; nothing is held from a stream        *)
(* without a GOP.                                                          *)
LEMMA FetchedLemma ==
  ASSUME TypeOK, NEW f \in Fetched
  PROVE  f.hdrs \in 0 .. Headers /\ f.held \in 0 .. Batch /\ f.lag \in 0 .. MaxLag
<1>1. /\ Batch \in Nat /\ MaxLag \in Nat /\ Headers \in Nat
      /\ lag \in 0 .. MaxLag /\ hdrs \in 0 .. Headers /\ held \in 0 .. Batch
  BY PlayerPumpAssumption DEF TypeOK
<1>2. \A n \in 0 .. MaxLag : Least(n, Batch) \in 0 .. Batch /\ n - Least(n, Batch) \in 0 .. MaxLag
  BY <1>1 DEF Least
<1>3. \/ f = [hdrs |-> hdrs, held |-> held, lag |-> lag]
      \/ \E l \in 0 .. MaxLag, h \in 0 .. Headers : f = Behind(l, h)
  BY <1>1 DEF Fetched
<1>4. CASE f = [hdrs |-> hdrs, held |-> held, lag |-> lag]
  BY <1>1, <1>4
<1>5. ASSUME NEW l \in 0 .. MaxLag, NEW h \in 0 .. Headers, f = Behind(l, h)
      PROVE  f.hdrs \in 0 .. Headers /\ f.held \in 0 .. Batch /\ f.lag \in 0 .. MaxLag
  BY <1>2, <1>5 DEF Behind
<1>. QED BY <1>3, <1>4, <1>5

LEMMA InitInv == Init => IInv
<1>. SUFFICES ASSUME Init PROVE IInv
  OBVIOUS
<1>1. hdrs \in 0 .. Headers /\ held \in 0 .. Batch /\ tasks \in 0 .. MaxTasks
  BY PumpConstants DEF Init
<1>2. lag \in 0 .. MaxLag /\ waiting \in 0 .. MaxWaiting
  BY PumpConstants DEF Init
<1>3. /\ sameLoop \in BOOLEAN /\ ready \in BOOLEAN /\ gop \in BOOLEAN /\ joined \in BOOLEAN /\ active \in BOOLEAN
      /\ sending \in BOOLEAN /\ inbox \in BOOLEAN /\ edge \in BOOLEAN /\ full \in BOOLEAN
      /\ located \in BOOLEAN /\ refused \in BOOLEAN
  BY Zenon DEF Init
<1>4. beat \in 0 .. 1 /\ served \in 0 .. 1 /\ frameIndex \in 0 .. Eager + Every - 1
  BY DEF Init
<1>5. pub \in {"idle", "activate"} /\ at \in {"idle", "join", "post", "deactivate"}
  BY DEF Init
<1>6. TypeOK
  BY <1>1, <1>2, <1>3, <1>4, <1>5 DEF TypeOK
<1>. QED
  BY <1>6 DEF Init, IInv, ActiveMeansBusy, HeldBehindWrite, WaitingBehindSend, OnlyJoined,
              JoinSends, DeactivateEmpty, HeldMeansReady

(* The parts of the invariant that are about the handlers *)
Served == /\ ActiveMeansBusy /\ HeldBehindWrite /\ WaitingBehindSend
          /\ OnlyJoined /\ JoinSends /\ DeactivateEmpty /\ HeldMeansReady

LEMMA PublisherInv ==
  ASSUME IInv,
         (\E r, g \in BOOLEAN : (g => r) /\ AddPacket(r, g)) \/ ActivatePlayer
  PROVE  IInv'
<1>2. ASSUME NEW r \in BOOLEAN, NEW g \in BOOLEAN, AddPacket(r, g)
      PROVE  IInv'
  <2>1. frameIndex' \in 0 .. Eager + Every - 1
    BY PumpConstants, <1>2 DEF IInv, TypeOK, AddPacket, Following
  <2>2. lag' \in 0 .. MaxLag
    BY PumpConstants, <1>2 DEF IInv, TypeOK, AddPacket, Least
  <2>3. TypeOK'
    BY <2>1, <2>2, <1>2 DEF IInv, TypeOK, AddPacket, wireVars, userVars
  <2>4. Served'
    BY <1>2 DEF IInv, Served, AddPacket, wireVars, userVars, ActiveMeansBusy, HeldBehindWrite,
                WaitingBehindSend, OnlyJoined, JoinSends, DeactivateEmpty, HeldMeansReady
  <2>. QED BY <2>3, <2>4 DEF IInv, Served
<1>3. ASSUME ActivatePlayer
      PROVE  IInv'
  <2>0. tasks' \in 0 .. MaxTasks /\ active' \in BOOLEAN /\ at' \in {"idle", "join", "post", "deactivate"}
    <3>1. CASE joined /\ ~active /\ sameLoop
      BY <1>3, <3>1 DEF IInv, TypeOK, ActivatePlayer
    <3>2. CASE joined /\ ~active /\ ~sameLoop
      BY PumpConstants, <1>3, <3>2 DEF IInv, TypeOK, ActivatePlayer
    <3>3. CASE ~(joined /\ ~active)
      BY <1>3, <3>3 DEF IInv, TypeOK, ActivatePlayer
    <3>. QED BY <3>1, <3>2, <3>3
  <2>1. TypeOK'
    BY <2>0, <1>3 DEF IInv, TypeOK, ActivatePlayer, wireVars, userVars
  <2>2. Served'
    BY <1>3 DEF IInv, TypeOK, Served, ActivatePlayer, wireVars, userVars, ActiveMeansBusy,
                HeldBehindWrite, WaitingBehindSend, OnlyJoined, JoinSends, DeactivateEmpty,
                HeldMeansReady
  <2>. QED BY <2>1, <2>2 DEF IInv, Served
<1>. QED BY <1>2, <1>3

LEMMA SocketInv ==
  ASSUME IInv, Arrive \/ OnRead \/ WriteSome \/ Drain \/ WriteDone
  PROVE  IInv'
<1>2. waiting \in 0 .. MaxWaiting
  BY DEF IInv, TypeOK
<1>3. CASE Arrive
  <2>1. TypeOK'
    BY <1>3 DEF IInv, TypeOK, Arrive, streamVars, userVars
  <2>2. Served'
    BY <1>3 DEF IInv, Served, Arrive, streamVars, userVars, ActiveMeansBusy, HeldBehindWrite,
                WaitingBehindSend, OnlyJoined, JoinSends, DeactivateEmpty, HeldMeansReady
  <2>. QED BY <2>1, <2>2 DEF IInv, Served
<1>4. CASE Play
  <2>1. waiting' \in 0 .. MaxWaiting
    BY PumpConstants, <1>2, <1>4 DEF Play
  <2>2. TypeOK'
    BY <2>1, <1>4 DEF IInv, TypeOK, Play, Reading, streamVars, userVars
  <2>3. Served'
    BY <1>4 DEF IInv, Served, Play, Reading, streamVars, userVars, ActiveMeansBusy,
                HeldBehindWrite, WaitingBehindSend, OnlyJoined, JoinSends, DeactivateEmpty,
                HeldMeansReady
  <2>. QED BY <2>2, <2>3 DEF IInv, Served
<1>5. CASE Control
  <2>1. waiting' \in 0 .. MaxWaiting
    <3>1. CASE sending
      BY PumpConstants, <1>2, <1>5, <3>1 DEF Control, SendControl
    <3>2. CASE ~sending
      <4>1. waiting + 1 \in Int /\ waiting + 1 <= MaxWaiting /\ waiting + 1 >= 0
        BY PumpConstants, <1>2, <1>5 DEF Control
      <4>2. SendControl(waiting + 1)
        BY <1>5 DEF Control
      <4>. DEFINE n == waiting + 1
      <4>3. waiting' = n - Least(n, SingleMax)
        BY <3>2, <4>2 DEF SendControl
      <4>. QED BY PumpConstants, <4>1, <4>3 DEF Least
    <3>. QED BY <3>1, <3>2
  <2>2. TypeOK'
    BY <2>1, <1>5 DEF IInv, TypeOK, Control, SendControl, Reading, streamVars, userVars
  <2>3. Served'
    BY <1>5 DEF IInv, Served, Control, SendControl, Reading, streamVars, userVars,
                ActiveMeansBusy, HeldBehindWrite, WaitingBehindSend, OnlyJoined, JoinSends,
                DeactivateEmpty, HeldMeansReady
  <2>. QED BY <2>2, <2>3 DEF IInv, Served
<1>6. CASE Acknowledge
  <2>1. TypeOK'
    BY ZenonT(30), <1>6 DEF IInv, TypeOK, Acknowledge, Reading, streamVars, userVars
  <2>2. Served'
    BY <1>6 DEF IInv, Served, Acknowledge, Reading, streamVars, userVars, ActiveMeansBusy,
                HeldBehindWrite, WaitingBehindSend, OnlyJoined, JoinSends, DeactivateEmpty,
                HeldMeansReady
  <2>. QED BY <2>1, <2>2 DEF IInv, Served
<1>7. CASE WriteSome
  <2>1. TypeOK'
    BY <1>7, ZenonT(60) DEF IInv, TypeOK, WriteSome, streamVars, userVars
  <2>2. Served'
    BY <1>7 DEF IInv, Served, WriteSome, streamVars, userVars, ActiveMeansBusy,
                HeldBehindWrite, WaitingBehindSend, OnlyJoined, JoinSends, DeactivateEmpty,
                HeldMeansReady
  <2>. QED BY <2>1, <2>2 DEF IInv, Served
<1>8. CASE Drain
  <2>1. TypeOK'
    BY <1>8, ZenonT(60) DEF IInv, TypeOK, Drain, streamVars, userVars
  <2>2. Served'
    BY <1>8 DEF IInv, Served, Drain, streamVars, userVars, ActiveMeansBusy, HeldBehindWrite,
                WaitingBehindSend, OnlyJoined, JoinSends, DeactivateEmpty, HeldMeansReady
  <2>. QED BY <2>1, <2>2 DEF IInv, Served
<1>9. CASE WriteDone
  <2>1. waiting' \in 0 .. MaxWaiting /\ (waiting = 0 => waiting' = 0)
    BY PumpConstants, <1>2, <1>9 DEF WriteDone, Least
  <2>2. at' \in {"idle", "post"}
    BY <1>9 DEF WriteDone
  <2>3. TypeOK'
    BY <2>1, <2>2, <1>9 DEF IInv, TypeOK, WriteDone, streamVars, userVars
  <2>4. /\ sending /\ at = "idle"
        /\ sending' = (waiting > 0)
        /\ at' = IF waiting = 0 /\ joined THEN "post" ELSE "idle"
        /\ UNCHANGED <<active, tasks, joined, refused, hdrs, held, ready>>
    BY <1>9 DEF WriteDone, Writing, streamVars, userVars
  <2>5. OnlyJoined' /\ JoinSends' /\ DeactivateEmpty' /\ HeldMeansReady'
    BY <2>4 DEF IInv, OnlyJoined, JoinSends, DeactivateEmpty, HeldMeansReady
  <2>6. ASSUME waiting > 0
        PROVE  ActiveMeansBusy' /\ HeldBehindWrite' /\ WaitingBehindSend'
    <3>1. sending'
      BY <2>4, <2>6
    <3>. QED BY <3>1 DEF ActiveMeansBusy, HeldBehindWrite, WaitingBehindSend
  <2>7. ASSUME waiting = 0
        PROVE  ActiveMeansBusy' /\ HeldBehindWrite' /\ WaitingBehindSend'
    <3>1. WaitingBehindSend'
      BY <2>1, <2>7 DEF WaitingBehindSend
    <3>2. active \/ hdrs + held > 0 => at' = "post"
      BY <2>4, <2>7 DEF IInv, OnlyJoined
    <3>. QED BY <2>4, <3>1, <3>2 DEF ActiveMeansBusy, HeldBehindWrite
  <2>. QED BY <1>2, <2>3, <2>5, <2>6, <2>7 DEF IInv
<1>. QED BY <1>3, <1>4, <1>5, <1>6, <1>7, <1>8, <1>9 DEF OnRead

LEMMA PlayerInv ==
  ASSUME IInv,
         \/ JoinActive \/ RunTask \/ NotReady \/ Deactivate
         \/ \E f \in Fetched : Post(f)
  PROVE  IInv'
<1>1. CASE JoinActive
  <2>1. TypeOK'
    BY <1>1 DEF IInv, TypeOK, JoinActive, streamVars, wireVars, userVars
  <2>2. Served'
    BY <1>1 DEF IInv, Served, JoinActive, streamVars, wireVars, userVars, ActiveMeansBusy,
                HeldBehindWrite, WaitingBehindSend, OnlyJoined, JoinSends, DeactivateEmpty,
                HeldMeansReady
  <2>. QED BY <2>1, <2>2 DEF IInv, Served
<1>2. CASE RunTask
  <2>1. TypeOK'
    BY PumpConstants, <1>2 DEF IInv, TypeOK, RunTask, streamVars, wireVars, userVars
  <2>2. Served'
    BY <1>2 DEF IInv, Served, RunTask, streamVars, wireVars, userVars, ActiveMeansBusy,
                HeldBehindWrite, WaitingBehindSend, OnlyJoined, JoinSends, DeactivateEmpty,
                HeldMeansReady
  <2>. QED BY <2>1, <2>2 DEF IInv, Served
<1>3. CASE NotReady
  <2>1. TypeOK'
    BY <1>3 DEF IInv, TypeOK, NotReady, streamVars, wireVars, userVars
  <2>2. Served'
    BY <1>3 DEF IInv, Served, NotReady, streamVars, wireVars, userVars, ActiveMeansBusy,
                HeldBehindWrite, WaitingBehindSend, OnlyJoined, JoinSends, DeactivateEmpty,
                HeldMeansReady
  <2>. QED BY <2>1, <2>2 DEF IInv, Served
<1>4. CASE Deactivate
  <2>1. TypeOK'
    BY ZenonT(30), <1>4 DEF IInv, TypeOK, Deactivate, streamVars, wireVars, userVars
  <2>2. Served'
    BY <1>4 DEF IInv, Served, Deactivate, streamVars, wireVars, userVars, ActiveMeansBusy,
                HeldBehindWrite, WaitingBehindSend, OnlyJoined, JoinSends, DeactivateEmpty,
                HeldMeansReady
  <2>. QED BY <2>1, <2>2 DEF IInv, Served
<1>5. ASSUME NEW f \in Fetched, Post(f)
      PROVE  IInv'
  <2>. DEFINE sent == f.hdrs + f.held > 0 /\ ~sending
  <2>1. /\ f.hdrs \in 0 .. Headers /\ f.held \in 0 .. Batch /\ f.lag \in 0 .. MaxLag
        /\ Headers \in Nat /\ Batch \in Nat
    BY FetchedLemma, PumpConstants DEF IInv
  <2>2. /\ at = "post" /\ ready
        /\ located' = (located \/ gop)
        /\ lag' = f.lag
        /\ refused' = FALSE
        /\ hdrs' = IF sent /\ f.hdrs > 0 THEN f.hdrs - 1 ELSE f.hdrs
        /\ held' = IF sent /\ f.hdrs = 0 THEN 0 ELSE f.held
        /\ served' = IF sent /\ f.hdrs = 0 THEN 1 - served ELSE served
        /\ sending' = (sending \/ sent)
        /\ edge' = (edge \/ sent)
        /\ at' = IF f.hdrs + f.held = 0 THEN "deactivate" ELSE "idle"
        /\ UNCHANGED <<streamVars, joined, active, tasks, inbox, waiting, full>>
    BY <1>5 DEF Post
  <2>3. hdrs' \in 0 .. Headers /\ held' \in 0 .. Batch /\ served' \in 0 .. 1
    BY <2>1, <2>2 DEF IInv, TypeOK
  <2>4. sending' \in BOOLEAN /\ edge' \in BOOLEAN /\ located' \in BOOLEAN
    BY Zenon, <2>2
  <2>5. TypeOK'
    BY <2>1, <2>2, <2>3, <2>4 DEF IInv, TypeOK, streamVars
  <2>6. OnlyJoined' /\ JoinSends' /\ HeldMeansReady'
    BY <2>2 DEF IInv, streamVars, OnlyJoined, JoinSends, HeldMeansReady
  <2>7. CASE f.hdrs + f.held = 0
    <3>1. ~sent /\ f.hdrs = 0 /\ f.held = 0
      BY <2>1, <2>7
    <3>2. hdrs' = 0 /\ held' = 0 /\ at' = "deactivate" /\ (sending' <=> sending)
      BY <3>1, <2>2, <2>7
    <3>. QED
      BY <3>2, <2>2, <2>5, <2>6 DEF IInv, ActiveMeansBusy, HeldBehindWrite, WaitingBehindSend,
                                    DeactivateEmpty
  <2>8. CASE f.hdrs + f.held > 0
    <3>1. sent \/ sending
      BY <2>8
    <3>2. sending'
      BY <3>1, <2>2, Zenon
    <3>. QED
      BY <3>2, <2>1, <2>2, <2>5, <2>6, <2>8 DEF IInv, ActiveMeansBusy, HeldBehindWrite,
                                    WaitingBehindSend, DeactivateEmpty
  <2>. QED BY <2>1, <2>7, <2>8
<1>. QED BY <1>1, <1>2, <1>3, <1>4, <1>5

LEMMA NextInv == IInv /\ [Next]_vars => IInv'
<1>. SUFFICES ASSUME IInv, [Next]_vars PROVE IInv'
  OBVIOUS
<1>1. CASE (\E r, g \in BOOLEAN : (g => r) /\ AddPacket(r, g)) \/ ActivatePlayer
  BY <1>1, PublisherInv
<1>2. CASE Arrive \/ OnRead \/ WriteSome \/ Drain \/ WriteDone
  BY <1>2, SocketInv
<1>3. CASE \/ JoinActive \/ RunTask \/ NotReady \/ Deactivate
           \/ \E f \in Fetched : Post(f)
  BY <1>3, PlayerInv
<1>4. CASE UNCHANGED vars
  BY <1>4 DEF vars, streamVars, wireVars, userVars, IInv, TypeOK, ActiveMeansBusy,
              HeldBehindWrite, WaitingBehindSend, OnlyJoined, JoinSends, DeactivateEmpty,
              HeldMeansReady
<1>. QED BY <1>1, <1>2, <1>3, <1>4 DEF Next

LEMMA SpecInv == Spec => []IInv
  BY InitInv, NextInv, PTL DEF Spec

(* active(), postFrames, the send queue and the socket keep their types    *)
(* and bounds.                                                             *)
THEOREM PumpTypeTheorem == Spec => []TypeOK
  BY SpecInv, PTL DEF IInv

(* active_ is never left on without a write or a handler that will call    *)
(* postFrames, but for the return in rtmp_playeruser.cpp:17-20.            *)
THEOREM ActiveTheorem == Spec => []ActiveMeansBusy
  BY SpecInv, PTL DEF IInv

(* What postFrames holds back and what waits in out_waiting_queue_ has a   *)
(* write in progress: nothing is left with nothing to come back for it.    *)
THEOREM StrandedTheorem == Spec => []NothingStranded
<1>1. IInv => NothingStranded
  BY DEF IInv, NothingStranded
<1>. QED BY <1>1, SpecInv, PTL
-----------------------------------------------------------------------------
(* What the variables of RtmpCommands hold *)
Windows  == OtherWindows \cup {Window}
HostSet  == {u.host : u \in Urls} \cup {""}
PortSet  == {u.port : u \in Urls} \cup {""}
NameSet  == {s.name : s \in Streams} \cup {""}
ParamSet == {s.param : s \in Streams} \cup {""}
Parts    == (UNION {ToSet(u.path) : u \in Urls}) \cup NameSet
Url      == [host : HostSet, port : PortSet, path : Seq(Parts)]
Name     == [name : NameSet, param : ParamSet]
Sessions == {<<>>} \cup (HostSet \X Seq(Parts) \X NameSet)
Context  == [app : Seq(Parts), url : Url, name : Name, param : ParamSet, session : Sessions, player : BOOLEAN]
Calls    == {<<"onRecv">>, <<"onPublishPrepare">>} \cup ({"onPlay", "onPublish"} \X Sessions)

Asks     == {"connect", "createStream", "play", "publish"}
Plays    == {"play", "publish"}
Results  == {"accepted", "created"}
Verdicts == {"accepted", "created", "error"}

Message(kinds) == [is : kinds, id : Nat, app : Seq(Parts), url : Url, name : Name]

IdOK(m) ==
  /\ m.is = "chunkSize" => m.id = 4096
  /\ m.is = "ackSize" => m.id \in Windows
  /\ m.is \in {"connect", "accepted"} => m.id = 1

ServerKinds == Asks \cup {"chunkSize", "ackSize", "media", "ping", "unknown", "bytesRead", "streamBegin"}
ClientKinds == Verdicts \cup {"chunkSize", "ackSize", "bandwidth", "onStatus", "streamBegin", "bytesRead",
                              "media", "ping"}
Kinds2 == ServerKinds \cup ClientKinds
Letters == {m \in Message(Kinds2) : IdOK(m)}
Letter(e, m) == m \in Letters /\ m.is \in (IF e = "server" THEN ServerKinds ELSE ClientKinds)

ChunkSizes == {128, 4096}

Carried ==
  /\ stream \in [Ends -> Seq(Letters)]
  /\ \A e \in Ends : \A i \in 1 .. Len(stream[e]) : Letter(e, stream[e][i])
Counters ==
  /\ buffered \in [Ends -> Nat] /\ lastLeft \in [Ends -> Nat] /\ inBytes \in [Ends -> Nat]
  /\ total \in [Ends -> [read : Nat, reported : Nat, window : Nat]]
Here ==
  /\ ackSize \in [Ends -> Windows] /\ inChunkSize \in [Ends -> ChunkSizes]
  /\ ctx \in [Ends -> Context] /\ calls \in [Ends -> Seq(Calls)] /\ closed \in [Ends -> BOOLEAN]
  /\ requests \in Seq(Nat) /\ results \in Seq(Nat)
Dialogue ==
  /\ kind \in Kinds
  /\ asked \in {<<>>} \cup ({"onPlay", "onPublish"} \X Urls \X Streams)
  /\ said \in Seq({"request", "ping", "unknown", "bytesRead", "media", "ackSize", "bandwidth"})
  /\ asked = <<>> => stream["server"] = <<>> /\ stream["client"] = <<>>

Types == Carried /\ Counters /\ Here /\ Dialogue
-----------------------------------------------------------------------------
(* Sequences of messages *)

(* \o, opaque *)
Cat(s, t) == s \o t

(* Some, or at most one, element is of one of the kinds *)
Has(s, kinds)  == \E i \in 1 .. Len(s) : s[i].is \in kinds
Once(s, kinds) == \A i, j \in 1 .. Len(s) : s[i].is \in kinds /\ s[j].is \in kinds => i = j

(* Before one of the kinds comes one of the first *)
Leads(s, first, kinds) ==
  \A i \in 1 .. Len(s) : s[i].is \in kinds => \E j \in 1 .. i - 1 : s[j].is \in first

(* p are the ids of the elements of these kinds, in order *)
Places(p, s, kinds, spot) ==
  /\ spot \in [1 .. Len(p) -> 1 .. Len(s)]
  /\ \A k, l \in 1 .. Len(p) : k < l => spot[k] < spot[l]
  /\ \A k \in 1 .. Len(p) : s[spot[k]].is \in kinds /\ s[spot[k]].id = p[k]
  /\ \A i \in 1 .. Len(s) : s[i].is \in kinds => \E k \in 1 .. Len(p) : spot[k] = i
Lists(p, s, kinds) == \E spot : Places(p, s, kinds, spot)

LEMMA TailFacts ==
  ASSUME NEW T, NEW s \in Seq(T), s # <<>>
  PROVE  /\ Tail(s) \in Seq(T) /\ Len(Tail(s)) = Len(s) - 1 /\ Len(s) \in Nat /\ Len(s) >= 1
         /\ Head(s) = s[1] /\ Head(s) \in T
         /\ \A i \in 1 .. Len(Tail(s)) : Tail(s)[i] = s[i + 1]
BY HeadTailProperties, EmptySeq, LenProperties

LEMMA CatFacts ==
  ASSUME NEW T, NEW s \in Seq(T), NEW t \in Seq(T)
  PROVE  /\ Cat(s, t) \in Seq(T) /\ Len(Cat(s, t)) = Len(s) + Len(t) /\ Len(s) \in Nat /\ Len(t) \in Nat
         /\ \A i \in 1 .. Len(s) : Cat(s, t)[i] = s[i]
         /\ \A i \in 1 .. Len(t) : Cat(s, t)[Len(s) + i] = t[i]
         /\ \A i \in 1 .. Len(Cat(s, t)) :
              \/ i \in 1 .. Len(s) /\ Cat(s, t)[i] = s[i]
              \/ i - Len(s) \in 1 .. Len(t) /\ Cat(s, t)[i] = t[i - Len(s)]
BY ConcatProperties, LenProperties DEF Cat

LEMMA CatAssoc ==
  ASSUME NEW T, NEW s \in Seq(T), NEW t \in Seq(T), NEW u \in Seq(T)
  PROVE  Cat(s, Cat(t, u)) = Cat(Cat(s, t), u)
BY SMTT(20), ConcatAssociative DEF Cat

LEMMA CatEmpty ==
  ASSUME NEW T, NEW s \in Seq(T)
  PROVE  Cat(s, <<>>) = s /\ Cat(<<>>, s) = s
BY ConcatEmptySeq DEF Cat

LEMMA OneFacts ==
  ASSUME NEW T, NEW m \in T
  PROVE  <<m>> \in Seq(T) /\ Len(<<m>>) = 1 /\ <<m>>[1] = m /\ <<m>> # <<>>
OBVIOUS

LEMMA HasTail ==
  ASSUME NEW T, NEW s \in Seq(T), s # <<>>, NEW kinds
  PROVE  /\ Has(Tail(s), kinds) => Has(s, kinds)
         /\ Head(s).is \notin kinds => (Has(Tail(s), kinds) <=> Has(s, kinds))
         /\ Head(s).is \in kinds => Has(s, kinds)
         /\ Once(s, kinds) => Once(Tail(s), kinds)
         /\ Once(s, kinds) /\ Head(s).is \in kinds => ~Has(Tail(s), kinds)
<1>1. /\ Len(Tail(s)) = Len(s) - 1 /\ Len(s) \in Nat /\ Len(s) >= 1 /\ Head(s) = s[1]
      /\ \A i \in 1 .. Len(Tail(s)) : Tail(s)[i] = s[i + 1] /\ i + 1 \in 1 .. Len(s)
  BY TailFacts
<1>2. \A i \in 1 .. Len(s) : i = 1 \/ (i - 1 \in 1 .. Len(Tail(s)) /\ s[i] = Tail(s)[i - 1])
  BY <1>1
<1>. QED BY <1>1, <1>2 DEF Has, Once

LEMMA HasCat ==
  ASSUME NEW T, NEW s \in Seq(T), NEW t \in Seq(T), NEW kinds
  PROVE  /\ Has(Cat(s, t), kinds) <=> Has(s, kinds) \/ Has(t, kinds)
         /\ Once(s, kinds) /\ ~Has(t, kinds) => Once(Cat(s, t), kinds)
         /\ Once(t, kinds) /\ ~Has(s, kinds) => Once(Cat(s, t), kinds)
<1>0. /\ Len(Cat(s, t)) = Len(s) + Len(t) /\ Len(s) \in Nat /\ Len(t) \in Nat
      /\ \A i \in 1 .. Len(s) : Cat(s, t)[i] = s[i]
      /\ \A i \in 1 .. Len(t) : Cat(s, t)[Len(s) + i] = t[i]
  BY ConcatProperties, LenProperties DEF Cat
<1>1. /\ Len(Cat(s, t)) = Len(s) + Len(t) /\ Len(s) \in Nat /\ Len(t) \in Nat
      /\ \A i \in 1 .. Len(s) : Cat(s, t)[i] = s[i] /\ i \in 1 .. Len(Cat(s, t))
      /\ \A i \in 1 .. Len(t) : Cat(s, t)[Len(s) + i] = t[i] /\ Len(s) + i \in 1 .. Len(Cat(s, t))
  BY <1>0
<1>2. \A i \in 1 .. Len(Cat(s, t)) :
        \/ i \in 1 .. Len(s) /\ Cat(s, t)[i] = s[i]
        \/ i - Len(s) \in 1 .. Len(t) /\ Cat(s, t)[i] = t[i - Len(s)]
  BY CatFacts
<1>3. Has(Cat(s, t), kinds) <=> Has(s, kinds) \/ Has(t, kinds)
  BY <1>1, <1>2 DEF Has
<1>4. Once(s, kinds) /\ ~Has(t, kinds) => Once(Cat(s, t), kinds)
  BY <1>1, <1>2 DEF Has, Once
<1>5. ASSUME Once(t, kinds), ~Has(s, kinds) PROVE Once(Cat(s, t), kinds)
  <2>1. SUFFICES ASSUME NEW i \in 1 .. Len(Cat(s, t)), NEW j \in 1 .. Len(Cat(s, t)),
                        Cat(s, t)[i].is \in kinds, Cat(s, t)[j].is \in kinds
                 PROVE  i = j
    BY DEF Once
  <2>2. i - Len(s) \in 1 .. Len(t) /\ t[i - Len(s)].is \in kinds
    BY <1>2, <1>5, <2>1 DEF Has
  <2>3. j - Len(s) \in 1 .. Len(t) /\ t[j - Len(s)].is \in kinds
    BY <1>2, <1>5, <2>1 DEF Has
  <2>4. i - Len(s) = j - Len(s)
    BY <1>5, <2>2, <2>3 DEF Once
  <2>. QED BY <1>1, <2>1, <2>4
<1>. QED BY <1>3, <1>4, <1>5

LEMMA HasOne ==
  ASSUME NEW m, NEW kinds
  PROVE  (Has(<<m>>, kinds) <=> m.is \in kinds) /\ Once(<<m>>, kinds)
BY DEF Has, Once

LEMMA HasNone ==
  ASSUME NEW kinds
  PROVE  ~Has(<<>>, kinds) /\ Once(<<>>, kinds)
BY DEF Has, Once

LEMMA LeadsTail ==
  ASSUME NEW T, NEW s \in Seq(T), s # <<>>, NEW first, NEW kinds, Leads(s, first, kinds)
  PROVE  /\ Head(s).is \notin first => Leads(Tail(s), first, kinds)
         /\ Head(s).is \in kinds => FALSE
<1>1. /\ Len(Tail(s)) = Len(s) - 1 /\ Len(s) \in Nat /\ Len(s) >= 1 /\ Head(s) = s[1]
      /\ \A i \in 1 .. Len(Tail(s)) : Tail(s)[i] = s[i + 1] /\ i + 1 \in 1 .. Len(s)
  BY TailFacts
<1>2. Head(s).is \notin kinds
  BY <1>1 DEF Leads
<1>3. ASSUME Head(s).is \notin first, NEW i \in 1 .. Len(Tail(s)), Tail(s)[i].is \in kinds
      PROVE  \E j \in 1 .. i - 1 : Tail(s)[j].is \in first
  <2>1. PICK j \in 1 .. (i + 1) - 1 : s[j].is \in first
    BY <1>1, <1>3 DEF Leads
  <2>2. j # 1 /\ j - 1 \in 1 .. i - 1 /\ j - 1 \in 1 .. Len(Tail(s)) /\ Tail(s)[j - 1] = s[(j - 1) + 1]
    BY <1>1, <1>3, <2>1
  <2>. QED BY <2>1, <2>2
<1>. QED BY <1>2, <1>3 DEF Leads

LEMMA LeadsCat ==
  ASSUME NEW T, NEW s \in Seq(T), NEW t \in Seq(T), NEW first, NEW kinds,
         Leads(s, first, kinds), Has(s, first) \/ Leads(t, first, kinds)
  PROVE  Leads(Cat(s, t), first, kinds)
<1>0. /\ Len(Cat(s, t)) = Len(s) + Len(t) /\ Len(s) \in Nat /\ Len(t) \in Nat
      /\ \A i \in 1 .. Len(s) : Cat(s, t)[i] = s[i]
      /\ \A i \in 1 .. Len(t) : Cat(s, t)[Len(s) + i] = t[i]
  BY ConcatProperties, LenProperties DEF Cat
<1>1. /\ Len(Cat(s, t)) = Len(s) + Len(t) /\ Len(s) \in Nat /\ Len(t) \in Nat
      /\ \A i \in 1 .. Len(s) : Cat(s, t)[i] = s[i] /\ i \in 1 .. Len(Cat(s, t))
      /\ \A i \in 1 .. Len(t) : Cat(s, t)[Len(s) + i] = t[i] /\ Len(s) + i \in 1 .. Len(Cat(s, t))
  BY <1>0
<1>2. ASSUME NEW i \in 1 .. Len(Cat(s, t)), Cat(s, t)[i].is \in kinds
      PROVE  \E j \in 1 .. i - 1 : Cat(s, t)[j].is \in first
  <2>1. CASE i \in 1 .. Len(s)
    BY SMTT(20), <1>1, <1>2, <2>1 DEF Leads
  <2>2. CASE i \notin 1 .. Len(s)
    <3>0. i - Len(s) \in 1 .. Len(t) /\ Cat(s, t)[i] = t[i - Len(s)]
      BY <1>2, <2>2, CatFacts
    <3>1. i > Len(s) /\ i - Len(s) \in 1 .. Len(t) /\ t[i - Len(s)].is \in kinds
      BY <1>1, <1>2, <2>2, <3>0
    <3>2. CASE Has(s, first)
      <4>1. PICK j \in 1 .. Len(s) : s[j].is \in first
        BY <3>2 DEF Has
      <4>. QED BY <1>1, <3>1, <4>1
    <3>3. CASE Leads(t, first, kinds)
      <4>1. PICK j \in 1 .. (i - Len(s)) - 1 : t[j].is \in first
        BY <3>1, <3>3 DEF Leads
      <4>2. Len(s) + j \in 1 .. i - 1 /\ Cat(s, t)[Len(s) + j] = t[j]
        BY <1>1, <3>1, <4>1
      <4>. QED BY <4>1, <4>2
    <3>. QED BY <3>2, <3>3
  <2>. QED BY <2>1, <2>2
<1>. QED BY <1>2 DEF Leads

LEMMA ListsOnce ==
  ASSUME NEW p \in Seq(Nat), NEW s, NEW kinds, Lists(p, s, kinds)
  PROVE  /\ ~Has(s, kinds) => p = <<>>
         /\ p = <<>> => ~Has(s, kinds)
         /\ Once(s, kinds) /\ p # <<>> => Len(p) = 1
<1>1. PICK spot : Places(p, s, kinds, spot)
  BY DEF Lists
<1>2. Len(p) \in Nat /\ (p = <<>> <=> Len(p) = 0)
  BY EmptySeq, LenProperties
<1>3. ASSUME ~Has(s, kinds) PROVE p = <<>>
  <2>1. SUFFICES ASSUME Len(p) # 0 PROVE FALSE
    BY <1>2
  <2>2. 1 \in 1 .. Len(p)
    BY <1>2, <2>1
  <2>. QED BY <1>1, <1>3, <2>2 DEF Places, Has
<1>4. ASSUME Once(s, kinds), p # <<>> PROVE Len(p) = 1
  <2>3. PICK n : n = Len(p)
    OBVIOUS
  <2>4. n \in Nat /\ n # 0
    BY <1>2, <1>4, <2>3
  <2>. SUFFICES ASSUME n > 1 PROVE FALSE
    BY <2>3, <2>4
  <2>1. 1 \in 1 .. Len(p) /\ 2 \in 1 .. Len(p)
    BY <2>3, <2>4
  <2>2. spot[1] \in 1 .. Len(s) /\ spot[2] \in 1 .. Len(s) /\ spot[1] < spot[2]
        /\ s[spot[1]].is \in kinds /\ s[spot[2]].is \in kinds
    BY SMTT(20), <1>1, <2>1 DEF Places
  <2>5. spot[1] = spot[2]
    BY <1>4, <2>2 DEF Once
  <2>. QED BY <2>2, <2>5
<1>5. ASSUME p = <<>> PROVE ~Has(s, kinds)
  BY <1>1, <1>2, <1>5 DEF Places, Has
<1>. QED BY <1>3, <1>4, <1>5

LEMMA ListsNone ==
  ASSUME NEW s, NEW kinds, ~Has(s, kinds)
  PROVE  Lists(<<>>, s, kinds)
<1>1. Places(<<>>, s, kinds, [k \in 1 .. Len(<<>>) |-> 1])
  BY DEF Places, Has
<1>. QED BY <1>1 DEF Lists

LEMMA ListsAdd ==
  ASSUME NEW T, NEW p \in Seq(Nat), NEW s \in Seq(T), NEW t \in Seq(T), NEW kinds,
         Lists(p, s, kinds), ~Has(t, kinds)
  PROVE  Lists(p, Cat(s, t), kinds)
<1>1. PICK spot : Places(p, s, kinds, spot)
  BY DEF Lists
<1>2. PICK u : u = Cat(s, t)
  OBVIOUS
<1>3. /\ Len(Cat(s, t)) = Len(s) + Len(t) /\ Len(s) \in Nat /\ Len(t) \in Nat
      /\ \A i \in 1 .. Len(s) : Cat(s, t)[i] = s[i]
  BY ConcatProperties, LenProperties DEF Cat
<1>9. \A i \in 1 .. Len(Cat(s, t)) :
        \/ i \in 1 .. Len(s) /\ Cat(s, t)[i] = s[i]
        \/ i - Len(s) \in 1 .. Len(t) /\ Cat(s, t)[i] = t[i - Len(s)]
  BY CatFacts
<1>4. \A i \in 1 .. Len(s) : i \in 1 .. Len(u)
  BY <1>2, <1>3
<1>5. \A i \in 1 .. Len(u) : u[i].is \in kinds => i \in 1 .. Len(s) /\ s[i].is \in kinds
  BY <1>2, <1>9 DEF Has
<1>6. spot \in [1 .. Len(p) -> 1 .. Len(u)]
  BY <1>1, <1>4 DEF Places
<1>7. Places(p, u, kinds, spot)
  BY <1>1, <1>2, <1>3, <1>5, <1>6 DEF Places
<1>. QED BY <1>2, <1>7 DEF Lists

LEMMA AppendFacts ==
  ASSUME NEW p \in Seq(Nat), NEW n \in Nat
  PROVE  /\ Append(p, n) \in Seq(Nat) /\ Len(Append(p, n)) = Len(p) + 1 /\ Len(p) \in Nat
         /\ \A k \in 1 .. Len(p) : Append(p, n)[k] = p[k]
         /\ Append(p, n)[Len(p) + 1] = n
BY AppendProperties, LenProperties

LEMMA ListsLast ==
  ASSUME NEW T, NEW p \in Seq(Nat), NEW s \in Seq(T), NEW m \in T, m.id \in Nat, NEW kinds,
         Lists(p, s, kinds), m.is \in kinds
  PROVE  Lists(Append(p, m.id), Cat(s, <<m>>), kinds)
<1>1. PICK spot : Places(p, s, kinds, spot)
  BY DEF Lists
<1>2. PICK u, r : u = Cat(s, <<m>>) /\ r = Append(p, m.id)
  OBVIOUS
<1>3. <<m>> \in Seq(T) /\ Len(<<m>>) = 1 /\ <<m>>[1] = m
  BY OneFacts
<1>4. Len(u) = Len(s) + Len(<<m>>) /\ Len(s) \in Nat /\ \A i \in 1 .. Len(s) : u[i] = s[i]
  BY <1>2, <1>3, ConcatProperties, LenProperties DEF Cat
<1>5. Len(u) = Len(s) + 1 /\ u[Len(s) + 1] = m
  <2>1. \A i \in 1 .. Len(<<m>>) : u[Len(s) + i] = <<m>>[i]
    BY <1>2, <1>3, ConcatProperties, LenProperties DEF Cat
  <2>. QED BY <1>3, <1>4, <2>1
<1>6. r \in Seq(Nat) /\ Len(r) = Len(p) + 1 /\ Len(p) \in Nat /\ r[Len(p) + 1] = m.id
      /\ \A k \in 1 .. Len(p) : r[k] = p[k]
  BY <1>2, AppendFacts
<1>7. DEFINE new == [k \in 1 .. Len(r) |-> IF k = Len(p) + 1 THEN Len(s) + 1 ELSE spot[k]]
<1>16. \A k \in 1 .. Len(p) : k \in 1 .. Len(r) /\ k # Len(p) + 1
  <2>1. Len(r) = Len(p) + 1 /\ Len(p) \in Nat
    BY <1>6
  <2>. QED BY <2>1
<1>17. \A k \in 1 .. Len(p) : spot[k] \in 1 .. Len(s)
  BY <1>1 DEF Places
<1>8. \A k \in 1 .. Len(p) : k \in 1 .. Len(r) /\ k # Len(p) + 1 /\ spot[k] \in 1 .. Len(s)
  BY <1>16, <1>17
<1>9. \A k \in 1 .. Len(r) : k = Len(p) + 1 \/ k \in 1 .. Len(p)
  BY <1>6
<1>10. /\ Len(p) + 1 \in 1 .. Len(r) /\ new[Len(p) + 1] = Len(s) + 1
       /\ \A k \in 1 .. Len(p) : new[k] = spot[k]
  BY <1>6, <1>8
<1>11. new \in [1 .. Len(r) -> 1 .. Len(u)]
  BY <1>4, <1>5, <1>8, <1>9
<1>. HIDE DEF new
<1>12. \A k, l \in 1 .. Len(r) : k < l => new[k] < new[l]
  <2>. SUFFICES ASSUME NEW k \in 1 .. Len(r), NEW l \in 1 .. Len(r), k < l
                PROVE  new[k] < new[l]
    OBVIOUS
  <2>1. k \in 1 .. Len(p) /\ new[k] = spot[k] /\ spot[k] \in 1 .. Len(s)
    BY SMTT(20), <1>6, <1>8, <1>9, <1>10
  <2>2. CASE l \in 1 .. Len(p)
    BY <1>1, <1>10, <2>1, <2>2 DEF Places
  <2>3. CASE l = Len(p) + 1
    BY <1>4, <1>10, <2>1, <2>3
  <2>. QED BY <1>9, <2>2, <2>3
<1>13. \A k \in 1 .. Len(r) : u[new[k]].is \in kinds /\ u[new[k]].id = r[k]
  <2>. SUFFICES ASSUME NEW k \in 1 .. Len(r)
                PROVE  u[new[k]].is \in kinds /\ u[new[k]].id = r[k]
    OBVIOUS
  <2>1. CASE k \in 1 .. Len(p)
    <3>1. s[spot[k]].is \in kinds /\ s[spot[k]].id = p[k]
      BY <1>1, <2>1 DEF Places
    <3>2. u[new[k]] = s[spot[k]] /\ r[k] = p[k]
      BY <1>4, <1>6, <1>17, <1>10, <2>1
    <3>. QED BY <3>1, <3>2
  <2>2. CASE k = Len(p) + 1
    BY <1>5, <1>6, <1>10, <2>2
  <2>. QED BY <1>9, <2>1, <2>2
<1>14. \A i \in 1 .. Len(u) : u[i].is \in kinds => \E k \in 1 .. Len(r) : new[k] = i
  <2>. SUFFICES ASSUME NEW i \in 1 .. Len(u), u[i].is \in kinds
                PROVE  \E k \in 1 .. Len(r) : new[k] = i
    OBVIOUS
  <2>1. CASE i \in 1 .. Len(s)
    <3>1. PICK k \in 1 .. Len(p) : spot[k] = i
      BY <1>1, <1>4, <2>1 DEF Places
    <3>. QED BY <1>8, <1>10, <3>1
  <2>2. CASE i = Len(s) + 1
    BY <1>10, <2>2
  <2>. QED BY <1>4, <1>5, <2>1, <2>2
<1>15. Places(r, u, kinds, new)
  BY <1>11, <1>12, <1>13, <1>14 DEF Places
<1>. QED BY <1>2, <1>15 DEF Lists

LEMMA ListsTail ==
  ASSUME NEW T, NEW p \in Seq(Nat), NEW s \in Seq(T), s # <<>>, NEW kinds,
         Lists(p, s, kinds), Head(s).is \notin kinds
  PROVE  Lists(p, Tail(s), kinds)
<1>1. PICK spot : Places(p, s, kinds, spot)
  BY DEF Lists
<1>2. /\ Len(Tail(s)) = Len(s) - 1 /\ Len(s) \in Nat /\ Len(s) >= 1 /\ Head(s) = s[1]
      /\ \A i \in 1 .. Len(Tail(s)) : Tail(s)[i] = s[i + 1] /\ i + 1 \in 1 .. Len(s)
  BY TailFacts
<1>3. PICK t : t = Tail(s)
  OBVIOUS
<1>4. \A k \in 1 .. Len(p) : spot[k] \in 1 .. Len(s) /\ spot[k] # 1
  BY <1>1, <1>2 DEF Places
<1>5. DEFINE new == [k \in 1 .. Len(p) |-> spot[k] - 1]
<1>6. \A k \in 1 .. Len(p) : new[k] = spot[k] - 1 /\ new[k] \in 1 .. Len(t) /\ t[new[k]] = s[spot[k]]
  <2>. SUFFICES ASSUME NEW k \in 1 .. Len(p)
                PROVE  new[k] = spot[k] - 1 /\ new[k] \in 1 .. Len(t) /\ t[new[k]] = s[spot[k]]
    OBVIOUS
  <2>1. new[k] = spot[k] - 1 /\ new[k] \in 1 .. Len(t) /\ new[k] + 1 = spot[k]
    BY <1>2, <1>3, <1>4
  <2>2. t[new[k]] = s[new[k] + 1]
    BY <1>2, <1>3, <2>1
  <2>. QED BY <2>1, <2>2
<1>7. new \in [1 .. Len(p) -> 1 .. Len(t)]
  BY <1>6
<1>. HIDE DEF new
<1>8. \A k, l \in 1 .. Len(p) : k < l => new[k] < new[l]
  BY <1>1, <1>4, <1>6 DEF Places
<1>9. \A i \in 1 .. Len(t) : t[i].is \in kinds => \E k \in 1 .. Len(p) : new[k] = i
  <2>. SUFFICES ASSUME NEW i \in 1 .. Len(t), t[i].is \in kinds
                PROVE  \E k \in 1 .. Len(p) : new[k] = i
    OBVIOUS
  <2>1. PICK j : j = i + 1
    OBVIOUS
  <2>2. j \in 1 .. Len(s) /\ s[j].is \in kinds /\ j - 1 = i
    BY <1>2, <1>3, <2>1
  <2>3. PICK k \in 1 .. Len(p) : spot[k] = j
    BY <1>1, <2>2 DEF Places
  <2>. QED BY <1>6, <2>2, <2>3
<1>10. Places(p, t, kinds, new)
  BY <1>1, <1>6, <1>7, <1>8, <1>9 DEF Places
<1>. QED BY <1>3, <1>10 DEF Lists

LEMMA ListsHead ==
  ASSUME NEW T, NEW p \in Seq(Nat), NEW s \in Seq(T), s # <<>>, NEW kinds,
         Lists(p, s, kinds), Head(s).is \in kinds
  PROVE  /\ p # <<>> /\ Head(p) = Head(s).id /\ Tail(p) \in Seq(Nat) /\ Lists(Tail(p), Tail(s), kinds)
<1>1. PICK spot : Places(p, s, kinds, spot)
  BY DEF Lists
<1>2. /\ Len(Tail(s)) = Len(s) - 1 /\ Len(s) \in Nat /\ Len(s) >= 1 /\ Head(s) = s[1] /\ 1 \in 1 .. Len(s)
      /\ \A i \in 1 .. Len(Tail(s)) : Tail(s)[i] = s[i + 1] /\ i + 1 \in 1 .. Len(s)
  BY TailFacts
<1>3. PICK t : t = Tail(s)
  OBVIOUS
<1>4. PICK k1 \in 1 .. Len(p) : spot[k1] = 1
  BY <1>1, <1>2 DEF Places
<1>5. Len(p) \in Nat /\ 1 \in 1 .. Len(p) /\ p # <<>>
  <2>1. Len(p) \in Nat /\ (p = <<>> <=> Len(p) = 0)
    BY EmptySeq, LenProperties
  <2>. QED BY <1>4, <2>1
<1>6. k1 = 1
  <2>1. CASE 1 < k1
    <3>1. spot[1] < spot[k1] /\ spot[1] \in 1 .. Len(s)
      BY <1>1, <1>4, <1>5, <2>1 DEF Places
    <3>. QED BY <1>4, <3>1
  <2>. QED BY <1>4, <2>1
<1>7. PICK r : r = Tail(p)
  OBVIOUS
<1>8. /\ r \in Seq(Nat) /\ Len(r) = Len(p) - 1 /\ Head(p) = p[1]
      /\ \A k \in 1 .. Len(r) : r[k] = p[k + 1] /\ k + 1 \in 1 .. Len(p)
  BY <1>5, <1>7, TailFacts
<1>9. Head(p) = Head(s).id
  BY <1>1, <1>2, <1>4, <1>6, <1>8 DEF Places
<1>10. \A k \in 1 .. Len(p) : spot[k] \in 1 .. Len(s) /\ (k # 1 => spot[k] # 1)
  BY <1>1, <1>4, <1>5, <1>6 DEF Places
<1>11. DEFINE new == [k \in 1 .. Len(r) |-> spot[k + 1] - 1]
<1>12. ASSUME NEW k \in 1 .. Len(r), NEW j, j = k + 1
       PROVE  j \in 1 .. Len(p) /\ j # 1 /\ new[k] = spot[j] - 1 /\ new[k] \in 1 .. Len(t) /\ t[new[k]] = s[spot[j]] /\ r[k] = p[j]
  <2>0. j \in 1 .. Len(p) /\ r[k] = p[j]
    BY <1>8, <1>12
  <2>1. j \in 1 .. Len(p) /\ j # 1 /\ r[k] = p[j] /\ new[k] = spot[j] - 1
    BY <1>12, <2>0
  <2>2. spot[j] \in 1 .. Len(s) /\ spot[j] # 1
    BY <1>10, <2>1
  <2>5. new[k] = spot[j] - 1
    BY <2>1
  <2>6. Len(t) = Len(s) - 1 /\ Len(s) \in Nat
    BY <1>2, <1>3
  <2>. HIDE DEF new
  <2>3. new[k] \in 1 .. Len(t) /\ new[k] + 1 = spot[j]
    BY <2>2, <2>5, <2>6
  <2>4. t[new[k]] = s[new[k] + 1]
    BY <1>2, <1>3, <2>3
  <2>. QED BY <2>1, <2>3, <2>4
<1>13. new \in [1 .. Len(r) -> 1 .. Len(t)]
  BY <1>12
<1>. HIDE DEF new
<1>14. \A k, l \in 1 .. Len(r) : k < l => new[k] < new[l]
  <2>. SUFFICES ASSUME NEW k \in 1 .. Len(r), NEW l \in 1 .. Len(r), k < l
                PROVE  new[k] < new[l]
    OBVIOUS
  <2>1. PICK i, j : i = k + 1 /\ j = l + 1
    OBVIOUS
  <2>2. /\ i \in 1 .. Len(p) /\ j \in 1 .. Len(p) /\ i < j /\ new[k] = spot[i] - 1 /\ new[l] = spot[j] - 1
    BY <1>12, <2>1
  <2>3. spot[i] < spot[j] /\ spot[i] \in 1 .. Len(s) /\ spot[j] \in 1 .. Len(s)
    BY <1>1, <2>2 DEF Places
  <2>. QED BY SMTT(20), <2>2, <2>3
<1>15. \A k \in 1 .. Len(r) : t[new[k]].is \in kinds /\ t[new[k]].id = r[k]
  <2>. SUFFICES ASSUME NEW k \in 1 .. Len(r)
                PROVE  t[new[k]].is \in kinds /\ t[new[k]].id = r[k]
    OBVIOUS
  <2>1. PICK j : j = k + 1
    OBVIOUS
  <2>2. j \in 1 .. Len(p) /\ t[new[k]] = s[spot[j]] /\ r[k] = p[j]
    BY <1>12, <2>1
  <2>. QED BY <1>1, <2>2 DEF Places
<1>16. \A i \in 1 .. Len(t) : t[i].is \in kinds => \E k \in 1 .. Len(r) : new[k] = i
  <2>. SUFFICES ASSUME NEW i \in 1 .. Len(t), t[i].is \in kinds
                PROVE  \E k \in 1 .. Len(r) : new[k] = i
    OBVIOUS
  <2>1. PICK x : x = i + 1
    OBVIOUS
  <2>2. x \in 1 .. Len(s) /\ s[x].is \in kinds /\ x - 1 = i /\ x # 1
    BY <1>2, <1>3, <2>1
  <2>3. PICK j \in 1 .. Len(p) : spot[j] = x
    BY <1>1, <2>2 DEF Places
  <2>4. PICK k : k = j - 1
    OBVIOUS
  <2>6. j # 1 /\ Len(r) = Len(p) - 1 /\ Len(p) \in Nat
    BY <1>4, <1>5, <1>6, <1>8, <2>2, <2>3
  <2>5. k \in 1 .. Len(r) /\ j = k + 1
    BY <2>3, <2>4, <2>6
  <2>. QED BY <1>12, <2>2, <2>3, <2>5
<1>17. Places(r, t, kinds, new)
  BY <1>13, <1>14, <1>15, <1>16 DEF Places
<1>. QED BY <1>3, <1>5, <1>7, <1>8, <1>9, <1>17 DEF Lists
-----------------------------------------------------------------------------
(* Types *)

LEMMA EndFacts ==
  /\ Ends = {"client", "server"} /\ Peer("client") = "server" /\ Peer("server") = "client"
  /\ \A e \in Ends : Peer(e) \in Ends /\ Peer(e) # e /\ Peer(Peer(e)) = e /\ Ends = {e, Peer(e)}
BY DEF Ends, Peer

LEMMA OwnFacts ==
  ASSUME kind \in Kinds
  PROVE  /\ Own("client") \/ Own("server")
         /\ \A e \in Ends : Own(e) \/ Own(Peer(e))
         /\ Own("client") \in BOOLEAN /\ Own("server") \in BOOLEAN
BY DEF Kinds, Own, Ends, Peer

LEMMA ConstantTypes ==
  /\ Window \in Nat /\ OtherWindows \subseteq Nat /\ Windows \subseteq Nat /\ Window \in Windows
  /\ \A u \in Urls : /\ u \in Url /\ u.path \in Seq(Parts) /\ u.path # <<>>
                     /\ Len(u.path) \in Nat /\ Len(u.path) >= 1 /\ u.path[1] \in Parts
  /\ \A s \in Streams : s \in Name /\ s.name \in Parts
  /\ NoUrl \in Url /\ NoStream \in Name /\ "" \in NameSet /\ "" \in ParamSet /\ "" \in HostSet
  /\ NameSet \subseteq Parts /\ <<>> \in Seq(Parts)
<1>1. Window \in Nat /\ OtherWindows \subseteq Nat /\ Windows \subseteq Nat /\ Window \in Windows
  BY RtmpCommandsAssumption DEF Windows
<1>2. /\ "" \in NameSet /\ "" \in ParamSet /\ "" \in HostSet /\ "" \in PortSet
      /\ NameSet \subseteq Parts /\ <<>> \in Seq(Parts)
  <2>1. "" \in NameSet /\ "" \in ParamSet /\ "" \in HostSet /\ "" \in PortSet
    BY DEF NameSet, ParamSet, HostSet, PortSet
  <2>2. NameSet \subseteq Parts
    <3>1. PICK U : U = UNION {ToSet(u.path) : u \in Urls}
      OBVIOUS
    <3>2. Parts = U \cup NameSet
      BY <3>1, Zenon DEF Parts
    <3>. QED BY <3>2
  <2>3. <<>> \in Seq(Parts)
    BY EmptySeq
  <2>. QED BY <2>1, <2>2, <2>3
<1>3. ASSUME NEW u \in Urls
      PROVE  /\ u \in Url /\ u.path \in Seq(Parts) /\ u.path # <<>>
             /\ Len(u.path) \in Nat /\ Len(u.path) >= 1 /\ u.path[1] \in Parts
  <2>1. /\ u = [host |-> u.host, port |-> u.port, path |-> u.path]
        /\ u.path \in Seq(ToSet(u.path)) /\ u.path # <<>>
    BY RtmpCommandsAssumption
  <2>2. u.host \in HostSet /\ u.port \in PortSet /\ ToSet(u.path) \subseteq Parts
    BY DEF HostSet, PortSet, Parts
  <2>3. PICK p : p = u.path
    OBVIOUS
  <2>4. p \in Seq(Parts) /\ p # <<>>
    BY <2>1, <2>2, <2>3
  <2>5. Len(p) \in Nat /\ Len(p) >= 1 /\ p[1] \in Parts
    BY <2>4, EmptySeq, LenProperties
  <2>6. u.path \in Seq(Parts) /\ u.path # <<>> /\ Len(u.path) \in Nat /\ Len(u.path) >= 1 /\ u.path[1] \in Parts
    BY <2>3, <2>4, <2>5
  <2>7. [host |-> u.host, port |-> u.port, path |-> u.path] \in Url
    BY <2>2, <2>6 DEF Url
  <2>. QED BY <2>1, <2>6, <2>7
<1>4. ASSUME NEW s \in Streams PROVE s \in Name /\ s.name \in Parts
  <2>1. s = [name |-> s.name, param |-> s.param]
    BY RtmpCommandsAssumption
  <2>2. s.name \in NameSet /\ s.param \in ParamSet
    BY DEF NameSet, ParamSet
  <2>3. [name |-> s.name, param |-> s.param] \in Name
    BY <2>2 DEF Name
  <2>. QED BY <1>2, <2>1, <2>2, <2>3
<1>5. NoUrl \in Url /\ NoStream \in Name
  BY <1>2 DEF NoUrl, NoStream, Url, Name
<1>. QED BY <1>1, <1>2, <1>3, <1>4, <1>5

(* A message without arguments *)
LEMMA MsgFacts ==
  ASSUME NEW is, NEW id
  PROVE  /\ Msg(is, id).is = is /\ Msg(is, id).id = id
         /\ is \in Kinds2 /\ id \in Nat
              /\ (is = "chunkSize" => id = 4096) /\ (is = "ackSize" => id \in Windows)
              /\ (is \in {"connect", "accepted"} => id = 1)
            => Msg(is, id) \in Letters
<1>1. Msg(is, id).is = is /\ Msg(is, id).id = id
  BY DEF Msg
<1>2. ASSUME is \in Kinds2, id \in Nat PROVE Msg(is, id) \in Message(Kinds2)
  BY <1>2, ConstantTypes DEF Msg, Message
<1>3. ASSUME is = "chunkSize" => id = 4096, is = "ackSize" => id \in Windows,
             is \in {"connect", "accepted"} => id = 1
      PROVE  IdOK(Msg(is, id))
  BY <1>1, <1>3 DEF IdOK
<1>. QED BY <1>1, <1>2, <1>3 DEF Letters

LEMMA LetterFacts ==
  ASSUME NEW m \in Letters
  PROVE  /\ m.id \in Nat /\ m.is \in Kinds2 /\ m.app \in Seq(Parts) /\ m.url \in Url /\ m.name \in Name
         /\ IdOK(m)
BY DEF Letters, Message

LEMMA SizeFacts ==
  ASSUME NEW m
  PROVE  Size(m) \in {1, 3}
BY DEF Size
-----------------------------------------------------------------------------
(* Reading *)

(* last_left_ is what is left in the buffer; it is less than a message *)
ReadOf(e) ==
  /\ buffered[e] = lastLeft[e]
  /\ stream[e] = <<>> \/ ~Own(e) => buffered[e] = 0
  /\ stream[e] # <<>> /\ Own(e) => buffered[e] < Size(Head(stream[e]))
Reads == \A e \in Ends : ReadOf(e)

ReadInv == Types /\ Reads /\ BytesAcknowledged

LEMMA CountBytes ==
  ASSUME ReadInv, NEW e \in Ends, NEW n \in Nat, Count(e, n)
  PROVE  /\ inBytes' \in [Ends -> Nat]
         /\ total' \in [Ends -> [read : Nat, reported : Nat, window : Nat]]
         /\ BytesAcknowledged'
<1>1. /\ inBytes[e] \in Nat /\ ackSize[e] \in Nat /\ buffered[e] = lastLeft[e] /\ lastLeft[e] \in Nat
      /\ inBytes \in [Ends -> Nat] /\ total \in [Ends -> [read : Nat, reported : Nat, window : Nat]]
  <2>1. /\ inBytes[e] \in Nat /\ ackSize[e] \in Windows /\ buffered[e] = lastLeft[e] /\ lastLeft[e] \in Nat
        /\ inBytes \in [Ends -> Nat] /\ total \in [Ends -> [read : Nat, reported : Nat, window : Nat]]
    BY DEF ReadInv, Types, Carried, Counters, Here, Dialogue, Reads, ReadOf
  <2>. QED BY <2>1, ConstantTypes
<1>2. PICK c, w, b : c = inBytes[e] + n /\ w = ackSize[e] /\ b = inBytes[e]
  OBVIOUS
<1>3. Counted(e, n) = c /\ c \in Nat /\ w \in Nat /\ b \in Nat /\ c = b + n
  BY <1>1, <1>2 DEF Counted
<1>4. Reports(e, n) <=> c >= w
  BY <1>2, <1>3 DEF Reports
<1>5. PICK t : t = total[e]
  OBVIOUS
<1>6. t \in [read : Nat, reported : Nat, window : Nat] /\ t.read = t.reported + b
  BY <1>1, <1>2, <1>5 DEF ReadInv, BytesAcknowledged
<1>7. CASE Reports(e, n)
  <2>1. inBytes' = [inBytes EXCEPT ![e] = 0]
    BY <1>7 DEF Count
  <2>2. total' = [total EXCEPT ![e] = [read |-> t.read + n, reported |-> t.reported + c, window |-> w]]
    BY <1>1, <1>2, <1>3, <1>5, <1>6, <1>7 DEF Count
  <2>3. /\ [read |-> t.read + n, reported |-> t.reported + c, window |-> w] \in [read : Nat, reported : Nat, window : Nat]
        /\ t.read + n = (t.reported + c) + 0
    BY <1>3, <1>6
  <2>. QED BY <1>1, <2>1, <2>2, <2>3 DEF ReadInv, BytesAcknowledged
<1>8. CASE ~Reports(e, n)
  <2>1. inBytes' = [inBytes EXCEPT ![e] = c]
    BY <1>3, <1>8 DEF Count
  <2>0. t.reported + 0 = t.reported
    BY <1>6
  <2>2. total' = [total EXCEPT ![e] = [read |-> t.read + n, reported |-> t.reported, window |-> w]]
    BY <1>1, <1>2, <1>3, <1>5, <1>8, <2>0 DEF Count
  <2>3. /\ [read |-> t.read + n, reported |-> t.reported, window |-> w] \in [read : Nat, reported : Nat, window : Nat]
        /\ t.read + n = t.reported + c /\ c < w
    BY <1>3, <1>4, <1>6, <1>8
  <2>. QED BY <1>1, <1>3, <2>1, <2>2, <2>3 DEF ReadInv, BytesAcknowledged
<1>. QED BY <1>7, <1>8

LEMMA BytesRecvFacts ==
  ASSUME ReadInv, NEW e \in Ends, NEW n \in Nat
  PROVE  BytesRecv(e, n) = <<>> \/ \E m \in Letters : m.is = "bytesRead" /\ BytesRecv(e, n) = <<m>>
<1>1. Counted(e, n) \in Nat
  BY SMTT(20) DEF ReadInv, Types, Carried, Counters, Here, Dialogue, Reads, ReadOf, Counted
<1>2. PICK m : m = Msg("bytesRead", Counted(e, n))
  OBVIOUS
<1>3. m \in Letters /\ m.is = "bytesRead"
  BY <1>1, <1>2, MsgFacts DEF Kinds2, ServerKinds
<1>. QED BY <1>2, <1>3 DEF BytesRecv

LEMMA BytesRecvType ==
  ASSUME ReadInv, NEW e \in Ends, NEW n \in Nat
  PROVE  BytesRecv(e, n) \in Seq(Letters)
<1>1. BytesRecv(e, n) = <<>> \/ \E m \in Letters : BytesRecv(e, n) = <<m>>
  BY BytesRecvFacts
<1>. QED BY <1>1, EmptySeq, OneFacts

Goes(e, s) == s \in Seq(Letters) /\ \A i \in 1 .. Len(s) : Letter(e, s[i])

LEMMA GoesCat ==
  ASSUME NEW e, NEW s, NEW t, Goes(e, s), Goes(e, t)
  PROVE  Goes(e, Cat(s, t))
<1>1. s \in Seq(Letters) /\ t \in Seq(Letters)
  BY DEF Goes
<1>2. Cat(s, t) \in Seq(Letters)
  BY <1>1, CatFacts
<1>3. \A i \in 1 .. Len(Cat(s, t)) :
        \/ i \in 1 .. Len(s) /\ Cat(s, t)[i] = s[i]
        \/ i - Len(s) \in 1 .. Len(t) /\ Cat(s, t)[i] = t[i - Len(s)]
  BY <1>1, CatFacts
<1>. QED BY <1>2, <1>3 DEF Goes

LEMMA GoesTail ==
  ASSUME NEW e, NEW s, s # <<>>, Goes(e, s)
  PROVE  Goes(e, Tail(s)) /\ Letter(e, Head(s))
<1>1. s \in Seq(Letters)
  BY DEF Goes
<1>2. /\ Tail(s) \in Seq(Letters) /\ Len(Tail(s)) = Len(s) - 1 /\ Len(s) \in Nat /\ Len(s) >= 1
      /\ Head(s) = s[1] /\ \A i \in 1 .. Len(Tail(s)) : Tail(s)[i] = s[i + 1]
  BY <1>1, TailFacts
<1>3. \A i \in 1 .. Len(Tail(s)) : i + 1 \in 1 .. Len(s)
  BY <1>2
<1>. QED BY <1>2, <1>3 DEF Goes

LEMMA GoesOne ==
  ASSUME NEW e, NEW m, Letter(e, m)
  PROVE  Goes(e, <<m>>)
BY DEF Goes, Letter

LEMMA GoesNone ==
  ASSUME NEW e
  PROVE  Goes(e, <<>>)
<1>1. <<>> \in Seq(Letters)
  BY EmptySeq
<1>. QED BY <1>1 DEF Goes

(* More messages come to an end that goes on with the first of them *)
LEMMA MoreComes ==
  ASSUME ReadInv, NEW p \in Ends, NEW t \in Seq(Letters), stream'[p] = Cat(stream[p], t),
         buffered'[p] = buffered[p], lastLeft'[p] = lastLeft[p], kind' = kind
  PROVE  ReadOf(p)'
<1>1. Own(p)' <=> Own(p)
  BY DEF Own
<1>2. ReadOf(p) /\ stream[p] \in Seq(Letters)
  BY DEF ReadInv, Reads, Types, Carried, Counters, Here, Dialogue
<1>3. ASSUME stream[p] # <<>>
      PROVE  stream'[p] # <<>> /\ Head(stream'[p]) = Head(stream[p])
  <2>1. PICK s : s = stream[p]
    OBVIOUS
  <2>2. Cat(s, t) # <<>> /\ Head(Cat(s, t)) = Head(s)
    BY <1>2, <1>3, <2>1 DEF Cat
  <2>. QED BY <2>1, <2>2
<1>4. PICK z : z = Size(Head(stream'[p]))
  OBVIOUS
<1>5. z > 0
  BY <1>4, SizeFacts
<1>6. CASE stream[p] = <<>>
  BY <1>1, <1>2, <1>4, <1>5, <1>6 DEF ReadOf
<1>7. CASE stream[p] # <<>>
  BY <1>1, <1>2, <1>3, <1>7 DEF ReadOf
<1>. QED BY <1>6, <1>7

(* A read that ends inside a message *)
LEMMA PartRead ==
  ASSUME ReadInv, NEW e \in Ends, NEW n \in 1 .. 2, ReadPart(e, n)
  PROVE  /\ buffered' \in [Ends -> Nat] /\ lastLeft' \in [Ends -> Nat] /\ Reads' /\ BytesAcknowledged'
         /\ inBytes' \in [Ends -> Nat] /\ total' \in [Ends -> [read : Nat, reported : Nat, window : Nat]]
         /\ stream'[e] = stream[e] /\ stream'[Peer(e)] = Cat(stream[Peer(e)], BytesRecv(e, n))
         /\ DOMAIN stream' = Ends /\ stream' = [x \in Ends |-> stream'[x]]
<1>1. /\ Readable(e) /\ n < Rest(e) /\ n \in Nat /\ n # 0
      /\ buffered' = [buffered EXCEPT ![e] = @ + n] /\ lastLeft' = [lastLeft EXCEPT ![e] = buffered[e] + n]
      /\ stream' = [stream EXCEPT ![Peer(e)] = @ \o BytesRecv(e, n)] /\ Count(e, n) /\ kind' = kind
  BY DEF ReadPart, history
<1>2. /\ buffered \in [Ends -> Nat] /\ lastLeft \in [Ends -> Nat] /\ Reads
      /\ stream \in [Ends -> Seq(Letters)] /\ \A x \in Ends : Goes(x, stream[x])
  BY DEF ReadInv, Types, Carried, Counters, Here, Dialogue, Goes
<1>3. Peer(e) \in Ends /\ Peer(e) # e /\ Ends = {e, Peer(e)}
  BY EndFacts
<1>4. Own(e) /\ stream[e] # <<>> /\ Rest(e) = Size(Head(stream[e])) - buffered[e]
  BY <1>1 DEF Readable, Rest
<1>5. /\ stream'[e] = stream[e] /\ stream'[Peer(e)] = Cat(stream[Peer(e)], BytesRecv(e, n))
      /\ DOMAIN stream' = Ends /\ stream' = [x \in Ends |-> stream'[x]]
  BY <1>1, <1>2, <1>3 DEF Cat
<1>6. PICK z : z = Size(Head(stream[e]))
  OBVIOUS
<1>7. z \in Nat
  BY <1>6, SizeFacts
<1>8. buffered'[e] = buffered[e] + n /\ lastLeft'[e] = buffered[e] + n /\ buffered[e] + n < z
  BY <1>1, <1>2, <1>4, <1>6, <1>7
<1>9. buffered' \in [Ends -> Nat] /\ lastLeft' \in [Ends -> Nat]
      /\ buffered'[Peer(e)] = buffered[Peer(e)] /\ lastLeft'[Peer(e)] = lastLeft[Peer(e)]
  BY <1>1, <1>2, <1>3
<1>10. inBytes' \in [Ends -> Nat] /\ total' \in [Ends -> [read : Nat, reported : Nat, window : Nat]]
       /\ BytesAcknowledged'
  BY <1>1, CountBytes
<1>11. \A x \in Ends : Own(x)' <=> Own(x)
  BY <1>1 DEF Own
<1>12. ReadOf(Peer(e))'
  <2>1. BytesRecv(e, n) \in Seq(Letters)
    BY <1>1, BytesRecvType
  <2>. QED BY <1>1, <1>3, <1>5, <1>9, <2>1, MoreComes
<1>13. ReadOf(e)'
  BY <1>4, <1>5, <1>6, <1>8, <1>11 DEF ReadOf
<1>14. Reads'
  BY <1>3, <1>12, <1>13 DEF Reads
<1>. QED BY <1>5, <1>9, <1>10, <1>14

(* A read that ends with a message *)
LEMMA WholeRead ==
  ASSUME ReadInv, NEW e \in Ends, NEW answers, Readable(e), Complete(e, answers), Goes(Peer(e), answers)
  PROVE  /\ buffered' \in [Ends -> Nat] /\ lastLeft' \in [Ends -> Nat] /\ Reads' /\ BytesAcknowledged'
         /\ inBytes' \in [Ends -> Nat] /\ total' \in [Ends -> [read : Nat, reported : Nat, window : Nat]]
         /\ stream'[e] = Tail(stream[e])
         /\ stream'[Peer(e)] = Cat(Cat(stream[Peer(e)], BytesRecv(e, Rest(e))), answers) /\ Rest(e) \in Nat
         /\ stream[e] # <<>> /\ stream[e] \in Seq(Letters)
         /\ DOMAIN stream' = Ends /\ stream' = [x \in Ends |-> stream'[x]]
         /\ kind' = kind /\ asked' = asked /\ said' = said
<1>1. /\ buffered' = [buffered EXCEPT ![e] = 0] /\ lastLeft' = [lastLeft EXCEPT ![e] = 0]
      /\ stream' = [stream EXCEPT ![e] = Tail(@), ![Peer(e)] = @ \o BytesRecv(e, Rest(e)) \o answers]
      /\ Count(e, Rest(e)) /\ kind' = kind /\ asked' = asked /\ said' = said
      /\ Own(e) /\ stream[e] # <<>>
  BY DEF Complete, Readable, history
<1>2. /\ buffered \in [Ends -> Nat] /\ lastLeft \in [Ends -> Nat] /\ Reads
      /\ stream \in [Ends -> Seq(Letters)]
  BY DEF ReadInv, Types, Carried, Counters, Here, Dialogue
<1>3. Peer(e) \in Ends /\ Peer(e) # e /\ Ends = {e, Peer(e)}
  BY EndFacts
<1>4. PICK z : z = Size(Head(stream[e]))
  OBVIOUS
<1>5. z \in Nat /\ buffered[e] \in Nat /\ buffered[e] < z /\ Rest(e) = z - buffered[e]
  BY <1>1, <1>2, <1>4, SizeFacts DEF Reads, ReadOf, Rest
<1>6. Rest(e) \in Nat
  BY <1>5
<1>7. BytesRecv(e, Rest(e)) \in Seq(Letters)
  BY <1>6, BytesRecvType
<1>8. PICK t : t = BytesRecv(e, Rest(e)) \o answers
  OBVIOUS
<1>9. answers \in Seq(Letters)
  BY DEF Goes
<1>10. t \in Seq(Letters) /\ t = Cat(BytesRecv(e, Rest(e)), answers)
  BY <1>7, <1>8, <1>9, ConcatProperties DEF Cat
<1>11. stream'[e] = Tail(stream[e])
       /\ stream'[Peer(e)] = (stream[Peer(e)] \o BytesRecv(e, Rest(e))) \o answers
       /\ DOMAIN stream' = Ends /\ stream' = [x \in Ends |-> stream'[x]]
  BY <1>1, <1>2, <1>3
<1>12. stream'[Peer(e)] = Cat(Cat(stream[Peer(e)], BytesRecv(e, Rest(e))), answers)
  BY <1>11, Zenon DEF Cat
<1>13. stream'[Peer(e)] = Cat(stream[Peer(e)], t)
  <2>1. stream[Peer(e)] \in Seq(Letters)
    BY <1>2, <1>3
  <2>. QED BY <1>7, <1>9, <1>10, <1>12, <2>1, CatAssoc
<1>14. ReadOf(Peer(e))'
  <2>1. buffered'[Peer(e)] = buffered[Peer(e)] /\ lastLeft'[Peer(e)] = lastLeft[Peer(e)]
    BY <1>1, <1>2, <1>3
  <2>. QED BY <1>1, <1>3, <1>10, <1>13, <2>1, MoreComes
<1>15. ReadOf(e)'
  <2>1. buffered'[e] = 0 /\ lastLeft'[e] = 0
    BY <1>1, <1>2
  <2>. QED BY <2>1, SizeFacts DEF ReadOf
<1>16. Reads'
  BY <1>3, <1>14, <1>15 DEF Reads
<1>17. buffered' \in [Ends -> Nat] /\ lastLeft' \in [Ends -> Nat]
  BY <1>1, <1>2
<1>18. inBytes' \in [Ends -> Nat] /\ total' \in [Ends -> [read : Nat, reported : Nat, window : Nat]]
       /\ BytesAcknowledged'
  BY <1>1, <1>6, CountBytes
<1>19. stream[e] \in Seq(Letters)
  BY <1>2
<1>. QED BY <1>1, <1>6, <1>11, <1>12, <1>16, <1>17, <1>18, <1>19
-----------------------------------------------------------------------------
(* Every step *)

LEMMA StreamTypes ==
  ASSUME ReadInv
  PROVE  /\ Types /\ stream = [x \in Ends |-> stream[x]] /\ stream \in [Ends -> Seq(Letters)]
         /\ \A x \in Ends : Goes(x, stream[x])
         /\ \A x \in Ends : stream[x] # <<>> => asked # <<>>
<1>1. Types
  BY DEF ReadInv
<1>2. stream \in [Ends -> Seq(Letters)] /\ \A x \in Ends : \A i \in 1 .. Len(stream[x]) : Letter(x, stream[x][i])
  BY <1>1 DEF Types, Carried, Counters, Here, Dialogue
<1>3. asked = <<>> => stream["server"] = <<>> /\ stream["client"] = <<>>
  BY <1>1 DEF Types, Carried, Counters, Here, Dialogue
<1>4. \A x \in Ends : Goes(x, stream[x])
  BY <1>2 DEF Goes
<1>5. \A x \in Ends : stream[x] # <<>> => asked # <<>>
  BY <1>3 DEF Ends
<1>6. stream = [x \in Ends |-> stream[x]]
  BY <1>2
<1>. QED BY <1>1, <1>2, <1>4, <1>5, <1>6

LEMMA WholeTypes ==
  ASSUME ReadInv, NEW e \in Ends, NEW answers, Readable(e), Complete(e, answers), Goes(Peer(e), answers), Here'
  PROVE  ReadInv'
<1>1. /\ Types /\ stream = [x \in Ends |-> stream[x]] /\ \A x \in Ends : Goes(x, stream[x])
  BY StreamTypes
<1>2. /\ buffered' \in [Ends -> Nat] /\ lastLeft' \in [Ends -> Nat] /\ Reads' /\ BytesAcknowledged'
      /\ inBytes' \in [Ends -> Nat] /\ total' \in [Ends -> [read : Nat, reported : Nat, window : Nat]]
      /\ stream'[e] = Tail(stream[e])
      /\ stream'[Peer(e)] = Cat(Cat(stream[Peer(e)], BytesRecv(e, Rest(e))), answers) /\ Rest(e) \in Nat
      /\ stream[e] # <<>>
      /\ stream' = [x \in Ends |-> stream'[x]]
      /\ kind' = kind /\ asked' = asked /\ said' = said
  BY WholeRead
<1>3. Peer(e) \in Ends /\ Ends = {e, Peer(e)}
  BY EndFacts
<1>4. Goes(e, stream'[e])
  BY <1>1, <1>2, GoesTail
<1>5. Goes(Peer(e), BytesRecv(e, Rest(e)))
  <2>1. CASE BytesRecv(e, Rest(e)) = <<>>
    BY <2>1, GoesNone
  <2>2. ASSUME NEW m \in Letters, m.is = "bytesRead", BytesRecv(e, Rest(e)) = <<m>>
        PROVE  Goes(Peer(e), BytesRecv(e, Rest(e)))
    <3>1. Letter(Peer(e), m)
      BY <2>2 DEF Letter, ServerKinds, ClientKinds
    <3>. QED BY <2>2, <3>1, GoesOne
  <2>. QED BY <1>2, <2>1, <2>2, BytesRecvFacts
<1>6. Goes(Peer(e), stream'[Peer(e)])
  <2>1. Goes(Peer(e), Cat(stream[Peer(e)], BytesRecv(e, Rest(e))))
    BY <1>1, <1>3, <1>5, GoesCat
  <2>. QED BY <1>2, <2>1, GoesCat
<1>7. \A x \in Ends : Goes(x, stream'[x])
  BY <1>3, <1>4, <1>6
<1>8. /\ stream' \in [Ends -> Seq(Letters)]
      /\ \A x \in Ends : \A i \in 1 .. Len(stream'[x]) : Letter(x, stream'[x][i])
  BY <1>2, <1>7 DEF Goes
<1>9. asked' # <<>>
  BY <1>2, StreamTypes
<1>11. kind' \in Kinds
  BY <1>1, <1>2 DEF Types, Carried, Counters, Here, Dialogue
<1>12. /\ asked' \in {<<>>} \cup ({"onPlay", "onPublish"} \X Urls \X Streams)
       /\ said' \in Seq({"request", "ping", "unknown", "bytesRead", "media", "ackSize", "bandwidth"})
  BY <1>1, <1>2 DEF Types, Carried, Counters, Here, Dialogue
<1>10. Types'
  <2>1. Counters'
    BY <1>2 DEF Counters
  <2>2. Carried'
    BY <1>8 DEF Carried
  <2>3. Dialogue'
    BY <1>9, <1>11, <1>12 DEF Dialogue
  <2>. QED BY <1>11, <2>1, <2>2, <2>3 DEF Types
<1>. QED BY <1>2, <1>10 DEF ReadInv

LEMMA PartTypes ==
  ASSUME ReadInv, NEW e \in Ends, NEW n \in 1 .. 2, ReadPart(e, n)
  PROVE  ReadInv'
<1>1. /\ Types /\ stream = [x \in Ends |-> stream[x]] /\ \A x \in Ends : Goes(x, stream[x])
  BY StreamTypes
<1>2. /\ buffered' \in [Ends -> Nat] /\ lastLeft' \in [Ends -> Nat] /\ Reads' /\ BytesAcknowledged'
      /\ inBytes' \in [Ends -> Nat] /\ total' \in [Ends -> [read : Nat, reported : Nat, window : Nat]]
      /\ stream'[e] = stream[e] /\ stream'[Peer(e)] = Cat(stream[Peer(e)], BytesRecv(e, n))
      /\ stream' = [x \in Ends |-> stream'[x]]
  BY PartRead
<1>3. Peer(e) \in Ends /\ Ends = {e, Peer(e)}
  BY EndFacts
<1>4. Goes(Peer(e), BytesRecv(e, n))
  <2>1. CASE BytesRecv(e, n) = <<>>
    BY <2>1, GoesNone
  <2>2. ASSUME NEW m \in Letters, m.is = "bytesRead", BytesRecv(e, n) = <<m>>
        PROVE  Goes(Peer(e), BytesRecv(e, n))
    <3>1. Letter(Peer(e), m)
      BY <2>2 DEF Letter, ServerKinds, ClientKinds
    <3>. QED BY <2>2, <3>1, GoesOne
  <2>3. n \in Nat
    OBVIOUS
  <2>. QED BY <2>1, <2>2, <2>3, BytesRecvFacts
<1>5. Goes(Peer(e), stream'[Peer(e)])
  BY <1>1, <1>2, <1>3, <1>4, GoesCat
<1>6. \A x \in Ends : Goes(x, stream'[x])
  BY <1>1, <1>2, <1>3, <1>5
<1>7. /\ stream' \in [Ends -> Seq(Letters)]
      /\ \A x \in Ends : \A i \in 1 .. Len(stream'[x]) : Letter(x, stream'[x][i])
  BY <1>2, <1>6 DEF Goes
<1>8. /\ UNCHANGED <<kind, asked, said, ackSize, inChunkSize, ctx, calls, closed, requests, results>>
      /\ stream[e] # <<>>
  BY DEF ReadPart, history, Readable
<1>9. asked' # <<>>
  BY <1>8, StreamTypes
<1>0. Here
  BY <1>1 DEF Types, Carried, Counters, Here, Dialogue
<1>11. Here' /\ kind' \in Kinds /\ asked' = asked /\ said' = said
  BY <1>0, <1>1, <1>8 DEF Types, Carried, Counters, Here, Dialogue
<1>12. /\ asked' \in {<<>>} \cup ({"onPlay", "onPublish"} \X Urls \X Streams)
       /\ said' \in Seq({"request", "ping", "unknown", "bytesRead", "media", "ackSize", "bandwidth"})
  BY <1>1, <1>11 DEF Types, Carried, Counters, Here, Dialogue
<1>10. Types'
  <2>1. Counters'
    BY <1>2 DEF Counters
  <2>2. Carried'
    BY <1>7 DEF Carried
  <2>3. Dialogue'
    BY <1>9, <1>11, <1>12 DEF Dialogue
  <2>. QED BY <1>11, <2>1, <2>2, <2>3 DEF Types
<1>. QED BY <1>2, <1>10 DEF ReadInv

(* What is at the head of a stream *)
LEMMA GotFacts ==
  ASSUME ReadInv, NEW e \in Ends, NEW is, Got(e, is)
  PROVE  /\ Readable(e) /\ stream[e] # <<>> /\ Head(stream[e]).is = is /\ Letter(e, Head(stream[e]))
         /\ Own(e) /\ Head(stream[e]) \in Letters /\ asked # <<>> /\ Here
<1>1. Readable(e) /\ Head(stream[e]).is = is /\ stream[e] # <<>> /\ Own(e)
  BY DEF Got, Readable
<1>0. Types
  BY StreamTypes
<1>2. Goes(e, stream[e]) /\ asked # <<>> /\ Here
  <2>1. Here
    BY <1>0 DEF Types, Carried, Counters, Here, Dialogue
  <2>. QED BY <1>1, <2>1, StreamTypes
<1>3. Letter(e, Head(stream[e]))
  BY <1>1, <1>2, GoesTail
<1>. QED BY <1>1, <1>2, <1>3 DEF Letter

LEMMA AppendIn ==
  ASSUME NEW T, NEW s \in Seq(T), NEW x \in T
  PROVE  Append(s, x) \in Seq(T)
OBVIOUS

(* The context after a play or publish *)
LEMMA ParseFacts ==
  ASSUME NEW c \in Context
  PROVE  ParseNameAndTcUrl(c) \in Context
<1>1. /\ c.url.path \in Seq(Parts) /\ c.app \in Seq(Parts) /\ c.url.host \in HostSet /\ c.name.param \in ParamSet
      /\ c.name \in Name /\ c.name.name \in NameSet
  BY DEF Context, Url, Name
<1>2. PICK app : app = IF Len(c.url.path) \in {1, 2} THEN <<c.url.path[1]>>
                       ELSE IF Len(c.app) > 1 THEN Tail(c.app) ELSE c.app
  OBVIOUS
<1>3. app \in Seq(Parts)
  <2>1. CASE Len(c.url.path) \in {1, 2}
    <3>1. c.url.path[1] \in Parts
      BY <1>1, <2>1
    <3>. QED BY <1>2, <2>1, <3>1
  <2>2. CASE Len(c.app) > 1
    <3>1. Tail(c.app) \in Seq(Parts)
      BY <1>1, <2>2, EmptySeq, TailFacts
    <3>. QED BY <1>1, <1>2, <2>1, <3>1
  <2>. QED BY <1>1, <1>2, <2>1, <2>2
<1>4. PICK host : host = IF Len(c.url.path) \in {1, 2} THEN c.url.host ELSE ""
  OBVIOUS
<1>5. host \in HostSet
  BY <1>1, <1>4, ConstantTypes
<1>6. <<host, app, c.name.name>> \in Sessions
  BY <1>1, <1>3, <1>5 DEF Sessions
<1>7. ParseNameAndTcUrl(c) =
        [c EXCEPT !.app = app, !.name.param = "", !.param = c.name.param, !.session = <<host, app, c.name.name>>]
  BY <1>2, <1>4 DEF ParseNameAndTcUrl
<1>8. PICK nm : nm = [c.name EXCEPT !.param = ""]
  OBVIOUS
<1>9. nm \in Name
  BY <1>1, <1>8, ConstantTypes DEF Name
<1>10. ParseNameAndTcUrl(c) =
         [app |-> app, url |-> c.url, name |-> nm, param |-> c.name.param, session |-> <<host, app, c.name.name>>,
          player |-> c.player]
  BY <1>7, <1>8 DEF Context
<1>. QED BY <1>1, <1>3, <1>6, <1>9, <1>10 DEF Context
LEMMA QuietTypes ==
  ASSUME ReadInv, NEW e \in Ends,
         HandleChunkSize(e) \/ HandleAckWindowSize(e) \/ HandleUserMessage(e) \/ Ignored(e) \/ Media(e) \/ HandleError(e)
  PROVE  ReadInv'
<1>1. CASE HandleChunkSize(e)
  <2>1. Got(e, "chunkSize") /\ Complete(e, <<>>)
    BY <1>1 DEF HandleChunkSize
  <2>2. Here /\ Readable(e) /\ Head(stream[e]) \in Letters /\ Head(stream[e]).is = "chunkSize"
    BY <2>1, GotFacts
  <2>3. Head(stream[e]).id = 4096
    BY <2>2, LetterFacts DEF IdOK
  <2>4. Here'
    BY <1>1, <2>2, <2>3 DEF HandleChunkSize, Here, ChunkSizes
  <2>. QED BY <2>1, <2>2, <2>4, GoesNone, WholeTypes
<1>2. CASE HandleAckWindowSize(e)
  <2>1. Got(e, "ackSize") /\ Complete(e, <<>>)
    BY <1>2 DEF HandleAckWindowSize
  <2>2. Here /\ Readable(e) /\ Head(stream[e]) \in Letters /\ Head(stream[e]).is = "ackSize"
    BY <2>1, GotFacts
  <2>3. Head(stream[e]).id \in Windows
    BY <2>2, LetterFacts DEF IdOK
  <2>4. Here'
    BY <1>2, <2>2, <2>3 DEF HandleAckWindowSize, Here
  <2>. QED BY <2>1, <2>2, <2>4, GoesNone, WholeTypes
<1>3. CASE HandleUserMessage(e)
  <2>0. PICK m : m = UserCtrl(Head(stream[e]).id)
    OBVIOUS
  <2>1. Got(e, "ping") /\ Complete(e, <<m>>)
    BY <1>3, <2>0 DEF HandleUserMessage
  <2>2. Here /\ Readable(e) /\ Head(stream[e]) \in Letters
    BY <2>1, GotFacts
  <2>3. m.is = "streamBegin" /\ m \in Letters
    BY <2>0, <2>2, MsgFacts, LetterFacts DEF UserCtrl, Kinds2, ServerKinds
  <2>4. Letter(Peer(e), m)
    BY <2>3 DEF Letter, ServerKinds, ClientKinds
  <2>5. Here'
    BY <1>3, <2>2 DEF HandleUserMessage, Here
  <2>. QED BY <2>1, <2>2, <2>4, <2>5, GoesOne, WholeTypes
<1>4. CASE Ignored(e)
  <2>1. (\E is : Got(e, is)) /\ Complete(e, <<>>)
    BY <1>4 DEF Ignored
  <2>2. Here /\ Readable(e)
    BY <2>1, GotFacts
  <2>3. Here'
    BY <1>4, <2>2 DEF Ignored, Here
  <2>. QED BY <2>1, <2>2, <2>3, GoesNone, WholeTypes
<1>5. CASE Media(e)
  <2>1. Got(e, "media") /\ Complete(e, <<>>)
    BY <1>5 DEF Media
  <2>2. Here /\ Readable(e)
    BY <2>1, GotFacts
  <2>3. <<"onRecv">> \in Calls
    BY DEF Calls
  <2>4. calls' = [calls EXCEPT ![e] = Append(calls[e], <<"onRecv">>)] /\ calls \in [Ends -> Seq(Calls)]
    BY <1>5, <2>2 DEF Media, Here
  <2>5. calls' \in [Ends -> Seq(Calls)]
    BY <2>3, <2>4, AppendIn
  <2>6. Here'
    BY <1>5, <2>2, <2>5 DEF Media, Here
  <2>. QED BY <2>1, <2>2, <2>6, GoesNone, WholeTypes
<1>6. CASE HandleError(e)
  <2>1. Got(e, "error") /\ Complete(e, <<>>)
    BY <1>6 DEF HandleError
  <2>2. Here /\ Readable(e)
    BY <2>1, GotFacts
  <2>3. Here'
    BY <1>6, <2>2 DEF HandleError, Here
  <2>. QED BY <2>1, <2>2, <2>3, GoesNone, WholeTypes
<1>. QED BY <1>1, <1>2, <1>3, <1>4, <1>5, <1>6

(* The requests are read by the server, the answers by the client *)
LEMMA Sides ==
  ASSUME ReadInv, NEW e \in Ends
  PROVE  /\ \A is \in Asks : Got(e, is) => e = "server" /\ Own("server") /\ Peer(e) = "client"
         /\ \A is \in Verdicts : Got(e, is) => e = "client" /\ Own("client") /\ Peer(e) = "server"
<1>1. ASSUME NEW is \in Asks, Got(e, is)
      PROVE  e = "server" /\ Own("server") /\ Peer(e) = "client"
  <2>1. Letter(e, Head(stream[e])) /\ Head(stream[e]).is = is /\ Own(e)
    BY <1>1, GotFacts
  <2>2. e # "client"
    BY <2>1 DEF Letter, ClientKinds, Asks, Verdicts
  <2>. QED BY <2>1, <2>2, EndFacts
<1>2. ASSUME NEW is \in Verdicts, Got(e, is)
      PROVE  e = "client" /\ Own("client") /\ Peer(e) = "server"
  <2>1. Letter(e, Head(stream[e])) /\ Head(stream[e]).is = is /\ Own(e)
    BY <1>2, GotFacts
  <2>2. e # "server"
    BY <2>1 DEF Letter, ServerKinds, Asks, Verdicts
  <2>. QED BY <2>1, <2>2, EndFacts
<1>. QED BY <1>1, <1>2

LEMMA ConnectTypes ==
  ASSUME ReadInv, NEW e \in Ends, HandleConnect(e)
  PROVE  ReadInv' /\ Goes("client", ConnectAnswer(e))
<1>1. /\ Got(e, "connect") /\ Complete(e, ConnectAnswer(e))
      /\ ctx' = [ctx EXCEPT ![e].url = Head(stream[e]).url, ![e].app = Head(stream[e]).app]
      /\ requests' = Append(requests, Head(stream[e]).id)
      /\ UNCHANGED <<ackSize, inChunkSize, calls, closed, results>>
  BY DEF HandleConnect
<1>2. Here /\ Readable(e) /\ Head(stream[e]) \in Letters
  BY <1>1, GotFacts
<1>3. Peer(e) = "client" /\ e = "server"
  BY <1>1, Sides DEF Asks
<1>4. PICK m : m = Head(stream[e])
  OBVIOUS
<1>5. m.id \in Nat /\ m.url \in Url /\ m.app \in Seq(Parts)
  BY <1>2, <1>4, LetterFacts
<1>6. ctx' \in [Ends -> Context]
  <2>1. ctx \in [Ends -> Context]
    BY <1>2 DEF Here
  <2>2. [ctx[e] EXCEPT !.url = m.url, !.app = m.app] \in Context
    <3>1. ctx[e] \in Context
      BY <2>1
    <3>. QED BY <3>1, <1>5 DEF Context
  <2>3. ctx' = [ctx EXCEPT ![e] = [ctx[e] EXCEPT !.url = m.url, !.app = m.app]]
    BY <1>1, <1>4, <2>1 DEF Context
  <2>. QED BY <2>1, <2>2, <2>3
<1>7. requests' \in Seq(Nat)
  BY <1>1, <1>2, <1>4, <1>5, AppendIn DEF Here
<1>8. Here'
  BY <1>1, <1>2, <1>6, <1>7 DEF Here
<1>9. PICK w : w = ackSize[e]
  OBVIOUS
<1>10. w \in Windows /\ w \in Nat
  <2>1. w \in Windows
    BY <1>2, <1>9 DEF Here
  <2>. QED BY <2>1, ConstantTypes
<1>11. PICK p, q, r, s : /\ p = Msg("ackSize", w) /\ q = Msg("bandwidth", w) /\ r = Msg("chunkSize", 4096)
                         /\ s = Msg("accepted", 1)
  OBVIOUS
<1>12. Letter("client", p) /\ Letter("client", q) /\ Letter("client", r) /\ Letter("client", s)
  <2>1. p \in Letters /\ p.is = "ackSize"
    BY <1>10, <1>11, MsgFacts DEF Kinds2, ClientKinds
  <2>2. q \in Letters /\ q.is = "bandwidth"
    BY <1>10, <1>11, MsgFacts DEF Kinds2, ClientKinds
  <2>3. r \in Letters /\ r.is = "chunkSize"
    BY <1>11, MsgFacts DEF Kinds2, ClientKinds
  <2>4. s \in Letters /\ s.is = "accepted"
    BY <1>11, MsgFacts DEF Kinds2, ClientKinds, Verdicts
  <2>. QED BY <2>1, <2>2, <2>3, <2>4 DEF Letter, ClientKinds, Verdicts
<1>13. ConnectAnswer(e) = <<p, q, r, s>>
  BY <1>9, <1>11 DEF ConnectAnswer
<1>14. Goes("client", <<p, q, r, s>>)
  BY <1>12 DEF Goes, Letter
<1>. QED BY <1>1, <1>2, <1>3, <1>8, <1>13, <1>14, WholeTypes

LEMMA CreateStreamTypes ==
  ASSUME ReadInv, NEW e \in Ends, HandleCreateStream(e)
  PROVE  ReadInv'
<1>1. /\ Got(e, "createStream") /\ Complete(e, <<Msg("created", ResultId(e))>>)
      /\ requests' = Append(requests, Head(stream[e]).id)
      /\ UNCHANGED <<ackSize, inChunkSize, ctx, calls, closed, results>>
  BY DEF HandleCreateStream
<1>2. Here /\ Readable(e) /\ Head(stream[e]) \in Letters
  BY <1>1, GotFacts
<1>3. Peer(e) = "client" /\ e = "server"
  BY <1>1, Sides DEF Asks
<1>4. PICK n : n = Head(stream[e]).id
  OBVIOUS
<1>5. n \in Nat
  BY <1>2, <1>4, LetterFacts
<1>6. requests' \in Seq(Nat)
  BY <1>1, <1>2, <1>4, <1>5, AppendIn DEF Here
<1>7. Here'
  BY <1>1, <1>2, <1>6 DEF Here
<1>8. PICK m : m = Msg("created", n)
  OBVIOUS
<1>9. m \in Letters /\ m.is = "created"
  BY <1>5, <1>8, MsgFacts DEF Kinds2, ClientKinds, Verdicts
<1>10. Letter("client", m)
  BY <1>9 DEF Letter, ClientKinds, Verdicts
<1>11. Complete(e, <<m>>)
  BY <1>1, <1>4, <1>8 DEF ResultId
<1>. QED BY <1>2, <1>3, <1>7, <1>10, <1>11, GoesOne, WholeTypes

LEMMA PlayTypes ==
  ASSUME ReadInv, NEW e \in Ends, HandlePlay(e) \/ HandlePublish(e)
  PROVE  ReadInv'
<1>1. PICK is, m, answers :
        /\ is \in Plays /\ m \in Letters /\ Got(e, is) /\ m = Head(stream[e]) /\ Complete(e, answers)
        /\ answers = IF is = "play" THEN <<UserCtrl(1), Msg("onStatus", 0)>> ELSE <<Msg("onStatus", 0)>>
        /\ ctx' = [ctx EXCEPT ![e] = ParseNameAndTcUrl([ctx[e] EXCEPT !.name = m.name, !.player = (is = "play")])]
        /\ calls' = [calls EXCEPT ![e] = Append(calls[e], <<IF is = "play" THEN "onPlay" ELSE "onPublish", ctx'[e].session>>)]
        /\ UNCHANGED <<ackSize, inChunkSize, closed, requests, results>>
  <2>1. CASE HandlePlay(e)
    <3>1. Got(e, "play")
      BY <2>1 DEF HandlePlay
    <3>2. Head(stream[e]) \in Letters /\ "play" \in Plays /\ ("play" = "play") = TRUE
      BY <3>1, GotFacts DEF Plays
    <3>. QED BY <2>1, <3>2, Zenon DEF HandlePlay
  <2>2. CASE HandlePublish(e)
    <3>1. Got(e, "publish")
      BY <2>2 DEF HandlePublish
    <3>2. Head(stream[e]) \in Letters /\ "publish" \in Plays /\ ("publish" = "play") = FALSE
      BY <3>1, GotFacts DEF Plays
    <3>. QED BY <2>2, <3>2, Zenon DEF HandlePublish
  <2>. QED BY <2>1, <2>2
<1>2. Here /\ Readable(e)
  BY <1>1, GotFacts
<1>3. Peer(e) = "client" /\ e = "server"
  <2>1. is \in Asks
    BY <1>1 DEF Asks, Plays
  <2>. QED BY <1>1, <2>1, Sides
<1>4. PICK c : c = [ctx[e] EXCEPT !.name = m.name, !.player = (is = "play")]
  OBVIOUS
<1>5. c \in Context /\ ctx \in [Ends -> Context]
  <2>1. ctx \in [Ends -> Context] /\ ctx[e] \in Context /\ m.name \in Name
    BY <1>1, <1>2, LetterFacts DEF Here
  <2>. QED BY <1>4, <2>1 DEF Context
<1>6. PICK d : d = ParseNameAndTcUrl(c)
  OBVIOUS
<1>7. d \in Context
  BY <1>5, <1>6, ParseFacts
<1>8. ctx' = [ctx EXCEPT ![e] = d]
  BY <1>1, <1>4, <1>6
<1>9. ctx' \in [Ends -> Context] /\ ctx'[e].session = d.session /\ d.session \in Sessions
  BY <1>5, <1>7, <1>8 DEF Context
<1>10. <<IF is = "play" THEN "onPlay" ELSE "onPublish", ctx'[e].session>> \in Calls
  BY <1>9 DEF Calls
<1>11. calls' \in [Ends -> Seq(Calls)]
  BY <1>1, <1>2, <1>10, AppendIn DEF Here
<1>12. Here'
  BY <1>1, <1>2, <1>9, <1>11 DEF Here
<1>13. PICK a, b : a = UserCtrl(1) /\ b = Msg("onStatus", 0)
  OBVIOUS
<1>14. Letter("client", a) /\ Letter("client", b)
  <2>1. a \in Letters /\ a.is = "streamBegin"
    BY <1>13, MsgFacts DEF Kinds2, ClientKinds, UserCtrl
  <2>2. b \in Letters /\ b.is = "onStatus"
    BY <1>13, MsgFacts DEF Kinds2, ClientKinds
  <2>. QED BY <2>1, <2>2 DEF Letter, ClientKinds
<1>15. Goes("client", answers)
  <2>1. Goes("client", <<b>>)
    BY <1>14, GoesOne
  <2>2. Goes("client", <<a, b>>)
    BY <1>14 DEF Goes, Letter
  <2>. QED BY <1>1, <1>13, <2>1, <2>2
<1>. QED BY <1>1, <1>2, <1>3, <1>12, <1>15, WholeTypes
LEMMA ResultTypes ==
  ASSUME ReadInv, NEW e \in Ends, HandleResult(e)
  PROVE  ReadInv'
<1>1. PICK is, m, answers :
        /\ is \in Results /\ m \in Letters /\ Got(e, is) /\ m = Head(stream[e]) /\ Complete(e, answers)
        /\ answers = CASE m.id = 1 -> <<Msg("createStream", 4)>> [] m.id = 4 -> <<Request(e)>> [] OTHER -> <<>>
        /\ calls' = IF m.id = 5 THEN [calls EXCEPT ![e] = Append(calls[e], <<"onPublishPrepare">>)] ELSE calls
        /\ results' = Append(results, m.id)
        /\ UNCHANGED <<ackSize, inChunkSize, ctx, closed, requests>>
  <2>1. \E is \in Results : Got(e, is) /\ Head(stream[e]) \in Letters
    BY GotFacts DEF HandleResult, Results
  <2>. QED BY <2>1 DEF HandleResult
<1>2. Here /\ Readable(e) /\ m.id \in Nat
  BY <1>1, GotFacts, LetterFacts
<1>3. Peer(e) = "server" /\ e = "client"
  <2>1. is \in Verdicts
    BY <1>1 DEF Verdicts, Results
  <2>. QED BY <1>1, <2>1, Sides
<1>4. <<"onPublishPrepare">> \in Calls
  BY DEF Calls
<1>5. calls' \in [Ends -> Seq(Calls)]
  BY <1>1, <1>2, <1>4, AppendIn DEF Here
<1>6. results' \in Seq(Nat)
  BY <1>1, <1>2, AppendIn DEF Here
<1>7. Here'
  BY <1>1, <1>2, <1>5, <1>6 DEF Here
<1>8. PICK a, b : a = Msg("createStream", 4) /\ b = Request(e)
  OBVIOUS
<1>9. Letter("server", a)
  <2>1. a \in Letters /\ a.is = "createStream"
    BY <1>8, MsgFacts DEF Kinds2, ServerKinds, Asks
  <2>. QED BY <2>1 DEF Letter, ServerKinds, Asks
<1>10. Letter("server", b)
  <2>1. PICK nm : nm = ctx[e].name
    OBVIOUS
  <2>2. nm \in Name
    BY <1>2, <2>1 DEF Here, Context
  <2>3. PICK p, q : p = Msg("play", 0) /\ q = Msg("publish", 5)
    OBVIOUS
  <2>4. p \in Letters /\ p.is = "play" /\ q \in Letters /\ q.is = "publish"
    BY <2>3, MsgFacts DEF Kinds2, ServerKinds, Asks
  <2>5. b = [p EXCEPT !.name = nm] \/ b = [q EXCEPT !.name = nm]
    BY <1>8, <2>1, <2>3 DEF Request
  <2>6. b \in Letters /\ b.is \in Plays
    BY <2>2, <2>4, <2>5 DEF Letters, Message, IdOK, Plays
  <2>. QED BY <2>6 DEF Letter, ServerKinds, Asks, Plays
<1>11. Goes("server", answers)
  BY <1>1, <1>8, <1>9, <1>10, GoesOne, GoesNone
<1>. QED BY <1>1, <1>2, <1>3, <1>7, <1>11, WholeTypes

(* The steps that are not a read of this code's contexts *)
Elsewhere == UNCHANGED <<kind, buffered, lastLeft, inBytes, total>>

LEMMA OtherTypes ==
  ASSUME ReadInv, Elsewhere, Carried', Here', Dialogue',
         \A e \in Ends : stream'[e] = stream[e] \/ buffered[e] = 0
                         \/ (stream[e] # <<>> /\ stream'[e] # <<>> /\ Head(stream'[e]) = Head(stream[e]))
  PROVE  ReadInv'
<1>1. Types
  BY StreamTypes
<1>2. Types'
  BY <1>1 DEF Types, Counters, Elsewhere
<1>3. ASSUME NEW e \in Ends
      PROVE  ReadOf(e)'
  <2>1. ReadOf(e) /\ (Own(e)' <=> Own(e))
    BY DEF ReadInv, Reads, Own, Elsewhere
  <2>2. CASE stream'[e] = stream[e]
    BY <2>1, <2>2 DEF ReadOf, Elsewhere
  <2>3. CASE buffered[e] = 0
    BY <2>1, <2>3, SizeFacts DEF ReadOf, Elsewhere
  <2>4. CASE stream[e] # <<>> /\ stream'[e] # <<>> /\ Head(stream'[e]) = Head(stream[e])
    BY <2>1, <2>4 DEF ReadOf, Elsewhere
  <2>. QED BY <2>2, <2>3, <2>4
<1>4. BytesAcknowledged'
  BY DEF ReadInv, BytesAcknowledged, Elsewhere
<1>. QED BY <1>2, <1>3, <1>4 DEF ReadInv, Reads

(* More goes to an end *)
LEMMA MoreTypes ==
  ASSUME ReadInv, NEW e \in Ends, NEW t, t # <<>>, Goes(e, t), stream' = [stream EXCEPT ![e] = Cat(@, t)]
  PROVE  /\ Carried' /\ \A x \in Ends : Goes(x, stream'[x])
         /\ \A x \in Ends : stream'[x] = stream[x] \/ buffered[x] = 0
                         \/ (stream[x] # <<>> /\ stream'[x] # <<>> /\ Head(stream'[x]) = Head(stream[x]))
<1>1. stream \in [Ends -> Seq(Letters)] /\ \A x \in Ends : Goes(x, stream[x])
  BY StreamTypes
<1>2. stream'[e] = Cat(stream[e], t) /\ (\A x \in Ends : x # e => stream'[x] = stream[x])
      /\ stream' = [x \in Ends |-> stream'[x]]
  BY <1>1
<1>3. Goes(e, stream'[e])
  BY <1>1, <1>2, GoesCat
<1>4. \A x \in Ends : Goes(x, stream'[x])
  BY <1>1, <1>2, <1>3
<1>5. Carried'
  BY <1>2, <1>4 DEF Carried, Goes
<1>6. stream[e] = <<>> => buffered[e] = 0
  BY DEF ReadInv, Reads, ReadOf
<1>7. stream[e] # <<>> => stream'[e] # <<>> /\ Head(stream'[e]) = Head(stream[e])
  <2>1. PICK s : s = stream[e]
    OBVIOUS
  <2>2. s \in Seq(Letters) /\ t \in Seq(Letters)
    BY <1>1, <2>1 DEF Goes
  <2>3. s # <<>> => Cat(s, t) # <<>> /\ Head(Cat(s, t)) = Head(s)
    BY <2>2 DEF Cat
  <2>. QED BY <1>2, <2>1, <2>3
<1>. QED BY <1>2, <1>4, <1>5, <1>6, <1>7
LEMMA NewContextFacts ==
  ASSUME NEW url \in Url, NEW player \in BOOLEAN
  PROVE  NewContext(player, url) \in Context
<1>1. <<>> \in Sessions /\ <<>> \in Seq(Parts) /\ NoStream \in Name /\ "" \in ParamSet
  BY ConstantTypes DEF Sessions
<1>. QED BY <1>1 DEF NewContext, Context

(* What this code's client connects with: an application of one part, and the name in the URL *)
Clients(url, s, player) == ParseNameAndTcUrl(NewContext(player, [url EXCEPT !.path = <<@[1], s.name>>]))

LEMMA ClientFacts ==
  ASSUME NEW url \in Urls, NEW s \in Streams, NEW player \in BOOLEAN
  PROVE  /\ Clients(url, s, player) \in Context
         /\ Clients(url, s, player) =
              [app |-> <<url.path[1]>>, url |-> [url EXCEPT !.path = <<url.path[1], s.name>>], name |-> NoStream,
               param |-> "", session |-> <<url.host, <<url.path[1]>>, "">>, player |-> player]
<1>1. PICK p, n : p = url.path[1] /\ n = s.name
  OBVIOUS
<1>2. p \in Parts /\ n \in Parts /\ url \in Url
  BY <1>1, ConstantTypes
<1>3. PICK v : v = [url EXCEPT !.path = <<p, n>>]
  OBVIOUS
<1>4. v \in Url /\ v.path = <<p, n>> /\ v.host = url.host
  <2>1. <<p, n>> \in Seq(Parts)
    BY <1>2
  <2>. QED BY <1>2, <1>3, <2>1 DEF Url
<1>5. PICK c : c = NewContext(player, v)
  OBVIOUS
<1>6. c \in Context
  BY <1>4, <1>5, NewContextFacts
<1>7. Clients(url, s, player) = ParseNameAndTcUrl(c)
  BY <1>1, <1>2, <1>3, <1>5 DEF Clients, Url
<1>8. /\ c = [app |-> <<>>, url |-> v, name |-> NoStream, param |-> "", session |-> <<>>, player |-> player]
      /\ Len(c.url.path) = 2 /\ c.url.path[1] = p /\ c.url.host = url.host
  <2>1. c = [app |-> <<>>, url |-> v, name |-> NoStream, param |-> "", session |-> <<>>, player |-> player]
    BY <1>5 DEF NewContext
  <2>2. c.url = v
    BY <2>1
  <2>3. v.path[1] = p /\ Len(v.path) = 2
    BY <1>4
  <2>. QED BY <1>4, <2>1, <2>2, <2>3
<1>9. ParseNameAndTcUrl(c) = [c EXCEPT !.app = <<p>>, !.name.param = "", !.param = c.name.param,
                                       !.session = <<url.host, <<p>>, c.name.name>>]
  BY <1>8 DEF ParseNameAndTcUrl
<1>10. c.name = NoStream /\ NoStream.name = "" /\ NoStream.param = "" /\ [NoStream EXCEPT !.param = ""] = NoStream
  <2>1. c.name = NoStream
    BY <1>8
  <2>2. NoStream \in [name : {""}, param : {""}] /\ NoStream.name = "" /\ NoStream.param = ""
    BY DEF NoStream
  <2>3. [NoStream EXCEPT !.param = ""] = NoStream
    BY <2>2
  <2>. QED BY <2>1, <2>2, <2>3
<1>11. ParseNameAndTcUrl(c) =
         [app |-> <<p>>, url |-> v, name |-> NoStream, param |-> "", session |-> <<url.host, <<p>>, "">>, player |-> player]
  <2>1. PICK se : se = <<url.host, <<p>>, "">>
    OBVIOUS
  <2>2. PICK ap : ap = <<p>>
    OBVIOUS
  <2>3. ParseNameAndTcUrl(c) = [c EXCEPT !.app = ap, !.name.param = "", !.param = "", !.session = se]
    BY <1>9, <1>10, <2>1, <2>2
  <2>4. c = [app |-> c.app, url |-> v, name |-> NoStream, param |-> "", session |-> c.session, player |-> player]
    BY <1>8
  <2>5. ParseNameAndTcUrl(c) = [app |-> ap, url |-> v, name |-> [NoStream EXCEPT !.param = ""], param |-> "",
                                 session |-> se, player |-> player]
    <3>1. ParseNameAndTcUrl(c) = [app |-> ap, url |-> c.url, name |-> [c.name EXCEPT !.param = ""], param |-> "",
                                  session |-> se, player |-> c.player]
      BY <1>6, <2>3 DEF Context
    <3>2. c.url = v /\ c.name = NoStream /\ c.player = player
      BY <1>8
    <3>. QED BY <3>1, <3>2
  <2>. QED BY <1>10, <2>1, <2>2, <2>5
<1>. QED BY <1>1, <1>3, <1>6, <1>7, <1>11, ParseFacts

LEMMA ConnectMsgFacts ==
  ASSUME NEW app \in Seq(Parts), NEW url \in Url
  PROVE  /\ [Msg("connect", 1) EXCEPT !.app = app, !.url = url] \in Letters
         /\ [Msg("connect", 1) EXCEPT !.app = app, !.url = url]
              = [is |-> "connect", id |-> 1, app |-> app, url |-> url, name |-> NoStream]
<1>1. [Msg("connect", 1) EXCEPT !.app = app, !.url = url]
        = [is |-> "connect", id |-> 1, app |-> app, url |-> url, name |-> NoStream]
  <2>1. PICK b : b = Msg("connect", 1)
    OBVIOUS
  <2>2. b = [is |-> "connect", id |-> 1, app |-> <<>>, url |-> NoUrl, name |-> NoStream]
    BY <2>1 DEF Msg
  <2>3. [b EXCEPT !.app = app, !.url = url] = [is |-> "connect", id |-> 1, app |-> app, url |-> url, name |-> NoStream]
    <3>1. b.is = "connect" /\ b.id = 1 /\ b.name = NoStream
      BY <2>2
    <3>2. b \in Letters
      BY <2>1, MsgFacts DEF Kinds2, ServerKinds, Asks
    <3>3. PICK d : d = [b EXCEPT !.app = app]
      OBVIOUS
    <3>4. d \in Message(Kinds2) /\ d.is = b.is /\ d.id = b.id /\ d.app = app /\ d.name = b.name
      BY <3>2, <3>3 DEF Letters, Message
    <3>5. [d EXCEPT !.url = url] = [is |-> d.is, id |-> d.id, app |-> d.app, url |-> url, name |-> d.name]
      BY <3>4 DEF Message
    <3>6. [b EXCEPT !.app = app, !.url = url] = [d EXCEPT !.url = url]
      BY <3>3
    <3>. QED BY <3>1, <3>4, <3>5, <3>6
  <2>. QED BY <2>1, <2>3
<1>2. [is |-> "connect", id |-> 1, app |-> app, url |-> url, name |-> NoStream] \in Letters
  BY ConstantTypes DEF Letters, Message, IdOK, Kinds2, ServerKinds, Asks
<1>. QED BY <1>1, <1>2

LEMMA SendConnectTypes ==
  ASSUME ReadInv, SendConnect
  PROVE  ReadInv'
<1>1. PICK url \in Urls, s \in Streams, player \in BOOLEAN :
        LET c == ParseNameAndTcUrl(NewContext(player, [url EXCEPT !.path = <<@[1], s.name>>])) IN
         /\ ctx' = [ctx EXCEPT !["client"] = c]
         /\ stream' = [stream EXCEPT !["server"] = @ \o <<Msg("chunkSize", 4096), ConnectMsg(c)>>]
         /\ asked' = <<IF player THEN "onPlay" ELSE "onPublish", url, s>>
  BY DEF SendConnect
<1>2. PICK c : c = Clients(url, s, player)
  OBVIOUS
<1>3. PICK m, n : m = Msg("chunkSize", 4096) /\ n = ConnectMsg(c)
  OBVIOUS
<1>4. /\ ctx' = [ctx EXCEPT !["client"] = c]
      /\ stream' = [stream EXCEPT !["server"] = Cat(@, <<m, n>>)]
      /\ asked' = <<IF player THEN "onPlay" ELSE "onPublish", url, s>>
  BY <1>1, <1>2, <1>3 DEF Clients, Cat
<1>5. Elsewhere /\ UNCHANGED <<said, ackSize, inChunkSize, calls, closed, requests, results>>
  BY DEF SendConnect, Elsewhere
<1>6. c \in Context
  BY <1>2, ClientFacts
<1>7. Types
  BY StreamTypes
<1>8. Here'
  <2>1. ctx \in [Ends -> Context]
    BY <1>7 DEF Types, Here
  <2>2. ctx' \in [Ends -> Context]
    BY <1>4, <1>6, <2>1
  <2>. QED BY <1>5, <1>7, <2>2 DEF Types, Here
<1>9. Letter("server", m) /\ Letter("server", n)
  <2>1. m \in Letters /\ m.is = "chunkSize"
    BY <1>3, MsgFacts DEF Kinds2, ServerKinds
  <2>2. c.app \in Seq(Parts) /\ c.url \in Url
    BY <1>6 DEF Context
  <2>3. n \in Letters /\ n.is = "connect"
    BY <1>3, <2>2, ConnectMsgFacts DEF ConnectMsg
  <2>. QED BY <2>1, <2>3 DEF Letter, ServerKinds, Asks
<1>10. Goes("server", <<m, n>>)
  BY <1>9 DEF Goes, Letter
<1>11. "server" \in Ends /\ <<m, n>> # <<>>
  BY DEF Ends
<1>12. Dialogue'
  BY <1>4, <1>5, <1>7 DEF Types, Dialogue, Elsewhere
<1>. QED BY <1>4, <1>5, <1>8, <1>10, <1>11, <1>12, MoreTypes, OtherTypes
(* What another program sends *)
LEMMA NamedFacts ==
  ASSUME NEW is \in Plays, NEW id \in Nat, NEW nm \in Name
  PROVE  /\ [Msg(is, id) EXCEPT !.name = nm] \in Letters
         /\ [Msg(is, id) EXCEPT !.name = nm].is = is /\ [Msg(is, id) EXCEPT !.name = nm].name = nm
         /\ [Msg(is, id) EXCEPT !.name = nm].id = id
<1>1. PICK b : b = Msg(is, id)
  OBVIOUS
<1>2. b \in Letters /\ b.is = is /\ b.id = id
  <2>1. is \in Kinds2 /\ is \notin {"chunkSize", "ackSize", "connect", "accepted"}
    BY DEF Plays, Kinds2, ServerKinds, Asks
  <2>. QED BY <1>1, <2>1, MsgFacts
<1>3. PICK d : d = [b EXCEPT !.name = nm]
  OBVIOUS
<1>4. d \in Message(Kinds2) /\ d.is = is /\ d.name = nm /\ d.id = id
  BY <1>2, <1>3 DEF Letters, Message
<1>5. IdOK(d)
  BY <1>2, <1>4 DEF Letters, IdOK
<1>. QED BY <1>1, <1>3, <1>4, <1>5 DEF Letters

LEMMA ChatterFacts ==
  /\ \A m \in {Msg("ping", 7), Msg("unknown", 0), Msg("bytesRead", 0), Msg("media", 0)}
                     \cup {Msg("ackSize", w) : w \in OtherWindows} :
       Letter("server", m) /\ m.is \in {"ping", "unknown", "bytesRead", "media", "ackSize"}
  /\ \A m \in {Msg("ping", 7), Msg("bandwidth", 0)} \cup {Msg("ackSize", w) : w \in OtherWindows} :
       Letter("client", m) /\ m.is \in {"ping", "bandwidth", "ackSize"}
<1>1. ASSUME NEW is \in {"ping", "unknown", "bytesRead", "media", "bandwidth"}, NEW n \in {0, 7}
      PROVE  Msg(is, n) \in Letters /\ Msg(is, n).is = is
  <2>1. is \in Kinds2 /\ n \in Nat /\ is \notin {"chunkSize", "ackSize", "connect", "accepted"}
    BY DEF Kinds2, ServerKinds, ClientKinds
  <2>. QED BY <2>1, MsgFacts
<1>2. ASSUME NEW w \in OtherWindows
      PROVE  Msg("ackSize", w) \in Letters /\ Msg("ackSize", w).is = "ackSize"
  <2>1. "ackSize" \in Kinds2 /\ w \in Nat /\ w \in Windows
    BY ConstantTypes DEF Kinds2, ServerKinds, Windows
  <2>. QED BY <2>1, MsgFacts
<1>3. ASSUME NEW m \in {Msg("ping", 7), Msg("unknown", 0), Msg("bytesRead", 0), Msg("media", 0)}
                     \cup {Msg("ackSize", w) : w \in OtherWindows}
      PROVE  Letter("server", m) /\ m.is \in {"ping", "unknown", "bytesRead", "media", "ackSize"}
  <2>1. m \in Letters /\ m.is \in {"ping", "unknown", "bytesRead", "media", "ackSize"}
    BY <1>1, <1>2
  <2>. QED BY <2>1 DEF Letter, ServerKinds
<1>4. ASSUME NEW m \in {Msg("ping", 7), Msg("bandwidth", 0)} \cup {Msg("ackSize", w) : w \in OtherWindows}
      PROVE  Letter("client", m) /\ m.is \in {"ping", "bandwidth", "ackSize"}
  <2>1. m \in Letters /\ m.is \in {"ping", "bandwidth", "ackSize"}
    BY <1>1, <1>2
  <2>. QED BY <2>1 DEF Letter, ClientKinds
<1>. QED BY <1>3, <1>4

LEMMA AppendCat ==
  ASSUME NEW T, NEW s \in Seq(T), NEW x \in T
  PROVE  Append(s, x) = Cat(s, <<x>>)
BY DEF Cat

(* What another client asks for *)
FirstOf(url)   == [Msg("connect", 1) EXCEPT !.app = url.path, !.url = url]
AsksFor(a)     == [Msg(IF a[1] = "onPlay" THEN "play" ELSE "publish", 3) EXCEPT !.name = a[3]]
Opens == /\ asked = <<>>
         /\ \E url \in Urls, s \in Streams, call \in {"onPlay", "onPublish"} :
              /\ asked' = <<call, url, s>>
              /\ stream' = [stream EXCEPT !["server"] = <<FirstOf(url), Msg("createStream", 2)>>]
         /\ UNCHANGED said
AsksOnce == /\ asked # <<>> /\ "request" \notin ToSet(said)
            /\ stream' = [stream EXCEPT !["server"] = Append(@, AsksFor(asked))]
            /\ said' = Append(said, "request")
            /\ UNCHANGED asked
Rests == UNCHANGED <<ackSize, inChunkSize, ctx, calls, closed, requests, results>>

(* A quiet message of another program goes to e *)
Chats(e, m) ==
  /\ Letter(e, m) /\ m.is \in {"ping", "unknown", "bytesRead", "media", "ackSize", "bandwidth"}
  /\ stream' = [stream EXCEPT ![e] = Cat(@, <<m>>)]
  /\ said' = Append(said, m.is) /\ asked' = asked /\ asked # <<>>

LEMMA OtherClientCases ==
  ASSUME ReadInv, OtherClient
  PROVE  /\ Elsewhere /\ Rests /\ ~Own("client")
         /\ Opens \/ AsksOnce \/ \E m : Chats("server", m)
<1>1. Elsewhere /\ Rests /\ ~Own("client")
  BY DEF OtherClient, Elsewhere, Rests
<1>2. stream["server"] \in Seq(Letters)
  BY StreamTypes, EndFacts
<1>3. ASSUME asked # <<>>, NEW m \in {Msg("ping", 7), Msg("unknown", 0), Msg("bytesRead", 0), Msg("media", 0)}
                     \cup {Msg("ackSize", w) : w \in OtherWindows},
             stream' = [stream EXCEPT !["server"] = Append(@, m)], said' = Append(said, m.is), asked' = asked
      PROVE  Chats("server", m)
  <2>1. Letter("server", m) /\ m.is \in {"ping", "unknown", "bytesRead", "media", "ackSize"}
    BY ChatterFacts
  <2>2. Append(stream["server"], m) = Cat(stream["server"], <<m>>)
    BY <1>2, <2>1, AppendCat DEF Letter
  <2>. QED BY <1>3, <2>1, <2>2 DEF Chats
<1>4. Opens \/ AsksOnce \/ \E m : Chats("server", m)
  <2>1. CASE Opens
    BY <2>1
  <2>2. CASE AsksOnce
    BY <2>2
  <2>3. CASE
        /\ asked # <<>> /\ Len(said) < MaxSaid
        /\ \E m \in {Msg("ping", 7), Msg("unknown", 0), Msg("bytesRead", 0), Msg("media", 0)}
                     \cup {Msg("ackSize", w) : w \in OtherWindows} :
             /\ stream' = [stream EXCEPT !["server"] = Append(@, m)]
             /\ said' = Append(said, m.is)
        /\ UNCHANGED asked
    BY <1>3, <2>3
  <2>. QED BY <2>1, <2>2, <2>3, Zenon DEF OtherClient, Opens, AsksOnce, FirstOf, AsksFor
<1>. QED BY <1>1, <1>4

LEMMA ChatsTypes ==
  ASSUME ReadInv, NEW e \in Ends, NEW m, Chats(e, m), Elsewhere, Here'
  PROVE  ReadInv'
<1>1. Letter(e, m) /\ stream' = [stream EXCEPT ![e] = Cat(@, <<m>>)] /\ <<m>> # <<>> /\ Goes(e, <<m>>)
  BY GoesOne DEF Chats
<1>2. Types
  BY StreamTypes
<1>3. Dialogue'
  BY <1>2 DEF Types, Dialogue, Chats, Elsewhere
<1>. QED BY <1>1, <1>3, MoreTypes, OtherTypes

LEMMA AskedFacts ==
  ASSUME ReadInv, asked # <<>>
  PROVE  /\ asked[1] \in {"onPlay", "onPublish"} /\ asked[2] \in Urls /\ asked[3] \in Streams
         /\ AsksFor(asked) \in Letters /\ AsksFor(asked).name = asked[3] /\ AsksFor(asked).id = 3
         /\ AsksFor(asked).is = (IF asked[1] = "onPlay" THEN "play" ELSE "publish")
         /\ AsksFor(asked).is \in Plays
<1>1. asked[1] \in {"onPlay", "onPublish"} /\ asked[2] \in Urls /\ asked[3] \in Streams
  BY StreamTypes DEF Types, Dialogue
<1>2. asked[3] \in Name
  BY <1>1, ConstantTypes
<1>3. PICK is : is = IF asked[1] = "onPlay" THEN "play" ELSE "publish"
  OBVIOUS
<1>4. is \in Plays
  BY <1>3 DEF Plays
<1>5. AsksFor(asked) = [Msg(is, 3) EXCEPT !.name = asked[3]]
  BY <1>3 DEF AsksFor
<1>. QED BY <1>1, <1>2, <1>3, <1>4, <1>5, NamedFacts

LEMMA OpensFacts ==
  ASSUME NEW url \in Urls
  PROVE  Goes("server", <<FirstOf(url), Msg("createStream", 2)>>)
<1>1. url \in Url /\ url.path \in Seq(Parts)
  BY ConstantTypes
<1>2. PICK m, n : m = FirstOf(url) /\ n = Msg("createStream", 2)
  OBVIOUS
<1>3. m \in Letters /\ m.is = "connect"
  BY <1>1, <1>2, ConnectMsgFacts DEF FirstOf
<1>4. n \in Letters /\ n.is = "createStream"
  BY <1>2, MsgFacts DEF Kinds2, ServerKinds, Asks
<1>5. Goes("server", <<m, n>>)
  BY <1>3, <1>4 DEF Goes, Letter, ServerKinds, Asks
<1>. QED BY <1>2, <1>5

LEMMA OtherClientTypes ==
  ASSUME ReadInv, OtherClient
  PROVE  ReadInv'
<1>1. Elsewhere /\ Rests /\ ~Own("client") /\ Types /\ "server" \in Ends /\ "client" \in Ends
  BY OtherClientCases, StreamTypes, EndFacts
<1>2. Here'
  BY <1>1 DEF Types, Here, Rests
<1>3. CASE Opens
  <2>1. PICK url \in Urls, s \in Streams, call \in {"onPlay", "onPublish"} :
              /\ asked' = <<call, url, s>>
              /\ stream' = [stream EXCEPT !["server"] = <<FirstOf(url), Msg("createStream", 2)>>]
    BY <1>3 DEF Opens
  <2>2. PICK t : t = <<FirstOf(url), Msg("createStream", 2)>>
    OBVIOUS
  <2>3. Goes("server", t) /\ t # <<>>
    BY <2>2, OpensFacts
  <2>4. stream["server"] = <<>> /\ asked = <<>> /\ said' = said
    BY <1>1, <1>3 DEF Opens, Types, Dialogue
  <2>5. t \in Seq(Letters)
    BY <2>3 DEF Goes
  <2>6. Cat(stream["server"], t) = t
    BY <2>4, <2>5, CatEmpty
  <2>7. stream' = [stream EXCEPT !["server"] = Cat(@, t)]
    BY <2>1, <2>2, <2>6
  <2>8. Dialogue'
    BY <1>1, <2>1, <2>4 DEF Types, Dialogue, Elsewhere
  <2>. QED BY <1>1, <1>2, <2>3, <2>7, <2>8, MoreTypes, OtherTypes
<1>4. CASE AsksOnce
  <2>1. PICK m : m = AsksFor(asked)
    OBVIOUS
  <2>2. m \in Letters /\ m.is \in Plays
    BY <1>4, <2>1, AskedFacts DEF AsksOnce
  <2>3. Letter("server", m)
    BY <2>2 DEF Letter, ServerKinds, Asks, Plays
  <2>4. Goes("server", <<m>>) /\ <<m>> # <<>>
    BY <2>3, GoesOne
  <2>5. Append(stream["server"], m) = Cat(stream["server"], <<m>>)
    <3>1. stream["server"] \in Seq(Letters)
      BY <1>1, StreamTypes
    <3>. QED BY <2>2, <3>1, AppendCat
  <2>6. stream' = [stream EXCEPT !["server"] = Cat(@, <<m>>)]
    BY <1>4, <2>1, <2>5 DEF AsksOnce
  <2>7. Dialogue'
    BY <1>1, <1>4 DEF Types, Dialogue, AsksOnce, Elsewhere
  <2>. QED BY <1>1, <1>2, <2>4, <2>6, <2>7, MoreTypes, OtherTypes
<1>5. CASE \E m : Chats("server", m)
  BY <1>1, <1>2, <1>5, ChatsTypes
<1>. QED BY <1>3, <1>4, <1>5, OtherClientCases
LEMMA ExceptIn ==
  ASSUME NEW A, NEW T, NEW f \in [A -> T], NEW e, NEW n \in T
  PROVE  [f EXCEPT ![e] = n] \in [A -> T]
OBVIOUS

(* What another server answers *)
Replies(m, answer) ==
  /\ stream["server"] # <<>> /\ m = Head(stream["server"]) /\ answer \in Answers(m)
  /\ stream' = [stream EXCEPT !["server"] = Tail(@), !["client"] = @ \o answer]
  /\ requests' = IF m.is \in {"connect", "createStream", "publish"} THEN Append(requests, m.id) ELSE requests
  /\ inChunkSize' = IF m.is = "chunkSize" THEN [inChunkSize EXCEPT !["server"] = m.id] ELSE inChunkSize
  /\ said' = said /\ asked' = asked

LEMMA OtherServerCases ==
  ASSUME ReadInv, OtherServer
  PROVE  /\ Elsewhere /\ ~Own("server") /\ UNCHANGED <<ackSize, ctx, calls, closed, results>>
         /\ \/ \E m, answer : Replies(m, answer)
            \/ UNCHANGED <<requests, inChunkSize>> /\ \E m : Chats("client", m)
<1>1. Elsewhere /\ ~Own("server") /\ UNCHANGED <<asked, ackSize, ctx, calls, closed, results>>
  BY DEF OtherServer, Elsewhere
<1>2. stream["client"] \in Seq(Letters)
  BY StreamTypes, EndFacts
<1>3. ASSUME asked # <<>>, NEW m \in {Msg("ping", 7), Msg("bandwidth", 0)} \cup {Msg("ackSize", w) : w \in OtherWindows},
             stream' = [stream EXCEPT !["client"] = Append(@, m)], said' = Append(said, m.is)
      PROVE  Chats("client", m)
  <2>1. Letter("client", m) /\ m.is \in {"ping", "bandwidth", "ackSize"}
    BY ChatterFacts
  <2>2. Append(stream["client"], m) = Cat(stream["client"], <<m>>)
    BY <1>2, <2>1, AppendCat DEF Letter
  <2>. QED BY <1>1, <1>3, <2>1, <2>2 DEF Chats
<1>4. CASE
        /\ stream["server"] # <<>>
        /\ \E answer \in Answers(Head(stream["server"])) :
             stream' = [stream EXCEPT !["server"] = Tail(@), !["client"] = @ \o answer]
        /\ requests' = IF Head(stream["server"]).is \in {"connect", "createStream", "publish"}
                       THEN Append(requests, Head(stream["server"]).id) ELSE requests
        /\ inChunkSize' = IF Head(stream["server"]).is = "chunkSize"
                          THEN [inChunkSize EXCEPT !["server"] = Head(stream["server"]).id] ELSE inChunkSize
        /\ UNCHANGED said
  <2>1. PICK m : m = Head(stream["server"])
    OBVIOUS
  <2>2. PICK answer \in Answers(m) : stream' = [stream EXCEPT !["server"] = Tail(@), !["client"] = @ \o answer]
    BY <1>4, <2>1
  <2>0. said' = said /\ asked' = asked
    BY <1>1, <1>4
  <2>3. /\ stream["server"] # <<>> /\ said' = said /\ asked' = asked
        /\ requests' = IF m.is \in {"connect", "createStream", "publish"} THEN Append(requests, m.id) ELSE requests
        /\ inChunkSize' = IF m.is = "chunkSize" THEN [inChunkSize EXCEPT !["server"] = m.id] ELSE inChunkSize
    BY <1>4, <2>0, <2>1, Zenon
  <2>4. answer \in Answers(m)
    BY <2>1, <2>2
  <2>5. Replies(m, answer)
    BY <2>1, <2>2, <2>3, <2>4, Zenon DEF Replies
  <2>. QED BY <1>1, <2>5
<1>5. CASE
        /\ asked # <<>> /\ Len(said) < MaxSaid
        /\ \E m \in {Msg("ping", 7), Msg("bandwidth", 0)} \cup {Msg("ackSize", w) : w \in OtherWindows} :
             /\ stream' = [stream EXCEPT !["client"] = Append(@, m)]
             /\ said' = Append(said, m.is)
        /\ UNCHANGED <<requests, inChunkSize>>
  BY <1>1, <1>3, <1>5
<1>7. (\E m, answer : Replies(m, answer)) \/ (UNCHANGED <<requests, inChunkSize>> /\ \E m : Chats("client", m))
  <2>1. OtherServer
    OBVIOUS
  <2>. QED BY <1>4, <1>5, <2>1 DEF OtherServer
<1>6. (\E m, answer : Replies(m, answer)) \/ (UNCHANGED <<requests, inChunkSize>> /\ \E m : Chats("client", m))
  BY <1>1, <1>4, <1>5, Zenon DEF OtherServer
<1>. QED BY <1>1, <1>6

LEMMA AnswersFacts ==
  ASSUME NEW m \in Letters, NEW answer \in Answers(m)
  PROVE  /\ Goes("client", answer)
         /\ \/ m.is = "connect" /\ answer = <<Msg("chunkSize", 4096), Msg("accepted", 1)>>
            \/ m.is = "connect" /\ answer = <<Msg("error", 1)>>
            \/ m.is = "createStream" /\ answer = <<Msg("created", m.id)>>
            \/ m.is = "createStream" /\ answer = <<Msg("error", m.id)>>
            \/ m.is = "play" /\ answer = <<Msg("onStatus", 0), Msg("media", 0)>>
            \/ m.is = "publish" /\ answer = <<Msg("onStatus", 0)>>
            \/ m.is = "publish" /\ answer = <<Msg("onStatus", 0), Msg("created", m.id)>>
            \/ m.is \notin Asks /\ answer = <<>>
         /\ Letter("client", Msg("chunkSize", 4096)) /\ Letter("client", Msg("accepted", 1))
         /\ \A is \in {"created", "error", "onStatus", "media"}, n \in Nat :
              Letter("client", Msg(is, n)) /\ Msg(is, n).is = is /\ Msg(is, n).id = n
<1>1. m.id \in Nat
  BY LetterFacts
<1>2. ASSUME NEW is \in {"created", "error", "onStatus", "media"}, NEW n \in Nat
      PROVE  Letter("client", Msg(is, n)) /\ Msg(is, n).is = is /\ Msg(is, n).id = n
  <2>1. is \in ClientKinds /\ is \in Kinds2 /\ is \notin {"chunkSize", "ackSize", "connect", "accepted"}
    BY DEF Kinds2, ClientKinds, Verdicts
  <2>2. Msg(is, n) \in Letters /\ Msg(is, n).is = is /\ Msg(is, n).id = n
    BY <2>1, MsgFacts
  <2>. QED BY <2>1, <2>2 DEF Letter
<1>3. Letter("client", Msg("chunkSize", 4096)) /\ Letter("client", Msg("accepted", 1))
  <2>1. Msg("chunkSize", 4096) \in Letters /\ Msg("chunkSize", 4096).is = "chunkSize"
    BY MsgFacts DEF Kinds2, ClientKinds
  <2>2. Msg("accepted", 1) \in Letters /\ Msg("accepted", 1).is = "accepted"
    BY MsgFacts DEF Kinds2, ClientKinds, Verdicts
  <2>. QED BY <2>1, <2>2 DEF Letter, ClientKinds, Verdicts
<1>4. \/ m.is = "connect" /\ answer = <<Msg("chunkSize", 4096), Msg("accepted", 1)>>
      \/ m.is = "connect" /\ answer = <<Msg("error", 1)>>
      \/ m.is = "createStream" /\ answer = <<Msg("created", m.id)>>
      \/ m.is = "createStream" /\ answer = <<Msg("error", m.id)>>
      \/ m.is = "play" /\ answer = <<Msg("onStatus", 0), Msg("media", 0)>>
      \/ m.is = "publish" /\ answer = <<Msg("onStatus", 0)>>
      \/ m.is = "publish" /\ answer = <<Msg("onStatus", 0), Msg("created", m.id)>>
      \/ m.is \notin Asks /\ answer = <<>>
  BY DEF Answers, Asks
<1>5. \A p, q : Letter("client", p) /\ Letter("client", q) => Goes("client", <<p, q>>)
  BY DEF Goes, Letter
<1>6. Goes("client", answer)
  BY <1>1, <1>2, <1>3, <1>4, <1>5, GoesOne, GoesNone
<1>. QED BY <1>2, <1>3, <1>4, <1>6

LEMMA RepliesTypes ==
  ASSUME ReadInv, NEW m, NEW answer, Replies(m, answer)
  PROVE  /\ m \in Letters /\ Letter("server", m) /\ Goes("client", answer) /\ Carried'
         /\ stream'["server"] = Tail(stream["server"]) /\ stream'["client"] = Cat(stream["client"], answer)
         /\ stream' = [x \in Ends |-> stream'[x]]
<1>1. stream \in [Ends -> Seq(Letters)] /\ Goes("client", stream["client"]) /\ Goes("server", stream["server"])
  BY StreamTypes, EndFacts
<1>2. Letter("server", m) /\ m \in Letters /\ Goes("server", Tail(stream["server"]))
  BY <1>1, GoesTail DEF Replies, Letter
<1>3. Goes("client", answer)
  BY <1>2, AnswersFacts DEF Replies
<1>4. stream'["server"] = Tail(stream["server"]) /\ stream'["client"] = Cat(stream["client"], answer)
      /\ stream' = [x \in Ends |-> stream'[x]]
  BY <1>1 DEF Replies, Cat, Ends
<1>5. Goes("client", stream'["client"]) /\ Goes("server", stream'["server"])
  BY <1>1, <1>2, <1>3, <1>4, GoesCat
<1>6. \A x \in Ends : Goes(x, stream'[x])
  BY <1>5, EndFacts
<1>7. Carried'
  BY <1>4, <1>6 DEF Carried, Goes
<1>. QED BY <1>2, <1>3, <1>4, <1>7

LEMMA OtherServerTypes ==
  ASSUME ReadInv, OtherServer
  PROVE  ReadInv'
<1>1. Elsewhere /\ ~Own("server") /\ UNCHANGED <<ackSize, ctx, calls, closed, results>> /\ Types
      /\ "client" \in Ends /\ "server" \in Ends
  BY OtherServerCases, StreamTypes, EndFacts
<1>2. ASSUME NEW m, NEW answer, Replies(m, answer)
      PROVE  ReadInv'
  <2>1. /\ m \in Letters /\ Letter("server", m) /\ Goes("client", answer) /\ Carried'
        /\ stream'["server"] = Tail(stream["server"]) /\ stream'["client"] = Cat(stream["client"], answer)
    BY <1>2, RepliesTypes
  <2>2. m.id \in Nat /\ (m.is = "chunkSize" => m.id = 4096)
    BY <2>1, LetterFacts DEF IdOK
  <2>3. requests' \in Seq(Nat)
    <3>1. requests \in Seq(Nat)
      BY <1>1 DEF Types, Here
    <3>. QED BY <1>2, <2>2, <3>1, AppendIn DEF Replies
  <2>4. inChunkSize' \in [Ends -> ChunkSizes]
    <3>1. inChunkSize \in [Ends -> ChunkSizes]
      BY <1>1 DEF Types, Here
    <3>2. CASE m.is = "chunkSize"
      <4>0. inChunkSize' = IF m.is = "chunkSize" THEN [inChunkSize EXCEPT !["server"] = m.id] ELSE inChunkSize
        BY <1>2, Zenon DEF Replies
      <4>1. inChunkSize' = [inChunkSize EXCEPT !["server"] = m.id] /\ m.id \in ChunkSizes
        BY <2>2, <3>2, <4>0 DEF ChunkSizes
      <4>. QED BY <3>1, <4>1, ExceptIn
    <3>3. CASE m.is # "chunkSize"
      <4>1. inChunkSize' = inChunkSize
        BY <1>2, <3>3 DEF Replies
      <4>. QED BY <3>1, <4>1
    <3>. QED BY <3>2, <3>3
  <2>5. Here'
    BY <1>1, <2>3, <2>4 DEF Types, Here
  <2>6. asked' = asked /\ said' = said /\ asked # <<>>
    BY <1>1, <1>2, StreamTypes DEF Replies
  <2>7. Dialogue'
    BY <1>1, <2>6 DEF Types, Dialogue, Elsewhere
  <2>8. buffered["server"] = 0
    BY <1>1 DEF ReadInv, Reads, ReadOf
  <2>9. \/ stream'["client"] = stream["client"] \/ buffered["client"] = 0
        \/ (stream["client"] # <<>> /\ stream'["client"] # <<>> /\ Head(stream'["client"]) = Head(stream["client"]))
    <3>1. PICK s : s = stream["client"]
      OBVIOUS
    <3>2. s \in Seq(Letters) /\ answer \in Seq(Letters)
      BY <1>1, <2>1, <3>1, StreamTypes DEF Goes
    <3>3. s # <<>> => Cat(s, answer) # <<>> /\ Head(Cat(s, answer)) = Head(s)
      BY <3>2 DEF Cat
    <3>4. s = <<>> => buffered["client"] = 0
      BY <1>1, <3>1 DEF ReadInv, Reads, ReadOf
    <3>. QED BY <2>1, <3>1, <3>3, <3>4
  <2>10. \A e \in Ends : stream'[e] = stream[e] \/ buffered[e] = 0
                         \/ (stream[e] # <<>> /\ stream'[e] # <<>> /\ Head(stream'[e]) = Head(stream[e]))
    BY <2>8, <2>9, EndFacts
  <2>. QED BY <1>1, <2>1, <2>5, <2>7, <2>10, OtherTypes
<1>3. ASSUME UNCHANGED <<requests, inChunkSize>>, NEW m, Chats("client", m)
      PROVE  ReadInv'
  <2>1. Here'
    BY <1>1, <1>3 DEF Types, Here
  <2>. QED BY <1>1, <1>3, <2>1, ChatsTypes
<1>. QED BY <1>2, <1>3, OtherServerCases

LEMMA OtherReadsTypes ==
  ASSUME ReadInv, OtherReads
  PROVE  ReadInv'
<1>1. PICK m : m = Head(stream["client"])
  OBVIOUS
<1>2. /\ ~Own("client") /\ stream["client"] # <<>>
      /\ results' = IF m.is \in {"accepted", "created"} THEN Append(results, m.id) ELSE results
      /\ inChunkSize' = IF m.is = "chunkSize" THEN [inChunkSize EXCEPT !["client"] = m.id] ELSE inChunkSize
      /\ stream' = [stream EXCEPT !["client"] = Tail(@)]
      /\ Elsewhere /\ UNCHANGED <<history, ackSize, ctx, calls, closed, requests>>
  BY <1>1 DEF OtherReads, Elsewhere, history
<1>3. stream \in [Ends -> Seq(Letters)] /\ (\A x \in Ends : Goes(x, stream[x])) /\ Types /\ asked # <<>>
      /\ "client" \in Ends /\ "server" \in Ends
  BY <1>2, StreamTypes, EndFacts
<1>4. Goes("client", Tail(stream["client"])) /\ m \in Letters
  BY <1>1, <1>2, <1>3, GoesTail DEF Letter
<1>5. /\ stream'["client"] = Tail(stream["client"]) /\ stream'["server"] = stream["server"]
      /\ stream' = [x \in Ends |-> stream'[x]]
  BY <1>2, <1>3
<1>6. \A x \in Ends : Goes(x, stream'[x])
  BY <1>3, <1>4, <1>5, EndFacts
<1>7. Carried'
  BY <1>5, <1>6 DEF Carried, Goes
<1>8. m.id \in Nat /\ (m.is = "chunkSize" => m.id = 4096)
  BY <1>4, LetterFacts DEF IdOK
<1>9. results' \in Seq(Nat)
  <2>1. results \in Seq(Nat)
    BY <1>3 DEF Types, Here
  <2>. QED BY <1>2, <1>8, <2>1, AppendIn
<1>10. inChunkSize' \in [Ends -> ChunkSizes]
  <2>1. inChunkSize \in [Ends -> ChunkSizes]
    BY <1>3 DEF Types, Here
  <2>2. CASE m.is = "chunkSize"
    <3>1. inChunkSize' = [inChunkSize EXCEPT !["client"] = m.id] /\ m.id \in ChunkSizes
      BY <1>2, <1>8, <2>2 DEF ChunkSizes
    <3>. QED BY <2>1, <3>1, ExceptIn
  <2>3. CASE m.is # "chunkSize"
    <3>1. inChunkSize' = inChunkSize
      BY <1>2, <2>3
    <3>. QED BY <2>1, <3>1
  <2>. QED BY <2>2, <2>3
<1>11. Here'
  BY <1>2, <1>3, <1>9, <1>10 DEF Types, Here
<1>12. Dialogue'
  BY <1>2, <1>3 DEF Types, Dialogue, history
<1>13. \A e \in Ends : stream'[e] = stream[e] \/ buffered[e] = 0
  BY <1>2, <1>5, EndFacts DEF ReadInv, Reads, ReadOf
<1>. QED BY <1>2, <1>7, <1>11, <1>12, <1>13, OtherTypes
-----------------------------------------------------------------------------
LEMMA ReadInit ==
  ASSUME CmdInit
  PROVE  ReadInv
<1>1. Carried
  BY EmptySeq DEF CmdInit, Carried
<1>2. Counters
  BY ConstantTypes DEF CmdInit, Counters
<1>3. Here
  <2>1. NewContext(FALSE, NoUrl) \in Context
    BY ConstantTypes, NewContextFacts
  <2>2. ctx \in [Ends -> Context]
    BY <2>1 DEF CmdInit
  <2>3. calls \in [Ends -> Seq(Calls)] /\ closed \in [Ends -> BOOLEAN] /\ requests \in Seq(Nat) /\ results \in Seq(Nat)
    BY EmptySeq DEF CmdInit
  <2>4. ackSize \in [Ends -> Windows]
    BY ConstantTypes DEF CmdInit
  <2>5. 128 \in ChunkSizes /\ inChunkSize = [e \in Ends |-> 128]
    BY DEF CmdInit, ChunkSizes
  <2>6. inChunkSize \in [Ends -> ChunkSizes]
    BY <2>5
  <2>. QED BY <2>2, <2>3, <2>4, <2>6 DEF Here
<1>4. Dialogue
  BY EmptySeq DEF CmdInit, Dialogue, Ends
<1>5. Reads
  BY SizeFacts DEF CmdInit, Reads, ReadOf
<1>6. BytesAcknowledged
  <2>1. ASSUME NEW e \in Ends
        PROVE  inBytes[e] = 0 /\ total[e] = [read |-> 0, reported |-> 0, window |-> Window]
    BY DEF CmdInit
  <2>2. ASSUME NEW e \in Ends
        PROVE  total[e].read = total[e].reported + inBytes[e] /\ inBytes[e] = 0
    BY <2>1
  <2>. QED BY <2>2 DEF BytesAcknowledged
<1>. QED BY <1>1, <1>2, <1>3, <1>4, <1>5, <1>6 DEF ReadInv, Types

LEMMA ReadStep ==
  ASSUME ReadInv, [CmdNext]_cmdVars
  PROVE  ReadInv'
<1>1. CASE UNCHANGED cmdVars
  BY <1>1 DEF ReadInv, Types, Carried, Counters, Here, Dialogue, Reads, ReadOf, Own, BytesAcknowledged, cmdVars, conn, history
<1>2. CASE SendConnect \/ OtherClient \/ OtherServer \/ OtherReads
  BY <1>2, SendConnectTypes, OtherClientTypes, OtherServerTypes, OtherReadsTypes
<1>3. ASSUME NEW e \in Ends,
       \/ \E n \in 1 .. 2 : ReadPart(e, n)
       \/ HandleChunkSize(e) \/ HandleAckWindowSize(e) \/ HandleUserMessage(e) \/ Ignored(e)
       \/ Media(e) \/ HandleConnect(e) \/ HandleCreateStream(e) \/ HandlePlay(e)
       \/ HandlePublish(e) \/ HandleResult(e) \/ HandleError(e)
      PROVE  ReadInv'
  BY <1>3, PartTypes, QuietTypes, ConnectTypes, CreateStreamTypes, PlayTypes, ResultTypes
<1>. QED BY <1>1, <1>2, <1>3 DEF CmdNext

(* However the bytes of a connection are cut into reads, each is counted   *)
(* once, and none waits for an acknowledgement when a window of them has   *)
(* been read (in_bytes_ and last_left_ in parse and sendBytesRecv).        *)
THEOREM AcknowledgedTheorem == CmdSpec => []BytesAcknowledged
<1>1. CmdInit => ReadInv
  BY ReadInit
<1>2. ReadInv /\ [CmdNext]_cmdVars => ReadInv'
  BY ReadStep
<1>3. ReadInv => BytesAcknowledged
  BY DEF ReadInv
<1>. QED BY <1>1, <1>2, <1>3, PTL DEF CmdSpec
-----------------------------------------------------------------------------
(* The dialogue, as a relation of what is asked for, the streams to the    *)
(* server (s) and to the client (c), what has been called and answered.    *)

OwnClient(k) == k[1] = "own"
OwnServer(k) == k[2] = "own"
Joins(cs)    == {i \in 1 .. Len(cs) : cs[i][1] # "onRecv"}
Requested(d) == "request" \in ToSet(d)

(* One request or answer is on its way, and the handler is asked once *)
OneAtATime(k, a, d, s, c, cs, rqs, rs) ==
  /\ \A i, j \in Joins(cs) : i = j
  /\ a = <<>> => s = <<>> /\ c = <<>> /\ d = <<>> /\ Joins(cs) = {} /\ rqs = <<>> /\ rs = <<>>
  /\ ~OwnServer(k) => Joins(cs) = {}
  /\ OwnClient(k) => /\ Once(s, Asks) /\ Once(c, Verdicts)
                     /\ ~(Has(s, Asks) /\ Has(c, Verdicts))
                     /\ Joins(cs) # {} => ~Has(s, Asks) /\ ~Has(c, Verdicts)
  /\ ~OwnClient(k) => /\ Once(s, Plays)
                      /\ Joins(cs) # {} \/ Has(s, Plays) => Requested(d)
                      /\ ~(Joins(cs) # {} /\ Has(s, Plays))

(* What has to come next is on its way *)
GoesOn(k, a, d, cl, s, c, cs, rs) ==
  /\ OwnClient(k) /\ OwnServer(k) /\ a # <<>> => Has(s, Asks) \/ Has(c, Results) \/ Joins(cs) # {}
  /\ ~OwnServer(k) /\ a # <<>> =>
       cl = TRUE \/ 4 \in ToSet(rs) \/ Has(s, {"connect", "createStream"}) \/ Has(c, Verdicts)
  /\ Requested(d) /\ ~OwnClient(k) => Has(s, Plays) \/ Joins(cs) # {}
  /\ OwnServer(k) => ~Has(c, {"error"})
  /\ OwnClient(k) =>
       /\ \A i \in 1 .. Len(s) : s[i].is = "createStream" => s[i].id = 4
       /\ \A i \in 1 .. Len(c) : c[i].is = "created" => c[i].id = 4 \/ (~OwnServer(k) /\ 4 \in ToSet(rs))
       /\ Has(s, Plays) => 4 \in ToSet(rs)

(* The messages and the server's context name what is asked for *)
WantedUrl(k, a)  == IF OwnClient(k) THEN [a[2] EXCEPT !.path = <<a[2].path[1], a[3].name>>] ELSE a[2]
WantedName(k, a) == IF OwnClient(k) THEN NoStream ELSE a[3]
NamesKept(k, a, s, url, cc) ==
  /\ a # <<>> => \A i \in 1 .. Len(s) :
       /\ s[i].is = "connect" => s[i].url = WantedUrl(k, a)
       /\ s[i].is \in Plays => /\ s[i].is = (IF a[1] = "onPlay" THEN "play" ELSE "publish")
                               /\ s[i].name = WantedName(k, a)
  /\ OwnServer(k) /\ a # <<>> =>
       url = WantedUrl(k, a) \/ (Has(s, {"connect"}) /\ Leads(s, {"connect"}, Plays))
  /\ OwnClient(k) => cc.name = NoStream /\ (a # <<>> => cc.player = (a[1] = "onPlay"))

(* The handler has been asked for it *)
Wanted(k, a) == <<a[1], <<a[2].host, <<a[2].path[1]>>, IF OwnClient(k) THEN "" ELSE a[3].name>> >>
JoinsRight(k, a, cs) ==
  \A i \in Joins(cs) : /\ cs[i][1] = a[1]
                       /\ OwnClient(k) \/ Len(a[2].path) < 3 => cs[i] = Wanted(k, a)

(* The ids of the answers on their way follow those the client has got *)
InOrder(k, s, c, rqs, rs) ==
  \E p \in Seq(Nat) :
    /\ Lists(p, c, Results)
    /\ IF OwnServer(k) \/ p # <<>> \/ Has(s, Asks) THEN rqs = Cat(rs, p) ELSE \E q \in Seq(Nat) : rqs = Cat(rs, q)

(* A change of a stream that is of no consequence *)
QuietToServer(s, t) ==
  /\ \A kinds \in SUBSET Asks : (Has(t, kinds) <=> Has(s, kinds)) /\ (Once(s, kinds) => Once(t, kinds))
  /\ Leads(s, {"connect"}, Plays) => Leads(t, {"connect"}, Plays)
  /\ \A j \in 1 .. Len(t) : t[j].is \in Asks => \E i \in 1 .. Len(s) : s[i] = t[j]
QuietToClient(c, t) ==
  /\ \A kinds \in SUBSET Verdicts : (Has(t, kinds) <=> Has(c, kinds)) /\ (Once(c, kinds) => Once(t, kinds))
  /\ \A p \in Seq(Nat) : Lists(p, c, Results) => Lists(p, t, Results)
  /\ \A j \in 1 .. Len(t) : t[j].is \in Verdicts => \E i \in 1 .. Len(c) : c[i] = t[j]

LEMMA KindFacts ==
  /\ Plays \in SUBSET Asks /\ Asks \in SUBSET Asks /\ {"connect"} \in SUBSET Asks
  /\ {"connect", "createStream"} \in SUBSET Asks
  /\ Results \in SUBSET Verdicts /\ Verdicts \in SUBSET Verdicts /\ {"error"} \in SUBSET Verdicts
  /\ "createStream" \in Asks /\ "connect" \in Asks /\ Plays \subseteq Asks /\ "created" \in Verdicts
  /\ "created" \in Results /\ "accepted" \in Results
BY DEF Plays, Asks, Results, Verdicts

LEMMA QuietSame ==
  ASSUME NEW s
  PROVE  QuietToServer(s, s) /\ QuietToClient(s, s)
BY DEF QuietToServer, QuietToClient

LEMMA QuietTail ==
  ASSUME NEW T, NEW s \in Seq(T), s # <<>>
  PROVE  /\ Head(s).is \notin Asks => QuietToServer(s, Tail(s))
         /\ Head(s).is \notin Verdicts => QuietToClient(s, Tail(s))
<1>0. \A j \in 1 .. Len(Tail(s)) : \E i \in 1 .. Len(s) : s[i] = Tail(s)[j]
  <2>1. /\ Len(Tail(s)) = Len(s) - 1 /\ Len(s) \in Nat
        /\ \A i \in 1 .. Len(Tail(s)) : Tail(s)[i] = s[i + 1]
    BY TailFacts
  <2>2. \A j \in 1 .. Len(Tail(s)) : j + 1 \in 1 .. Len(s)
    BY <2>1
  <2>. QED BY <2>1, <2>2
<1>1. ASSUME Head(s).is \notin Asks
      PROVE  QuietToServer(s, Tail(s))
  <2>1. \A kinds \in SUBSET Asks : Head(s).is \notin kinds
    BY <1>1
  <2>2. \A kinds \in SUBSET Asks : (Has(Tail(s), kinds) <=> Has(s, kinds)) /\ (Once(s, kinds) => Once(Tail(s), kinds))
    BY <2>1, HasTail
  <2>3. Head(s).is \notin {"connect"}
    BY <1>1, KindFacts
  <2>4. Leads(s, {"connect"}, Plays) => Leads(Tail(s), {"connect"}, Plays)
    BY <2>3, LeadsTail
  <2>. QED BY <1>0, <2>2, <2>4, Zenon DEF QuietToServer
<1>2. ASSUME Head(s).is \notin Verdicts
      PROVE  QuietToClient(s, Tail(s))
  <2>1. \A kinds \in SUBSET Verdicts : Head(s).is \notin kinds
    BY <1>2
  <2>2. \A kinds \in SUBSET Verdicts : (Has(Tail(s), kinds) <=> Has(s, kinds)) /\ (Once(s, kinds) => Once(Tail(s), kinds))
    BY <2>1, HasTail
  <2>3. Head(s).is \notin Results
    BY <2>1, KindFacts
  <2>4. \A p \in Seq(Nat) : Lists(p, s, Results) => Lists(p, Tail(s), Results)
    BY <2>3, ListsTail
  <2>. QED BY <1>0, <2>2, <2>4, Zenon DEF QuietToClient
<1>. QED BY <1>1, <1>2

LEMMA QuietMore ==
  ASSUME NEW T, NEW s \in Seq(T), NEW t \in Seq(T)
  PROVE  /\ ~Has(t, Asks) => QuietToServer(s, Cat(s, t))
         /\ ~Has(t, Verdicts) => QuietToClient(s, Cat(s, t))
<1>0. \A j \in 1 .. Len(Cat(s, t)) :
        \/ j \in 1 .. Len(s) /\ Cat(s, t)[j] = s[j]
        \/ j - Len(s) \in 1 .. Len(t) /\ Cat(s, t)[j] = t[j - Len(s)]
  BY CatFacts
<1>1. ASSUME ~Has(t, Asks)
      PROVE  QuietToServer(s, Cat(s, t))
  <2>1. \A kinds \in SUBSET Asks : ~Has(t, kinds)
    BY <1>1 DEF Has
  <2>2. \A kinds \in SUBSET Asks : (Has(Cat(s, t), kinds) <=> Has(s, kinds)) /\ (Once(s, kinds) => Once(Cat(s, t), kinds))
    BY <2>1, HasCat
  <2>3. Leads(t, {"connect"}, Plays)
    BY <2>1, KindFacts DEF Leads, Has
  <2>4. Leads(s, {"connect"}, Plays) => Leads(Cat(s, t), {"connect"}, Plays)
    BY <2>3, LeadsCat
  <2>5. \A j \in 1 .. Len(Cat(s, t)) : Cat(s, t)[j].is \in Asks => \E i \in 1 .. Len(s) : s[i] = Cat(s, t)[j]
    BY <1>0, <1>1 DEF Has
  <2>. QED BY <2>2, <2>4, <2>5, Zenon DEF QuietToServer
<1>2. ASSUME ~Has(t, Verdicts)
      PROVE  QuietToClient(s, Cat(s, t))
  <2>1. \A kinds \in SUBSET Verdicts : ~Has(t, kinds)
    BY <1>2 DEF Has
  <2>2. \A kinds \in SUBSET Verdicts : (Has(Cat(s, t), kinds) <=> Has(s, kinds)) /\ (Once(s, kinds) => Once(Cat(s, t), kinds))
    BY <2>1, HasCat
  <2>3. ~Has(t, Results)
    BY <2>1, KindFacts
  <2>4. \A p \in Seq(Nat) : Lists(p, s, Results) => Lists(p, Cat(s, t), Results)
    BY <2>3, ListsAdd
  <2>5. \A j \in 1 .. Len(Cat(s, t)) : Cat(s, t)[j].is \in Verdicts => \E i \in 1 .. Len(s) : s[i] = Cat(s, t)[j]
    BY <1>0, <1>2 DEF Has
  <2>. QED BY <2>2, <2>4, <2>5, Zenon DEF QuietToClient
<1>. QED BY <1>1, <1>2

Talk(k, a, d, cl, s, c, cs, rqs, rs, url, cc) ==
  /\ OneAtATime(k, a, d, s, c, cs, rqs, rs)
  /\ GoesOn(k, a, d, cl, s, c, cs, rs)
  /\ NamesKept(k, a, s, url, cc)
  /\ JoinsRight(k, a, cs)
  /\ InOrder(k, s, c, rqs, rs)

LEMMA QuietKeeps ==
  ASSUME NEW k, NEW a, NEW d, NEW cl, NEW s, NEW c, NEW cs, NEW rqs, NEW rs, NEW url, NEW cc,
         Talk(k, a, d, cl, s, c, cs, rqs, rs, url, cc), a # <<>>,
         NEW s2, NEW c2, QuietToServer(s, s2), QuietToClient(c, c2)
  PROVE  Talk(k, a, d, cl, s2, c2, cs, rqs, rs, url, cc)
<1>1. OneAtATime(k, a, d, s2, c2, cs, rqs, rs)
  BY KindFacts DEF Talk, OneAtATime, QuietToServer, QuietToClient
<1>2. GoesOn(k, a, d, cl, s2, c2, cs, rs)
  <2>1. /\ Has(s2, Asks) <=> Has(s, Asks)
        /\ Has(s2, Plays) <=> Has(s, Plays)
        /\ Has(s2, {"connect", "createStream"}) <=> Has(s, {"connect", "createStream"})
        /\ Has(c2, Results) <=> Has(c, Results)
        /\ Has(c2, Verdicts) <=> Has(c, Verdicts)
        /\ Has(c2, {"error"}) <=> Has(c, {"error"})
    BY KindFacts DEF QuietToServer, QuietToClient
  <2>2. \A j \in 1 .. Len(s2) : s2[j].is = "createStream" => \E i \in 1 .. Len(s) : s[i] = s2[j]
    BY KindFacts DEF QuietToServer
  <2>3. \A j \in 1 .. Len(c2) : c2[j].is = "created" => \E i \in 1 .. Len(c) : c[i] = c2[j]
    BY KindFacts DEF QuietToClient
  <2>. QED BY <2>1, <2>2, <2>3 DEF Talk, GoesOn
<1>3. NamesKept(k, a, s2, url, cc)
  <2>1. \A j \in 1 .. Len(s2) : s2[j].is = "connect" \/ s2[j].is \in Plays => \E i \in 1 .. Len(s) : s[i] = s2[j]
    BY KindFacts DEF QuietToServer
  <2>2. (Has(s2, {"connect"}) <=> Has(s, {"connect"})) /\ (Leads(s, {"connect"}, Plays) => Leads(s2, {"connect"}, Plays))
    BY KindFacts DEF QuietToServer
  <2>. QED BY <2>1, <2>2 DEF Talk, NamesKept
<1>4. InOrder(k, s2, c2, rqs, rs)
  <2>1. Has(s2, Asks) <=> Has(s, Asks)
    BY KindFacts DEF QuietToServer
  <2>. QED BY <2>1, Zenon DEF Talk, InOrder, QuietToClient
<1>. QED BY <1>1, <1>2, <1>3, <1>4, Zenon DEF Talk
-----------------------------------------------------------------------------
(* A chunk size is announced before the message that needs it *)
Announced(own, chunk, s) == own = "own" => chunk = 4096 \/ Leads(s, {"chunkSize"}, {"connect", "accepted"})

Told(e) == Announced(IF e = "server" THEN kind[1] ELSE kind[2], inChunkSize[e], stream[e])
Telling == \A e \in Ends : Told(e)
Talking ==
  Talk(kind, asked, said, closed["client"], stream["server"], stream["client"], calls["server"], requests, results,
       ctx["server"].url, ctx["client"])
DialogueInv == ReadInv /\ Telling /\ Talking

LEMMA ToSetAppend ==
  ASSUME NEW p \in Seq(Nat), NEW n \in Nat
  PROVE  ToSet(Append(p, n)) = ToSet(p) \cup {n}
<1>1. /\ Append(p, n) \in Seq(Nat) /\ Len(Append(p, n)) = Len(p) + 1 /\ Len(p) \in Nat
      /\ \A k \in 1 .. Len(p) : Append(p, n)[k] = p[k]
      /\ Append(p, n)[Len(p) + 1] = n
  BY AppendFacts
<1>2. DOMAIN p = 1 .. Len(p) /\ DOMAIN Append(p, n) = 1 .. Len(p) + 1
  BY <1>1, LenProperties
<1>. QED BY <1>1, <1>2 DEF ToSet

LEMMA AppendMoves ==
  ASSUME NEW r \in Seq(Nat), NEW p \in Seq(Nat), NEW n \in Nat
  PROVE  /\ Append(Cat(r, p), n) = Cat(r, Append(p, n))
         /\ p # <<>> => Cat(Append(r, Head(p)), Tail(p)) = Cat(r, p)
         /\ Append(r, n) = Cat(r, <<n>>)
<1>1. PICK m, l : m = <<n>> /\ l = Append(r, n)
  OBVIOUS
<1>2. m \in Seq(Nat) /\ Append(p, n) = Cat(p, m) /\ l = Cat(r, m)
  BY <1>1 DEF Cat
<1>3. Append(Cat(r, p), n) = Cat(Cat(r, p), m)
  <2>1. Cat(r, p) \in Seq(Nat)
    BY CatFacts
  <2>. QED BY <1>1, <2>1, AppendCat
<1>4. Append(Cat(r, p), n) = Cat(r, Append(p, n))
  BY <1>2, <1>3, CatAssoc
<1>5. ASSUME p # <<>>
      PROVE  Cat(Append(r, Head(p)), Tail(p)) = Cat(r, p)
  <2>1. PICK h, t : h = <<Head(p)>> /\ t = Tail(p)
    OBVIOUS
  <2>2. h \in Seq(Nat) /\ t \in Seq(Nat) /\ Append(r, Head(p)) = Cat(r, h) /\ p = Cat(h, t)
    <3>1. Head(p) \in Nat /\ t \in Seq(Nat)
      BY <1>5, <2>1, TailFacts
    <3>2. h \in Seq(Nat) /\ Append(r, Head(p)) = Cat(r, h)
      BY <2>1, <3>1, AppendCat
    <3>3. p = <<Head(p)>> \o Tail(p)
      BY <1>5
    <3>. QED BY <2>1, <3>1, <3>2, <3>3, Zenon DEF Cat
  <2>3. Cat(r, Cat(h, t)) = Cat(Cat(r, h), t)
    BY <2>2, CatAssoc
  <2>. QED BY <2>1, <2>2, <2>3, Zenon
<1>. QED BY <1>1, <1>2, <1>4, <1>5

(* A server answers a request with a result *)
LEMMA Resulted ==
  ASSUME NEW k \in Kinds, NEW a, NEW d, NEW cl, NEW s \in Seq(Letters), NEW c \in Seq(Letters), NEW cs,
         NEW rqs \in Seq(Nat), NEW rs \in Seq(Nat), NEW url, NEW cc,
         Talk(k, a, d, cl, s, c, cs, rqs, rs, url, cc), a # <<>>, s # <<>>,
         NEW m, m = Head(s), m.is \in {"connect", "createStream", "publish"}, m.is = "publish" => ~OwnServer(k),
         NEW v \in Letters, v.is \in Results, v.id = m.id, m.is = "connect" => v.is = "accepted",
         NEW url2, url2 = IF m.is = "connect" THEN m.url ELSE url
  PROVE  Talk(k, a, d, cl, Tail(s), Cat(c, <<v>>), cs, Append(rqs, m.id), rs, url2, cc)
<1>1. PICK t, e, o : t = Tail(s) /\ o = <<v>> /\ e = Cat(c, o)
  OBVIOUS
<1>2. /\ t \in Seq(Letters) /\ o \in Seq(Letters) /\ e \in Seq(Letters) /\ m \in Letters /\ m.id \in Nat
      /\ OwnClient(k) \/ OwnServer(k)
  <2>1. t \in Seq(Letters) /\ m \in Letters
    BY <1>1, TailFacts
  <2>2. o \in Seq(Letters)
    BY <1>1, OneFacts
  <2>3. e \in Seq(Letters)
    BY <1>1, <2>2, CatFacts
  <2>4. OwnClient(k) \/ OwnServer(k)
    BY DEF OwnClient, OwnServer, Kinds
  <2>. QED BY <2>1, <2>2, <2>3, <2>4, LetterFacts
<1>3. m.is \in Asks /\ v.is \in Verdicts /\ v.is # "error"
  BY DEF Asks, Results, Verdicts
<1>4. /\ \A kinds : Has(t, kinds) => Has(s, kinds)
      /\ \A kinds : m.is \notin kinds => (Has(t, kinds) <=> Has(s, kinds))
      /\ \A kinds : m.is \in kinds => Has(s, kinds)
      /\ \A kinds : Once(s, kinds) => Once(t, kinds)
      /\ \A kinds : Once(s, kinds) /\ m.is \in kinds => ~Has(t, kinds)
  BY <1>1, HasTail
<1>5. /\ \A kinds : Has(e, kinds) <=> Has(c, kinds) \/ v.is \in kinds
      /\ \A kinds : ~Has(c, kinds) => Once(e, kinds)
  BY <1>1, <1>2, HasCat, HasOne
<1>6. (\A i \in 1 .. Len(t) : \E j \in 1 .. Len(s) : t[i] = s[j]) /\ 1 \in 1 .. Len(s) /\ s[1] = m
  <2>1. /\ Len(t) = Len(s) - 1 /\ Len(s) \in Nat /\ Len(s) >= 1 /\ Head(s) = s[1]
        /\ \A i \in 1 .. Len(t) : t[i] = s[i + 1]
    BY <1>1, TailFacts
  <2>2. \A i \in 1 .. Len(t) : i + 1 \in 1 .. Len(s)
    BY <2>1
  <2>. QED BY <2>1, <2>2
<1>7. \A i \in 1 .. Len(e) : (\E j \in 1 .. Len(c) : e[i] = c[j]) \/ e[i] = v
  <2>1. Len(o) = 1 /\ o[1] = v
    BY <1>1
  <2>2. \A i \in 1 .. Len(e) :
          \/ i \in 1 .. Len(c) /\ e[i] = c[i]
          \/ i - Len(c) \in 1 .. Len(o) /\ e[i] = o[i - Len(c)]
    <3>1. \A i \in 1 .. Len(Cat(c, o)) :
            \/ i \in 1 .. Len(c) /\ Cat(c, o)[i] = c[i]
            \/ i - Len(c) \in 1 .. Len(o) /\ Cat(c, o)[i] = o[i - Len(c)]
      BY ZenonT(30), <1>2, CatFacts
    <3>. QED BY <1>1, <3>1
  <2>. QED BY <2>1, <2>2
<1>8. OneAtATime(k, a, d, t, e, cs, Append(rqs, m.id), rs)
  BY <1>2, <1>3, <1>4, <1>5 DEF Talk, OneAtATime
<1>9. GoesOn(k, a, d, cl, t, e, cs, rs)
  <2>1. m.is \in Plays => m.is = "publish" /\ ~OwnServer(k) /\ OwnClient(k)
    BY <1>2 DEF Plays
  <2>2. OwnClient(k) /\ v.is = "created" => v.id = 4 \/ (~OwnServer(k) /\ 4 \in ToSet(rs))
    <3>1. m.is = "connect" => v.id = 1
      BY <1>2, LetterFacts DEF IdOK
    <3>2. OwnClient(k) /\ m.is = "createStream" => v.id = 4
      BY <1>6 DEF Talk, GoesOn
    <3>3. OwnClient(k) /\ m.is = "publish" => 4 \in ToSet(rs)
      <4>1. m.is = "publish" => Has(s, Plays)
        BY <1>4 DEF Plays
      <4>. QED BY <4>1 DEF Talk, GoesOn
    <3>. QED BY <3>1, <3>2, <3>3 
  <2>3. (Requested(d) /\ ~OwnClient(k)) => Has(t, Plays) \/ Joins(cs) # {}
    BY <1>2, <1>4, <2>1 DEF Talk, GoesOn
  <2>4. ~Has(e, {"error"}) \/ ~OwnServer(k)
    BY <1>3, <1>5 DEF Talk, GoesOn
  <2>5. OwnClient(k) => \A i \in 1 .. Len(t) : t[i].is = "createStream" => t[i].id = 4
    BY <1>6 DEF Talk, GoesOn
  <2>6. OwnClient(k) =>
          \A i \in 1 .. Len(e) : e[i].is = "created" => e[i].id = 4 \/ (~OwnServer(k) /\ 4 \in ToSet(rs))
    BY <1>7, <2>2 DEF Talk, GoesOn
  <2>7. OwnClient(k) => (Has(t, Plays) => 4 \in ToSet(rs))
    BY <1>4 DEF Talk, GoesOn
  <2>8. Has(e, Results) /\ Has(e, Verdicts)
    BY <1>3, <1>5
  <2>. QED BY <2>3, <2>4, <2>5, <2>6, <2>7, <2>8 DEF GoesOn
<1>10. NamesKept(k, a, t, url2, cc)
  <2>1. \A i \in 1 .. Len(t) :
       /\ t[i].is = "connect" => t[i].url = WantedUrl(k, a)
       /\ t[i].is \in Plays => /\ t[i].is = (IF a[1] = "onPlay" THEN "play" ELSE "publish")
                               /\ t[i].name = WantedName(k, a)
    BY SMTT(20), <1>6 DEF Talk, NamesKept
  <2>2. OwnServer(k) => url2 = WantedUrl(k, a) \/ (Has(t, {"connect"}) /\ Leads(t, {"connect"}, Plays))
    <3>1. CASE m.is = "connect"
      BY <1>6, <3>1 DEF Talk, NamesKept
    <3>2. CASE m.is # "connect"
      <4>1. Has(t, {"connect"}) <=> Has(s, {"connect"})
        BY <1>4, <3>2
      <4>2. Leads(s, {"connect"}, Plays) => Leads(t, {"connect"}, Plays)
        BY <1>1, <3>2, LeadsTail
      <4>. QED BY <3>2, <4>1, <4>2 DEF Talk, NamesKept
    <3>. QED BY <3>1, <3>2
  <2>. QED BY <2>1, <2>2 DEF Talk, NamesKept
<1>11. InOrder(k, t, e, Append(rqs, m.id), rs)
  <2>1. PICK p \in Seq(Nat) : Lists(p, c, Results)
            /\ IF OwnServer(k) \/ p # <<>> \/ Has(s, Asks) THEN rqs = Cat(rs, p) ELSE \E q \in Seq(Nat) : rqs = Cat(rs, q)
    BY DEF Talk, InOrder
  <2>2. rqs = Cat(rs, p)
    BY <1>3, <1>4, <2>1
  <2>3. Lists(Append(p, v.id), e, Results)
    BY <1>1, <1>2, <2>1, ListsLast
  <2>6. PICK n : n = m.id
    OBVIOUS
  <2>7. n \in Nat /\ n = v.id
    BY <1>2, <2>6
  <2>8. Append(Cat(rs, p), n) = Cat(rs, Append(p, n))
    BY ZenonT(30), <2>7, AppendMoves
  <2>4. Append(rqs, m.id) = Cat(rs, Append(p, v.id))
    BY <2>2, <2>6, <2>7, <2>8, Zenon
  <2>5. Append(p, v.id) \in Seq(Nat) /\ Append(p, v.id) # <<>>
    <3>0. PICK w : w = Append(p, n)
      OBVIOUS
    <3>2. w \in Seq(Nat) /\ Len(w) = Len(p) + 1 /\ Len(p) \in Nat
      BY <2>7, <3>0, AppendFacts
    <3>1. Append(p, n) \in Seq(Nat) /\ Append(p, n) # <<>>
      BY SMTT(20), <3>0, <3>2, EmptySeq, LenProperties
    <3>. QED BY <2>7, <3>1, Zenon
  <2>. QED BY <2>3, <2>4, <2>5 DEF InOrder
<1>. QED BY <1>1, <1>8, <1>9, <1>10, <1>11 DEF Talk

(* Another server answers without a result *)
LEMMA NotResulted ==
  ASSUME NEW k \in Kinds, NEW a, NEW d, NEW cl, NEW s \in Seq(Letters), NEW c \in Seq(Letters), NEW cs,
         NEW rqs \in Seq(Nat), NEW rs \in Seq(Nat), NEW url, NEW cc,
         Talk(k, a, d, cl, s, c, cs, rqs, rs, url, cc), a # <<>>, s # <<>>, ~OwnServer(k),
         NEW m, m = Head(s), m.is \in Asks,
         NEW o \in Seq(Letters), ~Has(o, Results), Once(o, Verdicts), m.is \notin Plays => Has(o, Verdicts),
         NEW rqs2, rqs2 = rqs \/ rqs2 = Append(rqs, m.id)
  PROVE  Talk(k, a, d, cl, Tail(s), Cat(c, o), cs, rqs2, rs, url, cc)
<1>1. PICK t, e : t = Tail(s) /\ e = Cat(c, o)
  OBVIOUS
<1>2. /\ t \in Seq(Letters) /\ e \in Seq(Letters) /\ m \in Letters /\ m.id \in Nat /\ OwnClient(k)
  <2>1. t \in Seq(Letters) /\ m \in Letters
    BY <1>1, TailFacts
  <2>3. e \in Seq(Letters)
    BY <1>1, CatFacts
  <2>4. OwnClient(k)
    BY DEF OwnClient, OwnServer, Kinds
  <2>. QED BY <2>1, <2>3, <2>4, LetterFacts
<1>4. /\ \A kinds : Has(t, kinds) => Has(s, kinds)
      /\ \A kinds : m.is \in kinds => Has(s, kinds)
      /\ \A kinds : Once(s, kinds) => Once(t, kinds)
      /\ \A kinds : Once(s, kinds) /\ m.is \in kinds => ~Has(t, kinds)
  BY <1>1, HasTail
<1>5. /\ \A kinds : Has(e, kinds) <=> Has(c, kinds) \/ Has(o, kinds)
      /\ \A kinds : ~Has(c, kinds) /\ Once(o, kinds) => Once(e, kinds)
  BY <1>1, <1>2, HasCat
<1>6. \A i \in 1 .. Len(t) : \E j \in 1 .. Len(s) : t[i] = s[j]
  <2>1. /\ Len(t) = Len(s) - 1 /\ Len(s) \in Nat /\ Len(s) >= 1
        /\ \A i \in 1 .. Len(t) : t[i] = s[i + 1]
    BY <1>1, TailFacts
  <2>2. \A i \in 1 .. Len(t) : i + 1 \in 1 .. Len(s)
    BY <2>1
  <2>. QED BY <2>1, <2>2
<1>7. \A i \in 1 .. Len(e) : e[i].is = "created" => \E j \in 1 .. Len(c) : e[i] = c[j]
  <2>1. \A i \in 1 .. Len(o) : o[i].is # "created"
    BY KindFacts DEF Has
  <2>2. \A i \in 1 .. Len(e) :
          \/ i \in 1 .. Len(c) /\ e[i] = c[i]
          \/ i - Len(c) \in 1 .. Len(o) /\ e[i] = o[i - Len(c)]
    <3>1. \A i \in 1 .. Len(Cat(c, o)) :
            \/ i \in 1 .. Len(c) /\ Cat(c, o)[i] = c[i]
            \/ i - Len(c) \in 1 .. Len(o) /\ Cat(c, o)[i] = o[i - Len(c)]
      BY <1>2, CatFacts
    <3>. QED BY <1>1, <3>1
  <2>. QED BY <2>1, <2>2
<1>8. OneAtATime(k, a, d, t, e, cs, rqs2, rs)
  BY <1>2, <1>4, <1>5 DEF Talk, OneAtATime
<1>9. GoesOn(k, a, d, cl, t, e, cs, rs)
  <2>1. m.is \in Plays => 4 \in ToSet(rs)
    BY <1>2, <1>4 DEF Talk, GoesOn
  <2>2. m.is \notin Plays => Has(e, Verdicts)
    BY <1>5
  <2>5. \A i \in 1 .. Len(t) : t[i].is = "createStream" => t[i].id = 4
    BY <1>2, <1>6 DEF Talk, GoesOn
  <2>6. \A i \in 1 .. Len(e) : e[i].is = "created" => e[i].id = 4 \/ (~OwnServer(k) /\ 4 \in ToSet(rs))
    BY <1>2, <1>7 DEF Talk, GoesOn
  <2>7. Has(t, Plays) => 4 \in ToSet(rs)
    BY <1>2, <1>4 DEF Talk, GoesOn
  <2>. QED BY <1>2, <2>1, <2>2, <2>5, <2>6, <2>7 DEF GoesOn
<1>10. NamesKept(k, a, t, url, cc)
  <2>1. NamesKept(k, a, s, url, cc)
    BY DEF Talk
  <2>2. \A i \in 1 .. Len(t) :
          /\ t[i].is = "connect" => t[i].url = WantedUrl(k, a)
          /\ t[i].is \in Plays => /\ t[i].is = (IF a[1] = "onPlay" THEN "play" ELSE "publish")
                                  /\ t[i].name = WantedName(k, a)
    <3>1. \A j \in 1 .. Len(s) :
            /\ s[j].is = "connect" => s[j].url = WantedUrl(k, a)
            /\ s[j].is \in Plays => /\ s[j].is = (IF a[1] = "onPlay" THEN "play" ELSE "publish")
                                    /\ s[j].name = WantedName(k, a)
      BY <2>1 DEF NamesKept
    <3>2. TAKE i \in 1 .. Len(t)
    <3>3. PICK j \in 1 .. Len(s) : t[i] = s[j]
      BY <1>6
    <3>4. /\ s[j].is = "connect" => s[j].url = WantedUrl(k, a)
          /\ s[j].is \in Plays => /\ s[j].is = (IF a[1] = "onPlay" THEN "play" ELSE "publish")
                                  /\ s[j].name = WantedName(k, a)
      BY <3>1
    <3>. QED BY <3>3, <3>4
  <2>3. OwnClient(k) => cc.name = NoStream /\ (a # <<>> => cc.player = (a[1] = "onPlay"))
    BY <2>1 DEF NamesKept
  <2>. QED BY <2>2, <2>3 DEF NamesKept
<1>11. InOrder(k, t, e, rqs2, rs)
  <2>1. PICK p \in Seq(Nat) : Lists(p, c, Results)
            /\ IF OwnServer(k) \/ p # <<>> \/ Has(s, Asks) THEN rqs = Cat(rs, p) ELSE \E q \in Seq(Nat) : rqs = Cat(rs, q)
    BY DEF Talk, InOrder
  <2>2. rqs = Cat(rs, p)
    BY <1>4, <2>1
  <2>3. p = <<>>
    <3>1. ~Has(c, Verdicts)
      BY <1>2, <1>4 DEF Talk, OneAtATime
    <3>2. ~Has(c, Results)
      BY <3>1 DEF Has, Results, Verdicts
    <3>. QED BY <2>1, <3>2, ListsOnce
  <2>4. Lists(p, e, Results)
    BY <1>1, <2>1, ListsAdd
  <2>5. \E q \in Seq(Nat) : rqs2 = Cat(rs, q)
    <3>1. rqs2 = Cat(rs, p) \/ rqs2 = Append(Cat(rs, p), m.id)
      BY <2>2
    <3>2. Append(Cat(rs, p), m.id) = Cat(rs, Append(p, m.id)) /\ Append(p, m.id) \in Seq(Nat)
      BY ZenonT(30), <1>2, AppendMoves, AppendFacts
    <3>. QED BY <3>1, <3>2
  <2>6. ~Has(t, Asks)
    BY <1>2, <1>4 DEF Talk, OneAtATime
  <2>. QED BY <2>3, <2>4, <2>5, <2>6 DEF InOrder
<1>. QED BY <1>1, <1>8, <1>9, <1>10, <1>11 DEF Talk

(* The handler is asked for a player or publisher *)
LEMMA Asked ==
  ASSUME NEW k \in Kinds, NEW a, NEW d, NEW cl, NEW s \in Seq(Letters), NEW c \in Seq(Letters), NEW cs \in Seq(Calls),
         NEW rqs \in Seq(Nat), NEW rs \in Seq(Nat), NEW url, NEW cc,
         Talk(k, a, d, cl, s, c, cs, rqs, rs, url, cc), a # <<>>, s # <<>>, OwnServer(k),
         NEW m, m = Head(s), m.is \in Plays,
         NEW x \in Calls, x[1] = a[1], a[1] # "onRecv", OwnClient(k) \/ Len(a[2].path) < 3 => x = Wanted(k, a)
  PROVE  Talk(k, a, d, cl, Tail(s), c, Append(cs, x), rqs, rs, url, cc)
<1>1. PICK t, f : t = Tail(s) /\ f = Append(cs, x)
  OBVIOUS
<1>2. m.is \in Asks /\ m.is \notin {"connect"} /\ m.is \notin {"connect", "createStream"}
  BY DEF Plays, Asks
<1>4. /\ \A kinds : Has(t, kinds) => Has(s, kinds)
      /\ \A kinds : m.is \notin kinds => (Has(t, kinds) <=> Has(s, kinds))
      /\ \A kinds : m.is \in kinds => Has(s, kinds)
      /\ \A kinds : Once(s, kinds) => Once(t, kinds)
      /\ \A kinds : Once(s, kinds) /\ m.is \in kinds => ~Has(t, kinds)
  BY <1>1, HasTail
<1>5. Has(s, Asks) /\ Has(s, Plays)
  BY <1>2, <1>4
<1>6. Joins(cs) = {}
  BY <1>5 DEF Talk, OneAtATime
<1>7. /\ Len(f) = Len(cs) + 1 /\ Len(cs) \in Nat /\ f[Len(cs) + 1] = x
      /\ \A i \in 1 .. Len(cs) : f[i] = cs[i]
  BY <1>1
<1>8. /\ \A i \in Joins(f) : i = Len(cs) + 1 /\ f[i] = x
      /\ Joins(f) # {}
  <2>1. \A i \in 1 .. Len(cs) : f[i][1] = "onRecv"
    BY <1>6, <1>7 DEF Joins
  <2>2. Len(cs) + 1 \in Joins(f)
    BY <1>7 DEF Joins
  <2>3. \A i \in Joins(f) : i \in 1 .. Len(cs) \/ i = Len(cs) + 1
    BY <1>7 DEF Joins
  <2>. QED BY <1>7, <2>1, <2>2, <2>3 DEF Joins
<1>9. OneAtATime(k, a, d, t, c, f, rqs, rs)
  BY <1>2, <1>4, <1>5, <1>8 DEF Talk, OneAtATime
<1>10. GoesOn(k, a, d, cl, t, c, f, rs)
  <2>1. \A i \in 1 .. Len(t) : \E j \in 1 .. Len(s) : t[i] = s[j]
    <3>1. /\ Len(t) = Len(s) - 1 /\ Len(s) \in Nat /\ \A i \in 1 .. Len(t) : t[i] = s[i + 1]
      BY <1>1, TailFacts
    <3>2. \A i \in 1 .. Len(t) : i + 1 \in 1 .. Len(s)
      BY <3>1
    <3>. QED BY <3>1, <3>2
  <2>2. OwnClient(k) => \A i \in 1 .. Len(t) : t[i].is = "createStream" => t[i].id = 4
    BY <2>1 DEF Talk, GoesOn
  <2>. QED BY <1>4, <1>8, <2>2 DEF Talk, GoesOn
<1>11. NamesKept(k, a, t, url, cc)
  <2>1. \A i \in 1 .. Len(t) : \E j \in 1 .. Len(s) : t[i] = s[j]
    <3>1. /\ Len(t) = Len(s) - 1 /\ Len(s) \in Nat /\ \A i \in 1 .. Len(t) : t[i] = s[i + 1]
      BY <1>1, TailFacts
    <3>2. \A i \in 1 .. Len(t) : i + 1 \in 1 .. Len(s)
      BY <3>1
    <3>. QED BY <3>1, <3>2
  <2>2. ~Leads(s, {"connect"}, Plays)
    BY LeadsTail
  <2>3. url = WantedUrl(k, a)
    BY <2>2 DEF Talk, NamesKept
  <2>. QED BY <2>1, <2>3 DEF Talk, NamesKept
<1>12. JoinsRight(k, a, f)
  BY <1>8 DEF JoinsRight
<1>13. InOrder(k, t, c, rqs, rs)
  BY DEF Talk, InOrder
<1>. QED BY <1>1, <1>9, <1>10, <1>11, <1>12, <1>13, Zenon DEF Talk

(* Another client reads a result *)
LEMMA OtherHears ==
  ASSUME NEW k \in Kinds, NEW a, NEW d, NEW cl, NEW s \in Seq(Letters), NEW c \in Seq(Letters), NEW cs,
         NEW rqs \in Seq(Nat), NEW rs \in Seq(Nat), NEW url, NEW cc,
         Talk(k, a, d, cl, s, c, cs, rqs, rs, url, cc), a # <<>>, c # <<>>, ~OwnClient(k),
         NEW v, v = Head(c), v.is \in Results
  PROVE  Talk(k, a, d, cl, s, Tail(c), cs, rqs, Append(rs, v.id), url, cc)
<1>1. PICK t, r : t = Tail(c) /\ r = Append(rs, v.id)
  OBVIOUS
<1>2. OwnServer(k) /\ v \in Letters /\ v.id \in Nat
  <2>1. v \in Letters
    BY TailFacts
  <2>2. OwnServer(k)
    BY DEF OwnClient, OwnServer, Kinds
  <2>. QED BY <2>1, <2>2, LetterFacts
<1>3. \A kinds : Has(t, kinds) => Has(c, kinds)
  BY <1>1, HasTail
<1>4. OneAtATime(k, a, d, s, t, cs, rqs, r)
  BY DEF Talk, OneAtATime
<1>5. GoesOn(k, a, d, cl, s, t, cs, r)
  BY <1>2, <1>3 DEF Talk, GoesOn
<1>6. InOrder(k, s, t, rqs, r)
  <2>1. PICK p \in Seq(Nat) : Lists(p, c, Results) /\ rqs = Cat(rs, p)
    BY <1>2 DEF Talk, InOrder
  <2>2. p # <<>> /\ Head(p) = v.id /\ Tail(p) \in Seq(Nat) /\ Lists(Tail(p), t, Results)
    BY <1>1, <2>1, ListsHead
  <2>3. Cat(Append(rs, Head(p)), Tail(p)) = Cat(rs, p)
    BY <2>2, AppendMoves, <1>2
  <2>4. rqs = Cat(r, Tail(p))
    BY <1>1, <2>1, <2>2, <2>3
  <2>. QED BY <1>2, <2>2, <2>4 DEF InOrder
<1>. QED BY <1>1, <1>4, <1>5, <1>6, Zenon DEF Talk

(* This code's client reads a result and asks for the next thing *)
LEMMA ClientHears ==
  ASSUME NEW k \in Kinds, NEW a, NEW d, NEW cl, NEW s \in Seq(Letters), NEW c \in Seq(Letters), NEW cs,
         NEW rqs \in Seq(Nat), NEW rs \in Seq(Nat), NEW url, NEW cc,
         Talk(k, a, d, cl, s, c, cs, rqs, rs, url, cc), a # <<>>, c # <<>>, OwnClient(k),
         NEW v, v = Head(c), v.is \in Results, NEW o \in Seq(Letters),
         \/ v.id = 1 /\ \E m \in Letters : o = <<m>> /\ m.is = "createStream" /\ m.id = 4
         \/ v.id = 4 /\ \E m \in Letters : /\ o = <<m>> /\ m.is = (IF a[1] = "onPlay" THEN "play" ELSE "publish")
                                            /\ m.name = NoStream
         \/ v.id \notin {1, 4} /\ o = <<>>
  PROVE  Talk(k, a, d, cl, Cat(s, o), Tail(c), cs, rqs, Append(rs, v.id), url, cc)
<1>1. PICK u, t, r : u = Cat(s, o) /\ t = Tail(c) /\ r = Append(rs, v.id)
  OBVIOUS
<1>2. v \in Letters /\ v.id \in Nat /\ t \in Seq(Letters) /\ u \in Seq(Letters)
  <2>1. v \in Letters /\ t \in Seq(Letters)
    BY <1>1, TailFacts
  <2>2. u \in Seq(Letters)
    BY <1>1, CatFacts
  <2>. QED BY <2>1, <2>2, LetterFacts
<1>3. ToSet(r) = ToSet(rs) \cup {v.id}
  BY <1>1, <1>2, ToSetAppend
<1>4. /\ \A kinds : Has(t, kinds) => Has(c, kinds)
      /\ \A kinds : v.is \in kinds => Has(c, kinds)
      /\ \A kinds : Once(c, kinds) => Once(t, kinds)
      /\ \A kinds : Once(c, kinds) /\ v.is \in kinds => ~Has(t, kinds)
  BY <1>1, HasTail
<1>5. v.is \in Verdicts
  BY DEF Results, Verdicts
<1>6. ~Has(s, Asks) /\ Joins(cs) = {} /\ ~Has(t, Verdicts) /\ Has(c, Verdicts)
  BY <1>4, <1>5 DEF Talk, OneAtATime
<1>7. /\ v.id = 1 => ~Has(o, Plays) /\ Has(o, {"connect", "createStream"})
      /\ v.id = 4 => ~Has(o, {"connect", "createStream"})
      /\ v.id \notin {1, 4} => ~Has(o, Asks) /\ ~Has(o, Plays)
      /\ v.id \in {1, 4} => Has(o, Asks)
      /\ Once(o, Asks)
  <2>1. CASE v.id = 1
    BY SMTT(20), <2>1, HasOne DEF Plays, Asks
  <2>2. CASE v.id = 4
    BY SMTT(20), <2>2, HasOne DEF Plays, Asks
  <2>3. CASE v.id \notin {1, 4}
    BY <2>3, HasNone
  <2>. QED BY <2>1, <2>2, <2>3
<1>8. /\ \A kinds : Has(u, kinds) <=> Has(s, kinds) \/ Has(o, kinds)
      /\ Once(u, Asks)
  BY <1>1, <1>6, <1>7, HasCat
<1>9. ~Has(s, Plays)
  BY <1>6, KindFacts DEF Has
<1>10. \A i \in 1 .. Len(u) : (\E j \in 1 .. Len(s) : u[i] = s[j]) \/ (\E j \in 1 .. Len(o) : u[i] = o[j])
  <2>1. \A i \in 1 .. Len(Cat(s, o)) :
            \/ i \in 1 .. Len(s) /\ Cat(s, o)[i] = s[i]
            \/ i - Len(s) \in 1 .. Len(o) /\ Cat(s, o)[i] = o[i - Len(s)]
    <3>1. s \in Seq(Letters) /\ o \in Seq(Letters)
      OBVIOUS
    <3>. QED BY ONLY <3>1, CatFacts
  <2>. QED BY <1>1, <2>1
<1>11. OneAtATime(k, a, d, u, t, cs, rqs, r)
  BY <1>4, <1>6, <1>8 DEF Talk, OneAtATime
<1>12. GoesOn(k, a, d, cl, u, t, cs, r)
  <2>1. OwnServer(k) => Has(u, Asks)
    <3>1. ASSUME OwnServer(k), v.id \notin {1, 4}
          PROVE  FALSE
      <4>1. v.is = "accepted" => v.id = 1
        BY <1>2, LetterFacts DEF IdOK
      <4>2. v.is = "created" => v.id = 4
        <5>1. Head(c) = c[1] /\ 1 \in 1 .. Len(c)
          BY TailFacts
        <5>. QED BY <3>1, <5>1 DEF Talk, GoesOn
      <4>. QED BY <3>1, <4>1, <4>2 DEF Results
    <3>. QED BY <1>7, <1>8, <3>1
  <2>2. ~OwnServer(k) => 4 \in ToSet(r) \/ Has(u, {"connect", "createStream"})
    <3>1. ASSUME ~OwnServer(k), v.id \notin {1, 4}
          PROVE  4 \in ToSet(rs)
      <4>1. v.is = "accepted" => v.id = 1
        BY <1>2, LetterFacts DEF IdOK
      <4>2. v.is = "created" => v.id = 4 \/ 4 \in ToSet(rs)
        <5>1. Head(c) = c[1] /\ 1 \in 1 .. Len(c)
          BY TailFacts
        <5>. QED BY <3>1, <5>1 DEF Talk, GoesOn
      <4>. QED BY <3>1, <4>1, <4>2 DEF Results
    <3>. QED BY <1>3, <1>7, <1>8, <3>1
  <2>3. OwnServer(k) => ~Has(t, {"error"})
    BY <1>4 DEF Talk, GoesOn
  <2>4. \A i \in 1 .. Len(u) : u[i].is = "createStream" => u[i].id = 4
    <3>1. \A j \in 1 .. Len(o) : o[j].is = "createStream" => o[j].id = 4
      <4>1. CASE v.id = 1
        BY <4>1
      <4>2. CASE v.id = 4
        BY <4>2
      <4>3. CASE v.id \notin {1, 4}
        BY <4>3
      <4>. QED BY <4>1, <4>2, <4>3
    <3>2. \A j \in 1 .. Len(s) : s[j].is = "createStream" => s[j].id = 4
      BY DEF Talk, GoesOn
    <3>3. ASSUME NEW i \in 1 .. Len(u), u[i].is = "createStream"
          PROVE  u[i].id = 4
      <4>1. PICK w : w = u[i]
        OBVIOUS
      <4>2. (\E j \in 1 .. Len(s) : w = s[j]) \/ (\E j \in 1 .. Len(o) : w = o[j])
        BY <1>10, <4>1
      <4>. QED BY <3>1, <3>2, <3>3, <4>1, <4>2
    <3>. QED BY <3>3
  <2>5. \A i \in 1 .. Len(t) : t[i].is = "created" => FALSE
    BY <1>6, KindFacts DEF Has
  <2>6. Has(u, Plays) => 4 \in ToSet(r)
    BY <1>3, <1>7, <1>8, <1>9
  <2>. QED BY <2>1, <2>2, <2>3, <2>4, <2>5, <2>6 DEF GoesOn
<1>13. NamesKept(k, a, u, url, cc)
  <2>1. \A j \in 1 .. Len(o) :
          /\ o[j].is # "connect"
          /\ o[j].is \in Plays => /\ o[j].is = (IF a[1] = "onPlay" THEN "play" ELSE "publish")
                                  /\ o[j].name = NoStream
    <3>1. CASE v.id = 1
      BY <3>1 DEF Plays
    <3>2. CASE v.id = 4
      BY <3>2
    <3>3. CASE v.id \notin {1, 4}
      BY <3>3
    <3>. QED BY <3>1, <3>2, <3>3
  <2>2. WantedName(k, a) = NoStream
    BY DEF WantedName
  <2>3. \A i \in 1 .. Len(s) : s[i].is # "connect" /\ s[i].is \notin Plays
    BY <1>6, KindFacts DEF Has
  <2>4. OwnServer(k) => url = WantedUrl(k, a)
    BY <1>6, KindFacts DEF Talk, NamesKept, Has
  <2>5. \A i \in 1 .. Len(u) :
          /\ u[i].is # "connect"
          /\ u[i].is \in Plays => /\ u[i].is = (IF a[1] = "onPlay" THEN "play" ELSE "publish")
                                  /\ u[i].name = NoStream
    <3>1. ASSUME NEW i \in 1 .. Len(u)
          PROVE  /\ u[i].is # "connect"
                 /\ u[i].is \in Plays => /\ u[i].is = (IF a[1] = "onPlay" THEN "play" ELSE "publish")
                                         /\ u[i].name = NoStream
      <4>1. PICK w : w = u[i]
        OBVIOUS
      <4>2. (\E j \in 1 .. Len(s) : w = s[j]) \/ (\E j \in 1 .. Len(o) : w = o[j])
        BY <1>10, <4>1
      <4>. QED BY <2>1, <2>3, <4>1, <4>2
    <3>. QED BY <3>1
  <2>. QED BY <2>2, <2>4, <2>5 DEF Talk, NamesKept
<1>14. InOrder(k, u, t, rqs, r)
  <2>1. PICK p \in Seq(Nat) : Lists(p, c, Results)
            /\ IF OwnServer(k) \/ p # <<>> \/ Has(s, Asks) THEN rqs = Cat(rs, p) ELSE \E q \in Seq(Nat) : rqs = Cat(rs, q)
    BY DEF Talk, InOrder
  <2>2. p # <<>> /\ Head(p) = v.id /\ Tail(p) \in Seq(Nat) /\ Lists(Tail(p), t, Results)
    BY <1>1, <2>1, ListsHead
  <2>3. Cat(Append(rs, Head(p)), Tail(p)) = Cat(rs, p)
    BY <2>2, AppendMoves, <1>2
  <2>4. rqs = Cat(r, Tail(p))
    BY <1>1, <2>1, <2>2, <2>3
  <2>. QED BY <2>2, <2>4 DEF InOrder
<1>. QED BY <1>1, <1>11, <1>12, <1>13, <1>14, Zenon DEF Talk

(* This code's client is refused *)
LEMMA ClientRefused ==
  ASSUME NEW k \in Kinds, NEW a, NEW d, NEW cl, NEW s \in Seq(Letters), NEW c \in Seq(Letters), NEW cs,
         NEW rqs \in Seq(Nat), NEW rs \in Seq(Nat), NEW url, NEW cc,
         Talk(k, a, d, cl, s, c, cs, rqs, rs, url, cc), a # <<>>, c # <<>>, OwnClient(k), Head(c).is = "error"
  PROVE  Talk(k, a, d, TRUE, s, Tail(c), cs, rqs, rs, url, cc)
<1>1. PICK t : t = Tail(c)
  OBVIOUS
<1>2. /\ \A kinds : Has(t, kinds) => Has(c, kinds)
      /\ \A kinds : Head(c).is \in kinds => Has(c, kinds)
      /\ \A kinds : Once(c, kinds) => Once(t, kinds)
      /\ \A kinds : Once(c, kinds) /\ Head(c).is \in kinds => ~Has(t, kinds)
  BY <1>1, HasTail
<1>3. "error" \in Verdicts /\ "error" \notin Results /\ "created" \in Verdicts
  BY DEF Verdicts, Results
<1>4. ~OwnServer(k)
  BY <1>2 DEF Talk, GoesOn
<1>5. ~Has(t, Verdicts)
  BY <1>2, <1>3 DEF Talk, OneAtATime
<1>6. OneAtATime(k, a, d, s, t, cs, rqs, rs)
  BY <1>2, <1>5 DEF Talk, OneAtATime
<1>7. \A i \in 1 .. Len(t) : t[i].is # "created"
  BY <1>3, <1>5 DEF Has
<1>8. GoesOn(k, a, d, TRUE, s, t, cs, rs)
  BY <1>4, <1>7 DEF Talk, GoesOn
<1>9. InOrder(k, s, t, rqs, rs)
  BY <1>1, <1>3, ListsTail DEF Talk, InOrder
<1>. QED BY <1>1, <1>6, <1>8, <1>9, Zenon DEF Talk

LEMMA SaidFacts ==
  ASSUME NEW T, NEW d \in Seq(T), NEW x \in T
  PROVE  /\ Requested(Append(d, x)) <=> Requested(d) \/ x = "request"
         /\ Append(d, x) \in Seq(T) /\ Append(d, x) # <<>>
<1>1. PICK f : f = Append(d, x)
  OBVIOUS
<1>2. /\ f \in Seq(T) /\ Len(f) = Len(d) + 1 /\ Len(d) \in Nat /\ f[Len(d) + 1] = x
      /\ \A i \in 1 .. Len(d) : f[i] = d[i]
  BY <1>1
<1>3. DOMAIN d = 1 .. Len(d) /\ DOMAIN f = 1 .. Len(d) + 1
  BY <1>2, LenProperties
<1>4. Requested(f) <=> Requested(d) \/ x = "request"
  BY <1>2, <1>3 DEF Requested, ToSet
<1>5. f # <<>>
  BY <1>2, EmptySeq, LenProperties
<1>. QED BY <1>1, <1>2, <1>4, <1>5

(* Another program says something of no consequence *)
LEMMA Chatted ==
  ASSUME NEW k, NEW a, NEW d, NEW cl, NEW s, NEW c, NEW cs, NEW rqs, NEW rs, NEW url, NEW cc,
         Talk(k, a, d, cl, s, c, cs, rqs, rs, url, cc), a # <<>>, NEW d2, Requested(d2) <=> Requested(d)
  PROVE  Talk(k, a, d2, cl, s, c, cs, rqs, rs, url, cc)
<1>1. OneAtATime(k, a, d2, s, c, cs, rqs, rs)
  BY DEF Talk, OneAtATime
<1>2. GoesOn(k, a, d2, cl, s, c, cs, rs)
  BY DEF Talk, GoesOn
<1>. QED BY <1>1, <1>2, Zenon DEF Talk

LEMMA TwoFacts ==
  ASSUME NEW m, NEW n
  PROVE  /\ Len(<<m, n>>) = 2 /\ <<m, n>>[1] = m /\ <<m, n>>[2] = n
         /\ \A kinds : Has(<<m, n>>, kinds) <=> m.is \in kinds \/ n.is \in kinds
         /\ \A kinds : ~(m.is \in kinds /\ n.is \in kinds) => Once(<<m, n>>, kinds)
         /\ \A first, kinds : m.is \notin kinds /\ m.is \in first => Leads(<<m, n>>, first, kinds)
         /\ \A first, kinds : m.is \notin kinds /\ n.is \notin kinds => Leads(<<m, n>>, first, kinds)
BY DEF Has, Once, Leads

(* The client starts *)
LEMMA Begun ==
  ASSUME NEW k \in Kinds, NEW a, NEW d, NEW cl, NEW s, NEW c, NEW cs,
         NEW rqs, NEW rs, NEW url, NEW cc,
         Talk(k, a, d, cl, s, c, cs, rqs, rs, url, cc), a = <<>>,
         NEW b, b # <<>>, NEW m, NEW n, NEW cd,
         \/ /\ OwnClient(k) /\ m.is = "chunkSize" /\ n.is = "connect" /\ n.url = WantedUrl(k, b)
            /\ cd.name = NoStream /\ cd.player = (b[1] = "onPlay")
         \/ /\ ~OwnClient(k) /\ m.is = "connect" /\ n.is = "createStream" /\ m.url = WantedUrl(k, b)
            /\ cd = cc
  PROVE  Talk(k, b, d, cl, <<m, n>>, c, cs, rqs, rs, url, cd)
<1>1. PICK t : t = <<m, n>>
  OBVIOUS
<1>2. /\ Len(t) = 2 /\ t[1] = m /\ t[2] = n
      /\ \A kinds : Has(t, kinds) <=> m.is \in kinds \/ n.is \in kinds
      /\ \A kinds : ~(m.is \in kinds /\ n.is \in kinds) => Once(t, kinds)
      /\ \A first, kinds : m.is \notin kinds /\ m.is \in first => Leads(t, first, kinds)
      /\ \A first, kinds : m.is \notin kinds /\ n.is \notin kinds => Leads(t, first, kinds)
  BY <1>1, TwoFacts
<1>3. s = <<>> /\ c = <<>> /\ d = <<>> /\ Joins(cs) = {} /\ rqs = <<>> /\ rs = <<>>
  BY DEF Talk, OneAtATime
<1>4. /\ \A kinds : ~Has(c, kinds) /\ Once(c, kinds)
      /\ ~Requested(d)
  BY <1>3, HasNone DEF Requested, ToSet
<1>5. /\ ~Has(t, Plays) /\ Has(t, Asks) /\ Has(t, {"connect", "createStream"}) /\ Has(t, {"connect"})
      /\ Once(t, Plays) /\ (OwnClient(k) => Once(t, Asks)) /\ Leads(t, {"connect"}, Plays)
  BY <1>2 DEF Plays, Asks
<1>6. OneAtATime(k, b, d, t, c, cs, rqs, rs)
  BY <1>3, <1>4, <1>5 DEF OneAtATime
<1>7. GoesOn(k, b, d, cl, t, c, cs, rs)
  <2>1. OwnClient(k) => \A i \in 1 .. Len(t) : t[i].is # "createStream"
    BY <1>2
  <2>2. \A i \in 1 .. Len(c) : c[i].is # "created"
    BY <1>4 DEF Has
  <2>. QED BY <1>4, <1>5, <2>1, <2>2 DEF GoesOn
<1>8. NamesKept(k, b, t, url, cd)
  <2>1. \A i \in 1 .. Len(t) : (t[i].is = "connect" => t[i].url = WantedUrl(k, b)) /\ t[i].is \notin Plays
    BY <1>2 DEF Plays
  <2>. QED BY <1>5, <2>1 DEF NamesKept
<1>9. JoinsRight(k, b, cs)
  BY <1>3 DEF JoinsRight
<1>10. InOrder(k, t, c, rqs, rs)
  <2>1. Lists(<<>>, c, Results) /\ <<>> \in Seq(Nat)
    BY <1>4, EmptySeq, ListsNone
  <2>2. Cat(rs, <<>>) = rqs
    BY <1>3, <2>1, CatEmpty
  <2>. QED BY <2>1, <2>2 DEF InOrder
<1>. QED BY <1>1, <1>6, <1>7, <1>8, <1>9, <1>10, Zenon DEF Talk

(* Another client asks to play or publish *)
LEMMA Requests ==
  ASSUME NEW k \in Kinds, NEW a, NEW d, NEW cl, NEW s \in Seq(Letters), NEW c, NEW cs,
         NEW rqs, NEW rs, NEW url, NEW cc,
         Talk(k, a, d, cl, s, c, cs, rqs, rs, url, cc), a # <<>>, ~OwnClient(k), ~Requested(d),
         NEW m \in Letters, m.is = (IF a[1] = "onPlay" THEN "play" ELSE "publish"), m.name = a[3],
         NEW d2, Requested(d2)
  PROVE  Talk(k, a, d2, cl, Cat(s, <<m>>), c, cs, rqs, rs, url, cc)
<1>1. PICK o, t : o = <<m>> /\ t = Cat(s, o)
  OBVIOUS
<1>2. o \in Seq(Letters) /\ m.is \in Plays /\ m.is \notin {"connect"} /\ m.is # "connect" /\ m.is \in Asks
  BY <1>1 DEF Plays, Asks
<1>3. /\ \A kinds : Has(t, kinds) <=> Has(s, kinds) \/ m.is \in kinds
      /\ \A kinds : ~Has(s, kinds) => Once(t, kinds)
  BY <1>1, <1>2, HasCat, HasOne
<1>4. OwnServer(k) /\ ~Has(s, Plays) /\ Joins(cs) = {}
  <2>1. OwnServer(k)
    BY DEF OwnClient, OwnServer, Kinds
  <2>. QED BY <2>1 DEF Talk, OneAtATime
<1>5. OneAtATime(k, a, d2, t, c, cs, rqs, rs)
  BY <1>2, <1>3, <1>4 DEF Talk, OneAtATime
<1>6. GoesOn(k, a, d2, cl, t, c, cs, rs)
  BY <1>2, <1>3, <1>4 DEF Talk, GoesOn
<1>7. \A i \in 1 .. Len(t) : (\E j \in 1 .. Len(s) : t[i] = s[j]) \/ t[i] = m
  <2>1. \A i \in 1 .. Len(Cat(s, o)) :
            \/ i \in 1 .. Len(s) /\ Cat(s, o)[i] = s[i]
            \/ i - Len(s) \in 1 .. Len(o) /\ Cat(s, o)[i] = o[i - Len(s)]
    <3>1. s \in Seq(Letters) /\ o \in Seq(Letters)
      BY <1>2
    <3>. QED BY ONLY <3>1, CatFacts
  <2>2. Len(o) = 1 /\ o[1] = m
    BY <1>1
  <2>. QED BY <1>1, <2>1, <2>2
<1>8. NamesKept(k, a, t, url, cc)
  <2>1. WantedName(k, a) = a[3]
    BY DEF WantedName
  <2>2. \A i \in 1 .. Len(t) :
          /\ t[i].is = "connect" => t[i].url = WantedUrl(k, a)
          /\ t[i].is \in Plays => /\ t[i].is = (IF a[1] = "onPlay" THEN "play" ELSE "publish")
                                  /\ t[i].name = WantedName(k, a)
    BY <1>2, <1>7, <2>1 DEF Talk, NamesKept
  <2>3. url = WantedUrl(k, a) \/ (Has(t, {"connect"}) /\ Leads(t, {"connect"}, Plays))
    <3>1. Has(s, {"connect"}) /\ Leads(s, {"connect"}, Plays) => Leads(Cat(s, o), {"connect"}, Plays)
      BY <1>2, LeadsCat
    <3>. QED BY <1>1, <1>3, <1>4, <3>1 DEF Talk, NamesKept
  <2>. QED BY <2>2, <2>3 DEF NamesKept
<1>9. InOrder(k, t, c, rqs, rs)
  BY <1>4 DEF Talk, InOrder
<1>. QED BY <1>1, <1>5, <1>6, <1>8, <1>9, Zenon DEF Talk
-----------------------------------------------------------------------------
(* Announced *)

LEMMA AnnouncedTail ==
  ASSUME NEW T, NEW own, NEW chunk, NEW s \in Seq(T), s # <<>>, Announced(own, chunk, s)
  PROVE  /\ Head(s).is # "chunkSize" => Announced(own, chunk, Tail(s))
         /\ Head(s).is \in {"connect", "accepted"} /\ own = "own" => chunk = 4096
BY LeadsTail DEF Announced

LEMMA AnnouncedMore ==
  ASSUME NEW T, NEW own, NEW chunk, NEW s \in Seq(T), NEW t \in Seq(T), Announced(own, chunk, s),
         own = "own" => Leads(t, {"chunkSize"}, {"connect", "accepted"})
  PROVE  Announced(own, chunk, Cat(s, t))
BY LeadsCat DEF Announced

LEMMA LeadsNone ==
  ASSUME NEW s, NEW first, NEW kinds, ~Has(s, kinds)
  PROVE  Leads(s, first, kinds)
BY DEF Leads, Has
-----------------------------------------------------------------------------
(* The steps of the dialogue *)

LEMMA HereFacts ==
  ASSUME ReadInv
  PROVE  /\ kind \in Kinds /\ stream["server"] \in Seq(Letters) /\ stream["client"] \in Seq(Letters)
         /\ calls["server"] \in Seq(Calls) /\ requests \in Seq(Nat) /\ results \in Seq(Nat)
         /\ said \in Seq({"request", "ping", "unknown", "bytesRead", "media", "ackSize", "bandwidth"})
         /\ (Own("client") <=> OwnClient(kind)) /\ (Own("server") <=> OwnServer(kind))
         /\ DOMAIN calls = Ends /\ DOMAIN ctx = Ends /\ DOMAIN closed = Ends /\ DOMAIN inChunkSize = Ends
         /\ DOMAIN stream = Ends
<1>1. Types
  BY StreamTypes
<1>2. "server" \in Ends /\ "client" \in Ends
  BY EndFacts
<1>3. (Own("client") <=> OwnClient(kind)) /\ (Own("server") <=> OwnServer(kind))
  BY DEF Own, OwnClient, OwnServer
<1>4. /\ calls["server"] \in Seq(Calls)
      /\ DOMAIN calls = Ends /\ DOMAIN ctx = Ends /\ DOMAIN closed = Ends /\ DOMAIN inChunkSize = Ends
      /\ requests \in Seq(Nat) /\ results \in Seq(Nat)
  BY <1>1, <1>2 DEF Types, Here
<1>5. kind \in Kinds
      /\ said \in Seq({"request", "ping", "unknown", "bytesRead", "media", "ackSize", "bandwidth"})
  BY <1>1 DEF Types, Dialogue
<1>6. stream["server"] \in Seq(Letters) /\ stream["client"] \in Seq(Letters) /\ DOMAIN stream = Ends
  BY <1>1, <1>2 DEF Types, Carried
<1>. QED BY <1>3, <1>4, <1>5, <1>6

LEMMA BytesQuiet ==
  ASSUME ReadInv, NEW e \in Ends, NEW n \in Nat, NEW x \in Seq(Letters)
  PROVE  /\ QuietToServer(x, Cat(x, BytesRecv(e, n))) /\ QuietToClient(x, Cat(x, BytesRecv(e, n)))
         /\ Cat(x, BytesRecv(e, n)) \in Seq(Letters)
         /\ Leads(BytesRecv(e, n), {"chunkSize"}, {"connect", "accepted"})
<1>1. PICK b : b = BytesRecv(e, n)
  OBVIOUS
<1>2. b \in Seq(Letters)
  BY <1>1, BytesRecvType
<1>3. \A kinds : "bytesRead" \notin kinds => ~Has(b, kinds)
  <2>1. CASE b = <<>>
    BY <2>1, HasNone
  <2>2. ASSUME NEW m \in Letters, m.is = "bytesRead", b = <<m>>
        PROVE  \A kinds : "bytesRead" \notin kinds => ~Has(b, kinds)
    BY <2>2, HasOne
  <2>. QED BY <1>1, <2>1, <2>2, BytesRecvFacts
<1>4. "bytesRead" \notin Asks /\ "bytesRead" \notin Verdicts /\ "bytesRead" \notin {"connect", "accepted"}
  BY DEF Asks, Verdicts
<1>5. ~Has(b, Asks) /\ ~Has(b, Verdicts) /\ ~Has(b, {"connect", "accepted"})
  BY <1>3, <1>4
<1>. QED BY <1>1, <1>2, <1>5, QuietMore, LeadsNone, CatFacts

LEMMA WholeTold ==
  ASSUME DialogueInv, NEW e \in Ends, NEW answers, Readable(e), Complete(e, answers), Goes(Peer(e), answers),
         Leads(answers, {"chunkSize"}, {"connect", "accepted"}),
         inChunkSize' = IF Head(stream[e]).is = "chunkSize" THEN [inChunkSize EXCEPT ![e] = 4096] ELSE inChunkSize
  PROVE  Telling'
<1>1. /\ stream'[e] = Tail(stream[e])
      /\ stream'[Peer(e)] = Cat(Cat(stream[Peer(e)], BytesRecv(e, Rest(e))), answers) /\ Rest(e) \in Nat
      /\ stream[e] # <<>> /\ stream[e] \in Seq(Letters) /\ kind' = kind
  BY WholeRead DEF DialogueInv
<1>2. /\ Peer(e) \in Ends /\ Ends = {e, Peer(e)} /\ Peer(e) # e /\ DOMAIN inChunkSize = Ends
      /\ stream[Peer(e)] \in Seq(Letters) /\ answers \in Seq(Letters)
  BY EndFacts, HereFacts, StreamTypes DEF DialogueInv, Goes
<1>3. PICK own, peers : own = (IF e = "server" THEN kind[1] ELSE kind[2])
                     /\ peers = (IF Peer(e) = "server" THEN kind[1] ELSE kind[2])
  OBVIOUS
<1>4. /\ Announced(own, inChunkSize[e], stream[e])
      /\ Announced(peers, inChunkSize[Peer(e)], stream[Peer(e)])
  BY <1>2, <1>3 DEF DialogueInv, Telling, Told
<1>5. Announced(own, inChunkSize'[e], Tail(stream[e]))
  <2>1. CASE Head(stream[e]).is = "chunkSize"
    <3>1. inChunkSize'[e] = 4096
      BY <1>2, <2>1
    <3>. QED BY <3>1 DEF Announced
  <2>2. CASE Head(stream[e]).is # "chunkSize"
    <3>1. inChunkSize'[e] = inChunkSize[e]
      BY <2>2
    <3>. QED BY <1>1, <1>4, <2>2, <3>1, AnnouncedTail
  <2>. QED BY <2>1, <2>2
<1>6. Announced(peers, inChunkSize'[Peer(e)], stream'[Peer(e)])
  <2>1. inChunkSize'[Peer(e)] = inChunkSize[Peer(e)]
    BY <1>2
  <2>2. PICK b : b = BytesRecv(e, Rest(e))
    OBVIOUS
  <2>3. b \in Seq(Letters) /\ Leads(b, {"chunkSize"}, {"connect", "accepted"}) /\ Cat(stream[Peer(e)], b) \in Seq(Letters)
    BY Zenon, <1>1, <1>2, <2>2, BytesRecvType, BytesQuiet DEF DialogueInv
  <2>4. Announced(peers, inChunkSize[Peer(e)], Cat(stream[Peer(e)], b))
    BY <1>2, <1>4, <2>3, AnnouncedMore
  <2>5. Announced(peers, inChunkSize[Peer(e)], Cat(Cat(stream[Peer(e)], b), answers))
    BY <1>2, <2>3, <2>4, AnnouncedMore
  <2>. QED BY <1>1, <2>1, <2>2, <2>5
<1>7. Told(e)' /\ Told(Peer(e))'
  BY <1>1, <1>3, <1>5, <1>6 DEF Told
<1>. QED BY <1>2, <1>7 DEF Telling

LEMMA PartSteps ==
  ASSUME DialogueInv, NEW e \in Ends, NEW n \in 1 .. 2, ReadPart(e, n)
  PROVE  Telling' /\ Talking'
<1>1. /\ stream'[e] = stream[e] /\ stream'[Peer(e)] = Cat(stream[Peer(e)], BytesRecv(e, n)) /\ n \in Nat
  BY PartRead DEF DialogueInv
<1>2. /\ Peer(e) \in Ends /\ Ends = {e, Peer(e)} /\ Peer(e) # e
      /\ stream[Peer(e)] \in Seq(Letters)
  BY EndFacts, HereFacts, StreamTypes DEF DialogueInv
<1>3. UNCHANGED <<kind, asked, said, inChunkSize, ctx, calls, closed, requests, results>> /\ stream[e] # <<>>
  BY DEF ReadPart, history, Readable
<1>4. PICK peers : peers = (IF Peer(e) = "server" THEN kind[1] ELSE kind[2])
  OBVIOUS
<1>5. Announced(peers, inChunkSize[Peer(e)], stream'[Peer(e)])
  <2>1. Announced(peers, inChunkSize[Peer(e)], stream[Peer(e)])
    BY <1>2, <1>4 DEF DialogueInv, Telling, Told
  <2>2. BytesRecv(e, n) \in Seq(Letters) /\ Leads(BytesRecv(e, n), {"chunkSize"}, {"connect", "accepted"})
    BY <1>1, <1>2, BytesRecvType, BytesQuiet DEF DialogueInv
  <2>. QED BY <1>1, <1>2, <2>1, <2>2, AnnouncedMore
<1>6. Told(e)'
  BY <1>1, <1>3 DEF DialogueInv, Telling, Told
<1>7. Told(Peer(e))'
  BY <1>3, <1>4, <1>5 DEF Told
<1>8. QuietToServer(stream["server"], stream'["server"]) /\ QuietToClient(stream["client"], stream'["client"])
  <2>1. /\ QuietToServer(stream[Peer(e)], stream'[Peer(e)]) /\ QuietToClient(stream[Peer(e)], stream'[Peer(e)])
    BY <1>1, <1>2, BytesQuiet DEF DialogueInv
  <2>2. QuietToServer(stream[e], stream'[e]) /\ QuietToClient(stream[e], stream'[e])
    BY <1>1, QuietSame
  <2>. QED BY <1>2, <2>1, <2>2, EndFacts
<1>9. asked # <<>>
  BY <1>3, StreamTypes DEF DialogueInv
<1>10. PICK s, c : s = stream'["server"] /\ c = stream'["client"]
  OBVIOUS
<1>11. Talk(kind, asked, said, closed["client"], s, c, calls["server"], requests, results, ctx["server"].url, ctx["client"])
  BY <1>8, <1>9, <1>10, QuietKeeps DEF DialogueInv, Talking
<1>12. Talking'
  BY <1>3, <1>10, <1>11 DEF Talking
<1>. QED BY <1>2, <1>6, <1>7, <1>12 DEF Telling

(* More media is no more of a join *)
LEMMA Received ==
  ASSUME NEW k, NEW a, NEW d, NEW cl, NEW s, NEW c, NEW cs \in Seq(Calls), NEW rqs, NEW rs, NEW url, NEW cc,
         Talk(k, a, d, cl, s, c, cs, rqs, rs, url, cc)
  PROVE  Talk(k, a, d, cl, s, c, Append(cs, <<"onRecv">>), rqs, rs, url, cc)
<1>1. PICK f, x : x = <<"onRecv">> /\ f = Append(cs, x)
  OBVIOUS
<1>0. x \in Calls /\ x[1] = "onRecv"
  BY <1>1 DEF Calls
<1>2. /\ Len(f) = Len(cs) + 1 /\ Len(cs) \in Nat /\ f[Len(cs) + 1] = x
      /\ \A i \in 1 .. Len(cs) : f[i] = cs[i]
  BY <1>0, <1>1
<1>3. Joins(f) = Joins(cs) /\ \A i \in Joins(cs) : f[i] = cs[i]
  <2>1. \A i : i \in Joins(f) <=> i \in Joins(cs)
    BY <1>0, <1>2 DEF Joins
  <2>. QED BY <1>2, <2>1 DEF Joins
<1>4. OneAtATime(k, a, d, s, c, f, rqs, rs) /\ GoesOn(k, a, d, cl, s, c, f, rs)
  BY <1>3, Zenon DEF Talk, OneAtATime, GoesOn
<1>5. JoinsRight(k, a, f)
  BY <1>3 DEF Talk, JoinsRight
<1>. QED BY <1>1, <1>4, <1>5, Zenon DEF Talk

(* What a whole message at the head of the stream of e becomes *)
LEMMA ServerReads ==
  ASSUME DialogueInv, NEW answers, Readable("server"), Complete("server", answers), Goes("client", answers)
  PROVE  /\ stream'["server"] = Tail(stream["server"]) /\ stream["server"] # <<>> /\ asked # <<>>
         /\ kind' = kind /\ asked' = asked /\ said' = said /\ OwnServer(kind)
         /\ \E c \in Seq(Letters) :
              /\ stream'["client"] = Cat(c, answers)
              /\ Talk(kind, asked, said, closed["client"], stream["server"], c, calls["server"], requests, results,
                      ctx["server"].url, ctx["client"])
<1>1. "server" \in Ends /\ Peer("server") = "client"
  BY EndFacts
<1>2. /\ stream'["server"] = Tail(stream["server"])
      /\ stream'["client"] = Cat(Cat(stream["client"], BytesRecv("server", Rest("server"))), answers)
      /\ Rest("server") \in Nat /\ stream["server"] # <<>> /\ kind' = kind /\ asked' = asked /\ said' = said
  BY <1>1, WholeRead DEF DialogueInv
<1>3. asked # <<>> /\ OwnServer(kind)
  BY <1>1, <1>2, StreamTypes, HereFacts DEF DialogueInv, Readable
<1>4. PICK b : b = BytesRecv("server", Rest("server"))
  OBVIOUS
<1>5. PICK c : c = Cat(stream["client"], b)
  OBVIOUS
<1>6. c \in Seq(Letters) /\ QuietToClient(stream["client"], c)
  <2>1. stream["client"] \in Seq(Letters)
    BY HereFacts DEF DialogueInv
  <2>. QED BY <1>1, <1>2, <1>4, <1>5, <2>1, BytesQuiet DEF DialogueInv
<1>7. QuietToServer(stream["server"], stream["server"])
  BY QuietSame
<1>8. Talk(kind, asked, said, closed["client"], stream["server"], c, calls["server"], requests, results,
                      ctx["server"].url, ctx["client"])
  BY <1>3, <1>6, <1>7, QuietKeeps DEF DialogueInv, Talking
<1>. QED BY <1>2, <1>3, <1>4, <1>5, <1>6, <1>8

LEMMA ClientReads ==
  ASSUME DialogueInv, NEW answers, Readable("client"), Complete("client", answers), Goes("server", answers)
  PROVE  /\ stream'["client"] = Tail(stream["client"]) /\ stream["client"] # <<>> /\ asked # <<>>
         /\ kind' = kind /\ asked' = asked /\ said' = said /\ OwnClient(kind)
         /\ \E s \in Seq(Letters) :
              /\ stream'["server"] = Cat(s, answers)
              /\ Talk(kind, asked, said, closed["client"], s, stream["client"], calls["server"], requests, results,
                      ctx["server"].url, ctx["client"])
<1>1. "client" \in Ends /\ Peer("client") = "server"
  BY EndFacts
<1>2. /\ stream'["client"] = Tail(stream["client"])
      /\ stream'["server"] = Cat(Cat(stream["server"], BytesRecv("client", Rest("client"))), answers)
      /\ Rest("client") \in Nat /\ stream["client"] # <<>> /\ kind' = kind /\ asked' = asked /\ said' = said
  BY <1>1, WholeRead DEF DialogueInv
<1>3. asked # <<>> /\ OwnClient(kind)
  BY <1>1, <1>2, StreamTypes, HereFacts DEF DialogueInv, Readable
<1>4. PICK b : b = BytesRecv("client", Rest("client"))
  OBVIOUS
<1>5. PICK s : s = Cat(stream["server"], b)
  OBVIOUS
<1>6. s \in Seq(Letters) /\ QuietToServer(stream["server"], s)
  <2>1. stream["server"] \in Seq(Letters)
    BY HereFacts DEF DialogueInv
  <2>. QED BY <1>1, <1>2, <1>4, <1>5, <2>1, BytesQuiet DEF DialogueInv
<1>7. QuietToClient(stream["client"], stream["client"])
  BY QuietSame
<1>8. Talk(kind, asked, said, closed["client"], s, stream["client"], calls["server"], requests, results,
                      ctx["server"].url, ctx["client"])
  BY <1>3, <1>6, <1>7, QuietKeeps DEF DialogueInv, Talking
<1>. QED BY <1>2, <1>3, <1>4, <1>5, <1>6, <1>8

LEMMA QuietReads ==
  ASSUME DialogueInv, NEW e \in Ends, NEW answers, Readable(e), Complete(e, answers), Goes(Peer(e), answers),
         Head(stream[e]).is \notin Asks, Head(stream[e]).is \notin Verdicts,
         ~Has(answers, Asks), ~Has(answers, Verdicts), UNCHANGED <<closed, requests, results, ctx>>,
         calls'["server"] = calls["server"] \/ calls'["server"] = Append(calls["server"], <<"onRecv">>)
  PROVE  Talking'
<1>1. stream["server"] \in Seq(Letters) /\ stream["client"] \in Seq(Letters) /\ answers \in Seq(Letters)
      /\ calls["server"] \in Seq(Calls)
  BY HereFacts DEF DialogueInv, Goes
<1>2. /\ kind' = kind /\ asked' = asked /\ said' = said
      /\ Talk(kind, asked, said, closed["client"], stream'["server"], stream'["client"], calls["server"], requests, results,
              ctx["server"].url, ctx["client"])
  <2>1. CASE e = "server"
    <3>1. Peer(e) = "client"
      BY <2>1, EndFacts
    <3>2. PICK c \in Seq(Letters) :
            /\ stream'["server"] = Tail(stream["server"]) /\ stream["server"] # <<>> /\ asked # <<>>
            /\ kind' = kind /\ asked' = asked /\ said' = said
            /\ stream'["client"] = Cat(c, answers)
            /\ Talk(kind, asked, said, closed["client"], stream["server"], c, calls["server"], requests, results,
                      ctx["server"].url, ctx["client"])
      BY <2>1, <3>1, ServerReads
    <3>3. PICK s2, c2 : s2 = Tail(stream["server"]) /\ c2 = Cat(c, answers)
      OBVIOUS
    <3>4. QuietToServer(stream["server"], s2) /\ QuietToClient(c, c2)
      BY <1>1, <2>1, <3>2, <3>3, QuietTail, QuietMore
    <3>5. Talk(kind, asked, said, closed["client"], s2, c2, calls["server"], requests, results,
                      ctx["server"].url, ctx["client"])
      BY <3>2, <3>4, QuietKeeps
    <3>. QED BY <3>2, <3>3, <3>5
  <2>2. CASE e = "client"
    <3>1. Peer(e) = "server"
      BY <2>2, EndFacts
    <3>2. PICK s \in Seq(Letters) :
            /\ stream'["client"] = Tail(stream["client"]) /\ stream["client"] # <<>> /\ asked # <<>>
            /\ kind' = kind /\ asked' = asked /\ said' = said
            /\ stream'["server"] = Cat(s, answers)
            /\ Talk(kind, asked, said, closed["client"], s, stream["client"], calls["server"], requests, results,
                      ctx["server"].url, ctx["client"])
      BY <2>2, <3>1, ClientReads
    <3>3. PICK s2, c2 : c2 = Tail(stream["client"]) /\ s2 = Cat(s, answers)
      OBVIOUS
    <3>4. QuietToServer(s, s2) /\ QuietToClient(stream["client"], c2)
      BY <1>1, <2>2, <3>2, <3>3, QuietTail, QuietMore
    <3>5. Talk(kind, asked, said, closed["client"], s2, c2, calls["server"], requests, results,
                      ctx["server"].url, ctx["client"])
      BY <3>2, <3>4, QuietKeeps
    <3>. QED BY <3>2, <3>3, <3>5
  <2>. QED BY <2>1, <2>2, EndFacts
<1>3. PICK s, c, cs : s = stream'["server"] /\ c = stream'["client"] /\ cs = calls'["server"]
  OBVIOUS
<1>4. Talk(kind, asked, said, closed["client"], s, c, cs, requests, results, ctx["server"].url, ctx["client"])
  BY <1>1, <1>2, <1>3, Received
<1>. QED BY <1>2, <1>3, <1>4 DEF Talking

LEMMA QuietSteps ==
  ASSUME DialogueInv, NEW e \in Ends,
         HandleChunkSize(e) \/ HandleAckWindowSize(e) \/ HandleUserMessage(e) \/ Ignored(e) \/ Media(e)
  PROVE  Telling' /\ Talking'
<1>0. ReadInv /\ "server" \in Ends /\ "client" \in Ends /\ Peer(e) \in Ends /\ DOMAIN calls = Ends
      /\ DOMAIN inChunkSize = Ends
  BY EndFacts, HereFacts DEF DialogueInv
<1>1. PICK is, answers :
        /\ Got(e, is) /\ Complete(e, answers)
        /\ is \in {"chunkSize", "ackSize", "ping", "bytesRead", "bandwidth", "streamBegin", "onStatus", "unknown", "media"}
        /\ answers = <<>> \/ (is = "ping" /\ answers = <<UserCtrl(Head(stream[e]).id)>>)
        /\ UNCHANGED <<closed, requests, results, ctx>>
        /\ calls' = calls \/ calls' = [calls EXCEPT ![e] = Append(@, <<"onRecv">>)]
        /\ inChunkSize' = IF is = "chunkSize" THEN [inChunkSize EXCEPT ![e] = Head(stream[e]).id] ELSE inChunkSize
  <2>1. CASE HandleChunkSize(e)
    BY <2>1 DEF HandleChunkSize
  <2>2. CASE HandleAckWindowSize(e)
    BY <2>2 DEF HandleAckWindowSize
  <2>3. CASE HandleUserMessage(e)
    BY <2>3 DEF HandleUserMessage
  <2>4. CASE Ignored(e)
    BY <2>4 DEF Ignored
  <2>5. CASE Media(e)
    BY <2>5 DEF Media
  <2>. QED BY <2>1, <2>2, <2>3, <2>4, <2>5
<1>2. /\ Readable(e) /\ stream[e] # <<>> /\ Head(stream[e]).is = is /\ Head(stream[e]) \in Letters
  BY <1>0, <1>1, GotFacts
<1>3. is = "chunkSize" => Head(stream[e]).id = 4096
  BY <1>2, LetterFacts DEF IdOK
<1>4. is \notin Asks /\ is \notin Verdicts
  BY <1>1 DEF Asks, Verdicts
<1>5. Goes(Peer(e), answers) /\ ~Has(answers, Asks) /\ ~Has(answers, Verdicts)
      /\ Leads(answers, {"chunkSize"}, {"connect", "accepted"})
  <2>1. CASE answers = <<>>
    BY <2>1, GoesNone, HasNone, LeadsNone
  <2>2. CASE is = "ping" /\ answers = <<UserCtrl(Head(stream[e]).id)>>
    <3>1. PICK m : m = UserCtrl(Head(stream[e]).id)
      OBVIOUS
    <3>2. m.is = "streamBegin" /\ m \in Letters
      BY <1>2, <3>1, MsgFacts, LetterFacts DEF UserCtrl, Kinds2, ServerKinds
    <3>3. Letter(Peer(e), m)
      BY <3>2 DEF Letter, ServerKinds, ClientKinds
    <3>4. m.is \notin Asks /\ m.is \notin Verdicts /\ m.is \notin {"connect", "accepted"}
      BY <3>2 DEF Asks, Verdicts
    <3>. QED BY <2>2, <3>1, <3>3, <3>4, GoesOne, HasOne, LeadsNone
  <2>. QED BY <1>1, <2>1, <2>2
<1>6. calls'["server"] = calls["server"] \/ calls'["server"] = Append(calls["server"], <<"onRecv">>)
  BY <1>0, <1>1
<1>7. Talking'
  BY <1>1, <1>2, <1>4, <1>5, <1>6, QuietReads
<1>8. inChunkSize' = IF Head(stream[e]).is = "chunkSize" THEN [inChunkSize EXCEPT ![e] = 4096] ELSE inChunkSize
  <2>1. CASE is = "chunkSize"
    <3>1. PICK n : n = Head(stream[e]).id
      OBVIOUS
    <3>2. inChunkSize' = [inChunkSize EXCEPT ![e] = n]
      BY <1>1, <2>1, <3>1
    <3>3. n = 4096 /\ Head(stream[e]).is = "chunkSize"
      BY <1>2, <1>3, <2>1, <3>1
    <3>. QED BY <3>2, <3>3
  <2>2. CASE is # "chunkSize"
    BY <1>1, <1>2, <2>2
  <2>. QED BY <2>1, <2>2
<1>9. Telling'
  BY <1>1, <1>2, <1>5, <1>8, WholeTold
<1>. QED BY <1>7, <1>9

LEMMA ConnectSteps ==
  ASSUME DialogueInv, NEW e \in Ends, HandleConnect(e)
  PROVE  Telling' /\ Talking'
<1>0. ReadInv /\ "server" \in Ends /\ "client" \in Ends /\ DOMAIN ctx = Ends
  BY EndFacts, HereFacts DEF DialogueInv
<1>1. /\ Got(e, "connect") /\ Complete(e, ConnectAnswer(e))
      /\ ctx' = [ctx EXCEPT ![e].url = Head(stream[e]).url, ![e].app = Head(stream[e]).app]
      /\ requests' = Append(requests, Head(stream[e]).id)
      /\ UNCHANGED <<ackSize, inChunkSize, calls, closed, results>>
  BY DEF HandleConnect
<1>2. e = "server" /\ Peer(e) = "client" /\ Goes("client", ConnectAnswer(e))
  BY <1>0, <1>1, Sides, ConnectTypes DEF Asks
<1>3. PICK m, w : m = Head(stream["server"]) /\ w = ackSize["server"]
  OBVIOUS
<1>4. /\ Readable("server") /\ m.is = "connect" /\ m \in Letters /\ w \in Windows /\ Here
  <2>1. Readable("server") /\ m.is = "connect" /\ m \in Letters /\ Here
    BY <1>0, <1>1, <1>2, <1>3, GotFacts
  <2>. QED BY <1>0, <1>3, <2>1 DEF Here
<1>5. m.id = 1 /\ m.url \in Url /\ m.app \in Seq(Parts)
  BY <1>4, LetterFacts DEF IdOK
<1>21. PICK v, x, y, z : /\ v = Msg("accepted", 1)
                         /\ x = Msg("ackSize", w) /\ y = Msg("bandwidth", w) /\ z = Msg("chunkSize", 4096)
  OBVIOUS
<1>6. PICK q : q = <<x, y, z>>
  OBVIOUS
<1>7. v \in Letters /\ v.is = "accepted" /\ v.id = 1
  BY <1>21, MsgFacts DEF Kinds2, ClientKinds, Verdicts
<1>8. q \in Seq(Letters) /\ Has(q, {"chunkSize"}) /\ ~Has(q, Asks) /\ ~Has(q, Verdicts)
      /\ ~Has(q, {"connect", "accepted"})
  <2>2. w \in Nat
    BY <1>4, ConstantTypes
  <2>3. x \in Letters /\ y \in Letters /\ z \in Letters
    BY <1>4, <1>21, <2>2, MsgFacts DEF Kinds2, ClientKinds
  <2>4. x.is = "ackSize" /\ y.is = "bandwidth" /\ z.is = "chunkSize"
    BY <1>21, MsgFacts
  <2>. QED BY <1>6, <2>3, <2>4 DEF Has, Asks, Verdicts
<1>9. ConnectAnswer(e) = Cat(q, <<v>>)
  BY <1>2, <1>3, <1>6, <1>21 DEF ConnectAnswer, Cat
<1>10. Leads(ConnectAnswer(e), {"chunkSize"}, {"connect", "accepted"})
  <2>1. Leads(q, {"chunkSize"}, {"connect", "accepted"})
    BY <1>8, LeadsNone
  <2>2. <<v>> \in Seq(Letters)
    BY <1>7
  <2>. QED BY <1>8, <1>9, <2>1, <2>2, LeadsCat
<1>11. Telling'
  <2>1. Head(stream[e]).is = "connect"
    BY <1>2, <1>3, <1>4
  <2>. QED BY <1>1, <1>2, <1>4, <1>10, <2>1, WholeTold
<1>12. PICK c \in Seq(Letters) :
         /\ stream'["server"] = Tail(stream["server"]) /\ stream["server"] # <<>> /\ asked # <<>>
         /\ kind' = kind /\ asked' = asked /\ said' = said
         /\ stream'["client"] = Cat(c, ConnectAnswer(e))
         /\ Talk(kind, asked, said, closed["client"], stream["server"], c, calls["server"], requests, results,
                      ctx["server"].url, ctx["client"])
         /\ OwnServer(kind)
  BY <1>1, <1>2, <1>4, ServerReads
<1>13. PICK c2 : c2 = Cat(c, q)
  OBVIOUS
<1>14. c2 \in Seq(Letters) /\ QuietToClient(c, c2) /\ QuietToServer(stream["server"], stream["server"])
  BY <1>8, <1>13, QuietMore, QuietSame, CatFacts
<1>15. stream'["client"] = Cat(c2, <<v>>)
  <2>1. PICK o : o = <<v>>
    OBVIOUS
  <2>2. o \in Seq(Letters)
    BY <1>7, <2>1
  <2>3. Cat(c, Cat(q, o)) = Cat(Cat(c, q), o)
    BY <1>8, <2>2, CatAssoc
  <2>. QED BY <1>9, <1>12, <1>13, <2>1, <2>3, Zenon
<1>16. Talk(kind, asked, said, closed["client"], stream["server"], c2, calls["server"], requests, results,
                      ctx["server"].url, ctx["client"])
  BY <1>12, <1>14, QuietKeeps
<1>17. PICK s, u, r, o : s = Tail(stream["server"]) /\ u = m.url /\ r = Append(requests, m.id) /\ o = Cat(c2, <<v>>)
  OBVIOUS
<1>18. Talk(kind, asked, said, closed["client"], s, o, calls["server"], r, results, u, ctx["client"])
  <2>1. kind \in Kinds /\ stream["server"] \in Seq(Letters) /\ requests \in Seq(Nat) /\ results \in Seq(Nat)
    BY <1>0, HereFacts
  <2>2. m.is \in {"connect", "createStream", "publish"} /\ (m.is = "publish" => ~OwnServer(kind))
        /\ v.is \in Results /\ v.id = m.id /\ (m.is = "connect" => v.is = "accepted")
        /\ m.url = (IF m.is = "connect" THEN m.url ELSE ctx["server"].url)
    BY <1>4, <1>5, <1>7 DEF Results
  <2>. QED BY <1>3, <1>7, <1>12, <1>14, <1>16, <1>17, <2>1, <2>2, Resulted
<1>19. ctx'["server"].url = u /\ ctx'["client"] = ctx["client"] /\ requests' = r
  <2>1. ctx \in [Ends -> Context]
    BY <1>4 DEF Here
  <2>2. ctx'["client"] = ctx["client"]
    BY <1>0, <1>1, <1>2, <2>1
  <2>3. ctx' = [ctx EXCEPT !["server"] = [ctx["server"] EXCEPT !.url = m.url, !.app = m.app]]
    BY <1>1, <1>2, <1>3, <2>1 DEF Context
  <2>4. ctx["server"] \in Context
    BY <1>0, <2>1
  <2>5. [ctx["server"] EXCEPT !.url = m.url, !.app = m.app].url = m.url
    BY <2>4 DEF Context
  <2>6. ctx'["server"] = [ctx["server"] EXCEPT !.url = m.url, !.app = m.app]
    BY <1>0, <2>1, <2>3
  <2>. QED BY <1>1, <1>2, <1>3, <1>17, <2>2, <2>5, <2>6
<1>20. Talking'
  BY <1>1, <1>12, <1>15, <1>17, <1>18, <1>19 DEF Talking
<1>. QED BY <1>11, <1>20

LEMMA CreateStreamSteps ==
  ASSUME DialogueInv, NEW e \in Ends, HandleCreateStream(e)
  PROVE  Telling' /\ Talking'
<1>0. ReadInv /\ "server" \in Ends /\ "client" \in Ends
  BY EndFacts, HereFacts DEF DialogueInv
<1>1. /\ Got(e, "createStream") /\ Complete(e, <<Msg("created", ResultId(e))>>)
      /\ requests' = Append(requests, Head(stream[e]).id)
      /\ UNCHANGED <<ackSize, inChunkSize, ctx, calls, closed, results>>
  BY DEF HandleCreateStream
<1>2. e = "server" /\ Peer(e) = "client"
  BY <1>0, <1>1, Sides DEF Asks
<1>3. PICK m, v : m = Head(stream["server"]) /\ v = Msg("created", m.id)
  OBVIOUS
<1>4. Readable("server") /\ m.is = "createStream" /\ m \in Letters /\ m.id \in Nat
  BY <1>0, <1>1, <1>2, <1>3, GotFacts, LetterFacts
<1>5. v \in Letters /\ v.is = "created" /\ v.id = m.id
  BY <1>3, <1>4, MsgFacts DEF Kinds2, ClientKinds, Verdicts
<1>6. PICK o : o = <<v>>
  OBVIOUS
<1>7. Complete("server", o)
  BY <1>1, <1>2, <1>3, <1>6 DEF ResultId
<1>8. Letter("client", v)
  BY <1>5 DEF Letter, ClientKinds, Verdicts
<1>9. Goes("client", o) /\ Leads(o, {"chunkSize"}, {"connect", "accepted"})
  BY <1>5, <1>6, <1>8, GoesOne, HasOne, LeadsNone
<1>10. Telling'
  <2>1. Head(stream["server"]).is = "createStream" /\ inChunkSize' = inChunkSize
    BY <1>1, <1>3, <1>4
  <2>. QED BY <1>0, <1>2, <1>4, <1>7, <1>9, <2>1, WholeTold
<1>12. PICK c \in Seq(Letters) :
         /\ stream'["server"] = Tail(stream["server"]) /\ stream["server"] # <<>> /\ asked # <<>>
         /\ kind' = kind /\ asked' = asked /\ said' = said
         /\ stream'["client"] = Cat(c, o)
         /\ Talk(kind, asked, said, closed["client"], stream["server"], c, calls["server"], requests, results,
                      ctx["server"].url, ctx["client"])
         /\ OwnServer(kind)
  BY <1>4, <1>7, <1>9, ServerReads
<1>17. PICK s, u, r, f : s = Tail(stream["server"]) /\ u = ctx["server"].url /\ r = Append(requests, m.id) /\ f = Cat(c, <<v>>)
  OBVIOUS
<1>18. Talk(kind, asked, said, closed["client"], s, f, calls["server"], r, results, u, ctx["client"])
  <2>1. kind \in Kinds /\ stream["server"] \in Seq(Letters) /\ requests \in Seq(Nat) /\ results \in Seq(Nat)
    BY <1>0, HereFacts
  <2>2. m.is \in {"connect", "createStream", "publish"} /\ (m.is = "publish" => ~OwnServer(kind))
        /\ v.is \in Results /\ v.id = m.id /\ (m.is = "connect" => v.is = "accepted")
        /\ u = (IF m.is = "connect" THEN m.url ELSE ctx["server"].url)
    BY <1>4, <1>5, <1>17 DEF Results
  <2>. QED BY <1>3, <1>5, <1>12, <1>17, <2>1, <2>2, Resulted
<1>20. Talking'
  BY <1>1, <1>2, <1>3, <1>6, <1>12, <1>17, <1>18 DEF Talking
<1>. QED BY <1>10, <1>20

(* The session a player or publisher ends up in *)
LEMMA SessionFacts ==
  ASSUME NEW c \in Context, Len(c.url.path) \in {1, 2}
  PROVE  ParseNameAndTcUrl(c).session = <<c.url.host, <<c.url.path[1]>>, c.name.name>>
<1>1. c.name \in Name
  BY DEF Context
<1>2. PICK app, v : app = <<c.url.path[1]>> /\ v = <<c.url.host, app, c.name.name>>
  OBVIOUS
<1>3. ParseNameAndTcUrl(c) = [c EXCEPT !.app = app, !.name.param = "", !.param = c.name.param, !.session = v]
  BY <1>2 DEF ParseNameAndTcUrl
<1>4. PICK nm : nm = [c.name EXCEPT !.param = ""]
  OBVIOUS
<1>5. ParseNameAndTcUrl(c) =
        [app |-> app, url |-> c.url, name |-> nm, param |-> c.name.param, session |-> v, player |-> c.player]
  BY <1>3, <1>4 DEF Context
<1>6. ParseNameAndTcUrl(c).session = v
  BY <1>5
<1>. QED BY <1>2, <1>6

JoinsFor(k, a, m, c) ==
  /\ a[1] = (IF m.is = "play" THEN "onPlay" ELSE "onPublish")
  /\ OwnClient(k) \/ Len(a[2].path) < 3 => <<a[1], ParseNameAndTcUrl(c).session>> = Wanted(k, a)

LEMMA WantedSession ==
  ASSUME NEW k \in Kinds, NEW a, a[1] \in {"onPlay", "onPublish"}, a[2] \in Urls, a[3] \in Streams, a # <<>>,
         NEW s \in Seq(Letters), s # <<>>, NEW url, NEW cc, NamesKept(k, a, s, url, cc), OwnServer(k),
         NEW m, m = Head(s), m.is \in Plays, NEW c \in Context, c.url = url, c.name = m.name
  PROVE  JoinsFor(k, a, m, c)
<1>1. 1 \in 1 .. Len(s) /\ m = s[1]
  BY TailFacts
<1>2. m.is = (IF a[1] = "onPlay" THEN "play" ELSE "publish") /\ m.name = WantedName(k, a)
  BY <1>1 DEF NamesKept
<1>3. url = WantedUrl(k, a)
  <2>1. ~Leads(s, {"connect"}, Plays)
    BY LeadsTail
  <2>. QED BY <2>1 DEF NamesKept
<1>4. ASSUME OwnClient(k) \/ Len(a[2].path) < 3
      PROVE  <<a[1], ParseNameAndTcUrl(c).session>> = Wanted(k, a)
  <2>1. PICK u : u = a[2]
    OBVIOUS
  <2>2. u \in Url /\ u.path \in Seq(Parts) /\ Len(u.path) \in Nat /\ Len(u.path) >= 1 /\ u.path[1] \in Parts
        /\ a[3].name \in Parts
    BY <2>1, ConstantTypes
  <2>3. CASE OwnClient(k)
    <3>1. PICK p : p = <<u.path[1], a[3].name>>
      OBVIOUS
    <3>2. Len(p) = 2 /\ p[1] = u.path[1]
      BY <3>1
    <3>3. c.url = [u EXCEPT !.path = p]
      BY <1>3, <2>1, <2>3, <3>1 DEF WantedUrl
    <3>4. c.url.path = p /\ c.url.host = u.host
      BY <2>2, <3>3 DEF Url
    <3>5. c.name.name = ""
      <4>1. c.name = NoStream
        BY <1>2, <2>3 DEF WantedName
      <4>2. NoStream.name = ""
        BY DEF NoStream
      <4>. QED BY <4>1, <4>2
    <3>6. ParseNameAndTcUrl(c).session = <<u.host, <<u.path[1]>>, "">>
      BY <3>2, <3>4, <3>5, SessionFacts
    <3>. QED BY <2>1, <2>3, <3>6 DEF Wanted
  <2>4. CASE ~OwnClient(k)
    <3>1. c.url = u /\ c.name = a[3]
      BY <1>2, <1>3, <2>1, <2>4 DEF WantedUrl, WantedName
    <3>2. Len(u.path) \in {1, 2}
      <4>1. PICK n : n = Len(u.path)
        OBVIOUS
      <4>2. n < 3
        BY <1>4, <2>1, <2>4, <4>1
      <4>3. n \in Nat /\ n >= 1
        BY <2>2, <4>1
      <4>4. n = 1 \/ n = 2
        BY <4>2, <4>3
      <4>. QED BY <4>1, <4>4
    <3>3. ParseNameAndTcUrl(c).session = <<u.host, <<u.path[1]>>, a[3].name>>
      BY <3>1, <3>2, SessionFacts
    <3>. QED BY <2>1, <2>4, <3>3 DEF Wanted
  <2>. QED BY <2>3, <2>4
<1>5. a[1] = (IF m.is = "play" THEN "onPlay" ELSE "onPublish")
  BY <1>2
<1>. QED BY <1>4, <1>5 DEF JoinsFor

LEMMA PlaySteps ==
  ASSUME DialogueInv, NEW e \in Ends, HandlePlay(e) \/ HandlePublish(e)
  PROVE  Telling' /\ Talking'
<1>0. ReadInv /\ "server" \in Ends /\ "client" \in Ends /\ DOMAIN ctx = Ends /\ DOMAIN calls = Ends
  BY EndFacts, HereFacts DEF DialogueInv
<1>1. PICK is, m, answers :
        /\ is \in Plays /\ m \in Letters /\ Got(e, is) /\ m = Head(stream[e]) /\ Complete(e, answers)
        /\ answers = IF is = "play" THEN <<UserCtrl(1), Msg("onStatus", 0)>> ELSE <<Msg("onStatus", 0)>>
        /\ ctx' = [ctx EXCEPT ![e] = ParseNameAndTcUrl([ctx[e] EXCEPT !.name = m.name, !.player = (is = "play")])]
        /\ calls' = [calls EXCEPT ![e] = Append(calls[e], <<IF is = "play" THEN "onPlay" ELSE "onPublish", ctx'[e].session>>)]
        /\ UNCHANGED <<ackSize, inChunkSize, closed, requests, results>>
  <2>1. CASE HandlePlay(e)
    <3>1. Got(e, "play")
      BY <2>1 DEF HandlePlay
    <3>2. Head(stream[e]) \in Letters /\ "play" \in Plays /\ ("play" = "play") = TRUE
      BY <1>0, <3>1, GotFacts DEF Plays
    <3>. QED BY <2>1, <3>2, Zenon DEF HandlePlay
  <2>2. CASE HandlePublish(e)
    <3>1. Got(e, "publish")
      BY <2>2 DEF HandlePublish
    <3>2. Head(stream[e]) \in Letters /\ "publish" \in Plays /\ ("publish" = "play") = FALSE
      BY <1>0, <3>1, GotFacts DEF Plays
    <3>. QED BY <2>2, <3>2, Zenon DEF HandlePublish
  <2>. QED BY <2>1, <2>2
<1>2. Here /\ Readable(e) /\ m.is = is /\ asked # <<>>
  BY <1>0, <1>1, GotFacts
<1>3. Peer(e) = "client" /\ e = "server"
  <2>1. is \in Asks
    BY <1>1 DEF Asks, Plays
  <2>. QED BY <1>0, <1>1, <2>1, Sides
<1>4. PICK c : c = [ctx[e] EXCEPT !.name = m.name, !.player = (is = "play")]
  OBVIOUS
<1>5. c \in Context /\ ctx \in [Ends -> Context] /\ c.url = ctx["server"].url /\ c.name = m.name
  <2>1. ctx \in [Ends -> Context] /\ ctx[e] \in Context /\ m.name \in Name
    BY <1>1, <1>2, LetterFacts DEF Here
  <2>. QED BY <1>3, <1>4, <2>1 DEF Context
<1>6. PICK d : d = ParseNameAndTcUrl(c)
  OBVIOUS
<1>7. d \in Context /\ d.url = c.url
  <2>1. d \in Context
    BY <1>5, <1>6, ParseFacts
  <2>2. d.url = c.url
    BY <1>5, <1>6 DEF ParseNameAndTcUrl, Context
  <2>. QED BY <2>1, <2>2
<1>8. /\ ctx'["server"] = d /\ ctx'["client"] = ctx["client"]
  <2>1. ctx' = [ctx EXCEPT !["server"] = d]
    BY <1>1, <1>3, <1>4, <1>6
  <2>. QED BY <1>0, <2>1
<1>9. PICK x : x = <<IF is = "play" THEN "onPlay" ELSE "onPublish", d.session>>
  OBVIOUS
<1>10. x \in Calls
  <2>1. d.session \in Sessions
    BY <1>7 DEF Context
  <2>. QED BY <1>9, <2>1 DEF Calls
<1>11. calls'["server"] = Append(calls["server"], x)
  BY <1>0, <1>1, <1>3, <1>8, <1>9
<1>12. Goes("client", answers) /\ ~Has(answers, Asks) /\ ~Has(answers, Verdicts)
       /\ Leads(answers, {"chunkSize"}, {"connect", "accepted"})
  <2>1. PICK a, b : a = UserCtrl(1) /\ b = Msg("onStatus", 0)
    OBVIOUS
  <2>2. a \in Letters /\ a.is = "streamBegin"
    BY <2>1, MsgFacts DEF Kinds2, ClientKinds, UserCtrl
  <2>3. b \in Letters /\ b.is = "onStatus"
    BY <2>1, MsgFacts DEF Kinds2, ClientKinds
  <2>4. Letter("client", a) /\ Letter("client", b)
    BY <2>2, <2>3 DEF Letter, ClientKinds
  <2>5. Goes("client", <<b>>) /\ Goes("client", <<a, b>>)
    BY <2>4, GoesOne DEF Goes, Letter
  <2>6. \A kinds : "streamBegin" \notin kinds /\ "onStatus" \notin kinds => ~Has(<<b>>, kinds) /\ ~Has(<<a, b>>, kinds)
    BY <2>2, <2>3, HasOne, TwoFacts
  <2>7. \A kinds : "streamBegin" \notin kinds /\ "onStatus" \notin kinds => ~Has(answers, kinds)
    BY <1>1, <2>1, <2>6
  <2>8. ~Has(answers, Asks) /\ ~Has(answers, Verdicts) /\ ~Has(answers, {"connect", "accepted"})
    BY <2>7 DEF Asks, Verdicts
  <2>. QED BY <1>1, <2>1, <2>5, <2>8, LeadsNone
<1>13. Telling'
  <2>1. Head(stream[e]).is # "chunkSize"
    BY <1>1, <1>2 DEF Plays
  <2>. QED BY <1>1, <1>2, <1>3, <1>12, <2>1, WholeTold
<1>14. PICK c1 \in Seq(Letters) :
         /\ stream'["server"] = Tail(stream["server"]) /\ stream["server"] # <<>>
         /\ kind' = kind /\ asked' = asked /\ said' = said
         /\ stream'["client"] = Cat(c1, answers)
         /\ Talk(kind, asked, said, closed["client"], stream["server"], c1, calls["server"], requests, results,
                      ctx["server"].url, ctx["client"])
         /\ OwnServer(kind)
  BY <1>1, <1>2, <1>3, <1>12, ServerReads
<1>15. PICK c2 : c2 = Cat(c1, answers)
  OBVIOUS
<1>16. c2 \in Seq(Letters) /\ QuietToClient(c1, c2) /\ QuietToServer(stream["server"], stream["server"])
  BY <1>12, <1>15, QuietMore, QuietSame, CatFacts DEF Goes
<1>17. Talk(kind, asked, said, closed["client"], stream["server"], c2, calls["server"], requests, results,
                      ctx["server"].url, ctx["client"])
  BY <1>2, <1>14, <1>16, QuietKeeps
<1>18. PICK s, f : s = Tail(stream["server"]) /\ f = Append(calls["server"], x)
  OBVIOUS
<1>19. kind \in Kinds /\ stream["server"] \in Seq(Letters) /\ requests \in Seq(Nat) /\ results \in Seq(Nat)
       /\ calls["server"] \in Seq(Calls)
  BY <1>0, HereFacts
<1>20. x[1] = asked[1] /\ asked[1] # "onRecv"
       /\ (OwnClient(kind) \/ Len(asked[2].path) < 3 => x = Wanted(kind, asked))
  <2>1. asked[1] \in {"onPlay", "onPublish"} /\ asked[2] \in Urls /\ asked[3] \in Streams
    BY <1>0, <1>2, AskedFacts
  <2>2. NamesKept(kind, asked, stream["server"], ctx["server"].url, ctx["client"])
    BY <1>17 DEF Talk
  <2>3. m = Head(stream["server"]) /\ m.is \in Plays
    BY <1>1, <1>2, <1>3
  <2>4. /\ asked[1] = (IF m.is = "play" THEN "onPlay" ELSE "onPublish")
        /\ OwnClient(kind) \/ Len(asked[2].path) < 3 => <<asked[1], ParseNameAndTcUrl(c).session>> = Wanted(kind, asked)
    <3>1. PICK z, u, cc : z = stream["server"] /\ u = ctx["server"].url /\ cc = ctx["client"]
      OBVIOUS
    <3>2. z \in Seq(Letters) /\ z # <<>> /\ NamesKept(kind, asked, z, u, cc) /\ m = Head(z) /\ c.url = u
      BY <1>5, <1>14, <1>19, <2>2, <2>3, <3>1
    <3>4. /\ kind \in Kinds /\ OwnServer(kind) /\ m.is \in Plays /\ c \in Context /\ c.name = m.name
          /\ asked[1] \in {"onPlay", "onPublish"} /\ asked[2] \in Urls /\ asked[3] \in Streams /\ asked # <<>>
      BY <1>2, <1>5, <1>14, <1>19, <2>1, <2>3
    <3>3. JoinsFor(kind, asked, m, c)
      BY ONLY <3>2, <3>4, WantedSession
    <3>. QED BY <3>3 DEF JoinsFor
  <2>5. x = <<asked[1], d.session>>
    BY <1>2, <1>9, <2>4
  <2>6. x[1] = asked[1]
    BY <2>5
  <2>. QED BY <1>6, <2>1, <2>4, <2>5, <2>6
<1>21. Talk(kind, asked, said, closed["client"], s, c2, f, requests, results, ctx["server"].url, ctx["client"])
  <2>1. m = Head(stream["server"]) /\ m.is \in Plays
    BY <1>1, <1>2, <1>3
  <2>. QED BY <1>2, <1>10, <1>14, <1>16, <1>17, <1>18, <1>19, <1>20, <2>1, Asked
<1>22. /\ stream'["server"] = s /\ stream'["client"] = c2 /\ calls'["server"] = f
       /\ ctx'["server"].url = ctx["server"].url
  BY <1>5, <1>7, <1>8, <1>11, <1>14, <1>15, <1>18
<1>23. Talking'
  BY <1>1, <1>8, <1>14, <1>21, <1>22 DEF Talking
<1>. QED BY <1>13, <1>23

(* What this code's client asks for once it has a stream *)
LEMMA RequestFacts ==
  ASSUME Here, ctx["client"].name = NoStream, ctx["client"].player \in BOOLEAN
  PROVE  /\ Letter("server", Request("client")) /\ Request("client") \in Letters
         /\ Request("client").is = (IF ctx["client"].player THEN "play" ELSE "publish")
         /\ Request("client").name = NoStream
<1>1. PICK p, q, b : p = Msg("play", 0) /\ q = Msg("publish", 5) /\ b = Request("client")
  OBVIOUS
<1>2. p \in Letters /\ p.is = "play" /\ q \in Letters /\ q.is = "publish"
  BY <1>1, MsgFacts DEF Kinds2, ServerKinds, Asks
<1>3. b = IF ctx["client"].player THEN [p EXCEPT !.name = NoStream] ELSE [q EXCEPT !.name = NoStream]
  BY <1>1 DEF Request
<1>4. NoStream \in Name
  BY ConstantTypes
<1>5. b \in Letters /\ b.is = (IF ctx["client"].player THEN "play" ELSE "publish") /\ b.name = NoStream
  BY SMTT(20), <1>2, <1>3, <1>4 DEF Letters, Message, IdOK
<1>. QED BY <1>1, <1>5 DEF Letter, ServerKinds, Asks

LEMMA ResultSteps ==
  ASSUME DialogueInv, NEW e \in Ends, HandleResult(e)
  PROVE  Telling' /\ Talking'
<1>0. ReadInv /\ "server" \in Ends /\ "client" \in Ends /\ DOMAIN calls = Ends
  BY EndFacts, HereFacts DEF DialogueInv
<1>1. PICK is, m, answers :
        /\ is \in Results /\ m \in Letters /\ Got(e, is) /\ m = Head(stream[e]) /\ Complete(e, answers)
        /\ answers = CASE m.id = 1 -> <<Msg("createStream", 4)>> [] m.id = 4 -> <<Request(e)>> [] OTHER -> <<>>
        /\ calls' = IF m.id = 5 THEN [calls EXCEPT ![e] = Append(calls[e], <<"onPublishPrepare">>)] ELSE calls
        /\ results' = Append(results, m.id)
        /\ UNCHANGED <<ackSize, inChunkSize, ctx, closed, requests>>
  <2>1. \E is \in Results : Got(e, is) /\ Head(stream[e]) \in Letters
    BY <1>0, GotFacts DEF HandleResult, Results
  <2>. QED BY <2>1 DEF HandleResult
<1>2. Here /\ Readable(e) /\ m.is = is /\ asked # <<>> /\ m.id \in Nat
  BY <1>0, <1>1, GotFacts, LetterFacts
<1>3. Peer(e) = "server" /\ e = "client"
  <2>1. is \in Verdicts
    BY <1>1 DEF Verdicts, Results
  <2>. QED BY <1>0, <1>1, <2>1, Sides
<1>4. calls'["server"] = calls["server"]
  BY <1>0, <1>1, <1>3
<1>5. OwnClient(kind) /\ kind \in Kinds
  BY <1>0, <1>2, <1>3, HereFacts DEF Readable
<1>6. ctx["client"].name = NoStream /\ ctx["client"].player = (asked[1] = "onPlay")
  BY <1>2, <1>5 DEF DialogueInv, Talking, Talk, NamesKept
<1>7. PICK a, b : a = Msg("createStream", 4) /\ b = Request("client")
  OBVIOUS
<1>8. a \in Letters /\ a.is = "createStream" /\ a.id = 4 /\ Letter("server", a)
  <2>1. a \in Letters /\ a.is = "createStream" /\ a.id = 4
    BY <1>7, MsgFacts DEF Kinds2, ServerKinds, Asks
  <2>. QED BY <2>1 DEF Letter, ServerKinds, Asks
<1>9. /\ b \in Letters /\ Letter("server", b) /\ b.name = NoStream
      /\ b.is = (IF asked[1] = "onPlay" THEN "play" ELSE "publish")
  <2>1. ctx["client"].player \in BOOLEAN
    BY <1>6
  <2>2. /\ Letter("server", b) /\ b \in Letters /\ b.name = NoStream
        /\ b.is = (IF ctx["client"].player THEN "play" ELSE "publish")
    BY <1>2, <1>6, <1>7, <2>1, RequestFacts
  <2>. QED BY <1>6, <2>2
<1>10. \/ m.id = 1 /\ answers = <<a>>
       \/ m.id = 4 /\ answers = <<b>>
       \/ m.id \notin {1, 4} /\ answers = <<>>
  BY <1>1, <1>3, <1>7
<1>11. Goes("server", answers) /\ Leads(answers, {"chunkSize"}, {"connect", "accepted"}) /\ answers \in Seq(Letters)
  <2>1. a.is \notin {"connect", "accepted"} /\ b.is \notin {"connect", "accepted"}
    BY <1>8, <1>9
  <2>2. Goes("server", answers) /\ ~Has(answers, {"connect", "accepted"})
    BY <1>8, <1>9, <1>10, <2>1, GoesOne, GoesNone, HasOne, HasNone
  <2>. QED BY <2>2, LeadsNone DEF Goes
<1>12. Telling'
  <2>1. Head(stream[e]).is # "chunkSize"
    BY <1>1, <1>2 DEF Results
  <2>. QED BY <1>1, <1>2, <1>3, <1>11, <2>1, WholeTold
<1>13. PICK s \in Seq(Letters) :
         /\ stream'["client"] = Tail(stream["client"]) /\ stream["client"] # <<>>
         /\ kind' = kind /\ asked' = asked /\ said' = said
         /\ stream'["server"] = Cat(s, answers)
         /\ Talk(kind, asked, said, closed["client"], s, stream["client"], calls["server"], requests, results,
                      ctx["server"].url, ctx["client"])
  BY <1>1, <1>2, <1>3, <1>11, ClientReads
<1>14. PICK s2, c2, r : s2 = Cat(s, answers) /\ c2 = Tail(stream["client"]) /\ r = Append(results, m.id)
  OBVIOUS
<1>15. \/ m.id = 1 /\ \E x \in Letters : answers = <<x>> /\ x.is = "createStream" /\ x.id = 4
       \/ m.id = 4 /\ \E x \in Letters : /\ answers = <<x>> /\ x.is = (IF asked[1] = "onPlay" THEN "play" ELSE "publish")
                                         /\ x.name = NoStream
       \/ m.id \notin {1, 4} /\ answers = <<>>
  BY <1>8, <1>9, <1>10
<1>16. stream["client"] \in Seq(Letters) /\ requests \in Seq(Nat) /\ results \in Seq(Nat)
  BY <1>0, HereFacts
<1>17. m = Head(stream["client"]) /\ m.is \in Results
  BY <1>1, <1>2, <1>3
<1>18. Talk(kind, asked, said, closed["client"], s2, c2, calls["server"], requests, r, ctx["server"].url, ctx["client"])
  BY <1>2, <1>5, <1>11, <1>13, <1>14, <1>15, <1>16, <1>17, ClientHears
<1>19. Talking'
  BY <1>1, <1>4, <1>13, <1>14, <1>18 DEF Talking
<1>. QED BY <1>12, <1>19

LEMMA ErrorSteps ==
  ASSUME DialogueInv, NEW e \in Ends, HandleError(e)
  PROVE  Telling' /\ Talking'
<1>0. ReadInv /\ "server" \in Ends /\ "client" \in Ends /\ DOMAIN closed = Ends
  BY EndFacts, HereFacts DEF DialogueInv
<1>1. /\ Got(e, "error") /\ Complete(e, <<>>)
      /\ closed' = [closed EXCEPT ![e] = TRUE]
      /\ UNCHANGED <<ackSize, inChunkSize, ctx, calls, requests, results>>
  BY DEF HandleError
<1>2. Peer(e) = "server" /\ e = "client" /\ Readable(e) /\ Head(stream[e]).is = "error" /\ asked # <<>>
  BY <1>0, <1>1, Sides, GotFacts DEF Verdicts
<1>3. Goes("server", <<>>) /\ Leads(<<>>, {"chunkSize"}, {"connect", "accepted"})
  BY GoesNone, HasNone, LeadsNone
<1>4. Telling'
  <2>1. inChunkSize' = IF Head(stream[e]).is = "chunkSize" THEN [inChunkSize EXCEPT ![e] = 4096] ELSE inChunkSize
    BY <1>1, <1>2
  <2>. QED BY <1>1, <1>2, <1>3, <2>1, WholeTold
<1>5. PICK s \in Seq(Letters) :
         /\ stream'["client"] = Tail(stream["client"]) /\ stream["client"] # <<>>
         /\ kind' = kind /\ asked' = asked /\ said' = said /\ OwnClient(kind)
         /\ stream'["server"] = Cat(s, <<>>)
         /\ Talk(kind, asked, said, closed["client"], s, stream["client"], calls["server"], requests, results,
                      ctx["server"].url, ctx["client"])
  BY <1>1, <1>2, <1>3, ClientReads
<1>6. stream'["server"] = s
  BY <1>5, CatEmpty
<1>7. PICK c2 : c2 = Tail(stream["client"])
  OBVIOUS
<1>8. Talk(kind, asked, said, TRUE, s, c2, calls["server"], requests, results, ctx["server"].url, ctx["client"])
  <2>1. kind \in Kinds /\ stream["client"] \in Seq(Letters) /\ requests \in Seq(Nat) /\ results \in Seq(Nat)
    BY <1>0, HereFacts
  <2>. QED BY <1>2, <1>5, <1>7, <2>1, ClientRefused
<1>9. closed'["client"] = TRUE
  BY <1>0, <1>1, <1>2
<1>10. Talking'
  BY <1>1, <1>5, <1>6, <1>7, <1>8, <1>9 DEF Talking
<1>. QED BY <1>4, <1>10

(* Another program says something that is of no consequence *)
LEMMA ChatsTalk ==
  ASSUME DialogueInv, NEW e \in Ends, NEW m, Chats(e, m),
         UNCHANGED <<kind, ctx, calls, closed, requests, results>>
  PROVE  Talking'
<1>1. stream["server"] \in Seq(Letters) /\ stream["client"] \in Seq(Letters) /\ DOMAIN stream = Ends
      /\ said \in Seq({"request", "ping", "unknown", "bytesRead", "media", "ackSize", "bandwidth"})
      /\ "server" \in Ends /\ "client" \in Ends /\ Ends = {"client", "server"}
  BY EndFacts, HereFacts DEF DialogueInv
<1>2. PICK o, d : o = <<m>> /\ d = Append(said, m.is)
  OBVIOUS
<1>3. /\ Letter(e, m) /\ m.is \in {"ping", "unknown", "bytesRead", "media", "ackSize", "bandwidth"}
      /\ stream' = [stream EXCEPT ![e] = Cat(@, o)]
      /\ said' = d /\ asked' = asked /\ asked # <<>>
  BY <1>2 DEF Chats
<1>4. o \in Seq(Letters) /\ ~Has(o, Asks) /\ ~Has(o, Verdicts)
  <2>1. m \in Letters /\ m.is \notin Asks /\ m.is \notin Verdicts
    BY <1>3 DEF Letter, Asks, Verdicts
  <2>. QED BY <1>2, <2>1, HasOne
<1>5. PICK s, c : s = stream'["server"] /\ c = stream'["client"]
  OBVIOUS
<1>6. QuietToServer(stream["server"], s) /\ QuietToClient(stream["client"], c)
  <2>1. \A x \in Ends : stream'[x] = stream[x] \/ stream'[x] = Cat(stream[x], o)
    BY <1>1, <1>3
  <2>2. s = stream["server"] \/ s = Cat(stream["server"], o)
    BY <1>1, <1>5, <2>1
  <2>3. c = stream["client"] \/ c = Cat(stream["client"], o)
    BY <1>1, <1>5, <2>1
  <2>. QED BY <1>1, <1>4, <2>2, <2>3, QuietSame, QuietMore
<1>7. Talk(kind, asked, said, closed["client"], s, c, calls["server"], requests, results, ctx["server"].url, ctx["client"])
  BY <1>3, <1>6, QuietKeeps DEF DialogueInv, Talking
<1>8. Requested(d) <=> Requested(said)
  <2>1. m.is # "request" /\ m.is \in {"request", "ping", "unknown", "bytesRead", "media", "ackSize", "bandwidth"}
    BY <1>3
  <2>. QED BY <1>1, <1>2, <2>1, SaidFacts
<1>9. Talk(kind, asked, d, closed["client"], s, c, calls["server"], requests, results, ctx["server"].url, ctx["client"])
  BY <1>3, <1>7, <1>8, Chatted
<1>. QED BY <1>3, <1>5, <1>9 DEF Talking

LEMMA SendConnectSteps ==
  ASSUME DialogueInv, SendConnect
  PROVE  Telling' /\ Talking'
<1>0. ReadInv /\ "server" \in Ends /\ "client" \in Ends /\ Ends = {"client", "server"}
      /\ DOMAIN ctx = Ends /\ DOMAIN stream = Ends
  BY EndFacts, HereFacts DEF DialogueInv
<1>1. PICK url \in Urls, s \in Streams, player \in BOOLEAN :
        LET c == ParseNameAndTcUrl(NewContext(player, [url EXCEPT !.path = <<@[1], s.name>>])) IN
         /\ ctx' = [ctx EXCEPT !["client"] = c]
         /\ stream' = [stream EXCEPT !["server"] = @ \o <<Msg("chunkSize", 4096), ConnectMsg(c)>>]
         /\ asked' = <<IF player THEN "onPlay" ELSE "onPublish", url, s>>
  BY DEF SendConnect
<1>2. PICK c : c = Clients(url, s, player)
  OBVIOUS
<1>3. PICK m, n : m = Msg("chunkSize", 4096) /\ n = ConnectMsg(c)
  OBVIOUS
<1>4. PICK b, t : b = <<IF player THEN "onPlay" ELSE "onPublish", url, s>> /\ t = <<m, n>>
  OBVIOUS
<1>5. /\ ctx' = [ctx EXCEPT !["client"] = c]
      /\ stream' = [stream EXCEPT !["server"] = Cat(@, t)]
      /\ asked' = b
  BY <1>1, <1>2, <1>3, <1>4 DEF Clients, Cat
<1>6. /\ UNCHANGED <<kind, said, inChunkSize, calls, closed, requests, results>>
      /\ asked = <<>> /\ Own("client")
  BY DEF SendConnect
<1>7. stream["server"] = <<>> /\ OwnClient(kind) /\ kind \in Kinds
  BY <1>0, <1>6, StreamTypes, HereFacts DEF Types, Dialogue
<1>8. /\ c \in Context /\ c.name = NoStream /\ c.player = player
      /\ c.url = [url EXCEPT !.path = <<url.path[1], s.name>>]
  <2>1. PICK u, app, v : /\ u = [url EXCEPT !.path = <<url.path[1], s.name>>]
                         /\ app = <<url.path[1]>> /\ v = <<url.host, <<url.path[1]>>, "">>
    OBVIOUS
  <2>2. /\ c \in Context
        /\ c = [app |-> app, url |-> u, name |-> NoStream, param |-> "", session |-> v, player |-> player]
    BY <1>2, <2>1, ClientFacts
  <2>3. c.name = NoStream /\ c.player = player /\ c.url = u
    BY <2>2
  <2>. QED BY <2>1, <2>2, <2>3
<1>9. m.is = "chunkSize" /\ m \in Letters
  BY <1>3, MsgFacts DEF Kinds2, ServerKinds
<1>10. n.is = "connect" /\ n \in Letters /\ n.url = c.url
  <2>1. c.app \in Seq(Parts) /\ c.url \in Url
    BY <1>8 DEF Context
  <2>. QED BY <1>3, <2>1, ConnectMsgFacts DEF ConnectMsg
<1>11. b # <<>> /\ b[2] = url /\ b[3] = s /\ c.player = (b[1] = "onPlay")
  BY <1>4, <1>8
<1>12. n.url = WantedUrl(kind, b)
  BY <1>7, <1>8, <1>10, <1>11 DEF WantedUrl
<1>13. stream'["server"] = t /\ stream'["client"] = stream["client"]
       /\ ctx'["client"] = c /\ ctx'["server"] = ctx["server"]
  <2>1. t \in Seq(Letters)
    BY <1>4, <1>9, <1>10
  <2>2. Cat(stream["server"], t) = t
    BY <1>7, <2>1, CatEmpty
  <2>. QED BY <1>0, <1>5, <2>2
<1>14. Talk(kind, b, said, closed["client"], t, stream["client"], calls["server"], requests, results,
            ctx["server"].url, c)
  BY <1>4, <1>6, <1>7, <1>8, <1>9, <1>10, <1>11, <1>12, Begun DEF DialogueInv, Talking
<1>15. Talking'
  BY <1>5, <1>6, <1>13, <1>14 DEF Talking
<1>16. Told("server")'
  <2>1. m.is \notin {"connect", "accepted"} /\ m.is \in {"chunkSize"}
    BY <1>9
  <2>2. Leads(t, {"chunkSize"}, {"connect", "accepted"})
    BY <1>4, <2>1, TwoFacts
  <2>. QED BY <1>13, <2>2 DEF Told, Announced
<1>17. Told("client")'
  BY <1>0, <1>6, <1>13 DEF DialogueInv, Telling, Told
<1>. QED BY <1>0, <1>15, <1>16, <1>17 DEF Telling

LEMMA OtherClientSteps ==
  ASSUME DialogueInv, OtherClient
  PROVE  Telling' /\ Talking'
<1>0. ReadInv /\ "server" \in Ends /\ "client" \in Ends /\ Ends = {"client", "server"} /\ DOMAIN stream = Ends
      /\ stream["server"] \in Seq(Letters) /\ stream["client"] \in Seq(Letters) /\ kind \in Kinds
      /\ requests \in Seq(Nat) /\ results \in Seq(Nat)
  BY EndFacts, HereFacts DEF DialogueInv
<1>1. /\ Elsewhere /\ Rests /\ ~Own("client") /\ ~OwnClient(kind)
      /\ Opens \/ AsksOnce \/ \E m : Chats("server", m)
  BY <1>0, OtherClientCases, HereFacts
<1>2. kind' = kind /\ UNCHANGED <<inChunkSize, ctx, calls, closed, requests, results>>
  BY <1>1 DEF Elsewhere, Rests
<1>3. stream'["client"] = stream["client"]
  BY <1>0, <1>1 DEF Opens, AsksOnce, Chats
<1>4. Telling'
  <2>1. Told("client")'
    BY <1>0, <1>2, <1>3 DEF DialogueInv, Telling, Told
  <2>2. Told("server")'
    BY <1>1, <1>2 DEF Told, Announced, Own
  <2>. QED BY <1>0, <2>1, <2>2 DEF Telling
<1>5. CASE Opens
  <2>1. PICK url \in Urls, s \in Streams, call \in {"onPlay", "onPublish"} :
          /\ asked' = <<call, url, s>>
          /\ stream' = [stream EXCEPT !["server"] = <<FirstOf(url), Msg("createStream", 2)>>]
    BY <1>5 DEF Opens
  <2>2. PICK b, m, n : b = <<call, url, s>> /\ m = FirstOf(url) /\ n = Msg("createStream", 2)
    OBVIOUS
  <2>3. PICK t : t = <<m, n>>
    OBVIOUS
  <2>4. asked = <<>> /\ said' = said /\ asked' = b /\ stream'["server"] = t
    BY <1>0, <1>5, <2>1, <2>2, <2>3 DEF Opens
  <2>5. m.is = "connect" /\ n.is = "createStream" /\ m.url = url
    <3>1. url \in Url /\ url.path \in Seq(Parts)
      BY ConstantTypes
    <3>2. m = [is |-> "connect", id |-> 1, app |-> url.path, url |-> url, name |-> NoStream]
      BY <2>2, <3>1, ConnectMsgFacts DEF FirstOf
    <3>3. m.is = "connect" /\ m.url = url
      BY <3>2
    <3>4. n.is = "createStream"
      BY <2>2, MsgFacts
    <3>. QED BY <3>3, <3>4
  <2>6. b # <<>> /\ m.url = WantedUrl(kind, b)
    BY <1>1, <2>2, <2>5 DEF WantedUrl
  <2>7. Talk(kind, b, said, closed["client"], t, stream["client"], calls["server"], requests, results,
             ctx["server"].url, ctx["client"])
    BY <1>0, <1>1, <2>3, <2>4, <2>5, <2>6, Begun DEF DialogueInv, Talking
  <2>8. Talking'
    BY <1>2, <1>3, <2>4, <2>7 DEF Talking
  <2>. QED BY <1>4, <2>8
<1>6. CASE AsksOnce
  <2>1. PICK m, d : m = AsksFor(asked) /\ d = Append(said, "request")
    OBVIOUS
  <2>2. /\ asked # <<>> /\ ~Requested(said) /\ asked' = asked /\ said' = d
        /\ stream' = [stream EXCEPT !["server"] = Append(@, m)]
    BY <1>6, <2>1 DEF AsksOnce, Requested
  <2>3. m \in Letters /\ m.is = (IF asked[1] = "onPlay" THEN "play" ELSE "publish") /\ m.name = asked[3]
    BY <1>0, <2>1, <2>2, AskedFacts
  <2>4. Requested(d)
    <3>1. said \in Seq({"request", "ping", "unknown", "bytesRead", "media", "ackSize", "bandwidth"})
      BY <1>0, HereFacts
    <3>. QED BY <2>1, <3>1, SaidFacts
  <2>5. PICK t : t = Cat(stream["server"], <<m>>)
    OBVIOUS
  <2>6. stream'["server"] = t
    BY <1>0, <2>2, <2>3, <2>5, AppendCat
  <2>7. Talk(kind, asked, d, closed["client"], t, stream["client"], calls["server"], requests, results,
             ctx["server"].url, ctx["client"])
    BY <1>0, <1>1, <2>2, <2>3, <2>4, <2>5, Requests DEF DialogueInv, Talking
  <2>8. Talking'
    BY <1>2, <1>3, <2>2, <2>6, <2>7 DEF Talking
  <2>. QED BY <1>4, <2>8
<1>7. ASSUME NEW m, Chats("server", m) PROVE Talking'
  BY <1>0, <1>2, <1>7, EndFacts, ChatsTalk
<1>. QED BY <1>1, <1>4, <1>5, <1>6, <1>7

(* The URL a context keeps matters to this code's server only *)
LEMMA UrlFree ==
  ASSUME NEW k, NEW a, NEW d, NEW cl, NEW s, NEW c, NEW cs, NEW rqs, NEW rs, NEW url, NEW cc,
         Talk(k, a, d, cl, s, c, cs, rqs, rs, url, cc), ~OwnServer(k), NEW url2
  PROVE  Talk(k, a, d, cl, s, c, cs, rqs, rs, url2, cc)
<1>1. NamesKept(k, a, s, url2, cc)
  BY DEF Talk, NamesKept
<1>. QED BY <1>1 DEF Talk

LEMMA TwoCat ==
  ASSUME NEW T, NEW m \in T, NEW n \in T
  PROVE  <<m, n>> = Cat(<<m>>, <<n>>)
<1>1. PICK s, t, u : s = <<m>> /\ t = <<n>> /\ u = Cat(s, t)
  OBVIOUS
<1>2. s \in Seq(T) /\ t \in Seq(T) /\ Len(s) = 1 /\ Len(t) = 1 /\ s[1] = m /\ t[1] = n
  BY <1>1
<1>3. u \in Seq(T) /\ Len(u) = 2 /\ u[1] = m /\ u[2] = n
  <2>0. u = Cat(s, t) /\ s \in Seq(T) /\ t \in Seq(T)
    BY <1>1, <1>2
  <2>1. /\ u \in Seq(T) /\ Len(u) = Len(s) + Len(t)
        /\ \A i \in 1 .. Len(s) : u[i] = s[i]
        /\ \A i \in 1 .. Len(t) : u[Len(s) + i] = t[i]
    BY ONLY <2>0, ConcatProperties, LenProperties DEF Cat
  <2>2. Len(u) = 2 /\ u[1] = s[1] /\ u[2] = t[1]
    BY <1>2, <2>1
  <2>. QED BY <1>2, <2>1, <2>2
<1>4. u = <<u[1], u[2]>>
  BY <1>3
<1>. QED BY <1>1, <1>3, <1>4

(* What another server answers, one message after the other *)
LEMMA Replied ==
  ASSUME DialogueInv, ~OwnServer(kind), stream["server"] # <<>>, asked # <<>>,
         NEW m \in Letters, m = Head(stream["server"]), NEW answer \in Answers(m), answer \in Seq(Letters),
         NEW r, r = IF m.is \in {"connect", "createStream", "publish"} THEN Append(requests, m.id) ELSE requests,
         NEW t, t = Tail(stream["server"]), NEW f, f = Cat(stream["client"], answer)
  PROVE  Talk(kind, asked, said, closed["client"], t, f, calls["server"], r, results, ctx["server"].url, ctx["client"])
<1>0. /\ stream["server"] \in Seq(Letters) /\ stream["client"] \in Seq(Letters) /\ kind \in Kinds
      /\ requests \in Seq(Nat) /\ results \in Seq(Nat)
  BY HereFacts DEF DialogueInv
<1>1. PICK s, c, cl, cs, url, cc : /\ s = stream["server"] /\ c = stream["client"] /\ cl = closed["client"]
                                   /\ cs = calls["server"] /\ url = ctx["server"].url /\ cc = ctx["client"]
  OBVIOUS
<1>2. Talk(kind, asked, said, cl, s, c, cs, requests, results, url, cc)
  BY <1>1 DEF DialogueInv, Talking
<1>3. PICK chunk, accepted, denied, created, status, media :
        /\ chunk = Msg("chunkSize", 4096) /\ accepted = Msg("accepted", 1) /\ denied = Msg("error", m.id)
        /\ created = Msg("created", m.id) /\ status = Msg("onStatus", 0) /\ media = Msg("media", 0)
  OBVIOUS
<1>4. m.id \in Nat /\ (m.is = "connect" => m.id = 1)
  BY LetterFacts DEF IdOK
<1>5. \/ m.is = "connect" /\ answer = <<chunk, accepted>>
      \/ m.is \in {"connect", "createStream"} /\ answer = <<denied>>
      \/ m.is = "createStream" /\ answer = <<created>>
      \/ m.is = "play" /\ answer = <<status, media>>
      \/ m.is = "publish" /\ answer = <<status>>
      \/ m.is = "publish" /\ answer = <<status, created>>
      \/ m.is \notin Asks /\ answer = <<>>
  BY <1>3, <1>4, AnswersFacts
<1>6. /\ chunk \in Letters /\ accepted \in Letters /\ denied \in Letters /\ created \in Letters
      /\ status \in Letters /\ media \in Letters
      /\ chunk.is = "chunkSize" /\ accepted.is = "accepted" /\ accepted.id = 1 /\ denied.is = "error"
      /\ created.is = "created" /\ created.id = m.id /\ status.is = "onStatus" /\ media.is = "media"
  <2>1. Letter("client", chunk) /\ Letter("client", accepted)
    BY <1>3, AnswersFacts
  <2>2. /\ Letter("client", denied) /\ Letter("client", created) /\ Letter("client", status) /\ Letter("client", media)
        /\ denied.is = "error" /\ created.is = "created" /\ created.id = m.id /\ status.is = "onStatus"
        /\ media.is = "media"
    BY <1>3, <1>4, AnswersFacts
  <2>3. chunk.is = "chunkSize" /\ accepted.is = "accepted" /\ accepted.id = 1
    BY <1>3, MsgFacts
  <2>. QED BY <2>1, <2>2, <2>3 DEF Letter
<1>7. CASE m.is \notin Asks /\ answer = <<>>
  <2>1. f = c /\ r = requests
    BY <1>0, <1>1, <1>7, CatEmpty DEF Asks
  <2>2. QuietToServer(s, t) /\ QuietToClient(c, c)
    BY <1>0, <1>1, <1>7, QuietTail, QuietSame
  <2>. QED BY <1>1, <1>2, <2>1, <2>2, QuietKeeps
<1>8. ASSUME NEW q \in Seq(Letters), NEW v \in Letters, ~Has(q, Verdicts), f = Cat(Cat(c, q), <<v>>),
             m.is \in {"connect", "createStream", "publish"}, v.is \in Results, v.id = m.id,
             m.is = "connect" => v.is = "accepted"
      PROVE  Talk(kind, asked, said, cl, t, f, cs, r, results, url, cc)
  <2>1. PICK c2, u, w : c2 = Cat(c, q) /\ u = (IF m.is = "connect" THEN m.url ELSE url) /\ w = Append(requests, m.id)
    OBVIOUS
  <2>2. c2 \in Seq(Letters) /\ QuietToClient(c, c2) /\ QuietToServer(s, s)
    BY <1>0, <1>1, <1>8, <2>1, QuietMore, QuietSame, CatFacts
  <2>3. Talk(kind, asked, said, cl, s, c2, cs, requests, results, url, cc)
    BY <1>2, <2>2, QuietKeeps
  <2>4. r = w /\ f = Cat(c2, <<v>>) /\ t = Tail(s) /\ m = Head(s) /\ s \in Seq(Letters) /\ s # <<>>
        /\ (m.is = "publish" => ~OwnServer(kind))
    BY <1>0, <1>1, <1>8, <2>1
  <2>5. Talk(kind, asked, said, cl, Tail(s), Cat(c2, <<v>>), cs, Append(requests, m.id), results, u, cc)
    BY <1>0, <1>8, <2>1, <2>2, <2>3, <2>4, Resulted
  <2>6. Talk(kind, asked, said, cl, t, f, cs, r, results, u, cc)
    BY <2>1, <2>4, <2>5
  <2>. QED BY <2>6, UrlFree
<1>9. CASE m.is = "connect" /\ answer = <<chunk, accepted>>
  <2>1. PICK q, o : q = <<chunk>> /\ o = <<accepted>>
    OBVIOUS
  <2>2. q \in Seq(Letters) /\ o \in Seq(Letters) /\ answer = Cat(q, o)
    BY <1>6, <1>9, <2>1, OneFacts, TwoCat
  <2>3. f = Cat(Cat(c, q), o)
    BY <1>0, <1>1, <2>2, CatAssoc
  <2>4. ~Has(q, Verdicts)
    BY <1>6, <2>1, HasOne DEF Verdicts
  <2>5. accepted.is \in Results /\ accepted.id = m.id
    BY <1>4, <1>6, <1>9 DEF Results
  <2>. QED BY <1>1, <1>6, <1>8, <1>9, <2>1, <2>2, <2>3, <2>4, <2>5
<1>10. CASE m.is = "publish" /\ answer = <<status, created>>
  <2>1. PICK q, o : q = <<status>> /\ o = <<created>>
    OBVIOUS
  <2>2. q \in Seq(Letters) /\ o \in Seq(Letters) /\ answer = Cat(q, o)
    BY <1>6, <1>10, <2>1, OneFacts, TwoCat
  <2>3. f = Cat(Cat(c, q), o)
    BY <1>0, <1>1, <2>2, CatAssoc
  <2>4. ~Has(q, Verdicts)
    BY <1>6, <2>1, HasOne DEF Verdicts
  <2>5. created.is \in Results /\ created.id = m.id
    BY <1>6 DEF Results
  <2>. QED BY <1>1, <1>6, <1>8, <1>10, <2>1, <2>2, <2>3, <2>4, <2>5
<1>11. CASE m.is = "createStream" /\ answer = <<created>>
  <2>1. PICK q, o : q = <<>> /\ o = <<created>>
    OBVIOUS
  <2>2. q \in Seq(Letters) /\ ~Has(q, Verdicts) /\ Cat(c, q) = c
    BY <1>0, <1>1, <2>1, EmptySeq, HasNone, CatEmpty
  <2>3. f = Cat(Cat(c, q), o)
    BY <1>1, <1>11, <2>1, <2>2
  <2>5. created.is \in Results /\ created.id = m.id
    BY <1>6 DEF Results
  <2>. QED BY <1>1, <1>6, <1>8, <1>11, <2>1, <2>2, <2>3, <2>5
<1>12. CASE \/ m.is \in {"connect", "createStream"} /\ answer = <<denied>>
            \/ m.is = "play" /\ answer = <<status, media>>
            \/ m.is = "publish" /\ answer = <<status>>
  <2>1. m.is \in Asks /\ (r = requests \/ r = Append(requests, m.id))
    BY <1>12 DEF Asks
  <2>2. ~Has(answer, Results) /\ Once(answer, Verdicts)
    <3>1. /\ denied.is \notin Results /\ status.is \notin Results /\ media.is \notin Results
          /\ status.is \notin Verdicts
      BY <1>6 DEF Results, Verdicts
    <3>. QED BY <1>12, <3>1, HasOne, TwoFacts
  <2>3. m.is \notin Plays => Has(answer, Verdicts)
    <3>1. denied.is \in Verdicts /\ (m.is \in {"play", "publish"} => m.is \in Plays)
      BY <1>6 DEF Plays, Verdicts
    <3>. QED BY <1>12, <3>1, HasOne
  <2>4. t = Tail(s) /\ m = Head(s) /\ s \in Seq(Letters) /\ s # <<>> /\ c \in Seq(Letters) /\ f = Cat(c, answer)
    BY <1>0, <1>1
  <2>5. Talk(kind, asked, said, cl, Tail(s), Cat(c, answer), cs, r, results, url, cc)
    BY <1>0, <1>2, <2>1, <2>2, <2>3, <2>4, NotResulted
  <2>. QED BY <1>1, <2>4, <2>5
<1>. QED BY <1>5, <1>7, <1>9, <1>10, <1>11, <1>12

LEMMA OtherServerSteps ==
  ASSUME DialogueInv, OtherServer
  PROVE  Telling' /\ Talking'
<1>0. ReadInv /\ "server" \in Ends /\ "client" \in Ends /\ Ends = {"client", "server"} /\ DOMAIN stream = Ends
      /\ stream["server"] \in Seq(Letters) /\ stream["client"] \in Seq(Letters) /\ kind \in Kinds
      /\ requests \in Seq(Nat) /\ results \in Seq(Nat) /\ DOMAIN inChunkSize = Ends
  BY EndFacts, HereFacts DEF DialogueInv
<1>1. /\ Elsewhere /\ ~Own("server") /\ ~OwnServer(kind) /\ UNCHANGED <<ackSize, ctx, calls, closed, results>>
      /\ \/ \E m, answer : Replies(m, answer)
         \/ UNCHANGED <<requests, inChunkSize>> /\ \E m : Chats("client", m)
  BY <1>0, OtherServerCases, HereFacts
<1>2. kind' = kind /\ UNCHANGED <<ctx, calls, closed, results>>
  BY <1>1 DEF Elsewhere
<1>3. Told("client")'
  BY <1>1, <1>2 DEF Told, Announced, Own
<1>4. ASSUME NEW m, NEW answer, Replies(m, answer)
      PROVE  Telling' /\ Talking'
  <2>1. /\ m \in Letters /\ Goes("client", answer)
        /\ stream'["server"] = Tail(stream["server"]) /\ stream'["client"] = Cat(stream["client"], answer)
    BY <1>0, <1>4, RepliesTypes
  <2>2. /\ stream["server"] # <<>> /\ m = Head(stream["server"]) /\ answer \in Answers(m)
        /\ requests' = IF m.is \in {"connect", "createStream", "publish"} THEN Append(requests, m.id) ELSE requests
        /\ inChunkSize' = IF m.is = "chunkSize" THEN [inChunkSize EXCEPT !["server"] = m.id] ELSE inChunkSize
        /\ said' = said /\ asked' = asked
    BY <1>4, Zenon DEF Replies
  <2>3. asked # <<>> /\ answer \in Seq(Letters)
    BY <1>0, <2>1, <2>2, StreamTypes DEF Goes
  <2>4. Told("server")'
    <3>1. PICK own : own = kind[1]
      OBVIOUS
    <3>2. Announced(own, inChunkSize["server"], stream["server"])
      BY <1>0, <3>1 DEF DialogueInv, Telling, Told
    <3>3. CASE m.is = "chunkSize"
      <4>1. m.id = 4096
        BY <2>1, <3>3, LetterFacts DEF IdOK
      <4>2. PICK n : n = m.id
        OBVIOUS
      <4>3. inChunkSize' = [inChunkSize EXCEPT !["server"] = n]
        BY <2>2, <3>3, <4>2
      <4>4. inChunkSize'["server"] = n
        BY <1>0, <4>3
      <4>. QED BY <4>1, <4>2, <4>4 DEF Told, Announced
    <3>4. CASE m.is # "chunkSize"
      <4>1. inChunkSize' = inChunkSize
        BY <2>2, <3>4
      <4>2. Announced(own, inChunkSize["server"], Tail(stream["server"]))
        BY <1>0, <2>2, <3>2, <3>4, AnnouncedTail
      <4>. QED BY <1>2, <2>1, <3>1, <4>1, <4>2 DEF Told
    <3>. QED BY <3>3, <3>4
  <2>5. PICK s, c, r : s = Tail(stream["server"]) /\ c = Cat(stream["client"], answer) /\ r = requests'
    OBVIOUS
  <2>6. Talk(kind, asked, said, closed["client"], s, c, calls["server"], r, results, ctx["server"].url, ctx["client"])
    BY <1>0, <1>1, <2>1, <2>2, <2>3, <2>5, Replied
  <2>7. Talking'
    BY <1>2, <2>1, <2>2, <2>5, <2>6 DEF Talking
  <2>. QED BY <1>0, <1>3, <2>4, <2>7 DEF Telling
<1>5. ASSUME UNCHANGED <<requests, inChunkSize>>, NEW m, Chats("client", m)
      PROVE  Telling' /\ Talking'
  <2>1. Talking'
    BY <1>0, <1>2, <1>5, ChatsTalk
  <2>2. stream'["server"] = stream["server"]
    BY <1>0, <1>5 DEF Chats
  <2>3. Told("server")'
    BY <1>0, <1>2, <1>5, <2>2 DEF DialogueInv, Telling, Told
  <2>. QED BY <1>0, <1>3, <2>1, <2>3 DEF Telling
<1>. QED BY <1>1, <1>4, <1>5

LEMMA OtherReadsSteps ==
  ASSUME DialogueInv, OtherReads
  PROVE  Telling' /\ Talking'
<1>0. ReadInv /\ "server" \in Ends /\ "client" \in Ends /\ Ends = {"client", "server"} /\ DOMAIN stream = Ends
      /\ stream["server"] \in Seq(Letters) /\ stream["client"] \in Seq(Letters) /\ kind \in Kinds
      /\ requests \in Seq(Nat) /\ results \in Seq(Nat) /\ DOMAIN inChunkSize = Ends
  BY EndFacts, HereFacts DEF DialogueInv
<1>1. PICK m : m = Head(stream["client"])
  OBVIOUS
<1>2. /\ ~Own("client") /\ stream["client"] # <<>>
      /\ results' = IF m.is \in {"accepted", "created"} THEN Append(results, m.id) ELSE results
      /\ inChunkSize' = IF m.is = "chunkSize" THEN [inChunkSize EXCEPT !["client"] = m.id] ELSE inChunkSize
      /\ stream' = [stream EXCEPT !["client"] = Tail(@)]
      /\ UNCHANGED <<kind, asked, said, ctx, calls, closed, requests>>
  BY <1>1 DEF OtherReads, history
<1>3. stream'["client"] = Tail(stream["client"]) /\ stream'["server"] = stream["server"]
  BY <1>0, <1>2
<1>4. asked # <<>> /\ m \in Letters /\ ~OwnClient(kind) /\ OwnServer(kind)
  <2>1. asked # <<>> /\ m \in Letters
    BY <1>0, <1>1, <1>2, StreamTypes, TailFacts
  <2>2. ~OwnClient(kind) /\ Own("server")
    BY <1>0, <1>2, OwnFacts, HereFacts
  <2>. QED BY <1>0, <2>1, <2>2, HereFacts
<1>5. Told("client")'
  <2>1. PICK own : own = kind[2]
    OBVIOUS
  <2>2. Announced(own, inChunkSize["client"], stream["client"])
    BY <1>0, <2>1 DEF DialogueInv, Telling, Told
  <2>3. CASE m.is = "chunkSize"
    <3>1. m.id = 4096
      BY <1>4, <2>3, LetterFacts DEF IdOK
    <3>2. PICK n : n = m.id
      OBVIOUS
    <3>3. inChunkSize' = [inChunkSize EXCEPT !["client"] = n]
      BY <1>2, <2>3, <3>2
    <3>4. inChunkSize'["client"] = n
      BY <1>0, <3>3
    <3>. QED BY <3>1, <3>2, <3>4 DEF Told, Announced
  <2>4. CASE m.is # "chunkSize"
    <3>1. inChunkSize' = inChunkSize
      BY <1>2, <2>4
    <3>2. Announced(own, inChunkSize["client"], Tail(stream["client"]))
      BY <1>0, <1>1, <1>2, <2>2, <2>4, AnnouncedTail
    <3>. QED BY <1>2, <1>3, <2>1, <3>1, <3>2 DEF Told
  <2>. QED BY <2>3, <2>4
<1>6. Told("server")'
  BY <1>2, <1>4 DEF Told, Announced, OwnClient
<1>7. PICK s, c, r, f : s = stream["server"] /\ c = Tail(stream["client"]) /\ r = results' /\ f = stream["client"]
  OBVIOUS
<1>8. Talk(kind, asked, said, closed["client"], s, f, calls["server"], requests, results, ctx["server"].url, ctx["client"])
  BY <1>7 DEF DialogueInv, Talking
<1>9. Talk(kind, asked, said, closed["client"], s, c, calls["server"], requests, r, ctx["server"].url, ctx["client"])
  <2>1. CASE m.is \in Results
    <3>1. r = Append(results, m.id)
      BY <1>2, <1>7, <2>1 DEF Results
    <3>2. s \in Seq(Letters) /\ f \in Seq(Letters) /\ f # <<>> /\ m = Head(f) /\ c = Tail(f)
      BY <1>0, <1>1, <1>2, <1>7
    <3>3. Talk(kind, asked, said, closed["client"], s, Tail(f), calls["server"], requests, Append(results, m.id),
               ctx["server"].url, ctx["client"])
      BY <1>0, <1>4, <1>8, <2>1, <3>2, OtherHears
    <3>. QED BY <3>1, <3>2, <3>3
  <2>2. CASE m.is = "error"
    <3>1. ~Has(f, {"error"})
      BY <1>4, <1>8 DEF Talk, GoesOn
    <3>2. m.is \in {"error"} /\ f \in Seq(Letters) /\ f # <<>> /\ m = Head(f)
      BY <1>0, <1>1, <1>2, <1>7, <2>2
    <3>. QED BY <3>1, <3>2, HasTail
  <2>3. CASE m.is \notin Verdicts
    <3>1. r = results
      BY <1>2, <1>7, <2>3 DEF Verdicts
    <3>2. QuietToServer(s, s) /\ QuietToClient(f, c)
      BY <1>0, <1>1, <1>2, <1>7, <2>3, QuietSame, QuietTail
    <3>. QED BY <1>4, <1>8, <3>1, <3>2, QuietKeeps
  <2>. QED BY <2>1, <2>2, <2>3 DEF Verdicts, Results
<1>10. Talking'
  BY <1>2, <1>3, <1>7, <1>9 DEF Talking
<1>. QED BY <1>0, <1>5, <1>6, <1>10 DEF Telling
-----------------------------------------------------------------------------
LEMMA DialogueInit ==
  ASSUME CmdInit
  PROVE  DialogueInv
<1>1. ReadInv
  BY ReadInit
<1>2. /\ kind \in Kinds /\ stream["server"] = <<>> /\ stream["client"] = <<>> /\ calls["server"] = <<>>
      /\ asked = <<>> /\ said = <<>> /\ requests = <<>> /\ results = <<>>
      /\ ctx["client"] = NewContext(FALSE, NoUrl)
  BY EndFacts DEF CmdInit
<1>3. Telling
  <2>1. ASSUME NEW e \in Ends
        PROVE  Told(e)
    <3>1. stream[e] = <<>>
      BY <2>1 DEF CmdInit
    <3>2. Leads(<<>>, {"chunkSize"}, {"connect", "accepted"})
      BY HasNone, LeadsNone
    <3>. QED BY <3>1, <3>2 DEF Told, Announced
  <2>. QED BY <2>1 DEF Telling
<1>4. PICK k, z, cl, url, cc : /\ k = kind /\ z = <<>> /\ cl = closed["client"] /\ url = ctx["server"].url
                               /\ cc = ctx["client"]
  OBVIOUS
<1>5. /\ Joins(z) = {} /\ ~Requested(z) /\ (\A kinds : ~Has(z, kinds) /\ Once(z, kinds)) /\ Len(z) = 0
  BY <1>4, HasNone DEF Joins, Requested, ToSet
<1>6. OneAtATime(k, z, z, z, z, z, z, z)
  BY <1>4, <1>5 DEF OneAtATime
<1>7. GoesOn(k, z, z, cl, z, z, z, z)
  BY <1>4, <1>5 DEF GoesOn
<1>8. NamesKept(k, z, z, url, cc)
  <2>1. cc.name = NoStream
    <3>1. NewContext(FALSE, NoUrl).name = NoStream
      BY DEF NewContext
    <3>. QED BY <1>2, <1>4, <3>1
  <2>. QED BY <1>4, <2>1 DEF NamesKept
<1>9. JoinsRight(k, z, z)
  BY <1>5 DEF JoinsRight
<1>10. InOrder(k, z, z, z, z)
  <2>1. z \in Seq(Nat) /\ Cat(z, z) = z /\ Lists(z, z, Results)
    BY <1>4, <1>5, EmptySeq, CatEmpty, ListsNone
  <2>. QED BY <2>1 DEF InOrder
<1>11. Talk(k, z, z, cl, z, z, z, z, z, url, cc)
  BY <1>6, <1>7, <1>8, <1>9, <1>10 DEF Talk
<1>12. Talking
  BY <1>2, <1>4, <1>11 DEF Talking
<1>. QED BY <1>1, <1>3, <1>12 DEF DialogueInv

LEMMA DialogueStep ==
  ASSUME DialogueInv, [CmdNext]_cmdVars
  PROVE  DialogueInv'
<1>0. ReadInv'
  BY ReadStep DEF DialogueInv
<1>1. CASE UNCHANGED cmdVars
  <2>1. UNCHANGED <<kind, asked, said, stream, inChunkSize, ctx, calls, closed, requests, results>>
    BY <1>1 DEF cmdVars, conn, history
  <2>2. Telling' /\ Talking'
    BY <2>1 DEF DialogueInv, Telling, Told, Talking
  <2>. QED BY <1>0, <2>2 DEF DialogueInv
<1>2. CASE SendConnect \/ OtherClient \/ OtherServer \/ OtherReads
  <2>1. Telling' /\ Talking'
    BY <1>2, SendConnectSteps, OtherClientSteps, OtherServerSteps, OtherReadsSteps
  <2>. QED BY <1>0, <2>1 DEF DialogueInv
<1>3. ASSUME NEW e \in Ends,
       \/ \E n \in 1 .. 2 : ReadPart(e, n)
       \/ HandleChunkSize(e) \/ HandleAckWindowSize(e) \/ HandleUserMessage(e) \/ Ignored(e)
       \/ Media(e) \/ HandleConnect(e) \/ HandleCreateStream(e) \/ HandlePlay(e)
       \/ HandlePublish(e) \/ HandleResult(e) \/ HandleError(e)
      PROVE  DialogueInv'
  <2>1. Telling' /\ Talking'
    BY <1>3, PartSteps, QuietSteps, ConnectSteps, CreateStreamSteps, PlaySteps, ResultSteps, ErrorSteps
  <2>. QED BY <1>0, <2>1 DEF DialogueInv
<1>. QED BY <1>1, <1>2, <1>3 DEF CmdNext

LEMMA PrefixCat ==
  ASSUME NEW T, NEW s \in Seq(T), NEW q \in Seq(T)
  PROVE  IsPrefix(s, Cat(s, q))
<1>1. PICK t, n : t = Cat(s, q) /\ n = Len(s)
  OBVIOUS
<1>2. t \in Seq(T) /\ Len(t) = Len(s) + Len(q) /\ Len(s) \in Nat /\ Len(q) \in Nat /\ \A i \in 1 .. Len(s) : t[i] = s[i]
  BY <1>1, CatFacts
<1>3. n \in Nat /\ n <= Len(t) /\ \A i \in 1 .. n : t[i] = s[i] /\ s[i] \in T
  BY <1>1, <1>2
<1>4. PICK a, b : a = SubSeq(s, 1, n) /\ b = SubSeq(t, 1, n)
  OBVIOUS
<1>5. \A i \in 1 .. n : s[i] \in T /\ t[i] \in T
  BY <1>3
<1>6. /\ a \in Seq(T) /\ Len(a) = (IF 1 <= n THEN n - 1 + 1 ELSE 0) /\ \A i \in 1 .. n - 1 + 1 : a[i] = s[1 + i - 1]
      /\ b \in Seq(T) /\ Len(b) = (IF 1 <= n THEN n - 1 + 1 ELSE 0) /\ \A i \in 1 .. n - 1 + 1 : b[i] = t[1 + i - 1]
  BY <1>3, <1>4, <1>5, SubSeqProperties
<1>7. Len(a) = n /\ Len(b) = n /\ \A i \in 1 .. n : a[i] = s[i] /\ b[i] = t[i]
  BY <1>3, <1>6
<1>8. a = b
  BY <1>3, <1>6, <1>7, SeqEqual
<1>. QED BY <1>1, <1>3, <1>4, <1>8 DEF IsPrefix

LEMMA InOrderFacts ==
  ASSUME DialogueInv
  PROVE  AnswersInOrder
<1>0. /\ stream["client"] \in Seq(Letters) /\ requests \in Seq(Nat) /\ results \in Seq(Nat)
      /\ (Own("server") <=> OwnServer(kind)) /\ Talking
  BY HereFacts DEF DialogueInv
<1>1. PICK c : c = stream["client"]
  OBVIOUS
<1>2. PICK p \in Seq(Nat) :
        /\ Lists(p, c, Results)
        /\ IF OwnServer(kind) \/ p # <<>> \/ Has(stream["server"], Asks) THEN requests = Cat(results, p)
           ELSE \E q \in Seq(Nat) : requests = Cat(results, q)
  BY <1>0, <1>1 DEF Talking, Talk, InOrder
<1>3. PICK spot : Places(p, c, Results, spot)
  BY <1>2 DEF Lists
<1>4. PICK n : n = Len(p)
  OBVIOUS
<1>5. n \in Nat /\ (n = 0 <=> p = <<>>)
  BY <1>4, EmptySeq, LenProperties
<1>6. n \in 0 .. Len(requests)
  <2>1. CASE requests = Cat(results, p)
    <3>1. Len(requests) = Len(results) + Len(p) /\ Len(results) \in Nat
      BY <1>0, <2>1, CatFacts
    <3>. QED BY <1>4, <1>5, <3>1
  <2>2. CASE requests # Cat(results, p)
    <3>1. n = 0 /\ Len(requests) \in Nat
      BY <1>0, <1>2, <1>5, <2>2, LenProperties
    <3>. QED BY <3>1
  <2>. QED BY <2>1, <2>2
<1>7. /\ spot \in [1 .. n -> 1 .. Len(c)]
      /\ \A k, l \in 1 .. n : k < l => spot[k] < spot[l]
      /\ \A k \in 1 .. n : c[spot[k]].is \in Results /\ c[spot[k]].id = p[k]
      /\ \A i \in 1 .. Len(c) : c[i].is \in Results => \E k \in 1 .. n : spot[k] = i
  BY <1>3, <1>4 DEF Places
<1>8. \A i : i \in Coming <=> i \in 1 .. Len(c) /\ c[i].is \in Results
  BY <1>1 DEF Coming, Results
<1>9. spot \in [1 .. n -> Coming]
  BY <1>7, <1>8
<1>10. PICK all, told : /\ told = [k \in 1 .. n |-> c[spot[k]].id]
                        /\ all = Cat(results, told)
  OBVIOUS
<1>11. told = p
  <2>1. told = [k \in 1 .. n |-> p[k]]
    BY <1>7, <1>10
  <2>2. p = [k \in 1 .. n |-> p[k]]
    BY <1>2, <1>4
  <2>. QED BY <2>1, <2>2
<1>12. IF Own("server") THEN all = requests ELSE IsPrefix(all, requests)
  <2>1. CASE requests = Cat(results, p)
    <3>1. all = requests /\ Cat(requests, <<>>) = requests /\ <<>> \in Seq(Nat)
      BY <1>0, <1>10, <1>11, <2>1, CatEmpty, EmptySeq
    <3>2. IsPrefix(requests, requests)
      BY <1>0, <3>1, PrefixCat
    <3>. QED BY <3>1, <3>2
  <2>2. CASE requests # Cat(results, p)
    <3>1. ~OwnServer(kind) /\ p = <<>>
      BY <1>2, <2>2
    <3>2. PICK q \in Seq(Nat) : requests = Cat(results, q)
      BY <1>2, <2>2
    <3>3. all = results
      BY <1>0, <1>10, <1>11, <3>1, CatEmpty
    <3>. QED BY <1>0, <3>1, <3>2, <3>3, PrefixCat
  <2>. QED BY <2>1, <2>2
<1>13. all = results \o [k \in 1 .. n |-> stream["client"][spot[k]].id]
  BY <1>1, <1>10 DEF Cat
<1>14. /\ \A k, l \in 1 .. n : k < l => spot[k] < spot[l]
       /\ \A i \in Coming : \E k \in 1 .. n : spot[k] = i
       /\ LET seen == results \o [k \in 1 .. n |-> stream["client"][spot[k]].id]
          IN  IF Own("server") THEN seen = requests ELSE IsPrefix(seen, requests)
  BY <1>7, <1>8, <1>12, <1>13
<1>. QED BY <1>6, <1>9, <1>14 DEF AnswersInOrder

LEMMA ChunkFacts ==
  ASSUME DialogueInv
  PROVE  ChunkSizeKnown
<1>1. SUFFICES ASSUME NEW e \in Ends, Own(Peer(e)), stream[e] # <<>>, Head(stream[e]).is \in {"connect", "accepted"}
               PROVE  inChunkSize[e] = 4096
  BY DEF ChunkSizeKnown
<1>2. PICK own : own = IF e = "server" THEN kind[1] ELSE kind[2]
  OBVIOUS
<1>3. Announced(own, inChunkSize[e], stream[e]) /\ stream[e] \in Seq(Letters)
  BY <1>2, StreamTypes DEF DialogueInv, Telling, Told
<1>4. own = "own"
  BY <1>1, <1>2, EndFacts DEF Own
<1>5. PICK chunk, s : chunk = inChunkSize[e] /\ s = stream[e]
  OBVIOUS
<1>6. chunk = 4096
  <2>1. chunk = 4096 \/ Leads(s, {"chunkSize"}, {"connect", "accepted"})
    BY <1>3, <1>4, <1>5 DEF Announced
  <2>2. s \in Seq(Letters) /\ s # <<>> /\ Head(s).is \in {"connect", "accepted"}
    BY <1>1, <1>3, <1>5
  <2>3. ~Leads(s, {"chunkSize"}, {"connect", "accepted"})
    BY <2>2, LeadsTail
  <2>. QED BY <2>1, <2>3
<1>. QED BY <1>5, <1>6

(* Between two ends of this code the client gets the answers 1 and 4 only *)
OneAndFour == OwnClient(kind) /\ OwnServer(kind) => \A i \in 1 .. Len(results) : results[i] \in {1, 4}

(* Only handleResult, and another client, note an answer *)
LEMMA ResultsFacts ==
  ASSUME [CmdNext]_cmdVars
  PROVE  /\ kind' = kind
         /\ \/ results' = results
            \/ OtherReads
            \/ \E e \in Ends : HandleResult(e)
<1>1. CASE UNCHANGED cmdVars
  BY <1>1 DEF cmdVars, history
<1>2. CASE SendConnect \/ OtherClient
  BY <1>2 DEF SendConnect, OtherClient
<1>3. CASE OtherServer \/ OtherReads
  BY <1>3 DEF OtherServer, OtherReads, history
<1>4. ASSUME NEW e \in Ends,
       \/ \E n \in 1 .. 2 : ReadPart(e, n)
       \/ HandleChunkSize(e) \/ HandleAckWindowSize(e) \/ HandleUserMessage(e) \/ Ignored(e)
       \/ Media(e) \/ HandleConnect(e) \/ HandleCreateStream(e) \/ HandlePlay(e)
       \/ HandlePublish(e) \/ HandleError(e)
      PROVE  kind' = kind /\ results' = results
  BY <1>4 DEF ReadPart, HandleChunkSize, HandleAckWindowSize, HandleUserMessage, Ignored, Media, HandleConnect,
              HandleCreateStream, HandlePlay, HandlePublish, HandleError, Complete, history
<1>5. ASSUME NEW e \in Ends, HandleResult(e)
      PROVE  kind' = kind
  BY <1>5 DEF HandleResult, Complete, history
<1>. QED BY <1>1, <1>2, <1>3, <1>4, <1>5 DEF CmdNext

LEMMA OneAndFourStep ==
  ASSUME DialogueInv, OneAndFour, [CmdNext]_cmdVars
  PROVE  OneAndFour'
<1>0. kind' = kind /\ results \in Seq(Nat) /\ (Own("client") <=> OwnClient(kind)) /\ Talking
  BY ResultsFacts, HereFacts DEF DialogueInv
<1>1. CASE results' = results
  BY <1>0, <1>1 DEF OneAndFour
<1>2. CASE OtherReads
  BY <1>0, <1>2 DEF OneAndFour, OtherReads
<1>3. ASSUME NEW e \in Ends, HandleResult(e), OwnClient(kind), OwnServer(kind)
      PROVE  \A i \in 1 .. Len(results') : results'[i] \in {1, 4}
  <2>0. ReadInv
    BY DEF DialogueInv
  <2>1. PICK is : is \in Results /\ Got(e, is)
    BY <1>3 DEF HandleResult, Results
  <2>2. PICK m : m = Head(stream[e])
    OBVIOUS
  <2>3. m.is = is /\ m \in Letters /\ stream[e] # <<>> /\ results' = Append(results, m.id)
    BY <2>0, <2>1, <2>2, <1>3, GotFacts DEF HandleResult
  <2>4. e = "client"
    BY <2>0, <2>1, Sides DEF Verdicts, Results
  <2>5. CASE is = "accepted"
    BY <1>0, <1>3, <2>3, <2>5, LetterFacts DEF IdOK, OneAndFour
  <2>6. CASE is = "created"
    <3>1. \A i \in 1 .. Len(stream["client"]) : stream["client"][i].is = "created" => stream["client"][i].id = 4
      BY <1>0, <1>3 DEF Talking, Talk, GoesOn
    <3>2. stream["client"] \in Seq(Letters)
      BY <2>0, <2>4 DEF ReadInv, Types, Carried
    <3>3. 1 \in 1 .. Len(stream["client"]) /\ m = stream["client"][1]
      BY <2>2, <2>3, <2>4, <3>2, TailFacts
    <3>4. m.id = 4
      BY <2>3, <2>6, <3>1, <3>3
    <3>. QED BY <1>0, <1>3, <2>3, <3>4 DEF OneAndFour
  <2>. QED BY <2>1, <2>5, <2>6 DEF Results
<1>. QED BY <1>0, <1>1, <1>2, <1>3, ResultsFacts DEF OneAndFour

LEMMA CompletesFacts ==
  ASSUME DialogueInv, OneAndFour
  PROVE  DialogueCompletes
<1>0. /\ (Own("server") <=> OwnServer(kind)) /\ (Own("client") <=> OwnClient(kind)) /\ Talking /\ kind \in Kinds
      /\ "server" \in Ends /\ "client" \in Ends
  BY HereFacts, EndFacts DEF DialogueInv
<1>1. ASSUME asked # <<>>, \A e \in Ends : stream[e] = <<>>
      PROVE  \/ Own("server") /\ ~Own("client") /\ "request" \notin ToSet(said)
             \/ Own("server") /\ \E i \in 1 .. Len(calls["server"]) : calls["server"][i][1] = asked[1]
             \/ ~Own("server") /\ (closed["client"] \/ 4 \in ToSet(results))
  <2>1. \A kinds : ~Has(stream["server"], kinds) /\ ~Has(stream["client"], kinds)
    BY <1>0, <1>1, HasNone
  <2>2. PICK cs, cl : cs = calls["server"] /\ cl = closed["client"]
    OBVIOUS
  <2>3. /\ GoesOn(kind, asked, said, cl, stream["server"], stream["client"], cs, results)
        /\ JoinsRight(kind, asked, cs)
    BY <1>0, <2>2 DEF Talking, Talk
  <2>4. /\ OwnClient(kind) /\ OwnServer(kind) => Joins(cs) # {}
        /\ ~OwnServer(kind) => cl = TRUE \/ 4 \in ToSet(results)
        /\ Requested(said) /\ ~OwnClient(kind) => Joins(cs) # {}
    BY <1>1, <2>1, <2>3 DEF GoesOn
  <2>5. Joins(cs) # {} => \E i \in 1 .. Len(cs) : cs[i][1] = asked[1]
    BY <2>3 DEF JoinsRight, Joins
  <2>. QED BY <1>0, <2>2, <2>4, <2>5 DEF Requested
<1>2. PublisherWaits
  BY <1>0 DEF PublisherWaits, OneAndFour, ToSet
<1>. QED BY <1>1, <1>2, InOrderFacts, ChunkFacts DEF DialogueCompletes

LEMMA JoinsFacts ==
  ASSUME DialogueInv
  PROVE  JoinsAsAsked
<1>0. (Own("client") <=> OwnClient(kind)) /\ Talking
  BY HereFacts DEF DialogueInv
<1>1. PICK cs : cs = calls["server"]
  OBVIOUS
<1>2. /\ \A i, j \in Joins(cs) : i = j
      /\ \A i \in Joins(cs) : OwnClient(kind) \/ Len(asked[2].path) < 3 => cs[i] = Wanted(kind, asked)
  BY <1>0, <1>1 DEF Talking, Talk, OneAtATime, JoinsRight
<1>3. \A i \in Joins(cs) : Joins(cs) = {i}
  BY <1>2
<1>4. Wanted(kind, asked) = <<asked[1], <<asked[2].host, <<asked[2].path[1]>>,
                                          IF Own("client") THEN "" ELSE asked[3].name>> >>
  BY <1>0 DEF Wanted
<1>. QED BY <1>0, <1>1, <1>2, <1>3, <1>4 DEF JoinsAsAsked, Joins

(* What has to come next is on its way until the server's handler has been *)
(* asked for what the client wants, or the client has got the answer to    *)
(* createStream or was refused; the answers follow the requests, and a     *)
(* chunk size is announced before it is used (handleConnect,               *)
(* handleCreateStream, handleResult, sendConnect).  A publishing client of *)
(* this code still waits then: for answer 5, which this code's server      *)
(* never sends (handlePublish).                                            *)
THEOREM DialogueTheorem == CmdSpec => []DialogueCompletes
<1>1. CmdInit => DialogueInv /\ OneAndFour
  <2>1. ASSUME CmdInit PROVE OneAndFour
    BY <2>1 DEF CmdInit, OneAndFour
  <2>. QED BY <2>1, DialogueInit
<1>2. DialogueInv /\ OneAndFour /\ [CmdNext]_cmdVars => (DialogueInv /\ OneAndFour)'
  BY DialogueStep, OneAndFourStep
<1>3. DialogueInv /\ OneAndFour => DialogueCompletes
  BY CompletesFacts
<1>. QED BY <1>1, <1>2, <1>3, PTL DEF CmdSpec

(* The handler is asked once, for the player or publisher and the session  *)
(* the client asks for (handlePlay, handlePublish, parseNameAndTcUrl): for *)
(* another client whose tcUrl has at most an instance behind the           *)
(* application, and for this code's client, whose name is empty.           *)
THEOREM JoinsTheorem == CmdSpec => []JoinsAsAsked
<1>1. CmdInit => DialogueInv
  BY DialogueInit
<1>2. DialogueInv /\ [CmdNext]_cmdVars => DialogueInv'
  BY DialogueStep
<1>3. DialogueInv => JoinsAsAsked
  BY JoinsFacts
<1>. QED BY <1>1, <1>2, <1>3, PTL DEF CmdSpec
=============================================================================
