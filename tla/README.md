# lssvc: a TLA+ verification project

lssvc is an RTMP live streaming server in C++: publishers push a stream over
RTMP, the server keeps a window of the newest packets of every stream, and
players pull that window over RTMP.  This directory holds TLA+ modules
translated from the source, TLC configurations that check them on small
instances, and theorems checked by TLAPS.

## 1. Inventory

Paths are relative to `src/` (the repository root).  `include/...` holds the
class definitions, `src/...` the code.

| component | source | state it keeps | operations | talks to |
|---|---|---|---|---|
| event loop | `src/network/net/lssvc_eventloop.cpp` | `running_`, `events_` (fd -> event), `tasks_` + `lock_`, `pipe_`, `wheel_` | `loop`, `quit`, `addEvent`, `delEvent`, `enableReading/Writing`, `enqueueTask`, `runTask`, `wakeUp` | every connection, by virtual `onRead/onWrite/onClose/onError`; other threads, by `enqueueTask` |
| loop thread, pool | `lssvc_eventloop_thread.cpp`, `lssvc_eventloop_threadpool.cpp` | `running_`, `loop_`, `once_`, `promise_loop_` | `start`, `run`, destructor, `getNextLoop` | owns an event loop |
| timing wheel | `lssvc_timing_wheel.cpp` | four deques of sets of entries, `tick_`, `last_ts_` | `insertEntry`, `runAfter`, `runEvery`, `onTimer`, `popUp` | entries run their callback when the last reference drops |
| TCP connection | `lssvc_tcpconn.cpp`, `lssvc_connection.cpp` | `closed_`, `active_`, `io_vec_list_`, `message_buffer_`, `contexts_`, `timeout_entry_` | `onRead`, `onWrite`, `onClose`, `forceClose`, `send`, `active`, `deactive`, `extendLife` | loop, wheel, server callbacks |
| TCP server, acceptor, client | `tcp_server.cpp`, `lssvc_acceptor.cpp`, `tcp_client.cpp` | `connections_`, acceptor `fd_`, client `status_` | `onAccept`, `onConnectionClose`, `start`, `stop`, `connect`, ... | loop, connection |
| message buffer | `src/network/base/lssvc_msgbuffer.cpp` | `head_`, `tail_`, `cap_`, storage | `append`, `retrieve`, `ensureWriteableBytes`, `readFd` | connection, parsers |
| UDP socket, server, client | `lssvc_udp_socket.cpp`, `udp_*.cpp` | `buffer_list_`, `closed_` | `onRead`, `onWrite`, `send`, `onClose` | loop |
| DNS service | `dns_service.cpp` | `hosts_info_`, `running_`, `stop_cond_` | `addHost`, `start`, `stop`, `onWork` | its own thread |
| RTMP handshake | `src/mmedia/rtmp/rtmp_handshake.cpp` | `state_`, `C1S1_`, `C2S2_` | `start`, `handShake`, `writeComplete` | connection (send), RTMP context |
| RTMP context | `rtmp_context.cpp` | `state_`, chunk headers per csid, `sending_`, `out_waiting_queue_`, `sending_buffers_` | `parse`, `parseMessage`, `buildChunk`, `send`, `checkAndSend`, command handlers | connection, live service (`RtmpHandler`) |
| RTMP server, client | `rtmp_server.cpp`, `rtmp_client.cpp` | handler | callbacks that route to the context | TCP server / client |
| AMF codec | `src/mmedia/rtmp/amf/*` | value tree | `decode`, `encode*` | RTMP context, codec headers |
| live service | `src/live/live_service.cpp` | `sessions_` + `lock_`, `servers_`, `pool_` | `createSession`, `findSession`, `closeSession`, `onTimer`, `onPlay`, `onPublish`, `onRecv`, `onActive`, `onConnectionDestroy` | sessions; called by every loop thread and by the main thread's task manager |
| live session, users | `live_session.cpp`, `live_user.cpp`, `play_user.cpp` | `players_`, `publisher_`, `lock_`, `player_live_time_`; user `destroyed_` | `addPlayer`, `setPublisher`, `closeUser`, `clear`, `activeAllPlayers`, `isTimeout` | stream, connections |
| live stream | `live_stream.cpp`, `gop_mgr.cpp`, `codec_header.cpp` | packet ring, `frame_index_`, GOP list, codec headers, flags | `addPacket`, `getFrames`, `locateGop`, `skipFrame`, `getNextFrame` | publisher thread writes, player threads read |
| RTMP player user | `rtmp_playeruser.cpp` | pending headers, `out_frames_`, `out_index_` | `postFrames`, `pushFrame`, `pushFrames` | stream, RTMP context, connection |
| time corrector | `base/time_corrector.cpp` | original and corrected timestamps of audio and video | `correctTimestamp` | stream, player |
| task manager, task | `src/utils/lssvc_taskmgr.cpp`, `lssvc_task.cpp` | `tasks_`, `when_` | `work`, `add`, `del`, `run`, `restart` | main thread |
| config, logging, files | `src/utils/lssvc_config.cpp`, `lssvc_file*.cpp`, `lssvc_log*.cpp`, `lssvc_appinfo.cpp`, `lssvc_domain_info.cpp` | configuration tree, open log files, last rotation time | load, look up, rotate | main thread |
| socket options, addresses, strings, time | `lssvc_socketopt.cpp`, `lssvc_inetaddress.cpp`, `lssvc_string.cpp`, `lssvc_time.cpp` | none or one system handle | system calls, formatting | everything |

### Threads

The pool runs one event loop per thread; every connection belongs to one loop
and its callbacks run on that loop's thread.  The publisher of a stream and its
players may belong to different loops (the listening socket is shared by all
loops with `SO_REUSEPORT`).  The main thread runs the task manager: it calls
`LiveService::onTimer` every five seconds and log rotation every second.  The
DNS service has its own thread.

### Hard behaviours, and what makes each component correct

The hazards are listed one by one, at their lines, in `PROJECT.json`.  In short:

* **Live stream.** A writer and many readers share a ring of packets, and a
  second structure (the GOP list) points into it.  Correct: the ring is a window
  without holes; a GOP points at a packet that is there; a player never goes
  back, starts at a key frame, is close to the newest packet when it joins or
  skips, and has the sequence header its frames were encoded with.
* **Sending to a player.** Frames flow only because each `postFrames` leads to
  another, by a write completion or by `active()` from the publisher's thread,
  which reads `active_` without a lock.  Correct: whatever waits, waits behind
  something in progress, and a player of a live stream is served for ever.
* **Handshake.** Bytes arrive split and merged at any place, writes are split,
  and completions run inside the send or later.  Correct: the bytes of either
  side go out whole and in order, the parser of messages gets exactly what
  follows the handshake, and both sides get through.
* **Timing wheel.** Boundaries of four wheels, migration between them, entries
  that are kept alive by references in several slots, irregular rounds of the
  loop.  Correct: a timer fires once, when it is due; a connection closes exactly
  when it has been idle long enough.
* **Session and service.** Several threads create, find, fill, time out and clear
  sessions.  Correct: whoever marks a user as destroyed closes its
  connection, and a stream has one publisher.
* **Loop, threads, locks.** Tasks run under the loop's lock, and sessions call
  out under theirs.  Correct: no task is lost, `quit` ends the loop, and no two
  threads wait for each other.
* **Chunk codec, buffers, time correction.** Correct: a reader gets the messages
  that were written, whatever the chunk size and interleaving; timestamps do not
  run backwards.

## 2. Plan

| order | module | what it models | status |
|---|---|---|---|
| 1 | `LiveStream` | packet window, GOPs, headers, cursors of players | done, with proofs |
| 2 | `PlayerPump` | activation, the send gate, epoll events of a player | done, with proofs |
| 3 | `RtmpHandshake` | client, server, TCP | done, with proofs |
| 4 | `TimingWheel` | timers and the idle timeout | done, with proofs |
| 5 | `LiveService` | users joining, leaving, replaced and timed out by several threads; composes the service, the session and the closing of connections, with the locks of all three and of the loops | done, with proofs |
| 6 | `EventLoop` | the loop's thread, task queue, lock, pipe, `quit` against `loop` | done, with proofs |
| 7 | `TcpLink` | acceptor, server, connections and client on one loop: descriptors, edges, batches | done, with proofs |
| 8 | `RtmpChunk` | `buildChunk` against `parseMessage` over a cut stream | done, with proofs |
| 9 | `RtmpCommands` | the dialogue of client and server, acknowledgements, session names | done, with proofs |
| 10 | `AmfCodec` | the encoders against `decode` | done |
| 11 | `ByteStream`, `MsgBuffer` | a byte stream, and the buffer that implements it | done, with proofs |
| 12 | `TimeCorrector` | the corrector of a stream and the one of a player behind it | done, with proofs |
| 13 | `TaskManager`, `Dns`, `Udp` | small components, each alone | done, with proofs |

Every invariant that a run checks has a theorem, but for those named at the end of
section 5.  Left: an abstract specification of what a stream delivers (frames in
order, gaps only before key frames) that `LiveStream` implements, and of a
connection's sequence of messages that `RtmpChunk` implements; both would say in
steps what the invariants already say of states.

## 3. What is modelled

Every definition that models code is listed in `PROJECT.json` under `map`, with
the lines it stands for.  A definition whose name is that of another with a suffix
and whose comment says `mutant` is a wrong version of it: `PROJECT.json` lists
which property each one breaks.

**LiveStream.** `AddPacket` is `LiveStream::addPacket` with `GopMgr::addFrame`,
`clearExpiredGop` and `CodecHeader::parseCodecHeader`.  `PostFrames` is
`RtmpPlayerUser::postFrames` with `getFrames`, `locateGop`, `skipFrame` and
`getNextFrame`, which are functions of the user they update.  The stream's lock
covers both, so each is one step, and the steps of publisher and players
interleave in any order.  `user[p]` holds the members of `PlayerUser`, `decoder[p]`
is history: what the far end has received.  A packet is its index, kind and
corrected timestamp.  `wait_timeout_`, `out_version_`, GOP statistics and logging
are left out; so is the branch of `locateGop` that returns half way, which the
flags it tests never take.  Whether the RTMP context accepts what is pushed is
`canSend`.

**PlayerPump.** The same player seen from its wakeups.  The publisher's thread runs
`AddPacket` and `ActivatePlayer` (`activeAllPlayers`, `LSSConnection::active`); the
player's loop runs `RunTask`, `Play`, `Control`, `Acknowledge`, `JoinActive`,
`WriteDone` (`onWrite`, `onWriteComplete`, `checkAndSend`), `Post` and
`Deactivate`.  Loads and stores of `active_`, which is atomic and unlocked, are
separate steps.  `sameLoop` chooses whether the two are one thread.  `edge` is
epoll's memory of an event to report; an event with something to read runs only
`onRead`, as in `loop()`.  The window is reduced to the distance `lag`.

**RtmpHandshake.** `end[x]` is one end of a connection: `RtmpHandShake::state_`,
`RtmpContext::state_`, the input buffer, the queue of `LSSTcpConnection`, and what
the kernel took.  `Start`, `OnRead` and `OnWrite` are the handlers, with all they
call (`handShake`, `checkC1S1`, `sendC1S1`, `sendC2S2`, `writeComplete`).  `Arrive`
is TCP.  The client is this code's or an external one that only follows the
protocol.  A digest is right or wrong, never computed.

**TimingWheel.** `Insert` is `insertEntry` with its four wheels, `OnTimer` is
`onTimer` with both calls of `popUp` and all the callbacks they run, `Run` is
`runAfter` and `runEvery`, `EnableCheckIdleTimeout` and `ExtendLife` are the idle
timeout of a connection.  References to a `TimeoutEntry` are the slots that hold it: a
connection times out when none does.

**LiveService.** Every thread, a loop or the timer's, has in `todo` the list of
steps it has still to do; a function that calls another puts the callee's steps in
front, so what runs inside `forceClose` on the loop's own thread runs with the
locks of its callers.  The mutexes are those of the service, of each session and of
each loop; none is recursive.  A thread holds the locks that it has still to release
in `todo`, and a lock is free when nobody has.  A step ends where another thread can see a
difference: at a lock, an unlock, or a call that leaves the object.  `user` and
`session` grow by what `onPlay` and `onPublish` create, `current` is the entry of
`sessions_`, `destroyed` is the atomic flag of a user, for which `closeUser`,
`setPublisher` and `clear` race.  `isTimeout` is a choice of the timer's thread.
An object exists as long as a list, a context or a task refers to it: when `clear`
drops the last reference to a connection, its destructor runs there.

**EventLoop.** The owner runs `LSSEventLoopThread::run` and its destructor
(`AskRun`, `GotLoop`, `Quit`, `Join`), the thread `startEventLoop` and `loop`
(`WaitForRun` to `RoundEnds`), and posters `enqueueTask` with `wakeUp` (`Lock`,
`InitPipe`, `WakeUp`), which holds the loop's lock while it creates the pipe and
writes a word.  `known` is the pipe's entry of `events_`, which another thread
writes without a lock and which therefore may be lost.  Each write that fits is an
edge; `onRead` takes one word of eight bytes.

**TcpLink.** The kernel (`socket`, `edges`, `writing`, `input`, `link`) gives out
free descriptors and reports edges; `fd` and `events` are what the objects and
the loop believe.  A round of `loop()` takes a `batch` of reports, some of which
belong to objects that an earlier one of the batch has closed, then runs tasks.
The acceptor takes every answer of `accept`, server connections read, write all or
some or fail, end and break, and the client goes through its statuses, with a
`connect` that is answered at once or later.  A handler that ends with a callback
leaves the loop in the phase `callback`, in which the callback may close, send and
connect: `enqueueTask` runs at once what the loop's own thread asks for, in the
middle of the batch.  What other threads ask for runs in the phase `tasks`.

**RtmpChunk.** `Send` is `buildChunk` for all chunks of a message, at any time;
`Transmit` puts chunks on the wire in any order of chunk stream ids, control messages
first.  `Segment` hands the reader any part of the wire, and `ParseChunk` is one round
of `parseMessage`'s loop, with what it has changed when it returns for want of bytes;
`Return` is a round that finds no whole header.  `sent` and `received` are history:
the messages of each chunk stream.  A cell is a field or a unit
of payload; a timestamp has two digits of base `Radix`, the lower of which a header
has room for, so that extended timestamps and their swapped bytes occur with small
numbers.  All chunks of a message are built before any is on the wire.

**RtmpCommands.** `stream[e]` holds the whole messages on their way to an end, of
one size or of three (those that need the larger chunk size); `ReadPart` is a read
that ends anywhere.  One action per handler: it takes the message off, changes the
context and appends what it answers, in order.  One of the ends may be another
program that follows the protocol, which may leave out, add and reorder what the
protocol allows.

**AmfCodec.** Values are trees; `EncodeList` is the encoders, `Decode` is
`AMFObject::decode` on bytes, recursive as in the code, and `Property` is the
search.  The inputs are commands of every type with objects two deep.

**MsgBuffer** is `LSSMsgBuffer` with its vector: `ensureWriteableBytes` compacts or
grows, `readFd` reads into the buffer and a second vector.  **ByteStream** is what it
promises: bytes are put at one end and taken from the other.  `Stream` is the
refinement mapping, `ImplementsByteStream` the abstract specification as a property.

**TimeCorrector.** `correctTimestamp` of the stream's corrector and of a player's
behind it, with the four kinds of frames as each of the two sees them.  Timestamps
are unsigned and have `2 * Half` values; the difference of the first video and the
audio before it is cut to a signed one of the same width, and so is the answer to an
unsigned one, as in the code; the other differences have 64 bits there and are exact.

**TaskManager** runs `work` task by task, with callbacks that restart their task and
a clock that moves on meanwhile; a task that `work` dropped may be added again, due
as it was.  **Dns** is the worker of `DnsService` with its
retries and waits against `addHost`, `start` and `stop`; the worker works on a copy
of the table.  **Udp** is a socket as client and as server, with its tasks, its
queue and its events.  `send` has two callers: the loop's own thread, in a callback
or a task, whose call is carried out at once (`SendHere`), and any other thread,
whose call is a task (`Send`, `SendInLoop`).

`MCRtmp` and `MCParts` hold components that share no state.  The variable `part`
chooses one of them, and the others stay where they start: the states of a run are
the sum of the parts' states and not their product.

## 4. What is checked

A run is a configuration of an `MC` module, which fixes the model values.
`CHECK_DEADLOCK FALSE` is in every one, because the bounds stop the counters (the
publisher, the clock, commands, tasks) and because a handshake, a dialogue and a
loop that was told to quit end.

| run | bounds | shows |
|---|---|---|
| `LiveStream_window` | ring of 3, batch of 2, 6 packets of 4 kinds, timestamps 0 or 2 apart, latency 1 | the window has no holes, GOPs point into it, frames come in order, gaps end at key frames, joins are recent, headers fit |
| `PlayerPump` | batch 2, lag up to 3, 2 waiting messages, 2 tasks, wakeups on every 2nd packet | no wakeup is lost for good, nothing waits without a write in progress, on one loop or two |
| `RtmpHandshake` | messages of 4 bytes, writes whole or one byte, any segmentation | streams and framing intact for both kinds of client, the server gets the first message |
| `TimingWheel_short` | minute of 3 ticks, hour of 2 minutes, day of 2 hours, delays on every side of the boundaries, clock to 15 in irregular steps | short timers and idle timeouts act in their tick, and at most a second early by the clock |
| `LiveService` | 2 publishers and a player on 2 loops, the timer, 3 commands (about a million states) | no cycle of locks, whoever destroys a user closes its connection, a stream has one publisher |
| `EventLoop` | 2 posters of 3 tasks, a pipe of 3 words | a waiting loop with tasks is woken unless its pipe is full, tasks run, `run` and the destructor return |
| `Rtmp` | 3 messages on 4 chunk stream ids, timestamps 0, 1, 5 in base 4, chunks of 1 and 2; window 4, 2 messages of the other program; 2 values per command, objects two deep (about 500,000 states) | messages arrive whole, framing is kept, bytes are acknowledged, the dialogue goes on until the client has what it asked for (but for the one answer that never comes, section 6), commands are decoded |
| `Parts` | 2 connections, which are symmetric, and a client on 3 descriptors; buffer of 3 with offset 2 and 12 bytes; 4 frames of 5 of the 16 timestamps (`Half` is 8), jump at 4; 2 tasks, clock to 4; 2 hosts, 2 tries; 3 datagrams of two callers (about 1.1 million states) | descriptors agree, stale events reach only objects that are new in the round, the buffer is a byte stream, timestamps do not jump, tasks run once and in time, addresses stay, datagrams of each caller go out in order |
| `LiveService_exits`, `LiveService_forgets`, `PlayerPump_edge`, `RtmpHandshake_late_s2` | as above or smaller | disagreements of the code with its comments, see section 6 |

Why the bounds are enough.  The ring wraps twice over, so that packets expire
while GOPs and cursors still refer to them, the moment `frameIndex = BufferSize`
occurs, and a player can fall out of the window; one player suffices, because
players share no state but what the publisher writes (the theorems hold for any
number).  Two headers of the same medium fit between two key frames.  In
`PlayerPump` two tasks and two waiting messages let an `active()` overtake a
`deactive()` and a control message wait behind a write.  Messages of four bytes
have a first, a last and inner bytes, so every kind of split occurs.  The wheel
turns through seven ticks, two minutes and an hour, and delays lie at, below and
above each boundary.  Three connections on two loops give a close on the own loop's
thread and one on another's, with the timer as a third thread; a third command is
the one that finds what the first two left.  A pipe of three words is full before
the posters are done.  The chunk stream ids need basic headers of one, two and three
bytes, 0 and 1 fit into a header and 5 does not, and a message takes up to three
chunks.  Three descriptors for four objects make the kernel give out each of them
again; the two connections differ in nothing but their names, so their symmetry is
sound (no liveness is checked in that run).  The timestamps 0 and 14 of 16 are on
either side of the wrap, 2 and -2 from it.  Three datagrams are two of one caller
that a third of the other can overtake or wait behind.  Twelve bytes make the buffer compact and grow, by doubling and to measure.

The run of `LiveStream` leaves out `meta` packets: `addPacket` never sets
`has_meta_`, so they would only be frames that no player starts at.

**Type invariants.** Where TLAPS proves the type invariant for all constants
(`LiveStream`, `PlayerPump`, `TimingWheel`, `EventLoop`) no run checks it again; the
`TypeOK` of `MCRtmp` and of `MCParts` is the conjunction of those of their parts,
some of which are proved.

**Fairness.** `PlayerPump` assumes that each thread goes on with what it has to
do (weak fairness of `ActivatePlayer`, `JoinActive`, `RunTask`, `NotReady`, `Post`,
`Deactivate`), that the far end reads (`Drain`), and that the loop serves every
event `epoll_wait` reported before it asks again (strong fairness of `OnRead` and
`WriteDone`, which other handlers of the same loop disable for a while).  Nothing
obliges a publisher to publish or a player to play: `KeepsServed` speaks of
behaviours in which packets keep being published, the queue of control messages
finally stays empty (`checkAndSend` prefers it to frames), and no write event is
swallowed.  `RtmpHandshake` assumes that TCP delivers, that loops serve their
events, and that a client that follows the protocol goes on with it.
`ServerFinishes` excepts a write event that was swallowed, the same weakness as
`PlayerPump_edge` shows.  `EventLoop` assumes that the owner, the posters and the
loop's thread go on with what they have begun, and that the loop gets its mutex
when it is free again and again (strong fairness of `LockTasks`); nobody has to run
the thread, to post or to quit.  That the loop polls with a timeout of a second is
the reason why `PostedRuns` holds with a full pipe.  `OwnerReturns` excepts a
`quit` that comes before `loop` has set `running_`.  The other modules state no
fairness and no liveness.

## 5. What is proved

For every value of the constants that satisfies the named assumption of the
module; each proof module has an inductive invariant, lemmas that it holds at the
start and is preserved (one lemma or step per action), and the theorems.

| module | theorems | inductive invariant |
|---|---|---|
| `NumberFacts` | lemmas on remainders and quotients, and on least elements | |
| `LiveStreamProof` | `TypeCorrect`, `WindowTheorem`, `GopsTheorem`, `OrderTheorem` | types, the window, GOPs not ahead of it, and that what a player holds lies between its last frame and its cursor |
| | `GapTheorem`, `LatencyTheorem`, `HeaderTheorem` | that, `StreamInv` (GOPs are at key frames, the header indices are those of the newest headers) and `PlayersInv` (how a player's cursor, the headers it waits for and what its decoder has been given belong together) |
| `ContextProof` | `PumpTypeTheorem`, `ActiveTheorem`, `StrandedTheorem` | both properties, with `OnlyJoined`, `JoinSends`, `DeactivateEmpty`, `HeldMeansReady`: a thread is inside `postFrames` only for a joined player, joins with a send in progress, reaches `deactive()` only with nothing in hand, and holds frames only of a stream that is ready |
| | `AcknowledgedTheorem` | `ReadInv`: types, the property, and `Reads`: what is left in an end's buffer is what `last_left_` says, and less than the message it is a part of |
| | `DialogueTheorem`, `JoinsTheorem` | `DialogueInv`: types and `BytesAcknowledged`; `Told`: the chunk size is announced before the first message that needs it; and `Talk`: one request or answer is on its way at a time (`OneAtATime`), what the state waits for is among what is on its way (`GoesOn`), requests and contexts name what the client was asked for (`NamesKept`), and the ids of answers on their way follow those received (`InOrder`) |
| `LiveServiceProof` | `StacksAreRight`, `NoThreadsWaitForEachOther` | `StackInv`: types, that lists, contexts and sessions refer to the users they belong to, that every thread's `todo` is one of the call chains of the code, and that no lock has two holders |
| | `UsersAreRight`, `WhoDestroysCloses`, `StreamHasOneFeeder` | `UserInv`: both properties, and that whoever is about to become `publisher_` replaces nobody who still feeds the stream |
| | `UsersFitSessions` | `RoomInv`: `StackInv`, and `Room`: the commands that threads work on (`Askers`) have room for the users they may yet make, and those that join (`Joiners`) account for the sessions that have no user yet |
| `RtmpHandshakeProof` | `HandshakeInvariant`, `HandshakeTypeTheorem`, `FramingTheorem`, `StreamTheorem` | `Inv`: which states of `RtmpHandShake` and of `RtmpContext` go together, and that an end's parsed, buffered and unread bytes in a row are what follows, in the stream that has arrived, behind the packets it has taken; `Spoke`: what an end has said in each state |
| `RtmpChunkProof` | `ChunkFraming`, `ChunkMessages` | `ChunkInv`: the cells that are buffered, on the wire and pending are whole chunks in a row (`Consists`); those of one id are what the writer still owes for the messages of this id, each chunk the next (`Stream`, `Ghosts`); the headers of the writer are those of its last message; and the reader stands at the first cell of a chunk, with the header, delta, `in_ext_` and space of its id that this chunk needs (`StandsAt`) |
| `NetworkProof` | `DescriptorsTheorem` | types, `DescriptorsAgree`, and that an object that was not opened holds nothing and is not closed, that the acceptor is never closed for good and never asks for write events, so that it may change its descriptor |
| | `StaleTheorem`, `InputTheorem` | which reports of a round may be older than the object that has their descriptor now, and that input is announced by an edge, by a report of the round, or by a handler that is still to read |
| | `LoopTypeTheorem`, `WokenTheorem` | `WakeInv`: types, and that in every state from which the loop may go to `epoll_wait` before it looks at its queue, tasks in the queue mean a poster about to write, an edge, or a full pipe |
| | `WheelInvariant`, `WheelTypeTheorem`, `IdleTheorem` | types, and that the references to an open connection are in the second wheel, the last of them in the slot that `IdleTime` ticks after its last activity reaches |
| | `PunctualTheorem`, `EarlyTheorem` | `TimerInv`: the one entry of a timer is in the slot and has the rest that lead to the tick it is due; `ElapsedInv`: how far the clock and the ticks since a timer was set may be apart |
| `PartsProof` | `BufferTypeTheorem`, `BytesTheorem`, `RefinesByteStream` | the buffer is well formed and its readable bytes are those appended and not retrieved; every step then is a put, a take or a stutter of `ByteStream` |
| | `TimeTypeTheorem`, `EvenTheorem`, `NoJumpsTheorem` | types, and what both correctors are as long as the source has not jumped: corrected and original timestamps are the same |
| | `DnsTypeTheorem`, `ResolvedStaysTheorem` | `DnsTypeOK`: the worker looks up only hosts that were added, and there is none when `stop` has returned |
| | `OnceInTimeTheorem` | `TaskInv`: a task that is set is due one interval after its start; the set holds the tasks that were added and have not run, but for the one whose callback runs |
| | `SendsInOrderTheorem` | `OrderInv`: what was sent and what waits in the queue are, in this order, the calls of `send` of the loop's thread, and with what is in the tasks of the loop behind it those of the other threads; `EventInv`: the descriptor is opened once, and what waits has an event to come |

A theorem says no more than its property.  `PunctualTheorem` is about the tick
`Expected` names, which for delays of a minute and more counts from the last full
minute, and `EarlyTheorem` only about delays below a minute.  `JoinsTheorem` leaves
out paths of three and more parts and this code's own client, whose stream has no
name; `DialogueTheorem` leaves out the result 5 that this code's publishing client
waits for; `SendsInOrderTheorem` orders the calls of each caller and not those of
different callers.

`ContextProof`, `NetworkProof` and `PartsProof` hold the proofs of several modules that share no
state; nothing in one part refers to another.

The invariants the theorems name are not inductive alone: `FramesInOrder` says
nothing of the cursor between two reads, `NothingStranded` needs to know that
`deactive()` is reached only with nothing in hand, `IdleExactly` says nothing of
the slots whose references keep a connection open, `WokenUnlessFull` speaks of a
loop that waits and not of one that is about to, `DescriptorsAgree` says nothing of
what an accepted object was before, `Punctual` says nothing of an entry between two
wheels' turns, `DialogueCompletes` says nothing of which messages are still to come
behind the one that is awaited, `MessagesIntact` nothing
of the chunks between writer and reader, `LiveService`'s `TypeOK` nothing of the
commands that have been counted and have not made their user yet, `FramingExact` speaks only of the time after the handshake, and the
bytes of a buffer are kept only if head and tail are where its type says.

`NoWaitCycle` takes the longest way.  That the locks are ordered is read off the
stacks: whoever wants the service's lock holds none, whoever wants a session's holds
at most the service's, and whoever wants a loop's is past both.  So `StackInv` has
to know what the stacks of loops and of the timer can look like (`LoopStack`,
`TimerStack`), and that a step leaves them so although it may put a callee's steps
in front (`forceClose` on the own thread, `clear`, `setPublisher`).

The assumptions are those of the modules: sizes are positive, `None` and
`NotAdded` are none of the values they stand beside, the loops of `LiveService` are
finitely many (somebody has to be the first of those that wait), the intervals of
tasks and the windows of `RtmpCommands` are natural numbers, an RTMP URL has a
path, and in `RtmpChunk` ids are those a basic header can hold, only control messages
set the chunk size, and the writer's chunks are no smaller than the reader's first
(128 and 4096 in the code).  `StreamTheorem` has one more: `write()` never answers
`EAGAIN`, after which the code sends a stray byte (section 6).  The run of
`RtmpHandshake` assumes the same.

Only model-checked: everything under fairness (`KeepsServed`, `ServerFinishes`,
`PostedRuns`, `OwnerReturns`), because liveness and `ENABLED`
are out of the prover's reach; `AmfArrives`, because what the recursive operators
of `AmfCodec` compute for every input is; and the type invariants of `MCRtmp` (which
reaches the recursive operators of `AmfCodec`) and of `MCParts` (a conjunction of those
of its parts, which are proved where a proof needs them).

The proof about `RtmpChunk` goes along the reader.  A chunk that is not yet read
is known by its message and its number in it, so what is between the two ends is, for
each id, the rest of a message and whole messages behind it.  `ParseChunk` is then split
by how much of the chunk is there: nothing changes what the next round needs when it
returns for want of bytes (it has only stored what the header says once more), and when
it takes the chunk the reader stands at the next one of that id.  A header of format 3
repeats what the reader has from the header before, which is where a message of no
length and a change of `in_ext_` have to be excepted (`Ambiguous`).  `SetChunkSize`
changes the reader's chunk size in the middle of the stream: messages behind it may be
cut by the larger size only because those before it fit into one small chunk.

## 6. Where the code and its comments disagree

Four have a run that finds a violation; `PROJECT.json` quotes the lines.

1. `lssvc_eventloop.cpp:143`: a write event that comes together with a read event
   is lost (`PlayerPump_edge`).
2. `rtmp_handshake.cpp:127`: the client never finishes when S2 is not in the same
   read as S0S1 (`RtmpHandshake_late_s2`).
3. `live_session.cpp:110`: when a player leaves, the session forgets its publisher
   and keeps the player (`LiveService_forgets`).
4. `lssvc_tcpconn.cpp:51`: the destructor of a connection may run on the timer's
   thread, where the check in `onClose` ends the program (`LiveService_exits`).

The models do what the code does here too, and the properties that hold name what
these leave open:

* `live_stream.cpp:89`: the GOP at packet 0 is kept for one packet time after the
  packet was overwritten; a player that joins then starts between key frames
  (`GopsInRing` and `GapLandsOnKeyFrame` except that moment).
* `live_stream.cpp:75`: `has_meta_;` sets nothing, so metadata never counts and is
  never sent to a player that joins.
* `rtmp_playeruser.cpp:17`: a player that joins before the first key frame stays
  active without a wakeup (excepted from `ActiveMeansBusy`).
* `lssvc_tcpconn.cpp:197`: `send_len < 0` is never true for a `size_t`; after
  `EAGAIN` a byte before the message is sent.
* `lssvc_timing_wheel.cpp:92`: the wheels of hours and days never turn; `:25`: a
  delay of whole minutes is put into slot -1, where `Punctual` and `IdleExactly`
  end.  A delay of a minute or more counts from the last full minute and so may
  fire up to 59 seconds early (`Expected`).
* `codec_header.cpp:37`: a player that joins at GOP 0 is sent the newest header
  (`GivenEarly` in `LiveStream`).
* `time_corrector.cpp:11`: key frames have the type video plus key frame when the
  player's corrector sees them; it answers 0 for them (`EvenUnchanged`).
* `rtmp_context.cpp:201` and `:357`: extended timestamps are written in host order,
  and the one of a type 0 header is read and dropped (`Exact`).  `:135`: a message
  of no length with a header of type 2 or 3 is taken for one of unknown length
  (`Ambiguous`).
* `rtmp_context.cpp:1052`: a `tcUrl` of more than five parts loses the domain, and
  this code's client never sends the name of its stream, so its session is
  `<domain>/<app>/` (`JoinsAsAsked`).  `:681-685`: `sendUserCtrlMessage` overwrites
  the type (`UserCtrl`).  `sendBytesRecv` reports the bytes since the last report,
  where `rtmp_context.h:109` says the total.  `publish` is answered with `onStatus`
  only (`rtmp_context.cpp:1100`), so this code's client, which waits for a result of
  number 5 (`:1127`), never calls `onPublishPrepare`: `DialogueCompletes` asks of
  that client only what it can get, and its part `PublisherWaits` says that between
  this code's two ends result 5 is never received.  No comment or test promises the
  call, so this is a property that holds and not a run that fails.
* AMF: numbers lose their fraction, null its name, and a value of fewer than three
  bytes at the end of a message is not read (`Arrives`, `Unread`).  Long strings
  and strict arrays are misread and are outside the inputs.
* `LSSMsgBuffer::retrieveAll` never resizes, because the condition is never met,
  and `peekInt64` reads four bytes.
* `dns_service.cpp:115`: after an error of `getaddrinfo` that is not -1, `res` is
  read without having been set; `:103`: a notification that comes before the worker
  waits is lost, and `stop` takes one interval longer.
* `lssvc_taskmgr.cpp:7`: a task that adds or deletes a task waits for itself.
* `lssvc_udp_socket.cpp:99`: an empty datagram in the queue is sent for ever.
* `lssvc_eventloop.cpp:167`: `enqueueTask` carries out at once what the loop's own
  thread asks for, so a `send` from a callback overtakes the earlier calls of other
  threads that wait in `tasks_`.  `SendsInOrder` promises an order among the calls of
  the loop's thread, and among those of the other threads, and none between the two.

## 7. What is not modelled

* Configuration, logging and files, addresses, socket options, strings and time:
  wrappers of system calls, and text read once by one thread.
* The pool of loop threads, which is filled once, and `LiveService::start` and
  `stop`, which wire servers and loops together.
* Of RTMP: the limit of the buffer of built headers (`RTMP_BUFFER_SIZE`,
  `rtmp_context.cpp:388`), digests, and the commands the code only declares.  Of
  AMF: strict arrays, long strings, `dump`.
* The lifetime of C++ objects, but for connections in `LiveService`: tasks that
  hold a raw `this` or a reference to a buffer run on objects that are there
  (`lssvc_tcpconn.cpp:72`), and a `TcpClient` is closed before it is dropped.
* Of callbacks, that those of `accept` and of a close (`close_cb_`) call back into
  the loop: these run in the middle of a handler, and nothing in the repository sends,
  connects or closes another connection there.
* Calls that would not return: a repeated timer of more than 30 days
  (`lssvc_timing_wheel.cpp:72`), tasks of the task manager that call it, empty
  datagrams.
* A second `play` or `publish` on one connection overwrites the user's context and
  leaves the first user in the session (`live_service.cpp:133`).  `LiveService`
  has it, but `NoWaitCycle` and `OneFeeder` except it as `Reused`.
* That `onTimer` may erase a session between `createSession` and `addPlayer`: the
  interleaving is in `LiveService`, and the user is then in a session that nobody
  can find; no property forbids it.
