# A formal model of MAIXII's RTSP server

The program streams a camera of an Allwinner board over RTSP.  Its own code is
three test programs (`src/test_*.c`), an RTSP server library
(`src/tool/rtspserver/src`: an event loop in `net/`, the protocol in `xop/`,
the C interface in `librtsp.c`) and an AVI library (`src/tool/avilib`).
`include/`, `lib/` and `awlib/` are the vendor's SDK.

Everything that is hard here is in the RTSP server: an application thread
pushes frames and starts and stops the server while loop threads accept, read,
write and close connections, and the two meet in a ring buffer of closures, in
maps keyed by reused file descriptors, and in raw pointers whose lifetime the
order of those closures decides.  The modules below model that part,
then the library's own client (the pusher), the parser that its connections feed,
and the AVI library, whose index arithmetic is the other thing here that a test
hardly reaches.

## 1. Inventory

`net/` and `xop/` are short for `src/tool/rtspserver/src/net/` and `.../xop/`.

| Component | State | Operations | What makes it correct |
|---|---|---|---|
| Task scheduler (`net/TaskScheduler`, `RingBuffer.h`, `Pipe`, `EpollTaskScheduler`) | ring of trigger events and its atomic counter, `mutex_` of the posters, `is_shutdown_`, wakeup pipe | `AddTriggerEvent` (any thread), `Start`, `Stop`, `HandleTriggerEvent`, `HandleEvent`, `Wake` | a FIFO: nothing counted is lost, doubled or overtaken; slots are not raced for; the loop never sleeps on work; `Stop` ends it |
| Timers (`net/Timer`) | `timers_`, `events_`, ids, `mutex_` held during callbacks | `AddTimer`, `RemoveTimer`, `HandleTimerEvent`, `GetTimeRemaining` | both maps agree; a removed timer is silent; a pass ends; no call is early, none is slept past |
| Connections (`net/TcpConnection`, `TcpServer`, `Acceptor`, `Channel`) | `connections_` by descriptor, `channels_`, `is_closed_`, `write_buffer_`, `mutex_` of each connection | `OnAccept`, `HandleRead/Write/Close/Error`, `Send`, `Close`, `Disconnect`, `RemoveConnection`, `Start`, `Stop` | no channel in a batch of epoll events is destroyed; a removal by descriptor hits its own connection; nothing leaks; `Stop` returns |
| Event loop pool (`net/EventLoop`) | schedulers, threads, round robin index, `mutex_` | constructor, `GetTaskScheduler`, `Quit`; calls forwarded to the first scheduler | the index is in range; schedulers outlive their threads; `Quit` returns |
| Sessions (`xop/RtspServer`, `MediaSession`) | `media_sessions_`, `rtsp_suffix_map_`, `clients_` by descriptor | `AddSession`, `RemoveSession`, `LookMediaSession`, `AddClient`, `RemoveClient`, `PushFrame` | suffixes resolve; who described a session is its client; leavers leave no trace |
| RTSP/RTP connections (`xop/RtspConnection`, `RtpConnection`) | `session_id_`, `rtp_conn_`, transport and play state, `is_closed_`, `rtpfd_`, `rtcpfd_` | request handlers, `OnClose`, `SendRtpPacket`, `Teardown`, destructors | a packet never runs on a destroyed `RtpConnection`; a closed connection and its sockets are freed; a destructor closes nobody else's socket |
| RTSP pusher (`xop/RtspPusher`, the pusher's side of `RtspConnection`) | `rtsp_conn_`, `media_session_`, `mutex_`; of each connection `method_`, the channels set up, `conn_state_` | `AddSession`, `RemoveSession`, `OpenUrl` with timeout, `Close`, `PushFrame`; OPTIONS, ANNOUNCE, SETUP, RECORD | success means that the server has accepted each request; a connection given up is closed |
| Messages and buffers (`xop/RtspMessage`, `net/BufferReader`, `BufferWriter`) | parser state kept over reads; read and write positions; a bounded list of packets | `ParseRequest`, `ParseResponse`, `Read`, `Retrieve`, `Append`, `Send` | an answer is to one request, under its CSeq, however the bytes arrive; who waits for answers gets them |
| Media sources (`xop/*Source`, `H264Parser`) | none but the RTP header's sequence number | `HandleFrame` | fragments cover the frame, with one start and one end |
| `librtsp.c`, `test_venc_rtsp.c` | one frame buffer and a flag, a client counter | encoder thread, frame thread, callbacks | a frame is copied whole |
| AVI writer (`tool/avilib/writer`) | length of the file, RIFF sizes, old, standard and super indexes, `m_currBaseOff`, `m_reservedFrames` | `open`, `write_data`, `close`, destructor | RIFFs cover the file and keep their limit; every index entry points at its chunk |
| AVI reader (`tool/avilib/reader`) | frames of each stream, the stream's failbit, `m_useMovieOffset` | `open`, `read_frame` | every frame written is found and read back whole, in any order |
| Rest (digest authentication, memory pool, sockets, log, `SelectTaskScheduler`, other test programs) | | | not modelled, see section 7 |

How they interact.  `TcpServer` owns the connections and its `Acceptor` asks
`EventLoop` for the scheduler of each.  A scheduler calls `Channel` handlers,
trigger events and timers one after the other on its thread.  A connection that
closes removes its channel at once and posts `RemoveConnection(fd)` to its own
scheduler; only that event drops the reference in `connections_`.  `Stop` posts
`Close` for each connection and polls.  `PushFrame`, on the application's thread,
walks `clients_` under the session's mutex and posts a packet to each client's
scheduler, where it is written to the socket.

The pusher is the reverse: the application's thread makes the connection, posts the
closure that sends OPTIONS to the first scheduler of the pool, whichever the
connection has, polls for `IsRecord` and posts `Disconnect` to the connection's own;
each answer that arrives on the loop thread sends the next request.

## 2. Plan

The core first: what every other part relies on.  Done are steps 1 to 12 and 14.

1. `TriggerQueue`, `TaskScheduler`: ring, wakeup and stop; refinement proved.
2. `TimerQueue`: proved.
3. `TcpServer`: the life of a connection, on top of the bounded FIFO of 1.
4. `RtspServer`: sessions, clients and packets, on top of the life of a connection.
5. `EventLoop`: the pool and `Quit`, on top of what 1 says of one loop.
6. `EventLoop_proofs`: the safety properties of 5.
7. `RequestReader`: `BufferReader`'s positions and `RtspRequest`'s states over
   any cut of the incoming bytes; its answers, and that clients in step are served, proved.
8. `RtspPusher`: `OpenUrl`, its timeout and `Close` against the loop thread's
   closures, the ANNOUNCE, SETUP, RECORD sequence and the server that answers it;
   what success means proved.
9. `AviWriter`: `write_data`, the new RIFF and the new standard index, `close`.
10. `AviReader`: what the reader makes of a file of 9.
11. `TcpServer_proofs`, `RtspServer_proofs`: the safety invariants of 3 and 4.
12. `FrameHandoff`: the encoder's buffer and flag (`test_venc_rtsp.c:388-474`) with
    `librtsp.c`'s frame thread and client counter; whole frames.
13. In `RtspServer` multicast, key frames and the second channel.  The restart of a
    server in `TcpServer` needs durations: only the sleeps of `Stop` order it.
14. `AviReader_proofs`: the RIFF and index sums of 9, what 10 reads back.

Steps 3 and 4 use the FIFO as a sequence, with the test of `Size` and the push as
two steps where the ring can fill.  That is what 1's refinement theorem allows.

## 3. Modules

| Module | Models | Notes |
|---|---|---|
| `TriggerQueue` | what a scheduler promises | abstract: a bounded sequence and the event that runs |
| `TaskScheduler` | `AddTriggerEvent`, `RingBuffer`, `Start`, `Stop`, `Wake` | one step for each access another thread can come between |
| `TaskScheduler_proofs` | | section 6 |
| `TimerQueue` | `TimerQueue`, the loop's sleep | a clock of whole milliseconds |
| `TimerQueue_proofs` | | section 6 |
| `TcpServer` | accept, I/O, close, remove, stop | descriptors are reused; the ring fills |
| `TcpServer_proofs` | | section 6 |
| `EventLoop` | the pool, `GetTaskScheduler`, `Quit` | num_threads is chosen initially |
| `RtspServer` | sessions, requests, `PushFrame` | one loop thread, one application thread |
| `RtspServer_proofs` | | section 6 |
| `EventLoop_proofs` | | section 6 |
| `RequestReader` | `OnRead`, `ParseRequest` and its parts, `HandleRtcp`, `Retrieve` | bytes are half lines; the stream is a constant |
| `RequestReader_proofs` | | section 6 |
| `RtspPusher` | the pusher's thread, its closures, the client on the loop | the server is external |
| `RtspPusher_proofs` | | section 6 |
| `AviWriter` | `open`, `write_data`, `close`, the destructor | positions and sizes in bytes |
| `AviReader` | `open`, `read_frame`, over a file of `AviWriter` | composes the two |
| `AviReader_proofs` | | section 6, of both |
| `FrameHandoff` | the encoder's thread, `test_GetFrame`, `SendFrameThread` | every access to `itestBuffer` a step |
| `MC*` | small instances for TLC | `MCRequestReader` also builds its streams |

**TaskScheduler.**  `PostRefused/PostAdmitted` are the unlocked test of `Size`,
`PushRoom/PushFull` the lock and `PushData`'s own test, `PushSlot` and `PushCount`
the slot and `num_datas_`, `PostWrite` the wakeup byte and the unlock.
On the loop's side `PopTest`, `PopTake`, `PopCount`, `CallbackReturns`, `SizeTest`
are `HandleTriggerEvent`, `TimersHandled` is `HandleTimerEvent` with
`GetTimeRemaining`, `WaitWakeup/WaitExpires/WaitChannel` are `epoll_wait`.
The loop thread may post from its own callbacks.  `StopFlag`, `StopWrite` are
`Stop`.  `dropped` is a history variable.

**TimerQueue.**  `events_` is the set of its keys, which `std::map` orders
(`IsFirst`).  A delay of 0 gives an interval of 1 but keeps the key of the delay
asked for, as in `Timer`'s constructor.  `asked`, `called`, `pass` and `unnoticed`
(the timers added since the loop thread fell asleep) are history.

**TcpServer.**  A connection is an id that is alive while something holds a
`shared_ptr` to it (`Alive`); its descriptor is free again when nothing does.
`Close` is one operator used by every handler; what comes after it
(`PostTest`, `PostPush`) is a step of its own because another thread can fill
the ring in between.  `same_thread` says whether the accepting loop is the
connection's loop (one loop thread, the default of `librtsp.c`) or not.

**EventLoop.**  `Call` is `GetTaskScheduler`, one step that needs `mutex_`; the
calls that are forwarded to the first scheduler take the mutex likewise, change nothing
of the pool and are not steps here.  `Enter` and
`CallFromLoop` are a callback that is about to call and waits, which is where
`Quit` and the loop can block each other.

**RtspServer.**  The requests are one step each (they run on the loop thread and
do not block), `PushFrame` is `PushFrame`, `CountClients`, `Gather`, then
`SendLock` and `SendPost` for each client, as each of them releases a mutex.
`RunPacket` is the closure.  `switched` and `shadowed` are history variables.
Descriptors are the kernel's: `owner` says whose socket has the number, the rest of the
process may have some from the start (`Elsewhere`), and closing frees a number whosever
it is by then (`CloseFds`).  `SetupTcp` leaves the connection's own number in `rtpfd_`
and `rtcpfd_`, `SetupUdp` those of two new sockets, `SetupUdpFails` those of sockets that
were closed again.  `Destroy` is `~TcpConnection` with `~RtpConnection`, on whichever thread
drops the last reference (`RunRemove`, `SendPost`).  `Release` and `CloseRtcp` are
`~RtpConnection` where `PushFrame`'s list has the last reference: two calls of `close`
between which the loop thread may accept.  `astray`, a history variable, are the
numbers that are free while a living `RtpConnection` has them.

**RequestReader.**  What a client sends is a stream of pieces, two for each line
(a read may end inside one, where no CRLF is found) and three for an RTCP packet,
whose payload is payload only as long as `HandleRtcp` takes it out; a packet is
`wide` where the byte that tells its size is taken for a negative number.  `Read`
is one read event: everything up to some piece has come, `from` is
`reader_index_`, and one of `ReadPacket`, `ParseRequestLine`, `ParseMoreHeaders` is
what `HandleRtspRequest` makes of it.  `method`, `of`, `cseq`, `auth` are what the
parser holds between reads, `handled` are the calls of the handlers with what
they use of it.  `waits` is a client that sends only after the answer.
`Retrieve` clears more than a message's length of leftover bytes.

**RtspPusher.**  `OpenUrl` is three steps, because it takes long and the loop runs
meanwhile: `OpenBegins` gives up the connection there was, `OpenConnects` makes
one and posts `RunOptions`, `OpenReturns` or `OpenTimesOut` ends it.  `RunOptions`
uses `rtsp_conn_` as it is when it runs; `RunOptionsLate` is the run that finds it
null or the pusher destroyed, after which the model says nothing (`crashed`).
A `Read` brings some whole responses and may bring a part of one; `OkFound` says
which verdicts `ParseResponse` can come to.  `refused`, `ragged`, `doubled` are
history variables.

**AviWriter, AviReader.**  `WriteData` is one step: the RIFF that ends and the one
that begins, the index entry, the chunk.  A standard index is its `qwBaseOffset`
and its entries; `CloseFile` fixes where `close` writes them.  `ReadFrame` is one
call of `read_frame`: by its position, else relative to the first "movi" list, with
the stream's failbit and `m_useMovieOffset` kept from call to call.  `TagAt` says
where eight bytes of the file look like a chunk's header.

**FrameHandoff.**  `main` is where `test_venc_GetFrame` is and `sender` where
`SendFrameThread` is, `test_GetFrame` included; each `Store` and `Load` is one access.
A `memcpy` is two of them.  Both threads run on their own, and the server's callbacks
count clients.

## 4. Runs

| Run | Instance | What it shows |
|---|---|---|
| `ts` | an outside thread and the loop's own callbacks post, 3 posts each, ring of 2, pipe of 2 bytes | types, `SlotHandover`, `NoLostWakeup`, `StopIsSeen`, that events are dropped only with rivals, the refinement of `TriggerQueue`, `EventsRun`, `StopEndsLoop` |
| `timers` | delays 0 to 3 where the largest int is 2; 2 timers; clock to 5; other threads call too | types, `EventsCoverTimers`, `StaleOnlyFromZero`, `OncePerPass`, `TimersFire` |
| `tcp_safety` | 3 connections over 2 descriptors, ring of 2, both placements of the accepting thread | the lifetime and removal invariants, `StopIsServed`, `NoStalledWrite` |
| `tcp_live` | 2 connections, room in the ring, one loop thread | `NothingLeaks`, `StopReturns` |
| `loop` | pools of 1 to 4 threads | all of `EventLoop`'s properties |
| `rtsp_safety` | 2 connections, 1 frame, 1 SETUP over UDP; 2 suffixes and 2 sessions on one descriptor, or 1 session on three | all of `RtspServer`'s invariants |
| `rtsp_race` | 1 connection, 1 session, 1 frame | a counterexample, below |
| `requests` | every stream of three messages of eight kinds, every cut, clients that wait or not | `AnswersMatch`, `ServedInStep` |
| `pusher` | 2 channels, 2 connections, one scheduler or two | `PushingIsAccepted`, `GivenUpIsClosed` |
| `avi_files` | 5 chunks of length 0, 8 or 64, one or two streams, with and without OpenDML and `setFrameCount` | `RiffsAreSound`, `EntriesPointAtChunks`, `ReadsBack` |
| `avi_offsets` | chunks of one length, two streams | a counterexample, below |
| `handoff` | one client, two frames | a counterexample, below |

Why these bounds.  A ring of two slots fills, wraps and drains within a handful
of posts, and a pipe of two bytes fills; a third poster would add no new kind of
contention for one mutex.  Two descriptors for three connections give a reused
descriptor beside a live one.  Two timers give ties, out of order due times and a
stale event beside a live one (the safety properties are proved for any number), and a
delay of 3 over a largest int of 2 gives the negative timeout of a delay of 2^31 ms.  A pool of four makes the index pass over several
schedulers and wrap (with two it never moves).  In `rtsp_safety` the second
connection gets the descriptor of the first, which is when entries of `clients_`
can be taken for another's and `~RtpConnection` can close another's socket; two sessions
under two suffixes are needed to
describe a second one; three descriptors let a connection have both sockets of a UDP
channel beside its own, and another come with a number that one of them had.
The rest of the process has all descriptors but one, or none (`AllOrOne`), and `MaxLoad`
keeps the two shapes apart, as both at once are too many states.  The data races of the ring with more threads and slots
are covered by the proofs.  In `tcp_live` the ring has two slots for each descriptor,
which is what `NothingLeaks` needs and is proved to be enough.  Three messages give one that is being read, one whose
lines are taken with it and one behind both; the kinds differ in what a handler
needs, in where CSeq and credentials stand, and in the text that `strstr` and
`sscanf` stop at.  A pusher's leftover closure can reach the connection after its
own, and nothing reaches further than that.  Constants of the AVI
run shrink the sizes of the format and keep their order: three entries close a
standard index, a few chunks fill a RIFF, later RIFFs are smaller than the first, and a
`Dword` of 400 is passed by the last chunks.  `avi_offsets` is the same with a
`Dword` that is never reached.

Deadlock is checked in the runs of `TimerQueue` and `TcpServer`.  It is off where
the system may really stop: the loop has ended after `Stop` or sleeps with nothing left to post
(`TaskScheduler`), `Quit` has returned, or hangs with the callback it waits for
(`EventLoop`, see below), the bounded number of sessions, connections and frames
is used up with nothing queued (`RtspServer`), the stream has been read or the
connection closed (`RequestReader`), the encoder delivers no more (`FrameHandoff`), the pusher is gone or has crashed
(`RtspPusher`), the file is written and cannot be opened, or the writer aborted
(`AviReader`).

**Finding (`rtsp_race`).**  `SenderIsAlive` says that a packet never runs after
its `RtpConnection` is destroyed.  It does not hold: `SendRtpPacket` captures
`this` (`xop/RtpConnection.cpp:249`) and `PushFrame` may post the packet behind
the connection's `RemoveConnection`.  `librtsp.c:105` calls the interface
thread safe.  `FifoProtectsPackets` states what does hold: a packet posted while
the connection was open is safe.

**Finding (`avi_offsets`).**  `OffsetsAreRelative` says what the comment at
`tool/avilib/writer.cpp:444` says: the offsets in a standard index are relative to
its `qwBaseOffset`.  They are computed against `m_currBaseOff` (`:453`), of which
there is one for all streams, and which a new index of any stream moves (`:448`).
With two streams the entries behind that point elsewhere.
`EntriesPointAtChunks` states what does hold: an entry is right unless the base
was moved by the other stream or the distance does not fit a `DWORD`.

**Finding (`handoff`).**  `FramesAreWhole` says what the comment at
`librtsp.c:94` says of a round of `SendFrameThread`: it gets one frame and packages it.
`test_GetFrame` clears `bUpdate` (`test_venc_rtsp.c:471`) before the frame is copied
(`librtsp.c:103`), and the encoder's thread writes the next frame without looking at
the flag, so that an `AVFrame` may have the beginning, the rest, the length and the
type of two frames.  No delay is needed: while no client is there `bUpdate` stays set,
and the first one to come may do so in the middle of the encoder's `memcpy`.

**Also seen.**  Some things that no document denies in so many words, so that no
run of their own shows them.
`~RtpConnection` can close another connection's socket.  Over TCP `rtpfd_` and
`rtcpfd_` are the RTSP socket (`RtpConnection.cpp:64-65`), which `~TcpConnection` closes
too.  If `PushFrame` has gathered the client, the connection closes, its
`RemoveConnection` runs and a new connection is accepted on the number, then `PushFrame`'s
list drops the last reference and the destructor (`:32-43`) closes the new connection's
socket on the application's thread.  `SocketIsKept` without its exception fails by
that in 13 steps.  A SETUP over UDP that fails ten times to bind leaves the numbers
of closed sockets behind (`:97`, `:103-104`), with the same end.  A second SETUP loses the
sockets of the first, which stay open; `ClosedIsFreed` speaks of the numbers that
`rtpfd_` and `rtcpfd_` still have.
Of the AVI library: a writer that is closed and then destroyed ends the program at an assertion
(`writer.cpp:265`, the step `DestroyClosed`); a reservation that is an exact
multiple of an index's entries gives a file that cannot be opened, because an index
is closed one entry before it is full (`AllFramesAreFound` names the bound); and a
short frame near the end of a file is read as empty, because the try relative to
"movi" leaves the file (`FramesReadBack` names it).

**What the weaker-looking properties say.**
`DropsHaveRivals`, `StaleOnlyFromSwitch`, `DescribedIsClient`, `SocketIsKept`,
`QuitReturns`, `StopReturns`, `StaleOnlyFromZero`, `TimersFire` each name the exception the code makes, and
show that it is the only one:
a true answer for a dropped event needs a second poster;
an entry left in `clients_` needs a second DESCRIBE on one connection;
a socket is closed under an open connection only if its number was free while an
`RtpConnection` had it, which takes a client over TCP that `PushFrame` holds longer than its
connection lives, or a SETUP over UDP that failed;
`Quit` hangs only on a loop callback that waits for its mutex or on a `Start` that
came after its `Stop`;
`Stop` waits only for a connection accepted behind its visit;
a removed timer fires only if its delay was 0;
a due timer is slept past only if another thread added it during that sleep, or no int
holds its delay.
`ServedInStep` is about a client that sends one message at a time, in however many
pieces, and no request that lacks the header it needs: what comes together with
another message, or behind a request that was answered before its end had come, may
be taken for the header of that one, wait for more bytes or close the connection.
`PushingIsAccepted` has two exceptions: a response that a read cuts is answered like
a whole one, so that RECORD may go out early and success be reported on the
strength of another answer; and an `OpenUrl` that gave up leaves a closure which may
send OPTIONS on the next connection.
`EntriesPointAtChunks`, `AllFramesAreFound` and `FramesReadBack` name the bases that
move, the indexes that overflow and the frames near the end.  `Sound` excludes a frame of
2^31 bytes or more, whose length open masks (`reader.cpp:312`, `TooLong`); the run has none.

## 5. Fairness

* `TaskScheduler`: weak fairness of each poster's steps once it has called, of
  `Stop` once begun and of the loop thread: the threads are scheduled.  Nobody
  has to post, to stop the loop, or to make another channel ready.
* `TimerQueue`: time passes and the loop thread runs.  `WakeUp` is not fair:
  no descriptor need ever become ready.
* `TcpServer`: the three threads run; strong fairness of each 100 ms timer, as
  the loop runs every expired timer before it waits again, and the model, which
  has no clock there, could always go to `epoll_wait` first.  Peers are not fair: they may never
  read, write or hang up.
* `EventLoop`: `Quit` and the loop threads run; nobody has to call.
* `RtspPusher`: the loop threads run the closures that are queued, which is
  `TriggerQueue`'s promise (`EventsRun`).  Neither the application nor the server
  is fair: the one need never call again, the other never answer.
* `RequestReader`, `AviWriter`, `AviReader`, `RtspServer`, `FrameHandoff` have safety
  properties only.

## 6. Proofs

`TaskScheduler_proofs` proves, for any capacity of the ring, any set of posting
threads (the loop thread among them or not) and any pipe, assuming only
`ConstantsAssumption`:

* `TypeCorrect`, `SlotsAreHandedOver`, `WakeupIsNotLost`, `StopIsNotMissed`.
  The invariants are not inductive.  `IInv` adds that `mutex_` belongs to the
  one thread in its critical section (`MutexInv`), that the slots from `get_pos_`
  on are full exactly as far as `num_datas_` says, corrected by the push or the
  pop in progress (`RingInv`), that a counted event has an owner (`PostInv`), what
  the loop holds outside the ring (`LoopInv`) and `StopInv`.  `RingStep`, the
  preservation of `RingInv`, carries the argument: positions wrap, and the
  counter is what keeps `put_pos_` off full slots.
* `DropsNeedRivals`: a lone poster's test of `Size` vouches for its push.
* `Refinement`: `Spec` implies `TriggerQueue`'s `Spec` under the mapping that reads
  the queue off the slots.  Every step is a post (`PushCount`), a take
  (`PopTake`), a finish (`CallbackReturns`) or a stutter; `PushedInv` adds that
  an event written and not yet counted is in the slot its counting will add.

`TimerQueue_proofs` proves, for any delays, number of timers and clock, with other
threads or without, assuming only `TimerAssumption`: `TypeCorrect`,
`EventsAreKept`, `RemovalIsComplete`, `PassesAreFinite` and the action property
`CallsAreNotEarly` (no timer is first called before its delay has passed).  `IInv` adds that a registered timer with a delay has its event
under the key `RemoveTimer` computes (`KeyInv`), that intervals are at least 1
(`IntervalInv`), hence a timer put back in a pass is not due in it (`PassInv`), and that
a timer not called yet has its first event (`FirstInv`).

`EventLoop_proofs` proves, for pools of any size and any callers, assuming only
`LoopAssumption`: `TypeCorrect`, `AtIsInRange`, `NothingIsClearedUnderALoop` and
`QuitTellsWhatItJoins`.  `IInv` adds who holds the mutex and when the vector is
emptied (`QuitInv`) and how far `Quit` has come: what it passed is told to end, or
has ended, or was told too early (`ProgressInv`).

`TcpServer_proofs` proves, for any descriptors, number of connections, capacity of the
ring and bound of `write_buffer_`, with the accepting thread on the loop or beside it,
assuming only `TcpAssumption`: `TypeCorrect`, `BatchesAreAlive`, `RemovalsHitTheirOwn`,
`ClosedAreRemoved`, `StopsAreServed` and `WritesAreFollowedUp`; and `NothingIsLeftBehind`,
below.  None of the invariants is inductive alone.  `IInv` adds that an open connection is in `channels_` and in
`connections_` under its descriptor, or about to be put there, so that a descriptor the
kernel gives again is in neither (`ConnInv`); that who closes before its callback is set
counts as leaked (`WatchInv`); that between two batches nothing is left to serve, which is
when connections are destroyed (`LoopInv`); that what is closing is in `connections_` and
has no removal yet (`RemovalInv`); and where `Stop` is (`StopInv`).  The argument for
`RemovalsHitTheirOwn` is that the descriptor stays taken until its removal runs, and
`is_closed_` lets one removal be posted.
`NothingIsLeftBehind` proves `NothingLeaks` under `OneThreadAndRoom`, a hypothesis on
the constants: `OnAccept` runs on the loop thread, as with a pool of one, and the ring has room
for two events of each descriptor, so that `kMaxTriggetEvents` of 50000 is enough for a
process of 25000.  `tcp_live` is an instance of it; `tcp_safety` is not, and there connections
do get into `leaked` and `unposted`.  The invariant `RoomInv` adds that every connection has its
callback when something of it can run (`WatchedInv`), that connections something
still refers to have descriptors of their own, with one `Close` and one removal at most in
the ring (`DistinctInv`), and that `Stop` posts to each it visits once (`CallInv`).
Hence what is in the ring maps one to one into the pairs of a kind and a descriptor
(`QueueFits`), and a push finds room.  The ring of the model has this server's events
only: what other users of the loop post takes room of its own.

`RtspServer_proofs` proves, for any number of sessions, connections and descriptors,
assuming only `RtspAssumption`: `TypeCorrect`, `TablesAgree`, `PacketsAreProtected`,
`LeftoversAreSwitched`, `DescribersAreClients`, `ClosedAreFreed` and `SocketsAreKept`.
`IInv` adds that an open connection is the one in `connections_` under its descriptor (`ConnInv`), that a
removal is queued exactly for the closed connections that are still there, once, and
behind every packet that was posted while the connection was open (`QueueInv`), and that
an entry of a registered session's `clients_` is of a connection that described it last
and is open, or of one that switched (`ClientInv`).  For the sockets it adds who is
to close which number (`Claims`): a connection that lives its own, an `RtpConnection` that
lives its two, and one in the middle of its destructor the second of them.  `SocketInv`
says that every open socket has its claimant, unless the number was overwritten, and
that every claimed number is open for the claimant, unless it went astray; so two
claim the same number only if it went astray.  A connection that is accepted gets a number
that nobody claims or that went astray (`AcceptedSocket`), SETUP keeps that (`SetupSocket`), and a
destructor closes what it claims, hence nobody else's (`Closing`, `Destroyed`,
`ReleaseStep`, `CloseRtcpStep`).  `SocketInv` was checked as an invariant with
`MCRtspServer_safety.cfg` first.  The FIFO order of the scheduler is
what carries `PacketsAreProtected`; `SenderIsAlive`, which says the same of packets posted
to closed connections, is the property that `MCRtspServer_race.cfg` refutes.

`RequestReader_proofs` proves, for any set of well-formed streams (`WellFormed`: a
request is its line and behind it, among others, a CSeq of its own) of any length
and any cut of them into reads, assuming only `ReaderAssumption`: `TypeCorrect`,
`AnswersAreTheirOwn` and, with `FramingAssumption`, `ServedOneByOne`.  `IInv` adds that the parser is at a line with no CSeq
held, or past the line of the request it holds with nothing behind that line retrieved
as long as its CSeq is missing (`ParserInv`), and that what was handled lies before
the read position (`HandledInv`).  The argument is that the first CSeq behind a request
line is that request's own, wherever the reads end (`CSeqIsOwn`), although the
lines up to the last CRLF in the buffer are searched.
`ServedOneByOne` proves `ServedInStep`.  `FramingAssumption` says what a whole message is: one
line of two pieces after the other and a blank line at the end, or a packet and its payload.
`StepInv` says where the parser is while the client has been in step: between two messages with an
empty buffer (`AtRest`), at half a request line (`AtLine`), or in the headers of the
request whose line is at `l` (`Within(l)`), where what was retrieved ends with a line and had
not the header that the method waits for, the CSeq is missing only if nothing but the
line was retrieved, and half a line at most is in the buffer.  The four ways out of
`ParseHeadersLine` are a lemma each (`HeadersInStep`): what was missing lies in what is still
to be read (`NotFound`, `LastHalf`), so the read that brings the blank line hands the request
on, and a refusal needs a CSeq behind another header.  `StepInv` was checked as an
invariant with `MCRequestReader.cfg` first.

`RtspPusher_proofs` proves, for any number of connections, assuming only
`PusherAssumption`: `PushersAreAccepted`.  `IInv` adds that `method_` of an open
connection tells how many requests were sent and channels set up (`AskedInTurn`), and
that one request at a time is unanswered as long as no read was cut and OPTIONS not
repeated (`OneUnderWay`).

`AviReader_proofs` proves of the writer and the reader together, for one stream or two,
any number of chunks of any lengths and any sizes of the format, assuming only
`AviAssumption`: `TypeCorrect`, `EntriesAreRight`, `FramesAreReadBack` and, where
`SizesFit`, `FileIsSound`.  `IInv` adds that chunks follow each other in the file
(`LayoutInv`) and are listed by the old index in their order (`OldInv`), that the k-th
entry of a stream is of its k-th chunk (`NthInv`, `EntryInv`), that every index but a
stream's last is as full as it gets, which is what bounds their number (`FullInv`), and
that `m_currBaseOff` is the largest base of all streams (`BaseInv`).  Hence an index that has not
that base shares it with the other stream, which is the exception that
`EntriesPointAtChunks` names.  Of the RIFFs it adds that those behind the writer meet and
hold their chunks (`FinishedInv`, `CoveredInv`) and what `m_RIFF_size` counts of the
one in progress (`CurrentInv`), of the reader that a wrong guess of the base or a failed stream
is never met in a sound file, except as `ReadsBack` says (`ReaderInv`).
`SizesFit` is a hypothesis on the constants: a RIFF at its limit, one more chunk and what
`close` appends (40 bytes for each chunk at most) are less than `Dword`.  With the sizes of
the code, limits of 10^9 and 4 * 10^9 bytes and a `Dword` of 2^32, that is so as long as the
largest chunk and 40 bytes for each chunk stay below 294 MB, some seven million chunks; behind
that a size may wrap.  `avi_files` has a smaller `Dword`, so that offsets wrap there, and
does not meet `SizesFit`; `IInv` was checked as an invariant with that `Dword` and with
one of 1000, which does.

The modules share nothing that is assumed: the only `ASSUME`s are those of
the constants, which TLC evaluates in the runs.

Only model-checked: the liveness properties (the proof system does not reason
about fairness).  Only proved: `JoinedIsStopped` of
`EventLoop` and `FirstCallNotEarly` of `TimerQueue`.

## 7. What is not modelled

* Memory orders weaker than sequential consistency.  `num_datas_` is a
  `std::atomic<int>` used with the default order, `is_shutdown_` is an atomic
  too, and `put_pos_` and `get_pos_` belong to one side each.
* Text: SDP, URLs, digests and what responses say; in `RtspServer` a request is a
  step with the outcome it can have, in `RequestReader` a line is a piece of a kind.
* Failures of `epoll_create`, `pipe`, `epoll_ctl` and allocation.
* Multicast, the second channel and frame types in `RtspServer`; a second
  `Start` of a stopped server.
* In `RtspServer`, what is behind a socket that another closed: the loop gets no more
  requests from it, an accept on a number that `connections_` still has is refused and
  leaves no trace, and data on a reused number is nobody's.  The channel of the RTCP
  socket is registered with the bare number and is not modelled either.  With one loop
  thread an accept and a destructor on that thread do not overlap; with several they
  would, as `~RtpConnection` in `PushFrame` does here.
* Of the pusher: a full ring, which drops its closures as it drops any event; a
  response that comes before any request; `PushFrame`, which hands the frame to
  `MediaSession`; and the race on `method_` between the thread that sends OPTIONS
  and the connection's loop thread, where the pool has more than one.
* Of the camera program: its hardware calls, and `RTSP_Stop`, which it never reaches.
  `FrameHandoff` only shows what goes wrong: with no lock and no test of the flag by
  the writer there is no ordering between the two threads to state instead.
* Of the AVI library: header fields that the reader does not use (`m_totalFrames`
  counts the chunks of all streams), files that `AviWriter` has not written, write errors.
* The components that `PROJECT.json` lists as not modelled: those planned in
  section 2, wrappers of system calls, the Windows scheduler, the memory pool (no
  caller in the server), hash functions, packetisation and the straight-line
  test programs.

## 8. Running

    tlc -config MCTaskScheduler.cfg MCTaskScheduler
    tlapm TaskScheduler_proofs.tla

and likewise for the other `MC*` and `*_proofs` modules.  Definitions that begin
with the comment "Mutant:" are alternatives of the definition they precede, each with
one mistake: put in its place, a run must fail.
