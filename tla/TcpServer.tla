------------------------------ MODULE TcpServer ------------------------------
(***************************************************************************)
(* The life of a server connection, from accept to the close of its        *)
(* descriptor: TcpServer (connections_), Acceptor, TcpConnection, and the  *)
(* part of EpollTaskScheduler and Channel that calls them.  Three threads: *)
(* the one that accepts, the loop that serves the connections, and the     *)
(* application's, which calls TcpServer::Stop.  With the default of one    *)
(* loop thread (same_thread) the first two are one.                        *)
(*                                                                         *)
(* The scheduler is the bounded FIFO that TaskScheduler implements, with   *)
(* its Size test and its push as two steps, and its wakeups taken as seen. *)
(* A TcpConnection is an id; it is destroyed, and its descriptor closed,   *)
(* when nothing holds a shared_ptr to it any more (Alive).  A packet in    *)
(* write_buffer_ is a count.                                               *)
(***************************************************************************)
EXTENDS Integers, Sequences, FiniteSets

CONSTANTS Fds,          \* the descriptors the kernel gives to accept
          None,
          Placements,   \* the values of same_thread to look at
          Capacity,     \* kMaxTriggetEvents
          MaxQueue,     \* the bound of write_buffer_ (max_queue_length_)
          MaxConns      \* bound: connections accepted

ASSUME TcpAssumption == /\ None \notin Fds /\ 0 \notin Fds
                        /\ Placements \subseteq BOOLEAN
                        /\ Capacity \in Nat \ {0}
                        /\ MaxQueue \in Nat \ {0}
                        /\ MaxConns \in Nat

Conns == 1 .. MaxConns
NoConn == 0

VARIABLES
    same_thread,  \* the thread that accepts is the connections' loop
    accepted,     \* connections made so far: their ids are 1 .. accepted
    fd,           \* fd[c]: the descriptor c was made for
    closed,       \* closed[c]: is_closed_
    watched,      \* connections whose disconnect_cb_ is set
    buffered,     \* buffered[c]: packets in write_buffer_
    writing,      \* writing[c]: its channel waits for EVENT_OUT
    connections,  \* connections_: descriptor -> connection
    channels,     \* channels_, and what epoll watches: descriptor -> channel
    queue,        \* trigger_events_: closures, by what they call
    timers,       \* descriptors a 100 ms timer will remove
    listening,    \* the acceptor's channel is registered
    acc,          \* the accepting thread, in OnAccept
    lpc,          \* the loop thread
    batch,        \* channels epoll_wait reported, still to be served
    cur,          \* the channel being served
    revents,      \* the events of it still to be handled
    closing,      \* the connection whose disconnect_cb_ runs
    app,          \* the application thread
    todo,         \* connections Stop has yet to visit
    victim,       \* the connection whose mutex_ Disconnect holds
    late,         \* history: added to connections_ after Stop went over it
    unposted,     \* history: Disconnect's event was refused or dropped
    leaked        \* history: closed, and RemoveConnection never posted

connVars == <<same_thread, accepted, fd, watched>>
ioVars   == <<buffered, writing>>
loopVars == <<lpc, batch, cur, revents, closing>>
appVars  == <<app, todo, victim>>
vars == <<connVars, closed, ioVars, connections, channels, queue, timers,
          listening, acc, loopVars, appVars, late, unposted, leaked>>

\* What steps of one kind leave alone: the application's, a handler's of a
\* channel, the posting of RemoveConnection, the loop on its way, OnAccept.
appElse     == <<connVars, closed, ioVars, connections, channels, timers, acc, loopVars>>
handlerElse == <<connVars, connections, queue, timers, listening, acc, batch, cur,
                 appVars, late, unposted>>
postElse    == <<connVars, closed, ioVars, connections, channels, listening, acc,
                 batch, cur, revents, appVars, late, unposted>>
walkElse    == <<connVars, closed, ioVars, connections, channels, queue, timers,
                 listening, acc, appVars, late, unposted, leaked>>
acceptElse  == <<same_thread, closed, ioVars, queue, timers, listening, loopVars, appVars,
                 unposted, leaked>>

Init == /\ same_thread \in Placements
        /\ accepted = 0
        /\ fd = [c \in Conns |-> None]
        /\ closed = [c \in Conns |-> FALSE]
        /\ watched = {}
        /\ buffered = [c \in Conns |-> 0]
        /\ writing = [c \in Conns |-> FALSE]
        /\ connections = [f \in Fds |-> NoConn]
        /\ channels = [f \in Fds |-> NoConn]
        /\ queue = <<>> /\ timers = {}
        /\ listening = FALSE /\ acc = "idle"
        /\ lpc = "trigger" /\ batch = {} /\ cur = NoConn
        /\ revents = {} /\ closing = NoConn
        /\ app = "new" /\ todo = {} /\ victim = NoConn
        /\ late = {} /\ unposted = {} /\ leaked = {}

CloseOf(c)  == [op |-> "close", conn |-> c, fd |-> None]
RemoveOf(f) == [op |-> "remove", conn |-> NoConn, fd |-> f]
Queued(e) == \E i \in 1 .. Len(queue) : queue[i] = e

\* Who holds a shared_ptr to the connection: connections_, OnAccept's local,
\* a queued Disconnect, the thread that runs one of these closures.
Alive == {c \in 1 .. accepted :
            \/ connections[fd[c]] = c
            \/ acc # "idle" /\ c = accepted
            \/ Queued(CloseOf(c))
            \/ lpc \in {"post", "push"} /\ closing = c
            \/ victim = c}

FreeFds == Fds \ {fd[c] : c \in Alive}

\* TcpServer::mutex_ is held while Stop visits the connections.
ServerMutexFree == app \notin {"visit", "test", "push"}

\* TcpConnection::mutex_: Disconnect holds it, and so does the loop thread in
\* a Close that a handler of the channel made.
ConnMutexFree(c) == /\ victim # c
                    /\ ~(cur = c /\ lpc \in {"post", "push"})

-----------------------------------------------------------------------------
(* Acceptor::OnAccept and TcpServer's callback.                            *)

\* TcpConnection's constructor: the channel is live before anybody holds the
\* connection in connections_.
Accept(f) ==
    LET c == accepted + 1 IN
    /\ listening /\ acc = "idle"
    /\ same_thread => lpc = "channel" /\ cur = NoConn
    /\ c \in Conns /\ f \in FreeFds
    /\ accepted' = c
    /\ fd' = [fd EXCEPT ![c] = f]
    /\ channels' = [channels EXCEPT ![f] = IF @ = NoConn THEN c ELSE @]
    /\ acc' = "add"
    /\ UNCHANGED <<acceptElse, watched, connections, late>>

\* connections_.emplace keeps an entry that is there.
AddConnection ==
    /\ acc = "add" /\ ServerMutexFree
    /\ connections' =
          [connections EXCEPT ![fd[accepted]] = IF @ = NoConn THEN accepted ELSE @]
    /\ late' = IF app = "running" THEN late ELSE late \cup {accepted}
    /\ acc' = "watch"
    /\ UNCHANGED <<acceptElse, connVars, channels>>

\* Mutant: the callback is not set.
SetDisconnectCallback_NotSet ==
    /\ acc = "watch"
    /\ acc' = "idle"
    /\ UNCHANGED <<acceptElse, connVars, connections, channels, late>>

SetDisconnectCallback ==
    /\ acc = "watch"
    /\ watched' = watched \cup {accepted}
    /\ acc' = "idle"
    /\ UNCHANGED <<acceptElse, accepted, fd, connections, channels, late>>

AcceptStep == AddConnection \/ SetDisconnectCallback

-----------------------------------------------------------------------------
(* The loop thread.                                                        *)

LoopRuns == same_thread => acc = "idle"

\* Where the loop thread goes on after a Close or a write.
Resume(rest) == IF cur = NoConn THEN "trigger"
                ELSE IF "IN" \in rest THEN "return" ELSE "channel"

\* Mutant: a second Close is not stopped by is_closed_.
Close_Again(c, rest) ==
    /\ closed' = [closed EXCEPT ![c] = TRUE]
    /\ channels' = [channels EXCEPT ![fd[c]] = NoConn]
    /\ IF c \in watched THEN lpc' = "post" /\ closing' = c /\ UNCHANGED leaked
                        ELSE /\ leaked' = leaked \cup {c}
                             /\ lpc' = Resume(rest) /\ UNCHANGED closing

\* Mutant: the channel stays with the scheduler.
Close_KeepChannel(c, rest) ==
    IF closed[c] THEN lpc' = Resume(rest) /\ UNCHANGED <<closed, channels, closing, leaked>>
    ELSE /\ closed' = [closed EXCEPT ![c] = TRUE]
         /\ UNCHANGED channels
         /\ IF c \in watched THEN lpc' = "post" /\ closing' = c /\ UNCHANGED leaked
                             ELSE /\ leaked' = leaked \cup {c}
                                  /\ lpc' = Resume(rest) /\ UNCHANGED closing

\* TcpConnection::Close: RemoveChannel, then disconnect_cb_ if it is set.
Close(c, rest) ==
    IF closed[c] THEN lpc' = Resume(rest) /\ UNCHANGED <<closed, channels, closing, leaked>>
    ELSE /\ closed' = [closed EXCEPT ![c] = TRUE]
         /\ channels' = [channels EXCEPT ![fd[c]] = NoConn]
         /\ IF c \in watched THEN lpc' = "post" /\ closing' = c /\ UNCHANGED leaked
                             ELSE /\ leaked' = leaked \cup {c}
                                  /\ lpc' = Resume(rest) /\ UNCHANGED closing

\* Mutant: a refused event is not replaced by a timer.
PostTest_NoTimer ==
    /\ lpc = "post" /\ LoopRuns
    /\ IF Len(queue) < Capacity
       THEN lpc' = "push" /\ UNCHANGED closing
       ELSE lpc' = Resume(revents) /\ closing' = NoConn
    /\ UNCHANGED <<postElse, queue, timers, leaked>>

\* The disconnect callback: AddTriggerEvent, or a timer if it is refused.
PostTest ==
    /\ lpc = "post" /\ LoopRuns
    /\ IF Len(queue) < Capacity
       THEN lpc' = "push" /\ UNCHANGED <<timers, closing>>
       ELSE /\ timers' = timers \cup {fd[closing]}
            /\ lpc' = Resume(revents) /\ closing' = NoConn
    /\ UNCHANGED <<postElse, queue, leaked>>

\* Push drops silently what does not fit.
PostPush ==
    /\ lpc = "push" /\ LoopRuns
    /\ IF Len(queue) < Capacity
       THEN queue' = Append(queue, RemoveOf(fd[closing])) /\ UNCHANGED leaked
       ELSE leaked' = leaked \cup {closing} /\ UNCHANGED queue
    /\ lpc' = Resume(revents) /\ closing' = NoConn
    /\ UNCHANGED <<postElse, timers>>

RemoveConnection(f) == /\ ServerMutexFree
                       /\ connections' = [connections EXCEPT ![f] = NoConn]

RunClose == \E c \in Conns :
    /\ lpc = "trigger" /\ LoopRuns
    /\ queue # <<>> /\ Head(queue) = CloseOf(c)
    /\ queue' = Tail(queue)
    /\ Close(c, {})
    /\ UNCHANGED <<connVars, ioVars, appVars, connections, timers, listening, acc, batch, cur, revents, late, unposted>>

RunRemove == \E f \in Fds :
    /\ lpc = "trigger" /\ LoopRuns
    /\ queue # <<>> /\ Head(queue) = RemoveOf(f)
    /\ queue' = Tail(queue)
    /\ RemoveConnection(f)
    /\ UNCHANGED <<connVars, ioVars, loopVars, appVars, closed, channels, timers, listening, acc, late, unposted, leaked>>

Drained ==
    /\ lpc = "trigger" /\ LoopRuns
    /\ queue = <<>>
    /\ lpc' = "timers"
    /\ UNCHANGED <<postElse, queue, timers, closing, leaked>>

RunTimer(f) ==
    /\ lpc = "timers" /\ LoopRuns
    /\ f \in timers
    /\ timers' = timers \ {f}
    /\ RemoveConnection(f)
    /\ UNCHANGED <<connVars, ioVars, loopVars, appVars, closed, channels, queue, listening, acc, late, unposted, leaked>>

\* epoll_wait: any of the channels it watches may be ready.
Wait ==
    /\ lpc = "timers" /\ LoopRuns
    /\ batch' \in SUBSET {channels[f] : f \in {g \in Fds : channels[g] # NoConn}}
    /\ lpc' = "channel"
    /\ UNCHANGED <<walkElse, cur, revents, closing>>

\* Channel::HandleEvent: read, write, then hang-up or error.
Serve == \E c \in batch :
    /\ lpc = "channel" /\ cur = NoConn /\ LoopRuns
    /\ cur' = c
    /\ batch' = batch \ {c}
    /\ revents' \in SUBSET ({"IN", "HUP"} \cup IF writing[c] THEN {"OUT"} ELSE {})
    /\ revents' # {}
    /\ UNCHANGED <<walkElse, lpc, closing>>

Served ==
    /\ lpc = "channel" /\ LoopRuns
    /\ revents = {}
    /\ \/ cur # NoConn /\ cur' = NoConn /\ UNCHANGED lpc
       \/ cur = NoConn /\ batch = {} /\ lpc' = "trigger" /\ UNCHANGED cur
    /\ UNCHANGED <<walkElse, batch, revents, closing>>

\* HandleRead, up to the end of its locked part: closed already, a failed
\* read, or bytes for the callback.
HandleRead ==
    /\ lpc = "channel" /\ "IN" \in revents /\ LoopRuns
    /\ ConnMutexFree(cur)
    /\ \/ /\ revents' = revents \ {"IN"}
          /\ Close(cur, revents \ {"IN"})
       \/ /\ ~closed[cur]
          /\ lpc' = "callback"
          /\ UNCHANGED <<revents, closed, channels, closing, leaked>>
    /\ UNCHANGED <<handlerElse, ioVars>>

\* The read callback answers a request: TcpConnection::Send.
Send ==
    /\ lpc = "callback" /\ LoopRuns
    /\ ConnMutexFree(cur)
    /\ buffered' = [buffered EXCEPT ![cur] = IF @ < MaxQueue THEN @ + 1 ELSE @]
    /\ lpc' = "write"
    /\ UNCHANGED <<handlerElse, closed, writing, channels, revents, closing, leaked>>

\* The read callback returns; if it returns false the connection is closed.
ReadReturns ==
    /\ lpc \in {"callback", "return"} /\ LoopRuns
    /\ revents' = revents \ {"IN"}
    /\ \/ /\ lpc' = "channel"
          /\ UNCHANGED <<closed, channels, closing, leaked>>
       \/ ConnMutexFree(cur) /\ Close(cur, revents \ {"IN"})
    /\ UNCHANGED <<handlerElse, ioVars>>

\* Where HandleWrite is called: by Send, or for EVENT_OUT after the read.
AtWrite == lpc = "write" \/ (lpc = "channel" /\ "OUT" \in revents /\ "IN" \notin revents)
AfterWrite == IF lpc = "write" THEN revents ELSE revents \ {"OUT"}

\* Mutant: EVENT_OUT is asked for when everything is sent.
WritePart_Swapped(n) ==
    /\ buffered' = [buffered EXCEPT ![cur] = n]
    /\ writing' = [writing EXCEPT ![cur] = n = 0]

\* Part of the buffer is sent; EVENT_OUT is asked for while some is left.
WritePart(n) ==
    /\ buffered' = [buffered EXCEPT ![cur] = n]
    /\ writing' = [writing EXCEPT ![cur] = n > 0]

\* Closed, or the try_lock fails; sent in part or whole; or send fails.
HandleWrite ==
    /\ AtWrite /\ LoopRuns
    /\ revents' = AfterWrite
    /\ \/ /\ closed[cur] \/ ~ConnMutexFree(cur)
          /\ lpc' = Resume(AfterWrite)
          /\ UNCHANGED <<closed, ioVars, channels, closing, leaked>>
       \/ /\ ~closed[cur] /\ ConnMutexFree(cur)
          /\ \E n \in 0 .. buffered[cur] : WritePart(n)
          /\ lpc' = Resume(AfterWrite)
          /\ UNCHANGED <<closed, channels, closing, leaked>>
       \/ /\ ~closed[cur] /\ ConnMutexFree(cur)
          /\ buffered[cur] > 0
          /\ Close(cur, AfterWrite)
          /\ UNCHANGED ioVars
    /\ UNCHANGED handlerElse

\* HandleClose and HandleError.
HandleClose ==
    /\ lpc = "channel" /\ revents = {"HUP"} /\ LoopRuns
    /\ ConnMutexFree(cur)
    /\ revents' = {}
    /\ Close(cur, {})
    /\ UNCHANGED <<handlerElse, ioVars>>

LoopStep == \/ PostTest \/ PostPush \/ RunClose \/ RunRemove \/ Drained
            \/ (\E f \in Fds : RunTimer(f)) \/ Wait \/ Serve \/ Served
            \/ HandleRead \/ Send \/ ReadReturns \/ HandleWrite \/ HandleClose

-----------------------------------------------------------------------------
(* The application's thread: TcpServer::Start and Stop.                    *)

Start == /\ app = "new"
         /\ app' = "running" /\ listening' = TRUE
         /\ UNCHANGED <<appElse, queue, todo, victim, late, unposted, leaked>>

StopLock ==
    /\ app = "running"
    /\ app' = "visit"
    /\ todo' = {connections[f] : f \in Fds} \ {NoConn}
    /\ UNCHANGED <<appElse, queue, listening, victim, late, unposted, leaked>>

\* TcpConnection::Disconnect takes mutex_ and posts Close.
DisconnectLock == \E c \in todo :
    /\ app = "visit" /\ ConnMutexFree(c)
    /\ app' = "test" /\ victim' = c /\ todo' = todo \ {c}
    /\ UNCHANGED <<appElse, queue, listening, late, unposted, leaked>>

\* AddTriggerEvent's answer is not looked at.
DisconnectTest ==
    /\ app = "test"
    /\ IF Len(queue) < Capacity
       THEN app' = "push" /\ UNCHANGED <<victim, unposted>>
       ELSE app' = "visit" /\ victim' = NoConn /\ unposted' = unposted \cup {victim}
    /\ UNCHANGED <<appElse, queue, listening, todo, late, leaked>>

\* Mutant: the closure is lost.
DisconnectPush_NoEvent ==
    /\ app = "push"
    /\ app' = "visit" /\ victim' = NoConn
    /\ UNCHANGED <<appElse, queue, listening, todo, late, unposted, leaked>>

\* Mutant: the full ring is written to.
DisconnectPush_NoTest ==
    /\ app = "push"
    /\ queue' = Append(queue, CloseOf(victim))
    /\ app' = "visit" /\ victim' = NoConn
    /\ UNCHANGED <<appElse, listening, todo, late, unposted, leaked>>

DisconnectPush ==
    /\ app = "push"
    /\ IF Len(queue) < Capacity
       THEN queue' = Append(queue, CloseOf(victim)) /\ UNCHANGED unposted
       ELSE unposted' = unposted \cup {victim} /\ UNCHANGED queue
    /\ app' = "visit" /\ victim' = NoConn
    /\ UNCHANGED <<appElse, listening, todo, late, leaked>>

StopUnlock ==
    /\ app = "visit" /\ todo = {}
    /\ app' = "unlocked"
    /\ UNCHANGED <<appElse, queue, listening, todo, victim, late, unposted, leaked>>

\* Acceptor::Close takes the mutex that OnAccept holds.
CloseListener ==
    /\ app = "unlocked" /\ acc = "idle"
    /\ listening' = FALSE /\ app' = "waiting"
    /\ UNCHANGED <<appElse, queue, todo, victim, late, unposted, leaked>>

\* Stop polls connections_.empty() without the mutex.
StopEnds ==
    /\ app = "waiting"
    /\ \A f \in Fds : connections[f] = NoConn
    /\ app' = "stopped"
    /\ UNCHANGED <<appElse, queue, listening, todo, victim, late, unposted, leaked>>

StopStep == \/ DisconnectLock \/ DisconnectTest \/ DisconnectPush \/ StopUnlock
            \/ CloseListener \/ StopEnds

Next == \/ \E f \in Fds : Accept(f)
        \/ AcceptStep \/ LoopStep
        \/ Start \/ StopLock \/ StopStep

Spec == Init /\ [][Next]_vars

\* The threads run; a 100 ms timer that is set falls due.
FairSpec == /\ Spec
            /\ WF_vars(AcceptStep) /\ WF_vars(LoopStep) /\ WF_vars(StopStep)
            /\ \A f \in Fds : SF_vars(RunTimer(f))

-----------------------------------------------------------------------------
TypeOK ==
    /\ same_thread \in Placements
    /\ accepted \in 0 .. MaxConns
    /\ fd \in [Conns -> Fds \cup {None}]
    /\ closed \in [Conns -> BOOLEAN]
    /\ watched \subseteq Conns
    /\ buffered \in [Conns -> 0 .. MaxQueue] /\ writing \in [Conns -> BOOLEAN]
    /\ connections \in [Fds -> Conns \cup {NoConn}]
    /\ channels \in [Fds -> Conns \cup {NoConn}]
    /\ queue \in Seq({CloseOf(c) : c \in Conns} \cup {RemoveOf(f) : f \in Fds})
    /\ Len(queue) <= Capacity
    /\ timers \subseteq Fds
    /\ listening \in BOOLEAN /\ acc \in {"idle", "add", "watch"}
    /\ lpc \in {"trigger", "timers", "channel", "callback", "write", "return",
                "post", "push"}
    /\ batch \subseteq Conns /\ cur \in Conns \cup {NoConn}
    /\ revents \subseteq {"IN", "OUT", "HUP"}
    /\ closing \in Conns \cup {NoConn}
    /\ app \in {"new", "running", "visit", "test", "push", "unlocked", "waiting",
                "stopped"}
    /\ todo \subseteq Conns /\ victim \in Conns \cup {NoConn}
    /\ late \subseteq Conns /\ unposted \subseteq Conns /\ leaked \subseteq Conns

\* epoll_wait answers with bare Channel pointers.  Every one of them, until
\* its turn comes and while its handlers run, is the channel of a connection
\* that still exists: connections are destroyed only between two batches.
BatchIsAlive == batch \cup ({cur} \ {NoConn}) \subseteq Alive

Removals(f) == Cardinality({i \in 1 .. Len(queue) : queue[i] = RemoveOf(f)})
               + Cardinality({f} \cap timers)

\* RemoveConnection names a descriptor, and descriptors are reused.  Every one
\* that is on its way, by event or by timer, is the only one for its
\* descriptor and finds there the closed connection it was posted for.
RemovalHitsItsOwn ==
    \A f \in Fds : Removals(f) > 0 =>
        /\ Removals(f) = 1
        /\ connections[f] # NoConn
        /\ closed[connections[f]]

\* No connection stays in connections_, and no descriptor open, after Close,
\* unless RemoveConnection was never posted: the ring filled between the test
\* and the push, or the connection closed before its disconnect_cb_ was set.
ClosedIsRemoved ==
    \A f \in Fds : LET c == connections[f] IN
        c # NoConn /\ closed[c] => Removals(f) > 0 \/ closing = c \/ c \in leaked

\* Once Stop only waits for connections_ to empty, every open connection has
\* its Close queued, except those accepted after Stop went over the map and
\* those whose event the ring refused: for these Stop waits for the client.
StopIsServed ==
    app = "waiting" =>
        \A f \in Fds : LET c == connections[f] IN
            c # NoConn /\ ~closed[c] =>
                Queued(CloseOf(c)) \/ c \in late \/ c \in unposted

\* Bytes left in write_buffer_ are always followed up: EVENT_OUT is on, or
\* HandleWrite is about to run.  The try_lock of HandleWrite skips that only
\* when Disconnect holds the mutex, and then a Close comes.
NoStalledWrite ==
    \A c \in Alive : ~closed[c] /\ buffered[c] > 0 =>
        \/ writing[c]
        \/ lpc = "write" /\ cur = c
        \/ victim = c \/ Queued(CloseOf(c)) \/ c \in unposted

\* With one loop thread and room in the ring, no connection is left behind.
NothingLeaks == leaked = {} /\ unposted = {}

\* Stop returns if no connection slipped in behind its visit of the map.
StopReturns == (app = "waiting" /\ late = {}) ~> app = "stopped"
=============================================================================
