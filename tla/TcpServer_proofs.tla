--------------------------- MODULE TcpServer_proofs ---------------------------
(***************************************************************************)
(* Proofs of TcpServer's invariants, for any descriptors, number of        *)
(* connections, capacity of the ring and bound of write_buffer_, with the  *)
(* accepting thread on the connections' loop or beside it.                 *)
(***************************************************************************)
EXTENDS TcpServer, FiniteSetTheorems, TLAPS

-----------------------------------------------------------------------------
(* The inductive invariant.                                                *)

\* In connections_ under its descriptor, or about to be.
Held(c) == c \in 1 .. accepted /\ (connections[fd[c]] = c \/ (acc = "add" /\ c = accepted))

\* The two maps.  An open connection is in both; what is in channels_ is open.
ConnInv ==
    /\ \A c \in 1 .. accepted : fd[c] \in Fds /\ (~closed[c] => channels[fd[c]] = c /\ Held(c))
    /\ \A c \in Conns : closed[c] => c \in 1 .. accepted
    /\ \A f \in Fds : LET c == connections[f] IN
          c # NoConn => c \in 1 .. accepted /\ fd[c] = f
    /\ \A f \in Fds : LET c == channels[f] IN
          c # NoConn => c \in 1 .. accepted /\ fd[c] = f /\ ~closed[c]
    /\ acc # "idle" => accepted >= 1
    /\ acc = "add" => connections[fd[accepted]] = NoConn

\* Who closes before its callback is set leaks.
WatchInv == /\ watched \subseteq 1 .. accepted
            /\ acc # "idle" => accepted \notin watched
            /\ \A c \in Conns : closed[c] => c \in watched \cup leaked

\* Connections are destroyed only between two batches.
LoopInv == /\ lpc \in {"trigger", "timers"} => batch = {} /\ cur = NoConn
           /\ lpc \in {"post", "push"} => closing # NoConn /\ (cur = NoConn => batch = {})
           /\ lpc \notin {"post", "push"} => closing = NoConn
           /\ lpc \in {"callback", "write", "return"} => cur # NoConn
           /\ cur = NoConn => revents = {}
           /\ \A c \in batch \cup ({cur} \ {NoConn}) : Held(c)

Events == {CloseOf(c) : c \in Conns} \cup {RemoveOf(f) : f \in Fds}
Pending(f) == Queued(RemoveOf(f)) \/ f \in timers
Once(e) == \A i, j \in 1 .. Len(queue) : queue[i] = e /\ queue[j] = e => i = j

\* A removal on its way is the only one for its descriptor, and what closes is
\* in connections_ and has none yet.
RemovalInv ==
    /\ \A f \in Fds : /\ Once(RemoveOf(f))
                      /\ Queued(RemoveOf(f)) => f \notin timers
                      /\ Pending(f) => /\ connections[f] # NoConn
                                       /\ closed[connections[f]]
                                       /\ connections[f] # closing
    /\ closing # NoConn => /\ closing \in 1 .. accepted /\ closed[closing]
                           /\ connections[fd[closing]] = closing
    /\ \A f \in Fds : LET c == connections[f] IN
          c # NoConn /\ closed[c] => Pending(f) \/ closing = c \/ c \in leaked

\* What Stop has yet to visit, has in hand, or has called.
Called(c) == Queued(CloseOf(c)) \/ c \in late \/ c \in unposted
Visiting  == {"visit", "test", "push"}
StopInv ==
    /\ victim # NoConn <=> app \in {"test", "push"}
    /\ todo \cup ({victim} \ {NoConn}) \subseteq 1 .. accepted
    /\ \A c \in Conns : Queued(CloseOf(c)) => c \in 1 .. accepted
    /\ app \notin {"new", "running"} =>
          \A f \in Fds : LET c == connections[f] IN
              c # NoConn /\ ~closed[c] =>
                  Called(c) \/ (app \in Visiting /\ c \in todo \cup {victim})

FollowedUp(c) == \/ writing[c]
                 \/ lpc = "write" /\ cur = c
                 \/ victim = c \/ Queued(CloseOf(c)) \/ c \in unposted
WriteInv == \A c \in Conns : ~closed[c] /\ buffered[c] > 0 => FollowedUp(c)

IInv == /\ TypeOK
        /\ ConnInv
        /\ WatchInv
        /\ LoopInv
        /\ RemovalInv
        /\ StopInv
        /\ WriteInv

-----------------------------------------------------------------------------
(* The queue.                                                              *)

LEMMA EventType ==
    /\ \A c \in Conns : CloseOf(c) \in Events /\ \A f \in Fds : CloseOf(c) # RemoveOf(f)
    /\ \A f \in Fds : RemoveOf(f) \in Events
    /\ \A c, d \in Conns : CloseOf(c) = CloseOf(d) => c = d
    /\ \A f, g \in Fds : RemoveOf(f) = RemoveOf(g) => f = g
BY DEF Events, CloseOf, RemoveOf

LEMMA QueueType == TypeOK => queue \in Seq(Events) /\ Len(queue) \in Nat
BY DEF TypeOK, Events

\* An event leaves.
LEMMA Popped ==
    ASSUME TypeOK, queue # <<>>, queue' = Tail(queue)
    PROVE  /\ queue' \in Seq(Events) /\ Len(queue') <= Capacity
           /\ \A e : Queued(e)' => Queued(e)
           /\ \A e : Queued(e) => Queued(e)' \/ e = Head(queue)
           /\ \A e : Once(e) => Once(e)' /\ (e = Head(queue) => ~Queued(e)')
<1>1. /\ queue \in Seq(Events) /\ Len(queue) \in Nat /\ Len(queue) >= 1
      /\ queue' \in Seq(Events) /\ Len(queue') = Len(queue) - 1
      /\ Head(queue) = queue[1] /\ 1 \in 1 .. Len(queue)
      /\ \A i \in 1 .. Len(queue') : i + 1 \in 1 .. Len(queue) /\ queue'[i] = queue[i + 1]
    BY QueueType
<1>2. Len(queue') <= Capacity
    BY <1>1, TcpAssumption DEF TypeOK
<1>3. ASSUME NEW e, Queued(e)' PROVE Queued(e)
    BY <1>1, <1>3 DEF Queued
<1>4. ASSUME NEW e, Queued(e), e # Head(queue) PROVE Queued(e)'
    <2>1. PICK i \in 1 .. Len(queue) : queue[i] = e
        BY <1>4 DEF Queued
    <2>2. i - 1 \in 1 .. Len(queue') /\ (i - 1) + 1 = i
        BY <1>1, <1>4, <2>1
    <2> QED
        BY <1>1, <2>1, <2>2 DEF Queued
<1>5. ASSUME NEW e, Once(e) PROVE Once(e)' /\ (e = Head(queue) => ~Queued(e)')
    <2>1. ASSUME NEW i \in 1 .. Len(queue'), NEW j \in 1 .. Len(queue'),
                 queue'[i] = e, queue'[j] = e
          PROVE  i = j
        <3>1. i + 1 = j + 1
            BY <1>1, <1>5, <2>1 DEF Once
        <3> QED
            BY <3>1
    <2>2. ASSUME NEW i \in 1 .. Len(queue'), queue'[i] = e, e = Head(queue) PROVE FALSE
        <3>1. i + 1 = 1
            BY <1>1, <1>5, <2>2 DEF Once
        <3> QED
            BY <3>1
    <2> QED
        BY <2>1, <2>2 DEF Once, Queued
<1> QED
    BY <1>1, <1>2, <1>3, <1>4, <1>5

\* An event enters.
LEMMA Pushed ==
    ASSUME TypeOK, NEW x \in Events, Len(queue) < Capacity, queue' = Append(queue, x)
    PROVE  /\ queue' \in Seq(Events) /\ Len(queue') <= Capacity
           /\ \A e : Queued(e)' <=> Queued(e) \/ e = x
           /\ \A e : Once(e) /\ (e = x => ~Queued(e)) => Once(e)'
<1> DEFINE n == Len(queue) + 1
<1>1. /\ queue \in Seq(Events) /\ Len(queue) \in Nat
      /\ queue' \in Seq(Events) /\ Len(queue') = n
      /\ n \in 1 .. n /\ queue'[n] = x
      /\ \A i \in 1 .. Len(queue) : i \in 1 .. n /\ queue'[i] = queue[i]
      /\ \A i \in 1 .. n : i = n \/ i \in 1 .. Len(queue)
    BY QueueType
<1>2. Len(queue') <= Capacity
    BY <1>1, TcpAssumption
<1> HIDE DEF n
<1>3. \A e : Queued(e)' <=> Queued(e) \/ e = x
    BY <1>1 DEF Queued
<1>4. ASSUME NEW e, Once(e), e = x => ~Queued(e) PROVE Once(e)'
    BY <1>1, <1>4 DEF Once, Queued
<1> QED
    BY <1>1, <1>2, <1>3, <1>4

-----------------------------------------------------------------------------
(* What steps leave alone stays true.                                      *)

LEMMA ConnKept ==
    ConnInv /\ UNCHANGED <<accepted, fd, closed, connections, channels, acc>> => ConnInv'
BY DEF ConnInv, Held

LEMMA WatchKept == WatchInv /\ UNCHANGED <<accepted, acc, watched, closed, leaked>> => WatchInv'
BY DEF WatchInv

LEMMA LoopKept ==
    LoopInv /\ UNCHANGED <<loopVars, accepted, fd, connections, acc>> => LoopInv'
BY DEF LoopInv, loopVars, Held

\* The removals that are queued, and all else that RemovalInv speaks of.
RemovalsKept ==
    /\ \A f \in Fds : /\ Queued(RemoveOf(f))' <=> Queued(RemoveOf(f))
                      /\ Once(RemoveOf(f)) => Once(RemoveOf(f))'
LEMMA RemovalKept ==
    /\ RemovalInv /\ RemovalsKept
    /\ UNCHANGED <<timers, connections, closed, closing, accepted, fd>>
    /\ leaked \subseteq leaked'
    => RemovalInv'
BY DEF RemovalInv, RemovalsKept, Pending

\* The closes that are queued, but for those of connections that are closed.
ClosesKept ==
    \A c \in Conns : /\ Queued(CloseOf(c))' => Queued(CloseOf(c))
                     /\ ~closed'[c] /\ Queued(CloseOf(c)) => Queued(CloseOf(c))'
LEMMA StopKept ==
    /\ TypeOK /\ StopInv /\ ClosesKept
    /\ UNCHANGED <<appVars, connections, accepted, late, unposted>>
    /\ \A c \in Conns : closed[c] => closed'[c]
    => StopInv'
<1> SUFFICES ASSUME TypeOK, StopInv, ClosesKept,
                    UNCHANGED <<appVars, connections, accepted, late, unposted>>,
                    \A c \in Conns : closed[c] => closed'[c]
             PROVE  StopInv'
    OBVIOUS
<1>1. \A c \in Conns : ~closed'[c] /\ Called(c) => Called(c)'
    BY DEF ClosesKept, Called
<1>2. \A f \in Fds : connections[f] = NoConn \/ connections[f] \in Conns
    BY DEF TypeOK
<1> QED
    BY <1>1, <1>2 DEF StopInv, ClosesKept, appVars

LEMMA WriteKept ==
    /\ TypeOK /\ WriteInv /\ ClosesKept
    /\ UNCHANGED <<ioVars, victim, unposted>>
    /\ lpc = "write" => lpc' = "write" /\ cur' = cur
    /\ \A c \in Conns : closed[c] => closed'[c]
    => WriteInv'
BY DEF WriteInv, ClosesKept, ioVars, FollowedUp

LEMMA QueueKept == UNCHANGED queue => RemovalsKept /\ ClosesKept
BY DEF RemovalsKept, ClosesKept, Queued, Once

LEMMA Ids == /\ NoConn \notin Conns
             /\ TypeOK => /\ 1 .. accepted \subseteq Conns /\ accepted \in Nat
                          /\ \A c \in Conns : c < accepted + 1 => c \in 1 .. accepted
                          /\ accepted >= 1 => accepted \in 1 .. accepted
BY TcpAssumption DEF TypeOK, Conns, NoConn

-----------------------------------------------------------------------------
LEMMA InitHolds == Init => IInv
<1> SUFFICES ASSUME Init PROVE IInv
    OBVIOUS
<1>1. TypeOK
    <2>1. /\ accepted \in 0 .. MaxConns /\ Len(queue) <= Capacity
          /\ queue \in Seq({CloseOf(c) : c \in Conns} \cup {RemoveOf(f) : f \in Fds})
          /\ buffered \in [Conns -> 0 .. MaxQueue]
        BY TcpAssumption DEF Init
    <2> QED
        BY <2>1, Zenon DEF Init, TypeOK
<1>2. queue = <<>> /\ \A e : ~Queued(e) /\ Once(e)
    BY DEF Init, Queued, Once
<1>3. ConnInv /\ WatchInv /\ LoopInv
    BY Ids DEF Init, ConnInv, WatchInv, LoopInv
<1>4. RemovalInv
    BY <1>2 DEF Init, RemovalInv, Pending
<1>5. StopInv
    BY <1>2 DEF Init, StopInv
<1>6. WriteInv
    BY DEF Init, WriteInv
<1> QED
    BY <1>1, <1>3, <1>4, <1>5, <1>6 DEF IInv

-----------------------------------------------------------------------------
(* OnAccept.                                                               *)

\* Nobody that is in connections_ or in channels_ has the descriptor.
LEMMA AcceptKeeps ==
    ASSUME IInv, NEW f \in Fds, Accept(f)
    PROVE  IInv'
<1> DEFINE c == accepted + 1
<1>0. /\ TypeOK /\ ConnInv /\ WatchInv /\ LoopInv /\ RemovalInv /\ StopInv /\ WriteInv
      /\ c \in Conns /\ accepted' = c /\ acc = "idle" /\ acc' = "add"
      /\ f \notin {fd[d] : d \in Alive}
      /\ fd' = [fd EXCEPT ![c] = f]
      /\ channels' = [channels EXCEPT ![f] = IF @ = NoConn THEN c ELSE @]
      /\ UNCHANGED <<acceptElse, watched, connections, late>>
    BY DEF IInv, Accept, FreeFds
<1>1. /\ accepted \in Nat /\ 1 .. accepted \subseteq Conns /\ 1 .. accepted \subseteq 1 .. c
      /\ c \in 1 .. c /\ c \notin 1 .. accepted /\ c >= 1
      /\ \A d \in 1 .. c : d = c \/ d \in 1 .. accepted
    BY <1>0, Ids
<1> HIDE DEF c
<1>2. \A d \in 1 .. accepted : ~closed[d] => connections[fd[d]] = d
    BY <1>0 DEF ConnInv, Held
<1>3. connections[f] = NoConn
    <2> SUFFICES ASSUME connections[f] # NoConn PROVE FALSE
        OBVIOUS
    <2>1. connections[f] \in 1 .. accepted /\ fd[connections[f]] = f
        BY <1>0 DEF ConnInv
    <2>2. connections[f] \in Alive
        BY <2>1 DEF Alive
    <2> QED
        BY <1>0, <2>1, <2>2
<1>4. channels[f] = NoConn
    <2> SUFFICES ASSUME channels[f] # NoConn PROVE FALSE
        OBVIOUS
    <2>1. channels[f] \in 1 .. accepted /\ fd[channels[f]] = f /\ ~closed[channels[f]]
        BY <1>0 DEF ConnInv
    <2> QED
        BY <1>1, <1>2, <1>3, <2>1, Ids
<1>5. /\ fd'[c] = f /\ channels'[f] = c
      /\ \A d \in 1 .. accepted : fd'[d] = fd[d]
      /\ \A g \in Fds : g # f => channels'[g] = channels[g]
    BY <1>0, <1>1, <1>4 DEF TypeOK
<1>6. TypeOK'
    <2>1. accepted' \in 0 .. MaxConns
        BY <1>0, TcpAssumption DEF Conns
    <2> QED
        BY <1>0, <2>1 DEF TypeOK, acceptElse, loopVars, appVars, ioVars
<1>7. ConnInv'
    <2>1. \A d \in 1 .. accepted' : fd'[d] \in Fds
        BY <1>0, <1>1, <1>5 DEF ConnInv
    <2>2. \A d \in 1 .. accepted' : ~closed'[d] => channels'[fd'[d]] = d /\ Held(d)'
        <3> SUFFICES ASSUME NEW d \in 1 .. accepted', ~closed'[d]
                     PROVE  channels'[fd'[d]] = d /\ Held(d)'
            OBVIOUS
        <3>1. CASE d = c
            BY <1>0, <1>1, <1>5, <3>1 DEF Held
        <3>2. CASE d \in 1 .. accepted
            <4>1. channels[fd[d]] = d /\ fd[d] \in Fds /\ connections[fd[d]] = d
                BY <1>0, <1>2, <3>2 DEF ConnInv, acceptElse
            <4> QED
                BY <1>0, <1>1, <1>4, <1>5, <3>2, <4>1, Ids DEF Held
        <3> QED
            BY <1>0, <1>1, <3>1, <3>2
    <2>3. \A d \in Conns : closed'[d] => d \in 1 .. accepted'
        BY <1>0, <1>1 DEF ConnInv, acceptElse
    <2>4. \A g \in Fds : connections'[g] # NoConn =>
              connections'[g] \in 1 .. accepted' /\ fd'[connections'[g]] = g
        BY <1>0, <1>1, <1>5 DEF ConnInv
    <2>5. \A g \in Fds : channels'[g] # NoConn =>
              /\ channels'[g] \in 1 .. accepted' /\ fd'[channels'[g]] = g
              /\ ~closed'[channels'[g]]
        BY <1>0, <1>1, <1>5 DEF ConnInv, acceptElse
    <2> QED
        BY <1>0, <1>1, <1>3, <1>5, <2>1, <2>2, <2>3, <2>4, <2>5 DEF ConnInv
<1>8. WatchInv'
    BY <1>0, <1>1 DEF WatchInv, acceptElse
<1>9. LoopInv'
    <2>1. \A d : Held(d) => Held(d)'
        BY <1>0, <1>1, <1>5 DEF Held
    <2> QED
        BY <1>0, <2>1 DEF LoopInv, acceptElse, loopVars
<1>10. RemovalInv'
    BY <1>0, <1>1, <1>5 DEF RemovalInv, Pending, Queued, Once, acceptElse, loopVars
<1>11. StopInv'
    BY <1>0, <1>1 DEF StopInv, Called, Queued, acceptElse, appVars
<1>12. WriteInv'
    BY <1>0, QueueKept, WriteKept DEF acceptElse, loopVars, appVars
<1> QED
    BY <1>6, <1>7, <1>8, <1>9, <1>10, <1>11, <1>12 DEF IInv

\* What closed before it got here has no callback, so it leaked.
LEMMA AddKeeps ==
    ASSUME IInv, AddConnection
    PROVE  IInv'
<1> DEFINE c == accepted
<1>0. /\ TypeOK /\ ConnInv /\ WatchInv /\ LoopInv /\ RemovalInv /\ StopInv /\ WriteInv
      /\ acc = "add" /\ acc' = "watch" /\ app \notin Visiting
      /\ connections' = [connections EXCEPT ![fd[c]] = IF @ = NoConn THEN c ELSE @]
      /\ late' = IF app = "running" THEN late ELSE late \cup {c}
      /\ UNCHANGED <<acceptElse, connVars, channels>>
    BY DEF IInv, AddConnection, ServerMutexFree, Visiting
<1>1. /\ c \in 1 .. accepted /\ c \in Conns /\ fd[c] \in Fds /\ connections[fd[c]] = NoConn
      /\ c # NoConn
    BY <1>0, Ids DEF ConnInv
<1>2. /\ connections' = [connections EXCEPT ![fd[c]] = c]
      /\ connections'[fd[c]] = c
      /\ \A f \in Fds : f # fd[c] => connections'[f] = connections[f]
    BY <1>0, <1>1 DEF TypeOK
<1>3. TypeOK'
    BY <1>0, <1>1, <1>2 DEF TypeOK, acceptElse, connVars, loopVars, appVars, ioVars
<1>4. \A d \in 1 .. accepted : Held(d) => connections'[fd[d]] = d
    BY <1>0, <1>1, <1>2, Ids DEF Held, ConnInv
<1>5. ConnInv'
    BY <1>0, <1>1, <1>2, <1>4 DEF ConnInv, Held, acceptElse, connVars
<1>6. WatchInv'
    BY <1>0 DEF WatchInv, acceptElse, connVars
<1>7. LoopInv'
    <2>1. \A d : Held(d) => Held(d)'
        BY <1>0, <1>4 DEF Held, connVars
    <2> QED
        BY <1>0, <2>1 DEF LoopInv, acceptElse, loopVars
<1>8. RemovalInv'
    <2>1. closed[c] => c \in leaked
        BY <1>0, <1>1 DEF WatchInv
    <2>2. ~Pending(fd[c]) /\ (closing # NoConn => fd[closing] # fd[c] /\ fd[closing] \in Fds)
        BY <1>0, <1>1 DEF RemovalInv, ConnInv
    <2>3. \A f \in Fds : Pending(f)' <=> Pending(f)
        BY <1>0 DEF Pending, Queued, acceptElse
    <2>4. \A f \in Fds : /\ Once(RemoveOf(f))'
                         /\ Queued(RemoveOf(f))' => f \notin timers'
        BY <1>0 DEF RemovalInv, Once, Queued, acceptElse
    <2>5. \A f \in Fds : Pending(f) => /\ connections'[f] # NoConn
                                       /\ closed'[connections'[f]]
                                       /\ connections'[f] # closing'
        BY <1>0, <1>2, <2>2 DEF RemovalInv, acceptElse, loopVars
    <2>6. closing' # NoConn => /\ closing' \in 1 .. accepted' /\ closed'[closing']
                               /\ connections'[fd'[closing']] = closing'
        BY <1>0, <1>2, <2>2 DEF RemovalInv, acceptElse, loopVars, connVars
    <2>7. \A f \in Fds : connections'[f] # NoConn /\ closed'[connections'[f]] =>
              Pending(f) \/ closing' = connections'[f] \/ connections'[f] \in leaked'
        BY <1>0, <1>2, <2>1 DEF RemovalInv, acceptElse, loopVars
    <2> QED
        BY <2>3, <2>4, <2>5, <2>6, <2>7 DEF RemovalInv
<1>9. StopInv'
    <2>1. app \notin {"new", "running"} => c \in late'
        BY <1>0
    <2>2. \A d : Called(d) => Called(d)'
        BY <1>0 DEF Called, Queued, acceptElse
    <2>3. app' = app /\ todo' = todo /\ victim' = victim /\ closed' = closed /\ queue' = queue
          /\ accepted' = accepted
        BY <1>0 DEF acceptElse, appVars, connVars
    <2>4. ASSUME app \notin {"new", "running"}, NEW f \in Fds, NEW d, d = connections'[f],
                 d # NoConn, ~closed[d]
          PROVE  Called(d)'
        <3>1. CASE f = fd[c]
            BY <1>2, <2>1, <2>4, <3>1 DEF Called
        <3>2. CASE f # fd[c]
            BY <1>0, <1>2, <2>2, <2>4, <3>2 DEF StopInv
        <3> QED
            BY <3>1, <3>2
    <2> QED
        BY <1>0, <2>3, <2>4 DEF StopInv, Queued
<1>10. WriteInv'
    BY <1>0, QueueKept, WriteKept DEF acceptElse, loopVars, appVars
<1> QED
    BY <1>3, <1>5, <1>6, <1>7, <1>8, <1>9, <1>10 DEF IInv

LEMMA SetKeeps ==
    ASSUME IInv, SetDisconnectCallback
    PROVE  IInv'
<1>0. /\ TypeOK /\ ConnInv /\ WatchInv /\ LoopInv /\ RemovalInv /\ StopInv /\ WriteInv
      /\ acc = "watch" /\ acc' = "idle" /\ watched' = watched \cup {accepted}
      /\ UNCHANGED <<acceptElse, accepted, fd, connections, channels, late>>
    BY DEF IInv, SetDisconnectCallback
<1>1. accepted \in 1 .. accepted /\ accepted \in Conns
    BY <1>0, Ids DEF ConnInv
<1>2. TypeOK'
    <2>1. UNCHANGED <<same_thread, closed, buffered, writing, queue, timers, listening, lpc, batch,
                      cur, revents, closing, app, todo, victim, unposted, leaked, accepted, fd,
                      connections, channels, late>>
        BY <1>0 DEF acceptElse, loopVars, appVars, ioVars
    <2>2. watched' \subseteq Conns /\ acc' = "idle"
        BY <1>0, <1>1 DEF TypeOK
    <2> QED
        BY <1>0, <2>1, <2>2 DEF TypeOK
<1>3. \A d : Held(d)' <=> Held(d)
    BY <1>0 DEF Held
<1>4. ConnInv' /\ LoopInv'
    BY <1>0, <1>3 DEF ConnInv, LoopInv, acceptElse, loopVars
<1>5. WatchInv'
    BY <1>0, <1>1 DEF WatchInv, acceptElse
<1>6. RemovalInv' /\ StopInv' /\ WriteInv'
    BY <1>0, QueueKept, RemovalKept, StopKept, WriteKept DEF acceptElse, loopVars, appVars
<1> QED
    BY <1>2, <1>4, <1>5, <1>6 DEF IInv

-----------------------------------------------------------------------------
(* The loop thread closes a connection.                                    *)

\* Where the loop thread is after a Close or a write.
Resumes(rest) == \/ lpc' = "post" /\ closing' # NoConn
                 \/ lpc' = Resume(rest) /\ closing' = NoConn

LEMMA ResumesLoop ==
    ASSUME LoopInv, NEW rest, Resumes(rest), cur = NoConn => batch = {},
           revents' \subseteq revents, UNCHANGED <<batch, cur, accepted, fd, connections, acc>>
    PROVE  LoopInv'
<1>1. /\ lpc' \in {"post", "trigger", "return", "channel"}
      /\ lpc' = "post" <=> closing' # NoConn
      /\ lpc' = "trigger" => cur = NoConn
      /\ lpc' = "return" => cur # NoConn
    BY DEF Resumes, Resume
<1>2. \A c : Held(c) => Held(c)'
    BY DEF Held
<1>3. cur' = NoConn => revents' = {}
    BY DEF LoopInv
<1> QED
    BY <1>1, <1>2, <1>3 DEF LoopInv

\* Close takes the channel away, once, and whoever has a callback then posts
\* the removal: the connection is in connections_ by then.
LEMMA CloseEffect ==
    ASSUME TypeOK, ConnInv, WatchInv, RemovalInv, RemovalsKept,
           NEW c \in 1 .. accepted, NEW rest, Close(c, rest), closing = NoConn,
           UNCHANGED <<connVars, connections, timers, acc>>
    PROVE  /\ ConnInv' /\ WatchInv' /\ RemovalInv' /\ Resumes(rest)
           /\ \A d \in Conns : closed[d] => closed'[d]
           /\ closed'[c]
           /\ closed' \in [Conns -> BOOLEAN]
           /\ channels' \in [Fds -> Conns \cup {NoConn}]
           /\ closing' \in Conns \cup {NoConn} /\ leaked' \subseteq Conns
           /\ lpc' \in {"post", "trigger", "return", "channel"}
<1>0. /\ c \in Conns /\ c # NoConn /\ fd[c] \in Fds
      /\ UNCHANGED <<accepted, fd, watched>>
    BY Ids DEF ConnInv, connVars
<1>1. CASE closed[c]
    <2>1. lpc' = Resume(rest) /\ UNCHANGED <<closed, channels, closing, leaked>>
        BY <1>1 DEF Close
    <2>2. ConnInv' /\ WatchInv' /\ RemovalInv'
        BY <1>0, <2>1, ConnKept, WatchKept, RemovalKept
    <2> QED
        BY <1>1, <2>1, <2>2 DEF Resumes, Resume, TypeOK
<1>2. CASE ~closed[c]
    <2>1. /\ closed' = [closed EXCEPT ![c] = TRUE]
          /\ channels' = [channels EXCEPT ![fd[c]] = NoConn]
          /\ IF c \in watched THEN lpc' = "post" /\ closing' = c /\ leaked' = leaked
                              ELSE /\ leaked' = leaked \cup {c}
                                   /\ lpc' = Resume(rest) /\ closing' = NoConn
        BY <1>2 DEF Close
    <2>2. closed' \in [Conns -> BOOLEAN] /\ channels' \in [Fds -> Conns \cup {NoConn}]
        BY <1>0, <2>1 DEF TypeOK
    <2>3. /\ closed'[c] /\ \A d \in Conns : d # c => (closed'[d] <=> closed[d])
          /\ channels'[fd[c]] = NoConn
          /\ \A f \in Fds : f # fd[c] => channels'[f] = channels[f]
        BY <1>0, <2>1 DEF TypeOK
    <2>4. Resumes(rest) /\ closing' \in Conns \cup {NoConn} /\ leaked' \subseteq Conns
          /\ lpc' \in {"post", "trigger", "return", "channel"}
        BY <1>0, <2>1 DEF Resumes, Resume, TypeOK
    <2>5. \A d \in Conns : closed[d] => closed'[d]
        BY <2>3
    <2>6. 1 .. accepted \subseteq Conns
        BY Ids
    <2>7. channels[fd[c]] = c
        BY <1>2 DEF ConnInv
    <2>8. ConnInv'
        <3>1. \A d \in 1 .. accepted : ~closed'[d] => channels'[fd[d]] = d /\ Held(d)'
            <4> SUFFICES ASSUME NEW d \in 1 .. accepted, ~closed'[d]
                         PROVE  channels'[fd[d]] = d /\ Held(d)'
                OBVIOUS
            <4>1. d # c /\ ~closed[d]
                BY <2>3, <2>6
            <4>2. channels[fd[d]] = d /\ Held(d) /\ fd[d] \in Fds
                BY <4>1 DEF ConnInv
            <4> QED
                BY <1>0, <2>3, <2>7, <4>1, <4>2 DEF Held
        <3>2. \A f \in Fds : channels'[f] # NoConn => ~closed'[channels'[f]]
            BY <2>3, <2>6 DEF ConnInv
        <3>3. \A f \in Fds : channels'[f] # NoConn => channels'[f] = channels[f]
            BY <2>3
        <3> QED
            BY <1>0, <2>3, <3>1, <3>2, <3>3 DEF ConnInv
    <2>9. WatchInv'
        BY <1>0, <2>1, <2>3 DEF WatchInv
    <2>10. c \in watched => connections[fd[c]] = c
        BY <1>2 DEF WatchInv, ConnInv, Held
    <2>11. RemovalInv'
        <3>1. \A f \in Fds : (Pending(f)' <=> Pending(f)) /\ (Queued(RemoveOf(f))' => Queued(RemoveOf(f)))
            BY DEF Pending, RemovalsKept
        <3>2. \A f \in Fds : Pending(f) => /\ connections[f] # NoConn /\ connections[f] # c
                                           /\ closed'[connections[f]]
            BY <1>2, <2>5, <2>6 DEF RemovalInv, ConnInv
        <3>3. \A f \in Fds : Pending(f) => connections[f] # closing'
            BY <1>0, <2>1, <3>2
        <3>4. closing' # NoConn => /\ closing' \in 1 .. accepted' /\ closed'[closing']
                                   /\ connections'[fd'[closing']] = closing'
            BY <1>0, <2>1, <2>3, <2>10
        <3>5. \A f \in Fds : connections[f] # NoConn /\ closed'[connections[f]] =>
                  Pending(f) \/ closing' = connections[f] \/ connections[f] \in leaked'
            BY <2>1, <2>3, <2>6 DEF RemovalInv, ConnInv
        <3>6. \A f \in Fds : Once(RemoveOf(f))' /\ (Queued(RemoveOf(f))' => f \notin timers')
            BY DEF RemovalInv, RemovalsKept
        <3> QED
            BY <3>1, <3>2, <3>3, <3>4, <3>5, <3>6 DEF RemovalInv
    <2> QED
        BY <2>2, <2>3, <2>4, <2>5, <2>8, <2>9, <2>11
<1> QED
    BY <1>1, <1>2

\* The same from a handler of the channel.
LEMMA HandlerCloses ==
    ASSUME IInv, NEW rest, Close(cur, rest), cur # NoConn,
           lpc \in {"channel", "callback", "write", "return"},
           revents' \subseteq revents, handlerElse' = handlerElse, ioVars' = ioVars
    PROVE  IInv'
<1>0. /\ TypeOK /\ ConnInv /\ WatchInv /\ LoopInv /\ RemovalInv /\ StopInv /\ WriteInv
      /\ cur \in 1 .. accepted /\ closing = NoConn
    <2>1. IInv
        OBVIOUS
    <2>2. Held(cur) /\ closing = NoConn
        BY <2>1 DEF IInv, LoopInv
    <2> QED
        BY <2>1, <2>2 DEF IInv, Held
<1>1. RemovalsKept /\ ClosesKept
    BY QueueKept DEF handlerElse
<1>2. /\ ConnInv' /\ WatchInv' /\ RemovalInv' /\ Resumes(rest)
      /\ \A d \in Conns : closed[d] => closed'[d]
      /\ closed'[cur]
      /\ closed' \in [Conns -> BOOLEAN]
      /\ channels' \in [Fds -> Conns \cup {NoConn}]
      /\ closing' \in Conns \cup {NoConn} /\ leaked' \subseteq Conns
      /\ lpc' \in {"post", "trigger", "return", "channel"}
    BY <1>0, <1>1, CloseEffect DEF handlerElse
<1>3. TypeOK'
    BY <1>0, <1>2 DEF TypeOK, handlerElse, connVars, ioVars, appVars
<1>4. LoopInv'
    BY <1>0, <1>2, ResumesLoop DEF handlerElse, connVars
<1>5. StopInv'
    BY <1>0, <1>1, <1>2, StopKept DEF handlerElse, connVars
<1>6. WriteInv'
    <2>1. \A d \in Conns : ~closed'[d] => d # cur
        BY <1>2
    <2> QED
        BY <1>0, <1>1, <1>2, <2>1
        DEF WriteInv, FollowedUp, ClosesKept, handlerElse, ioVars, appVars
<1> QED
    BY <1>2, <1>3, <1>4, <1>5, <1>6 DEF IInv

-----------------------------------------------------------------------------
(* The loop thread between two batches: the closures and the timers.       *)

LEMMA RunCloseKeeps ==
    ASSUME IInv, RunClose
    PROVE  IInv'
<1>1. PICK c \in Conns :
          /\ lpc = "trigger" /\ queue # <<>> /\ Head(queue) = CloseOf(c)
          /\ queue' = Tail(queue) /\ Close(c, {})
          /\ UNCHANGED <<connVars, ioVars, appVars, connections, timers, listening, acc,
                         batch, cur, revents, late, unposted>>
    BY DEF RunClose
<1>0. /\ TypeOK /\ ConnInv /\ WatchInv /\ LoopInv /\ RemovalInv /\ StopInv /\ WriteInv
      /\ closing = NoConn /\ cur = NoConn /\ batch = {}
    BY <1>1 DEF IInv, LoopInv
<1>2. /\ queue' \in Seq(Events) /\ Len(queue') <= Capacity
      /\ \A e : Queued(e)' => Queued(e)
      /\ \A e : Queued(e) => Queued(e)' \/ e = CloseOf(c)
      /\ \A e : Once(e) => Once(e)'
    BY <1>0, <1>1, Popped
<1>3. Queued(CloseOf(c))
    <2>1. Head(queue) = queue[1] /\ 1 \in 1 .. Len(queue)
        BY <1>0, <1>1, QueueType
    <2> QED
        BY <1>1, <2>1 DEF Queued
<1>4. c \in 1 .. accepted
    BY <1>0, <1>3 DEF StopInv
<1>5. RemovalsKept
    BY <1>1, <1>2, EventType DEF RemovalsKept
<1>6. /\ ConnInv' /\ WatchInv' /\ RemovalInv' /\ Resumes({})
      /\ \A d \in Conns : closed[d] => closed'[d]
      /\ closed'[c]
      /\ closed' \in [Conns -> BOOLEAN]
      /\ channels' \in [Fds -> Conns \cup {NoConn}]
      /\ closing' \in Conns \cup {NoConn} /\ leaked' \subseteq Conns
      /\ lpc' \in {"post", "trigger", "return", "channel"}
    BY <1>0, <1>1, <1>4, <1>5, CloseEffect
<1>7. ClosesKept
    BY <1>2, <1>6, EventType DEF ClosesKept
<1>8. TypeOK'
    BY <1>0, <1>1, <1>2, <1>6 DEF TypeOK, Events, connVars, ioVars, appVars
<1>9. LoopInv'
    BY <1>0, <1>1, <1>6, ResumesLoop DEF connVars
<1>10. StopInv'
    BY <1>0, <1>1, <1>6, <1>7, StopKept DEF connVars
<1>11. WriteInv'
    BY <1>0, <1>1, <1>6, <1>7, WriteKept DEF appVars
<1> QED
    BY <1>6, <1>8, <1>9, <1>10, <1>11 DEF IInv

\* RemoveConnection takes a closed connection out, so that nobody who is open
\* or whom the loop is about to serve is concerned.
LEMMA RemovalEffect ==
    ASSUME TypeOK, ConnInv, LoopInv, RemovalInv, StopInv, ClosesKept,
           NEW f \in Fds, Pending(f), lpc \in {"trigger", "timers"},
           connections' = [connections EXCEPT ![f] = NoConn],
           ~Pending(f)', \A g \in Fds \ {f} : Pending(g)' <=> Pending(g),
           \A g \in Fds : Once(RemoveOf(g))' /\ (Queued(RemoveOf(g))' => g \notin timers'),
           UNCHANGED <<connVars, closed, channels, acc, loopVars, leaked, appVars, late,
                       unposted>>
    PROVE  ConnInv' /\ LoopInv' /\ RemovalInv' /\ StopInv'
<1>0. /\ connections'[f] = NoConn /\ \A g \in Fds : g # f => connections'[g] = connections[g]
      /\ connections[f] \in 1 .. accepted /\ closed[connections[f]]
      /\ batch = {} /\ cur = NoConn /\ closing = NoConn
      /\ UNCHANGED <<accepted, fd, watched>>
    BY DEF TypeOK, RemovalInv, LoopInv, ConnInv, connVars
<1>1. \A c \in 1 .. accepted : ~closed[c] /\ Held(c) => Held(c)'
    BY <1>0 DEF Held, ConnInv
<1>2. ConnInv'
    BY <1>0, <1>1 DEF ConnInv
<1>3. LoopInv'
    BY <1>0 DEF LoopInv, loopVars
<1>4. RemovalInv'
    BY <1>0 DEF RemovalInv, loopVars
<1>5. StopInv'
    <2>1. \A c \in Conns : ~closed[c] /\ Called(c) => Called(c)'
        BY DEF ClosesKept, Called
    <2>2. \A g \in Fds : connections'[g] # NoConn => connections'[g] = connections[g]
                                                     /\ connections[g] \in Conns
        BY <1>0 DEF TypeOK
    <2> QED
        BY <1>0, <2>1, <2>2 DEF StopInv, ClosesKept, appVars
<1> QED
    BY <1>2, <1>3, <1>4, <1>5

LEMMA RunRemoveKeeps ==
    ASSUME IInv, RunRemove
    PROVE  IInv'
<1>1. PICK f \in Fds :
          /\ lpc = "trigger" /\ queue # <<>> /\ Head(queue) = RemoveOf(f)
          /\ queue' = Tail(queue)
          /\ connections' = [connections EXCEPT ![f] = NoConn]
          /\ UNCHANGED <<connVars, ioVars, loopVars, appVars, closed, channels, timers,
                         listening, acc, late, unposted, leaked>>
    BY DEF RunRemove, RemoveConnection
<1>0. TypeOK /\ ConnInv /\ WatchInv /\ LoopInv /\ RemovalInv /\ StopInv /\ WriteInv
    BY DEF IInv
<1>2. /\ queue' \in Seq(Events) /\ Len(queue') <= Capacity
      /\ \A e : Queued(e)' => Queued(e)
      /\ \A e : Queued(e) => Queued(e)' \/ e = RemoveOf(f)
      /\ \A e : Once(e) => Once(e)' /\ (e = RemoveOf(f) => ~Queued(e)')
    BY <1>0, <1>1, Popped
<1>3. Queued(RemoveOf(f))
    <2>1. Head(queue) = queue[1] /\ 1 \in 1 .. Len(queue)
        BY <1>0, <1>1, QueueType
    <2> QED
        BY <1>1, <2>1 DEF Queued
<1>4. ClosesKept
    BY <1>1, <1>2, EventType DEF ClosesKept
<1>5. /\ Pending(f) /\ ~Pending(f)'
      /\ \A g \in Fds \ {f} : Pending(g)' <=> Pending(g)
      /\ \A g \in Fds : Once(RemoveOf(g))' /\ (Queued(RemoveOf(g))' => g \notin timers')
    BY <1>0, <1>1, <1>2, <1>3, EventType DEF Pending, RemovalInv
<1>6. ConnInv' /\ LoopInv' /\ RemovalInv' /\ StopInv'
    BY <1>0, <1>1, <1>4, <1>5, RemovalEffect
<1>7. TypeOK'
    BY <1>0, <1>1, <1>2 DEF TypeOK, Events, connVars, ioVars, loopVars, appVars
<1>8. WatchInv' /\ WriteInv'
    BY <1>0, <1>1, <1>4, WatchKept, WriteKept DEF connVars, loopVars, appVars
<1> QED
    BY <1>6, <1>7, <1>8 DEF IInv

LEMMA RunTimerKeeps ==
    ASSUME IInv, NEW f \in Fds, RunTimer(f)
    PROVE  IInv'
<1>0. /\ TypeOK /\ ConnInv /\ WatchInv /\ LoopInv /\ RemovalInv /\ StopInv /\ WriteInv
      /\ lpc = "timers" /\ f \in timers /\ timers' = timers \ {f}
      /\ connections' = [connections EXCEPT ![f] = NoConn]
      /\ UNCHANGED <<connVars, ioVars, loopVars, appVars, closed, channels, queue,
                     listening, acc, late, unposted, leaked>>
    BY DEF IInv, RunTimer, RemoveConnection
<1>1. ClosesKept /\ \A e : (Queued(e)' <=> Queued(e)) /\ (Once(e)' <=> Once(e))
    BY <1>0, QueueKept DEF Queued, Once
<1>2. /\ Pending(f) /\ ~Pending(f)'
      /\ \A g \in Fds \ {f} : Pending(g)' <=> Pending(g)
      /\ \A g \in Fds : Once(RemoveOf(g))' /\ (Queued(RemoveOf(g))' => g \notin timers')
    BY <1>0, <1>1 DEF Pending, RemovalInv
<1>3. ConnInv' /\ LoopInv' /\ RemovalInv' /\ StopInv'
    BY <1>0, <1>1, <1>2, RemovalEffect
<1>4. TypeOK'
    BY <1>0 DEF TypeOK, connVars, ioVars, loopVars, appVars
<1>5. WatchInv' /\ WriteInv'
    BY <1>0, <1>1, WatchKept, WriteKept DEF connVars, loopVars, appVars
<1> QED
    BY <1>3, <1>4, <1>5 DEF IInv

\* The disconnect callback posts, or sets a timer, for a connection that has
\* no removal on its way.
LEMMA PostTestKeeps ==
    ASSUME IInv, PostTest
    PROVE  IInv'
<1>0. /\ TypeOK /\ ConnInv /\ WatchInv /\ LoopInv /\ RemovalInv /\ StopInv /\ WriteInv
      /\ lpc = "post" /\ UNCHANGED <<postElse, queue, leaked>>
    BY DEF IInv, PostTest
<1>1. closing # NoConn /\ (cur = NoConn => batch = {})
    BY <1>0 DEF LoopInv
<1>2. /\ closing \in 1 .. accepted /\ closing \in Conns /\ fd[closing] \in Fds
      /\ closed[closing] /\ connections[fd[closing]] = closing
    BY <1>0, <1>1, Ids DEF RemovalInv, ConnInv
<1>3. ConnInv' /\ WatchInv' /\ StopInv' /\ WriteInv'
    BY <1>0, QueueKept, ConnKept, WatchKept, StopKept, WriteKept DEF postElse, connVars, appVars
<1>4. CASE lpc' = "push" /\ UNCHANGED <<timers, closing>>
    <2>1. TypeOK'
        BY <1>0, <1>4 DEF TypeOK, postElse, connVars, ioVars, appVars
    <2>2. LoopInv'
        BY <1>0, <1>1, <1>4 DEF LoopInv, Held, postElse, connVars
    <2>3. RemovalInv'
        BY <1>0, <1>4, QueueKept, RemovalKept DEF postElse, connVars
    <2> QED
        BY <1>3, <2>1, <2>2, <2>3 DEF IInv
<1>5. CASE timers' = timers \cup {fd[closing]} /\ lpc' = Resume(revents) /\ closing' = NoConn
    <2>1. TypeOK'
        BY <1>0, <1>2, <1>5 DEF TypeOK, Resume, postElse, connVars, ioVars, appVars
    <2>2. LoopInv'
        BY <1>0, <1>1, <1>5, ResumesLoop DEF Resumes, postElse, connVars
    <2>3. ~Pending(fd[closing])
        BY <1>0, <1>2 DEF RemovalInv
    <2>4. /\ \A f \in Fds : Pending(f)' <=> Pending(f) \/ f = fd[closing]
          /\ \A f \in Fds : Once(RemoveOf(f))' /\ (Queued(RemoveOf(f))' => f \notin timers')
        BY <1>0, <1>5, <2>3 DEF Pending, RemovalInv, Queued, Once
    <2>5. RemovalInv'
        BY <1>0, <1>2, <1>5, <2>4, Ids DEF RemovalInv, ConnInv, postElse, connVars
    <2> QED
        BY <1>3, <2>1, <2>2, <2>5 DEF IInv
<1> QED
    BY <1>4, <1>5 DEF PostTest

LEMMA PostPushKeeps ==
    ASSUME IInv, PostPush
    PROVE  IInv'
<1>0. /\ TypeOK /\ ConnInv /\ WatchInv /\ LoopInv /\ RemovalInv /\ StopInv /\ WriteInv
      /\ lpc = "push" /\ UNCHANGED <<postElse, timers>>
      /\ lpc' = Resume(revents) /\ closing' = NoConn
    BY DEF IInv, PostPush
<1>1. closing # NoConn /\ (cur = NoConn => batch = {})
    BY <1>0 DEF LoopInv
<1>2. /\ closing \in 1 .. accepted /\ closing \in Conns /\ fd[closing] \in Fds
      /\ closed[closing] /\ connections[fd[closing]] = closing
    BY <1>0, <1>1, Ids DEF RemovalInv, ConnInv
<1>3. LoopInv'
    BY <1>0, <1>1, ResumesLoop DEF Resumes, postElse, connVars
<1>4. ConnInv'
    BY <1>0, ConnKept DEF postElse, connVars
<1>5. CASE Len(queue) < Capacity /\ queue' = Append(queue, RemoveOf(fd[closing])) /\ UNCHANGED leaked
    <2>1. ~Pending(fd[closing])
        BY <1>0, <1>2 DEF RemovalInv
    <2>2. /\ queue' \in Seq(Events) /\ Len(queue') <= Capacity
          /\ \A e : Queued(e)' <=> Queued(e) \/ e = RemoveOf(fd[closing])
          /\ \A e : Once(e) /\ (e = RemoveOf(fd[closing]) => ~Queued(e)) => Once(e)'
        BY <1>0, <1>2, <1>5, EventType, Pushed
    <2>3. ClosesKept
        BY <1>2, <2>2, EventType DEF ClosesKept
    <2>4. TypeOK'
        BY <1>0, <1>5, <2>2 DEF TypeOK, Events, Resume, postElse, connVars, ioVars, appVars
    <2>5. WatchInv' /\ StopInv' /\ WriteInv'
        BY <1>0, <1>5, <2>3, WatchKept, StopKept, WriteKept DEF postElse, connVars, appVars
    <2>6. /\ \A f \in Fds : Pending(f)' <=> Pending(f) \/ f = fd[closing]
          /\ \A f \in Fds : Once(RemoveOf(f))' /\ (Queued(RemoveOf(f))' => f \notin timers')
        BY <1>0, <1>2, <2>1, <2>2, EventType DEF Pending, RemovalInv
    <2>7. RemovalInv'
        BY <1>0, <1>2, <1>5, <2>6, Ids DEF RemovalInv, ConnInv, postElse, connVars
    <2> QED
        BY <1>3, <1>4, <2>4, <2>5, <2>7 DEF IInv
<1>6. CASE leaked' = leaked \cup {closing} /\ UNCHANGED queue
    <2>1. TypeOK'
        BY <1>0, <1>2, <1>6 DEF TypeOK, Resume, postElse, connVars, ioVars, appVars
    <2>2. WatchInv'
        BY <1>0, <1>6 DEF WatchInv, postElse, connVars
    <2>3. StopInv' /\ WriteInv'
        BY <1>0, <1>6, QueueKept, StopKept, WriteKept DEF postElse, connVars, appVars
    <2>4. \A f \in Fds : /\ Pending(f)' <=> Pending(f)
                         /\ Once(RemoveOf(f))' /\ (Queued(RemoveOf(f))' => f \notin timers')
        BY <1>0, <1>6 DEF Pending, RemovalInv, Queued, Once
    <2>5. RemovalInv'
        BY <1>0, <1>2, <1>6, <2>4, Ids DEF RemovalInv, ConnInv, postElse, connVars
    <2> QED
        BY <1>3, <1>4, <2>1, <2>2, <2>3, <2>5 DEF IInv
<1> QED
    BY <1>5, <1>6 DEF PostPush

-----------------------------------------------------------------------------
(* The loop thread on its way, and in a channel's handlers.                *)

\* Steps that move the loop alone.
LEMMA WalkKeeps ==
    ASSUME IInv, UNCHANGED walkElse, UNCHANGED closing, lpc # "write",
           TypeOK', LoopInv'
    PROVE  IInv'
<1>0. TypeOK /\ ConnInv /\ WatchInv /\ LoopInv /\ RemovalInv /\ StopInv /\ WriteInv
    BY DEF IInv
<1>1. RemovalsKept /\ ClosesKept
    BY QueueKept DEF walkElse
<1>2. ConnInv' /\ WatchInv' /\ RemovalInv' /\ StopInv' /\ WriteInv'
    BY <1>0, <1>1, ConnKept, WatchKept, RemovalKept, StopKept, WriteKept
    DEF walkElse, connVars, appVars
<1> QED
    BY <1>2 DEF IInv

LEMMA WalkStep ==
    ASSUME IInv, Drained \/ Wait \/ Serve \/ Served
    PROVE  IInv'
<1>0. TypeOK /\ ConnInv /\ LoopInv
    BY DEF IInv
<1>1. CASE Drained
    <2>1. TypeOK'
        BY <1>0, <1>1 DEF TypeOK, Drained, postElse, connVars, ioVars, appVars
    <2>2. LoopInv'
        BY <1>0, <1>1 DEF LoopInv, Held, Drained, postElse, connVars
    <2> QED
        BY <1>1, <2>1, <2>2, WalkKeeps DEF Drained, postElse, walkElse
<1>2. CASE Wait
    <2>1. /\ batch' \subseteq {channels[f] : f \in {g \in Fds : channels[g] # NoConn}}
          /\ lpc = "timers" /\ lpc' = "channel" /\ UNCHANGED <<walkElse, cur, revents, closing>>
        BY <1>2 DEF Wait
    <2>2. \A c \in batch' : c \in Conns /\ Held(c)
        BY <1>0, <2>1 DEF ConnInv, TypeOK
    <2>3. TypeOK'
        BY <1>0, <2>1, <2>2 DEF TypeOK, walkElse, connVars, ioVars, appVars
    <2>4. LoopInv'
        BY <1>0, <2>1, <2>2 DEF LoopInv, Held, walkElse, connVars
    <2> QED
        BY <2>1, <2>3, <2>4, WalkKeeps
<1>3. CASE Serve
    <2>1. PICK c \in batch :
              /\ lpc = "channel" /\ cur' = c /\ batch' = batch \ {c}
              /\ revents' \subseteq {"IN", "HUP", "OUT"}
              /\ UNCHANGED <<walkElse, lpc, closing>>
        BY <1>3 DEF Serve
    <2>2. TypeOK'
        BY <1>0, <2>1 DEF TypeOK, walkElse, connVars, ioVars, appVars
    <2>3. c # NoConn
        BY <1>0, Ids DEF TypeOK
    <2>4. LoopInv'
        BY <1>0, <2>1, <2>3 DEF LoopInv, Held, walkElse, connVars
    <2> QED
        BY <2>1, <2>2, <2>4, WalkKeeps
<1>4. CASE Served
    <2>1. TypeOK'
        BY <1>0, <1>4 DEF TypeOK, Served, walkElse, connVars, ioVars, appVars
    <2>2. LoopInv'
        BY <1>0, <1>4 DEF LoopInv, Held, Served, walkElse, connVars
    <2> QED
        BY <1>4, <2>1, <2>2, WalkKeeps DEF Served
<1> QED
    BY <1>1, <1>2, <1>3, <1>4

\* A handler's steps that close nothing.
LEMMA HandlerKeeps ==
    ASSUME IInv, UNCHANGED handlerElse, UNCHANGED <<closed, channels, closing, leaked>>,
           revents' \subseteq revents, TypeOK', WriteInv',
           lpc \in {"channel", "callback", "write", "return"}, cur # NoConn,
           lpc' \in {"channel", "callback", "write", "return"}
    PROVE  IInv'
<1>0. TypeOK /\ ConnInv /\ WatchInv /\ LoopInv /\ RemovalInv /\ StopInv
    BY DEF IInv
<1>1. RemovalsKept /\ ClosesKept
    BY QueueKept DEF handlerElse
<1>2. ConnInv' /\ WatchInv' /\ RemovalInv' /\ StopInv'
    BY <1>0, <1>1, ConnKept, WatchKept, RemovalKept, StopKept DEF handlerElse, connVars
<1>3. LoopInv'
    BY <1>0 DEF LoopInv, Held, handlerElse, connVars
<1> QED
    BY <1>2, <1>3 DEF IInv

LEMMA HandleReadKeeps ==
    ASSUME IInv, HandleRead
    PROVE  IInv'
<1>0. /\ lpc = "channel" /\ "IN" \in revents /\ UNCHANGED <<handlerElse, ioVars>>
      /\ TypeOK /\ LoopInv /\ WriteInv
    BY DEF HandleRead, IInv
<1>1. cur # NoConn
    BY <1>0 DEF LoopInv
<1>2. CASE revents' = revents \ {"IN"} /\ Close(cur, revents \ {"IN"})
    BY <1>0, <1>1, <1>2, HandlerCloses
<1>3. CASE lpc' = "callback" /\ UNCHANGED <<revents, closed, channels, closing, leaked>>
    <2>1. TypeOK'
        BY <1>0, <1>3 DEF TypeOK, handlerElse, connVars, ioVars, appVars
    <2>2. WriteInv'
        BY <1>0, <1>3, QueueKept, WriteKept DEF handlerElse, appVars
    <2> QED
        BY <1>0, <1>1, <1>3, <2>1, <2>2, HandlerKeeps
<1> QED
    BY <1>2, <1>3 DEF HandleRead

LEMMA SendKeeps ==
    ASSUME IInv, Send
    PROVE  IInv'
<1>0. /\ lpc = "callback" /\ lpc' = "write" /\ UNCHANGED handlerElse
      /\ buffered' = [buffered EXCEPT ![cur] = IF @ < MaxQueue THEN @ + 1 ELSE @]
      /\ UNCHANGED <<closed, writing, channels, revents, closing, leaked>>
      /\ TypeOK /\ LoopInv /\ WriteInv
    BY DEF Send, IInv
<1>1. cur # NoConn /\ cur \in Conns
    BY <1>0 DEF LoopInv, TypeOK
<1>2. buffered' \in [Conns -> 0 .. MaxQueue]
    BY <1>0, <1>1, TcpAssumption DEF TypeOK
<1>3. TypeOK'
    BY <1>0, <1>2 DEF TypeOK, handlerElse, connVars, appVars
<1>4. \A c \in Conns : c # cur => buffered'[c] = buffered[c]
    BY <1>0 DEF TypeOK
<1>5. WriteInv'
    BY <1>0, <1>4 DEF WriteInv, FollowedUp, Queued, handlerElse, appVars
<1> QED
    BY <1>0, <1>1, <1>3, <1>5, HandlerKeeps

LEMMA ReadReturnsKeeps ==
    ASSUME IInv, ReadReturns
    PROVE  IInv'
<1>0. /\ lpc \in {"callback", "return"} /\ revents' = revents \ {"IN"}
      /\ UNCHANGED <<handlerElse, ioVars>> /\ TypeOK /\ LoopInv /\ WriteInv
    BY DEF ReadReturns, IInv
<1>1. cur # NoConn
    BY <1>0 DEF LoopInv
<1>2. CASE lpc' = "channel" /\ UNCHANGED <<closed, channels, closing, leaked>>
    <2>1. TypeOK'
        BY <1>0, <1>2 DEF TypeOK, handlerElse, connVars, ioVars, appVars
    <2>2. WriteInv'
        BY <1>0, <1>2, QueueKept, WriteKept DEF handlerElse, appVars
    <2> QED
        BY <1>0, <1>1, <1>2, <2>1, <2>2, HandlerKeeps
<1>3. CASE Close(cur, revents \ {"IN"})
    BY <1>0, <1>1, <1>3, HandlerCloses
<1> QED
    BY <1>2, <1>3 DEF ReadReturns

\* The buffer may keep bytes that EVENT_OUT does not follow up only if the
\* try_lock failed, and then Disconnect has the connection in hand.
LEMMA HandleWriteKeeps ==
    ASSUME IInv, HandleWrite
    PROVE  IInv'
<1>0. /\ lpc \in {"channel", "write"} /\ revents' = AfterWrite /\ UNCHANGED handlerElse
      /\ TypeOK /\ LoopInv /\ WriteInv
    BY DEF HandleWrite, AtWrite, IInv
<1>1. cur # NoConn /\ cur \in Conns
    BY <1>0 DEF HandleWrite, AtWrite, LoopInv, TypeOK
<1>2. revents' \subseteq revents
    BY <1>0 DEF AfterWrite
<1>3. \A rest : Resume(rest) \in {"channel", "return"}
    BY <1>1 DEF Resume
<1>4. ConnMutexFree(cur) <=> victim # cur
    BY <1>0 DEF ConnMutexFree
<1>5. CASE /\ closed[cur] \/ ~ConnMutexFree(cur)
           /\ lpc' = Resume(AfterWrite)
           /\ UNCHANGED <<closed, ioVars, channels, closing, leaked>>
    <2>1. TypeOK'
        BY <1>0, <1>2, <1>3, <1>5 DEF TypeOK, handlerElse, connVars, ioVars, appVars
    <2>2. WriteInv'
        BY <1>0, <1>4, <1>5 DEF WriteInv, FollowedUp, Queued, handlerElse, ioVars, appVars
    <2> QED
        BY <1>0, <1>1, <1>2, <1>3, <1>5, <2>1, <2>2, HandlerKeeps
<1>6. CASE /\ \E n \in 0 .. buffered[cur] : WritePart(n)
           /\ lpc' = Resume(AfterWrite)
           /\ UNCHANGED <<closed, channels, closing, leaked>>
    <2>1. PICK n \in 0 .. buffered[cur] : WritePart(n)
        BY <1>6
    <2>2. /\ buffered' = [buffered EXCEPT ![cur] = n]
          /\ writing' = [writing EXCEPT ![cur] = n > 0]
        BY <2>1 DEF WritePart
    <2>3. buffered[cur] \in 0 .. MaxQueue /\ n \in 0 .. MaxQueue
        BY <1>0, <1>1, TcpAssumption DEF TypeOK
    <2>4. buffered' \in [Conns -> 0 .. MaxQueue] /\ writing' \in [Conns -> BOOLEAN]
        <3>1. buffered' \in [Conns -> 0 .. MaxQueue]
            BY <1>0, <2>2, <2>3 DEF TypeOK
        <3>2. (n > 0) \in BOOLEAN
            OBVIOUS
        <3>3. writing' \in [Conns -> BOOLEAN]
            BY <1>0, <2>2, <3>2, Zenon DEF TypeOK
        <3> QED
            BY <3>1, <3>3
    <2>5. TypeOK'
        BY <1>0, <1>2, <1>3, <1>6, <2>4 DEF TypeOK, handlerElse, connVars, appVars
    <2>6. /\ buffered'[cur] > 0 => writing'[cur]
          /\ \A c \in Conns : c # cur => buffered'[c] = buffered[c] /\ writing'[c] = writing[c]
        BY <1>0, <1>1, <2>2 DEF TypeOK
    <2>7. WriteInv'
        BY <1>0, <1>6, <2>6 DEF WriteInv, FollowedUp, Queued, handlerElse, appVars
    <2> QED
        BY <1>0, <1>1, <1>2, <1>3, <1>6, <2>5, <2>7, HandlerKeeps
<1>7. CASE Close(cur, AfterWrite) /\ UNCHANGED ioVars
    BY <1>0, <1>1, <1>2, <1>7, HandlerCloses
<1> QED
    BY <1>5, <1>6, <1>7 DEF HandleWrite

LEMMA HandleCloseKeeps ==
    ASSUME IInv, HandleClose
    PROVE  IInv'
<1>0. /\ lpc = "channel" /\ revents = {"HUP"} /\ revents' = {} /\ Close(cur, {})
      /\ UNCHANGED <<handlerElse, ioVars>> /\ LoopInv
    BY DEF HandleClose, IInv
<1>1. cur # NoConn
    BY <1>0 DEF LoopInv
<1> QED
    BY <1>0, <1>1, HandlerCloses

-----------------------------------------------------------------------------
(* The application's thread.                                               *)

\* Its steps keep what is not StopInv or the queue's.
LEMMA AppKeeps ==
    ASSUME IInv, UNCHANGED appElse, RemovalsKept, leaked' = leaked,
           TypeOK', StopInv', WriteInv'
    PROVE  IInv'
<1>0. TypeOK /\ ConnInv /\ WatchInv /\ LoopInv /\ RemovalInv
    BY DEF IInv
<1>1. ConnInv' /\ WatchInv' /\ LoopInv' /\ RemovalInv'
    BY <1>0, ConnKept, WatchKept, LoopKept, RemovalKept DEF appElse, connVars, loopVars
<1> QED
    BY <1>1 DEF IInv

LEMMA StartKeeps ==
    ASSUME IInv, Start \/ CloseListener \/ StopEnds \/ StopUnlock
    PROVE  IInv'
<1>0. /\ TypeOK /\ StopInv /\ WriteInv
      /\ UNCHANGED <<appElse, queue, todo, victim, late, unposted, leaked>>
    BY DEF IInv, Start, CloseListener, StopEnds, StopUnlock
<1>1. RemovalsKept /\ ClosesKept /\ \A e : Queued(e)' <=> Queued(e)
    BY <1>0, QueueKept DEF Queued
<1>2. TypeOK'
    <2>1. /\ app' \in {"new", "running", "visit", "test", "push", "unlocked", "waiting", "stopped"}
          /\ listening' \in BOOLEAN
        BY <1>0 DEF TypeOK, Start, CloseListener, StopEnds, StopUnlock
    <2> QED
        BY <1>0, <2>1 DEF TypeOK, appElse, connVars, ioVars, loopVars
<1>3. WriteInv'
    BY <1>0, <1>1, WriteKept DEF appElse, loopVars
<1>4. StopInv'
    <2>1. \A c : Called(c)' <=> Called(c)
        BY <1>0, <1>1 DEF Called
    <2>2. CASE Start
        BY <1>0, <1>1, <2>1, <2>2 DEF StopInv, Start, appElse, connVars
    <2>3. CASE CloseListener \/ StopEnds
        BY <1>0, <1>1, <2>1, <2>3
        DEF StopInv, CloseListener, StopEnds, Visiting, appElse, connVars
    <2>4. CASE StopUnlock
        BY <1>0, <1>1, <2>1, <2>4 DEF StopInv, StopUnlock, Visiting, appElse, connVars
    <2> QED
        BY <2>2, <2>3, <2>4
<1> QED
    BY <1>0, <1>1, <1>2, <1>3, <1>4, AppKeeps

LEMMA StopLockKeeps ==
    ASSUME IInv, StopLock
    PROVE  IInv'
<1>0. /\ TypeOK /\ ConnInv /\ StopInv /\ WriteInv
      /\ app = "running" /\ app' = "visit"
      /\ todo' = {connections[f] : f \in Fds} \ {NoConn}
      /\ UNCHANGED <<appElse, queue, listening, victim, late, unposted, leaked>>
    BY DEF IInv, StopLock
<1>1. RemovalsKept /\ ClosesKept /\ \A e : Queued(e)' <=> Queued(e)
    BY <1>0, QueueKept DEF Queued
<1>2. todo' \subseteq 1 .. accepted /\ todo' \subseteq Conns
    BY <1>0, Ids DEF ConnInv
<1>3. TypeOK'
    BY <1>0, <1>2 DEF TypeOK, appElse, connVars, ioVars, loopVars
<1>4. WriteInv'
    BY <1>0, <1>1, WriteKept DEF appElse, loopVars
<1>5. StopInv'
    <2>1. \A f \in Fds : connections'[f] # NoConn => connections'[f] \in todo'
        BY <1>0 DEF appElse
    <2> QED
        BY <1>0, <1>1, <1>2, <2>1 DEF StopInv, Visiting, appElse, connVars
<1> QED
    BY <1>0, <1>1, <1>3, <1>4, <1>5, AppKeeps

LEMMA DisconnectLockKeeps ==
    ASSUME IInv, DisconnectLock
    PROVE  IInv'
<1>0. TypeOK /\ StopInv /\ WriteInv
    BY DEF IInv
<1>1. PICK c \in todo :
          /\ app = "visit" /\ app' = "test" /\ victim' = c /\ todo' = todo \ {c}
          /\ UNCHANGED <<appElse, queue, listening, late, unposted, leaked>>
    BY DEF DisconnectLock
<1>2. c # NoConn /\ c \in 1 .. accepted /\ c \in Conns /\ victim = NoConn
    BY <1>0, <1>1, Ids DEF StopInv, TypeOK
<1>3. RemovalsKept /\ \A e : Queued(e)' <=> Queued(e)
    BY <1>1, QueueKept DEF Queued
<1>4. TypeOK'
    BY <1>0, <1>1, <1>2 DEF TypeOK, appElse, connVars, ioVars, loopVars
<1>5. WriteInv'
    BY <1>0, <1>1, <1>2, <1>3, Ids DEF WriteInv, FollowedUp, appElse, ioVars, loopVars
<1>6. StopInv'
    <2>1. \A d : Called(d)' <=> Called(d)
        BY <1>1, <1>3 DEF Called
    <2> QED
        BY <1>0, <1>1, <1>2, <1>3, <2>1 DEF StopInv, Visiting, appElse, connVars
<1> QED
    BY <1>1, <1>3, <1>4, <1>5, <1>6, AppKeeps

\* Disconnect lets go of the connection: its Close is queued or was refused.
LEMMA DisconnectKeeps ==
    ASSUME IInv, DisconnectTest \/ DisconnectPush
    PROVE  IInv'
<1>0. TypeOK /\ StopInv /\ WriteInv
    BY DEF IInv
<1>1. /\ app \in {"test", "push"} /\ victim \in 1 .. accepted /\ victim \in Conns
      /\ victim # NoConn
      /\ UNCHANGED <<appElse, listening, todo, late, leaked>>
    <2>1. app \in {"test", "push"} /\ UNCHANGED <<appElse, listening, todo, late, leaked>>
        BY DEF DisconnectTest, DisconnectPush
    <2> QED
        BY <1>0, <2>1, Ids DEF StopInv
<1>2. CASE app' = "push" /\ UNCHANGED <<queue, victim, unposted>>
    <2>1. RemovalsKept /\ ClosesKept /\ \A e : Queued(e)' <=> Queued(e)
        BY <1>2, QueueKept DEF Queued
    <2>2. TypeOK'
        BY <1>0, <1>1, <1>2 DEF TypeOK, appElse, connVars, ioVars, loopVars
    <2>3. WriteInv'
        BY <1>0, <1>1, <1>2, <2>1, WriteKept DEF appElse, loopVars
    <2>4. StopInv'
        BY <1>0, <1>1, <1>2, <2>1 DEF StopInv, Visiting, Called, appElse, connVars
    <2> QED
        BY <1>1, <2>1, <2>2, <2>3, <2>4, AppKeeps
<1>3. CASE /\ app' = "visit" /\ victim' = NoConn
           /\ \/ /\ Len(queue) < Capacity /\ queue' = Append(queue, CloseOf(victim))
                 /\ unposted' = unposted
              \/ queue' = queue /\ unposted' = unposted \cup {victim}
    <2>1. /\ queue' \in Seq(Events) /\ Len(queue') <= Capacity
          /\ unposted' \subseteq Conns
          /\ \A e : Queued(e) => Queued(e)'
          /\ \A e : Queued(e)' => Queued(e) \/ e = CloseOf(victim)
          /\ \A d : d = victim => Queued(CloseOf(d))' \/ d \in unposted'
          /\ unposted \subseteq unposted'
          /\ RemovalsKept
        <3>1. CASE Len(queue) < Capacity /\ queue' = Append(queue, CloseOf(victim)) /\ unposted' = unposted
            <4>1. /\ queue' \in Seq(Events) /\ Len(queue') <= Capacity
                  /\ \A e : Queued(e)' <=> Queued(e) \/ e = CloseOf(victim)
                  /\ \A e : Once(e) /\ (e = CloseOf(victim) => ~Queued(e)) => Once(e)'
                BY <1>0, <1>1, <3>1, EventType, Pushed
            <4>2. RemovalsKept
                BY <1>1, <4>1, EventType DEF RemovalsKept
            <4> QED
                BY <1>0, <3>1, <4>1, <4>2 DEF TypeOK
        <3>2. CASE queue' = queue /\ unposted' = unposted \cup {victim}
            BY <1>0, <1>1, <3>2, QueueType, QueueKept DEF TypeOK, Queued
        <3> QED
            BY <1>3, <3>1, <3>2
    <2>2. TypeOK'
        BY <1>0, <1>1, <1>3, <2>1 DEF TypeOK, Events, appElse, connVars, ioVars, loopVars
    <2>3. WriteInv'
        BY <1>0, <1>1, <2>1 DEF WriteInv, FollowedUp, appElse, ioVars, loopVars
    <2>4. StopInv'
        <3>1. \A d \in Conns : Called(d) \/ d = victim => Called(d)'
            BY <1>1, <2>1 DEF Called
        <3>2. \A d \in Conns : Queued(CloseOf(d))' => d \in 1 .. accepted
            BY <1>0, <1>1, <2>1, EventType DEF StopInv
        <3>3. \A f \in Fds : connections[f] = NoConn \/ connections[f] \in Conns
            BY <1>0 DEF TypeOK
        <3>4. /\ app \notin {"new", "running"} /\ app' = "visit" /\ victim' = NoConn
              /\ UNCHANGED <<connections, closed, todo, accepted>>
            BY <1>1, <1>3 DEF appElse, connVars
        <3> QED
            BY <1>0, <3>1, <3>2, <3>3, <3>4 DEF StopInv, Visiting
    <2> QED
        BY <1>1, <2>1, <2>2, <2>3, <2>4, AppKeeps
<1> QED
    BY <1>2, <1>3 DEF DisconnectTest, DisconnectPush

-----------------------------------------------------------------------------
LEMMA StepKeeps == IInv /\ [Next]_vars => IInv'
<1> SUFFICES ASSUME IInv, [Next]_vars PROVE IInv'
    OBVIOUS
<1>1. CASE \E f \in Fds : Accept(f)
    BY <1>1, AcceptKeeps
<1>2. CASE AcceptStep
    BY <1>2, AddKeeps, SetKeeps DEF AcceptStep
<1>3. CASE LoopStep
    <2>1. CASE PostTest \/ PostPush \/ RunClose \/ RunRemove \/ \E f \in Fds : RunTimer(f)
        BY <2>1, PostTestKeeps, PostPushKeeps, RunCloseKeeps, RunRemoveKeeps, RunTimerKeeps
    <2>2. CASE Drained \/ Wait \/ Serve \/ Served
        BY <2>2, WalkStep
    <2>3. CASE HandleRead \/ Send \/ ReadReturns \/ HandleWrite \/ HandleClose
        BY <2>3, HandleReadKeeps, SendKeeps, ReadReturnsKeeps, HandleWriteKeeps,
           HandleCloseKeeps
    <2> QED
        BY <1>3, <2>1, <2>2, <2>3 DEF LoopStep
<1>4. CASE Start \/ StopLock \/ StopStep
    BY <1>4, StartKeeps, StopLockKeeps, DisconnectLockKeeps, DisconnectKeeps DEF StopStep
<1>5. CASE UNCHANGED vars
    <2>1. UNCHANGED appElse /\ UNCHANGED <<queue, listening, appVars, late, unposted, leaked>>
        BY <1>5 DEF vars, appElse
    <2>2. TypeOK /\ StopInv /\ WriteInv /\ RemovalsKept /\ ClosesKept
        BY <2>1, QueueKept DEF IInv
    <2>3. TypeOK'
        BY <2>1, <2>2 DEF TypeOK, appElse, appVars, connVars, ioVars, loopVars
    <2>4. StopInv' /\ WriteInv'
        BY <2>1, <2>2, StopKept, WriteKept DEF appElse, appVars, connVars, loopVars
    <2> QED
        BY <2>1, <2>2, <2>3, <2>4, AppKeeps
<1> QED
    BY <1>1, <1>2, <1>3, <1>4, <1>5 DEF Next

LEMMA Invariance == Spec => []IInv
BY InitHolds, StepKeeps, PTL DEF Spec

-----------------------------------------------------------------------------
(* The theorems.                                                           *)

\* How many removals of f there are, from what IInv says of them.
LEMMA RemovalCount ==
    ASSUME IInv, NEW f \in Fds
    PROVE  /\ Pending(f) => Removals(f) = 1
           /\ ~Pending(f) => Removals(f) = 0
<1> DEFINE Q == {i \in 1 .. Len(queue) : queue[i] = RemoveOf(f)}
           T == {f} \cap timers
<1>1. Once(RemoveOf(f)) /\ (Queued(RemoveOf(f)) => f \notin timers)
    BY DEF IInv, RemovalInv
<1>2. Queued(RemoveOf(f)) => \E i : Q = {i}
    <2> SUFFICES ASSUME Queued(RemoveOf(f)) PROVE \E i : Q = {i}
        OBVIOUS
    <2>1. PICK i \in 1 .. Len(queue) : queue[i] = RemoveOf(f)
        BY DEF Queued
    <2>2. \A j \in 1 .. Len(queue) : queue[j] = RemoveOf(f) => j = i
        BY <1>1, <2>1 DEF Once
    <2>3. Q = {i}
        BY <2>1, <2>2
    <2> QED
        BY <2>3
<1>3. ~Queued(RemoveOf(f)) => Q = {}
    BY DEF Queued
<1>4. (f \in timers => T = {f}) /\ (f \notin timers => T = {})
    OBVIOUS
<1>5. Cardinality({}) = 0 /\ \A x : Cardinality({x}) = 1
    BY FS_EmptySet, FS_Singleton
<1>6. Removals(f) = Cardinality(Q) + Cardinality(T)
    BY DEF Removals
<1> HIDE DEF Q, T
<1>7. /\ Queued(RemoveOf(f)) => Cardinality(Q) = 1
      /\ ~Queued(RemoveOf(f)) => Cardinality(Q) = 0
      /\ f \in timers => Cardinality(T) = 1
      /\ f \notin timers => Cardinality(T) = 0
    BY <1>2, <1>3, <1>4, <1>5, Zenon
<1>8. Queued(RemoveOf(f)) \in BOOLEAN
    BY DEF Queued
<1> QED
    BY <1>1, <1>6, <1>7, <1>8 DEF Pending

\* Every variable keeps its type, and the ring its size, whatever the threads
\* of the server do.
THEOREM TypeCorrect == Spec => []TypeOK
BY Invariance, PTL DEF IInv

\* The channels that epoll_wait reported are those of connections that still
\* exist when HandleEvents comes to them and while their handlers run.
THEOREM BatchesAreAlive == Spec => []BatchIsAlive
<1>1. IInv => BatchIsAlive
    BY DEF IInv, LoopInv, BatchIsAlive, Alive, Held
<1> QED
    BY <1>1, Invariance, PTL

\* TcpServer's RemoveConnection finds under the descriptor the closed
\* connection it was posted for, also when the kernel reuses descriptors.
THEOREM RemovalsHitTheirOwn == Spec => []RemovalHitsItsOwn
<1>1. IInv => RemovalHitsItsOwn
    <2> SUFFICES ASSUME IInv, NEW f \in Fds, Removals(f) > 0
                 PROVE  /\ Removals(f) = 1 /\ connections[f] # NoConn
                        /\ closed[connections[f]]
        BY DEF RemovalHitsItsOwn
    <2>1. Pending(f) /\ Removals(f) = 1
        BY RemovalCount
    <2> QED
        BY <2>1 DEF IInv, RemovalInv
<1> QED
    BY <1>1, Invariance, PTL

\* After TcpConnection::Close the removal is posted, about to be, or counted
\* as leaked by one of the two ways the code has to lose it.
THEOREM ClosedAreRemoved == Spec => []ClosedIsRemoved
<1>1. IInv => ClosedIsRemoved
    <2> SUFFICES ASSUME IInv, NEW f \in Fds, connections[f] # NoConn,
                        closed[connections[f]]
                 PROVE  \/ Removals(f) > 0 \/ closing = connections[f]
                        \/ connections[f] \in leaked
        BY DEF ClosedIsRemoved
    <2>1. Pending(f) => Removals(f) > 0
        BY RemovalCount
    <2> QED
        BY <2>1 DEF IInv, RemovalInv
<1> QED
    BY <1>1, Invariance, PTL

\* What TcpServer::Stop waits for has a Close coming, but for the connections
\* that were accepted behind it and those whose event the ring refused.
THEOREM StopsAreServed == Spec => []StopIsServed
<1>1. IInv => StopIsServed
    BY DEF IInv, StopInv, StopIsServed, Called, Visiting
<1> QED
    BY <1>1, Invariance, PTL

\* Bytes in write_buffer_ are followed up, also when HandleWrite's try_lock
\* fails.
THEOREM WritesAreFollowedUp == Spec => []NoStalledWrite
<1>1. IInv => NoStalledWrite
    <2> SUFFICES ASSUME IInv, NEW c \in Alive, ~closed[c], buffered[c] > 0
                 PROVE  FollowedUp(c)
        BY DEF NoStalledWrite, FollowedUp
    <2>1. c \in Conns
        BY Ids DEF Alive, IInv
    <2> QED
        BY <2>1 DEF IInv, WriteInv
<1> QED
    BY <1>1, Invariance, PTL

-----------------------------------------------------------------------------
(* With one loop thread and room for two events of each descriptor nothing   *)
(* is left behind.                                                           *)

OneThreadAndRoom == /\ Placements = {TRUE}
                    /\ IsFiniteSet(Fds) /\ 2 * Cardinality(Fds) <= Capacity

\* Alive, without the threads that run a closure.
Referenced == {c \in 1 .. accepted : \/ connections[fd[c]] = c
                                     \/ acc # "idle" /\ c = accepted
                                     \/ Queued(CloseOf(c))
                                     \/ victim = c}

\* Its own thread has set the callback of each before it serves one.
WatchedInv == \A c \in 1 .. accepted : c \in watched \/ (acc # "idle" /\ c = accepted)

\* A descriptor is not given again while its connection exists.
DistinctInv == \A c, d \in Referenced : fd[c] = fd[d] => c = d

\* Stop calls each connection once.
CallInv ==
    /\ \A c \in Conns : /\ Once(CloseOf(c))
                        /\ Queued(CloseOf(c)) => /\ app \notin {"new", "running"}
                                                 /\ c \notin todo \cup {victim}
    /\ \A c \in todo : app \in Visiting /\ connections[fd[c]] = c
    /\ victim \notin todo

RoomInv == same_thread /\ WatchedInv /\ DistinctInv /\ CallInv /\ NothingLeaks

LEMMA AliveIsReferenced == IInv => Alive = Referenced
BY Ids DEF IInv, LoopInv, RemovalInv, Alive, Referenced

\* An event that is not queued fits: of a descriptor there are one Close and
\* one removal at most.
LEMMA QueueFits ==
    ASSUME OneThreadAndRoom, IInv, RoomInv, NEW x \in Events, ~Queued(x),
           \A c \in Conns : x = CloseOf(c) => c \in Referenced
    PROVE  Len(queue) < Capacity
<1> DEFINE n == Len(queue)
           q == Append(queue, x)
           S == {"close", "remove"} \X Fds
           key(e) == <<e.op, IF e.op = "close" THEN fd[e.conn] ELSE e.fd>>
           Good == {CloseOf(c) : c \in Referenced} \cup {RemoveOf(f) : f \in Fds}
           g == [i \in 1 .. n + 1 |-> key(q[i])]
<1>0. /\ TypeOK /\ ConnInv /\ RemovalInv /\ StopInv /\ DistinctInv /\ CallInv
      /\ queue \in Seq(Events) /\ n \in Nat
    BY QueueType DEF IInv, RoomInv
<1>1. /\ \A i \in 1 .. n : q[i] = queue[i] /\ queue[i] \in Events
      /\ q[n + 1] = x /\ \A i \in 1 .. n + 1 : i \in 1 .. n \/ i = n + 1
    BY <1>0
<1>2. \A i \in 1 .. n : Queued(queue[i]) /\ queue[i] # x
    BY DEF Queued
<1>3. \A i \in 1 .. n + 1 : q[i] \in Good
    <2>1. \A e \in Events : Queued(e) \/ e = x => e \in Good
        BY <1>0 DEF Events, Referenced, StopInv
    <2> QED
        BY <1>1, <1>2, <2>1
<1>4. \A i, j \in 1 .. n + 1 : q[i] = q[j] => i = j
    <2>1. \A e \in Events : Once(e)
        BY <1>0 DEF Events, CallInv, RemovalInv
    <2>2. \A i, j \in 1 .. n : queue[i] = queue[j] => i = j
        BY <1>1, <2>1 DEF Once
    <2> HIDE DEF q, n
    <2> QED
        BY <1>1, <1>2, <2>2
<1>5. \A e \in Good : key(e) \in S
    <2>1. ASSUME NEW c \in Referenced PROVE key(CloseOf(c)) = <<"close", fd[c]>> /\ fd[c] \in Fds
        BY <1>0 DEF ConnInv, Referenced, CloseOf
    <2>2. ASSUME NEW f \in Fds PROVE key(RemoveOf(f)) = <<"remove", f>>
        BY DEF RemoveOf
    <2> HIDE DEF key
    <2> QED
        BY <2>1, <2>2
<1>6. \A e, d \in Good : key(e) = key(d) => e = d
    BY <1>0 DEF DistinctInv, CloseOf, RemoveOf
<1>7. g \in Injection(1 .. n + 1, S)
    <2>1. \A i \in 1 .. n + 1 : g[i] = key(q[i])
        OBVIOUS
    <2>2. g \in [1 .. n + 1 -> S]
        BY <1>3, <1>5
    <2> HIDE DEF g, key, q, S, Good, n
    <2> QED
        BY <1>3, <1>4, <1>6, <2>1, <2>2 DEF Injection, IsInjective
<1>8. IsFiniteSet(S) /\ Cardinality(S) = 2 * Cardinality(Fds) /\ Cardinality(S) \in Nat
    <2>1. IsFiniteSet({"close", "remove"}) /\ Cardinality({"close", "remove"}) = 2
        <3>1. IsFiniteSet({"close"}) /\ Cardinality({"close"}) = 1
            BY FS_Singleton
        <3>2. {"close", "remove"} = {"close"} \cup {"remove"} /\ "remove" \notin {"close"}
            OBVIOUS
        <3> QED
            BY <3>1, <3>2, FS_AddElement
    <2>2. IsFiniteSet(Fds)
        BY DEF OneThreadAndRoom
    <2> QED
        BY <2>1, <2>2, FS_Product, FS_CardinalityType
<1>9. Cardinality(1 .. n + 1) = n + 1
    BY <1>0, FS_Interval
<1>10. n + 1 <= Cardinality(S)
    <2> HIDE DEF g, S, n
    <2> QED
        BY <1>7, <1>8, <1>9, FS_Injection
<1> QED
    BY <1>0, <1>8, <1>10, TcpAssumption DEF OneThreadAndRoom

\* Steps that call no connection and end no call.
LEMMA RoomKept ==
    ASSUME IInv, RoomInv, UNCHANGED <<connVars, acc, appVars>>, NothingLeaks',
           \A c \in Conns : /\ Queued(CloseOf(c))' => Queued(CloseOf(c))
                            /\ Once(CloseOf(c)) => Once(CloseOf(c))',
           \/ connections' = connections
           \/ todo = {} /\ \E f \in Fds : connections' = [connections EXCEPT ![f] = NoConn]
    PROVE  RoomInv'
<1>0. /\ TypeOK /\ ConnInv /\ StopInv /\ WatchedInv /\ DistinctInv /\ CallInv
      /\ 1 .. accepted \subseteq Conns /\ NoConn \notin Conns
    BY Ids DEF IInv, RoomInv
<1>1. \A c \in 1 .. accepted : connections'[fd[c]] = c => connections[fd[c]] = c
    BY <1>0 DEF TypeOK, ConnInv
<1>2. Referenced' \subseteq Referenced
    BY <1>0, <1>1 DEF Referenced, connVars, appVars
<1>3. DistinctInv'
    BY <1>0, <1>2 DEF DistinctInv, connVars
<1>4. WatchedInv'
    BY <1>0 DEF WatchedInv, connVars
<1>5. CallInv'
    BY <1>0 DEF CallInv, connVars, appVars
<1> QED
    BY <1>3, <1>4, <1>5 DEF RoomInv, connVars

LEMMA RoomInitially == OneThreadAndRoom /\ Init => RoomInv
<1> SUFFICES ASSUME OneThreadAndRoom, Init PROVE RoomInv
    OBVIOUS
<1>1. 1 .. accepted = {} /\ Referenced = {} /\ NoConn \notin {}
    BY DEF Init, Referenced
<1>2. \A e : ~Queued(e) /\ Once(e)
    BY DEF Init, Queued, Once
<1> QED
    BY <1>1, <1>2 DEF Init, OneThreadAndRoom, RoomInv, WatchedInv, DistinctInv, CallInv,
                      NothingLeaks

\* OnAccept takes a descriptor that nobody has.
LEMMA AcceptKeepsRoom ==
    ASSUME IInv, RoomInv, NEW f \in Fds, Accept(f)
    PROVE  RoomInv'
<1> DEFINE c == accepted + 1
<1>0. /\ TypeOK /\ ConnInv /\ StopInv /\ WatchedInv /\ DistinctInv /\ CallInv /\ NothingLeaks
      /\ c \in Conns /\ accepted' = c /\ acc = "idle" /\ acc' = "add"
      /\ f \notin {fd[d] : d \in Referenced}
      /\ fd' = [fd EXCEPT ![c] = f]
      /\ UNCHANGED <<acceptElse, watched, connections, late>>
    BY AliveIsReferenced DEF IInv, RoomInv, Accept, FreeFds
<1>1. /\ accepted \in Nat /\ 1 .. accepted \subseteq Conns
      /\ c \notin 1 .. accepted /\ c \in 1 .. c
      /\ \A d \in 1 .. c : d = c \/ d \in 1 .. accepted
      /\ fd'[c] = f /\ \A d \in 1 .. accepted : fd'[d] = fd[d]
    BY <1>0, Ids DEF TypeOK
<1> HIDE DEF c
<1>2. Referenced' \subseteq Referenced \cup {c}
    <2>1. \A e : Queued(e)' <=> Queued(e)
        BY <1>0 DEF Queued, acceptElse
    <2> QED
        BY <1>0, <1>1, <2>1 DEF Referenced, acceptElse, appVars
<1>3. DistinctInv'
    <2>1. \A d \in Referenced : d \in 1 .. accepted /\ fd[d] # f
        BY <1>0 DEF Referenced
    <2> QED
        BY <1>0, <1>1, <1>2, <2>1 DEF DistinctInv
<1>4. WatchedInv'
    BY <1>0, <1>1 DEF WatchedInv
<1>5. CallInv'
    BY <1>0, <1>1 DEF CallInv, StopInv, Queued, Once, acceptElse, appVars
<1> QED
    BY <1>0, <1>3, <1>4, <1>5 DEF RoomInv, NothingLeaks, acceptElse

LEMMA AcceptStepKeepsRoom ==
    ASSUME IInv, RoomInv, AcceptStep
    PROVE  RoomInv'
<1>0. /\ TypeOK /\ ConnInv /\ StopInv /\ WatchedInv /\ DistinctInv /\ CallInv /\ NothingLeaks
      /\ UNCHANGED <<acceptElse, accepted, fd>> /\ acc # "idle" /\ accepted \in 1 .. accepted
      /\ \A e : (Queued(e)' <=> Queued(e)) /\ (Once(e)' <=> Once(e))
    BY Ids DEF IInv, RoomInv, AcceptStep, AddConnection, SetDisconnectCallback, ConnInv,
               connVars, acceptElse, Queued, Once
<1>1. Referenced' \subseteq Referenced
    <2>1. CASE AddConnection
        <3>1. \A d \in 1 .. accepted : connections'[fd[d]] = d =>
                  connections[fd[d]] = d \/ d = accepted
            BY <1>0, <2>1 DEF AddConnection, TypeOK, ConnInv
        <3> QED
            BY <1>0, <3>1 DEF Referenced, acceptElse, appVars
    <2>2. CASE SetDisconnectCallback
        BY <1>0, <2>2 DEF Referenced, SetDisconnectCallback, acceptElse, appVars
    <2> QED
        BY <2>1, <2>2 DEF AcceptStep
<1>2. DistinctInv'
    BY <1>0, <1>1 DEF DistinctInv
<1>3. WatchedInv'
    BY <1>0 DEF WatchedInv, AcceptStep, AddConnection, SetDisconnectCallback, connVars
<1>4. CallInv'
    <2>1. connections' = connections \/ todo = {}
        BY <1>0 DEF CallInv, Visiting, AcceptStep, AddConnection, SetDisconnectCallback,
                    ServerMutexFree
    <2> QED
        BY <1>0, <2>1 DEF CallInv, acceptElse, appVars
<1> QED
    BY <1>0, <1>2, <1>3, <1>4 DEF RoomInv, NothingLeaks, acceptElse

\* The loop thread finds the callback of every connection set.
LEMMA CloseLeaksNothing ==
    ASSUME IInv, RoomInv, LoopRuns, NEW c \in 1 .. accepted, NEW rest, Close(c, rest)
    PROVE  leaked' = leaked
BY DEF RoomInv, WatchedInv, LoopRuns, Close

LEMMA LoopStepKeepsRoom ==
    ASSUME OneThreadAndRoom, IInv, RoomInv, LoopStep
    PROVE  RoomInv'
<1>0. /\ TypeOK /\ ConnInv /\ LoopInv /\ RemovalInv /\ StopInv /\ CallInv
      /\ NothingLeaks /\ 1 .. accepted \subseteq Conns
    BY Ids DEF IInv, RoomInv
<1>1. ASSUME queue' = queue
      PROVE  \A c \in Conns : /\ Queued(CloseOf(c))' => Queued(CloseOf(c))
                              /\ Once(CloseOf(c)) => Once(CloseOf(c))'
    BY <1>1 DEF Queued, Once
<1>2. ASSUME queue # <<>>, queue' = Tail(queue)
      PROVE  \A c \in Conns : /\ Queued(CloseOf(c))' => Queued(CloseOf(c))
                              /\ Once(CloseOf(c)) => Once(CloseOf(c))'
    BY <1>0, <1>2, Popped
<1>3. CASE PostTest \/ Drained \/ Wait \/ Serve \/ Served \/ Send
    <2>1. UNCHANGED <<connVars, acc, appVars, connections, queue, leaked, unposted>>
        BY <1>3 DEF PostTest, Drained, Wait, Serve, Served, Send, postElse, walkElse,
                    handlerElse
    <2> QED
        BY <1>0, <1>1, <2>1, RoomKept DEF NothingLeaks
<1>4. CASE PostPush
    <2>1. /\ closing \in 1 .. accepted /\ fd[closing] \in Fds
          /\ connections[fd[closing]] = closing /\ ~Queued(RemoveOf(fd[closing]))
        BY <1>0, <1>4 DEF PostPush, LoopInv, RemovalInv, ConnInv, Pending
    <2>2. Len(queue) < Capacity
        <3>1. RemoveOf(fd[closing]) \in Events
            BY <2>1, EventType
        <3>2. \A c \in Conns : RemoveOf(fd[closing]) # CloseOf(c)
            BY <2>1, EventType
        <3> QED
            BY <2>1, <3>1, <3>2, QueueFits
    <2>3. queue' = Append(queue, RemoveOf(fd[closing])) /\ leaked' = leaked
        BY <1>4, <2>2 DEF PostPush
    <2>4. \A c \in Conns : /\ Queued(CloseOf(c))' => Queued(CloseOf(c))
                           /\ Once(CloseOf(c)) => Once(CloseOf(c))'
        BY <1>0, <2>1, <2>2, <2>3, EventType, Pushed
    <2>5. UNCHANGED <<connVars, acc, appVars, connections, unposted>>
        BY <1>4 DEF PostPush, postElse
    <2> QED
        BY <1>0, <2>3, <2>4, <2>5, RoomKept DEF NothingLeaks
<1>5. CASE RunClose
    <2>1. PICK c \in Conns :
              /\ queue # <<>> /\ Head(queue) = CloseOf(c) /\ queue' = Tail(queue)
              /\ Close(c, {}) /\ LoopRuns
              /\ UNCHANGED <<connVars, ioVars, appVars, connections, timers, listening, acc,
                             batch, cur, revents, late, unposted>>
        BY <1>5 DEF RunClose
    <2>2. c \in 1 .. accepted
        <3>1. Queued(CloseOf(c))
            BY <1>0, <2>1, QueueType DEF Queued
        <3> QED
            BY <1>0, <3>1 DEF StopInv
    <2>3. leaked' = leaked
        BY <2>1, <2>2, CloseLeaksNothing
    <2> QED
        BY <1>0, <1>2, <2>1, <2>3, RoomKept DEF NothingLeaks
<1>6. CASE RunRemove \/ \E f \in Fds : RunTimer(f)
    <2>1. /\ queue' = queue \/ (queue # <<>> /\ queue' = Tail(queue))
          /\ ServerMutexFree /\ UNCHANGED <<connVars, acc, appVars, leaked, unposted>>
          /\ \E f \in Fds : connections' = [connections EXCEPT ![f] = NoConn]
        BY <1>6 DEF RunRemove, RunTimer, RemoveConnection
    <2>2. todo = {}
        BY <1>0, <2>1 DEF CallInv, ServerMutexFree, Visiting
    <2> QED
        BY <1>0, <1>1, <1>2, <2>1, <2>2, RoomKept DEF NothingLeaks
<1>7. CASE HandleRead \/ ReadReturns \/ HandleWrite \/ HandleClose
    <2>1. /\ UNCHANGED <<connVars, acc, appVars, connections, queue, unposted>>
          /\ LoopRuns
          /\ leaked' = leaked \/ \E rest : Close(cur, rest)
        BY <1>7 DEF HandleRead, ReadReturns, HandleWrite, HandleClose, handlerElse
    <2>2. cur \in 1 .. accepted
        BY <1>0, <1>7 DEF HandleRead, ReadReturns, HandleWrite, HandleClose, AtWrite, LoopInv,
                          Held
    <2>3. leaked' = leaked
        <3>1. ASSUME NEW rest, Close(cur, rest) PROVE leaked' = leaked
            BY <2>1, <2>2, <3>1, CloseLeaksNothing
        <3> QED
            BY <2>1, <3>1
    <2> QED
        BY <1>0, <1>1, <2>1, <2>3, RoomKept DEF NothingLeaks
<1> QED
    BY <1>3, <1>4, <1>5, <1>6, <1>7 DEF LoopStep

\* The steps of Start and Stop that leave the queue alone.
LEMMA AppStepKeepsRoom ==
    ASSUME IInv, RoomInv, Start \/ StopLock \/ DisconnectLock \/ StopUnlock
                          \/ CloseListener \/ StopEnds
    PROVE  RoomInv'
<1>0. /\ TypeOK /\ ConnInv /\ StopInv /\ WatchedInv /\ DistinctInv /\ CallInv /\ NothingLeaks
      /\ UNCHANGED <<appElse, queue, late, unposted, leaked>>
      /\ \A e : (Queued(e)' <=> Queued(e)) /\ (Once(e)' <=> Once(e))
    BY DEF IInv, RoomInv, Start, StopLock, DisconnectLock, StopUnlock, CloseListener, StopEnds,
           Queued, Once
<1>1. Referenced' \subseteq Referenced
    BY <1>0 DEF Referenced, appElse, connVars, CallInv, Start, StopLock, DisconnectLock,
                StopUnlock, CloseListener, StopEnds
<1>2. DistinctInv' /\ WatchedInv'
    BY <1>0, <1>1 DEF DistinctInv, WatchedInv, appElse, connVars
<1>3. CallInv'
    <2>1. CASE Start \/ StopUnlock \/ CloseListener \/ StopEnds
        BY <1>0, <2>1 DEF CallInv, Visiting, appElse, connVars, Start, StopUnlock,
                          CloseListener, StopEnds
    <2>2. CASE StopLock
        <3>1. /\ app = "running" /\ app' = "visit" /\ victim' = victim
              /\ todo' = {connections[f] : f \in Fds} \ {NoConn}
            BY <2>2 DEF StopLock
        <3>2. \A c \in todo' : connections[fd[c]] = c
            BY <1>0, <3>1 DEF ConnInv
        <3>3. victim = NoConn
            BY <1>0, <3>1 DEF StopInv
        <3> QED
            BY <1>0, <3>1, <3>2, <3>3 DEF CallInv, Visiting, appElse, connVars
    <2>3. CASE DisconnectLock
        BY <1>0, <2>3 DEF CallInv, Visiting, appElse, connVars, DisconnectLock
    <2> QED
        BY <2>1, <2>2, <2>3
<1> QED
    BY <1>0, <1>2, <1>3 DEF RoomInv, NothingLeaks, appElse, connVars

\* Disconnect's Close is never refused.
LEMMA DisconnectKeepsRoom ==
    ASSUME OneThreadAndRoom, IInv, RoomInv, DisconnectTest \/ DisconnectPush
    PROVE  RoomInv'
<1>0. /\ TypeOK /\ ConnInv /\ StopInv /\ WatchedInv /\ DistinctInv /\ CallInv /\ NothingLeaks
      /\ UNCHANGED <<appElse, todo, leaked>> /\ app \in {"test", "push"}
    BY DEF IInv, RoomInv, DisconnectTest, DisconnectPush
<1>1. victim \in 1 .. accepted /\ victim \in Conns /\ victim # NoConn /\ victim \in Referenced
    BY <1>0, Ids DEF StopInv, Referenced
<1>2. Len(queue) < Capacity
    <2>1. CloseOf(victim) \in Events /\ ~Queued(CloseOf(victim))
        BY <1>0, <1>1, EventType DEF CallInv
    <2>2. \A c \in Conns : CloseOf(victim) = CloseOf(c) => c \in Referenced
        BY <1>1, EventType
    <2> QED
        BY <2>1, <2>2, QueueFits
<1>3. CASE DisconnectTest
    <2>1. app' = "push" /\ UNCHANGED <<victim, unposted, queue>>
        BY <1>2, <1>3 DEF DisconnectTest
    <2>2. \A e : (Queued(e)' <=> Queued(e)) /\ (Once(e)' <=> Once(e))
        BY <2>1 DEF Queued, Once
    <2>3. Referenced' = Referenced
        BY <1>0, <2>1, <2>2 DEF Referenced, appElse, connVars
    <2> QED
        BY <1>0, <2>1, <2>2, <2>3 DEF RoomInv, DistinctInv, WatchedInv, CallInv, NothingLeaks,
                                      Visiting, appElse, connVars
<1>4. CASE DisconnectPush
    <2>1. /\ app' = "visit" /\ victim' = NoConn /\ unposted' = unposted
          /\ queue' = Append(queue, CloseOf(victim))
        BY <1>2, <1>4 DEF DisconnectPush
    <2>2. /\ \A e : Queued(e)' <=> Queued(e) \/ e = CloseOf(victim)
          /\ \A e : Once(e) /\ (e = CloseOf(victim) => ~Queued(e)) => Once(e)'
        BY <1>0, <1>1, <1>2, <2>1, EventType, Pushed
    <2>3. \A c \in Conns : Queued(CloseOf(c))' <=> Queued(CloseOf(c)) \/ c = victim
        BY <1>1, <2>2, EventType
    <2>4. Referenced' = Referenced
        BY <1>0, <1>1, <2>1, <2>3, Ids DEF Referenced, appElse, connVars
    <2>5. CallInv'
        <3>1. ~Queued(CloseOf(victim))
            BY <1>0, <1>1 DEF CallInv
        <3>2. \A c \in Conns : Once(CloseOf(c))'
            BY <1>0, <2>2, <3>1 DEF CallInv
        <3>3. NoConn \notin Conns /\ todo \subseteq Conns
            BY <1>0, Ids DEF TypeOK
        <3> QED
            BY <1>0, <1>1, <2>1, <2>3, <3>2, <3>3 DEF CallInv, Visiting, appElse, connVars
    <2> QED
        BY <1>0, <2>1, <2>4, <2>5 DEF RoomInv, DistinctInv, WatchedInv, NothingLeaks,
                                      appElse, connVars
<1> QED
    BY <1>0, <1>3, <1>4 DEF DisconnectTest, DisconnectPush

LEMMA StepKeepsRoom == OneThreadAndRoom /\ IInv /\ RoomInv /\ [Next]_vars => RoomInv'
<1> SUFFICES ASSUME OneThreadAndRoom, IInv, RoomInv, [Next]_vars PROVE RoomInv'
    OBVIOUS
<1>1. CASE UNCHANGED vars
    <2>1. UNCHANGED <<connVars, acc, appVars, connections, queue, leaked, unposted>>
        BY <1>1 DEF vars
    <2> QED
        BY <2>1, RoomKept DEF RoomInv, NothingLeaks, Queued, Once
<1> QED
    BY <1>1, AcceptKeepsRoom, AcceptStepKeepsRoom, LoopStepKeepsRoom, AppStepKeepsRoom,
       DisconnectKeepsRoom DEF Next, StopStep

\* With one loop thread and a ring that holds a Close and a removal for each
\* descriptor the process may have, no event of TcpServer's is refused or
\* dropped and no connection closes before its callback is set: nothing is left
\* behind (OnAccept, TcpConnection::Close, Disconnect and AddTriggerEvent).
THEOREM NothingIsLeftBehind ==
    ASSUME OneThreadAndRoom
    PROVE  Spec => []NothingLeaks
<1>1. Init => RoomInv
    BY RoomInitially
<1>2. IInv /\ RoomInv /\ [Next]_vars => RoomInv'
    BY StepKeepsRoom
<1>3. RoomInv => NothingLeaks
    BY DEF RoomInv
<1> QED
    BY <1>1, <1>2, <1>3, Invariance, PTL DEF Spec
=============================================================================
