-------------------------- MODULE RtspServer_proofs --------------------------
(***************************************************************************)
(* Proofs of RtspServer's invariants, for any number of sessions,          *)
(* connections, descriptors and frames.                                    *)
(***************************************************************************)
EXTENDS RtspServer, TLAPS

-----------------------------------------------------------------------------
(* The inductive invariant.                                                *)

TableInv == /\ SuffixesResolve
            /\ \A s \in registered : suffix[s] \in Suffixes

\* TcpServer's connections_ and the descriptors: an open connection is in it.
ConnInv == /\ \A c \in 1 .. accepted : fd[c] \in Fds
           /\ \A f \in Fds : connections[f] # Nobody =>
                 connections[f] \in 1 .. accepted /\ fd[connections[f]] = f
           /\ \A c \in Conns : Open(c) => connections[fd[c]] = c

\* Where the application's thread is and what it holds there.
PushInv == /\ app # "sending" =>
                 holding = {} /\ todo = {} /\ locked = Nobody /\ dying = Nobody
           /\ app # "idle" => target \in Sessions
           /\ dying # Nobody => todo = {} /\ locked = Nobody

\* Whose destructors have yet to close a descriptor.
Claims(c, f) == \/ ConnAlive(c) /\ f = fd[c]
                \/ RtpAlive(c) /\ f \in RtpSockets(c)
                \/ dying = c /\ f = rtcpfd[c]

\* An open socket has somebody to close it, unless its number was overwritten,
\* and whoever is to close a descriptor has the socket there, unless the number
\* went astray.  The rest says which numbers an RtpConnection can have twice.
SocketInv ==
    /\ \A c \in Conns, f \in Fds : owner[f] = c =>
          /\ c <= accepted
          /\ f = fd[c] => ConnAlive(c)
          /\ f \in RtpSockets(c) => RtpAlive(c) \/ (dying = c /\ f = rtcpfd[c])
    /\ \A c \in Conns, f \in Fds : Claims(c, f) => owner[f] = c \/ f \in astray
    /\ \A c \in Conns : c \notin rtp => rtpfd[c] = None /\ rtcpfd[c] = None
    /\ \A c \in Conns : rtpfd[c] = rtcpfd[c] /\ rtpfd[c] # None =>
          rtpfd[c] \in {fd[c]} \cup astray
    /\ dying # Nobody => ~ConnAlive(dying) /\ dying \notin holding

\* What is described was there, and gives the connection its RtpConnection.
SessionInv == /\ \A c \in Conns : session_id[c] # Nobody =>
                    session_id[c] \in 1 .. created /\ c \in rtp
              /\ \A s \in Sessions, f \in Fds : clients[s][f] # Nobody => s <= created

\* Whose entries there are in clients_.
ClientInv == \A s \in Sessions, f \in Fds : LET c == clients[s][f] IN
                /\ c # Nobody => c \in 1 .. accepted /\ fd[c] = f
                /\ c # Nobody /\ s \in registered =>
                      /\ session_id[c] = s \/ c \in switched
                      /\ c \in closed => c \in switched

Events == {RemoveOf(c) : c \in Conns} \cup Packets
IsRemove(e) == e.op = "remove"
IsOpenPacket(e) == e.op = "packet" /\ e.open

\* A removal is the only one of its closed connection, which is still in
\* connections_ and has none while it is not, and it comes behind every
\* packet that was posted while the connection was open.
QueueInv(q) ==
    /\ \A i \in 1 .. Len(q) : IsRemove(q[i]) =>
          q[i].conn \in closed /\ connections[fd[q[i].conn]] = q[i].conn
    /\ \A i, j \in 1 .. Len(q) :
          IsRemove(q[i]) /\ IsRemove(q[j]) /\ q[i].conn = q[j].conn => i = j
    /\ \A i \in 1 .. Len(q) : IsOpenPacket(q[i]) =>
          q[i].conn \in rtp /\ connections[fd[q[i].conn]] = q[i].conn
    /\ \A i, j \in 1 .. Len(q) :
          IsOpenPacket(q[i]) /\ IsRemove(q[j]) /\ q[i].conn = q[j].conn => i < j
    /\ \A c \in closed : connections[fd[c]] = c =>
          \E i \in 1 .. Len(q) : IsRemove(q[i]) /\ q[i].conn = c

IInv == /\ TypeOK
        /\ TableInv
        /\ ConnInv
        /\ PushInv
        /\ SocketInv
        /\ SessionInv
        /\ ClientInv
        /\ DescribedIsClient
        /\ QueueInv(queue)

-----------------------------------------------------------------------------
(* The queue.                                                              *)

LEMMA EventType ==
    /\ \A e \in Events : e.conn \in Conns /\ e.op \in {"remove", "packet"}
    /\ \A c \in Conns : /\ RemoveOf(c) \in Events /\ RemoveOf(c).conn = c
                        /\ IsRemove(RemoveOf(c)) /\ ~IsOpenPacket(RemoveOf(c))
    /\ \A c \in Conns, open \in BOOLEAN :
          /\ PacketOf(c, open) \in Events /\ PacketOf(c, open).conn = c
          /\ ~IsRemove(PacketOf(c, open)) /\ (IsOpenPacket(PacketOf(c, open)) <=> open)
<1>1. \A c \in Conns : /\ RemoveOf(c) \in Events /\ RemoveOf(c).conn = c
                       /\ IsRemove(RemoveOf(c)) /\ ~IsOpenPacket(RemoveOf(c))
    BY DEF Events, RemoveOf, IsRemove, IsOpenPacket
<1>2. \A c \in Conns, open \in BOOLEAN :
          /\ PacketOf(c, open) \in Events /\ PacketOf(c, open).conn = c
          /\ ~IsRemove(PacketOf(c, open)) /\ (IsOpenPacket(PacketOf(c, open)) <=> open)
    <2> SUFFICES ASSUME NEW c \in Conns, NEW open \in BOOLEAN
                 PROVE  /\ PacketOf(c, open) \in Events /\ PacketOf(c, open).conn = c
                        /\ ~IsRemove(PacketOf(c, open))
                        /\ (IsOpenPacket(PacketOf(c, open)) <=> open)
        OBVIOUS
    <2>1. PacketOf(c, open) \in Events
        BY DEF Events, Packets
    <2>2. PacketOf(c, open).conn = c /\ PacketOf(c, open).op = "packet"
        BY DEF PacketOf
    <2>3. PacketOf(c, open).open = open
        BY Zenon DEF PacketOf
    <2> QED
        BY <2>1, <2>2, <2>3 DEF IsRemove, IsOpenPacket
<1>3. \A e \in Events : e.conn \in Conns /\ e.op \in {"remove", "packet"}
    BY DEF Events, Packets, PacketOf, RemoveOf
<1> QED
    BY <1>1, <1>2, <1>3

\* What is said of the queue holds of what is behind its first event.
LEMMA TailOf ==
    ASSUME queue \in Seq(Events), queue # <<>>
    PROVE  /\ Tail(queue) \in Seq(Events) /\ Len(queue) \in Nat
           /\ Len(Tail(queue)) = Len(queue) - 1 /\ Len(queue) >= 1
           /\ Head(queue) = queue[1] /\ queue[1] \in Events
           /\ \A i \in 1 .. Len(Tail(queue)) : i + 1 \in 1 .. Len(queue) /\ Tail(queue)[i] = queue[i + 1]
OBVIOUS

LEMMA AppendOf ==
    ASSUME NEW q \in Seq(Events), NEW e \in Events
    PROVE  /\ Append(q, e) \in Seq(Events) /\ Len(q) \in Nat
           /\ Len(Append(q, e)) = Len(q) + 1
           /\ Append(q, e)[Len(q) + 1] = e
           /\ \A i \in 1 .. Len(q) : Append(q, e)[i] = q[i] /\ q[i] \in Events
OBVIOUS

\* A packet may leave the queue ...
LEMMA PacketLeaves ==
    ASSUME queue \in Seq(Events), queue # <<>>, QueueInv(queue), ~IsRemove(Head(queue))
    PROVE  QueueInv(Tail(queue)) /\ Tail(queue) \in Seq(Events)
<1> DEFINE q == Tail(queue)
<1>1. /\ q \in Seq(Events) /\ Len(queue) \in Nat /\ Len(q) = Len(queue) - 1
      /\ Head(queue) = queue[1]
      /\ \A i \in 1 .. Len(q) : i + 1 \in 1 .. Len(queue) /\ q[i] = queue[i + 1]
    BY TailOf
<1> HIDE DEF q
<1>2. \A c \in closed : connections[fd[c]] = c =>
          \E i \in 1 .. Len(q) : IsRemove(q[i]) /\ q[i].conn = c
    <2> SUFFICES ASSUME NEW c \in closed, connections[fd[c]] = c
                 PROVE  \E i \in 1 .. Len(q) : IsRemove(q[i]) /\ q[i].conn = c
        OBVIOUS
    <2>1. PICK i \in 1 .. Len(queue) : IsRemove(queue[i]) /\ queue[i].conn = c
        BY DEF QueueInv
    <2>2. i - 1 \in 1 .. Len(q) /\ (i - 1) + 1 = i
        BY <1>1, <2>1
    <2> QED
        BY <1>1, <2>1, <2>2
<1>3. QueueInv(q)
    <2>1. /\ \A i \in 1 .. Len(q) : IsRemove(q[i]) =>
                q[i].conn \in closed /\ connections[fd[q[i].conn]] = q[i].conn
          /\ \A i \in 1 .. Len(q) : IsOpenPacket(q[i]) =>
                q[i].conn \in rtp /\ connections[fd[q[i].conn]] = q[i].conn
        BY <1>1 DEF QueueInv
    <2>2. ASSUME NEW i \in 1 .. Len(q), NEW j \in 1 .. Len(q), q[i].conn = q[j].conn
          PROVE  /\ IsRemove(q[i]) /\ IsRemove(q[j]) => i = j
                 /\ IsOpenPacket(q[i]) /\ IsRemove(q[j]) => i < j
        <3>1. /\ IsRemove(q[i]) /\ IsRemove(q[j]) => i + 1 = j + 1
              /\ IsOpenPacket(q[i]) /\ IsRemove(q[j]) => i + 1 < j + 1
            BY <1>1, <2>2 DEF QueueInv
        <3> QED
            BY <3>1
    <2> QED
        BY <1>2, <2>1, <2>2, Zenon DEF QueueInv
<1> QED
    BY <1>1, <1>3 DEF q

\* ... a removal comes behind everything when its connection closes ...
LEMMA RemovalEnters ==
    ASSUME NEW q \in Seq(Events), QueueInv(q), NEW c \in Conns, c \notin closed,
           connections[fd[c]] = c,
           closed' = closed \cup {c}, queue' = Append(q, RemoveOf(c)),
           UNCHANGED <<fd, connections, rtp>>
    PROVE  QueueInv(queue)' /\ queue' \in Seq(Events)
<1> DEFINE n == Len(q) + 1
<1>1. /\ queue' \in Seq(Events) /\ Len(q) \in Nat /\ Len(queue') = n
      /\ IsRemove(queue'[n]) /\ ~IsOpenPacket(queue'[n]) /\ queue'[n].conn = c
      /\ \A i \in 1 .. Len(q) : queue'[i] = q[i]
    BY EventType, AppendOf
<1>2. \A i \in 1 .. n : i = n \/ (i \in 1 .. Len(q) /\ i < n)
    BY <1>1
<1>3. n \in 1 .. n /\ \A i \in 1 .. Len(q) : i \in 1 .. n
    BY <1>1
<1> HIDE DEF n
<1>4. \A i \in 1 .. Len(q) : IsRemove(q[i]) => q[i].conn # c
    BY DEF QueueInv
<1>5. \A d \in closed' : connections'[fd'[d]] = d =>
          \E i \in 1 .. n : IsRemove(queue'[i]) /\ queue'[i].conn = d
    <2> SUFFICES ASSUME NEW d \in closed', connections'[fd'[d]] = d
                 PROVE  \E i \in 1 .. n : IsRemove(queue'[i]) /\ queue'[i].conn = d
        OBVIOUS
    <2>1. CASE d = c
        BY <1>1, <1>3, <2>1
    <2>2. CASE d \in closed
        <3>1. PICK i \in 1 .. Len(q) : IsRemove(q[i]) /\ q[i].conn = d
            BY <2>2 DEF QueueInv
        <3> QED
            BY <1>1, <1>3, <3>1
    <2> QED
        BY <2>1, <2>2
<1> QED
    BY <1>1, <1>2, <1>4, <1>5 DEF QueueInv

\* ... and a packet behind a removal is not one that was posted while open.
LEMMA PacketEnters ==
    ASSUME queue \in Seq(Events), QueueInv(queue), NEW c \in Conns, NEW open \in BOOLEAN,
           open => c \in rtp /\ c \notin closed /\ connections[fd[c]] = c,
           queue' = Append(queue, PacketOf(c, open)),
           UNCHANGED <<closed, fd, connections, rtp>>
    PROVE  QueueInv(queue)' /\ queue' \in Seq(Events)
<1> DEFINE n == Len(queue) + 1
<1>1. /\ queue' \in Seq(Events) /\ Len(queue) \in Nat /\ Len(queue') = n
      /\ ~IsRemove(queue'[n]) /\ (IsOpenPacket(queue'[n]) <=> open)
      /\ queue'[n].conn = c
      /\ \A i \in 1 .. Len(queue) : queue'[i] = queue[i]
    BY EventType, AppendOf
<1>2. \A i \in 1 .. n : i = n \/ (i \in 1 .. Len(queue) /\ i < n)
    BY <1>1
<1>3. \A i \in 1 .. Len(queue) : i \in 1 .. n
    BY <1>1
<1> HIDE DEF n
<1>4. open => \A i \in 1 .. Len(queue) : IsRemove(queue[i]) => queue[i].conn # c
    BY DEF QueueInv
<1> QED
    BY <1>1, <1>2, <1>3, <1>4 DEF QueueInv

-----------------------------------------------------------------------------
(* What steps leave alone stays true.                                      *)

LEMMA TableKept == TableInv /\ UNCHANGED sessionVars => TableInv'
BY DEF TableInv, SuffixesResolve, sessionVars

LEMMA ConnKept == ConnInv /\ UNCHANGED <<accepted, fd, connections, closed>> => ConnInv'
BY DEF ConnInv, Open

LEMMA PushKept == PushInv /\ UNCHANGED appVars => PushInv'
BY DEF PushInv, appVars

LEMMA SocketKept ==
    ASSUME SocketInv, UNCHANGED <<connVars, holding, locked, dying>>, rtp \subseteq rtp'
    PROVE  SocketInv'
<1>1. \A c \in Conns : /\ (ConnAlive(c)' <=> ConnAlive(c))
                       /\ RtpAlive(c) => RtpAlive(c)'
                       /\ RtpSockets(c)' = RtpSockets(c)
    BY DEF ConnAlive, RtpAlive, RtpSockets, connVars
<1>2. ASSUME NEW c \in Conns, NEW f \in Fds, Claims(c, f)' PROVE Claims(c, f)
    BY <1>1, <1>2, RtspAssumption
    DEF SocketInv, Claims, RtpAlive, RtpSockets, ConnAlive, connVars
<1>3. (dying # Nobody => ~ConnAlive(dying) /\ dying \notin holding)'
    BY DEF SocketInv, ConnAlive, connVars
<1> QED
    BY <1>1, <1>2, <1>3 DEF SocketInv, connVars

LEMMA ClientsKept ==
    /\ SessionInv /\ ClientInv /\ DescribedIsClient
    /\ UNCHANGED <<sessionVars, clients, accepted, fd, connections, closed, session_id, history>>
    /\ rtp \subseteq rtp'
    => SessionInv' /\ ClientInv' /\ DescribedIsClient'
BY DEF SessionInv, ClientInv, DescribedIsClient, sessionVars, history, Open

LEMMA QueueKept ==
    /\ QueueInv(queue)
    /\ UNCHANGED <<queue, fd, connections, closed>>
    /\ rtp \subseteq rtp'
    => QueueInv(queue)'
BY DEF QueueInv

LEMMA Ids == TypeOK => /\ 1 .. created \subseteq Sessions /\ registered \subseteq Sessions
                       /\ 1 .. accepted \subseteq Conns /\ Nobody \notin Conns \cup Sessions
                       /\ Other \notin Conns
BY RtspAssumption DEF TypeOK, Sessions, Conns, Nobody, Other

-----------------------------------------------------------------------------
(* Sockets: who is to close what.                                          *)

\* As long as nobody's life ends and no socket is opened or closed.
LEMMA LivesKept ==
    ASSUME SocketInv,
           \A d \in Conns : (ConnAlive(d)' <=> ConnAlive(d)) /\ (RtpAlive(d)' <=> RtpAlive(d)),
           dying # Nobody => dying \in Conns /\ dying \notin holding',
           UNCHANGED <<accepted, fd, owner, rtpfd, rtcpfd, astray, rtp, dying>>
    PROVE  SocketInv'
<1>1. \A d \in Conns : RtpSockets(d)' = RtpSockets(d)
    BY DEF RtpSockets
<1>2. \A d \in Conns, f \in Fds : Claims(d, f)' => Claims(d, f)
    BY <1>1 DEF Claims
<1> QED
    BY <1>1, <1>2 DEF SocketInv

\* close() of what one connection is to close leaves everybody else's sockets
\* open, but for the numbers that went astray.
LEMMA Closing ==
    ASSUME TypeOK, SocketInv, NEW c \in Conns, NEW F,
           \A f \in F \cap Fds : Claims(c, f),
           owner' = CloseFds(F)
    PROVE  /\ \A d \in Conns, f \in Fds : owner'[f] = d => owner[f] = d /\ f \notin F
           /\ \A d \in Conns, f \in Fds :
                 d # c /\ Claims(d, f) => owner'[f] = d \/ f \in astray
<1>1. \A f \in Fds : owner'[f] = IF f \in F THEN Nobody ELSE owner[f]
    BY DEF CloseFds
<1>2. Nobody \notin Conns
    BY Ids
<1> QED
    BY <1>1, <1>2 DEF SocketInv

LEMMA Destroyed ==
    ASSUME TypeOK, SocketInv, NEW c \in Conns, Destroy(c),
           ConnAlive(c), ~ConnAlive(c)', fd[c] \in Fds,
           \A d \in Conns : d # c => (ConnAlive(d)' <=> ConnAlive(d)),
           UNCHANGED <<accepted, fd, rtpfd, rtcpfd, rtp, holding, dying>>
    PROVE  SocketInv'
<1> DEFINE F == IF c \in holding THEN {fd[c]} ELSE {fd[c]} \cup RtpSockets(c)
<1>1. /\ owner' = CloseFds(F) /\ astray \subseteq astray' /\ fd[c] \in F
      /\ c \in holding => F = {fd[c]} /\ ({fd[c]} \cap RtpSockets(c)) \subseteq astray'
      /\ c \notin holding => RtpSockets(c) \subseteq F
    BY DEF Destroy
<1>2. \A d \in Conns : /\ RtpSockets(d)' = RtpSockets(d)
                       /\ d # c => (RtpAlive(d)' <=> RtpAlive(d))
                       /\ RtpAlive(c)' <=> c \in rtp /\ c \in holding
    BY DEF RtpSockets, RtpAlive
<1>3. \A f \in Fds : f \in RtpSockets(c) => c \in rtp /\ RtpAlive(c)
    BY RtspAssumption DEF SocketInv, RtpSockets, RtpAlive
<1>4. \A f \in F \cap Fds : Claims(c, f)
    BY <1>3 DEF Claims
<1>5. dying # c /\ (dying # Nobody => dying \in Conns)
    BY Ids DEF SocketInv, TypeOK
<1> HIDE DEF F
<1>6. /\ \A d \in Conns, f \in Fds : owner'[f] = d => owner[f] = d /\ f \notin F
      /\ \A d \in Conns, f \in Fds :
            d # c /\ Claims(d, f) => owner'[f] = d \/ f \in astray
    BY <1>1, <1>4, Closing
<1>7. ASSUME NEW d \in Conns, NEW f \in Fds, owner'[f] = d
      PROVE  /\ d <= accepted'
             /\ f = fd'[d] => ConnAlive(d)'
             /\ f \in RtpSockets(d)' => RtpAlive(d)' \/ (dying' = d /\ f = rtcpfd'[d])
    <2>1. /\ owner[f] = d /\ f \notin F /\ d <= accepted'
          /\ f = fd[d] => ConnAlive(d)
          /\ f \in RtpSockets(d) => RtpAlive(d) \/ (dying = d /\ f = rtcpfd[d])
        BY <1>6, <1>7 DEF SocketInv
    <2>2. CASE d # c
        BY <1>2, <2>1, <2>2
    <2>3. CASE d = c
        BY <1>1, <1>2, <1>3, <2>1, <2>3
    <2> QED
        BY <2>2, <2>3
<1>8. ASSUME NEW d \in Conns, NEW f \in Fds, Claims(d, f)'
      PROVE  owner'[f] = d \/ f \in astray'
    <2>1. CASE d # c
        <3>1. Claims(d, f)
            BY <1>2, <1>8, <2>1 DEF Claims
        <3> QED
            BY <1>1, <1>6, <2>1, <3>1
    <2>2. CASE d = c
        <3>1. f \in RtpSockets(c) /\ c \in holding /\ Claims(c, f)
            BY <1>2, <1>3, <1>5, <1>8, <2>2 DEF Claims
        <3>2. CASE f = fd[c]
            BY <1>1, <3>1, <3>2
        <3>3. CASE f # fd[c]
            <4>1. owner'[f] = owner[f]
                BY <1>1, <3>1, <3>3 DEF CloseFds
            <4> QED
                BY <1>1, <2>2, <3>1, <4>1 DEF SocketInv
        <3> QED
            BY <3>2, <3>3
    <2> QED
        BY <2>1, <2>2
<1>9. /\ \A d \in Conns : rtpfd'[d] = rtcpfd'[d] /\ rtpfd'[d] # None =>
            rtpfd'[d] \in {fd'[d]} \cup astray'
      /\ \A d \in Conns : d \notin rtp' => rtpfd'[d] = None /\ rtcpfd'[d] = None
    BY <1>1 DEF SocketInv
<1>10. dying' # Nobody => ~ConnAlive(dying)' /\ dying' \notin holding'
    <2> SUFFICES ASSUME NEW d \in Conns, dying = d, d # Nobody
                 PROVE  ~ConnAlive(d)' /\ d \notin holding
        BY <1>5 DEF ConnAlive
    <2> QED
        BY <1>5 DEF SocketInv
<1> QED
    BY <1>7, <1>8, <1>9, <1>10 DEF SocketInv

\* SETUP: the new numbers are those of the connection's own open sockets, or
\* they have gone astray.
LEMMA SetupSocket ==
    ASSUME IInv, NEW c \in Conns, Setup(c)
    PROVE  SocketInv'
<1>0. /\ TypeOK /\ ConnInv /\ SocketInv /\ Served(c) /\ session_id[c] \in registered
      /\ UNCHANGED <<accepted, fd, connections, locked, holding, dying, rtp>>
    BY DEF Setup, IInv, appVars
<1>1. ConnAlive(c) /\ c \in rtp /\ RtpAlive(c) /\ dying # c /\ owner[fd[c]] = c /\ fd[c] \in Fds
    <2>1. ConnAlive(c) /\ owner[fd[c]] = c /\ fd[c] \in Fds
        BY <1>0 DEF Served, Open, ConnInv, ConnAlive
    <2>2. c \in rtp
        BY <1>0, Ids DEF IInv, SessionInv
    <2> QED
        BY <1>0, <2>1, <2>2, Ids DEF SocketInv, RtpAlive
<1>2. \A d \in Conns : /\ (ConnAlive(d)' <=> ConnAlive(d)) /\ (RtpAlive(d)' <=> RtpAlive(d))
    BY <1>0 DEF ConnAlive, RtpAlive
<1>3. /\ \A d \in Conns : d # c => rtpfd'[d] = rtpfd[d] /\ rtcpfd'[d] = rtcpfd[d]
      /\ astray \subseteq astray'
      /\ \A f \in Fds : owner[f] # Nobody => owner'[f] = owner[f]
      /\ \A f \in Fds : owner'[f] \in {owner[f], c}
      /\ \A f \in RtpSockets(c)' \cap Fds :
            owner'[f] = c \/ f \in astray' \/ f \in RtpSockets(c)
      /\ rtpfd'[c] = rtcpfd'[c] /\ rtpfd'[c] # None => rtpfd'[c] \in {fd[c]} \cup astray'
    <2>0. /\ rtpfd \in [Conns -> Fds \cup {None}] /\ rtcpfd \in [Conns -> Fds \cup {None}]
          /\ owner \in [Fds -> Conns \cup {Nobody, Other}]
        BY <1>0 DEF TypeOK
    <2>1. CASE SetupTcp(c)
        BY <1>1, <2>0, <2>1 DEF SetupTcp, RtpSockets
    <2>2. CASE SetupUdp(c)
        <3>1. PICK r \in FreeFds, q \in FreeFds :
                 /\ r # q
                 /\ rtpfd' = [rtpfd EXCEPT ![c] = r]
                 /\ rtcpfd' = [rtcpfd EXCEPT ![c] = q]
                 /\ owner' = [owner EXCEPT ![r] = c, ![q] = c]
                 /\ UNCHANGED astray
            BY <2>2 DEF SetupUdp
        <3> QED
            BY <2>0, <3>1 DEF FreeFds, RtpSockets
    <2>3. CASE SetupUdpFails(c)
        <3>1. PICK r \in FreeFds \cup {None}, q \in FreeFds \cup {None, rtcpfd[c]} :
                 /\ rtpfd' = [rtpfd EXCEPT ![c] = r]
                 /\ rtcpfd' = [rtcpfd EXCEPT ![c] = q]
                 /\ astray' = astray \cup ({r, q} \cap FreeFds)
                 /\ UNCHANGED owner
            BY <2>3 DEF SetupUdpFails
        <3> QED
            BY <2>0, <3>1, RtspAssumption DEF RtpSockets
    <2> QED
        BY <2>1, <2>2, <2>3 DEF Setup
<1>4. \A d \in Conns : d # c => RtpSockets(d)' = RtpSockets(d)
    BY <1>3 DEF RtpSockets
<1>5. ASSUME NEW d \in Conns, NEW f \in Fds, owner'[f] = d
      PROVE  /\ d <= accepted'
             /\ f = fd'[d] => ConnAlive(d)'
             /\ f \in RtpSockets(d)' => RtpAlive(d)' \/ (dying' = d /\ f = rtcpfd'[d])
    <2>1. CASE d = c
        BY <1>0, <1>1, <1>2, <2>1 DEF ConnAlive
    <2>2. CASE d # c
        <3>1. owner[f] = d
            BY <1>3, <1>5, <2>2
        <3> QED
            BY <1>0, <1>2, <1>3, <1>4, <2>2, <3>1 DEF SocketInv
    <2> QED
        BY <2>1, <2>2
<1>6. ASSUME NEW d \in Conns, NEW f \in Fds, Claims(d, f)'
      PROVE  owner'[f] = d \/ f \in astray'
    <2>1. CASE d = c
        <3>1. f = fd[c] \/ f \in RtpSockets(c)'
            BY <1>0, <1>1, <1>2, <1>6, <2>1 DEF Claims, RtpSockets
        <3>2. f \in RtpSockets(c) => owner[f] = c \/ f \in astray
            BY <1>0, <1>1 DEF SocketInv, Claims
        <3> QED
            BY <1>1, <1>3, <2>1, <3>1, <3>2, Ids, <1>0
    <2>2. CASE d # c
        <3>1. Claims(d, f)
            BY <1>0, <1>2, <1>3, <1>4, <1>6, <2>2 DEF Claims
        <3> QED
            BY <1>0, <1>3, <3>1, Ids DEF SocketInv
    <2> QED
        BY <2>1, <2>2
<1>7. /\ \A d \in Conns : rtpfd'[d] = rtcpfd'[d] /\ rtpfd'[d] # None =>
            rtpfd'[d] \in {fd'[d]} \cup astray'
      /\ \A d \in Conns : d \notin rtp' => rtpfd'[d] = None /\ rtcpfd'[d] = None
    BY <1>0, <1>1, <1>3 DEF SocketInv
<1>8. dying' # Nobody => ~ConnAlive(dying)' /\ dying' \notin holding'
    BY <1>0 DEF SocketInv, ConnAlive
<1> QED
    BY <1>5, <1>6, <1>7, <1>8 DEF SocketInv

-----------------------------------------------------------------------------
LEMMA InitHolds == Init => IInv
<1> SUFFICES ASSUME Init PROVE IInv
    OBVIOUS
<1>1. TypeOK
    BY RtspAssumption DEF Init, TypeOK, Sessions, Conns, Nobody, Other
<1>2. QueueInv(queue)
    BY DEF Init, QueueInv
<1>3. SocketInv
    <2>1. \A c \in Conns : /\ ~ConnAlive(c) /\ ~RtpAlive(c) /\ dying # c
                           /\ rtpfd[c] = None /\ rtcpfd[c] = None
        BY RtspAssumption DEF Init, ConnAlive, RtpAlive, Conns, Nobody
    <2>2. \A f \in Fds : owner[f] \notin Conns
        BY RtspAssumption DEF Init, Conns, Nobody, Other
    <2> QED
        BY <2>1, <2>2 DEF Init, SocketInv, Claims
<1> QED
    BY <1>1, <1>2, <1>3, RtspAssumption
    DEF Init, IInv, TableInv, SuffixesResolve, ConnInv, PushInv, SessionInv,
        ClientInv, DescribedIsClient, Open, Nobody, Conns, Sessions

\* The new session has a suffix nobody resolves to, no clients, and nobody who
\* described it.
LEMMA AddSessionStep ==
    ASSUME IInv, NEW x \in Suffixes, AddSession(x)
    PROVE  IInv'
<1> DEFINE s == created + 1
<1>0. /\ TypeOK /\ TableInv /\ SessionInv /\ ClientInv /\ DescribedIsClient
      /\ s \in Sessions /\ s \notin registered /\ suffix_map[x] = Nobody
      /\ created' = s /\ registered' = registered \cup {s}
      /\ suffix' = [suffix EXCEPT ![s] = x]
      /\ suffix_map' = [suffix_map EXCEPT ![x] = s]
      /\ UNCHANGED <<clients, connVars, closed, session_id, rtpVars, queue, appVars, history>>
    BY DEF IInv, AddSession, TypeOK
<1>1. TypeOK'
    BY <1>0, RtspAssumption
    DEF TypeOK, connVars, rtpVars, appVars, history, Sessions
<1>2. TableInv'
    BY <1>0 DEF TypeOK, TableInv, SuffixesResolve, Sessions, Nobody
<1>3. ConnInv' /\ PushInv' /\ SocketInv'
    BY <1>0, ConnKept, PushKept, SocketKept DEF IInv, connVars, rtpVars, appVars
<1>4. SessionInv'
    BY <1>0 DEF SessionInv, TypeOK, rtpVars, Nobody, Sessions
<1>5. \A f \in Fds : clients[s][f] = Nobody
    BY <1>0 DEF SessionInv, TypeOK, Sessions
<1>6. ClientInv'
    BY <1>0, <1>5 DEF ClientInv, connVars, history
<1>7. \A c \in Conns : session_id[c] # s
    BY <1>0 DEF SessionInv, TypeOK, Sessions, Nobody
<1>8. DescribedIsClient'
    BY <1>0, <1>7 DEF DescribedIsClient, connVars, history, Open
<1>9. QueueInv(queue)'
    BY <1>0, QueueKept DEF IInv, connVars, rtpVars
<1> QED
    BY <1>1, <1>2, <1>3, <1>4, <1>6, <1>8, <1>9 DEF IInv

LEMMA RemoveSessionStep ==
    ASSUME IInv, NEW s \in Sessions, RemoveSession(s)
    PROVE  IInv'
<1>0. /\ TypeOK /\ TableInv /\ SessionInv /\ ClientInv /\ DescribedIsClient
      /\ s \in registered /\ registered' = registered \ {s}
      /\ suffix_map' = [suffix_map EXCEPT ![suffix[s]] = Nobody]
      /\ UNCHANGED <<created, suffix, clients, connVars, closed, session_id, rtpVars,
                     queue, appVars, history>>
    BY DEF IInv, RemoveSession
<1>1. TypeOK'
    BY <1>0 DEF TypeOK, connVars, rtpVars, appVars, history
<1>2. TableInv'
    BY <1>0 DEF TypeOK, TableInv, SuffixesResolve, Sessions, Nobody
<1>3. ConnInv' /\ PushInv' /\ SocketInv'
    BY <1>0, ConnKept, PushKept, SocketKept DEF IInv, connVars, rtpVars, appVars
<1>4. SessionInv' /\ ClientInv' /\ DescribedIsClient'
    BY <1>0 DEF SessionInv, ClientInv, DescribedIsClient, connVars, rtpVars, history, Open
<1>5. QueueInv(queue)'
    BY <1>0, QueueKept DEF IInv, connVars, rtpVars
<1> QED
    BY <1>1, <1>2, <1>3, <1>4, <1>5 DEF IInv

\* The new connection has the descriptor's socket, and nobody else is to close
\* the descriptor, unless it went astray.
LEMMA AcceptedSocket ==
    ASSUME IInv, NEW f \in Fds, NEW c \in Conns, c = accepted + 1, Accept(f)
    PROVE  SocketInv'
<1>0. /\ TypeOK /\ ConnInv /\ SocketInv /\ accepted' = c
      /\ owner[f] = Nobody /\ connections[f] = Nobody
      /\ fd' = [fd EXCEPT ![c] = f]
      /\ connections' = [connections EXCEPT ![f] = c]
      /\ owner' = [owner EXCEPT ![f] = c]
      /\ c \notin closed /\ c \notin rtp /\ \A d \in 1 .. accepted : d # c
      /\ UNCHANGED <<rtpfd, rtcpfd, astray, rtp, holding, locked, dying>>
    <2>1. c \notin closed /\ c \notin rtp /\ \A d \in 1 .. accepted : d # c
        BY DEF IInv, TypeOK
    <2> QED
        BY <2>1 DEF IInv, Accept, rtpVars, appVars
<1>1. /\ SocketInv /\ fd'[c] = f /\ connections'[f] = c /\ owner'[f] = c
      /\ c \notin holding /\ locked # c /\ dying # c /\ c \notin rtp
      /\ rtpfd[c] = None /\ rtcpfd[c] = None /\ c # Nobody
      /\ UNCHANGED <<rtp, locked, holding, dying>>
    BY <1>0, Ids DEF IInv, SocketInv, TypeOK, rtpVars, appVars
<1>2. \A d \in Conns : /\ ConnAlive(d)' <=> (ConnAlive(d) \/ d = c)
                       /\ d # c => fd'[d] = fd[d]
                       /\ (RtpAlive(d)' <=> RtpAlive(d)) /\ RtpSockets(d)' = RtpSockets(d)
    <2>1. ASSUME NEW d \in Conns, d # c
          PROVE  (ConnAlive(d)' <=> ConnAlive(d)) /\ fd'[d] = fd[d]
        BY <1>0, <1>1, <2>1, Ids DEF ConnAlive, ConnInv, TypeOK, Conns
    <2>2. ConnAlive(c)'
        <3>1. c \in 1 .. accepted'
            BY <1>0 DEF Conns
        <3> QED
            BY <1>1, <3>1 DEF ConnAlive
    <2>3. \A d \in Conns : RtpSockets(d)' = RtpSockets(d)
        BY <1>0 DEF RtpSockets
    <2>4. \A d \in Conns : (RtpAlive(d)' <=> RtpAlive(d))
        BY <1>1, <2>1 DEF RtpAlive
    <2> QED
        BY <2>1, <2>2, <2>3, <2>4
<1>3. ASSUME NEW d \in Conns, NEW g \in Fds, Claims(d, g)'
      PROVE  Claims(d, g) \/ (d = c /\ g = f)
    BY <1>0, <1>1, <1>2, <1>3, RtspAssumption DEF Claims, RtpSockets
<1>4. ASSUME NEW d \in Conns, NEW g \in Fds, owner'[g] = d
      PROVE  /\ d <= accepted'
             /\ g = fd'[d] => ConnAlive(d)'
             /\ g \in RtpSockets(d)' => RtpAlive(d)' \/ (dying' = d /\ g = rtcpfd'[d])
    <2>1. CASE g = f
        <3>1. d = c /\ c <= accepted' /\ f \notin RtpSockets(c)
            BY <1>0, <1>1, <1>4, <2>1, RtspAssumption DEF RtpSockets, Conns
        <3> QED
            BY <1>2, <2>1, <3>1
    <2>2. CASE g # f
        <3>1. owner[g] = d
            BY <1>0, <1>4, <2>2 DEF TypeOK
        <3>2. /\ d <= accepted /\ d # c
              /\ g = fd[d] => ConnAlive(d)
              /\ g \in RtpSockets(d) => RtpAlive(d) \/ (dying = d /\ g = rtcpfd[d])
            BY <1>0, <3>1 DEF SocketInv, TypeOK, Conns
        <3>3. d <= accepted'
            BY <1>0, <3>2 DEF TypeOK, Conns
        <3> QED
            BY <1>0, <1>2, <3>2, <3>3
    <2> QED
        BY <2>1, <2>2
<1>5. ASSUME NEW d \in Conns, NEW g \in Fds, Claims(d, g)'
      PROVE  owner'[g] = d \/ g \in astray'
    <2>1. CASE d = c /\ g = f
        BY <1>1, <2>1
    <2>2. CASE Claims(d, g)
        <3>1. owner[g] = d \/ g \in astray
            BY <1>0, <2>2 DEF SocketInv
        <3>2. owner[g] = d => g # f
            BY <1>0, Ids
        <3>3. g # f => owner'[g] = owner[g]
            BY <1>0 DEF TypeOK
        <3> QED
            BY <1>0, <3>1, <3>2, <3>3
    <2> QED
        BY <1>3, <1>5, <2>1, <2>2
<1>6. (dying # Nobody => ~ConnAlive(dying) /\ dying \notin holding)'
    <2> SUFFICES ASSUME dying # Nobody PROVE ~ConnAlive(dying)' /\ dying \notin holding
        BY <1>1
    <2>1. SocketInv /\ TypeOK
        BY <1>0
    <2>2. ~ConnAlive(dying) /\ dying \notin holding
        BY <2>1 DEF SocketInv
    <2>3. dying \in Conns
        BY <2>1, Ids DEF TypeOK
    <2> QED
        BY <1>1, <1>2, <2>2, <2>3
<1>7. /\ \A d \in Conns : d \notin rtp' => rtpfd'[d] = None /\ rtcpfd'[d] = None
      /\ \A d \in Conns : rtpfd'[d] = rtcpfd'[d] /\ rtpfd'[d] # None =>
            rtpfd'[d] \in {fd'[d]} \cup astray'
    BY <1>0, <1>1, <1>2 DEF SocketInv
<1> QED
    BY <1>4, <1>5, <1>6, <1>7 DEF SocketInv

\* The descriptor is free, so that no connection is in connections_ under it.
LEMMA AcceptStep ==
    ASSUME IInv, NEW f \in Fds, Accept(f)
    PROVE  IInv'
<1> DEFINE c == accepted + 1
<1>0. /\ TypeOK /\ ConnInv /\ SessionInv /\ ClientInv /\ DescribedIsClient
      /\ c \in Conns /\ accepted' = c
      /\ owner[f] = Nobody /\ connections[f] = Nobody
      /\ fd' = [fd EXCEPT ![c] = f]
      /\ connections' = [connections EXCEPT ![f] = c]
      /\ owner' = [owner EXCEPT ![f] = c]
      /\ UNCHANGED <<sessionVars, clients, rtpfd, rtcpfd, astray, setups, closed,
                     session_id, rtpVars, queue, appVars, history>>
    BY DEF IInv, Accept
<1>1. connections[f] = Nobody
    BY <1>0
<1>2. TypeOK'
    BY <1>0, RtspAssumption
    DEF TypeOK, sessionVars, rtpVars, appVars, history, Conns
<1>3. TableInv' /\ PushInv'
    BY <1>0, TableKept, PushKept DEF IInv
<1>4. ConnInv'
    BY <1>0, <1>1 DEF TypeOK, ConnInv, Open, Conns, Nobody
<1>5. SessionInv'
    BY <1>0 DEF SessionInv, sessionVars, rtpVars
<1>6. c \notin closed /\ c \notin rtp /\ \A d \in 1 .. accepted : fd'[d] = fd[d] /\ d \in 1 .. accepted'
    BY <1>0 DEF TypeOK, Conns
<1>7. ClientInv'
    BY <1>0, <1>6 DEF ClientInv, sessionVars, history
<1>8. session_id[c] = Nobody /\ Nobody \notin registered
    BY <1>0, <1>6 DEF SessionInv, TypeOK, Nobody
<1>9. DescribedIsClient'
    <2>1. ASSUME NEW d \in Conns, Open(d)', session_id'[d] \in registered'
          PROVE  clients'[session_id'[d]][fd'[d]] = d \/ d \in shadowed'
        <3>1. d # c /\ d \in 1 .. accepted /\ Open(d)
            BY <1>0, <1>8, <2>1 DEF Open, sessionVars, TypeOK
        <3> QED
            BY <1>0, <1>6, <2>1, <3>1 DEF DescribedIsClient, sessionVars, history
    <2> QED
        BY <1>0, <2>1 DEF DescribedIsClient, history
<1>10. QueueInv(queue)'
    <2>1. \A d \in 1 .. accepted : connections[fd[d]] = d =>
              connections'[fd'[d]] = d
        BY <1>0, <1>1, <1>6 DEF ConnInv, TypeOK, Nobody
    <2>2. \A d \in 1 .. accepted : connections'[fd'[d]] = d => connections[fd[d]] = d
        BY <1>0, <1>6 DEF ConnInv, TypeOK, Conns
    <2>3. /\ QueueInv(queue) /\ closed \subseteq 1 .. accepted /\ rtp \subseteq 1 .. accepted
          /\ UNCHANGED <<queue, closed, rtp>>
        BY <1>0 DEF IInv, TypeOK, rtpVars
    <2>4. \A d \in 1 .. accepted : connections'[fd'[d]] = d <=> connections[fd[d]] = d
        BY <2>1, <2>2
    <2>5. /\ \A i \in 1 .. Len(queue) : IsRemove(queue[i]) => queue[i].conn \in 1 .. accepted
          /\ \A i \in 1 .. Len(queue) : IsOpenPacket(queue[i]) => queue[i].conn \in 1 .. accepted
        BY <2>3 DEF QueueInv
    <2> QED
        BY <2>3, <2>4, <2>5 DEF QueueInv
<1>11. SocketInv'
    BY <1>0, AcceptedSocket DEF IInv
<1> QED
    BY <1>2, <1>3, <1>4, <1>5, <1>7, <1>9, <1>10, <1>11 DEF IInv

-----------------------------------------------------------------------------
(* The loop thread.                                                        *)

\* Whatever closes a connection: an entry that OnClose leaves behind is that of
\* a session the connection had left, and it takes no open connection's.
LEMMA ClosingStep ==
    ASSUME IInv, NEW c \in Conns, Open(c), OnClose(c), closed' = closed \cup {c},
           NEW q \in Seq(Events), QueueInv(q), queue' = Append(q, RemoveOf(c)),
           UNCHANGED <<sessionVars, connVars, session_id, rtpVars, appVars, history>>
    PROVE  IInv'
<1>0. /\ TypeOK /\ ConnInv /\ SessionInv /\ ClientInv /\ DescribedIsClient
      /\ c \in 1 .. accepted /\ c \notin closed /\ connections[fd[c]] = c /\ fd[c] \in Fds
    BY DEF IInv, Open, ConnInv
<1>1. /\ clients' \in [Sessions -> [Fds -> Conns \cup {Nobody}]]
      /\ \A s \in Sessions, f \in Fds :
            \/ clients'[s][f] = Nobody
            \/ clients'[s][f] = clients[s][f] /\ ~(s \in registered /\ s = session_id[c] /\ f = fd[c])
      /\ \A s \in Sessions, f \in Fds : clients'[s][f] # clients[s][f] => f = fd[c]
    <2>1. CASE session_id[c] \in registered
        <3>1. /\ clients' = [clients EXCEPT ![session_id[c]][fd[c]] = Nobody]
              /\ session_id[c] \in Sessions
            BY <1>0, <2>1, Ids DEF OnClose
        <3> QED
            BY <1>0, <3>1 DEF TypeOK
    <2>2. CASE session_id[c] \notin registered
        BY <1>0, <2>2 DEF OnClose, TypeOK
    <2> QED
        BY <2>1, <2>2
<1>2. QueueInv(queue)' /\ queue' \in Seq(Events)
    BY <1>0, RemovalEnters DEF connVars, rtpVars
<1>3. TypeOK'
    BY <1>0, <1>1, <1>2
    DEF TypeOK, Events, sessionVars, connVars, rtpVars, appVars, history
<1>4. TableInv' /\ PushInv' /\ SocketInv'
    BY TableKept, PushKept, SocketKept DEF IInv, appVars, rtpVars
<1>5. ConnInv'
    BY <1>0 DEF ConnInv, connVars, Open
<1>6. SessionInv'
    BY <1>0, <1>1 DEF SessionInv, sessionVars, rtpVars
<1>7. ClientInv'
    <2> SUFFICES ASSUME NEW s \in Sessions, NEW f \in Fds, clients'[s][f] # Nobody
                 PROVE  LET d == clients'[s][f] IN
                        /\ d \in 1 .. accepted /\ fd[d] = f
                        /\ s \in registered => /\ session_id[d] = s \/ d \in switched
                                               /\ d \in closed' => d \in switched
        BY DEF ClientInv, sessionVars, connVars, history
    <2>1. /\ clients'[s][f] = clients[s][f]
          /\ ~(s \in registered /\ s = session_id[c] /\ f = fd[c])
        BY <1>1
    <2> QED
        BY <1>0, <2>1 DEF ClientInv
<1>8. DescribedIsClient'
    <2>1. ASSUME NEW d \in Conns, Open(d)', session_id[d] \in registered
          PROVE  clients'[session_id[d]][fd[d]] = d \/ d \in shadowed
        <3>1. Open(d) /\ d # c /\ connections[fd[d]] = d /\ fd[d] \in Fds
            BY <1>0, <2>1 DEF Open, connVars, ConnInv
        <3>2. fd[d] # fd[c] /\ session_id[d] \in Sessions
            BY <1>0, <2>1, <3>1, Ids
        <3> QED
            BY <1>0, <1>1, <2>1, <3>1, <3>2 DEF DescribedIsClient
    <2> QED
        BY <1>0, <2>1 DEF DescribedIsClient, sessionVars, connVars, history
<1> QED
    BY <1>2, <1>3, <1>4, <1>5, <1>6, <1>7, <1>8 DEF IInv

\* DESCRIBE adds to the entries of one session, and whoever has one there
\* already under the same descriptor is a closed connection's.
LEMMA DescribeStep ==
    ASSUME IInv, NEW c \in Conns, NEW x \in Suffixes, Describe(c, x)
    PROVE  IInv'
<1> DEFINE s == suffix_map[x]
<1>0. /\ TypeOK /\ TableInv /\ ConnInv /\ SessionInv /\ ClientInv /\ DescribedIsClient
      /\ QueueInv(queue)
      /\ Open(c) /\ c \in 1 .. accepted /\ c \notin closed
      /\ connections[fd[c]] = c /\ fd[c] \in Fds
      /\ rtp' = rtp \cup {c}
      /\ UNCHANGED <<sessionVars, connVars, closed, transport, playing, torn, queue, appVars>>
    BY DEF IInv, Describe, Served, Open, ConnInv
<1>1. TableInv' /\ ConnInv' /\ PushInv' /\ SocketInv' /\ QueueInv(queue)'
    BY <1>0, TableKept, ConnKept, PushKept, SocketKept, QueueKept
    DEF IInv, connVars, appVars
<1>2. CASE s = Nobody
    <2>1. UNCHANGED <<session_id, clients, history>>
        BY <1>2 DEF Describe
    <2>2. TypeOK'
        BY <1>0, <2>1 DEF TypeOK, sessionVars, connVars, appVars, history
    <2> QED
        BY <1>0, <1>1, <2>1, <2>2, ClientsKept DEF IInv, connVars
<1>3. CASE s # Nobody
    <2> DEFINE e == clients[s][fd[c]]
    <2>0. /\ s \in registered /\ s \in Sessions /\ s <= created /\ s \in 1 .. created
          /\ session_id' = [session_id EXCEPT ![c] = s]
          /\ clients' = [clients EXCEPT ![s][fd[c]] = IF @ = Nobody THEN c ELSE @]
          /\ shadowed' = IF e \in {Nobody, c} THEN shadowed \ {c} ELSE shadowed \cup {c}
          /\ switched' = IF session_id[c] \in registered \ {s}
                         THEN switched \cup {c} ELSE switched
        BY <1>0, <1>3 DEF Describe, AddClient, TableInv, SuffixesResolve, TypeOK, Sessions
    <2>1. /\ clients' \in [Sessions -> [Fds -> Conns \cup {Nobody}]]
          /\ \A t \in Sessions, f \in Fds :
                \/ clients'[t][f] = clients[t][f]
                \/ t = s /\ f = fd[c] /\ e = Nobody /\ clients'[t][f] = c
          /\ clients'[s][fd[c]] = IF e = Nobody THEN c ELSE e
        BY <1>0, <2>0 DEF TypeOK
    <2>2. TypeOK'
        BY <1>0, <2>0, <2>1 DEF TypeOK, sessionVars, connVars, appVars
    <2>3. SessionInv'
        BY <1>0, <2>0, <2>1 DEF SessionInv, sessionVars, TypeOK
    <2>4. ClientInv'
        <3> SUFFICES ASSUME NEW t \in Sessions, NEW f \in Fds, clients'[t][f] # Nobody
                     PROVE  LET d == clients'[t][f] IN
                            /\ d \in 1 .. accepted /\ fd[d] = f
                            /\ t \in registered => /\ session_id'[d] = t \/ d \in switched'
                                                   /\ d \in closed => d \in switched'
            BY <1>0 DEF ClientInv, sessionVars, connVars
        <3>1. CASE clients'[t][f] = c
            <4>1. CASE clients[t][f] = c
                <5>1. /\ c # Nobody /\ f = fd[c] /\ session_id'[c] = s
                      /\ t \in registered => session_id[c] = t \/ c \in switched
                    BY <1>0, <2>0, <4>1, Ids DEF ClientInv, TypeOK
                <5>2. t \in registered => session_id'[c] = t \/ c \in switched'
                    BY <2>0, <5>1
                <5> QED
                    BY <1>0, <3>1, <5>1, <5>2
            <4>2. CASE clients[t][f] # c
                <5>1. t = s /\ f = fd[c]
                    BY <2>1, <3>1, <4>2
                <5>2. session_id'[c] = s
                    BY <1>0, <2>0 DEF TypeOK
                <5> QED
                    BY <1>0, <3>1, <5>1, <5>2
            <4> QED
                BY <4>1, <4>2
        <3>2. CASE clients'[t][f] # c
            <4>1. clients'[t][f] = clients[t][f]
                BY <2>1, <3>2
            <4>2. clients[t][f] \in Conns /\ session_id'[clients[t][f]] = session_id[clients[t][f]]
                <5>1. clients[t][f] \in Conns /\ clients[t][f] # c
                    BY <1>0, <3>2, <4>1 DEF TypeOK
                <5>2. session_id \in [Conns -> Sessions \cup {Nobody}]
                    BY <1>0 DEF TypeOK
                <5> QED
                    BY <2>0, <5>1, <5>2
            <4>3. switched \subseteq switched'
                BY <2>0
            <4> QED
                BY <1>0, <4>1, <4>2, <4>3 DEF ClientInv
        <3> QED
            BY <3>1, <3>2
    <2>5. e \notin {Nobody, c} => e \in switched
        <3> SUFFICES ASSUME e \notin {Nobody, c} PROVE e \in switched
            OBVIOUS
        <3>1. e \in 1 .. accepted /\ fd[e] = fd[c] /\ (e \in closed => e \in switched)
            BY <1>0, <2>0 DEF ClientInv
        <3>2. e \in Conns /\ connections[fd[e]] # e
            BY <1>0, <2>0, <3>1 DEF TypeOK
        <3> QED
            BY <1>0, <3>1, <3>2 DEF ConnInv, Open
    <2>6. DescribedIsClient'
        <3>1. ASSUME NEW d \in Conns, Open(d), session_id'[d] \in registered
              PROVE  clients'[session_id'[d]][fd[d]] = d \/ d \in shadowed'
            <4>1. CASE d = c
                BY <1>0, <2>0, <2>1, <4>1 DEF TypeOK
            <4>2. CASE d # c
                <5>1. session_id'[d] = session_id[d] /\ (d \in shadowed => d \in shadowed')
                    BY <1>0, <2>0, <4>2 DEF TypeOK
                <5>2. fd[d] # fd[c] /\ fd[d] \in Fds /\ session_id[d] \in Sessions
                    <6>1. connections[fd[d]] = d /\ fd[d] \in Fds
                        BY <1>0, <3>1 DEF ConnInv, Open
                    <6>2. registered' = registered
                        BY <1>0 DEF sessionVars
                    <6> QED
                        BY <1>0, <3>1, <4>2, <5>1, <6>1, <6>2, Ids
                <5>3. clients'[session_id[d]][fd[d]] = clients[session_id[d]][fd[d]]
                    BY <2>1, <5>2
                <5>4. DescribedIsClient /\ Open(d) /\ session_id[d] \in registered
                    BY <1>0, <3>1, <5>1
                <5>5. clients[session_id[d]][fd[d]] = d \/ d \in shadowed
                    BY <5>4 DEF DescribedIsClient
                <5> QED
                    BY <5>1, <5>3, <5>5
            <4> QED
                BY <4>1, <4>2
        <3>2. shadowed' # {} => switched' # {}
            BY <1>0, <2>0, <2>5 DEF DescribedIsClient
        <3> QED
            BY <1>0, <3>1, <3>2 DEF DescribedIsClient, sessionVars, connVars, Open
    <2> QED
        BY <1>1, <2>2, <2>3, <2>4, <2>6 DEF IInv
<1> QED
    BY <1>2, <1>3

\* PLAY and TEARDOWN, which only set how packets are sent.
LEMMA RequestStep ==
    ASSUME IInv, NEW c \in Conns, Play(c) \/ Teardown(c)
    PROVE  IInv'
<1>1. /\ UNCHANGED <<sessionVars, clients, connVars, closed, session_id, rtp, transport,
                     queue, appVars, history>>
      /\ playing' \subseteq rtp /\ torn' \subseteq rtp
    BY DEF IInv, TypeOK, Play, Teardown, TearDown
<1>2. TypeOK'
    BY <1>1 DEF IInv, TypeOK, sessionVars, connVars, appVars, history
<1> QED
    BY <1>1, <1>2, TableKept, ConnKept, PushKept, SocketKept, ClientsKept, QueueKept
    DEF IInv, connVars, appVars

LEMMA SetupStep ==
    ASSUME IInv, NEW c \in Conns, Setup(c)
    PROVE  IInv'
<1>1. /\ UNCHANGED <<sessionVars, clients, accepted, fd, connections, closed, session_id,
                     rtp, playing, torn, queue, appVars, history>>
      /\ TypeOK /\ c \in 1 .. accepted /\ fd[c] \in Fds
    BY DEF Setup, Served, Open, IInv, ConnInv
<1>2. TypeOK'
    <2>1. /\ owner' \in [Fds -> Conns \cup {Nobody, Other}] /\ astray' \subseteq Fds
          /\ setups' \in 0 .. MaxSetups
          /\ rtpfd' \in [Conns -> Fds \cup {None}]
          /\ rtcpfd' \in [Conns -> Fds \cup {None}]
          /\ transport' \in [Conns -> {"none", "tcp", "udp"}]
        <3>1. CASE SetupTcp(c)
            BY <1>1, <3>1 DEF SetupTcp, TypeOK
        <3>2. CASE SetupUdp(c) /\ setups < MaxSetups /\ setups' = setups + 1
            BY <1>1, <3>2, RtspAssumption DEF SetupUdp, FreeFds, TypeOK
        <3>3. CASE SetupUdpFails(c) /\ setups < MaxSetups /\ setups' = setups + 1
            BY <1>1, <3>3, RtspAssumption DEF SetupUdpFails, FreeFds, TypeOK
        <3> QED
            BY <3>1, <3>2, <3>3 DEF Setup
    <2> QED
        BY <1>1, <2>1 DEF TypeOK, sessionVars, appVars, history
<1> QED
    BY <1>1, <1>2, SetupSocket, TableKept, ConnKept, PushKept, ClientsKept, QueueKept
    DEF IInv

\* The removal finds its own connection under its descriptor, and no packet
\* that was posted while that was open is behind it.
LEMMA RunRemoveStep ==
    ASSUME IInv, RunRemove
    PROVE  IInv'
<1> DEFINE q == Tail(queue)
           c == Head(queue).conn
<1>0. /\ TypeOK /\ ConnInv /\ SessionInv /\ ClientInv /\ DescribedIsClient /\ QueueInv(queue)
      /\ queue \in Seq(Events) /\ queue # <<>> /\ queue' = q
      /\ connections' = [connections EXCEPT ![fd[c]] = Nobody]
      /\ IF locked = c THEN UNCHANGED <<owner, astray>> ELSE Destroy(c)
      /\ UNCHANGED <<sessionVars, clients, accepted, fd, rtpfd, rtcpfd, setups, closed,
                     session_id, rtpVars, appVars, history>>
    BY DEF IInv, RunRemove, TypeOK, Events
<1>1. /\ q \in Seq(Events) /\ Len(queue) \in Nat /\ Len(q) = Len(queue) - 1
      /\ Head(queue) = queue[1] /\ 1 \in 1 .. Len(queue)
      /\ \A i \in 1 .. Len(q) : i + 1 \in 1 .. Len(queue) /\ q[i] = queue[i + 1]
    BY <1>0, TailOf
<1>2. c \in Conns /\ IsRemove(Head(queue))
    BY <1>0, TailOf, EventType DEF RunRemove, IsRemove
<1>3. c \in closed /\ connections[fd[c]] = c /\ fd[c] \in Fds /\ c \in 1 .. accepted
    <2>1. c \in closed /\ connections[fd[c]] = c
        BY <1>0, <1>1, <1>2 DEF QueueInv
    <2>2. c \in 1 .. accepted
        BY <1>0, <2>1 DEF TypeOK
    <2> QED
        BY <1>0, <2>1, <2>2 DEF ConnInv
<1> HIDE DEF q, c
<1>4. /\ connections' \in [Fds -> Conns \cup {Nobody}]
      /\ \A d \in 1 .. accepted : d # c => (connections'[fd[d]] = d <=> connections[fd[d]] = d)
      /\ connections'[fd[c]] # c
    BY <1>0, <1>2, <1>3 DEF TypeOK, ConnInv, Conns, Nobody
<1>5. \A i \in 1 .. Len(q) : IsRemove(q[i]) \/ IsOpenPacket(q[i]) => q[i].conn # c
    <2> SUFFICES ASSUME NEW i \in 1 .. Len(q), q[i].conn = c, IsRemove(q[i]) \/ IsOpenPacket(q[i])
                 PROVE  FALSE
        OBVIOUS
    <2>1. i + 1 \in 1 .. Len(queue) /\ i \in Nat \ {0} /\ q[i] = queue[i + 1]
        BY <1>1
    <2>2. queue[1].conn = c /\ IsRemove(queue[1])
        BY <1>1, <1>2 DEF c
    <2>3. IsRemove(queue[i + 1]) => i + 1 = 1
        BY <1>0, <1>1, <2>1, <2>2 DEF QueueInv
    <2>4. IsOpenPacket(queue[i + 1]) => i + 1 < 1
        BY <1>0, <1>1, <2>1, <2>2 DEF QueueInv
    <2> QED
        BY <2>1, <2>3, <2>4
<1>6. QueueInv(queue)'
    <2>1. closed \subseteq 1 .. accepted /\ rtp \subseteq 1 .. accepted
        BY <1>0 DEF TypeOK
    <2>2. \A i \in 1 .. Len(q) : IsRemove(q[i]) =>
              q[i].conn \in closed /\ connections'[fd[q[i].conn]] = q[i].conn
        <3>0. \A k \in 1 .. Len(queue) : IsRemove(queue[k]) =>
                  queue[k].conn \in closed /\ connections[fd[queue[k].conn]] = queue[k].conn
            BY <1>0 DEF QueueInv
        <3>1. ASSUME NEW i \in 1 .. Len(q), IsRemove(q[i])
              PROVE  q[i].conn \in closed /\ connections[fd[q[i].conn]] = q[i].conn
            <4>1. i + 1 \in 1 .. Len(queue) /\ q[i] = queue[i + 1]
                BY <1>1
            <4> QED
                BY <3>0, <3>1, <4>1
        <3> QED
            BY <1>4, <1>5, <2>1, <3>1
    <2>3. \A i \in 1 .. Len(q) : IsOpenPacket(q[i]) =>
              q[i].conn \in rtp /\ connections'[fd[q[i].conn]] = q[i].conn
        <3>0. \A k \in 1 .. Len(queue) : IsOpenPacket(queue[k]) =>
                  queue[k].conn \in rtp /\ connections[fd[queue[k].conn]] = queue[k].conn
            BY <1>0 DEF QueueInv
        <3>1. ASSUME NEW i \in 1 .. Len(q), IsOpenPacket(q[i])
              PROVE  q[i].conn \in rtp /\ connections[fd[q[i].conn]] = q[i].conn
            <4>1. i + 1 \in 1 .. Len(queue) /\ q[i] = queue[i + 1]
                BY <1>1
            <4> QED
                BY <3>0, <3>1, <4>1
        <3> QED
            BY <1>4, <1>5, <2>1, <3>1
    <2>4. ASSUME NEW i \in 1 .. Len(q), NEW j \in 1 .. Len(q), q[i].conn = q[j].conn
          PROVE  /\ IsRemove(q[i]) /\ IsRemove(q[j]) => i = j
                 /\ IsOpenPacket(q[i]) /\ IsRemove(q[j]) => i < j
        <3>1. /\ IsRemove(q[i]) /\ IsRemove(q[j]) => i + 1 = j + 1
              /\ IsOpenPacket(q[i]) /\ IsRemove(q[j]) => i + 1 < j + 1
            <4>1. /\ i + 1 \in 1 .. Len(queue) /\ q[i] = queue[i + 1]
                  /\ j + 1 \in 1 .. Len(queue) /\ q[j] = queue[j + 1]
                BY <1>1
            <4> QED
                BY <1>0, <2>4, <4>1 DEF QueueInv
        <3> QED
            BY <3>1
    <2>5. ASSUME NEW d \in closed, connections'[fd[d]] = d
          PROVE  \E i \in 1 .. Len(q) : IsRemove(q[i]) /\ q[i].conn = d
        <3>1. d # c /\ connections[fd[d]] = d
            BY <1>0, <1>4, <2>5 DEF TypeOK
        <3>2. PICK i \in 1 .. Len(queue) : IsRemove(queue[i]) /\ queue[i].conn = d
            BY <1>0, <3>1 DEF QueueInv
        <3>3. i # 1
            BY <1>1, <3>1, <3>2 DEF c
        <3>4. i - 1 \in 1 .. Len(q) /\ (i - 1) + 1 = i
            BY <1>1, <3>2, <3>3
        <3> QED
            BY <1>1, <3>2, <3>4
    <2> QED
        BY <1>0, <2>2, <2>3, <2>4, <2>5, Zenon DEF QueueInv, rtpVars
<1>7. TypeOK'
    <2>1. owner' \in [Fds -> Conns \cup {Nobody, Other}] /\ astray' \subseteq Fds
        BY <1>0, <1>3 DEF TypeOK, Destroy, CloseFds
    <2> QED
        BY <1>0, <1>1, <1>4, <2>1 DEF TypeOK, Events, sessionVars, rtpVars, appVars, history
<1>8. TableInv' /\ PushInv' /\ SessionInv' /\ ClientInv' /\ DescribedIsClient'
    BY <1>0, TableKept, PushKept, ClientsKept
    DEF IInv, SessionInv, ClientInv, DescribedIsClient, sessionVars, rtpVars, history, Open
<1>9. ConnInv'
    BY <1>0, <1>3, <1>4 DEF ConnInv, Open, TypeOK, Nobody
<1>10. SocketInv'
    <2>1. PICK e \in Conns : e = c
        BY <1>2
    <2>2. /\ \A d \in Conns : d # e => (ConnAlive(d)' <=> ConnAlive(d))
          /\ ConnAlive(e) /\ (ConnAlive(e)' <=> locked = e)
        BY <1>0, <1>3, <1>4, <2>1 DEF ConnAlive, appVars
    <2>3. CASE locked = e
        <3>1. \A d \in Conns : (ConnAlive(d)' <=> ConnAlive(d)) /\ (RtpAlive(d)' <=> RtpAlive(d))
            BY <1>0, <2>2, <2>3 DEF RtpAlive, rtpVars, appVars
        <3>2. dying = Nobody
            BY <2>1, <2>3, Ids DEF IInv, PushInv
        <3> QED
            BY <1>0, <2>1, <2>3, <3>1, <3>2, LivesKept DEF IInv, rtpVars, appVars
    <2>4. CASE locked # e
        BY <1>0, <1>3, <2>1, <2>2, <2>4, Destroyed DEF IInv, rtpVars, appVars
    <2> QED
        BY <2>3, <2>4
<1> QED
    BY <1>6, <1>7, <1>8, <1>9, <1>10 DEF IInv

LEMMA RunPacketStep ==
    ASSUME IInv, RunPacket
    PROVE  IInv'
<1>1. PICK c \in Conns :
        /\ queue # <<>> /\ Head(queue).op = "packet"
        /\ \/ /\ queue' = Tail(queue)
              /\ UNCHANGED <<clients, closed, playing, torn>>
           \/ /\ Open(c) /\ closed' = closed \cup {c} /\ OnClose(c)
              /\ queue' = Append(Tail(queue), RemoveOf(c))
              /\ UNCHANGED <<playing, torn>>
           \/ /\ c \in playing
              /\ queue' = Tail(queue)
              /\ TearDown(c)
              /\ UNCHANGED <<clients, closed>>
        /\ UNCHANGED <<sessionVars, connVars, session_id, rtp, transport, appVars, history>>
    BY DEF RunPacket
<1>2. QueueInv(Tail(queue)) /\ Tail(queue) \in Seq(Events)
    BY <1>1, PacketLeaves DEF IInv, TypeOK, Events, IsRemove
<1>3. CASE /\ Open(c) /\ closed' = closed \cup {c} /\ OnClose(c)
           /\ queue' = Append(Tail(queue), RemoveOf(c))
           /\ UNCHANGED <<playing, torn>>
    BY <1>1, <1>2, <1>3, ClosingStep DEF rtpVars
<1>4. CASE /\ queue' = Tail(queue) /\ UNCHANGED <<clients, closed>>
           /\ playing' \subseteq rtp /\ torn' \subseteq rtp
    <2>1. QueueInv(queue)' /\ queue' \in Seq(Events)
        BY <1>1, <1>2, <1>4 DEF QueueInv, connVars
    <2>2. TypeOK'
        BY <1>1, <1>4, <2>1
        DEF IInv, TypeOK, Events, sessionVars, connVars, appVars, history
    <2> QED
        BY <1>1, <1>4, <2>1, <2>2, TableKept, ConnKept, PushKept, SocketKept, ClientsKept
        DEF IInv, connVars, appVars
<1> QED
    BY <1>1, <1>3, <1>4 DEF IInv, TypeOK, TearDown

-----------------------------------------------------------------------------
(* The application's thread.                                               *)

LEMMA PushBookkeepingStep ==
    ASSUME IInv, (\E s \in Sessions : PushFrame(s)) \/ CountClients \/ SendLock \/ PushReturns
    PROVE  IInv'
<1>1. /\ UNCHANGED <<sessionVars, clients, connVars, closed, session_id, rtpVars, queue, history>>
      /\ TypeOK /\ PushInv
    BY DEF IInv, PushFrame, CountClients, SendLock, PushReturns
<1>2. TypeOK' /\ PushInv'
    <2>1. CASE \E s \in Sessions : PushFrame(s)
        BY <1>1, <2>1, RtspAssumption
        DEF PushFrame, TypeOK, PushInv, sessionVars, connVars, rtpVars, history
    <2>2. CASE CountClients
        BY <1>1, <2>2 DEF CountClients, TypeOK, PushInv, sessionVars, connVars, rtpVars, history
    <2>3. CASE SendLock
        BY <1>1, <2>3 DEF SendLock, TypeOK, PushInv, sessionVars, connVars, rtpVars, history
    <2>4. CASE PushReturns
        BY <1>1, <2>4 DEF PushReturns, TypeOK, PushInv, sessionVars, connVars, rtpVars, history
    <2> QED
        BY <2>1, <2>2, <2>3, <2>4
<1>3. SocketInv'
    <2>1. CASE ~SendLock
        <3>1. UNCHANGED <<holding, locked, dying>>
            BY <2>1 DEF PushFrame, CountClients, PushReturns
        <3> QED
            BY <1>1, <3>1, SocketKept DEF IInv, rtpVars
    <2>2. CASE SendLock
        <3>1. /\ locked = Nobody /\ UNCHANGED <<holding, dying>>
              /\ todo # {} /\ dying = Nobody
              /\ locked' = Nobody \/ ConnAlive(locked')
            BY <1>1, <2>2 DEF SendLock, PushInv
        <3>2. \A d \in Conns : (ConnAlive(d)' <=> ConnAlive(d))
            BY <1>1, <3>1, Ids DEF ConnAlive, connVars
        <3>3. \A d \in Conns : (RtpAlive(d)' <=> RtpAlive(d))
            BY <1>1, <3>1, <3>2 DEF RtpAlive, rtpVars
        <3> QED
            BY <1>1, <3>1, <3>2, <3>3, LivesKept DEF IInv, connVars, rtpVars
    <2> QED
        BY <2>1, <2>2
<1> QED
    BY <1>1, <1>2, <1>3, TableKept, ConnKept, ClientsKept, QueueKept
    DEF IInv, connVars, rtpVars

\* Only entries of connections that are gone are erased.
LEMMA GatherStep ==
    ASSUME IInv, Gather
    PROVE  IInv'
<1>0. /\ TypeOK /\ ConnInv /\ SessionInv /\ ClientInv /\ DescribedIsClient
      /\ app = "counted" /\ app' = "sending" /\ target \in Sessions /\ locked = Nobody
      /\ holding = {} /\ dying = Nobody /\ UNCHANGED dying
      /\ holding' \subseteq {c \in {clients[target][f] : f \in Fds} :
                               RtpAlive(c) /\ ConnAlive(c)}
      /\ todo' = holding'
      /\ clients' = [clients EXCEPT ![target] =
                        [f \in Fds |-> IF @[f] # Nobody /\ ~RtpAlive(@[f])
                                       THEN Nobody ELSE @[f]]]
      /\ UNCHANGED <<sessionVars, connVars, closed, session_id, rtpVars, queue,
                     target, locked, frames, history>>
    BY DEF IInv, Gather, PushInv
<1>1. /\ clients' \in [Sessions -> [Fds -> Conns \cup {Nobody}]]
      /\ \A s \in Sessions, f \in Fds :
            clients'[s][f] = clients[s][f] \/ (clients'[s][f] = Nobody /\ ~RtpAlive(clients[s][f]))
    BY <1>0 DEF TypeOK
<1>2. TypeOK'
    <2>1. holding' \subseteq rtp
        BY <1>0 DEF RtpAlive
    <2> QED
        BY <1>0, <1>1, <2>1 DEF TypeOK, sessionVars, connVars, rtpVars, history
<1>3. PushInv'
    BY <1>0 DEF PushInv
<1>4. SessionInv' /\ ClientInv'
    BY <1>0, <1>1 DEF SessionInv, ClientInv, sessionVars, connVars, rtpVars, history
<1>5. DescribedIsClient'
    <2>1. ASSUME NEW c \in Conns, Open(c), session_id[c] \in registered
          PROVE  clients'[session_id[c]][fd[c]] = c \/ c \in shadowed
        <3>1. /\ fd[c] \in Fds /\ connections[fd[c]] = c
              /\ session_id[c] \in Sessions /\ session_id[c] # Nobody /\ c # Nobody
            BY <1>0, <2>1, Ids DEF ConnInv, Open
        <3>2. RtpAlive(c)
            BY <1>0, <2>1, <3>1 DEF SessionInv, RtpAlive, ConnAlive, Open
        <3> QED
            BY <1>0, <1>1, <2>1, <3>1, <3>2 DEF DescribedIsClient
    <2> QED
        BY <1>0, <2>1 DEF DescribedIsClient, sessionVars, connVars, history, Open
<1>6. SocketInv'
    <2>1. \A d \in Conns : (ConnAlive(d)' <=> ConnAlive(d))
        BY <1>0 DEF ConnAlive, connVars
    <2>2. \A d \in Conns : (RtpAlive(d)' <=> RtpAlive(d))
        BY <1>0, <2>1 DEF RtpAlive, rtpVars
    <2> QED
        BY <1>0, <2>1, <2>2, LivesKept DEF IInv, connVars, rtpVars
<1> QED
    BY <1>0, <1>2, <1>3, <1>4, <1>5, <1>6, TableKept, ConnKept, QueueKept
    DEF IInv, connVars, rtpVars

\* The packet of an open connection finds no removal before it.
LEMMA SendPostStep ==
    ASSUME IInv, SendPost
    PROVE  IInv'
<1>0. /\ TypeOK /\ PushInv /\ ConnInv /\ QueueInv(queue)
      /\ locked # Nobody /\ locked' = Nobody
      /\ queue' = Append(queue, PacketOf(locked, Open(locked)))
      /\ IF connections[fd[locked]] = locked THEN UNCHANGED <<owner, astray>>
                                            ELSE Destroy(locked)
      /\ UNCHANGED <<sessionVars, clients, accepted, fd, connections, rtpfd, rtcpfd,
                     setups, closed, session_id, rtpVars, app, target, holding, todo,
                     dying, frames, history>>
    BY DEF IInv, SendPost
<1>1. /\ locked \in rtp /\ locked \in Conns /\ Open(locked) \in BOOLEAN
      /\ Open(locked) => locked \notin closed /\ connections[fd[locked]] = locked
    BY <1>0, Ids DEF TypeOK, Open, ConnInv
<1>2. QueueInv(queue)' /\ queue' \in Seq(Events)
    BY <1>0, <1>1, PacketEnters DEF TypeOK, Events, rtpVars
<1>3. TypeOK'
    <2>1. owner' \in [Fds -> Conns \cup {Nobody, Other}] /\ astray' \subseteq Fds
        BY <1>0, <1>1 DEF TypeOK, ConnInv, Destroy, CloseFds
    <2> QED
        BY <1>0, <1>2, <2>1 DEF TypeOK, Events, sessionVars, rtpVars, history
<1>4. PushInv'
    BY <1>0 DEF PushInv
<1>5. SocketInv'
    <2>1. PICK d \in Conns : d = locked
        BY <1>1
    <2>2. /\ ConnAlive(d) /\ d \in 1 .. accepted /\ fd[d] \in Fds /\ dying = Nobody
          /\ d # Nobody
        BY <1>0, <1>1, <2>1, Ids DEF ConnAlive, TypeOK, ConnInv, PushInv
    <2>3. /\ \A e \in Conns : e # d => (ConnAlive(e)' <=> ConnAlive(e))
          /\ ConnAlive(d)' <=> connections[fd[d]] = d
        BY <1>0, <2>1, <2>2, Ids DEF ConnAlive
    <2>4. CASE connections[fd[d]] = d
        <3>1. \A e \in Conns : (ConnAlive(e)' <=> ConnAlive(e)) /\ (RtpAlive(e)' <=> RtpAlive(e))
            BY <1>0, <2>2, <2>3, <2>4 DEF RtpAlive, rtpVars
        <3> QED
            BY <1>0, <2>1, <2>2, <2>4, <3>1, LivesKept DEF IInv, rtpVars
    <2>5. CASE connections[fd[d]] # d
        BY <1>0, <2>1, <2>2, <2>3, <2>5, Destroyed DEF IInv, rtpVars
    <2> QED
        BY <2>4, <2>5
<1> QED
    BY <1>0, <1>2, <1>3, <1>4, <1>5, TableKept, ConnKept, ClientsKept DEF IInv, rtpVars

\* The last reference to the RtpConnection: the connection is gone before, so
\* that what ~RtpConnection closes is its own or went astray.
LEMMA ReleaseStep ==
    ASSUME IInv, NEW c \in Conns, Release(c)
    PROVE  IInv'
<1>0. /\ TypeOK /\ PushInv /\ ConnInv /\ SocketInv
      /\ todo = {} /\ locked = Nobody /\ dying = Nobody /\ app = "sending"
      /\ c \in holding /\ holding' = holding \ {c} /\ c \in rtp
      /\ IF ConnAlive(c) THEN UNCHANGED <<owner, dying>>
                         ELSE owner' = CloseFds({rtpfd[c]}) /\ dying' = c
      /\ UNCHANGED <<sessionVars, clients, accepted, fd, connections, rtpfd, rtcpfd,
                     astray, setups, closed, session_id, rtpVars, queue, app, target,
                     todo, locked, frames, history>>
    BY DEF IInv, Release, TypeOK
<1>1. TypeOK'
    <2>1. owner' \in [Fds -> Conns \cup {Nobody, Other}] /\ dying' \in rtp \cup {Nobody}
        BY <1>0 DEF TypeOK, CloseFds
    <2> QED
        BY <1>0, <2>1 DEF TypeOK, sessionVars, rtpVars, history
<1>2. PushInv'
    BY <1>0 DEF PushInv
<1>3. /\ \A d \in Conns : (ConnAlive(d)' <=> ConnAlive(d)) /\ RtpSockets(d)' = RtpSockets(d)
      /\ \A d \in Conns : d # c => (RtpAlive(d)' <=> RtpAlive(d))
    BY <1>0 DEF ConnAlive, RtpAlive, RtpSockets, rtpVars
<1>4. CASE ConnAlive(c)
    <2>1. \A d \in Conns : (RtpAlive(d)' <=> RtpAlive(d))
        BY <1>0, <1>3, <1>4 DEF RtpAlive, rtpVars
    <2>2. SocketInv'
        BY <1>0, <1>3, <1>4, <2>1, LivesKept DEF rtpVars
    <2> QED
        BY <1>0, <1>1, <1>2, <2>2, TableKept, ConnKept, ClientsKept, QueueKept
        DEF IInv, rtpVars
<1>5. CASE ~ConnAlive(c)
    <2>0. /\ owner' = CloseFds({rtpfd[c]}) /\ dying' = c /\ c # Nobody
          /\ RtpAlive(c) /\ ~RtpAlive(c)'
        BY <1>0, <1>3, <1>5, Ids DEF RtpAlive
    <2>1. \A f \in {rtpfd[c]} \cap Fds : Claims(c, f)
        BY <2>0 DEF Claims, RtpSockets
    <2>2. /\ \A d \in Conns, f \in Fds : owner'[f] = d => owner[f] = d /\ f # rtpfd[c]
          /\ \A d \in Conns, f \in Fds :
                d # c /\ Claims(d, f) => owner'[f] = d \/ f \in astray
        BY <1>0, <2>0, <2>1, Closing
    <2>3. ASSUME NEW d \in Conns, NEW f \in Fds, owner'[f] = d
          PROVE  /\ d <= accepted'
                 /\ f = fd'[d] => ConnAlive(d)'
                 /\ f \in RtpSockets(d)' => RtpAlive(d)' \/ (dying' = d /\ f = rtcpfd'[d])
        <3>1. /\ owner[f] = d /\ f # rtpfd[c] /\ d <= accepted
              /\ f = fd[d] => ConnAlive(d)
              /\ f \in RtpSockets(d) => RtpAlive(d)
            BY <1>0, <2>2, <2>3, Ids DEF SocketInv
        <3>2. d = c /\ f \in RtpSockets(d) => f = rtcpfd[c]
            BY <3>1 DEF RtpSockets
        <3> QED
            BY <1>0, <1>3, <2>0, <3>1, <3>2
    <2>4. ASSUME NEW d \in Conns, NEW f \in Fds, Claims(d, f)'
          PROVE  owner'[f] = d \/ f \in astray'
        <3>1. CASE d # c
            <4>1. Claims(d, f)
                BY <1>0, <1>3, <2>0, <2>4, <3>1 DEF Claims
            <4> QED
                BY <1>0, <2>2, <3>1, <4>1
        <3>2. CASE d = c
            <4>1. f = rtcpfd[c] /\ (owner[f] = c \/ f \in astray)
                BY <1>0, <1>3, <1>5, <2>0, <2>4, <3>2 DEF Claims, RtpSockets, SocketInv
            <4>2. CASE f = rtpfd[c]
                <5>1. f = fd[c] \/ f \in astray
                    BY <1>0, <4>1, <4>2, RtspAssumption DEF SocketInv
                <5> QED
                    BY <1>0, <1>5, <4>1, <5>1 DEF SocketInv
            <4>3. CASE f # rtpfd[c]
                <5>1. owner'[f] = owner[f]
                    BY <2>0, <4>3 DEF CloseFds
                <5> QED
                    BY <1>0, <3>2, <4>1, <5>1
            <4> QED
                BY <4>2, <4>3
        <3> QED
            BY <3>1, <3>2
    <2>5. SocketInv'
        BY <1>0, <1>3, <1>5, <2>0, <2>3, <2>4 DEF SocketInv, rtpVars
    <2> QED
        BY <1>0, <1>1, <1>2, <2>5, TableKept, ConnKept, ClientsKept, QueueKept
        DEF IInv, rtpVars
<1> QED
    BY <1>4, <1>5

LEMMA CloseRtcpStep ==
    ASSUME IInv, CloseRtcp
    PROVE  IInv'
<1>1. PICK c \in Conns : c = dying
    BY Ids DEF IInv, TypeOK, CloseRtcp
<1>2. /\ TypeOK /\ PushInv /\ SocketInv /\ dying # Nobody /\ dying' = Nobody
      /\ owner' = CloseFds({rtcpfd[c]})
      /\ ~ConnAlive(c) /\ c \notin holding /\ ~RtpAlive(c)
      /\ UNCHANGED <<sessionVars, clients, accepted, fd, connections, rtpfd, rtcpfd,
                     astray, setups, closed, session_id, rtpVars, queue, app, target,
                     holding, todo, locked, frames, history>>
    BY <1>1 DEF IInv, CloseRtcp, SocketInv, RtpAlive
<1>3. TypeOK'
    <2>1. owner' \in [Fds -> Conns \cup {Nobody, Other}]
        BY <1>2 DEF TypeOK, CloseFds
    <2> QED
        BY <1>2, <2>1 DEF TypeOK, sessionVars, rtpVars, history
<1>4. PushInv'
    BY <1>2 DEF PushInv
<1>5. \A d \in Conns : /\ (ConnAlive(d)' <=> ConnAlive(d)) /\ RtpSockets(d)' = RtpSockets(d)
                       /\ (RtpAlive(d)' <=> RtpAlive(d))
    BY <1>2 DEF ConnAlive, RtpAlive, RtpSockets, rtpVars
<1>6. /\ \A d \in Conns, f \in Fds : owner'[f] = d => owner[f] = d /\ f # rtcpfd[c]
      /\ \A d \in Conns, f \in Fds :
            d # c /\ Claims(d, f) => owner'[f] = d \/ f \in astray
    <2>1. \A f \in {rtcpfd[c]} \cap Fds : Claims(c, f)
        BY <1>1 DEF Claims
    <2> QED
        BY <1>2, <2>1, Closing
<1>7. ASSUME NEW d \in Conns, NEW f \in Fds, owner'[f] = d
      PROVE  /\ d <= accepted'
             /\ f = fd'[d] => ConnAlive(d)'
             /\ f \in RtpSockets(d)' => RtpAlive(d)' \/ (dying' = d /\ f = rtcpfd'[d])
    BY <1>1, <1>2, <1>5, <1>6, <1>7 DEF SocketInv
<1>8. ASSUME NEW d \in Conns, NEW f \in Fds, Claims(d, f)'
      PROVE  owner'[f] = d \/ f \in astray'
    BY <1>2, <1>5, <1>6, <1>8, Ids DEF Claims
<1>9. SocketInv'
    BY <1>2, <1>7, <1>8 DEF SocketInv, rtpVars
<1> QED
    BY <1>2, <1>3, <1>4, <1>9, TableKept, ConnKept, ClientsKept, QueueKept
    DEF IInv, rtpVars

-----------------------------------------------------------------------------
LEMMA Invariance == Spec => []IInv
<1>1. IInv /\ [Next]_vars => IInv'
    <2> SUFFICES ASSUME IInv, [Next]_vars PROVE IInv'
        OBVIOUS
    <2>1. ASSUME NEW x \in Suffixes, AddSession(x) PROVE IInv'
        BY <2>1, AddSessionStep
    <2>2. ASSUME NEW s \in Sessions, RemoveSession(s) PROVE IInv'
        BY <2>2, RemoveSessionStep
    <2>3. ASSUME NEW f \in Fds, Accept(f) PROVE IInv'
        BY <2>3, AcceptStep
    <2>4. ASSUME NEW c \in Conns, Close(c) PROVE IInv'
        BY <2>4, ClosingStep DEF Close, CloseConnection, IInv, TypeOK, Events
    <2>5. ASSUME NEW c \in Conns, NEW x \in Suffixes, Describe(c, x) PROVE IInv'
        BY <2>5, DescribeStep
    <2>6. ASSUME NEW c \in Conns, Setup(c) PROVE IInv'
        BY <2>6, SetupStep
    <2>13. ASSUME NEW c \in Conns, Play(c) \/ Teardown(c) PROVE IInv'
        BY <2>13, RequestStep
    <2>14. ASSUME NEW c \in Conns, Release(c) PROVE IInv'
        BY <2>14, ReleaseStep
    <2>15. CASE CloseRtcp
        BY <2>15, CloseRtcpStep
    <2>7. CASE RunRemove
        BY <2>7, RunRemoveStep
    <2>8. CASE RunPacket
        BY <2>8, RunPacketStep
    <2>9. CASE (\E s \in Sessions : PushFrame(s)) \/ CountClients \/ SendLock \/ PushReturns
        BY <2>9, PushBookkeepingStep
    <2>10. CASE Gather
        BY <2>10, GatherStep
    <2>11. CASE SendPost
        BY <2>11, SendPostStep
    <2>12. CASE UNCHANGED vars
        <3>1. TypeOK'
            BY <2>12 DEF IInv, TypeOK, vars, sessionVars, connVars, rtpVars, appVars, history
        <3> QED
            BY <2>12, <3>1, TableKept, ConnKept, PushKept, SocketKept, ClientsKept, QueueKept
            DEF IInv, vars, connVars, rtpVars, appVars
    <2> QED
        BY <2>1, <2>2, <2>3, <2>4, <2>5, <2>6, <2>7, <2>8, <2>9, <2>10, <2>11, <2>12,
           <2>13, <2>14, <2>15
        DEF Next, LoopStep, PushStep
<1> QED
    BY InitHolds, <1>1, PTL DEF Spec

-----------------------------------------------------------------------------
(* The theorems.                                                           *)

\* The tables, the queue and what PushFrame holds keep their types: clients_
\* holds connections, and only one with an RtpConnection plays.
THEOREM TypeCorrect == Spec => []TypeOK
BY Invariance, PTL DEF IInv

\* rtsp_suffix_map_ and media_sessions_ agree, so that LookMediaSession never
\* adds a null session.
THEOREM TablesAgree == Spec => []SuffixesResolve
BY Invariance, PTL DEF IInv, TableInv

\* A packet that was posted while its connection was open runs before the
\* connection is dropped from connections_, whatever closes it.
THEOREM PacketsAreProtected == Spec => []FifoProtectsPackets
<1>1. IInv => FifoProtectsPackets
    <2> SUFFICES ASSUME IInv, NEW i \in 1 .. Len(queue),
                        queue[i].op = "packet" /\ queue[i].open
                 PROVE  RtpAlive(queue[i].conn)
        BY DEF FifoProtectsPackets
    <2>1. /\ queue[i].conn \in rtp
          /\ connections[fd[queue[i].conn]] = queue[i].conn
        BY DEF IInv, QueueInv, IsOpenPacket
    <2> QED
        BY <2>1 DEF IInv, TypeOK, RtpAlive, ConnAlive
<1> QED
    BY <1>1, Invariance, PTL

\* An entry left behind in a session's clients_ takes a second DESCRIBE.
THEOREM LeftoversAreSwitched == Spec => []StaleOnlyFromSwitch
<1>1. IInv => StaleOnlyFromSwitch
    <2> SUFFICES ASSUME IInv, NEW s \in registered, NEW f \in Fds,
                        clients[s][f] \in closed
                 PROVE  clients[s][f] \in switched
        BY DEF StaleOnlyFromSwitch
    <2>1. s \in Sessions /\ clients[s][f] # Nobody
        BY Ids DEF IInv, TypeOK, Nobody
    <2> QED
        BY <2>1 DEF IInv, ClientInv
<1> QED
    BY <1>1, Invariance, PTL

\* Who has described a registered session is sent its frames, but for one that
\* such an entry shadows.
THEOREM DescribersAreClients == Spec => []DescribedIsClient
BY Invariance, PTL DEF IInv

\* With the queue empty and PushFrame returned, no closed connection is held,
\* and of what it and its RtpConnection are to close nothing is open.
THEOREM ClosedAreFreed == Spec => []ClosedIsFreed
<1>1. IInv => ClosedIsFreed
    <2> SUFFICES ASSUME IInv, queue = <<>>, app = "idle", NEW c \in closed
                 PROVE  /\ ~ConnAlive(c)
                        /\ \A f \in Fds : owner[f] = c =>
                              f # fd[c] /\ f \notin RtpSockets(c)
        BY DEF ClosedIsFreed
    <2>1. /\ c \in Conns /\ locked # c /\ dying # c /\ c \notin holding
        BY Ids DEF IInv, TypeOK, PushInv
    <2>2. ~ConnAlive(c)
        <3> SUFFICES ASSUME ConnAlive(c) PROVE FALSE
            OBVIOUS
        <3>1. connections[fd[c]] = c
            BY <2>1 DEF ConnAlive
        <3>2. \E i \in 1 .. Len(queue) : IsRemove(queue[i]) /\ queue[i].conn = c
            BY <3>1 DEF IInv, QueueInv
        <3> QED
            BY <3>2
    <2> QED
        BY <2>1, <2>2 DEF IInv, SocketInv, RtpAlive
<1> QED
    BY <1>1, Invariance, PTL

\* Whichever thread runs the destructors and whatever was accepted since, an
\* open connection has its socket, unless the number went astray.
THEOREM SocketsAreKept == Spec => []SocketIsKept
<1>1. IInv => SocketIsKept
    <2> SUFFICES ASSUME IInv, NEW c \in Conns, Open(c)
                 PROVE  Served(c) \/ fd[c] \in astray
        BY DEF SocketIsKept
    <2>1. ConnAlive(c) /\ fd[c] \in Fds
        BY DEF IInv, ConnInv, ConnAlive, Open
    <2> QED
        BY <2>1 DEF IInv, SocketInv, Claims, Served
<1> QED
    BY <1>1, Invariance, PTL
=============================================================================
