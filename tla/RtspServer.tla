------------------------------ MODULE RtspServer ------------------------------
(***************************************************************************)
(* Media sessions and the connections that play them: RtspServer           *)
(* (media_sessions_, rtsp_suffix_map_), MediaSession (clients_),           *)
(* RtspConnection's request handlers and RtpConnection, whose              *)
(* SendRtpPacket hands a packet from the thread that calls PushFrame to    *)
(* the loop thread of the connection.                                      *)
(*                                                                         *)
(* One loop thread runs every handler; an application thread pushes        *)
(* frames, and sessions are added and removed at any time.  The scheduler  *)
(* is a FIFO with room (TcpServer has the ring that fills); accept and     *)
(* close of a connection are TcpServer's, one step each.  A connection and *)
(* its RtpConnection share an id.  Unicast, one channel, no                *)
(* authentication.                                                         *)
(*                                                                         *)
(* Descriptors are numbers the kernel gives out again once they are        *)
(* closed, to an accepted connection or to a UDP socket.  Two destructors  *)
(* close them by number: ~TcpConnection, and ~RtpConnection, whose         *)
(* rtpfd_ and rtcpfd_ are the connection's own descriptor over TCP.        *)
(***************************************************************************)
EXTENDS Integers, Sequences, FiniteSets

CONSTANTS Suffixes, Fds, None,
          MaxConns,     \* bound: connections accepted
          MaxSessions,  \* bound: sessions added
          MaxFrames,    \* bound: frames pushed
          MaxSetups,    \* bound: SETUPs over UDP
          Elsewhere,    \* sets of descriptors the rest of the process may have
          MaxLoad       \* bound: the other descriptors, and twice the sessions

ASSUME RtspAssumption == /\ None \notin Fds /\ None \notin Suffixes
                         /\ Elsewhere \subseteq SUBSET Fds
                         /\ MaxConns \in Nat /\ MaxSessions \in Nat
                         /\ MaxFrames \in Nat /\ MaxSetups \in Nat
                         /\ MaxLoad \in Nat

Conns    == 1 .. MaxConns
Sessions == 1 .. MaxSessions
Nobody   == 0   \* no connection, and session_id_ before DESCRIBE
Other    == -1  \* the rest of the process, as the owner of a descriptor

VARIABLES
    created,      \* sessions made so far (last_session_id_)
    suffix,       \* suffix[s]: suffix_ of the session
    registered,   \* the keys of media_sessions_
    suffix_map,   \* rtsp_suffix_map_: suffix -> session or Nobody
    clients,      \* clients[s]: clients_, descriptor -> RtpConnection (weak)
    accepted,     \* connections accepted so far: ids 1 .. accepted
    fd,           \* fd[c]: descriptor
    connections,  \* TcpServer's connections_: descriptor -> connection
    owner,        \* the kernel's descriptors: whose socket is open, or Nobody
    rtpfd,        \* RtpConnection's rtpfd_ of the channel, or None
    rtcpfd,       \* RtpConnection's rtcpfd_ of the channel, or None
    closed,       \* TcpConnection's is_closed_
    session_id,   \* RtspConnection's session_id_
    rtp,          \* connections whose rtp_conn_ is made
    transport,    \* transport_mode_ of a channel that is_setup, or "none"
    playing,      \* connections whose channel is_play
    torn,         \* RtpConnection's is_closed_
    queue,        \* trigger events: RemoveConnection, or a packet
    app,          \* the thread in PushFrame
    target,       \* the session it pushes to
    holding,      \* shared_ptrs to RtpConnections in its list clients
    todo,         \* those it has yet to send to
    locked,       \* its shared_ptr to a TcpConnection in SendRtpPacket
    dying,        \* the RtpConnection whose destructor it is in
    frames,       \* frames pushed so far
    switched,     \* history: described a second session that is registered
    shadowed,     \* history: AddClient refused it for another's entry
    setups,       \* SETUPs over UDP so far
    astray        \* history: descriptors closed while an RtpConnection that is
                  \* alive has their number

sessionVars == <<created, suffix, registered, suffix_map>>
connVars    == <<accepted, fd, connections, owner, rtpfd, rtcpfd, astray,
                 setups>>
rtpVars     == <<rtp, transport, playing, torn>>
appVars     == <<app, target, holding, todo, locked, dying, frames>>
history     == <<switched, shadowed>>
vars == <<sessionVars, clients, connVars, closed, session_id, rtpVars,
          queue, appVars, history>>

Init == /\ created = 0
        /\ suffix = [s \in Sessions |-> None]
        /\ registered = {}
        /\ suffix_map = [x \in Suffixes |-> Nobody]
        /\ clients = [s \in Sessions |-> [f \in Fds |-> Nobody]]
        /\ accepted = 0
        /\ fd = [c \in Conns |-> None]
        /\ connections = [f \in Fds |-> Nobody]
        /\ \E used \in Elsewhere :
              owner = [f \in Fds |-> IF f \in used THEN Other ELSE Nobody]
        /\ rtpfd = [c \in Conns |-> None] /\ rtcpfd = [c \in Conns |-> None]
        /\ closed = {} /\ rtp = {} /\ playing = {} /\ torn = {}
        /\ session_id = [c \in Conns |-> Nobody]
        /\ transport = [c \in Conns |-> "none"]
        /\ queue = <<>>
        /\ app = "idle" /\ target = Nobody /\ holding = {} /\ todo = {}
        /\ locked = Nobody /\ dying = Nobody /\ frames = 0
        /\ switched = {} /\ shadowed = {} /\ astray = {} /\ setups = 0

RemoveOf(c) == [op |-> "remove", conn |-> c, open |-> FALSE]
\* A packet, and whether its connection was open when it was posted.
PacketOf(c, open) == [op |-> "packet", conn |-> c, open |-> open]
Packets == {PacketOf(c, open) : c \in Conns, open \in BOOLEAN}

\* A connection lives in connections_ and while SendRtpPacket has locked it;
\* its RtpConnection also while PushFrame's list holds it.
ConnAlive(c) == c \in 1 .. accepted /\ (connections[fd[c]] = c \/ locked = c)
RtpAlive(c)  == c \in rtp /\ (ConnAlive(c) \/ c \in holding)

\* TcpConnection's is_closed_ is not set.
Open(c) == c \in 1 .. accepted /\ c \notin closed

\* Whose requests the loop thread handles: epoll reports no request on a socket
\* that another's destructor has closed.
Served(c) == Open(c) /\ owner[fd[c]] = c

\* The descriptors the server may get, and those that are not in use.
OurFds  == {f \in Fds : owner[f] # Other}
FreeFds == {f \in Fds : owner[f] = Nobody}

\* What ~RtpConnection closes.
RtpSockets(c) == {rtpfd[c], rtcpfd[c]}

\* close() of descriptors, whosever they are by then.
CloseFds(fds) == [f \in Fds |-> IF f \in fds THEN Nobody ELSE owner[f]]

\* Mutant: ~RtpConnection does not close.
Destroy_KeepsRtpSockets(c) ==
    /\ owner' = CloseFds({fd[c]})
    /\ astray' = IF c \in holding THEN astray \cup ({fd[c]} \cap RtpSockets(c))
                                  ELSE astray

\* The last reference to a connection goes: ~RtpConnection if nobody holds that,
\* and ~TcpConnection.
Destroy(c) ==
    IF c \in holding
    THEN /\ owner' = CloseFds({fd[c]})
         /\ astray' = astray \cup ({fd[c]} \cap RtpSockets(c))
    ELSE /\ owner' = CloseFds({fd[c]} \cup RtpSockets(c))
         /\ UNCHANGED astray

-----------------------------------------------------------------------------
(* Any thread: RtspServer's table of sessions.                             *)

\* A suffix that is taken is refused (a no-op, not a step here).
AddSession(x) ==
    LET s == created + 1 IN
    /\ s \in Sessions /\ Cardinality(OurFds) + 2 * s <= MaxLoad
    /\ suffix_map[x] = Nobody
    /\ created' = s
    /\ suffix' = [suffix EXCEPT ![s] = x]
    /\ registered' = registered \cup {s}
    /\ suffix_map' = [suffix_map EXCEPT ![x] = s]
    /\ UNCHANGED <<clients, connVars, closed, session_id, rtpVars, queue,
                   appVars, history>>

\* Mutant: the suffix stays in rtsp_suffix_map_.
RemoveSession_KeepSuffix(s) ==
    /\ s \in registered
    /\ registered' = registered \ {s}
    /\ UNCHANGED <<created, suffix, suffix_map, clients, connVars, closed,
                   session_id, rtpVars, queue, appVars, history>>

RemoveSession(s) ==
    /\ s \in registered
    /\ registered' = registered \ {s}
    /\ suffix_map' = [suffix_map EXCEPT ![suffix[s]] = Nobody]
    /\ UNCHANGED <<created, suffix, clients, connVars, closed, session_id,
                   rtpVars, queue, appVars, history>>

-----------------------------------------------------------------------------
(* The loop thread.                                                        *)

\* A descriptor that connections_ still has (its socket was closed by another)
\* is refused by emplace, and the new connection is gone when OnConnect's caller
\* returns: a no-op, not a step here.
Accept(f) ==
    LET c == accepted + 1 IN
    /\ c \in Conns
    /\ owner[f] = Nobody /\ connections[f] = Nobody
    /\ accepted' = c
    /\ fd' = [fd EXCEPT ![c] = f]
    /\ connections' = [connections EXCEPT ![f] = c]
    /\ owner' = [owner EXCEPT ![f] = c]
    /\ UNCHANGED <<sessionVars, clients, rtpfd, rtcpfd, astray, setups, closed,
                   session_id, rtpVars, queue, appVars, history>>

\* RtspConnection::OnClose, which takes the connection out of the session it
\* described last.
OnClose(c) ==
    clients' = IF session_id[c] \in registered
               THEN [clients EXCEPT ![session_id[c]][fd[c]] = Nobody]
               ELSE clients

\* Mutant: the removal overtakes what is queued.
CloseConnection_Overtakes(c) ==
    /\ closed' = closed \cup {c}
    /\ OnClose(c)
    /\ queue' = <<RemoveOf(c)>> \o queue

\* Mutant: OnClose is not called.
CloseConnection_NoOnClose(c) ==
    /\ closed' = closed \cup {c}
    /\ queue' = Append(queue, RemoveOf(c))
    /\ UNCHANGED clients

\* TcpConnection::Close: close_cb_, and then the disconnect callback.
CloseConnection(c) ==
    /\ closed' = closed \cup {c}
    /\ OnClose(c)
    /\ queue' = Append(queue, RemoveOf(c))

\* The peer hangs up, a read fails, a request is refused, or Stop visits it.
Close(c) ==
    /\ Open(c)
    /\ CloseConnection(c)
    /\ UNCHANGED <<sessionVars, connVars, session_id, rtpVars, appVars,
                   history>>

\* Mutant: AddClient does not add.
AddClient_Nothing(s, c) ==
    /\ UNCHANGED <<clients, shadowed>>

\* MediaSession::AddClient keeps the entry that has the descriptor.
AddClient(s, c) ==
    LET entry == clients[s][fd[c]] IN
    /\ clients' = [clients EXCEPT ![s][fd[c]] = IF @ = Nobody THEN c ELSE @]
    /\ shadowed' = IF entry \in {Nobody, c} THEN shadowed \ {c}
                                            ELSE shadowed \cup {c}

\* DESCRIBE of a suffix: rtp_conn_ is made whether or not it is found.
Describe(c, x) ==
    LET s == suffix_map[x] IN
    /\ Served(c)
    /\ rtp' = rtp \cup {c}
    /\ \/ s = Nobody /\ UNCHANGED <<session_id, clients, history>>
       \/ /\ s # Nobody
          /\ session_id' = [session_id EXCEPT ![c] = s]
          /\ AddClient(s, c)
          /\ switched' = IF session_id[c] \in registered \ {s}
                         THEN switched \cup {c} ELSE switched
    /\ UNCHANGED <<sessionVars, connVars, closed, transport, playing, torn,
                   queue, appVars>>

\* SETUP.  Over TCP both descriptors are the connection's own.
SetupTcp(c) ==
    /\ transport' = [transport EXCEPT ![c] = "tcp"]
    /\ rtpfd' = [rtpfd EXCEPT ![c] = fd[c]]
    /\ rtcpfd' = [rtcpfd EXCEPT ![c] = fd[c]]
    /\ UNCHANGED <<owner, astray, setups>>

\* Two new sockets; those of an earlier SETUP stay open.
SetupUdp(c) == \E r, q \in FreeFds :
    /\ r # q
    /\ transport' = [transport EXCEPT ![c] = "udp"]
    /\ rtpfd' = [rtpfd EXCEPT ![c] = r]
    /\ rtcpfd' = [rtcpfd EXCEPT ![c] = q]
    /\ owner' = [owner EXCEPT ![r] = c, ![q] = c]
    /\ UNCHANGED astray

\* Ten times socket or bind fails: the numbers of the sockets that were closed
\* again stay in rtpfd_ and, if it came to that, in rtcpfd_.
SetupUdpFails(c) ==
  \E r \in FreeFds \cup {None}, q \in FreeFds \cup {None, rtcpfd[c]} :
    /\ rtpfd' = [rtpfd EXCEPT ![c] = r]
    /\ rtcpfd' = [rtcpfd EXCEPT ![c] = q]
    /\ astray' = astray \cup ({r, q} \cap FreeFds)
    /\ UNCHANGED <<owner, transport>>

\* rtp_conn_ is used unchecked; a SETUP that finds no session, or no peer
\* address over UDP, changes nothing.
Setup(c) ==
    /\ Served(c) /\ session_id[c] \in registered
    /\ \/ SetupTcp(c)
       \/ /\ setups < MaxSetups /\ setups' = setups + 1
          /\ SetupUdp(c) \/ SetupUdpFails(c)
    /\ UNCHANGED <<sessionVars, clients, accepted, fd, connections, closed,
                   session_id, rtp, playing, torn, queue, appVars, history>>

Play(c) ==
    /\ Served(c) /\ c \in rtp
    /\ playing' = IF transport[c] = "none" THEN playing ELSE playing \cup {c}
    /\ UNCHANGED <<sessionVars, clients, connVars, closed, session_id, rtp,
                   transport, torn, queue, appVars, history>>

\* RtpConnection::Teardown, which works once.
TearDown(c) == /\ torn' = torn \cup {c}
               /\ playing' = IF c \in torn THEN playing ELSE playing \ {c}

\* Mutant: rtp_conn_ is not tested.
Teardown_NoTest(c) ==
    /\ Served(c)
    /\ TearDown(c)
    /\ UNCHANGED <<sessionVars, clients, connVars, closed, session_id, rtp,
                   transport, queue, appVars, history>>

Teardown(c) ==
    /\ Served(c) /\ c \in rtp
    /\ TearDown(c)
    /\ UNCHANGED <<sessionVars, clients, connVars, closed, session_id, rtp,
                   transport, queue, appVars, history>>

\* The connection goes with its entry, unless SendRtpPacket has it locked.
RunRemove ==
    /\ queue # <<>> /\ Head(queue).op = "remove"
    /\ queue' = Tail(queue)
    /\ LET c == Head(queue).conn IN
       /\ connections' = [connections EXCEPT ![fd[c]] = Nobody]
       /\ IF locked = c THEN UNCHANGED <<owner, astray>> ELSE Destroy(c)
    /\ UNCHANGED <<sessionVars, clients, accepted, fd, rtpfd, rtcpfd, setups,
                   closed, session_id, rtpVars, appVars, history>>

\* SendRtpPacket's closure: sent if the channel plays; a send over TCP that
\* fails closes the connection, one over UDP tears the RtpConnection down.
RunPacket == \E c \in Conns :
    /\ queue # <<>> /\ Head(queue).op = "packet" /\ Head(queue).conn = c
    /\ \/ /\ queue' = Tail(queue)
          /\ UNCHANGED <<clients, closed, playing, torn>>
       \/ /\ c \in playing /\ transport[c] = "tcp" /\ Open(c)
          /\ closed' = closed \cup {c}
          /\ OnClose(c)
          /\ queue' = Append(Tail(queue), RemoveOf(c))
          /\ UNCHANGED <<playing, torn>>
       \/ /\ c \in playing /\ transport[c] = "udp"
          /\ queue' = Tail(queue)
          /\ TearDown(c)
          /\ UNCHANGED <<clients, closed>>
    /\ UNCHANGED <<sessionVars, connVars, session_id, rtp, transport, appVars,
                   history>>

LoopStep == RunRemove \/ RunPacket

-----------------------------------------------------------------------------
(* The application's thread in RtspServer::PushFrame.                      *)

PushFrame(s) ==
    /\ app = "idle" /\ frames < MaxFrames
    /\ s \in registered
    /\ app' = "found" /\ target' = s /\ frames' = frames + 1
    /\ UNCHANGED <<sessionVars, clients, connVars, closed, session_id, rtpVars,
                   queue, holding, todo, locked, dying, history>>

\* GetNumClient, unlocked: without clients PushFrame returns.
CountClients ==
    /\ app = "found"
    /\ IF \E f \in Fds : clients[target][f] # Nobody
       THEN app' = "counted" /\ UNCHANGED target
       ELSE app' = "idle" /\ target' = Nobody
    /\ UNCHANGED <<sessionVars, clients, connVars, closed, session_id, rtpVars,
                   queue, holding, todo, locked, dying, frames, history>>

\* The send callback, under map_mutex_: entries of RtpConnections that are
\* gone are erased, those with a connection are sent to.  (A connection that
\* goes between lock and GetId is one that is held and released again.)
Gather ==
    LET entries == {clients[target][f] : f \in Fds} \ {Nobody} IN
    /\ app = "counted"
    /\ app' = "sending"
    /\ holding' = {c \in entries : RtpAlive(c) /\ ConnAlive(c)}
    /\ todo' = holding'
    /\ clients' = [clients EXCEPT ![target] =
                     [f \in Fds |-> IF @[f] # Nobody /\ ~RtpAlive(@[f])
                                    THEN Nobody ELSE @[f]]]
    /\ UNCHANGED <<sessionVars, connVars, closed, session_id, rtpVars, queue,
                   target, locked, dying, frames, history>>

\* SendRtpPacket: nothing if the RtpConnection is torn down or the connection
\* gone, else the connection is locked ...
SendLock == \E c \in todo :
    /\ app = "sending" /\ locked = Nobody
    /\ todo' = todo \ {c}
    /\ locked' = IF c \in torn \/ ~ConnAlive(c) THEN Nobody ELSE c
    /\ UNCHANGED <<sessionVars, clients, connVars, closed, session_id, rtpVars,
                   queue, app, target, holding, dying, frames, history>>

\* ... and a closure posted that captures the RtpConnection by its address.
SendPost ==
    /\ locked # Nobody
    /\ queue' = Append(queue, PacketOf(locked, Open(locked)))
    /\ locked' = Nobody
    /\ IF connections[fd[locked]] = locked THEN UNCHANGED <<owner, astray>>
                                          ELSE Destroy(locked)
    /\ UNCHANGED <<sessionVars, clients, accepted, fd, connections, rtpfd,
                   rtcpfd, setups, closed, session_id, rtpVars, app, target,
                   holding, todo, dying, frames, history>>

\* Mutant: the list's is always the last reference.
Release_Last(c) ==
    /\ app = "sending" /\ todo = {} /\ locked = Nobody /\ dying = Nobody
    /\ c \in holding /\ holding' = holding \ {c}
    /\ owner' = CloseFds({rtpfd[c]}) /\ dying' = c
    /\ UNCHANGED <<sessionVars, clients, accepted, fd, connections, rtpfd,
                   rtcpfd, astray, setups, closed, session_id, rtpVars, queue,
                   app, target, todo, locked, frames, history>>

\* The list goes, one reference after the other.  The last reference runs
\* ~RtpConnection on this thread, which closes rtpfd_ ...
Release(c) ==
    /\ app = "sending" /\ todo = {} /\ locked = Nobody /\ dying = Nobody
    /\ c \in holding /\ holding' = holding \ {c}
    /\ IF ConnAlive(c) THEN UNCHANGED <<owner, dying>>
                       ELSE owner' = CloseFds({rtpfd[c]}) /\ dying' = c
    /\ UNCHANGED <<sessionVars, clients, accepted, fd, connections, rtpfd,
                   rtcpfd, astray, setups, closed, session_id, rtpVars, queue,
                   app, target, todo, locked, frames, history>>

\* ... and then rtcpfd_.
CloseRtcp ==
    /\ dying # Nobody
    /\ owner' = CloseFds({rtcpfd[dying]})
    /\ dying' = Nobody
    /\ UNCHANGED <<sessionVars, clients, accepted, fd, connections, rtpfd,
                   rtcpfd, astray, setups, closed, session_id, rtpVars, queue,
                   app, target, holding, todo, locked, frames, history>>

PushReturns ==
    /\ app = "sending" /\ holding = {} /\ dying = Nobody
    /\ app' = "idle" /\ target' = Nobody
    /\ UNCHANGED <<sessionVars, clients, connVars, closed, session_id, rtpVars,
                   queue, holding, todo, locked, dying, frames, history>>

PushStep == \/ CountClients \/ Gather \/ SendLock \/ SendPost
            \/ (\E c \in Conns : Release(c)) \/ CloseRtcp \/ PushReturns

Next == \/ \E x \in Suffixes : AddSession(x)
        \/ \E s \in Sessions : RemoveSession(s) \/ PushFrame(s)
        \/ \E f \in Fds : Accept(f)
        \/ \E c \in Conns : \/ Close(c) \/ Setup(c) \/ Play(c) \/ Teardown(c)
                            \/ \E x \in Suffixes : Describe(c, x)
        \/ LoopStep \/ PushStep

Spec == Init /\ [][Next]_vars

-----------------------------------------------------------------------------
TypeOK ==
    /\ created \in 0 .. MaxSessions
    /\ suffix \in [Sessions -> Suffixes \cup {None}]
    /\ registered \subseteq 1 .. created
    /\ suffix_map \in [Suffixes -> Sessions \cup {Nobody}]
    /\ clients \in [Sessions -> [Fds -> Conns \cup {Nobody}]]
    /\ accepted \in 0 .. MaxConns
    /\ fd \in [Conns -> Fds \cup {None}]
    /\ connections \in [Fds -> Conns \cup {Nobody}]
    /\ owner \in [Fds -> Conns \cup {Nobody, Other}] /\ astray \subseteq Fds
    /\ setups \in 0 .. MaxSetups
    /\ rtpfd \in [Conns -> Fds \cup {None}]
    /\ rtcpfd \in [Conns -> Fds \cup {None}]
    /\ closed \subseteq 1 .. accepted /\ rtp \subseteq 1 .. accepted
    /\ playing \subseteq rtp /\ torn \subseteq rtp
    /\ session_id \in [Conns -> Sessions \cup {Nobody}]
    /\ transport \in [Conns -> {"none", "tcp", "udp"}]
    /\ queue \in Seq({RemoveOf(c) : c \in Conns} \cup Packets)
    /\ app \in {"idle", "found", "counted", "sending"}
    /\ target \in Sessions \cup {Nobody}
    /\ holding \subseteq rtp /\ todo \subseteq holding
    /\ locked \in holding \cup {Nobody} /\ dying \in rtp \cup {Nobody}
    /\ frames \in 0 .. MaxFrames
    /\ switched \subseteq Conns /\ shadowed \subseteq Conns

\* Every suffix resolves to a session that is registered under it, and every
\* registered session is found by its suffix: LookMediaSession indexes
\* media_sessions_ with what rtsp_suffix_map_ says and would add a null entry.
SuffixesResolve ==
    /\ \A x \in Suffixes : suffix_map[x] # Nobody =>
          suffix_map[x] \in registered /\ suffix[suffix_map[x]] = x
    /\ \A s \in registered : suffix_map[suffix[s]] = s

\* What the FIFO protects: a packet that was posted while its connection was
\* open finds the RtpConnection whose address it has captured, whatever closes
\* the connection behind it.
FifoProtectsPackets ==
    \A i \in 1 .. Len(queue) :
        queue[i].op = "packet" /\ queue[i].open => RtpAlive(queue[i].conn)

\* MediaSession::clients_ is keyed by descriptor and descriptors are reused:
\* only a connection that has described a second session leaves an entry in a
\* registered session when it closes.
StaleOnlyFromSwitch ==
    \A s \in registered, f \in Fds : LET c == clients[s][f] IN
        c \in closed => c \in switched

\* A connection is among the clients of the session it has described, so that
\* it is sent frames, unless it was refused for such a left-over entry.
DescribedIsClient ==
    /\ \A c \in Conns : Open(c) /\ session_id[c] \in registered =>
          clients[session_id[c]][fd[c]] = c \/ c \in shadowed
    /\ shadowed # {} => switched # {}

\* PushFrame is thread safe: a packet never runs on the loop thread after the
\* RtpConnection it was made by is destroyed.
SenderIsAlive ==
    queue # <<>> /\ Head(queue).op = "packet" => RtpAlive(Head(queue).conn)

\* Nothing keeps a closed connection: once the loop's events have run and
\* PushFrame has returned, it is destroyed on whichever thread had it last, and
\* its socket and those of its RtpConnection are closed.  What stays open is a
\* UDP socket whose number a later SETUP has overwritten.
ClosedIsFreed ==
    queue = <<>> /\ app = "idle" => \A c \in closed :
        /\ ~ConnAlive(c)
        /\ \A f \in Fds : owner[f] = c => f # fd[c] /\ f \notin RtpSockets(c)

\* A connection's socket stays open until the connection is closed, although
\* destructors on two threads close by number what may have a new owner: it is
\* closed under it only if its number went astray before, by an RtpConnection
\* over TCP that PushFrame held longer than its connection lived, or by a SETUP
\* over UDP that failed.
SocketIsKept == \A c \in Conns : Open(c) => Served(c) \/ fd[c] \in astray
=============================================================================
