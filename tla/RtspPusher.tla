----------------------------- MODULE RtspPusher -----------------------------
(***************************************************************************)
(* RtspPusher: OpenUrl with its timeout, Close and the destructor, on the  *)
(* application's thread, against the closures it posts to the loop, and    *)
(* the client that the loop runs on each connection: OPTIONS, ANNOUNCE, a  *)
(* SETUP for each channel, RECORD, one for each read event.                *)
(*                                                                         *)
(* The schedulers are FIFOs with room.  A request is a count: the server   *)
(* answers in order, speaks only when asked, and may refuse, hang up or    *)
(* stop answering.  TCP may cut a response anywhere and join two.  That    *)
(* RetrieveUntil is given a pointer into the program's constants, which    *)
(* are not in the buffer, clears the buffer.                               *)
(***************************************************************************)
EXTENDS Integers, Sequences

CONSTANTS Channels,  \* the sources of the session: 1 or 2
          MaxOpens   \* bound: connections that OpenUrl makes

ASSUME PusherAssumption == Channels \in 1 .. 2 /\ MaxOpens \in Nat

Conns  == 1 .. MaxOpens
Nobody == 0

VARIABLES
    worker,     \* the scheduler of the connections: 0 in a pool of one, else 1
    app,        \* the application: "idle", in OpenUrl "connecting" or
                \* "waiting", or "gone" when the pusher is destroyed
    conn,       \* rtsp_conn_
    session,    \* media_session_ is set
    opens,      \* connections made so far: ids 1 .. opens
    queue,      \* queue[w]: the trigger events of scheduler w
    crashed,    \* a closure has used a null rtsp_conn_ or a destroyed pusher
    closed,     \* is_closed_ of each connection
    method,     \* method_ of its rtsp_response_
    setup,      \* how many channels are set up
    asked,      \* how many requests it has sent
    answered,   \* how many responses have come whole
    part,       \* of the next response nothing has come ("none"), its beginning
                \* is in the buffer ("kept") or was cleared with it ("lost")
    pushing,    \* conn_state_ is START_PUSH
    refused,    \* history: the server has refused a request that was sent in turn
    ragged,     \* history: a read has ended inside a response
    doubled     \* history: OPTIONS was sent again

appVars  == <<app, conn, session, opens>>
connVars == <<closed, method, setup, asked, answered, part, pushing>>
history  == <<refused, ragged, doubled>>
vars == <<worker, appVars, queue, crashed, connVars, history>>

Init == /\ worker \in {0, 1}
        /\ app = "idle" /\ conn = Nobody /\ session \in BOOLEAN /\ opens = 0
        /\ queue = [w \in {0, 1} |-> <<>>]
        /\ crashed = FALSE
        /\ method = [c \in Conns |-> "NONE"]
        /\ setup = [c \in Conns |-> 0]
        /\ asked = [c \in Conns |-> 0] /\ answered = [c \in Conns |-> 0]
        /\ part = [c \in Conns |-> "none"]
        /\ closed = {} /\ pushing = {}
        /\ refused = {} /\ ragged = {} /\ doubled = {}

Post(w, op, c) == queue' = [queue EXCEPT ![w] = Append(@, [op |-> op, conn |-> c])]

-----------------------------------------------------------------------------
(* The application.  OpenUrl holds mutex_ for as long as it takes.         *)

\* AddSession and RemoveSession.
SetSession ==
    /\ app = "idle"
    /\ session' = ~session
    /\ UNCHANGED <<worker, app, conn, opens, queue, crashed, connVars, history>>

\* What every end of a connection does: it is told to disconnect and forgotten.
GiveUp ==
    /\ IF conn # Nobody THEN Post(worker, "disconnect", conn) ELSE UNCHANGED queue
    /\ conn' = Nobody

OpenBegins ==
    /\ app = "idle"
    /\ app' = "connecting"
    /\ GiveUp
    /\ UNCHANGED <<worker, session, opens, crashed, connVars, history>>

OpenFails ==
    /\ app = "connecting"
    /\ app' = "idle"
    /\ UNCHANGED <<worker, conn, session, opens, queue, crashed, connVars, history>>

\* The closure goes to the first scheduler, whichever the connection has.
OpenConnects ==
    /\ app = "connecting" /\ opens < MaxOpens
    /\ opens' = opens + 1
    /\ conn' = opens'
    /\ Post(0, "options", opens')
    /\ app' = "waiting"
    /\ UNCHANGED <<worker, session, crashed, connVars, history>>

OpenReturns ==
    /\ app = "waiting" /\ conn \in pushing
    /\ app' = "idle"
    /\ UNCHANGED <<worker, conn, session, opens, queue, crashed, connVars, history>>

\* Mutant: OpenUrl forgets the connection and does not disconnect it.
OpenTimesOut_Silent ==
    /\ app = "waiting" /\ conn \notin pushing
    /\ app' = "idle" /\ conn' = Nobody
    /\ UNCHANGED <<worker, session, opens, queue, crashed, connVars, history>>

OpenTimesOut ==
    /\ app = "waiting" /\ conn \notin pushing
    /\ app' = "idle"
    /\ GiveUp
    /\ UNCHANGED <<worker, session, opens, crashed, connVars, history>>

CloseUrl ==
    /\ app = "idle" /\ conn # Nobody
    /\ GiveUp
    /\ UNCHANGED <<worker, app, session, opens, crashed, connVars, history>>

Destroy ==
    /\ app = "idle"
    /\ app' = "gone"
    /\ GiveUp
    /\ UNCHANGED <<worker, session, opens, crashed, connVars, history>>

-----------------------------------------------------------------------------
(* The closures, on the loop threads.                                      *)

IsNext(w, op) == queue[w] # <<>> /\ Head(queue[w]).op = op
Taken(w)      == [queue EXCEPT ![w] = Tail(@)]

\* A request is built, which sets method_, and sent if the connection is open.
Ask(c, m) ==
    /\ method' = [method EXCEPT ![c] = m]
    /\ asked' = IF c \in closed THEN asked ELSE [asked EXCEPT ![c] = @ + 1]

\* The closure takes rtsp_conn_ as it is when it runs.
RunOptions ==
    /\ IsNext(0, "options") /\ app # "gone" /\ conn # Nobody
    /\ Ask(conn, "OPTIONS")
    /\ doubled' = IF asked[conn] > 0 THEN doubled \cup {conn} ELSE doubled
    /\ queue' = Taken(0)
    /\ UNCHANGED <<worker, appVars, crashed, closed, setup, answered, part,
                   pushing, refused, ragged>>

RunOptionsLate ==
    /\ IsNext(0, "options") /\ (app = "gone" \/ conn = Nobody)
    /\ crashed' = TRUE
    /\ UNCHANGED <<worker, appVars, queue, connVars, history>>

\* Disconnect posts the Close behind what is queued.
RunDisconnect ==
    /\ IsNext(worker, "disconnect")
    /\ queue' = [Taken(worker) EXCEPT ![worker] =
                    Append(@, [op |-> "close", conn |-> Head(queue[worker]).conn])]
    /\ UNCHANGED <<worker, appVars, crashed, connVars, history>>

RunClose ==
    /\ IsNext(worker, "close")
    /\ closed' = closed \cup {Head(queue[worker]).conn}
    /\ queue' = Taken(worker)
    /\ UNCHANGED <<worker, appVars, crashed, method, setup, asked, answered, part,
                   pushing, history>>

-----------------------------------------------------------------------------
(* A connection's read events.                                             *)

PeerCloses(c) ==
    /\ c <= opens /\ c \notin closed
    /\ closed' = closed \cup {c}
    /\ UNCHANGED <<worker, appVars, queue, crashed, method, setup, asked, answered,
                   part, pushing, history>>

HandleClose(c) == /\ closed' = closed \cup {c}
                  /\ UNCHANGED <<method, setup, asked, pushing>>

\* The pusher or its session is gone.
NoSession == app = "gone" \/ ~session

SendAnnounce(c) ==
    /\ method[c] = "OPTIONS" /\ ~NoSession
    /\ Ask(c, "ANNOUNCE")
    /\ UNCHANGED <<closed, setup, pushing>>

\* Mutant: RECORD is sent one channel early.
SendSetup_OneLess(c) ==
    /\ method[c] \in {"ANNOUNCE", "SETUP"} /\ ~NoSession
    /\ IF setup[c] + 1 < Channels
       THEN Ask(c, "SETUP") /\ setup' = [setup EXCEPT ![c] = @ + 1]
       ELSE Ask(c, "RECORD") /\ UNCHANGED setup
    /\ UNCHANGED <<closed, pushing>>

SendSetup(c) ==
    /\ method[c] \in {"ANNOUNCE", "SETUP"} /\ ~NoSession
    /\ IF setup[c] < Channels
       THEN Ask(c, "SETUP") /\ setup' = [setup EXCEPT ![c] = @ + 1]
       ELSE Ask(c, "RECORD") /\ UNCHANGED setup
    /\ UNCHANGED <<closed, pushing>>

HandleRecord(c) ==
    /\ method[c] = "RECORD"
    /\ pushing' = pushing \cup {c}
    /\ UNCHANGED <<closed, method, setup, asked>>

\* What follows ParseResponse when it answers true, a whole response or not.
React(c) ==
    \/ SendAnnounce(c) \/ SendSetup(c) \/ HandleRecord(c)
    \/ method[c] # "RECORD" /\ NoSession /\ HandleClose(c)

\* n responses end in this read, and of the next one a part may have come.
Brings(c, n, more) ==
    /\ c \notin closed
    /\ answered[c] + n <= asked[c]
    /\ more => answered[c] + n < asked[c]
    /\ n > 0 \/ more
    /\ answered' = [answered EXCEPT ![c] = @ + n]
    /\ ragged' = IF more THEN ragged \cup {c} ELSE ragged

\* No blank line is found: the part stays in the buffer.
ReadPart(c) ==
    /\ Brings(c, 0, TRUE)
    /\ part' = [part EXCEPT ![c] = IF @ = "lost" THEN "lost" ELSE "kept"]
    /\ React(c)
    /\ UNCHANGED <<worker, appVars, queue, crashed, refused, doubled>>

\* The blank line may be that of an earlier response, behind the end of what
\* is in the buffer.
Found(c, n) == n > 0 \/ answered[c] > 0

\* "OK" is in a response that accepts; of the status line of one that is in the
\* buffer in part, and of an earlier one, nothing is known.
OkFound(c, n, more, accepts) ==
    IF n > 0 /\ part[c] # "lost"
    THEN IF accepts THEN {TRUE} ELSE IF more THEN BOOLEAN ELSE {FALSE}
    ELSE BOOLEAN

\* Of n responses some accept and some refuse.
Verdicts(n, accepts, refuses) == /\ accepts \/ refuses
                                 /\ n < 2 => accepts # refuses
                                 /\ n = 0 => accepts

Refusal(c, n, refuses) ==
    refused' = IF refuses /\ c \notin ragged' \cup doubled
               THEN refused \cup {c} ELSE refused

\* Everything in the buffer is taken for one response, and cleared.
ReadWhole(c, n, more, accepts, refuses) ==
    /\ Brings(c, n, more) /\ Found(c, n)
    /\ Verdicts(n, accepts, refuses)
    /\ TRUE \in OkFound(c, n, more, accepts)
    /\ part' = [part EXCEPT ![c] = IF more THEN "lost" ELSE "none"]
    /\ Refusal(c, n, refuses)
    /\ React(c)
    /\ UNCHANGED <<worker, appVars, queue, crashed, doubled>>

\* Without "OK" the connection is closed.
ReadRefused(c, n, more, accepts, refuses) ==
    /\ Brings(c, n, more) /\ Found(c, n)
    /\ Verdicts(n, accepts, refuses)
    /\ FALSE \in OkFound(c, n, more, accepts)
    /\ HandleClose(c)
    /\ Refusal(c, n, refuses)
    /\ UNCHANGED <<worker, appVars, queue, crashed, part, doubled>>

Read(c) ==
    \/ ReadPart(c)
    \/ \E n \in 0 .. 2, more, accepts, refuses \in BOOLEAN :
           \/ ReadWhole(c, n, more, accepts, refuses)
           \/ ReadRefused(c, n, more, accepts, refuses)

-----------------------------------------------------------------------------
Application == \/ SetSession \/ OpenBegins \/ OpenFails \/ OpenConnects
               \/ OpenReturns \/ OpenTimesOut \/ CloseUrl \/ Destroy

Closures == RunOptions \/ RunOptionsLate \/ RunDisconnect \/ RunClose

Next == /\ ~crashed
        /\ \/ Application
           \/ Closures
           \/ \E c \in Conns : PeerCloses(c) \/ Read(c)

\* The loop threads run what is queued.
Spec == /\ Init /\ [][Next]_vars
        /\ WF_vars(~crashed /\ (RunOptions \/ RunOptionsLate))
        /\ WF_vars(~crashed /\ RunDisconnect)
        /\ WF_vars(~crashed /\ RunClose)

-----------------------------------------------------------------------------
\* A connection on which OpenUrl reports success has sent each request once,
\* and the server has accepted each of them: RECORD is not taken for accepted
\* on the strength of another answer.  That all of it was answered needs every
\* read to bring a whole response (ParseResponse answers true for a part of
\* one, and the next request goes out), and both need one OPTIONS, which a
\* closure left over from an OpenUrl that gave up may repeat.
PushingIsAccepted ==
    \A c \in pushing \ doubled :
        /\ asked[c] = Channels + 3
        /\ c \notin ragged => answered[c] = Channels + 3 /\ c \notin refused

\* A connection that OpenUrl, Close or the destructor gives up is closed in
\* the end, on whichever scheduler it lives and however far it has come.
GivenUpIsClosed ==
    \A c \in Conns : (c <= opens /\ c # conn) ~> (c \in closed \/ crashed)
=============================================================================
