-------------------------- MODULE RtspPusher_proofs --------------------------
(***************************************************************************)
(* Proof that a pusher that reports success has had each of its requests   *)
(* accepted, for a session of one or two channels and any number of        *)
(* connections.                                                            *)
(***************************************************************************)
EXTENDS RtspPusher, TLAPS

Methods == {"NONE", "OPTIONS", "ANNOUNCE", "SETUP", "RECORD"}

TypeInv ==
    /\ opens \in 0 .. MaxOpens /\ conn \in 0 .. opens
    /\ method \in [Conns -> Methods]
    /\ setup \in [Conns -> Nat]
    /\ asked \in [Conns -> Nat] /\ answered \in [Conns -> Nat]
    /\ part \in [Conns -> {"none", "kept", "lost"}]
    /\ pushing \subseteq Conns

\* method_ of an open connection tells what was asked for so far.
AskedInTurn(c) ==
    /\ method[c] = "NONE"     => asked[c] = 0 /\ setup[c] = 0
    /\ method[c] = "OPTIONS"  => asked[c] = 1 /\ setup[c] = 0
    /\ method[c] = "ANNOUNCE" => asked[c] = 2 /\ setup[c] = 0
    /\ method[c] = "SETUP"    => asked[c] = 2 + setup[c] /\ setup[c] \in 1 .. Channels
    /\ method[c] = "RECORD"   => asked[c] = Channels + 3 /\ setup[c] = Channels
    /\ method[c] # "RECORD"   => c \notin pushing

\* One request is under way, from OPTIONS until the answer to RECORD.
OneUnderWay(c) ==
    /\ asked[c] = 0 => answered[c] = 0
    /\ (asked[c] > 0 /\ c \notin pushing) => answered[c] = asked[c] - 1
    /\ part[c] = "none"

Accepted(c) ==
    /\ asked[c] = Channels + 3
    /\ c \notin ragged => answered[c] = Channels + 3 /\ c \notin refused

ConnInv(c) ==
    /\ c \notin closed \cup doubled => AskedInTurn(c)
    /\ c \notin closed \cup doubled \cup ragged => OneUnderWay(c)
    /\ c \in refused \ (ragged \cup doubled) => c \in closed
    /\ c \in pushing \ doubled => Accepted(c)

IInv == TypeInv /\ \A c \in Conns : ConnInv(c)

-----------------------------------------------------------------------------
LEMMA InitHolds == Init => IInv
BY PusherAssumption
DEF Init, IInv, TypeInv, ConnInv, AskedInTurn, OneUnderWay, Conns, Nobody, Methods

\* The application touches no connection: it posts.
LEMMA ApplicationStep == IInv /\ Application => IInv'
<1> SUFFICES ASSUME IInv, Application PROVE IInv'
    OBVIOUS
<1>1. UNCHANGED <<connVars, history>>
    BY DEF Application, SetSession, OpenBegins, OpenFails, OpenConnects,
           OpenReturns, OpenTimesOut, CloseUrl, Destroy
<1>2. opens' \in 0 .. MaxOpens /\ conn' \in 0 .. opens'
    BY PusherAssumption
    DEF Application, SetSession, OpenBegins, OpenFails, OpenConnects,
        OpenReturns, OpenTimesOut, CloseUrl, Destroy, GiveUp, IInv, TypeInv,
        Nobody
<1>3. TypeInv'
    BY <1>1, <1>2 DEF IInv, TypeInv, connVars, history
<1>4. \A c \in Conns : ConnInv(c)'
    BY <1>1 DEF IInv, ConnInv, AskedInTurn, OneUnderWay, Accepted, connVars, history
<1> QED
    BY <1>3, <1>4 DEF IInv

\* A connection that only closes keeps what it has: nothing is said of the
\* requests of a closed one, and what was accepted stays so.
LEMMA ClosingStep ==
    ASSUME IInv, NEW d,
           closed' = closed \cup {d},
           UNCHANGED <<conn, opens, method, setup, asked, answered, part, pushing, history>>
    PROVE  IInv'
BY DEF IInv, TypeInv, ConnInv, AskedInTurn, OneUnderWay, Accepted, history

\* OPTIONS is the first request, or the connection is counted as doubled.
LEMMA OptionsStep == IInv /\ RunOptions => IInv'
<1> SUFFICES ASSUME IInv, RunOptions PROVE IInv'
    OBVIOUS
<1> USE DEF IInv, RunOptions, Ask, appVars, Nobody
<1>0. conn \in Conns
    BY PusherAssumption DEF TypeInv, Conns
<1>1. TypeInv'
    BY <1>0 DEF TypeInv, Methods
<1>2. ASSUME NEW c \in Conns, c # conn PROVE ConnInv(c)'
    BY <1>0, <1>2 DEF TypeInv, ConnInv, AskedInTurn, OneUnderWay, Accepted
<1>3. ConnInv(conn)'
    <2> DEFINE c == conn
    <2>0. method'[c] = "OPTIONS" /\ c \in Conns /\ conn' = c
        BY <1>0 DEF TypeInv
    <2>1. CASE c \in closed
        BY <1>0, <2>0, <2>1, PusherAssumption
        DEF TypeInv, ConnInv, Accepted
    <2>2. CASE c \notin closed /\ asked[c] > 0
        BY <1>0, <2>0, <2>2 DEF TypeInv, ConnInv
    <2>3. CASE c \notin closed /\ asked[c] = 0
        <3>1. asked'[c] = 1 /\ doubled' = doubled
            BY <1>0, <2>3 DEF TypeInv
        <3>2. c \notin doubled => method[c] = "NONE" /\ setup[c] = 0 /\ c \notin pushing
            BY <1>0, <2>3, PusherAssumption DEF TypeInv, ConnInv, AskedInTurn, Methods
        <3> QED
            BY <1>0, <2>0, <2>3, <3>1, <3>2 DEF TypeInv, ConnInv, AskedInTurn, OneUnderWay
    <2> QED
        BY <1>0, <2>1, <2>2, <2>3 DEF TypeInv
<1> QED
    BY <1>1, <1>2, <1>3

-----------------------------------------------------------------------------
(* What a connection's read does.                                          *)

LEMMA ReactTypes ==
    ASSUME TypeInv, NEW d \in Conns, React(d)
    PROVE  /\ method' \in [Conns -> Methods]
           /\ setup' \in [Conns -> Nat]
           /\ asked' \in [Conns -> Nat]
           /\ pushing' \subseteq Conns
           /\ \A c \in Conns \ {d} :
                 /\ method'[c] = method[c] /\ setup'[c] = setup[c]
                 /\ asked'[c] = asked[c]
                 /\ c \in pushing' <=> c \in pushing
                 /\ c \in closed' <=> c \in closed
BY DEF React, SendAnnounce, SendSetup, HandleRecord, HandleClose, Ask, TypeInv, Methods

\* The next request goes out in turn, unless OPTIONS was doubled.
LEMMA ReactKeepsTurn ==
    ASSUME TypeInv, NEW d \in Conns, React(d), d \notin closed, AskedInTurn(d)
    PROVE  /\ d \notin closed' => AskedInTurn(d)'
           /\ d \notin closed' => \/ asked'[d] = asked[d] + 1 /\ d \notin pushing'
                                  \/ method[d] = "RECORD" /\ asked'[d] = asked[d]
           /\ d \in pushing' => asked'[d] = Channels + 3
           /\ d \in closed' => d \notin pushing'
           /\ d \in pushing => d \in pushing'
<1>1. CASE SendAnnounce(d)
    BY <1>1 DEF SendAnnounce, Ask, TypeInv, AskedInTurn
<1>2. CASE SendSetup(d) /\ setup[d] < Channels
    <2>1. /\ method' = [method EXCEPT ![d] = "SETUP"]
          /\ asked' = [asked EXCEPT ![d] = @ + 1]
          /\ setup' = [setup EXCEPT ![d] = @ + 1]
          /\ UNCHANGED <<closed, pushing>> /\ method[d] \in {"ANNOUNCE", "SETUP"}
        BY <1>2 DEF SendSetup, Ask
    <2>2. asked[d] = 2 + setup[d] /\ d \notin pushing
        BY <2>1 DEF AskedInTurn
    <2> QED
        BY <1>2, <2>1, <2>2, PusherAssumption DEF TypeInv, AskedInTurn
<1>3. CASE SendSetup(d) /\ ~(setup[d] < Channels)
    <2>1. /\ method' = [method EXCEPT ![d] = "RECORD"]
          /\ asked' = [asked EXCEPT ![d] = @ + 1]
          /\ UNCHANGED <<setup, closed, pushing>> /\ method[d] \in {"ANNOUNCE", "SETUP"}
        BY <1>3 DEF SendSetup, Ask
    <2>2. asked[d] = 2 + Channels /\ setup[d] = Channels /\ d \notin pushing
        BY <1>3, <2>1, PusherAssumption DEF AskedInTurn, TypeInv
    <2> QED
        BY <2>1, <2>2, PusherAssumption DEF TypeInv, AskedInTurn
<1>4. CASE HandleRecord(d)
    BY <1>4 DEF HandleRecord, TypeInv, AskedInTurn
<1>5. CASE method[d] # "RECORD" /\ NoSession /\ HandleClose(d)
    BY <1>5 DEF HandleClose, TypeInv, AskedInTurn, Methods
<1> QED
    BY <1>1, <1>2, <1>3, <1>4, <1>5 DEF React

\* A connection whose requests were all answered has nothing to read.
LEMMA PushersDoNotRead ==
    ASSUME IInv, NEW d \in Conns, NEW n \in 0 .. 2, NEW more \in BOOLEAN,
           Brings(d, n, more), d \notin ragged' \cup doubled
    PROVE  /\ ~more /\ n = 1 /\ d \notin pushing /\ d \notin refused
           /\ part[d] = "none" /\ answered'[d] = asked[d]
<1>1. d \notin ragged /\ ~more /\ d \notin closed
    BY DEF Brings
<1>2. OneUnderWay(d) /\ (d \in pushing => answered[d] = asked[d]) /\ d \notin refused
    BY <1>1 DEF IInv, ConnInv, Accepted
<1>3. answered[d] \in Nat /\ asked[d] \in Nat /\ answered[d] + n <= asked[d] /\ n > 0
    BY <1>1 DEF Brings, IInv, TypeInv
<1>4. answered'[d] = answered[d] + n
    BY DEF Brings, IInv, TypeInv
<1> QED
    BY <1>1, <1>2, <1>3, <1>4 DEF OneUnderWay

\* The connections that do not read keep their invariant.
LEMMA OthersKeep ==
    ASSUME IInv, NEW c \in Conns, ConnInv(c),
           method'[c] = method[c], setup'[c] = setup[c], asked'[c] = asked[c],
           answered'[c] = answered[c], part'[c] = part[c],
           c \in pushing' <=> c \in pushing, c \in closed' <=> c \in closed,
           c \in ragged' <=> c \in ragged, c \in refused' <=> c \in refused,
           UNCHANGED doubled
    PROVE  ConnInv(c)'
BY DEF ConnInv, AskedInTurn, OneUnderWay, Accepted

\* What ParseResponse takes for an answer is followed by the next request.
LEMMA AnswerStep ==
    ASSUME IInv, NEW d \in Conns, NEW n \in 0 .. 2, NEW more \in BOOLEAN,
           Brings(d, n, more), React(d), part' \in [Conns -> {"none", "kept", "lost"}],
           \A c \in Conns \ {d} : part'[c] = part[c] /\ (c \in refused' <=> c \in refused),
           d \notin ragged' \cup doubled => part'[d] = "none" /\ d \notin refused',
           UNCHANGED <<conn, opens, doubled>>
    PROVE  IInv'
<1>1. TypeInv /\ d \notin closed
    BY DEF IInv, Brings
<1>2. /\ answered' \in [Conns -> Nat]
      /\ \A c \in Conns \ {d} : answered'[c] = answered[c] /\ (c \in ragged' <=> c \in ragged)
    BY <1>1 DEF Brings, TypeInv
<1>3. TypeInv'
    BY <1>1, <1>2, ReactTypes DEF TypeInv
<1>4. ASSUME NEW c \in Conns, c # d PROVE ConnInv(c)'
    <2>1. ConnInv(c)
        BY DEF IInv
    <2> QED
        BY <1>1, <1>2, <1>4, <2>1, ReactTypes, OthersKeep
<1>5. ConnInv(d)'
    <2>1. CASE d \in doubled
        BY <2>1 DEF ConnInv
    <2>2. CASE d \notin doubled
        <3>1. AskedInTurn(d)
            BY <1>1, <2>2 DEF IInv, ConnInv
        <3>2. /\ d \notin closed' => AskedInTurn(d)'
              /\ d \notin closed' => \/ asked'[d] = asked[d] + 1 /\ d \notin pushing'
                                     \/ method[d] = "RECORD" /\ asked'[d] = asked[d]
              /\ d \in pushing' => asked'[d] = Channels + 3
              /\ d \in closed' => d \notin pushing'
            BY <1>1, <3>1, ReactKeepsTurn
        <3>3. ASSUME d \notin ragged'
              PROVE  /\ answered'[d] = asked[d] /\ asked[d] > 0
                     /\ part'[d] = "none" /\ d \notin refused'
            <4>1. n = 1 /\ ~more /\ answered'[d] = asked[d]
                BY <2>2, <3>3, PushersDoNotRead
            <4>2. asked[d] > 0
                BY <1>1, <4>1 DEF Brings, TypeInv
            <4> QED
                BY <2>2, <3>3, <4>1, <4>2
        <3>4. ASSUME d \notin ragged', d \notin closed' PROVE OneUnderWay(d)'
            <4>1. asked[d] \in Nat /\ (d \in pushing' <=> d \notin Conns \ pushing')
                BY <1>1 DEF TypeInv
            <4>2. CASE asked'[d] = asked[d] + 1 /\ d \notin pushing'
                BY <3>3, <3>4, <4>1, <4>2 DEF OneUnderWay
            <4>3. CASE method[d] = "RECORD" /\ asked'[d] = asked[d]
                <5>1. d \in pushing'
                    BY <1>1, <3>4, <4>3
                    DEF React, SendAnnounce, SendSetup, HandleRecord, HandleClose
                <5> QED
                    BY <3>3, <3>4, <4>1, <4>3, <5>1 DEF OneUnderWay
            <4> QED
                BY <3>2, <3>4, <4>2, <4>3
        <3>5. ASSUME d \in pushing' PROVE Accepted(d)'
            <4>1. asked'[d] = Channels + 3 /\ d \notin closed'
                BY <3>2, <3>5
            <4>2. ASSUME d \notin ragged' PROVE answered'[d] = Channels + 3
                BY <3>2, <3>3, <3>5, <4>1, <4>2
            <4> QED
                BY <3>3, <4>1, <4>2 DEF Accepted
        <3> QED
            BY <2>2, <3>2, <3>3, <3>4, <3>5 DEF ConnInv
    <2> QED
        BY <2>1, <2>2
<1> QED
    BY <1>3, <1>4, <1>5 DEF IInv

\* An answer that refuses, to a connection that asks in turn, is not taken for
\* one that accepts.
LEMMA WholeStep ==
    ASSUME IInv, NEW d \in Conns, NEW n \in 0 .. 2, NEW more \in BOOLEAN,
           NEW accepts \in BOOLEAN, NEW refuses \in BOOLEAN,
           ReadWhole(d, n, more, accepts, refuses)
    PROVE  IInv'
<1>1. /\ Brings(d, n, more) /\ React(d) /\ UNCHANGED <<conn, opens, doubled>>
      /\ part' = [part EXCEPT ![d] = IF more THEN "lost" ELSE "none"]
      /\ Verdicts(n, accepts, refuses) /\ Refusal(d, n, refuses)
      /\ TRUE \in OkFound(d, n, more, accepts)
    BY DEF ReadWhole, appVars
<1>2. part \in [Conns -> {"none", "kept", "lost"}]
    BY DEF IInv, TypeInv
<1>3. ASSUME d \notin ragged' \cup doubled PROVE part'[d] = "none" /\ d \notin refused'
    <2>1. ~more /\ n = 1 /\ d \notin refused /\ part[d] = "none"
        BY <1>1, <1>3, PushersDoNotRead
    <2>2. accepts
        <3>1. OkFound(d, n, more, accepts) = IF accepts THEN {TRUE} ELSE {FALSE}
            BY <2>1 DEF OkFound
        <3> QED
            BY <1>1, <3>1
    <2>3. ~refuses
        <3>1. n < 2
            BY <2>1
        <3>2. accepts # refuses
            BY <1>1, <3>1, Zenon DEF Verdicts
        <3> QED
            BY <2>2, <3>2
    <2> QED
        BY <1>1, <1>2, <2>1, <2>3 DEF Refusal
<1>4. \A c \in Conns \ {d} : part'[c] = part[c] /\ (c \in refused' <=> c \in refused)
    BY <1>1, <1>2 DEF Refusal
<1>5. part' \in [Conns -> {"none", "kept", "lost"}]
    BY <1>1, <1>2
<1> QED
    BY <1>1, <1>3, <1>4, <1>5, AnswerStep

\* Part of an answer that leaves the buffer as it is, is taken for one as well.
LEMMA PartStep ==
    ASSUME IInv, NEW d \in Conns, ReadPart(d)
    PROVE  IInv'
<1>1. /\ Brings(d, 0, TRUE) /\ React(d) /\ UNCHANGED <<conn, opens, doubled, refused>>
      /\ part' = [part EXCEPT ![d] = IF @ = "lost" THEN "lost" ELSE "kept"]
    BY DEF ReadPart, appVars
<1>2. part \in [Conns -> {"none", "kept", "lost"}] /\ d \in ragged'
    BY <1>1 DEF IInv, TypeInv, Brings
<1>3. /\ part' \in [Conns -> {"none", "kept", "lost"}]
      /\ \A c \in Conns \ {d} : part'[c] = part[c]
    BY <1>1, <1>2
<1> QED
    BY <1>1, <1>2, <1>3, AnswerStep, 0 \in 0 .. 2

\* A connection whose answer is taken for a refusal closes, and does not push.
LEMMA RefusedStep ==
    ASSUME IInv, NEW d \in Conns, NEW n \in 0 .. 2, NEW more \in BOOLEAN,
           NEW accepts \in BOOLEAN, NEW refuses \in BOOLEAN,
           ReadRefused(d, n, more, accepts, refuses)
    PROVE  IInv'
<1>1. /\ Brings(d, n, more) /\ HandleClose(d) /\ Refusal(d, n, refuses)
      /\ UNCHANGED <<conn, opens, doubled, part>>
    BY DEF ReadRefused, appVars
<1>2. /\ closed' = closed \cup {d} /\ UNCHANGED <<method, setup, asked, pushing>>
      /\ TypeInv /\ ConnInv(d)
    BY <1>1 DEF HandleClose, IInv
<1>3. /\ answered' \in [Conns -> Nat]
      /\ \A c \in Conns \ {d} : /\ answered'[c] = answered[c]
                                /\ c \in ragged' <=> c \in ragged
                                /\ c \in refused' <=> c \in refused
    BY <1>1, <1>2 DEF Brings, TypeInv, Refusal
<1>4. TypeInv'
    BY <1>1, <1>2, <1>3 DEF TypeInv
<1>5. ASSUME NEW c \in Conns, c # d PROVE ConnInv(c)'
    <2>1. ConnInv(c)
        BY DEF IInv
    <2> QED
        BY <1>1, <1>2, <1>3, <1>5, <2>1, OthersKeep
<1>6. ConnInv(d)'
    <2>1. ASSUME d \in pushing' \ doubled' PROVE Accepted(d)'
        <3>1. asked'[d] = Channels + 3
            BY <1>1, <1>2, <2>1 DEF ConnInv, Accepted
        <3>2. d \in ragged'
            BY <1>1, <1>2, <2>1, PushersDoNotRead
        <3> QED
            BY <3>1, <3>2 DEF Accepted
    <2> QED
        BY <1>1, <1>2, <2>1 DEF ConnInv
<1> QED
    BY <1>4, <1>5, <1>6 DEF IInv

-----------------------------------------------------------------------------
LEMMA Invariance == Spec => []IInv
<1>1. IInv /\ [Next]_vars => IInv'
    <2> SUFFICES ASSUME IInv, [Next]_vars PROVE IInv'
        OBVIOUS
    <2>1. CASE Application
        BY <2>1, ApplicationStep
    <2>2. CASE RunOptions
        BY <2>2, OptionsStep
    <2>3. CASE RunOptionsLate \/ RunDisconnect
        BY <2>3 DEF RunOptionsLate, RunDisconnect, appVars, connVars, history, IInv,
                    TypeInv, ConnInv, AskedInTurn, OneUnderWay, Accepted
    <2>4. CASE RunClose
        BY <2>4, ClosingStep DEF RunClose, appVars
    <2>5. ASSUME NEW c \in Conns, PeerCloses(c) PROVE IInv'
        BY <2>5, ClosingStep DEF PeerCloses, appVars
    <2>6. ASSUME NEW c \in Conns, Read(c) PROVE IInv'
        BY <2>6, PartStep, WholeStep, RefusedStep DEF Read
    <2>7. CASE UNCHANGED vars
        BY <2>7 DEF vars, appVars, connVars, history, IInv,
                    TypeInv, ConnInv, AskedInTurn, OneUnderWay, Accepted
    <2> QED
        BY <2>1, <2>2, <2>3, <2>4, <2>5, <2>6, <2>7 DEF Next, Closures
<1> QED
    BY InitHolds, <1>1, PTL DEF Spec

\* A connection on which OpenUrl reports success has sent each request once and
\* in turn, and the server has accepted each of them, with the two exceptions
\* that PushingIsAccepted names.
THEOREM PushersAreAccepted == Spec => []PushingIsAccepted
<1>1. IInv => PushingIsAccepted
    BY DEF IInv, TypeInv, ConnInv, Accepted, PushingIsAccepted
<1> QED
    BY <1>1, Invariance, PTL
=============================================================================
