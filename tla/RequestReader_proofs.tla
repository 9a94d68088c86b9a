------------------------ MODULE RequestReader_proofs ------------------------
(***************************************************************************)
(* For all streams of well formed messages and however they are cut: every *)
(* request is answered under its own CSeq, once, and in order; and every   *)
(* request of a client that sends one message at a time is handled.        *)
(***************************************************************************)
EXTENDS RequestReader, FiniteSetTheorems, WellFoundedInduction, TLAPS

-----------------------------------------------------------------------------
(* The inductive invariant.                                                *)

\* What was handed to a handler has its own CSeq and its line was retrieved.
HandledInv ==
    /\ \A k \in DOMAIN handled : /\ handled[k].cseq = handled[k].of
                                 /\ \E p \in 1 .. from : stream[p].msg = handled[k].of
    /\ \A j, k \in DOMAIN handled : j < k => handled[j].of < handled[k].of

\* The first half of a request line is at p.
LineAt(p) == /\ p \in DOMAIN stream
             /\ stream[p].is \in Methods
             /\ ~stream[p].last

\* The request whose line is at p is being read: with no CSeq yet, nothing
\* behind the line has been retrieved.
Begun(p) == /\ LineAt(p)
            /\ p + 1 <= from
            /\ of = stream[p].msg
            /\ cseq \in {0, of}
            /\ cseq = 0 => from = p + 1
            /\ \A k \in DOMAIN handled : handled[k].of < of

ParserInv == /\ state = "line" => cseq = 0
             /\ state = "headers" /\ ~closed => \E p \in DOMAIN stream : Begun(p)

ParserType ==
    /\ from \in 0 .. upto
    /\ state \in {"line", "headers"}
    /\ method \in Methods \cup {"RTCP", "NONE"}
    /\ of \in Messages \cup {0}
    /\ cseq \in Messages \cup {0}
    /\ auth \in Messages \cup {0}
    /\ handled \in Seq([of : Messages, cseq : Messages, auth : Messages \cup {0}])
    /\ closed \in BOOLEAN

ReadInv == ParserType /\ HandledInv /\ ParserInv

IInv == /\ stream \in Streams
        /\ TypeOK
        /\ HandledInv
        /\ ParserInv

-----------------------------------------------------------------------------
(* Least and greatest elements.                                            *)

LEMMA MinOf ==
    ASSUME NEW S \in SUBSET Nat, S # {}
    PROVE  Min(S) \in S /\ \A y \in S : Min(S) <= y
<1> DEFINE T == {0 .. x : x \in S}
<1>1. T \subseteq FiniteSubsetsOf(Nat) /\ T # {}
    <2>1. \A x \in S : IsFiniteSet(0 .. x)
        BY FS_Interval
    <2>2. \A x \in S : 0 .. x \in SUBSET Nat
        OBVIOUS
    <2> QED BY <2>1, <2>2 DEF FiniteSubsetsOf
<1>2. PICK t \in T : \A u \in T : ~(<<u, t>> \in StrictSubsetOrdering(Nat))
    BY <1>1, FS_StrictSubsetOrderingWellFounded, WFMin
<1>3. PICK x \in S : t = 0 .. x
    OBVIOUS
<1>4. ASSUME NEW y \in S, y < x  PROVE FALSE
    <2>1. /\ 0 .. y \in SUBSET Nat /\ 0 .. x \in SUBSET Nat
          /\ 0 .. y \subseteq 0 .. x /\ 0 .. y # 0 .. x
        BY <1>4
    <2>2. <<0 .. y, 0 .. x>> \in StrictSubsetOrdering(Nat)
        BY <2>1 DEF StrictSubsetOrdering
    <2> QED BY <2>2, <1>2, <1>3
<1>5. \A y \in S : x <= y
    BY <1>4
<1> QED BY <1>5 DEF Min

LEMMA MaxOf ==
    ASSUME NEW n \in Nat, NEW S \in SUBSET (0 .. n), S # {}
    PROVE  Max(S) \in S /\ \A y \in S : y <= Max(S)
<1> DEFINE T == {n - y : y \in S}
<1>1. T \in SUBSET Nat /\ T # {}
    <2>1. \A y \in S : n - y \in Nat
        OBVIOUS
    <2> QED BY <2>1
<1>2. Min(T) \in T /\ \A z \in T : Min(T) <= z
    BY <1>1, MinOf
<1>3. PICK x \in S : Min(T) = n - x
    BY <1>2
<1>4. \A y \in S : x >= y
    <2> SUFFICES ASSUME NEW y \in S PROVE x >= y
        OBVIOUS
    <2>1. n - x <= n - y
        BY <1>2, <1>3
    <2> QED BY <2>1
<1>5. Max(S) \in S /\ \A y \in S : Max(S) >= y
    BY <1>4, Zenon DEF Max
<1> QED BY <1>5

-----------------------------------------------------------------------------
(* Streams and what the parser finds in them.                              *)

LEMMA StreamType ==
    ASSUME stream \in Streams
    PROVE  /\ Len(stream) \in Nat
           /\ DOMAIN stream = 1 .. Len(stream)
           /\ \A p \in 1 .. Len(stream) : /\ stream[p].msg \in Messages
                                          /\ stream[p].msg \in Nat \ {0}
                                          /\ stream[p].last \in BOOLEAN
           /\ WellFormed(stream)
<1>1. stream \in Seq(Pieces) /\ WellFormed(stream)
    BY ReaderAssumption DEF ReaderAssumption
<1>2. \A p \in 1 .. Len(stream) : stream[p] \in Pieces
    BY <1>1
<1>3. \A x \in Pieces : x.msg \in Messages /\ x.last \in BOOLEAN
    BY DEF Pieces
<1>4. Len(stream) \in Nat /\ DOMAIN stream = 1 .. Len(stream)
    BY <1>1
<1>5. \A p \in 1 .. Len(stream) : /\ stream[p].msg \in Messages
                                   /\ stream[p].last \in BOOLEAN
    BY <1>2, <1>3
<1>6. Messages \subseteq Nat \ {0}
    BY ReaderAssumption DEF ReaderAssumption
<1> QED BY <1>1, <1>4, <1>5, <1>6

LEMMA HeadersEndIn ==
    ASSUME stream \in Streams, NEW a \in Nat, NEW e \in Nat, Crlfs(a, e) # {}
    PROVE  HeadersEnd(a, e) \in a + 1 .. e
<1>1. Crlfs(a, e) \in SUBSET (0 .. e)
    BY DEF Crlfs
<1>2. HeadersEnd(a, e) \in Crlfs(a, e)
    BY <1>1, MaxOf, Zenon DEF HeadersEnd
<1> QED BY <1>2 DEF Crlfs

LEMMA FoundIn ==
    ASSUME stream \in Streams, NEW h, NEW a \in Nat, NEW b \in 0 .. Len(stream)
    PROVE  /\ Found(h, a, b) \in SUBSET Messages
           /\ FirstOf(Found(h, a, b)) \in Messages \cup {0}
<1>1. Found(h, a, b) \in SUBSET Messages
    BY StreamType DEF Found
<1>2. Found(h, a, b) \in SUBSET Nat
    BY <1>1, ReaderAssumption DEF ReaderAssumption
<1>3. Found(h, a, b) # {} => Min(Found(h, a, b)) \in Found(h, a, b)
    BY <1>2, MinOf
<1> QED BY <1>1, <1>3 DEF FirstOf

\* Wherever the reads end: the first CSeq behind a request line is its own.
LEMMA CSeqIsOwn ==
    ASSUME stream \in Streams, NEW p, LineAt(p), NEW b \in p + 1 .. Len(stream),
           cseq = 0
    PROVE  CSeqOf(p + 1, b) \in {0, stream[p].msg}
<1> DEFINE F == Found("cseq", p + 1, b)
<1>1. p \in 1 .. Len(stream) /\ stream[p].msg \in Nat
    BY StreamType DEF LineAt
<1>2. PICK q \in p + 3 .. Len(stream) : /\ stream[q].msg = stream[p].msg
                                        /\ stream[q].is = "cseq" /\ stream[q].last
    BY StreamType DEF LineAt, WellFormed
<1>3. ASSUME NEW r \in p + 3 .. b, stream[r].is = "cseq", stream[r].last
      PROVE  /\ stream[p].msg <= stream[r].msg
             /\ stream[p].msg \in F
    <2>1. stream[p].msg <= stream[r].msg
        <3>1. p \in DOMAIN stream /\ r \in DOMAIN stream /\ p <= r
            BY <1>1, StreamType
        <3> QED BY <3>1, StreamType DEF WellFormed
    <2>2. CASE q <= b
        BY <2>1, <2>2, <1>1, <1>2 DEF Found
    <2>3. CASE b < q
        <3>1. stream[r].msg <= stream[q].msg
            BY <2>3, <1>1, StreamType DEF WellFormed
        <3>2. stream[r].msg = stream[p].msg
            BY <3>1, <2>1, <1>1, <1>2, StreamType
        <3> QED BY <2>1, <3>2, <1>1, <1>3 DEF Found
    <2> QED BY <2>2, <2>3, <1>1
<1>4. CASE F = {}
    BY <1>4 DEF CSeqOf, FirstOf
<1>5. CASE F # {}
    <2>1. \A m \in F : stream[p].msg <= m
        BY <1>1, <1>3 DEF Found
    <2>2. stream[p].msg \in F
        BY <1>5, <1>1, <1>3 DEF Found
    <2>3. F \in SUBSET Nat
        BY <1>1, StreamType DEF Found
    <2>4. Min(F) = stream[p].msg
        BY <2>1, <2>2, <2>3, <1>1, MinOf
    <2> QED BY <2>4, <1>5 DEF CSeqOf, FirstOf
<1> QED BY <1>4, <1>5

\* While no line has ended behind the request line, the rest is no more than
\* the buffer may keep.
LEMMA LineFits ==
    ASSUME stream \in Streams, NEW p, LineAt(p), NEW e \in p + 1 .. Len(stream),
           Crlfs(p + 1, e) = {}
    PROVE  e - (p + 1) <= MaxMessage
<1>1. p \in 1 .. Len(stream) /\ MaxMessage \in Nat
    BY StreamType, ReaderAssumption DEF LineAt, ReaderAssumption
<1>2. PICK q \in p + 2 .. p + 1 + MaxMessage : q <= Len(stream) /\ stream[q].last
    BY StreamType DEF LineAt, WellFormed
<1>3. ~(q \in p + 2 .. e)
    BY <1>1, <1>2 DEF Crlfs
<1> QED BY <1>1, <1>2, <1>3

-----------------------------------------------------------------------------
(* The steps of a read.                                                    *)

\* However much is retrieved, what was handled stays so.
LEMMA HandledKept ==
    ASSUME IInv, UNCHANGED <<stream, handled>>, from' \in from .. Len(stream)
    PROVE  HandledInv'
<1>1. from \in Nat
    BY DEF IInv, TypeOK
<1>2. \A p \in 1 .. from : p \in 1 .. from'
    BY <1>1, StreamType DEF IInv
<1> QED BY <1>2 DEF HandledInv, IInv

LEMMA RetrieveEnds ==
    ASSUME NEW b \in Nat, NEW e \in Nat, b <= e, Retrieve(b, e)
    PROVE  from' \in b .. e
<1> QED BY ReaderAssumption DEF Retrieve, ReaderAssumption

\* The four things that can follow a request line or more of its headers.
LEMMA HeadersStep ==
    ASSUME IInv, stream' = stream, ~closed,
           NEW e \in from + 1 .. Len(stream), upto' = e,
           NEW p, LineAt(p), NEW i, i = stream[p].msg,
           NEW m \in Methods \cup {"RTCP", "NONE"},
           NEW a \in Nat, from <= a, a <= e, p + 1 <= a,
           cseq \in {0, i}, cseq = 0 => a = p + 1,
           \A k \in DOMAIN handled : handled[k].of < i,
           ParseHeadersLine(i, m, a, e)
    PROVE  ReadInv'
<1> DEFINE b == HeadersEnd(a, e)
           Rec == [of : Messages, cseq : Messages, auth : Messages \cup {0}]
<1>1. /\ Len(stream) \in Nat /\ from \in Nat /\ e \in Nat
      /\ p \in 1 .. Len(stream) /\ i \in Messages /\ i \in Nat /\ i # 0
      /\ handled \in Seq(Rec) /\ auth \in Messages \cup {0}
      /\ closed = FALSE /\ MaxMessage \in Nat
    BY StreamType, ReaderAssumption DEF IInv, TypeOK, LineAt, ReaderAssumption
<1>2. ASSUME Crlfs(a, e) # {}
      PROVE  /\ b \in a + 1 .. e
             /\ CSeqOf(a, b) \in {0, i}
             /\ AuthOf(m, a, b) \in Messages \cup {0}
    <2>1. b \in a + 1 .. e
        BY <1>1, <1>2, HeadersEndIn DEF IInv
    <2>2. b \in 0 .. Len(stream) /\ b \in p + 1 .. Len(stream)
        BY <2>1, <1>1
    <2>3. CSeqOf(a, b) \in {0, i}
        <3>1. CASE cseq # 0
            BY <3>1 DEF CSeqOf
        <3>2. CASE cseq = 0
            BY <2>2, <3>2, CSeqIsOwn DEF IInv
        <3> QED BY <3>1, <3>2
    <2>4. FirstOf(Found("auth", a, b)) \in Messages \cup {0}
        BY <2>2, FoundIn DEF IInv
    <2>5. AuthOf(m, a, b) \in Messages \cup {0}
        BY <2>4, <1>1 DEF AuthOf
    <2> QED BY <2>1, <2>3, <2>5
<1>3. ASSUME HeadersWait(i, m, a, e)  PROVE ReadInv'
    <2>1. from' \in a .. e
        BY <1>1, <1>3, RetrieveEnds DEF HeadersWait
    <2>2. cseq = 0 => from' = p + 1
        BY <1>1, <1>3, LineFits DEF HeadersWait, Retrieve, IInv
    <2>3. ParserType'
        BY <1>1, <1>3, <2>1 DEF HeadersWait, ParserType, IInv, TypeOK
    <2>4. HandledInv'
        BY <1>1, <1>3, <2>1, HandledKept DEF HeadersWait
    <2>5. Begun(p)'
        BY <1>1, <1>3, <2>1, <2>2 DEF HeadersWait, Begun, LineAt
    <2>6. ParserInv'
        BY <1>3, <2>5, <1>1, StreamType DEF HeadersWait, ParserInv, IInv
    <2> QED BY <2>3, <2>4, <2>6 DEF ReadInv
<1>4. ASSUME HeadersRefused(i, m, a, e)  PROVE ReadInv'
    <2>1. from' \in a .. e
        BY <1>1, <1>2, <1>4 DEF HeadersRefused
    <2>2. ParserType'
        BY <1>1, <1>4, <2>1 DEF HeadersRefused, ParserType, IInv, TypeOK
    <2>3. HandledInv'
        BY <1>1, <1>4, <2>1, HandledKept DEF HeadersRefused
    <2>4. ParserInv'
        BY <1>4 DEF HeadersRefused, ParserInv
    <2> QED BY <2>2, <2>3, <2>4 DEF ReadInv
<1>5. ASSUME HeadersLack(i, m, a, e)  PROVE ReadInv'
    <2>1. cseq' = i /\ of' = i /\ auth' \in Messages \cup {0}
        BY <1>2, <1>5 DEF HeadersLack
    <2>2. from' \in a + 1 .. e
        BY <1>1, <1>2, <1>5, RetrieveEnds DEF HeadersLack
    <2>3. ParserType'
        BY <1>1, <1>5, <2>1, <2>2 DEF HeadersLack, ParserType, IInv, TypeOK
    <2>4. HandledInv'
        BY <1>1, <1>5, <2>2, HandledKept DEF HeadersLack
    <2>5. Begun(p)'
        BY <1>1, <1>5, <2>1, <2>2 DEF HeadersLack, Begun, LineAt
    <2>6. ParserInv'
        BY <1>5, <2>5, <1>1, StreamType DEF HeadersLack, ParserInv, IInv
    <2> QED BY <2>3, <2>4, <2>6 DEF ReadInv
<1>6. ASSUME GotAll(i, m, a, e)  PROVE ReadInv'
    <2> DEFINE r == [of |-> i, cseq |-> CSeqOf(a, b), auth |-> auth']
    <2>1. CSeqOf(a, b) = i /\ auth' \in Messages \cup {0} /\ handled' = Append(handled, r)
        BY <1>2, <1>6 DEF GotAll
    <2>2. r \in Rec /\ r.of = i /\ r.cseq = i
        BY <2>1, <1>1
    <2>3. from' \in a + 1 .. e
        BY <1>1, <1>2, <1>6, RetrieveEnds DEF GotAll
    <2>4. ParserType'
        <3>1. handled' \in Seq(Rec)
            BY <2>1, <2>2, <1>1
        <3> QED BY <3>1, <1>1, <1>6, <2>1, <2>3 DEF GotAll, ParserType, IInv, TypeOK
    <2>5. HandledInv'
        <3>1. \A k \in DOMAIN handled' :
                  (k \in DOMAIN handled /\ handled'[k] = handled[k])
                  \/ (k = Len(handled) + 1 /\ handled'[k] = r)
            BY <2>1, <2>2, <1>1
        <3>2. \A k \in DOMAIN handled : /\ handled[k].cseq = handled[k].of
                                        /\ \E q \in 1 .. from' : stream[q].msg = handled[k].of
            <4>1. \A q \in 1 .. from : q \in 1 .. from'
                BY <2>3, <1>1
            <4> QED BY <4>1 DEF IInv, HandledInv
        <3>3. p \in 1 .. from'
            BY <2>3, <1>1
        <3>4. \A k \in DOMAIN handled' : /\ handled'[k].cseq = handled'[k].of
                                         /\ \E q \in 1 .. from' : stream[q].msg = handled'[k].of
            BY <3>1, <3>2, <3>3, <2>2
        <3>5. ASSUME NEW j \in DOMAIN handled', NEW k \in DOMAIN handled', j < k
              PROVE  handled'[j].of < handled'[k].of
            <4>1. j \in DOMAIN handled /\ handled'[j] = handled[j]
                BY <3>1, <3>5, <1>1
            <4>2. CASE k \in DOMAIN handled /\ handled'[k] = handled[k]
                BY <4>1, <4>2, <3>5 DEF IInv, HandledInv
            <4>3. CASE handled'[k] = r
                BY <4>1, <4>3, <2>2
            <4> QED BY <3>1, <4>2, <4>3
        <3> QED BY <3>4, <3>5 DEF HandledInv
    <2>6. ParserInv'
        BY <1>6 DEF GotAll, ParserInv
    <2> QED BY <2>4, <2>5, <2>6 DEF ReadInv
<1> QED BY <1>3, <1>4, <1>5, <1>6 DEF ParseHeadersLine

LEMMA PacketStep ==
    ASSUME IInv, stream' = stream, ~closed,
           NEW e \in from + 1 .. Len(stream), upto' = e, ReadPacket(e)
    PROVE  ReadInv'
<1>1. Len(stream) \in Nat /\ from \in Nat /\ e \in Nat /\ MaxMessage \in Nat
    BY StreamType, ReaderAssumption DEF IInv, TypeOK, ReaderAssumption
<1>2. Rtcp(e) \in {from, e}
    BY DEF Rtcp
<1>3. from' \in from .. e
    BY <1>1, <1>2, RetrieveEnds DEF ReadPacket, Retrieve
<1>4. ParserType'
    BY <1>1, <1>3 DEF ReadPacket, ParserType, IInv, TypeOK
<1>5. HandledInv'
    BY <1>1, <1>3, HandledKept DEF ReadPacket
<1>6. ASSUME NEW p \in DOMAIN stream, Begun(p)  PROVE Begun(p)'
    <2>1. p \in 1 .. Len(stream)
        BY StreamType DEF IInv
    <2>2. cseq # 0
        <3>1. stream[p + 2].is \notin {"packet", "wide"}
            BY <1>6, StreamType DEF Begun, LineAt, WellFormed, IInv
        <3> QED BY <3>1, <1>6, <2>1 DEF Begun, ReadPacket
    <2> QED BY <2>1, <2>2, <1>1, <1>3, <1>6 DEF Begun, LineAt, ReadPacket
<1>7. ParserInv'
    BY <1>6 DEF ReadPacket, ParserInv, IInv
<1> QED BY <1>4, <1>5, <1>7 DEF ReadInv

LEMMA LineStep ==
    ASSUME IInv, stream' = stream, ~closed,
           NEW e \in from + 1 .. Len(stream), upto' = e, ParseRequestLine(e)
    PROVE  ReadInv'
<1>1. Len(stream) \in Nat /\ from \in Nat /\ e \in Nat /\ MaxMessage \in Nat
    BY StreamType, ReaderAssumption DEF IInv, TypeOK, ReaderAssumption
<1>2. cseq = 0 /\ state = "line" /\ ~closed
    BY DEF ParseRequestLine, IInv, ParserInv
<1>3. ASSUME LineWaits(e)  PROVE ReadInv'
    <2>1. from' \in from .. e
        BY <1>1, <1>3, RetrieveEnds DEF LineWaits
    <2>2. ParserType'
        BY <1>1, <1>3, <2>1 DEF LineWaits, parser, ParserType, IInv, TypeOK
    <2>3. HandledInv'
        BY <1>1, <1>3, <2>1, HandledKept DEF LineWaits
    <2>4. ParserInv'
        BY <1>2, <1>3 DEF LineWaits, parser, ParserInv
    <2> QED BY <2>2, <2>3, <2>4 DEF ReadInv
<1>4. ASSUME Crlfs(from, e) # {},
             NEW p, p = Min(Crlfs(from, e)),
             LineSkipped(p, e) \/ LineRefused(p) \/ LineAccepted(p, e)
      PROVE  ReadInv'
    <2>1. p \in from + 1 .. e /\ stream[p].last
        <3>1. Crlfs(from, e) \in SUBSET Nat
            BY <1>1 DEF Crlfs
        <3>2. p \in Crlfs(from, e)
            BY <3>1, <1>4, MinOf
        <3> QED BY <3>2 DEF Crlfs
    <2>2. ASSUME LineSkipped(p, e)  PROVE ReadInv'
        <3>1. from' \in from .. e
            BY <1>1, <2>1, <2>2, RetrieveEnds DEF LineSkipped
        <3>2. ParserType'
            BY <1>1, <2>2, <3>1 DEF LineSkipped, parser, ParserType, IInv, TypeOK
        <3>3. HandledInv'
            BY <1>1, <2>2, <3>1, HandledKept DEF LineSkipped
        <3>4. ParserInv'
            BY <1>2, <2>2 DEF LineSkipped, parser, ParserInv
        <3> QED BY <3>2, <3>3, <3>4 DEF ReadInv
    <2>3. ASSUME LineRefused(p)  PROVE ReadInv'
        <3>1. from' \in from .. e
            BY <1>1, <2>1, <2>3 DEF LineRefused
        <3>2. ParserType'
            BY <1>1, <2>3, <3>1 DEF LineRefused, ParserType, IInv, TypeOK
        <3>3. HandledInv'
            BY <1>1, <2>3, <3>1, HandledKept DEF LineRefused
        <3>4. ParserInv'
            BY <1>2, <2>3 DEF LineRefused, ParserInv
        <3> QED BY <3>2, <3>3, <3>4 DEF ReadInv
    <2>4. ASSUME LineAccepted(p, e)  PROVE ReadInv'
        <3> DEFINE l == from + 1
                   i == stream[l].msg
                   m == stream[l].is
        <3>1. m \in Methods /\ ~stream[l].last /\ ~(p > from + 2)
            <4>1. "accept" \in Outcomes(p)
                BY <2>4 DEF LineAccepted
            <4>2. m \in Methods /\ ~(stream[l].last # (m = "blank")) /\ ~(p > from + 2)
                BY <4>1 DEF Outcomes
            <4>3. m # "blank"
                BY <4>2, ReaderAssumption DEF ReaderAssumption
            <4>4. stream[l].last \in BOOLEAN
                BY <1>1, StreamType DEF IInv
            <4> QED BY <4>2, <4>3, <4>4
        <3>2. LineAt(l)
            BY <3>1, <1>1, StreamType DEF LineAt, IInv
        <3>3. p = l + 1
            <4>1. p # l
                BY <3>1, <2>1
            <4> QED BY <4>1, <3>1, <2>1, <1>1
        <3>4. \A k \in DOMAIN handled : handled[k].of < i
            <4>1. \A q \in 1 .. l - 1 : stream[q].msg < i
                BY <3>2, StreamType DEF LineAt, WellFormed, IInv
            <4>2. l - 1 = from
                BY <1>1
            <4> QED BY <4>1, <4>2 DEF IInv, HandledInv
        <3>5. ParseHeadersLine(i, m, p, e)
            BY <2>4 DEF LineAccepted
        <3> HIDE DEF l, i, m
        <3>6. i = stream[l].msg /\ from <= p /\ p <= e /\ p \in Nat /\ l + 1 <= p
            BY <2>1, <3>3, <1>1 DEF i, l
        <3> QED BY <3>1, <3>2, <3>3, <3>4, <3>5, <3>6, <1>2, HeadersStep
    <2> QED BY <1>4, <2>2, <2>3, <2>4
<1> QED BY <1>3, <1>4 DEF ParseRequestLine

LEMMA MoreHeadersStep ==
    ASSUME IInv, stream' = stream, ~closed,
           NEW e \in from + 1 .. Len(stream), upto' = e, ParseMoreHeaders(e)
    PROVE  ReadInv'
<1>1. PICK p \in DOMAIN stream : Begun(p)
    BY DEF ParseMoreHeaders, IInv, ParserInv
<1>2. /\ from \in Nat /\ e \in Nat /\ from <= e /\ from <= from
      /\ method \in Methods \cup {"RTCP", "NONE"}
    BY StreamType DEF IInv, TypeOK
<1>3. /\ LineAt(p) /\ p + 1 <= from /\ of = stream[p].msg /\ cseq \in {0, of}
      /\ cseq = 0 => from = p + 1
      /\ \A k \in DOMAIN handled : handled[k].of < of
    BY <1>1 DEF Begun
<1>4. ParseHeadersLine(of, method, from, e)
    BY DEF ParseMoreHeaders
<1> QED BY <1>2, <1>3, <1>4, HeadersStep, Zenon

LEMMA Invariance ==
    Spec => []IInv
<1>1. ASSUME Init  PROVE IInv
    <2>1. stream \in Streams /\ Len(stream) \in Nat
        BY <1>1, StreamType DEF Init
    <2>2. TypeOK
        <3>1. upto \in 0 .. Len(stream) /\ from \in 0 .. upto
            BY <1>1, <2>1 DEF Init
        <3>2. handled \in Seq([of : Messages, cseq : Messages, auth : Messages \cup {0}])
            BY <1>1 DEF Init
        <3> QED BY <1>1, <3>1, <3>2, Zenon DEF Init, TypeOK
    <2>3. HandledInv /\ ParserInv
        BY <1>1 DEF Init, HandledInv, ParserInv
    <2> QED BY <2>1, <2>2, <2>3 DEF IInv
<1>2. ASSUME IInv, [Next]_vars  PROVE IInv'
    <2>1. CASE UNCHANGED vars
        BY <1>2, <2>1 DEF vars, parser, IInv, TypeOK, HandledInv, ParserInv, Begun, LineAt
    <2>2. ASSUME NEW e \in upto + 1 .. Len(stream), Read(e)  PROVE IInv'
        <3>1. /\ Len(stream) \in Nat /\ e \in from + 1 .. Len(stream)
              /\ stream[e].msg \in Messages
            BY <1>2, StreamType DEF IInv, TypeOK
        <3>2. /\ ~closed /\ upto' = e /\ stream' = stream /\ waits' = waits
              /\ ReadPacket(e) \/ ParseRequestLine(e) \/ ParseMoreHeaders(e)
            BY <2>2 DEF Read
        <3>3. ReadInv'
            BY <1>2, <3>1, <3>2, PacketStep, LineStep, MoreHeadersStep
        <3>4. cut' \subseteq Messages /\ spilt' \in BOOLEAN
            BY <1>2, <2>2, <3>1 DEF Read, IInv, TypeOK
        <3>5. TypeOK'
            BY <1>2, <3>1, <3>2, <3>3, <3>4 DEF ReadInv, ParserType, TypeOK, IInv
        <3> QED BY <1>2, <3>2, <3>3, <3>5 DEF ReadInv, IInv
    <2> QED BY <1>2, <2>1, <2>2 DEF Next
<1> QED BY <1>1, <1>2, PTL DEF Spec

-----------------------------------------------------------------------------
(* Theorems.                                                               *)

\* TypeOK: what the buffer's two positions, the parser's state and the values
\* handed on can be, for any stream (BufferReader::Retrieve, ParseRequest).
THEOREM TypeCorrect == Spec => []TypeOK
<1>1. IInv => TypeOK
    BY DEF IInv
<1> QED BY <1>1, Invariance, PTL

\* AnswersMatch: however the bytes arrive, HandleRtspRequest calls a handler for
\* a request with that request's CSeq, once, and in the order of the requests.
THEOREM AnswersAreTheirOwn == Spec => []AnswersMatch
<1>1. IInv => AnswersMatch
    BY DEF IInv, HandledInv, AnswersMatch
<1> QED BY <1>1, Invariance, PTL

-----------------------------------------------------------------------------
(* Clients that send one message at a time.                                *)

\* Between two messages.
AtRest == /\ state = "line" /\ cseq = 0 /\ from = upto
          /\ upto = 0 \/ Ends(stream, upto)

\* Half a request line is in the buffer.
AtLine == /\ state = "line" /\ cseq = 0 /\ upto = from + 1 /\ LineAt(upto)
          /\ stream[upto].msg \in cut

\* The request whose line is at l is being read.  What was retrieved of it ends
\* with a line and has not the header its method waits for, and at most half a
\* line is in the buffer.
Within(l) == /\ LineAt(l) /\ state = "headers"
             /\ of = stream[l].msg /\ of = stream[upto].msg /\ of \in cut
             /\ method = stream[l].is
             /\ from > l /\ from <= upto /\ stream[from].last /\ Crlfs(from, upto) = {}
             /\ ~Ends(stream, upto)
             /\ cseq \in {0, of} /\ (cseq = 0 => from = l + 1)
             /\ \A q \in l + 2 .. from : stream[q].last => stream[q].is # Needs(method)

StepInv == upto = 0 \/ InStep =>
    /\ upto > 0 => AllServed /\ OwnCredentials
    /\ closed \/ AtRest \/ AtLine \/ \E l \in DOMAIN stream : Within(l)

-----------------------------------------------------------------------------
(* The shape of a message.                                                 *)

Special == {"blank", "packet", "wide", "payload"}

LEMMA Shape ==
    ASSUME stream \in Streams
    PROVE  /\ Len(stream) \in Nat /\ DOMAIN stream = 1 .. Len(stream)
           /\ \A p \in 1 .. Len(stream) : /\ stream[p].msg \in Nat \ {0}
                                          /\ stream[p].last \in BOOLEAN
                                          /\ stream[p].is \in Methods \cup Headers \cup Special
           /\ \A p, q \in 1 .. Len(stream) : p <= q => stream[p].msg <= stream[q].msg
           /\ Framed(stream)
           /\ (Methods \cup Headers) \cap Special = {}
           /\ Methods \cap Headers = {}
<1>1. stream \in Seq(Pieces) /\ WellFormed(stream) /\ Framed(stream)
    BY ReaderAssumption, FramingAssumption
<1>2. \A x \in Pieces : x.is \in Methods \cup Headers \cup Special
    BY DEF Pieces, Special
<1>3. \A p \in 1 .. Len(stream) : stream[p] \in Pieces
    BY <1>1
<1>4. (Methods \cup Headers) \cap Special = {} /\ Methods \cap Headers = {}
    BY ReaderAssumption DEF Headers, Special
<1>5. \A p, q \in 1 .. Len(stream) : p <= q => stream[p].msg <= stream[q].msg
    BY <1>1, StreamType DEF WellFormed
<1> QED
    BY <1>1, <1>2, <1>3, <1>4, <1>5, StreamType

LEMMA EndIs ==
    ASSUME stream \in Streams, NEW p \in 1 .. Len(stream), NEW i, i = stream[p].msg
    PROVE  /\ EndOf(i) \in p .. Len(stream) /\ stream[EndOf(i)].msg = i
           /\ \A q \in 1 .. Len(stream) : stream[q].msg = i => q <= EndOf(i)
           /\ Ends(stream, p) <=> EndOf(i) = p
<1> DEFINE S == {q \in DOMAIN stream : stream[q].msg = i}
           n == Len(stream)
<1>1. n \in Nat /\ S \in SUBSET (0 .. n) /\ p \in S
    BY Shape
<1>2. EndOf(i) \in S /\ \A q \in S : q <= EndOf(i)
    BY <1>1, MaxOf, Zenon DEF EndOf
<1>3. EndOf(i) \in p .. n
    BY <1>1, <1>2, Shape
<1>4. ASSUME p < n, stream[p + 1].msg # i, EndOf(i) # p PROVE FALSE
    <2>1. p + 1 \in 1 .. n /\ p <= p + 1 /\ p + 1 <= EndOf(i) /\ EndOf(i) \in 1 .. n
        BY <1>1, <1>3, <1>4
    <2>2. i <= stream[p + 1].msg /\ stream[p + 1].msg <= i
        BY <1>2, <2>1, Shape
    <2> QED
        BY <1>4, <2>1, <2>2, Shape
<1>5. ASSUME EndOf(i) = p, p < n PROVE stream[p + 1].msg # i
    <2>1. p + 1 \in 1 .. n /\ ~(p + 1 <= p)
        BY <1>1, <1>5
    <2> QED
        BY <1>2, <1>5, <2>1, Shape
<1>6. Ends(stream, p) <=> EndOf(i) = p
    BY <1>1, <1>3, <1>4, <1>5 DEF Ends
<1> QED
    BY <1>2, <1>3, <1>6, Shape

\* A request begins with its line, and has one.
LEMMA LineIsFirst ==
    ASSUME stream \in Streams, NEW l, LineAt(l), NEW q \in 1 .. Len(stream),
           stream[q].msg = stream[l].msg
    PROVE  l <= q /\ (LineAt(q) => q = l)
<1>1. l \in 1 .. Len(stream) /\ stream[l].msg \in Nat /\ Len(stream) \in Nat
    BY Shape DEF LineAt
<1>2. \A r \in 1 .. l - 1 : stream[r].msg < stream[l].msg
    BY StreamType DEF LineAt, WellFormed
<1>3. ASSUME LineAt(q) PROVE \A r \in 1 .. q - 1 : stream[r].msg < stream[q].msg
    BY <1>3, StreamType DEF LineAt, WellFormed
<1>4. q - 1 \in Int /\ l - 1 \in Int
    BY <1>1
<1> QED
    BY <1>1, <1>2, <1>3

LEMMA MethodIs ==
    ASSUME stream \in Streams, NEW l, LineAt(l)
    PROVE  MethodOf(stream[l].msg) = l
<1>1. l \in DOMAIN stream /\ stream[l].is \in Methods /\ ~stream[l].last
    BY DEF LineAt
<1>2. ASSUME NEW q \in DOMAIN stream, stream[q].msg = stream[l].msg,
             stream[q].is \in Methods, ~stream[q].last
      PROVE  q = l
    BY <1>2, LineIsFirst, Shape DEF LineAt
<1> QED
    BY <1>1, <1>2 DEF MethodOf

\* The pieces of a request.
LEMMA RequestPiece ==
    ASSUME stream \in Streams, NEW l, LineAt(l), NEW q \in 1 .. Len(stream),
           stream[q].msg = stream[l].msg
    PROVE  /\ stream[q].is \in Methods \cup Headers \cup {"blank"}
           /\ stream[q].is \in Methods => q \in {l, l + 1}
<1>1. /\ l \in 1 .. Len(stream) /\ Len(stream) \in Nat /\ stream[l].is \in Methods
      /\ Framed(stream) /\ ~stream[l].last
    BY Shape DEF LineAt
<1>2. ASSUME NEW r \in 1 .. Len(stream), stream[r].msg = stream[l].msg
      PROVE  stream[r].is \notin {"packet", "wide"}
    <2> SUFFICES ASSUME stream[r].is \in {"packet", "wide"} PROVE FALSE
        OBVIOUS
    <2>1. Opens(stream, r) /\ l <= r
        BY <1>1, <1>2, LineIsFirst, Shape DEF Framed
    <2>2. CASE r = l
        BY <1>1, <2>2, Shape DEF Special
    <2>3. CASE l < r
        <3>1. r - 1 \in 1 .. Len(stream) /\ l <= r - 1 /\ r - 1 <= r /\ r # 1
            BY <1>1, <2>3
        <3>2. stream[r - 1].msg = stream[l].msg
            <4>1. stream[l].msg <= stream[r - 1].msg /\ stream[r - 1].msg <= stream[r].msg
                BY <1>1, <3>1, Shape
            <4> QED
                BY <1>1, <1>2, <3>1, <4>1, Shape
        <3> QED
            BY <1>2, <2>1, <3>1, <3>2 DEF Opens
    <2> QED
        BY <1>1, <2>1, <2>2, <2>3
<1>3. stream[q].is # "payload"
    <2> SUFFICES ASSUME stream[q].is = "payload" PROVE FALSE
        OBVIOUS
    <2>1. PICK r \in 1 .. q : stream[r].is \in {"packet", "wide"} /\ stream[r].msg = stream[q].msg
        BY <1>1, Shape DEF Framed
    <2> QED
        BY <1>1, <1>2, <2>1
<1>4. stream[q].is \in Methods \cup Headers \cup {"blank"}
    BY <1>2, <1>3, Shape DEF Special
<1>5. ASSUME stream[q].is \in Methods PROVE q \in {l, l + 1}
    <2>1. CASE ~stream[q].last
        <3>1. LineAt(q)
            BY <1>5, <2>1, Shape DEF LineAt
        <3> QED
            BY <3>1, LineIsFirst
    <2>2. CASE stream[q].last
        <3>1. q - 1 \in DOMAIN stream /\ stream[q - 1] = [stream[q] EXCEPT !.last = FALSE]
            <4>1. Framed(stream) /\ q \in DOMAIN stream /\ stream[q].is \in Methods \cup Headers
                BY <1>1, <1>5, Shape
            <4> QED
                BY ONLY <2>2, <4>1, Zenon DEF Framed
        <3>2. stream[q] \in Pieces
            BY ReaderAssumption, Shape
        <3>3. /\ stream[q - 1].is = stream[q].is /\ ~stream[q - 1].last
              /\ stream[q - 1].msg = stream[q].msg
            BY <3>1, <3>2 DEF Pieces
        <3>4. LineAt(q - 1)
            BY <1>5, <3>1, <3>3 DEF LineAt
        <3>5. q - 1 = l
            BY <3>1, <3>3, <3>4, LineIsFirst, Shape
        <3> QED
            BY <1>1, <3>5
    <2> QED
        BY <2>1, <2>2, Shape
<1> QED
    BY <1>4, <1>5

\* The halves of a line.
LEMMA PieceShape ==
    ASSUME stream \in Streams, NEW p \in 1 .. Len(stream)
    PROVE  /\ Ends(stream, p) => stream[p].is \in {"blank", "payload"}
           /\ stream[p].is = "blank" => stream[p].last /\ Ends(stream, p)
           /\ stream[p].is \in Methods \cup Headers =>
                  /\ ~Ends(stream, p)
                  /\ stream[p].last => /\ p - 1 \in 1 .. Len(stream) /\ ~stream[p - 1].last
                                       /\ stream[p - 1].is = stream[p].is
                                       /\ stream[p - 1].msg = stream[p].msg
                  /\ ~stream[p].last => /\ p + 1 \in 1 .. Len(stream) /\ stream[p + 1].last
                                        /\ stream[p + 1].is = stream[p].is
                                        /\ stream[p + 1].msg = stream[p].msg
<1>1. DOMAIN stream = 1 .. Len(stream) /\ stream[p] \in Pieces
    BY ReaderAssumption, Shape
<1>2. /\ Ends(stream, p) => stream[p].is \in {"blank", "payload"}
      /\ stream[p].is = "blank" => stream[p].last /\ Ends(stream, p)
      /\ stream[p].is \in Methods \cup Headers =>
          IF stream[p].last
          THEN p - 1 \in DOMAIN stream /\ stream[p - 1] = [stream[p] EXCEPT !.last = FALSE]
          ELSE p + 1 \in DOMAIN stream /\ stream[p + 1] = [stream[p] EXCEPT !.last = TRUE]
    <2>1. Framed(stream) /\ p \in DOMAIN stream
        BY <1>1, Shape
    <2> QED
        BY ONLY <2>1, Zenon DEF Framed
<1>3. \A x \in Pieces, v \in BOOLEAN : LET y == [x EXCEPT !.last = v] IN
          y.last = v /\ y.is = x.is /\ y.msg = x.msg
    BY DEF Pieces
<1>4. stream[p].is \in Methods \cup Headers => stream[p].is \notin {"blank", "payload"}
    BY Shape DEF Special
<1> QED
    BY <1>1, <1>2, <1>3, <1>4

LEMMA LineIsWhole ==
    ASSUME stream \in Streams, NEW l, LineAt(l)
    PROVE  /\ l + 1 \in 1 .. Len(stream) /\ stream[l + 1].msg = stream[l].msg
           /\ stream[l + 1].is = stream[l].is /\ stream[l + 1].last
           /\ ~Ends(stream, l) /\ ~Ends(stream, l + 1)
<1>1. l \in 1 .. Len(stream) /\ stream[l].is \in Methods /\ ~stream[l].last
    BY Shape DEF LineAt
<1>2. /\ l + 1 \in 1 .. Len(stream) /\ stream[l + 1].msg = stream[l].msg
      /\ stream[l + 1].is = stream[l].is /\ stream[l + 1].last /\ ~Ends(stream, l)
    BY <1>1, PieceShape
<1>3. ~Ends(stream, l + 1)
    BY <1>1, <1>2, PieceShape
<1> QED
    BY <1>2, <1>3

\* Behind a line of a request there is another, or the blank one.
LEMMA LineAhead ==
    ASSUME stream \in Streams, NEW l, LineAt(l), NEW a \in Nat, l < a, stream[a].last,
           a + 1 \in 1 .. Len(stream), stream[a + 1].msg = stream[l].msg
    PROVE  \/ stream[a + 1].is = "blank" /\ stream[a + 1].last
           \/ /\ stream[a + 1].is \in Headers /\ ~stream[a + 1].last
              /\ ~Ends(stream, a + 1)
              /\ a + 2 \in 1 .. Len(stream) /\ stream[a + 2].last
              /\ stream[a + 2].is = stream[a + 1].is
<1> DEFINE c == a + 1
<1>1. c \in 1 .. Len(stream) /\ stream[c].msg = stream[l].msg /\ c - 1 = a /\ c + 1 = a + 2
    OBVIOUS
<1> HIDE DEF c
<1>2. stream[c].is \in Headers \cup {"blank"}
    <2>1. l \in Nat /\ c > l + 1
        BY <1>1, Shape DEF LineAt
    <2> QED
        BY <1>1, <2>1, RequestPiece
<1>3. CASE stream[c].is = "blank"
    BY <1>1, <1>3, PieceShape DEF c
<1>4. CASE stream[c].is \in Headers
    <2>1. ~stream[c].last
        BY <1>1, <1>4, PieceShape
    <2>2. ~Ends(stream, c) /\ c + 1 \in 1 .. Len(stream) /\ stream[c + 1].last
          /\ stream[c + 1].is = stream[c].is
        BY <1>1, <1>4, <2>1, PieceShape
    <2> QED
        BY <1>1, <1>4, <2>1, <2>2 DEF c
<1> QED
    BY <1>2, <1>3, <1>4

\* A request ends with a line.
LEMMA EndIsLast ==
    ASSUME stream \in Streams, NEW l, LineAt(l), NEW e \in 1 .. Len(stream),
           stream[e].msg = stream[l].msg, Ends(stream, e)
    PROVE  stream[e].last /\ stream[e].is = "blank"
<1>1. stream[e].is \in Methods \cup Headers \cup {"blank"}
    BY RequestPiece
<1>2. stream[e].is \in {"blank", "payload"}
    BY PieceShape
<1>3. stream[e].is = "blank"
    BY <1>1, <1>2, Shape DEF Special
<1> QED
    BY <1>3, PieceShape

\* Without a whole line behind a line of the request there is half a one at
\* most.
LEMMA HalfALine ==
    ASSUME stream \in Streams, NEW l, LineAt(l), NEW a \in Nat, l < a, stream[a].last,
           NEW e \in a .. Len(stream), stream[e].msg = stream[l].msg, Crlfs(a, e) = {}
    PROVE  e <= a + 1 /\ (e > a => ~Ends(stream, e))
<1>1. l \in 1 .. Len(stream) /\ Len(stream) \in Nat
    BY Shape DEF LineAt
<1>2. CASE e = a
    BY <1>2
<1>3. CASE e > a
    <2>1. a + 1 \in 1 .. Len(stream) /\ a + 1 <= e /\ e \in 1 .. Len(stream) /\ l <= a + 1
        BY <1>1, <1>3
    <2>2. stream[a + 1].msg = stream[l].msg
        <3>1. stream[l].msg <= stream[a + 1].msg /\ stream[a + 1].msg <= stream[e].msg
            BY <1>1, <2>1, Shape
        <3> QED
            BY <1>1, <2>1, <3>1, Shape
    <2>3. ~stream[a + 1].last
        BY <2>1 DEF Crlfs
    <2>4. ~Ends(stream, a + 1) /\ a + 2 \in 1 .. Len(stream) /\ stream[a + 2].last
        BY <2>1, <2>2, <2>3, LineAhead
    <2>5. e < a + 2
        <3> SUFFICES ASSUME a + 2 <= e PROVE FALSE
            BY <2>1
        <3>1. a + 2 \in a + 1 .. e
            BY <2>1
        <3> QED
            BY <2>4, <3>1 DEF Crlfs
    <2>6. e = a + 1
        BY <2>1, <2>5
    <2> QED
        BY <2>4, <2>6
<1> QED
    BY <1>2, <1>3

\* The header lines that are taken.
LEMMA HeadersEndIs ==
    ASSUME stream \in Streams, NEW a \in Nat, NEW e \in a .. Len(stream), Crlfs(a, e) # {}
    PROVE  /\ HeadersEnd(a, e) \in a + 1 .. e /\ stream[HeadersEnd(a, e)].last
           /\ Crlfs(HeadersEnd(a, e), e) = {}
           /\ e > a /\ stream[e].last => HeadersEnd(a, e) = e
<1> DEFINE b == HeadersEnd(a, e)
<1>1. Crlfs(a, e) \in SUBSET (0 .. e) /\ e \in Nat /\ a \in Nat
    BY Shape DEF Crlfs
<1>2. b \in Crlfs(a, e) /\ \A y \in Crlfs(a, e) : y <= b
    BY <1>1, MaxOf, Zenon DEF HeadersEnd
<1> HIDE DEF b
<1>3. b \in a + 1 .. e /\ stream[b].last
    BY <1>2 DEF Crlfs
<1>4. Crlfs(b, e) = {}
    <2> SUFFICES ASSUME NEW y \in Crlfs(b, e) PROVE FALSE
        OBVIOUS
    <2>1. y \in b + 1 .. e /\ stream[y].last
        BY DEF Crlfs
    <2>2. y \in a + 1 .. e
        BY <1>1, <1>3, <2>1
    <2>3. y <= b
        BY <1>2, <2>1, <2>2 DEF Crlfs
    <2> QED
        BY <1>1, <1>3, <2>1, <2>3
<1>5. ASSUME e > a, stream[e].last PROVE b = e
    <2>1. e \in Crlfs(a, e)
        BY <1>1, <1>5 DEF Crlfs
    <2> QED
        BY <1>1, <1>2, <1>3, <2>1
<1> QED
    BY <1>3, <1>4, <1>5 DEF b

-----------------------------------------------------------------------------
(* Reads of a client in step.                                              *)

Record == [of : Messages, cseq : Messages, auth : Messages \cup {0}]

\* A read up to e, of the request whose line is at l.
ReadOf(l, e) ==
    /\ LineAt(l) /\ stream' = stream /\ upto' = e /\ ~closed
    /\ upto \in Nat /\ e \in upto + 1 .. Len(stream) /\ stream[e].msg = stream[l].msg
    /\ handled \in Seq(Record) /\ OwnCredentials
    /\ cut \subseteq cut'
    /\ ~Ends(stream, e) => stream[l].msg \in cut'
    /\ ~(handled' # handled /\ EndOf(handled'[Len(handled')].of) > e)
    /\ ~Bare(stream[l].msg)

\* What that read finds behind a, where the parser has come to.
FromTo(l, a, e) ==
    /\ a \in l + 1 .. e /\ stream[a].last
    /\ cseq \in {0, stream[l].msg} /\ (cseq = 0 => a = l + 1)
    /\ \A q \in l + 2 .. a : stream[q].last => stream[q].is # Needs(stream[l].is)
    /\ e > a \/ a = l + 1
    /\ stream[l].msg \notin cut' => a = l + 1

\* How it leaves the parser.
LeftInStep(l, e) ==
    /\ OwnCredentials' /\ Handled \subseteq Handled'
    /\ closed' => stream[l].msg \in cut' /\ CSeqIsLate(stream[l].msg)
    /\ ~closed' => IF Ends(stream, e) THEN AtRest' /\ stream[l].msg \in Handled'
                                      ELSE Within(l)'

\* Whoever handles nothing keeps what it has handled.
LEMMA NothingHandled ==
    ASSUME stream' = stream, handled' = handled, OwnCredentials, cut \subseteq cut'
    PROVE  OwnCredentials' /\ Handled' = Handled
BY DEF OwnCredentials, Handled, MethodOf, Has

LEMMA ReadTypes ==
    ASSUME stream \in Streams, NEW l, NEW e, ReadOf(l, e)
    PROVE  /\ l \in 1 .. Len(stream) /\ l \in Nat /\ e \in 1 .. Len(stream) /\ e \in Nat
           /\ stream[l].msg \in Nat \ {0} /\ stream[l].is \in Methods
           /\ \A q \in l .. e : q \in 1 .. Len(stream) /\ stream[q].msg = stream[l].msg
<1>1. /\ l \in 1 .. Len(stream) /\ l \in Nat /\ e \in 1 .. Len(stream) /\ e \in Nat
      /\ stream[l].msg \in Nat \ {0} /\ stream[l].is \in Methods
      /\ stream[e].msg = stream[l].msg
    BY Shape DEF ReadOf, LineAt
<1>2. ASSUME NEW q \in l .. e
      PROVE  q \in 1 .. Len(stream) /\ stream[q].msg = stream[l].msg
    <2>1. q \in 1 .. Len(stream) /\ l <= q /\ q <= e
        BY <1>1
    <2>2. stream[l].msg <= stream[q].msg /\ stream[q].msg <= stream[e].msg
        BY <1>1, <2>1, Shape
    <2> QED
        BY <1>1, <2>1, <2>2, Shape
<1> QED
    BY <1>1, <1>2

LEMMA WaitsInStep ==
    ASSUME stream \in Streams, NEW l, NEW a, NEW e, ReadOf(l, e), FromTo(l, a, e),
           HeadersWait(stream[l].msg, stream[l].is, a, e)
    PROVE  LeftInStep(l, e)
<1>1. /\ l \in Nat /\ e \in 1 .. Len(stream) /\ e \in Nat /\ a \in Nat /\ l < a /\ a <= e
      /\ LineAt(l) /\ stream[a].last /\ stream[e].msg = stream[l].msg /\ Crlfs(a, e) = {}
    BY ReadTypes DEF ReadOf, FromTo, HeadersWait
<1>2. e <= a + 1 /\ ~Ends(stream, e)
    <2>1. e <= a + 1 /\ (e > a => ~Ends(stream, e))
        BY <1>1, HalfALine
    <2>2. a = l + 1 => ~Ends(stream, a)
        BY <1>1, LineIsWhole
    <2> QED
        BY <1>1, <2>1, <2>2 DEF FromTo
<1>3. from' = a
    BY <1>1, <1>2, FramingAssumption, ReaderAssumption DEF HeadersWait, Retrieve
<1>4. OwnCredentials' /\ Handled' = Handled
    BY NothingHandled DEF ReadOf, HeadersWait
<1>5. Within(l)'
    <2>1. Crlfs(a, e)' = {} /\ LineAt(l)' /\ ~Ends(stream', e)
        BY <1>1, <1>2 DEF Crlfs, LineAt, ReadOf
    <2> QED
        BY <1>1, <1>2, <1>3, <2>1 DEF Within, HeadersWait, ReadOf, FromTo, Crlfs
<1> QED
    BY <1>2, <1>4, <1>5 DEF LeftInStep, HeadersWait, ReadOf

\* The connection is closed only over a CSeq that comes late and a read that
\* ended before it.
LEMMA RefusedInStep ==
    ASSUME stream \in Streams, NEW l, NEW a, NEW e, ReadOf(l, e), FromTo(l, a, e),
           HeadersRefused(stream[l].msg, stream[l].is, a, e)
    PROVE  LeftInStep(l, e)
<1> DEFINE b == HeadersEnd(a, e)
           i == stream[l].msg
<1>1. /\ l \in Nat /\ e \in 1 .. Len(stream) /\ e \in Nat /\ a \in Nat /\ l < a /\ a <= e
      /\ LineAt(l) /\ stream[a].last /\ stream[e].msg = i /\ Crlfs(a, e) # {}
      /\ l \in 1 .. Len(stream) /\ Len(stream) \in Nat /\ i \in Nat \ {0}
    BY ReadTypes, Shape DEF ReadOf, FromTo, HeadersRefused
<1>2. cseq = 0 /\ a = l + 1 /\ Found("cseq", a, b) = {}
    <2>1. CSeqOf(a, b) = 0
        BY DEF HeadersRefused
    <2>2. cseq = 0 /\ a = l + 1 /\ FirstOf(Found("cseq", a, b)) = 0
        BY <1>1, <2>1 DEF CSeqOf, FromTo
    <2>3. Found("cseq", a, b) \in SUBSET (Nat \ {0})
        <3>1. e \in a .. Len(stream)
            BY <1>1
        <3>2. b \in a + 1 .. e
            BY <1>1, <3>1, HeadersEndIs
        <3> QED
            BY <1>1, <3>2, Shape DEF Found
    <2>4. Found("cseq", a, b) # {} => Min(Found("cseq", a, b)) \in Found("cseq", a, b)
        BY <2>3, MinOf
    <2> QED
        BY <2>2, <2>3, <2>4 DEF FirstOf
<1>3. /\ b \in a + 1 .. e /\ stream[b].last /\ (stream[e].last => b = e)
    <2>1. e > a
        BY <1>1, ReadTypes DEF Crlfs
    <2> QED
        BY <1>1, <2>1, HeadersEndIs
<1> HIDE DEF b
<1>4. PICK q \in l + 3 .. Len(stream) : /\ stream[q].msg = i /\ stream[q].is = "cseq"
                                        /\ stream[q].last
    BY <1>1, StreamType DEF LineAt, WellFormed
<1>5. q > b
    <2> SUFFICES ASSUME q <= b PROVE FALSE
        BY <1>1, <1>3
    <2>1. q \in a + 2 .. b
        BY <1>1, <1>2
    <2>2. i \in Found("cseq", a, b)
        BY <1>4, <2>1 DEF Found
    <2> QED
        BY <1>2, <2>2
<1>6. q \in 1 .. Len(stream)
    BY <1>1
<1>7. /\ q - 1 \in 1 .. Len(stream) /\ ~stream[q - 1].last /\ stream[q - 1].is = "cseq"
      /\ stream[q - 1].msg = i
    BY <1>4, <1>6, PieceShape DEF Headers
<1>8. q - 1 > l + 2
    <2>1. q - 1 # b
        BY <1>3, <1>7
    <2> QED
        BY <1>1, <1>2, <1>3, <1>5, <2>1
<1>9. CSeqIsLate(i)
    <2>1. MethodOf(i) = l
        BY <1>1, MethodIs
    <2> QED
        BY <1>7, <1>8, <2>1, Shape DEF CSeqIsLate
<1>10. ~Ends(stream, e)
    <2> SUFFICES ASSUME Ends(stream, e) PROVE FALSE
        OBVIOUS
    <2>1. b = e
        BY <1>1, <1>3, EndIsLast
    <2>2. EndOf(i) = e
        BY <1>1, EndIs
    <2>3. q <= e
        BY <1>1, <1>4, <1>6, <2>2, EndIs
    <2> QED
        BY <1>1, <1>5, <2>1, <2>3
<1>11. OwnCredentials' /\ Handled' = Handled
    BY NothingHandled DEF ReadOf, HeadersRefused
<1> QED
    BY <1>9, <1>10, <1>11 DEF LeftInStep, HeadersRefused, ReadOf

\* A header's second half is behind the request line.
LEMMA LastHalf ==
    ASSUME stream \in Streams, NEW l, LineAt(l), NEW h \in Headers, Has(stream[l].msg, h)
    PROVE  \E q \in l + 2 .. EndOf(stream[l].msg) :
               /\ q \in 1 .. Len(stream) /\ stream[q].msg = stream[l].msg
               /\ stream[q].is = h /\ stream[q].last
<1> DEFINE i == stream[l].msg
<1>1. l \in 1 .. Len(stream) /\ Len(stream) \in Nat /\ h \notin Methods
    BY Shape DEF LineAt
<1>2. PICK p \in 1 .. Len(stream) : stream[p].msg = i /\ stream[p].is = h
    BY Shape DEF Has
<1>3. PICK q \in 1 .. Len(stream) : /\ stream[q].msg = i /\ stream[q].is = h
                                    /\ stream[q].last
    BY <1>2, PieceShape
<1>4. l <= q /\ q # l /\ q # l + 1
    BY <1>1, <1>3, LineIsFirst, LineIsWhole DEF LineAt
<1>5. q <= EndOf(i) /\ EndOf(i) \in Nat
    BY <1>1, <1>3, EndIs
<1> QED
    BY <1>1, <1>3, <1>4, <1>5

\* Behind a whole line, whole lines are either found or not there.
LEMMA NotFound ==
    ASSUME stream \in Streams, NEW l, LineAt(l), NEW a \in Nat, l < a, stream[a].last,
           NEW b \in a + 1 .. Len(stream), stream[b].msg = stream[l].msg,
           NEW h \in Headers, Found(h, a, b) = {}
    PROVE  \A q \in a + 1 .. b : stream[q].last => stream[q].is # h
<1>1. l \in 1 .. Len(stream) /\ Len(stream) \in Nat /\ h # "blank"
    BY Shape DEF LineAt, Headers
<1> SUFFICES ASSUME NEW q \in a + 1 .. b, stream[q].last, stream[q].is = h
             PROVE  FALSE
    OBVIOUS
<1>2. CASE q = a + 1
    <2>1. q \in 1 .. Len(stream) /\ l <= q /\ q <= b /\ b \in 1 .. Len(stream)
        BY <1>1
    <2>2. stream[l].msg <= stream[q].msg /\ stream[q].msg <= stream[b].msg
        BY <1>1, <2>1, Shape
    <2>3. stream[q].msg = stream[l].msg
        BY <1>1, <2>1, <2>2, Shape
    <2> QED
        BY <1>1, <1>2, <2>1, <2>3, LineAhead
<1>3. CASE q # a + 1
    <2>1. q \in a + 2 .. b
        BY <1>3
    <2>2. stream[q].msg \in Found(h, a, b)
        BY <2>1 DEF Found
    <2> QED
        BY <2>2
<1> QED
    BY <1>2, <1>3

LEMMA LackInStep ==
    ASSUME stream \in Streams, NEW l, NEW a, NEW e, ReadOf(l, e), FromTo(l, a, e),
           HeadersLack(stream[l].msg, stream[l].is, a, e)
    PROVE  LeftInStep(l, e)
<1> DEFINE b == HeadersEnd(a, e)
           i == stream[l].msg
           need == Needs(stream[l].is)
<1>1. /\ l \in Nat /\ e \in 1 .. Len(stream) /\ e \in Nat /\ a \in Nat /\ l < a /\ a <= e
      /\ LineAt(l) /\ stream[a].last /\ stream[e].msg = i /\ Crlfs(a, e) # {}
      /\ l \in 1 .. Len(stream) /\ Len(stream) \in Nat /\ i \in Nat \ {0}
      /\ e \in a .. Len(stream) /\ e \in l .. Len(stream) /\ stream[l].is \in Methods
    BY ReadTypes, Shape DEF ReadOf, FromTo, HeadersLack
<1>2. /\ b \in a + 1 .. e /\ stream[b].last /\ Crlfs(b, e) = {}
      /\ e > a /\ stream[e].last => b = e
    BY <1>1, HeadersEndIs
<1>3. need \in Headers /\ Found(need, a, b) = {}
    <2>1. stream[l].is # "RTCP" /\ need \in Headers \cup {"none"}
        BY <1>1, ReaderAssumption, FramingAssumption
    <2> QED
        BY <2>1 DEF HeadersLack, Enough
<1>4. /\ cseq' = CSeqOf(a, b) /\ CSeqOf(a, b) # 0 /\ Retrieve(b, e) /\ state' = "headers"
      /\ of' = i /\ method' = stream[l].is /\ handled' = handled /\ closed' = closed
    BY DEF HeadersLack
<1> HIDE DEF b
<1>5. \A q \in l + 2 .. b : stream[q].last => stream[q].is # need
    <2>1. b \in 1 .. Len(stream) /\ b \in a + 1 .. Len(stream) /\ stream[b].msg = i
        BY <1>1, <1>2, ReadTypes
    <2>2. \A q \in a + 1 .. b : stream[q].last => stream[q].is # need
        BY <1>1, <1>3, <2>1, NotFound
    <2>3. \A q \in l + 2 .. a : stream[q].last => stream[q].is # need
        BY DEF FromTo
    <2> QED
        BY <1>1, <1>2, <2>2, <2>3
<1>6. ~Ends(stream, e)
    <2> SUFFICES ASSUME Ends(stream, e) PROVE FALSE
        OBVIOUS
    <2>1. b = e /\ EndOf(i) = e
        BY <1>1, <1>2, EndIsLast, EndIs
    <2>2. Has(i, need)
        <3>1. MethodOf(i) = l
            BY <1>1, MethodIs
        <3>2. need # "none"
            BY <1>3 DEF Headers
        <3> QED
            BY <3>1, <3>2 DEF ReadOf, Bare
    <2>3. PICK q \in l + 2 .. EndOf(i) : stream[q].is = need /\ stream[q].last
        BY <1>1, <1>3, <2>2, LastHalf
    <2> QED
        BY <1>5, <2>1, <2>3
<1>7. from' = b
    <2>1. stream[b].msg = i /\ b \in Nat /\ l < b /\ e \in b .. Len(stream)
        BY <1>1, <1>2, ReadTypes
    <2>2. e <= b + 1
        BY <1>1, <1>2, <2>1, HalfALine
    <2> QED
        BY <1>1, <1>4, <2>1, <2>2, FramingAssumption, ReaderAssumption DEF Retrieve
<1>8. cseq' = i
    <2>1. CASE cseq # 0
        BY <1>4, <2>1 DEF CSeqOf, FromTo
    <2>2. CASE cseq = 0
        <3>1. a = l + 1 /\ b \in l + 1 .. Len(stream)
            BY <1>1, <1>2, <2>2 DEF FromTo
        <3> QED
            BY <1>1, <1>4, <2>2, <3>1, CSeqIsOwn
    <2> QED
        BY <2>1, <2>2
<1>9. OwnCredentials' /\ Handled' = Handled
    BY <1>4, NothingHandled DEF ReadOf
<1>10. Within(l)'
    <2>1. /\ stream' = stream /\ upto' = e /\ i \in cut'
        BY <1>6 DEF ReadOf
    <2>2. LineAt(l)' /\ Crlfs(from, upto)' = {} /\ (~Ends(stream, upto))'
        BY <1>1, <1>2, <1>6, <1>7, <2>1 DEF Crlfs, LineAt
    <2>3. from' > l /\ from' <= e /\ stream[b].last
        BY <1>1, <1>2, <1>7
    <2> QED
        BY <1>1, <1>4, <1>5, <1>7, <1>8, <2>1, <2>2, <2>3 DEF Within
<1> QED
    BY <1>4, <1>6, <1>9, <1>10 DEF LeftInStep, ReadOf

LEMMA GotAllInStep ==
    ASSUME stream \in Streams, NEW l, NEW a, NEW e, ReadOf(l, e), FromTo(l, a, e),
           GotAll(stream[l].msg, stream[l].is, a, e)
    PROVE  LeftInStep(l, e)
<1> DEFINE b == HeadersEnd(a, e)
           i == stream[l].msg
           m == stream[l].is
           r == [of |-> i, cseq |-> CSeqOf(a, b), auth |-> auth']
           n == Len(handled)
<1>1. /\ l \in Nat /\ e \in 1 .. Len(stream) /\ e \in Nat /\ a \in Nat /\ l < a /\ a <= e
      /\ LineAt(l) /\ stream[a].last /\ stream[e].msg = i /\ Crlfs(a, e) # {}
      /\ l \in 1 .. Len(stream) /\ Len(stream) \in Nat /\ i \in Nat \ {0}
      /\ e \in a .. Len(stream) /\ handled \in Seq(Record) /\ stream' = stream /\ upto' = e
    BY ReadTypes, Shape DEF ReadOf, FromTo, GotAll
<1>2. /\ handled' = Append(handled, r) /\ auth' = AuthOf(m, a, b) /\ Retrieve(b, e)
      /\ state' = "line" /\ cseq' = 0 /\ closed' = closed
    BY DEF GotAll
<1>3. /\ b \in a + 1 .. e /\ b \in Nat /\ e > a
      /\ stream[e].last => b = e
    <2>1. b \in a + 1 .. e
        BY <1>1, HeadersEndIs
    <2>2. e > a
        BY <1>1, <2>1
    <2> QED
        BY <1>1, <2>1, <2>2, HeadersEndIs
<1> HIDE DEF b
<1>4. r.of = i /\ r.auth = auth'
    OBVIOUS
<1> HIDE DEF r
<1>5. /\ n \in Nat /\ DOMAIN handled = 1 .. n /\ DOMAIN handled' = 1 .. n + 1
      /\ handled'[n + 1] = r /\ Len(handled') = n + 1 /\ handled' # handled
      /\ \A k \in 1 .. n : handled'[k] = handled[k]
    BY <1>1, <1>2
<1> HIDE DEF n
<1>6. EndOf(i) = e /\ Ends(stream, e) /\ b = e
    <2>1. ~(EndOf(i) > e)
        BY <1>4, <1>5 DEF ReadOf
    <2>2. EndOf(i) \in e .. Len(stream) /\ (Ends(stream, e) <=> EndOf(i) = e)
        BY <1>1, EndIs
    <2>3. Ends(stream, e) /\ EndOf(i) = e
        BY <1>1, <2>1, <2>2
    <2>4. stream[e].last
        BY <1>1, <2>3, EndIsLast
    <2> QED
        BY <1>1, <1>3, <2>3, <2>4
<1>7. AtRest'
    <2>1. from' = e
        BY <1>1, <1>2, <1>6, ReaderAssumption DEF Retrieve
    <2> QED
        BY <1>1, <1>2, <1>6, <2>1 DEF AtRest, Ends
<1>8. Handled \subseteq Handled' /\ i \in Handled'
    BY <1>4, <1>5 DEF Handled
<1>9. m \in {"DESCRIBE", "SETUP", "PLAY"} =>
          IF Has(i, "auth") THEN auth' = i \/ (auth' = 0 /\ i \in cut') ELSE auth' = 0
    <2> SUFFICES ASSUME m \in {"DESCRIBE", "SETUP", "PLAY"}
                 PROVE  IF Has(i, "auth") THEN auth' = i \/ (auth' = 0 /\ i \in cut')
                                          ELSE auth' = 0
        OBVIOUS
    <2> DEFINE F == Found("auth", a, b)
    <2>1. auth' = FirstOf(F)
        BY <1>2 DEF AuthOf
    <2>2. ASSUME NEW x \in F PROVE x = i /\ Has(i, "auth")
        <3>1. PICK q \in a + 2 .. b : stream[q].msg = x /\ stream[q].is = "auth"
            BY DEF Found
        <3>2. q \in l .. e
            BY <1>1, <1>6, <3>1
        <3>3. q \in 1 .. Len(stream) /\ stream[q].msg = i
            BY <3>2, ReadTypes
        <3> QED
            BY <3>1, <3>3, Shape DEF Has
    <2>3. CASE F # {}
        <3>1. F = {i} /\ Has(i, "auth")
            BY <2>2, <2>3
        <3>2. Min(F) \in F
            BY <1>1, <3>1, MinOf
        <3> QED
            BY <2>1, <2>3, <3>1, <3>2 DEF FirstOf
    <2>4. CASE F = {}
        <3>1. auth' = 0
            BY <2>1, <2>4 DEF FirstOf
        <3>2. ASSUME Has(i, "auth"), i \notin cut' PROVE FALSE
            <4>1. a = l + 1
                BY <3>2 DEF FromTo
            <4>2. PICK q \in l + 2 .. EndOf(i) : stream[q].is = "auth" /\ stream[q].last
                BY <1>1, <3>2, LastHalf DEF Headers
            <4>3. q \in a + 1 .. b
                BY <1>1, <1>6, <4>1, <4>2
            <4>4. b \in a + 1 .. Len(stream) /\ stream[b].msg = i
                BY <1>1, <1>3, <1>6
            <4>5. \A x \in a + 1 .. b : stream[x].last => stream[x].is # "auth"
                BY <1>1, <2>4, <4>4, NotFound DEF Headers
            <4> QED
                BY <4>2, <4>3, <4>5
        <3> QED
            BY <3>1, <3>2
    <2> QED
        BY <2>3, <2>4
<1>10. OwnCredentials'
    <2> DEFINE Own(t, c) == stream[MethodOf(t.of)].is \in {"DESCRIBE", "SETUP", "PLAY"} =>
                   IF Has(t.of, "auth") THEN t.auth = t.of \/ (t.auth = 0 /\ t.of \in c)
                                        ELSE t.auth = 0
    <2>1. \A k \in 1 .. n : Own(handled[k], cut)
        BY <1>5 DEF ReadOf, OwnCredentials
    <2>2. Own(r, cut')
        BY <1>1, <1>4, <1>9, MethodIs
    <2>3. \A k \in 1 .. n + 1 : Own(handled'[k], cut')
        <3>1. cut \subseteq cut'
            BY DEF ReadOf
        <3>2. \A k \in 1 .. n + 1 : k \in 1 .. n \/ k = n + 1
            BY <1>5
        <3>3. \A k \in 1 .. n : Own(handled'[k], cut')
            BY <1>5, <2>1, <3>1
        <3> QED
            BY <1>5, <2>2, <3>2, <3>3
    <2>4. \A x : (Has(x, "auth")' <=> Has(x, "auth")) /\ MethodOf(x)' = MethodOf(x)
        BY <1>1 DEF MethodOf, Has
    <2> HIDE DEF Own
    <2>5. OwnCredentials' <=> \A k \in 1 .. n + 1 : Own(handled'[k], cut')
        BY <1>1, <1>5, <2>4 DEF OwnCredentials, Own
    <2> QED
        BY <2>3, <2>5
<1> QED
    BY <1>2, <1>6, <1>7, <1>8, <1>10 DEF LeftInStep, ReadOf

LEMMA HeadersInStep ==
    ASSUME stream \in Streams, NEW l, NEW a, NEW e, ReadOf(l, e), FromTo(l, a, e),
           ParseHeadersLine(stream[l].msg, stream[l].is, a, e)
    PROVE  LeftInStep(l, e)
BY WaitsInStep, RefusedInStep, LackInStep, GotAllInStep DEF ParseHeadersLine

\* What a read of a client in step may leave, whatever it brought.
Left(e) ==
    /\ OwnCredentials' /\ Handled \subseteq Handled'
    /\ closed' => stream[e].msg \in cut' /\ CSeqIsLate(stream[e].msg)
    /\ ~closed' =>
           /\ Ends(stream, e) /\ stream[e].msg \in Requests => stream[e].msg \in Handled'
           /\ AtRest' \/ AtLine' \/ \E l \in DOMAIN stream : Within(l)'

LEMMA LeftIs ==
    ASSUME stream \in Streams, NEW l, NEW e, ReadOf(l, e), LeftInStep(l, e)
    PROVE  Left(e)
<1>1. stream[e].msg = stream[l].msg /\ l \in DOMAIN stream
    BY DEF ReadOf, LineAt
<1> QED
    BY <1>1 DEF Left, LeftInStep

LEMMA LineInStep ==
    ASSUME stream \in Streams, NEW l, NEW e, ReadOf(l, e), cseq = 0, state = "line",
           from \in Nat, from + 1 = l, l <= e, ParseRequestLine(e)
    PROVE  Left(e)
<1>1. /\ l \in 1 .. Len(stream) /\ l \in Nat /\ e \in 1 .. Len(stream) /\ e \in Nat
      /\ LineAt(l) /\ stream[l].is \in Methods /\ ~stream[l].last
      /\ stream' = stream /\ upto' = e /\ ~closed /\ stream[e].msg = stream[l].msg
    BY ReadTypes DEF ReadOf, LineAt
<1>2. /\ l + 1 \in 1 .. Len(stream) /\ stream[l + 1].msg = stream[l].msg
      /\ stream[l + 1].last /\ ~Ends(stream, l)
    BY <1>1, LineIsWhole
<1>3. CASE e = l
    <2>1. Crlfs(from, e) = {}
        BY <1>1, <1>3 DEF Crlfs
    <2>2. LineWaits(e)
        BY <2>1 DEF ParseRequestLine
    <2>3. from' = from
        BY <1>1, <1>3, <2>2, FramingAssumption, ReaderAssumption DEF LineWaits, Retrieve
    <2>4. handled' = handled /\ closed' = closed /\ state' = state /\ cseq' = cseq
        BY <2>2 DEF LineWaits, parser
    <2>5. AtLine'
        <3>1. stream[l].msg \in cut'
            BY <1>2, <1>3 DEF ReadOf
        <3> QED
            BY <1>1, <1>3, <2>3, <2>4, <3>1 DEF AtLine, LineAt
    <2>6. OwnCredentials' /\ Handled' = Handled
        BY <2>4, NothingHandled DEF ReadOf
    <2> QED
        BY <1>1, <1>2, <1>3, <2>4, <2>5, <2>6 DEF Left
<1>4. CASE e > l
    <2>1. l + 1 \in Crlfs(from, e) /\ Crlfs(from, e) \in SUBSET Nat
        BY <1>1, <1>2, <1>4 DEF Crlfs
    <2>2. \A x \in Crlfs(from, e) : x \in Nat /\ x >= l + 1
        BY <1>1 DEF Crlfs
    <2>3. Min(Crlfs(from, e)) = l + 1
        <3>1. /\ Min(Crlfs(from, e)) \in Crlfs(from, e)
              /\ \A y \in Crlfs(from, e) : Min(Crlfs(from, e)) <= y
            BY <2>1, MinOf
        <3> QED
            BY <1>1, <2>1, <2>2, <3>1
    <2>4. Outcomes(l + 1) = {"accept"}
        <3>1. stream[l].is # "blank"
            BY <1>1, Shape DEF Special
        <3>2. stream[l].last = FALSE
            BY <1>1, Shape
        <3>3. ~(l + 1 > from + 2)
            BY <1>1
        <3> QED
            BY <1>1, <3>1, <3>2, <3>3 DEF Outcomes
    <2>5. ParseHeadersLine(stream[l].msg, stream[l].is, l + 1, e)
        BY <2>1, <2>3, <2>4 DEF ParseRequestLine, LineWaits, LineSkipped, LineRefused, LineAccepted
    <2>6. FromTo(l, l + 1, e)
        BY <1>1, <1>2, <1>4 DEF FromTo
    <2> QED
        BY <2>5, <2>6, HeadersInStep, LeftIs
<1> QED
    BY <1>1, <1>3, <1>4

LEMMA WithinInStep ==
    ASSUME stream \in Streams, NEW l, NEW e, ReadOf(l, e), Within(l), from \in Nat,
           stream[upto + 1].msg = stream[e].msg, ParseMoreHeaders(e)
    PROVE  Left(e)
<1>1. FromTo(l, from, e)
    <2>1. l \in Nat /\ from \in l + 1 .. e /\ e > from
        <3>1. l \in Nat /\ e \in Nat
            BY ReadTypes
        <3>2. from > l /\ from <= upto /\ upto \in Nat /\ upto + 1 <= e
            BY <3>1, Shape DEF ReadOf, Within
        <3> QED
            BY <3>1, <3>2
    <2>2. stream[l].msg \in cut'
        BY DEF ReadOf, Within
    <2> QED
        BY <2>1, <2>2 DEF FromTo, Within
<1>2. ParseHeadersLine(stream[l].msg, stream[l].is, from, e)
    BY DEF ParseMoreHeaders, Within
<1> QED
    BY <1>1, <1>2, HeadersInStep, LeftIs

\* Every request has its line.
LEMMA LineOf ==
    ASSUME stream \in Streams, NEW i \in Requests
    PROVE  \E l \in DOMAIN stream : LineAt(l) /\ stream[l].msg = i
<1>1. PICK p \in 1 .. Len(stream) : stream[p].is \in Methods /\ stream[p].msg = i
    BY Shape DEF Requests
<1>2. CASE ~stream[p].last
    BY <1>1, <1>2, Shape DEF LineAt
<1>3. CASE stream[p].last
    <2>1. /\ p - 1 \in 1 .. Len(stream) /\ ~stream[p - 1].last
          /\ stream[p - 1].is = stream[p].is /\ stream[p - 1].msg = stream[p].msg
        BY <1>1, <1>3, PieceShape
    <2> QED
        BY <1>1, <2>1, Shape DEF LineAt
<1> QED
    BY <1>1, <1>2, <1>3, Shape

LEMMA PacketInStep ==
    ASSUME stream \in Streams, AtRest, from \in Nat, ~closed, OwnCredentials,
           NEW e \in upto + 1 .. Len(stream), stream[upto + 1].msg = stream[e].msg,
           stream' = stream, upto' = e, cut \subseteq cut', cut' \subseteq Requests,
           ~Ends(stream, e) => stream[e].msg \in cut', ReadPacket(e)
    PROVE  Left(e)
<1>1. /\ from = upto /\ Len(stream) \in Nat /\ e \in 1 .. Len(stream) /\ e \in Nat
      /\ from + 1 \in 1 .. Len(stream)
      /\ stream[from + 1].is \in {"packet", "wide"}
    BY Shape DEF AtRest, ReadPacket
<1>2. stream[e].msg \notin Requests
    <2> SUFFICES ASSUME stream[e].msg \in Requests PROVE FALSE
        OBVIOUS
    <2>1. PICK l \in DOMAIN stream : LineAt(l) /\ stream[l].msg = stream[e].msg
        BY LineOf
    <2>2. stream[from + 1].is \in Methods \cup Headers \cup {"blank"}
        BY <1>1, <2>1, RequestPiece
    <2> QED
        BY <1>1, <2>2, Shape DEF Special
<1>3. Ends(stream, e)
    BY <1>2
<1>4. e = from + 3
    <2> DEFINE c == from + 1
    <2>1. c + 2 \in 1 .. Len(stream) /\ stream[c + 2].msg = stream[c].msg /\ Ends(stream, c + 2)
        <3>1. Framed(stream) /\ c \in DOMAIN stream /\ stream[c].is \in {"packet", "wide"}
            BY <1>1, Shape
        <3> HIDE DEF c
        <3>2. c + 2 \in DOMAIN stream /\ stream[c + 2].msg = stream[c].msg /\ Ends(stream, c + 2)
            BY ONLY <3>1, Zenon DEF Framed
        <3> QED
            BY <3>2, Shape
    <2>2. EndOf(stream[e].msg) = c + 2
        BY <1>1, <2>1, EndIs
    <2>3. EndOf(stream[e].msg) = e
        BY <1>1, <1>3, EndIs
    <2> QED
        BY <1>1, <2>2, <2>3
<1>5. from' = e
    <2>1. Rtcp(e) = e
        BY <1>1, <1>4 DEF Rtcp
    <2> QED
        BY <1>1, <2>1, ReaderAssumption DEF ReadPacket, Retrieve
<1>6. AtRest'
    BY <1>3, <1>5 DEF AtRest, Ends, ReadPacket
<1>7. OwnCredentials' /\ Handled' = Handled
    BY NothingHandled DEF ReadPacket
<1> QED
    BY <1>2, <1>6, <1>7 DEF Left, ReadPacket

\* A read that leaves the client in step: what it brought, and what was before.
LEMMA ReadInStep ==
    ASSUME IInv, StepInv, NEW e \in upto + 1 .. Len(stream), Read(e), InStep'
    PROVE  /\ OwnCredentials /\ cut \subseteq cut'
           /\ upto > 0 => AllServed
           /\ AtRest \/ AtLine \/ \E l \in DOMAIN stream : Within(l)
           /\ stream[upto + 1].msg = stream[e].msg
           /\ ~(handled' # handled /\ EndOf(handled'[Len(handled')].of) > e)
           /\ ~Ends(stream, e) => stream[e].msg \in cut'
           /\ cut' \subseteq Requests
           /\ \A i \in Requests : i <= stream[e].msg => ~Bare(i)
<1>1. /\ stream \in Streams /\ upto \in Nat /\ Len(stream) \in Nat /\ e \in 1 .. Len(stream)
      /\ e \in Nat /\ upto <= e /\ upto \in 0 .. Len(stream)
    BY Shape DEF IInv, TypeOK
<1>2. /\ stream' = stream /\ upto' = e /\ ~closed /\ ~spilt'
    BY DEF Read, InStep
<1>3. /\ ~spilt /\ stream[upto + 1].msg = stream[e].msg
      /\ ~(handled' # handled /\ EndOf(handled'[Len(handled')].of) > e)
    BY <1>2 DEF Read, IInv, TypeOK
<1>4. cut \subseteq cut' /\ (~Ends(stream, e) => stream[e].msg \in cut')
    BY <1>1 DEF Read, Ends
<1>5. /\ cut' \subseteq Requests
      /\ \A i \in Requests : i <= stream[e].msg => ~Bare(i)
    <2>1. Requests' = Requests /\ \A i : Bare(i)' <=> Bare(i)
        BY <1>2 DEF Requests, Bare, Has, MethodOf
    <2>2. /\ cut' \subseteq Requests'
          /\ \A i \in Requests' : i <= stream'[upto'].msg => Bare(i)' = FALSE
        BY DEF InStep
    <2> QED
        BY <1>2, <2>1, <2>2
<1>6. upto > 0 => InStep
    <2> SUFFICES ASSUME upto > 0 PROVE InStep
        OBVIOUS
    <2>1. upto \in 1 .. Len(stream) /\ stream[upto].msg <= stream[e].msg
        BY <1>1, Shape
    <2>2. \A i \in Requests : i \in Nat
        BY Shape, <1>1 DEF Requests
    <2>3. stream[upto].msg \in Nat /\ stream[e].msg \in Nat
        BY <1>1, <2>1, Shape
    <2>4. \A i \in Requests : i <= stream[upto].msg => ~Bare(i)
        BY <1>5, <2>1, <2>2, <2>3
    <2> QED
        BY <1>3, <1>4, <1>5, <2>4 DEF InStep
<1>7. upto = 0 => OwnCredentials
    <2> SUFFICES ASSUME upto = 0 PROVE DOMAIN handled = {}
        BY DEF OwnCredentials
    <2>1. from = 0
        BY DEF IInv, TypeOK
    <2> QED
        BY <2>1 DEF IInv, HandledInv
<1> QED
    BY <1>1, <1>2, <1>3, <1>4, <1>5, <1>6, <1>7 DEF StepInv

LEMMA ReadLeaves ==
    ASSUME IInv, StepInv, NEW e \in upto + 1 .. Len(stream), Read(e), InStep'
    PROVE  Left(e)
<1>1. /\ stream \in Streams /\ upto \in Nat /\ Len(stream) \in Nat /\ e \in 1 .. Len(stream)
      /\ e \in Nat /\ upto + 1 <= e /\ from \in Nat /\ upto + 1 \in 1 .. Len(stream)
      /\ upto \in 0 .. Len(stream) /\ handled \in Seq(Record)
    BY Shape DEF IInv, TypeOK, Record
<1>2. /\ stream' = stream /\ upto' = e /\ ~closed
      /\ ReadPacket(e) \/ ParseRequestLine(e) \/ ParseMoreHeaders(e)
    BY DEF Read
<1>3. /\ OwnCredentials /\ cut \subseteq cut'
      /\ AtRest \/ AtLine \/ \E l \in DOMAIN stream : Within(l)
      /\ stream[upto + 1].msg = stream[e].msg
      /\ ~(handled' # handled /\ EndOf(handled'[Len(handled')].of) > e)
      /\ ~Ends(stream, e) => stream[e].msg \in cut'
      /\ cut' \subseteq Requests
      /\ \A i \in Requests : i <= stream[e].msg => ~Bare(i)
    BY ReadInStep
<1>4. ASSUME NEW l, LineAt(l), stream[l].msg = stream[e].msg PROVE ReadOf(l, e)
    <2>1. stream[e].msg \in Requests /\ stream[e].msg <= stream[e].msg
        BY <1>1, <1>4, Shape DEF LineAt, Requests
    <2>2. ~Bare(stream[l].msg)
        BY <1>3, <1>4, <2>1
    <2> QED
        BY <1>1, <1>2, <1>3, <1>4, <2>2 DEF ReadOf
<1>5. CASE AtRest
    <2> DEFINE c == upto + 1
    <2>1. Opens(stream, c)
        BY <1>1, <1>5 DEF AtRest, Ends, Opens
    <2>2. stream[c].is \in {"packet", "wide"} \/ LineAt(c)
        <3>1. Framed(stream) /\ c \in DOMAIN stream
            BY <1>1, Shape
        <3> HIDE DEF c
        <3>2. stream[c].is \in {"packet", "wide"} \/ (stream[c].is \in Methods /\ ~stream[c].last)
            BY ONLY <2>1, <3>1, Zenon DEF Framed
        <3> QED
            BY <3>1, <3>2 DEF LineAt
    <2>3. CASE stream[c].is \in {"packet", "wide"}
        <3>1. ReadPacket(e)
            BY <1>2, <1>5, <2>3 DEF AtRest, ParseRequestLine, ParseMoreHeaders
        <3> QED
            BY <1>1, <1>2, <1>3, <1>5, <3>1, PacketInStep
    <2>4. CASE LineAt(c)
        <3>1. stream[c].is \notin {"packet", "wide"}
            BY <1>1, <2>4, Shape DEF LineAt, Special
        <3>2. ParseRequestLine(e)
            BY <1>2, <1>5, <3>1 DEF AtRest, ReadPacket, ParseMoreHeaders
        <3>3. ReadOf(c, e)
            BY <1>3, <1>4, <2>4
        <3>4. from + 1 = c /\ c <= e /\ cseq = 0 /\ state = "line"
            BY <1>1, <1>5 DEF AtRest
        <3> QED
            BY <1>1, <3>2, <3>3, <3>4, LineInStep
    <2> QED
        BY <2>2, <2>3, <2>4
<1>6. CASE AtLine
    <2>1. LineAt(upto) /\ from + 1 = upto /\ cseq = 0 /\ state = "line" /\ upto <= e
        BY <1>1, <1>6 DEF AtLine
    <2>2. stream[upto].msg = stream[e].msg
        BY <1>1, <1>3, <2>1, LineIsWhole
    <2>3. ReadOf(upto, e)
        BY <1>4, <2>1, <2>2
    <2>4. stream[upto].is \notin {"packet", "wide"}
        BY <1>1, <2>1, Shape DEF LineAt, Special
    <2>5. ParseRequestLine(e)
        BY <1>2, <2>1, <2>4 DEF ReadPacket, ParseMoreHeaders
    <2> QED
        BY <1>1, <2>1, <2>3, <2>5, LineInStep
<1>7. ASSUME NEW l \in DOMAIN stream, Within(l) PROVE Left(e)
    <2>1. /\ LineAt(l) /\ stream[upto].msg = stream[l].msg /\ state = "headers"
          /\ from > l /\ from <= upto /\ ~Ends(stream, upto) /\ l \in 1 .. Len(stream)
        BY <1>1, <1>7, Shape DEF Within
    <2>2. upto \in 1 .. Len(stream) /\ l \in Nat /\ upto < Len(stream)
        BY <1>1, <2>1
    <2>3. stream[upto + 1].msg = stream[l].msg
        BY <1>1, <2>1, <2>2 DEF Ends
    <2>4. ReadOf(l, e)
        BY <1>3, <1>4, <2>1, <2>3
    <2>5. stream[from + 1].is \notin {"packet", "wide"}
        <3>1. from + 1 \in l .. e
            BY <1>1, <2>1, <2>2
        <3>2. from + 1 \in 1 .. Len(stream) /\ stream[from + 1].msg = stream[l].msg
            BY <1>1, <2>4, <3>1, ReadTypes
        <3> QED
            BY <1>1, <2>1, <3>2, RequestPiece, Shape DEF Special
    <2>6. ParseMoreHeaders(e)
        BY <1>2, <2>1, <2>5 DEF ReadPacket, ParseRequestLine
    <2> QED
        BY <1>1, <1>3, <1>7, <2>4, <2>6, WithinInStep
<1> QED
    BY <1>3, <1>5, <1>6, <1>7

LEMMA StepInvKept ==
    ASSUME IInv, StepInv, [Next]_vars
    PROVE  StepInv'
<1>1. CASE UNCHANGED vars
    <2>1. UNCHANGED <<stream, upto, from, state, method, of, cseq, handled, closed, cut, spilt>>
        BY <1>1 DEF vars, parser
    <2>2. InStep' <=> InStep
        BY <2>1 DEF InStep, Requests, Bare, Has, MethodOf
    <2>3. AllServed' <=> AllServed
        BY <2>1 DEF AllServed, Requests, Handled, EndOf, CSeqIsLate, MethodOf
    <2>4. OwnCredentials' <=> OwnCredentials
        BY <2>1 DEF OwnCredentials, Has, MethodOf
    <2>5. (AtRest' <=> AtRest) /\ (AtLine' <=> AtLine)
        BY <2>1 DEF AtRest, AtLine, Ends, LineAt
    <2>6. \A l : Within(l)' <=> Within(l)
        BY <2>1 DEF Within, LineAt, Ends, Crlfs
    <2> QED
        BY <2>1, <2>2, <2>3, <2>4, <2>5, <2>6 DEF StepInv
<1>2. ASSUME NEW e \in upto + 1 .. Len(stream), Read(e) PROVE StepInv'
    <2>1. /\ stream \in Streams /\ upto \in Nat /\ Len(stream) \in Nat /\ e \in Nat
          /\ e \in 1 .. Len(stream) /\ upto + 1 \in 1 .. Len(stream) /\ upto + 1 <= e
        BY Shape DEF IInv, TypeOK
    <2>2. stream' = stream /\ upto' = e /\ ~closed
        BY <1>2 DEF Read
    <2> SUFFICES ASSUME InStep'
                 PROVE  /\ AllServed' /\ OwnCredentials'
                        /\ \/ closed' \/ AtRest' \/ AtLine'
                           \/ \E l \in DOMAIN stream : Within(l)'
        <3>1. ~(upto' = 0)
            BY <2>1, <2>2
        <3> QED
            BY <2>2, <3>1 DEF StepInv
    <2>3. Left(e)
        BY <1>2, ReadLeaves
    <2>4. /\ upto > 0 => AllServed
          /\ stream[upto + 1].msg = stream[e].msg
          /\ ~Ends(stream, e) => stream[e].msg \in cut'
        BY <1>2, ReadInStep
    <2>5. CASE closed'
        <3>1. \E i \in cut' : CSeqIsLate(i)
            BY <2>3, <2>5 DEF Left
        <3>2. \A i : CSeqIsLate(i)' <=> CSeqIsLate(i)
            BY <2>2 DEF CSeqIsLate, MethodOf
        <3> QED
            BY <2>3, <2>5, <3>1, <3>2 DEF Left, AllServed
    <2>6. CASE ~closed'
        <3>1. ASSUME NEW i \in Requests, EndOf(i) <= e PROVE i \in Handled'
            <4>1. PICK l \in 1 .. Len(stream) : stream[l].msg = i
                BY <2>1, LineOf, Shape
            <4>2. EndOf(i) \in 1 .. Len(stream) /\ stream[EndOf(i)].msg = i
                BY <2>1, <4>1, EndIs
            <4>3. CASE EndOf(i) <= upto
                <5>1. upto > 0 /\ i \in Handled
                    BY <2>1, <2>2, <2>4, <4>2, <4>3 DEF AllServed
                <5> QED
                    BY <2>3, <5>1 DEF Left
            <4>4. CASE EndOf(i) > upto
                <5>1. stream[upto + 1].msg <= i /\ i <= stream[e].msg
                    BY <2>1, <3>1, <4>2, <4>4, Shape
                <5>2. i = stream[e].msg
                    BY <2>1, <2>4, <4>2, <5>1, Shape
                <5>3. e <= EndOf(i) /\ (Ends(stream, e) <=> EndOf(i) = e)
                    BY <2>1, <4>2, <5>2, EndIs
                <5>4. Ends(stream, e)
                    BY <2>1, <3>1, <4>2, <5>3
                <5> QED
                    BY <2>3, <2>6, <5>2, <5>4 DEF Left
            <4> QED
                BY <2>1, <4>2, <4>3, <4>4
        <3>2. Requests' = Requests /\ \A i : EndOf(i)' = EndOf(i)
            BY <2>2 DEF Requests, EndOf
        <3> QED
            BY <2>2, <2>3, <2>6, <3>1, <3>2 DEF Left, AllServed
    <2> QED
        BY <2>5, <2>6
<1> QED
    BY <1>1, <1>2 DEF Next

\* ServedInStep: a client whose messages come one after the other, in any number
\* of pieces each, is served: OnRead and ParseRequest hand on every request as
\* soon as its blank line is read, with its own credentials, and close the
\* connection only over a CSeq behind another header and a read that ended
\* between the two.
THEOREM ServedOneByOne == Spec => []ServedInStep
<1>1. Init => StepInv
    BY DEF Init, StepInv, AtRest
<1>2. StepInv => ServedInStep
    BY DEF StepInv, ServedInStep
<1> QED
    BY <1>1, <1>2, StepInvKept, Invariance, PTL DEF Spec
=============================================================================
