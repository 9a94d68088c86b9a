---------------------------- MODULE RequestReader ----------------------------
(***************************************************************************)
(* How RtspConnection::OnRead cuts requests out of what TCP delivers:      *)
(* BufferReader, RtspRequest::ParseRequest with its state between two      *)
(* reads, and HandleRtspRequest, up to the call of the request's handler.  *)
(*                                                                         *)
(* The client's bytes are a sequence of pieces and a read brings any       *)
(* number of them.  A request is its request line, its headers and a blank *)
(* line; each line but the blank one is two pieces, of which the second    *)
(* ends with CRLF.  An interleaved RTCP packet is three: the four bytes    *)
(* with '$' and the size, and two halves of its payload.  Every request    *)
(* has a CSeq, and what a handler answers is not modelled here.            *)
(***************************************************************************)
EXTENDS Integers, Sequences, FiniteSets, FiniteSetsExt

CONSTANTS Streams,    \* what clients send: sequences of pieces
          Messages,   \* the numbers of the requests and packets in them
          Methods,    \* the methods that ParseRequestLine knows
          Needs(_),   \* the header a method waits for, or "none"
          MaxMessage  \* MAX_RTSP_MESSAGE_SIZE, in pieces

\* The pieces: of which message, of which line, and whether it ends the line.
\* A request line is named by its method, any header of less than three words
\* that is not looked for "words", others "text"; a packet whose size has a
\* low byte of 128 or more begins with "wide".
Headers == {"cseq", "accept", "transport", "session", "auth", "words", "text"}
Pieces  == [msg  : Messages,
            is   : Methods \cup Headers \cup {"blank", "packet", "wide", "payload"},
            last : BOOLEAN]

\* A client's messages come one after the other.  A request begins with its
\* line and has a CSeq behind it, and none of its lines is as long as what the
\* buffer may keep.
WellFormed(s) ==
    /\ \A p, q \in DOMAIN s : p <= q => s[p].msg <= s[q].msg
    /\ \A p \in DOMAIN s : s[p].is \in Methods /\ ~s[p].last =>
           /\ \A q \in 1 .. p - 1 : s[q].msg < s[p].msg
           /\ p + 2 \in DOMAIN s /\ s[p + 2].is \notin {"packet", "wide"}
           /\ \E q \in p + 3 .. Len(s) : /\ s[q].msg = s[p].msg
                                         /\ s[q].is = "cseq" /\ s[q].last
           /\ \E q \in p + 2 .. p + 1 + MaxMessage : q <= Len(s) /\ s[q].last

ASSUME ReaderAssumption ==
    /\ Messages \subseteq Nat \ {0}
    /\ Methods \cap (Headers \cup {"blank", "packet", "wide", "payload", "RTCP", "NONE"})
           = {}
    /\ Streams \subseteq Seq(Pieces)
    /\ \A s \in Streams : WellFormed(s)
    /\ MaxMessage \in Nat

Opens(s, p) == p = 1 \/ s[p - 1].msg # s[p].msg
Ends(s, p)  == p = Len(s) \/ s[p + 1].msg # s[p].msg

\* All messages are whole: a request has a blank line at its end and two pieces
\* for each other line, a packet has two pieces of payload.
Framed(s) == \A p \in DOMAIN s :
    /\ Opens(s, p) <=> s[p].is \in {"packet", "wide"} \/ (s[p].is \in Methods /\ ~s[p].last)
    /\ Ends(s, p) => s[p].is \in {"blank", "payload"}
    /\ s[p].is = "blank" => s[p].last /\ Ends(s, p)
    /\ s[p].is \in {"packet", "wide"} =>
           p + 2 \in DOMAIN s /\ s[p + 2].msg = s[p].msg /\ Ends(s, p + 2)
    /\ s[p].is = "payload" =>
           \E q \in 1 .. p : s[q].is \in {"packet", "wide"} /\ s[q].msg = s[p].msg
    /\ s[p].is \in Methods \cup Headers =>
           IF s[p].last THEN p - 1 \in DOMAIN s /\ s[p - 1] = [s[p] EXCEPT !.last = FALSE]
                        ELSE p + 1 \in DOMAIN s /\ s[p + 1] = [s[p] EXCEPT !.last = TRUE]

ASSUME FramingAssumption ==
    /\ \A s \in Streams : Framed(s)
    /\ \A m \in Methods : Needs(m) \in Headers \cup {"none"}
    /\ MaxMessage >= 1

VARIABLES
    stream,  \* what this client sends
    waits,   \* whether it sends a request only after the one before is handled
    upto,    \* how much of it was read
    from,    \* how much of it was retrieved: the rest up to upto is in the buffer
    state,   \* state_: "line" (kParseRequestLine) or "headers"
    method,  \* method_
    of,      \* request_line_param_: the message of the request line, or 0
    cseq,    \* header_line_param_'s "cseq": whose it is, or 0
    auth,    \* auth_response_: whose it is, or 0
    handled, \* the requests handed to their handlers
    closed,  \* OnRead has answered false
    cut,     \* history: the messages inside which a read ended
    spilt    \* history: a read brought more than one message, or a request was
             \* handled before all of it had come

parser  == <<state, method, of, cseq, auth>>
vars == <<stream, waits, upto, from, parser, handled, closed, cut, spilt>>

Init == /\ stream \in Streams /\ waits \in BOOLEAN
        /\ upto = 0 /\ from = 0
        /\ state = "line" /\ method = "NONE" /\ of = 0 /\ cseq = 0 /\ auth = 0
        /\ handled = <<>> /\ closed = FALSE
        /\ cut = {} /\ spilt = FALSE

Requests == {stream[p].msg : p \in {p \in DOMAIN stream : stream[p].is \in Methods}}
Handled  == {handled[k].of : k \in DOMAIN handled}
EndOf(i) == Max({p \in DOMAIN stream : stream[p].msg = i})

\* What is in the buffer when a read has ended at e is from + 1 .. e.
Crlfs(a, e) == {p \in a + 1 .. e : stream[p].last}

\* The messages of the whole header lines h in a + 1 .. b.
Found(h, a, b) == {stream[p].msg : p \in {p \in a + 2 .. b : stream[p].is = h
                                                             /\ stream[p].last}}

\* find answers the first.
FirstOf(s) == IF s = {} THEN 0 ELSE Min(s)

-----------------------------------------------------------------------------
(* One read event: recv up to e, then OnRead.                              *)

\* Mutant: Retrieve does not look at what is readable.
Rtcp_Unchecked(e) ==
    IF e - from > 1 THEN from + 3 ELSE from

\* HandleRtcp retrieves the packet only if nothing is behind it.  If it has
\* not come whole, or its size is taken for a negative number, that clears the
\* buffer.
Rtcp(e) ==
    IF e - from > 1 /\ (stream[from + 1].is = "wide" \/ e - from <= 3) THEN e
                                                                       ELSE from

\* What is left after the retrieval up to b is dropped if it is too much.
Retrieve(b, e) == from' = IF e - b > MaxMessage THEN e ELSE b

ReadPacket(e) ==
    /\ stream[from + 1].is \in {"packet", "wide"}
    /\ method' = "RTCP"
    /\ Retrieve(Rtcp(e), e)
    /\ UNCHANGED <<state, of, cseq, auth, handled, closed>>

\* The line in from + 1 .. p as ParseRequestLine takes it: less than three
\* words are skipped; a method or url it does not know closes the connection.
\* What is left of a line, or a line behind left-over payload, may be either.
Outcomes(p) ==
    LET is == stream[from + 1].is IN
    IF stream[from + 1].last # (is = "blank") \/ p > from + 2
    THEN {"skip", "refuse"}
    ELSE {IF is \in Methods THEN "accept" ELSE IF is = "text" THEN "refuse" ELSE "skip"}

\* Mutant: the CSeq found last replaces the one before.
CSeqOf_Last(a, b) == IF Found("cseq", a, b) = {} THEN cseq ELSE Max(Found("cseq", a, b))

\* emplace keeps the CSeq there is.
CSeqOf(a, b) == IF cseq # 0 THEN cseq ELSE FirstOf(Found("cseq", a, b))

\* ParseAuthorization forgets what it does not find.
AuthOf(m, a, b) ==
    IF m \in {"DESCRIBE", "SETUP", "PLAY"} THEN FirstOf(Found("auth", a, b)) ELSE auth

\* Mutant: the header lines are taken up to the first CRLF.
HeadersEnd_First(a, e) == Min(Crlfs(a, e))

\* They are taken up to the last one, the lines of later messages included.
HeadersEnd(a, e) == Max(Crlfs(a, e))

\* What is behind a is the headers of request i, of method m: there is no
\* whole line yet,
HeadersWait(i, m, a, e) ==
    /\ Crlfs(a, e) = {}
    /\ state' = "headers" /\ of' = i /\ method' = m
    /\ Retrieve(a, e)
    /\ UNCHANGED <<cseq, auth, handled, closed>>

\* or lines and no CSeq, which closes the connection,
HeadersRefused(i, m, a, e) ==
    /\ Crlfs(a, e) # {} /\ CSeqOf(a, HeadersEnd(a, e)) = 0
    /\ closed' = TRUE
    /\ state' = "headers" /\ of' = i /\ method' = m
    /\ from' = HeadersEnd(a, e)
    /\ UNCHANGED <<cseq, auth, handled>>

\* The lines up to b are all that the method asks for; for RTCP, which a packet
\* may have made of it, nothing is.
Enough(m, a, b) == /\ m # "RTCP"
                   /\ Needs(m) = "none" \/ Found(Needs(m), a, b) # {}

\* or they are not enough, and are taken out of the buffer all the same,
HeadersLack(i, m, a, e) ==
    LET b == HeadersEnd(a, e) IN
    /\ Crlfs(a, e) # {} /\ CSeqOf(a, b) # 0 /\ ~Enough(m, a, b)
    /\ state' = "headers" /\ of' = i /\ method' = m
    /\ cseq' = CSeqOf(a, b)
    /\ auth' = AuthOf(m, a, b)
    /\ Retrieve(b, e)
    /\ UNCHANGED <<handled, closed>>

\* or the handler is called, and Reset.
GotAll(i, m, a, e) ==
    LET b == HeadersEnd(a, e) IN
    /\ Crlfs(a, e) # {} /\ CSeqOf(a, b) # 0 /\ Enough(m, a, b)
    /\ auth' = AuthOf(m, a, b)
    /\ handled' = Append(handled, [of |-> i, cseq |-> CSeqOf(a, b), auth |-> auth'])
    /\ state' = "line" /\ of' = 0 /\ cseq' = 0 /\ method' = m
    /\ Retrieve(b, e)
    /\ UNCHANGED closed

ParseHeadersLine(i, m, a, e) ==
    \/ HeadersWait(i, m, a, e) \/ HeadersRefused(i, m, a, e)
    \/ HeadersLack(i, m, a, e) \/ GotAll(i, m, a, e)

\* The request line: not there yet,
LineWaits(e) ==
    /\ Crlfs(from, e) = {}
    /\ Retrieve(from, e)
    /\ UNCHANGED <<parser, handled, closed>>

\* or up to p no request line; what is behind it waits for the next read,
LineSkipped(p, e) ==
    /\ "skip" \in Outcomes(p)
    /\ Retrieve(p, e)
    /\ UNCHANGED <<parser, handled, closed>>

\* or one that closes the connection,
LineRefused(p) ==
    /\ "refuse" \in Outcomes(p)
    /\ closed' = TRUE /\ method' = "NONE" /\ from' = p
    /\ UNCHANGED <<state, of, cseq, auth, handled>>

\* or one that is accepted, and the headers follow.
LineAccepted(p, e) ==
    /\ "accept" \in Outcomes(p)
    /\ ParseHeadersLine(stream[from + 1].msg, stream[from + 1].is, p, e)

ParseRequestLine(e) ==
    /\ state = "line" /\ stream[from + 1].is \notin {"packet", "wide"}
    /\ \/ LineWaits(e)
       \/ /\ Crlfs(from, e) # {}
          /\ LET p == Min(Crlfs(from, e)) IN
             LineSkipped(p, e) \/ LineRefused(p) \/ LineAccepted(p, e)

\* In the middle of a request.
ParseMoreHeaders(e) ==
    /\ state = "headers" /\ stream[from + 1].is \notin {"packet", "wide"}
    /\ ParseHeadersLine(of, method, from, e)

\* A client that waits sends nothing behind a request that is not handled.
Sent(p) == waits => \A i \in Requests : i < stream[p].msg => i \in Handled

Read(e) ==
    /\ ~closed
    /\ \A p \in upto + 1 .. e : Sent(p)
    /\ upto' = e
    /\ ReadPacket(e) \/ ParseRequestLine(e) \/ ParseMoreHeaders(e)
    /\ cut' = IF e < Len(stream) /\ stream[e + 1].msg = stream[e].msg
              THEN cut \cup {stream[e].msg} ELSE cut
    /\ spilt' = (\/ spilt
                 \/ stream[upto + 1].msg # stream[e].msg
                 \/ handled' # handled /\ EndOf(handled'[Len(handled')].of) > e)
    /\ UNCHANGED <<stream, waits>>

Next == \E e \in upto + 1 .. Len(stream) : Read(e)

Spec == Init /\ [][Next]_vars

-----------------------------------------------------------------------------
TypeOK ==
    /\ waits \in BOOLEAN
    /\ upto \in 0 .. Len(stream) /\ from \in 0 .. upto
    /\ state \in {"line", "headers"}
    /\ method \in Methods \cup {"RTCP", "NONE"}
    /\ {of, cseq, auth} \subseteq Messages \cup {0}
    /\ handled \in Seq([of : Messages, cseq : Messages, auth : Messages \cup {0}])
    /\ closed \in BOOLEAN
    /\ cut \subseteq Messages /\ spilt \in BOOLEAN

\* However the bytes arrive: what a handler is called with, and answers to, is
\* the method and url of one request with the CSeq of the same one; no request
\* is handled twice or before an earlier one.
AnswersMatch ==
    /\ \A k \in DOMAIN handled : handled[k].cseq = handled[k].of
    /\ \A j, k \in DOMAIN handled : j < k => handled[j].of < handled[k].of

Has(i, h) == \E p \in DOMAIN stream : stream[p].msg = i /\ stream[p].is = h
MethodOf(i) == CHOOSE p \in DOMAIN stream :
                   stream[p].msg = i /\ stream[p].is \in Methods /\ ~stream[p].last
Bare(i) == LET need == Needs(stream[MethodOf(i)].is)
           IN need # "none" /\ ~Has(i, need)
\* Another header comes before the CSeq.
CSeqIsLate(i) == \E p \in DOMAIN stream : /\ stream[p].msg = i /\ stream[p].is = "cseq"
                                          /\ ~stream[p].last /\ p > MethodOf(i) + 2

\* One message at a time: every read so far brought bytes of one message only,
\* none was answered early, and no packet or request was one that the parser
\* cannot finish.
InStep == /\ ~spilt
          /\ cut \subseteq Requests
          /\ \A i \in Requests : i <= stream[upto].msg => ~Bare(i)

\* Every request is handled as soon as it has come; the connection is closed
\* only if a read ended between a header and the CSeq behind it.
AllServed ==
    IF closed THEN \E i \in cut : CSeqIsLate(i)
    ELSE \A i \in Requests : EndOf(i) <= upto => i \in Handled

\* Requests are handled with the credentials that they carry and no other's,
\* except that those of a request whose reads ended inside it may be forgotten.
OwnCredentials ==
    \A k \in DOMAIN handled :
        LET r == handled[k]
            checked == stream[MethodOf(r.of)].is \in {"DESCRIBE", "SETUP", "PLAY"}
        IN checked => IF Has(r.of, "auth")
                      THEN r.auth = r.of \/ (r.auth = 0 /\ r.of \in cut)
                      ELSE r.auth = 0

\* A client whose messages come one after the other, in however many pieces,
\* and are not answered early, is served.  (What comes after a request that was
\* handled early, or together with another message, may be lost, wait, or
\* close the connection: ParseRequest takes the lines of later messages for
\* headers, and OnRead handles one request.)
ServedInStep == upto > 0 /\ InStep => AllServed /\ OwnCredentials
=============================================================================
