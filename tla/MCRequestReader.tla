--------------------------- MODULE MCRequestReader ---------------------------
(* Streams of three messages, each any of the kinds below.                   *)
EXTENDS RequestReader, SequencesExt

Three == 1 .. 3
ServerMethods == {"OPTIONS", "DESCRIBE", "SETUP", "PLAY"}
NeedsOf(m) == CASE m = "DESCRIBE" -> "accept"
                [] m = "SETUP"    -> "transport"
                [] m = "PLAY"     -> "session"
                [] OTHER          -> "none"

Request(m, headers) == <<m>> \o headers \o <<"blank">>
Kinds == { Request("OPTIONS",  <<"cseq", "text">>),
           Request("OPTIONS",  <<"cseq", "words">>),
           Request("DESCRIBE", <<"cseq", "auth", "accept">>),
           Request("DESCRIBE", <<"cseq", "words">>),
           Request("SETUP",    <<"transport", "cseq", "auth">>),
           Request("PLAY",     <<"cseq", "session", "words">>),
           <<"packet">>, <<"wide">> }

PiecesOf(i, line) ==
    LET piece(is, last) == [msg |-> i, is |-> is, last |-> last] IN
    CASE line = "blank" -> <<piece(line, TRUE)>>
      [] line \in {"packet", "wide"} ->
             <<piece(line, FALSE), piece("payload", FALSE), piece("payload", FALSE)>>
      [] OTHER -> <<piece(line, FALSE), piece(line, TRUE)>>

StreamOf(script) ==
    FlattenSeq([i \in Three |->
        FlattenSeq([j \in DOMAIN script[i] |-> PiecesOf(i, script[i][j])])])

ThreeMessages == {StreamOf(script) : script \in [Three -> Kinds]}
=============================================================================
