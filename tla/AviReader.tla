------------------------------ MODULE AviReader ------------------------------
(***************************************************************************)
(* avilib::AviReader on a file that AviWriter has finished.  open walks    *)
(* through the chunks and collects the indexes; read_frame looks a frame   *)
(* up and tries three meanings of its offset one after the other: the      *)
(* chunk's position, the same relative to the first "movi", and the        *)
(* position of the data.  It knows the first two by the tag they lead to.  *)
(*                                                                         *)
(* What the payload of a chunk or the fields of the header look like is    *)
(* not modelled: a tag is one the writer put there as such.                *)
(***************************************************************************)
EXTENDS AviWriter

VARIABLES
    opened,   \* "no", "yes", or "lost" when the header is damaged
    frames,   \* frames[s]: m_frameIdxs[s], offset and length of each
    use_movi, \* m_useMovieOffset
    failed,   \* failbit of _f
    got       \* what read_frame answered last: which frame was asked for,
              \* from which position how many bytes were read

readVars == <<opened, frames, use_movi, failed, got>>
vars == <<writeVars, readVars>>

Nothing == [stream |-> 0, frame |-> 0, from |-> 0, bytes |-> 0]

Init == /\ WriterInit
        /\ opened = "no"
        /\ frames = [s \in Streams |-> <<>>]
        /\ use_movi = FALSE
        /\ failed = FALSE
        /\ got = Nothing

-----------------------------------------------------------------------------
(* open.                                                                   *)

\* close wrote more entries than the header has room for, over what follows.
Damaged == \E s \in streams : Cardinality(Written(s)) > indexes

\* The last bit of an entry's dwSize is a flag there, which open masks.
SizeFlag == Dword \div 2

\* The OpenDML index of a stream: offsets are relative to the index's base.
DmlFrames(s) ==
    [k \in DOMAIN entries[s] |->
        [offset |-> bases[s][entries[s][k].index] + entries[s][k].offset,
         len |-> entries[s][k].len % SizeFlag]]

\* The position of the k-th of stream s in a list of chunks or entries.
NthOf(seq, s, k) ==
    CHOOSE c \in PositionsOf(seq, s) :
        Cardinality({d \in PositionsOf(seq, s) : d <= c}) = k

\* "idx1", where the first two characters of a tag are the stream.
OldFrames(s) ==
    [k \in 1 .. Cardinality(PositionsOf(old, s)) |->
        LET e == old[NthOf(old, s, k)] IN [offset |-> e.offset, len |-> e.len]]

\* The OpenDML index replaces the old one if it has any entry.
FramesFound(s) ==
    IF \E t \in streams : Written(t) # {} THEN DmlFrames(s) ELSE OldFrames(s)

ReaderOpen ==
    /\ wstate \in {"closed", "destroyed"} /\ end > 0
    /\ opened = "no"
    /\ IF Damaged
       THEN opened' = "lost" /\ UNCHANGED frames
       ELSE /\ opened' = "yes"
            /\ frames' = [s \in Streams |-> IF s \in streams THEN FramesFound(s)
                                                             ELSE <<>>]
    /\ UNCHANGED <<writeVars, use_movi, failed, got>>

-----------------------------------------------------------------------------
(* read_frame.                                                             *)

\* The four bytes at p are the tag of stream s: of one of its chunks, of an
\* entry of "idx1", or the dwChunkId of one of its standard indexes.
TagAt(s, p) ==
    \/ \E c \in DOMAIN chunks : chunks[c].stream = s /\ chunks[c].at = p
    \/ \E j \in DOMAIN old : old[j].stream = s
                             /\ p = old_at + 8 + (j - 1) * OldIndexEntry
    \/ \E i \in Written(s) : p = IndexAt(s, i) + 16

\* Eight bytes cannot be read at p; the stream remembers that in failbit.
Short(p) == p + 8 > end

Least(a, b) == IF a < b THEN a ELSE b

\* The data is read at p, as far as there is any.
ReadAt(s, k, p) ==
    LET len == frames[s][k].len IN
    /\ got' = [stream |-> s, frame |-> k, from |-> p, bytes |-> Least(len, end - p)]
    /\ failed' = (p + len > end)

\* A read on a failed stream gives nothing.
ReadFails(s, k) ==
    /\ got' = [stream |-> s, frame |-> k, from |-> 0, bytes |-> 0]
    /\ failed' = TRUE

Asked(s, k) == opened = "yes" /\ k \in DOMAIN frames[s]

\* An empty frame is answered with true, which is 1.
ReadEmpty(s, k) ==
    /\ Asked(s, k) /\ frames[s][k].len = 0
    /\ got' = [stream |-> s, frame |-> k, from |-> 0, bytes |-> 1]
    /\ UNCHANGED <<writeVars, opened, frames, use_movi, failed>>

\* The offset is tried as the position of the chunk; clear comes first.
ReadByPosition(s, k) ==
    /\ Asked(s, k) /\ frames[s][k].len > 0
    /\ ~use_movi
    /\ TagAt(s, frames[s][k].offset)
    /\ ReadAt(s, k, frames[s][k].offset + 8)
    /\ UNCHANGED <<writeVars, opened, frames, use_movi>>

\* Mutant: clear is left to open.
CannotSeek_Uncleared(s, k) ==
    failed \/ (~use_movi /\ Short(frames[s][k].offset))
           \/ Short(frames[s][k].offset + MoviStart)

\* Eight bytes relative to "movi" cannot be read: with use_movi the failbit
\* of an earlier call is still there.
CannotSeek(s, k) ==
    IF use_movi THEN failed \/ Short(frames[s][k].offset + MoviStart)
    ELSE Short(frames[s][k].offset) \/ Short(frames[s][k].offset + MoviStart)

DataOf(p) == p + 8

\* The offset is tried relative to "movi"; if the tag is not there, it is the
\* position of the data.
ReadByMovi(s, k) ==
    LET p == frames[s][k].offset IN
    /\ Asked(s, k) /\ frames[s][k].len > 0
    /\ use_movi \/ ~TagAt(s, p)
    /\ ~CannotSeek(s, k)
    /\ use_movi' = TagAt(s, p + MoviStart)
    /\ ReadAt(s, k, IF use_movi' THEN DataOf(p + MoviStart) ELSE p)
    /\ UNCHANGED <<writeVars, opened, frames>>

\* The try relative to "movi" fails; the tag it compares is then the one read
\* before, or whatever the stack holds.
ReadByMoviFails(s, k) ==
    LET p == frames[s][k].offset IN
    /\ Asked(s, k) /\ frames[s][k].len > 0
    /\ use_movi \/ ~TagAt(s, p)
    /\ CannotSeek(s, k)
    /\ use_movi' \in IF use_movi \/ Short(p) THEN BOOLEAN ELSE {FALSE}
    /\ ReadFails(s, k)
    /\ UNCHANGED <<writeVars, opened, frames>>

ReadFrame(s, k) == \/ ReadEmpty(s, k) \/ ReadByPosition(s, k)
                   \/ ReadByMovi(s, k) \/ ReadByMoviFails(s, k)

Next == \/ WriterNext /\ UNCHANGED readVars
        \/ ReaderOpen
        \/ \E s \in Streams, k \in 1 .. MaxChunks : ReadFrame(s, k)

Spec == Init /\ [][Next]_vars

-----------------------------------------------------------------------------
\* Every RIFF that is finished ends where the next begins, the last one of a
\* finished file at its end, and its list of data holds all its chunks.
RiffsTile ==
    /\ \A r \in 1 .. Len(riffs) - 1 :
           riffs[r].at + 8 + riffs[r].size = riffs[r + 1].at
    /\ wstate \in {"closed", "destroyed"} /\ end > 0 =>
           riffs[Len(riffs)].at + 8 + riffs[Len(riffs)].size = end
    /\ \A c \in DOMAIN chunks : \E r \in DOMAIN riffs :
           /\ chunks[c].at >= riffs[r].movi + 4
           /\ (r < Len(riffs) \/ wstate \in {"closed", "destroyed"}) =>
                  chunks[c].at + 8 + chunks[c].len <= riffs[r].movi + riffs[r].movi_size

\* A RIFF that write_data finishes is below its limit, the old index that is
\* appended behind the test included, unless it is one single chunk.
RiffsKeepTheLimit ==
    \A r \in 1 .. Len(riffs) - 1 :
        \/ riffs[r].size < (IF r = 1 THEN FirstMax ELSE LaterMax)
        \/ Cardinality({c \in DOMAIN chunks : /\ chunks[c].at > riffs[r].at
                                              /\ chunks[c].at < riffs[r + 1].at}) <= 1

\* What a reader that skips by sizes relies on: the RIFFs tile the file and
\* none has outgrown its size field (write_data, finish_old, finish_avix and
\* close, which compute the sizes at different times).
RiffsAreSound == RiffsTile /\ RiffsKeepTheLimit

-----------------------------------------------------------------------------
(* What is read back.                                                      *)

\* The position of the k-th chunk of s in chunks.
Nth(s, k) == NthOf(chunks, s, k)

\* The position of the data of entry k of s, as avidef.h defines it.
PointsAt(s, k) == bases[s][entries[s][k].index] + entries[s][k].offset

\* The other stream began an index after the one that entry k of s is in.
Shared(s, k) ==
    \E t \in streams \ {s} : \E i \in DOMAIN bases[t] :
        /\ bases[t][i] > bases[s][entries[s][k].index]
        /\ bases[t][i] <= chunks[Nth(s, k)].at

\* An entry of a standard index leads to the data of its chunk, unless the
\* other stream has moved the base they share meanwhile, or the distance to
\* the base does not fit its 32 bits.
EntriesPointAtChunks ==
    \A s \in streams : \A k \in DOMAIN entries[s] :
        LET data == chunks[Nth(s, k)].at + 8 IN
        \/ PointsAt(s, k) = data
        \/ Shared(s, k)
        \/ data - bases[s][entries[s][k].index] >= Dword

Placed(s, k) == ~openDML \/ PointsAt(s, k) = chunks[Nth(s, k)].at + 8

\* One of the tries of read_frame finds a tag by accident.
LooksAlike(s, k) ==
    \/ TagAt(s, frames[s][k].offset)
    \/ openDML /\ TagAt(s, frames[s][k].offset + MoviStart)

\* The length reaches the flag of its entry.
TooLong(s, k) == openDML /\ chunks[Nth(s, k)].len >= SizeFlag

\* A file of nothing but right entries, none of which looks like another.
Sound == \A s \in streams : \A k \in DOMAIN frames[s] :
             Placed(s, k) /\ ~LooksAlike(s, k) /\ ~TooLong(s, k)

\* Of a sound file every frame is read back whole and from its place, except
\* one so near the end that the try relative to "movi" leaves the file, and
\* that a frame of length 0 counts as 1 byte.
FramesReadBack ==
    opened = "yes" /\ got # Nothing /\ Sound =>
        LET s == got.stream
            k == got.frame
            c == chunks[Nth(s, k)]
        IN \/ got.from = c.at + 8 /\ got.bytes = c.len
           \/ c.len = 0 /\ got.bytes = 1
           \/ openDML /\ got.bytes = 0 /\ Short(c.at + 8 + MoviStart)

\* The reader knows every frame that was written, except that without OpenDML
\* it knows those of the first RIFF only; and it gets no file at all if one
\* stream has more entries than the indexes hold that open made room for,
\* which is one less in each than open takes them to hold.
AllFramesAreFound ==
    /\ opened = "yes" => \A s \in streams :
           Len(frames[s]) = Count(s) \/ (~openDML /\ Len(riffs) > 1)
    /\ opened = "lost" => \E s \in streams :
           Count(s) > indexes * (PerIndexReserved - 1)

\* What AviWriter writes, AviReader finds and reads, in any order and after any
\* failed read, up to the exceptions above.
ReadsBack == AllFramesAreFound /\ FramesReadBack

\* "all dwOffsets in aIndex array are relative to this" says the writer of
\* qwBaseOffset, for the indexes of every stream.
OffsetsAreRelative ==
    \A s \in streams : \A k \in DOMAIN entries[s] :
        PointsAt(s, k) = chunks[Nth(s, k)].at + 8
=============================================================================
