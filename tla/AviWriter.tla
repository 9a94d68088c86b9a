------------------------------ MODULE AviWriter ------------------------------
(***************************************************************************)
(* avilib::AviWriter: an AVI file is a chain of RIFF chunks, each with a   *)
(* "movi" list of data chunks.  The writer appends a data chunk for each   *)
(* call, begins a further RIFF when the current one would get too large,   *)
(* and keeps two indexes in memory: the old one ("idx1", for the first     *)
(* RIFF), and with OpenDML a chain of standard indexes per stream, written *)
(* at close together with the super index that the header has room for.    *)
(*                                                                         *)
(* Positions and sizes are bytes; what the header holds besides the room   *)
(* for the super index is not modelled, and one writer writes one file.    *)
(***************************************************************************)
EXTENDS Integers, Sequences, FiniteSets

CONSTANTS Lengths,        \* lengths of the data handed to write_data
          Reservations,   \* setFrameCount's count, 0 if it is not called
          MoviStart,      \* where the header ends and the first "movi" is
          StdIndexSize,   \* STDINDEXSIZE
          DefaultIndexes, \* room in the super index without a reservation
          FirstMax,       \* m_currMaxRIFFSize for the first RIFF
          LaterMax,       \* and for the others
          Dword,          \* 2^32: what fits a DWORD is less
          MaxChunks       \* bound: calls of write_data that write

ASSUME AviAssumption ==
    /\ Lengths \subseteq Nat /\ Reservations \subseteq Nat
    /\ MoviStart \in Nat /\ StdIndexSize \in Nat /\ StdIndexSize > 48
    /\ DefaultIndexes \in Nat \ {0}
    /\ FirstMax \in Nat /\ LaterMax \in Nat
    /\ Dword \in Nat /\ Dword > 1 /\ MaxChunks \in Nat

\* sizeof of the structures of avidef.h, and of a chunk's tag and size.
ChunkHeader == 8
OldIndexEntry == 16
StdIndexHeader == 32
StdIndexEntry == 8

Streams == {0, 1}
NoFile == 0

VARIABLES
    streams,     \* the keys of m_streamTypes: video, or video and audio
    openDML,     \* m_openDML
    reserved,    \* m_reservedFrames
    indexes,     \* num_stdIndexes: entries the super indexes have room for
    wstate,      \* "new", "open", "closed", "destroyed" or "aborted"
    end,         \* length of the file
    chunks,      \* the data chunks, in the order of the file
    riffs,       \* the RIFF chunks, with the sizes written so far
    riff_size,   \* m_RIFF_size
    old,         \* m_oldIndexEntries
    old_at,      \* where "idx1" was written
    bases,       \* bases[s]: qwBaseOffset of each of m_stdIndexes[s]
    entries,     \* entries[s]: m_stdIndexEntries[s], one index after the other
    curr_base,   \* m_currBaseOff
    std_at       \* where the standard indexes begin

setup     == <<streams, openDML>>
indexVars == <<bases, entries, curr_base>>
writeVars == <<setup, reserved, indexes, wstate, end, chunks, riffs, riff_size,
               old, old_at, indexVars, std_at>>

WriterInit ==
    /\ streams \in {{0}, {0, 1}}
    /\ openDML \in BOOLEAN
    /\ reserved \in Reservations
    /\ indexes = 0
    /\ wstate = "new"
    /\ end = 0
    /\ chunks = <<>> /\ riffs = <<>> /\ riff_size = 0
    /\ old = <<>> /\ old_at = NoFile
    /\ bases = [s \in Streams |-> <<>>]
    /\ entries = [s \in Streams |-> <<>>]
    /\ curr_base = 0
    /\ std_at = NoFile

-----------------------------------------------------------------------------
(* open.                                                                   *)

\* What open takes for the number of entries of a standard index.
PerIndexReserved == (StdIndexSize - StdIndexHeader) \div StdIndexEntry

Open ==
    /\ wstate = "new"
    /\ openDML \/ reserved # 0
    /\ wstate' = "open"
    /\ IF openDML /\ reserved = 0
       THEN /\ indexes' = DefaultIndexes
            /\ reserved' = DefaultIndexes * PerIndexReserved
       ELSE /\ indexes' = (reserved + PerIndexReserved - 1) \div PerIndexReserved
            /\ UNCHANGED reserved
    /\ end' = MoviStart + 4
    /\ riffs' = <<[at |-> 0, size |-> 0, movi |-> MoviStart, movi_size |-> 0]>>
    /\ riff_size' = MoviStart + 4 + OldIndexEntry
    /\ bases' = IF openDML
                THEN [s \in Streams |-> IF s \in streams THEN <<0>> ELSE <<>>]
                ELSE bases
    /\ curr_base' = 0
    /\ UNCHANGED <<setup, chunks, old, old_at, entries, std_at>>

-----------------------------------------------------------------------------
(* write_data.                                                             *)

\* Where in a list of chunks or entries those of stream s are.
PositionsOf(seq, s) == {c \in DOMAIN seq : seq[c].stream = s}

Count(s) == Cardinality(PositionsOf(chunks, s))

MaxRiff == IF Len(riffs) = 1 THEN FirstMax ELSE LaterMax

\* The chunk would make the RIFF too large (the sum is 32 bits wide).
StartsRiff(len) == (riff_size + len + ChunkHeader) % Dword >= MaxRiff

OldIndexSize == 8 + Len(old) * OldIndexEntry

\* Where the file ends once the current RIFF is finished: finish_old appends
\* the old index, finish_avix nothing.
FinishedEnd == IF Len(riffs) = 1 THEN end + OldIndexSize ELSE end

\* finish_old and finish_avix: the sizes of the last RIFF and of its list of
\* data, which ends at e.
Finish(e, total) ==
    LET r == riffs[Len(riffs)] IN
    [riffs EXCEPT ![Len(riffs)] =
        [r EXCEPT !.movi_size = (e - r.movi) % Dword,
                  !.size = (total - r.at - 8) % Dword]]

FinishForNext == Finish(end, FinishedEnd)

\* The standard index of s in use has no room for one more.
Rolls(s) == LET n == Cardinality({e \in DOMAIN entries[s] :
                                  entries[s][e].index = Len(bases[s])})
            IN (n + 1) * StdIndexEntry + StdIndexHeader >= StdIndexSize

\* Mutant: a new standard index does not become the base of the offsets.
AddIndexEntry_SameBase(s, at, len) ==
    /\ bases' = IF Rolls(s) THEN [bases EXCEPT ![s] = Append(@, at)] ELSE bases
    /\ UNCHANGED curr_base
    /\ entries' = [entries EXCEPT ![s] = Append(@,
            [index |-> Len(bases'[s]),
             offset |-> (at + ChunkHeader - curr_base) % Dword,
             len |-> len])]

\* The entry of the chunk at the position at, in a new index if the last is
\* full.  The base is the one set last, whichever stream set it.
AddIndexEntry(s, at, len) ==
    /\ bases' = IF Rolls(s) THEN [bases EXCEPT ![s] = Append(@, at)] ELSE bases
    /\ curr_base' = IF Rolls(s) THEN at ELSE curr_base
    /\ entries' = [entries EXCEPT ![s] = Append(@,
            [index |-> Len(bases'[s]),
             offset |-> (at + ChunkHeader - curr_base') % Dword,
             len |-> len])]

\* The chunk goes to the end of the file and, in the first RIFF, in the old
\* index, relative to the first "movi".
Put(s, at, len) ==
    /\ chunks' = Append(chunks, [stream |-> s, at |-> at, len |-> len])
    /\ end' = at + ChunkHeader + len
    /\ IF openDML THEN AddIndexEntry(s, at, len) ELSE UNCHANGED indexVars
    /\ old' = IF Len(riffs') = 1
              THEN Append(old, [stream |-> s, offset |-> at - MoviStart,
                                len |-> len])
              ELSE old

\* m_totalFrames counts the chunks of both streams.
MayWrite == wstate = "open" /\ Len(chunks) < reserved

\* Without OpenDML the standard indexes are kept too and written nowhere.
WriteData(s, len) ==
    /\ MayWrite /\ Len(chunks) < MaxChunks
    /\ s \in streams
    /\ \/ /\ ~StartsRiff(len)
          /\ riff_size' = (riff_size + len + ChunkHeader
                 + (IF Len(riffs) = 1 THEN OldIndexEntry ELSE 0)) % Dword
          /\ UNCHANGED <<riffs, old_at>>
          /\ Put(s, end, len)
       \/ /\ StartsRiff(len)
          /\ old_at' = IF Len(riffs) = 1 THEN end ELSE old_at
          /\ riffs' = Append(FinishForNext,
                             [at |-> FinishedEnd, size |-> 0,
                              movi |-> FinishedEnd + 20, movi_size |-> 0])
          /\ riff_size' = (24 + len + ChunkHeader) % Dword
          /\ Put(s, FinishedEnd + 24, len)
    /\ UNCHANGED <<setup, reserved, indexes, wstate, std_at>>

-----------------------------------------------------------------------------
(* close and the destructor.                                               *)

\* The standard indexes that have entries.
Written(s) == IF openDML /\ entries[s] # <<>> THEN 1 .. Len(bases[s]) ELSE {}

\* Where index i of stream s is: the indexes follow each other, video first.
IndexAt(s, i) ==
    LET before == {p \in Streams \X (1 .. MaxChunks + 1) :
                      /\ p[2] \in Written(p[1])
                      /\ p[1] < s \/ (p[1] = s /\ p[2] < i)}
        those  == {q \in Streams \X (1 .. MaxChunks) :
                      /\ q[2] \in DOMAIN entries[q[1]]
                      /\ <<q[1], entries[q[1]][q[2]].index>> \in before}
    IN std_at + Cardinality(before) * StdIndexHeader
              + Cardinality(those) * StdIndexEntry

StdIndexesSize ==
    LET count(s) == Cardinality(Written(s)) * StdIndexHeader
                    + (IF openDML THEN Len(entries[s]) ELSE 0) * StdIndexEntry
    IN count(0) + count(1)

\* Mutant: the sizes are computed before the standard indexes are written.
FinishAtClose_Early(e) ==
    IF Len(riffs) = 1 THEN Finish(end, end + OldIndexSize) ELSE Finish(end, end)

FinishAtClose(e) ==
    IF Len(riffs) = 1 THEN Finish(e, e + OldIndexSize) ELSE Finish(e, e)

\* What close writes to an open file.
CloseFile ==
    LET e == end + StdIndexesSize IN
    /\ std_at' = end
    /\ riffs' = FinishAtClose(e)
    /\ end' = IF Len(riffs) = 1 THEN e + OldIndexSize ELSE e
    /\ old_at' = IF Len(riffs) = 1 THEN e ELSE old_at
    /\ UNCHANGED <<setup, reserved, indexes, chunks, riff_size, old, indexVars>>

Close == /\ wstate = "open"
         /\ CloseFile
         /\ wstate' = "closed"

\* The destructor closes what is open.
DestroyOpen == /\ wstate = "open"
               /\ CloseFile
               /\ wstate' = "destroyed"

\* On a stream that is closed seekp sets failbit, which bad() does not see:
\* the assertion before the first standard index fails.
DestroyClosed ==
    /\ wstate = "closed"
    /\ wstate' = IF \E s \in streams : Written(s) # {} THEN "aborted"
                                                       ELSE "destroyed"
    /\ UNCHANGED <<setup, reserved, indexes, end, chunks, riffs, riff_size, old,
                   old_at, indexVars, std_at>>

WriterNext == \/ Open
              \/ \E s \in Streams, len \in Lengths : WriteData(s, len)
              \/ Close \/ DestroyOpen \/ DestroyClosed

WriterSpec == WriterInit /\ [][WriterNext]_writeVars
=============================================================================
