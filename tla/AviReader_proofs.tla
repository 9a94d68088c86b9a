--------------------------- MODULE AviReader_proofs ---------------------------
(***************************************************************************)
(* Proofs about AviWriter and AviReader: that the RIFFs cover the file and *)
(* keep their limit, that index entries lead to their chunks, and that     *)
(* every frame is found and read back, each up to the exceptions that the  *)
(* properties name; for any lengths, sizes of the format and number of     *)
(* chunks.                                                                 *)
(***************************************************************************)
EXTENDS AviReader, FiniteSetTheorems, SequenceTheorems, TLAPS

Chunk == [stream : Streams, at : Nat, len : Nat]
Riff  == [at : Nat, size : Nat, movi : Nat, movi_size : Nat]
Old   == [stream : Streams, offset : Int, len : Nat]
Entry == [index : Nat, offset : Nat, len : Nat]
Frame == [offset : Int, len : Nat]
Got   == [stream : Streams, frame : Nat, from : Int, bytes : Int]

WriterTypes ==
    /\ streams \in {{0}, {0, 1}} /\ openDML \in BOOLEAN
    /\ reserved \in Nat /\ indexes \in Nat
    /\ wstate \in {"new", "open", "closed", "destroyed", "aborted"}
    /\ end \in Nat /\ riff_size \in Nat
    /\ chunks \in Seq(Chunk) /\ riffs \in Seq(Riff) /\ old \in Seq(Old)
    /\ old_at \in Nat /\ std_at \in Nat /\ curr_base \in Nat
    /\ bases \in [Streams -> Seq(Nat)]
    /\ entries \in [Streams -> Seq(Entry)]

ReaderTypes ==
    /\ opened \in {"no", "yes", "lost"}
    /\ frames \in [Streams -> Seq(Frame)]
    /\ use_movi \in BOOLEAN /\ failed \in BOOLEAN
    /\ got \in Got

TypeInv == WriterTypes /\ ReaderTypes

Done == wstate \in {"closed", "destroyed", "aborted"}

ChunkEnd(c) == chunks[c].at + ChunkHeader + chunks[c].len

\* The chunks follow each other within the file.
LayoutInv ==
    /\ wstate = "new" => /\ end = 0 /\ chunks = <<>> /\ riffs = <<>> /\ old = <<>>
                         /\ entries = [s \in Streams |-> <<>>]
                         /\ bases = [s \in Streams |-> <<>>]
    /\ wstate # "new" => /\ end >= MoviStart + 4 /\ riffs # <<>>
                         /\ riffs[1].at = 0 /\ riffs[1].movi = MoviStart
    /\ Len(chunks) <= MaxChunks
    /\ \A c \in DOMAIN chunks :
           /\ chunks[c].stream \in streams
           /\ chunks[c].at >= MoviStart + 4
           /\ ChunkEnd(c) <= end
    /\ \A c, d \in DOMAIN chunks : c < d => ChunkEnd(c) <= chunks[d].at
    /\ Done => /\ \A c \in DOMAIN chunks : ChunkEnd(c) <= std_at
               /\ std_at + StdIndexesSize <= end

\* The old index lists the chunks of the first RIFF.
OldInv ==
    /\ Len(old) <= Len(chunks)
    /\ Len(riffs) = 1 => Len(old) = Len(chunks)
    /\ \A c \in DOMAIN old : old[c] = [stream |-> chunks[c].stream,
                                       offset |-> chunks[c].at - MoviStart,
                                       len |-> chunks[c].len]

IsNth(seq, s, k, c) ==
    /\ c \in PositionsOf(seq, s)
    /\ Cardinality({d \in PositionsOf(seq, s) : d <= c}) = k

\* Every stream's chunks can be counted off.
NthInv == \A s \in Streams : \A k \in 1 .. Count(s) : \E c \in DOMAIN chunks : IsNth(chunks, s, k, c)

InLast(s) == {e \in DOMAIN entries[s] : entries[s][e].index = Len(bases[s])}

\* Entry k of a stream is of its k-th chunk, and is in one of its indexes.
EntryInv == \A s \in Streams :
    /\ Len(entries[s]) = IF openDML THEN Count(s) ELSE 0
    /\ \A k \in DOMAIN entries[s] : /\ entries[s][k].index \in DOMAIN bases[s]
                                    /\ entries[s][k].len = chunks[Nth(s, k)].len

\* All indexes but the last of a stream hold as many entries as they can.
FullInv == \A s \in Streams :
    /\ Len(bases[s]) <= Len(entries[s]) + 1
    /\ Len(bases[s]) > 1 => InLast(s) # {}
    /\ bases[s] # <<>> =>
           (Len(bases[s]) - 1) * (PerIndexReserved - 1) + Cardinality(InLast(s))
               <= Len(entries[s])

\* The base in use is the last one that any stream has set.
BaseInv == openDML /\ wstate # "new" =>
    /\ \A s \in streams : bases[s] # <<>>
    /\ \A s \in streams : \A i \in DOMAIN bases[s] :
           /\ bases[s][i] <= curr_base
           /\ \A j \in 1 .. i : bases[s][j] <= bases[s][i]
    /\ \E s \in streams : \E i \in DOMAIN bases[s] : bases[s][i] = curr_base
    /\ curr_base <= end

-----------------------------------------------------------------------------
(* The RIFFs, as long as no size passes its 32 bits.                       *)

\* What close appends to a RIFF at most.
Appended == 40 * MaxChunks + 64

\* A RIFF at its largest, one more chunk and the standard indexes fit a DWORD.
SizesFit == \A len \in Lengths \cup {0} :
    /\ MoviStart + 20 + len + ChunkHeader + Appended < Dword
    /\ FirstMax + 16 + len + ChunkHeader + Appended < Dword
    /\ LaterMax + len + ChunkHeader + Appended < Dword
    /\ \A l \in Lengths : 32 + l + len + ChunkHeader + Appended < Dword

Between(c, r) == chunks[c].at > riffs[r].at /\ chunks[c].at < riffs[r + 1].at

\* Every RIFF begins within the file.
WithinInv == \A r \in DOMAIN riffs : riffs[r].at <= end

\* A RIFF that is finished.
FinishedInv == \A r \in 1 .. Len(riffs) - 1 :
    /\ riffs[r].at + 8 + riffs[r].size = riffs[r + 1].at
    /\ \/ riffs[r].size < IF r = 1 THEN FirstMax ELSE LaterMax
       \/ \A c, d \in DOMAIN chunks : Between(c, r) /\ Between(d, r) => c = d

\* Each chunk is in the list of data of a RIFF.
CoveredInv == \A c \in DOMAIN chunks : \E r \in DOMAIN riffs :
    /\ chunks[c].at >= riffs[r].movi + 4
    /\ (r < Len(riffs) \/ Done) => ChunkEnd(c) <= riffs[r].movi + riffs[r].movi_size

Last == Len(riffs)

\* The RIFF in progress: what m_RIFF_size counts, and that it is within the
\* limit unless it has one chunk.
CurrentInv == wstate = "open" =>
    /\ riffs[Last].at <= riffs[Last].movi /\ riffs[Last].movi + 4 <= end
    /\ Last = 1 =>
           /\ riff_size = end + 16 * Len(old) + 16
           /\ riff_size < FirstMax + 16 \/ (chunks = <<>> /\ riff_size = MoviStart + 20)
    /\ Last > 1 =>
           /\ riff_size = end - riffs[Last].at /\ riff_size >= 32
           /\ \/ riff_size < LaterMax
              \/ /\ \E l \in Lengths : riff_size = 32 + l
                 /\ \A c \in DOMAIN chunks : c < Len(chunks) => chunks[c].at < riffs[Last].at

ClosedInv == Done => riffs[Last].at + 8 + riffs[Last].size = end

RiffInv == SizesFit => /\ WithinInv /\ FinishedInv /\ CoveredInv
                      /\ CurrentInv /\ ClosedInv

-----------------------------------------------------------------------------
(* The reader.                                                             *)

ReadRight(s, k) ==
    LET c == chunks[Nth(s, k)] IN
    \/ got.from = c.at + 8 /\ got.bytes = c.len
    \/ c.len = 0 /\ got.bytes = 1
    \/ openDML /\ got.bytes = 0 /\ Short(c.at + 8 + MoviStart)

ReaderInv ==
    /\ opened # "yes" => got = Nothing /\ ~use_movi /\ ~failed
    /\ opened # "no" => Done
    /\ opened = "lost" => Damaged
    /\ opened = "yes" => frames = [s \in Streams |-> IF s \in streams THEN FramesFound(s)
                                                                    ELSE <<>>]
    /\ opened = "yes" /\ Sound =>
           /\ openDML => ~use_movi
           /\ ~openDML => ~failed
           /\ got # Nothing => /\ got.stream \in streams
                               /\ got.frame \in DOMAIN frames[got.stream]
                               /\ ReadRight(got.stream, got.frame)

WriterInv == /\ WriterTypes /\ LayoutInv /\ OldInv /\ NthInv /\ EntryInv
             /\ FullInv /\ BaseInv /\ EntriesPointAtChunks

IInv == TypeInv /\ WriterInv /\ RiffInv /\ ReaderInv
-----------------------------------------------------------------------------
(* Numbers.                                                                *)

LEMMA ModType == \A n \in Int : n % Dword \in 0 .. Dword - 1
BY AviAssumption

LEMMA ModSmall == \A n \in 0 .. Dword - 1 : n % Dword = n
BY AviAssumption

\* What masking the flag does to a size.
LEMMA FlagMasked ==
    /\ SizeFlag \in Nat \ {0}
    /\ \A n \in Nat : n % SizeFlag \in Nat /\ (n < SizeFlag => n % SizeFlag = n)
<1>1. SizeFlag \in Nat \ {0}
    BY AviAssumption DEF SizeFlag
<1> QED
    BY <1>1

\* A standard index has room for two entries or more.
LEMMA PerIndexBounds ==
    /\ PerIndexReserved \in Nat /\ PerIndexReserved >= 2
    /\ 8 * PerIndexReserved <= StdIndexSize - 32
BY AviAssumption DEF PerIndexReserved, StdIndexHeader, StdIndexEntry

LEMMA TimesMonotone == \A a, b, c \in Nat : a <= b => a * c <= b * c
OBVIOUS

-----------------------------------------------------------------------------
(* Counting the chunks of a stream.                                        *)

LEMMA UpToFinite ==
    ASSUME NEW n \in Nat
    PROVE  IsFiniteSet(1 .. n) /\ Cardinality(1 .. n) = n
<1>1. /\ IsFiniteSet(1 .. n)
      /\ Cardinality(1 .. n) = IF 1 > n THEN 0 ELSE n - 1 + 1
    BY FS_Interval
<1> QED
    BY <1>1

LEMMA PositionsAreFinite ==
    ASSUME NEW S, NEW seq \in Seq(S), NEW s
    PROVE  /\ PositionsOf(seq, s) \subseteq 1 .. Len(seq)
           /\ IsFiniteSet(PositionsOf(seq, s))
           /\ Cardinality(PositionsOf(seq, s)) \in 0 .. Len(seq)
<1> DEFINE P == PositionsOf(seq, s)
<1>1. Len(seq) \in Nat /\ P \subseteq 1 .. Len(seq)
    BY DEF PositionsOf
<1>2. IsFiniteSet(1 .. Len(seq)) /\ Cardinality(1 .. Len(seq)) = Len(seq)
    BY <1>1, UpToFinite
<1>3. IsFiniteSet(P) /\ Cardinality(P) <= Len(seq)
    BY <1>1, <1>2, FS_Subset
<1> QED
    BY <1>1, <1>3, FS_CardinalityType

\* No two positions have the same number.
LEMMA NthIsUnique ==
    ASSUME NEW S, NEW seq \in Seq(S), NEW s, NEW k, NEW c, NEW d,
           IsNth(seq, s, k, c), IsNth(seq, s, k, d)
    PROVE  c = d
<1> DEFINE P == PositionsOf(seq, s)
           UpTo(x) == {e \in P : e <= x}
<1>0. IsFiniteSet(P) /\ P \subseteq Nat
    BY PositionsAreFinite, LenProperties
<1>1. ASSUME NEW x \in P, NEW y \in P, x < y, Cardinality(UpTo(x)) = Cardinality(UpTo(y))
      PROVE  FALSE
    <2>1. UpTo(x) \subseteq UpTo(y) /\ IsFiniteSet(UpTo(y))
        BY <1>0, <1>1, FS_Subset
    <2>2. UpTo(x) = UpTo(y)
        BY <1>1, <2>1, FS_Subset
    <2> QED
        BY <1>0, <1>1, <2>2
<1>2. /\ c \in P /\ d \in P
      /\ Cardinality(UpTo(c)) = k /\ Cardinality(UpTo(d)) = k
    BY DEF IsNth
<1> HIDE DEF P, UpTo
<1> QED
    BY <1>0, <1>1, <1>2

LEMMA NthIsIt ==
    ASSUME NEW S, NEW seq \in Seq(S), NEW s, NEW k, NEW c, IsNth(seq, s, k, c)
    PROVE  NthOf(seq, s, k) = c
<1>1. IsNth(seq, s, k, NthOf(seq, s, k))
    BY DEF IsNth, NthOf
<1> QED
    BY <1>1, NthIsUnique

\* One more element is counted behind the others.
LEMMA AppendedPositions ==
    ASSUME NEW S, NEW seq \in Seq(S), NEW e \in S, NEW s
    PROVE  PositionsOf(Append(seq, e), s) =
               IF e.stream = s THEN PositionsOf(seq, s) \cup {Len(seq) + 1}
                               ELSE PositionsOf(seq, s)
BY DEF PositionsOf

LEMMA NthIsKept ==
    ASSUME NEW S, NEW seq \in Seq(S), NEW e \in S, NEW s, NEW k, NEW c,
           IsNth(seq, s, k, c)
    PROVE  IsNth(Append(seq, e), s, k, c)
<1> DEFINE P == PositionsOf(seq, s)
           Q == PositionsOf(Append(seq, e), s)
<1>1. P \subseteq 1 .. Len(seq) /\ Len(seq) \in Nat
    BY PositionsAreFinite, LenProperties
<1>2. c \in P /\ c \in Q /\ {d \in Q : d <= c} = {d \in P : d <= c}
    BY <1>1, AppendedPositions DEF IsNth
<1> QED
    BY <1>2 DEF IsNth

LEMMA NthIsAppended ==
    ASSUME NEW S, NEW seq \in Seq(S), NEW e \in S
    PROVE  LET n == Cardinality(PositionsOf(seq, e.stream)) + 1 IN
           /\ Cardinality(PositionsOf(Append(seq, e), e.stream)) = n
           /\ IsNth(Append(seq, e), e.stream, n, Len(seq) + 1)
<1> DEFINE P == PositionsOf(seq, e.stream)
           Q == PositionsOf(Append(seq, e), e.stream)
<1>1. P \subseteq 1 .. Len(seq) /\ Len(seq) \in Nat /\ IsFiniteSet(P)
    BY PositionsAreFinite, LenProperties
<1>2. Q = P \cup {Len(seq) + 1} /\ Len(seq) + 1 \notin P
    BY <1>1, AppendedPositions
<1>3. Cardinality(Q) = Cardinality(P) + 1
    BY <1>1, <1>2, FS_AddElement
<1>4. {d \in Q : d <= Len(seq) + 1} = Q
    BY <1>1, <1>2
<1> QED
    BY <1>2, <1>3, <1>4 DEF IsNth

-----------------------------------------------------------------------------
(* The writer's initial state and the step that opens the file.            *)

LEMMA NoPositions == \A s : PositionsOf(<<>>, s) = {}
BY DEF PositionsOf

LEMMA WriterInitHolds == WriterInit => WriterInv
<1> SUFFICES ASSUME WriterInit PROVE WriterInv
    OBVIOUS
<1>1. WriterTypes
    BY AviAssumption DEF WriterInit, WriterTypes, NoFile
<1>2. LayoutInv /\ OldInv
    BY AviAssumption DEF WriterInit, LayoutInv, OldInv, Done
<1>3. \A s : Count(s) = 0
    BY NoPositions, FS_EmptySet DEF WriterInit, Count
<1>4. NthInv /\ EntryInv /\ BaseInv
    BY <1>3 DEF WriterInit, NthInv, EntryInv, BaseInv
<1>5. FullInv
    BY DEF WriterInit, FullInv
<1>6. EntriesPointAtChunks
    BY DEF WriterInit, EntriesPointAtChunks, Streams
<1> QED
    BY <1>1, <1>2, <1>4, <1>5, <1>6 DEF WriterInv

LEMMA OpenStep == WriterInv /\ Open => WriterInv'
<1> SUFFICES ASSUME WriterInv, Open PROVE WriterInv'
    OBVIOUS
<1>0. /\ WriterTypes /\ wstate = "new" /\ wstate' = "open"
      /\ chunks' = <<>> /\ old' = <<>>
      /\ end' = MoviStart + 4
      /\ entries' = [s \in Streams |-> <<>>]
      /\ bases' = [s \in Streams |-> IF openDML /\ s \in streams THEN <<0>> ELSE <<>>]
      /\ curr_base' = 0
      /\ streams' = streams /\ openDML' = openDML
    BY DEF WriterInv, LayoutInv, Open, setup
<1>1. WriterTypes'
    <2>1. indexes' \in Nat /\ reserved' \in Nat
        <3>1. DefaultIndexes * PerIndexReserved \in Nat
            BY AviAssumption, PerIndexBounds
        <3>2. (reserved + PerIndexReserved - 1) \div PerIndexReserved \in Nat
            <4>1. \A a, b \in Nat : b > 0 => a \div b \in Nat
                OBVIOUS
            <4>2. reserved + PerIndexReserved - 1 \in Nat
                BY <1>0, PerIndexBounds DEF WriterTypes
            <4> QED
                BY <4>1, <4>2, PerIndexBounds
        <3> QED
            BY <1>0, <3>1, <3>2, AviAssumption DEF Open, WriterTypes
    <2>2. riffs' \in Seq(Riff) /\ riff_size' \in Nat
        <3> DEFINE r == [at |-> 0, size |-> 0, movi |-> MoviStart, movi_size |-> 0]
        <3>1. r \in Riff
            BY AviAssumption DEF Riff
        <3>2. riffs' = <<r>> /\ riff_size' = MoviStart + 4 + 16
            BY DEF Open, OldIndexEntry
        <3> HIDE DEF r
        <3> QED
            BY <3>1, <3>2, AviAssumption
    <2> QED
        BY <1>0, <2>1, <2>2, AviAssumption DEF Open, WriterTypes
<1>2. LayoutInv' /\ OldInv'
    BY <1>0, AviAssumption DEF Open, LayoutInv, OldInv, Done
<1>3. \A s : Count(s)' = 0
    BY <1>0, NoPositions, FS_EmptySet DEF Count
<1>4. NthInv' /\ EntryInv'
    BY <1>0, <1>3 DEF NthInv, EntryInv
<1>5. FullInv'
    <2>1. \A s \in Streams : Len(bases'[s]) \in {0, 1} /\ InLast(s)' = {}
        BY <1>0 DEF InLast
    <2>2. Cardinality({}) = 0
        BY FS_EmptySet
    <2>3. ASSUME NEW s \in Streams, bases'[s] # <<>>
          PROVE  Len(bases'[s]) - 1 = 0
        BY <1>0, <2>3
    <2>4. 0 * (PerIndexReserved - 1) = 0
        BY PerIndexBounds
    <2>5. ASSUME NEW s \in Streams
          PROVE  Len(entries'[s]) = 0 /\ Len(bases'[s]) <= Len(entries'[s]) + 1
        BY <1>0, <2>1
    <2>6. ASSUME NEW s \in Streams, bases'[s] # <<>>
          PROVE  (Len(bases'[s]) - 1) * (PerIndexReserved - 1) + Cardinality(InLast(s)')
                     <= Len(entries'[s])
        <3>1. (Len(bases'[s]) - 1) * (PerIndexReserved - 1) = 0
            BY <2>3, <2>4, <2>6
        <3>2. Cardinality(InLast(s)') = 0
            BY <2>1, <2>2
        <3> QED
            BY <2>5, <3>1, <3>2
    <2> QED
        BY <2>1, <2>5, <2>6 DEF FullInv
<1>6. BaseInv'
    <2>1. ASSUME openDML
          PROVE  \A s \in streams : bases'[s] = <<0>>
        BY <1>0, <2>1 DEF WriterTypes, Streams
    <2>2. 0 \in streams
        BY <1>0 DEF WriterTypes
    <2>3. <<0>> # <<>> /\ DOMAIN <<0>> = {1} /\ <<0>>[1] = 0
        OBVIOUS
    <2> QED
        BY <1>0, <2>1, <2>2, <2>3, AviAssumption DEF BaseInv
<1>7. EntriesPointAtChunks'
    BY <1>0 DEF EntriesPointAtChunks, WriterTypes, Streams
<1> QED
    BY <1>1, <1>2, <1>4, <1>5, <1>6, <1>7 DEF WriterInv

-----------------------------------------------------------------------------
(* write_data.                                                             *)

\* The RIFF that is finished keeps its place.
LEMMA FinishIsRiff ==
    ASSUME WriterTypes, riffs # <<>>, NEW e \in Nat, NEW total \in Nat
    PROVE  /\ Finish(e, total) \in Seq(Riff)
           /\ Len(Finish(e, total)) = Len(riffs)
           /\ \A r \in 1 .. Len(riffs) - 1 : Finish(e, total)[r] = riffs[r]
           /\ LET f == Finish(e, total)[Len(riffs)]
                  r == riffs[Len(riffs)]
              IN /\ f.at = r.at /\ f.movi = r.movi
                 /\ f.size = (total - r.at - 8) % Dword
                 /\ f.movi_size = (e - r.movi) % Dword
<1> DEFINE r == riffs[Len(riffs)]
           f == [r EXCEPT !.movi_size = (e - r.movi) % Dword,
                          !.size = (total - r.at - 8) % Dword]
<1>1. Len(riffs) \in Nat \ {0} /\ r \in Riff
    BY DEF WriterTypes
<1>2. (e - r.movi) % Dword \in Nat /\ (total - r.at - 8) % Dword \in Nat
    <2>1. e - r.movi \in Int /\ total - r.at - 8 \in Int
        BY <1>1 DEF Riff
    <2> HIDE DEF r
    <2>2. /\ (e - r.movi) % Dword \in 0 .. Dword - 1
          /\ (total - r.at - 8) % Dword \in 0 .. Dword - 1
        BY <2>1, ModType
    <2> QED
        BY <2>2, AviAssumption
<1>3. f \in Riff /\ f.at = r.at /\ f.movi = r.movi
      /\ f.size = (total - r.at - 8) % Dword
      /\ f.movi_size = (e - r.movi) % Dword
    BY <1>1, <1>2 DEF Riff
<1> HIDE DEF f
<1>4. Finish(e, total) = [riffs EXCEPT ![Len(riffs)] = f]
    BY DEF Finish, f
<1> QED
    BY <1>1, <1>3, <1>4, ExceptSeq DEF WriterTypes

Begun == [at |-> FinishedEnd, size |-> 0, movi |-> FinishedEnd + 20, movi_size |-> 0]

\* What WriteData does, wherever the chunk goes.
Puts(s, at, len) ==
    /\ wstate = "open" /\ wstate' = wstate
    /\ UNCHANGED <<setup, reserved, indexes, std_at>>
    /\ s \in streams /\ at \in Nat /\ at >= end /\ len \in Nat
    /\ Len(chunks) < MaxChunks
    /\ Put(s, at, len)

KeepsRiff(at, len) ==
    /\ at = end /\ riffs' = riffs /\ old_at' = old_at /\ ~StartsRiff(len)
    /\ riff_size' = (riff_size + len + ChunkHeader
                         + (IF Len(riffs) = 1 THEN OldIndexEntry ELSE 0)) % Dword

BeginsRiff(at, len) ==
    /\ at = FinishedEnd + 24 /\ StartsRiff(len)
    /\ FinishedEnd \in Nat /\ FinishedEnd >= end
    /\ old_at' = IF Len(riffs) = 1 THEN end ELSE old_at
    /\ riffs' \in Seq(Riff) /\ Len(riffs') = Len(riffs) + 1
    /\ \A r \in 1 .. Len(riffs) : riffs'[r] = FinishForNext[r]
    /\ riffs'[Len(riffs) + 1] = Begun
    /\ riff_size' = (24 + len + ChunkHeader) % Dword

Writes(s, len) ==
    \E at \in Nat : Puts(s, at, len) /\ (KeepsRiff(at, len) \/ BeginsRiff(at, len))

LEMMA WriteFacts ==
    ASSUME WriterInv, NEW s \in Streams, NEW len \in Lengths, WriteData(s, len)
    PROVE  Writes(s, len)
<1>0. WriterTypes /\ wstate = "open" /\ riffs # <<>> /\ len \in Nat
    BY AviAssumption DEF WriterInv, LayoutInv, WriteData, MayWrite
<1>1. FinishedEnd \in Nat /\ FinishedEnd >= end
    BY <1>0 DEF WriterTypes, FinishedEnd, OldIndexSize, OldIndexEntry
<1>2. FinishForNext \in Seq(Riff) /\ Len(FinishForNext) = Len(riffs)
    BY <1>0, <1>1, FinishIsRiff DEF FinishForNext, WriterTypes
<1>3. CASE ~StartsRiff(len)
    <2>1. Puts(s, end, len)
        BY <1>0, <1>3 DEF WriteData, WriterTypes, Puts
    <2>2. KeepsRiff(end, len)
        BY <1>0, <1>3 DEF WriteData, KeepsRiff
    <2> QED
        BY <1>0, <2>1, <2>2 DEF WriterTypes, Writes
<1>4. CASE StartsRiff(len)
    <2>1. riffs' = Append(FinishForNext, Begun) /\ Put(s, FinishedEnd + 24, len)
          /\ riff_size' = (24 + len + ChunkHeader) % Dword
          /\ old_at' = IF Len(riffs) = 1 THEN end ELSE old_at
        BY <1>4 DEF WriteData, Begun
    <2>2. Begun \in Riff
        BY <1>1 DEF Riff, Begun
    <2>3. /\ riffs' \in Seq(Riff) /\ Len(riffs') = Len(riffs) + 1
          /\ \A r \in 1 .. Len(riffs) : riffs'[r] = FinishForNext[r]
          /\ riffs'[Len(riffs) + 1] = Begun
        BY <1>2, <2>1, <2>2, AppendProperties
    <2>4. Puts(s, FinishedEnd + 24, len)
        BY <1>0, <1>1, <2>1 DEF WriteData, WriterTypes, Puts
    <2>5. BeginsRiff(FinishedEnd + 24, len)
        BY <1>1, <1>4, <2>1, <2>3 DEF BeginsRiff
    <2> QED
        BY <1>1, <2>4, <2>5 DEF Writes
<1> QED
    BY <1>3, <1>4

LEMMA PutTypes ==
    ASSUME WriterInv, NEW s, NEW at, NEW len, Puts(s, at, len),
           KeepsRiff(at, len) \/ BeginsRiff(at, len)
    PROVE  WriterTypes'
<1> DEFINE e == [stream |-> s, at |-> at, len |-> len]
<1>0. WriterTypes /\ s \in streams /\ s \in Streams /\ at \in Nat /\ len \in Nat
    BY DEF WriterInv, Puts, WriterTypes, Streams
<1>1. e \in Chunk /\ chunks' = Append(chunks, e) /\ end' = at + 8 + len
    BY <1>0 DEF Puts, Put, Chunk, ChunkHeader
<1>2. chunks' \in Seq(Chunk) /\ end' \in Nat
    BY <1>0, <1>1, AppendProperties DEF WriterTypes
<1>3. riffs' \in Seq(Riff) /\ old_at' \in Nat /\ riff_size' \in Nat
    <2>1. \A n \in Nat : n % Dword \in Nat
        BY AviAssumption
    <2>2. CASE KeepsRiff(at, len)
        <3>1. riff_size + len + ChunkHeader
                  + (IF Len(riffs) = 1 THEN OldIndexEntry ELSE 0) \in Nat
            BY <1>0 DEF WriterTypes, ChunkHeader, OldIndexEntry
        <3> QED
            BY <1>0, <2>1, <2>2, <3>1 DEF WriterTypes, KeepsRiff
    <2>3. CASE BeginsRiff(at, len)
        <3>1. 24 + len + ChunkHeader \in Nat
            BY <1>0 DEF ChunkHeader
        <3> QED
            BY <1>0, <2>1, <2>3, <3>1 DEF WriterTypes, BeginsRiff
    <2> QED
        BY <2>2, <2>3
<1>4. old' \in Seq(Old)
    <2> DEFINE o == [stream |-> s, offset |-> at - MoviStart, len |-> len]
    <2>1. o \in Old
        BY <1>0, AviAssumption DEF Old
    <2>2. old' = Append(old, o) \/ old' = old
        BY DEF Puts, Put
    <2> HIDE DEF o
    <2>3. old \in Seq(Old) /\ Append(old, o) \in Seq(Old)
        BY <1>0, <2>1, AppendProperties DEF WriterTypes
    <2> QED
        BY <2>2, <2>3
<1>5. bases' \in [Streams -> Seq(Nat)] /\ entries' \in [Streams -> Seq(Entry)]
      /\ curr_base' \in Nat
    <2>1. CASE ~openDML
        BY <1>0, <2>1 DEF Puts, Put, indexVars, WriterTypes
    <2>2. CASE openDML
        <3> DEFINE n == [index |-> Len(bases'[s]),
                         offset |-> (at + ChunkHeader - curr_base') % Dword,
                         len |-> len]
        <3>1. AddIndexEntry(s, at, len)
            BY <2>2 DEF Puts, Put
        <3>2. curr_base' \in Nat
            BY <1>0, <3>1 DEF AddIndexEntry, WriterTypes
        <3>3. bases' \in [Streams -> Seq(Nat)]
            <4>1. bases[s] \in Seq(Nat) /\ Append(bases[s], at) \in Seq(Nat)
                BY <1>0, AppendProperties DEF WriterTypes
            <4>2. bases' = bases \/ bases' = [bases EXCEPT ![s] = Append(bases[s], at)]
                BY <3>1 DEF AddIndexEntry
            <4> QED
                BY <1>0, <4>1, <4>2 DEF WriterTypes
        <3>4. n \in Entry
            <4>1. Len(bases'[s]) \in Nat
                BY <1>0, <3>3, LenProperties
            <4>2. at + ChunkHeader - curr_base' \in Int
                BY <1>0, <3>2 DEF ChunkHeader
            <4>3. (at + ChunkHeader - curr_base') % Dword \in 0 .. Dword - 1
                BY <4>2, ModType
            <4>4. (at + ChunkHeader - curr_base') % Dword \in Nat
                BY <4>3, AviAssumption
            <4> QED
                BY <1>0, <4>1, <4>4 DEF Entry
        <3>5. entries' = [entries EXCEPT ![s] = Append(entries[s], n)]
            BY <3>1 DEF AddIndexEntry
        <3> HIDE DEF n
        <3>6. entries[s] \in Seq(Entry) /\ Append(entries[s], n) \in Seq(Entry)
            BY <1>0, <3>4, AppendProperties DEF WriterTypes
        <3> QED
            BY <1>0, <3>2, <3>3, <3>5, <3>6 DEF WriterTypes
    <2> QED
        BY <2>1, <2>2
<1> QED
    BY <1>0, <1>2, <1>3, <1>4, <1>5 DEF WriterTypes, Puts, setup

LEMMA PutLayout ==
    ASSUME WriterInv, NEW s, NEW at, NEW len, Puts(s, at, len),
           KeepsRiff(at, len) \/ BeginsRiff(at, len)
    PROVE  LayoutInv' /\ OldInv'
<1> DEFINE e == [stream |-> s, at |-> at, len |-> len]
<1>n. PICK n \in Nat : n = Len(chunks)
    BY LenProperties DEF WriterInv, WriterTypes
<1>0. /\ WriterTypes /\ LayoutInv /\ OldInv /\ wstate = "open" /\ wstate' = "open"
      /\ s \in streams /\ streams' = streams /\ at \in Nat /\ len \in Nat /\ at >= end
    BY DEF WriterInv, Puts, setup
<1>1. e \in Chunk /\ chunks' = Append(chunks, e) /\ end' = at + 8 + len
    BY <1>0 DEF Puts, Put, Chunk, ChunkHeader, WriterTypes, Streams
<1>2. /\ n = Len(chunks) /\ DOMAIN chunks = 1 .. n
      /\ Len(chunks') = n + 1 /\ DOMAIN chunks' = 1 .. n + 1
      /\ \A c \in 1 .. n : chunks'[c] = chunks[c] /\ chunks[c] \in Chunk
      /\ chunks'[n + 1] = e
    BY <1>n, <1>0, <1>1, AppendProperties DEF WriterTypes
<1>a. /\ e.stream = s /\ e.at = at /\ e.len = len
      /\ \A c \in 1 .. n : chunks[c].at \in Nat /\ chunks[c].len \in Nat
    BY <1>2 DEF Chunk
<1> HIDE DEF e
<1>b. /\ \A c \in 1 .. n : ChunkEnd(c) = chunks[c].at + 8 + chunks[c].len
      /\ \A c \in 1 .. n + 1 : ChunkEnd(c)' = chunks'[c].at + 8 + chunks'[c].len
    BY DEF ChunkEnd, ChunkHeader
<1>3. end' >= MoviStart + 4 /\ riffs' # <<>> /\ riffs'[1].at = 0 /\ riffs'[1].movi = MoviStart
    <2>1. end >= MoviStart + 4 /\ riffs # <<>> /\ riffs[1].at = 0 /\ riffs[1].movi = MoviStart
        BY <1>0 DEF LayoutInv
    <2>2. CASE riffs' = riffs
        BY <1>0, <1>1, <2>1, <2>2, AviAssumption DEF WriterTypes
    <2>3. CASE BeginsRiff(at, len)
        <3>1. Len(riffs) \in Nat \ {0}
            BY <1>0, <2>1 DEF WriterTypes
        <3>2. FinishForNext[1].at = 0 /\ FinishForNext[1].movi = MoviStart
            <4>1. /\ \A q \in 1 .. Len(riffs) - 1 : FinishForNext[q] = riffs[q]
                  /\ FinishForNext[Len(riffs)].at = riffs[Len(riffs)].at
                  /\ FinishForNext[Len(riffs)].movi = riffs[Len(riffs)].movi
                BY <1>0, <2>1, <2>3, FinishIsRiff DEF FinishForNext, BeginsRiff, WriterTypes
            <4> QED
                BY <2>1, <3>1, <4>1
        <3>3. riffs' # <<>> /\ riffs'[1] = FinishForNext[1]
            <4>1. riffs' \in Seq(Riff) /\ Len(riffs') = Len(riffs) + 1
                  /\ \A r \in 1 .. Len(riffs) : riffs'[r] = FinishForNext[r]
                BY <2>3 DEF BeginsRiff
            <4> QED
                BY <3>1, <4>1
        <3>4. end' >= MoviStart + 4
            BY <1>0, <1>1, <2>1, AviAssumption DEF WriterTypes
        <3> QED
            BY <3>2, <3>3, <3>4
    <2> QED
        BY <2>2, <2>3 DEF KeepsRiff
<1>4. \A c \in 1 .. n + 1 : /\ chunks'[c].stream \in streams'
                            /\ chunks'[c].at >= MoviStart + 4
                            /\ ChunkEnd(c)' <= end'
    <2>1. ASSUME NEW c \in 1 .. n
          PROVE  /\ chunks[c].stream \in streams /\ chunks[c].at >= MoviStart + 4
                 /\ ChunkEnd(c) <= end
        BY <1>0, <1>2 DEF LayoutInv
    <2>2. end >= MoviStart + 4 /\ end' = at + 8 + len /\ end \in Nat /\ MoviStart \in Nat
        BY <1>0, <1>1, AviAssumption DEF LayoutInv, WriterTypes
    <2>3. ASSUME NEW c \in 1 .. n
          PROVE  ChunkEnd(c)' <= end'
        <3>1. c \in 1 .. n + 1 /\ ChunkEnd(c)' = ChunkEnd(c) /\ ChunkEnd(c) \in Nat
            BY <1>2, <1>a, <1>b
        <3> QED
            BY <1>0, <2>1, <2>2, <3>1
    <2>4. ChunkEnd(n + 1)' <= end' /\ e.at >= MoviStart + 4
        <3>1. n + 1 \in 1 .. n + 1 /\ chunks'[n + 1].at = at /\ chunks'[n + 1].len = len
            BY <1>2, <1>a
        <3>2. ChunkEnd(n + 1)' = at + 8 + len
            BY <1>b, <3>1
        <3> QED
            BY <1>0, <1>a, <2>2, <3>2
    <2>5. ASSUME NEW c \in 1 .. n
          PROVE  chunks'[c].stream \in streams' /\ chunks'[c].at >= MoviStart + 4
        <3>1. chunks'[c] = chunks[c]
            BY <1>2
        <3>2. chunks[c].stream \in streams /\ chunks[c].at >= MoviStart + 4
            BY <2>1
        <3> QED
            BY <1>0, <3>1, <3>2
    <2>6. chunks'[n + 1].stream \in streams' /\ chunks'[n + 1].at >= MoviStart + 4
        BY <1>0, <1>1, <1>2, <1>a, <2>4
    <2> QED
        <3>1. \A c \in 1 .. n + 1 : c \in 1 .. n \/ c = n + 1
            BY <1>2
        <3> QED
            BY <2>3, <2>4, <2>5, <2>6, <3>1
<1>5. ASSUME NEW c \in 1 .. n + 1, NEW d \in 1 .. n + 1, c < d
      PROVE  ChunkEnd(c)' <= chunks'[d].at
    <2>1. c \in 1 .. n /\ ChunkEnd(c)' = ChunkEnd(c) /\ ChunkEnd(c) <= end
        BY <1>0, <1>2, <1>5, <1>b DEF LayoutInv
    <2>2. CASE d = n + 1
        <3>1. chunks'[d].at = at
            BY <1>2, <1>a, <2>2
        <3>2. ChunkEnd(c) \in Nat /\ end \in Nat
            <4>1. end \in Nat
                BY <1>0 DEF WriterTypes
            <4> QED
                BY <1>a, <1>b, <2>1, <4>1
        <3> QED
            BY <1>0, <2>1, <3>1, <3>2
    <2>3. CASE d \in 1 .. n
        BY <1>0, <1>2, <1>5, <2>1, <2>3 DEF LayoutInv
    <2> QED
        BY <1>2, <2>2, <2>3
<1>6. LayoutInv'
    <2>1. Len(chunks') <= MaxChunks
        BY <1>2, AviAssumption DEF Puts
    <2>2. ~Done' /\ wstate' # "new"
        BY <1>0 DEF Done
    <2> QED
        BY <1>2, <1>3, <1>4, <1>5, <2>1, <2>2 DEF LayoutInv
<1>7. OldInv'
    <2> DEFINE o == [stream |-> s, offset |-> at - MoviStart, len |-> len]
    <2>0. Len(riffs) \in Nat /\ Len(riffs') \in Nat /\ Len(riffs) > 0
        BY <1>0, AviAssumption DEF WriterTypes, LayoutInv, KeepsRiff, BeginsRiff
    <2>1. o \in Old /\ old \in Seq(Old)
        BY <1>0, AviAssumption DEF Old, WriterTypes, Streams
    <2>2. CASE Len(riffs') = 1
        <3>1. Len(riffs) = 1
            BY <2>0, <2>2 DEF KeepsRiff, BeginsRiff
        <3>2. old' = Append(old, o) /\ Len(old) = n
            BY <1>n, <1>0, <2>2, <3>1 DEF Puts, Put, OldInv
        <3> HIDE DEF o
        <3>3. /\ Len(old') = n + 1 /\ DOMAIN old' = 1 .. n + 1 /\ DOMAIN old = 1 .. n
              /\ \A c \in 1 .. n : old'[c] = old[c]
              /\ old'[n + 1] = o
            BY <2>1, <3>2, AppendProperties
        <3>4. o = [stream |-> e.stream, offset |-> e.at - MoviStart, len |-> e.len]
            BY DEF e, o
        <3> QED
            BY <1>0, <1>2, <3>3, <3>4 DEF OldInv
    <2>3. CASE Len(riffs') # 1
        <3>1. old' = old /\ Len(old) <= n /\ Len(old) \in Nat /\ DOMAIN old = 1 .. Len(old)
            BY <1>n, <1>0, <2>1, <2>3 DEF Puts, Put, OldInv
        <3>2. ASSUME NEW c \in 1 .. Len(old)
              PROVE  old[c] = [stream |-> chunks'[c].stream,
                               offset |-> chunks'[c].at - MoviStart,
                               len |-> chunks'[c].len]
            <4>1. c \in 1 .. n /\ chunks'[c] = chunks[c]
                BY <1>2, <3>1
            <4> QED
                BY <1>0, <3>1, <4>1 DEF OldInv
        <3>3. DOMAIN old' = 1 .. Len(old) /\ Len(old') <= Len(chunks')
            BY <1>2, <3>1
        <3> QED
            BY <2>3, <3>1, <3>2, <3>3 DEF OldInv
    <2> QED
        BY <2>2, <2>3
<1> QED
    BY <1>6, <1>7

LEMMA NthFacts ==
    ASSUME WriterTypes, NthInv, NEW t \in Streams, NEW k \in 1 .. Count(t)
    PROVE  /\ Nth(t, k) \in 1 .. Len(chunks)
           /\ IsNth(chunks, t, k, Nth(t, k))
<1>1. PICK c \in DOMAIN chunks : IsNth(chunks, t, k, c)
    BY DEF NthInv
<1>2. chunks \in Seq(Chunk) /\ DOMAIN chunks = 1 .. Len(chunks)
    BY DEF WriterTypes
<1>3. NthOf(chunks, t, k) = c
    BY <1>1, <1>2, NthIsIt
<1> QED
    BY <1>1, <1>2, <1>3 DEF Nth

\* How the chunks of each stream are counted after a chunk of s is written.
Counts(s, at, len) ==
    /\ \A t \in Streams : /\ Count(t) \in Nat
                          /\ Count(t)' = IF t = s THEN Count(t) + 1 ELSE Count(t)
    /\ \A t \in Streams : \A k \in 1 .. Count(t) :
           /\ NthOf(chunks', t, k) = Nth(t, k) /\ Nth(t, k) \in 1 .. Len(chunks)
           /\ chunks'[Nth(t, k)] = chunks[Nth(t, k)]
    /\ NthOf(chunks', s, Count(s) + 1) = Len(chunks) + 1
    /\ Len(chunks') = Len(chunks) + 1
    /\ chunks'[Len(chunks) + 1] = [stream |-> s, at |-> at, len |-> len]

\* The chunk that is written is counted, and the others keep their numbers.
LEMMA PutNth ==
    ASSUME WriterInv, NEW s, NEW at, NEW len, Puts(s, at, len)
    PROVE  NthInv' /\ Counts(s, at, len)
<1> DEFINE e == [stream |-> s, at |-> at, len |-> len]
<1>0. WriterTypes /\ NthInv /\ s \in Streams /\ at \in Nat /\ len \in Nat
    BY DEF WriterInv, Puts, WriterTypes, Streams
<1>1. e \in Chunk /\ e.stream = s /\ chunks' = Append(chunks, e) /\ chunks \in Seq(Chunk)
    BY <1>0 DEF Puts, Put, Chunk, WriterTypes
<1> HIDE DEF e
<1>2. /\ Len(chunks) \in Nat /\ Len(chunks') = Len(chunks) + 1
      /\ chunks' \in Seq(Chunk) /\ DOMAIN chunks' = 1 .. Len(chunks) + 1
      /\ chunks'[Len(chunks) + 1] = e
      /\ \A c \in 1 .. Len(chunks) : chunks'[c] = chunks[c]
    BY <1>1, AppendProperties, LenProperties
<1>3. \A t \in Streams : Count(t) \in Nat
    BY <1>1, PositionsAreFinite DEF Count
<1>4. /\ Count(s)' = Count(s) + 1
      /\ IsNth(chunks', s, Count(s) + 1, Len(chunks) + 1)
    BY <1>1, NthIsAppended DEF Count
<1>5. ASSUME NEW t \in Streams, t # s
      PROVE  Count(t)' = Count(t)
    BY <1>1, <1>5, AppendedPositions DEF Count
<1>6. ASSUME NEW t \in Streams, NEW k \in 1 .. Count(t)
      PROVE  /\ Nth(t, k) \in 1 .. Len(chunks)
             /\ IsNth(chunks', t, k, Nth(t, k))
             /\ NthOf(chunks', t, k) = Nth(t, k)
    <2>1. Nth(t, k) \in 1 .. Len(chunks) /\ IsNth(chunks, t, k, Nth(t, k))
        BY <1>0, NthFacts
    <2>2. IsNth(chunks', t, k, Nth(t, k))
        BY <1>1, <2>1, NthIsKept
    <2> QED
        BY <1>2, <2>1, <2>2, NthIsIt
<1>7. NthOf(chunks', s, Count(s) + 1) = Len(chunks) + 1
    BY <1>2, <1>4, NthIsIt
<1>8. ASSUME NEW t \in Streams, NEW k \in 1 .. Count(t)'
      PROVE  \E c \in DOMAIN chunks' : IsNth(chunks', t, k, c)
    <2>1. CASE k \in 1 .. Count(t)
        BY <1>2, <1>6, <2>1
    <2>2. CASE t = s /\ k = Count(s) + 1
        BY <1>2, <1>4, <2>2
    <2> QED
        BY <1>0, <1>3, <1>4, <1>5, <2>1, <2>2
<1>9. NthInv'
    BY <1>8 DEF NthInv
<1>10. e = [stream |-> s, at |-> at, len |-> len]
    BY DEF e
<1> QED
    BY <1>2, <1>3, <1>4, <1>5, <1>6, <1>7, <1>9, <1>10 DEF Counts

\* What a chunk changes in the indexes of its stream.
Indexes(s, at, len) ==
    /\ \A t \in Streams \ {s} : bases'[t] = bases[t] /\ entries'[t] = entries[t]
    /\ Rolls(s) => bases'[s] = Append(bases[s], at) /\ curr_base' = at
    /\ ~Rolls(s) => bases' = bases /\ curr_base' = curr_base
    /\ Len(entries'[s]) = Len(entries[s]) + 1
    /\ \A k \in 1 .. Len(entries[s]) : entries'[s][k] = entries[s][k]
    /\ entries'[s][Len(entries[s]) + 1] =
           [index |-> Len(bases'[s]),
            offset |-> (at + ChunkHeader - curr_base') % Dword, len |-> len]

LEMMA PutIndex ==
    ASSUME WriterInv, NEW s, NEW at, NEW len, Puts(s, at, len), openDML
    PROVE  Indexes(s, at, len)
<1> DEFINE n == [index |-> Len(bases'[s]),
                 offset |-> (at + ChunkHeader - curr_base') % Dword, len |-> len]
<1>0. WriterTypes /\ s \in Streams /\ at \in Nat /\ AddIndexEntry(s, at, len)
    BY DEF WriterInv, Puts, Put, WriterTypes, Streams
<1>1. entries' = [entries EXCEPT ![s] = Append(entries[s], n)]
    BY <1>0 DEF AddIndexEntry
<1>2. /\ Rolls(s) => bases' = [bases EXCEPT ![s] = Append(bases[s], at)] /\ curr_base' = at
      /\ ~Rolls(s) => bases' = bases /\ curr_base' = curr_base
    BY <1>0 DEF AddIndexEntry
<1> HIDE DEF n
<1>3. entries'[s] = Append(entries[s], n) /\ entries[s] \in Seq(Entry)
      /\ \A t \in Streams \ {s} : entries'[t] = entries[t]
    BY <1>0, <1>1 DEF WriterTypes
<1>4. /\ Len(entries'[s]) = Len(entries[s]) + 1
      /\ \A k \in 1 .. Len(entries[s]) : entries'[s][k] = entries[s][k]
      /\ entries'[s][Len(entries[s]) + 1] = n
    BY <1>3
<1>5. \A t \in Streams \ {s} : bases'[t] = bases[t]
    BY <1>0, <1>2 DEF WriterTypes
<1>6. Rolls(s) => bases'[s] = Append(bases[s], at)
    BY <1>0, <1>2 DEF WriterTypes
<1> QED
    BY <1>2, <1>3, <1>4, <1>5, <1>6 DEF n, Indexes

\* Indexes and entries stay what they are when more are appended.
Grows(s, at, t) ==
    /\ Len(bases[t]) \in Nat /\ Len(bases'[t]) \in Nat
    /\ \A i \in 1 .. Len(bases[t]) : bases'[t][i] = bases[t][i]
    /\ IF t = s /\ Rolls(s)
       THEN Len(bases'[t]) = Len(bases[t]) + 1 /\ bases'[t][Len(bases[t]) + 1] = at
       ELSE Len(bases'[t]) = Len(bases[t])
    /\ Len(entries[t]) \in Nat
    /\ IF t = s THEN Len(entries'[t]) = Len(entries[t]) + 1
                ELSE Len(entries'[t]) = Len(entries[t])
    /\ \A k \in 1 .. Len(entries[t]) : entries'[t][k] = entries[t][k]

LEMMA IndexesGrow ==
    ASSUME WriterInv, NEW s, NEW at, NEW len, Puts(s, at, len), openDML, NEW t \in Streams
    PROVE  Grows(s, at, t)
<1>p. Indexes(s, at, len)
    BY PutIndex
<1>0. bases[t] \in Seq(Nat) /\ entries[t] \in Seq(Entry) /\ at \in Nat
    BY DEF WriterInv, WriterTypes, Puts
<1>1. CASE t # s
    BY <1>0, <1>1, <1>p DEF Grows, Indexes
<1>2. CASE t = s /\ ~Rolls(s)
    BY <1>0, <1>2, <1>p DEF Grows, Indexes
<1>3. CASE t = s /\ Rolls(s)
    <2>1. bases'[t] = Append(bases[t], at)
        BY <1>3, <1>p DEF Indexes
    <2>2. /\ Len(bases'[t]) = Len(bases[t]) + 1
          /\ \A i \in 1 .. Len(bases[t]) : bases'[t][i] = bases[t][i]
          /\ bases'[t][Len(bases[t]) + 1] = at
        BY <1>0, <2>1
    <2> QED
        BY <1>0, <1>3, <2>2, <1>p DEF Grows, Indexes
<1> QED
    BY <1>1, <1>2, <1>3

LEMMA PutEntry ==
    ASSUME WriterInv, NEW s, NEW at, NEW len, Puts(s, at, len), WriterTypes'
    PROVE  EntryInv'
<1>0. /\ WriterTypes /\ EntryInv /\ BaseInv /\ s \in streams /\ s \in Streams
      /\ wstate = "open" /\ openDML' = openDML /\ openDML \in BOOLEAN
    BY DEF WriterInv, Puts, WriterTypes, Streams, setup
<1>m. Counts(s, at, len)
    BY PutNth
<1>p. openDML => Indexes(s, at, len)
    BY PutIndex
<1>g. openDML => \A t \in Streams : Grows(s, at, t)
    BY IndexesGrow
<1>1. CASE ~openDML
    <2>1. bases' = bases /\ entries' = entries
        BY <1>1 DEF Puts, Put, indexVars
    <2>2. ASSUME NEW t \in Streams
          PROVE  Len(entries[t]) = 0 /\ entries[t] \in Seq(Entry)
        BY <1>0, <1>1 DEF EntryInv, WriterTypes
    <2>3. \A t \in Streams : DOMAIN entries[t] = {}
        BY <2>2
    <2> QED
        BY <1>0, <1>1, <2>1, <2>2, <2>3 DEF EntryInv
<1>2. CASE openDML
    <2>1. ASSUME NEW t \in Streams
          PROVE  Len(entries[t]) = Count(t) /\ Len(entries'[t]) = Count(t)'
        <3>1. Grows(s, at, t) /\ Len(entries[t]) = Count(t)
            BY <1>0, <1>2, <1>g DEF EntryInv
        <3> QED
            BY <1>m, <3>1 DEF Counts, Grows
    <2>2. ASSUME NEW t \in Streams, NEW k \in 1 .. Len(entries'[t])
          PROVE  /\ entries'[t][k].index \in 1 .. Len(bases'[t])
                 /\ entries'[t][k].len = chunks'[NthOf(chunks', t, k)].len
        <3>1. CASE k \in 1 .. Len(entries[t])
            <4>1. DOMAIN entries[t] = 1 .. Len(entries[t]) /\ DOMAIN bases[t] = 1 .. Len(bases[t])
                BY <1>0 DEF WriterTypes
            <4>2. entries[t][k].index \in 1 .. Len(bases[t])
                  /\ entries[t][k].len = chunks[Nth(t, k)].len
                BY <1>0, <3>1, <4>1 DEF EntryInv
            <4>3. entries'[t][k] = entries[t][k] /\ Len(bases'[t]) >= Len(bases[t])
                  /\ Len(bases[t]) \in Nat /\ Len(bases'[t]) \in Nat
                <5>1. Grows(s, at, t)
                    BY <1>2, <1>g
                <5> QED
                    BY <3>1, <5>1 DEF Grows
            <4>4. NthOf(chunks', t, k) = Nth(t, k) /\ chunks'[Nth(t, k)] = chunks[Nth(t, k)]
                BY <2>1, <3>1, <1>m DEF Nth, Counts
            <4> QED
                BY <4>2, <4>3, <4>4
        <3>2. CASE k \notin 1 .. Len(entries[t])
            <4>1. t = s /\ k = Len(entries[s]) + 1 /\ k = Count(s) + 1
                <5>1. Grows(s, at, t)
                    BY <1>2, <1>g
                <5> QED
                    BY <2>1, <3>2, <5>1 DEF Grows
            <4>2. entries'[s][k].index = Len(bases'[s]) /\ entries'[s][k].len = len
                BY <1>2, <4>1, <1>p DEF Indexes
            <4>3. Len(bases'[s]) \in Nat \ {0}
                <5>1. bases[s] # <<>> /\ bases[s] \in Seq(Nat)
                    BY <1>0, <1>2 DEF BaseInv, WriterTypes
                <5>2. Len(bases[s]) # 0
                    BY <5>1
                <5> QED
                    <6>1. Grows(s, at, s)
                        BY <1>0, <1>2, <1>g
                    <6> QED
                        BY <5>2, <6>1 DEF Grows
            <4>4. NthOf(chunks', s, k) = Len(chunks) + 1 /\ chunks'[Len(chunks) + 1].len = len
                BY <4>1, <1>m DEF Nth, Counts
            <4> QED
                BY <4>1, <4>2, <4>3, <4>4
        <3> QED
            BY <3>1, <3>2
    <2>3. ASSUME NEW t \in Streams
          PROVE  DOMAIN entries'[t] = 1 .. Len(entries'[t]) /\ DOMAIN bases'[t] = 1 .. Len(bases'[t])
        BY DEF WriterTypes
    <2> QED
        BY <1>0, <1>2, <2>1, <2>2, <2>3 DEF EntryInv, Nth
<1> QED
    BY <1>0, <1>1, <1>2

\* What EntriesPointAtChunks says of one entry.
EntryRight(s, k) ==
    LET data == chunks[Nth(s, k)].at + 8 IN
    \/ PointsAt(s, k) = data
    \/ Shared(s, k)
    \/ data - bases[s][entries[s][k].index] >= Dword

LEMMA RightEntries ==
    EntriesPointAtChunks <=> \A s \in streams : \A k \in DOMAIN entries[s] : EntryRight(s, k)
BY Zenon DEF EntriesPointAtChunks, EntryRight

\* Every entry, the one that is new included, leads to its chunk.
LEMMA PutPointsAt ==
    ASSUME WriterInv, NEW s, NEW at, NEW len, Puts(s, at, len), WriterTypes'
    PROVE  EntriesPointAtChunks'
<1>0. /\ WriterTypes /\ EntryInv /\ BaseInv /\ EntriesPointAtChunks
      /\ s \in streams /\ s \in Streams /\ streams \subseteq Streams
      /\ at \in Nat /\ end \in Nat /\ at >= end /\ len \in Nat
      /\ wstate = "open" /\ openDML' = openDML /\ openDML \in BOOLEAN /\ streams' = streams
    BY DEF WriterInv, Puts, WriterTypes, Streams, setup
<1>t. \A t \in Streams : /\ DOMAIN entries[t] = 1 .. Len(entries[t])
                          /\ DOMAIN bases[t] = 1 .. Len(bases[t])
                          /\ DOMAIN entries'[t] = 1 .. Len(entries'[t])
                          /\ DOMAIN bases'[t] = 1 .. Len(bases'[t])
                          /\ bases[t] \in Seq(Nat)
    BY DEF WriterInv, WriterTypes
<1>m. Counts(s, at, len)
    BY PutNth
<1>p. openDML => Indexes(s, at, len)
    BY PutIndex
<1>g. openDML => \A t \in Streams : Grows(s, at, t)
    BY IndexesGrow
<1>1. CASE ~openDML
    <2>1. entries' = entries
        BY <1>1 DEF Puts, Put, indexVars
    <2>2. \A t \in Streams : Len(entries[t]) = 0
        BY <1>0, <1>1 DEF EntryInv
    <2>3. \A t \in Streams : DOMAIN entries'[t] = {}
        BY <1>t, <2>1, <2>2
    <2> QED
        BY <1>0, <2>3 DEF EntriesPointAtChunks
<1>2. CASE openDML
    <2>g. ASSUME NEW t \in Streams
          PROVE  /\ Len(bases[t]) \in Nat /\ Len(bases'[t]) \in Nat
                 /\ Len(bases'[t]) >= Len(bases[t])
                 /\ \A i \in 1 .. Len(bases[t]) : bases'[t][i] = bases[t][i]
        <3>1. Grows(s, at, t)
            BY <1>2, <1>g
        <3> QED
            BY <3>1 DEF Grows
    <2>1. ASSUME NEW t \in streams, NEW k \in 1 .. Len(entries[t])
          PROVE  LET data == chunks'[NthOf(chunks', t, k)].at + 8 IN
                 \/ bases'[t][entries'[t][k].index] + entries'[t][k].offset = data
                 \/ \E u \in streams \ {t} : \E i \in DOMAIN bases'[u] :
                        /\ bases'[u][i] > bases'[t][entries'[t][k].index]
                        /\ bases'[u][i] <= chunks'[NthOf(chunks', t, k)].at
                 \/ data - bases'[t][entries'[t][k].index] >= Dword
        <3>1. t \in Streams /\ k \in DOMAIN entries[t] /\ k \in 1 .. Count(t)
            BY <1>0, <1>2, <1>t DEF EntryInv
        <3>2. entries'[t][k] = entries[t][k] /\ entries[t][k].index \in 1 .. Len(bases[t])
            BY <1>0, <1>2, <1>t, <3>1, <1>g DEF EntryInv, Grows
        <3>3. bases'[t][entries'[t][k].index] = bases[t][entries[t][k].index]
            BY <2>g, <3>1, <3>2
        <3>4. chunks'[NthOf(chunks', t, k)] = chunks[Nth(t, k)]
            BY <3>1, <1>m DEF Nth, Counts
        <3>a. /\ chunks[Nth(t, k)].at \in Nat /\ entries[t][k].offset \in Nat
              /\ bases[t][entries[t][k].index] \in Nat
            <4>1. Nth(t, k) \in 1 .. Len(chunks) /\ chunks \in Seq(Chunk)
                BY <1>0, <1>m, <3>1 DEF Counts, WriterTypes
            <4>2. chunks[Nth(t, k)] \in Chunk
                BY <4>1
            <4>a. entries[t] \in Seq(Entry)
                BY <1>0 DEF WriterTypes
            <4>3. entries[t][k] \in Entry
                BY <4>a
            <4>4. bases[t][entries[t][k].index] \in Nat
                BY <1>t, <3>1, <3>2
            <4> QED
                BY <4>2, <4>3, <4>4 DEF Chunk, Entry
        <3>5. \/ PointsAt(t, k) = chunks[Nth(t, k)].at + 8
              \/ Shared(t, k)
              \/ (chunks[Nth(t, k)].at + 8) - bases[t][entries[t][k].index] >= Dword
            <4>1. EntryRight(t, k)
                BY <1>0, <3>1, RightEntries
            <4> QED
                BY <4>1 DEF EntryRight
        <3>6. CASE Shared(t, k)
            <4>0. PICK u \in streams \ {t} : \E i \in DOMAIN bases[u] :
                      /\ bases[u][i] > bases[t][entries[t][k].index]
                      /\ bases[u][i] <= chunks[Nth(t, k)].at
                BY <3>6 DEF Shared
            <4>1. PICK i \in 1 .. Len(bases[u]) :
                      /\ bases[u][i] > bases[t][entries[t][k].index]
                      /\ bases[u][i] <= chunks[Nth(t, k)].at
                BY <1>0, <1>t, <4>0
            <4>2. i \in DOMAIN bases'[u] /\ bases'[u][i] = bases[u][i]
                BY <1>0, <1>t, <2>g, <4>1
            <4> QED
                BY <3>3, <3>4, <4>1, <4>2
        <3> QED
            BY <3>2, <3>3, <3>4, <3>a, <3>5, <3>6 DEF PointsAt
    <2>2. ASSUME NEW k, k = Len(entries[s]) + 1
          PROVE  LET data == chunks'[NthOf(chunks', s, k)].at + 8 IN
                 \/ bases'[s][entries'[s][k].index] + entries'[s][k].offset = data
                 \/ \E u \in streams \ {s} : \E i \in DOMAIN bases'[u] :
                        /\ bases'[u][i] > bases'[s][entries'[s][k].index]
                        /\ bases'[u][i] <= chunks'[NthOf(chunks', s, k)].at
                 \/ data - bases'[s][entries'[s][k].index] >= Dword
        <3>1. chunks'[NthOf(chunks', s, k)].at = at
            <4>1. k = Count(s) + 1
                BY <1>0, <1>2, <2>2 DEF EntryInv
            <4> QED
                BY <4>1, <1>m DEF Nth, Counts
        <3>2. /\ entries'[s][k].index = Len(bases'[s])
              /\ entries'[s][k].offset = (at + 8 - curr_base') % Dword
            BY <1>2, <2>2, <1>p DEF ChunkHeader, Indexes
        <3>3. CASE Rolls(s)
            <4>1. bases'[s][Len(bases'[s])] = at /\ curr_base' = at
                BY <1>0, <1>2, <3>3, <1>g, <1>p DEF Indexes, Grows
            <4>2. at + 8 - at = 8 /\ (8 >= Dword \/ 8 % Dword = 8)
                BY <1>0, ModSmall, AviAssumption
            <4> QED
                BY <1>0, <3>1, <3>2, <4>1, <4>2, AviAssumption
        <3>4. CASE ~Rolls(s)
            <4> DEFINE b == bases[s][Len(bases[s])]
            <4>1. bases' = bases /\ curr_base' = curr_base
                BY <1>2, <3>4, <1>p DEF Indexes
            <4>2. /\ Len(bases[s]) \in DOMAIN bases[s] /\ b \in Nat /\ b <= curr_base
                  /\ \A j \in 1 .. Len(bases[s]) : bases[s][j] <= b
                <5>1. bases[s] # <<>> /\ bases[s] \in Seq(Nat)
                    BY <1>0, <1>2, <1>t DEF BaseInv
                <5>2. Len(bases[s]) \in DOMAIN bases[s] /\ b \in Nat
                    BY <5>1
                <5> QED
                    BY <1>0, <1>2, <5>2 DEF BaseInv
            <4>3. curr_base \in Nat /\ curr_base <= end
                BY <1>0, <1>2 DEF BaseInv, WriterTypes
            <4> HIDE DEF b
            <4>4. CASE curr_base = b
                <5>1. at + 8 - b \in Nat
                    BY <1>0, <4>2, <4>3, <4>4
                <5>2. at + 8 - b >= Dword \/ (at + 8 - b) % Dword = at + 8 - b
                    BY <5>1, ModSmall, AviAssumption
                <5>3. bases'[s][Len(bases'[s])] = b
                    BY <4>1 DEF b
                <5>4. CASE at + 8 - b >= Dword
                    BY <1>0, <3>1, <3>2, <4>2, <5>3, <5>4, AviAssumption
                <5>5. CASE (at + 8 - b) % Dword = at + 8 - b
                    <6>1. entries'[s][k].offset = at + 8 - b
                        BY <3>2, <4>1, <4>4, <5>5
                    <6> QED
                        BY <1>0, <3>1, <3>2, <4>2, <5>3, <6>1
                <5> QED
                    BY <5>2, <5>4, <5>5
            <4>5. CASE curr_base # b
                <5>0. PICK u \in streams : \E i \in DOMAIN bases[u] : bases[u][i] = curr_base
                    BY <1>0, <1>2 DEF BaseInv
                <5>1. PICK i \in DOMAIN bases[u] : bases[u][i] = curr_base
                    BY <5>0
                <5>2. curr_base > b
                    BY <4>2, <4>3, <4>5
                <5>3. u # s
                    <6> SUFFICES ASSUME u = s PROVE FALSE
                        OBVIOUS
                    <6>1. i \in 1 .. Len(bases[s]) /\ bases[s][i] = curr_base
                        BY <1>0, <1>t, <5>1
                    <6>2. curr_base <= b
                        BY <4>2, <6>1
                    <6> QED
                        BY <4>2, <4>3, <5>2, <6>2
                <5>4. curr_base <= at
                    BY <1>0, <4>3
                <5>5. bases'[s][Len(bases'[s])] = b
                    BY <4>1 DEF b
                <5> QED
                    BY <3>1, <3>2, <4>1, <5>1, <5>2, <5>3, <5>4, <5>5
            <4> QED
                BY <4>4, <4>5
        <3> QED
            BY <3>3, <3>4
    <2>3. ASSUME NEW t \in streams, NEW k \in DOMAIN entries'[t]
          PROVE  k \in 1 .. Len(entries[t]) \/ (t = s /\ k = Len(entries[s]) + 1)
        <3>1. Grows(s, at, t) /\ DOMAIN entries'[t] = 1 .. Len(entries'[t])
            BY <1>0, <1>2, <1>t, <1>g
        <3> QED
            BY <3>1 DEF Grows
    <2> QED
        BY <1>0, <2>1, <2>2, <2>3 DEF EntriesPointAtChunks, PointsAt, Shared, Nth
<1> QED
    BY <1>0, <1>1, <1>2

LEMMA InLastIsFinite ==
    ASSUME WriterTypes, NEW t \in Streams
    PROVE  /\ InLast(t) \subseteq 1 .. Len(entries[t])
           /\ IsFiniteSet(InLast(t)) /\ Cardinality(InLast(t)) \in Nat
<1>1. entries[t] \in Seq(Entry)
    BY DEF WriterTypes
<1>2. InLast(t) \subseteq 1 .. Len(entries[t]) /\ Len(entries[t]) \in Nat
    BY <1>1 DEF InLast
<1>3. IsFiniteSet(InLast(t))
    BY <1>2, UpToFinite, FS_Subset
<1> QED
    BY <1>2, <1>3, FS_CardinalityType

\* An index is left when it holds one entry less than open takes it to hold.
LEMMA RollsWhenFull ==
    ASSUME WriterTypes, NEW t \in Streams, Rolls(t)
    PROVE  Cardinality(InLast(t)) >= PerIndexReserved - 1
<1>1. Cardinality(InLast(t)) \in Nat
    BY InLastIsFinite
<1>2. (Cardinality(InLast(t)) + 1) * 8 + 32 >= StdIndexSize
    BY DEF Rolls, InLast, StdIndexEntry, StdIndexHeader
<1> QED
    BY <1>1, <1>2, PerIndexBounds, AviAssumption

LEMMA PutFull ==
    ASSUME WriterInv, NEW s, NEW at, NEW len, Puts(s, at, len), WriterTypes'
    PROVE  FullInv'
<1>0. /\ WriterTypes /\ EntryInv /\ FullInv /\ BaseInv /\ s \in streams /\ s \in Streams
      /\ wstate = "open"
    BY DEF WriterInv, Puts, WriterTypes, Streams
<1>1. CASE ~openDML
    <2>1. bases' = bases /\ entries' = entries
        BY <1>1 DEF Puts, Put, indexVars
    <2> QED
        BY <1>0, <2>1 DEF FullInv, InLast
<1>2. CASE openDML
    <2>p. Indexes(s, at, len)
        BY <1>2, PutIndex
    <2>1. ASSUME NEW t \in Streams, t # s
          PROVE  bases'[t] = bases[t] /\ entries'[t] = entries[t] /\ InLast(t)' = InLast(t)
        BY <2>1, <2>p DEF Indexes, InLast
    <2>2. PICK E \in Nat : E = Len(entries[s])
        BY <1>0 DEF WriterTypes
    <2>3. PICK B \in Nat : B = Len(bases[s])
        BY <1>0 DEF WriterTypes
    <2>4. PICK N \in Nat : N = Cardinality(InLast(s))
        BY <1>0, InLastIsFinite
    <2>5. PICK P \in Nat : P = PerIndexReserved /\ P >= 2
        BY PerIndexBounds
    <2>6. B > 0 /\ B <= E + 1 /\ (B - 1) * (P - 1) + N <= E
        <3>1. bases[s] # <<>> /\ bases[s] \in Seq(Nat)
            BY <1>0, <1>2 DEF BaseInv, WriterTypes
        <3>2. B > 0
            BY <2>3, <3>1
        <3> QED
            BY <1>0, <2>2, <2>3, <2>4, <2>5, <3>1, <3>2 DEF FullInv
    <2>7. /\ DOMAIN entries[s] = 1 .. E /\ DOMAIN entries'[s] = 1 .. E + 1
          /\ \A k \in 1 .. E : entries'[s][k] = entries[s][k] /\ entries[s][k].index \in 1 .. B
          /\ entries'[s][E + 1].index = Len(bases'[s]) /\ Len(entries'[s]) = E + 1
          /\ Len(bases'[s]) = IF Rolls(s) THEN B + 1 ELSE B
        <3>1. /\ DOMAIN entries[s] = 1 .. E /\ DOMAIN bases[s] = 1 .. B
              /\ entries'[s] \in Seq(Entry)
            BY <1>0, <2>2, <2>3 DEF WriterTypes
        <3>2. Len(bases'[s]) = IF Rolls(s) THEN B + 1 ELSE B
            <4>1. Grows(s, at, s)
                BY <1>0, <1>2, IndexesGrow
            <4> QED
                BY <2>3, <4>1 DEF Grows
        <3> QED
            BY <1>0, <2>2, <2>p, <3>1, <3>2 DEF EntryInv, Indexes
    <2>8. CASE Rolls(s)
        <3>1. Len(bases'[s]) = B + 1
            BY <2>7, <2>8
        <3>2. InLast(s)' = {E + 1}
            BY <2>7, <3>1 DEF InLast
        <3>3. Cardinality({E + 1}) = 1
            BY FS_Singleton
        <3>4. N >= P - 1
            BY <1>0, <2>4, <2>5, <2>8, RollsWhenFull
        <3>5. B * (P - 1) = (B - 1) * (P - 1) + (P - 1)
            BY <2>5
        <3>6. (B - 1) * (P - 1) \in Int /\ B * (P - 1) \in Int
            BY <2>5
        <3>7. B * (P - 1) + 1 <= E + 1
            BY <2>5, <2>6, <3>4, <3>5, <3>6
        <3>8. (Len(bases'[s]) - 1) * (PerIndexReserved - 1) = B * (P - 1)
            BY <2>5, <3>1
        <3>9. /\ Len(bases'[s]) <= Len(entries'[s]) + 1 /\ InLast(s)' # {}
              /\ (Len(bases'[s]) - 1) * (PerIndexReserved - 1) + Cardinality(InLast(s)')
                     <= Len(entries'[s])
            BY <2>6, <2>7, <3>1, <3>2, <3>3, <3>7, <3>8
        <3> QED
            BY <1>0, <2>1, <3>9 DEF FullInv
    <2>9. CASE ~Rolls(s)
        <3>1. Len(bases'[s]) = B
            BY <2>7, <2>9
        <3>2. InLast(s)' = InLast(s) \cup {E + 1}
            BY <2>3, <2>7, <3>1 DEF InLast
        <3>3. IsFiniteSet(InLast(s)) /\ E + 1 \notin InLast(s)
            BY <1>0, <2>2, InLastIsFinite
        <3>4. Cardinality(InLast(s) \cup {E + 1}) = N + 1
            BY <2>4, <3>3, FS_AddElement
        <3>5. (Len(bases'[s]) - 1) * (PerIndexReserved - 1) = (B - 1) * (P - 1)
            BY <2>5, <3>1
        <3>6. (B - 1) * (P - 1) \in Int
            BY <2>5
        <3>9. /\ Len(bases'[s]) <= Len(entries'[s]) + 1 /\ InLast(s)' # {}
              /\ (Len(bases'[s]) - 1) * (PerIndexReserved - 1) + Cardinality(InLast(s)')
                     <= Len(entries'[s])
            BY <2>6, <2>7, <3>1, <3>2, <3>4, <3>5, <3>6
        <3> QED
            BY <1>0, <2>1, <3>9 DEF FullInv
    <2> QED
        BY <2>8, <2>9
<1> QED
    BY <1>1, <1>2

\* The base that is set last is the largest of all streams.
LEMMA PutBase ==
    ASSUME WriterInv, NEW s, NEW at, NEW len, Puts(s, at, len), WriterTypes'
    PROVE  BaseInv'
<1>0. /\ WriterTypes /\ BaseInv /\ s \in streams /\ s \in Streams /\ streams \subseteq Streams
      /\ at \in Nat /\ end \in Nat /\ at >= end /\ len \in Nat /\ curr_base \in Nat
      /\ wstate = "open" /\ openDML' = openDML /\ streams' = streams
      /\ end' = at + 8 + len
    BY DEF WriterInv, Puts, Put, WriterTypes, Streams, setup, ChunkHeader
<1> SUFFICES ASSUME openDML PROVE BaseInv'
    BY <1>0 DEF BaseInv
<1>t. \A t \in Streams : /\ DOMAIN bases[t] = 1 .. Len(bases[t])
                         /\ DOMAIN bases'[t] = 1 .. Len(bases'[t])
                         /\ bases[t] \in Seq(Nat) /\ bases'[t] \in Seq(Nat)
    BY DEF WriterInv, WriterTypes
<1>b. /\ \A t \in streams : bases[t] # <<>>
      /\ \A t \in streams : \A i \in DOMAIN bases[t] :
             /\ bases[t][i] <= curr_base
             /\ \A j \in 1 .. i : bases[t][j] <= bases[t][i]
      /\ \E t \in streams : \E i \in DOMAIN bases[t] : bases[t][i] = curr_base
      /\ curr_base <= end
    BY <1>0 DEF BaseInv
<1>p. Indexes(s, at, len)
    BY PutIndex
<1>1. CASE ~Rolls(s)
    <2>1. bases' = bases /\ curr_base' = curr_base
        BY <1>1, <1>p DEF Indexes
    <2>2. curr_base <= end'
        BY <1>0, <1>b
    <2> QED
        BY <1>0, <1>b, <2>1, <2>2 DEF BaseInv
<1>2. CASE Rolls(s)
    <2>1. /\ curr_base' = at /\ curr_base <= at /\ at <= end'
          /\ \A t \in streams : t # s => bases'[t] = bases[t]
          /\ bases'[s] = Append(bases[s], at)
        BY <1>0, <1>2, <1>b, <1>p DEF Indexes
    <2>2. PICK B \in Nat : B = Len(bases[s])
        BY <1>0, <1>t
    <2>3. /\ DOMAIN bases[s] = 1 .. B /\ DOMAIN bases'[s] = 1 .. B + 1
          /\ \A i \in 1 .. B : bases'[s][i] = bases[s][i] /\ bases[s][i] \in Nat
          /\ bases'[s][B + 1] = at
        <3>1. bases[s] \in Seq(Nat) /\ DOMAIN bases[s] = 1 .. B
              /\ DOMAIN bases'[s] = 1 .. Len(bases'[s])
            BY <1>0, <1>t, <2>2
        <3>2. Len(bases'[s]) = B + 1 /\ bases'[s][B + 1] = at
              /\ \A i \in 1 .. B : bases'[s][i] = bases[s][i]
            BY <2>1, <2>2, <3>1
        <3>3. \A i \in 1 .. B : bases[s][i] \in Nat
            BY <3>1
        <3> QED
            BY <3>1, <3>2, <3>3
    <2>4. ASSUME NEW i \in 1 .. B + 1
          PROVE  bases'[s][i] <= at /\ \A j \in 1 .. i : bases'[s][j] <= bases'[s][i]
        <3>1. \A j \in 1 .. B : bases'[s][j] \in Nat /\ bases'[s][j] <= at
            <4>1. \A j \in 1 .. B : bases[s][j] <= curr_base
                BY <1>0, <1>b, <2>3
            <4> QED
                BY <1>0, <2>1, <2>3, <4>1
        <3>2. CASE i = B + 1
            BY <1>0, <2>3, <3>1, <3>2
        <3>3. CASE i \in 1 .. B
            BY <1>0, <1>b, <2>3, <3>1, <3>3
        <3> QED
            BY <3>2, <3>3
    <2>5. ASSUME NEW t \in streams, t # s, NEW i \in DOMAIN bases'[t]
          PROVE  bases'[t][i] <= at /\ \A j \in 1 .. i : bases'[t][j] <= bases'[t][i]
        <3>0. bases'[t] = bases[t] /\ t \in Streams
            BY <1>0, <2>1, <2>5
        <3>1. bases'[t] = bases[t] /\ i \in DOMAIN bases[t] /\ bases[t][i] \in Nat
            BY <1>t, <3>0
        <3> QED
            BY <1>0, <1>b, <2>1, <3>1
    <2>6. \A t \in streams : bases'[t] # <<>>
        <3>1. bases'[s] # <<>>
            BY <2>3
        <3> QED
            BY <1>b, <2>1, <3>1
    <2>7. \E t \in streams : \E i \in DOMAIN bases'[t] : bases'[t][i] = curr_base'
        <3>1. B + 1 \in DOMAIN bases'[s]
            BY <2>3
        <3> QED
            BY <1>0, <2>1, <2>3, <3>1
    <2>8. ASSUME NEW t \in streams, NEW i \in DOMAIN bases'[t]
          PROVE  bases'[t][i] <= curr_base' /\ \A j \in 1 .. i : bases'[t][j] <= bases'[t][i]
        BY <2>1, <2>3, <2>4, <2>5
    <2> QED
        BY <1>0, <2>1, <2>6, <2>7, <2>8 DEF BaseInv
<1> QED
    BY <1>1, <1>2

LEMMA WriteStep ==
    ASSUME WriterInv, NEW s \in Streams, NEW len \in Lengths, WriteData(s, len)
    PROVE  WriterInv'
<1>0. Writes(s, len)
    BY WriteFacts
<1>1. PICK at \in Nat : Puts(s, at, len) /\ (KeepsRiff(at, len) \/ BeginsRiff(at, len))
    BY <1>0 DEF Writes
<1>2. WriterTypes'
    BY <1>1, PutTypes
<1>3. LayoutInv' /\ OldInv'
    BY <1>1, PutLayout
<1>4. NthInv' /\ EntryInv' /\ FullInv' /\ BaseInv' /\ EntriesPointAtChunks'
    BY <1>1, <1>2, PutNth, PutEntry, PutFull, PutBase, PutPointsAt
<1> QED
    BY <1>2, <1>3, <1>4 DEF WriterInv

-----------------------------------------------------------------------------
(* The standard indexes, which close appends.                              *)

LEMMA WrittenCount ==
    ASSUME WriterTypes, NEW s \in Streams
    PROVE  /\ IsFiniteSet(Written(s))
           /\ Cardinality(Written(s)) =
                  IF openDML /\ entries[s] # <<>> THEN Len(bases[s]) ELSE 0
<1>1. Len(bases[s]) \in Nat
    BY DEF WriterTypes
<1> QED
    BY <1>1, UpToFinite, FS_EmptySet DEF Written

\* The chunks of the two streams are different ones.
LEMMA CountsAddUp == WriterTypes => Count(0) + Count(1) <= Len(chunks)
<1> SUFFICES ASSUME WriterTypes PROVE Count(0) + Count(1) <= Len(chunks)
    OBVIOUS
<1> DEFINE P == PositionsOf(chunks, 0)
           Q == PositionsOf(chunks, 1)
<1>1. /\ P \subseteq 1 .. Len(chunks) /\ Q \subseteq 1 .. Len(chunks)
      /\ IsFiniteSet(P) /\ IsFiniteSet(Q) /\ Len(chunks) \in Nat
      /\ Cardinality(P) \in Nat /\ Cardinality(Q) \in Nat
    BY PositionsAreFinite, LenProperties DEF WriterTypes
<1>2. P \cap Q = {}
    BY DEF PositionsOf
<1>3. Cardinality(P \cup Q) = Cardinality(P) + Cardinality(Q)
    <2>1. Cardinality(P \cup Q) = Cardinality(P) + Cardinality(Q) - Cardinality(P \cap Q)
        BY <1>1, FS_Union
    <2>2. Cardinality(P \cap Q) = 0
        BY <1>2, FS_EmptySet
    <2> HIDE DEF P, Q
    <2> QED
        BY <1>1, <2>1, <2>2
<1>4. Cardinality(P \cup Q) <= Len(chunks)
    <2>1. P \cup Q \subseteq 1 .. Len(chunks)
        BY <1>1
    <2>2. IsFiniteSet(1 .. Len(chunks)) /\ Cardinality(1 .. Len(chunks)) = Len(chunks)
        BY <1>1, UpToFinite
    <2> QED
        BY <2>1, <2>2, FS_Subset
<1> QED
    BY <1>3, <1>4 DEF Count

\* What close appends is bounded, and is an index and an entry at least if it
\* is anything.
LEMMA StdSizeBounds ==
    ASSUME WriterInv
    PROVE  /\ StdIndexesSize \in Nat
           /\ StdIndexesSize <= 40 * Len(chunks) + 64
           /\ \A s \in Streams : Written(s) # {} => StdIndexesSize >= 40
<1> DEFINE E(s) == Len(entries[s])
           W(s) == Cardinality(Written(s))
           X(s) == W(s) * 32 + (IF openDML THEN E(s) ELSE 0) * 8
<1>0. WriterTypes /\ EntryInv /\ FullInv /\ Streams = {0, 1} /\ Len(chunks) \in Nat
    BY DEF WriterInv, Streams, WriterTypes
<1>1. ASSUME NEW s \in Streams
      PROVE  /\ E(s) \in Nat /\ Count(s) \in Nat /\ E(s) <= Count(s)
             /\ W(s) \in Nat /\ W(s) <= E(s) + 1
             /\ Written(s) # {} => openDML /\ E(s) >= 1 /\ W(s) >= 1
    <2>1. /\ entries[s] \in Seq(Entry) /\ bases[s] \in Seq(Nat)
          /\ E(s) \in Nat /\ Len(bases[s]) \in Nat
          /\ DOMAIN entries[s] = 1 .. E(s) /\ DOMAIN bases[s] = 1 .. Len(bases[s])
        BY <1>0 DEF WriterTypes
    <2>2. Count(s) \in Nat
        BY <1>0, PositionsAreFinite DEF Count, WriterTypes
    <2>3. E(s) <= Count(s)
        BY <1>0, <2>2 DEF EntryInv
    <2>4. W(s) = IF openDML /\ entries[s] # <<>> THEN Len(bases[s]) ELSE 0
        BY <1>0, WrittenCount
    <2>5. W(s) \in Nat /\ W(s) <= E(s) + 1
        BY <1>0, <2>1, <2>4 DEF FullInv
    <2>6. ASSUME Written(s) # {}
          PROVE  openDML /\ E(s) >= 1 /\ W(s) >= 1
        <3>1. openDML /\ entries[s] # <<>>
            BY <2>6 DEF Written
        <3>2. E(s) >= 1
            BY <2>1, <3>1
        <3>3. entries[s][1].index \in 1 .. Len(bases[s])
            BY <1>0, <2>1, <3>2 DEF EntryInv
        <3> QED
            BY <2>1, <2>4, <3>1, <3>2, <3>3
    <2> QED
        BY <2>1, <2>2, <2>3, <2>5, <2>6
<1>2. StdIndexesSize = X(0) + X(1)
    BY DEF StdIndexesSize, StdIndexHeader, StdIndexEntry
<1>3. Count(0) + Count(1) <= Len(chunks)
    BY <1>0, CountsAddUp
<1>4. PICK e0 \in Nat, e1 \in Nat, w0 \in Nat, w1 \in Nat :
          e0 = E(0) /\ e1 = E(1) /\ w0 = W(0) /\ w1 = W(1)
    BY <1>0, <1>1
<1>a. /\ Count(0) \in Nat /\ e0 <= Count(0) /\ w0 <= e0 + 1
      /\ Written(0) # {} => openDML /\ e0 >= 1 /\ w0 >= 1
    BY <1>0, <1>1, <1>4
<1>b. /\ Count(1) \in Nat /\ e1 <= Count(1) /\ w1 <= e1 + 1
      /\ Written(1) # {} => openDML /\ e1 >= 1 /\ w1 >= 1
    BY <1>0, <1>1, <1>4
<1>5. /\ w0 <= e0 + 1 /\ w1 <= e1 + 1 /\ e0 + e1 <= Len(chunks)
      /\ Written(0) # {} => openDML /\ e0 >= 1 /\ w0 >= 1
      /\ Written(1) # {} => openDML /\ e1 >= 1 /\ w1 >= 1
    <2>1. e0 + e1 <= Len(chunks)
        BY <1>0, <1>3, <1>a, <1>b
    <2> QED
        BY <1>a, <1>b, <2>1
<1>6. /\ X(0) = w0 * 32 + (IF openDML THEN e0 ELSE 0) * 8
      /\ X(1) = w1 * 32 + (IF openDML THEN e1 ELSE 0) * 8
    BY <1>4
<1> HIDE DEF E, W, X
<1> QED
    BY <1>0, <1>2, <1>5, <1>6

-----------------------------------------------------------------------------
(* close and the destructor.                                               *)

Closes == wstate = "open" /\ CloseFile /\ wstate' \in {"closed", "destroyed"}

\* Where the file ends: the standard indexes and in the first RIFF the old one.
LEMMA CloseFacts ==
    ASSUME WriterInv, Closes
    PROVE  \E e \in Nat :
               /\ e = end + StdIndexesSize /\ std_at' = end
               /\ end' \in Nat /\ end' >= e
               /\ end' = IF Len(riffs) = 1 THEN e + 8 + 16 * Len(old) ELSE e
               /\ riffs' = Finish(e, end') /\ riffs # <<>>
               /\ old_at' \in Nat
               /\ Len(riffs) = 1 => old_at' = e
<1>0. WriterTypes /\ LayoutInv /\ StdIndexesSize \in Nat /\ riffs # <<>>
    BY StdSizeBounds DEF WriterInv, LayoutInv, Closes
<1>1. PICK e \in Nat : e = end + StdIndexesSize
    BY <1>0 DEF WriterTypes
<1>2. OldIndexSize = 8 + 16 * Len(old) /\ OldIndexSize \in Nat
    BY <1>0 DEF WriterTypes, OldIndexSize, OldIndexEntry
<1>3. /\ std_at' = end
      /\ riffs' = FinishAtClose(e)
      /\ end' = IF Len(riffs) = 1 THEN e + OldIndexSize ELSE e
      /\ old_at' = IF Len(riffs) = 1 THEN e ELSE old_at
    BY <1>1 DEF Closes, CloseFile
<1> QED
    BY <1>0, <1>1, <1>2, <1>3 DEF FinishAtClose, WriterTypes

LEMMA CloseStep ==
    ASSUME WriterInv, Closes
    PROVE  WriterInv'
<1>0. /\ WriterTypes /\ LayoutInv /\ OldInv /\ NthInv /\ EntryInv /\ FullInv /\ BaseInv
      /\ EntriesPointAtChunks /\ wstate = "open" /\ wstate' \in {"closed", "destroyed"}
      /\ streams' = streams /\ openDML' = openDML /\ reserved' = reserved
      /\ indexes' = indexes /\ chunks' = chunks /\ riff_size' = riff_size /\ old' = old
      /\ bases' = bases /\ entries' = entries /\ curr_base' = curr_base
    BY DEF WriterInv, Closes, CloseFile, setup, indexVars
<1>1. PICK e \in Nat :
          /\ e = end + StdIndexesSize /\ std_at' = end
          /\ end' \in Nat /\ end' >= e
          /\ riffs' = Finish(e, end') /\ riffs # <<>> /\ old_at' \in Nat
    BY CloseFacts
<1>2. /\ riffs' \in Seq(Riff) /\ Len(riffs') = Len(riffs)
      /\ \A r \in 1 .. Len(riffs) : riffs'[r].at = riffs[r].at /\ riffs'[r].movi = riffs[r].movi
    <2>1. Len(riffs) \in Nat
        BY <1>0 DEF WriterTypes
    <2>2. PICK total \in Nat : total = end'
        BY <1>1
    <2>3. /\ Finish(e, total) \in Seq(Riff)
          /\ Len(Finish(e, total)) = Len(riffs)
          /\ \A r \in 1 .. Len(riffs) - 1 : Finish(e, total)[r] = riffs[r]
          /\ Finish(e, total)[Len(riffs)].at = riffs[Len(riffs)].at
          /\ Finish(e, total)[Len(riffs)].movi = riffs[Len(riffs)].movi
        BY <1>0, <1>1, FinishIsRiff
    <2> QED
        BY <1>1, <2>1, <2>2, <2>3
<1>3. StdIndexesSize' = StdIndexesSize /\ StdIndexesSize \in Nat
    BY <1>0, StdSizeBounds DEF StdIndexesSize, Written
<1>4. WriterTypes'
    BY <1>0, <1>1, <1>2 DEF WriterTypes
<1>5. LayoutInv'
    <2>1. end \in Nat /\ end' >= end /\ end + StdIndexesSize <= end' /\ MoviStart \in Nat
        BY <1>0, <1>1, <1>3, AviAssumption DEF WriterTypes
    <2>2. riffs' # <<>> /\ riffs'[1].at = 0 /\ riffs'[1].movi = MoviStart
        <3>1. Len(riffs) \in Nat \ {0} /\ riffs[1].at = 0 /\ riffs[1].movi = MoviStart
            BY <1>0, <1>1 DEF LayoutInv, WriterTypes
        <3> QED
            BY <1>2, <3>1
    <2>3. \A c \in DOMAIN chunks : ChunkEnd(c)' = ChunkEnd(c)
        BY <1>0 DEF ChunkEnd
    <2>4. \A c \in DOMAIN chunks : ChunkEnd(c) \in Nat
        <3>1. \A c \in DOMAIN chunks : chunks[c] \in Chunk
            BY <1>0 DEF WriterTypes
        <3>2. \A c \in DOMAIN chunks : chunks[c].at \in Nat /\ chunks[c].len \in Nat
            BY <3>1 DEF Chunk
        <3> QED
            BY <3>2 DEF ChunkEnd, ChunkHeader
    <2>5. \A c \in DOMAIN chunks : ChunkEnd(c) <= end /\ ChunkEnd(c) <= end'
        BY <1>0, <1>1, <2>1, <2>4 DEF LayoutInv
    <2>6. end' >= MoviStart + 4
        BY <1>0, <1>1, <2>1 DEF LayoutInv
    <2> QED
        BY <1>0, <1>1, <1>3, <2>1, <2>2, <2>3, <2>5, <2>6 DEF LayoutInv
<1>6. OldInv' /\ NthInv' /\ EntryInv' /\ FullInv' /\ EntriesPointAtChunks'
    BY <1>0, <1>2 DEF OldInv, NthInv, Count, EntryInv, FullInv, InLast, Nth,
                      EntriesPointAtChunks, PointsAt, Shared
<1>7. BaseInv'
    <2>1. curr_base <= end => curr_base <= end'
        BY <1>0, <1>1, <1>3 DEF WriterTypes
    <2> QED
        BY <1>0, <2>1 DEF BaseInv
<1> QED
    BY <1>4, <1>5, <1>6, <1>7 DEF WriterInv

LEMMA DestroyClosedStep == WriterInv /\ DestroyClosed => WriterInv'
<1> SUFFICES ASSUME WriterInv, DestroyClosed PROVE WriterInv'
    OBVIOUS
<1>1. /\ wstate = "closed" /\ wstate' \in {"aborted", "destroyed"}
      /\ streams' = streams /\ openDML' = openDML /\ reserved' = reserved
      /\ indexes' = indexes /\ chunks' = chunks /\ riff_size' = riff_size /\ old' = old
      /\ bases' = bases /\ entries' = entries /\ curr_base' = curr_base
      /\ riffs' = riffs /\ end' = end /\ old_at' = old_at /\ std_at' = std_at
    BY DEF DestroyClosed, setup, indexVars
<1>2. WriterTypes'
    BY <1>1 DEF WriterInv, WriterTypes
<1>3. LayoutInv'
    <2>1. StdIndexesSize' = StdIndexesSize /\ \A c : ChunkEnd(c)' = ChunkEnd(c)
        BY <1>1 DEF StdIndexesSize, Written, ChunkEnd
    <2> QED
        BY <1>1, <2>1 DEF WriterInv, LayoutInv, Done
<1>4. OldInv' /\ NthInv' /\ EntryInv' /\ FullInv' /\ EntriesPointAtChunks'
    BY <1>1 DEF WriterInv, OldInv, NthInv, Count, EntryInv, FullInv, InLast, Nth,
                EntriesPointAtChunks, PointsAt, Shared
<1>5. BaseInv'
    BY <1>1 DEF WriterInv, BaseInv
<1> QED
    BY <1>2, <1>3, <1>4, <1>5 DEF WriterInv

LEMMA WriterStutters == WriterInv /\ UNCHANGED writeVars => WriterInv'
<1> SUFFICES ASSUME WriterInv, UNCHANGED writeVars PROVE WriterInv'
    OBVIOUS
<1> USE DEF writeVars, setup, indexVars
<1>1. StdIndexesSize' = StdIndexesSize /\ \A c : ChunkEnd(c)' = ChunkEnd(c)
    BY DEF StdIndexesSize, Written, ChunkEnd
<1>2. WriterTypes' /\ LayoutInv' /\ BaseInv'
    BY <1>1 DEF WriterInv, WriterTypes, LayoutInv, Done, BaseInv
<1>3. OldInv' /\ NthInv' /\ EntryInv' /\ FullInv' /\ EntriesPointAtChunks'
    BY DEF WriterInv, OldInv, NthInv, Count, EntryInv, FullInv, InLast, Nth,
           EntriesPointAtChunks, PointsAt, Shared
<1> QED
    BY <1>2, <1>3 DEF WriterInv

LEMMA WriterSteps == WriterInv /\ [Next]_vars => WriterInv'
<1> SUFFICES ASSUME WriterInv, [Next]_vars PROVE WriterInv'
    OBVIOUS
<1>1. CASE WriterNext
    <2>1. CASE Open
        BY <2>1, OpenStep
    <2>2. ASSUME NEW s \in Streams, NEW len \in Lengths, WriteData(s, len)
          PROVE  WriterInv'
        BY <2>2, WriteStep
    <2>3. CASE Close \/ DestroyOpen
        BY <2>3, CloseStep DEF Closes, Close, DestroyOpen
    <2>4. CASE DestroyClosed
        BY <2>4, DestroyClosedStep
    <2> QED
        BY <1>1, <2>1, <2>2, <2>3, <2>4 DEF WriterNext
<1>2. CASE UNCHANGED writeVars
    BY <1>2, WriterStutters
<1>3. WriterNext \/ UNCHANGED writeVars
    BY DEF Next, vars, ReaderOpen, ReadFrame, ReadEmpty, ReadByPosition, ReadByMovi,
           ReadByMoviFails
<1> QED
    BY <1>1, <1>2, <1>3

-----------------------------------------------------------------------------
(* The sizes of the RIFFs.                                                 *)

RiffParts == WithinInv /\ FinishedInv /\ CoveredInv /\ CurrentInv /\ ClosedInv

\* While the file is open the size that is counted is that of the RIFF, and
\* it does not wrap.
LEMMA RiffSizeFits ==
    ASSUME WriterInv, SizesFit, CurrentInv, wstate = "open", NEW len \in Lengths \cup {0}
    PROVE  /\ Len(riffs) \in Nat \ {0} /\ riffs[Len(riffs)] \in Riff
           /\ riff_size \in Nat /\ riff_size >= 20
           /\ riff_size + len + 8 + Appended < Dword
           /\ FirstMax + 16 < Dword
<1>0. WriterTypes /\ LayoutInv
    BY DEF WriterInv
<1>1. Len(riffs) \in Nat \ {0} /\ riffs[Len(riffs)] \in Riff
    BY <1>0 DEF LayoutInv, WriterTypes
<1>2. /\ riff_size \in Nat /\ end \in Nat /\ end >= MoviStart + 4 /\ MoviStart \in Nat
      /\ len \in Nat /\ Appended \in Nat /\ Len(old) \in Nat /\ Dword \in Nat
      /\ FirstMax \in Nat /\ LaterMax \in Nat
    BY <1>0, AviAssumption DEF WriterTypes, LayoutInv, Appended
<1>3. /\ MoviStart + 20 + len + 8 + Appended < Dword
      /\ FirstMax + 16 + len + 8 + Appended < Dword
      /\ LaterMax + len + 8 + Appended < Dword
      /\ \A l \in Lengths : 32 + l + len + 8 + Appended < Dword
    BY DEF SizesFit, ChunkHeader
<1>4. CASE Len(riffs) = 1
    <2>1. /\ riff_size = end + 16 * Len(old) + 16
          /\ riff_size < FirstMax + 16 \/ riff_size = MoviStart + 20
        BY <1>4 DEF CurrentInv, Last
    <2> QED
        BY <1>1, <1>2, <1>3, <2>1
<1>5. CASE Len(riffs) > 1
    <2>1. /\ riff_size >= 32
          /\ riff_size < LaterMax \/ \E l \in Lengths : riff_size = 32 + l
        BY <1>5 DEF CurrentInv, Last
    <2>2. riff_size + len + 8 + Appended < Dword
        <3>1. CASE riff_size < LaterMax
            BY <1>2, <1>3, <3>1
        <3>2. CASE \E l \in Lengths : riff_size = 32 + l
            <4>1. PICK l \in Lengths : riff_size = 32 + l
                BY <3>2
            <4> QED
                BY <1>3, <4>1
        <3> QED
            BY <2>1, <3>1, <3>2
    <2> QED
        BY <1>1, <1>2, <1>3, <2>1, <2>2
<1>6. Len(riffs) = 1 \/ Len(riffs) > 1
    <2>1. \A n \in Nat \ {0} : n = 1 \/ n > 1
        OBVIOUS
    <2> QED
        BY <1>1, <2>1
<1> QED
    BY <1>4, <1>5, <1>6

LEMMA OpenRiff ==
    ASSUME WriterInv, Open
    PROVE  RiffParts'
<1>1. /\ wstate' = "open" /\ chunks' = <<>> /\ old' = <<>> /\ end' = MoviStart + 4
      /\ riffs' = <<[at |-> 0, size |-> 0, movi |-> MoviStart, movi_size |-> 0]>>
      /\ riff_size' = MoviStart + 20
    BY AviAssumption DEF WriterInv, LayoutInv, Open, OldIndexEntry
<1> DEFINE r == [at |-> 0, size |-> 0, movi |-> MoviStart, movi_size |-> 0]
<1>2. Len(riffs') = 1 /\ DOMAIN riffs' = {1} /\ riffs'[1].at = 0 /\ riffs'[1].movi = MoviStart
    <2>1. riffs' = <<r>> /\ r.at = 0 /\ r.movi = MoviStart
        BY <1>1
    <2> HIDE DEF r
    <2> QED
        BY <2>1
<1>3. WithinInv' /\ FinishedInv' /\ CoveredInv'
    BY <1>1, <1>2, AviAssumption DEF WithinInv, FinishedInv, CoveredInv
<1>4. CurrentInv' /\ ClosedInv'
    BY <1>1, <1>2, AviAssumption DEF CurrentInv, ClosedInv, Last, Done
<1> QED
    BY <1>3, <1>4 DEF RiffParts

\* What a chunk changes in the list of chunks.
PutAt(s, at, len) ==
    /\ Len(chunks) \in Nat /\ DOMAIN chunks = 1 .. Len(chunks)
    /\ DOMAIN chunks' = 1 .. Len(chunks) + 1 /\ Len(chunks') = Len(chunks) + 1
    /\ \A c \in 1 .. Len(chunks) :
           chunks'[c] = chunks[c] /\ chunks[c].at \in Nat /\ chunks[c].len \in Nat
    /\ chunks'[Len(chunks) + 1].at = at /\ chunks'[Len(chunks) + 1].len = len
    /\ end' = at + 8 + len /\ at \in Nat /\ len \in Nat /\ end \in Nat /\ at >= end
    /\ \A c \in 1 .. Len(chunks) : chunks[c].at + 8 + chunks[c].len <= end
    /\ wstate = "open" /\ wstate' = "open"

LEMMA PutChunk ==
    ASSUME WriterInv, NEW s, NEW at, NEW len, Puts(s, at, len)
    PROVE  PutAt(s, at, len)
<1> DEFINE e == [stream |-> s, at |-> at, len |-> len]
<1>0. WriterTypes /\ LayoutInv /\ s \in Streams /\ at \in Nat /\ len \in Nat
    BY DEF WriterInv, Puts, WriterTypes, Streams
<1>1. e \in Chunk /\ e.at = at /\ e.len = len /\ chunks' = Append(chunks, e)
      /\ chunks \in Seq(Chunk)
    BY <1>0 DEF Puts, Put, Chunk, WriterTypes
<1> HIDE DEF e
<1>2. /\ Len(chunks) \in Nat /\ Len(chunks') = Len(chunks) + 1
      /\ DOMAIN chunks = 1 .. Len(chunks) /\ DOMAIN chunks' = 1 .. Len(chunks) + 1
      /\ chunks'[Len(chunks) + 1] = e
      /\ \A c \in 1 .. Len(chunks) : chunks'[c] = chunks[c] /\ chunks[c] \in Chunk
    BY <1>1, AppendProperties
<1>3. \A c \in 1 .. Len(chunks) : chunks[c].at \in Nat /\ chunks[c].len \in Nat
    BY <1>2 DEF Chunk
<1>4. \A c \in 1 .. Len(chunks) : chunks[c].at + 8 + chunks[c].len <= end
    BY <1>0, <1>2 DEF LayoutInv, ChunkEnd, ChunkHeader
<1>5. /\ end' = at + 8 + len /\ end \in Nat /\ at >= end
      /\ wstate = "open" /\ wstate' = "open"
    BY <1>0 DEF Puts, Put, ChunkHeader, WriterTypes
<1> QED
    BY <1>0, <1>1, <1>2, <1>3, <1>4, <1>5 DEF PutAt

\* A chunk that stays in the RIFF: it is tested against the limit before the
\* entry of the old index is added.
LEMMA KeepsRiffParts ==
    ASSUME WriterInv, SizesFit, RiffParts, NEW s, NEW at, NEW len \in Lengths,
           Puts(s, at, len), KeepsRiff(at, len)
    PROVE  RiffParts'
<1> DEFINE n == Len(chunks)
<1>0. /\ WriterTypes /\ LayoutInv /\ OldInv
      /\ WithinInv /\ FinishedInv /\ CoveredInv /\ CurrentInv /\ ClosedInv
    BY DEF WriterInv, RiffParts
<1>1. PutAt(s, at, len)
    BY PutChunk
<1>2. /\ at = end /\ riffs' = riffs /\ end' = end + 8 + len /\ end \in Nat /\ len \in Nat
      /\ wstate = "open" /\ wstate' = "open"
    BY <1>1 DEF PutAt, KeepsRiff
<1>3. PICK L \in Nat \ {0} : L = Len(riffs)
    BY <1>0, <1>2 DEF LayoutInv, WriterTypes
<1>4. /\ riffs[L] \in Riff /\ DOMAIN riffs = 1 .. L
      /\ \A r \in 1 .. L : riffs[r].at \in Nat /\ riffs[r].movi \in Nat
                           /\ riffs[r].size \in Nat /\ riffs[r].movi_size \in Nat
    <2>1. \A r \in 1 .. L : riffs[r] \in Riff
        BY <1>0, <1>3 DEF WriterTypes
    <2>2. DOMAIN riffs = 1 .. L
        BY <1>0, <1>3 DEF WriterTypes
    <2> QED
        BY <1>3, <2>1, <2>2 DEF Riff
<1>5. /\ riff_size \in Nat /\ riff_size + len + 8 + Appended < Dword
      /\ FirstMax + 16 < Dword /\ Appended \in Nat
    BY <1>0, <1>2, RiffSizeFits, AviAssumption DEF Appended
<1>6. riff_size + len + 8 < IF L = 1 THEN FirstMax ELSE LaterMax
    <2>1. riff_size + len + 8 \in 0 .. Dword - 1
        BY <1>2, <1>5, AviAssumption
    <2>2. (riff_size + len + 8) % Dword = riff_size + len + 8
        BY <2>1, ModSmall
    <2>3. ~((riff_size + len + 8) % Dword >= IF L = 1 THEN FirstMax ELSE LaterMax)
        BY <1>3 DEF KeepsRiff, StartsRiff, MaxRiff, ChunkHeader
    <2> QED
        BY <1>2, <1>5, <2>2, <2>3, AviAssumption
<1>7. riff_size' = riff_size + len + 8 + (IF L = 1 THEN 16 ELSE 0)
    <2>1. riff_size' = (riff_size + len + 8 + (IF L = 1 THEN 16 ELSE 0)) % Dword
        BY <1>3 DEF KeepsRiff, ChunkHeader, OldIndexEntry
    <2>2. riff_size + len + 8 + (IF L = 1 THEN 16 ELSE 0) \in 0 .. Dword - 1
        BY <1>2, <1>5, <1>6, AviAssumption
    <2> QED
        BY <2>1, <2>2, ModSmall
<1>8. WithinInv'
    BY <1>0, <1>2, <1>4 DEF WithinInv
<1>9. FinishedInv'
    <2>1. ASSUME NEW r \in 1 .. L - 1, NEW c \in 1 .. n + 1, Between(c, r)'
          PROVE  c \in 1 .. n /\ Between(c, r)
        <3>1. r + 1 \in 1 .. L /\ riffs[r + 1].at <= end
            BY <1>0, <1>3, <1>4 DEF WithinInv
        <3>2. chunks'[c].at > riffs[r].at /\ chunks'[c].at < riffs[r + 1].at
            BY <1>2, <2>1 DEF Between
        <3>3. c # n + 1
            BY <1>1, <1>2, <1>4, <3>1, <3>2 DEF PutAt
        <3>4. c \in 1 .. n
            BY <1>1, <3>3 DEF PutAt
        <3> QED
            BY <1>1, <3>2, <3>4 DEF PutAt, Between
    <2>2. DOMAIN chunks = 1 .. n /\ DOMAIN chunks' = 1 .. n + 1
        BY <1>1 DEF PutAt
    <2> QED
        BY <1>0, <1>2, <1>3, <2>1, <2>2 DEF FinishedInv
<1>10. L = 1 => riffs[L].movi + 4 <= end
    BY <1>0, <1>2, <1>3 DEF LayoutInv
<1>11. riffs[L].at <= riffs[L].movi /\ riffs[L].movi + 4 <= end
    BY <1>0, <1>2, <1>3 DEF CurrentInv, Last
<1>12. CoveredInv'
    <2>1. ASSUME NEW c \in 1 .. n + 1
          PROVE  \E r \in 1 .. L :
                     /\ chunks'[c].at >= riffs[r].movi + 4
                     /\ r < L => chunks'[c].at + 8 + chunks'[c].len
                                     <= riffs[r].movi + riffs[r].movi_size
        <3>1. CASE c = n + 1
            <4>1. chunks'[c].at = end
                BY <1>1, <1>2, <3>1 DEF PutAt
            <4>2. L \in 1 .. L /\ ~(L < L) /\ chunks'[c].at >= riffs[L].movi + 4
                BY <1>3, <1>11, <4>1
            <4> QED
                BY <4>2
        <3>2. CASE c \in 1 .. n
            <4>1. PICK r \in 1 .. L :
                      /\ chunks[c].at >= riffs[r].movi + 4
                      /\ r < L => ChunkEnd(c) <= riffs[r].movi + riffs[r].movi_size
                BY <1>0, <1>1, <1>3, <1>4, <3>2 DEF CoveredInv, PutAt
            <4>2. chunks'[c] = chunks[c]
                BY <1>1, <3>2 DEF PutAt
            <4> QED
                BY <4>1, <4>2 DEF ChunkEnd, ChunkHeader
        <3> QED
            <4>1. c = n + 1 \/ c \in 1 .. n
                BY <1>1 DEF PutAt
            <4> QED
                BY <3>1, <3>2, <4>1
    <2>2. ~Done' /\ DOMAIN chunks' = 1 .. n + 1
        BY <1>1 DEF PutAt, Done
    <2> QED
        BY <1>2, <1>3, <1>4, <2>1, <2>2 DEF CoveredInv, ChunkEnd, ChunkHeader
<1>13. CurrentInv'
    <2>1. riffs[L].movi + 4 <= end'
        BY <1>2, <1>4, <1>11
    <2>2. ASSUME L = 1
          PROVE  riff_size' = end' + 16 * Len(old') + 16 /\ riff_size' < FirstMax + 16
        <3>1. riff_size = end + 16 * Len(old) + 16
            BY <1>0, <1>2, <1>3, <2>2 DEF CurrentInv, Last
        <3>2. Len(old') = Len(old) + 1 /\ Len(old) \in Nat
            <4>1. old' = Append(old, [stream |-> s, offset |-> at - MoviStart, len |-> len])
                BY <1>2, <1>3, <2>2 DEF Puts, Put
            <4>2. old \in Seq(Old)
                BY <1>0 DEF WriterTypes
            <4> QED
                BY <4>1, <4>2
        <3> QED
            BY <1>2, <1>5, <1>6, <1>7, <2>2, <3>1, <3>2, AviAssumption
    <2>3. ASSUME L > 1
          PROVE  riff_size' = end' - riffs[L].at /\ riff_size' >= 32 /\ riff_size' < LaterMax
        <3>1. riff_size = end - riffs[L].at /\ riff_size >= 32
            BY <1>0, <1>2, <1>3, <2>3 DEF CurrentInv, Last
        <3>2. riffs[L].at \in Nat
            BY <1>3, <1>4
        <3>3. riff_size' = riff_size + len + 8 /\ riff_size + len + 8 < LaterMax
            <4>1. L # 1
                BY <1>3, <2>3
            <4>2. riff_size' = riff_size + len + 8 + 0 /\ riff_size + len + 8 < LaterMax
                BY <1>6, <1>7, <4>1
            <4> QED
                BY <1>2, <1>5, <4>2
        <3> QED
            BY <1>2, <1>5, <3>1, <3>2, <3>3, AviAssumption
    <2> QED
        BY <1>2, <1>3, <1>11, <2>1, <2>2, <2>3 DEF CurrentInv, Last
<1>14. ClosedInv'
    BY <1>2 DEF ClosedInv, Done
<1> QED
    BY <1>8, <1>9, <1>12, <1>13, <1>14 DEF RiffParts

\* The sizes that are written when a further bytes follow the chunks.
LEMMA FinishedSize ==
    ASSUME WriterInv, SizesFit, CurrentInv, wstate = "open",
           NEW a \in Nat, a <= Appended, NEW e \in Nat, e = end + a,
           NEW total \in Nat, total = IF Len(riffs) = 1 THEN e + 8 + 16 * Len(old) ELSE e
    PROVE  LET f == Finish(e, total)[Len(riffs)] IN
           /\ f.at = riffs[Len(riffs)].at /\ f.movi = riffs[Len(riffs)].movi
           /\ f.at + 8 + f.size = total
           /\ f.movi + f.movi_size = e
           /\ f.size = IF Len(riffs) = 1 THEN riff_size + a - 16 ELSE riff_size + a - 8
<1>0. WriterTypes /\ LayoutInv /\ end \in Nat /\ riffs # <<>> /\ Len(old) \in Nat
    BY DEF WriterInv, WriterTypes, LayoutInv
<1>1. PICK L \in Nat \ {0} : L = Len(riffs)
    BY RiffSizeFits
<1>2. PICK r \in Riff : r = riffs[L]
    BY <1>1, RiffSizeFits
<1>3. r.at \in Nat /\ r.movi \in Nat
    BY <1>2 DEF Riff
<1>4. /\ riff_size \in Nat /\ riff_size >= 20
      /\ riff_size + 0 + 8 + Appended < Dword /\ Appended \in Nat
    BY RiffSizeFits, AviAssumption DEF Appended
<1>5. r.at <= r.movi /\ r.movi + 4 <= end
    BY <1>1, <1>2 DEF CurrentInv, Last
<1>6. /\ Finish(e, total)[L].at = r.at /\ Finish(e, total)[L].movi = r.movi
      /\ Finish(e, total)[L].size = (total - r.at - 8) % Dword
      /\ Finish(e, total)[L].movi_size = (e - r.movi) % Dword
    <2>1. LET f == Finish(e, total)[Len(riffs)]
              q == riffs[Len(riffs)]
          IN /\ f.at = q.at /\ f.movi = q.movi
             /\ f.size = (total - q.at - 8) % Dword
             /\ f.movi_size = (e - q.movi) % Dword
        <3>1. WriterTypes /\ riffs # <<>> /\ e \in Nat /\ total \in Nat
            BY <1>0
        <3> QED
            BY ONLY <3>1, FinishIsRiff, Zenon
    <2> QED
        BY <1>1, <1>2, <2>1
<1>7. CASE L = 1
    <2>1. r.at = 0 /\ riff_size = end + 16 * Len(old) + 16
        BY <1>0, <1>1, <1>2, <1>7 DEF CurrentInv, Last, LayoutInv
    <2>2. total = e + 8 + 16 * Len(old)
        BY <1>1, <1>7
    <2>3. total - r.at - 8 \in 0 .. Dword - 1 /\ total - r.at - 8 = riff_size + a - 16
        BY <1>0, <1>4, <2>1, <2>2, AviAssumption
    <2>4. e - r.movi \in 0 .. Dword - 1
        BY <1>0, <1>3, <1>4, <1>5, <2>1, AviAssumption
    <2>5. /\ (total - r.at - 8) % Dword = total - r.at - 8
          /\ (e - r.movi) % Dword = e - r.movi
        BY <2>3, <2>4, ModSmall
    <2> QED
        <3>1. Finish(e, total)[L].size = riff_size + a - 16 /\ r.at + 8 + (total - r.at - 8) = total
            BY <1>6, <2>1, <2>3, <2>5
        <3>2. r.movi + (e - r.movi) = e
            BY <1>3
        <3>3. Finish(e, total)[L].size = total - r.at - 8
            BY <1>6, <2>5
        <3>4. Finish(e, total)[L].movi_size = e - r.movi
            BY <1>6, <2>5
        <3> QED
            BY <1>1, <1>2, <1>6, <1>7, <3>1, <3>2, <3>3, <3>4
<1>8. CASE L # 1
    <2>0. L > 1
        BY <1>1, <1>8
    <2>1. riff_size = end - r.at /\ riff_size >= 32
        BY <1>0, <1>1, <1>2, <2>0 DEF CurrentInv, Last
    <2>2. total = e
        BY <1>1, <1>8
    <2>a. PICK p \in Nat, q \in Nat : p = r.at /\ q = r.movi
        BY <1>3
    <2>b. total = end + a /\ riff_size = end - p /\ p <= q /\ q + 4 <= end
        BY <1>5, <2>1, <2>2, <2>a
    <2>3. total - r.at - 8 \in 0 .. Dword - 1 /\ total - r.at - 8 = riff_size + a - 8
        <3>1. total - p - 8 = riff_size + a - 8
            BY <1>0, <2>b
        <3>2. riff_size + a - 8 \in 0 .. Dword - 1
            BY <1>4, AviAssumption
        <3> QED
            BY <2>a, <3>1, <3>2
    <2>4. e - r.movi \in 0 .. Dword - 1
        <3>1. e - q <= riff_size + a /\ e - q \in Nat
            BY <1>0, <2>b
        <3> QED
            BY <1>4, <2>a, <3>1, AviAssumption
    <2>5. /\ (total - r.at - 8) % Dword = total - r.at - 8
          /\ (e - r.movi) % Dword = e - r.movi
        BY <2>3, <2>4, ModSmall
    <2> QED
        <3>1. r.at + 8 + (total - r.at - 8) = total /\ r.movi + (e - r.movi) = e
            <4>1. \A x, y \in Int : x + 8 + (y - x - 8) = y /\ x + (y - x) = y
                OBVIOUS
            <4>2. total \in Int /\ e \in Int
                BY <1>0, <1>1, <2>2, <2>b
            <4>3. p + 8 + (total - p - 8) = total /\ q + (e - q) = e
                <5>1. p \in Int /\ q \in Int
                    BY <2>a
                <5> QED
                    BY ONLY <4>1, <4>2, <5>1, Zenon
            <4> QED
                BY <2>a, <4>3
        <3>3. Finish(e, total)[L].size = total - r.at - 8
            BY <1>6, <2>5
        <3>4. Finish(e, total)[L].movi_size = e - r.movi
            BY <1>6, <2>5
        <3>5. Finish(e, total)[L].size = riff_size + a - 8
            BY <2>3, <3>3
        <3> QED
            BY <1>1, <1>2, <1>6, <1>8, <3>1, <3>3, <3>4, <3>5
<1> QED
    BY <1>7, <1>8

\* A chunk that begins a RIFF; the one before is finished.
LEMMA BeginsRiffParts ==
    ASSUME WriterInv, SizesFit, RiffParts, NEW s, NEW at, NEW len \in Lengths,
           Puts(s, at, len), BeginsRiff(at, len)
    PROVE  RiffParts'
<1> DEFINE n == Len(chunks)
<1>0. /\ WriterTypes /\ LayoutInv /\ OldInv
      /\ WithinInv /\ FinishedInv /\ CoveredInv /\ CurrentInv /\ ClosedInv
    BY DEF WriterInv, RiffParts
<1>1. PutAt(s, at, len)
    BY PutChunk
<1>2. PICK F \in Nat : F = FinishedEnd /\ F >= end /\ at = F + 24
    BY DEF BeginsRiff
<1>3. /\ end' = F + 24 + 8 + len /\ end \in Nat /\ len \in Nat
      /\ wstate = "open" /\ wstate' = "open"
    BY <1>1, <1>2 DEF PutAt
<1>4. PICK L \in Nat \ {0} : L = Len(riffs)
    BY <1>0, <1>3 DEF LayoutInv, WriterTypes
<1>5. /\ DOMAIN riffs = 1 .. L
      /\ \A r \in 1 .. L : riffs[r].at \in Nat /\ riffs[r].movi \in Nat
                           /\ riffs[r].size \in Nat /\ riffs[r].movi_size \in Nat
    <2>1. \A r \in 1 .. L : riffs[r] \in Riff
        BY <1>0, <1>4 DEF WriterTypes
    <2>2. DOMAIN riffs = 1 .. L
        BY <1>0, <1>4 DEF WriterTypes
    <2> QED
        BY <2>1, <2>2 DEF Riff
<1>6. F = IF L = 1 THEN end + 8 + 16 * Len(old) ELSE end
    <2>1. Len(old) \in Nat
        BY <1>0 DEF WriterTypes
    <2> QED
        BY <1>2, <1>3, <1>4, <2>1 DEF FinishedEnd, OldIndexSize, OldIndexEntry
<1>7. /\ \A r \in 1 .. L - 1 : riffs'[r] = riffs[r]
      /\ riffs'[L].at = riffs[L].at /\ riffs'[L].movi = riffs[L].movi
      /\ riffs'[L].at + 8 + riffs'[L].size = F
      /\ riffs'[L].movi + riffs'[L].movi_size = end
      /\ riffs'[L].size = IF L = 1 THEN riff_size - 16 ELSE riff_size - 8
    <2>1. FinishForNext = Finish(end, F)
        BY <1>2 DEF FinishForNext
    <2>2. \A r \in 1 .. L - 1 : FinishForNext[r] = riffs[r]
        BY <1>0, <1>2, <1>3, <1>4, <2>1, FinishIsRiff DEF LayoutInv
    <2>3. end = end + 0 /\ 0 <= Appended /\ 0 \in Nat
        BY <1>3, AviAssumption DEF Appended
    <2>4. LET f == Finish(end, F)[Len(riffs)] IN
          /\ f.at = riffs[Len(riffs)].at /\ f.movi = riffs[Len(riffs)].movi
          /\ f.at + 8 + f.size = F
          /\ f.movi + f.movi_size = end
          /\ f.size = IF Len(riffs) = 1 THEN riff_size + 0 - 16 ELSE riff_size + 0 - 8
        <3>1. F = IF Len(riffs) = 1 THEN end + 8 + 16 * Len(old) ELSE end
            BY <1>4, <1>6
        <3> QED
            <4>1. wstate = "open" /\ CurrentInv /\ 0 \in Nat /\ 0 <= Appended
                BY <1>0, <1>3, <2>3
            <4>2. end \in Nat /\ end = end + 0 /\ F \in Nat
                BY <1>3, <2>3
            <4> QED
                BY <3>1, <4>1, <4>2, FinishedSize
    <2>5. \A r \in 1 .. L : riffs'[r] = FinishForNext[r]
        BY <1>4 DEF BeginsRiff
    <2>6. riff_size \in Nat
        BY <1>0 DEF WriterTypes
    <2> QED
        BY <1>4, <2>1, <2>2, <2>4, <2>5, <2>6
<1>8. /\ Len(riffs') = L + 1 /\ DOMAIN riffs' = 1 .. L + 1
      /\ riffs'[L + 1].at = F /\ riffs'[L + 1].movi = F + 20
    BY <1>2, <1>4 DEF BeginsRiff, Begun
<1>9. WithinInv'
    <2>1. ASSUME NEW r \in 1 .. L
          PROVE  riffs'[r].at = riffs[r].at /\ riffs[r].at <= end'
        <3>1. riffs[r].at <= end /\ riffs[r].at \in Nat
            BY <1>0, <1>5 DEF WithinInv
        <3> QED
            BY <1>2, <1>3, <1>4, <1>7, <3>1
    <2>2. F <= end'
        BY <1>2, <1>3
    <2> QED
        BY <1>4, <1>8, <2>1, <2>2 DEF WithinInv
<1>10. FinishedInv'
    <2>1. ASSUME NEW r \in 1 .. L, NEW c \in 1 .. n + 1,
                 chunks'[c].at > riffs'[r].at, chunks'[c].at < riffs'[r + 1].at
          PROVE  c \in 1 .. n /\ chunks'[c] = chunks[c]
        <3>1. riffs'[r + 1].at <= F /\ riffs'[r + 1].at \in Nat
            <4>1. CASE r = L
                BY <1>2, <1>8, <4>1
            <4>2. CASE r # L
                <5>1. r + 1 \in 1 .. L /\ riffs'[r + 1].at = riffs[r + 1].at
                    BY <1>4, <1>7, <4>2
                <5>2. riffs[r + 1].at <= end /\ riffs[r + 1].at \in Nat
                    BY <1>0, <1>5, <5>1 DEF WithinInv
                <5> QED
                    BY <1>2, <1>3, <5>1, <5>2
            <4> QED
                BY <4>1, <4>2
        <3>2. c # n + 1
            BY <1>1, <1>2, <2>1, <3>1 DEF PutAt
        <3>3. c \in 1 .. n
            BY <1>1, <3>2 DEF PutAt
        <3> QED
            BY <1>1, <3>3 DEF PutAt
    <2>2. ASSUME NEW r \in 1 .. L
          PROVE  /\ riffs'[r].at + 8 + riffs'[r].size = riffs'[r + 1].at
                 /\ \/ riffs'[r].size < IF r = 1 THEN FirstMax ELSE LaterMax
                    \/ \A c, d \in 1 .. n + 1 :
                          (/\ chunks'[c].at > riffs'[r].at /\ chunks'[c].at < riffs'[r + 1].at
                           /\ chunks'[d].at > riffs'[r].at /\ chunks'[d].at < riffs'[r + 1].at)
                              => c = d
        <3>1. CASE r # L
            <4>1. /\ r \in 1 .. L - 1 /\ r + 1 \in 1 .. L
                  /\ riffs'[r] = riffs[r] /\ riffs'[r + 1].at = riffs[r + 1].at
                BY <1>4, <1>7, <3>1
            <4>2. /\ riffs[r].at + 8 + riffs[r].size = riffs[r + 1].at
                  /\ \/ riffs[r].size < IF r = 1 THEN FirstMax ELSE LaterMax
                     \/ \A c, d \in DOMAIN chunks : Between(c, r) /\ Between(d, r) => c = d
                BY <1>0, <1>4, <4>1 DEF FinishedInv
            <4>3. DOMAIN chunks = 1 .. n
                BY <1>1 DEF PutAt
            <4>4. ASSUME \A c, d \in DOMAIN chunks : Between(c, r) /\ Between(d, r) => c = d,
                         NEW c \in 1 .. n + 1, NEW d \in 1 .. n + 1,
                         chunks'[c].at > riffs'[r].at, chunks'[c].at < riffs'[r + 1].at,
                         chunks'[d].at > riffs'[r].at, chunks'[d].at < riffs'[r + 1].at
                  PROVE  c = d
                <5>1. c \in 1 .. n /\ d \in 1 .. n /\ chunks'[c] = chunks[c] /\ chunks'[d] = chunks[d]
                    BY <2>1, <4>4
                <5> QED
                    BY <4>1, <4>3, <4>4, <5>1 DEF Between
            <4> QED
                BY <4>1, <4>2, <4>4
        <3>2. CASE r = L
            <4>1. riffs'[r].at + 8 + riffs'[r].size = riffs'[r + 1].at
                BY <1>7, <1>8, <3>2
            <4>2. CASE L = 1
                <5>1. riff_size < FirstMax + 16 \/ chunks = <<>>
                    BY <1>0, <1>3, <1>4, <4>2 DEF CurrentInv, Last
                <5>2. CASE riff_size < FirstMax + 16
                    <6>1. riffs'[r].size = riff_size - 16 /\ riff_size \in Nat
                        BY <1>0, <1>7, <3>2, <4>2 DEF WriterTypes
                    <6>2. riffs'[r].size < FirstMax
                        BY <5>2, <6>1, AviAssumption
                    <6> QED
                        BY <3>2, <4>1, <4>2, <6>2
                <5>3. CASE chunks = <<>>
                    <6>1. n = 0 /\ 1 .. n = {}
                        BY <5>3
                    <6> QED
                        BY <2>1, <4>1, <6>1
                <5> QED
                    BY <5>1, <5>2, <5>3
            <4>3. CASE L # 1
                <5>0. L > 1
                    BY <1>4, <4>3
                <5>1. \/ riff_size < LaterMax
                      \/ \A c \in DOMAIN chunks : c < Len(chunks) => chunks[c].at < riffs[L].at
                    BY <1>0, <1>3, <1>4, <5>0 DEF CurrentInv, Last
                <5>2. CASE riff_size < LaterMax
                    <6>1. riffs'[r].size = riff_size - 8 /\ riff_size \in Nat
                        BY <1>0, <1>7, <3>2, <4>3 DEF WriterTypes
                    <6>2. riffs'[r].size < LaterMax
                        BY <5>2, <6>1, AviAssumption
                    <6> QED
                        BY <3>2, <4>1, <4>3, <6>2
                <5>3. CASE \A c \in DOMAIN chunks : c < Len(chunks) => chunks[c].at < riffs[L].at
                    <6>1. ASSUME NEW c \in 1 .. n + 1,
                                 chunks'[c].at > riffs'[r].at, chunks'[c].at < riffs'[r + 1].at
                          PROVE  c = n
                        <7>1. c \in 1 .. n /\ chunks'[c] = chunks[c]
                            BY <2>1, <6>1
                        <7>2. /\ DOMAIN chunks = 1 .. n /\ n \in Nat
                              /\ chunks[c].at \in Nat /\ riffs[L].at \in Nat
                            BY <1>1, <1>4, <1>5, <7>1 DEF PutAt
                        <7>3. ~(c < n)
                            BY <1>7, <3>2, <5>3, <6>1, <7>1, <7>2
                        <7> QED
                            BY <7>1, <7>2, <7>3
                    <6> QED
                        BY <4>1, <6>1
                <5> QED
                    BY <5>1, <5>2, <5>3
            <4> QED
                BY <4>2, <4>3
        <3> QED
            BY <3>1, <3>2
    <2>3. DOMAIN chunks' = 1 .. n + 1
        BY <1>1 DEF PutAt
    <2>4. Len(riffs') - 1 = L
        BY <1>4, <1>8
    <2> QED
        BY <2>2, <2>3, <2>4 DEF FinishedInv, Between
<1>11. CoveredInv'
    <2>1. ASSUME NEW c \in 1 .. n + 1
          PROVE  \E r \in 1 .. L + 1 :
                     /\ chunks'[c].at >= riffs'[r].movi + 4
                     /\ r < L + 1 => chunks'[c].at + 8 + chunks'[c].len
                                         <= riffs'[r].movi + riffs'[r].movi_size
        <3>1. CASE c = n + 1
            <4>1. chunks'[c].at = F + 24
                BY <1>1, <1>2, <3>1 DEF PutAt
            <4>2. L + 1 \in 1 .. L + 1 /\ ~(L + 1 < L + 1)
                  /\ chunks'[c].at >= riffs'[L + 1].movi + 4
                BY <1>2, <1>4, <1>8, <4>1
            <4> QED
                BY <4>2
        <3>2. CASE c \in 1 .. n
            <4>1. PICK r \in 1 .. L :
                      /\ chunks[c].at >= riffs[r].movi + 4
                      /\ r < L => ChunkEnd(c) <= riffs[r].movi + riffs[r].movi_size
                BY <1>0, <1>1, <1>4, <1>5, <3>2 DEF CoveredInv, PutAt
            <4>2. chunks'[c] = chunks[c] /\ chunks[c].at + 8 + chunks[c].len <= end
                BY <1>1, <3>2 DEF PutAt
            <4>3. r \in 1 .. L + 1 /\ riffs'[r].movi = riffs[r].movi
                BY <1>4, <1>7
            <4>4. CASE r = L
                <5>1. riffs'[r].movi + riffs'[r].movi_size = end
                    BY <1>7, <4>4
                <5> QED
                    BY <4>1, <4>2, <4>3, <5>1
            <4>5. CASE r # L
                <5>1. r < L /\ riffs'[r] = riffs[r]
                    BY <1>4, <1>7, <4>5
                <5> QED
                    BY <4>1, <4>2, <4>3, <5>1 DEF ChunkEnd, ChunkHeader
            <4> QED
                BY <4>4, <4>5
        <3> QED
            <4>1. c = n + 1 \/ c \in 1 .. n
                BY <1>1 DEF PutAt
            <4> QED
                BY <3>1, <3>2, <4>1
    <2>2. ~Done' /\ DOMAIN chunks' = 1 .. n + 1
        BY <1>1 DEF PutAt, Done
    <2> QED
        BY <1>8, <2>1, <2>2 DEF CoveredInv, ChunkEnd, ChunkHeader
<1>12. CurrentInv'
    <2>1. riff_size' = 32 + len
        <3>1. 32 + len + 0 + 8 + Appended < Dword /\ Appended \in Nat
            BY AviAssumption DEF SizesFit, ChunkHeader, Appended
        <3>2. 24 + len + 8 \in 0 .. Dword - 1 /\ 24 + len + 8 = 32 + len
            BY <1>3, <3>1, AviAssumption
        <3>3. riff_size' = (24 + len + 8) % Dword
            BY DEF BeginsRiff, ChunkHeader
        <3> QED
            BY <3>2, <3>3, ModSmall
    <2>2. F <= F + 20 /\ F + 20 + 4 <= end' /\ 32 + len = end' - F /\ 32 + len >= 32
        BY <1>2, <1>3
    <2>3. ASSUME NEW c \in DOMAIN chunks', c < Len(chunks')
          PROVE  chunks'[c].at < F
        <3>1. /\ c \in 1 .. n /\ chunks'[c] = chunks[c]
              /\ chunks[c].at \in Nat /\ chunks[c].len \in Nat
            BY <1>1, <2>3 DEF PutAt
        <3>2. chunks[c].at + 8 + chunks[c].len <= end /\ end \in Nat
            BY <1>1, <3>1 DEF PutAt
        <3>3. chunks[c].at < end
            BY <3>1, <3>2
        <3> QED
            BY <1>2, <3>1, <3>2, <3>3
    <2>4. L + 1 > 1 /\ L + 1 # 1
        BY <1>4
    <2> QED
        BY <1>8, <2>1, <2>2, <2>3, <2>4 DEF CurrentInv, Last
<1>13. ClosedInv'
    BY <1>3 DEF ClosedInv, Done
<1> QED
    BY <1>9, <1>10, <1>11, <1>12, <1>13 DEF RiffParts

\* close finishes the last RIFF behind the standard indexes.
LEMMA CloseRiffParts ==
    ASSUME WriterInv, SizesFit, RiffParts, Closes
    PROVE  RiffParts'
<1>0. /\ WriterTypes /\ LayoutInv /\ WithinInv /\ FinishedInv /\ CoveredInv /\ CurrentInv
      /\ wstate = "open" /\ wstate' # "open" /\ chunks' = chunks /\ end \in Nat
    BY DEF WriterInv, RiffParts, Closes, CloseFile, WriterTypes
<1>1. PICK e \in Nat :
          /\ e = end + StdIndexesSize
          /\ end' \in Nat /\ end' >= e
          /\ end' = IF Len(riffs) = 1 THEN e + 8 + 16 * Len(old) ELSE e
          /\ riffs' = Finish(e, end') /\ riffs # <<>>
    BY CloseFacts
<1>2. PICK a \in Nat : a = StdIndexesSize /\ a <= Appended
    <2>1. Len(chunks) \in Nat /\ Len(chunks) <= MaxChunks
        BY <1>0 DEF LayoutInv, WriterTypes
    <2>2. 40 * Len(chunks) + 64 <= Appended
        BY <2>1, AviAssumption DEF Appended
    <2> QED
        BY <2>1, <2>2, StdSizeBounds, AviAssumption DEF Appended
<1>3. PICK total \in Nat : total = end'
    BY <1>1
<1>4. PICK L \in Nat \ {0} : L = Len(riffs)
    BY <1>0, <1>1 DEF WriterTypes
<1>5. /\ DOMAIN riffs = 1 .. L /\ DOMAIN riffs' = 1 .. L /\ Len(riffs') = L
      /\ \A r \in 1 .. L : riffs[r].at \in Nat
      /\ \A r \in 1 .. L - 1 : riffs'[r] = riffs[r]
    <2>1. \A r \in 1 .. L : riffs[r] \in Riff
        BY <1>0, <1>4 DEF WriterTypes
    <2>2. /\ Finish(e, total) \in Seq(Riff) /\ Len(Finish(e, total)) = L
          /\ \A r \in 1 .. L - 1 : Finish(e, total)[r] = riffs[r]
        BY <1>0, <1>1, <1>4, FinishIsRiff
    <2>3. riffs' \in Seq(Riff) /\ Len(riffs') = L /\ \A r \in 1 .. L - 1 : riffs'[r] = riffs[r]
        BY <1>1, <1>3, <2>2
    <2>4. DOMAIN riffs = 1 .. L /\ DOMAIN riffs' = 1 .. L
        BY <1>0, <1>4, <2>3 DEF WriterTypes
    <2> QED
        BY <2>1, <2>3, <2>4 DEF Riff
<1>6. /\ riffs'[L].at = riffs[L].at /\ riffs'[L].movi = riffs[L].movi
      /\ riffs'[L].at + 8 + riffs'[L].size = end'
      /\ riffs'[L].movi + riffs'[L].movi_size = e
    <2>1. e = end + a /\ total = IF Len(riffs) = 1 THEN e + 8 + 16 * Len(old) ELSE e
        BY <1>1, <1>2, <1>3
    <2>2. LET f == Finish(e, total)[Len(riffs)] IN
          /\ f.at = riffs[Len(riffs)].at /\ f.movi = riffs[Len(riffs)].movi
          /\ f.at + 8 + f.size = total
          /\ f.movi + f.movi_size = e
        BY <1>0, <1>2, <2>1, FinishedSize
    <2> QED
        BY <1>1, <1>3, <1>4, <2>2
<1>7. \A r \in 1 .. L : riffs'[r].at = riffs[r].at /\ riffs'[r].movi = riffs[r].movi
    BY <1>4, <1>5, <1>6
<1>8. end <= end' /\ end <= e
    BY <1>0, <1>1, <1>2
<1>9. WithinInv'
    <2>1. ASSUME NEW r \in 1 .. L
          PROVE  riffs'[r].at <= end'
        <3>1. riffs[r].at <= end /\ riffs[r].at \in Nat
            BY <1>0, <1>5 DEF WithinInv
        <3> QED
            BY <1>0, <1>1, <1>7, <1>8, <3>1
    <2> QED
        BY <1>5, <2>1 DEF WithinInv
<1>10. FinishedInv'
    <2>1. ASSUME NEW r \in 1 .. L - 1
          PROVE  riffs'[r] = riffs[r] /\ riffs'[r + 1].at = riffs[r + 1].at
        <3>1. r + 1 \in 1 .. L
            BY <1>4
        <3> QED
            BY <1>5, <1>7, <3>1
    <2> QED
        BY <1>0, <1>4, <1>5, <2>1 DEF FinishedInv, Between
<1>11. CoveredInv'
    <2>1. ASSUME NEW c \in DOMAIN chunks
          PROVE  \E r \in 1 .. L :
                     /\ chunks[c].at >= riffs'[r].movi + 4
                     /\ ChunkEnd(c) <= riffs'[r].movi + riffs'[r].movi_size
        <3>1. PICK r \in 1 .. L :
                  /\ chunks[c].at >= riffs[r].movi + 4
                  /\ r < L => ChunkEnd(c) <= riffs[r].movi + riffs[r].movi_size
            BY <1>0, <1>4, <1>5 DEF CoveredInv
        <3>2. CASE r = L
            <4>1. ChunkEnd(c) \in Nat /\ ChunkEnd(c) <= end
                <5>1. chunks[c] \in Chunk
                    BY <1>0 DEF WriterTypes
                <5>2. chunks[c].at \in Nat /\ chunks[c].len \in Nat
                    BY <5>1 DEF Chunk
                <5> QED
                    BY <1>0, <5>2 DEF LayoutInv, ChunkEnd, ChunkHeader
            <4>2. ChunkEnd(c) <= e
                BY <1>0, <1>8, <4>1
            <4>3. riffs'[r].movi = riffs[r].movi /\ riffs'[r].movi + riffs'[r].movi_size = e
                BY <1>6, <3>2
            <4> QED
                BY <3>1, <4>2, <4>3
        <3>3. CASE r # L
            <4>1. r < L /\ riffs'[r] = riffs[r]
                BY <1>4, <1>5, <3>3
            <4> QED
                BY <3>1, <4>1
        <3> QED
            BY <3>2, <3>3
    <2>2. \A c \in DOMAIN chunks : ChunkEnd(c)' = ChunkEnd(c)
        BY <1>0 DEF ChunkEnd
    <2> QED
        BY <1>0, <1>5, <2>1, <2>2 DEF CoveredInv
<1>12. CurrentInv'
    BY <1>0 DEF CurrentInv
<1>13. ClosedInv'
    BY <1>5, <1>6 DEF ClosedInv, Last
<1> QED
    BY <1>9, <1>10, <1>11, <1>12, <1>13 DEF RiffParts

\* Steps that leave the file as it is.
LEMMA RiffStutters ==
    ASSUME RiffParts, UNCHANGED <<chunks, riffs, riff_size, end, old>>, Done' = Done,
           (wstate = "open")' = (wstate = "open")
    PROVE  RiffParts'
<1>1. \A c : ChunkEnd(c)' = ChunkEnd(c) /\ \A r : Between(c, r)' = Between(c, r)
    BY DEF ChunkEnd, Between
<1> QED
    BY <1>1 DEF RiffParts, WithinInv, FinishedInv, CoveredInv, CurrentInv, ClosedInv, Last

LEMMA RiffSteps == WriterInv /\ RiffInv /\ [Next]_vars => RiffInv'
<1> SUFFICES ASSUME WriterInv, RiffInv, [Next]_vars, SizesFit PROVE RiffParts'
    BY DEF RiffInv, RiffParts
<1>0. RiffParts
    BY DEF RiffInv, RiffParts
<1>1. CASE WriterNext
    <2>1. CASE Open
        BY <2>1, OpenRiff
    <2>2. ASSUME NEW s \in Streams, NEW len \in Lengths, WriteData(s, len)
          PROVE  RiffParts'
        <3>0. Writes(s, len)
            BY <2>2, WriteFacts
        <3>1. PICK at \in Nat : Puts(s, at, len) /\ (KeepsRiff(at, len) \/ BeginsRiff(at, len))
            BY <3>0 DEF Writes
        <3> QED
            BY <1>0, <3>1, KeepsRiffParts, BeginsRiffParts
    <2>3. CASE Close \/ DestroyOpen
        BY <1>0, <2>3, CloseRiffParts DEF Closes, Close, DestroyOpen
    <2>4. CASE DestroyClosed
        <3>1. UNCHANGED <<chunks, riffs, riff_size, end, old>> /\ Done /\ Done'
              /\ wstate # "open" /\ wstate' # "open"
            BY <2>4 DEF DestroyClosed, Done
        <3> QED
            BY <1>0, <3>1, RiffStutters
    <2> QED
        BY <1>1, <2>1, <2>2, <2>3, <2>4 DEF WriterNext
<1>2. CASE UNCHANGED writeVars
    <2>1. UNCHANGED <<chunks, riffs, riff_size, end, old>> /\ wstate' = wstate
        BY <1>2 DEF writeVars
    <2>2. Done' = Done /\ (wstate = "open")' = (wstate = "open")
        BY <2>1 DEF Done
    <2> QED
        BY <1>0, <2>1, <2>2, RiffStutters
<1>3. WriterNext \/ UNCHANGED writeVars
    BY DEF Next, vars, ReaderOpen, ReadFrame, ReadEmpty, ReadByPosition, ReadByMovi,
           ReadByMoviFails
<1> QED
    BY <1>1, <1>2, <1>3

LEMMA AtMostOne ==
    ASSUME NEW S, \A x, y \in S : x = y
    PROVE  Cardinality(S) <= 1
<1>1. CASE S = {}
    <2>1. Cardinality(S) = 0
        BY <1>1, FS_EmptySet
    <2> QED
        BY <2>1
<1>2. CASE S # {}
    <2>1. PICK x \in S : S = {x}
        BY <1>2
    <2>2. Cardinality(S) = 1
        BY <2>1, FS_Singleton
    <2> QED
        BY <2>2
<1> QED
    BY <1>1, <1>2

LEMMA RiffsAreSoundThen == WriterInv /\ RiffParts => RiffsAreSound
<1> SUFFICES ASSUME WriterInv, RiffParts PROVE RiffsAreSound
    OBVIOUS
<1>0. FinishedInv /\ CoveredInv /\ ClosedInv
    BY DEF RiffParts
<1>1. RiffsTile
    BY <1>0 DEF RiffsTile, FinishedInv, CoveredInv, ClosedInv, Done, Last, ChunkEnd, ChunkHeader
<1>2. RiffsKeepTheLimit
    <2>1. ASSUME NEW r \in 1 .. Len(riffs) - 1,
                 \A c, d \in DOMAIN chunks : Between(c, r) /\ Between(d, r) => c = d
          PROVE  Cardinality({c \in DOMAIN chunks : /\ chunks[c].at > riffs[r].at
                                                    /\ chunks[c].at < riffs[r + 1].at}) <= 1
        <3> DEFINE S == {c \in DOMAIN chunks : /\ chunks[c].at > riffs[r].at
                                               /\ chunks[c].at < riffs[r + 1].at}
        <3>1. \A x, y \in S : x = y
            BY <2>1 DEF Between
        <3> HIDE DEF S
        <3>2. Cardinality(S) <= 1
            BY <3>1, AtMostOne
        <3> QED
            BY <3>2 DEF S
    <2>2. \A r \in 1 .. Len(riffs) - 1 :
              \/ riffs[r].size < IF r = 1 THEN FirstMax ELSE LaterMax
              \/ \A c, d \in DOMAIN chunks : Between(c, r) /\ Between(d, r) => c = d
        BY <1>0 DEF FinishedInv
    <2> QED
        BY <2>1, <2>2 DEF RiffsKeepTheLimit
<1> QED
    BY <1>1, <1>2 DEF RiffsAreSound

LEMMA InitHolds == Init => WriterInv /\ RiffInv
<1> SUFFICES ASSUME Init PROVE WriterInv /\ RiffInv
    OBVIOUS
<1>1. WriterInv
    BY WriterInitHolds DEF Init
<1>2. wstate = "new" /\ riffs = <<>> /\ chunks = <<>>
    BY DEF Init, WriterInit
<1>3. DOMAIN riffs = {} /\ DOMAIN chunks = {} /\ 1 .. Len(riffs) - 1 = {}
    BY <1>2
<1>4. RiffInv
    BY <1>2, <1>3 DEF RiffInv, WithinInv, FinishedInv, CoveredInv, CurrentInv, ClosedInv, Done
<1> QED
    BY <1>1, <1>4

-----------------------------------------------------------------------------
(* What the reader finds.                                                  *)

\* The file is what it was, whether the writer is destroyed or not.
SameFile == UNCHANGED <<streams, openDML, indexes, end, chunks, old, old_at, bases,
                        entries, std_at>>

LEMMA SameFileSameTags ==
    ASSUME SameFile, NEW s, NEW p
    PROVE  TagAt(s, p)' = TagAt(s, p)
<1>1. \A t : Written(t)' = Written(t)
    BY DEF SameFile, Written
<1>2. \A t, i : IndexAt(t, i)' = IndexAt(t, i)
    BY <1>1 DEF SameFile, IndexAt, Written
<1> QED
    BY <1>1, <1>2 DEF SameFile, TagAt, Written

LEMMA SameFileSameFrames ==
    ASSUME SameFile
    PROVE  /\ Damaged' = Damaged
           /\ \A s \in Streams : FramesFound(s)' = FramesFound(s)
<1>1. \A t : Written(t)' = Written(t)
    BY DEF SameFile, Written
<1> QED
    BY <1>1 DEF SameFile, Damaged, FramesFound, DmlFrames, OldFrames

LEMMA SameFileSound ==
    ASSUME SameFile, frames' = frames
    PROVE  Sound' = Sound
<1>1. \A s, p : TagAt(s, p)' = TagAt(s, p)
    BY SameFileSameTags
<1>2. \A s, k : /\ Placed(s, k)' = Placed(s, k) /\ LooksAlike(s, k)' = LooksAlike(s, k)
               /\ TooLong(s, k)' = TooLong(s, k)
    BY <1>1 DEF SameFile, Placed, PointsAt, Nth, LooksAlike, TooLong
<1> QED
    BY <1>2 DEF SameFile, Sound

\* The k-th entry of a stream in the old index is of its k-th chunk.
LEMMA OldNth ==
    ASSUME WriterInv, NEW s \in Streams, NEW k \in 1 .. Cardinality(PositionsOf(old, s))
    PROVE  /\ k \in 1 .. Count(s)
           /\ NthOf(old, s, k) = Nth(s, k) /\ Nth(s, k) \in 1 .. Len(old)
<1> DEFINE P == PositionsOf(old, s)
           Q == PositionsOf(chunks, s)
<1>0. WriterTypes /\ OldInv /\ NthInv
    BY DEF WriterInv
<1>1. /\ IsFiniteSet(P) /\ Cardinality(P) \in Nat /\ P \subseteq 1 .. Len(old)
      /\ IsFiniteSet(Q) /\ Cardinality(Q) \in Nat /\ Q \subseteq 1 .. Len(chunks)
      /\ Len(old) \in Nat /\ Len(chunks) \in Nat /\ Len(old) <= Len(chunks)
    BY <1>0, PositionsAreFinite, LenProperties DEF WriterTypes, OldInv
<1>2. P = {c \in Q : c <= Len(old)}
    <2>1. DOMAIN old = 1 .. Len(old) /\ DOMAIN chunks = 1 .. Len(chunks)
        BY <1>0 DEF WriterTypes
    <2>2. \A c \in 1 .. Len(old) : old[c].stream = chunks[c].stream
        <3>1. \A c \in DOMAIN old : old[c] = [stream |-> chunks[c].stream,
                                            offset |-> chunks[c].at - MoviStart,
                                            len |-> chunks[c].len]
            BY <1>0 DEF OldInv
        <3> QED
            BY <2>1, <3>1
    <2> QED
        BY <1>1, <2>1, <2>2 DEF PositionsOf
<1> HIDE DEF P, Q
<1>3. Cardinality(P) <= Cardinality(Q)
    BY <1>1, <1>2, FS_Subset
<1>4. k \in 1 .. Count(s) /\ k <= Cardinality(P) /\ k \in Nat
    BY <1>1, <1>3 DEF Count, P, Q
<1>5. Nth(s, k) \in Q /\ Cardinality({d \in Q : d <= Nth(s, k)}) = k
    BY <1>0, <1>4, NthFacts DEF IsNth, Q
<1>6. PICK c \in Nat : c = Nth(s, k)
    <2>1. Nth(s, k) \in 1 .. Len(chunks)
        BY <1>0, <1>4, NthFacts
    <2> QED
        BY <1>1, <2>1
<1>7. c <= Len(old)
    <2> SUFFICES ASSUME c > Len(old) PROVE FALSE
        BY <1>1, <1>6
    <2> DEFINE U == {d \in Q : d <= c}
    <2>1. P \subseteq U /\ c \in U /\ c \notin P
        BY <1>1, <1>2, <1>5, <1>6
    <2>2. IsFiniteSet(U)
        BY <1>1, FS_Subset
    <2> HIDE DEF U
    <2>3. P # U
        BY <2>1
    <2>4. Cardinality(P) < Cardinality(U)
        <3>1. Cardinality(P) <= Cardinality(U) /\ (Cardinality(P) = Cardinality(U) => P = U)
            BY <2>1, <2>2, FS_Subset
        <3>2. Cardinality(U) \in Nat
            BY <2>2, FS_CardinalityType
        <3> QED
            BY <1>1, <2>3, <3>1, <3>2
    <2>5. Cardinality(U) = k
        BY <1>5, <1>6 DEF U
    <2> QED
        BY <1>1, <1>4, <2>4, <2>5
<1>8. {d \in P : d <= c} = {d \in Q : d <= c} /\ c \in P
    <2>1. c \in P
        BY <1>2, <1>5, <1>6, <1>7
    <2>2. \A d \in Q : d <= c => d <= Len(old)
        BY <1>1, <1>6, <1>7
    <2> QED
        BY <1>2, <2>1, <2>2
<1>9. IsNth(old, s, k, c)
    BY <1>5, <1>6, <1>8 DEF IsNth, P
<1>10. NthOf(old, s, k) = c
    BY <1>0, <1>9, NthIsIt DEF WriterTypes
<1> QED
    BY <1>1, <1>4, <1>6, <1>7, <1>8, <1>10

\* Whether the file has an OpenDML index decides which frames are found.
LEMMA FoundCases ==
    ASSUME WriterInv, Done, NEW s \in streams
    PROVE  /\ openDML /\ (\E t \in streams : Written(t) # {})
                  => FramesFound(s) = DmlFrames(s) /\ StdIndexesSize >= 40
           /\ ~openDML => FramesFound(s) = OldFrames(s)
           /\ openDML /\ ~(\E t \in streams : Written(t) # {})
                  => /\ FramesFound(s) = OldFrames(s) /\ Count(s) = 0
                     /\ Cardinality(PositionsOf(old, s)) = 0
<1>0. WriterTypes /\ EntryInv /\ BaseInv /\ streams \subseteq Streams /\ wstate # "new"
    BY DEF WriterInv, WriterTypes, Streams, Done
<1>1. ASSUME openDML, \E t \in streams : Written(t) # {}
      PROVE  FramesFound(s) = DmlFrames(s) /\ StdIndexesSize >= 40
    BY <1>0, <1>1, StdSizeBounds DEF FramesFound
<1>2. ASSUME ~openDML
      PROVE  FramesFound(s) = OldFrames(s)
    BY <1>2 DEF FramesFound, Written
<1>3. ASSUME openDML, ~(\E t \in streams : Written(t) # {})
      PROVE  /\ FramesFound(s) = OldFrames(s) /\ Count(s) = 0
             /\ Cardinality(PositionsOf(old, s)) = 0
    <2>1. FramesFound(s) = OldFrames(s)
        BY <1>3 DEF FramesFound
    <2>2. bases[s] # <<>> /\ bases[s] \in Seq(Nat) /\ entries[s] \in Seq(Entry)
        BY <1>0, <1>3 DEF BaseInv, WriterTypes
    <2>3. Len(bases[s]) \in Nat \ {0}
        BY <2>2
    <2>4. 1 \in 1 .. Len(bases[s])
        BY <2>3
    <2>5. entries[s] = <<>>
        BY <1>3, <2>4 DEF Written
    <2>6. Count(s) = 0
        BY <1>0, <1>3, <2>5 DEF EntryInv
    <2>7. Cardinality(PositionsOf(old, s)) \in Nat
        BY <1>0, PositionsAreFinite DEF WriterTypes
    <2>8. Cardinality(PositionsOf(old, s)) = 0
        <3> SUFFICES ASSUME Cardinality(PositionsOf(old, s)) # 0 PROVE FALSE
            OBVIOUS
        <3>1. 1 \in 1 .. Cardinality(PositionsOf(old, s))
            BY <2>7
        <3>2. 1 \in 1 .. Count(s)
            BY <1>0, <3>1, OldNth
        <3> QED
            BY <2>6, <3>2
    <2> QED
        BY <2>1, <2>6, <2>8
<1> QED
    BY <1>1, <1>2, <1>3

LEMMA NthChunk ==
    ASSUME WriterInv, Done, NEW s \in Streams, NEW k \in 1 .. Count(s)
    PROVE  LET c == Nth(s, k) IN
           /\ c \in DOMAIN chunks /\ chunks[c] \in Chunk /\ chunks[c].stream = s
           /\ chunks[c].at \in Nat /\ chunks[c].len \in Nat
           /\ chunks[c].at + 8 + chunks[c].len <= std_at
           /\ std_at + StdIndexesSize <= end
           /\ std_at \in Nat /\ StdIndexesSize \in Nat /\ end \in Nat
<1>0. WriterTypes /\ LayoutInv /\ NthInv
    BY DEF WriterInv
<1>1. Nth(s, k) \in PositionsOf(chunks, s)
    BY <1>0, NthFacts DEF IsNth
<1>2. Nth(s, k) \in DOMAIN chunks /\ chunks[Nth(s, k)].stream = s
    BY <1>1 DEF PositionsOf
<1>3. chunks[Nth(s, k)] \in Chunk
    BY <1>0, <1>2 DEF WriterTypes
<1>4. ChunkEnd(Nth(s, k)) <= std_at /\ std_at + StdIndexesSize <= end
    BY <1>0, <1>2 DEF LayoutInv
<1> QED
    BY <1>0, <1>2, <1>3, <1>4, StdSizeBounds DEF ChunkEnd, ChunkHeader, Chunk, WriterTypes

LEMMA DmlFramesAre ==
    ASSUME WriterInv, NEW s \in Streams, openDML
    PROVE  /\ DmlFrames(s) \in Seq(Frame) /\ Len(DmlFrames(s)) = Count(s)
           /\ DOMAIN DmlFrames(s) = 1 .. Count(s)
           /\ \A k \in 1 .. Count(s) : /\ DmlFrames(s)[k].offset = PointsAt(s, k)
                                       /\ chunks[Nth(s, k)].len < SizeFlag =>
                                             DmlFrames(s)[k].len = chunks[Nth(s, k)].len
<1>0. WriterTypes /\ EntryInv
    BY DEF WriterInv
<1>1. /\ entries[s] \in Seq(Entry) /\ bases[s] \in Seq(Nat)
      /\ Len(entries[s]) = Count(s) /\ Count(s) \in Nat /\ DOMAIN entries[s] = 1 .. Count(s)
    BY <1>0 DEF WriterTypes, EntryInv
<1>2. ASSUME NEW k \in 1 .. Count(s)
      PROVE  /\ DmlFrames(s)[k] \in Frame
             /\ DmlFrames(s)[k].offset = PointsAt(s, k)
             /\ chunks[Nth(s, k)].len < SizeFlag =>
                   DmlFrames(s)[k].len = chunks[Nth(s, k)].len
    <2>1. entries[s][k] \in Entry
        BY <1>1
    <2>2. entries[s][k].index \in DOMAIN bases[s] /\ entries[s][k].len = chunks[Nth(s, k)].len
        BY <1>0, <1>1 DEF EntryInv
    <2>3. bases[s][entries[s][k].index] \in Nat
        BY <1>1, <2>2
    <2>4. entries[s][k].offset \in Nat /\ entries[s][k].len \in Nat
        BY <2>1 DEF Entry
    <2>5. DmlFrames(s)[k] = [offset |-> bases[s][entries[s][k].index] + entries[s][k].offset,
                             len |-> entries[s][k].len % SizeFlag]
        BY <1>1 DEF DmlFrames
    <2>6. /\ entries[s][k].len % SizeFlag \in Nat
          /\ entries[s][k].len < SizeFlag => entries[s][k].len % SizeFlag = entries[s][k].len
        BY <2>4, FlagMasked
    <2> QED
        BY <2>2, <2>3, <2>4, <2>5, <2>6 DEF Frame, PointsAt
<1>3. DOMAIN DmlFrames(s) = 1 .. Count(s)
    BY <1>1 DEF DmlFrames
<1>4. DmlFrames(s) = [k \in 1 .. Count(s) |-> DmlFrames(s)[k]]
    BY <1>1 DEF DmlFrames
<1> DEFINE f == DmlFrames(s)
<1> HIDE DEF f
<1>5. f \in [1 .. Count(s) -> Frame]
    BY <1>2, <1>4 DEF f
<1>6. f \in Seq(Frame) /\ Len(f) = Count(s)
    BY <1>1, <1>5
<1> QED
    BY <1>2, <1>3, <1>6 DEF f

LEMMA OldFramesAre ==
    ASSUME WriterInv, NEW s \in Streams
    PROVE  LET n == Cardinality(PositionsOf(old, s)) IN
           /\ n \in Nat /\ n <= Count(s) /\ Count(s) \in Nat
           /\ OldFrames(s) \in Seq(Frame) /\ Len(OldFrames(s)) = n
           /\ DOMAIN OldFrames(s) = 1 .. n
           /\ \A k \in 1 .. n :
                  /\ k \in 1 .. Count(s)
                  /\ OldFrames(s)[k].offset = chunks[Nth(s, k)].at - MoviStart
                  /\ OldFrames(s)[k].len = chunks[Nth(s, k)].len
<1>0. WriterTypes /\ OldInv
    BY DEF WriterInv
<1>1. PICK n \in Nat : n = Cardinality(PositionsOf(old, s))
    BY <1>0, PositionsAreFinite DEF WriterTypes
<1>2. Count(s) \in Nat
    BY <1>0, PositionsAreFinite DEF WriterTypes, Count
<1>3. n <= Count(s)
    <2>1. n # 0 => n \in 1 .. Count(s)
        BY <1>0, <1>1, OldNth
    <2> QED
        BY <1>2, <2>1
<1>4. ASSUME NEW k \in 1 .. n
      PROVE  /\ OldFrames(s)[k] \in Frame
             /\ k \in 1 .. Count(s)
             /\ OldFrames(s)[k].offset = chunks[Nth(s, k)].at - MoviStart
             /\ OldFrames(s)[k].len = chunks[Nth(s, k)].len
    <2>1. k \in 1 .. Count(s) /\ NthOf(old, s, k) = Nth(s, k) /\ Nth(s, k) \in 1 .. Len(old)
        BY <1>1, OldNth
    <2>2. DOMAIN old = 1 .. Len(old)
        BY <1>0 DEF WriterTypes
    <2>3. old[Nth(s, k)] = [stream |-> chunks[Nth(s, k)].stream,
                            offset |-> chunks[Nth(s, k)].at - MoviStart,
                            len |-> chunks[Nth(s, k)].len]
        BY <1>0, <2>1, <2>2 DEF OldInv
    <2>4. old[Nth(s, k)] \in Old
        BY <1>0, <2>1, <2>2 DEF WriterTypes
    <2>5. OldFrames(s)[k] = [offset |-> old[Nth(s, k)].offset, len |-> old[Nth(s, k)].len]
        BY <1>1, <2>1 DEF OldFrames
    <2> QED
        BY <2>1, <2>3, <2>4, <2>5 DEF Old, Frame
<1>5. DOMAIN OldFrames(s) = 1 .. n /\ OldFrames(s) = [k \in 1 .. n |-> OldFrames(s)[k]]
    BY <1>1 DEF OldFrames
<1> DEFINE f == OldFrames(s)
<1> HIDE DEF f
<1>6. f \in [1 .. n -> Frame]
    BY <1>4, <1>5 DEF f
<1>7. f \in Seq(Frame) /\ Len(f) = n
    BY <1>6
<1> QED
    BY <1>1, <1>2, <1>3, <1>4, <1>5, <1>7 DEF f

\* What read_frame knows of a frame it is asked for.
AskedFrame(s, k) ==
    LET c == chunks[Nth(s, k)] IN
    /\ s \in streams /\ k \in DOMAIN frames[s] /\ k \in 1 .. Count(s)
    /\ TooLong(s, k) \/ frames[s][k].len = c.len
    /\ openDML => frames[s][k].offset = PointsAt(s, k) /\ StdIndexesSize >= 40
    /\ ~openDML => frames[s][k].offset = c.at - MoviStart

LEMMA AskedFacts ==
    ASSUME WriterInv, ReaderInv, NEW s \in Streams, NEW k, Asked(s, k)
    PROVE  AskedFrame(s, k) /\ Done
<1>0. /\ opened = "yes" /\ k \in DOMAIN frames[s] /\ Done
      /\ frames = [t \in Streams |-> IF t \in streams THEN FramesFound(t) ELSE <<>>]
    BY DEF Asked, ReaderInv
<1>1. s \in streams /\ frames[s] = FramesFound(s)
    BY <1>0
<1>2. CASE openDML /\ \E t \in streams : Written(t) # {}
    <2>1. /\ frames[s] = DmlFrames(s) /\ k \in 1 .. Count(s) /\ StdIndexesSize >= 40
          /\ frames[s][k].offset = PointsAt(s, k)
          /\ chunks[Nth(s, k)].len < SizeFlag => frames[s][k].len = chunks[Nth(s, k)].len
        BY <1>0, <1>1, <1>2, FoundCases, DmlFramesAre
    <2>2. chunks[Nth(s, k)].len \in Nat
        BY <1>0, <2>1, NthChunk
    <2>3. TooLong(s, k) \/ frames[s][k].len = chunks[Nth(s, k)].len
        BY <1>2, <2>1, <2>2, FlagMasked DEF TooLong
    <2> QED
        BY <1>0, <1>1, <1>2, <2>1, <2>3 DEF AskedFrame
<1>3. CASE ~openDML
    BY <1>0, <1>1, <1>3, FoundCases, OldFramesAre DEF AskedFrame
<1>4. CASE openDML /\ ~(\E t \in streams : Written(t) # {})
    BY <1>0, <1>1, <1>4, FoundCases, OldFramesAre DEF AskedFrame
<1> QED
    BY <1>2, <1>3, <1>4

\* A frame that has the tag where the second try looks for it is read there,
\* and one that has no tag from where the offset points; both stay so.
LEMMA ReadIsRight ==
    ASSUME WriterInv, ReaderInv, Sound, NEW s \in Streams, NEW k, ReadFrame(s, k)
    PROVE  /\ openDML => ~use_movi'
           /\ ~openDML => ~failed'
           /\ got'.stream = s /\ got'.frame = k
           /\ s \in streams /\ k \in DOMAIN frames[s]
           /\ ReadRight(s, k)'
<1> DEFINE c == chunks[Nth(s, k)]
           p == frames[s][k].offset
<1>0. Asked(s, k) /\ UNCHANGED <<writeVars, opened, frames>>
    BY DEF ReadFrame, ReadEmpty, ReadByPosition, ReadByMovi, ReadByMoviFails
<1>1. AskedFrame(s, k) /\ Done
    BY <1>0, AskedFacts
<1>2. Placed(s, k) /\ ~LooksAlike(s, k) /\ ~TooLong(s, k)
    BY <1>1 DEF Sound, AskedFrame
<1>3. /\ c.stream = s /\ c.at \in Nat /\ c.len \in Nat
      /\ c.at + 8 + c.len <= std_at /\ std_at + StdIndexesSize <= end
      /\ std_at \in Nat /\ StdIndexesSize \in Nat /\ end \in Nat
      /\ Nth(s, k) \in DOMAIN chunks
    BY <1>1, NthChunk DEF AskedFrame
<1>4. /\ openDML => ~use_movi
      /\ ~openDML => ~failed
    BY <1>0 DEF ReaderInv, Asked
<1>5. chunks' = chunks /\ end' = end /\ openDML' = openDML
    BY <1>0 DEF writeVars, setup
<1>6. NthOf(chunks', s, k) = Nth(s, k)
    BY <1>5 DEF Nth
<1>7. s \in streams /\ k \in DOMAIN frames[s] /\ frames[s][k].len = c.len
    BY <1>1, <1>2 DEF AskedFrame
<1> DEFINE Right == \/ got'.from = c.at + 8 /\ got'.bytes = c.len
                    \/ c.len = 0 /\ got'.bytes = 1
                    \/ openDML /\ got'.bytes = 0 /\ c.at + 8 + MoviStart + 8 > end
           Goal == /\ openDML => ~use_movi'
                   /\ ~openDML => ~failed'
                   /\ got'.stream = s /\ got'.frame = k
                   /\ Right
<1>8. SUFFICES Goal
    BY <1>5, <1>6, <1>7 DEF ReadRight, Nth, Short
<1> HIDE DEF c, p
<1>9. CASE ReadEmpty(s, k)
    <2>1. /\ got' = [stream |-> s, frame |-> k, from |-> 0, bytes |-> 1]
          /\ use_movi' = use_movi /\ failed' = failed /\ c.len = 0
        BY <1>7, <1>9 DEF ReadEmpty
    <2> QED
        BY <1>4, <2>1
<1>10. ~TagAt(s, p)
    BY <1>2 DEF LooksAlike, p
<1>11. ~ReadByPosition(s, k)
    BY <1>10 DEF ReadByPosition, p
<1>12. CASE openDML
    <2>1. p = c.at + 8 /\ StdIndexesSize >= 40 /\ ~TagAt(s, p + MoviStart)
        BY <1>1, <1>2, <1>12 DEF AskedFrame, Placed, LooksAlike, c, p
    <2>2. CASE ReadByMovi(s, k)
        <3>1. ~use_movi'
            BY <2>1, <2>2 DEF ReadByMovi, p
        <3>2. got' = [stream |-> s, frame |-> k, from |-> p, bytes |-> Least(c.len, end - p)]
            BY <1>7, <2>2, <3>1 DEF ReadByMovi, ReadAt, p
        <3>3. Least(c.len, end - p) = c.len
            BY <1>3, <2>1 DEF Least
        <3> QED
            BY <1>12, <2>1, <3>1, <3>2, <3>3
    <2>3. CASE ReadByMoviFails(s, k)
        <3>1. ~Short(p)
            BY <1>3, <2>1 DEF Short
        <3>2. ~use_movi'
            BY <1>4, <1>12, <2>3, <3>1 DEF ReadByMoviFails, p
        <3>3. got' = [stream |-> s, frame |-> k, from |-> 0, bytes |-> 0]
            BY <2>3 DEF ReadByMoviFails, ReadFails
        <3>4. Short(p + MoviStart)
            BY <1>4, <1>12, <2>3, <3>1 DEF ReadByMoviFails, CannotSeek, p
        <3>5. c.at + 8 + MoviStart + 8 > end
            BY <1>3, <2>1, <3>4, AviAssumption DEF Short
        <3> QED
            BY <1>12, <3>2, <3>3, <3>5
    <2> QED
        BY <1>9, <1>11, <2>2, <2>3 DEF ReadFrame
<1>13. CASE ~openDML
    <2>1. p = c.at - MoviStart /\ p + MoviStart = c.at
        BY <1>1, <1>3, <1>13, AviAssumption DEF AskedFrame, c, p
    <2>2. TagAt(s, p + MoviStart)
        BY <1>3, <2>1 DEF TagAt, c
    <2>3. CASE ReadByMovi(s, k)
        <3>1. use_movi'
            BY <2>2, <2>3 DEF ReadByMovi, p
        <3>2. /\ got' = [stream |-> s, frame |-> k, from |-> c.at + 8,
                         bytes |-> Least(c.len, end - (c.at + 8))]
              /\ failed' = (c.at + 8 + c.len > end)
            BY <1>7, <2>1, <2>3, <3>1 DEF ReadByMovi, ReadAt, DataOf, p
        <3>3. Least(c.len, end - (c.at + 8)) = c.len /\ ~(c.at + 8 + c.len > end)
            BY <1>3 DEF Least
        <3> QED
            BY <1>13, <3>2, <3>3
    <2>4. ~ReadByMoviFails(s, k)
        <3>1. ~Short(p) /\ ~Short(p + MoviStart)
            BY <1>3, <2>1, AviAssumption DEF Short
        <3> QED
            BY <1>4, <1>13, <3>1 DEF ReadByMoviFails, CannotSeek, p
    <2> QED
        BY <1>9, <1>11, <2>3, <2>4 DEF ReadFrame
<1> QED
    BY <1>12, <1>13

-----------------------------------------------------------------------------
(* The steps of the reader.                                                *)

ReaderOk == ReaderTypes /\ ReaderInv

\* Once the reader has opened the file the writer can only be destroyed.
LEMMA ReaderRests ==
    ASSUME ReaderOk, UNCHANGED readVars, WriterNext \/ UNCHANGED writeVars
    PROVE  ReaderOk'
<1>0. /\ opened' = opened /\ frames' = frames /\ use_movi' = use_movi
      /\ failed' = failed /\ got' = got
    BY DEF readVars
<1>1. ReaderTypes'
    BY <1>0 DEF ReaderOk, ReaderTypes
<1>2. CASE opened = "no"
    BY <1>0, <1>1, <1>2 DEF ReaderOk, ReaderInv
<1>3. CASE opened # "no"
    <2>1. Done
        BY <1>3 DEF ReaderOk, ReaderInv
    <2>2. SameFile /\ Done'
        <3>1. CASE DestroyClosed
            BY <3>1 DEF DestroyClosed, SameFile, Done, setup, indexVars
        <3>2. CASE UNCHANGED writeVars
            BY <2>1, <3>2 DEF writeVars, SameFile, Done, setup, indexVars
        <3>3. ~Open /\ ~Close /\ ~DestroyOpen /\ \A s, len : ~WriteData(s, len)
            BY <2>1 DEF Done, Open, Close, DestroyOpen, WriteData, MayWrite
        <3> QED
            BY <3>1, <3>2, <3>3 DEF WriterNext
    <2>3. Damaged' = Damaged /\ Sound' = Sound /\ \A s \in Streams : FramesFound(s)' = FramesFound(s)
        BY <1>0, <2>2, SameFileSameFrames, SameFileSound
    <2>4. \A s, k : ReadRight(s, k)' = ReadRight(s, k)
        BY <1>0, <2>2 DEF SameFile, ReadRight, Nth, Short
    <2>5. streams' = streams /\ openDML' = openDML
        BY <2>2 DEF SameFile
    <2>6. ReaderInv
        BY DEF ReaderOk
    <2>7. opened' = "yes" => frames' = [s \in Streams |-> IF s \in streams' THEN FramesFound(s)'
                                                                            ELSE <<>>]
        BY <1>0, <2>3, <2>5, <2>6 DEF ReaderInv
    <2> QED
        BY <1>0, <1>1, <2>2, <2>3, <2>4, <2>5, <2>6, <2>7 DEF ReaderOk, ReaderInv
<1> QED
    BY <1>2, <1>3

LEMMA FoundTypes ==
    ASSUME WriterInv, Done, NEW s \in streams
    PROVE  FramesFound(s) \in Seq(Frame)
<1>1. s \in Streams
    BY DEF WriterInv, WriterTypes, Streams
<1> QED
    BY <1>1, FoundCases, DmlFramesAre, OldFramesAre

LEMMA ReaderOpens ==
    ASSUME WriterInv, ReaderOk, ReaderOpen
    PROVE  ReaderOk'
<1>0. /\ opened = "no" /\ Done /\ SameFile /\ streams' = streams /\ wstate' = wstate
      /\ use_movi' = use_movi /\ failed' = failed /\ got' = got
      /\ got = Nothing /\ ~use_movi /\ ~failed
    BY DEF ReaderOpen, ReaderOk, ReaderInv, Done, SameFile, writeVars, setup, indexVars
<1>1. Done'
    BY <1>0 DEF Done
<1>2. Damaged' = Damaged /\ \A s \in Streams : FramesFound(s)' = FramesFound(s)
    BY <1>0, SameFileSameFrames
<1>3. CASE Damaged
    <2>1. opened' = "lost" /\ frames' = frames
        BY <1>3 DEF ReaderOpen
    <2> QED
        BY <1>0, <1>1, <1>2, <1>3, <2>1 DEF ReaderOk, ReaderTypes, ReaderInv
<1>4. CASE ~Damaged
    <2>1. opened' = "yes"
          /\ frames' = [s \in Streams |-> IF s \in streams THEN FramesFound(s) ELSE <<>>]
        BY <1>4 DEF ReaderOpen
    <2>2. ASSUME NEW s \in Streams
          PROVE  (IF s \in streams THEN FramesFound(s) ELSE <<>>) \in Seq(Frame)
        BY <1>0, FoundTypes
    <2>3. frames' \in [Streams -> Seq(Frame)]
        BY <2>1, <2>2
    <2>4. frames' = [s \in Streams |-> IF s \in streams' THEN FramesFound(s)' ELSE <<>>]
        BY <1>0, <1>2, <2>1
    <2> QED
        BY <1>0, <1>1, <2>1, <2>3, <2>4 DEF ReaderOk, ReaderTypes, ReaderInv
<1> QED
    BY <1>3, <1>4

LEMMA ReadKeepsTypes ==
    ASSUME WriterInv, ReaderOk, NEW s \in Streams, NEW k \in Nat, ReadFrame(s, k)
    PROVE  ReaderTypes'
<1>0. /\ opened' = opened /\ frames' = frames /\ Asked(s, k) /\ end \in Nat /\ ReaderTypes
    BY DEF ReadFrame, ReadEmpty, ReadByPosition, ReadByMovi, ReadByMoviFails, ReaderOk,
           WriterInv, WriterTypes
<1>1. frames[s][k].offset \in Int /\ frames[s][k].len \in Nat
    <2>1. frames[s] \in Seq(Frame) /\ k \in DOMAIN frames[s]
        BY <1>0 DEF ReaderTypes, Asked
    <2>2. frames[s][k] \in Frame
        BY <2>1
    <2> QED
        BY <2>2 DEF Frame
<1>2. ASSUME NEW q \in Int, ReadAt(s, k, q)
      PROVE  got' \in Got /\ failed' \in BOOLEAN
    <2>1. Least(frames[s][k].len, end - q) \in Int
        BY <1>0, <1>1 DEF Least
    <2> QED
        BY <1>2, <2>1 DEF ReadAt, Got
<1>3. CASE ReadEmpty(s, k)
    BY <1>0, <1>3 DEF ReadEmpty, ReaderTypes, Got
<1>4. CASE ReadByPosition(s, k)
    <2>1. frames[s][k].offset + 8 \in Int
        BY <1>1
    <2> QED
        BY <1>0, <1>2, <1>4, <2>1 DEF ReadByPosition, ReaderTypes
<1>5. CASE ReadByMovi(s, k)
    <2>1. /\ frames[s][k].offset + MoviStart + 8 \in Int
          /\ frames[s][k].offset \in Int
        BY <1>1, AviAssumption
    <2>2. got' \in Got /\ failed' \in BOOLEAN
        BY <1>2, <1>5, <2>1 DEF ReadByMovi, DataOf
    <2>3. use_movi' \in BOOLEAN
        BY <1>5 DEF ReadByMovi, TagAt
    <2> QED
        BY <1>0, <2>2, <2>3 DEF ReaderTypes
<1>6. CASE ReadByMoviFails(s, k)
    <2>1. use_movi' \in BOOLEAN
        BY <1>6 DEF ReadByMoviFails
    <2>2. got' \in Got /\ failed' \in BOOLEAN
        BY <1>6 DEF ReadByMoviFails, ReadFails, Got
    <2> QED
        BY <1>0, <2>1, <2>2 DEF ReaderTypes
<1> QED
    BY <1>3, <1>4, <1>5, <1>6 DEF ReadFrame

LEMMA ReadKeepsInv ==
    ASSUME WriterInv, ReaderOk, NEW s \in Streams, NEW k \in Nat, ReadFrame(s, k)
    PROVE  ReaderInv'
<1>0. /\ opened' = opened /\ frames' = frames /\ opened = "yes" /\ UNCHANGED writeVars
      /\ ReaderInv
    BY DEF ReadFrame, ReadEmpty, ReadByPosition, ReadByMovi, ReadByMoviFails, Asked, ReaderOk
<1>1. SameFile /\ wstate' = wstate
    BY <1>0 DEF writeVars, SameFile, setup, indexVars
<1>2. Done /\ Done'
    BY <1>0, <1>1 DEF ReaderInv, Done
<1>3. Sound' = Sound /\ \A t \in Streams : FramesFound(t)' = FramesFound(t)
    BY <1>0, <1>1, SameFileSameFrames, SameFileSound
<1>4. streams' = streams /\ openDML' = openDML
    BY <1>1 DEF SameFile
<1>5. frames' = [t \in Streams |-> IF t \in streams' THEN FramesFound(t)' ELSE <<>>]
    BY <1>0, <1>3, <1>4 DEF ReaderInv
<1>6. Sound => /\ openDML => ~use_movi'
               /\ ~openDML => ~failed'
               /\ got'.stream \in streams /\ got'.frame \in DOMAIN frames[got'.stream]
               /\ ReadRight(got.stream, got.frame)'
    <2> SUFFICES ASSUME Sound
                 PROVE  /\ openDML => ~use_movi'
                        /\ ~openDML => ~failed'
                        /\ got'.stream \in streams /\ got'.frame \in DOMAIN frames[got'.stream]
                        /\ ReadRight(got.stream, got.frame)'
        OBVIOUS
    <2>1. /\ openDML => ~use_movi'
          /\ ~openDML => ~failed'
          /\ got'.stream = s /\ got'.frame = k
          /\ s \in streams /\ k \in DOMAIN frames[s]
          /\ ReadRight(s, k)'
        BY <1>0, ReadIsRight
    <2>2. ReadRight(got.stream, got.frame)'
        BY <2>1 DEF ReadRight, Nth
    <2> QED
        BY <2>1, <2>2
<1> QED
    BY <1>0, <1>2, <1>3, <1>4, <1>5, <1>6 DEF ReaderInv

LEMMA ReaderSteps == WriterInv /\ ReaderOk /\ [Next]_vars => ReaderOk'
<1> SUFFICES ASSUME WriterInv, ReaderOk, [Next]_vars PROVE ReaderOk'
    OBVIOUS
<1>1. CASE WriterNext /\ UNCHANGED readVars
    BY <1>1, ReaderRests
<1>2. CASE UNCHANGED vars
    BY <1>2, ReaderRests DEF vars
<1>3. CASE ReaderOpen
    BY <1>3, ReaderOpens
<1>4. ASSUME NEW s \in Streams, NEW k \in 1 .. MaxChunks, ReadFrame(s, k)
      PROVE  ReaderOk'
    <2>1. k \in Nat
        OBVIOUS
    <2> QED
        BY <1>4, <2>1, ReadKeepsTypes, ReadKeepsInv DEF ReaderOk
<1> QED
    BY <1>1, <1>2, <1>3, <1>4 DEF Next


-----------------------------------------------------------------------------
(* What is read back.                                                      *)

\* A file is given up only if a stream has more entries than its indexes
\* would hold at one less in each.
LEMMA DamagedCounts ==
    ASSUME WriterInv, NEW s \in streams, Cardinality(Written(s)) > indexes
    PROVE  Count(s) > indexes * (PerIndexReserved - 1)
<1>0. WriterTypes /\ EntryInv /\ FullInv /\ s \in Streams /\ indexes \in Nat
    BY DEF WriterInv, WriterTypes, Streams
<1>1. Cardinality(Written(s)) = IF openDML /\ entries[s] # <<>> THEN Len(bases[s]) ELSE 0
    BY <1>0, WrittenCount
<1>2. openDML /\ entries[s] # <<>> /\ Len(bases[s]) > indexes
    BY <1>0, <1>1
<1>3. PICK m \in Nat, E \in Nat, N \in Nat, Q \in Nat :
          /\ m = Len(bases[s]) /\ E = Len(entries[s]) /\ N = Cardinality(InLast(s))
          /\ Q = PerIndexReserved - 1
    <2>1. Len(bases[s]) \in Nat /\ Len(entries[s]) \in Nat
        BY <1>0 DEF WriterTypes
    <2>2. Cardinality(InLast(s)) \in Nat /\ PerIndexReserved - 1 \in Nat
        BY <1>0, InLastIsFinite, PerIndexBounds
    <2> QED
        BY <2>1, <2>2
<1>4. m > indexes /\ E = Count(s) /\ E > 0
    <2>1. entries[s] \in Seq(Entry)
        BY <1>0 DEF WriterTypes
    <2>2. E > 0
        BY <1>2, <1>3, <2>1
    <2> QED
        BY <1>0, <1>2, <1>3, <2>2 DEF EntryInv
<1>5. (m - 1) * Q + N <= E /\ (m > 1 => InLast(s) # {})
    <2>1. bases[s] # <<>>
        BY <1>0, <1>3, <1>4 DEF WriterTypes
    <2> QED
        BY <1>0, <1>3, <2>1 DEF FullInv
<1>6. CASE m = 1
    <2>1. indexes = 0
        BY <1>0, <1>4, <1>6
    <2>2. indexes * (PerIndexReserved - 1) = 0
        BY <1>3, <2>1
    <2> QED
        BY <1>4, <2>2
<1>7. CASE m # 1
    <2>1. m - 1 \in Nat /\ m > 1 /\ indexes <= m - 1
        BY <1>0, <1>4, <1>7
    <2>2. N > 0
        <3>1. IsFiniteSet(InLast(s)) /\ InLast(s) # {}
            BY <1>0, <1>5, <2>1, InLastIsFinite
        <3>2. Cardinality(InLast(s)) # 0
            BY <3>1, FS_EmptySet
        <3> QED
            BY <1>3, <3>2
    <2>3. indexes * Q <= (m - 1) * Q
        BY <1>0, <2>1, TimesMonotone
    <2>4. indexes * Q \in Nat /\ (m - 1) * Q \in Nat
        BY <1>0, <2>1
    <2>5. indexes * Q < E
        BY <1>5, <2>2, <2>3, <2>4
    <2> QED
        BY <1>3, <1>4, <2>5
<1> QED
    BY <1>6, <1>7

LEMMA AllFramesThen == WriterInv /\ ReaderOk => AllFramesAreFound
<1> SUFFICES ASSUME WriterInv, ReaderOk PROVE AllFramesAreFound
    OBVIOUS
<1>0. ReaderInv /\ WriterTypes /\ LayoutInv /\ OldInv /\ streams \subseteq Streams
    BY DEF ReaderOk, WriterInv, WriterTypes, Streams
<1>1. ASSUME opened = "yes", NEW s \in streams
      PROVE  Len(frames[s]) = Count(s) \/ (~openDML /\ Len(riffs) > 1)
    <2>1. frames[s] = FramesFound(s) /\ s \in Streams /\ Done
        BY <1>0, <1>1 DEF ReaderInv
    <2>2. CASE openDML /\ \E t \in streams : Written(t) # {}
        BY <2>1, <2>2, FoundCases, DmlFramesAre
    <2>3. CASE openDML /\ ~(\E t \in streams : Written(t) # {})
        BY <2>1, <2>3, FoundCases, OldFramesAre
    <2>4. CASE ~openDML
        <3>1. PICK L \in Nat \ {0} : L = Len(riffs)
            BY <1>0, <2>1 DEF LayoutInv, WriterTypes, Done
        <3>2. L = 1 \/ L > 1
            BY <3>1
        <3>3. CASE L = 1
            <4>1. Len(old) = Len(chunks) /\ DOMAIN old = 1 .. Len(old)
                  /\ DOMAIN chunks = 1 .. Len(chunks)
                BY <1>0, <3>1, <3>3 DEF OldInv, WriterTypes
            <4>2. \A c \in DOMAIN old : old[c].stream = chunks[c].stream
                <5>1. \A c \in DOMAIN old : old[c] = [stream |-> chunks[c].stream,
                                                      offset |-> chunks[c].at - MoviStart,
                                                      len |-> chunks[c].len]
                    BY <1>0 DEF OldInv
                <5> QED
                    BY <5>1
            <4>3. PositionsOf(old, s) = PositionsOf(chunks, s)
                BY <4>1, <4>2 DEF PositionsOf
            <4> QED
                BY <2>1, <2>4, <4>3, FoundCases, OldFramesAre DEF Count
        <3>4. CASE L > 1
            BY <2>4, <3>1, <3>4
        <3> QED
            BY <3>2, <3>3, <3>4
    <2> QED
        BY <2>2, <2>3, <2>4
<1>2. ASSUME opened = "lost"
      PROVE  \E s \in streams : Count(s) > indexes * (PerIndexReserved - 1)
    <2>1. PICK s \in streams : Cardinality(Written(s)) > indexes
        BY <1>0, <1>2 DEF ReaderInv, Damaged
    <2> QED
        BY <2>1, DamagedCounts
<1> QED
    BY <1>1, <1>2 DEF AllFramesAreFound

LEMMA ReadsBackThen == WriterInv /\ ReaderOk => ReadsBack
<1> SUFFICES ASSUME WriterInv, ReaderOk PROVE ReadsBack
    OBVIOUS
<1>1. FramesReadBack
    BY DEF ReaderOk, ReaderInv, FramesReadBack, ReadRight
<1> QED
    BY <1>1, AllFramesThen DEF ReadsBack

LEMMA ReaderInitHolds == Init => ReaderOk
<1> SUFFICES ASSUME Init PROVE ReaderOk
    OBVIOUS
<1>1. /\ opened = "no" /\ frames = [s \in Streams |-> <<>>]
      /\ use_movi = FALSE /\ failed = FALSE /\ got = Nothing
    BY DEF Init
<1>2. Nothing \in Got
    BY DEF Nothing, Got, Streams
<1>3. ReaderTypes
    <2>1. <<>> \in Seq(Frame)
        OBVIOUS
    <2>2. frames \in [Streams -> Seq(Frame)]
        BY <1>1, <2>1
    <2> QED
        BY <1>1, <1>2, <2>2 DEF ReaderTypes
<1>4. ReaderInv
    BY <1>1 DEF ReaderInv
<1> QED
    BY <1>3, <1>4 DEF ReaderOk

-----------------------------------------------------------------------------
(* The theorems.                                                           *)

LEMMA IInvInitially == Init => IInv
BY InitHolds, ReaderInitHolds DEF IInv, TypeInv, WriterInv, ReaderOk

LEMMA IInvInductive == IInv /\ [Next]_vars => IInv'
<1> SUFFICES ASSUME IInv, [Next]_vars PROVE IInv'
    OBVIOUS
<1>1. WriterInv /\ RiffInv /\ ReaderOk
    BY DEF IInv, TypeInv, ReaderOk
<1>2. WriterInv' /\ RiffInv' /\ ReaderOk'
    BY <1>1, WriterSteps, RiffSteps, ReaderSteps
<1> QED
    BY <1>2 DEF IInv, TypeInv, WriterInv, ReaderOk

LEMMA IInvHolds == Spec => []IInv
BY IInvInitially, IInvInductive, PTL DEF Spec

\* The state of the writer and of the reader keeps its types: no position,
\* size or length gets negative, and what is listed is listed in sequences.
THEOREM TypeCorrect == Spec => []TypeInv
<1>1. IInv => TypeInv
    BY DEF IInv
<1> QED
    BY <1>1, IInvHolds, PTL

\* Every entry of a standard index leads to the data of its chunk, unless the
\* other stream has moved the base they share or the distance does not fit
\* (write_data and add_index_entry), whatever the streams, the lengths and the
\* room in an index.
THEOREM EntriesAreRight == Spec => []EntriesPointAtChunks
<1>1. IInv => EntriesPointAtChunks
    BY DEF IInv, WriterInv
<1> QED
    BY <1>1, IInvHolds, PTL

\* As long as no RIFF outgrows 32 bits with what close appends to it, the RIFFs
\* tile the file, hold their chunks and keep their limits (write_data,
\* finish_old, finish_avix and close).
THEOREM FileIsSound ==
    ASSUME SizesFit
    PROVE  Spec => []RiffsAreSound
<1>1. IInv => RiffsAreSound
    BY RiffsAreSoundThen DEF IInv, RiffInv, RiffParts
<1> QED
    BY <1>1, IInvHolds, PTL

\* The reader finds every frame that was written and reads it back whole from
\* its place, in any order and after any failed read, up to the exceptions
\* that ReadsBack names (AviReader::open and read_frame).
THEOREM FramesAreReadBack == Spec => []ReadsBack
<1>1. IInv => ReadsBack
    BY ReadsBackThen DEF IInv, TypeInv, ReaderOk
<1> QED
    BY <1>1, IInvHolds, PTL
=============================================================================
