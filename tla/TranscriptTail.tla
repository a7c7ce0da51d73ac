---------------------------- MODULE TranscriptTail ----------------------------
(***************************************************************************)
(* readLastLines of internal/monitor: how the monitor finds the last lines *)
(* of a transcript, chunk by chunk from its end, while Claude Code goes on *)
(* appending to it, often less than a line at a time.                      *)
(***************************************************************************)
EXTENDS Integers, Sequences, FiniteSetsExt

CONSTANTS
    Letters,     \* what lines are made of
    Newline,
    ChunkSize,   \* bytes read at once: 8192
    N,           \* lines wanted: 10
    MaxSize      \* bound: bytes in the file

ASSUME LettersAssumption == Newline \notin Letters

ASSUME SizesAssumption == {ChunkSize, N, MaxSize} \subseteq Nat \ {0}

Bytes == Letters \cup {Newline}

VARIABLES
    file,     \* the transcript
    pc,       \* where the reader is: "idle", "read" or "split"
    size,     \* what Seek returned
    offset,   \* where the part read so far begins
    buf,      \* that part
    lines     \* what the last call returned

reader == <<pc, size, offset, buf, lines>>
vars == <<file, reader>>

-----------------------------------------------------------------------------
(* Lines *)

Newlines(bytes) == {i \in DOMAIN bytes : bytes[i] = Newline}

\* Where the non-empty pieces begin that strings.Split makes at newlines.
Starts(bytes) ==
    {i \in DOMAIN bytes : bytes[i] # Newline /\ (i = 1 \/ bytes[i - 1] = Newline)}

\* The piece that begins at i.
PieceAt(bytes, i) ==
    SubSeq(bytes, i, Max({j \in i .. Len(bytes) : \A k \in i .. j : bytes[k] # Newline}))

From(S, i) == {j \in S : j >= i}

\* The r-th of these numbers, counted from the largest.
FromLast(S, r) == CHOOSE i \in S : Cardinality(From(S, i)) = r

\* The pieces that are not empty, the last n of them if there are more.
LastLines(bytes, n) ==
    LET S == Starts(bytes)
        m == Min({n, Cardinality(S)})
    IN  [k \in 1 .. m |-> PieceAt(bytes, FromLast(S, m + 1 - k))]

-----------------------------------------------------------------------------
(* Steps *)

\* Claude Code writes on; a write may end anywhere.
WriteOn(byte) ==
    /\ Len(file) < MaxSize
    /\ file' = Append(file, byte)
    /\ UNCHANGED reader

\* Open and seek; an empty file has no lines.
Open ==
    /\ pc = "idle"
    /\ size' = Len(file)
    /\ offset' = Len(file)
    /\ buf' = <<>>
    /\ lines' = <<>>
    /\ pc' = IF file = <<>> THEN "idle" ELSE "read"
    /\ UNCHANGED file

\* One newline for each line is enough.
EnoughForLines(bytes) == Cardinality(Newlines(bytes)) >= N

\* n+1 newlines delimit n lines.
Enough(bytes) == Cardinality(Newlines(bytes)) >= N + 1

\* Chunks are put together in the order in which they were read.
ReadChunkInOrder ==
    /\ pc = "read"
    /\ offset' = Max({0, offset - ChunkSize})
    /\ buf' = buf \o SubSeq(file, offset' + 1, offset)
    /\ pc' = IF offset' = 0 \/ Enough(buf') THEN "split" ELSE "read"
    /\ UNCHANGED <<file, size, lines>>

ReadChunk ==
    /\ pc = "read"
    /\ offset' = Max({0, offset - ChunkSize})
    /\ buf' = SubSeq(file, offset' + 1, offset) \o buf
    /\ pc' = IF offset' = 0 \/ Enough(buf') THEN "split" ELSE "read"
    /\ UNCHANGED <<file, size, lines>>

ReturnLines ==
    /\ pc = "split"
    /\ lines' = LastLines(buf, N)
    /\ pc' = "idle"
    /\ buf' = <<>>
    /\ offset' = size
    /\ UNCHANGED <<file, size>>

\* A chunk cannot be read.
ReadFails ==
    /\ pc = "read"
    /\ lines' = <<>>
    /\ pc' = "idle"
    /\ buf' = <<>>
    /\ offset' = size
    /\ UNCHANGED <<file, size>>

Init ==
    /\ file = <<>>
    /\ pc = "idle"
    /\ size = 0
    /\ offset = 0
    /\ buf = <<>>
    /\ lines = <<>>

Next ==
    \/ \E byte \in Bytes : WriteOn(byte)
    \/ Open
    \/ ReadChunk
    \/ ReturnLines
    \/ ReadFails

Spec == Init /\ [][Next]_vars

-----------------------------------------------------------------------------
(* Properties *)

\* Every variable has its type.
TypeOK ==
    /\ file \in Seq(Bytes)
    /\ pc \in {"idle", "read", "split"}
    /\ size \in 0 .. Len(file)
    /\ offset \in 0 .. size
    /\ buf = SubSeq(file, offset + 1, size)
    /\ lines \in Seq(Seq(Bytes)) /\ Len(lines) <= N

Written == SubSeq(file, 1, size)

Returns == pc = "split" /\ pc' = "idle"

HasEmptyLines(bytes) ==
    \E i \in Newlines(bytes) : i = 1 \/ bytes[i - 1] = Newline

\* monitor.go:358-359: from a file without empty lines the reader returns
\* exactly the last n lines there were when it was opened, the one being
\* written included, wherever the chunks begin and whatever is appended
\* meanwhile.
ReturnsLastLines ==
    [][Returns /\ ~HasEmptyLines(Written) => lines' = LastLines(Written, N)]_vars

EndsWith(line, part) == \E i \in 1 .. Len(line) : part = SubSeq(line, i, Len(line))

\* With empty lines it may return fewer, and the first of them without its
\* beginning, but never one out of order, twice or from the middle.
ReturnsTheEnd ==
    [][Returns =>
         LET all == LastLines(Written, Len(lines'))
         IN  /\ Len(all) = Len(lines')
             /\ \A i \in 2 .. Len(all) : lines'[i] = all[i]
             /\ lines' # <<>> => EndsWith(all[1], lines'[1])]_vars
=============================================================================
