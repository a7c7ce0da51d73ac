--------------------------- MODULE MCTranscriptTail ---------------------------
(***************************************************************************)
(* TranscriptTail on a small instance, and its lines, which it gives by    *)
(* where they begin and end, compared with the way the code makes them.    *)
(***************************************************************************)
EXTENDS TranscriptTail, SequencesExt

\* strings.Split at newlines.
Split(bytes) ==
    LET Put(pieces, byte) ==
            IF byte = Newline THEN Append(pieces, <<>>)
            ELSE [pieces EXCEPT ![Len(pieces)] = Append(@, byte)]
    IN  FoldLeft(Put, <<<<>>>>, bytes)

NonEmpty(pieces) == SelectSeq(pieces, LAMBDA piece : piece # <<>>)

LastOf(pieces, n) == SubSeq(pieces, 1 + Max({0, Len(pieces) - n}), Len(pieces))

ASSUME LinesAreSplit ==
    \A bytes \in BoundedSeq(Bytes, MaxSize), n \in 0 .. N + 1 :
        LastLines(bytes, n) = LastOf(NonEmpty(Split(bytes)), n)

ASSUME EmptyLinesAreSplit ==
    \A bytes \in BoundedSeq(Bytes, MaxSize) :
        HasEmptyLines(bytes) <=> 
            <<>> \in {Split(bytes)[i] : i \in 1 .. Len(Split(bytes)) - 1}
=============================================================================
