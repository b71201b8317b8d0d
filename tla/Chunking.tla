------------------------------ MODULE Chunking ------------------------------
(***************************************************************************)
(* The cutting of a source's text into chunks: indexing/chunking.py.       *)
(* The tokens of a text are numbered 1, 2, ...; a piece of it is a pair    *)
(* <<first, last>>.  A paragraph, what _BOUNDARY separates, is a sequence  *)
(* of words, and a word is a piece.  A word of more tokens than a chunk    *)
(* takes is cut between characters; one character is one token here.       *)
(***************************************************************************)
EXTENDS Integers, FiniteSets, Sequences, SequencesExt

Size(piece) == piece[2] - piece[1] + 1

Total(pieces) ==
    LET add(sum, piece) == sum + Size(piece) IN FoldLeft(add, 0, pieces)

\* A word longer than the limit, cut every limit characters.
Cut(word, limit) ==
    [i \in 1..((Size(word) + limit - 1) \div limit) |->
        <<word[1] + (i - 1) * limit, Min({word[2], word[1] + i * limit - 1})>>]

\* Words joined into one piece: none, or the text from the first to the last.
Joined(words) ==
    IF words = <<>> THEN <<>> ELSE << <<Head(words)[1], Last(words)[2]>> >>

\* _split_oversized: words are collected until the next would pass the limit.
SplitOversized(words, limit) ==
    LET step(s, word) ==
            CASE Size(word) > limit ->
                    [groups |-> s.groups \o Joined(s.current) \o Cut(word, limit),
                     current |-> <<>>]
              [] Size(word) <= limit /\ s.current # <<>>
                    /\ Total(s.current) + Size(word) > limit ->
                    [groups |-> s.groups \o Joined(s.current),
                     current |-> <<word>>]
              [] OTHER -> [s EXCEPT !.current = Append(@, word)]
        end == FoldLeft(step, [groups |-> <<>>, current |-> <<>>], words)
    IN  end.groups \o Joined(end.current)

Sections(paragraphs, limit) ==
    FlattenSeq([i \in DOMAIN paragraphs |-> SplitOversized(paragraphs[i], limit)])

\* Mutant: the overlap is kept whether or not the next section fits.
OverlapAlways(current, section, overlap, limit) ==
    LET ends == {SubSeq(current, i, Len(current)) : i \in 1..(Len(current) + 1)}
        short == {e \in ends : Total(e) <= overlap}
    IN  CHOOSE e \in short : \A f \in short : Len(f) <= Len(e)

\* The sections a chunk shares with the next: the longest end of it that
\* fits, unless the section to come does not fit behind it.
Overlap(current, section, overlap, limit) ==
    LET ends == {SubSeq(current, i, Len(current)) : i \in 1..(Len(current) + 1)}
        short == {e \in ends : Total(e) <= overlap}
        kept == CHOOSE e \in short : \A f \in short : Len(f) <= Len(e)
    IN  IF Total(kept) + Size(section) > limit THEN <<>> ELSE kept

\* chunk_document: the bodies, as sequences of sections.  target and limit
\* are what target_tokens and max_tokens leave for a body beside the header.
Bodies(paragraphs, target, limit, overlap) ==
    LET step(s, section) ==
            IF s.current # <<>> /\ Total(s.current) + Size(section) > target
            THEN [bodies |-> Append(s.bodies, s.current),
                  current |->
                    Append(Overlap(s.current, section, overlap, limit), section)]
            ELSE [s EXCEPT !.current = Append(@, section)]
        end == FoldLeft(step, [bodies |-> <<>>, current |-> <<>>],
                        Sections(paragraphs, limit))
    IN  IF end.current = <<>> THEN end.bodies ELSE Append(end.bodies, end.current)

=============================================================================
