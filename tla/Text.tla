-------------------------------- MODULE Text --------------------------------
(***************************************************************************)
(* The string functions of Rust's standard library that the program calls, *)
(* on texts that are sequences of tokens.  A token is a separator, a blank *)
(* or a word the code never looks into, so that the length of a text       *)
(* counts tokens instead of bytes.                                         *)
(***************************************************************************)
EXTENDS Naturals, Sequences, FiniteSets, FiniteSetsExt, SequencesExt

\* str::trim: the text without the blanks at its two ends.
Trim(s) ==
    LET solid == {i \in DOMAIN s : s[i] # " "}
    IN  IF solid = {} THEN <<>> ELSE SubSeq(s, Min(solid), Max(solid))

\* str::split(c): the pieces between the separators, always at least one.
Split(s, c) ==
    LET cuts == {i \in DOMAIN s : s[i] = c} \cup {0, Len(s) + 1}
        cut(k) == CHOOSE i \in cuts : Cardinality({j \in cuts : j < i}) = k
    IN  [k \in 1..(Cardinality(cuts) - 1) |->
            SubSeq(s, cut(k - 1) + 1, cut(k) - 1)]

\* str::splitn(2, c): split at the first separator only.
SplitOnce(s, c) ==
    LET parts == Split(s, c)
        head == parts[1]
    IN  IF Len(parts) = 1 THEN <<head>>
        ELSE <<head, SubSeq(s, Len(head) + 2, Len(s))>>

\* Iterator::filter(|name| !name.is_empty()), from the first piece to the last.
NonEmpty(pieces) ==
    LET kept[k \in 0..Len(pieces)] ==
            IF k = 0 THEN <<>>
            ELSE IF pieces[k] = <<>> THEN kept[k - 1]
            ELSE Append(kept[k - 1], pieces[k])
    IN  kept[Len(pieces)]

\* slice::join(c): the pieces with a separator between them.
Join(pieces, c) ==
    LET text[k \in 0..Len(pieces)] ==
            IF k = 0 THEN <<>>
            ELSE IF k = 1 THEN pieces[1]
            ELSE text[k - 1] \o <<c>> \o pieces[k]
    IN  text[Len(pieces)]
=============================================================================
