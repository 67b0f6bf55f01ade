---- MODULE MCPreparation ----
(***************************************************************************)
(* Every text of up to three code points of an alphabet with one member of *)
(* each case: plain, composed and decomposed, compatible with another, an  *)
(* accent that stands alone (it becomes a space with the accent on it),    *)
(* prohibited before or after normalization, mapped, removed, and the two  *)
(* code points that two tables claim.                                      *)
(***************************************************************************)
EXTENDS Preparation

Letters == {"a", "U+00E1", "U+FF41", "U+0301", "U+0340", "U+00A8"}
Alphabet == Letters \cup {" ", "U+00A0", "U+200B", "U+00AD", "U+200C", "U+0000"}

MCTexts == UNION {[1..n -> Alphabet] : n \in 0..3}

Decomposed(c) == CASE c = "U+00E1" -> <<"a", "U+0301">>
                   [] c = "U+00E0" -> <<"a", "U+0300">>
                   [] c = "U+FF41" -> <<"a">>
                   [] c = "U+0340" -> <<"U+0300">>
                   [] c = "U+00A0" -> <<" ">>
                   [] c = "U+00A8" -> <<" ", "U+0308">>
                   [] OTHER        -> <<c>>

Composed(accent) == IF accent = "U+0301" THEN "U+00E1" ELSE "U+00E0"
Accents == {"U+0301", "U+0300"}

\* Decompose, then let each a take the accent that follows it.
MCNfkc(text) ==
    LET d == FlattenSeq([i \in DOMAIN text |-> Decomposed(text[i])])
        taken(i) == i \in 2..Len(d) /\ d[i] \in Accents /\ d[i - 1] = "a"
    IN  FlattenSeq([i \in DOMAIN d |->
            IF taken(i) THEN <<>> ELSE IF taken(i + 1) THEN <<Composed(d[i + 1])>> ELSE <<d[i]>>])

MCSpellings == {<< <<"U+00E1">>, <<"a", "U+0301">> >>, << <<" ">>, <<"U+00A0">> >>,
                << <<"a">>, <<"U+FF41">> >>, << <<" ">>, <<"U+200B">> >>}
====
