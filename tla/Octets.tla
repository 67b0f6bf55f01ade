---- MODULE Octets ----
(***************************************************************************)
(* Byte strings, as the mechanisms build and read them: sequences of       *)
(* tokens, of which only the separators and the bytes a conversion changes *)
(* are told apart.                                                         *)
(***************************************************************************)
EXTENDS Integers, Sequences, SequencesExt

Text == Seq(STRING)

InvalidByte == "0xff"
Replacement == "U+FFFD"

\* String::from_utf8_lossy
Lossy(bytes) == [i \in DOMAIN bytes |-> IF bytes[i] = InvalidByte THEN Replacement ELSE bytes[i]]

\* A reader's view: the pieces between one cut and the next, where the kth cut is the
\* one with k - 1 before it.
Cuts(bytes, separator) ==
    {0, Len(bytes) + 1} \cup {i \in DOMAIN bytes : bytes[i] = separator}

CutAt(cuts, k) == CHOOSE i \in cuts : Cardinality({j \in cuts : j < i}) = k - 1

Split(bytes, separator) ==
    LET cuts == Cuts(bytes, separator)
    IN  [k \in 1..Cardinality(cuts) - 1 |->
            SubSeq(bytes, CutAt(cuts, k) + 1, CutAt(cuts, k + 1) - 1)]
====
