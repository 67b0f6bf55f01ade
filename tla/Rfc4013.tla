---- MODULE Rfc4013 ----
(***************************************************************************)
(* The SASLprep profile (src/rfc4013.rs): map, remove, normalize, then     *)
(* check.  A text is a sequence of code points; each table of the code is  *)
(* represented by a few of its members, those that two tables claim        *)
(* included.                                                               *)
(***************************************************************************)
EXTENDS Sequences

CONSTANTS
    Nfkc(_),        \* normalization form KC of a text
    Prohibited      \* SaslPrepError::ProhibitedCharacter

NonAsciiSpaces == {"U+00A0", "U+200B"}
MappedToNothing == {"U+00AD", "U+200B", "U+200C", "U+FE00"}

Controls == {"U+0000", "U+007F", "U+200C"}
PrivateUse == {"U+E000"}
NonCharacters == {"U+FFFE"}
Inappropriate == {"U+FFFD"}
ChangeDisplay == {"U+0340", "U+200E"}
Tagging == {"U+E0001"}

IsProhibited(c) == c \in Controls \cup PrivateUse \cup NonCharacters
                          \cup Inappropriate \cup ChangeDisplay \cup Tagging

Checked(text) == IF \E i \in DOMAIN text : IsProhibited(text[i]) THEN Prohibited ELSE text

LateMapped(input) ==                             \* mutated: removes before it maps the spaces
    LET kept == SelectSeq(input, LAMBDA c : c \notin MappedToNothing)
    IN  [i \in DOMAIN kept |-> IF kept[i] \in NonAsciiSpaces THEN " " ELSE kept[i]]

Mapped(input) ==
    SelectSeq([i \in DOMAIN input |-> IF input[i] \in NonAsciiSpaces THEN " " ELSE input[i]],
              LAMBDA c : c \notin MappedToNothing)

LateSaslprep(input) ==                           \* mutated: maps and removes after normalizing
    Checked(Mapped(Nfkc(input)))

EagerSaslprep(input) ==                          \* mutated: checks before normalizing
    LET checked == Checked(Mapped(input)) IN IF checked = Prohibited THEN checked ELSE Nfkc(checked)

UncheckedSaslprep(input) == Nfkc(Mapped(input))  \* mutated: checks nothing

saslprep(input) == Checked(Nfkc(Mapped(input)))
====
