---- MODULE Preparation ----
(***************************************************************************)
(* A text prepared at three places: by the server when the password was    *)
(* set, by the client when it is typed again, perhaps spelled another way, *)
(* and by the server when it reads what the client sent.  The server is    *)
(* not in this repository; it prepares by the same profile.                *)
(***************************************************************************)
EXTENDS Integers, FiniteSets, SequencesExt, Rfc4013

CONSTANTS
    Texts,          \* what a user may choose
    Spellings       \* pairs of texts that look the same: <<text, text>>

VARIABLES
    chosen,         \* the text as first typed
    typed,          \* the text as typed again
    stored, sent, read      \* what is prepared from it, at each of the three places

vars == <<chosen, typed, stored, sent, read>>

Unprepared == <<"none yet">>

Invisible == MappedToNothing \ NonAsciiSpaces

\* The same text in the eyes of its user.
Respelled(text) ==
    {text}
      \cup {InsertAt(text, i, c) : i \in 1..Len(text) + 1, c \in Invisible}
      \cup {ReplaceFirstSubSeq(pair[2], pair[1], text) : pair \in Spellings}

Init == /\ chosen \in Texts
        /\ typed = Unprepared
        /\ stored = Unprepared
        /\ sent = Unprepared
        /\ read = Unprepared

SetPassword == /\ stored = Unprepared
               /\ stored' = saslprep(chosen)
               /\ UNCHANGED <<chosen, typed, sent, read>>

Type == /\ typed = Unprepared
        /\ typed' \in Respelled(chosen)
        /\ sent' = saslprep(typed')
        /\ UNCHANGED <<chosen, stored, read>>

Receive == /\ sent \notin {Unprepared, Prohibited}
           /\ read = Unprepared
           /\ read' = saslprep(sent)
           /\ UNCHANGED <<chosen, typed, stored, sent>>

Rest == /\ stored # Unprepared
        /\ sent = Prohibited \/ read # Unprepared
        /\ UNCHANGED vars

Next == SetPassword \/ Type \/ Receive \/ Rest

Spec == Init /\ [][Next]_vars
----
Prepared(text) == text \notin {Unprepared, Prohibited}

\* Nothing goes out that a server would change, drop or refuse: no space but the ASCII
\* one, no invisible code point, none of the prohibited tables.
OutputClean ==
    Prepared(sent) =>
        \A i \in DOMAIN sent : ~IsProhibited(sent[i]) /\ sent[i] \notin NonAsciiSpaces \cup MappedToNothing

\* Preparing what was prepared changes nothing: a server that prepares what it reads,
\* and one that does not, read the same.
ServerReadsSame == read # Unprepared => read = sent

\* Two spellings of the same text prepare alike, into the same text or into a refusal,
\* so that the text typed matches the one stored.
SpellingsAgree == (typed # Unprepared /\ stored # Unprepared) => sent = stored

\* Every space that was typed separates words in what goes out; normalization may add
\* others, to carry an accent that stood alone.
Spaces(text) == Cardinality({i \in DOMAIN text : text[i] \in NonAsciiSpaces \cup {" "}})

BoundariesKept == Prepared(sent) => Spaces(sent) >= Spaces(typed)

\* A text is refused only for what is left of it: one whose every code point a server
\* would store in another form is not.
RefusedForCause ==
    sent = Prohibited =>
        \E i \in DOMAIN typed : /\ typed[i] \notin MappedToNothing
                                /\ IsProhibited(typed[i])
                                /\ Nfkc(<<typed[i]>>) = <<typed[i]>>
====
