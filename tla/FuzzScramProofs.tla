---- MODULE FuzzScramProofs ----
(***************************************************************************)
(* Theorems about FuzzScram, for every set of credentials and every script *)
(* a fuzzer may write: the harness, which computes the signature of the    *)
(* server from outside, and SaslScram, which computes it from within,      *)
(* accept the same exchanges.                                              *)
(*                                                                         *)
(* They hold of passwords that the preparation leaves as they are (any     *)
(* password, without the cargo feature): the harness does not prepare the  *)
(* password it derives from.                                               *)
(***************************************************************************)
EXTENDS FuzzScram, ScramProofs, Gs2Proofs

\* The passwords go into the key as they were typed, or not at all.
PasswordsStable == \A c \in Creds : Prepare(c.password) \in {c.password, Prohibited}

\* What a Raw step carries is a message of the kind the coroutine reads.
RawWellFormed == \A m \in RawMessages : IsMessage(m)

\* The characters of a text, as the provers know them: a literal is a string to them only
\* when the set names it.
Letters == STRING \cup {Replacement}

Expecting == {ServerFinal(expected_server_signature)}

\* What the harness holds, in each state of the coroutine it drives.
Watching ==
    /\ oracle = [password          |-> oracle.password,
                 client_first_bare |-> oracle.client_first_bare,
                 client_nonce      |-> oracle.client_nonce,
                 server_final      |-> oracle.server_final,
                 verified          |-> oracle.verified]
    /\ AllPrepared
    /\ oracle.password = password
    /\ oracle.client_first_bare = client_first_bare
    /\ oracle.client_nonce \in Seq(Letters)
    /\ oracle.server_final = IF state = "SendClientFinal" THEN {} ELSE Expecting
    /\ state = "Done" => oracle.verified

FInv == /\ IInv
        /\ run \in {"starting", "running", "returned"}
        /\ run = "starting" => AtClientFirst
        /\ run = "running" => state # "SendClientFirst" /\ Watching
----
\* The harness derives the signature the coroutine expects.
LEMMA SameSignature ==
    ASSUME NEW m, IsMessage(m), NEW c, ServerFirstFault(m, c) = NoFault,
           NEW final, final.without_proof = WithoutProof(m, c)
    PROVE  OracleSignature(m, final)
             = {ServerSignature(SaltedPassword(oracle.password, m),
                                AuthMessage(oracle.client_first_bare, m, WithoutProof(m, c)))}
<1>1. m # NotUtf8 /\ FieldsOf(m, "s") # {} /\ FieldsOf(m, "i") # {}
  BY DEF ServerFirstFault, NoFault
<1>2. LastField(m, "s") # Garbage /\ LastField(m, "i") \in 0..U32Max
  BY Accepted
<1>3. SaltedPassword(oracle.password, m)
        = Pbkdf2(oracle.password, LastField(m, "s"), LastField(m, "i"))
  BY <1>2 DEF SaltedPassword, Count
<1> QED BY <1>1, <1>2, <1>3 DEF OracleSignature
----
(***************************************************************************)
(* What the script may feed is a message.                                  *)
(***************************************************************************)
LEMMA LossyType == \A bytes \in Text : Lossy(bytes) \in Seq(Letters)
<1> SUFFICES ASSUME NEW bytes \in Text PROVE Lossy(bytes) \in Seq(Letters)
  OBVIOUS
<1>1. Len(bytes) \in Nat /\ DOMAIN bytes = 1..Len(bytes)
  BY LenProperties DEF Text
<1>2. \A i \in DOMAIN bytes : bytes[i] \in STRING
  BY <1>1 DEF Text
<1>3. Lossy(bytes) \in [1..Len(bytes) -> Letters]
  BY <1>1, <1>2 DEF Lossy, Letters
<1> QED BY <1>1, <1>3

LEMMA FieldsAreMessage ==
    ASSUME NEW S, \A p \in S : p = <<p[1], p[2]>>, NEW m \in Seq(S)
    PROVE  IsMessage(m)
<1>1. Len(m) \in Nat /\ m \in [1..Len(m) -> S]
  BY LenProperties
<1>2. m = [i \in 1..Len(m) |-> m[i]] /\ \A i \in 1..Len(m) : m[i] \in S
  BY <1>1
<1>3. m = [i \in 1..Len(m) |-> <<m[i][1], m[i][2]>>]
  BY <1>2
<1> QED BY <1>1, <1>3 DEF IsMessage

LEMMA ServerFirstForm ==
    ASSUME NEW r, NEW x, NEW s, NEW i, NEW pieces, Len(pieces) \in Nat, NEW salt, NEW count
    PROVE  IsMessage(<< <<r, pieces[1]>> >>
                       \o [k \in 1..Len(pieces) - 1 |-> <<x, pieces[k + 1]>>]
                       \o << <<s, salt>>, <<i, count>> >>)
<1> DEFINE V == {pieces[j] : j \in 1..Len(pieces)} \cup {pieces[1], salt, count}
           S == {<<k, v>> : k \in {r, x, s, i}, v \in V}
           a == << <<r, pieces[1]>> >>
           b == [k \in 1..Len(pieces) - 1 |-> <<x, pieces[k + 1]>>]
           c == << <<s, salt>>, <<i, count>> >>
<1>1. a \in Seq(S) /\ c \in Seq(S)
  <2>1. <<r, pieces[1]>> \in S /\ <<s, salt>> \in S /\ <<i, count>> \in S
    OBVIOUS
  <2> HIDE DEF S
  <2> QED BY <2>1
<1>2. b \in Seq(S)
  <2>1. \A k \in 1..Len(pieces) - 1 : b[k] \in S
    OBVIOUS
  <2>2. Len(pieces) - 1 \in Nat \/ 1..Len(pieces) - 1 = {}
    OBVIOUS
  <2>3. CASE Len(pieces) - 1 \in Nat
    <3> DEFINE n == Len(pieces) - 1
    <3>1. b \in [1..n -> S] /\ n \in Nat
      BY <2>1, <2>3
    <3> HIDE DEF n, S, b
    <3> QED BY <3>1, SeqDef
  <2>4. CASE 1..Len(pieces) - 1 = {}
    <3>1. b \in [1..0 -> S]
      BY <2>4
    <3> HIDE DEF S, b
    <3> QED BY <3>1, SeqDef
  <2> QED BY <2>2, <2>3, <2>4
<1>3. \A p \in S : p = <<p[1], p[2]>>
  OBVIOUS
<1> HIDE DEF S, a, b, c
<1>4. (a \o b) \o c \in Seq(S)
  BY <1>1, <1>2, ConcatProperties, Zenon
<1>5. IsMessage((a \o b) \o c)
  BY <1>3, <1>4, FieldsAreMessage
<1> QED BY <1>5 DEF a, b, c

LEMMA ServerFirstMessage ==
    ASSUME run = "running", FInv, NEW e \in Extensions, NEW s \in Salts, NEW i \in Counts
    PROVE  IsMessage(ServerFirst(e, s, i))
<1> DEFINE whole == oracle.client_nonce \o e
           pieces == Split(whole, ",")
<1>1. STRING \subseteq Letters
  BY DEF Letters
<1>2. oracle.client_nonce \in Seq(Letters) /\ e \in Seq(Letters)
  <2>1. oracle.client_nonce \in Seq(Letters)
    BY DEF FInv, Watching
  <2>2. e \in Seq(STRING)
    BY StepsAssumption, Zenon DEF Text
  <2> QED BY <1>1, <2>1, <2>2, SeqMonotonic, Zenon
<1>3. whole \in Seq(Letters)
  <2> HIDE DEF Letters
  <2> QED BY <1>2, ConcatProperties, Zenon
<1>4. Len(pieces) \in Nat
  <2> HIDE DEF whole
  <2> QED BY <1>3, SplitSize, Zenon
<1> HIDE DEF pieces
<1> QED BY <1>4, ServerFirstForm, Zenon DEF ServerFirst, pieces

LEMMA ServerFinalMessage ==
    ASSUME run = "running", FInv
    PROVE  IsMessage(ServerFinalStep)
<1>1. CASE oracle.server_final = {}
  <2>1. ServerFinalStep = <<>>
    BY <1>1, Zenon DEF ServerFinalStep
  <2> QED BY <2>1 DEF IsMessage
<1>2. CASE oracle.server_final = Expecting
  <2>1. ServerFinalStep = ServerFinal(expected_server_signature)
    BY <1>2, Zenon DEF ServerFinalStep, Expecting
  <2>2. IsMessage(ServerFinal(expected_server_signature))
    BY DEF IsMessage, ServerFinal
  <2> QED BY <2>1, <2>2
<1> QED BY <1>1, <1>2 DEF FInv, Watching

LEMMA TwoThree ==
    ASSUME NEW S, NEW a \in S, NEW b \in S, NEW c \in S
    PROVE  <<a>> \o <<b>> = <<a, b>> /\ <<a, b>> \o <<c>> = <<a, b, c>>
<1>1. /\ <<a>> \in Seq(S) /\ <<b>> \in Seq(S) /\ <<c>> \in Seq(S)
      /\ Len(<<a>>) = 1 /\ Len(<<b>>) = 1 /\ Len(<<c>>) = 1
      /\ <<a>>[1] = a /\ <<b>>[1] = b /\ <<c>>[1] = c
  OBVIOUS
<1>2. /\ <<a, b>> \in Seq(S) /\ Len(<<a, b>>) = 2 /\ <<a, b>>[1] = a /\ <<a, b>>[2] = b
      /\ <<a, b, c>> \in Seq(S) /\ Len(<<a, b, c>>) = 3
      /\ <<a, b, c>>[1] = a /\ <<a, b, c>>[2] = b /\ <<a, b, c>>[3] = c
  OBVIOUS
<1> DEFINE f == <<a>> \o <<b>>
           g == <<a, b>> \o <<c>>
<1>3. f \in Seq(S) /\ Len(f) = 2 /\ f[1] = a /\ f[2] = b
  BY <1>1, ConcatProperties
<1>4. g \in Seq(S) /\ Len(g) = 3 /\ g[1] = a /\ g[2] = b /\ g[3] = c
  BY <1>1, <1>2, ConcatProperties
<1> HIDE DEF f, g
<1>5. f = <<a, b>>
  BY <1>2, <1>3, SeqEqual
<1>6. g = <<a, b, c>>
  BY <1>2, <1>4, SeqEqual
<1> QED BY <1>5, <1>6 DEF f, g

\* The header of a client without channel binding.
LEMMA UnboundForm ==
    ASSUME NEW n, NEW comma
    PROVE  <<n>> \o <<comma>> \o <<>> \o <<comma>> = <<n, comma, comma>>
<1> DEFINE S == {n, comma}
<1>1. n \in S /\ comma \in S /\ <<n, comma>> \in Seq(S)
  OBVIOUS
<1> HIDE DEF S
<1>2. <<n>> \o <<comma>> = <<n, comma>> /\ <<n, comma>> \o <<comma>> = <<n, comma, comma>>
  BY <1>1, TwoThree, Zenon
<1>3. <<n, comma>> \o <<>> = <<n, comma>>
  BY <1>1, ConcatEmptySeq, Zenon
<1> QED BY <1>2, <1>3, Zenon

LEMMA UnboundHeader == Header(Unsupported, NoAuthzid) = <<"n", ",", ",">>
<1>1. Flag(Unsupported) = <<"n">>
  BY DEF Flag, Unsupported, IsBound
<1>2. Header(Unsupported, NoAuthzid) = <<"n">> \o <<",">> \o <<>> \o <<",">>
  BY <1>1, Zenon DEF Header
<1> QED BY <1>2, UnboundForm, Zenon
----
(***************************************************************************)
(* What a message does to the coroutine, once the exchange has begun.      *)
(***************************************************************************)
Refused == last'.reply.kind = "Err" /\ UNCHANGED <<creds, machine>>

Kept == UNCHANGED <<creds, username, password, client_first_bare>>

Proved(m) == /\ state = "SendClientFinal" /\ state' = "Acknowledge" /\ Kept
             /\ ServerFirstFault(m, creds) = NoFault
             /\ last'.reply.kind = "WantsWrite"
             /\ last'.reply.payload.kind = "client-final"
             /\ last'.reply.payload.without_proof = WithoutProof(m, creds)
             /\ expected_server_signature' =
                    ServerSignature(SaltedPassword(password, m),
                                    AuthMessage(client_first_bare, m, WithoutProof(m, creds)))

Acknowledged(m) == /\ state = "Acknowledge" /\ state' = "Done" /\ Kept
                   /\ UNCHANGED expected_server_signature
                   /\ m = ServerFinal(expected_server_signature)
                   /\ last'.reply.kind = "WantsWrite"
                   /\ last'.reply.payload.kind = "empty"

LEMMA MessageEffect ==
    ASSUME state # "SendClientFirst", NEW m, IsMessage(m), Resume(Input(m))
    PROVE  Refused \/ Proved(m) \/ Acknowledged(m)
<1> DEFINE arg == Input(m)
<1>1. arg.kind = "Input" /\ arg.bytes = m /\ arg # NoArg /\ arg # PeerDone
  BY DEF Input, NoArg, PeerDone
<1> HIDE DEF arg
<1>2. CASE SendClientFinal(arg)
  <2>1. Proved(m)
    BY <1>1, <1>2 DEF SendClientFinal, Proved, Kept, Write, WantsWrite, ClientFinal
  <2> QED BY <2>1
<1>3. CASE Acknowledge(arg)
  <2>1. m = ServerFinal(expected_server_signature)
    BY <1>1, <1>3, OnlyTheSignaturePasses DEF Acknowledge
  <2>2. Acknowledged(m)
    BY <1>3, <2>1 DEF Acknowledge, Acknowledged, Kept, Write, WantsWrite, EmptyPayload
  <2> QED BY <2>2
<1>4. CASE \E error : Fail(arg, error)
  BY <1>4 DEF Fail, Return, CompleteErr, Refused
<1> QED BY <1>1, <1>2, <1>3, <1>4 DEF Resume, SendClientFirst, Finish, RefuseCredentials,
        RefuseServerFirst, RefuseServerFinal, RefuseEnd, RefuseUnexpected, arg
----
(***************************************************************************)
(* Steps of the harness.                                                   *)
(***************************************************************************)
LEMMA Beginning ==
    ASSUME PasswordsStable, FInv, Start
    PROVE  FInv'
<1>1. IInv /\ AtClientFirst /\ creds \in Creds
  BY DEF FInv, Start, IInv
<1>2. Feedable(NoArg) /\ Resume(NoArg)
  BY DEF Feedable, Start
<1>3. IInv'
  BY <1>1, <1>2, Resuming
<1>4. CASE last'.reply.kind = "Err"
  BY <1>3, <1>4 DEF Start, FInv
<1>5. CASE SendClientFirst(NoArg)
  <2> DEFINE bare == ClientFirstBare(Prepare(creds.username), ClientNonce(creds))
  <2>1. /\ last'.reply.kind = "WantsWrite"
        /\ last'.reply.payload.header = Gs2Header(creds)
        /\ last'.reply.payload.bare = bare
    BY <1>1, <1>5 DEF SendClientFirst, Write, WantsWrite, ClientFirst, AtClientFirst, Raw
  <2>2. Gs2Header(creds) = <<"n", ",", ",">>
    BY <1>1, UnboundAssumption, UnboundHeader, Zenon DEF Gs2Header
  <2>3. ReadsClientFirst(last'.reply.payload)
    BY <2>1, <2>2, Zenon DEF ReadsClientFirst
  <2>4. run' = "running" /\ oracle' = Oracle(creds.password, last'.reply.payload)
    BY <2>1, <2>3 DEF Start
  <2>5. creds' = creds /\ state' = "SendClientFinal"
    BY <1>5 DEF SendClientFirst, Write
  <2>6. AllPrepared' /\ client_first_bare' = bare
    BY <1>1, <1>5, CredsText
       DEF SendClientFirst, Preparable, AtClientFirst, Raw, AllPrepared, Write
  <2>7. password' = creds.password
    BY <1>1, <1>5 DEF SendClientFirst, Preparable, AtClientFirst, Raw, PasswordsStable
  <2>8. bare.r \in Seq(Letters)
    <3>1. creds.nonce \in Text
      BY <1>1, CredsAssumption DEF ScramCreds
    <3>2. bare.r = Lossy(creds.nonce)
      BY DEF ClientFirstBare, ClientNonce
    <3> QED BY <3>1, <3>2, LossyType
  <2>9. Watching'
    <3> HIDE DEF bare
    <3> QED BY <2>1, <2>4, <2>5, <2>6, <2>7, <2>8 DEF Watching, Oracle
  <2> QED BY <1>3, <2>4, <2>5, <2>9 DEF FInv
<1>6. CASE RefuseCredentials(NoArg)
  BY <1>4, <1>6 DEF RefuseCredentials, Fail, Return, CompleteErr
<1> QED BY <1>1, <1>2, <1>5, <1>6 DEF Resume, AtClientFirst, NoArg, PeerDone, SendClientFinal,
        RefuseServerFirst, Acknowledge, RefuseServerFinal, Finish, RefuseEnd, RefuseUnexpected,
        Expected

LEMMA Feeding ==
    ASSUME FInv, NEW m, IsMessage(m), Feed(m)
    PROVE  FInv'
<1>1. run = "running" /\ IInv /\ state # "SendClientFirst" /\ Watching
  BY DEF FInv, Feed
<1>2. CASE ~Affordable(m)
  BY <1>1, <1>2, Idling DEF Feed, FInv
<1>3. CASE Affordable(m)
  <2>1. Resume(Input(m)) /\ Feedable(Input(m))
    BY <1>3 DEF Feed, Feedable, Input
  <2>2. IInv'
    BY <1>1, <2>1, Resuming
  <2> DEFINE reply == last'.reply
  <2>3. CASE Refused
    <3>1. reply.kind = "Err" /\ reply # CompleteOk
      BY <2>3 DEF Refused, CompleteOk
    <3>2. run' = "returned"
      BY <1>3, <3>1 DEF Feed, Completed
    <3> QED BY <2>2, <3>2 DEF FInv
  <2>4. CASE Proved(m)
    <3>1. reply.kind = "WantsWrite" /\ reply.payload.kind = "client-final"
      BY <2>4 DEF Proved
    <3>2. Responded(m, reply.payload)
      BY <1>3, <3>1 DEF Feed
    <3>3. /\ oracle' = [oracle EXCEPT !.server_final =
                            {ServerFinal(s) : s \in OracleSignature(m, reply.payload)}]
          /\ run' = "running"
      BY <3>1, <3>2 DEF Responded
    <3>4. OracleSignature(m, reply.payload) = {expected_server_signature'}
      <4>1. /\ ServerFirstFault(m, creds) = NoFault
            /\ reply.payload.without_proof = WithoutProof(m, creds)
            /\ expected_server_signature' =
                  ServerSignature(SaltedPassword(password, m),
                                  AuthMessage(client_first_bare, m, WithoutProof(m, creds)))
        BY <2>4 DEF Proved
      <4>2. oracle.password = password /\ oracle.client_first_bare = client_first_bare
        BY <1>1 DEF Watching
      <4> HIDE DEF reply
      <4> QED BY <4>1, <4>2, SameSignature
    <3>5. {ServerFinal(s) : s \in OracleSignature(m, reply.payload)} = Expecting'
      BY <3>4 DEF Expecting
    <3>6. /\ state' = "Acknowledge"
          /\ UNCHANGED <<creds, username, password, client_first_bare>>
      BY <2>4 DEF Proved, Kept
    <3>7. Watching'
      <4> HIDE DEF reply
      <4>1. oracle' = [oracle EXCEPT !.server_final = Expecting']
        BY <3>3, <3>5
      <4> QED BY <1>1, <3>6, <4>1 DEF Watching, AllPrepared
    <3> QED BY <2>2, <3>3, <3>6, <3>7 DEF FInv
  <2>5. CASE Acknowledged(m)
    <3>1. reply.kind = "WantsWrite" /\ reply.payload.kind = "empty"
      BY <2>5 DEF Acknowledged
    <3>2. Responded(m, reply.payload)
      BY <1>3, <3>1 DEF Feed
    <3>3. m \in oracle.server_final
      BY <1>1, <2>5 DEF Acknowledged, Watching, Expecting
    <3>4. oracle' = [oracle EXCEPT !.verified = TRUE] /\ run' = "running"
      BY <3>1, <3>2, <3>3 DEF Responded
    <3>5. /\ state = "Acknowledge" /\ state' = "Done"
          /\ UNCHANGED <<creds, username, password, client_first_bare,
                         expected_server_signature>>
      BY <2>5 DEF Acknowledged, Kept
    <3>6. Watching'
      <4> HIDE DEF reply
      <4> QED BY <1>1, <3>4, <3>5 DEF Watching, AllPrepared, Expecting
    <3> QED BY <2>2, <3>4, <3>5, <3>6 DEF FInv
  <2> QED BY <1>1, <2>1, <2>3, <2>4, <2>5, MessageEffect
<1> QED BY <1>2, <1>3

LEMMA Closing ==
    ASSUME FInv, PeerFinished
    PROVE  FInv'
<1>1. run = "running" /\ IInv /\ Watching /\ Resume(PeerDone) /\ Feedable(PeerDone)
  BY DEF FInv, PeerFinished, Feedable
<1>2. IInv'
  BY <1>1, Resuming
<1>3. last'.reply.kind \in {"Ok", "Err"}
  BY <1>1 DEF Resume, PeerDone, NoArg, SendClientFirst, RefuseCredentials, SendClientFinal,
     RefuseServerFirst, Acknowledge, RefuseServerFinal, Finish, RefuseEnd, RefuseUnexpected,
     Expected, Fail, Return, CompleteOk, CompleteErr
<1>4. last'.reply = CompleteOk => state = "Done"
  <2>1. last'.arg = PeerDone
    BY <1>1 DEF Resume, PeerDone, NoArg, SendClientFirst, RefuseCredentials, SendClientFinal,
       RefuseServerFirst, Acknowledge, RefuseServerFinal, Finish, RefuseEnd, RefuseUnexpected,
       Expected, Fail, Return
  <2>2. state' = state
    BY <1>1 DEF Resume, PeerDone, NoArg, SendClientFirst, RefuseCredentials, SendClientFinal,
       RefuseServerFirst, Acknowledge, RefuseServerFinal, Finish, RefuseEnd, RefuseUnexpected,
       Expected, Fail, Return, machine
  <2> QED BY <1>2, <2>1, <2>2 DEF IInv, LastAnswer, CompleteOk, CompleteErr
<1>5. run' = "returned"
  BY <1>1, <1>3, <1>4 DEF PeerFinished, Completed, Watching
<1> QED BY <1>2, <1>5 DEF FInv
----
LEMMA HarnessBegins == FuzzInit => FInv
<1> SUFFICES ASSUME FuzzInit PROVE FInv
  OBVIOUS
<1>1. IInv /\ AtClientFirst
  BY Initially DEF FuzzInit, Init, Fresh, AtClientFirst, Raw
<1> QED BY <1>1 DEF FuzzInit, FInv

\* What is left when nothing moves.
LEMMA Standing ==
    ASSUME FInv, UNCHANGED vars,
           run' = "returned" \/ UNCHANGED <<run, oracle>>
    PROVE  FInv'
<1>1. IInv'
  BY Idling DEF FInv
<1> QED BY <1>1 DEF FInv, AtClientFirst, Raw, Watching, AllPrepared, Expecting, vars, machine

LEMMA HarnessStepwise ==
    ASSUME PasswordsStable, RawWellFormed, FInv, [FuzzNext]_fuzzvars
    PROVE  FInv'
<1>1. CASE Start
  BY <1>1, Beginning
<1>2. CASE PeerFinished
  BY <1>2, Closing
<1>3. CASE OutOfSteps \/ Ended \/ UNCHANGED fuzzvars
  BY <1>3, Standing DEF OutOfSteps, Ended, fuzzvars
<1>4. ASSUME NEW m \in RawMessages, Feed(m) PROVE FInv'
  BY <1>4, Feeding DEF RawWellFormed
<1>5. ASSUME NEW e \in Extensions, NEW s \in Salts, NEW i \in Counts,
             run = "running", Feed(ServerFirst(e, s, i))
      PROVE  FInv'
  BY <1>5, ServerFirstMessage, Feeding
<1>6. CASE run = "running" /\ Feed(ServerFinalStep)
  BY <1>6, ServerFinalMessage, Feeding
<1> QED BY <1>1, <1>2, <1>3, <1>4, <1>5, <1>6 DEF FuzzNext
----
\* The harness watches what the coroutine holds, in every reachable state of the target.
THEOREM Watched ==
    ASSUME PasswordsStable, RawWellFormed
    PROVE  FuzzSpec => []FInv
<1>1. FInv /\ [FuzzNext]_fuzzvars => FInv'
  BY HarnessStepwise
<1> QED BY <1>1, HarnessBegins, PTL DEF FuzzSpec

\* Neither assertion of the harness fails, whatever the script feeds and however long it is.
THEOREM NeverPanics ==
    ASSUME PasswordsStable, RawWellFormed
    PROVE  FuzzSpec => []NoPanic
<1>1. FInv => NoPanic
  BY DEF FInv, NoPanic
<1> QED BY <1>1, Watched, PTL

\* The signature the harness derives is the one the coroutine waits for.
THEOREM DerivationsAgree ==
    ASSUME PasswordsStable, RawWellFormed
    PROVE  FuzzSpec => []OracleAgrees
<1>1. FInv => OracleAgrees
  BY DEF FInv, Watching, Expecting, OracleAgrees
<1> QED BY <1>1, Watched, PTL
====
