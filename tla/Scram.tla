---- MODULE Scram ----
(***************************************************************************)
(* SaslScram, the client side of RFC 5802, generic over its digest         *)
(* (src/rfc5802.rs).  One coroutine under a driver that may resume it with *)
(* anything, in any state, after any outcome: the code latches nothing, so *)
(* every such call is one the program can be in.                           *)
(*                                                                         *)
(* Cryptography is symbolic: a key, a proof or a signature is the record   *)
(* of what it is computed from.  A message of the server is the sequence   *)
(* of its comma-separated fields, <<key, value>>, or NotUtf8; key "x"      *)
(* stands for every attribute the client does not read, and Garbage for a  *)
(* value that does not decode.                                             *)
(***************************************************************************)
EXTENDS FiniteSets, SaslCoroutine, Octets, Gs2

CONSTANTS
    Creds,          \* the SaslScramCreds the coroutine may be built from
    Messages,       \* what the driver may feed as Input
    SaslPrep,       \* is the saslprep cargo feature on?
    Prep(_),        \* rfc4013::saslprep: a text, or Prohibited
    Prohibited,     \* the preparation met a prohibited character
    Garbage,        \* a field value that is not valid base64, or not a number
    NotUtf8,        \* a message that is not valid UTF-8
    NoBytes,        \* the empty signature, Vec::new()
    U32Max          \* u32::MAX, smaller in an instance

VARIABLES username, password, client_first_bare, expected_server_signature

machine == <<state, username, password, client_first_bare, expected_server_signature>>
vars == <<creds, machine, last, transcript>>

States == {"SendClientFirst", "SendClientFinal", "Acknowledge", "Done"}
Args == {NoArg, PeerDone} \cup {Input(m) : m \in Messages}

ScramCreds == [username : Text, password : Text, nonce : Text, binding : Bindings]

ASSUME CredsAssumption == Creds \subseteq ScramCreds
ASSUME PrepAssumption ==
    /\ SaslPrep \in BOOLEAN
    /\ \A c \in Creds, s \in {"username", "password"} : Prep(c[s]) \in Text \cup {Prohibited}
    /\ Prohibited \notin Text
ASSUME MessagesAssumption ==
    \A m \in Messages \ {NotUtf8} :
        /\ Len(m) \in Nat
        /\ m = [i \in 1..Len(m) |-> <<m[i][1], m[i][2]>>]
ASSUME WidthAssumption == U32Max \in Nat /\ Garbage \notin 0..U32Max
----
(***************************************************************************)
(* What `new` derives from the credentials; nothing reassigns it.          *)
(***************************************************************************)
ClientNonce(c) == Lossy(c.nonce)
Gs2Header(c) == Header(c.binding, NoAuthzid)
FixedChannel(c) == Header(Unsupported, NoAuthzid)    \* mutated: c= is always biws
Channel(c) == CbindInput(c.binding, NoAuthzid)
Mechanism(c) == IF IsBound(c.binding) THEN "MECHANISM_PLUS" ELSE "MECHANISM"

ClientFirstBare(name, nonce) == [n |-> Escape(name), r |-> nonce]
NoBare == [n |-> <<>>]      \* String::new()

ClientFirst(header, bare) == [kind |-> "client-first", header |-> header, bare |-> bare]
----
(***************************************************************************)
(* The server-first-message, read field by field: the last r=, s= and i=   *)
(* win, and a value that does not decode ends the reading where it stands. *)
(***************************************************************************)
FieldsOf(m, key) == {i \in DOMAIN m : m[i][1] = key}

LastField(m, key) == m[Max(FieldsOf(m, key))][2]

WrappingCount(value) ==                          \* mutated: parsed wider, then cut to the width
    IF value = Garbage THEN Garbage ELSE value % (U32Max + 1)

\* parse::<u32>, which reads nothing past the width.
Count(value) == IF value \in 0..U32Max THEN value ELSE Garbage

Undecodable(m) == {i \in FieldsOf(m, "s") : m[i][2] = Garbage}
                    \cup {i \in FieldsOf(m, "i") : Count(m[i][2]) = Garbage}

NonceExtends(r, c) == IsPrefix(ClientNonce(c), r)

NoFault == "none"

\* SaslScramError
Errors == {"Preparation", "InvalidEncoding", "MissingNonce", "MissingSalt", "MissingIterations",
           "InvalidIterationCount", "InvalidBase64", "NonceMismatch", "InvalidServerFinal",
           "ServerError", "ServerSignatureMismatch", "ServerSignatureNotVerified",
           "UnexpectedChallenge"}

\* The errors of client_final, in the order the code meets them.
ServerFirstFault(m, c) ==
    IF m = NotUtf8 THEN "InvalidEncoding"
    ELSE IF Undecodable(m) # {}
         THEN IF m[Min(Undecodable(m))][1] = "s" THEN "InvalidBase64"
                                                 ELSE "InvalidIterationCount"
    ELSE IF FieldsOf(m, "r") = {} THEN "MissingNonce"
    ELSE IF FieldsOf(m, "s") = {} THEN "MissingSalt"
    ELSE IF FieldsOf(m, "i") = {} THEN "MissingIterations"
    ELSE IF ~NonceExtends(LastField(m, "r"), c) THEN "NonceMismatch"
    ELSE NoFault

\* pbkdf2 runs a first round whatever the count: i=0 derives what i=1 does.
Pbkdf2(secret, salt, iterations) ==
    [secret |-> secret, salt |-> salt, rounds |-> IF iterations = 0 THEN 1 ELSE iterations]

SaltedPassword(secret, m) == Pbkdf2(secret, LastField(m, "s"), Count(LastField(m, "i")))

WithoutProof(m, c) == [c |-> Channel(c), r |-> LastField(m, "r")]

AuthMessage(bare, m, without_proof) ==
    [bare |-> bare, server_first |-> m, without_proof |-> without_proof]

\* ClientKey XOR HMAC(StoredKey, AuthMessage), and HMAC(ServerKey, AuthMessage).
ClientProof(salted, auth) == [key |-> "Client Key", salted |-> salted, auth |-> auth]
ServerSignature(salted, auth) == [key |-> "Server Key", salted |-> salted, auth |-> auth]

ClientFinal(m, c, proof) ==
    [kind |-> "client-final", without_proof |-> WithoutProof(m, c), proof |-> proof]

(***************************************************************************)
(* The server-final-message is read by its prefix alone, and everything    *)
(* after v= has to be the base64 of the signature: a message of several    *)
(* fields that begins with v= does not decode.                             *)
(***************************************************************************)
StartsWith(m, key) == Len(m) > 0 /\ m[1][1] = key

UncheckedServerFinalFault(m, expected) ==        \* mutated: no comparison
    IF m # NotUtf8 /\ StartsWith(m, "v") THEN NoFault ELSE "InvalidServerFinal"

ServerFinalFault(m, expected) ==
    IF m = NotUtf8 THEN "InvalidEncoding"
    ELSE IF StartsWith(m, "e") THEN "ServerError"
    ELSE IF ~StartsWith(m, "v") THEN "InvalidServerFinal"
    ELSE IF Len(m) > 1 \/ m[1][2] = Garbage THEN "InvalidBase64"
    ELSE IF m[1][2] # expected THEN "ServerSignatureMismatch"
    ELSE NoFault
----
Init == /\ creds \in Creds
        /\ state = "SendClientFirst"
        /\ username = creds.username
        /\ password = creds.password
        /\ client_first_bare = NoBare
        /\ expected_server_signature = NoBytes
        /\ Fresh

\* Complete(Err): the coroutine keeps the state it was resumed in.
Fail(arg, error) == Return(arg, CompleteErr(error)) /\ UNCHANGED <<creds, machine>>

Prepare(s) == IF SaslPrep THEN Prep(s) ELSE s

\* Both are prepared or neither is.
Preparable == Prohibited \notin {Prepare(username), Prepare(password)}

RawPasswordSendClientFirst(arg) ==               \* mutated: keeps the password as typed
    /\ state = "SendClientFirst"
    /\ arg = NoArg
    /\ Preparable
    /\ username' = Prepare(username)
    /\ client_first_bare' = ClientFirstBare(username', ClientNonce(creds))
    /\ state' = "SendClientFinal"
    /\ Write(arg, ClientFirst(Gs2Header(creds), client_first_bare'))
    /\ UNCHANGED <<creds, password, expected_server_signature>>

RawBareSendClientFirst(arg) ==                   \* mutated: remembers the name as typed
    /\ state = "SendClientFirst"
    /\ arg = NoArg
    /\ Preparable
    /\ username' = Prepare(username)
    /\ password' = Prepare(password)
    /\ client_first_bare' = ClientFirstBare(username, ClientNonce(creds))
    /\ state' = "SendClientFinal"
    /\ Write(arg, ClientFirst(Gs2Header(creds), ClientFirstBare(username', ClientNonce(creds))))
    /\ UNCHANGED <<creds, expected_server_signature>>

SendClientFirst(arg) ==
    /\ state = "SendClientFirst"
    /\ arg = NoArg
    /\ Preparable
    /\ username' = Prepare(username)
    /\ password' = Prepare(password)
    /\ client_first_bare' = ClientFirstBare(username', ClientNonce(creds))
    /\ state' = "SendClientFinal"
    /\ Write(arg, ClientFirst(Gs2Header(creds), client_first_bare'))
    /\ UNCHANGED <<creds, expected_server_signature>>

HalfRefuseCredentials(arg) ==                    \* mutated: stores what did prepare
    /\ state = "SendClientFirst"
    /\ arg = NoArg
    /\ ~Preparable
    /\ username' = IF Prepare(username) = Prohibited THEN username ELSE Prepare(username)
    /\ Return(arg, CompleteErr("Preparation"))
    /\ UNCHANGED <<creds, state, password, client_first_bare, expected_server_signature>>

RefuseCredentials(arg) ==
    /\ state = "SendClientFirst"
    /\ arg = NoArg
    /\ ~Preparable
    /\ Fail(arg, "Preparation")

StillSendClientFinal(arg) ==                     \* mutated: the state never advances
    /\ state = "SendClientFinal"
    /\ arg.kind = "Input"
    /\ ServerFirstFault(arg.bytes, creds) = NoFault
    /\ LET m == arg.bytes
           salted == SaltedPassword(password, m)
           auth == AuthMessage(client_first_bare, m, WithoutProof(m, creds))
       IN  /\ expected_server_signature' = ServerSignature(salted, auth)
           /\ Write(arg, ClientFinal(m, creds, ClientProof(salted, auth)))
    /\ UNCHANGED <<creds, state, username, password, client_first_bare>>

SendClientFinal(arg) ==
    /\ state = "SendClientFinal"
    /\ arg.kind = "Input"
    /\ ServerFirstFault(arg.bytes, creds) = NoFault
    /\ LET m == arg.bytes
           salted == SaltedPassword(password, m)
           auth == AuthMessage(client_first_bare, m, WithoutProof(m, creds))
       IN  /\ expected_server_signature' = ServerSignature(salted, auth)
           /\ Write(arg, ClientFinal(m, creds, ClientProof(salted, auth)))
    /\ state' = "Acknowledge"
    /\ UNCHANGED <<creds, username, password, client_first_bare>>

EagerRefuseServerFirst(arg) ==                   \* mutated: derives before checking the nonce
    /\ state = "SendClientFinal"
    /\ arg.kind = "Input"
    /\ ServerFirstFault(arg.bytes, creds) # NoFault
    /\ IF ServerFirstFault(arg.bytes, creds) # "NonceMismatch"
       THEN UNCHANGED expected_server_signature
       ELSE expected_server_signature' =
                ServerSignature(SaltedPassword(password, arg.bytes),
                                AuthMessage(client_first_bare, arg.bytes,
                                            WithoutProof(arg.bytes, creds)))
    /\ Return(arg, CompleteErr(ServerFirstFault(arg.bytes, creds)))
    /\ UNCHANGED <<creds, state, username, password, client_first_bare>>

RefuseServerFirst(arg) ==
    /\ state = "SendClientFinal"
    /\ arg.kind = "Input"
    /\ ServerFirstFault(arg.bytes, creds) # NoFault
    /\ Fail(arg, ServerFirstFault(arg.bytes, creds))

RepeatedAcknowledge(arg) ==                      \* mutated: the state never advances
    /\ state = "Acknowledge"
    /\ arg.kind = "Input"
    /\ ServerFinalFault(arg.bytes, expected_server_signature) = NoFault
    /\ Write(arg, EmptyPayload)
    /\ UNCHANGED <<creds, machine>>

SilentAcknowledge(arg) ==                        \* mutated: asks for more instead of answering
    /\ state = "Acknowledge"
    /\ arg.kind = "Input"
    /\ ServerFinalFault(arg.bytes, expected_server_signature) = NoFault
    /\ state' = "Done"
    /\ Return(arg, WantsRead)
    /\ UNCHANGED <<creds, username, password, client_first_bare, expected_server_signature>>

Acknowledge(arg) ==
    /\ state = "Acknowledge"
    /\ arg.kind = "Input"
    /\ ServerFinalFault(arg.bytes, expected_server_signature) = NoFault
    /\ state' = "Done"
    /\ Write(arg, EmptyPayload)
    /\ UNCHANGED <<creds, username, password, client_first_bare, expected_server_signature>>

AdvancingRefuseServerFinal(arg) ==               \* mutated: advances before it verifies
    /\ state = "Acknowledge"
    /\ arg.kind = "Input"
    /\ ServerFinalFault(arg.bytes, expected_server_signature) # NoFault
    /\ state' = "Done"
    /\ Return(arg, CompleteErr(ServerFinalFault(arg.bytes, expected_server_signature)))
    /\ UNCHANGED <<creds, username, password, client_first_bare, expected_server_signature>>

RefuseServerFinal(arg) ==
    /\ state = "Acknowledge"
    /\ arg.kind = "Input"
    /\ ServerFinalFault(arg.bytes, expected_server_signature) # NoFault
    /\ Fail(arg, ServerFinalFault(arg.bytes, expected_server_signature))

EarlyFinish(arg) ==                              \* mutated: the server may still owe its proof
    /\ state \in {"Acknowledge", "Done"}
    /\ arg = PeerDone
    /\ Return(arg, CompleteOk)
    /\ UNCHANGED <<creds, machine>>

Finish(arg) ==
    /\ state = "Done"
    /\ arg = PeerDone
    /\ Return(arg, CompleteOk)
    /\ UNCHANGED <<creds, machine>>

RefuseEnd(arg) ==
    /\ state # "Done"
    /\ arg = PeerDone
    /\ Fail(arg, "ServerSignatureNotVerified")

\* The arms before the wildcard of `resume` that take this argument.
Expected(arg) == \/ arg.kind = "None" /\ state = "SendClientFirst"
                 \/ arg.kind = "Input" /\ state \in {"SendClientFinal", "Acknowledge"}
                 \/ arg.kind = "Done"

RefuseUnexpected(arg) ==
    /\ ~Expected(arg)
    /\ Fail(arg, "UnexpectedChallenge")

Resume(arg) == \/ SendClientFirst(arg) \/ RefuseCredentials(arg)
               \/ SendClientFinal(arg) \/ RefuseServerFirst(arg)
               \/ Acknowledge(arg) \/ RefuseServerFinal(arg)
               \/ Finish(arg) \/ RefuseEnd(arg) \/ RefuseUnexpected(arg)

Next == \E arg \in Args : Resume(arg)

Spec == Init /\ [][Next]_vars
----
TypeOK ==
    /\ creds \in Creds
    /\ state \in States
    /\ username \in Text /\ password \in Text
    /\ client_first_bare = NoBare \/ client_first_bare.r = ClientNonce(creds)
    /\ expected_server_signature = NoBytes \/ expected_server_signature.key = "Server Key"
    /\ last.arg \in Args
    /\ last.reply.kind \in {"fresh", "WantsWrite", "Ok", "Err"}
    /\ last.reply.kind = "Err" => last.reply.error \in Errors
    /\ Len(transcript) \in 0..3
    /\ \A i \in DOMAIN transcript : /\ transcript[i].arg \in Args
                                   /\ transcript[i].reply.kind = "WantsWrite"

(***************************************************************************)
(* The observer's view: what was fed and written, never what the coroutine *)
(* remembers.  Reference(c, m) is the signature of a server that stores    *)
(* the prepared password of c and answered the client-first of c with m.   *)
(***************************************************************************)
Reference(c, m) ==
    ServerSignature(SaltedPassword(Prepare(c.password), m),
                    AuthMessage(ClientFirstBare(Prepare(c.username), ClientNonce(c)), m,
                                WithoutProof(m, c)))

ServerFinal(signature) == << <<"v", signature>> >>

ProofsSent == Written({"client-final"})

ServerProved ==
    \E i \in ProofsSent, j \in DOMAIN transcript :
        /\ i < j
        /\ transcript[j].arg = Input(ServerFinal(Reference(creds, transcript[i].arg.bytes)))

\* Ok answers nothing but the end of an exchange in which, after the client's
\* proof, the driver fed the very signature that the messages exchanged call for.
AcceptanceOracle ==
    last.reply.kind = "Ok" => last.arg = PeerDone /\ ServerProved

\* An end of the exchange before that proof is refused by name, wherever it comes,
\* and one after it is always accepted: nothing fed in between undoes the proof.
NoSilentSkip ==
    last.arg = PeerDone =>
        last.reply = IF ServerProved THEN CompleteOk
                                     ELSE CompleteErr("ServerSignatureNotVerified")

\* The proof of the password leaves the coroutine once, however often it is resumed,
\* and answers a challenge whose nonce extends the client's own.
ProofSentOnce ==
    /\ \A i, j \in ProofsSent : i = j
    /\ \A i \in ProofsSent :
        LET answer == transcript[i].reply.payload
            challenge == transcript[i].arg.bytes
        IN  /\ answer.without_proof = WithoutProof(challenge, creds)
            /\ IsPrefix(ClientNonce(creds), answer.without_proof.r)
            /\ answer.proof.salted.secret = Prepare(creds.password)

\* The key under the proof is derived as the server spelled it: over the salt of its last
\* s=, in as many rounds as its last i= says (one, for none), with the nonce of its last
\* r= beside it, and only if no count in the message was past the width.
DerivedAsSpelled ==
    \A i \in ProofsSent :
        LET m == transcript[i].arg.bytes
            answer == transcript[i].reply.payload
            rounds == answer.proof.salted.rounds
            Spells(key, value) ==
                \E k \in DOMAIN m : /\ m[k][1] = key /\ m[k][2] = value
                                   /\ \A j \in DOMAIN m : m[j][1] = key => j <= k
        IN  /\ Spells("r", answer.without_proof.r)
            /\ Spells("s", answer.proof.salted.salt) /\ answer.proof.salted.salt # Garbage
            /\ \/ rounds # 0 /\ Spells("i", rounds)
               \/ rounds = 1 /\ Spells("i", 0)
            /\ \A k \in DOMAIN m : m[k][1] = "i" => m[k][2] \in 0..U32Max

\* The username on the wire and the password under the key are prepared together: a
\* refused preparation leaves both as the caller gave them.
PreparedTogether ==
    <<username, password>> =
        IF transcript = <<>> THEN <<creds.username, creds.password>>
                             ELSE <<Prepare(creds.username), Prepare(creds.password)>>

\* The signature to compare with exists from the client's proof on, and is the one of
\* the challenge that proof answered: never one of a challenge that was refused.
ExpectationMatchesProof ==
    IF ProofsSent = {}
    THEN expected_server_signature = NoBytes
    ELSE \E i \in ProofsSent :
            expected_server_signature = Reference(creds, transcript[i].arg.bytes)

\* A resume that completes Err costs nothing: the coroutine, and what it has sent, are
\* as before, so a later outcome cannot depend on the failures in between.
FailuresChangeNothing == [][last'.reply.kind = "Err" => UNCHANGED <<machine, transcript>>]_vars

(***************************************************************************)
(* Refinement: the coroutine keeps the contract of a mutual mechanism,     *)
(* with the abstract state read off the transcript.                        *)
(***************************************************************************)
Contract == INSTANCE SaslContract WITH
    Mutual  <- TRUE,
    spent   <- Cardinality(ProofsSent),
    peer    <- IF ServerProved THEN "proven" ELSE "open",
    verdict <- Verdict

\* SaslScram implements SaslContract as a mechanism that authenticates the server.
ImplementsContract == Contract!Spec
====
