---- MODULE FuzzScram ----
(***************************************************************************)
(* The SCRAM fuzz target (src/fuzz/fuzz_targets/scram.rs): a script of     *)
(* server messages fed to SaslScram, and an oracle that derives the server *)
(* signature by itself, from the password it was given and the messages it *)
(* watched.  A failed assertion of the harness is a panic.                 *)
(*                                                                         *)
(* A script is any sequence of steps, so each step is chosen when it is    *)
(* taken, and the script may end anywhere.  An Option is a set of at most  *)
(* one member.                                                             *)
(***************************************************************************)
EXTENDS Scram

CONSTANTS
    RawMessages,        \* what a Raw step may carry
    Extensions,         \* the server's half of the nonce, in a ServerFirst step
    Salts, Counts,      \* the salt and the iteration count of a ServerFirst step
    MaxIterations       \* the largest iteration count the target derives

VARIABLES
    run,        \* "starting", "running", "returned" or "panicked"
    oracle      \* the exchange as the harness sees it, from outside the mechanism

fuzzvars == <<vars, run, oracle>>

ASSUME UnboundAssumption == \A c \in Creds : c.binding = Unsupported
ASSUME StepsAssumption == Extensions \subseteq Text /\ Counts \subseteq 0..U32Max

NoOracle == [verified |-> FALSE]

FuzzInit == Init /\ run = "starting" /\ oracle = NoOracle

\* Oracle::new: the message has to carry the header of a client without channel binding.
ReadsClientFirst(payload) == payload.header = <<"n", ",", ",">>

Oracle(typed, payload) == [password          |-> typed,
                           client_first_bare |-> payload.bare,
                           client_nonce      |-> payload.bare.r,
                           server_final      |-> {},
                           verified          |-> FALSE]

\* Oracle::server_first: a comma in the nonce ends the r= field there, and none of the
\* texts here goes on with the key of another field.
ServerFirst(extension, salt, count) ==
    LET pieces == Split(oracle.client_nonce \o extension, ",")
    IN  << <<"r", pieces[1]>> >>
          \o [k \in 1..Len(pieces) - 1 |-> <<"x", pieces[k + 1]>>]
          \o << <<"s", salt>>, <<"i", count>> >>

\* Oracle::server_final: an empty challenge while there is nothing to sign yet.
ServerFinalStep == IF oracle.server_final = {} THEN <<>> ELSE CHOOSE m \in oracle.server_final : TRUE

\* Oracle::server_signature, with the password as it was given.
OracleSignature(m, final) ==
    IF m = NotUtf8 \/ FieldsOf(m, "s") = {} \/ FieldsOf(m, "i") = {} THEN {}
    ELSE IF LastField(m, "s") = Garbage \/ LastField(m, "i") \notin 0..U32Max THEN {}
    ELSE {ServerSignature(Pbkdf2(oracle.password, LastField(m, "s"), LastField(m, "i")),
                          AuthMessage(oracle.client_first_bare, m, final.without_proof))}

\* Oracle::responded: an empty response is earned by the expected message alone, and any
\* other response is the client-final-message.
Responded(challenge, payload) ==
    IF payload.kind = "empty"
    THEN IF challenge \in oracle.server_final
         THEN oracle' = [oracle EXCEPT !.verified = TRUE] /\ run' = "running"
         ELSE run' = "panicked" /\ UNCHANGED oracle
    ELSE /\ oracle' = [oracle EXCEPT !.server_final =
                          {ServerFinal(s) : s \in OracleSignature(challenge, payload)}]
         /\ run' = "running"

\* Oracle::completed: a success takes a signature the harness watched being verified.
Completed(reply) == /\ run' = IF reply = CompleteOk /\ ~oracle.verified THEN "panicked" ELSE "returned"
                    /\ UNCHANGED oracle

Affordable(m) == m = NotUtf8 \/ \A i \in FieldsOf(m, "i") : m[i][2] \in 0..U32Max => m[i][2] <= MaxIterations
----
\* Credentials the preparation refuses end the run; any answer but a message is a panic.
Start == /\ run = "starting"
         /\ Resume(NoArg)
         /\ IF last'.reply.kind = "WantsWrite" /\ ReadsClientFirst(last'.reply.payload)
            THEN run' = "running" /\ oracle' = Oracle(creds.password, last'.reply.payload)
            ELSE /\ run' = IF last'.reply.kind = "Err" THEN "returned" ELSE "panicked"
                 /\ UNCHANGED oracle

Feed(challenge) ==
    /\ run = "running"
    /\ IF Affordable(challenge)
       THEN /\ Resume(Input(challenge))
            /\ CASE last'.reply.kind = "WantsWrite" -> Responded(challenge, last'.reply.payload)
                 [] last'.reply.kind = "WantsRead" -> UNCHANGED <<run, oracle>>
                 [] OTHER -> Completed(last'.reply)
       ELSE run' = "returned" /\ UNCHANGED <<vars, oracle>>

PeerFinished == /\ run = "running"
                /\ Resume(PeerDone)
                /\ IF last'.reply.kind \in {"Ok", "Err"} THEN Completed(last'.reply)
                   ELSE run' = "panicked" /\ UNCHANGED oracle

OutOfSteps == run = "running" /\ run' = "returned" /\ UNCHANGED <<vars, oracle>>

Ended == run \in {"returned", "panicked"} /\ UNCHANGED fuzzvars

FuzzNext == \/ Start \/ PeerFinished \/ OutOfSteps \/ Ended
            \/ \E m \in RawMessages : Feed(m)
            \/ \E e \in Extensions, s \in Salts, i \in Counts :
                  run = "running" /\ Feed(ServerFirst(e, s, i))
            \/ run = "running" /\ Feed(ServerFinalStep)

FuzzSpec == FuzzInit /\ [][FuzzNext]_fuzzvars
----
\* Neither assertion of the harness ever fails: what SaslScram accepts, an observer that
\* computes the signature from outside accepts too.
NoPanic == run # "panicked"

\* The one server-final-message the harness computes is the one the coroutine is waiting
\* for: the two derivations agree, so the accepting half of the exchange is reached.
OracleAgrees ==
    run = "running" /\ state = "Acknowledge" =>
        oracle.server_final = {ServerFinal(expected_server_signature)}
====
