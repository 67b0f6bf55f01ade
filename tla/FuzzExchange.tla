---- MODULE FuzzExchange ----
(***************************************************************************)
(* The fuzz target of every mechanism (src/fuzz/fuzz_targets/exchange.rs): *)
(* credentials and challenges at will, fed to a mechanism that was never   *)
(* started, or to one driven from its initial response as a protocol crate *)
(* drives it.  The target does this to one coroutine after another, which  *)
(* share nothing, so a run here is about one of them; the SCRAM profiles,  *)
(* which it drives alike, are modelled with a target of their own.         *)
(***************************************************************************)
EXTENDS Mechanisms

CONSTANTS
    Exchanges,      \* the scripts: [username, password, token, host, port, binding]
    MaxChallenges   \* bound: the challenges of a script

VARIABLES
    run,        \* "unstarted", "to drive", "driven" or "returned"
    fed         \* the challenges fed so far

fuzzvars == <<vars, run, fed>>

\* The credentials each mechanism is built from.
anonymous(e) == From("Anonymous", [message |-> e.username])
login(e) == From("Login", [username |-> e.username, password |-> e.password])
plain(e) == From("Plain", [authzid |-> NoAuthzid, authcid |-> e.username, passwd |-> e.password])
oauthbearer(e) == From("Oauthbearer", [username |-> e.username, host |-> e.host,
                                       port |-> e.port, token |-> e.token])
xoauth2(e) == From("Xoauth2", [username |-> e.username, token |-> e.token])
cram_md5(e) == From("CramMd5", [username |-> e.username, secret |-> e.password])
gs2_krb5(e) == From("Gs2Krb5", [token |-> e.token, authzid |-> e.username,
                                binding |-> Bound("TlsExporter", e.binding)])
gssapi(e) == From("Gssapi", [token |-> e.token])
external(e) == From("External", [authzid |-> e.username])

Built(e) == {anonymous(e), login(e), plain(e), oauthbearer(e), xoauth2(e), cram_md5(e),
             gs2_krb5(e), gssapi(e), external(e)}

ASSUME BuiltAssumption == Sasls = UNION {Built(e) : e \in Exchanges} /\ MaxChallenges \in Nat

\* fuzz_target!: each mechanism is given to `unstarted` and to `drive`.
FuzzInit == /\ Init
            /\ run \in {"unstarted", "to drive"}
            /\ fed = 0

Completed == last'.reply.kind \in {"Ok", "Err"}

Unstarted == /\ run = "unstarted"
             /\ \E challenge \in Inputs : Resume(Input(challenge))
             /\ run' = "returned"
             /\ UNCHANGED <<sasl, fed>>

Drive == /\ run = "to drive"
         /\ Resume(NoArg)
         /\ run' = IF Completed THEN "returned" ELSE "driven"
         /\ UNCHANGED <<sasl, fed>>

Challenge == /\ run = "driven"
             /\ fed < MaxChallenges
             /\ \E challenge \in Inputs : Resume(Input(challenge))
             /\ fed' = fed + 1
             /\ run' = IF Completed THEN "returned" ELSE "driven"
             /\ UNCHANGED sasl

PeerFinishes == /\ run = "driven"
                /\ Resume(PeerDone)
                /\ run' = "returned"
                /\ UNCHANGED <<sasl, fed>>

PeerLeaves == run = "driven" /\ run' = "returned" /\ UNCHANGED <<vars, fed>>

Returned == run = "returned" /\ UNCHANGED fuzzvars

FuzzNext == Unstarted \/ Drive \/ Challenge \/ PeerFinishes \/ PeerLeaves \/ Returned

FuzzSpec == FuzzInit /\ [][FuzzNext]_fuzzvars
----
\* A peer that goes on challenging is refused by every mechanism that computes its own
\* payloads, after one answer more than its first at most; a relay never tires.
StrayRefused == run = "driven" /\ fed >= 2 => sasl.variant \in Relays
====
