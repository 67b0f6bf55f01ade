---- MODULE Mechanisms ----
(***************************************************************************)
(* The mechanisms that perform no verification of their own, each the      *)
(* Sasl value (src/mechanism.rs) it is built from, under a driver that may *)
(* resume it with anything in any state.  SCRAM has modules of its own.    *)
(***************************************************************************)
EXTENDS FiniteSets, SaslCoroutine, Octets, Vocabulary

CONSTANTS
    Sasls,          \* the Sasl values to build from: [variant, creds]
    Inputs,         \* what a driver may feed as Input
    Names,          \* the authorization identities an application may name, and NoAuthzid
    MaxWrites,      \* bound: the writes of a relay, which never ends by itself
    NoMessage, SaslPrep, Prep(_), Prohibited

VARIABLE sasl       \* the Sasl value the coroutine was built from, never changed

vars == <<sasl, creds, state, last, transcript>>

PlainM == INSTANCE Plain
LoginM == INSTANCE Login
ExternalM == INSTANCE External
AnonymousM == INSTANCE Anonymous
CramMd5M == INSTANCE CramMd5
XOAuth2M == INSTANCE XOAuth2
OAuthBearerM == INSTANCE OAuthBearer
GssapiM == INSTANCE Gssapi
Gs2Krb5M == INSTANCE Gs2Krb5

\* The closed set of mechanisms, each with the credentials of its own.
CredsOf == [Anonymous   |-> AnonymousM!AnonymousCreds, CramMd5 |-> CramMd5M!CramMd5Creds,
            External    |-> ExternalM!ExternalCreds,   Gssapi  |-> GssapiM!GssapiCreds,
            Gs2Krb5     |-> Gs2Krb5M!Gs2Krb5Creds,     Login   |-> LoginM!LoginCreds,
            Plain       |-> PlainM!PlainCreds,         Xoauth2 |-> XOAuth2M!XOAuth2Creds,
            Oauthbearer |-> OAuthBearerM!OAuthBearerCreds]

\* The state that `new` leaves each coroutine in.
StartOf == [Anonymous |-> AnonymousM!Start, CramMd5     |-> CramMd5M!Start,
            External  |-> ExternalM!Start,  Gssapi      |-> GssapiM!Start,
            Gs2Krb5   |-> Gs2Krb5M!Start,   Login       |-> LoginM!Start,
            Plain     |-> PlainM!Start,     Oauthbearer |-> OAuthBearerM!Start,
            Xoauth2   |-> XOAuth2M!Start]

ASSUME SaslsAssumption ==
    \A s \in Sasls : s.variant \in DOMAIN CredsOf /\ s.creds \in CredsOf[s.variant]
\* Preparing a text of PLAIN gives a text, or a refusal.
ASSUME PrepAssumption ==
    \A s \in Sasls : s.variant = "Plain" =>
        \A text \in {PlainM!Authzid(s.creds), s.creds.authcid, s.creds.passwd} :
            Prep(text) \in Text \cup {Prohibited}
ASSUME BoundAssumption == MaxWrites \in Nat

Is(variant) == sasl.variant = variant

\* SaslCoroutine::mechanism: the tag the coroutine announces.
Announced == CASE Is("Plain")       -> PlainM!Mechanism(creds)
               [] Is("Login")       -> LoginM!Mechanism(creds)
               [] Is("External")    -> ExternalM!Mechanism(creds)
               [] Is("Anonymous")   -> AnonymousM!Mechanism(creds)
               [] Is("CramMd5")     -> CramMd5M!Mechanism(creds)
               [] Is("Xoauth2")     -> XOAuth2M!Mechanism(creds)
               [] Is("Oauthbearer") -> OAuthBearerM!Mechanism(creds)
               [] Is("Gssapi")      -> GssapiM!Mechanism(creds)
               [] Is("Gs2Krb5")     -> Gs2Krb5M!Mechanism(creds)
----
Args == {NoArg, PeerDone} \cup {Input(bytes) : bytes \in Inputs}

Init == /\ sasl \in Sasls
        /\ creds = sasl.creds
        /\ Fresh
        /\ state = StartOf[sasl.variant]

Resume(arg) == \/ Is("Plain") /\ PlainM!Resume(arg)
               \/ Is("Login") /\ LoginM!Resume(arg)
               \/ Is("External") /\ ExternalM!Resume(arg)
               \/ Is("Anonymous") /\ AnonymousM!Resume(arg)
               \/ Is("CramMd5") /\ CramMd5M!Resume(arg)
               \/ Is("Xoauth2") /\ XOAuth2M!Resume(arg)
               \/ Is("Oauthbearer") /\ OAuthBearerM!Resume(arg)
               \/ Is("Gssapi") /\ GssapiM!Resume(arg)
               \/ Is("Gs2Krb5") /\ Gs2Krb5M!Resume(arg)

Next == \E arg \in Args : /\ Resume(arg)
                          /\ UNCHANGED sasl
                          /\ Len(transcript') <= MaxWrites

Spec == Init /\ [][Next]_vars
----
(***************************************************************************)
(* Properties.                                                             *)
(***************************************************************************)
Relays == {"Gssapi", "Gs2Krb5"}

Kind(i) == transcript[i].reply.payload.kind

\* The credentials sent, and the acknowledgements of a refused token.
Spending == Written({"plain", "password", "digest", "xoauth2", "oauthbearer",
                     "first token", "gs2 token"})
Acknowledging == Written({"empty", "0x01"})

StatesOf == [Anonymous |-> AnonymousM!States, CramMd5     |-> CramMd5M!States,
             External  |-> ExternalM!States,  Gssapi      |-> GssapiM!States,
             Gs2Krb5   |-> Gs2Krb5M!States,   Login       |-> LoginM!States,
             Plain     |-> PlainM!States,     Oauthbearer |-> OAuthBearerM!States,
             Xoauth2   |-> XOAuth2M!States]

ErrorsOf == [Anonymous |-> AnonymousM!Errors, CramMd5     |-> CramMd5M!Errors,
             External  |-> ExternalM!Errors,  Gssapi      |-> GssapiM!Errors,
             Gs2Krb5   |-> Gs2Krb5M!Errors,   Login       |-> LoginM!Errors,
             Plain     |-> PlainM!Errors,     Oauthbearer |-> OAuthBearerM!Errors,
             Xoauth2   |-> XOAuth2M!Errors]

TypeOK ==
    /\ sasl \in Sasls
    /\ state \in StatesOf[sasl.variant]
    /\ last.arg \in Args
    /\ last.reply.kind \in {"fresh", "WantsRead", "WantsWrite", "Ok", "Err"}
    /\ last.reply.kind = "Err" => last.reply.error \in ErrorsOf[sasl.variant]
    /\ Len(transcript) \in 0..MaxWrites

\* What may be written, and in what order, whatever the driver does in between.
Script == CASE Is("Plain")       -> <<"plain">>
            [] Is("Login")       -> <<"username", "password">>
            [] Is("External")    -> <<"authzid">>
            [] Is("Anonymous")   -> <<"trace">>
            [] Is("CramMd5")     -> <<"digest">>
            [] Is("Xoauth2")     -> <<"xoauth2", "empty">>
            [] Is("Oauthbearer") -> <<"oauthbearer", "0x01">>
            [] Is("Gssapi")      -> <<"first token">>
            [] Is("Gs2Krb5")     -> <<"gs2 token">>

\* A mechanism that computes its payloads writes each of its messages at most once, in
\* order; a relay adds to its first token what it was fed, verbatim and in order, and
\* nothing else.
ScriptFollowed ==
    /\ sasl.variant \notin Relays => Len(transcript) <= Len(Script)
    /\ \A i \in DOMAIN transcript :
          IF i <= Len(Script)
          THEN Kind(i) = Script[i]
          ELSE transcript[i].arg = Input(transcript[i].reply.payload.bytes)

\* A peer that reads the message by the separators of its specification finds the
\* credentials the coroutine was built with, prepared where the mechanism prepares them,
\* and nobody else's: whatever the caller put in them.  For the two OAuth mechanisms the
\* caller's texts have to be free of those separators.
Separators == {",", "=", "SOH"}
Plainly(text) == \A i \in DOMAIN text : text[i] \notin Separators

CredentialsReadBack ==
    \A i \in DOMAIN transcript :
        LET payload == transcript[i].reply.payload
            c == sasl.creds
        IN  CASE payload.kind = "plain" -> PlainM!ReadsBack(c, payload.bytes)
              [] payload.kind = "username" -> payload.bytes = c.username
              [] payload.kind = "password" -> payload.bytes = c.password
              [] payload.kind = "authzid" ->
                    payload.bytes = IF c.authzid = NoAuthzid THEN <<>> ELSE c.authzid
              [] payload.kind = "trace" ->
                    payload.bytes = IF c.message = NoMessage THEN <<>> ELSE c.message
              [] payload.kind = "digest" ->
                    /\ payload.username = c.username
                    /\ payload.digest = CramMd5M!Digest(c.secret, transcript[i].arg.bytes)
              [] payload.kind = "xoauth2" ->
                    Plainly(c.username) /\ Plainly(c.token) => XOAuth2M!ReadsBack(c, payload.bytes)
              [] payload.kind = "oauthbearer" ->
                    Plainly(c.username) /\ Plainly(c.host) /\ Plainly(<<c.port>>) /\ Plainly(c.token)
                       => OAuthBearerM!ReadsBack(c, payload.bytes)
              [] payload.kind = "first token" -> payload.bytes = c.token
              [] payload.kind = "gs2 token" -> Gs2Krb5M!ReadsBack(c, payload.bytes, Names)
              [] OTHER -> TRUE

\* The GS2 header that OAUTHBEARER opens its message with names the username, whatever
\* it is made of.
HeaderNamesUsername ==
    \A i \in Written({"oauthbearer"}) :
        Split(Split(transcript[i].reply.payload.bytes, "SOH")[1], ",")
            = << <<"n">>, <<"a", "=">> \o Escape(sasl.creds.username), <<>> >>

\* A mechanism that computes its payloads answers nothing out of order: its first message
\* goes out when the driver resumes it with nothing exchanged yet.
InOrder == sasl.variant \notin Relays \cup {"CramMd5"} /\ transcript # <<>> => transcript[1].arg = NoArg

\* Only the end of an exchange completes Ok, and it always does, except for a refused
\* token: once the refusal is acknowledged every end reports it, with what that challenge
\* said, however the driver went on.
Rejection(i) == CompleteErr([error |-> "Rejected", json |-> Lossy(transcript[i].arg.bytes)])

EndDecides ==
    /\ last.reply.kind = "Ok" => last.arg = PeerDone
    /\ last.arg = PeerDone =>
          \/ Acknowledging = {} /\ last.reply = CompleteOk
          \/ \E i \in Acknowledging : last.reply = Rejection(i) /\ Acknowledging = {i}

\* The tag of the Sasl value, the one its coroutine announces, and the flag that the
\* coroutine opens the exchange with cannot disagree: not on the mechanism, nor on whether
\* the exchange is bound to its channel, also once credentials were moved out.
NameMatchesFlag ==
    /\ mechanism(sasl) = Announced
    /\ \A i \in Written({"gs2 token"}) :
          transcript[i].reply.payload.bytes[1] = "p" <=> as_str[Announced] = "GS2-KRB5-PLUS"

\* A resume that completes Err changes nothing: not the credentials, not the state, so a
\* stray resume cannot make a mechanism skip or repeat a message.
FailuresChangeNothing ==
    [][last'.reply.kind = "Err" => UNCHANGED <<creds, state, transcript>>]_vars

\* Each of them keeps the contract of a mechanism that does not authenticate the server.
Contract == INSTANCE SaslContract WITH
    Mutual  <- FALSE,
    spent   <- Cardinality(Spending),
    peer    <- IF Acknowledging = {} THEN "open" ELSE "rejected",
    verdict <- Verdict

ImplementsContract == Contract!Spec
====
