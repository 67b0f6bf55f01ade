---- MODULE OAuthBearer ----
(***************************************************************************)
(* SaslOauthbearer (src/rfc7628/oauthbearer.rs).  A state is a tuple: the  *)
(* name of the variant, and what Fail carries.                             *)
(***************************************************************************)
EXTENDS SaslCoroutine, Octets

CONSTANT Inputs         \* what a driver may feed as Input

OAuthBearerCreds == [username : Text, host : Text, port : STRING, token : Text]
States == {<<"SendToken">>, <<"Done">>} \cup {<<"Fail", Lossy(json)>> : json \in Inputs}

Start == <<"SendToken">>

Mechanism(c) == "OAuthBearer"

\* Why a resume of it may complete Err.
Rejected(json) == [error |-> "Rejected", json |-> json]
Unexpected == [error |-> "UnexpectedChallenge"]

Errors == {Unexpected} \cup {Rejected(Lossy(json)) : json \in Inputs}

\* The username goes into the header unescaped, unlike the identity that
\* SaslGs2ChannelBinding::header puts there.
Payload(c) ==
    [kind |-> "oauthbearer",
     bytes |-> <<"n", ",", "a", "=">> \o c.username \o <<",", "SOH", "host=">> \o c.host
                 \o <<"SOH", "port=", c.port, "SOH", "auth=Bearer ">> \o c.token \o <<"SOH", "SOH">>]

SendToken(arg) == /\ state = <<"SendToken">>
                  /\ arg = NoArg
                  /\ state' = <<"Done">>
                  /\ Write(arg, Payload(creds))
                  /\ UNCHANGED creds

ForgetfulAcknowledgeRejection(arg) ==            \* mutated: the state never leaves Done
    /\ state = <<"Done">>
    /\ arg.kind = "Input"
    /\ Write(arg, [kind |-> "0x01"])
    /\ UNCHANGED <<creds, state>>

AcknowledgeRejection(arg) == /\ state = <<"Done">>
                             /\ arg.kind = "Input"
                             /\ state' = <<"Fail", Lossy(arg.bytes)>>
                             /\ Write(arg, [kind |-> "0x01"])
                             /\ UNCHANGED creds

ReportRejection(arg) == /\ state[1] = "Fail"
                        /\ arg = PeerDone
                        /\ Refuse(arg, Rejected(state[2]))

Finish(arg) == /\ state[1] # "Fail"
               /\ arg = PeerDone
               /\ Accept(arg)

Expected(arg) == \/ arg = PeerDone
                 \/ state = <<"SendToken">> /\ arg = NoArg
                 \/ state = <<"Done">> /\ arg.kind = "Input"

RefuseUnexpected(arg) == ~Expected(arg) /\ Refuse(arg, Unexpected)

Resume(arg) == \/ SendToken(arg) \/ AcknowledgeRejection(arg)
               \/ ReportRejection(arg) \/ Finish(arg) \/ RefuseUnexpected(arg)

\* What a server that splits the message at its separators has to find.
ReadsBack(c, bytes) ==
    LET pairs == Split(bytes, "SOH")
    IN  /\ Split(pairs[1], ",") = << <<"n">>, <<"a", "=">> \o c.username, <<>> >>
        /\ Tail(pairs) = << <<"host=">> \o c.host, <<"port=", c.port>>,
                            <<"auth=Bearer ">> \o c.token, <<>>, <<>> >>
====
