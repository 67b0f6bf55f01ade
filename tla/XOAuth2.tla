---- MODULE XOAuth2 ----
(***************************************************************************)
(* SaslXoauth2 (src/xoauth2.rs).  A state is a tuple: the name of the      *)
(* variant, and what Fail carries.                                         *)
(***************************************************************************)
EXTENDS SaslCoroutine, Octets

CONSTANT Inputs         \* what a driver may feed as Input

XOAuth2Creds == [username : Text, token : Text]
States == {<<"SendToken">>, <<"Done">>} \cup {<<"Fail", Lossy(json)>> : json \in Inputs}

Start == <<"SendToken">>

Mechanism(c) == "XOAuth2"

\* Why a resume of it may complete Err.
Rejected(json) == [error |-> "Rejected", json |-> json]
Unexpected == [error |-> "UnexpectedChallenge"]

Errors == {Unexpected} \cup {Rejected(Lossy(json)) : json \in Inputs}

Payload(c) ==
    [kind |-> "xoauth2",
     bytes |-> <<"user=">> \o c.username \o <<"SOH", "auth=Bearer ">> \o c.token \o <<"SOH", "SOH">>]

SendToken(arg) == /\ state = <<"SendToken">>
                  /\ arg = NoArg
                  /\ state' = <<"Done">>
                  /\ Write(arg, Payload(creds))
                  /\ UNCHANGED creds

RawAcknowledgeRejection(arg) ==                  \* mutated: keeps the octets as they came
    /\ state = <<"Done">>
    /\ arg.kind = "Input"
    /\ state' = <<"Fail", arg.bytes>>
    /\ Write(arg, EmptyPayload)
    /\ UNCHANGED creds

SilentAcknowledgeRejection(arg) ==               \* mutated: asks for more instead of answering
    /\ state = <<"Done">>
    /\ arg.kind = "Input"
    /\ state' = <<"Fail", Lossy(arg.bytes)>>
    /\ Return(arg, WantsRead)
    /\ UNCHANGED creds

AcknowledgeRejection(arg) == /\ state = <<"Done">>
                             /\ arg.kind = "Input"
                             /\ state' = <<"Fail", Lossy(arg.bytes)>>
                             /\ Write(arg, EmptyPayload)
                             /\ UNCHANGED creds

ReportRejection(arg) == /\ state[1] = "Fail"
                        /\ arg = PeerDone
                        /\ Refuse(arg, Rejected(state[2]))

ForgivingFinish(arg) ==                          \* mutated: the arm before it is gone
    /\ arg = PeerDone
    /\ Accept(arg)

Finish(arg) == /\ state[1] # "Fail"
               /\ arg = PeerDone
               /\ Accept(arg)

Expected(arg) == \/ arg = PeerDone
                 \/ state = <<"SendToken">> /\ arg = NoArg
                 \/ state = <<"Done">> /\ arg.kind = "Input"

RefuseUnexpected(arg) == ~Expected(arg) /\ Refuse(arg, Unexpected)

Resume(arg) == \/ SendToken(arg) \/ AcknowledgeRejection(arg)
               \/ ReportRejection(arg) \/ Finish(arg) \/ RefuseUnexpected(arg)

\* What a server that splits the message at its separators has to find.
ReadsBack(c, bytes) ==
    Split(bytes, "SOH") = << <<"user=">> \o c.username, <<"auth=Bearer ">> \o c.token, <<>>, <<>> >>
====
