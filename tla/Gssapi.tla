---- MODULE Gssapi ----
(***************************************************************************)
(* SaslGssapi (src/rfc4752/gssapi.rs), a relay: it sends the first token,  *)
(* which it takes out of the credentials, then forwards what it is fed.    *)
(***************************************************************************)
EXTENDS SaslCoroutine, Octets

GssapiCreds == [token : Text]
States == {"SendFirstToken", "RelayToken"}

Start == "SendFirstToken"

\* The tag it announces, and why a resume of it may complete Err.
Mechanism(c) == "Gssapi"
Errors == {"OutOfOrder"}

SendFirstToken(arg) == /\ state = "SendFirstToken"
                       /\ arg = NoArg
                       /\ state' = "RelayToken"
                       /\ creds' = [creds EXCEPT !.token = <<>>]
                       /\ Write(arg, [kind |-> "first token", bytes |-> creds.token])

SilentRelayToken(arg) ==                         \* mutated: an empty token is not sent
    /\ state = "RelayToken"
    /\ arg.kind = "Input"
    /\ IF arg.bytes = <<>> THEN Return(arg, WantsRead)
                           ELSE Write(arg, [kind |-> "relayed", bytes |-> arg.bytes])
    /\ UNCHANGED <<creds, state>>

RelayToken(arg) == /\ state = "RelayToken"
                   /\ arg.kind = "Input"
                   /\ Write(arg, [kind |-> "relayed", bytes |-> arg.bytes])
                   /\ UNCHANGED <<creds, state>>

Expected(arg) == \/ arg = PeerDone
                 \/ state = "SendFirstToken" /\ arg = NoArg
                 \/ state = "RelayToken" /\ arg.kind = "Input"

RefuseOutOfOrder(arg) == ~Expected(arg) /\ Refuse(arg, "OutOfOrder")

Resume(arg) == \/ arg = PeerDone /\ Accept(arg)
               \/ SendFirstToken(arg) \/ RelayToken(arg) \/ RefuseOutOfOrder(arg)
====
