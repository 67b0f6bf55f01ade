---- MODULE Gs2Krb5 ----
(***************************************************************************)
(* SaslGs2Krb5 (src/rfc5801/gs2_krb5.rs), a relay whose first token goes   *)
(* out behind a GS2 header.                                                *)
(***************************************************************************)
EXTENDS SaslCoroutine, Octets, Gs2

Gs2Krb5Creds == [token : Text, authzid : Text \cup {NoAuthzid}, binding : Bindings]
States == {"SendFirstToken", "RelayToken"}

Start == "SendFirstToken"

\* The tag chosen once, in `new`, and announced ever after.
Mechanism(c) == IF IsBound(c.binding) THEN "Gs2Krb5Plus" ELSE "Gs2Krb5"

Errors == {"OutOfOrder"}

HeaderlessSendFirstToken(arg) ==                 \* mutated: the header only goes out when it binds
    /\ state = "SendFirstToken"
    /\ arg = NoArg
    /\ state' = "RelayToken"
    /\ creds' = [creds EXCEPT !.token = <<>>]
    /\ Write(arg, [kind |-> "gs2 token",
                   bytes |-> IF IsBound(creds.binding)
                             THEN Header(creds.binding, creds.authzid) \o creds.token
                             ELSE creds.token])

SendFirstToken(arg) ==
    /\ state = "SendFirstToken"
    /\ arg = NoArg
    /\ state' = "RelayToken"
    /\ creds' = [creds EXCEPT !.token = <<>>]
    /\ Write(arg, [kind |-> "gs2 token", bytes |-> Header(creds.binding, creds.authzid) \o creds.token])

HeaderedRelayToken(arg) ==                       \* mutated: the header goes out with every token
    /\ state = "RelayToken"
    /\ arg.kind = "Input"
    /\ Write(arg, [kind |-> "relayed", bytes |-> Header(creds.binding, creds.authzid) \o arg.bytes])
    /\ UNCHANGED <<creds, state>>

RelayToken(arg) == /\ state = "RelayToken"
                   /\ arg.kind = "Input"
                   /\ Write(arg, [kind |-> "relayed", bytes |-> arg.bytes])
                   /\ UNCHANGED <<creds, state>>

Expected(arg) == \/ arg = PeerDone
                 \/ state = "SendFirstToken" /\ arg = NoArg
                 \/ state = "RelayToken" /\ arg.kind = "Input"

RefuseOutOfOrder(arg) == ~Expected(arg) /\ Refuse(arg, "OutOfOrder")

Resume(arg) == \/ arg = PeerDone /\ Accept(arg)
               \/ SendFirstToken(arg) \/ RelayToken(arg) \/ RefuseOutOfOrder(arg)

\* What a server finds: the flag up to the first comma, the identity up to the
\* second, where no other identity would read the same, and the token behind it.
ReadsBack(c, bytes, names) ==
    LET pieces == Split(bytes, ",")
        identity(n) == IF n = NoAuthzid THEN <<>> ELSE <<"a", "=">> \o Escape(n)
    IN  /\ pieces[1] = Flag(c.binding)
        /\ {n \in names : identity(n) = pieces[2]} = {c.authzid}
        /\ SubSeq(bytes, Len(pieces[1]) + Len(pieces[2]) + 3, Len(bytes)) = c.token
====
