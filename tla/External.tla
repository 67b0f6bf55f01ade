---- MODULE External ----
(***************************************************************************)
(* SaslExternal (src/rfc4422/external.rs).  The authorization identity is  *)
(* taken out of the credentials when it is sent.                           *)
(***************************************************************************)
EXTENDS SaslCoroutine, Octets

CONSTANT NoAuthzid      \* Option::None

ExternalCreds == [authzid : Text \cup {NoAuthzid}]
States == {"SendAuthzid", "Done"}

Start == "SendAuthzid"

\* The tag it announces, and why a resume of it may complete Err.
Mechanism(c) == "External"
Errors == {"UnexpectedChallenge"}

SendAuthzid(arg) ==
    /\ state = "SendAuthzid"
    /\ arg # PeerDone
    /\ state' = "Done"
    /\ creds' = [creds EXCEPT !.authzid = NoAuthzid]
    /\ Write(arg, [kind |-> "authzid",
                   bytes |-> IF creds.authzid = NoAuthzid THEN <<>> ELSE creds.authzid])

Resume(arg) == \/ arg = PeerDone /\ Accept(arg)
               \/ SendAuthzid(arg)
               \/ state = "Done" /\ arg # PeerDone /\ Refuse(arg, "UnexpectedChallenge")
====
