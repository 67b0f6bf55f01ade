---- MODULE Anonymous ----
(***************************************************************************)
(* SaslAnonymous (src/rfc4505/anonymous.rs).  The trace token is taken out *)
(* of the credentials when it is sent.                                     *)
(***************************************************************************)
EXTENDS SaslCoroutine, Octets

CONSTANT NoMessage      \* Option::None

AnonymousCreds == [message : Text \cup {NoMessage}]
States == {"SendTraceToken", "Done"}

Start == "SendTraceToken"

\* The tag it announces, and why a resume of it may complete Err.
Mechanism(c) == "Anonymous"
Errors == {"UnexpectedChallenge"}

SendTraceToken(arg) ==
    /\ state = "SendTraceToken"
    /\ arg # PeerDone
    /\ state' = "Done"
    /\ creds' = [creds EXCEPT !.message = NoMessage]
    /\ Write(arg, [kind |-> "trace",
                   bytes |-> IF creds.message = NoMessage THEN <<>> ELSE creds.message])

Resume(arg) == \/ arg = PeerDone /\ Accept(arg)
               \/ SendTraceToken(arg)
               \/ state = "Done" /\ arg # PeerDone /\ Refuse(arg, "UnexpectedChallenge")
====
