---- MODULE Plain ----
(***************************************************************************)
(* SaslPlain (src/rfc4616/plain.rs).                                       *)
(***************************************************************************)
EXTENDS SaslCoroutine, Octets

CONSTANTS
    SaslPrep,       \* is the saslprep cargo feature on?
    Prep(_),        \* rfc4013::saslprep: a text, or Prohibited
    Prohibited,
    NoAuthzid       \* Option::None

PlainCreds == [authzid : Text \cup {NoAuthzid}, authcid : Text, passwd : Text]
States == {"SendCreds", "Done"}

Start == "SendCreds"

\* The tag it announces, and why a resume of it may complete Err.
Mechanism(c) == "Plain"
Errors == {"Preparation", "UnexpectedChallenge"}

Authzid(c) == IF c.authzid = NoAuthzid THEN <<>> ELSE c.authzid

\* The three texts as they go out, all prepared or none sent.
Outgoing == LET texts == <<Authzid(creds), creds.authcid, creds.passwd>>
            IN  IF SaslPrep THEN [i \in 1..3 |-> Prep(texts[i])] ELSE texts

Preparable == \A i \in 1..3 : Outgoing[i] # Prohibited

UnnamedPayload(texts) ==                         \* mutated: the identity to act as is left out
    [kind |-> "plain", bytes |-> <<"NUL">> \o texts[2] \o <<"NUL">> \o texts[3]]

Payload(texts) ==
    [kind |-> "plain", bytes |-> texts[1] \o <<"NUL">> \o texts[2] \o <<"NUL">> \o texts[3]]

SendCreds(arg) == /\ state = "SendCreds"
                  /\ arg # PeerDone
                  /\ Preparable
                  /\ state' = "Done"
                  /\ Write(arg, Payload(Outgoing))
                  /\ UNCHANGED creds

RefuseCredentials(arg) == /\ state = "SendCreds"
                          /\ arg # PeerDone
                          /\ ~Preparable
                          /\ Refuse(arg, "Preparation")

Resume(arg) == \/ arg = PeerDone /\ Accept(arg)
               \/ SendCreds(arg) \/ RefuseCredentials(arg)
               \/ state = "Done" /\ arg # PeerDone /\ Refuse(arg, "UnexpectedChallenge")

\* What a server that splits the message at its separators has to find.
ReadsBack(c, bytes) ==
    Split(bytes, "NUL") = [i \in 1..3 |-> Prep(<<Authzid(c), c.authcid, c.passwd>>[i])]
====
