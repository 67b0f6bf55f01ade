---- MODULE Login ----
(***************************************************************************)
(* SaslLogin (src/login.rs): whatever the driver feeds, the first resume   *)
(* answers with the username and the second with the password.             *)
(***************************************************************************)
EXTENDS SaslCoroutine, Octets

LoginCreds == [username : Text, password : Text]
States == {"SendUsername", "SendPassword", "Done"}

Start == "SendUsername"

\* The tag it announces, and why a resume of it may complete Err.
Mechanism(c) == "Login"
Errors == {"UnexpectedChallenge"}

HastySendUsername(arg) ==                        \* mutated: the password goes first
    /\ state = "SendUsername"
    /\ arg # PeerDone
    /\ state' = "SendPassword"
    /\ Write(arg, [kind |-> "password", bytes |-> creds.password])
    /\ UNCHANGED creds

SendUsername(arg) == /\ state = "SendUsername"
                     /\ arg # PeerDone
                     /\ state' = "SendPassword"
                     /\ Write(arg, [kind |-> "username", bytes |-> creds.username])
                     /\ UNCHANGED creds

RepeatedSendPassword(arg) ==                     \* mutated: the state never advances
    /\ state = "SendPassword"
    /\ arg # PeerDone
    /\ Write(arg, [kind |-> "password", bytes |-> creds.password])
    /\ UNCHANGED <<creds, state>>

SendPassword(arg) == /\ state = "SendPassword"
                     /\ arg # PeerDone
                     /\ state' = "Done"
                     /\ Write(arg, [kind |-> "password", bytes |-> creds.password])
                     /\ UNCHANGED creds

Resume(arg) == \/ arg = PeerDone /\ Accept(arg)
               \/ SendUsername(arg) \/ SendPassword(arg)
               \/ state = "Done" /\ arg # PeerDone /\ Refuse(arg, "UnexpectedChallenge")
====
