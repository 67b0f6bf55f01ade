---- MODULE CramMd5 ----
(***************************************************************************)
(* SaslCramMd5 (src/rfc2195/cram_md5.rs), the one server-first mechanism.  *)
(* The keyed digest is the record of its key and its challenge.            *)
(***************************************************************************)
EXTENDS SaslCoroutine, Octets

CramMd5Creds == [username : Text, secret : Text]
States == {"AwaitChallenge", "SendDigest", "Done"}

Start == "AwaitChallenge"

\* The tag it announces, and why a resume of it may complete Err.
Mechanism(c) == "CramMd5"
Errors == {"UnexpectedChallenge"}

Digest(secret, challenge) == [hmac_md5 |-> secret, challenge |-> challenge]

EagerAwaitChallenge(arg) ==                      \* mutated: has nothing left to answer
    /\ state = "AwaitChallenge"
    /\ arg = NoArg
    /\ state' = "Done"
    /\ Return(arg, WantsRead)
    /\ UNCHANGED creds

AwaitChallenge(arg) == /\ state = "AwaitChallenge"
                       /\ arg = NoArg
                       /\ state' = "SendDigest"
                       /\ Return(arg, WantsRead)
                       /\ UNCHANGED creds

SendDigest(arg) == /\ state = "SendDigest"
                   /\ arg.kind = "Input"
                   /\ state' = "Done"
                   /\ Write(arg, [kind |-> "digest", username |-> creds.username,
                                  digest |-> Digest(creds.secret, arg.bytes)])
                   /\ UNCHANGED creds

Expected(arg) == \/ arg = PeerDone
                 \/ state = "AwaitChallenge" /\ arg = NoArg
                 \/ state = "SendDigest" /\ arg.kind = "Input"

AdvancingRefuseUnexpected(arg) ==                \* mutated: a stray resume skips a state
    /\ ~Expected(arg)
    /\ Return(arg, CompleteErr("UnexpectedChallenge"))
    /\ state' = "Done"
    /\ UNCHANGED creds

RefuseUnexpected(arg) == ~Expected(arg) /\ Refuse(arg, "UnexpectedChallenge")

Resume(arg) == \/ arg = PeerDone /\ Accept(arg)
               \/ AwaitChallenge(arg) \/ SendDigest(arg) \/ RefuseUnexpected(arg)
====
