---- MODULE MechanismsProofs ----
(***************************************************************************)
(* Theorems about Mechanisms, for every Sasl value and whatever a driver   *)
(* may feed.                                                               *)
(*                                                                         *)
(* The inductive invariant says what each entry of the transcript is: the  *)
(* i-th message of a mechanism is a function of the Sasl value and of what *)
(* the driver fed when it went out.  The state is a function of how many   *)
(* went out.  One lemma per mechanism shows that a resume of it has an     *)
(* outcome of that form; the invariant and the properties are proved once, *)
(* from the outcome.                                                       *)
(***************************************************************************)
EXTENDS Mechanisms, Gs2Proofs, FiniteSetTheorems

\* The texts of a PLAIN message: those of the credentials, prepared where that is on.
Texts(c) == LET texts == <<PlainM!Authzid(c), c.authcid, c.passwd>>
            IN  IF SaslPrep THEN [i \in 1..3 |-> Prep(texts[i])] ELSE texts

\* The messages of a mechanism: the first, and the i-th, written in answer to arg.
First(s, arg) ==
    CASE s.variant = "Plain" -> PlainM!Payload(Texts(s.creds))
      [] s.variant = "Login" -> [kind |-> "username", bytes |-> s.creds.username]
      [] s.variant = "External" ->
            [kind |-> "authzid",
             bytes |-> IF s.creds.authzid = NoAuthzid THEN <<>> ELSE s.creds.authzid]
      [] s.variant = "Anonymous" ->
            [kind |-> "trace",
             bytes |-> IF s.creds.message = NoMessage THEN <<>> ELSE s.creds.message]
      [] s.variant = "CramMd5" ->
            [kind |-> "digest", username |-> s.creds.username,
             digest |-> CramMd5M!Digest(s.creds.secret, arg.bytes)]
      [] s.variant = "Xoauth2" -> XOAuth2M!Payload(s.creds)
      [] s.variant = "Oauthbearer" -> OAuthBearerM!Payload(s.creds)
      [] s.variant = "Gssapi" -> [kind |-> "first token", bytes |-> s.creds.token]
      [] s.variant = "Gs2Krb5" ->
            [kind |-> "gs2 token", bytes |-> Headed(s.creds.binding, s.creds.authzid, s.creds.token)]

Relayed(arg) == [kind |-> "relayed", bytes |-> arg.bytes]

Message(s, i, arg) ==
    IF i = 1 THEN First(s, arg)
    ELSE CASE s.variant = "Login"       -> [kind |-> "password", bytes |-> s.creds.password]
           [] s.variant = "Xoauth2"     -> EmptyPayload
           [] s.variant = "Oauthbearer" -> [kind |-> "0x01"]
           [] OTHER                     -> Relayed(arg)

Step(s, i, arg) == [arg |-> arg, reply |-> WantsWrite(Message(s, i, arg))]

\* What answers with an acknowledgement when its token is refused.
OAuths == {"Xoauth2", "Oauthbearer"}

\* When the i-th message may go out.
Due(s, i, arg) ==
    CASE s.variant \in OAuths  -> (i = 1 /\ arg = NoArg) \/ (i = 2 /\ arg.kind = "Input")
      [] s.variant \in Relays  -> (i = 1 /\ arg = NoArg) \/ (i > 1 /\ arg.kind = "Input")
      [] s.variant = "CramMd5" -> i = 1 /\ arg.kind = "Input"
      [] s.variant = "Login"   -> i \in {1, 2} /\ arg # PeerDone
      [] OTHER                 -> i = 1 /\ arg # PeerDone

\* The state it leaves, and the credentials, of which four mechanisms move a field out.
Sent == <<"Done">>
Failing(arg) == <<"Fail", Lossy(arg.bytes)>>

After(s, i, arg) ==
    CASE s.variant \in OAuths -> IF i = 1 THEN Sent ELSE Failing(arg)
      [] s.variant \in Relays -> "RelayToken"
      [] s.variant = "Login"  -> IF i = 1 THEN "SendPassword" ELSE "Done"
      [] OTHER                -> "Done"

Spent(s) ==
    CASE s.variant = "External"  -> [s.creds EXCEPT !.authzid = NoAuthzid]
      [] s.variant = "Anonymous" -> [s.creds EXCEPT !.message = NoMessage]
      [] s.variant \in Relays    -> [s.creds EXCEPT !.token = <<>>]
      [] OTHER                   -> s.creds

\* Each entry is the message due there; a coroutine that wrote nothing is as `new` left it,
\* but for the driver that had CRAM-MD5 ask for its challenge.
Entry(i) == /\ transcript[i].arg \in Args
               /\ Due(sasl, i, transcript[i].arg)
               /\ transcript[i] = Step(sasl, i, transcript[i].arg)

Position ==
    IF transcript = <<>>
    THEN /\ creds = sasl.creds
         /\ state = StartOf[sasl.variant] \/ (Is("CramMd5") /\ state = "SendDigest")
    ELSE /\ creds = Spent(sasl)
         /\ state = After(sasl, Len(transcript), transcript[Len(transcript)].arg)

\* What the end of the exchange is answered with.
Refused == sasl.variant \in OAuths /\ Len(transcript) = 2
End == IF Refused THEN Rejection(2) ELSE CompleteOk

LastAnswer ==
    /\ last.arg \in Args
    /\ last.reply.kind \in {"fresh", "WantsRead", "WantsWrite", "Ok", "Err"}
    /\ last.reply.kind = "Err" => last.reply.error \in ErrorsOf[sasl.variant]
    /\ last.reply.kind = "Ok" => last.arg = PeerDone
    /\ last.arg = PeerDone => last.reply = End

Steps == {Step(sasl, i, arg) : i \in Nat, arg \in Args}

IInv == /\ sasl \in Sasls
        /\ transcript \in Seq(Steps)
        /\ Len(transcript) <= MaxWrites
        /\ \A i \in DOMAIN transcript : Entry(i)
        /\ Position
        /\ LastAnswer
----
LEMMA Arguments ==
    ASSUME NEW arg, arg \in Args
    PROVE  /\ arg.kind \in {"None", "Done", "Input"}
           /\ arg = NoArg <=> arg.kind = "None"
           /\ arg = PeerDone <=> arg.kind = "Done"
           /\ arg.kind = "Input" => arg.bytes \in Inputs /\ arg = Input(arg.bytes)
<1>1. CASE arg = NoArg
  BY <1>1 DEF NoArg, PeerDone
<1>2. CASE arg = PeerDone
  BY <1>2 DEF NoArg, PeerDone
<1>3. CASE arg \in {Input(bytes) : bytes \in Inputs}
  <2>1. PICK bytes \in Inputs : arg = Input(bytes)
    BY <1>3
  <2> QED BY <2>1 DEF NoArg, PeerDone, Input
<1> QED BY <1>1, <1>2, <1>3 DEF Args

LEMMA Variants ==
    ASSUME NEW s \in Sasls
    PROVE  \/ s.variant = "Plain" \/ s.variant = "Login" \/ s.variant = "External"
           \/ s.variant = "Anonymous" \/ s.variant = "CramMd5" \/ s.variant = "Xoauth2"
           \/ s.variant = "Oauthbearer" \/ s.variant = "Gssapi" \/ s.variant = "Gs2Krb5"
BY SaslsAssumption DEF CredsOf

LEMMA Tables ==
    /\ StartOf["Plain"] = "SendCreds" /\ StartOf["Login"] = "SendUsername"
    /\ StartOf["External"] = "SendAuthzid" /\ StartOf["Anonymous"] = "SendTraceToken"
    /\ StartOf["CramMd5"] = "AwaitChallenge" /\ StartOf["Xoauth2"] = <<"SendToken">>
    /\ StartOf["Oauthbearer"] = <<"SendToken">> /\ StartOf["Gssapi"] = "SendFirstToken"
    /\ StartOf["Gs2Krb5"] = "SendFirstToken"
    /\ ErrorsOf["Plain"] = PlainM!Errors /\ ErrorsOf["Login"] = LoginM!Errors
    /\ ErrorsOf["External"] = ExternalM!Errors /\ ErrorsOf["Anonymous"] = AnonymousM!Errors
    /\ ErrorsOf["CramMd5"] = CramMd5M!Errors /\ ErrorsOf["Xoauth2"] = XOAuth2M!Errors
    /\ ErrorsOf["Oauthbearer"] = OAuthBearerM!Errors /\ ErrorsOf["Gssapi"] = GssapiM!Errors
    /\ ErrorsOf["Gs2Krb5"] = Gs2Krb5M!Errors
BY DEF StartOf, ErrorsOf, PlainM!Start, LoginM!Start, ExternalM!Start, AnonymousM!Start,
       CramMd5M!Start, XOAuth2M!Start, OAuthBearerM!Start, GssapiM!Start, Gs2Krb5M!Start

\* What one resume may come to, whatever the mechanism: the end of the exchange answered,
\* a refusal that changes nothing, the next message that is due, or CRAM-MD5 asking for
\* its challenge.
Ends(arg) == arg = PeerDone /\ Return(arg, End) /\ UNCHANGED <<creds, state>>

Refuses(arg) == /\ arg # PeerDone
                /\ \E error \in ErrorsOf[sasl.variant] : Refuse(arg, error)

Writes(arg) == /\ Due(sasl, Len(transcript) + 1, arg)
               /\ Write(arg, Message(sasl, Len(transcript) + 1, arg))
               /\ creds' = Spent(sasl)
               /\ state' = After(sasl, Len(transcript) + 1, arg)

Awaits(arg) == /\ arg # PeerDone
               /\ Is("CramMd5") /\ transcript = <<>>
               /\ Return(arg, WantsRead)
               /\ state' = "SendDigest" /\ UNCHANGED creds

Outcome(arg) == Ends(arg) \/ Refuses(arg) \/ Writes(arg) \/ Awaits(arg)

\* How many messages went out, as far as the state tells.
LEMMA Turns ==
    ASSUME IInv
    PROVE  /\ Len(transcript) \in Nat
           /\ transcript = <<>> <=> Len(transcript) = 0
           /\ transcript # <<>> =>
                 /\ transcript[Len(transcript)].arg \in Args
                 /\ Due(sasl, Len(transcript), transcript[Len(transcript)].arg)
<1>1. Len(transcript) \in Nat /\ (transcript = <<>> <=> Len(transcript) = 0)
  BY EmptySeq, LenProperties DEF IInv
<1>2. transcript # <<>> => Len(transcript) \in DOMAIN transcript
  BY <1>1, LenProperties DEF IInv
<1> QED BY <1>1, <1>2 DEF IInv, Entry

LEMMA PlainOutcome ==
    ASSUME IInv, Is("Plain"), NEW arg, arg \in Args, PlainM!Resume(arg)
    PROVE  Outcome(arg)
<1>1. /\ PlainM!PeerDone = PeerDone /\ PlainM!NoArg = NoArg
      /\ \A a : PlainM!Accept(a) => Accept(a)
      /\ \A a, e : PlainM!Refuse(a, e) => Refuse(a, e)
      /\ \A a, p : PlainM!Write(a, p) => Write(a, p)
  BY DEF PlainM!PeerDone, PeerDone, PlainM!NoArg, NoArg, PlainM!Accept, Accept, PlainM!Refuse, Refuse,
         PlainM!Return, Return, PlainM!Write, Write, PlainM!WantsWrite, WantsWrite,
         PlainM!CompleteOk, CompleteOk, PlainM!CompleteErr, CompleteErr
<1>2. /\ sasl.variant = "Plain" /\ ~Refused
      /\ transcript = <<>> => state = "SendCreds" /\ creds = sasl.creds
      /\ transcript # <<>> => state = "Done"
  BY Turns, Tables DEF IInv, Position, Is, Due, After, Refused, OAuths, Relays
<1>3. CASE arg = PeerDone /\ PlainM!Accept(arg)
  BY <1>1, <1>2, <1>3 DEF Accept, Outcome, Ends, End
<1>4. CASE PlainM!SendCreds(arg)
  <2>1. /\ transcript = <<>> /\ arg # PeerDone
        /\ Write(arg, Message(sasl, 1, arg))
        /\ state' = "Done" /\ creds' = Spent(sasl)
    BY <1>1, <1>2, <1>4
    DEF PlainM!SendCreds, Message, First, Spent, OAuths, Relays, PlainM!Outgoing, Texts
  <2>2. Due(sasl, 1, arg) /\ After(sasl, 1, arg) = "Done"
    BY <1>2, <2>1 DEF Due, After, OAuths, Relays
  <2> QED BY <2>1, <2>2, Turns DEF Outcome, Writes
<1>5. CASE arg # PeerDone /\ \E error \in PlainM!Errors : PlainM!Refuse(arg, error)
  BY <1>1, <1>2, <1>5, Tables DEF Outcome, Refuses
<1> QED BY <1>1, <1>3, <1>4, <1>5 DEF PlainM!Resume, PlainM!Errors, PlainM!RefuseCredentials

LEMMA ExternalOutcome ==
    ASSUME IInv, Is("External"), NEW arg, arg \in Args, ExternalM!Resume(arg)
    PROVE  Outcome(arg)
<1>1. /\ ExternalM!PeerDone = PeerDone /\ ExternalM!NoArg = NoArg
      /\ \A a : ExternalM!Accept(a) => Accept(a)
      /\ \A a, e : ExternalM!Refuse(a, e) => Refuse(a, e)
      /\ \A a, p : ExternalM!Write(a, p) => Write(a, p)
  BY DEF ExternalM!PeerDone, PeerDone, ExternalM!NoArg, NoArg, ExternalM!Accept, Accept, ExternalM!Refuse, Refuse,
         ExternalM!Return, Return, ExternalM!Write, Write, ExternalM!WantsWrite, WantsWrite,
         ExternalM!CompleteOk, CompleteOk, ExternalM!CompleteErr, CompleteErr
<1>2. /\ sasl.variant = "External" /\ ~Refused
      /\ transcript = <<>> => state = "SendAuthzid" /\ creds = sasl.creds
      /\ transcript # <<>> => state = "Done"
  BY Turns, Tables DEF IInv, Position, Is, Due, After, Refused, OAuths, Relays
<1>3. CASE arg = PeerDone /\ ExternalM!Accept(arg)
  BY <1>1, <1>2, <1>3 DEF Accept, Outcome, Ends, End
<1>4. CASE ExternalM!SendAuthzid(arg)
  <2>1. /\ transcript = <<>> /\ arg # PeerDone
        /\ Write(arg, Message(sasl, 1, arg))
        /\ state' = "Done" /\ creds' = Spent(sasl)
    BY <1>1, <1>2, <1>4
    DEF ExternalM!SendAuthzid, Message, First, Spent, OAuths, Relays
  <2>2. Due(sasl, 1, arg) /\ After(sasl, 1, arg) = "Done"
    BY <1>2, <2>1 DEF Due, After, OAuths, Relays
  <2> QED BY <2>1, <2>2, Turns DEF Outcome, Writes
<1>5. CASE arg # PeerDone /\ \E error \in ExternalM!Errors : ExternalM!Refuse(arg, error)
  BY <1>1, <1>2, <1>5, Tables DEF Outcome, Refuses
<1> QED BY <1>1, <1>3, <1>4, <1>5 DEF ExternalM!Resume, ExternalM!Errors

LEMMA AnonymousOutcome ==
    ASSUME IInv, Is("Anonymous"), NEW arg, arg \in Args, AnonymousM!Resume(arg)
    PROVE  Outcome(arg)
<1>1. /\ AnonymousM!PeerDone = PeerDone /\ AnonymousM!NoArg = NoArg
      /\ \A a : AnonymousM!Accept(a) => Accept(a)
      /\ \A a, e : AnonymousM!Refuse(a, e) => Refuse(a, e)
      /\ \A a, p : AnonymousM!Write(a, p) => Write(a, p)
  BY DEF AnonymousM!PeerDone, PeerDone, AnonymousM!NoArg, NoArg, AnonymousM!Accept, Accept, AnonymousM!Refuse, Refuse,
         AnonymousM!Return, Return, AnonymousM!Write, Write, AnonymousM!WantsWrite, WantsWrite,
         AnonymousM!CompleteOk, CompleteOk, AnonymousM!CompleteErr, CompleteErr
<1>2. /\ sasl.variant = "Anonymous" /\ ~Refused
      /\ transcript = <<>> => state = "SendTraceToken" /\ creds = sasl.creds
      /\ transcript # <<>> => state = "Done"
  BY Turns, Tables DEF IInv, Position, Is, Due, After, Refused, OAuths, Relays
<1>3. CASE arg = PeerDone /\ AnonymousM!Accept(arg)
  BY <1>1, <1>2, <1>3 DEF Accept, Outcome, Ends, End
<1>4. CASE AnonymousM!SendTraceToken(arg)
  <2>1. /\ transcript = <<>> /\ arg # PeerDone
        /\ Write(arg, Message(sasl, 1, arg))
        /\ state' = "Done" /\ creds' = Spent(sasl)
    BY <1>1, <1>2, <1>4
    DEF AnonymousM!SendTraceToken, Message, First, Spent, OAuths, Relays
  <2>2. Due(sasl, 1, arg) /\ After(sasl, 1, arg) = "Done"
    BY <1>2, <2>1 DEF Due, After, OAuths, Relays
  <2> QED BY <2>1, <2>2, Turns DEF Outcome, Writes
<1>5. CASE arg # PeerDone /\ \E error \in AnonymousM!Errors : AnonymousM!Refuse(arg, error)
  BY <1>1, <1>2, <1>5, Tables DEF Outcome, Refuses
<1> QED BY <1>1, <1>3, <1>4, <1>5 DEF AnonymousM!Resume, AnonymousM!Errors

LEMMA LoginOutcome ==
    ASSUME IInv, Is("Login"), NEW arg, arg \in Args, LoginM!Resume(arg)
    PROVE  Outcome(arg)
<1>1. /\ LoginM!PeerDone = PeerDone /\ LoginM!NoArg = NoArg
      /\ \A a : LoginM!Accept(a) => Accept(a)
      /\ \A a, e : LoginM!Refuse(a, e) => Refuse(a, e)
      /\ \A a, p : LoginM!Write(a, p) => Write(a, p)
  BY DEF LoginM!PeerDone, PeerDone, LoginM!NoArg, NoArg, LoginM!Accept, Accept, LoginM!Refuse, Refuse,
         LoginM!Return, Return, LoginM!Write, Write, LoginM!WantsWrite, WantsWrite,
         LoginM!CompleteOk, CompleteOk, LoginM!CompleteErr, CompleteErr
<1>2. /\ sasl.variant = "Login" /\ ~Refused /\ creds = sasl.creds /\ Spent(sasl) = creds
      /\ transcript = <<>> => state = "SendUsername"
      /\ transcript # <<>> => \/ Len(transcript) = 1 /\ state = "SendPassword"
                              \/ Len(transcript) = 2 /\ state = "Done"
  BY Turns, Tables DEF IInv, Position, Is, Due, After, Refused, Spent, OAuths, Relays
<1>3. CASE arg = PeerDone /\ LoginM!Accept(arg)
  BY <1>1, <1>2, <1>3 DEF Accept, Outcome, Ends, End
<1>4. CASE LoginM!SendUsername(arg)
  <2>1. /\ transcript = <<>> /\ arg # PeerDone
        /\ Write(arg, Message(sasl, 1, arg))
        /\ state' = "SendPassword" /\ creds' = creds
    BY <1>1, <1>2, <1>4 DEF LoginM!SendUsername, Message, First
  <2>2. Due(sasl, 1, arg) /\ After(sasl, 1, arg) = "SendPassword"
    BY <1>2, <2>1 DEF Due, After, OAuths, Relays
  <2> QED BY <1>2, <2>1, <2>2, Turns DEF Outcome, Writes
<1>5. CASE LoginM!SendPassword(arg)
  <2>1. /\ Len(transcript) = 1 /\ arg # PeerDone
        /\ Write(arg, Message(sasl, 2, arg))
        /\ state' = "Done" /\ creds' = creds
    BY <1>1, <1>2, <1>5 DEF LoginM!SendPassword, Message
  <2>2. Due(sasl, 2, arg) /\ After(sasl, 2, arg) = "Done"
    BY <1>2, <2>1 DEF Due, After, OAuths, Relays
  <2> QED BY <1>2, <2>1, <2>2 DEF Outcome, Writes
<1>6. CASE arg # PeerDone /\ \E error \in LoginM!Errors : LoginM!Refuse(arg, error)
  BY <1>1, <1>2, <1>6, Tables DEF Outcome, Refuses
<1> QED BY <1>1, <1>3, <1>4, <1>5, <1>6 DEF LoginM!Resume, LoginM!Errors

LEMMA CramMd5Outcome ==
    ASSUME IInv, Is("CramMd5"), NEW arg, arg \in Args, CramMd5M!Resume(arg)
    PROVE  Outcome(arg)
<1>1. /\ CramMd5M!PeerDone = PeerDone /\ CramMd5M!NoArg = NoArg
      /\ \A a : CramMd5M!Accept(a) => Accept(a)
      /\ \A a, e : CramMd5M!Refuse(a, e) => Refuse(a, e)
      /\ \A a, p : CramMd5M!Write(a, p) => Write(a, p)
  BY DEF CramMd5M!PeerDone, PeerDone, CramMd5M!NoArg, NoArg, CramMd5M!Accept, Accept, CramMd5M!Refuse, Refuse,
         CramMd5M!Return, Return, CramMd5M!Write, Write, CramMd5M!WantsWrite, WantsWrite,
         CramMd5M!CompleteOk, CompleteOk, CramMd5M!CompleteErr, CompleteErr
<1>2. /\ sasl.variant = "CramMd5" /\ ~Refused /\ creds = sasl.creds /\ Spent(sasl) = creds
      /\ transcript = <<>> => state \in {"AwaitChallenge", "SendDigest"}
      /\ transcript # <<>> => state = "Done"
  BY Turns, Tables DEF IInv, Position, Is, Due, After, Refused, Spent, OAuths, Relays
<1>3. CASE arg = PeerDone /\ CramMd5M!Accept(arg)
  BY <1>1, <1>2, <1>3 DEF Accept, Outcome, Ends, End
<1>4. CASE CramMd5M!AwaitChallenge(arg)
  <2>1. arg # PeerDone
    BY <1>1, <1>4 DEF CramMd5M!AwaitChallenge, NoArg, PeerDone
  <2>2. transcript = <<>> /\ Return(arg, WantsRead) /\ state' = "SendDigest" /\ UNCHANGED creds
    BY <1>2, <1>4
    DEF CramMd5M!AwaitChallenge, CramMd5M!Return, Return, CramMd5M!WantsRead, WantsRead
  <2> QED BY <2>1, <2>2 DEF Outcome, Awaits
<1>5. CASE CramMd5M!SendDigest(arg)
  <2>1. /\ transcript = <<>> /\ arg.kind = "Input"
        /\ Write(arg, Message(sasl, 1, arg))
        /\ state' = "Done" /\ creds' = creds
    BY <1>1, <1>2, <1>5 DEF CramMd5M!SendDigest, Message, First
  <2>2. Due(sasl, 1, arg) /\ After(sasl, 1, arg) = "Done"
    BY <1>2, <2>1 DEF Due, After, OAuths, Relays
  <2> QED BY <1>2, <2>1, <2>2, Turns DEF Outcome, Writes
<1>6. CASE CramMd5M!RefuseUnexpected(arg)
  <2>1. arg # PeerDone /\ Refuse(arg, "UnexpectedChallenge")
    BY <1>1, <1>6 DEF CramMd5M!RefuseUnexpected, CramMd5M!Expected
  <2> QED BY <1>2, <2>1, Tables DEF Outcome, Refuses, CramMd5M!Errors
<1> QED BY <1>1, <1>3, <1>4, <1>5, <1>6 DEF CramMd5M!Resume

LEMMA Xoauth2Outcome ==
    ASSUME IInv, Is("Xoauth2"), NEW arg, arg \in Args, XOAuth2M!Resume(arg)
    PROVE  Outcome(arg)
<1>1. /\ XOAuth2M!PeerDone = PeerDone /\ XOAuth2M!NoArg = NoArg
      /\ \A a : XOAuth2M!Accept(a) => Accept(a)
      /\ \A a, e : XOAuth2M!Refuse(a, e) => Refuse(a, e)
      /\ \A a, p : XOAuth2M!Write(a, p) => Write(a, p)
  BY DEF XOAuth2M!PeerDone, PeerDone, XOAuth2M!NoArg, NoArg, XOAuth2M!Accept, Accept, XOAuth2M!Refuse, Refuse,
         XOAuth2M!Return, Return, XOAuth2M!Write, Write, XOAuth2M!WantsWrite, WantsWrite,
         XOAuth2M!CompleteOk, CompleteOk, XOAuth2M!CompleteErr, CompleteErr
<1>2. /\ sasl.variant = "Xoauth2" /\ creds = sasl.creds /\ Spent(sasl) = creds
      /\ transcript = <<>> => state = <<"SendToken">>
      /\ transcript # <<>> => \/ Len(transcript) = 1 /\ state = Sent
                              \/ Len(transcript) = 2 /\ state = Failing(transcript[2].arg)
  BY Turns, Tables DEF IInv, Position, Is, Due, After, Spent, OAuths, Relays
<1>3. /\ <<"SendToken">>[1] = "SendToken" /\ Sent[1] = "Done"
      /\ <<"SendToken">> # Sent
      /\ \A a : /\ Failing(a)[1] = "Fail" /\ Failing(a)[2] = Lossy(a.bytes)
               /\ Failing(a) # Sent /\ Failing(a) # <<"SendToken">>
  BY DEF Sent, Failing
<1>4. /\ state[1] = "Fail" <=> Refused
      /\ state = <<"SendToken">> => transcript = <<>>
      /\ state = Sent => Len(transcript) = 1
  BY <1>2, <1>3, Turns DEF Refused, OAuths
<1>5. CASE XOAuth2M!Finish(arg)
  BY <1>1, <1>4, <1>5 DEF XOAuth2M!Finish, Accept, Outcome, Ends, End
<1>6. CASE XOAuth2M!ReportRejection(arg)
  <2>1. Refused /\ state[2] = Lossy(transcript[2].arg.bytes)
    BY <1>2, <1>3, <1>4, <1>6, Turns DEF XOAuth2M!ReportRejection, Refused
  <2>2. XOAuth2M!Rejected(state[2]) = [error |-> "Rejected", json |-> Lossy(transcript[2].arg.bytes)]
    BY <2>1 DEF XOAuth2M!Rejected
  <2> QED BY <1>1, <1>6, <2>1, <2>2
      DEF XOAuth2M!ReportRejection, Refuse, Outcome, Ends, End, Rejection
<1>7. CASE XOAuth2M!SendToken(arg)
  <2>1. /\ transcript = <<>> /\ arg = NoArg
        /\ Write(arg, Message(sasl, 1, arg))
        /\ state' = Sent /\ creds' = creds
    BY <1>1, <1>2, <1>4, <1>7 DEF XOAuth2M!SendToken, Message, First, Sent
  <2>2. Due(sasl, 1, arg) /\ After(sasl, 1, arg) = Sent
    BY <1>2, <2>1 DEF Due, After, OAuths, Relays
  <2> QED BY <1>2, <2>1, <2>2, Turns DEF Outcome, Writes
<1>8. CASE XOAuth2M!AcknowledgeRejection(arg)
  <2>1. /\ state = Sent /\ arg.kind = "Input" /\ state' = Failing(arg) /\ creds' = creds
    BY <1>8 DEF XOAuth2M!AcknowledgeRejection, Sent, Failing, XOAuth2M!Lossy, Lossy,
                XOAuth2M!InvalidByte, InvalidByte, XOAuth2M!Replacement, Replacement
  <2>2. Message(sasl, 2, arg) = EmptyPayload
    BY <1>2 DEF Message
  <2>3. Len(transcript) = 1 /\ Write(arg, Message(sasl, 2, arg))
    BY <1>1, <1>4, <1>8, <2>1, <2>2 DEF XOAuth2M!AcknowledgeRejection, EmptyPayload, XOAuth2M!EmptyPayload
  <2>4. Due(sasl, 2, arg) /\ After(sasl, 2, arg) = Failing(arg)
    BY <1>2, <2>1 DEF Due, After, OAuths, Relays
  <2> QED BY <1>2, <2>1, <2>3, <2>4 DEF Outcome, Writes
<1>9. CASE XOAuth2M!RefuseUnexpected(arg)
  <2>1. arg # PeerDone /\ Refuse(arg, XOAuth2M!Unexpected)
    BY <1>1, <1>9 DEF XOAuth2M!RefuseUnexpected, XOAuth2M!Expected
  <2> QED BY <1>2, <2>1, Tables DEF Outcome, Refuses, XOAuth2M!Errors
<1> QED BY <1>5, <1>6, <1>7, <1>8, <1>9 DEF XOAuth2M!Resume

LEMMA OauthbearerOutcome ==
    ASSUME IInv, Is("Oauthbearer"), NEW arg, arg \in Args, OAuthBearerM!Resume(arg)
    PROVE  Outcome(arg)
<1>1. /\ OAuthBearerM!PeerDone = PeerDone /\ OAuthBearerM!NoArg = NoArg
      /\ \A a : OAuthBearerM!Accept(a) => Accept(a)
      /\ \A a, e : OAuthBearerM!Refuse(a, e) => Refuse(a, e)
      /\ \A a, p : OAuthBearerM!Write(a, p) => Write(a, p)
  BY DEF OAuthBearerM!PeerDone, PeerDone, OAuthBearerM!NoArg, NoArg, OAuthBearerM!Accept, Accept, OAuthBearerM!Refuse, Refuse,
         OAuthBearerM!Return, Return, OAuthBearerM!Write, Write, OAuthBearerM!WantsWrite, WantsWrite,
         OAuthBearerM!CompleteOk, CompleteOk, OAuthBearerM!CompleteErr, CompleteErr
<1>2. /\ sasl.variant = "Oauthbearer" /\ creds = sasl.creds /\ Spent(sasl) = creds
      /\ transcript = <<>> => state = <<"SendToken">>
      /\ transcript # <<>> => \/ Len(transcript) = 1 /\ state = Sent
                              \/ Len(transcript) = 2 /\ state = Failing(transcript[2].arg)
  BY Turns, Tables DEF IInv, Position, Is, Due, After, Spent, OAuths, Relays
<1>3. /\ <<"SendToken">>[1] = "SendToken" /\ Sent[1] = "Done"
      /\ <<"SendToken">> # Sent
      /\ \A a : /\ Failing(a)[1] = "Fail" /\ Failing(a)[2] = Lossy(a.bytes)
               /\ Failing(a) # Sent /\ Failing(a) # <<"SendToken">>
  BY DEF Sent, Failing
<1>4. /\ state[1] = "Fail" <=> Refused
      /\ state = <<"SendToken">> => transcript = <<>>
      /\ state = Sent => Len(transcript) = 1
  BY <1>2, <1>3, Turns DEF Refused, OAuths
<1>5. CASE OAuthBearerM!Finish(arg)
  BY <1>1, <1>4, <1>5 DEF OAuthBearerM!Finish, Accept, Outcome, Ends, End
<1>6. CASE OAuthBearerM!ReportRejection(arg)
  <2>1. Refused /\ state[2] = Lossy(transcript[2].arg.bytes)
    BY <1>2, <1>3, <1>4, <1>6, Turns DEF OAuthBearerM!ReportRejection, Refused
  <2>2. OAuthBearerM!Rejected(state[2]) = [error |-> "Rejected", json |-> Lossy(transcript[2].arg.bytes)]
    BY <2>1 DEF OAuthBearerM!Rejected
  <2> QED BY <1>1, <1>6, <2>1, <2>2
      DEF OAuthBearerM!ReportRejection, Refuse, Outcome, Ends, End, Rejection
<1>7. CASE OAuthBearerM!SendToken(arg)
  <2>1. /\ transcript = <<>> /\ arg = NoArg
        /\ Write(arg, Message(sasl, 1, arg))
        /\ state' = Sent /\ creds' = creds
    BY <1>1, <1>2, <1>4, <1>7 DEF OAuthBearerM!SendToken, Message, First, Sent
  <2>2. Due(sasl, 1, arg) /\ After(sasl, 1, arg) = Sent
    BY <1>2, <2>1 DEF Due, After, OAuths, Relays
  <2> QED BY <1>2, <2>1, <2>2, Turns DEF Outcome, Writes
<1>8. CASE OAuthBearerM!AcknowledgeRejection(arg)
  <2>1. /\ state = Sent /\ arg.kind = "Input" /\ state' = Failing(arg) /\ creds' = creds
    BY <1>8 DEF OAuthBearerM!AcknowledgeRejection, Sent, Failing, OAuthBearerM!Lossy, Lossy,
                OAuthBearerM!InvalidByte, InvalidByte, OAuthBearerM!Replacement, Replacement
  <2>2. Message(sasl, 2, arg) = [kind |-> "0x01"]
    BY <1>2 DEF Message
  <2>3. Len(transcript) = 1 /\ Write(arg, Message(sasl, 2, arg))
    BY <1>1, <1>4, <1>8, <2>1, <2>2 DEF OAuthBearerM!AcknowledgeRejection, EmptyPayload, OAuthBearerM!EmptyPayload
  <2>4. Due(sasl, 2, arg) /\ After(sasl, 2, arg) = Failing(arg)
    BY <1>2, <2>1 DEF Due, After, OAuths, Relays
  <2> QED BY <1>2, <2>1, <2>3, <2>4 DEF Outcome, Writes
<1>9. CASE OAuthBearerM!RefuseUnexpected(arg)
  <2>1. arg # PeerDone /\ Refuse(arg, OAuthBearerM!Unexpected)
    BY <1>1, <1>9 DEF OAuthBearerM!RefuseUnexpected, OAuthBearerM!Expected
  <2> QED BY <1>2, <2>1, Tables DEF Outcome, Refuses, OAuthBearerM!Errors
<1> QED BY <1>5, <1>6, <1>7, <1>8, <1>9 DEF OAuthBearerM!Resume

LEMMA GssapiOutcome ==
    ASSUME IInv, Is("Gssapi"), NEW arg, arg \in Args, GssapiM!Resume(arg)
    PROVE  Outcome(arg)
<1>1. /\ GssapiM!PeerDone = PeerDone /\ GssapiM!NoArg = NoArg
      /\ \A a : GssapiM!Accept(a) => Accept(a)
      /\ \A a, e : GssapiM!Refuse(a, e) => Refuse(a, e)
      /\ \A a, p : GssapiM!Write(a, p) => Write(a, p)
  BY DEF GssapiM!PeerDone, PeerDone, GssapiM!NoArg, NoArg, GssapiM!Accept, Accept, GssapiM!Refuse, Refuse,
         GssapiM!Return, Return, GssapiM!Write, Write, GssapiM!WantsWrite, WantsWrite,
         GssapiM!CompleteOk, CompleteOk, GssapiM!CompleteErr, CompleteErr
<1>2. /\ sasl.variant = "Gssapi" /\ ~Refused
      /\ transcript = <<>> => state = "SendFirstToken" /\ creds = sasl.creds
      /\ transcript # <<>> => state = "RelayToken" /\ creds = Spent(sasl)
  BY Turns, Tables DEF IInv, Position, Is, Due, After, Refused, OAuths, Relays
<1>3. CASE arg = PeerDone /\ GssapiM!Accept(arg)
  BY <1>1, <1>2, <1>3 DEF Accept, Outcome, Ends, End
<1>4. CASE GssapiM!SendFirstToken(arg)
  <2>1. /\ transcript = <<>> /\ arg = NoArg
        /\ Write(arg, Message(sasl, 1, arg))
        /\ state' = "RelayToken" /\ creds' = Spent(sasl)
    BY <1>1, <1>2, <1>4 DEF GssapiM!SendFirstToken, Message, First, Spent, Relays
  <2>2. Due(sasl, 1, arg) /\ After(sasl, 1, arg) = "RelayToken"
    BY <1>2, <2>1 DEF Due, After, OAuths, Relays
  <2> QED BY <2>1, <2>2, Turns DEF Outcome, Writes
<1>5. CASE GssapiM!RelayToken(arg)
  <2> DEFINE i == Len(transcript) + 1
  <2>1. /\ i \in Nat /\ i > 1 /\ arg.kind = "Input"
        /\ state' = "RelayToken" /\ creds' = Spent(sasl)
    BY <1>2, <1>5, Turns DEF GssapiM!RelayToken
  <2> HIDE DEF i
  <2>2. Message(sasl, i, arg) = Relayed(arg)
    BY <1>2, <2>1 DEF Message
  <2>3. Due(sasl, i, arg) /\ After(sasl, i, arg) = "RelayToken"
    BY <1>2, <2>1 DEF Due, After, OAuths, Relays
  <2>4. Write(arg, Message(sasl, i, arg))
    BY <1>1, <1>5, <2>2 DEF GssapiM!RelayToken, Relayed
  <2> QED BY <2>1, <2>3, <2>4 DEF Outcome, Writes, i
<1>6. CASE GssapiM!RefuseOutOfOrder(arg)
  <2>1. arg # PeerDone /\ Refuse(arg, "OutOfOrder")
    BY <1>1, <1>6 DEF GssapiM!RefuseOutOfOrder, GssapiM!Expected
  <2> QED BY <1>2, <2>1, Tables DEF Outcome, Refuses, GssapiM!Errors
<1> QED BY <1>1, <1>3, <1>4, <1>5, <1>6 DEF GssapiM!Resume

\* GS2-KRB5 writes the header the other mechanisms write.
LEMMA SameHeader == \A b, a : Gs2Krb5M!Header(b, a) = Header(b, a)
<1>1. \A s : Gs2Krb5M!FlattenSeq(s) = FlattenSeq(s)
  BY DEF Gs2Krb5M!FlattenSeq, FlattenSeq
<1>2. \A c : Gs2Krb5M!EscapeToken(c) = EscapeToken(c)
  BY DEF Gs2Krb5M!EscapeToken, EscapeToken
<1>3. \A a : Gs2Krb5M!Escape(a) = Escape(a)
  BY <1>1, <1>2 DEF Gs2Krb5M!Escape, Escape
<1>4. \A b : Gs2Krb5M!Flag(b) = Flag(b)
  BY DEF Gs2Krb5M!Flag, Flag, Gs2Krb5M!IsBound, IsBound, Gs2Krb5M!KindName, KindName
<1> QED BY <1>3, <1>4 DEF Gs2Krb5M!Header, Header

LEMMA Gs2Krb5Outcome ==
    ASSUME IInv, Is("Gs2Krb5"), NEW arg, arg \in Args, Gs2Krb5M!Resume(arg)
    PROVE  Outcome(arg)
<1>1. /\ Gs2Krb5M!PeerDone = PeerDone /\ Gs2Krb5M!NoArg = NoArg
      /\ \A a : Gs2Krb5M!Accept(a) => Accept(a)
      /\ \A a, e : Gs2Krb5M!Refuse(a, e) => Refuse(a, e)
      /\ \A a, p : Gs2Krb5M!Write(a, p) => Write(a, p)
  BY DEF Gs2Krb5M!PeerDone, PeerDone, Gs2Krb5M!NoArg, NoArg, Gs2Krb5M!Accept, Accept, Gs2Krb5M!Refuse, Refuse,
         Gs2Krb5M!Return, Return, Gs2Krb5M!Write, Write, Gs2Krb5M!WantsWrite, WantsWrite,
         Gs2Krb5M!CompleteOk, CompleteOk, Gs2Krb5M!CompleteErr, CompleteErr
<1>2. /\ sasl.variant = "Gs2Krb5" /\ ~Refused
      /\ transcript = <<>> => state = "SendFirstToken" /\ creds = sasl.creds
      /\ transcript # <<>> => state = "RelayToken" /\ creds = Spent(sasl)
  BY Turns, Tables DEF IInv, Position, Is, Due, After, Refused, OAuths, Relays
<1>3. CASE arg = PeerDone /\ Gs2Krb5M!Accept(arg)
  BY <1>1, <1>2, <1>3 DEF Accept, Outcome, Ends, End
<1>4. CASE Gs2Krb5M!SendFirstToken(arg)
  <2>1. /\ transcript = <<>> /\ arg = NoArg
        /\ Write(arg, Message(sasl, 1, arg))
        /\ state' = "RelayToken" /\ creds' = Spent(sasl)
    BY SameHeader, <1>1, <1>2, <1>4 DEF Gs2Krb5M!SendFirstToken, Message, First, Spent, Relays,
        Headed
  <2>2. Due(sasl, 1, arg) /\ After(sasl, 1, arg) = "RelayToken"
    BY <1>2, <2>1 DEF Due, After, OAuths, Relays
  <2> QED BY <2>1, <2>2, Turns DEF Outcome, Writes
<1>5. CASE Gs2Krb5M!RelayToken(arg)
  <2> DEFINE i == Len(transcript) + 1
  <2>1. /\ i \in Nat /\ i > 1 /\ arg.kind = "Input"
        /\ state' = "RelayToken" /\ creds' = Spent(sasl)
    BY <1>2, <1>5, Turns DEF Gs2Krb5M!RelayToken
  <2> HIDE DEF i
  <2>2. Message(sasl, i, arg) = Relayed(arg)
    BY <1>2, <2>1 DEF Message
  <2>3. Due(sasl, i, arg) /\ After(sasl, i, arg) = "RelayToken"
    BY <1>2, <2>1 DEF Due, After, OAuths, Relays
  <2>4. Write(arg, Message(sasl, i, arg))
    BY <1>1, <1>5, <2>2 DEF Gs2Krb5M!RelayToken, Relayed
  <2> QED BY <2>1, <2>3, <2>4 DEF Outcome, Writes, i
<1>6. CASE Gs2Krb5M!RefuseOutOfOrder(arg)
  <2>1. arg # PeerDone /\ Refuse(arg, "OutOfOrder")
    BY <1>1, <1>6 DEF Gs2Krb5M!RefuseOutOfOrder, Gs2Krb5M!Expected
  <2> QED BY <1>2, <2>1, Tables DEF Outcome, Refuses, Gs2Krb5M!Errors
<1> QED BY <1>1, <1>3, <1>4, <1>5, <1>6 DEF Gs2Krb5M!Resume

LEMMA Outcomes ==
    ASSUME IInv, NEW arg, arg \in Args, Resume(arg)
    PROVE  Outcome(arg)
BY PlainOutcome, LoginOutcome, ExternalOutcome, AnonymousOutcome, CramMd5Outcome, Xoauth2Outcome,
   OauthbearerOutcome, GssapiOutcome, Gs2Krb5Outcome DEF Resume
----
(***************************************************************************)
(* The invariant holds, whatever the mechanism.                            *)
(***************************************************************************)
\* Nothing goes out in answer to the end of the exchange.
LEMMA DueNotAtEnd ==
    ASSUME NEW s \in Sasls, NEW i, NEW arg, Due(s, i, arg)
    PROVE  arg # PeerDone
<1>1. CASE s.variant \in OAuths
  BY <1>1 DEF Due, OAuths, Relays, NoArg, PeerDone
<1>2. CASE s.variant \in Relays
  BY <1>2 DEF Due, OAuths, Relays, NoArg, PeerDone
<1>3. CASE s.variant = "CramMd5"
  BY <1>3 DEF Due, OAuths, Relays, PeerDone
<1>4. CASE s.variant = "Login"
  BY <1>4 DEF Due, OAuths, Relays
<1> QED BY <1>1, <1>2, <1>3, <1>4, Variants DEF Due, OAuths, Relays

\* The refusal that is reported is one of the errors of the mechanism.
LEMMA Reported ==
    ASSUME IInv, Refused
    PROVE  /\ transcript[2].arg.bytes \in Inputs
           /\ state = Failing(transcript[2].arg)
           /\ End.kind = "Err"
           /\ End.error \in ErrorsOf[sasl.variant]
<1>1. 2 \in DOMAIN transcript
  BY LenProperties DEF IInv, Refused
<1>2. transcript[2].arg \in Args /\ Due(sasl, 2, transcript[2].arg)
  BY <1>1 DEF IInv, Entry
<1>3. transcript[2].arg.kind = "Input"
  BY <1>2 DEF Refused, Due, OAuths, Relays
<1>4. transcript[2].arg.bytes \in Inputs
  BY <1>2, <1>3, Arguments
<1>5. state = Failing(transcript[2].arg)
  BY Turns DEF IInv, Position, Refused, After, OAuths, Relays
<1>6. /\ End.kind = "Err"
      /\ End.error = [error |-> "Rejected", json |-> Lossy(transcript[2].arg.bytes)]
  BY DEF End, Rejection, CompleteErr
<1>7. \A b : XOAuth2M!Lossy(b) = Lossy(b) /\ OAuthBearerM!Lossy(b) = Lossy(b)
  BY DEF XOAuth2M!Lossy, OAuthBearerM!Lossy, Lossy, XOAuth2M!InvalidByte, OAuthBearerM!InvalidByte,
         InvalidByte, XOAuth2M!Replacement, OAuthBearerM!Replacement, Replacement
<1>8. CASE sasl.variant = "Xoauth2"
  <2>1. End.error = XOAuth2M!Rejected(XOAuth2M!Lossy(transcript[2].arg.bytes))
    BY <1>6, <1>7 DEF XOAuth2M!Rejected
  <2>2. XOAuth2M!Rejected(XOAuth2M!Lossy(transcript[2].arg.bytes)) \in XOAuth2M!Errors
    BY <1>4 DEF XOAuth2M!Errors
  <2> QED BY <1>4, <1>5, <1>6, <1>8, <2>1, <2>2, Tables
<1>9. CASE sasl.variant = "Oauthbearer"
  <2>1. End.error = OAuthBearerM!Rejected(OAuthBearerM!Lossy(transcript[2].arg.bytes))
    BY <1>6, <1>7 DEF OAuthBearerM!Rejected
  <2>2. OAuthBearerM!Rejected(OAuthBearerM!Lossy(transcript[2].arg.bytes)) \in OAuthBearerM!Errors
    BY <1>4 DEF OAuthBearerM!Errors
  <2> QED BY <1>4, <1>5, <1>6, <1>9, <2>1, <2>2, Tables
<1> QED BY <1>4, <1>5, <1>6, <1>8, <1>9 DEF Refused, OAuths

LEMMA Initially == Init => IInv
<1> SUFFICES ASSUME Init PROVE IInv
  OBVIOUS
<1>1. sasl \in Sasls /\ transcript = <<>> /\ creds = sasl.creds /\ state = StartOf[sasl.variant]
  BY DEF Init, Fresh
<1>2. LastAnswer
  BY DEF Init, Fresh, LastAnswer, NoReply, NoArg, PeerDone, Args
<1>3. Len(transcript) <= MaxWrites
  BY <1>1, EmptySeq, BoundAssumption
<1> QED BY <1>1, <1>2, <1>3, EmptySeq DEF IInv, Position

LEMMA OutcomeKeeps ==
    ASSUME IInv, NEW arg, arg \in Args, Outcome(arg), sasl' = sasl, Len(transcript') <= MaxWrites
    PROVE  IInv'
<1>1. CASE Ends(arg)
  <2>1. /\ UNCHANGED <<sasl, creds, state, transcript>>
        /\ last' = [arg |-> PeerDone, reply |-> End]
    BY <1>1 DEF Ends, Return
  <2>2. (Position /\ \A i \in DOMAIN transcript : Entry(i))'
    BY <2>1 DEF IInv, Position, Entry, Is
  <2>3. End' = End
    BY <2>1 DEF End, Refused, Rejection
  <2>4. /\ End.kind \in {"Ok", "Err"}
        /\ End.kind = "Err" => End.error \in ErrorsOf[sasl.variant]
    BY Reported DEF End, CompleteOk
  <2>5. LastAnswer'
    BY <1>1, <2>1, <2>3, <2>4 DEF LastAnswer, Ends
  <2> QED BY <2>1, <2>2, <2>5 DEF IInv, Steps
<1>2. CASE Refuses(arg)
  <2>1. PICK error \in ErrorsOf[sasl.variant] : Refuse(arg, error)
    BY <1>2 DEF Refuses
  <2>2. /\ UNCHANGED <<sasl, creds, state, transcript>>
        /\ last' = [arg |-> arg, reply |-> [kind |-> "Err", error |-> error]]
    BY <2>1 DEF Refuse, Return, CompleteErr
  <2>3. (Position /\ \A i \in DOMAIN transcript : Entry(i))'
    BY <2>2 DEF IInv, Position, Entry, Is
  <2>4. LastAnswer'
    BY <1>2, <2>2 DEF LastAnswer, Refuses
  <2> QED BY <2>2, <2>3, <2>4 DEF IInv, Steps
<1>3. CASE Awaits(arg)
  <2>1. /\ transcript' = transcript /\ transcript = <<>> /\ creds' = creds
        /\ state' = "SendDigest" /\ Is("CramMd5")
        /\ arg # PeerDone
        /\ last' = [arg |-> arg, reply |-> [kind |-> "WantsRead"]]
    BY <1>3 DEF Awaits, Return, WantsRead
  <2>2. (Position /\ \A i \in DOMAIN transcript : Entry(i))'
    BY <2>1 DEF IInv, Position, Entry, Is
  <2>3. LastAnswer'
    BY <2>1 DEF LastAnswer
  <2> QED BY <2>1, <2>2, <2>3 DEF IInv, Steps
<1>4. CASE Writes(arg)
  <2> DEFINE n == Len(transcript) + 1
             step == Step(sasl, n, arg)
  <2>1. /\ Due(sasl, n, arg) /\ n \in Nat
        /\ transcript' = Append(transcript, step) /\ last' = step
        /\ creds' = Spent(sasl) /\ state' = After(sasl, n, arg)
    BY <1>4, Turns DEF Writes, Write, Step
  <2>2. step.arg = arg /\ step.reply.kind = "WantsWrite" /\ step \in Steps
    BY <2>1 DEF Step, WantsWrite, Steps
  <2>3. arg # PeerDone
    BY <2>1, DueNotAtEnd DEF IInv
  <2>4. transcript \in Seq(Steps)
    BY DEF IInv
  <2> HIDE DEF step
  <2>5. /\ transcript' \in Seq(Steps) /\ Len(transcript') = n /\ transcript'[n] = step
        /\ \A i \in 1..n : i = n \/ (i \in 1..Len(transcript) /\ transcript'[i] = transcript[i])
    BY <2>1, <2>2, <2>4, AppendProperties, LenProperties
  <2>6. \A i \in DOMAIN transcript' : Entry(i)'
    <3> SUFFICES ASSUME NEW i \in 1..n PROVE Entry(i)'
      BY <2>5, LenProperties
    <3>1. CASE i = n
      BY <2>1, <2>2, <2>5, <3>1 DEF Entry, step
    <3>2. CASE i # n
      <4>1. Entry(i) /\ transcript'[i] = transcript[i]
        BY <2>4, <2>5, <3>2, LenProperties DEF IInv
      <4> QED BY <4>1 DEF Entry
    <3> QED BY <3>1, <3>2
  <2>7. Position'
    <3>1. transcript' # <<>>
      BY <2>1, <2>5, EmptySeq, Turns
    <3> QED BY <2>1, <2>2, <2>5, <3>1 DEF Position
  <2>8. LastAnswer'
    BY <2>1, <2>2, <2>3 DEF LastAnswer
  <2>9. sasl' \in Sasls /\ Steps' = Steps
    BY DEF IInv, Steps
  <2> QED BY <2>5, <2>6, <2>7, <2>8, <2>9 DEF IInv
<1> QED BY <1>1, <1>2, <1>3, <1>4 DEF Outcome

LEMMA Stepwise == IInv /\ [Next]_vars => IInv'
<1> SUFFICES ASSUME IInv, [Next]_vars PROVE IInv'
  OBVIOUS
<1>1. CASE Next
  BY <1>1, Outcomes, OutcomeKeeps DEF Next
<1>2. CASE UNCHANGED vars
  BY <1>2 DEF vars, IInv, Position, Entry, LastAnswer, End, Refused, Rejection, Is, Steps
<1> QED BY <1>1, <1>2

THEOREM Invariance == Spec => []IInv
BY Initially, Stepwise, PTL DEF Spec
----
(***************************************************************************)
(* What the invariant says of each property.                               *)
(***************************************************************************)
LEMMA StatesOfVariants == IInv => state \in StatesOf[sasl.variant]
<1> SUFFICES ASSUME IInv PROVE state \in StatesOf[sasl.variant]
  OBVIOUS
<1>1. /\ transcript = <<>> => state = StartOf[sasl.variant] \/ (Is("CramMd5") /\ state = "SendDigest")
      /\ transcript # <<>> =>
            /\ Due(sasl, Len(transcript), transcript[Len(transcript)].arg)
            /\ state = After(sasl, Len(transcript), transcript[Len(transcript)].arg)
  BY Turns DEF IInv, Position
<1>2. CASE sasl.variant \in OAuths
  <2>1. \/ state = <<"SendToken">> \/ state = Sent
        \/ Refused
    BY <1>1, <1>2, Tables, Turns DEF Due, After, Refused, OAuths, Relays, Is
  <2>2. \/ state = <<"SendToken">> \/ state = <<"Done">>
        \/ \E json \in Inputs : state = <<"Fail", Lossy(json)>>
    BY <2>1, Reported DEF Sent, Failing
  <2>3. \A b : XOAuth2M!Lossy(b) = Lossy(b) /\ OAuthBearerM!Lossy(b) = Lossy(b)
    BY DEF XOAuth2M!Lossy, OAuthBearerM!Lossy, Lossy, XOAuth2M!InvalidByte, OAuthBearerM!InvalidByte,
           InvalidByte, XOAuth2M!Replacement, OAuthBearerM!Replacement, Replacement
  <2>4. StatesOf["Xoauth2"] = XOAuth2M!States /\ StatesOf["Oauthbearer"] = OAuthBearerM!States
    BY DEF StatesOf
  <2> QED BY <1>2, <2>2, <2>3, <2>4 DEF OAuths, XOAuth2M!States, OAuthBearerM!States
<1>3. /\ StatesOf["Plain"] = PlainM!States /\ StatesOf["Login"] = LoginM!States
      /\ StatesOf["External"] = ExternalM!States /\ StatesOf["Anonymous"] = AnonymousM!States
      /\ StatesOf["CramMd5"] = CramMd5M!States /\ StatesOf["Gssapi"] = GssapiM!States
      /\ StatesOf["Gs2Krb5"] = Gs2Krb5M!States
  BY DEF StatesOf
<1>4. CASE sasl.variant \in Relays
  BY <1>1, <1>3, <1>4, Tables DEF Relays, OAuths, Due, After, Is, GssapiM!States, Gs2Krb5M!States
<1>5. CASE sasl.variant = "Login"
  BY <1>1, <1>3, <1>5, Tables DEF Relays, OAuths, Due, After, Is, LoginM!States
<1>6. CASE sasl.variant = "CramMd5"
  BY <1>1, <1>3, <1>6, Tables DEF Relays, OAuths, Due, After, Is, CramMd5M!States
<1>7. CASE sasl.variant \in {"Plain", "External", "Anonymous"}
  BY <1>1, <1>3, <1>7, Tables
  DEF Relays, OAuths, Due, After, Is, PlainM!States, ExternalM!States, AnonymousM!States
<1> QED BY <1>2, <1>4, <1>5, <1>6, <1>7, Variants DEF IInv, OAuths, Relays

\* TypeOK, for every Sasl value and whatever is fed.
THEOREM TypeCorrect == Spec => []TypeOK
<1>1. IInv => TypeOK
  BY StatesOfVariants, Turns, BoundAssumption DEF IInv, LastAnswer, TypeOK
<1> QED BY <1>1, Invariance, PTL

\* The message that spends the credential, and the one that acknowledges a refusal: 0
\* for a mechanism that has none.
SpentAt == IF sasl.variant = "Login" THEN 2
           ELSE IF sasl.variant \in {"External", "Anonymous"} THEN 0 ELSE 1
AckAt == IF sasl.variant \in OAuths THEN 2 ELSE 0

Credentials == {"plain", "password", "digest", "xoauth2", "oauthbearer", "first token", "gs2 token"}

\* What kind of message the i-th of them is.
Labelled(i, arg) ==
    /\ sasl.variant \notin Relays => i <= Len(Script)
    /\ IF i <= Len(Script) THEN Message(sasl, i, arg).kind = Script[i]
                           ELSE arg.kind = "Input" /\ Message(sasl, i, arg) = Relayed(arg)
    /\ Message(sasl, i, arg).kind \in Credentials <=> i = SpentAt
    /\ Message(sasl, i, arg).kind \in {"empty", "0x01"} <=> i = AckAt

LEMMA Sorted ==
    /\ "plain" \in Credentials /\ "password" \in Credentials /\ "digest" \in Credentials
    /\ "xoauth2" \in Credentials /\ "oauthbearer" \in Credentials
    /\ "first token" \in Credentials /\ "gs2 token" \in Credentials
    /\ "username" \notin Credentials /\ "authzid" \notin Credentials /\ "trace" \notin Credentials
    /\ "empty" \notin Credentials /\ "0x01" \notin Credentials /\ "relayed" \notin Credentials
BY DEF Credentials

LEMMA Lone == \A x : Len(<<x>>) = 1 /\ <<x>>[1] = x
OBVIOUS

LEMMA Labels ==
    ASSUME NEW i \in Nat, NEW arg, Due(sasl, i, arg), sasl \in Sasls
    PROVE  Labelled(i, arg)
<1>1. CASE sasl.variant = "Plain"
  <2>1. SpentAt = 1 /\ AckAt = 0
    BY <1>1 DEF SpentAt, AckAt, OAuths
  <2>2. i = 1 /\ Message(sasl, i, arg).kind = "plain"
    BY <1>1 DEF Due, Message, First, OAuths, Relays, PlainM!Payload
  <2>3. Len(Script) = 1 /\ Script[1] = "plain"
    <3>1. Script = <<"plain">>
      BY <1>1 DEF Script, Is
    <3> QED BY <3>1, Lone, Zenon
  <2>4. i <= Len(Script) /\ Message(sasl, i, arg).kind = Script[i]
    BY <2>2, <2>3
  <2>5. Message(sasl, i, arg).kind \in Credentials <=> i = SpentAt
    BY <2>1, <2>2, Sorted
  <2>6. Message(sasl, i, arg).kind \in {"empty", "0x01"} <=> i = AckAt
    BY <2>1, <2>2
  <2> QED BY <2>4, <2>5, <2>6 DEF Labelled
<1>2. CASE sasl.variant = "Login"
  <2>1. Script = <<"username", "password">> /\ SpentAt = 2 /\ AckAt = 0
    BY <1>2 DEF Script, Is, SpentAt, AckAt, OAuths
  <2>2. i = 1 \/ i = 2
    BY <1>2 DEF Due, OAuths, Relays
  <2>3. Message(sasl, i, arg).kind = IF i = 1 THEN "username" ELSE "password"
    BY <1>2, <2>2 DEF Message, First
  <2> QED BY <1>2, <2>1, <2>2, <2>3 DEF Labelled, Credentials
<1>3. CASE sasl.variant = "External"
  <2>1. SpentAt = 0 /\ AckAt = 0
    BY <1>3 DEF SpentAt, AckAt, OAuths
  <2>2. i = 1 /\ Message(sasl, i, arg).kind = "authzid"
    BY <1>3 DEF Due, Message, First, OAuths, Relays
  <2>3. Len(Script) = 1 /\ Script[1] = "authzid"
    <3>1. Script = <<"authzid">>
      BY <1>3 DEF Script, Is
    <3> QED BY <3>1, Lone, Zenon
  <2>4. i <= Len(Script) /\ Message(sasl, i, arg).kind = Script[i]
    BY <2>2, <2>3
  <2>5. Message(sasl, i, arg).kind \in Credentials <=> i = SpentAt
    <3>1. Message(sasl, i, arg).kind \notin Credentials
      BY <2>2, Sorted
    <3>2. i # SpentAt
      BY <2>1, <2>2
    <3> QED BY <3>1, <3>2
  <2>6. Message(sasl, i, arg).kind \in {"empty", "0x01"} <=> i = AckAt
    BY <2>1, <2>2
  <2> QED BY <2>4, <2>5, <2>6 DEF Labelled
<1>4. CASE sasl.variant = "Anonymous"
  <2>1. SpentAt = 0 /\ AckAt = 0
    BY <1>4 DEF SpentAt, AckAt, OAuths
  <2>2. i = 1 /\ Message(sasl, i, arg).kind = "trace"
    BY <1>4 DEF Due, Message, First, OAuths, Relays
  <2>3. Len(Script) = 1 /\ Script[1] = "trace"
    <3>1. Script = <<"trace">>
      BY <1>4 DEF Script, Is
    <3> QED BY <3>1, Lone, Zenon
  <2>4. i <= Len(Script) /\ Message(sasl, i, arg).kind = Script[i]
    BY <2>2, <2>3
  <2>5. Message(sasl, i, arg).kind \in Credentials <=> i = SpentAt
    <3>1. Message(sasl, i, arg).kind \notin Credentials
      BY <2>2, Sorted
    <3>2. i # SpentAt
      BY <2>1, <2>2
    <3> QED BY <3>1, <3>2
  <2>6. Message(sasl, i, arg).kind \in {"empty", "0x01"} <=> i = AckAt
    BY <2>1, <2>2
  <2> QED BY <2>4, <2>5, <2>6 DEF Labelled
<1>5. CASE sasl.variant = "CramMd5"
  <2>1. SpentAt = 1 /\ AckAt = 0
    BY <1>5 DEF SpentAt, AckAt, OAuths
  <2>2. i = 1 /\ Message(sasl, i, arg).kind = "digest"
    BY <1>5 DEF Due, Message, First, OAuths, Relays
  <2>3. Len(Script) = 1 /\ Script[1] = "digest"
    <3>1. Script = <<"digest">>
      BY <1>5 DEF Script, Is
    <3> QED BY <3>1, Lone, Zenon
  <2>4. i <= Len(Script) /\ Message(sasl, i, arg).kind = Script[i]
    BY <2>2, <2>3
  <2>5. Message(sasl, i, arg).kind \in Credentials <=> i = SpentAt
    BY <2>1, <2>2, Sorted
  <2>6. Message(sasl, i, arg).kind \in {"empty", "0x01"} <=> i = AckAt
    BY <2>1, <2>2
  <2> QED BY <2>4, <2>5, <2>6 DEF Labelled
<1>6. CASE sasl.variant = "Xoauth2"
  <2>1. Script = <<"xoauth2", "empty">> /\ SpentAt = 1 /\ AckAt = 2
    BY <1>6 DEF Script, Is, SpentAt, AckAt, OAuths
  <2>2. i = 1 \/ i = 2
    BY <1>6 DEF Due, OAuths, Relays
  <2>3. Message(sasl, i, arg).kind = IF i = 1 THEN "xoauth2" ELSE "empty"
    BY <1>6, <2>2 DEF Message, First, XOAuth2M!Payload, EmptyPayload
  <2> QED BY <1>6, <2>1, <2>2, <2>3 DEF Labelled, Credentials
<1>7. CASE sasl.variant = "Oauthbearer"
  <2>1. Script = <<"oauthbearer", "0x01">> /\ SpentAt = 1 /\ AckAt = 2
    BY <1>7 DEF Script, Is, SpentAt, AckAt, OAuths
  <2>2. i = 1 \/ i = 2
    BY <1>7 DEF Due, OAuths, Relays
  <2>3. Message(sasl, i, arg).kind = IF i = 1 THEN "oauthbearer" ELSE "0x01"
    BY <1>7, <2>2 DEF Message, First, OAuthBearerM!Payload
  <2> QED BY <1>7, <2>1, <2>2, <2>3 DEF Labelled, Credentials
<1>8. CASE sasl.variant \in Relays
  <2>1. CASE i = 1
    <3>0. sasl.variant = "Gssapi" \/ sasl.variant = "Gs2Krb5"
      BY <1>8 DEF Relays
    <3>1. Len(Script) = 1 /\ Message(sasl, i, arg).kind = Script[1]
      <4>1. CASE sasl.variant = "Gssapi"
        <5>1. Script = <<"first token">>
          BY <4>1 DEF Script, Is
        <5>2. Message(sasl, i, arg).kind = "first token"
          BY <2>1, <4>1 DEF Message, First
        <5> QED BY <5>1, <5>2, Lone, Zenon
      <4>2. CASE sasl.variant = "Gs2Krb5"
        <5>1. Script = <<"gs2 token">>
          BY <4>2 DEF Script, Is
        <5>2. Message(sasl, i, arg).kind = "gs2 token"
          BY <2>1, <4>2 DEF Message, First
        <5> QED BY <5>1, <5>2, Lone, Zenon
      <4> QED BY <3>0, <4>1, <4>2
    <3>2. /\ sasl.variant = "Gssapi" => Message(sasl, i, arg).kind = "first token"
          /\ sasl.variant = "Gs2Krb5" => Message(sasl, i, arg).kind = "gs2 token"
      BY <2>1 DEF Message, First
    <3>3. SpentAt = 1 /\ AckAt = 0
      BY <1>8 DEF SpentAt, AckAt, OAuths, Relays
    <3>5. i <= Len(Script) /\ Message(sasl, i, arg).kind = Script[i]
      BY <2>1, <3>1
    <3>6. \/ Message(sasl, i, arg).kind = "first token"
          \/ Message(sasl, i, arg).kind = "gs2 token"
      BY <3>0, <3>2
    <3>7. Message(sasl, i, arg).kind \in Credentials
      BY <3>6, Sorted
    <3>8. Message(sasl, i, arg).kind \notin {"empty", "0x01"}
      BY <3>6
    <3> QED BY <1>8, <2>1, <3>3, <3>5, <3>7, <3>8 DEF Labelled
  <2>2. CASE i # 1
    <3>1. Len(Script) = 1
      BY <1>8 DEF Script, Is, Relays
    <3>2. arg.kind = "Input" /\ i > 1
      BY <1>8, <2>2 DEF Due, OAuths, Relays
    <3>3. Message(sasl, i, arg) = Relayed(arg) /\ Relayed(arg).kind = "relayed"
      BY <1>8, <2>2 DEF Message, Relays, Relayed
    <3>4. SpentAt = 1 /\ AckAt = 0
      BY <1>8 DEF SpentAt, AckAt, OAuths, Relays
    <3> QED BY <1>8, <2>2, <3>1, <3>2, <3>3, <3>4 DEF Labelled, Credentials
  <2> QED BY <2>1, <2>2
<1> QED BY <1>1, <1>2, <1>3, <1>4, <1>5, <1>6, <1>7, <1>8, Variants DEF Relays

LEMMA LabelAt ==
    ASSUME IInv, NEW i \in DOMAIN transcript
    PROVE  /\ i \in Nat
           /\ transcript[i].arg \in Args
           /\ transcript[i] = Step(sasl, i, transcript[i].arg)
           /\ transcript[i].reply.payload = Message(sasl, i, transcript[i].arg)
           /\ Due(sasl, i, transcript[i].arg)
           /\ Labelled(i, transcript[i].arg)
<1>1. i \in Nat
  BY LenProperties DEF IInv
<1>2. Entry(i)
  BY DEF IInv
<1>3. transcript[i].reply.payload = Message(sasl, i, transcript[i].arg)
  BY <1>2 DEF Entry, Step, WantsWrite
<1> QED BY <1>1, <1>2, <1>3, Labels DEF Entry, IInv

\* Each message of a mechanism goes out at most once, in order, and a relay forwards what
\* it was fed, whatever the driver does.
THEOREM ScriptKept == Spec => []ScriptFollowed
<1>1. IInv => ScriptFollowed
  <2> SUFFICES ASSUME IInv PROVE ScriptFollowed
    OBVIOUS
  <2>1. sasl.variant \notin Relays => Len(transcript) <= Len(Script)
    <3>1. CASE transcript = <<>>
      <4>1. Len(transcript) = 0
        BY <3>1
      <4>2. sasl.variant \notin Relays => Len(Script) \in {1, 2}
        BY Variants DEF IInv, Script, Is, Relays
      <4> QED BY <4>1, <4>2
    <3>2. CASE transcript # <<>>
      <4>1. Len(transcript) \in DOMAIN transcript
        BY <3>2, Turns, LenProperties DEF IInv
      <4> QED BY <4>1, LabelAt DEF Labelled
    <3> QED BY <3>1, <3>2
  <2>2. ASSUME NEW i \in DOMAIN transcript
        PROVE  IF i <= Len(Script) THEN Kind(i) = Script[i]
               ELSE transcript[i].arg = Input(transcript[i].reply.payload.bytes)
    <3>1. CASE i <= Len(Script)
      BY <3>1, LabelAt DEF Labelled, Kind
    <3>2. CASE ~(i <= Len(Script))
      <4> DEFINE a == transcript[i].arg
      <4>1. a.kind = "Input" /\ a \in Args /\ transcript[i].reply.payload = Relayed(a)
        BY <3>2, LabelAt DEF Labelled
      <4>2. a = Input(a.bytes)
        BY <4>1, Arguments
      <4> QED BY <3>2, <4>1, <4>2 DEF Relayed
    <3> QED BY <3>1, <3>2
  <2> QED BY <2>1, <2>2 DEF ScriptFollowed
<1> QED BY <1>1, Invariance, PTL

LEMMA Marks ==
    ASSUME IInv
    PROVE  /\ Spending = {i \in 1..Len(transcript) : i = SpentAt}
           /\ Acknowledging = {i \in 1..Len(transcript) : i = AckAt}
<1>1. DOMAIN transcript = 1..Len(transcript)
  BY LenProperties DEF IInv
<1>2. \A i \in DOMAIN transcript : transcript[i].reply.payload.kind \in Credentials <=> i = SpentAt
  BY LabelAt DEF Labelled
<1>3. \A i \in DOMAIN transcript :
         transcript[i].reply.payload.kind \in {"empty", "0x01"} <=> i = AckAt
  BY LabelAt DEF Labelled
<1>4. Spending = Written(Credentials)
  BY DEF Spending, Credentials
<1>5. Spending = {i \in DOMAIN transcript : i = SpentAt}
  BY <1>2, <1>4 DEF Written
<1>6. Acknowledging = {i \in DOMAIN transcript : i = AckAt}
  BY <1>3 DEF Acknowledging, Written
<1> QED BY <1>1, <1>5, <1>6

LEMMA Acknowledged ==
    ASSUME IInv
    PROVE  /\ Refused => Acknowledging = {2}
           /\ ~Refused => Acknowledging = {}
<1>1. Len(transcript) \in Nat
  BY Turns
<1>2. CASE Refused
  BY <1>1, <1>2, Marks DEF Refused, AckAt
<1>3. CASE ~Refused
  <2>1. CASE sasl.variant \in OAuths
    <3>1. transcript # <<>> => Len(transcript) = 1
      BY <1>3, <2>1, Turns DEF Due, Refused, OAuths, Relays
    <3>2. Len(transcript) = 0 \/ Len(transcript) = 1
      BY <3>1, Turns
    <3>3. \A i \in 1..Len(transcript) : i # AckAt
      <4>1. AckAt = 2
        BY <2>1 DEF AckAt
      <4> DEFINE n == Len(transcript)
      <4>2. n = 0 \/ n = 1
        BY <3>2
      <4> HIDE DEF n
      <4>3. \A i \in 1..n : i # 2
        BY <4>2
      <4> QED BY <4>1, <4>3 DEF n
    <3> QED BY <1>3, <3>3, Marks
  <2>2. CASE sasl.variant \notin OAuths
    BY <1>1, <1>3, <2>2, Marks DEF AckAt
  <2> QED BY <2>1, <2>2
<1> QED BY <1>2, <1>3

\* Only the end completes Ok, and it always does, but for a token that was refused.
THEOREM EndDecided == Spec => []EndDecides
<1>1. IInv => EndDecides
  BY Acknowledged DEF IInv, LastAnswer, End, EndDecides
<1> QED BY <1>1, Invariance, PTL

\* A resume that completes Err changes nothing.
THEOREM FailuresHarmless == Spec => FailuresChangeNothing
<1>1. IInv /\ [Next]_vars => [last'.reply.kind = "Err" => UNCHANGED <<creds, state, transcript>>]_vars
  <2> SUFFICES ASSUME IInv, Next, last'.reply.kind = "Err"
               PROVE  UNCHANGED <<creds, state, transcript>>
    BY DEF vars
  <2>1. PICK arg \in Args : Resume(arg)
    BY DEF Next
  <2>2. ~Writes(arg) /\ ~Awaits(arg)
    BY DEF Writes, Write, Awaits, Return, WantsWrite, WantsRead
  <2>3. Ends(arg) \/ Refuses(arg)
    BY <2>1, <2>2, Outcomes DEF Outcome
  <2> QED BY <2>3 DEF Ends, Refuses, Refuse, Return
<1> QED BY <1>1, Invariance, PTL DEF Spec, FailuresChangeNothing

\* A GS2 token is written by GS2-KRB5 alone, and first.
LEMMA Gs2TokenAt ==
    ASSUME IInv, NEW i \in Written({"gs2 token"})
    PROVE  /\ sasl.variant = "Gs2Krb5"
           /\ transcript[i].reply.payload.bytes
                 = Headed(sasl.creds.binding, sasl.creds.authzid, sasl.creds.token)
<1> DEFINE arg == transcript[i].arg
<1>1. /\ i \in Nat /\ Due(sasl, i, arg)
      /\ transcript[i].reply.payload = Message(sasl, i, arg)
      /\ Message(sasl, i, arg).kind = "gs2 token"
  BY LabelAt DEF Written
<1> HIDE DEF arg
<1>2. i = 1
  <2> SUFFICES ASSUME i # 1 PROVE Message(sasl, i, arg).kind # "gs2 token"
    BY <1>1
  <2>1. CASE sasl.variant = "Login"
    BY <2>1 DEF Message
  <2>2. CASE sasl.variant = "Xoauth2"
    BY <2>2 DEF Message, EmptyPayload
  <2>3. CASE sasl.variant = "Oauthbearer"
    BY <2>3 DEF Message
  <2>4. CASE sasl.variant # "Login" /\ sasl.variant # "Xoauth2" /\ sasl.variant # "Oauthbearer"
    BY <2>4 DEF Message, Relayed
  <2> QED BY <2>1, <2>2, <2>3, <2>4
<1>3. First(sasl, arg).kind = "gs2 token"
  BY <1>1, <1>2 DEF Message
<1>4. sasl.variant = "Gs2Krb5"
  <2>1. sasl.variant = "Plain" => First(sasl, arg).kind = "plain"
    BY DEF First, PlainM!Payload
  <2>2. sasl.variant = "Login" => First(sasl, arg).kind = "username"
    BY DEF First
  <2>3. sasl.variant = "External" => First(sasl, arg).kind = "authzid"
    BY DEF First
  <2>4. sasl.variant = "Anonymous" => First(sasl, arg).kind = "trace"
    BY DEF First
  <2>5. sasl.variant = "CramMd5" => First(sasl, arg).kind = "digest"
    BY DEF First
  <2>6. sasl.variant = "Xoauth2" => First(sasl, arg).kind = "xoauth2"
    BY DEF First, XOAuth2M!Payload
  <2>7. sasl.variant = "Oauthbearer" => First(sasl, arg).kind = "oauthbearer"
    BY DEF First, OAuthBearerM!Payload
  <2>8. sasl.variant = "Gssapi" => First(sasl, arg).kind = "first token"
    BY DEF First
  <2> QED BY <1>3, <2>1, <2>2, <2>3, <2>4, <2>5, <2>6, <2>7, <2>8, Variants DEF IInv
<1>5. First(sasl, arg).bytes = Headed(sasl.creds.binding, sasl.creds.authzid, sasl.creds.token)
  BY <1>4 DEF First
<1> QED BY <1>1, <1>2, <1>4, <1>5 DEF Message

\* Whether it binds is what the coroutine was built with, ever after.
LEMMA BindingKept == IInv /\ Is("Gs2Krb5") => creds.binding = sasl.creds.binding
<1> SUFFICES ASSUME IInv, Is("Gs2Krb5") PROVE creds.binding = sasl.creds.binding
  OBVIOUS
<1>1. creds = sasl.creds \/ creds = [sasl.creds EXCEPT !.token = <<>>]
  BY DEF IInv, Position, Spent, Is, Relays
<1>2. sasl.creds = [token |-> sasl.creds.token, authzid |-> sasl.creds.authzid,
                    binding |-> sasl.creds.binding]
  <2>1. sasl.creds \in Gs2Krb5M!Gs2Krb5Creds
    BY SaslsAssumption DEF IInv, Is, CredsOf
  <2> QED BY <2>1 DEF Gs2Krb5M!Gs2Krb5Creds
<1> QED BY <1>1, <1>2

LEMMA Tagged ==
    Is("Gs2Krb5") =>
       mechanism(sasl) = IF IsBound(sasl.creds.binding) THEN "Gs2Krb5Plus" ELSE "Gs2Krb5"
BY DEF mechanism, PlusTag, Spelled, Is

LEMMA SameBindings == Gs2Krb5M!Bindings = Bindings
<1>1. /\ Gs2Krb5M!Unsupported = Unsupported /\ Gs2Krb5M!Unused = Unused
      /\ \A k, d : Gs2Krb5M!Bound(k, d) = Bound(k, d)
  BY DEF Gs2Krb5M!Unsupported, Unsupported, Gs2Krb5M!Unused, Unused, Gs2Krb5M!Bound, Bound
<1> QED BY <1>1 DEF Gs2Krb5M!Bindings, Bindings

\* The tag of the Sasl value, the tag announced and the flag on the wire agree.
THEOREM NamesAgree == Spec => []NameMatchesFlag
<1>1. ASSUME IInv PROVE mechanism(sasl) = Announced
  <2>1. CASE Is("Gs2Krb5")
    <3>1. Announced = Gs2Krb5M!Mechanism(creds)
      BY <2>1 DEF Announced, Is
    <3> QED BY <1>1, <2>1, <3>1, BindingKept, Tagged DEF Gs2Krb5M!Mechanism, Gs2Krb5M!IsBound, IsBound
  <2>2. CASE Is("Xoauth2")
    <3>1. mechanism(sasl) = "XOAuth2"
      BY <2>2 DEF mechanism, PlusTag, Spelled, Is
    <3> QED BY <2>2, <3>1 DEF Announced, Is, XOAuth2M!Mechanism
  <2>3. CASE Is("Oauthbearer")
    <3>1. mechanism(sasl) = "OAuthBearer"
      BY <2>3 DEF mechanism, PlusTag, Spelled, Is
    <3> QED BY <2>3, <3>1 DEF Announced, Is, OAuthBearerM!Mechanism
  <2>4. CASE ~(Is("Gs2Krb5") \/ Is("Xoauth2") \/ Is("Oauthbearer"))
    <3>1. \/ Is("Plain") \/ Is("Login") \/ Is("External") \/ Is("Anonymous") \/ Is("CramMd5")
          \/ Is("Gssapi")
      BY <1>1, <2>4, Variants DEF IInv, Is
    <3>2. mechanism(sasl) = sasl.variant
      BY <3>1 DEF mechanism, PlusTag, Spelled, Is
    <3>3. Announced = sasl.variant
      BY <3>1 DEF Announced, Is, PlainM!Mechanism, LoginM!Mechanism, ExternalM!Mechanism,
                  AnonymousM!Mechanism, CramMd5M!Mechanism, GssapiM!Mechanism
    <3> QED BY <3>2, <3>3
  <2> QED BY <2>1, <2>2, <2>3, <2>4
<1>2. ASSUME IInv, NEW i \in Written({"gs2 token"})
      PROVE  transcript[i].reply.payload.bytes[1] = "p" <=> as_str[Announced] = "GS2-KRB5-PLUS"
  <2> DEFINE c == sasl.creds
  <2>1. /\ sasl.variant = "Gs2Krb5"
        /\ transcript[i].reply.payload.bytes = Headed(c.binding, c.authzid, c.token)
    BY <1>2, Gs2TokenAt
  <2>2. c \in Gs2Krb5M!Gs2Krb5Creds
    <3>1. sasl.creds \in CredsOf[sasl.variant]
      BY <1>2, SaslsAssumption DEF IInv
    <3>2. CredsOf["Gs2Krb5"] = Gs2Krb5M!Gs2Krb5Creds
      BY DEF CredsOf
    <3> QED BY <2>1, <3>1, <3>2
  <2>3. c.binding \in Bindings /\ c.authzid \in Text \cup {NoAuthzid} /\ c.token \in Text
    <3>1. /\ c.binding \in Gs2Krb5M!Bindings
          /\ c.authzid \in Gs2Krb5M!Text \cup {NoAuthzid} /\ c.token \in Gs2Krb5M!Text
      BY <2>2 DEF Gs2Krb5M!Gs2Krb5Creds
    <3>3. Gs2Krb5M!Text = Text
      BY DEF Gs2Krb5M!Text, Text
    <3> QED BY <3>1, <3>3, SameBindings
  <2> HIDE DEF c
  <2>4. Text \subseteq Seq(Tokens)
    <3>1. STRING \subseteq Tokens
      BY DEF Tokens
    <3> HIDE DEF Tokens
    <3> QED BY <3>1, SeqMonotonic DEF Text
  <2>5. c.authzid \in Identities /\ c.token \in Seq(Tokens)
    BY <2>3, <2>4 DEF Identities
  <2>6. transcript[i].reply.payload.bytes[1] = c.binding.flag
    BY <2>1, <2>3, <2>5, HeadedOpens, ZenonT(30)
  <2>7. Announced = IF IsBound(c.binding) THEN "Gs2Krb5Plus" ELSE "Gs2Krb5"
    <3>1. Is("Gs2Krb5")
      BY <2>1 DEF Is
    <3> QED BY <1>1, <1>2, <3>1, Tagged DEF c
  <2> QED BY <2>6, <2>7 DEF as_str, IsBound
<1>3. IInv => NameMatchesFlag
  BY <1>1, <1>2 DEF NameMatchesFlag
<1> QED BY <1>3, Invariance, PTL
----
(***************************************************************************)
(* The refinement of SaslContract: the write that spends the credential is *)
(* its Spend, the acknowledgement of a refused token its Answer, any other *)
(* write, and the wait for a challenge, its Yield.                         *)
(***************************************************************************)
\* Where the mapped variables stand after n messages.
SpentBy(n) == IF SpentAt \in 1..n THEN 1 ELSE 0
PeerBy(n) == IF AckAt \in 1..n THEN "rejected" ELSE "open"

LEMMA Mapped ==
    ASSUME IInv
    PROVE  /\ Cardinality(Spending) = SpentBy(Len(transcript))
           /\ (IF Acknowledging = {} THEN "open" ELSE "rejected") = PeerBy(Len(transcript))
<1> DEFINE n == Len(transcript)
<1>1. Cardinality(Spending) = SpentBy(n)
  <2>1. CASE SpentAt \in 1..n
    <3>1. Spending = {SpentAt}
      BY <2>1, Marks
    <3> QED BY <2>1, <3>1, FS_Singleton DEF SpentBy
  <2>2. CASE SpentAt \notin 1..n
    <3>1. Spending = {}
      BY <2>2, Marks
    <3> QED BY <2>2, <3>1, FS_EmptySet DEF SpentBy
  <2> QED BY <2>1, <2>2
<1>2. Acknowledging = {} <=> AckAt \notin 1..n
  BY Marks
<1> QED BY <1>1, <1>2 DEF PeerBy

LEMMA ContractBegins == Init => Contract!Init
<1> SUFFICES ASSUME Init PROVE Contract!Init
  OBVIOUS
<1>1. transcript = <<>> /\ last.reply.kind = "fresh"
  BY DEF Init, Fresh, NoReply
<1>2. Len(transcript) = 0
  BY <1>1
<1>3. SpentBy(0) = 0 /\ PeerBy(0) = "open"
  BY DEF SpentBy, PeerBy
<1>4. /\ Cardinality(Spending) = 0
      /\ (IF Acknowledging = {} THEN "open" ELSE "rejected") = "open"
  BY <1>2, <1>3, Initially, Mapped
<1>5. Verdict = "pending"
  BY <1>1 DEF Verdict
<1> QED BY <1>4, <1>5 DEF Contract!Init

\* What a write does to them.
LEMMA Progress ==
    ASSUME NEW n \in Nat
    PROVE  \/ /\ SpentBy(n + 1) = SpentBy(n)
              /\ PeerBy(n + 1) = PeerBy(n)
           \/ /\ SpentBy(n) = 0 /\ SpentBy(n + 1) = 1
              /\ PeerBy(n + 1) = PeerBy(n)
           \/ /\ SpentBy(n) = 1 /\ SpentBy(n + 1) = 1
              /\ PeerBy(n) = "open" /\ PeerBy(n + 1) = "rejected"
<1>1. /\ SpentAt \in {0, 1, 2} /\ AckAt \in {0, 2}
      /\ AckAt = 2 => SpentAt = 1
  BY DEF SpentAt, AckAt, OAuths
<1>2. CASE n + 1 = AckAt
  <2>1. n = 1 /\ AckAt = 2 /\ SpentAt = 1
    BY <1>1, <1>2
  <2>2. SpentBy(1) = 1 /\ SpentBy(2) = 1
    BY <2>1 DEF SpentBy
  <2>3. PeerBy(1) = "open" /\ PeerBy(2) = "rejected"
    BY <2>1 DEF PeerBy
  <2> QED BY <2>1, <2>2, <2>3
<1>3. CASE n + 1 # AckAt
  <2>1. PeerBy(n + 1) = PeerBy(n)
    BY <1>1, <1>3 DEF PeerBy
  <2>2. CASE n + 1 = SpentAt
    BY <1>1, <2>1, <2>2 DEF SpentBy
  <2>3. CASE n + 1 # SpentAt
    <3>1. SpentBy(n + 1) = SpentBy(n)
      BY <1>1, <2>3 DEF SpentBy
    <3> QED BY <2>1, <3>1
  <2> QED BY <2>2, <2>3
<1> QED BY <1>2, <1>3

LEMMA ContractStep == IInv /\ IInv' /\ [Next]_vars => [Contract!Next]_(Contract!vars)
<1> SUFFICES ASSUME IInv, IInv', [Next]_vars PROVE [Contract!Next]_(Contract!vars)
  OBVIOUS
<1> DEFINE spent == Cardinality(Spending)
           peer == IF Acknowledging = {} THEN "open" ELSE "rejected"
           n == Len(transcript)
<1>1. spent = SpentBy(n) /\ peer = PeerBy(n)
  BY Mapped
<1>2. (spent = SpentBy(n) /\ peer = PeerBy(n))'
  BY Mapped, PTL
<1>3. ASSUME NEW arg \in Args, Resume(arg), UNCHANGED sasl PROVE Contract!Next
  <2>1. UNCHANGED <<SpentAt, AckAt>>
    BY <1>3 DEF SpentAt, AckAt
  <2>2. ASSUME transcript' = transcript PROVE UNCHANGED <<spent, peer>>
    BY <1>3, <2>2 DEF Spending, Acknowledging, Written
  <2>3. CASE Ends(arg)
    <3>1. transcript' = transcript /\ last'.reply = End
      BY <2>3 DEF Ends, Return
    <3>2. CASE Refused
      <4>1. Verdict' = "err"
        BY <3>1, <3>2, Reported DEF Verdict
      <4> QED BY <2>2, <3>1, <4>1 DEF Contract!Next, Contract!Refuse
    <3>3. CASE ~Refused
      <4>1. Verdict' = "ok" /\ peer = "open"
        BY <3>1, <3>3, Acknowledged DEF Verdict, End, CompleteOk
      <4> QED BY <2>2, <3>1, <4>1 DEF Contract!Next, Contract!Accept
    <3> QED BY <3>2, <3>3
  <2>4. CASE Refuses(arg)
    <3>1. transcript' = transcript /\ last'.reply.kind = "Err"
      BY <2>4 DEF Refuses, Refuse, Return, CompleteErr
    <3>2. Verdict' = "err"
      BY <3>1 DEF Verdict
    <3> QED BY <2>2, <3>1, <3>2 DEF Contract!Next, Contract!Refuse
  <2>5. CASE Awaits(arg)
    <3>1. transcript' = transcript /\ last'.reply.kind = "WantsRead"
      BY <2>5 DEF Awaits, Return, WantsRead
    <3>2. Verdict' = "pending"
      BY <3>1 DEF Verdict
    <3> QED BY <2>2, <3>1, <3>2 DEF Contract!Next, Contract!Yield
  <2>6. CASE Writes(arg)
    <3>1. n' = n + 1 /\ n \in Nat /\ Verdict' = "pending"
      <4>1. transcript' = Append(transcript, last') /\ last'.reply.kind = "WantsWrite"
        BY <2>6 DEF Writes, Write, WantsWrite
      <4>2. Len(transcript') = Len(transcript) + 1
        BY <4>1, AppendProperties DEF IInv
      <4> QED BY <4>1, <4>2, Turns DEF Verdict
    <3>2. (SpentBy(n))' = SpentBy(n + 1) /\ (PeerBy(n))' = PeerBy(n + 1)
      BY <2>1, <3>1 DEF SpentBy, PeerBy
    <3> HIDE DEF n, spent, peer
    <3>3. spent' = SpentBy(n + 1) /\ peer' = PeerBy(n + 1)
      BY <1>2, <3>2
    <3>4. \/ spent' = spent /\ peer' = peer
          \/ spent = 0 /\ spent' = 1 /\ peer' = peer
          \/ spent = 1 /\ spent' = 1 /\ peer = "open" /\ peer' = "rejected"
      BY <1>1, <3>1, <3>3, Progress
    <3> QED BY <3>1, <3>4
        DEF Contract!Next, Contract!Yield, Contract!Spend, Contract!Answer, spent, peer
  <2> QED BY <1>3, <2>3, <2>4, <2>5, <2>6, Outcomes DEF Outcome
<1>4. CASE UNCHANGED vars
  BY <1>4 DEF vars, Contract!vars, Spending, Acknowledging, Written, Verdict
<1> QED BY <1>3, <1>4 DEF Next

\* Every mechanism keeps the contract of one that does not authenticate the server.
THEOREM Implementation == Spec => ImplementsContract
BY Initially, Stepwise, ContractBegins, ContractStep, PTL DEF Spec, ImplementsContract, Contract!Spec
----
(***************************************************************************)
(* What the peer reads.  The separators of PLAIN cannot be in its texts    *)
(* once they are prepared, those of GS2-KRB5 are escaped, and a caller of  *)
(* the OAuth mechanisms has to keep them out.                              *)
(***************************************************************************)
\* The preparation is on, and it refuses a text with a NUL in it.
NulProhibited ==
    SaslPrep /\ \A text \in Text : Prep(text) = Prohibited
                                   \/ (Prep(text) \in Text /\ Free(Prep(text), "NUL"))

\* The peer knows the identities an application may name, and only those are named.
NamesKnown ==
    /\ Names \subseteq Text \cup {NoAuthzid}
    /\ \A s \in Sasls : s.variant = "Gs2Krb5" => s.creds.authzid \in Names

\* The octets of the messages, the separators and the words of their syntax among them.
Letters == STRING \cup {"NUL", "SOH", ",", "n", "a", "=", "user=", "auth=Bearer ", "host=", "port="}

LEMMA TextLetters == Text \subseteq Seq(Letters)
<1>1. STRING \subseteq Letters
  BY DEF Letters
<1> HIDE DEF Letters
<1> QED BY <1>1, SeqMonotonic DEF Text

LEMMA SameSplits ==
    \A b, s : /\ PlainM!Split(b, s) = Split(b, s)
              /\ XOAuth2M!Split(b, s) = Split(b, s)
              /\ OAuthBearerM!Split(b, s) = Split(b, s)
              /\ Gs2Krb5M!Split(b, s) = Split(b, s)
<1>1. \A s : /\ PlainM!Cardinality(s) = Cardinality(s)
             /\ XOAuth2M!Cardinality(s) = Cardinality(s)
             /\ OAuthBearerM!Cardinality(s) = Cardinality(s)
             /\ Gs2Krb5M!Cardinality(s) = Cardinality(s)
  BY DEF PlainM!Cardinality, XOAuth2M!Cardinality, OAuthBearerM!Cardinality,
         Gs2Krb5M!Cardinality, Cardinality
<1>2. \A b, s : /\ PlainM!Cuts(b, s) = Cuts(b, s)
                /\ XOAuth2M!Cuts(b, s) = Cuts(b, s)
                /\ OAuthBearerM!Cuts(b, s) = Cuts(b, s)
                /\ Gs2Krb5M!Cuts(b, s) = Cuts(b, s)
  BY DEF PlainM!Cuts, XOAuth2M!Cuts, OAuthBearerM!Cuts, Gs2Krb5M!Cuts, Cuts
<1>3. \A c, k : /\ PlainM!CutAt(c, k) = CutAt(c, k)
                /\ XOAuth2M!CutAt(c, k) = CutAt(c, k)
                /\ OAuthBearerM!CutAt(c, k) = CutAt(c, k)
                /\ Gs2Krb5M!CutAt(c, k) = CutAt(c, k)
  BY <1>1, Zenon DEF PlainM!CutAt, XOAuth2M!CutAt, OAuthBearerM!CutAt, Gs2Krb5M!CutAt, CutAt
<1>4. \A b, s : PlainM!Split(b, s) = Split(b, s)
  BY <1>1, <1>2, <1>3 DEF PlainM!Split, Split
<1>5. \A b, s : XOAuth2M!Split(b, s) = Split(b, s)
  BY <1>1, <1>2, <1>3 DEF XOAuth2M!Split, Split
<1>6. \A b, s : OAuthBearerM!Split(b, s) = Split(b, s)
  BY <1>1, <1>2, <1>3 DEF OAuthBearerM!Split, Split
<1>7. \A b, s : Gs2Krb5M!Split(b, s) = Split(b, s)
  BY <1>1, <1>2, <1>3 DEF Gs2Krb5M!Split, Split
<1> QED BY <1>4, <1>5, <1>6, <1>7

LEMMA PlainReads ==
    ASSUME NulProhibited, NEW c \in PlainM!PlainCreds,
           \A i \in 1..3 : Texts(c)[i] # Prohibited
    PROVE  PlainM!ReadsBack(c, PlainM!Payload(Texts(c)).bytes)
<1> DEFINE x == PlainM!Authzid(c)
           y == c.authcid
           z == c.passwd
           texts == [i \in 1..3 |-> Prep(<<x, y, z>>[i])]
<1>1. x \in Text /\ y \in Text /\ z \in Text
  <2>1. /\ c.authzid \in PlainM!Text \cup {NoAuthzid}
        /\ c.authcid \in PlainM!Text /\ c.passwd \in PlainM!Text
    BY DEF PlainM!PlainCreds
  <2>2. PlainM!Text = Text
    BY DEF PlainM!Text, Text
  <2>3. <<>> \in Text
    BY EmptySeq DEF Text
  <2> QED BY <2>1, <2>2, <2>3 DEF PlainM!Authzid
<1>2. Texts(c) = texts
  BY DEF Texts, NulProhibited
<1>3. texts[1] = Prep(x) /\ texts[2] = Prep(y) /\ texts[3] = Prep(z)
  OBVIOUS
<1>4. /\ Prep(x) \in Seq(Letters) /\ Free(Prep(x), "NUL")
      /\ Prep(y) \in Seq(Letters) /\ Free(Prep(y), "NUL")
      /\ Prep(z) \in Seq(Letters) /\ Free(Prep(z), "NUL")
  <2>1. Prep(x) # Prohibited /\ Prep(y) # Prohibited /\ Prep(z) # Prohibited
    <3>1. texts[1] # Prohibited /\ texts[2] # Prohibited /\ texts[3] # Prohibited
      BY <1>2
    <3> QED BY <1>3, <3>1
  <2> HIDE DEF x, y, z
  <2> QED BY <1>1, <2>1, TextLetters DEF NulProhibited
<1>5. "NUL" \in Letters
  BY DEF Letters
<1> DEFINE bytes == Prep(x) \o <<"NUL">> \o Prep(y) \o <<"NUL">> \o Prep(z)
<1>6. Split(bytes, "NUL") = <<Prep(x), Prep(y), Prep(z)>>
  <2> HIDE DEF Letters, x, y, z
  <2>1. Split(Threefold(Prep(x), Prep(y), Prep(z), "NUL"), "NUL") = <<Prep(x), Prep(y), Prep(z)>>
    BY <1>4, <1>5, SplitThree
  <2> QED BY <2>1, Zenon DEF Threefold
<1>7. PlainM!Payload(Texts(c)).bytes = bytes
  <2>1. \A t : PlainM!Payload(t).bytes = t[1] \o <<"NUL">> \o t[2] \o <<"NUL">> \o t[3]
    BY DEF PlainM!Payload
  <2> HIDE DEF texts, x, y, z
  <2> QED BY <1>2, <1>3, <2>1, Zenon
<1>8. texts = <<Prep(x), Prep(y), Prep(z)>>
  BY <1>3
<1>9. PlainM!Split(bytes, "NUL") = texts
  BY <1>6, <1>8, SameSplits, Zenon
<1> HIDE DEF bytes
<1> QED BY <1>7, <1>9, Zenon DEF PlainM!ReadsBack

\* What a text free of the separators of the OAuth syntaxes is free of.
LEMMA PlainlyFree ==
    ASSUME NEW text, Plainly(text)
    PROVE  Free(text, "SOH") /\ Free(text, ",")
BY DEF Plainly, Separators, Free

LEMMA XOAuth2Reads ==
    ASSUME NEW c \in XOAuth2M!XOAuth2Creds, Plainly(c.username), Plainly(c.token)
    PROVE  XOAuth2M!ReadsBack(c, XOAuth2M!Payload(c).bytes)
<1> DEFINE x == c.username
           t == c.token
           bytes == Pairs("user=", x, "auth=Bearer ", t, "SOH")
<1>1. x \in Text /\ t \in Text
  BY DEF XOAuth2M!XOAuth2Creds, XOAuth2M!Text, Text
<1>2. /\ "SOH" \in Letters /\ "user=" \in Letters /\ "auth=Bearer " \in Letters
      /\ "user=" # "SOH" /\ "auth=Bearer " # "SOH"
  BY DEF Letters
<1>3. Free(x, "SOH") /\ Free(t, "SOH")
  BY PlainlyFree
<1>4. XOAuth2M!Payload(c).bytes = bytes
  <2>1. \A d : XOAuth2M!Payload(d).bytes = <<"user=">> \o d.username \o <<"SOH", "auth=Bearer ">> \o d.token \o <<"SOH", "SOH">>
    BY DEF XOAuth2M!Payload
  <2> QED BY <2>1, Zenon DEF Pairs
<1> HIDE DEF x, t, Letters
<1>5. x \in Seq(Letters) /\ t \in Seq(Letters)
  BY <1>1, TextLetters
<1>6. Split(bytes, "SOH") = << <<"user=">> \o x, <<"auth=Bearer ">> \o t, <<>>, <<>> >>
  <2> DEFINE u == "user="
             a == "auth=Bearer "
             separator == "SOH"
  <2>1. separator \in Letters /\ u \in Letters /\ a \in Letters /\ u # separator /\ a # separator
    BY <1>2
  <2>2. Free(x, separator) /\ Free(t, separator)
    BY <1>3
  <2> HIDE DEF u, a, separator, bytes, PairsApart
  <2>3. PairsApart(u, x, a, t, separator)
    BY <1>5, <2>1, <2>2, SplitPairs
  <2> QED BY <2>3, Zenon DEF u, a, separator, bytes, PairsApart
<1> HIDE DEF bytes
<1>7. XOAuth2M!Split(bytes, "SOH") = << <<"user=">> \o x, <<"auth=Bearer ">> \o t, <<>>, <<>> >>
  BY <1>6, SameSplits, Zenon
<1> USE DEF x, t
<1> QED BY <1>4, <1>7, Zenon DEF XOAuth2M!ReadsBack

\* The pairs behind the header, once it is taken off the list.
LEMMA TailBehind ==
    ASSUME NEW p, NEW a, NEW b, NEW c, NEW d, NEW e
    PROVE  LET whole == <<p>> \o <<a, b, c, d, e>>
           IN  whole[1] = p /\ Tail(whole) = <<a, b, c, d, e>>
<1> DEFINE S == {p, a, b, c, d, e}
           five == <<a, b, c, d, e>>
           whole == <<p>> \o five
<1>1. p \in S /\ five \in Seq(S)
  OBVIOUS
<1> HIDE DEF S, five
<1>2. whole \in Seq(S) /\ Consed(whole, p, five)
  BY <1>1, ConsAt, Zenon
<1>3. Len(five) \in Nat
  BY <1>1, LenProperties
<1> HIDE DEF whole
<1>4. /\ Tail(whole) \in Seq(S) /\ Len(Tail(whole)) = Len(five)
      /\ \A i \in 1..Len(five) : Tail(whole)[i] = five[i]
  <2>1. whole # <<>>
    BY <1>2, <1>3 DEF Consed
  <2>2. /\ Tail(whole) \in Seq(S) /\ Len(Tail(whole)) = Len(whole) - 1
        /\ \A i \in 1..Len(Tail(whole)) : Tail(whole)[i] = whole[i + 1]
    BY <1>2, <2>1, HeadTailProperties
  <2> QED BY <1>2, <1>3, <2>2 DEF Consed
<1>5. Tail(whole) = five
  BY <1>1, <1>4, SeqEqual
<1>6. whole[1] = p
  BY <1>2 DEF Consed
<1> QED BY <1>5, <1>6 DEF whole, five

LEMMA OAuthBearerReads ==
    ASSUME NEW c \in OAuthBearerM!OAuthBearerCreds,
           Plainly(c.username), Plainly(c.host), Plainly(<<c.port>>), Plainly(c.token)
    PROVE  OAuthBearerM!ReadsBack(c, OAuthBearerM!Payload(c).bytes)
<1> DEFINE user == c.username
           host == c.host
           port == c.port
           token == c.token
           opening == Opening("n", ",", "a", "=", user)
           bytes == BearerMessage("n", ",", "a", "=", "host=", "port=", port, "auth=Bearer ",
                           user, host, token, "SOH")
           hh == <<"host=">> \o host
           kp == <<"port=", port>>
           at == <<"auth=Bearer ">> \o token
<1>1. user \in Text /\ host \in Text /\ port \in STRING /\ token \in Text
  BY DEF OAuthBearerM!OAuthBearerCreds, OAuthBearerM!Text, Text
<1>2. /\ "SOH" \in Letters /\ "host=" \in Letters /\ "port=" \in Letters /\ "auth=Bearer " \in Letters
      /\ "n" \in Letters /\ "," \in Letters /\ "a" \in Letters /\ "=" \in Letters /\ port \in Letters
  BY <1>1 DEF Letters
<1>3. /\ "host=" # "SOH" /\ "port=" # "SOH" /\ "auth=Bearer " # "SOH" /\ "n" # "SOH" /\ "," # "SOH"
      /\ "a" # "SOH" /\ "=" # "SOH" /\ "n" # "," /\ "a" # "," /\ "=" # ","
  OBVIOUS
<1>4. port # "SOH"
  <2>1. 1 \in DOMAIN <<c.port>> /\ <<c.port>>[1] = c.port
    OBVIOUS
  <2> QED BY <2>1 DEF Plainly, Separators
<1>5. /\ Free(user, "SOH") /\ Free(host, "SOH") /\ Free(token, "SOH") /\ Free(user, ",")
  BY PlainlyFree
<1>6. OAuthBearerM!Payload(c).bytes = bytes
  <2>1. \A d : OAuthBearerM!Payload(d).bytes
                 = <<"n", ",", "a", "=">> \o d.username \o <<",", "SOH", "host=">> \o d.host
                     \o <<"SOH", "port=", d.port, "SOH", "auth=Bearer ">> \o d.token \o <<"SOH", "SOH">>
    BY DEF OAuthBearerM!Payload
  <2> QED BY <2>1, Zenon DEF BearerMessage
<1> HIDE DEF user, host, port, token, Letters
<1>7. user \in Seq(Letters) /\ host \in Seq(Letters) /\ token \in Seq(Letters)
  BY <1>1, TextLetters
<1>8. /\ Split(bytes, "SOH") = <<opening>> \o <<hh, kp, at, <<>>, <<>> >>
      /\ Split(opening, ",") = << <<"n">>, <<"a", "=">> \o user, <<>> >>
  <2> DEFINE n == "n"
             comma == ","
             a == "a"
             equals == "="
             h == "host="
             k == "port="
             au == "auth=Bearer "
             separator == "SOH"
  <2>1. /\ separator \in Letters /\ comma \in Letters /\ n \in Letters /\ a \in Letters
        /\ equals \in Letters /\ h \in Letters /\ k \in Letters /\ au \in Letters
    BY <1>2
  <2>2. /\ comma # separator /\ n # separator /\ a # separator /\ equals # separator
        /\ h # separator /\ k # separator /\ port # separator /\ au # separator
        /\ n # comma /\ a # comma /\ equals # comma
    BY <1>3, <1>4
  <2>3. /\ Free(user, separator) /\ Free(host, separator) /\ Free(token, separator)
        /\ Free(user, comma)
    BY <1>5
  <2> HIDE DEF n, comma, a, equals, h, k, au, separator
  <2>4. BearerApart(n, comma, a, equals, h, k, port, au, user, host, token, separator)
    BY <1>2, <1>7, <2>1, <2>2, <2>3, SplitBearer
  <2>5. OpeningApart(n, comma, a, equals, user)
    BY <1>7, <2>1, <2>2, <2>3, SplitOpening
  <2> HIDE DEF bytes, opening, hh, kp, at
  <2> QED BY <2>4, <2>5, Zenon
          DEF n, comma, a, equals, h, k, au, separator, bytes, opening, hh, kp, at, BearerApart, OpeningApart
<1> HIDE DEF opening, bytes, hh, kp, at
<1> DEFINE pairs == OAuthBearerM!Split(bytes, "SOH")
<1>10. pairs[1] = opening /\ Tail(pairs) = <<hh, kp, at, <<>>, <<>> >>
  <2>1. pairs = <<opening>> \o <<hh, kp, at, <<>>, <<>> >>
    BY <1>8, SameSplits, Zenon
  <2> HIDE DEF pairs
  <2> QED BY <2>1, TailBehind
<1>11. OAuthBearerM!Split(pairs[1], ",") = << <<"n">>, <<"a", "=">> \o user, <<>> >>
  <2> HIDE DEF pairs
  <2> QED BY <1>8, <1>10, SameSplits, Zenon
<1> USE DEF user, host, port, token, hh, kp, at
<1> QED BY <1>6, <1>10, <1>11, Zenon DEF OAuthBearerM!ReadsBack

\* The GS2 header names one identity of those the peer knows: two that would read the
\* same are the same.
LEMMA IdentityNames ==
    ASSUME NEW a \in Identities, NEW n \in Identities, Identity(n) = Identity(a)
    PROVE  n = a
<1>1. <<>> \in Seq(Tokens)
  BY EmptySeq
<1> DEFINE none == <<>>
<1> HIDE DEF none
<1>2. Remainder(n, none) = Identity(n) \o Behind(none) /\ Remainder(a, none) = Identity(a) \o Behind(none)
  BY <1>1, RemainderForm DEF none
<1>3. Remainder(n, none) = Remainder(a, none)
  BY <1>2
<1> QED BY <1>1, <1>3, RemainderReadsBack DEF none

LEMMA Gs2Reads ==
    ASSUME NamesKnown, NEW s \in Sasls, s.variant = "Gs2Krb5"
    PROVE  Gs2Krb5M!ReadsBack(s.creds, Headed(s.creds.binding, s.creds.authzid, s.creds.token), Names)
<1> DEFINE b == s.creds.binding
           a == s.creds.authzid
           token == s.creds.token
           bytes == Headed(b, a, token)
           pieces == Split(bytes, ",")
           known == {n \in Names : Identity(n) = pieces[2]}
<1>1. b \in Bindings /\ a \in Text \cup {NoAuthzid} /\ token \in Text /\ a \in Names
  <2>1. s.creds \in Gs2Krb5M!Gs2Krb5Creds
    <3>1. s.creds \in CredsOf[s.variant]
      BY SaslsAssumption
    <3>2. CredsOf["Gs2Krb5"] = Gs2Krb5M!Gs2Krb5Creds
      BY DEF CredsOf
    <3> QED BY <3>1, <3>2
  <2>2. /\ b \in Gs2Krb5M!Bindings
        /\ a \in Gs2Krb5M!Text \cup {NoAuthzid} /\ token \in Gs2Krb5M!Text
    BY <2>1 DEF Gs2Krb5M!Gs2Krb5Creds
  <2>3. Gs2Krb5M!Text = Text
    BY DEF Gs2Krb5M!Text, Text
  <2> QED BY <2>2, <2>3, SameBindings DEF NamesKnown
<1>2. Text \subseteq Seq(Tokens)
  <2>1. STRING \subseteq Tokens
    BY DEF Tokens
  <2> HIDE DEF Tokens
  <2> QED BY <2>1, SeqMonotonic DEF Text
<1> HIDE DEF b, a, token
<1>3. a \in Identities /\ token \in Seq(Tokens) /\ Names \subseteq Identities
  BY <1>1, <1>2 DEF Identities, NamesKnown
<1>4. /\ pieces[1] = Flag(b)
      /\ pieces[2] = Identity(a)
      /\ SubSeq(bytes, Len(pieces[1]) + Len(pieces[2]) + 3, Len(bytes)) = token
  BY <1>1, <1>3, SplitHeader
<1> HIDE DEF pieces
<1>5. known = {a}
  BY <1>1, <1>3, <1>4, IdentityNames
<1>6. \A n : Gs2Krb5M!Escape(n) = Escape(n)
  <2>1. \A c : Gs2Krb5M!EscapeToken(c) = EscapeToken(c)
    BY DEF Gs2Krb5M!EscapeToken, EscapeToken
  <2>2. \A t : Gs2Krb5M!FlattenSeq(t) = FlattenSeq(t)
    BY DEF Gs2Krb5M!FlattenSeq, FlattenSeq
  <2> QED BY <2>1, <2>2 DEF Gs2Krb5M!Escape, Escape
<1>7. Gs2Krb5M!Flag(b) = Flag(b)
  BY DEF Gs2Krb5M!Flag, Flag, Gs2Krb5M!IsBound, IsBound, Gs2Krb5M!KindName, KindName
<1>8. Gs2Krb5M!Split(bytes, ",") = pieces
  BY SameSplits, Zenon DEF pieces
<1>9. \A n : Identity(n) = IF n = NoAuthzid THEN <<>> ELSE <<"a", "=">> \o Gs2Krb5M!Escape(n)
  BY <1>6, Zenon DEF Identity
<1> DEFINE read == {n \in Names : (IF n = NoAuthzid THEN <<>> ELSE <<"a", "=">> \o Gs2Krb5M!Escape(n))
                                    = pieces[2]}
<1>10. read = {a}
  BY <1>5, <1>9, Zenon
<1> HIDE DEF bytes, known, read
<1>11. /\ pieces[1] = Gs2Krb5M!Flag(b) /\ read = {a}
       /\ SubSeq(bytes, Len(pieces[1]) + Len(pieces[2]) + 3, Len(bytes)) = token
  BY <1>4, <1>7, <1>10
<1> USE DEF b, a, token, read
<1> QED BY <1>8, <1>11, Zenon DEF Gs2Krb5M!ReadsBack, bytes

\* What CredentialsReadBack says of one message, written in answer to arg.
ReadAt(c, arg, payload) ==
    CASE payload.kind = "plain" -> PlainM!ReadsBack(c, payload.bytes)
      [] payload.kind = "username" -> payload.bytes = c.username
      [] payload.kind = "password" -> payload.bytes = c.password
      [] payload.kind = "authzid" ->
            payload.bytes = IF c.authzid = NoAuthzid THEN <<>> ELSE c.authzid
      [] payload.kind = "trace" ->
            payload.bytes = IF c.message = NoMessage THEN <<>> ELSE c.message
      [] payload.kind = "digest" ->
            /\ payload.username = c.username
            /\ payload.digest = CramMd5M!Digest(c.secret, arg.bytes)
      [] payload.kind = "xoauth2" ->
            Plainly(c.username) /\ Plainly(c.token) => XOAuth2M!ReadsBack(c, payload.bytes)
      [] payload.kind = "oauthbearer" ->
            Plainly(c.username) /\ Plainly(c.host) /\ Plainly(<<c.port>>) /\ Plainly(c.token)
               => OAuthBearerM!ReadsBack(c, payload.bytes)
      [] payload.kind = "first token" -> payload.bytes = c.token
      [] payload.kind = "gs2 token" -> Gs2Krb5M!ReadsBack(c, payload.bytes, Names)
      [] OTHER -> TRUE

\* The texts of a PLAIN message are ones that preparation takes.
Prepared(s) == \A i \in 1..3 : Texts(s.creds)[i] # Prohibited

LEMMA MessageRead ==
    ASSUME NulProhibited, NamesKnown, NEW s \in Sasls, NEW i \in Nat, NEW arg, Due(s, i, arg),
           s.variant = "Plain" => Prepared(s)
    PROVE  ReadAt(s.creds, arg, Message(s, i, arg))
<1> DEFINE c == s.creds
           m == Message(s, i, arg)
<1>0. c \in CredsOf[s.variant]
  BY SaslsAssumption
<1>1. CASE s.variant = "Plain"
  <2>1. i = 1
    BY <1>1 DEF Due, OAuths, Relays
  <2>2. m = PlainM!Payload(Texts(c))
    BY <1>1, <2>1 DEF Message, First
  <2>3. m.kind = "plain"
    BY <2>2 DEF PlainM!Payload
  <2>4. c \in PlainM!PlainCreds
    <3>1. CredsOf["Plain"] = PlainM!PlainCreds
      BY DEF CredsOf
    <3> QED BY <1>0, <1>1, <3>1
  <2>5. PlainM!ReadsBack(c, PlainM!Payload(Texts(c)).bytes)
    BY <1>1, <2>4, PlainReads DEF Prepared
  <2> HIDE DEF m, c
  <2>6. PlainM!ReadsBack(c, m.bytes)
    BY <2>2, <2>5
  <2>7. ReadAt(c, arg, m)
    BY <2>3, <2>6 DEF ReadAt
  <2> QED BY <2>7 DEF m, c
<1>2. CASE s.variant = "Login"
  <2>1. i = 1 \/ i = 2
    BY <1>2 DEF Due, OAuths, Relays
  <2>2. CASE i = 1
    <3>1. m = [kind |-> "username", bytes |-> c.username]
      BY <1>2, <2>2 DEF Message, First
    <3>2. m.kind = "username" /\ m.bytes = c.username
      BY <3>1
    <3> HIDE DEF m, c
    <3>3. ReadAt(c, arg, m)
      BY <3>2 DEF ReadAt
    <3> QED BY <3>3 DEF m, c
  <2>3. CASE i = 2
    <3>1. m = [kind |-> "password", bytes |-> c.password]
      BY <1>2, <2>3 DEF Message
    <3>2. m.kind = "password" /\ m.bytes = c.password
      BY <3>1
    <3> HIDE DEF m, c
    <3>3. ReadAt(c, arg, m)
      BY <3>2 DEF ReadAt
    <3> QED BY <3>3 DEF m, c
  <2> QED BY <2>1, <2>2, <2>3
<1>3. CASE s.variant = "External"
  <2>1. i = 1
    BY <1>3 DEF Due, OAuths, Relays
  <2>2. m = [kind |-> "authzid", bytes |-> IF c.authzid = NoAuthzid THEN <<>> ELSE c.authzid]
    BY <1>3, <2>1 DEF Message, First
  <2>3. m.kind = "authzid" /\ m.bytes = IF c.authzid = NoAuthzid THEN <<>> ELSE c.authzid
    BY <2>2
  <2> HIDE DEF m, c
  <2>4. ReadAt(c, arg, m)
    BY <2>3 DEF ReadAt
  <2> QED BY <2>4 DEF m, c
<1>4. CASE s.variant = "Anonymous"
  <2>1. i = 1
    BY <1>4 DEF Due, OAuths, Relays
  <2>2. m = [kind |-> "trace", bytes |-> IF c.message = NoMessage THEN <<>> ELSE c.message]
    BY <1>4, <2>1 DEF Message, First
  <2>3. m.kind = "trace" /\ m.bytes = IF c.message = NoMessage THEN <<>> ELSE c.message
    BY <2>2
  <2> HIDE DEF m, c
  <2>4. ReadAt(c, arg, m)
    BY <2>3 DEF ReadAt
  <2> QED BY <2>4 DEF m, c
<1>5. CASE s.variant = "CramMd5"
  <2>1. i = 1
    BY <1>5 DEF Due, OAuths, Relays
  <2>2. m = [kind |-> "digest", username |-> c.username,
             digest |-> CramMd5M!Digest(c.secret, arg.bytes)]
    BY <1>5, <2>1 DEF Message, First
  <2>3. /\ m.kind = "digest" /\ m.username = c.username
        /\ m.digest = CramMd5M!Digest(c.secret, arg.bytes)
    BY <2>2
  <2> HIDE DEF m, c
  <2>4. ReadAt(c, arg, m)
    BY <2>3 DEF ReadAt
  <2> QED BY <2>4 DEF m, c
<1>6. CASE s.variant = "Xoauth2"
  <2>1. i = 1 \/ i = 2
    BY <1>6 DEF Due, OAuths, Relays
  <2>2. CASE i = 1
    <3>1. m = XOAuth2M!Payload(c)
      BY <1>6, <2>2 DEF Message, First
    <3>2. m.kind = "xoauth2"
      <4>1. XOAuth2M!Payload(c).kind = "xoauth2"
        BY Zenon DEF XOAuth2M!Payload
      <4> HIDE DEF m, c
      <4> QED BY <3>1, <4>1, Zenon
    <3>3. c \in XOAuth2M!XOAuth2Creds
      <4>1. CredsOf["Xoauth2"] = XOAuth2M!XOAuth2Creds
        BY DEF CredsOf
      <4> QED BY <1>0, <1>6, <4>1
    <3>4. Plainly(c.username) /\ Plainly(c.token)
            => XOAuth2M!ReadsBack(c, XOAuth2M!Payload(c).bytes)
      BY <3>3, XOAuth2Reads
    <3> HIDE DEF m, c
    <3>5. Plainly(c.username) /\ Plainly(c.token) => XOAuth2M!ReadsBack(c, m.bytes)
      BY <3>1, <3>4
    <3>6. ReadAt(c, arg, m)
      BY <3>2, <3>5 DEF ReadAt
    <3> QED BY <3>6 DEF m, c
  <2>3. CASE i = 2
    <3>1. m.kind = "empty"
      BY <1>6, <2>3 DEF Message, EmptyPayload
    <3> HIDE DEF m, c
    <3>2. ReadAt(c, arg, m)
      BY <3>1 DEF ReadAt
    <3> QED BY <3>2 DEF m, c
  <2> QED BY <2>1, <2>2, <2>3
<1>7. CASE s.variant = "Oauthbearer"
  <2>1. i = 1 \/ i = 2
    BY <1>7 DEF Due, OAuths, Relays
  <2>2. CASE i = 1
    <3>1. m = OAuthBearerM!Payload(c)
      BY <1>7, <2>2 DEF Message, First
    <3>2. m.kind = "oauthbearer"
      <4>1. OAuthBearerM!Payload(c).kind = "oauthbearer"
        BY Zenon DEF OAuthBearerM!Payload
      <4> HIDE DEF m, c
      <4> QED BY <3>1, <4>1, Zenon
    <3>3. c \in OAuthBearerM!OAuthBearerCreds
      <4>1. CredsOf["Oauthbearer"] = OAuthBearerM!OAuthBearerCreds
        BY DEF CredsOf
      <4> QED BY <1>0, <1>7, <4>1
    <3>4. Plainly(c.username) /\ Plainly(c.host) /\ Plainly(<<c.port>>) /\ Plainly(c.token)
            => OAuthBearerM!ReadsBack(c, OAuthBearerM!Payload(c).bytes)
      BY <3>3, OAuthBearerReads
    <3> HIDE DEF m, c
    <3>5. Plainly(c.username) /\ Plainly(c.host) /\ Plainly(<<c.port>>) /\ Plainly(c.token)
            => OAuthBearerM!ReadsBack(c, m.bytes)
      BY <3>1, <3>4
    <3>6. ReadAt(c, arg, m)
      BY <3>2, <3>5 DEF ReadAt
    <3> QED BY <3>6 DEF m, c
  <2>3. CASE i = 2
    <3>1. m.kind = "0x01"
      BY <1>7, <2>3 DEF Message
    <3> HIDE DEF m, c
    <3>2. ReadAt(c, arg, m)
      BY <3>1 DEF ReadAt
    <3> QED BY <3>2 DEF m, c
  <2> QED BY <2>1, <2>2, <2>3
<1>8. CASE s.variant \in Relays /\ i # 1
  <2>1. m.kind = "relayed"
    BY <1>8 DEF Message, Relays, Relayed
  <2> HIDE DEF m, c
  <2>2. ReadAt(c, arg, m)
    BY <2>1 DEF ReadAt
  <2> QED BY <2>2 DEF m, c
<1>9. CASE s.variant = "Gssapi" /\ i = 1
  <2>1. m = [kind |-> "first token", bytes |-> c.token]
    BY <1>9 DEF Message, First
  <2> HIDE DEF m, c
  <2>2. m.kind = "first token" /\ m.bytes = c.token
    BY <2>1, Zenon
  <2>3. ReadAt(c, arg, m)
    BY <2>2 DEF ReadAt
  <2> QED BY <2>3 DEF m, c
<1>10. CASE s.variant = "Gs2Krb5" /\ i = 1
  <2>1. m = [kind |-> "gs2 token", bytes |-> Headed(c.binding, c.authzid, c.token)]
    BY <1>10 DEF Message, First
  <2>3. Gs2Krb5M!ReadsBack(c, Headed(c.binding, c.authzid, c.token), Names)
    BY <1>10, Gs2Reads
  <2> HIDE DEF m, c
  <2>2. m.kind = "gs2 token" /\ m.bytes = Headed(c.binding, c.authzid, c.token)
    BY <2>1, Zenon
  <2>4. Gs2Krb5M!ReadsBack(c, m.bytes, Names)
    BY <2>2, <2>3
  <2>5. ReadAt(c, arg, m)
    BY <2>2, <2>4 DEF ReadAt
  <2> QED BY <2>5 DEF m, c
<1> QED BY <1>1, <1>2, <1>3, <1>4, <1>5, <1>6, <1>7, <1>8, <1>9, <1>10, Variants DEF Relays

\* Nothing goes out of PLAIN but texts that preparation took.
PreparedWhenSent == Is("Plain") /\ transcript # <<>> => Prepared(sasl)

LEMMA OnlyPrepared == IInv /\ PreparedWhenSent /\ [Next]_vars => PreparedWhenSent'
<1> SUFFICES ASSUME IInv, PreparedWhenSent, [Next]_vars, Is("Plain")', transcript' # <<>>
             PROVE  Prepared(sasl)'
  BY DEF PreparedWhenSent
<1>1. UNCHANGED sasl
  BY DEF vars, Next
<1>2. Is("Plain") /\ sasl.variant = "Plain"
  BY <1>1 DEF Is
<1>3. CASE transcript' = transcript
  BY <1>1, <1>2, <1>3 DEF PreparedWhenSent, Prepared, Texts, PlainM!Authzid
<1>4. CASE transcript' # transcript
  <2>1. PICK arg \in Args : Resume(arg)
    BY <1>4 DEF vars, Next
  <2>2. PlainM!Resume(arg)
    BY <1>2, <2>1 DEF Resume, Is
  <2>3. PlainM!SendCreds(arg)
    BY <1>4, <2>2 DEF PlainM!Resume, PlainM!Accept, PlainM!Refuse, PlainM!Return, PlainM!RefuseCredentials
  <2>4. state = "SendCreds" /\ PlainM!Preparable
    BY <2>3 DEF PlainM!SendCreds
  <2>5. creds = sasl.creds
    BY <1>2, <2>4, Turns DEF IInv, Position, Due, After, OAuths, Relays
  <2>6. PlainM!Outgoing = Texts(sasl.creds)
    BY <2>5 DEF PlainM!Outgoing, Texts
  <2>7. Prepared(sasl)
    BY <2>4, <2>6 DEF PlainM!Preparable, Prepared
  <2> QED BY <1>1, <2>7 DEF Prepared, Texts, PlainM!Authzid
<1> QED BY <1>3, <1>4

\* A peer that reads the messages by their separators finds the credentials the coroutine
\* was built with, whatever is in them and whatever the driver does.
THEOREM CredentialsRead ==
    ASSUME NulProhibited, NamesKnown
    PROVE  Spec => []CredentialsReadBack
<1>1. Init => PreparedWhenSent
  BY DEF Init, Fresh, PreparedWhenSent
<1>2. IInv /\ PreparedWhenSent => CredentialsReadBack
  <2> SUFFICES ASSUME IInv, PreparedWhenSent, NEW i \in DOMAIN transcript
               PROVE  ReadAt(sasl.creds, transcript[i].arg, transcript[i].reply.payload)
    BY Zenon DEF CredentialsReadBack, ReadAt
  <2>1. sasl \in Sasls
    BY DEF IInv
  <2>2. sasl.variant = "Plain" => Prepared(sasl)
    BY DEF PreparedWhenSent, Is
  <2> QED BY <2>1, <2>2, LabelAt, MessageRead
<1> QED BY <1>1, <1>2, Invariance, OnlyPrepared, PTL DEF Spec
====
