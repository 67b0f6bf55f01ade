---- MODULE SessionProofs ----
(***************************************************************************)
(* Theorems about Session, for every Sasl value, every account, and        *)
(* whatever the wire and the driver's patience do.                         *)
(*                                                                         *)
(* The invariant says what is on the wire in terms of the transcript (a    *)
(* message to the server is the last one the mechanism wrote), what the    *)
(* server can be asking for, and, as long as the wire keeps its word, that *)
(* the question is the one which the next message of the mechanism         *)
(* answers.                                                                *)
(***************************************************************************)
EXTENDS Session, MechanismsProofs

\* The message that the mechanism wrote last.
Said == transcript[Len(transcript)].reply.payload

Challenges == {Challenge(bytes) : bytes \in Inputs}
Inbound == {Quiet, Success, Refusal} \cup Challenges

Setting == /\ IInv /\ PreparedWhenSent
           /\ setup.account \in Accounts
           /\ seen \in SUBSET Challenges

Beginning == last.reply = NoReply => /\ transcript = <<>> /\ held = {} /\ wire = Quiet
                                     /\ server = Idle /\ outcome = "running"

Over == outcome # "running" => wire = Quiet

HeldBack == held = {} \/ (Len(transcript) = 1 /\ held = {Said})

Travelling ==
    \/ wire \in Inbound
    \/ transcript # <<>> /\ wire = Response(Said) /\ held = {}
    \/ /\ Len(transcript) = 1 /\ wire = Command({Said}) /\ held = {}
       /\ server = Idle /\ ~Is("CramMd5")
    \/ /\ wire = Command({}) /\ server = Idle
       /\ IF Is("CramMd5") THEN transcript = <<>> /\ held = {}
          ELSE Len(transcript) = 1 /\ held = {Said}

\* A username that is not the one of the credentials was the password, after which LOGIN
\* has nothing left to say.
AwaitsPassword ==
    /\ server.state = "open" /\ server.wants = "password" /\ Is("Login")
    /\ held = {} /\ transcript # <<>>
    /\ server.username = sasl.creds.username \/ Len(transcript) = 2
    /\ wire.to = "server" => server.username = sasl.creds.username /\ Len(transcript) = 2

Serving ==
    \/ server.state \in {"idle", "denied", "accepted"}
    \/ server.state = "rejected" /\ server.wants = "acknowledgement" /\ sasl.variant \in OAuths
    \/ server.state = "open" /\ server.wants = Reads
    \/ AwaitsPassword

\* Which message of the mechanism answers which question.
Turn == [username |-> 1, password |-> 2, digest |-> 1, credentials |-> 1, acknowledgement |-> 2]

Asking(n) == server.state \in {"open", "rejected"} /\ Turn[server.wants] = n

InStep ==
    clean => /\ OnWire("success") => server.state = "accepted"
             /\ OnWire("challenge") => Asking(Len(transcript) + (IF held = {} THEN 1 ELSE 0))
             /\ Arrived("response") => Asking(Len(transcript))

\* What becomes of a token that is turned down.
TurnedDown ==
    clean /\ server.state = "rejected" =>
       \/ wire = Challenge(ErrorJson)
       \/ /\ Len(transcript) = 2 /\ transcript[2].arg = Input(ErrorJson)
          /\ \/ Arrived("response") \/ OnWire("refusal")
             \/ wire = Quiet /\ last.reply = Rejection(2)

Authenticated ==
    outcome = "authenticated" => /\ last.reply.kind = "Ok"
                                 /\ clean => server.state = "accepted"

SInv == /\ Setting /\ Beginning /\ Over /\ HeldBack /\ Travelling /\ Serving
        /\ InStep /\ TurnedDown /\ Authenticated
----
(***************************************************************************)
(* What the parts of the invariant say.                                    *)
(***************************************************************************)
LEMMA Envelopes ==
    /\ Quiet.to = "nobody"
    /\ Success.to = "driver" /\ Success.kind = "success"
    /\ Refusal.to = "driver" /\ Refusal.kind = "refusal"
    /\ \A i : Command(i).to = "server" /\ Command(i).kind = "command" /\ Command(i).initial = i
    /\ \A p : Response(p).to = "server" /\ Response(p).kind = "response" /\ Response(p).payload = p
    /\ \A b : Challenge(b).to = "driver" /\ Challenge(b).kind = "challenge" /\ Challenge(b).bytes = b
BY DEF Quiet, Success, Refusal, Command, Response, Challenge

\* What arrived, by whom it is for and what kind it is of.
LEMMA Travels ==
    ASSUME Travelling
    PROVE  /\ OnWire("challenge") => wire.bytes \in Inputs /\ wire = Challenge(wire.bytes)
           /\ Arrived("response") => transcript # <<>> /\ wire.payload = Said /\ held = {}
           /\ Arrived("command") =>
                /\ server = Idle
                /\ \/ /\ wire.initial = {Said} /\ Len(transcript) = 1 /\ held = {}
                      /\ ~Is("CramMd5")
                   \/ /\ wire.initial = {}
                      /\ IF Is("CramMd5") THEN transcript = <<>> /\ held = {}
                         ELSE Len(transcript) = 1 /\ held = {Said}
           /\ wire.to \in {"nobody", "driver", "server"}
           /\ wire.to = "server" => Arrived("response") \/ Arrived("command")
           /\ wire = Quiet => wire.to = "nobody"
<1>1. CASE wire \in {Quiet, Success, Refusal}
  BY <1>1, Envelopes DEF OnWire, Arrived
<1>2. CASE wire \in Challenges
  <2>1. PICK bytes \in Inputs : wire = Challenge(bytes)
    BY <1>2 DEF Challenges
  <2> QED BY <2>1, Envelopes DEF OnWire, Arrived
<1>3. CASE wire = Response(Said) /\ transcript # <<>> /\ held = {}
  BY <1>3, Envelopes DEF OnWire, Arrived
<1>4. CASE /\ wire = Command({Said}) /\ Len(transcript) = 1 /\ held = {}
           /\ server = Idle /\ ~Is("CramMd5")
  BY <1>4, Envelopes DEF OnWire, Arrived
<1>5. CASE /\ wire = Command({}) /\ server = Idle
           /\ IF Is("CramMd5") THEN transcript = <<>> /\ held = {}
              ELSE Len(transcript) = 1 /\ held = {Said}
  BY <1>5, Envelopes DEF OnWire, Arrived
<1> QED BY <1>1, <1>2, <1>3, <1>4, <1>5 DEF Travelling, Inbound

\* What a server that knows the name of the mechanism alone can tell of it.
LEMMA Framing ==
    ASSUME sasl \in Sasls
    PROVE  /\ sasl.variant \notin Relays
           /\ Is("Login") => Reads = "username" /\ Name = "LOGIN"
           /\ Is("CramMd5") => Reads = "digest" /\ Name = "CRAM-MD5"
           /\ ~Is("Login") /\ ~Is("CramMd5") => Reads = "credentials"
           /\ Is("Plain") => Name = "PLAIN"
           /\ Is("External") => Name = "EXTERNAL"
           /\ Is("Anonymous") => Name = "ANONYMOUS"
           /\ Is("Xoauth2") => Name = "XOAUTH2"
           /\ Is("Oauthbearer") => Name = "OAUTHBEARER"
           /\ Name \in {"XOAUTH2", "OAUTHBEARER"} => sasl.variant \in OAuths
<1>1. sasl.variant \notin Relays
  BY SessionAssumption
<1>2. CASE Is("Xoauth2")
  <2>1. mechanism(sasl) = "XOAuth2"
    BY <1>2 DEF mechanism, PlusTag, Spelled, Is
  <2>2. Name = "XOAUTH2"
    BY <2>1 DEF Name, as_str
  <2> QED BY <1>1, <1>2, <2>2 DEF Is, Reads, OAuths
<1>3. CASE Is("Oauthbearer")
  <2>1. mechanism(sasl) = "OAuthBearer"
    BY <1>3 DEF mechanism, PlusTag, Spelled, Is
  <2>2. Name = "OAUTHBEARER"
    BY <2>1 DEF Name, as_str
  <2> QED BY <1>1, <1>3, <2>2 DEF Is, Reads, OAuths
<1>4. CASE ~Is("Xoauth2") /\ ~Is("Oauthbearer")
  <2>1. \/ Is("Plain") \/ Is("Login") \/ Is("External") \/ Is("Anonymous") \/ Is("CramMd5")
    BY <1>1, <1>4, Variants DEF Is, Relays
  <2>2. mechanism(sasl) = sasl.variant
    BY <2>1 DEF mechanism, PlusTag, Spelled, Is
  <2>3. Name = as_str[sasl.variant]
    BY <2>2 DEF Name
  <2> QED BY <1>1, <2>1, <2>3 DEF Is, Reads, as_str
<1> QED BY <1>2, <1>3, <1>4

\* Which message of which mechanism is the i-th, if it has one.
LEMMA Few ==
    ASSUME sasl \in Sasls, NEW i \in Nat \ {0}, NEW arg, Due(sasl, i, arg)
    PROVE  /\ i \in {1, 2} /\ arg # PeerDone
           /\ Is("CramMd5") => i = 1 /\ arg # NoArg
           /\ i = 2 => Is("Login") \/ (sasl.variant \in OAuths /\ arg.kind = "Input")
<1>1. sasl.variant \notin Relays
  BY Framing
<1>2. arg # PeerDone
  BY DueNotAtEnd
<1>3. CASE sasl.variant \in OAuths
  BY <1>1, <1>2, <1>3 DEF Due, Is, OAuths
<1>4. CASE Is("CramMd5")
  BY <1>1, <1>2, <1>4 DEF Due, Is, OAuths, NoArg
<1>5. CASE Is("Login")
  BY <1>1, <1>2, <1>5 DEF Due, Is, OAuths
<1>6. CASE sasl.variant \notin OAuths /\ ~Is("CramMd5") /\ ~Is("Login")
  BY <1>1, <1>2, <1>6 DEF Due, Is
<1> QED BY <1>3, <1>4, <1>5, <1>6

\* The message written last is the one that is due there.
LEMMA SaidLast ==
    ASSUME IInv, transcript # <<>>
    PROVE  /\ Len(transcript) \in {1, 2}
           /\ Len(transcript) = 2 => Is("Login") \/ sasl.variant \in OAuths
           /\ \E arg \in Args : /\ Due(sasl, Len(transcript), arg)
                                /\ Said = Message(sasl, Len(transcript), arg)
<1> DEFINE n == Len(transcript)
<1>1. n \in DOMAIN transcript /\ n \in Nat \ {0}
  BY Turns, LenProperties DEF IInv
<1>2. /\ transcript[n].arg \in Args /\ Due(sasl, n, transcript[n].arg)
      /\ Said = Message(sasl, n, transcript[n].arg)
  BY <1>1, LabelAt DEF Said
<1>3. sasl \in Sasls
  BY DEF IInv
<1> HIDE DEF n
<1> QED BY <1>1, <1>2, <1>3, Few DEF n
----
(***************************************************************************)
(* What a resume comes to.                                                 *)
(***************************************************************************)
Ended(arg) == arg = PeerDone /\ transcript' = transcript /\ last'.reply = End

Stopped(arg) == arg # PeerDone /\ transcript' = transcript /\ last'.reply.kind = "Err"

Paused(arg) == /\ arg # PeerDone /\ Is("CramMd5")
               /\ transcript = <<>> /\ transcript' = <<>>
               /\ last'.reply.kind = "WantsRead"

Wrote(arg) == /\ Due(sasl, Len(transcript) + 1, arg)
              /\ Len(transcript') = Len(transcript) + 1 /\ transcript' # <<>>
              /\ transcript'[Len(transcript')].arg = arg
              /\ last'.reply.kind = "WantsWrite"
              /\ last'.reply.payload = Said'

LEMMA Fed ==
    ASSUME Setting, NEW arg \in Args, Feed(arg)
    PROVE  /\ Setting' /\ sasl' = sasl /\ sasl \in Sasls
           /\ Ended(arg) \/ Stopped(arg) \/ Paused(arg) \/ Wrote(arg)
<1>1. /\ sasl' = sasl /\ setup' = setup /\ seen' = seen /\ Resume(arg)
      /\ IInv /\ PreparedWhenSent /\ sasl \in Sasls
  BY DEF Feed, Setting, IInv
<1>2. Outcome(arg)
  BY <1>1, Outcomes
<1>3. Len(transcript) \in Nat /\ Len(transcript) <= MaxWrites
  BY <1>1, Turns DEF IInv
<1>4. ASSUME Ends(arg) PROVE Ended(arg)
  <2>1. transcript' = transcript /\ last' = [arg |-> arg, reply |-> End] /\ arg = PeerDone
    BY <1>4 DEF Ends, Return
  <2> QED BY <2>1 DEF Ended
<1>5. ASSUME Refuses(arg) PROVE Stopped(arg)
  <2>1. PICK error \in ErrorsOf[sasl.variant] : Refuse(arg, error)
    BY <1>5 DEF Refuses
  <2>2. transcript' = transcript /\ last' = [arg |-> arg, reply |-> [kind |-> "Err", error |-> error]]
    BY <2>1 DEF Refuse, Return, CompleteErr
  <2> QED BY <1>5, <2>2 DEF Stopped, Refuses
<1>6. ASSUME Awaits(arg) PROVE Paused(arg)
  <2>1. /\ transcript' = transcript /\ transcript = <<>> /\ Is("CramMd5") /\ arg # PeerDone
        /\ last' = [arg |-> arg, reply |-> [kind |-> "WantsRead"]]
    BY <1>6 DEF Awaits, Return, WantsRead
  <2> QED BY <2>1 DEF Paused
<1>7. ASSUME Writes(arg) PROVE Wrote(arg) /\ Len(transcript') <= MaxWrites
  <2> DEFINE n == Len(transcript) + 1
             step == Step(sasl, n, arg)
  <2>1. Due(sasl, n, arg) /\ transcript' = Append(transcript, step) /\ last' = step
    BY <1>7 DEF Writes, Write, Step
  <2>2. step.arg = arg /\ step.reply.kind = "WantsWrite" /\ step \in Steps /\ n \in Nat \ {0}
    BY <1>1, <1>3 DEF Step, WantsWrite, Steps
  <2>3. transcript \in Seq(Steps)
    BY <1>1 DEF IInv
  <2> HIDE DEF step
  <2>4. transcript' \in Seq(Steps) /\ Len(transcript') = n /\ transcript'[n] = step
    BY <2>1, <2>2, <2>3, AppendProperties, LenProperties
  <2>5. transcript' # <<>>
    BY <2>2, <2>4, EmptySeq
  <2>6. Wrote(arg)
    <3>1. Said' = step.reply.payload
      BY <2>4 DEF Said
    <3> QED BY <2>1, <2>2, <2>4, <2>5, <3>1 DEF Wrote
  <2>7. n \in {1, 2}
    BY <1>1, <2>1, <2>2, Few
  <2>8. Len(transcript') <= MaxWrites
    BY <2>4, <2>7, SessionAssumption, BoundAssumption
  <2> QED BY <2>6, <2>8
<1>8. Len(transcript') <= MaxWrites /\ (Ended(arg) \/ Stopped(arg) \/ Paused(arg) \/ Wrote(arg))
  <2>1. Ended(arg) \/ Stopped(arg) \/ Paused(arg) => Len(transcript') <= MaxWrites
    BY <1>3 DEF Ended, Stopped, Paused
  <2> QED BY <1>2, <1>4, <1>5, <1>6, <1>7, <2>1 DEF Outcome
<1>9. Next
  BY <1>1, <1>8 DEF Next
<1>10. IInv' /\ PreparedWhenSent'
  BY <1>1, <1>9, Stepwise, OnlyPrepared
<1>11. Challenges' = Challenges
  BY DEF Challenges
<1>12. Setting'
  BY <1>1, <1>10, <1>11 DEF Setting
<1> QED BY <1>1, <1>8, <1>12

\* A mechanism that spent its token acknowledges whatever challenge comes next.
LEMMA Acknowledges ==
    ASSUME Setting, sasl.variant \in OAuths, Len(transcript) = 1,
           NEW arg \in Args, arg.kind = "Input", Feed(arg)
    PROVE  Wrote(arg)
<1>1. state = <<"Done">>
  <2>1. transcript # <<>>
    BY Turns DEF Setting
  <2> QED BY <2>1 DEF Setting, IInv, Position, After, Sent, OAuths, Relays
<1>2. Ended(arg) \/ Stopped(arg) \/ Paused(arg) \/ Wrote(arg)
  BY Fed
<1>3. arg # PeerDone /\ <<"Done">> # <<"SendToken">>
  BY DEF PeerDone
<1>4. Len(transcript) \in Nat /\ transcript \in Seq(Steps)
  BY DEF Setting, IInv
<1>5. Resume(arg)
  BY DEF Feed
<1>6. \A step : Append(transcript, step) # transcript
  <2> SUFFICES ASSUME NEW step PROVE Len(Append(transcript, step)) # Len(transcript)
    OBVIOUS
  <2> DEFINE S == Steps \cup {step}
  <2>1. step \in S /\ Steps \subseteq S
    OBVIOUS
  <2> HIDE DEF S
  <2>2. transcript \in Seq(S)
    BY <1>4, <2>1, SeqMonotonic
  <2>3. Len(Append(transcript, step)) = Len(transcript) + 1
    BY <2>1, <2>2, AppendProperties
  <2> QED BY <1>4, <2>3
<1>7. ASSUME sasl.variant = "Xoauth2" PROVE transcript' # transcript
  <2>1. XOAuth2M!Resume(arg)
    BY <1>5, <1>7 DEF Resume, Is
  <2>2. arg # XOAuth2M!PeerDone /\ arg # XOAuth2M!NoArg
    BY DEF XOAuth2M!PeerDone, XOAuth2M!NoArg
  <2>3. XOAuth2M!AcknowledgeRejection(arg)
    BY <1>1, <1>3, <2>1, <2>2
    DEF XOAuth2M!Resume, XOAuth2M!SendToken, XOAuth2M!ReportRejection, XOAuth2M!Finish,
        XOAuth2M!RefuseUnexpected, XOAuth2M!Expected
  <2>4. \E step : transcript' = Append(transcript, step)
    BY <2>3 DEF XOAuth2M!AcknowledgeRejection, XOAuth2M!Write
  <2> QED BY <1>6, <2>4
<1>8. ASSUME sasl.variant = "Oauthbearer" PROVE transcript' # transcript
  <2>1. OAuthBearerM!Resume(arg)
    BY <1>5, <1>8 DEF Resume, Is
  <2>2. arg # OAuthBearerM!PeerDone /\ arg # OAuthBearerM!NoArg
    BY DEF OAuthBearerM!PeerDone, OAuthBearerM!NoArg
  <2>3. OAuthBearerM!AcknowledgeRejection(arg)
    BY <1>1, <1>3, <2>1, <2>2
    DEF OAuthBearerM!Resume, OAuthBearerM!SendToken, OAuthBearerM!ReportRejection, OAuthBearerM!Finish,
        OAuthBearerM!RefuseUnexpected, OAuthBearerM!Expected
  <2>4. \E step : transcript' = Append(transcript, step)
    BY <2>3 DEF OAuthBearerM!AcknowledgeRejection, OAuthBearerM!Write
  <2> QED BY <1>6, <2>4
<1>9. transcript' # transcript
  BY <1>7, <1>8 DEF OAuths
<1>10. ~Paused(arg)
  BY DEF Paused, Is, OAuths
<1> QED BY <1>2, <1>9, <1>10 DEF Ended, Stopped

\* The mechanism, and what the server was told about it, stay as they are while a message
\* travels.
LEMMA Untouched ==
    ASSUME Setting, UNCHANGED <<vars, setup>>, seen' \in SUBSET Challenges
    PROVE  /\ Setting' /\ Said' = Said /\ Reads' = Reads
           /\ UNCHANGED <<sasl, last, transcript>>
<1>1. IInv' /\ PreparedWhenSent'
  BY Stepwise, OnlyPrepared DEF Setting
<1>2. Challenges' = Challenges
  BY DEF Challenges
<1>3. UNCHANGED <<sasl, last, transcript, setup>>
  BY DEF vars
<1> QED BY <1>1, <1>2, <1>3 DEF Setting, Said, Reads, Name
----
(***************************************************************************)
(* The steps of the driver.                                                *)
(***************************************************************************)
\* A mechanism that was resumed has replied.
LEMMA Replied ==
    /\ NoReply.kind = "fresh"
    /\ End.kind \in {"Ok", "Err"}
    /\ End.kind = "Ok" <=> ~Refused
    /\ Refused => End = Rejection(2)
BY DEF NoReply, End, Rejection, CompleteErr, CompleteOk

LEMMA UpToTwo ==
    ASSUME NEW n \in Nat
    PROVE  /\ n = 1 <=> n + 1 = 2
           /\ n # 0 /\ n + 1 \in {1, 2} => n = 1
OBVIOUS

LEMMA BeginKeeps ==
    ASSUME SInv, Begin
    PROVE  SInv'
<1>1. /\ transcript = <<>> /\ held = {} /\ server' = Idle /\ Feed(NoArg) /\ Conclude
      /\ Setting /\ NoArg \in Args /\ NoArg # PeerDone
  BY DEF Begin, Feed, SInv, Beginning, Args, NoArg, PeerDone
<1>2. /\ Setting' /\ sasl' = sasl /\ sasl \in Sasls
      /\ Stopped(NoArg) \/ Paused(NoArg) \/ Wrote(NoArg)
  BY <1>1, Fed DEF Ended
<1>3. server'.state = "idle"
  BY <1>1 DEF Idle
<1>4. CASE Stopped(NoArg)
  <2>1. /\ last'.reply.kind = "Err" /\ outcome' = "failed" /\ wire' = Quiet /\ held' = {}
    BY <1>1, <1>4 DEF Begin, Conclude, Stopped
  <2>2. Beginning' /\ Over' /\ HeldBack' /\ Travelling' /\ Serving' /\ TurnedDown' /\ Authenticated'
    BY <1>3, <2>1, Replied
    DEF Beginning, Over, HeldBack, Travelling, Inbound, Serving, TurnedDown, Authenticated
  <2>3. InStep'
    BY <2>1, Envelopes DEF InStep, OnWire, Arrived
  <2> QED BY <1>2, <2>2, <2>3 DEF SInv
<1>5. CASE Paused(NoArg)
  <2>1. /\ last'.reply.kind = "WantsRead" /\ outcome' = "running" /\ wire' = Command({})
        /\ held' = {} /\ transcript' = <<>> /\ Is("CramMd5")'
    BY <1>1, <1>2, <1>5 DEF Begin, Conclude, Paused, Is
  <2>2. Beginning' /\ Over' /\ HeldBack' /\ Travelling' /\ Serving' /\ TurnedDown' /\ Authenticated'
    BY <1>1, <1>3, <2>1, Replied
    DEF Beginning, Over, HeldBack, Travelling, Serving, TurnedDown, Authenticated
  <2>3. InStep'
    BY <2>1, Envelopes DEF InStep, OnWire, Arrived
  <2> QED BY <1>2, <2>2, <2>3 DEF SInv
<1>6. CASE Wrote(NoArg)
  <2>1. /\ last'.reply.kind = "WantsWrite" /\ last'.reply.payload = Said'
        /\ Len(transcript') = 1 /\ transcript' # <<>> /\ Due(sasl, 1, NoArg)
    BY <1>1, <1>6 DEF Wrote
  <2>2. ~Is("CramMd5")'
    BY <1>2, <2>1, Few DEF Is
  <2>3. /\ outcome' = "running"
        /\ \/ wire' = Command({Said'}) /\ held' = {}
           \/ wire' = Command({}) /\ held' = {Said'}
    BY <1>1, <2>1 DEF Begin, Conclude
  <2>4. Beginning' /\ Over' /\ HeldBack' /\ Travelling' /\ Serving' /\ TurnedDown' /\ Authenticated'
    BY <1>1, <1>3, <2>1, <2>2, <2>3, Replied
    DEF Beginning, Over, HeldBack, Travelling, Serving, TurnedDown, Authenticated
  <2>5. InStep'
    BY <2>3, Envelopes DEF InStep, OnWire, Arrived
  <2> QED BY <1>2, <2>4, <2>5 DEF SInv
<1> QED BY <1>2, <1>4, <1>5, <1>6

LEMMA AnswerHeldKeeps ==
    ASSUME SInv, AnswerHeld
    PROVE  SInv'
<1>1. /\ OnWire("challenge") /\ held # {} /\ held' = {}
      /\ UNCHANGED <<setup, outcome, server, seen, clean>> /\ UNCHANGED <<vars, setup>>
  BY DEF AnswerHeld
<1>2. held = {Said} /\ Len(transcript) = 1 /\ transcript # <<>>
  BY <1>1, Turns DEF SInv, HeldBack, Setting
<1>3. wire' = Response(Said)
  BY <1>2 DEF AnswerHeld
<1>4. /\ Setting' /\ Said' = Said /\ Reads' = Reads
      /\ UNCHANGED <<sasl, last, transcript>>
  BY <1>1, Untouched DEF SInv, Setting
<1>5. wire.to = "driver" /\ wire # Quiet
  BY <1>1, Envelopes DEF OnWire
<1>6. Beginning' /\ Over' /\ HeldBack' /\ Travelling' /\ Authenticated'
  BY <1>1, <1>2, <1>3, <1>4, <1>5
  DEF SInv, Beginning, Over, HeldBack, Travelling, Authenticated
<1>7. Serving'
  BY <1>1, <1>2, <1>4 DEF SInv, Serving, AwaitsPassword
<1>8. clean => Asking(1)
  BY <1>1, <1>2 DEF SInv, InStep
<1>9. InStep'
  BY <1>1, <1>2, <1>3, <1>4, <1>8, Envelopes DEF InStep, OnWire, Arrived, Asking
<1>10. TurnedDown'
  <2>1. server.state = "rejected" => server.wants = "acknowledgement"
    BY DEF SInv, Serving, AwaitsPassword
  <2>2. clean => server.state # "rejected"
    BY <1>8, <2>1 DEF Asking, Turn
  <2> QED BY <1>1, <2>2 DEF TurnedDown
<1> QED BY <1>4, <1>6, <1>7, <1>9, <1>10 DEF SInv

LEMMA AnswerChallengeKeeps ==
    ASSUME SInv, AnswerChallenge
    PROVE  SInv'
<1> DEFINE arg == Input(wire.bytes)
<1>1. /\ OnWire("challenge") /\ held = {} /\ held' = {} /\ Feed(arg) /\ Conclude
      /\ UNCHANGED <<server, clean>> /\ outcome = "running" /\ Setting
  BY DEF AnswerChallenge, Feed, SInv
<1>2. wire.bytes \in Inputs /\ wire = Challenge(wire.bytes)
  BY <1>1, Travels DEF SInv
<1>3. arg \in Args /\ arg.kind = "Input" /\ arg # PeerDone
  BY <1>2 DEF Args, Input, PeerDone
<1>4. /\ Setting' /\ sasl' = sasl /\ sasl \in Sasls
      /\ Stopped(arg) \/ Paused(arg) \/ Wrote(arg)
  BY <1>1, <1>3, Fed DEF Ended
<1>5. /\ wire' = IF last'.reply.kind = "WantsWrite" THEN Response(last'.reply.payload) ELSE Quiet
      /\ Conclude
  BY DEF AnswerChallenge
<1>6. clean => Asking(Len(transcript) + 1)
  BY <1>1 DEF SInv, InStep
<1>7. Reads' = Reads
  BY <1>4 DEF Reads, Name
<1>8. Len(transcript) \in Nat /\ (transcript = <<>> <=> Len(transcript) = 0)
  BY <1>1, Turns DEF Setting
<1>9. ASSUME clean, server.state = "rejected"
      PROVE  Len(transcript) = 1 /\ arg = Input(ErrorJson) /\ Wrote(arg)
  <2>1. server.wants = "acknowledgement" /\ sasl.variant \in OAuths
    BY <1>9 DEF SInv, Serving, AwaitsPassword
  <2>2. Len(transcript) = 1
    <3>1. Turn["acknowledgement"] = Len(transcript) + 1
      BY <1>6, <1>9, <2>1 DEF Asking
    <3>2. Turn["acknowledgement"] = 2
      BY DEF Turn
    <3> QED BY <1>8, <3>1, <3>2, UpToTwo, Zenon
  <2>3. wire = Challenge(ErrorJson)
    BY <1>1, <1>2, <1>9, Envelopes DEF SInv, TurnedDown, OnWire, Arrived
  <2>4. wire.bytes = ErrorJson
    BY <2>3, Envelopes
  <2>5. Wrote(arg)
    BY <1>1, <1>3, <2>1, <2>2, Acknowledges
  <2> QED BY <2>2, <2>4, <2>5
<1> HIDE DEF arg
<1>10. CASE Stopped(arg) \/ Paused(arg)
  <2>1. transcript' = transcript /\ last'.reply.kind \in {"Err", "WantsRead"}
    BY <1>10 DEF Stopped, Paused
  <2>2. wire' = Quiet /\ outcome' \in {"failed", "running"}
    BY <1>5, <2>1 DEF Conclude
  <2>3. Beginning' /\ Over' /\ HeldBack' /\ Travelling' /\ Authenticated'
    BY <1>1, <2>1, <2>2, Replied
    DEF Beginning, Over, HeldBack, Travelling, Inbound, Authenticated
  <2>4. Serving'
    BY <1>1, <1>4, <1>7, <2>1, <2>2, Envelopes DEF SInv, Serving, AwaitsPassword, Is
  <2>5. InStep'
    BY <2>2, Envelopes DEF InStep, OnWire, Arrived
  <2>6. TurnedDown'
    <3>1. ~Wrote(arg)
      BY <1>8, <2>1 DEF Wrote
    <3> QED BY <1>1, <1>9, <3>1 DEF TurnedDown
  <2> QED BY <1>4, <2>3, <2>4, <2>5, <2>6 DEF SInv
<1>11. CASE Wrote(arg)
  <2> DEFINE n == Len(transcript) + 1
  <2>1. /\ last'.reply.kind = "WantsWrite" /\ last'.reply.payload = Said'
        /\ Len(transcript') = n /\ transcript' # <<>> /\ Due(sasl, n, arg)
        /\ transcript'[n].arg = arg /\ n \in Nat \ {0}
    BY <1>8, <1>11 DEF Wrote
  <2>2. wire' = Response(Said') /\ outcome' = "running"
    BY <1>5, <2>1 DEF Conclude
  <2>3. n \in {1, 2}
    BY <1>4, <2>1, Few
  <2>4. Beginning' /\ Over' /\ HeldBack' /\ Travelling' /\ Authenticated'
    BY <1>1, <2>1, <2>2, Replied DEF Beginning, Over, HeldBack, Travelling, Authenticated
  <2>5. Serving'
    <3>1. CASE AwaitsPassword
      <4>1. n = 2 /\ Len(transcript) = 1
        <5>1. Len(transcript) # 0
          BY <1>8, <3>1 DEF AwaitsPassword
        <5> QED BY <1>8, <2>3, <5>1, UpToTwo, Zenon
      <4>2. AwaitsPassword'
        BY <1>1, <1>4, <2>1, <3>1, <4>1 DEF AwaitsPassword, Is
      <4> QED BY <4>2 DEF Serving
    <3>2. CASE ~AwaitsPassword
      BY <1>1, <1>4, <1>7, <3>2 DEF SInv, Serving
    <3> QED BY <3>1, <3>2
  <2>6. InStep'
    BY <1>1, <1>6, <2>1, <2>2, Envelopes DEF InStep, OnWire, Arrived, Asking
  <2>7. TurnedDown'
    <3> SUFFICES ASSUME clean, server.state = "rejected"
                 PROVE  /\ Len(transcript') = 2 /\ transcript'[2].arg = Input(ErrorJson)
                        /\ Arrived("response")'
      BY <1>1 DEF TurnedDown
    <3>1. Len(transcript) = 1 /\ arg = Input(ErrorJson) /\ n = 2
      BY <1>8, <1>9, UpToTwo, Zenon
    <3>2. Arrived("response")'
      BY <2>2, Envelopes DEF Arrived
    <3> HIDE DEF n
    <3> QED BY <2>1, <3>1, <3>2
  <2> QED BY <1>4, <2>4, <2>5, <2>6, <2>7 DEF SInv
<1> QED BY <1>4, <1>10, <1>11

\* The end of the exchange, as the server announces it.
LEMMA EndingKeeps ==
    ASSUME SInv, Feed(PeerDone), wire' = Quiet, UNCHANGED held,
           wire.to = "driver" /\ wire.kind \in {"success", "refusal"},
           \/ OnWire("success") /\ Conclude
           \/ OnWire("refusal") /\ outcome' \in {"failed", "refused"}
    PROVE  SInv'
<1>1. /\ UNCHANGED <<server, clean>> /\ outcome = "running" /\ Setting
  BY DEF Feed, SInv
<1>2. PeerDone \in Args
  BY DEF Args
<1>3. Setting' /\ sasl' = sasl /\ Ended(PeerDone)
  <2>1. \A arg : Due(sasl, Len(transcript) + 1, arg) => arg # PeerDone
    <3>1. sasl \in Sasls
      BY <1>1 DEF Setting, IInv
    <3> QED BY <3>1, DueNotAtEnd
  <2> QED BY <1>1, <1>2, <2>1, Fed DEF Stopped, Paused, Wrote
<1>4. transcript' = transcript /\ last'.reply = End
  BY <1>3 DEF Ended
<1>5. Said' = Said /\ Reads' = Reads
  BY <1>3, <1>4 DEF Said, Reads, Name
<1>6. outcome' = "authenticated" => OnWire("success") /\ last'.reply.kind = "Ok"
  BY <1>4, Replied DEF Conclude
<1>7. Beginning' /\ Over' /\ HeldBack' /\ Travelling'
  BY <1>4, <1>5, Replied DEF SInv, Beginning, Over, HeldBack, Travelling, Inbound
<1>8. Serving'
  BY <1>1, <1>3, <1>4, <1>5, Envelopes DEF SInv, Serving, AwaitsPassword, Is
<1>9. InStep'
  BY Envelopes DEF InStep, OnWire, Arrived
<1>10. Authenticated'
  BY <1>1, <1>6 DEF SInv, InStep, Authenticated
<1>11. TurnedDown'
  <2> SUFFICES ASSUME clean, server.state = "rejected"
               PROVE  /\ Len(transcript) = 2 /\ transcript[2].arg = Input(ErrorJson)
                      /\ last'.reply = Rejection(2)
    BY <1>1, <1>4 DEF TurnedDown, Rejection
  <2>1. wire # Challenge(ErrorJson)
    BY Envelopes
  <2>2. Len(transcript) = 2 /\ transcript[2].arg = Input(ErrorJson)
    BY <2>1 DEF SInv, TurnedDown
  <2>3. sasl.variant \in OAuths
    BY DEF SInv, Serving, AwaitsPassword
  <2> QED BY <1>4, <2>2, <2>3, Replied DEF Refused
<1> QED BY <1>3, <1>7, <1>8, <1>9, <1>10, <1>11 DEF SInv

LEMMA AnswerSuccessKeeps ==
    ASSUME SInv, AnswerSuccess
    PROVE  SInv'
BY EndingKeeps DEF AnswerSuccess, OnWire

LEMMA TakeRefusalKeeps ==
    ASSUME SInv, TakeRefusal
    PROVE  SInv'
BY EndingKeeps DEF TakeRefusal, OnWire
----
(***************************************************************************)
(* The steps of the server.                                                *)
(***************************************************************************)
\* Whatever it says, it says to the driver that is waiting for it.
LEMMA Spoken ==
    ASSUME SInv, wire.to = "server", NEW message \in {Success, Refusal} \cup Challenges, Say(message)
    PROVE  /\ wire' = message /\ wire'.to = "driver" /\ outcome = "running"
           /\ Setting' /\ Said' = Said /\ Reads' = Reads
           /\ UNCHANGED <<sasl, transcript, held, clean>>
           /\ Beginning' /\ Over' /\ HeldBack' /\ Travelling' /\ Authenticated'
<1>1. /\ wire' = message /\ UNCHANGED <<vars, setup>>
      /\ UNCHANGED <<outcome, held, clean>>
  BY DEF Say
<1>2. message.to = "driver" /\ (message.kind = "challenge" => message \in Challenges)
  BY Envelopes DEF Challenges
<1>3. seen' \in SUBSET Challenges
  BY <1>2 DEF Say, SInv, Setting
<1>4. /\ Setting' /\ Said' = Said /\ Reads' = Reads
      /\ UNCHANGED <<sasl, last, transcript>>
  BY <1>1, <1>3, Untouched DEF SInv
<1>5. outcome = "running" /\ last.reply # NoReply
  BY Envelopes DEF SInv, Over, Beginning
<1>6. Beginning' /\ Over' /\ HeldBack' /\ Travelling' /\ Authenticated'
  BY <1>1, <1>4, <1>5 DEF SInv, Beginning, Over, HeldBack, Travelling, Inbound, Authenticated
<1> QED BY <1>1, <1>2, <1>4, <1>5, <1>6

LEMMA PromptKeeps ==
    ASSUME SInv, Prompt
    PROVE  SInv'
<1>1. PICK bytes \in IF Reads = "digest" THEN Nonces ELSE {<<>>} :
        /\ server' = [state |-> "open", wants |-> Reads, challenge |-> bytes]
        /\ Say(Challenge(bytes))
  BY DEF Prompt
<1>2. wire.to = "server" /\ wire.initial = {} /\ Arrived("command")
  BY DEF Prompt, Arrived
<1>3. /\ IF Is("CramMd5") THEN transcript = <<>> /\ held = {}
         ELSE Len(transcript) = 1 /\ held = {Said}
  BY <1>2, Travels DEF SInv
<1>4. bytes \in Inputs /\ Challenge(bytes) \in {Success, Refusal} \cup Challenges
  <2>1. Nonces \subseteq Inputs /\ <<>> \in Inputs
    BY SessionAssumption, Zenon
  <2>2. bytes \in Inputs
    BY <1>1, <2>1
  <2> QED BY <2>2 DEF Challenges
<1>5. /\ wire' = Challenge(bytes) /\ Setting' /\ Said' = Said /\ Reads' = Reads
      /\ UNCHANGED <<sasl, transcript, held, clean>>
      /\ Beginning' /\ Over' /\ HeldBack' /\ Travelling' /\ Authenticated'
  BY <1>1, <1>2, <1>4, Spoken
<1>6. server'.state = "open" /\ server'.wants = Reads
  BY <1>1
<1>7. Serving' /\ TurnedDown'
  BY <1>5, <1>6 DEF Serving, TurnedDown
<1>8. sasl \in Sasls
  BY DEF SInv, Setting, IInv
<1>9. Turn[Reads] = 1
  BY <1>8, Framing DEF Turn
<1>10. Len(transcript) + (IF held = {} THEN 1 ELSE 0) = 1
  <2>1. CASE Is("CramMd5")
    <3>1. Len(transcript) = 0 /\ held = {}
      BY <1>3, <2>1, EmptySeq
    <3> QED BY <3>1
  <2>2. CASE ~Is("CramMd5")
    <3>1. Len(transcript) = 1 /\ held # {}
      BY <1>3, <2>2
    <3> QED BY <3>1
  <2> QED BY <2>1, <2>2
<1>11. InStep'
  <2>1. (Asking(1))'
    BY <1>6, <1>9 DEF Asking
  <2>2. Asking(Len(transcript) + (IF held = {} THEN 1 ELSE 0))'
    BY <1>5, <1>10, <2>1
  <2> QED BY <1>5, <2>2, Envelopes DEF InStep, OnWire, Arrived
<1> QED BY <1>5, <1>7, <1>11 DEF SInv

\* The end, or the round more that an OAuth mechanism is given to acknowledge.
LEMMA DecideKeeps ==
    ASSUME SInv, wire.to = "server", held = {}, transcript # <<>>,
           clean /\ sasl.variant \in OAuths => Len(transcript) = 1,
           NEW identities, Decide(identities)
    PROVE  SInv'
<1>1. sasl \in Sasls
  BY DEF SInv, Setting, IInv
<1>2. CASE \E identity \in identities : server' = [state |-> "accepted", identity |-> identity] /\ Say(Success)
  <2>1. server'.state = "accepted" /\ Say(Success)
    BY <1>2
  <2>2. /\ wire' = Success /\ Setting'
        /\ Beginning' /\ Over' /\ HeldBack' /\ Travelling' /\ Authenticated'
    BY <2>1, Spoken
  <2>3. Serving' /\ TurnedDown'
    BY <2>1 DEF Serving, TurnedDown
  <2>4. InStep'
    BY <2>1, <2>2, Envelopes DEF InStep, OnWire, Arrived
  <2> QED BY <2>2, <2>3, <2>4 DEF SInv
<1>3. CASE server' = [state |-> "denied"] /\ Say(Refusal)
  <2>1. server'.state = "denied" /\ Say(Refusal)
    BY <1>3
  <2>2. /\ wire' = Refusal /\ Setting'
        /\ Beginning' /\ Over' /\ HeldBack' /\ Travelling' /\ Authenticated'
    BY <2>1, Spoken
  <2>3. Serving' /\ TurnedDown'
    BY <2>1 DEF Serving, TurnedDown
  <2>4. InStep'
    BY <2>1, <2>2, Envelopes DEF InStep, OnWire, Arrived
  <2> QED BY <2>2, <2>3, <2>4 DEF SInv
<1>4. CASE /\ Name \in {"XOAUTH2", "OAUTHBEARER"}
           /\ server' = [state |-> "rejected", wants |-> "acknowledgement"]
           /\ Say(Challenge(ErrorJson))
  <2>1. /\ server'.state = "rejected" /\ server'.wants = "acknowledgement"
        /\ Say(Challenge(ErrorJson))
    BY <1>4
  <2>2. sasl.variant \in OAuths
    BY <1>1, <1>4, Framing
  <2>3. Challenge(ErrorJson) \in Challenges
    <3>1. ErrorJson \in Inputs
      BY SessionAssumption, Zenon
    <3> QED BY <3>1 DEF Challenges
  <2>4. /\ wire' = Challenge(ErrorJson) /\ Setting'
        /\ UNCHANGED <<sasl, transcript, held, clean>>
        /\ Beginning' /\ Over' /\ HeldBack' /\ Travelling' /\ Authenticated'
    BY <2>1, <2>3, Spoken
  <2>5. Serving' /\ TurnedDown'
    BY <2>1, <2>2, <2>4 DEF Serving, TurnedDown
  <2>6. InStep'
    <3>1. (Asking(2))'
      BY <2>1 DEF Asking, Turn
    <3>2. clean => Len(transcript) + (IF held = {} THEN 1 ELSE 0) = 2
      <4> SUFFICES ASSUME clean PROVE Len(transcript) + (IF held = {} THEN 1 ELSE 0) = 2
        BY Zenon
      <4>1. Len(transcript) = 1
        BY <2>2
      <4> QED BY <4>1
    <3>3. clean => Asking(Len(transcript) + (IF held = {} THEN 1 ELSE 0))'
      BY <2>4, <3>1, <3>2
    <3> QED BY <2>4, <3>3, Envelopes DEF InStep, OnWire, Arrived
  <2> QED BY <2>4, <2>5, <2>6 DEF SInv
<1> QED BY <1>2, <1>3, <1>4 DEF Decide

\* The first message of a mechanism is read for what the server asks in the beginning.
LEMMA FirstReadKeeps ==
    ASSUME SInv, wire.to = "server", held = {}, transcript # <<>>,
           clean => Len(transcript) = 1, Read(Reads, Said)
    PROVE  SInv'
<1>1. sasl \in Sasls
  BY DEF SInv, Setting, IInv
<1>2. CASE Is("Login")
  <2>1. Reads = "username"
    BY <1>1, <1>2, Framing
  <2>2. /\ server' = [state |-> "open", wants |-> "password", username |-> Said.bytes]
        /\ Say(Challenge(<<"Password:">>))
    BY <2>1, Zenon DEF Read
  <2>3. server'.state = "open" /\ server'.wants = "password" /\ server'.username = Said.bytes
    BY <2>2
  <2>4. Challenge(<<"Password:">>) \in Challenges
    <3>1. <<"Password:">> \in Inputs
      BY SessionAssumption, Zenon
    <3> QED BY <3>1, Zenon DEF Challenges
  <2>5. /\ wire'.to = "driver" /\ Setting' /\ UNCHANGED <<sasl, transcript, held, clean>>
        /\ Beginning' /\ Over' /\ HeldBack' /\ Travelling' /\ Authenticated'
    <3>1. Challenge(<<"Password:">>) \in {Success, Refusal} \cup Challenges
      BY <2>4, Zenon
    <3> QED BY <2>2, <3>1, Spoken, Zenon
  <2>6. Said.bytes = sasl.creds.username \/ Len(transcript) = 2
    <3>1. PICK arg \in Args : Said = Message(sasl, Len(transcript), arg)
      BY SaidLast DEF SInv, Setting
    <3>2. ASSUME Len(transcript) = 1 PROVE Said.bytes = sasl.creds.username
      BY <1>2, <3>1, <3>2 DEF Message, First, Is
    <3> QED BY <3>2, SaidLast DEF SInv, Setting
  <2>7. AwaitsPassword'
    BY <1>2, <2>3, <2>5, <2>6 DEF AwaitsPassword, Is
  <2>8. Serving' /\ TurnedDown'
    BY <2>3, <2>7 DEF Serving, TurnedDown
  <2>9. InStep'
    <3>1. (Asking(2))'
      BY <2>3 DEF Asking, Turn
    <3>2. ASSUME clean PROVE Asking(Len(transcript) + (IF held = {} THEN 1 ELSE 0))'
      <4>1. Len(transcript) = 1
        BY <3>2
      <4>2. Len(transcript) + (IF held = {} THEN 1 ELSE 0) = 2
        BY <4>1
      <4> QED BY <2>5, <3>1, <4>2
    <3>3. wire'.kind = "challenge"
      <4>1. wire' = Challenge(<<"Password:">>)
        BY <2>2, Zenon DEF Say
      <4> QED BY <4>1, Envelopes, Zenon
    <3> QED BY <2>5, <3>2, <3>3 DEF InStep, OnWire, Arrived
  <2> QED BY <2>5, <2>8, <2>9 DEF SInv
<1>3. CASE ~Is("Login")
  <2>1. Reads \in {"digest", "credentials"}
    BY <1>1, <1>3, Framing
  <2>2. \E identities : Decide(identities)
    BY <2>1, Zenon DEF Read
  <2> QED BY <2>2, DecideKeeps
<1> QED BY <1>2, <1>3

LEMMA ReadCommandKeeps ==
    ASSUME SInv, ReadCommand
    PROVE  SInv'
<1>1. PICK payload \in wire.initial : Read(Reads, payload)
  BY DEF ReadCommand
<1>2. wire.to = "server" /\ Arrived("command")
  BY DEF ReadCommand, Arrived
<1>3. /\ wire.initial = {Said} /\ Len(transcript) = 1 /\ held = {}
  BY <1>1, <1>2, Travels DEF SInv
<1>4. Read(Reads, Said)
  BY <1>1, <1>3
<1>5. transcript # <<>>
  BY <1>3, EmptySeq
<1> QED BY <1>2, <1>3, <1>4, <1>5, FirstReadKeeps

LEMMA ReadResponseKeeps ==
    ASSUME SInv, ReadResponse
    PROVE  SInv'
<1>1. /\ Arrived("response") /\ wire.to = "server" /\ server.state \in {"open", "rejected"}
      /\ Read(server.wants, wire.payload)
  BY DEF ReadResponse, Arrived
<1>2. transcript # <<>> /\ held = {} /\ wire.payload = Said
  BY <1>1, Travels DEF SInv
<1>3. clean => Asking(Len(transcript))
  BY <1>1 DEF SInv, InStep
<1>4. sasl \in Sasls
  BY DEF SInv, Setting, IInv
<1>5. CASE server.state = "open" /\ server.wants = Reads
  <2>1. clean => Len(transcript) = 1
    <3>1. Turn[Reads] = 1
      BY <1>4, Framing DEF Turn
    <3> QED BY <1>3, <1>5, <3>1 DEF Asking
  <2>2. Read(Reads, Said)
    BY <1>1, <1>2, <1>5
  <2> QED BY <1>1, <1>2, <2>1, <2>2, FirstReadKeeps
<1>6. CASE AwaitsPassword
  <2>1. server.wants = "password" /\ Is("Login")
    BY <1>6 DEF AwaitsPassword
  <2>2. \E identities : Decide(identities)
    BY <1>1, <2>1, Zenon DEF Read
  <2>3. sasl.variant \notin OAuths
    BY <2>1 DEF Is, OAuths
  <2> QED BY <1>1, <1>2, <2>2, <2>3, DecideKeeps
<1>7. CASE server.state = "rejected" /\ server.wants = "acknowledgement" /\ sasl.variant \in OAuths
  <2>1. Say(Refusal) /\ UNCHANGED server
    BY <1>1, <1>7, Zenon DEF Read
  <2>2. /\ wire' = Refusal /\ Setting' /\ UNCHANGED <<sasl, transcript, held, clean>>
        /\ Beginning' /\ Over' /\ HeldBack' /\ Travelling' /\ Authenticated'
    BY <1>1, <2>1, Spoken
  <2>3. Serving'
    BY <1>7, <2>1, <2>2 DEF Serving
  <2>4. InStep'
    BY <2>2, Envelopes DEF InStep, OnWire, Arrived
  <2>5. TurnedDown'
    <3>1. OnWire("refusal")'
      BY <2>2, Envelopes DEF OnWire
    <3>2. clean => Len(transcript) = 2 /\ transcript[2].arg = Input(ErrorJson)
      BY <1>1, <1>7, Envelopes DEF SInv, TurnedDown
    <3> QED BY <2>2, <3>1, <3>2 DEF TurnedDown
  <2> QED BY <2>2, <2>3, <2>4, <2>5 DEF SInv
<1> QED BY <1>1, <1>5, <1>6, <1>7 DEF SInv, Serving

LEMMA RefuseResponseKeeps ==
    ASSUME SInv, RefuseResponse
    PROVE  SInv'
<1>1. /\ Arrived("response") /\ wire.to = "server" /\ server.state \notin {"open", "rejected"}
      /\ Say(Refusal) /\ UNCHANGED server
  BY DEF RefuseResponse, Arrived
<1>2. /\ wire' = Refusal /\ Setting' /\ UNCHANGED <<sasl, transcript, held, clean>>
      /\ Beginning' /\ Over' /\ HeldBack' /\ Travelling' /\ Authenticated'
  BY <1>1, Spoken
<1>3. Serving' /\ TurnedDown'
  BY <1>1 DEF SInv, Serving, AwaitsPassword, TurnedDown
<1>4. InStep'
  BY <1>2, Envelopes DEF InStep, OnWire, Arrived
<1> QED BY <1>2, <1>3, <1>4 DEF SInv
----
(***************************************************************************)
(* The steps of the wire, and the whole.                                   *)
(***************************************************************************)
\* What is no answer of the server's makes the exchange one that is not clean.
LEMMA UncleanKeeps ==
    ASSUME SInv, wire.to # "nobody" \/ outcome = "running", wire # Quiet,
           UNCHANGED <<vars, setup, held, server, seen>>, clean' = FALSE,
           wire' \in Inbound, wire'.to # "server",
           \/ wire'.to = "driver" /\ outcome' = outcome
           \/ wire' = Quiet /\ outcome' = "abandoned"
    PROVE  SInv'
<1>1. seen' \in SUBSET Challenges /\ UNCHANGED <<vars, setup>>
  BY DEF SInv, Setting
<1>2. /\ Setting' /\ Said' = Said /\ Reads' = Reads
      /\ UNCHANGED <<sasl, last, transcript>>
  BY <1>1, Untouched DEF SInv
<1>3. outcome = "running" /\ last.reply # NoReply
  BY DEF SInv, Over, Beginning
<1>4. Beginning' /\ Over' /\ HeldBack' /\ Travelling' /\ Authenticated'
  BY <1>2, <1>3 DEF SInv, Beginning, Over, HeldBack, Travelling, Authenticated
<1>5. Serving'
  BY <1>2 DEF SInv, Serving, AwaitsPassword, Is
<1>6. InStep' /\ TurnedDown'
  BY DEF InStep, TurnedDown
<1> QED BY <1>2, <1>4, <1>5, <1>6 DEF SInv

LEMMA StrayKeeps ==
    ASSUME SInv, Stray
    PROVE  SInv'
<1>1. wire.to = "server" /\ wire # Quiet
  BY Envelopes DEF Stray
<1>2. wire' \in Inbound /\ wire'.to = "driver"
  <2>1. wire' \in Challenges \cup {Success}
    BY DEF Stray, SInv, Setting
  <2> QED BY <2>1, Envelopes DEF Inbound, Challenges
<1> QED BY <1>1, <1>2, UncleanKeeps DEF Stray

LEMMA AbandonKeeps ==
    ASSUME SInv, Abandon
    PROVE  SInv'
<1>1. wire' = Quiet /\ wire' \in Inbound /\ wire'.to # "server"
  BY Envelopes DEF Abandon, Inbound
<1> QED BY <1>1, UncleanKeeps DEF Abandon

\* What a new coroutine and a new exchange start from.
Anew == /\ Init /\ setup.account \in Accounts /\ seen \in SUBSET Challenges
        /\ outcome = "running" /\ held = {} /\ wire = Quiet /\ server = Idle

LEMMA BeginsWell == Anew => SInv
<1> SUFFICES ASSUME Anew PROVE SInv
  OBVIOUS
<1> USE DEF Anew
<1>1. transcript = <<>> /\ last.reply = NoReply
  BY DEF Init, Fresh
<1>2. Setting
  BY <1>1, Initially DEF Setting, PreparedWhenSent
<1>3. Beginning /\ Over /\ HeldBack /\ Travelling /\ Authenticated
  BY <1>1 DEF Beginning, Over, HeldBack, Travelling, Inbound, Authenticated
<1>4. Serving /\ TurnedDown
  BY DEF Serving, TurnedDown, Idle
<1>5. InStep
  BY Envelopes DEF InStep, OnWire, Arrived
<1> QED BY <1>2, <1>3, <1>4, <1>5 DEF SInv

LEMMA RetryKeeps ==
    ASSUME SInv, Retry
    PROVE  SInv'
<1>1. Anew'
  BY DEF Retry, SInv, Setting, IInv, Init, Fresh, Challenges, Anew
<1> QED BY <1>1, BeginsWell, PTL

LEMMA RestKeeps ==
    ASSUME SInv, UNCHANGED sessionvars
    PROVE  SInv'
<1>1. /\ seen' \in SUBSET Challenges
      /\ UNCHANGED <<vars, setup>> /\ UNCHANGED <<outcome, held, wire, server, clean>>
  BY DEF SInv, Setting, sessionvars
<1>2. /\ Setting' /\ Said' = Said /\ Reads' = Reads
      /\ UNCHANGED <<sasl, last, transcript>>
  BY <1>1, Untouched DEF SInv
<1>3. Beginning' /\ Over' /\ HeldBack' /\ Travelling' /\ Serving'
  BY <1>1, <1>2 DEF SInv, Beginning, Over, HeldBack, Travelling, Serving, AwaitsPassword, Is
<1>4. InStep' /\ TurnedDown' /\ Authenticated'
  BY <1>1, <1>2 DEF SInv, InStep, TurnedDown, Authenticated, OnWire, Arrived, Asking, Rejection
<1> QED BY <1>2, <1>3, <1>4 DEF SInv

LEMMA Kept == SInv /\ [SessionNext]_sessionvars => SInv'
BY BeginKeeps, AnswerHeldKeeps, AnswerChallengeKeeps, AnswerSuccessKeeps, TakeRefusalKeeps,
   PromptKeeps, ReadCommandKeeps, ReadResponseKeeps, RefuseResponseKeeps,
   StrayKeeps, AbandonKeeps, RetryKeeps, RestKeeps
DEF SessionNext, Driver, Server, Rest

LEMMA Started == SessionInit => SInv
BY BeginsWell DEF SessionInit, Anew

THEOREM SessionInvariance == SessionSpec => []SInv
BY Started, Kept, PTL DEF SessionSpec

----
(***************************************************************************)
(* What the invariant says of each property.                               *)
(***************************************************************************)
\* The kind of the message written last is one that answers the question it was due for.
LEMMA SaidAnswers ==
    ASSUME IInv, transcript # <<>>
    PROVE  /\ Len(transcript) = 1 => Said.kind \in Answers[Reads]
           /\ Len(transcript) = 2 /\ Is("Login") => Said.kind \in Answers["password"]
           /\ Len(transcript) = 2 /\ sasl.variant \in OAuths =>
                 Said.kind \in Answers["acknowledgement"]
<1>1. sasl \in Sasls
  BY DEF IInv
<1> DEFINE n == Len(transcript)
<1>2. n \in {1, 2} /\ Said.kind = Script[n]
  <2>1. n \in DOMAIN transcript
    BY Turns, LenProperties DEF IInv
  <2>2. Labelled(n, transcript[n].arg) /\ Said = Message(sasl, n, transcript[n].arg)
    BY <2>1, LabelAt DEF Said
  <2>3. sasl.variant \notin Relays
    BY <1>1, Framing
  <2> HIDE DEF n
  <2>4. Said.kind = Script[n]
    BY <2>2, <2>3 DEF Labelled
  <2> QED BY <2>4, SaidLast DEF n
<1> HIDE DEF n
<1>3. Script[1] \in Answers[Reads]
  <2>1. CASE Is("Login")
    <3>1. Script = <<"username", "password">> /\ Reads = "username"
      BY <1>1, <2>1, Framing DEF Script, Is
    <3> QED BY <3>1 DEF Answers
  <2>2. CASE Is("CramMd5")
    <3>1. Script = <<"digest">> /\ Reads = "digest"
      BY <1>1, <2>2, Framing DEF Script, Is
    <3> QED BY <3>1 DEF Answers
  <2>3. CASE ~Is("Login") /\ ~Is("CramMd5")
    <3>1. Script[1] \in {"plain", "authzid", "trace", "xoauth2", "oauthbearer"}
      <4>1. \/ Is("Plain") /\ Script = <<"plain">>
            \/ Is("External") /\ Script = <<"authzid">>
            \/ Is("Anonymous") /\ Script = <<"trace">>
            \/ Is("Xoauth2") /\ Script = <<"xoauth2", "empty">>
            \/ Is("Oauthbearer") /\ Script = <<"oauthbearer", "0x01">>
        BY <1>1, <2>3, Framing, Variants DEF Script, Is, Relays
      <4> QED BY <4>1
    <3>2. Reads = "credentials"
      BY <1>1, <2>3, Framing
    <3> QED BY <3>1, <3>2 DEF Answers
  <2> QED BY <2>1, <2>2, <2>3
<1>4. Is("Login") => Script[2] \in Answers["password"]
  <2> SUFFICES ASSUME Is("Login") PROVE Script[2] = "password"
    BY DEF Answers
  <2>1. Script = <<"username", "password">>
    BY DEF Script, Is
  <2> QED BY <2>1
<1>5. sasl.variant \in OAuths => Script[2] \in Answers["acknowledgement"]
  <2> SUFFICES ASSUME sasl.variant \in OAuths PROVE Script[2] \in {"empty", "0x01"}
    BY DEF Answers
  <2>1. Script = <<"xoauth2", "empty">> \/ Script = <<"oauthbearer", "0x01">>
    BY DEF Script, Is, OAuths
  <2> QED BY <2>1
<1> QED BY <1>2, <1>3, <1>4, <1>5 DEF n

\* Each response answers what the server is asking for, as long as the wire keeps its
\* word: the password goes out to the prompt for it, never in the place of the username.
THEOREM PasswordsInPlace == SessionSpec => []PromptsAnswered
<1>1. ASSUME SInv PROVE PromptsAnswered
  <2> SUFFICES ASSUME clean, wire.to = "server"
               PROVE  IF wire.kind = "response" THEN wire.payload.kind \in Answers[server.wants]
                      ELSE \A payload \in wire.initial : payload.kind \in Answers[Reads]
    BY Zenon DEF PromptsAnswered
  <2>1. sasl \in Sasls /\ IInv
    BY <1>1 DEF SInv, Setting, IInv
  <2>2. CASE wire.kind = "response"
    <3>1. transcript # <<>> /\ wire.payload = Said /\ Asking(Len(transcript))
      BY <1>1, <2>2, Travels DEF SInv, InStep, Arrived
    <3>2. CASE server.state = "open" /\ server.wants = Reads
      <4>1. Turn[Reads] = 1
        BY <2>1, Framing DEF Turn
      <4> QED BY <2>1, <2>2, <3>1, <3>2, <4>1, SaidAnswers DEF Asking
    <3>3. CASE AwaitsPassword
      <4>1. Turn["password"] = 2
        BY DEF Turn
      <4> QED BY <2>1, <2>2, <3>1, <3>3, <4>1, SaidAnswers DEF Asking, AwaitsPassword
    <3>4. CASE server.wants = "acknowledgement" /\ sasl.variant \in OAuths
      <4>1. Turn["acknowledgement"] = 2
        BY DEF Turn
      <4> QED BY <2>1, <2>2, <3>1, <3>4, <4>1, SaidAnswers DEF Asking
    <3> QED BY <1>1, <3>1, <3>2, <3>3, <3>4 DEF SInv, Serving, Asking
  <2>3. CASE wire.kind # "response"
    <3>1. \A payload \in wire.initial : payload = Said /\ Len(transcript) = 1
      BY <1>1, <2>3, Travels DEF SInv, Arrived
    <3>2. Len(transcript) = 1 => transcript # <<>>
      BY EmptySeq
    <3> QED BY <2>1, <2>3, <3>1, <3>2, SaidAnswers
  <2> QED BY <2>2, <2>3
<1> QED BY <1>1, SessionInvariance, PTL

\* A token that the server turned down is never reported as accepted, and what is
\* reported in the end is what that server said.
THEOREM RejectionKept == SessionSpec => []RejectionReported
<1>1. ASSUME SInv PROVE RejectionReported
  <2> SUFFICES ASSUME server.state = "rejected"
               PROVE  /\ Acknowledging # {} => outcome # "authenticated"
                      /\ outcome \in {"failed", "refused"} /\ clean =>
                            last.reply = CompleteErr([error |-> "Rejected", json |-> Lossy(ErrorJson)])
    BY Zenon DEF RejectionReported
  <2>1. IInv /\ sasl.variant \in OAuths
    BY <1>1 DEF SInv, Setting, Serving, AwaitsPassword
  <2>2. ASSUME Acknowledging # {}, outcome = "authenticated" PROVE FALSE
    <3>1. Refused
      BY <2>1, <2>2, Acknowledged
    <3>2. last.reply.kind = "Ok"
      BY <1>1, <2>2 DEF SInv, Authenticated
    <3>3. last.reply = End
      BY <2>1, <3>2 DEF IInv, LastAnswer
    <3> QED BY <3>1, <3>2, <3>3, Replied
  <2>3. ASSUME outcome \in {"failed", "refused"}, clean
        PROVE  last.reply = CompleteErr([error |-> "Rejected", json |-> Lossy(ErrorJson)])
    <3>1. wire = Quiet
      BY <1>1, <2>3 DEF SInv, Over
    <3>2. wire # Challenge(ErrorJson) /\ ~Arrived("response") /\ ~OnWire("refusal")
      BY <3>1, Envelopes DEF Arrived, OnWire
    <3>3. transcript[2].arg = Input(ErrorJson) /\ last.reply = Rejection(2)
      BY <1>1, <2>3, <3>2 DEF SInv, TurnedDown
    <3>4. transcript[2].arg.bytes = ErrorJson
      BY <3>3 DEF Input
    <3> QED BY <3>3, <3>4 DEF Rejection
  <2> QED BY <2>2, <2>3
<1> QED BY <1>1, SessionInvariance, PTL
----
(***************************************************************************)
(* Whom a server gives access to.  A mechanism whose message is made of    *)
(* several texts sends them as they are, separators of its syntax in them  *)
(* or not; the server insists on the number of pieces, and finds each text *)
(* or nothing.                                                             *)
(***************************************************************************)
\* The text read out of a message with a word in front of it.
LEMMA Unworded ==
    ASSUME NEW u \in Letters, NEW x \in Text, NEW y \in Text, <<u>> \o x = <<u>> \o y
    PROVE  x = y
<1> DEFINE word == <<u>>
<1>1. word \in Seq(Letters) /\ x \in Seq(Letters) /\ y \in Seq(Letters)
  BY Single, TextLetters
<1> HIDE DEF word, Letters
<1>2. word \o x = word \o y
  BY Zenon DEF word
<1> QED BY <1>1, <1>2, Cancels

LEMMA AccountTexts ==
    ASSUME SInv
    PROVE  /\ setup.account.username \in Text /\ setup.account.password \in Text
           /\ setup.account.token \in Text
           /\ setup.account.username \in setup.account.names
BY SessionAssumption DEF SInv, Setting

\* What was written first is the first message of the mechanism.
LEMMA SaidFirst ==
    ASSUME SInv, transcript # <<>>, ~Is("Login"), ~Is("CramMd5")
    PROVE  /\ sasl \in Sasls
           /\ \/ Said = First(sasl, NoArg)
              \/ Is("Xoauth2") /\ Said = EmptyPayload
              \/ Is("Oauthbearer") /\ Said = [kind |-> "0x01"]
<1>1. IInv /\ sasl \in Sasls
  BY DEF SInv, Setting, IInv
<1>2. PICK arg \in Args : Said = Message(sasl, Len(transcript), arg)
  BY <1>1, SaidLast
<1>3. CASE Len(transcript) = 1
  <2>1. Said = First(sasl, arg)
    BY <1>2, <1>3 DEF Message
  <2>2. First(sasl, arg) = First(sasl, NoArg)
    BY <1>1, Framing, Variants DEF First, Is, Relays
  <2> QED BY <1>1, <2>1, <2>2
<1>4. CASE Len(transcript) = 2 /\ sasl.variant \in OAuths
  BY <1>1, <1>2, <1>4 DEF Message, OAuths, Is
<1> QED BY <1>1, <1>3, <1>4, SaidLast

LEMMA PlainIdentified ==
    ASSUME SInv, transcript # <<>>, Is("Plain"),
           NEW identity \in Identify(OctetsOf(Said))
    PROVE  Known /\ identity = Intended
<1> DEFINE c == sasl.creds
           x == AsSent(PlainM!Authzid(c))
           y == AsSent(c.authcid)
           z == AsSent(c.passwd)
           bytes == x \o <<"NUL">> \o y \o <<"NUL">> \o z
           zeros == Split(bytes, "NUL")
           names == setup.account.names
<1>1. sasl \in Sasls /\ sasl.variant = "Plain" /\ Prepared(sasl)
  BY DEF SInv, Setting, IInv, PreparedWhenSent, Is
<1>2. Name = "PLAIN" /\ Said = First(sasl, NoArg)
  BY <1>1, Framing, SaidFirst DEF Is
<1>3. x = Texts(c)[1] /\ y = Texts(c)[2] /\ z = Texts(c)[3]
  BY DEF Texts, AsSent
<1>4. x \in Text /\ y \in Text /\ z \in Text
  <2>1. x # Prohibited /\ y # Prohibited /\ z # Prohibited
    BY <1>1, <1>3 DEF Prepared
  <2>2. PlainM!Authzid(c) \in Text /\ c.authcid \in Text /\ c.passwd \in Text
    <3>1. c \in PlainM!PlainCreds
      <4>1. c \in CredsOf[sasl.variant]
        BY <1>1, SaslsAssumption
      <4>2. CredsOf["Plain"] = PlainM!PlainCreds
        BY DEF CredsOf
      <4> QED BY <1>1, <4>1, <4>2
    <3>2. /\ c.authzid \in PlainM!Text \cup {NoAuthzid}
          /\ c.authcid \in PlainM!Text /\ c.passwd \in PlainM!Text
      BY <3>1 DEF PlainM!PlainCreds
    <3>3. PlainM!Text = Text
      BY DEF PlainM!Text, Text
    <3>4. <<>> \in Text
      BY EmptySeq DEF Text
    <3> QED BY <3>2, <3>3, <3>4 DEF PlainM!Authzid
  <2>3. \A text \in {PlainM!Authzid(c), c.authcid, c.passwd} : Prep(text) \in Text \cup {Prohibited}
    BY <1>1, PrepAssumption
  <2> QED BY <2>1, <2>2, <2>3 DEF AsSent
<1>5. Said.kind = "plain" /\ Said.bytes = bytes
  <2>1. Said = PlainM!Payload(Texts(c))
    BY <1>1, <1>2 DEF First
  <2>2. \A t : /\ PlainM!Payload(t).kind = "plain"
               /\ PlainM!Payload(t).bytes = t[1] \o <<"NUL">> \o t[2] \o <<"NUL">> \o t[3]
    BY DEF PlainM!Payload
  <2> HIDE DEF c, x, y, z
  <2> QED BY <1>3, <2>1, <2>2, Zenon
<1> HIDE DEF x, y, z
<1>6. OctetsOf(Said) = bytes
  BY <1>5 DEF OctetsOf
<1>7. zeros = <<x, y, z>> \/ Len(zeros) # 3
  <2>1. x \in Seq(Letters) /\ y \in Seq(Letters) /\ z \in Seq(Letters) /\ "NUL" \in Letters
    BY <1>4, TextLetters DEF Letters
  <2> DEFINE separator == "NUL"
             whole == Threefold(x, y, z, separator)
  <2> HIDE DEF Letters, separator
  <2>2. Len(Split(whole, separator)) = 3 => Split(whole, separator) = <<x, y, z>>
    BY <2>1, ThreePieces DEF separator
  <2>3. whole = bytes
    BY Zenon DEF Threefold, separator
  <2> HIDE DEF whole, bytes
  <2> QED BY <2>2, <2>3, Zenon DEF separator
<1> HIDE DEF bytes, zeros
<1>8. /\ Len(zeros) = 3 /\ Tail(zeros) = <<Unclaimed, setup.account.password>>
      /\ identity \in Acting(zeros[1])
  BY <1>2, <1>6, Zenon DEF Identify, zeros
<1>9. zeros = <<x, y, z>>
  BY <1>7, <1>8
<1>10. zeros[1] = x /\ y = Unclaimed /\ z = setup.account.password
  <2>1. Tail(<<x, y, z>>) = <<y, z>> /\ <<x, y, z>>[1] = x
    OBVIOUS
  <2>2. <<y, z>> = <<Unclaimed, setup.account.password>>
    BY <1>8, <1>9, <2>1
  <2> QED BY <1>9, <2>1, <2>2
<1>11. Unclaimed \in names
  BY AccountTexts DEF Unclaimed
<1>12. identity = Claimed(x, y) /\ Claimed(x, y) \in names
  BY <1>8, <1>10, <1>11 DEF Acting, Claimed
<1>13. Intended = Claimed(x, y)
  BY <1>1, Zenon DEF Intended, Is, x, y, PlainM!Authzid
<1>14. Known
  BY <1>1, <1>10, <1>12, <1>13 DEF Known, Is, y, z, Unclaimed
<1> QED BY <1>12, <1>13, <1>14

LEMMA ExternalIdentified ==
    ASSUME SInv, transcript # <<>>, Is("External"), NEW identity \in Identify(OctetsOf(Said))
    PROVE  Known /\ identity = Intended
<1> DEFINE c == sasl.creds
           bytes == IF c.authzid = NoAuthzid THEN <<>> ELSE c.authzid
<1>1. sasl \in Sasls /\ sasl.variant = "External"
  BY DEF SInv, Setting, IInv, Is
<1>2. Name = "EXTERNAL" /\ Said = First(sasl, NoArg)
  BY <1>1, Framing, SaidFirst DEF Is
<1>3. Said.kind = "authzid" /\ Said.bytes = bytes
  <2>1. Said = [kind |-> "authzid", bytes |-> bytes]
    BY <1>1, <1>2 DEF First
  <2> HIDE DEF bytes
  <2> QED BY <2>1
<1> HIDE DEF bytes
<1>4. OctetsOf(Said) = bytes
  BY <1>3 DEF OctetsOf
<1>5. identity \in Acting(bytes)
  BY <1>2, <1>4, Zenon DEF Identify
<1>6. Intended = Claimed(bytes, Unclaimed)
  BY <1>1 DEF Intended, Is, bytes
<1>7. Unclaimed \in setup.account.names
  BY AccountTexts DEF Unclaimed
<1>8. identity = Intended /\ Intended \in setup.account.names
  BY <1>5, <1>6, <1>7 DEF Acting, Claimed
<1> QED BY <1>1, <1>8 DEF Known, Is

LEMMA AnonymousIdentified ==
    ASSUME SInv, transcript # <<>>, Is("Anonymous"), NEW identity \in Identify(OctetsOf(Said))
    PROVE  Known /\ identity = Intended
<1>1. sasl \in Sasls /\ sasl.variant = "Anonymous"
  BY DEF SInv, Setting, IInv, Is
<1>2. Name = "ANONYMOUS"
  BY <1>1, Framing
<1>3. setup.account.anonymous /\ identity = <<"anonymous">>
  BY <1>2, Zenon DEF Identify
<1> QED BY <1>1, <1>3 DEF Known, Intended, Is

\* A message is cut into no more pieces than it has letters, and one.
LEMMA FewPieces ==
    ASSUME NEW S, NEW bytes \in Seq(S), NEW separator
    PROVE  Len(Split(bytes, separator)) <= Len(bytes) + 1
<1> DEFINE places == Occurring(bytes, separator)
           n == Len(bytes)
<1>1. n \in Nat /\ places \subseteq 1..n
  BY LenProperties DEF Occurring
<1>2. IsFiniteSet(places) /\ Occurrences(bytes, separator) = Cardinality(places)
  BY OccurringFinite DEF Occurrences
<1> HIDE DEF places, n
<1>3. IsFiniteSet(1..n) /\ Cardinality(1..n) = n
  BY <1>1, FS_Interval
<1>4. Cardinality(places) <= n /\ Cardinality(places) \in Nat
  BY <1>1, <1>2, <1>3, FS_Subset, FS_CardinalityType
<1>5. Len(Split(bytes, separator)) = Cardinality(places) + 1
  BY <1>2, SplitOccurrences
<1> QED BY <1>1, <1>4, <1>5 DEF n

LEMMA XOAuth2Identified ==
    ASSUME SInv, transcript # <<>>, Is("Xoauth2"), NEW identity \in Identify(OctetsOf(Said))
    PROVE  Known /\ identity = Intended
<1> DEFINE c == sasl.creds
           x == c.username
           t == c.token
           bytes == Pairs("user=", x, "auth=Bearer ", t, "SOH")
           octets == OctetsOf(Said)
           pairs == Split(octets, "SOH")
           found == << <<"user=">> \o Unclaimed, Bearer, <<>>, <<>> >>
<1>1. sasl \in Sasls /\ sasl.variant = "Xoauth2"
  BY DEF SInv, Setting, IInv, Is
<1>2. Name = "XOAUTH2" /\ (Said = First(sasl, NoArg) \/ Said = EmptyPayload)
  <2>1. ~Is("Oauthbearer") /\ ~Is("Login") /\ ~Is("CramMd5")
    BY DEF Is
  <2> QED BY <1>1, <2>1, Framing, SaidFirst
<1>3. x \in Text /\ t \in Text
  <2>1. c \in XOAuth2M!XOAuth2Creds
    <3>1. c \in CredsOf[sasl.variant]
      BY <1>1, SaslsAssumption
    <3>2. CredsOf["Xoauth2"] = XOAuth2M!XOAuth2Creds
      BY DEF CredsOf
    <3> QED BY <1>1, <3>1, <3>2
  <2> QED BY <2>1 DEF XOAuth2M!XOAuth2Creds, XOAuth2M!Text, Text
<1>4. pairs = found /\ identity = Unclaimed
  <2> HIDE DEF pairs, found, octets
  <2> QED BY <1>2, Zenon DEF Identify, pairs, found, octets
<1>5. Len(pairs) = 4
  <2>1. Len(found) = 4
    OBVIOUS
  <2> HIDE DEF pairs, found
  <2> QED BY <1>4, <2>1
<1> HIDE DEF pairs, found
<1>6. Said # EmptyPayload
  <2> SUFFICES ASSUME Said = EmptyPayload PROVE FALSE
    OBVIOUS
  <2>1. octets = <<>>
    BY DEF OctetsOf, EmptyPayload
  <2>2. <<>> \in Seq(Letters)
    BY EmptySeq
  <2> DEFINE none == <<>>
             separator == "SOH"
  <2>3. Len(none) = 0
    OBVIOUS
  <2> HIDE DEF none, separator, Letters, octets
  <2>4. Len(Split(none, separator)) <= Len(none) + 1
    BY <2>2, FewPieces DEF none
  <2>5. Len(Split(none, separator)) = 4
    BY <1>5, <2>1 DEF pairs, separator, none
  <2> QED BY <2>3, <2>4, <2>5
<1>7. octets = bytes
  <2>1. \A d : /\ XOAuth2M!Payload(d).kind = "xoauth2"
               /\ XOAuth2M!Payload(d).bytes
                    = <<"user=">> \o d.username \o <<"SOH", "auth=Bearer ">> \o d.token \o <<"SOH", "SOH">>
    BY DEF XOAuth2M!Payload
  <2>2. Said = XOAuth2M!Payload(c)
    BY <1>1, <1>2, <1>6 DEF First
  <2> HIDE DEF c
  <2>3. Said.kind = "xoauth2" /\ Said.bytes = bytes
    BY <2>1, <2>2, Zenon DEF Pairs
  <2> HIDE DEF bytes
  <2> QED BY <2>3 DEF OctetsOf
<1>8. pairs = << <<"user=">> \o x, <<"auth=Bearer ">> \o t, <<>>, <<>> >>
  <2> DEFINE u == "user="
             a == "auth=Bearer "
             separator == "SOH"
  <2>1. separator \in Letters /\ u \in Letters /\ a \in Letters /\ u # separator /\ a # separator
    BY DEF Letters
  <2>2. x \in Seq(Letters) /\ t \in Seq(Letters)
    BY <1>3, TextLetters
  <2> HIDE DEF Letters, u, a, separator, bytes, octets, x, t
  <2>3. bytes = Pairs(u, x, a, t, separator) /\ pairs = Split(octets, separator)
    BY Zenon DEF bytes, u, a, separator, pairs
  <2>4. Len(Split(Pairs(u, x, a, t, separator), separator)) = 4
    BY <1>5, <1>7, <2>3, Zenon
  <2>5. PairsApart(u, x, a, t, separator)
    BY <2>1, <2>2, <2>4, FourPieces
  <2> QED BY <1>7, <2>3, <2>5, Zenon DEF u, a, PairsApart
<1> HIDE DEF x, t
<1>9. <<"user=">> \o Unclaimed = <<"user=">> \o x /\ Bearer = <<"auth=Bearer ">> \o t
  <2> DEFINE p == <<"user=">> \o Unclaimed
             q == <<"user=">> \o x
             r == <<"auth=Bearer ">> \o t
             b == Bearer
  <2> HIDE DEF p, q, r, b
  <2>1. <<p, b, <<>>, <<>> >> = <<q, r, <<>>, <<>> >>
    BY <1>4, <1>8, Zenon DEF found, p, q, r, b
  <2>2. p = q /\ b = r
    BY <2>1
  <2> QED BY <2>2 DEF p, q, r, b
<1>10. x = setup.account.username
  <2> DEFINE u == "user="
             y == setup.account.username
  <2>1. u \in Letters /\ y \in Text
    BY AccountTexts DEF Letters
  <2> HIDE DEF u, y
  <2>2. <<u>> \o y = <<u>> \o x
    BY <1>9, Zenon DEF u, y, Unclaimed
  <2>3. y = x
    BY <1>3, <2>1, <2>2, Unworded
  <2> QED BY <2>3 DEF y
<1>11. t = setup.account.token
  <2> DEFINE u == "auth=Bearer "
             y == setup.account.token
  <2>1. u \in Letters /\ y \in Text
    BY AccountTexts DEF Letters
  <2> HIDE DEF u, y
  <2>2. <<u>> \o y = <<u>> \o t
    BY <1>9, Zenon DEF u, y, Bearer
  <2>3. y = t
    BY <1>3, <2>1, <2>2, Unworded
  <2> QED BY <2>3 DEF y
<1> QED BY <1>1, <1>4, <1>10, <1>11 DEF Known, Intended, Is, x, t, Unclaimed

LEMMA OAuthBearerIdentified ==
    ASSUME SInv, transcript # <<>>, Is("Oauthbearer"), NEW identity \in Identify(OctetsOf(Said))
    PROVE  Known /\ identity = Intended
<1> DEFINE user == sasl.creds.username
           host == sasl.creds.host
           port == sasl.creds.port
           token == sasl.creds.token
           opening == Opening("n", ",", "a", "=", user)
           bytes == BearerMessage("n", ",", "a", "=", "host=", "port=", port, "auth=Bearer ",
                           user, host, token, "SOH")
           octets == OctetsOf(Said)
           pairs == Split(octets, "SOH")
           begins == <<"n", ",", "a", "=">> \o Unclaimed \o <<",">>
<1>1. sasl \in Sasls /\ sasl.variant = "Oauthbearer"
  BY DEF SInv, Setting, IInv, Is
<1>2. Name = "OAUTHBEARER" /\ (Said = First(sasl, NoArg) \/ Said = [kind |-> "0x01"])
  <2>1. ~Is("Xoauth2") /\ ~Is("Login") /\ ~Is("CramMd5")
    BY DEF Is
  <2> QED BY <1>1, <2>1, Framing, SaidFirst
<1>3. user \in Text /\ host \in Text /\ port \in STRING /\ token \in Text
  <2>1. sasl.creds \in OAuthBearerM!OAuthBearerCreds
    <3>1. sasl.creds \in CredsOf[sasl.variant]
      BY <1>1, SaslsAssumption
    <3>2. CredsOf["Oauthbearer"] = OAuthBearerM!OAuthBearerCreds
      BY DEF CredsOf
    <3> QED BY <1>1, <3>1, <3>2
  <2> QED BY <2>1 DEF OAuthBearerM!OAuthBearerCreds, OAuthBearerM!Text, Text
<1>4. Len(pairs) = 6 /\ pairs[4] = Bearer /\ pairs[1] = begins /\ identity = Unclaimed
  <2> HIDE DEF pairs, begins, octets
  <2> QED BY <1>2, Zenon DEF Identify, pairs, begins, octets
<1> HIDE DEF pairs, begins
<1>5. Said # [kind |-> "0x01"]
  <2> SUFFICES ASSUME Said = [kind |-> "0x01"] PROVE FALSE
    OBVIOUS
  <2> DEFINE separator == "SOH"
             single == <<separator>>
  <2>1. separator \in Letters
    BY DEF Letters
  <2>2. octets = single
    BY DEF OctetsOf
  <2> HIDE DEF separator, Letters, octets
  <2>3. single \in Seq(Letters) /\ Len(single) = 1
    BY <2>1, Single
  <2> HIDE DEF single
  <2>4. Len(Split(single, separator)) <= Len(single) + 1
    BY <2>3, FewPieces
  <2>5. Len(Split(single, separator)) = 6
    BY <1>4, <2>2 DEF pairs, separator
  <2> QED BY <2>3, <2>4, <2>5
<1>6. octets = bytes
  <2>1. \A d : /\ OAuthBearerM!Payload(d).kind = "oauthbearer"
               /\ OAuthBearerM!Payload(d).bytes
                    = <<"n", ",", "a", "=">> \o d.username \o <<",", "SOH", "host=">> \o d.host
                        \o <<"SOH", "port=", d.port, "SOH", "auth=Bearer ">> \o d.token \o <<"SOH", "SOH">>
    BY DEF OAuthBearerM!Payload
  <2>2. Said = OAuthBearerM!Payload(sasl.creds)
    BY <1>1, <1>2, <1>5 DEF First
  <2>3. Said.kind = "oauthbearer" /\ Said.bytes = bytes
    BY <2>1, <2>2, Zenon DEF BearerMessage
  <2> HIDE DEF bytes
  <2> QED BY <2>3 DEF OctetsOf
<1>7. /\ "SOH" \in Letters /\ "host=" \in Letters /\ "port=" \in Letters /\ "auth=Bearer " \in Letters
      /\ "n" \in Letters /\ "," \in Letters /\ "a" \in Letters /\ "=" \in Letters /\ port \in Letters
  BY <1>3 DEF Letters
<1>8. /\ "host=" # "SOH" /\ "port=" # "SOH" /\ "auth=Bearer " # "SOH" /\ "n" # "SOH" /\ "," # "SOH"
      /\ "a" # "SOH" /\ "=" # "SOH"
  OBVIOUS
<1> HIDE DEF user, host, port, token, Letters
<1>9. user \in Seq(Letters) /\ host \in Seq(Letters) /\ token \in Seq(Letters)
  BY <1>3, TextLetters
<1>10. pairs = <<opening>> \o << <<"host=">> \o host, <<"port=", port>>, <<"auth=Bearer ">> \o token,
                                 <<>>, <<>> >>
  <2> DEFINE n == "n"
             comma == ","
             a == "a"
             equals == "="
             h == "host="
             k == "port="
             au == "auth=Bearer "
             separator == "SOH"
             whole == BearerMessage(n, comma, a, equals, h, k, port, au, user, host, token, separator)
  <2>1. /\ separator \in Letters /\ comma \in Letters /\ n \in Letters /\ a \in Letters
        /\ equals \in Letters /\ h \in Letters /\ k \in Letters /\ au \in Letters
    BY <1>7
  <2>2. /\ comma # separator /\ n # separator /\ a # separator /\ equals # separator
        /\ h # separator /\ k # separator /\ au # separator
    BY <1>8
  <2> HIDE DEF n, comma, a, equals, h, k, au, separator, bytes, opening, octets
  <2>3. bytes = whole /\ pairs = Split(octets, separator)
    BY Zenon DEF n, comma, a, equals, h, k, au, separator, bytes, pairs
  <2>4. Len(Split(whole, separator)) = 6
    BY <1>4, <1>6, <2>3, Zenon
  <2>5. BearerApart(n, comma, a, equals, h, k, port, au, user, host, token, separator)
    BY <1>7, <1>9, <2>1, <2>2, <2>4, SixPieces
  <2> HIDE DEF whole
  <2>6. Split(whole, separator) = <<opening>> \o << <<h>> \o host, <<k, port>>, <<au>> \o token, <<>>, <<>> >>
    BY <2>5, Zenon DEF BearerApart, n, comma, a, equals, opening, whole
  <2> QED BY <1>6, <2>3, <2>6, Zenon DEF h, k, au
<1>11. pairs[1] = opening /\ pairs[4] = <<"auth=Bearer ">> \o token
  <2> DEFINE p == opening
             q == <<"host=">> \o host
             r == <<"port=", port>>
             t == <<"auth=Bearer ">> \o token
             none == <<>>
             five == <<q, r, t, none, none>>
             S == {p, q, r, t, none}
  <2> HIDE DEF p, q, r, t, none
  <2>1. p \in S /\ five \in Seq(S) /\ Len(five) = 5 /\ five[3] = t
    OBVIOUS
  <2> HIDE DEF S, five
  <2>2. Consed(<<p>> \o five, p, five)
    BY <2>1, ConsAt
  <2> DEFINE whole == <<p>> \o five
  <2> HIDE DEF whole
  <2>3. whole[1] = p /\ whole[4] = t
    BY <2>1, <2>2 DEF Consed, whole
  <2>4. pairs = whole
    BY <1>10, Zenon DEF whole, p, q, r, t, none, five
  <2> QED BY <2>3, <2>4, Zenon DEF p, t
<1>12. user = setup.account.username
  <2> DEFINE lead == <<"n", ",", "a", "=">>
             end == <<",">>
             y == setup.account.username
             p == lead \o y
             q == lead \o user
  <2>1. y \in Seq(Letters)
    BY AccountTexts, TextLetters DEF Letters
  <2>2. lead \in Seq(Letters) /\ end \in Seq(Letters)
    <3> DEFINE n == "n"
               comma == ","
               a == "a"
               equals == "="
    <3>1. n \in Letters /\ comma \in Letters /\ a \in Letters /\ equals \in Letters
      BY <1>7
    <3> HIDE DEF n, comma, a, equals
    <3>2. <<n, comma, a, equals>> \in Seq(Letters) /\ <<comma>> \in Seq(Letters)
      BY <3>1
    <3> QED BY <3>2, Zenon DEF n, comma, a, equals, lead, end
  <2> HIDE DEF lead, end, y
  <2>3. p \in Seq(Letters) /\ q \in Seq(Letters)
    BY <1>9, <2>1, <2>2, ConcatProperties
  <2>4. p \o end = q \o end
    BY <1>4, <1>11, Zenon DEF begins, Unclaimed, Opening, lead, end, y
  <2> HIDE DEF p, q
  <2>5. p = q
    BY <2>2, <2>3, <2>4, ConcatSimplifications
  <2>6. y = user
    BY <1>9, <2>1, <2>2, <2>5, Cancels DEF p, q
  <2> QED BY <2>6 DEF y
<1>13. token = setup.account.token
  <2> DEFINE u == "auth=Bearer "
             y == setup.account.token
  <2>1. u \in Letters /\ y \in Text
    BY <1>7, AccountTexts
  <2> HIDE DEF u, y
  <2>2. <<u>> \o y = <<u>> \o token
    BY <1>4, <1>11, Zenon DEF u, y, Bearer
  <2>3. y = token
    BY <1>3, <2>1, <2>2, Unworded
  <2> QED BY <2>3 DEF y
<1> QED BY <1>1, <1>4, <1>12, <1>13 DEF Known, Intended, Is, user, token, Unclaimed

LEMMA Identified ==
    ASSUME SInv, transcript # <<>>, Reads = "credentials",
           NEW identity \in Identify(OctetsOf(Said))
    PROVE  Known /\ identity = Intended
<1>1. sasl \in Sasls
  BY DEF SInv, Setting, IInv
<1>2. ~Is("Login") /\ ~Is("CramMd5") /\ sasl.variant \notin Relays
  BY <1>1, Framing
<1>3. \/ Is("Plain") \/ Is("External") \/ Is("Anonymous") \/ Is("Xoauth2") \/ Is("Oauthbearer")
  BY <1>1, <1>2, Variants DEF Is, Relays
<1> QED BY <1>3, PlainIdentified, ExternalIdentified, AnonymousIdentified, XOAuth2Identified,
           OAuthBearerIdentified

\* A password goes to the server that was told the name it belongs to.
LEMMA PasswordIdentified ==
    ASSUME SInv, AwaitsPassword, wire.to = "server",
           server.username = setup.account.username, Said.bytes = setup.account.password
    PROVE  Known /\ Unclaimed = Intended
<1>1. Is("Login") /\ Len(transcript) = 2 /\ transcript # <<>> /\ server.username = sasl.creds.username
  BY DEF AwaitsPassword
<1>2. PICK arg \in Args : Said = Message(sasl, Len(transcript), arg)
  BY <1>1, SaidLast DEF SInv, Setting
<1>3. Said = [kind |-> "password", bytes |-> sasl.creds.password]
  BY <1>1, <1>2 DEF Message, Is
<1>4. Said.bytes = sasl.creds.password
  BY <1>3
<1> QED BY <1>1, <1>4 DEF Known, Intended, Is, Unclaimed

\* A digest is one of the challenge it was asked for, under the secret it was made with.
LEMMA DigestIdentified ==
    ASSUME SInv, transcript # <<>>, Reads = "digest", NEW challenge,
           Said.username = setup.account.username,
           Said.digest = CramMd5M!Digest(setup.account.password, challenge)
    PROVE  Known /\ Unclaimed = Intended
<1>1. sasl \in Sasls
  BY DEF SInv, Setting, IInv
<1>2. Is("CramMd5")
  BY <1>1, Framing
<1>3. PICK arg \in Args : /\ Due(sasl, Len(transcript), arg)
                          /\ Said = Message(sasl, Len(transcript), arg)
  BY SaidLast DEF SInv, Setting
<1>4. Len(transcript) = 1
  BY <1>2, SaidLast DEF SInv, Setting, Is, OAuths
<1>5. Said = [kind |-> "digest", username |-> sasl.creds.username,
              digest |-> CramMd5M!Digest(sasl.creds.secret, arg.bytes)]
  BY <1>2, <1>3, <1>4 DEF Message, First, Is
<1>6. /\ Said.username = sasl.creds.username
      /\ Said.digest = CramMd5M!Digest(sasl.creds.secret, arg.bytes)
  BY <1>5
<1>7. \A k, b : CramMd5M!Digest(k, b).hmac_md5 = k
  BY DEF CramMd5M!Digest
<1>8. sasl.creds.secret = setup.account.password
  <2>1. Said.digest.hmac_md5 = sasl.creds.secret
    BY <1>6, <1>7, Zenon
  <2>2. Said.digest.hmac_md5 = setup.account.password
    BY <1>7, Zenon
  <2> QED BY <2>1, <2>2
<1> QED BY <1>2, <1>6, <1>8 DEF Known, Intended, Is, Unclaimed

\* What the server reads out of the message that arrived gives access to who was asked for.
Granted == server.state = "accepted" => Known /\ server.identity = Intended

LEMMA Judged ==
    ASSUME NEW identities, Decide(identities),
           \A identity \in identities : Known /\ identity = Intended
    PROVE  Granted'
<1>1. UNCHANGED <<sasl, setup>>
  BY DEF Decide, Say, vars
<1>2. (Known <=> Known') /\ Intended' = Intended
  BY <1>1 DEF Known, Intended, Is, AsSent, Unclaimed
<1>3. CASE \E identity \in identities : server' = [state |-> "accepted", identity |-> identity]
  <2>1. PICK identity \in identities : server' = [state |-> "accepted", identity |-> identity]
    BY <1>3
  <2>2. server'.identity = identity
    BY <2>1
  <2> QED BY <1>2, <2>1, <2>2 DEF Granted
<1>4. CASE server' = [state |-> "denied"]
  <2>1. server'.state = "denied"
    BY <1>4
  <2> QED BY <2>1 DEF Granted
<1>5. CASE server' = [state |-> "rejected", wants |-> "acknowledgement"]
  <2>1. server'.state = "rejected"
    BY <1>5
  <2> QED BY <2>1 DEF Granted
<1> QED BY <1>3, <1>4, <1>5 DEF Decide

LEMMA FirstReadGrants ==
    ASSUME SInv, transcript # <<>>, Read(Reads, Said)
    PROVE  Granted'
<1>1. sasl \in Sasls
  BY DEF SInv, Setting, IInv
<1>2. CASE Reads = "username"
  <2>1. server' = [state |-> "open", wants |-> "password", username |-> Said.bytes]
    BY <1>2, Zenon DEF Read
  <2>2. server'.state = "open"
    BY <2>1
  <2> QED BY <2>2 DEF Granted
<1>3. CASE Reads = "digest"
  <2> DEFINE same == /\ Said.username = Unclaimed
                     /\ Said.digest = CramMd5M!Digest(setup.account.password, server.challenge)
             identities == IF same THEN {Unclaimed} ELSE {}
  <2>1. Decide(identities)
    BY <1>3, Zenon DEF Read
  <2>2. same => Known /\ Unclaimed = Intended
    BY <1>3, DigestIdentified DEF Unclaimed
  <2> HIDE DEF same
  <2>3. \A identity \in identities : Known /\ identity = Intended
    BY <2>2
  <2> QED BY <2>1, <2>3, Judged
<1>4. CASE Reads = "credentials"
  <2>1. Decide(Identify(OctetsOf(Said)))
    BY <1>4, Zenon DEF Read
  <2>2. \A identity \in Identify(OctetsOf(Said)) : Known /\ identity = Intended
    BY <1>4, Identified
  <2> QED BY <2>1, <2>2, Judged
<1> QED BY <1>1, <1>2, <1>3, <1>4, Framing

LEMMA ReadCommandGrants ==
    ASSUME SInv, ReadCommand
    PROVE  Granted'
<1>1. PICK payload \in wire.initial : Read(Reads, payload)
  BY DEF ReadCommand
<1>2. /\ wire.initial = {Said} /\ Len(transcript) = 1
  BY <1>1, Travels DEF SInv, ReadCommand
<1>3. transcript # <<>>
  BY <1>2, EmptySeq
<1>4. Read(Reads, Said)
  BY <1>1, <1>2
<1> QED BY <1>3, <1>4, FirstReadGrants

LEMMA ReadResponseGrants ==
    ASSUME SInv, Granted, ReadResponse
    PROVE  Granted'
<1>1. /\ Arrived("response") /\ wire.to = "server" /\ server.state \in {"open", "rejected"}
      /\ Read(server.wants, wire.payload)
  BY DEF ReadResponse, Arrived
<1>2. transcript # <<>> /\ wire.payload = Said
  BY <1>1, Travels DEF SInv
<1>3. CASE server.wants = Reads
  BY <1>1, <1>2, <1>3, FirstReadGrants
<1>4. CASE AwaitsPassword
  <2> DEFINE same == server.username = Unclaimed /\ Said.bytes = setup.account.password
             identities == IF same THEN {Unclaimed} ELSE {}
  <2>1. server.wants = "password"
    BY <1>4 DEF AwaitsPassword
  <2>2. Decide(identities)
    BY <1>1, <1>2, <2>1, Zenon DEF Read
  <2>3. same => Known /\ Unclaimed = Intended
    BY <1>1, <1>4, PasswordIdentified DEF Unclaimed
  <2> HIDE DEF same
  <2>4. \A identity \in identities : Known /\ identity = Intended
    BY <2>3
  <2> QED BY <2>2, <2>4, Judged
<1>5. CASE server.wants = "acknowledgement"
  <2>1. UNCHANGED server
    BY <1>1, <1>5, Zenon DEF Read
  <2> QED BY <1>1, <2>1 DEF Granted
<1> QED BY <1>1, <1>3, <1>4, <1>5 DEF SInv, Serving

LEMMA OthersGrant ==
    ASSUME Granted, [SessionNext]_sessionvars, ~ReadCommand, ~ReadResponse
    PROVE  Granted'
<1>1. CASE UNCHANGED <<sasl, setup, server>>
  BY <1>1 DEF Granted, Known, Intended, Is, AsSent, Unclaimed
<1>2. CASE Retry \/ Prompt
  <2>1. server'.state = "idle" \/ server'.state = "open"
    BY <1>2 DEF Retry, Prompt, Idle
  <2> QED BY <2>1 DEF Granted
<1>3. Driver \/ RefuseResponse \/ Stray \/ Abandon \/ UNCHANGED sessionvars
        => UNCHANGED <<sasl, setup, server>>
  BY DEF Driver, Begin, AnswerHeld, AnswerChallenge, AnswerSuccess, TakeRefusal, Feed,
         RefuseResponse, Say, Stray, Abandon, sessionvars, vars
<1> QED BY <1>1, <1>2, <1>3 DEF SessionNext, Server, Rest

\* A server gives access to the credentials it stores and to the identity that was asked
\* for, whatever the texts are made of and whatever happened before, and where the wire
\* keeps its word the driver is told of a success that the server decided on.
THEOREM AccessGranted == SessionSpec => []OutcomesAgree
<1>1. SessionInit => Granted
  BY DEF SessionInit, Idle, Granted
<1>2. SInv /\ Granted /\ [SessionNext]_sessionvars => Granted'
  BY ReadCommandGrants, ReadResponseGrants, OthersGrant
<1>3. SInv /\ Granted => OutcomesAgree
  BY DEF SInv, Authenticated, Granted, OutcomesAgree
<1> QED BY <1>1, <1>2, <1>3, SessionInvariance, PTL DEF SessionSpec
====
