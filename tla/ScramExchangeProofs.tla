---- MODULE ScramExchangeProofs ----
(***************************************************************************)
(* Theorems about ScramExchange: mutual authentication, for every set of   *)
(* credentials, nonces and passwords, and however many exchanges follow    *)
(* one another under a wire that replays, rewrites and forges.             *)
(*                                                                         *)
(* The invariant says whose every signature is.  A server signs what it    *)
(* was sent and answered itself; as no two coroutines share a nonce, a     *)
(* signature that names the current nonce is one of the current exchange,  *)
(* and one that names another can satisfy no coroutine built since.        *)
(***************************************************************************)
EXTENDS ScramExchange, ScramProofs, Gs2Proofs

InUse(nonce) == \E c \in Creds : c.nonce \in used /\ nonce = ClientNonce(c)

\* What is on its way to the server is what the coroutine has just written.
Outbound == wire.to = "server" => outcome = "running" /\ last.reply = WantsWrite(wire.payload)

Headers == {Header(b, NoAuthzid) : b \in Bindings}

Signing == server.state \in {"verified", "unverified"}

\* A server in mid-exchange holds what this coroutine wrote, but for the header, and it
\* has signed nothing while the proof is on its way or not yet made.
ServerSide ==
    \/ server \in {NoServer, [state |-> "refused"]}
    \/ /\ server = [state |-> server.state, header |-> server.header,
                    bare |-> server.bare, first |-> server.first]
       /\ server.state = "challenged" \/ Signing
       /\ server.header \in Headers /\ Suits(server.header)
       /\ server.bare = ClientFirstBare(Prepare(creds.username), ClientNonce(creds))
       /\ IsMessage(server.first)
       /\ ~Arrived("client-first")
       /\ state # "SendClientFirst"
       /\ Signing => ~Arrived("client-final") /\ state # "SendClientFinal"

\* A signature is this server's, over a nonce in use; over the current nonce, it is the
\* signature of the current exchange.
Signed(s) ==
    /\ s.salted.secret = setup.stored
    /\ InUse(s.auth.bare.r)
    /\ s.auth.bare.r = ClientNonce(creds) =>
          Signing /\ server.bare = s.auth.bare /\ server.first = s.auth.server_first

Genuine(message) ==
    message.kind \in {"challenge", "success with data"} =>
        /\ IsMessage(message.bytes)
        /\ StartsWith(message.bytes, "v") => Signed(message.bytes[1][2])

Traffic == /\ \A m \in seen : m.to = "driver" /\ Genuine(m)
           /\ wire.to = "driver" => Genuine(wire)

\* Once the coroutine is done, the two ends agree.
Agreed ==
    state = "Done" =>
        /\ setup.stored = Prepare(creds.password)
        /\ Signing
        /\ server.bare = client_first_bare
        /\ server.first = Answered

Authenticated == outcome = "authenticated" => state = "Done"

EInv == /\ IInv
        /\ creds.nonce \in used /\ setup.material \in Materials
        /\ Outbound /\ ServerSide /\ Traffic /\ Agreed /\ Authenticated
        /\ BindingAgreement
----
(***************************************************************************)
(* What one resume does to the coroutine, and what a write says.           *)
(***************************************************************************)
LEMMA ResumeEffect ==
    ASSUME IInv, NEW arg, Feedable(arg), Resume(arg)
    PROVE  /\ creds' = creds
           /\ \/ /\ UNCHANGED <<machine, transcript>>
                 /\ last'.reply.kind \in {"Ok", "Err"}
                 /\ last'.reply.kind = "Ok" => state = "Done"
              \/ /\ last'.reply.kind = "WantsWrite"
                 /\ last'.reply = WantsWrite(last'.reply.payload)
                 /\ \/ /\ state = "SendClientFirst" /\ state' = "SendClientFinal"
                       /\ last'.reply.payload.kind = "client-first"
                    \/ /\ state = "SendClientFinal" /\ state' = "Acknowledge"
                       /\ last'.reply.payload.kind = "client-final"
                    \/ /\ state = "Acknowledge" /\ state' = "Done"
                       /\ last'.reply.payload.kind = "empty"
                       /\ arg = Input(ServerFinal(Reference(creds, Answered)))
                       /\ Answered' = Answered
                       /\ client_first_bare' = client_first_bare
<1>1. CASE SendClientFirst(arg)
  BY <1>1 DEF SendClientFirst, Write, WantsWrite, ClientFirst
<1>2. CASE SendClientFinal(arg)
  BY <1>2 DEF SendClientFinal, Write, WantsWrite, ClientFinal
<1>3. CASE Acknowledge(arg)
  <2>1. PICK m : ServerFirstFault(m, creds) = NoFault /\ AtAcknowledge(m)
    BY <1>3, PositionCases DEF AtClientFirst, AtClientFinal, AtDone, Acknowledge
  <2>2. Answered = m
    BY <2>1, PositionKnown
  <2>3. arg = Input(arg.bytes) /\ IsMessage(arg.bytes)
    BY <1>3 DEF Acknowledge, Feedable, NoArg, PeerDone
  <2>4. arg.bytes = ServerFinal(Reference(creds, Answered))
    BY <1>3, <2>1, <2>2, <2>3, OnlyTheSignaturePasses DEF Acknowledge, AtAcknowledge
  <2>5. transcript' = Append(transcript, last') /\ creds' = creds
    BY <1>3 DEF Acknowledge, Write
  <2>6. transcript = <<FirstStep(creds), FinalStep(creds, m)>>
    BY <2>1 DEF AtAcknowledge
  <2>7. transcript' = <<FirstStep(creds), FinalStep(creds, m), last'>>
    BY <2>5, <2>6, Appends
  <2>8. Answered' = Answered
    BY <2>6, <2>7 DEF Answered
  <2> QED BY <1>3, <2>3, <2>4, <2>8 DEF Acknowledge, Write, WantsWrite, EmptyPayload
<1>4. CASE Finish(arg)
  BY <1>4 DEF Finish, Return, CompleteOk
<1>5. CASE \E error : Fail(arg, error)
  BY <1>5 DEF Fail, Return, CompleteErr
<1> QED BY <1>1, <1>2, <1>3, <1>4, <1>5 DEF Resume, RefuseCredentials, RefuseServerFirst,
        RefuseServerFinal, RefuseEnd, RefuseUnexpected

LEMMA PayloadRead ==
    ASSUME IInv, NEW p, last.reply = WantsWrite(p)
    PROVE  /\ p.kind = "client-first" =>
                 /\ state = "SendClientFinal"
                 /\ p.header = Gs2Header(creds)
                 /\ p.bare = ClientFirstBare(Prepare(creds.username), ClientNonce(creds))
           /\ p.kind = "client-final" =>
                 /\ state = "Acknowledge"
                 /\ p.without_proof = WithoutProof(Answered, creds)
<1>1. last = transcript[Len(transcript)] /\ transcript # <<>> /\ p = last.reply.payload
  BY DEF IInv, LastAnswer, WantsWrite
<1>2. CASE AtClientFirst
  BY <1>1, <1>2 DEF AtClientFirst
<1>3. CASE AtClientFinal
  <2>1. p = FirstStep(creds).reply.payload
    BY <1>1, <1>3 DEF AtClientFinal
  <2> QED BY <1>3, <2>1 DEF AtClientFinal, FirstStep, WantsWrite, ClientFirst
<1>4. CASE \E m : AtAcknowledge(m)
  <2>1. PICK m : AtAcknowledge(m)
    BY <1>4
  <2>2. p = FinalStep(creds, m).reply.payload /\ Answered = m
    BY <1>1, <2>1, PositionKnown DEF AtAcknowledge
  <2> QED BY <2>1, <2>2 DEF AtAcknowledge, FinalStep, WantsWrite, ClientFinal
<1>5. CASE \E m : AtDone(m)
  <2>1. PICK m : AtDone(m)
    BY <1>5
  <2>2. p = AckStep(creds, m).reply.payload
    BY <1>1, <2>1 DEF AtDone
  <2> QED BY <2>2 DEF AckStep, WantsWrite, EmptyPayload
<1> QED BY <1>2, <1>3, <1>4, <1>5, PositionCases
----
(***************************************************************************)
(* Steps of the driver.                                                    *)
(***************************************************************************)
\* The signature that completes an exchange is one of this very exchange.
LEMMA SignatureAgrees ==
    ASSUME EInv, state = "Acknowledge",
           NEW arg, arg = Input(ServerFinal(Reference(creds, Answered))),
           StartsWith(arg.bytes, "v") => Signed(arg.bytes[1][2])
    PROVE  /\ setup.stored = Prepare(creds.password)
           /\ Signing
           /\ server.bare = client_first_bare
           /\ server.first = Answered
<1> DEFINE s == Reference(creds, Answered)
<1>1. Signed(s)
  BY DEF Input, ServerFinal, StartsWith
<1>2. /\ s.salted.secret = Prepare(creds.password)
      /\ s.auth.bare = ClientFirstBare(Prepare(creds.username), ClientNonce(creds))
      /\ s.auth.server_first = Answered
  BY DEF Reference, ServerSignature, SaltedPassword, Pbkdf2, AuthMessage
<1>3. s.auth.bare.r = ClientNonce(creds)
  BY <1>2 DEF ClientFirstBare
<1>4. client_first_bare = ClientFirstBare(Prepare(creds.username), ClientNonce(creds))
  BY PositionCases DEF EInv, AtClientFirst, AtClientFinal, AtAcknowledge, AtDone, AllPrepared
<1> QED BY <1>1, <1>2, <1>3, <1>4 DEF Signed

LEMMA Feeding ==
    ASSUME EInv, NEW arg, Feedable(arg), Feed(arg),
           arg.kind = "Input" => (StartsWith(arg.bytes, "v") => Signed(arg.bytes[1][2])),
           \/ wire' \in {Quiet, Success}
           \/ last'.reply.kind = "WantsWrite" /\ wire' = ToServer(last'.reply.payload)
    PROVE  EInv'
<1>1. /\ outcome = "running"
      /\ Resume(arg)
      /\ UNCHANGED <<setup, server, seen, used, clean>>
  BY DEF Feed
<1>2. IInv' /\ creds' = creds
  BY <1>1, Resuming, ResumeEffect DEF EInv
<1>3. creds'.nonce \in used' /\ setup'.material \in Materials
  BY <1>1, <1>2 DEF EInv
<1>4. Outbound'
  <2>1. CASE wire' \in {Quiet, Success}
    BY <2>1 DEF Outbound, Quiet, Success
  <2>2. CASE last'.reply.kind = "WantsWrite" /\ wire' = ToServer(last'.reply.payload)
    <3>1. wire'.payload = last'.reply.payload
      BY <2>2 DEF ToServer
    <3>2. last'.reply = WantsWrite(wire'.payload)
      BY <1>1, <2>2, <3>1, ResumeEffect DEF EInv
    <3>3. outcome' = "running"
      BY <2>2 DEF Feed
    <3> QED BY <3>2, <3>3 DEF Outbound
  <2> QED BY <2>1, <2>2
<1>5. wire'.to = "server" => wire'.payload = last'.reply.payload /\ last'.reply.kind = "WantsWrite"
  BY DEF Quiet, Success, ToServer
<1>6. ServerSide'
  <2>1. CASE server \in {NoServer, [state |-> "refused"]}
    BY <1>1, <2>1 DEF ServerSide, NoServer
  <2>2. CASE server \notin {NoServer, [state |-> "refused"]}
    <3>1. /\ server = [state |-> server.state, header |-> server.header,
                       bare |-> server.bare, first |-> server.first]
          /\ server.state = "challenged" \/ Signing
          /\ server.header \in Headers /\ Suits(server.header)
          /\ server.bare = ClientFirstBare(Prepare(creds.username), ClientNonce(creds))
          /\ IsMessage(server.first)
          /\ state # "SendClientFirst"
          /\ Signing => state # "SendClientFinal"
      BY <2>2 DEF EInv, ServerSide
    <3>2. state' # "SendClientFirst" /\ (wire'.to = "server" => wire'.payload.kind # "client-first")
      BY <1>1, <1>5, <3>1, ResumeEffect DEF EInv, machine
    <3>3. Signing => /\ state' # "SendClientFinal"
                     /\ wire'.to = "server" => wire'.payload.kind # "client-final"
      BY <1>1, <1>5, <3>1, ResumeEffect DEF EInv, machine
    <3>4. (/\ server = [state |-> server.state, header |-> server.header,
                        bare |-> server.bare, first |-> server.first]
           /\ server.state = "challenged" \/ Signing
           /\ server.header \in Headers /\ Suits(server.header)
           /\ server.bare = ClientFirstBare(Prepare(creds.username), ClientNonce(creds))
           /\ IsMessage(server.first))'
      BY <1>1, <1>2, <3>1 DEF Signing, Headers, Suits, IsMessage
    <3> QED BY <1>1, <3>2, <3>3, <3>4 DEF ServerSide, Arrived, Signing
  <2> QED BY <2>1, <2>2
<1>7. \A s : Signed(s)' = Signed(s)
  BY <1>1, <1>2 DEF Signed, Signing, InUse
<1>8. Traffic'
  <2>1. (wire.to = "driver" => Genuine(wire))'
    <3>1. wire'.to = "driver" => wire' = Success
      BY DEF Quiet, ToServer
    <3>2. Success.kind = "success"
      BY DEF Success
    <3> QED BY <3>1, <3>2 DEF Genuine
  <2>2. (\A m \in seen : m.to = "driver" /\ Genuine(m))'
    <3>1. \A m : Genuine(m) => Genuine(m)'
      BY <1>7 DEF Genuine
    <3> QED BY <1>1, <3>1 DEF EInv, Traffic
  <2> QED BY <2>1, <2>2 DEF Traffic
<1>9. Agreed'
  <2> SUFFICES ASSUME state' = "Done" PROVE Agreed'
    BY DEF Agreed
  <2>1. \/ UNCHANGED <<machine, transcript>>
        \/ /\ state = "Acknowledge"
           /\ arg = Input(ServerFinal(Reference(creds, Answered)))
           /\ Answered' = Answered
           /\ client_first_bare' = client_first_bare
    BY <1>1, ResumeEffect DEF EInv
  <2>2. CASE UNCHANGED <<machine, transcript>>
    BY <1>1, <1>2, <2>2 DEF EInv, Agreed, Signing, Answered, machine
  <2>3. CASE /\ state = "Acknowledge"
             /\ arg = Input(ServerFinal(Reference(creds, Answered)))
             /\ Answered' = Answered
             /\ client_first_bare' = client_first_bare
    <3>1. arg.kind = "Input"
      BY <2>3 DEF Input
    <3> QED BY <1>1, <1>2, <2>3, <3>1, SignatureAgrees DEF Agreed, Signing
  <2> QED BY <2>1, <2>2, <2>3
<1>10. Authenticated'
  BY <1>1, ResumeEffect DEF EInv, Feed, Authenticated, machine
<1>11. BindingAgreement'
  BY <1>1, <1>2 DEF EInv, BindingAgreement
<1> QED BY <1>2, <1>3, <1>4, <1>6, <1>8, <1>9, <1>10, <1>11 DEF EInv

LEMMA DriverStep == ASSUME EInv, Driver PROVE EInv'
<1>1. CASE Begin
  <2>1. Feedable(NoArg)
    BY DEF Feedable
  <2> QED BY <1>1, <2>1, Feeding DEF Begin, Send, NoArg
<1>2. ASSUME wire.to = "driver", wire.kind \in {"challenge", "success with data"}
      PROVE  /\ Feedable(Input(wire.bytes))
             /\ Input(wire.bytes).kind = "Input" /\ Input(wire.bytes).bytes = wire.bytes
             /\ StartsWith(wire.bytes, "v") => Signed(wire.bytes[1][2])
  BY <1>2 DEF EInv, Traffic, Genuine, Feedable, Input
<1>3. CASE AnswerChallenge
  BY <1>2, <1>3, Feeding DEF AnswerChallenge, Send
<1>4. CASE AnswerSuccessWith
  BY <1>2, <1>4, Feeding DEF AnswerSuccessWith
<1>5. CASE AnswerSuccess
  <2>1. Feedable(PeerDone)
    BY DEF Feedable
  <2> QED BY <1>5, <2>1, Feeding DEF AnswerSuccess, Send, PeerDone
<1>6. CASE TakeRefusal
  <2>1. /\ UNCHANGED <<vars, setup, server, seen, used, clean>>
        /\ wire' = Quiet /\ outcome' = "refused"
    BY <1>6 DEF TakeRefusal
  <2>2. IInv' /\ creds' = creds /\ state' = state /\ setup'.material \in Materials
    BY <2>1, Idling DEF EInv, vars, machine
  <2>3. Outbound' /\ Authenticated' /\ BindingAgreement'
    BY <2>1, <2>2 DEF Outbound, Quiet, Authenticated, EInv, BindingAgreement
  <2>4. ServerSide'
    BY <2>1, <2>2 DEF EInv, ServerSide, Arrived, Quiet, Signing, Headers, Suits, IsMessage
  <2>5. Traffic'
    BY <2>1, <2>2 DEF EInv, Traffic, Genuine, Signed, Signing, InUse, IsMessage, Quiet
  <2>6. Agreed'
    BY <2>1, <2>2 DEF EInv, Agreed, Signing, Answered, vars, machine
  <2> QED BY <2>1, <2>2, <2>3, <2>4, <2>5, <2>6 DEF EInv
<1> QED BY <1>1, <1>3, <1>4, <1>5, <1>6 DEF Driver
----
\* A channel binding can only be read one way.
LEMMA ChannelReadsBack ==
    ASSUME NEW b \in Bindings, NEW d \in Bindings, NEW material \in Materials,
           CbindInput(d, NoAuthzid) =
               Header(b, NoAuthzid) \o (IF Header(b, NoAuthzid)[1] = "p" THEN material ELSE <<>>)
    PROVE  /\ Header(b, NoAuthzid) = Header(d, NoAuthzid)
           /\ IsBound(d) => d.data = material
<1> DEFINE g == Header(b, NoAuthzid)
           h == Header(d, NoAuthzid)
           s == IF g[1] = "p" THEN material ELSE <<>>
           t == IF IsBound(d) THEN d.data ELSE <<>>
<1>1. s \in Seq(Tokens) /\ t \in Seq(Tokens)
  <2>1. Materials \subseteq Seq(Tokens)
    <3>1. STRING \subseteq Tokens
      BY DEF Tokens
    <3> HIDE DEF Tokens
    <3> QED BY <3>1, ExchangeAssumption, SeqMonotonic DEF Text
  <2>2. <<>> \in Seq(Tokens)
    BY EmptySeq
  <2> QED BY <2>1, <2>2, BindingShape
<1>2. NoAuthzid \in Identities
  BY DEF Identities
<1>3. g \o s = h \o t
  BY DEF CbindInput
<1>4. Flag(b) = Flag(d) /\ s = t
  <2> HIDE DEF g, h, s, t
  <2>1. Headed(b, NoAuthzid, s) = Headed(d, NoAuthzid, t)
    BY <1>3 DEF g, h, Headed
  <2> QED BY <1>1, <1>2, <2>1, HeaderReadsBack
<1>5. g = h
  BY <1>4, Zenon DEF Header
<1>6. g[1] = d.flag
  BY <1>2, <1>5, HeaderFlag
<1> QED BY <1>4, <1>5, <1>6 DEF IsBound
----
(***************************************************************************)
(* Steps of the server, of the wire, and of the driver that starts over.   *)
(***************************************************************************)
\* What every answer of the server, and of the wire in its place, has in common.
LEMMA Answering ==
    ASSUME EInv, UNCHANGED <<vars, setup, outcome, used>>,
           \A s : Signed(s) => Signed(s)',
           wire'.to = "driver",
           Genuine(wire)',
           seen' \subseteq seen \cup {wire'},
           ServerSide', Agreed', BindingAgreement'
    PROVE  EInv'
<1>1. IInv' /\ creds'.nonce \in used' /\ setup'.material \in Materials /\ Authenticated'
  BY Idling DEF EInv, vars, machine, Authenticated
<1>2. Outbound'
  BY DEF Outbound
<1>3. Traffic'
  <2>1. \A m : Genuine(m) => Genuine(m)'
    BY DEF Genuine
  <2>2. (\A m \in seen : m.to = "driver" /\ Genuine(m))'
    BY <2>1 DEF EInv, Traffic, Genuine
  <2> QED BY <2>2 DEF Traffic
<1> QED BY <1>1, <1>2, <1>3 DEF EInv

\* A signature over the current nonce exists only once the server has signed.
LEMMA NotYetSigned ==
    ASSUME EInv, ~Signing, UNCHANGED <<vars, setup, outcome, used>>
    PROVE  \A s : Signed(s) => Signed(s)'
BY DEF Signed, InUse, vars

LEMMA Reading ==
    ASSUME EInv, NEW header \in Headers, ReadClientFirst(header)
    PROVE  EInv'
<1>1. /\ UNCHANGED <<vars, setup, outcome, used>>
      /\ wire.to = "server" /\ wire.payload.kind = "client-first"
      /\ server = NoServer
  BY DEF ReadClientFirst, Say, Arrived
<1>2. /\ state = "SendClientFinal"
      /\ wire.payload.bare = ClientFirstBare(Prepare(creds.username), ClientNonce(creds))
  BY <1>1, PayloadRead DEF EInv, Outbound
<1>3. ~Signing
  BY <1>1 DEF Signing, NoServer
<1>4. state' = state /\ creds' = creds
  BY <1>1 DEF vars, machine
<1>5. CASE Suits(header)
  <2> DEFINE bare == wire.payload.bare
             offer(n) == << <<"r", bare.r \o <<n>>>>, <<"s", "salt">>, <<"i", 1>> >>
  <2>0. PICK n \in ServerNonces :
           /\ server' = [state |-> "challenged", header |-> header, bare |-> bare,
                         first |-> offer(n)]
           /\ Say(Challenge(offer(n)))
    BY <1>5 DEF ReadClientFirst
  <2>1. PICK first :
           /\ first = offer(n)
           /\ server' = [state |-> "challenged", header |-> header, bare |-> bare, first |-> first]
           /\ Say(Challenge(first))
    BY <2>0
  <2>2. wire' = Challenge(first) /\ seen' \subseteq seen \cup {wire'}
    BY <2>1 DEF Say
  <2>3. wire'.to = "driver" /\ wire'.bytes = first
    BY <2>2 DEF Challenge
  <2>4. IsMessage(first) /\ ~StartsWith(first, "v")
    BY <2>1 DEF IsMessage, StartsWith
  <2>5. Genuine(wire)'
    BY <2>3, <2>4 DEF Genuine, IsMessage, StartsWith
  <2>6. ServerSide'
    <3>1. Suits(header)'
      BY <1>1, <1>5 DEF Suits
    <3>2. server'.bare = ClientFirstBare(Prepare(creds.username), ClientNonce(creds))'
      BY <1>2, <1>4, <2>1
    <3> QED BY <1>2, <1>4, <2>1, <2>3, <2>4, <3>1, <3>2 DEF ServerSide, Signing, Arrived, Headers,
            IsMessage
  <2>7. Agreed' /\ BindingAgreement'
    BY <1>2, <1>4, <2>1 DEF Agreed, BindingAgreement
  <2> QED BY <1>1, <1>3, <2>2, <2>3, <2>5, <2>6, <2>7, NotYetSigned, Answering
<1>6. CASE ~Suits(header)
  <2>1. Say(Refusal) /\ server' = [state |-> "refused"]
    BY <1>6 DEF ReadClientFirst
  <2>2. wire' = Refusal /\ seen' \subseteq seen \cup {wire'}
    BY <2>1 DEF Say
  <2>3. wire'.to = "driver" /\ Genuine(wire)'
    BY <2>2 DEF Refusal, Genuine
  <2>4. ServerSide' /\ Agreed' /\ BindingAgreement'
    BY <1>2, <1>4, <2>1 DEF ServerSide, Agreed, BindingAgreement
  <2> QED BY <1>1, <1>3, <2>2, <2>3, <2>4, NotYetSigned, Answering
<1> QED BY <1>5, <1>6

LEMMA SignatureMessage ==
    ASSUME NEW s, NEW message \in {Challenge(ServerFinal(s)), SuccessWith(ServerFinal(s))}
    PROVE  message.to = "driver" /\ IsMessage(message.bytes) /\ message.bytes[1][2] = s
<1>1. message.to = "driver" /\ message.bytes = << <<"v", s>> >>
  <2>1. ASSUME NEW f
        PROVE  /\ Challenge(f).to = "driver" /\ Challenge(f).bytes = f
               /\ SuccessWith(f).to = "driver" /\ SuccessWith(f).bytes = f
    BY DEF Challenge, SuccessWith
  <2>2. ServerFinal(s) = << <<"v", s>> >>
    BY DEF ServerFinal
  <2>3. message = Challenge(ServerFinal(s)) \/ message = SuccessWith(ServerFinal(s))
    OBVIOUS
  <2> QED BY <2>1, <2>2, <2>3
<1>2. ASSUME NEW m, m = << <<"v", s>> >> PROVE IsMessage(m) /\ m[1][2] = s
  BY <1>2 DEF IsMessage
<1> QED BY <1>1, <1>2

\* The server signs, having verified the proof or not.
LEMMA Confirming ==
    ASSUME EInv, Arrived("client-final"), server.state = "challenged",
           NEW how \in {"verified", "unverified"}, how = "verified" => Verifies(wire.payload),
           server' = [server EXCEPT !.state = how],
           NEW s, s = ServerSignature(ServerSalted, ServerAuth),
           NEW message \in {Challenge(ServerFinal(s)), SuccessWith(ServerFinal(s))}, Say(message)
    PROVE  EInv'
<1>1. UNCHANGED <<vars, setup, outcome, used>>
  BY DEF Say
<1>2. /\ state = "Acknowledge"
      /\ wire.payload.without_proof = WithoutProof(Answered, creds)
  BY PayloadRead DEF EInv, Outbound, Arrived
<1>3. /\ server = [state |-> "challenged", header |-> server.header,
                   bare |-> server.bare, first |-> server.first]
      /\ server.header \in Headers /\ Suits(server.header)
      /\ server.bare = ClientFirstBare(Prepare(creds.username), ClientNonce(creds))
      /\ IsMessage(server.first)
  BY DEF EInv, ServerSide, NoServer
<1>4. server' = [state |-> how, header |-> server.header, bare |-> server.bare,
                 first |-> server.first]
  BY <1>3
<1>5. ~Signing /\ Signing'
  BY <1>4 DEF Signing
<1>6. wire' = message /\ seen' \subseteq seen \cup {wire'}
  BY DEF Say
<1>7. wire'.to = "driver" /\ IsMessage(wire'.bytes) /\ wire'.bytes[1][2] = s
  BY <1>6, SignatureMessage
<1>8. state' = state /\ creds' = creds
  BY <1>1 DEF vars, machine
<1>9. Signed(s)'
  <2>1. /\ s.salted.secret = setup.stored
        /\ s.auth.bare = server.bare
        /\ s.auth.server_first = server.first
    BY DEF ServerSignature, ServerSalted, ServerAuth, SaltedPassword, Pbkdf2, AuthMessage
  <2>2. server.bare.r = ClientNonce(creds)
    BY <1>3 DEF ClientFirstBare
  <2>3. InUse(server.bare.r)'
    BY <1>1, <1>8, <2>2 DEF EInv, IInv, InUse
  <2>4. \A t : /\ t.salted.secret = setup.stored
               /\ t.auth.bare = server.bare
               /\ t.auth.server_first = server.first
               => Signed(t)'
    BY <1>1, <1>4, <1>5, <2>3 DEF Signed
  <2> QED BY <2>1, <2>4
<1>11. Genuine(wire)'
  <2>1. IsMessage(wire.bytes)'
    BY <1>7 DEF IsMessage
  <2>2. Signed(wire.bytes[1][2])'
    BY <1>7, <1>9 DEF Signed
  <2> QED BY <2>1, <2>2 DEF Genuine
<1>12. ServerSide'
  <2>1. Suits(server.header)'
    BY <1>1, <1>3, <1>4 DEF Suits
  <2>2. server'.bare = ClientFirstBare(Prepare(creds.username), ClientNonce(creds))'
    BY <1>3, <1>4, <1>8
  <2> QED BY <1>2, <1>3, <1>4, <1>5, <1>7, <1>8, <2>1, <2>2 DEF ServerSide, Arrived, Headers, IsMessage
<1>13. Agreed'
  BY <1>2, <1>8 DEF Agreed
<1>14. BindingAgreement'
  <2> SUFFICES ASSUME how = "verified"
               PROVE  BindingAgreement'
    BY <1>4 DEF BindingAgreement
  <2>1. creds.binding \in Bindings
    BY CredsAssumption DEF EInv, IInv, ScramCreds
  <2>2. PICK b \in Bindings : server.header = Header(b, NoAuthzid)
    BY <1>3 DEF Headers
  <2>3. CbindInput(creds.binding, NoAuthzid) =
           server.header \o (IF server.header[1] = "p" THEN setup.material ELSE <<>>)
    <3>1. wire.payload.without_proof.c = CbindInput(creds.binding, NoAuthzid)
      BY <1>2 DEF WithoutProof, Channel
    <3> QED BY <3>1 DEF Verifies
  <2>4. setup.material \in Materials
    BY DEF EInv
  <2>5. /\ server.header = Gs2Header(creds)
        /\ IsBound(creds.binding) => creds.binding.data = setup.material
    BY <2>1, <2>2, <2>3, <2>4, ChannelReadsBack DEF Gs2Header
  <2> QED BY <1>1, <1>4, <1>8, <2>5 DEF BindingAgreement
<1> QED BY <1>1, <1>5, <1>6, <1>7, <1>11, <1>12, <1>13, <1>14, NotYetSigned, Answering
\* The server's answers that sign nothing and settle nothing.
LEMMA Unsigned ==
    ASSUME EInv, wire.to = "server", UNCHANGED <<vars, setup, outcome, used>>,
           NEW message, message.to = "driver", Genuine(message)',
           wire' = message, seen' \subseteq seen \cup {message},
           server' = server \/ (~Signing /\ server' = [state |-> "refused"])
    PROVE  EInv'
<1>1. state' = state /\ creds' = creds /\ Answered' = Answered /\ client_first_bare' = client_first_bare
  BY DEF vars, machine, Answered
<1>2. wire'.to = "driver" /\ Genuine(wire)'
  BY DEF Genuine
<1>3. CASE server' = server
  <2>1. \A s : Signed(s) => Signed(s)'
    BY <1>1, <1>3 DEF Signed, InUse, Signing
  <2>2. ServerSide'
    BY <1>1, <1>2, <1>3 DEF EInv, ServerSide, Arrived, Signing, Headers, Suits, IsMessage
  <2>3. Agreed' /\ BindingAgreement'
    BY <1>1, <1>3 DEF EInv, Agreed, Signing, BindingAgreement
  <2> QED BY <1>2, <2>1, <2>2, <2>3, Answering
<1>4. CASE ~Signing /\ server' = [state |-> "refused"]
  <2>1. \A s : Signed(s) => Signed(s)'
    BY <1>4, NotYetSigned
  <2>2. ServerSide' /\ BindingAgreement'
    BY <1>4 DEF ServerSide, BindingAgreement
  <2>3. Agreed'
    BY <1>1, <1>4 DEF EInv, Agreed, Signing
  <2> QED BY <1>2, <2>1, <2>2, <2>3, Answering
<1> QED BY <1>3, <1>4

LEMMA ServerStep == ASSUME EInv, Server PROVE EInv'
<1>1. CASE Arrived("client-first") /\ ReadClientFirst(wire.payload.header)
  <2>1. wire.payload.header = Gs2Header(creds)
    BY <1>1, PayloadRead DEF EInv, Outbound, Arrived
  <2>2. Gs2Header(creds) \in Headers
    BY CredsAssumption DEF EInv, IInv, ScramCreds, Gs2Header, Headers
  <2> QED BY <1>1, <2>1, <2>2, Reading
<1>2. CASE Verify
  <2> DEFINE s == ServerSignature(ServerSalted, ServerAuth)
  <2>1. PICK message \in {Challenge(ServerFinal(s)), SuccessWith(ServerFinal(s))} : Say(message)
    BY <1>2 DEF Verify
  <2>2. /\ Arrived("client-final") /\ server.state = "challenged"
        /\ Verifies(wire.payload)
        /\ server' = [server EXCEPT !.state = "verified"]
    BY <1>2 DEF Verify
  <2> QED BY <2>1, <2>2, Confirming
<1>3. CASE Reject
  <2>1. ~Signing
    BY <1>3 DEF Reject, EInv, ServerSide, Signing, NoServer
  <2> DEFINE complaint == << <<"e", "invalid-proof">> >>
  <2>2. PICK message \in {Refusal, Challenge(complaint)} : Say(message)
    BY <1>3 DEF Reject
  <2>3. server' = [state |-> "refused"] /\ wire.to = "server"
    BY <1>3 DEF Reject, Arrived
  <2>4. IsMessage(complaint) /\ ~StartsWith(complaint, "v")
    <3>1. ASSUME NEW m, m = complaint PROVE IsMessage(m) /\ m[1][1] = "e"
      BY <3>1 DEF IsMessage
    <3> QED BY <3>1 DEF StartsWith
  <2> HIDE DEF complaint
  <2>5. message.to = "driver" /\ Genuine(message)'
    <3>1. CASE message = Refusal
      BY <3>1 DEF Refusal, Genuine
    <3>2. CASE message = Challenge(complaint)
      BY <2>4, <3>2 DEF Challenge, Genuine, IsMessage, StartsWith
    <3> QED BY <3>1, <3>2
  <2>6. /\ UNCHANGED <<vars, setup, outcome, used>>
        /\ wire' = message /\ seen' \subseteq seen \cup {message}
    BY <2>2 DEF Say
  <2> QED BY <2>1, <2>3, <2>5, <2>6, Unsigned
<1>4. CASE Conclude
  <2>1. PICK message \in {Success, Refusal} : Say(message)
    BY <1>4 DEF Conclude
  <2>2. message.to = "driver" /\ Genuine(message)'
    <3>1. message.to = "driver" /\ message.kind \in {"success", "refusal"}
      BY DEF Success, Refusal
    <3> QED BY <3>1 DEF Genuine
  <2>3. /\ UNCHANGED <<vars, setup, outcome, used>>
        /\ wire' = message /\ seen' \subseteq seen \cup {message}
    BY <2>1 DEF Say
  <2>4. server' = server /\ wire.to = "server"
    BY <1>4 DEF Conclude, Arrived
  <2> QED BY <2>2, <2>3, <2>4, Unsigned
<1> QED BY <1>1, <1>2, <1>3, <1>4 DEF Server

LEMMA FaultStep == ASSUME EInv, Fault PROVE EInv'
<1>1. CASE RewriteHeader
  BY <1>1, Reading DEF RewriteHeader, Headers
<1>2. CASE Stray
  <2>1. PICK message \in seen \cup {Success} : wire' = message
    BY <1>2 DEF Stray
  <2>2. message.to = "driver" /\ Genuine(message)
    <3>1. CASE message \in seen
      BY <3>1 DEF EInv, Traffic
    <3>2. CASE message = Success
      BY <3>2 DEF Success, Genuine
    <3> QED BY <3>1, <3>2
  <2>3. UNCHANGED <<vars, setup, outcome, server, seen, used>> /\ wire.to = "server"
    BY <1>2 DEF Stray
  <2>4. Genuine(message)'
    BY <2>2, <2>3 DEF Genuine, IsMessage, StartsWith, Signed, Signing, InUse, vars
  <2> QED BY <2>1, <2>2, <2>3, <2>4, Unsigned
<1>3. CASE SignUnverified
  <2> DEFINE s == ServerSignature(ServerSalted, ServerAuth)
  <2>1. /\ Arrived("client-final") /\ server.state = "challenged"
        /\ server' = [server EXCEPT !.state = "unverified"]
        /\ Say(Challenge(ServerFinal(s)))
    BY <1>3 DEF SignUnverified
  <2> QED BY <2>1, Confirming
<1>4. CASE Abandon
  <2>1. /\ UNCHANGED <<vars, setup, server, used>>
        /\ outcome' = "abandoned" /\ wire' = Quiet
        /\ seen' = IF wire.to = "driver" THEN seen \cup {wire} ELSE seen
    BY <1>4 DEF Abandon
  <2>2. IInv' /\ creds' = creds /\ state' = state /\ setup'.material \in Materials
    BY <2>1, Idling DEF EInv, vars, machine
  <2>3. Outbound' /\ Authenticated' /\ BindingAgreement'
    BY <2>1, <2>2 DEF Outbound, Quiet, Authenticated, EInv, BindingAgreement
  <2>4. ServerSide'
    BY <2>1, <2>2 DEF EInv, ServerSide, Arrived, Quiet, Signing, Headers, Suits, IsMessage
  <2>5. Traffic'
    <3>1. \A m : Genuine(m) => Genuine(m)'
      BY <2>1, <2>2 DEF Genuine, Signed, Signing, InUse, IsMessage
    <3>2. \A m \in seen' : m.to = "driver" /\ Genuine(m)
      BY <2>1 DEF EInv, Traffic
    <3> QED BY <2>1, <3>1, <3>2 DEF Traffic, Quiet
  <2>6. Agreed'
    BY <2>1, <2>2 DEF EInv, Agreed, Signing, Answered, vars, machine
  <2> QED BY <2>1, <2>2, <2>3, <2>4, <2>5, <2>6 DEF EInv
<1> QED BY <1>1, <1>2, <1>3, <1>4 DEF Fault
\* A new coroutine has a nonce that no signature names yet.
LEMMA RetryStep == ASSUME EInv, Retry PROVE EInv'
<1>1. /\ creds' \in Creds /\ creds'.nonce \notin used
      /\ used' = used \cup {creds'.nonce} /\ UNCHANGED <<setup, seen>>
      /\ outcome' = "running" /\ wire' = Quiet /\ server' = NoServer
  BY DEF Retry
<1>2. state' = "SendClientFirst"
  BY DEF Retry
<1>3. IInv'
  <2>1. AtClientFirst'
    <3>1. creds'.username = creds.username /\ creds'.password = creds.password
      <4>1. creds \in ScramCreds /\ creds' \in ScramCreds
        BY <1>1, CredsAssumption DEF EInv, IInv
      <4>2. [creds' EXCEPT !.nonce = creds.nonce] = creds
        BY DEF Retry
      <4> QED BY <4>1, <4>2 DEF ScramCreds
    <3> QED BY <3>1 DEF Retry, AtClientFirst, Raw
  <2>2. LastAnswer'
    BY DEF Retry, LastAnswer, Feedable, NoArg, PeerDone, NoReply
  <2> QED BY <1>1, <2>1, <2>2 DEF IInv, Position
<1>4. creds'.nonce \in used' /\ setup'.material \in Materials /\ Outbound' /\ ServerSide'
  BY <1>1 DEF EInv, Outbound, Quiet, ServerSide
<1>5. Agreed' /\ Authenticated' /\ BindingAgreement'
  BY <1>1, <1>2 DEF Agreed, Authenticated, BindingAgreement, NoServer
<1>6. Traffic'
  <2>1. ASSUME NEW s, Signed(s) PROVE Signed(s)'
    <3>1. PICK c \in Creds : c.nonce \in used /\ s.auth.bare.r = ClientNonce(c)
      BY <2>1 DEF Signed, InUse
    <3>2. s.auth.bare.r # ClientNonce(creds')
      BY <1>1, <3>1, NonceAssumption
    <3>3. InUse(s.auth.bare.r)'
      BY <1>1, <3>1 DEF InUse
    <3> QED BY <1>1, <2>1, <3>2, <3>3 DEF Signed
  <2>2. \A m : Genuine(m) => Genuine(m)'
    BY <2>1 DEF Genuine, IsMessage
  <2> QED BY <1>1, <2>2 DEF EInv, Traffic, Quiet
<1> QED BY <1>3, <1>4, <1>5, <1>6 DEF EInv

LEMMA RestStep == ASSUME EInv, UNCHANGED allvars PROVE EInv'
<1>1. UNCHANGED <<vars, setup, outcome, wire, server, seen, used>>
  BY DEF allvars, peers
<1>2. IInv' /\ creds' = creds /\ state' = state /\ last' = last
  BY <1>1, Idling DEF EInv, vars, machine
<1>3. Outbound' /\ Authenticated' /\ BindingAgreement' /\ setup'.material \in Materials
  BY <1>1, <1>2 DEF EInv, Outbound, Authenticated, BindingAgreement
<1>4. ServerSide'
  BY <1>1, <1>2 DEF EInv, ServerSide, Arrived, Signing, Headers, Suits, IsMessage
<1>5. Traffic'
  BY <1>1, <1>2 DEF EInv, Traffic, Genuine, Signed, Signing, InUse, IsMessage
<1>6. Agreed'
  BY <1>1, <1>2 DEF EInv, Agreed, Signing, Answered, vars, machine
<1> QED BY <1>1, <1>2, <1>3, <1>4, <1>5, <1>6 DEF EInv

LEMMA ExchangeBegins == ExchangeInit => EInv
<1> SUFFICES ASSUME ExchangeInit PROVE EInv
  OBVIOUS
<1>1. IInv /\ state = "SendClientFirst"
  BY Initially DEF ExchangeInit, Init
<1>2. setup.material \in Materials /\ creds.nonce \in used
  BY DEF ExchangeInit
<1>3. Outbound /\ ServerSide /\ Traffic
  BY DEF ExchangeInit, Outbound, ServerSide, Traffic, Quiet
<1>4. Agreed /\ Authenticated /\ BindingAgreement
  BY <1>1 DEF ExchangeInit, Agreed, Authenticated, BindingAgreement, NoServer
<1> QED BY <1>1, <1>2, <1>3, <1>4 DEF EInv

LEMMA ExchangeStepwise == EInv /\ [ExchangeNext]_allvars => EInv'
BY DriverStep, ServerStep, FaultStep, RetryStep, RestStep DEF ExchangeNext, Rest

\* Whose every signature is, and where driver and server stand, in every reachable state.
THEOREM ExchangeInvariance == ExchangeSpec => []EInv
<1> QED BY ExchangeBegins, ExchangeStepwise, PTL DEF ExchangeSpec
----
\* Mutual authentication: a driver that is told Ok has had its exchange signed by a server
\* that stores the client's password, whatever the wire replayed, rewrote or let slip.
THEOREM MutualAuthentication == ExchangeSpec => []Agreement
<1>1. EInv => Agreement
  <2> SUFFICES ASSUME EInv, outcome = "authenticated" PROVE Agreement
    BY DEF Agreement
  <2>1. /\ state = "Done" /\ setup.stored = Prepare(creds.password)
        /\ Signing /\ server.bare = client_first_bare /\ server.first = Answered
    BY DEF EInv, Authenticated, Agreed
  <2>2. 2 \in ProofsSent
    BY <2>1, ProofsAt DEF EInv
  <2>3. PICK m : ServerFirstFault(m, creds) = NoFault /\ AtDone(m)
    BY <2>1, PositionCases DEF EInv, AtClientFirst, AtClientFinal, AtAcknowledge
  <2>4. transcript[2].arg = Input(Answered)
    BY <2>3, PositionKnown DEF AtDone, FinalStep
  <2> QED BY <2>1, <2>2, <2>4 DEF Agreement, Signing
<1> QED BY <1>1, ExchangeInvariance, PTL

\* A server that verified the proof read the header the client wrote and holds the material
\* the client is bound to.
THEOREM BindingAgreed == ExchangeSpec => []BindingAgreement
<1>1. EInv => BindingAgreement
  BY DEF EInv
<1> QED BY <1>1, ExchangeInvariance, PTL

\* A server that offers a binding verifies no client that was told there was none.
THEOREM DowngradeFoundOut == ExchangeSpec => []NoDowngrade
<1>1. EInv => NoDowngrade
  <2> SUFFICES ASSUME EInv, server.state = "verified", setup.plus, creds.binding = Unused
               PROVE  FALSE
    BY DEF NoDowngrade
  <2>1. creds.binding \in Bindings
    BY CredsAssumption DEF EInv, IInv, ScramCreds
  <2>2. server.header[1] = "y"
    BY <2>1, HeaderFlag DEF EInv, BindingAgreement, Gs2Header, Unused, Identities
  <2>3. Suits(server.header)
    BY DEF EInv, ServerSide, NoServer
  <2> QED BY <2>2, <2>3 DEF Suits
<1> QED BY <1>1, ExchangeInvariance, PTL
====
