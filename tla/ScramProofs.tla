---- MODULE ScramProofs ----
(***************************************************************************)
(* Theorems about Scram, for every set of credentials and every set of     *)
(* messages a driver may feed.  What one resume does to the coroutine is   *)
(* said for any message made of fields, in Messages or not, so that the    *)
(* modules which put the coroutine in front of a server can cite it.       *)
(*                                                                         *)
(* The inductive invariant pins the transcript to the state: in each state *)
(* the driver has been given exactly the messages of that state's prefix   *)
(* of the exchange, and the signature to expect is the one the challenge   *)
(* answered calls for.  The safety properties read the transcript only, so *)
(* they follow from that shape.                                            *)
(***************************************************************************)
EXTENDS Scram, Gs2Proofs

FirstStep(c) ==
    [arg |-> NoArg,
     reply |-> WantsWrite(ClientFirst(Gs2Header(c),
                                      ClientFirstBare(Prepare(c.username), ClientNonce(c))))]

FinalStep(c, m) ==
    [arg |-> Input(m),
     reply |-> WantsWrite(ClientFinal(m, c,
                 ClientProof(SaltedPassword(Prepare(c.password), m),
                             AuthMessage(ClientFirstBare(Prepare(c.username), ClientNonce(c)), m,
                                         WithoutProof(m, c)))))]

AckStep(c, m) ==
    [arg |-> Input(ServerFinal(Reference(c, m))), reply |-> WantsWrite(EmptyPayload)]

\* A message is a sequence of fields, and this is what a driver feeds.
IsMessage(m) == m # NotUtf8 => /\ Len(m) \in Nat
                               /\ m = [i \in 1..Len(m) |-> <<m[i][1], m[i][2]>>]

Feedable(arg) == \/ arg \in {NoArg, PeerDone}
                 \/ arg = Input(arg.bytes) /\ IsMessage(arg.bytes)

\* The challenge that the proof on the transcript answered.
Answered == transcript[2].arg.bytes

Raw == username = creds.username /\ password = creds.password

AllPrepared ==
    /\ username = Prepare(creds.username) /\ username \in Text
    /\ password = Prepare(creds.password) /\ password \in Text
    /\ client_first_bare = ClientFirstBare(username, ClientNonce(creds))

AtClientFirst == /\ state = "SendClientFirst"
                 /\ transcript = <<>>
                 /\ Raw
                 /\ client_first_bare = NoBare
                 /\ expected_server_signature = NoBytes

AtClientFinal == /\ state = "SendClientFinal"
                 /\ transcript = <<FirstStep(creds)>>
                 /\ AllPrepared
                 /\ expected_server_signature = NoBytes

AtAcknowledge(m) == /\ state = "Acknowledge"
                    /\ transcript = <<FirstStep(creds), FinalStep(creds, m)>>
                    /\ AllPrepared
                    /\ expected_server_signature = Reference(creds, m)

AtDone(m) == /\ state = "Done"
             /\ transcript = <<FirstStep(creds), FinalStep(creds, m), AckStep(creds, m)>>
             /\ AllPrepared
             /\ expected_server_signature = Reference(creds, m)

Position == \/ AtClientFirst
            \/ AtClientFinal
            \/ /\ AtAcknowledge(Answered) \/ AtDone(Answered)
               /\ ServerFirstFault(Answered, creds) = NoFault

LastAnswer ==
    /\ Feedable(last.arg)
    /\ last.reply.kind \in {"fresh", "WantsWrite", "Ok", "Err"}
    /\ last.reply.kind = "Ok" => last.arg = PeerDone
    /\ last.reply.kind = "Err" => last.reply.error \in Errors
    /\ last.arg = PeerDone =>
          last.reply = IF state = "Done" THEN CompleteOk
                                         ELSE CompleteErr("ServerSignatureNotVerified")
    /\ last.reply.kind = "WantsWrite" => transcript # <<>> /\ last = transcript[Len(transcript)]

IInv == creds \in Creds /\ Position /\ LastAnswer
----
LEMMA CredsText ==
    ASSUME NEW c \in Creds
    PROVE  /\ c.username \in Text /\ c.password \in Text
           /\ Prepare(c.username) # Prohibited => Prepare(c.username) \in Text
           /\ Prepare(c.password) # Prohibited => Prepare(c.password) \in Text
<1>1. c.username \in Text /\ c.password \in Text
  BY CredsAssumption DEF ScramCreds
<1>2. /\ Prep(c.username) \in Text \cup {Prohibited}
      /\ Prep(c.password) \in Text \cup {Prohibited}
  BY PrepAssumption
<1> QED BY <1>1, <1>2 DEF Prepare

LEMMA Appends ==
    ASSUME NEW a, NEW b, NEW c
    PROVE  /\ Append(<<>>, a) = <<a>>
           /\ Append(<<a>>, b) = <<a, b>>
           /\ Append(<<a, b>>, c) = <<a, b, c>>
<1> DEFINE S == {a, b, c}
<1>1. Append(<<>>, a) = <<a>>
  OBVIOUS
<1>2. Append(<<a>>, b) = <<a, b>>
  <2>1. <<a>> \in Seq(S) /\ <<a, b>> \in Seq(S)
    OBVIOUS
  <2>2. Append(<<a>>, b) \in Seq(S) /\ Len(Append(<<a>>, b)) = 2
    BY <2>1
  <2>3. \A i \in 1..2 : Append(<<a>>, b)[i] = <<a, b>>[i]
    BY <2>1
  <2> QED BY <2>1, <2>2, <2>3, SeqEqual
<1>3. Append(<<a, b>>, c) = <<a, b, c>>
  <2>1. <<a, b>> \in Seq(S) /\ <<a, b, c>> \in Seq(S)
    OBVIOUS
  <2>2. Append(<<a, b>>, c) \in Seq(S) /\ Len(Append(<<a, b>>, c)) = 3
    BY <2>1
  <2>3. \A i \in 1..3 : Append(<<a, b>>, c)[i] = <<a, b, c>>[i]
    BY <2>1
  <2> QED BY <2>1, <2>2, <2>3, SeqEqual
<1> QED BY <1>1, <1>2, <1>3

\* The greatest of a set of positions is one of them, and none is above it.
LEMMA MaxIn ==
    ASSUME NEW n \in Nat, NEW S \in SUBSET (1..n), S # {}
    PROVE  Max(S) \in S /\ \A y \in S : y <= Max(S)
<1> DEFINE T == {n - x : x \in S}
<1>1. T \subseteq Nat /\ T # {}
  OBVIOUS
<1>2. PICK t \in T : \A y \in T : t <= y
  BY <1>1, Least
<1>3. PICK x \in S : t = n - x
  BY <1>2
<1>4. ASSUME NEW y \in S PROVE x >= y
  <2>1. n - y \in T
    OBVIOUS
  <2>2. n - x <= n - y
    BY <1>2, <1>3, <2>1
  <2> QED BY <2>2
<1>5. \E m \in S : \A y \in S : m >= y
  BY <1>4
<1> QED BY <1>5 DEF Max

\* What client_final has read of a message it accepts.
LEMMA Accepted ==
    ASSUME NEW m, IsMessage(m), NEW c, ServerFirstFault(m, c) = NoFault
    PROVE  /\ m # NotUtf8
           /\ \A key \in {"r", "s", "i"} :
                 \E k \in DOMAIN m : /\ m[k][1] = key /\ m[k][2] = LastField(m, key)
                                    /\ \A j \in DOMAIN m : m[j][1] = key => j <= k
           /\ \A k \in DOMAIN m : /\ m[k][1] = "s" => m[k][2] # Garbage
                                 /\ m[k][1] = "i" => m[k][2] \in 0..U32Max
           /\ LastField(m, "s") # Garbage
           /\ LastField(m, "i") \in 0..U32Max
<1>1. /\ m # NotUtf8 /\ Undecodable(m) = {}
      /\ \A key \in {"r", "s", "i"} : FieldsOf(m, key) # {}
  BY DEF ServerFirstFault, NoFault
<1>2. DOMAIN m = 1..Len(m) /\ Len(m) \in Nat
  BY <1>1 DEF IsMessage
<1>3. ASSUME NEW key \in {"r", "s", "i"}
      PROVE  \E k \in DOMAIN m : /\ m[k][1] = key /\ m[k][2] = LastField(m, key)
                                /\ \A j \in DOMAIN m : m[j][1] = key => j <= k
  <2>1. FieldsOf(m, key) \in SUBSET (1..Len(m)) /\ FieldsOf(m, key) # {}
    BY <1>1, <1>2 DEF FieldsOf
  <2>2. /\ Max(FieldsOf(m, key)) \in FieldsOf(m, key)
        /\ \A j \in FieldsOf(m, key) : j <= Max(FieldsOf(m, key))
    BY <1>2, <2>1, MaxIn
  <2> QED BY <2>2 DEF LastField, FieldsOf
<1>4. ASSUME NEW k \in DOMAIN m
      PROVE  /\ m[k][1] = "s" => m[k][2] # Garbage
             /\ m[k][1] = "i" => m[k][2] \in 0..U32Max
  BY <1>1 DEF Undecodable, FieldsOf, Count
<1>5. PICK k \in DOMAIN m : m[k][1] = "s" /\ m[k][2] = LastField(m, "s")
  BY <1>3
<1>6. PICK l \in DOMAIN m : m[l][1] = "i" /\ m[l][2] = LastField(m, "i")
  BY <1>3
<1> QED BY <1>1, <1>3, <1>4, <1>5, <1>6

\* A server-final-message that raises no fault is v= and the expected signature,
\* nothing more.
LEMMA OnlyTheSignaturePasses ==
    ASSUME NEW m, IsMessage(m), NEW s, ServerFinalFault(m, s) = NoFault
    PROVE  m = ServerFinal(s)
<1>1. /\ m # NotUtf8
      /\ StartsWith(m, "v")
      /\ ~(Len(m) > 1)
      /\ m[1][2] = s
  BY DEF ServerFinalFault, NoFault
<1>2. Len(m) \in Nat /\ m = [i \in 1..Len(m) |-> <<m[i][1], m[i][2]>>]
  BY <1>1 DEF IsMessage
<1>3. Len(m) = 1 /\ m[1][1] = "v"
  BY <1>1, <1>2 DEF StartsWith
<1>4. m = [i \in 1..1 |-> <<"v", s>>]
  BY <1>1, <1>2, <1>3
<1> QED BY <1>4 DEF ServerFinal

\* What a refusal of a server message is called is one of the error causes.
LEMMA FaultsAreErrors ==
    ASSUME NEW m, NEW c, NEW s
    PROVE  /\ ServerFirstFault(m, c) # NoFault => ServerFirstFault(m, c) \in Errors
           /\ ServerFinalFault(m, s) # NoFault => ServerFinalFault(m, s) \in Errors
BY DEF ServerFirstFault, ServerFinalFault, Errors, NoFault
LEMMA StepKinds ==
    ASSUME NEW c, NEW m
    PROVE  /\ FirstStep(c).reply.payload.kind = "client-first"
           /\ FinalStep(c, m).reply.payload.kind = "client-final"
           /\ AckStep(c, m).reply.payload.kind = "empty"
           /\ FinalStep(c, m).arg.bytes = m
           /\ AckStep(c, m).arg = Input(ServerFinal(Reference(c, m)))
BY DEF FirstStep, FinalStep, AckStep, WantsWrite, ClientFirst, ClientFinal, EmptyPayload, Input

\* The transcript says which challenge a position is about.
LEMMA PositionKnown ==
    ASSUME NEW m
    PROVE  AtAcknowledge(m) \/ AtDone(m) => Answered = m
BY StepKinds DEF AtAcknowledge, AtDone, Answered

LEMMA PositionCases ==
    ASSUME IInv
    PROVE  \/ AtClientFirst
           \/ AtClientFinal
           \/ \E m : ServerFirstFault(m, creds) = NoFault /\ AtAcknowledge(m)
           \/ \E m : ServerFirstFault(m, creds) = NoFault /\ AtDone(m)
BY DEF IInv, Position

\* Everything but the arguments of a resume says what the position is.
LEMMA SamePosition ==
    ASSUME Position, UNCHANGED <<creds, transcript, machine>>
    PROVE  Position'
BY DEF Position, AtClientFirst, AtClientFinal, AtAcknowledge, AtDone, Answered, Raw,
       AllPrepared, machine
----
LEMMA Initially == Init => IInv
<1> SUFFICES ASSUME Init PROVE IInv
  OBVIOUS
<1>1. creds \in Creds /\ AtClientFirst
  BY DEF Init, Fresh, AtClientFirst, Raw
<1>2. LastAnswer
  BY DEF Init, Fresh, LastAnswer, Feedable, NoArg, PeerDone, NoReply
<1> QED BY <1>1, <1>2 DEF IInv, Position

\* A refusal leaves the machine and the transcript, so it leaves the position.
LEMMA Failing ==
    ASSUME IInv, NEW arg, Feedable(arg), NEW error \in Errors, Fail(arg, error),
           arg = PeerDone => state # "Done" /\ error = "ServerSignatureNotVerified"
    PROVE  IInv'
<1>1. UNCHANGED <<creds, transcript, machine>>
  BY DEF Fail, Return
<1>2. creds' \in Creds /\ Position'
  BY <1>1, SamePosition DEF IInv
<1>3. LastAnswer'
  BY <1>1 DEF Fail, Return, LastAnswer, CompleteErr, Feedable, IsMessage, machine
<1> QED BY <1>2, <1>3 DEF IInv

LEMMA Starting ==
    ASSUME IInv, NEW arg, Feedable(arg), SendClientFirst(arg)
    PROVE  IInv'
<1>1. creds \in Creds /\ AtClientFirst
  BY PositionCases DEF IInv, AtClientFinal, AtAcknowledge, AtDone, SendClientFirst
<1>2. arg = NoArg /\ creds' = creds /\ state' = "SendClientFinal"
  BY DEF SendClientFirst, Write
<1>3. AllPrepared'
  <2>1. Prepare(creds.username) \in Text /\ Prepare(creds.password) \in Text
    BY <1>1, CredsText DEF SendClientFirst, Preparable, AtClientFirst, Raw
  <2> QED BY <1>1, <1>2, <2>1 DEF SendClientFirst, AtClientFirst, Raw, AllPrepared
<1>4. last' = FirstStep(creds)
  BY <1>1, <1>2, <1>3 DEF SendClientFirst, Write, FirstStep, AllPrepared
<1>5. transcript' = <<FirstStep(creds)>>
  BY <1>1, <1>4, Appends DEF SendClientFirst, Write, AtClientFirst
<1>6. AtClientFinal'
  BY <1>1, <1>2, <1>3, <1>5 DEF AtClientFinal, SendClientFirst, AtClientFirst
<1>7. last' = transcript'[Len(transcript')] /\ transcript' # <<>>
  BY <1>4, <1>5
<1>8. LastAnswer'
  BY <1>2, <1>4, <1>7 DEF LastAnswer, FirstStep, WantsWrite, Feedable, NoArg, PeerDone
<1> QED BY <1>1, <1>2, <1>6, <1>8 DEF IInv, Position

LEMMA Proving ==
    ASSUME IInv, NEW arg, Feedable(arg), SendClientFinal(arg)
    PROVE  IInv'
<1>1. creds \in Creds /\ AtClientFinal
  BY PositionCases DEF IInv, AtClientFirst, AtAcknowledge, AtDone, SendClientFinal
<1> DEFINE m == arg.bytes
<1>2. arg = Input(m)
  BY DEF SendClientFinal, Feedable, NoArg, PeerDone
<1>3. creds' = creds /\ state' = "Acknowledge"
  BY DEF SendClientFinal, Write
<1>4. ServerFirstFault(m, creds) = NoFault
  BY DEF SendClientFinal
<1>5. AllPrepared'
  BY <1>1, <1>3 DEF SendClientFinal, AtClientFinal, AllPrepared
<1>6. expected_server_signature' = Reference(creds, m)
  BY <1>1 DEF SendClientFinal, AtClientFinal, AllPrepared, Reference
<1>7. last' = FinalStep(creds, m)
  BY <1>1, <1>2 DEF SendClientFinal, Write, FinalStep, AtClientFinal, AllPrepared
<1>8. transcript' = <<FirstStep(creds), FinalStep(creds, m)>>
  BY <1>1, <1>7, Appends DEF SendClientFinal, Write, AtClientFinal
<1>9. AtAcknowledge(m)'
  BY <1>3, <1>5, <1>6, <1>8 DEF AtAcknowledge
<1>10. Answered' = m
  BY <1>8, StepKinds DEF Answered
<1>11. Position'
  BY <1>3, <1>4, <1>9, <1>10 DEF Position
<1>12. last' = transcript'[Len(transcript')] /\ transcript' # <<>>
  BY <1>7, <1>8
<1>13. LastAnswer'
  BY <1>2, <1>7, <1>12 DEF LastAnswer, FinalStep, WantsWrite, Feedable, Input, PeerDone, NoArg
<1> QED BY <1>1, <1>3, <1>11, <1>13 DEF IInv

LEMMA Verifying ==
    ASSUME IInv, NEW arg, Feedable(arg), Acknowledge(arg)
    PROVE  IInv'
<1>1. creds \in Creds
  BY DEF IInv
<1>2. PICK m : ServerFirstFault(m, creds) = NoFault /\ AtAcknowledge(m)
  BY PositionCases DEF AtClientFirst, AtClientFinal, AtDone, Acknowledge
<1>3. creds' = creds /\ state' = "Done"
  BY DEF Acknowledge, Write
<1>4. arg = Input(arg.bytes) /\ IsMessage(arg.bytes)
  BY DEF Acknowledge, Feedable, NoArg, PeerDone
<1>5. arg.bytes = ServerFinal(Reference(creds, m))
  BY <1>2, <1>4, OnlyTheSignaturePasses DEF Acknowledge, AtAcknowledge
<1>6. last' = AckStep(creds, m)
  BY <1>4, <1>5 DEF Acknowledge, Write, AckStep
<1>7. transcript' = <<FirstStep(creds), FinalStep(creds, m), AckStep(creds, m)>>
  <2>1. transcript' = Append(transcript, last')
    BY DEF Acknowledge, Write
  <2>2. transcript = <<FirstStep(creds), FinalStep(creds, m)>>
    BY <1>2 DEF AtAcknowledge
  <2> QED BY <1>6, <2>1, <2>2, Appends
<1>8. AtDone(m)'
  BY <1>2, <1>3, <1>7 DEF AtDone, AtAcknowledge, Acknowledge, AllPrepared
<1>9. Answered' = m
  BY <1>7, StepKinds DEF Answered
<1>10. Position'
  BY <1>2, <1>3, <1>8, <1>9 DEF Position
<1>11. last' = transcript'[Len(transcript')] /\ transcript' # <<>>
  BY <1>6, <1>7
<1>12. LastAnswer'
  BY <1>4, <1>6, <1>11 DEF LastAnswer, AckStep, WantsWrite, Feedable, IsMessage, Input, PeerDone,
     NoArg, Acknowledge, Write
<1> QED BY <1>1, <1>3, <1>10, <1>12 DEF IInv

LEMMA Finishing ==
    ASSUME IInv, NEW arg, Finish(arg)
    PROVE  IInv'
<1>1. UNCHANGED <<creds, transcript, machine>>
  BY DEF Finish, Return
<1>2. creds' \in Creds /\ Position'
  BY <1>1, SamePosition DEF IInv
<1>3. LastAnswer'
  BY <1>1 DEF Finish, Return, LastAnswer, CompleteOk, Feedable, machine
<1> QED BY <1>2, <1>3 DEF IInv

\* Whatever the driver feeds, and wherever it got it from.
LEMMA Resuming ==
    ASSUME IInv, NEW arg, Feedable(arg), Resume(arg)
    PROVE  IInv'
<1>1. CASE SendClientFirst(arg)
  BY <1>1, Starting
<1>2. CASE RefuseCredentials(arg)
  BY <1>2, Failing DEF RefuseCredentials, NoArg, PeerDone, Errors
<1>3. CASE SendClientFinal(arg)
  BY <1>3, Proving
<1>4. CASE RefuseServerFirst(arg)
  BY <1>4, Failing, FaultsAreErrors DEF RefuseServerFirst, PeerDone
<1>5. CASE Acknowledge(arg)
  BY <1>5, Verifying
<1>6. CASE RefuseServerFinal(arg)
  BY <1>6, Failing, FaultsAreErrors DEF RefuseServerFinal, PeerDone
<1>7. CASE Finish(arg)
  BY <1>7, Finishing
<1>8. CASE RefuseEnd(arg)
  BY <1>8, Failing DEF RefuseEnd, Errors
<1>9. CASE RefuseUnexpected(arg)
  BY <1>9, Failing DEF RefuseUnexpected, Expected, PeerDone, Errors
<1> QED BY <1>1, <1>2, <1>3, <1>4, <1>5, <1>6, <1>7, <1>8, <1>9 DEF Resume

LEMMA Idling == IInv /\ UNCHANGED vars => IInv'
BY SamePosition DEF IInv, vars, machine, LastAnswer, Feedable

LEMMA ArgsFeedable == \A arg \in Args : Feedable(arg)
<1>1. ASSUME NEW m \in Messages PROVE Feedable(Input(m))
  <2>1. Input(m).bytes = m
    BY DEF Input
  <2>2. IsMessage(m)
    BY MessagesAssumption DEF IsMessage
  <2> QED BY <2>1, <2>2 DEF Feedable
<1> QED BY <1>1 DEF Args, Feedable

LEMMA Stepwise == IInv /\ [Next]_vars => IInv'
BY Resuming, Idling, ArgsFeedable DEF Next

\* The position of the exchange, in every reachable state.
THEOREM Invariance == Spec => []IInv
<1> QED BY Initially, Stepwise, PTL DEF Spec
----
(***************************************************************************)
(* What the position says of the observer's view.                          *)
(***************************************************************************)
LEMMA ProofsAt ==
    ASSUME IInv
    PROVE  /\ state \in {"SendClientFirst", "SendClientFinal"} => ProofsSent = {}
           /\ state \in {"Acknowledge", "Done"} => ProofsSent = {2}
           /\ state = "Done" <=> ServerProved
<1>1. CASE AtClientFirst
  BY <1>1 DEF AtClientFirst, ProofsSent, Written, ServerProved
<1>2. CASE AtClientFinal
  BY <1>2, StepKinds DEF AtClientFinal, ProofsSent, Written, ServerProved
<1>3. ASSUME NEW m, AtAcknowledge(m)
      PROVE  ProofsSent = {2} /\ ~ServerProved /\ state = "Acknowledge"
  <2>1. DOMAIN transcript = 1..2
    BY <1>3 DEF AtAcknowledge
  <2>2. ProofsSent = {2}
    BY <1>3, <2>1, StepKinds DEF AtAcknowledge, ProofsSent, Written
  <2> QED BY <1>3, <2>1, <2>2 DEF ServerProved, AtAcknowledge
<1>4. ASSUME NEW m, AtDone(m)
      PROVE  ProofsSent = {2} /\ ServerProved /\ state = "Done"
  <2>1. /\ DOMAIN transcript = 1..3
        /\ transcript[2] = FinalStep(creds, m)
        /\ transcript[1] = FirstStep(creds)
        /\ transcript[3] = AckStep(creds, m)
    BY <1>4 DEF AtDone
  <2>2. ProofsSent = {2}
    BY <2>1, StepKinds DEF ProofsSent, Written
  <2>3. transcript[3].arg = Input(ServerFinal(Reference(creds, transcript[2].arg.bytes)))
    BY <2>1, StepKinds
  <2> QED BY <1>4, <2>1, <2>2, <2>3 DEF ServerProved, AtDone
<1> QED BY <1>1, <1>2, <1>3, <1>4, PositionCases DEF AtClientFirst, AtClientFinal
----
\* The transcript is made of the three steps a coroutine can write.
LEMMA TranscriptShape ==
    ASSUME IInv
    PROVE  /\ transcript \in Seq({FirstStep(creds), FinalStep(creds, Answered),
                                  AckStep(creds, Answered)})
           /\ Len(transcript) \in 0..3
           /\ \A i \in DOMAIN transcript : transcript[i].reply.kind = "WantsWrite"
<1>1. \/ transcript = <<>>
      \/ transcript = <<FirstStep(creds)>>
      \/ transcript = <<FirstStep(creds), FinalStep(creds, Answered)>>
      \/ transcript = <<FirstStep(creds), FinalStep(creds, Answered), AckStep(creds, Answered)>>
  BY DEF IInv, Position, AtClientFirst, AtClientFinal, AtAcknowledge, AtDone
<1>2. \A c, m : /\ FirstStep(c).reply.kind = "WantsWrite"
                /\ FinalStep(c, m).reply.kind = "WantsWrite"
                /\ AckStep(c, m).reply.kind = "WantsWrite"
  BY DEF FirstStep, FinalStep, AckStep, WantsWrite
<1>3. ASSUME NEW f, NEW g, NEW h, f.reply.kind = "WantsWrite", g.reply.kind = "WantsWrite",
             h.reply.kind = "WantsWrite", transcript \in {<<>>, <<f>>, <<f, g>>, <<f, g, h>>}
      PROVE  /\ transcript \in Seq({f, g, h})
             /\ Len(transcript) \in 0..3
             /\ \A i \in DOMAIN transcript : transcript[i].reply.kind = "WantsWrite"
  <2>1. CASE transcript = <<>>
    BY <2>1
  <2>2. CASE transcript = <<f>>
    BY <1>3, <2>2
  <2>3. CASE transcript = <<f, g>>
    BY <1>3, <2>3
  <2>4. CASE transcript = <<f, g, h>>
    BY <1>3, <2>4
  <2> QED BY <1>3, <2>1, <2>2, <2>3, <2>4
<1> QED BY <1>1, <1>2, <1>3

\* Under Next, what the driver feeds is taken from Messages.
Fed == last.arg \in Args /\ \A i \in DOMAIN transcript : transcript[i].arg \in Args

LEMMA FedStep == IInv /\ Fed /\ [Next]_vars => Fed'
<1> SUFFICES ASSUME IInv, Fed, [Next]_vars PROVE Fed'
  OBVIOUS
<1>1. ASSUME NEW arg \in Args, Resume(arg) PROVE Fed'
  <2>1. /\ last'.arg = arg
        /\ transcript' = transcript \/ transcript' = Append(transcript, last')
    BY <1>1 DEF Resume, SendClientFirst, RefuseCredentials, SendClientFinal, RefuseServerFirst,
       Acknowledge, RefuseServerFinal, Finish, RefuseEnd, RefuseUnexpected, Fail, Return, Write
  <2>2. CASE transcript' = transcript
    BY <2>1, <2>2 DEF Fed
  <2>3. CASE transcript' = Append(transcript, last')
    <3>1. PICK S : transcript \in Seq(S)
      BY TranscriptShape
    <3>2. \A i \in DOMAIN transcript' : IF i \in DOMAIN transcript THEN transcript'[i] = transcript[i]
                                                                   ELSE transcript'[i] = last'
      BY <2>3, <3>1
    <3> QED BY <2>1, <3>2 DEF Fed
  <2> QED BY <2>1, <2>2, <2>3
<1>2. CASE UNCHANGED vars
  BY <1>2 DEF vars, Fed
<1> QED BY <1>1, <1>2 DEF Next

LEMMA FedInit == Init => Fed
BY DEF Init, Fresh, Fed, Args

LEMMA IInvTypeOK == IInv /\ Fed => TypeOK
<1> SUFFICES ASSUME IInv, Fed PROVE TypeOK
  OBVIOUS
<1>1. creds \in Creds /\ creds.username \in Text /\ creds.password \in Text
  BY CredsText DEF IInv
<1>2. /\ state \in States
      /\ username \in Text /\ password \in Text
      /\ client_first_bare = NoBare \/ client_first_bare.r = ClientNonce(creds)
  <2>1. (Raw /\ client_first_bare = NoBare) \/ AllPrepared
    BY DEF IInv, Position, AtClientFirst, AtClientFinal, AtAcknowledge, AtDone
  <2>2. state \in States
    BY DEF IInv, Position, AtClientFirst, AtClientFinal, AtAcknowledge, AtDone, States
  <2>3. AllPrepared => client_first_bare.r = ClientNonce(creds)
    BY DEF AllPrepared, ClientFirstBare
  <2> QED BY <1>1, <2>1, <2>2, <2>3 DEF Raw, AllPrepared
<1>3. expected_server_signature = NoBytes \/ expected_server_signature.key = "Server Key"
  <2>1. \/ expected_server_signature = NoBytes
        \/ \E m : expected_server_signature = Reference(creds, m)
    BY DEF IInv, Position, AtClientFirst, AtClientFinal, AtAcknowledge, AtDone
  <2>2. \A m : Reference(creds, m).key = "Server Key"
    BY DEF Reference, ServerSignature
  <2> QED BY <2>1, <2>2
<1>4. /\ last.arg \in Args
      /\ last.reply.kind \in {"fresh", "WantsWrite", "Ok", "Err"}
      /\ last.reply.kind = "Err" => last.reply.error \in Errors
  BY DEF IInv, LastAnswer, Fed
<1> QED BY <1>1, <1>2, <1>3, <1>4, TranscriptShape DEF TypeOK, Fed

\* TypeOK, for every set of credentials and messages.
THEOREM TypeCorrect == Spec => []TypeOK
<1> QED BY Initially, Stepwise, FedInit, FedStep, IInvTypeOK, PTL DEF Spec

\* Ok is returned only when the peer ended an exchange in which the driver had fed the
\* server's signature over the messages exchanged.
THEOREM Acceptance == Spec => []AcceptanceOracle
<1>1. IInv => AcceptanceOracle
  BY ProofsAt DEF IInv, LastAnswer, AcceptanceOracle, CompleteErr
<1> QED BY <1>1, Invariance, PTL

\* An end of the exchange is judged by that signature alone, whatever came before.
THEOREM EndJudged == Spec => []NoSilentSkip
<1>1. IInv => NoSilentSkip
  BY ProofsAt DEF IInv, LastAnswer, NoSilentSkip
<1> QED BY <1>1, Invariance, PTL

\* At most one proof of the password leaves a coroutine, for a nonce that extends its own.
THEOREM SingleProof == Spec => []ProofSentOnce
<1>1. IInv => ProofSentOnce
  <2> SUFFICES ASSUME IInv PROVE ProofSentOnce
    OBVIOUS
  <2>1. CASE ProofsSent = {}
    BY <2>1 DEF ProofSentOnce
  <2>2. CASE ProofsSent # {}
    <3>1. ProofsSent = {2} /\ state \in {"Acknowledge", "Done"}
      BY <2>2, ProofsAt DEF IInv, Position, AtClientFirst, AtClientFinal, AtAcknowledge, AtDone
    <3>2. PICK m : transcript[2] = FinalStep(creds, m) /\ ServerFirstFault(m, creds) = NoFault
      BY <3>1 DEF IInv, Position, AtClientFirst, AtClientFinal, AtAcknowledge, AtDone
    <3>3. IsPrefix(ClientNonce(creds), LastField(m, "r"))
      BY <3>2 DEF ServerFirstFault, NoFault, NonceExtends
    <3>4. /\ transcript[2].reply.payload.without_proof = WithoutProof(m, creds)
          /\ transcript[2].arg.bytes = m
          /\ transcript[2].reply.payload.proof.salted.secret = Prepare(creds.password)
      <4>1. /\ FinalStep(creds, m).arg.bytes = m
            /\ FinalStep(creds, m).reply.payload.without_proof = WithoutProof(m, creds)
        BY DEF FinalStep, Input, WantsWrite, ClientFinal
      <4>2. FinalStep(creds, m).reply.payload.proof.salted = SaltedPassword(Prepare(creds.password), m)
        BY DEF FinalStep, WantsWrite, ClientFinal, ClientProof
      <4>3. SaltedPassword(Prepare(creds.password), m).secret = Prepare(creds.password)
        BY DEF SaltedPassword, Pbkdf2
      <4> QED BY <3>2, <4>1, <4>2, <4>3
    <3>5. WithoutProof(m, creds).r = LastField(m, "r")
      BY DEF WithoutProof
    <3> QED BY <3>1, <3>3, <3>4, <3>5 DEF ProofSentOnce
  <2> QED BY <2>1, <2>2
<1> QED BY <1>1, Invariance, PTL

\* The key under the proof is derived from the last of each field, over a count of the width.
THEOREM DerivationRight == Spec => []DerivedAsSpelled
<1>1. ASSUME IInv, Fed PROVE DerivedAsSpelled
  <2>1. SUFFICES ASSUME ProofsSent # {} PROVE DerivedAsSpelled
    BY DEF DerivedAsSpelled
  <2>2. ProofsSent = {2} /\ state \in {"Acknowledge", "Done"}
    BY <1>1, <2>1, ProofsAt DEF IInv, Position, AtClientFirst, AtClientFinal, AtAcknowledge, AtDone
  <2>3. PICK m : /\ transcript[2] = FinalStep(creds, m) /\ 2 \in DOMAIN transcript
                 /\ ServerFirstFault(m, creds) = NoFault
    BY <1>1, <2>2 DEF IInv, Position, AtClientFirst, AtClientFinal, AtAcknowledge, AtDone
  <2>4. transcript[2].arg = Input(m) /\ transcript[2].arg.bytes = m
    BY <2>3 DEF FinalStep, Input
  <2>5. IsMessage(m)
    <3>1. Input(m) \in Args
      BY <1>1, <2>3, <2>4 DEF Fed
    <3>2. m \in Messages
      BY <3>1 DEF Args, Input, NoArg, PeerDone
    <3> QED BY <3>2, MessagesAssumption DEF IsMessage
  <2>6. /\ transcript[2].reply.payload.without_proof.r = LastField(m, "r")
        /\ transcript[2].reply.payload.proof.salted = SaltedPassword(Prepare(creds.password), m)
    <3>1. FinalStep(creds, m).reply.payload.without_proof = WithoutProof(m, creds)
      BY DEF FinalStep, WantsWrite, ClientFinal
    <3>2. FinalStep(creds, m).reply.payload.proof.salted = SaltedPassword(Prepare(creds.password), m)
      BY DEF FinalStep, WantsWrite, ClientFinal, ClientProof
    <3>3. WithoutProof(m, creds).r = LastField(m, "r")
      BY DEF WithoutProof
    <3> QED BY <2>3, <3>1, <3>2, <3>3
  <2>7. /\ SaltedPassword(Prepare(creds.password), m).salt = LastField(m, "s")
        /\ SaltedPassword(Prepare(creds.password), m).rounds =
              IF LastField(m, "i") = 0 THEN 1 ELSE LastField(m, "i")
    BY <2>3, <2>5, Accepted DEF SaltedPassword, Pbkdf2, Count
  <2> DEFINE rounds == IF LastField(m, "i") = 0 THEN 1 ELSE LastField(m, "i")
             Spells(key, value) ==
                 \E k \in DOMAIN m : /\ m[k][1] = key /\ m[k][2] = value
                                    /\ \A j \in DOMAIN m : m[j][1] = key => j <= k
  <2>8. \A key \in {"r", "s", "i"} : Spells(key, LastField(m, key))
    BY <2>3, <2>5, Accepted
  <2>9. \A k \in DOMAIN m : m[k][1] = "i" => m[k][2] \in 0..U32Max
    BY <2>3, <2>5, Accepted
  <2>10. LastField(m, "s") # Garbage
    BY <2>3, <2>5, Accepted
  <2>11. \/ rounds # 0 /\ Spells("i", rounds)
         \/ rounds = 1 /\ Spells("i", 0)
    <3> HIDE DEF Spells
    <3> QED BY <2>8
  <2> QED BY <2>2, <2>4, <2>6, <2>7, <2>8, <2>9, <2>10, <2>11 DEF DerivedAsSpelled
<1> QED BY <1>1, Initially, Stepwise, FedInit, FedStep, PTL DEF Spec

\* The credentials are prepared together or not at all.
THEOREM PreparationAtomic == Spec => []PreparedTogether
<1>1. IInv => PreparedTogether
  BY DEF IInv, Position, AtClientFirst, AtClientFinal, AtAcknowledge, AtDone, Raw, AllPrepared,
     PreparedTogether
<1> QED BY <1>1, Invariance, PTL

\* The signature to expect is that of the challenge the proof answered.
THEOREM Expectation == Spec => []ExpectationMatchesProof
<1>1. IInv => ExpectationMatchesProof
  <2> SUFFICES ASSUME IInv PROVE ExpectationMatchesProof
    OBVIOUS
  <2>1. CASE state \in {"SendClientFirst", "SendClientFinal"}
    BY <2>1, ProofsAt DEF ExpectationMatchesProof, IInv, Position, AtClientFirst, AtClientFinal,
       AtAcknowledge, AtDone
  <2>2. CASE state \in {"Acknowledge", "Done"}
    <3>1. PICK m : /\ transcript[2] = FinalStep(creds, m)
                                         /\ expected_server_signature = Reference(creds, m)
      BY <2>2 DEF IInv, Position, AtClientFirst, AtClientFinal, AtAcknowledge, AtDone
    <3> QED BY <2>2, <3>1, ProofsAt, StepKinds DEF ExpectationMatchesProof
  <2> QED BY <2>1, <2>2 DEF IInv, Position, AtClientFirst, AtClientFinal, AtAcknowledge, AtDone
<1> QED BY <1>1, Invariance, PTL

\* A resume that completes Err leaves the coroutine as it was.
THEOREM FailureAtomic == Spec => FailuresChangeNothing
<1>1. [Next]_vars => [last'.reply.kind = "Err" => UNCHANGED <<machine, transcript>>]_vars
  <2> SUFFICES ASSUME NEW arg \in Args, Resume(arg), last'.reply.kind = "Err"
               PROVE  UNCHANGED <<machine, transcript>>
    BY DEF Next
  <2>1. ~SendClientFirst(arg) /\ ~SendClientFinal(arg) /\ ~Acknowledge(arg)
    BY DEF SendClientFirst, SendClientFinal, Acknowledge, Write, WantsWrite
  <2>2. ~Finish(arg)
    BY DEF Finish, Return, CompleteOk
  <2>3. \E error : Fail(arg, error)
    BY <2>1, <2>2 DEF Resume, RefuseCredentials, RefuseServerFirst, RefuseServerFinal, RefuseEnd,
       RefuseUnexpected
  <2> QED BY <2>3 DEF Fail, Return
<1> QED BY <1>1, PTL DEF Spec, FailuresChangeNothing
----
(***************************************************************************)
(* Refinement of SaslContract.                                             *)
(***************************************************************************)
Shape == /\ state \in States
         /\ state = "Done" <=> ServerProved
         /\ Cardinality(ProofsSent) = IF state \in {"Acknowledge", "Done"} THEN 1 ELSE 0

LEMMA IInvShape == IInv => Shape
<1> SUFFICES ASSUME IInv PROVE Shape
  OBVIOUS
<1>1. state \in States
  BY DEF IInv, Position, AtClientFirst, AtClientFinal, AtAcknowledge, AtDone, States
<1>2. Cardinality({}) = 0 /\ Cardinality({2}) = 1
  BY FS_EmptySet, FS_Singleton
<1> QED BY <1>1, <1>2, ProofsAt DEF Shape, States

LEMMA ContractInit == Init => Contract!Init
<1> SUFFICES ASSUME Init PROVE Contract!Init
  OBVIOUS
<1>1. state = "SendClientFirst" /\ Shape
  BY Initially, IInvShape DEF Init
<1>2. Verdict = "pending"
  BY DEF Init, Fresh, Verdict, NoReply
<1> QED BY <1>1, <1>2 DEF Shape, Contract!Init

LEMMA ContractStep == Shape /\ Shape' /\ [Next]_vars => [Contract!Next]_(Contract!vars)
<1> SUFFICES ASSUME Shape, Shape', [Next]_vars PROVE [Contract!Next]_(Contract!vars)
  OBVIOUS
<1> DEFINE spent == Cardinality(ProofsSent)
           done == ServerProved
<1>1. /\ state = "Done" <=> done
      /\ spent = IF state \in {"Acknowledge", "Done"} THEN 1 ELSE 0
      /\ state' = "Done" <=> done'
      /\ spent' = IF state' \in {"Acknowledge", "Done"} THEN 1 ELSE 0
  BY DEF Shape
<1>2. ASSUME state' = state, last'.reply.kind = "Err" PROVE Contract!Refuse
  BY <1>1, <1>2 DEF Contract!Refuse, Verdict
<1>3. ASSUME NEW arg \in Args, Resume(arg) PROVE Contract!Next
  <2>1. CASE SendClientFirst(arg)
    <3>1. state = "SendClientFirst" /\ state' = "SendClientFinal" /\ last'.reply.kind = "WantsWrite"
      BY <2>1 DEF SendClientFirst, Write, WantsWrite
    <3>2. Contract!Yield
      BY <1>1, <3>1 DEF Contract!Yield, Verdict
    <3> QED BY <3>2 DEF Contract!Next
  <2>2. CASE SendClientFinal(arg)
    <3>1. state = "SendClientFinal" /\ state' = "Acknowledge" /\ last'.reply.kind = "WantsWrite"
      BY <2>2 DEF SendClientFinal, Write, WantsWrite
    <3>2. Contract!Spend
      BY <1>1, <3>1 DEF Contract!Spend, Verdict
    <3> QED BY <3>2 DEF Contract!Next
  <2>3. CASE Acknowledge(arg)
    <3>1. state = "Acknowledge" /\ state' = "Done" /\ last'.reply.kind = "WantsWrite"
      BY <2>3 DEF Acknowledge, Write, WantsWrite
    <3>2. Contract!Answer
      BY <1>1, <3>1 DEF Contract!Answer, Verdict
    <3> QED BY <3>2 DEF Contract!Next
  <2>4. CASE Finish(arg)
    <3>1. state = "Done" /\ state' = "Done" /\ last'.reply.kind = "Ok"
      BY <2>4 DEF Finish, Return, CompleteOk, machine
    <3>2. Contract!Accept
      BY <1>1, <3>1 DEF Contract!Accept, Verdict
    <3> QED BY <3>2 DEF Contract!Next
  <2>5. CASE \E error : Fail(arg, error)
    <3>1. state' = state /\ last'.reply.kind = "Err"
      BY <2>5 DEF Fail, Return, CompleteErr, machine
    <3> QED BY <1>2, <3>1 DEF Contract!Next
  <2> QED BY <1>3, <2>1, <2>2, <2>3, <2>4, <2>5 DEF Resume, RefuseCredentials, RefuseServerFirst,
          RefuseServerFinal, RefuseEnd, RefuseUnexpected
<1>4. CASE UNCHANGED vars
  BY <1>4 DEF vars, Contract!vars, Verdict, ProofsSent, Written, ServerProved
<1> QED BY <1>3, <1>4 DEF Next

\* SaslScram keeps the contract of a mechanism that authenticates the server.
THEOREM Implementation == Spec => ImplementsContract
<1> QED BY Invariance, IInvShape, ContractInit, ContractStep, PTL DEF Spec, ImplementsContract, Contract!Spec
====
