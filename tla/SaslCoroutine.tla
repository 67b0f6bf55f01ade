---- MODULE SaslCoroutine ----
(***************************************************************************)
(* What every mechanism shares with its driver: the arguments of a resume, *)
(* what a resume returns (src/coroutine.rs), and the part of the state all *)
(* the mechanisms have.  A payload is a record whose kind says which       *)
(* message of which mechanism it is.                                       *)
(***************************************************************************)
LOCAL INSTANCE Sequences

VARIABLES
    creds,          \* the credentials the coroutine was built from
    state,          \* its private State
    last,           \* the last resume: its argument and its reply
    transcript      \* history: the resumes that yielded a write, in order

\* SaslArg: what the protocol crate feeds back.
NoArg == [kind |-> "None"]
Input(bytes) == [kind |-> "Input", bytes |-> bytes]
PeerDone == [kind |-> "Done"]

\* SaslCoroutineState: a SaslYield, or the outcome of the exchange.
WantsRead == [kind |-> "WantsRead"]
WantsWrite(payload) == [kind |-> "WantsWrite", payload |-> payload]
CompleteOk == [kind |-> "Ok"]
CompleteErr(error) == [kind |-> "Err", error |-> error]

EmptyPayload == [kind |-> "empty"]

\* Nobody has resumed the coroutine yet.
NoReply == [kind |-> "fresh"]
Fresh == /\ last = [arg |-> NoArg, reply |-> NoReply]
         /\ transcript = <<>>

Return(arg, reply) == /\ last' = [arg |-> arg, reply |-> reply]
                      /\ UNCHANGED transcript

Write(arg, payload) ==
    LET step == [arg |-> arg, reply |-> WantsWrite(payload)]
    IN  /\ last' = step
        /\ transcript' = Append(transcript, step)

\* Completing without changing anything, as every mechanism but SCRAM does.
Accept(arg) == Return(arg, CompleteOk) /\ UNCHANGED <<creds, state>>
Refuse(arg, error) == Return(arg, CompleteErr(error)) /\ UNCHANGED <<creds, state>>

\* The writes of some kinds, and what the last resume says of the exchange.
Written(kinds) == {i \in DOMAIN transcript : transcript[i].reply.payload.kind \in kinds}

Verdict == IF last.reply.kind = "Ok" THEN "ok"
           ELSE IF last.reply.kind = "Err" THEN "err" ELSE "pending"
====
