---- MODULE SaslContract ----
(***************************************************************************)
(* What a mechanism coroutine promises the protocol crate that drives it   *)
(* (src/coroutine.rs, the SaslCoroutine trait), whatever the driver feeds  *)
(* it and in whatever order:                                               *)
(*                                                                         *)
(*   - it completes Ok only when it is satisfied: a mutual mechanism when  *)
(*     the server has proved itself, and none after the server turned the  *)
(*     credential down;                                                    *)
(*   - what the peer's messages establish, they establish after the        *)
(*     credential went out, and the credential goes out once;              *)
(*   - a resume that completes Err changes nothing an outcome depends on.  *)
(*                                                                         *)
(* Nothing latches the verdict: a driver that resumes a completed          *)
(* coroutine is answered again, under the same promises.                   *)
(***************************************************************************)
EXTENDS Naturals

CONSTANT Mutual     \* does the mechanism authenticate the server itself?

VARIABLES
    spent,      \* how often a credential (a proof, a password, a token) was yielded
    peer,       \* what the peer's messages established: "open", "proven", "rejected"
    verdict     \* what the last resume returned: "pending", "ok", "err"

vars == <<spent, peer, verdict>>

Init == /\ spent = 0
        /\ peer = "open"
        /\ verdict = "pending"

\* A message that carries no credential, or a request to read.
Yield == /\ verdict' = "pending"
         /\ UNCHANGED <<spent, peer>>

Spend == /\ spent = 0
         /\ spent' = 1
         /\ verdict' = "pending"
         /\ UNCHANGED peer

\* The answer to the credential: a proof of the server, or a refusal that
\* the mechanism still has to acknowledge.
Answer == /\ spent = 1
          /\ peer = "open"
          /\ peer' \in {"proven", "rejected"}
          /\ verdict' = "pending"
          /\ UNCHANGED spent

Accept == /\ peer # "rejected"
          /\ Mutual => peer = "proven"
          /\ verdict' = "ok"
          /\ UNCHANGED <<spent, peer>>

Refuse == /\ verdict' = "err"
          /\ UNCHANGED <<spent, peer>>

Next == Yield \/ Spend \/ Answer \/ Accept \/ Refuse

Spec == Init /\ [][Next]_vars
====
