---- MODULE ScramExchange ----
(***************************************************************************)
(* SaslScram between the two parties it talks through: the protocol crate  *)
(* that drives it (io-imap, io-smtp) and the server, over one exchange     *)
(* after another.  Driver and server are not in this repository; they are  *)
(* modelled from what src/coroutine.rs says a driver does and from the     *)
(* messages src/rfc5802.rs writes and reads.                               *)
(*                                                                         *)
(* The exchange is half-duplex: one message is on the wire, for the driver *)
(* or for the server.  The wire may let the client down: a header is       *)
(* rewritten, an answer of this exchange or of an earlier one comes back   *)
(* in the place of the server's, a success arrives early, a server signs   *)
(* without having verified, or the driver gives up waiting.  Such an       *)
(* exchange is no longer clean.  The driver may then start over with a     *)
(* coroutine built from the same credentials and a nonce of its own.       *)
(***************************************************************************)
EXTENDS Scram, Vocabulary

CONSTANTS
    Stored,         \* the passwords a server may store, prepared
    ServerNonces,   \* what a server may append to the client nonce, one token each
    MaxExchanges    \* bound: coroutines the driver builds, one after the other

VARIABLES
    setup,      \* fixed: the profile and the name the driver frames its exchanges under; the
                \* password and the TLS material the server has, and whether it offers -PLUS
    outcome,    \* of the driver: "running", "authenticated", "failed", "refused", "abandoned"
    wire,       \* the message under way
    server,     \* the server's side of the current exchange
    seen,       \* every challenge a server has sent so far
    used,       \* the nonces of the coroutines built so far
    clean       \* has the wire kept its word in this exchange?

peers == <<setup, outcome, wire, server, seen, used, clean>>
allvars == <<vars, peers>>

ASSUME ExchangeAssumption ==
    Stored \subseteq Text /\ Materials \subseteq Text /\ MaxExchanges \in Nat \ {0}
\* A nonce is printable, so nonces that differ still do once read as text.
ASSUME NonceAssumption ==
    \A c, d \in Creds : ClientNonce(c) = ClientNonce(d) => c.nonce = d.nonce

Quiet == [to |-> "nobody"]
ToServer(payload) == [to |-> "server", payload |-> payload]
Challenge(bytes) == [to |-> "driver", kind |-> "challenge", bytes |-> bytes]
Success == [to |-> "driver", kind |-> "success"]
SuccessWith(bytes) == [to |-> "driver", kind |-> "success with data", bytes |-> bytes]
Refusal == [to |-> "driver", kind |-> "refusal"]

NoServer == [state |-> "idle"]

\* What a coroutine of a profile announces, picked in `new`.
Announced(profile, c) == Profiles[profile][Mechanism(c)]

\* The name on the wire: that of Sasl::mechanism, by which a driver can frame the
\* exchange before it builds the coroutine, or that of the coroutine.
FramedAs(profile, c) ==
    {as_str[tag] : tag \in {mechanism(From(profile, c)), Announced(profile, c)}}

ExchangeInit ==
    /\ Init
    /\ \E profile \in DOMAIN Profiles :
          setup \in [profile : {profile}, name : FramedAs(profile, creds),
                    stored : Stored, material : Materials, plus : BOOLEAN]
    /\ outcome = "running"
    /\ wire = Quiet
    /\ server = NoServer
    /\ seen = {}
    /\ used = {creds.nonce}
    /\ clean = TRUE
----
(***************************************************************************)
(* The driver.                                                             *)
(***************************************************************************)
\* One resume, and what a driver does with each reply but the write.
Feed(arg) ==
    /\ outcome = "running"
    /\ Resume(arg)
    /\ outcome' = CASE last'.reply.kind = "Ok"  -> "authenticated"
                    [] last'.reply.kind = "Err" -> "failed"
                    [] OTHER                    -> "running"
    /\ UNCHANGED <<setup, server, seen, used, clean>>

Send == wire' = IF last'.reply.kind = "WantsWrite" THEN ToServer(last'.reply.payload) ELSE Quiet

Begin == /\ last.reply = NoReply
         /\ Feed(NoArg)
         /\ Send

AnswerChallenge == /\ wire.to = "driver"
                   /\ wire.kind = "challenge"
                   /\ Feed(Input(wire.bytes))
                   /\ Send

\* The final message came with the success: whatever the mechanism then wants to
\* write has nowhere to go, and the driver reports the end.
AnswerSuccessWith == /\ wire.to = "driver"
                     /\ wire.kind = "success with data"
                     /\ Feed(Input(wire.bytes))
                     /\ wire' = IF last'.reply.kind = "WantsWrite" THEN Success ELSE Quiet

AnswerSuccess == /\ wire.to = "driver"
                 /\ wire.kind = "success"
                 /\ Feed(PeerDone)
                 /\ Send

\* A refusal is the protocol's own error: the mechanism is not resumed.
TakeRefusal == /\ wire.to = "driver"
               /\ wire.kind = "refusal"
               /\ outcome = "running"
               /\ outcome' = "refused"
               /\ wire' = Quiet
               /\ UNCHANGED <<vars, setup, server, seen, used, clean>>

Driver == Begin \/ AnswerChallenge \/ AnswerSuccessWith \/ AnswerSuccess \/ TakeRefusal

\* The same credentials in a new coroutine, under a nonce no earlier one used.
Retry == /\ outcome \in {"failed", "refused", "abandoned"}
         /\ Cardinality(used) < MaxExchanges
         /\ creds' \in {c \in Creds : /\ c.nonce \notin used
                                      /\ [c EXCEPT !.nonce = creds.nonce] = creds}
         /\ state' = "SendClientFirst"
         /\ username' = creds.username
         /\ password' = creds.password
         /\ client_first_bare' = NoBare
         /\ expected_server_signature' = NoBytes
         /\ last' = [arg |-> NoArg, reply |-> NoReply]
         /\ transcript' = <<>>
         /\ outcome' = "running"
         /\ wire' = Quiet
         /\ server' = NoServer
         /\ used' = used \cup {creds'.nonce}
         /\ clean' = TRUE
         /\ UNCHANGED <<setup, seen>>
----
(***************************************************************************)
(* The server.                                                             *)
(***************************************************************************)
Arrived(kind) == wire.to = "server" /\ wire.payload.kind = kind

Say(message) ==
    /\ wire' = message
    /\ seen' = IF message.kind = "challenge" THEN seen \cup {message} ELSE seen
    /\ UNCHANGED <<vars, setup, outcome, used>>

\* The flag read has to fit the mechanism named and what this server offers: a
\* client that could bind and was offered no binding sends y, which a server that
\* does offer it refuses.
Suits(header) == LET flag == header[1]
                 IN  /\ flag = "p" <=> setup.name = as_str[Profiles[setup.profile].MECHANISM_PLUS]
                     /\ flag = "p" => setup.plus
                     /\ flag = "y" => ~setup.plus

ReadClientFirst(header) ==
    /\ Arrived("client-first")
    /\ server = NoServer
    /\ IF Suits(header)
       THEN \E n \in ServerNonces :
            LET bare == wire.payload.bare
                first == << <<"r", bare.r \o <<n>>>>, <<"s", "salt">>, <<"i", 1>> >>
            IN  /\ server' = [state |-> "challenged", header |-> header, bare |-> bare, first |-> first]
                /\ Say(Challenge(first))
       ELSE Say(Refusal) /\ server' = [state |-> "refused"]

ServerAuth == AuthMessage(server.bare, server.first, wire.payload.without_proof)
ServerSalted == SaltedPassword(setup.stored, server.first)

Verifies(final) ==
    /\ final.without_proof.c =
         server.header \o (IF server.header[1] = "p" THEN setup.material ELSE <<>>)
    /\ final.without_proof.r = LastField(server.first, "r")
    /\ final.proof = ClientProof(ServerSalted, ServerAuth)

\* The signature goes out as a challenge, or with the success where the protocol's
\* grammar carries data there.
Verify == /\ Arrived("client-final")
          /\ server.state = "challenged"
          /\ Verifies(wire.payload)
          /\ server' = [server EXCEPT !.state = "verified"]
          /\ LET final == ServerFinal(ServerSignature(ServerSalted, ServerAuth))
             IN  Say(Challenge(final)) \/ Say(SuccessWith(final))
          /\ UNCHANGED clean

Reject == /\ Arrived("client-final")
          /\ server.state = "challenged" => ~Verifies(wire.payload)
          /\ server' = [state |-> "refused"]
          /\ Say(Refusal) \/ Say(Challenge(<< <<"e", "invalid-proof">> >>))
          /\ UNCHANGED clean

Conclude == /\ Arrived("empty")
            /\ Say(IF server.state = "verified" THEN Success ELSE Refusal)
            /\ UNCHANGED <<server, clean>>

Server == \/ Arrived("client-first") /\ ReadClientFirst(wire.payload.header) /\ UNCHANGED clean
          \/ Verify \/ Reject \/ Conclude
----
(***************************************************************************)
(* What the wire, and the peer, may do instead.                            *)
(***************************************************************************)
RewriteHeader == /\ Arrived("client-first")
                 /\ \E b \in Bindings : ReadClientFirst(Header(b, NoAuthzid))
                 /\ clean' = FALSE

\* Another answer than the server's: one it has sent before, or an early success.
Stray == /\ wire.to = "server"
         /\ wire' \in seen \cup {Success}
         /\ clean' = FALSE
         /\ UNCHANGED <<vars, setup, outcome, server, seen, used>>

\* A server signs with whatever password it stores, the proof unverified.
SignUnverified == /\ Arrived("client-final")
                  /\ server.state = "challenged"
                  /\ server' = [server EXCEPT !.state = "unverified"]
                  /\ Say(Challenge(ServerFinal(ServerSignature(ServerSalted, ServerAuth))))
                  /\ clean' = FALSE

\* The driver stops waiting; what was under way may still turn up, as a stray.
Abandon == /\ outcome = "running"
           /\ wire # Quiet
           /\ outcome' = "abandoned"
           /\ wire' = Quiet
           /\ seen' = IF wire.to = "driver" THEN seen \cup {wire} ELSE seen
           /\ clean' = FALSE
           /\ UNCHANGED <<vars, setup, server, used>>

Fault == RewriteHeader \/ Stray \/ SignUnverified \/ Abandon

\* The driver is done with the exchange.
Rest == outcome # "running" /\ UNCHANGED allvars

ExchangeNext == Driver \/ Server \/ Fault \/ Retry \/ Rest

\* A driver that is handed a message resumes, and a server that is handed one answers.
ExchangeSpec == ExchangeInit /\ [][ExchangeNext]_allvars
                  /\ WF_allvars(Driver) /\ WF_allvars(Server)
----
(***************************************************************************)
(* Properties.                                                             *)
(***************************************************************************)
\* Mutual authentication: when the driver is told Ok, this server, which stores the
\* client's password, has signed this very exchange: the challenge the client answered
\* is the one this server sent, and what the server read is what the client wrote.
Agreement ==
    outcome = "authenticated" =>
        /\ setup.stored = Prepare(creds.password)
        /\ server.state \in {"verified", "unverified"}
        /\ server.bare = client_first_bare
        /\ \E i \in ProofsSent : transcript[i].arg = Input(server.first)

\* A server that verified the proof read the channel binding flag as the client wrote
\* it, and both ends hold the same binding material: a rewritten header never survives.
BindingAgreement ==
    server.state = "verified" =>
        /\ server.header = Gs2Header(creds)
        /\ IsBound(creds.binding) => creds.binding.data = setup.material

\* A server that offers a channel binding never ends up verifying a client that could
\* have bound and was told that there was none: whoever hid the offer is found out.
NoDowngrade == server.state = "verified" /\ setup.plus => creds.binding # Unused

\* No exchange goes on for ever, and none gets stuck with each side waiting for the other.
EventuallyDecided == outcome = "running" ~> outcome # "running"

Compatible == /\ Preparable
              /\ setup.stored = Prepare(creds.password)
              /\ IF IsBound(creds.binding) THEN setup.plus /\ setup.material = creds.binding.data
                 ELSE creds.binding = Unused => ~setup.plus

\* Credentials the server knows are accepted, on the first exchange and on one that
\* follows failed ones, unless the wire interferes with that exchange too.
HonestSucceeds ==
    (last.reply = NoReply /\ Compatible) ~> (outcome = "authenticated" \/ ~clean)
====
