---- MODULE Session ----
(***************************************************************************)
(* The mechanisms that compute their payloads between the protocol crate   *)
(* that drives them (io-imap, io-smtp) and a server, over one exchange     *)
(* after another.  Driver and server are not in this repository: they are  *)
(* modelled from what src/coroutine.rs and the mechanisms say a driver     *)
(* does, and from the messages the mechanisms write.                       *)
(*                                                                         *)
(* The protocol may let the initial response travel with its command;      *)
(* where it does not, the driver keeps it and answers the server's first,  *)
(* empty challenge with it, and the coroutine is resumed with the next     *)
(* one.  The wire may put an earlier challenge or an early success in the  *)
(* place of the server's answer, and the driver may give up waiting: such  *)
(* an exchange is no longer clean.  A new one starts from the same Sasl    *)
(* value, whatever the coroutine before took out of its credentials.       *)
(***************************************************************************)
EXTENDS Mechanisms

CONSTANTS
    Accounts,       \* what a server may store: [username, password, token, names, anonymous]
    Nonces,         \* the challenges a CRAM-MD5 server makes up
    ErrorJson,      \* what a server says of a token it turns down
    MaxExchanges    \* bound: coroutines the driver builds, one after the other

VARIABLES
    setup,      \* fixed: the server's account, and may the initial response go inline?
    outcome,    \* of the driver: "running", "authenticated", "failed", "refused", "abandoned"
    held,       \* the initial response the driver keeps for the first challenge, if any
    wire,       \* the message under way
    server,     \* the server's side of the current exchange
    seen,       \* every challenge a server has sent so far
    exchanges,  \* how many exchanges were begun
    clean       \* has the wire kept its word in this exchange?

sessionvars == <<vars, setup, outcome, held, wire, server, seen, exchanges, clean>>

ASSUME SessionAssumption ==
    /\ \A s \in Sasls : s.variant \notin Relays
    /\ Nonces \cup {<<>>, <<"Password:">>, ErrorJson} \subseteq Inputs
    \* An account may act as itself.
    /\ \A a \in Accounts : /\ {a.username, a.password, a.token} \subseteq Text
                           /\ a.username \in a.names
    \* None of these mechanisms writes more.
    /\ MaxWrites >= 2
    /\ MaxExchanges \in Nat \ {0}

Quiet == [to |-> "nobody"]
Command(initial) == [to |-> "server", kind |-> "command", initial |-> initial]
Response(payload) == [to |-> "server", kind |-> "response", payload |-> payload]
Challenge(bytes) == [to |-> "driver", kind |-> "challenge", bytes |-> bytes]
Success == [to |-> "driver", kind |-> "success"]
Refusal == [to |-> "driver", kind |-> "refusal"]

Idle == [state |-> "idle"]

\* What the exchange is framed under.
Name == as_str[mechanism(sasl)]

SessionInit ==
    /\ Init
    /\ setup \in [account : Accounts, inline : BOOLEAN]
    /\ outcome = "running"
    /\ held = {}
    /\ wire = Quiet
    /\ server = Idle
    /\ seen = {}
    /\ exchanges = 1
    /\ clean = TRUE
----
(***************************************************************************)
(* The driver.                                                             *)
(***************************************************************************)
Feed(arg) == /\ outcome = "running"
             /\ Resume(arg)
             /\ UNCHANGED <<sasl, setup, server, seen, exchanges, clean>>

Conclude == outcome' = CASE last'.reply.kind = "Ok"  -> "authenticated"
                         [] last'.reply.kind = "Err" -> "failed"
                         [] OTHER                    -> "running"

\* A server-first mechanism asks to read, and its command goes out bare.
Begin ==
    /\ last.reply = NoReply
    /\ Feed(NoArg)
    /\ Conclude
    /\ LET initial == IF last'.reply.kind = "WantsWrite" THEN {last'.reply.payload} ELSE {}
       IN  /\ held' = IF setup.inline THEN {} ELSE initial
           /\ wire' = IF outcome' # "running" THEN Quiet
                      ELSE Command(IF setup.inline THEN initial ELSE {})

OnWire(kind) == wire.to = "driver" /\ wire.kind = kind

AnswerHeld == /\ OnWire("challenge")
              /\ \E payload \in held : wire' = Response(payload)
              /\ held' = {}
              /\ UNCHANGED <<vars, setup, outcome, server, seen, exchanges, clean>>

AnswerChallenge == /\ OnWire("challenge")
                   /\ held = {}
                   /\ Feed(Input(wire.bytes))
                   /\ Conclude
                   /\ wire' = IF last'.reply.kind = "WantsWrite" THEN Response(last'.reply.payload)
                              ELSE Quiet
                   /\ UNCHANGED held

AnswerSuccess == /\ OnWire("success")
                 /\ Feed(PeerDone)
                 /\ Conclude
                 /\ wire' = Quiet
                 /\ UNCHANGED held

\* The server ended the exchange with the protocol's own error: the mechanism is told
\* that the peer is done, and may know the reason.
TakeRefusal == /\ OnWire("refusal")
               /\ Feed(PeerDone)
               /\ outcome' = IF last'.reply.kind = "Err" THEN "failed" ELSE "refused"
               /\ wire' = Quiet
               /\ UNCHANGED held

Driver == Begin \/ AnswerHeld \/ AnswerChallenge \/ AnswerSuccess \/ TakeRefusal

\* A new coroutine from the same Sasl value.
Retry == /\ outcome \in {"failed", "refused", "abandoned"}
         /\ exchanges < MaxExchanges
         /\ exchanges' = exchanges + 1
         /\ creds' = sasl.creds
         /\ state' = StartOf[sasl.variant]
         /\ last' = [arg |-> NoArg, reply |-> NoReply]
         /\ transcript' = <<>>
         /\ outcome' = "running"
         /\ held' = {}
         /\ wire' = Quiet
         /\ server' = Idle
         /\ clean' = TRUE
         /\ UNCHANGED <<sasl, setup, seen>>
----
(***************************************************************************)
(* The server, which knows the mechanism by its name alone.                *)
(***************************************************************************)
Say(message) ==
    /\ wire' = message
    /\ seen' = IF message.to = "driver" /\ message.kind = "challenge" THEN seen \cup {message} ELSE seen
    /\ UNCHANGED <<vars, setup, outcome, held, exchanges, clean>>

Reads == CASE Name = "LOGIN"    -> "username"
           [] Name = "CRAM-MD5" -> "digest"
           [] OTHER             -> "credentials"

Unclaimed == setup.account.username

\* The identity that the credentials read give access to: none, or one.
Acting(authzid) == IF authzid = <<>> THEN {Unclaimed}
                   ELSE {authzid} \cap setup.account.names

Bearer == <<"auth=Bearer ">> \o setup.account.token

\* What the messages that are no text are made of.
OctetsOf(payload) == CASE payload.kind = "empty" -> <<>>
                     [] payload.kind = "0x01"  -> <<"SOH">>
                     [] OTHER                  -> payload.bytes

Identify(bytes) ==
    LET zeros == Split(bytes, "NUL")
        pairs == Split(bytes, "SOH")
    IN  CASE Name = "PLAIN" ->
               IF Len(zeros) = 3 /\ Tail(zeros) = <<Unclaimed, setup.account.password>>
               THEN Acting(zeros[1]) ELSE {}
          [] Name = "EXTERNAL" -> Acting(bytes)
          [] Name = "ANONYMOUS" -> IF setup.account.anonymous THEN {<<"anonymous">>} ELSE {}
          [] Name = "XOAUTH2" ->
               IF pairs = << <<"user=">> \o Unclaimed, Bearer, <<>>, <<>> >> THEN {Unclaimed} ELSE {}
          [] Name = "OAUTHBEARER" ->
               IF /\ Len(pairs) = 6 /\ pairs[4] = Bearer
                  /\ pairs[1] = <<"n", ",", "a", "=">> \o Unclaimed \o <<",">>
               THEN {Unclaimed} ELSE {}

\* The end of an exchange, or one more round for a token that is turned down.
Decide(identities) ==
    \/ /\ identities # {}
       /\ \E identity \in identities : server' = [state |-> "accepted", identity |-> identity]
       /\ Say(Success)
    \/ /\ identities = {}
       /\ server' = [state |-> "denied"]
       /\ Say(Refusal)
    \/ /\ identities = {} /\ Name \in {"XOAUTH2", "OAUTHBEARER"}
       /\ server' = [state |-> "rejected", wants |-> "acknowledgement"]
       /\ Say(Challenge(ErrorJson))

Read(wants, payload) ==
    CASE wants = "username" -> /\ server' = [state |-> "open", wants |-> "password",
                                             username |-> payload.bytes]
                               /\ Say(Challenge(<<"Password:">>))
      [] wants = "password" -> Decide(IF /\ server.username = Unclaimed
                                         /\ payload.bytes = setup.account.password
                                      THEN {Unclaimed} ELSE {})
      [] wants = "digest" -> Decide(IF /\ payload.username = Unclaimed
                                       /\ payload.digest = CramMd5M!Digest(setup.account.password,
                                                                           server.challenge)
                                    THEN {Unclaimed} ELSE {})
      [] wants = "credentials" -> Decide(Identify(OctetsOf(payload)))
      [] wants = "acknowledgement" -> Say(Refusal) /\ UNCHANGED server

Arrived(kind) == wire.to = "server" /\ wire.kind = kind

\* The challenge that asks for what the command did not bring.
Prompt == /\ Arrived("command")
          /\ wire.initial = {}
          /\ \E bytes \in IF Reads = "digest" THEN Nonces ELSE {<<>>} :
                /\ Reads = "digest" => Challenge(bytes) \notin seen
                /\ server' = [state |-> "open", wants |-> Reads, challenge |-> bytes]
                /\ Say(Challenge(bytes))

ReadCommand == /\ Arrived("command")
               /\ \E payload \in wire.initial : Read(Reads, payload)

ReadResponse == /\ Arrived("response")
                /\ server.state \in {"open", "rejected"}
                /\ Read(server.wants, wire.payload)

\* A response nobody asked for.
RefuseResponse == /\ Arrived("response")
                  /\ server.state \notin {"open", "rejected"}
                  /\ Say(Refusal)
                  /\ UNCHANGED server

Server == Prompt \/ ReadCommand \/ ReadResponse \/ RefuseResponse
----
(***************************************************************************)
(* What the wire, and the driver's patience, may do instead.               *)
(***************************************************************************)
Stray == /\ wire.to = "server"
         /\ wire' \in seen \cup {Success}
         /\ clean' = FALSE
         /\ UNCHANGED <<vars, setup, outcome, held, server, seen, exchanges>>

Abandon == /\ outcome = "running"
           /\ wire # Quiet
           /\ outcome' = "abandoned"
           /\ wire' = Quiet
           /\ clean' = FALSE
           /\ UNCHANGED <<vars, setup, held, server, seen, exchanges>>

Rest == outcome # "running" /\ UNCHANGED sessionvars

SessionNext == Driver \/ Server \/ Stray \/ Abandon \/ Retry \/ Rest

\* A driver that is handed a message resumes, and a server that is handed one answers.
SessionSpec == SessionInit /\ [][SessionNext]_sessionvars
                 /\ WF_sessionvars(Driver) /\ WF_sessionvars(Server)
----
(***************************************************************************)
(* Properties.                                                             *)
(***************************************************************************)
Claimed(text, otherwise) == IF text = <<>> THEN otherwise ELSE text
AsSent(text) == IF SaslPrep THEN Prep(text) ELSE text

\* Who the application asks to act as; no identity and an empty one are the same request.
Intended == LET c == sasl.creds
                authzid == IF c.authzid = NoAuthzid THEN <<>> ELSE c.authzid
            IN  CASE Is("Plain")     -> Claimed(AsSent(authzid), AsSent(c.authcid))
                  [] Is("External")  -> Claimed(authzid, Unclaimed)
                  [] Is("Anonymous") -> <<"anonymous">>
                  [] OTHER           -> c.username

\* Are these the credentials that the server stores?
Known == LET c == sasl.creds
             a == setup.account
         IN  CASE Is("Plain")     -> /\ AsSent(c.authcid) = a.username
                                     /\ AsSent(c.passwd) = a.password
                                     /\ Intended \in a.names
               [] Is("Login")     -> c.username = a.username /\ c.password = a.password
               [] Is("CramMd5")   -> c.username = a.username /\ c.secret = a.password
               [] Is("External")  -> Intended \in a.names
               [] Is("Anonymous") -> a.anonymous
               [] OTHER           -> c.username = a.username /\ c.token = a.token

\* A server gives access to the credentials it stores and to the identity the application
\* asked for, in every exchange, and where the wire keeps its word the driver is told of a
\* success that the server decided on.
OutcomesAgree ==
    /\ server.state = "accepted" => Known /\ server.identity = Intended
    /\ outcome = "authenticated" /\ clean => server.state = "accepted"

\* Each response answers what the server is asking for: the password goes out to the
\* prompt for it, never in the place of the username, inline initial response or not.
Answers == [username        |-> {"username"},
            password        |-> {"password"},
            digest          |-> {"digest"},
            credentials     |-> {"plain", "authzid", "trace", "xoauth2", "oauthbearer"},
            acknowledgement |-> {"empty", "0x01"}]

PromptsAnswered ==
    clean /\ wire.to = "server" =>
        IF wire.kind = "response" THEN wire.payload.kind \in Answers[server.wants]
        ELSE \A payload \in wire.initial : payload.kind \in Answers[Reads]

\* A token that the server turned down with a challenge is never reported as accepted,
\* not even if the acknowledgement is answered by a success, and what is reported in the
\* end is what that server said.
RejectionReported ==
    server.state = "rejected" =>
        /\ Acknowledging # {} => outcome # "authenticated"
        /\ outcome \in {"failed", "refused"} /\ clean =>
              last.reply = CompleteErr([error |-> "Rejected", json |-> Lossy(ErrorJson)])

\* No exchange goes on for ever, and none gets stuck with each side waiting for the other.
EventuallyDecided == outcome = "running" ~> outcome # "running"

\* Credentials the server stores are accepted, on the first exchange and on one that
\* follows others, unless the wire interferes with that exchange too.
HonestSucceeds == (last.reply = NoReply /\ Known) ~> (outcome = "authenticated" \/ ~clean)
====
