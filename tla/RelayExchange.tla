---- MODULE RelayExchange ----
(***************************************************************************)
(* The two relays, GSSAPI and GS2-KRB5, where they run: the coroutine, the *)
(* application whose security context makes the tokens it relays, the      *)
(* driver between them and the wire, and the server with a context of its  *)
(* own.  All but the coroutine and the security layer functions are        *)
(* outside this repository: they are modelled from what the two mechanisms *)
(* say the caller owes them.                                               *)
(*                                                                         *)
(* A context takes as many tokens from each side; a token says which one   *)
(* it is, of which context, and what channel that context is bound to, and *)
(* nobody but the two contexts can make or alter it.  GSSAPI goes on with  *)
(* the security layer, whose octets the contexts wrap.  A new exchange     *)
(* takes a new context, hence a new Sasl value.                            *)
(***************************************************************************)
EXTENDS Mechanisms

CONSTANTS
    Legs,           \* how many tokens a context may take from each side
    Radix, Offers, Sizes, Authzids,     \* of the security layer
    GrantedNames,   \* the identities GS2-KRB5 clients may act as
    GrantedOctets,  \* the identities GSSAPI clients may act as, <<>> for their own
    MaxExchanges    \* bound: contexts the application builds, one after the other

VARIABLES
    phase, unwrapped, offer, choice, answer,    \* of the security layer, see SecurityLayer
    setup,      \* fixed: the tokens a context takes, the server's TLS material, does it offer -PLUS?
    caller,     \* the application's context: how many tokens of the server it has taken
    outcome,    \* of the driver: "running", "authenticated", "failed", "refused", "abandoned"
    wire,       \* the message under way
    server,     \* the server's side of the current exchange
    seen,       \* every challenge a server has sent so far
    used,       \* the Sasl values the application has built so far
    clean       \* has the wire kept its word in this exchange?

layervars == <<phase, unwrapped, offer, choice, answer>>
peers == <<setup, caller, outcome, wire, server, seen, used, clean>>
relayvars == <<vars, layervars, peers>>

Layer == INSTANCE SecurityLayer

Numeral == <<"1", "2", "3">>

Token(side, leg, context) == <<side, Numeral[leg]>> \o context

\* A context: what tells it from others, and the channel it is bound to.
ContextOf(s) == SubSeq(s.creds.token, 3, Len(s.creds.token))
Channel(s) == IF s.variant = "Gs2Krb5" THEN CbindInput(s.creds.binding, s.creds.authzid) ELSE <<>>

\* A Sasl value of a relay is the first token of its context, of one identifier at least.
ASSUME RelayAssumption ==
    /\ Legs \subseteq DOMAIN Numeral
    /\ Materials \cup GrantedNames \subseteq Text
    /\ \A s \in Sasls : /\ s = From(s.variant, s.creds)
                        /\ s.variant \in Relays
                        /\ s.creds.token = Token("c", 1, ContextOf(s))
                        /\ ContextOf(s) # <<>>
                        /\ Tail(ContextOf(s)) = Channel(s)
\* Those of SecurityLayer, for the negotiation it is put to here.
ASSUME LayerAssumption ==
    /\ Radix \in Nat /\ Radix >= 8
    /\ Offers \cup Authzids \subseteq Seq(Layer!Octet)
    /\ Sizes \subseteq 0..Radix * Radix * Radix * Radix - 1

\* What a context wraps is as much its own as its tokens.
Wrap(side, context, octets) == <<side, "wrapped", context[1]>> \o octets

Quiet == [to |-> "nobody"]
ToServer(bytes) == [to |-> "server", bytes |-> bytes]
Challenge(bytes) == [to |-> "driver", kind |-> "challenge", bytes |-> bytes]
Success == [to |-> "driver", kind |-> "success"]
Refusal == [to |-> "driver", kind |-> "refusal"]

Idle == [state |-> "idle"]

Name == as_str[mechanism(sasl)]
Negotiates == Name = "GSSAPI"

AnyOf(set) == CHOOSE element \in set : TRUE

RelayInit ==
    /\ Init
    /\ Layer!Init
    /\ setup \in [legs : Legs, material : Materials, plus : BOOLEAN]
    \* One of each is enough where the mechanism has no use for it.
    /\ IF Negotiates THEN setup.material = AnyOf(Materials) /\ ~setup.plus
                     ELSE unwrapped = AnyOf(Offers)
    /\ caller = 0
    /\ outcome = "running"
    /\ wire = Quiet
    /\ server = Idle
    /\ seen = {}
    /\ used = {sasl}
    /\ clean = TRUE
----
(***************************************************************************)
(* The application and the driver.                                         *)
(***************************************************************************)
\* What the context made of the last message goes through the coroutine, and out.
Relay(arg) ==
    /\ outcome = "running"
    /\ Resume(arg)
    /\ outcome' = IF last'.reply.kind = "Err" THEN "failed" ELSE "running"
    /\ wire' = IF last'.reply.kind = "WantsWrite" THEN ToServer(last'.reply.payload.bytes) ELSE Quiet
    /\ UNCHANGED <<sasl, setup, server, seen, used, clean>>

GiveUp == /\ outcome' = "failed"
          /\ wire' = Quiet
          /\ UNCHANGED <<vars, setup, caller, server, seen, used, clean>>

Established == caller = setup.legs

Begin == last.reply = NoReply /\ Relay(NoArg) /\ UNCHANGED <<layervars, caller>>

OnWire(kind) == wire.to = "driver" /\ wire.kind = kind /\ outcome = "running"

\* The context answers each token with its next, and the last one with nothing; it
\* refuses whatever it did not expect.
StepContext ==
    /\ OnWire("challenge")
    /\ ~Established
    /\ UNCHANGED layervars
    /\ IF wire.bytes = Token("s", caller + 1, ContextOf(sasl))
       THEN /\ caller' = caller + 1
            /\ Relay(Input(IF caller' = setup.legs THEN <<>>
                           ELSE Token("c", caller + 2, ContextOf(sasl))))
       ELSE GiveUp

\* Once it is established, the application unwraps the offer of GSSAPI and reads it.
Unwrap == /\ OnWire("challenge")
          /\ Established
          /\ phase = "offered"
          /\ IF Negotiates /\ wire.bytes = Wrap("s", ContextOf(sasl), unwrapped)
             THEN Layer!Read /\ UNCHANGED <<vars, peers>>
             ELSE GiveUp /\ UNCHANGED layervars

RefuseOffer == phase = "refused" /\ outcome = "running" /\ GiveUp /\ UNCHANGED layervars

Choose == outcome = "running" /\ Layer!Choose /\ UNCHANGED <<vars, peers>>

WrapAnswer == /\ outcome = "running"
              /\ Layer!Answer
              /\ Relay(Input(Wrap("c", ContextOf(sasl), answer')))
              /\ UNCHANGED caller

\* A second challenge after the answer fits nothing the application expects.
RefuseMore == OnWire("challenge") /\ phase = "answered" /\ GiveUp /\ UNCHANGED layervars

\* The coroutine takes the peer's word for the end of the exchange: whether the context
\* is established and the layer agreed is for the application to check.
TakeSuccess ==
    /\ OnWire("success")
    /\ Resume(PeerDone)
    /\ outcome' = IF last'.reply.kind = "Ok" /\ Established /\ (Negotiates => phase = "answered")
                  THEN "authenticated" ELSE "failed"
    /\ wire' = Quiet
    /\ UNCHANGED <<sasl, layervars, setup, caller, server, seen, used, clean>>

TakeRefusal == /\ OnWire("refusal")
               /\ outcome' = "refused"
               /\ wire' = Quiet
               /\ UNCHANGED <<vars, layervars, setup, caller, server, seen, used, clean>>

Driver == \/ Begin \/ StepContext \/ Unwrap \/ RefuseOffer \/ Choose \/ WrapAnswer \/ RefuseMore
          \/ TakeSuccess \/ TakeRefusal

\* The same but for the context, and the token it begins with.
Renewed(s) == [s EXCEPT !.creds.token = <<>>]

Retry == /\ outcome \in {"failed", "refused", "abandoned"}
         /\ Cardinality(used) < MaxExchanges
         /\ sasl' \in {s \in Sasls \ used : Renewed(s) = Renewed(sasl)}
         /\ used' = used \cup {sasl'}
         /\ creds' = sasl'.creds
         /\ state' = StartOf[sasl.variant]
         /\ last' = [arg |-> NoArg, reply |-> NoReply]
         /\ transcript' = <<>>
         /\ phase' = "offered"
         /\ offer' = Layer!Nothing
         /\ choice' = Layer!Nothing
         /\ answer' = Layer!Nothing
         /\ caller' = 0
         /\ outcome' = "running"
         /\ wire' = Quiet
         /\ server' = Idle
         /\ clean' = TRUE
         /\ UNCHANGED <<setup, seen, unwrapped>>
----
(***************************************************************************)
(* The server.                                                             *)
(***************************************************************************)
Arrived == wire.to = "server"

Say(message) ==
    /\ wire' = message
    /\ seen' = IF message.kind = "challenge" THEN seen \cup {message} ELSE seen
    /\ UNCHANGED <<vars, layervars, setup, caller, outcome, used>>

Deny(how) == server' = [state |-> how] /\ Say(Refusal)

\* The flag has to fit the name and what this server offers.
Suits(flag) == /\ flag = "p" <=> Name = "GS2-KRB5-PLUS"
               /\ flag = "p" => setup.plus
               /\ flag = "y" => ~setup.plus

\* The context takes the token if it is the one it expects, and answers it.
Take(token, leg, context, header) ==
    IF token = Token("c", leg, context)
    THEN /\ server' = [state |-> "stepping", taken |-> leg, context |-> context, header |-> header]
         /\ Say(Challenge(Token("s", leg, context)))
    ELSE Deny("broken")

\* The first token, behind a header or not, of a context that is bound to what this
\* server sees; one already seen is a replay.
ReadFirst(header, token) ==
    /\ Arrived
    /\ server = Idle
    /\ LET bound == header \o (IF header # <<>> /\ header[1] = "p" THEN setup.material ELSE <<>>)
           context == SubSeq(token, 3, Len(token))
           fresh == \A m \in seen : m.bytes[3] # context[1]
       IN  IF (header # <<>> => Suits(header[1])) /\ context # <<>> /\ fresh /\ Tail(context) = bound
           THEN Take(token, 1, context, header)
           ELSE Deny("refused")

\* Where the header ends: behind the second comma.
HeaderLength(bytes) == LET pieces == Split(bytes, ",") IN Len(pieces[1]) + Len(pieces[2]) + 2

Open == LET bytes == wire.bytes
            cut == IF Negotiates THEN 0 ELSE HeaderLength(bytes)
        IN  /\ ReadFirst(SubSeq(bytes, 1, cut), SubSeq(bytes, cut + 1, Len(bytes)))
            /\ UNCHANGED clean

Step == /\ Arrived
        /\ server.state = "stepping" /\ server.taken < setup.legs
        /\ Take(wire.bytes, server.taken + 1, server.context, server.header)
        /\ UNCHANGED clean

\* The identity a GS2 header names: none, or one of those this server grants.
NamedBy(header) == {n \in GrantedNames \cup {NoAuthzid} :
                       \E b \in Bindings : header = Header(b, n)}

Grant(identity, layer, size) ==
    /\ server' = [state |-> "accepted", header |-> server.header, identity |-> identity,
                  layer |-> layer, size |-> size]
    /\ Say(Success)

\* The client has nothing more to say to the context: GS2 is over, GSSAPI goes on.
Settle == /\ Arrived
          /\ server.state = "stepping" /\ server.taken = setup.legs
          /\ UNCHANGED clean
          /\ IF wire.bytes # <<>> THEN Deny("broken")
             ELSE IF Negotiates
             THEN /\ server' = [server EXCEPT !.state = "offering"]
                  /\ Say(Challenge(Wrap("s", server.context, unwrapped)))
             ELSE IF NamedBy(server.header) = {} THEN Deny("refused")
             ELSE \E n \in NamedBy(server.header) : Grant(n, "None", 0)

\* The answer has to be wrapped by this context, and pick one layer of those offered.
ReadAnswer ==
    /\ Arrived
    /\ server.state = "offering"
    /\ UNCHANGED clean
    /\ IF SubSeq(wire.bytes, 1, 3) # Wrap("c", server.context, <<>>) THEN Deny("broken")
       ELSE LET octets == SubSeq(wire.bytes, 4, Len(wire.bytes))
                heard == Layer!Parse(octets)
                identity == SubSeq(octets, 5, Len(octets))
            IN  IF /\ heard \notin {Layer!Truncated, Layer!Unknown}
                   /\ Cardinality(heard.layers) = 1 /\ heard.layers \subseteq Layer!Offered
                   /\ identity \in GrantedOctets
                THEN \E layer \in heard.layers : Grant(identity, layer, heard.max_message_size)
                ELSE Deny("refused")

Server == Open \/ Step \/ Settle \/ ReadAnswer
----
(***************************************************************************)
(* What the wire, and the driver's patience, may do instead.               *)
(***************************************************************************)
RewriteHeader ==
    /\ ~Negotiates
    /\ LET bytes == wire.bytes
           cut == HeaderLength(bytes)
       IN  \E b \in Bindings, n \in GrantedNames \cup {NoAuthzid} :
              ReadFirst(Header(b, n), SubSeq(bytes, cut + 1, Len(bytes)))
    /\ clean' = FALSE

Stray == /\ Arrived
         /\ wire' \in seen \cup {Success}
         /\ clean' = FALSE
         /\ UNCHANGED <<vars, layervars, setup, caller, outcome, server, seen, used>>

Abandon == /\ outcome = "running"
           /\ wire # Quiet
           /\ outcome' = "abandoned"
           /\ wire' = Quiet
           /\ clean' = FALSE
           /\ UNCHANGED <<vars, layervars, setup, caller, server, seen, used>>

Rest == outcome # "running" /\ UNCHANGED relayvars

RelayNext == \/ Driver \/ Server
             \/ wire.to = "server" /\ server = Idle /\ RewriteHeader
             \/ Stray \/ Abandon \/ Retry \/ Rest

\* A driver that is handed a message, or whose application works on one, goes on, and a
\* server that is handed one answers.
RelaySpec == RelayInit /\ [][RelayNext]_relayvars
               /\ WF_relayvars(Driver) /\ WF_relayvars(Server)
----
(***************************************************************************)
(* Properties.                                                             *)
(***************************************************************************)
\* The two contexts stay in step: what reaches the server's is what the application's
\* made, in order, nothing lost, repeated or added on the way through the coroutine,
\* whatever the driver is handed in the place of the server's answers.
TokensInStep == server.state # "broken"

\* A server that accepts has read what the application meant: the identity to act as,
\* the binding flag, whatever the wire did to the header, and for GSSAPI the layer and
\* the size that both ends will use.  And the application only takes an exchange for
\* authenticated that the server's context came through, too.
PeersAgree ==
    /\ server.state = "accepted" =>
          IF Negotiates
          THEN /\ server.identity = choice.authzid
               /\ server.layer = choice.layer /\ choice.layer \in offer.layers
               /\ \/ server.size = choice.max_message_size
                  \/ server.size = Layer!Largest /\ Layer!Largest < choice.max_message_size
          ELSE /\ server.identity = sasl.creds.authzid
               /\ server.header = Header(sasl.creds.binding, sasl.creds.authzid)
    /\ outcome = "authenticated" =>
          /\ server.state \in {"stepping", "offering", "accepted"}
          /\ clean => server.state = "accepted"

\* No exchange goes on for ever, and none gets stuck with each side waiting for the other.
EventuallyDecided == outcome = "running" ~> outcome # "running"

\* Does the server grant what the application asks for, over the channel they share?
Compatible ==
    IF Negotiates THEN Len(unwrapped) >= 4 /\ Layer!Offered # {} /\ Authzids \subseteq GrantedOctets
    ELSE LET c == sasl.creds
         IN  /\ c.authzid \in GrantedNames \cup {NoAuthzid}
             /\ IF IsBound(c.binding) THEN setup.plus /\ setup.material = c.binding.data
                ELSE c.binding = Unused => ~setup.plus

\* An application that asks for what the server grants is authenticated, on the first
\* exchange and on one that follows others, unless the wire interferes with that one too.
HonestSucceeds ==
    (last.reply = NoReply /\ Compatible) ~> (outcome = "authenticated" \/ ~clean)
====
