---- MODULE SecurityLayer ----
(***************************************************************************)
(* The security layer negotiation of GSSAPI (src/rfc4752/gssapi.rs): the   *)
(* pure functions that read the server's offer and assemble the client's   *)
(* answer, called by the application that holds the security context.  The *)
(* application and the server are not in this repository.                  *)
(*                                                                         *)
(* An octet counts to Radix (256 in the code): the size is a u32, so below *)
(* Radix^4, and travels in three octets.                                   *)
(***************************************************************************)
EXTENDS Integers, Sequences

CONSTANTS
    Radix,
    Offers,         \* the unwrapped offers a server may send: sequences of octets
    Sizes,          \* the largest message an application may be willing to receive
    Authzids        \* the octets of the authorization identities, <<>> for none

VARIABLES
    phase,          \* "offered", "read", "chosen", "answered" or "refused"
    unwrapped,      \* what the server offered
    offer,          \* SaslGssapiSecurityLayerOffer, or the error of parse
    choice,         \* SaslGssapiSecurityLayerChoice
    answer          \* its octets

vars == <<phase, unwrapped, offer, choice, answer>>

Octet == 0..Radix - 1

ASSUME RadixAssumption == Radix \in Nat /\ Radix >= 8
ASSUME OffersAssumption == Offers \subseteq Seq(Octet) /\ Authzids \subseteq Seq(Octet)
ASSUME SizesAssumption == Sizes \subseteq 0..Radix * Radix * Radix * Radix - 1

Nothing == <<>>

Layers == {"None", "Integrity", "Confidentiality"}

Bit(layer) == CASE layer = "None"            -> 1
                [] layer = "Integrity"       -> 2
                [] layer = "Confidentiality" -> 4

\* mask & bit, for a bit that is a power of two.
Carries(mask, bit) == (mask \div bit) % 2 = 1

Truncated == [error |-> "TruncatedSecurityLayerOffer"]
Unknown == [error |-> "UnknownSecurityLayerOffer"]

UncheckedParse(octets) ==                        \* mutated: an offer of no layer is read as one
    IF Len(octets) < 4 THEN Truncated
    ELSE [layers |-> {layer \in Layers : Carries(octets[1], Bit(layer))},
          max_message_size |-> (octets[2] * Radix + octets[3]) * Radix + octets[4]]

\* Octets after the fourth are ignored.
Parse(octets) ==
    LET layers == {layer \in Layers : Carries(octets[1], Bit(layer))}
    IN  IF Len(octets) < 4 THEN Truncated
        ELSE IF layers = {} THEN Unknown
        ELSE [layers |-> layers,
              max_message_size |-> (octets[2] * Radix + octets[3]) * Radix + octets[4]]

Largest == Radix * Radix * Radix - 1

WrappingToBytes(c) ==                            \* mutated: a size too large wraps around
    LET size == c.max_message_size
    IN  <<Bit(c.layer), (size \div (Radix * Radix)) % Radix, (size \div Radix) % Radix, size % Radix>>
          \o c.authzid

ToBytes(c) ==
    LET size == IF c.max_message_size > Largest THEN Largest ELSE c.max_message_size
    IN  <<Bit(c.layer), (size \div (Radix * Radix)) % Radix, (size \div Radix) % Radix, size % Radix>>
          \o c.authzid
----
Init == /\ phase = "offered"
        /\ unwrapped \in Offers
        /\ offer = Nothing
        /\ choice = Nothing
        /\ answer = Nothing

Read == /\ phase = "offered"
        /\ offer' = Parse(unwrapped)
        /\ phase' = IF offer' \in {Truncated, Unknown} THEN "refused" ELSE "read"
        /\ UNCHANGED <<unwrapped, choice, answer>>

\* The application picks a layer the offer carried, as the documentation asks it to.
Choose == /\ phase = "read"
          /\ choice' \in [layer : offer.layers, max_message_size : Sizes, authzid : Authzids]
          /\ phase' = "chosen"
          /\ UNCHANGED <<unwrapped, offer, answer>>

Answer == /\ phase = "chosen"
          /\ answer' = ToBytes(choice)
          /\ phase' = "answered"
          /\ UNCHANGED <<unwrapped, offer, choice>>

Rest == phase \in {"answered", "refused"} /\ UNCHANGED vars

Next == Read \/ Choose \/ Answer \/ Rest

Spec == Init /\ [][Next]_vars
----
\* The bits of a mask by their meaning rather than by their tests: 8 and above are
\* those no layer is defined for.
Weight(layers, layer) == IF layer \in layers THEN Bit(layer) ELSE 0

Spelt(layers, mask) ==
    \E others \in 0..Radix \div 8 :
       mask = Weight(layers, "None") + Weight(layers, "Integrity")
                + Weight(layers, "Confidentiality") + 8 * others

\* The layers the server meant by its offer.
Offered == CHOOSE layers \in SUBSET Layers : Spelt(layers, unwrapped[1])

\* An offer is refused exactly when it cannot be answered, and otherwise read as the
\* server wrote it: each layer it set the bit of, and the size its octets spell.
OfferUnderstood ==
    /\ phase = "refused" => Len(unwrapped) < 4 \/ Offered = {}
    /\ phase \notin {"offered", "refused"} =>
          /\ Len(unwrapped) >= 4
          /\ offer.layers = Offered /\ Offered # {}
          /\ offer.max_message_size \div Radix = unwrapped[2] * Radix + unwrapped[3]
          /\ offer.max_message_size % Radix = unwrapped[4]

\* A server that reads the answer in the format of its own offer finds the one layer
\* that was picked, the size that was asked for or the largest the format can say,
\* never a smaller one, and the identity behind it untouched.
AnswerUnderstood ==
    phase = "answered" =>
        LET heard == Parse(answer)
        IN  /\ heard.layers = {choice.layer} /\ heard.layers \subseteq Offered
            /\ \/ heard.max_message_size = choice.max_message_size
               \/ heard.max_message_size = Largest /\ Largest < choice.max_message_size
            /\ SubSeq(answer, 5, Len(answer)) = choice.authzid
====
