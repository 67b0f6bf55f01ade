---- MODULE SecurityLayerProofs ----
(***************************************************************************)
(* Theorems about SecurityLayer, for every Radix of at least eight, 256 in *)
(* the code among them, every offer and every answer.                      *)
(*                                                                         *)
(* The invariant says what each phase has computed; the properties follow  *)
(* from the arithmetic of the two conversions: a number is its octets, and *)
(* a mask is the bits it carries.                                          *)
(***************************************************************************)
EXTENDS SecurityLayer, SequenceTheorems, TLAPS

----
(***************************************************************************)
(* Division, by any divisor.                                               *)
(***************************************************************************)
LEMMA Division ==
    ASSUME NEW x \in Nat, NEW d \in Nat \ {0}
    PROVE  /\ x \div d \in Nat /\ x % d \in 0..d - 1
           /\ x = d * (x \div d) + (x % d)
<1>1. x \div d \in Int /\ x % d \in 0..d - 1
  OBVIOUS
<1>2. x \div d >= 0
  BY Z3
<1>3. x = d * (x \div d) + (x % d)
  BY SMT
<1> QED BY <1>1, <1>2, <1>3

LEMMA Quotient ==
    ASSUME NEW q \in Nat, NEW d \in Nat \ {0}, NEW r \in 0..d - 1
    PROVE  /\ d * q + r \in Nat
           /\ (d * q + r) \div d = q
           /\ (d * q + r) % d = r
<1>1. d * q + r \in Nat
  BY Z3
<1>2. ASSUME NEW x \in Nat, x = d * q + r PROVE x \div d = q /\ x % d = r
  <2>1. x \div d = q
    BY <1>2, Z3T(20)
  <2>2. x % d = r
    BY <1>2, Z3T(20)
  <2> QED BY <2>1, <2>2
<1> QED BY <1>1, <1>2

\* What three digits say, and where each of them is.
Spell(high, middle, low) == (high * Radix + middle) * Radix + low

LEMMA Digits ==
    ASSUME NEW size \in Nat, size <= Largest
    PROVE  LET high == (size \div (Radix * Radix)) % Radix
               middle == (size \div Radix) % Radix
               low == size % Radix
           IN  /\ high \in Octet /\ middle \in Octet /\ low \in Octet
               /\ Spell(high, middle, low) = size
<1> DEFINE q == size \div Radix
           high == q \div Radix
           middle == q % Radix
           low == size % Radix
<1>1. Radix \in Nat \ {0} /\ Radix * Radix \in Nat \ {0}
  BY RadixAssumption, Z3
<1>2. q \in Nat /\ low \in 0..Radix - 1 /\ size = Radix * q + low
  BY <1>1, Division
<1>3. high \in Nat /\ middle \in 0..Radix - 1 /\ q = Radix * high + middle
  BY <1>1, <1>2, Division
<1> HIDE DEF q, high, middle, low
<1>4. high < Radix
  <2>1. size < Radix * Radix * Radix
    BY <1>1, RadixAssumption DEF Largest
  <2>2. size >= Radix * (Radix * high)
    BY <1>1, <1>2, <1>3, Z3
  <2> QED BY <1>1, <1>3, <2>1, <2>2, Z3
<1>5. high = size \div (Radix * Radix)
  <2> DEFINE r == Radix * middle + low
  <2>1. size = (Radix * Radix) * high + r
    BY <1>1, <1>2, <1>3, Z3
  <2>2. r \in 0..(Radix * Radix) - 1
    BY <1>1, <1>2, <1>3, Z3
  <2> HIDE DEF r
  <2> QED BY <1>1, <1>3, <2>1, <2>2, Quotient
<1>6. high % Radix = high
  BY <1>1, <1>3, <1>4, Z3
<1>7. Spell(high, middle, low) = size
  BY <1>1, <1>2, <1>3, Z3 DEF Spell
<1>8. high \in Octet /\ middle \in Octet /\ low \in Octet
  BY <1>2, <1>3, <1>4, <1>1 DEF Octet
<1>9. /\ (size \div (Radix * Radix)) % Radix = high
      /\ (size \div Radix) % Radix = middle /\ size % Radix = low
  BY <1>5, <1>6 DEF q, middle, low
<1> QED BY <1>7, <1>8, <1>9, Zenon
----
(***************************************************************************)
(* Masks: the layers a mask carries are the only ones that spell it.       *)
(***************************************************************************)
LEMMA BitsOf ==
    ASSUME NEW m \in Nat
    PROVE  /\ (m \div 1) % 2 \in 0..1 /\ (m \div 2) % 2 \in 0..1 /\ (m \div 4) % 2 \in 0..1
           /\ m \div 8 \in Nat
           /\ m = ((m \div 1) % 2) + 2 * ((m \div 2) % 2) + 4 * ((m \div 4) % 2) + 8 * (m \div 8)
BY Z3

Carried(mask) == {layer \in Layers : Carries(mask, Bit(layer))}

LEMMA LayerBits ==
    /\ Bit("None") = 1 /\ Bit("Integrity") = 2 /\ Bit("Confidentiality") = 4
    /\ "None" \in Layers /\ "Integrity" \in Layers /\ "Confidentiality" \in Layers
BY DEF Bit, Layers

LEMMA CarriedBits ==
    ASSUME NEW mask
    PROVE  /\ "None" \in Carried(mask) <=> (mask \div 1) % 2 = 1
           /\ "Integrity" \in Carried(mask) <=> (mask \div 2) % 2 = 1
           /\ "Confidentiality" \in Carried(mask) <=> (mask \div 4) % 2 = 1
BY LayerBits DEF Carried, Carries

LEMMA SpeltByItsBits ==
    ASSUME NEW mask \in Octet
    PROVE  Spelt(Carried(mask), mask)
<1>1. mask \in Nat /\ mask < Radix /\ Radix \in Nat
  BY RadixAssumption DEF Octet
<1>2. /\ Weight(Carried(mask), "None") = (mask \div 1) % 2
      /\ Weight(Carried(mask), "Integrity") = 2 * ((mask \div 2) % 2)
      /\ Weight(Carried(mask), "Confidentiality") = 4 * ((mask \div 4) % 2)
  BY <1>1, CarriedBits, LayerBits, BitsOf DEF Weight
<1>3. mask \div 8 \in 0..Radix \div 8
  BY <1>1, Z3
<1>4. mask = ((mask \div 1) % 2) + 2 * ((mask \div 2) % 2) + 4 * ((mask \div 4) % 2)
               + 8 * (mask \div 8)
  BY <1>1, BitsOf
<1> QED BY <1>2, <1>3, <1>4 DEF Spelt

LEMMA SpeltOnce ==
    ASSUME NEW mask, NEW layers \in SUBSET Layers, Spelt(layers, mask)
    PROVE  layers = Carried(mask)
<1> DEFINE bit(layer) == IF layer \in layers THEN 1 ELSE 0
<1>1. PICK others \in 0..Radix \div 8 :
            mask = Weight(layers, "None") + Weight(layers, "Integrity")
                     + Weight(layers, "Confidentiality") + 8 * others
  BY DEF Spelt
<1>2. /\ Weight(layers, "None") = bit("None")
      /\ Weight(layers, "Integrity") = 2 * bit("Integrity")
      /\ Weight(layers, "Confidentiality") = 4 * bit("Confidentiality")
  BY LayerBits DEF Weight
<1>3. /\ bit("None") \in 0..1 /\ bit("Integrity") \in 0..1 /\ bit("Confidentiality") \in 0..1
      /\ others \in Nat
  BY RadixAssumption
<1>4. mask = bit("None") + 2 * bit("Integrity") + 4 * bit("Confidentiality") + 8 * others
  BY <1>1, <1>2
<1>5. /\ (mask \div 1) % 2 = bit("None")
      /\ (mask \div 2) % 2 = bit("Integrity")
      /\ (mask \div 4) % 2 = bit("Confidentiality")
  <2>1. ASSUME NEW a \in 0..1, NEW b \in 0..1, NEW c \in 0..1, mask = a + 2 * b + 4 * c + 8 * others
        PROVE  (mask \div 1) % 2 = a /\ (mask \div 2) % 2 = b /\ (mask \div 4) % 2 = c
    BY <1>3, <2>1, Z3
  <2> HIDE DEF bit
  <2> QED BY <1>3, <1>4, <2>1
<1>6. /\ "None" \in layers <=> "None" \in Carried(mask)
      /\ "Integrity" \in layers <=> "Integrity" \in Carried(mask)
      /\ "Confidentiality" \in layers <=> "Confidentiality" \in Carried(mask)
  BY <1>5, CarriedBits
<1>7. Carried(mask) \subseteq Layers
  BY DEF Carried
<1>8. ASSUME NEW layer \in Layers PROVE layer \in layers <=> layer \in Carried(mask)
  <2>1. layer = "None" \/ layer = "Integrity" \/ layer = "Confidentiality"
    BY DEF Layers
  <2> QED BY <1>6, <2>1, Zenon
<1> QED BY <1>7, <1>8, Zenon

\* The layers the server meant are those whose bits its mask carries.
LEMMA OfferedIsCarried ==
    ASSUME unwrapped[1] \in Octet
    PROVE  Offered = Carried(unwrapped[1])
<1>1. Carried(unwrapped[1]) \in SUBSET Layers
  BY DEF Carried
<1>2. Offered \in SUBSET Layers /\ Spelt(Offered, unwrapped[1])
  <2>1. \E layers \in SUBSET Layers : Spelt(layers, unwrapped[1])
    BY <1>1, SpeltByItsBits
  <2> QED BY <2>1, Zenon DEF Offered
<1> QED BY <1>2, SpeltOnce
----
(***************************************************************************)
(* The two conversions: what is read of an offer that is neither too short *)
(* nor of no layer, and what is read of an answer.                         *)
(***************************************************************************)
Wellread(octets) == [layers |-> Carried(octets[1]),
                     max_message_size |-> Spell(octets[2], octets[3], octets[4])]

Errors == {Truncated, Unknown}

Readable(octets) == Len(octets) >= 4 /\ Carried(octets[1]) # {}

LEMMA Reading ==
    ASSUME NEW octets \in Seq(Octet)
    PROVE  /\ Readable(octets) => Parse(octets) = Wellread(octets)
           /\ ~Readable(octets) => Parse(octets) \in Errors
<1>1. Carried(octets[1]) = {layer \in Layers : Carries(octets[1], Bit(layer))}
  BY DEF Carried
<1>2. Len(octets) \in Nat
  BY LenProperties
<1> QED BY <1>1, <1>2 DEF Parse, Readable, Wellread, Spell, Errors

LEMMA ReadOrRefused ==
    ASSUME NEW octets
    PROVE  Wellread(octets) \notin Errors
<1>1. DOMAIN Wellread(octets) = {"layers", "max_message_size"}
  BY DEF Wellread
<1>2. DOMAIN Truncated = {"error"} /\ DOMAIN Unknown = {"error"}
  BY DEF Truncated, Unknown
<1> QED BY <1>1, <1>2 DEF Errors

\* The size an answer states: the one asked for, or the largest there is room for.
Capped(size) == IF size > Largest THEN Largest ELSE size

Head4(c) == LET size == Capped(c.max_message_size)
            IN  <<Bit(c.layer), (size \div (Radix * Radix)) % Radix, (size \div Radix) % Radix,
                  size % Radix>>

LEMMA Capping ==
    ASSUME NEW size \in Sizes
    PROVE  /\ Capped(size) \in Nat /\ Capped(size) <= Largest
           /\ Capped(size) = size \/ (Capped(size) = Largest /\ Largest < size)
<1>1. Radix \in Nat /\ Radix * Radix * Radix \in Nat /\ Largest \in Nat
  <2>1. Radix \in Nat /\ Radix >= 8
    BY RadixAssumption
  <2>2. Radix * Radix * Radix \in Nat /\ Radix * Radix * Radix >= 1
    BY <2>1, Z3
  <2> QED BY <2>1, <2>2 DEF Largest
<1>2. size \in Nat
  <2>1. Radix * Radix * Radix * Radix - 1 \in Int
    BY <1>1, Z3
  <2> QED BY <2>1, SizesAssumption
<1>3. Largest \in Nat
  BY <1>1
<1> QED BY <1>2, <1>3 DEF Capped

LEMMA Writing ==
    ASSUME NEW c, c.layer \in Layers, c.max_message_size \in Sizes, c.authzid \in Authzids
    PROVE  /\ ToBytes(c) = Head4(c) \o c.authzid
           /\ Head4(c) \in Seq(Octet) /\ Len(Head4(c)) = 4
           /\ Head4(c)[1] = Bit(c.layer)
           /\ Spell(Head4(c)[2], Head4(c)[3], Head4(c)[4]) = Capped(c.max_message_size)
<1> DEFINE size == Capped(c.max_message_size)
           high == (size \div (Radix * Radix)) % Radix
           middle == (size \div Radix) % Radix
           low == size % Radix
<1>1. size \in Nat /\ size <= Largest
  BY Capping
<1>2. /\ high \in Octet /\ middle \in Octet /\ low \in Octet
      /\ Spell(high, middle, low) = size
  <2> HIDE DEF size
  <2> QED BY <1>1, Digits
<1>3. Bit(c.layer) \in Octet
  <2>1. c.layer = "None" \/ c.layer = "Integrity" \/ c.layer = "Confidentiality"
    BY DEF Layers
  <2> QED BY <2>1, LayerBits, RadixAssumption DEF Octet
<1>4. Head4(c) = <<Bit(c.layer), high, middle, low>>
  BY DEF Head4
<1>5. ToBytes(c) = Head4(c) \o c.authzid
  BY DEF ToBytes, Head4, Capped
<1> HIDE DEF high, middle, low
<1> QED BY <1>2, <1>3, <1>4, <1>5

LEMMA Behind ==
    ASSUME NEW head \in Seq(Octet), Len(head) = 4, NEW rest \in Seq(Octet)
    PROVE  /\ head \o rest \in Seq(Octet) /\ Len(head \o rest) >= 4
           /\ \A i \in 1..4 : (head \o rest)[i] = head[i]
           /\ SubSeq(head \o rest, 5, Len(head \o rest)) = rest
<1> DEFINE octets == head \o rest
           behind == SubSeq(octets, 5, Len(octets))
<1>1. /\ octets \in Seq(Octet) /\ Len(octets) = 4 + Len(rest) /\ Len(rest) \in Nat
      /\ \A i \in 1..Len(octets) :
            octets[i] = IF i <= 4 THEN head[i] ELSE rest[i - 4]
  <2>1. /\ octets \in Seq(Octet) /\ Len(octets) = Len(head) + Len(rest)
        /\ \A i \in 1..Len(head) + Len(rest) :
              octets[i] = IF i <= Len(head) THEN head[i] ELSE rest[i - Len(head)]
    BY ConcatProperties, Zenon
  <2>2. Len(rest) \in Nat
    BY LenProperties
  <2> HIDE DEF octets
  <2> QED BY <2>1, <2>2
<1> HIDE DEF octets
<1>2. behind \in Seq(Octet) /\ Len(behind) = Len(rest)
  BY <1>1, SubSeqProperties
<1>3. ASSUME NEW i \in 1..Len(rest) PROVE behind[i] = rest[i]
  <2>1. behind[i] = octets[5 + i - 1]
    BY <1>1, <1>2, SubSeqProperties
  <2>2. 5 + i - 1 \in 1..Len(octets) /\ 5 + i - 1 = 4 + i /\ ~(4 + i <= 4) /\ (4 + i) - 4 = i
    BY <1>1
  <2> QED BY <1>1, <2>1, <2>2
<1>4. behind = rest
  <2> HIDE DEF behind
  <2> QED BY <1>2, <1>3, SeqEqual
<1>5. \A i \in 1..4 : octets[i] = head[i]
  BY <1>1
<1> QED BY <1>1, <1>4, <1>5 DEF octets

\* A reader of the answer hears the layer, the size and the identity.
LEMMA Heard ==
    ASSUME NEW c, c.layer \in Layers, c.max_message_size \in Sizes, c.authzid \in Authzids
    PROVE  /\ ToBytes(c) \in Seq(Octet)
           /\ Parse(ToBytes(c)) = [layers |-> {c.layer},
                                   max_message_size |-> Capped(c.max_message_size)]
           /\ SubSeq(ToBytes(c), 5, Len(ToBytes(c))) = c.authzid
<1> DEFINE head == Head4(c)
           octets == ToBytes(c)
<1>1. /\ octets = head \o c.authzid
      /\ head \in Seq(Octet) /\ Len(head) = 4
      /\ head[1] = Bit(c.layer)
      /\ Spell(head[2], head[3], head[4]) = Capped(c.max_message_size)
  BY Writing
<1>2. c.authzid \in Seq(Octet)
  BY OffersAssumption
<1> HIDE DEF head, octets
<1>3. /\ octets \in Seq(Octet) /\ Len(octets) >= 4
      /\ \A i \in 1..4 : octets[i] = head[i]
      /\ SubSeq(octets, 5, Len(octets)) = c.authzid
  BY <1>1, <1>2, Behind, Zenon
<1>4. /\ octets[1] = head[1] /\ octets[2] = head[2]
      /\ octets[3] = head[3] /\ octets[4] = head[4]
  BY <1>3
<1>5. Carried(octets[1]) = {c.layer}
  <2>1. c.layer = "None" \/ c.layer = "Integrity" \/ c.layer = "Confidentiality"
    BY DEF Layers
  <2>2. octets[1] = Bit(c.layer)
    BY <1>1, <1>4
  <2>3. ASSUME NEW layer \in Layers PROVE layer \in Carried(Bit(c.layer)) <=> layer = c.layer
    <3>1. layer = "None" \/ layer = "Integrity" \/ layer = "Confidentiality"
      BY DEF Layers
    <3> QED BY <2>1, <3>1, CarriedBits, LayerBits
  <2>4. Carried(Bit(c.layer)) \subseteq Layers
    BY DEF Carried
  <2> QED BY <2>2, <2>3, <2>4, Zenon
<1>6. Readable(octets)
  BY <1>3, <1>5 DEF Readable
<1>7. Parse(octets) = [layers |-> {c.layer}, max_message_size |-> Capped(c.max_message_size)]
  BY <1>1, <1>3, <1>4, <1>5, <1>6, Reading DEF Wellread
<1> QED BY <1>3, <1>7 DEF octets
----
(***************************************************************************)
(* The invariant: what each phase has computed from what it holds.         *)
(***************************************************************************)
Picks == [layer : Carried(unwrapped[1]), max_message_size : Sizes, authzid : Authzids]

PhaseOK == phase \in {"offered", "read", "chosen", "answered", "refused"}

OfferRead == /\ unwrapped \in Offers
             /\ phase = "refused" => ~Readable(unwrapped)
             /\ phase \in {"read", "chosen", "answered"} =>
                   Readable(unwrapped) /\ offer = Wellread(unwrapped)

ChoiceMade == IF phase \in {"chosen", "answered"} THEN choice \in Picks ELSE choice = Nothing

AnswerGiven == answer = IF phase = "answered" THEN ToBytes(choice) ELSE Nothing

IInv == PhaseOK /\ OfferRead /\ ChoiceMade /\ AnswerGiven

\* The program starts with nothing read, chosen or answered.
LEMMA Initially == Init => IInv
BY DEF Init, IInv, PhaseOK, OfferRead, ChoiceMade, AnswerGiven

LEMMA Stepwise == IInv /\ [Next]_vars => IInv'
<1> SUFFICES ASSUME IInv, [Next]_vars PROVE IInv'
  OBVIOUS
<1> USE DEF IInv, PhaseOK, OfferRead, ChoiceMade, AnswerGiven
<1>1. CASE Read
  <2>1. unwrapped \in Seq(Octet)
    BY OffersAssumption
  <2>2. (phase = "offered" /\ unwrapped' = unwrapped /\ choice' = choice /\ answer' = answer)
        /\ offer' = Parse(unwrapped)
        /\ phase' = IF offer' \in Errors THEN "refused" ELSE "read"
    BY <1>1 DEF Read, Errors
  <2>3. CASE Readable(unwrapped)
    <3>1. phase' = "read" /\ offer' = Wellread(unwrapped)
      BY <2>1, <2>2, <2>3, Reading, ReadOrRefused
    <3> QED BY <2>2, <2>3, <3>1 DEF Wellread, Readable, Carried
  <2>4. CASE ~Readable(unwrapped)
    <3>1. phase' = "refused"
      BY <2>1, <2>2, <2>4, Reading
    <3> QED BY <2>2, <2>4, <3>1 DEF Readable, Carried
  <2> QED BY <2>3, <2>4
<1>2. CASE Choose
  <2>1. phase = "read" /\ phase' = "chosen" /\ unwrapped' = unwrapped /\ offer' = offer
        /\ answer' = answer
        /\ choice' \in [layer : offer.layers, max_message_size : Sizes, authzid : Authzids]
    BY <1>2 DEF Choose
  <2>2. offer = Wellread(unwrapped) /\ Readable(unwrapped)
    BY <2>1
  <2>3. offer.layers = Carried(unwrapped[1])
    BY <2>2 DEF Wellread
  <2>4. choice' \in Picks'
    BY <2>1, <2>3 DEF Picks, Carried
  <2>5. Readable(unwrapped)' /\ (offer = Wellread(unwrapped))'
    BY <2>1, <2>2 DEF Readable, Wellread, Carried
  <2> QED BY <2>1, <2>4, <2>5
<1>3. CASE Answer
  <2>1. phase = "chosen" /\ phase' = "answered" /\ unwrapped' = unwrapped /\ offer' = offer
        /\ choice' = choice /\ answer' = ToBytes(choice)
    BY <1>3 DEF Answer
  <2>2. choice' \in Picks'
    BY <2>1 DEF Picks, Carried
  <2>3. Readable(unwrapped)' /\ (offer = Wellread(unwrapped))'
    BY <2>1 DEF Readable, Wellread, Carried
  <2> QED BY <2>1, <2>2, <2>3
<1>4. CASE UNCHANGED vars
  <2>1. phase' = phase /\ unwrapped' = unwrapped /\ offer' = offer /\ choice' = choice
        /\ answer' = answer
    BY <1>4 DEF vars
  <2> QED BY <2>1 DEF Picks, Readable, Wellread, Carried
<1> QED BY <1>1, <1>2, <1>3, <1>4 DEF Next, Rest

\* What each phase has computed holds in every behaviour of the negotiation.
THEOREM Invariance == Spec => []IInv
<1> QED BY Initially, Stepwise, PTL DEF Spec
----
(***************************************************************************)
(* The properties.                                                         *)
(***************************************************************************)
LEMMA Picked ==
    ASSUME IInv, phase \in {"chosen", "answered"}
    PROVE  /\ choice.layer \in Layers /\ choice.layer \in Carried(unwrapped[1])
           /\ choice.max_message_size \in Sizes
           /\ choice.authzid \in Authzids
BY DEF IInv, ChoiceMade, Picks, Carried

\* parse refuses only what cannot be answered and reads every other offer as the server
\* wrote it: the layers are those of the only mask that spells it, and division gives
\* back the octets of the size.
THEOREM OfferRight == Spec => []OfferUnderstood
<1>1. IInv => OfferUnderstood
  <2> SUFFICES ASSUME IInv PROVE OfferUnderstood
    OBVIOUS
  <2>1. unwrapped \in Seq(Octet) /\ Len(unwrapped) \in Nat
    BY OffersAssumption, LenProperties DEF IInv, OfferRead
  <2>2. Len(unwrapped) >= 4 => Offered = Carried(unwrapped[1])
    BY <2>1, OfferedIsCarried
  <2>3. CASE phase = "refused"
    BY <2>1, <2>2, <2>3 DEF IInv, OfferRead, Readable, OfferUnderstood
  <2>4. CASE phase \in {"read", "chosen", "answered"}
    <3> DEFINE top == unwrapped[2] * Radix + unwrapped[3]
               low == unwrapped[4]
    <3>1. /\ Len(unwrapped) >= 4 /\ Carried(unwrapped[1]) # {}
          /\ offer.layers = Carried(unwrapped[1])
          /\ offer.max_message_size = Spell(unwrapped[2], unwrapped[3], unwrapped[4])
      BY <2>4 DEF IInv, OfferRead, Readable, Wellread
    <3>2. top \in Nat /\ low \in 0..Radix - 1 /\ Radix \in Nat \ {0}
      <4>1. Radix \in Nat \ {0}
        BY RadixAssumption
      <4>2. unwrapped[2] \in Nat /\ unwrapped[3] \in Nat /\ low \in Octet
        BY <2>1, <3>1, <4>1, SMTT(20) DEF Octet
      <4>3. ASSUME NEW a \in Nat, NEW b \in Nat PROVE a * Radix + b \in Nat
        BY <4>1, <4>3, Z3
      <4> QED BY <4>1, <4>2, <4>3 DEF Octet
    <3>3. offer.max_message_size = Radix * top + low
      <4>1. ASSUME NEW q \in Nat, NEW r \in Nat PROVE q * Radix + r = Radix * q + r
        BY <3>2, <4>1, Z3
      <4>2. offer.max_message_size = top * Radix + low
        BY <3>1 DEF Spell
      <4> HIDE DEF top, low
      <4> QED BY <3>2, <4>1, <4>2
    <3>4. offer.max_message_size \div Radix = top /\ offer.max_message_size % Radix = low
      <4> HIDE DEF top, low
      <4> QED BY <3>2, <3>3, Quotient
    <3> QED BY <2>2, <2>4, <3>1, <3>4 DEF OfferUnderstood
  <2>5. CASE phase = "offered"
    BY <2>5 DEF OfferUnderstood
  <2> QED BY <2>3, <2>4, <2>5 DEF IInv, PhaseOK
<1> QED BY <1>1, Invariance, PTL

\* The answer to_bytes assembles says the layer picked, one the server offered, a size
\* that is the one asked for or the largest that fits, and the identity untouched.
THEOREM AnswerRight == Spec => []AnswerUnderstood
<1>1. IInv => AnswerUnderstood
  <2> SUFFICES ASSUME IInv, phase = "answered" PROVE AnswerUnderstood
    BY DEF AnswerUnderstood
  <2>1. /\ choice.layer \in Layers /\ choice.layer \in Carried(unwrapped[1])
        /\ choice.max_message_size \in Sizes
        /\ choice.authzid \in Authzids
    BY Picked
  <2>2. answer = ToBytes(choice)
    BY DEF IInv, AnswerGiven
  <2> DEFINE heard == Parse(answer)
  <2>3. /\ heard.layers = {choice.layer}
        /\ heard.max_message_size = Capped(choice.max_message_size)
        /\ SubSeq(answer, 5, Len(answer)) = choice.authzid
    BY <2>1, <2>2, Heard
  <2>4. choice.layer \in Offered
    <3>1. unwrapped \in Seq(Octet) /\ Len(unwrapped) \in Nat /\ Len(unwrapped) >= 4
      BY OffersAssumption, LenProperties DEF IInv, OfferRead, Readable
    <3> QED BY <2>1, <3>1, OfferedIsCarried
  <2> HIDE DEF heard
  <2>5. heard.max_message_size = choice.max_message_size
        \/ (heard.max_message_size = Largest /\ Largest < choice.max_message_size)
    BY <2>1, <2>3, Capping
  <2>6. /\ heard.layers = {choice.layer} /\ heard.layers \subseteq Offered
        /\ SubSeq(answer, 5, Len(answer)) = choice.authzid
    BY <2>3, <2>4
  <2> QED BY <2>5, <2>6 DEF heard, AnswerUnderstood
<1> QED BY <1>1, Invariance, PTL
====
