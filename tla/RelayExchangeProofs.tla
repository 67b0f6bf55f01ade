---- MODULE RelayExchangeProofs ----
(***************************************************************************)
(* Theorems about RelayExchange, for every set of Sasl values, contexts of *)
(* any number of tokens the numerals name, every offer, and any number of  *)
(* exchanges.                                                              *)
(*                                                                         *)
(* The invariant says where the two contexts stand to each other: which of *)
(* the tokens the server's has taken when the application's has taken so   *)
(* many, and what a message on its way to the server is.  A message back   *)
(* to the driver may be any that was ever sent, so it also says which of   *)
(* those the current context could have made by now.                       *)
(***************************************************************************)
EXTENDS RelayExchange, Gs2Proofs

LayerP == INSTANCE SecurityLayerProofs

----
(***************************************************************************)
(* Sequences.                                                              *)
(***************************************************************************)
LEMMA TextTokens == Text \subseteq Seq(Tokens)
<1>1. STRING \subseteq Tokens
  BY DEF Tokens
<1> HIDE DEF Tokens
<1> QED BY <1>1, SeqMonotonic DEF Text

\* What was put together can be cut apart.
LEMMA Cutting ==
    ASSUME NEW S, NEW f \in Seq(S), NEW g \in Seq(S)
    PROVE  /\ SubSeq(f \o g, 1, Len(f)) = f
           /\ SubSeq(f \o g, Len(f) + 1, Len(f \o g)) = g
<1> DEFINE whole == f \o g
           m == Len(f)
           n == Len(g)
<1>1. m \in Nat /\ n \in Nat
  BY LenProperties
<1>2. /\ whole \in Seq(S) /\ Len(whole) = m + n
      /\ \A i \in 1..m + n : whole[i] = IF i <= m THEN f[i] ELSE g[i - m]
  BY ConcatProperties
<1> HIDE DEF whole, m, n
<1>3. SubSeq(whole, 1, m) = f
  <2> DEFINE front == SubSeq(whole, 1, m)
  <2>1. /\ front \in Seq(S) /\ Len(front) = m - 1 + 1
        /\ \A i \in 1..m - 1 + 1 : front[i] = whole[1 + i - 1]
    <3>1. 1 \in 1..Len(whole) + 1 /\ m \in 1 - 1..Len(whole)
      BY <1>1, <1>2
    <3> QED BY <1>2, <3>1, SubSeqProperties
  <2> HIDE DEF front
  <2>2. Len(front) = m /\ \A i \in 1..m : front[i] = f[i]
    <3>1. ASSUME NEW i \in 1..m PROVE front[i] = f[i]
      <4>1. i \in 1..m - 1 + 1 /\ 1 + i - 1 = i /\ i \in 1..m + n /\ i <= m
        BY <1>1
      <4> QED BY <1>2, <2>1, <4>1
    <3> QED BY <1>1, <2>1, <3>1
  <2>3. front = f
    BY <2>1, <2>2, SeqEqual DEF m
  <2> QED BY <2>3 DEF front
<1>4. EndsIn(whole, m, g)
  <2>1. ASSUME NEW i \in 1..n PROVE whole[m + i] = g[i]
    <3>1. m + i \in 1..m + n /\ ~(m + i <= m) /\ (m + i) - m = i
      BY <1>1
    <3> QED BY <1>2, <3>1
  <2> QED BY <1>2, <2>1 DEF EndsIn, n
<1>5. SubSeq(whole, m + 1, Len(whole)) = g
  <2>1. 1 \in 1..n + 1 /\ n \in 1 - 1..n /\ 1 + m = m + 1 /\ n + m = Len(whole)
    BY <1>1, <1>2
  <2>2. SubSeq(whole, 1 + m, n + m) = SubSeq(g, 1, n)
    <3>1. 1 \in 1..Len(g) + 1 /\ n \in 1 - 1..Len(g)
      BY <2>1 DEF n
    <3>2. whole \in Seq(S) /\ m \in Nat
      BY <1>1, <1>2
    <3> QED BY <1>4, <3>1, <3>2, SubSeqBehind
  <2>3. SubSeq(g, 1, n) = g
    BY SubSeqFull DEF n
  <2> QED BY <2>1, <2>2, <2>3
<1> QED BY <1>3, <1>5 DEF whole, m

\* Where the header ends.
LEMMA HeaderCut ==
    ASSUME NEW b \in Bindings, NEW a \in Identities, NEW rest \in Seq(Tokens)
    PROVE  LET bytes == Headed(b, a, rest)
           IN  /\ SubSeq(bytes, 1, HeaderLength(bytes)) = Header(b, a)
               /\ SubSeq(bytes, HeaderLength(bytes) + 1, Len(bytes)) = rest
<1> DEFINE bytes == Headed(b, a, rest)
           f == Flag(b)
           id == Identity(a)
           h == Header(b, a)
           none == <<>>
           comma == <<",">>
<1>1. none \in Seq(Tokens) /\ comma \in Seq(Tokens) /\ Len(comma) = 1 /\ Len(none) = 0
  <2>1. "," \in Tokens
    BY DEF Tokens
  <2> HIDE DEF Tokens
  <2> QED BY <2>1, Single, EmptySeq
<1>2. f \in Seq(Tokens) /\ id \in Seq(Tokens) /\ h \in Seq(Tokens)
  BY FlagShape, RemainderForm, HeaderForm, <1>1
<1> HIDE DEF f, id, h, none, Tokens
<1>3. HeaderLength(bytes) = Len(f) + Len(id) + 2
  BY SplitHeader, Zenon DEF HeaderLength, f, id
<1>4. h \o none = f \o (comma \o (id \o (comma \o none)))
  <2>1. h \o none = f \o Behind(Remainder(a, none))
    BY <1>1, HeaderForm DEF h, f
  <2>2. Remainder(a, none) = id \o Behind(none)
    BY <1>1, RemainderForm DEF id
  <2> QED BY <2>1, <2>2, Zenon DEF Behind
<1> HIDE DEF comma
<1>5. Len(h) = Len(f) + Len(id) + 2
  <2> DEFINE t == comma \o none
             u == id \o t
             v == comma \o u
  <2>1. t \in Seq(Tokens) /\ Len(t) = 1
    BY <1>1, ConcatProperties
  <2> HIDE DEF t
  <2>2. u \in Seq(Tokens) /\ Len(u) = Len(id) + 1
    BY <1>2, <2>1, ConcatProperties, SMTT(30)
  <2> HIDE DEF u
  <2>3. v \in Seq(Tokens) /\ Len(v) = 1 + (Len(id) + 1)
    BY <1>1, <2>2, ConcatProperties, SMTT(30)
  <2> HIDE DEF v
  <2>4. h \o none = f \o v
    BY <1>4, Zenon DEF v, u, t
  <2>5. Len(f \o v) = Len(f) + Len(v) /\ Len(h \o none) = Len(h) + Len(none)
    BY <1>1, <1>2, <2>3, ConcatProperties, Zenon
  <2>6. Len(h) \in Nat /\ Len(f) \in Nat /\ Len(id) \in Nat
    BY <1>2, LenProperties
  <2> QED BY <1>1, <2>3, <2>4, <2>5, <2>6
<1>6. bytes = h \o rest
  BY DEF Headed, h
<1>7. HeaderLength(bytes) = Len(h)
  BY <1>3, <1>5
<1> HIDE DEF bytes
<1>8. SubSeq(h \o rest, 1, Len(h)) = h /\ SubSeq(h \o rest, Len(h) + 1, Len(h \o rest)) = rest
  BY <1>2, Cutting, Zenon
<1> QED BY <1>6, <1>7, <1>8, Zenon DEF bytes, h
----
(***************************************************************************)
(* The Sasl values, and what identifies a context.                         *)
(***************************************************************************)
LEMMA SaslShape ==
    ASSUME NEW s \in Sasls
    PROVE  /\ s = From(s.variant, s.creds)
           /\ s.creds.token \in Text
           /\ \/ s.variant = "Gssapi" /\ s.creds = [token |-> s.creds.token]
              \/ /\ s.variant = "Gs2Krb5"
                 /\ s.creds = [token |-> s.creds.token, authzid |-> s.creds.authzid,
                               binding |-> s.creds.binding]
                 /\ s.creds.authzid \in Identities /\ s.creds.binding \in Bindings
<1>1. GssapiM!Text = Text /\ Gs2Krb5M!Text = Text
  BY DEF GssapiM!Text, Gs2Krb5M!Text, Text
<1>2. Gs2Krb5M!Bindings = Bindings
  BY DEF Gs2Krb5M!Unsupported, Unsupported, Gs2Krb5M!Unused, Unused, Gs2Krb5M!Bound, Bound,
         Gs2Krb5M!Bindings, Bindings
<1>3. /\ s = From(s.variant, s.creds)
      /\ s.variant \in {"Gssapi", "Gs2Krb5"} /\ s.creds \in CredsOf[s.variant]
  BY RelayAssumption, SaslsAssumption DEF Relays
<1>4. CASE s.variant = "Gssapi"
  <2>1. s.creds \in [token : Text]
    BY <1>1, <1>3, <1>4 DEF CredsOf, GssapiM!GssapiCreds
  <2> QED BY <1>3, <1>4, <2>1
<1>5. CASE s.variant = "Gs2Krb5"
  <2>1. s.creds \in [token : Text, authzid : Text \cup {NoAuthzid}, binding : Bindings]
    BY <1>1, <1>2, <1>3, <1>5 DEF CredsOf, Gs2Krb5M!Gs2Krb5Creds
  <2>2. Text \cup {NoAuthzid} \subseteq Identities
    BY TextTokens DEF Identities
  <2> HIDE DEF Identities
  <2> QED BY <1>3, <1>5, <2>1, <2>2
<1> QED BY <1>3, <1>4, <1>5

LEMMA NegotiatesGssapi == sasl \in Sasls => (Negotiates <=> sasl.variant = "Gssapi")
<1> SUFFICES ASSUME sasl \in Sasls PROVE Negotiates <=> sasl.variant = "Gssapi"
  OBVIOUS
<1>1. CASE sasl.variant = "Gssapi"
  BY <1>1 DEF Negotiates, Name, mechanism, as_str, PlusTag, Spelled
<1>2. CASE sasl.variant = "Gs2Krb5"
  BY <1>2 DEF Negotiates, Name, mechanism, as_str, PlusTag, Spelled
<1> QED BY <1>1, <1>2, SaslShape

\* Whatever a token or an octet string is made of.
Signs == Tokens \cup {"s", "c", "1", "2", "3", "wrapped"} \cup Nat

LEMMA SignsHold ==
    /\ STRING \subseteq Signs /\ Nat \subseteq Signs
    /\ "s" \in Signs /\ "c" \in Signs /\ "wrapped" \in Signs
    /\ "1" \in Signs /\ "2" \in Signs /\ "3" \in Signs
BY DEF Signs, Tokens

LEMMA Numerals ==
    /\ DOMAIN Numeral = 1..3
    /\ \A l \in DOMAIN Numeral : Numeral[l] \in Signs /\ Numeral[l] # "wrapped"
    /\ \A k, l \in DOMAIN Numeral : Numeral[k] = Numeral[l] => k = l
<1>1. DOMAIN Numeral = 1..3 /\ Numeral[1] = "1" /\ Numeral[2] = "2" /\ Numeral[3] = "3"
  BY DEF Numeral
<1>2. \A l \in DOMAIN Numeral : l = 1 \/ l = 2 \/ l = 3
  BY <1>1
<1>3. ASSUME NEW l \in DOMAIN Numeral PROVE Numeral[l] \in Signs /\ Numeral[l] # "wrapped"
  <2>1. "1" # "wrapped" /\ "2" # "wrapped" /\ "3" # "wrapped"
    OBVIOUS
  <2> QED BY <1>1, <1>2, <2>1, SignsHold, Zenon
<1>4. ASSUME NEW k \in DOMAIN Numeral, NEW l \in DOMAIN Numeral, Numeral[k] = Numeral[l]
      PROVE  k = l
  <2>1. "1" # "2" /\ "1" # "3" /\ "2" # "3"
    OBVIOUS
  <2>2. k = 1 \/ k = 2 \/ k = 3
    BY <1>2
  <2>3. l = 1 \/ l = 2 \/ l = 3
    BY <1>2
  <2>4. CASE k = 1
    BY <1>1, <1>4, <2>1, <2>3, <2>4, Zenon
  <2>5. CASE k = 2
    BY <1>1, <1>4, <2>1, <2>3, <2>5, Zenon
  <2>6. CASE k = 3
    BY <1>1, <1>4, <2>1, <2>3, <2>6, Zenon
  <2> QED BY <2>2, <2>4, <2>5, <2>6, Zenon
<1> QED BY <1>1, <1>3, <1>4

LEMMA Pair ==
    ASSUME NEW S, NEW x \in S, NEW y \in S
    PROVE  <<x, y>> \in Seq(S) /\ Len(<<x, y>>) = 2 /\ <<x, y>>[1] = x /\ <<x, y>>[2] = y
OBVIOUS

LEMMA Triple ==
    ASSUME NEW S, NEW x \in S, NEW y \in S, NEW z \in S
    PROVE  /\ <<x, y, z>> \in Seq(S) /\ Len(<<x, y, z>>) = 3
           /\ <<x, y, z>>[1] = x /\ <<x, y, z>>[2] = y /\ <<x, y, z>>[3] = z
OBVIOUS

\* A token says whose it is, which one, and of which context.
LEMMA TokenShape ==
    ASSUME NEW side \in Signs, NEW l \in DOMAIN Numeral, NEW context \in Seq(Signs)
    PROVE  /\ Token(side, l, context)[1] = side
           /\ Token(side, l, context)[2] = Numeral[l]
           /\ SubSeq(Token(side, l, context), 3, Len(Token(side, l, context))) = context
<1> DEFINE n == Numeral[l]
           f == <<side, n>>
           t == f \o context
<1>1. n \in Signs
  BY Numerals
<1> HIDE DEF n, Signs
<1>2. f \in Seq(Signs) /\ Len(f) = 2 /\ f[1] = side /\ f[2] = n
  BY <1>1, Pair, Zenon
<1> HIDE DEF f
<1>3. t[1] = f[1] /\ t[2] = f[2]
  <2>1. 1 \in 1..Len(f) /\ 2 \in 1..Len(f)
    BY <1>2
  <2>2. ASSUME NEW i \in 1..Len(f) PROVE t[i] = f[i]
    BY <1>2, ConcatFront
  <2> QED BY <2>1, <2>2
<1>4. SubSeq(t, Len(f) + 1, Len(t)) = context
  BY <1>2, Cutting
<1>5. Len(f) + 1 = 3
  BY <1>2
<1>6. Token(side, l, context) = t
  BY DEF Token, t, f, n
<1> HIDE DEF t
<1> QED BY <1>2, <1>3, <1>4, <1>5, <1>6 DEF n

\* So does what a context wraps.
LEMMA WrapShape ==
    ASSUME NEW side \in Signs, NEW context, context[1] \in Signs, NEW octets \in Seq(Signs)
    PROVE  /\ Wrap(side, context, octets)[2] = "wrapped"
           /\ Wrap(side, context, octets)[3] = context[1]
           /\ SubSeq(Wrap(side, context, octets), 1, 3) = Wrap(side, context, <<>>)
           /\ SubSeq(Wrap(side, context, octets), 4, Len(Wrap(side, context, octets))) = octets
<1> DEFINE id == context[1]
           f == <<side, "wrapped", id>>
           t == f \o octets
<1>1. f \in Seq(Signs) /\ Len(f) = 3 /\ f[2] = "wrapped" /\ f[3] = id
  <2> HIDE DEF id, Signs
  <2> QED BY SignsHold, Triple, Zenon DEF id
<1> HIDE DEF f, Signs
<1>2. t[2] = f[2] /\ t[3] = f[3]
  <2>1. 2 \in 1..Len(f) /\ 3 \in 1..Len(f)
    BY <1>1
  <2> QED BY <1>1, <2>1, ConcatFront
<1>3. SubSeq(t, 1, Len(f)) = f /\ SubSeq(t, Len(f) + 1, Len(t)) = octets
  BY <1>1, Cutting
<1>4. Len(f) + 1 = 4 /\ f \o <<>> = f
  BY <1>1, ConcatEmptySeq
<1>5. Wrap(side, context, octets) = t /\ Wrap(side, context, <<>>) = f \o <<>>
  BY DEF Wrap, t, f
<1> HIDE DEF t
<1> QED BY <1>1, <1>2, <1>3, <1>4, <1>5

LEMMA ContextShape ==
    ASSUME NEW s \in Sasls
    PROVE  /\ ContextOf(s) \in Seq(Signs) /\ ContextOf(s)[1] \in Signs
           /\ ContextOf(s) = <<ContextOf(s)[1]>> \o Channel(s)
           /\ s.creds.token = Token("c", 1, ContextOf(s))
<1> DEFINE token == s.creds.token
           context == ContextOf(s)
<1>1. token \in Seq(STRING) /\ Len(token) \in Nat
  BY SaslShape, LenProperties DEF Text
<1>2. context = SubSeq(token, 3, Len(token))
  BY DEF ContextOf
<1>3. context # <<>> /\ Tail(context) = Channel(s) /\ token = Token("c", 1, context)
  BY RelayAssumption
<1> HIDE DEF token, context
<1>4. context \in Seq(STRING)
  <2>1. \A i \in 3..Len(token) : token[i] \in STRING
    BY <1>1
  <2> QED BY <1>1, <1>2, <2>1, SubSeqProperties
<1>5. Head(context) \in STRING /\ context = <<Head(context)>> \o Tail(context)
  BY <1>3, <1>4, HeadTail
<1>6. Head(context) = context[1]
  BY <1>3, <1>4
<1>7. context \in Seq(Signs)
  BY <1>4, SignsHold, SeqMonotonic
<1> QED BY <1>3, <1>5, <1>6, <1>7, SignsHold DEF context, token

\* No two contexts of one application's are alike: what tells them apart tells their Sasl
\* values apart, which differ in nothing else.
LEMMA ContextsDiffer ==
    ASSUME NEW s \in Sasls, NEW t \in Sasls, Renewed(s) = Renewed(t),
           ContextOf(s)[1] = ContextOf(t)[1]
    PROVE  s = t
<1>1. Renewed(s).variant = s.variant /\ Renewed(t).variant = t.variant
  BY SaslShape DEF Renewed, From
<1>2. s.variant = t.variant
  BY <1>1
<1>3. /\ Renewed(s).creds = [s.creds EXCEPT !.token = <<>>]
      /\ Renewed(t).creds = [t.creds EXCEPT !.token = <<>>]
  BY SaslShape DEF Renewed, From
<1>4. [s.creds EXCEPT !.token = <<>>] = [t.creds EXCEPT !.token = <<>>]
  BY <1>3
<1>5. CASE s.variant = "Gssapi"
  <2>1. Channel(s) = <<>> /\ Channel(t) = <<>>
    BY <1>2, <1>5 DEF Channel
  <2>2. ContextOf(s) = ContextOf(t)
    BY <2>1, ContextShape
  <2>3. s.creds.token = t.creds.token
    BY <2>2, ContextShape
  <2>4. s.creds = t.creds
    BY <1>2, <1>5, <2>3, SaslShape
  <2> QED BY <1>2, <2>4, SaslShape
<1>6. CASE s.variant = "Gs2Krb5"
  <2>1. s.creds.authzid = t.creds.authzid /\ s.creds.binding = t.creds.binding
    <3>1. /\ s.creds = [token |-> s.creds.token, authzid |-> s.creds.authzid, binding |-> s.creds.binding]
          /\ t.creds = [token |-> t.creds.token, authzid |-> t.creds.authzid, binding |-> t.creds.binding]
      BY <1>2, <1>6, SaslShape
    <3>2. /\ [s.creds EXCEPT !.token = <<>>].authzid = s.creds.authzid
          /\ [s.creds EXCEPT !.token = <<>>].binding = s.creds.binding
      BY <3>1
    <3>3. /\ [t.creds EXCEPT !.token = <<>>].authzid = t.creds.authzid
          /\ [t.creds EXCEPT !.token = <<>>].binding = t.creds.binding
      BY <3>1
    <3> QED BY <1>4, <3>2, <3>3
  <2>2. Channel(s) = Channel(t)
    BY <1>2, <2>1 DEF Channel
  <2>3. ContextOf(s) = ContextOf(t)
    BY <2>2, ContextShape
  <2>4. s.creds.token = t.creds.token
    BY <2>3, ContextShape
  <2>5. s.creds = t.creds
    BY <1>2, <1>6, <2>1, <2>4, SaslShape
  <2> QED BY <1>2, <2>5, SaslShape
<1> QED BY <1>5, <1>6, SaslShape
----
(***************************************************************************)
(* The security layer, whose own invariant SecurityLayerProofs proves.     *)
(***************************************************************************)
LEMMA LayerConstants ==
    /\ Radix \in Nat /\ Radix >= 8
    /\ Offers \subseteq Seq(LayerP!Octet) /\ Authzids \subseteq Seq(LayerP!Octet)
    /\ Sizes \subseteq 0..Radix * Radix * Radix * Radix - 1
<1>1. Layer!Octet = LayerP!Octet
  BY DEF Layer!Octet, LayerP!Octet
<1>2. Offers \subseteq Seq(Layer!Octet) /\ Authzids \subseteq Seq(Layer!Octet)
  BY LayerAssumption
<1> QED BY <1>1, <1>2, LayerAssumption, Zenon

LEMMA SameParse ==
    /\ \A octets : Layer!Parse(octets) = LayerP!Parse(octets)
    /\ Layer!Truncated = LayerP!Truncated /\ Layer!Unknown = LayerP!Unknown
    /\ Layer!Nothing = LayerP!Nothing /\ Layer!Largest = LayerP!Largest
<1>1. \A l : Layer!Bit(l) = LayerP!Bit(l)
  BY Zenon DEF Layer!Bit, LayerP!Bit
<1>2. Layer!Layers = LayerP!Layers
  BY DEF Layer!Layers, LayerP!Layers
<1>3. \A m, b : Layer!Carries(m, b) <=> LayerP!Carries(m, b)
  BY DEF Layer!Carries, LayerP!Carries
<1>4. Layer!Truncated = LayerP!Truncated /\ Layer!Unknown = LayerP!Unknown
  BY DEF Layer!Truncated, LayerP!Truncated, Layer!Unknown, LayerP!Unknown
<1>5. ASSUME NEW octets PROVE Layer!Parse(octets) = LayerP!Parse(octets)
  <2>1. {layer \in Layer!Layers : Layer!Carries(octets[1], Layer!Bit(layer))}
           = {layer \in LayerP!Layers : LayerP!Carries(octets[1], LayerP!Bit(layer))}
    BY <1>1, <1>2, <1>3, Zenon
  <2> QED BY <1>4, <2>1, Zenon DEF Layer!Parse, LayerP!Parse
<1>6. Layer!Nothing = LayerP!Nothing /\ Layer!Largest = LayerP!Largest
  BY DEF Layer!Nothing, LayerP!Nothing, Layer!Largest, LayerP!Largest
<1> QED BY <1>4, <1>5, <1>6

LEMMA LayerBegins == Layer!Init => LayerP!IInv
<1>1. Layer!Init => LayerP!Init
  BY SameParse DEF Layer!Init, LayerP!Init
<1> QED BY <1>1, LayerP!Initially, LayerConstants, Zenon

LEMMA LayerMoves ==
    ASSUME LayerP!IInv, Layer!Read \/ Layer!Choose \/ Layer!Answer \/ UNCHANGED layervars
    PROVE  LayerP!IInv'
<1>1. CASE Layer!Read
  <2>1. LayerP!Read
    BY <1>1, SameParse DEF Layer!Read, LayerP!Read
  <2> QED BY <2>1, LayerP!Stepwise, LayerConstants, Zenon DEF LayerP!Next
<1>2. CASE Layer!Choose
  <2>1. LayerP!Choose
    BY <1>2 DEF Layer!Choose, LayerP!Choose
  <2> QED BY <2>1, LayerP!Stepwise, LayerConstants, Zenon DEF LayerP!Next
<1>3. CASE Layer!Answer
  <2>1. \A c : Layer!ToBytes(c) = LayerP!ToBytes(c)
    <3>1. \A l : Layer!Bit(l) = LayerP!Bit(l)
      BY Zenon DEF Layer!Bit, LayerP!Bit
    <3> QED BY <3>1, SameParse, Zenon DEF Layer!ToBytes, LayerP!ToBytes
  <2>2. LayerP!Answer
    BY <1>3, <2>1 DEF Layer!Answer, LayerP!Answer
  <2> QED BY <2>2, LayerP!Stepwise, LayerConstants, Zenon DEF LayerP!Next
<1>4. CASE UNCHANGED layervars
  <2>1. UNCHANGED LayerP!vars
    BY <1>4 DEF layervars, LayerP!vars
  <2> QED BY <2>1, LayerP!Stepwise, LayerConstants, Zenon
<1> QED BY <1>1, <1>2, <1>3, <1>4

LEMMA LayerRenewed ==
    ASSUME LayerP!IInv, phase' = "offered", unwrapped' = unwrapped,
           choice' = Layer!Nothing, answer' = Layer!Nothing
    PROVE  LayerP!IInv'
BY SameParse
   DEF LayerP!IInv, LayerP!PhaseOK, LayerP!OfferRead, LayerP!ChoiceMade, LayerP!AnswerGiven

LEMMA OctetSigns == Seq(LayerP!Octet) \subseteq Seq(Signs)
<1>1. LayerP!Octet \subseteq Signs
  <2>1. LayerP!Octet \subseteq Nat
    BY LayerConstants DEF LayerP!Octet
  <2> QED BY <2>1, SignsHold
<1> QED BY <1>1, SeqMonotonic

LEMMA UnwrappedSigns == LayerP!IInv => unwrapped \in Seq(Signs)
<1>1. LayerP!IInv => unwrapped \in Seq(LayerP!Octet)
  BY LayerConstants DEF LayerP!IInv, LayerP!OfferRead
<1> QED BY <1>1, OctetSigns

\* What a server hears of the answer.
LEMMA AnswerHeard ==
    ASSUME LayerP!IInv, phase = "answered"
    PROVE  LET heard == Layer!Parse(answer)
           IN  /\ answer \in Seq(Signs)
               /\ heard.layers = {choice.layer} /\ choice.layer \in offer.layers
               /\ \/ heard.max_message_size = choice.max_message_size
                  \/ heard.max_message_size = Layer!Largest /\ Layer!Largest < choice.max_message_size
               /\ SubSeq(answer, 5, Len(answer)) = choice.authzid
<1>1. /\ choice.layer \in LayerP!Layers /\ choice.layer \in LayerP!Carried(unwrapped[1])
      /\ choice.max_message_size \in Sizes /\ choice.authzid \in Authzids
  BY LayerP!Picked, LayerConstants, Zenon
<1>2. answer = LayerP!ToBytes(choice) /\ offer = LayerP!Wellread(unwrapped)
  BY DEF LayerP!IInv, LayerP!AnswerGiven, LayerP!OfferRead
<1>3. /\ answer \in Seq(LayerP!Octet)
      /\ LayerP!Parse(answer) = [layers |-> {choice.layer},
                                 max_message_size |-> LayerP!Capped(choice.max_message_size)]
      /\ SubSeq(answer, 5, Len(answer)) = choice.authzid
  BY <1>1, <1>2, LayerP!Heard, LayerConstants, Zenon
<1>4. \/ LayerP!Capped(choice.max_message_size) = choice.max_message_size
      \/ /\ LayerP!Capped(choice.max_message_size) = LayerP!Largest
         /\ LayerP!Largest < choice.max_message_size
  BY <1>1, LayerP!Capping, LayerConstants, Zenon
<1>5. offer.layers = LayerP!Carried(unwrapped[1])
  BY <1>2 DEF LayerP!Wellread
<1> DEFINE heard == LayerP!Parse(answer)
<1>6. /\ heard.layers = {choice.layer}
      /\ heard.max_message_size = LayerP!Capped(choice.max_message_size)
  BY <1>3
<1> HIDE DEF heard
<1>7. Layer!Parse(answer) = heard
  BY SameParse DEF heard
<1>8. answer \in Seq(Signs)
  BY <1>3, OctetSigns
<1> QED BY <1>1, <1>3, <1>4, <1>5, <1>6, <1>7, <1>8, SameParse, Zenon
----
(***************************************************************************)
(* What the coroutine lets through.                                        *)
(***************************************************************************)
FirstMessage ==
    IF Negotiates THEN sasl.creds.token
                  ELSE Headed(sasl.creds.binding, sasl.creds.authzid, sasl.creds.token)

LEMMA SameHeader == \A b, a : Gs2Krb5M!Header(b, a) = Header(b, a)
<1>1. \A s : Gs2Krb5M!FlattenSeq(s) = FlattenSeq(s)
  BY DEF Gs2Krb5M!FlattenSeq, FlattenSeq
<1>2. \A c : Gs2Krb5M!EscapeToken(c) = EscapeToken(c)
  BY DEF Gs2Krb5M!EscapeToken, EscapeToken
<1>3. \A a : Gs2Krb5M!Escape(a) = Escape(a)
  BY <1>1, <1>2 DEF Gs2Krb5M!Escape, Escape
<1>4. \A b : Gs2Krb5M!Flag(b) = Flag(b)
  BY DEF Gs2Krb5M!Flag, Flag, Gs2Krb5M!IsBound, IsBound, Gs2Krb5M!KindName, KindName
<1> QED BY <1>3, <1>4 DEF Gs2Krb5M!Header, Header

\* A resume writes what it is fed, or the first message, or nothing.
Passes(bytes) == \/ last'.reply.kind = "WantsWrite" /\ last'.reply.payload.bytes = bytes
                 \/ last'.reply.kind = "Err"

LEMMA Passing ==
    ASSUME sasl \in Sasls, NEW arg, Resume(arg)
    PROVE  /\ last'.reply.kind \in {"WantsWrite", "Ok", "Err"}
           /\ \A x : arg = Input(x) => Passes(x)
           /\ arg = NoArg /\ creds = sasl.creds => Passes(FirstMessage)
<1> DEFINE Passed == /\ last'.reply.kind \in {"WantsWrite", "Ok", "Err"}
                     /\ \A x : arg = Input(x) => Passes(x)
                     /\ arg = NoArg /\ creds = sasl.creds => Passes(FirstMessage)
<1>1. CASE sasl.variant = "Gssapi"
  <2> USE DEF NoArg, PeerDone, Input, Passes, GssapiM!NoArg, GssapiM!PeerDone, GssapiM!Return
  <2>1. GssapiM!Resume(arg) /\ Negotiates
    BY <1>1, NegotiatesGssapi DEF Resume, Is
  <2>2. CASE arg = GssapiM!PeerDone /\ GssapiM!Accept(arg)
    BY <2>2 DEF GssapiM!Accept, GssapiM!CompleteOk
  <2>3. CASE GssapiM!SendFirstToken(arg)
    <3>1. arg = NoArg /\ last'.reply.kind = "WantsWrite" /\ last'.reply.payload.bytes = creds.token
      BY <2>3 DEF GssapiM!SendFirstToken, GssapiM!Write, GssapiM!WantsWrite
    <3> QED BY <2>1, <3>1 DEF FirstMessage
  <2>4. CASE GssapiM!RelayToken(arg)
    <3>1. /\ arg.kind = "Input" /\ last'.reply.kind = "WantsWrite"
          /\ last'.reply.payload.bytes = arg.bytes
      BY <2>4 DEF GssapiM!RelayToken, GssapiM!Write, GssapiM!WantsWrite
    <3> QED BY <3>1
  <2>5. CASE GssapiM!RefuseOutOfOrder(arg)
    <3>1. last'.reply.kind = "Err"
      BY <2>5 DEF GssapiM!RefuseOutOfOrder, GssapiM!Refuse, GssapiM!CompleteErr
    <3> QED BY <3>1
  <2> QED BY <2>1, <2>2, <2>3, <2>4, <2>5 DEF GssapiM!Resume
<1>2. CASE sasl.variant = "Gs2Krb5"
  <2> USE DEF NoArg, PeerDone, Input, Passes, Gs2Krb5M!NoArg, Gs2Krb5M!PeerDone, Gs2Krb5M!Return
  <2>1. Gs2Krb5M!Resume(arg) /\ ~Negotiates
    BY <1>2, NegotiatesGssapi DEF Resume, Is
  <2>2. CASE arg = Gs2Krb5M!PeerDone /\ Gs2Krb5M!Accept(arg)
    BY <2>2 DEF Gs2Krb5M!Accept, Gs2Krb5M!CompleteOk
  <2>3. CASE Gs2Krb5M!SendFirstToken(arg)
    <3>1. /\ arg = NoArg /\ last'.reply.kind = "WantsWrite"
          /\ last'.reply.payload.bytes = Headed(creds.binding, creds.authzid, creds.token)
      BY <2>3, SameHeader DEF Gs2Krb5M!SendFirstToken, Gs2Krb5M!Write, Gs2Krb5M!WantsWrite, Headed
    <3> QED BY <2>1, <3>1 DEF FirstMessage
  <2>4. CASE Gs2Krb5M!RelayToken(arg)
    <3>1. /\ arg.kind = "Input" /\ last'.reply.kind = "WantsWrite"
          /\ last'.reply.payload.bytes = arg.bytes
      BY <2>4 DEF Gs2Krb5M!RelayToken, Gs2Krb5M!Write, Gs2Krb5M!WantsWrite
    <3> QED BY <3>1
  <2>5. CASE Gs2Krb5M!RefuseOutOfOrder(arg)
    <3>1. last'.reply.kind = "Err"
      BY <2>5 DEF Gs2Krb5M!RefuseOutOfOrder, Gs2Krb5M!Refuse, Gs2Krb5M!CompleteErr
    <3> QED BY <3>1
  <2> QED BY <2>1, <2>2, <2>3, <2>4, <2>5 DEF Gs2Krb5M!Resume
<1> QED BY <1>1, <1>2, SaslShape

\* So a message that goes out is the one the context made.
Sends(bytes) == \/ outcome' = "running" /\ wire' = ToServer(bytes)
                \/ outcome' = "failed" /\ wire' = Quiet

LEMMA Relaying ==
    ASSUME sasl \in Sasls, NEW arg, Relay(arg)
    PROVE  /\ outcome = "running" /\ last'.reply # NoReply
           /\ UNCHANGED <<sasl, setup, server, seen, used, clean>>
           /\ \A x : arg = Input(x) => Sends(x)
           /\ arg = NoArg /\ creds = sasl.creds => Sends(FirstMessage)
<1>1. /\ outcome = "running" /\ Resume(arg)
      /\ UNCHANGED <<sasl, setup, server, seen, used, clean>>
      /\ outcome' = IF last'.reply.kind = "Err" THEN "failed" ELSE "running"
      /\ wire' = IF last'.reply.kind = "WantsWrite" THEN ToServer(last'.reply.payload.bytes) ELSE Quiet
  BY DEF Relay
<1>2. ASSUME NEW x, Passes(x) PROVE Sends(x)
  <2>1. CASE last'.reply.kind = "WantsWrite" /\ last'.reply.payload.bytes = x
    <3>1. outcome' = "running" /\ wire' = ToServer(last'.reply.payload.bytes)
      BY <1>1, <2>1
    <3> QED BY <2>1, <3>1, Zenon DEF Sends
  <2>2. CASE last'.reply.kind = "Err"
    <3>1. outcome' = "failed" /\ wire' = Quiet
      BY <1>1, <2>2
    <3> QED BY <3>1, Zenon DEF Sends
  <2> QED BY <1>2, <2>1, <2>2, Zenon DEF Passes
<1>3. last'.reply # NoReply
  BY <1>1, Passing DEF NoReply
<1> QED BY <1>1, <1>2, <1>3, Passing, Zenon
----
(***************************************************************************)
(* The invariant.                                                          *)
(***************************************************************************)
\* The challenges a context may make.
TokenOf(s, l) == Challenge(Token("s", l, ContextOf(s)))
OfferOf(s) == Challenge(Wrap("s", ContextOf(s), unwrapped))
Answers(s) == {TokenOf(s, l) : l \in 1..setup.legs} \cup {OfferOf(s)}

Built == /\ sasl \in used /\ used \subseteq Sasls
         /\ \A s \in used : Renewed(s) = Renewed(sasl)
         /\ setup \in [legs : Legs, material : Materials, plus : BOOLEAN]
         /\ caller \in 0..setup.legs
         /\ LayerP!IInv

Untouched == last.reply = NoReply =>
    creds = sasl.creds /\ wire = Quiet /\ server = Idle /\ caller = 0 /\ phase = "offered"

Over == outcome # "running" => wire = Quiet

\* All that was ever sent to a driver was made by one of the contexts.
Recorded == \A m \in seen : \E s \in used : m \in Answers(s)

\* What the current one makes is sent in its time.
InTime ==
    /\ \A l \in 1..setup.legs : TokenOf(sasl, l) \in seen =>
          server.state # "idle" /\ (server.state = "stepping" => l <= server.taken)
    /\ OfferOf(sasl) \in seen => server.state \notin {"idle", "stepping"}

\* A message under way to the server is the one it waits for.
NextToken == IF caller = setup.legs THEN <<>> ELSE Token("c", caller + 1, ContextOf(sasl))

Toward ==
    \/ server = Idle /\ wire = ToServer(FirstMessage)
    \/ server.state = "stepping" /\ caller = server.taken /\ wire = ToServer(NextToken)
    \/ /\ server.state = "offering" /\ phase = "answered"
       /\ wire = ToServer(Wrap("c", ContextOf(sasl), answer))

Underway == wire \in {Quiet, Success, Refusal} \cup seen \/ Toward

\* Where the server stands.
Headlined == server.header = Header(sasl.creds.binding, sasl.creds.authzid)

Stepping == /\ server = [state |-> "stepping", taken |-> server.taken,
                         context |-> ContextOf(sasl), header |-> server.header]
            /\ server.taken \in 1..setup.legs
            /\ caller \in {server.taken - 1, server.taken}
            /\ ~Negotiates => Headlined

Offering == /\ server = [state |-> "offering", taken |-> server.taken,
                         context |-> ContextOf(sasl), header |-> server.header]
            /\ Negotiates /\ caller = setup.legs

LayerAgreed ==
    /\ server.identity = choice.authzid
    /\ server.layer = choice.layer /\ choice.layer \in offer.layers
    /\ \/ server.size = choice.max_message_size
       \/ server.size = Layer!Largest /\ Layer!Largest < choice.max_message_size

Accepted == /\ server.state = "accepted" /\ caller = setup.legs
            /\ IF Negotiates THEN phase = "answered" /\ LayerAgreed
                             ELSE server.identity = sasl.creds.authzid /\ Headlined

Denied == /\ server.state = "refused"
          /\ outcome # "authenticated"
          /\ outcome = "running" => wire = Refusal

Serving == \/ server = Idle /\ caller = 0
           \/ Stepping \/ Offering \/ Accepted \/ Denied

Phases == phase # "offered" =>
    /\ Negotiates /\ caller = setup.legs
    /\ server.state \in {"offering", "accepted", "refused"}
    /\ phase # "answered" => server.state = "offering"

Trust == /\ clean /\ wire = Success => server.state = "accepted"
         /\ outcome = "authenticated" =>
               /\ server.state \in {"stepping", "offering", "accepted"}
               /\ clean => server.state = "accepted"

RInv == Built /\ Untouched /\ Over /\ Recorded /\ InTime /\ Underway /\ Serving /\ Phases /\ Trust
----
(***************************************************************************)
(* Messages and states are told apart by what they are made of.            *)
(***************************************************************************)
LEMMA Kindly ==
    /\ Quiet.to = "nobody"
    /\ Success.to = "driver" /\ Success.kind = "success"
    /\ Refusal.to = "driver" /\ Refusal.kind = "refusal"
    /\ \A b : ToServer(b).to = "server" /\ ToServer(b).bytes = b
    /\ \A b : /\ Challenge(b).to = "driver" /\ Challenge(b).kind = "challenge"
              /\ Challenge(b).bytes = b
    /\ Idle.state = "idle"
BY DEF Quiet, Success, Refusal, ToServer, Challenge, Idle

LEMMA SameChallenge == \A a, b : Challenge(a) = Challenge(b) => a = b
<1> SUFFICES ASSUME NEW a, NEW b, Challenge(a) = Challenge(b) PROVE a = b
  OBVIOUS
<1>1. Challenge(a).bytes = a /\ Challenge(b).bytes = b
  BY Kindly
<1> QED BY <1>1

LEMMA LegsNumbered == Built => setup.legs \in 1..3 /\ 1..setup.legs \subseteq DOMAIN Numeral
BY RelayAssumption, Numerals DEF Built

LEMMA MessagesDiffer ==
    ASSUME NEW s \in Sasls, NEW t \in Sasls, unwrapped \in Seq(Signs)
    PROVE  /\ \A k, l \in DOMAIN Numeral :
                 TokenOf(s, k) = TokenOf(t, l) => k = l /\ ContextOf(s) = ContextOf(t)
           /\ \A l \in DOMAIN Numeral : TokenOf(s, l) # OfferOf(t)
           /\ OfferOf(s) = OfferOf(t) => ContextOf(s)[1] = ContextOf(t)[1]
<1> DEFINE c == ContextOf(s)
           d == ContextOf(t)
<1>1. c \in Seq(Signs) /\ d \in Seq(Signs) /\ c[1] \in Signs /\ d[1] \in Signs /\ "s" \in Signs
  BY ContextShape, SignsHold
<1> HIDE DEF c, d, Signs
<1>2. ASSUME NEW k \in DOMAIN Numeral, NEW l \in DOMAIN Numeral, TokenOf(s, k) = TokenOf(t, l)
      PROVE  k = l /\ c = d
  <2> DEFINE x == Token("s", k, c)
             y == Token("s", l, d)
  <2>1. x = y
    <3>1. Challenge(x) = Challenge(y)
      BY <1>2 DEF TokenOf, c, d
    <3> QED BY <3>1, SameChallenge, Zenon
  <2>2. x[2] = Numeral[k] /\ SubSeq(x, 3, Len(x)) = c
    BY <1>1, TokenShape
  <2>3. y[2] = Numeral[l] /\ SubSeq(y, 3, Len(y)) = d
    BY <1>1, TokenShape
  <2> HIDE DEF x, y
  <2>4. Numeral[k] = Numeral[l] /\ c = d
    BY <2>1, <2>2, <2>3, Zenon
  <2> QED BY <2>4, Numerals
<1>3. ASSUME NEW l \in DOMAIN Numeral PROVE TokenOf(s, l) # OfferOf(t)
  <2>1. Token("s", l, c)[2] = Numeral[l]
    BY <1>1, TokenShape
  <2>2. Wrap("s", d, unwrapped)[2] = "wrapped"
    BY <1>1, WrapShape
  <2>3. Token("s", l, c) # Wrap("s", d, unwrapped)
    BY <2>1, <2>2, Numerals
  <2>4. /\ TokenOf(s, l) = Challenge(Token("s", l, c))
        /\ OfferOf(t) = Challenge(Wrap("s", d, unwrapped))
    BY DEF TokenOf, OfferOf, c, d
  <2> QED BY <2>3, <2>4, SameChallenge
<1>4. ASSUME OfferOf(s) = OfferOf(t) PROVE c[1] = d[1]
  <2>1. Wrap("s", c, unwrapped)[3] = c[1] /\ Wrap("s", d, unwrapped)[3] = d[1]
    BY <1>1, WrapShape
  <2>2. Wrap("s", c, unwrapped) = Wrap("s", d, unwrapped)
    <3>1. Challenge(Wrap("s", c, unwrapped)) = Challenge(Wrap("s", d, unwrapped))
      BY <1>4 DEF OfferOf, c, d
    <3> QED BY <3>1, SameChallenge
  <2> QED BY <2>1, <2>2
<1> QED BY <1>2, <1>3, <1>4 DEF c, d
----
(***************************************************************************)
(* The driver's steps.                                                     *)
(***************************************************************************)
LEMMA RelayInitially == RelayInit => RInv
<1> SUFFICES ASSUME RelayInit PROVE RInv
  OBVIOUS
<1>1. /\ sasl \in Sasls /\ creds = sasl.creds /\ Layer!Init
      /\ setup \in [legs : Legs, material : Materials, plus : BOOLEAN]
      /\ caller = 0 /\ outcome = "running" /\ wire = Quiet /\ server = Idle
      /\ seen = {} /\ used = {sasl} /\ clean = TRUE
  BY DEF RelayInit, Init
<1>2. phase = "offered"
  BY <1>1 DEF Layer!Init
<1>3. LayerP!IInv
  BY <1>1, LayerBegins
<1>4. setup.legs \in 1..3
  BY <1>1, RelayAssumption, Numerals
<1>5. Built
  BY <1>1, <1>3, <1>4 DEF Built
<1>6. Untouched /\ Over /\ Recorded /\ InTime
  BY <1>1, <1>2 DEF Untouched, Over, Recorded, InTime
<1>7. Underway /\ Serving /\ Phases
  BY <1>1, <1>2 DEF Underway, Serving, Phases
<1>8. Trust
  BY <1>1, Kindly DEF Trust
<1> QED BY <1>5, <1>6, <1>7, <1>8 DEF RInv

\* A context makes the same challenges while its setting is the same.
LEMMA AnswersKept ==
    ASSUME setup' = setup, unwrapped' = unwrapped
    PROVE  \A s : Answers(s)' = Answers(s)
BY DEF Answers, TokenOf, OfferOf, Challenge, Token, ContextOf, Wrap

\* What was sent stays as it is while the server does not move.
LEMMA RecordsKept ==
    ASSUME Recorded, InTime, UNCHANGED <<sasl, setup, server, seen, used, unwrapped>>
    PROVE  Recorded' /\ InTime'
<1>1. Recorded'
  BY AnswersKept DEF Recorded
<1>2. InTime'
  <2>1. \A l : TokenOf(sasl, l)' = TokenOf(sasl, l)
    BY DEF TokenOf, Challenge, Token, ContextOf
  <2>2. OfferOf(sasl)' = OfferOf(sasl)
    BY DEF OfferOf, Challenge, Wrap, ContextOf
  <2> QED BY <2>1, <2>2 DEF InTime
<1> QED BY <1>1, <1>2

\* What the Sasl value decides stays while it does.
LEMMA SameSasl ==
    ASSUME sasl' = sasl
    PROVE  /\ Negotiates' <=> Negotiates
           /\ ContextOf(sasl)' = ContextOf(sasl)
           /\ FirstMessage' = FirstMessage
<1>1. Negotiates' <=> Negotiates
  BY DEF Negotiates, Name, mechanism
<1>2. ContextOf(sasl)' = ContextOf(sasl)
  BY DEF ContextOf
<1>3. FirstMessage' = FirstMessage
  BY <1>1 DEF FirstMessage, Headed, Header, Escape
<1> QED BY <1>1, <1>2, <1>3

\* Nor does the server's place change while it does nothing, but for a refusal on its way.
LEMMA ServingKept ==
    ASSUME Serving, UNCHANGED <<sasl, setup, caller, server, phase, offer, choice>>,
           Denied => Denied'
    PROVE  Serving'
<1>1. Headlined' <=> Headlined
  BY DEF Headlined, Header, Escape
<1>2. LayerAgreed' <=> LayerAgreed
  BY DEF LayerAgreed, Layer!Largest
<1>3. Stepping => Stepping'
  BY <1>1, SameSasl DEF Stepping
<1>4. Offering => Offering'
  BY SameSasl DEF Offering
<1>5. Accepted => Accepted'
  BY <1>1, <1>2, SameSasl DEF Accepted
<1>6. server = Idle /\ caller = 0 => (server = Idle /\ caller = 0)'
  BY DEF Idle
<1> QED BY <1>3, <1>4, <1>5, <1>6, Zenon DEF Serving

\* An exchange that ends leaves everything where it was, and nothing on the wire.
LEMMA Ending ==
    ASSUME RInv, wire' = Quiet, outcome' \in {"failed", "refused", "abandoned"},
           UNCHANGED <<vars, layervars, setup, caller, server, seen, used>>
    PROVE  RInv'
<1>1. /\ sasl' = sasl /\ creds' = creds /\ last' = last /\ setup' = setup /\ caller' = caller
      /\ server' = server /\ seen' = seen /\ used' = used
      /\ phase' = phase /\ unwrapped' = unwrapped /\ offer' = offer /\ choice' = choice
      /\ answer' = answer
  BY DEF vars, layervars
<1>2. LayerP!IInv'
  BY LayerMoves, Zenon DEF RInv, Built
<1>3. Built'
  BY <1>1, <1>2 DEF RInv, Built, Renewed
<1>4. Untouched' /\ Over' /\ Underway'
  BY <1>1 DEF RInv, Untouched, Over, Underway
<1>5. Recorded' /\ InTime'
  BY <1>1, RecordsKept DEF RInv
<1>6. Phases'
  BY <1>1, SameSasl DEF RInv, Phases
<1>7. Trust'
  BY Kindly DEF Trust
<1>8. Serving'
  <2>1. Denied => Denied'
    BY <1>1 DEF Denied
  <2> QED BY <1>1, <2>1, ServingKept DEF RInv
<1> QED BY <1>3, <1>4, <1>5, <1>6, <1>7, <1>8 DEF RInv

\* A challenge that reaches the driver was sent by a server, and one the current context
\* made finds the server where it sent it from.
LEMMA Challenged ==
    ASSUME RInv, OnWire("challenge")
    PROVE  /\ wire \in seen /\ wire = Challenge(wire.bytes)
           /\ ~Denied
<1>1. wire.to = "driver" /\ wire.kind = "challenge" /\ outcome = "running"
  BY DEF OnWire
<1>2. ~Toward
  BY <1>1, Kindly DEF Toward
<1>3. wire \notin {Quiet, Success, Refusal}
  BY <1>1, Kindly
<1>4. wire \in seen
  BY <1>2, <1>3 DEF RInv, Underway
<1>5. PICK s \in used : wire \in Answers(s)
  BY <1>4 DEF RInv, Recorded
<1>6. \E b : wire = Challenge(b)
  BY <1>5 DEF Answers, TokenOf, OfferOf
<1>7. wire = Challenge(wire.bytes)
  BY <1>6, Kindly
<1> QED BY <1>1, <1>3, <1>4, <1>7 DEF Denied

LEMMA BeginKeeps == RInv /\ Begin => RInv'
<1> SUFFICES ASSUME RInv, Begin PROVE RInv'
  OBVIOUS
<1>1. /\ last.reply = NoReply /\ Relay(NoArg)
      /\ UNCHANGED <<layervars, caller>>
  BY DEF Begin
<1>2. sasl \in Sasls
  BY DEF RInv, Built
<1>3. creds = sasl.creds /\ wire = Quiet /\ server = Idle /\ caller = 0 /\ phase = "offered"
  BY <1>1 DEF RInv, Untouched
<1>4. /\ outcome = "running" /\ last'.reply # NoReply
      /\ UNCHANGED <<sasl, setup, server, seen, used, clean>>
      /\ Sends(FirstMessage)
  BY <1>1, <1>2, <1>3, Relaying, Zenon
<1>5. /\ sasl' = sasl /\ setup' = setup /\ caller' = caller /\ server' = server /\ seen' = seen
      /\ used' = used /\ clean' = clean
      /\ phase' = phase /\ unwrapped' = unwrapped /\ offer' = offer /\ choice' = choice
      /\ answer' = answer
  BY <1>1, <1>4 DEF layervars
<1>6. Built'
  <2>1. LayerP!IInv'
    BY <1>1, LayerMoves, Zenon DEF RInv, Built
  <2> QED BY <1>5, <2>1 DEF RInv, Built, Renewed
<1>7. Recorded' /\ InTime'
  BY <1>5, RecordsKept DEF RInv
<1>8. Untouched'
  BY <1>4 DEF Untouched
<1>9. Over' /\ Underway'
  <2>1. CASE outcome' = "running" /\ wire' = ToServer(FirstMessage)
    <3>1. Toward'
      BY <1>3, <1>5, <2>1, SameSasl DEF Toward, ToServer, Idle
    <3> QED BY <2>1, <3>1 DEF Over, Underway
  <2>2. CASE outcome' = "failed" /\ wire' = Quiet
    BY <2>2 DEF Over, Underway
  <2> QED BY <1>4, <2>1, <2>2 DEF Sends
<1>10. Serving' /\ Phases'
  BY <1>3, <1>5 DEF Serving, Phases, Idle
<1>11. Trust'
  <2>1. wire' # Success
    BY <1>4, Kindly DEF Sends
  <2>2. outcome' # "authenticated"
    BY <1>4 DEF Sends
  <2> QED BY <2>1, <2>2 DEF Trust, Success
<1> QED BY <1>6, <1>7, <1>8, <1>9, <1>10, <1>11 DEF RInv

LEMMA StepContextKeeps == RInv /\ StepContext => RInv'
<1> SUFFICES ASSUME RInv, StepContext PROVE RInv'
  OBVIOUS
<1>1. OnWire("challenge") /\ caller # setup.legs /\ UNCHANGED layervars
  BY DEF StepContext, Established
<1>2. CASE wire.bytes # Token("s", caller + 1, ContextOf(sasl))
  BY <1>1, <1>2, Ending DEF StepContext, GiveUp
<1>3. CASE wire.bytes = Token("s", caller + 1, ContextOf(sasl))
  <2> DEFINE next == IF caller' = setup.legs THEN <<>> ELSE Token("c", caller + 2, ContextOf(sasl))
  <2>1. caller' = caller + 1 /\ Relay(Input(next))
    BY <1>3 DEF StepContext
  <2>2. sasl \in Sasls /\ setup.legs \in 1..3 /\ caller \in 0..setup.legs
    BY LegsNumbered DEF RInv, Built
  <2> HIDE DEF next
  <2>3. /\ outcome = "running" /\ last'.reply # NoReply
        /\ UNCHANGED <<sasl, setup, server, seen, used, clean>>
        /\ Sends(next)
    BY <2>1, <2>2, Relaying, Zenon
  <2>4. /\ sasl' = sasl /\ setup' = setup /\ server' = server /\ seen' = seen
        /\ used' = used /\ clean' = clean
        /\ phase' = phase /\ unwrapped' = unwrapped /\ offer' = offer /\ choice' = choice
        /\ answer' = answer
    BY <1>1, <2>3 DEF layervars
  <2>5. caller + 1 \in 1..setup.legs
    BY <1>1, <2>2
  <2>6. Stepping /\ caller + 1 = server.taken
    <3>1. TokenOf(sasl, caller + 1) \in seen
      BY <1>1, <1>3, Challenged DEF TokenOf
    <3>2. server.state # "idle" /\ (server.state = "stepping" => caller + 1 <= server.taken)
      BY <2>5, <3>1 DEF RInv, InTime
    <3>3. ~Denied /\ ~Offering /\ ~Accepted /\ server # Idle
      BY <1>1, <3>2, Challenged, Kindly DEF Offering, Accepted
    <3>4. Stepping
      BY <3>3 DEF RInv, Serving
    <3>5. server.state = "stepping" /\ server.taken \in 1..setup.legs
          /\ caller \in {server.taken - 1, server.taken}
      BY <3>4 DEF Stepping
    <3>6. caller + 1 = server.taken
      BY <2>2, <3>2, <3>5
    <3> QED BY <3>4, <3>6
  <2>7. server.state = "stepping" /\ phase = "offered"
    BY <2>6 DEF RInv, Phases, Stepping
  <2>8. Built'
    <3>1. LayerP!IInv'
      BY <1>1, LayerMoves, Zenon DEF RInv, Built
    <3>2. caller' \in 0..setup'.legs
      BY <2>1, <2>2, <2>4, <2>5
    <3> QED BY <2>4, <3>1, <3>2 DEF RInv, Built, Renewed
  <2>9. Recorded' /\ InTime'
    BY <2>4, RecordsKept DEF RInv
  <2>10. Untouched'
    BY <2>3 DEF Untouched
  <2>11. Stepping'
    <3>1. caller' = server'.taken
      BY <2>1, <2>4, <2>6
    <3>2. Headlined' <=> Headlined
      BY <2>4 DEF Headlined, Header, Escape
    <3> QED BY <2>4, <2>6, <3>1, <3>2, SameSasl DEF Stepping
  <2>12. Over' /\ Underway'
    <3>1. CASE outcome' = "running" /\ wire' = ToServer(next)
      <4>1. NextToken' = next
        <5>1. caller' + 1 = caller + 2
          BY <2>1, <2>2
        <5> QED BY <2>4, <5>1, SameSasl DEF NextToken, next, Token
      <4>2. wire' = ToServer(NextToken')
        BY <3>1, <4>1
      <4>3. Toward'
        BY <2>1, <2>4, <2>6, <2>7, <4>2 DEF Toward, ToServer
      <4> QED BY <3>1, <4>3 DEF Over, Underway
    <3>2. CASE outcome' = "failed" /\ wire' = Quiet
      BY <3>2 DEF Over, Underway
    <3> QED BY <2>3, <3>1, <3>2 DEF Sends
  <2>13. Serving' /\ Phases'
    BY <2>4, <2>7, <2>11 DEF Serving, Phases
  <2>14. Trust'
    <3>1. wire' # Success
      BY <2>3, Kindly DEF Sends
    <3>2. outcome' # "authenticated"
      BY <2>3 DEF Sends
    <3> QED BY <3>1, <3>2 DEF Trust, Success
  <2> QED BY <2>8, <2>9, <2>10, <2>12, <2>13, <2>14 DEF RInv
<1> QED BY <1>2, <1>3

\* While the application works on the offer, nothing else moves.
LEMMA LayerKeeps ==
    ASSUME RInv, Offering, wire \in {Quiet, Success, Refusal} \cup seen,
           Layer!Read \/ Layer!Choose, UNCHANGED <<vars, peers>>
    PROVE  RInv'
<1>1. /\ sasl' = sasl /\ creds' = creds /\ last' = last /\ setup' = setup /\ caller' = caller
      /\ server' = server /\ seen' = seen /\ used' = used /\ wire' = wire /\ outcome' = outcome
      /\ clean' = clean
  BY DEF vars, peers
<1>2. /\ unwrapped' = unwrapped /\ phase # "answered" /\ phase' # "answered"
      /\ phase # "offered" \/ Layer!Read
  BY DEF Layer!Read, Layer!Choose
<1>3. LayerP!IInv'
  BY LayerMoves, Zenon DEF RInv, Built
<1>4. Built'
  BY <1>1, <1>3 DEF RInv, Built, Renewed
<1>5. Recorded' /\ InTime'
  BY <1>1, <1>2, RecordsKept DEF RInv
<1>6. server.state = "offering" /\ Negotiates /\ caller = setup.legs
  BY DEF Offering
<1>7. Untouched'
  BY <1>1, <1>6, Kindly DEF RInv, Untouched
<1>8. Over' /\ Underway'
  BY <1>1 DEF RInv, Over, Underway, Quiet, Success, Refusal
<1>9. Offering'
  BY <1>1, SameSasl DEF Offering
<1>10. Serving' /\ Phases'
  BY <1>1, <1>6, <1>9, SameSasl DEF Serving, Phases
<1>11. Trust'
  BY <1>1 DEF RInv, Trust, Success
<1> QED BY <1>4, <1>5, <1>7, <1>8, <1>10, <1>11 DEF RInv

LEMMA UnwrapKeeps == RInv /\ Unwrap => RInv'
<1> SUFFICES ASSUME RInv, Unwrap PROVE RInv'
  OBVIOUS
<1>1. OnWire("challenge") /\ caller = setup.legs /\ phase = "offered"
  BY DEF Unwrap, Established
<1>2. CASE Negotiates /\ wire.bytes = Wrap("s", ContextOf(sasl), unwrapped)
  <2>1. Layer!Read /\ UNCHANGED <<vars, peers>>
    BY <1>2 DEF Unwrap
  <2>2. OfferOf(sasl) \in seen /\ wire \in seen /\ ~Denied
    BY <1>1, <1>2, Challenged DEF OfferOf
  <2>3. server.state \notin {"idle", "stepping"}
    BY <2>2 DEF RInv, InTime
  <2>4. ~Accepted
    BY <1>1, <1>2 DEF Accepted
  <2>5. Offering
    BY <2>2, <2>3, <2>4, Kindly DEF RInv, Serving, Stepping
  <2> QED BY <2>1, <2>2, <2>5, LayerKeeps
<1>3. CASE ~(Negotiates /\ wire.bytes = Wrap("s", ContextOf(sasl), unwrapped))
  BY <1>3, Ending DEF Unwrap, GiveUp
<1> QED BY <1>2, <1>3

LEMMA GivingUpKeeps == RInv /\ (RefuseOffer \/ RefuseMore) => RInv'
BY Ending DEF RefuseOffer, RefuseMore, GiveUp

LEMMA ChooseKeeps == RInv /\ Choose => RInv'
<1> SUFFICES ASSUME RInv, Choose PROVE RInv'
  OBVIOUS
<1>1. Layer!Choose /\ UNCHANGED <<vars, peers>>
  BY DEF Choose
<1>2. phase = "read"
  BY <1>1 DEF Layer!Choose
<1>3. server.state = "offering"
  BY <1>2 DEF RInv, Phases
<1>4. Offering
  BY <1>3, Kindly DEF RInv, Serving, Stepping, Accepted, Denied
<1>5. ~Toward
  BY <1>2, <1>3, Kindly DEF Toward
<1> QED BY <1>1, <1>4, <1>5, LayerKeeps DEF RInv, Underway

LEMMA WrapAnswerKeeps == RInv /\ WrapAnswer => RInv'
<1> SUFFICES ASSUME RInv, WrapAnswer PROVE RInv'
  OBVIOUS
<1> DEFINE next == Wrap("c", ContextOf(sasl), answer')
<1>1. Layer!Answer /\ Relay(Input(next)) /\ caller' = caller
  BY DEF WrapAnswer
<1>2. phase = "chosen" /\ phase' = "answered" /\ unwrapped' = unwrapped
  BY <1>1 DEF Layer!Answer
<1>3. sasl \in Sasls
  BY DEF RInv, Built
<1> HIDE DEF next
<1>4. /\ outcome = "running" /\ last'.reply # NoReply
      /\ UNCHANGED <<sasl, setup, server, seen, used, clean>>
      /\ Sends(next)
  BY <1>1, <1>3, Relaying, Zenon
<1>5. Offering
  <2>1. server.state = "offering"
    BY <1>2 DEF RInv, Phases
  <2> QED BY <2>1, Kindly DEF RInv, Serving, Stepping, Accepted, Denied
<1>6. Built'
  <2>1. LayerP!IInv'
    BY <1>1, LayerMoves, Zenon DEF RInv, Built
  <2> QED BY <1>1, <1>4, <2>1 DEF RInv, Built, Renewed
<1>7. Recorded' /\ InTime'
  BY <1>2, <1>4, RecordsKept DEF RInv
<1>8. Untouched'
  BY <1>4 DEF Untouched
<1>9. server.state = "offering" /\ Negotiates /\ caller = setup.legs
  BY <1>5 DEF Offering
<1>10. Over' /\ Underway'
  <2>1. CASE outcome' = "running" /\ wire' = ToServer(next)
    <3>1. next = Wrap("c", ContextOf(sasl), answer)'
      BY <1>4, SameSasl DEF next, Wrap
    <3>2. wire' = ToServer(Wrap("c", ContextOf(sasl), answer))'
      BY <2>1, <3>1 DEF ToServer
    <3>3. Toward'
      BY <1>2, <1>4, <1>9, <3>2 DEF Toward
    <3> QED BY <2>1, <3>3 DEF Over, Underway
  <2>2. CASE outcome' = "failed" /\ wire' = Quiet
    BY <2>2 DEF Over, Underway
  <2> QED BY <1>4, <2>1, <2>2 DEF Sends
<1>11. Offering'
  BY <1>1, <1>4, <1>5, SameSasl DEF Offering
<1>12. Serving' /\ Phases'
  BY <1>1, <1>2, <1>4, <1>9, <1>11, SameSasl DEF Serving, Phases
<1>13. Trust'
  <2>1. wire' # Success
    BY <1>4, Kindly DEF Sends
  <2>2. outcome' # "authenticated"
    BY <1>4 DEF Sends
  <2> QED BY <2>1, <2>2 DEF Trust, Success
<1> QED BY <1>6, <1>7, <1>8, <1>10, <1>12, <1>13 DEF RInv

LEMMA TakeSuccessKeeps == RInv /\ TakeSuccess => RInv'
<1> SUFFICES ASSUME RInv, TakeSuccess PROVE RInv'
  OBVIOUS
<1>1. /\ wire.to = "driver" /\ wire.kind = "success" /\ outcome = "running" /\ Resume(PeerDone)
      /\ outcome' = IF last'.reply.kind = "Ok" /\ caller = setup.legs
                       /\ (Negotiates => phase = "answered")
                    THEN "authenticated" ELSE "failed"
      /\ wire' = Quiet
      /\ UNCHANGED <<sasl, layervars, setup, caller, server, seen, used, clean>>
  BY DEF TakeSuccess, OnWire, Established
<1>2. /\ sasl' = sasl /\ setup' = setup /\ caller' = caller /\ server' = server /\ seen' = seen
      /\ used' = used /\ clean' = clean
      /\ phase' = phase /\ unwrapped' = unwrapped /\ offer' = offer /\ choice' = choice
      /\ answer' = answer
  BY <1>1 DEF layervars
<1>3. wire = Success
  <2>1. wire \notin seen
    <3>1. wire \in seen => \E b : wire = Challenge(b)
      BY DEF RInv, Recorded, Answers, TokenOf, OfferOf
    <3> QED BY <1>1, <3>1, Kindly
  <2>2. ~Toward
    BY <1>1, Kindly DEF Toward
  <2> QED BY <1>1, <2>1, <2>2, Kindly DEF RInv, Underway
<1>4. last'.reply # NoReply
  <2>1. sasl \in Sasls
    BY DEF RInv, Built
  <2> QED BY <1>1, <2>1, Passing DEF NoReply
<1>5. ~Denied
  BY <1>1, <1>3, Kindly DEF Denied
<1>6. Built'
  <2>1. LayerP!IInv'
    BY <1>1, LayerMoves, Zenon DEF RInv, Built
  <2> QED BY <1>2, <2>1 DEF RInv, Built, Renewed
<1>7. Recorded' /\ InTime'
  BY <1>2, RecordsKept DEF RInv
<1>8. Untouched' /\ Over' /\ Underway'
  BY <1>1, <1>4 DEF Untouched, Over, Underway
<1>9. Serving'
  BY <1>2, <1>5, ServingKept DEF RInv
<1>10. Phases'
  BY <1>2, SameSasl DEF RInv, Phases
<1>11. Trust'
  <2>1. setup.legs \in 1..3
    BY LegsNumbered DEF RInv
  <2>2. outcome' = "authenticated" => caller = setup.legs
    BY <1>1
  <2>3. outcome' = "authenticated" => server.state \in {"stepping", "offering", "accepted"}
    BY <1>5, <2>1, <2>2, Kindly DEF RInv, Serving, Stepping, Offering, Accepted
  <2>4. clean => server.state = "accepted"
    BY <1>3 DEF RInv, Trust
  <2>5. wire' # Success
    BY <1>1, Kindly
  <2> QED BY <1>2, <2>3, <2>4, <2>5 DEF Trust, Success
<1> QED BY <1>6, <1>7, <1>8, <1>9, <1>10, <1>11 DEF RInv

LEMMA DriverKeeps == RInv /\ Driver => RInv'
<1>1. RInv /\ TakeRefusal => RInv'
  BY Ending DEF TakeRefusal
<1> QED BY <1>1, BeginKeeps, StepContextKeeps, UnwrapKeeps, GivingUpKeeps, ChooseKeeps,
           WrapAnswerKeeps, TakeSuccessKeeps, Zenon DEF Driver
----
(***************************************************************************)
(* The server's steps, on the message it waits for.                        *)
(***************************************************************************)
LEMMA Arrivals ==
    ASSUME RInv, Arrived
    PROVE  /\ outcome = "running" /\ last.reply # NoReply
           /\ \/ /\ server = Idle /\ caller = 0 /\ phase = "offered"
                 /\ wire = ToServer(FirstMessage)
              \/ /\ Stepping /\ caller = server.taken /\ phase = "offered"
                 /\ wire = ToServer(NextToken)
              \/ /\ Offering /\ phase = "answered"
                 /\ wire = ToServer(Wrap("c", ContextOf(sasl), answer))
<1>1. wire.to = "server"
  BY DEF Arrived
<1>2. outcome = "running" /\ last.reply # NoReply
  BY <1>1, Kindly DEF RInv, Over, Untouched
<1>3. wire \notin {Quiet, Success, Refusal}
  BY <1>1, Kindly
<1>4. wire \notin seen
  <2>1. wire \in seen => \E b : wire = Challenge(b)
    BY DEF RInv, Recorded, Answers, TokenOf, OfferOf
  <2> QED BY <1>1, <2>1, Kindly
<1>5. Toward
  BY <1>3, <1>4 DEF RInv, Underway
<1>6. CASE server = Idle /\ wire = ToServer(FirstMessage)
  <2>1. server.state = "idle"
    BY <1>6, Kindly
  <2>2. phase = "offered"
    BY <2>1 DEF RInv, Phases
  <2>3. caller = 0
    BY <2>1 DEF RInv, Serving, Stepping, Offering, Accepted, Denied
  <2> QED BY <1>2, <1>6, <2>2, <2>3
<1>7. CASE server.state = "stepping" /\ caller = server.taken /\ wire = ToServer(NextToken)
  <2>1. phase = "offered"
    BY <1>7 DEF RInv, Phases
  <2>2. Stepping
    BY <1>7, Kindly DEF RInv, Serving, Offering, Accepted, Denied
  <2> QED BY <1>2, <1>7, <2>1, <2>2
<1>8. CASE /\ server.state = "offering" /\ phase = "answered"
           /\ wire = ToServer(Wrap("c", ContextOf(sasl), answer))
  <2>1. Offering
    BY <1>8, Kindly DEF RInv, Serving, Stepping, Accepted, Denied
  <2> QED BY <1>2, <1>8, <2>1
<1> QED BY <1>5, <1>6, <1>7, <1>8 DEF Toward

\* What does not change when the server answers.
LEMMA Saying ==
    ASSUME RInv, Arrived, NEW m, Say(m)
    PROVE  /\ wire' = m /\ outcome' = "running" /\ Over'
           /\ UNCHANGED <<sasl, setup, caller, used, phase, unwrapped, offer, choice, answer>>
           /\ Built' /\ Untouched'
           /\ seen' = IF m.kind = "challenge" THEN seen \cup {m} ELSE seen
<1>1. /\ wire' = m /\ seen' = IF m.kind = "challenge" THEN seen \cup {m} ELSE seen
      /\ UNCHANGED <<vars, layervars, setup, caller, outcome, used>>
  BY DEF Say
<1>2. /\ sasl' = sasl /\ last' = last /\ setup' = setup /\ caller' = caller
      /\ used' = used /\ phase' = phase /\ unwrapped' = unwrapped
      /\ offer' = offer /\ choice' = choice /\ answer' = answer /\ outcome' = outcome
  BY <1>1 DEF vars, layervars
<1>3. outcome = "running" /\ last.reply # NoReply
  BY Arrivals, Zenon
<1>4. Built'
  <2>1. LayerP!IInv'
    BY <1>1, LayerMoves, Zenon DEF RInv, Built
  <2> QED BY <1>2, <2>1 DEF RInv, Built, Renewed
<1>5. Over' /\ Untouched'
  BY <1>2, <1>3 DEF Over, Untouched
<1> QED BY <1>1, <1>2, <1>3, <1>4, <1>5

LEMMA DenyKeeps ==
    ASSUME RInv, Arrived, Deny("refused")
    PROVE  RInv'
<1>1. server' = [state |-> "refused"] /\ Say(Refusal)
  BY DEF Deny
<1>2. server'.state = "refused"
  BY <1>1
<1>3. /\ wire' = Refusal /\ outcome' = "running" /\ seen' = seen
      /\ UNCHANGED <<sasl, setup, caller, used, phase, unwrapped, offer, choice, answer>>
      /\ Built' /\ Untouched' /\ Over'
  BY <1>1, Saying, Kindly
<1>4. Recorded'
  BY <1>3, AnswersKept DEF RInv, Recorded
<1>5. InTime'
  BY <1>2 DEF InTime
<1>6. Underway' /\ Serving'
  BY <1>2, <1>3 DEF Underway, Serving, Denied, Refusal
<1>7. Phases'
  <2>1. phase # "offered" => phase = "answered" /\ Negotiates /\ caller = setup.legs
    BY Arrivals DEF RInv, Phases
  <2> QED BY <1>2, <1>3, <2>1, SameSasl DEF Phases
<1>8. Trust'
  BY <1>3, Kindly DEF Trust, Success
<1> QED BY <1>3, <1>4, <1>5, <1>6, <1>7, <1>8 DEF RInv

\* A challenge of the current context, recorded.
LEMMA ChallengeRecorded ==
    ASSUME RInv, Arrived, NEW m \in Answers(sasl), Say(m)
    PROVE  seen' = seen \cup {m} /\ Recorded' /\ Underway'
<1>1. m.kind = "challenge"
  BY Kindly DEF Answers, TokenOf, OfferOf
<1>2. /\ wire' = m /\ seen' = seen \cup {m}
      /\ UNCHANGED <<sasl, setup, used, unwrapped>>
  BY <1>1, Saying
<1>3. \A s : Answers(s)' = Answers(s)
  BY <1>2, AnswersKept
<1>4. sasl \in used
  BY DEF RInv, Built
<1>5. ASSUME NEW n \in seen' PROVE \E s \in used' : n \in Answers(s)'
  <2>1. CASE n = m
    BY <1>2, <1>3, <1>4, <2>1
  <2>2. CASE n \in seen
    BY <1>2, <1>3, <2>2 DEF RInv, Recorded
  <2> QED BY <1>2, <2>1, <2>2
<1>6. Recorded'
  BY <1>5 DEF Recorded
<1>7. Underway'
  BY <1>2 DEF Underway
<1> QED BY <1>2, <1>6, <1>7

LEMMA TakeKeeps ==
    ASSUME RInv, Arrived, NEW leg \in 1..setup.legs, NEW header,
           \/ server = Idle /\ leg = 1
           \/ server.state = "stepping" /\ server.taken = leg - 1,
           caller = leg - 1,
           Take(Token("c", leg, ContextOf(sasl)), leg, ContextOf(sasl), header),
           ~Negotiates => header = Header(sasl.creds.binding, sasl.creds.authzid)
    PROVE  RInv'
<1> DEFINE m == TokenOf(sasl, leg)
<1>1. /\ server' = [state |-> "stepping", taken |-> leg, context |-> ContextOf(sasl),
                    header |-> header]
      /\ Say(m)
  BY DEF Take, TokenOf
<1>2. /\ server'.state = "stepping" /\ server'.taken = leg /\ server'.context = ContextOf(sasl)
      /\ server'.header = header
  BY <1>1
<1>3. m \in Answers(sasl)
  BY DEF Answers
<1> HIDE DEF m
<1>4. /\ wire' = m /\ outcome' = "running"
      /\ UNCHANGED <<sasl, setup, caller, used, phase, unwrapped, offer, choice, answer>>
      /\ Built' /\ Untouched' /\ Over'
  BY <1>1, Saying, Zenon
<1>5. seen' = seen \cup {m} /\ Recorded' /\ Underway'
  BY <1>1, <1>3, ChallengeRecorded, Zenon
<1>6. sasl \in Sasls /\ unwrapped \in Seq(Signs)
  BY UnwrappedSigns DEF RInv, Built
<1>7. setup.legs \in 1..3 /\ 1..setup.legs \subseteq DOMAIN Numeral
  BY LegsNumbered DEF RInv
<1>8. \A l : TokenOf(sasl, l)' = TokenOf(sasl, l)
  BY <1>4 DEF TokenOf, Challenge, Token, ContextOf
<1>9. OfferOf(sasl)' = OfferOf(sasl)
  BY <1>4 DEF OfferOf, Challenge, Wrap, ContextOf
<1>10. ASSUME NEW l \in 1..setup.legs, TokenOf(sasl, l) \in seen' PROVE l <= leg
  <2>1. CASE TokenOf(sasl, l) \in seen
    <3>1. server.state # "idle" /\ (server.state = "stepping" => l <= server.taken)
      BY <2>1 DEF RInv, InTime
    <3> QED BY <1>7, <3>1, Kindly
  <2>2. CASE TokenOf(sasl, l) = m
    BY <1>6, <1>7, <2>2, MessagesDiffer DEF m
  <2> QED BY <1>5, <1>10, <2>1, <2>2
<1>11. OfferOf(sasl) \notin seen'
  <2>1. OfferOf(sasl) # m
    BY <1>6, <1>7, MessagesDiffer DEF m
  <2>2. OfferOf(sasl) \notin seen
    BY Kindly DEF RInv, InTime
  <2> QED BY <1>5, <2>1, <2>2
<1>12. InTime'
  BY <1>2, <1>4, <1>8, <1>9, <1>10, <1>11 DEF InTime
<1>13. phase = "offered"
  BY Kindly DEF RInv, Phases
<1>14. Stepping'
  <2>1. (Header(sasl.creds.binding, sasl.creds.authzid))' = Header(sasl.creds.binding, sasl.creds.authzid)
    BY <1>4 DEF Header, Escape
  <2>2. ~Negotiates => Headlined'
    BY <1>2, <2>1 DEF Headlined
  <2>3. caller' \in {leg - 1, leg}
    BY <1>4
  <2> QED BY <1>1, <1>2, <1>4, <2>2, <2>3, SameSasl DEF Stepping
<1>15. Serving' /\ Phases'
  BY <1>4, <1>13, <1>14 DEF Serving, Phases
<1>16. Trust'
  <2>1. m # Success
    BY Kindly DEF m, TokenOf
  <2> QED BY <1>4, <2>1 DEF Trust, Success
<1> QED BY <1>4, <1>5, <1>12, <1>15, <1>16 DEF RInv

LEMMA SameHeaders ==
    \A b, d \in Bindings : \A a, e \in Identities : \A s, t \in Seq(Tokens) :
       Headed(b, a, s) = Headed(d, e, t) => a = e /\ Header(b, a) = Header(d, e)
<1> SUFFICES ASSUME NEW b \in Bindings, NEW d \in Bindings, NEW a \in Identities, NEW e \in Identities,
                    NEW s \in Seq(Tokens), NEW t \in Seq(Tokens),
                    Headed(b, a, s) = Headed(d, e, t)
             PROVE  a = e /\ Header(b, a) = Header(d, e)
  OBVIOUS
<1>1. Flag(b) = Flag(d) /\ a = e /\ s = t
  BY HeaderReadsBack, SMTT(30)
<1> QED BY <1>1, Zenon DEF Header

\* Behind the header of another flag or another identity, the first token is refused: the
\* channel its context is bound to begins with the header it was made for.
LEMMA ReadFirstKeeps ==
    ASSUME RInv, NEW header, NEW token, ReadFirst(header, token), token = sasl.creds.token,
           ~Negotiates => \E b \in Bindings, n \in Identities : header = Header(b, n)
    PROVE  RInv'
<1> DEFINE own == Header(sasl.creds.binding, sasl.creds.authzid)
           bound == header \o (IF header # <<>> /\ header[1] = "p" THEN setup.material ELSE <<>>)
           context == SubSeq(token, 3, Len(token))
           fresh == \A m \in seen : m.bytes[3] # context[1]
           suitable == /\ header # <<>> => Suits(header[1])
                       /\ context # <<>> /\ fresh /\ Tail(context) = bound
<1>1. Arrived /\ server = Idle
  BY DEF ReadFirst
<1>2. context = ContextOf(sasl)
  BY DEF ContextOf
<1>3. \/ suitable /\ Take(token, 1, ContextOf(sasl), header)
      \/ Deny("refused")
  <2>1. IF suitable THEN Take(token, 1, context, header) ELSE Deny("refused")
    BY DEF ReadFirst
  <2> HIDE DEF suitable, context
  <2> QED BY <1>2, <2>1
<1>4. /\ sasl \in Sasls /\ setup.material \in Seq(Tokens) /\ setup.legs \in 1..3
      /\ Materials \subseteq Seq(Tokens)
  <2>1. Materials \subseteq Seq(Tokens)
    BY RelayAssumption, TextTokens
  <2> QED BY <2>1, LegsNumbered DEF RInv, Built
<1>5. ASSUME suitable, ~Negotiates PROVE header = own
  <2>1. PICK b \in Bindings, n \in Identities : header = Header(b, n)
    BY <1>5
  <2>2. sasl.variant = "Gs2Krb5"
    BY <1>4, <1>5, NegotiatesGssapi, SaslShape
  <2> DEFINE c == sasl.creds
             x == IF header # <<>> /\ header[1] = "p" THEN setup.material ELSE <<>>
             y == IF IsBound(c.binding) THEN c.binding.data ELSE <<>>
  <2>3. c.authzid \in Identities /\ c.binding \in Bindings
    BY <1>4, <2>2, SaslShape
  <2>4. Tail(ContextOf(sasl)) = Header(c.binding, c.authzid) \o y
    BY <1>4, <2>2, RelayAssumption DEF Channel, CbindInput
  <2>5. Tail(ContextOf(sasl)) = header \o x
    BY <1>2, <1>5, Zenon
  <2>6. x \in Seq(Tokens) /\ y \in Seq(Tokens)
    <3>1. <<>> \in Seq(Tokens)
      BY EmptySeq
    <3>2. IsBound(c.binding) => c.binding.data \in Seq(Tokens)
      BY <1>4, <2>3, BindingShape
    <3> HIDE DEF Tokens
    <3> QED BY <1>4, <3>1, <3>2
  <2> HIDE DEF x, y, c
  <2>7. Headed(b, n, x) = Headed(c.binding, c.authzid, y)
    BY <2>1, <2>4, <2>5, Zenon DEF Headed
  <2>8. Header(b, n) = Header(c.binding, c.authzid)
    BY <2>3, <2>6, <2>7, SameHeaders
  <2> QED BY <2>1, <2>8 DEF c
<1>6. CASE Deny("refused")
  BY <1>1, <1>6, DenyKeeps
<1>7. CASE suitable /\ Take(token, 1, ContextOf(sasl), header)
  <2>1. token = Token("c", 1, ContextOf(sasl))
    BY <1>4, ContextShape
  <2>2. Take(Token("c", 1, ContextOf(sasl)), 1, ContextOf(sasl), header)
    BY <1>7, <2>1, Zenon
  <2>3. 1 \in 1..setup.legs /\ caller = 1 - 1
    BY <1>1, <1>4, Arrivals, Kindly DEF Stepping, Offering
  <2>4. ~Negotiates => header = own
    BY <1>5, <1>7
  <2> HIDE DEF suitable
  <2> QED BY <1>1, <2>2, <2>3, <2>4, TakeKeeps
<1> HIDE DEF suitable
<1> QED BY <1>3, <1>6, <1>7

LEMMA OpenKeeps == RInv /\ Open => RInv'
<1> SUFFICES ASSUME RInv, Open PROVE RInv'
  OBVIOUS
<1> DEFINE bytes == wire.bytes
           cut == IF Negotiates THEN 0 ELSE HeaderLength(bytes)
           header == SubSeq(bytes, 1, cut)
           token == SubSeq(bytes, cut + 1, Len(bytes))
<1>1. ReadFirst(header, token)
  BY DEF Open
<1>2. Arrived /\ server = Idle
  BY <1>1 DEF ReadFirst
<1>3. sasl \in Sasls /\ sasl.creds.token \in Seq(Tokens)
  <2>1. sasl \in Sasls
    BY DEF RInv, Built
  <2> QED BY <2>1, SaslShape, TextTokens
<1>4. bytes = FirstMessage
  BY <1>2, Arrivals, Kindly DEF Stepping, Offering
<1> HIDE DEF bytes
<1>5. CASE Negotiates
  <2>1. bytes = sasl.creds.token
    BY <1>4, <1>5 DEF FirstMessage
  <2>2. token = sasl.creds.token
    <3>1. token = SubSeq(bytes, 1, Len(bytes))
      BY <1>5
    <3> QED BY <1>3, <2>1, <3>1, SubSeqFull, Zenon
  <2> HIDE DEF header, token
  <2> QED BY <1>1, <1>5, <2>2, ReadFirstKeeps
<1>6. CASE ~Negotiates
  <2> DEFINE b == sasl.creds.binding
             a == sasl.creds.authzid
  <2>1. bytes = Headed(b, a, sasl.creds.token)
    BY <1>4, <1>6 DEF FirstMessage
  <2>2. a \in Identities /\ b \in Bindings
    BY <1>3, <1>6, NegotiatesGssapi, SaslShape
  <2>3. /\ header = SubSeq(bytes, 1, HeaderLength(bytes))
        /\ token = SubSeq(bytes, HeaderLength(bytes) + 1, Len(bytes))
    BY <1>6
  <2> HIDE DEF a, b, header, token
  <2>4. header = Header(b, a) /\ token = sasl.creds.token
    BY <1>3, <2>1, <2>2, <2>3, HeaderCut, Zenon
  <2> QED BY <1>1, <2>2, <2>4, ReadFirstKeeps
<1> QED BY <1>5, <1>6

LEMMA RewriteHeaderKeeps == RInv /\ server = Idle /\ RewriteHeader => RInv'
<1> SUFFICES ASSUME RInv, server = Idle, RewriteHeader PROVE RInv'
  OBVIOUS
<1> DEFINE bytes == wire.bytes
           token == SubSeq(bytes, HeaderLength(bytes) + 1, Len(bytes))
<1>1. PICK b \in Bindings, n \in GrantedNames \cup {NoAuthzid} : ReadFirst(Header(b, n), token)
  BY DEF RewriteHeader
<1>2. Arrived /\ ~Negotiates
  BY <1>1 DEF ReadFirst, RewriteHeader
<1>3. sasl \in Sasls /\ sasl.creds.token \in Seq(Tokens)
  <2>1. sasl \in Sasls
    BY DEF RInv, Built
  <2> QED BY <2>1, SaslShape, TextTokens
<1>4. bytes = FirstMessage
  BY <1>2, Arrivals, Kindly DEF Stepping, Offering
<1>5. bytes = Headed(sasl.creds.binding, sasl.creds.authzid, sasl.creds.token)
  BY <1>2, <1>4 DEF FirstMessage
<1>6. sasl.creds.authzid \in Identities /\ sasl.creds.binding \in Bindings
  BY <1>2, <1>3, NegotiatesGssapi, SaslShape
<1>7. n \in Identities
  BY RelayAssumption, TextTokens DEF Identities
<1> HIDE DEF bytes
<1>8. token = sasl.creds.token
  BY <1>3, <1>5, <1>6, HeaderCut, ZenonT(30)
<1> HIDE DEF token
<1> QED BY <1>1, <1>7, <1>8, ReadFirstKeeps

LEMMA StepKeeps == RInv /\ Step => RInv'
<1> SUFFICES ASSUME RInv, Step PROVE RInv'
  OBVIOUS
<1>1. /\ Arrived /\ server.state = "stepping" /\ server.taken < setup.legs
      /\ Take(wire.bytes, server.taken + 1, server.context, server.header)
  BY DEF Step
<1>2. Stepping /\ caller = server.taken /\ wire = ToServer(NextToken)
  BY <1>1, Arrivals, Kindly DEF Offering
<1> DEFINE leg == server.taken + 1
<1>3. setup.legs \in 1..3 /\ server.taken \in 1..setup.legs
  BY <1>2, LegsNumbered DEF RInv, Stepping
<1>4. leg \in 1..setup.legs /\ caller = leg - 1 /\ server.taken = leg - 1
  BY <1>1, <1>2, <1>3
<1>5. wire.bytes = Token("c", leg, ContextOf(sasl))
  <2>1. wire.bytes = NextToken /\ caller # setup.legs
    BY <1>1, <1>2, <1>3, Kindly
  <2> QED BY <1>2, <2>1 DEF NextToken
<1>6. server.context = ContextOf(sasl)
  BY <1>2 DEF Stepping
<1>7. ~Negotiates => server.header = Header(sasl.creds.binding, sasl.creds.authzid)
  BY <1>2 DEF Stepping, Headlined
<1>8. Take(Token("c", leg, ContextOf(sasl)), leg, ContextOf(sasl), server.header)
  BY <1>1, <1>5, <1>6
<1> HIDE DEF leg
<1> QED BY <1>1, <1>4, <1>7, <1>8, TakeKeeps

\* A server that grants has read what the application meant.
LEMMA GrantKeeps ==
    ASSUME RInv, Arrived, NEW identity, NEW layer, NEW size, Grant(identity, layer, size),
           caller = setup.legs,
           IF Negotiates
           THEN /\ phase = "answered" /\ identity = choice.authzid
                /\ layer = choice.layer /\ choice.layer \in offer.layers
                /\ \/ size = choice.max_message_size
                   \/ size = Layer!Largest /\ Layer!Largest < choice.max_message_size
           ELSE identity = sasl.creds.authzid /\ Headlined
    PROVE  RInv'
<1>1. /\ server' = [state |-> "accepted", header |-> server.header, identity |-> identity,
                    layer |-> layer, size |-> size]
      /\ Say(Success)
  BY DEF Grant
<1>2. /\ server'.state = "accepted" /\ server'.header = server.header
      /\ server'.identity = identity /\ server'.layer = layer /\ server'.size = size
  BY <1>1
<1>3. /\ wire' = Success /\ outcome' = "running" /\ seen' = seen
      /\ UNCHANGED <<sasl, setup, caller, used, phase, unwrapped, offer, choice, answer>>
      /\ Built' /\ Untouched' /\ Over'
  BY <1>1, Saying, Kindly
<1>4. Recorded'
  BY <1>3, AnswersKept DEF RInv, Recorded
<1>5. InTime'
  BY <1>2 DEF InTime
<1>6. Underway'
  BY <1>3 DEF Underway, Success
<1>7. Accepted'
  <2>1. Headlined => Headlined'
    BY <1>2, <1>3 DEF Headlined, Header, Escape
  <2>2. Layer!Largest' = Layer!Largest
    BY DEF Layer!Largest
  <2>3. Negotiates => LayerAgreed'
    BY <1>2, <1>3, <2>2 DEF LayerAgreed
  <2> QED BY <1>2, <1>3, <2>1, <2>3, SameSasl DEF Accepted
<1>8. Serving'
  BY <1>7 DEF Serving
<1>9. Phases'
  BY <1>2, <1>3, SameSasl DEF RInv, Phases
<1>10. Trust'
  BY <1>2, <1>3 DEF Trust
<1> QED BY <1>3, <1>4, <1>5, <1>6, <1>8, <1>9, <1>10 DEF RInv

\* The offer the server makes once its context is established.
LEMMA OfferKeeps ==
    ASSUME RInv, Arrived, Stepping, caller = setup.legs, phase = "offered", Negotiates,
           server' = [server EXCEPT !.state = "offering"],
           Say(Challenge(Wrap("s", server.context, unwrapped)))
    PROVE  RInv'
<1> DEFINE m == OfferOf(sasl)
<1>1. server.context = ContextOf(sasl)
  BY DEF Stepping
<1>2. Say(m)
  BY <1>1 DEF OfferOf
<1>3. m \in Answers(sasl)
  BY DEF Answers
<1> HIDE DEF m
<1>4. /\ wire' = m /\ outcome' = "running"
      /\ UNCHANGED <<sasl, setup, caller, used, phase, unwrapped, offer, choice, answer>>
      /\ Built' /\ Untouched' /\ Over'
  BY <1>2, Saying, Zenon
<1>5. Recorded' /\ Underway'
  BY <1>2, <1>3, ChallengeRecorded, Zenon
<1>6. server' = [state |-> "offering", taken |-> server.taken, context |-> ContextOf(sasl),
                 header |-> server.header]
  BY DEF Stepping
<1>7. Offering'
  <2>1. server'.taken = server.taken /\ server'.header = server.header
    BY <1>6
  <2> QED BY <1>4, <1>6, <2>1, SameSasl DEF Offering
<1>8. server'.state = "offering"
  BY <1>6
<1>9. InTime'
  BY <1>8 DEF InTime
<1>10. Serving' /\ Phases'
  BY <1>4, <1>7 DEF Serving, Phases
<1>11. Trust'
  <2>1. m # Success
    BY Kindly DEF m, OfferOf
  <2> QED BY <1>4, <2>1 DEF Trust, Success
<1> QED BY <1>4, <1>5, <1>9, <1>10, <1>11 DEF RInv

LEMMA SettleKeeps == RInv /\ Settle => RInv'
<1> SUFFICES ASSUME RInv, Settle PROVE RInv'
  OBVIOUS
<1>1. Arrived /\ server.state = "stepping" /\ server.taken = setup.legs
  BY DEF Settle
<1>2. Stepping /\ caller = server.taken /\ phase = "offered" /\ wire = ToServer(NextToken)
  BY <1>1, Arrivals, Kindly DEF Offering
<1>3. wire.bytes = <<>>
  BY <1>1, <1>2, Kindly DEF NextToken
<1>4. CASE Negotiates
  <2>1. /\ server' = [server EXCEPT !.state = "offering"]
        /\ Say(Challenge(Wrap("s", server.context, unwrapped)))
    BY <1>3, <1>4 DEF Settle
  <2> QED BY <1>1, <1>2, <1>4, <2>1, OfferKeeps
<1>5. CASE ~Negotiates /\ NamedBy(server.header) = {}
  <2>1. Deny("refused")
    BY <1>3, <1>5 DEF Settle
  <2> QED BY <1>1, <2>1, DenyKeeps
<1>6. CASE ~Negotiates /\ NamedBy(server.header) # {}
  <2>1. PICK n \in NamedBy(server.header) : Grant(n, "None", 0)
    BY <1>3, <1>6 DEF Settle
  <2>2. PICK b \in Bindings : n \in GrantedNames \cup {NoAuthzid} /\ server.header = Header(b, n)
    BY DEF NamedBy
  <2>3. Headlined
    BY <1>2, <1>6 DEF Stepping
  <2>4. n = sasl.creds.authzid
    <3> DEFINE d == sasl.creds.binding
               e == sasl.creds.authzid
               none == <<>>
    <3>1. sasl \in Sasls
      BY DEF RInv, Built
    <3>2. d \in Bindings /\ e \in Identities
      BY <1>6, <3>1, NegotiatesGssapi, SaslShape
    <3>3. n \in Identities
      BY <2>2, RelayAssumption, TextTokens DEF Identities
    <3>4. none \in Seq(Tokens)
      BY EmptySeq
    <3>5. Header(b, n) = Header(d, e)
      BY <2>2, <2>3 DEF Headlined
    <3> HIDE DEF d, e, none
    <3>6. Headed(b, n, none) = Headed(d, e, none)
      BY <3>5, Zenon DEF Headed
    <3>7. n = e
      BY <3>2, <3>3, <3>4, <3>6, SameHeaders
    <3> QED BY <3>7 DEF e
  <2> QED BY <1>1, <1>2, <1>6, <2>1, <2>3, <2>4, GrantKeeps
<1> QED BY <1>4, <1>5, <1>6

LEMMA ReadAnswerKeeps == RInv /\ ReadAnswer => RInv'
<1> SUFFICES ASSUME RInv, ReadAnswer PROVE RInv'
  OBVIOUS
<1>1. Arrived /\ server.state = "offering"
  BY DEF ReadAnswer
<1>2. /\ Offering /\ phase = "answered"
      /\ wire = ToServer(Wrap("c", ContextOf(sasl), answer))
  BY <1>1, Arrivals, Kindly DEF Stepping
<1>3. Negotiates /\ caller = setup.legs /\ server.context = ContextOf(sasl)
  BY <1>2 DEF Offering
<1> DEFINE octets == SubSeq(wire.bytes, 4, Len(wire.bytes))
           heard == Layer!Parse(octets)
           identity == SubSeq(octets, 5, Len(octets))
<1>4. wire.bytes = Wrap("c", ContextOf(sasl), answer)
  BY <1>2, Kindly
<1>5. sasl \in Sasls /\ LayerP!IInv
  BY DEF RInv, Built
<1>6. answer \in Seq(Signs)
  BY <1>2, <1>5, AnswerHeard
<1>7. SubSeq(wire.bytes, 1, 3) = Wrap("c", ContextOf(sasl), <<>>) /\ octets = answer
  <2> DEFINE context == ContextOf(sasl)
  <2>1. context[1] \in Signs /\ "c" \in Signs
    BY <1>5, ContextShape, SignsHold
  <2> HIDE DEF context
  <2>2. /\ SubSeq(Wrap("c", context, answer), 1, 3) = Wrap("c", context, <<>>)
        /\ SubSeq(Wrap("c", context, answer), 4, Len(Wrap("c", context, answer))) = answer
    BY <1>6, <2>1, WrapShape, Zenon
  <2> QED BY <1>4, <2>2 DEF context
<1>8. /\ heard.layers = {choice.layer} /\ choice.layer \in offer.layers
      /\ \/ heard.max_message_size = choice.max_message_size
         \/ heard.max_message_size = Layer!Largest /\ Layer!Largest < choice.max_message_size
      /\ identity = choice.authzid
  BY <1>2, <1>5, <1>7, AnswerHeard
<1>9. \/ \E layer \in heard.layers : Grant(identity, layer, heard.max_message_size)
      \/ Deny("refused")
  BY <1>3, <1>7 DEF ReadAnswer
<1> HIDE DEF heard, identity
<1>10. CASE Deny("refused")
  BY <1>1, <1>10, DenyKeeps
<1>11. CASE \E layer \in heard.layers : Grant(identity, layer, heard.max_message_size)
  <2>1. PICK layer \in heard.layers : Grant(identity, layer, heard.max_message_size)
    BY <1>11
  <2>2. layer = choice.layer
    BY <1>8
  <2> DEFINE size == heard.max_message_size
  <2>3. \/ size = choice.max_message_size
        \/ size = Layer!Largest /\ Layer!Largest < choice.max_message_size
    BY <1>8
  <2>4. Grant(identity, layer, size)
    BY <2>1
  <2> HIDE DEF size
  <2> QED BY <1>1, <1>2, <1>3, <1>8, <2>2, <2>3, <2>4, GrantKeeps
<1> QED BY <1>9, <1>10, <1>11

LEMMA ServerKeeps == RInv /\ Server => RInv'
BY OpenKeeps, StepKeeps, SettleKeeps, ReadAnswerKeeps, Zenon DEF Server
----
(***************************************************************************)
(* What the wire does instead, and the next exchange.                      *)
(***************************************************************************)
LEMMA StrayKeeps == RInv /\ Stray => RInv'
<1> SUFFICES ASSUME RInv, Stray PROVE RInv'
  OBVIOUS
<1>1. /\ Arrived /\ wire' \in seen \cup {Success} /\ clean' = FALSE
      /\ UNCHANGED <<vars, layervars, setup, caller, outcome, server, seen, used>>
  BY DEF Stray
<1>2. /\ sasl' = sasl /\ creds' = creds /\ last' = last /\ setup' = setup /\ caller' = caller
      /\ server' = server /\ seen' = seen /\ used' = used /\ outcome' = outcome
      /\ phase' = phase /\ unwrapped' = unwrapped /\ offer' = offer /\ choice' = choice
      /\ answer' = answer
  BY <1>1 DEF vars, layervars
<1>3. outcome = "running" /\ last.reply # NoReply
  BY <1>1, Arrivals, Zenon
<1>4. ~Denied
  BY <1>1, <1>3, Kindly DEF Denied, Arrived
<1>5. Built'
  <2>1. LayerP!IInv'
    BY <1>1, LayerMoves, Zenon DEF RInv, Built
  <2> QED BY <1>2, <2>1 DEF RInv, Built, Renewed
<1>6. Untouched' /\ Over'
  BY <1>2, <1>3 DEF Untouched, Over
<1>7. Recorded' /\ InTime'
  BY <1>2, RecordsKept DEF RInv
<1>8. Underway'
  BY <1>1, <1>2 DEF Underway, Success
<1>9. Serving'
  BY <1>2, <1>4, ServingKept DEF RInv
<1>10. Phases'
  BY <1>2, SameSasl DEF RInv, Phases
<1>11. Trust'
  BY <1>1, <1>2, <1>3 DEF Trust
<1> QED BY <1>5, <1>6, <1>7, <1>8, <1>9, <1>10, <1>11 DEF RInv

LEMMA AbandonKeeps == RInv /\ Abandon => RInv'
BY Ending DEF Abandon

\* No challenge of an earlier exchange fits the context of the next.
LEMMA NothingYet ==
    ASSUME RInv, NEW s \in Sasls, s \notin used, Renewed(s) = Renewed(sasl)
    PROVE  /\ \A l \in 1..setup.legs : TokenOf(s, l) \notin seen
           /\ OfferOf(s) \notin seen
<1>1. unwrapped \in Seq(Signs) /\ 1..setup.legs \subseteq DOMAIN Numeral /\ used \subseteq Sasls
  BY UnwrappedSigns, LegsNumbered DEF RInv, Built
<1>2. ASSUME NEW t \in used, ContextOf(s)[1] = ContextOf(t)[1] PROVE FALSE
  <2>1. Renewed(t) = Renewed(s) /\ t \in Sasls
    BY <1>1 DEF RInv, Built
  <2>2. s = t
    BY <1>2, <2>1, ContextsDiffer
  <2> QED BY <2>2
<1>3. ASSUME NEW l \in 1..setup.legs, TokenOf(s, l) \in seen PROVE FALSE
  <2>1. PICK t \in used : TokenOf(s, l) \in Answers(t)
    BY <1>3 DEF RInv, Recorded
  <2>2. t \in Sasls /\ l \in DOMAIN Numeral
    BY <1>1
  <2>3. CASE \E k \in 1..setup.legs : TokenOf(s, l) = TokenOf(t, k)
    <3>1. PICK k \in 1..setup.legs : TokenOf(s, l) = TokenOf(t, k)
      BY <2>3
    <3>2. k \in DOMAIN Numeral
      BY <1>1
    <3>3. ContextOf(s) = ContextOf(t)
      BY <1>1, <2>2, <3>1, <3>2, MessagesDiffer, Zenon
    <3> QED BY <1>2, <3>3
  <2>4. CASE TokenOf(s, l) = OfferOf(t)
    BY <1>1, <2>2, <2>4, MessagesDiffer, Zenon
  <2> QED BY <2>1, <2>3, <2>4 DEF Answers
<1>4. ASSUME OfferOf(s) \in seen PROVE FALSE
  <2>1. PICK t \in used : OfferOf(s) \in Answers(t)
    BY <1>4 DEF RInv, Recorded
  <2>2. t \in Sasls
    BY <1>1
  <2>3. CASE \E k \in 1..setup.legs : OfferOf(s) = TokenOf(t, k)
    <3>1. PICK k \in 1..setup.legs : OfferOf(s) = TokenOf(t, k)
      BY <2>3
    <3>2. k \in DOMAIN Numeral
      BY <1>1
    <3> QED BY <1>1, <2>2, <3>1, <3>2, MessagesDiffer, Zenon
  <2>4. CASE OfferOf(s) = OfferOf(t)
    <3>1. ContextOf(s)[1] = ContextOf(t)[1]
      BY <1>1, <2>2, <2>4, MessagesDiffer, Zenon
    <3> QED BY <1>2, <3>1
  <2> QED BY <2>1, <2>3, <2>4 DEF Answers
<1> QED BY <1>3, <1>4

LEMMA RetryKeeps == RInv /\ Retry => RInv'
<1> SUFFICES ASSUME RInv, Retry PROVE RInv'
  OBVIOUS
<1>1. /\ sasl' \in Sasls /\ sasl' \notin used /\ Renewed(sasl') = Renewed(sasl)
      /\ used' = used \cup {sasl'} /\ creds' = sasl'.creds
      /\ phase' = "offered" /\ choice' = Layer!Nothing /\ answer' = Layer!Nothing
      /\ caller' = 0 /\ outcome' = "running" /\ wire' = Quiet /\ server' = Idle
      /\ setup' = setup /\ seen' = seen /\ unwrapped' = unwrapped
  BY DEF Retry
<1>2. setup.legs \in 1..3
  BY LegsNumbered DEF RInv
<1>3. Built'
  <2>1. LayerP!IInv'
    BY <1>1, LayerRenewed DEF RInv, Built
  <2>2. \A s \in used' : Renewed(s)' = Renewed(sasl)'
    BY <1>1 DEF RInv, Built, Renewed
  <2> QED BY <1>1, <1>2, <2>1, <2>2 DEF RInv, Built
<1>4. Untouched' /\ Over' /\ Underway'
  BY <1>1 DEF Untouched, Over, Underway, Quiet, Idle
<1>5. \A s : Answers(s)' = Answers(s)
  BY <1>1, AnswersKept
<1>6. Recorded'
  BY <1>1, <1>5 DEF RInv, Recorded
<1>7. InTime'
  <2> DEFINE s == sasl'
  <2>1. /\ \A l \in 1..setup.legs : TokenOf(s, l) \notin seen
        /\ OfferOf(s) \notin seen
    BY <1>1, NothingYet
  <2>2. \A l : TokenOf(sasl, l)' = TokenOf(s, l)
    BY DEF TokenOf, Challenge, Token, ContextOf
  <2>3. OfferOf(sasl)' = OfferOf(s)
    BY <1>1 DEF OfferOf, Challenge, Wrap, ContextOf
  <2> HIDE DEF s
  <2> QED BY <1>1, <2>1, <2>2, <2>3 DEF InTime
<1>8. Serving' /\ Phases'
  BY <1>1 DEF Serving, Phases, Idle
<1>9. Trust'
  BY <1>1, Kindly DEF Trust, Success
<1> QED BY <1>3, <1>4, <1>6, <1>7, <1>8, <1>9 DEF RInv

LEMMA RelayStepwise == RInv /\ [RelayNext]_relayvars => RInv'
<1> SUFFICES ASSUME RInv, [RelayNext]_relayvars PROVE RInv'
  OBVIOUS
<1>1. CASE UNCHANGED relayvars
  <2>1. /\ sasl' = sasl /\ creds' = creds /\ last' = last /\ setup' = setup /\ caller' = caller
        /\ server' = server /\ seen' = seen /\ used' = used /\ wire' = wire /\ outcome' = outcome
        /\ clean' = clean /\ UNCHANGED layervars
    BY <1>1 DEF relayvars, vars, peers
  <2>2. /\ phase' = phase /\ unwrapped' = unwrapped /\ offer' = offer /\ choice' = choice
        /\ answer' = answer
    BY <2>1 DEF layervars
  <2>3. Built'
    <3>1. LayerP!IInv'
      BY <2>1, LayerMoves, Zenon DEF RInv, Built
    <3> QED BY <2>1, <3>1 DEF RInv, Built, Renewed
  <2>4. Untouched' /\ Over'
    BY <2>1, <2>2 DEF RInv, Untouched, Over, Idle, Quiet
  <2>5. Recorded' /\ InTime'
    BY <2>1, <2>2, RecordsKept DEF RInv
  <2>6. Toward => Toward'
    <3>1. /\ NextToken' = NextToken /\ ContextOf(sasl)' = ContextOf(sasl)
          /\ FirstMessage' = FirstMessage
      BY <2>1, SameSasl DEF NextToken, Token
    <3> QED BY <2>1, <2>2, <3>1 DEF Toward, ToServer, Wrap, Idle
  <2>7. Underway'
    BY <2>1, <2>6 DEF RInv, Underway, Quiet, Success, Refusal
  <2>8. Serving'
    <3>1. Denied => Denied'
      BY <2>1 DEF Denied, Refusal
    <3> QED BY <2>1, <2>2, <3>1, ServingKept DEF RInv
  <2>9. Phases' /\ Trust'
    BY <2>1, <2>2, SameSasl DEF RInv, Phases, Trust, Success
  <2> QED BY <2>3, <2>4, <2>5, <2>7, <2>8, <2>9 DEF RInv
<1>2. CASE Rest
  BY <1>1, <1>2 DEF Rest
<1> QED BY <1>1, <1>2, DriverKeeps, ServerKeeps, RewriteHeaderKeeps, StrayKeeps, AbandonKeeps,
           RetryKeeps DEF RelayNext
----
(***************************************************************************)
(* The theorems.                                                           *)
(***************************************************************************)
\* Whatever the wire does, exchange after exchange: the two contexts are never more than
\* the token under way apart, every challenge that was ever sent is one of the contexts
\* the application built, the server has read the application's own header, and the
\* driver's word for the end of an exchange comes after the server's, or from the wire.
THEOREM RelayInvariance == RelaySpec => []RInv
<1>1. RelayInit => RInv
  BY RelayInitially
<1>2. RInv /\ [RelayNext]_relayvars => RInv'
  BY RelayStepwise
<1> QED BY <1>1, <1>2, PTL DEF RelaySpec

LEMMA NeverBroken == RInv => TokensInStep
BY Kindly DEF RInv, Serving, Stepping, Offering, Accepted, Denied, TokensInStep

\* What reaches the server's context is what the application's made, in order: nothing is
\* lost, repeated or added on the way through the coroutine, though the driver may be
\* handed an answer of an earlier exchange, or a success nobody sent, at any time.
THEOREM TokensKept == RelaySpec => []TokensInStep
<1>1. RInv => TokensInStep
  BY NeverBroken
<1> QED BY <1>1, RelayInvariance, PTL

LEMMA Agreeing == RInv => PeersAgree
<1> SUFFICES ASSUME RInv PROVE PeersAgree
  OBVIOUS
<1>1. ASSUME server.state = "accepted" PROVE Accepted
  BY <1>1, Kindly DEF RInv, Serving, Stepping, Offering, Denied
<1> QED BY <1>1 DEF RInv, Trust, Accepted, LayerAgreed, Headlined, PeersAgree

\* A server that accepts acts as whom the application asked for, over the channel and in
\* the layer it chose, though the wire may have rewritten the GS2 header or brought back
\* an old challenge; and an exchange that ends authenticated has had its context taken by
\* the server, who has accepted it if the wire kept its word.
THEOREM PeersAgreed == RelaySpec => []PeersAgree
<1>1. RInv => PeersAgree
  BY Agreeing
<1> QED BY <1>1, RelayInvariance, PTL
====
