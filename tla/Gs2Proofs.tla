---- MODULE Gs2Proofs ----
(***************************************************************************)
(* Lemmas about sequences of tokens, about the GS2 header and about a      *)
(* reader that splits a message at its separators, shared by the proofs    *)
(* about the mechanisms.  Where a definition is recursive the argument is  *)
(* by the least counterexample, there being one in every set of numbers    *)
(* that is not empty.                                                      *)
(***************************************************************************)
EXTENDS Gs2, Octets, Integers, SequenceTheorems, FiniteSetTheorems, WellFoundedInduction, TLAPS

LEMMA Least ==
    ASSUME NEW T, T \subseteq Nat, T # {}
    PROVE  \E x \in T : \A y \in T : x <= y
<1> DEFINE R == OpToRel(<, Nat)
<1>1. IsWellFoundedOn(R, Nat)
  BY NatLessThanWellFounded
<1>2. \A x, y \in Nat : y < x => <<y, x>> \in R
  BY DEF OpToRel
<1> HIDE DEF R
<1>3. PICK x \in T : \A y \in T : ~(<<y, x>> \in R)
  BY <1>1, WFMin
<1>4. \A y \in T : ~(y < x)
  BY <1>2, <1>3
<1> QED BY <1>4

\* Induction, for a set of numbers.
LEMMA Inductive ==
    ASSUME NEW T, 0 \in T, \A n \in Nat : n \in T => n + 1 \in T
    PROVE  Nat \subseteq T
<1> SUFFICES ASSUME Nat \ T # {} PROVE FALSE
  OBVIOUS
<1>1. PICK x \in Nat \ T : \A y \in Nat \ T : x <= y
  BY Least
<1>2. x # 0 /\ x - 1 \in Nat
  BY <1>1
<1>3. x - 1 \in T
  BY <1>1, <1>2
<1> QED BY <1>1, <1>2, <1>3

\* Induction on a sequence, from its front or from its back.
LEMMA SeqInductiveAppend ==
    ASSUME NEW S, NEW T, <<>> \in T, \A s \in Seq(S), e \in S : s \in T => Append(s, e) \in T
    PROVE  Seq(S) \subseteq T
<1> DEFINE N == {n \in Nat : \A s \in Seq(S) : Len(s) = n => s \in T}
<1>1. 0 \in N
  BY EmptySeq
<1>2. ASSUME NEW n \in Nat, n \in N PROVE n + 1 \in N
  <2> SUFFICES ASSUME NEW s \in Seq(S), Len(s) = n + 1 PROVE s \in T
    OBVIOUS
  <2>1. PICK t \in Seq(S), e \in S : s = Append(t, e)
    BY EmptySeq, SequenceEmptyOrAppend
  <2>2. Len(t) = n
    BY <2>1, AppendProperties, LenProperties
  <2> QED BY <1>2, <2>1, <2>2
<1>3. Nat \subseteq N
  <2> HIDE DEF N
  <2> QED BY <1>1, <1>2, Inductive
<1> QED BY <1>3, LenProperties

LEMMA SeqInductiveTail ==
    ASSUME NEW S, NEW T, <<>> \in T, \A s \in Seq(S) : s # <<>> /\ Tail(s) \in T => s \in T
    PROVE  Seq(S) \subseteq T
<1> DEFINE N == {n \in Nat : \A s \in Seq(S) : Len(s) = n => s \in T}
<1>1. 0 \in N
  BY EmptySeq
<1>2. ASSUME NEW n \in Nat, n \in N PROVE n + 1 \in N
  <2> SUFFICES ASSUME NEW s \in Seq(S), Len(s) = n + 1 PROVE s \in T
    OBVIOUS
  <2>1. s # <<>>
    BY EmptySeq
  <2>2. Tail(s) \in Seq(S) /\ Len(Tail(s)) = n
    BY <2>1, HeadTailProperties
  <2> QED BY <1>2, <2>1, <2>2
<1>3. Nat \subseteq N
  <2> HIDE DEF N
  <2> QED BY <1>1, <1>2, Inductive
<1> QED BY <1>3, LenProperties

LEMMA Tuples ==
    ASSUME NEW S, NEW x \in S, NEW y \in S, NEW z \in S
    PROVE  /\ <<x>> \in Seq(S) /\ Len(<<x>>) = 1 /\ <<x>>[1] = x
           /\ <<x, y>> \in Seq(S) /\ Len(<<x, y>>) = 2
           /\ <<x, y, z>> \in Seq(S) /\ Len(<<x, y, z>>) = 3 /\ <<x, y, z>>[1] = x
OBVIOUS

LEMMA Single ==
    ASSUME NEW S, NEW x \in S
    PROVE  <<x>> \in Seq(S) /\ Len(<<x>>) = 1 /\ Len(<<x>>) > 0 /\ <<x>>[1] = x
OBVIOUS

LEMMA ConcatFront ==
    ASSUME NEW S, NEW f \in Seq(S), NEW g \in Seq(S), NEW i \in 1..Len(f)
    PROVE  (f \o g)[i] = f[i]
<1>1. Len(f) \in Nat /\ Len(g) \in Nat
  BY LenProperties
<1>2. i \in 1..Len(f) + Len(g) /\ i <= Len(f)
  BY <1>1
<1> QED BY <1>2, ConcatProperties

LEMMA Opens ==
    ASSUME NEW S, NEW f \in Seq(S), Len(f) > 0, NEW g \in Seq(S)
    PROVE  /\ f \o g \in Seq(S)
           /\ Len(f \o g) = Len(f) + Len(g)
           /\ (f \o g)[1] = f[1]
<1>1. Len(f) \in Nat /\ Len(f) # 0 /\ Len(g) \in Nat
  BY LenProperties
<1>2. 1 \in 1..Len(f) + Len(g) /\ 1 <= Len(f)
  BY <1>1
<1> QED BY <1>2, ConcatProperties
----
(***************************************************************************)
(* FlattenSeq, by the equations of its recursive definition.               *)
(***************************************************************************)
Joined(x, y) == x \o y

\* Is g the function that lists the first n elements of s one after the other?
Flattens(g, s, n) == g = [i \in 1..n |-> IF i = 1 THEN s[i] ELSE Joined(g[i - 1], s[i])]

LEMMA FlattensAt ==
    ASSUME NEW s, NEW n \in Nat, NEW g, Flattens(g, s, n), NEW i \in 1..n
    PROVE  g[i] = IF i = 1 THEN s[i] ELSE Joined(g[i - 1], s[i])
BY DEF Flattens

LEMMA FlattensFrom ==
    ASSUME NEW s, NEW n \in Nat, NEW g, Flattens(g, s, n)
    PROVE  /\ n # 0 => g[1] = s[1]
           /\ \A i \in Nat : i + 2 <= n => g[i + 2] = Joined(g[i + 1], s[i + 2])
<1>1. n # 0 => g[1] = s[1]
  <2>1. n # 0 => 1 \in 1..n
    OBVIOUS
  <2> QED BY <2>1, FlattensAt
<1>2. ASSUME NEW i \in Nat, i + 2 <= n
      PROVE  g[i + 2] = Joined(g[i + 1], s[i + 2])
  <2>1. i + 2 \in 1..n /\ i + 2 # 1 /\ (i + 2) - 1 = i + 1
    BY <1>2
  <2>2. g[i + 2] = IF i + 2 = 1 THEN s[i + 2] ELSE Joined(g[(i + 2) - 1], s[i + 2])
    BY <2>1, FlattensAt
  <2> QED BY <2>1, <2>2
<1> QED BY <1>1, <1>2

LEMMA FlattensExists == ASSUME NEW s PROVE \A n \in Nat : \E g : Flattens(g, s, n)
<1> DEFINE T == {n \in Nat : \E g : Flattens(g, s, n)}
<1>1. 0 \in T
  <2>1. Flattens([i \in 1..0 |-> {}], s, 0)
    BY DEF Flattens
  <2> QED BY <2>1
<1>2. ASSUME NEW n \in Nat, n \in T PROVE n + 1 \in T
  <2>1. PICK g : Flattens(g, s, n)
    BY <1>2
  <2> DEFINE value(i) == IF i = 1 THEN s[i] ELSE Joined(g[i - 1], s[i])
             h == [i \in 1..n + 1 |-> value(i)]
  <2>2. \A i \in 1..n : g[i] = value(i)
    BY <2>1, FlattensAt
  <2>3. \A i \in 1..n : h[i] = g[i]
    <3> HIDE DEF value
    <3> QED BY <2>2
  <2>4. \A i \in 1..n + 1 : i = 1 \/ i - 1 \in 1..n
    OBVIOUS
  <2>5. \A i \in 1..n + 1 : value(i) = IF i = 1 THEN s[i] ELSE Joined(h[i - 1], s[i])
    <3> HIDE DEF h
    <3> QED BY <2>3, <2>4
  <2>6. h = [i \in 1..n + 1 |-> IF i = 1 THEN s[i] ELSE Joined(h[i - 1], s[i])]
    <3> HIDE DEF value
    <3> QED BY <2>5
  <2>7. Flattens(h, s, n + 1)
    <3> HIDE DEF h
    <3> QED BY <2>6 DEF Flattens
  <2> QED BY <2>7
<1> HIDE DEF T
<1>3. Nat \subseteq T
  BY <1>1, <1>2, Inductive
<1> QED BY <1>3 DEF T

\* Whatever the elements, FlattenSeq of n of them is the last value of such a function.
LEMMA FlattenedBy ==
    ASSUME NEW s, Len(s) \in Nat, Len(s) # 0
    PROVE  \E g : Flattens(g, s, Len(s)) /\ FlattenSeq(s) = g[Len(s)]
<1> DEFINE g == CHOOSE f : Flattens(f, s, Len(s))
<1>1. Flattens(g, s, Len(s))
  BY FlattensExists
<1>2. FlattenSeq(s) = g[Len(s)]
  BY DEF FlattenSeq, Flattens, Joined
<1> QED BY <1>1, <1>2

LEMMA FlattenEmpty == FlattenSeq(<<>>) = <<>>
BY DEF FlattenSeq

LEMMA FlattensType ==
    ASSUME NEW S, NEW s \in Seq(Seq(S)), NEW g, Flattens(g, s, Len(s))
    PROVE  \A i \in 1..Len(s) : g[i] \in Seq(S)
<1> DEFINE T == {n \in Nat : n + 1 \in 1..Len(s) => g[n + 1] \in Seq(S)}
<1>1. Len(s) \in Nat /\ \A i \in 1..Len(s) : s[i] \in Seq(S)
  BY LenProperties, ElementOfSeq
<1>2. 0 \in T
  BY <1>1, FlattensFrom, SMTT(20)
<1>3. ASSUME NEW n \in Nat, n \in T PROVE n + 1 \in T
  <2> SUFFICES ASSUME n + 2 \in 1..Len(s) PROVE g[n + 2] \in Seq(S)
    BY <1>1
  <2>1. g[n + 2] = Joined(g[n + 1], s[n + 2])
    BY <1>1, FlattensFrom
  <2>2. g[n + 1] \in Seq(S) /\ s[n + 2] \in Seq(S)
    BY <1>1, <1>3
  <2>3. Joined(g[n + 1], s[n + 2]) \in Seq(S)
    BY <2>2, ConcatProperties DEF Joined
  <2> QED BY <2>1, <2>3
<1> HIDE DEF T
<1>4. Nat \subseteq T
  BY <1>2, <1>3, Inductive
<1>5. ASSUME NEW i \in 1..Len(s) PROVE g[i] \in Seq(S)
  <2>1. i - 1 \in Nat /\ (i - 1) + 1 = i
    BY <1>1
  <2>2. i - 1 \in T
    BY <1>4, <2>1
  <2> QED BY <2>1, <2>2 DEF T
<1> QED BY <1>5

LEMMA FlattenType ==
    ASSUME NEW S, NEW s \in Seq(Seq(S))
    PROVE  FlattenSeq(s) \in Seq(S)
<1>1. CASE Len(s) = 0
  <2>1. s = <<>>
    BY <1>1, EmptySeq
  <2> QED BY <2>1, FlattenEmpty, EmptySeq
<1>2. CASE Len(s) # 0
  <2>1. Len(s) \in Nat /\ Len(s) \in 1..Len(s)
    BY <1>2, LenProperties
  <2> QED BY <1>2, <2>1, FlattenedBy, FlattensType
<1> QED BY <1>1, <1>2

LEMMA FlattenAppend ==
    ASSUME NEW S, NEW s \in Seq(Seq(S)), NEW e \in Seq(S)
    PROVE  FlattenSeq(Append(s, e)) = FlattenSeq(s) \o e
<1> DEFINE t == Append(s, e)
<1>1. /\ Len(s) \in Nat /\ Len(t) = Len(s) + 1
      /\ \A i \in 1..Len(s) : t[i] = s[i]
      /\ t[Len(s) + 1] = e
  BY AppendProperties, LenProperties
<1> HIDE DEF t
<1>2. PICK h : Flattens(h, t, Len(t)) /\ FlattenSeq(t) = h[Len(t)]
  BY <1>1, FlattenedBy
<1>3. CASE Len(s) = 0
  <2>1. s = <<>> /\ h[1] = e
    BY <1>1, <1>2, <1>3, FlattensFrom, EmptySeq
  <2> QED BY <1>1, <1>2, <1>3, <2>1, FlattenEmpty, ConcatEmptySeq DEF t
<1>4. CASE Len(s) # 0
  <2>1. PICK g : Flattens(g, s, Len(s)) /\ FlattenSeq(s) = g[Len(s)]
    BY <1>1, <1>4, FlattenedBy
  <2> DEFINE T == {n \in Nat : n + 1 \in 1..Len(s) => g[n + 1] = h[n + 1]}
  <2>2. 0 \in T
    BY <1>1, <1>2, <2>1, FlattensFrom
  <2>3. ASSUME NEW n \in Nat, n \in T PROVE n + 1 \in T
    <3> SUFFICES ASSUME n + 2 \in 1..Len(s) PROVE g[n + 2] = h[n + 2]
      BY <1>1
    <3>1. n + 1 \in 1..Len(s) /\ n + 2 <= Len(s) /\ n + 2 <= Len(t) /\ Len(t) \in Nat
      BY <1>1
    <3>2. g[n + 2] = Joined(g[n + 1], s[n + 2])
      BY <1>1, <2>1, <3>1, FlattensFrom
    <3>3. h[n + 2] = Joined(h[n + 1], t[n + 2])
      <4>1. n \in Nat /\ n + 2 <= Len(t) /\ Flattens(h, t, Len(t)) /\ Len(t) \in Nat
        BY <1>2, <3>1
      <4> QED BY <4>1, FlattensFrom
    <3> QED BY <1>1, <2>3, <3>1, <3>2, <3>3
  <2> HIDE DEF T
  <2>4. Nat \subseteq T
    BY <2>2, <2>3, Inductive
  <2>5. g[Len(s)] = h[Len(s)]
    <3>1. Len(s) - 1 \in Nat /\ (Len(s) - 1) + 1 = Len(s) /\ Len(s) \in 1..Len(s)
      BY <1>1, <1>4
    <3>2. Len(s) - 1 \in T
      BY <2>4, <3>1
    <3> QED BY <3>1, <3>2 DEF T
  <2>6. h[Len(t)] = Joined(h[Len(s)], t[Len(t)])
    <3> DEFINE i == Len(s) - 1
    <3>1. i \in Nat /\ i + 2 = Len(t) /\ i + 1 = Len(s) /\ Len(t) \in Nat
      BY <1>1, <1>4
    <3> HIDE DEF i
    <3>2. h[i + 2] = Joined(h[i + 1], t[i + 2])
      BY <1>2, <3>1, FlattensFrom
    <3> QED BY <3>1, <3>2
  <2> QED BY <1>1, <1>2, <2>1, <2>5, <2>6 DEF Joined, t
<1> QED BY <1>3, <1>4

LEMMA FlattenSingle ==
    ASSUME NEW S, NEW x \in Seq(S)
    PROVE  FlattenSeq(<<x>>) = x
<1>1. <<>> \in Seq(Seq(S)) /\ Append(<<>>, x) = <<x>>
  BY EmptySeq
<1>2. FlattenSeq(<<x>>) = <<>> \o x
  BY <1>1, FlattenAppend, FlattenEmpty
<1> QED BY <1>2, ConcatEmptySeq

LEMMA FlattenCons ==
    ASSUME NEW S, NEW x \in Seq(S), NEW s \in Seq(Seq(S))
    PROVE  FlattenSeq(<<x>> \o s) = x \o FlattenSeq(s)
<1> DEFINE T == {r \in Seq(Seq(S)) : FlattenSeq(<<x>> \o r) = x \o FlattenSeq(r)}
<1>0. <<x>> \in Seq(Seq(S))
  OBVIOUS
<1>1. <<>> \in T
  <2>1. <<x>> \o <<>> = <<x>> /\ x \o <<>> = x
    BY <1>0, ConcatEmptySeq
  <2> QED BY <2>1, FlattenEmpty, FlattenSingle, EmptySeq
<1>2. ASSUME NEW r \in Seq(Seq(S)), NEW e \in Seq(S), r \in T PROVE Append(r, e) \in T
  <2>1. <<x>> \o Append(r, e) = Append(<<x>> \o r, e)
    <3>1. Append(r, e) = r \o <<e>> /\ Append(<<x>> \o r, e) = (<<x>> \o r) \o <<e>>
      BY <1>0, AppendIsConcat, ConcatProperties
    <3>2. <<e>> \in Seq(Seq(S))
      OBVIOUS
    <3> QED BY <1>0, <3>1, <3>2, ConcatAssociative
  <2>2. FlattenSeq(<<x>> \o Append(r, e)) = FlattenSeq(<<x>> \o r) \o e
    <3> DEFINE y == <<x>> \o r
    <3>1. y \in Seq(Seq(S))
      BY <1>0, ConcatProperties
    <3> HIDE DEF y
    <3>2. FlattenSeq(Append(y, e)) = FlattenSeq(y) \o e
      BY <3>1, FlattenAppend
    <3> QED BY <2>1, <3>2 DEF y
  <2>3. FlattenSeq(<<x>> \o r) = x \o FlattenSeq(r)
    BY <1>2
  <2>4. (x \o FlattenSeq(r)) \o e = x \o (FlattenSeq(r) \o e)
    <3>1. FlattenSeq(r) \in Seq(S)
      BY FlattenType
    <3> QED BY <3>1, ConcatAssociative
  <2>5. FlattenSeq(r) \o e = FlattenSeq(Append(r, e))
    BY FlattenAppend
  <2>6. Append(r, e) \in Seq(Seq(S))
    BY AppendProperties
  <2> QED BY <2>2, <2>3, <2>4, <2>5, <2>6
<1> HIDE DEF T
<1>3. Seq(Seq(S)) \subseteq T
  BY <1>1, <1>2, SeqInductiveAppend
<1> QED BY <1>3 DEF T
----
(***************************************************************************)
(* The escape of an identity, token by token.                              *)
(***************************************************************************)
\* Every token of a header, of an identity or of the material.
Tokens == STRING \cup {"n", "y", "p", "a", "=", ",", "2", "3", "C", "D"}
            \cup {KindName[k] : k \in Kinds}

LEMMA HeadTail ==
    ASSUME NEW S, NEW s \in Seq(S), s # <<>>
    PROVE  /\ Head(s) \in S /\ <<Head(s)>> \in Seq(S) /\ Tail(s) \in Seq(S)
           /\ s = <<Head(s)>> \o Tail(s)
<1>1. /\ Len(s) \in Nat \ {0} /\ Head(s) \in S
      /\ Tail(s) \in Seq(S) /\ Len(Tail(s)) = Len(s) - 1
      /\ \A i \in 1..Len(Tail(s)) : Tail(s)[i] = s[i + 1]
  BY EmptySeq, HeadTailProperties
<1>2. Head(s) = s[1]
  OBVIOUS
<1> DEFINE h == <<Head(s)>>
           t == Tail(s)
<1>3. h \in Seq(S) /\ Len(h) = 1 /\ h[1] = Head(s)
  BY <1>1
<1> HIDE DEF h, t
<1>4. /\ h \o t \in Seq(S) /\ Len(h \o t) = Len(s)
      /\ \A i \in 1..Len(s) : (h \o t)[i] = IF i <= 1 THEN h[i] ELSE t[i - 1]
  <2>1. t \in Seq(S) /\ Len(t) = Len(s) - 1
    BY <1>1 DEF t
  <2>2. /\ h \o t \in Seq(S) /\ Len(h \o t) = Len(h) + Len(t)
        /\ \A i \in 1..Len(h) + Len(t) : (h \o t)[i] = IF i <= Len(h) THEN h[i] ELSE t[i - Len(h)]
    BY <1>3, <2>1, ConcatProperties
  <2>3. Len(h) + Len(t) = Len(s)
    BY <1>1, <1>3, <2>1
  <2> QED BY <1>3, <2>2, <2>3
<1>5. ASSUME NEW i \in 1..Len(s) PROVE (h \o t)[i] = s[i]
  <2>1. CASE i = 1
    BY <1>1, <1>2, <1>3, <1>4, <2>1
  <2>2. CASE i # 1
    <3>1. i - 1 \in 1..Len(Tail(s)) /\ (i - 1) + 1 = i /\ ~(i <= 1)
      BY <1>1, <2>2
    <3>2. Tail(s)[i - 1] = s[(i - 1) + 1]
      BY <1>1, <3>1
    <3> QED BY <1>4, <3>1, <3>2 DEF t
  <2> QED BY <2>1, <2>2
<1>6. h \o t = s
  BY <1>4, <1>5, SeqEqual
<1> QED BY <1>1, <1>3, <1>6 DEF h, t

LEMMA Cancels ==
    ASSUME NEW S, NEW f \in Seq(S), NEW s \in Seq(S), NEW t \in Seq(S), f \o s = f \o t
    PROVE  s = t
BY ConcatSimplifications

LEMMA EscapeTokenShape ==
    ASSUME NEW c \in Tokens
    PROVE  /\ EscapeToken(c) \in Seq(Tokens) /\ Len(EscapeToken(c)) > 0
           /\ c \notin {"=", ","} => EscapeToken(c) = <<c>>
           /\ EscapeToken(c)[1] = IF c \in {"=", ","} THEN "=" ELSE c
<1>1. {"=", "2", "C", "3", "D"} \subseteq Tokens
  BY DEF Tokens
<1> HIDE DEF Tokens
<1>2. CASE c = "="
  <2>1. EscapeToken(c) = <<"=", "3", "D">>
    BY <1>2 DEF EscapeToken
  <2>2. "=" \in Tokens /\ "3" \in Tokens /\ "D" \in Tokens
    BY <1>1
  <2>3. /\ <<"=", "3", "D">> \in Seq(Tokens) /\ Len(<<"=", "3", "D">>) = 3
        /\ <<"=", "3", "D">>[1] = "="
    BY <2>2, Tuples
  <2>4. EscapeToken(c) \in Seq(Tokens) /\ Len(EscapeToken(c)) = 3 /\ EscapeToken(c)[1] = "="
    BY <2>1, <2>3, Zenon
  <2>5. Len(EscapeToken(c)) > 0
    BY <2>4
  <2> QED BY <1>2, <2>4, <2>5, Zenon
<1>3. CASE c = ","
  <2>1. EscapeToken(c) = <<"=", "2", "C">>
    BY <1>3 DEF EscapeToken
  <2>2. "=" \in Tokens /\ "2" \in Tokens /\ "C" \in Tokens
    BY <1>1
  <2>3. /\ <<"=", "2", "C">> \in Seq(Tokens) /\ Len(<<"=", "2", "C">>) = 3
        /\ <<"=", "2", "C">>[1] = "="
    BY <2>2, Tuples
  <2>4. EscapeToken(c) \in Seq(Tokens) /\ Len(EscapeToken(c)) = 3 /\ EscapeToken(c)[1] = "="
    BY <2>1, <2>3, Zenon
  <2>5. Len(EscapeToken(c)) > 0
    BY <2>4
  <2> QED BY <1>3, <2>4, <2>5, Zenon
<1>4. CASE c \notin {"=", ","}
  <2>1. EscapeToken(c) = <<c>>
    BY <1>4 DEF EscapeToken
  <2>2. <<c>> \in Seq(Tokens) /\ Len(<<c>>) = 1 /\ <<c>>[1] = c
    BY Tuples
  <2>3. /\ EscapeToken(c) \in Seq(Tokens) /\ Len(EscapeToken(c)) = 1
        /\ EscapeToken(c)[1] = c
    BY <2>1, <2>2, Zenon
  <2>4. Len(EscapeToken(c)) > 0
    BY <2>3
  <2> QED BY <1>4, <2>1, <2>3, <2>4, Zenon
<1> QED BY <1>2, <1>3, <1>4

LEMMA EscapeTokenReadsBack ==
    ASSUME NEW c \in Tokens, NEW d \in Tokens, NEW s \in Seq(Tokens), NEW t \in Seq(Tokens),
           EscapeToken(c) \o s = EscapeToken(d) \o t
    PROVE  c = d /\ s = t
<1> HIDE DEF Tokens
<1>1. EscapeToken(c)[1] = EscapeToken(d)[1]
  <2>1. /\ (EscapeToken(c) \o s)[1] = EscapeToken(c)[1]
        /\ (EscapeToken(d) \o t)[1] = EscapeToken(d)[1]
    <3>1. /\ EscapeToken(c) \in Seq(Tokens) /\ Len(EscapeToken(c)) > 0
          /\ EscapeToken(d) \in Seq(Tokens) /\ Len(EscapeToken(d)) > 0
      BY EscapeTokenShape
    <3>2. (EscapeToken(c) \o s)[1] = EscapeToken(c)[1]
      BY <3>1, Opens
    <3>3. (EscapeToken(d) \o t)[1] = EscapeToken(d)[1]
      BY <3>1, Opens
    <3> QED BY <3>2, <3>3
  <2> QED BY <2>1
<1>2. CASE c \notin {"=", ","} \/ d \notin {"=", ","}
  <2>1. c \notin {"=", ","} /\ d \notin {"=", ","} /\ c = d
    BY <1>1, <1>2, EscapeTokenShape
  <2> QED BY <2>1, EscapeTokenShape, Cancels
<1>3. CASE c \in {"=", ","} /\ d \in {"=", ","}
  <2>1. ASSUME NEW e, e = "=" \/ e = ",", NEW u \in Seq(Tokens)
        PROVE  (EscapeToken(e) \o u)[3] = IF e = "=" THEN "D" ELSE "C"
    <3>1. EscapeToken(e) \in Seq(Tokens) /\ Len(EscapeToken(e)) = 3
      <4>1. e \in Tokens
        BY <2>1 DEF Tokens
      <4>2. EscapeToken(e) \in Seq(Tokens)
        BY <4>1, EscapeTokenShape
      <4>3. Len(EscapeToken(e)) = 3
        BY <2>1 DEF EscapeToken
      <4> QED BY <4>2, <4>3
    <3>2. EscapeToken(e)[3] = IF e = "=" THEN "D" ELSE "C"
      BY <2>1 DEF EscapeToken
    <3> DEFINE f == EscapeToken(e)
    <3>3. f \in Seq(Tokens) /\ Len(f) = 3 /\ Len(u) \in Nat
      BY <3>1, LenProperties
    <3> HIDE DEF f
    <3>5. 3 \in 1..Len(f)
      BY <3>3
    <3>6. (f \o u)[3] = f[3]
      <4>1. \A i \in 1..Len(f) : (f \o u)[i] = f[i]
        BY <3>3, ConcatFront
      <4> QED BY <3>5, <4>1
    <3> QED BY <3>2, <3>6 DEF f
  <2>2. (EscapeToken(c) \o s)[3] = IF c = "=" THEN "D" ELSE "C"
    BY <1>3, <2>1
  <2>3. (EscapeToken(d) \o t)[3] = IF d = "=" THEN "D" ELSE "C"
    BY <1>3, <2>1
  <2>4. c = d
    BY <1>3, <2>2, <2>3
  <2> QED BY <2>4, EscapeTokenShape, Cancels
<1> QED BY <1>2, <1>3

LEMMA EscapeEmpty == Escape(<<>>) = <<>>
<1>1. [i \in DOMAIN <<>> |-> EscapeToken(<<>>[i])] = <<>>
  OBVIOUS
<1> QED BY <1>1, FlattenEmpty DEF Escape

LEMMA EscapeCons ==
    ASSUME NEW c \in Tokens, NEW name \in Seq(Tokens)
    PROVE  /\ Escape(name) \in Seq(Tokens)
           /\ Escape(<<c>> \o name) = EscapeToken(c) \o Escape(name)
<1> HIDE DEF Tokens
<1> DEFINE Escaped(n) == [i \in DOMAIN n |-> EscapeToken(n[i])]
<1>1. ASSUME NEW n \in Seq(Tokens)
      PROVE  /\ Escaped(n) \in Seq(Seq(Tokens)) /\ Len(Escaped(n)) = Len(n)
             /\ \A i \in 1..Len(n) : Escaped(n)[i] = EscapeToken(n[i])
  <2>1. /\ Len(n) \in Nat /\ DOMAIN n = 1..Len(n)
        /\ \A i \in 1..Len(n) : EscapeToken(n[i]) \in Seq(Tokens)
    BY LenProperties, ElementOfSeq, EscapeTokenShape
  <2>2. Escaped(n) = [i \in 1..Len(n) |-> EscapeToken(n[i])]
    BY <2>1
  <2> DEFINE e(i) == EscapeToken(n[i])
  <2>3. [i \in 1..Len(n) |-> e(i)] \in Seq(Seq(Tokens)) /\ Len([i \in 1..Len(n) |-> e(i)]) = Len(n)
    <3>1. \A i \in 1..Len(n) : e(i) \in Seq(Tokens)
      BY <2>1
    <3> HIDE DEF e
    <3> QED BY <2>1, <3>1
  <2> QED BY <2>1, <2>2, <2>3
<1>2. <<c>> \in Seq(Tokens) /\ Len(<<c>>) = 1 /\ <<c>>[1] = c
  OBVIOUS
<1> DEFINE x == EscapeToken(c)
           whole == <<c>> \o name
<1>3. /\ whole \in Seq(Tokens) /\ Len(whole) = 1 + Len(name) /\ Len(name) \in Nat
      /\ \A i \in 1..1 + Len(name) : whole[i] = IF i <= 1 THEN c ELSE name[i - 1]
  <2>1. /\ whole \in Seq(Tokens) /\ Len(whole) = Len(<<c>>) + Len(name) /\ Len(name) \in Nat
        /\ \A i \in 1..Len(<<c>>) + Len(name) :
              whole[i] = IF i <= Len(<<c>>) THEN <<c>>[i] ELSE name[i - Len(<<c>>)]
    BY <1>2, ConcatProperties, LenProperties
  <2> QED BY <1>2, <2>1
<1>4. x \in Seq(Tokens) /\ <<x>> \in Seq(Seq(Tokens)) /\ Len(<<x>>) = 1 /\ <<x>>[1] = x
  <2>1. x \in Seq(Tokens)
    BY EscapeTokenShape
  <2> HIDE DEF x
  <2> QED BY <2>1
<1> HIDE DEF x, whole, Escaped
<1>5. Escaped(whole) = <<x>> \o Escaped(name)
  <2>1. /\ Escaped(whole) \in Seq(Seq(Tokens)) /\ Len(Escaped(whole)) = 1 + Len(name)
        /\ \A i \in 1..1 + Len(name) : Escaped(whole)[i] = EscapeToken(whole[i])
    BY <1>1, <1>3
  <2>2. /\ Escaped(name) \in Seq(Seq(Tokens)) /\ Len(Escaped(name)) = Len(name)
        /\ \A i \in 1..Len(name) : Escaped(name)[i] = EscapeToken(name[i])
    BY <1>1
  <2>3. /\ <<x>> \o Escaped(name) \in Seq(Seq(Tokens))
        /\ Len(<<x>> \o Escaped(name)) = 1 + Len(name)
        /\ \A i \in 1..1 + Len(name) :
              (<<x>> \o Escaped(name))[i] = IF i <= 1 THEN <<x>>[i] ELSE Escaped(name)[i - 1]
    BY <1>4, <2>2, ConcatProperties
  <2>4. ASSUME NEW i \in 1..1 + Len(name)
        PROVE  Escaped(whole)[i] = (<<x>> \o Escaped(name))[i]
    <3>1. CASE i = 1
      BY <1>3, <1>4, <2>1, <2>3, <3>1 DEF x
    <3>2. CASE i # 1
      <4>1. i - 1 \in 1..Len(name) /\ ~(i <= 1)
        BY <1>3, <3>2
      <4> QED BY <1>3, <2>1, <2>2, <2>3, <4>1
    <3> QED BY <3>1, <3>2
  <2> QED BY <2>1, <2>3, <2>4, SeqEqual
<1>6. Escape(name) = FlattenSeq(Escaped(name)) /\ Escape(whole) = FlattenSeq(Escaped(whole))
  BY DEF Escape, Escaped
<1>7. Escaped(name) \in Seq(Seq(Tokens))
  BY <1>1
<1>8. Escape(name) \in Seq(Tokens)
  BY <1>6, <1>7, FlattenType
<1>9. Escape(whole) = x \o Escape(name)
  BY <1>4, <1>5, <1>6, <1>7, FlattenCons, ZenonT(30)
<1> QED BY <1>8, <1>9 DEF x, whole

LEMMA EscapeType == \A name \in Seq(Tokens) : Escape(name) \in Seq(Tokens)
<1>1. ASSUME NEW name \in Seq(Tokens) PROVE Escape(name) \in Seq(Tokens)
  <2>1. "=" \in Tokens
    BY DEF Tokens
  <2> HIDE DEF Tokens
  <2> QED BY <2>1, EscapeCons
<1> QED BY <1>1

\* What is written up to a comma, the identity escaped, reads back one way.
Behind(rest) == <<",">> \o rest
Named(name, rest) == Escape(name) \o Behind(rest)

LEMMA Comma ==
    ASSUME NEW rest \in Seq(Tokens)
    PROVE  Behind(rest) \in Seq(Tokens) /\ Behind(rest)[1] = ","
<1> DEFINE f == <<",">>
<1>1. "," \in Tokens
  BY DEF Tokens
<1> HIDE DEF Tokens
<1>2. f \in Seq(Tokens) /\ Len(f) > 0 /\ f[1] = ","
  BY <1>1, Single, Zenon
<1> HIDE DEF f
<1>3. f \o rest \in Seq(Tokens) /\ (f \o rest)[1] = f[1]
  BY <1>2, Opens
<1>4. Behind(rest) = f \o rest
  BY DEF Behind, f
<1> QED BY <1>2, <1>3, <1>4

LEMMA CommaCancels ==
    ASSUME NEW s \in Seq(Tokens), NEW t \in Seq(Tokens), Behind(s) = Behind(t)
    PROVE  s = t
<1> DEFINE f == <<",">>
<1>1. "," \in Tokens
  BY DEF Tokens
<1> HIDE DEF Tokens
<1>2. f \in Seq(Tokens)
  BY <1>1, Single, Zenon
<1>3. f \o s = f \o t
  BY DEF Behind
<1> HIDE DEF f
<1> QED BY <1>2, <1>3, Cancels

LEMMA NamedCases ==
    ASSUME NEW name \in Seq(Tokens), NEW rest \in Seq(Tokens)
    PROVE  /\ name = <<>> => Named(name, rest) = Behind(rest) /\ Named(name, rest)[1] = ","
           /\ name # <<>> =>
                 /\ Named(name, rest) = EscapeToken(Head(name)) \o Named(Tail(name), rest)
                 /\ Named(Tail(name), rest) \in Seq(Tokens)
                 /\ Named(name, rest)[1] # ","
<1> HIDE DEF Tokens
<1>1. CASE name = <<>>
  <2>1. Named(name, rest) = <<>> \o Behind(rest)
    BY <1>1, EscapeEmpty DEF Named
  <2>2. <<>> \o Behind(rest) = Behind(rest)
    BY Comma, ConcatEmptySeq
  <2> QED BY <1>1, <2>1, <2>2, Comma
<1>2. CASE name # <<>>
  <2> DEFINE c == Head(name)
             tail == Tail(name)
             end == Behind(rest)
  <2>1. c \in Tokens /\ tail \in Seq(Tokens) /\ name = <<c>> \o tail
    BY <1>2, HeadTail
  <2>2. end \in Seq(Tokens)
    BY Comma
  <2> HIDE DEF c, tail, end
  <2>3. Escape(name) = EscapeToken(c) \o Escape(tail) /\ Escape(tail) \in Seq(Tokens)
    BY <2>1, EscapeCons
  <2>4. EscapeToken(c) \in Seq(Tokens) /\ Len(EscapeToken(c)) > 0 /\ EscapeToken(c)[1] # ","
    BY <2>1, EscapeTokenShape
  <2>5. (EscapeToken(c) \o Escape(tail)) \o end = EscapeToken(c) \o (Escape(tail) \o end)
    <3> DEFINE x == EscapeToken(c)
               y == Escape(tail)
    <3>1. x \in Seq(Tokens) /\ y \in Seq(Tokens)
      BY <2>3, <2>4
    <3> HIDE DEF x, y
    <3>2. (x \o y) \o end = x \o (y \o end)
      BY <2>2, <3>1, ConcatAssociative, SMTT(20)
    <3> QED BY <3>2 DEF x, y
  <2>6. Escape(tail) \o end \in Seq(Tokens)
    BY <2>2, <2>3, ConcatProperties
  <2>7. (EscapeToken(c) \o (Escape(tail) \o end))[1] = EscapeToken(c)[1]
    BY <2>4, <2>6, Opens
  <2>8. Named(name, rest) = EscapeToken(c) \o Named(tail, rest)
    BY <2>3, <2>5 DEF Named, end
  <2>9. Named(tail, rest) = Escape(tail) \o end
    BY DEF Named, end
  <2> QED BY <1>2, <2>4, <2>6, <2>7, <2>8, <2>9 DEF c, tail
<1> QED BY <1>1, <1>2

LEMMA NamedReadsBack ==
    ASSUME NEW a \in Seq(Tokens), NEW b \in Seq(Tokens), NEW s \in Seq(Tokens), NEW t \in Seq(Tokens),
           Named(a, s) = Named(b, t)
    PROVE  a = b /\ s = t
<1> HIDE DEF Tokens
<1> DEFINE T == {n \in Seq(Tokens) : \A m, u, v \in Seq(Tokens) :
                    Named(n, u) = Named(m, v) => n = m /\ u = v}
<1>1. <<>> \in T
  <2> SUFFICES ASSUME NEW m \in Seq(Tokens), NEW u \in Seq(Tokens), NEW v \in Seq(Tokens),
                      Named(<<>>, u) = Named(m, v)
               PROVE  <<>> = m /\ u = v
    BY EmptySeq
  <2>1. <<>> \in Seq(Tokens)
    BY EmptySeq
  <2>2. m = <<>>
    <3>1. Named(<<>>, u)[1] = ","
      BY <2>1, NamedCases
    <3>2. m # <<>> => Named(m, v)[1] # ","
      BY NamedCases
    <3> QED BY <3>1, <3>2
  <2>3. Behind(u) = Behind(v)
    BY <2>1, <2>2, NamedCases
  <2> QED BY <2>2, <2>3, CommaCancels
<1>2. ASSUME NEW n \in Seq(Tokens), n # <<>>, Tail(n) \in T PROVE n \in T
  <2> SUFFICES ASSUME NEW m \in Seq(Tokens), NEW u \in Seq(Tokens), NEW v \in Seq(Tokens),
                      Named(n, u) = Named(m, v)
               PROVE  n = m /\ u = v
    OBVIOUS
  <2>1. m # <<>>
    <3>1. Named(n, u)[1] # ","
      BY <1>2, NamedCases
    <3>2. m = <<>> => Named(m, v)[1] = ","
      BY NamedCases
    <3> QED BY <3>1, <3>2
  <2>2. EscapeToken(Head(n)) \o Named(Tail(n), u) = EscapeToken(Head(m)) \o Named(Tail(m), v)
    <3>1. Named(n, u) = EscapeToken(Head(n)) \o Named(Tail(n), u)
      BY <1>2, NamedCases
    <3>2. Named(m, v) = EscapeToken(Head(m)) \o Named(Tail(m), v)
      BY <2>1, NamedCases
    <3> QED BY <3>1, <3>2
  <2>3. /\ Named(Tail(n), u) \in Seq(Tokens) /\ Named(Tail(m), v) \in Seq(Tokens)
        /\ Head(n) \in Tokens /\ Head(m) \in Tokens
        /\ Tail(m) \in Seq(Tokens)
        /\ n = <<Head(n)>> \o Tail(n) /\ m = <<Head(m)>> \o Tail(m)
    BY <1>2, <2>1, NamedCases, HeadTail
  <2>4. Head(n) = Head(m) /\ Named(Tail(n), u) = Named(Tail(m), v)
    <3> DEFINE c == Head(n)
               d == Head(m)
               x == Named(Tail(n), u)
               y == Named(Tail(m), v)
    <3>1. /\ c \in Tokens /\ d \in Tokens /\ x \in Seq(Tokens) /\ y \in Seq(Tokens)
          /\ EscapeToken(c) \o x = EscapeToken(d) \o y
      BY <2>2, <2>3
    <3> HIDE DEF c, d, x, y
    <3>2. c = d /\ x = y
      BY <3>1, EscapeTokenReadsBack
    <3> QED BY <3>2 DEF c, d, x, y
  <2>5. Tail(n) = Tail(m) /\ u = v
    <3>1. \A q, w, z \in Seq(Tokens) : Named(Tail(n), w) = Named(q, z) => Tail(n) = q /\ w = z
      BY <1>2
    <3>2. Named(Tail(n), u) = Named(Tail(m), v) /\ Tail(m) \in Seq(Tokens)
      BY <2>3, <2>4
    <3> QED BY <3>1, <3>2
  <2> QED BY <2>3, <2>4, <2>5, Zenon
<1> HIDE DEF T
<1>3. Seq(Tokens) \subseteq T
  BY <1>1, <1>2, SeqInductiveTail
<1> QED BY <1>3 DEF T
----
(***************************************************************************)
(* The header: flag, identity and what follows can be told apart.          *)
(***************************************************************************)
LEMMA PrefixesEqual ==
    \A S : \A g, h, s, t \in Seq(S) : Len(g) = Len(h) /\ g \o s = h \o t => g = h /\ s = t
<1> SUFFICES ASSUME NEW S, NEW g \in Seq(S), NEW h \in Seq(S), Len(g) = Len(h),
                    NEW s \in Seq(S), NEW t \in Seq(S), g \o s = h \o t
             PROVE  g = h /\ s = t
  BY ZenonT(30)
<1>1. \A i \in 1..Len(g) : g[i] = (g \o s)[i] /\ h[i] = (h \o t)[i]
  BY ConcatProperties, LenProperties
<1>2. g = h
  BY <1>1, SeqEqual
<1> QED BY <1>2, ConcatSimplifications

LEMMA BindingShape ==
    ASSUME NEW b \in Bindings
    PROVE  /\ b.flag \in {"n", "y", "p"}
           /\ IsBound(b) => b.data \in Materials /\ b.kind \in Kinds
<1>1. CASE b \in {Unsupported, Unused}
  BY <1>1 DEF Unsupported, Unused, IsBound
<1>2. CASE b \notin {Unsupported, Unused}
  <2>1. PICK k \in Kinds, d \in Materials : b = Bound(k, d)
    BY <1>2 DEF Bindings
  <2> QED BY <2>1 DEF Bound
<1> QED BY <1>1, <1>2

LEMMA FlagShape ==
    ASSUME NEW b \in Bindings
    PROVE  /\ Flag(b) \in Seq(Tokens) /\ Len(Flag(b)) > 0 /\ Flag(b)[1] = b.flag
           /\ Len(Flag(b)) = IF IsBound(b) THEN 3 ELSE 1
<1>1. CASE IsBound(b)
  <2>1. Flag(b) = <<"p", "=", KindName[b.kind]>> /\ b.flag = "p"
    BY <1>1 DEF Flag, IsBound
  <2>2. KindName[b.kind] \in Tokens /\ "p" \in Tokens /\ "=" \in Tokens
    BY <1>1, BindingShape DEF Tokens
  <2> HIDE DEF Tokens
  <2>3. Flag(b) \in Seq(Tokens) /\ Len(Flag(b)) = 3 /\ Flag(b)[1] = b.flag
    BY <2>1, <2>2, Tuples
  <2> QED BY <1>1, <2>3
<1>2. CASE ~IsBound(b)
  <2>1. Flag(b) = <<b.flag>>
    BY <1>2 DEF Flag
  <2>2. b.flag \in Tokens
    BY BindingShape DEF Tokens
  <2> HIDE DEF Tokens
  <2>3. Flag(b) \in Seq(Tokens) /\ Len(Flag(b)) = 1 /\ Flag(b)[1] = b.flag
    BY <2>1, <2>2, Single
  <2> QED BY <1>2, <2>3
<1> QED BY <1>1, <1>2

LEMMA FlagReadsBack ==
    ASSUME NEW b \in Bindings, NEW d \in Bindings, NEW s \in Seq(Tokens), NEW t \in Seq(Tokens),
           Flag(b) \o s = Flag(d) \o t
    PROVE  Flag(b) = Flag(d) /\ s = t
<1> DEFINE f == Flag(b)
           g == Flag(d)
<1>1. /\ f \in Seq(Tokens) /\ Len(f) > 0 /\ f[1] = b.flag
      /\ g \in Seq(Tokens) /\ Len(g) > 0 /\ g[1] = d.flag
  BY FlagShape
<1>2. f \o s = g \o t
  OBVIOUS
<1>3. b.flag = d.flag
  <2> HIDE DEF f, g, Tokens
  <2>1. (f \o s)[1] = f[1] /\ (g \o t)[1] = g[1]
    BY <1>1, Opens
  <2> QED BY <1>1, <1>2, <2>1
<1>4. Len(f) = Len(g)
  <2>1. IsBound(b) <=> IsBound(d)
    BY <1>3 DEF IsBound
  <2>2. Len(f) = IF IsBound(b) THEN 3 ELSE 1
    BY FlagShape
  <2>3. Len(g) = IF IsBound(d) THEN 3 ELSE 1
    BY FlagShape
  <2> HIDE DEF f, g
  <2> QED BY <2>1, <2>2, <2>3
<1> HIDE DEF f, g, Tokens
<1>5. f = g /\ s = t
  BY <1>1, <1>2, <1>4, PrefixesEqual, Zenon
<1> QED BY <1>5 DEF f, g

Identities == Seq(Tokens) \cup {NoAuthzid}

\* What a reader finds behind the flag and its comma.
Remainder(authzid, rest) ==
    IF authzid = NoAuthzid THEN Behind(rest) ELSE <<"a", "=">> \o Named(authzid, rest)

LEMMA RemainderCases ==
    ASSUME NEW a \in Identities, NEW rest \in Seq(Tokens)
    PROVE  /\ Remainder(a, rest) \in Seq(Tokens)
           /\ a = NoAuthzid <=> Remainder(a, rest)[1] = ","
<1>1. CASE a = NoAuthzid
  BY <1>1, Comma DEF Remainder
<1>2. CASE a # NoAuthzid
  <2> DEFINE f == <<"a", "=">>
             n == Named(a, rest)
  <2>1. "a" \in Tokens /\ "=" \in Tokens
    BY DEF Tokens
  <2> HIDE DEF Tokens
  <2>2. f \in Seq(Tokens) /\ Len(f) = 2
    BY <2>1, Tuples, Zenon
  <2>3. f[1] = "a"
    OBVIOUS
  <2>4. n \in Seq(Tokens)
    <3>1. a \in Seq(Tokens)
      BY <1>2 DEF Identities
    <3>2. Escape(a) \in Seq(Tokens) /\ Behind(rest) \in Seq(Tokens)
      BY <3>1, EscapeType, Comma
    <3> QED BY <3>2, ConcatProperties DEF Named
  <2>5. Remainder(a, rest) = f \o n
    BY <1>2 DEF Remainder
  <2> HIDE DEF f, n
  <2>6. Len(f) > 0
    BY <2>2
  <2>7. f \o n \in Seq(Tokens) /\ (f \o n)[1] = f[1]
    BY <2>2, <2>4, <2>6, Opens
  <2> QED BY <1>2, <2>3, <2>5, <2>7
<1> QED BY <1>1, <1>2

LEMMA RemainderReadsBack ==
    ASSUME NEW a \in Identities, NEW b \in Identities, NEW s \in Seq(Tokens), NEW t \in Seq(Tokens),
           Remainder(a, s) = Remainder(b, t)
    PROVE  a = b /\ s = t
<1>1. a = NoAuthzid <=> b = NoAuthzid
  BY RemainderCases
<1>2. CASE a = NoAuthzid
  <2>1. Behind(s) = Behind(t)
    BY <1>1, <1>2 DEF Remainder
  <2> QED BY <1>1, <1>2, <2>1, CommaCancels
<1>3. CASE a # NoAuthzid
  <2> DEFINE f == <<"a", "=">>
             x == Named(a, s)
             y == Named(b, t)
  <2>1. a \in Seq(Tokens) /\ b \in Seq(Tokens)
    BY <1>1, <1>3 DEF Identities
  <2>2. "a" \in Tokens /\ "=" \in Tokens
    BY DEF Tokens
  <2> HIDE DEF Tokens
  <2>3. f \in Seq(Tokens)
    BY <2>2, Tuples, Zenon
  <2>4. x \in Seq(Tokens) /\ y \in Seq(Tokens)
    <3>1. /\ Escape(a) \in Seq(Tokens) /\ Behind(s) \in Seq(Tokens)
          /\ Escape(b) \in Seq(Tokens) /\ Behind(t) \in Seq(Tokens)
      BY <2>1, EscapeType, Comma
    <3> QED BY <3>1, ConcatProperties DEF Named
  <2>5. f \o x = f \o y
    BY <1>1, <1>3 DEF Remainder
  <2> HIDE DEF f, x, y
  <2>6. x = y
    BY <2>3, <2>4, <2>5, Cancels
  <2> QED BY <2>1, <2>6, NamedReadsBack DEF x, y
<1> QED BY <1>2, <1>3

\* What goes between the two commas of a header.
Identity(authzid) == IF authzid = NoAuthzid THEN <<>> ELSE <<"a", "=">> \o Escape(authzid)

LEMMA RemainderForm ==
    ASSUME NEW a \in Identities, NEW rest \in Seq(Tokens)
    PROVE  /\ Identity(a) \in Seq(Tokens)
           /\ Remainder(a, rest) = Identity(a) \o Behind(rest)
<1> DEFINE id == IF a = NoAuthzid THEN <<>> ELSE <<"a", "=">> \o Escape(a)
<1>1. "," \in Tokens /\ "a" \in Tokens /\ "=" \in Tokens
  BY DEF Tokens
<1> HIDE DEF Tokens
<1>5. id \in Seq(Tokens)
  <2> DEFINE e == Escape(a)
             n == <<"a", "=">>
  <2>1. CASE a = NoAuthzid
    BY <2>1, EmptySeq
  <2>2. CASE a # NoAuthzid
    <3>1. n \in Seq(Tokens)
      BY <1>1, Tuples, Zenon
    <3>2. e \in Seq(Tokens)
      BY <2>2, EscapeType DEF Identities
    <3>3. id = n \o e
      BY <2>2
    <3> HIDE DEF n, e, id
    <3> QED BY <3>1, <3>2, <3>3, ConcatProperties
  <2> QED BY <2>1, <2>2
<1>6. Remainder(a, rest) = id \o Behind(rest)
  <2> DEFINE e == Escape(a)
             n == <<"a", "=">>
             end == Behind(rest)
  <2>0. end \in Seq(Tokens)
    BY Comma
  <2>1. CASE a = NoAuthzid
    <3>1. Remainder(a, rest) = end /\ id = <<>>
      BY <2>1 DEF Remainder
    <3> HIDE DEF id, end
    <3> QED BY <2>0, <3>1, ConcatEmptySeq DEF end
  <2>2. CASE a # NoAuthzid
    <3>1. n \in Seq(Tokens)
      BY <1>1, Tuples, Zenon
    <3>2. e \in Seq(Tokens)
      BY <2>2, EscapeType DEF Identities
    <3>3. id = n \o e /\ Remainder(a, rest) = n \o (e \o end)
      BY <2>2 DEF Remainder, Named
    <3> HIDE DEF n, e, id, end
    <3>4. (n \o e) \o end = n \o (e \o end)
      BY <2>0, <3>1, <3>2, ConcatAssociative
    <3> QED BY <3>3, <3>4 DEF end
  <2> QED BY <2>1, <2>2
<1> QED BY <1>5, <1>6 DEF Identity

LEMMA HeaderForm ==
    ASSUME NEW b \in Bindings, NEW a \in Identities, NEW rest \in Seq(Tokens)
    PROVE  /\ Header(b, a) \in Seq(Tokens)
           /\ Header(b, a) \o rest = Flag(b) \o Behind(Remainder(a, rest))
<1> DEFINE f == Flag(b)
           comma == <<",">>
           id == IF a = NoAuthzid THEN <<>> ELSE <<"a", "=">> \o Escape(a)
<1>1. "," \in Tokens /\ "a" \in Tokens /\ "=" \in Tokens
  BY DEF Tokens
<1>2. f \in Seq(Tokens)
  BY FlagShape
<1>3. Header(b, a) = ((f \o comma) \o id) \o comma
  BY DEF Header
<1> HIDE DEF Tokens
<1>4. comma \in Seq(Tokens)
  BY <1>1, Single, Zenon
<1>5. id \in Seq(Tokens) /\ Remainder(a, rest) = id \o Behind(rest)
  BY RemainderForm DEF Identity
<1>7. Behind(rest) = comma \o rest /\ Behind(Remainder(a, rest)) = comma \o Remainder(a, rest)
  BY DEF Behind
<1> HIDE DEF f, comma, id
<1>8. /\ f \o comma \in Seq(Tokens) /\ (f \o comma) \o id \in Seq(Tokens)
      /\ ((f \o comma) \o id) \o comma \in Seq(Tokens)
      /\ comma \o rest \in Seq(Tokens) /\ id \o (comma \o rest) \in Seq(Tokens)
  BY <1>2, <1>4, <1>5, ConcatProperties
<1>9. (((f \o comma) \o id) \o comma) \o rest = ((f \o comma) \o id) \o (comma \o rest)
  <2> DEFINE u == (f \o comma) \o id
  <2>1. u \in Seq(Tokens)
    BY <1>8
  <2> HIDE DEF u
  <2>2. (u \o comma) \o rest = u \o (comma \o rest)
    BY <1>4, <2>1, ConcatAssociative
  <2> QED BY <2>2 DEF u
<1>10. ((f \o comma) \o id) \o (comma \o rest) = (f \o comma) \o (id \o (comma \o rest))
  <2> DEFINE u == f \o comma
             v == comma \o rest
  <2>1. u \in Seq(Tokens) /\ v \in Seq(Tokens)
    BY <1>8
  <2> HIDE DEF u, v
  <2>2. (u \o id) \o v = u \o (id \o v)
    BY <1>5, <2>1, ConcatAssociative, SMTT(20)
  <2> QED BY <2>2 DEF u, v
<1>11. (f \o comma) \o (id \o (comma \o rest)) = f \o (comma \o (id \o (comma \o rest)))
  <2> DEFINE v == id \o (comma \o rest)
  <2>1. v \in Seq(Tokens)
    BY <1>8
  <2> HIDE DEF v
  <2>2. (f \o comma) \o v = f \o (comma \o v)
    BY <1>2, <1>4, <2>1, ConcatAssociative
  <2> QED BY <2>2 DEF v
<1> QED BY <1>3, <1>5, <1>7, <1>8, <1>9, <1>10, <1>11 DEF f

LEMMA HeaderOpens ==
    ASSUME NEW b \in Bindings, NEW a \in Identities, NEW rest \in Seq(Tokens)
    PROVE  Header(b, a) \o rest \in Seq(Tokens) /\ (Header(b, a) \o rest)[1] = b.flag
<1> DEFINE f == Flag(b)
           end == Behind(Remainder(a, rest))
<1>1. f \in Seq(Tokens) /\ Len(f) > 0 /\ f[1] = b.flag
  BY FlagShape
<1>2. end \in Seq(Tokens)
  BY RemainderCases, Comma
<1>3. Header(b, a) \o rest = f \o end
  BY HeaderForm
<1> HIDE DEF f, end, Tokens
<1>4. f \o end \in Seq(Tokens) /\ (f \o end)[1] = f[1]
  BY <1>1, <1>2, Opens
<1> QED BY <1>1, <1>3, <1>4

LEMMA HeaderFlag ==
    ASSUME NEW b \in Bindings, NEW a \in Identities
    PROVE  Header(b, a) \in Seq(Tokens) /\ Header(b, a)[1] = b.flag
<1>1. <<>> \in Seq(Tokens)
  BY EmptySeq
<1>2. Header(b, a) \in Seq(Tokens) /\ (Header(b, a) \o <<>>)[1] = b.flag
  BY <1>1, HeaderForm, HeaderOpens
<1>3. Header(b, a) \o <<>> = Header(b, a)
  BY <1>2, ConcatEmptySeq
<1> QED BY <1>2, <1>3

\* What goes out: a token, or binding material, behind the header.
Headed(binding, authzid, rest) == Header(binding, authzid) \o rest

LEMMA HeadedOpens ==
    ASSUME NEW b \in Bindings, NEW a \in Identities, NEW rest \in Seq(Tokens)
    PROVE  Headed(b, a, rest)[1] = b.flag
BY HeaderOpens DEF Headed

\* A header reads back one way, whatever the identity is made of and whatever follows:
\* no caller can pass for another by the separators in its name, nor move the boundary
\* between the header and the token or the binding material behind it.
THEOREM HeaderReadsBack ==
    ASSUME NEW b \in Bindings, NEW d \in Bindings, NEW a \in Identities, NEW e \in Identities,
           NEW s \in Seq(Tokens), NEW t \in Seq(Tokens),
           Headed(b, a, s) = Headed(d, e, t)
    PROVE  Flag(b) = Flag(d) /\ a = e /\ s = t
<1>1. Flag(b) \o Behind(Remainder(a, s)) = Flag(d) \o Behind(Remainder(e, t))
  BY HeaderForm DEF Headed
<1>2. Remainder(a, s) \in Seq(Tokens) /\ Remainder(e, t) \in Seq(Tokens)
  BY RemainderCases
<1>3. Behind(Remainder(a, s)) \in Seq(Tokens) /\ Behind(Remainder(e, t)) \in Seq(Tokens)
  BY <1>2, Comma
<1>4. Flag(b) = Flag(d) /\ Behind(Remainder(a, s)) = Behind(Remainder(e, t))
  BY <1>1, <1>3, FlagReadsBack, ZenonT(30)
<1>5. Remainder(a, s) = Remainder(e, t)
  BY <1>2, <1>4, CommaCancels
<1> QED BY <1>4, <1>5, RemainderReadsBack
----
(***************************************************************************)
(* Splitting at a separator: the first piece is what comes before the      *)
(* first of them, the others are those of what comes after.                *)
(***************************************************************************)
Below(cuts, i) == {j \in cuts : j < i}

LEMMA BelowFinite ==
    ASSUME NEW cuts, IsFiniteSet(cuts), NEW i
    PROVE  /\ IsFiniteSet(Below(cuts, i)) /\ Cardinality(Below(cuts, i)) \in Nat
           /\ Cardinality(cuts) \in Nat
<1>1. Below(cuts, i) \in SUBSET cuts
  BY DEF Below
<1> QED BY <1>1, FS_Subset, FS_CardinalityType

\* No two cuts have as many before them.
LEMMA RanksDiffer ==
    ASSUME NEW cuts \in SUBSET Nat, IsFiniteSet(cuts), NEW i \in cuts, NEW j \in cuts, i < j
    PROVE  Cardinality(Below(cuts, i)) < Cardinality(Below(cuts, j))
<1>0. i \in Nat /\ j \in Nat /\ \A l \in Below(cuts, i) : l \in cuts /\ l \in Nat /\ l < i
  BY DEF Below
<1>1. Below(cuts, i) \cup {i} \in SUBSET Below(cuts, j) /\ i \notin Below(cuts, i)
  <2>1. i \notin Below(cuts, i)
    BY <1>0
  <2>2. ASSUME NEW l \in Below(cuts, i) \cup {i} PROVE l \in cuts /\ l < j
    BY <1>0
  <2>3. \A l \in Below(cuts, i) \cup {i} : l \in Below(cuts, j)
    BY <2>2 DEF Below
  <2> QED BY <2>1, <2>3
<1>2. Cardinality(Below(cuts, i) \cup {i}) = Cardinality(Below(cuts, i)) + 1
  BY <1>1, BelowFinite, FS_AddElement
<1>3. Cardinality(Below(cuts, i) \cup {i}) <= Cardinality(Below(cuts, j))
  BY <1>1, BelowFinite, FS_Subset
<1> QED BY <1>2, <1>3, BelowFinite

LEMMA CutAtRank ==
    ASSUME NEW cuts \in SUBSET Nat, IsFiniteSet(cuts), NEW i \in cuts
    PROVE  CutAt(cuts, Cardinality(Below(cuts, i)) + 1) = i
<1> DEFINE k == Cardinality(Below(cuts, i)) + 1
           c == CutAt(cuts, k)
<1>1. k - 1 = Cardinality(Below(cuts, i))
  BY BelowFinite
<1>2. c \in cuts /\ Cardinality(Below(cuts, c)) = k - 1
  <2>1. \E j \in cuts : Cardinality({l \in cuts : l < j}) = k - 1
    BY <1>1 DEF Below
  <2> HIDE DEF k
  <2> QED BY <2>1, Zenon DEF CutAt, Below
<1>3. c \in Nat /\ i \in Nat
  BY <1>2
<1>4. ~(c < i) /\ ~(i < c)
  <2> HIDE DEF c
  <2>1. c < i => Cardinality(Below(cuts, c)) < Cardinality(Below(cuts, i))
    BY <1>2, RanksDiffer
  <2>2. i < c => Cardinality(Below(cuts, i)) < Cardinality(Below(cuts, c))
    BY <1>2, RanksDiffer
  <2>3. Cardinality(Below(cuts, i)) = Cardinality(Below(cuts, c))
    BY <1>1, <1>2
  <2>4. Cardinality(Below(cuts, i)) \in Nat
    BY BelowFinite
  <2> QED BY <2>1, <2>2, <2>3, <2>4
<1> HIDE DEF c
<1>5. c = i
  BY <1>3, <1>4
<1> QED BY <1>5 DEF c

\* Every number of cuts before it, up to one less than all, is that of some cut.
LEMMA EveryRank ==
    ASSUME NEW cuts \in SUBSET Nat, IsFiniteSet(cuts), NEW k \in 1..Cardinality(cuts)
    PROVE  /\ CutAt(cuts, k) \in cuts
           /\ Cardinality(Below(cuts, CutAt(cuts, k))) = k - 1
<1> DEFINE n == Cardinality(cuts)
           ranks == 0..n - 1
           rank == [i \in cuts |-> Cardinality(Below(cuts, i))]
<1>1. n \in Nat
  BY FS_CardinalityType
<1>2. ASSUME NEW i \in cuts PROVE Cardinality(Below(cuts, i)) \in ranks
  <2>1. Below(cuts, i) \in SUBSET cuts /\ Below(cuts, i) # cuts
    BY DEF Below
  <2>2. Cardinality(Below(cuts, i)) <= n /\ Cardinality(Below(cuts, i)) # n
    BY <2>1, FS_Subset
  <2> QED BY <1>1, <2>2, BelowFinite
<1>3. rank \in [cuts -> ranks]
  BY <1>2
<1>4. ASSUME NEW i \in cuts, NEW j \in cuts, i # j PROVE rank[i] # rank[j]
  <2>1. i \in Nat /\ j \in Nat
    OBVIOUS
  <2>2. i < j \/ j < i
    BY <1>4, <2>1
  <2> QED BY <2>2, RanksDiffer, BelowFinite
<1>5. rank \in Injection(cuts, ranks)
  <2> HIDE DEF rank, ranks
  <2> QED BY <1>3, <1>4 DEF Injection, IsInjective
<1>6. IsFiniteSet(ranks) /\ Cardinality(ranks) = n
  <2>1. 0 \in Int /\ n - 1 \in Int /\ (IF 0 > n - 1 THEN 0 ELSE (n - 1) - 0 + 1) = n
    BY <1>1
  <2> HIDE DEF n
  <2> QED BY <2>1, FS_Interval
<1>7. rank \in Surjection(cuts, ranks)
  <2> HIDE DEF rank, ranks
  <2> QED BY <1>5, <1>6, FS_Injection
<1>8. PICK i \in cuts : rank[i] = k - 1
  <2>1. k - 1 \in ranks
    BY <1>1
  <2> HIDE DEF rank, ranks
  <2> QED BY <1>7, <2>1 DEF Surjection
<1>9. CutAt(cuts, k) = i
  <2>1. Cardinality(Below(cuts, i)) + 1 = k
    BY <1>1, <1>8
  <2> QED BY <2>1, CutAtRank
<1> QED BY <1>8, <1>9

LEMMA CutsFinite ==
    ASSUME NEW S, NEW bytes \in Seq(S), NEW separator
    PROVE  /\ Cuts(bytes, separator) \in SUBSET Nat
           /\ IsFiniteSet(Cuts(bytes, separator))
           /\ Cardinality(Cuts(bytes, separator)) \in Nat \ {0}
           /\ \A i \in Cuts(bytes, separator) : i <= Len(bytes) + 1
<1> DEFINE cuts == Cuts(bytes, separator)
<1>1. Len(bytes) \in Nat /\ DOMAIN bytes = 1..Len(bytes)
  BY LenProperties
<1>2. cuts \in SUBSET Nat /\ \A i \in cuts : i <= Len(bytes) + 1
  BY <1>1 DEF Cuts
<1>3. IsFiniteSet(cuts)
  <2>1. Len(bytes) + 1 \in Nat
    BY <1>1
  <2> HIDE DEF cuts
  <2> QED BY <1>2, <2>1, FS_BoundedSetOfNaturals
<1>4. cuts # {}
  BY DEF Cuts
<1> QED BY <1>2, <1>3, <1>4, FS_CardinalityType, FS_EmptySet

LEMMA SplitSize ==
    ASSUME NEW S, NEW bytes \in Seq(S), NEW separator
    PROVE  /\ Len(Split(bytes, separator)) = Cardinality(Cuts(bytes, separator)) - 1
           /\ Len(Split(bytes, separator)) \in Nat
BY CutsFinite DEF Split

Free(piece, separator) == \A i \in DOMAIN piece : piece[i] # separator

LEMMA SplitNone ==
    ASSUME NEW S, NEW p \in Seq(S), NEW separator, Free(p, separator)
    PROVE  Split(p, separator) = <<p>>
<1> DEFINE cuts == Cuts(p, separator)
           end == Len(p) + 1
<1>1. Len(p) \in Nat /\ DOMAIN p = 1..Len(p)
  BY LenProperties
<1>2. cuts = {0, end}
  BY DEF Cuts, Free
<1>3. cuts \in SUBSET Nat /\ IsFiniteSet(cuts) /\ 0 \in cuts /\ end \in cuts
  BY <1>2, CutsFinite
<1>4. Cardinality(cuts) = 2
  <2>1. IsFiniteSet({0}) /\ Cardinality({0}) = 1
    BY FS_Singleton
  <2>2. end \notin {0} /\ {0} \cup {end} = {0, end}
    BY <1>1
  <2> HIDE DEF end
  <2>3. Cardinality({0} \cup {end}) = Cardinality({0}) + 1
    BY <2>1, <2>2, FS_AddElement
  <2>4. Cardinality(cuts) = Cardinality({0}) + 1
    BY <1>2, <2>2, <2>3, Zenon
  <2> QED BY <2>1, <2>4
<1>5. Below(cuts, 0) = {} /\ Below(cuts, end) = {0}
  BY <1>1, <1>2 DEF Below
<1>6. Cardinality(Below(cuts, 0)) + 1 = 1 /\ Cardinality(Below(cuts, end)) + 1 = 2
  <2>1. Cardinality({}) = 0 /\ Cardinality({0}) = 1
    BY FS_EmptySet, FS_Singleton
  <2>2. Cardinality(Below(cuts, 0)) = 0 /\ Cardinality(Below(cuts, end)) = 1
    BY <1>5, <2>1, Zenon
  <2> QED BY <2>2
<1> HIDE DEF cuts
<1>7. CutAt(cuts, 1) = 0 /\ CutAt(cuts, 2) = end
  BY <1>3, <1>6, CutAtRank
<1>8. SubSeq(p, 1, Len(p)) = p
  BY <1>1
<1>9. Split(p, separator) = [k \in 1..1 |-> p]
  BY <1>1, <1>4, <1>7, <1>8 DEF Split, cuts
<1> QED BY <1>9

Parted(piece, separator, rest) == piece \o (<<separator>> \o rest)

\* Where each element of a parted sequence comes from.
Parts(whole, piece, separator, rest) ==
    /\ Len(whole) = Len(piece) + 1 + Len(rest)
    /\ \A i \in 1..Len(piece) : whole[i] = piece[i]
    /\ whole[Len(piece) + 1] = separator
    /\ \A i \in 1..Len(rest) : whole[Len(piece) + 1 + i] = rest[i]

LEMMA PartedAt ==
    ASSUME NEW S, NEW p \in Seq(S), NEW separator \in S, NEW rest \in Seq(S)
    PROVE  /\ Parted(p, separator, rest) \in Seq(S)
           /\ Parts(Parted(p, separator, rest), p, separator, rest)
<1> DEFINE behind == <<separator>> \o rest
           whole == p \o behind
<1>1. <<separator>> \in Seq(S) /\ Len(<<separator>>) = 1 /\ <<separator>>[1] = separator
  BY Single
<1>2. Len(p) \in Nat /\ Len(rest) \in Nat
  BY LenProperties
<1>3. /\ behind \in Seq(S) /\ Len(behind) = 1 + Len(rest)
      /\ \A i \in 1..1 + Len(rest) :
            behind[i] = IF i <= 1 THEN <<separator>>[i] ELSE rest[i - 1]
  <2> DEFINE lone == <<separator>>
  <2>1. lone \in Seq(S) /\ Len(lone) = 1
    BY <1>1
  <2> HIDE DEF lone
  <2>2. /\ lone \o rest \in Seq(S) /\ Len(lone \o rest) = Len(lone) + Len(rest)
        /\ \A i \in 1..Len(lone) + Len(rest) :
              (lone \o rest)[i] = IF i <= Len(lone) THEN lone[i] ELSE rest[i - Len(lone)]
    BY <2>1, ConcatProperties, Zenon
  <2>3. /\ lone \o rest \in Seq(S) /\ Len(lone \o rest) = 1 + Len(rest)
        /\ \A i \in 1..1 + Len(rest) :
              (lone \o rest)[i] = IF i <= 1 THEN lone[i] ELSE rest[i - 1]
    BY <2>1, <2>2
  <2> QED BY <2>3 DEF lone
<1>4. behind[1] = separator /\ \A i \in 1..Len(rest) : behind[i + 1] = rest[i]
  <2>1. behind[1] = separator
    <3>1. 1 \in 1..1 + Len(rest) /\ 1 <= 1
      BY <1>2
    <3> HIDE DEF behind
    <3> QED BY <1>1, <1>3, <3>1
  <2>2. ASSUME NEW i \in 1..Len(rest) PROVE behind[i + 1] = rest[i]
    <3>1. i + 1 \in 1..1 + Len(rest) /\ ~(i + 1 <= 1) /\ (i + 1) - 1 = i
      BY <1>2
    <3> HIDE DEF behind
    <3> QED BY <1>3, <3>1
  <2> QED BY <2>1, <2>2
<1> HIDE DEF behind
<1>5. /\ whole \in Seq(S) /\ Len(whole) = Len(p) + Len(behind)
      /\ \A i \in 1..Len(p) + Len(behind) :
            whole[i] = IF i <= Len(p) THEN p[i] ELSE behind[i - Len(p)]
  BY <1>3, ConcatProperties, Zenon
<1> HIDE DEF whole
<1>6. Len(whole) = Len(p) + 1 + Len(rest)
  BY <1>2, <1>3, <1>5
<1>7. ASSUME NEW i \in 1..Len(p) PROVE whole[i] = p[i]
  BY <1>2, <1>3, <1>5
<1>8. whole[Len(p) + 1] = separator
  <2>1. Len(p) + 1 \in 1..Len(p) + Len(behind) /\ ~(Len(p) + 1 <= Len(p)) /\ (Len(p) + 1) - Len(p) = 1
    BY <1>2, <1>3
  <2> QED BY <1>4, <1>5, <2>1
<1>9. ASSUME NEW i \in 1..Len(rest) PROVE whole[Len(p) + 1 + i] = rest[i]
  <2>1. /\ Len(p) + 1 + i \in 1..Len(p) + Len(behind) /\ ~(Len(p) + 1 + i <= Len(p))
        /\ (Len(p) + 1 + i) - Len(p) = i + 1
    BY <1>2, <1>3
  <2> QED BY <1>4, <1>5, <2>1
<1> QED BY <1>5, <1>6, <1>7, <1>8, <1>9 DEF whole, behind, Parted, Parts

LEMMA ShiftedSize ==
    ASSUME NEW cuts \in SUBSET Nat, IsFiniteSet(cuts), NEW by \in Nat, by > 0
    PROVE  Cardinality({0} \cup {x + by : x \in cuts}) = Cardinality(cuts) + 1
<1> DEFINE moved == {x + by : x \in cuts}
           shift == [x \in cuts |-> x + by]
<1>1. shift \in Bijection(cuts, moved)
  <2>1. shift \in [cuts -> moved]
    OBVIOUS
  <2>2. \A x \in cuts, y \in cuts : shift[x] = shift[y] => x = y
    OBVIOUS
  <2>3. \A z \in moved : \E x \in cuts : shift[x] = z
    OBVIOUS
  <2> HIDE DEF shift, moved
  <2>4. IsInjective(shift)
    BY <2>1, <2>2 DEF IsInjective
  <2> QED BY <2>1, <2>3, <2>4 DEF Bijection, Injection, Surjection
<1>2. 0 \notin moved
  OBVIOUS
<1> HIDE DEF shift, moved
<1>3. IsFiniteSet(moved) /\ Cardinality(moved) = Cardinality(cuts)
  BY <1>1, FS_Bijection DEF ExistsBijection
<1>4. Cardinality(moved \cup {0}) = Cardinality(moved) + 1
  BY <1>2, <1>3, FS_AddElement
<1>5. moved \cup {0} = {0} \cup moved
  OBVIOUS
<1> QED BY <1>3, <1>4, <1>5, Zenon DEF moved

LEMMA CutsParted ==
    ASSUME NEW S, NEW p \in Seq(S), NEW separator \in S, NEW rest \in Seq(S), Free(p, separator)
    PROVE  Cuts(Parted(p, separator, rest), separator)
             = {0} \cup {x + (Len(p) + 1) : x \in Cuts(rest, separator)}
<1> DEFINE whole == Parted(p, separator, rest)
           by == Len(p) + 1
<1>1. Len(p) \in Nat /\ Len(rest) \in Nat /\ DOMAIN p = 1..Len(p) /\ DOMAIN rest = 1..Len(rest)
  BY LenProperties
<1>2. /\ whole \in Seq(S) /\ Len(whole) = by + Len(rest)
      /\ \A i \in 1..Len(p) : whole[i] = p[i]
      /\ whole[by] = separator
      /\ \A i \in 1..Len(rest) : whole[by + i] = rest[i]
  <2>1. whole \in Seq(S) /\ Parts(whole, p, separator, rest)
    BY PartedAt
  <2> HIDE DEF whole
  <2> QED BY <2>1 DEF Parts
<1> HIDE DEF whole
<1>3. DOMAIN whole = 1..Len(whole) /\ by \in Nat
  BY <1>1, <1>2, LenProperties
<1>4. ASSUME NEW i \in Cuts(whole, separator)
      PROVE  i \in {0} \cup {x + by : x \in Cuts(rest, separator)}
  <2>1. i = 0 \/ i = Len(whole) + 1 \/ (i \in 1..Len(whole) /\ whole[i] = separator)
    BY <1>3 DEF Cuts
  <2>2. CASE i = Len(whole) + 1
    <3>1. Len(rest) + 1 \in Cuts(rest, separator) /\ i = (Len(rest) + 1) + by
      BY <1>1, <1>2, <2>2 DEF Cuts
    <3> QED BY <3>1
  <2>3. CASE i \in 1..Len(whole) /\ whole[i] = separator
    <3>1. ~(i \in 1..Len(p))
      BY <1>1, <1>2, <2>3 DEF Free
    <3>2. CASE i = by
      <4>1. 0 \in Cuts(rest, separator) /\ i = 0 + by
        BY <1>1, <3>2 DEF Cuts
      <4> QED BY <4>1
    <3>3. CASE i # by
      <4> DEFINE x == i - by
      <4>1. x \in 1..Len(rest) /\ i = by + x /\ i = x + by
        BY <1>1, <1>2, <2>3, <3>1, <3>3
      <4>2. rest[x] = separator
        BY <1>2, <2>3, <4>1
      <4>3. x \in Cuts(rest, separator)
        BY <1>1, <4>1, <4>2 DEF Cuts
      <4> QED BY <4>1, <4>3
    <3> QED BY <3>2, <3>3
  <2> QED BY <2>1, <2>2, <2>3
<1>5. ASSUME NEW x \in Cuts(rest, separator) PROVE x + by \in Cuts(whole, separator)
  <2>1. x = 0 \/ x = Len(rest) + 1 \/ (x \in 1..Len(rest) /\ rest[x] = separator)
    BY <1>1 DEF Cuts
  <2>2. CASE x = 0
    <3>1. x + by = by /\ by \in 1..Len(whole) /\ whole[by] = separator
      BY <1>1, <1>2, <2>2
    <3> QED BY <1>3, <3>1 DEF Cuts
  <2>3. CASE x = Len(rest) + 1
    <3>1. x + by = Len(whole) + 1
      BY <1>1, <1>2, <2>3
    <3> QED BY <3>1 DEF Cuts
  <2>4. CASE x \in 1..Len(rest) /\ rest[x] = separator
    <3>1. x + by = by + x /\ by + x \in 1..Len(whole) /\ whole[by + x] = separator
      BY <1>1, <1>2, <2>4
    <3> QED BY <1>3, <3>1 DEF Cuts
  <2> QED BY <2>1, <2>2, <2>3, <2>4
<1>6. 0 \in Cuts(whole, separator)
  BY DEF Cuts
<1> QED BY <1>4, <1>5, <1>6 DEF whole

\* The sequence ends with rest, behind so many elements.
EndsIn(whole, by, rest) ==
    /\ Len(whole) = by + Len(rest)
    /\ \A i \in 1..Len(rest) : whole[by + i] = rest[i]

LEMMA SubSeqBehind ==
    ASSUME NEW S, NEW whole \in Seq(S), NEW rest \in Seq(S), NEW by \in Nat,
           EndsIn(whole, by, rest),
           NEW a \in 1..Len(rest) + 1, NEW b \in a - 1..Len(rest)
    PROVE  SubSeq(whole, a + by, b + by) = SubSeq(rest, a, b)
<1> DEFINE f == SubSeq(whole, a + by, b + by)
           g == SubSeq(rest, a, b)
<1>1. /\ Len(rest) \in Nat /\ Len(whole) \in Nat
      /\ Len(whole) = by + Len(rest)
      /\ \A i \in 1..Len(rest) : whole[by + i] = rest[i]
  BY LenProperties DEF EndsIn
<1>2. /\ f \in Seq(S) /\ Len(f) = (b + by) - (a + by) + 1
      /\ \A i \in 1..(b + by) - (a + by) + 1 : f[i] = whole[(a + by) + i - 1]
  <2>1. a + by \in 1..Len(whole) + 1 /\ b + by \in (a + by) - 1..Len(whole)
    BY <1>1
  <2> QED BY <2>1, SubSeqProperties
<1>3. /\ g \in Seq(S) /\ Len(g) = b - a + 1
      /\ \A i \in 1..b - a + 1 : g[i] = rest[a + i - 1]
  BY <1>1, SubSeqProperties, SMTT(20)
<1> HIDE DEF f, g
<1>4. Len(f) = Len(g)
  BY <1>1, <1>2, <1>3
<1>5. ASSUME NEW i \in 1..Len(f) PROVE f[i] = g[i]
  <2>1. /\ i \in 1..(b + by) - (a + by) + 1 /\ i \in 1..b - a + 1
        /\ (a + by) + i - 1 = by + (a + i - 1) /\ a + i - 1 \in 1..Len(rest)
    BY <1>1, <1>2
  <2> QED BY <1>1, <1>2, <1>3, <2>1
<1>6. f = g
  BY <1>2, <1>3, <1>4, <1>5, SeqEqual
<1> QED BY <1>6 DEF f, g

LEMMA CutsMoved ==
    ASSUME NEW S, NEW p \in Seq(S), NEW separator \in S, NEW rest \in Seq(S), Free(p, separator)
    PROVE  LET all == Cuts(Parted(p, separator, rest), separator)
               cuts == Cuts(rest, separator)
           IN  /\ Cardinality(all) = Cardinality(cuts) + 1
               /\ CutAt(all, 1) = 0 /\ CutAt(cuts, 1) = 0
               /\ \A k \in 1..Cardinality(cuts) :
                     CutAt(all, k + 1) = CutAt(cuts, k) + (Len(p) + 1)
<1> DEFINE all == Cuts(Parted(p, separator, rest), separator)
           cuts == Cuts(rest, separator)
           by == Len(p) + 1
<1>1. /\ cuts \in SUBSET Nat /\ IsFiniteSet(cuts) /\ 0 \in cuts
      /\ all \in SUBSET Nat /\ IsFiniteSet(all) /\ 0 \in all
  <2>1. Parted(p, separator, rest) \in Seq(S)
    BY PartedAt
  <2>2. 0 \in cuts /\ 0 \in all
    BY DEF Cuts
  <2> QED BY <2>1, <2>2, CutsFinite
<1>2. all = {0} \cup {x + by : x \in cuts} /\ by \in Nat /\ by > 0
  BY CutsParted, LenProperties
<1> HIDE DEF all, cuts, by
<1>3. Cardinality(all) = Cardinality(cuts) + 1
  BY <1>1, <1>2, ShiftedSize, Zenon
<1>4. ASSUME NEW set \in SUBSET Nat, IsFiniteSet(set), 0 \in set PROVE CutAt(set, 1) = 0
  <2>1. Below(set, 0) = {}
    <3>1. \A j \in set : ~(j < 0)
      OBVIOUS
    <3> QED BY <3>1 DEF Below
  <2>2. Cardinality(Below(set, 0)) + 1 = 1
    <3>1. Cardinality({}) = 0
      BY FS_EmptySet
    <3>2. Cardinality(Below(set, 0)) = 0
      BY <2>1, <3>1, Zenon
    <3> QED BY <3>2
  <2> QED BY <1>4, <2>2, CutAtRank
<1>5. ASSUME NEW k \in 1..Cardinality(cuts) PROVE CutAt(all, k + 1) = CutAt(cuts, k) + by
  <2> DEFINE x == CutAt(cuts, k)
             less == Below(cuts, x)
  <2>1. x \in cuts /\ Cardinality(less) = k - 1 /\ x \in Nat
    BY <1>1, EveryRank
  <2>2. less \in SUBSET Nat /\ IsFiniteSet(less)
    BY <1>1, BelowFinite DEF Below
  <2>3. Below(all, x + by) = {0} \cup {y + by : y \in less}
    <3> HIDE DEF x
    <3>1. ASSUME NEW z \in Below(all, x + by) PROVE z \in {0} \cup {y + by : y \in less}
      BY <1>1, <1>2, <2>1 DEF Below
    <3>2. ASSUME NEW y \in less PROVE y + by \in Below(all, x + by)
      BY <1>1, <1>2, <2>1 DEF Below
    <3>3. 0 \in Below(all, x + by)
      BY <1>1, <1>2, <2>1 DEF Below
    <3> HIDE DEF less
    <3> QED BY <3>1, <3>2, <3>3
  <2>4. Cardinality(Below(all, x + by)) = Cardinality(less) + 1
    <3> HIDE DEF x, less
    <3> QED BY <1>2, <2>2, <2>3, ShiftedSize, Zenon
  <2>5. x + by \in all
    BY <1>2, <2>1
  <2>6. Cardinality(Below(all, x + by)) + 1 = k + 1
    BY <1>1, <2>1, <2>4, FS_CardinalityType
  <2> HIDE DEF x, less
  <2>7. CutAt(all, k + 1) = x + by
    BY <1>1, <2>5, <2>6, CutAtRank
  <2> QED BY <2>7 DEF x
<1> QED BY <1>1, <1>3, <1>4, <1>5 DEF all, cuts, by

LEMMA CutsAscend ==
    ASSUME NEW cuts \in SUBSET Nat, IsFiniteSet(cuts), NEW k \in 1..Cardinality(cuts) - 1
    PROVE  /\ CutAt(cuts, k) \in cuts /\ CutAt(cuts, k + 1) \in cuts
           /\ CutAt(cuts, k) < CutAt(cuts, k + 1)
<1> DEFINE i == CutAt(cuts, k)
           j == CutAt(cuts, k + 1)
<1>1. k \in 1..Cardinality(cuts) /\ k + 1 \in 1..Cardinality(cuts) /\ (k + 1) - 1 = k
  BY FS_CardinalityType
<1>2. /\ i \in cuts /\ Cardinality(Below(cuts, i)) = k - 1
      /\ j \in cuts /\ Cardinality(Below(cuts, j)) = k
  <2>1. Cardinality(Below(cuts, j)) = (k + 1) - 1 /\ j \in cuts
    BY <1>1, EveryRank
  <2>2. i \in cuts /\ Cardinality(Below(cuts, i)) = k - 1
    BY <1>1, EveryRank
  <2> QED BY <1>1, <2>1, <2>2
<1> HIDE DEF i, j
<1>3. i \in Nat /\ j \in Nat
  BY <1>2
<1>4. i # j
  BY <1>1, <1>2
<1>5. ~(j < i)
  <2>1. j < i => Cardinality(Below(cuts, j)) < Cardinality(Below(cuts, i))
    BY <1>2, RanksDiffer
  <2> QED BY <1>1, <1>2, <2>1
<1> QED BY <1>2, <1>3, <1>4, <1>5 DEF i, j

LEMMA SplitFirst ==
    ASSUME NEW S, NEW p \in Seq(S), NEW separator \in S, NEW rest \in Seq(S), Free(p, separator)
    PROVE  /\ Split(rest, separator) \in Seq(Seq(S))
           /\ Split(Parted(p, separator, rest), separator) = <<p>> \o Split(rest, separator)
<1> DEFINE whole == Parted(p, separator, rest)
           all == Cuts(whole, separator)
           cuts == Cuts(rest, separator)
           by == Len(p) + 1
           n == Cardinality(cuts)
           pieces == Split(rest, separator)
<1>1. /\ Len(p) \in Nat /\ Len(rest) \in Nat
      /\ whole \in Seq(S) /\ Len(whole) = by + Len(rest)
      /\ \A i \in 1..Len(p) : whole[i] = p[i]
      /\ \A i \in 1..Len(rest) : whole[by + i] = rest[i]
  <2>1. whole \in Seq(S) /\ Parts(whole, p, separator, rest)
    BY PartedAt
  <2>2. Len(p) \in Nat /\ Len(rest) \in Nat
    BY LenProperties
  <2> HIDE DEF whole
  <2> QED BY <2>1, <2>2 DEF Parts
<1>2. /\ Cardinality(all) = n + 1
      /\ CutAt(all, 1) = 0 /\ CutAt(cuts, 1) = 0
      /\ \A k \in 1..n : CutAt(all, k + 1) = CutAt(cuts, k) + by
  BY CutsMoved, Zenon
<1>3. /\ cuts \in SUBSET Nat /\ IsFiniteSet(cuts) /\ n \in Nat \ {0}
      /\ \A i \in cuts : i <= Len(rest) + 1
  BY CutsFinite
<1>4. pieces = [k \in 1..n - 1 |-> SubSeq(rest, CutAt(cuts, k) + 1, CutAt(cuts, k + 1) - 1)]
  BY DEF Split
<1>5. Split(whole, separator)
        = [k \in 1..n |-> SubSeq(whole, CutAt(all, k) + 1, CutAt(all, k + 1) - 1)]
  <2>1. Cardinality(all) - 1 = n
    BY <1>2, <1>3
  <2> QED BY <2>1 DEF Split
<1> HIDE DEF whole, all, cuts, n, pieces
<1>6. ASSUME NEW k \in 1..n - 1
      PROVE  /\ CutAt(cuts, k) + 1 \in 1..Len(rest) + 1
             /\ CutAt(cuts, k + 1) - 1 \in (CutAt(cuts, k) + 1) - 1..Len(rest)
  <2>1. CutAt(cuts, k) \in cuts /\ CutAt(cuts, k + 1) \in cuts /\ CutAt(cuts, k) < CutAt(cuts, k + 1)
    BY <1>3, CutsAscend DEF n
  <2> QED BY <1>1, <1>3, <2>1
<1>7. pieces \in Seq(Seq(S)) /\ Len(pieces) = n - 1
  <2>1. ASSUME NEW k \in 1..n - 1
        PROVE  SubSeq(rest, CutAt(cuts, k) + 1, CutAt(cuts, k + 1) - 1) \in Seq(S)
    BY <1>1, <1>6
  <2>2. n - 1 \in Nat
    BY <1>3
  <2> DEFINE m == n - 1
             piece(k) == SubSeq(rest, CutAt(cuts, k) + 1, CutAt(cuts, k + 1) - 1)
  <2>3. pieces = [k \in 1..m |-> piece(k)] /\ m \in Nat /\ \A k \in 1..m : piece(k) \in Seq(S)
    BY <1>4, <2>1, <2>2
  <2> HIDE DEF m, piece
  <2>4. pieces \in Seq(Seq(S)) /\ Len(pieces) = m
    BY <2>3
  <2> QED BY <2>4 DEF m
<1>8. SubSeq(whole, CutAt(all, 1) + 1, CutAt(all, 1 + 1) - 1) = p
  <2>1. CutAt(all, 1 + 1) = by
    BY <1>1, <1>2, <1>3
  <2>2. SubSeq(whole, 1, Len(p)) = p
    <3>1. SubSeq(whole, 1, Len(p)) \in Seq(S) /\ Len(SubSeq(whole, 1, Len(p))) = Len(p)
      BY <1>1
    <3>2. \A i \in 1..Len(p) : SubSeq(whole, 1, Len(p))[i] = p[i]
      BY <1>1
    <3> QED BY <3>1, <3>2, SeqEqual
  <2>3. CutAt(all, 1) + 1 = 1 /\ CutAt(all, 1 + 1) - 1 = Len(p)
    BY <1>1, <1>2, <2>1
  <2> QED BY <2>2, <2>3
<1>9. ASSUME NEW k \in 1..n - 1
      PROVE  SubSeq(whole, CutAt(all, k + 1) + 1, CutAt(all, k + 1 + 1) - 1) = pieces[k]
  <2> DEFINE a == CutAt(cuts, k) + 1
             b == CutAt(cuts, k + 1) - 1
  <2>1. k \in 1..n /\ k + 1 \in 1..n
    BY <1>3
  <2>2. CutAt(cuts, k) \in Nat /\ CutAt(cuts, k + 1) \in Nat
    BY <1>3, CutsAscend DEF n
  <2>3. CutAt(all, k + 1) + 1 = a + by /\ CutAt(all, k + 1 + 1) - 1 = b + by
    BY <1>1, <1>2, <2>1, <2>2
  <2>4. SubSeq(whole, a + by, b + by) = SubSeq(rest, a, b)
    <3>1. a \in 1..Len(rest) + 1 /\ b \in a - 1..Len(rest) /\ by \in Nat
      BY <1>1, <1>6
    <3>2. EndsIn(whole, by, rest)
      BY <1>1 DEF EndsIn
    <3> HIDE DEF a, b, by
    <3> QED BY <1>1, <3>1, <3>2, SubSeqBehind
  <2> QED BY <1>4, <2>3, <2>4
<1>10. Split(whole, separator) \in Seq(Seq(S)) /\ Len(Split(whole, separator)) = n
  <2>1. ASSUME NEW k \in 1..n
        PROVE  SubSeq(whole, CutAt(all, k) + 1, CutAt(all, k + 1) - 1) \in Seq(S)
    <3>1. CASE k = 1
      BY <1>8, <3>1
    <3>2. CASE k # 1
      <4>1. k - 1 \in 1..n - 1 /\ (k - 1) + 1 = k
        BY <1>3, <3>2
      <4>2. SubSeq(whole, CutAt(all, (k - 1) + 1) + 1, CutAt(all, (k - 1) + 1 + 1) - 1) = pieces[k - 1]
        BY <1>9, <4>1
      <4>3. pieces[k - 1] \in Seq(S)
        BY <1>7, <4>1
      <4> QED BY <4>1, <4>2, <4>3
    <3> QED BY <3>1, <3>2
  <2> QED BY <1>3, <1>5, <2>1
<1>11. <<p>> \in Seq(Seq(S)) /\ Len(<<p>>) = 1 /\ <<p>>[1] = p
  OBVIOUS
<1>12. /\ <<p>> \o pieces \in Seq(Seq(S)) /\ Len(<<p>> \o pieces) = 1 + (n - 1)
       /\ \A k \in 1..1 + (n - 1) : (<<p>> \o pieces)[k] = IF k <= 1 THEN p ELSE pieces[k - 1]
  <2> DEFINE lone == <<p>>
  <2>1. lone \in Seq(Seq(S)) /\ Len(lone) = 1 /\ lone[1] = p
    BY <1>11
  <2> HIDE DEF lone
  <2>2. /\ lone \o pieces \in Seq(Seq(S)) /\ Len(lone \o pieces) = Len(lone) + Len(pieces)
        /\ \A k \in 1..Len(lone) + Len(pieces) :
              (lone \o pieces)[k] = IF k <= Len(lone) THEN lone[k] ELSE pieces[k - Len(lone)]
    BY <1>7, <2>1, ConcatProperties, Zenon
  <2>3. /\ lone \o pieces \in Seq(Seq(S)) /\ Len(lone \o pieces) = 1 + (n - 1)
        /\ \A k \in 1..1 + (n - 1) : (lone \o pieces)[k] = IF k <= 1 THEN p ELSE pieces[k - 1]
    BY <1>3, <1>7, <2>1, <2>2
  <2> QED BY <2>3 DEF lone
<1>13. ASSUME NEW k \in 1..n PROVE Split(whole, separator)[k] = (<<p>> \o pieces)[k]
  <2>1. k \in 1..1 + (n - 1)
    BY <1>3
  <2>2. CASE k = 1
    BY <1>5, <1>8, <1>12, <2>1, <2>2
  <2>3. CASE k # 1
    <3>1. k - 1 \in 1..n - 1 /\ (k - 1) + 1 = k /\ ~(k <= 1)
      BY <1>3, <2>3
    <3>2. Split(whole, separator)[k] = pieces[k - 1]
      BY <1>5, <1>9, <3>1
    <3> QED BY <1>12, <2>1, <3>1, <3>2
  <2> QED BY <2>2, <2>3
<1>14. Len(<<p>> \o pieces) = n
  BY <1>3, <1>12
<1>15. Split(whole, separator) = <<p>> \o pieces
  <2> DEFINE left == Split(whole, separator)
             right == <<p>> \o pieces
  <2>1. left \in Seq(Seq(S)) /\ right \in Seq(Seq(S)) /\ Len(left) = Len(right)
        /\ \A k \in 1..Len(left) : left[k] = right[k]
    BY <1>10, <1>12, <1>13, <1>14
  <2> HIDE DEF left, right
  <2>2. left = right
    BY <2>1, SeqEqual
  <2> QED BY <2>2 DEF left, right
<1> QED BY <1>7, <1>15 DEF whole, pieces
----
(***************************************************************************)
(* Messages made of texts and separators, and what they split into.        *)
(***************************************************************************)
LEMMA JoinedAssociative ==
    ASSUME NEW S, NEW x \in Seq(S), NEW y \in Seq(S), NEW z \in Seq(S)
    PROVE  Joined(Joined(x, y), z) = Joined(x, Joined(y, z))
BY ConcatAssociative DEF Joined

LEMMA FreeConcat ==
    ASSUME NEW S, NEW separator, NEW p \in Seq(S), NEW q \in Seq(S),
           Free(p, separator), Free(q, separator)
    PROVE  Free(Joined(p, q), separator)
<1> DEFINE w == p \o q
<1>1. /\ Len(p) \in Nat /\ DOMAIN p = 1..Len(p)
      /\ Len(q) \in Nat /\ DOMAIN q = 1..Len(q)
  BY LenProperties
<1>2. /\ w \in Seq(S) /\ Len(w) = Len(p) + Len(q)
      /\ \A i \in 1..Len(p) + Len(q) : w[i] = IF i <= Len(p) THEN p[i] ELSE q[i - Len(p)]
  BY ConcatProperties
<1> HIDE DEF w
<1>3. DOMAIN w = 1..Len(p) + Len(q)
  BY <1>2, LenProperties
<1>4. ASSUME NEW i \in DOMAIN w PROVE w[i] # separator
  <2>1. CASE i <= Len(p)
    <3>1. i \in DOMAIN p /\ w[i] = p[i]
      BY <1>1, <1>2, <1>3, <2>1
    <3> QED BY <3>1 DEF Free
  <2>2. CASE i > Len(p)
    <3>1. i - Len(p) \in DOMAIN q /\ w[i] = q[i - Len(p)]
      BY <1>1, <1>2, <1>3, <2>2
    <3> QED BY <3>1 DEF Free
  <2> QED BY <1>1, <1>3, <2>1, <2>2
<1> QED BY <1>4 DEF Free, Joined, w

LEMMA FreeParts ==
    ASSUME NEW S, NEW separator
    PROVE  /\ Free(<<>>, separator)
           /\ \A a \in S : a # separator => Free(<<a>>, separator)
           /\ \A a, b \in S : a # separator /\ b # separator => Free(<<a, b>>, separator)
BY DEF Free

\* A separator written after a text parts it from what is written after that.
LEMMA PartedForm ==
    ASSUME NEW S, NEW p \in Seq(S), NEW separator \in S, NEW q \in Seq(S)
    PROVE  Parted(p, separator, q) \in Seq(S) /\ p \o <<separator>> \o q = Parted(p, separator, q)
<1> DEFINE f == <<separator>>
<1>1. f \in Seq(S)
  BY Single
<1> HIDE DEF f
<1>2. f \o q \in Seq(S) /\ p \o (f \o q) \in Seq(S)
  BY <1>1, ConcatProperties
<1>3. (p \o f) \o q = p \o (f \o q)
  BY <1>1, ConcatAssociative
<1> QED BY <1>2, <1>3 DEF Parted, f

LEMMA PartedBehind ==
    ASSUME NEW S, NEW p \in Seq(S), NEW separator \in S, NEW q \in Seq(S), NEW r \in Seq(S)
    PROVE  Joined(Parted(p, separator, q), r) = Parted(p, separator, Joined(q, r))
<1> DEFINE f == <<separator>>
           g == f \o q
<1>1. f \in Seq(S)
  BY Single
<1>2. g \in Seq(S)
  <2> HIDE DEF f
  <2> QED BY <1>1, ConcatProperties
<1>3. g \o r = f \o (q \o r)
  <2> HIDE DEF f
  <2> QED BY <1>1, ConcatAssociative, SMTT(20)
<1>4. (p \o g) \o r = p \o (g \o r)
  <2> HIDE DEF g
  <2> QED BY <1>2, ConcatAssociative
<1> HIDE DEF f
<1> QED BY <1>3, <1>4, Zenon DEF Joined, Parted, f, g

Consed(whole, a, y) == /\ Len(whole) = 1 + Len(y)
                       /\ whole[1] = a
                       /\ \A i \in 1..Len(y) : whole[1 + i] = y[i]

LEMMA ConsAt ==
    ASSUME NEW S, NEW a \in S, NEW y \in Seq(S)
    PROVE  <<a>> \o y \in Seq(S) /\ Consed(<<a>> \o y, a, y)
<1> DEFINE x == <<a>>
<1>1. x \in Seq(S) /\ Len(x) = 1 /\ x[1] = a
  BY Single
<1>2. Len(y) \in Nat
  BY LenProperties
<1> HIDE DEF x
<1>3. /\ x \o y \in Seq(S) /\ Len(x \o y) = 1 + Len(y)
      /\ \A i \in 1..1 + Len(y) : (x \o y)[i] = IF i <= 1 THEN x[i] ELSE y[i - 1]
  <2>1. /\ x \o y \in Seq(S) /\ Len(x \o y) = Len(x) + Len(y)
        /\ \A i \in 1..Len(x) + Len(y) : (x \o y)[i] = IF i <= Len(x) THEN x[i] ELSE y[i - Len(x)]
    BY <1>1, ConcatProperties
  <2> QED BY <1>1, <2>1
<1>4. (x \o y)[1] = a
  BY <1>1, <1>2, <1>3
<1>5. ASSUME NEW i \in 1..Len(y) PROVE (x \o y)[1 + i] = y[i]
  <2>1. 1 + i \in 1..1 + Len(y) /\ ~(1 + i <= 1) /\ (1 + i) - 1 = i
    BY <1>2
  <2> QED BY <1>3, <2>1
<1> QED BY <1>3, <1>4, <1>5 DEF x, Consed

LEMMA Prepends1 ==
    ASSUME NEW a, NEW b
    PROVE  <<a>> \o <<b>> = <<a, b>>
<1> DEFINE S == {a, b}
           y == <<b>>
           z == <<a, b>>
           w == <<a>> \o y
<1>1. y \in Seq(S) /\ Len(y) = 1 /\ y[1] = b
  OBVIOUS
<1>2. z \in Seq(S) /\ Len(z) = 2 /\ z[1] = a /\ z[2] = b
  OBVIOUS
<1>3. a \in S
  OBVIOUS
<1> HIDE DEF S, y, z
<1>4. w \in Seq(S) /\ Consed(w, a, y)
  BY <1>1, <1>3, ConsAt
<1> HIDE DEF w
<1>5. Len(w) = 2 /\ w[1] = a /\ w[2] = b
  BY <1>1, <1>4 DEF Consed
<1>6. \A i \in 1..Len(w) : w[i] = z[i]
  BY <1>2, <1>5
<1>7. w = z
  BY <1>2, <1>4, <1>5, <1>6, SeqEqual
<1> QED BY <1>7 DEF w, y, z

LEMMA Prepends2 ==
    ASSUME NEW a, NEW b, NEW c
    PROVE  <<a>> \o <<b, c>> = <<a, b, c>>
<1> DEFINE S == {a, b, c}
           y == <<b, c>>
           z == <<a, b, c>>
           w == <<a>> \o y
<1>1. y \in Seq(S) /\ Len(y) = 2 /\ y[1] = b /\ y[2] = c
  OBVIOUS
<1>2. z \in Seq(S) /\ Len(z) = 3 /\ z[1] = a /\ z[2] = b /\ z[3] = c
  OBVIOUS
<1>3. a \in S
  OBVIOUS
<1> HIDE DEF S, y, z
<1>4. w \in Seq(S) /\ Consed(w, a, y)
  BY <1>1, <1>3, ConsAt
<1> HIDE DEF w
<1>5. Len(w) = 3 /\ w[1] = a /\ w[2] = b /\ w[3] = c
  BY <1>1, <1>4 DEF Consed
<1>6. \A i \in 1..Len(w) : w[i] = z[i]
  BY <1>2, <1>5
<1>7. w = z
  BY <1>2, <1>4, <1>5, <1>6, SeqEqual
<1> QED BY <1>7 DEF w, y, z

LEMMA Prepends3 ==
    ASSUME NEW a, NEW b, NEW c, NEW d
    PROVE  <<a>> \o <<b, c, d>> = <<a, b, c, d>>
<1> DEFINE S == {a, b, c, d}
           y == <<b, c, d>>
           z == <<a, b, c, d>>
           w == <<a>> \o y
<1>1. y \in Seq(S) /\ Len(y) = 3 /\ y[1] = b /\ y[2] = c /\ y[3] = d
  OBVIOUS
<1>2. z \in Seq(S) /\ Len(z) = 4 /\ z[1] = a /\ z[2] = b /\ z[3] = c /\ z[4] = d
  OBVIOUS
<1>3. a \in S
  OBVIOUS
<1> HIDE DEF S, y, z
<1>4. w \in Seq(S) /\ Consed(w, a, y)
  BY <1>1, <1>3, ConsAt
<1> HIDE DEF w
<1>5. Len(w) = 4 /\ w[1] = a /\ w[2] = b /\ w[3] = c /\ w[4] = d
  BY <1>1, <1>4 DEF Consed
<1>6. \A i \in 1..Len(w) : w[i] = z[i]
  BY <1>2, <1>5
<1>7. w = z
  BY <1>2, <1>4, <1>5, <1>6, SeqEqual
<1> QED BY <1>7 DEF w, y, z

LEMMA Prepends4 ==
    ASSUME NEW a, NEW b, NEW c, NEW d, NEW e
    PROVE  <<a>> \o <<b, c, d, e>> = <<a, b, c, d, e>>
<1> DEFINE S == {a, b, c, d, e}
           y == <<b, c, d, e>>
           z == <<a, b, c, d, e>>
           w == <<a>> \o y
<1>1. y \in Seq(S) /\ Len(y) = 4 /\ y[1] = b /\ y[2] = c /\ y[3] = d /\ y[4] = e
  OBVIOUS
<1>2. z \in Seq(S) /\ Len(z) = 5 /\ z[1] = a /\ z[2] = b /\ z[3] = c /\ z[4] = d /\ z[5] = e
  OBVIOUS
<1>3. a \in S
  OBVIOUS
<1> HIDE DEF S, y, z
<1>4. w \in Seq(S) /\ Consed(w, a, y)
  BY <1>1, <1>3, ConsAt
<1> HIDE DEF w
<1>5. Len(w) = 5 /\ w[1] = a /\ w[2] = b /\ w[3] = c /\ w[4] = d /\ w[5] = e
  BY <1>1, <1>4 DEF Consed
<1>6. \A i \in 1..Len(w) : w[i] = z[i]
  BY <1>2, <1>5
<1>7. w = z
  BY <1>2, <1>4, <1>5, <1>6, SeqEqual
<1> QED BY <1>7 DEF w, y, z

\* Three texts, as PLAIN sends them.
Threefold(p, q, r, separator) == p \o <<separator>> \o q \o <<separator>> \o r

LEMMA SplitThree ==
    ASSUME NEW S, NEW separator \in S, NEW p \in Seq(S), NEW q \in Seq(S), NEW r \in Seq(S),
           Free(p, separator), Free(q, separator), Free(r, separator)
    PROVE  Split(Threefold(p, q, r, separator), separator) = <<p, q, r>>
<1> DEFINE f == <<separator>>
           rest == Parted(q, separator, r)
<1>1. f \in Seq(S)
  BY Single
<1>2. q \o f \in Seq(S)
  <2> HIDE DEF f
  <2> QED BY <1>1, ConcatProperties
<1>3. rest \in Seq(S) /\ q \o f \o r = rest
  BY PartedForm
<1>4. p \o f \o q = Parted(p, separator, q)
  BY PartedForm
<1>5. Parted(p, separator, q) \o f = Parted(p, separator, q \o f)
  <2> HIDE DEF f
  <2>1. Joined(Parted(p, separator, q), f) = Parted(p, separator, Joined(q, f))
    BY <1>1, PartedBehind
  <2> QED BY <2>1 DEF Joined
<1>6. Parted(p, separator, q \o f) \o r = Parted(p, separator, q \o f \o r)
  <2> DEFINE g == q \o f
  <2>1. g \in Seq(S)
    BY <1>2
  <2> HIDE DEF g
  <2>2. Joined(Parted(p, separator, g), r) = Parted(p, separator, Joined(g, r))
    BY <2>1, PartedBehind
  <2> QED BY <2>2 DEF Joined, g
<1>7. p \o f \o q \o f \o r = Parted(p, separator, rest)
  <2> HIDE DEF f, rest
  <2> QED BY <1>3, <1>4, <1>5, <1>6, Zenon
<1>8. Split(Parted(p, separator, rest), separator) = <<p>> \o Split(rest, separator)
  <2> HIDE DEF rest
  <2> QED BY <1>3, SplitFirst
<1>9. Split(rest, separator) = <<q>> \o <<r>>
  <2>1. Split(rest, separator) = <<q>> \o Split(r, separator)
    BY SplitFirst
  <2>2. Split(r, separator) = <<r>>
    BY SplitNone
  <2> QED BY <2>1, <2>2, Zenon
<1>10. <<q>> \o <<r>> = <<q, r>> /\ <<p>> \o <<q, r>> = <<p, q, r>>
  BY Prepends1, Prepends2, Zenon
<1> QED BY <1>7, <1>8, <1>9, <1>10, Zenon DEF Threefold

\* Two separators close a list of pairs.
LEMMA SplitClosed ==
    ASSUME NEW S, NEW separator \in S, NEW q \in Seq(S), Free(q, separator)
    PROVE  /\ q \o <<separator, separator>> \in Seq(S)
           /\ Split(q \o <<separator, separator>>, separator) = <<q, <<>>, <<>>>>
<1> DEFINE f == <<separator>>
           ff == <<separator, separator>>
           none == <<>>
<1>1. f \in Seq(S) /\ ff \in Seq(S) /\ none \in Seq(S) /\ ff = f \o f
  <2>1. f \in Seq(S) /\ ff \in Seq(S) /\ none \in Seq(S)
    OBVIOUS
  <2>2. f \o f = ff
    BY Prepends1, Zenon
  <2> QED BY <2>1, <2>2
<1>2. f = Parted(none, separator, none)
  <2>1. f \o none = f /\ none \o f = f
    <3> HIDE DEF f
    <3> QED BY <1>1, ConcatEmptySeq
  <2> HIDE DEF none
  <2> QED BY <2>1, Zenon DEF Parted
<1>3. Free(none, separator)
  BY FreeParts
<1>4. Split(f, separator) = <<none, none>>
  <2>1. Split(Parted(none, separator, none), separator) = <<none>> \o Split(none, separator)
    <3> HIDE DEF none
    <3> QED BY <1>1, <1>3, SplitFirst
  <2>2. Split(none, separator) = <<none>>
    <3> HIDE DEF none
    <3> QED BY <1>1, <1>3, SplitNone
  <2>3. <<none>> \o <<none>> = <<none, none>>
    BY Prepends1, Zenon
  <2> QED BY <1>2, <2>1, <2>2, <2>3, Zenon
<1>5. q \o ff = Parted(q, separator, f)
  <2> HIDE DEF ff
  <2> QED BY <1>1, Zenon DEF Parted, f
<1>6. Split(Parted(q, separator, f), separator) = <<q>> \o Split(f, separator)
  <2> HIDE DEF f
  <2> QED BY <1>1, SplitFirst
<1>7. <<q>> \o <<none, none>> = <<q, none, none>>
  BY Prepends2, Zenon
<1>8. q \o ff \in Seq(S)
  <2> HIDE DEF ff
  <2> QED BY <1>1, ConcatProperties
<1> QED BY <1>4, <1>5, <1>6, <1>7, <1>8, Zenon

\* A word and a text, a separator, another word and another text, and the close.
Pairs(u, x, a, t, separator) ==
    <<u>> \o x \o <<separator, a>> \o t \o <<separator, separator>>

PairsApart(u, x, a, t, separator) ==
    Split(Pairs(u, x, a, t, separator), separator)
      = << <<u>> \o x, <<a>> \o t, <<>>, <<>> >>

LEMMA SplitPairs ==
    ASSUME NEW S, NEW separator \in S, NEW u \in S, NEW a \in S, u # separator, a # separator,
           NEW x \in Seq(S), NEW t \in Seq(S), Free(x, separator), Free(t, separator)
    PROVE  PairsApart(u, x, a, t, separator)
<1> SUFFICES Split(Pairs(u, x, a, t, separator), separator)
                = << <<u>> \o x, <<a>> \o t, <<>>, <<>> >>
  BY Zenon DEF PairsApart
<1> DEFINE word == <<a>>
           p == <<u>> \o x
           q == word \o t
           f == <<separator>>
           fa == <<separator, a>>
           ff == <<separator, separator>>
           none == <<>>
           rest == q \o ff
<1>1. word \in Seq(S) /\ f \in Seq(S) /\ Free(word, separator)
  BY FreeParts
<1>2. p \in Seq(S) /\ Free(p, separator) /\ q \in Seq(S) /\ Free(q, separator)
  <2> DEFINE v == <<u>>
  <2>1. v \in Seq(S) /\ Free(v, separator)
    BY FreeParts
  <2> HIDE DEF v, word
  <2>2. v \o x \in Seq(S) /\ word \o t \in Seq(S)
    BY <1>1, <2>1, ConcatProperties
  <2>3. Free(v \o x, separator) /\ Free(word \o t, separator)
    <3>1. Free(Joined(v, x), separator) /\ Free(Joined(word, t), separator)
      BY <1>1, <2>1, FreeConcat
    <3> QED BY <3>1 DEF Joined
  <2> QED BY <2>2, <2>3 DEF v
<1>3. rest \in Seq(S) /\ Split(rest, separator) = <<q, none, none>>
  <2> HIDE DEF q
  <2> QED BY <1>2, SplitClosed, Zenon
<1>4. p \o fa = Parted(p, separator, word)
  <2>1. f \o word = fa
    BY Prepends1, Zenon
  <2> HIDE DEF fa, p, word
  <2> QED BY <2>1, Zenon DEF Parted, f
<1>5. Parted(p, separator, word) \o t = Parted(p, separator, q)
  <2> HIDE DEF p, word
  <2>1. Joined(Parted(p, separator, word), t) = Parted(p, separator, Joined(word, t))
    BY <1>1, <1>2, PartedBehind
  <2> QED BY <2>1 DEF Joined
<1>6. Parted(p, separator, q) \o ff = Parted(p, separator, rest)
  <2>1. ff \in Seq(S)
    OBVIOUS
  <2> HIDE DEF p, q, ff
  <2>2. Joined(Parted(p, separator, q), ff) = Parted(p, separator, Joined(q, ff))
    BY <1>2, <2>1, PartedBehind
  <2> QED BY <2>2 DEF Joined
<1>7. p \o fa \o t \o ff = Parted(p, separator, rest)
  <2> HIDE DEF p, fa, ff, rest, word, q
  <2> QED BY <1>4, <1>5, <1>6, Zenon
<1>8. Split(Parted(p, separator, rest), separator) = <<p>> \o Split(rest, separator)
  <2> HIDE DEF p, rest
  <2> QED BY <1>2, <1>3, SplitFirst
<1>9. <<p>> \o <<q, none, none>> = <<p, q, none, none>>
  <2> HIDE DEF p, q, none
  <2> QED BY Prepends3
<1> QED BY <1>3, <1>7, <1>8, <1>9, Zenon DEF Pairs

\* The GS2 header that opens an OAUTHBEARER message, and the pairs behind it.
Opening(n, comma, a, equals, user) == <<n, comma, a, equals>> \o user \o <<comma>>

OpeningApart(n, comma, a, equals, user) ==
    Split(Opening(n, comma, a, equals, user), comma)
      = << <<n>>, <<a, equals>> \o user, <<>> >>

LEMMA SplitOpening ==
    ASSUME NEW S, NEW comma \in S, NEW n \in S, NEW a \in S, NEW equals \in S,
           n # comma, a # comma, equals # comma,
           NEW user \in Seq(S), Free(user, comma)
    PROVE  OpeningApart(n, comma, a, equals, user)
<1> SUFFICES Split(Opening(n, comma, a, equals, user), comma)
                = << <<n>>, <<a, equals>> \o user, <<>> >>
  BY Zenon DEF OpeningApart
<1> DEFINE f == <<n>>
           ae == <<a, equals>>
           none == <<>>
           sep == <<comma>>
           named == ae \o user
           rest == Parted(named, comma, none)
<1>1. /\ f \in Seq(S) /\ ae \in Seq(S) /\ sep \in Seq(S) /\ none \in Seq(S)
      /\ Free(f, comma) /\ Free(ae, comma) /\ Free(none, comma)
  BY FreeParts
<1>2. named \in Seq(S) /\ Free(named, comma)
  <2> HIDE DEF ae
  <2>1. named \in Seq(S)
    BY <1>1, ConcatProperties
  <2>2. Free(Joined(ae, user), comma)
    BY <1>1, FreeConcat
  <2> QED BY <2>1, <2>2 DEF Joined
<1>3. rest \in Seq(S)
  <2> HIDE DEF named, none
  <2> QED BY <1>1, <1>2, PartedAt
<1>4. Opening(n, comma, a, equals, user) = Parted(f, comma, rest)
  <2>1. <<n, comma, a, equals>> = Parted(f, comma, ae)
    <3>1. sep \o ae = <<comma, a, equals>>
      BY Prepends2, Zenon
    <3>2. f \o <<comma, a, equals>> = <<n, comma, a, equals>>
      BY Prepends3
    <3> QED BY <3>1, <3>2, Zenon DEF Parted
  <2>2. Parted(f, comma, ae) \o user = Parted(f, comma, named)
    <3> HIDE DEF f, ae
    <3>1. Joined(Parted(f, comma, ae), user) = Parted(f, comma, Joined(ae, user))
      BY <1>1, PartedBehind
    <3> QED BY <3>1 DEF Joined
  <2>3. Parted(f, comma, named) \o sep = Parted(f, comma, named \o sep)
    <3> HIDE DEF f, named, sep
    <3>1. Joined(Parted(f, comma, named), sep) = Parted(f, comma, Joined(named, sep))
      BY <1>1, <1>2, PartedBehind
    <3> QED BY <3>1 DEF Joined
  <2>4. named \o sep = rest
    <3>1. sep \o none = sep
      <4> HIDE DEF sep
      <4> QED BY <1>1, ConcatEmptySeq
    <3> HIDE DEF named
    <3> QED BY <3>1, Zenon DEF Parted
  <2> HIDE DEF f, ae, named, rest
  <2> QED BY <2>1, <2>2, <2>3, <2>4, Zenon DEF Opening
<1>5. Split(Parted(f, comma, rest), comma) = <<f>> \o Split(rest, comma)
  <2> HIDE DEF f, rest
  <2> QED BY <1>1, <1>3, SplitFirst
<1>6. Split(rest, comma) = <<named>> \o Split(none, comma)
  <2> HIDE DEF named, none
  <2> QED BY <1>1, <1>2, SplitFirst
<1>7. Split(none, comma) = <<none>>
  <2> HIDE DEF none
  <2> QED BY <1>1, SplitNone
<1>8. <<named>> \o <<none>> = <<named, none>> /\ <<f>> \o <<named, none>> = <<f, named, none>>
  BY Prepends1, Prepends2, Zenon
<1> QED BY <1>4, <1>5, <1>6, <1>7, <1>8, Zenon

BearerMessage(n, comma, a, equals, h, k, port, au, user, host, token, separator) ==
    <<n, comma, a, equals>> \o user \o <<comma, separator, h>> \o host
      \o <<separator, k, port, separator, au>> \o token \o <<separator, separator>>

BearerApart(n, comma, a, equals, h, k, port, au, user, host, token, separator) ==
    Split(BearerMessage(n, comma, a, equals, h, k, port, au, user, host, token, separator), separator)
      = <<Opening(n, comma, a, equals, user)>>
          \o << <<h>> \o host, <<k, port>>, <<au>> \o token, <<>>, <<>> >>

LEMMA SplitBearer ==
    ASSUME NEW S, NEW separator \in S,
           NEW comma \in S, NEW n \in S, NEW a \in S, NEW equals \in S, NEW h \in S, NEW k \in S,
           NEW port \in S, NEW au \in S,
           comma # separator, n # separator, a # separator, equals # separator, h # separator,
           k # separator, port # separator, au # separator,
           NEW user \in Seq(S), NEW host \in Seq(S), NEW token \in Seq(S),
           Free(user, separator), Free(host, separator), Free(token, separator)
    PROVE  BearerApart(n, comma, a, equals, h, k, port, au, user, host, token, separator)
<1> SUFFICES Split(BearerMessage(n, comma, a, equals, h, k, port, au, user, host, token, separator), separator)
                = <<Opening(n, comma, a, equals, user)>>
                    \o << <<h>> \o host, <<k, port>>, <<au>> \o token, <<>>, <<>> >>
  BY Zenon DEF BearerApart
<1> DEFINE lead == <<n, comma, a, equals>>
           end == <<comma>>
           first == Opening(n, comma, a, equals, user)
           hh == <<h>>
           H == hh \o host
           P == <<k, port>>
           word == <<au>>
           T == word \o token
           f == <<separator>>
           mid == <<comma, separator, h>>
           ports == <<separator, k, port, separator, au>>
           ff == <<separator, separator>>
           none == <<>>
           closed == T \o ff
           tail == Parted(P, separator, closed)
           rest == Parted(H, separator, tail)
<1>1. /\ lead \in Seq(S) /\ end \in Seq(S) /\ hh \in Seq(S) /\ P \in Seq(S) /\ word \in Seq(S)
      /\ f \in Seq(S) /\ ff \in Seq(S)
      /\ Free(end, separator) /\ Free(hh, separator) /\ Free(P, separator) /\ Free(word, separator)
  BY FreeParts
<1>2. Free(lead, separator)
  BY DEF Free
<1>3. first \in Seq(S) /\ Free(first, separator)
  <2> HIDE DEF lead, end
  <2>1. first = Joined(Joined(lead, user), end)
    BY Zenon DEF Opening, Joined, lead, end
  <2>2. Joined(lead, user) \in Seq(S) /\ Joined(Joined(lead, user), end) \in Seq(S)
    BY <1>1, ConcatProperties DEF Joined
  <2>3. Free(Joined(lead, user), separator)
    BY <1>1, <1>2, FreeConcat
  <2>4. Free(Joined(Joined(lead, user), end), separator)
    BY <1>1, <2>2, <2>3, FreeConcat
  <2> QED BY <2>1, <2>2, <2>4, Zenon
<1>4. H \in Seq(S) /\ Free(H, separator) /\ T \in Seq(S) /\ Free(T, separator)
  <2> HIDE DEF hh, word
  <2>1. H \in Seq(S) /\ T \in Seq(S)
    BY <1>1, ConcatProperties
  <2>2. Free(Joined(hh, host), separator) /\ Free(Joined(word, token), separator)
    BY <1>1, FreeConcat
  <2> QED BY <2>1, <2>2 DEF Joined
<1>5. closed \in Seq(S) /\ Split(closed, separator) = <<T, none, none>>
  <2> HIDE DEF T
  <2> QED BY <1>4, SplitClosed, Zenon
<1>6. tail \in Seq(S) /\ rest \in Seq(S)
  <2>1. tail \in Seq(S)
    <3> HIDE DEF P, closed
    <3> QED BY <1>1, <1>5, PartedAt
  <2> HIDE DEF H, tail
  <2> QED BY <1>4, <2>1, PartedAt
<1>7. Split(tail, separator) = <<P, T, none, none>>
  <2>1. Split(tail, separator) = <<P>> \o Split(closed, separator)
    <3>1. P \in Seq(S) /\ Free(P, separator)
      BY <1>1
    <3> HIDE DEF P, closed
    <3> QED BY <1>5, <3>1, SplitFirst
  <2>2. <<P>> \o <<T, none, none>> = <<P, T, none, none>>
    <3> HIDE DEF P, T, none
    <3> QED BY Prepends3
  <2> QED BY <1>5, <2>1, <2>2, Zenon
<1>8. Split(rest, separator) = <<H, P, T, none, none>>
  <2>1. Split(rest, separator) = <<H>> \o Split(tail, separator)
    <3> HIDE DEF H, tail
    <3> QED BY <1>4, <1>6, SplitFirst, ZenonT(30)
  <2>2. <<H>> \o <<P, T, none, none>> = <<H, P, T, none, none>>
    <3> HIDE DEF H, P, T, none
    <3> QED BY Prepends4
  <2> QED BY <1>7, <2>1, <2>2, Zenon
<1>9. Split(Parted(first, separator, rest), separator) = <<first>> \o Split(rest, separator)
  <2> HIDE DEF first, rest
  <2> QED BY <1>3, <1>6, SplitFirst, ZenonT(30)
<1>10. lead \o user \o mid = Parted(first, separator, hh)
  <2> DEFINE x == lead \o user
  <2>1. x \in Seq(S)
    <3> HIDE DEF lead
    <3> QED BY <1>1, ConcatProperties
  <2>2. mid = end \o (f \o hh)
    <3>1. f \o hh = <<separator, h>>
      BY Prepends1, Zenon
    <3>2. end \o <<separator, h>> = mid
      BY Prepends2, Zenon
    <3> QED BY <3>1, <3>2, Zenon
  <2>3. f \o hh \in Seq(S)
    <3> HIDE DEF f, hh
    <3> QED BY <1>1, ConcatProperties
  <2>4. (x \o end) \o (f \o hh) = x \o (end \o (f \o hh))
    <3> DEFINE y == f \o hh
    <3>1. y \in Seq(S)
      BY <2>3
    <3> HIDE DEF x, end, y
    <3>2. Joined(Joined(x, end), y) = Joined(x, Joined(end, y))
      BY <1>1, <2>1, <3>1, JoinedAssociative
    <3> QED BY <3>2 DEF Joined, y
  <2>5. x \o end = first
    BY Zenon DEF Opening
  <2> HIDE DEF x, mid, end, first, hh
  <2> QED BY <2>2, <2>4, <2>5, Zenon DEF Parted, f, x
<1>11. Parted(first, separator, hh) \o host = Parted(first, separator, H)
  <2> HIDE DEF first, hh
  <2>1. Joined(Parted(first, separator, hh), host) = Parted(first, separator, Joined(hh, host))
    BY <1>1, <1>3, PartedBehind
  <2> QED BY <2>1 DEF Joined
<1>12. Parted(first, separator, H) \o ports
         = Parted(first, separator, Parted(H, separator, Parted(P, separator, word)))
  <2> DEFINE pw == Parted(P, separator, word)
  <2>1. pw = P \o <<separator, au>>
    <3>1. f \o word = <<separator, au>>
      BY Prepends1, Zenon
    <3> QED BY <3>1, Zenon DEF Parted
  <2>2. pw = <<k, port, separator, au>>
    <3>1. <<k>> \o <<port>> = P
      BY Prepends1, Zenon
    <3>2. <<port>> \o <<separator, au>> = <<port, separator, au>>
      BY Prepends2, Zenon
    <3>3. <<k>> \o <<port, separator, au>> = <<k, port, separator, au>>
      BY Prepends3
    <3>4. (<<k>> \o <<port>>) \o <<separator, au>> = <<k>> \o (<<port>> \o <<separator, au>>)
      <4> DEFINE x == <<k>>
                 y == <<port>>
                 z == <<separator, au>>
      <4>1. x \in Seq(S) /\ y \in Seq(S) /\ z \in Seq(S)
        OBVIOUS
      <4> HIDE DEF x, y, z
      <4>2. Joined(Joined(x, y), z) = Joined(x, Joined(y, z))
        BY <4>1, JoinedAssociative
      <4> QED BY <4>2 DEF Joined, x, y, z
    <3> QED BY <2>1, <3>1, <3>2, <3>3, <3>4, Zenon
  <2>3. f \o <<k, port, separator, au>> = ports
    BY Prepends4
  <2>4. H \o ports = Parted(H, separator, pw)
    <3> HIDE DEF H, pw, ports
    <3> QED BY <2>2, <2>3, Zenon DEF Parted, f
  <2>5. ports \in Seq(S)
    OBVIOUS
  <2>6. Joined(Parted(first, separator, H), ports) = Parted(first, separator, Joined(H, ports))
    <3> HIDE DEF first, H, ports
    <3> QED BY <1>3, <1>4, <2>5, PartedBehind
  <2> HIDE DEF first, H, ports, pw
  <2> QED BY <2>4, <2>6 DEF Joined, pw
<1>13. Parted(first, separator, Parted(H, separator, Parted(P, separator, word))) \o token
         = Parted(first, separator, Parted(H, separator, Parted(P, separator, T)))
  <2> DEFINE pw == Parted(P, separator, word)
             hpw == Parted(H, separator, pw)
  <2>1. pw \in Seq(S)
    <3> HIDE DEF P, word
    <3> QED BY <1>1, PartedAt
  <2>2. hpw \in Seq(S)
    <3> HIDE DEF H, pw
    <3> QED BY <1>4, <2>1, PartedAt
  <2>3. Joined(Parted(first, separator, hpw), token) = Parted(first, separator, Joined(hpw, token))
    <3> HIDE DEF first, hpw
    <3> QED BY <1>3, <2>2, PartedBehind
  <2>4. Joined(hpw, token) = Parted(H, separator, Joined(pw, token))
    <3> HIDE DEF H, pw
    <3> QED BY <1>4, <2>1, PartedBehind
  <2>5. Joined(pw, token) = Parted(P, separator, Joined(word, token))
    <3> HIDE DEF P, word
    <3> QED BY <1>1, PartedBehind
  <2> HIDE DEF first, H, P, word
  <2> QED BY <2>3, <2>4, <2>5, Zenon DEF Joined
<1>14. Parted(first, separator, Parted(H, separator, Parted(P, separator, T))) \o ff
         = Parted(first, separator, rest)
  <2> DEFINE pw == Parted(P, separator, T)
             hpw == Parted(H, separator, pw)
  <2>1. pw \in Seq(S)
    <3> HIDE DEF P, T
    <3> QED BY <1>1, <1>4, PartedAt
  <2>2. hpw \in Seq(S)
    <3> HIDE DEF H, pw
    <3> QED BY <1>4, <2>1, PartedAt
  <2>3. Joined(Parted(first, separator, hpw), ff) = Parted(first, separator, Joined(hpw, ff))
    <3> HIDE DEF first, hpw, ff
    <3> QED BY <1>1, <1>3, <2>2, PartedBehind
  <2>4. Joined(hpw, ff) = Parted(H, separator, Joined(pw, ff))
    <3> HIDE DEF H, pw, ff
    <3> QED BY <1>1, <1>4, <2>1, PartedBehind
  <2>5. Joined(pw, ff) = Parted(P, separator, Joined(T, ff))
    <3> HIDE DEF P, T, ff
    <3> QED BY <1>1, <1>4, PartedBehind
  <2> HIDE DEF first, H, P, T, ff
  <2> QED BY <2>3, <2>4, <2>5, Zenon DEF Joined
<1>15. lead \o user \o mid \o host \o ports \o token \o ff = Parted(first, separator, rest)
  <2> HIDE DEF lead, mid, ports, ff, first, rest, H, P, T, hh, word
  <2> QED BY <1>10, <1>11, <1>12, <1>13, <1>14, Zenon
<1> HIDE DEF first, rest
<1> QED BY <1>8, <1>9, <1>15, Zenon DEF BearerMessage, first

LEMMA FreeTuples ==
    ASSUME NEW separator
    PROVE  /\ Free(<<>>, separator)
           /\ \A a : a # separator => Free(<<a>>, separator)
           /\ \A a, b : a # separator /\ b # separator => Free(<<a, b>>, separator)
           /\ \A a, b, c : a # separator /\ b # separator /\ c # separator
                           => Free(<<a, b, c>>, separator)
BY DEF Free

\* An escaped identity holds no comma.
LEMMA EscapeTokenFree ==
    ASSUME NEW c \in Tokens
    PROVE  Free(EscapeToken(c), ",")
<1>1. CASE c = "="
  <2>1. EscapeToken(c) = <<"=", "3", "D">>
    BY <1>1 DEF EscapeToken
  <2>2. "=" # "," /\ "3" # "," /\ "D" # ","
    OBVIOUS
  <2> QED BY <2>1, <2>2, FreeTuples, Zenon
<1>2. CASE c = ","
  <2>1. EscapeToken(c) = <<"=", "2", "C">>
    BY <1>2 DEF EscapeToken
  <2>2. "=" # "," /\ "2" # "," /\ "C" # ","
    OBVIOUS
  <2> QED BY <2>1, <2>2, FreeTuples, Zenon
<1>3. CASE c # "=" /\ c # ","
  <2>1. EscapeToken(c) = <<c>>
    BY <1>3 DEF EscapeToken
  <2> QED BY <1>3, <2>1, FreeTuples, Zenon
<1> QED BY <1>1, <1>2, <1>3

LEMMA EscapeFree == \A name \in Seq(Tokens) : Free(Escape(name), ",")
<1> DEFINE T == {name \in Seq(Tokens) : Free(Escape(name), ",")}
<1> HIDE DEF Tokens
<1>1. <<>> \in T
  BY EscapeEmpty, EmptySeq, FreeTuples
<1>2. ASSUME NEW s \in Seq(Tokens), s # <<>>, Tail(s) \in T PROVE s \in T
  <2> DEFINE c == Head(s)
             tail == Tail(s)
  <2>1. c \in Tokens /\ tail \in Seq(Tokens) /\ s = <<c>> \o tail
    BY <1>2, HeadTail
  <2>2. Free(Escape(tail), ",") /\ Escape(tail) \in Seq(Tokens)
    BY <1>2, EscapeType
  <2> HIDE DEF c, tail, T
  <2>3. Escape(s) = EscapeToken(c) \o Escape(tail)
    BY <2>1, EscapeCons
  <2>4. EscapeToken(c) \in Seq(Tokens) /\ Free(EscapeToken(c), ",")
    BY <2>1, EscapeTokenShape, EscapeTokenFree
  <2>5. Free(Joined(EscapeToken(c), Escape(tail)), ",")
    <3> DEFINE x == EscapeToken(c)
               y == Escape(tail)
    <3>1. x \in Seq(Tokens) /\ y \in Seq(Tokens) /\ Free(x, ",") /\ Free(y, ",")
      BY <2>2, <2>4
    <3> HIDE DEF x, y
    <3>2. Free(Joined(x, y), ",")
      BY <3>1, FreeConcat
    <3> QED BY <3>2 DEF x, y
  <2>6. Free(Escape(s), ",")
    BY <2>3, <2>5, Zenon DEF Joined
  <2> QED BY <2>6 DEF T
<1>3. Seq(Tokens) \subseteq T
  <2> HIDE DEF T
  <2> QED BY <1>1, <1>2, SeqInductiveTail
<1> QED BY <1>3

LEMMA FlagFree ==
    ASSUME NEW b \in Bindings
    PROVE  Free(Flag(b), ",")
<1>1. CASE IsBound(b)
  <2>1. Flag(b) = <<"p", "=", KindName[b.kind]>> /\ b.kind \in DOMAIN KindName
    BY <1>1, BindingShape, KindsAssumption DEF Flag
  <2>2. KindName[b.kind] # "," /\ "p" # "," /\ "=" # ","
    <3>1. b.kind \in {"TlsExporter", "TlsUnique", "TlsServerEndPoint"}
      BY <2>1 DEF KindName
    <3>2. /\ KindName["TlsExporter"] = "tls-exporter" /\ KindName["TlsUnique"] = "tls-unique"
          /\ KindName["TlsServerEndPoint"] = "tls-server-end-point"
      BY DEF KindName
    <3> QED BY <3>1, <3>2
  <2> QED BY <2>1, <2>2, FreeTuples, Zenon
<1>2. CASE ~IsBound(b)
  <2>1. Flag(b) = <<b.flag>> /\ b.flag # ","
    BY <1>2, BindingShape DEF Flag
  <2> QED BY <2>1, FreeTuples, Zenon
<1> QED BY <1>1, <1>2

LEMMA IdentityFree ==
    ASSUME NEW a \in Identities
    PROVE  Free(Identity(a), ",")
<1>1. CASE a = NoAuthzid
  BY <1>1, FreeTuples, Zenon DEF Identity
<1>2. CASE a # NoAuthzid
  <2> DEFINE ae == <<"a", "=">>
             e == Escape(a)
  <2>1. "a" \in Tokens /\ "=" \in Tokens
    BY DEF Tokens
  <2> HIDE DEF Tokens
  <2>2. ae \in Seq(Tokens)
    BY <2>1, Tuples, Zenon
  <2>3. Free(ae, ",")
    <3>1. "a" # "," /\ "=" # ","
      OBVIOUS
    <3> QED BY <3>1, FreeTuples, Zenon
  <2>4. e \in Seq(Tokens) /\ Free(e, ",")
    BY <1>2, EscapeType, EscapeFree DEF Identities
  <2>5. Identity(a) = Joined(ae, e)
    BY <1>2, Zenon DEF Identity, Joined
  <2> HIDE DEF ae, e
  <2>6. Free(Joined(ae, e), ",")
    BY <2>2, <2>3, <2>4, FreeConcat
  <2> QED BY <2>5, <2>6, Zenon
<1> QED BY <1>1, <1>2

\* What a server finds of a header and what follows it: the flag up to the first comma, the
\* identity up to the second, and the rest behind it.
LEMMA SplitHeader ==
    ASSUME NEW b \in Bindings, NEW a \in Identities, NEW rest \in Seq(Tokens)
    PROVE  LET bytes == Headed(b, a, rest)
               pieces == Split(bytes, ",")
           IN  /\ pieces[1] = Flag(b)
               /\ pieces[2] = Identity(a)
               /\ SubSeq(bytes, Len(pieces[1]) + Len(pieces[2]) + 3, Len(bytes)) = rest
<1> DEFINE bytes == Headed(b, a, rest)
           f == Flag(b)
           id == Identity(a)
           behind == Remainder(a, rest)
           pieces == Split(bytes, ",")
           by == Len(f) + Len(id) + 2
<1>1. "," \in Tokens
  BY DEF Tokens
<1> HIDE DEF Tokens
<1>2. /\ f \in Seq(Tokens) /\ Free(f, ",")
      /\ id \in Seq(Tokens) /\ Free(id, ",")
      /\ behind \in Seq(Tokens)
  BY FlagShape, FlagFree, RemainderForm, IdentityFree, RemainderCases
<1>3. bytes = Parted(f, ",", behind)
  BY HeaderForm, Zenon DEF Headed, Parted, Behind
<1>4. behind = Parted(id, ",", rest)
  BY RemainderForm, Zenon DEF Parted, Behind
<1> DEFINE others == Split(rest, ",")
<1> HIDE DEF f, id, behind, bytes, others
<1>5. others \in Seq(Seq(Tokens)) /\ Split(Parted(id, ",", rest), ",") = <<id>> \o others
  BY <1>1, <1>2, SplitFirst DEF others
<1>6. Split(Parted(f, ",", behind), ",") = <<f>> \o Split(behind, ",")
  BY <1>1, <1>2, SplitFirst
<1>7. pieces = <<f>> \o (<<id>> \o others)
  BY <1>3, <1>4, <1>5, <1>6, Zenon
<1>8. pieces[1] = f /\ pieces[2] = id
  <2> DEFINE front == <<id>> \o others
  <2>1. front \in Seq(Seq(Tokens)) /\ Consed(front, id, others)
    BY <1>2, <1>5, ConsAt
  <2> HIDE DEF front
  <2>2. Consed(<<f>> \o front, f, front)
    BY <1>2, <2>1, ConsAt
  <2>3. Consed(pieces, f, front)
    BY <1>7, <2>2, Zenon DEF front
  <2>4. Len(others) \in Nat
    BY <1>5, LenProperties
  <2> HIDE DEF pieces
  <2>5. pieces[1] = f /\ Len(front) = 1 + Len(others) /\ front[1] = id
    BY <2>1, <2>3 DEF Consed
  <2>6. 1 \in 1..Len(front)
    BY <2>4, <2>5
  <2>7. pieces[1 + 1] = front[1]
    BY <2>3, <2>6 DEF Consed
  <2> QED BY <2>5, <2>7
<1>9. EndsIn(bytes, by, rest)
  <2>1. Parts(bytes, f, ",", behind)
    BY <1>1, <1>2, <1>3, PartedAt
  <2>2. Parts(behind, id, ",", rest)
    BY <1>1, <1>2, <1>4, PartedAt
  <2>3. Len(f) \in Nat /\ Len(id) \in Nat /\ Len(rest) \in Nat
    BY <1>2, LenProperties
  <2>4. Len(bytes) = Len(f) + 1 + Len(behind) /\ Len(behind) = Len(id) + 1 + Len(rest)
    BY <2>1, <2>2 DEF Parts
  <2>5. ASSUME NEW i \in 1..Len(rest) PROVE bytes[by + i] = rest[i]
    <3> DEFINE j == Len(id) + 1 + i
    <3>1. j \in 1..Len(behind) /\ Len(f) + 1 + j = by + i
      BY <2>3, <2>4
    <3>2. behind[j] = rest[i]
      BY <2>2 DEF Parts
    <3> HIDE DEF j, by
    <3>3. bytes[Len(f) + 1 + j] = behind[j]
      BY <2>1, <3>1 DEF Parts
    <3> QED BY <3>1, <3>2, <3>3
  <2> QED BY <2>3, <2>4, <2>5 DEF EndsIn
<1>10. SubSeq(bytes, 1 + by, Len(rest) + by) = rest
  <2>1. bytes \in Seq(Tokens)
    BY <1>1, <1>2, <1>3, PartedAt
  <2>2. by \in Nat /\ Len(rest) \in Nat
    <3>1. Len(f) \in Nat /\ Len(id) \in Nat /\ Len(rest) \in Nat
      BY <1>2, LenProperties
    <3> QED BY <3>1
  <2>3. 1 \in 1..Len(rest) + 1 /\ Len(rest) \in 1 - 1..Len(rest)
    BY <2>2
  <2> HIDE DEF by
  <2>4. SubSeq(bytes, 1 + by, Len(rest) + by) = SubSeq(rest, 1, Len(rest))
    BY <1>9, <2>1, <2>2, <2>3, SubSeqBehind
  <2>5. SubSeq(rest, 1, Len(rest)) = rest
    BY SubSeqFull
  <2> QED BY <2>4, <2>5
<1>11. Len(bytes) = Len(rest) + by /\ Len(f) + Len(id) + 3 = 1 + by
  <2>1. Len(f) \in Nat /\ Len(id) \in Nat /\ Len(rest) \in Nat
    BY <1>2, LenProperties
  <2> QED BY <1>9, <2>1 DEF EndsIn
<1> HIDE DEF pieces, by
<1> QED BY <1>8, <1>10, <1>11 DEF pieces, bytes, f, id
----
(***************************************************************************)
(* How many pieces there are.  A reader that insists on the number of      *)
(* pieces its syntax has finds no text with a separator of its own in it.  *)
(***************************************************************************)
Occurring(piece, separator) == {i \in DOMAIN piece : piece[i] = separator}
Occurrences(piece, separator) == Cardinality(Occurring(piece, separator))

LEMMA OccurringFinite ==
    ASSUME NEW S, NEW piece \in Seq(S), NEW separator
    PROVE  /\ Occurring(piece, separator) \in SUBSET Nat
           /\ IsFiniteSet(Occurring(piece, separator))
           /\ Occurrences(piece, separator) \in Nat
           /\ Occurrences(piece, separator) = 0 => Free(piece, separator)
<1> DEFINE places == Occurring(piece, separator)
<1>1. Len(piece) \in Nat /\ DOMAIN piece = 1..Len(piece)
  BY LenProperties
<1>2. places \in SUBSET Nat /\ \A i \in places : i <= Len(piece)
  BY <1>1 DEF Occurring
<1> HIDE DEF places
<1>3. IsFiniteSet(places)
  BY <1>1, <1>2, FS_BoundedSetOfNaturals
<1>4. Cardinality(places) \in Nat /\ (Cardinality(places) = 0 => places = {})
  BY <1>3, FS_CardinalityType, FS_EmptySet
<1>5. places = {} => Free(piece, separator)
  BY DEF places, Occurring, Free
<1> QED BY <1>2, <1>3, <1>4, <1>5 DEF places, Occurrences

\* Each separator makes one piece more.
LEMMA SplitOccurrences ==
    ASSUME NEW S, NEW bytes \in Seq(S), NEW separator
    PROVE  Len(Split(bytes, separator)) = Occurrences(bytes, separator) + 1
<1> DEFINE places == Occurring(bytes, separator)
           end == Len(bytes) + 1
           cuts == Cuts(bytes, separator)
<1>1. end \in Nat \ {0} /\ 0 \notin places /\ end \notin places
  BY LenProperties DEF Occurring
<1>2. cuts = (places \cup {0}) \cup {end}
  BY DEF Cuts, Occurring
<1>3. IsFiniteSet(places) /\ Cardinality(places) \in Nat
  BY OccurringFinite DEF Occurrences
<1> HIDE DEF places, end, cuts
<1>4. IsFiniteSet(places \cup {0}) /\ Cardinality(places \cup {0}) = Cardinality(places) + 1
  BY <1>1, <1>3, FS_AddElement
<1>5. end \notin places \cup {0}
  BY <1>1
<1>6. Cardinality((places \cup {0}) \cup {end}) = Cardinality(places \cup {0}) + 1
  BY <1>4, <1>5, FS_AddElement
<1>7. Cardinality(cuts) = Cardinality(places) + 2
  BY <1>2, <1>3, <1>4, <1>6
<1>8. Len(Split(bytes, separator)) = Cardinality(cuts) - 1
  BY SplitSize DEF cuts
<1> QED BY <1>3, <1>7, <1>8 DEF places, Occurrences

LEMMA OccurrencesJoined ==
    ASSUME NEW S, NEW p \in Seq(S), NEW q \in Seq(S), NEW separator
    PROVE  /\ Joined(p, q) \in Seq(S)
           /\ Occurrences(Joined(p, q), separator)
                = Occurrences(p, separator) + Occurrences(q, separator)
<1> DEFINE w == p \o q
           by == Len(p)
           A == Occurring(p, separator)
           B == Occurring(q, separator)
           moved == {i + by : i \in B}
           shift == [i \in B |-> i + by]
<1>1. /\ by \in Nat /\ DOMAIN p = 1..by
      /\ Len(q) \in Nat /\ DOMAIN q = 1..Len(q)
      /\ w \in Seq(S) /\ Len(w) = by + Len(q)
      /\ \A i \in 1..by + Len(q) : w[i] = IF i <= by THEN p[i] ELSE q[i - by]
  BY LenProperties, ConcatProperties
<1> HIDE DEF w
<1>2. DOMAIN w = 1..by + Len(q)
  BY <1>1, LenProperties
<1>3. A \in SUBSET Nat /\ B \in SUBSET Nat /\ IsFiniteSet(A) /\ IsFiniteSet(B)
  BY OccurringFinite
<1>4. Occurring(w, separator) = A \cup moved
  <2>1. ASSUME NEW i \in Occurring(w, separator) PROVE i \in A \cup moved
    <3>1. i \in 1..by + Len(q) /\ w[i] = separator
      BY <1>2 DEF Occurring
    <3>2. CASE i <= by
      BY <1>1, <3>1, <3>2 DEF Occurring
    <3>3. CASE ~(i <= by)
      <4>1. i - by \in 1..Len(q) /\ q[i - by] = separator /\ i = (i - by) + by
        BY <1>1, <3>1, <3>3
      <4>2. i - by \in B
        BY <1>1, <4>1 DEF Occurring
      <4> QED BY <4>1, <4>2
    <3> QED BY <3>2, <3>3
  <2>2. ASSUME NEW i \in A PROVE i \in Occurring(w, separator)
    BY <1>1, <1>2 DEF Occurring
  <2>3. ASSUME NEW i \in B PROVE i + by \in Occurring(w, separator)
    <3>1. i \in 1..Len(q) /\ q[i] = separator
      BY <1>1 DEF Occurring
    <3>2. i + by \in 1..by + Len(q) /\ ~(i + by <= by) /\ (i + by) - by = i
      BY <1>1, <3>1
    <3>3. w[i + by] = separator
      BY <1>1, <3>1, <3>2
    <3> QED BY <1>2, <3>2, <3>3 DEF Occurring
  <2> QED BY <2>1, <2>2, <2>3
<1>5. A \cap moved = {}
  <2>1. ASSUME NEW i \in B PROVE i + by \notin A
    BY <1>1 DEF Occurring
  <2> QED BY <2>1
<1> HIDE DEF A, B
<1>6. IsFiniteSet(moved) /\ Cardinality(moved) = Cardinality(B)
  <2>1. shift \in Bijection(B, moved)
    <3>1. shift \in [B -> moved]
      OBVIOUS
    <3>2. \A x \in B, y \in B : shift[x] = shift[y] => x = y
      BY <1>1, <1>3
    <3>3. \A z \in moved : \E x \in B : shift[x] = z
      OBVIOUS
    <3> HIDE DEF shift, moved
    <3>4. IsInjective(shift)
      BY <3>1, <3>2 DEF IsInjective
    <3> QED BY <3>1, <3>3, <3>4 DEF Bijection, Injection, Surjection
  <2> HIDE DEF shift, moved
  <2> QED BY <1>3, <2>1, FS_Bijection DEF ExistsBijection
<1> HIDE DEF moved
<1>7. Cardinality(A \cup moved) = Cardinality(A) + Cardinality(moved) - Cardinality(A \cap moved)
  BY <1>3, <1>6, FS_Union
<1>8. Cardinality(A \cap moved) = 0
  BY <1>5, FS_EmptySet, Zenon
<1>9. Cardinality(A) \in Nat /\ Cardinality(B) \in Nat
  BY <1>3, FS_CardinalityType
<1>10. Cardinality(Occurring(w, separator)) = Cardinality(A) + Cardinality(B)
  BY <1>4, <1>6, <1>7, <1>8, <1>9
<1> QED BY <1>1, <1>10 DEF Occurrences, Joined, w, A, B

\* The literal parts of the messages.
LEMMA OccurrencesLiteral ==
    ASSUME NEW S, NEW separator \in S
    PROVE  /\ <<separator>> \in Seq(S) /\ Occurrences(<<separator>>, separator) >= 1
           /\ \A a \in S : /\ <<separator, a>> \in Seq(S)
                           /\ Occurrences(<<separator, a>>, separator) >= 1
           /\ \A a, b \in S : /\ <<a, separator, b>> \in Seq(S)
                              /\ Occurrences(<<a, separator, b>>, separator) >= 1
           /\ <<separator, separator>> \in Seq(S)
           /\ Occurrences(<<separator, separator>>, separator) >= 2
           /\ \A a, b, c \in S :
                 /\ <<separator, a, b, separator, c>> \in Seq(S)
                 /\ Occurrences(<<separator, a, b, separator, c>>, separator)
                       >= IF b = separator THEN 3 ELSE 2
<1>1. ASSUME NEW piece \in Seq(S), NEW i \in DOMAIN piece, piece[i] = separator
      PROVE  Occurrences(piece, separator) >= 1
  <2>1. {i} \in SUBSET Occurring(piece, separator)
    BY <1>1 DEF Occurring
  <2>2. Cardinality({i}) = 1
    BY FS_Singleton
  <2>3. Cardinality({i}) <= Occurrences(piece, separator)
    BY <2>1, OccurringFinite, FS_Subset DEF Occurrences
  <2>4. Occurrences(piece, separator) \in Nat
    BY OccurringFinite
  <2> QED BY <2>2, <2>3, <2>4
<1>2. ASSUME NEW piece \in Seq(S), NEW i \in DOMAIN piece, NEW j \in DOMAIN piece, i # j,
             piece[i] = separator, piece[j] = separator
      PROVE  Occurrences(piece, separator) >= 2
  <2>1. {i} \cup {j} \in SUBSET Occurring(piece, separator)
    BY <1>2 DEF Occurring
  <2> DEFINE one == {i}
             two == one \cup {j}
  <2>2. IsFiniteSet(one) /\ Cardinality(one) = 1 /\ j \notin one
    BY <1>2, FS_Singleton
  <2>3. Cardinality(two) = 2
    <3> HIDE DEF one
    <3>1. Cardinality(one \cup {j}) = Cardinality(one) + 1
      BY <2>2, FS_AddElement
    <3> QED BY <2>2, <3>1
  <2>4. Cardinality({i} \cup {j}) = 2
    BY <2>3, Zenon
  <2>5. Cardinality({i} \cup {j}) <= Occurrences(piece, separator)
    BY <2>1, OccurringFinite, FS_Subset DEF Occurrences
  <2>6. Occurrences(piece, separator) \in Nat
    BY OccurringFinite
  <2> QED BY <2>4, <2>5, <2>6
<1>3. ASSUME NEW piece \in Seq(S), NEW i \in DOMAIN piece, NEW j \in DOMAIN piece,
             NEW k \in DOMAIN piece, i # j, i # k, j # k,
             piece[i] = separator, piece[j] = separator, piece[k] = separator
      PROVE  Occurrences(piece, separator) >= 3
  <2>1. ({i} \cup {j}) \cup {k} \in SUBSET Occurring(piece, separator)
    BY <1>3 DEF Occurring
  <2> DEFINE one == {i}
             two == one \cup {j}
             three == two \cup {k}
  <2>2. IsFiniteSet(one) /\ Cardinality(one) = 1 /\ j \notin one /\ k \notin two
    BY <1>3, FS_Singleton
  <2>3. IsFiniteSet(two) /\ Cardinality(two) = 2
    <3> HIDE DEF one
    <3>1. /\ IsFiniteSet(one \cup {j})
          /\ Cardinality(one \cup {j}) = Cardinality(one) + 1
      BY <2>2, FS_AddElement
    <3> QED BY <2>2, <3>1
  <2>4. Cardinality(three) = 3
    <3> HIDE DEF two
    <3>1. Cardinality(two \cup {k}) = Cardinality(two) + 1
      BY <2>2, <2>3, FS_AddElement
    <3> QED BY <2>3, <3>1
  <2>5. Cardinality(({i} \cup {j}) \cup {k}) = 3
    BY <2>4, Zenon
  <2>6. Cardinality(({i} \cup {j}) \cup {k}) <= Occurrences(piece, separator)
    BY <2>1, OccurringFinite, FS_Subset DEF Occurrences
  <2>7. Occurrences(piece, separator) \in Nat
    BY OccurringFinite
  <2> QED BY <2>5, <2>6, <2>7
<1>4. <<separator>> \in Seq(S) /\ Occurrences(<<separator>>, separator) >= 1
  <2> DEFINE piece == <<separator>>
  <2>1. piece \in Seq(S) /\ 1 \in DOMAIN piece /\ piece[1] = separator
    OBVIOUS
  <2> HIDE DEF piece
  <2>2. Occurrences(piece, separator) >= 1
    BY <1>1, <2>1
  <2> QED BY <2>1, <2>2 DEF piece
<1>5. ASSUME NEW a \in S
      PROVE  <<separator, a>> \in Seq(S) /\ Occurrences(<<separator, a>>, separator) >= 1
  <2> DEFINE piece == <<separator, a>>
  <2>1. piece \in Seq(S) /\ 1 \in DOMAIN piece /\ piece[1] = separator
    OBVIOUS
  <2> HIDE DEF piece
  <2>2. Occurrences(piece, separator) >= 1
    BY <1>1, <2>1
  <2> QED BY <2>1, <2>2 DEF piece
<1>6. ASSUME NEW a \in S, NEW b \in S
      PROVE  <<a, separator, b>> \in Seq(S) /\ Occurrences(<<a, separator, b>>, separator) >= 1
  <2> DEFINE piece == <<a, separator, b>>
  <2>1. piece \in Seq(S) /\ 2 \in DOMAIN piece /\ piece[2] = separator
    OBVIOUS
  <2> HIDE DEF piece
  <2>2. Occurrences(piece, separator) >= 1
    BY <1>1, <2>1
  <2> QED BY <2>1, <2>2 DEF piece
<1>7. <<separator, separator>> \in Seq(S) /\ Occurrences(<<separator, separator>>, separator) >= 2
  <2> DEFINE piece == <<separator, separator>>
  <2>1. /\ piece \in Seq(S) /\ 1 \in DOMAIN piece /\ 2 \in DOMAIN piece
        /\ piece[1] = separator /\ piece[2] = separator
    OBVIOUS
  <2> HIDE DEF piece
  <2>2. Occurrences(piece, separator) >= 2
    BY <1>2, <2>1
  <2> QED BY <2>1, <2>2 DEF piece
<1>8. ASSUME NEW a \in S, NEW b \in S, NEW c \in S
      PROVE  /\ <<separator, a, b, separator, c>> \in Seq(S)
             /\ Occurrences(<<separator, a, b, separator, c>>, separator)
                   >= IF b = separator THEN 3 ELSE 2
  <2> DEFINE piece == <<separator, a, b, separator, c>>
  <2>1. /\ piece \in Seq(S) /\ 1 \in DOMAIN piece /\ 3 \in DOMAIN piece /\ 4 \in DOMAIN piece
        /\ piece[1] = separator /\ piece[3] = b /\ piece[4] = separator
    OBVIOUS
  <2> HIDE DEF piece
  <2>2. Occurrences(piece, separator) >= IF b = separator THEN 3 ELSE 2
    <3>1. CASE b = separator
      BY <1>3, <2>1, <3>1
    <3>2. CASE b # separator
      BY <1>2, <2>1, <3>2
    <3> QED BY <3>1, <3>2
  <2> QED BY <2>1, <2>2 DEF piece
<1> QED BY <1>4, <1>5, <1>6, <1>7, <1>8

\* Five parts in a row, of which a message and its separators consist.
Fivefold(p, q, r, s, t) == p \o q \o r \o s \o t

LEMMA OccurrencesFivefold ==
    ASSUME NEW S, NEW p \in Seq(S), NEW q \in Seq(S), NEW r \in Seq(S), NEW s \in Seq(S),
           NEW t \in Seq(S), NEW separator
    PROVE  /\ Fivefold(p, q, r, s, t) \in Seq(S)
           /\ Occurrences(Fivefold(p, q, r, s, t), separator)
                = Occurrences(p, separator) + Occurrences(q, separator) + Occurrences(r, separator)
                    + Occurrences(s, separator) + Occurrences(t, separator)
<1> DEFINE two == Joined(p, q)
           three == Joined(two, r)
           four == Joined(three, s)
           five == Joined(four, t)
<1>1. two \in Seq(S) /\ Occurrences(two, separator) = Occurrences(p, separator) + Occurrences(q, separator)
  BY OccurrencesJoined
<1> HIDE DEF two
<1>2. /\ three \in Seq(S)
      /\ Occurrences(three, separator) = Occurrences(two, separator) + Occurrences(r, separator)
  BY <1>1, OccurrencesJoined
<1> HIDE DEF three
<1>3. /\ four \in Seq(S)
      /\ Occurrences(four, separator) = Occurrences(three, separator) + Occurrences(s, separator)
  BY <1>2, OccurrencesJoined
<1> HIDE DEF four
<1>4. /\ five \in Seq(S)
      /\ Occurrences(five, separator) = Occurrences(four, separator) + Occurrences(t, separator)
  BY <1>3, OccurrencesJoined
<1> HIDE DEF five
<1>5. five = Fivefold(p, q, r, s, t)
  BY Zenon DEF five, four, three, two, Joined, Fivefold
<1>6. Occurrences(five, separator)
        = Occurrences(p, separator) + Occurrences(q, separator) + Occurrences(r, separator)
            + Occurrences(s, separator) + Occurrences(t, separator)
  BY <1>1, <1>2, <1>3, <1>4
<1> QED BY <1>4, <1>5, <1>6

LEMMA AtMost ==
    ASSUME NEW l \in Nat, NEW m \in Nat, NEW n \in Nat, NEW o \in Nat, NEW p \in Nat
    PROVE  /\ l + m + n + o + p = 2 /\ m >= 1 /\ o >= 1 => l = 0 /\ n = 0 /\ p = 0
           /\ l + m + n + o + p = 3 /\ n >= 1 /\ p >= 2 => m = 0 /\ o = 0
OBVIOUS

\* A reader that finds the three pieces of a PLAIN message finds the texts of it.
LEMMA ThreePieces ==
    ASSUME NEW S, NEW separator \in S, NEW p \in Seq(S), NEW q \in Seq(S), NEW r \in Seq(S),
           Len(Split(Threefold(p, q, r, separator), separator)) = 3
    PROVE  Split(Threefold(p, q, r, separator), separator) = <<p, q, r>>
<1> DEFINE f == <<separator>>
           whole == Fivefold(p, f, q, f, r)
<1>1. f \in Seq(S) /\ Occurrences(f, separator) >= 1
  BY OccurrencesLiteral
<1> HIDE DEF f
<1>2. /\ Occurrences(p, separator) \in Nat /\ Occurrences(q, separator) \in Nat
      /\ Occurrences(r, separator) \in Nat /\ Occurrences(f, separator) \in Nat
  BY <1>1, OccurringFinite
<1>3. /\ whole \in Seq(S)
      /\ Occurrences(whole, separator)
           = Occurrences(p, separator) + Occurrences(f, separator) + Occurrences(q, separator)
               + Occurrences(f, separator) + Occurrences(r, separator)
  BY <1>1, OccurrencesFivefold
<1>4. whole = Threefold(p, q, r, separator)
  BY Zenon DEF whole, Fivefold, Threefold, f
<1> HIDE DEF whole
<1>5. Len(Split(whole, separator)) = Occurrences(whole, separator) + 1 /\ Occurrences(whole, separator) \in Nat
  BY <1>3, SplitOccurrences, OccurringFinite
<1>6. Occurrences(whole, separator) = 2
  <2> DEFINE o == Occurrences(whole, separator)
  <2>1. o + 1 = 3 /\ o \in Nat
    BY <1>4, <1>5
  <2> HIDE DEF o
  <2>2. o = 2
    BY <2>1
  <2> QED BY <2>2 DEF o
<1>7. /\ Occurrences(p, separator) = 0 /\ Occurrences(q, separator) = 0
      /\ Occurrences(r, separator) = 0
  BY <1>1, <1>2, <1>3, <1>6, AtMost
<1>8. Free(p, separator) /\ Free(q, separator) /\ Free(r, separator)
  BY <1>7, OccurringFinite
<1> QED BY <1>8, SplitThree

\* One that finds the four pieces of an XOAUTH2 message finds the texts of it.
LEMMA FourPieces ==
    ASSUME NEW S, NEW separator \in S, NEW u \in S, NEW a \in S, u # separator, a # separator,
           NEW x \in Seq(S), NEW t \in Seq(S),
           Len(Split(Pairs(u, x, a, t, separator), separator)) = 4
    PROVE  PairsApart(u, x, a, t, separator)
<1> DEFINE word == <<u>>
           mid == <<separator, a>>
           end == <<separator, separator>>
           whole == Fivefold(word, x, mid, t, end)
<1>1. /\ mid \in Seq(S) /\ Occurrences(mid, separator) >= 1
      /\ end \in Seq(S) /\ Occurrences(end, separator) >= 2
  BY OccurrencesLiteral
<1>2. word \in Seq(S)
  BY Single
<1> HIDE DEF word, mid, end
<1>3. /\ Occurrences(word, separator) \in Nat /\ Occurrences(mid, separator) \in Nat
      /\ Occurrences(end, separator) \in Nat
      /\ Occurrences(x, separator) \in Nat /\ Occurrences(t, separator) \in Nat
  BY <1>1, <1>2, OccurringFinite
<1>4. /\ whole \in Seq(S)
      /\ Occurrences(whole, separator)
           = Occurrences(word, separator) + Occurrences(x, separator) + Occurrences(mid, separator)
               + Occurrences(t, separator) + Occurrences(end, separator)
  BY <1>1, <1>2, OccurrencesFivefold
<1>5. whole = Pairs(u, x, a, t, separator)
  BY Zenon DEF whole, Fivefold, Pairs, word, mid, end
<1> HIDE DEF whole
<1>6. Len(Split(whole, separator)) = Occurrences(whole, separator) + 1 /\ Occurrences(whole, separator) \in Nat
  BY <1>4, SplitOccurrences, OccurringFinite
<1>7. Occurrences(whole, separator) = 3
  <2> DEFINE o == Occurrences(whole, separator)
  <2>1. o + 1 = 4 /\ o \in Nat
    BY <1>5, <1>6
  <2> HIDE DEF o
  <2>2. o = 3
    BY <2>1
  <2> QED BY <2>2 DEF o
<1>8. Occurrences(x, separator) = 0 /\ Occurrences(t, separator) = 0
  BY <1>1, <1>3, <1>4, <1>7, AtMost
<1>9. Free(x, separator) /\ Free(t, separator)
  BY <1>8, OccurringFinite
<1> QED BY <1>9, SplitPairs

\* And one that finds the six pieces of an OAUTHBEARER message finds the texts of that.
LEMMA SixPieces ==
    ASSUME NEW S, NEW separator \in S,
           NEW comma \in S, NEW n \in S, NEW a \in S, NEW equals \in S, NEW h \in S, NEW k \in S,
           NEW port \in S, NEW au \in S,
           comma # separator, n # separator, a # separator, equals # separator, h # separator,
           k # separator, au # separator,
           NEW user \in Seq(S), NEW host \in Seq(S), NEW token \in Seq(S),
           Len(Split(BearerMessage(n, comma, a, equals, h, k, port, au, user, host, token, separator),
                     separator)) = 6
    PROVE  BearerApart(n, comma, a, equals, h, k, port, au, user, host, token, separator)
<1> DEFINE lead == <<n, comma, a, equals>>
           mid == <<comma, separator, h>>
           ports == <<separator, k, port, separator, au>>
           end == <<separator, separator>>
           before == Fivefold(lead, user, mid, host, ports)
           more == Joined(before, token)
           whole == Joined(more, end)
<1>1. /\ mid \in Seq(S) /\ Occurrences(mid, separator) >= 1
      /\ end \in Seq(S) /\ Occurrences(end, separator) >= 2
      /\ ports \in Seq(S)
      /\ Occurrences(ports, separator) >= IF port = separator THEN 3 ELSE 2
  BY OccurrencesLiteral
<1>2. lead \in Seq(S)
  OBVIOUS
<1> HIDE DEF lead, mid, ports, end
<1>3. /\ Occurrences(lead, separator) \in Nat /\ Occurrences(mid, separator) \in Nat
      /\ Occurrences(ports, separator) \in Nat /\ Occurrences(end, separator) \in Nat
      /\ Occurrences(user, separator) \in Nat /\ Occurrences(host, separator) \in Nat
      /\ Occurrences(token, separator) \in Nat
  BY <1>1, <1>2, OccurringFinite
<1>4. /\ before \in Seq(S)
      /\ Occurrences(before, separator)
           = Occurrences(lead, separator) + Occurrences(user, separator) + Occurrences(mid, separator)
               + Occurrences(host, separator) + Occurrences(ports, separator)
  BY <1>1, <1>2, OccurrencesFivefold
<1>5. whole = BearerMessage(n, comma, a, equals, h, k, port, au, user, host, token, separator)
  BY Zenon DEF whole, more, before, Joined, Fivefold, BearerMessage, lead, mid, ports, end
<1> HIDE DEF before
<1>6. /\ more \in Seq(S)
      /\ Occurrences(more, separator) = Occurrences(before, separator) + Occurrences(token, separator)
  BY <1>4, OccurrencesJoined
<1> HIDE DEF more
<1>7. /\ whole \in Seq(S)
      /\ Occurrences(whole, separator) = Occurrences(more, separator) + Occurrences(end, separator)
  BY <1>1, <1>6, OccurrencesJoined
<1> HIDE DEF whole
<1>8. Len(Split(whole, separator)) = Occurrences(whole, separator) + 1 /\ Occurrences(whole, separator) \in Nat
  BY <1>7, SplitOccurrences, OccurringFinite
<1>9. Occurrences(whole, separator) = 5
  <2> DEFINE o == Occurrences(whole, separator)
  <2>1. o + 1 = 6 /\ o \in Nat
    BY <1>5, <1>8
  <2> HIDE DEF o
  <2>2. o = 5
    BY <2>1
  <2> QED BY <2>2 DEF o
<1>10. Occurrences(ports, separator) >= 2
  BY <1>1, <1>3
<1>11. Occurrences(lead, separator) + Occurrences(user, separator) + Occurrences(mid, separator)
         + Occurrences(host, separator) + Occurrences(ports, separator) + Occurrences(token, separator)
         + Occurrences(end, separator) = 5
  BY <1>4, <1>6, <1>7, <1>9
<1>12. /\ Occurrences(user, separator) = 0 /\ Occurrences(host, separator) = 0
       /\ Occurrences(token, separator) = 0 /\ Occurrences(ports, separator) = 2
  <2> DEFINE ol == Occurrences(lead, separator)
             om == Occurrences(user, separator)
             on == Occurrences(mid, separator)
             oo == Occurrences(host, separator)
             op == Occurrences(ports, separator)
             oq == Occurrences(token, separator)
             or == Occurrences(end, separator)
  <2>1. /\ ol \in Nat /\ om \in Nat /\ on \in Nat /\ oo \in Nat /\ op \in Nat /\ oq \in Nat
        /\ or \in Nat /\ ol + om + on + oo + op + oq + or = 5 /\ on >= 1 /\ op >= 2 /\ or >= 2
    BY <1>1, <1>3, <1>10, <1>11
  <2> HIDE DEF ol, om, on, oo, op, oq, or
  <2>2. om = 0 /\ oo = 0 /\ oq = 0 /\ op = 2
    BY <2>1
  <2> QED BY <2>2 DEF om, oo, oq, op
<1>13. port # separator
  BY <1>1, <1>12
<1>14. Free(user, separator) /\ Free(host, separator) /\ Free(token, separator)
  BY <1>12, OccurringFinite
<1> QED BY <1>13, <1>14, SplitBearer
====
