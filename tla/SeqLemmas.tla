----------------------------- MODULE SeqLemmas -----------------------------
(* Facts about the sequence operators the models are built from: what      *)
(* Append, Front, Reverse and concatenation do to the elements of a        *)
(* sequence and to the absence of duplicates; and induction, over a set    *)
(* rather than a predicate, for what is defined by recursion.              *)
EXTENDS Integers, SequencesExt, WellFoundedInduction, TLAPS

(* A set that has 0, and with a number the next one, has every number.     *)
LEMMA SetInduction ==
  ASSUME NEW S, 0 \in S, \A n \in Nat : n \in S => n + 1 \in S
  PROVE  Nat \subseteq S
<1> DEFINE T == {n \in Nat : n \notin S}
           R == OpToRel(<, Nat)
<1>1. IsWellFoundedOn(R, Nat)
  BY NatLessThanWellFounded, ZenonT(30)
<1>2. \A x, y \in Nat : x < y => <<x, y>> \in R
  BY DEF OpToRel
<1> HIDE DEF R
<1>3. SUFFICES ASSUME T # {} PROVE FALSE
  OBVIOUS
<1>4. PICK x \in T : \A y \in T : <<y, x>> \notin R
  BY <1>1, <1>3, WFMin
<1>5. x \in Nat /\ x # 0 /\ x - 1 \in Nat /\ x - 1 < x
  BY <1>4
<1>6. <<x - 1, x>> \in R
  BY <1>2, <1>5
<1>7. x - 1 \in S
  BY <1>4, <1>5, <1>6
<1> QED
  BY <1>4, <1>5, <1>7

(* Append adds one element at the end.                                     *)
LEMMA AppendFacts ==
  ASSUME NEW S, NEW s \in Seq(S), NEW x \in S
  PROVE  /\ Append(s, x) \in Seq(S)
         /\ Append(s, x) # <<>>
         /\ Len(Append(s, x)) = Len(s) + 1
         /\ Last(Append(s, x)) = x
         /\ ToSet(Append(s, x)) = ToSet(s) \cup {x}
         /\ IsInjective(s) /\ x \notin ToSet(s) => IsInjective(Append(s, x))
<1> DEFINE a == Append(s, x)
<1>1. /\ a \in Seq(S) /\ Len(a) = Len(s) + 1 /\ a # <<>>
      /\ DOMAIN a = 1..(Len(s) + 1) /\ DOMAIN s = 1..Len(s) /\ Len(s) \in Nat
      /\ \A i \in 1..Len(s) : a[i] = s[i]
      /\ a[Len(s) + 1] = x
  OBVIOUS
<1>2. Last(a) = x
  BY <1>1 DEF Last
<1>3. ToSet(a) = ToSet(s) \cup {x}
  <2>1. ASSUME NEW y \in ToSet(a) PROVE y \in ToSet(s) \cup {x}
    <3>1. PICK i \in DOMAIN a : y = a[i]
      BY <2>1 DEF ToSet
    <3>2. CASE i = Len(s) + 1
      BY <3>1, <3>2, <1>1
    <3>3. CASE i \in 1..Len(s)
      BY <3>1, <3>3, <1>1 DEF ToSet
    <3> QED BY <3>2, <3>3, <3>1, <1>1
  <2>2. ToSet(s) \subseteq ToSet(a)
    BY <1>1 DEF ToSet
  <2>3. x \in ToSet(a)
    <3>1. Len(s) + 1 \in DOMAIN a
      BY <1>1
    <3> QED BY <3>1, <1>1 DEF ToSet
  <2> QED BY <2>1, <2>2, <2>3
<1>4. ASSUME IsInjective(s), x \notin ToSet(s) PROVE IsInjective(a)
  <2>1. \A i \in 1..Len(s) : s[i] # x
    BY <1>4, <1>1 DEF ToSet
  <2> QED BY <2>1, <1>4, <1>1 DEF IsInjective
<1> HIDE DEF a
<1>5. QED BY <1>1, <1>2, <1>3, <1>4 DEF a

(* Front removes the last element.                                         *)
LEMMA FrontFacts ==
  ASSUME NEW S, NEW s \in Seq(S), s # <<>>
  PROVE  /\ Front(s) \in Seq(S)
         /\ Len(Front(s)) = Len(s) - 1
         /\ Len(s) \in Nat \ {0}
         /\ Last(s) \in S
         /\ Last(s) \in ToSet(s)
         /\ ToSet(s) = ToSet(Front(s)) \cup {Last(s)}
         /\ IsInjective(s) => IsInjective(Front(s)) /\ Last(s) \notin ToSet(Front(s))
<1> DEFINE f == Front(s)
<1>1. /\ Len(s) \in Nat \ {0}
      /\ DOMAIN s = 1..Len(s)
      /\ Last(s) = s[Len(s)] /\ Last(s) \in S
  BY DEF Last
<1>2. /\ f \in Seq(S) /\ Len(f) = Len(s) - 1 /\ DOMAIN f = 1..(Len(s) - 1)
      /\ \A i \in 1..(Len(s) - 1) : f[i] = s[i]
  <2>1. f = SubSeq(s, 1, Len(s) - 1)
    BY DEF Front
  <2>2. f = [i \in 1..(Len(s) - 1) |-> s[i]]
    BY <2>1, <1>1
  <2>3. \A i \in 1..(Len(s) - 1) : s[i] \in S
    BY <1>1
  <2> QED BY <2>2, <2>3, <1>1
<1>3. Last(s) \in ToSet(s)
  BY <1>1 DEF ToSet
<1>4. ToSet(s) = ToSet(f) \cup {Last(s)}
  BY <1>1, <1>2 DEF ToSet
<1>5. ASSUME IsInjective(s) PROVE IsInjective(f) /\ Last(s) \notin ToSet(f)
  BY <1>5, <1>1, <1>2 DEF IsInjective, ToSet
<1> HIDE DEF f
<1>6. QED BY <1>1, <1>2, <1>3, <1>4, <1>5 DEF f

(* Reverse keeps the elements.                                             *)
LEMMA ReverseFacts ==
  ASSUME NEW S, NEW s \in Seq(S)
  PROVE  /\ Reverse(s) \in Seq(S)
         /\ ToSet(Reverse(s)) = ToSet(s)
         /\ IsInjective(s) => IsInjective(Reverse(s))
<1> DEFINE r == Reverse(s)
<1>1. /\ Len(s) \in Nat /\ DOMAIN s = 1..Len(s)
      /\ r = [i \in 1..Len(s) |-> s[(Len(s) - i) + 1]]
      /\ \A i \in 1..Len(s) : s[i] \in S /\ (Len(s) - i) + 1 \in 1..Len(s)
  BY DEF Reverse
<1>2. r \in Seq(S) /\ DOMAIN r = 1..Len(s)
  BY <1>1
<1>3. \A i \in 1..Len(s) : r[i] = s[(Len(s) - i) + 1]
  BY <1>1
<1>4. \A i \in 1..Len(s) : s[i] = r[(Len(s) - i) + 1]
  BY <1>1, <1>3
<1>5. ToSet(r) = ToSet(s)
  <2>1. ToSet(r) \subseteq ToSet(s)
    BY <1>1, <1>2, <1>3 DEF ToSet
  <2>2. ToSet(s) \subseteq ToSet(r)
    BY <1>1, <1>2, <1>4, ZenonT(120) DEF ToSet
  <2> QED BY <2>1, <2>2
<1>6. ASSUME IsInjective(s) PROVE IsInjective(r)
  BY <1>6, <1>1, <1>2, <1>3 DEF IsInjective
<1> HIDE DEF r
<1>7. QED BY <1>2, <1>5, <1>6 DEF r

(* Concatenation joins the elements.                                       *)
LEMMA ConcatFacts ==
  ASSUME NEW S, NEW s \in Seq(S), NEW t \in Seq(S)
  PROVE  /\ s \o t \in Seq(S)
         /\ ToSet(s \o t) = ToSet(s) \cup ToSet(t)
         /\ IsInjective(s) /\ IsInjective(t) /\ ToSet(s) \cap ToSet(t) = {}
              => IsInjective(s \o t)
<1> DEFINE c == s \o t
<1>1. /\ c \in Seq(S) /\ Len(s) \in Nat /\ Len(t) \in Nat
      /\ DOMAIN s = 1..Len(s) /\ DOMAIN t = 1..Len(t) /\ DOMAIN c = 1..(Len(s) + Len(t))
      /\ \A i \in 1..Len(s) : c[i] = s[i]
      /\ \A i \in (Len(s) + 1)..(Len(s) + Len(t)) : c[i] = t[i - Len(s)]
  OBVIOUS
<1>2. \A i \in 1..Len(t) : Len(s) + i \in DOMAIN c /\ c[Len(s) + i] = t[i]
  BY <1>1
<1>3. \A i \in DOMAIN c : i \in 1..Len(s) \/ i - Len(s) \in 1..Len(t)
  BY <1>1
<1>4. ToSet(c) = ToSet(s) \cup ToSet(t)
  <2>1. ToSet(s) \subseteq ToSet(c)
    BY <1>1 DEF ToSet
  <2>2. ToSet(t) \subseteq ToSet(c)
    BY <1>1, <1>2, SMTT(60) DEF ToSet
  <2>3. ToSet(c) \subseteq ToSet(s) \cup ToSet(t)
    BY <1>1, <1>3 DEF ToSet
  <2> QED BY <2>1, <2>2, <2>3
<1>5. ASSUME IsInjective(s), IsInjective(t), ToSet(s) \cap ToSet(t) = {}
      PROVE  IsInjective(c)
  <2> SUFFICES ASSUME NEW i \in DOMAIN c, NEW j \in DOMAIN c, c[i] = c[j] PROVE i = j
    BY DEF IsInjective
  <2>1. \A k \in 1..Len(s), l \in 1..Len(t) : s[k] # t[l]
    BY <1>5, <1>1 DEF ToSet
  <2>2. CASE i \in 1..Len(s) /\ j \in 1..Len(s)
    BY <2>2, <1>1, <1>5 DEF IsInjective
  <2>3. CASE i - Len(s) \in 1..Len(t) /\ j - Len(s) \in 1..Len(t)
    <3>1. t[i - Len(s)] = t[j - Len(s)]
      BY <2>3, <1>1
    <3> QED BY <3>1, <2>3, <1>1, <1>5 DEF IsInjective
  <2>4. CASE i \in 1..Len(s) /\ j - Len(s) \in 1..Len(t)
    BY <2>4, <2>1, <1>1
  <2>5. CASE j \in 1..Len(s) /\ i - Len(s) \in 1..Len(t)
    BY <2>5, <2>1, <1>1
  <2> QED BY <2>2, <2>3, <2>4, <2>5, <1>3
<1> HIDE DEF c
<1>6. QED BY <1>1, <1>4, <1>5 DEF c

(* The empty sequence has no element.                                      *)
LEMMA EmptyFacts == ToSet(<<>>) = {} /\ IsInjective(<<>>)
  BY DEF ToSet, IsInjective
=============================================================================
