----------------------------- MODULE VMADProofs -----------------------------
(***************************************************************************)
(* What TLAPS proves of the MAD transactor on a verbs queue pair for every *)
(* depth, every size of the queues the adapter grants, and any number of   *)
(* retries, requests and packets.                                          *)
(***************************************************************************)
EXTENDS VMAD, SeqLemmas, FiniteSetTheorems

-----------------------------------------------------------------------------
(* Picked, and the lists of completions.                                   *)

\* The indices of a sequence are finitely many.
LEMMA IndexFacts ==
  ASSUME NEW S, NEW s \in Seq(S), NEW I \in SUBSET (DOMAIN s)
  PROVE  /\ IsFiniteSet(I) /\ Cardinality(I) \in Nat /\ Cardinality(I) <= Len(s)
         /\ I \subseteq 1..Len(s) /\ Len(s) \in Nat
<1>1. DOMAIN s = 1..Len(s) /\ Len(s) \in Nat
  OBVIOUS
<1>2. IsFiniteSet(1..Len(s)) /\ Cardinality(1..Len(s)) = Len(s)
  <2>1. 1 \in Int /\ Len(s) \in Int
    BY <1>1
  <2>2. /\ IsFiniteSet(1..Len(s))
        /\ Cardinality(1..Len(s)) = IF 1 > Len(s) THEN 0 ELSE Len(s) - 1 + 1
    BY ONLY <2>1, FS_Interval
  <2> QED
    BY <1>1, <2>2
<1> QED
  BY <1>1, <1>2, FS_Subset, FS_CardinalityType

\* Picked takes each of the indices once.
LEMMA PickedFacts ==
  ASSUME NEW S, NEW s \in Seq(S), NEW I \in SUBSET (DOMAIN s)
  PROVE  /\ Picked(s, I) \in Seq(S)
         /\ Len(Picked(s, I)) = Cardinality(I)
         /\ \E f \in Bijection(1..Cardinality(I), I) :
              \A k \in 1..Cardinality(I) : Picked(s, I)[k] = s[f[k]]
<1> DEFINE n == Cardinality(I)
           Below(i) == I \cap (1..i)
<1>1. IsFiniteSet(I) /\ n \in Nat /\ I \subseteq 1..Len(s) /\ Len(s) \in Nat
  BY IndexFacts
<1>2. \A i \in I : /\ IsFiniteSet(Below(i)) /\ Cardinality(Below(i)) \in Nat
                   /\ Cardinality(Below(i)) <= n
  <2> TAKE i \in I
  <2>1. Below(i) \in SUBSET I
    OBVIOUS
  <2> QED
    BY <1>1, <2>1, FS_Subset, FS_CardinalityType
<1> DEFINE rank == [i \in I |-> Cardinality(Below(i))]
           f == [k \in 1..n |-> CHOOSE i \in I : Cardinality(Below(i)) = k]
<1>3. \A i \in I : rank[i] = Cardinality(Below(i))
  OBVIOUS
<1>4. \A i \in I : Cardinality(Below(i)) \in 1..n
  <2> TAKE i \in I
  <2>1. i \in Below(i)
    BY <1>1
  <2>2. Cardinality(Below(i)) # 0
    BY <1>2, <2>1, FS_EmptySet
  <2> HIDE DEF Below, n
  <2> QED
    BY <1>1, <1>2, <2>2
<1>5. ASSUME NEW i \in I, NEW j \in I, i < j PROVE Cardinality(Below(i)) < Cardinality(Below(j))
  <2>1. Below(i) \in SUBSET Below(j) /\ j \in Below(j) /\ j \notin Below(i)
    BY <1>1, <1>5
  <2>2. Cardinality(Below(i)) <= Cardinality(Below(j)) /\ Cardinality(Below(i)) # Cardinality(Below(j))
    BY <1>2, <2>1, FS_Subset
  <2> HIDE DEF Below
  <2> QED
    BY <1>2, <2>2
<1>6. \A i, j \in I : Cardinality(Below(i)) = Cardinality(Below(j)) => i = j
  <2> HIDE DEF Below
  <2> TAKE i, j \in I
  <2>1. i \in Nat /\ j \in Nat /\ Cardinality(Below(i)) \in Nat /\ Cardinality(Below(j)) \in Nat
    BY <1>1, <1>2
  <2> QED
    BY <1>5, <2>1
<1>7. rank \in Injection(I, 1..n)
  <2> HIDE DEF Below, n
  <2> QED
    BY <1>4, <1>6 DEF Injection, IsInjective
<1>8. rank \in Surjection(I, 1..n)
  <2>1. IsFiniteSet(1..n) /\ Cardinality(1..n) = n
    <3>1. 1 \in Int /\ n \in Int
      BY <1>1
    <3>2. IsFiniteSet(1..n) /\ Cardinality(1..n) = IF 1 > n THEN 0 ELSE n - 1 + 1
      BY ONLY <3>1, FS_Interval
    <3> HIDE DEF n
    <3> QED
      BY <1>1, <3>2
  <2> HIDE DEF rank
  <2> QED
    BY <1>7, <2>1, FS_Injection
<1>9. \A k \in 1..n : \E i \in I : Cardinality(Below(i)) = k
  <2>1. \A k \in 1..n : \E i \in I : rank[i] = k
    BY <1>8 DEF Surjection
  <2> HIDE DEF rank, Below, n
  <2> QED
    BY <1>3, <2>1
<1>10. \A k \in 1..n : f[k] \in I /\ Cardinality(Below(f[k])) = k
  <2> HIDE DEF Below, n
  <2> QED
    BY <1>9
<1>11. Picked(s, I) = [k \in 1..n |-> s[f[k]]]
  BY DEF Picked
<1> HIDE DEF f, Below
<1>12. /\ \A k, l \in 1..n : f[k] = f[l] => k = l
       /\ \A i \in I : \E k \in 1..n : f[k] = i
  BY <1>4, <1>6, <1>10
<1>13. f \in Bijection(1..n, I)
  <2>1. f \in [1..n -> I]
    BY <1>10 DEF f
  <2> HIDE DEF n
  <2> QED
    BY <1>12, <2>1 DEF Bijection, Injection, Surjection, IsInjective
<1>14. \A k \in 1..n : s[f[k]] \in S
  BY <1>1, <1>10
<1> HIDE DEF n
<1>15. Picked(s, I) \in Seq(S) /\ Len(Picked(s, I)) = n
  BY <1>1, <1>11, <1>14
<1>16. \A k \in 1..n : Picked(s, I)[k] = s[f[k]]
  BY <1>11
<1> QED
  BY <1>13, <1>15, <1>16 DEF n

\* What is picked from a list of completions: their buffers, and the receives
\* among them.
LEMMA BufsFacts ==
  ASSUME NEW wcs \in Seq(WC)
  PROVE  /\ BufsOf(wcs) \in Seq(Buf) /\ Len(BufsOf(wcs)) = Len(wcs) /\ Len(wcs) \in Nat
         /\ \A i \in 1..Len(wcs) : BufsOf(wcs)[i] = wcs[i].buf /\ wcs[i] \in WC
         /\ ToSet(BufsOf(wcs)) = {wcs[i].buf : i \in 1..Len(wcs)}
         /\ ReceivesOf(wcs) \in Nat /\ ReceivesOf(wcs) <= Len(wcs)
<1>1. Len(wcs) \in Nat /\ DOMAIN wcs = 1..Len(wcs) /\ \A i \in 1..Len(wcs) : wcs[i] \in WC
  OBVIOUS
<1>2. /\ BufsOf(wcs) \in Seq(Buf) /\ Len(BufsOf(wcs)) = Len(wcs)
      /\ \A i \in 1..Len(wcs) : BufsOf(wcs)[i] = wcs[i].buf
      /\ DOMAIN BufsOf(wcs) = 1..Len(wcs)
  BY <1>1 DEF BufsOf, WC
<1>3. ToSet(BufsOf(wcs)) = {wcs[i].buf : i \in 1..Len(wcs)}
  BY <1>2 DEF ToSet
<1>4. {i \in DOMAIN wcs : wcs[i].recv} \in SUBSET (DOMAIN wcs)
  OBVIOUS
<1>5. ReceivesOf(wcs) \in Nat /\ ReceivesOf(wcs) <= Len(wcs)
  BY <1>4, IndexFacts DEF ReceivesOf
<1> QED
  BY <1>1, <1>2, <1>3, <1>5

\* A completion more at the end of the CQ.
LEMMA BufsAppend ==
  ASSUME NEW wcs \in Seq(WC), NEW wc \in WC
  PROVE  /\ Append(wcs, wc) \in Seq(WC) /\ Len(Append(wcs, wc)) = Len(wcs) + 1
         /\ BufsOf(Append(wcs, wc)) = Append(BufsOf(wcs), wc.buf)
         /\ ReceivesOf(Append(wcs, wc)) = ReceivesOf(wcs) + IF wc.recv THEN 1 ELSE 0
<1> DEFINE long == Append(wcs, wc)
           R == {i \in DOMAIN wcs : wcs[i].recv}
<1>1. /\ long \in Seq(WC) /\ Len(long) = Len(wcs) + 1 /\ Len(wcs) \in Nat
      /\ DOMAIN long = 1..(Len(wcs) + 1) /\ DOMAIN wcs = 1..Len(wcs)
      /\ \A i \in 1..Len(wcs) : long[i] = wcs[i]
      /\ long[Len(wcs) + 1] = wc
  OBVIOUS
<1>2. BufsOf(long) = Append(BufsOf(wcs), wc.buf)
  BY <1>1, BufsFacts DEF BufsOf
<1>3. {i \in DOMAIN long : long[i].recv} = R \cup IF wc.recv THEN {Len(wcs) + 1} ELSE {}
  BY <1>1
<1>4. R \in SUBSET (DOMAIN wcs) /\ Len(wcs) + 1 \notin R
  BY <1>1
<1>5. IsFiniteSet(R) /\ Cardinality(R) \in Nat
  BY <1>4, IndexFacts
<1>6. Cardinality(R \cup {Len(wcs) + 1}) = Cardinality(R) + 1
  BY <1>4, <1>5, FS_AddElement
<1>7. Cardinality(R \cup IF wc.recv THEN {Len(wcs) + 1} ELSE {})
        = Cardinality(R) + IF wc.recv THEN 1 ELSE 0
  <2> HIDE DEF R
  <2>1. CASE wc.recv
    BY <2>1, <1>6
  <2>2. CASE ~wc.recv
    BY <2>2, <1>5
  <2> QED
    BY <2>1, <2>2
<1> QED
  BY <1>1, <1>2, <1>3, <1>7 DEF ReceivesOf

\* The buffers of the completions picked, and the receives among them.
LEMMA BufsPicked ==
  ASSUME NEW wcs \in Seq(WC), NEW I \in SUBSET (DOMAIN wcs)
  PROVE  /\ Picked(wcs, I) \in Seq(WC) /\ Len(Picked(wcs, I)) = Cardinality(I)
         /\ ToSet(BufsOf(Picked(wcs, I))) = {wcs[i].buf : i \in I}
         /\ IsInjective(BufsOf(wcs)) => IsInjective(BufsOf(Picked(wcs, I)))
         /\ ReceivesOf(Picked(wcs, I)) = Cardinality({i \in I : wcs[i].recv})
<1> DEFINE p == Picked(wcs, I)
           n == Cardinality(I)
<1>1. p \in Seq(WC) /\ Len(p) = n
  BY PickedFacts
<1>0. PICK f \in Bijection(1..n, I) : \A k \in 1..n : p[k] = wcs[f[k]]
  BY PickedFacts
<1>2. /\ f \in [1..n -> I]
      /\ \A k \in 1..n : p[k] = wcs[f[k]]
      /\ \A k, l \in 1..n : f[k] = f[l] => k = l
      /\ \A i \in I : \E k \in 1..n : f[k] = i
  BY <1>0 DEF Bijection, Injection, Surjection, IsInjective
<1>3. /\ Len(wcs) \in Nat /\ DOMAIN wcs = 1..Len(wcs) /\ n \in Nat /\ IsFiniteSet(I)
      /\ DOMAIN p = 1..n
  BY <1>1, IndexFacts
<1>4. /\ BufsOf(wcs) \in Seq(Buf) /\ Len(BufsOf(wcs)) = Len(wcs)
      /\ \A i \in 1..Len(wcs) : BufsOf(wcs)[i] = wcs[i].buf
  BY BufsFacts
<1> HIDE DEF p, n
<1>5. /\ BufsOf(p) \in Seq(Buf) /\ Len(BufsOf(p)) = n
      /\ \A k \in 1..n : BufsOf(p)[k] = p[k].buf
      /\ ToSet(BufsOf(p)) = {p[k].buf : k \in 1..n}
  BY <1>1, BufsFacts
<1>6. ToSet(BufsOf(p)) = {wcs[i].buf : i \in I}
  BY <1>2, <1>5
<1>7. ASSUME IsInjective(BufsOf(wcs)) PROVE IsInjective(BufsOf(p))
  <2>1. \A i, j \in 1..Len(wcs) : wcs[i].buf = wcs[j].buf => i = j
    BY <1>4, <1>7 DEF IsInjective
  <2>2. \A k, l \in 1..n : p[k].buf = p[l].buf => k = l
    BY <1>2, <1>3, <2>1
  <2> QED
    BY <1>5, <2>2 DEF IsInjective
<1>8. ReceivesOf(p) = Cardinality({i \in I : wcs[i].recv})
  <2> DEFINE K == {k \in 1..n : p[k].recv}
             J == {i \in I : wcs[i].recv}
             g == [i \in K |-> f[i]]
  <2>1. ReceivesOf(p) = Cardinality(K)
    BY <1>3 DEF ReceivesOf
  <2>2. g \in Bijection(K, J)
    <3>1. g \in [K -> J]
      BY <1>2
    <3>2. \A k, l \in K : g[k] = g[l] => k = l
      BY <1>2
    <3>3. \A i \in J : \E k \in K : g[k] = i
      BY <1>2
    <3> HIDE DEF g, K, J
    <3> QED
      BY <3>1, <3>2, <3>3 DEF Bijection, Injection, Surjection, IsInjective
  <2>3. IsFiniteSet(K)
    <3>1. IsFiniteSet(1..n)
      <4>1. 1 \in Int /\ n \in Int
        BY <1>3
      <4> QED
        BY <4>1, FS_Interval
    <3>2. K \in SUBSET (1..n)
      OBVIOUS
    <3> QED
      BY <3>1, <3>2, FS_Subset
  <2>4. Cardinality(J) = Cardinality(K)
    <3> HIDE DEF g, K, J
    <3> QED
      BY <2>2, <2>3, FS_Bijection DEF ExistsBijection
  <2> QED
    BY <2>1, <2>4
<1> QED
  BY <1>1, <1>6, <1>7, <1>8 DEF p, n

-----------------------------------------------------------------------------
(* Taking from the front of a queue, cutting a list, finishing completions. *)

LEMMA TailFacts ==
  ASSUME NEW S, NEW s \in Seq(S), s # <<>>
  PROVE  /\ Head(s) \in S /\ Tail(s) \in Seq(S)
         /\ Len(s) \in Nat \ {0} /\ Len(Tail(s)) = Len(s) - 1
         /\ ToSet(s) = ToSet(Tail(s)) \cup {Head(s)}
         /\ IsInjective(s) => IsInjective(Tail(s)) /\ Head(s) \notin ToSet(Tail(s))
<1> DEFINE t == Tail(s)
<1>1. /\ Len(s) \in Nat \ {0} /\ DOMAIN s = 1..Len(s) /\ Head(s) = s[1] /\ s[1] \in S
      /\ t \in Seq(S) /\ Len(t) = Len(s) - 1 /\ DOMAIN t = 1..(Len(s) - 1)
      /\ \A i \in 1..(Len(s) - 1) : t[i] = s[i + 1]
  OBVIOUS
<1> HIDE DEF t
<1>2. /\ \A i \in DOMAIN s : i = 1 \/ (i - 1 \in DOMAIN t /\ s[i] = t[i - 1])
      /\ \A i \in DOMAIN t : i + 1 \in DOMAIN s /\ t[i] = s[i + 1] /\ i + 1 # 1 /\ i \in Int
      /\ 1 \in DOMAIN s
  BY <1>1
<1>3. ToSet(s) = ToSet(t) \cup {Head(s)}
  <2>1. ToSet(s) \subseteq ToSet(t) \cup {Head(s)}
    BY <1>1, <1>2 DEF ToSet
  <2>2. ToSet(t) \subseteq ToSet(s) /\ Head(s) \in ToSet(s)
    BY <1>1, <1>2 DEF ToSet
  <2> QED
    BY <2>1, <2>2
<1>4. ASSUME IsInjective(s) PROVE IsInjective(t) /\ Head(s) \notin ToSet(t)
  <2>1. \A i, j \in DOMAIN t : t[i] = t[j] => i + 1 = j + 1
    BY <1>2, <1>4 DEF IsInjective
  <2>2. \A i \in DOMAIN t : t[i] # Head(s)
    BY <1>1, <1>2, <1>4 DEF IsInjective
  <2>3. IsInjective(t)
    BY <1>2, <2>1 DEF IsInjective
  <2> QED
    BY <2>2, <2>3 DEF ToSet
<1> QED
  BY <1>1, <1>3, <1>4 DEF t

Apart(s, t) == ToSet(s) \cap ToSet(t) = {}

\* A sequence cut in two.
LEMMA CutFacts ==
  ASSUME NEW S, NEW s \in Seq(S), NEW k \in 0..Len(s)
  PROVE  /\ SubSeq(s, 1, k) \in Seq(S) /\ Len(SubSeq(s, 1, k)) = k
         /\ SubSeq(s, k + 1, Len(s)) \in Seq(S) /\ Len(SubSeq(s, k + 1, Len(s))) = Len(s) - k
         /\ ToSet(s) = ToSet(SubSeq(s, 1, k)) \cup ToSet(SubSeq(s, k + 1, Len(s)))
         /\ IsInjective(s) => /\ IsInjective(SubSeq(s, 1, k)) /\ IsInjective(SubSeq(s, k + 1, Len(s)))
                              /\ Apart(SubSeq(s, 1, k), SubSeq(s, k + 1, Len(s)))
<1> DEFINE a == SubSeq(s, 1, k)
           b == SubSeq(s, k + 1, Len(s))
<1>1. /\ Len(s) \in Nat /\ k \in Nat /\ k <= Len(s) /\ DOMAIN s = 1..Len(s)
      /\ a = [i \in 1..k |-> s[i]] /\ b = [i \in 1..(Len(s) - k) |-> s[k + i]]
      /\ \A i \in 1..Len(s) : s[i] \in S
  OBVIOUS
<1> HIDE DEF a, b
<1>2. /\ a \in Seq(S) /\ Len(a) = k /\ DOMAIN a = 1..k
      /\ b \in Seq(S) /\ Len(b) = Len(s) - k /\ DOMAIN b = 1..(Len(s) - k)
  BY <1>1
<1>3. /\ \A i \in 1..k : a[i] = s[i] /\ i \in 1..Len(s)
      /\ \A i \in 1..(Len(s) - k) : b[i] = s[k + i] /\ k + i \in 1..Len(s)
      /\ \A i \in 1..Len(s) : i \in 1..k \/ (i - k \in 1..(Len(s) - k) /\ s[i] = b[i - k])
  BY <1>1
<1>4. ToSet(s) = ToSet(a) \cup ToSet(b)
  <2>1. ToSet(s) \subseteq ToSet(a) \cup ToSet(b)
    <3>1. ASSUME NEW x \in ToSet(s) PROVE x \in ToSet(a) \cup ToSet(b)
      <4>1. PICK i \in 1..Len(s) : x = s[i]
        BY <1>1 DEF ToSet
      <4>2. CASE i \in 1..k
        BY <1>2, <1>3, <4>1, <4>2 DEF ToSet
      <4>3. CASE i - k \in 1..(Len(s) - k) /\ s[i] = b[i - k]
        BY <1>2, <4>1, <4>3 DEF ToSet
      <4> QED
        BY <1>3, <4>2, <4>3
    <3> QED
      BY <3>1
  <2>2. ToSet(a) \subseteq ToSet(s)
    BY <1>1, <1>2, <1>3 DEF ToSet
  <2>3. ToSet(b) \subseteq ToSet(s)
    BY <1>1, <1>2, <1>3 DEF ToSet
  <2> QED
    BY <2>1, <2>2, <2>3
<1>5. ASSUME IsInjective(s)
      PROVE  IsInjective(a) /\ IsInjective(b) /\ ToSet(a) \cap ToSet(b) = {}
  <2>1. \A i, j \in 1..Len(s) : s[i] = s[j] => i = j
    BY <1>1, <1>5 DEF IsInjective
  <2>2. \A i, j \in 1..k : a[i] = a[j] => i = j
    BY <1>3, <2>1
  <2>3. \A i, j \in 1..(Len(s) - k) : b[i] = b[j] => k + i = k + j
    BY <1>3, <2>1
  <2>4. \A i, j \in 1..(Len(s) - k) : b[i] = b[j] => i = j
    BY <1>1, <2>3
  <2>5. \A i \in 1..k, j \in 1..(Len(s) - k) : a[i] # b[j]
    <3> TAKE i \in 1..k, j \in 1..(Len(s) - k)
    <3>1. i # k + j
      BY <1>1
    <3> QED
      BY <1>3, <2>1, <3>1
  <2> QED
    BY <1>2, <2>2, <2>4, <2>5 DEF ToSet, IsInjective
<1> QED
  BY <1>2, <1>4, <1>5 DEF a, b, Apart

\* finish_wcs gives back the buffers of the completions, and posts as many
\* receives as there are among them.
LEMMA FinishFacts ==
  ASSUME buffers \in Seq(Buf), rq \in Seq(Buf), NEW wcs \in Seq(WC), FinishWcs(wcs)
  PROVE  /\ buffers' \in Seq(Buf) /\ Len(buffers') = Len(buffers) + Len(wcs) - ReceivesOf(wcs)
         /\ rq' \in Seq(Buf) /\ Len(rq') = Len(rq) + ReceivesOf(wcs)
         /\ ToSet(buffers') \cup ToSet(rq') = ToSet(buffers) \cup ToSet(rq) \cup ToSet(BufsOf(wcs))
         /\ (/\ IsInjective(buffers) /\ IsInjective(rq) /\ IsInjective(BufsOf(wcs))
             /\ Apart(buffers, rq) /\ Apart(buffers, BufsOf(wcs)) /\ Apart(rq, BufsOf(wcs)))
            => IsInjective(buffers') /\ IsInjective(rq') /\ Apart(buffers', rq')
<1> DEFINE back == buffers \o BufsOf(wcs)
           kept == Len(back) - ReceivesOf(wcs)
           a == SubSeq(back, 1, kept)
           b == SubSeq(back, kept + 1, Len(back))
<1>1. /\ BufsOf(wcs) \in Seq(Buf) /\ Len(BufsOf(wcs)) = Len(wcs) /\ Len(wcs) \in Nat
      /\ ReceivesOf(wcs) \in Nat /\ ReceivesOf(wcs) <= Len(wcs)
  BY BufsFacts
<1>2. buffers' = a /\ rq' = rq \o Reverse(b)
  BY DEF FinishWcs, IsRecv, ReceivesOf, BufsOf
<1>3. /\ back \in Seq(Buf) /\ Len(back) = Len(buffers) + Len(wcs)
      /\ Len(buffers) \in Nat /\ Len(rq) \in Nat
  <2>1. back \in Seq(Buf) /\ Len(back) = Len(buffers) + Len(BufsOf(wcs))
    BY ONLY <1>1, buffers \in Seq(Buf)
  <2> HIDE DEF back
  <2> QED
    BY <1>1, <2>1
<1>4. /\ ToSet(back) = ToSet(buffers) \cup ToSet(BufsOf(wcs))
      /\ IsInjective(buffers) /\ IsInjective(BufsOf(wcs)) /\ Apart(buffers, BufsOf(wcs))
           => IsInjective(back)
  BY <1>1, ConcatFacts DEF Apart
<1> HIDE DEF back
<1>5. kept \in 0..Len(back) /\ kept = Len(buffers) + Len(wcs) - ReceivesOf(wcs)
  BY ONLY <1>1, <1>3, SMTT(60)
<1> HIDE DEF kept
<1>6. /\ a \in Seq(Buf) /\ Len(a) = kept
      /\ b \in Seq(Buf) /\ Len(b) = Len(back) - kept
      /\ ToSet(back) = ToSet(a) \cup ToSet(b)
      /\ IsInjective(back) => IsInjective(a) /\ IsInjective(b) /\ Apart(a, b)
  BY ONLY <1>3, <1>5, CutFacts, ZenonT(120)
<1> HIDE DEF a, b
<1>7. /\ Reverse(b) \in Seq(Buf) /\ ToSet(Reverse(b)) = ToSet(b)
      /\ IsInjective(b) => IsInjective(Reverse(b))
  BY <1>6, ReverseFacts
<1>8. Len(Reverse(b)) = Len(b)
  BY <1>6 DEF Reverse
<1>9. /\ rq' \in Seq(Buf) /\ Len(rq') = Len(rq) + Len(b)
      /\ ToSet(rq') = ToSet(rq) \cup ToSet(b)
      /\ IsInjective(rq) /\ IsInjective(Reverse(b)) /\ Apart(rq, b) => IsInjective(rq')
  BY <1>2, <1>7, <1>8, ConcatFacts DEF Apart
<1>10. Len(rq') = Len(rq) + ReceivesOf(wcs)
  BY <1>1, <1>3, <1>5, <1>6, <1>9, SMTT(60)
<1> QED
  BY <1>2, <1>4, <1>5, <1>6, <1>7, <1>9, <1>10 DEF Apart

-----------------------------------------------------------------------------
(* _cq_drain: every completion is either put aside for recvfrom or         *)
(* finished, so the receives and the buffers are conserved.                *)

LEMMA BufsConcat ==
  ASSUME NEW v \in Seq(WC), NEW w \in Seq(WC)
  PROVE  /\ v \o w \in Seq(WC) /\ Len(v \o w) = Len(v) + Len(w)
         /\ BufsOf(v \o w) = BufsOf(v) \o BufsOf(w)
  BY BufsFacts DEF BufsOf

Good == {i \in DOMAIN cq : Received(cq[i])}
Rest == {i \in DOMAIN cq : Finished(cq[i])}

\* The CQ as what _cq_drain keeps and what it recycles.
LEMMA DrainSplit ==
  ASSUME cq \in Seq(WC)
  PROVE  /\ Good \in SUBSET (DOMAIN cq) /\ Rest \in SUBSET (DOMAIN cq)
         /\ Good \cup Rest = DOMAIN cq /\ Good \cap Rest = {}
         /\ Cardinality(Good) \in Nat /\ Cardinality(Rest) \in Nat
         /\ Cardinality(Good) + Cardinality(Rest) = Len(cq)
         /\ Cardinality({i \in Rest : cq[i].recv}) \in Nat
         /\ Cardinality(Good) + Cardinality({i \in Rest : cq[i].recv}) = ReceivesOf(cq)
<1> DEFINE R == {i \in DOMAIN cq : cq[i].recv}
           Q == {i \in Rest : cq[i].recv}
<1>1. DOMAIN cq = 1..Len(cq) /\ Len(cq) \in Nat /\ \A i \in DOMAIN cq : cq[i] \in WC
  OBVIOUS
<1>2. /\ Good \in SUBSET (DOMAIN cq) /\ Rest \in SUBSET (DOMAIN cq)
      /\ Good \cup Rest = DOMAIN cq /\ Good \cap Rest = {}
  BY DEF Good, Rest, Finished
<1>3. Good \cup Q = R /\ Good \cap Q = {} /\ Q \in SUBSET (DOMAIN cq)
  BY DEF Good, Rest, Finished, Received
<1> HIDE DEF R, Q
<1>4. /\ IsFiniteSet(Good) /\ IsFiniteSet(Rest) /\ IsFiniteSet(Q)
      /\ Cardinality(Good) \in Nat /\ Cardinality(Rest) \in Nat /\ Cardinality(Q) \in Nat
  BY <1>2, <1>3, IndexFacts
<1>5. Cardinality(1..Len(cq)) = Len(cq)
  <2>1. 1 \in Int /\ Len(cq) \in Int
    BY <1>1
  <2>2. Cardinality(1..Len(cq)) = IF 1 > Len(cq) THEN 0 ELSE Len(cq) - 1 + 1
    BY ONLY <2>1, FS_Interval
  <2> QED
    BY <1>1, <2>2
<1>6. Cardinality({}) = 0
  BY FS_EmptySet
<1>7. Cardinality(Good \cup Rest) = Cardinality(Good) + Cardinality(Rest) - Cardinality(Good \cap Rest)
  BY ONLY <1>4, FS_Union
<1>8. Cardinality(Good \cup Q) = Cardinality(Good) + Cardinality(Q) - Cardinality(Good \cap Q)
  BY ONLY <1>4, FS_Union
<1>a. Cardinality(Good \cup Rest) = Len(cq) /\ Cardinality(Good \cap Rest) = 0
  BY ONLY <1>1, <1>2, <1>5, <1>6, Zenon
<1>b. Cardinality(Good \cup Q) = Cardinality(R) /\ Cardinality(Good \cap Q) = 0
  BY ONLY <1>3, <1>6, Zenon
<1>9. Cardinality(Good) + Cardinality(Rest) = Len(cq)
  BY ONLY <1>4, <1>7, <1>a
<1>10. Cardinality(Good) + Cardinality(Q) = Cardinality(R)
  BY ONLY <1>4, <1>8, <1>b
<1> QED
  BY <1>2, <1>4, <1>9, <1>10 DEF R, Q, ReceivesOf

PlacesInv ==
  /\ IsInjective(buffers) /\ IsInjective(sq) /\ IsInjective(rq)
  /\ IsInjective(BufsOf(cq)) /\ IsInjective(BufsOf(recvs))
  /\ Apart(buffers, sq) /\ Apart(buffers, rq) /\ Apart(sq, rq)
  /\ Apart(buffers, BufsOf(cq)) /\ Apart(sq, BufsOf(cq)) /\ Apart(rq, BufsOf(cq))
  /\ Apart(buffers, BufsOf(recvs)) /\ Apart(sq, BufsOf(recvs)) /\ Apart(rq, BufsOf(recvs))
  /\ Apart(BufsOf(cq), BufsOf(recvs))

Pools == buffers \in Seq(Buf) /\ rq \in Seq(Buf) /\ cq \in Seq(WC) /\ recvs \in Seq(WC)

\* _cq_drain empties the CQ and loses no buffer.
LEMMA DrainFacts ==
  ASSUME Pools, Drain
  PROVE  /\ Pools' /\ ReceivesOf(cq') = 0 /\ Len(cq') = 0
         /\ Len(rq') + Len(recvs') = Len(rq) + Len(recvs) + ReceivesOf(cq)
         /\ Len(buffers') = Len(buffers) + Len(cq) - ReceivesOf(cq)
         /\ PlacesInv /\ sq' = sq => PlacesInv'
<1> DEFINE g == Picked(cq, Good)
           r == Picked(cq, Rest)
<1>1. /\ buffers \in Seq(Buf) /\ rq \in Seq(Buf) /\ cq \in Seq(WC) /\ recvs \in Seq(WC)
      /\ Len(buffers) \in Nat /\ Len(rq) \in Nat /\ Len(recvs) \in Nat
  BY DEF Pools
<1>2. recvs' = recvs \o g /\ FinishWcs(r) /\ cq' = <<>>
  BY DEF Drain, Good, Rest
<1>3. Good \in SUBSET (DOMAIN cq) /\ Rest \in SUBSET (DOMAIN cq)
  BY <1>1, DrainSplit
<1>4. /\ g \in Seq(WC) /\ Len(g) = Cardinality(Good)
      /\ ToSet(BufsOf(g)) = {cq[i].buf : i \in Good}
      /\ IsInjective(BufsOf(cq)) => IsInjective(BufsOf(g))
  BY ONLY <1>1, <1>3, BufsPicked
<1>5. /\ r \in Seq(WC) /\ Len(r) = Cardinality(Rest)
      /\ ToSet(BufsOf(r)) = {cq[i].buf : i \in Rest}
      /\ IsInjective(BufsOf(cq)) => IsInjective(BufsOf(r))
      /\ ReceivesOf(r) = Cardinality({i \in Rest : cq[i].recv})
  BY ONLY <1>1, <1>3, BufsPicked
<1> HIDE DEF g, r
<1>6. /\ buffers' \in Seq(Buf) /\ Len(buffers') = Len(buffers) + Len(r) - ReceivesOf(r)
      /\ rq' \in Seq(Buf) /\ Len(rq') = Len(rq) + ReceivesOf(r)
      /\ ToSet(buffers') \cup ToSet(rq') = ToSet(buffers) \cup ToSet(rq) \cup ToSet(BufsOf(r))
      /\ (/\ IsInjective(buffers) /\ IsInjective(rq) /\ IsInjective(BufsOf(r))
          /\ Apart(buffers, rq) /\ Apart(buffers, BufsOf(r)) /\ Apart(rq, BufsOf(r)))
         => IsInjective(buffers') /\ IsInjective(rq') /\ Apart(buffers', rq')
  BY ONLY <1>1, <1>2, <1>5, FinishFacts
<1>7. /\ recvs' \in Seq(WC) /\ Len(recvs') = Len(recvs) + Len(g)
      /\ BufsOf(recvs') = BufsOf(recvs) \o BufsOf(g)
  BY ONLY <1>1, <1>2, <1>4, BufsConcat
<1>8. cq' \in Seq(WC) /\ Len(cq') = 0 /\ BufsOf(cq') = <<>> /\ ReceivesOf(cq') = 0
  BY <1>2, FS_EmptySet DEF BufsOf, ReceivesOf
<1>9. /\ Len(rq') + Len(recvs') = Len(rq) + Len(recvs) + ReceivesOf(cq)
      /\ Len(buffers') = Len(buffers) + Len(cq) - ReceivesOf(cq)
  <2>1. /\ Cardinality(Good) \in Nat /\ Cardinality(Rest) \in Nat
        /\ Cardinality(Good) + Cardinality(Rest) = Len(cq)
        /\ ReceivesOf(r) \in Nat
        /\ Cardinality(Good) + ReceivesOf(r) = ReceivesOf(cq)
    BY ONLY <1>1, <1>5, DrainSplit
  <2> QED
    BY ONLY <1>1, <1>4, <1>5, <1>6, <1>7, <2>1, SMTT(60)
<1>10. ASSUME PlacesInv, sq' = sq PROVE PlacesInv'
  <2>1. ToSet(BufsOf(cq)) = ToSet(BufsOf(g)) \cup ToSet(BufsOf(r))
    <3>1. ToSet(BufsOf(cq)) = {cq[i].buf : i \in DOMAIN cq}
      BY <1>1, BufsFacts
    <3> QED
      BY <1>1, <1>4, <1>5, <3>1, DrainSplit
  <2>2. Apart(BufsOf(g), BufsOf(r))
    <3>1. \A i, j \in DOMAIN cq : cq[i].buf = cq[j].buf => i = j
      <4>1. /\ DOMAIN BufsOf(cq) = DOMAIN cq
            /\ \A i \in DOMAIN cq : BufsOf(cq)[i] = cq[i].buf
        BY <1>1 DEF BufsOf
      <4> QED
        BY <1>10, <4>1 DEF PlacesInv, IsInjective
    <3> QED
      BY <1>1, <1>3, <1>4, <1>5, <3>1, DrainSplit, SMTT(60) DEF Apart
  <2>3. IsInjective(BufsOf(g)) /\ IsInjective(BufsOf(r))
    BY <1>4, <1>5, <1>10 DEF PlacesInv
  <2>4. IsInjective(buffers') /\ IsInjective(rq') /\ Apart(buffers', rq')
    BY <1>6, <1>10, <2>1, <2>3 DEF PlacesInv, Apart
  <2>5. BufsOf(g) \in Seq(Buf) /\ BufsOf(recvs) \in Seq(Buf)
    BY <1>1, <1>4, BufsFacts
  <2>6. ToSet(BufsOf(recvs')) = ToSet(BufsOf(recvs)) \cup ToSet(BufsOf(g))
    BY <1>7, <2>5, ConcatFacts
  <2>7. IsInjective(BufsOf(recvs'))
    BY <1>7, <1>10, <2>1, <2>3, <2>5, ConcatFacts DEF PlacesInv, Apart
  <2>8. ToSet(BufsOf(cq')) = {} /\ IsInjective(BufsOf(cq'))
    BY <1>8, EmptyFacts
  <2> QED
    BY <1>6, <1>10, <2>1, <2>2, <2>4, <2>6, <2>7, <2>8 DEF PlacesInv, Apart
<1> QED
  BY <1>6, <1>7, <1>8, <1>9, <1>10 DEF Pools

-----------------------------------------------------------------------------
(* Types.                                                                  *)

LEMMA BoundFacts ==
  /\ Depth \in Nat \ {0} /\ Retries \in Nat /\ MaxTid \in Nat \ {0} /\ MaxForeign \in Nat
  /\ MaxEvents \in Nat \ {0}
  /\ Posted \in Nat /\ Posted <= Depth /\ Posted <= MaxRecvWr /\ MaxRecvWr \in Nat
  /\ FirstSends \in Nat /\ FirstSends <= MaxSendWr /\ FirstSends <= 2 * Depth - Posted
  /\ MaxSendWr \in Nat
  /\ Buf = 0..(2 * Depth - 1) /\ Tid = 1..MaxTid /\ Packet = 0..MaxTid
  BY VMADAssumption DEF Posted, FirstSends, Least, Buf, Tid, Packet

\* How a call may end.
Ending == [exc : {"none", "RDMAError", "SysError", "AsyncError", "WCError", "AttributeError"},
           said : {"none", "RQ", "SQ"}, was : {"none", "RQ", "SQ"}]

LEMMA EndingFacts ==
  /\ NoError \in Ending
  /\ \A wcs : Error(wcs) \in Ending
  /\ \A e \in {"RDMAError", "SysError", "AsyncError", "AttributeError"} :
       [NoError EXCEPT !.exc = e] \in Ending
<1>1. NoError \in Ending
  BY DEF NoError, Ending
<1>2. \A wc : Queue(wc) \in {"none", "RQ", "SQ"}
  BY DEF Queue
<1>3. \A wcs : Error(wcs) \in Ending
  BY <1>2 DEF Error, Ending
<1>4. \A e \in {"RDMAError", "SysError", "AsyncError", "AttributeError"} :
       [NoError EXCEPT !.exc = e] \in Ending
  BY DEF NoError, Ending
<1> QED
  BY <1>1, <1>3, <1>4

\* The state of the thread, of the hardware and of the network, and the history.
ThreadType ==
  /\ pc \in {"idle", "send", "recv", "drain", "sleep", "path", "return"}
  /\ op \in {"none", "sendto", "recvfrom", "execute"}
  /\ tid \in 0..MaxTid /\ left \in Nat /\ hand \in [buf : Buf, packet : Packet]
  /\ raised \in Ending
QueueType == Pools /\ sq \in Seq(Buf) /\ mem \in [Buf -> Packet]
AdapterType == armed \in BOOLEAN /\ events \in Nat /\ qpok \in BOOLEAN
NetType == wire \in [Tid -> Nat] /\ foreign \in Nat
HistoryType == sends \in [Tid -> Nat] /\ outcome \in [Tid -> {"none", "reply", "timeout"}]

LEMMA TypeParts == TypeOK <=> ThreadType /\ QueueType /\ AdapterType /\ NetType /\ HistoryType
  BY DEF TypeOK, ThreadType, QueueType, AdapterType, NetType, HistoryType, Pools, Ending

\* Free buffers below, posted ones above.
LEMMA InitFacts ==
  ASSUME Init
  PROVE  QueueType /\ PlacesInv /\ Len(buffers) = FirstSends /\ Len(sq) = 0
         /\ Len(rq) = Posted /\ Len(cq) = 0 /\ Len(recvs) = 0
<1> USE BoundFacts
<1>1. /\ buffers \in Seq(Buf) /\ Len(buffers) = FirstSends /\ DOMAIN buffers = 1..FirstSends
      /\ \A i \in 1..FirstSends : buffers[i] = i - 1
  BY DEF Init
<1>2. /\ rq \in Seq(Buf) /\ Len(rq) = Posted /\ DOMAIN rq = 1..Posted
      /\ \A i \in 1..Posted : rq[i] = 2 * Depth - i
  BY DEF Init
<1>3. /\ sq = <<>> /\ cq = <<>> /\ recvs = <<>> /\ BufsOf(cq) = <<>> /\ BufsOf(recvs) = <<>>
      /\ mem \in [Buf -> Packet]
  BY DEF Init, BufsOf
<1>4. IsInjective(buffers) /\ IsInjective(rq)
  BY <1>1, <1>2, SMTT(60) DEF IsInjective
<1>5. Apart(buffers, rq)
  BY <1>1, <1>2 DEF Apart, ToSet
<1>6. \A s : Apart(s, <<>>) /\ Apart(<<>>, s)
  BY EmptyFacts DEF Apart
<1> QED
  BY <1>1, <1>2, <1>3, <1>4, <1>5, <1>6, EmptyFacts DEF QueueType, Pools, PlacesInv

\* The constructor leaves everything well typed.
LEMMA VMADTypeInit == Init => TypeOK
<1> SUFFICES ASSUME Init PROVE TypeOK
  OBVIOUS
<1>1. ThreadType
  BY BoundFacts, EndingFacts DEF Init, ThreadType, Empty
<1>2. AdapterType
  BY DEF Init, AdapterType
<1>3. NetType /\ HistoryType
  BY BoundFacts DEF Init, NetType, HistoryType
<1> QED
  BY <1>1, <1>2, <1>3, InitFacts, TypeParts

-----------------------------------------------------------------------------
(* Buffers and receives.  The queues and the places of their buffers, the  *)
(* receives and the sends are preserved together.                          *)

Sending == Len(buffers) + Len(sq) + (Len(cq) - ReceivesOf(cq))
KeptReceives == \A i \in 1..Len(recvs) : recvs[i].recv
QueueInv == /\ QueueType /\ PlacesInv /\ ReceivesStayPosted /\ KeptReceives
            /\ Sending <= FirstSends

\* The lengths the counts are made of are numbers.
LEMMA LengthFacts ==
  ASSUME QueueType
  PROVE  /\ Len(buffers) \in Nat /\ Len(sq) \in Nat /\ Len(rq) \in Nat
         /\ Len(cq) \in Nat /\ Len(recvs) \in Nat
         /\ ReceivesOf(cq) \in Nat /\ ReceivesOf(cq) <= Len(cq)
<1>1. cq \in Seq(WC)
  BY DEF QueueType, Pools
<1> QED
  BY <1>1, BufsFacts DEF QueueType, Pools

\* The adapter completes one work request.
LEMMA CompleteFacts ==
  ASSUME QueueType, NEW wc \in WC, Complete(wc)
  PROVE  /\ cq' \in Seq(WC) /\ Len(cq') = Len(cq) + 1
         /\ ReceivesOf(cq') = ReceivesOf(cq) + IF wc.recv THEN 1 ELSE 0
         /\ ToSet(BufsOf(cq')) = ToSet(BufsOf(cq)) \cup {wc.buf}
         /\ IsInjective(BufsOf(cq)) /\ wc.buf \notin ToSet(BufsOf(cq)) => IsInjective(BufsOf(cq'))
<1>1. cq \in Seq(WC) /\ cq' = Append(cq, wc) /\ wc.buf \in Buf
  BY DEF QueueType, Pools, Complete, WC
<1>2. BufsOf(cq) \in Seq(Buf)
  BY <1>1, BufsFacts
<1>3. BufsOf(cq') = Append(BufsOf(cq), wc.buf)
  BY <1>1, BufsAppend
<1> QED
  BY <1>1, <1>2, <1>3, BufsAppend, AppendFacts

\* A receive that completes moves its buffer from the receive queue to the CQ.
LEMMA RecvCompletes ==
  ASSUME QueueInv, rq # <<>>, NEW wc \in WC, wc.buf = Head(rq), wc.recv, Complete(wc),
         rq' = Tail(rq), UNCHANGED <<buffers, recvs, sq>>, mem' \in [Buf -> Packet]
  PROVE  QueueInv'
<1>1. /\ Tail(rq) \in Seq(Buf) /\ Len(rq') = Len(rq) - 1 /\ ToSet(rq) = ToSet(rq') \cup {wc.buf}
      /\ IsInjective(rq) => IsInjective(rq') /\ wc.buf \notin ToSet(rq')
  BY TailFacts DEF QueueInv, QueueType, Pools
<1>2. /\ cq' \in Seq(WC) /\ Len(cq') = Len(cq) + 1 /\ ReceivesOf(cq') = ReceivesOf(cq) + 1
      /\ ToSet(BufsOf(cq')) = ToSet(BufsOf(cq)) \cup {wc.buf}
      /\ IsInjective(BufsOf(cq)) /\ wc.buf \notin ToSet(BufsOf(cq)) => IsInjective(BufsOf(cq'))
  BY CompleteFacts DEF QueueInv
<1>3. QueueType'
  BY <1>1, <1>2 DEF QueueInv, QueueType, Pools
<1>4. PlacesInv'
  BY <1>1, <1>2 DEF QueueInv, PlacesInv, Apart
<1>5. ReceivesStayPosted' /\ Sending' <= FirstSends
  <2>1. /\ QueueType /\ ReceivesStayPosted /\ Sending <= FirstSends
        /\ Len(rq') = Len(rq) - 1
        /\ Len(recvs') = Len(recvs) /\ Len(buffers') = Len(buffers) /\ Len(sq') = Len(sq)
    BY <1>1 DEF QueueInv
  <2>2. /\ Len(buffers) \in Nat /\ Len(sq) \in Nat /\ Len(rq) \in Nat
        /\ Len(cq) \in Nat /\ Len(recvs) \in Nat /\ ReceivesOf(cq) \in Nat
    BY <2>1, LengthFacts
  <2> QED
    BY ONLY <1>2, <2>1, <2>2, BoundFacts, SMTT(60) DEF ReceivesStayPosted, Sending
<1>6. KeptReceives'
  BY DEF QueueInv, KeptReceives
<1> QED
  BY <1>3, <1>4, <1>5, <1>6 DEF QueueInv

\* So does a send, from the send queue.
LEMMA SendCompletes ==
  ASSUME QueueInv, sq # <<>>, NEW wc \in WC, wc.buf = Head(sq), ~wc.recv, Complete(wc),
         sq' = Tail(sq), UNCHANGED <<buffers, recvs, rq, mem>>
  PROVE  QueueInv'
<1>1. /\ Tail(sq) \in Seq(Buf) /\ Len(sq') = Len(sq) - 1 /\ ToSet(sq) = ToSet(sq') \cup {wc.buf}
      /\ IsInjective(sq) => IsInjective(sq') /\ wc.buf \notin ToSet(sq')
  BY TailFacts DEF QueueInv, QueueType, Pools
<1>2. /\ cq' \in Seq(WC) /\ Len(cq') = Len(cq) + 1 /\ ReceivesOf(cq') = ReceivesOf(cq)
      /\ ToSet(BufsOf(cq')) = ToSet(BufsOf(cq)) \cup {wc.buf}
      /\ IsInjective(BufsOf(cq)) /\ wc.buf \notin ToSet(BufsOf(cq)) => IsInjective(BufsOf(cq'))
  BY CompleteFacts, LengthFacts DEF QueueInv
<1>3. QueueType'
  BY <1>1, <1>2 DEF QueueInv, QueueType, Pools
<1>4. PlacesInv'
  BY <1>1, <1>2 DEF QueueInv, PlacesInv, Apart
<1>5. ReceivesStayPosted' /\ Sending' <= FirstSends
  BY <1>1, <1>2, LengthFacts, BoundFacts DEF QueueInv, ReceivesStayPosted, Sending
<1>6. KeptReceives'
  BY DEF QueueInv, KeptReceives
<1> QED
  BY <1>3, <1>4, <1>5, <1>6 DEF QueueInv

\* A buffer that is popped is posted as a send, or lost.
LEMMA BufferPopped ==
  ASSUME QueueInv, buffers # <<>>, buffers' = Front(buffers),
         sq' = Append(sq, Last(buffers)) \/ sq' = sq, UNCHANGED <<recvs, rq, cq, mem>>
  PROVE  QueueInv'
<1>1. /\ Front(buffers) \in Seq(Buf) /\ Len(buffers') = Len(buffers) - 1
      /\ Last(buffers) \in Buf /\ Last(buffers) \in ToSet(buffers)
      /\ ToSet(buffers) = ToSet(buffers') \cup {Last(buffers)}
      /\ IsInjective(buffers) => IsInjective(buffers') /\ Last(buffers) \notin ToSet(buffers')
  BY FrontFacts DEF QueueInv, QueueType, Pools
<1>2. /\ Append(sq, Last(buffers)) \in Seq(Buf) /\ Len(Append(sq, Last(buffers))) = Len(sq) + 1
      /\ ToSet(Append(sq, Last(buffers))) = ToSet(sq) \cup {Last(buffers)}
      /\ IsInjective(sq) /\ Last(buffers) \notin ToSet(sq) => IsInjective(Append(sq, Last(buffers)))
  BY <1>1, AppendFacts DEF QueueInv, QueueType
<1>3. QueueType'
  BY <1>1, <1>2 DEF QueueInv, QueueType, Pools
<1>4. PlacesInv'
  <2>1. CASE sq' = Append(sq, Last(buffers))
    BY <1>1, <1>2, <2>1 DEF QueueInv, PlacesInv, Apart
  <2>2. CASE sq' = sq
    BY <1>1, <2>2 DEF QueueInv, PlacesInv, Apart
  <2> QED
    BY <2>1, <2>2
<1>5. ReceivesStayPosted' /\ Sending' <= FirstSends
  <2>1. /\ ReceivesStayPosted' /\ Len(sq') <= Len(sq) + 1 /\ Len(sq') \in Nat
        /\ Len(cq') = Len(cq) /\ ReceivesOf(cq') = ReceivesOf(cq)
    BY <1>2, LengthFacts DEF QueueInv, ReceivesStayPosted
  <2> QED
    BY <1>1, <2>1, LengthFacts, BoundFacts, SMTT(60) DEF QueueInv, Sending
<1>6. KeptReceives'
  BY DEF QueueInv, KeptReceives
<1> QED
  BY <1>3, <1>4, <1>5, <1>6 DEF QueueInv

\* recvfrom takes a completion from _recvs and finishes it.
LEMMA RecvTaken ==
  ASSUME QueueInv, TakeRecv
  PROVE  QueueInv'
<1> DEFINE w == <<Head(recvs)>>
           bs == BufsOf(recvs)
<1>1. /\ recvs \in Seq(WC) /\ recvs # <<>> /\ recvs' = Tail(recvs)
      /\ buffers \in Seq(Buf) /\ rq \in Seq(Buf)
      /\ FinishWcs(w) /\ UNCHANGED <<sq, cq, mem>>
  BY DEF TakeRecv, QueueInv, QueueType, Pools
<1>2. /\ Head(recvs) \in WC /\ Tail(recvs) \in Seq(WC) /\ Len(recvs) \in Nat \ {0}
      /\ Len(Tail(recvs)) = Len(recvs) - 1
      /\ Head(recvs) = recvs[1] /\ \A i \in 1..Len(Tail(recvs)) : Tail(recvs)[i] = recvs[i + 1]
  BY ONLY <1>1, TailFacts
<1>3. /\ w \in Seq(WC) /\ Len(w) = 1 /\ DOMAIN w = {1} /\ w[1] = Head(recvs)
      /\ BufsOf(w) = <<Head(recvs).buf>> /\ Head(recvs).buf \in Buf
  BY ONLY <1>2 DEF BufsOf, WC
<1>4. KeptReceives' /\ Head(recvs).recv
  BY <1>1, <1>2 DEF QueueInv, KeptReceives
<1> HIDE DEF w
<1>5. ReceivesOf(w) = 1
  <2>1. {i \in DOMAIN w : w[i].recv} = {1}
    BY <1>3, <1>4
  <2> QED
    BY <2>1, FS_Singleton, Zenon DEF ReceivesOf
<1>6. /\ bs \in Seq(Buf) /\ bs # <<>> /\ Head(bs) = Head(recvs).buf
      /\ Tail(bs) = BufsOf(Tail(recvs))
  <2>1. /\ bs \in Seq(Buf) /\ Len(bs) = Len(recvs) /\ \A i \in 1..Len(recvs) : bs[i] = recvs[i].buf
    BY ONLY <1>1, BufsFacts
  <2>2. /\ BufsOf(Tail(recvs)) \in Seq(Buf) /\ Len(BufsOf(Tail(recvs))) = Len(recvs) - 1
        /\ \A i \in 1..(Len(recvs) - 1) : BufsOf(Tail(recvs))[i] = recvs[i + 1].buf
    BY <1>2, BufsFacts, ZenonT(120)
  <2> HIDE DEF bs
  <2> QED
    BY ONLY <1>2, <2>1, <2>2
<1> HIDE DEF bs
<1>7. /\ ToSet(bs) = ToSet(Tail(bs)) \cup {Head(bs)}
      /\ IsInjective(bs) => IsInjective(Tail(bs)) /\ Head(bs) \notin ToSet(Tail(bs))
  BY ONLY <1>6, TailFacts
<1>8. ToSet(BufsOf(w)) = {Head(bs)} /\ IsInjective(BufsOf(w))
  BY <1>3, <1>6 DEF ToSet, IsInjective
<1>9. /\ buffers' \in Seq(Buf) /\ Len(buffers') = Len(buffers) + Len(w) - ReceivesOf(w)
      /\ rq' \in Seq(Buf) /\ Len(rq') = Len(rq) + ReceivesOf(w)
      /\ ToSet(buffers') \cup ToSet(rq') = ToSet(buffers) \cup ToSet(rq) \cup ToSet(BufsOf(w))
      /\ (/\ IsInjective(buffers) /\ IsInjective(rq) /\ IsInjective(BufsOf(w))
          /\ Apart(buffers, rq) /\ Apart(buffers, BufsOf(w)) /\ Apart(rq, BufsOf(w)))
         => IsInjective(buffers') /\ IsInjective(rq') /\ Apart(buffers', rq')
  BY ONLY <1>1, <1>3, FinishFacts
<1>10. QueueType'
  BY <1>1, <1>2, <1>9 DEF QueueInv, QueueType, Pools
<1>11. PlacesInv'
  BY <1>1, <1>6, <1>7, <1>8, <1>9, ZenonT(120) DEF QueueInv, PlacesInv, Apart, bs
<1>12. ReceivesStayPosted' /\ Sending' <= FirstSends
  <2>1. ReceivesOf(cq') = ReceivesOf(cq) /\ Len(cq') = Len(cq) /\ Len(sq') = Len(sq)
    BY <1>1
  <2> QED
    BY <1>1, <1>2, <1>3, <1>5, <1>9, <2>1, LengthFacts, BoundFacts
    DEF QueueInv, ReceivesStayPosted, Sending
<1> QED
  BY <1>4, <1>10, <1>11, <1>12 DEF QueueInv

\* _cq_drain keeps the good receives and finishes the rest.
LEMMA QueueDrained ==
  ASSUME QueueInv, Drain, UNCHANGED <<sq, mem>>
  PROVE  QueueInv'
<1>1. Pools /\ PlacesInv
  BY DEF QueueInv, QueueType
<1>2. /\ Pools' /\ ReceivesOf(cq') = 0 /\ Len(cq') = 0
      /\ Len(rq') + Len(recvs') = Len(rq) + Len(recvs) + ReceivesOf(cq)
      /\ Len(buffers') = Len(buffers) + Len(cq) - ReceivesOf(cq)
      /\ PlacesInv'
  BY <1>1, DrainFacts
<1>3. QueueType'
  BY <1>2 DEF QueueInv, QueueType
<1>4. KeptReceives'
  <2> DEFINE g == Picked(cq, Good)
  <2>1. cq \in Seq(WC) /\ recvs \in Seq(WC) /\ Good \in SUBSET (DOMAIN cq) /\ recvs' = recvs \o g
    BY <1>1, DrainSplit DEF Pools, Drain, Good
  <2>2. /\ g \in Seq(WC) /\ Len(g) = Cardinality(Good)
        /\ \E f \in Bijection(1..Cardinality(Good), Good) :
             \A k \in 1..Cardinality(Good) : g[k] = cq[f[k]]
    BY ONLY <2>1, PickedFacts
  <2> HIDE DEF g
  <2>3. PICK f \in Bijection(1..Cardinality(Good), Good) :
             \A k \in 1..Cardinality(Good) : g[k] = cq[f[k]]
    BY <2>2
  <2>4. \A k \in 1..Len(g) : g[k].recv
    <3>1. f \in [1..Cardinality(Good) -> Good]
      BY DEF Bijection, Injection
    <3>2. \A i \in Good : cq[i].recv
      BY DEF Good, Received
    <3> QED
      BY <2>2, <2>3, <3>1, <3>2
  <2>5. /\ Len(recvs') = Len(recvs) + Len(g) /\ Len(recvs) \in Nat /\ Len(g) \in Nat
        /\ \A i \in 1..Len(recvs) : recvs'[i] = recvs[i]
        /\ \A i \in 1..Len(g) : recvs'[i + Len(recvs)] = g[i]
    BY ONLY <2>1, <2>2
  <2>6. \A i \in 1..Len(recvs') : i \in 1..Len(recvs) \/ i - Len(recvs) \in 1..Len(g)
    BY <2>5
  <2>8. ASSUME NEW i \in 1..Len(recvs') PROVE recvs'[i].recv
    <3>1. CASE i \in 1..Len(recvs)
      BY <2>5, <3>1 DEF QueueInv, KeptReceives
    <3>2. CASE i - Len(recvs) \in 1..Len(g)
      <4>1. (i - Len(recvs)) + Len(recvs) = i
        BY <2>5
      <4>2. recvs'[i] = g[i - Len(recvs)]
        BY <2>5, <3>2, <4>1
      <4> QED
        BY <2>4, <3>2, <4>2
    <3> QED
      BY <2>6, <3>1, <3>2
  <2> QED
    BY <2>8 DEF KeptReceives
<1>5. ReceivesStayPosted' /\ Sending' <= FirstSends
  <2>1. QueueType /\ ReceivesStayPosted /\ Sending <= FirstSends /\ sq' = sq
    BY DEF QueueInv
  <2>2. Len(buffers') \in Nat /\ Len(rq') \in Nat /\ Len(recvs') \in Nat
    BY <1>3, LengthFacts DEF QueueType, Pools
  <2> QED
    BY <1>2, <2>1, <2>2, LengthFacts, BoundFacts, SMTT(60) DEF ReceivesStayPosted, Sending
<1> QED
  BY <1>2, <1>3, <1>4, <1>5 DEF QueueInv

\* The steps that touch none of the queues.
LEMMA QueueStutters ==
  ASSUME QueueInv, UNCHANGED <<poolVars, sq, rq, cq, mem>>
  PROVE  QueueInv'
<1>1. QueueType' /\ KeptReceives' /\ ReceivesStayPosted' /\ Sending' = Sending
  BY DEF poolVars, QueueInv, QueueType, Pools, KeptReceives, ReceivesStayPosted, Sending
<1>2. PlacesInv'
  BY DEF poolVars, QueueInv, PlacesInv
<1> QED
  BY <1>1, <1>2 DEF QueueInv

\* The adapter's steps.
LEMMA QueueAdapter ==
  ASSUME QueueInv, AdapterType, Adapter
  PROVE  QueueInv'
<1>1. ASSUME NEW p \in Packet, Arrive(p) PROVE QueueInv'
  <2> DEFINE wc == [buf |-> Head(rq), recv |-> TRUE, ok |-> TRUE]
  <2>1. /\ rq # <<>> /\ Complete(wc) /\ rq' = Tail(rq) /\ UNCHANGED <<buffers, recvs, sq>>
        /\ mem' = [mem EXCEPT ![Head(rq)] = p]
    BY <1>1 DEF Arrive, poolVars
  <2>2. Head(rq) \in Buf
    BY <2>1, TailFacts DEF QueueInv, QueueType, Pools
  <2>3. wc \in WC /\ wc.buf = Head(rq) /\ wc.recv /\ mem' \in [Buf -> Packet]
    BY <2>1, <2>2 DEF WC, QueueInv, QueueType
  <2> HIDE DEF wc
  <2> QED
    BY <2>1, <2>3, RecvCompletes
<1>2. CASE SendDone
  <2>1. sq # <<>> /\ sq' = Tail(sq) /\ UNCHANGED <<buffers, recvs, rq, mem>>
    BY <1>2 DEF SendDone, poolVars
  <2>2. Head(sq) \in Buf
    BY <2>1, TailFacts DEF QueueInv, QueueType
  <2>3. PICK wc \in WC : wc.buf = Head(sq) /\ ~wc.recv /\ Complete(wc)
    BY <1>2, <2>2 DEF SendDone, WC, AdapterType
  <2> QED
    BY <2>1, <2>3, SendCompletes
<1>3. CASE FlushRecv
  <2> DEFINE wc == [buf |-> Head(rq), recv |-> TRUE, ok |-> FALSE]
  <2>1. rq # <<>> /\ Complete(wc) /\ rq' = Tail(rq) /\ UNCHANGED <<buffers, recvs, sq, mem>>
    BY <1>3 DEF FlushRecv, poolVars
  <2>2. Head(rq) \in Buf
    BY <2>1, TailFacts DEF QueueInv, QueueType, Pools
  <2>3. wc \in WC /\ wc.buf = Head(rq) /\ wc.recv /\ mem' \in [Buf -> Packet]
    BY <2>1, <2>2 DEF WC, QueueInv, QueueType
  <2> HIDE DEF wc
  <2> QED
    BY <2>1, <2>3, RecvCompletes
<1>4. CASE Break
  BY <1>4, QueueStutters DEF Break
<1> QED
  BY <1>1, <1>2, <1>3, <1>4 DEF Adapter

\* The program's steps.
LEMMA QueueThread ==
  ASSUME QueueInv, (\E m \in {"sendto", "recvfrom", "execute"} : Call(m)) \/ Thread
  PROVE  QueueInv'
<1>1. CASE \E m \in {"sendto", "recvfrom", "execute"} : Call(m)
  BY <1>1, QueueStutters DEF Call, hwVars
<1>2. CASE SendDrain \/ RecvDrain
  BY <1>2, QueueDrained DEF SendDrain, RecvDrain, DrainThen
<1>3. CASE SendTo
  <2>1. UNCHANGED <<recvs, rq, cq, mem>>
    BY <1>3 DEF SendTo
  <2>2. CASE buffers' = buffers /\ sq' = sq
    BY <2>1, <2>2, QueueStutters DEF poolVars
  <2>3. CASE buffers' = Front(buffers) /\ (sq' = Append(sq, Last(buffers)) \/ sq' = sq)
    BY <1>3, <2>1, <2>3, BufferPopped DEF SendTo
  <2> QED
    BY <1>3, <2>2, <2>3 DEF SendTo
<1>4. CASE TakeRecv
  BY <1>4, RecvTaken
<1>5. CASE ReadPath \/ Arm \/ Wake \/ TimedOut \/ AsyncEvent \/ Return
  BY <1>5, QueueStutters DEF ReadPath, Arm, Wake, TimedOut, AsyncEvent, Return, hwVars
<1> QED
  BY <1>1, <1>2, <1>3, <1>4, <1>5 DEF Thread

-----------------------------------------------------------------------------
(* The rest of the type invariant.                                         *)

OtherTypes == ThreadType /\ AdapterType /\ NetType /\ HistoryType

LEMMA OtherTypesAdapter ==
  ASSUME OtherTypes, Adapter
  PROVE  OtherTypes'
<1>1. ThreadType' /\ HistoryType'
  BY DEF OtherTypes, Adapter, Arrive, SendDone, FlushRecv, Break, callVars, histVars, ThreadType,
         HistoryType
<1>2. AdapterType'
  <2>1. ASSUME NEW wc, Complete(wc) PROVE armed' \in BOOLEAN /\ events' \in Nat
    <3>1. events \in Nat /\ armed' = FALSE /\ (events' = events + 1 \/ events' = events)
      BY <2>1 DEF Complete, OtherTypes, AdapterType
    <3>2. armed' \in BOOLEAN
      BY <3>1, Zenon
    <3>3. events' \in Nat
      BY ONLY <3>1
    <3> QED
      BY <3>2, <3>3
  <2>2. (\E wc : Complete(wc)) \/ UNCHANGED <<armed, events>>
    BY DEF Adapter, Arrive, SendDone, FlushRecv, Break
  <2>3. qpok' \in BOOLEAN
    BY DEF OtherTypes, AdapterType, Adapter, Arrive, SendDone, FlushRecv, Break
  <2> QED
    BY <2>1, <2>2, <2>3 DEF OtherTypes, AdapterType
<1>3. NetType'
  <2>1. ASSUME NEW p \in Packet, Arrive(p) PROVE NetType'
    <3>1. CASE foreign > 0 /\ foreign' = foreign - 1 /\ UNCHANGED wire
      BY <3>1 DEF OtherTypes, NetType
    <3>2. CASE p # 0 /\ wire[p] > 0 /\ wire' = [wire EXCEPT ![p] = @ - 1] /\ UNCHANGED foreign
      <4>1. wire \in [Tid -> Nat] /\ p \in Tid
        BY <3>2, BoundFacts DEF OtherTypes, NetType
      <4>2. wire[p] - 1 \in Nat
        BY <3>2, <4>1
      <4> QED
        BY <3>2, <4>1, <4>2 DEF OtherTypes, NetType
    <3> QED
      BY <2>1, <3>1, <3>2 DEF Arrive
  <2>2. CASE SendDone \/ FlushRecv \/ Break
    BY <2>2 DEF SendDone, FlushRecv, Break, netVars, OtherTypes, NetType
  <2> QED
    BY <2>1, <2>2 DEF Adapter
<1> QED
  BY <1>1, <1>2, <1>3 DEF OtherTypes

\* The program's steps keep what is no queue well typed.
LEMMA OtherTypesThread ==
  ASSUME OtherTypes, QueueInv, (\E m \in {"sendto", "recvfrom", "execute"} : Call(m)) \/ Thread
  PROVE  OtherTypes'
<1> USE BoundFacts DEF OtherTypes, ThreadType, AdapterType, NetType, HistoryType
<1>1. CASE \E m \in {"sendto", "recvfrom", "execute"} : Call(m)
  <2> PICK m \in {"sendto", "recvfrom", "execute"} : Call(m)
    BY <1>1
  <2>1. ThreadType'
    <3>1. pc' \in {"send", "recv"} /\ op' = m /\ hand' = hand /\ raised' = NoError /\ left' = Retries
      BY DEF Call
    <3>2. tid' \in 0..MaxTid
      BY DEF Call
    <3> QED
      BY <3>1, <3>2, EndingFacts
  <2>2. AdapterType'
    BY ZenonT(30) DEF Call, hwVars
  <2>3. NetType'
    BY ZenonT(30) DEF Call, netVars
  <2>4. HistoryType'
    BY ZenonT(30) DEF Call, histVars
  <2> QED
    BY ONLY <2>1, <2>2, <2>3, <2>4, Zenon DEF OtherTypes
<1>2. CASE SendDrain \/ RecvDrain
  <2>1. \/ pc' = "idle" /\ raised' \in Ending
        \/ pc' \in {"send", "sleep", "recv"} /\ raised' = raised
    BY <1>2, EndingFacts DEF SendDrain, RecvDrain, DrainThen, NoBuffer, Raise, Raises
  <2>2. UNCHANGED <<op, tid, left, hand, armed, events, qpok, netVars, histVars>>
    BY <1>2 DEF SendDrain, RecvDrain
  <2> QED
    BY <2>1, <2>2 DEF netVars, histVars
<1>3. CASE SendTo
  <2>1. UNCHANGED <<op, tid, left, hand, armed, events, qpok, foreign, outcome>>
    BY <1>3 DEF SendTo
  <2>2. \/ pc' = "idle" /\ raised' \in Ending
        \/ pc' \in {"return", "recv"} /\ raised' = raised
    BY <1>3, EndingFacts DEF SendTo, Raise, Raises
  <2>3. \/ UNCHANGED <<sends, wire>>
        \/ sends' = [sends EXCEPT ![tid] = @ + 1] /\ wire' = [wire EXCEPT ![tid] = @ + 1]
    BY <1>3 DEF SendTo
  <2>4. ASSUME NEW f \in [Tid -> Nat] PROVE [f EXCEPT ![tid] = @ + 1] \in [Tid -> Nat]
    <3>1. CASE tid \in Tid
      <4>1. f[tid] + 1 \in Nat
        BY ONLY <3>1, f \in [Tid -> Nat]
      <4> QED
        BY ONLY <4>1, f \in [Tid -> Nat]
    <3>2. CASE tid \notin Tid
      <4>1. [f EXCEPT ![tid] = @ + 1] = f
        BY ONLY <3>2, f \in [Tid -> Nat]
      <4> QED
        BY <4>1
    <3> QED
      BY <3>1, <3>2
  <2>5. sends' \in [Tid -> Nat] /\ wire' \in [Tid -> Nat]
    BY <2>3, <2>4, ZenonT(120)
  <2> QED
    BY <2>1, <2>2, <2>5
<1>4. CASE TakeRecv
  <2>1. hand' = [buf |-> Head(recvs).buf, packet |-> mem[Head(recvs).buf]]
    BY <1>4 DEF TakeRecv
  <2>2. Head(recvs) \in WC /\ mem \in [Buf -> Packet]
    BY <1>4, TailFacts DEF TakeRecv, QueueInv, QueueType, Pools
  <2>3. hand' \in [buf : Buf, packet : Packet]
    BY <2>1, <2>2 DEF WC
  <2> QED
    BY <1>4, <2>3 DEF TakeRecv, netVars, histVars
<1>5. CASE ReadPath
  BY <1>5, SMTT(60) DEF ReadPath, hwVars, netVars, Empty
<1>6. CASE Arm \/ Wake \/ Return
  <2>1. events' = events \/ (events > 0 /\ events' = events - 1)
    BY <1>6 DEF Arm, Wake, Return, hwVars
  <2>2. events' \in Nat
    BY <2>1
  <2> QED
    BY <1>6, <2>2 DEF Arm, Wake, Return, Notify, hwVars, netVars, histVars
<1>7. CASE TimedOut
  <2>1. left' = left \/ (left # 0 /\ left' = left - 1)
    BY <1>7 DEF TimedOut, Exhausted, OneLess
  <2>2. left' \in Nat
    BY <2>1
  <2>3. outcome' \in [Tid -> {"none", "reply", "timeout"}] /\ pc' \in {"send", "return"}
    BY <1>7 DEF TimedOut
  <2> QED
    BY <1>7, <2>2, <2>3 DEF TimedOut, hwVars, netVars
<1>8. CASE AsyncEvent
  BY <1>8, EndingFacts DEF AsyncEvent, Raise, Raises, hwVars, netVars, histVars
<1> QED
  BY <1>1, <1>2, <1>3, <1>4, <1>5, <1>6, <1>7, <1>8 DEF Thread

-----------------------------------------------------------------------------
(* The theorems about the queues and the buffers.                          *)

Inv == QueueInv /\ OtherTypes

LEMMA InvInductive ==
  /\ Init => Inv
  /\ Inv /\ [Next]_vars => Inv'
<1>1. ASSUME Init PROVE Inv
  <2>1. OtherTypes
    BY <1>1, VMADTypeInit, TypeParts DEF OtherTypes
  <2>2. ReceivesOf(cq) = 0
    BY <1>1, FS_EmptySet DEF Init, ReceivesOf
  <2>3. KeptReceives
    BY <1>1, InitFacts DEF KeptReceives
  <2> QED
    BY <1>1, <2>1, <2>2, <2>3, InitFacts, BoundFacts
    DEF Inv, QueueInv, ReceivesStayPosted, Sending
<1>2. Inv /\ Next => Inv'
  BY QueueThread, QueueAdapter, OtherTypesThread, OtherTypesAdapter DEF Inv, OtherTypes, Next
<1>3. Inv /\ UNCHANGED vars => Inv'
  <2> SUFFICES ASSUME Inv, UNCHANGED vars PROVE Inv'
    OBVIOUS
  <2>1. UNCHANGED <<poolVars, hwVars, callVars, netVars, histVars>>
    BY DEF vars
  <2>2. QueueInv'
    BY <2>1, QueueStutters DEF Inv, hwVars
  <2>3. OtherTypes'
    BY <2>1 DEF Inv, OtherTypes, ThreadType, AdapterType, NetType, HistoryType, callVars, hwVars,
                netVars, histVars
  <2> QED
    BY <2>2, <2>3 DEF Inv
<1> QED
  BY <1>1, <1>2, <1>3

\* TypeOK: the queues hold buffers of the pool, in every reachable state.
THEOREM VMADTyped == Spec => []TypeOK
<1>1. Inv => TypeOK
  BY TypeParts DEF Inv, QueueInv, OtherTypes
<1> QED
  BY <1>1, InvInductive, PTL DEF Spec

\* BufferInOnePlace: whatever completes, is lost, flushed or raises, no buffer
\* is in two of the pool, the queues, the CQ and _recvs.
THEOREM BuffersNeverShared == Spec => []BufferInOnePlace
<1>1. Inv => BufferInOnePlace
  <2> SUFFICES ASSUME Inv PROVE IsInjective(Places)
    BY DEF BufferInOnePlace
  <2>1. /\ buffers \in Seq(Buf) /\ sq \in Seq(Buf) /\ rq \in Seq(Buf)
        /\ BufsOf(cq) \in Seq(Buf) /\ BufsOf(recvs) \in Seq(Buf)
    BY BufsFacts DEF Inv, QueueInv, QueueType, Pools
  <2>2. PlacesInv
    BY DEF Inv, QueueInv
  <2> DEFINE a == buffers \o sq
             b == a \o rq
             c == b \o BufsOf(cq)
             d == c \o BufsOf(recvs)
  <2>3. a \in Seq(Buf) /\ ToSet(a) = ToSet(buffers) \cup ToSet(sq) /\ IsInjective(a)
    BY <2>1, <2>2, ConcatFacts DEF PlacesInv, Apart
  <2> HIDE DEF a
  <2>4. /\ b \in Seq(Buf) /\ ToSet(b) = ToSet(buffers) \cup ToSet(sq) \cup ToSet(rq)
        /\ IsInjective(b)
    <3>1. ToSet(a) \cap ToSet(rq) = {}
      BY <2>2, <2>3 DEF PlacesInv, Apart
    <3> QED
      BY <2>1, <2>2, <2>3, <3>1, ConcatFacts DEF PlacesInv
  <2> HIDE DEF b
  <2>5. /\ c \in Seq(Buf) /\ IsInjective(c)
        /\ ToSet(c) = ToSet(buffers) \cup ToSet(sq) \cup ToSet(rq) \cup ToSet(BufsOf(cq))
    <3>1. ToSet(b) \cap ToSet(BufsOf(cq)) = {}
      BY <2>2, <2>4 DEF PlacesInv, Apart
    <3> QED
      BY <2>1, <2>2, <2>4, <3>1, ConcatFacts DEF PlacesInv
  <2> HIDE DEF c
  <2>6. IsInjective(d)
    <3>1. ToSet(c) \cap ToSet(BufsOf(recvs)) = {}
      BY <2>2, <2>5 DEF PlacesInv, Apart
    <3> QED
      BY <2>1, <2>2, <2>5, <3>1, ConcatFacts DEF PlacesInv
  <2> QED
    BY <2>6 DEF Places, a, b, c
<1> QED
  BY <1>1, InvInductive, PTL DEF Spec

\* ReceivesStayPosted: no receive is lost or posted twice.
THEOREM ReceivesConserved == Spec => []ReceivesStayPosted
<1>1. Inv => ReceivesStayPosted
  BY DEF Inv, QueueInv
<1> QED
  BY <1>1, InvInductive, PTL DEF Spec

\* QueuesFit: the send queue, the receive queue and the CQ never overflow.
THEOREM QueuesNeverOverflow == Spec => []QueuesFit
<1>1. Inv => QueuesFit
  <2> SUFFICES ASSUME Inv PROVE QueuesFit
    OBVIOUS
  <2>1. QueueType /\ ReceivesStayPosted /\ Sending <= FirstSends
    BY DEF Inv, QueueInv
  <2>2. /\ Len(buffers) \in Nat /\ Len(sq) \in Nat /\ Len(rq) \in Nat /\ Len(cq) \in Nat
        /\ Len(recvs) \in Nat /\ ReceivesOf(cq) \in Nat /\ ReceivesOf(cq) <= Len(cq)
    BY <2>1, LengthFacts
  <2> QED
    BY ONLY <2>1, <2>2, BoundFacts DEF ReceivesStayPosted, Sending, QueuesFit
<1> QED
  BY <1>1, InvInductive, PTL DEF Spec

-----------------------------------------------------------------------------
(* Sleeping.  From the moment the CQ is armed until the thread wakes it    *)
(* stays armed or an event is queued, and the drain between leaves no      *)
(* completion behind.                                                      *)

Awake ==
  /\ pc = "drain" => armed \/ events > 0
  /\ pc = "sleep" => (cq = <<>> /\ armed) \/ events > 0

\* NoMissedCompletion: recvfrom never sleeps while a completion waits.
THEOREM SleepIsSafe == Spec => []NoMissedCompletion
<1>1. Init => Awake
  BY DEF Init, Awake
<1>2. ASSUME Inv, Awake, Next PROVE Awake'
  <2>1. events \in Nat
    BY <1>2 DEF Inv, OtherTypes, AdapterType
  <2>2. CASE \E m \in {"sendto", "recvfrom", "execute"} : Call(m)
    BY <2>2 DEF Call, Awake
  <2>3. CASE RecvDrain
    <3>1. cq' = <<>> /\ pc = "drain" /\ pc' \in {"idle", "sleep", "recv"}
      BY <2>3 DEF RecvDrain, DrainThen, Drain, Raises
    <3> QED
      BY <1>2, <2>3, <3>1 DEF RecvDrain, Awake
  <2>4. CASE SendDrain
    <3>1. pc' \in {"idle", "send"}
      BY <2>4 DEF SendDrain, DrainThen, NoBuffer, Raise, Raises
    <3> QED
      BY <3>1 DEF Awake
  <2>5. CASE SendTo
    BY <2>5 DEF SendTo, Raise, Raises, Awake
  <2>6. CASE TakeRecv \/ ReadPath \/ Wake \/ Return
    BY <2>6 DEF TakeRecv, ReadPath, Wake, Return, Awake
  <2>7. CASE Arm
    BY <2>7 DEF Arm, Notify, Awake
  <2>8. CASE TimedOut \/ AsyncEvent
    BY <2>8 DEF TimedOut, AsyncEvent, Raise, Raises, Awake
  <2>9. ASSUME NEW wc, Complete(wc), pc' = pc PROVE Awake'
    <3>1. CASE armed
      <4>1. events' > 0
        BY <2>1, <2>9, <3>1 DEF Complete
      <4> QED
        BY <4>1 DEF Awake
    <3>2. CASE ~armed
      BY <1>2, <2>9, <3>2 DEF Complete, Awake
    <3> QED
      BY <3>1, <3>2
  <2>10. CASE Break
    BY <1>2, <2>10 DEF Break, Awake, callVars
  <2>11. CASE (\E p \in Packet : Arrive(p)) \/ SendDone \/ FlushRecv
    BY <2>9, <2>11 DEF Arrive, SendDone, FlushRecv, callVars
  <2> QED
    BY <1>2, <2>2, <2>3, <2>4, <2>5, <2>6, <2>7, <2>8, <2>10, <2>11 DEF Next, Thread, Adapter
<1>3. Awake /\ UNCHANGED vars => Awake'
  BY DEF Awake, vars, callVars, hwVars
<1>4. Awake => NoMissedCompletion
  BY DEF Awake, NoMissedCompletion
<1> QED
  BY <1>1, <1>2, <1>3, <1>4, InvInductive, PTL DEF Spec

-----------------------------------------------------------------------------
(* MADRpc.  While _execute serves a request, left and pc tell how often it *)
(* was sent, and it has no outcome before the call returns.                *)

Serving == op = "execute" /\ pc # "idle"
Awaiting == pc \in {"recv", "drain", "sleep", "path"}

Counted ==
  /\ left <= Retries
  /\ op = "execute" => tid \in Tid
  /\ \A t \in Tid : t > tid => sends[t] = 0 /\ outcome[t] = "none"
  /\ op = "execute" /\ pc = "send" => sends[tid] = Retries - left /\ outcome[tid] = "none"
  /\ op = "execute" /\ Awaiting => sends[tid] = Retries - left + 1 /\ outcome[tid] = "none"
  /\ op = "execute" /\ pc = "return" => outcome[tid] # "none"

Types == ThreadType /\ HistoryType

\* The status MADRpc sees, by cases.
LEMMA StatusFacts ==
  ASSUME Types
  PROVE  /\ status = [t \in Tid |-> status[t]]
         /\ \A t \in Tid :
              /\ outcome[t] # "none" => status[t] = outcome[t]
              /\ outcome[t] = "none" /\ sends[t] = 0 => status[t] = "unused"
              /\ outcome[t] = "none" /\ sends[t] # 0 =>
                   status[t] = IF t = tid /\ Serving THEN "pending" ELSE "dropped"
              /\ status[t] = "pending" => t = tid /\ Serving
  BY DEF status, Types, HistoryType, Serving

\* The status that the refinement mapping reads, after a step.
LEMMA StatusNext ==
  ASSUME Types'
  PROVE  /\ status' = [t \in Tid |-> status'[t]]
         /\ \A t \in Tid :
              /\ outcome'[t] # "none" => status'[t] = outcome'[t]
              /\ outcome'[t] = "none" /\ sends'[t] = 0 => status'[t] = "unused"
              /\ outcome'[t] = "none" /\ sends'[t] # 0 =>
                   status'[t] = IF t = tid' /\ Serving' THEN "pending" ELSE "dropped"
  BY DEF status, Types, HistoryType, Serving

\* The steps that leave the history and the request alone.
LEMMA NothingSeen ==
  ASSUME Types, Types', UNCHANGED <<op, tid, sends, outcome>>, (pc = "idle") = (pc' = "idle")
  PROVE  UNCHANGED <<status, pc # "idle">>
<1>1. Serving' = Serving
  BY DEF Serving
<1>2. \A t \in Tid : status'[t] = status[t]
  BY <1>1, StatusFacts, StatusNext
<1>3. status' = status
  BY <1>2, StatusFacts, StatusNext
<1> QED
  BY <1>3

\* A call that ends early abandons its request.
LEMMA CallEnds ==
  ASSUME Types, Types', UNCHANGED <<op, tid, sends, outcome>>, pc # "idle", pc' = "idle"
  PROVE  \E S \in SUBSET Rpc!Pending : Rpc!End(S)
<1>1. ~Serving'
  BY DEF Serving
<1>2. \A t \in Tid : status'[t] = IF t \in Rpc!Pending THEN "dropped" ELSE status[t]
  <2> TAKE t \in Tid
  <2>1. CASE status[t] = "pending"
    BY <1>1, <2>1, StatusFacts, StatusNext DEF Rpc!Pending, Types, HistoryType
  <2>2. CASE status[t] # "pending"
    BY <1>1, <2>2, StatusFacts, StatusNext DEF Rpc!Pending, Types, HistoryType
  <2> QED
    BY <2>1, <2>2
<1>3. status' = [t \in Tid |-> IF t \in Rpc!Pending THEN "dropped" ELSE status[t]]
  BY <1>2, StatusNext
<1>4. Rpc!End(Rpc!Pending)
  BY <1>3 DEF Rpc!End, Rpc!Answer
<1> QED
  BY <1>4

\* A call is a Begin of MADRpc.
LEMMA CallBegins ==
  ASSUME Types, Types', Counted, NEW m \in {"sendto", "recvfrom", "execute"}, Call(m)
  PROVE  Counted' /\ Rpc!Begin
<1>1. /\ pc = "idle" /\ pc' \in {"send", "recv"} /\ op' = m /\ left' = Retries
      /\ UNCHANGED <<sends, outcome>>
      /\ m = "execute" => pc' = "send" /\ tid < MaxTid /\ tid' = tid + 1
      /\ m # "execute" => tid' = tid
  BY DEF Call, histVars
<1>2. tid \in 0..MaxTid
  BY DEF Types, ThreadType
<1>3. m = "execute" => tid' \in Tid /\ tid' > tid
  BY <1>1, <1>2, BoundFacts
<1>4. Counted'
  BY <1>1, <1>2, <1>3, BoundFacts DEF Counted, Awaiting
<1>5. Rpc!Pending = {} /\ ~Serving
  BY <1>1, StatusFacts DEF Serving, Rpc!Pending
<1>6. \A t \in Tid : status'[t] = status[t]
  <2>1. \A t \in Tid : t = tid' /\ Serving' => sends[t] = 0 /\ outcome[t] = "none"
    BY <1>1, <1>3 DEF Serving, Counted
  <2> QED
    BY <1>1, <1>5, <2>1, StatusFacts, StatusNext
<1>7. status' = [t \in Tid |-> status[t]]
  BY <1>6, StatusNext
<1> QED
  BY <1>1, <1>4, <1>5, <1>7 DEF Rpc!Begin, Rpc!Answer

\* sendto sends the request, or raises.
LEMMA RequestSent ==
  ASSUME Types, Types', Counted, SendTo
  PROVE  Counted' /\ (Rpc!Next \/ UNCHANGED <<status, pc # "idle", sends>>)
<1>1. pc = "send" /\ UNCHANGED <<op, tid, left, outcome>> /\ tid \in 0..MaxTid /\ left \in Nat
  BY DEF SendTo, Types, ThreadType
<1>2. CASE pc' = "idle" /\ UNCHANGED sends
  <2>1. Counted'
    BY <1>1, <1>2 DEF Counted, Awaiting
  <2>2. \E S \in SUBSET Rpc!Pending : Rpc!End(S)
    BY <1>1, <1>2, CallEnds
  <2> QED
    BY <2>1, <2>2 DEF Rpc!Next
<1>3. CASE op # "execute" /\ pc' = "return" /\ UNCHANGED sends
  <2>1. Counted'
    BY <1>1, <1>3 DEF Counted, Awaiting
  <2> QED
    BY <1>1, <1>3, <2>1, NothingSeen
<1>4. CASE op = "execute" /\ pc' = "recv" /\ sends' = [sends EXCEPT ![tid] = @ + 1]
  <2>1. /\ tid \in Tid /\ sends[tid] = Retries - left /\ outcome[tid] = "none"
        /\ sends \in [Tid -> Nat] /\ left <= Retries
    BY <1>1, <1>4 DEF Counted, Types, HistoryType
  <2>2. sends'[tid] = sends[tid] + 1 /\ \A t \in Tid : t # tid => sends'[t] = sends[t]
    BY <1>4, <2>1
  <2>3. Counted'
    BY <1>1, <1>4, <2>1, <2>2, BoundFacts DEF Counted, Awaiting
  <2>4. \A t \in Tid : status'[t] = IF t \in {tid} THEN "pending" ELSE status[t]
    <3>1. Serving /\ Serving'
      BY <1>1, <1>4 DEF Serving
    <3> QED
      BY <1>1, <2>1, <2>2, <3>1, StatusFacts, StatusNext
  <2>5. status' = [t \in Tid |-> IF t \in {tid} THEN "pending" ELSE status[t]]
    BY <2>4, StatusNext
  <2>6. pc # "idle" /\ (pc' # "idle") = (pc # "idle")
    BY <1>1, <1>4
  <2>7. CASE sends[tid] = 0
    <3>1. status[tid] = "unused" /\ sends' = [sends EXCEPT ![tid] = 1]
      <4>1. sends[tid] + 1 = 1
        BY <2>7
      <4> QED
        BY <1>4, <2>1, <2>7, <4>1, StatusFacts
    <3> QED
      BY <2>1, <2>3, <2>5, <2>6, <3>1 DEF Rpc!Next, Rpc!Issue, Rpc!Answer
  <2>8. CASE sends[tid] # 0
    <3>1. status[tid] = "pending" /\ status' = status
      BY <1>1, <1>4, <2>1, <2>5, <2>8, StatusFacts DEF Serving
    <3>2. sends[tid] <= Retries
      BY <1>1, <2>1, BoundFacts
    <3> QED
      BY <1>4, <2>1, <2>3, <2>6, <3>1, <3>2 DEF Rpc!Next, Rpc!Resend
  <2> QED
    BY <2>7, <2>8
<1> QED
  BY <1>2, <1>3, <1>4 DEF SendTo, Raise, Raises

\* The request gets its outcome, a reply or a timeout.
LEMMA RequestEnds ==
  ASSUME Types, Types', Counted, UNCHANGED <<op, tid, left, sends>>, op = "execute", Awaiting,
         pc' = "return", NEW how \in {"reply", "timeout"}, outcome' = [outcome EXCEPT ![tid] = how],
         how = "timeout" => left = 0
  PROVE  Counted' /\ Rpc!Next
<1>1. /\ tid \in Tid /\ sends[tid] = Retries - left + 1 /\ outcome[tid] = "none"
      /\ sends \in [Tid -> Nat] /\ left <= Retries /\ left \in Nat
      /\ outcome \in [Tid -> {"none", "reply", "timeout"}] /\ tid \in 0..MaxTid
  BY DEF Counted, Types, HistoryType, ThreadType
<1>2. outcome'[tid] = how /\ \A t \in Tid : t # tid => outcome'[t] = outcome[t]
  BY <1>1
<1>3. Counted'
  BY <1>1, <1>2, BoundFacts DEF Counted, Awaiting
<1>4. Serving /\ Serving' /\ pc # "idle"
  BY DEF Serving, Awaiting
<1>5. status[tid] = "pending" /\ sends[tid] # 0
  BY <1>1, <1>4, StatusFacts, BoundFacts
<1>6. \A t \in Tid : status'[t] = IF t \in {tid} THEN how ELSE status[t]
  BY <1>1, <1>2, <1>4, StatusFacts, StatusNext
<1>7. status' = [t \in Tid |-> IF t \in {tid} THEN how ELSE status[t]]
  BY <1>6, StatusNext
<1>8. (pc' # "idle") = (pc # "idle")
  BY <1>4
<1>9. how = "timeout" => sends[tid] = Retries + 1
  BY <1>1, BoundFacts
<1>10. CASE how = "reply"
  BY <1>1, <1>3, <1>4, <1>5, <1>7, <1>8, <1>10 DEF Rpc!Next, Rpc!Reply, Rpc!Answer
<1>11. CASE how = "timeout"
  BY <1>1, <1>3, <1>4, <1>5, <1>7, <1>8, <1>9, <1>11 DEF Rpc!Next, Rpc!TimeOut, Rpc!Answer
<1> QED
  BY <1>10, <1>11

\* Every step is one of MADRpc or none.
LEMMA StepsRefine ==
  ASSUME Types, Types', Counted, Next
  PROVE  Counted' /\ (Rpc!Next \/ UNCHANGED <<status, pc # "idle", sends>>)
<1>0. tid \in 0..MaxTid /\ left \in Nat
  BY DEF Types, ThreadType
<1>1. ASSUME UNCHANGED <<op, tid, left, sends, outcome>>, pc' = "idle", pc # "idle"
      PROVE  Counted' /\ Rpc!Next
  BY <1>1, CallEnds DEF Counted, Awaiting, Rpc!Next
<1>2. ASSUME UNCHANGED <<op, tid, left, sends, outcome>>,
             \/ pc' = pc
             \/ Awaiting /\ Awaiting'
             \/ op # "execute" /\ pc # "idle" /\ pc' # "idle"
      PROVE  Counted' /\ UNCHANGED <<status, pc # "idle", sends>>
  <2>1. (pc = "idle") = (pc' = "idle")
    BY <1>2 DEF Awaiting
  <2>2. Counted'
    BY <1>2 DEF Counted, Awaiting
  <2> QED
    BY <1>2, <2>1, <2>2, NothingSeen
<1>3. CASE \E m \in {"sendto", "recvfrom", "execute"} : Call(m)
  <2>1. UNCHANGED sends
    BY <1>3 DEF Call, histVars
  <2> QED
    BY <1>3, CallBegins DEF Rpc!Next
<1>4. CASE SendTo
  BY <1>4, RequestSent
<1>5. CASE SendDrain \/ RecvDrain
  <2>1. UNCHANGED <<op, tid, left, sends, outcome>>
    BY <1>5 DEF SendDrain, RecvDrain, histVars
  <2>2. /\ pc \in {"send", "drain"}
        /\ pc' = "idle" \/ pc' = pc \/ (pc = "drain" /\ pc' \in {"sleep", "recv"})
    BY <1>5 DEF SendDrain, RecvDrain, DrainThen, NoBuffer, Raise, Raises
  <2> QED
    BY <1>1, <1>2, <2>1, <2>2 DEF Awaiting
<1>6. CASE TakeRecv \/ Arm \/ Wake
  <2>1. UNCHANGED <<op, tid, left, sends, outcome>> /\ Awaiting /\ Awaiting'
    BY <1>6 DEF TakeRecv, Arm, Wake, histVars, Awaiting
  <2> QED
    BY <1>2, <2>1
<1>7. CASE ReadPath
  <2>1. UNCHANGED <<op, tid, left, sends>> /\ Awaiting
    BY <1>7 DEF ReadPath, Awaiting
  <2>2. CASE op = "execute" /\ hand.packet # tid
    BY <1>2, <1>7, <2>1, <2>2 DEF ReadPath, Awaiting
  <2>3. CASE op = "execute" /\ hand.packet = tid
    BY <1>7, <2>1, <2>3, RequestEnds DEF ReadPath
  <2>4. CASE op # "execute"
    BY <1>2, <1>7, <2>1, <2>4 DEF ReadPath
  <2> QED
    BY <2>2, <2>3, <2>4
<1>8. CASE TimedOut
  <2>1. UNCHANGED <<op, tid, sends>> /\ Awaiting /\ pc = "sleep"
    BY <1>8 DEF TimedOut, Awaiting
  <2>2. CASE op = "execute" /\ left # 0 /\ left' = left - 1 /\ pc' = "send" /\ UNCHANGED outcome
    <3>1. (pc = "idle") = (pc' = "idle")
      BY <2>1, <2>2
    <3>2. Counted'
      BY <1>0, <2>1, <2>2, BoundFacts DEF Counted, Awaiting
    <3> QED
      BY <2>1, <2>2, <3>1, <3>2, NothingSeen
  <2>3. CASE op = "execute" /\ left = 0 /\ outcome' = [outcome EXCEPT ![tid] = "timeout"]
             /\ pc' = "return" /\ UNCHANGED left
    BY <2>1, <2>3, RequestEnds
  <2>4. CASE op = "recvfrom" /\ pc' = "return" /\ UNCHANGED <<left, outcome>>
    BY <1>2, <2>1, <2>4
  <2> QED
    BY <1>8, <2>2, <2>3, <2>4 DEF TimedOut, Exhausted, OneLess
<1>9. CASE AsyncEvent \/ Return
  <2>1. UNCHANGED <<op, tid, left, sends, outcome>> /\ pc' = "idle" /\ pc # "idle"
    BY <1>9 DEF AsyncEvent, Return, Raise, Raises, histVars
  <2> QED
    BY <1>1, <2>1
<1>10. CASE Adapter
  <2>1. UNCHANGED <<op, tid, left, sends, outcome, pc>>
    BY <1>10 DEF Adapter, Arrive, SendDone, FlushRecv, Break, callVars, histVars
  <2> QED
    BY <1>2, <2>1
<1> QED
  BY <1>3, <1>4, <1>5, <1>6, <1>7, <1>8, <1>9, <1>10 DEF Next, Thread

\* RpcSpec: _execute over the queue pair keeps the promise of MADRpc.
THEOREM QueuePairImplementsMADRpc == Spec => RpcSpec
<1>1. ASSUME Init PROVE Counted /\ Rpc!Init
  <2>1. Types
    BY <1>1, VMADTypeInit, TypeParts DEF Types
  <2>2. Counted
    BY <1>1, BoundFacts DEF Init, Counted, Awaiting
  <2>3. status = [t \in Tid |-> "unused"]
    BY <1>1, <2>1, StatusFacts DEF Init
  <2> QED
    BY <1>1, <2>2, <2>3 DEF Init, Rpc!Init
<1>2. Inv => Types
  BY DEF Inv, OtherTypes, Types
<1>3. ASSUME Inv, Inv', Counted, [Next]_vars
      PROVE  Counted' /\ [Rpc!Next]_(Rpc!rpcVars)
  <2>1. CASE Next
    BY <1>2, <1>3, <2>1, StepsRefine DEF Inv, OtherTypes, Types, Rpc!rpcVars
  <2>2. CASE UNCHANGED vars
    <3>1. UNCHANGED <<pc, op, tid, left, sends, outcome>>
      BY <2>2 DEF vars, callVars, histVars
    <3>2. Counted'
      BY <1>3, <3>1 DEF Counted, Awaiting
    <3>3. UNCHANGED <<status, pc # "idle">>
      BY <1>3, <3>1, NothingSeen DEF Inv, OtherTypes, Types
    <3> QED
      BY <3>1, <3>2, <3>3 DEF Rpc!rpcVars
  <2> QED
    BY <1>3, <2>1, <2>2
<1> QED
  BY <1>1, <1>3, InvInductive, PTL DEF Spec, RpcSpec, Rpc!Spec
=============================================================================
