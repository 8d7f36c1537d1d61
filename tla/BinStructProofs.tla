--------------------------- MODULE BinStructProofs ---------------------------
(***************************************************************************)
(* What TLAPS proves of the packing of structures, for every table of      *)
(* classes whose statements are those mkstructs.py generates from their    *)
(* members (Generated), for every object and every value that does not     *)
(* fit.  The argument has two halves.  A class is Placed when its          *)
(* statements store its elements where MEMBERS puts them: from this the    *)
(* inductive invariant of BinStruct follows.  And every generated class is *)
(* placed, which is a proof about the generator: groupMB, structFormat,    *)
(* pack_array8 and genFormats.                                             *)
(***************************************************************************)
EXTENDS BinStruct, SeqLemmas, FiniteSetTheorems, SequenceTheorems

-----------------------------------------------------------------------------
(* The elements of a class, the words that hold them, and sums.            *)

\* An element of the object, and its place: the bits MEMBERS gives it.
ElementSet == [m : Nat \ {0}, k : Nat, bits : Nat \ {0}, at : Nat]
Key(e) == <<e.m, e.k>>
Place(e) == Piece(e.at, e.bits, e)

\* The elements lie one behind the other and no two are the same.
Chain(es) ==
    /\ es \in Seq(ElementSet)
    /\ \A i \in 1..Len(es) : \A j \in 1..Len(es) :
        /\ i < j => es[i].at + es[i].bits <= es[j].at
        /\ j = i + 1 => es[i].at + es[i].bits = es[j].at
        /\ Key(es[i]) = Key(es[j]) => i = j

\* A word holds the elements i to j, and lies where they do.
WordIs(es, w, i, j) ==
    /\ i \in 1..Len(es) /\ j \in 1..Len(es) /\ i <= j
    /\ DOMAIN w.es = 1..(j - i + 1) /\ Len(w.es) = j - i + 1
    /\ \A x \in 1..(j - i + 1) : /\ w.es[x].m = es[i + x - 1].m
                                 /\ w.es[x].k = es[i + x - 1].k
                                 /\ w.es[x].bits = es[i + x - 1].bits
    /\ w.at = es[i].at
    /\ w.bits = es[j].at + es[j].bits - es[i].at

\* The running totals exist: they can be extended number by number.
LEMMA SumsFacts ==
  ASSUME NEW s, Len(s) \in Nat, \A i \in 1..Len(s) : s[i] \in Int
  PROVE  /\ Sums(s)[0] = 0
         /\ \A i \in 1..Len(s) : Sums(s)[i] = Sums(s)[i - 1] + s[i]
         /\ \A i \in 0..Len(s) : Sums(s)[i] \in Int
<1> DEFINE Adds(n, f) == f = [i \in 0..n |-> IF i = 0 THEN 0 ELSE f[i - 1] + s[i]]
           S == {n \in Nat : \E f : Adds(n, f)}
<1>2. 0 \in S
  <2> DEFINE f == [i \in {0} |-> 0]
  <2>1. Adds(0, f)
    OBVIOUS
  <2> QED
    BY <2>1
<1>3. ASSUME NEW n \in Nat, n \in S PROVE n + 1 \in S
  <2>1. PICK f : Adds(n, f)
    BY <1>3
  <2> DEFINE next == f[n] + s[n + 1]
             g == [i \in 0..(n + 1) |-> IF i = n + 1 THEN next ELSE f[i]]
  <2>2. /\ \A i \in 0..n : g[i] = f[i]
        /\ g[n + 1] = next
        /\ \A i \in 0..(n + 1) : i # n + 1 => i \in 0..n
        /\ \A i \in 0..n : i # 0 => i - 1 \in 0..n
        /\ n + 1 # 0 /\ n + 1 - 1 = n /\ n \in 0..n
    OBVIOUS
  <2>3. \A i \in 0..n : f[i] = IF i = 0 THEN 0 ELSE f[i - 1] + s[i]
    BY <2>1
  <2>4. \A i \in 0..(n + 1) : g[i] = IF i = 0 THEN 0 ELSE g[i - 1] + s[i]
    <3> HIDE DEF g
    <3> TAKE i \in 0..(n + 1)
    <3>1. CASE i = n + 1
      <4>1. g[i - 1] = f[n]
        BY <2>2, <3>1
      <4> QED
        BY <2>2, <3>1, <4>1
    <3>2. CASE i \in 0..n
      BY <2>2, <2>3, <3>2
    <3> QED
      BY <2>2, <3>1, <3>2
  <2>5. Adds(n + 1, g)
    <3>1. g = [i \in 0..(n + 1) |-> g[i]]
      OBVIOUS
    <3> HIDE DEF g
    <3> QED
      BY <2>4, <3>1, Zenon
  <2> HIDE DEF g
  <2>6. \E h : Adds(n + 1, h)
    <3> HIDE DEF Adds
    <3> QED
      BY <2>5
  <2> QED
    BY <2>6
<1>4. Nat \subseteq S
  BY <1>2, <1>3, SetInduction
<1>5. Adds(Len(s), Sums(s))
  BY <1>4 DEF Sums
<1>6. /\ Sums(s)[0] = 0
      /\ \A i \in 1..Len(s) : Sums(s)[i] = Sums(s)[i - 1] + s[i]
  BY <1>5
<1> DEFINE T == {n \in Nat : n <= Len(s) => Sums(s)[n] \in Int}
<1>7. 0 \in T
  BY <1>6
<1>8. ASSUME NEW n \in Nat, n \in T PROVE n + 1 \in T
  <2>1. CASE n + 1 <= Len(s)
    BY <1>6, <1>8, <2>1
  <2> QED
    BY <2>1
<1>9. Nat \subseteq T
  BY <1>7, <1>8, SetInduction
<1> QED
  BY <1>6, <1>9

\* The types of what a chain is made of.
LEMMA ChainTypes ==
  ASSUME NEW es, Chain(es)
  PROVE  /\ Len(es) \in Nat /\ DOMAIN es = 1..Len(es)
         /\ \A i \in 1..Len(es) : /\ es[i] \in ElementSet
                                  /\ es[i].m \in Nat \ {0} /\ es[i].k \in Nat
                                  /\ es[i].bits \in Nat \ {0} /\ es[i].at \in Nat
<1>1. es \in Seq(ElementSet)
  BY DEF Chain
<1>2. \A e \in ElementSet : e.m \in Nat \ {0} /\ e.k \in Nat /\ e.bits \in Nat \ {0} /\ e.at \in Nat
  BY DEF ElementSet
<1>3. Len(es) \in Nat /\ DOMAIN es = 1..Len(es) /\ \A i \in 1..Len(es) : es[i] \in ElementSet
  BY <1>1
<1> QED
  BY <1>2, <1>3

\* The totals of the widths of a run of elements are the distances in the image.
LEMMA WordSums ==
  ASSUME NEW es, Chain(es), NEW w, NEW i, NEW j, WordIs(es, w, i, j),
         NEW widths, widths = Widths(w)
  PROVE  \A x \in 0..Len(w.es) :
            widths[x] = IF x = 0 THEN 0 ELSE es[i + x - 1].at + es[i + x - 1].bits - es[i].at
<1> DEFINE s == [x \in DOMAIN w.es |-> w.es[x].bits]
           n == j - i + 1
           D(x) == es[i + x - 1].at + es[i + x - 1].bits - es[i].at
           T == {x \in Nat : x \in 1..n => Sums(s)[x] = D(x)}
<1>1. /\ i \in Nat /\ j \in Nat /\ n \in Nat /\ i <= j /\ Len(es) \in Nat
      /\ DOMAIN w.es = 1..n /\ Len(w.es) = n
      /\ \A x \in 1..n : i + x - 1 \in 1..Len(es)
  <2>1. /\ i \in 1..Len(es) /\ j \in 1..Len(es) /\ i <= j /\ Len(es) \in Nat
        /\ DOMAIN w.es = 1..n /\ Len(w.es) = n
    BY ChainTypes DEF WordIs
  <2> HIDE DEF n
  <2>2. n \in Nat /\ n = j - i + 1
    BY <2>1 DEF n
  <2> QED
    BY ONLY <2>1, <2>2
<1>2. \A x \in 1..Len(es) : es[x].at \in Nat /\ es[x].bits \in Nat
  BY ChainTypes
<1>3. Len(s) = n /\ \A x \in 1..n : s[x] = es[i + x - 1].bits /\ s[x] \in Int
  BY <1>1, <1>2 DEF WordIs
<1> HIDE DEF s
<1>4. /\ Sums(s)[0] = 0
      /\ \A x \in 1..n : Sums(s)[x] = Sums(s)[x - 1] + s[x]
      /\ \A x \in 0..n : Sums(s)[x] \in Int
  BY <1>1, <1>3, SumsFacts
<1>5. 0 \in T
  OBVIOUS
<1>6. ASSUME NEW x \in Nat, x \in T PROVE x + 1 \in T
  <2> SUFFICES ASSUME x + 1 \in 1..n PROVE Sums(s)[x + 1] = D(x + 1)
    OBVIOUS
  <2>1. Sums(s)[x + 1] = Sums(s)[x] + es[i + x].bits
    <3>1. Sums(s)[x + 1] = Sums(s)[x + 1 - 1] + s[x + 1]
      BY <1>4
    <3>2. x + 1 - 1 = x /\ i + (x + 1) - 1 = i + x
      BY <1>1
    <3> QED
      BY <3>1, <3>2, <1>3
  <2>2. D(x + 1) = es[i + x].at + es[i + x].bits - es[i].at
    <3>1. i + (x + 1) - 1 = i + x
      BY <1>1
    <3> QED BY <3>1
  <2>3. CASE x = 0
    <3>1. i + x = i /\ i \in 1..Len(es)
      BY <2>3, <1>1 DEF WordIs
    <3>2. Sums(s)[x] = 0 /\ es[i + x] = es[i] /\ es[i].at \in Nat /\ es[i].bits \in Nat
      BY <2>3, <1>4, <1>2, <3>1
    <3> HIDE DEF D
    <3>3. D(x + 1) = es[i].bits
      BY <2>2, <3>2
    <3> QED
      BY <2>1, <3>2, <3>3
  <2>4. CASE x # 0
    <3>1. x \in 1..n /\ i + x - 1 \in 1..Len(es) /\ i + x \in 1..Len(es) /\ i + x = (i + x - 1) + 1
          /\ i \in 1..Len(es)
      BY <2>4, <1>1 DEF WordIs
    <3>2. Sums(s)[x] = D(x)
      BY <3>1, <1>6
    <3>3. es[i + x - 1].at + es[i + x - 1].bits = es[i + x].at
      BY <3>1 DEF Chain
    <3> DEFINE p == es[i + x - 1]
               q == es[i + x]
    <3>4. p.at \in Nat /\ p.bits \in Nat /\ q.at \in Nat /\ q.bits \in Nat /\ es[i].at \in Nat
      BY <3>1, <1>2
    <3>5. Sums(s)[x] = p.at + p.bits - es[i].at /\ p.at + p.bits = q.at
      BY <3>2, <3>3
    <3> HIDE DEF p, D
    <3>6. D(x + 1) = q.at + q.bits - es[i].at /\ Sums(s)[x + 1] = Sums(s)[x] + q.bits
      BY <2>1, <2>2
    <3> HIDE DEF q
    <3> QED
      BY <3>4, <3>5, <3>6
  <2> QED
    BY <2>3, <2>4
<1>7. Nat \subseteq T
  BY <1>5, <1>6, SetInduction
<1>8. \A x \in 0..n : Sums(s)[x] = IF x = 0 THEN 0 ELSE D(x)
  BY <1>1, <1>4, <1>7
<1> QED
  BY <1>1, <1>8 DEF s, Widths

\* A word that holds a run of elements puts each in its place.
LEMMA InWordFacts ==
  ASSUME NEW es, Chain(es), NEW w, NEW i, NEW j, WordIs(es, w, i, j)
  PROVE  InWord(w) = {Place(es[l]) : l \in i..j}
<1> DEFINE n == j - i + 1
           P(x) == Place(es[i + x - 1])
<1>1. PICK widths : widths = Widths(w)
  OBVIOUS
<1>2. /\ i \in Nat /\ j \in Nat /\ n \in Nat /\ i <= j /\ Len(es) \in Nat /\ j <= Len(es) /\ i >= 1
      /\ DOMAIN w.es = 1..n /\ Len(w.es) = n
      /\ \A x \in 1..n : i + x - 1 \in 1..Len(es)
  <2>1. /\ i \in 1..Len(es) /\ j \in 1..Len(es) /\ i <= j /\ Len(es) \in Nat
        /\ DOMAIN w.es = 1..n /\ Len(w.es) = n
    BY ChainTypes DEF WordIs
  <2> HIDE DEF n
  <2>2. n \in Nat /\ n = j - i + 1
    BY <2>1 DEF n
  <2> QED
    BY ONLY <2>1, <2>2
<1>3. \A x \in 1..Len(es) : es[x].at \in Nat /\ es[x].bits \in Nat
  BY ChainTypes
<1>4. \A x \in 0..n : widths[x] = IF x = 0 THEN 0
                             ELSE es[i + x - 1].at + es[i + x - 1].bits - es[i].at
  BY WordSums, <1>1, <1>2
<1>5. widths[n] = es[j].at + es[j].bits - es[i].at
  <2>1. i + n - 1 = j /\ n # 0 /\ n \in 0..n
    BY <1>2
  <2> QED BY <2>1, <1>4
<1>6. ASSUME NEW x \in 1..n
      PROVE  Piece(w.at + w.bits - (widths[Len(w.es)] - widths[x - 1]),
                   IF Len(w.es) = 1 THEN w.bits ELSE w.es[x].bits, w.es[x]) = P(x)
  <2> DEFINE e == es[i + x - 1]
  <2>1. i + x - 1 \in 1..Len(es) /\ i \in 1..Len(es) /\ j \in 1..Len(es)
    BY <1>2
  <2>2. w.at = es[i].at /\ w.bits = es[j].at + es[j].bits - es[i].at
        /\ w.es[x].m = e.m /\ w.es[x].k = e.k /\ w.es[x].bits = e.bits
    BY <1>6 DEF WordIs
  <2>3. widths[x - 1] = e.at - es[i].at
    <3>1. CASE x = 1
      <4>1. x - 1 = 0 /\ i + x - 1 = i /\ x - 1 \in 0..n
        BY <3>1, <1>2
      <4>2. widths[x - 1] = 0 /\ e = es[i] /\ es[i].at \in Nat
        BY <4>1, <1>4, <1>3, <2>1
      <4> HIDE DEF e
      <4> QED
        BY <4>2
    <3>2. CASE x # 1
      <4>1. x - 1 \in 0..n /\ x - 1 # 0 /\ i + (x - 1) - 1 \in 1..Len(es)
            /\ i + x - 1 = (i + (x - 1) - 1) + 1
        BY <3>2, <1>2
      <4>2. es[i + (x - 1) - 1].at + es[i + (x - 1) - 1].bits = e.at
        BY <4>1, <2>1 DEF Chain
      <4>3. widths[x - 1] = es[i + (x - 1) - 1].at + es[i + (x - 1) - 1].bits - es[i].at
        BY <4>1, <1>4
      <4>4. /\ es[i + (x - 1) - 1].at \in Nat /\ es[i + (x - 1) - 1].bits \in Nat
            /\ e.at \in Nat /\ es[i].at \in Nat
        BY <4>1, <1>3, <2>1
      <4> HIDE DEF e
      <4> QED
        BY <4>2, <4>3, <4>4
    <3> QED BY <3>1, <3>2
  <2>4. w.at + w.bits - (widths[Len(w.es)] - widths[x - 1]) = e.at
    <3>1. es[i].at \in Int /\ es[j].at \in Int /\ es[j].bits \in Int /\ e.at \in Int
      BY <1>3, <2>1
    <3> HIDE DEF e
    <3>2. widths[Len(w.es)] = es[j].at + es[j].bits - es[i].at
      BY <1>2, <1>5
    <3> QED
      BY <2>2, <2>3, <3>1, <3>2
  <2>5. (IF Len(w.es) = 1 THEN w.bits ELSE w.es[x].bits) = e.bits
    <3>1. CASE n = 1
      <4>1. i = j /\ i + x - 1 = i
        BY <3>1, <1>2
      <4> QED
        BY <4>1, <2>1, <2>2, <1>2, <1>3
    <3> QED
      BY <3>1, <2>2, <1>2
  <2> QED
    BY <2>2, <2>4, <2>5 DEF Piece, Place
<1>7. InWord(w) = {P(x) : x \in 1..n}
  <2>1. InWord(w) = {Piece(w.at + w.bits - (widths[Len(w.es)] - widths[x - 1]),
               IF Len(w.es) = 1 THEN w.bits ELSE w.es[x].bits, w.es[x]) : x \in 1..n}
    BY <1>1, <1>2 DEF InWord
  <2> HIDE DEF P, n
  <2> QED
    BY <2>1, <1>6
<1>8. \A x \in 1..n : i + x - 1 \in i..j
  BY <1>2
<1>9. \A l \in i..j : l - i + 1 \in 1..n /\ i + (l - i + 1) - 1 = l
  BY <1>2
<1>10. \A p : p \in {P(x) : x \in 1..n} <=> p \in {Place(es[l]) : l \in i..j}
  BY <1>8, <1>9
<1> QED
  BY <1>7, <1>10

-----------------------------------------------------------------------------
(* What it is for the statements of a class to store its elements in their places.*)

\* Words that hold the elements a to b and no other.
WordsFit(es, words, a, b) ==
    /\ a \in 1..Len(es) /\ b \in 1..Len(es) /\ a <= b
    /\ \A w \in ToSet(words) : \E i \in a..b, j \in a..b : WordIs(es, w, i, j)
    /\ \A l \in a..b : \E w \in ToSet(words) :
          \E i \in a..b, j \in a..b : WordIs(es, w, i, j) /\ i <= l /\ l <= j

\* The statement s stores the elements a to b of the object, where they belong.
StoresObject(c, es, s, a) ==
    /\ s.op = "object"
    /\ isObject(Members(c)[s.m])
    /\ es[a].m = s.m /\ es[a].k = s.k /\ s.at \in Nat /\ es[a].at = 8 * s.at
    /\ Length(Members(c)[s.m].class) \in Nat
    /\ es[a].bits = 8 * Length(Members(c)[s.m].class)
StoresBytes(c, es, s, a) ==
    /\ s.op = "bytes"
    /\ IsData(Members(c)[s.m])
    /\ es[a].m = s.m /\ es[a].k = 0 /\ s.at \in Nat /\ es[a].at = 8 * s.at
    /\ s.to \in Nat /\ s.at < s.to /\ es[a].bits = 8 * (s.to - s.at)
    /\ lenBits(Members(c)[s.m]) = 8 * (s.to - s.at)
StoresArray(es, s, a, b) ==
    /\ s.op = "array"
    /\ s.at \in Nat /\ s.mlen \in {1, 2, 4, 64} /\ s.count = b - a + 1
    /\ \A i \in a..b : /\ es[i].m = s.m /\ es[i].k = i - a /\ es[i].bits = s.mlen
                       /\ es[i].at = 8 * s.at + (i - a) * s.mlen
    /\ pack_array8(s).es = <<>>
    /\ pack_array8(s).at \div 8 \in Nat
    /\ 8 * (pack_array8(s).at \div 8) = es[b].at + es[b].bits
    /\ WordsFit(es, pack_array8(s).words, a, b)
    /\ \A w \in ToSet(pack_array8(s).words) : \A i \in DOMAIN w.es : w.es[i].m = s.m
StoresStruct(es, s, a, b) ==
    /\ s.op = "struct"
    /\ StructEnd(s) \in Nat
    /\ 8 * StructEnd(s) = es[b].at + es[b].bits
    /\ WordsFit(es, StructWords(es, s), a, b)
Stores(c, es, s, a, b) ==
    /\ a \in 1..Len(es) /\ b \in 1..Len(es) /\ a <= b
    /\ \/ a = b /\ StoresObject(c, es, s, a)
       \/ a = b /\ StoresBytes(c, es, s, a)
       \/ StoresArray(es, s, a, b) /\ \A i \in a..b : ~IsData(Members(c)[es[i].m])
       \/ StoresStruct(es, s, a, b) /\ \A i \in a..b : ~IsData(Members(c)[es[i].m])

\* The statements of a class store its elements, each of them, the byte strings and
\* objects behind all that is stored before them.
Elements(c) == ElementsOf(Members(c))
Code(c) == Structs[c].code
Divided(c, lo, hi) ==
    /\ lo \in [1..Len(Code(c)) -> Nat] /\ hi \in [1..Len(Code(c)) -> Nat]
    /\ \A x \in 1..Len(Code(c)) : Stores(c, Elements(c), Code(c)[x], lo[x], hi[x])
    /\ \A x \in 1..Len(Code(c)) : \A y \in 1..Len(Code(c)) :
          x < y /\ Code(c)[y].op # "struct" => hi[x] < lo[y]
    /\ \A l \in 1..Len(Elements(c)) : \E x \in 1..Len(Code(c)) : lo[x] <= l /\ l <= hi[x]
Placed(c) ==
    /\ Structs[c].length \in Nat
    /\ Len(Code(c)) \in Nat
    /\ Code(c) \in Seq({Code(c)[x] : x \in 1..Len(Code(c))})
    /\ Chain(Elements(c))
    /\ \A i \in 1..Len(Elements(c)) : /\ Elements(c)[i].m \in DOMAIN Members(c)
                                      /\ Elements(c)[i].at + Elements(c)[i].bits <= 8 * Structs[c].length
    /\ Total([i \in DOMAIN Elements(c) |-> Elements(c)[i].bits]) = 8 * Structs[c].length
    /\ \E lo, hi : Divided(c, lo, hi)
Division(c) == CHOOSE d : Divided(c, d[1], d[2])
Lo(c) == Division(c)[1]
Hi(c) == Division(c)[2]
LEMMA PiecesFacts ==
  ASSUME NEW es, Chain(es), NEW words, NEW a, NEW b, WordsFit(es, words, a, b)
  PROVE  Pieces(words) = {Place(es[l]) : l \in a..b}
<1>1. ASSUME NEW w \in ToSet(words), NEW i \in a..b, NEW j \in a..b, WordIs(es, w, i, j)
      PROVE  InWord(w) = {Place(es[l]) : l \in i..j}
  BY <1>1, InWordFacts
<1>2. a \in Nat /\ b \in Nat
  BY ChainTypes DEF WordsFit
<1>3. ASSUME NEW p \in Pieces(words) PROVE p \in {Place(es[l]) : l \in a..b}
  <2>1. PICK w \in ToSet(words) : p \in InWord(w)
    BY <1>3 DEF Pieces
  <2>2. PICK i \in a..b, j \in a..b : WordIs(es, w, i, j)
    BY DEF WordsFit
  <2>3. \A l \in i..j : l \in a..b
    BY <1>2
  <2> QED
    BY <2>1, <2>2, <2>3, <1>1
<1>4. ASSUME NEW l \in a..b PROVE Place(es[l]) \in Pieces(words)
  <2>1. PICK w \in ToSet(words), i \in a..b, j \in a..b : WordIs(es, w, i, j) /\ i <= l /\ l <= j
    BY DEF WordsFit
  <2>2. l \in i..j
    BY <2>1, <1>2
  <2>3. Place(es[l]) \in InWord(w)
    BY <2>1, <2>2, <1>1
  <2> QED
    BY <2>1, <2>3 DEF Pieces
<1> QED
  BY <1>3, <1>4

\* pack_array8 and unpack_array8 agree on where the entries are.
LEMMA UnpackArrayFacts ==
  ASSUME NEW es, Chain(es), NEW s, NEW a \in 1..Len(es), NEW b \in 1..Len(es), a <= b,
         StoresArray(es, s, a, b)
  PROVE  unpack_array8(s) = {Place(es[l]) : l \in a..b}
<1>1. a \in Nat /\ b \in Nat /\ s.count = b - a + 1 /\ s.mlen \in {1, 2, 4, 64} /\ s.at \in Nat
  BY ChainTypes DEF StoresArray
<1> DEFINE P(k) == Piece(8 * s.at + s.mlen * s.count - (s.count - 1 - k) * s.mlen - s.mlen, s.mlen,
                         [m |-> s.m, k |-> k])
<1>2. ASSUME NEW k \in 0..(s.count - 1) PROVE a + k \in a..b /\ P(k) = Place(es[a + k])
  <2>1. a + k \in a..b /\ (a + k) - a = k
    BY <1>1
  <2>2. es[a + k].m = s.m /\ es[a + k].k = k /\ es[a + k].bits = s.mlen
        /\ es[a + k].at = 8 * s.at + k * s.mlen
    BY <2>1 DEF StoresArray
  <2>3. 8 * s.at + s.mlen * s.count - (s.count - 1 - k) * s.mlen - s.mlen = 8 * s.at + k * s.mlen
    <3>1. CASE s.mlen = 1 BY <3>1, <1>1
    <3>2. CASE s.mlen = 2 BY <3>2, <1>1
    <3>3. CASE s.mlen = 4 BY <3>3, <1>1
    <3>4. CASE s.mlen = 64 BY <3>4, <1>1
    <3> QED BY <1>1, <3>1, <3>2, <3>3, <3>4
  <2> QED
    BY <2>1, <2>2, <2>3 DEF Piece, Place
<1>3. unpack_array8(s) = {P(k) : k \in 0..(s.count - 1)}
  BY DEF unpack_array8
<1> HIDE DEF P
<1>4. \A l \in a..b : l - a \in 0..(s.count - 1) /\ a + (l - a) = l
  BY <1>1
<1>5. \A p \in unpack_array8(s) : p \in {Place(es[l]) : l \in a..b}
  BY <1>2, <1>3
<1>6. \A l \in a..b : Place(es[l]) \in unpack_array8(s)
  BY <1>2, <1>3, <1>4
<1> QED
  BY <1>5, <1>6

\* The division of a placed class is one.
LEMMA DivisionFacts ==
  ASSUME NEW c, Placed(c)
  PROVE  Divided(c, Lo(c), Hi(c))
<1>1. PICK lo, hi : Divided(c, lo, hi)
  BY DEF Placed
<1>2. Divided(c, <<lo, hi>>[1], <<lo, hi>>[2])
  BY <1>1
<1> QED
  BY <1>2, Zenon DEF Lo, Hi, Division

-----------------------------------------------------------------------------
(* What a buffer holds when some statements of pack_into have run.         *)

\* The odd element, and the piece an element leaves: its place, except that a byte
\* string of another length is as long as it is.
OddOne(o, e) == o.m = e.m /\ o.k = e.k
OddBytes(c, o, e) == OddOne(o, e) /\ IsData(Members(c)[e.m])
PieceFor(c, o, e) == Piece(e.at, IF OddBytes(c, o, e) THEN e.bits + 8 * o.by ELSE e.bits, e)

\* The first n statements have stored the element i.
Stored(c, n, i) ==
    /\ i \in 1..Len(Elements(c))
    /\ \E x \in 1..n : Lo(c)[x] <= i /\ i <= Hi(c)[x]

\* After n statements the buffer holds their elements and no other, every one in
\* its place but for a byte string of another length, which alone changes the
\* length of the buffer.
OnlyStored(c, o, n, img, sz) ==
    \A p \in img : \E i \in 1..Len(Elements(c)) :
        Stored(c, n, i) /\ p = PieceFor(c, o, Elements(c)[i]) /\ End(p) <= 8 * sz
AllStored(c, o, n, img, sp) ==
    \A i \in 1..Len(Elements(c)) :
        Stored(c, n, i) => \/ Place(Elements(c)[i]) \in img
                           \/ OddOne(o, Elements(c)[i]) /\ Key(Elements(c)[i]) \in sp
Sized(c, o, n, sz) ==
    \/ sz = Structs[c].length
    \/ /\ sz = Structs[c].length + o.by
       /\ \E i \in 1..Len(Elements(c)) : Stored(c, n, i) /\ OddBytes(c, o, Elements(c)[i])
ImageRight(c, o, n, img, sz, sp) ==
    OnlyStored(c, o, n, img, sz) /\ AllStored(c, o, n, img, sp) /\ Sized(c, o, n, sz)

\* The elements of a class and what its statements store.
LEMMA ElementFacts ==
  ASSUME NEW c, Placed(c)
  PROVE  /\ Structs[c].length \in Nat
         /\ Chain(Elements(c))
         /\ Len(Elements(c)) \in Nat
         /\ \A i \in 1..Len(Elements(c)) :
              /\ Elements(c)[i].m \in Nat \ {0} /\ Elements(c)[i].k \in Nat
              /\ Elements(c)[i].bits \in Nat \ {0} /\ Elements(c)[i].at \in Nat
              /\ Elements(c)[i].at + Elements(c)[i].bits <= 8 * Structs[c].length
<1>1. Chain(Elements(c)) /\ Structs[c].length \in Nat
      /\ \A i \in 1..Len(Elements(c)) :
             Elements(c)[i].at + Elements(c)[i].bits <= 8 * Structs[c].length
  BY DEF Placed
<1> QED
  BY <1>1, ChainTypes

\* Every statement of a placed class stores the elements from Lo to Hi.
LEMMA StatementFacts ==
  ASSUME NEW c, Placed(c)
  PROVE  /\ Len(Code(c)) \in Nat
         /\ \A x \in 1..Len(Code(c)) :
              /\ Stores(c, Elements(c), Code(c)[x], Lo(c)[x], Hi(c)[x])
              /\ Lo(c)[x] \in 1..Len(Elements(c)) /\ Hi(c)[x] \in 1..Len(Elements(c))
              /\ Lo(c)[x] <= Hi(c)[x]
<1>1. Divided(c, Lo(c), Hi(c))
  BY DivisionFacts
<1>2. \A x \in 1..Len(Code(c)) : Stores(c, Elements(c), Code(c)[x], Lo(c)[x], Hi(c)[x])
  BY <1>1 DEF Divided
<1>3. \A x \in 1..Len(Code(c)) : /\ Lo(c)[x] \in 1..Len(Elements(c)) /\ Hi(c)[x] \in 1..Len(Elements(c))
                                 /\ Lo(c)[x] <= Hi(c)[x]
  BY <1>2 DEF Stores
<1>4. Len(Code(c)) \in Nat
  BY DEF Placed
<1> QED
  BY <1>2, <1>3, <1>4

\* One more statement stores the elements it is there for.
LEMMA StoredNext ==
  ASSUME NEW c, Placed(c), NEW n \in Nat, n + 1 \in 1..Len(Code(c)), NEW i
  PROVE  Stored(c, n + 1, i) <=> Stored(c, n, i) \/ i \in Lo(c)[n + 1]..Hi(c)[n + 1]
<1>1. /\ Lo(c)[n + 1] \in 1..Len(Elements(c)) /\ Hi(c)[n + 1] \in 1..Len(Elements(c))
      /\ Len(Elements(c)) \in Nat
  BY StatementFacts, ElementFacts
<1>2. \A x : x \in 1..(n + 1) <=> x \in 1..n \/ x = n + 1
  OBVIOUS
<1> QED
  BY <1>1, <1>2 DEF Stored

\* What a slice is stored behind.
LEMMA SlicesInOrder ==
  ASSUME NEW c, Placed(c), NEW n \in Nat, n + 1 \in 1..Len(Code(c)), Code(c)[n + 1].op # "struct",
         NEW i, Stored(c, n, i)
  PROVE  /\ i < Lo(c)[n + 1]
         /\ Elements(c)[i].at + Elements(c)[i].bits <= Elements(c)[Lo(c)[n + 1]].at
<1>1. PICK x \in 1..n : Lo(c)[x] <= i /\ i <= Hi(c)[x]
  BY DEF Stored
<1>2. x \in 1..Len(Code(c)) /\ x < n + 1
  BY StatementFacts
<1>3. Hi(c)[x] < Lo(c)[n + 1]
  BY <1>2, DivisionFacts DEF Divided
<1>4. i \in 1..Len(Elements(c)) /\ Hi(c)[x] \in Nat /\ Lo(c)[n + 1] \in 1..Len(Elements(c))
      /\ Len(Elements(c)) \in Nat /\ Chain(Elements(c))
  BY <1>2, StatementFacts, ElementFacts DEF Stored
<1>5. i < Lo(c)[n + 1]
  BY <1>1, <1>3, <1>4
<1> QED
  BY <1>4, <1>5 DEF Chain

\* A slice of statement n + 1: the element it stores, where, and how many bytes.
SliceOf(c, o, n, a, from, to, len, e) ==
    /\ n \in Nat /\ n + 1 \in 1..Len(Code(c)) /\ Code(c)[n + 1].op # "struct"
    /\ a = Lo(c)[n + 1] /\ a = Hi(c)[n + 1]
    /\ from \in Nat /\ to \in Nat /\ from < to
    /\ Elements(c)[a].at = 8 * from /\ Elements(c)[a].bits = 8 * (to - from)
    /\ len = to - from + (IF OddBytes(c, o, Elements(c)[a]) THEN o.by ELSE 0)
    /\ e.m = Elements(c)[a].m /\ e.k = Elements(c)[a].k

\* How a slice of to - from + d bytes changes the length of a buffer of n bytes.
LengthRight(from, to, n, by, d) ==
    /\ Cut(from) = from /\ Cut(to) \in Nat /\ Cut(to) >= from
    /\ Resized(from, to, to - from + d) \in Nat
    /\ \/ Resized(from, to, to - from + d) = n
       \/ Resized(from, to, to - from + d) = n + by /\ (d = by \/ size = n + by)
    /\ to + d <= Resized(from, to, to - from + d)
LEMMA SliceLength ==
  ASSUME NEW from \in Nat, NEW to \in Nat, NEW n \in Nat, from < to, to <= n,
         NEW by \in {-1, 0, 1}, NEW d \in {0, by},
         size \in Nat, size = n \/ (size = n + by /\ d = 0)
  PROVE  LengthRight(from, to, n, by, d)
<1>1. d \in {-1, 0, 1} /\ d \in Int /\ by \in Int
  OBVIOUS
<1>2. Cut(from) = from
  BY <1>1 DEF Cut
<1>3. CASE to > size
  <2>1. size = n - 1 /\ to = n /\ by = -1 /\ d = 0
    BY <1>3, <1>1
  <2>2. Cut(to) = size
    BY <1>3 DEF Cut
  <2>3. Resized(from, to, to - from + d) = n
    BY <2>1, <2>2, <1>2 DEF Resized
  <2> QED
    BY <2>1, <2>2, <2>3, <1>2 DEF LengthRight
<1>4. CASE to <= size
  <2>1. Cut(to) = to
    BY <1>4 DEF Cut
  <2>2. Resized(from, to, to - from + d) = size + d
    BY <2>1, <1>1, <1>2 DEF Resized
  <2> QED
    BY <2>1, <2>2, <1>1, <1>2, <1>4 DEF LengthRight
<1> QED
  BY <1>3, <1>4

\* A slice keeps what lies before it and puts one piece behind that; the buffer
\* changes its length only with the odd byte string, and by as much.
LEMMA SliceKeeps ==
  ASSUME NEW c, Placed(c), NEW o, o.by \in {-1, 0, 1},
         NEW n, NEW a, NEW from, NEW to, NEW len, NEW e, SliceOf(c, o, n, a, from, to, len, e),
         NEW sp, ImageRight(c, o, n, image, size, sp),
         NEW sp2, sp \subseteq sp2,
         OddBytes(c, o, Elements(c)[a]) => Key(Elements(c)[a]) \in sp2
  PROVE  ImageRight(c, o, n + 1, Assign(image, from, to, len, e), Resized(from, to, len), sp2)
<1> PICK bytes : bytes = Structs[c].length
  OBVIOUS
<1> PICK E : E = Elements(c)
  OBVIOUS
<1>a. /\ bytes \in Nat /\ Len(E) \in Nat /\ Chain(E)
      /\ \A i \in 1..Len(E) : E[i].at \in Nat /\ E[i].bits \in Nat \ {0} /\ E[i].at + E[i].bits <= 8 * bytes
  BY ElementFacts
<1>b. n \in Nat /\ n + 1 \in 1..Len(Code(c)) /\ a = Lo(c)[n + 1] /\ a = Hi(c)[n + 1]
      /\ Code(c)[n + 1].op # "struct"
  BY DEF SliceOf
<1>c. from \in Nat /\ to \in Nat /\ from < to /\ E[a].at = 8 * from /\ E[a].bits = 8 * (to - from)
  BY DEF SliceOf
<1>d. a \in 1..Len(E)
  BY <1>b, StatementFacts
<1>e. to <= bytes
  <2>1. E[a].at + E[a].bits <= 8 * bytes
    BY <1>a, <1>d
  <2>2. 8 * from + 8 * (to - from) <= 8 * bytes
    BY <2>1, <1>c
  <2> QED
    BY <2>2, <1>a, <1>c
<1>2. ASSUME NEW i, Stored(c, n, i)
      PROVE  i \in 1..Len(E) /\ i < a /\ E[i].at + E[i].bits <= 8 * from
  <2>1. i < Lo(c)[n + 1] /\ E[i].at + E[i].bits <= E[Lo(c)[n + 1]].at
    BY <1>2, <1>b, SlicesInOrder
  <2> QED
    BY <2>1, <1>2, <1>b, <1>c DEF Stored
<1>3. ASSUME NEW p \in image
      PROVE  \E i \in 1..Len(E) : /\ Stored(c, n, i) /\ p = PieceFor(c, o, E[i])
                                  /\ p.at = E[i].at /\ p.at \in Nat /\ p.at < 8 * from
                                  /\ End(p) \in Int
  <2>1. PICK i \in 1..Len(E) : Stored(c, n, i) /\ p = PieceFor(c, o, E[i])
    BY DEF ImageRight, OnlyStored
  <2>2. p.at = E[i].at /\ p.bits = IF OddBytes(c, o, E[i]) THEN E[i].bits + 8 * o.by ELSE E[i].bits
    BY <2>1 DEF PieceFor, Piece
  <2>3. E[i].at \in Nat /\ E[i].bits \in Nat \ {0} /\ E[i].at + E[i].bits <= 8 * from
    BY <2>1, <1>2, <1>a
  <2>4. p.at \in Nat /\ p.at < 8 * from
    BY <2>2, <2>3, <1>c
  <2>5. End(p) \in Int
    BY <2>2, <2>3 DEF End
  <2> QED
    BY <2>1, <2>2, <2>4, <2>5
<1> PICK odd1 : odd1 = OddBytes(c, o, E[a])
  OBVIOUS
<1> PICK d : d = IF odd1 THEN o.by ELSE 0
  OBVIOUS
<1>4. size \in Nat /\ (size = bytes \/ (size = bytes + o.by /\ ~odd1))
  <2>1. CASE size = bytes
    BY <2>1, <1>a
  <2>2. CASE size # bytes
    <3>1. PICK i \in 1..Len(E) : Stored(c, n, i) /\ OddBytes(c, o, E[i]) /\ size = bytes + o.by
      BY <2>2 DEF ImageRight, Sized
    <3>2. i \in 1..Len(E) /\ i # a
      BY <3>1, <1>2, <1>d, <1>a
    <3>3. Key(E[i]) # Key(E[a])
      BY <3>2, <1>a, <1>d DEF Chain
    <3>4. ~odd1
      BY <3>1, <3>3 DEF OddBytes, OddOne, Key
    <3>5. bytes >= 1
      BY <1>a, <1>c, <1>e
    <3>6. bytes + o.by \in Nat
      BY <3>5, <1>a
    <3> QED
      BY <3>1, <3>4, <3>6
  <2> QED
    BY <2>1, <2>2
<1>5. d \in {0, o.by} /\ len = to - from + d /\ (odd1 => d = o.by) /\ (~odd1 => d = 0)
  BY DEF SliceOf
<1> PICK size2 : size2 = Resized(from, to, len)
  OBVIOUS
<1>6. /\ Cut(from) = from /\ Cut(to) \in Nat /\ Cut(to) >= from
      /\ size2 \in Nat
      /\ size2 = bytes \/ (size2 = bytes + o.by /\ (d = o.by \/ size = bytes + o.by))
      /\ to + d <= size2
  <2>1. size = bytes \/ (size = bytes + o.by /\ d = 0)
    BY <1>4, <1>5
  <2>2. size2 = Resized(from, to, to - from + d)
    BY <1>5
  <2>3. LengthRight(from, to, bytes, o.by, d)
    <3>1. from \in Nat /\ to \in Nat /\ bytes \in Nat /\ from < to /\ to <= bytes
          /\ o.by \in {-1, 0, 1} /\ d \in {0, o.by} /\ size \in Nat
      BY <1>a, <1>c, <1>e, <1>4, <1>5
    <3> QED
      BY <2>1, <3>1, SliceLength
  <2> QED
    BY <2>2, <2>3 DEF LengthRight
<1> PICK new : new = Piece(8 * from, 8 * len, e)
  OBVIOUS
<1>7. new = PieceFor(c, o, E[a]) /\ End(new) = 8 * (to + d) /\ new.at = 8 * from
  <2>1. new.at = 8 * from /\ new.bits = 8 * len /\ new.of = <<E[a].m, E[a].k>>
    BY DEF Piece, SliceOf
  <2>2. 8 * len = IF odd1 THEN E[a].bits + 8 * o.by ELSE E[a].bits
    BY <1>5, <1>c
  <2>3. new = PieceFor(c, o, E[a])
    BY <2>2, <1>c DEF PieceFor, Piece, SliceOf
  <2>4. End(new) = 8 * from + 8 * len
    BY <2>1 DEF End
  <2>5. 8 * from + 8 * len = 8 * (to + d)
    <3>1. d \in Int /\ from \in Int /\ to \in Int /\ len = to - from + d
      BY <1>5, <1>c
    <3> QED
      BY <3>1
  <2> QED
    BY <2>1, <2>3, <2>4, <2>5
<1> PICK buf : buf = Assign(image, from, to, len, e)
  OBVIOUS
<1>8. buf = {p \in image : End(p) <= 8 * from} \cup {new}
  <2>1. {q \in image : q.at >= 8 * Cut(to)} = {}
    <3>1. 8 * Cut(to) >= 8 * from
      BY <1>6, <1>c
    <3>2. \A q \in image : ~(q.at >= 8 * Cut(to))
      BY <3>1, <1>3, <1>6, <1>c
    <3> QED
      BY <3>2
  <2> QED
    BY <2>1, <1>6 DEF Assign
<1>10. \A i : Stored(c, n + 1, i) <=> Stored(c, n, i) \/ i = a
  <2>1. \A i : i \in Lo(c)[n + 1]..Hi(c)[n + 1] <=> i = a
    BY <1>b, <1>d, <1>a
  <2> QED
    BY <2>1, <1>b, StoredNext
<1>11. OnlyStored(c, o, n + 1, buf, size2)
  <2> SUFFICES ASSUME NEW p \in buf
               PROVE  \E i \in 1..Len(E) : Stored(c, n + 1, i) /\ p = PieceFor(c, o, E[i])
                                            /\ End(p) <= 8 * size2
    BY DEF OnlyStored
  <2>1. CASE p = new
    <3>1. 8 * (to + d) <= 8 * size2
      BY <1>6, <1>5, <1>c
    <3> QED
      BY <2>1, <3>1, <1>d, <1>7, <1>10
  <2>2. CASE p \in image /\ End(p) <= 8 * from
    <3>1. PICK i \in 1..Len(E) : Stored(c, n, i) /\ p = PieceFor(c, o, E[i]) /\ End(p) \in Int
      BY <2>2, <1>3
    <3>2. from <= size2
      BY <1>c, <1>5, <1>6, SMTT(60)
    <3>3. End(p) <= 8 * size2
      BY <2>2, <3>1, <3>2, <1>6, <1>c
    <3> QED
      BY <3>1, <3>3, <1>10
  <2> QED
    BY <2>1, <2>2, <1>8
<1>12. AllStored(c, o, n + 1, buf, sp2)
  <2> SUFFICES ASSUME NEW i \in 1..Len(E), Stored(c, n + 1, i)
               PROVE  Place(E[i]) \in buf \/ (OddOne(o, E[i]) /\ Key(E[i]) \in sp2)
    BY DEF AllStored
  <2>1. CASE i = a
    <3>1. CASE odd1
      BY <2>1, <3>1 DEF OddBytes
    <3>2. CASE ~odd1
      <4>1. PieceFor(c, o, E[a]) = Place(E[a])
        BY <3>2 DEF PieceFor, Place
      <4> QED
        BY <2>1, <4>1, <1>7, <1>8
    <3> QED BY <3>1, <3>2
  <2>2. CASE Stored(c, n, i)
    <3>1. CASE Place(E[i]) \in image
      <4>1. End(Place(E[i])) <= 8 * from
        BY <2>2, <1>2 DEF Place, Piece, End
      <4> QED
        BY <3>1, <4>1, <1>8
    <3>2. CASE OddOne(o, E[i]) /\ Key(E[i]) \in sp
      BY <3>2
    <3> QED
      BY <2>2, <3>1, <3>2 DEF ImageRight, AllStored
  <2> QED
    BY <2>1, <2>2, <1>10
<1>13. Sized(c, o, n + 1, size2)
  <2>1. CASE size2 = bytes
    BY <2>1 DEF Sized
  <2>2. CASE size2 = bytes + o.by /\ odd1
    BY <2>2, <1>d, <1>10 DEF Sized
  <2>3. CASE size2 = bytes + o.by /\ size = bytes + o.by
    <3>1. Sized(c, o, n, size)
      BY DEF ImageRight
    <3> QED
      BY <2>3, <3>1, <1>10 DEF Sized
  <2>4. CASE size2 = bytes + o.by /\ d = o.by /\ ~odd1
    <3>1. o.by = 0
      BY <2>4, <1>5
    <3> QED
      BY <2>1, <2>4, <3>1, <1>a
  <2> QED
    BY <2>1, <2>2, <2>3, <2>4, <1>6
<1> QED
  BY <1>11, <1>12, <1>13 DEF ImageRight

\* Words are written over what is there, and only over their own elements.
LEMMA WriteKeeps ==
  ASSUME NEW c, Placed(c), NEW o,
         NEW n \in Nat, n + 1 \in 1..Len(Code(c)), NEW a, NEW b, a = Lo(c)[n + 1], b = Hi(c)[n + 1],
         \A i \in a..b : ~IsData(Members(c)[Elements(c)[i].m]),
         NEW img, NEW sz \in Nat, NEW sp, ImageRight(c, o, n, img, sz, sp),
         Elements(c)[b].at + Elements(c)[b].bits <= 8 * sz,
         NEW ps, ps = {Place(Elements(c)[l]) : l \in a..b},
         NEW sp2, sp \subseteq sp2
  PROVE  ImageRight(c, o, n + 1, Write(img, ps), sz, sp2)
<1> PICK E : E = Elements(c)
  OBVIOUS
<1> PICK buf : buf = Write(img, ps)
  OBVIOUS
<1>1. /\ a \in 1..Len(E) /\ b \in 1..Len(E) /\ Len(E) \in Nat /\ Chain(E) /\ a <= b
      /\ \A i \in 1..Len(E) : E[i].at \in Nat /\ E[i].bits \in Nat \ {0}
  BY StatementFacts, ElementFacts
<1>2. \A i : Stored(c, n + 1, i) <=> Stored(c, n, i) \/ i \in a..b
  BY StoredNext
<1>3. buf = {p \in img : \A q \in ps : End(p) <= q.at \/ p.at >= End(q)} \cup ps
  BY DEF Write
<1>4. OnlyStored(c, o, n + 1, buf, sz)
  <2> SUFFICES ASSUME NEW p \in buf
               PROVE  \E i \in 1..Len(E) : Stored(c, n + 1, i) /\ p = PieceFor(c, o, E[i])
                                            /\ End(p) <= 8 * sz
    BY DEF OnlyStored
  <2>1. CASE p \in img
    BY <2>1, <1>2 DEF ImageRight, OnlyStored
  <2>2. CASE p \in ps
    <3>1. PICK l \in a..b : p = Place(E[l])
      BY <2>2
    <3>2. l \in 1..Len(E) /\ l <= b
      BY <3>1, <1>1
    <3>3. p = PieceFor(c, o, E[l])
      BY <3>1 DEF PieceFor, Place, OddBytes
    <3>4. End(p) <= 8 * sz
      <4>1. E[l].at + E[l].bits <= E[b].at + E[b].bits
        <5>0. E[l].at \in Nat /\ E[l].bits \in Nat /\ E[b].at \in Nat /\ E[b].bits \in Nat
          BY <3>2, <1>1
        <5>1. CASE l = b
          BY <5>1, <5>0
        <5>2. CASE l < b
          <6>1. E[l].at + E[l].bits <= E[b].at
            BY <5>2, <3>2, <1>1 DEF Chain
          <6>2. \A w, x, y, z \in Nat : w + x <= y => w + x <= y + z
            OBVIOUS
          <6> QED
            BY <6>1, <6>2, <5>0, Zenon
        <5> QED
          BY <5>1, <5>2, <3>2, <1>1
      <4>2. End(p) = E[l].at + E[l].bits
        BY <3>1 DEF Place, Piece, End
      <4>3. E[l].at \in Nat /\ E[l].bits \in Nat /\ E[b].at \in Nat /\ E[b].bits \in Nat
        BY <3>2, <1>1
      <4> QED
        BY <4>1, <4>2, <4>3, SMTT(60)
    <3> QED
      BY <3>1, <3>2, <3>3, <3>4, <1>2
  <2> QED
    BY <2>1, <2>2, <1>3
<1>5. AllStored(c, o, n + 1, buf, sp2)
  <2> SUFFICES ASSUME NEW i \in 1..Len(E), Stored(c, n + 1, i)
               PROVE  Place(E[i]) \in buf \/ (OddOne(o, E[i]) /\ Key(E[i]) \in sp2)
    BY DEF AllStored
  <2>1. CASE i \in a..b
    BY <2>1, <1>3
  <2>2. CASE Stored(c, n, i) /\ i \notin a..b
    <3>1. CASE Place(E[i]) \in img
      <4>1. ASSUME NEW q \in ps
            PROVE  End(Place(E[i])) <= q.at \/ Place(E[i]).at >= End(q)
        <5>1. PICK l \in a..b : q = Place(E[l])
          OBVIOUS
        <5>2. l \in 1..Len(E) /\ l # i
          BY <5>1, <2>2, <1>1
        <5>3. E[i].at + E[i].bits <= E[l].at \/ E[l].at + E[l].bits <= E[i].at
          <6>1. i < l \/ l < i
            BY <5>2, <1>1
          <6> QED
            BY <6>1, <5>2, <1>1 DEF Chain
        <5>4. /\ End(Place(E[i])) = E[i].at + E[i].bits /\ Place(E[i]).at = E[i].at
              /\ End(q) = E[l].at + E[l].bits /\ q.at = E[l].at
          BY <5>1 DEF Place, Piece, End
        <5> QED
          BY <5>2, <5>3, <5>4, <1>1
      <4> QED
        BY <3>1, <4>1, <1>3
    <3>2. CASE OddOne(o, E[i]) /\ Key(E[i]) \in sp
      BY <3>2
    <3> QED
      BY <2>2, <3>1, <3>2 DEF ImageRight, AllStored
  <2> QED
    BY <2>1, <2>2, <1>2
<1>6. Sized(c, o, n + 1, sz)
  BY <1>2 DEF ImageRight, Sized
<1> QED
  BY <1>4, <1>5, <1>6 DEF ImageRight

-----------------------------------------------------------------------------
(* The inductive invariant, and what a store keeps of it.                  *)

\* The statements behind the first n.
Rest(c, n) == SubSeq(Code(c), n + 1, Len(Code(c)))

\* What reading a piece of an image gives (Read), and what the first n statements
\* of unpack_from have assigned: to each element what its place holds.
ReadOf(img, p) ==
    IF \E q \in img : q.at = p.at /\ q.bits = p.bits
    THEN (CHOOSE q \in img : q.at = p.at /\ q.bits = p.bits).of
    ELSE <<0, 0>>
Gives(img, e) == <<Key(e), ReadOf(img, Place(e))>>
GotRight(c, n, img, g) ==
    /\ \A x \in g : \E i \in 1..Len(Elements(c)) : x = Gives(img, Elements(c)[i])
    /\ \A i \in 1..Len(Elements(c)) : Stored(c, n, i) => Gives(img, Elements(c)[i]) \in g

\* Only the member of the odd element is spoilt.
Contained(o, sp) == \A x \in sp : x[1] = o.m /\ x[2] >= 0

\* n statements have packed, m have unpacked.
Packing(c, o, n, td, img, sz, sp, g) ==
    /\ n \in 0..Len(Code(c)) /\ td = Rest(c, n) /\ g = {}
    /\ ImageRight(c, o, n, img, sz, sp)
Unpacking(c, o, m, td, img, sz, sp, g) ==
    /\ m \in 0..Len(Code(c)) /\ td = Rest(c, m)
    /\ ImageRight(c, o, Len(Code(c)), img, sz, sp) /\ GotRight(c, m, img, g)
Raised(c, o, n, m, td, img, sz, sp, g) ==
    /\ n \in 0..Len(Code(c)) /\ m \in 0..Len(Code(c)) /\ td = <<>> /\ o # Nothing
    /\ ImageRight(c, o, n, img, sz, sp) /\ GotRight(c, m, img, g)

IInv ==
    /\ class \in DOMAIN Structs
    /\ elements = Elements(class)
    /\ odd \in {Nothing} \cup OddOnes
    /\ Contained(odd, spoilt)
    /\ \/ phase = "pack" /\ \E n : Packing(class, odd, n, todo, image, size, spoilt, got)
       \/ phase = "unpack" /\ \E m : Unpacking(class, odd, m, todo, image, size, spoilt, got)
       \/ phase = "raised" /\ \E n, m : Raised(class, odd, n, m, todo, image, size, spoilt, got)

\* What remains of the statements, one by one.
LEMMA RestFacts ==
  ASSUME NEW c, Placed(c), NEW n \in 0..Len(Code(c))
  PROVE  /\ Rest(c, n) = <<>> => n = Len(Code(c))
         /\ Rest(c, n) # <<>> => /\ n \in Nat /\ n + 1 \in 1..Len(Code(c))
                                 /\ Head(Rest(c, n)) = Code(c)[n + 1]
                                 /\ Tail(Rest(c, n)) = Rest(c, n + 1)
         /\ Rest(c, 0) = Code(c)
<1> DEFINE S == {Code(c)[x] : x \in 1..Len(Code(c))}
<1>1. Code(c) \in Seq(S) /\ Len(Code(c)) \in Nat
  BY DEF Placed
<1> HIDE DEF S
<1> PICK code : code = Code(c)
  OBVIOUS
<1>2. code \in Seq(S) /\ Len(code) \in Nat /\ n \in 0..Len(code)
  BY <1>1
<1>3. SubSeq(code, n + 1, Len(code)) = <<>> => n = Len(code)
  <2> PICK rest : rest = SubSeq(code, n + 1, Len(code))
    OBVIOUS
  <2>1. n # Len(code) => Len(rest) = Len(code) - n
    BY <1>2
  <2>2. n # Len(code) => Len(rest) # 0
    BY <2>1, <1>2
  <2>3. rest = <<>> => Len(rest) = 0
    OBVIOUS
  <2> QED
    BY <2>2, <2>3
<1>4. SubSeq(code, n + 1, Len(code)) # <<>>
       => /\ n + 1 \in 1..Len(code)
          /\ Head(SubSeq(code, n + 1, Len(code))) = code[n + 1]
          /\ Tail(SubSeq(code, n + 1, Len(code))) = SubSeq(code, n + 2, Len(code))
  BY <1>2
<1>5. SubSeq(code, 0 + 1, Len(code)) = code
  BY <1>2
<1>6. n \in Nat /\ (n + 1) + 1 = n + 2
  BY <1>2
<1> QED
  BY <1>3, <1>4, <1>5, <1>6, ZenonT(30) DEF Rest

\* The odd value, if there is one, is off by one.
LEMMA OddFacts ==
  ASSUME IInv
  PROVE  odd.by \in {-1, 0, 1}
BY DEF IInv, OddOnes, Nothing

\* The buffer loses a byte at most, and only to an odd byte string.
LEMMA SizeFacts ==
  ASSUME NEW c, Placed(c), NEW o, o.by \in {-1, 0, 1}, NEW n, NEW img, NEW sz, NEW sp,
         ImageRight(c, o, n, img, sz, sp)
  PROVE  /\ sz \in Nat
         /\ sz # Structs[c].length => o # Nothing /\ IsData(Members(c)[o.m])
<1>1. CASE sz = Structs[c].length
  BY <1>1 DEF Placed
<1>2. CASE sz # Structs[c].length
  <2>1. PICK i \in 1..Len(Elements(c)) : OddBytes(c, o, Elements(c)[i]) /\ sz = Structs[c].length + o.by
    BY <1>2 DEF ImageRight, Sized
  <2> PICK e : e = Elements(c)[i]
    OBVIOUS
  <2>2. e.m \in Nat \ {0} /\ e.bits \in Nat \ {0} /\ e.at \in Nat
        /\ Structs[c].length \in Nat /\ e.at + e.bits <= 8 * Structs[c].length
    BY ElementFacts
  <2>3. o.m = e.m /\ IsData(Members(c)[e.m])
    BY <2>1 DEF OddBytes, OddOne
  <2>4. o # Nothing
    BY <2>2, <2>3 DEF Nothing
  <2>5. Structs[c].length >= 1
    BY <2>2
  <2>6. Structs[c].length + o.by \in Nat
    BY <2>2, <2>5
  <2> QED
    BY <2>1, <2>3, <2>4, <2>6
<1> QED
  BY <1>1, <1>2

\* More may be spoilt.
LEMMA SpoiltMore ==
  ASSUME NEW c, NEW o, NEW n, NEW img, NEW sz, NEW sp, NEW sp2, sp \subseteq sp2,
         ImageRight(c, o, n, img, sz, sp)
  PROVE  ImageRight(c, o, n, img, sz, sp2)
BY DEF ImageRight, AllStored

\* A statement of pack_into keeps the invariant when it stores its elements or raises
\* over the odd one.
LEMMA PackKeeps ==
  ASSUME IInv, Placed(class), phase = "pack",
         NEW n, Packing(class, odd, n, todo, image, size, spoilt, got), todo # <<>>,
         NEW fails, Step(fails), UNCHANGED got,
         Contained(odd, spoilt'), spoilt \subseteq spoilt',
         fails => odd # Nothing /\ image' = image /\ size' = size,
         ~fails => ImageRight(class, odd, n + 1, image', size', spoilt')
  PROVE  IInv'
<1>1. class' = class /\ elements' = elements /\ odd' = odd /\ got' = {}
  BY DEF Step, Packing
<1>2. /\ class' \in DOMAIN Structs /\ elements' = Elements(class')
      /\ Contained(odd', spoilt')
  BY <1>1 DEF IInv
<1>3. odd' \in {Nothing} \cup OddOnes'
  BY <1>1 DEF IInv, OddOnes
<1>4. n \in 0..Len(Code(class)) /\ Len(Code(class)) \in Nat /\ todo = Rest(class, n)
  BY StatementFacts DEF Packing
<1>5. n \in Nat /\ n + 1 \in 0..Len(Code(class)) /\ Tail(todo) = Rest(class, n + 1)
  BY <1>4, RestFacts
<1>6. CASE fails
  <2>1. phase' = "raised" /\ todo' = <<>>
    BY <1>6 DEF Step
  <2>2. ImageRight(class, odd, n, image, size, spoilt')
    BY SpoiltMore DEF Packing
  <2>3. GotRight(class, 0, image', got')
    BY <1>1 DEF GotRight, Stored
  <2>4. 0 \in 0..Len(Code(class))
    BY <1>4
  <2>5. Raised(class', odd', n, 0, todo', image', size', spoilt', got')
    BY <1>1, <1>4, <1>6, <2>1, <2>2, <2>3, <2>4 DEF Raised
  <2> QED
    BY <1>2, <1>3, <2>1, <2>5 DEF IInv
<1>7. CASE ~fails
  <2>1. phase' = "pack" /\ todo' = Rest(class, n + 1)
    BY <1>5, <1>7 DEF Step
  <2>2. Packing(class', odd', n + 1, todo', image', size', spoilt', got')
    BY <1>1, <1>5, <1>7, <2>1 DEF Packing
  <2> QED
    BY <1>2, <1>3, <2>1, <2>2 DEF IInv
<1> QED
  BY <1>6, <1>7

\* A buffer in which the words of a statement have no room is short by an odd one.
LEMMA ShortMeansOdd ==
  ASSUME NEW c, Placed(c), NEW o, o.by \in {-1, 0, 1}, NEW n, NEW img, NEW sz, NEW sp,
         ImageRight(c, o, n, img, sz, sp),
         NEW b \in 1..Len(Elements(c)), NEW end \in Nat,
         8 * end = Elements(c)[b].at + Elements(c)[b].bits, end > sz
  PROVE  o # Nothing
<1>1. Structs[c].length \in Nat /\ 8 * end <= 8 * Structs[c].length
  BY ElementFacts
<1>2. end <= Structs[c].length
  BY <1>1
<1>3. sz \in Nat
  BY SizeFacts
<1>4. sz # Structs[c].length
  BY <1>1, <1>2, <1>3
<1> QED
  BY <1>4, SizeFacts

\* PackWords: the words of statement n + 1.
LEMMA PackWordsKeeps ==
  ASSUME IInv, Placed(class), phase = "pack",
         NEW n, Packing(class, odd, n, todo, image, size, spoilt, got), todo # <<>>,
         NEW a, NEW b, a = Lo(class)[n + 1], b = Hi(class)[n + 1],
         \A i \in a..b : ~IsData(Members(class)[Elements(class)[i].m]),
         NEW end \in Nat, 8 * end = Elements(class)[b].at + Elements(class)[b].bits,
         NEW pieces, pieces = {Place(Elements(class)[l]) : l \in a..b},
         NEW fails, fails => odd # Nothing, PackWords(pieces, end, fails),
         Contained(odd, spoilt'), spoilt \subseteq spoilt'
  PROVE  IInv'
<1> PICK short : short = (fails \/ end > size)
  OBVIOUS
<1>1. n \in 0..Len(Code(class)) /\ todo = Rest(class, n)
      /\ ImageRight(class, odd, n, image, size, spoilt)
  BY DEF Packing
<1>2. n \in Nat /\ n + 1 \in 1..Len(Code(class))
  BY <1>1, RestFacts
<1>3. a \in 1..Len(Elements(class)) /\ b \in 1..Len(Elements(class))
  BY <1>2, StatementFacts
<1>4. odd.by \in {-1, 0, 1}
  BY OddFacts
<1>5. size \in Nat
  BY <1>1, <1>4, SizeFacts
<1>6. Step(short) /\ UNCHANGED got
  BY DEF PackWords
<1>7. short => odd # Nothing /\ image' = image /\ size' = size
  <2>1. end > size => odd # Nothing
    BY <1>1, <1>3, <1>4, ShortMeansOdd
  <2> QED
    BY <2>1 DEF PackWords
<1>8. ~short => ImageRight(class, odd, n + 1, image', size', spoilt')
  <2> SUFFICES ASSUME ~short PROVE ImageRight(class, odd, n + 1, image', size', spoilt')
    OBVIOUS
  <2>1. image' = Write(image, pieces) /\ size' = size /\ ~(end > size)
    BY DEF PackWords
  <2>2. Elements(class)[b].at + Elements(class)[b].bits <= 8 * size
    <3>1. 8 * end <= 8 * size
      BY <2>1, <1>5
    <3> QED
      BY <3>1
  <2>3. ImageRight(class, odd, n + 1, Write(image, pieces), size, spoilt')
    BY <2>2, <1>1, <1>2, <1>5, WriteKeeps
  <2> QED
    BY <2>1, <2>3
<1> QED
  BY <1>6, <1>7, <1>8, PackKeeps

\* PackSlice: the slice of statement n + 1.
LEMMA PackSliceKeeps ==
  ASSUME IInv, Placed(class), phase = "pack",
         NEW n, Packing(class, odd, n, todo, image, size, spoilt, got), todo # <<>>,
         NEW a, NEW from, NEW to, NEW len, NEW e, SliceOf(class, odd, n, a, from, to, len, e),
         PackSlice(from, to, len, e),
         Contained(odd, spoilt'), spoilt \subseteq spoilt',
         OddBytes(class, odd, Elements(class)[a]) => Key(Elements(class)[a]) \in spoilt'
  PROVE  IInv'
<1>1. ImageRight(class, odd, n, image, size, spoilt)
  BY DEF Packing
<1>2. odd.by \in {-1, 0, 1}
  BY OddFacts
<1>3. ImageRight(class, odd, n + 1, Assign(image, from, to, len, e), Resized(from, to, len), spoilt')
  BY <1>1, <1>2, SliceKeeps
<1>4. ImageRight(class, odd, n + 1, image', size', spoilt')
  BY <1>3 DEF PackSlice
<1>5. Step(FALSE) /\ UNCHANGED got
  BY DEF PackSlice
<1> QED
  BY <1>4, <1>5, PackKeeps

-----------------------------------------------------------------------------
(* The actions, one by one.                                                *)

\* The statement about to run, and the elements it is there for.
LEMMA CurrentStatement ==
  ASSUME Placed(class), NEW n \in 0..Len(Code(class)), todo = Rest(class, n), todo # <<>>,
         elements = Elements(class),
         NEW a, NEW b, a = Lo(class)[n + 1], b = Hi(class)[n + 1]
  PROVE  /\ n \in Nat /\ n + 1 \in 1..Len(Code(class))
         /\ Statement = Code(class)[n + 1]
         /\ Stores(class, elements, Statement, a, b)
         /\ Chain(elements)
         /\ a \in 1..Len(elements) /\ b \in 1..Len(elements) /\ a <= b
<1>1. n \in Nat /\ n + 1 \in 1..Len(Code(class)) /\ Statement = Code(class)[n + 1]
  BY RestFacts DEF Statement
<1>2. /\ Stores(class, elements, Code(class)[n + 1], a, b)
      /\ a \in 1..Len(elements) /\ b \in 1..Len(elements) /\ a <= b
  BY <1>1, StatementFacts
<1> QED
  BY <1>1, <1>2, ElementFacts

\* A store of an object keeps the invariant: the object is where its element is.
LEMMA PackObjectKeeps ==
  ASSUME IInv, Placed(class), PackObject
  PROVE  IInv'
<1> PICK s : s = Statement
  OBVIOUS
<1>1. phase = "pack" /\ todo # <<>> /\ s.op = "object" /\ spoilt' = spoilt
  BY DEF PackObject, Runs
<1>2. PICK n : Packing(class, odd, n, todo, image, size, spoilt, got)
  BY <1>1 DEF IInv
<1> PICK a : a = Lo(class)[n + 1]
  OBVIOUS
<1> PICK b : b = Hi(class)[n + 1]
  OBVIOUS
<1>3. elements = Elements(class) /\ Contained(odd, spoilt')
  BY <1>1 DEF IInv
<1>4. n \in 0..Len(Code(class)) /\ todo = Rest(class, n)
  BY <1>2 DEF Packing
<1>5. /\ n \in Nat /\ n + 1 \in 1..Len(Code(class)) /\ s = Code(class)[n + 1]
      /\ Stores(class, elements, s, a, b) /\ Chain(elements)
      /\ a \in 1..Len(elements) /\ b \in 1..Len(elements) /\ a <= b
  BY <1>1, <1>3, <1>4, CurrentStatement
<1>6. a = b /\ StoresObject(class, elements, s, a)
  BY <1>1, <1>5 DEF Stores, StoresBytes, StoresArray, StoresStruct
<1> PICK e : e = elements[a]
  OBVIOUS
<1> PICK c : c = Members(class)[s.m].class
  OBVIOUS
<1> PICK len : len = Length(c)
  OBVIOUS
<1>7. /\ e.m = s.m /\ e.k = s.k /\ s.at \in Nat /\ e.at = 8 * s.at
      /\ len \in Nat /\ e.bits = 8 * len /\ isObject(Members(class)[s.m])
  BY <1>6 DEF StoresObject
<1>8. ~IsData(Members(class)[e.m]) /\ e.bits \in Nat \ {0}
  BY <1>5, <1>7, ChainTypes DEF IsData
<1>9. CASE c \in {"GID", "GUID"}
  <2> PICK at : at = s.at
    OBVIOUS
  <2>1. PackSlice(at, at + len, len, s)
    BY <1>9 DEF PackObject
  <2>2. at \in Nat /\ at + len \in Nat /\ at < at + len /\ len = at + len - at
        /\ 8 * ((at + len) - at) = 8 * len
    BY <1>7, <1>8
  <2>3. ~OddBytes(class, odd, e)
    BY <1>8 DEF OddBytes
  <2>4. len = at + len - at + (IF OddBytes(class, odd, e) THEN odd.by ELSE 0)
    BY <2>2, <2>3, <1>7
  <2>5. Code(class)[n + 1].op # "struct"
    BY <1>1, <1>5
  <2>6. e.at = 8 * at /\ e.bits = 8 * ((at + len) - at)
    BY <1>7, <2>2
  <2>7. SliceOf(class, odd, n, a, at, at + len, len, s)
    BY <1>3, <1>5, <1>6, <1>7, <2>2, <2>4, <2>5, <2>6 DEF SliceOf
  <2>8. /\ OddBytes(class, odd, Elements(class)[a]) => Key(Elements(class)[a]) \in spoilt'
        /\ spoilt \subseteq spoilt'
    BY <1>1, <1>3, <2>3
  <2> PICK to : to = at + len
    OBVIOUS
  <2>9. PackSlice(at, to, len, s) /\ SliceOf(class, odd, n, a, at, to, len, s)
    BY <2>1, <2>7
  <2> QED
    BY <1>1, <1>2, <1>3, <2>8, <2>9, PackSliceKeeps
<1>10. CASE c \notin {"GID", "GUID"}
  <2> PICK pieces : pieces = {Piece(8 * s.at, 8 * len, s)}
    OBVIOUS
  <2> PICK end : end = s.at + len
    OBVIOUS
  <2>1. PackWords(pieces, end, FALSE)
    BY <1>10 DEF PackObject
  <2>2. end \in Nat /\ 8 * end = 8 * s.at + 8 * len
    BY <1>7
  <2>3. 8 * end = elements[b].at + elements[b].bits
    BY <1>6, <1>7, <2>2
  <2>4. \A l : l \in a..b <=> l = a
    BY <1>5, <1>6, ChainTypes
  <2>5. pieces = {Place(elements[l]) : l \in a..b}
    BY <1>7, <2>4 DEF Place, Piece
  <2>6. \A i \in a..b : ~IsData(Members(class)[elements[i].m])
    BY <1>8, <2>4
  <2> QED
    <3>1. /\ 8 * end = Elements(class)[b].at + Elements(class)[b].bits
          /\ pieces = {Place(Elements(class)[l]) : l \in a..b}
          /\ \A i \in a..b : ~IsData(Members(class)[Elements(class)[i].m])
      BY <1>3, <2>3, <2>5, <2>6
    <3>2. PICK fails : fails = FALSE
      OBVIOUS
    <3>3. PackWords(pieces, end, fails) /\ (fails => odd # Nothing) /\ end \in Nat
      BY <2>1, <2>2, <3>2
    <3>4. spoilt \subseteq spoilt'
      BY <1>1
    <3> QED
      BY <1>1, <1>2, <1>3, <3>1, <3>3, <3>4, PackWordsKeeps
<1> QED
  BY <1>9, <1>10

\* So does one of a byte string, which shifts what is behind it when it is odd; but all
\* that is stored so far lies before it.
LEMMA PackBytesKeeps ==
  ASSUME IInv, Placed(class), PackBytes
  PROVE  IInv'
<1> PICK s : s = Statement
  OBVIOUS
<1>1. phase = "pack" /\ todo # <<>> /\ s.op = "bytes"
  BY DEF PackBytes, Runs
<1>2. PICK n : Packing(class, odd, n, todo, image, size, spoilt, got)
  BY <1>1 DEF IInv
<1> PICK a : a = Lo(class)[n + 1]
  OBVIOUS
<1> PICK b : b = Hi(class)[n + 1]
  OBVIOUS
<1>3. elements = Elements(class) /\ Contained(odd, spoilt)
  BY DEF IInv
<1>4. n \in 0..Len(Code(class)) /\ todo = Rest(class, n)
  BY <1>2 DEF Packing
<1>5. /\ n \in Nat /\ n + 1 \in 1..Len(Code(class)) /\ s = Code(class)[n + 1]
      /\ Stores(class, elements, s, a, b) /\ Chain(elements)
      /\ a \in 1..Len(elements) /\ b \in 1..Len(elements) /\ a <= b
  BY <1>1, <1>3, <1>4, CurrentStatement
<1>6. a = b /\ StoresBytes(class, elements, s, a)
  BY <1>1, <1>5 DEF Stores, StoresObject, StoresArray, StoresStruct
<1> PICK x : x = elements[a]
  OBVIOUS
<1> PICK e : e = [m |-> s.m, k |-> 0]
  OBVIOUS
<1> PICK by : by = IF IsOdd(e) THEN odd.by ELSE 0
  OBVIOUS
<1> PICK full : full = lenBits(Members(class)[s.m]) \div 8
  OBVIOUS
<1> PICK len : len = full + by
  OBVIOUS
<1>7. /\ x.m = s.m /\ x.k = 0 /\ s.at \in Nat /\ s.to \in Nat /\ s.at < s.to
      /\ x.at = 8 * s.at /\ x.bits = 8 * (s.to - s.at) /\ IsData(Members(class)[x.m])
  BY <1>6 DEF StoresBytes
<1>8. full = s.to - s.at
  <2>1. full = (8 * (s.to - s.at)) \div 8
    BY <1>6 DEF StoresBytes
  <2> QED
    BY <2>1, <1>7
<1>9. e.m = x.m /\ e.k = x.k /\ (IsOdd(e) <=> OddBytes(class, odd, x))
  BY <1>7 DEF IsOdd, OddBytes, OddOne
<1>10. PackSlice(s.at, s.to, len, e) /\ spoilt' = spoilt \cup {<<y.m, y.k>> : y \in {z \in {e} : IsOdd(z)}}
  <2>1. e.m = s.m
    BY <1>7, <1>9
  <2>2. PackSlice(s.at, s.to, len, e) /\ Spoils({z \in {e} : IsOdd(z)})
    BY <2>1 DEF PackBytes
  <2> QED
    BY <2>2 DEF Spoils
<1>11. len = s.to - s.at + (IF OddBytes(class, odd, x) THEN odd.by ELSE 0)
  BY <1>8, <1>9
<1>12. SliceOf(class, odd, n, a, s.at, s.to, len, e)
  BY <1>1, <1>3, <1>5, <1>6, <1>7, <1>9, <1>11 DEF SliceOf
<1>13. Contained(odd, spoilt') /\ spoilt \subseteq spoilt'
  <2>1. \A y \in spoilt' : y \in spoilt \/ (y = <<e.m, e.k>> /\ e.m = odd.m /\ e.k = 0)
    BY <1>10, <1>7, <1>9 DEF IsOdd
  <2>2. spoilt \subseteq spoilt'
    BY <1>10
  <2>3. \A y \in spoilt' : y[1] = odd.m /\ y[2] >= 0
    BY <2>1, <1>3 DEF Contained
  <2> QED
    BY <2>2, <2>3 DEF Contained
<1>14. OddBytes(class, odd, Elements(class)[a]) => Key(Elements(class)[a]) \in spoilt'
  BY <1>3, <1>9, <1>10 DEF Key
<1> QED
  BY <1>1, <1>2, <1>10, <1>12, <1>13, <1>14, PackSliceKeeps

\* A word of a statement is not empty.
LEMMA WordFacts ==
  ASSUME NEW es, Chain(es), NEW words, NEW a, NEW b, WordsFit(es, words, a, b), NEW w \in ToSet(words)
  PROVE  /\ Len(w.es) \in Nat \ {0} /\ DOMAIN w.es = 1..Len(w.es)
         /\ \A x \in DOMAIN w.es : w.es[x].m \in Nat \ {0} /\ w.es[x].k \in Nat
<1>1. PICK i \in a..b, j \in a..b : WordIs(es, w, i, j)
  BY DEF WordsFit
<1>2. i \in 1..Len(es) /\ j \in 1..Len(es) /\ i <= j /\ Len(w.es) = j - i + 1 /\ DOMAIN w.es = 1..Len(w.es)
      /\ Len(es) \in Nat
  BY <1>1, ChainTypes DEF WordIs
<1>3. ASSUME NEW x \in DOMAIN w.es PROVE w.es[x].m \in Nat \ {0} /\ w.es[x].k \in Nat
  <2>1. x \in 1..(j - i + 1) /\ i + x - 1 \in 1..Len(es)
    BY <1>2
  <2>2. w.es[x].m = es[i + x - 1].m /\ w.es[x].k = es[i + x - 1].k
    BY <1>1, <2>1 DEF WordIs
  <2> QED
    BY <2>1, <2>2, ChainTypes
<1> QED
  BY <1>2, <1>3

\* pack_array8 keeps the invariant.
LEMMA PackArrayKeeps ==
  ASSUME IInv, Placed(class), PackArray
  PROVE  IInv'
<1> PICK s : s = Statement
  OBVIOUS
<1>1. phase = "pack" /\ todo # <<>> /\ s.op = "array"
  BY DEF PackArray, Runs
<1>2. PICK n : Packing(class, odd, n, todo, image, size, spoilt, got)
  BY <1>1 DEF IInv
<1> PICK a : a = Lo(class)[n + 1]
  OBVIOUS
<1> PICK b : b = Hi(class)[n + 1]
  OBVIOUS
<1>3. elements = Elements(class) /\ Contained(odd, spoilt)
  BY DEF IInv
<1>4. n \in 0..Len(Code(class)) /\ todo = Rest(class, n)
  BY <1>2 DEF Packing
<1>5. /\ n \in Nat /\ n + 1 \in 1..Len(Code(class)) /\ s = Code(class)[n + 1]
      /\ Stores(class, elements, s, a, b) /\ Chain(elements)
      /\ a \in 1..Len(elements) /\ b \in 1..Len(elements) /\ a <= b
  BY <1>1, <1>3, <1>4, CurrentStatement
<1>6. StoresArray(elements, s, a, b) /\ \A i \in a..b : ~IsData(Members(class)[elements[i].m])
  BY <1>1, <1>5 DEF Stores, StoresObject, StoresBytes, StoresStruct
<1> PICK p : p = pack_array8(s)
  OBVIOUS
<1>7. /\ p.es = <<>> /\ p.at \div 8 \in Nat /\ 8 * (p.at \div 8) = elements[b].at + elements[b].bits
      /\ WordsFit(elements, p.words, a, b)
      /\ \A w \in ToSet(p.words) : \A i \in DOMAIN w.es : w.es[i].m = s.m
  BY <1>6 DEF StoresArray
<1> PICK fails : fails = (p.es # <<>> \/ \E w \in ToSet(p.words) : IsOdd(w.es[1]))
  OBVIOUS
<1> PICK end : end = p.at \div 8
  OBVIOUS
<1> PICK pieces : pieces = Pieces(p.words)
  OBVIOUS
<1>8. PackWords(pieces, end, fails) /\ Spoils(UNION {Spilt(w) : w \in ToSet(p.words)})
  BY DEF PackArray
<1>9. fails => odd # Nothing
  <2> SUFFICES ASSUME fails PROVE odd # Nothing
    OBVIOUS
  <2>1. PICK w \in ToSet(p.words) : IsOdd(w.es[1])
    BY <1>7
  <2>2. 1 \in DOMAIN w.es
    BY <1>5, <1>7, WordFacts
  <2>3. w.es[1].m \in Nat \ {0}
    BY <2>2, <1>5, <1>7, WordFacts
  <2> QED
    BY <2>1, <2>3 DEF IsOdd, Nothing
<1>10. Contained(odd, spoilt') /\ spoilt \subseteq spoilt'
  <2> PICK es : es = UNION {Spilt(w) : w \in ToSet(p.words)}
    OBVIOUS
  <2>1. spoilt' = spoilt \cup {<<e.m, e.k>> : e \in es}
    BY <1>8 DEF Spoils
  <2>2. ASSUME NEW e \in es PROVE e.m = odd.m /\ e.k \in Nat
    <3>1. PICK w \in ToSet(p.words) : e \in Spilt(w)
      OBVIOUS
    <3>2. PICK i \in DOMAIN w.es : /\ e = w.es[i]
                                   /\ IsOdd(w.es[i]) \/ (i < Len(w.es) /\ IsOdd(w.es[i + 1]))
      BY <3>1 DEF Spilt
    <3>3. Len(w.es) \in Nat /\ DOMAIN w.es = 1..Len(w.es) /\ e.k \in Nat
      BY <3>2, <1>5, <1>7, WordFacts
    <3>4. PICK j \in DOMAIN w.es : IsOdd(w.es[j])
      BY <3>2, <3>3
    <3>5. e.m = s.m /\ odd.m = s.m
      BY <3>2, <3>4, <1>7 DEF IsOdd
    <3> QED
      BY <3>3, <3>5
  <2>3. \A y \in spoilt' : y \in spoilt \/ (y[1] = odd.m /\ y[2] \in Nat)
    BY <2>1, <2>2
  <2>4. \A k \in Nat : k >= 0
    OBVIOUS
  <2>5. \A y \in spoilt' : y[1] = odd.m /\ y[2] >= 0
    BY <2>3, <2>4, <1>3 DEF Contained
  <2> QED
    BY <2>1, <2>5 DEF Contained
<1>11. /\ 8 * end = Elements(class)[b].at + Elements(class)[b].bits /\ end \in Nat
       /\ \A i \in a..b : ~IsData(Members(class)[Elements(class)[i].m])
  BY <1>3, <1>6, <1>7
<1>12. pieces = {Place(Elements(class)[l]) : l \in a..b}
  <2>1. Pieces(p.words) = {Place(elements[l]) : l \in a..b}
    BY <1>5, <1>7, PiecesFacts
  <2> QED
    BY <2>1, <1>3
<1> QED
  BY <1>1, <1>2, <1>8, <1>9, <1>10, <1>11, <1>12, PackWordsKeeps

\* So does a struct call, which raises only when a value is odd or the buffer too short.
LEMMA PackStructKeeps ==
  ASSUME IInv, Placed(class), PackStruct
  PROVE  IInv'
<1> PICK s : s = Statement
  OBVIOUS
<1>1. phase = "pack" /\ todo # <<>> /\ s.op = "struct"
  BY DEF PackStruct, Runs
<1>2. PICK n : Packing(class, odd, n, todo, image, size, spoilt, got)
  BY <1>1 DEF IInv
<1> PICK a : a = Lo(class)[n + 1]
  OBVIOUS
<1> PICK b : b = Hi(class)[n + 1]
  OBVIOUS
<1>3. elements = Elements(class) /\ Contained(odd, spoilt)
  BY DEF IInv
<1>4. n \in 0..Len(Code(class)) /\ todo = Rest(class, n)
  BY <1>2 DEF Packing
<1>5. /\ n \in Nat /\ n + 1 \in 1..Len(Code(class)) /\ s = Code(class)[n + 1]
      /\ Stores(class, elements, s, a, b) /\ Chain(elements)
      /\ a \in 1..Len(elements) /\ b \in 1..Len(elements) /\ a <= b
  BY <1>1, <1>3, <1>4, CurrentStatement
<1>6. StoresStruct(elements, s, a, b) /\ \A i \in a..b : ~IsData(Members(class)[elements[i].m])
  BY <1>1, <1>5 DEF Stores, StoresObject, StoresBytes, StoresArray
<1> PICK words : words = StructWords(elements, s)
  OBVIOUS
<1> PICK end : end = StructEnd(s)
  OBVIOUS
<1>7. end \in Nat /\ 8 * end = elements[b].at + elements[b].bits /\ WordsFit(elements, words, a, b)
  BY <1>6 DEF StoresStruct
<1> PICK fails : fails = (\E w \in ToSet(words) : Len(w.es) = 1 /\ IsOdd(w.es[1]))
  OBVIOUS
<1> PICK pieces : pieces = Pieces(words)
  OBVIOUS
<1>8. PackWords(pieces, end, fails) /\ Spoils(UNION {Masked(w) : w \in ToSet(words)})
  BY DEF PackStruct
<1>9. fails => odd # Nothing
  <2> SUFFICES ASSUME fails PROVE odd # Nothing
    OBVIOUS
  <2>1. PICK w \in ToSet(words) : IsOdd(w.es[1])
    OBVIOUS
  <2>2. 1 \in DOMAIN w.es
    BY <1>5, <1>7, WordFacts
  <2>3. w.es[1].m \in Nat \ {0}
    BY <2>2, <1>5, <1>7, WordFacts
  <2> QED
    BY <2>1, <2>3 DEF IsOdd, Nothing
<1>10. Contained(odd, spoilt') /\ spoilt \subseteq spoilt'
  <2> PICK es : es = UNION {Masked(w) : w \in ToSet(words)}
    OBVIOUS
  <2>1. spoilt' = spoilt \cup {<<e.m, e.k>> : e \in es}
    BY <1>8 DEF Spoils
  <2>2. ASSUME NEW e \in es PROVE e.m = odd.m /\ e.k \in Nat
    <3>1. PICK w \in ToSet(words) : e \in Masked(w)
      OBVIOUS
    <3>2. PICK i \in DOMAIN w.es : e = w.es[i] /\ IsOdd(e)
      BY <3>1 DEF Masked, ToSet
    <3>3. e.k \in Nat
      BY <3>2, <1>5, <1>7, WordFacts
    <3> QED
      BY <3>2, <3>3 DEF IsOdd
  <2>3. \A y \in spoilt' : y \in spoilt \/ (y[1] = odd.m /\ y[2] \in Nat)
    BY <2>1, <2>2
  <2>4. \A k \in Nat : k >= 0
    OBVIOUS
  <2>5. \A y \in spoilt' : y[1] = odd.m /\ y[2] >= 0
    BY <2>3, <2>4, <1>3 DEF Contained
  <2> QED
    BY <2>1, <2>5 DEF Contained
<1>11. /\ 8 * end = Elements(class)[b].at + Elements(class)[b].bits /\ end \in Nat
       /\ \A i \in a..b : ~IsData(Members(class)[Elements(class)[i].m])
  BY <1>3, <1>6, <1>7
<1>12. pieces = {Place(Elements(class)[l]) : l \in a..b}
  <2>1. Pieces(words) = {Place(elements[l]) : l \in a..b}
    BY <1>5, <1>7, PiecesFacts
  <2> QED
    BY <2>1, <1>3
<1> QED
  BY <1>1, <1>2, <1>8, <1>9, <1>10, <1>11, <1>12, PackWordsKeeps

\* Before the first statement nothing is stored.
LEMMA NothingStored ==
  ASSUME NEW c, NEW i
  PROVE  ~Stored(c, 0, i)
<1>1. 1..0 = {}
  OBVIOUS
<1> QED
  BY <1>1 DEF Stored

\* So does the turn to unpacking.
LEMMA StartUnpackKeeps ==
  ASSUME IInv, Placed(class), StartUnpack
  PROVE  IInv'
<1>1. phase = "pack" /\ todo = <<>> /\ phase' = "unpack" /\ todo' = Code(class)
      /\ UNCHANGED <<class, elements, odd, image, size, spoilt, got>>
  BY DEF StartUnpack, Code
<1>2. PICK n : Packing(class, odd, n, todo, image, size, spoilt, got)
  BY <1>1 DEF IInv
<1>3. n = Len(Code(class)) /\ got = {} /\ ImageRight(class, odd, n, image, size, spoilt)
  BY <1>1, <1>2, RestFacts DEF Packing
<1>4. 0 \in 0..Len(Code(class))
  BY StatementFacts
<1>5. Rest(class, 0) = Code(class)
  BY <1>4, RestFacts
<1>6. GotRight(class, 0, image, got)
  BY <1>3, NothingStored DEF GotRight
<1>7. Unpacking(class, odd, 0, todo', image, size, spoilt, got)
  BY <1>1, <1>3, <1>4, <1>5, <1>6 DEF Unpacking
<1>8. class' \in DOMAIN Structs /\ elements' = Elements(class') /\ odd' \in {Nothing} \cup OddOnes'
      /\ Contained(odd', spoilt')
  BY <1>1 DEF IInv, OddOnes
<1> QED
  BY <1>1, <1>7, <1>8 DEF IInv

\* What a statement reads are the places of its elements.
LEMMA PiecesOfFacts ==
  ASSUME NEW s, NEW a, NEW b, Chain(elements), a \in 1..Len(elements), b \in 1..Len(elements), a <= b,
         Stores(class, elements, s, a, b)
  PROVE  PiecesOf(s) = {Place(elements[l]) : l \in a..b}
<1>1. a = b => \A l : l \in a..b <=> l = a
  BY ChainTypes
<1>2. CASE a = b /\ StoresObject(class, elements, s, a)
  <2>1. PiecesOf(s) = {Piece(8 * s.at, 8 * Length(Members(class)[s.m].class), s)}
    BY <1>2 DEF PiecesOf, StoresObject
  <2>2. Place(elements[a]) = Piece(8 * s.at, 8 * Length(Members(class)[s.m].class), s)
    BY <1>2 DEF StoresObject, Place, Piece
  <2> QED
    BY <1>1, <1>2, <2>1, <2>2
<1>3. CASE a = b /\ StoresBytes(class, elements, s, a)
  <2>1. PiecesOf(s) = {Piece(8 * s.at, 8 * (s.to - s.at), [m |-> s.m, k |-> 0])}
    BY <1>3 DEF PiecesOf, StoresBytes
  <2>2. Place(elements[a]) = Piece(8 * s.at, 8 * (s.to - s.at), [m |-> s.m, k |-> 0])
    BY <1>3 DEF StoresBytes, Place, Piece
  <2> QED
    BY <1>1, <1>3, <2>1, <2>2
<1>4. CASE StoresArray(elements, s, a, b)
  <2>1. PiecesOf(s) = unpack_array8(s)
    BY <1>4 DEF PiecesOf, StoresArray
  <2> QED
    BY <1>4, <2>1, UnpackArrayFacts
<1>5. CASE StoresStruct(elements, s, a, b)
  <2>1. PiecesOf(s) = Pieces(StructWords(elements, s)) /\ WordsFit(elements, StructWords(elements, s), a, b)
    BY <1>5 DEF PiecesOf, StoresStruct
  <2> QED
    BY <2>1, PiecesFacts
<1> QED
  BY <1>2, <1>3, <1>4, <1>5 DEF Stores

\* A statement of unpack_from reads the places of the elements it stores.
LEMMA UnpackStatementKeeps ==
  ASSUME IInv, Placed(class), UnpackStatement
  PROVE  IInv'
<1> PICK s : s = Statement
  OBVIOUS
<1> PICK short : short = (s.op = "struct" /\ StructEnd(s) > size)
  OBVIOUS
<1>1. /\ phase = "unpack" /\ todo # <<>> /\ Step(short)
      /\ Assigns(IF short THEN {} ELSE PiecesOf(s))
      /\ UNCHANGED <<image, size, spoilt>>
  BY DEF UnpackStatement
<1>2. PICK n : Unpacking(class, odd, n, todo, image, size, spoilt, got)
  BY <1>1 DEF IInv
<1> PICK a : a = Lo(class)[n + 1]
  OBVIOUS
<1> PICK b : b = Hi(class)[n + 1]
  OBVIOUS
<1>3. elements = Elements(class)
  BY DEF IInv
<1>4. n \in 0..Len(Code(class)) /\ todo = Rest(class, n)
      /\ ImageRight(class, odd, Len(Code(class)), image, size, spoilt) /\ GotRight(class, n, image, got)
  BY <1>2 DEF Unpacking
<1>5. /\ n \in Nat /\ n + 1 \in 1..Len(Code(class)) /\ s = Code(class)[n + 1]
      /\ Stores(class, elements, s, a, b) /\ Chain(elements)
      /\ a \in 1..Len(elements) /\ b \in 1..Len(elements) /\ a <= b
  BY <1>1, <1>3, <1>4, CurrentStatement
<1>6. class' = class /\ elements' = elements /\ odd' = odd
  BY <1>1 DEF Step
<1>7. class' \in DOMAIN Structs /\ elements' = Elements(class') /\ odd' \in {Nothing} \cup OddOnes'
      /\ Contained(odd', spoilt')
  BY <1>1, <1>6 DEF IInv, OddOnes
<1>8. CASE short
  <2>1. phase' = "raised" /\ todo' = <<>> /\ got' = got
    BY <1>1, <1>8 DEF Step, Assigns
  <2>2. StoresStruct(elements, s, a, b)
    BY <1>5, <1>8 DEF Stores, StoresObject, StoresBytes, StoresArray
  <2> PICK end : end = StructEnd(s)
    OBVIOUS
  <2>3. end \in Nat /\ 8 * end = Elements(class)[b].at + Elements(class)[b].bits /\ end > size
    BY <1>3, <1>8, <2>2 DEF StoresStruct
  <2>4. odd # Nothing
    BY <2>3, <1>3, <1>4, <1>5, OddFacts, ShortMeansOdd
  <2>5. Len(Code(class)) \in 0..Len(Code(class))
    BY StatementFacts
  <2>6. Raised(class', odd', Len(Code(class)), n, todo', image', size', spoilt', got')
    BY <1>1, <1>4, <1>6, <2>1, <2>4, <2>5 DEF Raised
  <2> QED
    BY <1>7, <2>1, <2>6 DEF IInv
<1>9. CASE ~short
  <2>1. phase' = "unpack" /\ todo' = Rest(class, n + 1)
    <3>1. Tail(todo) = Rest(class, n + 1)
      BY <1>1, <1>4, RestFacts
    <3> QED
      BY <1>1, <1>9, <3>1 DEF Step
  <2>2. PiecesOf(s) = {Place(elements[l]) : l \in a..b}
    BY <1>5, PiecesOfFacts
  <2>3. \A p : Read(p) = ReadOf(image, p)
    BY DEF Read, ReadOf
  <2>4. got' = got \cup {<<p.of, ReadOf(image, p)>> : p \in PiecesOf(s)}
    BY <1>1, <1>9, <2>3 DEF Assigns
  <2>5. \A l : <<Place(elements[l]).of, ReadOf(image, Place(elements[l]))>> = Gives(image, Elements(class)[l])
    BY <1>3 DEF Gives, Place, Piece, Key
  <2>6. ASSUME NEW x \in got'
        PROVE  \E i \in 1..Len(Elements(class)) : x = Gives(image, Elements(class)[i])
    <3>1. CASE x \in got
      BY <1>4, <3>1 DEF GotRight
    <3>2. CASE x \notin got
      <4>1. PICK l \in a..b : x = <<Place(elements[l]).of, ReadOf(image, Place(elements[l]))>>
        BY <3>2, <2>2, <2>4
      <4>2. l \in 1..Len(Elements(class))
        BY <1>3, <1>5, ChainTypes
      <4> QED
        BY <4>1, <4>2, <2>5
    <3> QED
      BY <3>1, <3>2
  <2>7. ASSUME NEW i \in 1..Len(Elements(class)), Stored(class, n + 1, i)
        PROVE  Gives(image, Elements(class)[i]) \in got'
    <3>1. CASE Stored(class, n, i)
      BY <1>4, <3>1, <2>4 DEF GotRight
    <3>2. CASE i \in a..b
      <4>1. <<Place(elements[i]).of, ReadOf(image, Place(elements[i]))>> \in got'
        BY <3>2, <2>2, <2>4
      <4> QED
        BY <4>1, <2>5
    <3> QED
      BY <2>7, <3>1, <3>2, <1>5, StoredNext
  <2>8. GotRight(class, n + 1, image, got')
    BY <2>6, <2>7 DEF GotRight
  <2>9. n + 1 \in 0..Len(Code(class))
    BY <1>5
  <2>10. Unpacking(class', odd', n + 1, todo', image', size', spoilt', got')
    BY <1>1, <1>4, <1>6, <2>1, <2>8, <2>9 DEF Unpacking
  <2> QED
    BY <1>7, <2>1, <2>10 DEF IInv
<1> QED
  BY <1>8, <1>9

-----------------------------------------------------------------------------
(* The invariant of every table of placed classes, and what it implies.    *)

\* Every class has a division of its statements.
AllPlaced == \A c \in DOMAIN Structs : Placed(c)

LEMMA BinStructInit ==
  ASSUME AllPlaced, Init
  PROVE  IInv
<1>1. /\ class \in DOMAIN Structs /\ elements = Elements(class) /\ odd \in {Nothing} \cup OddOnes
      /\ phase = "pack" /\ todo = Code(class) /\ image = {} /\ size = Structs[class].length
      /\ spoilt = {} /\ got = {} /\ Placed(class)
  BY DEF Init, AllPlaced, Elements, Code
<1>2. 0 \in 0..Len(Code(class))
  BY <1>1, StatementFacts
<1>3. todo = Rest(class, 0)
  BY <1>1, <1>2, RestFacts
<1>4. ImageRight(class, odd, 0, image, size, spoilt)
  BY <1>1, NothingStored DEF ImageRight, OnlyStored, AllStored, Sized
<1>5. Packing(class, odd, 0, todo, image, size, spoilt, got)
  BY <1>1, <1>2, <1>3, <1>4 DEF Packing
<1> QED
  BY <1>1, <1>5 DEF IInv, Contained

\* Every step keeps the invariant.
LEMMA BinStructStep ==
  ASSUME AllPlaced, IInv, [Next]_vars
  PROVE  IInv'
<1>1. Placed(class)
  BY DEF IInv, AllPlaced
<1>2. CASE PackObject
  BY <1>1, <1>2, PackObjectKeeps
<1>3. CASE PackBytes
  BY <1>1, <1>3, PackBytesKeeps
<1>4. CASE PackArray
  BY <1>1, <1>4, PackArrayKeeps
<1>5. CASE PackStruct
  BY <1>1, <1>5, PackStructKeeps
<1>6. CASE StartUnpack
  BY <1>1, <1>6, StartUnpackKeeps
<1>7. CASE UnpackStatement
  BY <1>1, <1>7, UnpackStatementKeeps
<1>8. CASE UNCHANGED vars
  <2>1. UNCHANGED <<class, elements, odd, phase, todo, image, size, spoilt, got>>
    BY <1>8 DEF vars
  <2> QED
    BY <2>1 DEF IInv, OddOnes
<1> QED
  BY <1>2, <1>3, <1>4, <1>5, <1>6, <1>7, <1>8 DEF Next

\* The inductive invariant holds of every placed table of classes.
LEMMA BinStructInvariant ==
  ASSUME AllPlaced
  PROVE  Spec => []IInv
<1>1. Init => IInv
  BY BinStructInit
<1>2. IInv /\ [Next]_vars => IInv'
  BY BinStructStep
<1> QED
  BY <1>1, <1>2, PTL DEF Spec

\* A set is as large as what a function that tells its elements apart makes of it.
LEMMA SameSize ==
  ASSUME NEW S, IsFiniteSet(S), NEW f, f = [x \in S |-> f[x]], \A x, y \in S : f[x] = f[y] => x = y
  PROVE  Cardinality({f[x] : x \in S}) = Cardinality(S)
<1> DEFINE T == {f[x] : x \in S}
<1>1. f \in Bijection(S, T)
  <2>1. f \in [S -> T] /\ IsInjective(f) /\ \A t \in T : \E s \in S : f[s] = t
    BY DEF IsInjective
  <2> QED
    BY <2>1 DEF Bijection, Injection, Surjection
<1>2. ExistsBijection(S, T)
  BY <1>1 DEF ExistsBijection
<1> QED
  BY <1>2, FS_Bijection

\* A class has finitely many elements, and finitely many of anything there is one of each.
LEMMA FiniteElements ==
  ASSUME NEW c, Placed(c), NEW f, NEW S, \A x \in S : \E i \in 1..Len(Elements(c)) : x = f[i]
  PROVE  IsFiniteSet(S)
<1> DEFINE I == 1..Len(Elements(c))
           T == {f[i] : i \in I}
           g == [i \in I |-> f[i]]
<1>1. IsFiniteSet(I)
  <2>1. 1 \in Int /\ Len(Elements(c)) \in Int
    BY ElementFacts
  <2> QED
    BY <2>1, FS_Interval
<1>2. g \in Surjection(I, T)
  BY DEF Surjection
<1>3. IsFiniteSet(T)
  BY <1>1, <1>2, FS_Surjection
<1>4. S \in SUBSET T
  OBVIOUS
<1> QED
  BY <1>3, <1>4, FS_Subset

\* Whatever the phase, the buffer is right for some of the statements.
LEMMA SomeImage ==
  ASSUME AllPlaced, IInv
  PROVE  /\ Placed(class) /\ class \in DOMAIN Structs /\ elements = Elements(class) /\ odd.by \in {-1, 0, 1}
         /\ \E n, m : ImageRight(class, odd, n, image, size, spoilt) /\ GotRight(class, m, image, got)
         /\ phase \in {"pack", "unpack", "raised"} /\ odd \in {Nothing} \cup OddOnes
<1>1. Placed(class) /\ class \in DOMAIN Structs /\ elements = Elements(class)
      /\ odd \in {Nothing} \cup OddOnes /\ odd.by \in {-1, 0, 1}
  BY OddFacts DEF IInv, AllPlaced
<1>2. CASE phase = "pack"
  <2>1. PICK n : ImageRight(class, odd, n, image, size, spoilt) /\ got = {}
    BY <1>2 DEF IInv, Packing
  <2>2. GotRight(class, 0, image, got)
    BY <2>1, NothingStored DEF GotRight
  <2> QED
    BY <1>1, <1>2, <2>1, <2>2
<1>3. CASE phase = "unpack"
  BY <1>1, <1>3 DEF IInv, Unpacking
<1>4. CASE phase = "raised"
  BY <1>1, <1>4 DEF IInv, Raised
<1> QED
  BY <1>2, <1>3, <1>4 DEF IInv

\* What the invariant implies: the properties checked of BinStruct.
LEMMA ImpliesTypeOK ==
  ASSUME AllPlaced, IInv
  PROVE  TypeOK
<1> PICK E : E = Elements(class)
  OBVIOUS
<1>1. /\ Placed(class) /\ class \in DOMAIN Structs /\ elements = E /\ odd.by \in {-1, 0, 1}
      /\ phase \in {"pack", "unpack", "raised"} /\ odd \in {Nothing} \cup OddOnes
  BY SomeImage
<1>2. PICK n, m : ImageRight(class, odd, n, image, size, spoilt) /\ GotRight(class, m, image, got)
  BY SomeImage
<1>3. Chain(E) /\ Len(E) \in Nat /\ DOMAIN E = 1..Len(E)
      /\ \A i \in 1..Len(E) : E[i].at \in Nat
  BY <1>1, ElementFacts, ChainTypes
<1>4. \A p \in image : \E i \in 1..Len(E) : p = PieceFor(class, odd, E[i]) /\ End(p) <= 8 * size
  BY <1>2 DEF ImageRight, OnlyStored
<1>5. \A i \in 1..Len(E) : LET p == PieceFor(class, odd, E[i]) IN p.at = E[i].at /\ p.of = Key(E[i])
  BY DEF PieceFor, Piece, Key
<1>6. \A p \in image : p.at >= 0 /\ End(p) <= 8 * size
  <2> TAKE p \in image
  <2>1. PICK i \in 1..Len(E) : p = PieceFor(class, odd, E[i]) /\ End(p) <= 8 * size
    BY <1>4
  <2>2. p.at = E[i].at /\ E[i].at \in Nat
    BY <2>1, <1>3, <1>5
  <2> QED
    BY <2>1, <2>2
<1>7. {p.of : p \in image} \subseteq {<<e.m, e.k>> : e \in ToSet(elements)}
  <2> SUFFICES ASSUME NEW p \in image PROVE p.of \in {<<e.m, e.k>> : e \in ToSet(elements)}
    OBVIOUS
  <2>1. PICK i \in 1..Len(E) : p = PieceFor(class, odd, E[i])
    BY <1>4
  <2>2. E[i] \in ToSet(elements)
    BY <1>1, <1>3 DEF ToSet
  <2> QED
    BY <2>1, <2>2, <1>5 DEF Key
<1>8. Cardinality({p.of : p \in image}) = Cardinality(image)
  <2> DEFINE f == [p \in image |-> p.of]
             h == [i \in 1..Len(E) |-> PieceFor(class, odd, E[i])]
  <2>1. \A p \in image : \E i \in 1..Len(E) : p = h[i]
    BY <1>4
  <2> HIDE DEF h
  <2>2. IsFiniteSet(image)
    BY <2>1, <1>1, FiniteElements
  <2>3. ASSUME NEW p \in image, NEW q \in image, p.of = q.of PROVE p = q
    <3>1. PICK i \in 1..Len(E) : p = PieceFor(class, odd, E[i])
      BY <1>4
    <3>2. PICK j \in 1..Len(E) : q = PieceFor(class, odd, E[j])
      BY <1>4
    <3>3. Key(E[i]) = Key(E[j])
      BY <2>3, <3>1, <3>2, <1>5
    <3>4. i = j
      BY <3>3, <1>3 DEF Chain
    <3> QED
      BY <3>1, <3>2, <3>4
  <2>4. \A p \in image : f[p] = p.of
    OBVIOUS
  <2>5. f = [p \in image |-> f[p]]
    OBVIOUS
  <2> HIDE DEF f
  <2>6. \A p, q \in image : f[p] = f[q] => p = q
    BY <2>3, <2>4
  <2>7. Cardinality({f[p] : p \in image}) = Cardinality(image)
    BY <2>2, <2>5, <2>6, SameSize
  <2>8. {f[p] : p \in image} = {p.of : p \in image}
    BY <2>4
  <2> QED
    BY <2>7, <2>8
<1>9. Cardinality({g[1] : g \in got}) = Cardinality(got)
  <2> DEFINE f == [x \in got |-> x[1]]
             h == [i \in 1..Len(E) |-> Gives(image, E[i])]
  <2>1. \A x \in got : \E i \in 1..Len(E) : x = h[i]
    BY <1>2 DEF GotRight
  <2>2. \A i \in 1..Len(E) : h[i][1] = Key(E[i])
    BY DEF Gives
  <2> HIDE DEF h
  <2>3. IsFiniteSet(got)
    BY <2>1, <1>1, FiniteElements
  <2>4. ASSUME NEW x \in got, NEW y \in got, x[1] = y[1] PROVE x = y
    <3>1. PICK i \in 1..Len(E) : x = h[i]
      BY <2>1
    <3>2. PICK j \in 1..Len(E) : y = h[j]
      BY <2>1
    <3>3. i = j
      BY <2>2, <2>4, <3>1, <3>2, <1>3 DEF Chain
    <3> QED
      BY <3>1, <3>2, <3>3
  <2>5. \A x \in got : f[x] = x[1]
    OBVIOUS
  <2>6. f = [x \in got |-> f[x]]
    OBVIOUS
  <2> HIDE DEF f
  <2>7. \A x, y \in got : f[x] = f[y] => x = y
    BY <2>4, <2>5
  <2>8. Cardinality({f[x] : x \in got}) = Cardinality(got)
    BY <2>3, <2>6, <2>7, SameSize
  <2>9. {f[x] : x \in got} = {x[1] : x \in got}
    BY <2>5
  <2> QED
    BY <2>8, <2>9
<1> QED
  BY <1>1, <1>6, <1>7, <1>8, <1>9 DEF TypeOK

\* Together the statements store every element.
LEMMA AllAreStored ==
  ASSUME NEW c, Placed(c), NEW i \in 1..Len(Elements(c))
  PROVE  Stored(c, Len(Code(c)), i)
BY DivisionFacts DEF Divided, Stored

\* Once all is packed, each element is at its place.
LEMMA ImpliesInTheirPlaces ==
  ASSUME AllPlaced, IInv
  PROVE  InTheirPlaces
<1>1. ASSUME Packed
      PROVE  /\ \A e \in ToSet(elements) : IsOdd(e) \/ Piece(e.at, e.bits, e) \in image
             /\ Total([i \in DOMAIN elements |-> elements[i].bits]) = 8 * Structs[class].length
             /\ size # Structs[class].length => odd # Nothing /\ IsData(Members(class)[odd.m])
  <2> PICK E : E = Elements(class)
    OBVIOUS
  <2>1. Placed(class) /\ elements = E /\ odd.by \in {-1, 0, 1}
    BY SomeImage
  <2>2. PICK m : Unpacking(class, odd, m, todo, image, size, spoilt, got)
    BY <1>1 DEF IInv, Packed
  <2>3. ImageRight(class, odd, Len(Code(class)), image, size, spoilt)
    BY <2>2 DEF Unpacking
  <2>4. ASSUME NEW e \in ToSet(elements) PROVE IsOdd(e) \/ Piece(e.at, e.bits, e) \in image
    <3>1. PICK i \in 1..Len(E) : e = E[i]
      BY <2>1, ElementFacts, ChainTypes DEF ToSet
    <3>2. Place(E[i]) \in image \/ OddOne(odd, E[i])
      BY <2>1, <2>3, AllAreStored DEF ImageRight, AllStored
    <3> QED
      BY <3>1, <3>2 DEF Place, OddOne, IsOdd
  <2>5. Total([i \in DOMAIN elements |-> elements[i].bits]) = 8 * Structs[class].length
    BY <2>1 DEF Placed
  <2> QED
    BY <2>1, <2>3, <2>4, <2>5, SizeFacts
<1>2. phase = "raised" => odd # Nothing
  BY DEF IInv, Raised
<1> QED
  BY <1>1, <1>2 DEF InTheirPlaces

\* The place of an element in a right image holds that element.
LEMMA ReadFacts ==
  ASSUME NEW c, Placed(c), NEW o, NEW n, NEW img, NEW sz, NEW sp, ImageRight(c, o, n, img, sz, sp),
         NEW i \in 1..Len(Elements(c)), Place(Elements(c)[i]) \in img
  PROVE  Gives(img, Elements(c)[i]) = <<Key(Elements(c)[i]), Key(Elements(c)[i])>>
<1> PICK E : E = Elements(c)
  OBVIOUS
<1> PICK p : p = Place(E[i])
  OBVIOUS
<1>1. p.at = E[i].at /\ p.of = Key(E[i]) /\ p \in img
  BY DEF Place, Piece, Key
<1>2. ASSUME NEW q \in img, q.at = p.at PROVE q.of = Key(E[i])
  <2>1. PICK j \in 1..Len(E) : q = PieceFor(c, o, E[j])
    BY DEF ImageRight, OnlyStored
  <2>2. q.at = E[j].at /\ q.of = Key(E[j])
    BY <2>1 DEF PieceFor, Piece, Key
  <2>3. E[i].at = E[j].at /\ Chain(E) /\ Len(E) \in Nat
        /\ E[i].at \in Nat /\ E[i].bits \in Nat \ {0} /\ E[j].at \in Nat /\ E[j].bits \in Nat \ {0}
    BY <1>1, <1>2, <2>2, ElementFacts
  <2>4. ~(i < j)
    <3>1. i < j => E[i].at + E[i].bits <= E[j].at
      BY <2>3 DEF Chain
    <3> QED
      BY <2>3, <3>1
  <2>5. ~(j < i)
    <3>1. j < i => E[j].at + E[j].bits <= E[i].at
      BY <2>3 DEF Chain
    <3> QED
      BY <2>3, <3>1
  <2>6. i = j
    BY <2>3, <2>4, <2>5
  <2> QED
    BY <2>2, <2>6
<1>3. ReadOf(img, p) = (CHOOSE q \in img : q.at = p.at /\ q.bits = p.bits).of
  BY <1>1 DEF ReadOf
<1>4. PICK q : q = CHOOSE r \in img : r.at = p.at /\ r.bits = p.bits
  OBVIOUS
<1>5. q \in img /\ q.at = p.at
  BY <1>1, <1>4
<1> QED
  BY <1>2, <1>3, <1>4, <1>5 DEF Gives

\* Once all is unpacked, each element has been read from its own place.
LEMMA ImpliesRoundTrips ==
  ASSUME AllPlaced, IInv
  PROVE  RoundTrips
<1> SUFFICES ASSUME Unpacked, NEW e \in ToSet(elements)
             PROVE  <<e.m, e.k>> \in spoilt \/ <<<<e.m, e.k>>, <<e.m, e.k>>>> \in got
  BY ZenonT(30) DEF RoundTrips
<1> PICK E : E = Elements(class)
  OBVIOUS
<1>1. Placed(class) /\ elements = E
  BY SomeImage
<1>2. PICK m : Unpacking(class, odd, m, todo, image, size, spoilt, got)
  BY DEF IInv, Unpacked
<1>3. ImageRight(class, odd, Len(Code(class)), image, size, spoilt) /\ GotRight(class, m, image, got)
  BY <1>2 DEF Unpacking
<1>4. m = Len(Code(class))
  BY <1>1, <1>2, RestFacts DEF Unpacking, Unpacked
<1>5. PICK i \in 1..Len(E) : e = E[i]
  BY <1>1, ElementFacts, ChainTypes DEF ToSet
<1>6. Place(E[i]) \in image \/ Key(E[i]) \in spoilt
  BY <1>1, <1>3, AllAreStored DEF ImageRight, AllStored
<1>7. Gives(image, E[i]) \in got
  BY <1>1, <1>3, <1>4, AllAreStored DEF GotRight
<1>8. CASE Place(E[i]) \in image
  <2>1. Gives(image, E[i]) = <<Key(E[i]), Key(E[i])>>
    BY <1>1, <1>3, <1>8, ReadFacts
  <2> QED
    BY <2>1, <1>5, <1>7 DEF Key
<1> QED
  BY <1>5, <1>6, <1>8 DEF Key

\* The invariant says what is spoilt.
LEMMA ImpliesSpoilsOnlyItsMember ==
  ASSUME IInv
  PROVE  SpoilsOnlyItsMember
BY DEF IInv, Contained, SpoilsOnlyItsMember

-----------------------------------------------------------------------------
(* From here to the theorems: what mkstructs.py generates for a well-formed class is*)
(* placed.  First members, where they end and how many elements they have. *)

\* What WellFormed says of the members, and the number of elements before each.
GoodMembers(M) ==
    /\ M \in Seq([bits : Nat \ {0}, count : Nat \ {0}, class : STRING])
    /\ Ends(M)[Len(M)] % 32 = 0
    /\ \A m \in 1..Len(M) :
        /\ isObject(M[m]) => /\ Length(M[m].class) \in Nat
                             /\ M[m].bits = 8 * Length(M[m].class)
                             /\ M[m].count > 1 => m = Len(M)
        /\ M[m].count > 1 /\ ~isObject(M[m]) => M[m].bits \in {1, 2, 4, 8, 16, 32, 64}
        /\ Apart(M, m) \/ (~isObject(M[m]) /\ M[m].count = 1 /\ M[m].bits <= 64)
Counts(M) == Sums([i \in DOMAIN M |-> Entries(M[i])])
Width(x) == lenBits(x) \div Entries(x)

LEMMA WellFormedMembers ==
  ASSUME NEW c, WellFormed(c)
  PROVE  GoodMembers(Members(c)) /\ Structs[c].length \in Nat
         /\ Ends(Members(c))[Len(Members(c))] = 8 * Structs[c].length
<1> PICK M : M = Members(c)
  OBVIOUS
<1>1. /\ Structs[c].length \in Nat
      /\ M \in Seq([bits : Nat \ {0}, count : Nat \ {0}, class : STRING])
      /\ Ends(M)[Len(M)] = 8 * Structs[c].length
      /\ Structs[c].length % 4 = 0
      /\ \A m \in DOMAIN M :
            /\ isObject(M[m]) => /\ Length(M[m].class) \in Nat
                                 /\ M[m].bits = 8 * Length(M[m].class)
                                 /\ M[m].count > 1 => m = Len(M)
            /\ M[m].count > 1 /\ ~isObject(M[m]) => M[m].bits \in {1, 2, 4, 8, 16, 32, 64}
            /\ Apart(M, m) \/ (~isObject(M[m]) /\ M[m].count = 1 /\ M[m].bits <= 64)
  BY DEF WellFormed
<1>2. DOMAIN M = 1..Len(M)
  BY <1>1
<1>3. Ends(M)[Len(M)] % 32 = 0
  <2> PICK n : n = Structs[c].length
    OBVIOUS
  <2>1. n \in Nat /\ n % 4 = 0
    BY <1>1
  <2>2. (8 * n) % 32 = 0
    BY <2>1
  <2> QED
    BY <1>1, <2>2
<1> QED
  BY <1>1, <1>2, <1>3, ZenonT(30) DEF GoodMembers

\* A product divided by one of its factors.
LEMMA MulDiv ==
  ASSUME NEW a \in Nat \ {0}, NEW b \in Nat \ {0}
  PROVE  a * b \in Nat \ {0} /\ (a * b) \div b = a
<1>1. a * b \in Nat \ {0}
  OBVIOUS
<1>2. (a * b) \div b = a
  OBVIOUS
<1> QED
  BY <1>1, <1>2

\* The width of a member, and of its entries.
LEMMA MemberFacts ==
  ASSUME NEW M, GoodMembers(M), NEW m \in 1..Len(M)
  PROVE  /\ M[m].bits \in Nat \ {0} /\ M[m].count \in Nat \ {0}
         /\ lenBits(M[m]) \in Nat \ {0} /\ Entries(M[m]) \in Nat \ {0}
         /\ Width(M[m]) \in Nat \ {0} /\ lenBits(M[m]) = Entries(M[m]) * Width(M[m])
         /\ IsData(M[m]) => Width(M[m]) = lenBits(M[m]) /\ Entries(M[m]) = 1
         /\ ~IsData(M[m]) => Width(M[m]) = M[m].bits /\ Entries(M[m]) = M[m].count
<1> PICK x : x = M[m]
  OBVIOUS
<1>1. x.bits \in Nat \ {0} /\ x.count \in Nat \ {0}
  <2> DEFINE S == [bits : Nat \ {0}, count : Nat \ {0}, class : STRING]
  <2>0. M \in Seq(S)
    BY DEF GoodMembers
  <2>1. \A R : M \in Seq(R) => M[m] \in R
    OBVIOUS
  <2>2. x \in S
    BY <2>0, <2>1
  <2> QED
    BY <2>2
<1>2. lenBits(x) \in Nat \ {0} /\ (x.bits * x.count) \div x.count = x.bits
  BY <1>1, MulDiv DEF lenBits
<1>3. CASE IsData(x)
  <2>1. Entries(x) = 1
    BY <1>3 DEF Entries
  <2>2. Width(x) = lenBits(x)
    BY <1>2, <2>1 DEF Width
  <2>3. lenBits(x) = 1 * lenBits(x)
    BY <1>2
  <2> QED
    BY <1>1, <1>2, <1>3, <2>1, <2>2, <2>3
<1>4. CASE ~IsData(x)
  <2>1. Entries(x) = x.count
    BY <1>4 DEF Entries
  <2>2. Width(x) = x.bits
    BY <1>2, <2>1 DEF Width, lenBits
  <2>3. lenBits(x) = x.count * x.bits
    BY <1>1 DEF lenBits
  <2> QED
    BY <1>1, <1>2, <1>4, <2>1, <2>2, <2>3
<1> QED
  BY <1>3, <1>4

\* The members are a sequence.
LEMMA MembersLen ==
  ASSUME NEW M, GoodMembers(M)
  PROVE  Len(M) \in Nat /\ DOMAIN M = 1..Len(M)
BY DEF GoodMembers

\* The totals of positive numbers grow.
LEMMA SumsGrow ==
  ASSUME NEW s, Len(s) \in Nat, \A i \in 1..Len(s) : s[i] \in Nat \ {0}
  PROVE  /\ \A i \in 0..Len(s) : Sums(s)[i] \in Nat
         /\ \A i, j \in 0..Len(s) : i < j => Sums(s)[i] < Sums(s)[j]
<1> PICK n : n = Len(s)
  OBVIOUS
<1> PICK S : S = Sums(s)
  OBVIOUS
<1>1. S[0] = 0 /\ (\A i \in 1..n : S[i] = S[i - 1] + s[i]) /\ (\A i \in 0..n : S[i] \in Int)
  BY SumsFacts
<1> DEFINE T == {j \in Nat : j <= n => /\ S[j] \in Nat
                                       /\ \A i \in 0..n : i < j => S[i] < S[j]}
<1>2. 0 \in T
  BY <1>1
<1>3. ASSUME NEW j \in Nat, j \in T PROVE j + 1 \in T
  <2> SUFFICES ASSUME j + 1 <= n
               PROVE  S[j + 1] \in Nat /\ \A i \in 0..n : i < j + 1 => S[i] < S[j + 1]
    OBVIOUS
  <2>1. j + 1 \in 1..n /\ (j + 1) - 1 = j /\ j <= n
    OBVIOUS
  <2>2. S[j + 1] = S[j] + s[j + 1] /\ s[j + 1] \in Nat \ {0} /\ S[j] \in Nat
    BY <1>1, <1>3, <2>1
  <2>3. S[j] < S[j + 1] /\ S[j + 1] \in Nat
    BY <2>2
  <2>4. ASSUME NEW i \in 0..n, i < j + 1 PROVE S[i] < S[j + 1]
    <3>1. i = j \/ i < j
      BY <2>4
    <3>2. i < j => S[i] < S[j]
      BY <1>3, <2>1
    <3>3. S[i] \in Int
      BY <1>1
    <3> QED
      BY <2>2, <2>3, <3>1, <3>2, <3>3
  <2> QED
    BY <2>3, <2>4
<1>4. Nat \subseteq T
  BY <1>2, <1>3, SetInduction
<1> QED
  BY <1>4

\* Every number up to the total lies in one of the stretches.
LEMMA SumsLocate ==
  ASSUME NEW s, Len(s) \in Nat, \A i \in 1..Len(s) : s[i] \in Nat \ {0},
         NEW x \in 1..Sums(s)[Len(s)]
  PROVE  \E m \in 1..Len(s) : Sums(s)[m - 1] < x /\ x <= Sums(s)[m]
<1> PICK n : n = Len(s)
  OBVIOUS
<1> PICK S : S = Sums(s)
  OBVIOUS
<1>1. S[0] = 0 /\ (\A i \in 0..n : S[i] \in Nat)
  BY SumsFacts, SumsGrow
<1> DEFINE T == {j \in Nat : j <= n /\ x <= S[j] => \E m \in 1..n : S[m - 1] < x /\ x <= S[m]}
<1>2. 0 \in T
  BY <1>1
<1>3. ASSUME NEW j \in Nat, j \in T PROVE j + 1 \in T
  <2> SUFFICES ASSUME j + 1 <= n, x <= S[j + 1]
               PROVE  \E m \in 1..n : S[m - 1] < x /\ x <= S[m]
    OBVIOUS
  <2>1. j + 1 \in 1..n /\ (j + 1) - 1 = j /\ j <= n
    OBVIOUS
  <2>2. CASE x <= S[j]
    BY <1>3, <2>1, <2>2
  <2>3. CASE ~(x <= S[j])
    <3>1. S[j] < x
      BY <1>1, <2>1, <2>3
    <3> QED
      BY <2>1, <3>1
  <2> QED
    BY <2>2, <2>3
<1>4. Nat \subseteq T
  BY <1>2, <1>3, SetInduction
<1>5. n \in Nat /\ x <= S[n]
  BY <1>1
<1> QED
  BY <1>4, <1>5

\* Members end one behind the other.
LEMMA EndsFacts ==
  ASSUME NEW M, GoodMembers(M)
  PROVE  /\ Ends(M)[0] = 0
         /\ \A m \in 0..Len(M) : Ends(M)[m] \in Nat
         /\ \A m \in 1..Len(M) : Ends(M)[m] = Ends(M)[m - 1] + lenBits(M[m])
         /\ \A i, j \in 0..Len(M) : i < j => Ends(M)[i] < Ends(M)[j]
<1> PICK s : s = [i \in DOMAIN M |-> lenBits(M[i])]
  OBVIOUS
<1>1. Len(M) \in Nat /\ DOMAIN M = 1..Len(M)
  BY MembersLen
<1>2. Len(s) = Len(M) /\ \A i \in 1..Len(M) : s[i] = lenBits(M[i])
  BY <1>1
<1>3. \A i \in 1..Len(M) : lenBits(M[i]) \in Nat \ {0}
  BY MemberFacts
<1>4. Ends(M) = Sums(s)
  BY DEF Ends
<1>5. \A i \in 1..Len(s) : s[i] \in Nat \ {0}
  BY <1>2, <1>3
<1>6. Len(s) \in Nat /\ \A i \in 1..Len(s) : s[i] \in Int
  BY <1>1, <1>2, <1>5
<1> QED
  BY <1>2, <1>4, <1>5, <1>6, SumsFacts, SumsGrow

\* The elements are counted member by member, and each is in one.
LEMMA CountsFacts ==
  ASSUME NEW M, GoodMembers(M)
  PROVE  /\ Counts(M)[0] = 0
         /\ \A m \in 0..Len(M) : Counts(M)[m] \in Nat
         /\ \A m \in 1..Len(M) : Counts(M)[m] = Counts(M)[m - 1] + Entries(M[m])
         /\ \A i, j \in 0..Len(M) : i < j => Counts(M)[i] < Counts(M)[j]
         /\ \A x \in 1..Counts(M)[Len(M)] :
                \E m \in 1..Len(M) : Counts(M)[m - 1] < x /\ x <= Counts(M)[m]
<1> PICK s : s = [i \in DOMAIN M |-> Entries(M[i])]
  OBVIOUS
<1>1. Len(M) \in Nat /\ DOMAIN M = 1..Len(M)
  BY MembersLen
<1>2. Len(s) = Len(M) /\ \A i \in 1..Len(M) : s[i] = Entries(M[i])
  BY <1>1
<1>3. \A i \in 1..Len(M) : Entries(M[i]) \in Nat \ {0}
  BY MemberFacts
<1>4. Counts(M) = Sums(s)
  BY DEF Counts
<1>5. \A i \in 1..Len(s) : s[i] \in Nat \ {0}
  BY <1>2, <1>3
<1>6. Len(s) \in Nat /\ \A i \in 1..Len(s) : s[i] \in Int
  BY <1>1, <1>2, <1>5
<1>7. \A x \in 1..Sums(s)[Len(s)] : \E m \in 1..Len(s) : Sums(s)[m - 1] < x /\ x <= Sums(s)[m]
  BY <1>5, <1>6, SumsLocate
<1> QED
  BY <1>2, <1>4, <1>5, <1>6, <1>7, SumsFacts, SumsGrow

-----------------------------------------------------------------------------
(* The elements of a member list.                                          *)

\* The elements of one member, and the elements of the first m members.
EntriesOf(M, m) == [i \in 1..Entries(M[m]) |-> Element(M, m, i - 1)]
ElementsTo(M, m, es) ==
    /\ es \in Seq(ElementSet) /\ Len(es) = Counts(M)[m]
    /\ \A x \in 1..m : \A k \in 0..(Entries(M[x]) - 1) :
          /\ Counts(M)[x - 1] + k + 1 \in 1..Len(es)
          /\ es[Counts(M)[x - 1] + k + 1] = Element(M, x, k)

LEMMA ElementFields ==
  ASSUME NEW M, GoodMembers(M), NEW m \in 1..Len(M), NEW k \in 0..(Entries(M[m]) - 1)
  PROVE  /\ Element(M, m, k).m = m /\ Element(M, m, k).k = k /\ Element(M, m, k).bits = Width(M[m])
         /\ Element(M, m, k).at = Ends(M)[m - 1] + k * Width(M[m])
         /\ k * Width(M[m]) \in Nat
         /\ Element(M, m, k) \in ElementSet
<1>1. /\ Element(M, m, k) = [m |-> m, k |-> k, bits |-> Width(M[m]),
                             at |-> Ends(M)[m - 1] + k * Width(M[m])]
  BY DEF Element, Width, Offset
<1>2. Width(M[m]) \in Nat \ {0} /\ k \in Nat /\ m \in Nat \ {0} /\ m - 1 \in 0..Len(M)
  BY MemberFacts, MembersLen
<1>3. Ends(M)[m - 1] \in Nat
  BY <1>2, EndsFacts
<1> PICK w : w = Width(M[m])
  OBVIOUS
<1> PICK o : o = Ends(M)[m - 1]
  OBVIOUS
<1>4. k * w \in Nat /\ o + k * w \in Nat
  BY <1>2, <1>3
<1> QED
  BY <1>1, <1>2, <1>4 DEF ElementSet

\* Where the items of two sequences are in their concatenation.
LEMMA ConcatIndex ==
  ASSUME NEW S, NEW s \in Seq(S), NEW t \in Seq(S)
  PROVE  /\ s \o t \in Seq(S) /\ Len(s \o t) = Len(s) + Len(t)
         /\ \A i \in 1..Len(s) : (s \o t)[i] = s[i]
         /\ \A i \in 1..Len(t) : (s \o t)[Len(s) + i] = t[i]
OBVIOUS

\* The elements of one more member.
LEMMA AddMember ==
  ASSUME NEW M, GoodMembers(M), NEW m \in Nat, m + 1 <= Len(M), NEW es, ElementsTo(M, m, es)
  PROVE  ElementsTo(M, m + 1, es \o EntriesOf(M, m + 1))
<1> PICK n : n = Len(es)
  OBVIOUS
<1> PICK cnt : cnt = Entries(M[m + 1])
  OBVIOUS
<1> PICK t : t = EntriesOf(M, m + 1)
  OBVIOUS
<1> PICK new : new = es \o t
  OBVIOUS
<1>1. m + 1 \in 1..Len(M) /\ m \in 0..Len(M) /\ (m + 1) - 1 = m /\ Len(M) \in Nat
  BY MembersLen
<1>2. cnt \in Nat \ {0}
  BY <1>1, MemberFacts
<1>3. es \in Seq(ElementSet) /\ n \in Nat /\ n = Counts(M)[m] /\ Counts(M)[m + 1] = n + cnt
  BY <1>1, CountsFacts DEF ElementsTo
<1>4. t \in Seq(ElementSet) /\ Len(t) = cnt /\ \A i \in 1..cnt : t[i] = Element(M, m + 1, i - 1)
  <2>1. \A i \in 1..cnt : Element(M, m + 1, i - 1) \in ElementSet
    <3>1. \A i \in 1..cnt : i - 1 \in 0..(cnt - 1)
      BY <1>2
    <3> QED
      BY <3>1, <1>1, ElementFields
  <2>2. t = [i \in 1..cnt |-> Element(M, m + 1, i - 1)]
    BY DEF EntriesOf
  <2>3. t \in [1..cnt -> ElementSet] /\ \A i \in 1..cnt : t[i] = Element(M, m + 1, i - 1)
    BY <2>1, <2>2
  <2>4. \A S, f : f \in [1..cnt -> S] => f \in Seq(S)
    BY <1>2, SeqDef, Zenon
  <2>5. \A f : DOMAIN f = 1..cnt /\ f \in Seq(ElementSet) => Len(f) = cnt
    BY <1>2
  <2> QED
    BY <2>3, <2>4, <2>5
<1>5. /\ new \in Seq(ElementSet) /\ Len(new) = n + cnt
      /\ \A i \in 1..n : new[i] = es[i]
      /\ \A i \in 1..cnt : new[n + i] = t[i]
  <2>1. t \in Seq(ElementSet) /\ es \in Seq(ElementSet) /\ Len(t) = cnt
    BY <1>3, <1>4
  <2> QED
    BY <2>1, ConcatIndex
<1>6. ASSUME NEW x \in 1..(m + 1), NEW k \in 0..(Entries(M[x]) - 1)
      PROVE  /\ Counts(M)[x - 1] + k + 1 \in 1..Len(new)
             /\ new[Counts(M)[x - 1] + k + 1] = Element(M, x, k)
  <2>1. CASE x = m + 1
    <3>0. x - 1 = m /\ Counts(M)[x - 1] = n /\ k \in 0..(cnt - 1)
      BY <2>1, <1>1, <1>3
    <3>1. Counts(M)[x - 1] = n /\ k + 1 \in 1..cnt /\ (k + 1) - 1 = k /\ n + k + 1 = n + (k + 1)
          /\ n + (k + 1) \in 1..(n + cnt)
      <4>1. n \in Nat /\ cnt \in Nat \ {0} /\ k \in Nat /\ k <= cnt - 1
        BY <3>0, <1>2, <1>3
      <4> QED
        BY <3>0, <4>1
    <3>2. new[n + (k + 1)] = Element(M, x, k)
      BY <3>1, <2>1, <1>4, <1>5
    <3> QED
      BY <3>1, <3>2, <1>5
  <2>2. CASE x \in 1..m
    <3> PICK i : i = Counts(M)[x - 1] + k + 1
      OBVIOUS
    <3>1. i \in 1..n /\ es[i] = Element(M, x, k)
      BY <2>2 DEF ElementsTo
    <3>2. i \in 1..(n + cnt)
      BY <3>1, <1>2, <1>3
    <3> QED
      BY <3>1, <3>2, <1>5
  <2> QED
    BY <2>1, <2>2
<1> QED
  BY <1>3, <1>5, <1>6 DEF ElementsTo

\* The elements of a member list, one for each entry of each member.
LEMMA ElementsOfFacts ==
  ASSUME NEW M, GoodMembers(M)
  PROVE  ElementsTo(M, Len(M), ElementsOf(M))
<1> DEFINE With(m, x) == x \o EntriesOf(M, m)
           Adds(n, f) == f = [m \in 0..n |-> IF m = 0 THEN <<>> ELSE With(m, f[m - 1])]
           S == {n \in Nat : \E f : Adds(n, f)}
<1> HIDE DEF With
<1>1. 0 \in S
  <2> DEFINE f == [m \in {0} |-> <<>>]
  <2>1. Adds(0, f)
    OBVIOUS
  <2> QED
    BY <2>1
<1>2. ASSUME NEW n \in Nat, n \in S PROVE n + 1 \in S
  <2>1. PICK f : Adds(n, f)
    BY <1>2
  <2> DEFINE next == With(n + 1, f[n])
             g == [m \in 0..(n + 1) |-> IF m = n + 1 THEN next ELSE f[m]]
  <2>2. /\ \A m \in 0..n : g[m] = f[m]
        /\ g[n + 1] = next
        /\ \A m \in 0..(n + 1) : m # n + 1 => m \in 0..n
        /\ \A m \in 0..n : m # 0 => m - 1 \in 0..n
        /\ n + 1 # 0 /\ n + 1 - 1 = n /\ n \in 0..n
    OBVIOUS
  <2>3. \A m \in 0..n : f[m] = IF m = 0 THEN <<>> ELSE With(m, f[m - 1])
    BY <2>1
  <2>4. \A m \in 0..(n + 1) : g[m] = IF m = 0 THEN <<>> ELSE With(m, g[m - 1])
    <3> HIDE DEF g
    <3> TAKE m \in 0..(n + 1)
    <3>1. CASE m = n + 1
      <4>1. g[m - 1] = f[n]
        BY <2>2, <3>1
      <4> QED
        BY <2>2, <3>1, <4>1
    <3>2. CASE m \in 0..n
      BY <2>2, <2>3, <3>2
    <3> QED
      BY <2>2, <3>1, <3>2
  <2>5. Adds(n + 1, g)
    <3>1. g = [m \in 0..(n + 1) |-> g[m]]
      OBVIOUS
    <3> HIDE DEF g
    <3> QED
      BY <2>4, <3>1, Zenon
  <2> HIDE DEF g
  <2>6. \E h : Adds(n + 1, h)
    <3> HIDE DEF Adds
    <3> QED
      BY <2>5
  <2> QED
    BY <2>6
<1>3. Nat \subseteq S
  BY <1>1, <1>2, SetInduction
<1> DEFINE es == CHOOSE f : Adds(Len(M), f)
<1>4. Len(M) \in Nat
  BY MembersLen
<1>5. Adds(Len(M), es)
  BY <1>3, <1>4
<1>6. ElementsOf(M) = es[Len(M)]
  BY DEF ElementsOf, EntriesOf, With
<1> HIDE DEF es
<1>7. es[0] = <<>> /\ \A m \in 1..Len(M) : es[m] = es[m - 1] \o EntriesOf(M, m)
  <2>1. es[0] = <<>> /\ \A m \in 1..Len(M) : es[m] = With(m, es[m - 1])
    BY <1>4, <1>5
  <2> QED
    BY <2>1 DEF With
<1> DEFINE T == {m \in Nat : m <= Len(M) => ElementsTo(M, m, es[m])}
<1>8. 0 \in T
  <2>1. Counts(M)[0] = 0 /\ 1..0 = {}
    BY CountsFacts
  <2>2. <<>> \in Seq(ElementSet) /\ Len(<<>>) = 0
    OBVIOUS
  <2>3. ElementsTo(M, 0, <<>>)
    BY <2>1, <2>2 DEF ElementsTo
  <2> QED
    BY <1>7, <2>3
<1>9. ASSUME NEW m \in Nat, m \in T PROVE m + 1 \in T
  <2> SUFFICES ASSUME m + 1 <= Len(M) PROVE ElementsTo(M, m + 1, es[m + 1])
    OBVIOUS
  <2>1. m <= Len(M) /\ m + 1 \in 1..Len(M) /\ (m + 1) - 1 = m
    BY <1>4
  <2>2. es[m + 1] = es[m] \o EntriesOf(M, m + 1)
    BY <1>7, <2>1
  <2>3. ElementsTo(M, m, es[m])
    BY <1>9, <2>1
  <2> QED
    BY <2>2, <2>3, AddMember
<1>10. Nat \subseteq T
  BY <1>8, <1>9, SetInduction
<1> QED
  BY <1>4, <1>6, <1>10

\* The bit behind an element, and its index among the elements.
Stop(e) == e.at + e.bits
Index(M, m, k) == Counts(M)[m - 1] + k + 1

LEMMA ElementStop ==
  ASSUME NEW M, GoodMembers(M), NEW m \in 1..Len(M), NEW k \in 0..(Entries(M[m]) - 1)
  PROVE  /\ k + 1 \in 0..(Entries(M[m]) - 1) => Stop(Element(M, m, k)) = Element(M, m, k + 1).at
         /\ k + 1 = Entries(M[m]) => Stop(Element(M, m, k)) = Ends(M)[m]
         /\ k = 0 => Element(M, m, k).at = Ends(M)[m - 1]
<1> PICK w : w = Width(M[m])
  OBVIOUS
<1> PICK o : o = Ends(M)[m - 1]
  OBVIOUS
<1> PICK n : n = Entries(M[m])
  OBVIOUS
<1>1. w \in Nat \ {0} /\ lenBits(M[m]) = n * w /\ n \in Nat \ {0} /\ k \in Nat
  BY MemberFacts
<1>2. o \in Nat /\ Ends(M)[m] = o + n * w
  <2>1. m - 1 \in 0..Len(M)
    BY MembersLen
  <2> QED
    BY <2>1, <1>1, EndsFacts
<1>3. Element(M, m, k).at = o + k * w /\ Stop(Element(M, m, k)) = o + k * w + w
  BY ElementFields DEF Stop
<1>4. k + 1 \in 0..(n - 1) => Element(M, m, k + 1).at = o + (k + 1) * w
  BY ElementFields
<1>5. (k + 1) * w = k * w + w /\ k * w \in Nat
  BY <1>1
<1>6. k = 0 => k * w = 0
  BY <1>1
<1> PICK p : p = k * w
  OBVIOUS
<1>7. o + k * w + w = o + (k + 1) * w
  <2>1. o + p + w = o + (p + w)
    <3>1. p \in Nat /\ o \in Nat /\ w \in Nat
      BY <1>1, <1>2, <1>5
    <3> QED
      BY <3>1
  <2> QED
    BY <2>1, <1>5
<1>8. k + 1 = n => o + k * w + w = o + n * w
  BY <1>7
<1>9. k = 0 => o + k * w = o
  BY <1>2, <1>6
<1> QED
  BY <1>2, <1>3, <1>4, <1>7, <1>8, <1>9

\* Every element is an entry of a member, and every entry is one.
LEMMA EntryAt ==
  ASSUME NEW M, GoodMembers(M), NEW E, E = ElementsOf(M),
         NEW m \in 1..Len(M), NEW k \in 0..(Entries(M[m]) - 1)
  PROVE  Index(M, m, k) \in 1..Len(E) /\ E[Index(M, m, k)] = Element(M, m, k)
BY ElementsOfFacts DEF ElementsTo, Index

\* Every element is an entry of a member.
LEMMA ElementAt ==
  ASSUME NEW M, GoodMembers(M), NEW E, E = ElementsOf(M), NEW i \in 1..Len(E)
  PROVE  /\ E[i].m \in 1..Len(M) /\ E[i].k \in 0..(Entries(M[E[i].m]) - 1)
         /\ E[i] = Element(M, E[i].m, E[i].k) /\ i = Index(M, E[i].m, E[i].k)
         /\ E[i].bits = Width(M[E[i].m])
<1>1. Len(E) = Counts(M)[Len(M)] /\ i \in 1..Counts(M)[Len(M)]
  BY ElementsOfFacts DEF ElementsTo
<1>2. PICK m \in 1..Len(M) : Counts(M)[m - 1] < i /\ i <= Counts(M)[m]
  BY <1>1, CountsFacts
<1>3. m - 1 \in 0..Len(M) /\ m \in 0..Len(M)
  BY MembersLen
<1>4. Counts(M)[m - 1] \in Nat /\ Counts(M)[m] = Counts(M)[m - 1] + Entries(M[m]) /\ Entries(M[m]) \in Nat
  BY <1>3, CountsFacts, MemberFacts
<1> PICK base : base = Counts(M)[m - 1]
  OBVIOUS
<1> PICK k : k = i - base - 1
  OBVIOUS
<1>5. k \in 0..(Entries(M[m]) - 1) /\ i = base + k + 1
  BY <1>2, <1>4
<1>6. i = Index(M, m, k)
  BY <1>5 DEF Index
<1>7. E[i] = Element(M, m, k)
  BY <1>5, <1>6, EntryAt
<1>8. E[i].m = m /\ E[i].k = k /\ E[i].bits = Width(M[m])
  <2>1. Element(M, m, k).m = m /\ Element(M, m, k).k = k /\ Element(M, m, k).bits = Width(M[m])
    BY <1>5, ElementFields
  <2> QED
    BY <1>7, <2>1
<1> QED
  BY <1>5, <1>6, <1>7, <1>8

\* The types of the elements.
LEMMA ElementsTyped ==
  ASSUME NEW M, GoodMembers(M), NEW E, E = ElementsOf(M)
  PROVE  /\ E \in Seq(ElementSet) /\ Len(E) \in Nat /\ DOMAIN E = 1..Len(E)
         /\ \A i \in 1..Len(E) : /\ E[i].m \in Nat \ {0} /\ E[i].k \in Nat
                                 /\ E[i].bits \in Nat \ {0} /\ E[i].at \in Nat
                                 /\ Stop(E[i]) \in Nat
<1>1. E \in Seq(ElementSet)
  BY ElementsOfFacts DEF ElementsTo
<1>2. Len(E) \in Nat /\ DOMAIN E = 1..Len(E) /\ \A i \in 1..Len(E) : E[i] \in ElementSet
  BY <1>1
<1>3. \A e \in ElementSet : e.m \in Nat \ {0} /\ e.k \in Nat /\ e.bits \in Nat \ {0} /\ e.at \in Nat
  BY DEF ElementSet
<1>4. \A e \in ElementSet : Stop(e) \in Nat
  BY <1>3 DEF Stop
<1> QED
  BY <1>1, <1>2, <1>3, <1>4

\* The element behind an entry is the next entry of its member, or the first of the
\* next member; and it begins where that one stops.
LEMMA EntrySuccessor ==
  ASSUME NEW M, GoodMembers(M), NEW E, E = ElementsOf(M),
         NEW m \in 1..Len(M), NEW k \in 0..(Entries(M[m]) - 1), NEW i \in 1..Len(E), i = Index(M, m, k)
  PROVE  /\ k + 1 \in 1..Entries(M[m])
         /\ k + 1 < Entries(M[m]) =>
              /\ i + 1 \in 1..Len(E) /\ E[i + 1].m = m /\ E[i + 1].k = k + 1
              /\ Stop(Element(M, m, k)) = E[i + 1].at
         /\ k + 1 = Entries(M[m]) =>
              /\ Stop(Element(M, m, k)) = Ends(M)[m]
              /\ i = Counts(M)[m]
              /\ m = Len(M) => i = Len(E)
              /\ m # Len(M) => /\ i + 1 \in 1..Len(E) /\ m + 1 \in 1..Len(M)
                               /\ E[i + 1].m = m + 1 /\ E[i + 1].k = 0
                               /\ Stop(Element(M, m, k)) = E[i + 1].at
<1>1. Len(M) \in Nat /\ Len(E) \in Nat /\ Entries(M[m]) \in Nat \ {0}
  BY MembersLen, ElementsTyped, MemberFacts
<1>2. m - 1 \in 0..Len(M) /\ m \in 0..Len(M)
  BY <1>1
<1>3. Counts(M)[m - 1] \in Nat /\ Counts(M)[m] = Counts(M)[m - 1] + Entries(M[m])
      /\ Len(E) = Counts(M)[Len(M)]
  BY <1>2, CountsFacts, ElementsOfFacts DEF ElementsTo
<1>4. i = Counts(M)[m - 1] + k + 1
  BY DEF Index
<1>5. k + 1 \in 1..Entries(M[m]) /\ k \in Nat
  BY <1>1
<1>6. ASSUME k + 1 < Entries(M[m])
      PROVE  /\ i + 1 \in 1..Len(E) /\ E[i + 1].m = m /\ E[i + 1].k = k + 1
             /\ Stop(Element(M, m, k)) = E[i + 1].at
  <2>1. k + 1 \in 0..(Entries(M[m]) - 1)
    BY <1>1, <1>6
  <2>2. Index(M, m, k + 1) = i + 1
    BY <1>3, <1>4, <1>5 DEF Index
  <2>3. i + 1 \in 1..Len(E) /\ E[i + 1] = Element(M, m, k + 1)
    BY <2>1, <2>2, EntryAt
  <2>4. Element(M, m, k + 1).m = m /\ Element(M, m, k + 1).k = k + 1
    BY <2>1, ElementFields
  <2>5. Stop(Element(M, m, k)) = Element(M, m, k + 1).at
    BY <2>1, ElementStop
  <2> QED
    BY <2>3, <2>4, <2>5
<1>7. ASSUME k + 1 = Entries(M[m])
      PROVE  /\ Stop(Element(M, m, k)) = Ends(M)[m]
             /\ i = Counts(M)[m]
  <2>1. i = Counts(M)[m]
    BY <1>3, <1>4, <1>5, <1>7
  <2> QED
    BY <2>1, <1>7, ElementStop
<1>8. ASSUME k + 1 = Entries(M[m]), m # Len(M)
      PROVE  /\ i + 1 \in 1..Len(E) /\ m + 1 \in 1..Len(M)
             /\ E[i + 1].m = m + 1 /\ E[i + 1].k = 0
             /\ Stop(Element(M, m, k)) = E[i + 1].at
  <2>1. m + 1 \in 1..Len(M) /\ (m + 1) - 1 = m
    BY <1>1, <1>8
  <2>2. 0 \in 0..(Entries(M[m + 1]) - 1)
    BY <2>1, MemberFacts
  <2>3. Index(M, m + 1, 0) = i + 1
    BY <2>1, <1>1, <1>7, <1>8 DEF Index
  <2>4. i + 1 \in 1..Len(E) /\ E[i + 1] = Element(M, m + 1, 0)
    BY <2>1, <2>2, <2>3, EntryAt
  <2>5. Element(M, m + 1, 0).m = m + 1 /\ Element(M, m + 1, 0).k = 0
    BY <2>1, <2>2, ElementFields
  <2>6. Element(M, m + 1, 0).at = Ends(M)[(m + 1) - 1]
    BY <2>1, <2>2, ElementStop
  <2> QED
    BY <2>1, <2>4, <2>5, <2>6, <1>7, <1>8
<1> QED
  BY <1>3, <1>5, <1>6, <1>7, <1>8

\* What comes behind an element: the next entry, or the first one of the next member.
LEMMA Successor ==
  ASSUME NEW M, GoodMembers(M), NEW E, E = ElementsOf(M), NEW i \in 1..Len(E)
  PROVE  /\ E[i].k + 1 \in 1..Entries(M[E[i].m])
         /\ E[i].k + 1 < Entries(M[E[i].m]) =>
              i + 1 \in 1..Len(E) /\ E[i + 1].m = E[i].m /\ E[i + 1].k = E[i].k + 1
         /\ E[i].k + 1 = Entries(M[E[i].m]) =>
              /\ Stop(E[i]) = Ends(M)[E[i].m]
              /\ i = Counts(M)[E[i].m]
              /\ E[i].m = Len(M) => i = Len(E)
              /\ E[i].m # Len(M) => /\ i + 1 \in 1..Len(E) /\ E[i].m + 1 \in 1..Len(M)
                                    /\ E[i + 1].m = E[i].m + 1 /\ E[i + 1].k = 0
         /\ i + 1 <= Len(E) => Stop(E[i]) = E[i + 1].at
<1>1. PICK m, k : m = E[i].m /\ k = E[i].k
  OBVIOUS
<1>2. m \in 1..Len(M) /\ k \in 0..(Entries(M[m]) - 1) /\ E[i] = Element(M, m, k) /\ i = Index(M, m, k)
  BY <1>1, ElementAt
<1>3. k + 1 \in 1..Entries(M[m]) /\ Entries(M[m]) \in Nat /\ Len(E) \in Nat
  BY <1>2, MemberFacts, ElementsTyped
<1>4. /\ k + 1 < Entries(M[m]) =>
              /\ i + 1 \in 1..Len(E) /\ E[i + 1].m = m /\ E[i + 1].k = k + 1
              /\ Stop(E[i]) = E[i + 1].at
      /\ k + 1 = Entries(M[m]) =>
              /\ Stop(E[i]) = Ends(M)[m]
              /\ i = Counts(M)[m]
              /\ m = Len(M) => i = Len(E)
              /\ m # Len(M) => /\ i + 1 \in 1..Len(E) /\ m + 1 \in 1..Len(M)
                               /\ E[i + 1].m = m + 1 /\ E[i + 1].k = 0
                               /\ Stop(E[i]) = E[i + 1].at
  BY <1>2, EntrySuccessor
<1>5. i + 1 <= Len(E) => Stop(E[i]) = E[i + 1].at
  <2>1. k + 1 < Entries(M[m]) \/ k + 1 = Entries(M[m])
    BY <1>3
  <2>2. i = Len(E) => ~(i + 1 <= Len(E))
    BY <1>3
  <2> QED
    BY <2>1, <2>2, <1>4
<1> QED
  BY <1>1, <1>3, <1>4, <1>5

\* The first element is the first entry of the first member.
LEMMA FirstElement ==
  ASSUME NEW M, GoodMembers(M), NEW E, E = ElementsOf(M), Len(E) # 0
  PROVE  1 \in 1..Len(E) /\ E[1].m = 1 /\ E[1].k = 0 /\ E[1].at = 0
<1>1. Len(E) \in Nat /\ 1 \in 1..Len(E)
  BY ElementsTyped
<1>2. Len(M) \in Nat /\ Len(M) # 0
  <2>1. Len(E) = Counts(M)[Len(M)] /\ Counts(M)[0] = 0
    BY ElementsOfFacts, CountsFacts DEF ElementsTo
  <2> QED
    BY <2>1, MembersLen
<1>3. 1 \in 1..Len(M) /\ 1 - 1 = 0
  BY <1>2
<1>4. 0 \in 0..(Entries(M[1]) - 1)
  BY <1>3, MemberFacts
<1>5. Index(M, 1, 0) = 1
  BY <1>3, CountsFacts DEF Index
<1>6. E[1] = Element(M, 1, 0)
  BY <1>3, <1>4, <1>5, EntryAt
<1>7. Element(M, 1, 0).at = Ends(M)[0]
  <2>1. Element(M, 1, 0).at = Ends(M)[1 - 1]
    BY <1>3, <1>4, ElementStop
  <2> QED
    BY <2>1, <1>3
<1>8. Element(M, 1, 0).m = 1 /\ Element(M, 1, 0).k = 0
  BY <1>3, <1>4, ElementFields
<1>9. Ends(M)[0] = 0
  BY EndsFacts
<1> QED
  BY <1>1, <1>6, <1>7, <1>8, <1>9

\* The last one ends where the members do.
LEMMA LastElement ==
  ASSUME NEW M, GoodMembers(M), NEW E, E = ElementsOf(M), NEW i \in 1..Len(E), i = Len(E)
  PROVE  Stop(E[i]) = Ends(M)[Len(M)] /\ E[i].m = Len(M) /\ E[i].k + 1 = Entries(M[Len(M)])
<1>1. Len(E) \in Nat /\ ~(i + 1 \in 1..Len(E))
  BY ElementsTyped
<1>2. E[i].k + 1 \in 1..Entries(M[E[i].m]) /\ E[i].m \in 1..Len(M)
  BY Successor, ElementAt
<1>3. ~(E[i].k + 1 < Entries(M[E[i].m]))
  BY <1>1, Successor
<1>4. Entries(M[E[i].m]) \in Nat
  BY <1>2, MemberFacts
<1>5. E[i].k + 1 = Entries(M[E[i].m])
  BY <1>2, <1>3, <1>4
<1> QED
  BY <1>1, <1>5, Successor

\* Elements lie in the order of their indices.
LEMMA InOrder ==
  ASSUME NEW M, GoodMembers(M), NEW E, E = ElementsOf(M), NEW i \in 1..Len(E), NEW j \in 1..Len(E), i < j
  PROVE  Stop(E[i]) <= E[j].at /\ Stop(E[i]) < Stop(E[j])
<1> DEFINE T == {x \in Nat : i + 1 + x <= Len(E) => Stop(E[i]) <= E[i + 1 + x].at}
<1>1. Len(E) \in Nat /\ \A x \in 1..Len(E) : E[x].at \in Nat /\ E[x].bits \in Nat \ {0} /\ Stop(E[x]) \in Nat
  BY ElementsTyped
<1>2. 0 \in T
  <2>1. i + 1 + 0 = i + 1
    BY <1>1
  <2>2. i + 1 <= Len(E) => Stop(E[i]) = E[i + 1].at /\ i + 1 \in 1..Len(E)
    BY <1>1, Successor
  <2> QED
    BY <2>1, <2>2, <1>1
<1>3. ASSUME NEW x \in Nat, x \in T PROVE x + 1 \in T
  <2> SUFFICES ASSUME i + 1 + (x + 1) <= Len(E) PROVE Stop(E[i]) <= E[i + 1 + (x + 1)].at
    OBVIOUS
  <2> PICK y : y = i + 1 + x
    OBVIOUS
  <2>1. y \in 1..Len(E) /\ y + 1 \in 1..Len(E) /\ y + 1 = i + 1 + (x + 1) /\ y <= Len(E)
    BY <1>1
  <2>2. Stop(E[i]) <= E[y].at
    BY <1>3, <2>1
  <2>3. Stop(E[y]) = E[y + 1].at
    BY <2>1, Successor
  <2>4. E[y].at <= Stop(E[y])
    BY <2>1, <1>1 DEF Stop
  <2>5. Stop(E[i]) <= E[y + 1].at
    BY <2>1, <2>2, <2>3, <2>4, <1>1
  <2> QED
    BY <2>1, <2>5
<1>4. Nat \subseteq T
  BY <1>2, <1>3, SetInduction
<1> PICK x : x = j - i - 1
  OBVIOUS
<1>5. x \in Nat /\ i + 1 + x = j /\ j <= Len(E)
  BY <1>1
<1>6. Stop(E[i]) <= E[j].at
  BY <1>4, <1>5
<1>7. E[j].at < Stop(E[j])
  BY <1>1 DEF Stop
<1> QED
  BY <1>1, <1>6, <1>7

\* The elements lie one behind the other.
LEMMA ElementsChain ==
  ASSUME NEW M, GoodMembers(M), NEW E, E = ElementsOf(M)
  PROVE  Chain(E)
<1>1. E \in Seq(ElementSet) /\ Len(E) \in Nat
  BY ElementsTyped
<1>2. ASSUME NEW i \in 1..Len(E), NEW j \in 1..Len(E)
      PROVE  /\ i < j => E[i].at + E[i].bits <= E[j].at
             /\ j = i + 1 => E[i].at + E[i].bits = E[j].at
             /\ Key(E[i]) = Key(E[j]) => i = j
  <2>1. i < j => E[i].at + E[i].bits <= E[j].at
    BY InOrder DEF Stop
  <2>2. j = i + 1 => E[i].at + E[i].bits = E[j].at
    <3>1. i + 1 \in 1..Len(E) => i + 1 <= Len(E)
      BY <1>1
    <3> QED
      BY <3>1, Successor DEF Stop
  <2>3. Key(E[i]) = Key(E[j]) => i = j
    BY ElementAt DEF Key
  <2> QED
    BY <2>1, <2>2, <2>3
<1> QED
  BY <1>1, <1>2 DEF Chain

\* Together the elements are as wide as the members.
LEMMA ElementsTotal ==
  ASSUME NEW M, GoodMembers(M), NEW E, E = ElementsOf(M)
  PROVE  /\ Total([i \in DOMAIN E |-> E[i].bits]) = Ends(M)[Len(M)]
         /\ \A i \in 1..Len(E) : Stop(E[i]) <= Ends(M)[Len(M)]
<1> PICK s : s = [i \in DOMAIN E |-> E[i].bits]
  OBVIOUS
<1> PICK n : n = Len(E)
  OBVIOUS
<1>1. /\ n \in Nat /\ DOMAIN E = 1..n
      /\ \A x \in 1..n : E[x].at \in Nat /\ E[x].bits \in Nat \ {0} /\ Stop(E[x]) \in Nat
  BY ElementsTyped
<1>2. Len(s) = n /\ \A x \in 1..n : s[x] = E[x].bits
  BY <1>1
<1>3. Sums(s)[0] = 0 /\ \A x \in 1..n : Sums(s)[x] = Sums(s)[x - 1] + s[x]
  <2>1. Len(s) \in Nat /\ \A x \in 1..Len(s) : s[x] \in Int
    BY <1>1, <1>2
  <2> QED
    BY <2>1, <1>2, SumsFacts
<1> DEFINE T == {x \in Nat : x \in 1..n => Sums(s)[x] = Stop(E[x])}
<1>4. 0 \in T
  OBVIOUS
<1>5. ASSUME NEW x \in Nat, x \in T PROVE x + 1 \in T
  <2> SUFFICES ASSUME x + 1 \in 1..n PROVE Sums(s)[x + 1] = Stop(E[x + 1])
    OBVIOUS
  <2>1. Sums(s)[x + 1] = Sums(s)[x] + E[x + 1].bits
    <3>1. (x + 1) - 1 = x
      OBVIOUS
    <3> QED
      BY <3>1, <1>2, <1>3
  <2>2. CASE x = 0
    <3>1. E[x + 1].at = 0 /\ Sums(s)[x] = 0
      <4>1. x + 1 = 1 /\ n # 0
        BY <2>2, <1>1
      <4> QED
        BY <4>1, <2>2, <1>3, FirstElement
    <3> QED
      BY <2>1, <3>1, <1>1 DEF Stop
  <2>3. CASE x # 0
    <3>1. x \in 1..n /\ x + 1 <= n
      BY <2>3, <1>1
    <3>2. Sums(s)[x] = Stop(E[x]) /\ Stop(E[x]) = E[x + 1].at
      BY <3>1, <1>5, Successor
    <3> QED
      BY <2>1, <3>2 DEF Stop
  <2> QED
    BY <2>2, <2>3
<1>6. Nat \subseteq T
  BY <1>4, <1>5, SetInduction
<1>7. Total(s) = Sums(s)[n]
  BY <1>2 DEF Total
<1>8. CASE n = 0
  <2>1. Len(M) = 0
    <3>0. Counts(M)[0] = 0 /\ Counts(M)[Len(M)] = 0
      BY <1>8, CountsFacts, ElementsOfFacts DEF ElementsTo
    <3>1. Counts(M)[0] = 0 /\ Counts(M)[Len(M)] = 0 /\ Len(M) \in 0..Len(M) /\ 0 \in 0..Len(M)
      BY <3>0, MembersLen
    <3>2. ~(0 < Len(M))
      BY <3>1, CountsFacts
    <3> QED
      BY <3>2, MembersLen
  <2>2. Ends(M)[0] = 0
    BY EndsFacts
  <2> QED
    BY <1>3, <1>7, <1>8, <2>1, <2>2
<1>9. CASE n # 0
  <2>1. n \in 1..n
    BY <1>1, <1>9
  <2>2. Sums(s)[n] = Stop(E[n]) /\ Stop(E[n]) = Ends(M)[Len(M)]
    BY <2>1, <1>1, <1>6, LastElement
  <2>3. ASSUME NEW i \in 1..n PROVE Stop(E[i]) <= Stop(E[n])
    <3>1. i = n \/ i < n
      BY <1>1
    <3>2. i < n => Stop(E[i]) < Stop(E[n])
      BY <2>1, InOrder
    <3> QED
      BY <3>1, <3>2, <2>1, <1>1
  <2> QED
    BY <1>7, <2>2, <2>3
<1> QED
  BY <1>8, <1>9

-----------------------------------------------------------------------------
(* Groups: the members between two word bounds.                            *)

\* A word ends behind the member x.
Bound(M, x) == Ends(M)[x] % 32 = 0
Last1(M, m) == CHOOSE i \in groupMB(M, m) : \A j \in groupMB(M, m) : j <= i

LEMMA GroupMember ==
  ASSUME NEW M, GoodMembers(M), NEW m \in 1..Len(M), NEW i
  PROVE  i \in groupMB(M, m) <=> /\ i \in 1..Len(M)
                                 /\ \A x \in Int : (i <= x /\ x < m) \/ (m <= x /\ x < i) => ~Bound(M, x)
<1>1. Len(M) \in Nat /\ DOMAIN M = 1..Len(M)
  BY MembersLen
<1>2. i \in groupMB(M, m) <=> i \in 1..Len(M) /\ \A j \in (i..(m - 1)) \cup (m..(i - 1)) : ~Bound(M, j)
  BY <1>1 DEF groupMB, Bound
<1>3. ASSUME i \in 1..Len(M), NEW x
      PROVE  x \in (i..(m - 1)) \cup (m..(i - 1)) <=>
               x \in Int /\ ((i <= x /\ x < m) \/ (m <= x /\ x < i))
  BY <1>1, <1>3
<1> QED
  BY <1>2, <1>3

\* A group is the members between two word bounds, the same for each of them.
LEMMA GroupFacts ==
  ASSUME NEW M, GoodMembers(M), NEW m \in 1..Len(M)
  PROVE  /\ m \in groupMB(M, m)
         /\ \A i \in groupMB(M, m) : i \in 1..Len(M) /\ groupMB(M, i) = groupMB(M, m)
         /\ \A i \in groupMB(M, m) : \A x \in Int : (i <= x /\ x <= m) \/ (m <= x /\ x <= i)
                => x \in groupMB(M, m)
         /\ m = Len(M) \/ m + 1 \notin groupMB(M, m) => Bound(M, m)
         /\ m = 1 \/ m - 1 \notin groupMB(M, m) => Bound(M, m - 1)
<1>1. Len(M) \in Nat /\ m \in Int
  BY MembersLen
<1>2. m \in groupMB(M, m)
  BY <1>1, GroupMember
<1>3. ASSUME NEW i \in groupMB(M, m) PROVE i \in 1..Len(M) /\ groupMB(M, i) = groupMB(M, m)
  <2>1. i \in 1..Len(M) /\ \A x \in Int : (i <= x /\ x < m) \/ (m <= x /\ x < i) => ~Bound(M, x)
    BY GroupMember
  <2>2. ASSUME NEW j \in 1..Len(M)
        PROVE  (\A x \in Int : (j <= x /\ x < m) \/ (m <= x /\ x < j) => ~Bound(M, x))
                  <=> (\A x \in Int : (j <= x /\ x < i) \/ (i <= x /\ x < j) => ~Bound(M, x))
    <3>1. ASSUME \A x \in Int : (j <= x /\ x < m) \/ (m <= x /\ x < j) => ~Bound(M, x),
                 NEW x \in Int, (j <= x /\ x < i) \/ (i <= x /\ x < j)
          PROVE  ~Bound(M, x)
      <4>1. \/ (j <= x /\ x < m) \/ (m <= x /\ x < j)
            \/ (i <= x /\ x < m) \/ (m <= x /\ x < i)
        BY <2>1, <3>1, <1>1
      <4> QED
        BY <4>1, <2>1, <3>1
    <3>2. ASSUME \A x \in Int : (j <= x /\ x < i) \/ (i <= x /\ x < j) => ~Bound(M, x),
                 NEW x \in Int, (j <= x /\ x < m) \/ (m <= x /\ x < j)
          PROVE  ~Bound(M, x)
      <4>1. \/ (j <= x /\ x < i) \/ (i <= x /\ x < j)
            \/ (i <= x /\ x < m) \/ (m <= x /\ x < i)
        BY <2>1, <3>2, <1>1
      <4> QED
        BY <4>1, <2>1, <3>2
    <3> QED
      BY <3>1, <3>2
  <2>3. \A j : j \in groupMB(M, m) <=> j \in groupMB(M, i)
    BY <2>1, <2>2, GroupMember
  <2> QED
    BY <2>1, <2>3
<1>4. ASSUME NEW i \in groupMB(M, m), NEW x \in Int, (i <= x /\ x <= m) \/ (m <= x /\ x <= i)
      PROVE  x \in groupMB(M, m)
  <2>1. i \in 1..Len(M) /\ \A y \in Int : (i <= y /\ y < m) \/ (m <= y /\ y < i) => ~Bound(M, y)
    BY GroupMember
  <2>2. x \in 1..Len(M)
    BY <2>1, <1>1, <1>4
  <2>3. ASSUME NEW y \in Int, (x <= y /\ y < m) \/ (m <= y /\ y < x) PROVE ~Bound(M, y)
    <3>1. (i <= y /\ y < m) \/ (m <= y /\ y < i)
      BY <2>1, <2>2, <2>3, <1>1, <1>4
    <3> QED
      BY <2>1, <3>1
  <2> QED
    BY <2>2, <2>3, GroupMember
<1>5. m = Len(M) \/ m + 1 \notin groupMB(M, m) => Bound(M, m)
  <2>1. m = Len(M) => Bound(M, m)
    BY DEF GoodMembers, Bound
  <2>2. ASSUME m # Len(M), ~Bound(M, m) PROVE m + 1 \in groupMB(M, m)
    <3>1. m + 1 \in 1..Len(M)
      BY <1>1, <2>2
    <3>2. \A x \in Int : (m + 1 <= x /\ x < m) \/ (m <= x /\ x < m + 1) => x = m
      BY <1>1
    <3> QED
      BY <2>2, <3>1, <3>2, GroupMember
  <2> QED
    BY <2>1, <2>2
<1>6. m = 1 \/ m - 1 \notin groupMB(M, m) => Bound(M, m - 1)
  <2>1. m = 1 => Bound(M, m - 1)
    <3>1. Ends(M)[0] = 0 /\ 0 % 32 = 0 /\ 1 - 1 = 0
      BY EndsFacts
    <3> QED
      BY <3>1 DEF Bound
  <2>2. ASSUME m # 1, ~Bound(M, m - 1) PROVE m - 1 \in groupMB(M, m)
    <3>1. m - 1 \in 1..Len(M)
      BY <1>1, <2>2
    <3>2. \A x \in Int : (m - 1 <= x /\ x < m) \/ (m <= x /\ x < m - 1) => x = m - 1
      BY <1>1
    <3> QED
      BY <2>2, <3>1, <3>2, GroupMember
  <2> QED
    BY <2>1, <2>2
<1> QED
  BY <1>2, <1>3, <1>4, <1>5, <1>6

\* The members of a group are packed alike.
LEMMA ApartShared ==
  ASSUME NEW M, GoodMembers(M), NEW m \in 1..Len(M), NEW i \in groupMB(M, m)
  PROVE  Apart(M, i) <=> Apart(M, m)
<1>1. groupMB(M, i) = groupMB(M, m) /\ i \in groupMB(M, m) /\ m \in groupMB(M, m)
  BY GroupFacts
<1>2. groupMB(M, m) = {m} => i = m
  BY <1>1
<1>3. groupMB(M, m) = {i} => i = m
  BY <1>1
<1> QED
  BY <1>1, <1>2, <1>3 DEF Apart

\* A group has a last member.
LEMMA GroupLast ==
  ASSUME NEW M, GoodMembers(M), NEW m \in 1..Len(M)
  PROVE  /\ Last1(M, m) \in groupMB(M, m) /\ Last1(M, m) \in 1..Len(M) /\ m <= Last1(M, m)
         /\ \A j \in groupMB(M, m) : j <= Last1(M, m)
         /\ Bound(M, Last1(M, m))
<1> PICK g : g = groupMB(M, m)
  OBVIOUS
<1> PICK n : n = Len(M)
  OBVIOUS
<1> DEFINE HasMax == \E i \in g : \A j \in g : j <= i
           T == {d \in Nat : (\E i \in g : i >= n - d) => HasMax}
<1>1. n \in Nat /\ m \in g /\ \A i \in g : i \in 1..n
  BY GroupFacts, MembersLen
<1>2. 0 \in T
  <2>1. ASSUME NEW i \in g, i >= n - 0 PROVE \A j \in g : j <= i
    BY <1>1, <2>1
  <2> QED
    BY <2>1
<1>3. ASSUME NEW d \in Nat, d \in T PROVE d + 1 \in T
  <2> SUFFICES ASSUME NEW i \in g, i >= n - (d + 1) PROVE HasMax
    OBVIOUS
  <2>1. CASE \E j \in g : j >= n - d
    BY <1>3, <2>1
  <2>2. CASE ~\E j \in g : j >= n - d
    <3>1. \A j \in g : j <= i
      BY <1>1, <2>2
    <3> QED
      BY <3>1
  <2> QED
    BY <2>1, <2>2
<1>4. Nat \subseteq T
  BY <1>2, <1>3, SetInduction
<1>5. n \in T /\ m >= n - n
  <2>1. \A x \in 1..n : x >= n - n
    BY <1>1
  <2> QED
    BY <2>1, <1>1, <1>4
<1>6. HasMax
  BY <1>1, <1>5
<1>7. Last1(M, m) \in g /\ \A j \in g : j <= Last1(M, m)
  BY <1>6 DEF Last1
<1> PICK l : l = Last1(M, m)
  OBVIOUS
<1>8. l \in 1..n /\ m <= l /\ l + 1 \notin g
  <2>1. l \in 1..n /\ m <= l /\ \A j \in g : j <= l
    BY <1>1, <1>7
  <2>2. ~(l + 1 <= l)
    BY <2>1, <1>1
  <2> QED
    BY <2>1, <2>2
<1>9. l = n \/ l + 1 \notin groupMB(M, l) => Bound(M, l)
  BY <1>8, GroupFacts
<1>10. groupMB(M, l) = g
  BY <1>7, GroupFacts
<1> QED
  BY <1>7, <1>8, <1>9, <1>10

\* Multiples of 8, 16 and 32.
LEMMA ModFacts ==
  /\ \A x, y \in Nat : x % 8 = 0 /\ y % 8 = 0 => x + y \in Nat /\ (x + y) % 8 = 0
  /\ \A x \in Nat : x % 32 = 0 => x % 8 = 0
  /\ \A x \in Nat : x % 16 = 0 => x % 8 = 0
OBVIOUS

\* A multiple of a multiple of 8.
LEMMA ModMul ==
  ASSUME NEW a \in Nat, NEW b \in Nat, b % 8 = 0
  PROVE  a * b \in Nat /\ (a * b) % 8 = 0
<1>1. PICK q \in Nat : b = 8 * q
  <2>1. b \div 8 \in Nat /\ b = 8 * (b \div 8)
    OBVIOUS
  <2> QED
    BY <2>1
<1>2. a * b = 8 * (a * q) /\ a * q \in Nat
  BY <1>1
<1>3. \A z \in Nat : 8 * z \in Nat /\ (8 * z) % 8 = 0
  OBVIOUS
<1> QED
  BY <1>2, <1>3

\* What lies between two multiples of 32 is one.
LEMMA Mod32Minus ==
  ASSUME NEW o \in Nat, NEW e \in Nat, NEW len \in Nat, e = o + len, o % 32 = 0, e % 32 = 0
  PROVE  len % 32 = 0
<1> PICK a \in Nat : o = 32 * a
  <2>1. o \div 32 \in Nat /\ o = 32 * (o \div 32)
    OBVIOUS
  <2> QED
    BY ONLY <2>1
<1> PICK b \in Nat : e = 32 * b
  <2>1. e \div 32 \in Nat /\ e = 32 * (e \div 32)
    OBVIOUS
  <2> QED
    BY ONLY <2>1
<1>1. len = 32 * (b - a) /\ b - a \in Nat
  OBVIOUS
<1> PICK c \in Nat : c = b - a
  BY <1>1
<1>2. len = 32 * c
  BY <1>1
<1> QED
  BY ONLY c \in Nat, <1>2

\* What is packed apart lies on byte boundaries, and small entries fill words.
LEMMA ApartFacts ==
  ASSUME NEW M, GoodMembers(M), NEW m \in 1..Len(M), Apart(M, m)
  PROVE  /\ Ends(M)[m - 1] % 8 = 0 /\ Ends(M)[m] % 8 = 0
         /\ M[m].bits \in {1, 2, 4} => lenBits(M[m]) % 32 = 0
<1>1. m - 1 \in 0..Len(M) /\ m \in 0..Len(M) /\ m \in Int /\ Len(M) \in Nat
  BY MembersLen
<1> PICK o : o = Ends(M)[m - 1]
  OBVIOUS
<1> PICK e : e = Ends(M)[m]
  OBVIOUS
<1> PICK len : len = lenBits(M[m])
  OBVIOUS
<1>2. o \in Nat /\ e \in Nat /\ len \in Nat /\ e = o + len
  BY <1>1, EndsFacts, MemberFacts
<1>3. CASE groupMB(M, m) = {m}
  <2>1. m + 1 \notin groupMB(M, m) /\ m - 1 \notin groupMB(M, m)
    BY <1>1, <1>3
  <2>2. o % 32 = 0 /\ e % 32 = 0
    BY <2>1, GroupFacts DEF Bound
  <2>3. o % 8 = 0 /\ e % 8 = 0
    BY <1>2, <2>2, ModFacts
  <2>4. len % 32 = 0
    BY ONLY <1>2, <2>2, Mod32Minus
  <2> QED
    BY <2>3, <2>4
<1>4. CASE groupMB(M, m) # {m}
  <2>1. isAligned(M, m)
    BY <1>4, GroupFacts DEF Apart
  <2> PICK b : b = M[m].bits
    OBVIOUS
  <2>2. b \in Nat \ {0} /\ M[m].count \in Nat
    BY MemberFacts
  <2>3. IF b >= 32 THEN b % 32 = 0 /\ o % 32 = 0 ELSE b \in {8, 16} /\ o % b = 0
    BY <2>1 DEF isAligned, Offset
  <2>4. b % 8 = 0 /\ o % 8 = 0 /\ b \notin {1, 2, 4}
    <3>1. CASE b >= 32
      <4>1. b % 8 = 0 /\ o % 8 = 0
        BY <3>1, <2>2, <2>3, <1>2, ModFacts
      <4> QED
        BY <3>1, <4>1
    <3>2. CASE b = 8
      <4>1. o % 8 = 0 /\ 8 % 8 = 0
        BY <3>2, <2>3
      <4> QED
        BY <3>2, <4>1
    <3>3. CASE b = 16
      <4>1. o % 8 = 0 /\ 16 % 8 = 0
        <5>1. o % 16 = 0
          BY <3>3, <2>3
        <5> QED
          BY <5>1, <1>2, ModFacts
      <4> QED
        BY <3>3, <4>1
    <3> QED
      BY <3>1, <3>2, <3>3, <2>2, <2>3
  <2>5. len = M[m].count * b
    BY <2>2 DEF lenBits
  <2>6. len % 8 = 0
    BY <2>2, <2>4, <2>5, ModMul
  <2>7. e % 8 = 0
    BY <2>4, <2>6, <1>2, ModFacts
  <2> QED
    BY <2>4, <2>7
<1> QED
  BY <1>3, <1>4

\* An element that is packed apart, other than an entry of a few bits.
LEMMA ByteAligned ==
  ASSUME NEW M, GoodMembers(M), NEW m \in 1..Len(M), NEW k \in 0..(Entries(M[m]) - 1), Apart(M, m),
         M[m].bits % 8 = 0 \/ Entries(M[m]) = 1
  PROVE  Element(M, m, k).at % 8 = 0 /\ Stop(Element(M, m, k)) % 8 = 0
<1>1. Entries(M[m]) \in Nat \ {0} /\ m - 1 \in 0..Len(M) /\ m \in 0..Len(M)
  BY MemberFacts, MembersLen
<1>2. Ends(M)[m - 1] % 8 = 0 /\ Ends(M)[m] % 8 = 0 /\ Ends(M)[m - 1] \in Nat
  BY <1>1, ApartFacts, EndsFacts
<1>3. CASE Entries(M[m]) = 1
  <2>1. k = 0 /\ k + 1 = Entries(M[m])
    BY <1>3
  <2> QED
    BY <2>1, <1>2, ElementStop
<1>4. CASE Entries(M[m]) # 1
  <2> PICK w : w = Width(M[m])
    OBVIOUS
  <2>1. w = M[m].bits /\ w \in Nat \ {0} /\ w % 8 = 0 /\ k \in Nat
    BY <1>1, <1>4, MemberFacts
  <2> PICK p : p = k * w
    OBVIOUS
  <2>2. p \in Nat /\ p % 8 = 0
    BY <2>1, ModMul
  <2>3. Element(M, m, k).at = Ends(M)[m - 1] + p /\ Element(M, m, k).bits = w
    BY ElementFields
  <2> PICK at : at = Ends(M)[m - 1] + p
    OBVIOUS
  <2>4. at \in Nat /\ at % 8 = 0
    BY <2>2, <1>2, ModFacts
  <2>5. (at + w) % 8 = 0
    BY <2>1, <2>4, ModFacts
  <2> QED
    BY <2>3, <2>4, <2>5 DEF Stop
<1> QED
  BY <1>3, <1>4

\* What shares a word is a scalar.
LEMMA SharedFacts ==
  ASSUME NEW M, GoodMembers(M), NEW m \in 1..Len(M), ~Apart(M, m)
  PROVE  ~isObject(M[m]) /\ ~IsData(M[m]) /\ Entries(M[m]) = 1
<1>1. ~isObject(M[m]) /\ M[m].count = 1 /\ M[m].bits <= 64 /\ M[m].bits \in Nat
  BY MemberFacts DEF GoodMembers
<1>2. ~IsData(M[m])
  BY <1>1 DEF IsData
<1> QED
  BY <1>1, <1>2 DEF Entries

-----------------------------------------------------------------------------
(* pack_array8, entry by entry.                                            *)

\* Any sequence.
Listed(s) == \E S : s \in Seq(S)

\* The elements a to b are the entries of the array s stores.
Entered(E, s, a, b) ==
    /\ a \in 1..Len(E) /\ b \in 1..Len(E) /\ a <= b
    /\ s.op = "array" /\ s.at \in Nat /\ s.mlen \in {1, 2, 4, 64} /\ s.count = b - a + 1
    /\ (s.mlen * s.count) % 32 = 0
    /\ \A i \in a..b : /\ E[i].m = s.m /\ E[i].k = i - a /\ E[i].bits = s.mlen
                       /\ E[i].at = 8 * s.at + (i - a) * s.mlen

\* How wide pack_array8 lets its value grow, one step of it, and what it has then
\* made of the first i entries: words of n of them, the others shifted together.
Full(s) == IF s.mlen = 64 THEN 64 ELSE 32
Entry(s, i) == [m |-> s.m, k |-> i - 1, bits |-> s.mlen]
Shift(s, i, acc) ==
    LET es == Append(acc.es, Entry(s, i))
        width == s.mlen * Len(es)
    IN  IF Flushes(width)
        THEN [es |-> <<>>, at |-> acc.at + width,
              words |-> Append(acc.words, [at |-> acc.at, bits |-> width, es |-> es])]
        ELSE [acc EXCEPT !.es = es]
IsAcc(acc) == acc = [es |-> acc.es, at |-> acc.at, words |-> acc.words]
ArrayWord(E, s, w, x, y) == WordIs(E, w, x, y) /\ \A z \in DOMAIN w.es : w.es[z].m = s.m
Shifted(E, s, a, i, n, acc) ==
    /\ n \in Nat /\ n <= i
    /\ IsAcc(acc)
    /\ acc.at = 8 * s.at + s.mlen * n /\ (s.mlen * n) % Full(s) = 0
    /\ Listed(acc.es) /\ Len(acc.es) = i - n /\ s.mlen * (i - n) < Full(s)
    /\ \A x \in 1..(i - n) : acc.es[x].m = s.m /\ acc.es[x].k = n + x - 1 /\ acc.es[x].bits = s.mlen
    /\ Listed(acc.words)
    /\ \A w \in ToSet(acc.words) : \E x, y \in a..(a + n - 1) : ArrayWord(E, s, w, x, y)
    /\ \A l \in a..(a + n - 1) : \E w \in ToSet(acc.words) : \E x, y \in a..(a + n - 1) :
            WordIs(E, w, x, y) /\ x <= l /\ l <= y

LEMMA ListedFacts ==
  ASSUME NEW s, Listed(s)
  PROVE  Len(s) \in Nat /\ DOMAIN s = 1..Len(s) /\ ToSet(s) = {s[i] : i \in 1..Len(s)}
BY DEF Listed, ToSet

\* Append, for a sequence of anything.
LEMMA AppendAny ==
  ASSUME NEW s, Listed(s), NEW x
  PROVE  /\ Listed(Append(s, x)) /\ Len(Append(s, x)) = Len(s) + 1
         /\ \A i \in 1..Len(s) : Append(s, x)[i] = s[i]
         /\ Append(s, x)[Len(s) + 1] = x
         /\ ToSet(Append(s, x)) = ToSet(s) \cup {x}
<1>1. PICK S : s \in Seq(S)
  BY DEF Listed
<1> PICK T : T = S \cup {x}
  OBVIOUS
<1>2. s \in Seq(T) /\ x \in T
  <2>1. S \subseteq T /\ x \in T
    OBVIOUS
  <2> QED
    BY <1>1, <2>1, SeqMonotonic
<1>3. Append(s, x) \in Seq(T) /\ Len(Append(s, x)) = Len(s) + 1 /\ ToSet(Append(s, x)) = ToSet(s) \cup {x}
  BY <1>2, AppendFacts
<1>4. /\ \A i \in 1..Len(s) : Append(s, x)[i] = s[i]
      /\ Append(s, x)[Len(s) + 1] = x
  BY <1>2
<1> QED
  BY <1>3, <1>4 DEF Listed

\* The arithmetic of a width that divides the word.
WidthsRight(u, F, n, r) ==
    /\ Flushes(u * (r + 1)) <=> u * (r + 1) = F
    /\ ~Flushes(u * (r + 1)) => u * (r + 1) < F
    /\ Flushes(u * (r + 1)) => (u * (n + r + 1)) % F = 0
    /\ (u * (n + r)) % 32 = 0 => r = 0
LEMMA ModRest ==
  ASSUME NEW x \in Nat, NEW y \in Nat, x % 32 = 0, y < 32, (x + y) % 32 = 0
  PROVE  y = 0
OBVIOUS

\* When pack_array8 has a full word, and that the rest it has not is empty at the end.
LEMMA ShiftWidths ==
  ASSUME NEW u \in {1, 2, 4, 64}, NEW F, F = IF u = 64 THEN 64 ELSE 32,
         NEW n \in Nat, NEW r \in Nat, u * r < F, (u * n) % F = 0
  PROVE  WidthsRight(u, F, n, r)
<1>1. CASE u = 1
  <2>1. F = 32 /\ r < 32 /\ n % 32 = 0
    BY <1>1
  <2>2. Flushes(r + 1) <=> r + 1 = 32
    BY <2>1 DEF Flushes
  <2>3. r + 1 = 32 => (n + r + 1) % 32 = 0
    BY <2>1
  <2>4. (n + r) % 32 = 0 => r = 0
    BY <2>1
  <2>5. u * (r + 1) = r + 1 /\ u * (n + r + 1) = n + r + 1 /\ u * (n + r) = n + r
    BY <1>1
  <2> QED
    BY <2>1, <2>2, <2>3, <2>4, <2>5 DEF WidthsRight
<1>2. CASE u = 2
  <2>1. F = 32 /\ 2 * r < 32 /\ (2 * n) % 32 = 0
    BY <1>2
  <2>2. Flushes(2 * (r + 1)) <=> 2 * (r + 1) = 32
    BY <2>1 DEF Flushes
  <2>3. 2 * (r + 1) = 32 => (2 * (n + r + 1)) % 32 = 0
    BY <2>1
  <2>4. (2 * (n + r)) % 32 = 0 => r = 0
    <3>1. 2 * (n + r) = 2 * n + 2 * r /\ 2 * n \in Nat /\ 2 * r \in Nat
      OBVIOUS
    <3>2. (2 * (n + r)) % 32 = 0 => 2 * r = 0
      BY <2>1, <3>1, ModRest
    <3> QED
      BY <3>2
  <2> QED
    BY <1>2, <2>1, <2>2, <2>3, <2>4 DEF WidthsRight
<1>3. CASE u = 4
  <2>1. F = 32 /\ 4 * r < 32 /\ (4 * n) % 32 = 0
    BY <1>3
  <2>2. Flushes(4 * (r + 1)) <=> 4 * (r + 1) = 32
    BY <2>1 DEF Flushes
  <2>3. 4 * (r + 1) = 32 => (4 * (n + r + 1)) % 32 = 0
    BY <2>1
  <2>4. (4 * (n + r)) % 32 = 0 => r = 0
    <3>1. 4 * (n + r) = 4 * n + 4 * r /\ 4 * n \in Nat /\ 4 * r \in Nat
      OBVIOUS
    <3>2. (4 * (n + r)) % 32 = 0 => 4 * r = 0
      BY <2>1, <3>1, ModRest
    <3> QED
      BY <3>2
  <2> QED
    BY <1>3, <2>1, <2>2, <2>3, <2>4 DEF WidthsRight
<1>4. CASE u = 64
  <2>1. F = 64 /\ r = 0 /\ (64 * n) % 64 = 0
    BY <1>4
  <2>2. Flushes(64) /\ u * (r + 1) = 64
    BY <1>4, <2>1 DEF Flushes
  <2>3. (64 * (n + r + 1)) % 64 = 0
    BY <2>1
  <2> QED
    BY <1>4, <2>1, <2>2, <2>3 DEF WidthsRight
<1> QED
  BY <1>1, <1>2, <1>3, <1>4

ShiftSummed(u, n, r, p) ==
    /\ u * (r + 1) = (p + (n + r) * u) + u - (p + n * u)
    /\ p + u * n = p + n * u
    /\ (p + u * n) + u * (r + 1) = p + u * (n + r + 1)
\* The sums of a run of entries of equal width.
LEMMA ShiftSums ==
  ASSUME NEW u \in {1, 2, 4, 64}, NEW n \in Nat, NEW r \in Nat, NEW p \in Nat
  PROVE  ShiftSummed(u, n, r, p)
<1>1. CASE u = 1 BY <1>1 DEF ShiftSummed
<1>2. CASE u = 2 BY <1>2 DEF ShiftSummed
<1>3. CASE u = 4 BY <1>3 DEF ShiftSummed
<1>4. CASE u = 64 BY <1>4 DEF ShiftSummed
<1> QED
  BY <1>1, <1>2, <1>3, <1>4

\* An entry not yet in a word is one of the array.
LEMMA InRun ==
  ASSUME NEW a \in Nat, NEW b \in Nat, NEW n \in Nat, NEW r \in Nat, a + (n + r) <= b, NEW x \in 1..(r + 1)
  PROVE  (a + n) + x - 1 \in a..b /\ ((a + n) + x - 1) - a = n + x - 1
OBVIOUS

\* One step of pack_array8 keeps what it has made.
LEMMA ShiftKeeps ==
  ASSUME NEW E, NEW s, NEW a, NEW b, Chain(E), Entered(E, s, a, b),
         NEW i \in Nat, i + 1 <= s.count, NEW n, NEW acc, Shifted(E, s, a, i, n, acc)
  PROVE  \E n2 : Shifted(E, s, a, i + 1, n2, Shift(s, i + 1, acc))
<1> PICK u : u = s.mlen
  OBVIOUS
<1> PICK F : F = Full(s)
  OBVIOUS
<1> PICK r : r = i - n
  OBVIOUS
<1>1. /\ a \in Nat /\ b \in Nat /\ a \in 1..Len(E) /\ b \in 1..Len(E) /\ a + i <= b /\ Len(E) \in Nat
      /\ u \in {1, 2, 4, 64} /\ s.at \in Nat
  <2>1. a \in 1..Len(E) /\ b \in 1..Len(E) /\ Len(E) \in Nat /\ s.count = b - a + 1
        /\ u \in {1, 2, 4, 64} /\ s.at \in Nat
    BY ChainTypes DEF Entered
  <2> QED
    BY <2>1
<1>2. n \in Nat /\ r \in Nat /\ i = n + r /\ Len(acc.es) = r /\ u * r < F /\ (u * n) % F = 0
      /\ Listed(acc.es) /\ Listed(acc.words) /\ acc.at = 8 * s.at + u * n
      /\ IsAcc(acc)
  BY DEF Shifted
<1>3. F = IF u = 64 THEN 64 ELSE 32
  BY DEF Full
<1>4. WidthsRight(u, F, n, r)
  <2>1. u \in {1, 2, 4, 64} /\ n \in Nat /\ r \in Nat
    BY <1>1, <1>2
  <2>2. u * r < F /\ (u * n) % F = 0
    BY <1>2
  <2> QED
    BY <2>1, <2>2, <1>3, ShiftWidths
<1>a. Listed(acc.es) /\ Listed(acc.words) /\ Len(acc.es) = r
  BY <1>2
<1> PICK es : es = Append(acc.es, Entry(s, i + 1))
  OBVIOUS
<1>5. /\ Listed(es) /\ Len(es) = r + 1
      /\ \A x \in 1..(r + 1) : es[x].m = s.m /\ es[x].k = n + x - 1 /\ es[x].bits = u
  <2>1. Listed(es) /\ Len(es) = r + 1 /\ (\A x \in 1..r : es[x] = acc.es[x]) /\ es[r + 1] = Entry(s, i + 1)
    BY <1>a, AppendAny
  <2>2. Entry(s, i + 1).m = s.m /\ Entry(s, i + 1).k = n + (r + 1) - 1 /\ Entry(s, i + 1).bits = u
    BY <1>2 DEF Entry
  <2>3. \A x \in 1..r : acc.es[x].m = s.m /\ acc.es[x].k = n + x - 1 /\ acc.es[x].bits = u
    BY DEF Shifted
  <2>4. \A x \in 1..(r + 1) : x \in 1..r \/ x = r + 1
    BY <1>2
  <2> QED
    BY <2>1, <2>2, <2>3, <2>4
<1> PICK width : width = u * (r + 1)
  OBVIOUS
<1> PICK next : next = Shift(s, i + 1, acc)
  OBVIOUS
<1>6. next = IF Flushes(width)
             THEN [es |-> <<>>, at |-> acc.at + width,
                   words |-> Append(acc.words, [at |-> acc.at, bits |-> width, es |-> es])]
             ELSE [acc EXCEPT !.es = es]
  BY <1>5 DEF Shift
<1>7. CASE ~Flushes(width)
  <2>1. next = [es |-> es, at |-> acc.at, words |-> acc.words]
    BY <1>2, <1>6, <1>7 DEF IsAcc
  <2>2. next.es = es /\ next.at = acc.at /\ next.words = acc.words /\ IsAcc(next)
    BY <2>1 DEF IsAcc
  <2>3. (i + 1) - n = r + 1 /\ n <= i + 1
    BY <1>2
  <2>4. u * (r + 1) < F
    BY <1>4, <1>7 DEF WidthsRight
  <2>5. /\ \A w \in ToSet(next.words) : \E x, y \in a..(a + n - 1) : ArrayWord(E, s, w, x, y)
        /\ \A l \in a..(a + n - 1) : \E w \in ToSet(next.words) : \E x, y \in a..(a + n - 1) :
              WordIs(E, w, x, y) /\ x <= l /\ l <= y
    BY <2>2 DEF Shifted
  <2>6. Shifted(E, s, a, i + 1, n, next)
    BY <1>2, <1>5, <2>2, <2>3, <2>4, <2>5 DEF Shifted
  <2> QED
    BY <2>6
<1>8. CASE Flushes(width)
  <2> PICK w : w = [at |-> acc.at, bits |-> width, es |-> es]
    OBVIOUS
  <2>1. next = [es |-> <<>>, at |-> acc.at + width, words |-> Append(acc.words, w)]
    BY <1>6, <1>8
  <2>2. next.es = <<>> /\ next.at = acc.at + width /\ next.words = Append(acc.words, w) /\ IsAcc(next)
    BY <2>1 DEF IsAcc
  <2>3. Listed(next.words) /\ ToSet(next.words) = ToSet(acc.words) \cup {w}
    <3>1. Listed(Append(acc.words, w)) /\ ToSet(Append(acc.words, w)) = ToSet(acc.words) \cup {w}
      BY <1>a, AppendAny, ZenonT(120)
    <3> QED
      BY <2>2, <3>1
  <2>4. a + n \in a..b /\ a + i \in a..b /\ a + n <= a + i /\ (a + i) - (a + n) + 1 = r + 1
        /\ a + n \in 1..Len(E) /\ a + i \in 1..Len(E) /\ (a + n) - a = n /\ (a + i) - a = i
    <3> PICK N : N = Len(E)
      OBVIOUS
    <3>1. a \in Nat /\ a >= 1 /\ b \in Nat /\ b <= N /\ a + i <= b /\ N \in Nat /\ n \in Nat /\ r \in Nat /\ i = n + r
      BY <1>1, <1>2
    <3>2. a + n \in a..b /\ a + i \in a..b /\ a + n <= a + i /\ (a + i) - (a + n) + 1 = r + 1
      BY <3>1
    <3>3. a + n \in 1..N /\ a + i \in 1..N /\ (a + n) - a = n /\ (a + i) - a = i
      BY <3>1
    <3> QED
      BY <3>2, <3>3
  <2>5. E[a + n].at = 8 * s.at + n * u /\ E[a + i].at = 8 * s.at + i * u /\ E[a + i].bits = u
    BY <2>4 DEF Entered
  <2>6. width = E[a + i].at + E[a + i].bits - E[a + n].at /\ acc.at = E[a + n].at
        /\ acc.at + width = 8 * s.at + u * (i + 1)
    <3>1. u \in {1, 2, 4, 64} /\ n \in Nat /\ r \in Nat /\ i = n + r
      BY <1>1, <1>2
    <3>2. 8 * s.at \in Nat
      BY <1>1
    <3>3. ShiftSummed(u, n, r, 8 * s.at)
      BY <3>1, <3>2, ShiftSums
    <3>4. /\ u * (r + 1) = (8 * s.at + (n + r) * u) + u - (8 * s.at + n * u)
          /\ 8 * s.at + u * n = 8 * s.at + n * u
          /\ (8 * s.at + u * n) + u * (r + 1) = 8 * s.at + u * (n + r + 1)
      BY <3>3, Zenon DEF ShiftSummed
    <3>5. /\ width = (8 * s.at + i * u) + u - (8 * s.at + n * u)
          /\ 8 * s.at + u * n = 8 * s.at + n * u
          /\ (8 * s.at + u * n) + width = 8 * s.at + u * (i + 1)
      BY <3>1, <3>4, Zenon
    <3>6. acc.at = 8 * s.at + u * n
      BY <1>2
    <3> QED
      BY <2>5, <3>5, <3>6
  <2>7. WordIs(E, w, a + n, a + i)
    <3>1. w.es = es /\ w.at = acc.at /\ w.bits = width
      OBVIOUS
    <3>2. DOMAIN es = 1..(r + 1)
      BY <1>5, ListedFacts
    <3>0. a \in Nat /\ b \in Nat /\ n \in Nat /\ r \in Nat /\ a + (n + r) <= b
      BY <1>1, <1>2
    <3>3. ASSUME NEW x \in 1..(r + 1)
          PROVE  /\ es[x].m = E[(a + n) + x - 1].m /\ es[x].k = E[(a + n) + x - 1].k
                 /\ es[x].bits = E[(a + n) + x - 1].bits
      <4>1. (a + n) + x - 1 \in a..b /\ ((a + n) + x - 1) - a = n + x - 1
        BY <3>0, InRun
      <4>2. E[(a + n) + x - 1].m = s.m /\ E[(a + n) + x - 1].k = n + x - 1 /\ E[(a + n) + x - 1].bits = u
        BY <4>1 DEF Entered
      <4> QED
        BY <4>2, <1>5
    <3> QED
      BY <2>4, <2>6, <3>1, <3>2, <3>3, <1>5 DEF WordIs
  <2>8. ArrayWord(E, s, w, a + n, a + i)
    <3>1. w.es = es /\ DOMAIN es = 1..(r + 1)
      BY <1>5, ListedFacts
    <3> QED
      BY <2>7, <3>1, <1>5 DEF ArrayWord
  <2>9. /\ a + (i + 1) - 1 = a + i /\ n + r + 1 = i + 1 /\ (i + 1) - (i + 1) = 0
        /\ \A x : x \in a..(a + n - 1) => x \in a..(a + i)
        /\ \A x \in a..(a + i) : x \in a..(a + n - 1) \/ (a + n <= x /\ x <= a + i)
        /\ a + n \in a..(a + i) /\ a + i \in a..(a + i)
    BY <1>1, <1>2, SMTT(60)
  <2>10. \A v \in ToSet(next.words) : \E x, y \in a..(a + i) : ArrayWord(E, s, v, x, y)
    <3> TAKE v \in ToSet(next.words)
    <3>1. CASE v = w
      BY <3>1, <2>8, <2>9
    <3>2. CASE v \in ToSet(acc.words)
      <4>1. \E x, y \in a..(a + n - 1) : ArrayWord(E, s, v, x, y)
        BY <3>2 DEF Shifted
      <4> QED
        BY <4>1, <2>9
    <3> QED
      BY <3>1, <3>2, <2>3
  <2>11. \A l \in a..(a + i) : \E v \in ToSet(next.words) : \E x, y \in a..(a + i) :
              WordIs(E, v, x, y) /\ x <= l /\ l <= y
    <3> TAKE l \in a..(a + i)
    <3>1. CASE l \in a..(a + n - 1)
      <4>1. PICK v \in ToSet(acc.words) : \E x, y \in a..(a + n - 1) : WordIs(E, v, x, y) /\ x <= l /\ l <= y
        BY <3>1 DEF Shifted
      <4> QED
        BY <4>1, <2>3, <2>9
    <3>2. CASE a + n <= l /\ l <= a + i
      BY <3>2, <2>3, <2>7, <2>9
    <3> QED
      BY <3>1, <3>2, <2>9
  <2>12. Listed(next.es) /\ Len(next.es) = 0
    <3>1. <<>> \in Seq({}) /\ Len(<<>>) = 0
      OBVIOUS
    <3> QED
      BY <3>1, <2>2 DEF Listed
  <2>13. /\ \A x \in 1..0 : next.es[x].m = s.m /\ next.es[x].k = (i + 1) + x - 1 /\ next.es[x].bits = s.mlen
         /\ u * 0 < F
    BY <1>1, <1>3
  <2>14. /\ i + 1 \in Nat /\ i + 1 <= i + 1 /\ next.at = 8 * s.at + u * (i + 1)
         /\ (u * (i + 1)) % F = 0
    BY <1>2, <1>4, <1>8, <2>2, <2>6, <2>9 DEF WidthsRight
  <2>15. Shifted(E, s, a, i + 1, i + 1, next)
    BY <2>2, <2>3, <2>9, <2>10, <2>11, <2>12, <2>13, <2>14, ZenonT(120) DEF Shifted
  <2> QED
    BY <2>15
<1> QED
  BY <1>7, <1>8

Fresh(s) == [es |-> <<>>, at |-> 8 * s.at, words |-> <<>>]
Shifts(s, f) == /\ f[0] = Fresh(s)
                /\ \A i \in 1..s.count : f[i] = Shift(s, i, f[i - 1])
\* The function pack_array8 is defined by exists: it can be extended step by step.
LEMMA ShiftRuns ==
  ASSUME NEW s, s.count \in Nat
  PROVE  \E f : Shifts(s, f) /\ pack_array8(s) = f[s.count]
<1> DEFINE Adds(n, f) == f = [i \in 0..n |-> IF i = 0 THEN Fresh(s) ELSE Shift(s, i, f[i - 1])]
           S == {n \in Nat : \E f : Adds(n, f)}
<1>1. 0 \in S
  <2> DEFINE f == [i \in {0} |-> Fresh(s)]
  <2>1. Adds(0, f)
    OBVIOUS
  <2> QED
    BY <2>1
<1>2. ASSUME NEW n \in Nat, n \in S PROVE n + 1 \in S
  <2>1. PICK f : Adds(n, f)
    BY <1>2
  <2> DEFINE next == Shift(s, n + 1, f[n])
             g == [i \in 0..(n + 1) |-> IF i = n + 1 THEN next ELSE f[i]]
  <2>2. /\ \A i \in 0..n : g[i] = f[i]
        /\ g[n + 1] = next
        /\ \A i \in 0..(n + 1) : i # n + 1 => i \in 0..n
        /\ \A i \in 0..n : i # 0 => i - 1 \in 0..n
        /\ n + 1 # 0 /\ n + 1 - 1 = n /\ n \in 0..n
    OBVIOUS
  <2>3. \A i \in 0..n : f[i] = IF i = 0 THEN Fresh(s) ELSE Shift(s, i, f[i - 1])
    BY <2>1
  <2>4. \A i \in 0..(n + 1) : g[i] = IF i = 0 THEN Fresh(s) ELSE Shift(s, i, g[i - 1])
    <3> HIDE DEF g
    <3> TAKE i \in 0..(n + 1)
    <3>1. CASE i = n + 1
      <4>1. g[i - 1] = f[n]
        BY <2>2, <3>1
      <4> QED
        BY <2>2, <3>1, <4>1
    <3>2. CASE i \in 0..n
      BY <2>2, <2>3, <3>2
    <3> QED
      BY <2>2, <3>1, <3>2
  <2>5. Adds(n + 1, g)
    <3>1. g = [i \in 0..(n + 1) |-> g[i]]
      OBVIOUS
    <3> HIDE DEF g
    <3> QED
      BY <2>4, <3>1, Zenon
  <2> HIDE DEF g
  <2>6. \E h : Adds(n + 1, h)
    <3> HIDE DEF Adds
    <3> QED
      BY <2>5
  <2> QED
    BY <2>6
<1>3. Nat \subseteq S
  BY <1>1, <1>2, SetInduction
<1> DEFINE f == CHOOSE f : Adds(s.count, f)
<1>4. Adds(s.count, f)
  BY <1>3
<1>5. pack_array8(s) = f[s.count]
  BY DEF pack_array8, Shift, Entry, Fresh
<1> HIDE DEF f
<1>6. Shifts(s, f)
  BY <1>4 DEF Shifts
<1> QED
  BY <1>5, <1>6

\* Nothing is made at first.
LEMMA EnteredStarts ==
  ASSUME NEW E, NEW s, NEW a, NEW b, Chain(E), Entered(E, s, a, b)
  PROVE  Shifted(E, s, a, 0, 0, Fresh(s))
<1>1. a \in Nat /\ s.at \in Nat /\ s.mlen \in {1, 2, 4, 64}
  <2>1. a \in 1..Len(E) /\ s.at \in Nat /\ s.mlen \in {1, 2, 4, 64}
    BY DEF Entered
  <2> QED
    BY <2>1
<1>2. Listed(<<>>) /\ Len(<<>>) = 0 /\ ToSet(<<>>) = {}
  <2>1. <<>> \in Seq({}) /\ Len(<<>>) = 0 /\ DOMAIN <<>> = {}
    OBVIOUS
  <2> QED
    BY <2>1 DEF Listed, ToSet
<1> PICK acc : acc = Fresh(s)
  OBVIOUS
<1>3. acc.es = <<>> /\ acc.at = 8 * s.at /\ acc.words = <<>> /\ IsAcc(acc)
  BY DEF Fresh, IsAcc
<1>4. Full(s) \in {32, 64}
  BY DEF Full
<1>5. 8 * s.at + s.mlen * 0 = 8 * s.at /\ (s.mlen * 0) % Full(s) = 0 /\ s.mlen * (0 - 0) < Full(s)
  BY <1>1, <1>4
<1>6. 1..(0 - 0) = {} /\ a..(a + 0 - 1) = {} /\ 0 - 0 = 0
  BY <1>1
<1> QED
  BY <1>2, <1>3, <1>5, <1>6 DEF Shifted

\* What pack_array8 has made at the end.
LEMMA EnteredRuns ==
  ASSUME NEW E, NEW s, NEW a, NEW b, Chain(E), Entered(E, s, a, b)
  PROVE  \E n : Shifted(E, s, a, s.count, n, pack_array8(s))
<1>1. s.count \in Nat
  <2>1. a \in 1..Len(E) /\ b \in 1..Len(E) /\ a <= b /\ s.count = b - a + 1 /\ Len(E) \in Nat
    BY ChainTypes DEF Entered
  <2> QED
    BY <2>1
<1>2. PICK f : Shifts(s, f) /\ pack_array8(s) = f[s.count]
  BY <1>1, ShiftRuns
<1> DEFINE T == {i \in Nat : i <= s.count => \E n : Shifted(E, s, a, i, n, f[i])}
<1>3. 0 \in T
  BY <1>2, EnteredStarts DEF Shifts
<1>4. ASSUME NEW i \in Nat, i \in T PROVE i + 1 \in T
  <2> SUFFICES ASSUME i + 1 <= s.count PROVE \E n : Shifted(E, s, a, i + 1, n, f[i + 1])
    OBVIOUS
  <2>1. i <= s.count /\ i + 1 \in 1..s.count /\ (i + 1) - 1 = i
    BY <1>1
  <2>2. PICK n : Shifted(E, s, a, i, n, f[i])
    BY <1>4, <2>1
  <2>3. f[i + 1] = Shift(s, i + 1, f[i])
    BY <1>2, <2>1 DEF Shifts
  <2> PICK acc : acc = f[i]
    OBVIOUS
  <2>4. \E n2 : Shifted(E, s, a, i + 1, n2, Shift(s, i + 1, acc))
    BY <2>2, ShiftKeeps
  <2> QED
    BY <2>3, <2>4
<1>5. Nat \subseteq T
  BY <1>3, <1>4, SetInduction
<1> QED
  BY <1>1, <1>2, <1>5

\* The end of an array in bits and in bytes.
LEMMA ArrayArith ==
  ASSUME NEW u \in {1, 2, 4, 64}, NEW n \in Nat, NEW p \in Nat, (u * n) % 32 = 0, n >= 1
  PROVE  /\ 8 * p + u * n = 8 * p + (n - 1) * u + u
         /\ (8 * p + u * n) \div 8 \in Nat
         /\ 8 * ((8 * p + u * n) \div 8) = 8 * p + u * n
<1>1. u * n \in Nat
  OBVIOUS
<1> PICK q : q = u * n
  OBVIOUS
<1>2. q \in Nat /\ q % 32 = 0
  BY <1>1
<1>3. (8 * p + q) \div 8 \in Nat /\ 8 * ((8 * p + q) \div 8) = 8 * p + q
  BY <1>2
<1>4. u * n = (n - 1) * u + u
  <2>1. CASE u = 1 BY <2>1
  <2>2. CASE u = 2 BY <2>2
  <2>3. CASE u = 4 BY <2>3
  <2>4. CASE u = 64 BY <2>4
  <2> QED
    BY <2>1, <2>2, <2>3, <2>4
<1> QED
  BY <1>1, <1>3, <1>4

\* pack_array8 stores its entries where they belong, and leaves none over.
LEMMA EnteredStores ==
  ASSUME NEW E, NEW s, NEW a, NEW b, Chain(E), Entered(E, s, a, b)
  PROVE  StoresArray(E, s, a, b)
<1> PICK acc : acc = pack_array8(s)
  OBVIOUS
<1>1. PICK n : Shifted(E, s, a, s.count, n, acc)
  BY EnteredRuns
<1> PICK u : u = s.mlen
  OBVIOUS
<1> PICK F : F = Full(s)
  OBVIOUS
<1> PICK N : N = s.count
  OBVIOUS
<1> PICK r : r = N - n
  OBVIOUS
<1>2. /\ a \in Nat /\ b \in Nat /\ a \in 1..Len(E) /\ b \in 1..Len(E) /\ a <= b /\ N = b - a + 1 /\ N \in Nat
      /\ u \in {1, 2, 4, 64} /\ s.at \in Nat /\ (u * N) % 32 = 0 /\ N >= 1 /\ b \in a..b /\ b - a = N - 1
      /\ s.op = "array"
  <2>1. /\ a \in 1..Len(E) /\ b \in 1..Len(E) /\ a <= b /\ N = b - a + 1 /\ Len(E) \in Nat
        /\ u \in {1, 2, 4, 64} /\ s.at \in Nat /\ (u * N) % 32 = 0 /\ s.op = "array"
    BY ChainTypes DEF Entered
  <2>2. N \in Nat /\ N >= 1 /\ a \in Nat /\ b \in Nat /\ b \in a..b /\ b - a = N - 1
    BY <2>1
  <2> QED
    BY <2>1, <2>2
<1>3. n \in Nat /\ r \in Nat /\ N = n + r /\ u * r < F /\ (u * n) % F = 0
      /\ Listed(acc.es) /\ Len(acc.es) = r /\ acc.at = 8 * s.at + u * n
  <2>1. n \in Nat /\ n <= N /\ u * r < F /\ (u * n) % F = 0 
        /\ Listed(acc.es) /\ Len(acc.es) = r /\ acc.at = 8 * s.at + u * n
    BY <1>1 DEF Shifted
  <2>2. r \in Nat /\ N = n + r
    BY <2>1, <1>2
  <2> QED
    BY <2>1, <2>2
<1>4. r = 0
  <2>1. u \in {1, 2, 4, 64} /\ n \in Nat /\ r \in Nat
    BY <1>2, <1>3
  <2>2. u * r < F /\ (u * n) % F = 0
    BY <1>3
  <2>3. F = IF u = 64 THEN 64 ELSE 32
    BY DEF Full
  <2>4. WidthsRight(u, F, n, r)
    BY <2>1, <2>2, <2>3, ShiftWidths
  <2> QED
    BY <1>2, <1>3, <2>4 DEF WidthsRight
<1>5. n = N
  BY <1>2, <1>3, <1>4
<1>6. acc.es = <<>>
  BY <1>3, <1>4 DEF Listed
<1>7. acc.at = E[b].at + E[b].bits /\ acc.at \div 8 \in Nat /\ 8 * (acc.at \div 8) = acc.at
  <2>1. E[b].at = 8 * s.at + (N - 1) * u /\ E[b].bits = u
    BY <1>2 DEF Entered
  <2>2. /\ 8 * s.at + u * N = 8 * s.at + (N - 1) * u + u
        /\ (8 * s.at + u * N) \div 8 \in Nat
        /\ 8 * ((8 * s.at + u * N) \div 8) = 8 * s.at + u * N
    BY <1>2, ArrayArith, ZenonT(120)
  <2> QED
    BY <1>3, <1>5, <2>1, <2>2
<1>8. a + N - 1 = b
  BY <1>2
<1>9. /\ \A w \in ToSet(acc.words) : \E x \in a..b, y \in a..b : ArrayWord(E, s, w, x, y)
      /\ \A l \in a..b : \E w \in ToSet(acc.words) : \E x \in a..b, y \in a..b :
            WordIs(E, w, x, y) /\ x <= l /\ l <= y
  <2>1. /\ \A w \in ToSet(acc.words) : \E x, y \in a..(a + N - 1) : ArrayWord(E, s, w, x, y)
        /\ \A l \in a..(a + N - 1) : \E w \in ToSet(acc.words) : \E x, y \in a..(a + N - 1) :
              WordIs(E, w, x, y) /\ x <= l /\ l <= y
    BY <1>1, <1>5 DEF Shifted
  <2> QED
    BY <2>1, <1>8
<1>10. WordsFit(E, acc.words, a, b) /\ \A w \in ToSet(acc.words) : \A i \in DOMAIN w.es : w.es[i].m = s.m
  BY <1>2, <1>9 DEF WordsFit, ArrayWord
<1>11. \A i \in a..b : /\ E[i].m = s.m /\ E[i].k = i - a /\ E[i].bits = s.mlen
                       /\ E[i].at = 8 * s.at + (i - a) * s.mlen
  BY DEF Entered
<1> QED
  BY <1>2, <1>6, <1>7, <1>10, <1>11 DEF StoresArray

-----------------------------------------------------------------------------
(* Struct calls, word by word.                                             *)

\* The struct call s stores the elements a to b: its ith word those behind f[i - 1] up to f[i].
IsCall(s) == s = Fmt(s.at, s.m, s.words)
CallRuns(E, s, f, a, b) ==
    /\ IsCall(s) /\ s.op = "struct" /\ s.at \in Nat /\ Listed(s.words)
    /\ a \in 1..Len(E) /\ b \in 1..Len(E) /\ a <= b
    /\ f[0] = a - 1 /\ f[Len(s.words)] = b
    /\ \A i \in 0..Len(s.words) : f[i] \in (a - 1)..b
    /\ \A i \in 1..Len(s.words) : /\ f[i - 1] < f[i]
                                  /\ s.words[i].members = f[i] - f[i - 1]
                                  /\ s.words[i].bits = Stop(E[f[i]]) - E[f[i - 1] + 1].at
    /\ E[a].m = s.m /\ E[a].k = 0 /\ E[a].at = 8 * s.at
    /\ Stop(E[b]) % 8 = 0
CallWord(E, a, b, x, y) ==
    /\ x \in Nat /\ y \in Nat /\ x < y /\ x + 1 \in a..b /\ y \in a..b
    /\ x + 1 \in 1..Len(E) /\ y \in 1..Len(E)
    /\ E[y].at \in Nat /\ E[y].bits \in Nat /\ Stop(E[y]) \in Nat /\ E[x + 1].at \in Nat
CallFits(E, s, a, b) == \E f : CallRuns(E, s, f, a, b)

LEMMA CallTypes ==
  ASSUME NEW E, NEW s, NEW f, NEW a, NEW b, Chain(E), CallRuns(E, s, f, a, b)
  PROVE  /\ a \in Nat /\ b \in Nat /\ a >= 1 /\ a <= b /\ Len(E) \in Nat /\ b <= Len(E)
         /\ Len(s.words) \in Nat /\ Len(s.words) # 0 /\ DOMAIN s.words = 1..Len(s.words)
         /\ ToSet(s.words) = {s.words[i] : i \in 1..Len(s.words)}
         /\ \A i \in 0..Len(s.words) : f[i] \in Nat /\ a - 1 <= f[i] /\ f[i] <= b
         /\ \A i \in 1..Len(s.words) : /\ i \in Nat /\ i - 1 \in 0..Len(s.words) /\ i \in 0..Len(s.words)
                                       /\ CallWord(E, a, b, f[i - 1], f[i])
<1>1. Len(s.words) \in Nat /\ DOMAIN s.words = 1..Len(s.words) /\ ToSet(s.words) = {s.words[i] : i \in 1..Len(s.words)}
  BY ListedFacts DEF CallRuns
<1>2. Len(E) \in Nat /\ a \in 1..Len(E) /\ b \in 1..Len(E) /\ a <= b
  BY ChainTypes DEF CallRuns
<1>3. a \in Nat /\ b \in Nat /\ a >= 1 /\ a <= b /\ b <= Len(E)
  BY <1>2
<1>4. ASSUME NEW i \in 0..Len(s.words) PROVE f[i] \in Nat /\ a - 1 <= f[i] /\ f[i] <= b
  <2>1. f[i] \in (a - 1)..b
    BY DEF CallRuns
  <2> QED
    BY <2>1, <1>3
<1>5. Len(s.words) # 0
  <2>1. f[0] = a - 1 /\ f[Len(s.words)] = b
    BY DEF CallRuns
  <2> QED
    BY <2>1, <1>3
<1>6. ASSUME NEW i \in 1..Len(s.words)
      PROVE  /\ i \in Nat /\ i - 1 \in 0..Len(s.words) /\ i \in 0..Len(s.words)
             /\ CallWord(E, a, b, f[i - 1], f[i])
  <2>1. i \in Nat /\ i - 1 \in 0..Len(s.words) /\ i \in 0..Len(s.words)
    BY <1>1
  <2>2. f[i - 1] < f[i]
    BY DEF CallRuns
  <2> PICK x : x = f[i - 1]
    OBVIOUS
  <2> PICK y : y = f[i]
    OBVIOUS
  <2>3. x \in Nat /\ a - 1 <= x /\ x <= b /\ y \in Nat /\ a - 1 <= y /\ y <= b /\ x < y
    BY <2>1, <2>2, <1>4
  <2>4. x + 1 \in a..b /\ y \in a..b /\ x + 1 \in 1..Len(E) /\ y \in 1..Len(E)
    BY <2>3, <1>3, <1>2
  <2>5. E[y].at \in Nat /\ E[y].bits \in Nat /\ E[x + 1].at \in Nat
    BY <2>4, ChainTypes
  <2>6. Stop(E[y]) \in Nat
    BY <2>5 DEF Stop
  <2> QED
    BY <2>1, <2>3, <2>4, <2>5, <2>6 DEF CallWord
<1> QED
  BY <1>1, <1>2, <1>3, <1>4, <1>5, <1>6

\* The words of the call and the members in them, summed up.
LEMMA CallSums ==
  ASSUME NEW E, NEW s, NEW f, NEW a, NEW b, Chain(E), CallRuns(E, s, f, a, b),
         NEW bits, bits = Sums([i \in DOMAIN s.words |-> s.words[i].bits]),
         NEW members, members = Sums([i \in DOMAIN s.words |-> s.words[i].members])
  PROVE  /\ bits[0] = 0
         /\ \A i \in 1..Len(s.words) : bits[i] = Stop(E[f[i]]) - E[a].at
         /\ \A i \in 0..Len(s.words) : members[i] = f[i] - (a - 1)
         /\ \A i \in 1..Len(s.words) : E[f[i - 1] + 1].at = E[a].at + bits[i - 1]
<1> PICK n : n = Len(s.words)
  OBVIOUS
<1> PICK x : x = [i \in DOMAIN s.words |-> s.words[i].bits]
  OBVIOUS
<1> PICK y : y = [i \in DOMAIN s.words |-> s.words[i].members]
  OBVIOUS
<1>1. n \in Nat /\ n # 0 /\ DOMAIN s.words = 1..n
  BY CallTypes
<1>2. /\ Len(x) = n /\ Len(y) = n
      /\ \A i \in 1..n : x[i] = Stop(E[f[i]]) - E[f[i - 1] + 1].at /\ y[i] = f[i] - f[i - 1]
  <2>1. Len(x) = n /\ Len(y) = n /\ \A i \in 1..n : x[i] = s.words[i].bits /\ y[i] = s.words[i].members
    BY <1>1
  <2> QED
    BY <2>1 DEF CallRuns
<1>3. \A i \in 1..n : x[i] \in Int /\ y[i] \in Int
  <2> TAKE i \in 1..n
  <2>1. CallWord(E, a, b, f[i - 1], f[i])
    BY CallTypes
  <2>2. Stop(E[f[i]]) \in Nat /\ E[f[i - 1] + 1].at \in Nat /\ f[i] \in Nat /\ f[i - 1] \in Nat
    BY <2>1 DEF CallWord
  <2>3. x[i] = Stop(E[f[i]]) - E[f[i - 1] + 1].at /\ y[i] = f[i] - f[i - 1]
    BY <1>2
  <2>4. \A p, q \in Nat : p - q \in Int
    OBVIOUS
  <2> QED
    BY <2>2, <2>3, <2>4, Zenon
<1>4. /\ bits[0] = 0
      /\ \A i \in 1..n : bits[i] = bits[i - 1] + x[i]
      /\ \A i \in 0..n : bits[i] \in Int
  BY <1>1, <1>2, <1>3, SumsFacts
<1>5. /\ members[0] = 0
      /\ \A i \in 1..n : members[i] = members[i - 1] + y[i]
      /\ \A i \in 0..n : members[i] \in Int
  BY <1>1, <1>2, <1>3, SumsFacts
<1>6. f[0] = a - 1 /\ a \in Nat /\ E[a].at \in Nat /\ (a - 1) + 1 = a
  BY CallTypes, ChainTypes DEF CallRuns
\* Up to word i all is as it should be.
<1> DEFINE T == {i \in Nat : i <= n => /\ members[i] = f[i] - (a - 1)
                                       /\ i # 0 => bits[i] = Stop(E[f[i]]) - E[a].at
                                       /\ i + 1 <= n => E[f[i] + 1].at = E[a].at + bits[i]}
<1>7. 0 \in T
  <2>1. members[0] = f[0] - (a - 1)
    BY <1>5, <1>6
  <2>2. E[f[0] + 1].at = E[a].at + bits[0]
    BY <1>4, <1>6
  <2> QED
    BY <2>1, <2>2
<1>8. ASSUME NEW i \in Nat, i \in T PROVE i + 1 \in T
  <2> SUFFICES ASSUME i + 1 <= n
               PROVE  /\ members[i + 1] = f[i + 1] - (a - 1)
                      /\ bits[i + 1] = Stop(E[f[i + 1]]) - E[a].at
                      /\ (i + 1) + 1 <= n => E[f[i + 1] + 1].at = E[a].at + bits[i + 1]
    OBVIOUS
  <2>1. i + 1 \in 1..n /\ i \in 0..n /\ (i + 1) - 1 = i /\ i <= n
    BY <1>1
  <2>2. /\ members[i] = f[i] - (a - 1) /\ E[f[i] + 1].at = E[a].at + bits[i]
    BY <1>8, <2>1
  <2>3. f[i] \in Nat /\ f[i + 1] \in Nat /\ f[i + 1] \in 1..Len(E) /\ Stop(E[f[i + 1]]) \in Nat /\ E[f[i] + 1].at \in Nat
        /\ f[i + 1] <= Len(E)
    <3>1. CallWord(E, a, b, f[(i + 1) - 1], f[i + 1]) /\ Len(E) \in Nat
      BY <2>1, CallTypes
    <3>2. CallWord(E, a, b, f[i], f[i + 1]) /\ Len(E) \in Nat
      BY <2>1, <3>1
    <3> QED
      BY <3>2 DEF CallWord
  <2>4. members[i + 1] = members[i] + (f[i + 1] - f[i])
        /\ bits[i + 1] = bits[i] + (Stop(E[f[i + 1]]) - E[f[i] + 1].at)
    <3>1. /\ x[i + 1] = Stop(E[f[i + 1]]) - E[f[(i + 1) - 1] + 1].at
          /\ y[i + 1] = f[i + 1] - f[(i + 1) - 1]
          /\ bits[i + 1] = bits[(i + 1) - 1] + x[i + 1]
          /\ members[i + 1] = members[(i + 1) - 1] + y[i + 1]
      BY <2>1, <1>2, <1>4, <1>5
    <3> QED
      BY <2>1, <3>1, Zenon
  <2>5. bits[i] \in Int /\ members[i] \in Int /\ a \in Nat /\ E[a].at \in Nat
    BY <2>1, <1>4, <1>5, <1>6
  <2>6. members[i + 1] = f[i + 1] - (a - 1)
    BY <2>2, <2>3, <2>4, <2>5, SMTT(60)
  <2>7. bits[i + 1] = Stop(E[f[i + 1]]) - E[a].at
    <3> PICK p : p = E[f[i] + 1].at
      OBVIOUS
    <3> PICK q : q = Stop(E[f[i + 1]])
      OBVIOUS
    <3> PICK r : r = E[a].at
      OBVIOUS
    <3> PICK c : c = bits[i]
      OBVIOUS
    <3> PICK d : d = bits[i + 1]
      OBVIOUS
    <3>1. p \in Nat /\ q \in Nat /\ r \in Nat /\ c \in Int
      BY <2>3, <2>5
    <3>2. d = c + (q - p) /\ p = r + c
      BY <2>2, <2>4
    <3>3. d = q - r
      BY <3>1, <3>2
    <3> QED
      BY <3>3
  <2>8. ASSUME (i + 1) + 1 <= n PROVE E[f[i + 1] + 1].at = E[a].at + bits[i + 1]
    <3>1. (i + 1) + 1 \in 1..n /\ ((i + 1) + 1) - 1 = i + 1
      BY <2>8, <1>1
    <3>0. CallWord(E, a, b, f[((i + 1) + 1) - 1], f[(i + 1) + 1])
      BY <3>1, CallTypes
    <3>2. f[i + 1] + 1 \in 1..Len(E)
      BY <3>0, <3>1 DEF CallWord
    <3>3. Stop(E[f[i + 1]]) = E[f[i + 1] + 1].at
      BY <3>2, <2>3 DEF Chain, Stop
    <3> QED
      BY <3>3, <2>3, <2>5, <2>7
  <2> QED
    BY <2>6, <2>7, <2>8
<1>9. Nat \subseteq T
  BY <1>7, <1>8, SetInduction
<1>10. ASSUME NEW i \in 1..n
       PROVE  bits[i] = Stop(E[f[i]]) - E[a].at /\ E[f[i - 1] + 1].at = E[a].at + bits[i - 1]
  <2>1. i \in Nat /\ i <= n /\ i # 0 /\ i - 1 \in Nat /\ i - 1 <= n /\ (i - 1) + 1 <= n
    BY <1>1
  <2>2. i \in T /\ i - 1 \in T
    BY <2>1, <1>9
  <2> QED
    BY <2>1, <2>2
<1>11. ASSUME NEW i \in 0..n PROVE members[i] = f[i] - (a - 1)
  <2>1. i \in Nat /\ i <= n
    BY <1>1
  <2> QED
    BY <2>1, <1>9
<1> QED
  BY <1>4, <1>10, <1>11

LEMMA SubSeqFacts ==
  ASSUME NEW S, NEW s \in Seq(S), NEW i \in 1..Len(s), NEW j \in 1..Len(s), i <= j
  PROVE  /\ Len(SubSeq(s, i, j)) = j - i + 1 /\ DOMAIN SubSeq(s, i, j) = 1..(j - i + 1)
         /\ \A x \in 1..(j - i + 1) : SubSeq(s, i, j)[x] = s[i + x - 1]
OBVIOUS

\* A struct call starts with the first entry of its member.
LEMMA CallFirst ==
  ASSUME NEW E, NEW s, NEW f, NEW a, NEW b, Chain(E), CallRuns(E, s, f, a, b)
  PROVE  (CHOOSE i \in DOMAIN E : E[i].m = s.m /\ E[i].k = 0) = a
<1>1. a \in DOMAIN E /\ E[a].m = s.m /\ E[a].k = 0 /\ DOMAIN E = 1..Len(E)
  BY ChainTypes DEF CallRuns
<1>2. ASSUME NEW i \in DOMAIN E, E[i].m = s.m, E[i].k = 0 PROVE i = a
  <2>1. Key(E[i]) = Key(E[a])
    BY <1>1, <1>2 DEF Key
  <2> QED
    BY <2>1, <1>1 DEF Chain
<1> QED
  BY <1>1, <1>2

CallWordAt(E, w, at, from, to, x, y) ==
    /\ w.at = at /\ w.es = SubSeq(E, from, to)
    /\ w.bits = E[y].at + E[y].bits - E[x + 1].at
WordMade(E, w, at, bits, from, to, x, y) ==
    /\ w = [at |-> at, bits |-> bits, es |-> SubSeq(E, from, to)]
    /\ bits = Stop(E[y]) - E[x + 1].at
    /\ E[y].at \in Nat /\ E[y].bits \in Nat /\ E[x + 1].at \in Nat
\* The fields of a word of a call.
LEMMA WordFields ==
  ASSUME NEW E, NEW at, NEW bits, NEW from, NEW to, NEW x, NEW y, NEW w,
         WordMade(E, w, at, bits, from, to, x, y)
  PROVE  CallWordAt(E, w, at, from, to, x, y)
<1>1. w.at = at /\ w.bits = bits /\ w.es = SubSeq(E, from, to)
  BY DEF WordMade
<1>2. bits = E[y].at + E[y].bits - E[x + 1].at
  BY DEF Stop, WordMade
<1> QED
  BY <1>1, <1>2 DEF CallWordAt

\* Every word of a call holds the elements between its ends.
LEMMA CallWordIs ==
  ASSUME NEW E, NEW s, NEW f, NEW a, NEW b, Chain(E), CallRuns(E, s, f, a, b), NEW i \in 1..Len(s.words)
  PROVE  WordIs(E, StructWords(E, s)[i], f[i - 1] + 1, f[i])
<1> PICK bits : bits = Sums([j \in DOMAIN s.words |-> s.words[j].bits])
  OBVIOUS
<1> PICK members : members = Sums([j \in DOMAIN s.words |-> s.words[j].members])
  OBVIOUS
<1> PICK first : first = CHOOSE j \in DOMAIN E : E[j].m = s.m /\ E[j].k = 0
  OBVIOUS
<1>1. first = a
  BY CallFirst
<1> PICK w : w = StructWords(E, s)[i]
  OBVIOUS
<1> PICK x : x = f[i - 1]
  OBVIOUS
<1> PICK y : y = f[i]
  OBVIOUS
<1>2. /\ CallWord(E, a, b, x, y) /\ i \in DOMAIN s.words /\ i - 1 \in 0..Len(s.words) /\ i \in 0..Len(s.words)
      /\ a \in Nat
  BY CallTypes
<1>3. w = [at |-> 8 * s.at + bits[i - 1], bits |-> s.words[i].bits,
           es |-> SubSeq(E, first + members[i - 1], first + members[i] - 1)]
  BY <1>2 DEF StructWords
<1>4. CallWordAt(E, w, 8 * s.at + bits[i - 1], first + members[i - 1], first + members[i] - 1, x, y)
  <2>1. s.words[i].bits = Stop(E[y]) - E[x + 1].at
    BY DEF CallRuns
  <2>2. E[y].at \in Nat /\ E[y].bits \in Nat /\ E[x + 1].at \in Nat
    BY <1>2 DEF CallWord
  <2> PICK at : at = 8 * s.at + bits[i - 1]
    OBVIOUS
  <2> PICK from : from = first + members[i - 1]
    OBVIOUS
  <2> PICK to : to = first + members[i] - 1
    OBVIOUS
  <2> PICK wide : wide = s.words[i].bits
    OBVIOUS
  <2>3. w = [at |-> at, bits |-> wide, es |-> SubSeq(E, from, to)]
    BY <1>3
  <2>4. wide = Stop(E[y]) - E[x + 1].at
    BY <2>1
  <2>5. CallWordAt(E, w, at, from, to, x, y)
    <3>1. WordMade(E, w, at, wide, from, to, x, y)
      BY <2>2, <2>3, <2>4, Zenon DEF WordMade
    <3> QED
      BY <3>1, WordFields, Zenon
  <2> QED
    BY <2>5
<1>5. members[i - 1] = x - (a - 1) /\ members[i] = y - (a - 1) /\ E[x + 1].at = E[a].at + bits[i - 1]
  BY <1>2, CallSums
<1>6. first + members[i - 1] = x + 1 /\ first + members[i] - 1 = y
  <2>1. x \in Nat /\ y \in Nat
    BY <1>2 DEF CallWord
  <2>2. a + (x - (a - 1)) = x + 1 /\ a + (y - (a - 1)) - 1 = y
    BY <2>1, <1>2
  <2> QED
    BY <2>2, <1>1, <1>5, Zenon
<1>7. w.at = E[x + 1].at
  BY <1>4, <1>5 DEF CallRuns, CallWordAt
<1>8. w.bits = E[y].at + E[y].bits - E[x + 1].at
  BY <1>4 DEF CallWordAt
<1>9. x \in Nat /\ y \in Nat /\ x + 1 \in 1..Len(E) /\ y \in 1..Len(E) /\ x + 1 <= y
  BY <1>2 DEF CallWord
<1> PICK z : z = x + 1
  OBVIOUS
<1>10. w.es = SubSeq(E, z, y) /\ z \in 1..Len(E) /\ y \in 1..Len(E) /\ z <= y
  BY <1>4, <1>6, <1>9 DEF CallWordAt
<1>11. /\ Len(w.es) = y - z + 1 /\ DOMAIN w.es = 1..(y - z + 1)
       /\ \A l \in 1..(y - z + 1) : w.es[l] = E[z + l - 1]
  <2>1. E \in Seq(ElementSet)
    BY DEF Chain
  <2> QED
    BY <2>1, <1>10, SubSeqFacts, SMTT(60)
<1>12. WordIs(E, w, z, y)
  BY <1>7, <1>8, <1>10, <1>11 DEF WordIs
<1> QED
  BY <1>12

\* Every element of a call is in one of its words.
LEMMA CallCovers ==
  ASSUME NEW E, NEW s, NEW f, NEW a, NEW b, Chain(E), CallRuns(E, s, f, a, b), NEW l \in a..b
  PROVE  \E i \in 1..Len(s.words) : f[i - 1] + 1 <= l /\ l <= f[i]
<1> PICK n : n = Len(s.words)
  OBVIOUS
<1>1. n \in Nat /\ n # 0 /\ a \in Nat /\ b \in Nat /\ f[0] = a - 1 /\ f[n] = b /\ l \in Nat /\ a <= l /\ l <= b
      /\ \A i \in 0..n : f[i] \in Nat
  BY CallTypes DEF CallRuns
<1> DEFINE T == {i \in Nat : i <= n /\ l <= f[i] => \E j \in 1..n : f[j - 1] + 1 <= l /\ l <= f[j]}
<1>2. 0 \in T
  BY <1>1
<1>3. ASSUME NEW i \in Nat, i \in T PROVE i + 1 \in T
  <2> SUFFICES ASSUME i + 1 <= n, l <= f[i + 1] PROVE \E j \in 1..n : f[j - 1] + 1 <= l /\ l <= f[j]
    OBVIOUS
  <2>1. i <= n /\ i \in 0..n /\ i + 1 \in 1..n /\ (i + 1) - 1 = i
    BY <1>1
  <2>2. CASE l <= f[i]
    BY <2>1, <2>2, <1>3
  <2>3. CASE ~(l <= f[i])
    <3>1. f[i] + 1 <= l
      BY <2>1, <2>3, <1>1
    <3>2. f[(i + 1) - 1] + 1 <= l
      BY <3>1, <2>1
    <3> QED
      BY <3>2, <2>1
  <2> QED
    BY <2>2, <2>3
<1>4. Nat \subseteq T
  BY <1>2, <1>3, SetInduction
<1> QED
  BY <1>1, <1>4

\* The end of a call in bits and in bytes.
LEMMA CallEnd ==
  ASSUME NEW p \in Nat, NEW t \in Nat, NEW d, d = t - 8 * p, 8 * p <= t, t % 8 = 0
  PROVE  p + d \div 8 \in Nat /\ 8 * (p + d \div 8) = t
OBVIOUS

\* A struct call stores its elements where they belong.
LEMMA CallStores ==
  ASSUME NEW E, NEW s, NEW a, NEW b, Chain(E), CallFits(E, s, a, b)
  PROVE  StoresStruct(E, s, a, b)
<1> PICK f : CallRuns(E, s, f, a, b)
  BY DEF CallFits
<1> PICK n : n = Len(s.words)
  OBVIOUS
<1>1. /\ n \in Nat /\ n # 0 /\ n \in 1..n /\ DOMAIN s.words = 1..n
      /\ a \in 1..Len(E) /\ b \in 1..Len(E) /\ a <= b /\ s.op = "struct" /\ s.at \in Nat
      /\ f[n] = b /\ E[a].at = 8 * s.at /\ Stop(E[b]) % 8 = 0
  BY CallTypes DEF CallRuns
<1>2. ASSUME NEW i \in 1..n
      PROVE  /\ f[i - 1] + 1 \in a..b /\ f[i] \in a..b
             /\ WordIs(E, StructWords(E, s)[i], f[i - 1] + 1, f[i])
  <2>1. CallWord(E, a, b, f[i - 1], f[i])
    BY CallTypes
  <2> QED
    BY <2>1, CallWordIs DEF CallWord
<1> PICK words : words = StructWords(E, s)
  OBVIOUS
<1>3. ToSet(words) = {words[i] : i \in 1..n}
  <2>1. DOMAIN words = 1..n
    BY <1>1 DEF StructWords
  <2> QED
    BY <2>1 DEF ToSet
<1>4. \A w \in ToSet(words) : \E i \in a..b, j \in a..b : WordIs(E, w, i, j)
  BY <1>2, <1>3
<1>5. \A l \in a..b : \E w \in ToSet(words) : \E i \in a..b, j \in a..b : WordIs(E, w, i, j) /\ i <= l /\ l <= j
  <2> TAKE l \in a..b
  <2>1. PICK i \in 1..n : f[i - 1] + 1 <= l /\ l <= f[i]
    BY CallCovers
  <2> QED
    BY <2>1, <1>2, <1>3
<1>6. WordsFit(E, words, a, b)
  BY <1>1, <1>4, <1>5 DEF WordsFit
<1> PICK x : x = [i \in DOMAIN s.words |-> s.words[i].bits]
  OBVIOUS
<1>7. Total(x) = Stop(E[b]) - E[a].at
  <2>1. Len(x) = n
    BY <1>1
  <2> PICK bits : bits = Sums([i \in DOMAIN s.words |-> s.words[i].bits])
    OBVIOUS
  <2> PICK members : members = Sums([i \in DOMAIN s.words |-> s.words[i].members])
    OBVIOUS
  <2>3. \A i \in 1..n : bits[i] = Stop(E[f[i]]) - E[a].at
    BY CallSums
  <2>2. Sums(x)[n] = Stop(E[f[n]]) - E[a].at
    BY <2>3, <1>1
  <2> QED
    BY <2>1, <2>2, <1>1 DEF Total
<1>8. StructEnd(s) = s.at + Total(x) \div 8
  BY DEF StructEnd
<1>9. Stop(E[b]) \in Nat /\ E[a].at <= Stop(E[b])
  <2>1. E[a].at \in Nat /\ E[a].bits \in Nat /\ E[b].at \in Nat /\ E[b].bits \in Nat
    BY <1>1, ChainTypes
  <2>2. a = b \/ a < b
    BY <1>1, ChainTypes
  <2>3. a < b => E[a].at + E[a].bits <= E[b].at
    BY <1>1 DEF Chain
  <2> QED
    BY <2>1, <2>2, <2>3 DEF Stop
<1>10. StructEnd(s) \in Nat /\ 8 * StructEnd(s) = Stop(E[b])
  <2> PICK d : d = Total(x)
    OBVIOUS
  <2>1. d = Stop(E[b]) - 8 * s.at /\ 8 * s.at <= Stop(E[b])
    BY <1>1, <1>7, <1>9
  <2>2. s.at + d \div 8 \in Nat /\ 8 * (s.at + d \div 8) = Stop(E[b])
    BY <2>1, <1>1, <1>9, CallEnd, ZenonT(120)
  <2> QED
    BY <2>2, <1>8
<1>11. Stop(E[b]) = E[b].at + E[b].bits
  BY DEF Stop
<1> QED
  BY <1>1, <1>6, <1>10, <1>11 DEF StoresStruct

\* The call s with one more word, and a call of one word.
WithWord(s, w) == [s EXCEPT !.words = @ \o <<w>>]
Joined(k, w) == [k EXCEPT ![Len(k)].words = @ \o <<w>>]

LEMMA ConcatOne ==
  ASSUME NEW s, Listed(s), NEW x
  PROVE  /\ Listed(s \o <<x>>) /\ Len(s \o <<x>>) = Len(s) + 1
         /\ \A i \in 1..Len(s) : (s \o <<x>>)[i] = s[i]
         /\ (s \o <<x>>)[Len(s) + 1] = x
<1>1. PICK S : s \in Seq(S)
  BY DEF Listed
<1> PICK T : T = S \cup {x}
  OBVIOUS
<1>2. s \in Seq(T) /\ x \in T
  <2>1. S \subseteq T /\ x \in T
    OBVIOUS
  <2> QED
    BY <1>1, <2>1, SeqMonotonic
<1>3. <<x>> \in Seq(T) /\ Len(<<x>>) = 1 /\ <<x>>[1] = x
  BY <1>2
<1> PICK t : t = <<x>>
  OBVIOUS
<1>4. t \in Seq(T) /\ Len(t) = 1 /\ t[1] = x
  BY <1>3
<1>5. /\ s \o t \in Seq(T) /\ Len(s \o t) = Len(s) + 1
      /\ \A i \in 1..Len(s) : (s \o t)[i] = s[i]
      /\ \A i \in 1..1 : (s \o t)[Len(s) + i] = t[i]
  BY <1>2, <1>4, ConcatIndex
<1>6. (s \o t)[Len(s) + 1] = x
  BY <1>4, <1>5
<1> QED
  BY <1>5, <1>6 DEF Listed

HasWord(s, w, t) ==
    IsCall(t) /\ t.op = "struct" /\ t.m = s.m /\ t.at = s.at /\ t.words = s.words \o <<w>>
\* What a call with one more word is.
LEMMA WithWordFields ==
  ASSUME NEW s, IsCall(s), NEW w, NEW t, t = WithWord(s, w)
  PROVE  HasWord(s, w, t)
<1>1. PICK at, m, words : s = Fmt(at, m, words)
  BY DEF IsCall
<1>2. s.at = at /\ s.m = m /\ s.words = words
  BY <1>1 DEF Fmt
<1>3. t = Fmt(at, m, words \o <<w>>)
  BY <1>1 DEF Fmt, WithWord
<1>4. t.op = "struct" /\ t.m = m /\ t.at = at /\ t.words = words \o <<w>>
  BY <1>3 DEF Fmt
<1> QED
  BY <1>2, <1>3, <1>4, Zenon DEF IsCall, HasWord

\* A call to which a word is put stores the elements of this word too.
LEMMA CallExtends ==
  ASSUME NEW E, NEW s, NEW a, NEW b, Chain(E), CallFits(E, s, a, b), NEW j \in 1..Len(E), b < j,
         Stop(E[j]) % 8 = 0
  PROVE  CallFits(E, WithWord(s, Word(Stop(E[j]) - E[b + 1].at, j - b)), a, j)
<1> PICK f : CallRuns(E, s, f, a, b)
  BY DEF CallFits
<1> PICK w : w = Word(Stop(E[j]) - E[b + 1].at, j - b)
  OBVIOUS
<1> PICK t : t = WithWord(s, w)
  OBVIOUS
<1> PICK n : n = Len(s.words)
  OBVIOUS
<1> PICK g : g = [i \in 0..(n + 1) |-> IF i = n + 1 THEN j ELSE f[i]]
  OBVIOUS
<1>1. /\ a \in 1..Len(E) /\ a \in Nat /\ b \in Nat /\ a <= b /\ n \in Nat /\ Len(E) \in Nat /\ n # 0
      /\ IsCall(s) /\ s.op = "struct" /\ s.at \in Nat /\ Listed(s.words)
      /\ E[a].m = s.m /\ E[a].k = 0 /\ E[a].at = 8 * s.at /\ f[0] = a - 1 /\ f[n] = b
  BY CallTypes, SMTT(60) DEF CallRuns
<1>2. IsCall(t) /\ t.op = "struct" /\ t.m = s.m /\ t.at = s.at /\ t.words = s.words \o <<w>>
  <2>1. HasWord(s, w, t)
    BY <1>1, WithWordFields
  <2> QED
    BY <2>1 DEF HasWord
<1>3. /\ Listed(t.words) /\ Len(t.words) = n + 1
      /\ \A i \in 1..n : t.words[i] = s.words[i]
      /\ t.words[n + 1] = w
  <2> PICK u : u = s.words
    OBVIOUS
  <2>1. Listed(u) /\ Len(u) = n
    BY <1>1
  <2>2. /\ Listed(u \o <<w>>) /\ Len(u \o <<w>>) = n + 1
        /\ \A i \in 1..n : (u \o <<w>>)[i] = u[i]
        /\ (u \o <<w>>)[n + 1] = w
    BY <2>1, ConcatOne
  <2>3. t.words = u \o <<w>>
    BY <1>2
  <2> QED
    BY <2>2, <2>3
<1>4. /\ \A i \in 0..n : g[i] = f[i] /\ i \in 0..(n + 1)
      /\ g[n + 1] = j /\ g[0] = f[0] /\ g[n] = f[n] /\ (n + 1) - 1 = n
      /\ \A i \in 0..(n + 1) : i \in 0..n \/ i = n + 1
      /\ \A i \in 1..(n + 1) : i \in 1..n \/ i = n + 1
      /\ \A i \in 1..n : i \in 0..n /\ i - 1 \in 0..n
  BY <1>1, SMTT(60)
<1>5. ASSUME NEW i \in 0..(n + 1) PROVE g[i] \in (a - 1)..j
  <2>1. CASE i = n + 1
    <3>1. j \in (a - 1)..j
      BY <1>1
    <3> QED
      BY <2>1, <3>1, <1>4
  <2>2. CASE i \in 0..n
    <3>1. f[i] \in (a - 1)..b
      BY <2>2 DEF CallRuns
    <3>2. \A x \in (a - 1)..b : x \in (a - 1)..j
      BY <1>1
    <3> QED
      BY <2>2, <3>1, <3>2, <1>4
  <2> QED
    BY <2>1, <2>2, <1>4
<1>6. ASSUME NEW i \in 1..(n + 1)
      PROVE  /\ g[i - 1] < g[i] /\ t.words[i].members = g[i] - g[i - 1]
             /\ t.words[i].bits = Stop(E[g[i]]) - E[g[i - 1] + 1].at
  <2>1. CASE i = n + 1
    <3>1. w.members = j - b /\ w.bits = Stop(E[j]) - E[b + 1].at
      BY DEF Word
    <3>2. g[i] = j /\ g[i - 1] = b /\ t.words[i] = w
      BY <2>1, <1>1, <1>3, <1>4
    <3> QED
      BY <3>1, <3>2
  <2>2. CASE i \in 1..n
    <3>1. g[i] = f[i] /\ g[i - 1] = f[i - 1] /\ t.words[i] = s.words[i]
      BY <2>2, <1>3, <1>4
    <3>2. /\ f[i - 1] < f[i] /\ s.words[i].members = f[i] - f[i - 1]
          /\ s.words[i].bits = Stop(E[f[i]]) - E[f[i - 1] + 1].at
      BY <2>2 DEF CallRuns
    <3> QED
      BY <3>1, <3>2
  <2> QED
    BY <2>1, <2>2, <1>4
<1>7. g[0] = a - 1 /\ a <= j
  BY <1>1, <1>4
<1> HIDE DEF Stop
<1>8. CallRuns(E, t, g, a, j)
  BY <1>1, <1>2, <1>3, <1>4, <1>5, <1>6, <1>7, ZenonT(120) DEF CallRuns
<1> QED
  BY <1>8 DEF CallFits

\* A call of one word stores the elements of this word.
LEMMA CallStarts ==
  ASSUME NEW E, Chain(E), NEW i \in 1..Len(E), NEW j \in 1..Len(E), i <= j, E[i].k = 0,
         E[i].at % 8 = 0, Stop(E[j]) % 8 = 0
  PROVE  CallFits(E, Fmt(E[i].at \div 8, E[i].m, <<Word(Stop(E[j]) - E[i].at, j - i + 1)>>), i, j)
<1> PICK w : w = Word(Stop(E[j]) - E[i].at, j - i + 1)
  OBVIOUS
<1> PICK t : t = Fmt(E[i].at \div 8, E[i].m, <<w>>)
  OBVIOUS
<1> PICK g : g = [x \in 0..1 |-> IF x = 1 THEN j ELSE i - 1]
  OBVIOUS
<1>1. i \in Nat /\ j \in Nat /\ E[i].at \in Nat
  BY ChainTypes
<1>2. t.op = "struct" /\ t.m = E[i].m /\ t.at = E[i].at \div 8 /\ t.words = <<w>> /\ IsCall(t)
  BY DEF Fmt, IsCall
<1>3. t.at \in Nat /\ E[i].at = 8 * t.at
  <2>1. \A p \in Nat : p % 8 = 0 => p \div 8 \in Nat /\ p = 8 * (p \div 8)
    OBVIOUS
  <2> QED
    BY <2>1, <1>1, <1>2, Zenon
<1>4. Listed(<<w>>) /\ Len(<<w>>) = 1 /\ <<w>>[1] = w
  <2>1. <<w>> \in Seq({w})
    OBVIOUS
  <2> QED
    BY <2>1 DEF Listed
<1>5. Listed(t.words) /\ Len(t.words) = 1 /\ t.words[1] = w
  BY <1>2, <1>4
<1>6. g[0] = i - 1 /\ g[1] = j /\ (\A x \in 0..1 : x = 0 \/ x = 1) /\ (\A x \in 1..1 : x = 1) /\ 1 - 1 = 0
      /\ (i - 1) + 1 = i /\ i - 1 \in (i - 1)..j /\ j \in (i - 1)..j /\ i - 1 < j /\ j - i + 1 = j - (i - 1)
  BY <1>1
<1>7. w.bits = Stop(E[j]) - E[i].at /\ w.members = j - i + 1
  BY DEF Word
<1>8. \A x \in 0..1 : g[x] \in (i - 1)..j
  BY <1>6
<1>9. \A x \in 1..1 : /\ g[x - 1] < g[x] /\ t.words[x].members = g[x] - g[x - 1]
                      /\ t.words[x].bits = Stop(E[g[x]]) - E[g[x - 1] + 1].at
  BY <1>5, <1>6, <1>7
<1>10. CallRuns(E, t, g, i, j)
  <2> PICK u : u = t.words
    OBVIOUS
  <2>1. Listed(u) /\ Len(u) = 1
    BY <1>5
  <2>2. /\ IsCall(t) /\ t.op = "struct" /\ t.at \in Nat /\ E[i].m = t.m /\ E[i].k = 0
        /\ E[i].at = 8 * t.at
    BY <1>2, <1>3, ZenonT(30)
  <2>3. g[0] = i - 1 /\ g[Len(u)] = j /\ \A x \in 0..Len(u) : g[x] \in (i - 1)..j
    BY <2>1, <1>6, <1>8
  <2>4. \A x \in 1..Len(u) : /\ g[x - 1] < g[x] /\ u[x].members = g[x] - g[x - 1]
                              /\ u[x].bits = Stop(E[g[x]]) - E[g[x - 1] + 1].at
    BY <2>1, <1>9
  <2> HIDE DEF Stop
  <2> QED
    BY <2>1, <2>2, <2>3, <2>4, ZenonT(30) DEF CallRuns
<1> QED
  BY <1>10 DEF CallFits

-----------------------------------------------------------------------------
(* Formats: what each is, by the member that starts it, and where it ends. *)

\* What a format that starts with the element i is, when it ends with j.
ObjectRun(M, e, f) ==
    f.op = "object" /\ isObject(M[e.m]) /\ e.at % 8 = 0 /\ (f.bits = e.bits \/ e.m = Len(M))
BytesRun(M, e, f) ==
    /\ f.op = "bytes" /\ IsData(M[e.m]) /\ ~isObject(M[e.m]) /\ e.k = 0
    /\ f.bits = e.bits /\ e.bits = lenBits(M[e.m])
    /\ e.at % 8 = 0 /\ Stop(e) % 8 = 0
ArrayOf(M, m) == Array(m, Offset(M, m) \div 8, M[m].bits, M[m].count)
ArrayRun(M, E, i, j, f) ==
    /\ f.op = "array" /\ Entered(E, ArrayOf(M, E[i].m), i, j)
    /\ f.bits = Stop(E[j]) - E[i].at
    /\ \A x \in i..j : ~IsData(M[E[x].m]) /\ ~isObject(M[E[x].m])
StructRun(M, E, i, j, f) ==
    /\ f.op = "struct" /\ f.words = <<Word(f.bits, j - i + 1)>>
    /\ f.bits = Stop(E[j]) - E[i].at
    /\ E[i].at % 8 = 0 /\ Stop(E[j]) % 8 = 0
    /\ \A x \in i..j : ~IsData(M[E[x].m]) /\ ~isObject(M[E[x].m])
    /\ E[i].k = 0 \/ (i - 1 \in 1..Len(E) /\ E[i - 1].m = E[i].m)
FormatIs(M, E, i, j) ==
    LET f == structFormat(M, E[i])
    IN  \/ i = j /\ ObjectRun(M, E[i], f)
        \/ i = j /\ BytesRun(M, E[i], f)
        \/ ArrayRun(M, E, i, j, f)
        \/ StructRun(M, E, i, j, f)
EndsAt(M, E, i, j) ==
    /\ i \in 1..Len(E) /\ j \in 1..Len(E) /\ i <= j
    /\ \A x \in Int : i + 1 <= x /\ x <= j => ~StartsFormat(M, E[x])
    /\ j = Len(E) \/ StartsFormat(M, E[j + 1])
    /\ structFormat(M, E[j]).op = structFormat(M, E[i]).op

\* The format depends on the member only.
LEMMA FormatShared ==
  ASSUME NEW M, NEW d, NEW e, d.m = e.m
  PROVE  structFormat(M, d) = structFormat(M, e)
BY DEF structFormat

\* The fields of a format.
LEMMA FormatFields ==
  ASSUME NEW op, NEW bits, NEW words
  PROVE  /\ Format(op, bits, words).op = op /\ Format(op, bits, words).bits = bits
         /\ Format(op, bits, words).words = words
BY DEF Format

\* Behind a member that is apart, or the last of its group, another format starts.
LEMMA NextStarts ==
  ASSUME NEW M, GoodMembers(M), NEW m \in 1..Len(M), m + 1 \in 1..Len(M),
         Apart(M, m) \/ m + 1 \notin groupMB(M, m), NEW e, e.m = m + 1, e.k = 0
  PROVE  StartsFormat(M, e)
<1>1. CASE Apart(M, m + 1)
  BY <1>1 DEF StartsFormat
<1>2. CASE ~Apart(M, m + 1)
  <2>1. m + 1 \notin groupMB(M, m)
    <3>1. m + 1 \in groupMB(M, m) => (Apart(M, m + 1) <=> Apart(M, m))
      BY ApartShared
    <3> QED
      BY <1>2, <3>1
  <2>2. ASSUME NEW z \in groupMB(M, m + 1) PROVE m + 1 <= z
    <3>1. z \in 1..Len(M)
      BY GroupFacts
    <3>2. m \in groupMB(M, m + 1) => groupMB(M, m) = groupMB(M, m + 1)
      BY GroupFacts
    <3>3. m + 1 \in groupMB(M, m + 1)
      BY GroupFacts
    <3>4. m \notin groupMB(M, m + 1)
      BY <2>1, <3>2, <3>3
    <3>5. ~(z <= m)
      <4>1. m \in Int /\ (z <= m => z <= m /\ m <= m + 1)
        BY MembersLen
      <4>2. z <= m /\ m <= m + 1 => m \in groupMB(M, m + 1)
        BY <4>1, GroupFacts
      <4> QED
        BY <3>4, <4>1, <4>2
    <3> QED
      BY <3>1, <3>5, MembersLen
  <2> QED
    BY <1>2, <2>2 DEF StartsFormat
<1> QED
  BY <1>1, <1>2

\* What follows the last entry of a member, and what precedes an entry.
LEMMA AfterMember ==
  ASSUME NEW M, GoodMembers(M), NEW E, E = ElementsOf(M), NEW j \in 1..Len(E),
         E[j].k + 1 = Entries(M[E[j].m]), Apart(M, E[j].m) \/ E[j].m + 1 \notin groupMB(M, E[j].m)
  PROVE  j = Len(E) \/ StartsFormat(M, E[j + 1])
<1> PICK m : m = E[j].m
  OBVIOUS
<1>1. m \in 1..Len(M)
  BY ElementAt
<1>2. CASE m = Len(M)
  <2>1. E[j].k + 1 = Entries(M[E[j].m]) => (E[j].m = Len(M) => j = Len(E))
    BY Successor
  <2> QED
    BY <2>1, <1>2
<1>3. CASE m # Len(M)
  <2>1. m + 1 \in 1..Len(M) /\ E[j + 1].m = m + 1 /\ E[j + 1].k = 0
    BY <1>3, Successor
  <2> PICK e : e = E[j + 1]
    OBVIOUS
  <2>2. StartsFormat(M, e)
    BY <1>1, <2>1, NextStarts
  <2> QED
    BY <2>2
<1> QED
  BY <1>2, <1>3

\* Before an entry that is not the first comes one of the same member.
LEMMA Preceding ==
  ASSUME NEW M, GoodMembers(M), NEW E, E = ElementsOf(M), NEW i \in 1..Len(E), E[i].k # 0
  PROVE  i - 1 \in 1..Len(E) /\ E[i - 1].m = E[i].m
<1> PICK m : m = E[i].m
  OBVIOUS
<1> PICK k : k = E[i].k
  OBVIOUS
<1>1. m \in 1..Len(M) /\ k \in 0..(Entries(M[m]) - 1) /\ k # 0 /\ i = Index(M, m, k)
  BY ElementAt
<1>2. Entries(M[m]) \in Nat
  BY <1>1, MemberFacts
<1>3. k - 1 \in 0..(Entries(M[m]) - 1)
  BY <1>1, <1>2
<1>4. Index(M, m, k - 1) \in 1..Len(E) /\ E[Index(M, m, k - 1)] = Element(M, m, k - 1)
  BY <1>1, <1>3, EntryAt
<1>5. Element(M, m, k - 1).m = m
  BY <1>1, <1>3, ElementFields
<1>6. Index(M, m, k - 1) = i - 1
  <2>1. Counts(M)[m - 1] \in Nat
    <3>1. m - 1 \in 0..Len(M)
      BY <1>1, MembersLen
    <3> QED
      BY <3>1, CountsFacts
  <2> QED
    BY <2>1, <1>1, <1>2, SMTT(60) DEF Index
<1> QED
  BY <1>4, <1>5, <1>6

\* What is in the members' own formats.
Own(M, m) == formatSinglePack(M[m])
OwnIs(M, m, x) ==
    /\ isObject(x) => Own(M, m) = Format("object", lenBits(x), <<>>) /\ ~IsData(x)
    /\ IsData(x) => Own(M, m) = Format("bytes", lenBits(x), <<>>) /\ ~isObject(x)
    /\ ~isObject(x) /\ ~IsData(x) /\ (x.count = 1 \/ x.bits \in {16, 32}) =>
         Own(M, m) = Format("struct", x.bits, <<Word(x.bits, 1)>>)
    /\ ~isObject(x) /\ ~IsData(x) /\ ~(x.count = 1 \/ x.bits \in {16, 32}) =>
         /\ Own(M, m) = Format("array", lenBits(x), <<>>)
         /\ x.count > 1 /\ x.bits \in {1, 2, 4, 64}
LEMMA OwnFacts ==
  ASSUME NEW M, GoodMembers(M), NEW m \in 1..Len(M), NEW x, x = M[m]
  PROVE  OwnIs(M, m, x)
<1>1. IsData(x) => ~isObject(x)
  BY DEF IsData
<1>2. isObject(x) => Own(M, m) = Format("object", lenBits(x), <<>>)
  BY <1>1, Zenon DEF Own, formatSinglePack
<1>3. IsData(x) => Own(M, m) = Format("bytes", lenBits(x), <<>>)
  BY <1>1 DEF Own, formatSinglePack
<1>4. ~isObject(x) /\ ~IsData(x) /\ (x.count = 1 \/ x.bits \in {16, 32}) =>
        Own(M, m) = Format("struct", x.bits, <<Word(x.bits, 1)>>)
  BY DEF Own, formatSinglePack
<1>5. ~isObject(x) /\ ~IsData(x) /\ ~(x.count = 1 \/ x.bits \in {16, 32}) =>
        Own(M, m) = Format("array", lenBits(x), <<>>)
  BY DEF Own, formatSinglePack
<1>6. ASSUME ~isObject(x), ~IsData(x), ~(x.count = 1 \/ x.bits \in {16, 32})
      PROVE  x.count > 1 /\ x.bits \in {1, 2, 4, 64}
  <2>1. x.count \in Nat \ {0} /\ x.bits \in Nat \ {0}
    BY MemberFacts
  <2>2. x.count > 1
    BY <2>1, <1>6
  <2>3. x.bits \in {1, 2, 4, 8, 16, 32, 64}
    BY <2>2, <1>6 DEF GoodMembers
  <2>4. x.bits # 8
    BY <1>6 DEF IsData
  <2> QED
    BY <2>2, <2>3, <2>4, <1>6
<1> QED
  BY <1>1, <1>2, <1>3, <1>4, <1>5, <1>6 DEF OwnIs

\* The format of an element of a member that is apart is the member's own.
LEMMA ApartFormat ==
  ASSUME NEW M, NEW e, Apart(M, e.m)
  PROVE  structFormat(M, e) = Own(M, e.m)
         /\ (StartsFormat(M, e) <=> (Own(M, e.m).op = "array" => e.k = 0))
BY DEF structFormat, StartsFormat, Own

\* A format of its own that is no array is one element long.
LEMMA SingleEnds ==
  ASSUME NEW M, GoodMembers(M), NEW E, E = ElementsOf(M), NEW i \in 1..Len(E),
         Apart(M, E[i].m), Own(M, E[i].m).op # "array"
  PROVE  EndsAt(M, E, i, i)
<1>1. i \in Nat /\ i <= i /\ \A x \in Int : ~(i + 1 <= x /\ x <= i)
  BY ElementsTyped
<1>2. i = Len(E) \/ StartsFormat(M, E[i + 1])
  <2>1. CASE E[i].k + 1 = Entries(M[E[i].m])
    BY <2>1, AfterMember
  <2>2. CASE E[i].k + 1 # Entries(M[E[i].m])
    <3>1. E[i].k + 1 < Entries(M[E[i].m])
      <4>1. E[i].k + 1 \in 1..Entries(M[E[i].m])
        BY Successor
      <4>2. Entries(M[E[i].m]) \in Nat
        BY ElementAt, MemberFacts
      <4> QED
        BY <4>1, <4>2, <2>2
    <3>2. E[i + 1].m = E[i].m
      BY <3>1, Successor
    <3> PICK e : e = E[i + 1]
      OBVIOUS
    <3>3. Apart(M, e.m) /\ Own(M, e.m).op # "array"
      BY <3>2
    <3>4. StartsFormat(M, e)
      BY <3>3, ApartFormat
    <3> QED
      BY <3>4
  <2> QED
    BY <2>1, <2>2
<1> QED
  BY <1>1, <1>2 DEF EndsAt

\* The bits of an element, from those of its member.
LEMMA ElementOwn ==
  ASSUME NEW M, GoodMembers(M), NEW E, E = ElementsOf(M), NEW i \in 1..Len(E),
         NEW m, m = E[i].m, NEW x, x = M[m]
  PROVE  /\ m \in 1..Len(M) /\ E[i].bits = Width(x) /\ E[i].k \in 0..(Entries(x) - 1)
         /\ x.bits \in Nat \ {0} /\ x.count \in Nat \ {0} /\ lenBits(x) \in Nat
         /\ IsData(x) => E[i].bits = lenBits(x) /\ Entries(x) = 1 /\ E[i].k = 0
         /\ ~IsData(x) => E[i].bits = x.bits /\ Entries(x) = x.count
<1>1. m \in 1..Len(M) /\ E[i].bits = Width(x) /\ E[i].k \in 0..(Entries(x) - 1)
  BY ElementAt
<1>2. /\ x.bits \in Nat \ {0} /\ x.count \in Nat \ {0} /\ lenBits(x) \in Nat
      /\ IsData(x) => Width(x) = lenBits(x) /\ Entries(x) = 1
      /\ ~IsData(x) => Width(x) = x.bits /\ Entries(x) = x.count
  BY <1>1, MemberFacts, SMTT(60)
<1> QED
  BY <1>1, <1>2

\* An element of a member apart starts and ends with a byte.
LEMMA Aligned8 ==
  ASSUME NEW M, GoodMembers(M), NEW E, E = ElementsOf(M), NEW i \in 1..Len(E), Apart(M, E[i].m),
         M[E[i].m].bits % 8 = 0 \/ Entries(M[E[i].m]) = 1
  PROVE  E[i].at % 8 = 0 /\ Stop(E[i]) % 8 = 0
<1> PICK m : m = E[i].m
  OBVIOUS
<1> PICK k : k = E[i].k
  OBVIOUS
<1>1. m \in 1..Len(M) /\ k \in 0..(Entries(M[m]) - 1) /\ E[i] = Element(M, m, k)
  BY ElementAt
<1>2. Element(M, m, k).at % 8 = 0 /\ Stop(Element(M, m, k)) % 8 = 0
  BY <1>1, ByteAligned
<1> QED
  BY <1>1, <1>2, Zenon

\* The format of an object.
LEMMA ObjectFormat ==
  ASSUME NEW M, GoodMembers(M), NEW E, E = ElementsOf(M), NEW i \in 1..Len(E), Apart(M, E[i].m), isObject(M[E[i].m])
  PROVE  EndsAt(M, E, i, i) /\ FormatIs(M, E, i, i)
<1> PICK m : m = E[i].m
  OBVIOUS
<1> PICK x : x = M[m]
  OBVIOUS
<1> PICK f : f = structFormat(M, E[i])
  OBVIOUS
<1>1. /\ m \in 1..Len(M) /\ x.bits \in Nat \ {0} /\ x.count \in Nat \ {0}
      /\ ~IsData(x) => E[i].bits = x.bits
  BY ElementOwn
<1>2. f = Own(M, m) /\ Own(M, m) = Format("object", lenBits(x), <<>>) /\ ~IsData(x)
  <2>1. f = Own(M, m)
    BY ApartFormat
  <2>2. isObject(x)
    OBVIOUS
  <2>3. OwnIs(M, m, x)
    BY <1>1, OwnFacts
  <2>4. Own(M, m) = Format("object", lenBits(x), <<>>) /\ ~IsData(x)
    BY <2>2, <2>3 DEF OwnIs
  <2> QED
    BY <2>1, <2>4
<1>3. f.op = "object" /\ f.bits = lenBits(x) /\ Own(M, m).op = "object"
  BY <1>2, FormatFields
<1>4. f.bits = E[i].bits \/ m = Len(M)
  <2>1. x.count > 1 => m = Len(M)
    BY <1>1 DEF GoodMembers
  <2>2. x.count = 1 => lenBits(x) = x.bits
    BY <1>1 DEF lenBits
  <2> QED
    BY <2>1, <2>2, <1>1, <1>2, <1>3
<1>5. x.bits % 8 = 0
  <2>1. Length(x.class) \in Nat /\ x.bits = 8 * Length(x.class)
    BY <1>1 DEF GoodMembers
  <2> QED
    BY <2>1
<1>6. E[i].at % 8 = 0
  BY <1>5, Aligned8
<1>7. FormatIs(M, E, i, i)
  BY <1>3, <1>4, <1>6 DEF FormatIs, ObjectRun
<1>8. EndsAt(M, E, i, i)
  BY <1>3, SingleEnds
<1> QED
  BY <1>7, <1>8

\* The format of a byte string.
LEMMA BytesFormat ==
  ASSUME NEW M, GoodMembers(M), NEW E, E = ElementsOf(M), NEW i \in 1..Len(E), Apart(M, E[i].m), IsData(M[E[i].m])
  PROVE  EndsAt(M, E, i, i) /\ FormatIs(M, E, i, i)
<1> PICK m : m = E[i].m
  OBVIOUS
<1> PICK x : x = M[m]
  OBVIOUS
<1> PICK f : f = structFormat(M, E[i])
  OBVIOUS
<1>1. m \in 1..Len(M) /\ E[i].bits = lenBits(x) /\ Entries(x) = 1 /\ E[i].k = 0
  BY ElementOwn
<1>2. f = Own(M, m) /\ Own(M, m) = Format("bytes", lenBits(x), <<>>) /\ ~isObject(x)
  <2>1. f = Own(M, m)
    BY ApartFormat
  <2>2. IsData(x)
    OBVIOUS
  <2>3. OwnIs(M, m, x)
    BY <1>1, OwnFacts
  <2>4. Own(M, m) = Format("bytes", lenBits(x), <<>>) /\ ~isObject(x)
    BY <2>2, <2>3 DEF OwnIs
  <2> QED
    BY <2>1, <2>4
<1>3. f.op = "bytes" /\ f.bits = lenBits(x) /\ Own(M, m).op = "bytes"
  BY <1>2, FormatFields
<1>4. E[i].at % 8 = 0 /\ Stop(E[i]) % 8 = 0
  BY <1>1, Aligned8
<1>5. FormatIs(M, E, i, i)
  BY <1>1, <1>2, <1>3, <1>4 DEF FormatIs, BytesRun
<1>6. EndsAt(M, E, i, i)
  BY <1>3, SingleEnds
<1> QED
  BY <1>5, <1>6

\* The format of an aligned scalar, or of one entry of an array of them.
LEMMA ScalarFormat ==
  ASSUME NEW M, GoodMembers(M), NEW E, E = ElementsOf(M), NEW i \in 1..Len(E), Apart(M, E[i].m),
         ~isObject(M[E[i].m]), ~IsData(M[E[i].m]), M[E[i].m].count = 1 \/ M[E[i].m].bits \in {16, 32}
  PROVE  EndsAt(M, E, i, i) /\ FormatIs(M, E, i, i)
<1> PICK m : m = E[i].m
  OBVIOUS
<1> PICK x : x = M[m]
  OBVIOUS
<1> PICK f : f = structFormat(M, E[i])
  OBVIOUS
<1>1. m \in 1..Len(M) /\ E[i].bits = x.bits /\ Entries(x) = x.count
  BY ElementOwn
<1>2. f = Own(M, m) /\ Own(M, m) = Format("struct", x.bits, <<Word(x.bits, 1)>>)
  <2>1. f = Own(M, m)
    BY ApartFormat
  <2>2. ~isObject(x) /\ ~IsData(x) /\ (x.count = 1 \/ x.bits \in {16, 32})
    OBVIOUS
  <2>3. OwnIs(M, m, x)
    BY <1>1, OwnFacts
  <2> QED
    BY <2>1, <2>2, <2>3 DEF OwnIs
<1>3. f.op = "struct" /\ f.bits = x.bits /\ f.words = <<Word(x.bits, 1)>> /\ Own(M, m).op = "struct"
  BY ONLY <1>2 DEF Format
<1>4. E[i].at % 8 = 0 /\ Stop(E[i]) % 8 = 0
  <2>1. x.bits % 8 = 0 \/ Entries(x) = 1
    BY <1>1
  <2> QED
    BY <2>1, Aligned8
<1>5. i \in Nat /\ E[i].at \in Nat /\ E[i].bits \in Nat
  BY ElementsTyped
<1>6. f.bits = Stop(E[i]) - E[i].at /\ i - i + 1 = 1 /\ \A y \in i..i : y = i
  BY <1>1, <1>3, <1>5 DEF Stop
<1>7. E[i].k = 0 \/ (i - 1 \in 1..Len(E) /\ E[i - 1].m = E[i].m)
  BY Preceding
<1>8. StructRun(M, E, i, i, f)
  BY <1>3, <1>4, <1>6, <1>7 DEF StructRun
<1>9. EndsAt(M, E, i, i)
  BY <1>3, SingleEnds
<1> QED
  BY <1>8, <1>9 DEF FormatIs

\* The entries of a member of which i is the first.
LEMMA EntriesFrom ==
  ASSUME NEW M, GoodMembers(M), NEW E, E = ElementsOf(M), NEW i \in 1..Len(E),
         NEW m, m = E[i].m, E[i].k = 0, NEW k \in 0..(Entries(M[m]) - 1)
  PROVE  /\ i + k \in 1..Len(E) /\ E[i + k].m = m /\ E[i + k].k = k /\ E[i + k].bits = Width(M[m])
         /\ E[i + k].at = Ends(M)[m - 1] + k * Width(M[m])
<1>1. m \in 1..Len(M) /\ i = Index(M, m, 0)
  BY ElementAt
<1>2. Index(M, m, k) = i + k
  <2>1. Counts(M)[m - 1] \in Nat
    <3>1. m - 1 \in 0..Len(M)
      BY <1>1, MembersLen
    <3> QED
      BY <3>1, CountsFacts
  <2>2. k \in Nat
    OBVIOUS
  <2> QED
    BY <2>1, <2>2, <1>1, SMTT(60) DEF Index
<1>3. Index(M, m, k) \in 1..Len(E) /\ E[Index(M, m, k)] = Element(M, m, k)
  BY <1>1, EntryAt
<1> PICK e : e = Element(M, m, k)
  OBVIOUS
<1>4. e.m = m /\ e.k = k /\ e.bits = Width(M[m]) /\ e.at = Ends(M)[m - 1] + k * Width(M[m])
  BY <1>1, ElementFields
<1>5. i + k \in 1..Len(E) /\ E[i + k] = e
  BY <1>2, <1>3
<1> QED
  BY <1>4, <1>5

ArraySpan(u, n, p) ==
    /\ (u * n) % 32 = 0 /\ p \in Nat /\ p = 8 * (p \div 8) /\ p \div 8 \in Nat
    /\ u * n = ((p + (n - 1) * u) + u) - p
\* The bits of an array packed by pack_array8.
LEMMA ArraySpans ==
  ASSUME NEW u \in {1, 2, 4, 64}, NEW n \in Nat \ {0}, NEW p \in Nat, p % 8 = 0,
         u \in {1, 2, 4} => (u * n) % 32 = 0
  PROVE  ArraySpan(u, n, p)
<1>1. (u * n) % 32 = 0
  <2>1. CASE u = 64
    <3>1. (64 * n) % 32 = 0
      OBVIOUS
    <3> QED
      BY <2>1, <3>1
  <2> QED
    BY <2>1
<1>2. p = 8 * (p \div 8) /\ p \div 8 \in Nat
  OBVIOUS
<1>3. u * n = ((p + (n - 1) * u) + u) - p
  <2>1. CASE u = 1 BY <2>1
  <2>2. CASE u = 2 BY <2>2
  <2>3. CASE u = 4 BY <2>3
  <2>4. CASE u = 64 BY <2>4
  <2> QED
    BY <2>1, <2>2, <2>3, <2>4
<1> QED
  BY <1>1, <1>2, <1>3 DEF ArraySpan

\* The format of such an array.
LEMMA ArrayFormat ==
  ASSUME NEW M, GoodMembers(M), NEW E, E = ElementsOf(M), NEW i \in 1..Len(E), Apart(M, E[i].m),
         ~isObject(M[E[i].m]), ~IsData(M[E[i].m]), ~(M[E[i].m].count = 1 \/ M[E[i].m].bits \in {16, 32}),
         E[i].k = 0
  PROVE  \E j : EndsAt(M, E, i, j) /\ FormatIs(M, E, i, j)
<1> PICK m : m = E[i].m
  OBVIOUS
<1> PICK x : x = M[m]
  OBVIOUS
<1> PICK f : f = structFormat(M, E[i])
  OBVIOUS
<1>0. ~isObject(x) /\ ~IsData(x) /\ ~(x.count = 1 \/ x.bits \in {16, 32}) /\ Apart(M, m)
  OBVIOUS
<1>1. m \in 1..Len(M) /\ E[i].bits = x.bits /\ Entries(x) = x.count /\ x.count \in Nat \ {0} /\ x.bits \in Nat
  BY <1>0, ElementOwn
<1>2. f = Own(M, m)
  BY ApartFormat
<1>3. Own(M, m) = Format("array", lenBits(x), <<>>) /\ x.count > 1 /\ x.bits \in {1, 2, 4, 64}
  <2>1. OwnIs(M, m, x)
    BY <1>1, OwnFacts
  <2> QED
    BY <1>0, <2>1 DEF OwnIs
<1>4. f.op = "array" /\ f.bits = lenBits(x) /\ Own(M, m).op = "array"
  BY <1>2, <1>3, FormatFields
<1> PICK n : n = x.count
  OBVIOUS
<1> PICK u : u = x.bits
  OBVIOUS
<1> PICK p : p = Ends(M)[m - 1]
  OBVIOUS
<1> PICK j : j = i + (n - 1)
  OBVIOUS
<1>5. n \in Nat \ {0} /\ n > 1 /\ u \in {1, 2, 4, 64} /\ Width(x) = u /\ lenBits(x) = u * n
  <2>1. Width(x) = x.bits
    BY <1>0, <1>1, MemberFacts
  <2> QED
    BY <2>1, <1>1, <1>3 DEF lenBits
<1>6. p \in Nat /\ p % 8 = 0 /\ (u \in {1, 2, 4} => (u * n) % 32 = 0)
  <2>1. m - 1 \in 0..Len(M)
    BY <1>1, MembersLen, SMTT(60)
  <2>2. p \in Nat
    BY <2>1, EndsFacts
  <2>3. Ends(M)[m - 1] % 8 = 0 /\ (M[m].bits \in {1, 2, 4} => lenBits(M[m]) % 32 = 0)
    BY <1>0, <1>1, ApartFacts
  <2> QED
    BY <2>2, <2>3, <1>5
<1>7. ArraySpan(u, n, p)
  BY <1>5, <1>6, ArraySpans, ZenonT(120)
<1>8. ASSUME NEW k \in 0..(n - 1)
      PROVE  i + k \in 1..Len(E) /\ E[i + k].m = m /\ E[i + k].k = k /\ E[i + k].bits = u
             /\ E[i + k].at = p + k * u
  <2>1. k \in 0..(Entries(M[m]) - 1)
    BY <1>1
  <2>2. /\ i + k \in 1..Len(E) /\ E[i + k].m = m /\ E[i + k].k = k /\ E[i + k].bits = Width(M[m])
        /\ E[i + k].at = Ends(M)[m - 1] + k * Width(M[m])
    BY <2>1, EntriesFrom
  <2> QED
    BY <2>2, <1>5
<1>9. i \in Nat /\ j \in Nat /\ n - 1 \in 0..(n - 1) /\ 0 \in 0..(n - 1) /\ i <= j /\ j - i + 1 = n
  <2>1. i \in Nat
    BY ElementsTyped
  <2>2. n \in Nat \ {0}
    BY <1>5
  <2>3. \A v \in Nat : \A q \in Nat \ {0} :
            /\ q - 1 \in 0..(q - 1) /\ 0 \in 0..(q - 1)
            /\ v + (q - 1) \in Nat /\ v <= v + (q - 1) /\ (v + (q - 1)) - v + 1 = q
    OBVIOUS
  <2> QED
    BY <2>1, <2>2, <2>3, Zenon
<1>10. ASSUME NEW y \in Int, i <= y, y <= j
       PROVE  /\ E[y].m = m /\ E[y].k = y - i /\ E[y].bits = u /\ E[y].at = p + (y - i) * u
  <2>1. y - i \in 0..(n - 1) /\ i + (y - i) = y
    BY <1>9, <1>10
  <2> PICK k : k = y - i
    OBVIOUS
  <2>2. k \in 0..(n - 1) /\ i + k = y
    BY <2>1
  <2> QED
    BY <2>2, <1>8
<1>11. j \in 1..Len(E) /\ E[j].m = m /\ E[j].k = n - 1 /\ E[j].bits = u /\ E[j].at = p + (n - 1) * u
  BY <1>8, <1>9, ZenonT(30)
<1>12. E[i].at = p
  <2>1. E[i + 0].at = p + 0 * u
    BY <1>8, <1>9
  <2>2. \A v, q, r \in Nat : v + 0 = v /\ q + 0 * r = q
    OBVIOUS
  <2>3. u \in Nat
    <3>1. 1 \in Nat /\ 2 \in Nat /\ 4 \in Nat /\ 64 \in Nat
      OBVIOUS
    <3> QED
      BY <1>5, <3>1, Zenon
  <2>4. i \in Nat
    BY <1>9, Zenon
  <2>5. p \in Nat
    BY <1>6, Zenon
  <2>6. i + 0 = i /\ p + 0 * u = p
    BY <2>2, <2>3, <2>4, <2>5, Zenon
  <2> QED
    BY <2>1, <2>6, Zenon
<1> PICK s : s = ArrayOf(M, m)
  OBVIOUS
<1>13. s.op = "array" /\ s.m = m /\ s.at = p \div 8 /\ s.mlen = u /\ s.count = n
  BY DEF ArrayOf, Array, Offset
<1>14. Entered(E, s, i, j)
  <2>1. s.op = "array" /\ s.at \in Nat /\ s.mlen \in {1, 2, 4, 64} /\ s.count = j - i + 1
        /\ (s.mlen * s.count) % 32 = 0 /\ 8 * s.at = p
    BY <1>5, <1>7, <1>9, <1>13 DEF ArraySpan
  <2>2. ASSUME NEW y \in i..j
        PROVE  /\ E[y].m = s.m /\ E[y].k = y - i /\ E[y].bits = s.mlen
               /\ E[y].at = 8 * s.at + (y - i) * s.mlen
    <3>1. y \in Int /\ i <= y /\ y <= j
      BY <1>9
    <3>2. E[y].m = m /\ E[y].k = y - i /\ E[y].bits = u /\ E[y].at = p + (y - i) * u
      BY <3>1, <1>10
    <3> QED
      BY <3>2, <2>1, <1>13
  <2> QED
    BY <1>9, <1>11, <2>1, <2>2, ZenonT(30) DEF Entered
<1>15. f.bits = Stop(E[j]) - E[i].at
  <2>1. Stop(E[j]) = (p + (n - 1) * u) + u
    BY <1>11 DEF Stop
  <2>2. u * n = ((p + (n - 1) * u) + u) - p
    BY <1>7 DEF ArraySpan
  <2> QED
    BY <2>1, <2>2, <1>4, <1>5, <1>12
<1>16. \A y \in i..j : ~IsData(M[E[y].m]) /\ ~isObject(M[E[y].m])
  <2>1. \A y \in i..j : E[y].m = m
    BY <1>9, <1>10
  <2> QED
    BY <2>1, <1>0
<1>17. ArrayRun(M, E, i, j, f)
  BY <1>4, <1>14, <1>15, <1>16 DEF ArrayRun
<1>18. ASSUME NEW y \in Int, i + 1 <= y, y <= j PROVE ~StartsFormat(M, E[y])
  <2>1. i <= y
    BY <1>9, <1>18
  <2> PICK e : e = E[y]
    OBVIOUS
  <2>2. e.m = m /\ e.k = y - i
    BY <2>1, <1>10, <1>18
  <2>3. e.k # 0
    BY <2>2, <1>9, <1>18
  <2> QED
    BY <2>2, <2>3, <1>0, <1>4, ApartFormat
<1>19. j = Len(E) \/ StartsFormat(M, E[j + 1])
  <2>1. E[j].k + 1 = Entries(M[E[j].m]) /\ Apart(M, E[j].m)
    BY <1>0, <1>1, <1>5, <1>11
  <2> QED
    BY <2>1, <1>11, AfterMember
<1>20. structFormat(M, E[j]) = structFormat(M, E[i])
  BY <1>11, FormatShared
<1>21. EndsAt(M, E, i, j)
  BY <1>9, <1>11, <1>18, <1>19, <1>20, ZenonT(30) DEF EndsAt
<1> QED
  BY <1>17, <1>21 DEF FormatIs

\* The members that share words are elements of their own, one after the other.
GroupRun(E, i, m, last) ==
    \A t \in Nat : m + t <= last => i + t \in 1..Len(E) /\ E[i + t].m = m + t /\ E[i + t].k = 0
LEMMA GroupElements ==
  ASSUME NEW M, GoodMembers(M), NEW E, E = ElementsOf(M), NEW i \in 1..Len(E),
         NEW m, m = E[i].m, E[i].k = 0, ~Apart(M, m)
  PROVE  GroupRun(E, i, m, Last1(M, m))
<1> PICK last : last = Last1(M, m)
  OBVIOUS
<1>1. m \in 1..Len(M)
  BY ElementAt
<1>2. last \in groupMB(M, m) /\ last \in 1..Len(M) /\ m <= last
  BY <1>1, GroupLast
<1>3. m \in Nat /\ last \in Nat /\ i \in Nat /\ last <= Len(M) /\ Len(M) \in Nat /\ m >= 1
  BY <1>1, <1>2, MembersLen, ElementsTyped
<1> DEFINE T == {t \in Nat : m + t <= last =>
                    i + t \in 1..Len(E) /\ E[i + t].m = m + t /\ E[i + t].k = 0}
<1>4. 0 \in T
  <2>1. i + 0 = i /\ m + 0 = m
    BY <1>3
  <2> QED
    BY <2>1
<1>5. ASSUME NEW t \in Nat, t \in T PROVE t + 1 \in T
  <2> SUFFICES ASSUME m + (t + 1) <= last
               PROVE  i + (t + 1) \in 1..Len(E) /\ E[i + (t + 1)].m = m + (t + 1) /\ E[i + (t + 1)].k = 0
    OBVIOUS
  <2>1. m + t <= last /\ i + (t + 1) = (i + t) + 1 /\ m + (t + 1) = (m + t) + 1 /\ m + t # Len(M)
        /\ m <= m + t /\ m + t \in Int
    BY <1>3
  <2> PICK x : x = i + t
    OBVIOUS
  <2> PICK z : z = m + t
    OBVIOUS
  <2>2. x \in 1..Len(E) /\ E[x].m = z /\ E[x].k = 0
    BY <1>5, <2>1
  <2>3. z \in groupMB(M, m)
    BY <1>1, <1>2, <2>1, GroupFacts
  <2>4. Entries(M[z]) = 1
    <3>1. z \in 1..Len(M)
      BY <1>1, <2>3, GroupFacts
    <3>2. ~Apart(M, z)
      BY <1>1, <2>3, ApartShared
    <3> QED
      BY <3>1, <3>2, SharedFacts
  <2>5. E[x].k + 1 = Entries(M[E[x].m]) /\ E[x].m # Len(M)
    BY <2>1, <2>2, <2>4
  <2>6. x + 1 \in 1..Len(E) /\ E[x + 1].m = E[x].m + 1 /\ E[x + 1].k = 0
    BY <2>2, <2>5, Successor, SMTT(60)
  <2> QED
    BY <2>1, <2>2, <2>6
<1>6. Nat \subseteq T
  BY <1>4, <1>5, SetInduction
<1> QED
  BY <1>6 DEF GroupRun

\* A group is the members from its first to its last.
LEMMA GroupSpan ==
  ASSUME NEW M, GoodMembers(M), NEW m \in 1..Len(M), \A z \in groupMB(M, m) : m <= z
  PROVE  /\ groupMB(M, m) = m..Last1(M, m)
         /\ Cardinality(groupMB(M, m)) = Last1(M, m) - m + 1
         /\ Bound(M, m - 1) /\ Bound(M, Last1(M, m))
         /\ Last1(M, m) + 1 \notin groupMB(M, m)
<1> PICK last : last = Last1(M, m)
  OBVIOUS
<1>1. last \in groupMB(M, m) /\ last \in 1..Len(M) /\ m <= last
      /\ (\A z \in groupMB(M, m) : z <= last) /\ Bound(M, last)
  BY GroupLast
<1>2. m \in Int /\ last \in Int
  BY <1>1, MembersLen
<1>3. \A z \in groupMB(M, m) : z \in 1..Len(M)
  BY GroupFacts
<1>4. groupMB(M, m) = m..last
  <2>1. ASSUME NEW z \in groupMB(M, m) PROVE z \in m..last
    <3>1. z \in Int /\ m <= z /\ z <= last
      BY <1>1, <1>3, MembersLen
    <3> QED
      BY <3>1, <1>2
  <2>2. ASSUME NEW z \in m..last PROVE z \in groupMB(M, m)
    <3>1. z \in Int /\ m <= z /\ z <= last
      BY <1>2
    <3> QED
      BY <3>1, <1>1, GroupFacts
  <2> QED
    BY <2>1, <2>2
<1>5. Cardinality(m..last) = last - m + 1
  <2>1. m > last => FALSE
    BY <1>1, <1>2
  <2> QED
    BY <2>1, <1>2, FS_Interval
<1>6. Bound(M, m - 1)
  <2>1. m = 1 \/ m - 1 \notin groupMB(M, m)
    <3>1. ~(m <= m - 1)
      BY <1>2
    <3> QED
      BY <3>1
  <2> QED
    BY <2>1, GroupFacts
<1>7. last + 1 \notin groupMB(M, m)
  <2>1. ~(last + 1 <= last)
    BY <1>2
  <2> QED
    BY <2>1, <1>1
<1> QED
  BY <1>1, <1>4, <1>5, <1>6, <1>7

GroupedAs(M, e, last, f) ==
    LET bits == Ends(M)[last] - Ends(M)[e.m - 1]
    IN  f = Format("struct", bits, <<Word(bits, Cardinality(groupMB(M, e.m)))>>)
\* The format of a group that is one word.
LEMMA GroupedFormat ==
  ASSUME NEW M, GoodMembers(M), NEW e, e.m \in 1..Len(M), ~Apart(M, e.m)
  PROVE  GroupedAs(M, e, Last1(M, e.m), structFormat(M, e))
<1>1. Last1(M, e.m) \in 1..Len(M)
  BY GroupLast
<1>2. (Last1(M, e.m) + 1) - 1 = Last1(M, e.m)
  BY <1>1, MembersLen
<1>3. Offset(M, Last1(M, e.m) + 1) = Ends(M)[Last1(M, e.m)] /\ Offset(M, e.m) = Ends(M)[e.m - 1]
  BY <1>2 DEF Offset
<1>4. Last1(M, e.m) = CHOOSE i \in groupMB(M, e.m) : \A j \in groupMB(M, e.m) : j <= i
  BY DEF Last1
<1>5. LET bits == Offset(M, Last1(M, e.m) + 1) - Offset(M, e.m)
      IN  structFormat(M, e) = Format("struct", bits, <<Word(bits, Cardinality(groupMB(M, e.m)))>>)
  BY <1>4 DEF structFormat
<1> QED
  BY <1>3, <1>5 DEF GroupedAs

InSpan(i, m, n, y) ==
    /\ y - i \in Nat /\ i + (y - i) = y /\ m + (y - i) <= m + n /\ m <= m + (y - i)
    /\ m + (y - i) \in m..(m + n)
    /\ i + 1 <= y => ~(m + (y - i) <= m)
\* Where the elements of a group are.
LEMMA SpanFacts ==
  ASSUME NEW i \in Nat, NEW m \in Nat, NEW n \in Nat, NEW y \in Int, i <= y, y <= i + n
  PROVE  InSpan(i, m, n, y)
BY DEF InSpan

\* A group that is one word ends with its last member.
LEMMA GroupFormat ==
  ASSUME NEW M, GoodMembers(M), NEW E, E = ElementsOf(M), NEW i \in 1..Len(E),
         ~Apart(M, E[i].m), E[i].k = 0, \A z \in groupMB(M, E[i].m) : E[i].m <= z
  PROVE  \E j : EndsAt(M, E, i, j) /\ FormatIs(M, E, i, j)
<1> PICK m : m = E[i].m
  OBVIOUS
<1> PICK f : f = structFormat(M, E[i])
  OBVIOUS
<1> PICK last : last = Last1(M, m)
  OBVIOUS
<1> PICK n : n = last - m
  OBVIOUS
<1> PICK j : j = i + n
  OBVIOUS
<1>1. m \in 1..Len(M) /\ E[i].m = m /\ E[i].k = 0 /\ ~Apart(M, m) /\ \A z \in groupMB(M, m) : m <= z
  BY ElementAt
<1>2. last \in 1..Len(M) /\ m <= last
  BY <1>1, GroupLast
<1>3. /\ groupMB(M, m) = m..last /\ Cardinality(groupMB(M, m)) = last - m + 1
      /\ Bound(M, m - 1) /\ Bound(M, last) /\ last + 1 \notin groupMB(M, m)
  BY <1>1, GroupSpan
<1>4. /\ m \in Nat /\ last \in Nat /\ i \in Nat /\ n \in Nat /\ j \in Nat /\ m + n = last /\ i <= j
      /\ j - i + 1 = last - m + 1
  <2>1. m \in Nat /\ last \in Nat /\ m <= last
    BY <1>1, <1>2, MembersLen
  <2>2. i \in Nat
    BY ElementsTyped
  <2>3. n \in Nat /\ m + n = last
    BY <2>1
  <2>4. j \in Nat /\ i <= j /\ j - i = n
    BY <2>2, <2>3
  <2> QED
    BY <2>1, <2>2, <2>3, <2>4
<1>5. \A t \in Nat : m + t <= last => i + t \in 1..Len(E) /\ E[i + t].m = m + t /\ E[i + t].k = 0
  <2>1. GroupRun(E, i, m, last)
    BY <1>1, GroupElements
  <2> QED
    BY <2>1, Zenon DEF GroupRun
<1>6. ASSUME NEW y \in Int, i <= y, y <= j
      PROVE  y \in 1..Len(E) /\ E[y].m = m + (y - i) /\ E[y].k = 0 /\ E[y].m \in groupMB(M, m)
  <2>1. y - i \in Nat /\ i + (y - i) = y /\ m + (y - i) <= last /\ m <= m + (y - i)
    <3>1. y <= i + n
      BY <1>6
    <3>2. InSpan(i, m, n, y)
      BY <3>1, <1>4, <1>6, SpanFacts
    <3> QED
      BY <3>2, <1>4 DEF InSpan
  <2> PICK t : t = y - i
    OBVIOUS
  <2>2. t \in Nat /\ i + t = y /\ m + t <= last /\ m + t \in m..last
    <3>1. y <= i + n
      BY <1>6
    <3>2. InSpan(i, m, n, y)
      BY <3>1, <1>4, <1>6, SpanFacts
    <3>3. m + (y - i) \in m..last
      BY <3>2, <1>4, Zenon DEF InSpan
    <3> QED
      BY <2>1, <3>3
  <2> QED
    BY <2>2, <1>3, <1>5
<1>7. j \in 1..Len(E) /\ E[j].m = last /\ E[j].k = 0 /\ last \in groupMB(M, m)
  <2>1. j \in Int /\ i <= j /\ j <= j /\ j - i = n /\ m + n = last
    BY <1>4
  <2>2. m + (j - i) = last
    BY <2>1
  <2> QED
    BY <2>1, <2>2, <1>6, ZenonT(120)
<1>8. \A z \in groupMB(M, m) : z \in 1..Len(M) /\ ~Apart(M, z) /\ groupMB(M, z) = groupMB(M, m)
  BY <1>1, ApartShared, GroupFacts
<1>9. Entries(M[last]) = 1
  BY <1>2, <1>7, <1>8, SharedFacts
<1>10. Stop(E[j]) = Ends(M)[last]
  <2>1. E[j].k + 1 = Entries(M[E[j].m])
    BY <1>7, <1>9
  <2> QED
    BY <2>1, <1>7, Successor
<1>11. E[i].at = Ends(M)[m - 1]
  <2>1. 0 \in 0..(Entries(M[m]) - 1) /\ E[i] = Element(M, m, 0)
    BY <1>1, ElementAt
  <2>2. Element(M, m, 0).at = Ends(M)[m - 1]
    BY <2>1, <1>1, ElementStop
  <2> QED
    BY <2>1, <2>2, Zenon
<1>12. GroupedAs(M, E[i], last, f)
  BY <1>1, GroupedFormat
<1>13. f.op = "struct" /\ f.bits = Ends(M)[last] - Ends(M)[m - 1]
       /\ f.words = <<Word(f.bits, last - m + 1)>>
  <2> PICK bits : bits = Ends(M)[last] - Ends(M)[m - 1]
    OBVIOUS
  <2> PICK card : card = last - m + 1
    OBVIOUS
  <2>1. f = Format("struct", bits, <<Word(bits, card)>>)
    BY <1>1, <1>3, <1>12 DEF GroupedAs
  <2>2. f.op = "struct" /\ f.bits = bits /\ f.words = <<Word(bits, card)>>
    BY ONLY <2>1 DEF Format
  <2> QED
    BY <2>2
<1>14. E[i].at % 8 = 0 /\ Stop(E[j]) % 8 = 0
  <2>1. m - 1 \in 0..Len(M) /\ last \in 0..Len(M)
    BY <1>1, <1>2, MembersLen
  <2>2. Ends(M)[m - 1] \in Nat /\ Ends(M)[last] \in Nat
    BY <2>1, EndsFacts
  <2>3. Ends(M)[m - 1] % 32 = 0 /\ Ends(M)[last] % 32 = 0
    BY <1>3 DEF Bound
  <2>4. Ends(M)[m - 1] % 8 = 0 /\ Ends(M)[last] % 8 = 0
    BY <2>2, <2>3, ModFacts
  <2> QED
    BY <2>4, <1>10, <1>11
<1>15. \A y \in i..j : ~IsData(M[E[y].m]) /\ ~isObject(M[E[y].m])
  <2> TAKE y \in i..j
  <2>1. y \in Int /\ i <= y /\ y <= j
    BY <1>4
  <2>2. E[y].m \in groupMB(M, m)
    BY <2>1, <1>6
  <2> PICK z : z = E[y].m
    OBVIOUS
  <2>3. z \in 1..Len(M) /\ ~Apart(M, z)
    BY <2>2, <1>8
  <2>4. ~IsData(M[z]) /\ ~isObject(M[z])
    BY <2>3, SharedFacts
  <2> QED
    BY <2>4
<1>16. StructRun(M, E, i, j, f)
  <2>1. f.words = <<Word(f.bits, j - i + 1)>>
    BY <1>4, <1>13
  <2>2. f.bits = Stop(E[j]) - E[i].at
    BY <1>10, <1>11, <1>13
  <2> QED
    BY <2>1, <2>2, <1>1, <1>13, <1>14, <1>15 DEF StructRun
<1>17. ASSUME NEW y \in Int, i + 1 <= y, y <= j PROVE ~StartsFormat(M, E[y])
  <2>1. i <= y
    BY <1>4, <1>17
  <2> PICK e : e = E[y]
    OBVIOUS
  <2>2. e.m = m + (y - i) /\ e.m \in groupMB(M, m)
    BY <2>1, <1>6, <1>17
  <2>3. ~(e.m <= m)
    <3>1. y <= i + n
      BY <1>17
    <3>2. InSpan(i, m, n, y)
      BY <2>1, <3>1, <1>4, <1>17, SpanFacts
    <3>3. ~(m + (y - i) <= m)
      BY <3>2, <1>17, Zenon DEF InSpan
    <3> QED
      BY <2>2, <3>3, Zenon
  <2>4. ~Apart(M, e.m) /\ m \in groupMB(M, e.m)
    <3>1. m \in groupMB(M, m)
      BY <1>1, GroupFacts
    <3> QED
      BY <2>2, <3>1, <1>8
  <2>5. ~StartsFormat(M, e)
    BY <2>3, <2>4 DEF StartsFormat
  <2> QED
    BY <2>5
<1>18. j = Len(E) \/ StartsFormat(M, E[j + 1])
  <2>1. E[j].k + 1 = Entries(M[E[j].m])
    BY <1>7, <1>9
  <2>2. E[j].m + 1 \notin groupMB(M, E[j].m)
    BY <1>3, <1>7, <1>8
  <2> QED
    BY <2>1, <2>2, <1>7, AfterMember
<1>19. structFormat(M, E[j]).op = f.op
  <2>1. ~Apart(M, E[j].m) /\ E[j].m \in 1..Len(M)
    BY <1>2, <1>7, <1>8
  <2> PICK e : e = E[j]
    OBVIOUS
  <2>2. GroupedAs(M, e, Last1(M, e.m), structFormat(M, e))
    BY <2>1, GroupedFormat
  <2>3. structFormat(M, e).op = "struct"
    BY ONLY <2>2 DEF GroupedAs, Format
  <2> QED
    BY <2>3, <1>13
<1>20. EndsAt(M, E, i, j)
  BY <1>4, <1>7, <1>17, <1>18, <1>19 DEF EndsAt
<1> QED
  BY <1>16, <1>20 DEF FormatIs

\* A format starts with an element, ends with another, and the next starts behind that.
LEMMA FormatFacts ==
  ASSUME NEW M, GoodMembers(M), NEW E, E = ElementsOf(M), NEW i \in 1..Len(E), StartsFormat(M, E[i])
  PROVE  \E j : EndsAt(M, E, i, j) /\ FormatIs(M, E, i, j)
<1> PICK m : m = E[i].m
  OBVIOUS
<1>1. m \in 1..Len(M)
  BY ElementAt
<1>2. CASE ~Apart(M, m)
  <2>1. E[i].k = 0 /\ \A z \in groupMB(M, E[i].m) : E[i].m <= z
    BY <1>2 DEF StartsFormat
  <2> QED
    BY <2>1, <1>2, GroupFormat
<1>3. CASE Apart(M, m) /\ isObject(M[m])
  BY <1>3, ObjectFormat
<1>4. CASE Apart(M, m) /\ IsData(M[m])
  BY <1>4, BytesFormat
<1>5. CASE Apart(M, m) /\ ~isObject(M[m]) /\ ~IsData(M[m]) /\ (M[m].count = 1 \/ M[m].bits \in {16, 32})
  BY <1>5, ScalarFormat
<1>6. CASE Apart(M, m) /\ ~isObject(M[m]) /\ ~IsData(M[m]) /\ ~(M[m].count = 1 \/ M[m].bits \in {16, 32})
  <2>1. Own(M, m).op = "array"
    <3>1. OwnIs(M, m, M[m])
      BY <1>1, OwnFacts
    <3>2. Own(M, m) = Format("array", lenBits(M[m]), <<>>)
      BY <3>1, <1>6 DEF OwnIs
    <3> QED
      BY <3>2, FormatFields
  <2>2. E[i].k = 0
    BY <2>1, <1>6, ApartFormat
  <2> QED
    BY <2>2, <1>6, ArrayFormat
<1> QED
  BY <1>2, <1>3, <1>4, <1>5, <1>6

-----------------------------------------------------------------------------
(* What genFormats makes: direct stores and calls.                         *)

\* The direct stores d, up to the element j, store the elements in D; the struct calls
\* k those in C, the last of them up to the element last.
DirectRuns(c, E, j, d, D, lo, hi) ==
    /\ \A x \in 1..Len(d) : d[x].op # "struct" /\ Stores(c, E, d[x], lo[x], hi[x]) /\ hi[x] <= j
    /\ \A x, y \in 1..Len(d) : x < y => hi[x] < lo[y]
    /\ \A l \in D : \E x \in 1..Len(d) : lo[x] <= l /\ l <= hi[x]
DirectTo(c, E, j, d, D) == Listed(d) /\ \E lo, hi : DirectRuns(c, E, j, d, D, lo, hi)
NoData(c, E, a, b) == \A i \in a..b : ~IsData(Members(c)[E[i].m])
CallsRuns(c, E, j, k, C, lo, hi) ==
    /\ \A x \in 1..Len(k) : CallFits(E, k[x], lo[x], hi[x]) /\ hi[x] <= j /\ NoData(c, E, lo[x], hi[x])
    /\ C \subseteq Nat
    /\ \A l \in C : \E x \in 1..Len(k) : lo[x] <= l /\ l <= hi[x]
CallsTo(c, E, j, k, C, last) ==
    Listed(k) /\ \E lo, hi : CallsRuns(c, E, j, k, C, lo, hi) /\ (Len(k) # 0 => hi[Len(k)] = last)

\* One more at the end of a function.
With1(f, n, v) == [x \in 1..(n + 1) |-> IF x = n + 1 THEN v ELSE f[x]]
Extended(g, f, n, v) ==
    /\ g[n + 1] = v /\ \A x \in 1..n : g[x] = f[x]
    /\ \A x \in 1..(n + 1) : x \in 1..n \/ x = n + 1
    /\ n + 1 \in 1..(n + 1) /\ \A x \in 1..n : x \in 1..(n + 1) /\ x < n + 1 /\ ~(n + 1 < x)
    /\ ~(n + 1 < n + 1)
LEMMA With1Facts ==
  ASSUME NEW f, NEW n \in Nat, NEW v, NEW g, g = With1(f, n, v)
  PROVE  Extended(g, f, n, v)
<1>1. \A x \in 1..n : x \in 1..(n + 1) /\ x # n + 1
  OBVIOUS
<1> QED
  BY <1>1 DEF With1, Extended

\* One more direct store, behind the others.
LEMMA AddDirect ==
  ASSUME NEW c, NEW E, Len(E) \in Nat, NEW j \in Nat, NEW d, NEW D, DirectTo(c, E, j, d, D),
         NEW s, NEW a \in Nat, NEW b \in Nat, Stores(c, E, s, a, b), s.op # "struct", j < a, a <= b
  PROVE  DirectTo(c, E, b, Append(d, s), D \cup (a..b))
<1> PICK lo, hi : Listed(d) /\ DirectRuns(c, E, j, d, D, lo, hi)
  BY DEF DirectTo
<1> PICK n : n = Len(d)
  OBVIOUS
<1> PICK d2 : d2 = Append(d, s)
  OBVIOUS
<1> PICK lo2 : lo2 = With1(lo, n, a)
  OBVIOUS
<1> PICK hi2 : hi2 = With1(hi, n, b)
  OBVIOUS
<1>1. n \in Nat
  BY ListedFacts
<1>2. Listed(d2) /\ Len(d2) = n + 1 /\ (\A x \in 1..n : d2[x] = d[x]) /\ d2[n + 1] = s
  BY AppendAny
<1>3. /\ lo2[n + 1] = a /\ \A x \in 1..n : lo2[x] = lo[x]
      /\ \A x \in 1..(n + 1) : x \in 1..n \/ x = n + 1
      /\ n + 1 \in 1..(n + 1) /\ \A x \in 1..n : x \in 1..(n + 1) /\ x < n + 1 /\ ~(n + 1 < x)
      /\ ~(n + 1 < n + 1)
  <2>1. Extended(lo2, lo, n, a)
    BY <1>1, With1Facts
  <2> QED
    BY <2>1, Zenon DEF Extended
<1>4. hi2[n + 1] = b /\ \A x \in 1..n : hi2[x] = hi[x]
  <2>1. Extended(hi2, hi, n, b)
    BY <1>1, With1Facts
  <2> QED
    BY <2>1, Zenon DEF Extended
<1>5. \A x \in 1..n : d[x].op # "struct" /\ Stores(c, E, d[x], lo[x], hi[x]) /\ hi[x] <= j
  BY DEF DirectRuns
<1>6. \A x \in 1..n : hi[x] <= b /\ hi[x] < a
  <2> TAKE x \in 1..n
  <2>1. hi[x] \in 1..Len(E)
    BY <1>5 DEF Stores
  <2> PICK h : h = hi[x]
    OBVIOUS
  <2>2. h \in Nat /\ h <= j
    BY <2>1, <1>5
  <2>3. h < a /\ h <= b
    BY <2>2
  <2> QED
    BY <2>3
<1>7. ASSUME NEW x \in 1..(n + 1)
      PROVE  d2[x].op # "struct" /\ Stores(c, E, d2[x], lo2[x], hi2[x]) /\ hi2[x] <= b
  <2>1. CASE x \in 1..n
    BY <2>1, <1>2, <1>3, <1>4, <1>5, <1>6
  <2>2. CASE x = n + 1
    <3>1. b <= b
      OBVIOUS
    <3> QED
      BY <2>2, <3>1, <1>2, <1>3, <1>4
  <2> QED
    BY <2>1, <2>2, <1>3
<1>8. ASSUME NEW x \in 1..(n + 1), NEW y \in 1..(n + 1), x < y PROVE hi2[x] < lo2[y]
  <2>1. CASE x \in 1..n /\ y \in 1..n
    <3>1. hi[x] < lo[y]
      BY <2>1, <1>8 DEF DirectRuns
    <3> QED
      BY <2>1, <3>1, <1>3, <1>4
  <2>2. CASE x \in 1..n /\ y = n + 1
    BY <2>2, <1>3, <1>4, <1>6
  <2>3. CASE x = n + 1
    BY <2>3, <1>3, <1>8
  <2> QED
    BY <2>1, <2>2, <2>3, <1>3
<1>9. ASSUME NEW l \in D \cup (a..b) PROVE \E x \in 1..(n + 1) : lo2[x] <= l /\ l <= hi2[x]
  <2>1. CASE l \in D
    <3>1. PICK x \in 1..n : lo[x] <= l /\ l <= hi[x]
      BY <2>1 DEF DirectRuns
    <3> QED
      BY <3>1, <1>3, <1>4
  <2>2. CASE l \in a..b
    <3>1. a <= l /\ l <= b
      BY <2>2
    <3> QED
      BY <3>1, <1>3, <1>4
  <2> QED
    BY <2>1, <2>2
<1>10. DirectRuns(c, E, b, d2, D \cup (a..b), lo2, hi2)
  BY <1>2, <1>7, <1>8, <1>9 DEF DirectRuns
<1> QED
  BY <1>2, <1>10 DEF DirectTo

\* The direct stores reach every later element too.
LEMMA DirectLater ==
  ASSUME NEW c, NEW E, Len(E) \in Nat, NEW j \in Nat, NEW d, NEW D, DirectTo(c, E, j, d, D), NEW b \in Nat, j <= b
  PROVE  DirectTo(c, E, b, d, D)
<1> PICK lo, hi : Listed(d) /\ DirectRuns(c, E, j, d, D, lo, hi)
  BY DEF DirectTo
<1>1. \A x \in 1..Len(d) : hi[x] <= b
  <2> TAKE x \in 1..Len(d)
  <2>1. hi[x] \in 1..Len(E) /\ hi[x] <= j
    BY DEF Stores, DirectRuns
  <2> PICK h : h = hi[x]
    OBVIOUS
  <2>2. h \in Nat /\ h <= j
    BY <2>1
  <2>3. h <= b
    BY <2>2
  <2> QED
    BY <2>3
<1>2. DirectRuns(c, E, b, d, D, lo, hi)
  BY <1>1 DEF DirectRuns
<1> QED
  BY <1>2 DEF DirectTo

\* Where a call starts and ends.
LEMMA CallEnds ==
  ASSUME NEW E, Chain(E), NEW s, NEW a, NEW b, CallFits(E, s, a, b)
  PROVE  a \in 1..Len(E) /\ b \in 1..Len(E) /\ a \in Nat /\ b \in Nat /\ a <= b /\ s.op = "struct" /\ IsCall(s)
<1> PICK f : CallRuns(E, s, f, a, b)
  BY DEF CallFits
<1> QED
  BY CallTypes DEF CallRuns

\* The calls reach every later element too.
LEMMA CallsLater ==
  ASSUME NEW c, NEW E, Chain(E), NEW j \in Nat, NEW k, NEW C, NEW last, CallsTo(c, E, j, k, C, last), NEW b \in Nat, j <= b
  PROVE  CallsTo(c, E, b, k, C, last)
<1> PICK lo, hi : Listed(k) /\ CallsRuns(c, E, j, k, C, lo, hi) /\ (Len(k) # 0 => hi[Len(k)] = last)
  BY DEF CallsTo
<1>1. \A x \in 1..Len(k) : hi[x] <= b
  <2> TAKE x \in 1..Len(k)
  <2>1. CallFits(E, k[x], lo[x], hi[x]) /\ hi[x] <= j
    BY DEF CallsRuns
  <2> PICK h : h = hi[x]
    OBVIOUS
  <2>2. h \in Nat /\ h <= j
    BY <2>1, CallEnds
  <2>3. h <= b
    BY <2>2
  <2> QED
    BY <2>3
<1>2. CallsRuns(c, E, b, k, C, lo, hi)
  BY <1>1 DEF CallsRuns
<1> QED
  BY <1>2 DEF CallsTo

\* One more call.
LEMMA AddCall ==
  ASSUME NEW c, NEW E, Chain(E), NEW j \in Nat, NEW k, NEW C, NEW last, CallsTo(c, E, j, k, C, last),
         NEW s, NEW a \in Nat, NEW b \in Nat, CallFits(E, s, a, b), NoData(c, E, a, b), j <= b
  PROVE  CallsTo(c, E, b, Append(k, s), C \cup (a..b), b)
<1>0. CallsTo(c, E, b, k, C, last)
  BY CallsLater
<1> PICK lo, hi : Listed(k) /\ CallsRuns(c, E, b, k, C, lo, hi)
  BY <1>0 DEF CallsTo
<1> PICK n : n = Len(k)
  OBVIOUS
<1> PICK k2 : k2 = Append(k, s)
  OBVIOUS
<1> PICK lo2 : lo2 = With1(lo, n, a)
  OBVIOUS
<1> PICK hi2 : hi2 = With1(hi, n, b)
  OBVIOUS
<1>1. n \in Nat
  BY ListedFacts
<1>2. Listed(k2) /\ Len(k2) = n + 1 /\ (\A x \in 1..n : k2[x] = k[x]) /\ k2[n + 1] = s
  BY AppendAny
<1>3. /\ lo2[n + 1] = a /\ \A x \in 1..n : lo2[x] = lo[x]
      /\ \A x \in 1..(n + 1) : x \in 1..n \/ x = n + 1
      /\ n + 1 \in 1..(n + 1) /\ \A x \in 1..n : x \in 1..(n + 1)
  <2>1. Extended(lo2, lo, n, a)
    BY <1>1, With1Facts
  <2> QED
    BY <2>1, Zenon DEF Extended
<1>4. hi2[n + 1] = b /\ \A x \in 1..n : hi2[x] = hi[x]
  <2>1. Extended(hi2, hi, n, b)
    BY <1>1, With1Facts
  <2> QED
    BY <2>1, Zenon DEF Extended
<1>5. \A x \in 1..n : CallFits(E, k[x], lo[x], hi[x]) /\ hi[x] <= b /\ NoData(c, E, lo[x], hi[x])
  BY DEF CallsRuns
<1>6. ASSUME NEW x \in 1..(n + 1)
      PROVE  CallFits(E, k2[x], lo2[x], hi2[x]) /\ hi2[x] <= b /\ NoData(c, E, lo2[x], hi2[x])
  <2>1. CASE x \in 1..n
    BY <2>1, <1>2, <1>3, <1>4, <1>5
  <2>2. CASE x = n + 1
    <3>1. b <= b
      OBVIOUS
    <3> QED
      BY <2>2, <3>1, <1>2, <1>3, <1>4
  <2> QED
    BY <2>1, <2>2, <1>3
<1>7. ASSUME NEW l \in C \cup (a..b) PROVE \E x \in 1..(n + 1) : lo2[x] <= l /\ l <= hi2[x]
  <2>1. CASE l \in C
    <3>1. PICK x \in 1..n : lo[x] <= l /\ l <= hi[x]
      BY <2>1 DEF CallsRuns
    <3> QED
      BY <3>1, <1>3, <1>4
  <2>2. CASE l \in a..b
    <3>1. a <= l /\ l <= b
      BY <2>2
    <3> QED
      BY <3>1, <1>3, <1>4
  <2> QED
    BY <2>1, <2>2
<1>8. C \cup (a..b) \subseteq Nat
  <2>1. C \subseteq Nat
    BY DEF CallsRuns
  <2>2. a..b \subseteq Nat
    OBVIOUS
  <2> QED
    BY <2>1, <2>2
<1>9. CallsRuns(c, E, b, k2, C \cup (a..b), lo2, hi2)
  BY <1>2, <1>6, <1>7, <1>8 DEF CallsRuns
<1> QED
  BY <1>2, <1>4, <1>9 DEF CallsTo

\* One more word for the last call changes no other.
LEMMA JoinedFacts ==
  ASSUME NEW k, Listed(k), NEW n, n = Len(k), n # 0, NEW w
  PROVE  /\ Listed(Joined(k, w)) /\ Len(Joined(k, w)) = n
         /\ \A x \in 1..n : x # n => Joined(k, w)[x] = k[x]
         /\ Joined(k, w)[n] = WithWord(k[n], w)
         /\ n \in 1..n /\ n \in Nat
<1>1. PICK S : k \in Seq(S)
  BY DEF Listed
<1>2. n \in Nat /\ n \in 1..n /\ DOMAIN k = 1..n
  BY <1>1
<1> PICK v : v = WithWord(k[n], w)
  OBVIOUS
<1>3. Joined(k, w) = [k EXCEPT ![n] = v]
  BY DEF Joined, WithWord
<1> PICK T : T = S \cup {v}
  OBVIOUS
<1>4. k \in Seq(T) /\ v \in T
  <2>1. S \subseteq T /\ v \in T
    OBVIOUS
  <2> QED
    BY <1>1, <2>1, SeqMonotonic
<1> PICK q : q = [k EXCEPT ![n] = v]
  OBVIOUS
<1>5. q \in Seq(T) /\ Len(q) = n /\ q[n] = v /\ \A x \in 1..n : x # n => q[x] = k[x]
  BY <1>2, <1>4
<1> QED
  BY <1>2, <1>3, <1>5 DEF Listed

\* A word that starts where the last call ends may join it.
LEMMA JoinCall ==
  ASSUME NEW c, NEW E, Chain(E), NEW j \in Nat, NEW k, NEW C, CallsTo(c, E, j, k, C, j), Len(k) # 0,
         NEW b \in 1..Len(E), b \in Nat, j < b, Stop(E[b]) % 8 = 0, NoData(c, E, j + 1, b)
  PROVE  CallsTo(c, E, b, Joined(k, Word(Stop(E[b]) - E[j + 1].at, b - j)), C \cup ((j + 1)..b), b)
<1>0. j <= b
  OBVIOUS
<1> PICK lo, hi : Listed(k) /\ CallsRuns(c, E, j, k, C, lo, hi) /\ hi[Len(k)] = j
  BY DEF CallsTo
<1> PICK n : n = Len(k)
  OBVIOUS
<1> PICK w : w = Word(Stop(E[b]) - E[j + 1].at, b - j)
  OBVIOUS
<1> PICK k2 : k2 = Joined(k, w)
  OBVIOUS
<1>1. /\ Listed(k2) /\ Len(k2) = n /\ (\A x \in 1..n : x # n => k2[x] = k[x])
      /\ k2[n] = WithWord(k[n], w) /\ n \in 1..n /\ n \in Nat
  BY JoinedFacts
<1> PICK hi2 : hi2 = [x \in 1..n |-> IF x = n THEN b ELSE hi[x]]
  OBVIOUS
<1>2. hi2[n] = b /\ \A x \in 1..n : x # n => hi2[x] = hi[x]
  BY <1>1
<1>3. \A x \in 1..n : CallFits(E, k[x], lo[x], hi[x]) /\ hi[x] <= j /\ NoData(c, E, lo[x], hi[x])
  BY DEF CallsRuns
<1>4. hi[n] = j
  OBVIOUS
<1>5. CallFits(E, k2[n], lo[n], b)
  <2>1. CallFits(E, k[n], lo[n], j)
    BY <1>1, <1>3, <1>4
  <2>2. CallFits(E, WithWord(k[n], Word(Stop(E[b]) - E[j + 1].at, b - j)), lo[n], b)
    BY <2>1, CallExtends
  <2> QED
    BY <2>2, <1>1
<1>6. lo[n] \in Nat /\ lo[n] <= j
  BY <1>1, <1>3, <1>4, CallEnds
<1>7. NoData(c, E, lo[n], b)
  <2>1. NoData(c, E, lo[n], j)
    BY <1>1, <1>3, <1>4
  <2>2. \A i \in lo[n]..b : i \in lo[n]..j \/ i \in (j + 1)..b
    BY <1>6
  <2> QED
    BY <2>1, <2>2 DEF NoData
<1>8. \A x \in 1..n : hi[x] \in Nat /\ hi[x] <= b
  <2> TAKE x \in 1..n
  <2> PICK h : h = hi[x]
    OBVIOUS
  <2>1. h \in Nat /\ h <= j
    BY <1>3, CallEnds
  <2>2. h <= b
    BY <2>1
  <2> QED
    BY <2>1, <2>2
<1>9. ASSUME NEW x \in 1..n
      PROVE  CallFits(E, k2[x], lo[x], hi2[x]) /\ hi2[x] <= b /\ NoData(c, E, lo[x], hi2[x])
  <2>1. CASE x = n
    <3>1. b <= b
      OBVIOUS
    <3> QED
      BY <2>1, <3>1, <1>2, <1>5, <1>7
  <2>2. CASE x # n
    BY <2>2, <1>1, <1>2, <1>3, <1>8
  <2> QED
    BY <2>1, <2>2
<1>10. ASSUME NEW l \in C \cup ((j + 1)..b) PROVE \E x \in 1..n : lo[x] <= l /\ l <= hi2[x]
  <2>1. CASE l \in (j + 1)..b
    <3>1. lo[n] <= l /\ l <= b
      BY <2>1, <1>6
    <3> QED
      BY <3>1, <1>1, <1>2
  <2>2. CASE l \in C
    <3>1. PICK x \in 1..n : lo[x] <= l /\ l <= hi[x]
      BY <2>2 DEF CallsRuns
    <3>2. CASE x # n
      BY <3>1, <3>2, <1>2
    <3>3. CASE x = n /\ l <= b
      BY <3>1, <3>3, <1>2
    <3>4. CASE x = n /\ ~(l <= b)
      <4>1. l \in Nat
        BY <2>2 DEF CallsRuns
      <4>2. l <= j
        BY <3>1, <3>4, <1>4
      <4> QED
        BY <4>1, <4>2, <3>4
    <3> QED
      BY <3>2, <3>3, <3>4
  <2> QED
    BY <2>1, <2>2
<1>11. C \cup ((j + 1)..b) \subseteq Nat
  <2>1. C \subseteq Nat
    BY DEF CallsRuns
  <2>2. (j + 1)..b \subseteq Nat
    OBVIOUS
  <2> QED
    BY <2>1, <2>2
<1>12. CallsRuns(c, E, b, k2, C \cup ((j + 1)..b), lo, hi2)
  BY <1>1, <1>9, <1>10, <1>11 DEF CallsRuns
<1> QED
  BY <1>1, <1>2, <1>12 DEF CallsTo

\* What genFormats has made when its formats have reached the element j.
IsMade(acc) ==
    acc = [direct |-> acc.direct, calls |-> acc.calls, off |-> acc.off, fmtsOff |-> acc.fmtsOff]
OfLast(M, e) == e.m = Len(M) /\ isObject(M[e.m])
OffRight(M, E, j, off) ==
    /\ j = 0 => off = 0
    /\ j # 0 => off = Stop(E[j]) \/ OfLast(M, E[j])
StoredTo(c, M, E, j, acc, D, C, last) ==
    /\ DirectTo(c, E, j, acc.direct, D) /\ CallsTo(c, E, j, acc.calls, C, last)
    /\ Len(acc.calls) # 0 => last \in 1..j /\ acc.fmtsOff = Stop(E[last])
    /\ j # 0 /\ structFormat(M, E[j]).op = "struct" => Len(acc.calls) # 0 /\ last = j
    /\ \A l \in 1..j : l \in D \/ l \in C
MadeTo(c, M, E, j, acc) ==
    /\ j \in 0..Len(E) /\ IsMade(acc) /\ OffRight(M, E, j, acc.off)
    /\ \E D, C, last : StoredTo(c, M, E, j, acc, D, C, last)

\* One more direct store, or another call, or another word of the last.
Directed(M, acc, f, e, r) ==
    /\ IsMade(r) /\ r.direct = Append(acc.direct, Direct(M, f, e, acc.off)) /\ r.calls = acc.calls
    /\ r.off = acc.off + f.bits /\ r.fmtsOff = acc.fmtsOff
Called(M, acc, f, e, r) ==
    /\ IsMade(r) /\ r.direct = acc.direct
    /\ r.off = acc.off + f.bits /\ r.fmtsOff = acc.off + f.bits
    /\ acc.calls # <<>> /\ acc.fmtsOff = acc.off =>
         r.calls = AddWords(acc.calls, f.words)
    /\ ~(acc.calls # <<>> /\ acc.fmtsOff = acc.off) =>
         r.calls = Append(acc.calls, Fmt(acc.off \div 8, e.m, f.words))

LEMMA AddDirectFields ==
  ASSUME NEW M, NEW acc, IsMade(acc), NEW f, f.op # "struct", NEW e, NEW r, r = AddFormat(M, acc, f, e)
  PROVE  Directed(M, acc, f, e, r)
<1>1. PICK d, k, o, p : acc = [direct |-> d, calls |-> k, off |-> o, fmtsOff |-> p]
  BY DEF IsMade
<1>2. acc.direct = d /\ acc.calls = k /\ acc.off = o /\ acc.fmtsOff = p
  BY <1>1
<1> PICK d2 : d2 = Append(d, Direct(M, f, e, o))
  OBVIOUS
<1> PICK o2 : o2 = o + f.bits
  OBVIOUS
<1>3. r = [acc EXCEPT !.direct = d2, !.off = o2]
  BY <1>2 DEF AddFormat
<1>4. r = [direct |-> d2, calls |-> k, off |-> o2, fmtsOff |-> p]
  BY <1>1, <1>3
<1>5. r.direct = d2 /\ r.calls = k /\ r.off = o2 /\ r.fmtsOff = p
  BY <1>4
<1>6. IsMade(r)
  BY <1>4, <1>5, Zenon DEF IsMade
<1> QED
  BY <1>2, <1>5, <1>6 DEF Directed

\* What AddFormat does for a word of a struct call.
LEMMA AddCallFields ==
  ASSUME NEW M, NEW acc, IsMade(acc), NEW f, f.op = "struct", NEW e, NEW r, r = AddFormat(M, acc, f, e)
  PROVE  Called(M, acc, f, e, r)
<1>1. PICK d, k, o, p : acc = [direct |-> d, calls |-> k, off |-> o, fmtsOff |-> p]
  BY DEF IsMade
<1>2. acc.direct = d /\ acc.calls = k /\ acc.off = o /\ acc.fmtsOff = p
  BY <1>1
<1> PICK k2 : k2 = IF acc.calls # <<>> /\ acc.fmtsOff = acc.off
                   THEN AddWords(acc.calls, f.words)
                   ELSE Append(acc.calls, Fmt(acc.off \div 8, e.m, f.words))
  OBVIOUS
<1> PICK o2 : o2 = acc.off + f.bits
  OBVIOUS
<1>3. r = [acc EXCEPT !.calls = k2, !.off = o2, !.fmtsOff = o2]
  <2>1. r = [acc EXCEPT !.calls = IF acc.calls # <<>> /\ acc.fmtsOff = acc.off
                                  THEN AddWords(@, f.words)
                                  ELSE Append(@, Fmt(acc.off \div 8, e.m, f.words)),
                        !.off = @ + f.bits, !.fmtsOff = acc.off + f.bits]
    BY Zenon DEF AddFormat
  <2>2. CASE acc.calls # <<>> /\ acc.fmtsOff = acc.off
    <3>1. k2 = AddWords(acc.calls, f.words)
      BY <2>2
    <3>2. r = [acc EXCEPT !.calls = AddWords(@, f.words),
                          !.off = @ + f.bits, !.fmtsOff = acc.off + f.bits]
      BY <2>1, <2>2
    <3> QED
      BY <3>1, <3>2
  <2>3. CASE ~(acc.calls # <<>> /\ acc.fmtsOff = acc.off)
    <3>1. k2 = Append(acc.calls, Fmt(acc.off \div 8, e.m, f.words))
      BY <2>3
    <3>2. r = [acc EXCEPT !.calls = Append(@, Fmt(acc.off \div 8, e.m, f.words)),
                          !.off = @ + f.bits, !.fmtsOff = acc.off + f.bits]
      BY <2>1, <2>3
    <3> QED
      BY <3>1, <3>2
  <2> QED
    BY <2>2, <2>3
<1>4. r = [direct |-> d, calls |-> k2, off |-> o2, fmtsOff |-> o2]
  BY <1>1, <1>3
<1>5. r.direct = d /\ r.calls = k2 /\ r.off = o2 /\ r.fmtsOff = o2
  BY <1>4
<1>6. IsMade(r)
  BY <1>4, <1>5, Zenon DEF IsMade
<1>7. /\ acc.calls # <<>> /\ acc.fmtsOff = acc.off =>
            k2 = AddWords(acc.calls, f.words)
      /\ ~(acc.calls # <<>> /\ acc.fmtsOff = acc.off) =>
            k2 = Append(acc.calls, Fmt(acc.off \div 8, e.m, f.words))
  OBVIOUS
<1> QED
  BY <1>2, <1>5, <1>6, <1>7, Zenon DEF Called

\* The running offset is where the next element starts, unless it is of the last member
\* and an object, which does not use it.
LEMMA OffAt ==
  ASSUME NEW M, GoodMembers(M), NEW E, E = ElementsOf(M), NEW j \in Nat, j + 1 \in 1..Len(E),
         NEW off, OffRight(M, E, j, off), ~OfLast(M, E[j + 1])
  PROVE  off = E[j + 1].at /\ (j # 0 => off = Stop(E[j]))
<1>1. CASE j = 0
  <2>1. Len(E) # 0 /\ j + 1 = 1
    BY <1>1
  <2> QED
    BY <2>1, <1>1, FirstElement DEF OffRight
<1>2. CASE j # 0
  <2>1. j \in 1..Len(E) /\ j # Len(E) /\ j + 1 <= Len(E)
    BY <1>2, ElementsTyped
  <2>2. Stop(E[j]) = E[j + 1].at
    BY <2>1, Successor
  <2>3. ~OfLast(M, E[j])
    <3>1. ASSUME E[j].m = Len(M) PROVE E[j + 1].m = Len(M)
      <4>1. E[j].k + 1 # Entries(M[E[j].m])
        BY <2>1, <3>1, Successor
      <4>2. E[j].k + 1 \in 1..Entries(M[E[j].m])
        BY <2>1, Successor
      <4>3. Entries(M[E[j].m]) \in Nat
        BY <2>1, ElementAt, MemberFacts
      <4>4. E[j].k + 1 < Entries(M[E[j].m])
        BY <4>1, <4>2, <4>3
      <4> QED
        BY <2>1, <3>1, <4>4, Successor
    <3> QED
      BY <3>1 DEF OfLast
  <2> QED
    BY <1>2, <2>2, <2>3 DEF OffRight
<1> QED
  BY <1>1, <1>2

\* The direct store of an object puts it where it belongs.
LEMMA ObjectStores ==
  ASSUME NEW c, NEW M, M = Members(c), GoodMembers(M), NEW E, E = ElementsOf(M), NEW i \in 1..Len(E),
         NEW f, ObjectRun(M, E[i], f), NEW off, NEW s, s = Direct(M, f, E[i], off)
  PROVE  Stores(c, E, s, i, i) /\ s.op # "struct"
<1> PICK m : m = E[i].m
  OBVIOUS
<1> PICK k : k = E[i].k
  OBVIOUS
<1> PICK at : at = (Offset(M, m) + k * M[m].bits) \div 8
  OBVIOUS
<1>1. f.op = "object" /\ isObject(M[m]) /\ E[i].at % 8 = 0
  BY DEF ObjectRun
<1>2. s = Sub1(m, k, at)
  BY <1>1 DEF Direct
<1>3. s.op = "object" /\ s.m = m /\ s.k = k /\ s.at = at
  BY <1>2 DEF Sub1
<1>4. m \in 1..Len(M) /\ k \in 0..(Entries(M[m]) - 1) /\ E[i] = Element(M, m, k) /\ E[i].at \in Nat
  BY ElementAt, ElementsTyped
<1>5. ~IsData(M[m])
  BY <1>1 DEF IsData
<1>6. Width(M[m]) = M[m].bits
  BY <1>4, <1>5, MemberFacts
<1>7. E[i].at = Offset(M, m) + k * M[m].bits
  <2>1. Element(M, m, k).at = Ends(M)[m - 1] + k * Width(M[m])
    BY <1>4, ElementFields
  <2> QED
    BY <2>1, <1>4, <1>6, Zenon DEF Offset
<1>8. at \in Nat /\ E[i].at = 8 * at
  <2>1. \A p \in Nat : p % 8 = 0 => p \div 8 \in Nat /\ p = 8 * (p \div 8)
    OBVIOUS
  <2>2. at = E[i].at \div 8
    BY <1>7
  <2> QED
    BY <2>1, <2>2, <1>1, <1>4, Zenon
<1>9. Length(M[m].class) \in Nat /\ E[i].bits = 8 * Length(M[m].class)
  <2>1. Length(M[m].class) \in Nat /\ M[m].bits = 8 * Length(M[m].class)
    BY <1>1, <1>4, ZenonT(30) DEF GoodMembers
  <2>2. E[i].bits = Width(M[m])
    BY ElementAt
  <2> QED
    BY <2>1, <2>2, <1>6
<1>10. StoresObject(c, E, s, i)
  BY <1>1, <1>3, <1>8, <1>9 DEF StoresObject
<1>11. i <= i
  BY ElementsTyped
<1> QED
  BY <1>3, <1>10, <1>11 DEF Stores

BytesSpan(p, b, at, to) ==
    at \in Nat /\ to \in Nat /\ p = 8 * at /\ at < to /\ b = 8 * (to - at)
\* A byte string in bytes.
LEMMA BytesSpans ==
  ASSUME NEW p \in Nat, NEW b \in Nat \ {0}, p % 8 = 0, (p + b) % 8 = 0
  PROVE  BytesSpan(p, b, p \div 8, (p + b) \div 8)
BY DEF BytesSpan

\* So does that of a byte string, by the running offset.
LEMMA BytesStores ==
  ASSUME NEW c, NEW M, M = Members(c), GoodMembers(M), NEW E, E = ElementsOf(M), NEW i \in 1..Len(E),
         NEW f, BytesRun(M, E[i], f), NEW off, off = E[i].at, NEW s, s = Direct(M, f, E[i], off)
  PROVE  Stores(c, E, s, i, i) /\ s.op # "struct"
<1> PICK m : m = E[i].m
  OBVIOUS
<1>1. f.op = "bytes" /\ IsData(M[m]) /\ E[i].k = 0 /\ f.bits = E[i].bits /\ E[i].bits = lenBits(M[m])
      /\ E[i].at % 8 = 0 /\ Stop(E[i]) % 8 = 0
  BY DEF BytesRun
<1> PICK at : at = off \div 8
  OBVIOUS
<1> PICK to : to = (off + f.bits) \div 8
  OBVIOUS
<1>2. s = Bytes(m, at, to)
  BY <1>1 DEF Direct
<1>3. s.op = "bytes" /\ s.m = m /\ s.at = at /\ s.to = to
  BY <1>2 DEF Bytes
<1>4. E[i].at \in Nat /\ E[i].bits \in Nat \ {0}
  BY ElementsTyped
<1>5. at \in Nat /\ to \in Nat /\ E[i].at = 8 * at /\ at < to /\ E[i].bits = 8 * (to - at)
  <2>1. E[i].at % 8 = 0 /\ (E[i].at + E[i].bits) % 8 = 0
    BY <1>1 DEF Stop
  <2>2. BytesSpan(E[i].at, E[i].bits, E[i].at \div 8, (E[i].at + E[i].bits) \div 8)
    BY <2>1, <1>4, BytesSpans
  <2>3. at = E[i].at \div 8 /\ to = (E[i].at + E[i].bits) \div 8
    BY <1>1
  <2> QED
    BY <2>2, <2>3, Zenon DEF BytesSpan
<1>6. StoresBytes(c, E, s, i)
  <2>1. lenBits(M[m]) = 8 * (to - at)
    BY <1>1, <1>5
  <2> QED
    BY <2>1, <1>1, <1>3, <1>5, ZenonT(30) DEF StoresBytes
<1>7. i <= i
  BY ElementsTyped
<1> QED
  BY <1>3, <1>6, <1>7 DEF Stores

\* So does that of an array.
LEMMA ArrayStores ==
  ASSUME NEW c, NEW M, M = Members(c), GoodMembers(M), NEW E, E = ElementsOf(M), NEW i, NEW j,
         NEW f, ArrayRun(M, E, i, j, f), NEW off, NEW s, s = Direct(M, f, E[i], off)
  PROVE  Stores(c, E, s, i, j) /\ s.op # "struct"
<1>1. f.op = "array" /\ Entered(E, ArrayOf(M, E[i].m), i, j) /\ \A x \in i..j : ~IsData(M[E[x].m])
  BY DEF ArrayRun
<1>2. s = ArrayOf(M, E[i].m)
  BY <1>1 DEF Direct, ArrayOf
<1>3. Entered(E, s, i, j)
  BY <1>1, <1>2
<1>4. Chain(E)
  BY ElementsChain
<1>5. StoresArray(E, s, i, j)
  BY <1>3, <1>4, EnteredStores
<1>6. s.op = "array" /\ i \in 1..Len(E) /\ j \in 1..Len(E) /\ i <= j
  BY <1>3 DEF Entered
<1> QED
  BY <1>1, <1>5, <1>6 DEF Stores

\* The format f of the element behind j, which ends with j2.
FormatAt(M, E, j, i, j2, f) ==
    /\ i = j + 1 /\ i \in 1..Len(E) /\ f = structFormat(M, E[i])
    /\ EndsAt(M, E, i, j2) /\ FormatIs(M, E, i, j2)
RunOf(M, E, i, j2, f) ==
    \/ i = j2 /\ ObjectRun(M, E[i], f)
    \/ i = j2 /\ BytesRun(M, E[i], f)
    \/ ArrayRun(M, E, i, j2, f)
    \/ StructRun(M, E, i, j2, f)
AtTypes(M, E, j, i, j2, f) ==
    /\ i = j + 1 /\ i \in Nat /\ i \in 1..Len(E) /\ j2 \in Nat /\ j2 \in 1..Len(E) /\ i <= j2 /\ j < i /\ j < j2 /\ j <= j2
    /\ j2 # 0 /\ E[i].at \in Nat /\ E[i].bits \in Nat /\ Stop(E[i]) \in Nat /\ Stop(E[j2]) \in Nat
    /\ structFormat(M, E[j2]).op = f.op /\ f = structFormat(M, E[i])
    /\ \A l \in 1..j2 : l \in 1..j \/ l \in i..j2
    /\ \A l \in 1..j : l \in 1..j2

LEMMA FormatAtFacts ==
  ASSUME NEW M, GoodMembers(M), NEW E, E = ElementsOf(M), NEW j \in Nat, NEW i, NEW j2, NEW f,
         FormatAt(M, E, j, i, j2, f)
  PROVE  AtTypes(M, E, j, i, j2, f) /\ RunOf(M, E, i, j2, f)
<1>1. /\ i = j + 1 /\ i \in 1..Len(E) /\ f = structFormat(M, E[i]) /\ j2 \in 1..Len(E) /\ i <= j2
      /\ structFormat(M, E[j2]).op = structFormat(M, E[i]).op
  BY Zenon DEF FormatAt, EndsAt
<1>2. RunOf(M, E, i, j2, f)
  BY <1>1, Zenon DEF FormatAt, FormatIs, RunOf
<1>3. Len(E) \in Nat
  BY ElementsTyped
<1>4. /\ E[i].at \in Nat /\ E[i].bits \in Nat /\ Stop(E[i]) \in Nat /\ Stop(E[j2]) \in Nat
  BY <1>1, ElementsTyped
<1>5. i \in Nat /\ j2 \in Nat /\ j < i /\ j < j2 /\ j <= j2 /\ j2 # 0
  BY <1>1, <1>3
<1>6. /\ \A l \in 1..j2 : l \in 1..j \/ l \in i..j2
      /\ \A l \in 1..j : l \in 1..j2
  BY <1>1, <1>5
<1>7. AtTypes(M, E, j, i, j2, f)
  BY <1>1, <1>4, <1>5, <1>6, Zenon DEF AtTypes
<1> QED
  BY <1>2, <1>7

\* The offset behind a run.
LEMMA PastAt ==
  ASSUME NEW at \in Nat, NEW stop \in Nat
  PROVE  at + (stop - at) = stop
OBVIOUS

\* The offset by which genFormats goes stays the right one.
LEMMA OffNext ==
  ASSUME NEW M, GoodMembers(M), NEW E, E = ElementsOf(M), NEW j \in Nat, NEW i, NEW j2, NEW f,
         FormatAt(M, E, j, i, j2, f), NEW off, OffRight(M, E, j, off)
  PROVE  OffRight(M, E, j2, off + f.bits) /\ (f.op # "object" => off = E[i].at)
<1>1. AtTypes(M, E, j, i, j2, f) /\ RunOf(M, E, i, j2, f)
  BY FormatAtFacts
<1>2. i = j + 1 /\ i \in 1..Len(E) /\ j2 # 0 /\ E[i].at \in Nat /\ E[i].bits \in Nat /\ Stop(E[j2]) \in Nat
  BY <1>1, Zenon DEF AtTypes
<1>3. ~OfLast(M, E[i]) => off = E[i].at
  BY <1>2, OffAt
<1>4. CASE i = j2 /\ ObjectRun(M, E[i], f)
  <2>1. f.op = "object" /\ isObject(M[E[i].m]) /\ (f.bits = E[i].bits \/ E[i].m = Len(M))
    BY <1>4, Zenon DEF ObjectRun
  <2>2. CASE E[i].m = Len(M)
    <3>1. OfLast(M, E[j2])
      BY <2>1, <2>2, <1>4, Zenon DEF OfLast
    <3> QED
      BY <2>1, <3>1, <1>2, Zenon DEF OffRight
  <2>3. CASE E[i].m # Len(M)
    <3>1. off = E[i].at /\ f.bits = E[i].bits
      BY <2>1, <2>3, <1>3 DEF OfLast
    <3>2. off + f.bits = Stop(E[j2])
      BY <3>1, <1>4 DEF Stop
    <3> QED
      BY <2>1, <3>2, <1>2, Zenon DEF OffRight
  <2> QED
    BY <2>2, <2>3
<1>5. CASE i = j2 /\ BytesRun(M, E[i], f)
  <2>1. ~isObject(M[E[i].m]) /\ f.bits = E[i].bits
    BY <1>5, Zenon DEF BytesRun
  <2>2. off = E[i].at
    BY <2>1, <1>3 DEF OfLast
  <2>3. off + f.bits = Stop(E[j2])
    BY <2>1, <2>2, <1>5 DEF Stop
  <2> QED
    BY <2>2, <2>3, <1>2, Zenon DEF OffRight
<1>6. CASE ArrayRun(M, E, i, j2, f) \/ StructRun(M, E, i, j2, f)
  <2>1. f.bits = Stop(E[j2]) - E[i].at /\ \A x \in i..j2 : ~isObject(M[E[x].m])
    BY <1>6, Zenon DEF ArrayRun, StructRun
  <2>2. i \in i..j2
    <3>1. i \in Nat /\ j2 \in Nat /\ i <= j2
      BY <1>1, Zenon DEF AtTypes
    <3> QED
      BY <3>1
  <2>3. off = E[i].at
    BY <2>1, <2>2, <1>3 DEF OfLast
  <2>4. off + f.bits = Stop(E[j2])
    BY <2>1, <2>3, <1>2, PastAt
  <2> QED
    BY <2>3, <2>4, <1>2, Zenon DEF OffRight
<1> QED
  BY <1>1, <1>4, <1>5, <1>6, Zenon DEF RunOf

\* A direct store.
LEMMA DirectKeeps ==
  ASSUME NEW c, NEW M, M = Members(c), GoodMembers(M), NEW E, E = ElementsOf(M), NEW j \in Nat,
         NEW i, NEW j2, NEW f, FormatAt(M, E, j, i, j2, f), f.op # "struct",
         NEW acc, NEW D, NEW C, NEW last, StoredTo(c, M, E, j, acc, D, C, last),
         OffRight(M, E, j, acc.off), NEW r, Directed(M, acc, f, E[i], r)
  PROVE  StoredTo(c, M, E, j2, r, D \cup (i..j2), C, last)
<1>1. AtTypes(M, E, j, i, j2, f) /\ RunOf(M, E, i, j2, f)
  BY FormatAtFacts
<1>2. /\ i = j + 1 /\ i \in Nat /\ i \in 1..Len(E) /\ j2 \in Nat /\ j2 \in 1..Len(E) /\ i <= j2 /\ j < i /\ j <= j2
      /\ structFormat(M, E[j2]).op = f.op
      /\ \A l \in 1..j2 : l \in 1..j \/ l \in i..j2
      /\ \A l \in 1..j : l \in 1..j2
  BY <1>1, Zenon DEF AtTypes
<1>3. Chain(E) /\ Len(E) \in Nat
  BY ElementsChain, ElementsTyped
<1> PICK s : s = Direct(M, f, E[i], acc.off)
  OBVIOUS
<1>4. r.direct = Append(acc.direct, s) /\ r.calls = acc.calls /\ r.fmtsOff = acc.fmtsOff
  BY Zenon DEF Directed
<1>5. Stores(c, E, s, i, j2) /\ s.op # "struct"
  <2>1. CASE i = j2 /\ ObjectRun(M, E[i], f)
    <3>1. Stores(c, E, s, i, i) /\ s.op # "struct"
      BY <2>1, <1>2, ObjectStores
    <3> QED
      BY <3>1, <2>1
  <2>2. CASE i = j2 /\ BytesRun(M, E[i], f)
    <3>1. f.op # "object"
      BY <2>2 DEF BytesRun
    <3>2. acc.off = E[i].at
      BY <3>1, OffNext
    <3>3. Stores(c, E, s, i, i) /\ s.op # "struct"
      BY <2>2, <1>2, <3>2, BytesStores
    <3> QED
      BY <3>3, <2>2
  <2>3. CASE ArrayRun(M, E, i, j2, f)
    BY <2>3, ArrayStores
  <2>4. ~StructRun(M, E, i, j2, f)
    BY DEF StructRun
  <2> QED
    BY <1>1, <2>1, <2>2, <2>3, <2>4, Zenon DEF RunOf
<1>6. /\ DirectTo(c, E, j, acc.direct, D) /\ CallsTo(c, E, j, acc.calls, C, last)
      /\ Len(acc.calls) # 0 => last \in 1..j /\ acc.fmtsOff = Stop(E[last])
      /\ \A l \in 1..j : l \in D \/ l \in C
  BY Zenon DEF StoredTo
<1>7. DirectTo(c, E, j2, r.direct, D \cup (i..j2))
  <2>1. DirectTo(c, E, j2, Append(acc.direct, s), D \cup (i..j2))
    BY <1>2, <1>3, <1>5, <1>6, AddDirect
  <2> QED
    BY <2>1, <1>4
<1>8. CallsTo(c, E, j2, r.calls, C, last)
  <2>1. CallsTo(c, E, j2, acc.calls, C, last)
    BY <1>2, <1>3, <1>6, CallsLater
  <2> QED
    BY <2>1, <1>4
<1>9. Len(r.calls) # 0 => last \in 1..j2 /\ r.fmtsOff = Stop(E[last])
  BY <1>2, <1>4, <1>6
<1>10. ~(structFormat(M, E[j2]).op = "struct")
  BY <1>2
<1>11. \A l \in 1..j2 : l \in D \cup (i..j2) \/ l \in C
  BY <1>2, <1>6
<1> QED
  BY <1>7, <1>8, <1>9, <1>10, <1>11, Zenon DEF StoredTo

\* Where the call behind which the word is put ends.
JoinsAt(E, j, acc, last) ==
    acc.calls # <<>> /\ acc.fmtsOff = acc.off <=> Len(acc.calls) # 0 /\ last = j
LEMMA JoinsFacts ==
  ASSUME NEW c, NEW M, GoodMembers(M), NEW E, E = ElementsOf(M), NEW j \in Nat, j + 1 \in 1..Len(E),
         NEW acc, NEW D, NEW C, NEW last, StoredTo(c, M, E, j, acc, D, C, last),
         acc.off = E[j + 1].at
  PROVE  JoinsAt(E, j, acc, last)
<1>1. /\ CallsTo(c, E, j, acc.calls, C, last)
      /\ Len(acc.calls) # 0 => last \in 1..j /\ acc.fmtsOff = Stop(E[last])
  BY Zenon DEF StoredTo
<1>2. acc.calls # <<>> <=> Len(acc.calls) # 0
  <2>1. PICK S : acc.calls \in Seq(S)
    BY <1>1 DEF CallsTo, Listed
  <2> PICK k : k = acc.calls
    OBVIOUS
  <2>2. k \in Seq(S) => (k # <<>> <=> Len(k) # 0)
    OBVIOUS
  <2> QED
    BY <2>1, <2>2
<1>3. ASSUME Len(acc.calls) # 0 PROVE acc.fmtsOff = acc.off <=> last = j
  <2>1. last \in 1..j /\ acc.fmtsOff = Stop(E[last])
    BY <1>1, <1>3
  <2>2. Len(E) \in Nat
    BY ElementsTyped
  <2>3. j \in 1..Len(E) /\ j + 1 <= Len(E) /\ last \in 1..Len(E)
    BY <2>1, <2>2
  <2>4. Stop(E[j]) = acc.off
    BY <2>3, Successor
  <2>5. CASE last = j
    BY <2>1, <2>4, <2>5
  <2>6. CASE last # j
    <3>1. last < j
      BY <2>1, <2>6
    <3>2. Stop(E[last]) < Stop(E[j])
      BY <2>3, <3>1, InOrder
    <3>3. Stop(E[last]) \in Nat
      BY <2>3, ElementsTyped
    <3>4. Stop(E[last]) # Stop(E[j])
      BY <3>2, <3>3
    <3> QED
      BY <2>1, <2>4, <2>6, <3>4
  <2> QED
    BY <2>5, <2>6
<1> QED
  BY <1>2, <1>3 DEF JoinsAt

\* A word joins the last call, or starts one.
LEMMA CallKeeps ==
  ASSUME NEW c, NEW M, M = Members(c), GoodMembers(M), NEW E, E = ElementsOf(M), NEW j \in Nat,
         NEW i, NEW j2, NEW f, FormatAt(M, E, j, i, j2, f), f.op = "struct",
         NEW acc, NEW D, NEW C, NEW last, StoredTo(c, M, E, j, acc, D, C, last),
         OffRight(M, E, j, acc.off), NEW r, Called(M, acc, f, E[i], r)
  PROVE  StoredTo(c, M, E, j2, r, D, C \cup (i..j2), j2)
<1>1. AtTypes(M, E, j, i, j2, f) /\ RunOf(M, E, i, j2, f)
  BY FormatAtFacts
<1>2. /\ i = j + 1 /\ i \in Nat /\ i \in 1..Len(E) /\ j2 \in Nat /\ j2 \in 1..Len(E) /\ i <= j2 /\ j < i /\ j <= j2 /\ j < j2
      /\ f = structFormat(M, E[i]) /\ E[i].at \in Nat /\ Stop(E[j2]) \in Nat
      /\ \A l \in 1..j2 : l \in 1..j \/ l \in i..j2
  BY <1>1, Zenon DEF AtTypes
<1>3. Chain(E) /\ Len(E) \in Nat
  BY ElementsChain, ElementsTyped
<1>4. /\ r.direct = acc.direct /\ r.fmtsOff = acc.off + f.bits
      /\ acc.calls # <<>> /\ acc.fmtsOff = acc.off => r.calls = AddWords(acc.calls, f.words)
      /\ ~(acc.calls # <<>> /\ acc.fmtsOff = acc.off) =>
           r.calls = Append(acc.calls, Fmt(acc.off \div 8, E[i].m, f.words))
  BY Zenon DEF Called
<1>5. StructRun(M, E, i, j2, f)
  <2>1. ~ObjectRun(M, E[i], f) /\ ~BytesRun(M, E[i], f) /\ ~ArrayRun(M, E, i, j2, f)
    BY DEF ObjectRun, BytesRun, ArrayRun
  <2> QED
    BY <1>1, <2>1, Zenon DEF RunOf
<1>6. /\ f.words = <<Word(f.bits, j2 - i + 1)>>
      /\ f.bits = Stop(E[j2]) - E[i].at
      /\ E[i].at % 8 = 0 /\ Stop(E[j2]) % 8 = 0
      /\ \A x \in i..j2 : ~IsData(M[E[x].m])
      /\ E[i].k = 0 \/ (i - 1 \in 1..Len(E) /\ E[i - 1].m = E[i].m)
  BY <1>5, Zenon DEF StructRun
<1>7. acc.off = E[i].at
  BY OffNext
<1>8. /\ DirectTo(c, E, j, acc.direct, D) /\ CallsTo(c, E, j, acc.calls, C, last)
      /\ Len(acc.calls) # 0 => last \in 1..j /\ acc.fmtsOff = Stop(E[last])
      /\ j # 0 /\ structFormat(M, E[j]).op = "struct" => Len(acc.calls) # 0 /\ last = j
      /\ \A l \in 1..j : l \in D \/ l \in C
  BY Zenon DEF StoredTo
<1>9. JoinsAt(E, j, acc, last)
  <2>1. j + 1 \in 1..Len(E) /\ acc.off = E[j + 1].at
    BY <1>2, <1>7
  <2> QED
    BY <2>1, JoinsFacts
<1>10. NoData(c, E, i, j2)
  BY <1>6 DEF NoData
<1>11. CallsTo(c, E, j2, r.calls, C \cup (i..j2), j2) /\ Len(r.calls) # 0
  <2>1. CASE acc.calls # <<>> /\ acc.fmtsOff = acc.off
    <3>1. Len(acc.calls) # 0 /\ last = j
      BY <2>1, <1>9, Zenon DEF JoinsAt
    <3> PICK w : w = Word(f.bits, j2 - i + 1)
      OBVIOUS
    <3>2. r.calls = Joined(acc.calls, w)
      BY <2>1, <1>4, <1>6, Zenon DEF Joined, AddWords
    <3>3. w = Word(Stop(E[j2]) - E[j + 1].at, j2 - j)
      <4>1. j2 - i + 1 = j2 - j
        BY <1>2
      <4> QED
        BY <4>1, <1>2, <1>6, Zenon
    <3>4. CallsTo(c, E, j, acc.calls, C, j) /\ NoData(c, E, j + 1, j2)
      BY <3>1, <1>2, <1>8, <1>10
    <3>5. CallsTo(c, E, j2, Joined(acc.calls, Word(Stop(E[j2]) - E[j + 1].at, j2 - j)), C \cup ((j + 1)..j2), j2)
      BY <3>1, <3>4, <1>2, <1>3, <1>6, JoinCall
    <3>6. CallsTo(c, E, j2, r.calls, C \cup (i..j2), j2)
      BY <3>2, <3>3, <3>5, <1>2
    <3>7. Len(r.calls) # 0
      <4>1. Listed(acc.calls)
        BY <3>4 DEF CallsTo
      <4>2. Len(Joined(acc.calls, w)) = Len(acc.calls)
        BY <3>1, <4>1, JoinedFacts
      <4> QED
        BY <3>1, <3>2, <4>2
    <3> QED
      BY <3>6, <3>7
  <2>2. CASE ~(acc.calls # <<>> /\ acc.fmtsOff = acc.off)
    <3>1. ~(Len(acc.calls) # 0 /\ last = j)
      BY <2>2, <1>9, Zenon DEF JoinsAt
    <3>2. E[i].k = 0
      <4> SUFFICES ASSUME E[i].k # 0 PROVE FALSE
        OBVIOUS
      <4>1. i - 1 \in 1..Len(E) /\ E[i - 1].m = E[i].m
        BY <1>6
      <4>2. i - 1 = j /\ j # 0
        BY <4>1, <1>2
      <4>3. E[j].m = E[i].m
        BY <4>1, <4>2
      <4>4. structFormat(M, E[j]) = structFormat(M, E[i])
        BY <4>3, FormatShared
      <4>5. structFormat(M, E[j]).op = "struct"
        BY <4>4, <1>2
      <4> QED
        BY <3>1, <4>2, <4>5, <1>8
    <3> PICK w : w = Word(Stop(E[j2]) - E[i].at, j2 - i + 1)
      OBVIOUS
    <3> PICK s : s = Fmt(E[i].at \div 8, E[i].m, <<w>>)
      OBVIOUS
    <3>3. CallFits(E, s, i, j2)
      <4>1. CallFits(E, Fmt(E[i].at \div 8, E[i].m, <<Word(Stop(E[j2]) - E[i].at, j2 - i + 1)>>), i, j2)
        BY <3>2, <1>2, <1>3, <1>6, CallStarts
      <4> QED
        BY <4>1, Zenon
    <3>4. r.calls = Append(acc.calls, s)
      <4>1. f.words = <<w>>
        BY <1>6, Zenon
      <4> QED
        BY <2>2, <4>1, <1>4, <1>7, Zenon
    <3>5. CallsTo(c, E, j2, Append(acc.calls, s), C \cup (i..j2), j2)
      BY <3>3, <1>2, <1>3, <1>8, <1>10, AddCall
    <3>6. Len(Append(acc.calls, s)) = Len(acc.calls) + 1 /\ Len(acc.calls) \in Nat
      <4>1. Listed(acc.calls)
        BY <1>8 DEF CallsTo
      <4> QED
        BY <4>1, AppendAny, ListedFacts
    <3>7. Len(r.calls) # 0
      <4>1. Len(r.calls) = Len(acc.calls) + 1
        BY <3>4, <3>6
      <4> QED
        BY <4>1, <3>6
    <3> QED
      BY <3>4, <3>5, <3>7
  <2> QED
    BY <2>1, <2>2
<1>12. DirectTo(c, E, j2, r.direct, D)
  <2>1. DirectTo(c, E, j2, acc.direct, D)
    BY <1>2, <1>3, <1>8, DirectLater
  <2> QED
    BY <2>1, <1>4
<1>13. j2 \in 1..j2 /\ r.fmtsOff = Stop(E[j2])
  <2>1. j2 \in 1..j2
    BY <1>2
  <2>2. r.fmtsOff = Stop(E[j2])
    BY <1>2, <1>4, <1>6, <1>7, PastAt
  <2> QED
    BY <2>1, <2>2
<1>14. \A l \in 1..j2 : l \in D \/ l \in C \cup (i..j2)
  BY <1>2, <1>8
<1> QED
  BY <1>11, <1>12, <1>13, <1>14, Zenon DEF StoredTo

\* One format more.
LEMMA MakeKeeps ==
  ASSUME NEW c, NEW M, M = Members(c), GoodMembers(M), NEW E, E = ElementsOf(M), NEW j \in Nat,
         NEW i, NEW j2, NEW f, FormatAt(M, E, j, i, j2, f), NEW acc, MadeTo(c, M, E, j, acc)
  PROVE  MadeTo(c, M, E, j2, AddFormat(M, acc, f, E[i]))
<1> PICK r : r = AddFormat(M, acc, f, E[i])
  OBVIOUS
<1>1. IsMade(acc) /\ OffRight(M, E, j, acc.off)
  BY Zenon DEF MadeTo
<1>2. PICK D, C, last : StoredTo(c, M, E, j, acc, D, C, last)
  BY Zenon DEF MadeTo
<1>3. OffRight(M, E, j2, acc.off + f.bits)
  BY <1>1, OffNext
<1>4. j2 \in 0..Len(E)
  <2>1. j2 \in 1..Len(E)
    BY Zenon DEF FormatAt, EndsAt
  <2> QED
    BY <2>1
<1>5. CASE f.op # "struct"
  <2>1. Directed(M, acc, f, E[i], r)
    BY <1>1, <1>5, AddDirectFields
  <2>2. StoredTo(c, M, E, j2, r, D \cup (i..j2), C, last)
    BY <2>1, <1>1, <1>2, <1>5, DirectKeeps
  <2>3. IsMade(r) /\ r.off = acc.off + f.bits
    BY <2>1, Zenon DEF Directed
  <2>4. OffRight(M, E, j2, r.off)
    BY <2>3, <1>3
  <2>5. MadeTo(c, M, E, j2, r)
    BY <2>2, <2>3, <2>4, <1>4, Zenon DEF MadeTo
  <2> QED
    BY <2>5
<1>6. CASE f.op = "struct"
  <2>1. Called(M, acc, f, E[i], r)
    BY <1>1, <1>6, AddCallFields
  <2>2. StoredTo(c, M, E, j2, r, D, C \cup (i..j2), j2)
    BY <2>1, <1>1, <1>2, <1>6, CallKeeps
  <2>3. IsMade(r) /\ r.off = acc.off + f.bits
    BY <2>1, Zenon DEF Called
  <2>4. OffRight(M, E, j2, r.off)
    BY <2>3, <1>3
  <2>5. MadeTo(c, M, E, j2, r)
    BY <2>2, <2>3, <2>4, <1>4, Zenon DEF MadeTo
  <2> QED
    BY <2>5
<1> QED
  BY <1>5, <1>6

-----------------------------------------------------------------------------
(* The rounds of genFormats, and what they have made at the end.           *)

\* One round of genFormats, and what it starts from.
Round(M, e, acc) ==
    IF StartsFormat(M, e) THEN AddFormat(M, acc, structFormat(M, e), e) ELSE acc
NoneMade == [direct |-> <<>>, calls |-> <<>>, off |-> 0, fmtsOff |-> 0]
Rounds(M, E, f) == /\ f[0] = NoneMade
                   /\ \A i \in 1..Len(E) : f[i] = Round(M, E[i], f[i - 1])
\* After i rounds the formats that have started reach the element j.
Reached(c, M, E, i, j, acc) ==
    /\ j \in Nat /\ i <= j
    /\ \A x \in Int : i + 1 <= x /\ x <= j => ~StartsFormat(M, E[x])
    /\ j = Len(E) \/ StartsFormat(M, E[j + 1])
    /\ MadeTo(c, M, E, j, acc)
LEMMA RoundsRun ==
  ASSUME NEW M, NEW E, E = ElementsOf(M), Len(E) \in Nat
  PROVE  \E f : Rounds(M, E, f) /\ genFormats(M) = f[Len(E)].direct \o f[Len(E)].calls
<1> DEFINE Adds(n, f) == f = [i \in 0..n |-> IF i = 0 THEN NoneMade ELSE Round(M, E[i], f[i - 1])]
           S == {n \in Nat : \E f : Adds(n, f)}
<1>1. 0 \in S
  <2> DEFINE f == [i \in {0} |-> NoneMade]
  <2>1. Adds(0, f)
    OBVIOUS
  <2> QED
    BY <2>1
<1>2. ASSUME NEW n \in Nat, n \in S PROVE n + 1 \in S
  <2>1. PICK f : Adds(n, f)
    BY <1>2
  <2> DEFINE next == Round(M, E[n + 1], f[n])
             g == [i \in 0..(n + 1) |-> IF i = n + 1 THEN next ELSE f[i]]
  <2>2. /\ \A i \in 0..n : g[i] = f[i]
        /\ g[n + 1] = next
        /\ \A i \in 0..(n + 1) : i # n + 1 => i \in 0..n
        /\ \A i \in 0..n : i # 0 => i - 1 \in 0..n
        /\ n + 1 # 0 /\ n + 1 - 1 = n /\ n \in 0..n
    OBVIOUS
  <2>3. \A i \in 0..n : f[i] = IF i = 0 THEN NoneMade ELSE Round(M, E[i], f[i - 1])
    BY <2>1
  <2>4. \A i \in 0..(n + 1) : g[i] = IF i = 0 THEN NoneMade ELSE Round(M, E[i], g[i - 1])
    <3> HIDE DEF g
    <3> TAKE i \in 0..(n + 1)
    <3>1. CASE i = n + 1
      <4>1. g[i - 1] = f[n]
        BY <2>2, <3>1
      <4> QED
        BY <2>2, <3>1, <4>1
    <3>2. CASE i \in 0..n
      BY <2>2, <2>3, <3>2
    <3> QED
      BY <2>2, <3>1, <3>2
  <2>5. Adds(n + 1, g)
    <3>1. g = [i \in 0..(n + 1) |-> g[i]]
      OBVIOUS
    <3> HIDE DEF g
    <3> QED
      BY <2>4, <3>1, Zenon
  <2> HIDE DEF g
  <2>6. \E h : Adds(n + 1, h)
    <3> HIDE DEF Adds
    <3> QED
      BY <2>5
  <2> QED
    BY <2>6
<1>3. Nat \subseteq S
  BY <1>1, <1>2, SetInduction
<1> DEFINE f == CHOOSE f : Adds(Len(E), f)
<1>4. Adds(Len(E), f)
  BY <1>3
<1>5. genFormats(M) = f[Len(E)].direct \o f[Len(E)].calls
  BY DEF genFormats, Round, NoneMade
<1> HIDE DEF f
<1>6. Rounds(M, E, f)
  BY <1>4 DEF Rounds
<1> QED
  BY <1>5, <1>6

\* Where a format that starts leads.
LEMMA StartReaches ==
  ASSUME NEW c, NEW M, M = Members(c), GoodMembers(M), NEW E, E = ElementsOf(M), NEW i \in Nat,
         i + 1 \in 1..Len(E), StartsFormat(M, E[i + 1]), NEW acc, MadeTo(c, M, E, i, acc)
  PROVE  \E j : Reached(c, M, E, i + 1, j, Round(M, E[i + 1], acc))
<1> PICK x : x = i + 1
  OBVIOUS
<1> PICK f : f = structFormat(M, E[x])
  OBVIOUS
<1>1. PICK j : EndsAt(M, E, x, j) /\ FormatIs(M, E, x, j)
  BY FormatFacts
<1>2. FormatAt(M, E, i, x, j, f)
  BY <1>1, Zenon DEF FormatAt
<1>3. MadeTo(c, M, E, j, AddFormat(M, acc, f, E[x]))
  BY <1>2, MakeKeeps
<1>4. Round(M, E[x], acc) = AddFormat(M, acc, f, E[x])
  BY DEF Round
<1>5. /\ j \in 1..Len(E) /\ x <= j
      /\ \A y \in Int : x + 1 <= y /\ y <= j => ~StartsFormat(M, E[y])
      /\ j = Len(E) \/ StartsFormat(M, E[j + 1])
  BY <1>1, Zenon DEF EndsAt
<1>6. j \in Nat
  BY <1>5
<1>7. MadeTo(c, M, E, j, Round(M, E[x], acc))
  BY <1>3, <1>4
<1>8. Reached(c, M, E, x, j, Round(M, E[x], acc))
  BY <1>5, <1>6, <1>7, Zenon DEF Reached
<1> QED
  BY <1>8

\* One round more.
LEMMA RoundReaches ==
  ASSUME NEW c, NEW M, M = Members(c), GoodMembers(M), NEW E, E = ElementsOf(M), NEW i \in Nat,
         i + 1 \in 1..Len(E), NEW j, NEW acc, Reached(c, M, E, i, j, acc)
  PROVE  \E j2 : Reached(c, M, E, i + 1, j2, Round(M, E[i + 1], acc))
<1>1. /\ j \in Nat /\ i <= j
      /\ \A x \in Int : i + 1 <= x /\ x <= j => ~StartsFormat(M, E[x])
      /\ j = Len(E) \/ StartsFormat(M, E[j + 1])
      /\ MadeTo(c, M, E, j, acc)
  BY Zenon DEF Reached
<1>2. Len(E) \in Nat
  BY ElementsTyped
<1>3. CASE i = j
  <2>1. j # Len(E)
    BY <1>2, <1>3
  <2> QED
    BY <1>1, <1>3, <2>1, StartReaches
<1>4. CASE i # j
  <2>1. i + 1 <= j /\ i + 1 \in Int
    BY <1>1, <1>4
  <2>2. ~StartsFormat(M, E[i + 1])
    <3>1. i + 1 <= i + 1
      OBVIOUS
    <3> QED
      BY <1>1, <2>1, <3>1
  <2>3. \A x \in Int : (i + 1) + 1 <= x /\ x <= j => ~StartsFormat(M, E[x])
    <3>1. \A x \in Int : (i + 1) + 1 <= x => i + 1 <= x
      OBVIOUS
    <3> QED
      BY <1>1, <3>1
  <2>4. Round(M, E[i + 1], acc) = acc
    BY <2>2 DEF Round
  <2>5. Reached(c, M, E, i + 1, j, acc)
    BY <1>1, <2>1, <2>3, Zenon DEF Reached
  <2> QED
    BY <2>4, <2>5
<1> QED
  BY <1>3, <1>4

\* Before the first round nothing is made, and nothing should be.
LEMMA NoneIsMade ==
  ASSUME NEW c, NEW M, NEW E, Len(E) \in Nat
  PROVE  MadeTo(c, M, E, 0, NoneMade)
<1> PICK acc : acc = NoneMade
  OBVIOUS
<1>1. acc.direct = <<>> /\ acc.calls = <<>> /\ acc.off = 0 /\ IsMade(acc)
  BY DEF NoneMade, IsMade
<1>2. Listed(<<>>) /\ Len(<<>>) = 0
  <2>1. <<>> \in Seq({}) /\ Len(<<>>) = 0
    OBVIOUS
  <2> QED
    BY <2>1 DEF Listed
<1> PICK lo : lo = <<>>
  OBVIOUS
<1> PICK d : d = <<>>
  OBVIOUS
<1>3. Listed(d) /\ Len(d) = 0 /\ 1..Len(d) = {}
  BY <1>2
<1>4. DirectTo(c, E, 0, d, {})
  <2>1. DirectRuns(c, E, 0, d, {}, lo, lo)
    BY <1>3 DEF DirectRuns
  <2> QED
    BY <2>1, <1>3 DEF DirectTo
<1>5. CallsTo(c, E, 0, d, {}, 0)
  <2>1. CallsRuns(c, E, 0, d, {}, lo, lo)
    BY <1>3 DEF CallsRuns
  <2> QED
    BY <2>1, <1>3 DEF CallsTo
<1>6. 1..0 = {}
  OBVIOUS
<1>7. StoredTo(c, M, E, 0, acc, {}, {}, 0)
  BY <1>1, <1>3, <1>4, <1>5, <1>6 DEF StoredTo
<1>8. OffRight(M, E, 0, acc.off)
  BY <1>1 DEF OffRight
<1> QED
  BY <1>1, <1>7, <1>8 DEF MadeTo

\* The first element starts a format.
LEMMA FirstStarts ==
  ASSUME NEW M, GoodMembers(M), NEW E, E = ElementsOf(M), Len(E) # 0
  PROVE  StartsFormat(M, E[1])
<1> PICK e : e = E[1]
  OBVIOUS
<1>1. e.m = 1 /\ e.k = 0 /\ 1 \in 1..Len(E)
  BY FirstElement
<1>2. Len(M) \in Nat /\ 1 \in 1..Len(M)
  <2>1. e.m \in 1..Len(M)
    BY <1>1, ElementAt
  <2> QED
    BY <2>1, <1>1, MembersLen
<1>3. \A z \in groupMB(M, e.m) : e.m <= z
  <2>1. \A z \in groupMB(M, 1) : z \in 1..Len(M)
    BY <1>2, GroupFacts
  <2>2. \A z \in 1..Len(M) : 1 <= z
    OBVIOUS
  <2> QED
    BY <1>1, <2>1, <2>2
<1>4. StartsFormat(M, e)
  BY <1>1, <1>3 DEF StartsFormat
<1> QED
  BY <1>4

\* What genFormats has made at the end.
LEMMA AllMade ==
  ASSUME NEW c, NEW M, M = Members(c), GoodMembers(M), NEW E, E = ElementsOf(M)
  PROVE  \E acc : MadeTo(c, M, E, Len(E), acc) /\ genFormats(M) = acc.direct \o acc.calls
<1>1. Len(E) \in Nat
  BY ElementsTyped
<1>2. PICK f : Rounds(M, E, f) /\ genFormats(M) = f[Len(E)].direct \o f[Len(E)].calls
  BY <1>1, RoundsRun
<1> DEFINE T == {i \in Nat : i <= Len(E) => \E j : Reached(c, M, E, i, j, f[i])}
<1>3. 0 \in T
  <2>1. f[0] = NoneMade
    BY <1>2 DEF Rounds
  <2>2. MadeTo(c, M, E, 0, f[0])
    BY <2>1, <1>1, NoneIsMade
  <2>3. \A x \in Int : 0 + 1 <= x /\ x <= 0 => ~StartsFormat(M, E[x])
    OBVIOUS
  <2>4. 0 = Len(E) \/ StartsFormat(M, E[0 + 1])
    <3>1. 0 + 1 = 1
      OBVIOUS
    <3> QED
      BY <3>1, FirstStarts
  <2>5. 0 \in Nat /\ 0 <= 0
    OBVIOUS
  <2>6. Reached(c, M, E, 0, 0, f[0])
    BY <2>2, <2>3, <2>4, <2>5, Zenon DEF Reached
  <2> QED
    BY <2>5, <2>6
<1>4. ASSUME NEW i \in Nat, i \in T PROVE i + 1 \in T
  <2> SUFFICES ASSUME i + 1 <= Len(E) PROVE \E j : Reached(c, M, E, i + 1, j, f[i + 1])
    OBVIOUS
  <2>1. i <= Len(E) /\ i + 1 \in 1..Len(E) /\ (i + 1) - 1 = i
    BY <1>1
  <2>2. PICK j : Reached(c, M, E, i, j, f[i])
    BY <1>4, <2>1
  <2>3. f[i + 1] = Round(M, E[i + 1], f[i])
    BY <1>2, <2>1 DEF Rounds
  <2> PICK acc : acc = f[i]
    OBVIOUS
  <2>4. \E j2 : Reached(c, M, E, i + 1, j2, Round(M, E[i + 1], acc))
    BY <2>1, <2>2, RoundReaches
  <2> QED
    BY <2>3, <2>4
<1>5. Nat \subseteq T
  BY <1>3, <1>4, SetInduction
<1>6. PICK j : Reached(c, M, E, Len(E), j, f[Len(E)])
  <2>1. Len(E) <= Len(E)
    BY <1>1
  <2> QED
    BY <1>1, <1>5, <2>1
<1>7. j \in 0..Len(E) /\ j \in Nat /\ Len(E) <= j
  BY <1>6, Zenon DEF Reached, MadeTo
<1>8. j = Len(E)
  BY <1>1, <1>7
<1>9. MadeTo(c, M, E, Len(E), f[Len(E)])
  BY <1>6, <1>8, Zenon DEF Reached
<1> QED
  BY <1>2, <1>9

-----------------------------------------------------------------------------
(* Every generated class is placed.                                        *)

\* The statements s, in order, store the elements lo[x] to hi[x] each, and all of them.
DividedBy(c, E, s, lo, hi) ==
    /\ lo \in [1..Len(s) -> Nat] /\ hi \in [1..Len(s) -> Nat]
    /\ \A x \in 1..Len(s) : Stores(c, E, s[x], lo[x], hi[x])
    /\ \A x \in 1..Len(s) : \A y \in 1..Len(s) : x < y /\ s[y].op # "struct" => hi[x] < lo[y]
    /\ \A l \in 1..Len(E) : \E x \in 1..Len(s) : lo[x] <= l /\ l <= hi[x]
Behind(f, g, p, q) == [x \in 1..(p + q) |-> IF x <= p THEN f[x] ELSE g[x - p]]
IsBehind(h, f, g, p, q) ==
    /\ DOMAIN h = 1..(p + q)
    /\ \A x \in 1..p : h[x] = f[x]
    /\ \A x \in 1..q : h[p + x] = g[x]
LEMMA ConcatAny ==
  ASSUME NEW s, Listed(s), NEW t, Listed(t)
  PROVE  Listed(s \o t) /\ Len(s \o t) = Len(s) + Len(t) /\ IsBehind(s \o t, s, t, Len(s), Len(t))
<1>1. PICK S : s \in Seq(S)
  BY DEF Listed
<1>2. PICK T : t \in Seq(T)
  BY DEF Listed
<1> PICK U : U = S \cup T
  OBVIOUS
<1>3. s \in Seq(U)
  <2>1. S \subseteq U
    OBVIOUS
  <2> QED
    BY <2>1, <1>1, SeqMonotonic
<1>4. t \in Seq(U)
  <2>1. T \subseteq U
    OBVIOUS
  <2> QED
    BY <2>1, <1>2, SeqMonotonic
<1> PICK r : r = s \o t
  OBVIOUS
<1>5. /\ r \in Seq(U) /\ Len(r) = Len(s) + Len(t)
      /\ \A i \in 1..Len(s) : r[i] = s[i]
      /\ \A i \in 1..Len(t) : r[Len(s) + i] = t[i]
  BY <1>3, <1>4, ConcatIndex
<1>6. DOMAIN r = 1..(Len(s) + Len(t))
  BY <1>5
<1> QED
  BY <1>5, <1>6 DEF Listed, IsBehind

\* The indices of two functions one behind the other.
LEMMA BehindFacts ==
  ASSUME NEW f, NEW g, NEW p \in Nat, NEW q \in Nat
  PROVE  /\ IsBehind(Behind(f, g, p, q), f, g, p, q)
         /\ \A x \in 1..(p + q) : x \in 1..p \/ \E y \in 1..q : x = p + y
         /\ \A x \in 1..p : x \in 1..(p + q)
         /\ \A y \in 1..q : p + y \in 1..(p + q)
<1>1. \A x \in 1..(p + q) : x \in 1..p \/ \E y \in 1..q : x = p + y
  <2> TAKE x \in 1..(p + q)
  <2>1. CASE x <= p
    BY <2>1
  <2>2. CASE ~(x <= p)
    <3>1. x - p \in 1..q /\ x = p + (x - p)
      BY <2>2
    <3> QED
      BY <3>1
  <2> QED
    BY <2>1, <2>2
<1>2. /\ \A x \in 1..p : x \in 1..(p + q) /\ x <= p
      /\ \A y \in 1..q : p + y \in 1..(p + q) /\ ~(p + y <= p) /\ (p + y) - p = y
  OBVIOUS
<1> PICK h : h = Behind(f, g, p, q)
  OBVIOUS
<1>3. DOMAIN h = 1..(p + q) /\ \A x \in 1..(p + q) : h[x] = IF x <= p THEN f[x] ELSE g[x - p]
  BY DEF Behind
<1>4. \A x \in 1..p : h[x] = f[x]
  BY <1>2, <1>3
<1>5. \A y \in 1..q : h[p + y] = g[y]
  <2> TAKE y \in 1..q
  <2>1. h[p + y] = g[(p + y) - p]
    BY <1>2, <1>3
  <2> QED
    BY <2>1, <1>2
<1>6. IsBehind(h, f, g, p, q)
  BY <1>3, <1>4, <1>5 DEF IsBehind
<1> QED
  BY <1>1, <1>2, <1>6

\* The direct stores and the calls behind them.
LEMMA CodeDivides ==
  ASSUME NEW c, NEW E, Chain(E), Len(E) \in Nat, NEW d, NEW D, DirectTo(c, E, Len(E), d, D),
         NEW k, NEW C, NEW last, CallsTo(c, E, Len(E), k, C, last),
         \A l \in 1..Len(E) : l \in D \/ l \in C
  PROVE  Listed(d \o k) /\ \E lo, hi : DividedBy(c, E, d \o k, lo, hi)
<1> PICK lo, hi : Listed(d) /\ DirectRuns(c, E, Len(E), d, D, lo, hi)
  BY DEF DirectTo
<1> PICK from, to : Listed(k) /\ CallsRuns(c, E, Len(E), k, C, from, to)
  BY DEF CallsTo
<1> PICK p : p = Len(d)
  OBVIOUS
<1> PICK q : q = Len(k)
  OBVIOUS
<1>1. p \in Nat /\ q \in Nat
  BY ListedFacts
<1> PICK s : s = d \o k
  OBVIOUS
<1>2. Listed(s) /\ Len(s) = p + q /\ IsBehind(s, d, k, p, q)
  BY ConcatAny
<1> PICK lo2 : lo2 = Behind(lo, from, p, q)
  OBVIOUS
<1> PICK hi2 : hi2 = Behind(hi, to, p, q)
  OBVIOUS
<1>3. /\ \A x \in 1..(p + q) : x \in 1..p \/ \E y \in 1..q : x = p + y
      /\ \A x \in 1..p : x \in 1..(p + q)
      /\ \A y \in 1..q : p + y \in 1..(p + q)
  BY <1>1, BehindFacts
<1>4. /\ \A x \in 1..p : s[x] = d[x]
      /\ \A y \in 1..q : s[p + y] = k[y]
  BY <1>2 DEF IsBehind
<1>5. /\ DOMAIN lo2 = 1..(p + q)
      /\ \A x \in 1..p : lo2[x] = lo[x]
      /\ \A y \in 1..q : lo2[p + y] = from[y]
  <2>1. IsBehind(lo2, lo, from, p, q)
    BY <1>1, BehindFacts
  <2> QED
    BY <2>1 DEF IsBehind
<1>6. /\ DOMAIN hi2 = 1..(p + q)
      /\ \A x \in 1..p : hi2[x] = hi[x]
      /\ \A y \in 1..q : hi2[p + y] = to[y]
  <2>1. IsBehind(hi2, hi, to, p, q)
    BY <1>1, BehindFacts
  <2> QED
    BY <2>1 DEF IsBehind
<1>7. \A x \in 1..p : d[x].op # "struct" /\ Stores(c, E, d[x], lo[x], hi[x])
  BY DEF DirectRuns
<1>8. \A y \in 1..q : k[y].op = "struct" /\ Stores(c, E, k[y], from[y], to[y])
  <2> TAKE y \in 1..q
  <2> PICK t : t = k[y]
    OBVIOUS
  <2> PICK a : a = from[y]
    OBVIOUS
  <2> PICK b : b = to[y]
    OBVIOUS
  <2>1. CallFits(E, t, a, b) /\ NoData(c, E, a, b)
    BY DEF CallsRuns
  <2>2. StoresStruct(E, t, a, b)
    BY <2>1, CallStores
  <2>3. a \in 1..Len(E) /\ b \in 1..Len(E) /\ a <= b /\ t.op = "struct"
    BY <2>1, CallEnds
  <2>4. \A i \in a..b : ~IsData(Members(c)[E[i].m])
    BY <2>1 DEF NoData
  <2>5. Stores(c, E, t, a, b)
    BY <2>2, <2>3, <2>4, Zenon DEF Stores
  <2> QED
    BY <2>3, <2>5
<1>9. ASSUME NEW x \in 1..(p + q) PROVE Stores(c, E, s[x], lo2[x], hi2[x])
  <2>1. CASE x \in 1..p
    BY <2>1, <1>4, <1>5, <1>6, <1>7
  <2>2. ASSUME NEW y \in 1..q, x = p + y PROVE Stores(c, E, s[x], lo2[x], hi2[x])
    BY <2>2, <1>4, <1>5, <1>6, <1>8
  <2> QED
    BY <2>1, <2>2, <1>3
<1>10. lo2 \in [1..(p + q) -> Nat] /\ hi2 \in [1..(p + q) -> Nat]
  <2>1. \A x \in 1..(p + q) : lo2[x] \in Nat /\ hi2[x] \in Nat
    <3> TAKE x \in 1..(p + q)
    <3>1. lo2[x] \in 1..Len(E) /\ hi2[x] \in 1..Len(E)
      BY <1>9, Zenon DEF Stores
    <3> QED
      BY <3>1
  <2>2. lo2 = [x \in 1..(p + q) |-> lo2[x]] /\ hi2 = [x \in 1..(p + q) |-> hi2[x]]
    BY <1>5, <1>6 DEF Behind
  <2> QED
    BY <2>1, <2>2
<1>11. ASSUME NEW x \in 1..(p + q), NEW y \in 1..(p + q), x < y, s[y].op # "struct"
       PROVE  hi2[x] < lo2[y]
  <2>1. y \in 1..p
    BY <1>3, <1>4, <1>8, <1>11
  <2>2. x \in 1..p
    BY <2>1, <1>1, <1>11
  <2>3. hi[x] < lo[y]
    BY <2>1, <2>2, <1>11 DEF DirectRuns
  <2> QED
    BY <2>1, <2>2, <2>3, <1>5, <1>6
<1>12. ASSUME NEW l \in 1..Len(E) PROVE \E x \in 1..(p + q) : lo2[x] <= l /\ l <= hi2[x]
  <2>1. CASE l \in D
    <3>1. PICK x \in 1..p : lo[x] <= l /\ l <= hi[x]
      BY <2>1 DEF DirectRuns
    <3> QED
      BY <3>1, <1>3, <1>5, <1>6
  <2>2. CASE l \in C
    <3>1. PICK y \in 1..q : from[y] <= l /\ l <= to[y]
      BY <2>2 DEF CallsRuns
    <3>2. p + y \in 1..(p + q) /\ lo2[p + y] = from[y] /\ hi2[p + y] = to[y]
      BY <1>3, <1>5, <1>6
    <3>3. lo2[p + y] <= l /\ l <= hi2[p + y]
      BY <3>1, <3>2
    <3> QED
      BY <3>2, <3>3
  <2> QED
    BY <2>1, <2>2
<1>13. DividedBy(c, E, s, lo2, hi2)
  BY <1>2, <1>9, <1>10, <1>11, <1>12 DEF DividedBy
<1> QED
  BY <1>2, <1>13

\* What mkstructs.py generates for a well-formed class stores every element, where
\* MEMBERS puts it.
THEOREM GeneratedIsPlaced ==
  ASSUME NEW c, Generated(c)
  PROVE  Placed(c)
<1> PICK M : M = Members(c)
  OBVIOUS
<1> PICK E : E = Elements(c)
  OBVIOUS
<1> PICK s : s = Code(c)
  OBVIOUS
<1>1. WellFormed(c) /\ s = genFormats(M)
  BY DEF Generated, Code
<1>2. GoodMembers(M) /\ Structs[c].length \in Nat /\ Ends(M)[Len(M)] = 8 * Structs[c].length
  BY <1>1, WellFormedMembers
<1>3. E = ElementsOf(M)
  BY DEF Elements
<1>4. PICK acc : MadeTo(c, M, E, Len(E), acc) /\ s = acc.direct \o acc.calls
  BY <1>1, <1>2, <1>3, AllMade
<1>5. PICK D, C, last : StoredTo(c, M, E, Len(E), acc, D, C, last)
  BY <1>4, Zenon DEF MadeTo
<1>6. Chain(E) /\ Len(E) \in Nat /\ DOMAIN E = 1..Len(E)
  BY <1>2, <1>3, ElementsChain, ElementsTyped
<1>7. /\ DirectTo(c, E, Len(E), acc.direct, D) /\ CallsTo(c, E, Len(E), acc.calls, C, last)
      /\ \A l \in 1..Len(E) : l \in D \/ l \in C
  BY <1>5, Zenon DEF StoredTo
<1>8. Listed(s) /\ \E lo, hi : DividedBy(c, E, s, lo, hi)
  <2> PICK d : d = acc.direct
    OBVIOUS
  <2> PICK k : k = acc.calls
    OBVIOUS
  <2>1. Listed(d \o k) /\ \E lo, hi : DividedBy(c, E, d \o k, lo, hi)
    BY <1>6, <1>7, CodeDivides
  <2>2. s = d \o k
    BY <1>4, Zenon
  <2> QED
    BY <2>1, <2>2, Zenon
<1>9. \E lo, hi : Divided(c, lo, hi)
  <2>1. PICK lo, hi : DividedBy(c, E, s, lo, hi)
    BY <1>8, Zenon
  <2>2. Divided(c, lo, hi)
    BY <2>1, Zenon DEF DividedBy, Divided
  <2> QED
    BY <2>2, Zenon
<1>10. Len(s) \in Nat /\ s \in Seq({s[x] : x \in 1..Len(s)})
  <2>1. PICK S : s \in Seq(S)
    BY <1>8 DEF Listed
  <2>2. s = [x \in 1..Len(s) |-> s[x]] /\ Len(s) \in Nat
    BY <2>1
  <2> PICK T : T = {s[x] : x \in 1..Len(s)}
    OBVIOUS
  <2>3. \A x \in 1..Len(s) : s[x] \in T
    OBVIOUS
  <2> PICK n : n = Len(s)
    OBVIOUS
  <2>4. [x \in 1..n |-> s[x]] \in [1..n -> T]
    BY <2>3
  <2>5. s \in [1..n -> T] /\ n \in Nat
    BY <2>2, <2>4
  <2>6. s \in Seq(T)
    BY <2>5, SeqDef
  <2> QED
    BY <2>2, <2>6
<1>11. \A i \in 1..Len(E) : E[i].m \in DOMAIN M
  BY <1>2, <1>3, ElementAt, MembersLen
<1>12. /\ Total([i \in DOMAIN E |-> E[i].bits]) = 8 * Structs[c].length
       /\ \A i \in 1..Len(E) : E[i].at + E[i].bits <= 8 * Structs[c].length
  BY <1>2, <1>3, ElementsTotal DEF Stop
<1> QED
  BY <1>2, <1>6, <1>9, <1>10, <1>11, <1>12, Zenon DEF Placed

-----------------------------------------------------------------------------
(* The theorems.                                                           *)

\* The statements of every class are those mkstructs.py generates from its members.
AllGenerated == \A c \in DOMAIN Structs : Generated(c)

LEMMA AllArePlaced ==
  ASSUME AllGenerated
  PROVE  AllPlaced
BY GeneratedIsPlaced DEF AllGenerated, AllPlaced

\* What is in the buffer lies inside it, piece by piece of one element each, and
\* unpack_from assigns no element twice (pack_into and unpack_from of IBA_struct.py).
THEOREM BinStructTypeOK ==
  ASSUME AllGenerated
  PROVE  Spec => []TypeOK
<1>1. AllPlaced
  BY AllArePlaced
<1>2. Spec => []IInv
  BY <1>1, BinStructInvariant
<1>3. IInv => TypeOK
  BY <1>1, ImpliesTypeOK
<1> QED
  BY <1>2, <1>3, PTL

\* Packing puts every element where MEMBERS says, fills MAD_LENGTH, and refuses no
\* value that fits: what mkstructs.py generates is right for every well-formed member
\* list, and not only for those of today's tables.
THEOREM PackedInTheirPlaces ==
  ASSUME AllGenerated
  PROVE  Spec => []InTheirPlaces
<1>1. AllPlaced
  BY AllArePlaced
<1>2. Spec => []IInv
  BY <1>1, BinStructInvariant
<1>3. IInv => InTheirPlaces
  BY <1>1, ImpliesInTheirPlaces
<1> QED
  BY <1>2, <1>3, PTL

\* Unpacking gives every element back what packing took from it, even when the value of
\* another one did not fit and moved it.
THEOREM UnpackedAsPacked ==
  ASSUME AllGenerated
  PROVE  Spec => []RoundTrips
<1>1. AllPlaced
  BY AllArePlaced
<1>2. Spec => []IInv
  BY <1>1, BinStructInvariant
<1>3. IInv => RoundTrips
  BY <1>1, ImpliesRoundTrips
<1> QED
  BY <1>2, <1>3, PTL

\* A value that does not fit spoils at most its own member: the members that share a
\* word of a struct call are masked, and an entry of pack_array8, which is not, spills
\* only into the entry before it, or is refused.
THEOREM SpoilsNoOther ==
  ASSUME AllGenerated
  PROVE  Spec => []SpoilsOnlyItsMember
<1>1. AllPlaced
  BY AllArePlaced
<1>2. Spec => []IInv
  BY <1>1, BinStructInvariant
<1>3. IInv => SpoilsOnlyItsMember
  BY ImpliesSpoilsOnlyItsMember
<1> QED
  BY <1>2, <1>3, PTL
=============================================================================
