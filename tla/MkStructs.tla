------------------------------- MODULE MkStructs -------------------------------
(* How codegen/mkstructs.py turns the member list of a structure into the      *)
(* statements of its pack_into: members are grouped into words (groupMB), each *)
(* group becomes a format (structFormat, formatSinglePack), and runs of        *)
(* adjacent words become one struct call behind the direct stores (genFormats).*)
EXTENDS IBAStruct, SequencesExt

\* The running totals of a sequence of numbers: Sums(s)[i] is that of the first i.
Sums(s) == LET sum[i \in 0..Len(s)] == IF i = 0 THEN 0 ELSE sum[i - 1] + s[i] IN sum
Total(s) == Sums(s)[Len(s)]

lenBits(x) == x.bits * x.count
isObject(x) == x.class # ""

IsData_Mutant(x) == ~isObject(x) /\ IF x.count = 1 THEN x.bits >= 64 ELSE x.bits = 8
\* A byte string: a scalar of more than 64 bits or an array of bytes.
IsData(x) == ~isObject(x) /\ IF x.count = 1 THEN x.bits > 64 ELSE x.bits = 8

\* The bit at which a member starts, from that of the first to the end of the last.
Ends(members) == Sums([i \in DOMAIN members |-> lenBits(members[i])])
Offset(members, m) == Ends(members)[m - 1]
isAligned(members, m) ==
    LET x == members[m]
    IN  IF x.bits >= 32
        THEN x.bits % 32 = 0 /\ Offset(members, m) % 32 = 0
        ELSE x.bits \in {8, 16} /\ Offset(members, m) % x.bits = 0

\* The elements of a member list, in order: a byte string and a scalar are one, an
\* array is one for every entry.
Entries(x) == IF IsData(x) THEN 1 ELSE x.count
Element(members, m, k) ==
    LET bits == lenBits(members[m]) \div Entries(members[m])
    IN  [m |-> m, k |-> k, bits |-> bits, at |-> Offset(members, m) + k * bits]
ElementsOf(members) ==
    LET es[m \in 0..Len(members)] ==
            IF m = 0 THEN <<>>
            ELSE es[m - 1] \o [i \in 1..Entries(members[m]) |-> Element(members, m, i - 1)]
    IN  es[Len(members)]

\* Members are collected up to a multiple of 32 bits, where the last must end too; a
\* collection whose members are all aligned is taken apart again.
groupMB(members, m) ==
    LET ends == Ends(members)
    IN  {i \in DOMAIN members : \A j \in (i..(m - 1)) \cup (m..(i - 1)) : ends[j] % 32 # 0}
Apart(members, m) ==
    groupMB(members, m) = {m} \/ \A i \in groupMB(members, m) : isAligned(members, i)

\* A format: a store of its own ("object", "array": placed by the member's offset;
\* "bytes": placed by the running one) or a word of a struct call, and the bits by
\* which it moves the running offset.  For every entry of an array of objects that
\* is the length of the whole array.
Format(op, bits, words) == [op |-> op, bits |-> bits, words |-> words]
formatSinglePack(x) ==
    CASE isObject(x) -> Format("object", lenBits(x), <<>>)
      [] IsData(x) -> Format("bytes", lenBits(x), <<>>)
      [] ~isObject(x) /\ ~IsData(x) /\ (x.count = 1 \/ x.bits \in {16, 32}) ->
            Format("struct", x.bits, <<Word(x.bits, 1)>>)
      [] OTHER -> Format("array", lenBits(x), <<>>)

\* The format that starts with an element: the first of a group or of an array packed
\* by pack_array8 starts that of all, the others none.
structFormat(members, e) ==
    LET group == groupMB(members, e.m)
        last == CHOOSE i \in group : \A j \in group : j <= i
        bits == Offset(members, last + 1) - Offset(members, e.m)
    IN  IF Apart(members, e.m) THEN formatSinglePack(members[e.m])
        ELSE Format("struct", bits, <<Word(bits, Cardinality(group))>>)
StartsFormat(members, e) ==
    IF Apart(members, e.m) THEN formatSinglePack(members[e.m]).op = "array" => e.k = 0
    ELSE e.k = 0 /\ \A i \in groupMB(members, e.m) : e.m <= i

Direct(members, f, e, off) ==
    CASE f.op = "object" ->
            Sub1(e.m, e.k, (Offset(members, e.m) + e.k * members[e.m].bits) \div 8)
      [] f.op = "bytes" -> Bytes(e.m, off \div 8, (off + f.bits) \div 8)
      [] f.op = "array" ->
            Array(e.m, Offset(members, e.m) \div 8, members[e.m].bits, members[e.m].count)

\* Direct stores first, then the struct calls; a word joins the last call when it
\* starts where that one ends (fmtsOff).
AddWords(calls, words) == [calls EXCEPT ![Len(calls)].words = @ \o words]
AddFormat(members, acc, f, e) ==
    LET joins == acc.calls # <<>> /\ acc.fmtsOff = acc.off
    IN  IF f.op # "struct"
        THEN [acc EXCEPT !.direct = Append(@, Direct(members, f, e, acc.off)),
                         !.off = @ + f.bits]
        ELSE [acc EXCEPT !.calls =
                             IF joins THEN AddWords(@, f.words)
                             ELSE Append(@, Fmt(acc.off \div 8, e.m, f.words)),
                         !.off = @ + f.bits,
                         !.fmtsOff = acc.off + f.bits]
genFormats(members) ==
    LET es == ElementsOf(members)
        made[i \in 0..Len(es)] ==
            IF i = 0 THEN [direct |-> <<>>, calls |-> <<>>, off |-> 0, fmtsOff |-> 0]
            ELSE IF StartsFormat(members, es[i])
                 THEN AddFormat(members, made[i - 1], structFormat(members, es[i]), es[i])
                 ELSE made[i - 1]
    IN  made[Len(es)].direct \o made[Len(es)].calls
================================================================================
