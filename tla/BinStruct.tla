------------------------------- MODULE BinStruct -------------------------------
(* How an object of IBA_struct.py is packed into a MAD buffer and unpacked     *)
(* from it, one statement at a time.  Values are symbolic: a buffer is a set   *)
(* of pieces, each the bits of one element (a scalar, one entry of an array, a *)
(* byte string or an object), so what holds here holds for all values.  At     *)
(* most one element holds a value that does not fit: an integer with a bit too *)
(* many, or a byte string a byte too short or too long.                        *)
EXTENDS MkStructs

CONSTANT Structs    \* the classes: MAD_LENGTH, MEMBERS and statements of each

VARIABLES
    class,      \* the class of the object
    elements,   \* the elements of the object, in the order of MEMBERS
    odd,        \* the element whose value does not fit, or Nothing
    phase,      \* "pack", "unpack", "raised"
    todo,       \* the statements of pack_into or unpack_from still to run
    image,      \* the pieces in the buffer
    size,       \* len(buffer)
    spoilt,     \* the elements of which the buffer holds another value
    got         \* what unpack_from has assigned, as a set of <<element, element read>>

vars == <<class, elements, odd, phase, todo, image, size, spoilt, got>>

Members(c) == Structs[c].members

Nothing == [m |-> 0, k |-> 0, by |-> 0]
OddOnes ==
    {[m |-> e.m, k |-> e.k, by |-> by] :
        e \in {x \in ToSet(elements) : IsData(Members(class)[x.m])}, by \in {-1, 1}}
    \cup {[m |-> e.m, k |-> e.k, by |-> 1] :
        e \in {x \in ToSet(elements) : ~isObject(Members(class)[x.m])}}
IsOdd(e) == odd.m = e.m /\ odd.k = e.k

Piece(at, bits, e) == [at |-> at, bits |-> bits, of |-> <<e.m, e.k>>]
End(p) == p.at + p.bits

\* Writing over a buffer destroys what it overlaps.
Write(buf, pieces) ==
    {p \in buf : \A q \in pieces : End(p) <= q.at \/ p.at >= End(q)} \cup pieces

\* buf[from:to] = len bytes: the slice is cut to the buffer, the bytes behind it move.
Cut(n) == IF n > size THEN size ELSE n
Assign(buf, from, to, len, e) ==
    {p \in buf : End(p) <= 8 * Cut(from)}
        \cup {[p EXCEPT !.at = @ + 8 * (len - (Cut(to) - Cut(from)))] :
                p \in {q \in buf : q.at >= 8 * Cut(to)}}
        \cup {Piece(8 * Cut(from), 8 * len, e)}
Resized(from, to, len) == size + len - (Cut(to) - Cut(from))

\* The bytes an object writes: a GID or GUID is a string of its own length, a
\* structure fills the MAD_LENGTH of its class.
Length(c) == CASE c = "GID" -> 16 [] c = "GUID" -> 8 [] OTHER -> Structs[c].length

\* What mkstructs.py relies on, by its assertions or silently: the members fill
\* MAD_LENGTH, in whole groups; an object fills its member, and an array of them,
\* which spoils the running offset, is the last; the entries of an array fill their
\* words; and what shares a word is a scalar.
WellFormed(c) ==
    LET members == Members(c)
    IN  /\ Structs[c].length \in Nat
        /\ members \in Seq([bits : Nat \ {0}, count : Nat \ {0}, class : STRING])
        /\ Ends(members)[Len(members)] = 8 * Structs[c].length
        /\ Structs[c].length % 4 = 0
        /\ \A m \in DOMAIN members :
            LET x == members[m]
            IN  /\ isObject(x) => /\ Length(x.class) \in Nat
                                  /\ x.bits = 8 * Length(x.class)
                                  /\ x.count > 1 => m = Len(members)
                /\ x.count > 1 /\ ~isObject(x) => x.bits \in {1, 2, 4, 8, 16, 32, 64}
                /\ Apart(members, m) \/ (~isObject(x) /\ x.count = 1 /\ x.bits <= 64)
Generated(c) == WellFormed(c) /\ Structs[c].code = genFormats(Members(c))

--------------------------------------------------------------------------------
\* Where each statement puts the elements: the words it stores, each with the
\* elements in it, all but the last shifted left by the widths of those after it.

Widths(w) == Sums([i \in DOMAIN w.es |-> w.es[i].bits])
InWord(w) ==
    LET widths == Widths(w)
    IN  {Piece(w.at + w.bits - (widths[Len(w.es)] - widths[i - 1]),
               IF Len(w.es) = 1 THEN w.bits ELSE w.es[i].bits, w.es[i]) : i \in DOMAIN w.es}
Pieces(words) == UNION {InWord(w) : w \in ToSet(words)}

\* struct.pack_into(words, ...): the words take the members from s.m on in turn.
StructWords(es, s) ==
    LET first == CHOOSE i \in DOMAIN es : es[i].m = s.m /\ es[i].k = 0
        bits == Sums([i \in DOMAIN s.words |-> s.words[i].bits])
        members == Sums([i \in DOMAIN s.words |-> s.words[i].members])
    IN  [i \in DOMAIN s.words |->
            [at |-> 8 * s.at + bits[i - 1], bits |-> s.words[i].bits,
             es |-> SubSeq(es, first + members[i - 1], first + members[i] - 1)]]
StructEnd(s) == s.at + Total([i \in DOMAIN s.words |-> s.words[i].bits]) \div 8

\* pack_array8 shifts the entries into a value, which is stored and started afresh
\* whenever it is 64 or 32 bits wide; at the end nothing may be left in it.
Flushes(width) == width \in {32, 64}
pack_array8(s) ==
    LET shift[i \in 0..s.count] ==
            IF i = 0 THEN [es |-> <<>>, at |-> 8 * s.at, words |-> <<>>]
            ELSE LET acc == shift[i - 1]
                     es == Append(acc.es, [m |-> s.m, k |-> i - 1, bits |-> s.mlen])
                     width == s.mlen * Len(es)
                 IN  IF Flushes(width)
                     THEN [es |-> <<>>, at |-> acc.at + width,
                           words |-> Append(acc.words, [at |-> acc.at, bits |-> width, es |-> es])]
                     ELSE [acc EXCEPT !.es = es]
    IN  shift[s.count]

unpack_array8_Mutant(s) ==
    {Piece(8 * s.at + k * s.mlen, s.mlen, [m |-> s.m, k |-> s.count - 1 - k]) :
        k \in 0..(s.count - 1)}
\* unpack_array8: entry k is (val >> ((count - 1 - k) * mlen)), masked to mlen bits.
unpack_array8(s) ==
    {Piece(8 * s.at + s.mlen * s.count - (s.count - 1 - k) * s.mlen - s.mlen, s.mlen,
           [m |-> s.m, k |-> k]) : k \in 0..(s.count - 1)}

--------------------------------------------------------------------------------
\* What madtransactor.py takes from a MAD without unpacking it.

Formats == DOMAIN ATTR_TO_STRUCT
HeadersOf(c) ==
    CASE c = "SAFormat" -> {"MADHeader", "SAHeader"}
      [] c = "SMPFormatDirected" -> {"MADHeaderDirected"}
      [] OTHER -> {"MADHeader"}

\* The bits of the bytes from..to, taken for member m or the low bits of it.
Raw(from, to, m) == [from |-> 8 * from, end |-> 8 * (to + 1), m |-> m]
transactionID(c) == IF c = "SMPFormatDirected" THEN 9 ELSE 7

\* mgmtClass and the low half of the transaction ID.
_get_match_key_Mutant(c) == {Raw(1, 1, 2), Raw(13, 16, transactionID(c))}
_get_match_key(c) == {Raw(1, 1, 2), Raw(12, 15, transactionID(c))}

\* baseVersion, mgmtClass, classVersion, attributeID and, in the vendor range, OUI.
get_request_match_key(c) ==
    {Raw(0, 0, 1), Raw(1, 1, 2), Raw(2, 2, 3), Raw(16, 17, transactionID(c) + 1)}
        \cup {Raw(37, 39, 19) : x \in {c} \cap {"VendOUIFormat"}}

\* rbuf[26] & RMPP_ACTIVE of a format that has RMPPVersion: bit 0 of RMPPFlags.
RMPP_ACTIVE(c) ==
    {[from |-> 8 * 27 - 1, end |-> 8 * 27, m |-> 14] : x \in {c} \cap {"SAFormat", "VendOUIFormat"}}

--------------------------------------------------------------------------------
Init ==
    /\ class \in DOMAIN Structs
    /\ elements = ElementsOf(Members(class))
    /\ odd \in {Nothing} \cup OddOnes
    /\ phase = "pack"
    /\ todo = Structs[class].code
    /\ image = {}
    /\ size = Structs[class].length
    /\ spoilt = {}
    /\ got = {}

Statement == Head(todo)
Runs(p, op) == phase = p /\ todo # <<>> /\ Statement.op = op

\* The statement ends, or raises and ends the whole call.
Step(fails) ==
    /\ todo' = IF fails THEN <<>> ELSE Tail(todo)
    /\ phase' = IF fails THEN "raised" ELSE phase
    /\ UNCHANGED <<class, elements, odd>>

\* What a value that is too wide changes in its word: with every member masked, its
\* own bits; without, those of the element before it too.
Spilt(w) == {w.es[i] : i \in {j \in DOMAIN w.es :
                IsOdd(w.es[j]) \/ (j < Len(w.es) /\ IsOdd(w.es[j + 1]))}}
Masked_Mutant(w) == Spilt(w)
Masked(w) == {e \in ToSet(w.es) : IsOdd(e)}

Spoils(es) == spoilt' = spoilt \cup {<<e.m, e.k>> : e \in es}

\* A slice takes whatever it is given.
PackSlice(from, to, len, e) ==
    /\ image' = Assign(image, from, to, len, e)
    /\ size' = Resized(from, to, len)
    /\ UNCHANGED got
    /\ Step(FALSE)

\* Words are stored in place, in a buffer that must be long enough.
PackWords(pieces, end, fails) ==
    /\ image' = IF fails \/ end > size THEN image ELSE Write(image, pieces)
    /\ UNCHANGED <<size, got>>
    /\ Step(fails \/ end > size)

\* GID and GUID assign a slice; a nested structure packs itself in place.
PackObject ==
    /\ Runs("pack", "object")
    /\ LET c == Members(class)[Statement.m].class
           at == Statement.at
       IN  IF c \in {"GID", "GUID"}
           THEN PackSlice(at, at + Length(c), Length(c), Statement)
           ELSE PackWords({Piece(8 * at, 8 * Length(c), Statement)}, at + Length(c), FALSE)
    /\ UNCHANGED spoilt

PackBytes ==
    /\ Runs("pack", "bytes")
    /\ LET e == [m |-> Statement.m, k |-> 0]
           len == lenBits(Members(class)[e.m]) \div 8
       IN  /\ PackSlice(Statement.at, Statement.to, len + IF IsOdd(e) THEN odd.by ELSE 0, e)
           /\ Spoils({x \in {e} : IsOdd(x)})

\* The entries of an array are not masked: one that is too wide spills into the
\* entry before it or, as the first of its word, is refused by struct.
PackArray ==
    /\ Runs("pack", "array")
    /\ LET a == pack_array8(Statement)
       IN  /\ PackWords(Pieces(a.words), a.at \div 8,
                        a.es # <<>> \/ \E w \in ToSet(a.words) : IsOdd(w.es[1]))
           /\ Spoils(UNION {Spilt(w) : w \in ToSet(a.words)})

\* struct.pack_into refuses a value too wide for its word; the members that share
\* a word are masked to their widths.
PackStruct ==
    /\ Runs("pack", "struct")
    /\ LET words == StructWords(elements, Statement)
       IN  /\ PackWords(Pieces(words), StructEnd(Statement),
                        \E w \in ToSet(words) : Len(w.es) = 1 /\ IsOdd(w.es[1]))
           /\ Spoils(UNION {Masked(w) : w \in ToSet(words)})

\* unpack_from on the buffer just packed.
StartUnpack ==
    /\ phase = "pack" /\ todo = <<>>
    /\ phase' = "unpack"
    /\ todo' = Structs[class].code
    /\ UNCHANGED <<class, elements, odd, image, size, spoilt, got>>

\* Reading the bits of a piece gives the element that was packed there, and some
\* mixture, Nothing, where the pieces in the buffer lie otherwise.
Read(p) ==
    IF \E q \in image : q.at = p.at /\ q.bits = p.bits
    THEN (CHOOSE q \in image : q.at = p.at /\ q.bits = p.bits).of
    ELSE <<0, 0>>
Assigns(pieces) == got' = got \cup {<<p.of, Read(p)>> : p \in pieces}

\* The bits a statement reads.
PiecesOf(s) ==
    CASE s.op = "object" -> {Piece(8 * s.at, 8 * Length(Members(class)[s.m].class), s)}
      [] s.op = "bytes" -> {Piece(8 * s.at, 8 * (s.to - s.at), [m |-> s.m, k |-> 0])}
      [] s.op = "array" -> unpack_array8(s)
      [] s.op = "struct" -> Pieces(StructWords(elements, s))

UnpackStatement ==
    /\ phase = "unpack" /\ todo # <<>>
    /\ LET short == Statement.op = "struct" /\ StructEnd(Statement) > size
       IN  /\ Step(short)
           /\ Assigns(IF short THEN {} ELSE PiecesOf(Statement))
    /\ UNCHANGED <<image, size, spoilt>>

Next == PackObject \/ PackBytes \/ PackArray \/ PackStruct \/ StartUnpack \/ UnpackStatement

Spec == Init /\ [][Next]_vars

--------------------------------------------------------------------------------
Packed == phase = "unpack" /\ todo = Structs[class].code
Unpacked == phase = "unpack" /\ todo = <<>>

\* Every piece lies inside the buffer and belongs to an element of the class, which
\* has one, and unpack_from assigns no element two values.
TypeOK ==
    /\ class \in DOMAIN Structs /\ odd \in {Nothing} \cup OddOnes
    /\ phase \in {"pack", "unpack", "raised"}
    /\ \A p \in image : p.at >= 0 /\ End(p) <= 8 * size
    /\ Cardinality({p.of : p \in image}) = Cardinality(image)
    /\ {p.of : p \in image} \subseteq {<<e.m, e.k>> : e \in ToSet(elements)}
    /\ Cardinality({g[1] : g \in got}) = Cardinality(got)

\* The image is the one MEMBERS describes: element after element, without a gap,
\* filling MAD_LENGTH.  A byte string of the wrong length is the only thing that
\* changes the length of the buffer, and even then every other element is where
\* it belongs.  Values that fit are never refused (binstruct.py and every pack_into of IBA_struct.py).
InTheirPlaces ==
    /\ Packed =>
        /\ \A e \in ToSet(elements) : IsOdd(e) \/ Piece(e.at, e.bits, e) \in image
        /\ Total([i \in DOMAIN elements |-> elements[i].bits]) = 8 * Structs[class].length
        /\ size # Structs[class].length => odd # Nothing /\ IsData(Members(class)[odd.m])
    /\ phase = "raised" => odd # Nothing

\* unpack_from gives every element back the value pack_into took from it, and
\* leaves none unassigned: "re-packs the structure and stores it" (__reduce__).
RoundTrips ==
    Unpacked => \A e \in ToSet(elements) :
                    <<e.m, e.k>> \in spoilt \/ <<<<e.m, e.k>>, <<e.m, e.k>>>> \in got

\* A value that does not fit is refused, or spoils at most its own member.
SpoilsOnlyItsMember == \A x \in spoilt : x[1] = odd.m /\ x[2] >= 0

\* The statements of IBA_struct.py are those mkstructs.py makes from the members,
\* and the members are such as it can be trusted with.
AsGenerated ==
    phase = "pack" /\ odd = Nothing /\ todo = Structs[class].code => Generated(class)

\* A MAD starts with the same header whichever class packs it.  _completeMAD
\* unpacks an RMPP reply to an SAFormat request as SAHeader, and simple_tracer
\* unpacks a MAD as MADHeader; the formats hold the members of their headers, not
\* a header (make_inherit, mkstructs.py:184-206).  An RMPP reply to a VendOUIFormat
\* request is unpacked as SAHeader too, which it does not start with: it has OUI
\* and data where SMKey is ("FIXME, should be class specific",
\* madtransactor.py:191), so HeadersOf leaves SAHeader out for it.
HeadersAgree ==
    Packed /\ odd = Nothing /\ class \in Formats =>
        \A h \in HeadersOf(class) : \A e \in ToSet(ElementsOf(Members(h))) :
            Piece(e.at, e.bits, e) \in image

\* What is taken from a packed MAD by byte number is what it is meant to be.  The
\* key of a request (get_request_match_key) consists of whole members; the key of
\* a transaction (_get_match_key) of mgmtClass and the low bits of transactionID,
\* so two packed MADs have the same key only if they have the same class and low
\* transaction ID bits; and what _completeMAD takes for RMPP_ACTIVE is bit 0 of
\* RMPPFlags (madtransactor.py:186-192).
KeysAreMembers ==
    LET OfMember(p, b) == p.of = <<b.m, 0>> /\ End(p) = b.end
    IN  Packed /\ odd = Nothing /\ class \in Formats =>
            /\ \A b \in get_request_match_key(class) :
                    \E p \in image : OfMember(p, b) /\ p.at = b.from
            /\ \A b \in _get_match_key(class) \cup RMPP_ACTIVE(class) :
                    \E p \in image : OfMember(p, b) /\ p.at <= b.from

\* Whatever attribute a format can carry fits into its data member, so that
\* payload.pack_into(fmt.data) neither raises nor makes the MAD longer.
PayloadFits ==
    Packed /\ class \in Formats =>
        \A a \in ATTR_TO_STRUCT[class] :
            8 * Structs[a].length <= lenBits(Members(class)[DataMember[class]])
================================================================================
