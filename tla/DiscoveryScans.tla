--------------------------- MODULE DiscoveryScans ---------------------------
(***************************************************************************)
(* What a load leaves behind, in whatever order replies arrive: a topology *)
(* scan reads each port once, links the ports that a cable joins and no    *)
(* others, and stops only when nothing that can be reached is left; the    *)
(* tables of an SA and the questions after a scan are in the database once *)
(* they are noted as loaded.                                               *)
(***************************************************************************)
EXTENDS DiscoveryProofs

-----------------------------------------------------------------------------
(* Each port is read once: who is to read it next.                         *)

(* The ports of an item, and those a do_todo still has to go through.      *)
ItemPlaces(x) == {x.node[1]} \X (IF x.idx = None THEN 0..NumPorts[x.node[1]] ELSE {x.idx})
InBucket(b, d, k, w) == d \in Depth /\ k \in DOMAIN b[d].ports /\ w \in ItemPlaces(b[d].ports[k])
InTurn(x, c, k, w) ==
  c \in Ctx /\ x[c].pc = "iter" /\ k \in DOMAIN x[c].rem /\ w = <<x[c].node[1], x[c].rem[k]>>
Due(b, x, w) == (\E d, k : InBucket(b, d, k, w)) \/ (\E c, k : InTurn(x, c, k, w))
DueOnce(b, x) ==
  /\ \A w, d, e, k, l : InBucket(b, d, k, w) /\ InBucket(b, e, l, w) => d = e /\ k = l
  /\ \A w, c, e, k, l : InTurn(x, c, k, w) /\ InTurn(x, e, l, w) => c = e /\ k = l
  /\ \A w, d, k, c, l : ~(InBucket(b, d, k, w) /\ InTurn(x, c, l, w))

(* A port is due only after its switch was found, or its cable.            *)
Opened(db, sw, w) ==
  IF IsSwitch(w[1]) THEN <<w[1], 1>> \in sw
  ELSE (w = Local /\ TopoItems \subseteq db.loaded) \/ (w \in DOMAIN Link /\ db.topology[Place1(Link[w])] # None)
DueUnread(db, b, x, sw, rd) == \A w : Due(b, x, w) => w \in Place /\ rd[w] = 0 /\ Opened(db, sw, w)

(* The ports asked.                                                        *)
AskPlace(db, j) == <<Parent(db.path[j.path].ep)[1], j.idx>>
AskedOnce(db, s) ==
  /\ \A j, k \in s : j.what = "port" /\ k.what = "port" /\ AskPlace(db, j) = AskPlace(db, k) => j = k
AskedRead(db, s, rd) == \A j \in s : j.what = "port" => AskPlace(db, j) \in Place /\ rd[AskPlace(db, j)] = 1
ReadOpened(db, sw, rd) ==
  /\ rd \in [Place -> {0, 1}]
  /\ \A w \in Place : rd[w] = 1 => Opened(db, sw, w)

(* A port behind which the scan goes on: it was read, and is not one of a  *)
(* CA other than Local, nor leads to Local.                                *)
Exit(db, s, rd, p) ==
  /\ PlaceOf(p) \in DOMAIN Link /\ rd[PlaceOf(p)] = 1
  /\ db.topology[p] = None \/ IsSwitch(Link[PlaceOf(p)][1])
  /\ PlaceOf(p) = Local \/ IsSwitch(p[1][1])
  /\ Link[PlaceOf(p)] # Local \/ IsSwitch(Local[1])
  /\ \A j \in s : j.what = "port" => AskPlace(db, j) # PlaceOf(p)
InNodes(b, d, k, p) == d \in Depth /\ k \in DOMAIN b[d].nodes /\ p = b[d].nodes[k].aport
ExitsOnce(b) == \A p, d, e, k, l : InNodes(b, d, k, p) /\ InNodes(b, e, l, p) => d = e /\ k = l
ExitsAhead(db, b, s, rd) ==
  \A p, d, k : InNodes(b, d, k, p) =>
    Exit(db, s, rd, p) /\ \A j \in s : j.what = "node" => j.path # p
Crosses(db, s, rd, j) ==
  Exit(db, s, rd, j.path) /\ ~Reached(db, j.path) /\ LeadsTo(db.path[j.path]) = Link[PlaceOf(j.path)]
Crossing(db, s, rd) ==
  /\ \A j \in s : j.what = "node" /\ j.by # None => Crosses(db, s, rd, j)
  /\ \A j, k \in s : j.what = "node" /\ k.what = "node" /\ j.path = k.path => j = k

(* The start of the scan.                                                  *)
First(db, s, sw) ==
  /\ \A j \in s : j.what = "node" /\ j.by = None =>
       ~(TopoItems \subseteq db.loaded) /\ LeadsTo(db.path[j.path]) = Local
  /\ ~(TopoItems \subseteq db.loaded) => sw = {} /\ \A p \in PortObj : db.topology[p] = None
LocalFirst(db, b, x, s) ==
  (~IsSwitch(Local[1]) /\ db.topology[Place1(Local)] = None) =>
    /\ \A w : Due(b, x, w) => w = Local
    /\ \A j \in s : j.what = "port" => AskPlace(db, j) = Local
    /\ \A p, d, k : InNodes(b, d, k, p) => p = Place1(Local)
    /\ \A j \in s : j.what = "node" /\ j.by # None => j.path = Place1(Local)

(* The path over a port reaches what the port's cable leads to.            *)
Ways(db) ==
  /\ \A h \in PortObj : Reached(db, h) =>
       PlaceOf(h) \in DOMAIN Link /\ db.path[h].ep = Place1(ToEndPlace(Link[PlaceOf(h)]))
  /\ Held(db, Start) /\ db.path[Start].hops = <<>>

PortsOnce(db, b, x, s, sw, rd) ==
  /\ DueOnce(b, x) /\ DueUnread(db, b, x, sw, rd)
  /\ AskedOnce(db, s) /\ AskedRead(db, s, rd) /\ ReadOpened(db, sw, rd)
ExitsRight(db, b, x, s, sw, rd) ==
  /\ ExitsOnce(b) /\ ExitsAhead(db, b, s, rd) /\ Crossing(db, s, rd)
  /\ First(db, s, sw) /\ LocalFirst(db, b, x, s)
Once(db, b, x, s, sw, rd) == PortsOnce(db, b, x, s, sw, rd) /\ ExitsRight(db, b, x, s, sw, rd) /\ Ways(db)
OnceInv == TopoTrue(sbn, {}) /\ (Scanning => Once(sbn, todo, ctx, jobs, switches, reads))

(* What is asked stays.                                                    *)
LEMMA AskPlaceStays ==
  ASSUME NEW db, NEW r, Grown(db, r), NEW j, JobRight(db, j), j.what = "port"
  PROVE  AskPlace(r, j) = AskPlace(db, j)
<1>1. Reached(db, j.path)
  BY DEF JobRight, PortJob
<1> QED
  BY <1>1 DEF Grown, AskPlace

(* The database changes in what the scan does not go by.                   *)
Steadily(db, r, s) ==
  /\ Grown(db, r) /\ r.loaded = db.loaded /\ r.topology = db.topology
  /\ \A g : Reached(r, g) => Reached(db, g)
  /\ \A j \in s : j.what = "node" => LeadsTo(r.path[j.path]) = LeadsTo(db.path[j.path])
  /\ r.path[Start].hops = <<>>

LEMMA Steady ==
  ASSUME NEW db, NEW b, NEW x, NEW s, NEW sw, NEW rd, Once(db, b, x, s, sw, rd), JobsRight(db, s),
         NEW r, Steadily(db, r, s)
  PROVE  Once(r, b, x, s, sw, rd)
<1>1. \A j \in s : j.what = "port" => AskPlace(r, j) = AskPlace(db, j)
  BY AskPlaceStays DEF JobsRight, Steadily
<1>2. \A w : Opened(r, sw, w) <=> Opened(db, sw, w)
  BY DEF Opened, Steadily
<1>3. PortsOnce(r, b, x, s, sw, rd)
  BY <1>1, <1>2 DEF Once, PortsOnce, DueUnread, AskedOnce, AskedRead, ReadOpened
<1>4. \A p : Exit(db, s, rd, p) => Exit(r, s, rd, p)
  BY <1>1 DEF Exit, Steadily
<1>5. ExitsRight(r, b, x, s, sw, rd)
  <2>1. ExitsOnce(b) /\ ExitsAhead(r, b, s, rd)
    BY <1>4 DEF Once, ExitsRight, ExitsAhead
  <2>2. Crossing(r, s, rd)
    BY <1>4 DEF Once, ExitsRight, Crossing, Crosses, Steadily
  <2>3. First(r, s, sw)
    BY DEF Once, ExitsRight, First, Steadily
  <2>4. LocalFirst(r, b, x, s)
    BY <1>1 DEF Once, ExitsRight, LocalFirst, Steadily
  <2> QED
    BY <2>1, <2>2, <2>3, <2>4 DEF ExitsRight
<1>6. Ways(r)
  BY DEF Once, Ways, Steadily, Grown
<1> QED
  BY <1>3, <1>5, <1>6 DEF Once

(* A sequence without its last element.                                    *)
LEMMA FrontElements ==
  ASSUME NEW S, NEW s \in Seq(S), s # <<>>
  PROVE  /\ Len(s) \in DOMAIN s /\ Last(s) = s[Len(s)] /\ Len(s) \notin DOMAIN Front(s)
         /\ \A k \in DOMAIN Front(s) : k \in DOMAIN s /\ Front(s)[k] = s[k]
<1>1. Len(s) \in Nat /\ Len(s) # 0 /\ DOMAIN s = 1..Len(s)
  OBVIOUS
<1>2. Front(s) = [i \in 1..(Len(s) - 1) |-> s[i]]
  BY <1>1 DEF Front
<1> QED
  BY <1>1, <1>2 DEF Last

(* A sequence without its first element.                                   *)
LEMMA TailElements ==
  ASSUME NEW S, NEW s \in Seq(S), s # <<>>
  PROVE  /\ 1 \in DOMAIN s /\ Head(s) = s[1]
         /\ \A k \in DOMAIN Tail(s) : k \in Nat /\ k + 1 \in DOMAIN s /\ k + 1 # 1 /\ Tail(s)[k] = s[k + 1]
<1>1. Len(s) \in Nat /\ Len(s) # 0 /\ DOMAIN s = 1..Len(s)
  OBVIOUS
<1>2. DOMAIN Tail(s) = 1..(Len(s) - 1) /\ Head(s) = s[1]
  <2>1. Tail(s) \in Seq(S) /\ Len(Tail(s)) = Len(s) - 1
    BY <1>1
  <2> QED
    BY <2>1
<1>3. \A i \in 1..(Len(s) - 1) : Tail(s)[i] = s[i + 1]
  BY <1>1
<1> QED
  BY <1>1, <1>2, <1>3

(* A sequence with an element more.                                        *)
LEMMA AppendElements ==
  ASSUME NEW S, NEW s \in Seq(S), NEW y \in S, NEW r, r = s \o <<y>>
  PROVE  /\ \A k \in DOMAIN r : (k \in DOMAIN s /\ r[k] = s[k]) \/ (k = Len(s) + 1 /\ r[k] = y)
         /\ Len(s) + 1 \notin DOMAIN s
<1>1. Len(s) \in Nat /\ DOMAIN s = 1..Len(s)
  OBVIOUS
<1>2. DOMAIN r = 1..(Len(s) + 1) /\ \A k \in DOMAIN r : r[k] = IF k \in 1..Len(s) THEN s[k] ELSE y
  <2>1. <<y>> \in Seq(S) /\ Len(<<y>>) = 1 /\ <<y>>[1] = y
    OBVIOUS
  <2>2. r \in Seq(S) /\ Len(r) = Len(s) + 1
    BY <2>1
  <2>3. \A k \in 1..(Len(s) + 1) : r[k] = IF k \in 1..Len(s) THEN s[k] ELSE y
    BY <1>1, <2>1
  <2> QED
    BY <2>2, <2>3
<1>3. ASSUME NEW k \in DOMAIN r PROVE (k \in DOMAIN s /\ r[k] = s[k]) \/ (k = Len(s) + 1 /\ r[k] = y)
  <2>1. k \in 1..Len(s) \/ k = Len(s) + 1
    BY <1>1, <1>2, <1>3
  <2> QED
    BY <1>1, <1>2, <1>3, <2>1
<1> QED
  BY <1>1, <1>3

(* A sequence with nothing more.                                           *)
LEMMA ConcatNothing == ASSUME NEW S, NEW s \in Seq(S) PROVE s \o <<>> = s
<1>1. Len(s) \in Nat /\ DOMAIN s = 1..Len(s)
  OBVIOUS
<1> QED
  BY <1>1

-----------------------------------------------------------------------------
(* Less is due.                                                            *)
Fewer(b, x, s, b2, x2, s2) ==
  /\ \A d, k, w : InBucket(b2, d, k, w) => InBucket(b, d, k, w)
  /\ \A c, k, w : InTurn(x2, c, k, w) => InTurn(x, c, k, w)
  /\ \A d, k, p : InNodes(b2, d, k, p) => InNodes(b, d, k, p)
  /\ s2 \subseteq s

LEMMA FewerOnce ==
  ASSUME NEW db, NEW b, NEW x, NEW s, NEW sw, NEW rd, Once(db, b, x, s, sw, rd),
         NEW b2, NEW x2, NEW s2, Fewer(b, x, s, b2, x2, s2)
  PROVE  Once(db, b2, x2, s2, sw, rd)
<1>1. \A w : Due(b2, x2, w) => Due(b, x, w)
  BY DEF Fewer, Due
<1>2. DueOnce(b2, x2)
  <2>1. DueOnce(b, x)
    BY DEF Once, PortsOnce
  <2> QED
    BY <2>1 DEF Fewer, DueOnce
<1>3. PortsOnce(db, b2, x2, s2, sw, rd)
  BY <1>1, <1>2 DEF Once, PortsOnce, DueUnread, AskedOnce, AskedRead, Fewer
<1>4. \A p : Exit(db, s, rd, p) => Exit(db, s2, rd, p)
  BY DEF Exit, Fewer
<1>5. ExitsRight(db, b2, x2, s2, sw, rd)
  <2>1. ExitsOnce(b2)
    BY DEF Once, ExitsRight, ExitsOnce, Fewer
  <2>2. ExitsAhead(db, b2, s2, rd)
    BY <1>4 DEF Once, ExitsRight, ExitsAhead, Fewer
  <2>3. Crossing(db, s2, rd)
    BY <1>4 DEF Once, ExitsRight, Crossing, Crosses, Fewer
  <2>4. First(db, s2, sw)
    BY DEF Once, ExitsRight, First, Fewer
  <2>5. LocalFirst(db, b2, x2, s2)
    BY <1>1 DEF Once, ExitsRight, LocalFirst, Fewer
  <2> QED
    BY <2>1, <2>2, <2>3, <2>4, <2>5 DEF ExitsRight
<1> QED
  BY <1>3, <1>5 DEF Once

(* A do_todo takes up the ports of an item.                                *)
TakesUp(b, x, d, K, c, b2, x2) ==
  /\ \A e, k, w : InBucket(b2, e, k, w) => InBucket(b, e, k, w) /\ ~(e = d /\ k = K)
  /\ \A e, k, w : e # c /\ InTurn(x2, e, k, w) => InTurn(x, e, k, w)
  /\ \A k, w : InTurn(x2, c, k, w) => InBucket(b, d, K, w)
  /\ \A k, l, w : InTurn(x2, c, k, w) /\ InTurn(x2, c, l, w) => k = l
  /\ \A e, k, p : InNodes(b2, e, k, p) => InNodes(b, e, k, p)

LEMMA TakesUpOnce ==
  ASSUME NEW db, NEW b, NEW x, NEW s, NEW sw, NEW rd, Once(db, b, x, s, sw, rd),
         NEW d, NEW K, NEW c, NEW b2, NEW x2, TakesUp(b, x, d, K, c, b2, x2)
  PROVE  Once(db, b2, x2, s, sw, rd)
<1>1. \A w : Due(b2, x2, w) => Due(b, x, w)
  BY DEF TakesUp, Due
<1>2. DueOnce(b2, x2)
  <2>1. DueOnce(b, x)
    BY DEF Once, PortsOnce
  <2>2. \A w, e, f, k, l : InBucket(b2, e, k, w) /\ InBucket(b2, f, l, w) => e = f /\ k = l
    BY <2>1 DEF TakesUp, DueOnce
  <2>3. \A w, e, f, k, l : InTurn(x2, e, k, w) /\ InTurn(x2, f, l, w) => e = f /\ k = l
    BY <2>1 DEF TakesUp, DueOnce
  <2>4. \A w, e, k, f, l : ~(InBucket(b2, e, k, w) /\ InTurn(x2, f, l, w))
    BY <2>1 DEF TakesUp, DueOnce
  <2> QED
    BY <2>2, <2>3, <2>4 DEF DueOnce
<1>3. PortsOnce(db, b2, x2, s, sw, rd)
  BY <1>1, <1>2 DEF Once, PortsOnce, DueUnread
<1>4. ExitsRight(db, b2, x2, s, sw, rd)
  <2>1. ExitsOnce(b2)
    BY DEF Once, ExitsRight, ExitsOnce, TakesUp
  <2>2. ExitsAhead(db, b2, s, rd)
    BY DEF Once, ExitsRight, ExitsAhead, TakesUp
  <2>3. LocalFirst(db, b2, x2, s)
    BY <1>1 DEF Once, ExitsRight, LocalFirst, TakesUp
  <2> QED
    BY <2>1, <2>2, <2>3 DEF Once, ExitsRight
<1> QED
  BY <1>3, <1>4 DEF Once

(* A do_todo goes on to its next port, and may ask it.                     *)
GoesPast(x, c, w0, x2) ==
  /\ InTurn(x, c, 1, w0)
  /\ \A e, k, w : e # c /\ InTurn(x2, e, k, w) => InTurn(x, e, k, w)
  /\ \A k, w : InTurn(x2, c, k, w) => k \in Nat /\ k + 1 # 1 /\ InTurn(x, c, k + 1, w)

LEMMA GoesPastDue ==
  ASSUME NEW b, NEW x, DueOnce(b, x), NEW c, NEW w0, NEW x2, GoesPast(x, c, w0, x2)
  PROVE  DueOnce(b, x2) /\ Due(b, x, w0) /\ \A w : Due(b, x2, w) => Due(b, x, w) /\ w # w0
<1>1. \A w, e, f, k, l : InTurn(x2, e, k, w) /\ InTurn(x2, f, l, w) => e = f /\ k = l
  <2> SUFFICES ASSUME NEW w, NEW e, NEW f, NEW k, NEW l, InTurn(x2, e, k, w), InTurn(x2, f, l, w)
               PROVE  e = f /\ k = l
    OBVIOUS
  <2>1. \E i : InTurn(x, e, i, w) /\ ((i = k /\ e # c) \/ (k \in Nat /\ i = k + 1 /\ e = c))
    <3>1. e # c => InTurn(x, e, k, w)
      BY DEF GoesPast
    <3>2. e = c => k \in Nat /\ InTurn(x, e, k + 1, w)
      BY DEF GoesPast
    <3>3. CASE e # c
      BY <3>1, <3>3
    <3>4. CASE e = c
      <4> PICK i : i = k + 1
        OBVIOUS
      <4> QED
        BY <3>2, <3>4
    <3> QED
      BY <3>3, <3>4
  <2>2. \E i : InTurn(x, f, i, w) /\ ((i = l /\ f # c) \/ (l \in Nat /\ i = l + 1 /\ f = c))
    <3>1. f # c => InTurn(x, f, l, w)
      BY DEF GoesPast
    <3>2. f = c => l \in Nat /\ InTurn(x, f, l + 1, w)
      BY DEF GoesPast
    <3>3. CASE f # c
      BY <3>1, <3>3
    <3>4. CASE f = c
      <4> PICK i : i = l + 1
        OBVIOUS
      <4> QED
        BY <3>2, <3>4
    <3> QED
      BY <3>3, <3>4
  <2>3. e = f
    BY <2>1, <2>2 DEF DueOnce
  <2>4. CASE e # c
    BY <2>1, <2>2, <2>3, <2>4 DEF DueOnce
  <2>5. CASE e = c
    <3>1. k \in Nat /\ l \in Nat /\ k + 1 = l + 1
      BY <2>1, <2>2, <2>3, <2>5 DEF DueOnce
    <3> QED
      BY <2>3, <3>1
  <2> QED
    BY <2>4, <2>5
<1>2. \A w, e, k : InTurn(x2, e, k, w) => w # w0 /\ \E i : InTurn(x, e, i, w)
  <2> SUFFICES ASSUME NEW w, NEW e, NEW k, InTurn(x2, e, k, w) PROVE w # w0 /\ \E i : InTurn(x, e, i, w)
    OBVIOUS
  <2>1. \E i : InTurn(x, e, i, w) /\ (e # c \/ i # 1)
    <3>1. e # c => InTurn(x, e, k, w)
      BY DEF GoesPast
    <3>2. e = c => k + 1 # 1 /\ InTurn(x, e, k + 1, w)
      BY DEF GoesPast
    <3>3. CASE e # c
      BY <3>1, <3>3
    <3>4. CASE e = c
      <4> PICK i : i = k + 1
        OBVIOUS
      <4> QED
        BY <3>2, <3>4
    <3> QED
      BY <3>3, <3>4
  <2> QED
    BY <2>1 DEF GoesPast, DueOnce
<1>3. \A w, d, k, f, l : ~(InBucket(b, d, k, w) /\ InTurn(x2, f, l, w))
  BY <1>2 DEF DueOnce
<1>4. \A d, k, w : InBucket(b, d, k, w) => w # w0
  BY DEF DueOnce, GoesPast
<1>5. DueOnce(b, x2)
  BY <1>1, <1>3 DEF DueOnce
<1> QED
  BY <1>2, <1>4, <1>5 DEF Due, GoesPast

(* A generator passes over a port.                                         *)
LEMMA SkipOnce ==
  ASSUME NEW db, NEW b, NEW x, NEW s, NEW sw, NEW rd, Once(db, b, x, s, sw, rd),
         NEW c, NEW w0, NEW x2, GoesPast(x, c, w0, x2)
  PROVE  Once(db, b, x2, s, sw, rd)
<1>1. DueOnce(b, x2) /\ \A w : Due(b, x2, w) => Due(b, x, w)
  BY GoesPastDue DEF Once, PortsOnce
<1>2. PortsOnce(db, b, x2, s, sw, rd)
  BY <1>1 DEF Once, PortsOnce, DueUnread
<1>3. LocalFirst(db, b, x2, s)
  BY <1>1 DEF Once, ExitsRight, LocalFirst
<1> QED
  BY <1>2, <1>3 DEF Once, ExitsRight

(* A generator asks for the port that was due in it.                       *)
LEMMA AskOnce ==
  ASSUME NEW db, NEW b, NEW x, NEW s, NEW sw, NEW rd, Once(db, b, x, s, sw, rd),
         NEW c, NEW w0, NEW x2, GoesPast(x, c, w0, x2),
         NEW new, new.what = "port", AskPlace(db, new) = w0,
         NEW rd2, rd2 = [rd EXCEPT ![w0] = @ + 1]
  PROVE  Once(db, b, x2, s \cup {new}, sw, rd2)
<1> PICK s2 : s2 = s \cup {new}
  OBVIOUS
<1>0. "port" # "node"
  OBVIOUS
<1>1. DueOnce(b, x2) /\ Due(b, x, w0) /\ \A w : Due(b, x2, w) => Due(b, x, w) /\ w # w0
  BY GoesPastDue DEF Once, PortsOnce
<1>2. w0 \in Place /\ rd[w0] = 0 /\ Opened(db, sw, w0)
  BY <1>1 DEF Once, PortsOnce, DueUnread
<1>3. rd \in [Place -> {0, 1}]
  BY DEF Once, PortsOnce, ReadOpened
<1>4. rd2 \in [Place -> {0, 1}] /\ rd2[w0] = 1 /\ \A w \in Place : w # w0 => rd2[w] = rd[w]
  BY <1>2, <1>3
<1>5. DueUnread(db, b, x2, sw, rd2)
  BY <1>1, <1>4 DEF Once, PortsOnce, DueUnread
<1>6. \A j \in s : j.what = "port" => AskPlace(db, j) # w0
  BY <1>2 DEF Once, PortsOnce, AskedRead
<1>7. AskedOnce(db, s2)
  BY <1>6 DEF Once, PortsOnce, AskedOnce
<1>8. AskedRead(db, s2, rd2)
  BY <1>2, <1>4, <1>6 DEF Once, PortsOnce, AskedRead
<1>9. ReadOpened(db, sw, rd2)
  BY <1>2, <1>4 DEF Once, PortsOnce, ReadOpened
<1>10. \A p : Exit(db, s, rd, p) => Exit(db, s2, rd2, p)
  <2> SUFFICES ASSUME NEW p, Exit(db, s, rd, p) PROVE Exit(db, s2, rd2, p)
    OBVIOUS
  <2>1. PlaceOf(p) \in Place /\ rd[PlaceOf(p)] = 1
    BY FabricAssumption DEF FabricAssumption, Exit
  <2>2. PlaceOf(p) # w0
    BY <1>2, <2>1
  <2> QED
    BY <1>4, <2>1, <2>2 DEF Exit
<1>11. ExitsAhead(db, b, s2, rd2)
  BY <1>0, <1>10 DEF Once, ExitsRight, ExitsAhead
<1>12. Crossing(db, s2, rd2)
  BY <1>0, <1>10 DEF Once, ExitsRight, Crossing, Crosses
<1>13. First(db, s2, sw)
  BY <1>0 DEF Once, ExitsRight, First
<1>14. LocalFirst(db, b, x2, s2)
  BY <1>0, <1>1 DEF Once, ExitsRight, LocalFirst
<1> QED
  BY <1>1, <1>5, <1>7, <1>8, <1>9, <1>11, <1>12, <1>13, <1>14 DEF Once, PortsOnce, ExitsRight

(* OnceInv in a scan, of the next state.                                   *)
LEMMA OnceStep ==
  ASSUME TopoTrue(sbn', {}), Once(sbn', todo', ctx', jobs', switches', reads')
  PROVE  OnceInv'
BY DEF OnceInv

(* OnceInv in a scan.                                                      *)
LEMMA OnceNow ==
  ASSUME OnceInv, Scanning
  PROVE  TopoTrue(sbn, {}) /\ Once(sbn, todo, ctx, jobs, switches, reads)
BY DEF OnceInv

(* OnceInv of the next state when only the work has moved.                 *)
LEMMA OnceSame ==
  ASSUME TopoTrue(sbn, {}), NEW b, NEW x, NEW s, Once(sbn, b, x, s, switches, reads),
         b = todo', x = ctx', s = jobs', UNCHANGED <<sbn, switches, reads>>
  PROVE  OnceInv'
<1> PICK db : db = sbn
  OBVIOUS
<1>1. TopoTrue(db, {}) /\ Once(db, todo', ctx', jobs', switches, reads)
  OBVIOUS
<1>2. TopoTrue(sbn', {}) /\ Once(sbn', todo', ctx', jobs', switches', reads')
  BY <1>1
<1> QED
  BY <1>2, OnceStep

(* The buckets hold what they held, and the generators too.                *)
LEMMA SameBuckets ==
  ASSUME NEW b, NEW b2, \A d \in Depth : b2[d].nodes = b[d].nodes /\ b2[d].ports = b[d].ports
  PROVE  /\ \A d, k, w : InBucket(b2, d, k, w) => InBucket(b, d, k, w)
         /\ \A d, k, p : InNodes(b2, d, k, p) => InNodes(b, d, k, p)
BY DEF InBucket, InNodes

(* A generator that has no port left gives none a turn.                    *)
LEMMA SameTurns ==
  ASSUME NEW c, NEW x, NEW x2, \A e \in Ctx : e # c => x2[e] = x[e], x2[c].pc # "iter"
  PROVE  \A e, k, w : InTurn(x2, e, k, w) => InTurn(x, e, k, w)
BY DEF InTurn

(* The steps of a generator that take up no work.                          *)
LEMMA OnceWaits ==
  ASSUME OnceInv, Shapes, NEW c \in Ctx, TodoCheck(c) \/ TodoWoken(c) \/ TodoEmpty(c)
  PROVE  OnceInv'
<1>1. Scanning /\ UNCHANGED <<sbn, jobs, switches, reads>>
  BY DEF TodoCheck, TodoWoken, TodoEmpty, May, AtTop
<1>2. (\A e \in Ctx : e # c => ctx'[e] = ctx[e]) /\ ctx'[c].pc # "iter"
  <2>1. \/ \E at : at # "iter" /\ ctx' = At(c, at)
        \/ \E on : ctx' = [ctx EXCEPT ![c].pc = "wait", ![c].on = on]
    BY DEF TodoCheck, TodoWoken, TodoEmpty
  <2> QED
    BY <2>1 DEF At, Shapes
<1>3. \A d \in Depth : todo'[d].nodes = todo[d].nodes /\ todo'[d].ports = todo[d].ports
  <2>1. \/ todo' = todo
        \/ \E d : todo' = [todo EXCEPT ![d].ctx = None]
        \/ \E d : todo' = [todo EXCEPT ![d].running = FALSE]
    BY DEF TodoCheck, TodoWoken, TodoEmpty
  <2> QED
    BY <2>1 DEF Shapes
<1>4. Fewer(todo, ctx, jobs, todo', ctx', jobs')
  BY <1>1, <1>2, <1>3, SameBuckets, SameTurns DEF Fewer
<1>5. Once(sbn, todo', ctx', jobs', switches, reads)
  BY <1>1, <1>4, OnceNow, FewerOnce
<1> QED
  BY <1>1, <1>5, OnceNow, OnceSame

(* The ports of the last item are taken up.                                *)
RemOf(x) == IF x.idx = None THEN [i \in 1..(NumPorts[x.node[1]] + 1) |-> i - 1] ELSE <<x.idx>>
LEMMA RemIs ==
  ASSUME NEW db, ScanDb(db), NEW x \in PortItems(db), NEW rem, rem = RemOf(x)
  PROVE  /\ \A k \in DOMAIN rem : <<x.node[1], rem[k]>> \in ItemPlaces(x)
         /\ \A k, l \in DOMAIN rem : rem[k] = rem[l] => k = l
<1>1. x.node[1] \in Device
  <2>1. x.node \in NodeObj
    BY DEF PortItems
  <2> QED
    BY <2>1 DEF NodeObj
<1>2. NumPorts[x.node[1]] \in Nat
  BY <1>1, FabricAssumption DEF FabricAssumption
<1> PICK n : n = NumPorts[x.node[1]]
  OBVIOUS
<1>3. CASE x.idx = None
  <2>1. rem = [i \in 1..(n + 1) |-> i - 1] /\ n \in Nat
    BY <1>2, <1>3 DEF RemOf
  <2>2. \A k \in DOMAIN rem : rem[k] \in 0..n /\ rem[k] = k - 1 /\ k \in Nat
    BY <2>1
  <2>3. ItemPlaces(x) = {x.node[1]} \X (0..n)
    BY <1>3 DEF ItemPlaces
  <2>4. \A k, l \in DOMAIN rem : rem[k] = rem[l] => k = l
    BY <2>2
  <2> QED
    BY <2>2, <2>3, <2>4
<1>4. CASE x.idx # None
  <2>1. rem = <<x.idx>> /\ DOMAIN rem = {1} /\ rem[1] = x.idx
    BY <1>4 DEF RemOf
  <2>2. ItemPlaces(x) = {x.node[1]} \X {x.idx}
    BY <1>4 DEF ItemPlaces
  <2> QED
    BY <2>1, <2>2
<1> QED
  BY <1>3, <1>4

(* A generator takes up the ports of a node: they are due in it.           *)
LEMMA TodoPortsOnce ==
  ASSUME SmpInv, OnceInv, Shapes, NEW c \in Ctx, TodoPorts(c)
  PROVE  OnceInv'
<1> PICK d : d = c[1]
  OBVIOUS
<1> PICK s : s = todo[d].ports
  OBVIOUS
<1> PICK x : x = Last(s)
  OBVIOUS
<1> PICK rem : rem = RemOf(x)
  OBVIOUS
<1>0. d \in Depth
  BY DEF Ctx
<1>1. /\ Scanning /\ UNCHANGED <<sbn, jobs, switches, reads>> /\ s # <<>>
      /\ todo' = [todo EXCEPT ![d].ports = Front(@)]
      /\ ctx' = [ctx EXCEPT ![c].pc = "iter", ![c].node = x.node, ![c].path = x.path, ![c].rem = rem]
  BY ZenonT(30) DEF TodoPorts, May, RemOf
<1>2. x \in PortItems(sbn) /\ s \in Seq(PortItems(sbn)) /\ ScanDb(sbn)
  <2>1. BucketRight(sbn, todo[d])
    BY <1>0, <1>1, WorkNow
  <2> QED
    BY <1>0, <1>1, <2>1, LastPorts, ScanNow DEF BucketRight
<1>3. /\ todo'[d].ports = Front(s) /\ todo'[d].nodes = todo[d].nodes
      /\ \A e \in Depth : e # d => todo'[e] = todo[e]
  BY <1>0, <1>1 DEF Shapes
<1>4. /\ \A e \in Ctx : e # c => ctx'[e] = ctx[e]
      /\ ctx'[c].node = x.node /\ ctx'[c].rem = rem
  BY <1>1, SMTT(30) DEF Shapes
<1> PICK K : K = Len(s)
  OBVIOUS
<1>5. /\ K \in DOMAIN s /\ x = s[K] /\ K \notin DOMAIN Front(s)
      /\ \A k \in DOMAIN Front(s) : k \in DOMAIN s /\ Front(s)[k] = s[k]
  BY <1>1, <1>2, FrontElements
<1>6. /\ \A k \in DOMAIN rem : <<x.node[1], rem[k]>> \in ItemPlaces(x)
      /\ \A k, l \in DOMAIN rem : rem[k] = rem[l] => k = l
  BY <1>2, RemIs
<1>7. \A e, k, w : InBucket(todo', e, k, w) => InBucket(todo, e, k, w) /\ ~(e = d /\ k = K)
  <2> SUFFICES ASSUME NEW e, NEW k, NEW w, InBucket(todo', e, k, w)
               PROVE  InBucket(todo, e, k, w) /\ ~(e = d /\ k = K)
    OBVIOUS
  <2>1. e \in Depth /\ k \in DOMAIN todo'[e].ports /\ w \in ItemPlaces(todo'[e].ports[k])
    BY DEF InBucket
  <2>2. CASE e # d
    BY <1>3, <2>1, <2>2 DEF InBucket
  <2>3. CASE e = d
    <3>1. k \in DOMAIN Front(s) /\ w \in ItemPlaces(Front(s)[k])
      BY <1>3, <2>1, <2>3
    <3>2. k \in DOMAIN s /\ w \in ItemPlaces(s[k]) /\ k # K
      BY <1>5, <3>1
    <3> QED
      BY <2>1, <2>3, <3>2 DEF InBucket
  <2> QED
    BY <2>2, <2>3
<1>8. \A e, k, w : e # c /\ InTurn(ctx', e, k, w) => InTurn(ctx, e, k, w)
  BY <1>4 DEF InTurn
<1>9. \A k, w : InTurn(ctx', c, k, w) => k \in DOMAIN rem /\ w = <<x.node[1], rem[k]>>
  BY <1>4 DEF InTurn
<1>10. \A k, w : InTurn(ctx', c, k, w) => InBucket(todo, d, K, w)
  <2> SUFFICES ASSUME NEW k, NEW w, InTurn(ctx', c, k, w) PROVE InBucket(todo, d, K, w)
    OBVIOUS
  <2>1. k \in DOMAIN rem /\ w = <<x.node[1], rem[k]>>
    BY <1>9
  <2>2. w \in ItemPlaces(x)
    BY <1>6, <2>1
  <2> QED
    BY <1>0, <1>5, <2>2 DEF InBucket
<1>11. \A k, l, w : InTurn(ctx', c, k, w) /\ InTurn(ctx', c, l, w) => k = l
  <2> SUFFICES ASSUME NEW k, NEW l, NEW w, InTurn(ctx', c, k, w), InTurn(ctx', c, l, w) PROVE k = l
    OBVIOUS
  <2>1. k \in DOMAIN rem /\ l \in DOMAIN rem /\ <<x.node[1], rem[k]>> = <<x.node[1], rem[l]>>
    BY <1>9
  <2>2. rem[k] = rem[l]
    BY <2>1
  <2> QED
    BY <1>6, <2>1, <2>2
<1>12. \A e, k, p : InNodes(todo', e, k, p) => InNodes(todo, e, k, p)
  BY <1>3 DEF InNodes
<1>13. TakesUp(todo, ctx, d, K, c, todo', ctx')
  BY <1>7, <1>8, <1>10, <1>11, <1>12 DEF TakesUp
<1>14. Once(sbn, todo', ctx', jobs, switches, reads)
  BY <1>1, <1>13, OnceNow, TakesUpOnce
<1> QED
  BY <1>1, <1>14, OnceNow, OnceSame, ZenonT(30)

(* A port of the node is made.                                             *)
LEMMA LaterSteady ==
  ASSUME NEW db, NEW b, NEW x, NEW s, NEW sw, NEW rd, Once(db, b, x, s, sw, rd), JobsRight(db, s),
         NEW r, Later(db, r), r.topology = db.topology, r.loaded = db.loaded
  PROVE  Once(r, b, x, s, sw, rd)
<1>1. Grown(db, r) /\ r.path = db.path
  BY DEF Later
<1>2. r.path[Start].hops = <<>>
  BY <1>1 DEF Once, Ways
<1>3. Steadily(db, r, s)
  BY <1>1, <1>2 DEF Steadily, Reached, Held
<1> QED
  BY <1>3, Steady

(* A topology of cables stays one while it does not change.                *)
LEMMA TopoTrueStays ==
  ASSUME NEW db, TopoTrue(db, {}), NEW r, r.class = db.class, r.topology = db.topology
  PROVE  TopoTrue(r, {})
BY DEF TopoTrue, Exists

(* A generator asks for one port, or passes over it.                       *)
LEMMA TodoPortOnce ==
  ASSUME SmpInv, OnceInv, Shapes, NEW c \in Ctx, TodoPort(c)
  PROVE  OnceInv'
<1> PICK x : x = ctx[c]
  OBVIOUS
<1> PICK n : n = x.node
  OBVIOUS
<1> PICK i : i = Head(x.rem)
  OBVIOUS
<1> PICK h : h = x.path
  OBVIOUS
<1> PICK w0 : w0 = <<n[1], i>>
  OBVIOUS
<1> PICK new : new = [what |-> "port", path |-> h, depth |-> c[1], idx |-> i, by |-> c]
  OBVIOUS
<1>1. /\ Scanning /\ x.pc = "iter" /\ UNCHANGED <<todo, switches>>
      /\ sbn' = WithPort(sbn, n, i)
      /\ ctx' = [ctx EXCEPT ![c].rem = Tail(@), ![c].pc = IF Len(x.rem) = 1 THEN "top" ELSE "iter"]
      /\ \/ UNCHANGED <<jobs, reads>>
         \/ jobs' = jobs \cup {new} /\ reads' = [reads EXCEPT ![w0] = @ + 1]
  BY DEF TodoPort, May, Spawn
<1>2. ScanDb(sbn) /\ EpReached(sbn) /\ JobsRight(sbn, jobs)
  <2>1. Scanning
    BY <1>1
  <2>2. \A j \in jobs : JobRight(sbn, j)
    BY <2>1, WorkNow
  <2> QED
    BY <2>1, <2>2, ScanNow DEF JobsRight
<1>3. /\ Reached(sbn, h) /\ n = Parent(sbn.path[h].ep)
      /\ x.rem \in Seq(Askable(sbn, h)) /\ x.rem # <<>>
  <2>1. CtxRight(sbn, x)
    BY <1>1, CtxNow
  <2> QED
    BY <1>1, <2>1 DEF CtxRight
<1>4. i \in Askable(sbn, h)
  BY <1>3, TakenFrom
<1>5. i \in 0..MaxPort /\ n \in NodeObj /\ sbn.class[n] # None
  <2>1. i \in 0..MaxPort
    BY <1>4 DEF Askable
  <2>2. Parent(sbn.path[h].ep) \in NodeObj /\ sbn.class[Parent(sbn.path[h].ep)] # None
    BY <1>2, <1>3, ReachedFacts
  <2> QED
    BY <1>3, <2>1, <2>2
<1>6. Later(sbn, sbn') /\ sbn'.topology = sbn.topology /\ sbn'.loaded = sbn.loaded
  BY <1>1, <1>2, <1>5, WithPortScan
<1>7. Once(sbn', todo, ctx, jobs, switches, reads)
  BY <1>1, <1>2, <1>6, OnceNow, LaterSteady
<1>8. /\ \A e \in Ctx : e # c => ctx'[e] = ctx[e]
      /\ ctx'[c].node = n /\ ctx'[c].rem = Tail(x.rem)
  BY <1>1 DEF Shapes
<1>9. /\ 1 \in DOMAIN x.rem /\ i = x.rem[1]
      /\ \A k \in DOMAIN Tail(x.rem) : k \in Nat /\ k + 1 \in DOMAIN x.rem /\ k + 1 # 1 /\ Tail(x.rem)[k] = x.rem[k + 1]
  BY <1>3, TailElements
<1>10. GoesPast(ctx, c, w0, ctx')
  <2>1. InTurn(ctx, c, 1, w0)
    BY <1>1, <1>9 DEF InTurn
  <2>2. \A e, k, w : e # c /\ InTurn(ctx', e, k, w) => InTurn(ctx, e, k, w)
    BY <1>8 DEF InTurn
  <2>3. ASSUME NEW k, NEW w, InTurn(ctx', c, k, w)
        PROVE  k \in Nat /\ k + 1 # 1 /\ InTurn(ctx, c, k + 1, w)
    <3>1. k \in DOMAIN Tail(x.rem) /\ w = <<n[1], Tail(x.rem)[k]>>
      BY <1>8, <2>3 DEF InTurn
    <3>2. k \in Nat /\ k + 1 \in DOMAIN x.rem /\ k + 1 # 1 /\ w = <<n[1], x.rem[k + 1]>>
      BY <1>9, <3>1
    <3> QED
      BY <1>1, <3>2 DEF InTurn
  <2> QED
    BY <2>1, <2>2, <2>3 DEF GoesPast
<1>11. TopoTrue(sbn', {})
  <2>1. TopoTrue(sbn, {})
    BY <1>1, OnceNow
  <2> QED
    BY <1>6, <2>1, TopoTrueStays DEF Later
<1>12. CASE UNCHANGED <<jobs, reads>>
  <2>1. Once(sbn', todo, ctx', jobs, switches, reads)
    BY <1>7, <1>10, SkipOnce
  <2> QED
    BY <1>1, <1>11, <1>12, <2>1, OnceStep
<1>13. CASE jobs' = jobs \cup {new} /\ reads' = [reads EXCEPT ![w0] = @ + 1]
  <2>1. new.what = "port" /\ new.path = h /\ new.idx = i
    OBVIOUS
  <2>2. sbn'.path = sbn.path
    BY <1>6 DEF Later
  <2>3. AskPlace(sbn', new) = w0
    BY <1>3, <2>1, <2>2 DEF AskPlace
  <2>4. Once(sbn', todo, ctx', jobs \cup {new}, switches, reads')
    BY <1>7, <1>10, <1>13, <2>1, <2>3, AskOnce
  <2> QED
    BY <1>1, <1>11, <1>13, <2>4, OnceStep
<1> QED
  BY <1>1, <1>12, <1>13

-----------------------------------------------------------------------------
(* A path with a hop more leads over one cable more.                       *)
LEMMA AppendedAt ==
  ASSUME NEW hops \in Seq(Nat), NEW i \in Nat, NEW more, more = Append(hops, i)
  PROVE  /\ more \in Seq(Nat) /\ Len(hops) \in Nat /\ Len(more) = Len(hops) + 1 /\ more[Len(hops) + 1] = i
         /\ \A k \in 1..Len(hops) : more[k] = hops[k]
OBVIOUS

(* A directed route with a hop more crosses one cable more.                *)
LEMMA WalkOn ==
  ASSUME NEW w, NEW hops \in Seq(Nat), NEW i \in Nat, NEW more, more = Append(hops, i)
  PROVE  Walk(w, more)[Len(more)] = Cross(Walk(w, hops)[Len(hops)], i)
<1> PICK n : n = Len(hops)
  OBVIOUS
<1>1. /\ more \in Seq(Nat) /\ n \in Nat /\ Len(more) = n + 1 /\ more[n + 1] = i
      /\ \A k \in 1..n : more[k] = hops[k]
  BY AppendedAt
<1> PICK f : f = Walk(w, hops)
  OBVIOUS
<1> PICK g : g = Walk(w, more)
  OBVIOUS
<1>2. f[0] = w /\ \A k \in 1..n : f[k] = Cross(f[k - 1], hops[k])
  BY WalkIs, SMTT(60)
<1>3. g[0] = w /\ \A k \in 1..(n + 1) : g[k] = Cross(g[k - 1], more[k])
  <2>1. Walk(w, more)[0] = w /\ \A k \in 1..Len(more) : Walk(w, more)[k] = Cross(Walk(w, more)[k - 1], more[k])
    BY <1>1, WalkIs, ZenonT(120)
  <2> QED
    BY <1>1, <2>1
<1> DEFINE S == {k \in Nat : k <= n => g[k] = f[k]}
<1>4. 0 \in S
  BY <1>2, <1>3
<1>5. ASSUME NEW k \in Nat, k \in S PROVE k + 1 \in S
  <2> SUFFICES ASSUME k + 1 <= n PROVE g[k + 1] = f[k + 1]
    OBVIOUS
  <2>1. k + 1 \in 1..n /\ k + 1 \in 1..(n + 1) /\ k + 1 - 1 = k /\ k <= n
    BY <1>1
  <2>2. g[k] = f[k]
    BY <1>5, <2>1
  <2> HIDE DEF S
  <2>3. f[k + 1] = Cross(f[k], hops[k + 1])
    BY <1>2, <2>1
  <2>4. g[k + 1] = Cross(g[k], more[k + 1])
    BY <1>3, <2>1
  <2> QED
    BY <1>1, <2>1, <2>2, <2>3, <2>4
<1>6. n \in S
  <2> HIDE DEF S
  <2> QED
    BY <1>1, <1>4, <1>5, SetInduction
<1>7. g[n] = f[n]
  BY <1>1, <1>6
<1>8. g[n + 1] = Cross(g[n], i)
  <2>1. n + 1 \in 1..(n + 1) /\ n + 1 - 1 = n
    BY <1>1
  <2>2. g[n + 1] = Cross(g[n + 1 - 1], more[n + 1])
    BY <1>3, <2>1
  <2> QED
    BY <1>1, <2>1, <2>2
<1> QED
  BY <1>1, <1>7, <1>8

(* So does the path with that route.                                       *)
LEMMA LeadsOn ==
  ASSUME NEW path \in Path, NEW i \in Nat, NEW new, new = DRPath(path.dlid, Append(path.hops, i))
  PROVE  LeadsTo(new) = Cross(LeadsTo(path), i)
<1> PICK w : w = IF path.dlid = Permissive THEN Local ELSE PlaceAtLid(path.dlid)
  OBVIOUS
<1> PICK hops : hops = path.hops
  OBVIOUS
<1> PICK more : more = Append(hops, i)
  OBVIOUS
<1>1. hops \in Seq(Nat)
  BY DEF Path
<1>2. LeadsTo(path) = Walk(w, hops)[Len(hops)]
  BY DEF LeadsTo
<1>3. LeadsTo(new) = Walk(w, more)[Len(more)]
  <2>1. new.dlid = path.dlid /\ new.hops = more
    BY DEF DRPath
  <2> QED
    BY <2>1 DEF LeadsTo
<1>4. Walk(w, more)[Len(more)] = Cross(Walk(w, hops)[Len(hops)], i)
  BY <1>1, WalkOn, ZenonT(30)
<1> QED
  BY <1>2, <1>3, <1>4, Zenon

(* The first hop starts from the local port.                               *)
LEMMA LeadsOneHop ==
  ASSUME NEW i \in Nat, NEW new, new = DRPath(Permissive, <<i>>)
  PROVE  LeadsTo(new) = Cross(Local, i)
<1> PICK hops : hops = <<i>>
  OBVIOUS
<1>1. hops \in Seq(Nat) /\ Len(hops) = 1 /\ hops[1] = i /\ 1 \in 1..Len(hops) /\ 1 - 1 = 0
  OBVIOUS
<1>2. LeadsTo(new) = Walk(Local, hops)[1]
  BY <1>1 DEF LeadsTo, DRPath
<1>3. /\ Walk(Local, hops)[0] = Local
      /\ \A k \in 1..Len(hops) : Walk(Local, hops)[k] = Cross(Walk(Local, hops)[k - 1], hops[k])
  <2>1. \A hs \in Seq(Nat) : /\ Walk(Local, hs)[0] = Local
                            /\ \A k \in 1..Len(hs) : Walk(Local, hs)[k] = Cross(Walk(Local, hs)[k - 1], hs[k])
    <3> SUFFICES ASSUME NEW hs \in Seq(Nat)
                 PROVE  /\ Walk(Local, hs)[0] = Local
                        /\ \A k \in 1..Len(hs) : Walk(Local, hs)[k] = Cross(Walk(Local, hs)[k - 1], hs[k])
      OBVIOUS
    <3> QED
      BY WalkIs
  <2>2. hops \in Seq(Nat)
    BY <1>1
  <2> QED
    BY <2>1, <2>2, Zenon
<1>4. Walk(Local, hops)[1] = Cross(Walk(Local, hops)[1 - 1], hops[1])
  BY <1>1, <1>3
<1> QED
  BY <1>1, <1>2, <1>3, <1>4

(* A CA that was reached over a port has its port linked.                  *)
LEMMA CameByLink ==
  ASSUME NEW db, ScanDb(db), EpReached(db), TopoTrue(db, {}), Ways(db), NEW h \in PortObj, Reached(db, h),
         ~IsSwitch(Parent(db.path[h].ep)[1])
  PROVE  db.topology[db.path[h].ep] # None
<1> PICK v : v = Link[PlaceOf(h)]
  OBVIOUS
<1>1. db.topology[h] # None
  BY StartIsNoPort DEF EpReached, PathObj
<1>2. PlaceOf(h) \in DOMAIN Link /\ db.path[h].ep = Place1(ToEndPlace(v))
  BY DEF Ways
<1>3. db.topology[h] = Place1(v) /\ db.topology[Place1(v)] = h
  BY <1>1 DEF TopoTrue
<1>4. ~IsSwitch(v[1])
  <2>1. IsSwitch(v[1]) => ToEndPlace(v)[1] = v[1]
    BY DEF ToEndPlace
  <2>2. Parent(db.path[h].ep)[1] = ToEndPlace(v)[1]
    BY <1>2 DEF Place1, Parent
  <2> QED
    BY <2>1, <2>2
<1>5. db.path[h].ep = Place1(v)
  BY <1>2, <1>4 DEF ToEndPlace
<1> QED
  BY <1>3, <1>5, FixedNone DEF PathObj

(* advance_dr makes a path over the cable of the port it is given.         *)
LEMMA AdvanceLeads ==
  ASSUME NEW db, ScanDb(db), EpReached(db), TopoTrue(db, {}), Ways(db),
         NEW h, Reached(db, h), NEW idx \in 0..MaxPort, NEW q, q = <<Parent(db.path[h].ep), idx>>,
         PlaceOf(q) \in DOMAIN Link, db.topology[q] = None,
         NEW new, new = advance_dr(db, db.path[h], idx)
  PROVE  LeadsTo(new) = Link[PlaceOf(q)]
<1> PICK path : path = db.path[h]
  OBVIOUS
<1> PICK v : v = LeadsTo(path)
  OBVIOUS
<1>1. /\ h \in PathObj /\ path \in Path /\ path.ep # None /\ v # None /\ v \in Spot
      /\ path.ep = Place1(ToEndPlace(v)) /\ Exists(db, path.ep)
      /\ Parent(path.ep) \in NodeObj /\ db.class[Parent(path.ep)] # None
  BY ReachedFacts
<1>2. idx \in Nat
  BY Ports
<1>3. ToEndPlace(v)[1] = v[1]
  BY <1>1, SpotFacts
<1>4. PlaceOf(q) = <<v[1], idx>> /\ Parent(path.ep) = <<v[1], 1>>
  BY <1>1, <1>3 DEF PlaceOf, Place1, Parent
<1>5. Cross(v, idx) = Link[PlaceOf(q)]
  BY <1>1, <1>4 DEF Cross
<1>6. db.topology[PortAt(db, Parent(path.ep), idx)] = None
  BY <1>1, SlotFacts DEF ScanDb
<1>7. IsSwitchNode(db, Parent(path.ep)) <=> IsSwitch(Parent(path.ep)[1])
  BY <1>1, CopyFacts
<1>8. ~(path.ep # None /\ ~IsSwitchNode(db, Parent(path.ep)) /\ path.hops # <<>> /\ path.ep[2] = idx)
  <2> SUFFICES ASSUME ~IsSwitch(Parent(path.ep)[1]), path.hops # <<>>, path.ep[2] = idx PROVE FALSE
    BY <1>7
  <2>1. h # Start
    BY DEF Ways, Reached
  <2>2. h \in PortObj
    BY <1>1, <2>1 DEF PathObj
  <2>3. db.topology[path.ep] # None
    BY <2>2, CameByLink
  <2>4. q = path.ep
    BY <1>1 DEF Place1, Parent
  <2> QED
    BY <2>3, <2>4
<1>9. CASE ~path.dr /\ path.dlid = Lid[Local] /\ path.dlid # 0
  <2>1. PathRight(db, path)
    BY <1>1 DEF ScanDb, PathsRight, Reached, Held
  <2>2. path.hops = <<>>
    BY <1>9, <2>1 DEF PathRight
  <2>3. v = Local
    BY <1>1, <1>9, <2>2, LidPathLeads, FabricAssumption DEF FabricAssumption, ByTheLid
  <2>4. new = DRPath(Permissive, <<idx>>)
    BY <1>9 DEF advance_dr
  <2> QED
    BY <1>2, <1>5, <2>3, <2>4, LeadsOneHop
<1>10. CASE ~(~path.dr /\ path.dlid = Lid[Local] /\ path.dlid # 0)
  <2>1. new = DRPath(path.dlid, Append(path.hops, idx))
    BY <1>6, <1>8, <1>10 DEF advance_dr
  <2> QED
    BY <1>1, <1>2, <1>5, <2>1, LeadsOn
<1> QED
  BY <1>9, <1>10

(* An exit on its way is one as long as its path stays.                    *)
LEMMA ExitSteady ==
  ASSUME NEW db, NEW s, JobsRight(db, s), NEW r, Steadily(db, r, s), NEW rd, NEW p, Exit(db, s, rd, p)
  PROVE  Exit(r, s, rd, p)
<1>1. \A j \in s : j.what = "port" => AskPlace(r, j) = AskPlace(db, j)
  BY AskPlaceStays DEF JobsRight, Steadily
<1> QED
  BY <1>1 DEF Exit, Steadily

(* The device behind an exit is read.                                      *)
NewCrossing(db, b, s, rd, new) ==
  /\ new.what = "node" /\ new.by # None /\ Crosses(db, s, rd, new)
  /\ \A j \in s : j.what = "node" => j.path # new.path
  /\ \A d, k : ~InNodes(b, d, k, new.path)
  /\ ~IsSwitch(Local[1]) /\ db.topology[Place1(Local)] = None => new.path = Place1(Local)

LEMMA CrossOnce ==
  ASSUME NEW db, NEW b, NEW x, NEW s, NEW sw, NEW rd, Once(db, b, x, s, sw, rd),
         NEW new, NewCrossing(db, b, s, rd, new)
  PROVE  Once(db, b, x, s \cup {new}, sw, rd)
<1> PICK s2 : s2 = s \cup {new}
  OBVIOUS
<1>1. new.what # "port" /\ new.what = "node"
  BY DEF NewCrossing
<1>2. PortsOnce(db, b, x, s2, sw, rd)
  BY <1>1 DEF Once, PortsOnce, AskedOnce, AskedRead
<1>3. \A p : Exit(db, s, rd, p) => Exit(db, s2, rd, p)
  BY <1>1 DEF Exit
<1>4. ExitsOnce(b) /\ ExitsAhead(db, b, s2, rd)
  <2>1. ExitsOnce(b) /\ ExitsAhead(db, b, s, rd)
    BY DEF Once, ExitsRight
  <2> QED
    BY <1>3, <2>1 DEF ExitsAhead, NewCrossing
<1>5. Crossing(db, s2, rd)
  <2>1. Crossing(db, s, rd)
    BY DEF Once, ExitsRight
  <2>2. \A j \in s2 : j.what = "node" /\ j.by # None => Crosses(db, s2, rd, j)
    BY <1>3, <2>1 DEF Crossing, Crosses, NewCrossing
  <2>3. \A j, k \in s2 : j.what = "node" /\ k.what = "node" /\ j.path = k.path => j = k
    BY <2>1 DEF Crossing, NewCrossing
  <2> QED
    BY <2>2, <2>3 DEF Crossing
<1>6. First(db, s2, sw)
  <2>1. First(db, s, sw) /\ new.by # None
    BY DEF Once, ExitsRight, NewCrossing
  <2> QED
    BY <2>1 DEF First
<1>7. LocalFirst(db, b, x, s2)
  <2>1. LocalFirst(db, b, x, s)
    BY DEF Once, ExitsRight
  <2> QED
    BY <1>1, <2>1 DEF LocalFirst, NewCrossing
<1> QED
  BY <1>2, <1>4, <1>5, <1>6, <1>7 DEF Once, ExitsRight

(* The path to it is made.                                                 *)
PutOn(db, r, p, new) ==
  /\ Grown(db, r) /\ r.loaded = db.loaded /\ r.topology = db.topology /\ r.class = db.class
  /\ p \in PathObj /\ p # Start /\ new.ep = None
  /\ r.path[p] = new /\ \A g \in PathObj : g # p => r.path[g] = db.path[g]
LEMMA PutSteady ==
  ASSUME NEW db, NEW r, NEW p, NEW new, PutOn(db, r, p, new), Ways(db),
         NEW s, JobsRight(db, s), \A j \in s : j.what = "node" => j.path # p
  PROVE  Steadily(db, r, s) /\ ~Reached(r, p)
<1>1. ~Reached(r, p)
  BY DEF PutOn, Reached
<1>2. \A g : Reached(r, g) => Reached(db, g)
  BY <1>1 DEF PutOn, Reached, Held
<1>3. \A j \in s : j.what = "node" => r.path[j.path] = db.path[j.path]
  BY DEF PutOn, JobsRight, JobRight, NodeJob, Held
<1>4. r.path[Start].hops = <<>>
  BY StartIsNoPort DEF Ways, PutOn, Held
<1> QED
  BY <1>1, <1>2, <1>3, <1>4 DEF Steadily, PutOn

(* The path kept for a port that is to be crossed was not in use.          *)
LEMMA NodeReadPuts ==
  ASSUME NEW db, ScanDb(db), EpReached(db), NEW x \in NodeItems(db),
         ~(db.topology[x.aport] # None /\ Parent(db.topology[x.aport]) \in db.ninf),
         NEW new, new = advance_dr(db, db.path[x.path], x.idx), NEW r, r = PathPut(db, x.aport, new)
  PROVE  PutOn(db, r, x.aport, new) /\ db.topology[x.aport] = None /\ x.aport \in PortObj /\ ~Reached(r, x.aport)
<1> PICK p : p = x.aport
  OBVIOUS
<1>1. /\ Reached(db, x.path) /\ p \in PortObj /\ x.idx \in 0..MaxPort /\ p = <<Parent(db.path[x.path].ep), x.idx>>
  BY DEF NodeItems
<1>2. db.topology[p] = None
  <2> SUFFICES ASSUME db.topology[p] # None PROVE FALSE
    OBVIOUS
  <2>1. Exists(db, db.topology[p])
    BY <1>1 DEF ScanDb, TopoThere
  <2>2. Parent(db.topology[p]) \in NodeObj
    BY <2>1 DEF Exists, PortObj, Parent
  <2>3. Parent(db.topology[p]) \in db.ninf
    BY <2>1, <2>2 DEF ScanDb, AllSeen, Exists
  <2> QED
    BY <2>3
<1>3. new.ep = None
  BY <1>1, <1>2, AdvanceFacts DEF FreshDR
<1>4. p \in PathObj /\ p # Start
  BY <1>1, StartIsNoPort DEF PathObj
<1>5. Grown(db, r)
  BY NodeReads DEF ScanOn
<1>6. /\ r.loaded = db.loaded /\ r.topology = db.topology /\ r.class = db.class
      /\ r.path = [db.path EXCEPT ![p] = new]
  <2>1. DOMAIN db = DOMAIN EmptyDb
    BY DEF ScanDb, DbInv, DbTypes
  <2> QED
    BY <2>1 DEF PathPut, EmptyDb
<1>7. DOMAIN db.path = PathObj
  BY DEF ScanDb, DbInv, DbTypes
<1>8. r.path[p] = new /\ \A g \in PathObj : g # p => r.path[g] = db.path[g]
  BY <1>4, <1>6, <1>7
<1>9. ~Reached(r, p)
  BY <1>3, <1>8 DEF Reached
<1> QED
  BY <1>1, <1>2, <1>3, <1>4, <1>5, <1>6, <1>8, <1>9, ZenonT(30) DEF PutOn

(* The last item is taken from the nodes.                                  *)
NodeTaken(b, d, K, p, b2) ==
  /\ InNodes(b, d, K, p)
  /\ \A e, k, q : InNodes(b2, e, k, q) => InNodes(b, e, k, q) /\ ~(e = d /\ k = K)
  /\ \A e, k, w : InBucket(b2, e, k, w) => InBucket(b, e, k, w)

LEMMA LastTaken ==
  ASSUME SmpInv, Shapes, Scanning, NEW d \in Depth, todo[d].nodes # <<>>,
         todo' = [todo EXCEPT ![d].nodes = Front(@)], NEW x, x = Last(todo[d].nodes)
  PROVE  NodeTaken(todo, d, Len(todo[d].nodes), x.aport, todo')
<1> PICK s : s = todo[d].nodes
  OBVIOUS
<1> PICK K : K = Len(s)
  OBVIOUS
<1>1. s \in Seq(NodeItems(sbn)) /\ s # <<>>
  BY WorkNow DEF BucketRight
<1>2. /\ todo'[d].nodes = Front(s) /\ todo'[d].ports = todo[d].ports
      /\ \A e \in Depth : e # d => todo'[e] = todo[e]
  BY DEF Shapes
<1>3. /\ K \in DOMAIN s /\ x = s[K] /\ K \notin DOMAIN Front(s)
      /\ \A k \in DOMAIN Front(s) : k \in DOMAIN s /\ Front(s)[k] = s[k]
  BY <1>1, FrontElements
<1>4. InNodes(todo, d, K, x.aport)
  BY <1>3 DEF InNodes
<1>5. \A e, k, q : InNodes(todo', e, k, q) => InNodes(todo, e, k, q) /\ ~(e = d /\ k = K)
  <2> SUFFICES ASSUME NEW e, NEW k, NEW q, InNodes(todo', e, k, q)
               PROVE  InNodes(todo, e, k, q) /\ ~(e = d /\ k = K)
    OBVIOUS
  <2>1. e \in Depth /\ k \in DOMAIN todo'[e].nodes /\ q = todo'[e].nodes[k].aport
    BY DEF InNodes
  <2>2. CASE e # d
    BY <1>2, <2>1, <2>2 DEF InNodes
  <2>3. CASE e = d
    <3>1. k \in DOMAIN Front(s) /\ q = Front(s)[k].aport
      BY <1>2, <2>1, <2>3
    <3>2. k \in DOMAIN s /\ q = s[k].aport /\ k # K
      BY <1>3, <3>1
    <3> QED
      BY <2>1, <2>3, <3>2 DEF InNodes
  <2> QED
    BY <2>2, <2>3
<1>6. \A e, k, w : InBucket(todo', e, k, w) => InBucket(todo, e, k, w)
  BY <1>2 DEF InBucket
<1> QED
  BY <1>4, <1>5, <1>6 DEF NodeTaken

(* Taking up an item leaves fewer in the buckets.                          *)
LEMMA TakenFewer ==
  ASSUME NEW b, NEW d, NEW K, NEW p, NEW b2, NodeTaken(b, d, K, p, b2),
         NEW x, NEW x2, NEW c, \A e \in Ctx : e # c => x2[e] = x[e], x2[c].pc # "iter", NEW s
  PROVE  Fewer(b, x, s, b2, x2, s)
BY SameTurns DEF Fewer, NodeTaken

(* A generator takes up a port to cross: one item less, one MAD more.      *)
LEMMA ReadsOnce ==
  ASSUME NEW db, NEW b, NEW x, NEW s, NEW sw, NEW rd, Once(db, b, x, s, sw, rd),
         ScanDb(db), EpReached(db), TopoTrue(db, {}), JobsRight(db, s),
         NEW d, NEW K, NEW item \in NodeItems(db), NEW b2, NodeTaken(b, d, K, item.aport, b2),
         NEW x2, Fewer(b, x, s, b2, x2, s),
         ~(db.topology[item.aport] # None /\ Parent(db.topology[item.aport]) \in db.ninf),
         NEW r, r = PathPut(db, item.aport, advance_dr(db, db.path[item.path], item.idx)),
         NEW new, new.what = "node", new.by # None, new.path = item.aport
  PROVE  Once(r, b2, x2, s \cup {new}, sw, rd)
<1> PICK p : p = item.aport
  OBVIOUS
<1> PICK path : path = advance_dr(db, db.path[item.path], item.idx)
  OBVIOUS
<1>1. Once(db, b2, x2, s, sw, rd)
  BY FewerOnce
<1>2. PutOn(db, r, p, path) /\ db.topology[p] = None /\ p \in PortObj
  BY NodeReadPuts
<1>3. Exit(db, s, rd, p) /\ \A j \in s : j.what = "node" => j.path # p
  BY DEF Once, ExitsRight, ExitsAhead, NodeTaken
<1>4. Ways(db)
  BY DEF Once
<1>5. Steadily(db, r, s) /\ ~Reached(r, p)
  BY <1>2, <1>3, <1>4, PutSteady
<1>6. Once(r, b2, x2, s, sw, rd)
  BY <1>1, <1>5, Steady
<1>7. Exit(r, s, rd, p)
  BY <1>3, <1>5, ExitSteady
<1>8. LeadsTo(path) = Link[PlaceOf(p)]
  <2>1. /\ Reached(db, item.path) /\ item.idx \in 0..MaxPort
        /\ p = <<Parent(db.path[item.path].ep), item.idx>>
    BY DEF NodeItems
  <2>2. PlaceOf(p) \in DOMAIN Link
    BY <1>3 DEF Exit
  <2> QED
    BY <1>2, <1>4, <2>1, <2>2, AdvanceLeads
<1>9. Crosses(r, s, rd, new)
  BY <1>2, <1>5, <1>7, <1>8 DEF Crosses, PutOn
<1>10. \A e, k : ~InNodes(b2, e, k, p)
  BY DEF Once, ExitsRight, ExitsOnce, NodeTaken
<1>11. ~IsSwitch(Local[1]) /\ r.topology[Place1(Local)] = None => p = Place1(Local)
  <2>1. r.topology = db.topology
    BY <1>2 DEF PutOn
  <2>2. InNodes(b, d, K, p) /\ LocalFirst(db, b, x, s)
    BY DEF Once, ExitsRight, NodeTaken
  <2> QED
    BY <2>1, <2>2 DEF LocalFirst
<1>12. NewCrossing(r, b2, s, rd, new)
  BY <1>3, <1>9, <1>10, <1>11 DEF NewCrossing
<1> QED
  BY <1>6, <1>12, CrossOnce

(* What SmpInv says of the MADs of a scan.                                 *)
LEMMA JobsNow == ASSUME SmpInv, Scanning PROVE ScanDb(sbn) /\ EpReached(sbn) /\ JobsRight(sbn, jobs)
BY DEF SmpInv, ScanUse, ScanUses

(* A generator takes up a path to a node, or drops it.                     *)
LEMMA TodoNodeOnce ==
  ASSUME SmpInv, OnceInv, Shapes, NEW c \in Ctx, TodoNode(c)
  PROVE  OnceInv'
<1> PICK d : d = c[1]
  OBVIOUS
<1> PICK x : x = Last(todo[d].nodes)
  OBVIOUS
<1>0. d \in Depth
  BY DEF Ctx
<1>1. /\ Scanning /\ UNCHANGED <<switches, reads>> /\ todo[d].nodes # <<>>
      /\ todo' = [todo EXCEPT ![d].nodes = Front(@)]
  BY DEF TodoNode, AtTop, May
<1>2. x \in NodeItems(sbn)
  BY <1>0, <1>1, LastNode
<1>3. (\A e \in Ctx : e # c => ctx'[e] = ctx[e]) /\ ctx'[c].pc # "iter"
  <2>1. \E at : at # "iter" /\ ctx' = At(c, at)
    BY DEF TodoNode
  <2> QED
    BY <2>1 DEF At, Shapes
<1> PICK K : K = Len(todo[d].nodes)
  OBVIOUS
<1>4. NodeTaken(todo, d, K, x.aport, todo')
  BY <1>0, <1>1, LastTaken
<1>5. Fewer(todo, ctx, jobs, todo', ctx', jobs)
  BY <1>3, <1>4, TakenFewer
<1>6. TopoTrue(sbn, {}) /\ Once(sbn, todo, ctx, jobs, switches, reads)
  BY <1>1, OnceNow
<1>7. CASE PeerKnown(x.aport)
  <2>1. UNCHANGED <<sbn, jobs>>
    BY <1>7, SMTT(30) DEF TodoNode
  <2>2. Once(sbn, todo', ctx', jobs, switches, reads)
    BY <1>5, <1>6, FewerOnce
  <2> QED
    BY <1>1, <1>6, <2>1, <2>2, OnceSame
<1>8. CASE ~PeerKnown(x.aport)
  <2> PICK j : j = [what |-> "node", path |-> x.aport, depth |-> d, peer |-> x.aport, by |-> c]
    OBVIOUS
  <2>1. sbn' = PathPut(sbn, x.aport, advance_dr(sbn, sbn.path[x.path], x.idx)) /\ jobs' = jobs \cup {j}
    BY <1>8 DEF TodoNode, Spawn, PathPut, NextPath
  <2>2. ScanDb(sbn) /\ EpReached(sbn) /\ JobsRight(sbn, jobs)
    BY <1>1, JobsNow
  <2>3. ~(sbn.topology[x.aport] # None /\ Parent(sbn.topology[x.aport]) \in sbn.ninf)
    BY <1>8 DEF PeerKnown
  <2>4. j.what = "node" /\ j.by # None /\ j.path = x.aport
    BY NoneIsNoCtx
  <2>5. Once(sbn', todo', ctx', jobs \cup {j}, switches, reads)
    BY <1>2, <1>4, <1>5, <1>6, <2>1, <2>2, <2>3, <2>4, ReadsOnce, ZenonT(120)
  <2>6. TopoTrue(sbn', {})
    <3>1. PutOn(sbn, sbn', x.aport, advance_dr(sbn, sbn.path[x.path], x.idx))
      BY <1>2, <2>1, <2>2, <2>3, NodeReadPuts, ZenonT(30)
    <3> QED
      BY <1>6, <3>1, TopoTrueStays DEF PutOn
  <2> QED
    BY <1>1, <2>1, <2>5, <2>6, OnceStep, ZenonT(30)
<1> QED
  BY <1>7, <1>8

-----------------------------------------------------------------------------
(* A PortInfo arrives.                                                     *)
LEMMA ReroutedPaths ==
  ASSUME NEW db, ScanDb(db), NEW j, Reached(db, j.path), NEW lid, NEW r, r = Rerouted(db, j, lid),
         db.path[Start].hops = <<>>
  PROVE  /\ \A g \in PathObj : g # j.path => r.path[g] = db.path[g]
         /\ \A g : Reached(r, g) => Reached(db, g)
         /\ r.path[Start].hops = <<>>
<1> PICK h : h = j.path
  OBVIOUS
<1>1. DOMAIN db = DOMAIN EmptyDb /\ DOMAIN db.path = PathObj /\ h \in PathObj
  BY DEF ScanDb, DbInv, DbTypes, Reached, Held
<1>2. \/ r = db
      \/ \E new : new.hops = <<>> /\ r.path = [db.path EXCEPT ![h] = new]
  BY <1>1 DEF Rerouted, LIDPath, EmptyDb
<1>3. \/ r = db
      \/ r.path[h].hops = <<>> /\ \A g \in PathObj : g # h => r.path[g] = db.path[g]
  BY <1>1, <1>2
<1>4. \A g \in PathObj : g # h => r.path[g] = db.path[g]
  BY <1>3
<1>5. \A g : Reached(r, g) => Reached(db, g)
  BY <1>4 DEF Reached, Held
<1>6. r.path[Start].hops = <<>>
  BY <1>3, StartIsNoPort
<1> QED
  BY <1>4, <1>5, <1>6

NoFirst(s) == \A j \in s : j.what = "node" => j.by # None
(* A PortInfo moves no path that another MAD is on.                        *)
LEMMA PortStoredSteady ==
  ASSUME NEW db, ScanDb(db), EpReached(db), NEW j, Reached(db, j.path),
         NEW v, v = LeadsTo(db.path[j.path]),
         NEW w, w[1] = v[1], w[2] \in 0..MaxPort, ToEndPlace(w) = ToEndPlace(v),
         NEW np, np = get_port_pinf(db, w, w[2], PinfLid(w), Over(w, j.path)),
         NEW r, r = Rerouted(np.db, j, PinfLid(w)),
         NEW b, NEW x, NEW s, NEW sw, NEW rd, Once(db, b, x, s, sw, rd), JobsRight(db, s), NoFirst(s)
  PROVE  Steadily(db, r, s)
<1> PICK h : h = j.path
  OBVIOUS
<1> PICK e : e = ToEndPlace(w)
  OBVIOUS
<1> PICK lid : lid = PinfLid(w)
  OBVIOUS
<1> PICK a : a = Over(w, h)
  OBVIOUS
<1>1. lid \in {0, Lid[e]}
  BY DEF PinfLid
<1>2. InfoGot(db, h, w, e, np) /\ e \in EndPlace
  BY <1>1, PortArrives
<1> PICK t : t = np.db
  OBVIOUS
<1>3. /\ ScanDb(t) /\ Grown(db, t) /\ Reached(t, h) /\ t.path[h].ep = Place1(e)
      /\ \A g : Reached(t, g) => g = h \/ Reached(db, g)
      /\ t.topology = db.topology /\ t.loaded = db.loaded
      /\ \A g \in PathObj : Held(db, g) => t.path[g].dlid = db.path[g].dlid /\ t.path[g].hops = db.path[g].hops
  BY <1>2, ZenonT(30) DEF InfoGot, PathGot
<1>4. EpReached(t)
  BY <1>3 DEF EpReached
<1>5. r = Rerouted(t, j, lid)
  OBVIOUS
<1>6. ScanOn(t, r) /\ r.topology = t.topology
  BY <1>1, <1>2, <1>3, <1>4, <1>5, ReroutedScan
<1>7. Held(db, Start) /\ db.path[Start].hops = <<>> /\ Start \in PathObj
  BY StartIsNoPort DEF Once, Ways
<1>8. t.path[Start].hops = <<>>
  BY <1>3, <1>7
<1>9. /\ \A g \in PathObj : g # h => r.path[g] = t.path[g]
      /\ \A g : Reached(r, g) => Reached(t, g)
      /\ r.path[Start].hops = <<>>
  BY <1>3, <1>5, <1>8, ReroutedPaths
<1>10. Grown(db, r) /\ r.loaded = db.loaded /\ r.topology = db.topology
  BY <1>3, <1>6, GrownTwice DEF ScanOn
<1>11. \A g : Reached(r, g) => Reached(db, g)
  BY <1>3, <1>9
<1>12. ASSUME NEW k \in s, k.what = "node" PROVE LeadsTo(r.path[k.path]) = LeadsTo(db.path[k.path])
  <2>1. ~Reached(db, k.path)
    BY <1>12 DEF Once, ExitsRight, Crossing, Crosses, NoFirst
  <2>2. k.path # h
    BY <2>1
  <2>3. Held(db, k.path)
    BY <1>12 DEF JobsRight, JobRight, NodeJob
  <2>4. k.path \in PathObj
    BY <2>3 DEF Held
  <2>5. r.path[k.path] = t.path[k.path]
    BY <1>9, <2>2, <2>4
  <2> QED
    BY <1>3, <2>3, <2>4, <2>5, SameWay
<1> QED
  BY <1>9, <1>10, <1>11, <1>12 DEF Steadily

(* A port behind which the scan goes on is queued.                         *)
NodeAdded(b, p, d, K, b2) ==
  /\ \A e, k, q : InNodes(b2, e, k, q) => InNodes(b, e, k, q) \/ (e = d /\ k = K /\ q = p)
  /\ \A e, k, w : InBucket(b2, e, k, w) => InBucket(b, e, k, w)
NewExit(db, b, s, rd, p) ==
  /\ Exit(db, s, rd, p)
  /\ \A j \in s : j.what = "node" => j.path # p
  /\ \A d, k : ~InNodes(b, d, k, p)
  /\ ~IsSwitch(Local[1]) /\ db.topology[Place1(Local)] = None => p = Place1(Local)

LEMMA ExitOnce ==
  ASSUME NEW db, NEW b, NEW x, NEW s, NEW sw, NEW rd, Once(db, b, x, s, sw, rd),
         NEW p, NewExit(db, b, s, rd, p), NEW d, NEW K, NEW b2, NodeAdded(b, p, d, K, b2)
  PROVE  Once(db, b2, x, s, sw, rd)
<1>1. \A w : Due(b2, x, w) => Due(b, x, w)
  BY DEF NodeAdded, Due
<1>2. PortsOnce(db, b2, x, s, sw, rd)
  <2>1. PortsOnce(db, b, x, s, sw, rd)
    BY DEF Once
  <2>2. DueOnce(b2, x)
    <3>1. DueOnce(b, x)
      BY <2>1 DEF PortsOnce
    <3> QED
      BY <3>1 DEF DueOnce, NodeAdded
  <2> QED
    BY <1>1, <2>1, <2>2 DEF PortsOnce, DueUnread
<1>3. ExitsOnce(b2)
  <2>1. ExitsOnce(b)
    BY DEF Once, ExitsRight
  <2> SUFFICES ASSUME NEW q, NEW e, NEW f, NEW k, NEW l, InNodes(b2, e, k, q), InNodes(b2, f, l, q)
               PROVE  e = f /\ k = l
    BY DEF ExitsOnce
  <2>2. /\ InNodes(b, e, k, q) \/ (e = d /\ k = K /\ q = p)
        /\ InNodes(b, f, l, q) \/ (f = d /\ l = K /\ q = p)
    BY DEF NodeAdded
  <2>3. \A g, i : ~InNodes(b, g, i, p)
    BY DEF NewExit
  <2> QED
    BY <2>1, <2>2, <2>3 DEF ExitsOnce
<1>4. ExitsAhead(db, b2, s, rd)
  <2>1. ExitsAhead(db, b, s, rd)
    BY DEF Once, ExitsRight
  <2> QED
    BY <2>1 DEF ExitsAhead, NodeAdded, NewExit
<1>5. LocalFirst(db, b2, x, s)
  <2>1. LocalFirst(db, b, x, s)
    BY DEF Once, ExitsRight
  <2> QED
    BY <1>1, <2>1 DEF LocalFirst, NodeAdded, NewExit
<1> QED
  BY <1>2, <1>3, <1>4, <1>5 DEF Once, ExitsRight

(* A place and its port stand for each other.                              *)
LEMMA PlacePort ==
  ASSUME NEW w \in Place
  PROVE  Place1(w) \in PortObj /\ PlaceOf(Place1(w)) = w /\ \A v \in Place : Place1(w) = Place1(v) => w = v
<1>1. \A v \in Place : v = <<v[1], v[2]>> /\ v[1] \in Device /\ v[2] \in 0..MaxPort
  BY PlaceFacts
<1>2. \A v \in Place : PlaceOf(Place1(v)) = v
  BY <1>1 DEF PlaceOf, Place1
<1>3. Place1(w) \in PortObj
  <2>1. <<w[1], 1>> \in NodeObj
    BY <1>1, FirstNode
  <2>2. w[2] \in 0..Loose
    BY <1>1, Ports DEF Loose
  <2> QED
    BY <2>1, <2>2 DEF PortObj, Place1
<1> QED
  BY <1>2, <1>3

(* The two ends of a cable are known together.                             *)
LEMMA BothEnds ==
  ASSUME NEW db, TopoTrue(db, {}), NEW w \in DOMAIN Link
  PROVE  /\ w \in Place /\ Link[w] \in Place /\ Link[w] # w /\ Link[Link[w]] = w /\ Link[w] \in DOMAIN Link
         /\ db.topology[Place1(w)] # None <=> db.topology[Place1(Link[w])] # None
<1>1. w \in Place /\ Link[w] \in DOMAIN Link /\ Link[w] \in Place /\ Link[w] # w /\ Link[Link[w]] = w
  BY FabricAssumption DEF FabricAssumption
<1>2. \A u \in DOMAIN Link : u \in Place /\ Place1(u) \in PortObj /\ Place1(u) # None /\ PlaceOf(Place1(u)) = u
  BY PlacePort, FixedNone, FabricAssumption DEF FabricAssumption
<1>3. \A u \in DOMAIN Link : db.topology[Place1(u)] # None =>
        db.topology[Place1(u)] = Place1(Link[u]) /\ db.topology[Place1(Link[u])] = Place1(u)
  BY <1>2 DEF TopoTrue
<1> QED
  BY <1>1, <1>2, <1>3

(* A port that was read and not linked has no exit under way yet.          *)
LEMMA AnsweredExit ==
  ASSUME NEW db, TopoTrue(db, {}), NEW b, NEW x, NEW s, NEW sw, NEW rd, Once(db, b, x, s, sw, rd),
         NoFirst(s), NEW j \in s, j.what = "port", NEW w, w = AskPlace(db, j),
         w \in DOMAIN Link, NEW p, p = Place1(w), db.topology[p] = None
  PROVE  NewExit(db, b, s \ {j}, rd, p)
<1> PICK s2 : s2 = s \ {j}
  OBVIOUS
<1>1. /\ w \in Place /\ Link[w] \in Place /\ Link[w] # w /\ Link[Link[w]] = w /\ Link[w] \in DOMAIN Link
      /\ db.topology[Place1(Link[w])] = None
  BY BothEnds
<1>2. p \in PortObj /\ PlaceOf(p) = w /\ p[1][1] = w[1]
  BY <1>1, PlacePort DEF Place1
<1>3. rd[w] = 1
  BY DEF Once, PortsOnce, AskedRead
<1>4. Opened(db, sw, w)
  BY <1>1, <1>3 DEF Once, PortsOnce, ReadOpened
<1>5. w = Local \/ IsSwitch(w[1])
  BY <1>1, <1>4 DEF Opened
<1>6. ~IsSwitch(Local[1]) /\ db.topology[Place1(Local)] = None => w = Local
  BY DEF Once, ExitsRight, LocalFirst
<1>7. Link[w] # Local \/ IsSwitch(Local[1])
  BY <1>1, <1>6
<1>8. \A k \in s2 : k.what = "port" => AskPlace(db, k) # w
  BY DEF Once, PortsOnce, AskedOnce
<1>9. Exit(db, s2, rd, p)
  BY <1>2, <1>3, <1>5, <1>7, <1>8 DEF Exit
<1>10. \A q : Exit(db, s, rd, q) => q # p
  BY <1>2 DEF Exit
<1>11. \A k \in s2 : k.what = "node" => k.path # p
  BY <1>10 DEF Once, ExitsRight, Crossing, Crosses, NoFirst
<1>12. \A d, k : ~InNodes(b, d, k, p)
  BY <1>10 DEF Once, ExitsRight, ExitsAhead
<1> QED
  BY <1>6, <1>9, <1>11, <1>12 DEF NewExit

Appended(s, y, r) ==
  \A k \in DOMAIN r : (k \in DOMAIN s /\ r[k] = s[k]) \/ (k = Len(s) + 1 /\ r[k] = y)
(* Appending adds one element at the end.                                  *)
LEMMA AppendedIs ==
  ASSUME NEW S, NEW s \in Seq(S), NEW y \in S
  PROVE  Appended(s, y, s \o <<y>>)
<1> PICK r : r = s \o <<y>>
  OBVIOUS
<1>1. Appended(s, y, r)
  BY AppendElements DEF Appended
<1> QED
  BY <1>1

(* What is queued by a reply.                                              *)
LEMMA FilledNodes ==
  ASSUME Shapes, NEW db, \A e \in Depth : BucketRight(db, todo[e]), NEW d \in Depth,
         NEW x \in NodeItems(db), NEW b, b = Filled(d, <<x>>, <<>>)
  PROVE  NodeAdded(todo, x.aport, d, Len(todo[d].nodes) + 1, b)
<1> PICK s : s = todo[d].nodes
  OBVIOUS
<1> PICK r : r = s \o <<x>>
  OBVIOUS
<1>1. /\ b[d].nodes = s \o <<x>> /\ b[d].ports = todo[d].ports \o <<>>
      /\ \A e \in Depth : e # d => b[e] = todo[e]
  BY DEF Filled, Shapes
<1>2. s \in Seq(NodeItems(db)) /\ todo[d].ports \in Seq(PortItems(db))
  BY DEF BucketRight
<1>3. \A k \in DOMAIN r : (k \in DOMAIN s /\ r[k] = s[k]) \/ (k = Len(s) + 1 /\ r[k] = x)
  BY <1>2, AppendedIs DEF Appended
<1>4. b[d].ports = todo[d].ports
  BY <1>1, <1>2, ConcatNothing
<1>5. b[d].nodes = r
  BY <1>1
<1>6. ASSUME NEW e, NEW k, NEW q, InNodes(b, e, k, q)
      PROVE  InNodes(todo, e, k, q) \/ (e = d /\ k = Len(s) + 1 /\ q = x.aport)
  <2>1. e \in Depth /\ k \in DOMAIN b[e].nodes /\ q = b[e].nodes[k].aport
    BY <1>6 DEF InNodes
  <2>2. CASE e # d
    BY <1>1, <2>1, <2>2 DEF InNodes
  <2>3. CASE e = d
    <3>1. k \in DOMAIN r /\ q = r[k].aport
      BY <1>5, <2>1, <2>3
    <3>2. (k \in DOMAIN s /\ q = s[k].aport) \/ (k = Len(s) + 1 /\ q = x.aport)
      BY <1>3, <3>1
    <3> QED
      BY <2>1, <2>3, <3>2 DEF InNodes
  <2> QED
    BY <2>2, <2>3
<1>7. \A e, k, w : InBucket(b, e, k, w) => InBucket(todo, e, k, w)
  BY <1>1, <1>4 DEF InBucket
<1> QED
  BY <1>6, <1>7 DEF NodeAdded

(* A generator that is started has no ports yet.                           *)
LEMMA StartedTurns ==
  ASSUME Shapes, NEW d, NEW fills, Started(d, fills)
  PROVE  \A e, k, w : InTurn(ctx', e, k, w) => InTurn(ctx, e, k, w)
<1>1. \A c \in Ctx : ctx'[c] = ctx[c] \/ ctx'[c].pc = "check"
  BY DEF Started, NoCtx, Shapes
<1> QED
  BY <1>1 DEF InTurn

(* The first NodeInfo is alone in flight.                                  *)
LEMMA NoFirstNow ==
  ASSUME SmpInv, OnceInv, Scanning, NEW j \in jobs, j # StartJob
  PROVE  NoFirst(jobs) /\ TopoItems \subseteq sbn.loaded
<1>1. TopoItems \subseteq sbn.loaded
  BY DEF SmpInv, NotYet
<1>2. First(sbn, jobs, switches)
  BY OnceNow DEF Once, ExitsRight
<1> QED
  BY <1>1, <1>2 DEF First, NoFirst

(* Ports that are learned leave a topology of cables one.                  *)
LEMMA TopoTrueGrows ==
  ASSUME NEW db, TopoTrue(db, {}), NEW r, Grown(db, r), r.topology = db.topology
  PROVE  TopoTrue(r, {})
BY DEF TopoTrue, Grown

(* do_port keeps the order: a port read, and its exit queued.              *)
LEMMA PortAnswers ==
  ASSUME NEW db, TopoTrue(db, {}), NEW b, NEW x, NEW s, NEW sw, NEW rd, Once(db, b, x, s, sw, rd),
         JobsRight(db, s), NoFirst(s), NEW j \in s, j.what = "port", NEW w, w = AskPlace(db, j),
         NEW r, Steadily(db, r, s), NEW x2, \A e, k, u : InTurn(x2, e, k, u) => InTurn(x, e, k, u),
         NEW b2, b2 = b \/ (/\ w \in DOMAIN Link /\ r.topology[Place1(w)] = None
                            /\ \E d, K : NodeAdded(b, Place1(w), d, K, b2))
  PROVE  TopoTrue(r, {}) /\ Once(r, b2, x2, s \ {j}, sw, rd)
<1>1. TopoTrue(r, {})
  BY TopoTrueGrows DEF Steadily
<1>2. Once(r, b, x, s, sw, rd)
  BY Steady
<1>3. Once(r, b, x2, s \ {j}, sw, rd)
  <2>1. Fewer(b, x, s, b, x2, s \ {j})
    BY DEF Fewer
  <2> QED
    BY <1>2, <2>1, FewerOnce
<1>4. CASE b2 = b
  BY <1>1, <1>3, <1>4
<1>5. ASSUME w \in DOMAIN Link, r.topology[Place1(w)] = None, NEW d, NEW K, NodeAdded(b, Place1(w), d, K, b2)
      PROVE  Once(r, b2, x2, s \ {j}, sw, rd)
  <2>1. AskPlace(r, j) = w
    BY AskPlaceStays DEF Steadily, JobsRight
  <2>2. NewExit(r, b, s \ {j}, rd, Place1(w))
    BY <1>1, <1>2, <1>5, <2>1, AnsweredExit
  <2> QED
    BY <1>3, <1>5, <2>2, ExitOnce
<1> QED
  BY <1>1, <1>4, <1>5

(* A PortInfo arrives in a scan.                                           *)
LEMMA PortReplyOnce ==
  ASSUME SmpInv, OnceInv, Shapes, Scanning, NEW j \in jobs, Reply(j), j.what # "node", j.depth \in Depth
  PROVE  OnceInv'
<1> PICK db : db = sbn
  OBVIOUS
<1> PICK h : h = j.path
  OBVIOUS
<1> PICK v : v = LeadsTo(db.path[h])
  OBVIOUS
<1> PICK w : w = <<v[1], j.idx>>
  OBVIOUS
<1> PICK np : np = get_port_pinf(db, w, w[2], PinfLid(w), Over(w, h))
  OBVIOUS
<1> PICK item : item = [aport |-> np.port, path |-> h, idx |-> j.idx]
  OBVIOUS
<1> PICK r : r = sbn'
  OBVIOUS
<1>1. /\ UNCHANGED reads /\ jobs' = jobs \ {j}
      /\ PortFound(j, w, Rerouted(np.db, j, PinfLid(w)), np.port)
  BY ZenonT(30) DEF Reply, DoPort, PortReply, PortStored, Over
<1>2. /\ r = Rerouted(np.db, j, PinfLid(w)) /\ UNCHANGED switches
      /\ \/ todo' = todo
         \/ /\ todo' = Filled(j.depth + 1, <<item>>, <<>>) /\ InBounds(j.depth + 1)
            /\ Unexplored(r, w, np.port)
      /\ \E fills : Started(j.depth + 1, fills)
  BY <1>1, ZenonT(30) DEF PortFound
<1>3. ScanDb(db) /\ EpReached(db) /\ JobsRight(db, jobs) /\ JobRight(db, j)
  BY JobsNow DEF JobsRight
<1>4. j.what = "port" /\ Reached(db, h) /\ j.idx \in Askable(db, h) /\ w[1] = v[1] /\ w[2] = j.idx /\ w[2] \in 0..MaxPort
  BY <1>3 DEF JobRight, PortJob, Askable
<1>5. ToEndPlace(w) = ToEndPlace(v) /\ Parent(db.path[h].ep)[1] = v[1]
  <2>1. v \in Spot /\ db.path[h].ep = Place1(ToEndPlace(v))
    BY <1>3, <1>4, ReachedFacts
  <2>2. v = <<v[1], v[2]>> /\ ToEndPlace(v)[1] = v[1] /\ (~IsSwitch(v[1]) => ToEndPlace(v) = v)
    BY <2>1, SpotFacts
  <2>3. Parent(db.path[h].ep)[1] = v[1] /\ db.path[h].ep[2] = ToEndPlace(v)[2]
    BY <2>1, <2>2 DEF Place1, Parent
  <2>4. CASE IsSwitch(v[1])
    BY <1>4, <2>3, <2>4 DEF ToEndPlace
  <2>5. CASE ~IsSwitch(v[1])
    <3>1. j.idx = v[2]
      BY <1>4, <2>2, <2>3, <2>5 DEF Askable
    <3> QED
      BY <2>2, <2>3, <3>1
  <2> QED
    BY <2>4, <2>5
<1>6. w = AskPlace(db, j)
  BY <1>5 DEF AskPlace
<1>7. TopoTrue(db, {}) /\ Once(db, todo, ctx, jobs, switches, reads)
  BY OnceNow
<1>8. NoFirst(jobs)
  <2>1. j # StartJob
    BY DEF StartJob
  <2> QED
    BY <2>1, NoFirstNow
<1>9. Steadily(db, r, jobs) /\ InfoStored(db, j, w, np, r)
  <2>1. /\ ScanDb(db) /\ EpReached(db) /\ Reached(db, j.path) /\ v = LeadsTo(db.path[j.path])
        /\ w[1] = v[1] /\ w[2] \in 0..MaxPort /\ ToEndPlace(w) = ToEndPlace(v)
        /\ np = get_port_pinf(db, w, w[2], PinfLid(w), Over(w, j.path)) /\ r = Rerouted(np.db, j, PinfLid(w))
    BY <1>2, <1>3, <1>4, <1>5, ZenonT(30)
  <2>2. InfoStored(db, j, w, np, r)
    BY <2>1, PortStores, ZenonT(120)
  <2>3. Steadily(db, r, jobs)
    BY <1>3, <1>7, <1>8, <2>1, PortStoredSteady, ZenonT(30)
  <2> QED
    BY <2>2, <2>3
<1>10. np.port = Place1(w) /\ np.port \in PortObj /\ Grown(db, r) /\ ScanDb(r) /\ r.path[h].ep = Place1(ToEndPlace(w))
  BY <1>9 DEF InfoStored, ScanOn
<1>11. \A e, k, u : InTurn(ctx', e, k, u) => InTurn(ctx, e, k, u)
  BY <1>2, StartedTurns, ZenonT(120)
<1>12. \/ todo' = todo
       \/ /\ w \in DOMAIN Link /\ r.topology[Place1(w)] = None
          /\ \E d, K : NodeAdded(todo, Place1(w), d, K, todo')
  <2> SUFFICES ASSUME todo' = Filled(j.depth + 1, <<item>>, <<>>), InBounds(j.depth + 1), Unexplored(r, w, np.port)
               PROVE  /\ w \in DOMAIN Link /\ r.topology[Place1(w)] = None
                      /\ \E d, K : NodeAdded(todo, Place1(w), d, K, todo')
    BY <1>2, ZenonT(30)
  <2>1. item \in NodeItems(r)
    <3>1. Reached(r, h) /\ h \in PathObj
      BY <1>4, <1>10, ZenonT(30) DEF Grown, Reached, Held
    <3>2. Parent(r.path[h].ep) = <<w[1], 1>>
      <4>1. \A e : Parent(Place1(e)) = <<e[1], 1>>
        BY ONLY DEF Place1, Parent
      <4>2. ToEndPlace(w)[1] = w[1]
        BY ONLY DEF ToEndPlace
      <4>3. Parent(Place1(ToEndPlace(w))) = <<w[1], 1>>
        BY ONLY <4>1, <4>2
      <4> QED
        BY ONLY <1>10, <4>3
    <3>3. np.port = <<Parent(r.path[h].ep), j.idx>>
      BY <1>4, <1>10, <3>2, ZenonT(120) DEF Place1
    <3>4. item \in [aport : PortObj, path : PathObj, idx : 0..MaxPort]
      BY <1>4, <1>10, <3>1, ZenonT(30)
    <3> QED
      BY <3>1, <3>3, <3>4, ZenonT(30) DEF NodeItems
  <2>2. \A e \in Depth : BucketRight(r, todo[e])
    BY <1>10, BucketsNow, ZenonT(30)
  <2>3. j.depth + 1 \in Depth
    BY DiscoveryAssumption DEF InBounds, Depth, DiscoveryAssumption
  <2>4. NodeAdded(todo, item.aport, j.depth + 1, Len(todo[j.depth + 1].nodes) + 1, todo')
    BY <2>1, <2>2, <2>3, FilledNodes, ZenonT(30)
  <2> QED
    BY <1>10, <2>4, ZenonT(30) DEF Unexplored
<1>13. TopoTrue(r, {}) /\ Once(r, todo', ctx', jobs \ {j}, switches, reads)
  BY <1>3, <1>4, <1>6, <1>7, <1>8, <1>9, <1>11, <1>12, PortAnswers
<1> QED
  BY <1>1, <1>2, <1>13, OnceStep, ZenonT(30)

-----------------------------------------------------------------------------
(* A NodeInfo arrives: the cable it came over is noted.                    *)
OverCable(db, j, w) == j.peer # None => Exists(db, j.peer) /\ w \in DOMAIN Link /\ PlaceOf(j.peer) = Link[w]
TopoNoted(db, j, w, r) ==
  /\ TopoTrue(r, {})
  /\ j.peer = None => r.topology = db.topology
  /\ j.peer # None => \A q \in PortObj : r.topology[q] = IF q = j.peer THEN Place1(w)
                                                         ELSE IF q = Place1(w) THEN j.peer ELSE db.topology[q]

LEMMA PortIsFirst ==
  ASSUME NEW db, ScanDb(db), NEW p, Exists(db, p)
  PROVE  p = Place1(PlaceOf(p)) /\ Parent(p) = <<PlaceOf(p)[1], 1>> /\ p \in PortObj
<1>1. p \in PortObj /\ Parent(p) \in NodeObj /\ db.class[Parent(p)] # None
  BY DEF Exists, PortObj, Parent
<1>2. Parent(p)[2] = 1
  BY <1>1 DEF ScanDb, DbInv, NodesRight
<1>3. Parent(p) = <<Parent(p)[1], 1>>
  BY <1>1, <1>2 DEF NodeObj
<1>4. p = <<Parent(p), p[2]>>
  BY <1>1 DEF PortObj, Parent
<1> QED
  BY <1>1, <1>3, <1>4 DEF Place1, PlaceOf, Parent

(* do_node links the ports of the cable it came over.                      *)
LEMMA TopoLinkedTrue ==
  ASSUME NEW db, ScanDb(db), TopoTrue(db, {}), NEW j, NEW w, OverCable(db, j, w), Exists(db, Place1(w)),
         NEW t, t = TopoLinked(db, j, Place1(w))
  PROVE  TopoNoted(db, j, w, t) /\ t.class = db.class
<1>1. CASE j.peer = None
  <2>1. t = db
    BY <1>1 DEF TopoLinked
  <2> QED
    BY <1>1, <2>1 DEF TopoNoted
<1>2. CASE j.peer # None
  <2> PICK q : q = j.peer
    OBVIOUS
  <2> PICK v : v = Link[w]
    OBVIOUS
  <2> PICK f : f = Place1(w)
    OBVIOUS
  <2>1. t = LinkPorts(db, f, q) /\ Exists(db, q) /\ w \in DOMAIN Link /\ PlaceOf(q) = v
    BY <1>2 DEF TopoLinked, OverCable
  <2>2. q = Place1(v) /\ Parent(q) = <<v[1], 1>> /\ Parent(f) = <<w[1], 1>>
    BY <2>1, PortIsFirst DEF Place1, Parent
  <2>3. DbInv(db, {})
    BY DEF ScanDb
  <2>4. /\ TopoTrue(t, {}) /\ SameIndexes(db, t)
        /\ \A p \in PortObj : t.topology[p] = IF p = q THEN f ELSE IF p = f THEN q ELSE db.topology[p]
    BY <2>1, <2>2, <2>3, LinkPortsTrue
  <2> QED
    BY <1>2, <2>4 DEF TopoNoted, SameIndexes
<1> QED
  BY <1>1, <1>2

(* It does so also when it notes the first reply.                          *)
LEMMA LinksTrue ==
  ASSUME NEW db, ScanDb(db), TopoTrue(db, {}), NEW j, NEW w, OverCable(db, j, w), Exists(db, Place1(w)),
         NEW r, r = Noted(TopoLinked(db, j, Place1(w)), j)
  PROVE  TopoNoted(db, j, w, r)
<1> PICK t : t = TopoLinked(db, j, Place1(w))
  OBVIOUS
<1>1. TopoNoted(db, j, w, t) /\ t.class = db.class
  BY TopoLinkedTrue
<1>2. ScanDb(t)
  <2>1. CASE j.peer = None
    BY <2>1 DEF TopoLinked
  <2>2. CASE j.peer # None
    <3>1. t = LinkPorts(db, Place1(w), j.peer) /\ Exists(db, j.peer)
      BY <2>2 DEF TopoLinked, OverCable
    <3> QED
      BY <3>1, LinkedScan DEF Later
  <2> QED
    BY <2>1, <2>2
<1>3. Later(t, r) /\ r.topology = t.topology
  BY <1>2, NotedKeeps
<1>4. TopoTrue(r, {})
  BY <1>1, <1>3, TopoTrueStays DEF TopoNoted, Later
<1> QED
  BY <1>1, <1>3, <1>4 DEF TopoNoted

(* What do_node leaves of the topology are cables.                         *)
LEMMA NodeDoneTrue ==
  ASSUME NEW db, ScanDb(db), TopoTrue(db, {}), NEW w \in Spot, NEW n, n = <<w[1], 1>>, db.class[n] # None,
         NEW port, Exists(db, port), port = Place1(ToEndPlace(w)), IsSwitchNode(db, n) <=> IsSwitch(w[1]),
         NEW j, OverCable(db, j, w), NEW r, r = NodeDone(db, n, port, j, w[2])
  PROVE  TopoNoted(db, j, w, r)
<1>1. w = <<w[1], w[2]>> /\ w[1] \in Device /\ w[2] \in 0..MaxPort /\ (~IsSwitch(w[1]) => ToEndPlace(w) = w)
  BY SpotFacts
<1>2. n \in NodeObj /\ <<n, w[2]>> = Place1(w)
  BY <1>1, FirstNode DEF Place1
<1>3. CASE ~IsSwitchNode(db, n)
  <2>1. r = Noted(TopoLinked(db, j, port), j) /\ port = Place1(w)
    BY <1>1, <1>3 DEF NodeDone
  <2> QED
    BY <2>1, LinksTrue
<1>4. CASE IsSwitchNode(db, n)
  <2> PICK d : d = WithPort(db, n, w[2])
    OBVIOUS
  <2>1. /\ Later(db, d) /\ d.topology = db.topology /\ Exists(d, Place1(w))
        /\ PortAt(db, n, w[2]) = Place1(w)
    BY <1>1, <1>2, WithPortScan
  <2>2. r = Noted(TopoLinked(d, j, Place1(w)), j)
    BY <1>4, <2>1 DEF NodeDone
  <2>3. ScanDb(d) /\ TopoTrue(d, {}) /\ OverCable(d, j, w)
    BY <2>1, TopoTrueStays DEF Later, Grown, OverCable
  <2>4. TopoNoted(d, j, w, r)
    BY <2>1, <2>2, <2>3, LinksTrue
  <2> QED
    BY <2>1, <2>4 DEF TopoNoted
<1> QED
  BY <1>3, <1>4

(* What it leaves of the database.                                         *)
NodeMoved(db, j, w, r) ==
  /\ NodeStored(db, j, w, r) /\ TopoNoted(db, j, w, r)
  /\ \A g : Reached(r, g) => g = j.path \/ Reached(db, g)
  /\ \A g \in PathObj : Held(db, g) => r.path[g].dlid = db.path[g].dlid /\ r.path[g].hops = db.path[g].hops

LEMMA NodeMoves ==
  ASSUME NEW db, ScanDb(db), EpReached(db), TopoTrue(db, {}), NEW j, NodeJob(db, j),
         NEW w, w = LeadsTo(db.path[j.path]), w # None, OverCable(db, j, w),
         NEW np, np = get_node_ninf(db, w, Over(w, j.path)),
         NEW r, r = NodeDone(np.db, np.node, np.port, j, w[2])
  PROVE  NodeMoved(db, j, w, r)
<1> PICK h : h = j.path
  OBVIOUS
<1> PICK a : a = Over(w, h)
  OBVIOUS
<1>1. Held(db, h) /\ NodeGot(db, h, w, np)
  <2>1. Held(db, h)
    BY DEF NodeJob
  <2> QED
    BY <2>1, NodeArrives
<1>2. /\ NodeStored(db, j, w, r) /\ np.node = <<w[1], 1>> /\ w \in Spot
      /\ (IsSwitchNode(np.db, np.node) <=> IsSwitch(w[1]))
  BY NodeStores
<1> PICK s : s = np.db
  OBVIOUS
<1> PICK n : n = np.node
  OBVIOUS
<1> PICK p : p = np.port
  BY SMTT(30)
<1>3. PathGot(db, h, ToEndPlace(w), s) /\ n = <<w[1], 1>> /\ s.class[n] # None /\ p = Place1(ToEndPlace(w)) /\ n \in NodeObj
  BY <1>1, ZenonT(30) DEF NodeGot
<1>4. ScanDb(s) /\ Grown(db, s) /\ s.topology = db.topology /\ Exists(s, p)
  <2>1. ScanDb(s) /\ Grown(db, s) /\ Reached(s, h) /\ s.path[h].ep = p /\ s.topology = db.topology
    BY <1>3, ZenonT(30) DEF PathGot
  <2>2. Exists(s, p)
    BY <2>1, ZenonT(30) DEF ScanDb, PathsRight, PathRight, Reached, Held
  <2> QED
    BY <2>1, <2>2, ZenonT(30)
<1>5. TopoTrue(s, {}) /\ OverCable(s, j, w)
  BY <1>4, TopoTrueGrows, ZenonT(120) DEF Grown, OverCable
<1>6. r = NodeDone(s, n, p, j, w[2])
  BY SMTT(30)
<1>7. TopoNoted(s, j, w, r)
  BY <1>2, <1>3, <1>4, <1>5, <1>6, NodeDoneTrue, ZenonT(120)
<1>8. TopoNoted(db, j, w, r)
  BY <1>4, <1>7, ZenonT(120) DEF TopoNoted
<1>9. r.path = s.path
  <2>1. j.peer # None => Exists(s, j.peer)
    BY <1>5 DEF OverCable
  <2>2. w[2] \in 0..MaxPort
    BY <1>2, SpotFacts, ZenonT(30)
  <2>3. Noticed(s, j, r)
    BY <1>3, <1>4, <1>6, <2>1, <2>2, NodeDoneLater, ZenonT(120)
  <2> QED
    BY <2>3, ZenonT(30) DEF Noticed, Later
<1>10. \A g : Reached(r, g) => g = h \/ Reached(db, g)
  <2>1. \A g : Reached(s, g) => g = h \/ Reached(db, g)
    BY <1>3, Zenon DEF PathGot
  <2>2. \A g : Reached(r, g) => Reached(s, g)
    BY <1>9, Zenon DEF Reached, Held
  <2> QED
    BY <2>1, <2>2, ZenonT(30)
<1>11. \A g \in PathObj : Held(db, g) => r.path[g].dlid = db.path[g].dlid /\ r.path[g].hops = db.path[g].hops
  BY <1>3, <1>9, ZenonT(120) DEF PathGot
<1> QED
  BY <1>2, <1>8, <1>10, <1>11, ZenonT(30) DEF NodeMoved

-----------------------------------------------------------------------------
(* A NodeInfo that came over a cable leaves the rest of the scan right.    *)
Linked1(db, p, w, r) ==
  /\ Grown(db, r) /\ r.loaded = db.loaded
  /\ \A q \in PortObj : r.topology[q] = IF q = p THEN Place1(w) ELSE IF q = Place1(w) THEN p ELSE db.topology[q]
  /\ \A g : Reached(r, g) => g = p \/ Reached(db, g)
  /\ r.path[p].ep = Place1(ToEndPlace(w))
  /\ \A g \in PathObj : Held(db, g) => r.path[g].dlid = db.path[g].dlid /\ r.path[g].hops = db.path[g].hops

LEMMA OpenedGrows ==
  ASSUME NEW db, NEW r, Grown(db, r), db.loaded \subseteq r.loaded, NEW sw, NEW sw2, sw \subseteq sw2,
         NEW u, Opened(db, sw, u)
  PROVE  Opened(r, sw2, u)
<1>1. CASE IsSwitch(u[1])
  BY <1>1 DEF Opened
<1>2. CASE ~IsSwitch(u[1])
  <2>1. CASE u = Local /\ TopoItems \subseteq db.loaded
    BY <1>2, <2>1 DEF Opened
  <2>2. CASE u \in DOMAIN Link /\ db.topology[Place1(Link[u])] # None
    <3>1. Link[u] \in Place
      BY <2>2, FabricAssumption DEF FabricAssumption
    <3>2. Place1(Link[u]) \in PortObj
      BY <3>1, PlacePort
    <3> QED
      BY <1>2, <2>2, <3>2 DEF Opened, Grown
  <2> QED
    BY <1>2, <2>1, <2>2 DEF Opened
<1> QED
  BY <1>1, <1>2

(* A port due stays due while more is found.                               *)
LEMMA PortsGrow ==
  ASSUME NEW db, NEW b, NEW x, NEW s, NEW sw, NEW rd, PortsOnce(db, b, x, s, sw, rd), JobsRight(db, s),
         NEW r, Grown(db, r), db.loaded \subseteq r.loaded, NEW sw2, sw \subseteq sw2
  PROVE  PortsOnce(r, b, x, s, sw2, rd)
<1>1. \A j \in s : j.what = "port" => AskPlace(r, j) = AskPlace(db, j)
  BY AskPlaceStays DEF JobsRight
<1>2. \A w : Opened(db, sw, w) => Opened(r, sw2, w)
  BY OpenedGrows
<1>3. DueUnread(r, b, x, sw2, rd)
  BY <1>2 DEF PortsOnce, DueUnread
<1>4. AskedOnce(r, s) /\ AskedRead(r, s, rd)
  BY <1>1 DEF PortsOnce, AskedOnce, AskedRead
<1>5. ReadOpened(r, sw2, rd)
  BY <1>2 DEF PortsOnce, ReadOpened
<1> QED
  BY <1>3, <1>4, <1>5 DEF PortsOnce

(* A new link touches no other port's exit.                                *)
LEMMA OtherExit ==
  ASSUME NEW db, NEW s, NEW rd, NEW p, Exit(db, s, rd, p), JobsRight(db, s), NEW w, w = Link[PlaceOf(p)],
         NEW r, Linked1(db, p, w, r), NEW q \in PortObj, q # p, Exit(db, s, rd, q)
  PROVE  Exit(r, s, rd, q)
<1> PICK v : v = PlaceOf(p)
  OBVIOUS
<1> PICK u : u = PlaceOf(q)
  OBVIOUS
<1>1. v \in DOMAIN Link /\ w = Link[v] /\ Link[w] = v /\ (v = Local \/ IsSwitch(v[1]))
  BY FabricAssumption DEF FabricAssumption, Exit, PlaceOf
<1>2. /\ u \in DOMAIN Link /\ rd[u] = 1 /\ (db.topology[q] = None \/ IsSwitch(Link[u][1]))
      /\ (Link[u] # Local \/ IsSwitch(Local[1])) /\ (u = Local \/ IsSwitch(q[1][1]))
  BY DEF Exit
<1>3. \A j \in s : j.what = "port" => AskPlace(r, j) # u
  <2>1. \A j \in s : j.what = "port" => AskPlace(r, j) = AskPlace(db, j)
    BY AskPlaceStays DEF JobsRight, Linked1
  <2> QED
    BY <2>1 DEF Exit
<1>4. r.topology[q] = None \/ IsSwitch(Link[u][1])
  <2> SUFFICES ASSUME r.topology[q] # None, ~IsSwitch(Link[u][1])
               PROVE  FALSE
    OBVIOUS
  <2>1. q = Place1(w)
    BY <1>2 DEF Linked1
  <2>2. u = w
    <3>1. w \in Place
      BY <1>1, FabricAssumption DEF FabricAssumption
    <3> QED
      BY <2>1, <3>1, PlacePort
  <2>3. Link[u] = v
    BY <1>1, <2>2
  <2> QED
    BY <1>1, <1>2, <2>3
<1> QED
  BY <1>2, <1>3, <1>4 DEF Exit

(* do_node has linked the ports: their exit is used up.                    *)
LEMMA NodeLinked ==
  ASSUME NEW db, NEW b, NEW x, NEW s, NEW sw, NEW rd, Once(db, b, x, s, sw, rd), JobsRight(db, s), NoFirst(s),
         TopoItems \subseteq db.loaded, \A q, d, k : InNodes(b, d, k, q) => q \in PortObj,
         NEW p \in PortObj, NewExit(db, b, s, rd, p), NEW w, w = Link[PlaceOf(p)],
         NEW r, Linked1(db, p, w, r), NEW sw2, sw \subseteq sw2
  PROVE  Once(r, b, x, s, sw2, rd)
<1>1. PortsOnce(r, b, x, s, sw2, rd)
  BY PortsGrow DEF Once, Linked1
<1>2. ExitsOnce(b)
  BY DEF Once, ExitsRight
<1>3. \A q \in PortObj : q # p /\ Exit(db, s, rd, q) => Exit(r, s, rd, q)
  BY OtherExit DEF NewExit
<1>4. ExitsAhead(r, b, s, rd)
  <2>1. ExitsAhead(db, b, s, rd)
    BY DEF Once, ExitsRight
  <2> QED
    BY <1>3, <2>1 DEF ExitsAhead, NewExit
<1>5. Crossing(r, s, rd)
  <2>1. Crossing(db, s, rd)
    BY DEF Once, ExitsRight
  <2>2. ASSUME NEW j \in s, j.what = "node", j.by # None
        PROVE  Crosses(r, s, rd, j)
    <3> PICK g : g = j.path
      OBVIOUS
    <3>1. Exit(db, s, rd, g) /\ ~Reached(db, g) /\ LeadsTo(db.path[g]) = Link[PlaceOf(g)]
      BY <2>1, <2>2 DEF Crossing, Crosses
    <3>2. g # p
      BY <2>2 DEF NewExit
    <3>3. NodeJob(db, j)
      BY <2>2 DEF JobsRight, JobRight
    <3>4. Held(db, g) /\ g \in PortObj /\ g \in PathObj
      BY <2>2, <3>3 DEF NodeJob, Held, Exists
    <3>5. LeadsTo(r.path[g]) = LeadsTo(db.path[g])
      BY <3>4, SameWay DEF Linked1
    <3>6. ~Reached(r, g)
      BY <3>1, <3>2 DEF Linked1
    <3> QED
      BY <1>3, <3>1, <3>2, <3>4, <3>5, <3>6 DEF Crosses
  <2> QED
    BY <2>1, <2>2 DEF Crossing
<1>6. First(r, s, sw2)
  BY DEF First, NoFirst, Linked1
<1>7. LocalFirst(r, b, x, s)
  <2>1. Local \in Place
    BY FabricAssumption DEF FabricAssumption, EndPlace
  <2>2. Place1(Local) \in PortObj
    BY <2>1, PlacePort
  <2>3. Place1(w) # None
    <3>1. w \in Place
      BY FabricAssumption DEF FabricAssumption, NewExit, Exit
    <3> QED
      BY <3>1, PlacePort, FixedNone
  <2>4. db.topology[Place1(Local)] # None => r.topology[Place1(Local)] # None
    BY <2>2 DEF Linked1, Grown
  <2>5. ~IsSwitch(Local[1]) => r.topology[Place1(Local)] # None
    BY <2>2, <2>3, <2>4 DEF NewExit, Linked1
  <2> QED
    BY <2>5 DEF LocalFirst
<1>8. Ways(r)
  <2>1. Ways(db)
    BY DEF Once
  <2>2. ASSUME NEW h \in PortObj, Reached(r, h)
        PROVE  PlaceOf(h) \in DOMAIN Link /\ r.path[h].ep = Place1(ToEndPlace(Link[PlaceOf(h)]))
    <3>1. CASE h = p
      BY <3>1 DEF NewExit, Exit, Linked1
    <3>2. CASE Reached(db, h)
      BY <2>1, <3>2 DEF Ways, Linked1, Grown
    <3> QED
      BY <2>2, <3>1, <3>2 DEF Linked1
  <2>3. Held(r, Start) /\ r.path[Start].hops = <<>>
    BY <2>1 DEF Ways, Linked1, Grown, Held
  <2> QED
    BY <2>2, <2>3 DEF Ways
<1> QED
  BY <1>1, <1>2, <1>4, <1>5, <1>6, <1>7, <1>8 DEF Once, ExitsRight

(* The ports of the node are queued.                                       *)
PortsAdded(b, x, d, K, b2) ==
  /\ \A e, k, u : InBucket(b2, e, k, u) => InBucket(b, e, k, u) \/ (e = d /\ k = K /\ u \in ItemPlaces(x))
  /\ \A e, k, q : InNodes(b2, e, k, q) => InNodes(b, e, k, q)
NewPorts(db, b, x, sw, rd, item) ==
  /\ \A u \in ItemPlaces(item) : u \in Place /\ rd[u] = 0 /\ Opened(db, sw, u) /\ ~Due(b, x, u)
  /\ ~IsSwitch(Local[1]) /\ db.topology[Place1(Local)] = None => \A u \in ItemPlaces(item) : u = Local

LEMMA PortItemOnce ==
  ASSUME NEW db, NEW b, NEW x, NEW s, NEW sw, NEW rd, Once(db, b, x, s, sw, rd),
         NEW item, NewPorts(db, b, x, sw, rd, item), NEW d, NEW K, NEW b2, PortsAdded(b, item, d, K, b2)
  PROVE  Once(db, b2, x, s, sw, rd)
<1>1. \A u : Due(b2, x, u) => Due(b, x, u) \/ u \in ItemPlaces(item)
  BY DEF PortsAdded, Due
<1>2. DueOnce(b2, x)
  <2>1. DueOnce(b, x)
    BY DEF Once, PortsOnce
  <2>2. \A u \in ItemPlaces(item) : /\ \A e, k : ~InBucket(b, e, k, u)
                                    /\ \A e, k : ~InTurn(x, e, k, u)
    BY DEF NewPorts, Due
  <2>3. ASSUME NEW u, NEW e, NEW f, NEW k, NEW l, InBucket(b2, e, k, u), InBucket(b2, f, l, u)
        PROVE  e = f /\ k = l
    <3>1. /\ InBucket(b, e, k, u) \/ (e = d /\ k = K /\ u \in ItemPlaces(item))
          /\ InBucket(b, f, l, u) \/ (f = d /\ l = K /\ u \in ItemPlaces(item))
      BY <2>3 DEF PortsAdded
    <3>2. InBucket(b, e, k, u) /\ InBucket(b, f, l, u) => e = f /\ k = l
      BY <2>1 DEF DueOnce
    <3> QED
      BY <2>2, <3>1, <3>2
  <2>4. ASSUME NEW u, NEW e, NEW f, NEW k, NEW l, InTurn(x, e, k, u), InTurn(x, f, l, u)
        PROVE  e = f /\ k = l
    BY <2>1, <2>4 DEF DueOnce
  <2>5. ASSUME NEW u, NEW e, NEW f, NEW k, NEW l, InBucket(b2, e, k, u), InTurn(x, f, l, u)
        PROVE  FALSE
    <3>1. InBucket(b, e, k, u) \/ u \in ItemPlaces(item)
      BY <2>5 DEF PortsAdded
    <3>2. ~(InBucket(b, e, k, u) /\ InTurn(x, f, l, u))
      BY <2>1 DEF DueOnce
    <3> QED
      BY <2>2, <2>5, <3>1, <3>2
  <2> QED
    BY <2>3, <2>4, <2>5 DEF DueOnce
<1>3. PortsOnce(db, b2, x, s, sw, rd)
  <2>1. DueUnread(db, b2, x, sw, rd)
    BY <1>1 DEF Once, PortsOnce, DueUnread, NewPorts
  <2> QED
    BY <1>2, <2>1 DEF Once, PortsOnce
<1>4. ExitsOnce(b2)
  BY DEF Once, ExitsRight, ExitsOnce, PortsAdded
<1>5. ExitsAhead(db, b2, s, rd)
  BY DEF Once, ExitsRight, ExitsAhead, PortsAdded
<1>6. LocalFirst(db, b2, x, s)
  <2>1. LocalFirst(db, b, x, s)
    BY DEF Once, ExitsRight
  <2> QED
    BY <1>1, <2>1 DEF LocalFirst, PortsAdded, NewPorts
<1> QED
  BY <1>3, <1>4, <1>5, <1>6 DEF Once, ExitsRight

(* A device not opened yet, which the NodeInfo opens.                      *)
LEMMA PlacesNew ==
  ASSUME NEW db, NEW b, NEW x, NEW s, NEW sw, NEW rd, PortsOnce(db, b, x, s, sw, rd),
         NEW w \in Spot, ~Opened(db, sw, w), NEW item, item.node = <<w[1], 1>>,
         item.idx = IF IsSwitch(w[1]) THEN None ELSE w[2],
         NEW r, NEW sw2, Opened(r, sw2, w),
         ~IsSwitch(Local[1]) /\ r.topology[Place1(Local)] = None => w = Local
  PROVE  NewPorts(r, b, x, sw2, rd, item)
<1>1. w \in Place /\ w = <<w[1], w[2]>> /\ w[1] \in Device /\ w[2] \in 0..MaxPort
  BY SpotFacts
<1>2. ~IsSwitch(w[1]) => ItemPlaces(item) = {w}
  <2> HAVE ~IsSwitch(w[1])
  <2>1. w[2] # None
    BY <1>1, FixedNone
  <2>2. ItemPlaces(item) = {w[1]} \X {w[2]}
    BY <2>1 DEF ItemPlaces
  <2> QED
    BY <1>1, <2>2
<1>3. \A u \in ItemPlaces(item) : u \in Place /\ u[1] = w[1]
  <2>1. CASE IsSwitch(w[1])
    <3>1. ItemPlaces(item) = {w[1]} \X (0..NumPorts[w[1]])
      BY <2>1 DEF ItemPlaces
    <3> QED
      BY <1>1, <3>1 DEF Place
  <2>2. CASE ~IsSwitch(w[1])
    BY <1>1, <1>2, <2>2
  <2> QED
    BY <2>1, <2>2
<1>4. \A u \in ItemPlaces(item) : ~Opened(db, sw, u) /\ Opened(r, sw2, u)
  <2>1. CASE IsSwitch(w[1])
    BY <1>3, <2>1 DEF Opened
  <2>2. CASE ~IsSwitch(w[1])
    BY <1>2, <2>2
  <2> QED
    BY <2>1, <2>2
<1>5. \A u \in ItemPlaces(item) : rd[u] = 0 /\ ~Due(b, x, u)
  <2> TAKE u \in ItemPlaces(item)
  <2>1. ~Due(b, x, u)
    BY <1>4 DEF PortsOnce, DueUnread
  <2>2. rd[u] \in {0, 1} /\ rd[u] # 1
    BY <1>3, <1>4 DEF PortsOnce, ReadOpened
  <2> QED
    BY <2>1, <2>2
<1>6. ~IsSwitch(Local[1]) /\ r.topology[Place1(Local)] = None => \A u \in ItemPlaces(item) : u = Local
  BY <1>2
<1> QED
  BY <1>3, <1>4, <1>5, <1>6 DEF NewPorts

(* A bucket gets one item of ports more.                                   *)
LEMMA FilledPorts ==
  ASSUME Shapes, NEW db, \A e \in Depth : BucketRight(db, todo[e]), NEW d \in Depth,
         NEW x \in PortItems(db), NEW b, b = Filled(d, <<>>, <<x>>)
  PROVE  PortsAdded(todo, x, d, Len(todo[d].ports) + 1, b)
<1> PICK s : s = todo[d].ports
  OBVIOUS
<1> PICK r : r = s \o <<x>>
  OBVIOUS
<1>1. /\ b[d].ports = s \o <<x>> /\ b[d].nodes = todo[d].nodes \o <<>>
      /\ \A e \in Depth : e # d => b[e] = todo[e]
  BY DEF Filled, Shapes
<1>2. s \in Seq(PortItems(db)) /\ todo[d].nodes \in Seq(NodeItems(db))
  BY DEF BucketRight
<1>3. \A k \in DOMAIN r : (k \in DOMAIN s /\ r[k] = s[k]) \/ (k = Len(s) + 1 /\ r[k] = x)
  BY <1>2, AppendedIs DEF Appended
<1>4. b[d].nodes = todo[d].nodes
  BY <1>1, <1>2, ConcatNothing
<1>5. b[d].ports = r
  BY <1>1
<1>6. ASSUME NEW e, NEW k, NEW u, InBucket(b, e, k, u)
      PROVE  InBucket(todo, e, k, u) \/ (e = d /\ k = Len(s) + 1 /\ u \in ItemPlaces(x))
  <2>1. e \in Depth /\ k \in DOMAIN b[e].ports /\ u \in ItemPlaces(b[e].ports[k])
    BY <1>6 DEF InBucket
  <2>2. CASE e # d
    BY <1>1, <2>1, <2>2 DEF InBucket
  <2>3. CASE e = d
    <3>1. k \in DOMAIN r /\ u \in ItemPlaces(r[k])
      BY <1>5, <2>1, <2>3
    <3>2. (k \in DOMAIN s /\ u \in ItemPlaces(s[k])) \/ (k = Len(s) + 1 /\ u \in ItemPlaces(x))
      BY <1>3, <3>1
    <3> QED
      BY <2>1, <2>3, <3>2 DEF InBucket
  <2> QED
    BY <2>2, <2>3
<1>7. \A e, k, q : InNodes(b, e, k, q) => InNodes(todo, e, k, q)
  BY <1>1, <1>4 DEF InNodes
<1> QED
  BY <1>6, <1>7 DEF PortsAdded

(* The first NodeInfo: nothing else is going on.                           *)
LEMMA NothingOpened ==
  ASSUME NEW db, ~(TopoItems \subseteq db.loaded), \A p \in PortObj : db.topology[p] = None
  PROVE  \A u : ~Opened(db, {}, u)
<1>1. ASSUME NEW u \in DOMAIN Link
      PROVE  db.topology[Place1(Link[u])] = None
  <2>1. Link[u] \in Place
    BY FabricAssumption DEF FabricAssumption
  <2> QED
    BY <2>1, PlacePort
<1> QED
  BY <1>1 DEF Opened

FirstMoved(db, w, r) ==
  /\ Grown(db, r) /\ db.loaded \subseteq r.loaded /\ TopoItems \subseteq r.loaded
  /\ w \in Spot /\ r.topology = db.topology
  /\ \A g : Reached(r, g) => g = Start \/ Reached(db, g)
  /\ \A g \in PathObj : Held(db, g) => r.path[g].dlid = db.path[g].dlid /\ r.path[g].hops = db.path[g].hops

(* The first NodeInfo makes the local ports due.                           *)
LEMMA FirstRead ==
  ASSUME NEW db, NEW b, NEW x, NEW s, NEW sw, NEW rd, Once(db, b, x, s, sw, rd),
         NEW j \in s, j.what = "node", j.by = None,
         NEW x2, \A e, k, u : InTurn(x2, e, k, u) => InTurn(x, e, k, u),
         NEW w, w = LeadsTo(db.path[j.path]), NEW r, FirstMoved(db, w, r),
         NEW sw2, IsSwitch(w[1]) => <<w[1], 1>> \in sw2,
         NEW item, item.node = <<w[1], 1>>, item.idx = IF IsSwitch(w[1]) THEN None ELSE w[2]
  PROVE  Once(r, b, x2, {}, sw2, rd) /\ NewPorts(r, b, x2, sw2, rd, item) /\ w = Local
<1>1. ~(TopoItems \subseteq db.loaded) /\ w = Local /\ sw = {} /\ \A p \in PortObj : db.topology[p] = None
  BY DEF Once, ExitsRight, First
<1>2. \A u : ~Opened(db, {}, u)
  BY <1>1, NothingOpened
<1>3. \A u : ~Due(b, x, u)
  BY <1>1, <1>2 DEF Once, PortsOnce, DueUnread
<1>4. \A u : ~Due(b, x2, u)
  BY <1>3 DEF Due
<1>5. rd \in [Place -> {0, 1}] /\ \A u \in Place : rd[u] = 0
  BY <1>1, <1>2 DEF Once, PortsOnce, ReadOpened
<1>6. \A d, k, p : ~InNodes(b, d, k, p)
  <2>1. \A p : ~Exit(db, s, rd, p)
    BY <1>5, FabricAssumption DEF FabricAssumption, Exit
  <2> QED
    BY <2>1 DEF Once, ExitsRight, ExitsAhead
<1>7. PortsOnce(r, b, x2, {}, sw2, rd)
  <2>1. DueOnce(b, x2)
    BY <1>4 DEF DueOnce, Due
  <2>2. DueUnread(r, b, x2, sw2, rd)
    BY <1>4 DEF DueUnread
  <2>3. AskedOnce(r, {}) /\ AskedRead(r, {}, rd)
    BY DEF AskedOnce, AskedRead
  <2>4. ReadOpened(r, sw2, rd)
    <3>1. \A u \in Place : rd[u] # 1
      BY <1>5
    <3> QED
      BY <1>5, <3>1 DEF ReadOpened
  <2> QED
    BY <2>1, <2>2, <2>3, <2>4 DEF PortsOnce
<1>8. ExitsRight(r, b, x2, {}, sw2, rd)
  <2>1. ExitsOnce(b) /\ ExitsAhead(r, b, {}, rd) /\ Crossing(r, {}, rd)
    BY <1>6 DEF ExitsOnce, ExitsAhead, Crossing
  <2>2. First(r, {}, sw2)
    BY DEF First, FirstMoved
  <2>3. LocalFirst(r, b, x2, {})
    BY <1>4, <1>6 DEF LocalFirst
  <2> QED
    BY <2>1, <2>2, <2>3 DEF ExitsRight
<1>9. Ways(r)
  <2>1. Ways(db)
    BY DEF Once
  <2>2. \A h \in PortObj : h # Start
    BY StartIsNoPort
  <2>3. \A h \in PortObj : Reached(r, h) => Reached(db, h)
    BY <2>2 DEF FirstMoved
  <2>4. Held(r, Start) /\ r.path[Start].hops = <<>>
    BY <2>1 DEF Ways, FirstMoved, Grown, Held
  <2> QED
    BY <2>1, <2>3, <2>4 DEF Ways, FirstMoved, Grown
<1>10. Once(r, b, x2, {}, sw2, rd)
  BY <1>7, <1>8, <1>9 DEF Once
<1>11. NewPorts(r, b, x2, sw2, rd, item)
  <2>1. PortsOnce(db, b, x2, {}, {}, rd)
    <3>1. Fewer(b, x, s, b, x2, {})
      BY DEF Fewer
    <3>2. Once(db, b, x2, {}, sw, rd)
      BY <3>1, FewerOnce
    <3> QED
      BY <1>1, <3>2 DEF Once
  <2>2. Opened(r, sw2, w) /\ w \in Spot
    BY <1>1 DEF Opened, FirstMoved
  <2>3. ~Opened(db, {}, w)
    BY <1>2
  <2> QED
    BY <1>1, <2>1, <2>2, <2>3, PlacesNew
<1> QED
  BY <1>1, <1>10, <1>11

(* The NodeInfo of a device behind an exit.                                *)
CrossMoved(db, j, w, r) ==
  /\ Linked1(db, j.path, w, r) /\ Exists(db, j.path) /\ w \in Spot

LEMMA CrossExit ==
  ASSUME NEW db, NEW b, NEW x, NEW s, NEW sw, NEW rd, Once(db, b, x, s, sw, rd),
         NEW j \in s, j.what = "node", j.by # None, NEW p, p = j.path
  PROVE  NewExit(db, b, s \ {j}, rd, p)
<1>1. Exit(db, s, rd, p)
  BY DEF Once, ExitsRight, Crossing, Crosses
<1>2. Exit(db, s \ {j}, rd, p)
  BY <1>1 DEF Exit
<1>3. \A k \in s \ {j} : k.what = "node" => k.path # p
  BY DEF Once, ExitsRight, Crossing
<1>4. \A d, k : ~InNodes(b, d, k, p)
  BY DEF Once, ExitsRight, ExitsAhead
<1>5. ~IsSwitch(Local[1]) /\ db.topology[Place1(Local)] = None => p = Place1(Local)
  BY DEF Once, ExitsRight, LocalFirst
<1> QED
  BY <1>2, <1>3, <1>4, <1>5 DEF NewExit

(* What is behind an exit was not opened before it was crossed.            *)
LEMMA BeyondExit ==
  ASSUME NEW db, ScanDb(db), NEW s, NEW rd, NEW p, Exit(db, s, rd, p), Exists(db, p),
         NEW w, w = Link[PlaceOf(p)], NEW r, Linked1(db, p, w, r),
         NEW sw, NEW sw2, IsSwitch(w[1]) => <<w[1], 1>> \notin sw /\ <<w[1], 1>> \in sw2
  PROVE  ~Opened(db, sw, w) /\ Opened(r, sw2, w)
<1> PICK v : v = PlaceOf(p)
  OBVIOUS
<1>1. v \in DOMAIN Link /\ w = Link[v] /\ w \in DOMAIN Link /\ Link[w] = v /\ w \in Place
  BY FabricAssumption DEF FabricAssumption, Exit
<1>2. p = Place1(v) /\ p \in PortObj
  BY PortIsFirst
<1>3. CASE IsSwitch(w[1])
  BY <1>3 DEF Opened
<1>4. CASE ~IsSwitch(w[1])
  <2>1. w # Local
    BY <1>1, <1>4 DEF Exit
  <2>2. db.topology[p] = None
    BY <1>1, <1>4 DEF Exit
  <2>3. r.topology[p] = Place1(w) /\ Place1(w) # None
    BY <1>1, <1>2, PlacePort, FixedNone DEF Linked1
  <2> QED
    BY <1>1, <1>2, <1>4, <2>1, <2>2, <2>3 DEF Opened
<1> QED
  BY <1>3, <1>4

(* A later NodeInfo makes the ports behind its cable due.                  *)
LEMMA CrossRead ==
  ASSUME NEW db, ScanDb(db), TopoTrue(db, {}), NEW b, NEW x, NEW s, NEW sw, NEW rd, Once(db, b, x, s, sw, rd),
         JobsRight(db, s), NoFirst(s), TopoItems \subseteq db.loaded, \A q, d, k : InNodes(b, d, k, q) => q \in PortObj,
         NEW j \in s, j.what = "node", NEW w, w = LeadsTo(db.path[j.path]),
         NEW x2, \A e, k, u : InTurn(x2, e, k, u) => InTurn(x, e, k, u),
         NEW r, CrossMoved(db, j, w, r), NEW sw2, sw \subseteq sw2,
         NEW item, item.node = <<w[1], 1>>, item.idx = IF IsSwitch(w[1]) THEN None ELSE w[2]
  PROVE  /\ Once(r, b, x2, s \ {j}, sw2, rd)
         /\ (IsSwitch(w[1]) => <<w[1], 1>> \notin sw /\ <<w[1], 1>> \in sw2) => NewPorts(r, b, x2, sw2, rd, item)
<1> PICK p : p = j.path
  OBVIOUS
<1> PICK s2 : s2 = s \ {j}
  OBVIOUS
<1>1. NewExit(db, b, s2, rd, p) /\ w = Link[PlaceOf(p)]
  <2>1. j.by # None
    BY DEF NoFirst
  <2>2. w = Link[PlaceOf(p)]
    BY <2>1 DEF Once, ExitsRight, Crossing, Crosses
  <2> QED
    BY <2>1, <2>2, CrossExit
<1>2. Once(db, b, x2, s2, sw, rd)
  <2>1. Fewer(b, x, s, b, x2, s2)
    BY DEF Fewer
  <2> QED
    BY <2>1, FewerOnce
<1>3. Exists(db, p) /\ p \in PortObj /\ Linked1(db, p, w, r) /\ w \in Spot
  BY DEF CrossMoved, Exists
<1>4. JobsRight(db, s2) /\ NoFirst(s2)
  BY DEF JobsRight, NoFirst
<1>5. Once(r, b, x2, s2, sw2, rd)
  BY <1>1, <1>2, <1>3, <1>4, NodeLinked
<1>6. ASSUME IsSwitch(w[1]) => <<w[1], 1>> \notin sw /\ <<w[1], 1>> \in sw2
      PROVE  NewPorts(r, b, x2, sw2, rd, item)
  <2>1. ~Opened(db, sw, w) /\ Opened(r, sw2, w)
    BY <1>1, <1>3, <1>6, BeyondExit DEF NewExit
  <2>2. PortsOnce(db, b, x2, s2, sw, rd)
    BY <1>2 DEF Once
  <2>3. ~(~IsSwitch(Local[1]) /\ r.topology[Place1(Local)] = None)
    <3> SUFFICES ASSUME ~IsSwitch(Local[1]), r.topology[Place1(Local)] = None
                 PROVE  FALSE
      OBVIOUS
    <3>1. Place1(Local) \in PortObj
      <4>1. Local \in Place
        BY FabricAssumption DEF FabricAssumption, EndPlace
      <4> QED
        BY <4>1, PlacePort
    <3>2. db.topology[Place1(Local)] = None
      BY <1>3, <3>1 DEF Linked1, Grown
    <3>3. p = Place1(Local)
      BY <1>1, <3>2 DEF NewExit
    <3>4. r.topology[p] = Place1(w)
      BY <1>3 DEF Linked1
    <3>5. Place1(w) # None
      BY <1>3, SpotFacts, PlacePort, FixedNone
    <3> QED
      BY <3>3, <3>4, <3>5
  <2> QED
    BY <1>3, <2>1, <2>2, <2>3, PlacesNew
<1> QED
  BY <1>5, <1>6

(* What do_node stores of a later reply.                                   *)
LEMMA CrossingMoves ==
  ASSUME NEW db, NEW j, j.by # None, NodeJob(db, j), NEW w, w \in Spot, NEW r, NodeMoved(db, j, w, r)
  PROVE  CrossMoved(db, j, w, r)
<1> PICK p : p = j.path
  OBVIOUS
<1>1. j.peer = p /\ Exists(db, p) /\ j.peer # None
  BY FixedNone DEF NodeJob, Exists
<1>2. \A q \in PortObj : r.topology[q] = IF q = p THEN Place1(w) ELSE IF q = Place1(w) THEN p ELSE db.topology[q]
  BY <1>1 DEF NodeMoved, TopoNoted
<1>3. Grown(db, r) /\ r.loaded = db.loaded /\ r.path[p].ep = Place1(ToEndPlace(w))
  BY DEF NodeMoved, NodeStored
<1>4. /\ \A g : Reached(r, g) => g = p \/ Reached(db, g)
      /\ \A g \in PathObj : Held(db, g) => r.path[g].dlid = db.path[g].dlid /\ r.path[g].hops = db.path[g].hops
  BY DEF NodeMoved
<1>5. Linked1(db, p, w, r)
  BY <1>2, <1>3, <1>4 DEF Linked1
<1> QED
  BY <1>1, <1>5 DEF CrossMoved

(* What do_node stores of the first reply.                                 *)
LEMMA StartMoves ==
  ASSUME NEW db, NEW j, j.by = None, NodeJob(db, j), NEW w, w \in Spot, NEW r, NodeMoved(db, j, w, r)
  PROVE  FirstMoved(db, w, r)
<1>1. j.peer = None /\ j.path = Start
  BY DEF NodeJob, Exists
<1>2. r.topology = db.topology
  BY <1>1 DEF NodeMoved, TopoNoted
<1>3. Grown(db, r) /\ r.loaded = db.loaded \cup TopoItems
  BY DEF NodeMoved, NodeStored
<1>4. /\ \A g : Reached(r, g) => g = Start \/ Reached(db, g)
      /\ \A g \in PathObj : Held(db, g) => r.path[g].dlid = db.path[g].dlid /\ r.path[g].hops = db.path[g].hops
  BY <1>1 DEF NodeMoved
<1> QED
  BY <1>2, <1>3, <1>4 DEF FirstMoved

(* A NodeInfo comes over the cable its MAD was sent over.                  *)
LEMMA CableKnown ==
  ASSUME NEW db, NEW b, NEW x, NEW s, NEW sw, NEW rd, Once(db, b, x, s, sw, rd),
         NEW j \in s, j.what = "node", NodeJob(db, j), NEW w, w = LeadsTo(db.path[j.path])
  PROVE  OverCable(db, j, w)
<1>1. CASE j.by = None
  BY <1>1 DEF NodeJob, OverCable
<1>2. CASE j.by # None
  <2>1. j.peer = j.path /\ Exists(db, j.peer)
    BY <1>2 DEF NodeJob
  <2>2. PlaceOf(j.path) \in DOMAIN Link /\ w = Link[PlaceOf(j.path)]
    BY <1>2 DEF Once, ExitsRight, Crossing, Crosses, Exit
  <2> QED
    BY <2>1, <2>2, FabricAssumption DEF FabricAssumption, OverCable
<1> QED
  BY <1>1, <1>2

AnswersNode(db, b, x, s, sw, rd, j, w, r, item, b2, x2, sw2) ==
  /\ ScanDb(db) /\ TopoTrue(db, {}) /\ Once(db, b, x, s, sw, rd) /\ JobsRight(db, s) /\ NodeJob(db, j)
  /\ \A q, d, k : InNodes(b, d, k, q) => q \in PortObj
  /\ \A e, k, u : InTurn(x2, e, k, u) => InTurn(x, e, k, u)
  /\ j \in s /\ (j.by = None => s = {j}) /\ (j.by # None => NoFirst(s) /\ TopoItems \subseteq db.loaded)
  /\ w \in Spot /\ w = LeadsTo(db.path[j.path]) /\ NodeMoved(db, j, w, r) /\ j.what = "node"
  /\ sw2 = IF IsSwitch(w[1]) THEN sw \cup {<<w[1], 1>>} ELSE sw
  /\ item.node = <<w[1], 1>> /\ item.idx = IF IsSwitch(w[1]) THEN None ELSE w[2]
  /\ b2 = b \/ (~(IsSwitch(w[1]) /\ <<w[1], 1>> \in sw) /\ \E d, K : PortsAdded(b, item, d, K, b2))

(* do_node keeps the order, for the first reply and the others.            *)
LEMMA NodeAnswers ==
  ASSUME NEW db, NEW b, NEW x, NEW s, NEW sw, NEW rd, NEW j, NEW w, NEW r, NEW item, NEW b2, NEW x2, NEW sw2,
         AnswersNode(db, b, x, s, sw, rd, j, w, r, item, b2, x2, sw2)
  PROVE  TopoTrue(r, {}) /\ Once(r, b2, x2, s \ {j}, sw2, rd)
<1> USE DEF AnswersNode
<1>1. sw \subseteq sw2 /\ (IsSwitch(w[1]) => <<w[1], 1>> \in sw2)
  OBVIOUS
<1>2. /\ Once(r, b, x2, s \ {j}, sw2, rd)
      /\ (IsSwitch(w[1]) => <<w[1], 1>> \notin sw) => NewPorts(r, b, x2, sw2, rd, item)
  <2>1. CASE j.by = None
    <3>1. FirstMoved(db, w, r)
      BY <2>1, StartMoves
    <3>2. Once(r, b, x2, {}, sw2, rd) /\ NewPorts(r, b, x2, sw2, rd, item)
      BY <1>1, <2>1, <3>1, FirstRead, ZenonT(120)
    <3>3. s \ {j} = {}
      BY <2>1
    <3> QED
      BY <3>2, <3>3
  <2>2. CASE j.by # None
    <3>1. CrossMoved(db, j, w, r)
      BY <2>2, CrossingMoves
    <3> QED
      BY <1>1, <2>2, <3>1, CrossRead, SMTT(60)
  <2> QED
    BY <2>1, <2>2
<1>3. TopoTrue(r, {})
  BY DEF NodeMoved, TopoNoted
<1>4. CASE b2 = b
  BY <1>2, <1>3, <1>4
<1>5. ASSUME ~(IsSwitch(w[1]) /\ <<w[1], 1>> \in sw), NEW d, NEW K, PortsAdded(b, item, d, K, b2)
      PROVE  Once(r, b2, x2, s \ {j}, sw2, rd)
  BY <1>2, <1>5, PortItemOnce
<1> QED
  BY <1>3, <1>4, <1>5

(* The item that do_node queues is right.                                  *)
LEMMA ItemRight ==
  ASSUME NEW db, NEW j, NEW w \in Spot, NEW r, NodeStored(db, j, w, r), NEW h, h = j.path,
         NEW idx, idx = IF IsSwitch(w[1]) THEN None ELSE w[2],
         NEW item, item = [node |-> <<w[1], 1>>, path |-> h, idx |-> idx]
  PROVE  item \in PortItems(r)
<1> PICK n : n = <<w[1], 1>>
  OBVIOUS
<1>1. Reached(r, h) /\ r.path[h].ep = Place1(ToEndPlace(w))
  BY DEF NodeStored
<1>2. /\ w[1] \in Device /\ w[2] \in 0..MaxPort /\ ToEndPlace(w)[1] = w[1]
      /\ ~IsSwitch(w[1]) => ToEndPlace(w) = w
  BY SpotFacts
<1>3. n \in NodeObj /\ n[1] = w[1] /\ h \in PathObj
  BY <1>1, <1>2, FirstNode DEF Reached, Held
<1>4. Parent(r.path[h].ep) = n /\ r.path[h].ep[2] = ToEndPlace(w)[2]
  BY <1>1, <1>2 DEF Place1, Parent
<1>5. item.node = n /\ item.path = h /\ item.idx = idx
  OBVIOUS
<1>6. item \in [node : NodeObj, path : PathObj, idx : (0..MaxPort) \cup {None}]
  BY <1>2, <1>3, SMTT(30)
<1> QED
  BY <1>1, <1>2, <1>3, <1>4, <1>5, <1>6 DEF PortItems

(* Paths are queued for ports that exist.                                  *)
LEMMA NodesInPorts ==
  ASSUME SmpInv, Scanning
  PROVE  \A q, d, k : InNodes(todo, d, k, q) => q \in PortObj
<1> SUFFICES ASSUME NEW q, NEW d, NEW k, InNodes(todo, d, k, q)
             PROVE  q \in PortObj
  OBVIOUS
<1>1. d \in Depth /\ k \in DOMAIN todo[d].nodes /\ q = todo[d].nodes[k].aport
  BY DEF InNodes
<1>2. todo[d].nodes \in Seq(NodeItems(sbn))
  BY <1>1, WorkNow DEF BucketRight
<1>3. todo[d].nodes[k] \in NodeItems(sbn)
  BY <1>1, <1>2
<1> QED
  BY <1>1, <1>3 DEF NodeItems

(* What a NodeInfo's reply does, in these terms.                            *)
NodeReplied(j, w, np, item, r, b2, x2, sw2) ==
  /\ AnswersNode(sbn, todo, ctx, jobs, switches, reads, j, w, r, item, b2, x2, sw2)
  /\ w # None /\ np = get_node_ninf(sbn, w, Over(w, j.path)) /\ r = NodeDone(np.db, np.node, np.port, j, w[2])
  /\ ~(IsSwitch(w[1]) /\ <<w[1], 1>> \in switches) =>
       b2 = Filled(j.depth, <<>>, <<item>>) /\ item \in PortItems(r)

LEMMA NodeReplyIs ==
  ASSUME SmpInv, OnceInv, Shapes, Scanning, NEW j \in jobs, Reply(j), j.what = "node", j.depth \in Depth,
         NEW r, r = sbn', NEW b2, b2 = todo', NEW x2, x2 = ctx', NEW sw2, sw2 = switches'
  PROVE  \E w, np, item : NodeReplied(j, w, np, item, r, b2, x2, sw2)
<1> PICK db : db = sbn
  OBVIOUS
<1> PICK h : h = j.path
  OBVIOUS
<1> PICK w : w = LeadsTo(db.path[h])
  OBVIOUS
<1> PICK np : np = get_node_ninf(db, w, Over(w, h))
  OBVIOUS
<1> PICK n : n = np.node
  OBVIOUS
<1> PICK idx : idx = IF IsSwitchNode(np.db, n) THEN None ELSE w[2]
  OBVIOUS
<1> PICK item : item = [node |-> n, path |-> h, idx |-> idx]
  OBVIOUS
<1>1. w # None /\ NodeFound(j, w, np)
  BY DEF Reply, DoNode, NodeReply, Over
<1>2. /\ r = NodeDone(np.db, n, np.port, j, w[2])
      /\ switches' = IF IsSwitchNode(np.db, n) THEN switches \cup {n} ELSE switches
      /\ \/ todo' = todo
         \/ todo' = Filled(j.depth, <<>>, <<item>>) /\ ~(IsSwitchNode(np.db, n) /\ n \in switches)
      /\ (IsSwitchNode(np.db, n) /\ n \in switches) \/ todo' = Filled(j.depth, <<>>, <<item>>)
      /\ \E fills : Started(j.depth, fills)
  BY <1>1, ZenonT(30) DEF NodeFound, NodeDone, ScansPorts
<1>3. ScanDb(db) /\ EpReached(db) /\ JobsRight(db, jobs) /\ NodeJob(db, j)
  BY JobsNow DEF JobsRight, JobRight
<1>4. TopoTrue(db, {}) /\ Once(db, todo, ctx, jobs, switches, reads)
  BY OnceNow
<1>5. w = LeadsTo(db.path[j.path]) /\ np = get_node_ninf(db, w, Over(w, j.path))
      /\ r = NodeDone(np.db, np.node, np.port, j, w[2])
  BY <1>2, ZenonT(30)
<1>6. n = <<w[1], 1>> /\ w \in Spot /\ (IsSwitchNode(np.db, n) <=> IsSwitch(w[1]))
  <2>1. w # None
    BY <1>1
  <2>2. /\ NodeStored(db, j, w, r) /\ np.node = <<w[1], 1>> /\ w \in Spot
        /\ IsSwitchNode(np.db, np.node) <=> IsSwitch(w[1])
    BY ONLY <1>3, <1>5, <2>1, NodeStores, ZenonT(60)
  <2> QED
    BY <2>2
<1>7. OverCable(db, j, w)
  BY <1>3, <1>4, <1>5, CableKnown, ZenonT(30)
<1>8. NodeMoved(db, j, w, r)
  BY <1>1, <1>3, <1>4, <1>5, <1>7, NodeMoves, ZenonT(30)
<1>9. j.by = None => jobs = {j}
  <2> HAVE j.by = None
  <2>1. ~(TopoItems \subseteq db.loaded)
    BY <1>4 DEF Once, ExitsRight, First
  <2>2. jobs = {StartJob}
    BY <2>1 DEF SmpInv, NotYet
  <2> QED
    BY <2>2
<1>10. j.by # None => NoFirst(jobs) /\ TopoItems \subseteq db.loaded
  BY NoFirstNow DEF StartJob
<1>11. \A e, k, u : InTurn(ctx', e, k, u) => InTurn(ctx, e, k, u)
  BY <1>2, StartedTurns, ZenonT(30)
<1>12. \A q, d, k : InNodes(todo, d, k, q) => q \in PortObj
  BY NodesInPorts
<1>13. item.node = <<w[1], 1>> /\ item.idx = idx /\ idx = IF IsSwitch(w[1]) THEN None ELSE w[2]
  BY <1>6
<1>14. item \in PortItems(r)
  <2>1. NodeStored(db, j, w, r)
    BY <1>8 DEF NodeMoved
  <2> QED
    BY <1>6, <1>13, <2>1, ItemRight
<1>15. \/ todo' = todo
       \/ ~(IsSwitch(w[1]) /\ <<w[1], 1>> \in switches) /\ \E d, K : PortsAdded(todo, item, d, K, todo')
  <2> SUFFICES ASSUME todo' = Filled(j.depth, <<>>, <<item>>)
               PROVE  \E d, K : PortsAdded(todo, item, d, K, todo')
    BY <1>2, <1>6, ZenonT(30)
  <2>1. \A e \in Depth : BucketRight(r, todo[e])
    <3>1. Grown(db, r)
      BY <1>8 DEF NodeMoved, NodeStored
    <3> QED
      BY <3>1, BucketsNow
  <2> QED
    BY <1>14, <2>1, FilledPorts, ZenonT(120)
<1>16. switches' = IF IsSwitch(w[1]) THEN switches \cup {<<w[1], 1>>} ELSE switches
  BY <1>2, <1>6, ZenonT(30)
<1>17. AnswersNode(sbn, todo, ctx, jobs, switches, reads, j, w, r, item, b2, x2, sw2)
  <2> PICK b : b = todo
    OBVIOUS
  <2> PICK x : x = ctx
    OBVIOUS
  <2> PICK s : s = jobs
    OBVIOUS
  <2> PICK sw : sw = switches
    OBVIOUS
  <2> PICK rd : rd = reads
    OBVIOUS
  <2>1. ScanDb(db) /\ TopoTrue(db, {}) /\ Once(db, b, x, s, sw, rd) /\ JobsRight(db, s) /\ NodeJob(db, j)
    BY <1>3, <1>4
  <2>2. /\ \A q, d, k : InNodes(b, d, k, q) => q \in PortObj
        /\ \A e, k, u : InTurn(x2, e, k, u) => InTurn(x, e, k, u)
    BY <1>11, <1>12
  <2>3. j \in s /\ (j.by = None => s = {j}) /\ (j.by # None => NoFirst(s) /\ TopoItems \subseteq db.loaded)
    BY <1>9, <1>10
  <2>4. w \in Spot /\ w = LeadsTo(db.path[j.path]) /\ NodeMoved(db, j, w, r) /\ j.what = "node"
    BY <1>5, <1>6, <1>8, ZenonT(30)
  <2>5. sw2 = IF IsSwitch(w[1]) THEN sw \cup {<<w[1], 1>>} ELSE sw
    BY <1>16
  <2>6. item.node = <<w[1], 1>> /\ item.idx = IF IsSwitch(w[1]) THEN None ELSE w[2]
    BY <1>13
  <2>7. b2 = b \/ (~(IsSwitch(w[1]) /\ <<w[1], 1>> \in sw) /\ \E d, K : PortsAdded(b, item, d, K, b2))
    BY <1>15
  <2>8. AnswersNode(db, b, x, s, sw, rd, j, w, r, item, b2, x2, sw2)
    BY <2>1, <2>2, <2>3, <2>4, <2>5, <2>6, <2>7, Zenon DEF AnswersNode
  <2> QED
    BY <2>8
<1>18. NodeReplied(j, w, np, item, r, b2, x2, sw2)
  <2>1. ~(IsSwitch(w[1]) /\ <<w[1], 1>> \in switches) => b2 = Filled(j.depth, <<>>, <<item>>)
    BY <1>2, <1>6, ZenonT(30)
  <2> QED
    BY <1>1, <1>5, <1>14, <1>17, <2>1, ZenonT(30) DEF NodeReplied
<1> QED
  BY <1>18

(* A NodeInfo arrives in a scan.                                           *)
LEMMA NodeReplyOnce ==
  ASSUME SmpInv, OnceInv, Shapes, Scanning, NEW j \in jobs, Reply(j), j.what = "node", j.depth \in Depth
  PROVE  OnceInv'
<1> PICK r : r = sbn'
  BY SMTT(30)
<1> PICK b2 : b2 = todo'
  BY SMTT(30)
<1> PICK x2 : x2 = ctx'
  BY SMTT(30)
<1> PICK sw2 : sw2 = switches'
  BY SMTT(30)
<1>1. UNCHANGED reads /\ jobs' = jobs \ {j}
  BY DEF Reply
<1>2. PICK w, np, item : NodeReplied(j, w, np, item, r, b2, x2, sw2)
  BY NodeReplyIs
<1>3. TopoTrue(r, {}) /\ Once(r, b2, x2, jobs \ {j}, sw2, reads)
  <2>1. AnswersNode(sbn, todo, ctx, jobs, switches, reads, j, w, r, item, b2, x2, sw2)
    BY <1>2 DEF NodeReplied
  <2> QED
    BY <2>1, NodeAnswers
<1> QED
  BY <1>1, <1>3, OnceStep

-----------------------------------------------------------------------------
(* A scan starts with nothing read.                                        *)
LEMMA StartLeads ==
  ASSUME NEW routed, routed => Lid[Local] # 0,
         NEW start, start = IF routed THEN LIDPath(Lid[Local]) ELSE DRPath(Permissive, <<>>)
  PROVE  LeadsTo(start) = Local /\ start.hops = <<>> /\ start.ep = None
<1>1. start \in Path /\ start.ep = None
  BY StartPath
<1>2. start.hops = <<>> /\ start.dlid = IF routed THEN Lid[Local] ELSE Permissive
  BY DEF LIDPath, DRPath
<1>3. Local \in EndPlace
  BY FabricAssumption DEF FabricAssumption
<1>4. CASE routed
  BY <1>1, <1>2, <1>3, <1>4, LidPathLeads DEF ByTheLid
<1>5. CASE ~routed
  BY <1>1, <1>2, <1>5, LeadsToFacts
<1> QED
  BY <1>1, <1>2, <1>4, <1>5

Blank(db) ==
  /\ \A p \in PortObj : db.topology[p] = None
  /\ \A h \in PathObj : ~Reached(db, h)
  /\ Held(db, Start) /\ LeadsTo(db.path[Start]) = Local /\ db.path[Start].hops = <<>>
  /\ ~(TopoItems \subseteq db.loaded)

(* A scan begins with nothing read and nothing due.                        *)
LEMMA BlankOnce ==
  ASSUME NEW db, Blank(db), NEW b, \A d \in Depth : b[d].nodes = <<>> /\ b[d].ports = <<>>,
         NEW x, \A c \in Ctx : x[c].pc = "none", NEW rd, rd = [w \in Place |-> 0]
  PROVE  TopoTrue(db, {}) /\ Once(db, b, x, {StartJob}, {}, rd)
<1>1. \A w : ~Due(b, x, w)
  BY DEF Due, InBucket, InTurn
<1>2. \A d, k, p : ~InNodes(b, d, k, p)
  BY DEF InNodes
<1>3. PortsOnce(db, b, x, {StartJob}, {}, rd)
  <2>1. DueOnce(b, x)
    BY <1>1 DEF DueOnce, Due
  <2>2. DueUnread(db, b, x, {}, rd)
    BY <1>1 DEF DueUnread
  <2>3. AskedOnce(db, {StartJob}) /\ AskedRead(db, {StartJob}, rd)
    BY DEF AskedOnce, AskedRead, StartJob
  <2>4. ReadOpened(db, {}, rd)
    BY DEF ReadOpened
  <2> QED
    BY <2>1, <2>2, <2>3, <2>4 DEF PortsOnce
<1>4. ExitsRight(db, b, x, {StartJob}, {}, rd)
  <2>1. ExitsOnce(b) /\ ExitsAhead(db, b, {StartJob}, rd)
    BY <1>2 DEF ExitsOnce, ExitsAhead
  <2>2. Crossing(db, {StartJob}, rd)
    BY DEF Crossing, StartJob
  <2>3. First(db, {StartJob}, {})
    BY DEF First, StartJob, Blank
  <2>4. LocalFirst(db, b, x, {StartJob})
    BY <1>1, <1>2 DEF LocalFirst, StartJob
  <2> QED
    BY <2>1, <2>2, <2>3, <2>4 DEF ExitsRight
<1>5. Ways(db)
  BY DEF Blank, Ways, PathObj
<1>6. TopoTrue(db, {})
  BY DEF TopoTrue, Blank
<1> QED
  BY <1>3, <1>4, <1>5, <1>6 DEF Once

(* So it does after any earlier load.                                      *)
LEMMA StartOnce ==
  ASSUME SmpInv, NEW S, StartScan(S)
  PROVE  OnceInv' /\ reads' \in [Place -> {0, 1}]
<1> PICK db : db = sbn
  OBVIOUS
<1> PICK start : start = IF db.lidRouted THEN LIDPath(Lid[Local]) ELSE DRPath(Permissive, <<>>)
  OBVIOUS
<1> PICK r : r = sbn'
  OBVIOUS
<1>1. /\ (db.lidRouted => Lid[Local] # 0) /\ ~(TopoItems \subseteq db.loaded) /\ r = Wiped(db)
      /\ todo' = [d \in Depth |-> EmptyBucket] /\ ctx' = [c \in Ctx |-> NoCtx]
      /\ jobs' = {StartJob} /\ switches' = {} /\ reads' = [w \in Place |-> 0]
  BY DEF StartScan, Wanted, StartJob
<1>2. Blank(r)
  <2>1. DOMAIN db = DOMAIN EmptyDb
    BY DEF SmpInv, ScanDb, DbInv, DbTypes
  <2>2. r.topology = EmptyDb.topology /\ r.path = [EmptyDb.path EXCEPT ![Start] = start] /\ r.loaded = db.loaded
    BY <1>1, <2>1 DEF Wiped, EmptyDb
  <2>3. \A p \in PortObj : r.topology[p] = None
    BY <2>2 DEF EmptyDb
  <2>4. r.path[Start] = start /\ \A h \in PathObj : h # Start => r.path[h] = None
    BY <2>2, StartIsNoPort DEF EmptyDb
  <2>5. LeadsTo(start) = Local /\ start.hops = <<>> /\ start.ep = None /\ start \in Path
    BY <1>1, StartLeads, StartPath
  <2>6. Held(r, Start)
    BY <2>4, <2>5, StartIsNoPort, FixedNone DEF Held
  <2>7. \A h \in PathObj : ~Reached(r, h)
    BY <2>4, <2>5 DEF Reached, Held
  <2> QED
    BY <1>1, <2>2, <2>3, <2>4, <2>5, <2>6, <2>7 DEF Blank
<1>3. /\ \A d \in Depth : todo'[d].nodes = <<>> /\ todo'[d].ports = <<>>
      /\ \A c \in Ctx : ctx'[c].pc = "none"
  BY <1>1 DEF EmptyBucket, NoCtx
<1>4. TopoTrue(r, {}) /\ Once(r, todo', ctx', {StartJob}, {}, reads')
  BY <1>1, <1>2, <1>3, BlankOnce
<1> QED
  BY <1>1, <1>4, OnceStep

-----------------------------------------------------------------------------
(* Outside a scan the topology only has to stay.                           *)
LEMMA RestOnce ==
  ASSUME TopoTrue(sbn', {}), ~Scanning', UNCHANGED reads, reads \in [Place -> {0, 1}]
  PROVE  OnceInv' /\ reads' \in [Place -> {0, 1}]
BY DEF OnceInv

(* A question after a scan is asked.                                       *)
LEMMA AskOnceKeeps ==
  ASSUME SmpInv, OnceInv, NEW x \in rest, Ask(x)
  PROVE  TopoTrue(sbn', {}) /\ ~Scanning' /\ UNCHANGED reads
<1>1. Asking /\ UNCHANGED <<pc, reads>> /\ (sbn' = sbn \/ sbn' = WithPath(sbn, EndOf(x)))
  BY DEF Ask, loadVars
<1>2. pc' \in {"swinf", "pinf"}
  BY <1>1 DEF Asking
<1>3. DOMAIN sbn = DOMAIN EmptyDb
  BY DEF SmpInv, ScanDb, DbInv, DbTypes
<1>4. sbn'.topology = sbn.topology /\ sbn'.class = sbn.class
  BY <1>1, <1>3 DEF WithPath, EmptyDb
<1>5. TopoTrue(sbn', {})
  BY <1>4, TopoTrueStays DEF OnceInv
<1> QED
  BY <1>1, <1>2, <1>5 DEF Scanning

(* A question after a scan is answered, and links nothing.                 *)
LEMMA AnswerOnceKeeps ==
  ASSUME SmpInv, OnceInv, NEW j \in jobs, Answer(j)
  PROVE  TopoTrue(sbn', {}) /\ ~Scanning' /\ UNCHANGED reads
<1>1. Asking /\ UNCHANGED <<pc, reads>>
  BY DEF Answer, loadVars
<1>2. TopoTrue(sbn', {})
  BY AnswerStores, TopoTrueGrows DEF OnceInv
<1> QED
  BY <1>1, <1>2 DEF Scanning, Asking

(* All questions of a kind have been answered.                             *)
LEMMA AskEndsOnce ==
  ASSUME SmpInv, OnceInv, AskEnds
  PROVE  TopoTrue(sbn', {}) /\ ~Scanning' /\ UNCHANGED reads
<1>1. GoesOnTo(Stage(stuff, pc)) /\ UNCHANGED reads
  BY DEF AskEnds, scanVars
<1>2. pc' \in {"swinf", "pinf", "idle"}
  BY <1>1, StageFacts DEF GoesOnTo
<1>3. DOMAIN sbn = DOMAIN EmptyDb
  BY DEF SmpInv, ScanDb, DbInv, DbTypes
<1>4. sbn'.topology = sbn.topology /\ sbn'.class = sbn.class
  BY <1>3 DEF AskEnds, EmptyDb
<1>5. TopoTrue(sbn', {})
  BY <1>4, TopoTrueStays DEF OnceInv
<1> QED
  BY <1>1, <1>2, <1>5 DEF Scanning

-----------------------------------------------------------------------------
(* Each port is read once, and the topology is the cables'.                *)
ReadsRight == reads \in [Place -> {0, 1}]
FromSA == pc \in {"idle", "sa", "sa2"}
TopoRight == ReadsRight /\ IF useSA THEN FromSA ELSE OnceInv

LEMMA ReadsInScan ==
  ASSUME OnceInv, Scanning
  PROVE  ReadsRight
BY DEF OnceInv, Once, PortsOnce, ReadOpened, ReadsRight

(* Every step of loads with SMPs keeps the order.                          *)
LEMMA TopoSmpNext ==
  ASSUME ~useSA, SmpInv, ScanInv, OnceInv, ReadsRight, [Next]_vars
  PROVE  OnceInv' /\ ReadsRight'
<1>1. pc \in {"idle", "scan", "swinf", "pinf"} /\ table = None /\ tables = {}
  BY DEF SmpInv, ScanMode
<1>2. (OnceInv /\ Scanning => ReadsRight)'
  BY DEF OnceInv, Once, PortsOnce, ReadOpened, ReadsRight
<1>3. CASE UNCHANGED <<sbn, pc, scanVars>>
  <2>1. UNCHANGED <<sbn, pc, todo, ctx, jobs, switches, reads>>
    BY <1>3 DEF scanVars
  <2>2. UNCHANGED Scanning
    BY <2>1 DEF Scanning
  <2>3. CASE Scanning
    <3>1. TopoTrue(sbn', {}) /\ Once(sbn', todo', ctx', jobs', switches', reads')
      BY <2>1, <2>3, OnceNow
    <3> QED
      BY <2>1, <3>1, OnceStep DEF ReadsRight
  <2>4. CASE ~Scanning
    BY <2>1, <2>2, <2>4 DEF OnceInv, ReadsRight
  <2> QED
    BY <2>3, <2>4
<1>4. ASSUME NEW S \in Items, StartScan(S) PROVE OnceInv' /\ ReadsRight'
  BY <1>4, StartOnce DEF ReadsRight
<1>5. CASE \E S \in Items : LoadMore(S)
  <2>1. UNCHANGED <<sbn, reads>> /\ pc' \in {"swinf", "pinf", "idle"}
    BY <1>5, StageFacts DEF LoadMore, GoesOnTo, scanVars
  <2> QED
    BY <2>1, RestOnce DEF OnceInv, ReadsRight, Scanning
<1>6. CASE \E S \in Items : LoadNothing(S)
  BY <1>3, <1>6 DEF LoadNothing
<1>7. ASSUME NEW j \in jobs, Reply(j) PROVE OnceInv' /\ ReadsRight'
  <2>1. Scanning /\ Scanning' /\ Shapes
    BY <1>7 DEF Reply, loadVars, Scanning, ScanInv
  <2>2. j.depth \in Depth
    BY <2>1 DEF ScanInv, Depths
  <2>3. OnceInv'
    BY <1>7, <2>1, <2>2, NodeReplyOnce, PortReplyOnce
  <2> QED
    BY <1>2, <2>1, <2>3
<1>8. ASSUME NEW c \in Ctx, Todo(c) PROVE OnceInv' /\ ReadsRight'
  <2>1. Shapes
    BY DEF ScanInv
  <2>2. OnceInv'
    BY <1>8, <2>1, OnceWaits, TodoNodeOnce, TodoPortsOnce, TodoPortOnce DEF Todo
  <2>3. Scanning'
    BY <1>8, ZenonT(30) DEF Todo, TodoCheck, TodoWoken, TodoNode, TodoPorts, TodoPort, TodoEmpty, May, AtTop, Scanning, loadVars
  <2> QED
    BY <1>2, <2>2, <2>3
<1>9. CASE \E x \in rest : Ask(x)
  BY <1>9, AskOnceKeeps, RestOnce DEF ReadsRight
<1>10. CASE \E j \in jobs : Answer(j)
  BY <1>10, AnswerOnceKeeps, RestOnce DEF ReadsRight
<1>11. CASE ScanEnds
  <2>1. UNCHANGED <<sbn, reads>> /\ pc' \in {"swinf", "pinf", "idle"}
    BY <1>11, StageFacts DEF ScanEnds, GoesOnTo
  <2> QED
    BY <2>1, RestOnce DEF OnceInv, ReadsRight, Scanning
<1>12. CASE AskEnds
  BY <1>12, AskEndsOnce, RestOnce DEF ReadsRight
<1>13. CASE ScanRaises
  <2>1. UNCHANGED <<sbn, reads>> /\ pc' = "idle"
    BY <1>13 DEF ScanRaises, Ends
  <2> QED
    BY <2>1, RestOnce DEF OnceInv, ReadsRight, Scanning
<1>14. CASE UNCHANGED vars
  BY <1>3, <1>14 DEF vars, loadVars
<1>15. /\ \A S \in Items : ~LoadSA(S)
       /\ \A t \in tables : ~SAReply(t)
       /\ \A w \in rest : ~SAStore(w) /\ ~SAStoreFails(w)
       /\ ~SAStored /\ ~SANext /\ ~SAQueryFails
  BY <1>1 DEF LoadSA, SAReply, SAStore, SAStoreFails, SAStored, SANext, SAQueryFails
<1> QED
  BY <1>4, <1>5, <1>6, <1>7, <1>8, <1>9, <1>10, <1>11, <1>12, <1>13, <1>14, <1>15 DEF Next

(* Every step of loads from the SA keeps the topology one of cables.       *)
LEMMA TopoSaNext ==
  ASSUME useSA, FromSA, ReadsRight, [Next]_vars
  PROVE  FromSA' /\ ReadsRight' /\ useSA' = useSA
<1>1. pc \in {"idle", "sa", "sa2"}
  BY DEF FromSA
<1>2. CASE UNCHANGED vars
  BY <1>1, <1>2 DEF vars, loadVars, scanVars, FromSA, ReadsRight
<1>3. ASSUME NEW S, LoadSA(S) \/ LoadNothing(S)
      PROVE  pc' \in {"idle", "sa", "sa2"} /\ UNCHANGED <<reads, useSA>>
  BY <1>1, <1>3 DEF LoadSA, LoadNothing, scanVars
<1>4. ASSUME NEW t, SAReply(t)
      PROVE  pc' \in {"idle", "sa", "sa2"} /\ UNCHANGED <<reads, useSA>>
  BY <1>1, <1>4 DEF SAReply, loadVars, scanVars
<1>5. ASSUME NEW w, SAStore(w) \/ SAStoreFails(w)
      PROVE  pc' \in {"idle", "sa", "sa2"} /\ UNCHANGED <<reads, useSA>>
  BY <1>1, <1>5 DEF SAStore, SAStoreFails, SARaises, Ends, loadVars, scanVars
<1>6. CASE SAStored \/ SANext \/ SAQueryFails
  <2>1. pc' \in {"idle", "sa", "sa2"} /\ UNCHANGED <<reads, useSA>>
    BY <1>1, <1>6 DEF SAStored, SANext, SAQueryFails, SARaises, Ends, loadVars, scanVars
  <2> QED
    BY <2>1 DEF FromSA, ReadsRight
<1>7. ~Scanning /\ ~Asking
  BY <1>1 DEF Scanning, Asking
<1>8. /\ \A S : ~StartScan(S) /\ ~LoadMore(S)
      /\ \A j : ~Reply(j) /\ ~Answer(j)
  BY <1>7 DEF StartScan, LoadMore, Reply, Answer
<1>9. \A c : ~Todo(c)
  BY <1>7 DEF Todo, TodoCheck, TodoWoken, TodoNode, TodoPorts, TodoPort, TodoEmpty, May, AtTop
<1>10. (\A x : ~Ask(x)) /\ ~ScanEnds /\ ~AskEnds /\ ~ScanRaises
  BY <1>7 DEF Ask, ScanEnds, AskEnds, ScanRaises
<1> QED
  BY <1>2, <1>3, <1>4, <1>5, <1>6, <1>8, <1>9, <1>10 DEF Next, FromSA, ReadsRight

(* Nothing is linked at first.                                             *)
LEMMA TopoInit == ASSUME Init PROVE TopoRight
<1>1. ReadsRight
  BY DEF Init, ReadsRight
<1> PICK routed \in BOOLEAN : sbn = [EmptyDb EXCEPT !.lidRouted = routed]
  BY DiscoveryAssumption DEF Init, DiscoveryAssumption
<1>2. \A p \in PortObj : sbn.topology[p] = None
  BY EmptyFields DEF Unfilled
<1>3. OnceInv /\ FromSA
  BY <1>2 DEF Init, OnceInv, TopoTrue, Scanning, FromSA
<1> QED
  BY <1>1, <1>3 DEF TopoRight

(* Every step keeps TopoRight.                                             *)
LEMMA TopoNext == ASSUME TopoRight, DbRight, ScanInv, [Next]_vars PROVE TopoRight'
<1>1. CASE useSA
  BY <1>1, TopoSaNext, ZenonT(30) DEF TopoRight
<1>2. CASE ~useSA
  <2>1. SmpInv /\ OnceInv /\ ReadsRight
    BY <1>2 DEF TopoRight, DbRight
  <2>2. OnceInv' /\ ReadsRight'
    BY <1>2, <2>1, TopoSmpNext
  <2>3. useSA' = useSA
    BY <1>2, <2>1, SmpNext
  <2> QED
    BY <1>2, <2>2, <2>3 DEF TopoRight
<1> QED
  BY <1>1, <1>2

(* What a scan has still to do stays in order (OnceInv), and what it has   *)
(* linked are cables: do_node and do_port (discovery.py:294-342).          *)
THEOREM TopologyIsRight == Spec => []TopoRight
<1>1. Init => TopoRight
  BY TopoInit
<1>2. TopoRight /\ DbRight /\ ScanInv /\ [Next]_vars => TopoRight'
  BY TopoNext
<1> QED
  BY <1>1, <1>2, ScanIsOrderly, DatabaseIsRight, PTL DEF Spec

(* No port is asked twice.                                                 *)
THEOREM PortsAreReadOnce == Spec => []ReadOnce
<1>1. TopoRight => ReadOnce
  BY DEF TopoRight, ReadsRight, ReadOnce
<1> QED
  BY <1>1, TopologyIsRight, PTL

(* The topology, from the SA or a scan, is what the cables are.            *)
LEMMA TrueTopology ==
  ASSUME TopoTrue(sbn, {})
  PROVE  TopologyIsTrue
<1> SUFFICES ASSUME NEW p \in PortObj, NEW q, q = sbn.topology[p], q # None
             PROVE  /\ sbn.topology[q] = p
                    /\ PlaceOf(p) \in DOMAIN Link /\ Link[PlaceOf(p)] = PlaceOf(q)
  BY DEF TopologyIsTrue
<1>1. sbn.topology[q] = p /\ PlaceOf(p) \in DOMAIN Link /\ q = Place1(Link[PlaceOf(p)])
  BY DEF TopoTrue
<1>2. Link[PlaceOf(p)] \in Place
  BY <1>1, FabricAssumption DEF FabricAssumption
<1> QED
  BY <1>1, <1>2, PlacePort

(* TopologyIsTrue: a link is a cable, and is there in both directions.     *)
THEOREM TopologyIsAlwaysTrue == Spec => []((useSA => SingleLate) => TopologyIsTrue)
<1>1. TopoRight /\ ~useSA => TopologyIsTrue
  BY TrueTopology DEF TopoRight, OnceInv
<1> QED
  BY <1>1, TopologyIsRight, TablesAreTrue, PTL

-----------------------------------------------------------------------------
(* A scan that ends has found what there is.  What a reply adds: Port      *)
(* objects at S, a Node of the device d, LIDs.                             *)
Fills(db, S, r) ==
  \A n \in NodeObj, i \in 0..MaxPort :
    /\ db.slot[n][i] # None => r.slot[n][i] # None
    /\ r.slot[n][i] # None => db.slot[n][i] # None \/ <<n, i>> \in S
NamesOnly(db, d, r) == \A m \in NodeObj : r.class[m] # None => db.class[m] # None \/ m = <<d, 1>>
LidsStay(db, r) == \A q \in PortObj : db.lid[q] # None => r.lid[q] # None
Learns(db, d, S, r) == Fills(db, S, r) /\ NamesOnly(db, d, r) /\ LidsStay(db, r)

LEMMA LearnsTwice ==
  ASSUME NEW db, NEW r, NEW t, NEW d, NEW S, Learns(db, d, S, r), Learns(r, d, S, t)
  PROVE  Learns(db, d, S, t)
<1>1. Fills(db, S, t)
  BY ZenonT(30) DEF Learns, Fills
<1>2. NamesOnly(db, d, t)
  BY DEF Learns, NamesOnly
<1>3. LidsStay(db, t)
  BY DEF Learns, LidsStay
<1> QED
  BY <1>1, <1>2, <1>3 DEF Learns

(* A database with the same tables has learned nothing.                    *)
LEMMA LearnsNothing ==
  ASSUME NEW db, NEW r, r.slot = db.slot, r.class = db.class, r.lid = db.lid, NEW d, NEW S
  PROVE  Learns(db, d, S, r)
BY DEF Learns, Fills, NamesOnly, LidsStay

(* A NodeInfo makes its end port known.                                    *)
LEMMA NodeArrivesLearns ==
  ASSUME NEW db, ScanDb(db), NEW h, Held(db, h), NEW w, w = LeadsTo(db.path[h]), w # None,
         NEW np, np = get_node_ninf(db, w, Over(w, h)), NEW S, <<<<w[1], 1>>, ToEndPlace(w)[2]>> \in S
  PROVE  Learns(db, w[1], S, np.db)
<1> PICK e : e = ToEndPlace(w)
  OBVIOUS
<1> PICK a : a = Over(w, h)
  OBVIOUS
<1>1. NinfGot(db, {}, e, a, np)
  BY NodeTells
<1>2. e[1] = w[1]
  BY OverIs
<1> PICK r : r = np.db
  BY SMTT(30)
<1>3. /\ \A m \in NodeObj : m # <<e[1], 1>> => r.class[m] = db.class[m]
      /\ \A q \in PortObj : Parent(q)[1] \notin {} =>
           r.lid[q] = IF q = np.port /\ LidIn(db, a) # None THEN Lid[e] ELSE db.lid[q]
      /\ \A m \in NodeObj, i \in 0..MaxPort :
           r.slot[m][i] = db.slot[m][i] \/ (m = <<e[1], 1>> /\ i = e[2] /\ r.slot[m][i] = np.port)
  BY <1>1, ZenonT(120) DEF NinfGot
<1>4. np.port # None
  <2>1. RightPort(r, {}, e, np.port)
    BY <1>1, ZenonT(30) DEF NinfGot
  <2> QED
    BY <2>1, FixedNone DEF RightPort
<1>5. Fills(db, S, r)
  <2> SUFFICES ASSUME NEW m \in NodeObj, NEW i \in 0..MaxPort
               PROVE  /\ db.slot[m][i] # None => r.slot[m][i] # None
                      /\ r.slot[m][i] # None => db.slot[m][i] # None \/ <<m, i>> \in S
    BY ZenonT(30) DEF Fills
  <2> QED
    BY <1>2, <1>3, <1>4, SMTT(30)
<1>6. NamesOnly(db, w[1], r)
  BY <1>2, <1>3 DEF NamesOnly
<1>7. LidsStay(db, r)
  <2> SUFFICES ASSUME NEW q \in PortObj, db.lid[q] # None PROVE r.lid[q] # None
    BY DEF LidsStay
  <2>1. Lid[e] # None
    BY OverIs, LidAssumption, FixedNone
  <2> QED
    BY <1>3, <2>1, SMTT(30)
<1> QED
  BY <1>5, <1>6, <1>7 DEF Learns

(* A port is made for one slot.                                            *)
LEMMA WithPortLearns ==
  ASSUME NEW db, NEW L, DbInv(db, L), NEW n \in NodeObj, db.class[n] # None, NEW i \in 0..MaxPort,
         NEW r, r = WithPort(db, n, i), NEW d, NEW S, <<n, i>> \in S
  PROVE  Learns(db, d, S, r) /\ r.pinf = db.pinf /\ r.slot[n][i] # None
<1>1. /\ r.class = db.class /\ r.lid = db.lid /\ r.pinf = db.pinf
      /\ \A m \in NodeObj, k \in 0..MaxPort :
           r.slot[m][k] = IF m = n /\ k = i THEN PortAt(db, n, i) ELSE db.slot[m][k]
  BY WithPortKeeps
<1>2. PortAt(db, n, i) # None
  BY SlotFacts, FixedNone
<1>3. Fills(db, S, r)
  <2> SUFFICES ASSUME NEW m \in NodeObj, NEW k \in 0..MaxPort
               PROVE  /\ db.slot[m][k] # None => r.slot[m][k] # None
                      /\ r.slot[m][k] # None => db.slot[m][k] # None \/ <<m, k>> \in S
    BY ZenonT(30) DEF Fills
  <2> QED
    BY <1>1, <1>2, SMTT(30)
<1> QED
  BY <1>1, <1>2, <1>3 DEF Learns, NamesOnly, LidsStay

(* Linking ports makes none known.                                         *)
LEMMA LinksLearn ==
  ASSUME NEW db, ScanDb(db), NEW j, j.peer # None => Exists(db, j.peer), NEW p, Exists(db, p),
         NEW r, r = Noted(TopoLinked(db, j, p), j), NEW d, NEW S
  PROVE  Learns(db, d, S, r) /\ r.pinf = db.pinf
<1> PICK t : t = TopoLinked(db, j, p)
  OBVIOUS
<1>1. t.slot = db.slot /\ t.class = db.class /\ t.lid = db.lid /\ t.pinf = db.pinf /\ DbInv(t, {})
  <2>0. DbInv(db, {})
    BY DEF ScanDb
  <2>1. CASE j.peer = None
    BY <2>0, <2>1 DEF TopoLinked
  <2>2. CASE j.peer # None
    <3>1. p \in PortObj /\ j.peer \in PortObj
      BY <2>2 DEF Exists
    <3>2. t = LinkPorts(db, p, j.peer)
      BY <2>2 DEF TopoLinked
    <3>3. LinksThem(db, {}, p, j.peer, t)
      BY <2>0, <3>1, <3>2, LinkPortsIs
    <3> QED
      BY <3>3 DEF LinksThem, SameIndexes
  <2> QED
    BY <2>1, <2>2
<1>2. r.slot = t.slot /\ r.class = t.class /\ r.lid = t.lid /\ r.pinf = t.pinf
  <2>1. CASE j.by = None
    <3>1. r = [t EXCEPT !.loaded = t.loaded \cup TopoItems]
      BY <2>1 DEF Noted
    <3>2. DbInv(t, {})
      BY <1>1
    <3> QED
      BY <3>1, <3>2, LoadedKeeps DEF SameIndexes
  <2>2. CASE j.by # None
    BY <2>2 DEF Noted
  <2> QED
    BY <2>1, <2>2
<1> QED
  BY <1>1, <1>2, LearnsNothing

LearnsRest(db, d, S, r) == Learns(db, d, S, r) /\ r.pinf = db.pinf

(* What do_node makes known is the port it came in by.                     *)
LEMMA NodeDoneLearns ==
  ASSUME NEW db, ScanDb(db), NEW n \in NodeObj, db.class[n] # None, NEW port, Exists(db, port),
         NEW idx \in 0..MaxPort, NEW j, j.peer # None => Exists(db, j.peer),
         NEW r, r = NodeDone(db, n, port, j, idx), NEW d, NEW S, <<n, idx>> \in S
  PROVE  LearnsRest(db, d, S, r)
<1>1. CASE ~IsSwitchNode(db, n)
  <2>1. r = Noted(TopoLinked(db, j, port), j)
    BY <1>1 DEF NodeDone
  <2> QED
    BY <2>1, LinksLearn DEF LearnsRest
<1>2. CASE IsSwitchNode(db, n)
  <2> PICK t : t = WithPort(db, n, idx)
    OBVIOUS
  <2> PICK p : p = PortAt(db, n, idx)
    OBVIOUS
  <2>1. Later(db, t) /\ Exists(t, p)
    BY WithPortScan
  <2>2. DbInv(db, {})
    BY DEF ScanDb
  <2>3. Learns(db, d, S, t) /\ t.pinf = db.pinf
    BY <2>2, WithPortLearns
  <2>4. r = Noted(TopoLinked(t, j, p), j)
    BY <1>2 DEF NodeDone
  <2>5. ScanDb(t) /\ (j.peer # None => Exists(t, j.peer))
    BY <2>1 DEF Later, Grown
  <2>6. Learns(t, d, S, r) /\ r.pinf = t.pinf
    BY <2>1, <2>4, <2>5, LinksLearn
  <2> QED
    BY <2>3, <2>6, LearnsTwice DEF LearnsRest
<1> QED
  BY <1>1, <1>2

(* A NodeInfo arrives.                                                     *)
LEMMA NodeLearns ==
  ASSUME NEW db, ScanDb(db), EpReached(db), NEW j, NodeJob(db, j),
         NEW w, w = LeadsTo(db.path[j.path]), w # None,
         NEW np, np = get_node_ninf(db, w, Over(w, j.path)),
         NEW r, r = NodeDone(np.db, np.node, np.port, j, w[2]),
         NEW S, <<<<w[1], 1>>, w[2]>> \in S, <<<<w[1], 1>>, ToEndPlace(w)[2]>> \in S
  PROVE  LearnsRest(db, w[1], S, r)
<1> PICK h : h = j.path
  OBVIOUS
<1>1. Held(db, h) /\ NodeGot(db, h, w, np)
  <2>1. Held(db, h)
    BY DEF NodeJob
  <2> QED
    BY <2>1, NodeArrives
<1> PICK s : s = np.db
  OBVIOUS
<1> PICK n : n = np.node
  OBVIOUS
<1> PICK p : p = np.port
  BY SMTT(30)
<1>2. PathGot(db, h, ToEndPlace(w), s) /\ n = <<w[1], 1>> /\ n \in NodeObj /\ s.class[n] # None
      /\ p = Place1(ToEndPlace(w)) /\ s.pinf = db.pinf
  BY <1>1, ZenonT(30) DEF NodeGot
<1>3. w[2] \in 0..MaxPort
  BY OverIs, SpotFacts, <1>1
<1>4. ScanDb(s) /\ Exists(s, p) /\ (j.peer # None => Exists(s, j.peer))
  <2>1. ScanDb(s) /\ Grown(db, s) /\ Reached(s, h) /\ s.path[h].ep = p
    BY <1>2, ZenonT(30) DEF PathGot
  <2>2. Exists(s, p)
    BY <2>1, ZenonT(30) DEF ScanDb, PathsRight, PathRight, Reached, Held
  <2> QED
    BY <2>1, <2>2, ZenonT(30) DEF NodeJob, Grown
<1> PICK d : d = w[1]
  OBVIOUS
<1> PICK i : i = w[2]
  OBVIOUS
<1>5. <<n, i>> \in S /\ <<<<w[1], 1>>, ToEndPlace(w)[2]>> \in S
  BY <1>2
<1>6. Learns(db, d, S, s)
  BY <1>1, <1>5, NodeArrivesLearns
<1>7. r = NodeDone(s, n, p, j, i)
  BY SMTT(30)
<1>8. n \in NodeObj /\ s.class[n] # None /\ Exists(s, p) /\ ScanDb(s) /\ i \in 0..MaxPort
      /\ (j.peer # None => Exists(s, j.peer))
  BY <1>2, <1>3, <1>4, ZenonT(30)
<1>9. LearnsRest(s, d, S, r)
  BY <1>5, <1>7, <1>8, NodeDoneLearns, ZenonT(120)
<1>10. Learns(db, d, S, r)
  <2>1. Learns(s, d, S, r)
    BY ONLY <1>9, Zenon DEF LearnsRest
  <2> QED
    BY ONLY <1>6, <2>1, LearnsTwice, Zenon
<1> QED
  BY <1>2, <1>9, <1>10, ZenonT(30) DEF LearnsRest

(* A PortInfo arrives: of a port's LID only what it had to tell.           *)
Informs(db, w, e, lid, S, r) ==
  /\ Learns(db, w[1], S, r)
  /\ r.pinf = db.pinf \cup {Place1(w)} /\ Listed1(r, Place1(w))
  /\ lid # 0 => r.lid[Place1(e)] # None

LEMMA PortArrivesLearns ==
  ASSUME NEW db, ScanDb(db), NEW h, Reached(db, h), NEW v, v = LeadsTo(db.path[h]),
         NEW w, w[1] = v[1], w[2] \in 0..MaxPort, NEW e, e = ToEndPlace(w), e = ToEndPlace(v),
         NEW lid \in {0, Lid[e]}, NEW np, np = get_port_pinf(db, w, w[2], lid, Over(w, h)),
         NEW S, <<<<w[1], 1>>, w[2]>> \in S, <<<<w[1], 1>>, e[2]>> \in S
  PROVE  Informs(db, w, e, lid, S, np.db)
<1> PICK a : a = Over(w, h)
  OBVIOUS
<1>0. Held(db, h) /\ h \in PathObj /\ v # None /\ db.path[h].ep # None
  BY DEF Reached, Held, ScanDb, PathsRight, PathRight
<1>1. /\ Told(db, a, e) /\ Plain(a) /\ a.path = h /\ a.path # None /\ e \in EndPlace
      /\ e[1] = w[1] /\ a.lid = None
      /\ db.path[h].ep = None \/ RightPort(db, {}, e, db.path[h].ep)
  <2>1. a = Over(v, h)
    BY DEF Over
  <2> QED
    BY <1>0, <2>1, OverIs
<1> PICK b : b = AboutPort(w, lid, a)
  OBVIOUS
<1>2. PortGot(db, {}, w, e, b, db.pinf \cup {np.port}, np)
  <2>1. e = ToEndPlace(LeadsTo(db.path[h])) /\ RightPort(db, {}, e, db.path[h].ep)
    BY <1>0, <1>1
  <2> QED
    BY <1>1, <2>1, PortIsTold
<1>3. lid # 0 => LidIn(db, b) # None
  <2>1. Told(db, a, e) /\ Plain(a) /\ lid \in {0, Lid[e]} /\ b = AboutPort(w, lid, a) /\ e = ToEndPlace(w)
    BY <1>1
  <2>2. lid # 0 /\ a.lid \in {None, lid} => LidIn(db, b) # None
    BY <2>1, AboutPortIs
  <2> QED
    BY <1>1, <2>2
<1> PICK r : r = np.db
  BY SMTT(30)
<1>4. /\ np.port = Place1(w) /\ np.node = <<e[1], 1>> /\ r.pinf = db.pinf \cup {np.port}
      /\ \A m \in NodeObj : m # <<e[1], 1>> => r.class[m] = db.class[m]
      /\ r.slot[np.node][w[2]] = np.port
  BY <1>2, ZenonT(30) DEF PortGot
<1>5. \A q \in PortObj : r.lid[q] = IF q = Place1(e) /\ LidIn(db, b) # None THEN Lid[e] ELSE db.lid[q]
  BY <1>2, ZenonT(30) DEF PortGot
<1>6. \A m \in NodeObj, i \in 0..MaxPort :
        r.slot[m][i] = db.slot[m][i] \/ (m = <<e[1], 1>> /\ i \in {e[2], w[2]} /\ r.slot[m][i] # None)
  BY <1>2, ZenonT(30) DEF PortGot
<1>7. Lid[e] # None /\ Place1(e) \in PortObj
  <2>1. Lid[e] \in Nat
    BY <1>1, LidAssumption
  <2>2. RightPort(db, {}, e, db.path[h].ep)
    BY <1>0, <1>1
  <2> QED
    BY <2>1, <2>2, FixedNone DEF RightPort
<1>8. Fills(db, S, r)
  <2> SUFFICES ASSUME NEW m \in NodeObj, NEW i \in 0..MaxPort
               PROVE  /\ db.slot[m][i] # None => r.slot[m][i] # None
                      /\ r.slot[m][i] # None => db.slot[m][i] # None \/ <<m, i>> \in S
    BY ZenonT(30) DEF Fills
  <2>1. CASE r.slot[m][i] = db.slot[m][i]
    BY <2>1
  <2>2. CASE m = <<w[1], 1>> /\ i \in {e[2], w[2]} /\ r.slot[m][i] # None
    BY <2>2, SMTT(30)
  <2> QED
    BY <1>1, <1>6, <2>1, <2>2
<1>9. NamesOnly(db, w[1], r)
  BY <1>1, <1>4 DEF NamesOnly
<1>10. LidsStay(db, r)
  BY <1>5, <1>7 DEF LidsStay
<1>11. Listed1(r, Place1(w))
  <2> PICK p : p = Place1(w)
    OBVIOUS
  <2>1. p[1] = <<w[1], 1>> /\ p[2] = w[2]
    BY DEF Place1
  <2>2. r.slot[p[1]][p[2]] = p
    BY <1>1, <1>4, <2>1
  <2> QED
    BY <2>1, <2>2 DEF Listed1, Parent
<1>12. lid # 0 => r.lid[Place1(e)] # None
  BY <1>3, <1>5, <1>7
<1>13. Learns(db, w[1], S, r)
  BY <1>8, <1>9, <1>10 DEF Learns
<1> QED
  BY <1>4, <1>11, <1>12, <1>13 DEF Informs

(* Re-routing changes nothing of this.                                     *)
LEMMA ReroutedLearns ==
  ASSUME NEW db, ScanDb(db), EpReached(db), NEW j, Reached(db, j.path), NEW e \in EndPlace,
         db.path[j.path].ep = Place1(e), NEW lid \in {0, Lid[e]}, NEW r, r = Rerouted(db, j, lid)
  PROVE  r.slot = db.slot /\ r.class = db.class /\ r.lid = db.lid /\ r.pinf = db.pinf
<1> PICK new : new = LidPathTo(lid, Place1(e))
  OBVIOUS
<1>1. CASE ~BecomesLid(db, j, lid)
  BY <1>1 DEF Rerouted
<1>2. CASE BecomesLid(db, j, lid)
  <2>1. r = [db EXCEPT !.path[j.path] = [LIDPath(lid) EXCEPT !.ep = db.path[j.path].ep]]
    BY <1>2 DEF Rerouted
  <2> QED
    BY <2>1 DEF ScanDb, DbInv, DbTypes, EmptyDb
<1> QED
  BY <1>1, <1>2

(* A PortInfo is stored.                                                   *)
LEMMA PortLearns ==
  ASSUME NEW db, ScanDb(db), EpReached(db), NEW j, Reached(db, j.path),
         NEW v, v = LeadsTo(db.path[j.path]),
         NEW w, w[1] = v[1], w[2] \in 0..MaxPort, NEW e, e = ToEndPlace(w), e = ToEndPlace(v),
         NEW np, np = get_port_pinf(db, w, w[2], PinfLid(w), Over(w, j.path)),
         NEW r, r = Rerouted(np.db, j, PinfLid(w)),
         NEW S, <<<<w[1], 1>>, w[2]>> \in S, <<<<w[1], 1>>, e[2]>> \in S
  PROVE  Informs(db, w, e, PinfLid(w), S, r)
<1> PICK h : h = j.path
  OBVIOUS
<1> PICK lid : lid = PinfLid(w)
  OBVIOUS
<1>1. lid \in {0, Lid[e]}
  BY DEF PinfLid
<1> PICK a : a = Over(w, h)
  OBVIOUS
<1>2. InfoGot(db, h, w, e, np) /\ e \in EndPlace
  BY <1>1, PortArrives, ZenonT(30)
<1> PICK s : s = np.db
  OBVIOUS
<1>3. /\ ScanDb(s) /\ Grown(db, s) /\ Reached(s, h) /\ s.path[h].ep = Place1(e)
      /\ \A g : Reached(s, g) => g = h \/ Reached(db, g)
      /\ s.topology = db.topology /\ s.loaded = db.loaded
  BY <1>2, ZenonT(30) DEF InfoGot, PathGot
<1>4. EpReached(s)
  BY <1>3 DEF EpReached
<1>5. r = Rerouted(s, j, lid)
  OBVIOUS
<1>6. r.slot = s.slot /\ r.class = s.class /\ r.lid = s.lid /\ r.pinf = s.pinf
  BY <1>1, <1>2, <1>3, <1>4, <1>5, ReroutedLearns
<1>7. Informs(db, w, e, lid, S, s)
  <2>1. np = get_port_pinf(db, w, w[2], lid, Over(w, h))
    OBVIOUS
  <2> QED
    BY <1>1, <2>1, PortArrivesLearns
<1>8. Learns(db, w[1], S, r)
  <2>1. Learns(db, w[1], S, s)
    BY <1>7 DEF Informs
  <2> QED
    BY <1>6, <2>1, ZenonT(120) DEF Learns, Fills, NamesOnly, LidsStay
<1>9. /\ r.pinf = db.pinf \cup {Place1(w)} /\ Listed1(r, Place1(w))
      /\ lid # 0 => r.lid[Place1(e)] # None
  BY <1>6, <1>7 DEF Informs, Listed1
<1> QED
  BY <1>8, <1>9 DEF Informs

-----------------------------------------------------------------------------
(* A port that is opened is due, or asked, or its PortInfo is kept; behind  *)
(* a kept port the device is known, queued, or asked.                      *)
Queued(b, p) == \E d, k : InNodes(b, d, k, p)
OnWay(db, s, w) == \E j \in s : j.what = "port" /\ AskPlace(db, j) = w
Kept(db, w) == Place1(w) \in db.pinf
Crossed(db, b, s, p) ==
  db.topology[p] # None \/ Queued(b, p) \/ \E j \in s : j.what = "node" /\ j.path = p
HasLid(db, w) == w \in EndPlace /\ Lid[w] # 0 => db.lid[Place1(w)] # None
KeptWell(db, b, s, w) ==
  HasLid(db, w) /\ Listed1(db, Place1(w)) /\ (w \in DOMAIN Link => Crossed(db, b, s, Place1(w)))

AllAhead(db, b, x, s, sw) ==
  \A w \in Place : Opened(db, sw, w) => Due(b, x, w) \/ OnWay(db, s, w) \/ Kept(db, w)
AllKept(db, b, s) == \A w \in Place : Kept(db, w) => KeptWell(db, b, s, w)
SlotsOpened(db, sw) ==
  \A n \in NodeObj, i \in 0..MaxPort : db.slot[n][i] # None =>
    <<n[1], i>> \in Place /\ Opened(db, sw, <<n[1], i>>)
SwitchesFound(db, sw) == \A n \in NodeObj : db.class[n] # None /\ IsSwitch(n[1]) => n \in sw
LocalFound(db, sw) == TopoItems \subseteq db.loaded => Opened(db, sw, Local)
Ahead(db, b, x, s, sw) ==
  /\ AllAhead(db, b, x, s, sw) /\ AllKept(db, b, s)
  /\ SlotsOpened(db, sw) /\ SwitchesFound(db, sw) /\ LocalFound(db, sw)

(* A step of the scan loses none of it.                                    *)
NoneLost(db, b, x, s, r, b2, x2, s2) ==
  /\ \A w \in Place : Due(b, x, w) => Due(b2, x2, w) \/ OnWay(r, s2, w) \/ Kept(r, w)
  /\ \A w \in Place : OnWay(db, s, w) => OnWay(r, s2, w) \/ Kept(r, w)
  /\ \A w \in Place : Crossed(db, b, s, Place1(w)) => Crossed(r, b2, s2, Place1(w))
OpensDue(db, sw, r, sw2, b2, x2) ==
  \A w \in Place : Opened(r, sw2, w) => Opened(db, sw, w) \/ Due(b2, x2, w)
KeepsWell(db, r, b2, s2) ==
  /\ db.pinf \subseteq r.pinf
  /\ \A w \in Place : Kept(r, w) => Kept(db, w) \/ KeptWell(r, b2, s2, w)
OpenSlots(S, r, sw2) == \A n, i : <<n, i>> \in S => <<n[1], i>> \in Place /\ Opened(r, sw2, <<n[1], i>>)
More(db, sw, r, sw2) == Grown(db, r) /\ db.loaded \subseteq r.loaded /\ sw \subseteq sw2
Sees(db, d, r, sw2) ==
  \A n \in NodeObj : n = <<d, 1>> /\ IsSwitch(n[1]) /\ r.class[n] # None => db.class[n] # None \/ n \in sw2
Goes(db, d, S, r, sw, sw2) ==
  /\ ScanDb(r) /\ More(db, sw, r, sw2)
  /\ Learns(db, d, S, r) /\ OpenSlots(S, r, sw2) /\ Sees(db, d, r, sw2)
  /\ TopoItems \subseteq r.loaded => TopoItems \subseteq db.loaded \/ Opened(r, sw2, Local)

LEMMA ListedStays ==
  ASSUME NEW db, ScanDb(db), NEW r, ScanDb(r), NEW S, Fills(db, S, r), NEW w \in Place, Listed1(db, Place1(w))
  PROVE  Listed1(r, Place1(w))
<1> PICK p : p = Place1(w)
  OBVIOUS
<1>1. /\ p \in PortObj /\ p[1] = <<w[1], 1>> /\ p[2] = w[2] /\ p = <<p[1], p[2]>> /\ p[1] \in NodeObj
  BY PlacePort DEF Place1, PortObj
<1>2. p[2] \in 0..MaxPort /\ db.slot[p[1]][p[2]] = p
  BY DEF Listed1, Parent
<1>3. r.slot[p[1]][p[2]] # None
  BY <1>1, <1>2, FixedNone DEF Fills
<1>4. r.slot[p[1]][p[2]] = <<p[1], p[2]>>
  <2>1. SlotsRight(r, {})
    BY DEF ScanDb, DbInv
  <2> QED
    BY <1>1, <1>2, <1>3, <2>1 DEF SlotsRight
<1> QED
  BY <1>1, <1>2, <1>4 DEF Listed1, Parent

(* A step that loses none, opens only what is due, and keeps well what it  *)
(* reads keeps all that lies ahead.                                        *)
LEMMA AheadOn ==
  ASSUME NEW db, NEW b, NEW x, NEW s, NEW sw, Ahead(db, b, x, s, sw), ScanDb(db),
         NEW d, NEW S, NEW r, NEW sw2, Goes(db, d, S, r, sw, sw2),
         NEW b2, NEW x2, NEW s2, NoneLost(db, b, x, s, r, b2, x2, s2),
         OpensDue(db, sw, r, sw2, b2, x2), KeepsWell(db, r, b2, s2)
  PROVE  Ahead(r, b2, x2, s2, sw2)
<1>0. /\ ScanDb(r) /\ Grown(db, r) /\ db.loaded \subseteq r.loaded /\ sw \subseteq sw2
      /\ Fills(db, S, r) /\ NamesOnly(db, d, r) /\ LidsStay(db, r)
  BY DEF Goes, More, Learns
<1>1. \A w : Opened(db, sw, w) => Opened(r, sw2, w)
  BY <1>0, OpenedGrows
<1>2. \A w \in Place : Kept(db, w) => Kept(r, w)
  BY DEF KeepsWell, Kept
<1>3. AllAhead(r, b2, x2, s2, sw2)
  <2> SUFFICES ASSUME NEW w \in Place, Opened(r, sw2, w), ~Due(b2, x2, w)
               PROVE  OnWay(r, s2, w) \/ Kept(r, w)
    BY DEF AllAhead
  <2>1. Opened(db, sw, w)
    BY DEF OpensDue
  <2>2. Due(b, x, w) \/ OnWay(db, s, w) \/ Kept(db, w)
    BY <2>1 DEF Ahead, AllAhead
  <2> QED
    BY <1>2, <2>2 DEF NoneLost
<1>4. AllKept(r, b2, s2)
  <2> SUFFICES ASSUME NEW w \in Place, Kept(r, w), ~KeptWell(r, b2, s2, w)
               PROVE  FALSE
    BY DEF AllKept
  <2>1. Kept(db, w)
    BY DEF KeepsWell
  <2>2. HasLid(db, w) /\ Listed1(db, Place1(w)) /\ (w \in DOMAIN Link => Crossed(db, b, s, Place1(w)))
    BY <2>1 DEF Ahead, AllKept, KeptWell
  <2>3. HasLid(r, w)
    BY <1>0, <2>2, PlacePort DEF HasLid, LidsStay
  <2>4. Listed1(r, Place1(w))
    BY <1>0, <2>2, ListedStays
  <2>5. w \in DOMAIN Link => Crossed(r, b2, s2, Place1(w))
    BY <2>2 DEF NoneLost
  <2> QED
    BY <2>3, <2>4, <2>5 DEF KeptWell
<1>5. SlotsOpened(r, sw2)
  <2> SUFFICES ASSUME NEW n \in NodeObj, NEW i \in 0..MaxPort, r.slot[n][i] # None
               PROVE  <<n[1], i>> \in Place /\ Opened(r, sw2, <<n[1], i>>)
    BY DEF SlotsOpened
  <2>1. CASE db.slot[n][i] # None
    BY <1>1, <2>1 DEF Ahead, SlotsOpened
  <2>2. CASE <<n, i>> \in S
    BY <2>2 DEF Goes, OpenSlots
  <2> QED
    BY <1>0, <2>1, <2>2 DEF Fills
<1>6. SwitchesFound(r, sw2)
  <2> SUFFICES ASSUME NEW n \in NodeObj, r.class[n] # None, IsSwitch(n[1]) PROVE n \in sw2
    BY DEF SwitchesFound
  <2>1. CASE db.class[n] # None
    BY <1>0, <2>1 DEF Ahead, SwitchesFound
  <2>2. CASE n = <<d, 1>>
    BY <2>1, <2>2 DEF Goes, Sees
  <2> QED
    BY <1>0, <2>1, <2>2 DEF NamesOnly
<1>7. LocalFound(r, sw2)
  BY <1>1 DEF Ahead, LocalFound, Goes
<1> QED
  BY <1>3, <1>4, <1>5, <1>6, <1>7 DEF Ahead

(* A step that learns nothing of ports.                                    *)
LEMMA SameGoes ==
  ASSUME NEW db, NEW r, ScanDb(r), Grown(db, r), r.loaded = db.loaded,
         r.slot = db.slot, r.class = db.class, r.lid = db.lid, NEW d, NEW sw
  PROVE  Goes(db, d, {}, r, sw, sw)
<1>1. Learns(db, d, {}, r)
  BY LearnsNothing
<1> QED
  BY <1>1 DEF Goes, More, OpenSlots, Sees

(* A do_todo's step: what is due stays, or is asked, or has been kept.     *)
TakesTurn(db, b, x, s, r, b2, x2, s2) ==
  /\ s \subseteq s2 /\ r.pinf = db.pinf /\ r.topology = db.topology /\ r.loaded = db.loaded
  /\ \A w \in Place : Due(b, x, w) => Due(b2, x2, w) \/ OnWay(r, s2, w) \/ Kept(r, w)
  /\ \A p : Queued(b, p) => Queued(b2, p) \/ r.topology[p] # None \/ \E j \in s2 : j.what = "node" /\ j.path = p

LEMMA AheadTurns ==
  ASSUME NEW db, NEW b, NEW x, NEW s, NEW sw, Ahead(db, b, x, s, sw), ScanDb(db), JobsRight(db, s),
         NEW d, NEW S, NEW r, Goes(db, d, S, r, sw, sw),
         NEW b2, NEW x2, NEW s2, TakesTurn(db, b, x, s, r, b2, x2, s2)
  PROVE  Ahead(r, b2, x2, s2, sw)
<1>1. Grown(db, r)
  BY DEF Goes, More
<1>2. \A w : OnWay(db, s, w) => OnWay(r, s2, w)
  BY <1>1, AskPlaceStays DEF OnWay, TakesTurn, JobsRight
<1>3. \A p : Crossed(db, b, s, p) => Crossed(r, b2, s2, p)
  BY DEF Crossed, TakesTurn
<1>4. NoneLost(db, b, x, s, r, b2, x2, s2)
  BY <1>2, <1>3 DEF NoneLost, TakesTurn
<1>5. OpensDue(db, sw, r, sw, b2, x2)
  BY DEF OpensDue, Opened, TakesTurn
<1>6. KeepsWell(db, r, b2, s2)
  BY DEF KeepsWell, TakesTurn, Kept
<1> QED
  BY <1>4, <1>5, <1>6, AheadOn

AheadNow == Ahead(sbn, todo, ctx, jobs, switches)

(* A step that only moves work from a bucket to a generator.               *)
LEMMA TurnsSame ==
  ASSUME SmpInv, Scanning, AheadNow, UNCHANGED <<sbn, switches>>,
         NEW b2, b2 = todo', NEW x2, x2 = ctx', NEW s2, s2 = jobs',
         TakesTurn(sbn, todo, ctx, jobs, sbn, b2, x2, s2)
  PROVE  AheadNow'
<1> PICK db : db = sbn
  OBVIOUS
<1>1. ScanDb(db) /\ JobsRight(db, jobs) /\ Grown(db, db)
  BY JobsNow, LaterSame DEF Later
<1>2. Goes(db, None, {}, db, switches, switches)
  BY <1>1, SameGoes
<1>3. Ahead(db, b2, x2, s2, switches)
  BY <1>1, <1>2, AheadTurns DEF AheadNow
<1> QED
  BY <1>3 DEF AheadNow

(* The buckets hold what they held, and the turns are still to come.       *)
LEMMA AheadWaits ==
  ASSUME SmpInv, AheadNow, Shapes, NEW c \in Ctx, TodoCheck(c) \/ TodoWoken(c) \/ TodoEmpty(c)
  PROVE  AheadNow'
<1>1. Scanning /\ UNCHANGED <<sbn, jobs, switches>> /\ ctx[c].pc # "iter"
  BY DEF TodoCheck, TodoWoken, TodoEmpty, May, AtTop
<1>2. \A e \in Ctx : e # c => ctx'[e] = ctx[e]
  <2>1. \/ \E at : ctx' = At(c, at)
        \/ \E on : ctx' = [ctx EXCEPT ![c].pc = "wait", ![c].on = on]
    BY DEF TodoCheck, TodoWoken, TodoEmpty
  <2> QED
    BY <2>1 DEF At, Shapes
<1>3. \A d \in Depth : todo[d].nodes = todo'[d].nodes /\ todo[d].ports = todo'[d].ports
  <2>1. \/ todo' = todo
        \/ \E d : todo' = [todo EXCEPT ![d].ctx = None]
        \/ \E d : todo' = [todo EXCEPT ![d].running = FALSE]
    BY DEF TodoCheck, TodoWoken, TodoEmpty
  <2> QED
    BY <2>1 DEF Shapes
<1> PICK b2 : b2 = todo'
  BY SMTT(30)
<1> PICK x2 : x2 = ctx'
  BY SMTT(30)
<1>4. \A e, k, w : InTurn(ctx, e, k, w) => InTurn(x2, e, k, w)
  BY <1>1, <1>2, SameTurns
<1>5. /\ \A d, k, w : InBucket(todo, d, k, w) => InBucket(b2, d, k, w)
      /\ \A d, k, p : InNodes(todo, d, k, p) => InNodes(b2, d, k, p)
  BY <1>3, SameBuckets
<1>6. TakesTurn(sbn, todo, ctx, jobs, sbn, b2, x2, jobs)
  BY <1>4, <1>5 DEF TakesTurn, Due, Queued
<1> QED
  BY <1>1, <1>6, TurnsSame

(* Nothing but the last element leaves by Front, the first by Tail.        *)
LEMMA FrontKeeps ==
  ASSUME NEW S, NEW s \in Seq(S), s # <<>>, NEW k \in DOMAIN s, k # Len(s)
  PROVE  k \in DOMAIN Front(s) /\ Front(s)[k] = s[k]
<1>1. Len(s) \in Nat /\ DOMAIN s = 1..Len(s)
  OBVIOUS
<1>2. Front(s) = SubSeq(s, 1, Len(s) - 1)
  BY DEF Front
<1>3. k \in 1..(Len(s) - 1)
  BY <1>1
<1> QED
  BY <1>1, <1>2, <1>3

(* Without its first element a sequence has the others.                    *)
LEMMA TailKeeps ==
  ASSUME NEW S, NEW s \in Seq(S), s # <<>>, NEW k \in DOMAIN s, k # 1
  PROVE  \E l \in DOMAIN Tail(s) : Tail(s)[l] = s[k]
<1>1. Len(s) \in Nat /\ DOMAIN s = 1..Len(s) /\ Len(s) # 0
  OBVIOUS
<1>2. Tail(s) \in Seq(S) /\ Len(Tail(s)) = Len(s) - 1 /\ DOMAIN Tail(s) = 1..(Len(s) - 1)
  BY <1>1
<1> PICK l : l = k - 1
  OBVIOUS
<1>3. l \in 1..(Len(s) - 1) /\ l + 1 = k
  BY <1>1
<1>4. Tail(s)[l] = s[l + 1]
  BY <1>1, <1>3
<1> QED
  BY <1>2, <1>3, <1>4

(* A generator has every place of the item it took up before it.           *)
LEMMA RemHas ==
  ASSUME NEW db, ScanDb(db), NEW x \in PortItems(db), NEW rem, rem = RemOf(x), NEW w \in ItemPlaces(x)
  PROVE  \E k \in DOMAIN rem : w = <<x.node[1], rem[k]>>
<1>1. x.node[1] \in Device
  <2>1. x.node \in NodeObj
    BY DEF PortItems
  <2> QED
    BY <2>1 DEF NodeObj
<1>2. NumPorts[x.node[1]] \in Nat
  BY <1>1, FabricAssumption DEF FabricAssumption
<1> PICK n : n = NumPorts[x.node[1]]
  OBVIOUS
<1>3. CASE x.idx = None
  <2>1. rem = [i \in 1..(n + 1) |-> i - 1] /\ n \in Nat
    BY <1>2, <1>3 DEF RemOf
  <2>2. w = <<x.node[1], w[2]>> /\ w[2] \in 0..n
    BY <1>3 DEF ItemPlaces
  <2> PICK k : k = w[2] + 1
    OBVIOUS
  <2>3. k \in DOMAIN rem /\ rem[k] = w[2]
    BY <2>1, <2>2
  <2> QED
    BY <2>2, <2>3
<1>4. CASE x.idx # None
  <2>1. rem = <<x.idx>> /\ 1 \in DOMAIN rem /\ rem[1] = x.idx
    BY <1>4 DEF RemOf
  <2>2. w = <<x.node[1], x.idx>>
    BY <1>4 DEF ItemPlaces
  <2> QED
    BY <2>1, <2>2
<1> QED
  BY <1>3, <1>4

(* A generator takes up the ports of a node.                               *)
LEMMA AheadPorts ==
  ASSUME SmpInv, AheadNow, Shapes, NEW c \in Ctx, TodoPorts(c)
  PROVE  AheadNow'
<1> PICK d : d = c[1]
  OBVIOUS
<1> PICK s : s = todo[d].ports
  OBVIOUS
<1> PICK x : x = Last(s)
  OBVIOUS
<1> PICK rem : rem = RemOf(x)
  OBVIOUS
<1>0. d \in Depth
  BY DEF Ctx
<1>1. /\ Scanning /\ UNCHANGED <<sbn, jobs, switches, reads>> /\ s # <<>> /\ ctx[c].pc # "iter"
      /\ todo' = [todo EXCEPT ![d].ports = Front(@)]
      /\ ctx' = [ctx EXCEPT ![c].pc = "iter", ![c].node = x.node, ![c].path = x.path, ![c].rem = rem]
  BY ZenonT(30) DEF TodoPorts, May, RemOf
<1>2. x \in PortItems(sbn) /\ s \in Seq(PortItems(sbn)) /\ ScanDb(sbn)
  <2>1. BucketRight(sbn, todo[d])
    BY <1>0, <1>1, WorkNow
  <2> QED
    BY <1>0, <1>1, <2>1, LastPorts, ScanNow DEF BucketRight
<1> PICK b2 : b2 = todo'
  BY SMTT(30)
<1> PICK x2 : x2 = ctx'
  BY SMTT(30)
<1>3. /\ b2[d].ports = Front(s) /\ b2[d].nodes = todo[d].nodes
      /\ \A e \in Depth : e # d => b2[e] = todo[e]
  BY <1>0, <1>1 DEF Shapes
<1>4. /\ x2[c].pc = "iter" /\ x2[c].node = x.node /\ x2[c].rem = rem
      /\ \A e \in Ctx : e # c => x2[e] = ctx[e]
  BY <1>1 DEF Shapes
<1> PICK K : K = Len(s)
  OBVIOUS
<1>5. K \in DOMAIN s /\ x = s[K]
  BY <1>1, <1>2, FrontElements
<1>6. \A e, k, p : InNodes(todo, e, k, p) => InNodes(b2, e, k, p)
  BY <1>3 DEF InNodes
<1>7. \A e, k, w : InTurn(ctx, e, k, w) => InTurn(x2, e, k, w)
  BY <1>1, <1>4, ZenonT(30) DEF InTurn
<1>8. \A w : w \in ItemPlaces(x) => \E k : InTurn(x2, c, k, w)
  BY <1>2, <1>4, RemHas DEF InTurn
<1>9. ASSUME NEW e, NEW k, NEW w, InBucket(todo, e, k, w)
      PROVE  InBucket(b2, e, k, w) \/ w \in ItemPlaces(x)
  <2>1. e \in Depth /\ k \in DOMAIN todo[e].ports /\ w \in ItemPlaces(todo[e].ports[k])
    BY <1>9 DEF InBucket
  <2>2. CASE e # d
    BY <1>3, <2>1, <2>2 DEF InBucket
  <2>3. CASE e = d /\ k = K
    BY <1>5, <2>1, <2>3
  <2>4. CASE e = d /\ k # K
    <3>1. k \in DOMAIN Front(s) /\ Front(s)[k] = s[k]
      BY <1>1, <1>2, <2>1, <2>4, FrontKeeps
    <3> QED
      BY <1>3, <2>1, <2>4, <3>1 DEF InBucket
  <2> QED
    BY <2>2, <2>3, <2>4
<1>10. \A w : Due(todo, ctx, w) => Due(b2, x2, w)
  BY <1>7, <1>8, <1>9 DEF Due
<1>11. TakesTurn(sbn, todo, ctx, jobs, sbn, b2, x2, jobs)
  BY <1>6, <1>10 DEF TakesTurn, Queued
<1> QED
  BY <1>1, <1>11, TurnsSame, ZenonT(30)

(* The next port is asked, or is kept.                                     *)
LEMMA AheadPort ==
  ASSUME SmpInv, OnceInv, AheadNow, Shapes, NEW c \in Ctx, TodoPort(c)
  PROVE  AheadNow'
<1> PICK db : db = sbn
  OBVIOUS
<1> PICK x : x = ctx[c]
  OBVIOUS
<1> PICK n : n = x.node
  OBVIOUS
<1> PICK i : i = Head(x.rem)
  OBVIOUS
<1> PICK h : h = x.path
  OBVIOUS
<1> PICK w0 : w0 = <<n[1], i>>
  OBVIOUS
<1> PICK new : new = [what |-> "port", path |-> h, depth |-> c[1], idx |-> i, by |-> c]
  OBVIOUS
<1>1. /\ Scanning /\ x.pc = "iter" /\ UNCHANGED <<todo, switches>>
      /\ sbn' = WithPort(db, n, i)
      /\ ctx' = [ctx EXCEPT ![c].rem = Tail(@), ![c].pc = IF Len(x.rem) = 1 THEN "top" ELSE "iter"]
      /\ \/ PortAt(db, n, i) \in db.pinf /\ jobs' = jobs
         \/ jobs' = jobs \cup {new}
  BY DEF TodoPort, May, Spawn
<1>2. ScanDb(db) /\ EpReached(db) /\ JobsRight(db, jobs)
  BY <1>1, JobsNow
<1>3. /\ Reached(db, h) /\ n = Parent(db.path[h].ep)
      /\ x.rem \in Seq(Askable(db, h)) /\ x.rem # <<>>
  <2>1. CtxRight(db, x)
    BY <1>1, CtxNow
  <2> QED
    BY <1>1, <2>1 DEF CtxRight
<1>4. i \in Askable(db, h)
  BY <1>3, TakenFrom
<1>5. i \in 0..MaxPort /\ n \in NodeObj /\ db.class[n] # None
  <2>1. i \in 0..MaxPort
    BY <1>4 DEF Askable
  <2>2. Parent(db.path[h].ep) \in NodeObj /\ db.class[Parent(db.path[h].ep)] # None
    BY <1>2, <1>3, ReachedFacts
  <2> QED
    BY <1>3, <2>1, <2>2
<1> PICK r : r = sbn'
  BY SMTT(30)
<1> PICK x2 : x2 = ctx'
  BY SMTT(30)
<1> PICK s2 : s2 = jobs'
  BY SMTT(30)
<1>6. /\ Later(db, r) /\ r.topology = db.topology /\ r.loaded = db.loaded /\ r.pinf = db.pinf
      /\ PortAt(db, n, i) = <<n, i>>
  BY <1>1, <1>2, <1>5, WithPortScan
<1>7. <<n, i>> = Place1(w0)
  <2>1. n = <<n[1], 1>>
    BY <1>2, <1>5, CopyFacts
  <2>2. Place1(w0) = <<<<n[1], 1>>, i>>
    BY DEF Place1
  <2> QED
    BY <2>1, <2>2
<1>8. /\ \A e \in Ctx : e # c => x2[e] = ctx[e]
      /\ x2[c].node = n /\ x2[c].rem = Tail(x.rem)
      /\ Len(x.rem) # 1 => x2[c].pc = "iter"
  BY <1>1 DEF Shapes
<1>9. 1 \in DOMAIN x.rem /\ i = x.rem[1]
  BY <1>3, TailElements
<1>10. InTurn(ctx, c, 1, w0)
  BY <1>1, <1>9 DEF InTurn
<1>11. w0 \in Place /\ Opened(db, switches, w0)
  <2>1. DueUnread(db, todo, ctx, switches, reads)
    BY <1>1, OnceNow DEF Once, PortsOnce
  <2> QED
    BY <1>10, <2>1 DEF DueUnread, Due
<1>12. ASSUME NEW e, NEW k, NEW w, InTurn(ctx, e, k, w), w # w0
       PROVE  \E l : InTurn(x2, e, l, w)
  <2>1. CASE e # c
    BY <1>8, <1>12, <2>1 DEF InTurn
  <2>2. CASE e = c
    <3>1. k \in DOMAIN x.rem /\ w = <<n[1], x.rem[k]>> /\ k # 1
      BY <1>9, <1>12, <2>2 DEF InTurn
    <3>2. \E l \in DOMAIN Tail(x.rem) : Tail(x.rem)[l] = x.rem[k]
      BY <1>3, <3>1, TailKeeps
    <3>3. Len(x.rem) # 1
      BY <1>3, <3>1
    <3> QED
      BY <1>8, <2>2, <3>1, <3>2, <3>3 DEF InTurn
  <2> QED
    BY <2>1, <2>2
<1>13. OnWay(r, s2, w0) \/ Kept(r, w0)
  <2>1. CASE PortAt(db, n, i) \in db.pinf
    BY <1>6, <1>7, <2>1 DEF Kept
  <2>2. CASE s2 = jobs \cup {new}
    <3>1. new \in s2 /\ new.what = "port" /\ new.path = h /\ new.idx = i
      BY <2>2
    <3>2. AskPlace(r, new) = w0
      BY <1>3, <1>6, <3>1 DEF AskPlace, Later
    <3> QED
      BY <3>1, <3>2 DEF OnWay
  <2> QED
    BY <1>1, <2>1, <2>2
<1>14. \A w : Due(todo, ctx, w) => Due(todo, x2, w) \/ OnWay(r, s2, w) \/ Kept(r, w)
  BY <1>12, <1>13 DEF Due
<1>15. TakesTurn(db, todo, ctx, jobs, r, todo, x2, s2)
  BY <1>1, <1>6, <1>14 DEF TakesTurn
<1>16. Goes(db, n[1], {<<n, i>>}, r, switches, switches)
  <2> PICK S : S = {<<n, i>>}
    OBVIOUS
  <2>1. DbInv(db, {}) /\ <<n, i>> \in S
    BY <1>2 DEF ScanDb
  <2>2. Learns(db, n[1], S, r)
    BY <1>1, <1>5, <2>1, WithPortLearns
  <2>3. ScanDb(r) /\ Grown(db, r) /\ r.class = db.class
    BY <1>6 DEF Later
  <2>4. OpenSlots(S, r, switches)
    <3>1. Opened(r, switches, w0)
      BY <1>6, <1>11 DEF Opened
    <3> QED
      BY <1>11, <3>1 DEF OpenSlots
  <2> QED
    BY <1>6, <2>2, <2>3, <2>4 DEF Goes, More, Sees
<1>17. Ahead(r, todo, x2, s2, switches)
  BY <1>2, <1>15, <1>16, AheadTurns DEF AheadNow
<1> QED
  BY <1>1, <1>17 DEF AheadNow

(* The last node queued is read, or its link was known.                    *)
AllButOne(b, p, b2) ==
  /\ \A q : Queued(b, q) => Queued(b2, q) \/ q = p
  /\ \A e, k, w : InBucket(b, e, k, w) => InBucket(b2, e, k, w)

LEMMA LastQueued ==
  ASSUME SmpInv, Shapes, Scanning, NEW d \in Depth, todo[d].nodes # <<>>,
         NEW b2, b2 = [todo EXCEPT ![d].nodes = Front(@)], NEW x, x = Last(todo[d].nodes)
  PROVE  AllButOne(todo, x.aport, b2)
<1> PICK s : s = todo[d].nodes
  OBVIOUS
<1> PICK K : K = Len(s)
  OBVIOUS
<1>1. s \in Seq(NodeItems(sbn)) /\ s # <<>>
  BY WorkNow DEF BucketRight
<1>2. /\ b2[d].nodes = Front(s) /\ b2[d].ports = todo[d].ports
      /\ \A e \in Depth : e # d => b2[e] = todo[e]
  BY DEF Shapes
<1>3. x = s[K]
  BY <1>1, FrontElements
<1>4. ASSUME NEW p, NEW e, NEW k, InNodes(todo, e, k, p) PROVE InNodes(b2, e, k, p) \/ p = x.aport
  <2>1. e \in Depth /\ k \in DOMAIN todo[e].nodes /\ p = todo[e].nodes[k].aport
    BY <1>4 DEF InNodes
  <2>2. CASE e # d
    BY <1>2, <2>1, <2>2 DEF InNodes
  <2>3. CASE e = d /\ k = K
    BY <1>3, <2>1, <2>3
  <2>4. CASE e = d /\ k # K
    <3>1. k \in DOMAIN Front(s) /\ Front(s)[k] = s[k]
      BY <1>1, <2>1, <2>4, FrontKeeps
    <3> QED
      BY <1>2, <2>1, <2>4, <3>1 DEF InNodes
  <2> QED
    BY <2>2, <2>3, <2>4
<1>5. \A e, k, w : InBucket(todo, e, k, w) => InBucket(b2, e, k, w)
  BY <1>2 DEF InBucket
<1> QED
  BY <1>4, <1>5 DEF Queued, AllButOne

(* A generator takes up a path to a node, or drops it.                     *)
LEMMA AheadNode ==
  ASSUME SmpInv, AheadNow, Shapes, NEW c \in Ctx, TodoNode(c)
  PROVE  AheadNow'
<1> PICK db : db = sbn
  OBVIOUS
<1> PICK d : d = c[1]
  OBVIOUS
<1> PICK x : x = Last(todo[d].nodes)
  OBVIOUS
<1> PICK p : p = x.aport
  OBVIOUS
<1>0. d \in Depth
  BY DEF Ctx
<1>1. /\ Scanning /\ UNCHANGED <<switches, reads>> /\ todo[d].nodes # <<>> /\ ctx[c].pc # "iter"
      /\ todo' = [todo EXCEPT ![d].nodes = Front(@)]
  BY DEF TodoNode, AtTop, May
<1>2. x \in NodeItems(db) /\ ScanDb(db) /\ EpReached(db) /\ JobsRight(db, jobs)
  BY <1>0, <1>1, LastNode, JobsNow
<1> PICK b2 : b2 = todo'
  BY SMTT(30)
<1> PICK x2 : x2 = ctx'
  BY SMTT(30)
<1>3. \A e \in Ctx : e # c => x2[e] = ctx[e]
  <2>1. \E at : ctx' = At(c, at)
    BY DEF TodoNode
  <2> QED
    BY <2>1 DEF At, Shapes
<1>4. \A e, k, w : InTurn(ctx, e, k, w) => InTurn(x2, e, k, w)
  BY <1>1, <1>3, SameTurns
<1>5. AllButOne(todo, p, b2)
  <2>1. b2 = [todo EXCEPT ![d].nodes = Front(@)]
    BY <1>1
  <2>2. AllButOne(todo, x.aport, b2)
    BY <1>0, <1>1, <2>1, LastQueued
  <2> QED
    BY <2>2
<1>6. \A w : Due(todo, ctx, w) => Due(b2, x2, w)
  BY <1>4, <1>5 DEF Due, AllButOne
<1>7. CASE PeerKnown(p)
  <2>1. UNCHANGED <<sbn, jobs>>
    BY <1>7, SMTT(30) DEF TodoNode
  <2>2. db.topology[p] # None
    BY <1>7 DEF PeerKnown
  <2>3. TakesTurn(db, todo, ctx, jobs, db, b2, x2, jobs)
    BY <1>5, <1>6, <2>2 DEF TakesTurn, AllButOne
  <2> QED
    BY <1>1, <2>1, <2>3, TurnsSame
<1>8. CASE ~PeerKnown(p)
  <2> PICK j : j = [what |-> "node", path |-> p, depth |-> d, peer |-> p, by |-> c]
    OBVIOUS
  <2> PICK new : new = advance_dr(db, db.path[x.path], x.idx)
    OBVIOUS
  <2> PICK r : r = sbn'
    BY SMTT(30)
  <2> PICK s2 : s2 = jobs'
    BY SMTT(30)
  <2>1. r = PathPut(db, p, new) /\ s2 = jobs \cup {j}
    BY <1>8, ZenonT(30) DEF TodoNode, Spawn, PathPut, NextPath
  <2>2. ~(db.topology[p] # None /\ Parent(db.topology[p]) \in db.ninf)
    BY <1>8 DEF PeerKnown
  <2>3. ScanOn(db, r) /\ PutOn(db, r, p, new)
    BY <1>2, <2>1, <2>2, NodeReads, NodeReadPuts, ZenonT(120)
  <2>4. r.slot = db.slot /\ r.lid = db.lid /\ r.pinf = db.pinf
    <3>1. DOMAIN db = DOMAIN EmptyDb
      BY <1>2 DEF ScanDb, DbInv, DbTypes
    <3> QED
      BY <2>1, <3>1, ZenonT(30) DEF PathPut, EmptyDb
  <2>5. r.class = db.class /\ r.topology = db.topology /\ r.loaded = db.loaded /\ Grown(db, r) /\ ScanDb(r)
    BY <2>3, ZenonT(30) DEF PutOn, ScanOn
  <2>6. Goes(db, None, {}, r, switches, switches)
    BY <2>4, <2>5, SameGoes
  <2>7. j \in s2 /\ j.what = "node" /\ j.path = p
    BY <2>1, ZenonT(120)
  <2>8. TakesTurn(db, todo, ctx, jobs, r, b2, x2, s2)
    BY <1>5, <1>6, <2>1, <2>4, <2>5, <2>7, ZenonT(30) DEF TakesTurn, AllButOne
  <2>9. Ahead(r, b2, x2, s2, switches)
    BY <1>2, <2>6, <2>8, AheadTurns DEF AheadNow
  <2> QED
    BY <1>1, <2>9 DEF AheadNow
<1> QED
  BY <1>7, <1>8

(* What was queued stays queued, and the new item is.                      *)
LEMMA ConcatKeeps ==
  ASSUME NEW S, NEW s \in Seq(S), NEW t \in Seq(S), NEW k \in DOMAIN s
  PROVE  k \in DOMAIN (s \o t) /\ (s \o t)[k] = s[k]
OBVIOUS

(* A sequence has the element appended to it.                              *)
LEMMA AppendHas ==
  ASSUME NEW S, NEW s \in Seq(S), NEW x \in S
  PROVE  \E k \in DOMAIN (s \o <<x>>) : (s \o <<x>>)[k] = x
<1> PICK k : k = Len(s) + 1
  OBVIOUS
<1>1. k \in DOMAIN (s \o <<x>>) /\ (s \o <<x>>)[k] = x
  OBVIOUS
<1> QED
  BY <1>1

BucketsGrow(b, b2) ==
  /\ \A q : Queued(b, q) => Queued(b2, q)
  /\ \A e, k, w : InBucket(b, e, k, w) => InBucket(b2, e, k, w)

(* Filling a bucket loses nothing.                                         *)
LEMMA FilledGrows ==
  ASSUME Shapes, NEW db, \A e \in Depth : BucketRight(db, todo[e]), NEW d \in Depth,
         NEW nodes \in Seq(NodeItems(db)), NEW ports \in Seq(PortItems(db)),
         NEW b, b = Filled(d, nodes, ports)
  PROVE  BucketsGrow(todo, b)
<1> PICK s : s = todo[d].nodes
  OBVIOUS
<1> PICK t : t = todo[d].ports
  OBVIOUS
<1>1. /\ b[d].nodes = s \o nodes /\ b[d].ports = t \o ports
      /\ \A e \in Depth : e # d => b[e] = todo[e]
  BY DEF Filled, Shapes
<1>2. s \in Seq(NodeItems(db)) /\ t \in Seq(PortItems(db))
  BY DEF BucketRight
<1>3. \A k \in DOMAIN s : k \in DOMAIN b[d].nodes /\ b[d].nodes[k] = s[k]
  BY <1>1, <1>2, ConcatKeeps
<1>4. \A k \in DOMAIN t : k \in DOMAIN b[d].ports /\ b[d].ports[k] = t[k]
  BY <1>1, <1>2, ConcatKeeps
<1>5. ASSUME NEW q, NEW e, NEW k, InNodes(todo, e, k, q) PROVE InNodes(b, e, k, q)
  <2>1. e \in Depth /\ k \in DOMAIN todo[e].nodes /\ q = todo[e].nodes[k].aport
    BY <1>5 DEF InNodes
  <2>2. k \in DOMAIN b[e].nodes /\ b[e].nodes[k] = todo[e].nodes[k]
    BY <1>1, <1>3, <2>1
  <2> QED
    BY <2>1, <2>2 DEF InNodes
<1>6. ASSUME NEW e, NEW k, NEW w, InBucket(todo, e, k, w) PROVE InBucket(b, e, k, w)
  <2>1. e \in Depth /\ k \in DOMAIN todo[e].ports /\ w \in ItemPlaces(todo[e].ports[k])
    BY <1>6 DEF InBucket
  <2>2. k \in DOMAIN b[e].ports /\ b[e].ports[k] = todo[e].ports[k]
    BY <1>1, <1>4, <2>1
  <2> QED
    BY <2>1, <2>2 DEF InBucket
<1> QED
  BY <1>5, <1>6 DEF BucketsGrow, Queued

(* What do_port queues is in its bucket.                                   *)
LEMMA NodeQueued ==
  ASSUME Shapes, NEW db, \A e \in Depth : BucketRight(db, todo[e]), NEW d \in Depth,
         NEW x \in NodeItems(db), NEW b, b = Filled(d, <<x>>, <<>>)
  PROVE  Queued(b, x.aport) /\ BucketsGrow(todo, b)
<1>0. BucketsGrow(todo, b)
  <2>1. <<x>> \in Seq(NodeItems(db)) /\ <<>> \in Seq(PortItems(db))
    BY OneItem
  <2>2. b = Filled(d, <<x>>, <<>>)
    OBVIOUS
  <2> QED
    BY <2>1, <2>2, FilledGrows
<1> PICK s : s = todo[d].nodes
  OBVIOUS
<1>1. b[d].nodes = s \o <<x>> /\ s \in Seq(NodeItems(db))
  BY DEF Filled, Shapes, BucketRight
<1>2. PICK k \in DOMAIN b[d].nodes : b[d].nodes[k] = x
  BY <1>1, AppendHas
<1>3. InNodes(b, d, k, x.aport)
  BY <1>2 DEF InNodes
<1> QED
  BY <1>0, <1>3 DEF Queued

(* What do_node queues is due.                                             *)
LEMMA PortsQueued ==
  ASSUME Shapes, NEW db, \A e \in Depth : BucketRight(db, todo[e]), NEW d \in Depth,
         NEW x \in PortItems(db), NEW b, b = Filled(d, <<>>, <<x>>)
  PROVE  BucketsGrow(todo, b) /\ \A w \in ItemPlaces(x) : \E k : InBucket(b, d, k, w)
<1>0. BucketsGrow(todo, b)
  <2>1. <<>> \in Seq(NodeItems(db)) /\ <<x>> \in Seq(PortItems(db))
    BY OneItem
  <2>2. b = Filled(d, <<>>, <<x>>)
    OBVIOUS
  <2> QED
    BY <2>1, <2>2, FilledGrows
<1> PICK s : s = todo[d].ports
  OBVIOUS
<1>1. b[d].ports = s \o <<x>> /\ s \in Seq(PortItems(db))
  BY DEF Filled, Shapes, BucketRight
<1>2. PICK k \in DOMAIN b[d].ports : b[d].ports[k] = x
  BY <1>1, AppendHas
<1>3. \A w \in ItemPlaces(x) : InBucket(b, d, k, w)
  BY <1>2 DEF InBucket
<1> QED
  BY <1>0, <1>3

(* A new generator takes no one's turn.                                    *)
LEMMA StartedKeepsTurns ==
  ASSUME DiscoveryAssumption, Shapes, InOrder, NEW d \in Depth, InBounds(d), NEW fills, Started(d, fills)
  PROVE  \A e, k, w : InTurn(ctx, e, k, w) => InTurn(ctx', e, k, w)
<1> SUFFICES ASSUME NEW e, NEW k, NEW w, InTurn(ctx, e, k, w)
             PROVE  InTurn(ctx', e, k, w)
  OBVIOUS
<1>1. e \in Ctx /\ ctx[e].pc = "iter"
  BY DEF InTurn
<1>2. CASE ctx' = ctx
  BY <1>2 DEF InTurn
<1>3. CASE StartsTodo(d) /\ \E x : ctx' = [ctx EXCEPT ![NewTodo(d)] = x]
  <2>1. NewTodo(d) \in Ctx
    BY <1>3 DEF InBounds
  <2>2. ~Used(NewTodo(d))
    BY <2>1, NewTodoFacts
  <2>3. e # NewTodo(d)
    BY <1>1, <2>2 DEF Used
  <2>4. ctx'[e] = ctx[e]
    BY <1>1, <1>3, <2>3 DEF Shapes
  <2> QED
    BY <2>4 DEF InTurn
<1> QED
  BY <1>2, <1>3 DEF Started

(* A PortInfo arrives at a port that was asked.                            *)
LEMMA EndPlaceIs ==
  ASSUME NEW w \in EndPlace
  PROVE  w \in Place /\ ToEndPlace(w) = w /\ (IsSwitch(w[1]) => w[2] = 0)
<1>1. w \in Place /\ w = ToEndPlace(w)
  BY DEF EndPlace
<1>2. IsSwitch(w[1]) => w[2] = 0
  <2> HAVE IsSwitch(w[1])
  <2>1. ToEndPlace(w) = <<w[1], 0>>
    BY <1>1, PlaceFacts
  <2> QED
    BY <1>1, <2>1
<1> QED
  BY <1>1, <1>2

(* A port with a LID answers it where it is read as an end port.           *)
LEMMA ReadLid ==
  ASSUME DiscoveryAssumption, NEW w \in EndPlace, Lid[w] # 0
  PROVE  PinfLid(w) # 0
<1>1. ToEndPlace(w) = w /\ (IsSwitch(w[1]) => w[2] = 0)
  BY EndPlaceIs
<1>2. ~(w[1] \in Shy /\ w[2] # 0)
  BY <1>1 DEF DiscoveryAssumption
<1> QED
  BY <1>1, <1>2 DEF PinfLid

TwoSlots(S, w, e) ==
  /\ <<<<w[1], 1>>, w[2]>> \in S /\ <<<<w[1], 1>>, e[2]>> \in S
  /\ \A q \in S : q = <<<<w[1], 1>>, w[2]>> \/ q = <<<<w[1], 1>>, e[2]>>
(* The slots of a port and of its end port, as a set.                      *)
LEMMA TwoSlotsAre == ASSUME NEW w, NEW e PROVE \E S : TwoSlots(S, w, e)
<1>1. TwoSlots({<<<<w[1], 1>>, w[2]>>, <<<<w[1], 1>>, e[2]>>}, w, e)
  BY DEF TwoSlots
<1> QED
  BY <1>1

(* The port and its end port are opened.                                   *)
LEMMA BothOpen ==
  ASSUME NEW r, NEW sw, NEW w \in Place, Opened(r, sw, w), NEW e, e = ToEndPlace(w),
         NEW S, TwoSlots(S, w, e)
  PROVE  OpenSlots(S, r, sw)
<1>1. w = <<w[1], w[2]>> /\ w[1] \in Device /\ e = <<w[1], e[2]>>
  BY PlaceFacts
<1>2. e \in Place /\ Opened(r, sw, e)
  <2>1. CASE ~IsSwitch(w[1])
    BY <2>1 DEF ToEndPlace
  <2>2. CASE IsSwitch(w[1])
    <3>1. e \in EndPlace
      BY <2>2, PlaceFacts
    <3>2. e[1] = w[1]
      BY <1>1
    <3> QED
      BY <2>2, <3>1, <3>2 DEF EndPlace, Opened
  <2> QED
    BY <2>1, <2>2
<1> SUFFICES ASSUME NEW n, NEW i, <<n, i>> \in S
             PROVE  <<n[1], i>> \in Place /\ Opened(r, sw, <<n[1], i>>)
  BY DEF OpenSlots
<1>3. CASE <<n, i>> = <<<<w[1], 1>>, w[2]>>
  <2>1. n[1] = w[1] /\ i = w[2]
    BY <1>3
  <2>2. <<n[1], i>> = w
    BY <1>1, <2>1
  <2> QED
    BY <2>2
<1>4. CASE <<n, i>> = <<<<w[1], 1>>, e[2]>>
  <2>1. n[1] = w[1] /\ i = e[2]
    BY <1>4
  <2>2. <<n[1], i>> = e
    BY <1>1, <2>1
  <2> QED
    BY <1>2, <2>2
<1> QED
  BY <1>3, <1>4 DEF TwoSlots

AnswersPort(db, b, x, s, sw, rd, j, w, r, b2, x2) ==
  /\ Ahead(db, b, x, s, sw) /\ ScanDb(db) /\ JobsRight(db, s) /\ PortsOnce(db, b, x, s, sw, rd)
  /\ j \in s /\ j.what = "port" /\ w = AskPlace(db, j)
  /\ ScanDb(r) /\ Grown(db, r) /\ r.loaded = db.loaded /\ r.topology = db.topology
  /\ \E S : TwoSlots(S, w, ToEndPlace(w)) /\ Informs(db, w, ToEndPlace(w), PinfLid(w), S, r)
  /\ BucketsGrow(b, b2) /\ \A e, k, u : InTurn(x, e, k, u) => InTurn(x2, e, k, u)
  /\ Unexplored(r, w, Place1(w)) => Queued(b2, Place1(w))

(* do_port keeps all that lies ahead.                                      *)
LEMMA AheadAnswered ==
  ASSUME DiscoveryAssumption, NEW db, NEW b, NEW x, NEW s, NEW sw, NEW rd, NEW j, NEW w, NEW r, NEW b2, NEW x2,
         AnswersPort(db, b, x, s, sw, rd, j, w, r, b2, x2)
  PROVE  Ahead(r, b2, x2, s \ {j}, sw)
<1> PICK e : e = ToEndPlace(w)
  OBVIOUS
<1> PICK s2 : s2 = s \ {j}
  OBVIOUS
<1>1. PICK S : TwoSlots(S, w, e) /\ Informs(db, w, e, PinfLid(w), S, r)
  BY DEF AnswersPort
<1>2. /\ Learns(db, w[1], S, r) /\ r.pinf = db.pinf \cup {Place1(w)} /\ Listed1(r, Place1(w))
      /\ PinfLid(w) # 0 => r.lid[Place1(e)] # None
  BY <1>1 DEF Informs
<1>3. /\ Ahead(db, b, x, s, sw) /\ ScanDb(db) /\ ScanDb(r) /\ Grown(db, r)
      /\ r.loaded = db.loaded /\ r.topology = db.topology
      /\ j \in s /\ j.what = "port" /\ w = AskPlace(db, j)
  BY DEF AnswersPort
<1>4. w \in Place /\ Opened(db, sw, w)
  BY <1>3 DEF AnswersPort, PortsOnce, AskedRead, ReadOpened
<1>5. \A u : Opened(r, sw, u) <=> Opened(db, sw, u)
  BY <1>3 DEF Opened
<1>6. Goes(db, w[1], S, r, sw, sw)
  <2>1. OpenSlots(S, r, sw)
    BY <1>1, <1>4, <1>5, BothOpen
  <2>2. Sees(db, w[1], r, sw)
    <3> SUFFICES ASSUME NEW n \in NodeObj, n = <<w[1], 1>>, IsSwitch(n[1]) PROVE n \in sw
      BY DEF Sees
    <3>1. IsSwitch(w[1])
      OBVIOUS
    <3> QED
      BY <1>4, <3>1 DEF Opened
  <2>3. More(db, sw, r, sw)
    BY <1>3 DEF More
  <2> QED
    BY <1>2, <1>3, <2>1, <2>2, <2>3 DEF Goes
<1>7. KeptWell(r, b2, s2, w)
  <2>1. HasLid(r, w)
    <3> SUFFICES ASSUME w \in EndPlace, Lid[w] # 0 PROVE r.lid[Place1(w)] # None
      BY DEF HasLid
    <3>1. PinfLid(w) # 0 /\ e = w
      BY ReadLid, EndPlaceIs
    <3> QED
      BY <1>2, <3>1
  <2>2. ASSUME w \in DOMAIN Link PROVE Crossed(r, b2, s2, Place1(w))
    <3>1. w[2] # 0
      BY <2>2, FabricAssumption DEF FabricAssumption
    <3>2. CASE r.topology[Place1(w)] # None
      BY <3>2 DEF Crossed
    <3>3. CASE r.topology[Place1(w)] = None
      <4>1. Unexplored(r, w, Place1(w))
        BY <2>2, <3>1, <3>3 DEF Unexplored
      <4> QED
        BY <4>1 DEF Crossed, AnswersPort
    <3> QED
      BY <3>2, <3>3
  <2> QED
    BY <1>2, <2>1, <2>2 DEF KeptWell
<1>8. KeepsWell(db, r, b2, s2)
  <2> SUFFICES ASSUME NEW u \in Place, Kept(r, u), ~Kept(db, u) PROVE KeptWell(r, b2, s2, u)
    BY <1>2 DEF KeepsWell
  <2>1. Place1(u) = Place1(w)
    BY <1>2 DEF Kept
  <2>2. u = w
    BY <1>4, <2>1, PlacePort
  <2> QED
    BY <1>7, <2>2
<1>9. NoneLost(db, b, x, s, r, b2, x2, s2)
  <2>1. \A u : Due(b, x, u) => Due(b2, x2, u)
    BY DEF Due, AnswersPort, BucketsGrow
  <2>2. ASSUME NEW u, OnWay(db, s, u) PROVE OnWay(r, s2, u) \/ Kept(r, u)
    <3>1. PICK k \in s : k.what = "port" /\ AskPlace(db, k) = u
      BY <2>2 DEF OnWay
    <3>2. CASE k = j
      BY <1>2, <1>3, <3>1, <3>2 DEF Kept
    <3>3. CASE k # j
      <4>1. AskPlace(r, k) = u
        <5>1. JobRight(db, k)
          BY <3>1 DEF AnswersPort, JobsRight
        <5> QED
          BY <1>3, <3>1, <5>1, AskPlaceStays
      <4> QED
        BY <3>1, <3>3, <4>1 DEF OnWay
    <3> QED
      BY <3>2, <3>3
  <2>3. ASSUME NEW p, Crossed(db, b, s, p) PROVE Crossed(r, b2, s2, p)
    <3>1. CASE \E k \in s : k.what = "node" /\ k.path = p
      <4>1. PICK k \in s : k.what = "node" /\ k.path = p
        BY <3>1
      <4>2. k \in s2
        BY <1>3, <4>1
      <4> QED
        BY <4>1, <4>2 DEF Crossed
    <3>2. CASE db.topology[p] # None \/ Queued(b, p)
      BY <1>3, <3>2 DEF Crossed, AnswersPort, BucketsGrow
    <3> QED
      BY <2>3, <3>1, <3>2 DEF Crossed
  <2> QED
    BY <2>1, <2>2, <2>3 DEF NoneLost
<1>10. OpensDue(db, sw, r, sw, b2, x2)
  BY <1>5 DEF OpensDue
<1> QED
  BY <1>3, <1>6, <1>8, <1>9, <1>10, AheadOn

(* Ahead, of the next state.                                               *)
LEMMA AheadStep ==
  ASSUME NEW r, r = sbn', NEW b, b = todo', NEW x, x = ctx', NEW s, s = jobs', NEW sw, sw = switches',
         Ahead(r, b, x, s, sw)
  PROVE  AheadNow'
BY DEF AheadNow

PortReplied(j, v, w, np, r) ==
  /\ v = LeadsTo(sbn.path[j.path]) /\ w = <<v[1], j.idx>>
  /\ np = get_port_pinf(sbn, w, w[2], PinfLid(w), Over(w, j.path)) /\ r = Rerouted(np.db, j, PinfLid(w))
  /\ ScanDb(sbn) /\ EpReached(sbn) /\ JobsRight(sbn, jobs) /\ JobRight(sbn, j)
  /\ j.what = "port" /\ Reached(sbn, j.path) /\ j.idx \in Askable(sbn, j.path)
  /\ w[1] = v[1] /\ w[2] = j.idx /\ w[2] \in 0..MaxPort
  /\ ToEndPlace(w) = ToEndPlace(v) /\ Parent(sbn.path[j.path].ep)[1] = v[1]
  /\ InfoStored(sbn, j, w, np, r)

(* What do_port leaves in the database, packaged.                          *)
LEMMA PortReplyIs ==
  ASSUME SmpInv, Scanning, NEW j \in jobs, Reply(j), j.what # "node", NEW r, r = sbn'
  PROVE  \E v, w, np : PortReplied(j, v, w, np, r)
<1> PICK db : db = sbn
  OBVIOUS
<1> PICK h : h = j.path
  OBVIOUS
<1> PICK v : v = LeadsTo(db.path[h])
  OBVIOUS
<1> PICK w : w = <<v[1], j.idx>>
  OBVIOUS
<1> PICK np : np = get_port_pinf(db, w, w[2], PinfLid(w), Over(w, h))
  OBVIOUS
<1>1. PortFound(j, w, Rerouted(np.db, j, PinfLid(w)), np.port)
  BY DEF Reply, DoPort, PortReply, PortStored, Over
<1>2. r = Rerouted(np.db, j, PinfLid(w))
  BY <1>1, ZenonT(30) DEF PortFound
<1>3. ScanDb(db) /\ EpReached(db) /\ JobsRight(db, jobs) /\ JobRight(db, j)
  BY JobsNow DEF JobsRight
<1>4. j.what = "port" /\ Reached(db, h) /\ j.idx \in Askable(db, h) /\ w[1] = v[1] /\ w[2] = j.idx /\ w[2] \in 0..MaxPort
  BY <1>3 DEF JobRight, PortJob, Askable
<1>5. ToEndPlace(w) = ToEndPlace(v) /\ Parent(db.path[h].ep)[1] = v[1]
  <2>1. v \in Spot /\ db.path[h].ep = Place1(ToEndPlace(v))
    BY <1>3, <1>4, ReachedFacts
  <2>2. v = <<v[1], v[2]>> /\ ToEndPlace(v)[1] = v[1] /\ (~IsSwitch(v[1]) => ToEndPlace(v) = v)
    BY <2>1, SpotFacts
  <2>3. Parent(db.path[h].ep)[1] = v[1] /\ db.path[h].ep[2] = ToEndPlace(v)[2]
    BY <2>1, <2>2 DEF Place1, Parent
  <2>4. CASE IsSwitch(v[1])
    BY <1>4, <2>3, <2>4 DEF ToEndPlace
  <2>5. CASE ~IsSwitch(v[1])
    <3>1. j.idx = v[2]
      BY <1>4, <2>2, <2>3, <2>5 DEF Askable
    <3> QED
      BY <2>2, <2>3, <3>1
  <2> QED
    BY <2>4, <2>5
<1>6. InfoStored(db, j, w, np, r)
  <2>1. /\ ScanDb(db) /\ EpReached(db) /\ Reached(db, j.path) /\ v = LeadsTo(db.path[j.path])
        /\ w[1] = v[1] /\ w[2] \in 0..MaxPort /\ ToEndPlace(w) = ToEndPlace(v)
        /\ np = get_port_pinf(db, w, w[2], PinfLid(w), Over(w, j.path)) /\ r = Rerouted(np.db, j, PinfLid(w))
    BY <1>2, <1>3, <1>4, <1>5, ZenonT(30)
  <2> QED
    BY <2>1, PortStores, ZenonT(30)
<1>7. PortReplied(j, v, w, np, r)
  BY <1>2, <1>3, <1>4, <1>5, <1>6, ZenonT(30) DEF PortReplied
<1> QED
  BY <1>7

(* A PortInfo arrives in a scan.                                           *)
LEMMA AheadPortReply ==
  ASSUME DiscoveryAssumption, SmpInv, OnceInv, AheadNow, Shapes, InOrder, Scanning,
         NEW j \in jobs, Reply(j), j.what # "node", j.depth \in Depth
  PROVE  AheadNow'
<1> PICK db : db = sbn
  OBVIOUS
<1> PICK h : h = j.path
  OBVIOUS
<1> PICK r : r = sbn'
  BY SMTT(30)
<1> PICK v, w, np : PortReplied(j, v, w, np, r)
  BY PortReplyIs
<1> PICK item : item = [aport |-> np.port, path |-> h, idx |-> j.idx]
  OBVIOUS
<1>1. /\ jobs' = jobs \ {j}
      /\ PortFound(j, w, Rerouted(np.db, j, PinfLid(w)), np.port)
  BY ZenonT(30) DEF Reply, DoPort, PortReply, PortStored, Over, PortReplied
<1>2. r = Rerouted(np.db, j, PinfLid(w)) /\ UNCHANGED switches
  BY <1>1 DEF PortFound
<1>20. Unexplored(r, w, np.port) => InBounds(j.depth + 1)
  BY <1>1, <1>2 DEF PortFound
<1>21. /\ Unexplored(r, w, np.port) => todo' = Filled(j.depth + 1, <<item>>, <<>>)
       /\ ~Unexplored(r, w, np.port) => todo' = todo
       /\ Unexplored(r, w, np.port) => Started(j.depth + 1, TRUE)
       /\ ~Unexplored(r, w, np.port) => ctx' = ctx
  BY <1>1, <1>2 DEF PortFound, Started
<1>3. ScanDb(db) /\ EpReached(db) /\ JobsRight(db, jobs) /\ JobRight(db, j)
  BY ZenonT(120) DEF PortReplied
<1>4. j.what = "port" /\ Reached(db, h) /\ j.idx \in Askable(db, h) /\ w[1] = v[1] /\ w[2] = j.idx /\ w[2] \in 0..MaxPort
  BY ZenonT(30) DEF PortReplied
<1>5. ToEndPlace(w) = ToEndPlace(v) /\ Parent(db.path[h].ep)[1] = v[1]
  BY ZenonT(120) DEF PortReplied
<1>6. w = AskPlace(db, j)
  BY <1>5, ZenonT(30) DEF AskPlace, PortReplied
<1>7. Once(db, todo, ctx, jobs, switches, reads)
  BY OnceNow
<1>8. InfoStored(db, j, w, np, r)
  BY ZenonT(30) DEF PortReplied
<1>22. Steadily(db, r, jobs)
  <2>1. /\ ScanDb(db) /\ EpReached(db) /\ Reached(db, j.path) /\ v = LeadsTo(db.path[j.path])
        /\ w[1] = v[1] /\ w[2] \in 0..MaxPort /\ ToEndPlace(w) = ToEndPlace(v)
        /\ np = get_port_pinf(db, w, w[2], PinfLid(w), Over(w, j.path)) /\ r = Rerouted(np.db, j, PinfLid(w))
    BY ZenonT(30) DEF PortReplied
  <2>2. NoFirst(jobs)
    <3>1. j # StartJob
      BY <1>4 DEF StartJob
    <3> QED
      BY <3>1, NoFirstNow
  <2> QED
    BY <1>3, <1>7, <2>1, <2>2, PortStoredSteady
<1>9. np.port = Place1(w) /\ np.port \in PortObj /\ Grown(db, r) /\ ScanDb(r) /\ r.path[h].ep = Place1(ToEndPlace(w))
      /\ r.loaded = db.loaded /\ r.topology = db.topology
  BY <1>8, <1>22 DEF InfoStored, ScanOn, Steadily
<1>10. \E S : TwoSlots(S, w, ToEndPlace(w)) /\ Informs(db, w, ToEndPlace(w), PinfLid(w), S, r)
  <2> PICK e : e = ToEndPlace(w)
    OBVIOUS
  <2>1. PICK S : TwoSlots(S, w, e)
    BY TwoSlotsAre
  <2>2. /\ <<<<w[1], 1>>, w[2]>> \in S /\ <<<<w[1], 1>>, e[2]>> \in S
        /\ ScanDb(db) /\ EpReached(db) /\ Reached(db, j.path) /\ v = LeadsTo(db.path[j.path])
        /\ w[1] = v[1] /\ w[2] \in 0..MaxPort /\ e = ToEndPlace(w) /\ e = ToEndPlace(v)
        /\ np = get_port_pinf(db, w, w[2], PinfLid(w), Over(w, j.path)) /\ r = Rerouted(np.db, j, PinfLid(w))
    <3>1. <<<<w[1], 1>>, w[2]>> \in S /\ <<<<w[1], 1>>, e[2]>> \in S
      BY <2>1 DEF TwoSlots
    <3>2. w[1] = v[1] /\ w[2] \in 0..MaxPort /\ e = ToEndPlace(w) /\ e = ToEndPlace(v)
      BY <1>4, <1>5
    <3>3. /\ ScanDb(db) /\ EpReached(db) /\ Reached(db, j.path) /\ v = LeadsTo(db.path[j.path])
          /\ np = get_port_pinf(db, w, w[2], PinfLid(w), Over(w, j.path)) /\ r = Rerouted(np.db, j, PinfLid(w))
      BY ZenonT(30) DEF PortReplied
    <3> QED
      BY <3>1, <3>2, <3>3
  <2>3. Informs(db, w, e, PinfLid(w), S, r)
    BY <2>2, PortLearns
  <2> QED
    BY <2>1, <2>3
<1> PICK b2 : b2 = todo'
  BY SMTT(30)
<1> PICK x2 : x2 = ctx'
  BY SMTT(30)
<1>11. BucketsGrow(todo, b2) /\ (Unexplored(r, w, Place1(w)) => Queued(b2, Place1(w)))
       /\ \A e, k, u : InTurn(ctx, e, k, u) => InTurn(x2, e, k, u)
  <2>1. CASE ~Unexplored(r, w, np.port)
    BY <1>21, <1>9, <2>1 DEF BucketsGrow
  <2>2. CASE Unexplored(r, w, np.port)
    <3>1. item \in NodeItems(r) /\ item.aport = Place1(w)
      <4>1. Reached(r, h) /\ h \in PathObj
        BY <1>4, <1>9, SMTT(30) DEF Grown, Reached, Held
      <4>2. Parent(r.path[h].ep) = <<w[1], 1>>
        <5> PICK e : e = ToEndPlace(w)
          OBVIOUS
        <5>1. e[1] = w[1]
          BY DEF ToEndPlace
        <5>2. r.path[h].ep = Place1(e)
          BY <1>9
        <5> QED
          BY <5>1, <5>2 DEF Place1, Parent
      <4>3. np.port = <<Parent(r.path[h].ep), j.idx>>
        BY <1>4, <1>9, <4>2 DEF Place1
      <4>4. item \in [aport : PortObj, path : PathObj, idx : 0..MaxPort]
        BY <1>4, <1>9, <4>1, SMTT(30)
      <4>5. item.aport = np.port
        OBVIOUS
      <4> QED
        BY <1>9, <4>1, <4>3, <4>4, <4>5 DEF NodeItems
    <3>2. \A e \in Depth : BucketRight(r, todo[e])
      BY <1>9, BucketsNow
    <3>3. j.depth + 1 \in Depth /\ InBounds(j.depth + 1)
      <4>1. InBounds(j.depth + 1)
        BY <1>20, <2>2
      <4> QED
        BY <4>1, DiscoveryAssumption DEF InBounds, Depth, DiscoveryAssumption
    <3>4. b2 = Filled(j.depth + 1, <<item>>, <<>>)
      BY <1>21, <2>2
    <3>5. Queued(b2, item.aport)
      BY <3>1, <3>2, <3>3, <3>4, NodeQueued
    <3>6. BucketsGrow(todo, b2)
      BY <3>1, <3>2, <3>3, <3>4, NodeQueued
    <3>7. \A e, k, u : InTurn(ctx, e, k, u) => InTurn(ctx', e, k, u)
      <4>1. Started(j.depth + 1, TRUE)
        BY <1>21, <2>2
      <4> QED
        BY <3>3, <4>1, StartedKeepsTurns
    <3> QED
      BY <3>1, <3>5, <3>6, <3>7
  <2> QED
    BY <2>1, <2>2
<1>12. AnswersPort(db, todo, ctx, jobs, switches, reads, j, w, r, b2, x2)
  <2>1. PortsOnce(db, todo, ctx, jobs, switches, reads)
    BY <1>7 DEF Once
  <2>2. Ahead(db, todo, ctx, jobs, switches)
    BY DEF AheadNow
  <2> QED
    BY <1>3, <1>4, <1>6, <1>9, <1>10, <1>11, <2>1, <2>2 DEF AnswersPort
<1>13. Ahead(r, b2, x2, jobs \ {j}, switches)
  BY <1>12, AheadAnswered
<1> QED
  BY <1>1, <1>2, <1>13 DEF AheadNow

(* A NodeInfo arrives: what it opens is queued.                            *)
AnswersNodeAhead(db, b, x, s, sw, rd, j, w, r, item, b2, x2, sw2) ==
  /\ AnswersNode(db, b, x, s, sw, rd, j, w, r, item, b2, x2, sw2) /\ Ahead(db, b, x, s, sw)
  /\ \E S : TwoSlots(S, w, ToEndPlace(w)) /\ LearnsRest(db, w[1], S, r)
  /\ BucketsGrow(b, b2) /\ \A e, k, u : InTurn(x, e, k, u) => InTurn(x2, e, k, u)
  /\ ~(IsSwitch(w[1]) /\ <<w[1], 1>> \in sw) => \A u \in ItemPlaces(item) : Due(b2, x2, u)

(* What the reply found, and how it came there.                            *)
LEMMA CameFrom ==
  ASSUME NEW db, NEW b, NEW x, NEW s, NEW sw, NEW rd, NEW j, NEW w, NEW r, NEW item, NEW b2, NEW x2, NEW sw2,
         AnswersNode(db, b, x, s, sw, rd, j, w, r, item, b2, x2, sw2)
  PROVE  \/ /\ j.by = None /\ j.peer = None /\ j.path = Start /\ w = Local /\ TopoItems \subseteq r.loaded
            /\ r.topology = db.topology
         \/ /\ j.by # None /\ j.path = j.peer /\ TopoItems \subseteq db.loaded
            /\ w \in DOMAIN Link /\ j.path = Place1(Link[w]) /\ r.topology[j.path] = Place1(w)
            /\ \A q \in PortObj : q # j.path /\ q # Place1(w) => r.topology[q] = db.topology[q]
            /\ Link[w] = Local \/ IsSwitch(Link[w][1])
<1>1. CASE j.by = None
  <2>1. j.peer = None /\ j.path = Start
    BY <1>1 DEF AnswersNode, NodeJob
  <2>2. w = Local
    BY <1>1 DEF AnswersNode, Once, ExitsRight, First
  <2>3. r.loaded = db.loaded \cup TopoItems /\ r.topology = db.topology
    BY <1>1, <2>1 DEF AnswersNode, NodeMoved, NodeStored, TopoNoted
  <2> QED
    BY <1>1, <2>1, <2>2, <2>3
<1>2. CASE j.by # None
  <2> PICK p : p = j.path
    OBVIOUS
  <2>1. p = j.peer /\ Exists(db, p) /\ TopoItems \subseteq db.loaded /\ ScanDb(db)
    BY <1>2 DEF AnswersNode, NodeJob
  <2>2. p = Place1(PlaceOf(p)) /\ p \in PortObj /\ p # None
    <3>1. p = Place1(PlaceOf(p)) /\ Parent(p) = <<PlaceOf(p)[1], 1>> /\ p \in PortObj
      BY <2>1, PortIsFirst
    <3> QED
      BY <3>1, FixedNone
  <2>3. Exit(db, s, rd, p) /\ w = Link[PlaceOf(p)]
    BY <1>2 DEF AnswersNode, Once, ExitsRight, Crossing, Crosses
  <2>4. w \in DOMAIN Link /\ Link[w] = PlaceOf(p)
    BY <2>3, FabricAssumption DEF Exit, FabricAssumption
  <2>5. p = Place1(Link[w])
    BY <2>2, <2>4
  <2>6. \A q \in PortObj : r.topology[q] = IF q = p THEN Place1(w) ELSE IF q = Place1(w) THEN p ELSE db.topology[q]
    BY <2>1, <2>2 DEF AnswersNode, NodeMoved, TopoNoted
  <2>7. Link[w] = Local \/ IsSwitch(Link[w][1])
    BY <2>3, <2>4 DEF Exit, PlaceOf
  <2> QED
    BY <1>2, <2>1, <2>2, <2>4, <2>5, <2>6, <2>7
<1> QED
  BY <1>1, <1>2

(* A NodeInfo opens the port it came in by.                                *)
LEMMA NodeOpens ==
  ASSUME NEW db, NEW b, NEW x, NEW s, NEW sw, NEW rd, NEW j, NEW w, NEW r, NEW item, NEW b2, NEW x2, NEW sw2,
         AnswersNode(db, b, x, s, sw, rd, j, w, r, item, b2, x2, sw2)
  PROVE  Opened(r, sw2, w)
<1>1. IsSwitch(w[1]) => <<w[1], 1>> \in sw2
  BY DEF AnswersNode
<1>2. \/ w = Local /\ TopoItems \subseteq r.loaded
      \/ w \in DOMAIN Link /\ r.topology[Place1(Link[w])] = Place1(w)
  BY CameFrom
<1>3. w \in Place
  BY SpotFacts DEF AnswersNode
<1>4. Place1(w) # None
  BY <1>3, PlacePort, FixedNone
<1> QED
  BY <1>1, <1>2, <1>4 DEF Opened

(* What a NodeInfo opens is due.                                           *)
LEMMA NodeOpensDue ==
  ASSUME NEW db, NEW b, NEW x, NEW s, NEW sw, NEW rd, NEW j, NEW w, NEW r, NEW item, NEW b2, NEW x2, NEW sw2,
         AnswersNode(db, b, x, s, sw, rd, j, w, r, item, b2, x2, sw2),
         ~(IsSwitch(w[1]) /\ <<w[1], 1>> \in sw) => \A u \in ItemPlaces(item) : Due(b2, x2, u)
  PROVE  OpensDue(db, sw, r, sw2, b2, x2)
<1> SUFFICES ASSUME NEW u \in Place, Opened(r, sw2, u), ~Opened(db, sw, u)
             PROVE  Due(b2, x2, u)
  BY DEF OpensDue
<1>1. u = <<u[1], u[2]>> /\ u[2] \in 0..NumPorts[u[1]]
  BY DEF Place
<1>2. /\ w = <<w[1], w[2]>> /\ w \in Place
      /\ item.node = <<w[1], 1>> /\ item.idx = IF IsSwitch(w[1]) THEN None ELSE w[2]
      /\ sw2 = IF IsSwitch(w[1]) THEN sw \cup {<<w[1], 1>>} ELSE sw
  BY SpotFacts DEF AnswersNode
<1>3. CASE IsSwitch(u[1])
  <2>1. <<u[1], 1>> \in sw2 /\ <<u[1], 1>> \notin sw
    BY <1>3 DEF Opened
  <2>2. u[1] = w[1] /\ IsSwitch(w[1])
    BY <1>2, <2>1
  <2>3. item.idx = None /\ item.node[1] = u[1]
    BY <1>2, <2>2
  <2>4. u \in ItemPlaces(item)
    BY <1>1, <2>3 DEF ItemPlaces
  <2> QED
    BY <2>1, <2>2, <2>4
<1>4. CASE ~IsSwitch(u[1])
  <2>1. u = w
    <3>1. \/ u = Local /\ TopoItems \subseteq r.loaded
          \/ u \in DOMAIN Link /\ r.topology[Place1(Link[u])] # None
      BY <1>4 DEF Opened
    <3>2. ~(u = Local /\ TopoItems \subseteq db.loaded) /\ ~(u \in DOMAIN Link /\ db.topology[Place1(Link[u])] # None)
      BY <1>4 DEF Opened
    <3>3. CASE w = Local /\ r.topology = db.topology
      BY <3>1, <3>2, <3>3
    <3>4. CASE /\ TopoItems \subseteq db.loaded /\ w \in DOMAIN Link /\ j.path = Place1(Link[w])
               /\ \A q \in PortObj : q # j.path /\ q # Place1(w) => r.topology[q] = db.topology[q]
               /\ Link[w] = Local \/ IsSwitch(Link[w][1])
      <4>1. u \in DOMAIN Link /\ r.topology[Place1(Link[u])] # None /\ u # Local
        BY <3>1, <3>2, <3>4
      <4>2. Link[u] \in Place /\ Link[w] \in Place /\ Link[Link[u]] = u /\ Link[Link[w]] = w
        BY <3>4, <4>1, FabricAssumption DEF FabricAssumption
      <4>3. Place1(Link[u]) \in PortObj
        BY <4>2, PlacePort
      <4>4. Place1(Link[u]) = Place1(Link[w]) \/ Place1(Link[u]) = Place1(w)
        BY <3>2, <3>4, <4>1, <4>3
      <4>5. Link[u] = Link[w] \/ Link[u] = w
        BY <1>2, <4>2, <4>4, PlacePort
      <4>6. CASE Link[u] = w
        <5>1. Link[w] = u
          BY <4>2, <4>6
        <5> QED
          BY <1>4, <3>4, <4>1, <5>1
      <4> QED
        BY <4>2, <4>5, <4>6
    <3> QED
      BY <3>3, <3>4, CameFrom
  <2>2. item.idx = w[2] /\ item.node[1] = w[1]
    BY <1>2, <1>4, <2>1
  <2>3. item.idx # None
    BY <1>1, <1>2, <2>1, <2>2, PlaceFacts, Ports, FixedNone
  <2>4. u \in ItemPlaces(item)
    BY <1>2, <2>1, <2>2, <2>3 DEF ItemPlaces
  <2> QED
    BY <1>4, <2>1, <2>4
<1> QED
  BY <1>3, <1>4

(* do_node keeps all that lies ahead.                                      *)
LEMMA AheadFound ==
  ASSUME NEW db, NEW b, NEW x, NEW s, NEW sw, NEW rd, NEW j, NEW w, NEW r, NEW item, NEW b2, NEW x2, NEW sw2,
         AnswersNodeAhead(db, b, x, s, sw, rd, j, w, r, item, b2, x2, sw2)
  PROVE  Ahead(r, b2, x2, s \ {j}, sw2)
<1> PICK e : e = ToEndPlace(w)
  OBVIOUS
<1> PICK s2 : s2 = s \ {j}
  OBVIOUS
<1>1. PICK S : TwoSlots(S, w, e) /\ LearnsRest(db, w[1], S, r)
  BY DEF AnswersNodeAhead
<1>2. AnswersNode(db, b, x, s, sw, rd, j, w, r, item, b2, x2, sw2) /\ Ahead(db, b, x, s, sw)
  BY DEF AnswersNodeAhead
<1>3. /\ ScanDb(db) /\ ScanDb(r) /\ Grown(db, r) /\ db.loaded \subseteq r.loaded /\ JobsRight(db, s)
      /\ j \in s /\ j.what = "node" /\ w \in Place
      /\ IsSwitch(w[1]) => <<w[1], 1>> \in sw2
      /\ sw \subseteq sw2
  BY <1>2, SpotFacts DEF AnswersNode, NodeMoved, NodeStored
<1>4. Opened(r, sw2, w)
  BY <1>2, NodeOpens
<1>5. TopoItems \subseteq r.loaded => TopoItems \subseteq db.loaded \/ Opened(r, sw2, Local)
  <2>1. w = Local \/ TopoItems \subseteq db.loaded
    BY <1>2, CameFrom
  <2> QED
    BY <1>4, <2>1
<1>6. Goes(db, w[1], S, r, sw, sw2)
  <2>1. OpenSlots(S, r, sw2)
    BY <1>1, <1>3, <1>4, BothOpen
  <2>2. Sees(db, w[1], r, sw2)
    BY <1>3 DEF Sees
  <2>3. More(db, sw, r, sw2)
    BY <1>3 DEF More
  <2> QED
    BY <1>1, <1>3, <1>5, <2>1, <2>2, <2>3 DEF Goes, LearnsRest
<1>7. r.pinf = db.pinf
  BY <1>1 DEF LearnsRest
<1>8. KeepsWell(db, r, b2, s2)
  BY <1>7 DEF KeepsWell, Kept
<1>9. OpensDue(db, sw, r, sw2, b2, x2)
  BY <1>2, NodeOpensDue DEF AnswersNodeAhead
<1>10. NoneLost(db, b, x, s, r, b2, x2, s2)
  <2>1. \A u : Due(b, x, u) => Due(b2, x2, u)
    BY DEF Due, AnswersNodeAhead, BucketsGrow
  <2>2. ASSUME NEW u, OnWay(db, s, u) PROVE OnWay(r, s2, u)
    <3>1. PICK k \in s : k.what = "port" /\ AskPlace(db, k) = u
      BY <2>2 DEF OnWay
    <3>2. AskPlace(r, k) = u
      BY <1>3, <3>1, AskPlaceStays DEF JobsRight
    <3> QED
      BY <1>3, <3>1, <3>2 DEF OnWay
  <2>3. ASSUME NEW u \in Place, Crossed(db, b, s, Place1(u)) PROVE Crossed(r, b2, s2, Place1(u))
    <3> PICK p : p = Place1(u)
      OBVIOUS
    <3>1. CASE db.topology[p] # None
      <4>1. p \in PortObj
        BY PlacePort
      <4> QED
        BY <1>3, <3>1, <4>1 DEF Crossed, Grown
    <3>2. CASE Queued(b, p)
      BY <3>2 DEF Crossed, AnswersNodeAhead, BucketsGrow
    <3>3. CASE \E k \in s : k.what = "node" /\ k.path = p
      <4>1. PICK k \in s : k.what = "node" /\ k.path = p
        BY <3>3
      <4>2. CASE k # j
        BY <4>1, <4>2 DEF Crossed
      <4>3. CASE k = j
        <5>1. p # Start /\ Place1(w) # None
          BY <1>3, StartIsNoPort, PlacePort, FixedNone
        <5>2. r.topology[p] = Place1(w)
          BY <1>2, <4>1, <4>3, <5>1, CameFrom
        <5> QED
          BY <5>1, <5>2 DEF Crossed
      <4> QED
        BY <4>2, <4>3
    <3> QED
      BY <2>3, <3>1, <3>2, <3>3 DEF Crossed
  <2> QED
    BY <2>1, <2>2, <2>3 DEF NoneLost
<1> QED
  BY <1>2, <1>3, <1>6, <1>8, <1>9, <1>10, AheadOn

(* A reply takes no turn from a generator.                                 *)
LEMMA ReplyTurns ==
  ASSUME DiscoveryAssumption, Shapes, InOrder, NEW j, Reply(j), j.what = "node", j.depth \in Depth
  PROVE  \A e, k, u : InTurn(ctx, e, k, u) => InTurn(ctx', e, k, u)
<1>1. PICK w, np : NodeFound(j, w, np)
  BY DEF Reply, DoNode, NodeReply
<1> PICK d : d = j.depth
  OBVIOUS
<1>2. PICK scan : (scan => InBounds(d)) /\ Started(d, scan)
  BY <1>1 DEF NodeFound
<1>3. CASE scan
  BY <1>2, <1>3, StartedKeepsTurns
<1>4. CASE ~scan
  BY <1>2, <1>4 DEF Started
<1> QED
  BY <1>3, <1>4

(* A NodeInfo arrives in a scan.                                           *)
LEMMA AheadNodeReply ==
  ASSUME DiscoveryAssumption, SmpInv, OnceInv, AheadNow, Shapes, InOrder, Scanning,
         NEW j \in jobs, Reply(j), j.what = "node", j.depth \in Depth
  PROVE  AheadNow'
<1> PICK db : db = sbn
  OBVIOUS
<1> PICK b : b = todo
  OBVIOUS
<1> PICK x : x = ctx
  OBVIOUS
<1> PICK s : s = jobs
  OBVIOUS
<1> PICK sw : sw = switches
  OBVIOUS
<1> PICK r : r = sbn'
  BY SMTT(30)
<1> PICK b2 : b2 = todo'
  BY SMTT(30)
<1> PICK x2 : x2 = ctx'
  BY SMTT(30)
<1> PICK sw2 : sw2 = switches'
  BY SMTT(30)
<1>1. jobs' = s \ {j}
  BY DEF Reply
<1>2. PICK w, np, item : NodeReplied(j, w, np, item, r, b2, x2, sw2)
  BY NodeReplyIs
<1>3. AnswersNode(db, b, x, s, sw, reads, j, w, r, item, b2, x2, sw2)
  BY <1>2 DEF NodeReplied
<1>4. /\ ScanDb(db) /\ EpReached(db) /\ NodeJob(db, j) /\ ScanDb(r) /\ Grown(db, r)
      /\ w = LeadsTo(db.path[j.path]) /\ w # None
      /\ np = get_node_ninf(db, w, Over(w, j.path)) /\ r = NodeDone(np.db, np.node, np.port, j, w[2])
  <2>1. ScanDb(db) /\ NodeJob(db, j) /\ w = LeadsTo(db.path[j.path]) /\ ScanDb(r) /\ Grown(db, r)
    BY <1>3 DEF AnswersNode, NodeMoved, NodeStored
  <2>2. EpReached(db)
    BY JobsNow
  <2>3. w # None /\ np = get_node_ninf(db, w, Over(w, j.path)) /\ r = NodeDone(np.db, np.node, np.port, j, w[2])
    BY <1>2 DEF NodeReplied
  <2> QED
    BY <2>1, <2>2, <2>3, ZenonT(30)
<1>5. \E S : TwoSlots(S, w, ToEndPlace(w)) /\ LearnsRest(db, w[1], S, r)
  <2>1. PICK S : TwoSlots(S, w, ToEndPlace(w))
    BY TwoSlotsAre
  <2>2. <<<<w[1], 1>>, w[2]>> \in S /\ <<<<w[1], 1>>, ToEndPlace(w)[2]>> \in S
    BY <2>1 DEF TwoSlots
  <2>3. LearnsRest(db, w[1], S, r)
    BY <1>4, <2>2, NodeLearns, ZenonT(120)
  <2> QED
    BY <2>1, <2>3
<1>6. \A e, k, u : InTurn(x, e, k, u) => InTurn(x2, e, k, u)
  BY ReplyTurns
<1>7. CASE ~(IsSwitch(w[1]) /\ <<w[1], 1>> \in sw)
  <2>1. b2 = Filled(j.depth, <<>>, <<item>>) /\ item \in PortItems(r)
    BY <1>2, <1>7 DEF NodeReplied
  <2>2. \A e \in Depth : BucketRight(r, todo[e])
    BY <1>4, BucketsNow, ZenonT(30)
  <2>3. BucketsGrow(todo, b2) /\ \A u \in ItemPlaces(item) : \E k : InBucket(b2, j.depth, k, u)
    BY <2>1, <2>2, PortsQueued
  <2>4. \A u \in ItemPlaces(item) : Due(b2, x2, u)
    BY <2>3 DEF Due
  <2>5. AnswersNodeAhead(db, b, x, s, sw, reads, j, w, r, item, b2, x2, sw2)
    BY <1>3, <1>5, <1>6, <2>3, <2>4 DEF AnswersNodeAhead, AheadNow
  <2>6. Ahead(r, b2, x2, s \ {j}, sw2)
    BY <2>5, AheadFound
  <2> QED
    BY <1>1, <2>6, AheadStep
<1>8. CASE IsSwitch(w[1]) /\ <<w[1], 1>> \in sw
  <2>1. b2 = b
    BY <1>3, <1>8 DEF AnswersNode
  <2>2. BucketsGrow(b, b2)
    BY <2>1 DEF BucketsGrow
  <2>3. AnswersNodeAhead(db, b, x, s, sw, reads, j, w, r, item, b2, x2, sw2)
    BY <1>3, <1>5, <1>6, <1>8, <2>2 DEF AnswersNodeAhead, AheadNow
  <2>4. Ahead(r, b2, x2, s \ {j}, sw2)
    BY <2>3, AheadFound
  <2> QED
    BY <1>1, <2>4, AheadStep
<1> QED
  BY <1>7, <1>8

-----------------------------------------------------------------------------
(* What a scan leaves that ended: the port it began at is read, and so is  *)
(* what is behind a port that is read.                                     *)
DoneDb(db) ==
  /\ Kept(db, Local)
  /\ \A w \in Place : Kept(db, w) =>
       /\ HasLid(db, w) /\ Listed1(db, Place1(w))
       /\ IsSwitch(w[1]) => \A i \in 0..NumPorts[w[1]] : Kept(db, <<w[1], i>>)
       /\ w \in DOMAIN Link => db.topology[Place1(w)] # None /\ Kept(db, Link[w])
  /\ \A n \in NodeObj, i \in 0..MaxPort : db.slot[n][i] # None => <<n[1], i>> \in Place /\ Kept(db, <<n[1], i>>)
Idle(b, x) == (\A w : ~Due(b, x, w)) /\ (\A p : ~Queued(b, p))

LEMMA ListedNode ==
  ASSUME NEW db, ScanDb(db), NEW w \in Place, Listed1(db, Place1(w))
  PROVE  <<w[1], 1>> \in NodeObj /\ db.class[<<w[1], 1>>] # None
<1> PICK n : n = <<w[1], 1>>
  OBVIOUS
<1>1. Place1(w) = <<n, w[2]>> /\ Place1(w) \in PortObj
  BY PlacePort DEF Place1
<1>2. n \in NodeObj /\ w[2] \in 0..MaxPort
  BY <1>1, PlaceFacts DEF PortObj
<1>3. Place1(w) # None
  BY <1>1, FixedNone
<1>4. db.slot[n][w[2]] # None
  BY <1>1, <1>3 DEF Listed1, Parent
<1>5. SlotsRight(db, {})
  BY DEF ScanDb, DbInv
<1> QED
  BY <1>2, <1>4, <1>5 DEF SlotsRight

(* When nothing is under way, all that was opened has been read.           *)
LEMMA AllDone ==
  ASSUME NEW db, ScanDb(db), TopoTrue(db, {}), TopoItems \subseteq db.loaded,
         NEW b, NEW x, NEW sw, Ahead(db, b, x, {}, sw), Idle(b, x)
  PROVE  DoneDb(db)
<1>1. \A w \in Place : Opened(db, sw, w) => Kept(db, w)
  BY DEF Ahead, AllAhead, Idle, OnWay
<1>2. ASSUME NEW w \in Place, Kept(db, w)
      PROVE  HasLid(db, w) /\ Listed1(db, Place1(w)) /\ (w \in DOMAIN Link => db.topology[Place1(w)] # None)
  BY <1>2 DEF Ahead, AllKept, KeptWell, Crossed, Idle
<1>3. ASSUME NEW d, <<d, 1>> \in NodeObj, db.class[<<d, 1>>] # None, IsSwitch(d), NEW i, <<d, i>> \in Place
      PROVE  Kept(db, <<d, i>>)
  <2>1. <<d, 1>> \in sw
    BY <1>3 DEF Ahead, SwitchesFound
  <2>2. Opened(db, sw, <<d, i>>)
    BY <1>3, <2>1 DEF Opened
  <2> QED
    BY <1>1, <1>3, <2>2
<1>4. Kept(db, Local)
  <2>1. Local \in Place
    BY FabricAssumption DEF FabricAssumption, EndPlace
  <2>2. Opened(db, sw, Local)
    BY DEF Ahead, LocalFound
  <2> QED
    BY <1>1, <2>1, <2>2
<1>5. ASSUME NEW w \in Place, Kept(db, w), IsSwitch(w[1]), NEW i \in 0..NumPorts[w[1]]
      PROVE  Kept(db, <<w[1], i>>)
  <2>1. <<w[1], 1>> \in NodeObj /\ db.class[<<w[1], 1>>] # None
    BY <1>2, <1>5, ListedNode
  <2>2. <<w[1], i>> \in Place
    BY <1>5, PlaceFacts DEF Place
  <2> QED
    BY <1>3, <1>5, <2>1, <2>2
<1>6. ASSUME NEW w \in Place, Kept(db, w), w \in DOMAIN Link
      PROVE  Kept(db, Link[w])
  <2> PICK u : u = Link[w]
    OBVIOUS
  <2> PICK p : p = Place1(w)
    OBVIOUS
  <2>1. u \in Place /\ u \in DOMAIN Link /\ Link[u] = w /\ u = <<u[1], u[2]>>
    BY <1>6, FabricAssumption, PlaceFacts DEF FabricAssumption
  <2>2. p \in PortObj /\ db.topology[p] # None /\ PlaceOf(p) = w
    BY <1>2, <1>6, PlacePort, PlaceFacts DEF PlaceOf, Place1
  <2>3. Exists(db, db.topology[p]) /\ db.topology[p] = Place1(u)
    BY <2>2 DEF TopoTrue
  <2>4. CASE IsSwitch(u[1])
    <3>1. <<u[1], 1>> \in NodeObj /\ db.class[<<u[1], 1>>] # None
      BY <2>3 DEF Exists, Parent, Place1, PortObj
    <3> QED
      BY <1>3, <2>1, <2>4, <3>1
  <2>5. CASE ~IsSwitch(u[1])
    <3>1. Opened(db, sw, u)
      BY <2>1, <2>2, <2>5 DEF Opened
    <3> QED
      BY <1>1, <2>1, <3>1
  <2> QED
    BY <2>4, <2>5
<1>7. ASSUME NEW n \in NodeObj, NEW i \in 0..MaxPort, db.slot[n][i] # None
      PROVE  <<n[1], i>> \in Place /\ Kept(db, <<n[1], i>>)
  BY <1>1, <1>7 DEF Ahead, SlotsOpened
<1> QED
  BY <1>2, <1>4, <1>5, <1>6, <1>7 DEF DoneDb

(* A scan that begins has opened nothing.                                  *)
LEMMA AheadOfNothing ==
  ASSUME NEW db, ScanDb(db), NEW r, r.slot = db.slot, r.class = db.class, r.pinf = {}, r.loaded = db.loaded,
         \A n \in NodeObj : db.class[n] = None, \A p \in PortObj : r.topology[p] = None,
         ~(TopoItems \subseteq r.loaded), NEW b, NEW x, NEW s
  PROVE  Ahead(r, b, x, s, {})
<1>1. \A w \in Place : ~Opened(r, {}, w)
  <2> SUFFICES ASSUME NEW w \in Place, Opened(r, {}, w) PROVE FALSE
    OBVIOUS
  <2>1. w \in DOMAIN Link /\ r.topology[Place1(Link[w])] # None
    BY DEF Opened
  <2>2. Link[w] \in Place
    BY <2>1, FabricAssumption DEF FabricAssumption
  <2> QED
    BY <2>1, <2>2, PlacePort
<1>2. AllAhead(r, b, x, s, {}) /\ AllKept(r, b, s) /\ LocalFound(r, {})
  BY <1>1 DEF AllAhead, AllKept, Kept, LocalFound
<1>3. SlotsOpened(r, {})
  <2>1. SlotsRight(db, {})
    BY DEF ScanDb, DbInv
  <2> QED
    BY <2>1 DEF SlotsOpened, SlotsRight
<1>4. SwitchesFound(r, {})
  BY DEF SwitchesFound
<1> QED
  BY <1>2, <1>3, <1>4 DEF Ahead

(* The scans are whole: one that goes on has all it opened ahead, and      *)
(* after one that was not broken off nothing is left to ask.               *)
Unread == ~(TopoItems \subseteq sbn.loaded) => sbn.pinf = {}
GoingOn == Scanning => AheadNow
AllRead == (~Scanning /\ TopoItems \subseteq sbn.loaded /\ ~distrust) =>
  DoneDb(sbn) /\ (pc = "pinf" => jobs = {} /\ rest \subseteq sbn.pinf)
Whole == Unread /\ GoingOn /\ AllRead

SameRead(db, r) == r.pinf = db.pinf /\ r.lid = db.lid /\ r.slot = db.slot /\ r.topology = db.topology
LEMMA DoneStays ==
  ASSUME NEW db, DoneDb(db), NEW r, SameRead(db, r)
  PROVE  DoneDb(r)
BY DEF DoneDb, SameRead, Kept, HasLid, Listed1

(* A scan begins.                                                          *)
LEMMA StartWhole ==
  ASSUME SmpInv, Unread, NEW S, StartScan(S)
  PROVE  Whole'
<1> PICK db : db = sbn
  OBVIOUS
<1> PICK r : r = sbn'
  OBVIOUS
<1>1. ~(TopoItems \subseteq db.loaded) /\ r = Wiped(db) /\ switches' = {} /\ pc' = "scan"
  BY DEF StartScan, Wanted
<1>2. db.pinf = {} /\ ScanDb(db) /\ \A n \in NodeObj : db.class[n] = None
  BY <1>1 DEF Unread, SmpInv, NotYet
<1>3. DOMAIN db = DOMAIN EmptyDb
  BY <1>2 DEF ScanDb, DbInv, DbTypes
<1>4. r.slot = db.slot /\ r.class = db.class /\ r.pinf \subseteq db.pinf /\ r.loaded = db.loaded
      /\ r.topology = EmptyDb.topology
  BY <1>1, <1>3 DEF Wiped, EmptyDb
<1>5. \A p \in PortObj : r.topology[p] = None
  BY <1>4 DEF EmptyDb
<1>6. r.pinf = {}
  BY <1>2, <1>4
<1>7. Ahead(r, todo', ctx', jobs', {})
  BY <1>1, <1>2, <1>4, <1>5, <1>6, AheadOfNothing
<1> QED
  BY <1>1, <1>6, <1>7 DEF Whole, Unread, GoingOn, AllRead, AheadNow, Scanning

(* A scan goes on.                                                         *)
LEMMA ScanWhole ==
  ASSUME Whole, Scanning, UNCHANGED pc, AheadNow', TopoItems \subseteq sbn'.loaded
  PROVE  Whole'
BY DEF Whole, Unread, GoingOn, AllRead, Scanning

(* Every port that is known is read, so that none is asked for.            *)
LEMMA NoneToAsk ==
  ASSUME NEW db, ScanDb(db), DoneDb(db)
  PROVE  Asks("pinf", db) \subseteq db.pinf
<1> SUFFICES ASSUME NEW n \in NodeObj, NEW i \in 0..MaxPort, NEW p, p = db.slot[n][i], p # None PROVE p \in db.pinf
  BY DEF Asks, AllNodes
<1>1. Kept(db, <<n[1], i>>)
  BY DEF DoneDb
<1>2. Parent(p) = n /\ db.class[n] # None /\ p = <<n, i>>
  <2>1. SlotsRight(db, {}) /\ n[1] \notin {}
    BY DEF ScanDb, DbInv
  <2> QED
    BY <2>1 DEF SlotsRight
<1>3. n = <<n[1], 1>>
  BY <1>2, CopyFacts
<1>4. p = Place1(<<n[1], i>>)
  BY <1>2, <1>3 DEF Place1
<1> QED
  BY <1>1, <1>4 DEF Kept

(* What comes after a scan, or after all SwitchInfos.                      *)
LEMMA NextWhole ==
  ASSUME Unread', NEW stage \in {"swinf", "pinf", "idle"}, GoesOnTo(stage), jobs' = {}, ScanDb(sbn), SameRead(sbn, sbn'),
         TopoItems \subseteq sbn'.loaded /\ ~distrust' => DoneDb(sbn)
  PROVE  Whole'
<1>1. pc' = stage /\ rest' = Asks(stage, sbn) /\ ~Scanning'
  BY DEF GoesOnTo, Scanning
<1> SUFFICES ASSUME TopoItems \subseteq sbn'.loaded /\ ~distrust'
             PROVE  DoneDb(sbn') /\ (pc' = "pinf" => rest' \subseteq sbn'.pinf)
  BY <1>1 DEF Whole, GoingOn, AllRead
<1>2. DoneDb(sbn)
  OBVIOUS
<1>3. DoneDb(sbn')
  BY <1>2, DoneStays
<1>4. Asks("pinf", sbn) \subseteq sbn.pinf
  BY <1>2, NoneToAsk
<1> QED
  BY <1>1, <1>3, <1>4 DEF SameRead

(* A scan ends, and nothing is left to read.                               *)
LEMMA EndWhole ==
  ASSUME DiscoveryAssumption, SmpInv, ScanInv, OnceInv, Whole, ScanEnds
  PROVE  Whole'
<1> PICK stage \in {"swinf", "pinf", "idle"} : stage = Stage(stuff, "scan")
  BY StageFacts
<1>1. /\ GoesOnTo(stage) /\ UNCHANGED <<sbn, distrust>> /\ jobs = {} /\ jobs' = {} /\ Scanning /\ NobodyHasTurn
  BY DEF ScanEnds, NoScan
<1>2. TopoItems \subseteq sbn.loaded
  BY <1>1 DEF SmpInv, NotYet
<1>3. \A c \in Ctx : ~Alive(c)
  BY <1>1, AllEnded
<1>4. \A d \in Depth : todo[d].nodes = <<>> /\ todo[d].ports = <<>>
  BY <1>3 DEF ScanInv, OneGenerator
<1>5. \A c \in Ctx : ctx[c].pc # "iter"
  BY <1>3 DEF Alive, IsReady, Ready
<1>6. Idle(todo, ctx)
  BY <1>4, <1>5 DEF Idle, Due, InBucket, InTurn, Queued, InNodes
<1>7. ScanDb(sbn) /\ TopoTrue(sbn, {}) /\ Ahead(sbn, todo, ctx, {}, switches)
  BY <1>1 DEF SmpInv, OnceInv, Whole, GoingOn, AheadNow
<1>8. DoneDb(sbn)
  BY <1>2, <1>6, <1>7, AllDone
<1>9. Unread'
  BY <1>1, <1>2 DEF Unread
<1> QED
  BY <1>1, <1>7, <1>8, <1>9, NextWhole DEF SameRead

(* The questions after a scan learn nothing of the fabric that it did not. *)
LEMMA AskWhole ==
  ASSUME Whole, Asking, UNCHANGED <<pc, distrust>>, SameRead(sbn, sbn'), sbn'.loaded = sbn.loaded,
         pc = "pinf" /\ DoneDb(sbn) /\ ~distrust => jobs' = {} /\ rest' \subseteq sbn.pinf
  PROVE  Whole'
<1>1. ~Scanning /\ ~Scanning'
  BY DEF Asking, Scanning
<1>2. Unread'
  BY DEF Whole, Unread, SameRead
<1>3. AllRead'
  <2> SUFFICES ASSUME TopoItems \subseteq sbn.loaded, ~distrust
               PROVE  DoneDb(sbn') /\ (pc = "pinf" => jobs' = {} /\ rest' \subseteq sbn'.pinf)
    BY DEF AllRead
  <2>1. DoneDb(sbn)
    BY <1>1 DEF Whole, AllRead
  <2>2. DoneDb(sbn')
    BY <2>1, DoneStays
  <2> QED
    BY <2>1, <2>2 DEF SameRead
<1> QED
  BY <1>1, <1>2, <1>3 DEF Whole, GoingOn

(* A question after a scan is asked.                                       *)
LEMMA AskOneWhole ==
  ASSUME SmpInv, Whole, NEW x \in rest, Ask(x)
  PROVE  Whole'
<1>1. /\ Asking /\ UNCHANGED <<pc, distrust>> /\ rest' \subseteq rest
      /\ sbn' = sbn \/ sbn' = WithPath(sbn, EndOf(x))
      /\ pc = "pinf" /\ x \in sbn.pinf => UNCHANGED jobs
  BY DEF Ask, HasIt, loadVars
<1>2. DOMAIN sbn = DOMAIN EmptyDb
  BY DEF SmpInv, ScanDb, DbInv, DbTypes
<1>3. SameRead(sbn, sbn') /\ sbn'.loaded = sbn.loaded
  BY <1>1, <1>2 DEF WithPath, EmptyDb, SameRead
<1>4. TopoItems \subseteq sbn.loaded /\ ~Scanning
  BY <1>1 DEF SmpInv, AskUse, Asking, Scanning
<1>5. pc = "pinf" /\ ~distrust => jobs' = {} /\ rest' \subseteq sbn.pinf
  BY <1>1, <1>4 DEF Whole, AllRead
<1> QED
  BY <1>1, <1>3, <1>5, AskWhole

(* A question after a scan is answered.                                    *)
LEMMA AnswerWhole ==
  ASSUME SmpInv, Whole, NEW j \in jobs, Answer(j)
  PROVE  Whole'
<1>1. Asking /\ UNCHANGED <<pc, rest, distrust>> /\ TopoItems \subseteq sbn.loaded /\ ~Scanning
  BY DEF Answer, loadVars, saVars, SmpInv, AskUse, Asking, Scanning
<1>2. CASE pc = "swinf"
  <2>1. DOMAIN sbn = DOMAIN EmptyDb
    BY DEF SmpInv, ScanDb, DbInv, DbTypes
  <2>2. SameRead(sbn, sbn') /\ sbn'.loaded = sbn.loaded
    BY <1>2, <2>1 DEF Answer, EmptyDb, SameRead
  <2> QED
    BY <1>1, <1>2, <2>2, AskWhole
<1>3. CASE pc # "swinf"
  <2>1. distrust
    BY <1>1, <1>3 DEF Whole, AllRead, Asking
  <2>2. TopoItems \subseteq sbn'.loaded
    BY <1>1, AnswerStores
  <2> QED
    BY <1>1, <2>1, <2>2 DEF Whole, Unread, GoingOn, AllRead, Scanning
<1> QED
  BY <1>2, <1>3

(* All questions of a kind have been answered.                             *)
LEMMA AskEndsWhole ==
  ASSUME SmpInv, Whole, AskEnds
  PROVE  Whole'
<1> PICK stage \in {"swinf", "pinf", "idle"} : stage = Stage(stuff, pc)
  BY StageFacts
<1>1. GoesOnTo(stage) /\ UNCHANGED distrust /\ jobs' = {} /\ Asking /\ TopoItems \subseteq sbn.loaded /\ ~Scanning
  BY DEF AskEnds, scanVars, SmpInv, AskUse, Asking, Scanning
<1>2. DOMAIN sbn = DOMAIN EmptyDb /\ ScanDb(sbn)
  BY DEF SmpInv, ScanDb, DbInv, DbTypes
<1>3. SameRead(sbn, sbn') /\ sbn.loaded \subseteq sbn'.loaded
  BY <1>2 DEF AskEnds, EmptyDb, SameRead
<1>4. Unread'
  BY <1>1, <1>3 DEF Unread
<1>5. ~distrust' => DoneDb(sbn)
  BY <1>1 DEF Whole, AllRead
<1> QED
  BY <1>1, <1>2, <1>3, <1>4, <1>5, NextWhole

(* A load begins that needs no scan.                                       *)
LEMMA MoreWhole ==
  ASSUME SmpInv, ScanInv, Whole, NEW S, LoadMore(S)
  PROVE  Whole'
<1> PICK stage \in {"swinf", "pinf", "idle"} : stage = Stage(Wanted(S), "scan")
  BY StageFacts
<1>1. GoesOnTo(stage) /\ UNCHANGED <<sbn, distrust, jobs>> /\ pc = "idle"
  BY DEF LoadMore, scanVars
<1>2. jobs' = {} /\ ~Scanning
  BY <1>1 DEF ScanInv, Quiet, Scanning, Asking
<1>3. Unread' /\ ScanDb(sbn) /\ SameRead(sbn, sbn')
  BY <1>1 DEF Whole, Unread, SmpInv, SameRead
<1>4. TopoItems \subseteq sbn'.loaded /\ ~distrust' => DoneDb(sbn)
  BY <1>1, <1>2 DEF Whole, AllRead
<1> QED
  BY <1>1, <1>2, <1>3, <1>4, NextWhole

(* A timeout ends the load.                                                *)
LEMMA RaiseWhole ==
  ASSUME Whole, ScanRaises
  PROVE  Whole'
<1>1. pc' = "idle" /\ UNCHANGED sbn /\ distrust' = (distrust \/ (Scanning /\ TopoItems \subseteq sbn.loaded))
  BY DEF ScanRaises, Ends
<1>2. TopoItems \subseteq sbn.loaded /\ ~distrust' => ~Scanning /\ ~distrust
  BY <1>1
<1> QED
  BY <1>1, <1>2 DEF Whole, Unread, GoingOn, AllRead, Scanning

(* A step that changes none of it.                                         *)
LEMMA SameWhole ==
  ASSUME Whole, UNCHANGED <<sbn, pc, distrust, rest, scanVars>>
  PROVE  Whole'
<1>1. UNCHANGED <<todo, ctx, jobs, switches, pc, sbn, distrust, rest>>
  BY DEF scanVars
<1>2. Unread'
  BY <1>1 DEF Whole, Unread
<1>3. GoingOn'
  BY <1>1 DEF Whole, GoingOn, AheadNow, Scanning
<1>4. AllRead'
  BY <1>1 DEF Whole, AllRead, Scanning
<1> QED
  BY <1>2, <1>3, <1>4 DEF Whole

(* A reply in a scan.                                                      *)
LEMMA ReplyWhole ==
  ASSUME DiscoveryAssumption, SmpInv, ScanInv, OnceInv, Whole, SmpInv', NEW j \in jobs, Reply(j)
  PROVE  Whole'
<1>1. Scanning /\ UNCHANGED pc /\ jobs' = jobs \ {j} /\ Scanning'
  BY DEF Reply, loadVars, Scanning
<1>2. AheadNow /\ Shapes /\ InOrder /\ j.depth \in Depth
  BY <1>1 DEF Whole, GoingOn, ScanInv, Depths
<1>3. AheadNow'
  BY <1>1, <1>2, AheadPortReply, AheadNodeReply
<1>4. TopoItems \subseteq sbn'.loaded
  <2> SUFFICES ASSUME ~(TopoItems \subseteq sbn'.loaded) PROVE FALSE
    OBVIOUS
  <2>1. jobs' = {StartJob}
    BY <1>1 DEF SmpInv, NotYet
  <2>2. StartJob \in jobs /\ j # StartJob
    BY <1>1, <2>1
  <2>3. TopoItems \subseteq sbn.loaded
    BY <1>1, <2>2 DEF SmpInv, NotYet
  <2>4. First(sbn, jobs, switches)
    BY <1>1, OnceNow DEF Once, ExitsRight
  <2> QED
    BY <2>2, <2>3, <2>4 DEF First, StartJob
<1> QED
  BY <1>1, <1>3, <1>4, ScanWhole

(* A step of a generator.                                                  *)
LEMMA TodoWhole ==
  ASSUME SmpInv, ScanInv, OnceInv, Whole, NEW c \in Ctx, Todo(c)
  PROVE  Whole'
<1>1. Scanning /\ UNCHANGED pc
  BY ZenonT(30) DEF Todo, TodoCheck, TodoWoken, TodoNode, TodoPorts, TodoPort, TodoEmpty, May, AtTop, loadVars
<1>2. AheadNow /\ Shapes
  BY <1>1 DEF Whole, GoingOn, ScanInv
<1>3. AheadNow'
  BY <1>2, AheadWaits, AheadPorts, AheadPort, AheadNode DEF Todo
<1>4. ctx[c].pc # "none"
  BY ZenonT(30) DEF Todo, TodoCheck, TodoWoken, TodoNode, TodoPorts, TodoPort, TodoEmpty, May, AtTop
<1>5. TopoItems \subseteq sbn.loaded
  BY <1>1, <1>4 DEF SmpInv, NotYet
<1>6. DOMAIN sbn = DOMAIN EmptyDb
  BY DEF SmpInv, ScanDb, DbInv, DbTypes
<1>7. CASE UNCHANGED sbn
  BY <1>1, <1>3, <1>5, <1>7, ScanWhole
<1>8. CASE \E p, path : sbn' = [sbn EXCEPT !.path = [sbn.path EXCEPT ![p] = path]]
  <2>1. sbn'.loaded = sbn.loaded
    BY <1>6, <1>8 DEF EmptyDb
  <2> QED
    BY <1>1, <1>3, <1>5, <2>1, ScanWhole
<1>9. CASE \E slot : sbn' = [sbn EXCEPT !.slot = slot]
  <2>1. sbn'.loaded = sbn.loaded
    BY <1>6, <1>9 DEF EmptyDb
  <2> QED
    BY <1>1, <1>3, <1>5, <2>1, ScanWhole
<1>10. CASE TodoPort(c)
  <2>1. sbn' = WithPort(sbn, ctx[c].node, Head(ctx[c].rem))
    BY <1>10 DEF TodoPort
  <2>2. \E slot : sbn' = [sbn EXCEPT !.slot = slot]
    BY <2>1 DEF WithPort
  <2> QED
    BY <1>9, <2>2
<1>11. CASE TodoNode(c)
  <2> PICK item : item = Last(todo[c[1]].nodes)
    OBVIOUS
  <2>1. UNCHANGED sbn \/ sbn' = [sbn EXCEPT !.path = [sbn.path EXCEPT ![item.aport] = NextPath(item)]]
    BY <1>11 DEF TodoNode
  <2> QED
    BY <1>7, <1>8, <2>1
<1>12. CASE TodoCheck(c) \/ TodoWoken(c) \/ TodoPorts(c) \/ TodoEmpty(c)
  BY <1>7, <1>12, ZenonT(30) DEF TodoCheck, TodoWoken, TodoPorts, TodoEmpty
<1> QED
  BY <1>10, <1>11, <1>12 DEF Todo

(* Every step of loads with SMPs leaves the scans whole.                   *)
LEMMA WholeNext ==
  ASSUME DiscoveryAssumption, ~useSA, SmpInv, ScanInv, OnceInv, Whole, [Next]_vars
  PROVE  Whole'
<1>1. pc \in {"idle", "scan", "swinf", "pinf"} /\ table = None /\ tables = {}
  BY DEF SmpInv, ScanMode
<1>2. CASE UNCHANGED vars
  BY <1>2, SameWhole DEF vars, loadVars, saVars
<1>3. CASE \E S \in Items : StartScan(S)
  BY <1>3, StartWhole DEF Whole
<1>4. CASE \E S \in Items : LoadMore(S)
  BY <1>4, MoreWhole
<1>5. CASE \E S \in Items : LoadNothing(S)
  BY <1>5, SameWhole DEF LoadNothing, saVars
<1>6. CASE \E j \in jobs : Reply(j)
  BY <1>6, SmpNext, ReplyWhole
<1>7. CASE \E c \in Ctx : Todo(c)
  BY <1>7, TodoWhole
<1>8. CASE \E x \in rest : Ask(x)
  BY <1>8, AskOneWhole
<1>9. CASE \E j \in jobs : Answer(j)
  BY <1>9, AnswerWhole
<1>10. CASE ScanEnds
  BY <1>10, EndWhole
<1>11. CASE AskEnds
  BY <1>11, AskEndsWhole
<1>12. CASE ScanRaises
  BY <1>12, RaiseWhole
<1>13. /\ \A S \in Items : ~LoadSA(S)
       /\ \A t \in tables : ~SAReply(t)
       /\ \A w \in rest : ~SAStore(w) /\ ~SAStoreFails(w)
       /\ ~SAStored /\ ~SANext /\ ~SAQueryFails
  BY <1>1 DEF LoadSA, SAReply, SAStore, SAStoreFails, SAStored, SANext, SAQueryFails
<1> QED
  BY <1>2, <1>3, <1>4, <1>5, <1>6, <1>7, <1>8, <1>9, <1>10, <1>11, <1>12, <1>13 DEF Next

(* Of a scan: what was reached is known, or on its way (Whole).            *)
WholeRight == ~useSA => Whole

LEMMA WholeInit == ASSUME Init PROVE WholeRight
<1> PICK routed \in BOOLEAN : sbn = [EmptyDb EXCEPT !.lidRouted = routed]
  BY DiscoveryAssumption DEF Init, DiscoveryAssumption
<1>1. sbn.pinf = {} /\ sbn.loaded = {}
  BY DEF EmptyDb
<1>2. pc = "idle"
  BY DEF Init
<1> QED
  BY <1>1, <1>2 DEF WholeRight, Whole, Unread, GoingOn, AllRead, Scanning, TopoItems

(* Whatever a scan has reached it goes on from: over every cable and to    *)
(* every port of a switch it has read or will, in whatever order answers   *)
(* come, so that a scan that returns has left nothing out.                 *)
THEOREM ScansAreWhole == Spec => []WholeRight
<1>1. Init => WholeRight
  BY WholeInit
<1>2. WholeRight /\ DbRight /\ TopoRight /\ ScanInv /\ [Next]_vars => WholeRight'
  <2> SUFFICES ASSUME WholeRight, DbRight, TopoRight, ScanInv, [Next]_vars, ~useSA' PROVE Whole'
    BY DEF WholeRight
  <2>1. CASE useSA
    BY <2>1, TopoSaNext, ZenonT(30) DEF TopoRight
  <2>2. CASE ~useSA
    BY <2>2, DiscoveryAssumption, WholeNext DEF WholeRight, DbRight, TopoRight
  <2> QED
    BY <2>1, <2>2
<1> QED
  BY <1>1, <1>2, ScanIsOrderly, DatabaseIsRight, TopologyIsRight, PTL DEF Spec

(* A path that goes where it says leads to the port it is for.             *)
LEMMA RightPathLeads ==
  ASSUME NEW db, NEW path \in Path, PathRight(db, path), NEW e \in EndPlace, path.ep = Place1(e)
  PROVE  LeadsTo(path) # None /\ ToEndPlace(LeadsTo(path)) = e
<1> PICK v : v = LeadsTo(path)
  OBVIOUS
<1>1. path.ep # None
  <2>1. e \in Place
    BY DEF EndPlace
  <2> QED
    BY <2>1, PlacePort, FixedNone
<1>2. v # None /\ path.ep = Place1(ToEndPlace(v))
  BY <1>1 DEF PathRight
<1>3. v \in Spot \cup {None}
  BY LeadsToFacts
<1>4. ToEndPlace(v) \in EndPlace
  BY <1>2, <1>3, SpotFacts
<1>5. PlaceOf(Place1(ToEndPlace(v))) = ToEndPlace(v) /\ PlaceOf(Place1(e)) = e
  BY <1>4, EndPlaceFacts DEF PlaceOf, Place1
<1> QED
  BY <1>2, <1>5

(* After a whole scan get_path_smp has a path, and it leads there.         *)
LEMMA RouteLeads ==
  ASSUME NEW db, ScanDb(db), DoneDb(db), NEW e \in EndPlace, db.ports[e] # None, Lid[e] # 0 \/ ~db.lidRouted,
         NEW p, p = db.ports[e]
  PROVE  /\ ~NoRoute(db, p)
         /\ LeadsTo(get_path_smp(db, p)) # None /\ ToEndPlace(LeadsTo(get_path_smp(db, p))) = e
<1>1. p = Place1(e) /\ Exists(db, p) /\ Listed1(db, p) /\ p \in PortObj /\ p # None
  <2>1. PortIndexRight(db, {})
    BY DEF ScanDb, DbInv
  <2> QED
    BY <2>1 DEF PortIndexRight, Exists
<1>2. CASE ~db.lidRouted
  <2> PICK h : h = db.paths[p]
    OBVIOUS
  <2> PICK path : path = db.path[h]
    OBVIOUS
  <2>1. h # None
    BY <1>1, <1>2 DEF ScanDb, Routable, HasRoute
  <2>2. Reached(db, h) /\ path.ep = p
    BY <1>1, <1>2, <2>1 DEF ScanDb, CacheRight
  <2>3. path \in Path /\ PathRight(db, path)
    BY <2>2 DEF ScanDb, DbInv, DbTypes, PathsRight, Reached, Held
  <2>4. ~NoRoute(db, p) /\ get_path_smp(db, p) = path
    BY <1>2, <2>1 DEF NoRoute, HasPath, get_path_smp
  <2> QED
    BY <1>1, <2>2, <2>3, <2>4, RightPathLeads
<1>3. CASE db.lidRouted
  <2> PICK new : new = LidPathTo(Lid[e], Place1(e))
    OBVIOUS
  <2>1. e = <<e[1], e[2]>> /\ e \in Place /\ PlaceOf(p) = e /\ Parent(p) = <<e[1], 1>>
    BY <1>1, EndPlaceFacts DEF EndPlace, PlaceOf, Place1, Parent
  <2>2. Kept(db, e)
    <3>1. p[2] = e[2] /\ e[2] \in 0..MaxPort /\ db.slot[<<e[1], 1>>][e[2]] = p
      BY <1>1, <2>1 DEF Listed1, Place1
    <3>2. <<e[1], 1>> \in NodeObj
      BY <1>1, <2>1 DEF PortObj, Parent
    <3> PICK n : n = <<e[1], 1>>
      OBVIOUS
    <3>3. n \in NodeObj /\ e[2] \in 0..MaxPort /\ db.slot[n][e[2]] # None /\ n[1] = e[1]
      BY <1>1, <3>1, <3>2
    <3>4. Kept(db, <<n[1], e[2]>>)
      BY <3>3 DEF DoneDb
    <3> QED
      BY <2>1, <3>3, <3>4
  <2>3. db.lid[p] # None
    BY <1>1, <1>3, <2>1, <2>2 DEF DoneDb, HasLid
  <2>4. db.lid[p] = Lid[e]
    <3>1. LidsRight(db, {}) /\ Parent(p)[1] \notin {}
      BY DEF ScanDb, DbInv
    <3> QED
      BY <1>1, <2>1, <2>3, <3>1 DEF LidsRight
  <2>5. ~HasPath(db, p) /\ ~NoRoute(db, p)
    BY <1>3, <2>3, <2>4 DEF NoRoute, HasPath
  <2>6. get_path_smp(db, p) = new
    BY <1>1, <2>4, <2>5 DEF get_path_smp, LidPathTo
  <2>7. new \in Path /\ PathRight(db, new) /\ new.ep = Place1(e)
    BY <1>1, <1>3, LidPathRight
  <2> QED
    BY <2>5, <2>6, <2>7, RightPathLeads
<1> QED
  BY <1>2, <1>3

(* After a scan there is a route to every end port found, and it leads     *)
(* there: get_path_smp (subnet.py:350-369).                                *)
THEOREM RoutesAlwaysLeadThere == Spec => []RoutesLeadThere
<1>1. WholeRight /\ DbRight => RoutesLeadThere
  <2> SUFFICES ASSUME WholeRight, DbRight, pc = "idle", ~distrust, ~useSA,
                      NEW e \in EndPlace, sbn.ports[e] # None, Lid[e] # 0 \/ ~sbn.lidRouted
               PROVE  /\ ~NoRoute(sbn, sbn.ports[e])
                      /\ LET w == LeadsTo(get_path_smp(sbn, sbn.ports[e])) IN w # None /\ ToEndPlace(w) = e
    BY DEF RoutesLeadThere
  <2>1. Whole /\ SmpInv /\ ScanDb(sbn)
    BY DEF WholeRight, DbRight, SmpInv
  <2>2. sbn.class[Parent(Place1(e))] # None /\ Parent(Place1(e)) \in NodeObj
    <3>1. PortIndexRight(sbn, {})
      BY <2>1 DEF ScanDb, DbInv
    <3> QED
      BY <3>1 DEF PortIndexRight, Exists, PortObj, Parent
  <2>3. TopoItems \subseteq sbn.loaded
    BY <2>1, <2>2 DEF SmpInv, NotYet
  <2>4. DoneDb(sbn)
    BY <2>1, <2>3 DEF Whole, AllRead, Scanning
  <2> QED
    BY <2>1, <2>4, RouteLeads
<1> QED
  BY <1>1, ScansAreWhole, DatabaseIsRight, PTL

-----------------------------------------------------------------------------
(* What else a load() with SMPs has fetched when it returns: the fabric as *)
(* far as a scan goes, and the SwitchInfo of each switch, if noted.        *)
AllSwinf(db) == \A n \in NodeObj : db.class[n] # None /\ IsSwitch(n[1]) => n \in db.swinf
SwinfComes(db, ask, s) ==
  \A n \in NodeObj : db.class[n] # None /\ IsSwitch(n[1]) => n \in db.swinf \/ n \in ask \/ \E j \in s : j.of = n
Fetched ==
  /\ "all_SwitchInfo" \in sbn.loaded => TopoItems \subseteq sbn.loaded /\ ~Scanning
  /\ how = "returned" => TopoItems \subseteq sbn.loaded
  /\ "all_SwitchInfo" \in sbn.loaded /\ ~distrust => AllSwinf(sbn)
  /\ pc = "swinf" /\ ~distrust => SwinfComes(sbn, rest, jobs)

(* Something of what a scan fetches is always needed.                      *)
LEMMA NeedsScan ==
  ASSUME DiscoveryAssumption, ~useSA, NEW S \in Items
  PROVE  Implied(S) \cap TopoItems # {}
<1>1. S # {} /\ S \subseteq LoadItems
  BY DEF DiscoveryAssumption
<1> QED
  BY <1>1 DEF Implied, TopoItems, LoadItems

(* A load that needs no scan has had one.                                  *)
LEMMA FetchedBefore ==
  ASSUME DiscoveryAssumption, ~useSA, SmpInv, NEW S \in Items, Wanted(S) \cap TopoItems = {}
  PROVE  TopoItems \subseteq sbn.loaded
<1>1. Implied(S) \cap TopoItems # {}
  BY NeedsScan
<1>2. sbn.loaded \cap TopoItems # {}
  BY <1>1 DEF Wanted
<1> QED
  BY <1>2 DEF SmpInv, NotYet

(* A step that changes none of it.                                         *)
LEMMA SameFetched ==
  ASSUME Fetched, UNCHANGED <<pc, distrust, rest, jobs>>, sbn'.loaded = sbn.loaded, sbn'.class = sbn.class,
         sbn'.swinf = sbn.swinf, how' = "returned" => how = "returned" \/ TopoItems \subseteq sbn.loaded
  PROVE  Fetched'
<1>1. AllSwinf(sbn) => AllSwinf(sbn')
  BY DEF AllSwinf
<1>2. SwinfComes(sbn, rest, jobs) => SwinfComes(sbn', rest', jobs')
  BY DEF SwinfComes
<1> QED
  BY <1>1, <1>2 DEF Fetched, Scanning

(* A scan notes only what it fetches itself.                               *)
LEMMA ScanFetched ==
  ASSUME Fetched, Scanning, UNCHANGED <<pc, how>>, sbn'.loaded = sbn.loaded \/ sbn'.loaded = sbn.loaded \cup TopoItems
  PROVE  Fetched'
<1>1. "all_SwitchInfo" \notin sbn'.loaded
  BY DEF Fetched, TopoItems
<1> QED
  BY <1>1 DEF Fetched, Scanning

(* The next questions are those that are needed.                           *)
LEMMA NextFetched ==
  ASSUME ScanDb(sbn), NEW stage \in {"swinf", "pinf", "idle"}, GoesOnTo(stage), TopoItems \subseteq sbn'.loaded,
         sbn'.class = sbn.class, sbn'.swinf = sbn.swinf, "all_SwitchInfo" \in sbn'.loaded /\ ~distrust' => AllSwinf(sbn)
  PROVE  Fetched'
<1>1. pc' = stage /\ rest' = Asks(stage, sbn) /\ ~Scanning'
  BY DEF GoesOnTo, Scanning
<1>2. AllSwinf(sbn) => AllSwinf(sbn')
  BY DEF AllSwinf
<1>3. stage = "swinf" => SwinfComes(sbn', rest', jobs')
  <2> SUFFICES ASSUME stage = "swinf", NEW n \in NodeObj, sbn.class[n] # None, IsSwitch(n[1])
               PROVE  n \in rest'
    BY DEF SwinfComes
  <2>1. IsSwitchNode(sbn, n)
    BY CopyFacts
  <2> QED
    BY <1>1, <2>1 DEF Asks, AllNodes
<1> QED
  BY <1>1, <1>2, <1>3 DEF Fetched

(* A reply in a scan.                                                      *)
LEMMA ReplyFetched ==
  ASSUME SmpInv, ScanInv, OnceInv, Fetched, NEW j \in jobs, Reply(j)
  PROVE  Fetched'
<1> PICK r : r = sbn'
  BY SMTT(30)
<1>1. Scanning /\ UNCHANGED <<pc, how>> /\ Shapes
  BY DEF Reply, loadVars, ScanInv
<1>2. r.loaded = sbn.loaded \/ r.loaded = sbn.loaded \cup TopoItems
  <2>1. CASE j.what = "node"
    <3> PICK b2 : b2 = todo'
      BY SMTT(30)
    <3> PICK x2 : x2 = ctx'
      BY SMTT(30)
    <3> PICK sw2 : sw2 = switches'
      BY SMTT(30)
    <3>1. j.depth \in Depth
      BY <1>1 DEF ScanInv, Depths
    <3> PICK w, np, item : NodeReplied(j, w, np, item, r, b2, x2, sw2)
      BY <1>1, <2>1, <3>1, NodeReplyIs
    <3>2. AnswersNode(sbn, todo, ctx, jobs, switches, reads, j, w, r, item, b2, x2, sw2)
      BY DEF NodeReplied
    <3>3. NodeStored(sbn, j, w, r)
      BY <3>2 DEF AnswersNode, NodeMoved
    <3> QED
      BY <3>3 DEF NodeStored
  <2>2. CASE j.what # "node"
    <3> PICK v, w, np : PortReplied(j, v, w, np, r)
      BY <1>1, <2>2, PortReplyIs
    <3> QED
      BY ZenonT(30) DEF PortReplied, InfoStored, ScanOn
  <2> QED
    BY <2>1, <2>2
<1> QED
  BY <1>1, <1>2, ScanFetched

(* A step of a generator.                                                  *)
LEMMA TodoFetched ==
  ASSUME SmpInv, Fetched, NEW c \in Ctx, Todo(c)
  PROVE  Fetched'
<1>1. Scanning /\ UNCHANGED <<pc, how>>
  BY ZenonT(30) DEF Todo, TodoCheck, TodoWoken, TodoNode, TodoPorts, TodoPort, TodoEmpty, May, AtTop, loadVars
<1>2. DOMAIN sbn = DOMAIN EmptyDb
  BY DEF SmpInv, ScanDb, DbInv, DbTypes
<1>3. ASSUME \E p, path : sbn' = [sbn EXCEPT !.path = [sbn.path EXCEPT ![p] = path]]
      PROVE  sbn'.loaded = sbn.loaded
  BY <1>2, <1>3 DEF EmptyDb
<1>4. ASSUME \E slot : sbn' = [sbn EXCEPT !.slot = slot]
      PROVE  sbn'.loaded = sbn.loaded
  BY <1>2, <1>4 DEF EmptyDb
<1>5. sbn'.loaded = sbn.loaded
  <2>1. CASE TodoPort(c)
    <3>1. sbn' = WithPort(sbn, ctx[c].node, Head(ctx[c].rem))
      BY <2>1 DEF TodoPort
    <3>2. \E slot : sbn' = [sbn EXCEPT !.slot = slot]
      BY <3>1 DEF WithPort
    <3> QED
      BY <1>4, <3>2
  <2>2. CASE TodoNode(c)
    <3> PICK item : item = Last(todo[c[1]].nodes)
      OBVIOUS
    <3>1. UNCHANGED sbn \/ sbn' = [sbn EXCEPT !.path = [sbn.path EXCEPT ![item.aport] = NextPath(item)]]
      BY <2>2 DEF TodoNode
    <3> QED
      BY <1>3, <3>1
  <2>3. CASE TodoCheck(c) \/ TodoWoken(c) \/ TodoPorts(c) \/ TodoEmpty(c)
    BY <2>3, ZenonT(30) DEF TodoCheck, TodoWoken, TodoPorts, TodoEmpty
  <2> QED
    BY <2>1, <2>2, <2>3 DEF Todo
<1> QED
  BY <1>1, <1>5, ScanFetched

(* A load() that is asked for something.                                   *)
LEMMA StartFetched ==
  ASSUME SmpInv, Fetched, NEW S, StartScan(S)
  PROVE  Fetched'
<1>1. ~(TopoItems \subseteq sbn.loaded) /\ sbn' = Wiped(sbn) /\ pc' = "scan" /\ how' = "none"
  BY DEF StartScan, Wanted
<1>2. DOMAIN sbn = DOMAIN EmptyDb
  BY DEF SmpInv, ScanDb, DbInv, DbTypes
<1>3. sbn'.loaded = sbn.loaded
  BY <1>1, <1>2 DEF Wiped, EmptyDb
<1>4. "all_SwitchInfo" \notin sbn'.loaded
  BY <1>1, <1>3 DEF Fetched
<1> QED
  BY <1>1, <1>4 DEF Fetched

(* A load begins that needs no scan.                                       *)
LEMMA MoreFetched ==
  ASSUME DiscoveryAssumption, ~useSA, SmpInv, Fetched, NEW S \in Items, LoadMore(S)
  PROVE  Fetched'
<1> PICK stage \in {"swinf", "pinf", "idle"} : stage = Stage(Wanted(S), "scan")
  BY StageFacts
<1>1. GoesOnTo(stage) /\ UNCHANGED <<sbn, distrust>>
  BY DEF LoadMore
<1>2. TopoItems \subseteq sbn.loaded
  <2>1. Wanted(S) \cap TopoItems = {}
    BY DEF LoadMore
  <2> QED
    BY <2>1, FetchedBefore
<1>3. ScanDb(sbn)
  BY DEF SmpInv
<1>4. "all_SwitchInfo" \in sbn'.loaded /\ ~distrust' => AllSwinf(sbn)
  BY <1>1 DEF Fetched
<1>5. TopoItems \subseteq sbn'.loaded /\ sbn'.class = sbn.class /\ sbn'.swinf = sbn.swinf
  BY <1>1, <1>2
<1> QED
  BY <1>1, <1>3, <1>4, <1>5, NextFetched

(* A load returns at once.                                                 *)
LEMMA NothingFetched ==
  ASSUME DiscoveryAssumption, ~useSA, SmpInv, Fetched, NEW S \in Items, LoadNothing(S)
  PROVE  Fetched'
<1>1. UNCHANGED <<sbn, pc, distrust, rest, jobs>> /\ Wanted(S) \cap TopoItems = {}
  BY DEF LoadNothing, saVars, scanVars
<1>2. TopoItems \subseteq sbn.loaded
  BY <1>1, FetchedBefore
<1> QED
  BY <1>1, <1>2, SameFetched

(* The SwitchInfo of each switch is there, asked for or still to ask for.  *)
LEMMA AskFetched ==
  ASSUME SmpInv, Fetched, NEW x \in rest, Ask(x)
  PROVE  Fetched'
<1>1. /\ Asking /\ UNCHANGED <<pc, how, distrust>> /\ rest' = rest \ {x}
      /\ sbn' = sbn \/ sbn' = WithPath(sbn, EndOf(x))
  BY DEF Ask, loadVars
<1>2. DOMAIN sbn = DOMAIN EmptyDb
  BY DEF SmpInv, ScanDb, DbInv, DbTypes
<1>3. sbn'.loaded = sbn.loaded /\ sbn'.class = sbn.class /\ sbn'.swinf = sbn.swinf
  BY <1>1, <1>2 DEF WithPath, EmptyDb
<1>4. jobs \subseteq jobs' /\ (pc = "swinf" => x \in sbn.swinf \/ \E j \in jobs' : j.of = x)
  <2>1. CASE HasIt(x)
    BY <2>1 DEF Ask, HasIt
  <2>2. CASE ~HasIt(x)
    <3> PICK j : j = [what |-> pc, of |-> x, path |-> PathName(sbn, EndOf(x))]
      OBVIOUS
    <3>1. jobs' = jobs \cup {j} /\ j.of = x
      BY <2>2 DEF Ask
    <3> QED
      BY <3>1
  <2> QED
    BY <2>1, <2>2
<1>5. pc = "swinf" /\ SwinfComes(sbn, rest, jobs) => SwinfComes(sbn', rest', jobs')
  BY <1>1, <1>3, <1>4 DEF SwinfComes
<1>6. AllSwinf(sbn) => AllSwinf(sbn')
  BY <1>3 DEF AllSwinf
<1> QED
  BY <1>1, <1>3, <1>5, <1>6 DEF Fetched, Asking, Scanning

(* A question after a scan is answered.                                    *)
LEMMA AnswerFetched ==
  ASSUME SmpInv, Whole, Fetched, NEW j \in jobs, Answer(j)
  PROVE  Fetched'
<1>1. /\ Asking /\ UNCHANGED <<pc, how, rest, distrust>> /\ TopoItems \subseteq sbn.loaded /\ ~Scanning /\ ~Scanning'
      /\ jobs' = jobs \ {j}
  BY DEF Answer, loadVars, saVars, SmpInv, AskUse, Asking, Scanning
<1>2. CASE pc = "swinf"
  <2>1. DOMAIN sbn = DOMAIN EmptyDb
    BY DEF SmpInv, ScanDb, DbInv, DbTypes
  <2>2. sbn'.loaded = sbn.loaded /\ sbn'.class = sbn.class /\ sbn'.swinf = sbn.swinf \cup {j.of}
    BY <1>2, <2>1 DEF Answer, EmptyDb
  <2>3. AllSwinf(sbn) => AllSwinf(sbn')
    BY <2>2 DEF AllSwinf
  <2>4. SwinfComes(sbn, rest, jobs) => SwinfComes(sbn', rest', jobs')
    BY <1>1, <2>2 DEF SwinfComes
  <2> QED
    BY <1>1, <2>2, <2>3, <2>4 DEF Fetched
<1>3. CASE pc # "swinf"
  <2>1. distrust
    BY <1>1, <1>3 DEF Whole, AllRead, Asking
  <2>2. TopoItems \subseteq sbn'.loaded
    BY <1>1, AnswerStores
  <2> QED
    BY <1>1, <1>3, <2>1, <2>2 DEF Fetched
<1> QED
  BY <1>2, <1>3

(* All questions of a kind have been answered.                             *)
LEMMA AskEndsFetched ==
  ASSUME SmpInv, Fetched, AskEnds
  PROVE  Fetched'
<1> PICK stage \in {"swinf", "pinf", "idle"} : stage = Stage(stuff, pc)
  BY StageFacts
<1>1. GoesOnTo(stage) /\ UNCHANGED distrust /\ rest = {} /\ jobs = {} /\ Asking /\ TopoItems \subseteq sbn.loaded
  BY DEF AskEnds, SmpInv, AskUse
<1>2. DOMAIN sbn = DOMAIN EmptyDb /\ ScanDb(sbn)
  BY DEF SmpInv, ScanDb, DbInv, DbTypes
<1>3. /\ sbn.loaded \subseteq sbn'.loaded /\ sbn'.class = sbn.class /\ sbn'.swinf = sbn.swinf
      /\ pc = "pinf" => sbn'.loaded = sbn.loaded \cup {"all_PortInfo", "all_LIDs"}
  BY <1>2 DEF AskEnds, EmptyDb
<1>4. "all_SwitchInfo" \in sbn'.loaded /\ ~distrust' => AllSwinf(sbn)
  <2>1. CASE pc = "pinf"
    BY <1>1, <1>3, <2>1 DEF Fetched
  <2>2. CASE pc = "swinf"
    BY <1>1, <2>2 DEF Fetched, SwinfComes, AllSwinf
  <2> QED
    BY <1>1, <2>1, <2>2 DEF Asking
<1> QED
  BY <1>1, <1>2, <1>3, <1>4, NextFetched

(* A scan ends.                                                            *)
LEMMA EndFetched ==
  ASSUME SmpInv, Fetched, ScanEnds
  PROVE  Fetched'
<1> PICK stage \in {"swinf", "pinf", "idle"} : stage = Stage(stuff, "scan")
  BY StageFacts
<1>1. GoesOnTo(stage) /\ UNCHANGED <<sbn, distrust>> /\ jobs = {} /\ Scanning
  BY DEF ScanEnds
<1>2. TopoItems \subseteq sbn.loaded /\ ScanDb(sbn)
  BY <1>1 DEF SmpInv, NotYet
<1>3. "all_SwitchInfo" \notin sbn'.loaded
  BY <1>1 DEF Fetched
<1> QED
  BY <1>1, <1>2, <1>3, NextFetched

(* A timeout ends the load.                                                *)
LEMMA RaiseFetched ==
  ASSUME Fetched, ScanRaises
  PROVE  Fetched'
<1>1. pc' = "idle" /\ how' = "raised" /\ UNCHANGED sbn /\ (distrust => distrust')
  BY DEF ScanRaises, Ends
<1> QED
  BY <1>1 DEF Fetched, Scanning

(* Every step of loads with SMPs keeps Fetched.                            *)
LEMMA FetchedNext ==
  ASSUME DiscoveryAssumption, ~useSA, SmpInv, ScanInv, OnceInv, Whole, Fetched, [Next]_vars
  PROVE  Fetched'
<1>1. pc \in {"idle", "scan", "swinf", "pinf"} /\ table = None /\ tables = {}
  BY DEF SmpInv, ScanMode
<1>2. CASE UNCHANGED vars
  BY <1>2, SameFetched DEF vars, loadVars, saVars, scanVars
<1>3. CASE \E S \in Items : StartScan(S) \/ LoadMore(S) \/ LoadNothing(S)
  BY <1>3, StartFetched, MoreFetched, NothingFetched
<1>4. CASE \E j \in jobs : Reply(j)
  BY <1>4, ReplyFetched
<1>5. CASE \E c \in Ctx : Todo(c)
  BY <1>5, TodoFetched
<1>6. CASE \E x \in rest : Ask(x)
  BY <1>6, AskFetched
<1>7. CASE \E j \in jobs : Answer(j)
  BY <1>7, AnswerFetched
<1>8. CASE ScanEnds \/ AskEnds \/ ScanRaises
  BY <1>8, EndFetched, AskEndsFetched, RaiseFetched
<1>9. /\ \A S \in Items : ~LoadSA(S)
      /\ \A t \in tables : ~SAReply(t)
      /\ \A w \in rest : ~SAStore(w) /\ ~SAStoreFails(w)
      /\ ~SAStored /\ ~SANext /\ ~SAQueryFails
  BY <1>1 DEF LoadSA, SAReply, SAStore, SAStoreFails, SAStored, SANext, SAQueryFails
<1> QED
  BY <1>2, <1>3, <1>4, <1>5, <1>6, <1>7, <1>8, <1>9 DEF Next

FetchedRight == ~useSA => Fetched
(* Nothing is loaded at first.                                             *)
LEMMA FetchedInit == ASSUME Init PROVE FetchedRight
<1> PICK routed \in BOOLEAN : sbn = [EmptyDb EXCEPT !.lidRouted = routed]
  BY DiscoveryAssumption DEF Init, DiscoveryAssumption
<1>1. sbn.loaded = {}
  BY DEF EmptyDb
<1>2. pc = "idle" /\ how = "none"
  BY DEF Init
<1> QED
  BY <1>1, <1>2 DEF FetchedRight, Fetched

(* What can be reached from here has been read.                            *)
LEMMA ReachedIsKept ==
  ASSUME NEW db, DoneDb(db), NEW w \in Reachable
  PROVE  w \in Place /\ Kept(db, w)
<1> PICK K : K = {v \in Place : Kept(db, v)}
  OBVIOUS
<1>1. Local \in K
  BY FabricAssumption DEF FabricAssumption, EndPlace, DoneDb
<1>2. Closed(K)
  <2>1. ASSUME NEW v \in K, IsSwitch(v[1]), NEW i \in 0..NumPorts[v[1]]
        PROVE  <<v[1], i>> \in K
    <3>1. <<v[1], i>> \in Place
      BY <2>1, PlaceFacts DEF Place
    <3> QED
      BY <2>1, <3>1 DEF DoneDb
  <2>2. ASSUME NEW v \in K, IsSwitch(v[1])
        PROVE  {v[1]} \X (0..NumPorts[v[1]]) \subseteq K
    BY <2>1, <2>2
  <2>3. ASSUME NEW v \in K, v \in DOMAIN Link
        PROVE  Link[v] \in K
    BY <2>3, FabricAssumption DEF FabricAssumption, DoneDb
  <2> QED
    BY <2>2, <2>3 DEF Closed
<1>3. K \in SUBSET Place
  OBVIOUS
<1> QED
  BY <1>1, <1>2, <1>3 DEF Reachable

(* What was read is closed under cables and ports of a switch.             *)
LEMMA ScanHasFound ==
  ASSUME ~useSA, SmpInv, Whole, Fetched, pc = "idle", how = "returned", ~distrust
  PROVE  ScanFound
<1>1. ScanDb(sbn) /\ DoneDb(sbn)
  BY DEF SmpInv, Whole, AllRead, Fetched, Scanning
<1>2. "all_SwitchInfo" \in sbn.loaded => AllSwinf(sbn)
  BY DEF Fetched
<1> SUFFICES ASSUME NEW w \in Reachable
             PROVE  /\ sbn.nodes[w[1]] # None
                    /\ sbn.slot[sbn.nodes[w[1]]][w[2]] \in sbn.pinf
                    /\ w \in DOMAIN Link => sbn.topology[<<sbn.nodes[w[1]], w[2]>>] # None
                    /\ ("all_SwitchInfo" \in sbn.loaded /\ IsSwitch(w[1])) => sbn.nodes[w[1]] \in sbn.swinf
  BY DEF ScanFound
<1> PICK n : n = <<w[1], 1>>
  OBVIOUS
<1>3. w \in Place /\ Kept(sbn, w)
  BY <1>1, ReachedIsKept
<1>4. Listed1(sbn, Place1(w)) /\ (w \in DOMAIN Link => sbn.topology[Place1(w)] # None)
  BY <1>1, <1>3 DEF DoneDb
<1>5. n \in NodeObj /\ sbn.class[n] # None
  BY <1>1, <1>3, <1>4, ListedNode
<1>6. sbn.nodes[w[1]] = n
  <2>1. AllSeen(sbn) /\ NodeIndexRight(sbn, {})
    BY <1>1 DEF ScanDb, DbInv
  <2>2. n \in sbn.ninf /\ n[1] = w[1]
    BY <1>5, <2>1 DEF AllSeen
  <2> QED
    BY <2>1, <2>2 DEF NodeIndexRight
<1>7. Place1(w) = <<n, w[2]>> /\ sbn.slot[n][w[2]] = Place1(w)
  BY <1>4 DEF Place1, Listed1, Parent
<1>8. Place1(w) \in sbn.pinf
  BY <1>3 DEF Kept
<1>9. "all_SwitchInfo" \in sbn.loaded /\ IsSwitch(w[1]) => n \in sbn.swinf
  <2>1. n[1] = w[1]
    OBVIOUS
  <2> QED
    BY <1>2, <1>5, <2>1 DEF AllSwinf
<1>10. sbn.nodes[w[1]] # None
  BY <1>5, <1>6, NoneAssumption
<1> QED
  BY <1>4, <1>6, <1>7, <1>8, <1>9, <1>10

(* A load() with SMPs that returns has scanned the fabric, and when it     *)
(* notes the SwitchInfos as loaded it has the one of each switch that the  *)
(* scan found, in whatever order answers come in.                          *)
THEOREM ScansFetchAll == Spec => []FetchedRight
<1>1. Init => FetchedRight
  BY FetchedInit
<1>2. FetchedRight /\ WholeRight /\ DbRight /\ TopoRight /\ ScanInv /\ [Next]_vars => FetchedRight'
  <2> SUFFICES ASSUME FetchedRight, WholeRight, DbRight, TopoRight, ScanInv, [Next]_vars, ~useSA' PROVE Fetched'
    BY DEF FetchedRight
  <2>1. CASE useSA
    BY <2>1, TopoSaNext, ZenonT(30) DEF TopoRight
  <2>2. CASE ~useSA
    BY <2>2, DiscoveryAssumption, FetchedNext DEF FetchedRight, WholeRight, DbRight, TopoRight
  <2> QED
    BY <2>1, <2>2
<1> QED
  BY <1>1, <1>2, ScanIsOrderly, DatabaseIsRight, TopologyIsRight, ScansAreWhole, PTL DEF Spec

-----------------------------------------------------------------------------
(* What load() has fetched from the SA.  Records are stored one after the  *)
(* other, and none takes away what another has brought; only the table of  *)
(* the links begins with an empty topology.                                *)
NodesOf(db, S) == \A e \in S : db.nodes[e[1]] # None
ReadOf(db, S) == \A w \in S : w[1] \notin Late => Place1(w) \in db.pinf
LinkedOf(db, S) == \A w \in S : {w[1], Link[w][1]} \cap Late = {} => db.topology[Place1(w)] # None
TabledDb(db) ==
  /\ "all_NodeInfo" \in db.loaded => NodesOf(db, Records("ninf"))
  /\ "all_PortInfo" \in db.loaded => "all_NodeInfo" \in db.loaded /\ ReadOf(db, Records("pinf"))
  /\ "all_topology" \in db.loaded => "all_NodeInfo" \in db.loaded /\ LinkedOf(db, Records("links"))
StoredOf(db, t, S) ==
  /\ t = "ninf" => NodesOf(db, S)
  /\ t = "pinf" => ReadOf(db, S)
  /\ t = "links" => LinkedOf(db, S)
SoFar == table # None => StoredOf(sbn, table, Records(table) \ rest)
LinksOnce ==
  /\ pc = "sa" => /\ "links" \notin tables /\ (table # None => table # "links")
                  /\ "all_topology" \in stuff => "all_topology" \notin sbn.loaded
  /\ "links" \in tables => "all_topology" \notin sbn.loaded
  /\ table # None /\ table = "links" => "all_topology" \notin sbn.loaded /\ "links" \notin tables
Tabled == TabledDb(sbn) /\ SoFar /\ LinksOnce

LEMMA RecordsAre ==
  /\ \A e \in Records("ninf") : e[1] \in Device
  /\ \A w \in Records("links") : w \in Place /\ Place1(w) \in PortObj
<1>1. \A e \in Records("ninf") : e[1] \in Device
  BY NinfRecords, EndPlaceFacts
<1>2. Records("links") \subseteq DOMAIN Link
  BY DEF Records
<1>3. \A w \in Records("links") : w \in Place
  BY <1>2, FabricAssumption DEF FabricAssumption
<1> QED
  BY <1>1, <1>3, PlacePort

(* What was stored is there while nothing is taken away.                   *)
LEMMA MoreStays ==
  ASSUME NEW db, NEW r, SaMore(db, r)
  PROVE  /\ \A S : S \subseteq Records("ninf") /\ NodesOf(db, S) => NodesOf(r, S)
         /\ \A S : ReadOf(db, S) => ReadOf(r, S)
         /\ \A S : S \subseteq Records("links") /\ LinkedOf(db, S) => LinkedOf(r, S)
BY RecordsAre DEF SaMore, NodesOf, ReadOf, LinkedOf

(* So it is of all tables that are noted.                                  *)
LEMMA MoreTabled ==
  ASSUME NEW db, NEW r, SaMore(db, r), r.loaded = db.loaded, TabledDb(db)
  PROVE  TabledDb(r)
BY MoreStays DEF TabledDb

(* A record that is stored.                                                *)
StoredOne(db, t, w, r) ==
  /\ SaMore(db, r) /\ r.loaded = db.loaded
  /\ t = "ninf" => r.nodes[w[1]] # None
  /\ t = "pinf" => (w[1] \notin Late => Place1(w) \in r.pinf)
  /\ t = "links" => ({w[1], Link[w][1]} \cap Late = {} => r.topology[Place1(w)] # None)

LEMMA StoresOne ==
  ASSUME SingleLate, TablesInv, NEW w \in rest, SAStore(w)
  PROVE  StoredOne(sbn, table, w, sbn')
<1>1. /\ table # None /\ w \in Records(table) /\ table \in TableNames /\ SaDb(sbn)
      /\ table \in {"pinf", "lids", "links"} => NinfsThere(sbn)
      /\ sbn' = Stored(sbn, w) /\ ~StoreFails(sbn, w)
  BY DEF SAStore, TablesInv
<1>2. CASE table = "ninf"
  <2>1. sbn' = get_node_ninf(sbn, w, ByLid(w)).db
    BY <1>1, <1>2 DEF Stored
  <2>2. SaKept(sbn, w, sbn') /\ sbn'.nodes[w[1]] # None
    BY <1>1, <1>2, <2>1, SaNinf
  <2> QED
    BY <1>2, <2>2 DEF StoredOne, SaKept
<1>3. CASE table = "swinf"
  <2> PICK np : np = get_node(sbn, "Switch", At2(ByLid(w), 0))
    OBVIOUS
  <2>1. sbn' = SwinfStored(np.db, np.node)
    BY <1>1, <1>3 DEF Stored, At2, SwinfStored
  <2>2. SaKept(sbn, w, SwinfStored(np.db, np.node))
    BY <1>1, <1>3, SaSwinf
  <2> QED
    BY <1>3, <2>1, <2>2 DEF StoredOne, SaKept
<1>4. CASE table = "pinf"
  <2> PICK np : np = get_port_pinf(sbn, w, w[2], PinfLid(w), ByLid(w))
    OBVIOUS
  <2>1. sbn' = np.db
    BY <1>1, <1>4 DEF Stored
  <2> PICK e : e = ToEndPlace(w)
    OBVIOUS
  <2>2. SaKept(sbn, e, np.db) /\ (w[1] \notin Late => Place1(w) \in np.db.pinf)
    BY <1>1, <1>4, SaPinf
  <2> QED
    BY <1>4, <2>1, <2>2 DEF StoredOne, SaKept
<1>5. CASE table = "links"
  <2>1. sbn' = Linked(sbn, w)
    BY <1>1, <1>5 DEF Stored
  <2> PICK e : e = ToEndPlace(w)
    OBVIOUS
  <2>2. SaKept(sbn, e, sbn') /\ ({w[1], Link[w][1]} \cap Late = {} => sbn'.topology[Place1(w)] # None)
    BY <1>1, <1>5, <2>1, SaLinked
  <2> QED
    BY <1>5, <2>2 DEF StoredOne, SaKept
<1>6. table # "lids"
  BY <1>1 DEF StoreFails
<1> QED
  BY <1>1, <1>2, <1>3, <1>4, <1>5, <1>6 DEF TableNames

(* One record of a table is stored.                                        *)
LEMMA StoreTabled ==
  ASSUME SingleLate, TablesInv, Tabled, NEW w \in rest, SAStore(w)
  PROVE  Tabled'
<1> PICK r : r = sbn'
  BY SMTT(30)
<1>1. /\ table # None /\ rest \subseteq Records(table) /\ table \in TableNames
      /\ UNCHANGED <<pc, stuff, tables, table>> /\ rest' = rest \ {w}
  BY DEF SAStore, TablesInv, loadVars
<1>2. StoredOne(sbn, table, w, r)
  BY StoresOne
<1>3. SaMore(sbn, r) /\ r.loaded = sbn.loaded
  BY <1>2 DEF StoredOne
<1>4. TabledDb(r)
  BY <1>3, MoreTabled DEF Tabled
<1>5. StoredOf(r, table, Records(table) \ rest')
  <2> PICK S : S = Records(table) \ rest
    OBVIOUS
  <2>1. Records(table) \ rest' \subseteq S \cup {w} /\ S \subseteq Records(table) /\ StoredOf(sbn, table, S)
    BY <1>1 DEF Tabled, SoFar
  <2>2. StoredOf(r, table, S)
    BY <1>3, <2>1, MoreStays DEF StoredOf
  <2>3. StoredOf(r, table, S \cup {w})
    BY <1>2, <2>2 DEF StoredOf, StoredOne, NodesOf, ReadOf, LinkedOf
  <2> QED
    BY <2>1, <2>3 DEF StoredOf, NodesOf, ReadOf, LinkedOf
<1>6. LinksOnce'
  BY <1>1, <1>3 DEF Tabled, LinksOnce
<1> QED
  BY <1>1, <1>4, <1>5, <1>6 DEF Tabled, SoFar

(* A step that changes none of it.                                         *)
LEMMA SameTabled ==
  ASSUME Tabled, UNCHANGED <<pc, stuff, tables, table, rest>>, sbn' = sbn
  PROVE  Tabled'
BY DEF Tabled, SoFar, LinksOnce

(* A load() begins, with nothing asked for that is loaded.                 *)
LEMMA LoadTabled ==
  ASSUME Tabled, NEW S, LoadSA(S)
  PROVE  Tabled'
<1>1. /\ UNCHANGED sbn /\ stuff' = Wanted(S) /\ pc' = "sa" /\ tables' = FirstTables(Wanted(S)) /\ table' = None
  BY DEF LoadSA
<1>2. "links" \notin tables'
  BY <1>1 DEF FirstTables
<1>3. "all_topology" \in stuff' => "all_topology" \notin sbn'.loaded
  BY <1>1 DEF Wanted
<1> QED
  BY <1>1, <1>2, <1>3 DEF Tabled, SoFar, LinksOnce

(* A table arrives.                                                        *)
LEMMA ReplyTabled ==
  ASSUME TablesInv, Tabled, NEW t \in tables, SAReply(t)
  PROVE  Tabled'
<1> PICK r : r = sbn'
  BY SMTT(30)
<1>1. /\ UNCHANGED <<pc, stuff>> /\ tables' = tables \ {t} /\ table' = t /\ rest' = Records(t) /\ t \in tables
      /\ r = IF t = "links" THEN [sbn EXCEPT !.topology = EmptyDb.topology] ELSE sbn
  BY DEF SAReply, loadVars
<1>2. TabledDb(r) /\ r.loaded = sbn.loaded
  <2>1. CASE t = "links"
    <3>1. r = [sbn EXCEPT !.topology = EmptyDb.topology] /\ DbInv(sbn, Late)
      BY <1>1, <2>1 DEF TablesInv, SaDb
    <3>2. r.nodes = sbn.nodes /\ r.pinf = sbn.pinf /\ r.loaded = sbn.loaded
      BY <3>1, NoTopology DEF SameIndexes
    <3>3. "all_topology" \notin sbn.loaded
      BY <2>1 DEF Tabled, LinksOnce
    <3> QED
      BY <3>2, <3>3 DEF Tabled, TabledDb, NodesOf, ReadOf
  <2>2. CASE t # "links"
    BY <1>1, <2>2 DEF Tabled
  <2> QED
    BY <2>1, <2>2
<1>3. Records(t) \ rest' = {}
  BY <1>1
<1>4. StoredOf(r, t, {})
  BY DEF StoredOf, NodesOf, ReadOf, LinkedOf
<1>5. SoFar'
  <2>1. Records(table') \ rest' = {}
    BY <1>1, <1>3
  <2> QED
    BY <1>1, <1>4, <2>1 DEF SoFar
<1>6. LinksOnce'
  BY <1>1, <1>2 DEF Tabled, LinksOnce
<1> QED
  BY <1>2, <1>5, <1>6 DEF Tabled

(* The table is in: it is noted as loaded.                                 *)
LEMMA StoredTabled ==
  ASSUME TablesInv, Tabled, SAStored
  PROVE  Tabled'
<1> PICK r : r = sbn'
  BY SMTT(30)
<1> PICK S : S = sbn.loaded \cup Loads(table)
  OBVIOUS
<1>1. /\ table # None /\ rest = {} /\ r = [sbn EXCEPT !.loaded = S] /\ table' = None
      /\ UNCHANGED <<pc, stuff, tables>>
  BY DEF SAStored, loadVars
<1>2. DbInv(sbn, Late) /\ table \in TableNames /\ (table \in {"pinf", "lids", "links"} => "all_NodeInfo" \in sbn.loaded)
  BY <1>1 DEF TablesInv, SaDb
<1>3. r.nodes = sbn.nodes /\ r.pinf = sbn.pinf /\ r.topology = sbn.topology /\ r.loaded = S
  BY <1>1, <1>2, LoadedKeeps DEF SameIndexes
<1>4. StoredOf(sbn, table, Records(table))
  <2>1. Records(table) \ rest = Records(table)
    BY <1>1
  <2> QED
    BY <1>1, <2>1 DEF Tabled, SoFar
<1>5. /\ "all_NodeInfo" \in Loads(table) => table = "ninf"
      /\ "all_PortInfo" \in Loads(table) => table = "pinf"
      /\ "all_topology" \in Loads(table) => table = "links"
  BY <1>2 DEF Loads, TableNames
<1>6. TabledDb(r)
  <2>1. "all_NodeInfo" \in S => NodesOf(sbn, Records("ninf"))
    BY <1>4, <1>5 DEF Tabled, TabledDb, StoredOf
  <2>2. "all_PortInfo" \in S => "all_NodeInfo" \in S /\ ReadOf(sbn, Records("pinf"))
    BY <1>2, <1>4, <1>5 DEF Tabled, TabledDb, StoredOf
  <2>3. "all_topology" \in S => "all_NodeInfo" \in S /\ LinkedOf(sbn, Records("links"))
    BY <1>2, <1>4, <1>5 DEF Tabled, TabledDb, StoredOf
  <2>4. /\ NodesOf(sbn, Records("ninf")) => NodesOf(r, Records("ninf"))
        /\ ReadOf(sbn, Records("pinf")) => ReadOf(r, Records("pinf"))
        /\ LinkedOf(sbn, Records("links")) => LinkedOf(r, Records("links"))
    BY <1>3 DEF NodesOf, ReadOf, LinkedOf
  <2> QED
    BY <1>3, <2>1, <2>2, <2>3, <2>4 DEF TabledDb
<1>7. LinksOnce'
  <2>1. "all_topology" \in r.loaded => "all_topology" \in sbn.loaded \/ table = "links"
    BY <1>3, <1>5
  <2> QED
    BY <1>1, <2>1 DEF Tabled, LinksOnce
<1> QED
  BY <1>1, <1>6, <1>7 DEF Tabled, SoFar

(* The second round of tables is asked for, or the load returns.           *)
LEMMA NextTabled ==
  ASSUME Tabled, SANext
  PROVE  Tabled'
<1>1. /\ UNCHANGED <<sbn, table, rest, stuff>> /\ table = None /\ tables = {}
      /\ \/ pc = "sa" /\ pc' = "sa2" /\ tables' = SecondTables(stuff)
         \/ pc' = "idle" /\ tables' = {}
  BY DEF SANext, Ends
<1>2. "links" \in SecondTables(stuff) => "all_topology" \in stuff
  BY DEF SecondTables
<1> QED
  BY <1>1, <1>2 DEF Tabled, SoFar, LinksOnce

(* A load() that breaks off keeps what it has stored.                      *)
LEMMA RaisedTabled ==
  ASSUME Tabled, SARaises, sbn'.loaded = sbn.loaded, sbn'.nodes = sbn.nodes, sbn'.pinf = sbn.pinf,
         sbn'.topology = sbn.topology
  PROVE  Tabled'
<1>1. pc' = "idle" /\ tables' = {} /\ table' = None
  BY DEF SARaises, Ends
<1>2. TabledDb(sbn')
  BY DEF Tabled, TabledDb, NodesOf, ReadOf, LinkedOf
<1> QED
  BY <1>1, <1>2 DEF Tabled, SoFar, LinksOnce

(* Storing a record breaks off the load.                                   *)
LEMMA FailsTabled ==
  ASSUME TablesInv, Tabled, NEW w \in rest, SAStoreFails(w)
  PROVE  Tabled'
<1> PICK n : n = Parent(search_end_port(sbn, ByLid(w)))
  OBVIOUS
<1>1. SARaises /\ sbn' = IF Retypes(sbn, n, "Switch") /\ table # "lids" THEN Reclassed(sbn, n, "Switch") ELSE sbn
  BY DEF SAStoreFails, Reclassed
<1>2. DOMAIN sbn = DOMAIN EmptyDb
  BY DEF TablesInv, SaDb, DbInv, DbTypes
<1>3. sbn'.loaded = sbn.loaded /\ sbn'.nodes = sbn.nodes /\ sbn'.pinf = sbn.pinf /\ sbn'.topology = sbn.topology
  BY <1>1, <1>2 DEF Reclassed, EmptyDb
<1> QED
  BY <1>1, <1>3, RaisedTabled

(* Every step of loads from the SA keeps Tabled.                           *)
LEMMA TabledNext ==
  ASSUME SingleLate, useSA, TablesInv, Tabled, [Next]_vars
  PROVE  Tabled'
<1>1. ~Scanning /\ ~Asking
  BY DEF TablesInv, Scanning, Asking
<1>2. CASE UNCHANGED vars
  BY <1>2, SameTabled DEF vars, loadVars, saVars
<1>3. CASE \E S \in Items : LoadSA(S) \/ LoadNothing(S)
  <2>1. CASE \E S \in Items : LoadSA(S)
    BY <2>1, LoadTabled
  <2>2. CASE \E S \in Items : LoadNothing(S)
    <3>1. UNCHANGED <<pc, sbn, tables, table, rest>> /\ stuff' = {}
      BY <2>2 DEF LoadNothing, saVars
    <3> QED
      BY <3>1 DEF Tabled, SoFar, LinksOnce
  <2> QED
    BY <1>3, <2>1, <2>2
<1>4. CASE \E t \in tables : SAReply(t)
  BY <1>4, ReplyTabled
<1>5. CASE \E w \in rest : SAStore(w) \/ SAStoreFails(w)
  BY <1>5, StoreTabled, FailsTabled
<1>6. CASE SAStored \/ SANext
  BY <1>6, StoredTabled, NextTabled
<1>7. CASE SAQueryFails
  BY <1>7, RaisedTabled DEF SAQueryFails
<1>8. \A S \in Items : ~StartScan(S) /\ ~LoadMore(S)
  BY DEF StartScan, LoadMore
<1>9. /\ \A j \in jobs : ~Reply(j) /\ ~Answer(j)
      /\ \A c \in Ctx : ~Todo(c)
      /\ \A x \in rest : ~Ask(x)
      /\ ~ScanEnds /\ ~AskEnds /\ ~ScanRaises
  <2>1. \A j \in jobs : ~Reply(j) /\ ~Answer(j)
    BY <1>1 DEF Reply, Answer
  <2>2. \A c \in Ctx : ~Todo(c)
    BY <1>1, ZenonT(30) DEF Todo, TodoCheck, TodoWoken, TodoNode, TodoPorts, TodoPort, TodoEmpty, AtTop, May
  <2> QED
    BY <1>1, <2>1, <2>2 DEF Ask, ScanEnds, AskEnds, ScanRaises
<1> QED
  BY <1>2, <1>3, <1>4, <1>5, <1>6, <1>7, <1>8, <1>9 DEF Next

TabledRight == useSA /\ SingleLate => Tabled
(* Nothing is loaded at first.                                             *)
LEMMA TabledInit == ASSUME Init PROVE TabledRight
<1> PICK routed \in BOOLEAN : sbn = [EmptyDb EXCEPT !.lidRouted = routed]
  BY DiscoveryAssumption DEF Init, DiscoveryAssumption
<1>1. sbn.loaded = {}
  BY DEF EmptyDb
<1>2. tables = {} /\ table = None
  BY DEF Init
<1> QED
  BY <1>1, <1>2 DEF TabledRight, Tabled, TabledDb, SoFar, LinksOnce

(* What the SA had in its tables is in the database once noted as loaded,  *)
(* whatever order replies and records came in, and whatever broke off.     *)
THEOREM TablesAreKept == Spec => []TabledRight
<1>1. Init => TabledRight
  BY TabledInit
<1>2. TabledRight /\ DbRight /\ ScanInv /\ [Next]_vars => TabledRight'
  <2> SUFFICES ASSUME TabledRight, DbRight, ScanInv, [Next]_vars, useSA', SingleLate PROVE Tabled'
    BY DEF TabledRight
  <2>1. useSA
    BY SmpNext, ZenonT(30) DEF DbRight
  <2> QED
    BY <2>1, TabledNext DEF TabledRight, DbRight
<1> QED
  BY <1>1, <1>2, DatabaseIsRight, ScanIsOrderly, PTL DEF Spec

(* What is noted of the SA's tables is in the database.                    *)
LEMMA TablesHaveIt ==
  ASSUME SaDb(sbn), TabledDb(sbn)
  PROVE  TablesFound
<1>1. NodeIndexRight(sbn, Late)
  BY DEF SaDb, DbInv
<1>2. ASSUME NEW w \in Place, InTable(ToEndPlace(w)), w[1] \notin Late, "all_NodeInfo" \in sbn.loaded,
             ToEndPlace(w) \in EndPlace
      PROVE  <<sbn.nodes[w[1]], w[2]>> = Place1(w)
  <2> PICK e : e = ToEndPlace(w)
    OBVIOUS
  <2>1. e[1] = w[1] /\ e \in Records("ninf") /\ w[1] \in Device
    <3>1. e[1] = w[1]
      BY DEF ToEndPlace
    <3> QED
      BY <1>2, <3>1, NoMoreLate, PlaceFacts
  <2>2. sbn.nodes[w[1]] # None
    BY <1>2, <2>1 DEF TabledDb, NodesOf
  <2> QED
    BY <1>1, <2>1, <2>2 DEF NodeIndexRight, Place1
<1>3. \A w \in Records("pinf") : w \in Place /\ InTable(ToEndPlace(w)) /\ ToEndPlace(w) \in EndPlace
  BY PlaceFacts DEF Records, PortRecords
<1>4. \A w \in Records("links") : w \in Place /\ InTable(ToEndPlace(w)) /\ ToEndPlace(w) \in EndPlace
  <2>1. \A w \in Records("links") : w \in DOMAIN Link /\ InTable(ToEndPlace(w))
    BY DEF Records
  <2> QED
    BY <2>1, PlaceFacts, FabricAssumption DEF FabricAssumption
<1>5. ASSUME "all_PortInfo" \in sbn.loaded, NEW w \in Records("pinf"), w[1] \notin Late
      PROVE  <<sbn.nodes[w[1]], w[2]>> \in sbn.pinf
  <2>1. "all_NodeInfo" \in sbn.loaded /\ Place1(w) \in sbn.pinf
    BY <1>5 DEF TabledDb, ReadOf
  <2> QED
    BY <1>2, <1>3, <1>5, <2>1
<1>6. ASSUME "all_topology" \in sbn.loaded, NEW w \in Records("links"), {w[1], Link[w][1]} \cap Late = {}
      PROVE  sbn.topology[<<sbn.nodes[w[1]], w[2]>>] # None
  <2>1. "all_NodeInfo" \in sbn.loaded /\ sbn.topology[Place1(w)] # None
    BY <1>6 DEF TabledDb, LinkedOf
  <2> QED
    BY <1>2, <1>4, <1>6, <2>1
<1> QED
  BY <1>5, <1>6 DEF TablesFound, TabledDb, NodesOf

(* What load() has noted as loaded when it returns is in the database, in  *)
(* every fabric: from the SA what its tables held of the devices it was    *)
(* not late with, and with SMPs all that can be reached, unless an earlier *)
(* scan of the same database was broken off: discovery.py:416-533.         *)
THEOREM LoadedIsAlwaysThere == Spec => []((useSA => SingleLate) => LoadedIsThere)
<1>1. FetchedRight /\ WholeRight /\ DbRight /\ TabledRight => ((useSA => SingleLate) => LoadedIsThere)
  <2> SUFFICES ASSUME FetchedRight, WholeRight, DbRight, TabledRight, useSA => SingleLate PROVE LoadedIsThere
    OBVIOUS
  <2>1. CASE useSA
    <3>1. SaDb(sbn) /\ TabledDb(sbn)
      BY <2>1 DEF DbRight, TablesInv, TabledRight, Tabled
    <3> QED
      BY <2>1, <3>1, TablesHaveIt DEF LoadedIsThere
  <2>2. CASE ~useSA
    BY <2>2, ScanHasFound DEF FetchedRight, WholeRight, DbRight, LoadedIsThere
  <2> QED
    BY <2>1, <2>2
<1> QED
  BY <1>1, ScansFetchAll, ScansAreWhole, TablesAreKept, DatabaseIsRight, PTL
=============================================================================
