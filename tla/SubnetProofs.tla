---------------------------- MODULE SubnetProofs ----------------------------
(***************************************************************************)
(* What every operation of the subnet database keeps, for every fabric:    *)
(* that its indexes lead to the objects of the devices they are about, and *)
(* that these have one object each.                                        *)
(*                                                                         *)
(* L is the set of devices of which only the LIDs are known so far, so     *)
(* that what they are, and which port has which LID, is not settled.       *)
(***************************************************************************)
EXTENDS Subnet, SeqLemmas, FiniteSetTheorems

DbTypes(db) ==
  /\ DOMAIN db = DOMAIN EmptyDb
  /\ db.class \in [NodeObj -> {None, "Node", "CA", "Router", "Switch"}]
  /\ db.ninf \subseteq NodeObj /\ db.swinf \subseteq NodeObj
  /\ db.slot \in [NodeObj -> [0..MaxPort -> PortObj \cup {None}]]
  /\ db.guid \in [PortObj -> EndPlace \cup {None}]
  /\ db.lid \in [PortObj -> Nat \cup {None}]
  /\ db.pinf \subseteq PortObj
  /\ db.nodes \in [Device -> NodeObj \cup {None}]
  /\ db.ports \in [EndPlace -> PortObj \cup {None}]
  /\ db.lids \in [LIDs -> PortObj \cup {None}]
  /\ db.topology \in [PortObj -> PortObj \cup {None}]
  /\ db.path \in [PathObj -> Path \cup {None}]
  /\ db.paths \in [PortObj -> PathObj \cup {None}]
  /\ db.lidRouted \in BOOLEAN

Exists(db, p) == p \in PortObj /\ db.class[Parent(p)] # None
Place1(e) == <<<<e[1], 1>>, e[2]>>
Listed1(db, p) == p[2] \in 0..MaxPort /\ db.slot[Parent(p)][p[2]] = p

NodesRight(db, L) ==
  \A n \in NodeObj : db.class[n] # None => n[2] = 1 /\ (n[1] \notin L => db.class[n] = Kind[n[1]])
NodeIndexRight(db, L) ==
  /\ \A d \in Device : db.nodes[d] # None => db.nodes[d] = <<d, 1>> /\ db.class[<<d, 1>>] # None /\ d \notin L
  /\ \A n \in db.ninf : db.nodes[n[1]] = n
SlotsRight(db, L) ==
  \A n \in NodeObj, i \in 0..MaxPort : LET p == db.slot[n][i] IN p # None =>
    Parent(p) = n /\ db.class[n] # None /\ (n[1] \notin L => p = <<n, i>>)
PortIndexRight(db, L) ==
  /\ \A e \in EndPlace : db.ports[e] # None =>
       e[1] \notin L /\ db.ports[e] = Place1(e) /\ db.guid[Place1(e)] = e /\ Exists(db, Place1(e)) /\ Listed1(db, Place1(e))
  /\ \A p \in PortObj : db.guid[p] # None => db.ports[db.guid[p]] = p
LidIndexRight(db, L) ==
  \A l \in LIDs : LET p == db.lids[l] IN p # None =>
    /\ PlaceAtLid(l) # None /\ Exists(db, p) /\ Parent(p)[1] = PlaceAtLid(l)[1]
    /\ Parent(p)[1] \notin L => p = Place1(PlaceAtLid(l)) /\ Listed1(db, p)
LidsRight(db, L) ==
  \A p \in PortObj : db.lid[p] # None =>
    /\ db.lid[p] # 0 /\ Exists(db, p)
    /\ Parent(p)[1] \notin L =>
         p = Place1(PlaceOf(p)) /\ PlaceOf(p) \in EndPlace /\ db.lid[p] = Lid[PlaceOf(p)] /\ Listed1(db, p)

DbInv(db, L) ==
  /\ DbTypes(db) /\ NodesRight(db, L) /\ NodeIndexRight(db, L) /\ SlotsRight(db, L)
  /\ PortIndexRight(db, L) /\ LidIndexRight(db, L) /\ LidsRight(db, L)

Args == [about : Device, idx : Nat \cup {None}, node : Device \cup {None}, guid : EndPlace \cup {None},
         path : PathObj \cup {None}, lid : Nat \cup {None}, lmc : Nat]

WithEp(path, h, p) == [path EXCEPT ![h].ep = p]
SlotWith(slot, n, i, p) == [slot EXCEPT ![n] = Put(@, i, p)]

LEMMA LinkFields ==
  ASSUME NEW db, DbTypes(db), NEW p \in PortObj, NEW a, NEW r, r = link_end_port(db, p, a),
         NEW lid, lid = LidIn(db, a),
         NEW guid, guid = IF db.guid[p] = None THEN a.guid ELSE None
  PROVE
    /\ DOMAIN r = DOMAIN EmptyDb
    /\ r.class = db.class /\ r.ninf = db.ninf /\ r.swinf = db.swinf /\ r.pinf = db.pinf
    /\ r.nodes = db.nodes /\ r.topology = db.topology /\ r.lidRouted = db.lidRouted /\ r.loaded = db.loaded
    /\ r.slot = SlotWith(db.slot, Parent(p), a.idx, p)
    /\ r.guid = [db.guid EXCEPT ![p] = IF guid # None THEN guid ELSE @]
    /\ r.ports = Put(db.ports, guid, p)
    /\ r.lid = [db.lid EXCEPT ![p] = IF lid # None THEN lid ELSE @]
    /\ r.lids = LinkLids(db.lids, lid, a.lmc, p)
    /\ r.path = IF a.path # None THEN WithEp(db.path, a.path, p) ELSE db.path
    /\ r.paths = [db.paths EXCEPT ![p] = IF a.path # None /\ ~db.lidRouted THEN a.path ELSE @]
  BY DEF DbTypes, link_end_port, EmptyDb, WithEp, SlotWith

Told(db, a, e) ==
  /\ e \in EndPlace /\ a \in Args /\ a.about = e[1]
  /\ a.node \in {None, e[1]} /\ a.guid \in {None, e}
  /\ a.idx # None => a.idx \in 0..MaxPort
  /\ a.node # None /\ a.idx # None => a.idx = e[2]
  /\ LidIn(db, a) # None => LidIn(db, a) = Lid[e] /\ Lid[e] # 0
  /\ a.lmc \in {0, Lmc[e]}
  /\ a.path # None => db.path[a.path] # None

(* None is none of the fabric's objects.                                   *)
LEMMA FixedNone == /\ None \notin Device /\ None \notin Place /\ None \notin NodeObj /\ None \notin PathObj /\ None \notin PortObj
                   /\ None \notin Nat /\ None \notin EndPlace /\ None \notin Path
  BY NoneAssumption DEF PathObj, EndPlace

(* An end port is a device and a number, and a place.                      *)
LEMMA EndPlaceFacts ==
  ASSUME NEW e \in EndPlace
  PROVE  e = <<e[1], e[2]>> /\ e[1] \in Device /\ e[2] \in Nat /\ e \in Place
<1>1. PICK d \in Device : e \in {d} \X (0..NumPorts[d])
  BY DEF EndPlace, Place
<1> QED
  BY <1>1, FabricAssumption DEF FabricAssumption, EndPlace

(* A LID of an end port's range leads to it.                               *)
LEMMA RangeFacts ==
  ASSUME NEW e \in EndPlace, Lid[e] # 0, NEW lmc \in {0, Lmc[e]}
  PROVE  /\ Lid[e] \in Nat /\ Lid[e] \in LidRange(Lid[e], lmc)
         /\ \A l \in LidRange(Lid[e], lmc) : l \in LIDs /\ PlaceAtLid(l) = e
<1>1. Lid[e] \in Nat /\ Lid[e] \in LidRange(Lid[e], Lmc[e]) /\ LidRange(Lid[e], Lmc[e]) \subseteq LIDs
  BY LidAssumption DEF LidAssumption
<1>2. LidRange(Lid[e], 0) = {Lid[e]}
  BY <1>1 DEF LidRange
<1>3. Lid[e] \in LidRange(Lid[e], lmc) /\ LidRange(Lid[e], lmc) \subseteq LidRange(Lid[e], Lmc[e])
  BY <1>1, <1>2
<1>4. ASSUME NEW l \in LidRange(Lid[e], Lmc[e]) PROVE PlaceAtLid(l) = e
  <2>1. \A f \in EndPlace : Lid[f] # 0 /\ l \in LidRange(Lid[f], Lmc[f]) => f = e
    BY LidAssumption DEF LidAssumption
  <2> QED
    BY <2>1 DEF PlaceAtLid
<1> QED
  BY <1>1, <1>3, <1>4

LinkedTo(db, L, e, a, p, r) ==
  /\ DbInv(r, L)
  /\ r.class = db.class /\ r.ninf = db.ninf /\ r.swinf = db.swinf /\ r.pinf = db.pinf
  /\ r.nodes = db.nodes /\ r.topology = db.topology /\ r.lidRouted = db.lidRouted
  /\ r.loaded = db.loaded
  /\ \A l \in LIDs : db.lids[l] # None => r.lids[l] # None
  /\ LidIn(db, a) # None => r.lids[Lid[e]] # None /\ r.lid[p] = Lid[e]
  /\ \A q \in PortObj : r.lid[q] = IF q = p /\ LidIn(db, a) # None THEN Lid[e] ELSE db.lid[q]
  /\ a.guid # None => r.ports[e] = p
  /\ \A f \in EndPlace : r.ports[f] = db.ports[f] \/ (f = e /\ a.guid # None)
  /\ \A m \in NodeObj, i \in 0..MaxPort :
       r.slot[m][i] = IF m = <<e[1], 1>> /\ i = a.idx /\ a.idx # None THEN p ELSE db.slot[m][i]
  /\ e[1] \notin L => Listed1(r, p)
  /\ a.path # None => r.path = WithEp(db.path, a.path, p)
  /\ a.path = None => r.path = db.path
  /\ r.paths = [db.paths EXCEPT ![p] = IF a.path # None /\ ~db.lidRouted THEN a.path ELSE @]

(* Storing what is known of the end port e in its Port object p.           *)
LEMMA LinkKeeps ==
  ASSUME NEW db, NEW L, DbInv(db, L), NEW e, NEW a, Told(db, a, e),
         NEW p \in PortObj, Parent(p) = <<e[1], 1>>, db.class[<<e[1], 1>>] # None,
         e[1] \notin L => p = Place1(e) /\ (a.idx = e[2] \/ (a.idx = None /\ Listed1(db, p))),
         a.guid # None => e[1] \notin L,
         NEW r, r = link_end_port(db, p, a)
  PROVE  LinkedTo(db, L, e, a, p, r)
<1> DEFINE n == <<e[1], 1>>
<1>a. PICK lid : lid = LidIn(db, a)
  OBVIOUS
<1>b. PICK guid : guid = IF db.guid[p] = None THEN a.guid ELSE None
  OBVIOUS
<1>1. DbTypes(db) /\ n \in NodeObj /\ e = <<e[1], e[2]>> /\ e[1] \in Device /\ p = <<n, p[2]>> /\ e \in EndPlace
  BY EndPlaceFacts DEF DbInv, Told, PortObj, Parent, NodeObj
<1>2. /\ DOMAIN r = DOMAIN EmptyDb
      /\ r.class = db.class /\ r.ninf = db.ninf /\ r.swinf = db.swinf /\ r.pinf = db.pinf
      /\ r.nodes = db.nodes /\ r.topology = db.topology /\ r.lidRouted = db.lidRouted
      /\ r.loaded = db.loaded
      /\ r.slot = SlotWith(db.slot, Parent(p), a.idx, p)
      /\ r.guid = [db.guid EXCEPT ![p] = IF guid # None THEN guid ELSE @]
      /\ r.ports = Put(db.ports, guid, p)
      /\ r.lid = [db.lid EXCEPT ![p] = IF lid # None THEN lid ELSE @]
      /\ r.lids = LinkLids(db.lids, lid, a.lmc, p)
      /\ r.path = IF a.path # None THEN WithEp(db.path, a.path, p) ELSE db.path
      /\ r.paths = [db.paths EXCEPT ![p] = IF a.path # None /\ ~db.lidRouted THEN a.path ELSE @]
  BY <1>1, <1>a, <1>b, LinkFields
<1> HIDE DEF n
<1>3. /\ \A l \in LIDs : r.lids[l] = IF lid # None /\ l \in LidRange(lid, a.lmc) THEN p ELSE db.lids[l]
      /\ r.lids \in [LIDs -> PortObj \cup {None}]
      /\ lid # None => lid = Lid[e] /\ Lid[e] \in LIDs /\ Lid[e] \in LidRange(lid, a.lmc) /\ lid \in Nat
      /\ lid # None => \A l \in LidRange(lid, a.lmc) : PlaceAtLid(l) = e
  <2>1. CASE lid = None
    BY <1>1, <1>2, <2>1 DEF LinkLids, DbTypes
  <2>2. CASE lid # None
    <3>1. /\ lid = Lid[e] /\ Lid[e] # 0 /\ a.lmc \in {0, Lmc[e]}
      BY <1>a, <2>2 DEF Told
    <3>2. /\ Lid[e] \in Nat /\ Lid[e] \in LidRange(lid, a.lmc)
          /\ \A l \in LidRange(lid, a.lmc) : l \in LIDs /\ PlaceAtLid(l) = e
      BY <1>1, <3>1, RangeFacts
    <3>4. r.lids = [l \in LIDs |-> IF l \in LidRange(lid, a.lmc) THEN p ELSE db.lids[l]]
      BY <1>1, <1>2, <2>2 DEF LinkLids, DbTypes
    <3> QED
      BY <1>1, <3>1, <3>2, <3>4, <2>2 DEF DbTypes
  <2> QED
    BY <2>1, <2>2
<1>4. /\ \A m \in NodeObj, i \in 0..MaxPort :
           r.slot[m][i] = IF m = n /\ i = a.idx /\ a.idx # None THEN p ELSE db.slot[m][i]
      /\ r.slot \in [NodeObj -> [0..MaxPort -> PortObj \cup {None}]]
  <2>1. a.idx # None => a.idx \in 0..MaxPort
    BY DEF Told
  <2>2. Parent(p) = n /\ db.slot \in [NodeObj -> [0..MaxPort -> PortObj \cup {None}]]
    BY <1>1 DEF DbTypes, n
  <2>3. CASE a.idx = None
    BY <1>1, <1>2, <2>2, <2>3 DEF Put, SlotWith
  <2>4. CASE a.idx # None
    <3>1. r.slot = [db.slot EXCEPT ![n] = [db.slot[n] EXCEPT ![a.idx] = p]]
      BY <1>2, <2>2, <2>4 DEF Put, SlotWith
    <3> QED
      <4> DEFINE X == [db.slot[n] EXCEPT ![a.idx] = p]
      <4>1. X \in [0..MaxPort -> PortObj \cup {None}]
        BY <1>1, <2>1, <2>2, <2>4
      <4>2. \A i \in 0..MaxPort : X[i] = IF i = a.idx THEN p ELSE db.slot[n][i]
        BY <1>1, <2>1, <2>2, <2>4
      <4>3. r.slot = [db.slot EXCEPT ![n] = X]
        BY <3>1
      <4> HIDE DEF X
      <4> QED
        BY <1>1, <2>2, <2>4, <4>1, <4>2, <4>3
  <2> QED
    BY <2>3, <2>4
<1>5. /\ guid # None => guid = e /\ db.guid[p] = None /\ e[1] \notin L
      /\ \A q \in PortObj : r.guid[q] = IF q = p /\ guid # None THEN e ELSE db.guid[q]
      /\ \A f \in EndPlace : r.ports[f] = IF f = e /\ guid # None THEN p ELSE db.ports[f]
      /\ r.guid \in [PortObj -> EndPlace \cup {None}]
      /\ r.ports \in [EndPlace -> PortObj \cup {None}]
  BY <1>1, <1>2, <1>b DEF DbTypes, Put, Told
<1>6. /\ \A q \in PortObj : r.lid[q] = IF q = p /\ lid # None THEN Lid[e] ELSE db.lid[q]
      /\ r.lid \in [PortObj -> Nat \cup {None}]
  BY <1>1, <1>2, <1>3 DEF DbTypes
<1>7. r.path \in [PathObj -> Path \cup {None}] /\ r.paths \in [PortObj -> PathObj \cup {None}]
  <2>1. a.path # None => a.path \in PathObj /\ db.path[a.path] \in Path
    BY <1>1 DEF Told, Args, DbTypes
  <2>2. a.path # None => [db.path[a.path] EXCEPT !.ep = p] \in Path
    BY <2>1 DEF Path
  <2>3. r.path \in [PathObj -> Path \cup {None}]
    <3>1. CASE a.path = None
      BY <1>1, <1>2, <3>1 DEF DbTypes
    <3>2. CASE a.path # None
      <4>1. r.path = [db.path EXCEPT ![a.path] = [db.path[a.path] EXCEPT !.ep = p]]
        BY <1>2, <3>2 DEF WithEp
      <4> QED
        BY <4>1, <3>2, <2>1, <2>2, <1>1 DEF DbTypes
    <3> QED
      BY <3>1, <3>2
  <2> QED
    BY <1>1, <1>2, <2>1, <2>3 DEF DbTypes
<1>8. DbTypes(r)
  BY <1>1, <1>2, <1>3, <1>4, <1>5, <1>6, <1>7 DEF DbTypes
<1>9. NodesRight(r, L) /\ NodeIndexRight(r, L)
  BY <1>2 DEF DbInv, NodesRight, NodeIndexRight
<1>10. e[1] \notin L => p = <<n, e[2]>>
  BY DEF Place1, n
<1>11. e[1] \notin L => Listed1(r, p)
  <2> SUFFICES ASSUME e[1] \notin L PROVE Listed1(r, p)
    OBVIOUS
  <2>1. p = <<n, e[2]>> /\ p[2] = e[2] /\ Parent(p) = n /\ e[2] \in Nat
    BY <1>1, <1>10, EndPlaceFacts DEF Parent
  <2>2. CASE a.idx = e[2]
    <3>1. e[2] \in 0..MaxPort
      BY <2>1, <2>2, FixedNone DEF Told
    <3> QED
      BY <2>1, <2>2, <3>1, <1>1, <1>4, FixedNone DEF Listed1
  <2>3. CASE a.idx = None /\ Listed1(db, p)
    BY <2>1, <2>3, <1>1, <1>4 DEF Listed1
  <2> QED
    BY <2>2, <2>3
<1>12. \A q \in PortObj : Listed1(db, q) /\ Parent(q)[1] \notin L => Listed1(r, q)
  <2> SUFFICES ASSUME NEW q \in PortObj, Listed1(db, q), Parent(q)[1] \notin L PROVE Listed1(r, q)
    OBVIOUS
  <2>1. Parent(q) \in NodeObj /\ q[2] \in 0..MaxPort /\ q = <<Parent(q), q[2]>> /\ db.slot[Parent(q)][q[2]] = q
    BY DEF Listed1, PortObj, Parent
  <2>2. CASE Parent(q) = n /\ q[2] = a.idx /\ a.idx # None
    <3>1. e[1] \notin L
      BY <2>2 DEF n
    <3>2. p = q
      BY <3>1, <2>1, <2>2, <1>10
    <3> QED
      BY <2>1, <2>2, <3>2, <1>4 DEF Listed1
  <2>3. CASE ~(Parent(q) = n /\ q[2] = a.idx /\ a.idx # None)
    BY <2>1, <2>3, <1>4 DEF Listed1
  <2> QED
    BY <2>2, <2>3
<1>13. \A q : Exists(db, q) => Exists(r, q)
  BY <1>2 DEF Exists
<1>14. SlotsRight(r, L)
  <2> SUFFICES ASSUME NEW m \in NodeObj, NEW i \in 0..MaxPort, r.slot[m][i] # None
               PROVE  /\ Parent(r.slot[m][i]) = m /\ r.class[m] # None
                      /\ m[1] \notin L => r.slot[m][i] = <<m, i>>
    BY DEF SlotsRight
  <2>1. CASE m = n /\ i = a.idx /\ a.idx # None
    <3>1. r.slot[m][i] = p
      BY <2>1, <1>4
    <3>2. m[1] \notin L => i = e[2]
      BY <2>1 DEF n
    <3> QED
      BY <2>1, <3>1, <3>2, <1>2, <1>10 DEF n
  <2>2. CASE ~(m = n /\ i = a.idx /\ a.idx # None)
    <3>1. r.slot[m][i] = db.slot[m][i]
      BY <2>2, <1>4
    <3> QED
      BY <3>1, <1>2 DEF DbInv, SlotsRight
  <2> QED
    BY <2>1, <2>2
<1>15. PortIndexRight(r, L)
  <2>1. ASSUME NEW f \in EndPlace, r.ports[f] # None
        PROVE  /\ f[1] \notin L /\ r.ports[f] = Place1(f) /\ r.guid[Place1(f)] = f
               /\ Exists(r, Place1(f)) /\ Listed1(r, Place1(f))
    <3>1. CASE f = e /\ guid # None
      BY <3>1, <1>1, <1>2, <1>5, <1>11 DEF Exists, Place1
    <3>2. CASE ~(f = e /\ guid # None)
      <4>1. r.ports[f] = db.ports[f]
        BY <3>2, <1>5
      <4>2. /\ f[1] \notin L /\ db.ports[f] = Place1(f) /\ db.guid[Place1(f)] = f
            /\ Exists(db, Place1(f)) /\ Listed1(db, Place1(f))
        BY <4>1, <2>1 DEF DbInv, PortIndexRight
      <4>3. r.guid[Place1(f)] = f
        BY <4>2, <1>5, FixedNone DEF Exists
      <4>4. Parent(Place1(f))[1] \notin L
        BY <4>2 DEF Parent, Place1
      <4> QED
        BY <4>1, <4>2, <4>3, <4>4, <1>12, <1>13 DEF Exists
    <3> QED
      BY <3>1, <3>2
  <2>2. ASSUME NEW q \in PortObj, r.guid[q] # None PROVE r.ports[r.guid[q]] = q
    <3>1. CASE q = p /\ guid # None
      BY <3>1, <1>1, <1>5
    <3>2. CASE ~(q = p /\ guid # None)
      <4>1. r.guid[q] = db.guid[q] /\ db.ports[db.guid[q]] = q /\ db.guid[q] \in EndPlace
        BY <3>2, <1>1, <1>5, <2>2 DEF DbInv, PortIndexRight, DbTypes
      <4>2. CASE db.guid[q] = e /\ guid # None
        <5>1. q = Place1(e)
          BY <4>1, <4>2, <1>1, FixedNone DEF DbInv, PortIndexRight
        <5>2. p = Place1(e) /\ db.guid[p] = None
          BY <4>2, <1>5
        <5> QED
          BY <5>1, <5>2, <3>2, <4>2
      <4> QED
        BY <4>1, <4>2, <1>5
    <3> QED
      BY <3>1, <3>2
  <2> QED
    BY <2>1, <2>2 DEF PortIndexRight
<1>16. LidIndexRight(r, L)
  <2> SUFFICES ASSUME NEW l \in LIDs, r.lids[l] # None
               PROVE  /\ PlaceAtLid(l) # None /\ Exists(r, r.lids[l])
                      /\ Parent(r.lids[l])[1] = PlaceAtLid(l)[1]
                      /\ Parent(r.lids[l])[1] \notin L =>
                           r.lids[l] = Place1(PlaceAtLid(l)) /\ Listed1(r, r.lids[l])
    BY DEF LidIndexRight
  <2>1. CASE lid # None /\ l \in LidRange(lid, a.lmc)
    <3>1. r.lids[l] = p /\ PlaceAtLid(l) = e
      BY <2>1, <1>3
    <3> QED
      BY <3>1, <1>1, <1>2, <1>11, FixedNone DEF Exists, n
  <2>2. CASE ~(lid # None /\ l \in LidRange(lid, a.lmc))
    <3>1. r.lids[l] = db.lids[l]
      BY <2>2, <1>3
    <3> QED
      BY <3>1, <1>12, <1>13 DEF DbInv, LidIndexRight, Exists
  <2> QED
    BY <2>1, <2>2
<1>17. LidsRight(r, L)
  <2> SUFFICES ASSUME NEW q \in PortObj, r.lid[q] # None
               PROVE  /\ r.lid[q] # 0 /\ Exists(r, q)
                      /\ Parent(q)[1] \notin L =>
                           /\ q = Place1(PlaceOf(q)) /\ PlaceOf(q) \in EndPlace
                           /\ r.lid[q] = Lid[PlaceOf(q)] /\ Listed1(r, q)
    BY DEF LidsRight
  <2>1. CASE q = p /\ lid # None
    <3>1. Lid[e] # 0
      BY <1>a, <2>1 DEF Told
    <3>2. e[1] \notin L => PlaceOf(p) = e
      BY <1>1, <1>10 DEF PlaceOf, n
    <3>3. Exists(r, p)
      BY <1>1, <1>2 DEF Exists, n
    <3> QED
      BY <2>1, <3>1, <3>2, <3>3, <1>1, <1>6, <1>11 DEF n
  <2>2. CASE ~(q = p /\ lid # None)
    <3>1. r.lid[q] = db.lid[q]
      BY <2>2, <1>6
    <3> QED
      BY <3>1, <1>12, <1>13 DEF DbInv, LidsRight
  <2> QED
    BY <2>1, <2>2
<1>18. DbInv(r, L)
  BY <1>8, <1>9, <1>14, <1>15, <1>16, <1>17 DEF DbInv
<1>19. \A l \in LIDs : db.lids[l] # None => r.lids[l] # None
  BY <1>3, FixedNone
<1>20. LidIn(db, a) # None => r.lids[Lid[e]] # None /\ r.lid[p] = Lid[e]
  BY <1>a, <1>3, <1>6, FixedNone
<1>21. /\ \A q \in PortObj : r.lid[q] = IF q = p /\ LidIn(db, a) # None THEN Lid[e] ELSE db.lid[q]
       /\ \A f \in EndPlace : r.ports[f] = db.ports[f] \/ (f = e /\ a.guid # None)
  BY <1>a, <1>b, <1>5, <1>6
<1>22. a.guid # None => r.ports[e] = p
  <2> SUFFICES ASSUME a.guid # None PROVE r.ports[e] = p
    OBVIOUS
  <2>1. CASE db.guid[p] = None
    BY <2>1, <1>b, <1>1, <1>5
  <2>2. CASE db.guid[p] # None
    <3>1. guid = None
      BY <1>b, <2>2
    <3>2. db.ports[db.guid[p]] = p /\ db.guid[p] \in EndPlace
      BY <2>2, <1>1 DEF DbInv, PortIndexRight, DbTypes
    <3>3. p = Place1(db.guid[p])
      BY <3>2, FixedNone DEF DbInv, PortIndexRight
    <3>4. db.guid[p] = e
      <4>1. p = Place1(e)
        OBVIOUS
      <4>2. db.guid[p] = <<db.guid[p][1], db.guid[p][2]>>
        BY <3>2, EndPlaceFacts
      <4> QED
        BY <4>1, <4>2, <3>3, <1>1 DEF Place1
    <3> QED
      BY <3>1, <3>2, <3>4, <1>1, <1>5
  <2> QED
    BY <2>1, <2>2
<1> QED
  BY <1>2, <1>4, <1>11, <1>18, <1>19, <1>20, <1>21, <1>22 DEF n, LinkedTo

(* A finite set of numbers has a greatest one.                             *)
LEMMA MaxExists ==
  ASSUME NEW S \in SUBSET Nat, IsFiniteSet(S), S # {}
  PROVE  Max(S) \in S /\ \A i \in S : i <= Max(S)
<1> DEFINE Q == {k \in Nat : \A T \in SUBSET Nat : (IsFiniteSet(T) /\ Cardinality(T) = k /\ T # {})
                               => \E x \in T : \A y \in T : x >= y}
<1>1. 0 \in Q
  <2>1. \A T \in SUBSET Nat : IsFiniteSet(T) /\ Cardinality(T) = 0 => T = {}
    BY FS_EmptySet
  <2> QED
    BY <2>1
<1>2. ASSUME NEW k \in Nat, k \in Q PROVE k + 1 \in Q
  <2> SUFFICES ASSUME NEW T \in SUBSET Nat, IsFiniteSet(T), Cardinality(T) = k + 1, T # {}
               PROVE  \E x \in T : \A y \in T : x >= y
    OBVIOUS
  <2>1. PICK z \in T : TRUE
    OBVIOUS
  <2>2. IsFiniteSet(T \ {z}) /\ Cardinality(T \ {z}) = k
    <3>1. IsFiniteSet(T \ {z}) /\ Cardinality(T \ {z}) = Cardinality(T) - 1
      BY <2>1, FS_RemoveElement
    <3> QED
      BY <3>1
  <2>3. CASE T \ {z} = {}
    BY <2>1, <2>3
  <2>4. CASE T \ {z} # {}
    <3>1. PICK x \in T \ {z} : \A y \in T \ {z} : x >= y
      BY <1>2, <2>2, <2>4
    <3>2. CASE x >= z
      BY <3>1, <3>2
    <3>3. CASE ~(x >= z)
      <4>1. \A y \in T : z >= y
        BY <3>1, <3>3, <2>1
      <4> QED
        BY <4>1, <2>1
    <3> QED
      BY <3>2, <3>3
  <2> QED
    BY <2>3, <2>4
<1>3. Nat \subseteq Q
  <2> HIDE DEF Q
  <2> QED
    BY <1>1, <1>2, SetInduction
<1>4. Cardinality(S) \in Nat
  BY FS_CardinalityType
<1>5. \E x \in S : \A y \in S : x >= y
  BY <1>3, <1>4
<1>6. Max(S) \in S /\ \A y \in S : Max(S) >= y
  BY <1>5 DEF Max
<1> QED
  BY <1>6

(* The tables have room for every port of every device.                    *)
LEMMA Ports == MaxPort \in Nat /\ \A d \in Device : NumPorts[d] <= MaxPort
<1> DEFINE T == {NumPorts[d] : d \in Device}
           f == [d \in Device |-> NumPorts[d]]
<1>1. Local[1] \in Device
  BY FabricAssumption, EndPlaceFacts DEF FabricAssumption
<1>2. T \in SUBSET Nat /\ T # {}
  BY <1>1, FabricAssumption DEF FabricAssumption
<1>3. f \in Surjection(Device, T)
  BY DEF Surjection
<1>4. IsFiniteSet(T)
  BY <1>3, FS_Surjection, FabricAssumption DEF FabricAssumption
<1> HIDE DEF T
<1>5. Max(T) \in T /\ \A i \in T : i <= Max(T)
  BY <1>2, <1>4, MaxExists
<1> QED
  BY <1>2, <1>5 DEF MaxPort, T

(* The end port of a switch is its port 0.                                 *)
LEMMA EndPorts == \A e \in EndPlace : e[2] \in 0..MaxPort /\ (IsSwitch(e[1]) => e[2] = 0)
<1> SUFFICES ASSUME NEW e \in EndPlace PROVE e[2] \in 0..MaxPort /\ (IsSwitch(e[1]) => e[2] = 0)
  OBVIOUS
<1>1. PICK d \in Device : e \in {d} \X (0..NumPorts[d])
  BY DEF EndPlace, Place
<1>2. e[2] \in 0..NumPorts[d] /\ NumPorts[d] \in Nat /\ NumPorts[d] <= MaxPort
  BY <1>1, Ports, FabricAssumption DEF FabricAssumption
<1>3. IsSwitch(e[1]) => e[2] = 0
  BY DEF EndPlace, ToEndPlace
<1> QED
  BY <1>2, <1>3, Ports

(* The port in a slot of a node is the node's.                             *)
LEMMA SlotFacts ==
  ASSUME NEW db, NEW L, DbInv(db, L), NEW n \in NodeObj, NEW i \in 0..MaxPort
  PROVE  /\ PortAt(db, n, i) \in PortObj /\ Parent(PortAt(db, n, i)) = n
         /\ n[1] \notin L => PortAt(db, n, i) = <<n, i>>
<1>1. <<n, i>> \in PortObj /\ Parent(<<n, i>>) = n
  BY Ports DEF PortObj, Parent, Loose
<1>2. db.slot[n][i] \in PortObj \cup {None}
  <2>1. db.slot \in [NodeObj -> [0..MaxPort -> PortObj \cup {None}]]
    BY DEF DbInv, DbTypes
  <2>2. db.slot[n] \in [0..MaxPort -> PortObj \cup {None}]
    BY <2>1
  <2> QED
    BY <2>2
<1> QED
  BY <1>1, <1>2 DEF PortAt, DbInv, SlotsRight

(* A Port object made for an index of a node's list.                       *)
LEMMA WithPortKeeps ==
  ASSUME NEW db, NEW L, DbInv(db, L), NEW n \in NodeObj, db.class[n] # None, NEW i \in 0..MaxPort,
         NEW r, r = WithPort(db, n, i)
  PROVE  /\ DbInv(r, L)
         /\ r.class = db.class /\ r.ninf = db.ninf /\ r.swinf = db.swinf /\ r.pinf = db.pinf
         /\ r.nodes = db.nodes /\ r.topology = db.topology /\ r.lidRouted = db.lidRouted
         /\ r.loaded = db.loaded /\ r.lids = db.lids /\ r.lid = db.lid /\ r.ports = db.ports
         /\ r.guid = db.guid /\ r.path = db.path /\ r.paths = db.paths
         /\ \A m \in NodeObj, k \in 0..MaxPort :
              r.slot[m][k] = IF m = n /\ k = i THEN PortAt(db, n, i) ELSE db.slot[m][k]
<1> DEFINE p == PortAt(db, n, i)
<1>1. DbTypes(db) /\ db.slot \in [NodeObj -> [0..MaxPort -> PortObj \cup {None}]]
  BY DEF DbInv, DbTypes
<1>2. p \in PortObj /\ Parent(p) = n /\ (n[1] \notin L => p = <<n, i>>)
  BY SlotFacts
<1>3. /\ DOMAIN r = DOMAIN EmptyDb
      /\ r.class = db.class /\ r.ninf = db.ninf /\ r.swinf = db.swinf /\ r.pinf = db.pinf
      /\ r.nodes = db.nodes /\ r.topology = db.topology /\ r.lidRouted = db.lidRouted
      /\ r.loaded = db.loaded /\ r.lids = db.lids /\ r.lid = db.lid /\ r.ports = db.ports
      /\ r.guid = db.guid /\ r.path = db.path /\ r.paths = db.paths
      /\ r.slot = SlotWith(db.slot, n, i, p)
  <2>1. i # None
    BY FixedNone
  <2> QED
    BY <1>1, <2>1 DEF DbTypes, WithPort, EmptyDb, SlotWith, Put
<1> HIDE DEF p
<1>4. /\ \A m \in NodeObj, k \in 0..MaxPort :
           r.slot[m][k] = IF m = n /\ k = i THEN p ELSE db.slot[m][k]
      /\ r.slot \in [NodeObj -> [0..MaxPort -> PortObj \cup {None}]]
  <2>0. i # None
    BY FixedNone
  <2>1. r.slot = [db.slot EXCEPT ![n] = [db.slot[n] EXCEPT ![i] = p]]
    BY <1>3, <2>0, <1>1 DEF SlotWith, Put
  <2> DEFINE X == [db.slot[n] EXCEPT ![i] = p]
  <2>2. X \in [0..MaxPort -> PortObj \cup {None}]
    BY <1>1, <1>2
  <2>3. \A k \in 0..MaxPort : X[k] = IF k = i THEN p ELSE db.slot[n][k]
    BY <1>1
  <2>4. r.slot = [db.slot EXCEPT ![n] = X]
    BY <2>1
  <2> HIDE DEF X
  <2> QED
    BY <1>1, <2>2, <2>3, <2>4
<1>5. DbTypes(r)
  BY <1>1, <1>3, <1>4 DEF DbTypes
<1>6. NodesRight(r, L) /\ NodeIndexRight(r, L)
  BY <1>3 DEF DbInv, NodesRight, NodeIndexRight
<1>7. SlotsRight(r, L)
  BY <1>2, <1>3, <1>4 DEF DbInv, SlotsRight
<1>8. \A q \in PortObj : Listed1(db, q) /\ Parent(q)[1] \notin L => Listed1(r, q)
  <2> SUFFICES ASSUME NEW q \in PortObj, Listed1(db, q), Parent(q)[1] \notin L PROVE Listed1(r, q)
    OBVIOUS
  <2>1. Parent(q) \in NodeObj /\ q[2] \in 0..MaxPort /\ q = <<Parent(q), q[2]>> /\ db.slot[Parent(q)][q[2]] = q
    BY DEF Listed1, PortObj, Parent
  <2> QED
    BY <2>1, <1>2, <1>4 DEF Listed1
<1>9. \A q : Exists(db, q) => Exists(r, q)
  BY <1>3 DEF Exists
<1>10. PortIndexRight(r, L)
  <2>1. \A f \in EndPlace : f[1] \notin L => Parent(Place1(f))[1] \notin L
    BY DEF Parent, Place1
  <2> QED
    BY <2>1, <1>3, <1>8, <1>9 DEF DbInv, PortIndexRight, Exists
<1>11. LidIndexRight(r, L)
  BY <1>3, <1>8, <1>9 DEF DbInv, LidIndexRight, Exists
<1>12. LidsRight(r, L)
  BY <1>3, <1>8, <1>9 DEF DbInv, LidsRight
<1> QED
  BY <1>3, <1>4, <1>5, <1>6, <1>7, <1>10, <1>11, <1>12 DEF DbInv, p

(* Re-typing touches only the ports of the node, which is a late device's.  *)
Fixed(db, n) == _fixup_change_to_switch(db, n)

LEMMA FixupKeeps ==
  ASSUME NEW db, NEW L, DbInv(db, L), NEW n \in NodeObj, n[1] \in L, db.class[n] # None,
         NEW r, r = Fixed(db, n)
  PROVE  /\ DbInv(r, L)
         /\ r.class = db.class /\ r.ninf = db.ninf /\ r.swinf = db.swinf /\ r.pinf = db.pinf
         /\ r.nodes = db.nodes /\ r.topology = db.topology /\ r.lidRouted = db.lidRouted
         /\ r.loaded = db.loaded /\ r.path = db.path /\ r.paths = db.paths /\ r.ports = db.ports
         /\ \A l \in LIDs : db.lids[l] # None => r.lids[l] # None
         /\ \A q \in PortObj : Parent(q)[1] \notin L => r.lid[q] = db.lid[q]
         /\ \A m \in NodeObj, i \in 0..MaxPort : m # n => r.slot[m][i] = db.slot[m][i]
<1>1. CASE SlotsUsed(db, n) = {0}
  BY <1>1 DEF Fixed, _fixup_change_to_switch
<1>2. CASE SlotsUsed(db, n) # {0}
  <2> PICK w : w = WithPort(db, n, 0)
    OBVIOUS
  <2> PICK z : z = PortAt(db, n, 0)
    OBVIOUS
  <2> PICK old : old = {db.slot[n][i] : i \in SlotsUsed(db, n)}
    OBVIOUS
  <2> PICK named : named = {p \in old : db.guid[p] # None}
    OBVIOUS
  <2> PICK given : given = named \ {z}
    OBVIOUS
  <2> PICK lid : lid = db.lid[db.slot[n][Max({i \in SlotsUsed(db, n) : db.lid[db.slot[n][i]] # None})]]
    OBVIOUS
  <2> DEFINE Own(l) == db.lids[l] = None \/ Parent(db.lids[l]) = n
             ports == [e \in DOMAIN w.ports |-> IF \E p \in named : db.guid[p] = e THEN z ELSE w.ports[e]]
             guids == [p \in PortObj |-> IF p = z /\ given # {} THEN db.guid[CHOOSE q \in given : TRUE]
                        ELSE IF p \in old THEN None ELSE w.guid[p]]
             plids == [p \in PortObj |-> IF p \in old THEN None ELSE w.lid[p]]
             lids == [l \in DOMAIN w.lids |-> IF l >= lid /\ w.lids[l] # None /\ \A m \in lid..l : Own(m)
                                         THEN z ELSE w.lids[l]]
  <2>1. r = [w EXCEPT !.ports = ports, !.guid = guids, !.lid = plids, !.lids = lids]
    BY <1>2, Zenon DEF Fixed, _fixup_change_to_switch
  <2>2. /\ DbInv(w, L)
        /\ w.class = db.class /\ w.ninf = db.ninf /\ w.swinf = db.swinf /\ w.pinf = db.pinf
        /\ w.nodes = db.nodes /\ w.topology = db.topology /\ w.lidRouted = db.lidRouted
        /\ w.loaded = db.loaded /\ w.lids = db.lids /\ w.lid = db.lid /\ w.ports = db.ports
        /\ w.guid = db.guid /\ w.path = db.path /\ w.paths = db.paths
        /\ \A m \in NodeObj, k \in 0..MaxPort :
              w.slot[m][k] = IF m = n /\ k = 0 THEN z ELSE db.slot[m][k]
    <3>1. 0 \in 0..MaxPort
      BY Ports
    <3> QED
      BY <3>1, WithPortKeeps
  <2>3. DbTypes(w) /\ DOMAIN w = DOMAIN EmptyDb
    BY <2>2 DEF DbInv, DbTypes
  <2> HIDE DEF ports, guids, plids, lids
  <2>4. /\ DOMAIN r = DOMAIN EmptyDb
        /\ r.class = db.class /\ r.ninf = db.ninf /\ r.swinf = db.swinf /\ r.pinf = db.pinf
        /\ r.nodes = db.nodes /\ r.topology = db.topology /\ r.lidRouted = db.lidRouted
        /\ r.loaded = db.loaded /\ r.path = db.path /\ r.paths = db.paths /\ r.slot = w.slot
        /\ r.ports = ports /\ r.guid = guids /\ r.lid = plids /\ r.lids = lids
    BY <2>1, <2>2, <2>3 DEF EmptyDb
  <2>5. /\ old \subseteq PortObj /\ \A p \in old : Parent(p) = n
        /\ z \in PortObj /\ Parent(z) = n
    <3>1. \A i \in SlotsUsed(db, n) : db.slot[n][i] \in PortObj /\ Parent(db.slot[n][i]) = n
      <4> SUFFICES ASSUME NEW i \in 0..MaxPort, db.slot[n][i] # None
                   PROVE  db.slot[n][i] \in PortObj /\ Parent(db.slot[n][i]) = n
        BY DEF SlotsUsed
      <4>1. PortAt(db, n, i) = db.slot[n][i]
        BY DEF PortAt
      <4> QED
        BY <4>1, SlotFacts
    <3>2. 0 \in 0..MaxPort
      BY Ports
    <3> QED
      BY <3>1, <3>2, SlotFacts
  <2>6. named = {}
    <3> SUFFICES ASSUME NEW p \in old, db.guid[p] # None PROVE FALSE
      OBVIOUS
    <3>1. db.guid[p] \in EndPlace /\ db.ports[db.guid[p]] = p /\ p # None
      BY <2>5, FixedNone DEF DbInv, DbTypes, PortIndexRight
    <3>2. db.guid[p][1] \notin L /\ p = Place1(db.guid[p])
      BY <3>1 DEF DbInv, PortIndexRight
    <3> QED
      BY <3>2, <2>5 DEF Place1, Parent
  <2>7. ports = db.ports
    BY <2>2, <2>3, <2>6 DEF ports, DbTypes
  <2>8. guids = db.guid
    <3>1. \A p \in old : db.guid[p] = None
      BY <2>6
    <3>2. given = {}
      BY <2>6
    <3> QED
      BY <2>2, <2>3, <3>1, <3>2 DEF guids, DbTypes
  <2>9. /\ plids \in [PortObj -> Nat \cup {None}]
        /\ \A p \in PortObj : plids[p] # None => plids[p] = db.lid[p]
        /\ \A p \in PortObj : Parent(p)[1] \notin L => plids[p] = db.lid[p]
    BY <2>2, <2>3, <2>5 DEF plids, DbTypes
  <2>10. /\ lids \in [LIDs -> PortObj \cup {None}]
         /\ \A l \in LIDs : lids[l] = db.lids[l] \/ (lids[l] = z /\ db.lids[l] # None /\ Parent(db.lids[l]) = n)
    <3>1. db.lids \in [LIDs -> PortObj \cup {None}]
      BY <2>2, <2>3 DEF DbTypes
    <3>2. lids = [l \in LIDs |-> IF l >= lid /\ db.lids[l] # None /\ \A m \in lid..l : Own(m)
                                  THEN z ELSE db.lids[l]]
      BY <3>1, <2>2, ZenonT(30) DEF lids
    <3>3. \A l \in LIDs : l >= lid => l \in lid..l
      BY DEF LIDs
    <3> QED
      BY <3>1, <3>2, <3>3, <2>5, ZenonT(30)
  <2>11. DbTypes(r)
    BY <2>2, <2>3, <2>4, <2>7, <2>8, <2>9, <2>10 DEF DbTypes
  <2>12. NodesRight(r, L) /\ NodeIndexRight(r, L) /\ SlotsRight(r, L)
    BY <2>2, <2>4 DEF DbInv, NodesRight, NodeIndexRight, SlotsRight
  <2>13. (\A q : Listed1(w, q) => Listed1(r, q)) /\ (\A q : Exists(w, q) => Exists(r, q))
    BY <2>2, <2>4 DEF Listed1, Exists
  <2>14. PortIndexRight(r, L)
    BY <2>2, <2>4, <2>7, <2>8, <2>13 DEF DbInv, PortIndexRight
  <2>15. LidIndexRight(r, L)
    <3> SUFFICES ASSUME NEW l \in LIDs, r.lids[l] # None
                 PROVE  /\ PlaceAtLid(l) # None /\ Exists(r, r.lids[l])
                        /\ Parent(r.lids[l])[1] = PlaceAtLid(l)[1]
                        /\ Parent(r.lids[l])[1] \notin L =>
                             r.lids[l] = Place1(PlaceAtLid(l)) /\ Listed1(r, r.lids[l])
      BY DEF LidIndexRight
    <3>1. CASE lids[l] = db.lids[l]
      BY <3>1, <2>2, <2>4, <2>13 DEF DbInv, LidIndexRight
    <3>2. CASE lids[l] = z /\ db.lids[l] # None /\ Parent(db.lids[l]) = n
      <4>1. PlaceAtLid(l) # None /\ Parent(db.lids[l])[1] = PlaceAtLid(l)[1]
        BY <3>2 DEF DbInv, LidIndexRight
      <4>2. Exists(r, z)
        BY <2>4, <2>5 DEF Exists
      <4> QED
        BY <3>2, <4>1, <4>2, <2>4, <2>5
    <3> QED
      BY <3>1, <3>2, <2>10
  <2>16. LidsRight(r, L)
    BY <2>2, <2>4, <2>9, <2>13 DEF DbInv, LidsRight
  <2>17. DbInv(r, L)
    BY <2>11, <2>12, <2>14, <2>15, <2>16 DEF DbInv
  <2>18. \A l \in LIDs : db.lids[l] # None => r.lids[l] # None
    BY <2>4, <2>5, <2>10, FixedNone
  <2> QED
    BY <2>2, <2>4, <2>7, <2>9, <2>17, <2>18
<1> QED
  BY <1>1, <1>2

Types == {"Node", "CA", "Router", "Switch"}

(* Every device may get a first Node.                                      *)
LEMMA FirstNode == \A d \in Device : <<d, 1>> \in NodeObj
  BY FabricAssumption DEF FabricAssumption, NodeObj

Reclassed(db, n, type) == [db EXCEPT !.class[n] = type]

(* Changing the class of a Node that has it right breaks nothing.          *)
LEMMA ClassKeeps ==
  ASSUME NEW db, NEW L, DbInv(db, L), NEW d \in Device, NEW type \in Types,
         d \notin L => type = Kind[d], NEW r, r = Reclassed(db, <<d, 1>>, type)
  PROVE  /\ DbInv(r, L)
         /\ r.ninf = db.ninf /\ r.swinf = db.swinf /\ r.pinf = db.pinf
         /\ r.nodes = db.nodes /\ r.topology = db.topology /\ r.lidRouted = db.lidRouted
         /\ r.loaded = db.loaded /\ r.lids = db.lids /\ r.lid = db.lid /\ r.ports = db.ports
         /\ r.guid = db.guid /\ r.path = db.path /\ r.paths = db.paths /\ r.slot = db.slot
         /\ \A m \in NodeObj : r.class[m] = IF m = <<d, 1>> THEN type ELSE db.class[m]
<1> PICK n : n = <<d, 1>>
  OBVIOUS
<1>1. n \in NodeObj /\ n[1] = d /\ n[2] = 1
  BY FirstNode
<1>2. DbTypes(db) /\ db.class \in [NodeObj -> {None} \cup Types]
  BY DEF DbInv, DbTypes, Types
<1>3. r = [db EXCEPT !.class = [db.class EXCEPT ![n] = type]]
  BY DEF Reclassed
<1> PICK class : class = [db.class EXCEPT ![n] = type]
  OBVIOUS
<1>4. /\ DOMAIN r = DOMAIN EmptyDb /\ r.class = class
      /\ r.ninf = db.ninf /\ r.swinf = db.swinf /\ r.pinf = db.pinf
      /\ r.nodes = db.nodes /\ r.topology = db.topology /\ r.lidRouted = db.lidRouted
      /\ r.loaded = db.loaded /\ r.lids = db.lids /\ r.lid = db.lid /\ r.ports = db.ports
      /\ r.guid = db.guid /\ r.path = db.path /\ r.paths = db.paths /\ r.slot = db.slot
  BY <1>2, <1>3 DEF DbTypes, EmptyDb
<1>5. /\ class \in [NodeObj -> {None} \cup Types]
      /\ \A m \in NodeObj : class[m] = IF m = n THEN type ELSE db.class[m]
  BY <1>1, <1>2
<1>6. type # None
  BY NoneAssumption DEF Types
<1>7. DbTypes(r)
  BY <1>2, <1>4, <1>5 DEF DbTypes, Types
<1>8. \A m \in NodeObj : db.class[m] # None => r.class[m] # None
  BY <1>4, <1>5, <1>6
<1>9. \A q : Exists(db, q) => Exists(r, q)
  <2> SUFFICES ASSUME NEW q, Exists(db, q) PROVE Exists(r, q)
    OBVIOUS
  <2>1. Parent(q) \in NodeObj
    BY DEF Exists, PortObj, Parent
  <2> QED
    BY <2>1, <1>8 DEF Exists
<1>10. \A q : Listed1(db, q) => Listed1(r, q)
  BY <1>4 DEF Listed1
<1>11. NodesRight(r, L)
  BY <1>1, <1>4, <1>5 DEF DbInv, NodesRight
<1>12. NodeIndexRight(r, L)
  BY <1>4, <1>8, FirstNode DEF DbInv, NodeIndexRight
<1>13. SlotsRight(r, L)
  BY <1>4, <1>8 DEF DbInv, SlotsRight
<1>14. PortIndexRight(r, L)
  BY <1>4, <1>9, <1>10 DEF DbInv, PortIndexRight
<1>15. LidIndexRight(r, L)
  BY <1>4, <1>9, <1>10 DEF DbInv, LidIndexRight
<1>16. LidsRight(r, L)
  BY <1>4, <1>9, <1>10 DEF DbInv, LidsRight
<1> QED
  BY <1>4, <1>5, <1>7, <1>11, <1>12, <1>13, <1>14, <1>15, <1>16 DEF DbInv

(* p is the Port object of the end port e, or, of a late device, one of its *)
(* node's.                                                                 *)
RightPort(db, L, e, p) ==
  /\ p \in PortObj /\ Parent(p) = <<e[1], 1>> /\ db.class[<<e[1], 1>>] # None
  /\ e[1] \notin L => p = Place1(e)

LEMMA SearchFinds ==
  ASSUME NEW db, NEW L, DbInv(db, L), NEW e, NEW a, Told(db, a, e),
         a.path # None => db.path[a.path].ep = None \/ RightPort(db, L, e, db.path[a.path].ep),
         NEW found, found = search_end_port(db, a), found # None
  PROVE  /\ RightPort(db, L, e, found)
         /\ a.path = None /\ a.guid = None /\ a.node = None /\ e[1] \notin L => Listed1(db, found)
<1> PICK cached : cached = IF a.path = None THEN None ELSE db.path[a.path].ep
  OBVIOUS
<1> PICK named : named = IF a.guid = None THEN None ELSE db.ports[a.guid]
  OBVIOUS
<1> PICK node : node = IF a.node = None THEN None ELSE db.nodes[a.node]
  OBVIOUS
<1> PICK lid : lid = LidIn(db, a)
  OBVIOUS
<1>1. /\ e \in EndPlace /\ e[1] \in Device /\ e = <<e[1], e[2]>> /\ <<e[1], 1>> \in NodeObj
      /\ e[2] \in 0..MaxPort /\ (IsSwitch(e[1]) => e[2] = 0)
  BY EndPlaceFacts, EndPorts, FirstNode DEF Told
<1>2. CASE cached # None
  <2>1. found = cached
    BY <1>2 DEF search_end_port
  <2>2. a.path # None
    BY <1>2
  <2> QED
    BY <2>1, <2>2, <1>2
<1>3. CASE cached = None /\ named # None
  <2>1. found = named
    BY <1>3 DEF search_end_port
  <2>2. named = db.ports[e] /\ a.guid # None
    BY <1>3 DEF Told
  <2>3. e[1] \notin L /\ named = Place1(e) /\ Exists(db, named)
    BY <2>2, <1>1, <1>3 DEF DbInv, PortIndexRight
  <2> QED
    BY <2>1, <2>2, <2>3, <1>1 DEF RightPort, Exists, Place1, Parent
<1>4. CASE /\ cached = None /\ named = None /\ node # None
           /\ (IsSwitchNode(db, node) \/ a.idx # None)
  <2>1. found = PortAt(db, node, EndIndex(db, node, a.idx))
    BY <1>4 DEF search_end_port
  <2>2. a.node = e[1] /\ node = db.nodes[e[1]]
    BY <1>4 DEF Told
  <2>3. node = <<e[1], 1>> /\ db.class[node] # None /\ e[1] \notin L
    BY <2>2, <1>1, <1>4 DEF DbInv, NodeIndexRight
  <2>4. db.class[node] = Kind[e[1]]
    BY <2>3, <1>1 DEF DbInv, NodesRight
  <2>5. EndIndex(db, node, a.idx) = e[2]
    <3>1. CASE IsSwitchNode(db, node)
      BY <3>1, <2>4, <1>1 DEF IsSwitchNode, IsSwitch, EndIndex
    <3>2. CASE ~IsSwitchNode(db, node)
      <4>1. a.idx = e[2]
        BY <3>2, <1>4, <2>2, <1>1, FixedNone DEF Told
      <4> QED
        BY <3>2, <4>1 DEF EndIndex
    <3> QED
      BY <3>1, <3>2
  <2>6. found \in PortObj /\ found = <<<<e[1], 1>>, e[2]>> /\ Parent(found) = <<e[1], 1>>
    BY <2>1, <2>3, <2>5, <1>1, SlotFacts
  <2> QED
    BY <2>2, <2>3, <2>6, <1>1, FixedNone DEF RightPort, Place1
<1>5. CASE ~(cached # None) /\ ~(named # None) /\ ~(node # None /\ (IsSwitchNode(db, node) \/ a.idx # None))
  <2>1. found = IF lid # None /\ lid \in LIDs THEN db.lids[lid] ELSE None
    BY <1>5 DEF search_end_port
  <2>2. lid # None /\ lid \in LIDs /\ found = db.lids[lid] /\ lid = Lid[e] /\ Lid[e] # 0
    BY <2>1 DEF Told
  <2>3. PlaceAtLid(lid) = e
    <3>1. Lid[e] \in LidRange(Lid[e], 0)
      BY <1>1, <2>2, RangeFacts
    <3> QED
      BY <3>1, <2>2, <1>1, RangeFacts
  <2>4. /\ Exists(db, found) /\ Parent(found)[1] = e[1]
        /\ e[1] \notin L => found = Place1(e) /\ Listed1(db, found)
    BY <2>2, <2>3 DEF DbInv, LidIndexRight
  <2>5. Parent(found) \in NodeObj /\ Parent(found)[2] = 1 /\ Parent(found) = <<Parent(found)[1], Parent(found)[2]>>
    BY <2>4 DEF Exists, PortObj, Parent, NodeObj, DbInv, NodesRight
  <2> QED
    BY <2>4, <2>5 DEF RightPort, Exists
<1> QED
  BY <1>2, <1>3, <1>4, <1>5

SameRest(db, r) ==
  /\ r.ninf = db.ninf /\ r.swinf = db.swinf /\ r.pinf = db.pinf /\ r.nodes = db.nodes
  /\ r.topology = db.topology /\ r.lidRouted = db.lidRouted /\ r.loaded = db.loaded

TypedAs(db, L, e, r) ==
  /\ DbInv(r, L) /\ r.class[<<e[1], 1>>] # None
  /\ SameRest(db, r) /\ r.path = db.path /\ r.paths = db.paths /\ r.ports = db.ports
  /\ \A m \in NodeObj : db.class[m] # None => r.class[m] # None
  /\ \A m \in NodeObj : m # <<e[1], 1>> => r.class[m] = db.class[m]
  /\ \A l \in LIDs : db.lids[l] # None => r.lids[l] # None
  /\ \A q \in PortObj : Parent(q)[1] \notin L => r.lid[q] = db.lid[q]
  /\ \A m \in NodeObj, i \in 0..MaxPort :
       m # <<e[1], 1>> \/ e[1] \notin L => r.slot[m][i] = db.slot[m][i]

(* The node's type is noted, or changed.                                   *)
LEMMA TypedKeeps ==
  ASSUME NEW db, NEW L, DbInv(db, L), NEW e \in EndPlace, NEW type \in Types, NEW found,
         found # None => RightPort(db, L, e, found),
         found = None => db.class[<<e[1], 1>>] = None /\ (e[1] \notin L => type = Kind[e[1]]),
         NEW r, r = Typed(db, type, <<e[1], 1>>, found)
  PROVE  TypedAs(db, L, e, r)
<1> PICK n : n = <<e[1], 1>>
  OBVIOUS
<1>1. n \in NodeObj /\ n[1] = e[1] /\ e[1] \in Device
  BY EndPlaceFacts, FirstNode
<1>2. PICK t : t = Reclassed(db, <<e[1], 1>>, type)
  OBVIOUS
<1>3. type # None
  BY NoneAssumption DEF Types
<1>4. CASE found = None
  <2>1. r = t
    BY <1>2, <1>4 DEF Typed, Reclassed
  <2>2. e[1] \notin L => type = Kind[e[1]]
    BY <1>4
  <2>3. /\ DbInv(t, L)
        /\ t.ninf = db.ninf /\ t.swinf = db.swinf /\ t.pinf = db.pinf
        /\ t.nodes = db.nodes /\ t.topology = db.topology /\ t.lidRouted = db.lidRouted
        /\ t.loaded = db.loaded /\ t.lids = db.lids /\ t.lid = db.lid /\ t.ports = db.ports
        /\ t.guid = db.guid /\ t.path = db.path /\ t.paths = db.paths /\ t.slot = db.slot
        /\ \A m \in NodeObj : t.class[m] = IF m = <<e[1], 1>> THEN type ELSE db.class[m]
    BY <2>2, <1>1, <1>2, ClassKeeps
  <2> QED
    BY <2>1, <2>3, <1>1, <1>3, ZenonT(30) DEF SameRest, TypedAs
<1>5. CASE found # None /\ Retypes(db, n, type)
  <2>1. e[1] \in L
    <3>1. Kind[e[1]] # "Node"
      BY <1>1, FabricAssumption DEF FabricAssumption
    <3>2. db.class[n] = "Node" /\ "Node" # None
      BY <1>5, NoneAssumption DEF Retypes
    <3> QED
      BY <3>1, <3>2, <1>1 DEF DbInv, NodesRight
  <2>2. /\ DbInv(t, L)
        /\ t.ninf = db.ninf /\ t.swinf = db.swinf /\ t.pinf = db.pinf
        /\ t.nodes = db.nodes /\ t.topology = db.topology /\ t.lidRouted = db.lidRouted
        /\ t.loaded = db.loaded /\ t.lids = db.lids /\ t.lid = db.lid /\ t.ports = db.ports
        /\ t.guid = db.guid /\ t.path = db.path /\ t.paths = db.paths /\ t.slot = db.slot
        /\ \A m \in NodeObj : t.class[m] = IF m = <<e[1], 1>> THEN type ELSE db.class[m]
    BY <2>1, <1>1, <1>2, ClassKeeps
  <2>3. CASE type = "Switch"
    <3>1. r = Fixed(t, n)
      BY <2>3, <1>2, <1>5 DEF Typed, Reclassed, Fixed
    <3>2. t.class[n] # None /\ n[1] \in L /\ DbInv(t, L) /\ n \in NodeObj
      BY <2>1, <2>2, <1>1, <1>3
    <3>3. /\ DbInv(r, L)
          /\ r.class = t.class /\ r.ninf = t.ninf /\ r.swinf = t.swinf /\ r.pinf = t.pinf
          /\ r.nodes = t.nodes /\ r.topology = t.topology /\ r.lidRouted = t.lidRouted
          /\ r.loaded = t.loaded /\ r.path = t.path /\ r.paths = t.paths /\ r.ports = t.ports
      BY <3>1, <3>2, FixupKeeps
    <3>4. \A l \in LIDs : t.lids[l] # None => r.lids[l] # None
      BY <3>1, <3>2, FixupKeeps
    <3>5. \A q \in PortObj : Parent(q)[1] \notin L => r.lid[q] = t.lid[q]
      BY <3>1, <3>2, FixupKeeps
    <3>6. \A m \in NodeObj, i \in 0..MaxPort : m # n => r.slot[m][i] = t.slot[m][i]
      BY <3>1, <3>2, FixupKeeps
    <3> QED
      BY <2>1, <2>2, <3>2, <3>3, <3>4, <3>5, <3>6, <1>3, <1>1 DEF SameRest, TypedAs
  <2>4. CASE type # "Switch"
    <3>1. r = t
      BY <2>4, <1>2, <1>5 DEF Typed, Reclassed
    <3> QED
      BY <2>1, <2>2, <3>1, <1>3, <1>1, ZenonT(30) DEF SameRest, TypedAs
  <2> QED
    BY <2>3, <2>4
<1>6. CASE found # None /\ ~Retypes(db, n, type)
  <2>1. r = db
    BY <1>6 DEF Typed
  <2> QED
    BY <2>1, <1>6 DEF RightPort, SameRest, TypedAs
<1> QED
  BY <1>4, <1>5, <1>6

(* What the caller was told stays true while paths do not change.          *)
LEMMA ToldAgain ==
  ASSUME NEW db, NEW r, NEW a, NEW e, Told(db, a, e), r.path = db.path
  PROVE  Told(r, a, e) /\ LidIn(r, a) = LidIn(db, a)
BY DEF Told, LidIn

(* What is known, with another index.                                      *)
At2(a, idx) == [a EXCEPT !.idx = idx]
LEMMA ToldIndex ==
  ASSUME NEW db, NEW a, NEW e, Told(db, a, e), NEW idx \in 0..MaxPort,
         a.node # None => idx = e[2], NEW b, b = At2(a, idx)
  PROVE  /\ Told(db, b, e) /\ LidIn(db, b) = LidIn(db, a)
         /\ b.about = a.about /\ b.idx = idx /\ b.node = a.node /\ b.guid = a.guid
         /\ b.path = a.path /\ b.lid = a.lid /\ b.lmc = a.lmc
<1>1. a \in Args /\ idx \in Nat
  BY Ports DEF Told
<1>2. /\ b \in Args
      /\ b.about = a.about /\ b.idx = idx /\ b.node = a.node /\ b.guid = a.guid
      /\ b.path = a.path /\ b.lid = a.lid /\ b.lmc = a.lmc
  BY <1>1 DEF Args, At2
<1>3. LidIn(db, b) = LidIn(db, a)
  BY <1>2 DEF LidIn
<1> QED
  BY <1>2, <1>3 DEF Told

(* The port that the facts go to.                                          *)
Into(db, n, found, a) ==
  IF IsSwitchNode(db, n) THEN PortAt(db, n, 0)
  ELSE IF found # None THEN found ELSE <<n, IF a.idx = None THEN Loose ELSE a.idx>>
With(db, n, a) == IF IsSwitchNode(db, n) THEN At2(a, 0) ELSE a

LEMMA AttachIs ==
  ASSUME NEW db, NEW n, NEW found, NEW a, NEW np, np = Attach(db, n, found, a)
  PROVE  /\ np.db = link_end_port(db, Into(db, n, found, a), With(db, n, a))
         /\ np.node = n /\ np.port = Into(db, n, found, a)
         /\ DOMAIN np = {"db", "node", "port"}
<1>1. np = Attached(db, n, Into(db, n, found, a), With(db, n, a))
  <2>1. CASE IsSwitchNode(db, n)
    BY <2>1 DEF Attach, Into, With, At2
  <2>2. CASE ~IsSwitchNode(db, n) /\ found # None
    BY <2>2 DEF Attach, Into, With, At2
  <2>3. CASE ~IsSwitchNode(db, n) /\ found = None
    BY <2>3 DEF Attach, Into, With, At2
  <2> QED
    BY <2>1, <2>2, <2>3
<1> QED
  BY <1>1 DEF Attached

(* The Node made for a device that has none is its first.                  *)
LEMMA NewNodeIs ==
  ASSUME NEW db, NEW L, DbInv(db, L), NEW d \in Device, db.class[<<d, 1>>] = None
  PROVE  NewNode(db, d) = <<d, 1>>
<1>1. ASSUME NEW n \in AllNodes(db), n[1] = d PROVE FALSE
  <2>1. n \in NodeObj /\ n[2] = 1 /\ db.class[n] # None
    BY DEF AllNodes, DbInv, NodesRight
  <2>2. n = <<d, 1>>
    BY <2>1, <1>1 DEF NodeObj
  <2> QED
    BY <2>1, <2>2
<1>2. {n \in AllNodes(db) : n[1] = d} = {}
  BY <1>1
<1>3. NewNode(db, d) = <<d, 1 + Cardinality({})>>
  BY <1>2 DEF NewNode
<1> QED
  BY <1>3, FS_EmptySet

Got(db, L, e, a, np) ==
  /\ DbInv(np.db, L) /\ DOMAIN np = {"db", "node", "port"}
  /\ np.node = <<e[1], 1>> /\ RightPort(np.db, L, e, np.port)
  /\ e[1] \notin L => Listed1(np.db, np.port)
  /\ SameRest(db, np.db)
  /\ \A m \in NodeObj : db.class[m] # None => np.db.class[m] # None
  /\ \A m \in NodeObj : m # <<e[1], 1>> => np.db.class[m] = db.class[m]
  /\ \A l \in LIDs : db.lids[l] # None => np.db.lids[l] # None
  /\ LidIn(db, a) # None => np.db.lids[Lid[e]] # None
  /\ \A q \in PortObj : Parent(q)[1] \notin L =>
       np.db.lid[q] = IF q = np.port /\ LidIn(db, a) # None THEN Lid[e] ELSE db.lid[q]
  /\ a.guid # None => np.db.ports[e] = np.port
  /\ \A f \in EndPlace : np.db.ports[f] = db.ports[f] \/ (f = e /\ a.guid # None)
  /\ e[1] \notin L => \A m \in NodeObj, i \in 0..MaxPort :
       np.db.slot[m][i] = db.slot[m][i] \/ (m = <<e[1], 1>> /\ i = e[2] /\ np.db.slot[m][i] = np.port)
  /\ np.db.path = IF a.path # None THEN WithEp(db.path, a.path, np.port) ELSE db.path
  /\ np.db.paths = [db.paths EXCEPT ![np.port] = IF a.path # None /\ ~db.lidRouted THEN a.path ELSE @]

(* Linking what was found, or a new port, to the device's Node.            *)
LEMMA AttachKeeps ==
  ASSUME NEW db, NEW L, DbInv(db, L), NEW e, NEW a, Told(db, a, e), NEW found,
         a.guid # None \/ a.node # None => e[1] \notin L,
         db.class[<<e[1], 1>>] # None,
         found # None => RightPort(db, L, e, found),
         found # None /\ a.path = None /\ a.guid = None /\ a.node = None /\ e[1] \notin L =>
           Listed1(db, found),
         e[1] \notin L /\ ~IsSwitch(e[1]) =>
           a.idx = e[2] \/ (found # None /\ a.idx = None /\ a.path = None /\ a.guid = None /\ a.node = None),
         NEW np, np = Attach(db, <<e[1], 1>>, found, a)
  PROVE  Got(db, L, e, a, np)
<1> PICK n : n = <<e[1], 1>>
  OBVIOUS
<1> PICK p : p = Into(db, n, found, a)
  OBVIOUS
<1> PICK b : b = With(db, n, a)
  OBVIOUS
<1>1. /\ e \in EndPlace /\ e[1] \in Device /\ e = <<e[1], e[2]>> /\ n \in NodeObj
      /\ e[2] \in 0..MaxPort /\ (IsSwitch(e[1]) => e[2] = 0) /\ 0 \in 0..MaxPort /\ n[1] = e[1]
  BY EndPlaceFacts, EndPorts, FirstNode, Ports DEF Told
<1>2. np.db = link_end_port(db, p, b) /\ np.node = n /\ np.port = p /\ DOMAIN np = {"db", "node", "port"}
  BY AttachIs
<1>3. e[1] \notin L => (IsSwitchNode(db, n) <=> IsSwitch(e[1]))
  BY <1>1 DEF DbInv, NodesRight, IsSwitchNode, IsSwitch
<1>4. /\ p \in PortObj /\ Parent(p) = n
      /\ e[1] \notin L => p = Place1(e)
  <2>1. CASE IsSwitchNode(db, n)
    <3>1. p = PortAt(db, n, 0)
      BY <2>1 DEF Into
    <3>2. p \in PortObj /\ Parent(p) = n /\ (n[1] \notin L => p = <<n, 0>>)
      BY <3>1, <1>1, SlotFacts
    <3> QED
      BY <3>2, <2>1, <1>1, <1>3 DEF Place1
  <2>2. CASE ~IsSwitchNode(db, n) /\ found # None
    BY <2>2 DEF Into, RightPort
  <2>3. CASE ~IsSwitchNode(db, n) /\ found = None
    <3>1. p = <<n, IF a.idx = None THEN Loose ELSE a.idx>>
      BY <2>3 DEF Into
    <3>2. (IF a.idx = None THEN Loose ELSE a.idx) \in 0..Loose
      BY Ports DEF Told, Loose
    <3>3. p \in PortObj /\ Parent(p) = n
      BY <3>1, <3>2, <1>1 DEF PortObj, Parent
    <3>4. e[1] \notin L => a.idx = e[2]
      BY <2>3, <1>3
    <3> QED
      BY <3>1, <3>3, <3>4, <1>1, FixedNone DEF Place1
  <2> QED
    BY <2>1, <2>2, <2>3
<1>5. /\ Told(db, b, e) /\ LidIn(db, b) = LidIn(db, a) /\ b.path = a.path /\ b.guid = a.guid
      /\ b.idx = IF IsSwitchNode(db, n) THEN 0 ELSE a.idx
  <2>1. CASE IsSwitchNode(db, n)
    <3>1. b = At2(a, 0)
      BY <2>1 DEF With
    <3>2. a.node # None => 0 = e[2]
      BY <2>1, <1>1, <1>3
    <3> QED
      BY <2>1, <3>1, <3>2, <1>1, ToldIndex
  <2>2. CASE ~IsSwitchNode(db, n)
    BY <2>2 DEF With
  <2> QED
    BY <2>1, <2>2
<1>6. e[1] \notin L => b.idx = e[2] \/ (b.idx = None /\ Listed1(db, p))
  <2> SUFFICES ASSUME e[1] \notin L PROVE b.idx = e[2] \/ (b.idx = None /\ Listed1(db, p))
    OBVIOUS
  <2>1. CASE IsSwitch(e[1])
    BY <2>1, <1>1, <1>3, <1>5
  <2>2. CASE ~IsSwitch(e[1]) /\ a.idx = e[2]
    BY <2>2, <1>3, <1>5
  <2>3. CASE ~IsSwitch(e[1]) /\ a.idx # e[2]
    <3>1. p = found /\ found # None
      BY <2>3, <1>3 DEF Into
    <3> QED
      BY <2>3, <3>1, <1>3, <1>5
  <2> QED
    BY <2>1, <2>2, <2>3
<1> PICK r : r = np.db
  OBVIOUS
<1>7. r = link_end_port(db, p, b)
  BY <1>2
<1>8. /\ Told(db, b, e) /\ p \in PortObj /\ Parent(p) = <<e[1], 1>>
      /\ e[1] \notin L => p = Place1(e) /\ (b.idx = e[2] \/ (b.idx = None /\ Listed1(db, p)))
      /\ b.guid # None => e[1] \notin L
  BY <1>4, <1>5, <1>6
<1>0. LinkedTo(db, L, e, b, p, r)
  BY <1>7, <1>8, LinkKeeps
<1>9. /\ DbInv(r, L)
      /\ r.class = db.class /\ r.ninf = db.ninf /\ r.swinf = db.swinf /\ r.pinf = db.pinf
      /\ r.nodes = db.nodes /\ r.topology = db.topology /\ r.lidRouted = db.lidRouted
      /\ r.loaded = db.loaded
  BY <1>0 DEF LinkedTo
<1>10. \A l \in LIDs : db.lids[l] # None => r.lids[l] # None
  BY <1>0 DEF LinkedTo
<1>11. LidIn(db, b) # None => r.lids[Lid[e]] # None /\ r.lid[p] = Lid[e]
  BY <1>0 DEF LinkedTo
<1>12. \A q \in PortObj : r.lid[q] = IF q = p /\ LidIn(db, b) # None THEN Lid[e] ELSE db.lid[q]
  BY <1>0 DEF LinkedTo
<1>13. b.guid # None => r.ports[e] = p
  BY <1>0 DEF LinkedTo
<1>14. \A f \in EndPlace : r.ports[f] = db.ports[f] \/ (f = e /\ b.guid # None)
  BY <1>0 DEF LinkedTo
<1>15. \A m \in NodeObj, i \in 0..MaxPort :
         r.slot[m][i] = IF m = <<e[1], 1>> /\ i = b.idx /\ b.idx # None THEN p ELSE db.slot[m][i]
  BY <1>0 DEF LinkedTo
<1>16. e[1] \notin L => Listed1(r, p)
  BY <1>0 DEF LinkedTo
<1>17. /\ b.path # None => r.path = WithEp(db.path, b.path, p)
       /\ b.path = None => r.path = db.path
       /\ r.paths = [db.paths EXCEPT ![p] = IF b.path # None /\ ~db.lidRouted THEN b.path ELSE @]
  BY <1>0 DEF LinkedTo
<1>18. RightPort(r, L, e, p)
  BY <1>4, <1>9 DEF RightPort
<1>19. e[1] \notin L => \A m \in NodeObj, i \in 0..MaxPort :
       r.slot[m][i] = db.slot[m][i] \/ (m = <<e[1], 1>> /\ i = e[2] /\ r.slot[m][i] = p)
  BY <1>6, <1>15
<1> HIDE DEF Got
<1>20. /\ DbInv(r, L) /\ DOMAIN np = {"db", "node", "port"}
       /\ np.node = <<e[1], 1>> /\ RightPort(r, L, e, p)
       /\ e[1] \notin L => Listed1(r, p)
       /\ SameRest(db, r)
  BY <1>2, <1>9, <1>16, <1>18 DEF SameRest
<1>21. /\ \A m \in NodeObj : db.class[m] # None => r.class[m] # None
       /\ \A m \in NodeObj : m # <<e[1], 1>> => r.class[m] = db.class[m]
  BY <1>9
<1>22. LidIn(db, a) # None => r.lids[Lid[e]] # None
  BY <1>5, <1>11
<1>23. \A q \in PortObj : Parent(q)[1] \notin L =>
       r.lid[q] = IF q = p /\ LidIn(db, a) # None THEN Lid[e] ELSE db.lid[q]
  BY <1>5, <1>12
<1>24. /\ a.guid # None => r.ports[e] = p
       /\ \A f \in EndPlace : r.ports[f] = db.ports[f] \/ (f = e /\ a.guid # None)
  BY <1>5, <1>13, <1>14
<1>25. /\ r.path = IF a.path # None THEN WithEp(db.path, a.path, p) ELSE db.path
       /\ r.paths = [db.paths EXCEPT ![p] = IF a.path # None /\ ~db.lidRouted THEN a.path ELSE @]
  BY <1>5, <1>17
<1>26. np.db = r /\ np.port = p
  BY <1>2
<1> QED
  BY <1>10, <1>19, <1>20, <1>21, <1>22, <1>23, <1>24, <1>25, <1>26 DEF Got

Findable(db, L, e, type, a) ==
  /\ a.guid # None \/ a.node # None => e[1] \notin L
  /\ a.path # None => db.path[a.path].ep = None \/ RightPort(db, L, e, db.path[a.path].ep)
  /\ search_end_port(db, a) = None =>
       /\ db.class[<<e[1], 1>>] = None
       /\ e[1] \notin L => type = Kind[e[1]] /\ (IsSwitch(e[1]) \/ a.idx = e[2])
  /\ e[1] \notin L /\ ~IsSwitch(e[1]) =>
       a.idx = e[2] \/ (a.idx = None /\ a.path = None /\ a.guid = None /\ a.node = None)

(* get_node keeps the database right, whether it finds or makes.           *)
LEMMA GetNodeKeeps ==
  ASSUME NEW db, NEW L, DbInv(db, L), NEW e, NEW a, Told(db, a, e), NEW type \in Types,
         Findable(db, L, e, type, a), NEW np, np = get_node(db, type, a)
  PROVE  Got(db, L, e, a, np)
<1> PICK n : n = <<e[1], 1>>
  OBVIOUS
<1> PICK found : found = search_end_port(db, a)
  OBVIOUS
<1> PICK t : t = Typed(db, type, <<e[1], 1>>, found)
  OBVIOUS
<1>1. e \in EndPlace /\ e[1] \in Device /\ a.about = e[1]
  BY EndPlaceFacts DEF Told
<1>2. found # None => RightPort(db, L, e, found)
  <2>1. a.path # None => db.path[a.path].ep = None \/ RightPort(db, L, e, db.path[a.path].ep)
    BY DEF Findable
  <2> QED
    BY <2>1, SearchFinds
<1>3. found # None /\ a.path = None /\ a.guid = None /\ a.node = None /\ e[1] \notin L => Listed1(db, found)
  <2>1. a.path # None => db.path[a.path].ep = None \/ RightPort(db, L, e, db.path[a.path].ep)
    BY DEF Findable
  <2> QED
    BY <2>1, SearchFinds
<1>4. np = Attach(t, n, found, a)
  <2>1. (IF found = None THEN NewNode(db, a.about) ELSE Parent(found)) = n
    <3>1. CASE found = None
      <4>1. db.class[<<e[1], 1>>] = None
        BY <3>1 DEF Findable
      <4> QED
        BY <4>1, <3>1, <1>1, NewNodeIs
    <3>2. CASE found # None
      BY <3>2, <1>2 DEF RightPort
    <3> QED
      BY <3>1, <3>2
  <2>2. np = OnFound(db, type, a, found)
    BY DEF get_node
  <2> QED
    BY <2>1, <2>2 DEF OnFound
<1>5. found = None => db.class[<<e[1], 1>>] = None /\ (e[1] \notin L => type = Kind[e[1]])
  BY DEF Findable
<1>a. TypedAs(db, L, e, t)
  BY <1>1, <1>2, <1>5, TypedKeeps
<1>6. /\ DbInv(t, L) /\ t.class[<<e[1], 1>>] # None
      /\ SameRest(db, t) /\ t.path = db.path /\ t.paths = db.paths /\ t.ports = db.ports
  BY <1>a DEF TypedAs
<1>7. \A m \in NodeObj : db.class[m] # None => t.class[m] # None
  BY <1>a DEF TypedAs
<1>8. \A m \in NodeObj : m # <<e[1], 1>> => t.class[m] = db.class[m]
  BY <1>a DEF TypedAs
<1>9. \A l \in LIDs : db.lids[l] # None => t.lids[l] # None
  BY <1>a DEF TypedAs
<1>10. \A q \in PortObj : Parent(q)[1] \notin L => t.lid[q] = db.lid[q]
  BY <1>a DEF TypedAs
<1>11. \A m \in NodeObj, i \in 0..MaxPort :
         m # <<e[1], 1>> \/ e[1] \notin L => t.slot[m][i] = db.slot[m][i]
  BY <1>a DEF TypedAs
<1>12. Told(t, a, e) /\ LidIn(t, a) = LidIn(db, a)
  BY <1>6, ToldAgain
<1>13. found # None => RightPort(t, L, e, found)
  BY <1>2, <1>6 DEF RightPort
<1>14. found # None /\ a.path = None /\ a.guid = None /\ a.node = None /\ e[1] \notin L => Listed1(t, found)
  <2> SUFFICES ASSUME found # None, a.path = None, a.guid = None, a.node = None, e[1] \notin L
               PROVE  Listed1(t, found)
    OBVIOUS
  <2>1. Listed1(db, found) /\ found \in PortObj /\ Parent(found) \in NodeObj
    BY <1>2, <1>3 DEF RightPort, PortObj, Parent
  <2> QED
    BY <2>1, <1>11 DEF Listed1
<1>15. e[1] \notin L /\ ~IsSwitch(e[1]) =>
         a.idx = e[2] \/ (found # None /\ a.idx = None /\ a.path = None /\ a.guid = None /\ a.node = None)
  BY DEF Findable
<1>16. a.guid # None \/ a.node # None => e[1] \notin L
  BY DEF Findable
<1>17. Got(t, L, e, a, np)
  BY <1>4, <1>6, <1>12, <1>13, <1>14, <1>15, <1>16, AttachKeeps
<1>18. /\ DbInv(np.db, L) /\ DOMAIN np = {"db", "node", "port"}
       /\ np.node = <<e[1], 1>> /\ RightPort(np.db, L, e, np.port)
       /\ e[1] \notin L => Listed1(np.db, np.port)
       /\ SameRest(db, np.db)
  BY <1>6, <1>17 DEF Got, SameRest
<1>19. /\ \A m \in NodeObj : db.class[m] # None => np.db.class[m] # None
       /\ \A m \in NodeObj : m # <<e[1], 1>> => np.db.class[m] = db.class[m]
       /\ \A l \in LIDs : db.lids[l] # None => np.db.lids[l] # None
  BY <1>7, <1>8, <1>9, <1>17 DEF Got
<1>20. /\ LidIn(db, a) # None => np.db.lids[Lid[e]] # None
       /\ \A q \in PortObj : Parent(q)[1] \notin L =>
            np.db.lid[q] = IF q = np.port /\ LidIn(db, a) # None THEN Lid[e] ELSE db.lid[q]
  BY <1>10, <1>12, <1>17 DEF Got
<1>21. /\ a.guid # None => np.db.ports[e] = np.port
       /\ \A f \in EndPlace : np.db.ports[f] = db.ports[f] \/ (f = e /\ a.guid # None)
  BY <1>6, <1>17 DEF Got
<1>22. e[1] \notin L => \A m \in NodeObj, i \in 0..MaxPort :
       np.db.slot[m][i] = db.slot[m][i] \/ (m = <<e[1], 1>> /\ i = e[2] /\ np.db.slot[m][i] = np.port)
  BY <1>11, <1>17 DEF Got
<1>23. /\ np.db.path = IF a.path # None THEN WithEp(db.path, a.path, np.port) ELSE db.path
       /\ np.db.paths = [db.paths EXCEPT ![np.port] = IF a.path # None /\ ~db.lidRouted THEN a.path ELSE @]
  <2>1. t.lidRouted = db.lidRouted
    BY <1>6 DEF SameRest
  <2> QED
    BY <2>1, <1>6, <1>17 DEF Got
<1> QED
  BY <1>18, <1>19, <1>20, <1>21, <1>22, <1>23 DEF Got

(* Only the port of one path changes.                                      *)
EpOnly(path, h, p, r) ==
  /\ \A g \in PathObj : g # h => r[g] = path[g]
  /\ r[h] \in Path /\ r[h].ep = p
  /\ r[h].dr = path[h].dr /\ r[h].dlid = path[h].dlid /\ r[h].hops = path[h].hops

LEMMA WithEpIs ==
  ASSUME NEW path \in [PathObj -> Path \cup {None}], NEW h \in PathObj, path[h] # None,
         NEW p \in PortObj, NEW r, r = WithEp(path, h, p)
  PROVE  EpOnly(path, h, p, r) /\ r \in [PathObj -> Path \cup {None}]
<1>1. path[h] \in Path
  OBVIOUS
<1> PICK new : new = [path[h] EXCEPT !.ep = p]
  OBVIOUS
<1>2. /\ new \in Path /\ new.ep = p
      /\ new.dr = path[h].dr /\ new.dlid = path[h].dlid /\ new.hops = path[h].hops
  BY <1>1 DEF Path
<1>3. r = [path EXCEPT ![h] = new]
  BY DEF WithEp
<1> QED
  BY <1>2, <1>3 DEF EpOnly

(* Two changes of the end port of one path are one.                        *)
LEMMA EpOnlyTwice ==
  ASSUME NEW path, NEW h, NEW p, NEW r, NEW s, EpOnly(path, h, p, r), EpOnly(r, h, p, s)
  PROVE  EpOnly(path, h, p, s)
BY DEF EpOnly

(* The LID that a path tells stays what it was.                            *)
LEMMA LidInKeeps ==
  ASSUME NEW db, NEW r, NEW a, a.path # None => EpOnly(db.path, a.path, r.path[a.path].ep, r.path)
  PROVE  LidIn(r, a) = LidIn(db, a)
BY DEF LidIn, EpOnly

(* Noting a NodeInfo.                                                      *)
LEMMA InfoKeeps ==
  ASSUME NEW db, NEW L, DbInv(db, L), NEW d \in Device, d \notin L, db.class[<<d, 1>>] # None,
         NEW r, r = NinfStored(db, d, <<d, 1>>)
  PROVE  /\ DbInv(r, L) /\ r.class = db.class /\ r.swinf = db.swinf /\ r.pinf = db.pinf
         /\ r.topology = db.topology /\ r.lidRouted = db.lidRouted
         /\ r.loaded = db.loaded /\ r.lids = db.lids /\ r.lid = db.lid /\ r.ports = db.ports
         /\ r.guid = db.guid /\ r.path = db.path /\ r.paths = db.paths /\ r.slot = db.slot
         /\ r.ninf = db.ninf \cup {<<d, 1>>}
         /\ \A c \in Device : r.nodes[c] = IF c = d THEN <<d, 1>> ELSE db.nodes[c]
<1> PICK n : n = <<d, 1>>
  OBVIOUS
<1> PICK nodes : nodes = [db.nodes EXCEPT ![d] = n]
  OBVIOUS
<1>1. DbTypes(db) /\ n \in NodeObj /\ n[1] = d
  BY FirstNode DEF DbInv
<1>2. r = [db EXCEPT !.nodes = nodes, !.ninf = db.ninf \cup {n}]
  BY DEF NinfStored
<1>3. /\ DOMAIN r = DOMAIN EmptyDb
      /\ r.class = db.class /\ r.swinf = db.swinf /\ r.pinf = db.pinf
      /\ r.topology = db.topology /\ r.lidRouted = db.lidRouted
      /\ r.loaded = db.loaded /\ r.lids = db.lids /\ r.lid = db.lid /\ r.ports = db.ports
      /\ r.guid = db.guid /\ r.path = db.path /\ r.paths = db.paths /\ r.slot = db.slot
      /\ r.ninf = db.ninf \cup {n} /\ r.nodes = nodes
  BY <1>1, <1>2 DEF DbTypes, EmptyDb
<1>4. /\ nodes \in [Device -> NodeObj \cup {None}]
      /\ \A c \in Device : nodes[c] = IF c = d THEN n ELSE db.nodes[c]
  BY <1>1 DEF DbTypes
<1>5. DbTypes(r)
  BY <1>1, <1>3, <1>4 DEF DbTypes
<1>6. (\A q : Listed1(db, q) => Listed1(r, q)) /\ (\A q : Exists(db, q) => Exists(r, q))
  BY <1>3 DEF Listed1, Exists
<1>7. NodesRight(r, L) /\ SlotsRight(r, L)
  BY <1>3 DEF DbInv, NodesRight, SlotsRight
<1>8. NodeIndexRight(r, L)
  <2>1. \A c \in Device : r.nodes[c] # None => r.nodes[c] = <<c, 1>> /\ r.class[<<c, 1>>] # None /\ c \notin L
    BY <1>3, <1>4 DEF DbInv, NodeIndexRight
  <2>2. ASSUME NEW m \in r.ninf PROVE r.nodes[m[1]] = m
    <3>1. CASE m = n
      BY <3>1, <1>1, <1>3, <1>4
    <3>2. CASE m \in db.ninf /\ m[1] # d
      <4>1. m[1] \in Device
        BY <3>2, <1>1 DEF DbTypes, NodeObj
      <4> QED
        BY <3>2, <4>1, <1>3, <1>4 DEF DbInv, NodeIndexRight
    <3>3. CASE m \in db.ninf /\ m[1] = d
      <4>1. m = db.nodes[d] /\ m # None
        BY <3>3, <1>1, FixedNone DEF DbInv, NodeIndexRight, DbTypes
      <4>2. m = n
        BY <4>1 DEF DbInv, NodeIndexRight
      <4> QED
        BY <4>2, <1>1, <1>3, <1>4
    <3> QED
      BY <3>1, <3>2, <3>3, <1>3
  <2> QED
    BY <2>1, <2>2 DEF NodeIndexRight
<1>9. PortIndexRight(r, L) /\ LidsRight(r, L)
  BY <1>3, <1>6 DEF DbInv, PortIndexRight, LidsRight
<1>10. LidIndexRight(r, L)
  BY <1>3, <1>6 DEF DbInv, LidIndexRight
<1> QED
  BY <1>3, <1>4, <1>5, <1>7, <1>8, <1>9, <1>10 DEF DbInv

(* The end port of a place is its own, or its switch's port 0.             *)
LEMMA PlaceFacts ==
  ASSUME NEW w \in Place
  PROVE  /\ w = <<w[1], w[2]>> /\ w[1] \in Device /\ w[2] \in 0..MaxPort
         /\ ToEndPlace(w)[1] = w[1]
         /\ IsSwitch(w[1]) => ToEndPlace(w) = <<w[1], 0>>
         /\ ~IsSwitch(w[1]) => ToEndPlace(w) = w
         /\ ToEndPlace(w) = <<w[1], ToEndPlace(w)[2]>>
         /\ IsSwitch(w[1]) \/ w[2] # 0 => ToEndPlace(w) \in EndPlace
<1>1. PICK d \in Device : w \in {d} \X (0..NumPorts[d])
  BY DEF Place
<1>2. w = <<d, w[2]>> /\ w[2] \in 0..NumPorts[d] /\ NumPorts[d] \in Nat /\ NumPorts[d] <= MaxPort /\ w[1] = d
  BY <1>1, Ports, FabricAssumption DEF FabricAssumption
<1>3. <<d, 0>> \in {d} \X (0..NumPorts[d])
  BY <1>2
<1>4. <<d, 0>> \in Place
  BY <1>3 DEF Place
<1> QED
  BY <1>2, <1>4, Ports DEF ToEndPlace, EndPlace, IsSwitch

Plain(a) == a.idx = None /\ a.node = None /\ a.guid = None

(* What a NodeInfo tells of its node is true.                              *)
LEMMA AboutNodeIs ==
  ASSUME NEW db, NEW w \in Place, ToEndPlace(w) \in EndPlace, NEW a, Told(db, a, ToEndPlace(w)), Plain(a),
         NEW b, b = AboutNode(w, a)
  PROVE  /\ Told(db, b, ToEndPlace(w)) /\ LidIn(db, b) = LidIn(db, a)
         /\ b.idx = ToEndPlace(w)[2] /\ b.node = w[1] /\ b.guid = ToEndPlace(w) /\ b.path = a.path
<1> PICK e : e = ToEndPlace(w)
  OBVIOUS
<1>1. e[1] = w[1] /\ e \in EndPlace /\ e[2] \in 0..MaxPort /\ w[1] \in Device /\ e[2] \in Nat
  BY PlaceFacts, EndPorts, Ports
<1>2. a \in Args
  BY DEF Told
<1>3. /\ b \in Args /\ b.about = a.about /\ b.lid = a.lid /\ b.lmc = a.lmc
      /\ b.idx = e[2] /\ b.node = w[1] /\ b.guid = e /\ b.path = a.path
  BY <1>1, <1>2 DEF AboutNode, Args
<1>4. LidIn(db, b) = LidIn(db, a)
  BY <1>3 DEF LidIn
<1> QED
  BY <1>1, <1>3, <1>4 DEF Told

NinfGot(db, L, e, a, np) ==
  /\ DbInv(np.db, L)
  /\ np.node = <<e[1], 1>> /\ np.port = Place1(e)
  /\ RightPort(np.db, L, e, np.port) /\ Listed1(np.db, np.port)
  /\ np.db.swinf = db.swinf /\ np.db.pinf = db.pinf /\ np.db.topology = db.topology
  /\ np.db.lidRouted = db.lidRouted /\ np.db.loaded = db.loaded
  /\ np.db.ninf = db.ninf \cup {np.node}
  /\ \A d \in Device : np.db.nodes[d] = IF d = e[1] THEN np.node ELSE db.nodes[d]
  /\ \A m \in NodeObj : db.class[m] # None => np.db.class[m] # None
  /\ \A m \in NodeObj : m # <<e[1], 1>> => np.db.class[m] = db.class[m]
  /\ \A l \in LIDs : db.lids[l] # None => np.db.lids[l] # None
  /\ LidIn(db, a) # None => np.db.lids[Lid[e]] # None
  /\ \A q \in PortObj : Parent(q)[1] \notin L =>
       np.db.lid[q] = IF q = np.port /\ LidIn(db, a) # None THEN Lid[e] ELSE db.lid[q]
  /\ np.db.ports[e] = np.port
  /\ \A f \in EndPlace : np.db.ports[f] = db.ports[f] \/ f = e
  /\ \A m \in NodeObj, i \in 0..MaxPort :
       np.db.slot[m][i] = db.slot[m][i] \/ (m = <<e[1], 1>> /\ i = e[2] /\ np.db.slot[m][i] = np.port)
  /\ np.db.path = IF a.path # None THEN WithEp(db.path, a.path, np.port) ELSE db.path
  /\ np.db.paths = [db.paths EXCEPT ![np.port] = IF a.path # None /\ ~db.lidRouted THEN a.path ELSE @]

(* get_node_ninf keeps the database right and stores the NodeInfo.         *)
LEMMA NinfKeeps ==
  ASSUME NEW db, NEW L, DbInv(db, L), NEW w \in Place, NEW e, e = ToEndPlace(w), e \in EndPlace,
         e[1] \notin L, NEW a, Told(db, a, e), Plain(a),
         Findable(db, L, e, Kind[w[1]], AboutNode(w, a)),
         NEW np, np = get_node_ninf(db, w, a)
  PROVE  NinfGot(db, L, e, a, np)
<1> PICK b : b = AboutNode(w, a)
  OBVIOUS
<1> PICK np1 : np1 = get_node(db, Kind[w[1]], b)
  OBVIOUS
<1>1. /\ Told(db, b, e) /\ LidIn(db, b) = LidIn(db, a) /\ b.path = a.path /\ b.guid = e /\ b.guid # None
  BY AboutNodeIs, FixedNone
<1>2. e[1] = w[1] /\ w[1] \in Device /\ Kind[w[1]] \in Types
  BY PlaceFacts, FabricAssumption DEF Types, FabricAssumption
<1>3. Got(db, L, e, b, np1)
  <2>1. Findable(db, L, e, Kind[w[1]], b)
    OBVIOUS
  <2> QED
    BY <2>1, <1>1, <1>2, GetNodeKeeps
<1> PICK t : t = np1.db
  OBVIOUS
<1> PICK n : n = <<e[1], 1>>
  OBVIOUS
<1>4. /\ DbInv(t, L) /\ DOMAIN np1 = {"db", "node", "port"} /\ np1.node = n
      /\ RightPort(t, L, e, np1.port) /\ Listed1(t, np1.port) /\ SameRest(db, t)
  BY <1>3, ZenonT(30) DEF Got
<1>5. np1.port = Place1(e) /\ t.class[n] # None
  BY <1>4 DEF RightPort
<1> PICK r : r = NinfStored(t, e[1], <<e[1], 1>>)
  OBVIOUS
<1>6. np.db = r /\ np.node = n /\ np.port = np1.port
  <2>1. np = WithNinf(np1, w[1])
    BY DEF get_node_ninf
  <2>2. np = [np1 EXCEPT !.db = r]
    BY <2>1, <1>2, <1>4 DEF WithNinf
  <2> QED
    BY <2>2, <1>4
<1>7. /\ DbInv(r, L) /\ r.class = t.class /\ r.swinf = t.swinf /\ r.pinf = t.pinf
      /\ r.topology = t.topology /\ r.lidRouted = t.lidRouted
      /\ r.loaded = t.loaded /\ r.lids = t.lids /\ r.lid = t.lid /\ r.ports = t.ports
      /\ r.guid = t.guid /\ r.path = t.path /\ r.paths = t.paths /\ r.slot = t.slot
      /\ r.ninf = t.ninf \cup {n}
      /\ \A c \in Device : r.nodes[c] = IF c = e[1] THEN n ELSE t.nodes[c]
  BY <1>2, <1>4, <1>5, InfoKeeps, SMTT(30)
<1>8. RightPort(r, L, e, np1.port) /\ Listed1(r, np1.port)
  BY <1>4, <1>7, ZenonT(30) DEF RightPort, Listed1
<1>9. /\ DbInv(np.db, L) /\ np.node = <<e[1], 1>> /\ np.port = Place1(e)
      /\ RightPort(np.db, L, e, np.port) /\ Listed1(np.db, np.port)
  BY <1>5, <1>6, <1>7, <1>8, ZenonT(30)
<1>15. /\ r.swinf = db.swinf /\ r.pinf = db.pinf /\ r.topology = db.topology
       /\ r.lidRouted = db.lidRouted /\ r.loaded = db.loaded
       /\ r.ninf = db.ninf \cup {n}
       /\ \A d \in Device : r.nodes[d] = IF d = e[1] THEN n ELSE db.nodes[d]
  <2>1. /\ t.ninf = db.ninf /\ t.swinf = db.swinf /\ t.pinf = db.pinf /\ t.nodes = db.nodes
        /\ t.topology = db.topology /\ t.lidRouted = db.lidRouted /\ t.loaded = db.loaded
    BY <1>4, SMTT(30) DEF SameRest
  <2>2. \A c \in Device : r.nodes[c] = IF c = e[1] THEN n ELSE t.nodes[c]
    BY <1>7, ZenonT(30)
  <2>3. /\ r.swinf = db.swinf /\ r.pinf = db.pinf /\ r.topology = db.topology
        /\ r.lidRouted = db.lidRouted /\ r.loaded = db.loaded
    BY <1>7, <2>1, ZenonT(30)
  <2>4. r.ninf = db.ninf \cup {n}
    BY <1>7, <2>1, ZenonT(30)
  <2>5. \A c \in Device : r.nodes[c] = IF c = e[1] THEN n ELSE db.nodes[c]
    BY <2>1, <2>2, SMTT(30)
  <2> QED
    BY <2>3, <2>4, <2>5
<1>10. /\ \A m \in NodeObj : db.class[m] # None => t.class[m] # None
       /\ \A m \in NodeObj : m # <<e[1], 1>> => t.class[m] = db.class[m]
       /\ \A l \in LIDs : db.lids[l] # None => t.lids[l] # None
       /\ LidIn(db, a) # None => t.lids[Lid[e]] # None
  BY <1>1, <1>3, ZenonT(30) DEF Got
<1>11. /\ \A q \in PortObj : Parent(q)[1] \notin L =>
            t.lid[q] = IF q = np1.port /\ LidIn(db, a) # None THEN Lid[e] ELSE db.lid[q]
       /\ t.ports[e] = np1.port
       /\ \A f \in EndPlace : t.ports[f] = db.ports[f] \/ f = e
  BY <1>1, <1>3, ZenonT(120) DEF Got
<1>12. \A m \in NodeObj, i \in 0..MaxPort :
         t.slot[m][i] = db.slot[m][i] \/ (m = <<e[1], 1>> /\ i = e[2] /\ t.slot[m][i] = np1.port)
  <2>1. \A m \in NodeObj, i \in 0..MaxPort :
          np1.db.slot[m][i] = db.slot[m][i]
            \/ (m = <<e[1], 1>> /\ i = e[2] /\ np1.db.slot[m][i] = np1.port)
    BY ONLY <1>3, e[1] \notin L, ZenonT(30) DEF Got
  <2> QED
    BY ONLY <2>1, t = np1.db
<1>13. /\ t.path = IF a.path # None THEN WithEp(db.path, a.path, np1.port) ELSE db.path
       /\ t.paths = [db.paths EXCEPT ![np1.port] = IF a.path # None /\ ~db.lidRouted THEN a.path ELSE @]
  BY <1>1, <1>3, ZenonT(30) DEF Got
<1>14. /\ np.db.class = t.class /\ np.db.lids = t.lids /\ np.db.lid = t.lid /\ np.db.ports = t.ports
       /\ np.db.slot = t.slot /\ np.db.path = t.path /\ np.db.paths = t.paths
  BY <1>6, <1>7, ZenonT(30)
<1>16. /\ np.db.swinf = db.swinf /\ np.db.pinf = db.pinf /\ np.db.topology = db.topology
       /\ np.db.lidRouted = db.lidRouted /\ np.db.loaded = db.loaded
       /\ np.db.ninf = db.ninf \cup {np.node}
       /\ \A d \in Device : np.db.nodes[d] = IF d = e[1] THEN np.node ELSE db.nodes[d]
  BY <1>6, <1>15
<1>17. /\ \A m \in NodeObj : db.class[m] # None => np.db.class[m] # None
       /\ \A m \in NodeObj : m # <<e[1], 1>> => np.db.class[m] = db.class[m]
       /\ \A l \in LIDs : db.lids[l] # None => np.db.lids[l] # None
       /\ LidIn(db, a) # None => np.db.lids[Lid[e]] # None
  BY <1>10, <1>14, ZenonT(120)
<1>18. /\ \A q \in PortObj : Parent(q)[1] \notin L =>
            np.db.lid[q] = IF q = np.port /\ LidIn(db, a) # None THEN Lid[e] ELSE db.lid[q]
       /\ np.db.ports[e] = np.port
       /\ \A f \in EndPlace : np.db.ports[f] = db.ports[f] \/ f = e
  <2>1. np.db.lid = t.lid /\ np.db.ports = t.ports /\ np.port = np1.port
    BY <1>6, <1>14, ZenonT(30)
  <2> QED
    BY ONLY <1>11, <2>1
<1>19. \A m \in NodeObj, i \in 0..MaxPort :
         np.db.slot[m][i] = db.slot[m][i] \/ (m = <<e[1], 1>> /\ i = e[2] /\ np.db.slot[m][i] = np.port)
  BY <1>6, <1>12, <1>14, ZenonT(120)
<1>20. /\ np.db.path = IF a.path # None THEN WithEp(db.path, a.path, np.port) ELSE db.path
       /\ np.db.paths = [db.paths EXCEPT ![np.port] = IF a.path # None /\ ~db.lidRouted THEN a.path ELSE @]
  BY <1>6, <1>13, <1>14, SMTT(30)
<1> QED
  BY <1>9, <1>16, <1>17, <1>18, <1>19, <1>20 DEF NinfGot

(* What get_port leaves, for the port w of the end port e.                 *)
PortGot(db, L, w, e, a, pinf, np) ==
  /\ DbInv(np.db, L)
  /\ np.node = <<e[1], 1>> /\ np.port \in PortObj /\ Parent(np.port) = np.node
  /\ np.db.class[np.node] # None
  /\ e[1] \notin L => np.port = Place1(w)
  /\ np.db.ninf = db.ninf /\ np.db.swinf = db.swinf /\ np.db.pinf = pinf /\ np.db.nodes = db.nodes
  /\ np.db.topology = db.topology /\ np.db.lidRouted = db.lidRouted /\ np.db.loaded = db.loaded
  /\ \A m \in NodeObj : db.class[m] # None => np.db.class[m] # None
  /\ \A m \in NodeObj : m # <<e[1], 1>> => np.db.class[m] = db.class[m]
  /\ \A l \in LIDs : db.lids[l] # None => np.db.lids[l] # None
  /\ LidIn(db, a) # None => np.db.lids[Lid[e]] # None
  /\ \A q \in PortObj : Parent(q)[1] \notin L =>
       np.db.lid[q] = IF q = Place1(e) /\ LidIn(db, a) # None THEN Lid[e] ELSE db.lid[q]
  /\ \A f \in EndPlace : np.db.ports[f] = db.ports[f]
  /\ a.path = None => np.db.path = db.path
  /\ a.path # None /\ e[1] \notin L => EpOnly(db.path, a.path, Place1(e), np.db.path)
  /\ a.path = None => np.db.paths = db.paths
  /\ e[1] \notin L =>
       np.db.paths = [db.paths EXCEPT ![Place1(e)] = IF a.path # None /\ ~db.lidRouted THEN a.path ELSE @]
  /\ e[1] \notin L => \A m \in NodeObj, i \in 0..MaxPort :
       np.db.slot[m][i] = db.slot[m][i] \/
         (m = <<e[1], 1>> /\ i \in {e[2], w[2]} /\ np.db.slot[m][i] # None)
  /\ np.db.slot[np.node][w[2]] = np.port

LEMMA GetPortKeeps ==
  ASSUME NEW db, NEW L, DbInv(db, L), NEW w, w[2] \in 0..MaxPort, NEW e \in EndPlace, e[1] = w[1],
         NEW a, Told(db, a, e), Plain(a),
         Findable(db, L, e, PortType(w[2]), At2(a, w[2])),
         NEW np, np = get_port(db, w[2], a)
  PROVE  PortGot(db, L, w, e, a, db.pinf, np)
<1> PICK i : i = w[2]
  OBVIOUS
<1> PICK b : b = At2(a, w[2])
  OBVIOUS
<1> PICK np1 : np1 = get_node(db, PortType(w[2]), b)
  OBVIOUS
<1> PICK n : n = <<e[1], 1>>
  OBVIOUS
<1> PICK p : p = np1.port
  OBVIOUS
<1> PICK t : t = np1.db
  OBVIOUS
<1>1. /\ Told(db, b, e) /\ LidIn(db, b) = LidIn(db, a)
      /\ b.guid = None /\ b.node = None /\ b.path = a.path
  BY ToldIndex DEF Plain
<1>2. PortType(w[2]) \in Types
  BY DEF PortType, Types
<1>3. Got(db, L, e, b, np1)
  <2>1. Findable(db, L, e, PortType(w[2]), b)
    OBVIOUS
  <2> QED
    BY <2>1, <1>1, <1>2, GetNodeKeeps
<1>4. /\ DbInv(t, L) /\ np1.node = n /\ RightPort(t, L, e, p)
      /\ e[1] \notin L => Listed1(t, p)
      /\ SameRest(db, t)
  BY <1>3 DEF Got
<1>5. /\ p \in PortObj /\ Parent(p) = <<e[1], 1>> /\ t.class[<<e[1], 1>>] # None
      /\ e[1] \notin L => p = Place1(e)
  BY <1>4 DEF RightPort
<1>6. t.path = IF a.path # None THEN WithEp(db.path, a.path, p) ELSE db.path
  BY <1>1, <1>3 DEF Got
<1>7. t.paths = [db.paths EXCEPT ![p] = IF a.path # None /\ ~db.lidRouted THEN a.path ELSE @]
  BY <1>1, <1>3 DEF Got
<1>8. a.path # None => EpOnly(db.path, a.path, p, t.path)
  <2> SUFFICES ASSUME a.path # None PROVE EpOnly(db.path, a.path, p, t.path)
    OBVIOUS
  <2>1. a.path \in PathObj /\ db.path[a.path] # None
    BY DEF Told, Args
  <2>2. db.path \in [PathObj -> Path \cup {None}]
    BY DEF DbInv, DbTypes
  <2> QED
    BY <1>5, <1>6, <2>1, <2>2, WithEpIs
<1>9. Told(t, a, e) /\ LidIn(t, a) = LidIn(db, a)
  <2>1. LidIn(t, a) = LidIn(db, a)
    BY <1>6, <1>8 DEF LidIn, EpOnly
  <2>2. a.path # None => t.path[a.path] # None
    <3> SUFFICES ASSUME a.path # None PROVE t.path[a.path] # None
      OBVIOUS
    <3>1. t.path[a.path] \in Path /\ t.path[a.path].ep = p
      BY <1>8 DEF EpOnly
    <3>2. a.path \in PathObj /\ EpOnly(db.path, a.path, p, t.path)
      BY <1>8 DEF Told, Args
    <3>3. db.path[a.path] \in Path
      BY <3>2 DEF DbInv, DbTypes, Told
    <3> QED
      BY <3>1, <3>2, <3>3, <1>5, <1>6, FixedNone DEF Path, EpOnly
  <2> QED
    BY <2>1, <2>2 DEF Told
<1> PICK r : r = link_end_port(t, p, a)
  OBVIOUS
<1>10. LinkedTo(t, L, e, a, p, r)
  <2>1. e[1] \notin L => p = Place1(e) /\ (a.idx = e[2] \/ (a.idx = None /\ Listed1(t, p)))
    BY <1>4, <1>5 DEF Plain
  <2>2. a.guid # None => e[1] \notin L
    BY DEF Plain
  <2>3. p \in PortObj /\ Parent(p) = <<e[1], 1>> /\ t.class[<<e[1], 1>>] # None
    BY <1>5
  <2>4. DbInv(t, L) /\ Told(t, a, e)
    BY <1>4, <1>9
  <2> QED
    BY <2>1, <2>2, <2>3, <2>4, LinkKeeps
<1>11. DbInv(r, L) /\ n \in NodeObj /\ r.class[n] # None /\ n[1] = e[1] /\ i \in 0..MaxPort
  BY <1>5, <1>10, EndPlaceFacts, FirstNode, ZenonT(30) DEF LinkedTo
<1> PICK s : s = WithPort(r, n, i)
  OBVIOUS
<1>12. /\ DbInv(s, L)
       /\ s.class = r.class /\ s.ninf = r.ninf /\ s.swinf = r.swinf /\ s.pinf = r.pinf
       /\ s.nodes = r.nodes /\ s.topology = r.topology /\ s.lidRouted = r.lidRouted
       /\ s.loaded = r.loaded /\ s.lids = r.lids /\ s.lid = r.lid /\ s.ports = r.ports
       /\ s.guid = r.guid /\ s.path = r.path /\ s.paths = r.paths
  BY <1>11, WithPortKeeps
<1>13. np.db = s /\ np.node = n /\ np.port = PortAt(r, n, i)
  <2>1. np = LinkedAgain(np1, i, a)
    BY DEF get_port, At2
  <2> QED
    BY <2>1, <1>4 DEF LinkedAgain, Indexed
<1>14. np.port \in PortObj /\ Parent(np.port) = n /\ (e[1] \notin L => np.port = Place1(w))
  <2>1. /\ PortAt(r, n, i) \in PortObj /\ Parent(PortAt(r, n, i)) = n
        /\ n[1] \notin L => PortAt(r, n, i) = <<n, i>>
    BY <1>11, SlotFacts
  <2> QED
    BY <2>1, <1>11, <1>13 DEF Place1
<1>15. /\ t.ninf = db.ninf /\ t.swinf = db.swinf /\ t.pinf = db.pinf /\ t.nodes = db.nodes
       /\ t.topology = db.topology /\ t.lidRouted = db.lidRouted /\ t.loaded = db.loaded
  BY <1>4, SMTT(30) DEF SameRest
<1>16. /\ r.ninf = t.ninf /\ r.swinf = t.swinf /\ r.pinf = t.pinf /\ r.nodes = t.nodes
       /\ r.topology = t.topology /\ r.lidRouted = t.lidRouted /\ r.loaded = t.loaded
       /\ r.class = t.class
  BY <1>10, ZenonT(120) DEF LinkedTo
<1>17. /\ s.ninf = db.ninf /\ s.swinf = db.swinf /\ s.pinf = db.pinf /\ s.nodes = db.nodes
       /\ s.topology = db.topology /\ s.lidRouted = db.lidRouted /\ s.loaded = db.loaded
  BY <1>12, <1>15, <1>16
<1>18. /\ \A m \in NodeObj : db.class[m] # None => t.class[m] # None
       /\ \A m \in NodeObj : m # <<e[1], 1>> => t.class[m] = db.class[m]
       /\ \A l \in LIDs : db.lids[l] # None => t.lids[l] # None
  BY <1>3, ZenonT(30) DEF Got
<1>19. /\ \A m \in NodeObj : db.class[m] # None => s.class[m] # None
       /\ \A m \in NodeObj : m # <<e[1], 1>> => s.class[m] = db.class[m]
       /\ s.class[n] # None
  <2>1. s.class = t.class
    BY <1>12, <1>16
  <2>2. s.class[n] # None
    BY <1>11, <1>12
  <2> QED
    BY <1>18, <2>1, <2>2
<1>20. /\ \A l \in LIDs : t.lids[l] # None => r.lids[l] # None
       /\ LidIn(db, a) # None => r.lids[Lid[e]] # None
       /\ \A q \in PortObj : r.lid[q] = IF q = p /\ LidIn(db, a) # None THEN Lid[e] ELSE t.lid[q]
  <2>1. /\ \A l \in LIDs : t.lids[l] # None => r.lids[l] # None
        /\ LidIn(t, a) # None => r.lids[Lid[e]] # None
    BY <1>10, ZenonT(30) DEF LinkedTo
  <2>2. \A q \in PortObj : r.lid[q] = IF q = p /\ LidIn(t, a) # None THEN Lid[e] ELSE t.lid[q]
    BY <1>10, ZenonT(30) DEF LinkedTo
  <2> QED
    BY <1>9, <2>1, <2>2, SMTT(30)
<1>21. /\ \A l \in LIDs : db.lids[l] # None => s.lids[l] # None
       /\ LidIn(db, a) # None => s.lids[Lid[e]] # None
  <2>1. s.lids = r.lids
    BY <1>12
  <2>2. \A l \in LIDs : db.lids[l] # None => r.lids[l] # None
    BY <1>18, <1>20
  <2> QED
    BY ONLY <1>20, <2>1, <2>2
<1>22. \A q \in PortObj : Parent(q)[1] \notin L =>
         t.lid[q] = IF q = p /\ LidIn(db, a) # None THEN Lid[e] ELSE db.lid[q]
  BY <1>1, <1>3 DEF Got
<1>23. \A q \in PortObj : Parent(q)[1] \notin L =>
         s.lid[q] = IF q = Place1(e) /\ LidIn(db, a) # None THEN Lid[e] ELSE db.lid[q]
  <2> SUFFICES ASSUME NEW q \in PortObj, Parent(q)[1] \notin L
               PROVE  s.lid[q] = IF q = Place1(e) /\ LidIn(db, a) # None THEN Lid[e] ELSE db.lid[q]
    OBVIOUS
  <2>1. s.lid[q] = IF q = p /\ LidIn(db, a) # None THEN Lid[e] ELSE db.lid[q]
    <3>1. s.lid[q] = r.lid[q]
      BY <1>12
    <3>2. r.lid[q] = IF q = p /\ LidIn(db, a) # None THEN Lid[e] ELSE t.lid[q]
      BY <1>20
    <3>3. t.lid[q] = IF q = p /\ LidIn(db, a) # None THEN Lid[e] ELSE db.lid[q]
      BY <1>22
    <3> QED
      BY <3>1, <3>2, <3>3
  <2>2. q = p \/ q = Place1(e) => e[1] \notin L
    BY <1>5, SMTT(30) DEF Place1, Parent
  <2> QED
    BY <2>1, <2>2, <1>5
<1>24. \A f \in EndPlace : s.ports[f] = db.ports[f]
  <2>1. \A f \in EndPlace : t.ports[f] = db.ports[f]
    BY <1>1, <1>3, SMTT(30) DEF Got
  <2>2. \A f \in EndPlace : r.ports[f] = t.ports[f]
    BY <1>10, ZenonT(30) DEF LinkedTo, Plain
  <2> SUFFICES ASSUME NEW f \in EndPlace PROVE s.ports[f] = db.ports[f]
    OBVIOUS
  <2>3. s.ports[f] = r.ports[f]
    BY <1>12, ZenonT(30)
  <2>4. r.ports[f] = t.ports[f] /\ t.ports[f] = db.ports[f]
    BY <2>1, <2>2, ZenonT(30)
  <2> QED
    BY ONLY <2>3, <2>4
<1>25. a.path = None => s.path = db.path /\ s.paths = db.paths
  <2>1. DbTypes(db) /\ DbTypes(t)
    BY <1>4, SMTT(30) DEF DbInv
  <2>2. a.path = None => r.path = t.path
    BY <1>10, ZenonT(30) DEF LinkedTo
  <2>3. r.paths = [t.paths EXCEPT ![p] = IF a.path # None /\ ~t.lidRouted THEN a.path ELSE @]
    BY <1>10, ZenonT(30) DEF LinkedTo
  <2>4. a.path = None => t.paths = db.paths
    BY <1>7, <2>1 DEF DbTypes
  <2>5. a.path = None => r.paths = t.paths
    BY <2>1, <2>3 DEF DbTypes
  <2> QED
    BY <1>6, <1>12, <2>2, <2>4, <2>5
<1>26. e[1] \notin L =>
         s.paths = [db.paths EXCEPT ![Place1(e)] = IF a.path # None /\ ~db.lidRouted THEN a.path ELSE @]
  <2>1. DbTypes(db)
    BY DEF DbInv
  <2>2. r.paths = [t.paths EXCEPT ![p] = IF a.path # None /\ ~t.lidRouted THEN a.path ELSE @]
    BY <1>10 DEF LinkedTo
  <2>3. r.paths = [db.paths EXCEPT ![p] = IF a.path # None /\ ~db.lidRouted THEN a.path ELSE @]
    BY <1>5, <1>7, <1>15, <2>1, <2>2 DEF DbTypes
  <2> QED
    BY <1>5, <1>12, <2>3
<1>27. a.path # None /\ e[1] \notin L => EpOnly(db.path, a.path, Place1(e), s.path)
  <2> SUFFICES ASSUME a.path # None, e[1] \notin L PROVE EpOnly(db.path, a.path, Place1(e), s.path)
    BY SMTT(30)
  <2>1. r.path = WithEp(t.path, a.path, p)
    BY <1>10, ZenonT(30) DEF LinkedTo
  <2>2. a.path \in PathObj /\ t.path[a.path] # None /\ t.path \in [PathObj -> Path \cup {None}]
    BY <1>4, <1>9, ZenonT(30) DEF Told, Args, DbInv, DbTypes
  <2>3. EpOnly(t.path, a.path, p, r.path)
    BY <1>5, <2>1, <2>2, WithEpIs
  <2> QED
    BY <1>5, <1>8, <1>12, <2>3, EpOnlyTwice
<1>28. e[1] \notin L => np.port = Place1(w)
  BY <1>14, SMTT(30)
<1>29. /\ DbInv(np.db, L)
       /\ np.node = <<e[1], 1>> /\ np.port \in PortObj /\ Parent(np.port) = np.node
       /\ np.db.class[np.node] # None
  BY <1>12, <1>13, <1>14, <1>19, ZenonT(120)
<1>30. np.db = s
  BY <1>13
<1>31. /\ \A l \in LIDs : db.lids[l] # None => np.db.lids[l] # None
       /\ LidIn(db, a) # None => np.db.lids[Lid[e]] # None
  BY <1>21, <1>30
<1>32. /\ \A q \in PortObj : Parent(q)[1] \notin L =>
            np.db.lid[q] = IF q = Place1(e) /\ LidIn(db, a) # None THEN Lid[e] ELSE db.lid[q]
       /\ \A f \in EndPlace : np.db.ports[f] = db.ports[f]
  BY <1>23, <1>24, <1>30
<1>33. /\ a.path = None => np.db.path = db.path
       /\ a.path # None /\ e[1] \notin L => EpOnly(db.path, a.path, Place1(e), np.db.path)
       /\ a.path = None => np.db.paths = db.paths
       /\ e[1] \notin L =>
            np.db.paths = [db.paths EXCEPT ![Place1(e)] = IF a.path # None /\ ~db.lidRouted THEN a.path ELSE @]
  BY <1>25, <1>26, <1>27, <1>30
<1>34. /\ np.db.ninf = db.ninf /\ np.db.swinf = db.swinf /\ np.db.pinf = db.pinf /\ np.db.nodes = db.nodes
       /\ np.db.topology = db.topology /\ np.db.lidRouted = db.lidRouted /\ np.db.loaded = db.loaded
       /\ \A m \in NodeObj : db.class[m] # None => np.db.class[m] # None
       /\ \A m \in NodeObj : m # <<e[1], 1>> => np.db.class[m] = db.class[m]
  BY <1>17, <1>19, <1>30, ZenonT(120)
<1>35. e[1] \notin L => \A m \in NodeObj, k \in 0..MaxPort :
         s.slot[m][k] = db.slot[m][k] \/
           (m = <<e[1], 1>> /\ k \in {e[2], w[2]} /\ s.slot[m][k] # None)
  <2> SUFFICES ASSUME e[1] \notin L, NEW m \in NodeObj, NEW k \in 0..MaxPort
               PROVE  s.slot[m][k] = db.slot[m][k] \/
                        (m = n /\ k \in {e[2], i} /\ s.slot[m][k] # None)
    BY Zenon
  <2>1. t.slot[m][k] = db.slot[m][k] \/ (m = n /\ k = e[2] /\ t.slot[m][k] = p)
    BY <1>3 DEF Got
  <2>2. r.slot[m][k] = t.slot[m][k]
    BY <1>10, ZenonT(120) DEF LinkedTo, Plain
  <2>3. s.slot[m][k] = IF m = n /\ k = i THEN PortAt(r, n, i) ELSE r.slot[m][k]
    BY <1>11, WithPortKeeps
  <2>4. p # None /\ PortAt(r, n, i) # None
    BY <1>5, <1>13, <1>14, FixedNone
  <2> QED
    BY <2>1, <2>2, <2>3, <2>4, SMTT(30)
<1>36. e[1] \notin L => \A m \in NodeObj, k \in 0..MaxPort :
         np.db.slot[m][k] = db.slot[m][k] \/
           (m = <<e[1], 1>> /\ k \in {e[2], w[2]} /\ np.db.slot[m][k] # None)
  BY <1>30, <1>35
<1>37. np.db.slot[np.node][w[2]] = np.port
  <2>1. s.slot[n][i] = PortAt(r, n, i)
    BY <1>11, WithPortKeeps
  <2> QED
    BY <2>1, <1>13, <1>30
<1> QED
  BY <1>28, <1>29, <1>31, <1>32, <1>33, <1>34, <1>36, <1>37, ZenonT(60) DEF PortGot

(* What the indexes are made of, and what DbInv says nothing of but types. *)
SameIndexes(db, r) ==
  /\ r.class = db.class /\ r.ninf = db.ninf /\ r.slot = db.slot /\ r.guid = db.guid
  /\ r.lid = db.lid /\ r.nodes = db.nodes /\ r.ports = db.ports /\ r.lids = db.lids
  /\ r.lidRouted = db.lidRouted

LEMMA OthersKeep ==
  ASSUME NEW db, NEW L, DbInv(db, L), NEW r, SameIndexes(db, r),
         DOMAIN r = DOMAIN EmptyDb, r.swinf \subseteq NodeObj, r.pinf \subseteq PortObj,
         r.topology \in [PortObj -> PortObj \cup {None}],
         r.path \in [PathObj -> Path \cup {None}], r.paths \in [PortObj -> PathObj \cup {None}]
  PROVE  DbInv(r, L)
<1>1. DbTypes(r)
  BY DEF DbInv, DbTypes, SameIndexes
<1>2. (\A q : Listed1(db, q) => Listed1(r, q)) /\ (\A q : Exists(db, q) => Exists(r, q))
  BY DEF Listed1, Exists, SameIndexes
<1>3. NodesRight(r, L) /\ NodeIndexRight(r, L) /\ SlotsRight(r, L)
  BY DEF DbInv, NodesRight, NodeIndexRight, SlotsRight, SameIndexes
<1>4. PortIndexRight(r, L)
  BY <1>2 DEF DbInv, PortIndexRight, SameIndexes
<1>5. LidIndexRight(r, L) /\ LidsRight(r, L)
  BY <1>2 DEF DbInv, LidIndexRight, LidsRight, SameIndexes
<1> QED
  BY <1>1, <1>3, <1>4, <1>5 DEF DbInv

(* Storing a PortInfo changes no index.                                    *)
LEMMA PinfStoredKeeps ==
  ASSUME NEW db, NEW L, DbInv(db, L), NEW p \in PortObj, NEW r, r = PinfStored(db, p)
  PROVE  /\ DbInv(r, L) /\ SameIndexes(db, r) /\ r.swinf = db.swinf /\ r.topology = db.topology
         /\ r.loaded = db.loaded /\ r.path = db.path /\ r.paths = db.paths
         /\ r.pinf = db.pinf \cup {p}
<1>1. DbTypes(db)
  BY DEF DbInv
<1>2. /\ DOMAIN r = DOMAIN EmptyDb
      /\ SameIndexes(db, r) /\ r.swinf = db.swinf /\ r.topology = db.topology
      /\ r.loaded = db.loaded /\ r.path = db.path /\ r.paths = db.paths
      /\ r.pinf = db.pinf \cup {p}
  BY <1>1 DEF DbTypes, EmptyDb, PinfStored, SameIndexes
<1>3. DbInv(r, L)
  BY <1>1, <1>2, OthersKeep DEF DbTypes
<1> QED
  BY <1>2, <1>3

(* What a PortInfo adds to what the caller knows.                          *)
LEMMA AboutPortIs ==
  ASSUME NEW db, NEW w, NEW e, e = ToEndPlace(w), NEW a, Told(db, a, e), Plain(a),
         NEW lid \in {0, Lid[e]}, NEW b, b = AboutPort(w, lid, a)
  PROVE  /\ Told(db, b, e) /\ Plain(b) /\ b.path = a.path
         /\ LidIn(db, a) # None => LidIn(db, b) # None
         /\ lid # 0 /\ a.lid \in {None, lid} => LidIn(db, b) # None
<1>1. CASE lid # 0 /\ a.lid \in {None, lid}
  <2>1. lid = Lid[e] /\ lid \in Nat /\ Lmc[e] \in Nat /\ a \in Args /\ lid # None
    BY <1>1, FixedNone, LidAssumption DEF LidAssumption, Told
  <2>2. b = [a EXCEPT !.lid = lid, !.lmc = Lmc[e]]
    BY <1>1 DEF AboutPort
  <2>3. /\ b \in Args /\ b.about = a.about /\ b.idx = a.idx /\ b.node = a.node /\ b.guid = a.guid
        /\ b.path = a.path /\ b.lid = lid /\ b.lmc = Lmc[e]
    BY <2>1, <2>2 DEF Args
  <2>4. LidIn(db, b) = Lid[e]
    BY <2>1, <2>3 DEF LidIn
  <2> QED
    BY <1>1, <2>1, <2>3, <2>4 DEF Told, Plain
<1>2. CASE ~(lid # 0 /\ a.lid \in {None, lid})
  BY <1>2 DEF AboutPort
<1> QED
  BY <1>1, <1>2

(* get_port_pinf keeps the database right and stores the PortInfo.         *)
LEMMA PortInfoKeeps ==
  ASSUME NEW db, NEW L, DbInv(db, L), NEW w, w[2] \in 0..MaxPort, NEW e \in EndPlace,
         e = ToEndPlace(w), e[1] = w[1],
         NEW a, Told(db, a, e), Plain(a), NEW lid \in {0, Lid[e]}, NEW b, b = AboutPort(w, lid, a),
         Findable(db, L, e, PortType(w[2]), At2(b, w[2])),
         NEW np, np = get_port_pinf(db, w, w[2], lid, a)
  PROVE  PortGot(db, L, w, e, b, db.pinf \cup {np.port}, np)
<1>1. Told(db, b, e) /\ Plain(b)
  BY AboutPortIs
<1> PICK np1 : np1 = get_port(db, w[2], b)
  OBVIOUS
<1>2. PortGot(db, L, w, e, b, db.pinf, np1)
  <2>1. np1 = get_port(db, w[2], b)
    OBVIOUS
  <2> QED
    BY <1>1, <2>1, GetPortKeeps
<1> PICK r : r = PinfStored(np1.db, np1.port)
  OBVIOUS
<1>3. np.db = r /\ np.node = np1.node /\ np.port = np1.port
  <2>1. np = WithPinf(np1)
    BY DEF get_port_pinf
  <2>2. DOMAIN np1 = {"db", "node", "port"}
    BY DEF get_port, LinkedAgain, Indexed
  <2> QED
    BY <2>1, <2>2 DEF WithPinf
<1>4. DbInv(np1.db, L) /\ np1.port \in PortObj /\ np1.db.pinf = db.pinf
  BY <1>2 DEF PortGot
<1>5. /\ DbInv(r, L) /\ SameIndexes(np1.db, r) /\ r.swinf = np1.db.swinf /\ r.topology = np1.db.topology
      /\ r.loaded = np1.db.loaded /\ r.path = np1.db.path /\ r.paths = np1.db.paths
      /\ r.pinf = db.pinf \cup {np.port}
  BY <1>3, <1>4, PinfStoredKeeps, SMTT(30)
<1>6. PortGot(db, L, w, e, b, db.pinf \cup {np.port}, np)
  <2>1. /\ r.class = np1.db.class /\ r.ninf = np1.db.ninf /\ r.slot = np1.db.slot /\ r.lid = np1.db.lid
        /\ r.nodes = np1.db.nodes /\ r.ports = np1.db.ports /\ r.lids = np1.db.lids
        /\ r.lidRouted = np1.db.lidRouted
    BY <1>5, Zenon DEF SameIndexes
  <2>2. /\ np1.node = <<e[1], 1>> /\ np1.port \in PortObj /\ Parent(np1.port) = np1.node
        /\ np1.db.class[np1.node] # None
        /\ e[1] \notin L => np1.port = Place1(w)
        /\ np1.db.ninf = db.ninf /\ np1.db.swinf = db.swinf /\ np1.db.nodes = db.nodes
        /\ np1.db.topology = db.topology /\ np1.db.lidRouted = db.lidRouted /\ np1.db.loaded = db.loaded
    BY ONLY <1>2, ZenonT(30) DEF PortGot
  <2>3. /\ \A m \in NodeObj : db.class[m] # None => np1.db.class[m] # None
        /\ \A m \in NodeObj : m # <<e[1], 1>> => np1.db.class[m] = db.class[m]
        /\ \A l \in LIDs : db.lids[l] # None => np1.db.lids[l] # None
        /\ LidIn(db, b) # None => np1.db.lids[Lid[e]] # None
    BY ONLY <1>2, ZenonT(30) DEF PortGot
  <2>4. /\ \A q \in PortObj : Parent(q)[1] \notin L =>
             np1.db.lid[q] = IF q = Place1(e) /\ LidIn(db, b) # None THEN Lid[e] ELSE db.lid[q]
        /\ \A f \in EndPlace : np1.db.ports[f] = db.ports[f]
    BY ONLY <1>2, ZenonT(30) DEF PortGot
  <2>5. /\ b.path = None => np1.db.path = db.path
        /\ b.path # None /\ e[1] \notin L => EpOnly(db.path, b.path, Place1(e), np1.db.path)
        /\ b.path = None => np1.db.paths = db.paths
        /\ e[1] \notin L =>
             np1.db.paths = [db.paths EXCEPT ![Place1(e)] = IF b.path # None /\ ~db.lidRouted THEN b.path ELSE @]
    BY ONLY <1>2, ZenonT(30) DEF PortGot
  <2>6. /\ e[1] \notin L => \A m \in NodeObj, i \in 0..MaxPort :
             np1.db.slot[m][i] = db.slot[m][i] \/
               (m = <<e[1], 1>> /\ i \in {e[2], w[2]} /\ np1.db.slot[m][i] # None)
        /\ np1.db.slot[np1.node][w[2]] = np1.port
    BY ONLY <1>2, ZenonT(30) DEF PortGot
  <2>7. DbInv(np.db, L) /\ np.db.pinf = db.pinf \cup {np.port}
    BY ONLY <1>3, <1>5
  <2>8. /\ np.node = <<e[1], 1>> /\ np.port \in PortObj /\ Parent(np.port) = np.node
        /\ np.db.class[np.node] # None
        /\ e[1] \notin L => np.port = Place1(w)
        /\ np.db.ninf = db.ninf /\ np.db.swinf = db.swinf /\ np.db.nodes = db.nodes
        /\ np.db.topology = db.topology /\ np.db.lidRouted = db.lidRouted /\ np.db.loaded = db.loaded
    BY ONLY <1>3, <1>5, <2>1, <2>2
  <2>9. /\ \A m \in NodeObj : db.class[m] # None => np.db.class[m] # None
        /\ \A m \in NodeObj : m # <<e[1], 1>> => np.db.class[m] = db.class[m]
        /\ \A l \in LIDs : db.lids[l] # None => np.db.lids[l] # None
        /\ LidIn(db, b) # None => np.db.lids[Lid[e]] # None
    BY ONLY <1>3, <2>1, <2>3
  <2>10. /\ \A q \in PortObj : Parent(q)[1] \notin L =>
              np.db.lid[q] = IF q = Place1(e) /\ LidIn(db, b) # None THEN Lid[e] ELSE db.lid[q]
         /\ \A f \in EndPlace : np.db.ports[f] = db.ports[f]
    BY ONLY <1>3, <2>1, <2>4
  <2>11. /\ b.path = None => np.db.path = db.path
         /\ b.path # None /\ e[1] \notin L => EpOnly(db.path, b.path, Place1(e), np.db.path)
         /\ b.path = None => np.db.paths = db.paths
         /\ e[1] \notin L =>
              np.db.paths = [db.paths EXCEPT ![Place1(e)] = IF b.path # None /\ ~db.lidRouted THEN b.path ELSE @]
    BY ONLY <1>3, <1>5, <2>5
  <2>12. /\ e[1] \notin L => \A m \in NodeObj, i \in 0..MaxPort :
              np.db.slot[m][i] = db.slot[m][i] \/
                (m = <<e[1], 1>> /\ i \in {e[2], w[2]} /\ np.db.slot[m][i] # None)
         /\ np.db.slot[np.node][w[2]] = np.port
    BY ONLY <1>3, <2>1, <2>6
  <2> QED
    BY ONLY <2>7, <2>8, <2>9, <2>10, <2>11, <2>12, Zenon DEF PortGot
<1> QED
  BY <1>6
=============================================================================
