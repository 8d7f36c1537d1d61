------------------------------- MODULE Subnet -------------------------------
(***************************************************************************)
(* The subnet database of rdma/subnet.py, and the fabric it describes.     *)
(*                                                                         *)
(* A database is one record; the methods of class Subnet are operators     *)
(* from a database to a database, with the node and port they return.      *)
(* The fabric is constant: what a reply says follows from the place the    *)
(* request reached.                                                        *)
(*                                                                         *)
(* GUIDs are named by what they identify: a nodeGUID is its device, a      *)
(* portGUID the end port, a place <<device, port>>.                        *)
(***************************************************************************)
EXTENDS Integers, SequencesExt

CONSTANTS
  Device,      \* the devices of the fabric
  Kind,        \* "Switch", "CA" or "Router"
  NumPorts,    \* ninf.numPorts
  Link,        \* the cables: place -> place, both directions
  Lid,         \* end port -> base LID, 0 when the SM assigned none
  Lmc,         \* end port -> LMC
  Local,       \* the place of sched.end_port
  MaxCopies,   \* bound: Node objects made for one device
  None         \* Python's None

MaxPort == Max({NumPorts[d] : d \in Device})
IsSwitch(d) == Kind[d] = "Switch"
Place == UNION {{d} \X (0..NumPorts[d]) : d \in Device}
ToEndPlace(w) == IF IsSwitch(w[1]) THEN <<w[1], 0>> ELSE w
EndPlace == {w \in Place : w = ToEndPlace(w) /\ (IsSwitch(w[1]) \/ w[2] # 0)}
LidRange(lid, lmc) == LET base == lid - (lid % 2^lmc) IN base..(base + 2^lmc - 1)
LIDs == 1..Max({1} \cup UNION {LidRange(Lid[e], Lmc[e]) : e \in EndPlace})

(* The fabric, and the LIDs the SM gave: a range per end port, its own.    *)
ASSUME FabricAssumption ==
  /\ IsFiniteSet(Device) /\ MaxCopies \in Nat \ {0}
  /\ Kind \in [Device -> {"Switch", "CA", "Router"}] /\ NumPorts \in [Device -> Nat]
  /\ \A w \in DOMAIN Link : w \in Place /\ Link[w] \in DOMAIN Link /\ Link[Link[w]] = w
  /\ \A w \in DOMAIN Link : w[2] # 0 /\ Link[w] # w
  /\ Local \in EndPlace
ASSUME LidAssumption ==
  /\ Lid \in [EndPlace -> Nat] /\ Lmc \in [EndPlace -> Nat]
  /\ \A e \in EndPlace : Lid[e] # 0 =>
       Lid[e] \in LidRange(Lid[e], Lmc[e]) /\ LidRange(Lid[e], Lmc[e]) \subseteq LIDs
  /\ \A e, f \in EndPlace : e # f /\ Lid[e] # 0 /\ Lid[f] # 0 =>
       LidRange(Lid[e], Lmc[e]) \cap LidRange(Lid[f], Lmc[f]) = {}

(* A Node object is the k-th one made for its device, a Port object the one *)
(* made for an index of its node, or Loose: made before any index is known. *)
NodeObj == Device \X (1..MaxCopies)
Loose == MaxPort + 1
PortObj == NodeObj \X (0..Loose)
Parent(p) == p[1]
PlaceOf(p) == <<p[1][1], p[2]>>

-----------------------------------------------------------------------------
(* Paths.  They are objects that are changed in place, so the database     *)
(* record has a heap of them: named by the port they were advanced from.   *)
Start == <<"start">>
PathObj == PortObj \cup {Start}
Path == [dr : BOOLEAN, dlid : Int \cup {None}, hops : Seq(Nat), ep : PortObj \cup {None}]
ASSUME NoneAssumption ==
  /\ None \notin Device \cup Place \cup NodeObj \cup PathObj \cup Nat \cup {"Node", "Switch", "CA", "Router"}
  /\ None \notin Path
Permissive == -1
LIDPath(lid) == [dr |-> FALSE, dlid |-> lid, hops |-> <<>>, ep |-> None]
DRPath(dlid, hops) == [dr |-> TRUE, dlid |-> dlid, hops |-> hops, ep |-> None]

(* The place a packet sent on a path reaches.                              *)
Cross(w, hop) == IF w # None /\ <<w[1], hop>> \in DOMAIN Link THEN Link[<<w[1], hop>>] ELSE None
PlaceAtLid(lid) ==
  IF \E e \in EndPlace : Lid[e] # 0 /\ lid \in LidRange(Lid[e], Lmc[e])
  THEN CHOOSE e \in EndPlace : Lid[e] # 0 /\ lid \in LidRange(Lid[e], Lmc[e])
  ELSE None
Walk(w, hops) ==
  LET at[n \in 0..Len(hops)] == IF n = 0 THEN w ELSE Cross(at[n - 1], hops[n]) IN at
LeadsTo(path) ==
  Walk(IF path.dlid = Permissive THEN Local ELSE PlaceAtLid(path.dlid), path.hops)[Len(path.hops)]

-----------------------------------------------------------------------------
(* The database.  A node's ports list is a slot per index, None where the  *)
(* list has None or is too short.                                          *)
EmptyDb ==
  [class |-> [n \in NodeObj |-> None], ninf |-> {}, swinf |-> {},
   slot |-> [n \in NodeObj |-> [i \in 0..MaxPort |-> None]],
   guid |-> [p \in PortObj |-> None], lid |-> [p \in PortObj |-> None], pinf |-> {},
   nodes |-> [d \in Device |-> None], ports |-> [e \in EndPlace |-> None],
   lids |-> [l \in LIDs |-> None], topology |-> [p \in PortObj |-> None],
   path |-> [h \in PathObj |-> None], paths |-> [p \in PortObj |-> None],
   lidRouted |-> TRUE, loaded |-> {}]

AllNodes(db) == {n \in NodeObj : db.class[n] # None}
IsSwitchNode(db, n) == db.class[n] = "Switch"
SlotsUsed(db, n) == {i \in 0..MaxPort : db.slot[n][i] # None}
EndIndex(db, n, i) == IF IsSwitchNode(db, n) THEN 0 ELSE i

(* Node.get_port: the port of an index, made on demand.                    *)
PortAt(db, n, i) == IF db.slot[n][i] # None THEN db.slot[n][i] ELSE <<n, i>>
WithPort(db, n, i) == [db EXCEPT !.slot[n][i] = PortAt(db, n, i)]

(* What a caller knows about an end port, and whose reply told it.         *)
Known(d) == [about |-> d, idx |-> None, node |-> None, guid |-> None, path |-> None,
             lid |-> None, lmc |-> 0]

(* The LID to go by: the one given, else where a LID routed path goes.     *)
LidIn(db, a) ==
  IF a.lid = None /\ a.path # None /\ ~db.path[a.path].dr THEN db.path[a.path].dlid ELSE a.lid

(* Store what is known of the end port p.                                  *)
LinkLids_Mutant(lids, lid, lmc, p) ==
  [l \in DOMAIN lids |-> IF lid # None /\ l \in lid..(lid + 2^lmc) THEN p ELSE lids[l]]
LinkLids(lids, lid, lmc, p) ==
  [l \in DOMAIN lids |-> IF lid # None /\ l \in LidRange(lid, lmc) THEN p ELSE lids[l]]
Put(f, key, v) == IF key = None THEN f ELSE [f EXCEPT ![key] = v]

link_end_port(db, p, a) ==
  LET lid == LidIn(db, a)
      guid == IF db.guid[p] = None THEN a.guid ELSE None
  IN [db EXCEPT
       !.slot[Parent(p)] = Put(@, a.idx, p),
       !.guid[p] = IF guid # None THEN guid ELSE @,
       !.ports = Put(@, guid, p),
       !.lid[p] = IF lid # None THEN lid ELSE @,
       !.lids = LinkLids(@, lid, a.lmc, p),
       !.path = IF a.path # None THEN [@ EXCEPT ![a.path].ep = p] ELSE @,
       !.paths[p] = IF a.path # None /\ ~db.lidRouted THEN a.path ELSE @]

(* The end port these facts belong to, by decreasing accuracy: the path's  *)
(* cached port, the port GUID, the node GUID with an index, the LID.       *)
search_end_port_Mutant(db, a) ==
  LET cached == IF a.path = None THEN None ELSE db.path[a.path].ep
      named == IF a.guid = None THEN None ELSE db.ports[a.guid]
      lid == LidIn(db, a)
  IN CASE cached # None -> cached
       [] cached = None /\ named # None -> named
       [] OTHER -> IF lid # None /\ lid \in LIDs THEN db.lids[lid] ELSE None
search_end_port(db, a) ==
  LET cached == IF a.path = None THEN None ELSE db.path[a.path].ep
      named == IF a.guid = None THEN None ELSE db.ports[a.guid]
      node == IF a.node = None THEN None ELSE db.nodes[a.node]
      lid == LidIn(db, a)
  IN CASE cached # None -> cached
       [] cached = None /\ named # None -> named
       [] cached = None /\ named = None /\ node # None
            /\ (IsSwitchNode(db, node) \/ a.idx # None) ->
              PortAt(db, node, EndIndex(db, node, a.idx))
       [] OTHER -> IF lid # None /\ lid \in LIDs THEN db.lids[lid] ELSE None

(* A node made before its type was known turns out to be a switch: what    *)
(* was recorded of its ports belongs to port 0.  Fails when it has no      *)
(* ports list, or no port has a LID to start from.                         *)
FixupFails(db, n) ==
  \/ SlotsUsed(db, n) = {}
  \/ SlotsUsed(db, n) # {0} /\ \A i \in SlotsUsed(db, n) : db.lid[db.slot[n][i]] = None

_fixup_change_to_switch(db, n) ==
  LET used == SlotsUsed(db, n)
      zport == PortAt(db, n, 0)
      old == {db.slot[n][i] : i \in used}
      named == {p \in old : db.guid[p] # None}
      given == named \ {zport}  \* one that port 0 had itself is cleared
      lid == db.lid[db.slot[n][Max({i \in used : db.lid[db.slot[n][i]] # None})]]
      Own(l) == db.lids[l] = None \/ Parent(db.lids[l]) = n
  IN IF used = {0} THEN db
     ELSE [WithPort(db, n, 0) EXCEPT
            !.ports = [e \in DOMAIN @ |-> IF \E p \in named : db.guid[p] = e THEN zport ELSE @[e]],
            !.guid = [p \in PortObj |->
                        IF p = zport /\ given # {} THEN db.guid[CHOOSE q \in given : TRUE]
                        ELSE IF p \in old THEN None ELSE @[p]],
            !.lid = [p \in PortObj |-> IF p \in old THEN None ELSE @[p]],
            !.lids = [l \in DOMAIN @ |-> IF l >= lid /\ @[l] # None /\ \A m \in lid..l : Own(m)
                                         THEN zport ELSE @[l]]]

(* get_node: the end port found or made, its node typed, the facts stored. *)
(* Fails when a node of another type is there already.                     *)
NewNode(db, d) == <<d, 1 + Cardinality({n \in AllNodes(db) : n[1] = d})>>
Retypes(db, n, type) == db.class[n] = "Node" /\ type # "Node"
NodeFails(db, type, a) ==
  LET found == search_end_port(db, a)
      n == Parent(found)
  IN found # None /\ (\/ Retypes(db, n, type) /\ type = "Switch" /\ FixupFails(db, n)
                      \/ type # "Node" /\ db.class[n] \notin {"Node", type})

Typed(db, type, n, found) ==
  LET typed == [db EXCEPT !.class[n] = type]
  IN CASE found = None -> typed
       [] found # None /\ Retypes(db, n, type) ->
            IF type = "Switch" THEN _fixup_change_to_switch(typed, n) ELSE typed
       [] OTHER -> db
Attached(db, n, p, a) == [db |-> link_end_port(db, p, a), node |-> n, port |-> p]
Attach(db, n, found, a) ==
  CASE IsSwitchNode(db, n) -> Attached(db, n, PortAt(db, n, 0), [a EXCEPT !.idx = 0])
    [] ~IsSwitchNode(db, n) /\ found # None -> Attached(db, n, found, a)
    [] OTHER -> Attached(db, n, <<n, IF a.idx = None THEN Loose ELSE a.idx>>, a)
OnFound(db, type, a, found) ==
  LET n == IF found = None THEN NewNode(db, a.about) ELSE Parent(found)
  IN Attach(Typed(db, type, n, found), n, found, a)
get_node(db, type, a) == OnFound(db, type, a, search_end_port(db, a))

-----------------------------------------------------------------------------
(* Storing what a reply said.                                              *)

(* A NodeInfo, from the place the request reached.                         *)
AboutNode(w, a) ==
  [a EXCEPT !.idx = ToEndPlace(w)[2], !.node = w[1], !.guid = ToEndPlace(w)]
NinfFails(db, w, a) == NodeFails(db, Kind[w[1]], AboutNode(w, a))
NinfStored(db, d, n) == [db EXCEPT !.nodes[d] = n, !.ninf = @ \cup {n}]
WithNinf(np, d) == [np EXCEPT !.db = NinfStored(@, d, np.node)]
get_node_ninf(db, w, a) == WithNinf(get_node(db, Kind[w[1]], AboutNode(w, a)), w[1])

(* get_port, for a caller that knows the index.                            *)
PortType(idx) == IF idx = 0 THEN "Switch" ELSE "Node"
Indexed(db, n, idx) == [db |-> WithPort(db, n, idx), node |-> n, port |-> PortAt(db, n, idx)]
LinkedAgain(np, idx, a) == Indexed(link_end_port(np.db, np.port, a), np.node, idx)
get_port(db, idx, a) ==
  LinkedAgain(get_node(db, PortType(idx), [a EXCEPT !.idx = idx]), idx, a)

(* A PortInfo.  Its LID is used when it has one, and the one given is the  *)
(* same or not given.                                                      *)
AboutPort_Mutant(w, lid, a) ==
  IF a.lid \in {None, lid} THEN [a EXCEPT !.lid = lid, !.lmc = Lmc[ToEndPlace(w)]] ELSE a
AboutPort(w, lid, a) ==
  IF lid # 0 /\ a.lid \in {None, lid} THEN [a EXCEPT !.lid = lid, !.lmc = Lmc[ToEndPlace(w)]] ELSE a
PinfFails(db, w, idx, lid, a) ==
  NodeFails(db, PortType(idx), [AboutPort(w, lid, a) EXCEPT !.idx = idx])
PinfStored(db, p) == [db EXCEPT !.pinf = @ \cup {p}]
WithPinf(np) == [np EXCEPT !.db = PinfStored(@, np.port)]
get_port_pinf(db, w, idx, lid, a) == WithPinf(get_port(db, idx, AboutPort(w, lid, a)))

-----------------------------------------------------------------------------
(* Routes.                                                                 *)

HasPath(db, p) == ~db.lidRouted /\ db.paths[p] # None
NoRoute(db, p) == ~HasPath(db, p) /\ db.lid[p] \in {None, 0}
get_path_smp(db, p) ==
  IF HasPath(db, p) THEN db.path[db.paths[p]] ELSE [LIDPath(db.lid[p]) EXCEPT !.ep = p]

(* The same path as an object: the cached one, else a new one, now cached. *)
PathName(db, p) == IF HasPath(db, p) THEN db.paths[p] ELSE p
WithPath(db, p) ==
  IF HasPath(db, p) THEN db
  ELSE [db EXCEPT !.path[p] = get_path_smp(db, p), !.paths[p] = IF db.lidRouted THEN @ ELSE p]

(* The DR path out of port idx of the device at the end of a path.  From a *)
(* CA a packet can only go back the way it came, or, when the topology     *)
(* knows the peer, take the peer's own path.                               *)
advance_dr(db, path, idx) ==
  LET local == ~path.dr /\ path.dlid = Lid[Local] /\ path.dlid # 0
      on == DRPath(path.dlid, Append(path.hops, idx))
      back == path.ep # None /\ ~IsSwitchNode(db, Parent(path.ep))
      peer == db.topology[PortAt(db, Parent(path.ep), idx)]
  IN CASE local -> DRPath(Permissive, <<idx>>)
       [] ~local /\ back /\ path.hops # <<>> /\ path.ep[2] = idx ->
            DRPath(path.dlid, Front(path.hops))
       [] ~local /\ back /\ ~(path.hops # <<>> /\ path.ep[2] = idx) /\ peer # None ->
            get_path_smp(db, PortAt(db, Parent(peer), EndIndex(db, Parent(peer), peer[2])))
       [] OTHER -> on
=============================================================================
