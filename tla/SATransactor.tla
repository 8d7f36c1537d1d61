---------------------------- MODULE SATransactor ----------------------------
(***************************************************************************)
(* SATransactor (satransactor.py) over UMAD: the SMPs a program asks for   *)
(* become queries of the SA.  A directed route is first followed link by   *)
(* link through the SA's link records.  The SA (external) answers from its *)
(* tables, and may fail; what a program must get is what the SMP itself    *)
(* would have brought.                                                     *)
(***************************************************************************)
EXTENDS UMAD

CONSTANTS
  Hops,       \* drPath[1:] of each path, <<>> for one that is not directed
  DLID,       \* path.DLID
  drDLID,     \* of an IBDRPath; None for a path that is not one
  SAPath,     \* the path SATransactor was given
  PortSAPath, \* end_port.sa_path
  LocalLid,   \* end_port.lid
  Permissive, \* LID_PERMISSIVE
  Noted,      \* the paths whose node type discovery has put in them (discovery.py:125)
  Switches,   \* the LIDs of switches
  Link,       \* <<LID, port>> -> <<LID, port>> across each cable
  Recorded,   \* <<attribute, LID, components>>: the blocks of tables that are programmed
  Gets        \* the calls SubnGet(payload, path, attributeModifier)

VARIABLES
  get,      \* the SubnGet being served
  lid, hop, \* start_lid, and the next link of drPath to follow from it
  resolved, \* path._cached_resolved_dlid
  nodeType, \* path._cached_node_type
  result    \* what the latest SubnGet gave

satVars == <<get, lid, hop, resolved, nodeType, result>>
vars == <<umadVars, satVars>>

-----------------------------------------------------------------------------
(* The fabric and the SA's records of it (external).                       *)

TypeOf(l) == IF l \in Switches THEN "Switch" ELSE "CA"
Ports(l) == {w[2] : w \in {v \in DOMAIN Link : v[1] = l}} \cup (IF l \in Switches THEN {0} ELSE {})

\* The port an SMP to this LID is about when it names none: switch port 0, or the only one.
This(l) == IF 0 \in Ports(l) THEN 0 ELSE CHOOSE n \in Ports(l) : TRUE

\* n bits of an attribute modifier, from bit lo on.
Bits(m, lo, n) == (m \div 2^lo) % 2^n

\* What an SMP's modifier names (external): a port, a block, a position.
Components(attribute, m) ==
  CASE attribute = "PKeyTable" -> <<Bits(m, 16, 16), Bits(m, 0, 16)>>
    [] attribute = "VLArbitrationTable" -> <<Bits(m, 0, 16), Bits(m, 16, 16)>>
    [] attribute = "SLToVLMappingTable" -> <<Bits(m, 0, 8), Bits(m, 8, 8)>>
    [] attribute = "MulticastForwardingTable" -> <<Bits(m, 28, 4), Bits(m, 0, 9)>>
    [] attribute \in {"NodeInfo", "NodeDescription", "SMInfo", "SwitchInfo"} -> 0
    [] OTHER -> m

\* The tables each port of a switch has.  A node that is no switch has them of the port
\* an SMP arrives at, whatever port the SMP names.
PortTables == {"PKeyTable", "SLToVLMappingTable", "VLArbitrationTable"}
Own(attribute, l, named) == <<This(l), IF attribute = "SLToVLMappingTable" THEN 0 ELSE named[2]>>

\* A request, and what it brings: the record of an attribute of a LID.
Record(of, l, n) == <<of, l, n>>
Zero == Record("zero", 0, 0)

MAD(kind, value) == [kind |-> kind, value |-> value]
NoRecords == MAD("no records", Zero)
Busted == MAD("busted", Zero)  \* a wrong size, a plain status, another class code

\* The attributes an SANodeRecord has.
NodeRecord == {"NodeInfo", "NodeDescription"}

\* Several records in answer to SubnAdmGet are an error (TOO_MANY_RECORDS).
Only(records) ==
  CASE records = {} -> NoRecords
    [] \E s \in records : records = {s} -> MAD("record", CHOOSE s \in records : TRUE)
    [] OTHER -> Busted

PKeyBlocks(l, block) == {s \in Recorded : s[1] = "PKeyTable" /\ s[2] = l /\ s[3][2] = block}

Lookup(r) ==
  LET of == r[1]
      l == r[2]
      n == r[3]
      If(has, value) == IF has THEN MAD("record", value) ELSE NoRecords
  IN CASE of = "LinkRecord" -> If(<<l, n>> \in DOMAIN Link, Record(of, Link[<<l, n>>][1], Link[<<l, n>>][2]))
       [] of \in NodeRecord -> MAD("record", r)
       [] of = "PortInfoTable" -> MAD("table", {Record("PortInfo", l, port) : port \in Ports(l)})
       [] of = "PortInfo" -> If(n \in Ports(l), r)
       [] of = "PKeyTableOfAnyPort" -> Only(PKeyBlocks(l, n))
       [] OTHER -> If(r \in Recorded, r)

SAAnswers(r) == {Lookup(r), Busted}

\* An RMPP reply of several records outgrows the first buffer.
SASize(reply) ==
  IF reply # None /\ reply.kind = "table" /\ Cardinality(reply.value) > 1 THEN 3 ELSE 1

-----------------------------------------------------------------------------

IsDirected(p) == drDLID[p] # None
StartLid(p) == IF DLID[p] = Permissive THEN LocalLid ELSE DLID[p]

\* prepare_path_lid has links to follow: LID paths and resolved ones have none.
Unresolved(p) ==
  IsDirected(p) /\ drDLID[p] = Permissive /\ resolved[p] = None /\ Hops[p] # <<>>

\* The LID get_path_lid has without asking.
KnownLid(p) ==
  CASE ~IsDirected(p) -> DLID[p]
    [] IsDirected(p) /\ drDLID[p] # Permissive -> drDLID[p]
    [] OTHER -> IF resolved[p] # None THEN resolved[p] ELSE StartLid(p)

\* The attributes the SA has records of, and those whose completer comes with _sa_error.
Tolerated == {"LinearForwardingTable", "MulticastForwardingTable", "PKeyTable",
              "SLToVLMappingTable", "VLArbitrationTable"}
SAAttributes == Tolerated \cup NodeRecord \cup {"GUIDInfo", "PortInfo", "SMInfo", "SwitchInfo"}

\* SubnGet's query of LID l, by the node type kept in the path: port 0 of an SMP is
\* "this port", which the SA does not have; a CA's PKeyTable is asked for without a port.
Query(g, l, type) ==
  CASE g.attribute = "PortInfo" /\ g.modifier = 0 /\ type # "Switch" ->
         Record("PortInfoTable", l, 0)
    [] g.attribute = "PKeyTable" /\ type \notin {None, "Switch"} ->
         Record("PKeyTableOfAnyPort", l, Bits(g.modifier, 0, 16))
    [] g.attribute = "MulticastForwardingTable" ->
         Record(g.attribute, l, <<Bits(g.modifier, 12, 4), Bits(g.modifier, 0, 9)>>)
    [] OTHER -> Record(g.attribute, l, Components(g.attribute, g.modifier))

Queried(g) == Query(g, lid, nodeType[g.path])

\* _finish_port_info_attr0: the record of port 0, or the first of them.
_finish_port_info_attr0(records) ==
  CASE records = {} -> Raised
    [] \E r \in records : r[3] = 0 -> CHOOSE r \in records : r[3] = 0
    [] OTHER -> CHOOSE r \in records : TRUE

_sa_error(g, reply) ==
  IF reply = NoRecords /\ g.attribute \in Tolerated THEN Zero ELSE Raised

\* _completeMAD with the completer of g: the payload, or Raised.
Completed(g, reply) ==
  CASE reply \in {NoReply, Raised} -> Raised
    [] reply \notin {NoReply, Raised} ->
         CASE reply.kind = "record" -> reply.value
           [] reply.kind = "table" -> _finish_port_info_attr0(reply.value)
           [] OTHER -> _sa_error(g, reply)

-----------------------------------------------------------------------------

Following == get # None /\ hop <= Len(Hops[get.path])

\* The LIDs a path goes through, from its start.
Route(p) ==
  LET lids[i \in 0..Len(Hops[p])] ==
        IF i = 0 THEN StartLid(p) ELSE Link[<<lids[i - 1], Hops[p][i]>>][1]
  IN lids

\* Where it ends: what an SMP sent there reaches.
LeadsTo(p) ==
  IF IsDirected(p) /\ drDLID[p] # Permissive THEN drDLID[p] ELSE Route(p)[Len(Hops[p])]

\* The LIDs a query may be about.
Lids ==
  ({LocalLid} \cup {DLID[p] : p \in Path} \cup {drDLID[p] : p \in Path} \cup {w[1] : w \in DOMAIN Link})
    \ {Permissive, None}

\* The LID of a path that is not directed is assigned; cables have two ends, and
\* a LID that is no switch's is that of one port, and its tables are recorded under
\* it; the SA answers from its tables; every query is a request.
ASSUME SAAssumption ==
  /\ Lids \subseteq Nat /\ LocalLid \in Lids /\ None \notin {"CA", "Switch"}
  /\ Hops \in [Path -> Seq(Nat)]
  /\ \A p \in Path : DLID[p] # None /\ (~IsDirected(p) => DLID[p] # Permissive /\ Hops[p] = <<>>)
  /\ \A w \in DOMAIN Link : w = <<w[1], w[2]>> /\ w[1] \in Lids /\ Link[w] \in DOMAIN Link
  /\ \A v, w \in DOMAIN Link : v[1] = w[1] /\ v[1] \notin Switches => v = w
  /\ \A r \in Recorded : r[1] \in PortTables /\ r[2] \notin Switches =>
       r = Record(r[1], r[2], Own(r[1], r[2], r[3]))
  /\ {SAPath, PortSAPath} \subseteq Path
  /\ Gets \subseteq [attribute : STRING \ {"LinkRecord", "PortInfoTable", "PKeyTableOfAnyPort"},
                    path : Path, modifier : Nat]
  /\ ErrorMAD = Busted /\ \A r \in Request : Answers[r] \subseteq SAAnswers(r)
  /\ \A l \in Lids, p \in Path : \A i \in DOMAIN Hops[p] : Record("LinkRecord", l, Hops[p][i]) \in Request
  /\ \A l \in Lids, g \in Gets, type \in {"CA", "Switch", None} : Query(g, l, type) \in Request
  /\ \A g \in Gets : g.attribute \notin SAAttributes =>
       Record(g.attribute, LeadsTo(g.path), g.modifier) \in Request

SAInit ==
  /\ Init
  /\ get = None
  /\ lid = 0 /\ hop = 1
  /\ resolved = [p \in Path |-> None]
  /\ nodeType = [p \in Path |-> IF p \in Noted THEN TypeOf(LeadsTo(p)) ELSE None]
  /\ result = None

\* SubnGet up to its first request, or get_path_lid's answer.
SubnGet(g) ==
  /\ pc = "idle" /\ get = None
  /\ current + Len(Hops[g.path]) < MaxCalls
  /\ get' = g
  /\ result' = None
  /\ IF g.attribute \in SAAttributes /\ Unresolved(g.path)
     THEN lid' = StartLid(g.path) /\ hop' = 1
     ELSE lid' = KnownLid(g.path) /\ hop' = Len(Hops[g.path]) + 1
  /\ resolved' = IF g.attribute \in SAAttributes /\ IsDirected(g.path)
                    /\ drDLID[g.path] = Permissive /\ Hops[g.path] = <<>>
                 THEN [resolved EXCEPT ![g.path] = StartLid(g.path)] ELSE resolved
  /\ UNCHANGED <<umadVars, nodeType>>

FollowLink ==
  /\ Following
  /\ _execute(Record("LinkRecord", lid, Hops[get.path][hop]), PortSAPath)
  /\ UNCHANGED satVars

QuerySA ==
  /\ get # None /\ ~Following
  /\ IF get.attribute \in SAAttributes
     THEN _execute(Queried(get), SAPath)
     ELSE _execute(Record(get.attribute, LeadsTo(get.path), get.modifier), get.path)
  /\ UNCHANGED satVars

Finish(value) ==
  /\ get' = None
  /\ lid' = 0 /\ hop' = 1
  /\ result' = [get |-> get, value |-> value]

\* prepare_path_lid resumes with the link record, or is broken off.
LinkFollowed ==
  /\ Following /\ Returned
  /\ LET link == Completed([get EXCEPT !.attribute = "LinkRecord"], got)
         last == hop = Len(Hops[get.path])
     IN IF link = Raised
        THEN Finish(Raised) /\ UNCHANGED resolved
        ELSE /\ lid' = link[2]
             /\ hop' = hop + 1
             /\ resolved' = IF last THEN [resolved EXCEPT ![get.path] = link[2]] ELSE resolved
             /\ UNCHANGED <<get, result>>
  /\ UNCHANGED nodeType

\* The completers of a node record note the type in the path the query took, the SA's.
QueryAnswered ==
  /\ get # None /\ ~Following /\ Returned
  /\ LET value == Completed(get, got)
     IN /\ Finish(value)
        /\ nodeType' = IF get.attribute \in NodeRecord /\ value # Raised
                       THEN [nodeType EXCEPT ![SAPath] = TypeOf(value[2])] ELSE nodeType
  /\ UNCHANGED resolved

Program ==
  \/ FollowLink \/ QuerySA \/ LinkFollowed \/ QueryAnswered
  \/ UMADStep /\ UNCHANGED satVars

SANext ==
  \/ \E g \in Gets : SubnGet(g)
  \/ Program
  \/ KernelStep /\ UNCHANGED satVars

SASpec == SAInit /\ [][SANext]_vars

\* The program runs, and so do the clock and the kernel's timers; no reply need come.
FairSASpec ==
  /\ SASpec
  /\ WF_vars(Program)
  /\ WF_vars(Clock /\ UNCHANGED satVars)

-----------------------------------------------------------------------------

\* Type correctness, UMAD's included.
TypeOK ==
  /\ UMADTypeOK
  /\ get \in Gets \cup {None}
  /\ lid \in Nat /\ hop \in Nat \ {0}
  /\ resolved \in [Path -> Nat \cup {None}]
  /\ nodeType \in [Path -> {"CA", "Switch", None}]
  /\ result = None \/ result.get \in Gets

\* A block that nobody programmed is zero in the node.
Brought(attribute, l, named) ==
  LET r == Record(attribute, l, named)
  IN IF attribute \in Tolerated /\ r \notin Recorded THEN Zero ELSE r

Named(g) == Components(g.attribute, g.modifier)

\* What the SMP would have brought.
Direct(g) ==
  LET l == LeadsTo(g.path)
  IN Brought(g.attribute, l,
       CASE g.attribute = "PortInfo" /\ g.modifier = 0 -> This(l)
         [] g.attribute \in PortTables /\ l \notin Switches -> Own(g.attribute, l, Named(g))
         [] OTHER -> Named(g))

\* The query takes the position from bit 12 on, where no caller puts it
\* (satransactor.py:146; subnet.py:243 shifts it by 28).
OtherPosition(g) ==
  g.attribute = "MulticastForwardingTable" /\ Bits(g.modifier, 12, 4) # Bits(g.modifier, 28, 4)

\* A port's table is asked for at a node that is no switch, under a port that is not its
\* own: only with the node type known is the port of a PKeyTable left out (167-169).
OtherPort(g, type) ==
  LET l == LeadsTo(g.path)
  IN /\ g.attribute \in PortTables /\ l \notin Switches
     /\ Named(g) # Own(g.attribute, l, Named(g))
     /\ g.attribute = "PKeyTable" => type # "CA"

\* The SA's path, which leads to a switch, holds the type of the CA last asked about (113, 116).
TypeMistaken(g, type) ==
  /\ g.attribute = "PKeyTable" /\ g.path = SAPath
  /\ LeadsTo(SAPath) \in Switches /\ type = "CA"

\* What a get gives, should it not raise, with the node type kept in its path: what the SMP would have brought, except
\*  - with OtherPosition, the block of the position the query names;
\*  - with OtherPort, the zero table _sa_error makes of NO_RECORDS, whatever the node's is;
\*  - with TypeMistaken, the block of whichever port has one in the records, or zero.
Gives(g, type) ==
  LET l == LeadsTo(g.path)
  IN CASE OtherPosition(g) ->
            {Brought(g.attribute, l, <<Bits(g.modifier, 12, 4), Bits(g.modifier, 0, 9)>>)}
       [] OtherPort(g, type) -> {Zero}
       [] TypeMistaken(g, type) -> {Zero} \cup PKeyBlocks(l, Bits(g.modifier, 0, 16))
       [] OTHER -> {Direct(g)}

\* SubnGet through the SA is SubnGet (satransactor.py:9-11) but for the three cases of
\* Gives: whatever is lost, late, retried or remembered, the value is of the node the
\* path leads to, and of the port, block and position the SMP would have been about.
AsDirect ==
  result # None => LET g == result.get
                   IN result.value \in Gives(g, nodeType[g.path]) \cup {Raised}

\* _execute always ends, and so does a SubnGet of several requests: each wait is
\* bounded by the path's timeout, however the clock and the notices fall.
GetsEnd == (get # None) ~> (get = None)
=============================================================================
