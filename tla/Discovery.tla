------------------------------ MODULE Discovery ------------------------------
(***************************************************************************)
(* rdma/discovery.py: filling a subnet database, load(), from the SA's     *)
(* tables or by a topology scan with SMPs (_SubnetTopo).                   *)
(*                                                                         *)
(* The scan is a set of coroutines on the scheduler of MADSchedule, seen   *)
(* here through what they rely on: a generator given to mqueue() starts at *)
(* once, spawns what it yields, and takes its next turn from the           *)
(* scheduler's queue, last in first out, while the window has room; a      *)
(* context yielded is waited for unless it is exhausted already, and then  *)
(* until its children have finished too; MADs are answered in any order or *)
(* time out, and nothing here catches that, so the run ends with the       *)
(* exception.  Descriptions are not asked for (get_desc False).            *)
(***************************************************************************)
EXTENDS Subnet

CONSTANTS
  Shy,         \* switches that report LID 0 on external ports
  Late,        \* devices the SA learns of after it answered for NodeInfo
  Sorted,      \* bound: devices whose records come in port order
  Items,       \* what load() is asked for
  Routings,    \* values of sbn.lid_routed
  Window,      \* max_outstanding
  MaxDepth,    \* bound: depth of the scan
  MaxTodo,     \* bound: do_todo generators per depth
  MaxHops      \* length a DR path may have

Depth == 0..MaxDepth
Ctx == Depth \X (1..MaxTodo)
LoadItems == {"all_LIDs", "all_NodeInfo", "all_PortInfo", "all_SwitchInfo", "all_topology"}
ASSUME DiscoveryAssumption ==
  /\ \A S \in Items : S # {} /\ S \subseteq LoadItems
  /\ Routings \subseteq BOOLEAN
  /\ Window \in Nat \ {0} /\ MaxDepth \in Nat /\ MaxTodo \in Nat /\ None \notin Ctx
  /\ \A d \in Shy : IsSwitch(d)

VARIABLES
  sbn,       \* the database
  pc,        \* of load(): "idle", "sa", "sa2", "scan", "swinf" or "pinf"
  how,       \* how the last load() ended
  useSA,     \* the transactor is an SATransactor
  stuff,     \* what this load() still has to fetch
  distrust,  \* history: a scan of this database was broken off
  tables,    \* SA queries in flight
  table,     \* the SA reply being stored
  rest,      \* its records to come; or the nodes or ports still to ask
  todo,      \* _SubnetTopo.todo: depth -> _Depth
  ctx,       \* the do_todo generators
  active,    \* the one being stepped
  mqueue,    \* the ones that have the next turns
  jobs,      \* coroutines with an SMP in flight
  switches,  \* done_switches
  reads      \* history: PortInfos asked for, per port, in this scan

loadVars == <<pc, how, useSA, stuff, distrust>>
saVars == <<tables, table, rest>>
turnVars == <<active, mqueue>>
scanVars == <<todo, ctx, turnVars, jobs, switches, reads>>
vars == <<sbn, loadVars, saVars, scanVars>>

EmptyBucket == [nodes |-> <<>>, ports |-> <<>>, running |-> FALSE, ctx |-> None]
NoCtx == [pc |-> "none", on |-> None, old |-> None, node |-> None, path |-> None,
          rem |-> <<>>]
NoScan ==
  /\ todo' = [d \in Depth |-> EmptyBucket] /\ ctx' = [c \in Ctx |-> NoCtx]
  /\ active' = None /\ mqueue' = <<>> /\ jobs' = {} /\ switches' = {}

Init ==
  /\ sbn \in {[EmptyDb EXCEPT !.lidRouted = r] : r \in Routings}
  /\ pc = "idle" /\ how = "none" /\ useSA \in BOOLEAN /\ stuff = {} /\ distrust = FALSE
  /\ tables = {} /\ table = None /\ rest = {}
  /\ todo = [d \in Depth |-> EmptyBucket] /\ ctx = [c \in Ctx |-> NoCtx]
  /\ active = None /\ mqueue = <<>> /\ jobs = {} /\ switches = {}
  /\ reads = [w \in Place |-> 0]

Ends(result) == pc' = "idle" /\ how' = result /\ UNCHANGED <<useSA, stuff>>

-----------------------------------------------------------------------------
(* load().                                                                 *)

(* NodeInfo is needed by the other items.                                  *)
Implied(S) ==
  IF S \cap ({"all_PortInfo", "all_LIDs"} \cup IF useSA THEN {} ELSE {"all_SwitchInfo"}) # {}
  THEN S \cup {"all_NodeInfo"} ELSE S
Wanted(S) == Implied(S) \ sbn.loaded

(* With an SA: fetch_SA, whose queries run in parallel, then fetch_SA2.    *)
FirstTables(S) ==
  (IF "all_SwitchInfo" \in S THEN {"swinf"} ELSE {}) \cup
  (IF S \cap {"all_NodeInfo", "all_SwitchInfo"} # {} THEN {"ninf"} ELSE {})
SecondTables(S) ==
  (IF "all_PortInfo" \in S THEN {"pinf"} ELSE {}) \cup
  (IF "all_LIDs" \in S /\ "all_PortInfo" \notin S THEN {"lids"} ELSE {}) \cup
  (IF "all_topology" \in S THEN {"links"} ELSE {})

LoadSA(S) ==
  /\ pc = "idle" /\ useSA /\ Wanted(S) # {}
  /\ stuff' = Wanted(S)
  /\ pc' = "sa" /\ how' = "none"
  /\ tables' = FirstTables(Wanted(S)) /\ table' = None /\ rest' = {}
  /\ UNCHANGED <<sbn, useSA, distrust, scanVars>>

(* The records of a table.                                                 *)
InTable(e) == Lid[e] # 0 /\ (IsSwitch(e[1]) \/ e \in DOMAIN Link)
PortRecords == {w \in Place : (IsSwitch(w[1]) \/ w[2] # 0) /\ InTable(ToEndPlace(w))}
Records(t) ==
  CASE t = "ninf" -> {e \in EndPlace : InTable(e) /\ e[1] \notin Late}
    [] t = "swinf" -> {e \in EndPlace : InTable(e) /\ IsSwitch(e[1])}
    [] t = "pinf" -> PortRecords
    [] t = "lids" -> {w \in PortRecords : Lmc[ToEndPlace(w)] # 0}
    [] t = "links" -> {w \in DOMAIN Link : InTable(ToEndPlace(w)) /\ InTable(ToEndPlace(Link[w]))}

SAReply(t) ==
  /\ pc \in {"sa", "sa2"} /\ table = None
  /\ t \in tables
  /\ (t \in {"pinf", "lids", "links"} => "all_NodeInfo" \in sbn.loaded)
  /\ tables' = tables \ {t} /\ table' = t /\ rest' = Records(t)
  /\ sbn' = IF t = "links" THEN [sbn EXCEPT !.topology = EmptyDb.topology] ELSE sbn
  /\ UNCHANGED <<loadVars, scanVars>>

(* One record is stored.                                                   *)
ByLid(w) == [Known(w[1]) EXCEPT !.lid = Lid[ToEndPlace(w)]]
PinfLid(w) == IF w[1] \in Shy /\ w[2] # 0 THEN 0 ELSE Lid[ToEndPlace(w)]

EndPort(np, w) == IF IsSwitchNode(np.db, np.node) THEN get_port(np.db, w[2], ByLid(w)) ELSE np
LinkEnd(db, w) == EndPort(get_node(db, "Node", ByLid(w)), w)
LinkPorts_Mutant(db, f, t) == [db EXCEPT !.topology[f] = t]
LinkPorts(db, f, t) == [db EXCEPT !.topology[f] = t, !.topology[t] = f]
JoinTo(t, p) == LinkPorts(t.db, p, t.port)
JoinFrom(f, w) == JoinTo(LinkEnd(f.db, Link[w]), f.port)
Linked(db, w) == JoinFrom(LinkEnd(db, w), w)

Stored(db, w) ==
  CASE table = "ninf" -> get_node_ninf(db, w, ByLid(w)).db
    [] table = "swinf" -> LET np == get_node(db, "Switch", [ByLid(w) EXCEPT !.idx = 0])
                          IN [np.db EXCEPT !.swinf = @ \cup {np.node}]
    [] table = "pinf" -> get_port_pinf(db, w, w[2], PinfLid(w), ByLid(w)).db
    [] table = "links" -> Linked(db, w)

StoreFails(db, w) ==
  CASE table = "ninf" -> NinfFails(db, w, ByLid(w))
    [] table = "swinf" -> NodeFails(db, "Switch", [ByLid(w) EXCEPT !.idx = 0])
    [] table = "pinf" -> NodeFails(db, PortType(w[2]), [ByLid(w) EXCEPT !.idx = w[2]])
    [] table = "lids" -> TRUE  \* the query is stored in place of the record, and has no LID
    [] OTHER -> FALSE

SAStore(w) ==
  /\ table # None /\ w \in rest
  /\ w[1] \in Sorted => \A v \in rest : v[1] = w[1] => w[2] <= v[2]
  /\ ~StoreFails(sbn, w)
  /\ sbn' = Stored(sbn, w)
  /\ rest' = rest \ {w}
  /\ UNCHANGED <<loadVars, tables, table, scanVars>>

(* The table is stored: note what was loaded.                              *)
Loads(t) ==
  CASE t = "ninf" -> IF stuff \cap {"all_NodeInfo"} # {} THEN {"all_NodeInfo"} ELSE {}
    [] t = "swinf" -> {"all_SwitchInfo"}
    [] t = "pinf" -> {"all_PortInfo", "all_LIDs"}
    [] t = "lids" -> {"all_LIDs"}
    [] t = "links" -> {"all_topology"}
SAStored ==
  /\ table # None /\ rest = {}
  /\ sbn' = [sbn EXCEPT !.loaded = @ \cup Loads(table)]
  /\ table' = None
  /\ UNCHANGED <<loadVars, tables, rest, scanVars>>

(* The queries of this run() are done.                                     *)
SANext ==
  /\ pc \in {"sa", "sa2"} /\ table = None /\ tables = {}
  /\ IF pc = "sa" THEN /\ pc' = "sa2" /\ tables' = SecondTables(stuff)
                       /\ UNCHANGED <<how, useSA, stuff>>
                  ELSE Ends("returned") /\ UNCHANGED tables
  /\ UNCHANGED <<sbn, distrust, table, rest, scanVars>>

(* A query times out, or the assertion that NodeInfo was loaded fails.     *)
SARaises ==
  /\ Ends("raised")
  /\ tables' = {} /\ table' = None /\ rest' = {}
  /\ UNCHANGED <<distrust, scanVars>>
SAQueryFails ==
  /\ pc \in {"sa", "sa2"} /\ table = None /\ tables # {}
  /\ SARaises
  /\ UNCHANGED sbn

(* A record cannot be stored; its node may have been given its type.       *)
SAStoreFails(w) ==
  /\ table # None /\ w \in rest /\ StoreFails(sbn, w)
  /\ SARaises
  /\ LET n == Parent(search_end_port(sbn, ByLid(w)))
     IN sbn' = IF Retypes(sbn, n, "Switch") /\ table # "lids"
               THEN [sbn EXCEPT !.class[n] = "Switch"] ELSE sbn

-----------------------------------------------------------------------------
(* The scan: topo_SMP and _SubnetTopo.                                     *)

Scanning == pc = "scan"
HasRoom_Mutant == Cardinality(jobs) <= Window
HasRoom == Cardinality(jobs) < Window
Exhausted(c) == ctx[c].pc = "done"
Complete(c) == Exhausted(c) /\ \A j \in jobs : j.by # c  \* its children have ended

(* sched_node and sched_ports: add an item to the bucket of a depth and,   *)
(* when no generator works on it, give it one, which replaces the context  *)
(* the bucket had.                                                         *)
NewTodo(d) == <<d, 1 + Cardinality({c \in Ctx : c[1] = d /\ ctx[c].pc # "none"})>>
StartsTodo(d) == ~todo[d].running
Filled(d, nodes, ports) ==
  [todo EXCEPT ![d] = [nodes |-> @.nodes \o nodes, ports |-> @.ports \o ports, running |-> TRUE,
                       ctx |-> IF StartsTodo(d) THEN NewTodo(d) ELSE @.ctx]]
(* A coroutine has filled the bucket of depth d, whose generator starts    *)
(* inside mqueue(), and has ended.                                         *)
Started(d, fills) ==
  /\ active' = IF fills /\ StartsTodo(d) THEN NewTodo(d) ELSE None
  /\ ctx' = IF fills /\ StartsTodo(d)
            THEN [ctx EXCEPT ![NewTodo(d)] = [NoCtx EXCEPT !.pc = "check", !.old = todo[d].ctx]]
            ELSE ctx

InBounds(d) == d <= MaxDepth /\ (StartsTodo(d) => NewTodo(d) \in Ctx)

(* load() without an SA, as far as topo_SMP's first MAD.                   *)
TopoItems == {"all_LIDs", "all_NodeInfo", "all_topology"}
InNetwork(db, p) ==
  IsSwitchNode(db, Parent(p)) \/ db.guid[p] # None \/ db.lid[p] # None
Wiped(db) ==
  [db EXCEPT !.topology = EmptyDb.topology,
             !.pinf = {p \in @ : ~InNetwork(db, p)},
             !.paths = EmptyDb.paths,
             !.path = [EmptyDb.path EXCEPT ![Start] =
                         IF db.lidRouted THEN LIDPath(Lid[Local]) ELSE DRPath(Permissive, <<>>)]]

StartScan(S) ==
  /\ pc = "idle" /\ ~useSA
  /\ Wanted(S) \cap TopoItems # {}
  /\ (sbn.lidRouted => Lid[Local] # 0)
  /\ stuff' = Wanted(S)
  /\ pc' = "scan" /\ how' = "none" /\ UNCHANGED <<useSA, distrust>>
  /\ sbn' = Wiped(sbn)
  /\ todo' = [d \in Depth |-> EmptyBucket] /\ ctx' = [c \in Ctx |-> NoCtx] /\ switches' = {}
  /\ UNCHANGED turnVars
  /\ jobs' = {[what |-> "node", path |-> Start, depth |-> 0, peer |-> None, by |-> None]}
  /\ reads' = [w \in Place |-> 0]
  /\ UNCHANGED saVars

(* Everything asked for is there already.                                  *)
LoadNothing(S) ==
  /\ pc = "idle" /\ Wanted(S) = {}
  /\ stuff' = {} /\ how' = "returned" /\ UNCHANGED <<pc, useSA, distrust>>
  /\ UNCHANGED <<sbn, saVars, scanVars>>

(* do_node, when its NodeInfo arrives.  The first one ends topo_SMP, which *)
(* then notes what was loaded.  A device that has a Node of another type   *)
(* raises ("Node changed type."): NinfFails, and ScanRaises ends the scan. *)
Noted(db, j) == IF j.by = None THEN [db EXCEPT !.loaded = @ \cup TopoItems] ELSE db
TopoLinked(db, j, p) == IF j.peer = None THEN db ELSE LinkPorts(db, p, j.peer)

ScansPorts_Mutant(db, n) == TRUE
ScansPorts(db, n) == ~(IsSwitchNode(db, n) /\ n \in switches)
NodeFound(j, w, np) ==
  LET n == np.node
      isSwitch == IsSwitchNode(np.db, n)
      scan == ScansPorts(np.db, n)
      item == [node |-> n, path |-> j.path, idx |-> IF isSwitch THEN None ELSE w[2]]
      Link1(db, p) == Noted(TopoLinked(db, j, p), j)
  IN /\ scan => InBounds(j.depth)
     /\ sbn' = IF isSwitch THEN Link1(WithPort(np.db, n, w[2]), PortAt(np.db, n, w[2]))
                           ELSE Link1(np.db, np.port)
     /\ switches' = IF isSwitch THEN switches \cup {n} ELSE switches
     /\ todo' = IF scan THEN Filled(j.depth, <<>>, <<item>>) ELSE todo
     /\ Started(j.depth, scan)
NodeReply(j, w) ==
  /\ w # None /\ ~NinfFails(sbn, w, [Known(w[1]) EXCEPT !.path = j.path])
  /\ NodeFound(j, w, get_node_ninf(sbn, w, [Known(w[1]) EXCEPT !.path = j.path]))
DoNode(j) == NodeReply(j, LeadsTo(sbn.path[j.path]))

(* do_port, when its PortInfo arrives: the first LID turns a DR path into  *)
(* a LID path in place; then the device behind the port is next.           *)
BecomesLid_Mutant(db, j, lid) == db.lidRouted /\ db.path[j.path].dr
BecomesLid(db, j, lid) == db.lidRouted /\ db.path[j.path].dr /\ lid # 0
Rerouted(db, j, lid) ==
  IF BecomesLid(db, j, lid)
  THEN [db EXCEPT !.path[j.path] = [LIDPath(lid) EXCEPT !.ep = db.path[j.path].ep]] ELSE db

Unexplored(db, w, p) == w \in DOMAIN Link /\ w[2] # 0 /\ db.topology[p] = None

PortFound(j, w, db, p) ==
  LET on == Unexplored(db, w, p)
  IN /\ on => InBounds(j.depth + 1)
     /\ sbn' = db
     /\ todo' = IF on THEN Filled(j.depth + 1, <<[aport |-> p, path |-> j.path, idx |-> j.idx]>>, <<>>)
                ELSE todo
     /\ Started(j.depth + 1, on)
     /\ UNCHANGED switches
PortStored(j, w, np) == PortFound(j, w, Rerouted(np.db, j, PinfLid(w)), np.port)
PortReply(j, w) ==
  /\ ~PinfFails(sbn, w, j.idx, PinfLid(w), [Known(w[1]) EXCEPT !.path = j.path])
  /\ PortStored(j, w, get_port_pinf(sbn, w, j.idx, PinfLid(w), [Known(w[1]) EXCEPT !.path = j.path]))
DoPort(j) == PortReply(j, <<LeadsTo(sbn.path[j.path])[1], j.idx>>)

(* Whose turn it is.  A context whose wait is over goes to the far end of  *)
(* the queue; a MAD is taken from the wire when nobody can be stepped.     *)
Woken(c) == ctx[c].pc = "wait" /\ Complete(ctx[c].on)
HasTurn(c) ==
  \/ c = active
  \/ /\ active = None /\ HasRoom
     /\ IF mqueue # <<>> THEN c = Last(mqueue) ELSE Woken(c)
NobodyHasTurn == \A c \in Ctx : ~HasTurn(c)
Left(c) == IF c = active \/ mqueue = <<>> THEN mqueue ELSE Front(mqueue)
GoesOn(c) == active' = c /\ mqueue' = Left(c)
Yields(c) == active' = None /\ mqueue' = Append(Left(c), c)
Leaves(c) == active' = None /\ mqueue' = Left(c)

Reply(j) ==
  /\ Scanning /\ NobodyHasTurn
  /\ jobs' = jobs \ {j}
  /\ IF j.what = "node" THEN DoNode(j) ELSE DoPort(j)
  /\ UNCHANGED <<loadVars, saVars, mqueue, reads>>

(* do_todo of context c.  First everything two depths up must be done.     *)
May(c, at) == Scanning /\ HasTurn(c) /\ ctx[c].pc = at
At(c, at) == [ctx EXCEPT ![c].pc = at]
Above(d) == IF d < 2 THEN None ELSE todo[d - 2].ctx

TodoCheck(c) ==
  /\ May(c, "check")
  /\ LET above == Above(c[1]) IN
     IF above = None \/ Exhausted(above)  \* then the yield returns at once
     THEN /\ todo' = IF above = None THEN todo ELSE [todo EXCEPT ![c[1] - 2].ctx = None]
          /\ ctx' = At(c, "top") /\ GoesOn(c)
     ELSE /\ ctx' = [ctx EXCEPT ![c].pc = "wait", ![c].on = above] /\ Leaves(c)
          /\ UNCHANGED todo
  /\ UNCHANGED <<sbn, loadVars, saVars, jobs, switches, reads>>

TodoWoken(c) ==
  /\ May(c, "wait")
  /\ todo' = IF Above(c[1]) = ctx[c].on THEN [todo EXCEPT ![c[1] - 2].ctx = None] ELSE todo
  /\ ctx' = At(c, "check") /\ GoesOn(c)
  /\ UNCHANGED <<sbn, loadVars, saVars, jobs, switches, reads>>

(* The last node queued is read, unless the link to it is known by now.    *)
PeerKnown(p) == sbn.topology[p] # None /\ Parent(sbn.topology[p]) \in sbn.ninf
NextPath(item) == advance_dr(sbn, sbn.path[item.path], item.idx)
TooLong(c) ==
  LET nodes == todo[c[1]].nodes
  IN nodes # <<>> /\ ~PeerKnown(Last(nodes).aport) /\ Len(sbn.path[Last(nodes).path].hops) + 1 > MaxHops
Spawn(c, job) == jobs' = jobs \cup {job} /\ Yields(c)

AtTop(c) == May(c, "top") \/ (May(c, "ports") /\ todo[c[1]].ports = <<>>)
TodoNode(c) ==
  LET d == c[1]
      item == Last(todo[d].nodes)
  IN /\ AtTop(c) /\ todo[d].nodes # <<>>
     /\ todo' = [todo EXCEPT ![d].nodes = Front(@)]
     /\ IF PeerKnown(item.aport)
        THEN /\ ctx' = At(c, "top") /\ GoesOn(c)
             /\ UNCHANGED <<sbn, jobs>>
        ELSE /\ ~TooLong(c)
             /\ sbn' = [sbn EXCEPT !.path[item.aport] = NextPath(item)]
             /\ ctx' = At(c, "ports")
             /\ Spawn(c, [what |-> "node", path |-> item.aport, depth |-> d,
                          peer |-> item.aport, by |-> c])
     /\ UNCHANGED <<loadVars, saVars, switches, reads>>

(* Then the ports of the last device queued, one after the other.          *)
TodoPorts(c) ==
  LET d == c[1]
      item == Last(todo[d].ports)
  IN /\ May(c, "ports") \/ (May(c, "top") /\ todo[d].nodes = <<>>)
     /\ todo[d].ports # <<>>
     /\ todo' = [todo EXCEPT ![d].ports = Front(@)]
     /\ ctx' = [ctx EXCEPT ![c].pc = "iter", ![c].node = item.node, ![c].path = item.path,
                           ![c].rem = IF item.idx = None
                                      THEN [i \in 1..(NumPorts[item.node[1]] + 1) |-> i - 1]
                                      ELSE <<item.idx>>]
     /\ GoesOn(c)
     /\ UNCHANGED <<sbn, loadVars, saVars, jobs, switches, reads>>

TodoPort(c) ==
  LET n == ctx[c].node
      i == Head(ctx[c].rem)
      next == [ctx EXCEPT ![c].rem = Tail(@), ![c].pc = IF Len(ctx[c].rem) = 1 THEN "top" ELSE "iter"]
  IN /\ May(c, "iter")
     /\ sbn' = WithPort(sbn, n, i)
     /\ ctx' = next
     /\ IF PortAt(sbn, n, i) \in sbn.pinf
        THEN GoesOn(c) /\ UNCHANGED <<jobs, reads>>
        ELSE /\ Spawn(c, [what |-> "port", path |-> ctx[c].path, depth |-> c[1],
                          idx |-> i, by |-> c])
             /\ reads' = [reads EXCEPT ![<<n[1], i>>] = @ + 1]
     /\ UNCHANGED <<loadVars, saVars, todo, switches>>

(* The bucket is empty: a later item gets a generator of its own.  The one *)
(* this one replaced is exhausted (a run that finds it is not is stuck), so *)
(* that yielding it waits for nothing.                                     *)
TodoEmpty_Mutant(c) ==
  /\ AtTop(c) /\ todo[c[1]].nodes = <<>> /\ todo[c[1]].ports = <<>>
  /\ ctx' = At(c, "done") /\ Leaves(c)
  /\ UNCHANGED <<sbn, loadVars, saVars, todo, jobs, switches, reads>>
TodoEmpty(c) ==
  LET old == ctx[c].old
  IN /\ AtTop(c) /\ todo[c[1]].nodes = <<>> /\ todo[c[1]].ports = <<>>
     /\ old # None => Exhausted(old)
     /\ todo' = [todo EXCEPT ![c[1]].running = FALSE]
     /\ ctx' = At(c, "done") /\ Leaves(c)
     /\ UNCHANGED <<sbn, loadVars, saVars, jobs, switches, reads>>

Todo(c) ==
  \/ TodoCheck(c) \/ TodoWoken(c) \/ TodoNode(c) \/ TodoPorts(c) \/ TodoPort(c)
  \/ TodoEmpty(c)

(* What is left to be fetched when the scan is over, or was not needed:    *)
(* the SwitchInfo of every switch, then the PortInfos not read yet, of the *)
(* ports that there are.  iterports also makes the Ports up to numPorts    *)
(* that there are not, which is left out: a scan that came to its end made *)
(* and read all those of a switch, and a CA's are not asked for.  So what  *)
(* is missing is, after a scan that was broken off, the further questions. *)
Asks(stage, db) ==
  CASE stage = "swinf" -> {n \in AllNodes(db) : IsSwitchNode(db, n)}
    [] stage = "pinf" -> {p \in {db.slot[n][i] : n \in AllNodes(db), i \in 0..MaxPort} \ {None} :
                            InNetwork(db, p)}
    [] OTHER -> {}
Stage_Mutant(S, done) ==
  CASE "all_SwitchInfo" \in S /\ done = "scan" -> "swinf"
    [] "all_PortInfo" \in S /\ ~("all_SwitchInfo" \in S /\ done = "scan") -> "pinf"
    [] OTHER -> "idle"
Stage(S, done) ==
  CASE "all_SwitchInfo" \in S /\ done = "scan" -> "swinf"
    [] "all_PortInfo" \in S /\ ~("all_SwitchInfo" \in S /\ done = "scan") /\ done # "pinf" -> "pinf"
    [] OTHER -> "idle"
GoesOnTo(stage) ==
  /\ pc' = stage /\ rest' = Asks(stage, sbn)
  /\ how' = IF stage = "idle" THEN "returned" ELSE "none"

(* run() returns when no MAD is outstanding and no context is queued, and  *)
(* load() goes on; a context that sleeps on does not keep it.              *)
ScanEnds ==
  /\ Scanning /\ jobs = {} /\ NobodyHasTurn
  /\ GoesOnTo(Stage(stuff, "scan"))
  /\ NoScan
  /\ UNCHANGED <<sbn, useSA, stuff, distrust, tables, table, reads>>

LoadMore(S) ==
  /\ pc = "idle" /\ ~useSA
  /\ Wanted(S) # {} /\ Wanted(S) \cap TopoItems = {}
  /\ stuff' = Wanted(S)
  /\ GoesOnTo(Stage(Wanted(S), "scan"))
  /\ UNCHANGED <<sbn, useSA, distrust, tables, table, scanVars>>

Asking == pc \in {"swinf", "pinf"}
EndOf(x) == IF pc = "swinf" THEN <<x, 0>> ELSE <<Parent(x), EndIndex(sbn, Parent(x), x[2])>>
HasIt(x) == IF pc = "swinf" THEN x \in sbn.swinf ELSE x \in sbn.pinf
Ask(x) ==
  /\ Asking /\ HasRoom /\ x = CHOOSE y \in rest : TRUE  \* some order of a Python set
  /\ rest' = rest \ {x}
  /\ IF HasIt(x) THEN UNCHANGED <<sbn, jobs>>
     ELSE /\ ~NoRoute(sbn, EndOf(x))
          /\ sbn' = WithPath(sbn, EndOf(x))
          /\ jobs' = jobs \cup {[what |-> pc, of |-> x, path |-> PathName(sbn, EndOf(x))]}
  /\ UNCHANGED <<loadVars, tables, table, todo, ctx, turnVars, switches, reads>>

PinfAnswer(j, w) == get_port_pinf(sbn, w, w[2], PinfLid(w), [Known(w[1]) EXCEPT !.path = j.path]).db
Answer(j) ==
  /\ Asking /\ ~(HasRoom /\ rest # {})
  /\ jobs' = jobs \ {j}
  /\ LeadsTo(sbn.path[j.path]) # None
  /\ sbn' = IF pc = "swinf" THEN [sbn EXCEPT !.swinf = @ \cup {j.of}]
            ELSE PinfAnswer(j, <<LeadsTo(sbn.path[j.path])[1], j.of[2]>>)
  /\ UNCHANGED <<loadVars, saVars, todo, ctx, turnVars, switches, reads>>

AskEnds ==
  /\ Asking /\ rest = {} /\ jobs = {}
  /\ sbn' = [sbn EXCEPT !.loaded = @ \cup IF pc = "pinf" THEN {"all_PortInfo", "all_LIDs"}
                                          ELSE {"all_SwitchInfo"}]
  /\ GoesOnTo(Stage(stuff, pc))
  /\ UNCHANGED <<useSA, stuff, distrust, tables, table, scanVars>>

(* A MAD times out, a reply finds a Node of another type, a DR path gets   *)
(* too long, a port has no LID to go by.                                   *)
(* A scan that had its first reply has noted everything as loaded by then. *)
ScanRaises ==
  /\ Scanning \/ Asking
  /\ \/ jobs # {}
     \/ Scanning /\ \E c \in Ctx : AtTop(c) /\ TooLong(c)
     \/ Asking /\ HasRoom /\ \E x \in rest : ~HasIt(x) /\ NoRoute(sbn, EndOf(x))
  /\ Ends("raised")
  /\ distrust' = (distrust \/ (Scanning /\ TopoItems \subseteq sbn.loaded))
  /\ NoScan /\ rest' = {}
  /\ UNCHANGED <<sbn, tables, table, reads>>

-----------------------------------------------------------------------------
Next ==
  \/ \E S \in Items : LoadSA(S) \/ StartScan(S) \/ LoadMore(S) \/ LoadNothing(S)
  \/ \E t \in tables : SAReply(t)
  \/ \E w \in rest : SAStore(w) \/ SAStoreFails(w)
  \/ SAStored \/ SANext \/ SAQueryFails
  \/ \E j \in jobs : Reply(j)
  \/ \E c \in Ctx : Todo(c)
  \/ \E x \in rest : Ask(x)
  \/ \E j \in jobs : Answer(j)
  \/ ScanEnds \/ AskEnds \/ ScanRaises

Spec == Init /\ [][Next]_vars
(* A load() runs on once called (that it always can is checked as the      *)
(* absence of deadlock); whether it is called again is up to the program.  *)
RunsOn == []<>(pc = "idle") \/ []<><<pc # "idle">>_vars
FairSpec == Spec /\ RunsOn

-----------------------------------------------------------------------------
(* Properties.                                                             *)

(* Every table holds objects of its kind.                                  *)
TypeOK ==
  /\ sbn.class \in [NodeObj -> {None, "Node", "CA", "Router", "Switch"}]
  /\ sbn.nodes \in [Device -> NodeObj \cup {None}]
  /\ sbn.ports \in [EndPlace -> PortObj \cup {None}]
  /\ sbn.lids \in [LIDs -> PortObj \cup {None}]
  /\ sbn.topology \in [PortObj -> PortObj \cup {None}]
  /\ sbn.slot \in [NodeObj -> [0..MaxPort -> PortObj \cup {None}]]
  /\ pc \in {"idle", "sa", "sa2", "scan", "swinf", "pinf"} /\ Cardinality(jobs) <= Window

(* In whatever order replies and records arrive, the three indexes of the  *)
(* database (node GUID, port GUID, LID) lead to the object of the device   *)
(* they are about, and the port they lead to is the one in its node's      *)
(* list: subnet.py:415-556, search_end_port, get_node and link_end_port.   *)
Listed(p) == \E i \in 0..MaxPort : sbn.slot[Parent(p)][i] = p
IndexesAgree ==
  /\ \A d \in Device : sbn.nodes[d] # None =>
       sbn.nodes[d][1] = d /\ sbn.class[sbn.nodes[d]] = Kind[d]
  /\ \A e \in EndPlace : sbn.ports[e] # None =>
       PlaceOf(sbn.ports[e]) = e /\ sbn.guid[sbn.ports[e]] = e /\ Listed(sbn.ports[e])
  /\ \A l \in LIDs : LET p == sbn.lids[l] IN p # None =>
       /\ PlaceAtLid(l) # None /\ Parent(p)[1] = PlaceAtLid(l)[1]
       /\ Parent(p) \in sbn.ninf => PlaceOf(p) = PlaceAtLid(l) /\ Listed(p)

(* A device has one Node object ("there can not be duplicate nodeGUID's",  *)
(* subnet.py:10-13), in whatever order its NodeInfo, its ports and its     *)
(* links are learned.  The exception: of a device the SA did not have when *)
(* it answered for NodeInfo, but whose end ports, two or more, are in its  *)
(* other tables, load() learns only LIDs, and each of them gets a Node.    *)
LateTwice(d) ==
  /\ useSA /\ d \in Late
  /\ \E e, f \in EndPlace : e # f /\ e[1] = d /\ f[1] = d /\ InTable(e) /\ InTable(f)
OneNodePerDevice == \A m, n \in AllNodes(sbn) : m[1] = n[1] => m = n \/ LateTwice(m[1])

(* The topology says of a device whose NodeInfo is known only what the     *)
(* cables say, and in both directions: do_node (discovery.py:318-342) and  *)
(* subnet_topology_SA (74-92).                                             *)
TopologyIsTrue ==
  \A p \in PortObj : LET q == sbn.topology[p] IN
    (q # None /\ Parent(p) \in sbn.ninf /\ Parent(q) \in sbn.ninf) =>
      /\ sbn.topology[q] = p
      /\ PlaceOf(p) \in DOMAIN Link /\ Link[PlaceOf(p)] = PlaceOf(q)

(* A path leads to the end port it is cached for, also after do_port       *)
(* (discovery.py:299-311) changed it in place from a DR to a LID path      *)
(* while other coroutines use it.                                          *)
PathsLeadThere ==
  \A h \in PathObj : LET path == sbn.path[h] IN
    (path # None /\ path.ep # None) =>
      LeadsTo(path) # None /\ ToEndPlace(LeadsTo(path)) = PlaceOf(path.ep)

(* A load() that returns has what it says is loaded, unless a scan of the  *)
(* same database was broken off before: what the SMP scan can reach, or    *)
(* the SA had in its tables.                                               *)
Closed(S) == \A w \in S :
  /\ IsSwitch(w[1]) => {w[1]} \X (0..NumPorts[w[1]]) \subseteq S
  /\ w \in DOMAIN Link => Link[w] \in S
Reachable == {w \in Place : \A S \in SUBSET Place : Local \in S /\ Closed(S) => w \in S}
ScanFound == \A w \in Reachable :
  /\ sbn.nodes[w[1]] # None
  /\ sbn.slot[sbn.nodes[w[1]]][w[2]] \in sbn.pinf
  /\ w \in DOMAIN Link => sbn.topology[<<sbn.nodes[w[1]], w[2]>>] # None
  /\ ("all_SwitchInfo" \in sbn.loaded /\ IsSwitch(w[1])) => sbn.nodes[w[1]] \in sbn.swinf
TablesFound ==
  /\ "all_NodeInfo" \in sbn.loaded => \A e \in Records("ninf") : sbn.nodes[e[1]] # None
  /\ "all_PortInfo" \in sbn.loaded => \A w \in Records("pinf") :
       w[1] \notin Late => <<sbn.nodes[w[1]], w[2]>> \in sbn.pinf
  /\ "all_topology" \in sbn.loaded => \A w \in Records("links") :
       {w[1], Link[w][1]} \cap Late = {} => sbn.topology[<<sbn.nodes[w[1]], w[2]>>] # None
LoadedIsThere ==
  (pc = "idle" /\ how = "returned" /\ ~distrust) => IF useSA THEN TablesFound ELSE ScanFound

(* After a scan there is a route to every end port found, and it leads     *)
(* there: get_path_smp (subnet.py:350-369) serves from the cached DR paths *)
(* or the LIDs that the replies, in any order, have left.                  *)
RoutesLeadThere ==
  (pc = "idle" /\ how = "returned" /\ ~distrust /\ ~useSA) =>
    \A e \in EndPlace : (sbn.ports[e] # None /\ (Lid[e] # 0 \/ ~sbn.lidRouted)) =>
      /\ ~NoRoute(sbn, sbn.ports[e])
      /\ LET w == LeadsTo(get_path_smp(sbn, sbn.ports[e])) IN w # None /\ ToEndPlace(w) = e

(* The scan asks each port for its PortInfo once, although the same device *)
(* is reached over several links at a time: discovery.py:250, 337.         *)
ReadOnce == \A w \in Place : reads[w] <= 1

(* When the scan returns no do_todo is left asleep on another one's        *)
(* context, with work in its bucket: discovery.py:257-262, 289.            *)
NoneLeftAsleep ==
  [][ScanEnds => /\ \A c \in Ctx : ctx[c].pc \in {"none", "done"}
                 /\ \A d \in Depth : todo[d].nodes = <<>> /\ todo[d].ports = <<>>]_vars

(* A load() ends, returning or raising, if the replies and timeouts it     *)
(* waits for come.                                                         *)
LoadEnds == (pc # "idle") ~> (pc = "idle")
=============================================================================
