---------------------------- MODULE MCDiscovery ----------------------------
(***************************************************************************)
(* A fabric for Discovery: the local CA h has a port on each of two        *)
(* switches, r and s, that two cables join.  r has an LMC, s answers LID 0 *)
(* on its external ports.                                                  *)
(***************************************************************************)
EXTENDS Discovery

MCDevice == {"h", "r", "s"}
MCKind == [d \in MCDevice |-> IF d = "h" THEN "CA" ELSE "Switch"]
MCNumPorts == [h |-> 2, r |-> 3, s |-> 3]
Cables == {<<<<"h", 1>>, <<"r", 1>>>>, <<<<"r", 2>>, <<"s", 1>>>>, <<<<"r", 3>>, <<"s", 2>>>>,
           <<<<"s", 3>>, <<"h", 2>>>>}
MCLink ==
  [w \in UNION {{c[1], c[2]} : c \in Cables} |->
     CHOOSE v \in UNION {{c[1], c[2]} : c \in Cables} : <<w, v>> \in Cables \/ <<v, w>> \in Cables]
MCLid == <<"h", 1>> :> 1 @@ <<"h", 2>> :> 6 @@ <<"r", 0>> :> 4 @@ <<"s", 0>> :> 3
MCLmc == <<"h", 1>> :> 0 @@ <<"h", 2>> :> 0 @@ <<"r", 0>> :> 1 @@ <<"s", 0>> :> 0
MCLocal == <<"h", 1>>
MCShy == {"s"}
MCLate == {"s"}
AllItems == {"all_NodeInfo", "all_PortInfo", "all_SwitchInfo", "all_topology"}
MCSorted == {"r"}
MCItems == {AllItems, {"all_topology"}, {"all_LIDs"}, {"all_PortInfo"}}
MCRoutings == BOOLEAN
=============================================================================
