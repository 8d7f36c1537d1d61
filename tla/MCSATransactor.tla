--------------------------- MODULE MCSATransactor ---------------------------
(***************************************************************************)
(* A program on the CA with LID 1, cabled to switch 2, behind which the SM *)
(* runs on switch 3.  On the SA path the kernel lets go before each retry; *)
(* the loopback's timeout is as short as the kernel's.  Two paths lead to  *)
(* the switch and back: discovery has noted the node type in one of them.  *)
(***************************************************************************)
EXTENDS SATransactor, TLC

MCPath == {"sa", "self", "back", "noted", "near", "far"}
MCTimeout == [p \in MCPath |-> IF p = "sa" THEN 2 ELSE 1]
MCHops == [sa |-> <<>>, self |-> <<>>, near |-> <<1>>, far |-> <<1, 2>>, back |-> <<1, 1>>, noted |-> <<1, 1>>]
MCDLID == [p \in MCPath |-> IF p = "sa" THEN 3 ELSE Permissive]
MCdrDLID == [p \in MCPath |-> IF p = "sa" THEN None ELSE Permissive]
MCNoted == {"near", "noted"}
MCSwitches == {2, 3}
MCLink == <<1, 1>> :> <<2, 1>> @@ <<2, 1>> :> <<1, 1>> @@ <<2, 2>> :> <<3, 1>> @@ <<3, 1>> :> <<2, 2>>
MCRecorded ==
  {<<"Notice", 3, 0>>,
   <<"PKeyTable", 1, <<1, 0>>>>, <<"PKeyTable", 3, <<0, 0>>>>,
   <<"VLArbitrationTable", 1, <<1, 1>>>>, <<"SLToVLMappingTable", 3, <<1, 2>>>>,
   <<"MulticastForwardingTable", 2, <<0, 0>>>>, <<"MulticastForwardingTable", 2, <<1, 0>>>>}
Get(attribute, path, modifier) == [attribute |-> attribute, path |-> path, modifier |-> modifier]
MCGets ==
  {Get("NodeInfo", "self", 0), Get("PortInfo", "near", 0), Get("PortInfo", "far", 0),
   Get("Notice", "far", 0), Get("MulticastForwardingTable", "near", 2^28),
   Get("PKeyTable", "back", 0), Get("PKeyTable", "noted", 0), Get("PKeyTable", "sa", 2^16),
   Get("VLArbitrationTable", "noted", 2^16), Get("SLToVLMappingTable", "far", 2^9 + 1)}

MCRequest ==
  {Query(g, l, type) : g \in MCGets, l \in 1..3, type \in {"CA", "Switch", None}}
    \cup ({"LinkRecord"} \X (1..3) \X (1..2)) \cup {<<"Notice", 3, 0>>}
MCClassOf == [r \in MCRequest |-> IF r[1] = "Notice" THEN "smp" ELSE "sa"]
MCAnswers == [r \in MCRequest |-> SAAnswers(r)]
MCSize == [reply \in UNION {MCAnswers[r] : r \in MCRequest} \cup {None} |-> SASize(reply)]
=============================================================================
