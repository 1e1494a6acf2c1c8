---------------------------- MODULE MCDiscovery ----------------------------
(***************************************************************************)
(* Small instances of Discovery.                                           *)
(***************************************************************************)
EXTENDS Discovery

CONSTANTS n1, n2, b1, b2, b3

MCScore ==
  [k \in {n1, n2} |->
     [b \in Broker |-> CASE b = b1 -> IF k = n1 THEN 1 ELSE 3
                         [] b = b2 -> 2
                         [] b = b3 -> IF k = n1 THEN 3 ELSE 1]]
MCPipes == {<<n2, n1>>}
=============================================================================
