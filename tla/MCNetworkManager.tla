------------------------- MODULE MCNetworkManager -------------------------
(* A cluster of two nodes in gateway mode, with one address family, and a  *)
(* peer to peer cluster of one node with two.  Their service CIDRs are     *)
(* the same, as they are by default in practice; the second cluster may    *)
(* map its own to another one.                                             *)
EXTENDS NetworkManager

CONSTANTS A, B, a1, a2, b1, podA, podB, podB6, svc, svcB

MCHome == [n \in Nodes |-> IF n = b1 THEN B ELSE A]
MCFamily == [c \in {podA, podB, podB6, svc, svcB} |-> IF c = podB6 THEN 6 ELSE 4]
MCPodNets == [n \in Nodes |-> IF n = b1 THEN {podB, podB6} ELSE {podA}]

Nets == [bridge |-> [net |-> 4, mask |-> 1], local |-> [net |-> 0, mask |-> 1]]
Subnets(fs) == [k \in Kinds |-> [f \in fs |-> Nets[k]]]
Options(enable, p2p, fs, pods, map) ==
  [enable |-> enable, p2p |-> p2p, families |-> fs, subnets |-> Subnets(fs),
   podCIDRs |-> pods, serviceCIDRs |-> {svc}, globalMap |-> map]
NoMap == [c \in {} |-> None]
Mapped == [c \in {svc} |-> svcB]

MCSpecs == [c \in Clusters |->
  IF c = A THEN {Options(TRUE, FALSE, {4}, {podA}, NoMap)}
  ELSE {Options(e, TRUE, {4, 6}, {podB, podB6}, Mapped) : e \in BOOLEAN}]

Both(i) == [f \in {4, 6} |-> i]
MCAddrs == [n \in Nodes |-> IF n = a1 THEN {None, Both(1)}
                            ELSE IF n = a2 THEN {None, Both(2), Both(6)} ELSE {None, Both(7)}]

Calm == [e \in Disturbances |-> 0]
Plans == {[Calm EXCEPT !["node"] = 1, !["fail"] = 1, !["undeleted"] = 1],
          [Calm EXCEPT !["cluster"] = 1, !["leader"] = 1],
          [Calm EXCEPT !["node"] = 1, !["stale"] = 1],
          [Calm EXCEPT !["restart"] = 1, !["cluster"] = 2, !["stale"] = 1],
          [Calm EXCEPT !["leader"] = 1, !["fail"] = 1]}
=============================================================================
