------------------------- MODULE MCClusterRegistry -------------------------
(* Two Clusters, two good kubeconfigs and one that cannot be used. *)
EXTENDS ClusterRegistry

CONSTANTS c1, c2, a1, a2, k1, k2, n1, n2

Own == [c \in Clusters |-> IF c = c1 THEN a1 ELSE a2]
Virtual == [c \in Clusters |-> IF c = c1 THEN k1 ELSE k2]
Plain == [c \in Clusters |-> IF c = c1 THEN n1 ELSE n2]

Calm == [e \in Disturbances |-> 0]
Twice == [Calm EXCEPT !["create"] = 2]

(* Changed while calls fail; recreated over a dead manager and a restart. *)
Rough == {[Twice EXCEPT !["edit"] = 1, !["fail"] = 1],
          [Twice EXCEPT !["die"] = 1, !["restart"] = 1]}
=============================================================================
