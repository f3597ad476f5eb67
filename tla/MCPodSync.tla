----------------------------- MODULE MCPodSync -----------------------------
(* The budgets of disturbances of PodSync's runs. *)
EXTENDS PodSync

None == [e \in Disturbances |-> 0]
Once == [None EXCEPT !["create"] = 1]
Twice == [None EXCEPT !["create"] = 2]

(* Two incarnations of the name, a forced deletion, an eviction, a restart. *)
Reborn == [Twice EXCEPT !["force"] = 1, !["evict"] = 1, !["restart"] = 1]

(* A user of a leaf cluster takes the name of an evicted copy. *)
NameTaken == [Once EXCEPT !["edit"] = 1, !["evict"] = 1, !["foreign"] = 1, !["stop"] = 1]

(* A report of the leaf reaches the root pod, and the repair of a status   *)
(* that someone else wrote is dropped.                                     *)
NotRepaired == [Once EXCEPT !["other"] = 1, !["report"] = 1, !["drop"] = 1]

Unsafe == {Reborn, NameTaken, NotRepaired}

(* One pod that is edited, evicted, and whose calls fail. *)
Disturbed == [Once EXCEPT !["fail"] = 1, !["edit"] = 1, !["report"] = 1, !["evict"] = 1]

(* One pod whose status others write to, while its leaf manager is stopped *)
(* and started and the cluster manager restarts.                           *)
Restarted == [Once EXCEPT !["edit"] = 1, !["other"] = 1, !["report"] = 1, !["stop"] = 1, !["restart"] = 1]

Passing == {Disturbed, Restarted}
=============================================================================
