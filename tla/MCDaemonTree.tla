---------------------------- MODULE MCDaemonTree ----------------------------
(***************************************************************************)
(* Instances of DaemonTree for TLC.                                        *)
(***************************************************************************)
EXTENDS DaemonTree

Case(j, d, e, s, c, r, k, st, f, re) ==
  [joined |-> j, ds |-> d,
   budget |-> [edit |-> e, set |-> s, cluster |-> c, remove |-> r, kds |-> k, status |-> st,
               fail |-> f, restart |-> re]]
Plans ==
  {Case({}, "running", 0, 1, 0, 0, 0, 0, 0, 0), Case(Clusters, "none", 0, 1, 0, 0, 0, 0, 0, 0),
   Case({}, "running", 0, 0, 0, 0, 1, 0, 1, 0), Case({}, "running", 0, 0, 1, 0, 0, 0, 1, 0),
   Case(Clusters, "running", 1, 0, 0, 0, 0, 0, 1, 0), Case(Clusters, "running", 0, 0, 0, 0, 0, 1, 1, 0),
   Case(Clusters, "running", 0, 0, 1, 0, 0, 0, 1, 0),
   Case(Clusters, "running", 0, 0, 0, 1, 0, 0, 1, 0), Case(Clusters, "running", 0, 0, 1, 0, 0, 0, 0, 1),
   Case(Clusters, "running", 0, 0, 0, 1, 0, 0, 0, 1),
   Case(Clusters, "gone", 0, 1, 0, 0, 0, 0, 0, 0), Case(Clusters, "gone", 0, 0, 1, 0, 0, 0, 1, 0),
   Case(Clusters, "gone", 0, 0, 0, 1, 0, 0, 1, 0), Case(Clusters, "gone", 0, 0, 0, 0, 0, 1, 0, 1)}
=============================================================================
