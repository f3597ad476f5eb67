------------------------ MODULE MCMultiClusterService ------------------------
(***************************************************************************)
(* Instances of MultiClusterService for TLC.                               *)
(***************************************************************************)
EXTENDS MultiClusterService

CONSTANTS c1, c2, s1

Plan(s, e, m, p, u, x, j, f, r) ==
  [svc |-> s, edit |-> e, mark |-> m, eps |-> p, user |-> u, foreign |-> x, join |-> j, fail |-> f, restart |-> r]

(* A service that comes and goes, is made anew, is marked and unmarked,    *)
(* each also with a failing call or a restart; a cluster that joins; what  *)
(* users make; a cluster of another IP family than the service.            *)
Plans ==
  [budget : {Plan(1, 0, 1, 1, 0, 0, 0, 1, 0), Plan(2, 0, 0, 0, 0, 0, 0, 1, 0), Plan(1, 0, 1, 1, 0, 0, 0, 0, 1),
             Plan(2, 0, 0, 0, 0, 0, 0, 0, 1), Plan(1, 1, 1, 0, 0, 0, 0, 0, 1), Plan(3, 0, 0, 0, 0, 0, 0, 0, 0),
             Plan(2, 0, 0, 0, 0, 1, 0, 0, 0), Plan(1, 0, 0, 2, 0, 0, 0, 0, 0), Plan(1, 0, 0, 0, 0, 0, 1, 0, 0),
             Plan(1, 0, 0, 1, 2, 0, 0, 0, 0)},
   unfit : {{}}] \union
  [budget : {Plan(2, 0, 0, 1, 0, 0, 0, 0, 0)}, unfit : {{c1}}]
=============================================================================
