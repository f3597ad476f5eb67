---------------------------- MODULE MCScheduler ----------------------------
(***************************************************************************)
(* Instances for TLC of the life of a pod before and after it is bound:    *)
(* the scheduler, and beside it the reconcilers of PodSync.  They share no *)
(* state: one of them moves while the other is at rest.                    *)
(***************************************************************************)
EXTENDS MCPodSync, Scheduler

CONSTANTS p1, p2, host, leafA, nodeB, ca, cb, v1, v2

PassingOrCalm == Passing \union {None}
PodsAtRest == Init /\ budget = None

OfMode(m, ow, ta, la) == [mode |-> m, owner |-> ow, taints |-> ta, labels |-> la]
Claimed(st, v, ow, now) == [st |-> st, pv |-> v, owner |-> ow, now |-> now, ending |-> FALSE]
Pv(cl, ow, aff, s) == [claim |-> cl, owner |-> ow, aff |-> aff, size |-> s]
SchedPod(la, pre, tol, cs, eph) ==
  [daemon |-> la = {"d"}, labels |-> la, prefixes |-> pre, tolerations |-> tol, claims |-> cs, ephemeral |-> eph]
Sel(pol, la, pre, nm) == [policy |-> pol, labels |-> la, prefix |-> pre, name |-> nm]
Term(ty, n, se) == [type |-> ty, node |-> n, selector |-> se]
Distribution(ss, ts) == [selectors |-> ss, terms |-> ts]
NoPolicies == [ns |-> {}, cluster |-> {}]
EditsOf(n, p, c, f) == [node |-> n, policy |-> p, claim |-> c, fail |-> f]
ThreeNodes ==
  (host :> OfMode("real", NoOne, {}, {"zone"})) @@ (leafA :> OfMode("one2cluster", "A", {"leaf"}, {}))
  @@ (nodeB :> OfMode("one2one", "B", {"leaf", "other"}, {"zone"}))
NoPvs == [v \in {} |-> NoOne]

LeafOnly == Distribution(<<Sel("a", {"x"}, NoOne, NoOne), Sel("b", {}, "pre", NoOne)>>,
                         [a |-> Term("leaf", NoOne, NoOne), b |-> Term("host", NoOne, NoOne)])
Advanced == Distribution(<<Sel("a", {}, NoOne, p2), Sel("c", {"y"}, "pre", NoOne)>>,
                         [a |-> Term("adv", leafA, {"zone"})])
HostOnly == Distribution(<<Sel("h", {"x", "y"}, NoOne, NoOne)>>, [h |-> Term("host", NoOne, NoOne)])

(* Two pods and two free volumes, one of which fits both. *)
FreeVolumes ==
  [pods |-> (p1 :> SchedPod({"x"}, {}, {"other"}, {ca}, {})) @@ (p2 :> SchedPod({}, {}, {}, {cb}, {})),
   class |-> (ca :> "static") @@ (cb :> "zoned"), size |-> (ca :> 1) @@ (cb :> 2),
   maker |-> (ca :> NoOne) @@ (cb :> NoOne), local |-> TRUE, later |-> NoPolicies, edits |-> EditsOf(1, 0, 0, 1),
   nodes |-> [ThreeNodes EXCEPT ![nodeB] = NoOne], policies |-> [ns |-> {}, cluster |-> {HostOnly}],
   claims |-> (ca :> Claimed("unbound", NoOne, {}, FALSE)) @@ (cb :> Claimed("unbound", NoOne, {}, FALSE)),
   pvs |-> (v1 :> Pv(NoOne, {}, {host, leafA}, 1)) @@ (v2 :> Pv(NoOne, {}, NoOne, 2))]

(* A claim that two pods share, made by whichever cluster gets the first,  *)
(* and one that the pod itself brings.                                     *)
SharedClaim ==
  [pods |-> (p1 :> SchedPod({"x"}, {}, {}, {ca}, {})) @@ (p2 :> SchedPod({"x"}, {"pre"}, {"other"}, {ca, cb}, {cb})),
   class |-> (ca :> "fast") @@ (cb :> "fast"), size |-> (ca :> 1) @@ (cb :> 1),
   maker |-> (ca :> NoOne) @@ (cb :> p2), local |-> FALSE, later |-> NoPolicies, edits |-> EditsOf(1, 1, 1, 0),
   nodes |-> ThreeNodes, policies |-> [ns |-> {LeafOnly}, cluster |-> {HostOnly}],
   claims |-> (ca :> Claimed("unbound", NoOne, {}, FALSE)) @@ (cb :> Claimed("absent", NoOne, {}, FALSE)),
   pvs |-> NoPvs]

(* A daemon pod with a volume of cluster A, and a claim bound as soon as it can. *)
BoundClaims ==
  [pods |-> (p1 :> SchedPod({"d"}, {}, {"other"}, {ca}, {})) @@ (p2 :> SchedPod({"y"}, {"pre"}, {}, {cb}, {})),
   class |-> (ca :> "none") @@ (cb :> "static"), size |-> (ca :> 1) @@ (cb :> 1),
   maker |-> (ca :> NoOne) @@ (cb :> NoOne), local |-> TRUE, later |-> [ns |-> {Advanced}, cluster |-> {HostOnly}],
   edits |-> EditsOf(1, 1, 0, 0), nodes |-> ThreeNodes, policies |-> [ns |-> {Advanced, LeafOnly}, cluster |-> {}],
   claims |-> (ca :> Claimed("bound", v1, {"A"}, FALSE)) @@ (cb :> Claimed("unbound", NoOne, {}, TRUE)),
   pvs |-> (v1 :> Pv(ca, {"A"}, NoOne, 1)) @@ (v2 :> Pv(NoOne, {}, {nodeB, host}, 2))]

MCSetups == {FreeVolumes, SharedClaim, BoundClaims}

SchedulerAtRest ==
  /\ setup = [pods |-> [p \in SchedPods |-> SchedPod({}, {}, {}, {}, {})], class |-> [c \in Claims |-> "none"],
              size |-> [c \in Claims |-> 1], maker |-> [c \in Claims |-> NoOne], local |-> TRUE,
              later |-> NoPolicies, edits |-> EditsOf(0, 0, 0, 0)]
  /\ nodes = ThreeNodes /\ policies = NoPolicies /\ claims = [c \in Claims |-> Claimed("lost", NoOne, {}, FALSE)]
  /\ pvs = NoPvs /\ assumed = [v \in Volumes |-> NoOne] /\ placed = [p \in SchedPods |-> host]
  /\ cycle = NoCycle /\ binding = [p \in SchedPods |-> NoBinding] /\ leaked = {}

-----------------------------------------------------------------------------
MCInit == (Init /\ SchedulerAtRest) \/ (SchedInit /\ PodsAtRest)
MCNext == (Next /\ UNCHANGED schedVars) \/ (SchedNext /\ UNCHANGED vars)
MCSpec == MCInit /\ [][MCNext]_<<vars, schedVars>> /\ Fairness /\ SchedFairness
=============================================================================
