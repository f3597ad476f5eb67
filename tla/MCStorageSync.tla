---------------------------- MODULE MCStorageSync ----------------------------
(***************************************************************************)
(* Instances of StorageSync and of IPPools for TLC.  The two share no      *)
(* object: either one is disturbed while the other is at rest.             *)
(***************************************************************************)
EXTENDS StorageSync, IPPools

CONSTANTS c1, c2, here, m1

Plan(c, e, d, p, x, f, v) ==
  [create |-> c, edit |-> e, delete |-> d, pod |-> p, foreign |-> x, fail |-> f, pv |-> v]
Calm == Plan(0, 0, 0, 0, 0, 0, 0)

(* An object edited and deleted with failing calls, in two leaf clusters;  *)
(* one that is made anew; names taken by others; a volume deleted by hand. *)
Plans ==
  {Plan(1, 2, 1, 2, 0, 1, 1), Plan(2, 1, 1, 1, 1, 0, 0), Plan(2, 0, 1, 2, 0, 0, 0), Plan(1, 1, 2, 1, 2, 0, 2), Plan(1, 0, 0, 1, 2, 1, 1),
   Calm}

PoolPlan(o, w, a, e, d, f, g, r) ==
  [member |-> o, own |-> w, api |-> a, edit |-> e, delete |-> d, fail |-> f, drop |-> g, restart |-> r]

(* The other cluster joins and changes while the API server's arguments    *)
(* change or a call fails; Here's own pools change; a user edits Here's    *)
(* Cluster and an item is dropped; Here leaves; the controllers restart.   *)
PoolPlans ==
  {PoolPlan(2, 0, 1, 0, 0, 0, 0, 0), PoolPlan(2, 0, 0, 0, 0, 1, 0, 0), PoolPlan(1, 1, 0, 0, 0, 1, 0, 0),
   PoolPlan(0, 1, 0, 1, 0, 0, 1, 0), PoolPlan(1, 0, 0, 0, 1, 1, 1, 0), PoolPlan(1, 0, 0, 0, 0, 0, 0, 1),
   PoolPlan(1, 0, 0, 0, 1, 0, 0, 1)}

Equal == {<<i, i>> : i \in Nets}

Config(c, o, a) == [cni |-> c, own |-> o, api |-> a]
HereConfigs ==
  {Config("calico", {<<1, TRUE>>}, {3}), Config("calico", {<<2, TRUE>>}, {}),
   Config("etcd", {<<1, TRUE>>}, {3}), Config("etcd", {<<1, FALSE>>}, {3}), Config("cilium", {}, Unknown),
   Config("cilium", {<<1, TRUE>>}, {3})}

(* CIDRs that may meet Here's own, with and without a global CIDR. *)
MemberContents ==
  {[pods |-> {2}, services |-> {3}, map |-> {}], [pods |-> {1}, services |-> {}, map |-> {<<1, 3>>}]}

(* No Cluster at all: none of the three controllers has anything to do. *)
PoolsAtRest ==
  /\ cni = "cilium" /\ own = {} /\ api = {} /\ ext = {}
  /\ cluster = [i \in Members |-> Unknown] /\ known = cluster
  /\ local = [own |-> own, api |-> api]
  /\ started = FALSE /\ starterQ = FALSE /\ ccQ = FALSE /\ ccJob = Unknown
  /\ poolQ = {} /\ global = {} /\ client = FALSE /\ sync = NoSync /\ unmarked = FALSE
  /\ had = {} /\ givenUp = {}
  /\ poolBudget = [e \in PoolDisturbances |-> 0]

MCInit == Init /\ IF budget = Calm THEN kind = "data" /\ PoolInit ELSE PoolsAtRest

MCNext ==
  \/ Next /\ UNCHANGED poolVars
  \/ PoolNext /\ UNCHANGED vars

MCSpec == MCInit /\ [][MCNext]_<<vars, poolVars>> /\ Fairness /\ PoolFairness
=============================================================================
