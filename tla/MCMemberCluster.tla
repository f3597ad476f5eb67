--------------------------- MODULE MCMemberCluster ---------------------------
(***************************************************************************)
(* Instances for TLC of the programs of ClusterLink in a member cluster:   *)
(* the agent of a node, which writes its kernel, and the controllers of    *)
(* the ClusterNodes.  They share no state: one of them moves while the     *)
(* other is at rest.                                                       *)
(***************************************************************************)
EXTENDS AgentSync, ClusterNodes

CONSTANTS d1, route, bcast, nat, c1, c2, x, p

(* The agent: one device, a route and a broadcast entry on it, and an      *)
(* iptables rule.                                                          *)
MCDevOf == [r \in Rules |-> IF r = nat THEN NoDev ELSE d1]

Conf(attr, rules) == [dev |-> [d \in Devices |-> attr], rules |-> rules]

(* The device is recreated between the first two, under rules that stay;   *)
(* the third has fewer rules on the first device, and the fourth a route   *)
(* without it.                                                             *)
MCPublished == {Conf("v1", {route, bcast, nat}), Conf("v2", {route, nat}), Conf("v1", {route}),
                Conf("none", {route, nat})}

Calm == [e \in AgentDisturbances |-> 0]
Twice == [Calm EXCEPT !["edit"] = 2]

(* The kernel drifts and the NodeConfig comes and goes; events are dropped *)
(* and the agent restarts.  A call may fail in both.                       *)
Disturbed == {[Twice EXCEPT !["delete"] = 1, !["fail"] = 1, !["drift"] = 1],
              [Twice EXCEPT !["lookup"] = 1, !["fail"] = 1, !["restart"] = 1]}

AgentAtRest ==
  /\ want = NoConfig /\ queued = "no" /\ timer = NoConfig /\ waiting = {}
  /\ to = Empty /\ status = "success" /\ logged = "success" /\ sys = Empty /\ passes = 2
  /\ agentBudget = Calm

-----------------------------------------------------------------------------
Plan(n, c, f, r) == [node |-> n, cidr |-> c, fail |-> f, restart |-> r]

(* A Node that joins, leaves and joins again under its name with a failing *)
(* call; one whose CIDRs change across a restart; one that leaves with its *)
(* CIDRs.                                                                  *)
Plans == {Plan(3, 0, 1, 0), Plan(1, 1, 0, 1), Plan(2, 1, 0, 0)}

(* There are Nodes in these clusters, and nothing is left to do. *)
NodesOf(there) ==
  /\ live = [c \in Clusters |-> IF c \in there THEN Names ELSE {}]
  /\ given = [i \in Ids |-> {}]
  /\ obj = [i \in Ids |-> IF i[1] \in there THEN [cidrs |-> {}, addr |-> TRUE] ELSE None]
  /\ seen = [c \in Clusters |-> obj]
  /\ nodeQ = [c \in Clusters |-> {}] /\ nodeJob = [c \in Clusters |-> NoJob] /\ orphan = [c \in Clusters |-> Asleep]
  /\ cidrQ = [c \in Clusters |-> {}] /\ cidrJob = [c \in Clusters |-> NoJob]
  /\ failed = [c \in Clusters |-> [k \in Keys |-> 0]] /\ agentQ = {}

NodesAtRest == NodesOf({}) /\ budget = Plan(0, 0, 0, 0)

(* Both clusters have a Node of that name; the CIDRs of the first change   *)
(* and the second leaves, or stays.  The programs of the second cluster    *)
(* have nothing else to do.                                                *)
PairInit == NodesOf(Clusters) /\ budget = Plan(1, 1, 0, 0)
Leaving == live[c2] = Names /\ ChangeNode(c2, x)
PairNext ==
  /\ Member(c1) \/ Leaving \/ NodeGone(c2, x) \/ Agent(<<c2, x>>)
  /\ live'[c1] = Names
NodesFairness == MemberFairness(c1) /\ WF_vars(NodeGone(c2, x)) /\ WF_vars(Agent(<<c2, x>>))

-----------------------------------------------------------------------------
VARIABLE moving

MCInit ==
  \/ moving = "agent" /\ AgentInit /\ NodesAtRest
  \/ moving = "nodes" /\ Init /\ AgentAtRest
  \/ moving = "pair" /\ PairInit /\ AgentAtRest

MCNext ==
  \/ moving = "agent" /\ AgentNext /\ UNCHANGED <<vars, moving>>
  \/ moving = "nodes" /\ Member(c1) /\ UNCHANGED <<agentVars, moving>>
  \/ moving = "pair" /\ PairNext /\ UNCHANGED <<agentVars, moving>>

MCSpec ==
  /\ MCInit /\ [][MCNext]_<<agentVars, vars, moving>>
  /\ \/ moving = "agent" /\ AgentFairness
     \/ moving # "agent" /\ NodesFairness
=============================================================================
