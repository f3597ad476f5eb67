--------------------------- MODULE NetworkManager ---------------------------
(***************************************************************************)
(* The two programs that turn ClusterNodes into NodeConfigs, sharing the   *)
(* control plane's API server:                                             *)
(*  - the elector of every member cluster (pkg/clusterlink/elector), run   *)
(*    by the node that holds the cluster's leader election lock, which     *)
(*    gives its own node the gateway role and takes it from the others;    *)
(*  - the node-config-controller (pkg/clusterlink/network-manager/         *)
(*    controller.go), which computes all NodeConfigs again on every event, *)
(*    deletes those of nodes that are gone and writes the others, one      *)
(*    request after the other.                                             *)
(*                                                                         *)
(* The controller reads through informer caches: seen is its picture of    *)
(* the three kinds of object, each of which lags on its own.  All work     *)
(* items do the same, so the work queue is a flag.  The electors read the  *)
(* API server itself and update with the version they read; an update of   *)
(* an object that has changed since is refused.                            *)
(***************************************************************************)
EXTENDS NetworkConfig

CONSTANTS
  Clusters, Nodes,
  Home,     \* Home[n]: the cluster of a node
  Specs,    \* Specs[c]: the contents a Cluster may have
  Addrs,    \* Addrs[n]: the addresses a node may have
  PodNets,  \* PodNets[n]: the pod CIDRs of a node
  Tags,     \* tags of random MAC addresses
  Budgets   \* how often each disturbance may happen: one of these

Disturbances == {"node", "cluster", "leader", "fail", "undeleted", "restart", "stale"}

ASSUME HomeAssumption == Home \in [Nodes -> Clusters]
ASSUME BudgetAssumption == Budgets \subseteq [Disturbances -> Nat]
ASSUME NoneAssumption == None \notin Nodes
ASSUME AddrsAssumption == \A n \in Nodes : None \in Addrs[n]

VARIABLES
  clusters,  \* clusters[c]: the Cluster in the API server
  nodes,     \* nodes[n]: the ClusterNode, for those that exist
  configs,   \* configs[n]: the NodeConfig, for those that exist
  seen,      \* the controller's informer caches
  queued,    \* the controller's work queue is not empty
  round,     \* the round of Reconcile under way
  leader,    \* leader[c]: the node that holds the lock of the electors
  elect,     \* elect[c]: the role changes its round has still to make
  kept,      \* nodes whose NodeConfig the controller kept as it was and ought not to have
  budget

apiVars == <<clusters, nodes, configs>>
ctlVars == <<seen, queued, round, kept>>
electVars == <<leader, elect>>
vars == <<apiVars, ctlVars, electVars, budget>>

Spend(e) == budget[e] > 0 /\ budget' = [budget EXCEPT ![e] = @ - 1]

ClusterNode(n, addr, gateway) ==
  [cluster |-> Home[n], nic |-> addr # None, ips |-> IF addr = None THEN <<>> ELSE addr,
   gateway |-> gateway, podCIDRs |-> PodNets[n]]

Empty == [n \in {} |-> None]
Remove(f, n) == [m \in DOMAIN f \ {n} |-> f[m]]
Put(f, n, v) == [m \in DOMAIN f \union {n} |-> IF m = n THEN v ELSE f[m]]

Resting == [phase |-> "rest", new |-> Empty, delete |-> {}, write |-> {}]

(* The agents have reported the addresses of the nodes, or not yet. *)
Init ==
  /\ clusters \in [Clusters -> UNION {Specs[c] : c \in Clusters}]
  /\ \A c \in Clusters : clusters[c] \in Specs[c]
  /\ leader \in [Clusters -> Nodes]
  /\ \A c \in Clusters : Home[leader[c]] = c
  /\ \E f \in [Nodes -> UNION {Addrs[n] : n \in Nodes}] :
       /\ \A n \in Nodes : f[n] \in Addrs[n]
       /\ (\A n \in Nodes : f[n] # None) \/ (\A n \in Nodes : f[n] = None)
       /\ nodes = [n \in Nodes |-> ClusterNode(n, f[n], n \in {leader[c] : c \in Clusters})]
  /\ configs = Empty
  /\ seen = [clusters |-> clusters, nodes |-> nodes, configs |-> configs]
  /\ queued = TRUE /\ round = Resting
  /\ elect = [c \in Clusters |-> Empty]
  /\ kept = {}
  /\ budget \in Budgets

-----------------------------------------------------------------------------
(* The users and the other controllers of ClusterLink. *)

(* A ClusterNode is deleted, created without address and role, or gets     *)
(* (another) address from the node's agent.                                *)
ChangeNode(n) ==
  /\ Spend("node")
  /\ \/ n \in DOMAIN nodes /\ nodes' = Remove(nodes, n)
     \/ n \notin DOMAIN nodes /\ nodes' = Put(nodes, n, ClusterNode(n, None, FALSE))
     \/ /\ n \in DOMAIN nodes
        /\ \E a \in Addrs[n] : a # None /\ nodes' = Put(nodes, n, ClusterNode(n, a, nodes[n].gateway))
        /\ nodes' # nodes
  /\ UNCHANGED <<clusters, configs, ctlVars, electVars>>

ChangeCluster(c) ==
  /\ Spend("cluster")
  /\ \E s \in Specs[c] : s # clusters[c] /\ clusters' = [clusters EXCEPT ![c] = s]
  /\ UNCHANGED <<nodes, configs, ctlVars, electVars>>

(* Another node gets the lock; the process of the old one exits, in the    *)
(* middle of a round or not (OnStoppedLeading).                            *)
ChangeLeader(c) ==
  /\ Spend("leader")
  /\ \E n \in Nodes : Home[n] = c /\ n # leader[c] /\ leader' = [leader EXCEPT ![c] = n]
  /\ elect' = [elect EXCEPT ![c] = Empty]
  /\ UNCHANGED <<apiVars, ctlVars>>

-----------------------------------------------------------------------------
(* EnsureGateWayRole *)

(* Seeded fault: the role is given to the leader, but not taken away. *)
GenModifyNodeAddOnly(c) ==
  {n \in DOMAIN nodes : Home[n] = c /\ n = leader[c] /\ ~nodes[n].gateway}

GenModifyNode(c) ==
  {n \in DOMAIN nodes : Home[n] = c /\ (nodes[n].gateway # (n = leader[c]))}

(* A round lists the nodes; it is repeated for ever, but one that finds    *)
(* nothing to modify has no effect.                                        *)
ElectStart(c) ==
  /\ elect[c] = Empty /\ GenModifyNode(c) # {}
  /\ elect' = [elect EXCEPT ![c] = [n \in GenModifyNode(c) |-> nodes[n]]]
  /\ UNCHANGED <<apiVars, ctlVars, leader, budget>>

ElectUpdate(c, n) ==
  /\ n \in DOMAIN elect[c]
  /\ n \in DOMAIN nodes /\ nodes[n] = elect[c][n]
  /\ nodes' = [nodes EXCEPT ![n].gateway = ~@]
  /\ elect' = [elect EXCEPT ![c] = Remove(@, n)]
  /\ UNCHANGED <<clusters, configs, ctlVars, leader, budget>>

(* The first error ends the round. *)
ElectFails(c, n) ==
  /\ n \in DOMAIN elect[c]
  /\ \/ ~(n \in DOMAIN nodes /\ nodes[n] = elect[c][n]) /\ UNCHANGED budget
     \/ Spend("fail")
  /\ elect' = [elect EXCEPT ![c] = Empty]
  /\ UNCHANGED <<apiVars, ctlVars, leader>>

-----------------------------------------------------------------------------
(* The controller's informers and SetupWithManager. *)

SeeNodes ==
  /\ seen.nodes # nodes
  /\ seen' = [seen EXCEPT !.nodes = nodes]
  /\ queued' = TRUE
  /\ UNCHANGED <<apiVars, round, kept, electVars, budget>>

(* Seeded fault: only events of ClusterNodes are watched. *)
MapNoCluster(c) == FALSE

(* newClusterMapFunc: an event of a Cluster is an item of its first        *)
(* gateway, and nothing if it has none.                                    *)
NewClusterMapFunc(c) == \E n \in DOMAIN seen.nodes : Home[n] = c /\ seen.nodes[n].gateway

SeeCluster(c) ==
  /\ seen.clusters[c] # clusters[c]
  /\ seen' = [seen EXCEPT !.clusters[c] = clusters[c]]
  /\ queued' = (queued \/ NewClusterMapFunc(c))
  /\ UNCHANGED <<apiVars, round, kept, electVars, budget>>

SeeConfigs ==
  /\ seen.configs # configs
  /\ seen' = [seen EXCEPT !.configs = configs]
  /\ UNCHANGED <<apiVars, queued, round, kept, electVars, budget>>

-----------------------------------------------------------------------------
(* Reconcile *)

(* The MAC addresses of a device are kept from the NodeConfig in the       *)
(* cache, whose tag its devices show.                                      *)
OldTag(n) ==
  IF n \in DOMAIN seen.configs /\ seen.configs[n].spec.devices # {}
  THEN (CHOOSE d \in seen.configs[n].spec.devices : TRUE).mac[3] ELSE None

Inputs ==
  {[clusters |-> seen.clusters, nodes |-> seen.nodes, gw |-> gw, macs |-> macs] :
     gw \in {g \in [Clusters -> Nodes \union {None}] :
               \A c \in Clusters :
                 LET in == [clusters |-> seen.clusters, nodes |-> seen.nodes]
                 IN IF GatewaysOf(in, c) = {} THEN g[c] = None ELSE g[c] \in GatewaysOf(in, c)},
     macs \in {[n \in DOMAIN seen.nodes |-> IF OldTag(n) # None THEN OldTag(n) ELSE new] : new \in Tags}}

(* Lists the three kinds of object and computes. *)
ReconcileStart ==
  /\ queued /\ round.phase = "rest"
  /\ queued' = FALSE
  /\ \E in \in Inputs :
       LET new == CalculateNetworkConfigs(in)
       IN /\ round' = [phase |-> "delete", new |-> new,
                       delete |-> DOMAIN seen.configs \ DOMAIN new, write |-> DOMAIN new]
          /\ kept' = kept \union (DOMAIN configs \ (DOMAIN seen.configs \union DOMAIN new))
  /\ UNCHANGED <<apiVars, seen, electVars, budget>>

(* A list that fails leaves everything to the next try. *)
ReconcileListFails ==
  /\ queued /\ round.phase = "rest"
  /\ Spend("fail")
  /\ UNCHANGED <<apiVars, ctlVars, electVars>>

(* The cache follows a write at once; that it falls behind is counted as a *)
(* disturbance.                                                            *)
Follow ==
  \/ seen' = [seen EXCEPT !.configs = configs'] /\ UNCHANGED budget
  \/ Spend("stale") /\ configs' # configs /\ UNCHANGED seen

DeleteConfig(n) ==
  /\ round.phase = "delete" /\ n \in round.delete
  /\ round' = [round EXCEPT !.delete = @ \ {n}]
  /\ configs' = Remove(configs, n) /\ Follow
  /\ kept' = kept \ {n}
  /\ UNCHANGED <<clusters, nodes, queued, electVars>>

(* A failed deletion is logged and passed over. *)
DeleteFails(n) ==
  /\ round.phase = "delete" /\ n \in round.delete
  /\ Spend("undeleted")
  /\ round' = [round EXCEPT !.delete = @ \ {n}]
  /\ kept' = kept \union {n}
  /\ UNCHANGED <<apiVars, seen, queued, electVars>>

(* controllerutil.CreateOrUpdate: the object is read from the cache; one   *)
(* that is not there is created, one that differs is updated with the      *)
(* version of the cache.  The annotation prev, the spec before this write, *)
(* makes an object differ that was not written twice alike.                *)
CreateOrUpdate(n) ==
  LET new == round.new[n]
      old == seen.configs[n]
      known == n \in DOMAIN seen.configs
      there == n \in DOMAIN configs
  IN \/ /\ ~known /\ ~there
        /\ configs' = Put(configs, n, [spec |-> new, twice |-> FALSE])
     \/ /\ known /\ old.spec = new /\ old.twice
        /\ UNCHANGED configs
     \/ /\ known /\ ~(old.spec = new /\ old.twice)
        /\ there /\ configs[n] = old
        /\ configs' = Put(configs, n, [spec |-> new, twice |-> old.spec = new])

Refused(n) ==
  LET known == n \in DOMAIN seen.configs
      there == n \in DOMAIN configs
  IN \/ ~known /\ there
     \/ /\ known /\ ~(seen.configs[n].spec = round.new[n] /\ seen.configs[n].twice)
        /\ ~(there /\ configs[n] = seen.configs[n])

(* The cache already shows what is wanted, and the API server does not.    *)
SkippedOnStale(n) ==
  /\ n \in DOMAIN seen.configs /\ seen.configs[n].spec = round.new[n] /\ seen.configs[n].twice
  /\ ~(n \in DOMAIN configs /\ configs[n] = seen.configs[n])

WriteConfig(n) ==
  /\ round.phase = "delete" /\ round.delete = {} /\ n \in round.write
  /\ CreateOrUpdate(n) /\ Follow
  /\ round' = IF round.write = {n} THEN Resting ELSE [round EXCEPT !.write = @ \ {n}]
  /\ kept' = IF SkippedOnStale(n) THEN kept \union {n} ELSE kept \ {n}
  /\ UNCHANGED <<clusters, nodes, queued, electVars>>

(* Seeded fault: a failed write is passed over like a failed deletion. *)
WriteFailsPassed(n) ==
  /\ round.phase = "delete" /\ round.delete = {} /\ n \in round.write
  /\ \/ Refused(n) /\ UNCHANGED budget
     \/ Spend("fail")
  /\ round' = IF round.write = {n} THEN Resting ELSE [round EXCEPT !.write = @ \ {n}]
  /\ UNCHANGED <<apiVars, seen, queued, kept, electVars>>

(* The first write that fails ends the round, and the item comes again. *)
WriteFails(n) ==
  /\ round.phase = "delete" /\ round.delete = {} /\ n \in round.write
  /\ \/ Refused(n) /\ UNCHANGED budget
     \/ Spend("fail")
  /\ round' = Resting /\ queued' = TRUE
  /\ UNCHANGED <<apiVars, seen, kept, electVars>>

NothingToDo ==
  /\ round.phase = "delete" /\ round.delete = {} /\ round.write = {}
  /\ round' = Resting
  /\ UNCHANGED <<apiVars, seen, queued, kept, electVars, budget>>

(* A new process lists everything; all objects are new to it, but without  *)
(* a ClusterNode there is no item, and the NodeConfigs stay.               *)
Restart ==
  /\ Spend("restart")
  /\ seen' = [clusters |-> clusters, nodes |-> nodes, configs |-> configs]
  /\ round' = Resting /\ queued' = (DOMAIN nodes # {})
  /\ kept' = IF DOMAIN nodes = {} THEN kept \union DOMAIN configs ELSE kept
  /\ UNCHANGED <<apiVars, electVars>>

-----------------------------------------------------------------------------

Env ==
  \/ \E n \in Nodes : ChangeNode(n)
  \/ \E c \in Clusters : ChangeCluster(c) \/ ChangeLeader(c)
  \/ Restart

Elector == \E c \in Clusters : ElectStart(c) \/ \E n \in Nodes : ElectUpdate(c, n) \/ ElectFails(c, n)

Informers == SeeNodes \/ SeeConfigs \/ \E c \in Clusters : SeeCluster(c)

Reconcile ==
  \/ ReconcileStart \/ ReconcileListFails \/ NothingToDo
  \/ \E n \in Nodes : DeleteConfig(n) \/ DeleteFails(n) \/ WriteConfig(n) \/ WriteFails(n)

Next == Env \/ Elector \/ Informers \/ Reconcile

(* The electors' loop, the watches and the workers go on; the failures are *)
(* disturbances, which run out.                                            *)
Fairness ==
  /\ WF_vars(Elector)
  /\ WF_vars(SeeNodes) /\ WF_vars(SeeConfigs) /\ \A c \in Clusters : WF_vars(SeeCluster(c))
  /\ WF_vars(Reconcile)

Spec == Init /\ [][Next]_vars /\ Fairness

-----------------------------------------------------------------------------

ClusterObjs ==
  {f \in [Clusters -> UNION {Specs[c] : c \in Clusters}] : \A c \in Clusters : f[c] \in Specs[c]}

NodeObj(n) == {ClusterNode(n, a, g) : a \in Addrs[n], g \in BOOLEAN}

NodesOK(f) == DOMAIN f \subseteq Nodes /\ \A n \in DOMAIN f : f[n] \in NodeObj(n)

ConfigsOK(f) == DOMAIN f \subseteq Nodes /\ \A n \in DOMAIN f : f[n].twice \in BOOLEAN

TypeOK ==
  /\ clusters \in ClusterObjs /\ NodesOK(nodes) /\ ConfigsOK(configs)
  /\ seen = [clusters |-> seen.clusters, nodes |-> seen.nodes, configs |-> seen.configs]
  /\ seen.clusters \in ClusterObjs /\ NodesOK(seen.nodes) /\ ConfigsOK(seen.configs)
  /\ round = [phase |-> round.phase, new |-> round.new, delete |-> round.delete, write |-> round.write]
  /\ round.phase \in {"rest", "delete"} /\ (round.phase = "rest" => round = Resting)
  /\ DOMAIN round.new \subseteq Nodes /\ round.write \subseteq DOMAIN round.new
  /\ round.delete \subseteq Nodes
  /\ queued \in BOOLEAN /\ kept \subseteq Nodes
  /\ leader \in [Clusters -> Nodes]
  /\ elect = [c \in Clusters |-> elect[c]] /\ \A c \in Clusters : NodesOK(elect[c])
  /\ budget \in [Disturbances -> Nat]

(* Nothing is on its way to the controller or in its hands. *)
Quiet ==
  /\ seen.nodes = nodes /\ seen.clusters = clusters /\ seen.configs = configs
  /\ ~queued /\ round = Resting

GatewayOf(c) == {n \in DOMAIN nodes : Home[n] = c /\ nodes[n].gateway}

(* The input of a computation on the objects of the API server. *)
World ==
  LET in == [clusters |-> clusters, nodes |-> nodes]
  IN [clusters |-> clusters, nodes |-> nodes,
      gw |-> [c \in Clusters |-> IF GatewaysOf(in, c) = {} THEN None
                                 ELSE CHOOSE n \in GatewaysOf(in, c) : TRUE]]

(* Every cluster that has nodes has one gateway. *)
OneGateway ==
  \A c \in Clusters :
    (\E n \in DOMAIN nodes : Home[n] = c) => \E g \in DOMAIN nodes : GatewayOf(c) = {g}

(* No two nodes get the same overlay address: their underlay addresses     *)
(* differ in the host part that the overlay subnets leave.                 *)
DistinctHosts ==
  \A n, m \in ValidNodes(World), d \in Device :
    (n # m /\ NeedToCreate(World, n, d) /\ NeedToCreate(World, m, d)) =>
      GenerateVxlanIP(nodes[n].ips[d[2]], clusters[Home[n]].subnets[d[1]][d[2]])
        # GenerateVxlanIP(nodes[m].ips[d[2]], clusters[Home[m]].subnets[d[1]][d[2]])

(* The node that a packet for the CIDR comes to next: the neighbour of the *)
(* route's device whose forwarding entry leads to a node that really has   *)
(* the device with that address.                                           *)
NextHops(n, cidr) ==
  {m \in IF n \in DOMAIN configs THEN DOMAIN configs \intersect DOMAIN nodes ELSE {} :
     \E r \in configs[n].spec.routes, a \in configs[n].spec.arps, f \in configs[n].spec.fdbs :
       /\ r.cidr = cidr /\ a.dev = r.dev /\ f.dev = r.dev
       /\ a.ip = r.gw /\ f.mac = a.mac
       /\ \E d \in configs[n].spec.devices : d.name = r.dev
       /\ r.dev[2] \in DOMAIN nodes[m].ips /\ nodes[m].ips[r.dev[2]] = f.ip
       /\ [name |-> r.dev, addr |-> r.gw, mac |-> a.mac] \in configs[m].spec.devices}

(* The NodeConfigs fit together.  Once the controller is at rest, whatever *)
(* nodes, clusters, gateways and failed requests came before, a packet     *)
(* from any node for a CIDR of another cluster is led, hop by hop through  *)
(* the routes, neighbours, forwarding entries and devices of the           *)
(* NodeConfigs, to the node that serves the CIDR - directly or over its    *)
(* own cluster's gateway - unless the CIDR is also one of its own cluster, *)
(* whose traffic is never led away, or a stale cache kept the write of one *)
(* of the NodeConfigs on the way from being made.                          *)
Forwards ==
  (Quiet /\ OneGateway /\ DistinctHosts) =>
    \A n \in ValidNodes(World) \ kept, t \in Speakers(World) \ kept :
      LET own == clusters[Home[n]]
          gw == World.gw[Home[n]]
      IN Home[n] # Home[t] =>
           \A cidr \in ServedCIDRs(World, t) :
             IF \E c \in own.podCIDRs \union own.serviceCIDRs : Intersect(c, cidr)
             THEN NextHops(n, cidr) = {}
             ELSE (Family[cidr] \in own.families /\ (own.p2p \/ gw # None) /\ gw \notin kept) =>
                    \/ NextHops(n, cidr) = {t}
                    \/ NextHops(n, cidr) = {gw} /\ NextHops(gw, cidr) = {t}

(* A controller at rest has a NodeConfig for exactly the nodes that take   *)
(* part.  One too many is one whose deletion failed, that the cache did    *)
(* not show yet when its node went, or that a new process found and no     *)
(* node; one too few is one that the cache still showed when its node came *)
(* back.  Reconcile repeats none of them.                                  *)
OnlyKeptLinger ==
  (Quiet /\ OneGateway) => DOMAIN configs \ kept = ValidNodes(World) \ kept

(* When nothing disturbs them any more, the electors make every leader     *)
(* whose node is there the one gateway of its cluster, and the controller  *)
(* comes to rest.                                                          *)
Converges ==
  <>[](/\ Quiet
       /\ \A c \in Clusters : GatewayOf(c) = {leader[c]} \intersect DOMAIN nodes)

=============================================================================
