------------------------- MODULE NetworkManagerProofs -------------------------
(***************************************************************************)
(* Proofs about NetworkManager: the types of its state, and that a         *)
(* controller at rest has a NodeConfig for just the nodes that take part,  *)
(* up to those it is known to have kept as they were.                      *)
(***************************************************************************)
EXTENDS NetworkManager, TLAPS

(***************************************************************************)
(*                         Objects and functions                           *)
(***************************************************************************)

(* A ClusterNode is made of an address and a role.                         *)
LEMMA NodeMade ==
  ASSUME NEW n \in Nodes, NEW a \in Addrs[n], NEW g \in BOOLEAN
  PROVE  ClusterNode(n, a, g) \in NodeObj(n)
  BY DEF NodeObj

LEMMA RolesMade ==
  ASSUME NEW n \in Nodes, NEW a \in Addrs[n]
  PROVE  ClusterNode(n, a, TRUE) \in NodeObj(n) /\ ClusterNode(n, a, FALSE) \in NodeObj(n)
<1>1. TRUE \in BOOLEAN /\ FALSE \in BOOLEAN
  OBVIOUS
<1> QED
  BY <1>1, NodeMade, Zenon

(* The role is one field of a ClusterNode.                                 *)
LEMMA RoleField ==
  ASSUME NEW n, NEW a, NEW g, NEW h
  PROVE  [ClusterNode(n, a, g) EXCEPT !.gateway = h] = ClusterNode(n, a, h)
<1>1. \A c, i, s, p :
        [[cluster |-> c, nic |-> i, ips |-> s, gateway |-> g, podCIDRs |-> p] EXCEPT !.gateway = h]
          = [cluster |-> c, nic |-> i, ips |-> s, gateway |-> h, podCIDRs |-> p]
  OBVIOUS
<1> DEFINE i == a # None
           s == IF a = None THEN <<>> ELSE a
<1>2. ClusterNode(n, a, g) = [cluster |-> Home[n], nic |-> i, ips |-> s, gateway |-> g, podCIDRs |-> PodNets[n]]
  BY Zenon DEF ClusterNode
<1>3. ClusterNode(n, a, h) = [cluster |-> Home[n], nic |-> i, ips |-> s, gateway |-> h, podCIDRs |-> PodNets[n]]
  BY Zenon DEF ClusterNode
<1> HIDE DEF i, s
<1> QED
  BY <1>1, <1>2, <1>3

(* Every ClusterNode names the cluster of its node.                        *)
LEMMA NodeFields ==
  ASSUME NEW n \in Nodes, NEW x \in NodeObj(n)
  PROVE  /\ x.cluster = Home[n] /\ x.gateway \in BOOLEAN
         /\ [x EXCEPT !.gateway = ~@] \in NodeObj(n)
         /\ \A a \in Addrs[n] : ClusterNode(n, a, x.gateway) \in NodeObj(n)
<1>1. PICK a \in Addrs[n], g \in BOOLEAN : x = ClusterNode(n, a, g)
  BY DEF NodeObj
<1>2. x.cluster = Home[n] /\ x.gateway = g
  BY <1>1 DEF ClusterNode
<1>3. \E h \in BOOLEAN : h = ~x.gateway
  BY <1>2
<1>4. PICK h \in BOOLEAN : h = ~x.gateway
  BY <1>3
<1>5. [x EXCEPT !.gateway = ~@] = [x EXCEPT !.gateway = h]
  BY <1>4
<1>6. [x EXCEPT !.gateway = h] = ClusterNode(n, a, h)
  BY <1>1, RoleField
<1>7. ClusterNode(n, a, h) \in NodeObj(n)
  BY <1>4, NodeMade
<1>8. \A b \in Addrs[n] : ClusterNode(n, b, g) \in NodeObj(n)
  BY <1>1, NodeMade
<1> QED
  BY <1>1, <1>2, <1>5, <1>6, <1>7, <1>8

(* Put and Remove on the nodes keep them well formed.                      *)
LEMMA NodesChange ==
  ASSUME NEW f, NodesOK(f), NEW n \in Nodes
  PROVE  /\ NodesOK(Remove(f, n))
         /\ \A x \in NodeObj(n) : NodesOK(Put(f, n, x))
         /\ n \in DOMAIN f => NodesOK([f EXCEPT ![n].gateway = ~@])
<1>1. NodesOK(Remove(f, n))
  BY DEF NodesOK, Remove
<1>2. ASSUME NEW x \in NodeObj(n) PROVE NodesOK(Put(f, n, x))
  BY DEF NodesOK, Put
<1>3. ASSUME n \in DOMAIN f PROVE NodesOK([f EXCEPT ![n].gateway = ~@])
  <2> DEFINE y == [f[n] EXCEPT !.gateway = ~@]
  <2>1. f[n] \in NodeObj(n)
    BY <1>3 DEF NodesOK
  <2>2. y \in NodeObj(n)
    BY <2>1, NodeFields
  <2>3. [f EXCEPT ![n].gateway = ~@] = [f EXCEPT ![n] = y]
    OBVIOUS
  <2> HIDE DEF y
  <2>4. NodesOK([f EXCEPT ![n] = y])
    BY <1>3, <2>2 DEF NodesOK
  <2> QED
    BY <2>3, <2>4
<1> QED
  BY <1>1, <1>2, <1>3

(* So do Put and Remove on the NodeConfigs.                                *)
LEMMA ConfigsChange ==
  ASSUME NEW f, ConfigsOK(f), NEW n \in Nodes
  PROVE  /\ ConfigsOK(Remove(f, n)) /\ DOMAIN Remove(f, n) = DOMAIN f \ {n}
         /\ \A new : \A b \in BOOLEAN : ConfigsOK(Put(f, n, [spec |-> new, twice |-> b]))
         /\ \A x : DOMAIN Put(f, n, x) = DOMAIN f \union {n}
  BY DEF ConfigsOK, Remove, Put

(* Nothing is a function on nothing.                                       *)
LEMMA EmptyOK == NodesOK(Empty) /\ ConfigsOK(Empty) /\ DOMAIN Empty = {}
  BY DEF NodesOK, ConfigsOK, Empty

(***************************************************************************)
(*                               Typing                                    *)
(***************************************************************************)

SeenOK(s) ==
  /\ s = [clusters |-> s.clusters, nodes |-> s.nodes, configs |-> s.configs]
  /\ s.clusters \in ClusterObjs /\ NodesOK(s.nodes) /\ ConfigsOK(s.configs)

RoundOK(r) ==
  /\ r = [phase |-> r.phase, new |-> r.new, delete |-> r.delete, write |-> r.write]
  /\ r.phase \in {"rest", "delete"} /\ (r.phase = "rest" => r = Resting)
  /\ DOMAIN r.new \subseteq Nodes /\ r.write \subseteq DOMAIN r.new
  /\ r.delete \subseteq Nodes

(* A round at rest is one that has nothing in hand.                        *)
LEMMA RestOK == RoundOK(Resting) /\ Resting.phase = "rest" /\ Resting.new = Empty
  BY EmptyOK DEF RoundOK, Resting

(* The controller's caches follow the API server.                          *)
LEMMA SeenChange ==
  ASSUME NEW s, SeenOK(s)
  PROVE  /\ \A f : NodesOK(f) => SeenOK([s EXCEPT !.nodes = f])
         /\ \A f : ConfigsOK(f) => SeenOK([s EXCEPT !.configs = f])
         /\ \A c \in Clusters : \A o \in Specs[c] : SeenOK([s EXCEPT !.clusters[c] = o])
<1>1. ASSUME NEW f, NodesOK(f) PROVE SeenOK([s EXCEPT !.nodes = f])
  BY <1>1 DEF SeenOK
<1>2. ASSUME NEW f, ConfigsOK(f) PROVE SeenOK([s EXCEPT !.configs = f])
  BY <1>2 DEF SeenOK
<1>3. ASSUME NEW c \in Clusters, NEW o \in Specs[c] PROVE SeenOK([s EXCEPT !.clusters[c] = o])
  <2> DEFINE g == [s.clusters EXCEPT ![c] = o]
  <2>1. g \in ClusterObjs
    BY <1>3 DEF SeenOK, ClusterObjs
  <2>2. [s EXCEPT !.clusters[c] = o] = [s EXCEPT !.clusters = g]
    OBVIOUS
  <2> HIDE DEF g
  <2>3. SeenOK([s EXCEPT !.clusters = g])
    BY <2>1 DEF SeenOK
  <2> QED
    BY <2>2, <2>3
<1> QED
  BY <1>1, <1>2, <1>3

(* The type invariant is about the caches and the round as a whole.        *)
LEMMA TypeParts ==
  TypeOK <=>
    /\ clusters \in ClusterObjs /\ NodesOK(nodes) /\ ConfigsOK(configs)
    /\ SeenOK(seen) /\ RoundOK(round)
    /\ queued \in BOOLEAN /\ kept \subseteq Nodes
    /\ leader \in [Clusters -> Nodes]
    /\ elect = [c \in Clusters |-> elect[c]] /\ \A c \in Clusters : NodesOK(elect[c])
    /\ budget \in [Disturbances -> Nat]
  BY DEF TypeOK, SeenOK, RoundOK

(* At the start the caches are the API server's contents.                  *)
LEMMA InitType == Init => TypeOK
<1> SUFFICES ASSUME Init PROVE TypeOK
  OBVIOUS
<1>1. clusters \in ClusterObjs
  BY DEF Init, ClusterObjs
<1>2. NodesOK(nodes)
  <2>1. PICK f \in [Nodes -> UNION {Addrs[n] : n \in Nodes}] :
          /\ \A n \in Nodes : f[n] \in Addrs[n]
          /\ nodes = [n \in Nodes |-> ClusterNode(n, f[n], n \in {leader[c] : c \in Clusters})]
    BY DEF Init
  <2>2. ASSUME NEW n \in Nodes PROVE nodes[n] \in NodeObj(n)
    <3>1. f[n] \in Addrs[n]
      BY <2>1
    <3>2. CASE n \in {leader[c] : c \in Clusters}
      <4>1. nodes[n] = ClusterNode(n, f[n], TRUE)
        BY <2>1, <3>2
      <4> QED
        BY <3>1, <4>1, RolesMade
    <3>3. CASE n \notin {leader[c] : c \in Clusters}
      <4>1. (n \in {leader[c] : c \in Clusters}) = FALSE
        BY <3>3
      <4>2. nodes[n] = ClusterNode(n, f[n], n \in {leader[c] : c \in Clusters})
        BY <2>1
      <4>3. nodes[n] = ClusterNode(n, f[n], FALSE)
        BY <4>1, <4>2, Zenon
      <4> QED
        BY <3>1, <4>3, RolesMade
    <3> QED
      BY <3>2, <3>3
  <2> QED
    BY <2>1, <2>2 DEF NodesOK
<1>3. configs = Empty /\ seen = [clusters |-> clusters, nodes |-> nodes, configs |-> configs]
  BY DEF Init
<1>4. ConfigsOK(configs) /\ SeenOK(seen)
  BY <1>1, <1>2, <1>3, EmptyOK DEF SeenOK
<1>5. RoundOK(round)
  BY RestOK DEF Init
<1>6. queued \in BOOLEAN /\ kept \subseteq Nodes /\ leader \in [Clusters -> Nodes]
  BY DEF Init
<1>7. elect = [c \in Clusters |-> elect[c]] /\ \A c \in Clusters : NodesOK(elect[c])
  BY EmptyOK DEF Init
<1>8. budget \in [Disturbances -> Nat]
  BY BudgetAssumption DEF Init
<1> QED
  BY <1>1, <1>2, <1>4, <1>5, <1>6, <1>7, <1>8, TypeParts

(* What a disturbance costs.                                               *)
LEMMA SpendType ==
  ASSUME budget \in [Disturbances -> Nat], NEW e \in Disturbances, Spend(e)
  PROVE  budget' \in [Disturbances -> Nat]
  BY DEF Spend

(* The conjuncts of the type invariant that the users' steps can disturb.  *)
LEMMA EnvType == TypeOK /\ Env => TypeOK'
<1> SUFFICES ASSUME TypeOK, Env PROVE TypeOK'
  OBVIOUS
<1> USE TypeParts
<1>1. ASSUME NEW n \in Nodes, ChangeNode(n) PROVE TypeOK'
  <2>1. UNCHANGED <<clusters, configs, seen, queued, round, kept, leader, elect>>
    BY <1>1 DEF ChangeNode, ctlVars, electVars
  <2>2. budget' \in [Disturbances -> Nat]
    BY <1>1, SpendType DEF ChangeNode, Disturbances
  <2>3. NodesOK(nodes')
    <3>1. CASE nodes' = Remove(nodes, n)
      BY <3>1, NodesChange
    <3>2. CASE nodes' = Put(nodes, n, ClusterNode(n, None, FALSE))
      <4>1. ClusterNode(n, None, FALSE) \in NodeObj(n)
        BY AddrsAssumption, RolesMade
      <4> QED
        BY <3>2, <4>1, NodesChange
    <3>3. ASSUME n \in DOMAIN nodes, NEW a \in Addrs[n],
                 nodes' = Put(nodes, n, ClusterNode(n, a, nodes[n].gateway))
          PROVE  NodesOK(nodes')
      <4>1. nodes[n] \in NodeObj(n)
        BY <3>3 DEF NodesOK
      <4>2. ClusterNode(n, a, nodes[n].gateway) \in NodeObj(n)
        BY <4>1, NodeFields
      <4> QED
        BY <3>3, <4>2, NodesChange
    <3> QED
      BY <1>1, <3>1, <3>2, <3>3 DEF ChangeNode
  <2> QED
    BY <2>1, <2>2, <2>3 DEF TypeOK
<1>2. ASSUME NEW c \in Clusters, ChangeCluster(c) PROVE TypeOK'
  <2>1. UNCHANGED <<nodes, configs, seen, queued, round, kept, leader, elect>>
    BY <1>2 DEF ChangeCluster, ctlVars, electVars
  <2>2. budget' \in [Disturbances -> Nat]
    BY <1>2, SpendType DEF ChangeCluster, Disturbances
  <2>3. clusters' \in ClusterObjs
    BY <1>2 DEF ChangeCluster, ClusterObjs
  <2> QED
    BY <2>1, <2>2, <2>3 DEF TypeOK
<1>3. ASSUME NEW c \in Clusters, ChangeLeader(c) PROVE TypeOK'
  <2>1. UNCHANGED <<clusters, nodes, configs, seen, queued, round, kept>>
    BY <1>3 DEF ChangeLeader, ctlVars, apiVars
  <2>2. budget' \in [Disturbances -> Nat]
    BY <1>3, SpendType DEF ChangeLeader, Disturbances
  <2>3. leader' \in [Clusters -> Nodes]
    BY <1>3 DEF ChangeLeader
  <2>4. elect' = [c2 \in Clusters |-> elect'[c2]] /\ \A c2 \in Clusters : NodesOK(elect'[c2])
    BY <1>3, EmptyOK DEF ChangeLeader
  <2> QED
    BY <2>1, <2>2, <2>3, <2>4 DEF TypeOK
<1>4. ASSUME Restart PROVE TypeOK'
  <2>1. UNCHANGED <<clusters, nodes, configs, leader, elect>> /\ round' = Resting
        /\ seen' = [clusters |-> clusters, nodes |-> nodes, configs |-> configs]
        /\ queued' \in BOOLEAN
        /\ kept' \subseteq kept \union DOMAIN configs
    BY <1>4 DEF Restart, apiVars, electVars
  <2>2. budget' \in [Disturbances -> Nat]
    BY <1>4, SpendType DEF Restart, Disturbances
  <2>3. SeenOK(seen') /\ RoundOK(round')
    BY <2>1, RestOK DEF SeenOK
  <2>4. kept' \subseteq Nodes
    BY <2>1 DEF ConfigsOK
  <2> QED
    BY <2>1, <2>2, <2>3, <2>4 DEF TypeOK, SeenOK, RoundOK
<1> QED
  BY <1>1, <1>2, <1>3, <1>4 DEF Env

(* The electors list the nodes and change their role one by one.           *)
LEMMA ElectorType == TypeOK /\ Elector => TypeOK'
<1> SUFFICES ASSUME TypeOK, NEW c \in Clusters,
                    ElectStart(c) \/ \E n \in Nodes : ElectUpdate(c, n) \/ ElectFails(c, n)
             PROVE  TypeOK'
  BY DEF Elector
<1> USE TypeParts
<1>1. UNCHANGED <<clusters, configs, seen, queued, round, kept, leader>>
  BY DEF ElectStart, ElectUpdate, ElectFails, apiVars, ctlVars
<1>2. CASE ElectStart(c)
  <2> DEFINE new == [n \in GenModifyNode(c) |-> nodes[n]]
  <2>1. NodesOK(new)
    BY DEF NodesOK, GenModifyNode
  <2>2. elect' = [elect EXCEPT ![c] = new] /\ UNCHANGED <<nodes, budget>>
    BY <1>2 DEF ElectStart, apiVars
  <2> HIDE DEF new
  <2>3. elect' = [d \in Clusters |-> elect'[d]] /\ \A d \in Clusters : NodesOK(elect'[d])
    BY <2>1, <2>2
  <2> QED
    BY <1>1, <2>2, <2>3 DEF TypeOK
<1>3. ASSUME NEW n \in Nodes, ElectUpdate(c, n) PROVE TypeOK'
  <2>1. NodesOK(nodes')
    BY <1>3, NodesChange DEF ElectUpdate
  <2>2. elect' = [elect EXCEPT ![c] = Remove(elect[c], n)] /\ budget' = budget
    BY <1>3 DEF ElectUpdate
  <2>3. NodesOK(Remove(elect[c], n))
    BY NodesChange
  <2>4. elect' = [d \in Clusters |-> elect'[d]] /\ \A d \in Clusters : NodesOK(elect'[d])
    BY <2>2, <2>3
  <2> QED
    BY <1>1, <2>1, <2>2, <2>4 DEF TypeOK
<1>4. ASSUME NEW n \in Nodes, ElectFails(c, n) PROVE TypeOK'
  <2>1. nodes' = nodes /\ elect' = [elect EXCEPT ![c] = Empty]
    BY <1>4 DEF ElectFails, apiVars
  <2>2. budget' \in [Disturbances -> Nat]
    BY <1>4, SpendType DEF ElectFails, Disturbances
  <2>3. elect' = [d \in Clusters |-> elect'[d]] /\ \A d \in Clusters : NodesOK(elect'[d])
    BY <2>1, EmptyOK
  <2> QED
    BY <1>1, <2>1, <2>2, <2>3 DEF TypeOK
<1> QED
  BY <1>2, <1>3, <1>4

(* The informers replace one part of the caches.                           *)
LEMMA InformersType == TypeOK /\ Informers => TypeOK'
<1> SUFFICES ASSUME TypeOK, Informers PROVE TypeOK'
  OBVIOUS
<1> USE TypeParts
<1>1. UNCHANGED <<clusters, nodes, configs, round, kept, leader, elect, budget>>
  BY DEF Informers, SeeNodes, SeeConfigs, SeeCluster, apiVars, electVars
<1>2. CASE SeeNodes
  <2>1. SeenOK(seen') /\ queued' \in BOOLEAN
    BY <1>2, SeenChange DEF SeeNodes
  <2> QED
    BY <1>1, <2>1 DEF TypeOK, SeenOK
<1>3. CASE SeeConfigs
  <2>1. SeenOK(seen') /\ queued' = queued
    BY <1>3, SeenChange DEF SeeConfigs
  <2> QED
    BY <1>1, <2>1 DEF TypeOK, SeenOK
<1>4. ASSUME NEW c \in Clusters, SeeCluster(c) PROVE TypeOK'
  <2>1. clusters[c] \in Specs[c]
    BY DEF ClusterObjs
  <2>2. SeenOK(seen')
    BY <1>4, <2>1, SeenChange DEF SeeCluster
  <2>3. queued' \in BOOLEAN
    BY <1>4 DEF SeeCluster
  <2> QED
    BY <1>1, <2>2, <2>3 DEF TypeOK, SeenOK
<1> QED
  BY <1>2, <1>3, <1>4 DEF Informers

(* A computation is about the nodes that its picture has.                  *)
LEMMA NewDomain ==
  ASSUME NEW i \in Inputs
  PROVE  DOMAIN CalculateNetworkConfigs(i) = ValidNodes(seen)
<1>1. i.clusters = seen.clusters /\ i.nodes = seen.nodes
  BY DEF Inputs
<1>2. ValidNodes(i) = ValidNodes(seen)
  BY <1>1 DEF ValidNodes, ValidClusters
<1> QED
  BY <1>2 DEF CalculateNetworkConfigs

(* What the start of a round takes in hand.                                *)
LEMMA StartTakes ==
  ASSUME TypeOK, ReconcileStart
  PROVE  /\ round' = [phase |-> "delete", new |-> round'.new, delete |-> round'.delete, write |-> round'.write]
         /\ DOMAIN round'.new = ValidNodes(seen) /\ round'.write = DOMAIN round'.new
         /\ round'.delete = DOMAIN seen.configs \ DOMAIN round'.new
         /\ kept' = kept \union (DOMAIN configs \ (DOMAIN seen.configs \union DOMAIN round'.new))
         /\ queued' = FALSE
         /\ UNCHANGED <<clusters, nodes, configs, seen, leader, elect, budget>>
<1>1. PICK i \in Inputs :
        /\ round' = [phase |-> "delete", new |-> CalculateNetworkConfigs(i),
                     delete |-> DOMAIN seen.configs \ DOMAIN CalculateNetworkConfigs(i),
                     write |-> DOMAIN CalculateNetworkConfigs(i)]
        /\ kept' = kept \union (DOMAIN configs \ (DOMAIN seen.configs \union DOMAIN CalculateNetworkConfigs(i)))
  BY DEF ReconcileStart
<1> DEFINE new == CalculateNetworkConfigs(i)
<1>2. DOMAIN new = ValidNodes(seen)
  BY NewDomain
<1>3. UNCHANGED <<clusters, nodes, configs, seen, leader, elect, budget>> /\ queued' = FALSE
  BY DEF ReconcileStart, apiVars, electVars
<1> HIDE DEF new
<1> QED
  BY <1>1, <1>2, <1>3 DEF new

(* The valid nodes are nodes.                                              *)
LEMMA ValidAreNodes == TypeOK => ValidNodes(seen) \subseteq Nodes /\ ValidNodes(seen) \subseteq DOMAIN seen.nodes
  BY DEF TypeOK, ValidNodes, NodesOK

(* The cache follows a write or falls behind.                              *)
LEMMA FollowType ==
  ASSUME TypeOK, Follow, ConfigsOK(configs')
  PROVE  /\ SeenOK(seen') /\ seen'.nodes = seen.nodes /\ seen'.clusters = seen.clusters
         /\ budget' \in [Disturbances -> Nat]
<1> USE TypeParts
<1>1. CASE seen' = [seen EXCEPT !.configs = configs'] /\ UNCHANGED budget
  <2>1. SeenOK(seen')
    BY <1>1, SeenChange
  <2>2. seen'.nodes = seen.nodes /\ seen'.clusters = seen.clusters
    BY <1>1 DEF SeenOK
  <2> QED
    BY <1>1, <2>1, <2>2
<1>2. CASE Spend("stale") /\ UNCHANGED seen
  BY <1>2, SpendType DEF Disturbances
<1> QED
  BY <1>1, <1>2 DEF Follow

(* What a write that is made or skipped does.                              *)
LEMMA WriteEffect ==
  ASSUME TypeOK, NEW n \in Nodes, CreateOrUpdate(n)
  PROVE  /\ ConfigsOK(configs')
         /\ DOMAIN configs \subseteq DOMAIN configs' /\ DOMAIN configs' \subseteq DOMAIN configs \union {n}
         /\ ~SkippedOnStale(n) => n \in DOMAIN configs'
<1> USE TypeParts
<1>1. CASE UNCHANGED configs /\ n \in DOMAIN seen.configs
           /\ seen.configs[n].spec = round.new[n] /\ seen.configs[n].twice
  BY <1>1 DEF SkippedOnStale
<1>2. ASSUME NEW b \in BOOLEAN, configs' = Put(configs, n, [spec |-> round.new[n], twice |-> b])
      PROVE  ConfigsOK(configs') /\ DOMAIN configs' = DOMAIN configs \union {n}
  BY <1>2, ConfigsChange
<1>3. (seen.configs[n].spec = round.new[n]) \in BOOLEAN
  OBVIOUS
<1>4. CASE configs' = Put(configs, n, [spec |-> round.new[n], twice |-> FALSE])
  BY <1>2, <1>4
<1>5. CASE configs' = Put(configs, n, [spec |-> round.new[n], twice |-> seen.configs[n].spec = round.new[n]])
  BY <1>2, <1>3, <1>5
<1> QED
  BY <1>1, <1>4, <1>5 DEF CreateOrUpdate

(* The controller's own steps.                                             *)
LEMMA ReconcileType == TypeOK /\ Reconcile => TypeOK'
<1> SUFFICES ASSUME TypeOK, Reconcile PROVE TypeOK'
  OBVIOUS
<1> USE TypeParts
<1>1. CASE ReconcileStart
  <2>1. RoundOK(round') /\ kept' \subseteq Nodes
    BY StartTakes, <1>1, ValidAreNodes DEF RoundOK, SeenOK, ConfigsOK
  <2> QED
    BY <2>1, StartTakes, <1>1 DEF TypeOK, RoundOK
<1>2. CASE ReconcileListFails
  <2>1. UNCHANGED <<clusters, nodes, configs, seen, queued, round, kept, leader, elect>>
    BY <1>2 DEF ReconcileListFails, apiVars, ctlVars, electVars
  <2>2. budget' \in [Disturbances -> Nat]
    BY <1>2, SpendType DEF ReconcileListFails, Disturbances
  <2> QED
    BY <2>1, <2>2 DEF TypeOK
<1>3. CASE NothingToDo
  <2>1. UNCHANGED <<clusters, nodes, configs, seen, queued, kept, leader, elect, budget>> /\ round' = Resting
    BY <1>3 DEF NothingToDo, apiVars, electVars
  <2>2. RoundOK(round')
    BY <2>1, RestOK
  <2> QED
    BY <2>1, <2>2 DEF TypeOK, RoundOK
<1>4. ASSUME NEW n \in Nodes, DeleteConfig(n) PROVE TypeOK'
  <2>1. UNCHANGED <<clusters, nodes, queued, leader, elect>> /\ configs' = Remove(configs, n)
        /\ kept' = kept \ {n} /\ round' = [round EXCEPT !.delete = @ \ {n}] /\ Follow
        /\ round.phase = "delete"
    BY <1>4 DEF DeleteConfig, electVars
  <2>2. ConfigsOK(configs')
    BY <2>1, ConfigsChange
  <2>3. RoundOK(round')
    BY <2>1 DEF RoundOK
  <2>4. SeenOK(seen') /\ budget' \in [Disturbances -> Nat]
    BY <2>1, <2>2, FollowType
  <2> QED
    BY <2>1, <2>2, <2>3, <2>4 DEF TypeOK, RoundOK, SeenOK
<1>5. ASSUME NEW n \in Nodes, DeleteFails(n) PROVE TypeOK'
  <2>1. UNCHANGED <<clusters, nodes, configs, seen, queued, leader, elect>>
        /\ kept' = kept \union {n} /\ round' = [round EXCEPT !.delete = @ \ {n}]
        /\ round.phase = "delete"
    BY <1>5 DEF DeleteFails, apiVars, electVars
  <2>2. budget' \in [Disturbances -> Nat]
    BY <1>5, SpendType DEF DeleteFails, Disturbances
  <2>3. RoundOK(round')
    BY <2>1 DEF RoundOK
  <2> QED
    BY <2>1, <2>2, <2>3 DEF TypeOK, RoundOK
<1>6. ASSUME NEW n \in Nodes, WriteConfig(n) PROVE TypeOK'
  <2>1. UNCHANGED <<clusters, nodes, queued, leader, elect>> /\ CreateOrUpdate(n) /\ Follow
        /\ kept' \subseteq kept \union {n}
        /\ round' \in {Resting, [round EXCEPT !.write = @ \ {n}]} /\ round.phase = "delete"
    BY <1>6 DEF WriteConfig, electVars
  <2>2. ConfigsOK(configs')
    BY <2>1, WriteEffect
  <2>3. RoundOK(round')
    BY <2>1, RestOK DEF RoundOK
  <2>4. SeenOK(seen') /\ budget' \in [Disturbances -> Nat]
    BY <2>1, <2>2, FollowType
  <2> QED
    BY <2>1, <2>2, <2>3, <2>4 DEF TypeOK, RoundOK, SeenOK
<1>7. ASSUME NEW n \in Nodes, WriteFails(n) PROVE TypeOK'
  <2>1. UNCHANGED <<clusters, nodes, configs, seen, kept, leader, elect>> /\ round' = Resting
        /\ queued' = TRUE
    BY <1>7 DEF WriteFails, apiVars, electVars
  <2>2. budget' \in [Disturbances -> Nat]
    BY <1>7, SpendType DEF WriteFails, Disturbances
  <2>3. RoundOK(round')
    BY <2>1, RestOK
  <2> QED
    BY <2>1, <2>2, <2>3 DEF TypeOK, RoundOK
<1> QED
  BY <1>1, <1>2, <1>3, <1>4, <1>5, <1>6, <1>7 DEF Reconcile

LEMMA NextType == TypeOK /\ [Next]_vars => TypeOK'
<1>1. TypeOK /\ UNCHANGED vars => TypeOK'
  BY DEF vars, apiVars, ctlVars, electVars, TypeOK
<1> QED
  BY <1>1, EnvType, ElectorType, InformersType, ReconcileType DEF Next

(* Whatever the users, electors and failed requests do, the API server's   *)
(* objects, the controller's caches and its round keep their shape.        *)
THEOREM Typing == Spec => []TypeOK
<1> QED
  BY InitType, NextType, PTL DEF Spec

(***************************************************************************)
(*                          OnlyKeptLinger                                 *)
(***************************************************************************)

(* An event of the node's Cluster, if the node is there, is not dropped.   *)
Noticed(n) == n \in DOMAIN seen.nodes => NewClusterMapFunc(Home[n])

AsSeen(S, exempt) ==
  \A n \in Nodes \ exempt : Noticed(n) => (n \in S <=> n \in ValidNodes(seen))

(* What keeps OnlyKeptLinger: a round wants a NodeConfig of just the nodes *)
(* that its picture has, unless an event has come since, and what is not   *)
(* yet so it has still to delete or to write.  Of a cluster without a      *)
(* gateway nothing can be said, as its events are dropped.                 *)
InHand ==
  /\ (round.phase = "rest" /\ ~queued) => AsSeen(DOMAIN configs, kept)
  /\ round.phase = "delete" =>
       /\ DOMAIN configs \ DOMAIN round.new \subseteq round.delete \union kept
       /\ DOMAIN round.new \subseteq round.write \union DOMAIN configs \union kept
       /\ round.delete \intersect DOMAIN round.new = {}
       /\ ~queued => AsSeen(DOMAIN round.new, {})

(* A step that leaves the round, the NodeConfigs and the controller's      *)
(* picture of nodes and clusters alone keeps it.                           *)
LEMMA HandSame ==
  ASSUME InHand, UNCHANGED <<configs, round, kept, queued>>,
         seen'.nodes = seen.nodes, seen'.clusters = seen.clusters
  PROVE  InHand'
<1>1. ValidNodes(seen)' = ValidNodes(seen)
  BY DEF ValidNodes, ValidClusters
<1>2. \A n : Noticed(n)' <=> Noticed(n)
  BY DEF Noticed, NewClusterMapFunc
<1>3. \A S, X : AsSeen(S, X)' <=> AsSeen(S, X)
  BY <1>1, <1>2 DEF AsSeen
<1> QED
  BY <1>3 DEF InHand

(* At the start an item is queued.                                         *)
LEMMA HandInit == Init => InHand
  BY RestOK DEF Init, InHand

(* A dropped event of a Cluster is about nodes that are not noticed.       *)
LEMMA HandSeeCluster ==
  ASSUME TypeOK, InHand, NEW c \in Clusters, SeeCluster(c)
  PROVE  InHand'
<1> USE TypeParts
<1>1. UNCHANGED <<configs, round, kept>> /\ seen' = [seen EXCEPT !.clusters[c] = clusters[c]]
      /\ queued' = (queued \/ NewClusterMapFunc(c))
  BY DEF SeeCluster, apiVars
<1>2. CASE queued'
  BY <1>1, <1>2 DEF InHand
<1>3. CASE ~queued'
  <2>1. ~queued /\ ~NewClusterMapFunc(c)
    BY <1>1, <1>3
  <2>2. seen'.nodes = seen.nodes /\ seen'.clusters = [seen.clusters EXCEPT ![c] = clusters[c]]
    BY <1>1 DEF SeenOK
  <2>3. DOMAIN seen'.clusters = DOMAIN seen.clusters /\ \A d \in DOMAIN seen.clusters \ {c} : seen'.clusters[d] = seen.clusters[d]
    BY <2>2
  <2>4. ASSUME NEW n \in Nodes, Noticed(n)'
        PROVE  Noticed(n) /\ (n \in ValidNodes(seen)' <=> n \in ValidNodes(seen))
    <3>1. Noticed(n)
      BY <2>2, <2>4 DEF Noticed, NewClusterMapFunc
    <3>0. seen'.nodes = seen.nodes
      BY <2>2
    <3>2. CASE n \notin DOMAIN seen.nodes
      <4>1. n \notin ValidNodes(seen)
        BY <3>2 DEF ValidNodes
      <4>2. n \notin ValidNodes(seen')
        BY <3>2, <3>0 DEF ValidNodes
      <4> QED
        BY <3>1, <4>1, <4>2
    <3>3. CASE n \in DOMAIN seen.nodes
      <4>1. Home[n] # c
        BY <2>1, <3>1, <3>3 DEF Noticed
      <4>2. seen.nodes[n].cluster = Home[n]
        BY <3>3, NodeFields, TypeParts DEF SeenOK, NodesOK
      <4>3. Home[n] \in ValidClusters(seen') <=> Home[n] \in ValidClusters(seen)
        BY <2>3, <4>1 DEF ValidClusters
      <4>4. Home[n] \in DOMAIN seen.clusters => seen'.clusters[Home[n]] = seen.clusters[Home[n]]
        BY <2>3, <4>1
      <4>5. Home[n] \in ValidClusters(seen) => Home[n] \in DOMAIN seen.clusters
        BY DEF ValidClusters
      <4>6. n \in ValidNodes(seen') <=> n \in ValidNodes(seen)
        BY <3>0, <3>3, <4>2, <4>3, <4>4, <4>5 DEF ValidNodes
      <4> QED
        BY <3>1, <4>6
    <3> QED
      BY <3>1, <3>2, <3>3
  <2>5. \A S, X : AsSeen(S, X) => AsSeen(S, X)'
    BY <2>4 DEF AsSeen
  <2> QED
    BY <1>1, <2>1, <2>5 DEF InHand
<1> QED
  BY <1>2, <1>3

(* The controller's own steps do what the round has in hand, or say what   *)
(* they kept.                                                              *)
LEMMA HandReconcile == TypeOK /\ InHand /\ Reconcile => InHand'
<1> SUFFICES ASSUME TypeOK, InHand, Reconcile PROVE InHand'
  OBVIOUS
<1> USE TypeParts
<1>1. CASE ReconcileStart
  <2>1. round'.phase = "delete"
    BY <1>1, StartTakes
  <2>2. ValidNodes(seen)' = ValidNodes(seen)
    BY <1>1, StartTakes
  <2>3. AsSeen(DOMAIN round.new, {})'
    BY <1>1, <2>2, StartTakes DEF AsSeen
  <2> QED
    BY <1>1, <2>1, <2>3, StartTakes DEF InHand
<1>2. CASE ReconcileListFails
  BY <1>2, HandSame DEF ReconcileListFails, apiVars, ctlVars
<1>3. CASE NothingToDo
  <2>1. UNCHANGED <<configs, kept, seen, queued>> /\ round' = Resting /\ round.phase = "delete"
        /\ round.delete = {} /\ round.write = {}
    BY <1>3 DEF NothingToDo, apiVars
  <2>2. ~queued => AsSeen(DOMAIN configs, kept)
    BY <2>1 DEF InHand, AsSeen
  <2>3. ~queued' => AsSeen(DOMAIN configs, kept)'
    BY <2>1, <2>2 DEF AsSeen, Noticed, NewClusterMapFunc
  <2> QED
    BY <2>1, <2>3, RestOK DEF InHand
<1>4. ASSUME NEW n \in Nodes, DeleteConfig(n) PROVE InHand'
  <2>1. queued' = queued /\ configs' = Remove(configs, n) /\ n \in round.delete
        /\ kept' = kept \ {n} /\ round' = [round EXCEPT !.delete = @ \ {n}] /\ Follow
        /\ round.phase = "delete"
    BY <1>4 DEF DeleteConfig
  <2>2. ConfigsOK(configs') /\ DOMAIN configs' = DOMAIN configs \ {n}
    BY <2>1, ConfigsChange
  <2>3. seen'.nodes = seen.nodes /\ seen'.clusters = seen.clusters
    BY <2>1, <2>2, FollowType
  <2>4. ValidNodes(seen)' = ValidNodes(seen) /\ \A m : Noticed(m)' <=> Noticed(m)
    BY <2>3 DEF ValidNodes, ValidClusters, Noticed, NewClusterMapFunc
  <2>5. round'.phase = "delete" /\ round'.new = round.new /\ round'.write = round.write
        /\ round'.delete = round.delete \ {n}
    BY <2>1 DEF RoundOK
  <2>6. ~queued' => AsSeen(DOMAIN round.new, {})'
    BY <2>1, <2>4, <2>5 DEF InHand, AsSeen
  <2> QED
    BY <2>1, <2>2, <2>5, <2>6 DEF InHand
<1>5. ASSUME NEW n \in Nodes, DeleteFails(n) PROVE InHand'
  <2>1. UNCHANGED <<configs, seen, queued>>
        /\ kept' = kept \union {n} /\ round' = [round EXCEPT !.delete = @ \ {n}]
        /\ round.phase = "delete"
    BY <1>5 DEF DeleteFails, apiVars
  <2>2. round'.phase = "delete" /\ round'.new = round.new /\ round'.write = round.write
        /\ round'.delete = round.delete \ {n}
    BY <2>1 DEF RoundOK
  <2>3. ~queued' => AsSeen(DOMAIN round.new, {})'
    BY <2>1, <2>2 DEF InHand, AsSeen, Noticed, NewClusterMapFunc
  <2> QED
    BY <2>1, <2>2, <2>3 DEF InHand
<1>6. ASSUME NEW n \in Nodes, WriteConfig(n) PROVE InHand'
  <2>1. queued' = queued /\ CreateOrUpdate(n) /\ Follow /\ n \in round.write
        /\ kept' = (IF SkippedOnStale(n) THEN kept \union {n} ELSE kept \ {n})
        /\ round' = (IF round.write = {n} THEN Resting ELSE [round EXCEPT !.write = @ \ {n}])
        /\ round.phase = "delete" /\ round.delete = {}
    BY <1>6 DEF WriteConfig
  <2>2. /\ ConfigsOK(configs')
        /\ DOMAIN configs \subseteq DOMAIN configs' /\ DOMAIN configs' \subseteq DOMAIN configs \union {n}
        /\ ~SkippedOnStale(n) => n \in DOMAIN configs'
    BY <2>1, WriteEffect
  <2>3. seen'.nodes = seen.nodes /\ seen'.clusters = seen.clusters
    BY <2>1, <2>2, FollowType
  <2>4. ValidNodes(seen)' = ValidNodes(seen) /\ \A m : Noticed(m)' <=> Noticed(m)
    BY <2>3 DEF ValidNodes, ValidClusters, Noticed, NewClusterMapFunc
  <2>5. n \in DOMAIN round.new
    BY <2>1 DEF RoundOK
  <2>6. DOMAIN configs' \ DOMAIN round.new \subseteq kept'
    BY <2>1, <2>2, <2>5 DEF InHand
  <2>7. DOMAIN round.new \subseteq (round.write \ {n}) \union DOMAIN configs' \union kept'
    BY <2>1, <2>2 DEF InHand
  <2>8. CASE round.write = {n}
    <3>1. \A m \in Nodes \ kept' : m \in DOMAIN configs' <=> m \in DOMAIN round.new
      BY <2>6, <2>7, <2>8
    <3>2. ~queued' => AsSeen(DOMAIN configs, kept)'
      BY <2>1, <2>4, <3>1 DEF InHand, AsSeen
    <3> QED
      BY <2>1, <2>8, <3>2, RestOK DEF InHand
  <2>9. CASE round.write # {n}
    <3>1. round'.phase = "delete" /\ round'.new = round.new /\ round'.delete = round.delete
          /\ round'.write = round.write \ {n}
      BY <2>1, <2>9 DEF RoundOK
    <3>2. ~queued' => AsSeen(DOMAIN round.new, {})'
      BY <2>1, <2>4, <3>1 DEF InHand, AsSeen
    <3> QED
      BY <2>1, <2>6, <2>7, <3>1, <3>2 DEF InHand
  <2> QED
    BY <2>8, <2>9
<1>7. ASSUME NEW n \in Nodes, WriteFails(n) PROVE InHand'
  <2>1. round' = Resting /\ queued' = TRUE
    BY <1>7 DEF WriteFails
  <2> QED
    BY <2>1, RestOK DEF InHand
<1> QED
  BY <1>1, <1>2, <1>3, <1>4, <1>5, <1>6, <1>7 DEF Reconcile

(* A new process begins with an item, or has no node and keeps what it     *)
(* finds; the users' and electors' steps are not the controller's.         *)
LEMMA HandNext == TypeOK /\ InHand /\ [Next]_vars => InHand'
<1> SUFFICES ASSUME TypeOK, InHand, [Next]_vars PROVE InHand'
  OBVIOUS
<1>1. CASE Restart
  <2>1. round' = Resting /\ queued' = (DOMAIN nodes # {}) /\ configs' = configs
        /\ seen' = [clusters |-> clusters, nodes |-> nodes, configs |-> configs]
        /\ kept' = (IF DOMAIN nodes = {} THEN kept \union DOMAIN configs ELSE kept)
    BY <1>1 DEF Restart, apiVars
  <2>2. CASE DOMAIN nodes # {}
    BY <2>1, <2>2, RestOK DEF InHand
  <2>3. CASE DOMAIN nodes = {}
    <3>1. ValidNodes(seen)' = {}
      BY <2>1, <2>3 DEF ValidNodes
    <3>2. AsSeen(DOMAIN configs, kept)'
      BY <2>1, <2>3, <3>1 DEF AsSeen
    <3> QED
      BY <2>1, <3>2, RestOK DEF InHand
  <2> QED
    BY <2>2, <2>3
<1>2. CASE SeeNodes
  <2>1. queued' = TRUE /\ UNCHANGED <<configs, round, kept>>
    BY <1>2 DEF SeeNodes, apiVars
  <2> QED
    BY <2>1 DEF InHand
<1>3. CASE SeeConfigs
  <2>1. UNCHANGED <<configs, round, kept, queued>> /\ seen' = [seen EXCEPT !.configs = configs]
    BY <1>3 DEF SeeConfigs, apiVars
  <2>2. seen'.nodes = seen.nodes /\ seen'.clusters = seen.clusters
    BY <2>1, TypeParts DEF SeenOK
  <2> QED
    BY <2>1, <2>2, HandSame
<1>4. ASSUME NEW c \in Clusters, SeeCluster(c) PROVE InHand'
  BY <1>4, HandSeeCluster
<1>5. CASE Elector \/ \E n \in Nodes : ChangeNode(n)
  <2>1. UNCHANGED <<configs, round, kept, queued, seen>>
    BY <1>5 DEF Elector, ElectStart, ElectUpdate, ElectFails, ChangeNode, apiVars, ctlVars
  <2> QED
    BY <2>1, HandSame
<1>6. CASE \E c \in Clusters : ChangeCluster(c) \/ ChangeLeader(c)
  <2>1. UNCHANGED <<configs, round, kept, queued, seen>>
    BY <1>6 DEF ChangeCluster, ChangeLeader, apiVars, ctlVars
  <2> QED
    BY <2>1, HandSame
<1>7. CASE UNCHANGED vars
  <2>1. UNCHANGED <<configs, round, kept, queued, seen>>
    BY <1>7 DEF vars, apiVars, ctlVars
  <2> QED
    BY <2>1, HandSame
<1> QED
  BY <1>1, <1>2, <1>3, <1>4, <1>5, <1>6, <1>7, HandReconcile DEF Next, Env, Informers

(* At rest, with a gateway in every cluster that has nodes, every node is  *)
(* noticed.                                                                *)
LEMMA HandEnough == TypeOK /\ InHand => OnlyKeptLinger
<1> SUFFICES ASSUME TypeOK, InHand, Quiet, OneGateway
             PROVE  DOMAIN configs \ kept = ValidNodes(World) \ kept
  BY DEF OnlyKeptLinger
<1>1. ValidNodes(World) = ValidNodes(seen)
  <2>1. World.clusters = seen.clusters /\ World.nodes = seen.nodes
    BY DEF World, Quiet
  <2> QED
    BY <2>1 DEF ValidNodes, ValidClusters
<1>2. AsSeen(DOMAIN configs, kept)
  BY RestOK DEF Quiet, InHand
<1>3. ASSUME NEW n \in Nodes PROVE Noticed(n)
  <2> SUFFICES ASSUME n \in DOMAIN nodes PROVE NewClusterMapFunc(Home[n])
    BY DEF Noticed, Quiet
  <2>1. Home[n] \in Clusters
    BY HomeAssumption
  <2>2. PICK g \in DOMAIN nodes : GatewayOf(Home[n]) = {g}
    BY <2>1 DEF OneGateway
  <2> QED
    BY <2>2 DEF GatewayOf, NewClusterMapFunc, Quiet
<1>4. DOMAIN configs \subseteq Nodes
  BY DEF TypeOK, ConfigsOK
<1> QED
  BY <1>1, <1>2, <1>3, <1>4, ValidAreNodes DEF AsSeen

(* Whatever events were dropped, requests failed and caches lagged before, *)
(* a controller at rest has a NodeConfig for exactly the nodes that take   *)
(* part, up to the ones it is known to have kept as they were.             *)
THEOREM NothingElseLingers == Spec => []OnlyKeptLinger
<1>1. Init => InHand
  BY HandInit
<1>2. TypeOK /\ InHand /\ [Next]_vars => InHand'
  BY HandNext
<1>3. TypeOK /\ InHand => OnlyKeptLinger
  BY HandEnough
<1> QED
  BY <1>1, <1>2, <1>3, Typing, PTL DEF Spec
=============================================================================
