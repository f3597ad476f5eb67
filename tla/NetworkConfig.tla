--------------------------- MODULE NetworkConfig ---------------------------
(***************************************************************************)
(* The computation of the network manager (pkg/clusterlink/                *)
(* network-manager): from the Clusters and ClusterNodes, what the          *)
(* NodeConfig of every node is - its vxlan devices, routes, forwarding and *)
(* neighbour entries and NAT rules.  CalculateNetworkConfigs runs a chain  *)
(* of handlers that each append to the lists of c.Results and sorts the    *)
(* lists at the end, so a list is a set here, and every handler an         *)
(* operator that gives the entries it appends for a node.                  *)
(*                                                                         *)
(* The input of one computation is a record in:                            *)
(*   clusters[c]  the Spec.ClusterLinkOptions and Status of a Cluster;     *)
(*   nodes[n]     the Spec of a ClusterNode, for the nodes that exist;     *)
(*   gw[c]        the first gateway of c in the order of the node list;    *)
(*   macs[n]      the tag of the MAC addresses of n: the ones of its       *)
(*                NodeConfig, or new random ones.                          *)
(* A device is a pair <<kind, family>>: vx-bridge, vx-bridge-6, vx-local   *)
(* and vx-local-6.                                                         *)
(***************************************************************************)
EXTENDS Integers, FiniteSets

CONSTANTS
  Families,  \* IP families
  Width,     \* bits of an address
  Overlaps,  \* pairs {c, d} of different CIDRs that intersect
  None       \* "there is none"

ASSUME WidthAssumption == Width \in Nat \ {0}

CONSTANT Family  \* Family[c]: GetIPType of a CIDR

Kinds == {"bridge", "local"}
Device == Kinds \X Families

(* A CIDR an overlay device takes its address from: net/mask. *)
Subnet == [net : 0 .. 2 ^ Width - 1, mask : 0 .. Width]

(* utilnet.Intersect *)
Intersect(c, d) == c = d \/ {c, d} \in Overlaps

(* GenerateVxlanIP: the network part of the subnet and the host part of    *)
(* the underlay address.  ip << mask drops the bits above the width.       *)
GenerateVxlanIP(ip, s) ==
  (s.net \div 2 ^ (Width - s.mask)) * 2 ^ (Width - s.mask)
    + ((ip * 2 ^ s.mask) % 2 ^ Width) \div 2 ^ s.mask

-----------------------------------------------------------------------------
(* ExcludeInvalidItems and the Filter. *)

ValidClusters(in) == {c \in DOMAIN in.clusters : in.clusters[c].enable}

ValidNodes(in) ==
  {n \in DOMAIN in.nodes :
     /\ in.nodes[n].nic
     /\ in.nodes[n].cluster \in ValidClusters(in)
     /\ in.clusters[in.nodes[n].cluster].families \subseteq DOMAIN in.nodes[n].ips}

ClusterOf(in, n) == in.clusters[in.nodes[n].cluster]

(* Every gateway of a cluster, one of which the node list has first. *)
GatewaysOf(in, c) == {n \in ValidNodes(in) : in.nodes[n].cluster = c /\ in.nodes[n].gateway}

GetGatewayNodes(in) == {in.gw[c] : c \in {d \in ValidClusters(in) : in.gw[d] # None}}

GetEndpointNodes(in) ==
  {n \in ValidNodes(in) : ClusterOf(in, n).p2p /\ ~in.nodes[n].gateway}

GetInternalNodes(in) ==
  {n \in ValidNodes(in) : ~ClusterOf(in, n).p2p /\ ~in.nodes[n].gateway}

GetGatewayClusterNodes(in) == {n \in ValidNodes(in) : ~ClusterOf(in, n).p2p}

(* The nodes that talk to other clusters. *)
Speakers(in) == GetGatewayNodes(in) \union GetEndpointNodes(in)

-----------------------------------------------------------------------------
(* VxLocalNetwork, VxBridgeNetwork *)

(* The nodes that get a device of the kind. *)
Holders(in, kind) == IF kind = "local" THEN GetGatewayClusterNodes(in) ELSE Speakers(in)

NeedToCreate(in, n, dev) ==
  /\ n \in Holders(in, dev[1])
  /\ dev[2] \in ClusterOf(in, n).families
  /\ dev[2] \in DOMAIN ClusterOf(in, n).subnets[dev[1]]

(* BuildVxlanDevice, with the MAC address of the NodeConfig if it has one *)
BuildVxlanDevice(in, n, dev) ==
  [name |-> dev,
   addr |-> GenerateVxlanIP(in.nodes[n].ips[dev[2]], ClusterOf(in, n).subnets[dev[1]][dev[2]]),
   mac |-> <<n, dev, in.macs[n]>>]

Devices(in, n) == {BuildVxlanDevice(in, n, dev) : dev \in {d \in Device : NeedToCreate(in, n, d)}}

(* GetDeviceFromResults, used only where the device is there *)
DeviceOf(in, n, dev) == BuildVxlanDevice(in, n, dev)

-----------------------------------------------------------------------------
(* PodRoutes, ServiceRoutes *)

FilterByIPFamily(cidrs, families) == {c \in cidrs : Family[c] \in families}

ConvertToGlobalCIDRs(cidrs, map) == {IF c \in DOMAIN map THEN map[c] ELSE c : c \in cidrs}

PodCIDRs(in, target) ==
  IF ClusterOf(in, target).p2p THEN in.nodes[target].podCIDRs ELSE ClusterOf(in, target).podCIDRs

ServiceCIDRs(in, target) ==
  IF target \in GetGatewayNodes(in) THEN ClusterOf(in, target).serviceCIDRs ELSE {}

(* What the nodes of other clusters are told to send to the target. *)
ServedCIDRs(in, target) ==
  LET cl == ClusterOf(in, target)
      own == FilterByIPFamily(PodCIDRs(in, target) \union ServiceCIDRs(in, target), cl.families)
  IN ConvertToGlobalCIDRs(own, cl.globalMap)

IfCIDRConflictWithSelf(cl, cidr) ==
  \E own \in cl.podCIDRs \union cl.serviceCIDRs : Intersect(own, cidr)

(* The route of node n for one CIDR of the target: to the target itself    *)
(* over the bridge, or from an internal node to its cluster's gateway.     *)
BuildRoute(in, n, target, cidr) ==
  LET bridge == <<"bridge", Family[cidr]>>
      local == <<"local", Family[cidr]>>
      gw == in.gw[in.nodes[n].cluster]
  IN IF in.nodes[n].gateway \/ ClusterOf(in, n).p2p
     THEN {[cidr |-> cidr, gw |-> DeviceOf(in, target, bridge).addr, dev |-> bridge]}
     ELSE IF gw # None /\ NeedToCreate(in, gw, local)
     THEN {[cidr |-> cidr, gw |-> DeviceOf(in, gw, local).addr, dev |-> local]}
     ELSE {}

Routes(in, n) ==
  UNION {UNION {BuildRoute(in, n, target, cidr) :
           cidr \in {d \in ServedCIDRs(in, target) :
                       /\ NeedToCreate(in, target, <<"bridge", Family[d]>>)
                       /\ Family[d] \in ClusterOf(in, n).families
                       /\ ~IfCIDRConflictWithSelf(ClusterOf(in, n), d)}} :
         target \in {t \in Speakers(in) : in.nodes[t].cluster # in.nodes[n].cluster}}

-----------------------------------------------------------------------------
(* VxLocalMacCache: an internal node and its gateway know each other;      *)
(* VxBridgeMacCache: so do all that talk to other clusters.                *)

VxLocalMacCache(in, n, tar) ==
  /\ in.nodes[n].cluster = in.nodes[tar].cluster
  /\ \/ n \in GetInternalNodes(in) /\ tar \in GetGatewayNodes(in)
     \/ n \in GetGatewayNodes(in) /\ tar \in GetInternalNodes(in)

VxBridgeMacCache(in, n, tar) == n # tar /\ {n, tar} \subseteq Speakers(in)

(* The devices of tar that node n is given forwarding entries for. *)
Peers(in, n, tar) ==
  {dev \in Device :
     /\ NeedToCreate(in, tar, dev)
     /\ dev[2] \in ClusterOf(in, n).families
     /\ IF dev[1] = "bridge" THEN VxBridgeMacCache(in, n, tar) ELSE VxLocalMacCache(in, n, tar)}

Fdbs(in, n) ==
  UNION {UNION {{[ip |-> in.nodes[tar].ips[dev[2]], mac |-> mac, dev |-> dev] :
                   mac \in {None, DeviceOf(in, tar, dev).mac}} :
                dev \in Peers(in, n, tar)} :
         tar \in ValidNodes(in)}

Arps(in, n) ==
  UNION {{[ip |-> DeviceOf(in, tar, dev).addr, mac |-> DeviceOf(in, tar, dev).mac, dev |-> dev] :
            dev \in Peers(in, n, tar)} :
         tar \in ValidNodes(in)}

(* The NAT rules of a node, by what they match. *)
HostNetwork(in, n) ==
  IF n \in GetGatewayNodes(in) /\ ~ClusterOf(in, n).p2p
  THEN {<<"masquerade", kind, f>> : kind \in Kinds, f \in ClusterOf(in, n).families} ELSE {}

GlobalMap(in, n) ==
  LET map == ClusterOf(in, n).globalMap
  IN IF n \in Speakers(in)
     THEN {<<rule, c, map[c]>> : rule \in {"netmap", "snat"}, c \in DOMAIN map} ELSE {}

Iptables(in, n) == HostNetwork(in, n) \union GlobalMap(in, n)

-----------------------------------------------------------------------------
(* CalculateNetworkConfigs, ConvertToNodeConfigSpec *)

CalculateNetworkConfigs(in) ==
  [n \in ValidNodes(in) |->
     [devices |-> Devices(in, n), routes |-> Routes(in, n), iptables |-> Iptables(in, n),
      fdbs |-> Fdbs(in, n), arps |-> Arps(in, n)]]

=============================================================================
