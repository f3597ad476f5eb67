------------------------------ MODULE NodeStatus ------------------------------
(***************************************************************************)
(* The state of a leaf cluster's virtual nodes in the root cluster.  Two   *)
(* loops of NodeLeaseController run every ten seconds: syncLease renews    *)
(* the leases while the leaf cluster answers, and syncNodeStatus probes    *)
(* it and writes condition, resources and taints of each node, holding     *)
(* back changes of the condition (clusterConditionStore).                  *)
(* NodeResourcesController patches the same nodes on events of the leaf    *)
(* cluster, and the root's node lifecycle controller declares a node       *)
(* Unknown that shows no sign of life.                                     *)
(* Time is counted in rounds: a Tick is ten seconds, and each loop has one *)
(* round in it.  Requests to the leaf cluster fail while it is away.       *)
(***************************************************************************)
EXTENDS Integers, Sequences, FiniteSets, FiniteSetsExt

CONSTANTS
  Leaf,           \* the names of leaf nodes
  Masters,        \* those with the control plane's label
  Capacity,       \* what a leaf node can allocate
  LeafStates,     \* the states of the leaf cluster's nodes and pods
  LeafInit,       \* ... and the first one
  Configs,        \* the leaf model, the option, the virtual nodes
  FailureRounds,  \* clusterFailureThreshold
  LeaseRounds,    \* DefaultLeaseDuration
  None, Budgets

Disturbances == {"net", "leaf", "gone", "fail", "restart"}
Ready == {"True", "False", "Unknown"}

ASSUME MasterAssumption == Masters \subseteq Leaf
ASSUME RoundAssumption == FailureRounds \in Nat \ {0} /\ LeaseRounds \in Nat \ {0}
ASSUME CapacityAssumption == Capacity \in Nat
ASSUME NoneAssumption == None \notin [ready : BOOLEAN, age : Nat]
ASSUME BudgetAssumption == Budgets \subseteq [Disturbances -> Nat]

(* nodes: the leaf nodes there are; pods: how many of the leaf cluster's   *)
(* own pods run on each; taints: the leaf nodes that have a taint.         *)
ASSUME LeafAssumption ==
  /\ LeafInit \in LeafStates
  /\ \A s \in LeafStates :
       /\ DOMAIN s.nodes \subseteq Leaf
       /\ \A l \in DOMAIN s.nodes : s.nodes[l] \in {"ready", "cordoned", "notready"}
       /\ s.pods \in [Leaf -> Nat] /\ s.taints \subseteq Leaf

(* mode: LeafMode; notready: Update-RootNode-Status-Notready; list: the    *)
(* virtual nodes, in order; sel: the leaf nodes that each stands for.      *)
ASSUME ConfigAssumption ==
  \A c \in Configs :
    /\ c.mode \in {"all", "party", "node"} /\ c.notready \in BOOLEAN
    /\ Len(c.list) \in Nat \ {0}
    /\ \A i \in 1 .. Len(c.list) : c.sel[c.list[i]] \subseteq Leaf

VARIABLES
  config,
  online,   \* the leaf cluster answers
  leaf,     \* its nodes and pods
  root,     \* root[n]: the virtual node n
  lease,    \* the nodes that have a lease
  beat,     \* beat[n]: rounds since a lease renewal or a new heartbeat
  saved,    \* clusterConditionStore: the last observation and its age
  status,   \* syncNodeStatus: the node it is at, and what it has read
  touched,  \* nodes written by others since syncNodeStatus read them
  pending,  \* NodeResourcesController has a request
  patch,    \* its round: the node it is at, and what it has read
  ran,      \* the loops that had their round in this tick
  unseen,   \* history: rounds since a probe was answered
  bad,      \* history: lease rounds in a row that failed
  budget

rootVars == <<root, lease, beat>>
loopVars == <<saved, status, touched, ran>>
vars == <<config, online, leaf, rootVars, loopVars, pending, patch, unseen, bad, budget>>

VirtualNodes == {config.list[i] : i \in 1 .. Len(config.list)}
Idle == [at |-> 0]
Spend(e) == budget[e] > 0 /\ budget' = [budget EXCEPT ![e] = @ - 1]
CapAt(n, max) == IF n < max THEN n ELSE max

(* createNode: the template is ready, and has no resources yet. *)
NewNode == [ready |-> "True", avail |-> 0, taint |-> FALSE]

Init ==
  /\ config \in Configs
  /\ online = TRUE /\ leaf = LeafInit
  /\ root = [n \in VirtualNodes |-> NewNode] /\ lease = {} /\ beat = [n \in VirtualNodes |-> 0]
  /\ saved = None /\ status = Idle /\ touched = {} /\ ran = {}
  /\ pending = TRUE /\ patch = Idle
  /\ unseen = FailureRounds /\ bad = 0
  /\ budget \in Budgets

-----------------------------------------------------------------------------
(* What is computed from the leaf cluster. *)

(* GetLeafNodes: the leaf nodes of n, of those that there are. *)
GetLeafNodes(n) == [l \in config.sel[n] \intersect DOMAIN leaf.nodes |-> leaf.nodes[l]]

(* GetLeafPods: a party is given the pods of all leaf nodes. *)
PodNodes(nodes) == IF config.mode = "party" THEN Leaf ELSE DOMAIN nodes

(* Seeded fault: pods on unavailable nodes are subtracted too. *)
CalculateAllPods(nodes) ==
  LET available == {l \in DOMAIN nodes : nodes[l] = "ready"}
  IN  Capacity * Cardinality(available) - MapThenSumSet(LAMBDA l : leaf.pods[l], PodNodes(nodes))

(* CalculateClusterResources: what the available nodes have, less what the *)
(* pods ask for that are not on an unavailable node.                       *)
CalculateClusterResources(nodes) ==
  LET available == {l \in DOMAIN nodes : nodes[l] = "ready"}
      counted == PodNodes(nodes) \ (DOMAIN nodes \ available)
  IN  Capacity * Cardinality(available) - MapThenSumSet(LAMBDA l : leaf.pods[l], counted)

(* checkAllMasterNodesNotReady: a list that fails has no items. *)
MasterReady ==
  online /\ \E l \in Masters \intersect DOMAIN leaf.nodes : leaf.nodes[l] # "notready"

-----------------------------------------------------------------------------
(* The clusters and the network. *)

Flap ==
  /\ Spend("net")
  /\ online' = ~online
  /\ UNCHANGED <<config, leaf, rootVars, loopVars, pending, patch, unseen, bad>>

(* The predicates pass changes of nodes and pods, but not of taints. *)
ChangeLeaf ==
  /\ Spend("leaf")
  /\ \E s \in LeafStates \ {leaf} :
       /\ leaf' = s
       /\ pending' = (pending \/ s.nodes # leaf.nodes \/ s.pods # leaf.pods)
  /\ UNCHANGED <<config, online, rootVars, loopVars, patch, unseen, bad>>

DeleteNode(n) ==
  /\ root[n] # None /\ Spend("gone")
  /\ root' = [root EXCEPT ![n] = None]
  /\ lease' = lease \ {n}
  /\ UNCHANGED <<config, online, leaf, beat, loopVars, pending, patch, unseen, bad>>

(* The lease of a node that is gone names the UID of the old one, and is   *)
(* garbage as soon as it is made.                                          *)
CollectLease(n) ==
  /\ root[n] = None /\ n \in lease
  /\ lease' = lease \ {n}
  /\ UNCHANGED <<config, online, leaf, root, beat, loopVars, pending, patch, unseen, bad, budget>>

(* The node lifecycle controller: no lease renewal and no new heartbeat in *)
(* the lease's duration.                                                   *)
Expired(n) == root[n] # None /\ root[n].ready # "Unknown" /\ beat[n] >= LeaseRounds

Expire(n) ==
  /\ Expired(n)
  /\ root' = [root EXCEPT ![n].ready = "Unknown"]
  /\ touched' = touched \union {n}
  /\ UNCHANGED <<config, online, leaf, lease, beat, saved, status, ran, pending, patch, unseen, bad, budget>>

(* A tick is over when both loops had their round. *)
Tick ==
  /\ ran = {"lease", "status"} /\ status = Idle
  /\ ~\E n \in VirtualNodes : Expired(n)
  /\ ran' = {}
  /\ beat' = [n \in VirtualNodes |-> CapAt(beat[n] + 1, LeaseRounds)]
  /\ saved' = IF saved = None THEN None ELSE [saved EXCEPT !.age = CapAt(@ + 1, FailureRounds)]
  /\ unseen' = CapAt(unseen + 1, FailureRounds)
  /\ UNCHANGED <<config, online, leaf, root, lease, status, touched, pending, patch, bad, budget>>

(* The cluster controller sets the leaf cluster up anew, which needs an    *)
(* answer (createNode); nodes that are missing are created.                *)
Restart ==
  /\ online /\ Spend("restart")
  /\ root' = [n \in VirtualNodes |-> IF root[n] = None THEN NewNode ELSE root[n]]
  /\ beat' = [n \in VirtualNodes |-> IF root[n] = None THEN 0 ELSE beat[n]]
  /\ saved' = None /\ status' = Idle /\ touched' = {} /\ ran' = {}
  /\ pending' = TRUE /\ patch' = Idle
  /\ unseen' = FailureRounds
  /\ UNCHANGED <<config, online, leaf, lease, bad>>

-----------------------------------------------------------------------------
(* syncLease: a ping, then leases that are missing, then all renewals; the *)
(* first write that fails ends the round.  So does the first lease that    *)
(* the cache does not show, for it was created a moment ago.               *)

First(k) == {config.list[i] : i \in 1 .. k}

(* Seeded fault: renewTime is set only where the lease is created. *)
BeatsCreated(created, renewed) == [n \in VirtualNodes |-> IF n \in created \ lease THEN 0 ELSE beat[n]]

(* newLease and the renewal set the renewTime. *)
Beats(created, renewed) ==
  [n \in VirtualNodes |-> IF n \in renewed \union (created \ lease) THEN 0 ELSE beat[n]]

SyncLease ==
  /\ "lease" \notin ran
  /\ ran' = ran \union {"lease"}
  /\ \/ /\ ~online
        /\ bad' = CapAt(bad + 1, LeaseRounds)
        /\ UNCHANGED <<lease, beat, budget>>
     \/ /\ online
        /\ lease' = lease \union VirtualNodes
        /\ beat' = Beats(VirtualNodes, VirtualNodes)
        /\ bad' = 0
        /\ UNCHANGED budget
     \/ /\ online /\ Spend("fail")
        /\ bad' = CapAt(bad + 1, LeaseRounds)
        /\ \E k \in 0 .. Len(config.list) - 1 :
             \/ lease' = lease \union First(k) /\ beat' = Beats(First(k), {})
             \/ lease' = lease \union VirtualNodes /\ beat' = Beats(VirtualNodes, First(k))
     \/ /\ online
        /\ bad' = CapAt(bad + 1, LeaseRounds)
        /\ \E k \in 1 .. Len(config.list) :
             /\ config.list[k] \notin lease
             /\ lease' = lease \union VirtualNodes /\ beat' = Beats(VirtualNodes, First(k - 1))
        /\ UNCHANGED budget
  /\ UNCHANGED <<config, online, leaf, root, saved, status, touched, pending, patch, unseen>>

-----------------------------------------------------------------------------
(* syncNodeStatus: UpdateRootNodeStatus and UpdateRootNodeStatusAddNotready. *)

AtNode == config.list[status.at]
Following == IF status.at = Len(config.list) THEN Idle ELSE [at |-> status.at + 1, pc |-> "get"]

StatusUnchanged ==
  UNCHANGED <<config, online, leaf, lease, pending, patch, bad>>

StatusStart ==
  /\ status = Idle /\ "status" \notin ran
  /\ ran' = ran \union {"status"}
  /\ status' = [at |-> 1, pc |-> "get"]
  /\ UNCHANGED <<root, beat, saved, touched, unseen, budget>> /\ StatusUnchanged

(* Seeded fault: an observation that changes keeps the age of the last. *)
ObserveAged(o) ==
  IF saved = None THEN [ready |-> o, age |-> FailureRounds] ELSE [saved EXCEPT !.ready = o]

(* thresholdAdjustedReadyCondition: the observation to save.  The first    *)
(* one has no start time: its threshold is over.                           *)
Observe(o) ==
  IF saved = None THEN [ready |-> o, age |-> FailureRounds]
  ELSE IF saved.ready # o THEN [ready |-> o, age |-> 0] ELSE saved

(* ... and whether the node's condition is retained.  The five seconds of  *)
(* clusterSuccessThreshold are over in the next round.                     *)
Retained(o, now, cur) ==
  /\ saved # None
  /\ o # (cur = "True")
  /\ now.age < (IF o THEN 1 ELSE FailureRounds)

(* The node is read; with the option, the leaf cluster is probed.  A       *)
(* cluster that is away and whose node is not held back is not ready.      *)
StatusGet ==
  /\ status # Idle /\ status.pc = "get"
  /\ touched' = touched \ {AtNode}
  /\ IF root[AtNode] = None
     THEN status' = Following /\ UNCHANGED saved
     ELSE IF ~config.notready
     THEN status' = [status EXCEPT !.pc = "list"] /\ UNCHANGED saved
     ELSE LET now == Observe(online)
              cond == IF Retained(online, now, root[AtNode].ready) THEN root[AtNode].ready
                      ELSE IF online THEN "True" ELSE "False"
          IN  /\ saved' = now
              /\ status' = IF ~online /\ cond # "True"
                           THEN [at |-> status.at, pc |-> "write", why |-> "away",
                                 new |-> [root[AtNode] EXCEPT !.ready = cond]]
                           ELSE [status EXCEPT !.pc = "list"]
  /\ unseen' = IF root[AtNode] # None /\ config.notready /\ online THEN 0 ELSE unseen
  /\ UNCHANGED <<root, beat, ran, budget>> /\ StatusUnchanged

(* The leaf nodes are listed; an error, or none at all, ends this node.    *)
(* In Node mode the leaf node's status is copied.                          *)
StatusList ==
  /\ status # Idle /\ status.pc = "list"
  /\ LET nodes == GetLeafNodes(AtNode)
         l == CHOOSE x \in DOMAIN nodes : TRUE
     IN  status' = IF ~online \/ DOMAIN nodes = {} THEN Following
                   ELSE IF config.mode = "node"
                   THEN [at |-> status.at, pc |-> "write", why |-> "leaf",
                         new |-> [ready |-> IF nodes[l] = "notready" THEN "False" ELSE "True",
                                  avail |-> Capacity, taint |-> l \in leaf.taints]]
                   ELSE [at |-> status.at, pc |-> "masters", nodes |-> nodes]
  /\ UNCHANGED <<root, beat, saved, touched, ran, unseen, budget>> /\ StatusUnchanged

(* The masters' condition is that of the node, without a threshold. *)
StatusMasters ==
  /\ status # Idle /\ status.pc = "masters"
  /\ status' = [at |-> status.at, pc |-> "pods", nodes |-> status.nodes,
                ready |-> IF config.notready => MasterReady THEN "True" ELSE "False"]
  /\ UNCHANGED <<root, beat, saved, touched, ran, unseen, budget>> /\ StatusUnchanged

(* The pods are listed, and the node is read again for its version. *)
StatusPods ==
  /\ status # Idle /\ status.pc = "pods"
  /\ IF ~online \/ root[AtNode] = None
     THEN status' = Following /\ UNCHANGED touched
     ELSE /\ status' = [at |-> status.at, pc |-> "write", why |-> "masters",
                        new |-> [ready |-> status.ready, avail |-> CalculateClusterResources(status.nodes),
                                 taint |-> root[AtNode].taint]]
          /\ touched' = touched \ {AtNode}
  /\ UNCHANGED <<root, beat, saved, ran, unseen, budget>> /\ StatusUnchanged

(* A heartbeat is new with the masters' condition.  In Node mode it is the *)
(* leaf node's, and a cluster that is away has none: what counts then is a *)
(* condition that changes.                                                 *)
ShowsLife == status.why = "masters" \/ status.new.ready # root[AtNode].ready

(* UpdateStatus: a conflict starts this node anew, an error ends it.  In   *)
(* Node mode the taints are patched afterwards.                            *)
StatusWrite ==
  /\ status # Idle /\ status.pc = "write"
  /\ \/ /\ root[AtNode] = None
        /\ status' = Following /\ UNCHANGED <<root, beat, budget>>
     \/ /\ root[AtNode] # None /\ AtNode \in touched
        /\ status' = [at |-> status.at, pc |-> "get"] /\ UNCHANGED <<root, beat, budget>>
     \/ /\ root[AtNode] # None /\ AtNode \notin touched
        /\ root' = [root EXCEPT ![AtNode] = [status.new EXCEPT !.taint = root[AtNode].taint]]
        /\ beat' = IF ShowsLife THEN [beat EXCEPT ![AtNode] = 0] ELSE beat
        /\ status' = IF status.why = "leaf" THEN [status EXCEPT !.pc = "taint"] ELSE Following
        /\ UNCHANGED budget
     \/ Spend("fail") /\ status' = Following /\ UNCHANGED <<root, beat>>
  /\ UNCHANGED <<saved, touched, ran, unseen>> /\ StatusUnchanged

StatusTaint ==
  /\ status # Idle /\ status.pc = "taint"
  /\ status' = Following
  /\ root' = IF root[AtNode] = None THEN root ELSE [root EXCEPT ![AtNode].taint = status.new.taint]
  /\ UNCHANGED <<beat, saved, touched, ran, unseen, budget>> /\ StatusUnchanged

-----------------------------------------------------------------------------
(* NodeResourcesController.Reconcile: for every virtual node in order, a   *)
(* merge patch of what differs from the node that was read.                *)

PatchNode == config.list[patch.at]
PatchUnchanged ==
  UNCHANGED <<config, online, leaf, lease, beat, saved, status, ran, unseen, bad>>

PatchTake ==
  /\ patch = Idle /\ pending
  /\ pending' = FALSE
  /\ patch' = [at |-> 1, pc |-> "read"]
  /\ UNCHANGED <<root, touched, budget>> /\ PatchUnchanged

(* An error, of the first node that is missing too, requeues the request.  *)
PatchFails == patch' = Idle /\ pending' = TRUE

(* The virtual node and its leaf nodes are read.  In Node mode the leaf    *)
(* node's condition is copied, and the taints are those that the virtual   *)
(* node was created with.                                                  *)
PatchRead ==
  /\ patch # Idle /\ patch.pc = "read"
  /\ LET nodes == GetLeafNodes(PatchNode)
         l == CHOOSE x \in DOMAIN nodes : TRUE
         new == [root[PatchNode] EXCEPT !.avail = CalculateClusterResources(nodes)]
     IN  IF root[PatchNode] = None \/ ~online THEN PatchFails
         ELSE /\ patch' = [at |-> patch.at, pc |-> "write", old |-> root[PatchNode],
                           new |-> IF config.mode = "node" /\ DOMAIN nodes # {}
                                   THEN [new EXCEPT !.ready = IF nodes[l] = "notready" THEN "False" ELSE "True",
                                                    !.taint = FALSE]
                                   ELSE new]
              /\ UNCHANGED pending
  /\ UNCHANGED <<root, touched, budget>> /\ PatchUnchanged

(* CreateMergePatch: only the fields that the round changed are written. *)
MergePatch(now, old, new) ==
  [f \in DOMAIN now |-> IF new[f] # old[f] THEN new[f] ELSE now[f]]

PatchWrite ==
  /\ patch # Idle /\ patch.pc = "write"
  /\ \/ Spend("fail") /\ PatchFails /\ UNCHANGED <<root, touched>>
     \/ root[PatchNode] = None /\ PatchFails /\ UNCHANGED <<root, touched, budget>>
     \/ /\ root[PatchNode] # None
        /\ root' = [root EXCEPT ![PatchNode] = MergePatch(@, patch.old, patch.new)]
        /\ touched' = IF root' # root THEN touched \union {PatchNode} ELSE touched
        /\ patch' = IF patch.at = Len(config.list) THEN Idle ELSE [at |-> patch.at + 1, pc |-> "read"]
        /\ UNCHANGED <<pending, budget>>
  /\ PatchUnchanged

-----------------------------------------------------------------------------

SyncNodeStatus ==
  StatusStart \/ StatusGet \/ StatusList \/ StatusMasters \/ StatusPods \/ StatusWrite \/ StatusTaint
Reconcile == PatchTake \/ PatchRead \/ PatchWrite

Next ==
  \/ Flap \/ ChangeLeaf \/ Restart \/ Tick
  \/ \E n \in VirtualNodes : DeleteNode(n) \/ CollectLease(n) \/ Expire(n)
  \/ SyncLease \/ SyncNodeStatus \/ Reconcile

(* The loops are driven by timers and the requests served; the node        *)
(* lifecycle controller looks at every node.                               *)
Spec ==
  /\ Init /\ [][Next]_vars
  /\ WF_vars(Tick) /\ WF_vars(SyncLease) /\ WF_vars(SyncNodeStatus) /\ WF_vars(Reconcile)
  /\ WF_vars(\E n \in VirtualNodes : Expire(n))

-----------------------------------------------------------------------------

(* The types; in particular the rounds stay within the list of nodes. *)
TypeOK ==
  /\ config \in Configs /\ online \in BOOLEAN /\ leaf \in LeafStates
  /\ \A n \in VirtualNodes :
       root[n] = None \/ (root[n].ready \in Ready /\ root[n].avail \in Int /\ root[n].taint \in BOOLEAN)
  /\ lease \subseteq VirtualNodes /\ beat \in [VirtualNodes -> 0 .. LeaseRounds]
  /\ saved = None \/ saved \in [ready : BOOLEAN, age : 0 .. FailureRounds]
  /\ status.at \in 0 .. Len(config.list) /\ patch.at \in 0 .. Len(config.list)
  /\ touched \subseteq VirtualNodes /\ pending \in BOOLEAN
  /\ ran \subseteq {"lease", "status"}
  /\ unseen \in 0 .. FailureRounds /\ bad \in 0 .. LeaseRounds
  /\ budget \in [Disturbances -> Nat]

Loses(n, r) == root[n] # None /\ root'[n] # None /\ root[n].ready = "True" /\ root'[n].ready = r
(* The step is the write of syncNodeStatus, and not a patch beside it. *)
Writes(n, why) ==
  status # Idle /\ status.pc = "write" /\ AtNode = n /\ status.why = why /\ status' # status

(* A probe that fails does not take a node out of service: a ready node is *)
(* declared not ready, because its cluster is away, only when no probe was *)
(* answered for the whole threshold, or none since the start; the store is *)
(* kept per cluster and asked per node (thresholdAdjustedReadyCondition).  *)
HeldBack ==
  [][\A n \in VirtualNodes : Loses(n, "False") /\ Writes(n, "away") => unseen >= FailureRounds]_vars

(* A node does not expire while its cluster answers: it becomes Unknown    *)
(* only after every lease round of the lease's duration failed (its last   *)
(* one comes when the lease is over): the ping, a write, or the read of a  *)
(* lease that was made a moment ago.  One failure ends the round for all   *)
(* nodes that follow (syncLease, updateLeaseWithRetry).                    *)
NoFalseExpiry == [][\A n \in VirtualNodes : Loses(n, "Unknown") => bad >= LeaseRounds - 1]_vars

(* What a virtual node should show. *)
Expected(n) ==
  LET nodes == GetLeafNodes(n)
      available == {l \in DOMAIN nodes : nodes[l] = "ready"}
      used == MapThenSumSet(LAMBDA l : leaf.pods[l], available)
      up == IF config.mode = "node" THEN \E l \in DOMAIN nodes : nodes[l] # "notready"
            ELSE config.notready => \E l \in Masters \intersect DOMAIN leaf.nodes : leaf.nodes[l] # "notready"
  IN  /\ root[n].ready = (IF up THEN "True" ELSE "False")
      /\ config.mode = "all" => root[n].avail = Capacity * Cardinality(available) - used
      /\ config.mode = "node" => (root[n].taint <=> leaf.taints \intersect config.sel[n] # {})

(* In Node mode a node that was deleted may cut every lease round short:   *)
(* its lease is made and collected again and again.  The nodes after it    *)
(* are then not renewed, and expire over and over.                         *)
CutShort(n) ==
  /\ config.mode = "node"
  /\ \E i, j \in 1 .. Len(config.list) : i < j /\ root[config.list[i]] = None /\ config.list[j] = n

(* When the clusters rest, every virtual node shows its leaf nodes: the    *)
(* condition, in ALL mode what is left of their resources, in Node mode    *)
(* the taints; and is not ready if the cluster stays away.  Nodes listed   *)
(* after a deleted one are left out (CutShort).  The two controllers write *)
(* the same fields from reads of different times.                          *)
Converges ==
  <>[]\A n \in VirtualNodes :
      root[n] # None /\ DOMAIN GetLeafNodes(n) # {} /\ ~CutShort(n) =>
        IF online THEN Expected(n) ELSE root[n].ready # "True"

=============================================================================
