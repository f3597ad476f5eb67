---------------------------- MODULE ClusterNodes ----------------------------
(***************************************************************************)
(* The ClusterNode objects of the control plane and the programs of a      *)
(* member cluster that write them:                                         *)
(*  - the node controller (controllers/node) creates one for every Node    *)
(*    and deletes it with the Node, and once a minute deletes the orphans; *)
(*  - the node CIDR controller (controllers/nodecidr) writes the pod CIDRs *)
(*    that the CNI gave to the Node, on the events of its adapter;         *)
(*  - the agent of the node (agent-manager/auto_detect_controller.go)      *)
(*    writes the interface and address it detects.                         *)
(* All of them read, change and update the whole object, with the version  *)
(* they read; an update of an object that has changed since is refused.    *)
(* They are compared by value here: an update of an object that came back  *)
(* to the value that was read is the write that a retry would make.        *)
(***************************************************************************)
EXTENDS Integers, FiniteSets

CONSTANTS
  Clusters, Names,  \* member clusters, names of Nodes
  Cidrs,            \* what the CNI may give to a Node
  Adapter,          \* "common" or "calico": the CNI adapter
  MaxRetries,       \* failures of an item before the worker drops it
  None,
  Budgets

Disturbances == {"node", "cidr", "fail", "restart"}

ASSUME AdapterAssumption == Adapter \in {"common", "calico"}
ASSUME RetryAssumption == MaxRetries \in Nat
ASSUME BudgetAssumption == Budgets \subseteq [Disturbances -> Nat]

Ids == Clusters \X Names

(* A ClusterNode: its pod CIDRs, and whether its address was detected. *)
Object == [cidrs : SUBSET Cidrs, addr : BOOLEAN]
New == [cidrs |-> {}, addr |-> FALSE]

ASSUME NoneAssumption == None \notin Object

(* The keys of the node CIDR controller's queue: a ClusterNode, or a Node  *)
(* whose ClusterNode was not found.                                        *)
Keys == Ids \union Names

VARIABLES
  live,    \* live[c]: the Nodes of member cluster c
  given,   \* given[i]: the CIDRs the CNI gave to a Node
  obj,     \* obj[i]: the ClusterNode, or None
  seen,    \* seen[c]: obj in the informer cache of c's controllers
  nodeQ,   \* nodeQ[c]: queue of the node controller
  nodeJob, \* nodeJob[c]: the Node it works on and the ClusterNode it read
  orphan,  \* orphan[c]: the clean-up under way
  cidrQ,   \* cidrQ[c]: queue of the node CIDR controller
  cidrJob, \* cidrJob[c]: the update it is about to make
  failed,  \* failed[c][k]: NumRequeues
  agentQ,  \* nodes whose agent has an event to handle
  budget

memberVars == <<live, given>>
nodeVars == <<nodeQ, nodeJob, orphan>>
cidrVars == <<cidrQ, cidrJob, failed>>
vars == <<memberVars, obj, seen, nodeVars, cidrVars, agentQ, budget>>

Spend(e) == budget[e] > 0 /\ budget' = [budget EXCEPT ![e] = @ - 1]

NoJob == [id |-> None, got |-> None, key |-> None, cidrs |-> {}]
Asleep == [phase |-> "wait", names |-> {}]

Init ==
  /\ live = [c \in Clusters |-> {}]
  /\ given = [i \in Ids |-> {}]
  /\ obj = [i \in Ids |-> None]
  /\ seen = [c \in Clusters |-> obj]
  /\ nodeQ = [c \in Clusters |-> {}]
  /\ nodeJob = [c \in Clusters |-> NoJob]
  /\ orphan = [c \in Clusters |-> Asleep]
  /\ cidrQ = [c \in Clusters |-> {}]
  /\ cidrJob = [c \in Clusters |-> NoJob]
  /\ failed = [c \in Clusters |-> [k \in Keys |-> 0]]
  /\ agentQ = {}
  /\ budget \in Budgets

-----------------------------------------------------------------------------
(* The member cluster. *)

(* requeue: the key of a ClusterNode for a Node of that name, whichever    *)
(* cluster it is of, or the name itself.                                   *)
Requeue(c, x) ==
  LET found == {i \in Ids : i[2] = x /\ seen[c][i] # None}
  IN \E k \in IF found = {} THEN {x} ELSE found : cidrQ' = [cidrQ EXCEPT ![c] = @ \union {k}]

(* An event of a Node: for the node controller, and for the common adapter. *)
NodeEvent(c, x) ==
  /\ nodeQ' = [nodeQ EXCEPT ![c] = @ \union {x}]
  /\ IF Adapter = "common" THEN Requeue(c, x) ELSE UNCHANGED cidrQ

(* A Node joins or leaves; its CIDRs leave with it.  Its agent starts with *)
(* it, and then sees the ClusterNode, if there is one.                     *)
ChangeNode(c, x) ==
  /\ Spend("node")
  /\ live' = [live EXCEPT ![c] = IF x \in @ THEN @ \ {x} ELSE @ \union {x}]
  /\ given' = [given EXCEPT ![<<c, x>>] = {}]
  /\ agentQ' = IF x \in live[c] THEN agentQ \ {<<c, x>>} ELSE agentQ \union {<<c, x>>}
  /\ NodeEvent(c, x)
  /\ UNCHANGED <<obj, seen, nodeJob, orphan, cidrJob, failed>>

(* The CNI gives CIDRs to a Node: in the Node, or in a BlockAffinity. *)
ChangeCidr(c, x) ==
  /\ Spend("cidr") /\ x \in live[c]
  /\ \E s \in SUBSET Cidrs : s # given[<<c, x>>] /\ given' = [given EXCEPT ![<<c, x>>] = s]
  /\ IF Adapter = "common" THEN NodeEvent(c, x) ELSE Requeue(c, x) /\ UNCHANGED nodeQ
  /\ UNCHANGED <<live, obj, seen, nodeJob, orphan, cidrJob, failed, agentQ>>

(* The kubelet writes the Node's status every few minutes. *)
Heartbeat(c, x) ==
  /\ x \in live[c]
  /\ NodeEvent(c, x)
  /\ UNCHANGED <<memberVars, obj, seen, nodeJob, orphan, cidrJob, failed, agentQ, budget>>

(* The watches of the ClusterNodes.  The node CIDR controller's filter     *)
(* asks for a ClusterNode, and is given a pointer to one: it accepts no    *)
(* event.  The agent's predicate accepts those of its own node that are    *)
(* not deletions.                                                          *)
See(c) ==
  /\ seen[c] # obj
  /\ seen' = [seen EXCEPT ![c] = obj]
  /\ UNCHANGED <<memberVars, obj, nodeVars, cidrVars, agentQ, budget>>

Write(i, o) ==
  /\ obj' = [obj EXCEPT ![i] = o]
  /\ agentQ' = IF o \in {None, obj[i]} \/ i[2] \notin live[i[1]] THEN agentQ ELSE agentQ \union {i}

-----------------------------------------------------------------------------
(* node.Reconcile *)

(* A deletion that fails is logged and forgotten. *)
NodeGone(c, x) ==
  /\ nodeJob[c] = NoJob /\ x \in nodeQ[c] /\ x \notin live[c]
  /\ nodeQ' = [nodeQ EXCEPT ![c] = @ \ {x}]
  /\ \/ Write(<<c, x>>, None) /\ UNCHANGED budget
     \/ Spend("fail") /\ UNCHANGED <<obj, agentQ>>
  /\ UNCHANGED <<memberVars, seen, nodeJob, orphan, cidrVars>>

NodeGet(c, x) ==
  /\ nodeJob[c] = NoJob /\ x \in nodeQ[c] /\ x \in live[c]
  /\ nodeQ' = [nodeQ EXCEPT ![c] = @ \ {x}]
  /\ nodeJob' = [nodeJob EXCEPT ![c] = [NoJob EXCEPT !.id = <<c, x>>, !.got = obj[<<c, x>>]]]
  /\ UNCHANGED <<memberVars, obj, seen, orphan, cidrVars, agentQ, budget>>

(* Seeded fault: the object is written anew, as for a creation. *)
CreateOrUpdateAnew(old) == New

(* CreateOrUpdateClusterNode: the update sets the names, which never       *)
(* change, and keeps the rest.                                             *)
CreateOrUpdate(old) == IF old = None THEN New ELSE old

NodePut(c) ==
  LET i == nodeJob[c].id
  IN /\ i # None
     /\ nodeJob' = [nodeJob EXCEPT ![c] = NoJob]
     /\ \/ /\ obj[i] = nodeJob[c].got
           /\ Write(i, CreateOrUpdate(obj[i])) /\ UNCHANGED <<nodeQ, budget>>
        \/ /\ IF obj[i] = nodeJob[c].got THEN Spend("fail") ELSE UNCHANGED budget
           /\ nodeQ' = [nodeQ EXCEPT ![c] = @ \union {i[2]}]
           /\ UNCHANGED <<obj, agentQ>>
     /\ UNCHANGED <<memberVars, seen, orphan, cidrVars>>

(* CleanOrphan, every 60 seconds: lists the Nodes, lists the ClusterNodes, *)
(* and deletes those without a Node.                                       *)
OrphanNodes(c) ==
  /\ orphan[c].phase = "wait"
  /\ orphan' = [orphan EXCEPT ![c] = [phase |-> "nodes", names |-> live[c]]]
  /\ UNCHANGED <<memberVars, obj, seen, nodeQ, nodeJob, cidrVars, agentQ, budget>>

OrphanList(c) ==
  LET gone == {x \in Names : obj[<<c, x>>] # None /\ x \notin orphan[c].names}
  IN /\ orphan[c].phase = "nodes"
     /\ orphan' = [orphan EXCEPT ![c] = IF gone = {} THEN Asleep ELSE [phase |-> "delete", names |-> gone]]
     /\ UNCHANGED <<memberVars, obj, seen, nodeQ, nodeJob, cidrVars, agentQ, budget>>

OrphanDelete(c, x) ==
  /\ orphan[c].phase = "delete" /\ x \in orphan[c].names
  /\ orphan' = [orphan EXCEPT ![c] = IF @.names = {x} THEN Asleep ELSE [@ EXCEPT !.names = orphan[c].names \ {x}]]
  /\ \/ Write(<<c, x>>, None) /\ UNCHANGED budget
     \/ Spend("fail") /\ UNCHANGED <<obj, agentQ>>
  /\ UNCHANGED <<memberVars, seen, nodeQ, nodeJob, cidrVars>>

-----------------------------------------------------------------------------
(* nodecidr.Reconcile and the worker (utils/lifted/worker.go). *)

(* handleError: again, with a delay, or dropped after MaxRetries; an item  *)
(* that was also put back by AddAfter is never dropped.                    *)
HandleError(c, k, again) ==
  LET dropped == failed[c][k] >= MaxRetries
  IN /\ failed' = [failed EXCEPT ![c][k] = IF dropped THEN 0 ELSE @ + 1]
     /\ cidrQ' = [cidrQ EXCEPT ![c] = IF dropped /\ ~again THEN @ \ {k} ELSE @ \union {k}]

Forget(c, k) ==
  /\ failed' = [failed EXCEPT ![c][k] = 0]
  /\ cidrQ' = [cidrQ EXCEPT ![c] = @ \ {k}]

(* GetCIDRByNodeName fails in the common adapter when there is no Node. *)
CidrUnknown(c, x) == Adapter = "common" /\ x \notin live[c]

(* The key of a ClusterNode that is not in the cache is taken for the name *)
(* of a Node, and no Node has it.                                          *)
CidrStray(c, k) ==
  /\ cidrJob[c] = NoJob /\ k \in cidrQ[c] /\ k \in Ids
  /\ seen[c][k] = None
  /\ IF Adapter = "common" THEN HandleError(c, k, FALSE) ELSE Forget(c, k)
  /\ UNCHANGED <<memberVars, obj, seen, nodeVars, cidrJob, agentQ, budget>>

(* The name of a Node: without CIDRs it is taken for removed, since the    *)
(* lister that is asked about it was never started; without ClusterNode    *)
(* it comes again.                                                         *)
CidrEarly(c, x) ==
  /\ cidrJob[c] = NoJob /\ x \in cidrQ[c]
  /\ \/ CidrUnknown(c, x) /\ HandleError(c, x, FALSE)
     \/ ~CidrUnknown(c, x) /\ given[<<c, x>>] = {} /\ Forget(c, x)
     \/ given[<<c, x>>] # {} /\ seen[c][<<c, x>>] = None /\ HandleError(c, x, TRUE)
  /\ UNCHANGED <<memberVars, obj, seen, nodeVars, cidrJob, agentQ, budget>>

(* The ClusterNode is there: read the CIDRs of the Node of that name in    *)
(* this cluster.                                                           *)
CidrTake(c, k) ==
  LET i == IF k \in Ids THEN k ELSE <<c, k>>
      cidrs == given[<<c, i[2]>>]
  IN /\ cidrJob[c] = NoJob /\ k \in cidrQ[c] /\ seen[c][i] # None
     /\ k \in Ids \/ cidrs # {}
     /\ IF CidrUnknown(c, i[2])
        THEN HandleError(c, k, FALSE) /\ UNCHANGED cidrJob
        ELSE /\ cidrJob' = [cidrJob EXCEPT ![c] = [id |-> i, got |-> seen[c][i], key |-> k, cidrs |-> cidrs]]
             /\ cidrQ' = [cidrQ EXCEPT ![c] = @ \ {k}] /\ UNCHANGED failed
     /\ UNCHANGED <<memberVars, obj, seen, nodeVars, agentQ, budget>>

(* Seeded fault: the object is written whatever has become of it. *)
CidrPutForced(c) ==
  LET i == cidrJob[c].id
  IN /\ i # None
     /\ Write(i, [cidrJob[c].got EXCEPT !.cidrs = cidrJob[c].cidrs])
     /\ failed' = [failed EXCEPT ![c][cidrJob[c].key] = 0]
     /\ cidrJob' = [cidrJob EXCEPT ![c] = NoJob]
     /\ UNCHANGED <<memberVars, seen, nodeVars, cidrQ, budget>>

CidrPut(c) ==
  LET i == cidrJob[c].id
  IN /\ i # None
     /\ obj[i] = cidrJob[c].got
     /\ Write(i, [obj[i] EXCEPT !.cidrs = cidrJob[c].cidrs])
     /\ failed' = [failed EXCEPT ![c][cidrJob[c].key] = 0]
     /\ cidrJob' = [cidrJob EXCEPT ![c] = NoJob]
     /\ UNCHANGED <<memberVars, seen, nodeVars, cidrQ, budget>>

(* RetryOnConflict repeats the same update, which is refused each time. *)
CidrPutFails(c) ==
  LET i == cidrJob[c].id
  IN /\ i # None
     /\ IF obj[i] = cidrJob[c].got THEN Spend("fail") ELSE UNCHANGED budget
     /\ HandleError(c, cidrJob[c].key, FALSE)
     /\ cidrJob' = [cidrJob EXCEPT ![c] = NoJob]
     /\ UNCHANGED <<memberVars, obj, seen, nodeVars, agentQ>>

-----------------------------------------------------------------------------
(* AutoDetectReconciler.Reconcile.  The agent runs while its Node is       *)
(* there; its own cache is at most as far behind as the object is read.    *)

Agent(i) ==
  /\ i \in agentQ
  /\ \/ /\ agentQ' = agentQ \ {i}
        /\ obj' = IF obj[i] # None THEN [obj EXCEPT ![i].addr = TRUE] ELSE obj
        /\ UNCHANGED budget
     \/ Spend("fail") /\ UNCHANGED <<obj, agentQ>>
  /\ UNCHANGED <<memberVars, seen, nodeVars, cidrVars>>

-----------------------------------------------------------------------------
(* The controller manager of a cluster starts anew: its informers replay   *)
(* what there is, and nothing of what has gone meanwhile.  The agents go   *)
(* on.                                                                     *)
Restart(c) ==
  /\ Spend("restart")
  /\ seen' = [seen EXCEPT ![c] = obj]
  /\ nodeQ' = [nodeQ EXCEPT ![c] = live[c]]
  /\ nodeJob' = [nodeJob EXCEPT ![c] = NoJob]
  /\ orphan' = [orphan EXCEPT ![c] = Asleep]
  /\ cidrJob' = [cidrJob EXCEPT ![c] = NoJob]
  /\ failed' = [failed EXCEPT ![c] = [k \in Keys |-> 0]]
  /\ LET named == IF Adapter = "common" THEN live[c] ELSE {x \in Names : given[<<c, x>>] # {}}
         KeysOf(x) == {i \in Ids : i[2] = x /\ obj[i] # None}
     IN \E pick \in [named -> Keys] :
          /\ \A x \in named : pick[x] \in IF KeysOf(x) = {} THEN {x} ELSE KeysOf(x)
          /\ cidrQ' = [cidrQ EXCEPT ![c] = {pick[x] : x \in named}]
  /\ UNCHANGED <<memberVars, obj, agentQ>>

-----------------------------------------------------------------------------

CleanOrphan(c) == OrphanNodes(c) \/ OrphanList(c) \/ \E x \in Names : OrphanDelete(c, x)

CidrItem(c, k) ==
  \/ CidrStray(c, k)
  \/ k \in Names /\ CidrEarly(c, k)
  \/ CidrTake(c, k)

(* What happens in a member cluster. *)
Member(c) ==
  \/ \E x \in Names :
       \/ ChangeNode(c, x) \/ ChangeCidr(c, x) \/ Heartbeat(c, x) \/ NodeGone(c, x) \/ NodeGet(c, x)
       \/ Agent(<<c, x>>)
  \/ See(c) \/ NodePut(c) \/ CleanOrphan(c) \/ CidrPut(c) \/ CidrPutFails(c) \/ Restart(c)
  \/ \E k \in Keys : CidrItem(c, k)

Next == \E c \in Clusters : Member(c)

(* Work queues are served in order, so every item has its turn. *)
MemberFairness(c) ==
  /\ WF_vars(See(c)) /\ WF_vars(CleanOrphan(c))
  /\ WF_vars(NodePut(c)) /\ WF_vars(CidrPut(c) \/ CidrPutFails(c))
  /\ \A x \in Names :
       /\ WF_vars(Heartbeat(c, x))
       /\ SF_vars(NodeGone(c, x) \/ NodeGet(c, x))
       /\ WF_vars(Agent(<<c, x>>))
  /\ \A k \in Keys : SF_vars(CidrItem(c, k))

Spec == Init /\ [][Next]_vars /\ \A c \in Clusters : MemberFairness(c)

-----------------------------------------------------------------------------

JobOf(Key) == [id : Ids, got : Object \union {None}, key : Key, cidrs : SUBSET Cidrs]

CleanUp ==
  {Asleep} \union [phase : {"nodes"}, names : SUBSET Names]
           \union [phase : {"delete"}, names : (SUBSET Names) \ {{}}]

(* The types.  In particular the node CIDR controller never holds a job    *)
(* for a ClusterNode it has not read, and an item is retried at most       *)
(* MaxRetries times.                                                       *)
TypeOK ==
  /\ live \in [Clusters -> SUBSET Names]
  /\ given \in [Ids -> SUBSET Cidrs]
  /\ obj \in [Ids -> Object \union {None}]
  /\ seen \in [Clusters -> [Ids -> Object \union {None}]]
  /\ nodeQ \in [Clusters -> SUBSET Names]
  /\ nodeJob \in [Clusters -> JobOf({None}) \union {NoJob}]
  /\ orphan \in [Clusters -> CleanUp]
  /\ cidrQ \in [Clusters -> SUBSET Keys]
  /\ cidrJob \in [Clusters -> {NoJob} \union {j \in JobOf(Keys) : j.got # None}]
  /\ failed \in [Clusters -> [Keys -> 0 .. MaxRetries]]
  /\ agentQ \subseteq Ids
  /\ budget \in [Disturbances -> Nat]

(* Three programs write one object: none of them undoes what another wrote *)
(* since it read the object.  While a ClusterNode lives, its detected      *)
(* address is never lost again, and its CIDRs change only to what its Node *)
(* had when they were read (CreateOrUpdateClusterNode, nodecidr.Reconcile, *)
(* AutoDetectReconciler.Reconcile).                                        *)
NoLostUpdate ==
  [][\A i \in Ids : obj[i] # None /\ obj'[i] # None =>
       /\ obj[i].addr => obj'[i].addr
       /\ obj'[i].cidrs # obj[i].cidrs =>
            \E c \in Clusters : cidrJob[c].id = i /\ obj'[i].cidrs = cidrJob[c].cidrs]_vars

(* A Node of another cluster has the same name. *)
Namesake(i) == \E j \in Ids : j # i /\ j[2] = i[2] /\ j[2] \in live[j[1]]

Synced(i) ==
  IF i[2] \in live[i[1]]
    THEN obj[i] # None /\ obj[i].addr /\ (Namesake(i) \/ obj[i].cidrs = given[i])
    ELSE obj[i] = None

(* When Nodes and CIDRs no longer change, every Node has a ClusterNode     *)
(* with its CIDRs and its address, and nothing else has one, in spite of   *)
(* failed calls, dropped items, restarts, and a clean-up that deletes the  *)
(* ClusterNode of a Node that joined while it ran.  While two clusters     *)
(* have a Node of one name its CIDRs are exempt: requeue may pick the      *)
(* ClusterNode of the other cluster, which is then given the CIDRs; they   *)
(* are right again once there is one such Node.  For the common adapter,   *)
(* whose Nodes send an event every few minutes.                            *)
Converges == <>[](\A i \in Ids : Synced(i))

=============================================================================
