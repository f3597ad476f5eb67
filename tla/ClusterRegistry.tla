-------------------------- MODULE ClusterRegistry --------------------------
(***************************************************************************)
(* The life of the leaf clusters in the cluster manager.  The cluster      *)
(* controller (cluster_controller.go) turns every Cluster object into a    *)
(* virtual node of the root cluster, an entry of the leaf resource and     *)
(* leaf client registries (leaf_resource_manager.go,                       *)
(* leaf_client_resource_manager.go), which all other controllers read, and *)
(* a running manager with the leaf cluster's own controllers.              *)
(*                                                                         *)
(* The controller has one worker; it reads Clusters from an informer cache *)
(* and writes them with the version it read.  A Cluster is a leaf cluster  *)
(* in LeafMode ALL: one virtual node, whose name is the cluster's with the *)
(* prefix kosmos-.  Several Clusters may carry the same actual cluster     *)
(* name, the key of the client registry.                                   *)
(***************************************************************************)
EXTENDS Integers, Sequences, FiniteSets

CONSTANTS
  Clusters,    \* names of leaf Clusters
  Names,       \* actual cluster names
  Actual,      \* Actual[c]: GetActualClusterName
  Nodes,       \* names of nodes of the root cluster
  NodeOf,      \* NodeOf[c]: the virtual node of c
  NamedAs,     \* NamedAs[c]: the node name that is the cluster's own name
  Enabled,     \* Clusters with ClusterTreeOptions.Enable
  Confs,       \* kubeconfigs
  BadConfs,    \* kubeconfigs that no client can be built from
  None,        \* "there is none"
  Budgets      \* how often each disturbance may happen: one of these

Disturbances == {"create", "edit", "fail", "die", "restart"}

(* A Cluster object: its kubeconfig, DeletionTimestamp and finalizer. *)
Object == [conf : Confs, term : {"no", "yes"}, fin : {"no", "yes"}]
Manager == [conf : Confs, state : {"setup", "running", "dead"}]
Client == [by : Clusters, conf : Confs]

ASSUME NamesAssumption == Actual \in [Clusters -> Names]
ASSUME NodesAssumption == NodeOf \in [Clusters -> Nodes] /\ NamedAs \in [Clusters -> Nodes]
ASSUME SetsAssumption == Enabled \subseteq Clusters /\ BadConfs \subseteq Confs
ASSUME NoneAssumption ==
  None \notin Object /\ None \notin Manager /\ None \notin Client /\ None \notin Clusters
ASSUME BudgetAssumption == Budgets \subseteq [Disturbances -> Nat]

VARIABLES
  obj,      \* obj[c]: the Cluster in the root API server, or None
  watch,    \* watch[c]: versions not yet delivered to the informer
  cache,    \* cache[c]: the informer's copy
  queue,    \* Clusters in the work queue
  job,      \* the reconciliation the worker is in the middle of
  managers, \* managers[c]: ControllerManagers and ManagerCancelFuncs
  live,     \* live[c]: number of managers of c that really run
  stopping, \* stopping[c]: how many of them were cancelled
  leafs,    \* the keys of GlobalLeafResourceManager
  clients,  \* clients[a]: GlobalLeafClientManager
  nodes,    \* nodes of the root cluster
  budget    \* disturbances left

apiVars == <<obj, watch, cache>>
regVars == <<managers, live, stopping, leafs, clients>>
vars == <<apiVars, queue, job, regVars, nodes, budget>>

Steps == {"idle", "finalizer", "clear", "delete", "release", "create", "setup", "start"}

(* The Cluster the worker has read, and whether it is still the version of *)
(* the API server: an update with an older version is refused.             *)
Job == [pc : Steps, of : Clusters \union {None}, got : Object \union {None}, fresh : {"no", "yes"}]
Idle == [pc |-> "idle", of |-> None, got |-> None, fresh |-> "no"]

TypeOK ==
  /\ obj \in [Clusters -> Object \union {None}]
  /\ watch \in [Clusters -> Seq(Object \union {None})]
  /\ cache \in [Clusters -> Object \union {None}]
  /\ queue \subseteq Clusters
  /\ job \in Job /\ (job.pc # "idle" => job.of # None /\ job.got # None)
  /\ managers \in [Clusters -> Manager \union {None}]
  /\ live \in [Clusters -> Nat] /\ stopping \in [Clusters -> Nat]
  /\ leafs \subseteq Clusters
  /\ clients \in [Names -> Client \union {None}]
  /\ nodes \subseteq Nodes
  /\ budget \in [Disturbances -> Nat]

Init ==
  /\ obj = [c \in Clusters |-> None]
  /\ watch = [c \in Clusters |-> <<>>]
  /\ cache = [c \in Clusters |-> None]
  /\ queue = {} /\ job = Idle
  /\ managers = [c \in Clusters |-> None]
  /\ live = [c \in Clusters |-> 0] /\ stopping = [c \in Clusters |-> 0]
  /\ leafs = {}
  /\ clients = [a \in Names |-> None]
  /\ nodes = {}
  /\ budget \in Budgets

Spend(e) == budget[e] > 0 /\ budget' = [budget EXCEPT ![e] = @ - 1]

-----------------------------------------------------------------------------
(* The root API server and the informer of Clusters. *)

Write(c, o) ==
  /\ obj' = [obj EXCEPT ![c] = o]
  /\ watch' = [watch EXCEPT ![c] = Append(@, o)]
  /\ UNCHANGED cache

(* Somebody else's write makes the copy the worker holds an old version. *)
Outdate(c) == job' = IF job.of = c THEN [job EXCEPT !.fresh = "no"] ELSE job

(* Seeded fault: a new kubeconfig is not an interesting change. *)
AcceptedNoConf(old, new) ==
  \/ old = None \/ new = None
  \/ old.term = "yes" \/ new.term = "yes"

(* predicatesFunc: creations and deletions, and updates that change the    *)
(* kubeconfig or carry a DeletionTimestamp (the pointers are compared, and *)
(* differ unless both are nil).                                            *)
Accepted(old, new) ==
  \/ old = None \/ new = None
  \/ old.conf # new.conf
  \/ old.term = "yes" \/ new.term = "yes"

Deliver(c) ==
  /\ watch[c] # <<>>
  /\ cache' = [cache EXCEPT ![c] = Head(watch[c])]
  /\ watch' = [watch EXCEPT ![c] = Tail(@)]
  /\ queue' = IF Accepted(cache[c], Head(watch[c])) THEN queue \union {c} ELSE queue
  /\ UNCHANGED <<obj, job, regVars, nodes, budget>>

-----------------------------------------------------------------------------
(* Reconcile.  A Cluster that is not found was cleaned up before its       *)
(* finalizer went; one whose kubeconfig cannot be used is an error that    *)
(* changes nothing and is tried again.                                     *)

TakeNothing(c) ==
  /\ job = Idle /\ c \in queue
  /\ cache[c] = None
  /\ queue' = queue \ {c}
  /\ UNCHANGED <<apiVars, job, regVars, nodes, budget>>

(* Seeded fault: the finalizer is not ensured. *)
TakeNoFinalizer(c) ==
  /\ job = Idle /\ c \in queue
  /\ cache[c] # None /\ cache[c].conf \notin BadConfs
  /\ queue' = queue \ {c}
  /\ job' = [pc |-> "clear", of |-> c, got |-> cache[c],
             fresh |-> IF watch[c] = <<>> THEN "yes" ELSE "no"]
  /\ UNCHANGED <<apiVars, regVars, nodes, budget>>

Take(c) ==
  /\ job = Idle /\ c \in queue
  /\ cache[c] # None /\ cache[c].conf \notin BadConfs
  /\ queue' = queue \ {c}
  /\ job' = [pc |-> IF cache[c].term = "no" /\ cache[c].fin = "no" THEN "finalizer" ELSE "clear",
             of |-> c, got |-> cache[c],
             fresh |-> IF watch[c] = <<>> THEN "yes" ELSE "no"]
  /\ UNCHANGED <<apiVars, regVars, nodes, budget>>

Retry == queue' = queue \union {job.of} /\ job' = Idle

AddFinalizer ==
  /\ job.pc = "finalizer" /\ job.fresh = "yes"
  /\ LET o == [job.got EXCEPT !.fin = "yes"]
     IN Write(job.of, o) /\ job' = [job EXCEPT !.pc = "clear", !.got = o]
  /\ UNCHANGED <<queue, regVars, nodes, budget>>

(* Seeded fault: the manager is forgotten but not cancelled. *)
ClearNoCancel ==
  LET c == job.of
  IN /\ job.pc = "clear"
     /\ UNCHANGED <<live, stopping>>
     /\ managers' = [managers EXCEPT ![c] = None]
     /\ leafs' = leafs \ {c}
     /\ clients' = [clients EXCEPT ![Actual[c]] = None]
     /\ job' = IF job.got.term = "yes" THEN [job EXCEPT !.pc = "delete"]
               ELSE IF c \in Enabled THEN [job EXCEPT !.pc = "create"] ELSE Idle
     /\ UNCHANGED <<apiVars, queue, nodes, budget>>

(* clearClusterControllers: cancel the manager of the Cluster, whose Start *)
(* nobody waits for, and take it out of both registries, the client under  *)
(* its actual name.                                                        *)
Clear ==
  LET c == job.of
      runs == managers[c] # None /\ managers[c].state = "running"
  IN /\ job.pc = "clear"
     /\ stopping' = [stopping EXCEPT ![c] = IF runs THEN @ + 1 ELSE @]
     /\ UNCHANGED live
     /\ managers' = [managers EXCEPT ![c] = None]
     /\ leafs' = leafs \ {c}
     /\ clients' = [clients EXCEPT ![Actual[c]] = None]
     /\ job' = IF job.got.term = "yes" THEN [job EXCEPT !.pc = "delete"]
               ELSE IF c \in Enabled THEN [job EXCEPT !.pc = "create"] ELSE Idle
     /\ UNCHANGED <<apiVars, queue, nodes, budget>>

(* deleteNode deletes the node that has the Cluster's own name. *)
DeleteNode ==
  /\ job.pc = "delete"
  /\ nodes' = nodes \ {NamedAs[job.of]}
  /\ job' = IF job.got.fin = "yes" THEN [job EXCEPT !.pc = "release"] ELSE Idle
  /\ UNCHANGED <<apiVars, queue, regVars, budget>>

(* The last finalizer goes, and the object with it. *)
RemoveFinalizer ==
  /\ job.pc = "release" /\ job.fresh = "yes"
  /\ Write(job.of, None)
  /\ job' = Idle
  /\ UNCHANGED <<queue, regVars, nodes, budget>>

Conflict ==
  /\ job.pc \in {"finalizer", "release"} /\ job.fresh = "no"
  /\ Retry
  /\ UNCHANGED <<apiVars, regVars, nodes, budget>>

(* createNode: CreateRootNode keeps a node that is already there. *)
CreateNode ==
  /\ job.pc = "create"
  /\ nodes' = nodes \union {NodeOf[job.of]}
  /\ job' = [job EXCEPT !.pc = "setup"]
  /\ UNCHANGED <<apiVars, queue, regVars, budget>>

(* The manager is registered, then setupControllers adds the registry      *)
(* entries; AddLeafClientResource keeps an entry that is already there.    *)
Setup ==
  LET c == job.of
  IN /\ job.pc = "setup"
     /\ managers' = [managers EXCEPT ![c] = [conf |-> job.got.conf, state |-> "setup"]]
     /\ leafs' = leafs \union {c}
     /\ clients' = [clients EXCEPT ![Actual[c]] =
                      IF @ = None THEN [by |-> c, conf |-> job.got.conf] ELSE @]
     /\ job' = [job EXCEPT !.pc = "start"]
     /\ UNCHANGED <<apiVars, queue, live, stopping, nodes, budget>>

StartManager ==
  /\ job.pc = "start"
  /\ managers' = [managers EXCEPT ![job.of].state = "running"]
  /\ live' = [live EXCEPT ![job.of] = @ + 1]
  /\ job' = Idle
  /\ UNCHANGED <<apiVars, queue, stopping, leafs, clients, nodes, budget>>

(* Seeded fault: the error is logged and not returned. *)
FailsForgotten ==
  /\ job.pc \in {"finalizer", "delete", "release", "create", "start"}
  /\ Spend("fail")
  /\ job' = Idle
  /\ UNCHANGED <<apiVars, queue, regVars, nodes>>

(* An API call, the leaf's API server or the setup of a controller fails:  *)
(* the error is returned and the Cluster is tried again later.             *)
Fails ==
  /\ job.pc \in {"finalizer", "delete", "release", "create", "start"}
  /\ Spend("fail")
  /\ Retry
  /\ UNCHANGED <<apiVars, regVars, nodes>>

(* mgr.Start returns an error, which is logged. *)
ManagerDies(c) ==
  /\ managers[c] # None /\ managers[c].state = "running"
  /\ Spend("die")
  /\ managers' = [managers EXCEPT ![c].state = "dead"]
  /\ live' = [live EXCEPT ![c] = @ - 1]
  /\ UNCHANGED <<apiVars, queue, job, stopping, leafs, clients, nodes>>

(* mgr.Start returns after its context was cancelled. *)
ManagerStops(c) ==
  /\ stopping[c] > 0
  /\ stopping' = [stopping EXCEPT ![c] = @ - 1]
  /\ live' = [live EXCEPT ![c] = @ - 1]
  /\ UNCHANGED <<apiVars, queue, job, managers, leafs, clients, nodes, budget>>

(* The cluster manager's process restarts and lists the Clusters. *)
Restart ==
  /\ Spend("restart")
  /\ cache' = obj /\ watch' = [c \in Clusters |-> <<>>]
  /\ queue' = {c \in Clusters : obj[c] # None}
  /\ job' = Idle
  /\ managers' = [c \in Clusters |-> None]
  /\ live' = [c \in Clusters |-> 0] /\ stopping' = [c \in Clusters |-> 0]
  /\ leafs' = {} /\ clients' = [a \in Names |-> None]
  /\ UNCHANGED <<obj, nodes>>

-----------------------------------------------------------------------------
(* Those who administer the Clusters. *)

CreateCluster(c, k) ==
  /\ obj[c] = None
  /\ Spend("create")
  /\ Write(c, [conf |-> k, term |-> "no", fin |-> "no"])
  /\ Outdate(c)
  /\ UNCHANGED <<queue, regVars, nodes>>

EditConf(c, k) ==
  /\ obj[c] # None /\ obj[c].conf # k
  /\ Spend("edit")
  /\ Write(c, [obj[c] EXCEPT !.conf = k])
  /\ Outdate(c)
  /\ UNCHANGED <<queue, regVars, nodes>>

DeleteCluster(c) ==
  /\ obj[c] # None /\ obj[c].term = "no"
  /\ Write(c, IF obj[c].fin = "yes" THEN [obj[c] EXCEPT !.term = "yes"] ELSE None)
  /\ Outdate(c)
  /\ UNCHANGED <<queue, regVars, nodes, budget>>

-----------------------------------------------------------------------------
Work ==
  \/ AddFinalizer \/ Conflict \/ Clear \/ DeleteNode \/ RemoveFinalizer
  \/ CreateNode \/ Setup \/ StartManager

Next ==
  \/ Work \/ Fails \/ Restart
  \/ \E c \in Clusters :
       \/ TakeNothing(c) \/ Take(c) \/ Deliver(c) \/ ManagerDies(c) \/ ManagerStops(c)
       \/ DeleteCluster(c)
       \/ \E k \in Confs : CreateCluster(c, k) \/ EditConf(c, k)

(* The watch delivers, the worker goes on, the work queue, which is first  *)
(* in first out, lets no Cluster wait for ever, and a cancelled manager    *)
(* ends, at the latest after the grace period of controller-runtime.       *)
Fairness ==
  /\ WF_vars(Work)
  /\ \A c \in Clusters :
       WF_vars(Deliver(c)) /\ WF_vars(ManagerStops(c)) /\ SF_vars(Take(c)) /\ SF_vars(TakeNothing(c))

Spec == Init /\ [][Next]_vars /\ Fairness

-----------------------------------------------------------------------------
(* However stale the worker's copies are: of the managers of a Cluster     *)
(* that run, all but one were cancelled, and that one can still be.  The   *)
(* cancelled ones may run on beside it, since nothing waits for them.      *)
OneManager ==
  \A c \in Clusters :
    live[c] = stopping[c] + (IF managers[c] # None /\ managers[c].state = "running" THEN 1 ELSE 0)

(* The finalizer protects what the controller keeps for a Cluster: once    *)
(* the object is gone every manager of it that runs was cancelled, and the *)
(* registries that the pod controllers read do not list it.                *)
NothingOutlives ==
  \A c \in Clusters : obj[c] = None =>
    live[c] = stopping[c] /\ c \notin leafs /\ \A a \in Names : clients[a] # None => clients[a].by # c

(* The Cluster has a manager, which was started, and a registered client,  *)
(* both with its current kubeconfig, and no other manager runs.            *)
Served(c) ==
  /\ stopping[c] = 0
  /\ managers[c] # None /\ managers[c].conf = obj[c].conf /\ managers[c].state # "setup"
  /\ c \in leafs
  /\ clients[Actual[c]] = [by |-> c, conf |-> obj[c].conf]

(* Once changes and failures stop, every enabled Cluster is served.  A     *)
(* manager that has died since stays dead: the code only logs it.          *)
Converges ==
  \A c \in Enabled :
    <>[](obj[c] # None /\ obj[c].term = "no" /\ obj[c].conf \notin BadConfs => Served(c))

(* A deleted Cluster goes, unless its kubeconfig cannot be used. *)
DeletedGoes ==
  \A c \in Clusters :
    (obj[c] # None /\ obj[c].term = "yes") ~> (obj[c] = None \/ obj[c].conf \in BadConfs)
=============================================================================
