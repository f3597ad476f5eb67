------------------------------ MODULE PodSync ------------------------------
(***************************************************************************)
(* The pod synchronisation of ClusterTree, for one pod name.               *)
(*                                                                         *)
(* A root pod bound to the virtual node of a leaf cluster is copied into   *)
(* that cluster by the root pod reconciler (root_pod_controller.go); the   *)
(* leaf pod reconciler of each leaf cluster (leaf_pod_controller.go) and   *)
(* the root pod status reconciler (rootpodstatus_sync_controller.go) carry *)
(* the status back.  All of them read through informer caches that lag     *)
(* behind the API servers, and none of them compares pod UIDs: a pod is    *)
(* identified by its name, so the module numbers the incarnations (`uid`)  *)
(* of the root pod and records in every leaf pod the incarnation it was    *)
(* copied from (`owner`, a history value no action reads).                 *)
(*                                                                         *)
(* Work queues are keyed by pod name and pods of different names do not    *)
(* share state, so one name is modelled.  A leaf cluster has one virtual   *)
(* node (LeafMode ALL), identified with the cluster.  An API call that     *)
(* fails before changing anything, in a handler that puts the key back,    *)
(* leaves the state as it was: such failures are stuttering steps.         *)
(***************************************************************************)
EXTENDS Integers, Sequences, FiniteSets

CONSTANTS
  Leafs,      \* leaf clusters
  NoPod,      \* "there is no pod of this name"
  MaxUid,     \* bound on the incarnations of the root pod
  MaxEdit,    \* bound on the versions of labels and images
  Lag,        \* the leaf clusters whose cache the root side may read stale
  Budgets     \* how often each disturbance may happen: one of these

Disturbances == {"create", "force", "edit", "other", "report", "evict", "foreign", "fail", "drop", "stop",
                 "restart"}

(* A pod status: who reported it (an incarnation's leaf pod, or 0 for the  *)
(* empty status and for other writers in the root cluster) and a version.  *)
Status == [src : 0..MaxUid, n : Nat]
Pending == [src |-> 0, n |-> 0]
OtherStatus == [src |-> 0, n |-> 1]

RootPod == [uid : 1..MaxUid, node : Leafs, term : {"no", "yes"},
            image : 0..MaxEdit, labels : 0..MaxEdit, mark : {"plain", "kosmos"},
            status : Status]

(* owner = 0: a pod of the leaf cluster's own users. IsKosmosPod tests the *)
(* label kosmos-io/pod, which only the root pod reconciler sets.           *)
LeafPod == [owner : 0..MaxUid, term : {"no", "yes"},
            image : 0..MaxEdit, labels : 0..MaxEdit, status : Status]

ASSUME LeafsAssumption == Leafs # {}
ASSUME NoPodAssumption == NoPod \notin RootPod /\ NoPod \notin LeafPod
ASSUME BoundsAssumption == MaxUid \in Nat /\ MaxEdit \in Nat
ASSUME BudgetAssumption == Budgets \subseteq [Disturbances -> Nat]
ASSUME LagAssumption == Lag \subseteq Leafs

VARIABLES
  root,        \* the root pod in the root API server, or NoPod
  rootWatch,   \* versions of it not yet delivered to the root informer
  rootCache,   \* the root informer's cache
  leaf,        \* leaf[c]: the pod in leaf cluster c, or NoPod
  leafWatch,   \* leafWatch[c]: versions not yet delivered to c's informer
  leafCache,   \* leafCache[c]: c's informer cache
  managed,     \* leaf clusters registered in GlobalLeafManager, manager running
  queue,       \* controllers that have the pod's name in their work queue
  job,         \* what the root pod reconciler is in the middle of
  home,        \* history: home[u] is the node of root incarnation u
  lastUid,     \* number of root incarnations so far
  budget       \* disturbances left

rootVars == <<root, rootWatch, rootCache>>
leafVars == <<leaf, leafWatch, leafCache>>
ctrlVars == <<managed, queue, job>>
vars == <<rootVars, leafVars, ctrlVars, home, lastUid, budget>>

(* The controllers of one pod name: "root", "sync" and one per leaf cluster. *)
Controllers == {"root", "sync"} \union Leafs

(* The root reconciler is idle, creating a copy of `pod`, or deleting the  *)
(* copies on the nodes `todo`.                                             *)
Job == [op : {"idle", "create", "purge"}, pod : RootPod \union {NoPod}, todo : SUBSET Leafs]
Idle == [op |-> "idle", pod |-> NoPod, todo |-> {}]

TypeOK ==
  /\ root \in RootPod \union {NoPod}
  /\ rootWatch \in Seq(RootPod \union {NoPod})
  /\ rootCache \in RootPod \union {NoPod}
  /\ leaf \in [Leafs -> LeafPod \union {NoPod}]
  /\ leafWatch \in [Leafs -> Seq(LeafPod \union {NoPod})]
  /\ leafCache \in [Leafs -> LeafPod \union {NoPod}]
  /\ managed \subseteq Leafs
  /\ queue \subseteq Controllers
  /\ job \in Job /\ (job.op = "create" => job.pod # NoPod)
  /\ home \in [1..MaxUid -> Leafs \union {NoPod}]
  /\ lastUid \in 0..MaxUid
  /\ budget \in [Disturbances -> Nat]

Init ==
  /\ root = NoPod /\ rootWatch = <<>> /\ rootCache = NoPod
  /\ leaf = [c \in Leafs |-> NoPod]
  /\ leafWatch = [c \in Leafs |-> <<>>]
  /\ leafCache = [c \in Leafs |-> NoPod]
  /\ managed = Leafs
  /\ queue = {}
  /\ job = Idle
  /\ home = [u \in 1..MaxUid |-> NoPod]
  /\ lastUid = 0
  /\ budget \in Budgets

-----------------------------------------------------------------------------
(* API servers.  Every write is appended to the watch of the informer; a   *)
(* write that changes nothing produces no event.                           *)

IsKosmosPod(p) == p # NoPod /\ p.owner # 0

WriteRoot(p) ==
  /\ root' = p
  /\ rootWatch' = IF p = root THEN rootWatch ELSE Append(rootWatch, p)
  /\ UNCHANGED rootCache

WriteLeaf(c, p) ==
  /\ leaf' = [leaf EXCEPT ![c] = p]
  /\ leafWatch' = [leafWatch EXCEPT ![c] = IF c \in managed THEN Append(@, p) ELSE @]
  /\ UNCHANGED leafCache

(* DELETE of a leaf pod by name: a graceful deletion marks the pod and the *)
(* kubelet removes it later; a pod whose grace is over (NewLeafDeleteOption *)
(* asks for 0 seconds then), or one that never ran, goes at once.           *)
DeleteLeaf(c) ==
  \/ WriteLeaf(c, NoPod)
  \/ leaf[c].term = "no" /\ WriteLeaf(c, [leaf[c] EXCEPT !.term = "yes"])
  \/ leaf[c].term = "yes" /\ UNCHANGED leafVars

(* DeletePodInRootCluster: a cached Get, then a DELETE by name with grace  *)
(* period 0.  NotFound is success in both.                                 *)
DeletePodInRootCluster ==
  IF rootCache = NoPod THEN UNCHANGED rootVars ELSE WriteRoot(NoPod)

Spend(e) == budget[e] > 0 /\ budget' = [budget EXCEPT ![e] = @ - 1]

-----------------------------------------------------------------------------
(* Informers: deliver the oldest undelivered version and enqueue the name  *)
(* in the controllers whose predicates accept the event.                   *)

RootEvents(old, new) ==
  {"root"} \union
  (IF old # NoPod /\ new # NoPod /\ new.mark = "kosmos" /\ old.status # new.status
     THEN {"sync"} ELSE {})

DeliverRoot ==
  /\ rootWatch # <<>>
  /\ rootCache' = Head(rootWatch)
  /\ rootWatch' = Tail(rootWatch)
  /\ queue' = queue \union RootEvents(rootCache, Head(rootWatch))
  /\ UNCHANGED <<root, leafVars, managed, job, home, lastUid, budget>>

(* Seeded fault: status changes of the leaf pod are filtered out. *)
LeafEventIgnoresStatus(old, new) ==
  \/ old = NoPod /\ IsKosmosPod(new)
  \/ new = NoPod /\ IsKosmosPod(old)

(* The leaf controller's predicate: pods of Kosmos only, and updates only  *)
(* when the status differs.                                                *)
LeafEventAccepted(old, new) ==
  \/ old = NoPod /\ IsKosmosPod(new)
  \/ new = NoPod /\ IsKosmosPod(old)
  \/ old # NoPod /\ IsKosmosPod(new) /\ old.status # new.status

DeliverLeaf(c) ==
  /\ c \in managed
  /\ leafWatch[c] # <<>>
  /\ leafCache' = [leafCache EXCEPT ![c] = Head(leafWatch[c])]
  /\ leafWatch' = [leafWatch EXCEPT ![c] = Tail(@)]
  /\ queue' = IF LeafEventAccepted(leafCache[c], Head(leafWatch[c]))
                THEN queue \union {c} ELSE queue
  /\ UNCHANGED <<rootVars, leaf, managed, job, home, lastUid, budget>>

(* The periodic resync of the root informer replays its cache as update    *)
(* events; the other controllers filter them out, their status being equal. *)
Resync ==
  /\ rootCache # NoPod
  /\ queue' = queue \union {"root"}
  /\ UNCHANGED <<rootVars, leafVars, managed, job, home, lastUid, budget>>

-----------------------------------------------------------------------------
(* Root pod reconciler.  `Take` starts a reconciliation of the name; the   *)
(* node filter and the registry lookups requeue until the leaf cluster of  *)
(* the pod is registered.                                                  *)

Take == "root" \in queue /\ job = Idle

(* What the root side reads from the cache of leaf cluster c; outside Lag  *)
(* the informer is assumed to have caught up.                              *)
CanRead(c) == c \in managed /\ (c \in Lag \/ leafWatch[c] = <<>>)

Done == queue' = queue \ {"root"} /\ job' = Idle
Requeue == queue' = queue \union {"root"} /\ job' = Idle

(* The cached root pod is gone: delete the copies on every known node. *)
RootPurgeStart ==
  /\ Take
  /\ rootCache = NoPod
  /\ queue' = queue \ {"root"}
  /\ job' = [op |-> "purge", pod |-> NoPod, todo |-> managed]
  /\ UNCHANGED <<rootVars, leafVars, managed, home, lastUid, budget>>

(* DeletePodInLeafCluster(cleanflag = false) on one of the listed nodes. *)
RootPurge(c) ==
  /\ job.op = "purge" /\ c \in job.todo
  /\ CanRead(c)
  /\ IF IsKosmosPod(leafCache[c]) /\ leaf[c] # NoPod
       THEN DeleteLeaf(c) ELSE UNCHANGED leafVars
  /\ job' = [job EXCEPT !.todo = @ \ {c}]
  /\ UNCHANGED <<rootVars, managed, queue, home, lastUid, budget>>

RootPurgeEnd ==
  /\ job.op = "purge" /\ job.todo = {}
  /\ job' = Idle
  /\ UNCHANGED <<rootVars, leafVars, managed, queue, home, lastUid, budget>>

(* The node went away between ListNodes and the lookup, or a call failed. *)
RootPurgeFails(c) ==
  /\ job.op = "purge" /\ c \in job.todo
  /\ IF c \in managed THEN Spend("fail") ELSE UNCHANGED budget
  /\ Requeue
  /\ UNCHANGED <<rootVars, leafVars, managed, home, lastUid>>

(* DeletePodInLeafCluster(cleanflag = true) for a root pod that is being   *)
(* deleted: no leaf pod means the root pod may go; a pod that is not ours  *)
(* is left alone, and so is the root pod; otherwise the leaf pod is        *)
(* deleted, by name, and the leaf reconciler finishes the job.             *)
RootDelete ==
  /\ Take
  /\ rootCache # NoPod /\ rootCache.term = "yes"
  /\ LET c == rootCache.node
     IN /\ CanRead(c)
        /\ IF leafCache[c] = NoPod \/ (IsKosmosPod(leafCache[c]) /\ leaf[c] = NoPod)
             THEN DeletePodInRootCluster /\ UNCHANGED leafVars
             ELSE /\ UNCHANGED rootVars
                  /\ IF IsKosmosPod(leafCache[c]) THEN DeleteLeaf(c) ELSE UNCHANGED leafVars
  /\ Done
  /\ UNCHANGED <<managed, home, lastUid, budget>>

RootLive == rootCache # NoPod /\ rootCache.term = "no"

(* CreatePodInLeafCluster first copies the volumes, which takes up to 30   *)
(* seconds: the pod is created from the copy of the root pod read here.    *)
RootCreateStart ==
  /\ Take /\ RootLive
  /\ CanRead(rootCache.node)
  /\ leafCache[rootCache.node] = NoPod
  /\ queue' = queue \ {"root"}
  /\ job' = [op |-> "create", pod |-> rootCache, todo |-> {}]
  /\ UNCHANGED <<rootVars, leafVars, managed, home, lastUid, budget>>

(* FitPod: our label, no status; UID and resource version are dropped. *)
FitPod(p) == [owner |-> p.uid, term |-> "no", image |-> p.image,
              labels |-> p.labels, status |-> Pending]

(* Seeded fault: the leaf cluster is not looked up by the pod's node. *)
RootCreateAnywhere ==
  /\ job.op = "create"
  /\ \E c \in Leafs : leaf[c] = NoPod /\ WriteLeaf(c, FitPod(job.pod))
  /\ job' = Idle
  /\ UNCHANGED <<rootVars, managed, queue, home, lastUid, budget>>

(* The leaf API server accepts the new pod: there is none of that name.    *)
(* The client was looked up before the volumes were copied, and works even *)
(* if the cluster has left the registry since.                             *)
RootCreate ==
  /\ job.op = "create"
  /\ leaf[job.pod.node] = NoPod
  /\ WriteLeaf(job.pod.node, FitPod(job.pod))
  /\ job' = Idle
  /\ UNCHANGED <<rootVars, managed, queue, home, lastUid, budget>>

(* AlreadyExists, the cluster is gone, or any other error: requeue. *)
RootCreateFails ==
  /\ job.op = "create"
  /\ IF job.pod.node \in managed /\ leaf[job.pod.node] = NoPod
       THEN Spend("fail") ELSE UNCHANGED budget
  /\ Requeue
  /\ UNCHANGED <<rootVars, leafVars, managed, home, lastUid>>

(* Seeded fault: the resource version is cleared, nothing conflicts. *)
RootUpdateForced ==
  /\ Take /\ RootLive
  /\ LET c == rootCache.node
         p == leafCache[c]
         differs == p.image # rootCache.image \/ p.labels # rootCache.labels
     IN /\ CanRead(c)
        /\ p # NoPod /\ leaf[c] # NoPod
        /\ IF IsKosmosPod(p) /\ differs
             THEN WriteLeaf(c, [leaf[c] EXCEPT !.image = rootCache.image, !.labels = rootCache.labels])
             ELSE UNCHANGED leafVars
  /\ Done
  /\ UNCHANGED <<rootVars, managed, home, lastUid, budget>>

(* UpdatePodInLeafCluster: a pod that is not ours is ignored, an equal one *)
(* is left alone; the update carries the resource version that was read,   *)
(* so it conflicts, and is requeued, unless the cache is up to date.       *)
RootUpdate ==
  /\ Take /\ RootLive
  /\ LET c == rootCache.node
         p == leafCache[c]
         differs == p.image # rootCache.image \/ p.labels # rootCache.labels
     IN /\ CanRead(c)
        /\ p # NoPod
        /\ \/ /\ ~(IsKosmosPod(p) /\ differs)
              /\ UNCHANGED leafVars /\ Done
           \/ /\ IsKosmosPod(p) /\ differs
              /\ leafWatch[c] = <<>>
              /\ WriteLeaf(c, [p EXCEPT !.image = rootCache.image, !.labels = rootCache.labels])
              /\ Done
  /\ UNCHANGED <<rootVars, managed, home, lastUid, budget>>

-----------------------------------------------------------------------------
(* Leaf pod reconciler of cluster c: a missing leaf pod deletes the root   *)
(* pod of that name; otherwise the leaf pod, labels included, is written   *)
(* to the status of the root pod of that name with no version check.       *)
LeafReconcile(c) ==
  /\ c \in queue /\ c \in managed
  /\ IF leafCache[c] = NoPod
       THEN DeletePodInRootCluster
       ELSE IF IsKosmosPod(leafCache[c]) /\ root # NoPod
         THEN WriteRoot([root EXCEPT !.status = leafCache[c].status,
                                     !.labels = leafCache[c].labels, !.mark = "kosmos"])
         ELSE UNCHANGED rootVars
  /\ queue' = queue \ {c}
  /\ UNCHANGED <<leafVars, managed, job, home, lastUid, budget>>

(* Root pod status reconciler: puts the leaf pod's status back when someone *)
(* else changed the root pod's.  Every error is logged and dropped.         *)
SyncApplies ==
  /\ rootCache # NoPod
  /\ rootCache.node \in managed
  /\ IsKosmosPod(leafCache[rootCache.node])
  /\ leafCache[rootCache.node].status # rootCache.status

SyncReconcile ==
  /\ "sync" \in queue
  /\ IF SyncApplies /\ root # NoPod
       THEN WriteRoot([root EXCEPT !.status = leafCache[rootCache.node].status,
                                   !.labels = rootCache.labels, !.mark = rootCache.mark])
       ELSE UNCHANGED rootVars
  /\ queue' = queue \ {"sync"}
  /\ UNCHANGED <<leafVars, managed, job, home, lastUid, budget>>

SyncFails ==
  /\ "sync" \in queue /\ SyncApplies
  /\ Spend("drop")
  /\ queue' = queue \ {"sync"}
  /\ UNCHANGED <<rootVars, leafVars, managed, job, home, lastUid>>

-----------------------------------------------------------------------------
(* Leaf cluster managers.  clearClusterControllers and setupControllers of *)
(* the cluster controller take a leaf cluster out of the registry, stop    *)
(* its informers, and start new ones, which list the pods there are.       *)

StopLeaf(c) ==
  /\ c \in managed
  /\ Spend("stop")
  /\ managed' = managed \ {c}
  /\ leafCache' = [leafCache EXCEPT ![c] = NoPod]
  /\ leafWatch' = [leafWatch EXCEPT ![c] = <<>>]
  /\ queue' = queue \ {c}
  /\ UNCHANGED <<rootVars, leaf, job, home, lastUid>>

(* The informer of the new manager lists the pod as a create event. *)
StartLeaf(c) ==
  /\ c \notin managed
  /\ managed' = managed \union {c}
  /\ leafCache' = [leafCache EXCEPT ![c] = leaf[c]]
  /\ queue' = IF IsKosmosPod(leaf[c]) THEN queue \union {c} ELSE queue
  /\ UNCHANGED <<rootVars, leaf, leafWatch, job, home, lastUid, budget>>

(* The cluster manager process restarts: queues, caches and the running    *)
(* reconciliation are lost, the root informer lists what there is.         *)
Restart ==
  /\ Spend("restart")
  /\ rootCache' = root /\ rootWatch' = <<>>
  /\ queue' = IF root = NoPod THEN {} ELSE {"root"}
  /\ job' = Idle
  /\ managed' = {}
  /\ leafCache' = [c \in Leafs |-> NoPod]
  /\ leafWatch' = [c \in Leafs |-> <<>>]
  /\ UNCHANGED <<root, leaf, home, lastUid>>

-----------------------------------------------------------------------------
(* The users and controllers of the root cluster. *)

CreateRootPod(c) ==
  /\ root = NoPod
  /\ lastUid < MaxUid
  /\ Spend("create")
  /\ lastUid' = lastUid + 1
  /\ home' = [home EXCEPT ![lastUid + 1] = c]
  /\ WriteRoot([uid |-> lastUid + 1, node |-> c, term |-> "no", image |-> 0,
                labels |-> 0, mark |-> "plain", status |-> Pending])
  /\ UNCHANGED <<leafVars, ctrlVars>>

DeleteRootPod ==
  /\ root # NoPod /\ root.term = "no"
  /\ WriteRoot([root EXCEPT !.term = "yes"])
  /\ UNCHANGED <<leafVars, ctrlVars, home, lastUid, budget>>

ForceDeleteRootPod ==
  /\ root # NoPod
  /\ Spend("force")
  /\ WriteRoot(NoPod)
  /\ UNCHANGED <<leafVars, ctrlVars, home, lastUid>>

EditRootPod ==
  /\ root # NoPod
  /\ Spend("edit")
  /\ \/ root.image < MaxEdit /\ WriteRoot([root EXCEPT !.image = @ + 1])
     \/ root.labels < MaxEdit /\ WriteRoot([root EXCEPT !.labels = @ + 1])
  /\ UNCHANGED <<leafVars, ctrlVars, home, lastUid>>

OtherWritesStatus ==
  /\ root # NoPod
  /\ Spend("other")
  /\ WriteRoot([root EXCEPT !.status = OtherStatus])
  /\ UNCHANGED <<leafVars, ctrlVars, home, lastUid>>

-----------------------------------------------------------------------------
(* The leaf clusters: kubelets, evictions and the users' own pods. *)

KubeletReports(c) ==
  /\ IsKosmosPod(leaf[c])
  /\ Spend("report")
  /\ WriteLeaf(c, [leaf[c] EXCEPT !.status = [src |-> leaf[c].owner, n |-> leaf[c].status.n + 1]])
  /\ UNCHANGED <<rootVars, ctrlVars, home, lastUid>>

KubeletRemoves(c) ==
  /\ leaf[c] # NoPod /\ leaf[c].term = "yes"
  /\ WriteLeaf(c, NoPod)
  /\ UNCHANGED <<rootVars, ctrlVars, home, lastUid, budget>>

Evict(c) ==
  /\ leaf[c] # NoPod
  /\ Spend("evict")
  /\ DeleteLeaf(c)
  /\ UNCHANGED <<rootVars, ctrlVars, home, lastUid>>

CreateForeignPod(c) ==
  /\ leaf[c] = NoPod
  /\ Spend("foreign")
  /\ WriteLeaf(c, [owner |-> 0, term |-> "no", image |-> 0, labels |-> 0,
                   status |-> Pending])
  /\ UNCHANGED <<rootVars, ctrlVars, home, lastUid>>

-----------------------------------------------------------------------------
RootReconcile ==
  \/ RootPurgeStart \/ RootPurgeEnd
  \/ \E c \in Leafs : RootPurge(c) \/ RootPurgeFails(c)
  \/ RootDelete \/ RootCreateStart \/ RootCreate \/ RootCreateFails \/ RootUpdate

Kosmos ==
  \/ RootReconcile
  \/ SyncReconcile \/ SyncFails
  \/ \E c \in Leafs : LeafReconcile(c) \/ StartLeaf(c)

Environment ==
  \/ DeliverRoot \/ Resync
  \/ Restart
  \/ DeleteRootPod \/ ForceDeleteRootPod \/ EditRootPod \/ OtherWritesStatus
  \/ \E c \in Leafs :
       \/ DeliverLeaf(c) \/ StopLeaf(c) \/ CreateRootPod(c)
       \/ KubeletReports(c) \/ KubeletRemoves(c) \/ Evict(c) \/ CreateForeignPod(c)

Next == Kosmos \/ Environment

(* Watches deliver, workers take names off their queues, stopped leaf      *)
(* managers are started again, kubelets remove the pods marked for         *)
(* deletion and the informer resyncs.  Nothing else has to happen.         *)
Fairness ==
  /\ WF_vars(DeliverRoot)
  /\ WF_vars(Resync)
  /\ WF_vars(RootReconcile)
  /\ WF_vars(SyncReconcile)
  /\ \A c \in Leafs : /\ WF_vars(DeliverLeaf(c))
                      /\ WF_vars(LeafReconcile(c))
                      /\ WF_vars(StartLeaf(c))
                      /\ WF_vars(KubeletRemoves(c))

Spec == Init /\ [][Next]_vars /\ Fairness

-----------------------------------------------------------------------------
(* A copy of a root pod runs only in the cluster of the node that very     *)
(* incarnation was bound to: whatever is stale, restarted or retried, no   *)
(* incarnation ever runs in two leaf clusters.                             *)
OneHome ==
  \A c \in Leafs : IsKosmosPod(leaf[c]) => home[leaf[c].owner] = c

(* Kosmos never overwrites a pod it did not create, even when its cache    *)
(* still shows its own pod under that name: the update carries the version *)
(* that was read and the create is refused.                                *)
ForeignNeverOverwritten ==
  [][\A c \in Leafs :
       leaf[c] # NoPod /\ ~IsKosmosPod(leaf[c]) /\ leaf'[c] # NoPod =>
         leaf'[c].owner = 0 /\ leaf'[c].image = leaf[c].image /\ leaf'[c].labels = leaf[c].labels]_vars

(* The copies and the users' pods of the leaf clusters, as Placement sees  *)
(* them: status, images, caches and reconcilers are invisible.             *)
Placed == INSTANCE Placement WITH
  bound <- [u \in 1..lastUid |-> home[u]],
  slot <- [c \in Leafs |-> IF leaf[c] = NoPod THEN -1 ELSE leaf[c].owner]

(* Every behaviour of the reconcilers is one of Placement: a copy appears  *)
(* in the cluster its incarnation was bound to, in a free slot, and never  *)
(* while a copy of a later incarnation runs anywhere, so no stale cache,   *)
(* late create or restart brings an older incarnation back over a newer.   *)
ImplementsPlacement == Placed!Spec

Mirrored ==
  IF root = NoPod
    THEN \A c \in Leafs : ~IsKosmosPod(leaf[c])
    ELSE LET p == leaf[root.node]
         IN /\ root.term = "no"
            /\ \A c \in Leafs : IsKosmosPod(leaf[c]) <=> c = root.node
            /\ p.image = root.image /\ p.labels = root.labels /\ p.status = root.status

(* Once the disturbances stop, the leaf clusters hold exactly the copy of  *)
(* the root pod, with its images and labels, and the root pod shows the    *)
(* copy's status; a deleted root pod leaves nothing behind.                *)
Converges == <>[]Mirrored
=============================================================================
