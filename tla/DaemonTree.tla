------------------------------ MODULE DaemonTree ------------------------------
(***************************************************************************)
(* How one DaemonSet of the root cluster reaches the member clusters:      *)
(*   the mirror controller (daemonset_mirror_controller.go) copies an      *)
(*   annotated apps/v1 DaemonSet, ds, to a Kosmos DaemonSet, kds, and the  *)
(*   status back;                                                          *)
(*   the daemon set controller (daemonset_controller.go) keeps a           *)
(*   ShadowDaemonSet, sds, for the host and for each member cluster, and   *)
(*   adds up their status;                                                 *)
(*   the distribute controller (distribute_controller.go) makes a          *)
(*   DaemonSet, member, in each member cluster from its sds, and uses      *)
(*   finalizers on the sds and on the Cluster to remove it again.          *)
(*                                                                         *)
(* A spec is its generation and stands for labels and annotations too; a   *)
(* status is the number of ready pods, 0 or 1 for each target.  Each       *)
(* controller has informers of its own.  A write with a version that is    *)
(* not the latest is a conflict: the cached object differs from the one    *)
(* stored.  A key is retried until it succeeds (15 times in the code).     *)
(***************************************************************************)
EXTENDS Integers, FiniteSets, FiniteSetsExt

CONSTANTS
  Clusters,    \* the member clusters
  Host,        \* the target of the root cluster's own nodes
  MaxSpec,     \* bound on the generations of the spec
  MaxUid,      \* enough UIDs for the objects that exist or are remembered
  None,
  Cases        \* how it starts: the clusters that have joined, whether there is
               \* no ds, one that runs or one that is gone, and with it its kds,
               \* but not yet the sds, and the disturbances to come

Targets == Clusters \union {Host}
Disturbances == {"edit", "set", "cluster", "remove", "kds", "status", "fail", "restart"}

ASSUME BoundsAssumption == {MaxSpec, MaxUid} \subseteq Nat \ {0}
ASSUME HostAssumption == Host \notin Clusters
ASSUME CaseAssumption ==
  Cases \subseteq [joined : SUBSET Clusters, ds : {"none", "running", "gone"}, budget : [Disturbances -> Nat]]

VARIABLES
  ds, kds,     \* the two DaemonSets
  sds,         \* sds[t]: the ShadowDaemonSet of target t
  cluster,     \* cluster[c]: the Cluster object
  member,      \* member[c]: the DaemonSet in cluster c
  mirror,      \* the mirror controller: its caches and queue
  daemon,      \* the daemon set controller: its caches and queue
  job,         \* ... and the sync that is running
  dist,        \* the distribute controller: its caches, queues and managers
  lost,        \* history: what no later event makes up for
  budget

objects == <<ds, kds, sds, cluster, member>>
vars == <<objects, mirror, daemon, job, dist, lost, budget>>

Spend(e) == budget[e] > 0 /\ budget' = [budget EXCEPT ![e] = @ - 1]

(* What is noted in the history. *)
Noted(what, c, so) == IF so THEN {<<what, c>>} ELSE {}

(* A call fails at point f of a sync, or none does. *)
MayFail(f) == IF f = "none" THEN UNCHANGED budget ELSE Spend("fail")

(* The DaemonSet, if there is one, runs on the host and in all clusters    *)
(* that have joined.                                                       *)
Start(joined, state) ==
  LET all == joined \union {Host}
      IfIn(t, S, o) == IF t \in S THEN o ELSE None
      running == IF state = "none" THEN {} ELSE all
  IN  /\ ds = IfIn(state, {"running"}, [uid |-> 1, spec |-> 1, status |-> Cardinality(all)])
      /\ kds = IfIn(state, {"running"}, [uid |-> 1, owner |-> 1, spec |-> 1, status |-> Cardinality(all)])
      /\ sds = [t \in Targets |-> IfIn(t, running,
                  [uid |-> 1, owner |-> 1, spec |-> 1, status |-> 1, fin |-> t # Host, term |-> FALSE])]
      /\ cluster = [c \in Clusters |-> IfIn(c, all, [fin |-> TRUE, other |-> TRUE, term |-> FALSE])]
      /\ member = [c \in Clusters |-> IfIn(c, running, [spec |-> 1, status |-> 1])]

Init ==
  /\ \E k \in Cases : Start(k.joined, k.ds) /\ budget = k.budget
  /\ mirror = [ds |-> ds, kds |-> kds, fresh |-> None, queue |-> FALSE]
  /\ daemon = [kds |-> kds, sds |-> sds, cluster |-> cluster, fresh |-> {}, queue |-> FALSE]
  /\ job = None
  /\ dist = [sds |-> [c \in Clusters |-> sds[c]], cluster |-> cluster, member |-> member, managers |-> {c \in Clusters : cluster[c] # None},
             clusters |-> {}, shadows |-> {}, sdsFlip |-> {}, clusterFlip |-> {}]
  /\ lost = {}

-----------------------------------------------------------------------------
(* An object's UID is one that no object has, nor anybody remembers. *)
NewUid(used) == Min((1 .. MaxUid) \ used)
KdsCopies == {kds, mirror.kds, mirror.fresh, daemon.kds} \union (IF job = None THEN {} ELSE {job.kds})
Shadows(t) == {sds[t], daemon.sds[t]} \union (IF t = Host THEN {} ELSE {dist.sds[t]})
Uids(S) == {o.uid : o \in S \ {None}}
Owners(S) == {o.owner : o \in S \ {None}}

DsUids == Uids({ds, mirror.ds}) \union Owners(KdsCopies)
KdsUids == Uids(KdsCopies) \union UNION {Owners(Shadows(t)) : t \in Targets}

(* What the API servers do with a deletion. *)
Deleted(s) == IF s.fin THEN [s EXCEPT !.term = TRUE] ELSE None
Left(o) == IF o.fin \/ o.other THEN o ELSE None

-----------------------------------------------------------------------------
(* DaemonSetsMirrorController.  Events of ds: added, updated.  Events of   *)
(* kds: updated, deleted, if there is a ds of that name; the one created   *)
(* last (fresh) may have changed, or be gone, when it is seen.             *)

MirrorSeesDs ==
  /\ mirror.ds # ds
  /\ mirror' = [mirror EXCEPT !.ds = ds, !.queue = @ \/ ds # None]
  /\ UNCHANGED <<objects, daemon, job, dist, lost, budget>>

MirrorSeesKds ==
  /\ mirror.kds # kds \/ mirror.fresh # None
  /\ mirror' = [mirror EXCEPT !.kds = kds, !.fresh = None,
                  !.queue = @ \/ (mirror.ds # None /\ (mirror.kds # None \/ mirror.fresh # kds))]
  /\ UNCHANGED <<objects, daemon, job, dist, lost, budget>>

MirrorDone(ok) == mirror' = [mirror EXCEPT !.queue = ~ok]
MirrorCreated == mirror' = [mirror EXCEPT !.queue = FALSE, !.fresh = kds']

(* syncDaemonSet: create the kds... *)
MirrorCreate(f) ==
  /\ mirror.ds # None /\ mirror.kds = None
  /\ IF kds = None /\ f = "none"
       THEN /\ kds' = [uid |-> NewUid(KdsUids), owner |-> mirror.ds.uid, spec |-> mirror.ds.spec, status |-> 0]
            /\ MirrorCreated
       ELSE UNCHANGED kds /\ MirrorDone(FALSE)
  /\ UNCHANGED ds

(* ... or bring its spec and the status of the ds up to date. *)
MirrorUpdate(f) ==
  LET written == mirror.kds = kds /\ f # "kds"
      reported == written /\ mirror.ds = ds /\ f # "ds"
  IN  /\ mirror.ds # None /\ mirror.kds # None
      /\ mirror.kds.owner = mirror.ds.uid
      /\ kds' = IF written THEN [kds EXCEPT !.spec = mirror.ds.spec] ELSE kds
      /\ ds' = IF reported THEN [ds EXCEPT !.status = kds.status] ELSE ds
      /\ MirrorDone(reported)

(* The ds is gone, or the kds of that name is not its own. *)
MirrorIdle ==
  /\ mirror.ds # None => mirror.kds # None /\ mirror.kds.owner # mirror.ds.uid
  /\ MirrorDone(TRUE)
  /\ UNCHANGED <<ds, kds>>

MirrorSync(f) ==
  /\ mirror.queue
  /\ MirrorCreate(f) \/ MirrorUpdate(f) \/ (f = "none" /\ MirrorIdle)
  /\ MayFail(f)
  /\ UNCHANGED <<sds, cluster, member, daemon, job, dist, lost>>

-----------------------------------------------------------------------------
(* DaemonSetsController: every event is for the kds, if there is one. *)

DaemonSeesKds ==
  /\ daemon.kds # kds
  /\ daemon' = [daemon EXCEPT !.kds = kds, !.queue = TRUE]
  /\ UNCHANGED <<objects, mirror, job, dist, lost, budget>>

DaemonSeesSds(t) ==
  /\ daemon.sds[t] # sds[t] \/ t \in daemon.fresh
  /\ daemon' = [daemon EXCEPT !.sds[t] = sds[t], !.fresh = @ \ {t}, !.queue = @ \/ daemon.kds # None]
  /\ UNCHANGED <<objects, mirror, job, dist, lost, budget>>

DaemonSeesCluster(c) ==
  /\ daemon.cluster[c] # cluster[c]
  /\ daemon' = [daemon EXCEPT !.cluster[c] = cluster[c], !.queue = @ \/ daemon.kds # None]
  /\ UNCHANGED <<objects, mirror, job, dist, lost, budget>>

(* Seeded fault: an error is forgotten. *)
DaemonDoneForgotten(ok) == job' = None /\ UNCHANGED daemon

(* The end of a sync, which an error puts back into the queue. *)
DaemonDone(ok) ==
  /\ job' = None
  /\ daemon' = [daemon EXCEPT !.queue = @ \/ ~ok]

(* listAllShadowDaemonSet *)
Owned(k) == {t \in Targets : daemon.sds[t] # None /\ daemon.sds[t].owner = k.uid}

(* syncDaemonSet starts: the orphans are the sds of clusters that are gone. *)
DaemonTake ==
  /\ daemon.queue /\ job = None
  /\ daemon' = [daemon EXCEPT !.queue = FALSE]
  /\ job' = IF daemon.kds = None THEN None
            ELSE [kds |-> daemon.kds, pc |-> "orphans",
                  todo |-> {c \in Clusters \intersect Owned(daemon.kds) : daemon.cluster[c] = None}]
  /\ UNCHANGED <<objects, mirror, dist, lost, budget>>

(* removeOrphanShadowDaemonSet: one that has gone already is an error. *)
DaemonOrphan(c, f) ==
  /\ job # None /\ job.pc = "orphans" /\ c \in job.todo
  /\ IF sds[c] = None \/ f # "none" THEN DaemonDone(FALSE) /\ UNCHANGED sds
     ELSE /\ sds' = [sds EXCEPT ![c] = Deleted(@)]
          /\ job' = [job EXCEPT !.todo = @ \ {c}]
          /\ UNCHANGED daemon
  /\ MayFail(f)
  /\ UNCHANGED <<ds, kds, cluster, member, mirror, dist, lost>>

CreateShadowDaemonSet(t, k) ==
  [uid |-> NewUid(Uids(Shadows(t))), owner |-> k.uid, spec |-> k.spec, status |-> 0,
   fin |-> FALSE, term |-> FALSE]

(* createOrUpdate: an sds that exists keeps its owner. *)
CreateOrUpdate(t) ==
  IF sds[t] # None
    THEN sds' = [sds EXCEPT ![t].spec = job.kds.spec] /\ UNCHANGED daemon
    ELSE /\ daemon' = [daemon EXCEPT !.fresh = @ \union {t}]
         /\ sds' = [sds EXCEPT ![t] = CreateShadowDaemonSet(t, job.kds)]

(* The clusters are listed, then the host's sds is written. *)
DaemonHost(f) ==
  /\ job # None /\ job.pc = "orphans" /\ job.todo = {}
  /\ IF f = "none"
       THEN /\ CreateOrUpdate(Host)
            /\ job' = [job EXCEPT !.pc = "members",
                         !.todo = {c \in Clusters : daemon.cluster[c] # None /\ ~daemon.cluster[c].term}]
       ELSE DaemonDone(FALSE) /\ UNCHANGED sds
  /\ MayFail(f)
  /\ UNCHANGED <<ds, kds, cluster, member, mirror, dist, lost>>

(* A failure to write a member's sds is only logged. *)
DaemonMember(c, f) ==
  /\ job # None /\ job.pc = "members" /\ c \in job.todo
  /\ job' = [job EXCEPT !.todo = @ \ {c}]
  /\ IF f = "none" THEN CreateOrUpdate(c) /\ lost' = lost \ {<<"sds not written", c>>}
     ELSE lost' = lost \union {<<"sds not written", c>>} /\ UNCHANGED <<sds, daemon>>
  /\ MayFail(f)
  /\ UNCHANGED <<ds, kds, cluster, member, mirror, dist>>

(* updateStatus *)
Total(k) == MapThenSumSet(LAMBDA t : daemon.sds[t].status, Owned(k))

DaemonStatus(f) ==
  /\ job # None /\ job.pc = "members" /\ job.todo = {}
  /\ LET ok == kds = job.kds /\ f = "none"
     IN  /\ kds' = IF ok THEN [kds EXCEPT !.status = Total(job.kds)] ELSE kds
         /\ DaemonDone(ok)
  /\ MayFail(f)
  /\ UNCHANGED <<ds, sds, cluster, member, mirror, dist, lost>>

-----------------------------------------------------------------------------
(* DistributeController.  addFinalizer and removeFinalizer change the      *)
(* cached object itself: sdsFlip and clusterFlip hold the clusters whose   *)
(* cached sds or Cluster has its finalizer changed, stored or not, until   *)
(* the informer replaces the object.                                       *)

(* updateShadowDaemonSet: a change of the status or finalizers is skipped. *)
ShadowChanged(old, new) ==
  \/ old = None \/ new = None
  \/ old.uid # new.uid \/ old.spec # new.spec \/ new.term

DistSeesSds(c) ==
  /\ dist.sds[c] # sds[c]
  /\ dist' = [dist EXCEPT !.sds[c] = sds[c], !.sdsFlip = @ \ {c},
                !.shadows = IF ShadowChanged(dist.sds[c], sds[c]) THEN @ \union {c} ELSE @]
  /\ lost' = IF ShadowChanged(dist.sds[c], sds[c]) THEN lost \ {<<"sds skipped", c>>} ELSE lost
  /\ UNCHANGED <<objects, mirror, daemon, job, budget>>

DistSeesCluster(c) ==
  /\ dist.cluster[c] # cluster[c]
  /\ dist' = [dist EXCEPT !.cluster[c] = cluster[c], !.clusterFlip = @ \ {c}, !.clusters = @ \union {c}]
  /\ UNCHANGED <<objects, mirror, daemon, job, lost, budget>>

(* addDaemonSet, deleteDaemonSet, and updateDaemonSet if the status changed. *)
MemberChanged(old, new) == old = None \/ new = None \/ old.status # new.status

DistSeesMember(c) ==
  /\ c \in dist.managers /\ dist.member[c] # member[c]
  /\ dist' = [dist EXCEPT !.member[c] = member[c],
                !.shadows = IF MemberChanged(dist.member[c], member[c]) THEN @ \union {c} ELSE @]
  /\ UNCHANGED <<objects, mirror, daemon, job, lost, budget>>

SdsHasFinalizer(c) == dist.sds[c].fin # (c \in dist.sdsFlip)
ClusterHasFinalizer(c) == dist.cluster[c].fin # (c \in dist.clusterFlip)

(* The manager of a cluster, started if there is none: it waits until its  *)
(* cache is filled, and every DaemonSet it finds is an event.              *)
Started(c) ==
  IF c \in dist.managers THEN dist
  ELSE [dist EXCEPT !.managers = @ \union {c}, !.member[c] = member[c],
          !.shadows = IF member[c] # None THEN @ \union {c} ELSE @]

(* ensureClusterFinalizer *)
EnsureCluster(c, f) ==
  LET d == Started(c)
      has == ClusterHasFinalizer(c)
      ok == has \/ (dist.cluster[c] = cluster[c] /\ f # "finalizer")
  IN  /\ dist.cluster[c] # None /\ ~dist.cluster[c].term
      /\ cluster' = IF ~has /\ ok THEN [cluster EXCEPT ![c].fin = TRUE] ELSE cluster
      /\ dist' = [d EXCEPT !.clusterFlip = IF has THEN @ ELSE @ \union {c},
                           !.clusters = IF ok THEN @ \ {c} ELSE @]
      /\ lost' = lost \union Noted("finalizer", c, ~has /\ f = "finalizer")
      /\ UNCHANGED member

(* A cluster that is being deleted: the DaemonSets the cache shows are     *)
(* deleted, whatever comes of it, then the finalizer goes and the manager  *)
(* stops.                                                                  *)
ReleaseCluster(c, f) ==
  LET d == Started(c)
      missed == member[c] # None /\ (d.member[c] = None \/ f = "delete")
      has == ClusterHasFinalizer(c)
      ok == ~has \/ (dist.cluster[c] = cluster[c] /\ f # "finalizer")
  IN  /\ dist.cluster[c] # None /\ dist.cluster[c].term
      /\ member' = IF missed THEN member ELSE [member EXCEPT ![c] = None]
      /\ cluster' = IF has /\ ok THEN [cluster EXCEPT ![c] = Left([@ EXCEPT !.fin = FALSE])] ELSE cluster
      /\ lost' = (lost \ {<<"member not deleted", c>>})
                   \union Noted("member not deleted", c, missed)
                   \union Noted("sds skipped", c, dist.sds[c] # None)
                   \union Noted("finalizer", c, has /\ f = "finalizer")
      /\ dist' = [d EXCEPT !.clusterFlip = IF has THEN (@ \ {c}) \union ({c} \ @) ELSE @,
                           !.clusters = IF ok THEN @ \ {c} ELSE @,
                           !.managers = IF ok THEN @ \ {c} ELSE @,
                           !.member[c] = IF ok THEN None ELSE @]

(* syncCluster, which holds the lock and so meets no syncShadowDaemonSet. *)
SyncCluster(c, f) ==
  /\ c \in dist.clusters
  /\ \/ EnsureCluster(c, f)
     \/ ReleaseCluster(c, f)
     \/ /\ f = "none" /\ dist.cluster[c] = None
        /\ dist' = [dist EXCEPT !.clusters = @ \ {c}]
        /\ UNCHANGED <<cluster, member, lost>>
  /\ MayFail(f)
  /\ UNCHANGED <<ds, kds, sds, mirror, daemon, job>>

-----------------------------------------------------------------------------
ShadowDone(c, ok, flips) ==
  dist' = [dist EXCEPT !.shadows = IF ok THEN @ \ {c} ELSE @,
                       !.sdsFlip = IF flips THEN (@ \ {c}) \union ({c} \ @) ELSE @]

(* removeShadowDaemonSetFinalizer *)
ReleaseShadow(c, f) ==
  LET has == SdsHasFinalizer(c)
      ok == ~has \/ (dist.sds[c] = sds[c] /\ f # "finalizer")
  IN  /\ sds' = IF has /\ ok
                  THEN [sds EXCEPT ![c] = IF @.term THEN None ELSE [@ EXCEPT !.fin = FALSE]]
                  ELSE sds
      /\ ShadowDone(c, ok, has)

FinalizerLost(c, f) == Noted("finalizer", c, SdsHasFinalizer(c) /\ f = "finalizer")

ClusterGoes(c) == dist.cluster[c] # None => dist.cluster[c].term

(* The cluster is gone or goes: its own sync removes the DaemonSet.  If it *)
(* has joined, or joins again, no event brings this sds back.              *)
ShadowOfGone(c, f) ==
  /\ ClusterGoes(c)
  /\ ReleaseShadow(c, f)
  /\ lost' = lost \union {<<"sds skipped", c>>} \union FinalizerLost(c, f)
  /\ UNCHANGED member

ShadowDeleted(c, f) ==
  /\ ~ClusterGoes(c) /\ c \in dist.managers /\ dist.sds[c].term
  /\ IF f = "delete" THEN ShadowDone(c, FALSE, FALSE) /\ UNCHANGED <<sds, member>>
     ELSE ReleaseShadow(c, f) /\ member' = [member EXCEPT ![c] = None]
  /\ lost' = lost \union FinalizerLost(c, f)

(* tryCreateOrUpdateDaemonSet: the cached DaemonSet, or the one stored. *)
MemberWritable(c) == dist.member[c] # None => dist.member[c] = member[c]
MemberWritten(c) ==
  IF member[c] = None THEN [spec |-> dist.sds[c].spec, status |-> 0]
  ELSE [member[c] EXCEPT !.spec = dist.sds[c].spec]

(* The finalizer, the DaemonSet, then the status, as the cache has it: one *)
(* that was just created is not there yet, which is an error.  A finalizer *)
(* that could not be stored is taken for stored when the key is retried,   *)
(* so the DaemonSet may be written for an sds that may go ("unheld").      *)
ShadowKept(c, f) ==
  LET latest == dist.sds[c] = sds[c]
      has == SdsHasFinalizer(c)
      held == has \/ (latest /\ f # "finalizer")
      written == held /\ MemberWritable(c) /\ f # "member"
      reported == written /\ dist.member[c] # None /\ latest /\ f # "status"
      fin == IF ~has /\ held THEN [sds EXCEPT ![c].fin = TRUE] ELSE sds
  IN  /\ ~ClusterGoes(c) /\ c \in dist.managers /\ ~dist.sds[c].term
      /\ member' = IF written THEN [member EXCEPT ![c] = MemberWritten(c)] ELSE member
      /\ sds' = IF reported THEN [fin EXCEPT ![c].status = dist.member[c].status] ELSE fin
      /\ ShadowDone(c, reported, ~has)
      /\ lost' = (IF reported THEN lost \ {<<"sds skipped", c>>, <<"unheld", c>>} ELSE lost)
                   \union Noted("finalizer", c, ~has /\ f = "finalizer")
                   \union Noted("unheld", c, written /\ (fin[c] # None => ~fin[c].fin))

(* syncShadowDaemonSet *)
SyncShadow(c, f) ==
  /\ c \in dist.shadows
  /\ \/ dist.sds[c] # None /\ (ShadowOfGone(c, f) \/ ShadowDeleted(c, f) \/ ShadowKept(c, f))
     \/ /\ f = "none" /\ dist.sds[c] = None
        /\ ShadowDone(c, TRUE, FALSE)
        /\ UNCHANGED <<sds, member, lost>>
  /\ MayFail(f)
  /\ UNCHANGED <<ds, kds, cluster, mirror, daemon, job>>

-----------------------------------------------------------------------------
(* Users, garbage collection, the cluster controller, and the controllers  *)
(* that run the pods.                                                      *)

Others == <<mirror, daemon, job, dist, lost>>

EditDs ==
  /\ ds # None /\ ds.spec < MaxSpec
  /\ Spend("edit")
  /\ ds' = [ds EXCEPT !.spec = @ + 1]
  /\ UNCHANGED <<kds, sds, cluster, member, Others>>

SetDs ==
  /\ Spend("set")
  /\ ds' = IF ds # None THEN None ELSE [uid |-> NewUid(DsUids), spec |-> 1, status |-> 0]
  /\ UNCHANGED <<kds, sds, cluster, member, Others>>

(* A cluster leaves, or joins. *)
ChangeCluster(c) ==
  /\ cluster[c] # None => ~cluster[c].term
  /\ Spend("cluster")
  /\ cluster' = [cluster EXCEPT ![c] =
                   IF @ # None THEN Left([@ EXCEPT !.term = TRUE])
                   ELSE [fin |-> FALSE, other |-> TRUE, term |-> FALSE]]
  /\ UNCHANGED <<ds, kds, sds, member, Others>>

ClusterControllerDone(c) ==
  /\ cluster[c] # None /\ cluster[c].term /\ cluster[c].other
  /\ cluster' = [cluster EXCEPT ![c] = Left([@ EXCEPT !.other = FALSE])]
  /\ UNCHANGED <<ds, kds, sds, member, Others, budget>>

(* Somebody deletes what the controllers made. *)
RemoveKds ==
  /\ kds # None /\ Spend("kds")
  /\ kds' = None
  /\ UNCHANGED <<ds, sds, cluster, member, Others>>

RemoveSds(t) ==
  /\ sds[t] # None /\ ~sds[t].term /\ Spend("remove")
  /\ sds' = [sds EXCEPT ![t] = Deleted(@)]
  /\ UNCHANGED <<ds, kds, cluster, member, Others>>

RemoveMember(c) ==
  /\ member[c] # None /\ Spend("remove")
  /\ member' = [member EXCEPT ![c] = None]
  /\ UNCHANGED <<ds, kds, sds, cluster, Others>>

CollectKds ==
  /\ kds # None /\ (ds # None => ds.uid # kds.owner)
  /\ kds' = None
  /\ UNCHANGED <<ds, sds, cluster, member, Others, budget>>

CollectSds(t) ==
  /\ sds[t] # None /\ ~sds[t].term
  /\ kds # None => kds.uid # sds[t].owner
  /\ sds' = [sds EXCEPT ![t] = Deleted(@)]
  /\ UNCHANGED <<ds, kds, cluster, member, Others, budget>>

(* The pods of a target become ready, or fail. *)
RunHost(s) ==
  /\ sds[Host] # None /\ sds[Host].status # s
  /\ sds' = [sds EXCEPT ![Host].status = s]
  /\ UNCHANGED <<ds, kds, cluster, member, Others>>

RunMember(c, s) ==
  /\ member[c] # None /\ member[c].status # s
  /\ member' = [member EXCEPT ![c].status = s]
  /\ UNCHANGED <<ds, kds, sds, cluster, Others>>

Ready(t) == UNCHANGED budget /\ (IF t = Host THEN RunHost(1) ELSE RunMember(t, 1))
Breaks(t) == Spend("status") /\ (IF t = Host THEN RunHost(0) ELSE RunMember(t, 0))

(* The controllers start again: every object is an event. *)
Restart ==
  /\ Spend("restart")
  /\ mirror' = [ds |-> ds, kds |-> kds, fresh |-> None, queue |-> ds # None]
  /\ daemon' = [kds |-> kds, sds |-> sds, cluster |-> cluster, fresh |-> {}, queue |-> kds # None]
  /\ job' = None
  /\ dist' = [sds |-> [c \in Clusters |-> sds[c]], cluster |-> cluster,
              member |-> [c \in Clusters |-> None], managers |-> {},
              clusters |-> {c \in Clusters : cluster[c] # None},
              shadows |-> {c \in Clusters : sds[c] # None}, sdsFlip |-> {}, clusterFlip |-> {}]
  /\ lost' = {l \in lost : l[1] \in {"member not deleted", "finalizer", "unheld"}}
  /\ UNCHANGED objects

-----------------------------------------------------------------------------
Informers ==
  \/ MirrorSeesDs \/ MirrorSeesKds \/ DaemonSeesKds
  \/ \E t \in Targets : DaemonSeesSds(t)
  \/ \E c \in Clusters :
       DaemonSeesCluster(c) \/ DistSeesSds(c) \/ DistSeesCluster(c) \/ DistSeesMember(c)

(* The syncs, with the points where a call may fail. *)
MirrorWorker == \E f \in {"none", "kds", "ds"} : MirrorSync(f)
DaemonWorker ==
  \/ DaemonTake
  \/ \E f \in {"none", "call"} :
       DaemonHost(f) \/ DaemonStatus(f) \/ \E c \in Clusters : DaemonOrphan(c, f) \/ DaemonMember(c, f)
DistWorker ==
  \E c \in Clusters :
    \/ \E f \in {"none", "finalizer", "delete"} : SyncCluster(c, f)
    \/ \E f \in {"none", "finalizer", "delete", "member", "status"} : SyncShadow(c, f)

Disturb ==
  \/ EditDs \/ SetDs \/ RemoveKds \/ Restart
  \/ \E c \in Clusters : ChangeCluster(c) \/ RemoveMember(c)
  \/ \E t \in Targets : RemoveSds(t) \/ Breaks(t)

Environment ==
  \/ CollectKds
  \/ \E t \in Targets : CollectSds(t) \/ Ready(t)
  \/ \E c \in Clusters : ClusterControllerDone(c)

Next == Informers \/ MirrorWorker \/ DaemonWorker \/ DistWorker \/ Environment \/ Disturb

(* Watches deliver, workers run, owners' deletions are followed by garbage *)
(* collection, the cluster controller cleans up and pods become ready.     *)
Fairness ==
  /\ WF_vars(MirrorSeesDs) /\ WF_vars(MirrorSeesKds) /\ WF_vars(DaemonSeesKds)
  /\ WF_vars(MirrorWorker) /\ WF_vars(DaemonWorker) /\ WF_vars(CollectKds)
  /\ \A t \in Targets : WF_vars(DaemonSeesSds(t)) /\ WF_vars(CollectSds(t)) /\ WF_vars(Ready(t))
  /\ \A c \in Clusters :
       /\ WF_vars(DaemonSeesCluster(c)) /\ WF_vars(DistSeesSds(c))
       /\ WF_vars(DistSeesCluster(c)) /\ WF_vars(DistSeesMember(c))
       /\ WF_vars(SyncCluster(c, "none")) /\ WF_vars(SyncShadow(c, "none"))
       /\ WF_vars(ClusterControllerDone(c))

Spec == Init /\ [][Next]_vars /\ Fairness

-----------------------------------------------------------------------------
Sds == [uid : 1 .. MaxUid, owner : 1 .. MaxUid, spec : 1 .. MaxSpec, status : 0 .. 1,
        fin : BOOLEAN, term : BOOLEAN]
Cluster == [fin : BOOLEAN, other : BOOLEAN, term : BOOLEAN]
Member == [spec : 1 .. MaxSpec, status : 0 .. 1]

TypeOK ==
  /\ sds \in [Targets -> Sds \union {None}]
  /\ cluster \in [Clusters -> Cluster \union {None}]
  /\ member \in [Clusters -> Member \union {None}]
  /\ \A o \in {ds, kds} \ {None} :
       o.uid \in 1 .. MaxUid /\ o.spec \in 1 .. MaxSpec /\ o.status \in 0 .. Cardinality(Targets)
  /\ \A c \in Clusters : cluster[c] # None /\ ~cluster[c].term => cluster[c].other
  /\ \A t \in Targets : sds[t] # None => (sds[t].term => sds[t].fin)
  /\ dist.managers \union dist.clusters \union dist.shadows \subseteq Clusters
  /\ {mirror.queue, daemon.queue} \subseteq BOOLEAN

(* Everything the controllers made agrees with the ds and the clusters. *)
TargetSettled(t) ==
  LET wanted == ds # None /\ (t # Host => cluster[t] # None)
      s == sds[t]
  IN  IF ~wanted THEN s = None /\ (t # Host => member[t] = None)
      ELSE /\ s # None /\ s.owner = kds.uid /\ s.spec = ds.spec /\ s.status = 1 /\ ~s.term
           /\ t # Host => /\ s.fin /\ cluster[t].fin
                          /\ member[t] = [spec |-> ds.spec, status |-> 1]

Settled ==
  /\ IF ds = None THEN kds = None
     ELSE /\ kds # None /\ kds.owner = ds.uid /\ kds.spec = ds.spec
          /\ LET all == 1 + Cardinality({c \in Clusters : cluster[c] # None})
             IN  kds.status = all /\ ds.status = all
  /\ \A t \in Targets : TargetSettled(t)
  /\ \A c \in Clusters : cluster[c] # None => ~cluster[c].term

(* Once the disturbances end, the DaemonSet of the root cluster, latest    *)
(* spec, runs on the host and in every member cluster, its status is the   *)
(* sum of theirs; and nothing of it is left anywhere after it, or the      *)
(* cluster, was deleted.  What may prevent it is a finalizer the cache has *)
(* wrong, a failed write of an sds or deletion of a member's DaemonSet     *)
(* that is passed over, and a deletion that is decided from a cache which  *)
(* has not seen the DaemonSet yet.                                         *)
Converges == <>[](Settled \/ lost # {})
=============================================================================
