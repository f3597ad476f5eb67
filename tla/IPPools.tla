------------------------------ MODULE IPPools ------------------------------
(***************************************************************************)
(* The CIDRs of the clusters that ClusterLink connects, as one member      *)
(* cluster, Here, reports and uses them:                                   *)
(*  - the cluster controller (controllers/cluster) writes the pod CIDRs of *)
(*    Here, which its CNI tells, and its service CIDRs, which are on the   *)
(*    command line of the API server, into Here's Cluster;                 *)
(*  - the calico IP pool controller (controllers/calicoippool) makes a     *)
(*    disabled IP pool in Here of every CIDR of every other Cluster;       *)
(*  - the starter (controller-manager/app) starts both, holds the Cluster  *)
(*    with a finalizer and cleans up when it is deleted.                   *)
(* An update carries the version that was read and is refused when the     *)
(* object has changed; versions are compared by value.                     *)
(***************************************************************************)
EXTENDS Integers, FiniteSets

CONSTANTS
  Members, Here,   \* all Clusters, and the one these controllers run in
  Nets,            \* CIDRs
  Meets,           \* pairs of CIDRs that intersect, both ways round
  ServiceNamed,    \* Clusters whose name contains "service"
  Unknown,         \* no object, or a parameter that cannot be resolved
  Configs,         \* what Here may be: CNI, its own CIDRs, service CIDRs
  Contents,        \* what another Cluster may hold
  PoolBudgets

PoolDisturbances == {"member", "own", "api", "edit", "delete", "fail", "drop", "restart"}

Others == Members \ {Here}
Types == {"pod", "service"}
Pools == Members \X Types \X Nets

Cnis == {"calico", "etcd", "flannel", "cilium"}
ClusterObj ==
  [pods : SUBSET Nets, services : SUBSET Nets, map : SUBSET (Nets \X Nets), fin : BOOLEAN, dying : BOOLEAN]

ASSUME HereAssumption == Here \in Members /\ ServiceNamed \subseteq Members
ASSUME ConfigAssumption ==
  Configs \subseteq [cni : Cnis, own : SUBSET (Nets \X BOOLEAN), api : {Unknown} \union SUBSET Nets]
ASSUME ContentAssumption ==
  Contents \subseteq [pods : SUBSET Nets, services : SUBSET Nets, map : SUBSET (Nets \X Nets)]
ASSUME PoolBudgetAssumption == PoolBudgets \subseteq [PoolDisturbances -> Nat]
ASSUME UnknownAssumption ==
  /\ Unknown \notin Members /\ \A nets \in SUBSET Nets : nets # Unknown
  /\ Unknown \notin ClusterObj
  /\ Unknown \notin [got : ClusterObj, pods : SUBSET Nets, services : SUBSET Nets]

VARIABLES
  cni,        \* Here's CNI: "calico", "etcd" (calico on etcd), "flannel", "cilium"
  own,        \* Here's own CIDRs, <<net, enabled>>: IP pools, or a ConfigMap's
  api,        \* the service CIDRs of Here's API server pod, {} for no such pod
  ext,        \* the IP pools in Here of CIDRs of other clusters
  cluster,    \* cluster[m]: the Cluster, or Unknown
  local,      \* the cluster controller's caches: own and api
  known,      \* the other controllers' cache of the Clusters
  started,    \* the starter has started the controllers
  starterQ,   \* its queue is not empty
  ccQ, ccJob, \* the cluster controller's queue and the update it will make
  poolQ,      \* keys of the pool controller
  global,     \* globalExtIPPoolSet
  client,     \* iPPoolClient is set
  sync,       \* the syncIPPool under way, of the key sync.key or the clean-up
  unmarked,   \* the starter has taken the finalizer out of its cached Cluster
  had,        \* history: every CIDR that Here's CNI has had
  givenUp,    \* history: clusters of which an event was lost or never handled
  poolBudget

memberState == <<cni, own, api, ext>>
ctlState == <<started, starterQ, ccQ, ccJob, poolQ, global, client, sync, unmarked>>
poolVars == <<memberState, cluster, local, known, ctlState, had, givenUp, poolBudget>>

PoolSpend(e) == poolBudget[e] > 0 /\ poolBudget' = [poolBudget EXCEPT ![e] = @ - 1]

NetsOf(pools) == {p[1] : p \in pools}
NoSync == [key |-> Unknown, delete |-> {}, modify |-> {}, phase |-> "rest"]
Joined == [pods |-> {}, services |-> {}, map |-> {}, fin |-> FALSE, dying |-> FALSE]
Dying(x) == x # Unknown /\ x.dying
Holding(x) == [Joined EXCEPT !.pods = x.pods, !.services = x.services, !.map = x.map]

PoolInit ==
  /\ \E x \in Configs : cni = x.cni /\ own = x.own /\ api = x.api
  /\ ext = {}
  /\ cluster = [m \in Members |-> IF m = Here THEN Joined ELSE Unknown]
  /\ local = [own |-> own, api |-> api]
  /\ known = cluster
  /\ started = FALSE /\ starterQ = TRUE
  /\ ccQ = TRUE /\ ccJob = Unknown
  /\ poolQ = {Here} /\ global = {} /\ client = FALSE /\ sync = NoSync /\ unmarked = FALSE
  /\ had = NetsOf(own) /\ givenUp = {}
  /\ poolBudget \in PoolBudgets

-----------------------------------------------------------------------------
(* The environment. *)

(* getCIDR: the CIDR under which the other clusters know one of cluster m. *)
GetCIDR(x, n) == IF \E p \in x.map : p[1] = n THEN (CHOOSE p \in x.map : p[1] = n)[2] ELSE n

PoolsOf(m, x) ==
  IF x = Unknown THEN {}
  ELSE {<<m, "pod", GetCIDR(x, n)>> : n \in x.pods} \union {<<m, "service", GetCIDR(x, n)>> : n \in x.services}

Clash(net, pools) == \E p \in pools : <<net, p>> \in Meets

(* Another Cluster joins, changes or goes.  Nothing takes away the pools   *)
(* of one that is gone, nor, on etcd or for a name that getIPType takes    *)
(* for a service, the ones a Cluster no longer has.                        *)
ChangeMember(m) ==
  /\ PoolSpend("member")
  /\ \E x \in Contents \union {Unknown} :
       LET new == IF x = Unknown THEN Unknown ELSE Holding(x)
       IN /\ new # cluster[m]
          /\ cluster' = [cluster EXCEPT ![m] = new]
          /\ givenUp' = IF PoolsOf(m, cluster[m]) # {} /\ (new = Unknown \/ cni = "etcd" \/ m \in ServiceNamed)
                     THEN givenUp \union {m} ELSE givenUp
  /\ UNCHANGED <<memberState, local, known, ctlState, had>>

(* The pools or the ConfigMap of Here's CNI change.  No Cluster is looked  *)
(* at again for it.                                                        *)
ChangeOwn ==
  /\ PoolSpend("own")
  /\ \E x \in Configs : x.cni = cni /\ own # x.own /\ own' = x.own
  /\ had' = had \union NetsOf(own')
  /\ givenUp' = givenUp \union {m \in Others : \E p \in PoolsOf(m, cluster[m]) :
                            Clash(p[3], NetsOf((own \ own') \union (own' \ own)))}
  /\ UNCHANGED <<cni, api, ext, cluster, local, known, ctlState>>

ChangeApi ==
  /\ PoolSpend("api")
  /\ \E x \in Configs : api # x.api /\ api' = x.api
  /\ UNCHANGED <<cni, own, ext, cluster, local, known, ctlState, had, givenUp>>

(* A user changes the options of Here's Cluster, or deletes it. *)
EditHere ==
  /\ PoolSpend("edit") /\ cluster[Here] # Unknown
  /\ \E x \in Contents : x.map # cluster[Here].map /\ cluster' = [cluster EXCEPT ![Here].map = x.map]
  /\ UNCHANGED <<memberState, local, known, ctlState, had, givenUp>>

DeleteHere ==
  /\ PoolSpend("delete") /\ cluster[Here] # Unknown
  /\ cluster' = [cluster EXCEPT ![Here] = IF @.fin THEN [@ EXCEPT !.dying = TRUE] ELSE Unknown]
  /\ givenUp' = IF cluster[Here].fin /\ cni # "etcd" THEN givenUp \union ServiceNamed ELSE Members
  /\ UNCHANGED <<memberState, local, known, ctlState, had>>

-----------------------------------------------------------------------------
(* The watches. *)

(* Events of the CNI's own objects; the pools this project made have names *)
(* with its prefix and are passed over, and on etcd they are disabled.     *)
(* There a pool that is disabled is no event either.                       *)
Told == cni # "etcd" \/ (\E p \in own \ local.own : p[2]) \/ ~(NetsOf(local.own) \subseteq NetsOf(own))

SeePools ==
  /\ cni \in {"calico", "etcd"} /\ local.own # own
  /\ local' = [local EXCEPT !.own = own]
  /\ ccQ' = (ccQ \/ Told)
  /\ givenUp' = IF Told THEN givenUp ELSE givenUp \union {Here}
  /\ UNCHANGED <<memberState, cluster, known, started, starterQ, ccJob, poolQ, global, client, sync, unmarked, had, poolBudget>>

(* Flannel and cilium keep them in a ConfigMap: each change is an event.   *)
SeeConfigMap ==
  /\ cni \notin {"calico", "etcd"} /\ local.own # own
  /\ local' = [local EXCEPT !.own = own]
  /\ ccQ' = TRUE
  /\ UNCHANGED <<memberState, cluster, known, started, starterQ, ccJob, poolQ, global, client, sync, unmarked, had, givenUp, poolBudget>>

SeeApi ==
  /\ local.api # api
  /\ local' = [local EXCEPT !.api = api]
  /\ ccQ' = TRUE
  /\ UNCHANGED <<memberState, cluster, known, started, starterQ, ccJob, poolQ, global, client, sync, unmarked, had, givenUp, poolBudget>>

SeeMember(m) ==
  /\ known[m] # cluster[m]
  /\ known' = [known EXCEPT ![m] = cluster[m]]
  /\ poolQ' = poolQ \union {m}
  /\ starterQ' = (starterQ \/ m = Here)
  /\ unmarked' = (unmarked /\ m # Here)
  /\ UNCHANGED <<memberState, cluster, local, started, ccQ, ccJob, global, client, sync, had, givenUp, poolBudget>>

-----------------------------------------------------------------------------
(* The cluster controller. *)

(* Seeded fault: the pools of other clusters are not told from Here's own. *)
CalicoPodCIDRsAll(pools) == NetsOf(pools.own) \union {p[3] : p \in pools.ext}

(* setClusterPodCIDRFun: what each CNI tells.  The pools of other clusters *)
(* have names with the prefix.                                             *)
CalicoPodCIDRs(pools) == NetsOf(pools.own)

(* Calico on etcd: those that are enabled, which no external pool is.      *)
EtcdPodCIDRs(pools) == {p[1] : p \in {q \in pools.own : q[2]}}

ConfigMapPodCIDRs(pools) == NetsOf(pools.own)

ClusterPodCIDRs(pools) ==
  CASE cni = "calico" -> CalicoPodCIDRs(pools)
    [] cni = "etcd" -> EtcdPodCIDRs(pools)
    [] OTHER -> ConfigMapPodCIDRs(pools)

(* Calico on etcd is asked itself, the others' caches are read.            *)
PodCIDRsNow == ClusterPodCIDRs([own |-> IF cni = "etcd" THEN own ELSE local.own, ext |-> ext])

(* An item that fails comes again, until it has failed maxRetries times.   *)
(* That is a disturbance of its own here, after any number of failures.    *)
CcRetry ==
  \/ ccQ' = TRUE /\ UNCHANGED <<givenUp, poolBudget>>
  \/ PoolSpend("drop") /\ givenUp' = givenUp \union {Here} /\ UNCHANGED ccQ

(* Cilium's ConfigMap is an error when it is not there, flannel's is not.  *)
CcUnreadable == local.api = Unknown \/ (local.api # {} /\ cni = "cilium" /\ local.own = {})

(* The Cluster is read from the API server; without API server pod there   *)
(* is nothing to do, and no error.                                         *)
CcStart ==
  /\ started /\ ccQ /\ ccJob = Unknown
  /\ ccQ' = FALSE
  /\ ccJob' = IF cluster[Here] = Unknown \/ local.api = {} THEN Unknown
              ELSE [got |-> cluster[Here], pods |-> PodCIDRsNow, services |-> local.api]
  /\ ~CcUnreadable \/ cluster[Here] = Unknown
  /\ UNCHANGED <<memberState, cluster, local, known, started, starterQ, poolQ, global, client, sync, unmarked, had, givenUp, poolBudget>>

CcStartFails ==
  /\ started /\ ccQ /\ ccJob = Unknown
  /\ CcUnreadable /\ cluster[Here] # Unknown
  /\ PoolSpend("drop") /\ ccQ' = FALSE /\ givenUp' = givenUp \union {Here}
  /\ UNCHANGED <<memberState, cluster, local, known, started, starterQ, ccJob, poolQ, global, client, sync, unmarked, had>>

CcWrite ==
  /\ ccJob # Unknown /\ ccJob' = Unknown
  /\ cluster[Here] = ccJob.got
  /\ cluster' = [cluster EXCEPT ![Here].pods = ccJob.pods, ![Here].services = ccJob.services]
  /\ UNCHANGED <<memberState, local, known, started, starterQ, ccQ, poolQ, global, client, sync, unmarked, had, givenUp, poolBudget>>

CcWriteFails ==
  /\ ccJob # Unknown /\ ccJob' = Unknown
  /\ \/ cluster[Here] # ccJob.got /\ CcRetry
     \/ PoolSpend("fail") /\ ccQ' = TRUE /\ UNCHANGED givenUp
  /\ UNCHANGED <<memberState, cluster, local, known, started, starterQ, poolQ, global, client, sync, unmarked, had>>

-----------------------------------------------------------------------------
(* The calico IP pool controller. *)

(* getIPType and getClusterName read type and cluster back from the name   *)
(* of a pool; "service" in a cluster's name makes its pod pools those of   *)
(* another cluster's services.                                             *)
Parsed(p) == IF p[1] \in ServiceNamed /\ p[2] = "pod" THEN <<Unknown, "service", p[3]>> ELSE p

ListKubernetes == [ext |-> {Parsed(p) : p \in ext}, own |-> NetsOf(own)]

(* On etcd the test for the prefix has its arguments exchanged: no pool is *)
(* an external one.                                                        *)
ListEtcd == [ext |-> {}, own |-> NetsOf(own) \union {p[3] : p \in ext}]

ListIPPools == IF cni = "etcd" THEN ListEtcd ELSE ListKubernetes

(* The first part of syncIPPool: what is in Here, and what is to be done.  *)
Difference(g) ==
  LET listed == ListIPPools
      kept == {p \in g : p[1] = Here \/ ~Clash(p[3], listed.own)}
  IN [global |-> kept, delete |-> listed.ext \ kept, modify |-> {p \in kept : p[1] # Here}]

SyncFrom(key, g) ==
  LET d == Difference(g)
  IN /\ global' = d.global
     /\ sync' = [key |-> key, delete |-> d.delete, modify |-> d.modify, phase |-> "delete"]

(* Seeded fault: the CIDRs a Cluster had before stay in the set. *)
RefreshKept(m) == global \union PoolsOf(m, known[m])

Refresh(m) == {p \in global : p[1] # m} \union PoolsOf(m, known[m])

(* Reconcile, up to the list.  The client is made when the key is Here's,  *)
(* and without it nothing is written.                                      *)
PoolStart(m) ==
  /\ started /\ m \in poolQ /\ sync.phase = "rest"
  /\ poolQ' = poolQ \ {m}
  /\ IF known[m] = Unknown \/ (m = Here /\ cni \notin {"calico", "etcd"})
     THEN UNCHANGED <<global, client, sync>>
     ELSE IF client \/ m = Here
          THEN client' = TRUE /\ SyncFrom(m, Refresh(m))
          ELSE global' = Refresh(m) /\ UNCHANGED <<client, sync>>
  /\ UNCHANGED <<memberState, cluster, local, known, started, starterQ, ccQ, ccJob, unmarked, had, givenUp, poolBudget>>

(* The list or the creation of the client fails; the set has changed.      *)
PoolStartFails(m) ==
  /\ started /\ m \in poolQ /\ sync.phase = "rest" /\ known[m] # Unknown
  /\ m # Here \/ cni \in {"calico", "etcd"}
  /\ client \/ m = Here
  /\ PoolSpend("fail")
  /\ global' = Refresh(m)
  /\ UNCHANGED <<memberState, cluster, local, known, started, starterQ, ccQ, ccJob, poolQ, client, sync, unmarked, had, givenUp>>

(* DeleteIPPool and CreateOrUpdateCalicoIPPool go through their lists      *)
(* whatever fails, and report the errors at the end.                       *)
Part(s) == {s} \union (IF poolBudget["fail"] > 0 THEN SUBSET s ELSE {})

(* The error of a key is retried or dropped; that of a clean-up too. *)
PoolSyncFails ==
  /\ poolBudget["fail"] > 0
  /\ sync' = NoSync
  /\ \/ /\ poolBudget' = [poolBudget EXCEPT !["fail"] = @ - 1] /\ UNCHANGED givenUp
        /\ poolQ' = IF sync.key \in Members THEN poolQ \union {sync.key} ELSE poolQ
        /\ starterQ' = (starterQ \/ sync.key \notin Members)
     \/ /\ poolBudget["drop"] > 0
        /\ poolBudget' = [poolBudget EXCEPT !["fail"] = @ - 1, !["drop"] = @ - 1]
        /\ givenUp' = IF sync.key \in Others THEN givenUp \union {sync.key} ELSE Members
        /\ UNCHANGED <<poolQ, starterQ>>

DeleteIPPool ==
  /\ sync.phase = "delete"
  /\ \E done \in Part(sync.delete) :
       /\ ext' = ext \ done
       /\ IF done = sync.delete
          THEN sync' = [sync EXCEPT !.phase = "modify"] /\ UNCHANGED <<poolQ, starterQ, givenUp, poolBudget>>
          ELSE PoolSyncFails
  /\ UNCHANGED <<cni, own, api, cluster, local, known, started, ccQ, ccJob, global, client, unmarked, had>>

(* The pool controller goes on after the clean-up: what it makes then, or  *)
(* from a list it made before, stays.                                      *)
CreateOrUpdateCalicoIPPool ==
  /\ sync.phase = "modify"
  /\ \E done \in Part(sync.modify) :
       /\ ext' = ext \union done
       /\ IF done = sync.modify
          THEN /\ sync' = IF sync.key \in Members THEN NoSync ELSE [sync EXCEPT !.phase = "release"]
               /\ givenUp' = IF sync.key \in Members /\ done # {} /\ (cluster[Here] = Unknown \/ Dying(cluster[Here])) THEN Members ELSE givenUp
               /\ UNCHANGED <<poolQ, starterQ, poolBudget>>
          ELSE PoolSyncFails
  /\ UNCHANGED <<cni, own, api, cluster, local, known, started, ccQ, ccJob, global, client, unmarked, had>>

-----------------------------------------------------------------------------
(* The starter. *)

(* A finalizer that cannot be written is not tried again: the controllers  *)
(* are started already.                                                    *)
StarterStart ==
  /\ starterQ /\ ~started
  /\ known[Here] # Unknown /\ ~Dying(known[Here])
  /\ started' = TRUE
  /\ \/ /\ known[Here].fin \/ known[Here] = cluster[Here]
        /\ cluster' = IF known[Here].fin THEN cluster ELSE [cluster EXCEPT ![Here].fin = TRUE]
        /\ starterQ' = FALSE /\ UNCHANGED poolBudget
     \/ ~known[Here].fin /\ known[Here] # cluster[Here] /\ UNCHANGED <<cluster, starterQ, poolBudget>>
     \/ ~known[Here].fin /\ PoolSpend("fail") /\ UNCHANGED <<cluster, starterQ>>
  /\ UNCHANGED <<memberState, local, known, ccQ, ccJob, poolQ, global, client, sync, unmarked, had, givenUp>>

StarterIdle ==
  /\ starterQ /\ (started \/ known[Here] = Unknown) /\ ~Dying(known[Here])
  /\ starterQ' = FALSE
  /\ UNCHANGED <<memberState, cluster, local, known, started, ccQ, ccJob, poolQ, global, client, sync, unmarked, had, givenUp, poolBudget>>

(* CleanResource, with an empty set; the worker of the pool controller is  *)
(* between two keys.                                                       *)
CleanResource ==
  /\ starterQ /\ Dying(known[Here]) /\ sync.phase = "rest"
  /\ starterQ' = FALSE /\ client' = TRUE
  /\ SyncFrom(Unknown, {})
  /\ UNCHANGED <<memberState, cluster, local, known, started, ccQ, ccJob, poolQ, unmarked, had, givenUp, poolBudget>>

(* removeFinalizer: the last finalizer, and the object goes.  The cached   *)
(* object is changed first; when the update fails, the retry finds nothing *)
(* to remove, until the Cluster changes and the cache is given it anew.    *)
RemoveFinalizer ==
  /\ sync.phase = "release" /\ sync' = NoSync
  /\ unmarked' = TRUE
  /\ \/ unmarked /\ UNCHANGED <<cluster, starterQ, poolBudget>>
     \/ /\ ~unmarked /\ cluster[Here] = known[Here]
        /\ cluster' = [cluster EXCEPT ![Here] = Unknown]
        /\ UNCHANGED <<starterQ, poolBudget>>
     \/ /\ ~unmarked /\ starterQ' = TRUE /\ UNCHANGED cluster
        /\ IF cluster[Here] = known[Here] THEN PoolSpend("fail") ELSE UNCHANGED poolBudget
  /\ UNCHANGED <<memberState, local, known, started, ccQ, ccJob, poolQ, global, client, had, givenUp>>

(* A new process: the informers show every object as new. *)
PoolRestart ==
  /\ PoolSpend("restart")
  /\ known' = cluster /\ local' = [own |-> own, api |-> api]
  /\ started' = FALSE /\ starterQ' = (cluster[Here] # Unknown)
  /\ ccQ' = TRUE /\ ccJob' = Unknown
  /\ poolQ' = {m \in Members : cluster[m] # Unknown}
  /\ global' = {} /\ client' = FALSE /\ sync' = NoSync /\ unmarked' = FALSE
  /\ UNCHANGED <<memberState, cluster, had, givenUp>>

-----------------------------------------------------------------------------

PoolEnv ==
  \/ \E m \in Others : ChangeMember(m)
  \/ ChangeOwn \/ ChangeApi \/ EditHere \/ DeleteHere \/ PoolRestart

SeeCidrs == SeePools \/ SeeConfigMap \/ SeeApi \/ \E m \in Members : SeeMember(m)

ClusterController == CcStart \/ CcStartFails \/ CcWrite \/ CcWriteFails

PoolController ==
  \/ \E m \in Members : PoolStart(m) \/ PoolStartFails(m)
  \/ DeleteIPPool \/ CreateOrUpdateCalicoIPPool

Starter == StarterStart \/ StarterIdle \/ CleanResource \/ RemoveFinalizer

PoolNext == PoolEnv \/ SeeCidrs \/ ClusterController \/ PoolController \/ Starter

(* The watches deliver, and the three workers go on. *)
PoolFairness ==
  /\ WF_poolVars(SeePools \/ SeeConfigMap) /\ WF_poolVars(SeeApi)
  /\ \A m \in Members : WF_poolVars(SeeMember(m))
  /\ WF_poolVars(CcStart \/ CcWrite \/ CcWriteFails)
  /\ \A m \in Members : SF_poolVars(PoolStart(m))
  /\ WF_poolVars(DeleteIPPool) /\ WF_poolVars(CreateOrUpdateCalicoIPPool)
  /\ WF_poolVars(StarterStart) /\ WF_poolVars(StarterIdle)
  /\ SF_poolVars(CleanResource) /\ WF_poolVars(RemoveFinalizer)

PoolSpec == PoolInit /\ [][PoolNext]_poolVars /\ PoolFairness

-----------------------------------------------------------------------------

(* The types.  A name that is parsed wrongly names no cluster. *)
PoolTypeOK ==
  /\ cni \in Cnis /\ own \subseteq Nets \X BOOLEAN /\ api \in {Unknown} \union SUBSET Nets /\ ext \subseteq Pools
  /\ cluster \in [Members -> ClusterObj \union {Unknown}]
  /\ known \in [Members -> ClusterObj \union {Unknown}]
  /\ local \in [own : SUBSET (Nets \X BOOLEAN), api : {Unknown} \union SUBSET Nets]
  /\ started \in BOOLEAN /\ starterQ \in BOOLEAN /\ ccQ \in BOOLEAN /\ client \in BOOLEAN /\ unmarked \in BOOLEAN
  /\ ccJob \in [got : ClusterObj, pods : SUBSET Nets, services : SUBSET Nets] \union {Unknown}
  /\ poolQ \subseteq Members /\ global \subseteq Pools
  /\ sync \in [key : Members \union {Unknown}, delete : SUBSET ((Members \union {Unknown}) \X Types \X Nets),
               modify : SUBSET Pools, phase : {"rest", "delete", "modify", "release"}]
  /\ had \subseteq Nets /\ givenUp \subseteq Members
  /\ poolBudget \in [PoolDisturbances -> Nat]

(* What other clusters' pools there should be in Here: none once it        *)
(* leaves, and none that meets one of its own.                             *)
Due(m) ==
  IF cluster[Here] = Unknown \/ Dying(cluster[Here]) \/ cni \notin {"calico", "etcd"} THEN {}
  ELSE {p \in PoolsOf(m, cluster[m]) : ~Clash(p[3], NetsOf(own))}

(* No CIDR comes back: Here never reports as its own a CIDR that its CNI   *)
(* has not had, although the IP pools made here for other clusters lie     *)
(* beside its own, and what it reports is made into pools everywhere       *)
(* (initCalicoInformer's test of the name, validIPPool on etcd).           *)
NoEcho == cluster[Here] # Unknown => cluster[Here].pods \subseteq had

(* Once the disturbances stop, Here has exactly the pools that the other   *)
(* Clusters' CIDRs call for, reports its own CIDRs, and is gone if it was  *)
(* deleted; or the code lost an event: a deleted Cluster, a dropped key, a *)
(* pool of its own that came or went, a change on etcd, a finalizer never  *)
(* written or taken out of the cache only, a reconcile after the clean-up  *)
(* (calicoippool_controller.go, controllerstarter.go).                     *)
CidrsSettle ==
  <>[](/\ \A m \in Others : m \notin givenUp => {p \in ext : p[1] = m} = Due(m)
       /\ Here \notin givenUp => (Dying(cluster[Here]) => unmarked)
       /\ (Here \notin givenUp /\ cluster[Here] # Unknown /\ ~CcUnreadable /\ api # {})
            => /\ cluster[Here].services = api
               /\ cluster[Here].pods = ClusterPodCIDRs([own |-> own, ext |-> ext]))

=============================================================================
