----------------------------- MODULE StorageSync -----------------------------
(***************************************************************************)
(* The objects a pod's volumes need in the leaf clusters: a ConfigMap or   *)
(* Secret ("data"), or a PersistentVolumeClaim with its volume, copied     *)
(* both ways ("claim") or, with USE-ONEWAY-STORAGE, from the root only     *)
(* ("oneway").  A behaviour is about one object of one kind:               *)
(*  - createStorageInLeafCluster notes the leaf cluster in the root object *)
(*    and creates the copy, when a pod is created there;                   *)
(*  - SyncResourcesReconciler carries changes of ConfigMaps and Secrets;   *)
(*  - the root and leaf PVC and PV controllers carry requests down and     *)
(*    volumes and status up;                                               *)
(*  - the one-way controllers carry claims and volumes down.               *)
(* All leaf clusters stay registered, and a claim is used in one of them;  *)
(* a claim that is made anew gets a volume of the old name.                *)
(* The PVC and PV controllers merge their patches with the object as it    *)
(* is, so each of their rounds is one step, and a failed call only leaves  *)
(* the item in its queue; rounds that write what they read earlier are     *)
(* several steps.                                                          *)
(***************************************************************************)
EXTENDS Integers, Sequences, FiniteSets

CONSTANTS
  Clusters, Kinds,
  Home,     \* the leaf cluster that a VolumePath names
  MaxData,  \* versions of the data, or of the requests of a claim
  None, Budgets

Disturbances == {"create", "edit", "delete", "pod", "foreign", "fail", "pv"}

ASSUME KindAssumption == Kinds \subseteq {"data", "claim", "oneway"}
ASSUME DataAssumption == MaxData \in Nat
ASSUME HomeAssumption == Home \in Clusters
ASSUME BudgetAssumption == Budgets \subseteq [Disturbances -> Nat]

(* owners: the leaf clusters noted in the root object, in order; term: it  *)
(* is being deleted; vol: a claim has a volumeName; bound: its status is   *)
(* that of a bound leaf claim.                                             *)
Owners == {s \in Seq(Clusters) : \A i, j \in DOMAIN s : s[i] = s[j] => i = j}
RootObj == [data : 0 .. MaxData, owners : Owners, term : BOOLEAN, vol : BOOLEAN, bound : BOOLEAN]
LeafObj == [data : 0 .. MaxData, global : BOOLEAN, bound : BOOLEAN]

ASSUME NoneAssumption == None \notin Clusters \union RootObj \union LeafObj \union Nat

VARIABLES
  kind,
  root,    \* the object in the root cluster
  leaf,    \* leaf[c]: the object of that name in leaf cluster c
  rootPv,  \* the volume in the root cluster: its leaf cluster, or None
  rootPvTerm, \* it is being deleted
  leafPv,  \* the leaf clusters that have the volume
  pods,    \* pods[c]: a pod in c needs the object: "no", "want", "done"
  copy,    \* copy[c]: what createStorageInLeafCluster has read
  rootQ,   \* the root reconcilers have an event of the object
  job,     \* SyncResourcesReconciler: clusters to do, and what it read
  rootPvQ, \* leaf clusters of whose volume the root PV controllers have an event
  leafQ,   \* leaf clusters whose PVC controller has an event
  leafPvQ, \* leaf clusters whose PV controller has an event
  byHand,  \* somebody has deleted the root's volume
  lost,    \* the gaps of the code that an event fell into
  budget

apiVars == <<root, leaf, rootPv, rootPvTerm, leafPv>>
copyVars == <<pods, copy>>
queueVars == <<rootQ, rootPvQ, leafQ, leafPvQ>>
vars == <<kind, apiVars, copyVars, queueVars, job, byHand, lost, budget>>

Spend(e) == budget[e] > 0 /\ budget' = [budget EXCEPT ![e] = @ - 1]
Copying == {c \in Clusters : copy[c] # None}

Init ==
  /\ kind \in Kinds
  /\ root = None /\ leaf = [c \in Clusters |-> None]
  /\ rootPv = None /\ rootPvTerm = FALSE /\ leafPv = {}
  /\ pods = [c \in Clusters |-> "no"] /\ copy = [c \in Clusters |-> None]
  /\ rootQ = FALSE /\ job = None /\ rootPvQ = {} /\ leafQ = {} /\ leafPvQ = {}
  /\ byHand = FALSE /\ lost = {}
  /\ budget \in Budgets

-----------------------------------------------------------------------------
(* The users and the storage of the clusters. *)

(* Root events: of ConfigMaps and Secrets only those that carry owners,    *)
(* and no creations; of one-way claims creations too.                      *)
CreateRoot ==
  /\ Spend("create") /\ root = None
  /\ root' = [data |-> 0, owners |-> <<>>, term |-> FALSE, vol |-> FALSE, bound |-> FALSE]
  /\ rootQ' = (rootQ \/ kind = "oneway")
  /\ lost' = IF rootQ \/ job # None \/ Copying # {} THEN lost \union {"recreated"} ELSE lost
  /\ UNCHANGED <<kind, byHand, leaf, rootPv, rootPvTerm, leafPv, copyVars, job, rootPvQ, leafQ, leafPvQ>>

RootEvent(o) == rootQ' = (rootQ \/ kind # "data" \/ o.owners # <<>>)

EditRoot ==
  /\ Spend("edit") /\ root # None /\ ~root.term /\ root.data < MaxData
  /\ root' = [root EXCEPT !.data = @ + 1]
  /\ RootEvent(root)
  /\ lost' = IF Copying # {} THEN lost \union {"changed under a copy"} ELSE lost
  /\ UNCHANGED <<kind, byHand, leaf, rootPv, rootPvTerm, leafPv, copyVars, job, rootPvQ, leafQ, leafPvQ>>

(* A claim is held by a finalizer, a ConfigMap or Secret goes at once. *)
DeleteRoot ==
  /\ Spend("delete") /\ root # None /\ ~root.term
  /\ root' = IF kind = "data" THEN None ELSE [root EXCEPT !.term = TRUE]
  /\ RootEvent(root)
  /\ lost' = IF Copying # {} THEN lost \union {"changed under a copy"} ELSE lost
  /\ UNCHANGED <<kind, byHand, leaf, rootPv, rootPvTerm, leafPv, copyVars, job, rootPvQ, leafQ, leafPvQ>>

FinalizeRoot ==
  /\ root # None /\ root.term
  /\ root' = None
  /\ rootQ' = TRUE
  /\ lost' = IF rootQ /\ kind = "claim" THEN lost \union {"termination not seen"} ELSE lost
  /\ UNCHANGED <<kind, byHand, leaf, rootPv, rootPvTerm, leafPv, copyVars, job, rootPvQ, leafQ, leafPvQ, budget>>

(* Somebody in the leaf cluster takes the name, and gives it up.  The      *)
(* names of one-way claims are the driver's.                               *)
Foreign(c) ==
  /\ Spend("foreign") /\ kind # "oneway"
  /\ \/ leaf[c] = None /\ leaf' = [leaf EXCEPT ![c] = [data |-> 0, global |-> FALSE, bound |-> FALSE]]
     \/ leaf[c] # None /\ ~leaf[c].global /\ leaf' = [leaf EXCEPT ![c] = None]
  /\ UNCHANGED <<kind, byHand, root, rootPv, rootPvTerm, leafPv, copyVars, queueVars, job, lost>>

(* The leaf cluster provisions a volume and binds the claim to it; the     *)
(* leaf PVC controller accepts updates of what was global before.  The     *)
(* root PV controller may have the deletion of an earlier volume of that   *)
(* name yet to carry out.                                                  *)
LeafBind(c) ==
  /\ kind = "claim" /\ leaf[c] # None /\ ~leaf[c].bound
  /\ leaf' = [leaf EXCEPT ![c].bound = TRUE]
  /\ leafPv' = leafPv \union {c} /\ leafPvQ' = leafPvQ \union {c}
  /\ leafQ' = IF leaf[c].global THEN leafQ \union {c} ELSE leafQ
  /\ lost' = IF c \in rootPvQ THEN lost \union {"name used again"} ELSE lost
  /\ UNCHANGED <<kind, byHand, root, rootPv, rootPvTerm, copyVars, rootQ, job, rootPvQ, budget>>

(* The leaf cluster reclaims the volume of a claim that is gone. *)
LeafReclaim(c) ==
  /\ kind = "claim" /\ c \in leafPv /\ leaf[c] = None
  /\ leafPv' = leafPv \ {c} /\ leafPvQ' = leafPvQ \union {c}
  /\ UNCHANGED <<kind, byHand, root, leaf, rootPv, rootPvTerm, copyVars, rootQ, job, rootPvQ, leafQ, lost, budget>>

(* The root cluster binds the claim to the volume made for it. *)
RootBind ==
  /\ kind = "claim" /\ root # None /\ rootPv # None /\ ~root.vol
  /\ root' = [root EXCEPT !.vol = TRUE]
  /\ rootQ' = TRUE
  /\ UNCHANGED <<kind, byHand, leaf, rootPv, rootPvTerm, leafPv, copyVars, job, rootPvQ, leafQ, leafPvQ, lost, budget>>

-----------------------------------------------------------------------------
(* createStorageInLeafCluster.  A pod needs the object in a leaf cluster,  *)
(* perhaps not the first one; one-way claims are filtered out before.      *)

NeedPod(c) ==
  /\ Spend("pod") /\ kind # "oneway" /\ pods[c] # "want" /\ root # None
  /\ kind = "claim" => \A d \in Clusters \ {c} : pods[d] = "no"
  /\ pods' = [pods EXCEPT ![c] = "want"]
  /\ UNCHANGED <<kind, byHand, apiVars, copy, queueVars, job, lost>>

(* AddResourceClusters *)
AddResourceClusters(owners, c) ==
  IF \E k \in DOMAIN owners : owners[k] = c THEN owners ELSE Append(owners, c)

CopyRead(c) ==
  /\ pods[c] = "want" /\ copy[c] = None /\ root # None
  /\ root' = [root EXCEPT !.owners = AddResourceClusters(@, c)]
  /\ rootQ' = (rootQ \/ root'.owners # root.owners)
  /\ copy' = [copy EXCEPT ![c] = root.data]
  /\ lost' = IF root.term THEN lost \union {"changed under a copy"} ELSE lost
  /\ UNCHANGED <<kind, byHand, leaf, rootPv, rootPvTerm, leafPv, pods, job, rootPvQ, leafQ, leafPvQ, budget>>

(* What is there already is left alone, whoever made it. *)
CopyCreate(c) ==
  /\ copy[c] # None
  /\ leaf' = IF leaf[c] = None
             THEN [leaf EXCEPT ![c] = [data |-> copy[c], global |-> TRUE, bound |-> FALSE]]
             ELSE leaf
  /\ copy' = [copy EXCEPT ![c] = None] /\ pods' = [pods EXCEPT ![c] = "done"]
  /\ UNCHANGED <<kind, byHand, root, rootPv, rootPvTerm, leafPv, queueVars, job, lost, budget>>

(* It is polled, and tried again with the pod. *)
CopyFails(c) ==
  /\ Spend("fail") /\ copy[c] # None
  /\ copy' = [copy EXCEPT ![c] = None]
  /\ UNCHANGED <<kind, byHand, apiVars, pods, queueVars, job, lost>>

-----------------------------------------------------------------------------
(* SyncResourcesReconciler: of ConfigMaps and Secrets *)

NoRead == [root |-> None, leaf |-> None, at |-> None]

SyncTake ==
  /\ kind = "data" /\ rootQ /\ job = None
  /\ rootQ' = FALSE
  /\ LET todo == IF root = None THEN Clusters ELSE {root.owners[k] : k \in DOMAIN root.owners}
     IN job' = [todo |-> todo, read |-> NoRead]
  /\ UNCHANGED <<kind, byHand, apiVars, copyVars, rootPvQ, leafQ, leafPvQ, lost, budget>>

(* SyncResource reads the root object again, then the leaf object. *)
SyncRead(c) ==
  /\ job # None /\ c \in job.todo /\ job.read = NoRead
  /\ job' = [todo |-> job.todo \ {c}, read |-> [root |-> root, leaf |-> leaf[c], at |-> c]]
  /\ UNCHANGED <<kind, byHand, apiVars, copyVars, queueVars, lost, budget>>

(* Seeded fault: what Kosmos did not create is updated too. *)
SyncResourceAll(read, now) ==
  CASE read.root = None -> IF read.leaf = None THEN now ELSE None
    [] read.root # None /\ read.leaf # None /\ now = read.leaf -> [now EXCEPT !.data = read.root.data]
    [] OTHER -> now

(* What the leaf object becomes: a missing root object deletes it, of      *)
(* whomever it is; an update is for global ones, and refused if it has     *)
(* changed since.                                                          *)
SyncResource(read, now) ==
  CASE read.root = None -> IF read.leaf = None THEN now ELSE None
    [] read.root # None /\ read.leaf # None /\ read.leaf.global /\ now = read.leaf -> [now EXCEPT !.data = read.root.data]
    [] OTHER -> now

SyncRefused(read, now) == read.root # None /\ read.leaf # None /\ read.leaf.global /\ now # read.leaf

SyncWrite ==
  LET c == job.read.at
  IN /\ job # None /\ job.read # NoRead
     /\ ~SyncRefused(job.read, leaf[c])
     /\ leaf' = [leaf EXCEPT ![c] = SyncResource(job.read, @)]
     /\ job' = [job EXCEPT !.read = NoRead]
     /\ UNCHANGED <<kind, byHand, root, rootPv, rootPvTerm, leafPv, copyVars, queueVars, lost, budget>>

(* Seeded fault: the round that failed is not repeated. *)
SyncFailsForgotten ==
  /\ job # None /\ job.read # NoRead
  /\ IF SyncRefused(job.read, leaf[job.read.at]) THEN UNCHANGED budget ELSE Spend("fail")
  /\ job' = None
  /\ UNCHANGED <<kind, byHand, apiVars, copyVars, queueVars, lost>>

(* The first error ends the round, which comes again. *)
SyncFails ==
  /\ job # None /\ job.read # NoRead
  /\ IF SyncRefused(job.read, leaf[job.read.at]) THEN UNCHANGED budget ELSE Spend("fail")
  /\ job' = None /\ rootQ' = TRUE
  /\ UNCHANGED <<kind, byHand, apiVars, copyVars, rootPvQ, leafQ, leafPvQ, lost>>

SyncDone ==
  /\ job # None /\ job.todo = {} /\ job.read = NoRead
  /\ job' = None
  /\ UNCHANGED <<kind, byHand, apiVars, copyVars, queueVars, lost, budget>>

-----------------------------------------------------------------------------
(* RootPVCController: the claim's first owner is its leaf cluster.  A      *)
(* claim that is gone carries no owners, and nothing is cleaned up; one    *)
(* without owners comes again; a leaf claim that is not there ends the     *)
(* round.                                                                  *)
RootPvcReconcile ==
  /\ kind = "claim" /\ rootQ
  /\ IF root = None \/ root.owners = <<>>
     THEN rootQ' = (root # None /\ ~root.term) /\ UNCHANGED <<leaf, leafQ>>
     ELSE LET c == Head(root.owners)
          IN /\ rootQ' = FALSE
             /\ leaf' = [leaf EXCEPT ![c] = IF root.term \/ @ = None THEN None ELSE [@ EXCEPT !.data = root.data]]
             /\ leafQ' = IF leaf'[c] \notin {None, leaf[c]} /\ leaf[c].global THEN leafQ \union {c} ELSE leafQ
  /\ UNCHANGED <<kind, byHand, root, rootPv, rootPvTerm, leafPv, copyVars, job, rootPvQ, leafPvQ, lost, budget>>

(* LeafPVCController: the status goes up; a bound claim waits, a minute at *)
(* a time, until the root claim has its volume.                            *)
LeafPvcReconcile(c) ==
  LET gone == leaf[c] = None \/ root = None
  IN /\ c \in leafQ
     /\ ~gone => (leaf[c].bound => root.vol)
     /\ leafQ' = leafQ \ {c}
     /\ IF gone \/ root.bound = leaf[c].bound THEN UNCHANGED <<root, rootQ>>
        ELSE root' = [root EXCEPT !.bound = leaf[c].bound] /\ rootQ' = TRUE
     /\ UNCHANGED <<kind, byHand, leaf, rootPv, rootPvTerm, leafPv, copyVars, job, rootPvQ, leafPvQ, lost, budget>>

(* Seeded fault: the volume of another leaf cluster is taken for its own. *)
LeafPvAny(c) ==
  IF rootPv = None
  THEN IF c \in leafPv /\ leaf[c] # None /\ leaf[c].global /\ root # None THEN c ELSE None
  ELSE IF c \notin leafPv THEN None ELSE rootPv

(* LeafPVController: what becomes of the root's volume of that name.  When *)
(* there is none, it is made for the claim of a volume of ours, and for no *)
(* other; the volume of another cluster is left alone; its own goes with   *)
(* the leaf's.                                                             *)
LeafPv(c) ==
  IF rootPv = None
  THEN IF c \in leafPv /\ leaf[c] # None /\ leaf[c].global /\ root # None THEN c ELSE None
  ELSE IF rootPv = c /\ c \notin leafPv THEN None ELSE rootPv

LeafPvReconcile(c) ==
  /\ c \in leafPvQ
  /\ leafPvQ' = leafPvQ \ {c}
  /\ rootPv' = LeafPv(c)
  /\ rootPvQ' = IF rootPv # None /\ rootPv' = None THEN rootPvQ \union {rootPv} ELSE rootPvQ
  /\ UNCHANGED <<kind, byHand, root, leaf, rootPvTerm, leafPv, copyVars, rootQ, job, leafQ, lost, budget>>

(* RootPVController: somebody deletes the root volume; the delete event    *)
(* deletes the leaf's, inside the event filter, and is not repeated.       *)
DeleteRootPv ==
  /\ Spend("pv") /\ kind = "claim" /\ rootPv # None
  /\ rootPv' = None /\ rootPvQ' = rootPvQ \union {rootPv} /\ byHand' = TRUE
  /\ UNCHANGED <<kind, root, leaf, rootPvTerm, leafPv, copyVars, rootQ, job, leafQ, leafPvQ, lost>>

RootPvDeleted(c) ==
  /\ kind = "claim" /\ c \in rootPvQ
  /\ rootPvQ' = rootPvQ \ {c}
  /\ \/ /\ leafPv' = leafPv \ {c} /\ UNCHANGED <<lost, budget>>
        /\ leafPvQ' = IF c \in leafPv THEN leafPvQ \union {c} ELSE leafPvQ
     \/ /\ Spend("fail") /\ UNCHANGED <<leafPv, leafPvQ>>
        /\ lost' = IF c \in leafPv THEN lost \union {"volume not deleted"} ELSE lost
  /\ UNCHANGED <<kind, byHand, root, leaf, rootPv, rootPvTerm, copyVars, rootQ, job, leafQ>>

-----------------------------------------------------------------------------
(* The one-way controllers *)

(* OnewayPVCController.ensureLeafPVC; clearLeafPVC does nothing.  A        *)
(* VolumePath without a node, or with one that is not there or is not      *)
(* Kosmos's, ends the round, which does not come again.                    *)
OnewayPvcReconcile ==
  /\ kind = "oneway" /\ rootQ
  /\ rootQ' = FALSE
  /\ \/ /\ leaf' = IF root = None \/ root.term THEN leaf
                   ELSE [leaf EXCEPT ![Home] = [data |-> root.data, global |-> TRUE, bound |-> FALSE]]
        /\ UNCHANGED <<lost, budget>>
     \/ Spend("fail") /\ lost' = lost \union {"node not known"} /\ UNCHANGED leaf
  /\ UNCHANGED <<kind, byHand, root, rootPv, rootPvTerm, leafPv, copyVars, job, rootPvQ, leafQ, leafPvQ>>

(* The driver makes the volume, and deletes it; a finalizer holds it. *)
OnewayVolume ==
  /\ kind = "oneway" /\ rootPvQ' = {Home}
  /\ \/ /\ Spend("pv") /\ rootPv = None /\ root # None
        /\ rootPv' = Home /\ UNCHANGED <<rootPvTerm, lost>>
     \/ /\ Spend("delete") /\ rootPv # None /\ ~rootPvTerm
        /\ rootPvTerm' = TRUE /\ UNCHANGED <<rootPv, lost>>
     \/ /\ rootPvTerm /\ rootPv' = None /\ rootPvTerm' = FALSE
        /\ lost' = IF rootPvQ # {} THEN lost \union {"termination not seen"} ELSE lost
        /\ UNCHANGED budget
  /\ UNCHANGED <<kind, byHand, root, leaf, leafPv, copyVars, rootQ, job, leafQ, leafPvQ>>

(* ensureLeafPV waits for the leaf claim, whose UID the volume takes. *)
OnewayReady == rootPvTerm \/ leaf[Home] # None

(* OnewayPVController: a volume that is gone is deleted in the leaf under  *)
(* an empty name, which fails and comes again, for ever.                   *)
OnewayPvReconcile ==
  /\ kind = "oneway" /\ rootPvQ # {} /\ rootPv # None
  /\ OnewayReady
  /\ rootPvQ' = {}
  /\ leafPv' = IF rootPvTerm THEN leafPv \ {Home} ELSE leafPv \union {Home}
  /\ UNCHANGED <<kind, byHand, root, leaf, rootPv, rootPvTerm, copyVars, rootQ, job, leafQ, leafPvQ, lost, budget>>

-----------------------------------------------------------------------------

Copier(c) == CopyRead(c) \/ CopyCreate(c)
Sync == SyncTake \/ (\E c \in Clusters : SyncRead(c)) \/ SyncWrite \/ SyncFails \/ SyncDone
Controllers(c) ==
  LeafPvcReconcile(c) \/ LeafPvReconcile(c) \/ RootPvDeleted(c) \/ LeafBind(c) \/ LeafReclaim(c)

Next ==
  \/ CreateRoot \/ EditRoot \/ DeleteRoot \/ FinalizeRoot \/ RootBind
  \/ \E c \in Clusters : Foreign(c) \/ NeedPod(c) \/ Copier(c) \/ CopyFails(c) \/ Controllers(c)
  \/ Sync \/ RootPvcReconcile \/ DeleteRootPv
  \/ OnewayPvcReconcile \/ OnewayVolume \/ OnewayPvReconcile

(* Every queue is served, pods are retried, and the clusters bind and      *)
(* reclaim volumes.                                                        *)
Fairness ==
  /\ WF_vars(FinalizeRoot) /\ WF_vars(RootBind) /\ WF_vars(Sync) /\ WF_vars(RootPvcReconcile)
  /\ WF_vars(OnewayPvcReconcile) /\ WF_vars(OnewayPvReconcile)
  /\ WF_vars(rootPvTerm /\ OnewayVolume)
  /\ \A c \in Clusters :
       /\ WF_vars(Copier(c)) /\ WF_vars(LeafPvcReconcile(c)) /\ WF_vars(LeafPvReconcile(c))
       /\ WF_vars(RootPvDeleted(c)) /\ WF_vars(LeafBind(c)) /\ WF_vars(LeafReclaim(c))

Spec == Init /\ [][Next]_vars /\ Fairness

-----------------------------------------------------------------------------

(* The types; in particular the root object notes a leaf cluster once.     *)
TypeOK ==
  /\ kind \in Kinds
  /\ root \in RootObj \union {None}
  /\ leaf \in [Clusters -> LeafObj \union {None}]
  /\ rootPv \in Clusters \union {None} /\ rootPvTerm \in BOOLEAN
  /\ leafPv \subseteq Clusters
  /\ pods \in [Clusters -> {"no", "want", "done"}]
  /\ copy \in [Clusters -> 0 .. MaxData \union {None}]
  /\ rootQ \in BOOLEAN /\ rootPvQ \subseteq Clusters
  /\ leafQ \subseteq Clusters /\ leafPvQ \subseteq Clusters
  /\ job # None => job.todo \subseteq Clusters /\ job.read.root \in RootObj \union {None}
  /\ byHand \in BOOLEAN
  /\ budget \in [Disturbances -> Nat]

(* A ConfigMap or Secret that Kosmos did not create in the leaf cluster is *)
(* never given the root's content, although the round that updates it read *)
(* it earlier, and although the root object lists its cluster              *)
(* (SyncResource, createStorageInLeafCluster).                             *)
ForeignNotOverwritten ==
  [][kind = "data" =>
       \A c \in Clusters : leaf[c] # None /\ ~leaf[c].global => leaf'[c] \in {None, leaf[c]}]_vars

Mine(c) == leaf[c] # None /\ leaf[c].global

(* No controller takes away the volume of a claim in use: while the copy   *)
(* of a claim is bound, its leaf cluster has the volume, unless somebody   *)
(* deleted the root's volume by hand, or the copy was bound to a volume of *)
(* a name whose deletion was still on its way (DeleteFunc deletes by       *)
(* name).  Deletions travel both ways between root and leaf volume, and    *)
(* volumes of one name may exist in several clusters, and one after the    *)
(* other (LeafPVController, RootPVController).  A one-way volume is in the *)
(* leaf only with the claim it names (ensureLeafPV).                       *)
VolumeKept ==
  /\ kind = "claim" => \A c \in Clusters :
       Mine(c) /\ leaf[c].bound => c \in leafPv \/ byHand \/ "name used again" \in lost
  /\ kind = "oneway" => (leafPv # {} => leaf[Home] # None)

Agree ==
  CASE kind = "data" ->
         \A c \in Clusters : Mine(c) => root # None /\ leaf[c].data = root.data
    [] kind = "claim" ->
         \A c \in Clusters :
           /\ Mine(c) => root # None /\ leaf[c].data = root.data
           /\ Mine(c) /\ root.vol => root.bound
           /\ Mine(c) /\ c \in leafPv => rootPv = c
           /\ rootPv = c => c \in leafPv
    [] kind = "oneway" ->
         /\ root # None => leaf[Home] # None /\ leaf[Home].data = root.data
         /\ Home \in leafPv <=> rootPv # None /\ leaf[Home] # None

(* When the users stop, the clusters agree: every copy is that of the root *)
(* object, with its last content, and goes with it; a bound claim's volume *)
(* and status are in the root, and go with the leaf's.  Unless an event    *)
(* fell into one of the gaps that the code leaves, which lost names.       *)
Converges == <>[](lost # {} \/ Agree)

=============================================================================
