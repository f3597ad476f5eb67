----------------------------- MODULE StorageProofs -----------------------------
(***************************************************************************)
(* Proofs about StorageSync and IPPools: the types, that no controller     *)
(* takes away the volume of a claim in use, that the ConfigMaps and        *)
(* Secrets of others are spared, and that no CIDR of another cluster is    *)
(* ever reported as one's own.                                             *)
(***************************************************************************)
EXTENDS StorageSync, IPPools, TLAPS

-----------------------------------------------------------------------------
(* The types of StorageSync. *)

(* The initial state of the storage controllers is well typed.             *)
LEMMA InitTypes == Init => TypeOK
<1> SUFFICES ASSUME Init PROVE TypeOK
  OBVIOUS
<1>1. budget \in [Disturbances -> Nat]
  BY BudgetAssumption DEF Init
<1> QED
  BY <1>1, DataAssumption DEF Init, TypeOK

(* A disturbance counts down a natural number.                             *)
LEMMA SpendType == ASSUME TypeOK, NEW e, Spend(e) PROVE budget' \in [Disturbances -> Nat]
<1>1. budget \in [Disturbances -> Nat]
  BY DEF TypeOK
<1>2. CASE e \in Disturbances
  <2>1. budget[e] \in Nat /\ budget[e] > 0
    BY <1>1, <1>2 DEF Spend
  <2>2. budget[e] - 1 \in Nat
    BY <2>1
  <2> QED
    BY <1>1, <2>2 DEF Spend
<1>3. CASE e \notin Disturbances
  BY <1>1, <1>3 DEF Spend
<1> QED
  BY <1>2, <1>3

(* AddResourceClusters notes a leaf cluster at most once.                  *)
LEMMA OwnersOnce ==
  ASSUME NEW s \in Owners, NEW c \in Clusters
  PROVE  AddResourceClusters(s, c) \in Owners
<1>1. CASE \E k \in DOMAIN s : s[k] = c
  BY <1>1 DEF AddResourceClusters
<1>2. CASE ~ \E k \in DOMAIN s : s[k] = c
  <2>1. s \in Seq(Clusters)
    BY DEF Owners
  <2> DEFINE t == Append(s, c)
  <2>2. /\ t \in Seq(Clusters) /\ Len(s) \in Nat /\ DOMAIN s = 1 .. Len(s)
        /\ DOMAIN t = 1 .. (Len(s) + 1) /\ t[Len(s) + 1] = c
        /\ \A i \in 1 .. Len(s) : t[i] = s[i]
    BY <2>1
  <2>3. \A i, j \in DOMAIN t : t[i] = t[j] => i = j
    <3> SUFFICES ASSUME NEW i \in DOMAIN t, NEW j \in DOMAIN t, t[i] = t[j] PROVE i = j
      OBVIOUS
    <3> HIDE DEF t
    <3>1. \A m, n \in DOMAIN s : s[m] = s[n] => m = n
      BY DEF Owners
    <3> QED
      BY <1>2, <2>2, <3>1
  <2> QED
    BY <1>2, <2>2, <2>3 DEF AddResourceClusters, Owners
<1> QED
  BY <1>1, <1>2

(* The steps of the users and of the clusters' own storage keep the types. *)
LEMMA UserTypes ==
  ASSUME TypeOK,
         \/ CreateRoot \/ EditRoot \/ DeleteRoot \/ FinalizeRoot \/ RootBind
         \/ \E c \in Clusters : Foreign(c) \/ LeafBind(c) \/ LeafReclaim(c)
  PROVE  TypeOK'
<1> USE DataAssumption, NoneAssumption
<1>1. CASE CreateRoot
  <2>1. <<>> \in Owners
    BY DEF Owners
  <2>2. root' \in RootObj /\ rootQ' \in BOOLEAN
    BY <1>1, <2>1 DEF CreateRoot, RootObj, TypeOK
  <2> QED
    BY <1>1, <2>2, SpendType DEF CreateRoot, copyVars, TypeOK
<1>2. CASE EditRoot
  <2>1. root \in RootObj /\ root.data + 1 \in 0 .. MaxData
    <3>1. root \in RootObj /\ root.data < MaxData
      BY <1>2 DEF EditRoot, TypeOK
    <3>2. root.data \in 0 .. MaxData
      BY <3>1 DEF RootObj
    <3> QED
      BY <3>1, <3>2
  <2>2. root' \in RootObj /\ rootQ' \in BOOLEAN
    BY <1>2, <2>1 DEF EditRoot, RootEvent, RootObj, TypeOK
  <2> QED
    BY <1>2, <2>2, SpendType DEF EditRoot, copyVars, TypeOK
<1>3. CASE DeleteRoot
  <2>1. root' \in RootObj \union {None} /\ rootQ' \in BOOLEAN
    BY <1>3 DEF DeleteRoot, RootEvent, RootObj, TypeOK
  <2> QED
    BY <1>3, <2>1, SpendType DEF DeleteRoot, copyVars, TypeOK
<1>4. CASE FinalizeRoot
  BY <1>4 DEF FinalizeRoot, copyVars, TypeOK
<1>5. CASE RootBind
  <2>1. root' \in RootObj
    BY <1>5 DEF RootBind, RootObj, TypeOK
  <2> QED
    BY <1>5, <2>1 DEF RootBind, copyVars, TypeOK
<1>6. ASSUME NEW c \in Clusters, Foreign(c) PROVE TypeOK'
  <2>1. [data |-> 0, global |-> FALSE, bound |-> FALSE] \in LeafObj
    BY DEF LeafObj
  <2>0. leaf \in [Clusters -> LeafObj \union {None}]
    BY DEF TypeOK
  <2>2. leaf' \in [Clusters -> LeafObj \union {None}]
    BY <1>6, <2>0, <2>1 DEF Foreign
  <2> QED
    BY <1>6, <2>2, SpendType DEF Foreign, copyVars, queueVars, TypeOK
<1>7. ASSUME NEW c \in Clusters, LeafBind(c) PROVE TypeOK'
  <2>0. leaf \in [Clusters -> LeafObj \union {None}] /\ leaf[c] # None
    BY <1>7 DEF LeafBind, TypeOK
  <2>1. leaf[c] \in LeafObj /\ [leaf[c] EXCEPT !.bound = TRUE] \in LeafObj
    BY <2>0 DEF LeafObj
  <2>2. leaf' \in [Clusters -> LeafObj \union {None}]
    BY <1>7, <2>0, <2>1 DEF LeafBind
  <2> QED
    BY <1>7, <2>2 DEF LeafBind, copyVars, TypeOK
<1>8. ASSUME NEW c \in Clusters, LeafReclaim(c) PROVE TypeOK'
  BY <1>8 DEF LeafReclaim, copyVars, TypeOK
<1> QED
  BY <1>1, <1>2, <1>3, <1>4, <1>5, <1>6, <1>7, <1>8

(* createStorageInLeafCluster keeps the types.                             *)
LEMMA CopyTypes ==
  ASSUME TypeOK, NEW c \in Clusters, NeedPod(c) \/ Copier(c) \/ CopyFails(c)
  PROVE  TypeOK'
<1> USE DataAssumption, NoneAssumption
<1>1. CASE NeedPod(c)
  BY <1>1, SpendType DEF NeedPod, apiVars, queueVars, TypeOK
<1>2. CASE CopyRead(c)
  <2>1. root \in RootObj /\ AddResourceClusters(root.owners, c) \in Owners
    BY <1>2, OwnersOnce DEF CopyRead, RootObj, TypeOK
  <2>2. root' \in RootObj /\ rootQ' \in BOOLEAN /\ root.data \in 0 .. MaxData
    BY <1>2, <2>1 DEF CopyRead, RootObj, TypeOK
  <2> QED
    BY <1>2, <2>2 DEF CopyRead, TypeOK
<1>3. CASE CopyCreate(c)
  <2>1. copy[c] \in 0 .. MaxData
    BY <1>3 DEF CopyCreate, TypeOK
  <2>2. [data |-> copy[c], global |-> TRUE, bound |-> FALSE] \in LeafObj
    BY <2>1 DEF LeafObj
  <2>3. leaf' \in [Clusters -> LeafObj \union {None}]
    BY <1>3, <2>2 DEF CopyCreate, TypeOK
  <2> QED
    BY <1>3, <2>3 DEF CopyCreate, queueVars, TypeOK
<1>4. CASE CopyFails(c)
  BY <1>4, SpendType DEF CopyFails, apiVars, queueVars, TypeOK
<1> QED
  BY <1>1, <1>2, <1>3, <1>4 DEF Copier

(* What SyncResource makes of a leaf object is a leaf object.              *)
LEMMA SyncResourceType ==
  ASSUME NEW read, NEW now \in LeafObj \union {None}, read.root \in RootObj \union {None}
  PROVE  SyncResource(read, now) \in LeafObj \union {None}
<1>1. CASE read.root # None /\ read.leaf # None /\ read.leaf.global /\ now = read.leaf
  <2>1. now \in LeafObj /\ read.root.data \in 0 .. MaxData
    BY <1>1 DEF RootObj
  <2>2. [now EXCEPT !.data = read.root.data] \in LeafObj
    BY <2>1 DEF LeafObj
  <2> QED
    BY <1>1, <2>2 DEF SyncResource
<1>2. CASE ~(read.root # None /\ read.leaf # None /\ read.leaf.global /\ now = read.leaf)
  BY <1>2 DEF SyncResource
<1> QED
  BY <1>1, <1>2

(* SyncResourcesReconciler keeps the types.                                *)
LEMMA SyncTypes == ASSUME TypeOK, Sync PROVE TypeOK'
<1> USE DataAssumption, NoneAssumption
<1>1. CASE SyncTake
  <2>1. root # None => {root.owners[k] : k \in DOMAIN root.owners} \subseteq Clusters
    BY DEF TypeOK, RootObj, Owners
  <2>2. job'.todo \subseteq Clusters /\ job'.read.root = None
    BY <1>1, <2>1 DEF SyncTake, NoRead
  <2> QED
    BY <1>1, <2>2 DEF SyncTake, apiVars, copyVars, TypeOK
<1>2. ASSUME NEW c \in Clusters, SyncRead(c) PROVE TypeOK'
  <2>1. job'.todo \subseteq Clusters /\ job'.read.root = root
    BY <1>2 DEF SyncRead, TypeOK
  <2> QED
    BY <1>2, <2>1 DEF SyncRead, apiVars, copyVars, queueVars, TypeOK
<1>3. CASE SyncWrite
  <2> DEFINE c == job.read.at
             new == SyncResource(job.read, leaf[c])
  <2>1. leaf' = [leaf EXCEPT ![c] = new]
    BY <1>3 DEF SyncWrite
  <2>2. c \in Clusters => new \in LeafObj \union {None}
    BY <1>3, SyncResourceType DEF SyncWrite, TypeOK
  <2>3. leaf' \in [Clusters -> LeafObj \union {None}]
    <3> HIDE DEF c, new
    <3> QED
      BY <2>1, <2>2 DEF TypeOK
  <2>4. job' = [job EXCEPT !.read = NoRead] /\ job # None
    BY <1>3 DEF SyncWrite
  <2>5. job' # None => job'.todo \subseteq Clusters /\ job'.read.root \in RootObj \union {None}
    BY <2>4 DEF TypeOK, NoRead
  <2> QED
    BY <1>3, <2>3, <2>5 DEF SyncWrite, copyVars, queueVars, TypeOK
<1>4. CASE SyncFails
  BY <1>4, SpendType DEF SyncFails, apiVars, copyVars, TypeOK
<1>5. CASE SyncDone
  BY <1>5 DEF SyncDone, apiVars, copyVars, queueVars, TypeOK
<1> QED
  BY <1>1, <1>2, <1>3, <1>4, <1>5 DEF Sync

(* The root and leaf PVC and PV controllers keep the types.                *)
LEMMA ClaimTypes ==
  ASSUME TypeOK,
         \/ RootPvcReconcile \/ DeleteRootPv
         \/ \E c \in Clusters : LeafPvcReconcile(c) \/ LeafPvReconcile(c) \/ RootPvDeleted(c)
  PROVE  TypeOK'
<1> USE DataAssumption, NoneAssumption
<1>1. CASE RootPvcReconcile
  <2>1. leaf' \in [Clusters -> LeafObj \union {None}] /\ leafQ' \subseteq Clusters /\ rootQ' \in BOOLEAN
    <3>1. CASE root = None \/ root.owners = <<>>
      BY <1>1, <3>1 DEF RootPvcReconcile, TypeOK
    <3>2. CASE ~(root = None \/ root.owners = <<>>)
      <4> DEFINE c == Head(root.owners)
                 new == IF root.term \/ leaf[c] = None THEN None ELSE [leaf[c] EXCEPT !.data = root.data]
      <4>1. root \in RootObj /\ root.owners \in Seq(Clusters) /\ root.owners # <<>>
        BY <3>2 DEF TypeOK, RootObj, Owners
      <4>2. c \in Clusters
        BY <4>1
      <4>3. leaf' = [leaf EXCEPT ![c] = new] /\ rootQ' = FALSE
        BY <1>1, <3>2 DEF RootPvcReconcile
      <4>4. new \in LeafObj \union {None}
        <5>1. root.data \in 0 .. MaxData /\ leaf[c] \in LeafObj \union {None}
          BY <4>1, <4>2 DEF RootObj, TypeOK
        <5> QED
          BY <5>1 DEF LeafObj
      <4>5. leafQ' \in {leafQ, leafQ \union {c}}
        BY <1>1, <3>2 DEF RootPvcReconcile
      <4> QED
        <5> HIDE DEF c, new
        <5> QED
          BY <4>2, <4>3, <4>4, <4>5 DEF TypeOK
    <3> QED
      BY <3>1, <3>2
  <2> QED
    BY <1>1, <2>1 DEF RootPvcReconcile, copyVars, TypeOK
<1>2. CASE DeleteRootPv
  BY <1>2, SpendType DEF DeleteRootPv, copyVars, TypeOK
<1>3. ASSUME NEW c \in Clusters, LeafPvcReconcile(c) PROVE TypeOK'
  <2>1. root' \in RootObj \union {None} /\ rootQ' \in BOOLEAN
    <3>1. CASE leaf[c] = None \/ root = None
      BY <1>3, <3>1 DEF LeafPvcReconcile, TypeOK
    <3>2. CASE ~(leaf[c] = None \/ root = None)
      <4>1. root \in RootObj /\ leaf[c].bound \in BOOLEAN
        BY <3>2 DEF TypeOK, LeafObj
      <4>2. [root EXCEPT !.bound = leaf[c].bound] \in RootObj /\ rootQ \in BOOLEAN
        BY <4>1 DEF RootObj, TypeOK
      <4> QED
        BY <1>3, <3>2, <4>1, <4>2 DEF LeafPvcReconcile
    <3> QED
      BY <3>1, <3>2
  <2> QED
    BY <1>3, <2>1 DEF LeafPvcReconcile, copyVars, TypeOK
<1>4. ASSUME NEW c \in Clusters, LeafPvReconcile(c) PROVE TypeOK'
  BY <1>4 DEF LeafPvReconcile, LeafPv, copyVars, TypeOK
<1>5. ASSUME NEW c \in Clusters, RootPvDeleted(c) PROVE TypeOK'
  BY <1>5, SpendType DEF RootPvDeleted, copyVars, TypeOK
<1> QED
  BY <1>1, <1>2, <1>3, <1>4, <1>5

(* The one-way controllers keep the types.                                 *)
LEMMA OnewayTypes ==
  ASSUME TypeOK, OnewayPvcReconcile \/ OnewayVolume \/ OnewayPvReconcile
  PROVE  TypeOK'
<1> USE DataAssumption, NoneAssumption, HomeAssumption
<1>1. CASE OnewayPvcReconcile
  <2>1. root # None => [data |-> root.data, global |-> TRUE, bound |-> FALSE] \in LeafObj
    BY DEF TypeOK, RootObj, LeafObj
  <2>2. leaf' \in [Clusters -> LeafObj \union {None}]
    BY <1>1, <2>1 DEF OnewayPvcReconcile, TypeOK
  <2>3. budget' \in [Disturbances -> Nat]
    BY <1>1, SpendType DEF OnewayPvcReconcile, TypeOK
  <2> QED
    BY <1>1, <2>2, <2>3 DEF OnewayPvcReconcile, copyVars, TypeOK
<1>2. CASE OnewayVolume
  BY <1>2, SpendType DEF OnewayVolume, copyVars, TypeOK
<1>3. CASE OnewayPvReconcile
  BY <1>3 DEF OnewayPvReconcile, copyVars, TypeOK
<1> QED
  BY <1>1, <1>2, <1>3

(* Every step of the storage controllers keeps the types.                  *)
LEMMA StepTypes == TypeOK /\ [Next]_vars => TypeOK'
<1> SUFFICES ASSUME TypeOK, [Next]_vars PROVE TypeOK'
  OBVIOUS
<1>1. CASE UNCHANGED vars
  BY <1>1 DEF vars, apiVars, copyVars, queueVars, TypeOK
<1> QED
  BY <1>1, UserTypes, CopyTypes, SyncTypes, ClaimTypes, OnewayTypes DEF Next, Controllers

(* The types hold at every moment, for any set of leaf clusters and any    *)
(* number of changes of the data; in particular createStorageInLeafCluster *)
(* and its retries never note a leaf cluster twice in the root object.     *)
THEOREM Typing == Spec => []TypeOK
<1> QED
  BY InitTypes, StepTypes, PTL DEF Spec

-----------------------------------------------------------------------------
(* The volume of a claim in use. *)

(* Unless somebody deleted the root's volume, or the name of a volume came *)
(* back before its deletion was carried out, a bound copy has its volume,  *)
(* and no event that deletes the volume is on its way.                     *)
Excused == byHand \/ "name used again" \in lost

ClaimHeld(c) == Mine(c) /\ leaf[c].bound /\ ~Excused => c \in leafPv /\ c \notin rootPvQ

(* The inductive invariant behind VolumeKept. *)
VolInv ==
  /\ \A c \in Clusters : copy[c] # None => pods[c] = "want"
  /\ job # None => kind = "data"
  /\ kind = "claim" => \A c \in Clusters : ClaimHeld(c)
  /\ kind = "oneway" => (leafPv # {} => leaf[Home] # None) /\ \A c \in Clusters : pods[c] = "no"

(* There is no copy yet.                                                   *)
LEMMA InitVol == Init => VolInv
<1> QED
  BY NoneAssumption, HomeAssumption DEF Init, VolInv, ClaimHeld, Excused, Mine

(* A step that changes neither copies nor volumes keeps the invariant.     *)
LEMMA VolSame ==
  ASSUME TypeOK, VolInv, job' # None => kind' = "data",
         UNCHANGED <<kind, leaf, leafPv, pods, rootPvQ, byHand>>, lost \subseteq lost',
         \A c \in Clusters : copy'[c] # None => pods[c] = "want"
  PROVE  VolInv'
<1> QED
  BY DEF VolInv, ClaimHeld, Excused, Mine

(* Every step keeps it.                                                    *)
LEMMA StepVol == TypeOK /\ VolInv /\ [Next]_vars => VolInv'
<1> SUFFICES ASSUME TypeOK, VolInv, [Next]_vars PROVE VolInv'
  OBVIOUS
<1> USE NoneAssumption
<1>1. ASSUME CreateRoot \/ EditRoot \/ DeleteRoot \/ FinalizeRoot \/ RootBind PROVE VolInv'
  BY <1>1, VolSame DEF CreateRoot, EditRoot, DeleteRoot, FinalizeRoot, RootBind, copyVars, VolInv
<1>2. ASSUME NEW c \in Clusters, Foreign(c) PROVE VolInv'
  <2>1. \A d \in Clusters : Mine(d)' => Mine(d) /\ leaf'[d] = leaf[d]
    BY <1>2 DEF Foreign, Mine, TypeOK
  <2> QED
    BY <1>2, <2>1 DEF Foreign, copyVars, queueVars, VolInv, ClaimHeld, Excused
<1>3. ASSUME NEW c \in Clusters, NeedPod(c) PROVE VolInv'
  BY <1>3 DEF NeedPod, apiVars, queueVars, VolInv, ClaimHeld, Excused, Mine, TypeOK
<1>4. ASSUME NEW c \in Clusters, CopyRead(c) PROVE VolInv'
  BY <1>4, VolSame DEF CopyRead, VolInv, TypeOK
<1>5. ASSUME NEW c \in Clusters, CopyCreate(c) PROVE VolInv'
  <2>1. pods[c] = "want" /\ kind # "oneway"
    BY <1>5 DEF CopyCreate, VolInv
  <2>2. \A d \in Clusters : d # c => leaf'[d] = leaf[d] /\ pods'[d] = pods[d] /\ copy'[d] = copy[d]
    BY <1>5 DEF CopyCreate, TypeOK
  <2>3. copy'[c] = None /\ pods'[c] = "done"
    BY <1>5 DEF CopyCreate, TypeOK
  <2>4. Mine(c)' /\ leaf'[c].bound => Mine(c) /\ leaf[c].bound
    BY <1>5 DEF CopyCreate, Mine, TypeOK
  <2>5. kind = "claim" => ClaimHeld(c)'
    BY <1>5, <2>4 DEF ClaimHeld, Excused, CopyCreate, queueVars, VolInv
  <2>6. kind = "claim" => \A d \in Clusters \ {c} : ClaimHeld(d)'
    BY <1>5, <2>2 DEF ClaimHeld, Excused, Mine, CopyCreate, queueVars, VolInv
  <2> QED
    BY <1>5, <2>1, <2>2, <2>3, <2>5, <2>6 DEF VolInv, CopyCreate, queueVars
<1>6. ASSUME NEW c \in Clusters, CopyFails(c) PROVE VolInv'
  BY <1>6, VolSame DEF CopyFails, apiVars, queueVars, VolInv, TypeOK
<1>7. ASSUME NEW c \in Clusters, LeafPvcReconcile(c) PROVE VolInv'
  BY <1>7, VolSame DEF LeafPvcReconcile, copyVars, VolInv
<1>8. ASSUME NEW c \in Clusters, LeafPvReconcile(c) PROVE VolInv'
  BY <1>8 DEF LeafPvReconcile, LeafPv, copyVars, VolInv, ClaimHeld, Excused, Mine, TypeOK
<1>9. ASSUME NEW c \in Clusters, RootPvDeleted(c) PROVE VolInv'
  BY <1>9 DEF RootPvDeleted, copyVars, VolInv, ClaimHeld, Excused, Mine, TypeOK
<1>10. ASSUME NEW c \in Clusters, LeafBind(c) PROVE VolInv'
  <2>1. \A d \in Clusters : Mine(d)' = Mine(d) /\ (d # c => leaf'[d] = leaf[d])
    <3>1. leaf[c] \in LeafObj /\ leaf' = [leaf EXCEPT ![c] = [leaf[c] EXCEPT !.bound = TRUE]]
      BY <1>10 DEF LeafBind, TypeOK
    <3>2. [leaf[c] EXCEPT !.bound = TRUE] \in LeafObj /\ [leaf[c] EXCEPT !.bound = TRUE].global = leaf[c].global
      BY <3>1 DEF LeafObj
    <3> QED
      BY <3>1, <3>2 DEF Mine, TypeOK
  <2> QED
    BY <1>10, <2>1 DEF LeafBind, copyVars, VolInv, ClaimHeld, Excused
<1>11. ASSUME NEW c \in Clusters, LeafReclaim(c) PROVE VolInv'
  BY <1>11 DEF LeafReclaim, copyVars, VolInv, ClaimHeld, Excused, Mine, TypeOK
<1>12. CASE Sync
  <2>1. CASE SyncTake
    BY <2>1, VolSame DEF SyncTake, apiVars, copyVars, VolInv
  <2>2. ASSUME NEW c \in Clusters, SyncRead(c) PROVE VolInv'
    BY <2>2, VolSame DEF SyncRead, apiVars, copyVars, queueVars, VolInv
  <2>3. CASE SyncWrite
    BY <2>3 DEF SyncWrite, copyVars, VolInv
  <2>4. CASE SyncFails
    BY <2>4, VolSame DEF SyncFails, apiVars, copyVars, VolInv
  <2>5. CASE SyncDone
    BY <2>5, VolSame DEF SyncDone, apiVars, copyVars, queueVars, VolInv
  <2> QED
    BY <1>12, <2>1, <2>2, <2>3, <2>4, <2>5 DEF Sync
<1>13. CASE RootPvcReconcile
  <2>1. \A d \in Clusters : Mine(d)' => Mine(d) /\ leaf'[d].bound = leaf[d].bound
    <3>1. CASE root = None \/ root.owners = <<>>
      BY <1>13, <3>1 DEF RootPvcReconcile, Mine
    <3>2. CASE ~(root = None \/ root.owners = <<>>)
      <4> DEFINE c == Head(root.owners)
                 new == IF root.term \/ leaf[c] = None THEN None ELSE [leaf[c] EXCEPT !.data = root.data]
      <4>1. leaf' = [leaf EXCEPT ![c] = new]
        BY <1>13, <3>2 DEF RootPvcReconcile
      <4>2. c \in Clusters /\ new # None => /\ leaf[c] # None
                                           /\ new.global = leaf[c].global /\ new.bound = leaf[c].bound
        BY DEF TypeOK, LeafObj
      <4> HIDE DEF c, new
      <4> QED
        BY <4>1, <4>2 DEF Mine, TypeOK
    <3> QED
      BY <3>1, <3>2
  <2> QED
    BY <1>13, <2>1 DEF RootPvcReconcile, copyVars, VolInv, ClaimHeld, Excused
<1>14. CASE DeleteRootPv
  BY <1>14 DEF DeleteRootPv, copyVars, VolInv, ClaimHeld, Excused, Mine, TypeOK
<1>15. CASE OnewayPvcReconcile
  <2>1. leaf'[Home] = leaf[Home] \/ leaf'[Home] \in LeafObj
    <3>1. root # None => [data |-> root.data, global |-> TRUE, bound |-> FALSE] \in LeafObj
      BY DEF TypeOK, RootObj, LeafObj
    <3> QED
      BY <1>15, <3>1, HomeAssumption DEF OnewayPvcReconcile, TypeOK
  <2> QED
    BY <1>15, <2>1 DEF OnewayPvcReconcile, copyVars, VolInv
<1>16. CASE OnewayVolume
  BY <1>16 DEF OnewayVolume, copyVars, VolInv
<1>17. CASE OnewayPvReconcile
  <2>1. leafPv' # {} => leaf[Home] # None
    BY <1>17 DEF OnewayPvReconcile, OnewayReady, VolInv
  <2> QED
    BY <1>17, <2>1 DEF OnewayPvReconcile, copyVars, VolInv
<1>18. CASE UNCHANGED vars
  BY <1>18, VolSame DEF vars, apiVars, copyVars, queueVars, VolInv
<1> QED
  BY <1>1, <1>2, <1>3, <1>4, <1>5, <1>6, <1>7, <1>8, <1>9, <1>10, <1>11, <1>12, <1>13, <1>14, <1>15, <1>16,
     <1>17, <1>18 DEF Next, Copier, Controllers

(* While the copy of a claim is bound, its leaf cluster has the volume,    *)
(* unless somebody deleted the root's by hand, or the copy was bound to a  *)
(* volume whose name was still to be deleted: the other deletions that the *)
(* PV controllers carry from leaf to root and back never reach the volume  *)
(* of a claim in use, however often claims and volumes of that name are    *)
(* made anew, with any number of clusters that have such volumes.          *)
THEOREM VolumeSafe == Spec => []VolumeKept
<1>1. VolInv => VolumeKept
  BY DEF VolInv, VolumeKept, ClaimHeld, Excused
<1> QED
  BY <1>1, InitTypes, StepTypes, InitVol, StepVol, PTL DEF Spec

-----------------------------------------------------------------------------
(* The objects of others. *)

(* A ConfigMap or Secret of that name that Kosmos did not create in the    *)
(* leaf cluster is never given the root's content, whatever the round of   *)
(* SyncResourcesReconciler read before.                                    *)
THEOREM OthersSpared == Spec => ForeignNotOverwritten
<1> DEFINE Spared ==
      kind = "data" => \A c \in Clusters : leaf[c] # None /\ ~leaf[c].global => leaf'[c] \in {None, leaf[c]}
<1>1. TypeOK /\ [Next]_vars => Spared
  <2> SUFFICES ASSUME TypeOK, [Next]_vars, kind = "data", NEW c \in Clusters, leaf[c] # None, ~leaf[c].global
               PROVE  leaf'[c] \in {None, leaf[c]}
    OBVIOUS
  <2>1. ASSUME NEW d \in Clusters, Foreign(d) PROVE leaf'[c] \in {None, leaf[c]}
    BY <2>1 DEF Foreign, TypeOK
  <2>2. ASSUME NEW d \in Clusters, CopyCreate(d) PROVE leaf'[c] \in {None, leaf[c]}
    BY <2>2 DEF CopyCreate, TypeOK
  <2>3. CASE SyncWrite
    <3> DEFINE d == job.read.at
               new == SyncResource(job.read, leaf[d])
    <3>1. leaf' = [leaf EXCEPT ![d] = new]
      BY <2>3 DEF SyncWrite
    <3>2. d = c => new \in {None, leaf[c]}
      BY DEF SyncResource
    <3> HIDE DEF d, new
    <3> QED
      BY <3>1, <3>2 DEF TypeOK
  <2>4. CASE UNCHANGED leaf
    BY <2>4
  <2> QED
    BY <2>1, <2>2, <2>3, <2>4 DEF Next, Copier, Controllers, Sync, CreateRoot, EditRoot, DeleteRoot, FinalizeRoot,
         RootBind, NeedPod, CopyRead, CopyFails, LeafPvcReconcile, LeafPvReconcile, RootPvDeleted, LeafBind,
         LeafReclaim, SyncTake, SyncRead, SyncFails, SyncDone, RootPvcReconcile, DeleteRootPv, OnewayPvcReconcile,
         OnewayVolume, OnewayPvReconcile, vars, apiVars
<1> QED
  BY <1>1, Typing, PTL DEF Spec, ForeignNotOverwritten

-----------------------------------------------------------------------------
(* The types of IPPools. *)

(* The controllers of a member cluster start well typed.                   *)
LEMMA PoolInitTypes == PoolInit => PoolTypeOK
<1> SUFFICES ASSUME PoolInit PROVE PoolTypeOK
  OBVIOUS
<1>1. cni \in Cnis /\ own \subseteq Nets \X BOOLEAN /\ api \in {Unknown} \union SUBSET Nets
  BY ConfigAssumption DEF PoolInit
<1>2. Joined \in ClusterObj
  BY DEF Joined, ClusterObj
<1>3. NetsOf(own) \subseteq Nets
  BY <1>1 DEF NetsOf
<1>4. poolBudget \in [PoolDisturbances -> Nat]
  BY PoolBudgetAssumption DEF PoolInit
<1> QED
  BY <1>1, <1>2, <1>3, <1>4, HereAssumption DEF PoolInit, PoolTypeOK, NoSync

(* A disturbance counts down a natural number.                             *)
LEMMA PoolSpendType == ASSUME PoolTypeOK, NEW e, PoolSpend(e) PROVE poolBudget' \in [PoolDisturbances -> Nat]
<1>1. poolBudget \in [PoolDisturbances -> Nat]
  BY DEF PoolTypeOK
<1>2. CASE e \in PoolDisturbances
  <2>1. poolBudget[e] \in Nat /\ poolBudget[e] > 0
    BY <1>1, <1>2 DEF PoolSpend
  <2>2. poolBudget[e] - 1 \in Nat
    BY <2>1
  <2> QED
    BY <1>1, <2>2 DEF PoolSpend
<1>3. CASE e \notin PoolDisturbances
  BY <1>1, <1>3 DEF PoolSpend
<1> QED
  BY <1>2, <1>3

(* The pools that a Cluster calls for are pools of its name.               *)
LEMMA PoolsOfType ==
  ASSUME NEW m \in Members, NEW x \in ClusterObj \union {Unknown}
  PROVE  PoolsOf(m, x) \subseteq Pools
<1>1. CASE x = Unknown
  BY <1>1 DEF PoolsOf
<1>2. CASE x # Unknown
  <2>1. x.pods \subseteq Nets /\ x.services \subseteq Nets /\ x.map \subseteq Nets \X Nets
    BY <1>2 DEF ClusterObj
  <2>2. ASSUME NEW n \in Nets PROVE GetCIDR(x, n) \in Nets
    <3>1. CASE \E p \in x.map : p[1] = n
      <4>1. (CHOOSE p \in x.map : p[1] = n) \in x.map
        BY <3>1
      <4> QED
        BY <2>1, <3>1, <4>1 DEF GetCIDR
    <3>2. CASE ~ \E p \in x.map : p[1] = n
      BY <3>2 DEF GetCIDR
    <3> QED
      BY <3>1, <3>2
  <2> QED
    BY <1>2, <2>1, <2>2 DEF PoolsOf, Pools, Types
<1> QED
  BY <1>1, <1>2

(* The environment and the watches keep the types.                         *)
LEMMA PoolEnvTypes == ASSUME PoolTypeOK, PoolEnv \/ SeeCidrs PROVE PoolTypeOK'
<1> USE HereAssumption, UnknownAssumption
<1>1. ASSUME NEW m \in Others, ChangeMember(m) PROVE PoolTypeOK'
  <2>1. PICK x \in Contents \union {Unknown} :
          /\ cluster' = [cluster EXCEPT ![m] = IF x = Unknown THEN Unknown ELSE Holding(x)]
          /\ givenUp' \in {givenUp, givenUp \union {m}}
    BY <1>1 DEF ChangeMember
  <2>2. x # Unknown => Holding(x) \in ClusterObj
    BY ContentAssumption DEF Holding, Joined, ClusterObj
  <2>3. cluster' \in [Members -> ClusterObj \union {Unknown}]
    BY <2>1, <2>2 DEF PoolTypeOK
  <2>4. givenUp' \subseteq Members
    BY <2>1 DEF PoolTypeOK, Others
  <2> QED
    BY <1>1, <2>3, <2>4, PoolSpendType DEF ChangeMember, memberState, ctlState, PoolTypeOK
<1>2. CASE ChangeOwn
  <2>1. own' \subseteq Nets \X BOOLEAN
    BY <1>2, ConfigAssumption DEF ChangeOwn
  <2>2. had' \subseteq Nets /\ givenUp' \subseteq Members
    BY <1>2, <2>1 DEF ChangeOwn, NetsOf, Others, PoolTypeOK
  <2>3. poolBudget' \in [PoolDisturbances -> Nat] /\ UNCHANGED <<cni, api, ext, cluster, local, known, ctlState>>
    BY <1>2, PoolSpendType DEF ChangeOwn
  <2> QED
    BY <2>1, <2>2, <2>3 DEF ctlState, PoolTypeOK
<1>3. CASE ChangeApi
  <2>1. api' \in {Unknown} \union SUBSET Nets
    BY <1>3, ConfigAssumption DEF ChangeApi
  <2> QED
    BY <1>3, <2>1, PoolSpendType DEF ChangeApi, ctlState, PoolTypeOK
<1>4. CASE EditHere
  <2>1. PICK x \in Contents : cluster' = [cluster EXCEPT ![Here].map = x.map]
    BY <1>4 DEF EditHere
  <2>2. x.map \subseteq Nets \X Nets /\ cluster[Here] \in ClusterObj
    BY <1>4, ContentAssumption DEF EditHere, PoolTypeOK
  <2>3. [cluster[Here] EXCEPT !.map = x.map] \in ClusterObj
    BY <2>2 DEF ClusterObj
  <2>4. cluster' \in [Members -> ClusterObj \union {Unknown}]
    BY <2>1, <2>3 DEF PoolTypeOK
  <2> QED
    BY <1>4, <2>4, PoolSpendType DEF EditHere, memberState, ctlState, PoolTypeOK
<1>5. CASE DeleteHere
  <2>1. cluster[Here] \in ClusterObj
    BY <1>5 DEF DeleteHere, PoolTypeOK
  <2>2. [cluster[Here] EXCEPT !.dying = TRUE] \in ClusterObj
    BY <2>1 DEF ClusterObj
  <2>3. cluster' \in [Members -> ClusterObj \union {Unknown}] /\ givenUp' \subseteq Members
    BY <1>5, <2>2 DEF DeleteHere, PoolTypeOK
  <2> QED
    BY <1>5, <2>3, PoolSpendType DEF DeleteHere, memberState, ctlState, PoolTypeOK
<1>6. CASE PoolRestart
  <2>1. local' \in [own : SUBSET (Nets \X BOOLEAN), api : {Unknown} \union SUBSET Nets]
    BY <1>6 DEF PoolRestart, PoolTypeOK
  <2> QED
    BY <1>6, <2>1, PoolSpendType DEF PoolRestart, memberState, NoSync, PoolTypeOK
<1>7. CASE SeePools \/ SeeConfigMap \/ SeeApi
  <2>1. local' \in [own : SUBSET (Nets \X BOOLEAN), api : {Unknown} \union SUBSET Nets]
    BY <1>7 DEF SeePools, SeeConfigMap, SeeApi, PoolTypeOK
  <2>2. ccQ' \in BOOLEAN /\ givenUp' \subseteq Members
    BY <1>7 DEF SeePools, SeeConfigMap, SeeApi, PoolTypeOK, Told
  <2> QED
    BY <1>7, <2>1, <2>2 DEF SeePools, SeeConfigMap, SeeApi, memberState, PoolTypeOK
<1>8. ASSUME NEW m \in Members, SeeMember(m) PROVE PoolTypeOK'
  BY <1>8 DEF SeeMember, memberState, PoolTypeOK
<1> QED
  BY <1>1, <1>2, <1>3, <1>4, <1>5, <1>6, <1>7, <1>8 DEF PoolEnv, SeeCidrs

(* The pod CIDRs that the cluster controller reports are CIDRs of the CNI, *)
(* as the controller sees them.                                            *)
LEMMA PodCIDRsOwn == PodCIDRsNow \subseteq NetsOf(own) \union NetsOf(local.own)
<1>1. ASSUME NEW pools PROVE ClusterPodCIDRs(pools) \subseteq NetsOf(pools.own)
  BY DEF ClusterPodCIDRs, CalicoPodCIDRs, EtcdPodCIDRs, ConfigMapPodCIDRs, NetsOf
<1> QED
  BY <1>1 DEF PodCIDRsNow

(* The cluster controller keeps the types.                                 *)
LEMMA ClusterControllerTypes == ASSUME PoolTypeOK, ClusterController PROVE PoolTypeOK'
<1> USE HereAssumption, UnknownAssumption
<1>1. CASE CcStart
  <2>1. PodCIDRsNow \subseteq Nets
    <3>1. NetsOf(own) \subseteq Nets /\ NetsOf(local.own) \subseteq Nets
      BY DEF NetsOf, PoolTypeOK
    <3> QED
      BY <3>1, PodCIDRsOwn
  <2>2. ccJob' \in [got : ClusterObj, pods : SUBSET Nets, services : SUBSET Nets] \union {Unknown}
    BY <1>1, <2>1 DEF CcStart, CcUnreadable, PoolTypeOK
  <2> QED
    BY <1>1, <2>2 DEF CcStart, memberState, PoolTypeOK
<1>2. CASE CcStartFails
  BY <1>2, PoolSpendType DEF CcStartFails, memberState, PoolTypeOK
<1>3. CASE CcWrite
  <2>1. cluster[Here] \in ClusterObj /\ ccJob.pods \subseteq Nets /\ ccJob.services \subseteq Nets
    BY <1>3 DEF CcWrite, PoolTypeOK
  <2>2. [cluster[Here] EXCEPT !.pods = ccJob.pods, !.services = ccJob.services] \in ClusterObj
    BY <2>1 DEF ClusterObj
  <2>3. cluster' = [cluster EXCEPT ![Here] = [cluster[Here] EXCEPT !.pods = ccJob.pods, !.services = ccJob.services]]
    BY <1>3, <2>1 DEF CcWrite, PoolTypeOK
  <2>4. cluster' \in [Members -> ClusterObj \union {Unknown}]
    BY <2>2, <2>3 DEF PoolTypeOK
  <2> QED
    BY <1>3, <2>4 DEF CcWrite, memberState, PoolTypeOK
<1>4. CASE CcWriteFails
  <2>1. ccQ' \in BOOLEAN /\ givenUp' \subseteq Members
    BY <1>4 DEF CcWriteFails, CcRetry, PoolTypeOK
  <2>2. poolBudget' \in [PoolDisturbances -> Nat]
    <3>1. CASE UNCHANGED poolBudget
      BY <3>1 DEF PoolTypeOK
    <3>2. ASSUME NEW e, PoolSpend(e) PROVE poolBudget' \in [PoolDisturbances -> Nat]
      BY <3>2, PoolSpendType
    <3> QED
      BY <1>4, <3>1, <3>2 DEF CcWriteFails, CcRetry
  <2> QED
    BY <1>4, <2>1, <2>2 DEF CcWriteFails, memberState, PoolTypeOK
<1> QED
  BY <1>1, <1>2, <1>3, <1>4 DEF ClusterController

(* What a round of the calico IP pool controller is to do is well typed.   *)
LEMMA SyncFromType ==
  ASSUME PoolTypeOK, NEW key \in Members \union {Unknown}, NEW g \in SUBSET Pools, SyncFrom(key, g)
  PROVE  /\ global' \subseteq Pools
         /\ sync' \in [key : Members \union {Unknown}, delete : SUBSET ((Members \union {Unknown}) \X Types \X Nets),
                      modify : SUBSET Pools, phase : {"rest", "delete", "modify", "release"}]
<1>1. ListIPPools.ext \subseteq (Members \union {Unknown}) \X Types \X Nets
  <2>1. ASSUME NEW p \in Pools PROVE Parsed(p) \in (Members \union {Unknown}) \X Types \X Nets
    BY DEF Parsed, Pools, Types
  <2> QED
    BY <2>1 DEF ListIPPools, ListEtcd, ListKubernetes, PoolTypeOK
<1> DEFINE d == Difference(g)
<1>2. d.global \subseteq Pools /\ d.modify \subseteq Pools /\ d.delete \subseteq ListIPPools.ext
  BY DEF Difference
<1>3. global' = d.global /\ sync' = [key |-> key, delete |-> d.delete, modify |-> d.modify, phase |-> "delete"]
  BY DEF SyncFrom
<1> HIDE DEF d
<1> QED
  BY <1>1, <1>2, <1>3

(* The calico IP pool controller keeps the types.                          *)
LEMMA PoolControllerTypes == ASSUME PoolTypeOK, PoolController PROVE PoolTypeOK'
<1> USE HereAssumption, UnknownAssumption
<1> DEFINE Job == [key : Members \union {Unknown}, delete : SUBSET ((Members \union {Unknown}) \X Types \X Nets),
                   modify : SUBSET Pools, phase : {"rest", "delete", "modify", "release"}]
<1>0. ASSUME NEW m \in Members PROVE Refresh(m) \in SUBSET Pools
  BY PoolsOfType DEF Refresh, PoolTypeOK
<1>1. ASSUME NEW m \in Members, PoolStart(m) PROVE PoolTypeOK'
  <2>0. global \subseteq Pools /\ sync \in Job /\ client \in BOOLEAN
    BY DEF PoolTypeOK
  <2>1. global' \subseteq Pools /\ sync' \in Job /\ client' \in BOOLEAN
    BY <1>0, <1>1, <2>0, SyncFromType DEF PoolStart
  <2> QED
    BY <1>1, <2>1 DEF PoolStart, memberState, PoolTypeOK
<1>2. ASSUME NEW m \in Members, PoolStartFails(m) PROVE PoolTypeOK'
  <2>1. global' \subseteq Pools
    BY <1>0, <1>2 DEF PoolStartFails
  <2> QED
    BY <1>2, <2>1, PoolSpendType DEF PoolStartFails, memberState, PoolTypeOK
<1>3. ASSUME PoolSyncFails
      PROVE  /\ sync' \in Job /\ poolQ' \subseteq Members /\ starterQ' \in BOOLEAN /\ givenUp' \subseteq Members
             /\ poolBudget' \in [PoolDisturbances -> Nat]
  <2>1. sync' \in Job
    BY <1>3 DEF PoolSyncFails, NoSync
  <2>2. poolQ' \subseteq Members /\ starterQ' \in BOOLEAN /\ givenUp' \subseteq Members
    <3>1. poolQ \subseteq Members /\ starterQ \in BOOLEAN /\ givenUp \subseteq Members
      BY DEF PoolTypeOK
    <3> QED
      BY <1>3, <3>1 DEF PoolSyncFails, Others
  <2>3. poolBudget' \in [PoolDisturbances -> Nat]
    <3>1. poolBudget \in [PoolDisturbances -> Nat] /\ poolBudget["fail"] - 1 \in Nat
      BY <1>3 DEF PoolSyncFails, PoolTypeOK, PoolDisturbances
    <3>2. poolBudget["drop"] > 0 => poolBudget["drop"] - 1 \in Nat
      BY <3>1 DEF PoolDisturbances
    <3>3. \/ poolBudget' = [poolBudget EXCEPT !["fail"] = @ - 1]
          \/ poolBudget["drop"] > 0 /\ poolBudget' = [poolBudget EXCEPT !["fail"] = @ - 1, !["drop"] = @ - 1]
      BY <1>3 DEF PoolSyncFails
    <3> QED
      BY <3>1, <3>2, <3>3
  <2> QED
    BY <2>1, <2>2, <2>3
<1>4. CASE DeleteIPPool
  <2>1. ext' \subseteq Pools
    BY <1>4 DEF DeleteIPPool, PoolTypeOK
  <2>2. /\ sync' \in Job /\ poolQ' \subseteq Members /\ starterQ' \in BOOLEAN /\ givenUp' \subseteq Members
        /\ poolBudget' \in [PoolDisturbances -> Nat]
    BY <1>3, <1>4 DEF DeleteIPPool, PoolTypeOK
  <2> QED
    BY <1>4, <2>1, <2>2 DEF DeleteIPPool, PoolTypeOK
<1>5. CASE CreateOrUpdateCalicoIPPool
  <2>1. ext' \subseteq Pools
    BY <1>5 DEF CreateOrUpdateCalicoIPPool, Part, PoolTypeOK
  <2>2. /\ sync' \in Job /\ poolQ' \subseteq Members /\ starterQ' \in BOOLEAN /\ givenUp' \subseteq Members
        /\ poolBudget' \in [PoolDisturbances -> Nat]
    BY <1>3, <1>5 DEF CreateOrUpdateCalicoIPPool, NoSync, PoolTypeOK
  <2> QED
    BY <1>5, <2>1, <2>2 DEF CreateOrUpdateCalicoIPPool, PoolTypeOK
<1> QED
  BY <1>1, <1>2, <1>4, <1>5 DEF PoolController

(* The starter keeps the types.                                            *)
LEMMA StarterTypes == ASSUME PoolTypeOK, Starter PROVE PoolTypeOK'
<1> USE HereAssumption, UnknownAssumption
<1>1. CASE StarterStart
  <2>1. cluster' \in [Members -> ClusterObj \union {Unknown}]
    <3>1. CASE cluster' = cluster
      BY <3>1 DEF PoolTypeOK
    <3>2. CASE known[Here] = cluster[Here] /\ cluster' = [cluster EXCEPT ![Here].fin = TRUE]
      <4>1. cluster[Here] \in ClusterObj
        BY <1>1, <3>2 DEF StarterStart, PoolTypeOK
      <4>2. [cluster[Here] EXCEPT !.fin = TRUE] \in ClusterObj
        BY <4>1 DEF ClusterObj
      <4> QED
        BY <3>2, <4>2 DEF PoolTypeOK
    <3> QED
      BY <1>1, <3>1, <3>2 DEF StarterStart
  <2>2. starterQ' \in BOOLEAN /\ poolBudget' \in [PoolDisturbances -> Nat]
    BY <1>1, PoolSpendType DEF StarterStart, PoolTypeOK
  <2> QED
    BY <1>1, <2>1, <2>2 DEF StarterStart, memberState, PoolTypeOK
<1>2. CASE StarterIdle
  <2>1. starterQ' \in BOOLEAN
    BY <1>2 DEF StarterIdle
  <2>2. /\ UNCHANGED <<cni, own, api, ext, cluster, local, known, started, ccQ, ccJob, poolQ>>
        /\ UNCHANGED <<global, client, sync, unmarked, had, givenUp, poolBudget>>
    BY <1>2 DEF StarterIdle, memberState
  <2> QED
    BY <2>1, <2>2 DEF PoolTypeOK
<1>3. CASE CleanResource
  <2>1. SyncFrom(Unknown, {})
    BY <1>3 DEF CleanResource
  <2> QED
    BY <1>3, <2>1, SyncFromType DEF CleanResource, memberState, PoolTypeOK
<1>4. CASE RemoveFinalizer
  <2>1. cluster' \in [Members -> ClusterObj \union {Unknown}]
    BY <1>4 DEF RemoveFinalizer, PoolTypeOK
  <2>2. starterQ' \in BOOLEAN /\ poolBudget' \in [PoolDisturbances -> Nat]
    BY <1>4, PoolSpendType DEF RemoveFinalizer, PoolTypeOK
  <2> QED
    BY <1>4, <2>1, <2>2 DEF RemoveFinalizer, memberState, NoSync, PoolTypeOK
<1> QED
  BY <1>1, <1>2, <1>3, <1>4 DEF Starter

(* Every step of the CIDR controllers keeps the types.                     *)
LEMMA PoolStepTypes == PoolTypeOK /\ [PoolNext]_poolVars => PoolTypeOK'
<1> SUFFICES ASSUME PoolTypeOK, [PoolNext]_poolVars PROVE PoolTypeOK'
  OBVIOUS
<1>1. CASE UNCHANGED poolVars
  BY <1>1 DEF poolVars, memberState, ctlState, PoolTypeOK
<1> QED
  BY <1>1, PoolEnvTypes, ClusterControllerTypes, PoolControllerTypes, StarterTypes DEF PoolNext

(* The types of the CIDR controllers hold at every moment.                 *)
THEOREM PoolTyping == PoolSpec => []PoolTypeOK
<1> QED
  BY PoolInitTypes, PoolStepTypes, PTL DEF PoolSpec

-----------------------------------------------------------------------------
(* No CIDR of another cluster comes back as one's own. *)

(* What is known of Here's CIDRs, in its CNI, in the cache, in the update  *)
(* under way and in its Cluster, its CNI has had.                          *)
EchoInv ==
  /\ NetsOf(own) \subseteq had /\ NetsOf(local.own) \subseteq had
  /\ ccJob # Unknown => ccJob.pods \subseteq had
  /\ NoEcho

(* Nothing is reported yet.                                                *)
LEMMA InitEcho == PoolInit => EchoInv
<1> QED
  BY HereAssumption DEF PoolInit, EchoInv, NoEcho, Joined

(* A step after which Here's Cluster has the pod CIDRs it had, or none,    *)
(* and its CNI no CIDR it has not had, keeps the invariant.                *)
LEMMA EchoSame ==
  ASSUME PoolTypeOK, EchoInv, UNCHANGED <<own, had>>, local'.own \in {own, local.own}, ccJob' \in {Unknown, ccJob},
         cluster'[Here] # Unknown => cluster[Here] # Unknown /\ cluster'[Here].pods = cluster[Here].pods
  PROVE  EchoInv'
<1> QED
  BY DEF EchoInv, NoEcho, NetsOf

(* Every step keeps it: the pools made for other clusters are told from    *)
(* Here's own by their names, and on etcd by being disabled.               *)
LEMMA StepEcho == PoolTypeOK /\ EchoInv /\ [PoolNext]_poolVars => EchoInv'
<1> SUFFICES ASSUME PoolTypeOK, EchoInv, [PoolNext]_poolVars PROVE EchoInv'
  OBVIOUS
<1> USE HereAssumption, UnknownAssumption
<1>1. ASSUME NEW m \in Others, ChangeMember(m) PROVE EchoInv'
  <2>1. cluster'[Here] = cluster[Here]
    BY <1>1 DEF ChangeMember, Others, PoolTypeOK
  <2> QED
    BY <1>1, <2>1, EchoSame DEF ChangeMember, memberState, ctlState
<1>2. CASE ChangeOwn
  <2>1. had' = had \union NetsOf(own')
    BY <1>2 DEF ChangeOwn
  <2>2. UNCHANGED <<cluster, local, ccJob>>
    BY <1>2 DEF ChangeOwn, ctlState
  <2> QED
    BY <2>1, <2>2 DEF EchoInv, NoEcho, NetsOf
<1>3. CASE ChangeApi
  BY <1>3, EchoSame DEF ChangeApi, ctlState
<1>4. CASE EditHere
  <2>1. PICK x \in Contents : cluster' = [cluster EXCEPT ![Here].map = x.map]
    BY <1>4 DEF EditHere
  <2>2. cluster[Here] \in ClusterObj
    BY <1>4 DEF EditHere, PoolTypeOK
  <2>3. [cluster[Here] EXCEPT !.map = x.map].pods = cluster[Here].pods
    BY <2>2 DEF ClusterObj
  <2>4. cluster[Here] # Unknown /\ cluster'[Here].pods = cluster[Here].pods
    BY <1>4, <2>1, <2>3 DEF EditHere, PoolTypeOK
  <2> QED
    BY <1>4, <2>4, EchoSame DEF EditHere, memberState, ctlState
<1>5. CASE DeleteHere
  <2>1. cluster[Here] \in ClusterObj
    BY <1>5 DEF DeleteHere, PoolTypeOK
  <2>2. [cluster[Here] EXCEPT !.dying = TRUE].pods = cluster[Here].pods
    BY <2>1 DEF ClusterObj
  <2>3. cluster'[Here] # Unknown => cluster[Here] # Unknown /\ cluster'[Here].pods = cluster[Here].pods
    BY <1>5, <2>2 DEF DeleteHere, PoolTypeOK
  <2> QED
    BY <1>5, <2>3, EchoSame DEF DeleteHere, memberState, ctlState
<1>6. CASE PoolRestart
  BY <1>6, EchoSame DEF PoolRestart, memberState
<1>7. CASE SeePools \/ SeeConfigMap \/ SeeApi
  <2>1. local'.own \in {own, local.own}
    BY <1>7 DEF SeePools, SeeConfigMap, SeeApi, PoolTypeOK
  <2> QED
    BY <1>7, <2>1, EchoSame DEF SeePools, SeeConfigMap, SeeApi, memberState
<1>8. ASSUME NEW m \in Members, SeeMember(m) PROVE EchoInv'
  BY <1>8, EchoSame DEF SeeMember, memberState
<1>9. CASE CcStart
  <2>1. PodCIDRsNow \subseteq had
    BY PodCIDRsOwn DEF EchoInv
  <2>2. ccJob' # Unknown => ccJob'.pods \subseteq had
    BY <1>9, <2>1 DEF CcStart
  <2> QED
    BY <1>9, <2>2 DEF CcStart, memberState, EchoInv, NoEcho, NetsOf
<1>10. CASE CcStartFails
  BY <1>10, EchoSame DEF CcStartFails, memberState
<1>11. CASE CcWrite
  <2>1. cluster[Here] \in ClusterObj /\ ccJob.pods \subseteq had
    BY <1>11 DEF CcWrite, PoolTypeOK, EchoInv
  <2>2. cluster'[Here].pods = ccJob.pods
    BY <1>11, <2>1 DEF CcWrite, PoolTypeOK, ClusterObj
  <2> QED
    BY <1>11, <2>1, <2>2 DEF CcWrite, memberState, EchoInv, NoEcho, NetsOf
<1>12. CASE CcWriteFails
  BY <1>12, EchoSame DEF CcWriteFails, memberState
<1>13. ASSUME NEW m \in Members, PoolStart(m) \/ PoolStartFails(m) PROVE EchoInv'
  BY <1>13, EchoSame DEF PoolStart, PoolStartFails, memberState
<1>14. CASE DeleteIPPool \/ CreateOrUpdateCalicoIPPool
  BY <1>14, EchoSame DEF DeleteIPPool, CreateOrUpdateCalicoIPPool
<1>15. CASE StarterStart
  <2>1. CASE cluster' = cluster
    BY <1>15, <2>1, EchoSame DEF StarterStart, memberState
  <2>2. CASE known[Here] = cluster[Here] /\ cluster' = [cluster EXCEPT ![Here].fin = TRUE]
    <3>1. cluster[Here] \in ClusterObj
      BY <1>15, <2>2 DEF StarterStart, PoolTypeOK
    <3>2. [cluster[Here] EXCEPT !.fin = TRUE].pods = cluster[Here].pods
      BY <3>1 DEF ClusterObj
    <3>3. cluster'[Here].pods = cluster[Here].pods
      BY <2>2, <3>2 DEF PoolTypeOK
    <3> QED
      BY <1>15, <3>1, <3>3, EchoSame DEF StarterStart, memberState
  <2> QED
    BY <1>15, <2>1, <2>2 DEF StarterStart
<1>16. CASE StarterIdle \/ CleanResource
  BY <1>16, EchoSame DEF StarterIdle, CleanResource, memberState
<1>17. CASE RemoveFinalizer
  <2>1. cluster'[Here] # Unknown => cluster'[Here] = cluster[Here]
    BY <1>17 DEF RemoveFinalizer, PoolTypeOK
  <2> QED
    BY <1>17, <2>1, EchoSame DEF RemoveFinalizer, memberState
<1>18. CASE UNCHANGED poolVars
  BY <1>18, EchoSame DEF poolVars, memberState, ctlState
<1> QED
  BY <1>1, <1>2, <1>3, <1>4, <1>5, <1>6, <1>7, <1>8, <1>9, <1>10, <1>11, <1>12, <1>13, <1>14, <1>15, <1>16,
     <1>17, <1>18 DEF PoolNext, PoolEnv, SeeCidrs, ClusterController, PoolController, Starter

(* A cluster never reports as its own a CIDR that its CNI has not had,     *)
(* with any number of clusters and CIDRs and whatever is read late.        *)
THEOREM NothingEchoed == PoolSpec => []NoEcho
<1>1. EchoInv => NoEcho
  BY DEF EchoInv
<1> QED
  BY <1>1, PoolInitTypes, PoolStepTypes, InitEcho, StepEcho, PTL DEF PoolSpec

=============================================================================
