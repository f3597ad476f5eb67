------------------------------ MODULE LeafPod ------------------------------
(***************************************************************************)
(* How the copy of a pod is built and kept in a leaf cluster               *)
(* (root_pod_controller.go: CreatePodInLeafCluster, UpdatePodInLeafCluster *)
(* and what they call; podutils; convertpolicy): the fields a virtual node *)
(* put on the pod are taken back, policies convert it, the objects its     *)
(* volumes name are copied first, projected tokens become secrets, and     *)
(* later edits are written over the copy as far as the API server allows.  *)
(*                                                                         *)
(* One pod, one reconciler (controller-runtime runs one worker), whose     *)
(* calls may fail and whose reads of service accounts lag.                 *)
(***************************************************************************)
EXTENDS Naturals, Sequences, FiniteSets

CONSTANTS VolumeNames,   \* names of the objects that volumes mount
          RootPods,      \* the pods tried, see Build below
          LeafPodPlans,  \* sets of disturbances: functions LeafPodEvents -> Nat
          MaxImage, MaxSelection   \* bounds of edits

LeafPodEvents == {"image", "select", "fail"}

ASSUME LeafPodPlanAssumption == LeafPodPlans \subseteq [LeafPodEvents -> Nat]
ASSUME LeafPodBoundAssumption == MaxImage \in Nat /\ MaxSelection \in 1 .. 3

(* A source of a projected volume.  "token" names the secret that a        *)
(* projected token becomes, which no volume of the root pod mounts.        *)
Sources == [kind : {"configmap", "secret", "token", "downward"}, name : VolumeNames]

ASSUME NamesAssumption == {"token", "root-ca", "master-root-ca"} \subseteq VolumeNames
ASSUME RootPodAssumption ==
  \A p \in RootPods :
    /\ \A v \in p.direct : v.name # "token"
    /\ p.projected \in Seq(Seq(Sources))

VARIABLES pod,        \* the root pod as created: volumes, spec, policy, leaf mode
          edit,       \* [image, sel]: its image and its selection annotation
          rootTok,    \* the token secret kosmos-<sa>-token exists in the root
          saRef,      \* the root's service account names it
          saSeen,     \* ... in the cache
          inLeaf,     \* configmaps, secrets and claims in the leaf cluster
          leafTok,    \* the token secret there: "none", "own" or "root" service account's uid
          leafSa,     \* the service account there: "none", "bare" or "attached" to the secret
          leafSaSeen, \* ... in the cache
          leafPod,    \* the copy, or NoLeafPod; `done` counts its projected volumes converted
          podQ,       \* the pod's key is queued
          job,        \* the reconciler: what it is doing and the pod it builds
          spoilt,     \* a token secret was stored with the root's uid
          podPlan     \* disturbances left

leafPodVars == <<pod, edit, rootTok, saRef, saSeen, inLeaf, leafTok, leafSa, leafSaSeen,
                 leafPod, podQ, job, spoilt, podPlan>>

NoLeafPod == [image |-> 0]
IdleJob == [at |-> "idle"]
SpendPod(e) == podPlan[e] > 0 /\ podPlan' = [podPlan EXCEPT ![e] = @ - 1]

-----------------------------------------------------------------------------
(* The fields of a pod's spec that virtual nodes and policies touch.  An   *)
(* affinity is its required and preferred node parts and its pod parts;    *)
(* all of them "nil" is no affinity.                                       *)
NoAffinity == [req |-> "nil", pref |-> "nil", pods |-> "nil"]

(* The selection the annotation kosmos.io/cluster-selector saves: none, or *)
(* tolerations that grow from 1 to 2 and are others in 3.                  *)
Selection(sel) ==
  CASE sel = 0 -> [tol |-> {}, other |-> "nil", aff |-> NoAffinity]
    [] sel = 1 -> [tol |-> {"t1"}, other |-> "saved", aff |-> [NoAffinity EXCEPT !.req = "saved"]]
    [] sel = 2 -> [tol |-> {"t1", "t2"}, other |-> "saved", aff |-> [NoAffinity EXCEPT !.req = "saved"]]
    [] sel = 3 -> [tol |-> {"t2"}, other |-> "saved", aff |-> NoAffinity]

(* recoverSelectors: the saved selection replaces what the virtual node    *)
(* needed; without one the required node affinity goes.                    *)
RecoverAffinity(aff, sel) ==
  LET saved == Selection(sel).aff
      hasNode(a) == a.req # "nil" \/ a.pref # "nil"
  IN IF sel = 0 THEN [aff EXCEPT !.req = "nil"]
     ELSE IF aff = NoAffinity THEN saved
     ELSE IF ~hasNode(saved) THEN [aff EXCEPT !.req = "nil", !.pref = "nil"]
     ELSE IF hasNode(aff) THEN [aff EXCEPT !.req = saved.req]
     ELSE [aff EXCEPT !.req = saved.req, !.pref = saved.pref]

(* fitNodeAffinity: the leaf's node selector replaces the required terms;  *)
(* the order of its labels is that of a Go map, a new one at every call.   *)
Orders == {"party", "party'"}
FitNodeAffinity(aff, order) == [aff EXCEPT !.req = order]

(* FitPod *)
FitSpec(p, sel, order) ==
  [scheduler |-> IF p.spec.scheduler = "kosmos" THEN "nil" ELSE p.spec.scheduler,
   node |-> IF p.mode = "node" THEN "virtual" ELSE "nil",
   selector |-> Selection(sel).other,
   tol |-> Selection(sel).tol,
   aff |-> IF p.mode = "party" THEN FitNodeAffinity(p.spec.aff, order) ELSE RecoverAffinity(p.spec.aff, sel),
   spread |-> Selection(sel).other,
   aliases |-> p.spec.aliases]

(* The seven converters: Add fills an empty field, Remove empties it,      *)
(* Replace sets it; any other type is skipped.                             *)
Convert(converter, empty, nil, now) ==
  CASE converter.type = "add" -> IF empty THEN converter.to ELSE now
    [] converter.type = "remove" -> nil
    [] converter.type = "replace" -> converter.to
    [] OTHER -> now

(* ConvertPod.  Adding spread constraints looks at the affinity, which has *)
(* been converted before.                                                  *)
ConvertPod(s, cs) ==
  LET by(f) == IF f \in DOMAIN cs THEN cs[f] ELSE [type |-> "none"]
      plain(f) == Convert(by(f), s[f] = "nil", "nil", s[f])
      aff == Convert(by("aff"), s.aff = NoAffinity, NoAffinity, s.aff)
  IN [scheduler |-> plain("scheduler"), node |-> plain("node"), selector |-> plain("selector"),
      tol |-> Convert(by("tol"), s.tol = {}, {}, s.tol), aff |-> aff,
      spread |-> Convert(by("spread"), aff = NoAffinity, "nil", s.spread),
      aliases |-> plain("aliases")]

(* GetMatchPodConvertPolicy and GetMatchClusterPodConvertPolicy: those     *)
(* whose selectors take the pod and its node.                              *)
NoConverters == [f \in {} |-> 0]
Matching(policies, scope) == {i \in DOMAIN policies : policies[i].cluster = scope /\ policies[i].matches}

(* mutatePod: if there are policies of the cluster's scope, those of the   *)
(* namespace do not count; the first that matches and converts is used.    *)
MutateBy(policies) ==
  LET clusterScope == \E i \in DOMAIN policies : policies[i].cluster
      usable == {i \in Matching(policies, clusterScope) : policies[i].converters # NoConverters}
  IN IF usable = {} THEN NoConverters
     ELSE policies[CHOOSE i \in usable : \A j \in usable : i <= j].converters

(* kube-root-ca.crt of the root is master-root-ca.crt in the leaf. *)
LeafName(n) == IF n = "root-ca" THEN "master-root-ca" ELSE n

(* GetConfigmaps renames what the copy mounts; GetSecrets and GetPVCs only *)
(* collect names.                                                          *)
LeafVolumes(vs) == {[kind |-> v.kind, name |-> LeafName(v.name)] : v \in vs}

(* CreatePodInLeafCluster up to the calls: FitPod, mutatePod and the       *)
(* volumes.  Those named default-token* are not in pod.direct: FitPod      *)
(* drops them with their mounts.  The labels to be ignored are never nil,  *)
(* so that an annotation is always added.                                  *)
Build(cs, order) ==
  [image |-> edit.image, sel |-> edit.sel, extra |-> TRUE,
   spec |-> ConvertPod(FitSpec(pod, edit.sel, order), cs),
   direct |-> LeafVolumes(pod.direct),
   projected |-> pod.projected, done |-> 0, dns |-> pod.dns]

(* GetUpdatedPod: image, labels and annotations are the root's, with what  *)
(* creation added to the annotations gone; tolerations follow a changed    *)
(* selection, and the affinity of a part of a cluster is built anew.       *)
GetUpdatedPod(leaf, e, order) ==
  [leaf EXCEPT
     !.image = e.image, !.sel = e.sel, !.extra = FALSE,
     !.spec.tol = IF leaf.sel # e.sel /\ e.sel # 0 THEN Selection(e.sel).tol ELSE @,
     !.spec.aff = IF pod.mode = "party" THEN FitNodeAffinity(pod.spec.aff, order) ELSE @]

(* The API server (external): of a pod's spec only images may change, and  *)
(* tolerations be added; annotations and labels are free.                  *)
Allowed(old, new) ==
  /\ old.spec.tol \subseteq new.spec.tol
  /\ [old.spec EXCEPT !.tol = {}] = [new.spec EXCEPT !.tol = {}]
  /\ old.direct = new.direct /\ old.projected = new.projected /\ old.dns = new.dns

-----------------------------------------------------------------------------
LeafPodInit ==
  /\ pod \in RootPods
  /\ edit = [image |-> 1, sel |-> pod.sel]
  /\ rootTok = pod.attached /\ saRef = pod.attached /\ saSeen = pod.attached
  /\ inLeaf = {} /\ leafTok = "none" /\ leafSa = "none" /\ leafSaSeen = FALSE
  /\ leafPod = NoLeafPod
  /\ podQ = TRUE /\ job = IdleJob /\ spoilt = FALSE
  /\ podPlan \in LeafPodPlans

(* The key is taken: the copy is built, or the edits are laid over it and  *)
(* only a difference is written.  The lists of policies and the node are   *)
(* read on the way; an error there leaves the pod unconverted.             *)
Begin(cs, order) ==
  LET new == IF leafPod = NoLeafPod THEN Build(cs, order) ELSE GetUpdatedPod(leafPod, edit, order)
  IN IF leafPod = NoLeafPod
     THEN job' = [at |-> "namespace", new |-> new,
                  rest |-> pod.direct, vol |-> 1, out |-> <<>>]
     ELSE job' = IF new = leafPod THEN IdleJob
                 ELSE [at |-> "projected", new |-> new, rest |-> {}, vol |-> 1, out |-> <<>>]

PodTake(order) ==
  /\ podQ /\ job = IdleJob
  /\ podQ' = FALSE
  /\ Begin(MutateBy(pod.policies), order)
  /\ UNCHANGED <<pod, edit, rootTok, saRef, saSeen, inLeaf, leafTok, leafSa, leafSaSeen, leafPod, spoilt, podPlan>>

PodTakeUnconverted(order) ==
  /\ podQ /\ job = IdleJob /\ leafPod = NoLeafPod
  /\ SpendPod("fail")
  /\ podQ' = FALSE
  /\ Begin(NoConverters, order)
  /\ UNCHANGED <<pod, edit, rootTok, saRef, saSeen, inLeaf, leafTok, leafSa, leafSaSeen, leafPod, spoilt>>

(* Seeded fault: the error is logged and the key is not queued again. *)
PodRequeueNot == job' = IdleJob /\ UNCHANGED podQ

(* An error returned to Reconcile: the key is queued again. *)
PodRequeue == job' = IdleJob /\ podQ' = TRUE

EnsureNamespace ==
  /\ job.at = "namespace"
  /\ inLeaf' = inLeaf \union {"namespace"}
  /\ job' = [job EXCEPT !.at = "volumes"]
  /\ UNCHANGED <<pod, edit, rootTok, saRef, saSeen, leafTok, leafSa, leafSaSeen, leafPod, podQ, spoilt, podPlan>>

(* Seeded fault: the configmap is copied under the name it has in the root. *)
CopyObjectAsIs(n) == inLeaf' = inLeaf \union {n}

(* createStorageInLeafCluster: an object that is there is not written. *)
CopyObject(n) == inLeaf' = inLeaf \union {LeafName(n)}

(* createVolumes, whose goroutines are the subject of CreateVolumes.  The  *)
(* claims NoOneWayPVCFilter takes out, those of one-way storage, are not   *)
(* copied here: OnewayPVCController does that in its own time.             *)
CopyVolume(v) ==
  /\ job.at = "volumes" /\ v \in job.rest
  /\ IF v.kind = "oneway" THEN UNCHANGED inLeaf ELSE CopyObject(v.name)
  /\ job' = [job EXCEPT !.rest = @ \ {v}]
  /\ UNCHANGED <<pod, edit, rootTok, saRef, saSeen, leafTok, leafSa, leafSaSeen, leafPod, podQ, spoilt, podPlan>>

(* The secrets for pulling images are tried and may fail. *)
SkipPullSecret(v) ==
  /\ job.at = "volumes" /\ v \in job.rest /\ v.kind = "pull"
  /\ SpendPod("fail")
  /\ job' = [job EXCEPT !.rest = @ \ {v}]
  /\ UNCHANGED <<pod, edit, rootTok, saRef, saSeen, inLeaf, leafTok, leafSa, leafSaSeen, leafPod, podQ, spoilt>>

VolumesDone ==
  /\ job.at = "volumes" /\ job.rest = {}
  /\ job' = [job EXCEPT !.at = "projected"]
  /\ UNCHANGED <<pod, edit, rootTok, saRef, saSeen, inLeaf, leafTok, leafSa, leafSaSeen, leafPod, podQ, spoilt, podPlan>>

(* A call of the steps above fails, or a poll times out. *)
PodFails ==
  /\ job.at \in {"namespace", "volumes", "store"}
  /\ SpendPod("fail")
  /\ PodRequeue
  /\ UNCHANGED <<pod, edit, rootTok, saRef, saSeen, inLeaf, leafTok, leafSa, leafSaSeen, leafPod, spoilt>>

-----------------------------------------------------------------------------
(* projectedHandler walks through the sources of each projected volume and *)
(* replaces them when the whole volume was converted.                      *)
Volume == job.new.projected[job.vol]
Source == Volume[Len(job.out) + 1]
AtSource == job.at = "projected" /\ job.vol <= Len(job.new.projected) /\ Len(job.out) < Len(Volume)
Converted(source) == job' = [job EXCEPT !.at = "projected", !.out = Append(@, source)]

VolumeConverted ==
  /\ job.at = "projected" /\ job.vol <= Len(job.new.projected) /\ Len(job.out) = Len(Volume)
  /\ job' = [job EXCEPT !.new.projected[job.vol] = job.out, !.vol = @ + 1, !.out = <<>>,
                        !.new.done = IF job.vol > @ THEN job.vol ELSE @]
  /\ UNCHANGED <<pod, edit, rootTok, saRef, saSeen, inLeaf, leafTok, leafSa, leafSaSeen, leafPod, podQ, spoilt, podPlan>>

AllConverted ==
  /\ job.at = "projected" /\ job.vol > Len(job.new.projected)
  /\ job' = [job EXCEPT !.at = "dns"]
  /\ UNCHANGED <<pod, edit, rootTok, saRef, saSeen, inLeaf, leafTok, leafSa, leafSaSeen, leafPod, podQ, spoilt, podPlan>>

(* createConfigMapInLeafCluster, createSecretInLeafCluster; downward API   *)
(* sources are taken over.                                                 *)
ConvertSource ==
  /\ AtSource /\ Source.name # "token"
  /\ IF Source.kind = "downward" THEN UNCHANGED inLeaf ELSE CopyObject(Source.name)
  /\ Converted([Source EXCEPT !.name = LeafName(@)])
  /\ UNCHANGED <<pod, edit, rootTok, saRef, saSeen, leafTok, leafSa, leafSaSeen, leafPod, podQ, spoilt, podPlan>>

(* createSATokenInLeafCluster: the service account of the cache names its  *)
(* secret, or one is made; a secret of that name that is there already is  *)
(* an error, as every error of projectedHandler the end of the conversion. *)
TokenKnown ==
  /\ AtSource
  /\ Source.name = "token" /\ (Source.kind = "token" => saSeen)
  /\ job' = [job EXCEPT !.at = "token"]
  /\ UNCHANGED <<pod, edit, rootTok, saRef, saSeen, inLeaf, leafTok, leafSa, leafSaSeen, leafPod, podQ, spoilt, podPlan>>

CreateToken ==
  /\ AtSource /\ Source.kind = "token" /\ ~saSeen
  /\ job' = [job EXCEPT !.at = IF rootTok THEN "dns" ELSE "attach"]
  /\ rootTok' = TRUE
  /\ UNCHANGED <<pod, edit, saRef, saSeen, inLeaf, leafTok, leafSa, leafSaSeen, leafPod, podQ, spoilt, podPlan>>

AttachToken ==
  /\ job.at = "attach"
  /\ saRef' = TRUE
  /\ job' = [job EXCEPT !.at = "token"]
  /\ UNCHANGED <<pod, edit, rootTok, saSeen, inLeaf, leafTok, leafSa, leafSaSeen, leafPod, podQ, spoilt, podPlan>>

(* SecretHandler.BeforeCreateInLeaf and createServiceAccountInLeafCluster: *)
(* the service account is made if the cache does not show it, the secret   *)
(* is stored with its uid, and the service account names the secret, whose *)
(* failure is passed over.  For the default service account the secret is  *)
(* stored as an ordinary one.  If the service account turns out to be      *)
(* there, or the store fails, the caller stores the secret as the root has *)
(* it, with the root's uid.                                                *)
StoreToken(failing) ==
  LET own == ~failing /\ (pod.sa = "default" \/ leafSaSeen \/ leafSa = "none")
  IN IF leafTok # "none" THEN UNCHANGED <<leafTok, leafSa, spoilt>>
     ELSE /\ leafTok' = IF own THEN "own" ELSE "root"
          /\ spoilt' = (spoilt \/ ~own)
          /\ leafSa' \in IF pod.sa = "default" THEN {leafSa}
                         ELSE IF failing \/ own THEN {"attached", "bare"} ELSE {leafSa}

TokenConverted(failing) ==
  /\ job.at = "token"
  /\ IF failing THEN SpendPod("fail") /\ leafTok = "none" ELSE UNCHANGED podPlan
  /\ StoreToken(failing)
  /\ Converted([kind |-> "secret", name |-> "token"])
  /\ UNCHANGED <<pod, edit, rootTok, saRef, saSeen, inLeaf, leafSaSeen, leafPod, podQ>>

(* A failure ends projectedHandler, which reports nothing: the rest of the *)
(* volumes keeps its sources.  The service account, or the secret as well, *)
(* may have been made.                                                     *)
ConversionStops ==
  /\ (AtSource /\ Source.kind # "downward") \/ job.at \in {"attach", "token"}
  /\ SpendPod("fail")
  /\ job' = [job EXCEPT !.at = "dns"]
  /\ IF job.at = "token" /\ leafTok = "none"
     THEN /\ leafTok' \in {"none", "own"}
          /\ leafSa' = IF pod.sa # "default" /\ leafSa = "none" THEN "bare" ELSE leafSa
     ELSE UNCHANGED <<leafTok, leafSa>>
  /\ UNCHANGED <<pod, edit, rootTok, saRef, saSeen, inLeaf, leafSaSeen, leafPod, podQ, spoilt>>

(* changeToMasterCoreDNS: without the root's DNS service nothing changes. *)
ChangeDNS(found) ==
  /\ job.at = "dns"
  /\ IF found THEN UNCHANGED podPlan ELSE SpendPod("fail") /\ job.new.dns = "first" /\ ~pod.mcs
  /\ job' = [job EXCEPT !.at = "store",
                        !.new.dns = IF found /\ @ = "first" /\ ~pod.mcs THEN "master" ELSE @]
  /\ UNCHANGED <<pod, edit, rootTok, saRef, saSeen, inLeaf, leafTok, leafSa, leafSaSeen, leafPod, podQ, spoilt>>

(* The pod is created or updated.  The leaf's API server admits only pods  *)
(* whose service account exists, and refuses other changes than Allowed.   *)
(* The new copy's status reaches the root pod, whose event queues the key. *)
Accepts ==
  IF leafPod = NoLeafPod THEN pod.sa = "default" \/ leafSa # "none" ELSE Allowed(leafPod, job.new)

StorePod ==
  /\ job.at = "store"
  /\ IF Accepts THEN leafPod' = job.new /\ job' = IdleJob /\ podQ' = TRUE ELSE PodRequeue /\ UNCHANGED leafPod
  /\ UNCHANGED <<pod, edit, rootTok, saRef, saSeen, inLeaf, leafTok, leafSa, leafSaSeen, spoilt, podPlan>>

-----------------------------------------------------------------------------
(* The environment: users edit the pod, caches catch up, and the leaf's    *)
(* token controller removes a secret whose service account's uid is not    *)
(* the one it names.                                                       *)
EditImage ==
  /\ SpendPod("image") /\ edit.image < MaxImage
  /\ edit' = [edit EXCEPT !.image = @ + 1] /\ podQ' = TRUE
  /\ UNCHANGED <<pod, rootTok, saRef, saSeen, inLeaf, leafTok, leafSa, leafSaSeen, leafPod, job, spoilt>>

EditSelection ==
  /\ SpendPod("select")
  /\ \E n \in 0 .. MaxSelection : n # edit.sel /\ edit' = [edit EXCEPT !.sel = n]
  /\ podQ' = TRUE
  /\ UNCHANGED <<pod, rootTok, saRef, saSeen, inLeaf, leafTok, leafSa, leafSaSeen, leafPod, job, spoilt>>

SeeAccounts ==
  /\ saSeen # saRef \/ leafSaSeen # (leafSa # "none")
  /\ saSeen' = saRef /\ leafSaSeen' = (leafSa # "none")
  /\ UNCHANGED <<pod, edit, rootTok, saRef, inLeaf, leafTok, leafSa, leafPod, podQ, job, spoilt, podPlan>>

TokenController ==
  /\ leafTok = "root"
  /\ leafTok' = "none"
  /\ UNCHANGED <<pod, edit, rootTok, saRef, saSeen, inLeaf, leafSa, leafSaSeen, leafPod, podQ, job, spoilt, podPlan>>

LeafPodWorks ==
  \/ EnsureNamespace \/ (\E v \in pod.direct : CopyVolume(v)) \/ VolumesDone
  \/ VolumeConverted \/ AllConverted \/ ConvertSource \/ TokenKnown \/ CreateToken \/ AttachToken
  \/ TokenConverted(FALSE) \/ ChangeDNS(TRUE) \/ StorePod

LeafPodNext ==
  \/ LeafPodWorks \/ \E o \in Orders : PodTake(o)
  \/ (\E o \in Orders : PodTakeUnconverted(o)) \/ (\E v \in pod.direct : SkipPullSecret(v)) \/ PodFails
  \/ TokenConverted(TRUE) \/ ConversionStops \/ ChangeDNS(FALSE)
  \/ EditImage \/ EditSelection \/ SeeAccounts \/ TokenController

(* The worker goes on; Go varies the order of a map, so that every order   *)
(* comes up again and again; informers deliver.                            *)
LeafPodFairness ==
  /\ WF_leafPodVars(LeafPodWorks) /\ WF_leafPodVars(SeeAccounts)
  /\ \A o \in Orders : SF_leafPodVars(PodTake(o))

LeafPodSpec == LeafPodInit /\ [][LeafPodNext]_leafPodVars /\ LeafPodFairness

-----------------------------------------------------------------------------
Mounts == {[kind |-> v.kind, name |-> v.name] : v \in {w \in leafPod.direct : w.kind # "pull"}}
            \union UNION {{leafPod.projected[i][j] : j \in DOMAIN leafPod.projected[i]} : i \in 1 .. leafPod.done}

(* Whatever a pod of the leaf cluster mounts was copied there before it,   *)
(* under the name it mounts (createVolumes before Create, the renamed root *)
(* certificate, the volumes projectedHandler came to), and a token it      *)
(* mounts as a secret stays there, unless it was stored with the root's    *)
(* uid.  The claims of one-way storage may come later than the pod.        *)
Mountable ==
  leafPod # NoLeafPod =>
    \A m \in {n \in Mounts : n.kind \notin {"downward", "oneway"}} :
      IF m.name = "token" THEN leafTok # "none" \/ spoilt
      ELSE m.name \in inLeaf

FollowsRoot ==
  /\ leafPod # NoLeafPod
  /\ leafPod.image = edit.image /\ leafPod.sel = edit.sel /\ ~leafPod.extra
  /\ ~podQ /\ job = IdleJob

(* The gaps the code leaves: a token secret that exists and is attached to *)
(* nothing stops every conversion; a pod created with a volume or its DNS  *)
(* unconverted, and edits that change more than the API server allows, are *)
(* refused for ever.                                                       *)
TokenStuck == rootTok /\ ~saRef
CreatedHalfway ==
  /\ leafPod # NoLeafPod
  /\ \/ leafPod.done < Len(leafPod.projected)
     \/ leafPod.dns = "first" /\ ~pod.mcs
UpdateRefused == leafPod # NoLeafPod /\ \A o \in Orders : ~Allowed(leafPod, GetUpdatedPod(leafPod, edit, o))

(* The leaf cluster ends up with the pod as the root has it, and with no   *)
(* more updates to write, whatever failed on the way and however often the *)
(* affinity came out in another order, except across the gaps.             *)
LeafSettles == <>[](FollowsRoot \/ TokenStuck \/ CreatedHalfway \/ UpdateRefused)
=============================================================================
