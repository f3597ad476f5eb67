----------------------------- MODULE Scheduler -----------------------------
(***************************************************************************)
(* The scheduler plugins of Kosmos: the distribution policies, the         *)
(* toleration of the leaf taint and the binding of volumes, through one    *)
(* scheduling cycle at a time (PreFilter, Filter, Reserve) and binding     *)
(* goroutines that run beside it (PreBind, Bind, Unreserve).  The binder,  *)
(* the volume controller and the leaf clusters are external.               *)
(***************************************************************************)
EXTENDS Integers, FiniteSets, Sequences, SequencesExt, TLC

CONSTANTS SchedPods, Nodes, Claims, Pvs, NoOne,
          Setups    (* worlds: pods, nodes, claims, pvs, policies, edits *)

(* A volume made for a claim is named after the claim. *)
Volumes == Pvs \union Claims

VARIABLES
  setup,      (* what does not change: pods and classes; edits still to come *)
  nodes,      (* lister of nodes: NoOne or [mode, owner, taints, labels]      *)
  policies,   (* listers of policies: [ns, cluster], sets of policies         *)
  claims,     (* claims: [st, pv, owner, now, ending]                         *)
  pvs,        (* the volumes that exist: [claim, owner, aff, size]            *)
  assumed,    (* the binder's cache: claim a volume is assumed for            *)
  placed,     (* per pod: node it is bound to, or where the scheduler has it  *)
  cycle,      (* the scheduling cycle: CycleState and what Filter found       *)
  binding,    (* per pod: its binding goroutine                               *)
  leaked      (* volumes that Unreserve left assumed                          *)

schedVars == <<setup, nodes, policies, claims, pvs, assumed, placed, cycle, binding, leaked>>

Queue == {"queued", "backoff", "busy"}
Modes == {"real", "one2cluster", "one2one"}
Edits == {"node", "policy", "claim", "fail"}

ASSUME NodesAssumption == Nodes \intersect Queue = {} /\ NoOne \notin Claims

(* The shapes of nodes, claims, volumes and setups. *)
IsNode(r) ==
  r = [mode |-> r.mode, owner |-> r.owner, taints |-> r.taints, labels |-> r.labels] /\ r.mode \in Modes
IsClaim(r) == r = [st |-> r.st, pv |-> r.pv, owner |-> r.owner, now |-> r.now, ending |-> r.ending]
IsPv(r) == r = [claim |-> r.claim, owner |-> r.owner, aff |-> r.aff, size |-> r.size]
IsSetup(r) ==
  /\ r = [pods |-> r.pods, class |-> r.class, size |-> r.size, maker |-> r.maker, local |-> r.local,
          later |-> r.later, edits |-> r.edits]
  /\ \A p \in SchedPods : r.pods[p].claims \subseteq Claims
  /\ r.edits \in [Edits -> Nat]

(* Volumes and claims agree, as the API server has them: a bound claim has *)
(* its volume, which names the claim; a volume of a leaf cluster names a   *)
(* claim with an owner; the volume named after a claim was made for it.    *)
Agree(cl, pv) ==
  /\ cl = [c \in Claims |-> cl[c]] /\ \A c \in Claims : IsClaim(cl[c])
  /\ pv = [v \in DOMAIN pv |-> pv[v]] /\ \A v \in DOMAIN pv : IsPv(pv[v])
  /\ \A c \in Claims : cl[c].st = "bound" => cl[c].pv \in DOMAIN pv /\ pv[cl[c].pv].claim = c
  /\ \A v \in DOMAIN pv : pv[v].owner # {} => pv[v].claim \in Claims /\ cl[pv[v].claim].owner # {}
  /\ \A c \in Claims : c \in DOMAIN pv => cl[c].st \in {"bound", "lost"}
NodesOk(ns) == ns = [n \in Nodes |-> ns[n]] /\ \A n \in Nodes : ns[n] # NoOne => IsNode(ns[n])

ASSUME SetupsAssumption ==
  \A s \in Setups :
    /\ \A p \in SchedPods : s.pods[p].claims \subseteq Claims
    /\ s.edits \in [Edits -> Nat]
    /\ NodesOk(s.nodes) /\ Agree(s.claims, s.pvs)

-----------------------------------------------------------------------------
(* Distribution policies.                                                  *)

(* mapContains: one equal label is enough. *)
MapContains(in, out) == in \intersect out # {}

(* What of a selector matches the pod: labels 1, name prefix 2, name 3. *)
Ranks(p, sel) ==
  {r \in 1..3 : \/ r = 1 /\ MapContains(sel.labels, setup.pods[p].labels)
                \/ r = 2 /\ sel.prefix \in setup.pods[p].prefixes
                \/ r = 3 /\ sel.name = p}

MixTerm == [type |-> "mix", node |-> NoOne, selector |-> NoOne]

(* matchDistributionPolicy, matchClusterDistributionPolicy and the search  *)
(* of the term: the last selector of the highest rank names the term.      *)
TermOf(p, d) ==
  LET hits == UNION {{<<r, i>> : r \in Ranks(p, d.selectors[i])} : i \in DOMAIN d.selectors}
      best == CHOOSE h \in hits : \A g \in hits : g[1] < h[1] \/ (g[1] = h[1] /\ g[2] <= h[2])
      name == d.selectors[best[2]].policy
  IN  IF hits = {} THEN NoOne
      ELSE IF name \in DOMAIN d.terms THEN d.terms[name] ELSE MixTerm

(* Each policy of a list overwrites what the one before gave, and the list *)
(* has no order: the result is that of any of them, matching or not.       *)
LastOf(p, ds) == IF ds = {} THEN {NoOne} ELSE {TermOf(p, d) : d \in ds}

(* isDaemonSetPod: such a pod has its node already and is let through. *)
IsDaemonSetPod(p) == setup.pods[p].daemon

(* Seeded fault: cluster policies are looked at before the namespace's. *)
TermsSwapped(p) ==
  LET cl == LastOf(p, policies.cluster)
  IN  IF IsDaemonSetPod(p) THEN {NoOne} ELSE (cl \ {NoOne}) \union (IF NoOne \in cl THEN LastOf(p, policies.ns) ELSE {})

(* Filter of leafnodedistribution, up to the node type. *)
Terms(p) ==
  LET ns == LastOf(p, policies.ns)
  IN  IF IsDaemonSetPod(p) THEN {NoOne} ELSE (ns \ {NoOne}) \union (IF NoOne \in ns THEN LastOf(p, policies.cluster) ELSE {})

(* isToleration computes whether a toleration fits and returns false. *)
IsToleration(n, term) == FALSE

(* Filter of leafnodedistribution, the switch on the node type. *)
Admits(term, n, node) ==
  \/ term = NoOne \/ term.type = "mix"
  \/ term.type = "host" /\ node.mode = "real"
  \/ term.type = "leaf" /\ node.mode # "real"
  \/ /\ term.type = "adv"
     /\ \/ term.node = n
        \/ term.selector # NoOne /\ term.selector \subseteq node.labels
        \/ IsToleration(n, term)

(* TaintToleration.Filter: every pod tolerates the leaf taint. *)
HasLeafTaint(node) == "leaf" \in node.taints
Tolerates(p, node) == node.taints \subseteq setup.pods[p].tolerations \union {"leaf"}

-----------------------------------------------------------------------------
(* Volumes.                                                                *)

Sizes(cs) == SetToSortSeq(cs, LAMBDA c, d : setup.size[c] < setup.size[d])

(* CheckNodeAffinity of kubernetes: no affinity fits every node, and a     *)
(* claim that does not wait for a pod has no node.                         *)
Reaches(v, n) == pvs[v].aff = NoOne \/ n = NoOne \/ n \in pvs[v].aff

(* FindMatchingVolume: the smallest free volume of the class that reaches  *)
(* the node.                                                               *)
Candidates(c, n, free) ==
  {v \in free \intersect DOMAIN pvs :
     pvs[v].claim \in {NoOne, c} /\ pvs[v].size >= setup.size[c] /\ Reaches(v, n)}

(* findMatchingVolumes: claims by size, each volume used once. *)
FindMatchingVolumes(cs, n, free) ==
  FoldLeft(LAMBDA found, c :
             LET cand == Candidates(c, n, free \ {found[d] : d \in DOMAIN found})
             IN  IF cand = {} THEN found
                 ELSE found @@ (c :> CHOOSE v \in cand : \A w \in cand : pvs[v].size <= pvs[w].size),
           <<>>, Sizes(cs))

(* checkVolumeProvisions for one claim. *)
Provision(c, node) ==
  CASE setup.class[c] \in {"none", "gone"} -> "error"
    [] setup.class[c] = "static" -> "conflict"
    [] setup.class[c] = "zoned" /\ "zone" \notin node.labels -> "conflict"
    [] OTHER -> "fits"

(* checkVolumeProvisions: the first claim that cannot be provisioned       *)
(* decides; any may come first.                                            *)
CheckVolumeProvisions(cs, node) ==
  LET bad == {Provision(c, node) : c \in cs} \ {"fits"}
  IN  IF bad = {} THEN {"fits"} ELSE bad

(* checkKosmosResourceOwner; CheckNodeAffinity of Kosmos wants one. *)
CheckKosmosResourceOwner(v, n, node) ==
  IF pvs[v].owner = {} THEN pvs[v].aff # NoOne /\ n \in pvs[v].aff
  ELSE pvs[v].owner = {node.owner}

(* checkBoundClaims *)
CheckBoundClaims(cs, n, node) ==
  \A c \in cs : /\ cycle.claims[c].pv \in DOMAIN pvs
                /\ CheckKosmosResourceOwner(cycle.claims[c].pv, n, node)

(* Seeded fault: claims with no matching volume are a conflict, although   *)
(* they can be provisioned.                                                *)
FindPodKosmosVolumesMatched(n, node) ==
  LET owned == {c \in cycle.toBind : cycle.claims[c].owner # {}}
      found == FindMatchingVolumes(cycle.toBind \ owned, n, Volumes)
  IN  IF \/ \E c \in owned : cycle.claims[c].owner # {node.owner}
         \/ DOMAIN found # cycle.toBind \ owned \/ ~CheckBoundClaims(cycle.bound, n, node)
      THEN {"conflict"} ELSE CheckVolumeProvisions(owned, node)

(* FindPodKosmosVolumes: the plugin's own cache never has a volume assumed, *)
(* and what is found is not kept.                                           *)
FindPodKosmosVolumes(n, node) ==
  LET owned == {c \in cycle.toBind : cycle.claims[c].owner # {}}
      found == FindMatchingVolumes(cycle.toBind \ owned, n, Volumes)
      provided == CheckVolumeProvisions(owned \union ((cycle.toBind \ owned) \ DOMAIN found), node)
  IN  IF \E c \in owned : cycle.claims[c].owner # {node.owner} THEN {"conflict"}
      ELSE {IF r = "fits" /\ ~CheckBoundClaims(cycle.bound, n, node) THEN "conflict" ELSE r : r \in provided}

(* Binder.FindPodVolumes of kubernetes: results, and the volumes it found. *)
Unassumed == {v \in Volumes : assumed[v] = NoOne}
FoundVolumes(n) == FindMatchingVolumes(cycle.toBind, n, Unassumed)
FindPodVolumes(n, node) ==
  {IF r = "fits" /\ \E c \in cycle.bound : cycle.claims[c].pv \notin DOMAIN pvs \/ ~Reaches(cycle.claims[c].pv, n)
   THEN "conflict" ELSE r :
     r \in CheckVolumeProvisions(cycle.toBind \ DOMAIN FoundVolumes(n), node)}

(* hasKosmosOwnerPVC *)
HasKosmosOwnerPVC == \E c \in cycle.bound \union cycle.toBind : cycle.claims[c].owner # {}

(* VolumeBinding.Filter: results, and whether the volumes are stored. *)
One2One(node) == node.mode = "one2one"
VolumeResults(n, node) ==
  IF cycle.skip THEN {"fits"}
  ELSE IF node.mode = "one2cluster" THEN FindPodKosmosVolumes(n, node)
  ELSE IF One2One(node) /\ cycle.bound = {} THEN {"fits"}
  ELSE IF node.mode = "real" /\ HasKosmosOwnerPVC THEN {"conflict"}
  ELSE FindPodVolumes(n, node)
Stores(node) ==
  ~cycle.skip /\ (node.mode = "real" \/ (One2One(node) /\ cycle.bound # {}))

-----------------------------------------------------------------------------
(* The scheduling cycle.                                                   *)

NoCycle == [pod |-> NoOne]
NoVolumes == [static |-> <<>>, dynamic |-> {}]
NoBinding == [pc |-> "none"]

EnvUnchanged == UNCHANGED <<setup, nodes, policies, claims, pvs>>

(* podHasPVCs: the claims that make the pod unschedulable. *)
Illegal(p) ==
  \E c \in setup.pods[p].claims :
    \/ claims[c].st \in {"absent", "lost"} \/ claims[c].ending
    \/ c \in setup.pods[p].ephemeral /\ setup.maker[c] # p

(* PreFilter: the pod waits, or the state of the cycle is written. *)
Refused(p) ==
  \/ Illegal(p)
  \/ \E c \in setup.pods[p].claims : claims[c].st = "unbound" /\ claims[c].now
PreFilter(p) ==
  /\ cycle = NoCycle /\ placed[p] = "queued"
  /\ LET cs == setup.pods[p].claims
         bound == {c \in cs : claims[c].st = "bound"}
     IN  IF Refused(p) THEN placed' = [placed EXCEPT ![p] = "backoff"] /\ UNCHANGED cycle
         ELSE /\ placed' = [placed EXCEPT ![p] = "busy"]
              /\ cycle' = [pod |-> p, nodes |-> nodes, claims |-> claims, skip |-> cs = {},
                           bound |-> bound, toBind |-> cs \ bound, left |-> setup.edits,
                           volumes |-> <<>>, seen |-> {}, fit |-> {}]
  /\ UNCHANGED <<assumed, binding, leaked>> /\ EnvUnchanged

(* The Filter of the three plugins for one node of the snapshot, in one of *)
(* the goroutines of the cycle.  An error ends the cycle.                  *)
Filter(n) ==
  /\ cycle # NoCycle /\ n \notin cycle.seen /\ cycle.nodes[n] # NoOne
  /\ LET p == cycle.pod
         node == cycle.nodes[n]
     IN \E term \in Terms(p), r \in VolumeResults(n, node) :
          LET fits == Admits(term, n, node) /\ Tolerates(p, node)
          IN  IF fits /\ r = "error"
              THEN cycle' = NoCycle /\ placed' = [placed EXCEPT ![p] = "backoff"]
              ELSE /\ cycle' = [cycle EXCEPT !.seen = @ \union {n},
                        !.fit = IF fits /\ r = "fits" THEN @ \union {n} ELSE @,
                        !.volumes = IF fits /\ r = "fits" /\ Stores(node)
                          THEN @ @@ (n :> [static |-> FoundVolumes(n),
                                           dynamic |-> cycle.toBind \ DOMAIN FoundVolumes(n)]) ELSE @]
                   /\ UNCHANGED placed
  /\ UNCHANGED <<assumed, binding, leaked>> /\ EnvUnchanged

Filtered == cycle # NoCycle /\ \A n \in Nodes : cycle.nodes[n] # NoOne => n \in cycle.seen

(* No node is left: the pod waits. *)
NoFit ==
  /\ Filtered /\ cycle.fit = {}
  /\ placed' = [placed EXCEPT ![cycle.pod] = "backoff"]
  /\ cycle' = NoCycle
  /\ UNCHANGED <<assumed, binding, leaked>> /\ EnvUnchanged

(* AssumePodVolumes fails when a volume was taken since. *)
Taken(static) == \E c \in DOMAIN static : static[c] \notin DOMAIN pvs \/ pvs[static[c]].claim \notin {NoOne, c}
Assume(static) ==
  [v \in Volumes |-> IF \E c \in DOMAIN static : static[c] = v
                     THEN CHOOSE c \in DOMAIN static : static[c] = v ELSE assumed[v]]

(* Reserve: by the lister, not by the snapshot. *)
Reserve(n) ==
  /\ Filtered /\ n \in cycle.fit
  /\ LET p == cycle.pod
         has == n \in DOMAIN cycle.volumes
         vs == IF has THEN cycle.volumes[n] ELSE NoVolumes
         leaf == nodes[n] # NoOne /\ HasLeafTaint(nodes[n])
         fails == nodes[n] = NoOne \/ (~leaf /\ has /\ Taken(vs.static))
     IN  /\ assumed' = IF fails \/ leaf THEN assumed ELSE Assume(vs.static)
         /\ binding' = [binding EXCEPT ![p] =
              [node |-> n, has |-> has, volumes |-> vs, pc |-> IF fails THEN "unreserve" ELSE "prebind",
               allBound |-> ~leaf /\ vs = NoVolumes, bound |-> cycle.bound, left |-> cycle.left,
               claims |-> cycle.claims]]
  /\ cycle' = NoCycle
  /\ UNCHANGED <<placed, leaked>> /\ EnvUnchanged

-----------------------------------------------------------------------------
(* The binding goroutine of a pod.                                         *)

Goto(p, pc) == binding' = [binding EXCEPT ![p].pc = pc]
At(p, pc) == binding[p].pc = pc

(* PreBind: nothing for a leaf node or bound claims, else BindPodVolumes   *)
(* writes the volumes.                                                     *)
PreBind(p) ==
  /\ At(p, "prebind")
  /\ LET b == binding[p]
         node == nodes[b.node]
         static == b.volumes.static
     IN  IF node # NoOne /\ (HasLeafTaint(node) \/ b.allBound) THEN Goto(p, "bind") /\ UNCHANGED pvs
         ELSE IF node = NoOne \/ ~b.has \/ Taken(static) THEN Goto(p, "unreserve") /\ UNCHANGED pvs
         ELSE /\ pvs' = [v \in DOMAIN pvs |-> IF \E c \in DOMAIN static : static[c] = v
                           THEN [pvs[v] EXCEPT !.claim = CHOOSE c \in DOMAIN static : static[c] = v] ELSE pvs[v]]
              /\ Goto(p, "wait")
  /\ UNCHANGED <<setup, nodes, policies, claims, assumed, placed, cycle, leaked>>

(* BindPodVolumes waits for the claims, up to a time-out. *)
PodClaims(p) == DOMAIN binding[p].volumes.static \union binding[p].volumes.dynamic
Waited(p) ==
  /\ At(p, "wait")
  /\ \A c \in PodClaims(p) : claims[c].st = "bound"
  /\ Goto(p, "bind")
  /\ UNCHANGED <<assumed, placed, cycle, leaked>> /\ EnvUnchanged
BindFails(p) ==
  /\ At(p, "wait") \/ At(p, "bind")
  /\ setup.edits.fail > 0
  /\ setup' = [setup EXCEPT !.edits.fail = @ - 1]
  /\ Goto(p, "unreserve")
  /\ UNCHANGED <<nodes, policies, claims, pvs, assumed, placed, cycle, leaked>>

(* The default binder writes the node into the pod.  A volume that was     *)
(* written is no longer only assumed; PreBind may have passed over it.     *)
Held(p) == {v \in Volumes : assumed[v] \in DOMAIN binding[p].volumes.static}
Written(v) == v \in DOMAIN pvs /\ pvs[v].claim = assumed[v]
Bind(p) ==
  /\ At(p, "bind")
  /\ placed' = [placed EXCEPT ![p] = binding[p].node]
  /\ assumed' = [v \in Volumes |-> IF v \in Held(p) /\ Written(v) THEN NoOne ELSE assumed[v]]
  /\ leaked' = leaked \union {v \in Held(p) : ~Written(v)}
  /\ binding' = [binding EXCEPT ![p] = NoBinding]
  /\ UNCHANGED cycle /\ EnvUnchanged

(* Unreserve: by the lister again; a node that is gone, or a leaf node by  *)
(* now, leaves the cache as it is.                                         *)
Reverts(p) == LET node == nodes[binding[p].node]
              IN  node # NoOne /\ ~HasLeafTaint(node) /\ binding[p].has

(* Seeded fault: the volumes are left assumed. *)
UnreserveNot(p) ==
  /\ At(p, "unreserve")
  /\ leaked' = IF Reverts(p) THEN leaked ELSE leaked \union Held(p)
  /\ binding' = [binding EXCEPT ![p] = NoBinding]
  /\ placed' = [placed EXCEPT ![p] = "backoff"]
  /\ UNCHANGED <<assumed, cycle>> /\ EnvUnchanged

Unreserve(p) ==
  /\ At(p, "unreserve")
  /\ assumed' = [v \in Volumes |-> IF v \in Held(p) /\ Reverts(p) THEN NoOne ELSE assumed[v]]
  /\ leaked' = IF Reverts(p) THEN leaked ELSE leaked \union Held(p)
  /\ binding' = [binding EXCEPT ![p] = NoBinding]
  /\ placed' = [placed EXCEPT ![p] = "backoff"]
  /\ UNCHANGED cycle /\ EnvUnchanged

-----------------------------------------------------------------------------
(* The environment.                                                        *)

SchedUnchanged == UNCHANGED <<assumed, cycle, binding, leaked>>

(* The queue tries again, after an event or after some minutes. *)
TryAgain(p) ==
  /\ placed[p] = "backoff"
  /\ placed' = [placed EXCEPT ![p] = "queued"]
  /\ SchedUnchanged /\ EnvUnchanged

SetBound(c, v) ==
  /\ claims' = [claims EXCEPT ![c].st = "bound", ![c].pv = v]
  /\ pvs' = [pvs EXCEPT ![v].claim = c]
  /\ UNCHANGED <<setup, nodes, policies, placed>> /\ SchedUnchanged

(* The volume controller: completes what PreBind began, and binds claims   *)
(* that do not wait for a pod, with no regard to what is assumed.          *)
VolumeController(c) ==
  /\ claims[c].st = "unbound"
  /\ \E v \in DOMAIN pvs : /\ pvs[v].claim = c \/ (claims[c].now /\ v \in Candidates(c, NoOne, Volumes))
                           /\ SetBound(c, v)

MakeVolume(c, owner, aff) ==
  /\ claims' = [claims EXCEPT ![c].st = "bound", ![c].pv = c]
  /\ pvs' = [v \in DOMAIN pvs \union {c} |->
               IF v = c THEN [claim |-> c, owner |-> owner, aff |-> aff, size |-> setup.size[c]] ELSE pvs[v]]
  /\ UNCHANGED <<setup, nodes, policies, placed>> /\ SchedUnchanged

(* The provisioner of the root cluster. *)
Provisioner(p) ==
  \E c \in Claims : /\ At(p, "wait") /\ c \in binding[p].volumes.dynamic /\ claims[c].st = "unbound"
                    /\ MakeVolume(c, {}, {binding[p].node})

(* A leaf cluster with a pod: the claim is marked with the cluster when it *)
(* is copied, and its volume comes back from there.                        *)
LeafMarks(p) ==
  \E c \in setup.pods[p].claims :
    /\ placed[p] \in Nodes /\ nodes[placed[p]] # NoOne /\ nodes[placed[p]].mode # "real"
    /\ claims[c].st = "unbound" /\ nodes[placed[p]].owner \notin claims[c].owner
    /\ claims' = [claims EXCEPT ![c].owner = @ \union {nodes[placed[p]].owner}]
    /\ UNCHANGED <<setup, nodes, policies, pvs, placed>> /\ SchedUnchanged
LeafProvisions(p) ==
  \E c \in setup.pods[p].claims :
    /\ placed[p] \in Nodes /\ nodes[placed[p]] # NoOne
    /\ claims[c].st = "unbound" /\ nodes[placed[p]].owner \in claims[c].owner
    /\ MakeVolume(c, {nodes[placed[p]].owner}, IF setup.local THEN {placed[p]} ELSE NoOne)

Edit(e) == setup.edits[e] > 0 /\ setup' = [setup EXCEPT !.edits[e] = @ - 1]
NodeGoes(n) ==
  /\ Edit("node") /\ nodes[n] # NoOne
  /\ nodes' = [nodes EXCEPT ![n] = NoOne]
  /\ UNCHANGED <<policies, claims, pvs, placed>> /\ SchedUnchanged
NodeTainted(n) ==
  /\ Edit("node") /\ nodes[n] # NoOne
  /\ nodes' = [nodes EXCEPT ![n].taints = IF "leaf" \in @ THEN @ \ {"leaf"} ELSE @ \union {"leaf"}]
  /\ UNCHANGED <<policies, claims, pvs, placed>> /\ SchedUnchanged
PolicyChanges ==
  /\ Edit("policy")
  /\ policies' = setup.later
  /\ UNCHANGED <<nodes, claims, pvs, placed>> /\ SchedUnchanged
ClaimChanges(c) ==
  /\ Edit("claim")
  /\ \/ claims[c].st = "absent" /\ claims' = [claims EXCEPT ![c].st = "unbound"] /\ UNCHANGED pvs
     \/ ~claims[c].ending /\ claims' = [claims EXCEPT ![c].ending = TRUE] /\ UNCHANGED pvs
     \/ /\ claims[c].st = "bound"
        /\ claims' = [claims EXCEPT ![c].st = "lost"]
        /\ pvs' = Restrict(pvs, DOMAIN pvs \ {claims[c].pv})
  /\ UNCHANGED <<nodes, policies, placed>> /\ SchedUnchanged

-----------------------------------------------------------------------------
SchedInit ==
  \E s \in Setups :
    /\ setup = [pods |-> s.pods, class |-> s.class, size |-> s.size, maker |-> s.maker,
                local |-> s.local, later |-> s.later, edits |-> s.edits]
    /\ nodes = s.nodes /\ policies = s.policies /\ claims = s.claims /\ pvs = s.pvs
    /\ assumed = [v \in Volumes |-> NoOne]
    /\ placed = [p \in SchedPods |-> "queued"]
    /\ cycle = NoCycle /\ binding = [p \in SchedPods |-> NoBinding] /\ leaked = {}

SchedNext ==
  \/ \E p \in SchedPods :
       \/ PreFilter(p) \/ PreBind(p) \/ Waited(p) \/ BindFails(p) \/ Bind(p) \/ Unreserve(p)
       \/ TryAgain(p) \/ Provisioner(p) \/ LeafMarks(p) \/ LeafProvisions(p)
  \/ \E n \in Nodes : Filter(n) \/ Reserve(n) \/ NodeGoes(n) \/ NodeTainted(n)
  \/ NoFit \/ PolicyChanges
  \/ \E c \in Claims : VolumeController(c) \/ ClaimChanges(c)

(* The scheduler goes on with what it has begun and takes every pod of the *)
(* queue again; the controllers of volumes and the leaf clusters work.     *)
SchedFairness ==
  /\ WF_schedVars(NoFit) /\ WF_schedVars(\E n \in Nodes : Filter(n)) /\ WF_schedVars(\E n \in Nodes : Reserve(n))
  /\ \A p \in SchedPods :
       /\ SF_schedVars(PreFilter(p)) /\ WF_schedVars(TryAgain(p))
       /\ WF_schedVars(PreBind(p)) /\ WF_schedVars(Waited(p) \/ Provisioner(p))
       /\ WF_schedVars(Bind(p)) /\ WF_schedVars(Unreserve(p))
       /\ WF_schedVars(LeafMarks(p)) /\ WF_schedVars(LeafProvisions(p))
  /\ \A c \in Claims : WF_schedVars(VolumeController(c))

SchedSpec == SchedInit /\ [][SchedNext]_schedVars /\ SchedFairness

-----------------------------------------------------------------------------
(* A volume is assumed only while a binding goroutine can still write or   *)
(* revert it, or because the node went, or became a leaf node, between the *)
(* steps that looked at it: nothing else is kept from the pods to come.    *)
AssumedAccounted ==
  \A v \in Volumes : assumed[v] # NoOne =>
    \/ v \in leaked
    \/ \E p \in SchedPods : binding[p] # NoBinding /\ assumed[v] \in DOMAIN binding[p].volumes.static

(* The term the policies mean, where no list has two that hide each other. *)
Unambiguous ==
  (\A d, e \in policies.ns : d = e) /\ \A d, e \in policies.cluster : d = e
Meant(p) ==
  LET own == {TermOf(p, d) : d \in policies.ns} \ {NoOne}
      all == {TermOf(p, d) : d \in policies.cluster} \ {NoOne}
  IN  IF IsDaemonSetPod(p) THEN MixTerm
      ELSE IF own # {} THEN CHOOSE term \in own : TRUE
      ELSE IF all # {} THEN CHOOSE term \in all : TRUE ELSE MixTerm

(* The volume is in the node's own cluster, or names the node itself; on   *)
(* one to one nodes a volume without affinity is not looked at.            *)
InReach(v, n, node) ==
  \/ pvs[v].owner = {} /\ Reaches(v, n)
  \/ pvs[v].owner = (IF node.mode = "real" THEN {} ELSE {node.owner})
  \/ One2One(node) /\ Reaches(v, n)

(* A pod that is bound while nothing is edited lands on a node that its    *)
(* distribution policy and its tolerations allow, and from which every     *)
(* volume its claims had when its cycle began can be reached, whatever the *)
(* other pods, the volume controllers and the leaf clusters did meanwhile. *)
LandsRight ==
  [][\A p \in SchedPods :
       placed'[p] # placed[p] /\ placed'[p] \in Nodes /\ binding[p].left = setup.edits =>
         LET n == placed'[p] IN
         /\ Unambiguous => Admits(Meant(p), n, nodes[n])
         /\ Tolerates(p, nodes[n])
         /\ \A c \in binding[p].bound : InReach(binding[p].claims[c].pv, n, nodes[n])]_schedVars

(* Every filter admits the node, whichever policy comes last, and the      *)
(* volumes the pod needs are bound within reach or can be made there.      *)
CanTake(n, p) ==
  /\ nodes[n] # NoOne /\ Tolerates(p, nodes[n])
  /\ \A term \in Terms(p) : Admits(term, n, nodes[n])
  /\ ~Refused(p)
  /\ LET home == IF nodes[n].mode = "real" THEN {} ELSE {nodes[n].owner}
     IN \A c \in setup.pods[p].claims :
          IF claims[c].st = "bound"
          THEN claims[c].owner = home /\ pvs[claims[c].pv].owner = home /\ Reaches(claims[c].pv, n)
          ELSE claims[c].owner \in {{}, home} /\ Provision(c, nodes[n]) = "fits"

(* A pod that some node can take is not left waiting for ever, although    *)
(* cycles fail, bindings time out and volumes are taken by others.         *)
AllPlaced ==
  \A p \in SchedPods : <>[](placed[p] \in Nodes \/ \A n \in Nodes : ~CanTake(n, p))
=============================================================================
