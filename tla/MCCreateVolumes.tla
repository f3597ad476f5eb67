--------------------------- MODULE MCCreateVolumes ---------------------------
(***************************************************************************)
(* Instances for TLC of the parts of a pod's creation in a leaf cluster:   *)
(* the goroutines of the volume step, the environment of a container, and  *)
(* the pod itself.  They share no state: one of them moves while the       *)
(* others are at rest.                                                     *)
(***************************************************************************)
EXTENDS CreateVolumes, PodEnvironment, LeafPod, Deploy

VolumesAtRest ==
  /\ pc = [k \in Kinds |-> "done"] /\ tries = [k \in Kinds |-> 0]
  /\ copied = Kinds /\ ch = <<>> /\ taken = <<>> /\ result = "nil"

-----------------------------------------------------------------------------
Sourced(o, p, opt) == [object |-> o, prefix |-> p, optional |-> opt]
Key(x, o, k, opt) == [name |-> x, kind |-> "key", object |-> o, key |-> k, optional |-> opt]
Field(x, p) == [name |-> x, kind |-> "field", path |-> p]
Resource(x) == [name |-> x, kind |-> "resource"]

(* Entries that override, refer to and escape one another. *)
Firsts ==
  {Entry("A", <<Text("a")>>), Entry("A", <<Ref("B")>>), Key("A", "cm", "A", FALSE), Key("A", "sec", "C", TRUE),
   Field("B", "spec.nodeName"), Field("A", "metadata.uid")}
Seconds ==
  {Entry("B", <<Ref("A"), Ref("kubernetes")>>), Entry("B", <<Escaped("A")>>), Entry("A", <<Text("b")>>),
   Key("B", "sec", "B", TRUE), Resource("B")}
MCContainers ==
  [from : {<<>>, <<Sourced("cm", "", TRUE), Sourced("sec", "", FALSE)>>, <<Sourced("sec", "P", TRUE), Sourced("cm", "", TRUE)>>},
   env : {<<>>} \union {<<e, f>> : e \in Firsts, f \in Seconds}, links : BOOLEAN]

Service(n, s, i) == [name |-> n, ns |-> s, ip |-> i]
Holding(s, o, v) == [site |-> s, objects |-> o, services |-> v]
Kubernetes == Service("kubernetes", "default", TRUE)
Cm == [A |-> <<Text("ca")>>]
Sec == [A |-> <<Text("sa")>>, B |-> <<Text("sb")>>, x |-> <<Text("bad")>>]
MCRootWorlds ==
  {Holding("root", [cm |-> Cm, sec |-> Sec], {Kubernetes, Service("kubernetes", "pod", TRUE)}),
   Holding("root", [cm |-> Cm], {Kubernetes, Service("A", "pod", TRUE), Service("B", "pod", FALSE)})}
MCLeafWorld == Holding("leaf", [cm |-> [A |-> <<Text("leaf")>>]], {Kubernetes, Service("B", "pod", TRUE)})

EnvAtRest ==
  /\ container = [from |-> <<>>, env |-> <<>>, links |-> TRUE]
  /\ world = Holding("root", Cm, {}) /\ unread = 0 /\ populated = "yes" /\ skipped = {} /\ leafEnv = <<>>

-----------------------------------------------------------------------------
Vol(k, n) == [kind |-> k, name |-> n]
ApiAccess == <<Vol("token", "token"), Vol("configmap", "root-ca"), Vol("downward", "d")>>
Bound == [scheduler |-> "kosmos", aff |-> [req |-> "root", pref |-> "root", pods |-> "nil"], aliases |-> "nil"]
Loose == [scheduler |-> "own", aff |-> NoAffinity, aliases |-> "own"]
Policy(c, m, cs) == [cluster |-> c, matches |-> m, converters |-> cs]
By(t, v) == [type |-> t, to |-> v]
RemoveAffinity == [aff |-> By("remove", NoAffinity)]

(* A pod as kubectl makes it; a part of a cluster and the default service  *)
(* account; policies of both scopes on a one to one node; a policy that    *)
(* takes away what the part of a cluster needs.                            *)
MCRootPods ==
  {[direct |-> {Vol("configmap", "root-ca"), Vol("secret", "s"), Vol("pull", "p")}, projected |-> <<ApiAccess>>,
    sa |-> "app", attached |-> FALSE, mode |-> "all", spec |-> Bound, policies |-> <<>>,
    dns |-> "first", mcs |-> FALSE, sel |-> 1],
   [direct |-> {}, projected |-> <<<<Vol("secret", "s")>>, ApiAccess>>,
    sa |-> "default", attached |-> FALSE, mode |-> "party", spec |-> Loose, policies |-> <<>>,
    dns |-> "first", mcs |-> TRUE, sel |-> 0],
   [direct |-> {}, projected |-> <<ApiAccess>>,
    sa |-> "app", attached |-> TRUE, mode |-> "node", spec |-> Bound,
    policies |-> <<Policy(FALSE, TRUE, RemoveAffinity), Policy(TRUE, FALSE, RemoveAffinity),
                   Policy(TRUE, TRUE, NoConverters),
                   Policy(TRUE, TRUE, [tol |-> By("add", {"p"}), spread |-> By("add", "policy"),
                                       scheduler |-> By("replace", "p")])>>,
    dns |-> "other", mcs |-> FALSE, sel |-> 2],
   [direct |-> {Vol("claim", "c"), Vol("oneway", "w")}, projected |-> <<>>,
    sa |-> "default", attached |-> TRUE, mode |-> "party", spec |-> Bound,
    policies |-> <<Policy(FALSE, TRUE, RemoveAffinity)>>,
    dns |-> "first", mcs |-> FALSE, sel |-> 0]}

PodPlan(i, s, f) == [image |-> i, select |-> s, fail |-> f]
MCPodPlans == {PodPlan(1, 1, 1), PodPlan(1, 0, 2)}

LeafPodAtRest ==
  /\ pod = [direct |-> {}, projected |-> <<>>, sa |-> "default", attached |-> FALSE, mode |-> "all", spec |-> Loose,
            policies |-> <<>>, dns |-> "other", mcs |-> FALSE, sel |-> 0]
  /\ edit = [image |-> 1, sel |-> 0]
  /\ rootTok = FALSE /\ saRef = FALSE /\ saSeen = FALSE
  /\ inLeaf = {} /\ leafTok = "none" /\ leafSa = "none" /\ leafSaSeen = FALSE
  /\ leafPod = [Build(NoConverters, "party") EXCEPT !.extra = FALSE]
  /\ podQ = FALSE /\ job = IdleJob /\ spoilt = FALSE /\ podPlan = PodPlan(0, 0, 0)

-----------------------------------------------------------------------------
DeployAtRest ==
  /\ objects = Nothing /\ crs = [c \in Members |-> NoCluster] /\ operator = Down /\ running = NoCommand
  /\ begun = {} /\ halted = {} /\ commands = 0 /\ callFaults = 0

(* Calls fail during an installation and when a joined member is unjoined. *)
Deploying ==
  /\ DeployInit
  /\ callFaults = IF objects[Host] # {} /\ objects["member"] = {} THEN 0 ELSE CallFaults

-----------------------------------------------------------------------------
MCInit ==
  \/ Init /\ EnvAtRest /\ LeafPodAtRest /\ DeployAtRest
  \/ EnvInit /\ VolumesAtRest /\ LeafPodAtRest /\ DeployAtRest
  \/ LeafPodInit /\ VolumesAtRest /\ EnvAtRest /\ DeployAtRest
  \/ Deploying /\ VolumesAtRest /\ EnvAtRest /\ LeafPodAtRest

MCNext ==
  \/ Next /\ UNCHANGED <<envVars, leafPodVars, deployVars>>
  \/ EnvNext /\ UNCHANGED <<vars, leafPodVars, deployVars>>
  \/ LeafPodNext /\ UNCHANGED <<vars, envVars, deployVars>>
  \/ DeployNext /\ UNCHANGED <<vars, envVars, leafPodVars>>

MCSpec ==
  /\ MCInit /\ [][MCNext]_<<vars, envVars, leafPodVars, deployVars>>
  /\ Fairness /\ LeafPodFairness /\ DeployFairness
=============================================================================
