----------------------------- MODULE SchedulerProofs -----------------------------
(***************************************************************************)
(* Proofs about Scheduler: no volume stays assumed in the binder's cache   *)
(* without a binding goroutine that answers for it, and a pod lands where  *)
(* its policies, its tolerations and its volumes allow.  And about the     *)
(* virtual nodes it schedules to (NodeStatus): none of them loses its      *)
(* condition before the thresholds of the two loops are over.              *)
(***************************************************************************)
EXTENDS Scheduler, NodeStatus, TLAPS

(* The shapes of a binding and of a scheduling cycle under way. *)
IsBinding(b) ==
  /\ b = [node |-> b.node, has |-> b.has, volumes |-> b.volumes, pc |-> b.pc, allBound |-> b.allBound,
          bound |-> b.bound, left |-> b.left, claims |-> b.claims]
  /\ b.pc # "none"
IsCycle(s) ==
  s = [pod |-> s.pod, nodes |-> s.nodes, claims |-> s.claims, skip |-> s.skip, bound |-> s.bound,
       toBind |-> s.toBind, left |-> s.left, volumes |-> s.volumes, seen |-> s.seen, fit |-> s.fit]

(* A pod is out of the queue while it is in the cycle or being bound, and  *)
(* never both at once: a binding that is not over is not forgotten.        *)
OneAtATime ==
  /\ binding = [p \in SchedPods |-> binding[p]] /\ placed = [p \in SchedPods |-> placed[p]]
  /\ \A p \in SchedPods : binding[p] # NoBinding => IsBinding(binding[p]) /\ placed[p] = "busy"
  /\ cycle # NoCycle =>
       /\ IsCycle(cycle) /\ cycle.pod \in SchedPods
       /\ placed[cycle.pod] = "busy" /\ binding[cycle.pod] = NoBinding

(* What is known of a claim that was bound when the cycle began, and of a  *)
(* node that every filter let through.                                     *)
Stands(pv, cl) == cl.pv \in DOMAIN pv /\ (pv[cl.pv].owner # {} => cl.owner # {})
Right(p, n, cs, cl) ==
  /\ Unambiguous => Admits(Meant(p), n, nodes[n])
  /\ Tolerates(p, nodes[n])
  /\ \A c \in cs : cl[c].pv \in DOMAIN pvs /\ InReach(cl[c].pv, n, nodes[n])

(* The edits that were left at some time, seen from now. *)
Past(edits, left) == left \in [Edits -> Nat] /\ \A e \in Edits : edits[e] <= left[e]

(* The inductive invariant behind LandsRight: volumes and claims agree,    *)
(* and as long as nothing is edited, the snapshot of the cycle is true,    *)
(* and the nodes that were let through are right ones.                     *)
World == IsSetup(setup) /\ NodesOk(nodes) /\ Agree(claims, pvs)
CycleRight ==
  cycle # NoCycle =>
    /\ Past(setup.edits, cycle.left) /\ (cycle.skip => cycle.bound = {})
    /\ cycle.left = setup.edits =>
         /\ cycle.nodes = nodes
         /\ \A c \in cycle.bound : Stands(pvs, cycle.claims[c])
         /\ \A p \in {cycle.pod}, cs \in {cycle.bound}, cl \in {cycle.claims} :
              \A n \in cycle.fit : Right(p, n, cs, cl)
BindingRight ==
  \A p \in SchedPods : binding[p] # NoBinding =>
    /\ Past(setup.edits, binding[p].left)
    /\ binding[p].left = setup.edits =>
         \A n \in {binding[p].node}, cs \in {binding[p].bound}, cl \in {binding[p].claims} : Right(p, n, cs, cl)

(* At the start every pod is queued and nothing is under way.              *)
LEMMA InitOne == SchedInit => OneAtATime
<1> QED
  BY DEF SchedInit, OneAtATime

(* A step of the cluster, which touches neither the scheduler's state nor  *)
(* what it has done.                                                       *)
ClusterStep ==
  \/ \E p \in SchedPods : Provisioner(p) \/ LeafMarks(p) \/ LeafProvisions(p)
  \/ \E n \in Nodes : NodeGoes(n) \/ NodeTainted(n)
  \/ PolicyChanges
  \/ \E c \in Claims : VolumeController(c) \/ ClaimChanges(c)

(* The scheduler's state is its own.                                       *)
LEMMA ClusterStepKeeps == ClusterStep => UNCHANGED <<assumed, cycle, binding, leaked, placed>>
<1> SUFFICES ASSUME ClusterStep PROVE UNCHANGED <<assumed, cycle, binding, leaked, placed>>
  OBVIOUS
<1>1. ASSUME NEW c, NEW owner, NEW aff, MakeVolume(c, owner, aff)
      PROVE  UNCHANGED <<assumed, cycle, binding, leaked, placed>>
  BY <1>1 DEF MakeVolume, SchedUnchanged
<1>2. ASSUME NEW p \in SchedPods, Provisioner(p) \/ LeafMarks(p) \/ LeafProvisions(p)
      PROVE  UNCHANGED <<assumed, cycle, binding, leaked, placed>>
  BY <1>1, <1>2 DEF Provisioner, LeafMarks, LeafProvisions, SchedUnchanged
<1>3. ASSUME NEW n \in Nodes, NodeGoes(n) \/ NodeTainted(n)
      PROVE  UNCHANGED <<assumed, cycle, binding, leaked, placed>>
  BY <1>3 DEF NodeGoes, NodeTainted, SchedUnchanged
<1>4. ASSUME NEW c \in Claims, VolumeController(c) \/ ClaimChanges(c)
      PROVE  UNCHANGED <<assumed, cycle, binding, leaked, placed>>
  BY <1>4 DEF VolumeController, SetBound, ClaimChanges, SchedUnchanged
<1>5. ASSUME PolicyChanges PROVE UNCHANGED <<assumed, cycle, binding, leaked, placed>>
  BY <1>5 DEF PolicyChanges, SchedUnchanged
<1> QED
  BY <1>2, <1>3, <1>4, <1>5 DEF ClusterStep

(* Going on in the binding goroutine changes nothing but its place.        *)
LEMMA GotoKeeps ==
  ASSUME OneAtATime, NEW p \in SchedPods, NEW pc, pc # "none", binding[p] # NoBinding, Goto(p, pc)
  PROVE  /\ binding' = [q \in SchedPods |-> binding'[q]]
         /\ \A q \in SchedPods \ {p} : binding'[q] = binding[q]
         /\ IsBinding(binding'[p]) /\ binding'[p] = [binding[p] EXCEPT !.pc = pc]
         /\ binding'[p].volumes = binding[p].volumes
<1>1. IsBinding(binding[p])
  BY DEF OneAtATime
<1>2. IsBinding([binding[p] EXCEPT !.pc = pc]) /\ [binding[p] EXCEPT !.pc = pc].volumes = binding[p].volumes
  BY <1>1 DEF IsBinding
<1>3. binding' = [binding EXCEPT ![p] = [binding[p] EXCEPT !.pc = pc]]
  BY DEF Goto
<1> HIDE DEF IsBinding
<1> QED
  BY <1>2, <1>3 DEF OneAtATime

(* A binding is no NoBinding.                                              *)
LEMMA BindingIsOne == ASSUME NEW b, IsBinding(b) PROVE b # NoBinding
<1> QED
  BY DEF IsBinding, NoBinding

(* A goroutine that is at some place is under way.                         *)
LEMMA AtIsUnderWay == ASSUME NEW p, NEW pc, pc # "none", At(p, pc) PROVE binding[p] # NoBinding
<1> QED
  BY DEF At, NoBinding

(* The steps of the binding goroutines that go on.                         *)
Onward(p) == PreBind(p) \/ Waited(p) \/ BindFails(p)

(* Each of them is at a place, and goes to another.                        *)
LEMMA OnwardGoes ==
  ASSUME OneAtATime, NEW p \in SchedPods, Onward(p)
  PROVE  /\ binding[p] # NoBinding
         /\ \E pc \in {"bind", "wait", "unreserve"} : Goto(p, pc)
         /\ UNCHANGED <<assumed, cycle, leaked, placed>>
<1>1. CASE PreBind(p)
  BY <1>1, AtIsUnderWay DEF PreBind
<1>2. CASE Waited(p)
  BY <1>2, AtIsUnderWay DEF Waited
<1>3. CASE BindFails(p)
  BY <1>3, AtIsUnderWay DEF BindFails
<1> QED
  BY <1>1, <1>2, <1>3 DEF Onward

(* Reserve starts the binding goroutine of the pod of the cycle, with the  *)
(* volumes that Filter found for the node.                                 *)
LEMMA ReserveStarts ==
  ASSUME NEW n, Reserve(n)
  PROVE  \E b :
           /\ binding' = [binding EXCEPT ![cycle.pod] = b] /\ IsBinding(b)
           /\ b.volumes = IF n \in DOMAIN cycle.volumes THEN cycle.volumes[n] ELSE NoVolumes
           /\ b.node = n /\ b.bound = cycle.bound /\ b.claims = cycle.claims /\ b.left = cycle.left
<1> DEFINE has == n \in DOMAIN cycle.volumes
           vs == IF has THEN cycle.volumes[n] ELSE NoVolumes
           tainted == nodes[n] # NoOne /\ HasLeafTaint(nodes[n])
           fails == nodes[n] = NoOne \/ (~tainted /\ has /\ Taken(vs.static))
           b == [node |-> n, has |-> has, volumes |-> vs, pc |-> IF fails THEN "unreserve" ELSE "prebind",
                 allBound |-> ~tainted /\ vs = NoVolumes, bound |-> cycle.bound, left |-> cycle.left,
                 claims |-> cycle.claims]
<1>1. binding' = [binding EXCEPT ![cycle.pod] = b]
  BY DEF Reserve
<1>2. /\ IsBinding(b) /\ b.volumes = vs
      /\ b.node = n /\ b.bound = cycle.bound /\ b.claims = cycle.claims /\ b.left = cycle.left
  <2> HIDE DEF has, vs, tainted, fails
  <2> QED
    BY DEF IsBinding
<1> HIDE DEF b
<1> QED
  BY <1>1, <1>2

(* No step of the scheduler takes a pod that is under way.                 *)
LEMMA StepOne == OneAtATime /\ [SchedNext]_schedVars => OneAtATime'
<1> SUFFICES ASSUME OneAtATime, [SchedNext]_schedVars PROVE OneAtATime'
  OBVIOUS
<1>1. ASSUME UNCHANGED <<cycle, binding, placed>> PROVE OneAtATime'
  BY <1>1 DEF OneAtATime
<1>2. ASSUME NEW p \in SchedPods, PreFilter(p) PROVE OneAtATime'
  <2>1. cycle = NoCycle /\ placed[p] = "queued" /\ binding' = binding
    BY <1>2 DEF PreFilter
  <2>2. binding[p] = NoBinding
    BY <2>1 DEF OneAtATime
  <2>3. CASE Refused(p)
    <3>1. placed' = [placed EXCEPT ![p] = "backoff"] /\ cycle' = cycle
      BY <1>2, <2>3 DEF PreFilter
    <3> QED
      BY <2>1, <2>2, <3>1 DEF OneAtATime
  <2>4. CASE ~Refused(p)
    <3>1. placed' = [placed EXCEPT ![p] = "busy"] /\ cycle'.pod = p /\ IsCycle(cycle')
      BY <1>2, <2>4 DEF PreFilter, IsCycle
    <3> QED
      BY <2>1, <2>2, <3>1 DEF OneAtATime
  <2> QED
    BY <2>3, <2>4
<1>3. ASSUME NEW n \in Nodes, Filter(n) PROVE OneAtATime'
  <2>1. cycle # NoCycle /\ binding' = binding
    BY <1>3 DEF Filter
  <2>2. IsCycle(cycle) /\ cycle.pod \in SchedPods /\ placed[cycle.pod] = "busy" /\ binding[cycle.pod] = NoBinding
    BY <2>1 DEF OneAtATime
  <2>3. CASE cycle' = NoCycle /\ placed' = [placed EXCEPT ![cycle.pod] = "backoff"]
    BY <2>1, <2>2, <2>3 DEF OneAtATime
  <2>4. CASE placed' = placed /\ \E s, f, v : cycle' = [cycle EXCEPT !.seen = s, !.fit = f, !.volumes = v]
    <3>1. PICK s, f, v : cycle' = [cycle EXCEPT !.seen = s, !.fit = f, !.volumes = v]
      BY <2>4
    <3>2. IsCycle(cycle') /\ cycle'.pod = cycle.pod
      BY <2>2, <3>1 DEF IsCycle
    <3> QED
      BY <2>1, <2>2, <2>4, <3>2 DEF OneAtATime
  <2> QED
    BY <1>3, <2>3, <2>4 DEF Filter
<1>4. CASE NoFit
  <2>1. cycle # NoCycle /\ binding' = binding /\ cycle' = NoCycle /\ placed' = [placed EXCEPT ![cycle.pod] = "backoff"]
    BY <1>4 DEF NoFit, Filtered
  <2> QED
    BY <2>1 DEF OneAtATime
<1>5. ASSUME NEW n \in Nodes, Reserve(n) PROVE OneAtATime'
  <2>1. cycle # NoCycle /\ placed' = placed /\ cycle' = NoCycle
    BY <1>5 DEF Reserve, Filtered
  <2>2. PICK b : binding' = [binding EXCEPT ![cycle.pod] = b] /\ IsBinding(b)
    BY <1>5, ReserveStarts
  <2> HIDE DEF IsBinding
  <2> QED
    BY <2>1, <2>2 DEF OneAtATime
<1>6. ASSUME NEW p \in SchedPods, Onward(p) PROVE OneAtATime'
  <2>1. PICK pc \in {"bind", "wait", "unreserve"} : Goto(p, pc)
    BY <1>6, OnwardGoes
  <2>2. binding[p] # NoBinding /\ UNCHANGED <<cycle, placed>>
    BY <1>6, OnwardGoes
  <2>3. /\ binding' = [q \in SchedPods |-> binding'[q]] /\ IsBinding(binding'[p])
        /\ \A q \in SchedPods \ {p} : binding'[q] = binding[q]
    BY <2>1, <2>2, GotoKeeps
  <2> HIDE DEF IsBinding
  <2> QED
    BY <2>2, <2>3 DEF OneAtATime
<1>7. ASSUME NEW p \in SchedPods, Bind(p) \/ Unreserve(p) PROVE OneAtATime'
  <2>1. binding[p] # NoBinding
    BY <1>7, AtIsUnderWay DEF Bind, Unreserve
  <2>2. cycle' = cycle /\ binding' = [binding EXCEPT ![p] = NoBinding] /\ \E x : placed' = [placed EXCEPT ![p] = x]
    BY <1>7 DEF Bind, Unreserve
  <2> QED
    BY <2>1, <2>2 DEF OneAtATime
<1>8. ASSUME NEW p \in SchedPods, TryAgain(p) PROVE OneAtATime'
  <2>1. placed[p] = "backoff" /\ placed' = [placed EXCEPT ![p] = "queued"] /\ UNCHANGED <<binding, cycle>>
    BY <1>8 DEF TryAgain, SchedUnchanged
  <2> QED
    BY <2>1 DEF OneAtATime
<1>9. CASE ClusterStep
  BY <1>1, <1>9, ClusterStepKeeps
<1>10. CASE UNCHANGED schedVars
  BY <1>1, <1>10 DEF schedVars
<1> QED
  BY <1>2, <1>3, <1>4, <1>5, <1>6, <1>7, <1>8, <1>9, <1>10 DEF SchedNext, Onward, ClusterStep

(* Every step accounts for the volumes that are assumed.                   *)
LEMMA StepAccounted == OneAtATime /\ AssumedAccounted /\ [SchedNext]_schedVars => AssumedAccounted'
<1> SUFFICES ASSUME OneAtATime, AssumedAccounted, [SchedNext]_schedVars PROVE AssumedAccounted'
  OBVIOUS
<1>1. ASSUME UNCHANGED <<assumed, binding, leaked>> PROVE AssumedAccounted'
  BY <1>1 DEF AssumedAccounted
<1>2. ASSUME NEW n \in Nodes, Reserve(n) PROVE AssumedAccounted'
  <2> DEFINE p == cycle.pod
             vs == IF n \in DOMAIN cycle.volumes THEN cycle.volumes[n] ELSE NoVolumes
  <2>1. p \in SchedPods /\ binding[p] = NoBinding
    BY <1>2 DEF Reserve, Filtered, OneAtATime
  <2>2. PICK b : binding' = [binding EXCEPT ![p] = b] /\ IsBinding(b) /\ b.volumes = vs
    BY <1>2, ReserveStarts
  <2>3. b # NoBinding
    BY <2>2, BindingIsOne
  <2>4. leaked' = leaked /\ (assumed' = assumed \/ assumed' = Assume(vs.static))
    BY <1>2 DEF Reserve
  <2>5. \A q \in SchedPods : binding[q] # NoBinding => binding'[q] = binding[q]
    BY <2>1, <2>2 DEF OneAtATime
  <2>6. binding'[p] = b
    BY <2>1, <2>2 DEF OneAtATime
  <2>7. \A v \in Volumes : assumed'[v] = assumed[v] \/ assumed'[v] \in DOMAIN vs.static
    BY <2>4 DEF Assume
  <2> HIDE DEF p, vs
  <2> QED
    BY <2>1, <2>2, <2>3, <2>4, <2>5, <2>6, <2>7 DEF AssumedAccounted
<1>3. ASSUME NEW p \in SchedPods, Onward(p) PROVE AssumedAccounted'
  <2>1. PICK pc \in {"bind", "wait", "unreserve"} : Goto(p, pc)
    BY <1>3, OnwardGoes
  <2>2. binding[p] # NoBinding /\ UNCHANGED <<assumed, leaked>>
    BY <1>3, OnwardGoes
  <2>3. IsBinding(binding'[p]) /\ binding'[p].volumes = binding[p].volumes
    BY <2>1, <2>2, GotoKeeps
  <2>4. \A q \in SchedPods \ {p} : binding'[q] = binding[q]
    BY <2>1, <2>2, GotoKeeps
  <2>5. binding'[p] # NoBinding
    BY <2>3, BindingIsOne
  <2> QED
    BY <2>2, <2>3, <2>4, <2>5 DEF AssumedAccounted
<1>4. ASSUME NEW p \in SchedPods, Bind(p) \/ Unreserve(p) PROVE AssumedAccounted'
  <2>1. \A q \in SchedPods \ {p} : binding'[q] = binding[q]
    BY <1>4 DEF Bind, Unreserve, OneAtATime
  <2>2. \A v \in Volumes :
          \/ assumed'[v] = NoOne
          \/ v \in leaked' /\ v \in Held(p)
          \/ v \notin Held(p) /\ assumed'[v] = assumed[v]
    <3> TAKE v \in Volumes
    <3>1. CASE Bind(p)
      <4>1. /\ v \in Held(p) /\ Written(v) => assumed'[v] = NoOne
            /\ v \in Held(p) /\ ~Written(v) => v \in leaked'
            /\ v \notin Held(p) => assumed'[v] = assumed[v]
        BY <3>1, Zenon DEF Bind
      <4> QED
        BY <4>1
    <3>2. CASE Unreserve(p)
      <4>1. /\ v \in Held(p) /\ Reverts(p) => assumed'[v] = NoOne
            /\ v \in Held(p) /\ ~Reverts(p) => v \in leaked'
            /\ v \notin Held(p) => assumed'[v] = assumed[v]
        BY <3>2 DEF Unreserve
      <4> QED
        BY <4>1
    <3> QED
      BY <1>4, <3>1, <3>2
  <2>3. leaked \subseteq leaked'
    BY <1>4 DEF Bind, Unreserve
  <2> QED
    BY <2>1, <2>2, <2>3 DEF AssumedAccounted, Held
<1>5. CASE ClusterStep
  BY <1>1, <1>5, ClusterStepKeeps
<1>6. CASE UNCHANGED schedVars
  BY <1>1, <1>6 DEF schedVars
<1> QED
  BY <1>1, <1>2, <1>3, <1>4, <1>5, <1>6 DEF SchedNext, Onward, ClusterStep, PreFilter, Filter, NoFit, TryAgain,
       SchedUnchanged

(* A volume is assumed only while a binding goroutine can still write or   *)
(* revert it, or because its node went or became a leaf node meanwhile, in *)
(* clusters of any size: the scheduling cycle and the goroutines beside it *)
(* keep no volume from the pods to come.                                   *)
THEOREM NothingStaysAssumed == SchedSpec => []AssumedAccounted
<1>1. SchedInit => AssumedAccounted
  BY DEF SchedInit, AssumedAccounted
<1> QED
  BY <1>1, InitOne, StepOne, StepAccounted, PTL DEF SchedSpec

-----------------------------------------------------------------------------
(* A step is one of the cluster or the scheduler that edits nothing, or an *)
(* edit, after which what was left before is no longer left.               *)
Steady ==
  /\ setup' = setup /\ nodes' = nodes /\ policies' = policies
  /\ \A v \in DOMAIN pvs : v \in DOMAIN pvs' /\ pvs'[v].owner = pvs[v].owner /\ pvs'[v].aff = pvs[v].aff
Edited ==
  /\ IsSetup(setup') /\ setup'.pods = setup.pods
  /\ \A e \in Edits : setup'.edits[e] <= setup.edits[e]
  /\ \E e \in Edits : setup'.edits[e] < setup.edits[e]

(* An edit takes one from what is left.                                    *)
LEMMA EditSpends ==
  ASSUME IsSetup(setup), NEW e \in Edits, setup.edits[e] > 0, setup' = [setup EXCEPT !.edits[e] = @ - 1]
  PROVE  Edited
<1> DEFINE new == [setup.edits EXCEPT ![e] = @ - 1]
<1>1. setup.edits \in [Edits -> Nat] /\ setup.edits[e] \in Nat
  BY DEF IsSetup
<1>2. new \in [Edits -> Nat] /\ (\A d \in Edits : new[d] <= setup.edits[d]) /\ new[e] < setup.edits[e]
  BY <1>1
<1>3. setup' = [setup EXCEPT !.edits = new]
  OBVIOUS
<1> HIDE DEF new
<1>4. /\ setup'.edits = new /\ setup'.pods = setup.pods
      /\ setup' = [pods |-> setup'.pods, class |-> setup'.class, size |-> setup'.size, maker |-> setup'.maker,
                   local |-> setup'.local, later |-> setup'.later, edits |-> setup'.edits]
  BY <1>3 DEF IsSetup
<1> QED
  BY <1>2, <1>4 DEF Edited, IsSetup

(* A claim is bound to a volume that is its own or free.                   *)
LEMMA SetBoundAgrees ==
  ASSUME Agree(claims, pvs), NEW c \in Claims, NEW v \in DOMAIN pvs, claims[c].st = "unbound",
         pvs[v].claim \in {NoOne, c}, SetBound(c, v)
  PROVE  Agree(claims', pvs') /\ Steady
<1> DEFINE cl == [claims[c] EXCEPT !.st = "bound", !.pv = v]
           pv == [pvs[v] EXCEPT !.claim = c]
<1>1. IsClaim(claims[c]) /\ IsPv(pvs[v])
  BY DEF Agree
<1>2. cl.st = "bound" /\ cl.pv = v /\ cl.owner = claims[c].owner /\ IsClaim(cl)
  <2>1. cl.st = "bound" /\ cl.pv = v /\ cl.owner = claims[c].owner /\ cl.now = claims[c].now /\ cl.ending = claims[c].ending
    BY <1>1 DEF IsClaim
  <2>2. DOMAIN cl = {"st", "pv", "owner", "now", "ending"} /\ cl = [z \in DOMAIN cl |-> cl[z]]
    BY <1>1 DEF IsClaim
  <2> HIDE DEF cl
  <2> QED
    BY <2>1, <2>2 DEF IsClaim
<1>3. pv.claim = c /\ pv.owner = pvs[v].owner /\ pv.aff = pvs[v].aff /\ IsPv(pv)
  BY <1>1 DEF IsPv
<1>4. claims' = [claims EXCEPT ![c] = cl] /\ pvs' = [pvs EXCEPT ![v] = pv]
  BY DEF SetBound, Agree
<1> HIDE DEF cl, pv
<1>5. /\ claims' = [d \in Claims |-> claims'[d]] /\ claims'[c] = cl
      /\ \A d \in Claims : d # c => claims'[d] = claims[d]
  BY <1>4 DEF Agree
<1>6. /\ pvs' = [w \in DOMAIN pvs' |-> pvs'[w]] /\ pvs'[v] = pv /\ DOMAIN pvs' = DOMAIN pvs
      /\ \A w \in DOMAIN pvs : w # v => pvs'[w] = pvs[w]
  BY <1>4 DEF Agree
<1>7. Steady
  BY <1>3, <1>6 DEF Steady, SetBound
<1>8. \A d \in Claims : IsClaim(claims'[d])
  BY <1>2, <1>5 DEF Agree
<1>9. \A w \in DOMAIN pvs' : IsPv(pvs'[w])
  BY <1>3, <1>6 DEF Agree
<1>10. \A d \in Claims : claims'[d].st = "bound" => claims'[d].pv \in DOMAIN pvs' /\ pvs'[claims'[d].pv].claim = d
  BY <1>2, <1>3, <1>5, <1>6, NodesAssumption DEF Agree
<1>11. \A w \in DOMAIN pvs' : pvs'[w].owner # {} => pvs'[w].claim \in Claims /\ claims'[pvs'[w].claim].owner # {}
  BY <1>2, <1>3, <1>5, <1>6, NodesAssumption DEF Agree
<1>12. \A d \in Claims : d \in DOMAIN pvs' => claims'[d].st \in {"bound", "lost"}
  BY <1>2, <1>5, <1>6 DEF Agree
<1> QED
  BY <1>5, <1>6, <1>7, <1>8, <1>9, <1>10, <1>11, <1>12 DEF Agree

(* A volume is made for a claim that is not bound and has none.            *)
LEMMA MakeVolumeAgrees ==
  ASSUME Agree(claims, pvs), NEW c \in Claims, NEW owner, NEW aff, claims[c].st = "unbound",
         owner # {} => claims[c].owner # {}, MakeVolume(c, owner, aff)
  PROVE  Agree(claims', pvs') /\ Steady
<1> DEFINE cl == [claims[c] EXCEPT !.st = "bound", !.pv = c]
           pv == [claim |-> c, owner |-> owner, aff |-> aff, size |-> setup.size[c]]
<1>1. IsClaim(claims[c]) /\ c \notin DOMAIN pvs
  BY DEF Agree
<1>2. cl.st = "bound" /\ cl.pv = c /\ cl.owner = claims[c].owner /\ IsClaim(cl)
  <2>1. cl.st = "bound" /\ cl.pv = c /\ cl.owner = claims[c].owner /\ cl.now = claims[c].now /\ cl.ending = claims[c].ending
    BY <1>1 DEF IsClaim
  <2>2. DOMAIN cl = {"st", "pv", "owner", "now", "ending"} /\ cl = [z \in DOMAIN cl |-> cl[z]]
    BY <1>1 DEF IsClaim
  <2> HIDE DEF cl
  <2> QED
    BY <2>1, <2>2 DEF IsClaim
<1>3. pv.claim = c /\ pv.owner = owner /\ IsPv(pv)
  BY DEF IsPv
<1>4. /\ claims' = [claims EXCEPT ![c] = cl]
      /\ pvs' = [v \in DOMAIN pvs \union {c} |-> IF v = c THEN pv ELSE pvs[v]]
  BY DEF MakeVolume, Agree
<1> HIDE DEF cl, pv
<1>5. /\ claims' = [d \in Claims |-> claims'[d]] /\ claims'[c] = cl
      /\ \A d \in Claims : d # c => claims'[d] = claims[d]
  BY <1>4 DEF Agree
<1>6. /\ pvs' = [w \in DOMAIN pvs' |-> pvs'[w]] /\ pvs'[c] = pv /\ DOMAIN pvs' = DOMAIN pvs \union {c}
      /\ \A w \in DOMAIN pvs : pvs'[w] = pvs[w]
  BY <1>1, <1>4
<1>7. Steady
  BY <1>6 DEF Steady, MakeVolume
<1>8. \A d \in Claims : IsClaim(claims'[d])
  BY <1>2, <1>5 DEF Agree
<1>9. \A w \in DOMAIN pvs' : IsPv(pvs'[w])
  BY <1>3, <1>6 DEF Agree
<1>10. \A d \in Claims : claims'[d].st = "bound" => claims'[d].pv \in DOMAIN pvs' /\ pvs'[claims'[d].pv].claim = d
  BY <1>2, <1>3, <1>5, <1>6 DEF Agree
<1>11. \A w \in DOMAIN pvs' : pvs'[w].owner # {} => pvs'[w].claim \in Claims /\ claims'[pvs'[w].claim].owner # {}
  BY <1>2, <1>3, <1>5, <1>6 DEF Agree
<1>12. \A d \in Claims : d \in DOMAIN pvs' => claims'[d].st \in {"bound", "lost"}
  BY <1>2, <1>5, <1>6 DEF Agree
<1> QED
  BY <1>5, <1>6, <1>7, <1>8, <1>9, <1>10, <1>11, <1>12 DEF Agree

(* PreBind writes into a volume the claim that it was found for, which has *)
(* no other.                                                               *)
LEMMA PreBindAgrees ==
  ASSUME Agree(claims, pvs), NEW p, PreBind(p)
  PROVE  Agree(claims', pvs') /\ Steady
<1> DEFINE static == binding[p].volumes.static
           For(v) == CHOOSE c \in DOMAIN static : static[c] = v
           Served(v) == \E c \in DOMAIN static : static[c] = v
<1>1. UNCHANGED <<setup, nodes, policies, claims>>
  BY DEF PreBind
<1>2. CASE UNCHANGED pvs
  BY <1>1, <1>2 DEF Steady
<1>3. CASE /\ ~Taken(static)
           /\ pvs' = [v \in DOMAIN pvs |-> IF Served(v) THEN [pvs[v] EXCEPT !.claim = For(v)] ELSE pvs[v]]
  <2>1. \A v \in DOMAIN pvs : Served(v) => pvs[v].claim \in {NoOne, For(v)}
    BY <1>3 DEF Taken
  <2> HIDE DEF Served, For, static
  <2>2. ASSUME NEW v \in DOMAIN pvs
        PROVE  /\ IsPv(pvs'[v]) /\ pvs'[v].owner = pvs[v].owner /\ pvs'[v].aff = pvs[v].aff
               /\ pvs'[v].claim = pvs[v].claim \/ pvs[v].claim = NoOne
    <3>1. IsPv(pvs[v])
      BY DEF Agree
    <3>2. CASE Served(v)
      <4>1. pvs'[v] = [pvs[v] EXCEPT !.claim = For(v)]
        BY <1>3, <3>2
      <4>2. pvs'[v].claim = For(v) /\ pvs'[v].owner = pvs[v].owner /\ pvs'[v].aff = pvs[v].aff /\ IsPv(pvs'[v])
        BY <3>1, <4>1 DEF IsPv
      <4> QED
        BY <2>1, <3>2, <4>2
    <3>3. CASE ~Served(v)
      BY <1>3, <3>1, <3>3
    <3> QED
      BY <3>2, <3>3
  <2>3. DOMAIN pvs' = DOMAIN pvs /\ pvs' = [v \in DOMAIN pvs' |-> pvs'[v]]
    BY <1>3
  <2>4. Steady
    BY <1>1, <2>2, <2>3 DEF Steady
  <2>5. \A c \in Claims : claims[c].st = "bound" => claims[c].pv \in DOMAIN pvs' /\ pvs'[claims[c].pv].claim = c
    BY <2>2, <2>3, NodesAssumption DEF Agree
  <2>6. \A v \in DOMAIN pvs' : pvs'[v].owner # {} => pvs'[v].claim \in Claims /\ claims[pvs'[v].claim].owner # {}
    BY <2>2, <2>3, NodesAssumption DEF Agree
  <2> QED
    BY <1>1, <2>2, <2>3, <2>4, <2>5, <2>6 DEF Agree
<1> QED
  BY <1>2, <1>3 DEF PreBind

(* A change of one claim, and the loss of its volume, leave the others as  *)
(* they were.                                                              *)
LEMMA AgreeStill ==
  ASSUME NEW cl, NEW pv, NEW cl2, NEW pv2, NEW c \in Claims, Agree(cl, pv),
         cl2 = [d \in Claims |-> cl2[d]], \A d \in Claims : d # c => cl2[d] = cl[d],
         IsClaim(cl2[c]), cl[c].owner # {} => cl2[c].owner # {},
         cl2[c].st = "bound" => cl[c].st = "bound" /\ cl2[c].pv = cl[c].pv /\ pv2 = pv,
         c \in DOMAIN pv => cl2[c].st \in {"bound", "lost"},
         pv2 = [v \in DOMAIN pv2 |-> pv2[v]], DOMAIN pv2 \subseteq DOMAIN pv,
         \A v \in DOMAIN pv2 : pv2[v] = pv[v], \A v \in DOMAIN pv \ DOMAIN pv2 : pv[v].claim = c
  PROVE  Agree(cl2, pv2)
<1>1. \A d \in Claims : IsClaim(cl2[d])
  BY DEF Agree
<1>2. \A v \in DOMAIN pv2 : IsPv(pv2[v])
  BY DEF Agree
<1>3. \A d \in Claims : cl2[d].st = "bound" => cl2[d].pv \in DOMAIN pv2 /\ pv2[cl2[d].pv].claim = d
  BY DEF Agree
<1>4. \A v \in DOMAIN pv2 : pv2[v].owner # {} => pv2[v].claim \in Claims /\ cl2[pv2[v].claim].owner # {}
  BY DEF Agree
<1>5. \A d \in Claims : d \in DOMAIN pv2 => cl2[d].st \in {"bound", "lost"}
  BY DEF Agree
<1> QED
  BY <1>1, <1>2, <1>3, <1>4, <1>5 DEF Agree

(* Of the edits of a claim, the one that takes its volume away too leaves  *)
(* no other claim without one.                                             *)
LEMMA ClaimChangesAgrees ==
  ASSUME Agree(claims, pvs), NEW c \in Claims, ClaimChanges(c)
  PROVE  Agree(claims', pvs')
<1>1. IsClaim(claims[c]) /\ pvs = [v \in DOMAIN pvs |-> pvs[v]]
  BY DEF Agree
<1>2. ASSUME NEW f \in {"st", "ending"}, NEW x, claims' = [claims EXCEPT ![c] = [claims[c] EXCEPT ![f] = x]]
      PROVE  /\ claims' = [d \in Claims |-> claims'[d]] /\ \A d \in Claims : d # c => claims'[d] = claims[d]
             /\ IsClaim(claims'[c]) /\ claims'[c].owner = claims[c].owner /\ claims'[c].pv = claims[c].pv
             /\ IF f = "st" THEN claims'[c].st = x ELSE claims'[c].st = claims[c].st
  <2> DEFINE cl == [claims[c] EXCEPT ![f] = x]
  <2>1. /\ IsClaim(cl) /\ cl.owner = claims[c].owner /\ cl.pv = claims[c].pv
        /\ IF f = "st" THEN cl.st = x ELSE cl.st = claims[c].st
    BY <1>1 DEF IsClaim
  <2> HIDE DEF cl
  <2> QED
    BY <1>2, <2>1 DEF Agree, cl
<1>3. CASE claims[c].st = "absent" /\ claims' = [claims EXCEPT ![c].st = "unbound"] /\ UNCHANGED pvs
  <2>1. claims' = [claims EXCEPT ![c] = [claims[c] EXCEPT !["st"] = "unbound"]]
    BY <1>3 DEF Agree
  <2>2. c \notin DOMAIN pvs
    BY <1>3 DEF Agree
  <2>3. /\ claims' = [d \in Claims |-> claims'[d]] /\ \A d \in Claims : d # c => claims'[d] = claims[d]
        /\ IsClaim(claims'[c]) /\ claims'[c].owner = claims[c].owner /\ claims'[c].pv = claims[c].pv
        /\ claims'[c].st = "unbound"
    BY <1>2, <2>1
  <2>4. pvs' = pvs
    BY <1>3
  <2> QED
    BY <1>1, <2>2, <2>3, <2>4, AgreeStill
<1>4. CASE claims' = [claims EXCEPT ![c].ending = TRUE] /\ UNCHANGED pvs
  <2>1. claims' = [claims EXCEPT ![c] = [claims[c] EXCEPT !["ending"] = TRUE]]
    BY <1>4 DEF Agree
  <2>2. c \in DOMAIN pvs => claims[c].st \in {"bound", "lost"}
    BY DEF Agree
  <2>3. /\ claims' = [d \in Claims |-> claims'[d]] /\ \A d \in Claims : d # c => claims'[d] = claims[d]
        /\ IsClaim(claims'[c]) /\ claims'[c].owner = claims[c].owner /\ claims'[c].pv = claims[c].pv
        /\ claims'[c].st = claims[c].st
    BY <1>2, <2>1
  <2>4. pvs' = pvs
    BY <1>4
  <2> QED
    BY <1>1, <2>2, <2>3, <2>4, AgreeStill
<1>5. CASE /\ claims[c].st = "bound" /\ claims' = [claims EXCEPT ![c].st = "lost"]
           /\ pvs' = Restrict(pvs, DOMAIN pvs \ {claims[c].pv})
  <2>1. claims' = [claims EXCEPT ![c] = [claims[c] EXCEPT !["st"] = "lost"]]
    BY <1>5 DEF Agree
  <2>2. /\ claims' = [d \in Claims |-> claims'[d]] /\ \A d \in Claims : d # c => claims'[d] = claims[d]
        /\ IsClaim(claims'[c]) /\ claims'[c].owner = claims[c].owner /\ claims'[c].st = "lost"
    BY <1>2, <2>1
  <2>3. /\ DOMAIN pvs' = DOMAIN pvs \ {claims[c].pv} /\ pvs' = [v \in DOMAIN pvs' |-> pvs'[v]]
        /\ \A v \in DOMAIN pvs' : pvs'[v] = pvs[v]
    BY <1>5 DEF Restrict
  <2>4. \A v \in DOMAIN pvs \ DOMAIN pvs' : pvs[v].claim = c
    BY <1>5, <2>3 DEF Agree
  <2> QED
    BY <2>2, <2>3, <2>4, AgreeStill
<1> QED
  BY <1>3, <1>4, <1>5 DEF ClaimChanges

(* Every step leaves volumes and claims in agreement, and is an edit or    *)
(* steady.                                                                 *)
LEMMA WorldStep ==
  ASSUME World, OneAtATime, [SchedNext]_schedVars
  PROVE  World' /\ (Steady \/ Edited)
<1> USE DEF World
<1>1. ASSUME UNCHANGED <<setup, nodes, policies, claims, pvs>> PROVE World' /\ Steady
  BY <1>1 DEF Steady
<1>2. ASSUME NEW p \in SchedPods, PreBind(p) PROVE World' /\ Steady
  BY <1>2, PreBindAgrees DEF PreBind
<1>3. ASSUME NEW p \in SchedPods, BindFails(p) PROVE World' /\ Edited
  <2>1. setup.edits["fail"] > 0 /\ setup' = [setup EXCEPT !.edits["fail"] = @ - 1] /\ UNCHANGED <<nodes, claims, pvs>>
    BY <1>3 DEF BindFails
  <2>2. Edited
    BY <2>1, EditSpends DEF Edits
  <2> QED
    BY <2>1, <2>2 DEF Edited
<1>4. ASSUME NEW p \in SchedPods, Provisioner(p) PROVE World' /\ Steady
  <2>1. PICK c \in Claims : claims[c].st = "unbound" /\ MakeVolume(c, {}, {binding[p].node})
    BY <1>4 DEF Provisioner
  <2>2. Agree(claims', pvs') /\ Steady
    BY <2>1, MakeVolumeAgrees
  <2> QED
    BY <2>2 DEF Steady
<1>5. ASSUME NEW p \in SchedPods, LeafProvisions(p) PROVE World' /\ Steady
  <2>1. PICK c \in setup.pods[p].claims :
          /\ claims[c].st = "unbound" /\ nodes[placed[p]].owner \in claims[c].owner
          /\ MakeVolume(c, {nodes[placed[p]].owner}, IF setup.local THEN {placed[p]} ELSE NoOne)
    BY <1>5 DEF LeafProvisions
  <2>2. c \in Claims /\ claims[c].owner # {}
    BY <2>1 DEF IsSetup
  <2>3. Agree(claims', pvs') /\ Steady
    BY <2>1, <2>2, MakeVolumeAgrees
  <2> QED
    BY <2>3 DEF Steady
<1>6. ASSUME NEW p \in SchedPods, LeafMarks(p) PROVE World' /\ Steady
  <2>1. PICK c \in setup.pods[p].claims :
          /\ claims' = [claims EXCEPT ![c].owner = @ \union {nodes[placed[p]].owner}]
          /\ UNCHANGED <<setup, nodes, policies, pvs>>
    BY <1>6 DEF LeafMarks
  <2> DEFINE cl == [claims[c] EXCEPT !.owner = @ \union {nodes[placed[p]].owner}]
  <2>2. c \in Claims /\ IsClaim(claims[c])
    BY <2>1 DEF IsSetup, Agree
  <2>3. IsClaim(cl) /\ cl.owner # {} /\ cl.st = claims[c].st /\ cl.pv = claims[c].pv
    BY <2>2 DEF IsClaim
  <2>4. claims' = [claims EXCEPT ![c] = cl]
    BY <2>1, <2>2 DEF Agree
  <2> HIDE DEF cl
  <2>5. /\ claims' = [d \in Claims |-> claims'[d]] /\ claims'[c] = cl
        /\ \A d \in Claims : d # c => claims'[d] = claims[d]
    BY <2>2, <2>4 DEF Agree
  <2>6. pvs = [v \in DOMAIN pvs |-> pvs[v]] /\ (c \in DOMAIN pvs => claims[c].st \in {"bound", "lost"})
    BY <2>2 DEF Agree
  <2>7. pvs' = pvs
    BY <2>1
  <2>8. Agree(claims', pvs')
    BY <2>2, <2>3, <2>5, <2>6, <2>7, AgreeStill
  <2> QED
    BY <2>1, <2>8 DEF Steady
<1>7. ASSUME NEW c \in Claims, VolumeController(c) PROVE World' /\ Steady
  <2>1. PICK v \in DOMAIN pvs : claims[c].st = "unbound" /\ pvs[v].claim \in {NoOne, c} /\ SetBound(c, v)
    BY <1>7 DEF VolumeController, Candidates
  <2>2. Agree(claims', pvs') /\ Steady
    BY <2>1, SetBoundAgrees
  <2> QED
    BY <2>2 DEF Steady
<1>8. ASSUME NEW e \in Edits, Edit(e) PROVE Edited /\ IsSetup(setup')
  BY <1>8, EditSpends DEF Edit, Edited
<1>9. ASSUME NEW n \in Nodes, NodeGoes(n) \/ NodeTainted(n) PROVE World' /\ Edited
  <2>1. Edited /\ IsSetup(setup') /\ UNCHANGED <<claims, pvs>> /\ nodes[n] # NoOne
    BY <1>8, <1>9 DEF NodeGoes, NodeTainted, Edits
  <2>2. NodesOk(nodes')
    <3>1. IsNode(nodes[n])
      BY <2>1 DEF NodesOk
    <3>2. CASE nodes' = [nodes EXCEPT ![n] = NoOne]
      BY <3>2 DEF NodesOk
    <3>3. CASE \E t : nodes' = [nodes EXCEPT ![n] = [nodes[n] EXCEPT !.taints = t]]
      <4>1. PICK t : nodes' = [nodes EXCEPT ![n] = [nodes[n] EXCEPT !.taints = t]]
        BY <3>3
      <4>2. IsNode([nodes[n] EXCEPT !.taints = t])
        BY <3>1 DEF IsNode
      <4> QED
        BY <4>1, <4>2 DEF NodesOk
    <3> QED
      BY <1>9, <3>2, <3>3 DEF NodeGoes, NodeTainted, NodesOk
  <2> QED
    BY <2>1, <2>2
<1>10. CASE PolicyChanges
  BY <1>8, <1>10 DEF PolicyChanges, Edits
<1>11. ASSUME NEW c \in Claims, ClaimChanges(c) PROVE World' /\ Edited
  BY <1>8, <1>11, ClaimChangesAgrees DEF ClaimChanges, Edits
<1>12. CASE UNCHANGED schedVars
  BY <1>1, <1>12 DEF schedVars
<1> QED
  BY <1>1, <1>2, <1>3, <1>4, <1>5, <1>6, <1>7, <1>9, <1>10, <1>11, <1>12 DEF SchedNext, EnvUnchanged,
       PreFilter, Filter, NoFit, Reserve, Waited, Bind, Unreserve, TryAgain

(* What was left at some time is left no more after an edit.               *)
LEMMA PastKept ==
  ASSUME IsSetup(setup), NEW left, Past(setup.edits, left), Steady \/ Edited
  PROVE  Past(setup'.edits, left) /\ (left = setup'.edits => Steady /\ left = setup.edits)
<1>1. CASE Steady
  BY <1>1 DEF Steady, Past
<1>2. CASE Edited
  <2>1. setup.edits \in [Edits -> Nat] /\ setup'.edits \in [Edits -> Nat]
    BY <1>2 DEF IsSetup, Edited
  <2>2. PICK e \in Edits : setup'.edits[e] < setup.edits[e]
    BY <1>2 DEF Edited
  <2>3. left # setup'.edits
    BY <2>1, <2>2 DEF Past
  <2>4. \A d \in Edits : setup'.edits[d] <= left[d]
    BY <1>2, <2>1 DEF Edited, Past
  <2> QED
    BY <2>3, <2>4 DEF Past
<1> QED
  BY <1>1, <1>2

(* The policies mean the same as long as nothing is edited.                *)
LEMMA MeantKept == ASSUME Steady, NEW p PROVE Meant(p)' = Meant(p)
<1> QED
  BY DEF Steady, Meant, TermOf, Ranks, IsDaemonSetPod

(* A node that is right stays so until something is edited, although       *)
(* volumes are bound and made meanwhile.                                   *)
LEMMA RightKept ==
  ASSUME Steady, NEW p, NEW n, NEW cs, NEW cl, Right(p, n, cs, cl)
  PROVE  Right(p, n, cs, cl)'
<1>1. (Unambiguous => Admits(Meant(p), n, nodes[n]))'
  <2>1. Unambiguous' => Unambiguous
    BY DEF Steady, Unambiguous
  <2> QED
    BY <2>1, MeantKept DEF Steady, Right, Admits, IsToleration
<1>2. Tolerates(p, nodes[n])'
  BY DEF Steady, Right, Tolerates
<1>3. ASSUME NEW c \in cs PROVE (cl[c].pv \in DOMAIN pvs /\ InReach(cl[c].pv, n, nodes[n]))'
  BY DEF Steady, Right, InReach, Reaches, One2One
<1> QED
  BY <1>1, <1>2, <1>3 DEF Right

(* Where no two policies of a list hide each other, a node that the term   *)
(* Filter came to admits is one that the policies mean.                    *)
LEMMA TermMeant ==
  ASSUME Unambiguous, NEW p, NEW term \in Terms(p), NEW n, NEW node, Admits(term, n, node)
  PROVE  Admits(Meant(p), n, node)
<1> DEFINE own == {TermOf(p, d) : d \in policies.ns} \ {NoOne}
           all == {TermOf(p, d) : d \in policies.cluster} \ {NoOne}
<1>1. Admits(MixTerm, n, node)
  BY DEF Admits, MixTerm
<1>2. CASE IsDaemonSetPod(p)
  BY <1>1, <1>2 DEF Meant
<1>3. CASE ~IsDaemonSetPod(p) /\ term \in LastOf(p, policies.ns) \ {NoOne}
  <2>1. term \in own /\ \A t \in own : t = term
    BY <1>3 DEF LastOf, Unambiguous
  <2>2. Meant(p) = CHOOSE t \in own : TRUE
    BY <1>3, <2>1 DEF Meant
  <2> HIDE DEF own
  <2> QED
    BY <2>1, <2>2
<1>4. CASE ~IsDaemonSetPod(p) /\ NoOne \in LastOf(p, policies.ns) /\ term \in LastOf(p, policies.cluster)
  <2>1. own = {}
    BY <1>4 DEF LastOf, Unambiguous
  <2>2. CASE term = NoOne
    <3>1. all = {}
      BY <1>4, <2>2 DEF LastOf, Unambiguous
    <3> QED
      BY <1>1, <1>4, <2>1, <3>1 DEF Meant
  <2>3. CASE term # NoOne
    <3>1. term \in all /\ \A t \in all : t = term
      BY <1>4, <2>3 DEF LastOf, Unambiguous
    <3>2. Meant(p) = CHOOSE t \in all : TRUE
      BY <1>4, <2>1, <3>1 DEF Meant
    <3> HIDE DEF all
    <3> QED
      BY <3>1, <3>2
  <2> QED
    BY <2>2, <2>3
<1> QED
  BY <1>2, <1>3, <1>4 DEF Terms

(* A node that the volume filter lets through reaches the volumes of the   *)
(* bound claims.                                                           *)
LEMMA FitsInReach ==
  ASSUME NEW n, NEW node, node.mode \in Modes, "fits" \in VolumeResults(n, node),
         cycle.skip => cycle.bound = {}, NEW c \in cycle.bound, Stands(pvs, cycle.claims[c])
  PROVE  InReach(cycle.claims[c].pv, n, node)
<1> DEFINE v == cycle.claims[c].pv
<1>1. ~cycle.skip /\ cycle.bound # {}
  OBVIOUS
<1>2. CASE node.mode = "one2cluster"
  <2>1. "fits" \in FindPodKosmosVolumes(n, node)
    BY <1>1, <1>2 DEF VolumeResults, One2One
  <2>2. CheckBoundClaims(cycle.bound, n, node)
    BY <2>1 DEF FindPodKosmosVolumes
  <2>3. CheckKosmosResourceOwner(v, n, node)
    BY <2>2 DEF CheckBoundClaims
  <2> QED
    BY <1>2, <2>3 DEF CheckKosmosResourceOwner, InReach, Reaches
<1>3. ASSUME "fits" \in FindPodVolumes(n, node) PROVE Reaches(v, n)
  BY <1>3 DEF FindPodVolumes
<1>4. CASE node.mode = "one2one"
  <2>1. "fits" \in FindPodVolumes(n, node)
    BY <1>1, <1>4 DEF VolumeResults, One2One
  <2> QED
    BY <1>3, <1>4, <2>1 DEF InReach, One2One
<1>5. CASE node.mode = "real"
  <2>1. ~HasKosmosOwnerPVC /\ "fits" \in FindPodVolumes(n, node)
    BY <1>1, <1>5 DEF VolumeResults, One2One
  <2>2. pvs[v].owner = {}
    BY <2>1 DEF HasKosmosOwnerPVC, Stands
  <2> QED
    BY <1>3, <2>1, <2>2 DEF InReach
<1> QED
  BY <1>2, <1>4, <1>5 DEF Modes

(* What Filter changes of a cycle, and of which node it says that it fits. *)
LEMMA FilterAdds ==
  ASSUME NEW n \in Nodes, Filter(n), IsCycle(cycle), cycle' # NoCycle
  PROVE  /\ \A f \in {"pod", "nodes", "claims", "skip", "bound", "toBind", "left"} : cycle'[f] = cycle[f]
         /\ \/ cycle'.fit = cycle.fit
            \/ /\ cycle'.fit = cycle.fit \union {n} /\ cycle.nodes[n] # NoOne
               /\ Tolerates(cycle.pod, cycle.nodes[n]) /\ "fits" \in VolumeResults(n, cycle.nodes[n])
               /\ \E term \in Terms(cycle.pod) : Admits(term, n, cycle.nodes[n])
<1> DEFINE node == cycle.nodes[n]
<1> DEFINE Good(term, r) == Admits(term, n, node) /\ Tolerates(cycle.pod, node) /\ r = "fits"
<1>1. PICK term, r, s, f, v :
        /\ term \in Terms(cycle.pod) /\ r \in VolumeResults(n, node)
        /\ cycle' = [cycle EXCEPT !.seen = s, !.fit = f, !.volumes = v]
        /\ f = IF Good(term, r) THEN cycle.fit \union {n} ELSE cycle.fit
  <2> DEFINE Fits(term) == Admits(term, n, node) /\ Tolerates(cycle.pod, node)
             S == cycle.seen \union {n}
             F(term, r) == IF Fits(term) /\ r = "fits" THEN cycle.fit \union {n} ELSE cycle.fit
             V(term, r) == IF Fits(term) /\ r = "fits" /\ Stores(node)
                           THEN cycle.volumes @@ (n :> [static |-> FoundVolumes(n),
                                                        dynamic |-> cycle.toBind \ DOMAIN FoundVolumes(n)])
                           ELSE cycle.volumes
  <2>1. PICK term \in Terms(cycle.pod), r \in VolumeResults(n, node) :
          cycle' = [cycle EXCEPT !.seen = S, !.fit = F(term, r), !.volumes = V(term, r)]
    BY DEF Filter
  <2>2. F(term, r) = IF Good(term, r) THEN cycle.fit \union {n} ELSE cycle.fit
    OBVIOUS
  <2> HIDE DEF S, F, V, Good
  <2> QED
    BY <2>1, <2>2
<1> DEFINE good == Good(term, r)
<1>2. /\ term \in Terms(cycle.pod) /\ r \in VolumeResults(n, node)
      /\ cycle' = [cycle EXCEPT !.seen = s, !.fit = f, !.volumes = v]
      /\ f = IF good THEN cycle.fit \union {n} ELSE cycle.fit
  BY <1>1
<1>3. node # NoOne
  BY DEF Filter
<1> HIDE DEF good, node
<1>4. cycle'.fit = f /\ \A g \in {"pod", "nodes", "claims", "skip", "bound", "toBind", "left"} : cycle'[g] = cycle[g]
  BY <1>2 DEF IsCycle
<1>5. CASE good
  BY <1>2, <1>3, <1>4, <1>5 DEF good, node
<1>6. CASE ~good
  BY <1>2, <1>4, <1>6
<1> QED
  BY <1>5, <1>6

(* A cycle goes on as long as nothing is edited with a snapshot that is    *)
(* true and nodes that are right.                                          *)
LEMMA CycleStep ==
  ASSUME World, OneAtATime, CycleRight, [SchedNext]_schedVars, Steady \/ Edited
  PROVE  CycleRight'
<1>1. CASE cycle' = NoCycle
  BY <1>1 DEF CycleRight, NoCycle
<1>2. CASE cycle' = cycle
  <2> SUFFICES ASSUME cycle # NoCycle PROVE CycleRight'
    BY <1>2 DEF CycleRight, NoCycle
  <2>1. Past(setup.edits, cycle.left) /\ (cycle.skip => cycle.bound = {})
    BY DEF CycleRight
  <2>2. Past(setup'.edits, cycle'.left) /\ (cycle.left = setup'.edits => Steady /\ cycle.left = setup.edits)
    BY <1>2, <2>1, PastKept DEF World, Past
  <2>3. ASSUME cycle.left = setup'.edits
        PROVE  /\ cycle.nodes = nodes' /\ \A c \in cycle.bound : Stands(pvs', cycle'.claims[c])
               /\ \A p \in {cycle.pod}, cs \in {cycle.bound}, cl \in {cycle.claims} :
                    \A n \in cycle.fit : Right(p, n, cs, cl)'
    <3>1. /\ cycle.nodes = nodes /\ \A c \in cycle.bound : Stands(pvs, cycle.claims[c])
          /\ \A p \in {cycle.pod}, cs \in {cycle.bound}, cl \in {cycle.claims} :
               \A n \in cycle.fit : Right(p, n, cs, cl)
      BY <2>2, <2>3 DEF CycleRight
    <3>2. cycle.nodes = nodes'
      BY <2>2, <2>3, <3>1 DEF Steady
    <3>3. \A c \in cycle.bound : Stands(pvs', cycle'.claims[c])
      BY <1>2, <2>2, <2>3, <3>1 DEF Steady, Stands
    <3>4. \A p \in {cycle.pod}, cs \in {cycle.bound}, cl \in {cycle.claims} :
            \A n \in cycle.fit : Right(p, n, cs, cl)'
      BY <2>2, <2>3, <3>1, RightKept
    <3> QED
      BY <3>2, <3>3, <3>4
  <2> QED
    BY <1>2, <2>1, <2>2, <2>3 DEF CycleRight
<1>3. ASSUME NEW p \in SchedPods, PreFilter(p), ~Refused(p) PROVE CycleRight'
  <2> DEFINE new == {c \in setup.pods[p].claims : claims[c].st = "bound"}
  <2>1. /\ cycle'.nodes = nodes /\ cycle'.claims = claims /\ cycle'.left = setup.edits
        /\ cycle'.bound = new /\ cycle'.skip = (setup.pods[p].claims = {}) /\ cycle'.fit = {}
        /\ UNCHANGED <<setup, nodes, policies, claims, pvs>>
    BY <1>3 DEF PreFilter, EnvUnchanged
  <2>2. new \subseteq Claims /\ (setup.pods[p].claims = {} => new = {}) /\ \A c \in new : claims[c].st = "bound"
    BY DEF World, IsSetup
  <2>3. Past(setup'.edits, cycle'.left)
    BY <2>1 DEF Past, World, IsSetup
  <2>4. \A c \in new : Stands(pvs', cycle'.claims[c])
    BY <2>1, <2>2 DEF Stands, World, Agree
  <2> HIDE DEF new
  <2> QED
    BY <2>1, <2>2, <2>3, <2>4 DEF CycleRight
<1>4. ASSUME NEW n \in Nodes, Filter(n), cycle' # NoCycle PROVE CycleRight'
  <2>1. /\ cycle # NoCycle /\ IsCycle(cycle) /\ UNCHANGED <<setup, nodes, policies, claims, pvs>>
    BY <1>4 DEF Filter, EnvUnchanged, OneAtATime
  <2>2. \A f \in {"pod", "nodes", "claims", "skip", "bound", "toBind", "left"} : cycle'[f] = cycle[f]
    BY <1>4, <2>1, FilterAdds
  <2>3. Past(setup'.edits, cycle'.left) /\ (cycle'.skip => cycle'.bound = {})
    BY <2>1, <2>2 DEF CycleRight, Past
  <2>4. ASSUME cycle.left = setup.edits
        PROVE  /\ cycle'.nodes = nodes' /\ \A c \in cycle'.bound : Stands(pvs', cycle'.claims[c])
               /\ \A p \in {cycle'.pod}, cs \in {cycle'.bound}, cl \in {cycle'.claims} :
                    \A m \in cycle'.fit : Right(p, m, cs, cl)'
    <3>1. /\ cycle.nodes = nodes /\ \A c \in cycle.bound : Stands(pvs, cycle.claims[c])
          /\ \A p \in {cycle.pod}, cs \in {cycle.bound}, cl \in {cycle.claims} :
               \A m \in cycle.fit : Right(p, m, cs, cl)
      BY <2>1, <2>4 DEF CycleRight
    <3>2. cycle'.nodes = nodes' /\ \A c \in cycle'.bound : Stands(pvs', cycle'.claims[c])
      BY <2>1, <2>2, <3>1 DEF Stands
    <3>3. ASSUME NEW p \in {cycle.pod}, NEW cs \in {cycle.bound}, NEW cl \in {cycle.claims}, NEW m \in cycle'.fit
          PROVE  Right(p, m, cs, cl)
      <4>1. CASE m \in cycle.fit
        BY <3>1, <4>1
      <4>2. CASE m \notin cycle.fit
        <5>1. /\ m = n /\ nodes[n] # NoOne /\ Tolerates(p, nodes[n]) /\ "fits" \in VolumeResults(n, nodes[n])
              /\ \E term \in Terms(p) : Admits(term, n, nodes[n])
          BY <1>4, <2>1, <3>1, <4>2, FilterAdds
        <5>2. Unambiguous => Admits(Meant(p), n, nodes[n])
          BY <5>1, TermMeant
        <5>3. nodes[n].mode \in Modes
          BY <5>1 DEF World, NodesOk, IsNode
        <5>4. \A c \in cycle.bound : InReach(cycle.claims[c].pv, n, nodes[n])
          BY <2>1, <3>1, <5>1, <5>3, FitsInReach DEF CycleRight
        <5> QED
          BY <3>1, <5>1, <5>2, <5>4 DEF Right, Stands
      <4> QED
        BY <4>1, <4>2
    <3>4. Steady
      BY <2>1 DEF Steady
    <3>5. \A p \in {cycle'.pod}, cs \in {cycle'.bound}, cl \in {cycle'.claims} :
            \A m \in cycle'.fit : Right(p, m, cs, cl)'
      BY <2>2, <3>3, <3>4, RightKept
    <3> QED
      BY <3>2, <3>5
  <2> QED
    BY <2>1, <2>2, <2>3, <2>4 DEF CycleRight
<1>5. ASSUME NEW p \in SchedPods, PreFilter(p) PROVE cycle' = cycle \/ ~Refused(p)
  BY <1>5 DEF PreFilter
<1>6. ASSUME NEW p \in SchedPods, Onward(p) \/ Bind(p) \/ Unreserve(p) \/ TryAgain(p) PROVE cycle' = cycle
  BY <1>6 DEF Onward, PreBind, Waited, BindFails, Bind, Unreserve, TryAgain, SchedUnchanged
<1>7. ASSUME NEW n \in Nodes, Reserve(n) PROVE cycle' = NoCycle
  BY <1>7 DEF Reserve
<1>8. CASE NoFit
  BY <1>1, <1>8 DEF NoFit
<1>9. CASE ClusterStep
  BY <1>2, <1>9, ClusterStepKeeps
<1>10. CASE UNCHANGED schedVars
  BY <1>2, <1>10 DEF schedVars
<1> QED
  BY <1>1, <1>2, <1>3, <1>4, <1>5, <1>6, <1>7, <1>8, <1>9, <1>10 DEF SchedNext, Onward, ClusterStep

(* The binding goroutine has a right node from the cycle, and goes on with *)
(* it.                                                                     *)
LEMMA BindingStep ==
  ASSUME World, OneAtATime, CycleRight, BindingRight, [SchedNext]_schedVars, Steady \/ Edited
  PROVE  BindingRight'
<1> DEFINE Same(b, d) == b.node = d.node /\ b.bound = d.bound /\ b.claims = d.claims /\ b.left = d.left
           RightOne(q) ==
             /\ Past(setup'.edits, binding'[q].left)
             /\ binding'[q].left = setup'.edits =>
                  \A n \in {binding'[q].node}, cs \in {binding'[q].bound}, cl \in {binding'[q].claims} :
                    Right(q, n, cs, cl)'
<1>1. ASSUME NEW q \in SchedPods, binding[q] # NoBinding, Same(binding'[q], binding[q])
      PROVE  RightOne(q)
  <2>1. /\ Past(setup.edits, binding[q].left)
        /\ binding[q].left = setup.edits =>
             \A n \in {binding[q].node}, cs \in {binding[q].bound}, cl \in {binding[q].claims} : Right(q, n, cs, cl)
    BY <1>1 DEF BindingRight
  <2>2. /\ Past(setup'.edits, binding[q].left)
        /\ binding[q].left = setup'.edits => Steady /\ binding[q].left = setup.edits
    BY <2>1, PastKept DEF World
  <2> QED
    BY <1>1, <2>1, <2>2, RightKept
<1>2. ASSUME \A q \in SchedPods : binding'[q] # NoBinding => RightOne(q)
      PROVE  BindingRight'
  BY <1>2 DEF BindingRight, NoBinding
<1>3. ASSUME \A q \in SchedPods : binding'[q] # NoBinding => binding[q] # NoBinding /\ Same(binding'[q], binding[q])
      PROVE  BindingRight'
  BY <1>1, <1>2, <1>3
<1>4. CASE binding' = binding
  BY <1>3, <1>4
<1>5. ASSUME NEW n \in Nodes, Reserve(n) PROVE BindingRight'
  <2>1. /\ cycle # NoCycle /\ n \in cycle.fit /\ UNCHANGED <<setup, nodes, policies, claims, pvs>>
    BY <1>5 DEF Reserve, Filtered, EnvUnchanged
  <2>2. PICK b : /\ binding' = [binding EXCEPT ![cycle.pod] = b] /\ b.node = n
                 /\ b.bound = cycle.bound /\ b.claims = cycle.claims /\ b.left = cycle.left
    BY <1>5, ReserveStarts
  <2>3. cycle.pod \in SchedPods /\ binding'[cycle.pod] = b /\ \A q \in SchedPods \ {cycle.pod} : binding'[q] = binding[q]
    BY <2>1, <2>2 DEF OneAtATime
  <2>4. ASSUME NEW q \in SchedPods, q = cycle.pod PROVE RightOne(q)
    <3>1. Steady
      BY <2>1 DEF Steady
    <3>2. /\ Past(setup.edits, cycle.left)
          /\ cycle.left = setup.edits =>
               \A p \in {cycle.pod}, cs \in {cycle.bound}, cl \in {cycle.claims} :
                 \A m \in cycle.fit : Right(p, m, cs, cl)
      BY <2>1 DEF CycleRight
    <3>3. cycle.left = setup.edits =>
            \A m \in {n}, cs \in {cycle.bound}, cl \in {cycle.claims} : Right(q, m, cs, cl)'
      BY <2>1, <2>4, <3>1, <3>2, RightKept
    <3> QED
      BY <2>1, <2>2, <2>3, <2>4, <3>2, <3>3
  <2> HIDE DEF RightOne
  <2>5. \A q \in SchedPods \ {cycle.pod} : binding'[q] # NoBinding => RightOne(q)
    BY <1>1, <2>3
  <2> QED
    BY <1>2, <2>4, <2>5
<1>6. ASSUME NEW p \in SchedPods, Onward(p) PROVE BindingRight'
  <2>1. PICK pc \in {"bind", "wait", "unreserve"} : Goto(p, pc)
    BY <1>6, OnwardGoes
  <2>2. binding[p] # NoBinding /\ IsBinding(binding[p])
    BY <1>6, OnwardGoes DEF OneAtATime
  <2>3. \A q \in SchedPods \ {p} : binding'[q] = binding[q]
    BY <2>1, <2>2, GotoKeeps
  <2>4. binding'[p] = [binding[p] EXCEPT !.pc = pc]
    BY <2>1, <2>2, GotoKeeps
  <2>5. Same(binding'[p], binding[p])
    BY <2>2, <2>4 DEF IsBinding
  <2> HIDE DEF Same
  <2>6. \A q \in SchedPods \ {p} : Same(binding'[q], binding[q])
    BY <2>3 DEF Same
  <2> QED
    BY <1>3, <2>2, <2>3, <2>5, <2>6
<1>7. ASSUME NEW p \in SchedPods, Bind(p) \/ Unreserve(p) PROVE BindingRight'
  <2>1. binding' = [binding EXCEPT ![p] = NoBinding]
    BY <1>7 DEF Bind, Unreserve
  <2>2. binding'[p] = NoBinding /\ \A q \in SchedPods \ {p} : binding'[q] = binding[q]
    BY <2>1 DEF OneAtATime
  <2> QED
    BY <1>3, <2>2
<1>8. ASSUME NEW p \in SchedPods, PreFilter(p) \/ TryAgain(p) PROVE binding' = binding
  BY <1>8 DEF PreFilter, TryAgain, SchedUnchanged
<1>9. ASSUME NEW n \in Nodes, Filter(n) PROVE binding' = binding
  BY <1>9 DEF Filter
<1>10. CASE NoFit
  BY <1>4, <1>10 DEF NoFit
<1>11. CASE ClusterStep
  BY <1>4, <1>11, ClusterStepKeeps
<1>12. CASE UNCHANGED schedVars
  BY <1>4, <1>12 DEF schedVars
<1> QED
  BY <1>4, <1>5, <1>6, <1>7, <1>8, <1>9, <1>10, <1>11, <1>12 DEF SchedNext, Onward, ClusterStep

(* The setups are worlds in which volumes and claims agree.                *)
LEMMA InitRight == SchedInit => World /\ CycleRight /\ BindingRight
<1> SUFFICES ASSUME SchedInit PROVE World /\ CycleRight /\ BindingRight
  OBVIOUS
<1>1. CycleRight /\ BindingRight
  BY DEF SchedInit, CycleRight, BindingRight
<1>2. PICK s \in Setups :
        /\ setup = [pods |-> s.pods, class |-> s.class, size |-> s.size, maker |-> s.maker,
                    local |-> s.local, later |-> s.later, edits |-> s.edits]
        /\ nodes = s.nodes /\ claims = s.claims /\ pvs = s.pvs
  BY DEF SchedInit
<1>3. /\ \A p \in SchedPods : s.pods[p].claims \subseteq Claims
      /\ s.edits \in [Edits -> Nat] /\ NodesOk(s.nodes) /\ Agree(s.claims, s.pvs)
  BY SetupsAssumption
<1>4. IsSetup(setup)
  BY <1>2, <1>3 DEF IsSetup
<1> QED
  BY <1>1, <1>2, <1>3, <1>4 DEF World

(* Only Bind writes a node into a pod.                                     *)
LEMMA OnlyBindPlaces ==
  ASSUME OneAtATime, [SchedNext]_schedVars, NEW p \in SchedPods, placed'[p] # placed[p], placed'[p] \in Nodes
  PROVE  Bind(p) /\ placed'[p] = binding[p].node
<1> SUFFICES ASSUME ~(Bind(p) /\ placed'[p] = binding[p].node) PROVE FALSE
  OBVIOUS
<1>1. ASSUME NEW q \in SchedPods, NEW x \in Queue, placed' = [placed EXCEPT ![q] = x] PROVE FALSE
  BY <1>1, NodesAssumption DEF OneAtATime
<1>2. ASSUME NEW q \in SchedPods, PreFilter(q) \/ Unreserve(q) \/ TryAgain(q) PROVE FALSE
  BY <1>1, <1>2 DEF PreFilter, Unreserve, TryAgain, Queue
<1>3. ASSUME NEW q \in SchedPods, Bind(q) PROVE FALSE
  BY <1>3 DEF Bind, OneAtATime
<1>4. ASSUME NEW n \in Nodes, Filter(n) PROVE FALSE
  <2>1. cycle # NoCycle
    BY <1>4 DEF Filter
  <2>2. placed' = placed \/ placed' = [placed EXCEPT ![cycle.pod] = "backoff"]
    BY <1>4 DEF Filter
  <2> QED
    BY <1>1, <2>1, <2>2 DEF Queue, OneAtATime
<1>5. CASE NoFit
  BY <1>1, <1>5 DEF NoFit, Filtered, Queue, OneAtATime
<1>6. ASSUME NEW n \in Nodes, Reserve(n) PROVE FALSE
  BY <1>6 DEF Reserve
<1>7. ASSUME NEW q \in SchedPods, Onward(q) PROVE FALSE
  BY <1>7, OnwardGoes
<1>8. CASE ClusterStep
  BY <1>8, ClusterStepKeeps
<1>9. CASE UNCHANGED schedVars
  BY <1>9 DEF schedVars
<1> QED
  BY <1>2, <1>3, <1>4, <1>5, <1>6, <1>7, <1>8, <1>9 DEF SchedNext, Onward, ClusterStep

(* A pod that is bound while nothing is edited lands on a node that its    *)
(* distribution policy and its tolerations allow and from which the        *)
(* volumes of its bound claims can be reached: the Filter of the three     *)
(* plugins decides on a snapshot, and neither the other bindings nor the   *)
(* volume controllers and the leaf clusters can make it wrong before Bind. *)
THEOREM LandsWhereAllowed == SchedSpec => LandsRight
<1> DEFINE Inv == OneAtATime /\ World /\ CycleRight /\ BindingRight
           Lands == \A p \in SchedPods :
             placed'[p] # placed[p] /\ placed'[p] \in Nodes /\ binding[p].left = setup.edits =>
               LET n == placed'[p] IN
               /\ Unambiguous => Admits(Meant(p), n, nodes[n])
               /\ Tolerates(p, nodes[n])
               /\ \A c \in binding[p].bound : InReach(binding[p].claims[c].pv, n, nodes[n])
<1>1. SchedInit => Inv
  BY InitOne, InitRight
<1>2. Inv /\ [SchedNext]_schedVars => Inv'
  BY StepOne, WorldStep, CycleStep, BindingStep
<1>3. Inv /\ [SchedNext]_schedVars => [Lands]_schedVars
  <2> SUFFICES ASSUME Inv, [SchedNext]_schedVars, NEW p \in SchedPods,
                      placed'[p] # placed[p], placed'[p] \in Nodes, binding[p].left = setup.edits
               PROVE  /\ Unambiguous => Admits(Meant(p), placed'[p], nodes[placed'[p]])
                      /\ Tolerates(p, nodes[placed'[p]])
                      /\ \A c \in binding[p].bound : InReach(binding[p].claims[c].pv, placed'[p], nodes[placed'[p]])
    OBVIOUS
  <2>1. Bind(p) /\ placed'[p] = binding[p].node
    BY OnlyBindPlaces
  <2>2. binding[p] # NoBinding
    BY <2>1, AtIsUnderWay DEF Bind
  <2>3. Right(p, binding[p].node, binding[p].bound, binding[p].claims)
    BY <2>2 DEF BindingRight
  <2> QED
    BY <2>1, <2>3 DEF Right
<1>4. LandsRight <=> [][Lands]_schedVars
  BY DEF LandsRight
<1> QED
  BY <1>1, <1>2, <1>3, <1>4, PTL DEF SchedSpec

-----------------------------------------------------------------------------
(* NodeStatus.                                                             *)

(* The shape of a virtual node. *)
IsRoot(r) == r = [ready |-> r.ready, avail |-> r.avail, taint |-> r.taint]
RootOk == root = [n \in VirtualNodes |-> root[n]] /\ \A n \in VirtualNodes : root[n] # None => IsRoot(root[n])

(* A lease is as old as the rounds in a row that failed, or one older when *)
(* this tick's round is still to come.                                     *)
LeaseOk ==
  /\ beat \in [VirtualNodes -> 0 .. LeaseRounds] /\ bad \in 0 .. LeaseRounds
  /\ \A n \in VirtualNodes : beat[n] <= IF "lease" \in ran THEN bad ELSE bad + 1

(* The store's observation of a cluster that is away is no older than the  *)
(* time without an answer.                                                 *)
SavedOk ==
  /\ unseen \in 0 .. FailureRounds
  /\ saved = None => unseen = FailureRounds
  /\ saved # None => saved \in [ready : BOOLEAN, age : 0 .. FailureRounds] /\ (~saved.ready => unseen >= saved.age)

(* What syncNodeStatus is about to write, on a node that nobody has        *)
(* written since it was read.                                              *)
WriteOk(st, r, u) ==
  /\ st.new.ready = "Unknown" => r.ready = "Unknown"
  /\ st.why = "away" /\ st.new.ready = "False" /\ r.ready = "True" => u >= FailureRounds
StatusOk ==
  status # Idle =>
    /\ status.at \in 1 .. Len(config.list)
    /\ status.pc = "get" => status = [at |-> status.at, pc |-> "get"]
    /\ status.pc = "pods" => status.ready \in {"True", "False"}
    /\ status.pc = "write" =>
         /\ status = [at |-> status.at, pc |-> "write", why |-> status.why, new |-> status.new]
         /\ IsRoot(status.new)
         /\ root[AtNode] # None /\ AtNode \notin touched => WriteOk(status, root[AtNode], unseen)

(* A patch never makes a node Unknown.                                     *)
PatchOk ==
  patch # Idle =>
    /\ patch.at \in 1 .. Len(config.list)
    /\ patch.pc = "write" => patch.new.ready \in {patch.old.ready, "True", "False"}

Ruled == config \in Configs /\ online \in BOOLEAN /\ RootOk /\ LeaseOk /\ SavedOk /\ StatusOk /\ PatchOk

(* At the start nothing is under way.                                      *)
LEMMA InitRuled == Init => Ruled
<1> SUFFICES ASSUME Init PROVE Ruled
  OBVIOUS
<1>1. RootOk
  BY DEF Init, RootOk, IsRoot, NewNode
<1>2. LeaseOk
  BY RoundAssumption DEF Init, LeaseOk
<1>3. SavedOk
  BY RoundAssumption DEF Init, SavedOk
<1> QED
  BY <1>1, <1>2, <1>3 DEF Init, Ruled, StatusOk, PatchOk

(* The node that a round is at is a virtual node.                          *)
LEMMA AtIsNode ==
  ASSUME Ruled
  PROVE  /\ status # Idle => AtNode \in VirtualNodes /\ (root[AtNode] # None => IsRoot(root[AtNode]))
         /\ patch # Idle => PatchNode \in VirtualNodes /\ (root[PatchNode] # None => IsRoot(root[PatchNode]))
<1> QED
  BY DEF Ruled, StatusOk, PatchOk, RootOk, AtNode, PatchNode, VirtualNodes

(* A round goes on with the next node of the list.                         *)
LEMMA FollowingOk ==
  ASSUME Ruled, status # Idle, status' = Following, config' = config
  PROVE  StatusOk'
<1>1. Len(config.list) \in Nat \ {0} /\ status.at \in 1 .. Len(config.list)
  BY ConfigAssumption DEF Ruled, StatusOk
<1>2. CASE status' = Idle
  BY <1>2 DEF StatusOk, Idle
<1>3. CASE status' = [at |-> status.at + 1, pc |-> "get"] /\ status.at # Len(config.list)
  <2>1. status'.at = status.at + 1 /\ status'.pc = "get"
    BY <1>3
  <2>2. status'.at \in 1 .. Len(config.list)
    BY <1>1, <1>3, <2>1
  <2> QED
    BY <1>3, <2>1, <2>2 DEF StatusOk
<1> QED
  BY <1>2, <1>3 DEF Following

(* What others do to a node that is about to be written shows.             *)
LEMMA StatusKept ==
  ASSUME Ruled, UNCHANGED <<config, status, unseen>>, touched \subseteq touched',
         \A n \in VirtualNodes : root'[n] = root[n] \/ root'[n] = None \/ n \in touched'
  PROVE  StatusOk'
<1>1. CASE status = Idle
  BY <1>1 DEF StatusOk, Idle
<1>2. CASE status # Idle
  <2> DEFINE m == AtNode
  <2>1. m \in VirtualNodes /\ AtNode' = m
    BY <1>2, AtIsNode DEF AtNode
  <2>2. root'[m] # None /\ m \notin touched' => root[m] # None /\ m \notin touched /\ root'[m] = root[m]
    BY <2>1
  <2>3. status.pc = "write" /\ root'[m] # None /\ m \notin touched' => WriteOk(status, root'[m], unseen)
    BY <1>2, <2>2 DEF Ruled, StatusOk
  <2> HIDE DEF m
  <2> QED
    BY <1>2, <2>1, <2>3 DEF Ruled, StatusOk, Idle
<1> QED
  BY <1>1, <1>2

(* The steps that leave the virtual nodes and what is known of them alone. *)
LEMMA QuietStep ==
  ASSUME Ruled, online' \in BOOLEAN, UNCHANGED <<config, root, beat, saved, status, touched, ran, unseen, bad, patch>>
  PROVE  Ruled'
<1>1. StatusOk'
  BY StatusKept
<1>2. VirtualNodes' = VirtualNodes
  BY DEF VirtualNodes
<1>3. RootOk' /\ LeaseOk' /\ SavedOk' /\ PatchOk'
  BY <1>2 DEF Ruled, RootOk, LeaseOk, SavedOk, PatchOk
<1> QED
  BY <1>1, <1>3 DEF Ruled

(* A node goes, or shows no sign of life.                                  *)
LEMMA NodeStep ==
  ASSUME Ruled, NEW n \in VirtualNodes, DeleteNode(n) \/ CollectLease(n) \/ Expire(n)
  PROVE  Ruled'
<1>1. UNCHANGED <<config, online, beat, saved, status, ran, unseen, bad, patch>>
  BY DEF DeleteNode, CollectLease, Expire, loopVars
<1>2. CASE DeleteNode(n)
  <2>1. root' = [root EXCEPT ![n] = None] /\ touched' = touched
    BY <1>2 DEF DeleteNode, loopVars
  <2>2. RootOk'
    BY <1>1, <2>1 DEF Ruled, RootOk, VirtualNodes
  <2>3. StatusOk'
    BY <1>1, <2>1, StatusKept DEF Ruled, RootOk
  <2> QED
    BY <1>1, <2>2, <2>3 DEF Ruled, LeaseOk, SavedOk, PatchOk, VirtualNodes
<1>3. CASE Expire(n)
  <2> DEFINE r == [root[n] EXCEPT !.ready = "Unknown"]
  <2>1. root' = [root EXCEPT ![n] = r] /\ touched' = touched \union {n} /\ root[n] # None
    BY <1>3 DEF Expire, Expired
  <2>2. IsRoot(r)
    BY <2>1 DEF Ruled, RootOk, IsRoot
  <2> HIDE DEF r
  <2>3. RootOk'
    BY <1>1, <2>1, <2>2 DEF Ruled, RootOk, VirtualNodes
  <2>4. StatusOk'
    BY <1>1, <2>1, StatusKept DEF Ruled, RootOk
  <2> QED
    BY <1>1, <2>3, <2>4 DEF Ruled, LeaseOk, SavedOk, PatchOk, VirtualNodes
<1>4. CASE CollectLease(n)
  BY <1>1, <1>4, QuietStep DEF CollectLease, loopVars, Ruled
<1> QED
  BY <1>2, <1>3, <1>4

(* With the tick, leases, the observation and the time without an answer   *)
(* age by a round.                                                         *)
LEMMA TickStep == ASSUME Ruled, Tick PROVE Ruled'
<1>1. /\ UNCHANGED <<config, online, root, status, touched, patch, bad>>
      /\ status = Idle /\ ran = {"lease", "status"} /\ ran' = {}
  BY DEF Tick
<1>2. StatusOk'
  BY <1>1 DEF StatusOk, Idle
<1>3. LeaseOk'
  <2>1. beat' = [n \in VirtualNodes |-> CapAt(beat[n] + 1, LeaseRounds)] /\ VirtualNodes' = VirtualNodes
    BY <1>1 DEF Tick, VirtualNodes
  <2>2. ASSUME NEW n \in VirtualNodes
        PROVE  CapAt(beat[n] + 1, LeaseRounds) \in 0 .. LeaseRounds /\ CapAt(beat[n] + 1, LeaseRounds) <= bad + 1
    <3>1. beat[n] \in 0 .. LeaseRounds /\ beat[n] <= bad /\ bad \in Nat
      BY <1>1 DEF Ruled, LeaseOk
    <3> QED
      BY <3>1, RoundAssumption DEF CapAt
  <2> QED
    BY <1>1, <2>1, <2>2 DEF Ruled, LeaseOk
<1>4. SavedOk'
  <2>1. unseen' = CapAt(unseen + 1, FailureRounds) /\ unseen \in 0 .. FailureRounds
    BY DEF Tick, Ruled, SavedOk
  <2>2. unseen' \in 0 .. FailureRounds /\ (unseen = FailureRounds => unseen' = FailureRounds)
    BY <2>1, RoundAssumption DEF CapAt
  <2>3. CASE saved = None
    BY <2>2, <2>3 DEF Tick, Ruled, SavedOk
  <2>4. CASE saved # None
    <3> DEFINE a == CapAt(saved.age + 1, FailureRounds)
    <3>1. saved \in [ready : BOOLEAN, age : 0 .. FailureRounds] /\ (~saved.ready => unseen >= saved.age)
      BY <2>4 DEF Ruled, SavedOk
    <3>2. a \in 0 .. FailureRounds /\ (unseen >= saved.age => unseen' >= a)
      BY <2>1, <3>1, RoundAssumption DEF CapAt
    <3>3. saved' = [saved EXCEPT !.age = a]
      BY <2>4 DEF Tick
    <3> HIDE DEF a
    <3>4. saved' \in [ready : BOOLEAN, age : 0 .. FailureRounds] /\ saved'.age = a /\ saved'.ready = saved.ready
      BY <3>1, <3>2, <3>3
    <3>5. saved' # None
      BY <3>4, NoneAssumption, RoundAssumption
    <3> QED
      BY <2>2, <3>1, <3>2, <3>4, <3>5 DEF SavedOk
  <2> QED
    BY <2>3, <2>4
<1> QED
  BY <1>1, <1>2, <1>3, <1>4 DEF Ruled, RootOk, PatchOk, VirtualNodes

(* After a restart nothing is under way, and nothing was observed.         *)
LEMMA RestartStep == ASSUME Ruled, Restart PROVE Ruled'
<1>1. /\ UNCHANGED <<config, online, bad>> /\ saved' = None /\ status' = Idle /\ patch' = Idle /\ ran' = {}
      /\ unseen' = FailureRounds /\ VirtualNodes' = VirtualNodes
  BY DEF Restart, VirtualNodes
<1>2. root' = [n \in VirtualNodes |-> IF root[n] = None THEN NewNode ELSE root[n]]
  BY DEF Restart
<1>3. RootOk'
  <2>1. IsRoot(NewNode)
    BY DEF IsRoot, NewNode
  <2> QED
    BY <1>1, <1>2, <2>1 DEF Ruled, RootOk
<1>4. LeaseOk'
  <2>1. beat' = [n \in VirtualNodes |-> IF root[n] = None THEN 0 ELSE beat[n]]
    BY DEF Restart
  <2>2. ASSUME NEW n \in VirtualNodes PROVE beat'[n] \in 0 .. LeaseRounds /\ beat'[n] <= bad + 1
    BY <2>1, RoundAssumption DEF Ruled, LeaseOk
  <2> QED
    BY <1>1, <2>1, <2>2 DEF Ruled, LeaseOk
<1>5. SavedOk'
  BY <1>1, RoundAssumption DEF SavedOk
<1> QED
  BY <1>1, <1>3, <1>4, <1>5 DEF Ruled, StatusOk, PatchOk

(* A round of syncLease renews all leases, or counts as failed.            *)
LEMMA LeaseStep == ASSUME Ruled, SyncLease PROVE Ruled'
<1>1. /\ UNCHANGED <<config, online, root, saved, status, touched, patch, unseen>>
      /\ "lease" \notin ran /\ "lease" \in ran' /\ VirtualNodes' = VirtualNodes
  BY DEF SyncLease, VirtualNodes
<1>2. beat \in [VirtualNodes -> 0 .. LeaseRounds] /\ bad \in 0 .. LeaseRounds /\ LeaseRounds \in Nat
  BY RoundAssumption DEF Ruled, LeaseOk
<1>3. \A n \in VirtualNodes : beat[n] <= bad + 1
  BY <1>1 DEF Ruled, LeaseOk
<1>4. ASSUME beat' = Beats(VirtualNodes, VirtualNodes) /\ bad' = 0 PROVE LeaseOk'
  <2>1. beat' = [n \in VirtualNodes |-> 0]
    BY <1>4 DEF Beats
  <2>2. beat' \in [VirtualNodes -> 0 .. LeaseRounds] /\ bad' \in 0 .. LeaseRounds /\ \A n \in VirtualNodes : beat'[n] <= bad'
    BY <1>2, <1>4, <2>1
  <2> QED
    BY <1>1, <2>2 DEF LeaseOk
<1>5. ASSUME bad' = CapAt(bad + 1, LeaseRounds) /\ \E d, e : beat' = Beats(d, e) \/ beat' = beat
      PROVE  LeaseOk'
  <2>1. bad' \in 0 .. LeaseRounds /\ (bad' = LeaseRounds \/ bad' = bad + 1)
    BY <1>2, <1>5 DEF CapAt
  <2>2. beat' = [n \in VirtualNodes |-> beat'[n]] /\ \A n \in VirtualNodes : beat'[n] = 0 \/ beat'[n] = beat[n]
    BY <1>2, <1>5 DEF Beats
  <2>3. \A n \in VirtualNodes : beat'[n] \in 0 .. LeaseRounds /\ beat'[n] <= bad'
    BY <1>2, <1>3, <2>1, <2>2
  <2>4. beat' \in [VirtualNodes -> 0 .. LeaseRounds]
    BY <2>2, <2>3
  <2> QED
    BY <1>1, <2>1, <2>3, <2>4 DEF LeaseOk
<1>6. LeaseOk'
  BY <1>4, <1>5 DEF SyncLease
<1>7. StatusOk'
  BY <1>1, StatusKept
<1> QED
  BY <1>1, <1>6, <1>7 DEF Ruled, RootOk, SavedOk, PatchOk

(* What the steps of syncNodeStatus leave alone.                           *)
LEMMA StatusLeaves ==
  ASSUME Ruled, SyncNodeStatus
  PROVE  /\ UNCHANGED <<config, online, patch, bad>> /\ VirtualNodes' = VirtualNodes
         /\ ("lease" \in ran' <=> "lease" \in ran)
<1>1. UNCHANGED <<config, online, patch, bad>> /\ (ran' = ran \/ ran' = ran \union {"status"})
  BY DEF SyncNodeStatus, StatusStart, StatusGet, StatusList, StatusMasters, StatusPods, StatusWrite, StatusTaint,
       StatusUnchanged
<1> QED
  BY <1>1 DEF VirtualNodes

(* A step of it keeps the rest when it writes no node and observes nothing. *)
LEMMA StatusRest ==
  ASSUME Ruled, SyncNodeStatus, UNCHANGED <<root, beat, saved, unseen>>, StatusOk'
  PROVE  Ruled'
<1>1. RootOk'
  BY StatusLeaves DEF Ruled, RootOk
<1>2. LeaseOk'
  BY StatusLeaves DEF Ruled, LeaseOk
<1>3. SavedOk' /\ PatchOk'
  BY StatusLeaves DEF Ruled, SavedOk, PatchOk
<1> QED
  BY <1>1, <1>2, <1>3, StatusLeaves DEF Ruled

(* A probe that is not answered makes a node not ready only when the time  *)
(* without an answer is over.                                              *)
LEMMA ProbeHeldBack ==
  ASSUME SavedOk, NEW cur, ~online, ~Retained(online, Observe(online), cur), cur = "True"
  PROVE  unseen >= FailureRounds
<1>1. CASE saved = None
  BY <1>1, RoundAssumption DEF SavedOk
<1>2. CASE saved # None
  <2>1. saved \in [ready : BOOLEAN, age : 0 .. FailureRounds] /\ (~saved.ready => unseen >= saved.age)
    BY <1>2 DEF SavedOk
  <2>2. ~(Observe(online).age < FailureRounds)
    BY <1>2 DEF Retained
  <2>3. CASE saved.ready # online
    <3>1. Observe(online).age = 0
      BY <1>2, <2>3 DEF Observe
    <3> QED
      BY <2>2, <3>1, RoundAssumption
  <2>4. CASE saved.ready = online
    <3>1. Observe(online) = saved
      BY <1>2, <2>4 DEF Observe
    <3> QED
      BY <2>1, <2>2, <2>4, <3>1, RoundAssumption DEF SavedOk
  <2> QED
    BY <2>3, <2>4
<1> QED
  BY <1>1, <1>2

(* The store takes the observation up.                                     *)
LEMMA ObserveSaved ==
  ASSUME SavedOk, online \in BOOLEAN, saved' = Observe(online), unseen' = IF online THEN 0 ELSE unseen
  PROVE  SavedOk'
<1>1. unseen \in 0 .. FailureRounds /\ unseen' \in 0 .. FailureRounds
  BY RoundAssumption DEF SavedOk
<1>2. saved' \in [ready : BOOLEAN, age : 0 .. FailureRounds] /\ (~saved'.ready => unseen' >= saved'.age)
  <2>1. CASE saved = None
    <3>1. saved' = [ready |-> online, age |-> FailureRounds] /\ unseen = FailureRounds
      BY <2>1 DEF Observe, SavedOk
    <3> QED
      BY <3>1, RoundAssumption
  <2>2. CASE saved # None /\ saved.ready # online
    <3>1. saved' = [ready |-> online, age |-> 0]
      BY <2>2 DEF Observe
    <3> QED
      BY <1>1, <3>1, RoundAssumption
  <2>3. CASE saved # None /\ saved.ready = online
    <3>1. saved' = saved
      BY <2>3 DEF Observe
    <3> QED
      BY <2>3, <3>1 DEF SavedOk
  <2> QED
    BY <2>1, <2>2, <2>3
<1>3. saved' # None
  BY <1>2, NoneAssumption, RoundAssumption
<1> QED
  BY <1>1, <1>2, <1>3 DEF SavedOk

(* A node is read, and the leaf cluster is probed.                         *)
LEMMA GetStep == ASSUME Ruled, StatusGet PROVE Ruled'
<1> DEFINE r == root[AtNode]
           now == Observe(online)
           cond == IF Retained(online, now, r.ready) THEN r.ready ELSE IF online THEN "True" ELSE "False"
           new == [r EXCEPT !.ready = cond]
<1>1. /\ status # Idle /\ status.pc = "get" /\ UNCHANGED <<config, online, root, beat, ran, bad, patch>>
      /\ touched' = touched \ {AtNode} /\ VirtualNodes' = VirtualNodes
  BY DEF StatusGet, StatusUnchanged, VirtualNodes
<1>2. RootOk' /\ LeaseOk' /\ PatchOk'
  BY <1>1 DEF Ruled, RootOk, LeaseOk, PatchOk
<1>3. status = [at |-> status.at, pc |-> "get"] /\ status.at \in 1 .. Len(config.list)
  BY <1>1 DEF Ruled, StatusOk
<1>4. ASSUME status' = [status EXCEPT !.pc = "list"] PROVE StatusOk'
  <2>1. status'.at = status.at /\ status'.pc = "list"
    BY <1>3, <1>4
  <2> QED
    BY <1>1, <1>3, <2>1 DEF StatusOk
<1>5. CASE r = None
  <2>1. status' = Following /\ UNCHANGED <<saved, unseen>>
    BY <1>5 DEF StatusGet
  <2>2. StatusOk'
    BY <1>1, <2>1, FollowingOk
  <2> QED
    BY <1>1, <1>2, <2>1, <2>2 DEF Ruled, SavedOk
<1>6. CASE r # None /\ ~config.notready
  <2>1. status' = [status EXCEPT !.pc = "list"] /\ UNCHANGED <<saved, unseen>>
    BY <1>6 DEF StatusGet
  <2> QED
    BY <1>1, <1>2, <1>4, <2>1 DEF Ruled, SavedOk
<1>7. CASE r # None /\ config.notready
  <2>1. saved' = now /\ unseen' = IF online THEN 0 ELSE unseen
    BY <1>7 DEF StatusGet
  <2>2. SavedOk'
    BY <2>1, ObserveSaved DEF Ruled
  <2>3. CASE ~online /\ cond # "True"
    <3>1. status' = [at |-> status.at, pc |-> "write", why |-> "away", new |-> new]
      BY <1>7, <2>3 DEF StatusGet
    <3>2. IsRoot(r)
      BY <1>1, <1>7, AtIsNode
    <3>3. cond \in {r.ready, "False"} /\ (r.ready = "True" => ~Retained(online, now, r.ready))
      BY <2>3
    <3>4. r.ready = "True" => unseen >= FailureRounds
      BY <2>3, <3>3, ProbeHeldBack DEF Ruled
    <3> HIDE DEF cond, r
    <3>5. IsRoot(new) /\ new.ready = cond
      BY <3>2 DEF IsRoot
    <3> HIDE DEF new
    <3>6. status'.at = status.at /\ status'.pc = "write" /\ status'.why = "away" /\ status'.new = new
      BY <3>1
    <3>7. WriteOk(status', r, unseen')
      BY <2>1, <2>3, <3>3, <3>4, <3>5, <3>6 DEF WriteOk
    <3>8. root'[config'.list[status'.at]] = r
      BY <1>1, <3>6 DEF r, AtNode
    <3>9. StatusOk'
      BY <1>1, <1>3, <3>1, <3>5, <3>6, <3>7, <3>8 DEF StatusOk, AtNode
    <3> QED
      BY <1>1, <1>2, <2>2, <3>9 DEF Ruled
  <2>4. CASE ~(~online /\ cond # "True")
    <3>1. status' = [status EXCEPT !.pc = "list"]
      BY <1>7, <2>4 DEF StatusGet
    <3> QED
      BY <1>1, <1>2, <1>4, <2>2, <3>1 DEF Ruled
  <2> QED
    BY <2>3, <2>4
<1> QED
  BY <1>5, <1>6, <1>7

(* The reads of the leaf cluster prepare a write that makes no node        *)
(* Unknown.                                                                *)
LEMMA ReadStep == ASSUME Ruled, StatusStart \/ StatusList \/ StatusMasters \/ StatusPods PROVE Ruled'
<1>1. /\ UNCHANGED <<config, root, beat, saved, unseen>> /\ touched' \subseteq touched /\ SyncNodeStatus
      /\ Len(config.list) \in Nat \ {0}
  BY ConfigAssumption DEF Ruled, StatusStart, StatusList, StatusMasters, StatusPods, StatusUnchanged, SyncNodeStatus
<1>2. ASSUME NEW why \in {"leaf", "masters"}, NEW new, IsRoot(new), new.ready \in {"True", "False"}, status # Idle,
             status' = [at |-> status.at, pc |-> "write", why |-> why, new |-> new]
      PROVE  StatusOk'
  <2>1. status'.at = status.at /\ status'.pc = "write" /\ status'.why = why /\ status'.new = new
    BY <1>2
  <2>2. WriteOk(status', root'[AtNode'], unseen')
    BY <1>2, <2>1 DEF WriteOk
  <2>3. status.at \in 1 .. Len(config.list)
    BY <1>2 DEF Ruled, StatusOk
  <2> QED
    BY <1>1, <1>2, <2>1, <2>2, <2>3 DEF StatusOk
<1>3. CASE StatusStart
  <2>1. status' = [at |-> 1, pc |-> "get"]
    BY <1>3 DEF StatusStart
  <2>2. status'.at = 1 /\ status'.pc = "get"
    BY <2>1
  <2>3. StatusOk'
    BY <1>1, <2>1, <2>2 DEF StatusOk
  <2> QED
    BY <1>1, <2>3, StatusRest
<1>4. CASE StatusList
  <2> DEFINE found == GetLeafNodes(AtNode)
             l == CHOOSE x \in DOMAIN found : TRUE
             new == [ready |-> IF found[l] = "notready" THEN "False" ELSE "True",
                     avail |-> Capacity, taint |-> l \in leaf.taints]
  <2>1. \/ status' = Following
        \/ status' = [at |-> status.at, pc |-> "write", why |-> "leaf", new |-> new]
        \/ status' = [at |-> status.at, pc |-> "masters", nodes |-> found]
    BY <1>4 DEF StatusList
  <2>2. status # Idle /\ status.at \in 1 .. Len(config.list)
    BY <1>4 DEF StatusList, Ruled, StatusOk
  <2>3. IsRoot(new) /\ new.ready \in {"True", "False"}
    BY DEF IsRoot
  <2> HIDE DEF new, found
  <2>4. ASSUME status' = [at |-> status.at, pc |-> "masters", nodes |-> found] PROVE StatusOk'
    <3>1. status'.at = status.at /\ status'.pc = "masters"
      BY <2>4
    <3> QED
      BY <1>1, <2>2, <3>1 DEF StatusOk
  <2>5. StatusOk'
    BY <1>1, <1>2, <2>1, <2>2, <2>3, <2>4, FollowingOk
  <2> QED
    BY <1>1, <2>5, StatusRest
<1>5. CASE StatusMasters
  <2>1. PICK x \in {"True", "False"} :
          status' = [at |-> status.at, pc |-> "pods", nodes |-> status.nodes, ready |-> x]
    BY <1>5 DEF StatusMasters
  <2>2. status # Idle /\ status.at \in 1 .. Len(config.list)
    BY <1>5 DEF StatusMasters, Ruled, StatusOk
  <2>3. status'.at = status.at /\ status'.pc = "pods" /\ status'.ready = x
    BY <2>1
  <2>4. StatusOk'
    BY <1>1, <2>2, <2>3 DEF StatusOk
  <2> QED
    BY <1>1, <2>4, StatusRest
<1>6. CASE StatusPods
  <2> DEFINE new == [ready |-> status.ready, avail |-> CalculateClusterResources(status.nodes), taint |-> root[AtNode].taint]
  <2>1. \/ status' = Following
        \/ status' = [at |-> status.at, pc |-> "write", why |-> "masters", new |-> new]
    BY <1>6 DEF StatusPods
  <2>2. status # Idle /\ status.pc = "pods"
    BY <1>6 DEF StatusPods
  <2>3. IsRoot(new) /\ new.ready \in {"True", "False"}
    BY <2>2 DEF IsRoot, Ruled, StatusOk
  <2> HIDE DEF new
  <2>4. StatusOk'
    BY <1>1, <1>2, <2>1, <2>2, <2>3, FollowingOk
  <2> QED
    BY <1>1, <2>4, StatusRest
<1> QED
  BY <1>3, <1>4, <1>5, <1>6

(* A node is written, or its taints are patched, and the round goes on.    *)
LEMMA WriteStep == ASSUME Ruled, StatusWrite \/ StatusTaint PROVE Ruled'
<1>1. /\ status # Idle /\ SyncNodeStatus /\ UNCHANGED <<config, saved, touched, unseen>>
      /\ AtNode \in VirtualNodes /\ (root[AtNode] # None => IsRoot(root[AtNode]))
  BY AtIsNode DEF StatusWrite, StatusTaint, StatusUnchanged, SyncNodeStatus
<1>2. ASSUME status' = Following PROVE StatusOk'
  BY <1>1, <1>2, FollowingOk
<1>3. ASSUME NEW r, root' = [root EXCEPT ![AtNode] = r], IsRoot(r) PROVE RootOk'
  BY <1>3, StatusLeaves, <1>1 DEF Ruled, RootOk
<1>4. ASSUME beat' = beat \/ beat' = [beat EXCEPT ![AtNode] = 0] PROVE LeaseOk'
  <2>1. /\ beat' \in [VirtualNodes -> 0 .. LeaseRounds]
        /\ \A n \in VirtualNodes : beat'[n] = 0 \/ beat'[n] = beat[n]
    BY <1>1, <1>4, RoundAssumption DEF Ruled, LeaseOk
  <2>2. UNCHANGED bad /\ VirtualNodes' = VirtualNodes /\ ("lease" \in ran' <=> "lease" \in ran)
    BY <1>1, StatusLeaves
  <2>3. bad \in 0 .. LeaseRounds /\ \A n \in VirtualNodes : beat[n] <= IF "lease" \in ran THEN bad ELSE bad + 1
    BY DEF Ruled, LeaseOk
  <2> QED
    BY <2>1, <2>2, <2>3, RoundAssumption DEF LeaseOk
<1>5. SavedOk' /\ PatchOk' /\ config' \in Configs /\ online' \in BOOLEAN
  BY <1>1, StatusLeaves DEF Ruled, SavedOk, PatchOk
<1>6. CASE StatusTaint
  <2>1. root' = IF root[AtNode] = None THEN root
                ELSE [root EXCEPT ![AtNode] = [root[AtNode] EXCEPT !.taint = status.new.taint]]
    BY <1>6, <1>1 DEF StatusTaint, Ruled, RootOk
  <2>2. RootOk'
    <3>1. CASE root[AtNode] = None
      BY <1>1, <2>1, <3>1, StatusLeaves DEF Ruled, RootOk
    <3>2. CASE root[AtNode] # None
      <4>1. IsRoot([root[AtNode] EXCEPT !.taint = status.new.taint])
        BY <1>1, <3>2 DEF IsRoot
      <4> QED
        BY <1>3, <2>1, <3>2, <4>1
    <3> QED
      BY <3>1, <3>2
  <2> QED
    BY <1>2, <1>4, <1>5, <1>6, <2>2 DEF StatusTaint, Ruled
<1>7. CASE StatusWrite
  <2> DEFINE new == [status.new EXCEPT !.taint = root[AtNode].taint]
  <2>1. /\ status.pc = "write" /\ IsRoot(status.new) /\ status.at \in 1 .. Len(config.list)
        /\ status = [at |-> status.at, pc |-> "write", why |-> status.why, new |-> status.new]
    BY <1>1, <1>7 DEF StatusWrite, Ruled, StatusOk
  <2>2. IsRoot(new)
    BY <2>1 DEF IsRoot
  <2>3. \/ UNCHANGED <<root, beat>> /\ (status' = Following \/ status' = [at |-> status.at, pc |-> "get"])
        \/ /\ root' = [root EXCEPT ![AtNode] = new] /\ (beat' = beat \/ beat' = [beat EXCEPT ![AtNode] = 0])
           /\ status' = Following \/ status' = [status EXCEPT !.pc = "taint"]
    BY <1>7 DEF StatusWrite
  <2> HIDE DEF new
  <2>4. RootOk' /\ LeaseOk'
    <3>1. CASE UNCHANGED <<root, beat>>
      BY <1>1, <1>4, <3>1, StatusLeaves DEF Ruled, RootOk
    <3>2. CASE root' = [root EXCEPT ![AtNode] = new] /\ (beat' = beat \/ beat' = [beat EXCEPT ![AtNode] = 0])
      BY <1>3, <1>4, <2>2, <3>2
    <3> QED
      BY <2>3, <3>1, <3>2
  <2>5. ASSUME status' = [at |-> status.at, pc |-> "get"] PROVE StatusOk'
    <3>1. status'.at = status.at /\ status'.pc = "get"
      BY <2>5
    <3> QED
      BY <1>1, <2>1, <2>5, <3>1 DEF StatusOk
  <2>6. ASSUME status' = [status EXCEPT !.pc = "taint"] PROVE StatusOk'
    <3>1. status'.at = status.at /\ status'.pc = "taint"
      BY <2>1, <2>6
    <3> QED
      BY <1>1, <2>1, <3>1 DEF StatusOk
  <2> QED
    BY <1>2, <1>5, <2>3, <2>4, <2>5, <2>6 DEF Ruled
<1> QED
  BY <1>6, <1>7

(* A patch that is written shows, and makes no ready node Unknown.         *)
LEMMA PatchWrites ==
  ASSUME Ruled, PatchWrite, root[PatchNode] # None, NEW r, r = MergePatch(root[PatchNode], patch.old, patch.new)
  PROVE  /\ IsRoot(r) /\ (r.ready = "Unknown" => root[PatchNode].ready = "Unknown")
         /\ r.ready \in {root[PatchNode].ready, "True", "False"}
<1>1. patch # Idle /\ patch.new.ready \in {patch.old.ready, "True", "False"} /\ IsRoot(root[PatchNode])
  BY AtIsNode DEF PatchWrite, Ruled, PatchOk
<1>2. DOMAIN root[PatchNode] = {"ready", "avail", "taint"}
  BY <1>1 DEF IsRoot
<1>3. /\ DOMAIN r = {"ready", "avail", "taint"} /\ r = [f \in DOMAIN r |-> r[f]]
      /\ r.ready = IF patch.new.ready # patch.old.ready THEN patch.new.ready ELSE root[PatchNode].ready
  BY <1>2 DEF MergePatch
<1>4. IsRoot(r)
  BY <1>3 DEF IsRoot
<1> QED
  BY <1>1, <1>3, <1>4

(* The rounds of NodeResourcesController.                                  *)
LEMMA PatchStep == ASSUME Ruled, Reconcile PROVE Ruled'
<1>1. /\ UNCHANGED <<config, online, beat, saved, status, ran, unseen, bad>> /\ VirtualNodes' = VirtualNodes
      /\ Len(config.list) \in Nat \ {0}
  BY ConfigAssumption DEF Ruled, Reconcile, PatchTake, PatchRead, PatchWrite, PatchUnchanged, VirtualNodes
<1>2. LeaseOk' /\ SavedOk' /\ config' \in Configs /\ online' \in BOOLEAN
  BY <1>1 DEF Ruled, LeaseOk, SavedOk
<1>3. ASSUME UNCHANGED <<root, touched>> PROVE RootOk' /\ StatusOk'
  <2>1. RootOk'
    BY <1>1, <1>3 DEF Ruled, RootOk
  <2> QED
    BY <1>1, <1>3, <2>1, StatusKept
<1>4. ASSUME patch' = Idle PROVE PatchOk'
  BY <1>4 DEF PatchOk, Idle
<1>5. ASSUME NEW k \in 1 .. Len(config.list), patch' = [at |-> k, pc |-> "read"] PROVE PatchOk'
  <2>1. patch'.at = k /\ patch'.pc = "read"
    BY <1>5
  <2> QED
    BY <1>1, <2>1 DEF PatchOk
<1>6. CASE PatchTake
  BY <1>1, <1>2, <1>3, <1>5, <1>6 DEF PatchTake, Ruled
<1>7. CASE PatchRead
  <2> DEFINE found == GetLeafNodes(PatchNode)
             l == CHOOSE x \in DOMAIN found : TRUE
             new == [root[PatchNode] EXCEPT !.avail = CalculateClusterResources(found)]
             up == IF found[l] = "notready" THEN "False" ELSE "True"
             other == [new EXCEPT !.ready = up, !.taint = FALSE]
  <2>1. UNCHANGED <<root, touched>> /\ patch # Idle /\ patch.at \in 1 .. Len(config.list)
    BY <1>7 DEF PatchRead, Ruled, PatchOk
  <2>2. \/ patch' = Idle
        \/ /\ root[PatchNode] # None
           /\ \E x \in {new, other} : patch' = [at |-> patch.at, pc |-> "write", old |-> root[PatchNode], new |-> x]
    BY <1>7 DEF PatchRead, PatchFails
  <2>3. ASSUME root[PatchNode] # None
        PROVE  new.ready = root[PatchNode].ready /\ other.ready \in {"True", "False"}
    <3>1. IsRoot(root[PatchNode])
      BY <2>1, <2>3, AtIsNode
    <3>2. IsRoot(new) /\ new.ready = root[PatchNode].ready
      BY <3>1 DEF IsRoot
    <3> HIDE DEF new, up
    <3>3. other.ready = up
      BY <3>2 DEF IsRoot
    <3> QED
      BY <3>2, <3>3 DEF up
  <2> HIDE DEF new, other
  <2>4. ASSUME NEW x \in {new, other}, root[PatchNode] # None,
               patch' = [at |-> patch.at, pc |-> "write", old |-> root[PatchNode], new |-> x]
        PROVE  PatchOk'
    <3>1. patch'.at = patch.at /\ patch'.new = x /\ patch'.old = root[PatchNode]
      BY <2>4
    <3> QED
      BY <1>1, <2>1, <2>3, <2>4, <3>1 DEF PatchOk
  <2> QED
    BY <1>1, <1>2, <1>3, <1>4, <2>1, <2>2, <2>4 DEF Ruled
<1>8. CASE PatchWrite
  <2>1. patch # Idle /\ patch.at \in 1 .. Len(config.list) /\ PatchNode \in VirtualNodes
    BY <1>8, AtIsNode DEF PatchWrite, Ruled, PatchOk
  <2>2. CASE PatchFails /\ UNCHANGED <<root, touched>>
    BY <1>2, <1>3, <1>4, <2>2 DEF PatchFails, Ruled
  <2>3. CASE ~(PatchFails /\ UNCHANGED <<root, touched>>)
    <3> DEFINE r == MergePatch(root[PatchNode], patch.old, patch.new)
    <3>1. /\ root[PatchNode] # None /\ root' = [root EXCEPT ![PatchNode] = r]
          /\ touched' = IF root' # root THEN touched \union {PatchNode} ELSE touched
          /\ patch' = IF patch.at = Len(config.list) THEN Idle ELSE [at |-> patch.at + 1, pc |-> "read"]
      BY <1>8, <2>3 DEF PatchWrite
    <3>2. IsRoot(r)
      BY <1>8, <3>1, PatchWrites
    <3> HIDE DEF r
    <3>3. RootOk'
      BY <1>1, <2>1, <3>1, <3>2 DEF Ruled, RootOk
    <3>4. StatusOk'
      BY <1>1, <3>1, StatusKept DEF Ruled, RootOk
    <3>5. PatchOk'
      BY <1>1, <1>4, <1>5, <2>1, <3>1
    <3> QED
      BY <1>2, <3>3, <3>4, <3>5 DEF Ruled
  <2> QED
    BY <2>2, <2>3
<1> QED
  BY <1>6, <1>7, <1>8 DEF Reconcile

(* Every step keeps the invariant.                                         *)
LEMMA StepRuled == Ruled /\ [Next]_vars => Ruled'
<1> SUFFICES ASSUME Ruled, [Next]_vars PROVE Ruled'
  OBVIOUS
<1>1. CASE Flap \/ ChangeLeaf
  BY <1>1, QuietStep DEF Flap, ChangeLeaf, Ruled, rootVars, loopVars
<1>2. CASE UNCHANGED vars
  BY <1>2, QuietStep DEF vars, Ruled, rootVars, loopVars
<1>3. CASE SyncNodeStatus
  BY <1>3, GetStep, ReadStep, WriteStep DEF SyncNodeStatus
<1> QED
  BY <1>1, <1>2, <1>3, NodeStep, TickStep, RestartStep, LeaseStep, PatchStep DEF Next

(* A node that is ready stops being so only by one of three steps.         *)
LEMMA LosesReady ==
  ASSUME Ruled, [Next]_vars, NEW n \in VirtualNodes, root[n] # None, root'[n] # None, root'[n].ready # root[n].ready
  PROVE  \/ Expire(n)
         \/ /\ StatusWrite /\ AtNode = n /\ n \notin touched /\ status # Idle /\ status.pc = "write"
            /\ root'[n].ready = status.new.ready
         \/ PatchWrite /\ root'[n].ready # "Unknown"
<1>1. root'[n] # root[n] /\ n \in DOMAIN root /\ IsRoot(root[n])
  BY DEF Ruled, RootOk
<1>2. ASSUME NEW m \in VirtualNodes, DeleteNode(m) \/ CollectLease(m) \/ Expire(m) PROVE Expire(n)
  BY <1>1, <1>2 DEF DeleteNode, CollectLease, Expire, Ruled, RootOk
<1>3. ASSUME Restart PROVE FALSE
  BY <1>1, <1>3 DEF Restart
<1>4. ASSUME StatusTaint PROVE FALSE
  <2>1. root' = root \/ root' = [root EXCEPT ![AtNode].taint = status.new.taint]
    BY <1>4 DEF StatusTaint
  <2>2. AtNode = n /\ root'[n] = [root[n] EXCEPT !.taint = status.new.taint]
    BY <1>1, <2>1 DEF Ruled, RootOk
  <2> QED
    BY <1>1, <2>2 DEF IsRoot
<1>5. ASSUME StatusWrite
      PROVE  /\ AtNode = n /\ n \notin touched /\ status # Idle /\ status.pc = "write"
             /\ root'[n].ready = status.new.ready
  <2>1. /\ AtNode \notin touched /\ root' = [root EXCEPT ![AtNode] = [status.new EXCEPT !.taint = root[AtNode].taint]]
        /\ status # Idle /\ status.pc = "write"
    BY <1>1, <1>5 DEF StatusWrite
  <2>2. AtNode = n /\ root'[n] = [status.new EXCEPT !.taint = root[AtNode].taint]
    BY <1>1, <2>1 DEF Ruled, RootOk
  <2>3. IsRoot(status.new)
    BY <2>1 DEF Ruled, StatusOk
  <2>4. [status.new EXCEPT !.taint = root[AtNode].taint].ready = status.new.ready
    BY <2>3 DEF IsRoot
  <2> QED
    BY <2>1, <2>2, <2>4
<1>6. ASSUME PatchWrite PROVE root'[n].ready # "Unknown"
  <2> DEFINE r == MergePatch(root[PatchNode], patch.old, patch.new)
  <2>1. root[PatchNode] # None /\ root' = [root EXCEPT ![PatchNode] = r]
    BY <1>1, <1>6 DEF PatchWrite
  <2>2. r.ready = "Unknown" => root[PatchNode].ready = "Unknown"
    BY <1>6, <2>1, PatchWrites
  <2> HIDE DEF r
  <2>3. PatchNode = n /\ root'[n] = r
    BY <1>1, <2>1 DEF Ruled, RootOk
  <2> QED
    BY <2>2, <2>3
<1>7. root' # root
  BY <1>1
<1>8. ~(Flap \/ ChangeLeaf \/ Tick \/ SyncLease \/ PatchTake \/ PatchRead \/ UNCHANGED vars)
  BY <1>7 DEF Flap, ChangeLeaf, Tick, SyncLease, PatchTake, PatchRead, vars, rootVars
<1>9. ~(StatusStart \/ StatusGet \/ StatusList \/ StatusMasters \/ StatusPods)
  BY <1>7 DEF StatusStart, StatusGet, StatusList, StatusMasters, StatusPods
<1> QED
  BY <1>2, <1>3, <1>4, <1>5, <1>6, <1>8, <1>9 DEF Next, SyncNodeStatus, Reconcile

(* A ready node is declared not ready, because its cluster is away, only   *)
(* when no probe was answered for the whole threshold.                     *)
THEOREM ThresholdHeld == Spec => HeldBack
<1> DEFINE Kept == \A n \in VirtualNodes : Loses(n, "False") /\ Writes(n, "away") => unseen >= FailureRounds
<1>1. Ruled /\ [Next]_vars => [Kept]_vars
  <2> SUFFICES ASSUME Ruled, [Next]_vars, NEW n \in VirtualNodes, Loses(n, "False"), Writes(n, "away")
               PROVE  unseen >= FailureRounds
    OBVIOUS
  <2>1. /\ root[n] # None /\ root'[n] # None /\ root[n].ready = "True" /\ root'[n].ready = "False"
        /\ status # Idle /\ status.pc = "write" /\ AtNode = n /\ status.why = "away" /\ status' # status
    BY DEF Loses, Writes
  <2>2. ~PatchWrite
    BY <2>1 DEF PatchWrite, PatchUnchanged
  <2>3. ~Expire(n)
    BY <2>1 DEF Expire
  <2> QED
    BY <2>1, <2>2, <2>3, LosesReady DEF Ruled, StatusOk, WriteOk
<1>2. HeldBack <=> [][Kept]_vars
  BY DEF HeldBack
<1> QED
  BY <1>1, <1>2, InitRuled, StepRuled, PTL DEF Spec

(* A node expires only after every lease round of the lease's duration     *)
(* failed: the ping, a write, or the read of a lease that was just made.   *)
THEOREM NoExpiryWhileRenewed == Spec => NoFalseExpiry
<1> DEFINE Fresh == \A n \in VirtualNodes : Loses(n, "Unknown") => bad >= LeaseRounds - 1
<1>1. Ruled /\ [Next]_vars => [Fresh]_vars
  <2> SUFFICES ASSUME Ruled, [Next]_vars, NEW n \in VirtualNodes, Loses(n, "Unknown") PROVE bad >= LeaseRounds - 1
    OBVIOUS
  <2>1. root[n] # None /\ root'[n] # None /\ root[n].ready = "True" /\ root'[n].ready = "Unknown"
    BY DEF Loses
  <2>2. Expire(n)
    BY <2>1, LosesReady DEF Ruled, StatusOk, WriteOk
  <2>3. beat[n] >= LeaseRounds
    BY <2>2 DEF Expire, Expired
  <2> QED
    BY <2>3, RoundAssumption DEF Ruled, LeaseOk
<1>2. NoFalseExpiry <=> [][Fresh]_vars
  BY DEF NoFalseExpiry
<1> QED
  BY <1>1, <1>2, InitRuled, StepRuled, PTL DEF Spec
=============================================================================
