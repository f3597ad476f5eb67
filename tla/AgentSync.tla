----------------------------- MODULE AgentSync -----------------------------
(***************************************************************************)
(* The ClusterLink agent of one node: it carries the node's NodeConfig     *)
(* into the kernel.  agent_controller.go reconciles the NodeConfig and     *)
(* hands it to network_manager.go, a created or updated one 5 seconds      *)
(* after the last event (debounced), a deleted one at once; a timer checks *)
(* the kernel against the last configuration every 30 seconds.             *)
(*                                                                         *)
(* A configuration has vxlan devices and rules: the routes, arps and fdbs, *)
(* each on a device, and the iptables rules, on none.  The kernel drops    *)
(* the rules of a device together with the device.                         *)
(***************************************************************************)
EXTENDS Integers, FiniteSets

CONSTANTS
  Devices, Rules,  \* device names; routes, arps, fdbs and iptables rules
  Attrs,           \* what Device.Compare compares: address, mac, port ...
  DevOf,           \* DevOf[r]: the device of rule r, or NoDev (iptables)
  NoDev,
  Sticky,          \* arps and fdbs of ff:ff:ff:ff:ff:ff, which Diff never deletes
  Published,       \* the configurations the network manager may publish
  NoConfig,        \* "there is no NodeConfig", "nothing is debounced"
  AgentBudgets     \* how often each disturbance may happen: one of these

AgentDisturbances == {"edit", "delete", "lookup", "fail", "drift", "restart"}

(* A device of the kernel: absent, present without its address (its        *)
(* creation failed half way), or with the attributes of a configuration.   *)
Config == [dev : [Devices -> Attrs \union {"none"}], rules : SUBSET Rules]
Kernel == [dev : [Devices -> Attrs \union {"none", "half"}], rules : SUBSET Rules]
Empty == [dev |-> [d \in Devices |-> "none"], rules |-> {}]

ASSUME RulesAssumption == DevOf \in [Rules -> Devices \union {NoDev}] /\ NoDev \notin Devices
ASSUME StickyAssumption == Sticky \subseteq Rules
ASSUME AttrsAssumption == "none" \notin Attrs /\ "half" \notin Attrs
(* A rule may be published without its device: the routes of a gateway     *)
(* that is not the first of its cluster, for one (pod_routes.go).          *)
ASSUME PublishedAssumption == Published \subseteq Config
ASSUME NoConfigAssumption == NoConfig \notin Config
ASSUME AgentBudgetAssumption == AgentBudgets \subseteq [AgentDisturbances -> Nat]

VARIABLES
  want,     \* the NodeConfig in the API server, or NoConfig
  queued,   \* is the NodeConfig's name in the work queue
  timer,    \* the configuration being debounced, or NoConfig
  waiting,  \* calls of UpdateFromCRD that wait for the lock
  to,       \* e.ToConfig
  status,   \* e.Status
  logged,   \* the last result handed to logResult
  sys,      \* devices and rules of the kernel
  passes,   \* history: passes over `to` since the last fault or change, up to 2
  agentBudget    \* disturbances left

apiVars == <<want, queued, timer>>
netVars == <<to, status, logged, sys, passes>>
agentVars == <<apiVars, waiting, netVars, agentBudget>>

Call == [by : {"timer", "worker"}, cfg : Published \union {Empty}]
Result == {"none", "success", "exception"}

AgentTypeOK ==
  /\ want \in Published \union {NoConfig}
  /\ queued \in {"no", "yes"}
  /\ timer \in Published \union {NoConfig}
  /\ waiting \subseteq Call
  /\ to \in Published \union {Empty}
  /\ status \in Result /\ logged \in Result
  /\ sys \in Kernel
  /\ passes \in 0..2
  /\ agentBudget \in [AgentDisturbances -> Nat]

AgentInit ==
  /\ want = NoConfig /\ queued = "no" /\ timer = NoConfig
  /\ waiting = {}
  /\ to = Empty /\ status = "none" /\ logged = "none"
  /\ sys = Empty
  /\ passes = 0
  /\ agentBudget \in AgentBudgets

AgentSpend(e) == agentBudget[e] > 0 /\ agentBudget' = [agentBudget EXCEPT ![e] = @ - 1]

-----------------------------------------------------------------------------
(* Diff: what to delete, and what to create, to get from s to t. *)
DeleteRules(s, t) == {r \in s.rules \ t.rules : r \notin Sticky}
DeleteDevices(s, t) == {d \in Devices : s.dev[d] # "none" /\ s.dev[d] # t.dev[d]}
CreateDevices(s, t) == {d \in Devices : t.dev[d] # "none" /\ s.dev[d] # t.dev[d]}
CreateRules(s, t) == t.rules \ s.rules

Touched(s, t) ==
  DeleteRules(s, t) \union DeleteDevices(s, t) \union CreateDevices(s, t) \union CreateRules(s, t)

(* Which calls of one pass fail: the deletion or the creation of an item,  *)
(* or the second half of the creation of a device.                         *)
FaultKinds == {"none", "delete", "create", "half"}
Faults == [Devices \union Rules -> FaultKinds]
FaultsAt(f) == [x \in Devices \union Rules |-> IF x \in DOMAIN f THEN f[x] ELSE "none"]
NoFaults == [x \in Devices \union Rules |-> "none"]

(* A device that could not be deleted cannot be created; one of which only *)
(* the second half failed is there, but not as it should be.               *)
DeletedDevices(s, t, f) == {d \in DeleteDevices(s, t) : f[d] # "delete"}
AddDevices(s, t, f) ==
  LET gone == DeletedDevices(s, t, f)
      free == {d \in CreateDevices(s, t) : s.dev[d] = "none" \/ d \in gone}
  IN [d \in Devices |-> CASE d \in free /\ f[d] = "none" -> t.dev[d]
                          [] d \in free /\ f[d] = "half" -> "half"
                          [] OTHER -> IF d \in gone THEN "none" ELSE s.dev[d]]

DeletedRules(s, t, f) == {r \in DeleteRules(s, t) : f[r] # "delete"}

(* A rule needs its device.                                                *)
AddRules(s, t, f) ==
  {r \in CreateRules(s, t) :
     f[r] = "none" /\ (DevOf[r] = NoDev \/ AddDevices(s, t, f)[DevOf[r]] # "none")}

(* Seeded fault: iptables rules are left out of the created ones. *)
WriteSysNoIptables(s, t, f) ==
  [dev |-> AddDevices(s, t, f),
   rules |-> {r \in s.rules \ DeletedRules(s, t, f) : DevOf[r] \notin DeletedDevices(s, t, f)}
               \union {r \in AddRules(s, t, f) : DevOf[r] # NoDev}]

(* WriteSys: rules are deleted first, then devices, and with them, in the  *)
(* kernel, the rules they still have; then devices are created, and rules  *)
(* last.  A failed call is logged and the rest goes on.                    *)
WriteSys(s, t, f) ==
  [dev |-> AddDevices(s, t, f),
   rules |-> {r \in s.rules \ DeletedRules(s, t, f) : DevOf[r] \notin DeletedDevices(s, t, f)}
               \union AddRules(s, t, f)]

(* UpdateSync(t), under the lock, `n` being the clean passes over t so far. *)
SyncLoadFails ==
  /\ AgentSpend("fail")
  /\ status' = "exception" /\ logged' = "exception"
  /\ passes' = 0
  /\ UNCHANGED sys

(* Nothing to do: e.Status is not touched, unless one list is nil and the  *)
(* other empty, which Diff takes for a difference.                         *)
SyncSame(t, n) ==
  /\ Touched(sys, t) = {} /\ sys.rules \subseteq t.rules
  /\ status' \in {status, "success"} /\ logged' = "success"
  /\ passes' = IF n = 2 THEN 2 ELSE n + 1
  /\ UNCHANGED <<sys, agentBudget>>

SyncWrites(t, n) ==
  /\ Touched(sys, t) # {} \/ ~(sys.rules \subseteq t.rules)
  /\ sys' = WriteSys(sys, t, NoFaults)
  /\ status' = IF CreateRules(sys, t) = AddRules(sys, t, NoFaults) THEN "success" ELSE "exception"
  /\ logged' = status'
  /\ passes' = IF n = 2 THEN 2 ELSE n + 1
  /\ UNCHANGED agentBudget

SyncWriteFails(t) ==
  /\ AgentSpend("fail")
  /\ \E f \in [Touched(sys, t) -> FaultKinds] :
       /\ \E x \in DOMAIN f : f[x] # "none"
       /\ sys' = WriteSys(sys, t, FaultsAt(f))
  /\ status' = "exception" /\ logged' = "exception"
  /\ passes' = 0

UpdateSync(t, n) ==
  SyncLoadFails \/ SyncSame(t, n) \/ SyncWrites(t, n) \/ SyncWriteFails(t)

(* Seeded fault: the new configuration is written but not remembered. *)
UpdateFromCRDForgets(call) ==
  /\ call \in waiting
  /\ waiting' = waiting \ {call}
  /\ to' = to
  /\ IF call.cfg = to
       THEN logged' = status /\ UNCHANGED <<status, sys, passes, agentBudget>>
       ELSE UpdateSync(call.cfg, 0)
  /\ UNCHANGED apiVars

(* A call of UpdateFromCRD gets the lock: a configuration that differs     *)
(* from the last one replaces it and is written at once.                   *)
UpdateFromCRD(call) ==
  /\ call \in waiting
  /\ waiting' = waiting \ {call}
  /\ to' = call.cfg
  /\ IF call.cfg = to
       THEN logged' = status /\ UNCHANGED <<status, sys, passes, agentBudget>>
       ELSE UpdateSync(call.cfg, 0)
  /\ UNCHANGED apiVars

(* The checker of StartTimer. *)
UpdateFromChecker ==
  /\ UpdateSync(to, passes)
  /\ UNCHANGED <<apiVars, waiting, to>>

-----------------------------------------------------------------------------
(* The reconciler: one worker, which waits for the lock itself when the    *)
(* NodeConfig is gone and leaves the rest to the debouncer.                *)

WorkerFree == \A call \in waiting : call.by # "worker"

ReconcileDeleted ==
  /\ queued = "yes" /\ WorkerFree
  /\ want = NoConfig
  /\ queued' = "no"
  /\ waiting' = waiting \union {[by |-> "worker", cfg |-> Empty]}
  /\ UNCHANGED <<want, timer, netVars, agentBudget>>

(* The debouncer keeps the last configuration only. *)
Reconcile ==
  /\ queued = "yes" /\ WorkerFree
  /\ want # NoConfig
  /\ queued' = "no"
  /\ timer' = want
  /\ UNCHANGED <<want, waiting, netVars, agentBudget>>

(* The Cluster of the node is not found: the event is dropped. *)
ReconcileNoCluster ==
  /\ queued = "yes" /\ WorkerFree
  /\ want # NoConfig
  /\ AgentSpend("lookup")
  /\ queued' = "no"
  /\ UNCHANGED <<want, timer, waiting, netVars>>

(* Five seconds without an event: the call starts and may wait for the lock. *)
Fire ==
  /\ timer # NoConfig
  /\ waiting' = waiting \union {[by |-> "timer", cfg |-> timer]}
  /\ timer' = NoConfig
  /\ UNCHANGED <<want, queued, netVars, agentBudget>>

Resync ==
  /\ want # NoConfig
  /\ queued' = "yes"
  /\ UNCHANGED <<want, timer, waiting, netVars, agentBudget>>

-----------------------------------------------------------------------------
(* The network manager, the kernel's other users, and the agent's pod. *)

Publish(t) ==
  /\ AgentSpend("edit")
  /\ t # want
  /\ want' = t /\ queued' = "yes"
  /\ UNCHANGED <<timer, waiting, netVars>>

DeleteConfig ==
  /\ want # NoConfig
  /\ AgentSpend("delete")
  /\ want' = NoConfig /\ queued' = "yes"
  /\ UNCHANGED <<timer, waiting, netVars>>

Drift ==
  /\ AgentSpend("drift")
  /\ \/ \E r \in sys.rules : sys' = [sys EXCEPT !.rules = @ \ {r}]
     \/ \E d \in Devices :
          /\ sys.dev[d] # "none"
          /\ sys' = [dev |-> [sys.dev EXCEPT ![d] = "none"],
                     rules |-> {r \in sys.rules : DevOf[r] # d}]
  /\ passes' = 0
  /\ UNCHANGED <<apiVars, waiting, to, status, logged>>

(* A restart keeps the kernel's state; NewNetworkManager starts from an    *)
(* empty configuration, the informer lists the NodeConfig.                 *)
AgentRestart ==
  /\ AgentSpend("restart")
  /\ queued' = IF want = NoConfig THEN "no" ELSE "yes"
  /\ timer' = NoConfig /\ waiting' = {}
  /\ to' = Empty /\ status' = "none" /\ logged' = "none" /\ passes' = 0
  /\ UNCHANGED <<want, sys>>

-----------------------------------------------------------------------------
AgentNext ==
  \/ Reconcile \/ ReconcileDeleted \/ ReconcileNoCluster \/ Fire \/ Resync
  \/ UpdateFromChecker
  \/ \E call \in Call : UpdateFromCRD(call)
  \/ \E t \in Published : Publish(t)
  \/ DeleteConfig \/ Drift \/ AgentRestart

(* The worker, the timers and the calls that wait for the lock go on; the  *)
(* informer resyncs.                                                       *)
AgentFairness ==
  /\ WF_agentVars(Reconcile) /\ WF_agentVars(ReconcileDeleted)
  /\ WF_agentVars(Fire) /\ WF_agentVars(Resync)
  /\ WF_agentVars(UpdateFromChecker)
  /\ WF_agentVars(\E call \in Call : UpdateFromCRD(call))

AgentSpec == AgentInit /\ [][AgentNext]_agentVars /\ AgentFairness

-----------------------------------------------------------------------------
(* The rules of t that have their device in t, or need none. *)
Housed(t) == {r \in t.rules : DevOf[r] = NoDev \/ t.dev[DevOf[r]] # "none"}

(* The kernel has what t asks for, the rules without a device aside, and   *)
(* besides only sticky rules.                                              *)
Matches(s, t) == s.dev = t.dev /\ Housed(t) \subseteq s.rules /\ s.rules \ t.rules \subseteq Sticky

(* Two passes of UpdateSync suffice, from whatever the kernel held and     *)
(* whatever failed before: the first may recreate devices, and lose their  *)
(* rules, the second puts the rules back.  A rule that was published       *)
(* without its device fails in every pass and does not hold up the others  *)
(* (addRoute, AddRoutes).                                                  *)
TwoPassesSuffice == passes = 2 => Matches(sys, to)

(* Whatever fails, drifts or restarts, and whichever of two debounced      *)
(* calls gets the lock last, the kernel ends up with the NodeConfig, the   *)
(* rules aside whose device it leaves out.                                 *)
AgentConverges == <>[](want # NoConfig => Matches(sys, want))
=============================================================================
