------------------------- MODULE MemberClusterProofs -------------------------
(***************************************************************************)
(* Theorems about the programs of ClusterLink in a member cluster.         *)
(*                                                                         *)
(* AgentSync, for any devices, rules, configurations and disturbances: the *)
(* types, and that two passes of UpdateSync suffice.                       *)
(*                                                                         *)
(* ClusterNodes, for any clusters, Nodes and CIDRs: the types, with the    *)
(* bound on retries, and that the three programs that write a ClusterNode  *)
(* lose no update of each other.                                           *)
(***************************************************************************)
EXTENDS AgentSync, ClusterNodes, TLAPS

(* What the agent is told to carry into the kernel. *)
LEMMA Wanted ==
  ASSUME NEW t \in Published \union {Empty}
  PROVE  t \in Config /\ t \in Kernel
<1>1. Empty \in Config
  BY DEF Empty, Config
<1>2. t \in Config
  BY <1>1, PublishedAssumption
<1>3. t \in Kernel
  BY <1>2 DEF Config, Kernel
<1> QED BY <1>2, <1>3

-----------------------------------------------------------------------------
(* One pass of WriteSys. *)

LEMMA WriteSysType ==
  ASSUME NEW s \in Kernel, NEW t \in Config, NEW f \in Faults
  PROVE  WriteSys(s, t, f) \in Kernel
<1> DEFINE gone == {d \in DeleteDevices(s, t) : f[d] # "delete"}
           left == s.rules \ {r \in DeleteRules(s, t) : f[r] # "delete"}
           free == {d \in CreateDevices(s, t) : s.dev[d] = "none" \/ d \in gone}
           dev  == [d \in Devices |->
                      CASE d \in free /\ f[d] = "none" -> t.dev[d]
                        [] d \in free /\ f[d] = "half" -> "half"
                        [] OTHER -> IF d \in gone THEN "none" ELSE s.dev[d]]
           new  == {r \in CreateRules(s, t) :
                      f[r] = "none" /\ (DevOf[r] = NoDev \/ dev[DevOf[r]] # "none")}
<1>1. WriteSys(s, t, f) = [dev |-> dev, rules |-> {r \in left : DevOf[r] \notin gone} \union new]
  BY DEF WriteSys, AddDevices, DeletedDevices, DeletedRules, AddRules
<1>2. s.dev \in [Devices -> Attrs \union {"none", "half"}] /\ s.rules \subseteq Rules
  BY DEF Kernel
<1>3. t.dev \in [Devices -> Attrs \union {"none"}] /\ t.rules \subseteq Rules
  BY DEF Config
<1>4. left \subseteq Rules /\ new \subseteq Rules
  BY <1>2, <1>3 DEF CreateRules
<1> HIDE DEF gone, free, left, new
<1>5. \A d \in Devices : dev[d] \in Attrs \union {"none", "half"}
  BY <1>2, <1>3
<1>6. dev \in [Devices -> Attrs \union {"none", "half"}]
  BY <1>5
<1> HIDE DEF dev
<1> QED BY <1>1, <1>4, <1>6 DEF Kernel

(* After a pass without faults the devices are those of the configuration. *)
LEMMA FirstPass ==
  ASSUME NEW s \in Kernel, NEW t \in Config
  PROVE  WriteSys(s, t, NoFaults).dev = t.dev
<1> DEFINE f == NoFaults
           gone == {d \in DeleteDevices(s, t) : f[d] # "delete"}
           free == {d \in CreateDevices(s, t) : s.dev[d] = "none" \/ d \in gone}
           dev  == [d \in Devices |->
                      CASE d \in free /\ f[d] = "none" -> t.dev[d]
                        [] d \in free /\ f[d] = "half" -> "half"
                        [] OTHER -> IF d \in gone THEN "none" ELSE s.dev[d]]
<1>1. WriteSys(s, t, f).dev = dev
  BY DEF WriteSys, AddDevices, DeletedDevices, DeletedRules, AddRules
<1>2. \A d \in Devices : f[d] = "none"
  BY DEF NoFaults
<1>3. s.dev \in [Devices -> Attrs \union {"none", "half"}]
      /\ t.dev \in [Devices -> Attrs \union {"none"}]
  BY DEF Kernel, Config
<1> HIDE DEF f
<1>4. ASSUME NEW d \in Devices PROVE dev[d] = t.dev[d]
  <2>1. d \in gone <=> s.dev[d] # "none" /\ s.dev[d] # t.dev[d]
    BY <1>2 DEF DeleteDevices
  <2>2. d \in free <=> t.dev[d] # "none" /\ s.dev[d] # t.dev[d]
    BY <2>1 DEF CreateDevices
  <2> HIDE DEF gone, free
  <2>3. CASE d \in free
    BY <1>2, <2>3
  <2>4. CASE d \notin free
    <3>1. dev[d] = IF d \in gone THEN "none" ELSE s.dev[d]
      BY <2>4
    <3> QED BY <2>1, <2>2, <2>4, <3>1
  <2> QED BY <2>3, <2>4
<1> HIDE DEF dev
<1>5. dev \in [Devices -> Attrs \union {"none", "half"}]
  <2>1. dev = [d \in Devices |-> dev[d]]
    BY DEF dev
  <2> QED BY <1>3, <1>4, <2>1
<1>6. dev = t.dev
  BY <1>3, <1>4, <1>5
<1> QED BY <1>1, <1>6 DEF f

(* A pass that finds the right devices leaves the right rules too. *)
LEMMA SecondPass ==
  ASSUME NEW s \in Kernel, NEW t \in Config, s.dev = t.dev
  PROVE  Matches(WriteSys(s, t, NoFaults), t)
<1> DEFINE f == NoFaults
           w == WriteSys(s, t, f)
<1>1. w.dev = t.dev
  BY FirstPass
<1>2. \A x \in Devices \union Rules : f[x] = "none"
  BY DEF NoFaults
<1>3. DeleteDevices(s, t) = {}
  BY DEF DeleteDevices
<1>4. t.rules \subseteq Rules /\ s.rules \subseteq Rules
  BY DEF Config, Kernel
<1>5. w.rules = (s.rules \ DeleteRules(s, t))
                \union {r \in CreateRules(s, t) : DevOf[r] = NoDev \/ w.dev[DevOf[r]] # "none"}
  <2>1. {d \in DeleteDevices(s, t) : f[d] # "delete"} = {}
    BY <1>3
  <2>2. {r \in DeleteRules(s, t) : f[r] # "delete"} = DeleteRules(s, t)
    BY <1>2, <1>4 DEF DeleteRules
  <2>3. \A r \in CreateRules(s, t) : f[r] = "none"
    BY <1>2, <1>4 DEF CreateRules
  <2> HIDE DEF f
  <2> QED BY <2>1, <2>2, <2>3 DEF WriteSys, AddRules, DeletedDevices, DeletedRules
<1>6. \A r \in Housed(t) : r \in t.rules /\ (DevOf[r] = NoDev \/ w.dev[DevOf[r]] # "none")
  BY <1>1 DEF Housed
<1> HIDE DEF w
<1>7. Housed(t) \subseteq w.rules /\ w.rules \ t.rules \subseteq Sticky
  BY <1>5, <1>6 DEF CreateRules, DeleteRules
<1> QED BY <1>1, <1>7 DEF Matches, w

(* A pass that finds nothing to do finds the configuration. *)
LEMMA NothingToDo ==
  ASSUME NEW s \in Kernel, NEW t \in Config, Touched(s, t) = {}
  PROVE  Matches(s, t)
<1>1. s.dev \in [Devices -> Attrs \union {"none", "half"}]
      /\ t.dev \in [Devices -> Attrs \union {"none"}]
  BY DEF Kernel, Config
<1>2. DeleteDevices(s, t) = {} /\ CreateDevices(s, t) = {}
  BY DEF Touched
<1>3. \A d \in Devices : s.dev[d] = t.dev[d]
  BY <1>1, <1>2 DEF DeleteDevices, CreateDevices
<1>4. s.dev = t.dev
  BY <1>1, <1>3
<1>5. Housed(t) \subseteq s.rules /\ s.rules \ t.rules \subseteq Sticky
  BY DEF Touched, CreateRules, DeleteRules, Housed
<1> QED BY <1>4, <1>5 DEF Matches

-----------------------------------------------------------------------------
(* After one clean pass the devices agree; the inductive invariant. *)
DevicesAgree == passes > 0 => sys.dev = to.dev
AgentIInv == AgentTypeOK /\ DevicesAgree /\ TwoPassesSuffice

(* What a pass of UpdateSync over t guarantees. *)
LEMMA SyncStep ==
  ASSUME AgentTypeOK, NEW t \in Published \union {Empty}, NEW n \in 0..2, UpdateSync(t, n),
         n > 0 => sys.dev = t.dev
  PROVE  /\ sys' \in Kernel /\ status' \in Result /\ logged' \in Result
         /\ passes' \in 0..2 /\ agentBudget' \in [AgentDisturbances -> Nat]
         /\ passes' > 0 => sys'.dev = t.dev
         /\ passes' = 2 => Matches(sys', t)
<1>1. t \in Config /\ sys \in Kernel
  BY Wanted DEF AgentTypeOK
<1>2. status \in Result /\ agentBudget \in [AgentDisturbances -> Nat]
  BY DEF AgentTypeOK
<1>3. \A e \in AgentDisturbances : AgentSpend(e) => agentBudget' \in [AgentDisturbances -> Nat]
  BY <1>2 DEF AgentSpend
<1>4. CASE SyncLoadFails
  BY <1>1, <1>3, <1>4 DEF SyncLoadFails, Result, AgentDisturbances
<1>5. CASE SyncSame(t, n)
  <2>1. Matches(sys, t)
    BY <1>1, <1>5, NothingToDo DEF SyncSame
  <2> QED BY <1>1, <1>2, <1>5, <2>1 DEF SyncSame, Result, Matches
<1>6. CASE SyncWrites(t, n)
  <2>1. NoFaults \in Faults
    BY DEF NoFaults, Faults, FaultKinds
  <2>2. sys' \in Kernel
    BY <1>1, <1>6, <2>1, WriteSysType DEF SyncWrites
  <2>3. sys'.dev = t.dev
    BY <1>1, <1>6, FirstPass DEF SyncWrites
  <2>4. n > 0 => Matches(sys', t)
    BY <1>1, <1>6, SecondPass DEF SyncWrites
  <2> QED BY <1>2, <1>6, <2>2, <2>3, <2>4 DEF SyncWrites, Result
<1>7. CASE SyncWriteFails(t)
  <2>0. PICK f \in [Touched(sys, t) -> FaultKinds] : sys' = WriteSys(sys, t, FaultsAt(f))
    BY <1>7 DEF SyncWriteFails
  <2>1. sys' \in Kernel
    <3>1. FaultsAt(f) \in Faults
      BY DEF FaultsAt, Faults, FaultKinds
    <3> QED BY <1>1, <2>0, <3>1, WriteSysType
  <2> QED BY <1>3, <1>7, <2>1 DEF SyncWriteFails, Result, AgentDisturbances
<1> QED BY <1>4, <1>5, <1>6, <1>7 DEF UpdateSync

LEMMA AgentInitIInv == AgentInit => AgentIInv
<1> SUFFICES ASSUME AgentInit PROVE AgentIInv
  OBVIOUS
<1>1. Empty \in Kernel
  BY Wanted
<1>2. AgentTypeOK
  BY <1>1, AgentBudgetAssumption DEF AgentInit, AgentTypeOK, Result
<1> QED BY <1>2 DEF AgentInit, AgentIInv, DevicesAgree, TwoPassesSuffice

(* Every step preserves the invariant. *)
LEMMA AgentStepIInv == AgentIInv /\ [AgentNext]_agentVars => AgentIInv'
<1> SUFFICES ASSUME AgentIInv, [AgentNext]_agentVars PROVE AgentIInv'
  OBVIOUS
<1>0. AgentTypeOK /\ DevicesAgree /\ TwoPassesSuffice
  BY DEF AgentIInv
<1>1. ASSUME NEW e \in AgentDisturbances, AgentSpend(e) PROVE agentBudget' \in [AgentDisturbances -> Nat]
  BY <1>0, <1>1 DEF AgentTypeOK, AgentSpend
(* Steps that leave the network manager and the kernel alone. *)
<1>2. ASSUME UNCHANGED netVars, AgentTypeOK' PROVE AgentIInv'
  BY <1>0, <1>2 DEF netVars, AgentIInv, DevicesAgree, TwoPassesSuffice
<1>3. CASE Reconcile \/ ReconcileDeleted \/ Fire \/ Resync \/ UNCHANGED agentVars
  <2>1. UNCHANGED netVars
    BY <1>3 DEF Reconcile, ReconcileDeleted, Fire, Resync, agentVars
  <2>2. AgentTypeOK'
    BY <1>0, <1>3, <2>1 DEF Reconcile, ReconcileDeleted, Fire, Resync, agentVars, apiVars,
       netVars, AgentTypeOK, Call
  <2> QED BY <1>2, <2>1, <2>2
<1>4. CASE ReconcileNoCluster \/ DeleteConfig \/ \E t \in Published : Publish(t)
  <2>1. UNCHANGED netVars
    BY <1>4 DEF ReconcileNoCluster, DeleteConfig, Publish
  <2>2. agentBudget' \in [AgentDisturbances -> Nat]
    BY <1>1, <1>4 DEF ReconcileNoCluster, DeleteConfig, Publish, AgentDisturbances
  <2>3. AgentTypeOK'
    BY <1>0, <1>4, <2>1, <2>2 DEF ReconcileNoCluster, DeleteConfig, Publish, netVars, AgentTypeOK
  <2> QED BY <1>2, <2>1, <2>3
<1>5. CASE UpdateFromChecker
  <2>1. to \in Published \union {Empty} /\ passes \in 0..2
    BY <1>0 DEF AgentTypeOK
  <2>2. UpdateSync(to, passes) /\ UNCHANGED <<apiVars, waiting, to>>
    BY <1>5 DEF UpdateFromChecker
  <2>3. passes > 0 => sys.dev = to.dev
    BY <1>0 DEF DevicesAgree
  <2>4. /\ sys' \in Kernel /\ status' \in Result /\ logged' \in Result
        /\ passes' \in 0..2 /\ agentBudget' \in [AgentDisturbances -> Nat]
        /\ passes' > 0 => sys'.dev = to.dev
        /\ passes' = 2 => Matches(sys', to)
    BY <1>0, <2>1, <2>2, <2>3, SyncStep
  <2> QED BY <1>0, <2>2, <2>4 DEF apiVars, AgentIInv, AgentTypeOK, DevicesAgree, TwoPassesSuffice, Matches
<1>6. ASSUME NEW call \in Call, UpdateFromCRD(call) PROVE AgentIInv'
  <2>1. call.cfg \in Published \union {Empty} /\ waiting' \subseteq Call /\ to' = call.cfg
    BY <1>0, <1>6 DEF UpdateFromCRD, AgentTypeOK, Call
  <2>2. UNCHANGED apiVars
    BY <1>6 DEF UpdateFromCRD
  <2>3. CASE call.cfg = to
    BY <1>0, <1>6, <2>1, <2>2, <2>3
       DEF UpdateFromCRD, apiVars, AgentIInv, AgentTypeOK, DevicesAgree, TwoPassesSuffice, Matches
  <2>4. CASE call.cfg # to
    <3>1. UpdateSync(call.cfg, 0)
      BY <1>6, <2>4 DEF UpdateFromCRD
    <3>2. /\ sys' \in Kernel /\ status' \in Result /\ logged' \in Result
          /\ passes' \in 0..2 /\ agentBudget' \in [AgentDisturbances -> Nat]
          /\ passes' > 0 => sys'.dev = call.cfg.dev
          /\ passes' = 2 => Matches(sys', call.cfg)
      BY <1>0, <2>1, <3>1, SyncStep
    <3> QED BY <1>0, <2>1, <2>2, <3>2
            DEF apiVars, AgentIInv, AgentTypeOK, DevicesAgree, TwoPassesSuffice, Matches
  <2> QED BY <2>3, <2>4
<1>7. CASE Drift
  <2>1. sys' \in Kernel
    BY <1>0, <1>7 DEF Drift, AgentTypeOK, Kernel
  <2>2. agentBudget' \in [AgentDisturbances -> Nat]
    BY <1>1, <1>7 DEF Drift, AgentDisturbances
  <2> QED BY <1>0, <1>7, <2>1, <2>2
          DEF Drift, apiVars, AgentIInv, AgentTypeOK, DevicesAgree, TwoPassesSuffice
<1>8. CASE AgentRestart
  <2>1. agentBudget' \in [AgentDisturbances -> Nat]
    BY <1>1, <1>8 DEF AgentRestart, AgentDisturbances
  <2> QED BY <1>0, <1>8, <2>1
          DEF AgentRestart, AgentIInv, AgentTypeOK, DevicesAgree, TwoPassesSuffice, Result
<1> QED BY <1>3, <1>4, <1>5, <1>6, <1>7, <1>8 DEF AgentNext

(* AgentTypeOK: every configuration in the agent's hands is one that was   *)
(* published, or the empty one, and the kernel holds devices and rules of  *)
(* such configurations only.                                               *)
THEOREM AgentTyping == AgentSpec => []AgentTypeOK
BY AgentInitIInv, AgentStepIInv, PTL DEF AgentSpec, AgentIInv

(* TwoPassesSuffice: for any devices, rules and configurations, after any  *)
(* failures and drift, two passes of UpdateSync without a fault leave the  *)
(* kernel with exactly the configuration, broadcast entries aside and      *)
(* rules whose device the configuration leaves out, which no pass can add. *)
THEOREM TwoPasses == AgentSpec => []TwoPassesSuffice
BY AgentInitIInv, AgentStepIInv, PTL DEF AgentSpec, AgentIInv

-----------------------------------------------------------------------------
(* ClusterNodes *)

(* At the start there is no Node and no ClusterNode.                       *)
LEMMA InitTypes == Init => TypeOK
<1> QED
  BY RetryAssumption, BudgetAssumption DEF Init, TypeOK, CleanUp

(* A disturbance counts down a natural number.                             *)
LEMMA SpendType == ASSUME TypeOK, NEW e, Spend(e) PROVE budget' \in [Disturbances -> Nat]
<1>1. budget \in [Disturbances -> Nat]
  BY DEF TypeOK
<1>2. CASE e \in Disturbances
  <2>1. budget[e] \in Nat /\ budget[e] > 0
    BY <1>1, <1>2 DEF Spend
  <2>2. budget[e] - 1 \in Nat
    BY <2>1
  <2> QED
    BY <1>1, <2>2 DEF Spend
<1>3. CASE e \notin Disturbances
  BY <1>1, <1>3 DEF Spend
<1> QED
  BY <1>2, <1>3

(* requeue and the events of a Node put keys into the queues.              *)
LEMMA RequeueType ==
  ASSUME TypeOK, NEW c \in Clusters, NEW x \in Names, Requeue(c, x)
  PROVE  cidrQ' \in [Clusters -> SUBSET Keys]
<1>1. PICK k \in Keys : cidrQ' = [cidrQ EXCEPT ![c] = @ \union {k}]
  BY DEF Requeue, Keys
<1> QED
  BY <1>1 DEF TypeOK

(* An event of a Node keeps the types of the two queues it goes into.      *)
LEMMA NodeEventType ==
  ASSUME TypeOK, NEW c \in Clusters, NEW x \in Names, NodeEvent(c, x)
  PROVE  nodeQ' \in [Clusters -> SUBSET Names] /\ cidrQ' \in [Clusters -> SUBSET Keys]
<1>1. nodeQ' \in [Clusters -> SUBSET Names]
  BY DEF NodeEvent, TypeOK
<1>2. cidrQ' \in [Clusters -> SUBSET Keys]
  BY RequeueType DEF NodeEvent, TypeOK
<1> QED
  BY <1>1, <1>2

(* A write leaves a well-typed ClusterNode, or none.                       *)
LEMMA WriteType ==
  ASSUME TypeOK, NEW i \in Ids, NEW o \in Object \union {None}, Write(i, o)
  PROVE  obj' \in [Ids -> Object \union {None}] /\ agentQ' \subseteq Ids
<1> QED
  BY DEF Write, TypeOK

(* handleError never counts past MaxRetries.                               *)
LEMMA HandleErrorType ==
  ASSUME TypeOK, NEW c \in Clusters, NEW k \in Keys, NEW again, HandleError(c, k, again)
  PROVE  failed' \in [Clusters -> [Keys -> 0 .. MaxRetries]] /\ cidrQ' \in [Clusters -> SUBSET Keys]
<1> DEFINE n == failed[c][k]
           m == IF n >= MaxRetries THEN 0 ELSE n + 1
<1>1. n \in 0 .. MaxRetries
  BY DEF TypeOK
<1>2. m \in 0 .. MaxRetries
  BY <1>1, RetryAssumption
<1>3. failed' = [failed EXCEPT ![c] = [failed[c] EXCEPT ![k] = m]]
  BY DEF HandleError, TypeOK
<1>4. failed' \in [Clusters -> [Keys -> 0 .. MaxRetries]]
  <2> HIDE DEF m, n
  <2> QED
    BY <1>2, <1>3 DEF TypeOK
<1>5. cidrQ' \in [Clusters -> SUBSET Keys]
  BY DEF HandleError, TypeOK
<1> QED
  BY <1>4, <1>5

(* Forget starts the count of an item anew.                                *)
LEMMA ForgetType ==
  ASSUME TypeOK, NEW c \in Clusters, NEW k \in Keys, failed' = [failed EXCEPT ![c][k] = 0]
  PROVE  failed' \in [Clusters -> [Keys -> 0 .. MaxRetries]]
<1>1. 0 \in 0 .. MaxRetries
  BY RetryAssumption
<1> QED
  BY <1>1 DEF TypeOK

(* The Nodes and the node controller keep the types.                       *)
LEMMA NodeTypes ==
  ASSUME TypeOK, NEW c \in Clusters, NEW x \in Names,
         ChangeNode(c, x) \/ ChangeCidr(c, x) \/ Heartbeat(c, x) \/ NodeGone(c, x) \/ NodeGet(c, x)
  PROVE  TypeOK'
<1>0. <<c, x>> \in Ids
  BY DEF Ids
<1>1. CASE ChangeNode(c, x)
  <2>1. live' \in [Clusters -> SUBSET Names] /\ given' \in [Ids -> SUBSET Cidrs] /\ agentQ' \subseteq Ids
    BY <1>0, <1>1 DEF ChangeNode, TypeOK
  <2>2. /\ nodeQ' \in [Clusters -> SUBSET Names] /\ cidrQ' \in [Clusters -> SUBSET Keys]
        /\ budget' \in [Disturbances -> Nat]
    BY <1>1, NodeEventType, SpendType DEF ChangeNode
  <2> QED
    BY <1>1, <2>1, <2>2 DEF ChangeNode, TypeOK
<1>2. CASE ChangeCidr(c, x)
  <2>1. given' \in [Ids -> SUBSET Cidrs]
    BY <1>0, <1>2 DEF ChangeCidr, TypeOK
  <2>2. /\ nodeQ' \in [Clusters -> SUBSET Names] /\ cidrQ' \in [Clusters -> SUBSET Keys]
        /\ budget' \in [Disturbances -> Nat]
    BY <1>2, NodeEventType, RequeueType, SpendType DEF ChangeCidr, TypeOK
  <2> QED
    BY <1>2, <2>1, <2>2 DEF ChangeCidr, TypeOK
<1>3. CASE Heartbeat(c, x)
  <2>1. nodeQ' \in [Clusters -> SUBSET Names] /\ cidrQ' \in [Clusters -> SUBSET Keys]
    BY <1>3, NodeEventType DEF Heartbeat
  <2> QED
    BY <1>3, <2>1 DEF Heartbeat, memberVars, TypeOK
<1>4. CASE NodeGone(c, x)
  <2>1. obj' \in [Ids -> Object \union {None}] /\ agentQ' \subseteq Ids /\ budget' \in [Disturbances -> Nat]
    BY <1>0, <1>4, WriteType, SpendType DEF NodeGone, TypeOK
  <2>2. nodeQ' \in [Clusters -> SUBSET Names]
    BY <1>4 DEF NodeGone, TypeOK
  <2> QED
    BY <1>4, <2>1, <2>2 DEF NodeGone, memberVars, cidrVars, TypeOK
<1>5. CASE NodeGet(c, x)
  <2>1. [NoJob EXCEPT !.id = <<c, x>>, !.got = obj[<<c, x>>]] \in JobOf({None})
    BY <1>0 DEF NoJob, JobOf, TypeOK
  <2>2. nodeJob' \in [Clusters -> JobOf({None}) \union {NoJob}] /\ nodeQ' \in [Clusters -> SUBSET Names]
    BY <1>5, <2>1 DEF NodeGet, TypeOK
  <2> QED
    BY <1>5, <2>2 DEF NodeGet, memberVars, cidrVars, TypeOK
<1> QED
  BY <1>1, <1>2, <1>3, <1>4, <1>5

(* A job whose ClusterNode is named is one that was taken.                 *)
LEMMA JobTaken ==
  ASSUME TypeOK, NEW c \in Clusters
  PROVE  /\ nodeJob[c].id # None => nodeJob[c] \in JobOf({None})
         /\ cidrJob[c].id # None => cidrJob[c] \in JobOf(Keys) /\ cidrJob[c].got \in Object
<1>1. NoJob.id = None
  BY DEF NoJob
<1>2. nodeJob[c] \in JobOf({None}) \union {NoJob} /\ cidrJob[c] \in {NoJob} \union {j \in JobOf(Keys) : j.got # None}
  BY DEF TypeOK
<1> QED
  BY <1>1, <1>2 DEF JobOf

(* The watches, the updates, the clean-up and a restart keep the types.    *)
LEMMA ClusterTypes ==
  ASSUME TypeOK, NEW c \in Clusters,
         See(c) \/ NodePut(c) \/ CleanOrphan(c) \/ CidrPut(c) \/ CidrPutFails(c) \/ Restart(c)
  PROVE  TypeOK'
<1>1. CASE See(c)
  BY <1>1 DEF See, memberVars, nodeVars, cidrVars, TypeOK
<1>2. CASE NodePut(c)
  <2> DEFINE i == nodeJob[c].id
  <2>1. nodeJob[c] \in JobOf({None})
    BY <1>2, JobTaken DEF NodePut
  <2>2. i \in Ids /\ i[2] \in Names
    BY <2>1 DEF JobOf, Ids
  <2>3. CreateOrUpdate(obj[i]) \in Object \union {None}
    BY <2>2 DEF CreateOrUpdate, New, Object, TypeOK
  <2>4. nodeJob' \in [Clusters -> JobOf({None}) \union {NoJob}]
    BY <1>2 DEF NodePut, TypeOK
  <2>5. \/ Write(i, CreateOrUpdate(obj[i])) /\ UNCHANGED <<nodeQ, budget>>
        \/ /\ Spend("fail") \/ UNCHANGED budget
           /\ nodeQ' = [nodeQ EXCEPT ![c] = @ \union {i[2]}] /\ UNCHANGED <<obj, agentQ>>
    BY <1>2 DEF NodePut
  <2> HIDE DEF i
  <2>6. obj' \in [Ids -> Object \union {None}] /\ agentQ' \subseteq Ids
    BY <2>2, <2>3, <2>5, WriteType DEF TypeOK
  <2>7. nodeQ' \in [Clusters -> SUBSET Names]
    <3>1. nodeQ \in [Clusters -> SUBSET Names]
      BY DEF TypeOK
    <3>2. nodeQ' = nodeQ \/ nodeQ' = [nodeQ EXCEPT ![c] = nodeQ[c] \union {i[2]}]
      BY <2>5
    <3> QED
      BY <2>2, <3>1, <3>2
  <2>8. budget' \in [Disturbances -> Nat]
    BY <2>5, SpendType DEF TypeOK
  <2> QED
    BY <1>2, <2>4, <2>6, <2>7, <2>8 DEF NodePut, memberVars, cidrVars, TypeOK
<1>3. CASE OrphanNodes(c)
  <2>1. [phase |-> "nodes", names |-> live[c]] \in CleanUp
    BY DEF TypeOK, CleanUp
  <2> QED
    BY <1>3, <2>1 DEF OrphanNodes, memberVars, cidrVars, TypeOK
<1>4. CASE OrphanList(c)
  <2> DEFINE gone == {x \in Names : obj[<<c, x>>] # None /\ x \notin orphan[c].names}
             new == IF gone = {} THEN Asleep ELSE [phase |-> "delete", names |-> gone]
  <2>1. new \in CleanUp
    <3>1. CASE gone = {}
      BY <3>1 DEF CleanUp
    <3>2. CASE gone # {}
      <4>1. gone \in SUBSET Names
        OBVIOUS
      <4> HIDE DEF gone
      <4>2. gone \in (SUBSET Names) \ {{}}
        BY <3>2, <4>1
      <4>3. [phase |-> "delete", names |-> gone] \in [phase : {"delete"}, names : (SUBSET Names) \ {{}}]
        BY <4>2
      <4> QED
        BY <3>2, <4>3 DEF CleanUp
    <3> QED
      BY <3>1, <3>2
  <2>2. /\ orphan' = [orphan EXCEPT ![c] = new]
        /\ UNCHANGED <<memberVars, obj, seen, nodeQ, nodeJob, cidrVars, agentQ, budget>>
    BY <1>4 DEF OrphanList
  <2> HIDE DEF new
  <2> QED
    BY <2>1, <2>2 DEF memberVars, cidrVars, TypeOK
<1>5. ASSUME NEW x \in Names, OrphanDelete(c, x) PROVE TypeOK'
  <2>1. orphan[c] \in [phase : {"delete"}, names : (SUBSET Names) \ {{}}]
    BY <1>5 DEF OrphanDelete, TypeOK, Asleep, CleanUp
  <2> DEFINE new == IF orphan[c].names = {x} THEN Asleep ELSE [orphan[c] EXCEPT !.names = orphan[c].names \ {x}]
  <2>2. new \in CleanUp
    <3>1. CASE orphan[c].names = {x}
      BY <3>1 DEF CleanUp
    <3>2. CASE orphan[c].names # {x}
      <4>1. orphan[c].names \ {x} \in (SUBSET Names) \ {{}} /\ orphan[c].phase = "delete"
        BY <1>5, <2>1, <3>2 DEF OrphanDelete
      <4>2. [orphan[c] EXCEPT !.names = orphan[c].names \ {x}] \in [phase : {"delete"}, names : (SUBSET Names) \ {{}}]
        BY <2>1, <4>1
      <4> QED
        BY <3>2, <4>2 DEF CleanUp
    <3> QED
      BY <3>1, <3>2
  <2>3. orphan' = [orphan EXCEPT ![c] = new] /\ UNCHANGED <<memberVars, seen, nodeQ, nodeJob, cidrVars>>
    BY <1>5 DEF OrphanDelete
  <2>4. obj' \in [Ids -> Object \union {None}] /\ agentQ' \subseteq Ids /\ budget' \in [Disturbances -> Nat]
    <3>1. <<c, x>> \in Ids
      BY DEF Ids
    <3> QED
      BY <1>5, <3>1, WriteType, SpendType DEF OrphanDelete, TypeOK
  <2> HIDE DEF new
  <2> QED
    BY <2>2, <2>3, <2>4 DEF memberVars, cidrVars, TypeOK
<1>6. CASE CidrPut(c)
  <2> DEFINE j == cidrJob[c]
             new == [obj[j.id] EXCEPT !.cidrs = j.cidrs]
  <2>1. j \in JobOf(Keys) /\ obj[j.id] \in Object
    BY <1>6, JobTaken DEF CidrPut
  <2>2. j.id \in Ids /\ j.key \in Keys /\ new \in Object
    BY <2>1 DEF JobOf, Object
  <2>3. Write(j.id, new) /\ failed' = [failed EXCEPT ![c][j.key] = 0] /\ cidrJob' = [cidrJob EXCEPT ![c] = NoJob]
    BY <1>6 DEF CidrPut
  <2> HIDE DEF j, new
  <2>4. obj' \in [Ids -> Object \union {None}] /\ agentQ' \subseteq Ids
    BY <2>2, <2>3, WriteType
  <2>5. failed' \in [Clusters -> [Keys -> 0 .. MaxRetries]]
    BY <2>2, <2>3, ForgetType
  <2> QED
    BY <1>6, <2>3, <2>4, <2>5 DEF CidrPut, memberVars, nodeVars, TypeOK
<1>7. CASE CidrPutFails(c)
  <2>1. cidrJob[c].key \in Keys
    BY <1>7, JobTaken DEF CidrPutFails, JobOf
  <2>2. failed' \in [Clusters -> [Keys -> 0 .. MaxRetries]] /\ cidrQ' \in [Clusters -> SUBSET Keys]
    BY <1>7, <2>1, HandleErrorType DEF CidrPutFails
  <2>3. budget' \in [Disturbances -> Nat] /\ cidrJob' = [cidrJob EXCEPT ![c] = NoJob]
    BY <1>7, SpendType DEF CidrPutFails, TypeOK
  <2> QED
    BY <1>7, <2>2, <2>3 DEF CidrPutFails, memberVars, nodeVars, TypeOK
<1>8. CASE Restart(c)
  <2>1. cidrQ' \in [Clusters -> SUBSET Keys]
    <3> DEFINE named == IF Adapter = "common" THEN live[c] ELSE {x \in Names : given[<<c, x>>] # {}}
    <3>1. PICK pick \in [named -> Keys] : cidrQ' = [cidrQ EXCEPT ![c] = {pick[x] : x \in named}]
      BY <1>8 DEF Restart
    <3> HIDE DEF named
    <3> QED
      BY <3>1 DEF TypeOK
  <2>2. failed' \in [Clusters -> [Keys -> 0 .. MaxRetries]]
    BY <1>8, RetryAssumption DEF Restart, TypeOK
  <2>3. budget' \in [Disturbances -> Nat]
    BY <1>8, SpendType DEF Restart
  <2>4. /\ seen' \in [Clusters -> [Ids -> Object \union {None}]] /\ nodeQ' \in [Clusters -> SUBSET Names]
        /\ nodeJob' = [nodeJob EXCEPT ![c] = NoJob] /\ orphan' \in [Clusters -> CleanUp]
        /\ cidrJob' = [cidrJob EXCEPT ![c] = NoJob] /\ UNCHANGED <<memberVars, obj, agentQ>>
    BY <1>8 DEF Restart, TypeOK, CleanUp
  <2> QED
    BY <2>1, <2>2, <2>3, <2>4 DEF memberVars, TypeOK
<1> QED
  BY <1>1, <1>2, <1>3, <1>4, <1>5, <1>6, <1>7, <1>8 DEF CleanOrphan

(* An item of the node CIDR controller keeps the types.                    *)
LEMMA CidrTypes == ASSUME TypeOK, NEW c \in Clusters, NEW k \in Keys, CidrItem(c, k) PROVE TypeOK'
<1>1. ASSUME NEW again, HandleError(c, k, again),
             UNCHANGED <<memberVars, obj, seen, nodeVars, cidrJob, agentQ, budget>>
      PROVE  TypeOK'
  <2>1. failed' \in [Clusters -> [Keys -> 0 .. MaxRetries]] /\ cidrQ' \in [Clusters -> SUBSET Keys]
    BY <1>1, HandleErrorType
  <2> QED
    BY <1>1, <2>1 DEF memberVars, nodeVars, TypeOK
<1>2. ASSUME Forget(c, k), UNCHANGED <<memberVars, obj, seen, nodeVars, cidrJob, agentQ, budget>> PROVE TypeOK'
  <2>1. failed' \in [Clusters -> [Keys -> 0 .. MaxRetries]]
    BY <1>2, ForgetType DEF Forget
  <2>2. cidrQ' \in [Clusters -> SUBSET Keys]
    BY <1>2 DEF Forget, TypeOK
  <2> QED
    BY <1>2, <2>1, <2>2 DEF memberVars, nodeVars, TypeOK
<1>3. CASE CidrStray(c, k)
  BY <1>1, <1>2, <1>3 DEF CidrStray
<1>4. CASE k \in Names /\ CidrEarly(c, k)
  BY <1>1, <1>2, <1>4 DEF CidrEarly
<1>5. CASE CidrTake(c, k)
  <2> DEFINE i == IF k \in Ids THEN k ELSE <<c, k>>
             job == [id |-> i, got |-> seen[c][i], key |-> k, cidrs |-> given[<<c, i[2]>>]]
  <2>1. i \in Ids /\ <<c, i[2]>> \in Ids
    BY DEF Keys, Ids
  <2>2. seen[c][i] # None
    BY <1>5 DEF CidrTake
  <2>3. job \in JobOf(Keys) /\ job.got # None
    BY <2>1, <2>2 DEF JobOf, TypeOK
  <2>4. CASE CidrUnknown(c, i[2])
    BY <1>1, <1>5, <2>4 DEF CidrTake
  <2>5. CASE ~CidrUnknown(c, i[2])
    <3>1. cidrJob' = [cidrJob EXCEPT ![c] = job] /\ cidrQ' = [cidrQ EXCEPT ![c] = @ \ {k}]
      BY <1>5, <2>5 DEF CidrTake
    <3>2. UNCHANGED <<memberVars, obj, seen, nodeVars, agentQ, budget, failed>>
      BY <1>5, <2>5 DEF CidrTake
    <3> HIDE DEF job, i
    <3> QED
      BY <2>3, <3>1, <3>2 DEF memberVars, nodeVars, TypeOK
  <2> QED
    BY <2>4, <2>5
<1> QED
  BY <1>3, <1>4, <1>5 DEF CidrItem

(* Every step keeps the types.                                             *)
LEMMA StepTypes == TypeOK /\ [Next]_vars => TypeOK'
<1> SUFFICES ASSUME TypeOK, [Next]_vars PROVE TypeOK'
  OBVIOUS
<1>1. ASSUME NEW i \in Ids, Agent(i) PROVE TypeOK'
  <2>1. obj[i] # None => [obj[i] EXCEPT !.addr = TRUE] \in Object
    <3>1. obj[i] # None => obj[i] \in Object
      BY DEF TypeOK
    <3> QED
      BY <3>1 DEF Object
  <2>2. obj' \in [Ids -> Object \union {None}] /\ agentQ' \subseteq Ids /\ budget' \in [Disturbances -> Nat]
    BY <1>1, <2>1, SpendType DEF Agent, TypeOK
  <2> QED
    BY <1>1, <2>2 DEF Agent, memberVars, nodeVars, cidrVars, TypeOK
<1>2. CASE UNCHANGED vars
  BY <1>2 DEF vars, memberVars, nodeVars, cidrVars, TypeOK
<1>3. ASSUME NEW c \in Clusters, NEW x \in Names PROVE <<c, x>> \in Ids
  BY DEF Ids
<1> QED
  BY <1>1, <1>2, <1>3, NodeTypes, ClusterTypes, CidrTypes DEF Next, Member

(* The types hold at every moment; in particular no item of the node CIDR  *)
(* controller is retried more than MaxRetries times, and it never writes a *)
(* ClusterNode it has not read (worker.go, nodecidr.Reconcile).            *)
THEOREM Typing == Spec => []TypeOK
<1> QED
  BY InitTypes, StepTypes, PTL DEF Spec

(* None of the node controller, the node CIDR controller and the agent     *)
(* undoes what another has written to a ClusterNode since it was read, in  *)
(* any number of clusters, for any adapter, across failures and restarts.  *)
THEOREM UpdatesKept == Spec => NoLostUpdate
<1> DEFINE Kept ==
      \A i \in Ids : obj[i] # None /\ obj'[i] # None =>
        /\ obj[i].addr => obj'[i].addr
        /\ obj'[i].cidrs # obj[i].cidrs =>
             \E c \in Clusters : cidrJob[c].id = i /\ obj'[i].cidrs = cidrJob[c].cidrs
<1>1. TypeOK /\ [Next]_vars => Kept
  <2> SUFFICES ASSUME TypeOK, [Next]_vars PROVE Kept
    OBVIOUS
  <2>1. CASE UNCHANGED obj
    BY <2>1
  <2>2. ASSUME NEW i \in Ids, Write(i, None) PROVE Kept
    BY <2>2 DEF Write, TypeOK
  <2>3. ASSUME NEW c \in Clusters, NodePut(c) PROVE Kept
    <3> DEFINE i == nodeJob[c].id
    <3>1. obj' = obj \/ (i \in Ids /\ obj' = [obj EXCEPT ![i] = CreateOrUpdate(obj[i])])
      BY <2>3, JobTaken DEF NodePut, Write, JobOf
    <3> HIDE DEF i
    <3> QED
      BY <3>1 DEF CreateOrUpdate, TypeOK
  <2>4. ASSUME NEW c \in Clusters, CidrPut(c) PROVE Kept
    <3> DEFINE j == cidrJob[c]
               new == [obj[j.id] EXCEPT !.cidrs = j.cidrs]
    <3>1. j \in JobOf(Keys) /\ obj[j.id] \in Object /\ obj' = [obj EXCEPT ![j.id] = new]
      BY <2>4, JobTaken DEF CidrPut, Write
    <3>2. j.id \in Ids /\ new.addr = obj[j.id].addr /\ new.cidrs = j.cidrs
      BY <3>1 DEF JobOf, Object
    <3>3. \A i \in Ids : i # j.id => obj'[i] = obj[i]
      BY <3>1, <3>2 DEF TypeOK
    <3>4. obj'[j.id] = new
      BY <3>1, <3>2 DEF TypeOK
    <3> HIDE DEF new
    <3> QED
      BY <3>2, <3>3, <3>4
  <2>5. ASSUME NEW i \in Ids, Agent(i) PROVE Kept
    <3>1. CASE obj[i] # None /\ obj' = [obj EXCEPT ![i].addr = TRUE]
      <4>1. obj[i] \in Object
        BY <3>1 DEF TypeOK
      <4>2. [obj[i] EXCEPT !.addr = TRUE].addr = TRUE /\ [obj[i] EXCEPT !.addr = TRUE].cidrs = obj[i].cidrs
        BY <4>1 DEF Object
      <4> QED
        BY <3>1, <4>2 DEF TypeOK
    <3> QED
      BY <2>1, <2>5, <3>1 DEF Agent
  <2>6. ASSUME NEW c \in Clusters, NEW x \in Names, NodeGone(c, x) \/ OrphanDelete(c, x) PROVE Kept
    <3>1. <<c, x>> \in Ids
      BY DEF Ids
    <3> QED
      BY <2>1, <2>2, <2>6, <3>1 DEF NodeGone, OrphanDelete
  <2>7. CASE UNCHANGED vars
    BY <2>1, <2>7 DEF vars
  <2>8. ASSUME NEW c \in Clusters, NEW x \in Names,
               ChangeNode(c, x) \/ ChangeCidr(c, x) \/ Heartbeat(c, x) \/ NodeGet(c, x)
        PROVE  Kept
    BY <2>1, <2>8 DEF ChangeNode, ChangeCidr, Heartbeat, NodeGet
  <2>9. ASSUME NEW c \in Clusters, See(c) \/ CleanOrphan(c) \/ CidrPutFails(c) \/ Restart(c) PROVE Kept
    <3>1. CASE CleanOrphan(c)
      BY <2>1, <2>6, <3>1 DEF CleanOrphan, OrphanNodes, OrphanList
    <3> QED
      BY <2>1, <2>9, <3>1 DEF See, CidrPutFails, Restart
  <2>10. ASSUME NEW c \in Clusters, NEW k \in Keys, CidrItem(c, k) PROVE Kept
    BY <2>1, <2>10 DEF CidrItem, CidrStray, CidrEarly, CidrTake
  <2>11. ASSUME NEW c \in Clusters, NEW x \in Names PROVE <<c, x>> \in Ids
    BY DEF Ids
  <2> QED
    BY <2>3, <2>4, <2>5, <2>6, <2>7, <2>8, <2>9, <2>10, <2>11 DEF Next, Member
<1> QED
  BY <1>1, Typing, PTL DEF Spec, NoLostUpdate
=============================================================================
