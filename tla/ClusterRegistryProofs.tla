----------------------- MODULE ClusterRegistryProofs -----------------------
(***************************************************************************)
(* Theorems about ClusterRegistry, for any Clusters, kubeconfigs, actual   *)
(* names (shared or not), node names and budget of disturbances: the       *)
(* types, OneManager and NothingOutlives.                                  *)
(*                                                                         *)
(* The finalizer is the heart of the argument: every copy of a Cluster     *)
(* that is not being deleted and has the finalizer, in the cache, on its   *)
(* way there or in the worker's hands, belongs to an object that is still  *)
(* in the API server with its finalizer, because only the worker takes the *)
(* finalizer away, and it is refused unless it holds the last version.     *)
(***************************************************************************)
EXTENDS ClusterRegistry, TLAPS

Guarded(c) == obj[c] # None /\ obj[c].fin = "yes"

(* The versions of c that may be read, now or later. *)
Readable(c) ==
  {v \in Object \union {None} : v # None /\ v.term = "no" /\ v.fin = "yes" => Guarded(c)}

ApiSide ==
  /\ obj \in [Clusters -> Object \union {None}]
  /\ watch = [c \in Clusters |-> watch[c]]
  /\ cache = [c \in Clusters |-> cache[c]]
  /\ \A c \in Clusters : cache[c] \in Readable(c) /\ watch[c] \in Seq(Readable(c))

(* What the worker knows at each step. *)
JobSide ==
  /\ job \in Job
  /\ job.pc # "idle" => job.of # None /\ job.got # None
  /\ job.pc = "finalizer" => job.got.term = "no"
  /\ job.pc \in {"create", "setup", "start"} => job.got.term = "no"
  /\ job.pc \in {"delete", "release"} => job.got.term = "yes"
  /\ job.pc \notin {"idle", "finalizer"} /\ job.got.term = "no" => Guarded(job.of)
  /\ job.pc # "idle" /\ job.fresh = "yes" /\ job.got.term = "yes" =>
       watch[job.of] = <<>> /\ cache[job.of] = job.got
  /\ job.pc \in {"delete", "release", "create", "setup"} =>
       managers[job.of] = None /\ job.of \notin leafs
  /\ job.pc = "start" => managers[job.of] # None /\ managers[job.of].state = "setup"

(* What is registered belongs to a guarded Cluster. *)
RegSide ==
  /\ managers \in [Clusters -> Manager \union {None}]
  /\ live \in [Clusters -> Nat] /\ stopping \in [Clusters -> Nat]
  /\ leafs \subseteq Clusters
  /\ clients \in [Names -> Client \union {None}]
  /\ \A c \in leafs : Guarded(c)
  /\ \A c \in Clusters : managers[c] # None => c \in leafs
  /\ \A a \in Names : clients[a] # None => clients[a].by \in leafs /\ Actual[clients[a].by] = a

Rest == queue \subseteq Clusters /\ nodes \subseteq Nodes /\ budget \in [Disturbances -> Nat]

IInv == ApiSide /\ JobSide /\ RegSide /\ OneManager /\ Rest

-----------------------------------------------------------------------------
LEMMA SeqSubset ==
  ASSUME NEW S, NEW T, S \subseteq T, NEW q \in Seq(S)
  PROVE  q \in Seq(T)
<1>1. q \in [1..Len(q) -> S] /\ Len(q) \in Nat
  OBVIOUS
<1>2. q \in [1..Len(q) -> T]
  BY <1>1
<1> QED BY <1>1, <1>2

(* The inductive invariant gives the types. *)
LEMMA IInvType == IInv => TypeOK
<1> SUFFICES ASSUME IInv PROVE TypeOK
  OBVIOUS
<1>1. \A c \in Clusters : Readable(c) \subseteq Object \union {None}
  BY DEF Readable
<1>2. \A c \in Clusters : watch[c] \in Seq(Object \union {None})
  BY <1>1, SeqSubset DEF IInv, ApiSide
<1>3. watch \in [Clusters -> Seq(Object \union {None})]
  BY <1>2 DEF IInv, ApiSide
<1>4. cache \in [Clusters -> Object \union {None}]
  BY <1>1 DEF IInv, ApiSide
<1> QED BY <1>3, <1>4 DEF IInv, ApiSide, JobSide, RegSide, Rest, TypeOK

(* The inductive invariant gives NothingOutlives. *)
LEMMA IInvOutlives == IInv => NothingOutlives
BY DEF IInv, RegSide, OneManager, NothingOutlives, Guarded

LEMMA InitIInv == Init => IInv
<1> SUFFICES ASSUME Init PROVE IInv
  OBVIOUS
<1>1. \A c \in Clusters : None \in Readable(c)
  BY DEF Readable
<1>2. ApiSide
  BY <1>1 DEF Init, ApiSide
<1>3. JobSide
  BY DEF Init, JobSide, Idle, Job, Steps
<1>4. RegSide
  BY DEF Init, RegSide
<1>5. OneManager /\ Rest
  BY BudgetAssumption DEF Init, OneManager, Rest
<1> QED BY <1>2, <1>3, <1>4, <1>5 DEF IInv

-----------------------------------------------------------------------------
(* The budget, which every disturbance spends from. *)
LEMMA Spent ==
  ASSUME budget \in [Disturbances -> Nat], NEW e \in Disturbances, Spend(e)
  PROVE  budget' \in [Disturbances -> Nat]
BY DEF Spend

(* A write of a version o that keeps every promise made about c. *)
LEMMA Written ==
  ASSUME IInv, NEW c \in Clusters, NEW o \in Object \union {None}, Write(c, o),
         Guarded(c) => o # None /\ o.fin = "yes"
  PROVE  ApiSide' /\ \A d \in Clusters : Guarded(d) => Guarded(d)'
<1>1. /\ obj' \in [Clusters -> Object \union {None}]
      /\ obj'[c] = o
      /\ \A d \in Clusters : d # c => obj'[d] = obj[d]
  BY DEF IInv, ApiSide, Write
<1>2. \A d \in Clusters : Guarded(d) => Guarded(d)'
  BY <1>1 DEF Guarded
<1>3. \A d \in Clusters : Readable(d) \subseteq Readable(d)'
  BY <1>2 DEF Readable
<1>4. o \in Readable(c)'
  BY <1>1 DEF Readable, Guarded
<1>5. ASSUME NEW d \in Clusters
      PROVE  cache'[d] \in Readable(d)' /\ watch'[d] \in Seq(Readable(d)')
  <2>1. cache'[d] \in Readable(d)'
    BY <1>3 DEF IInv, ApiSide, Write
  <2>2. watch[d] \in Seq(Readable(d)')
    BY <1>3, SeqSubset DEF IInv, ApiSide
  <2>3. CASE d = c
    <3>1. Append(watch[d], o) \in Seq(Readable(d)')
      BY <2>2, <2>3, <1>4
    <3> QED BY <2>1, <2>3, <3>1 DEF IInv, ApiSide, Write
  <2>4. CASE d # c
    BY <2>1, <2>2, <2>4 DEF IInv, ApiSide, Write
  <2> QED BY <2>3, <2>4
<1>6. watch' = [d \in Clusters |-> watch'[d]] /\ cache' = [d \in Clusters |-> cache'[d]]
  BY DEF IInv, ApiSide, Write
<1> QED BY <1>1, <1>2, <1>5, <1>6 DEF ApiSide

(* What is registered stays so while promises are kept. *)
LEMMA RegKept ==
  ASSUME IInv, UNCHANGED regVars, \A d \in Clusters : Guarded(d) => Guarded(d)'
  PROVE  RegSide' /\ OneManager'
BY DEF IInv, RegSide, OneManager, regVars

(* A write by somebody else leaves the worker an old copy. *)
LEMMA Outdated ==
  ASSUME IInv, NEW c \in Clusters, NEW o, Write(c, o), Outdate(c), UNCHANGED regVars,
         \A d \in Clusters : Guarded(d) => Guarded(d)'
  PROVE  JobSide'
<1>1. CASE job.of = c
  <2>1. /\ job' \in Job /\ job'.pc = job.pc /\ job'.of = job.of /\ job'.got = job.got
        /\ job'.fresh = "no"
    BY <1>1 DEF IInv, JobSide, Job, Outdate
  <2>2. job.pc # "idle" => job.of \in Clusters
    BY DEF IInv, JobSide, Job
  <2> QED BY <2>1, <2>2 DEF IInv, JobSide, regVars
<1>2. CASE job.of # c
  <2>1. job' = job
    BY <1>2 DEF Outdate
  <2>2. job.pc # "idle" => job.of \in Clusters
    BY DEF IInv, JobSide, Job
  <2>3. job.pc # "idle" => watch'[job.of] = watch[job.of] /\ cache'[job.of] = cache[job.of]
    BY <1>2, <2>2 DEF IInv, ApiSide, Write
  <2> QED BY <2>1, <2>2, <2>3 DEF IInv, JobSide, regVars
<1> QED BY <1>1, <1>2

LEMMA IdleSide ==
  ASSUME job' = Idle
  PROVE  JobSide'
BY DEF JobSide, Idle, Job, Steps

(* Nothing changes in the API server and its informer. *)
LEMMA ApiKept ==
  ASSUME IInv, UNCHANGED apiVars
  PROVE  ApiSide' /\ \A d \in Clusters : Guarded(d)' = Guarded(d)
<1>1. \A d \in Clusters : Guarded(d)' = Guarded(d)
  BY DEF Guarded, apiVars
<1>2. \A d \in Clusters : Readable(d)' = Readable(d)
  BY <1>1 DEF Readable
<1> QED BY <1>1, <1>2 DEF IInv, ApiSide, apiVars

-----------------------------------------------------------------------------
(* One lemma per group of actions. *)

LEMMA StepAdmin ==
  ASSUME IInv, NEW c \in Clusters,
         DeleteCluster(c) \/ \E k \in Confs : CreateCluster(c, k) \/ EditConf(c, k)
  PROVE  IInv'
<1>1. CASE DeleteCluster(c)
  <2>1. PICK o \in Object \union {None} :
             Write(c, o) /\ (Guarded(c) => o # None /\ o.fin = "yes")
    <3>1. obj[c] \in Object
      BY <1>1 DEF DeleteCluster, IInv, ApiSide
    <3>2. [obj[c] EXCEPT !.term = "yes"] \in Object /\ [obj[c] EXCEPT !.term = "yes"].fin = obj[c].fin
      BY <3>1 DEF Object
    <3>3. [obj[c] EXCEPT !.term = "yes"] # None
      BY <3>2, NoneAssumption
    <3> QED BY <1>1, <3>2, <3>3 DEF DeleteCluster, Guarded
  <2>2. ApiSide' /\ \A d \in Clusters : Guarded(d) => Guarded(d)'
    BY <2>1, Written
  <2>3. UNCHANGED regVars /\ Outdate(c) /\ Rest'
    BY <1>1 DEF DeleteCluster, IInv, Rest
  <2> QED BY <2>1, <2>2, <2>3, Outdated, RegKept DEF IInv
<1>2. ASSUME NEW k \in Confs, CreateCluster(c, k)
      PROVE  IInv'
  <2> DEFINE o == [conf |-> k, term |-> "no", fin |-> "no"]
  <2>1. o \in Object /\ Write(c, o) /\ ~Guarded(c)
    BY <1>2 DEF CreateCluster, Object, Guarded
  <2> HIDE DEF o
  <2>2. ApiSide' /\ \A d \in Clusters : Guarded(d) => Guarded(d)'
    BY <2>1, Written
  <2>3. UNCHANGED regVars /\ Outdate(c) /\ Rest'
    BY <1>2, Spent DEF CreateCluster, IInv, Rest, Disturbances
  <2> QED BY <2>1, <2>2, <2>3, Outdated, RegKept DEF IInv
<1>3. ASSUME NEW k \in Confs, EditConf(c, k)
      PROVE  IInv'
  <2> DEFINE o == [obj[c] EXCEPT !.conf = k]
  <2>1. obj[c] \in Object
    BY <1>3 DEF EditConf, IInv, ApiSide
  <2>2. o \in Object /\ o.fin = obj[c].fin /\ Write(c, o)
    BY <1>3, <2>1 DEF EditConf, Object
  <2> HIDE DEF o
  <2>3. ApiSide' /\ \A d \in Clusters : Guarded(d) => Guarded(d)'
    BY <2>2, Written, NoneAssumption DEF Guarded
  <2>4. UNCHANGED regVars /\ Outdate(c) /\ Rest'
    BY <1>3, Spent DEF EditConf, IInv, Rest, Disturbances
  <2> QED BY <2>2, <2>3, <2>4, Outdated, RegKept DEF IInv
<1> QED BY <1>1, <1>2, <1>3

LEMMA StepDeliver ==
  ASSUME IInv, NEW c \in Clusters, Deliver(c)
  PROVE  IInv'
<1>1. \A d \in Clusters : Guarded(d)' = Guarded(d)
  BY DEF Deliver, Guarded
<1>2. \A d \in Clusters : Readable(d)' = Readable(d)
  BY <1>1 DEF Readable
<1>3. watch[c] \in Seq(Readable(c)) /\ watch[c] # <<>>
  BY DEF Deliver, IInv, ApiSide
<1>4. Head(watch[c]) \in Readable(c) /\ Tail(watch[c]) \in Seq(Readable(c))
  BY <1>3
<1>5. /\ cache' = [cache EXCEPT ![c] = Head(watch[c])]
      /\ watch' = [watch EXCEPT ![c] = Tail(watch[c])]
  BY DEF Deliver
<1>6. ASSUME NEW d \in Clusters
      PROVE  cache'[d] \in Readable(d)' /\ watch'[d] \in Seq(Readable(d)')
  <2>1. CASE d = c
    BY <1>2, <1>4, <1>5, <2>1 DEF IInv, ApiSide
  <2>2. CASE d # c
    BY <1>2, <1>5, <2>2 DEF IInv, ApiSide
  <2> QED BY <2>1, <2>2
<1>7. ApiSide'
  BY <1>5, <1>6 DEF IInv, ApiSide, Deliver
<1>8. JobSide'
  <2>1. job.pc # "idle" => job.of \in Clusters
    BY DEF IInv, JobSide, Job
  <2>2. job' = job /\ UNCHANGED regVars
    BY DEF Deliver
  <2>3. job.pc # "idle" /\ job.of # c =>
          watch'[job.of] = watch[job.of] /\ cache'[job.of] = cache[job.of]
    BY <1>5, <2>1 DEF IInv, ApiSide
  <2> QED BY <1>1, <1>3, <2>1, <2>2, <2>3 DEF IInv, JobSide, regVars
<1>9. RegSide' /\ OneManager'
  BY <1>1, RegKept DEF Deliver
<1>10. Rest'
  BY DEF Deliver, IInv, Rest
<1> QED BY <1>7, <1>8, <1>9, <1>10 DEF IInv

LEMMA StepTake ==
  ASSUME IInv, NEW c \in Clusters, Take(c) \/ TakeNothing(c)
  PROVE  IInv'
<1>1. ApiSide' /\ \A d \in Clusters : Guarded(d)' = Guarded(d)
  BY ApiKept DEF Take, TakeNothing
<1>2. RegSide' /\ OneManager'
  BY <1>1, RegKept DEF Take, TakeNothing
<1>3. Rest'
  BY DEF Take, TakeNothing, IInv, Rest
<1>4. CASE Take(c)
  <2>1. cache[c] \in Readable(c) /\ cache[c] # None
    BY <1>4 DEF Take, IInv, ApiSide
  <2>2. cache[c] \in Object
    BY <2>1 DEF Readable
  <2>3. /\ job'.of = c /\ job'.got = cache[c]
        /\ job'.fresh = (IF watch[c] = <<>> THEN "yes" ELSE "no")
        /\ job'.pc = (IF cache[c].term = "no" /\ cache[c].fin = "no" THEN "finalizer" ELSE "clear")
    BY <1>4 DEF Take
  <2>4. job' \in Job
    BY <1>4, <2>2 DEF Take, Job, Steps
  <2>5. cache[c].term = "no" /\ cache[c].fin # "no" => Guarded(c)
    BY <2>1, <2>2 DEF Readable, Object
  <2>6. UNCHANGED <<watch, cache>>
    BY <1>4 DEF Take, apiVars
  <2>7. JobSide'
    BY <1>1, <2>1, <2>3, <2>4, <2>5, <2>6, NoneAssumption DEF JobSide
  <2> QED BY <1>1, <1>2, <1>3, <2>7 DEF IInv
<1>5. CASE TakeNothing(c)
  <2>1. JobSide'
    BY <1>5, IdleSide DEF TakeNothing
  <2> QED BY <1>1, <1>2, <1>3, <2>1 DEF IInv
<1> QED BY <1>4, <1>5

LEMMA StepFinalizer ==
  ASSUME IInv, AddFinalizer
  PROVE  IInv'
<1>0. PICK c \in Clusters : c = job.of
  BY DEF AddFinalizer, IInv, JobSide, Job
<1> DEFINE o == [job.got EXCEPT !.fin = "yes"]
<1>1. job.got \in Object /\ job.got.term = "no"
  BY DEF AddFinalizer, IInv, JobSide, Job
<1>2. o \in Object /\ o.fin = "yes" /\ o.term = "no" /\ o # None
  BY <1>1, NoneAssumption DEF Object
<1>3. Write(c, o) /\ job' = [job EXCEPT !.pc = "clear", !.got = o] /\ UNCHANGED regVars
  BY <1>0 DEF AddFinalizer
<1> HIDE DEF o
<1>4. ApiSide' /\ \A d \in Clusters : Guarded(d) => Guarded(d)'
  BY <1>1, <1>2, <1>3, Written
<1>5. Guarded(c)'
  BY <1>1, <1>2, <1>3 DEF Write, Guarded, IInv, ApiSide
<1>6. job' \in Job /\ job'.pc = "clear" /\ job'.of = c /\ job'.got = o
  BY <1>0, <1>2, <1>3 DEF IInv, JobSide, Job, Steps
<1>7. JobSide'
  BY <1>1, <1>2, <1>5, <1>6, NoneAssumption DEF JobSide
<1>8. Rest'
  BY DEF AddFinalizer, IInv, Rest
<1> QED BY <1>3, <1>4, <1>7, <1>8, RegKept DEF IInv

LEMMA StepClear ==
  ASSUME IInv, Clear
  PROVE  IInv'
<1> DEFINE c == job.of
<1>1. c \in Clusters /\ job.got \in Object /\ job.pc = "clear"
  BY DEF Clear, IInv, JobSide, Job
<1>2. ApiSide' /\ \A d \in Clusters : Guarded(d)' = Guarded(d)
  BY ApiKept DEF Clear
<1>3. /\ managers' = [managers EXCEPT ![c] = None]
      /\ leafs' = leafs \ {c}
      /\ clients' = [clients EXCEPT ![Actual[c]] = None]
      /\ stopping' = [stopping EXCEPT ![c] =
                        IF managers[c] # None /\ managers[c].state = "running" THEN @ + 1 ELSE @]
      /\ live' = live
  BY DEF Clear
<1>4. live'[c] = stopping'[c] /\ \A d \in Clusters : d # c => stopping'[d] = stopping[d]
  BY <1>1, <1>3 DEF IInv, RegSide, OneManager
<1>5. live' \in [Clusters -> Nat] /\ stopping' \in [Clusters -> Nat]
  BY <1>1, <1>3, <1>4 DEF IInv, RegSide
<1>6. managers'[c] = None /\ \A d \in Clusters : d # c => managers'[d] = managers[d]
  BY <1>1, <1>3 DEF IInv, RegSide
<1>7. OneManager'
  BY <1>3, <1>4, <1>5, <1>6 DEF IInv, OneManager
<1>8. RegSide'
  <2>1. Actual[c] \in Names
    BY <1>1, NamesAssumption
  <2>2. clients'[Actual[c]] = None /\ \A a \in Names : a # Actual[c] => clients'[a] = clients[a]
    BY <1>3, <2>1 DEF IInv, RegSide
  <2>3. \A a \in Names : clients'[a] # None => clients'[a].by \in leafs' /\ Actual[clients'[a].by] = a
    BY <1>3, <2>2 DEF IInv, RegSide
  <2>4. clients' \in [Names -> Client \union {None}]
    BY <1>3, <2>1 DEF IInv, RegSide
  <2>5. managers' \in [Clusters -> Manager \union {None}]
    BY <1>1, <1>3 DEF IInv, RegSide
  <2> QED BY <1>2, <1>3, <1>5, <1>6, <2>3, <2>4, <2>5 DEF IInv, RegSide
<1>9. UNCHANGED <<watch, cache>>
  BY DEF Clear, apiVars
<1>10. JobSide'
  <2>1. CASE job' = Idle
    BY <2>1, IdleSide
  <2>2. CASE job' # Idle
    <3>1. /\ job'.of = c /\ job'.got = job.got /\ job'.fresh = job.fresh /\ job' \in Job
          /\ \/ job'.pc = "delete" /\ job.got.term = "yes"
             \/ job'.pc = "create" /\ job.got.term = "no"
      BY <1>1, <2>2 DEF Clear, IInv, JobSide, Job, Steps, Object
    <3> QED BY <1>1, <1>2, <1>3, <1>6, <1>9, <3>1, NoneAssumption DEF IInv, JobSide
  <2> QED BY <2>1, <2>2
<1>11. Rest'
  BY DEF Clear, IInv, Rest
<1> QED BY <1>2, <1>7, <1>8, <1>10, <1>11 DEF IInv

LEMMA StepRelease ==
  ASSUME IInv, RemoveFinalizer
  PROVE  IInv'
<1>0. PICK c \in Clusters : c = job.of
  BY DEF RemoveFinalizer, IInv, JobSide, Job
<1>1. /\ job.got \in Object /\ job.got.term = "yes"
      /\ watch[c] = <<>> /\ cache[c] = job.got
      /\ managers[c] = None /\ c \notin leafs
  BY <1>0 DEF RemoveFinalizer, IInv, JobSide, Job
<1>2. Write(c, None) /\ job' = Idle /\ UNCHANGED regVars
  BY <1>0 DEF RemoveFinalizer
<1>3. \A d \in Clusters : d # c => Guarded(d)' = Guarded(d)
  BY <1>1, <1>2 DEF Write, Guarded, IInv, ApiSide
<1>4. \A d \in Clusters : d # c => Readable(d)' = Readable(d)
  BY <1>3 DEF Readable
<1>5. ASSUME NEW d \in Clusters
      PROVE  cache'[d] \in Readable(d)' /\ watch'[d] \in Seq(Readable(d)')
  <2>1. CASE d = c
    <3>1. cache'[c] = job.got /\ watch'[c] = Append(<<>>, None)
      BY <1>1, <1>2 DEF Write, IInv, ApiSide
    <3>2. None \in Readable(c)' /\ job.got \in Readable(c)'
      BY <1>1 DEF Readable
    <3>3. Append(<<>>, None) \in Seq(Readable(c)')
      BY <3>2
    <3> QED BY <2>1, <3>1, <3>2, <3>3
  <2>2. CASE d # c
    BY <1>2, <1>4, <2>2 DEF Write, IInv, ApiSide
  <2> QED BY <2>1, <2>2
<1>6. ApiSide'
  BY <1>1, <1>2, <1>5 DEF Write, IInv, ApiSide
<1>7. RegSide' /\ OneManager'
  BY <1>1, <1>2, <1>3 DEF IInv, RegSide, OneManager, regVars
<1>8. JobSide'
  BY <1>2, IdleSide
<1>9. Rest'
  BY DEF RemoveFinalizer, IInv, Rest
<1> QED BY <1>6, <1>7, <1>8, <1>9 DEF IInv

(* Steps of the worker that leave the registries and the API server alone. *)
LEMMA StepQuiet ==
  ASSUME IInv, DeleteNode \/ CreateNode \/ Conflict \/ Fails
  PROVE  IInv'
<1>1. ApiSide' /\ \A d \in Clusters : Guarded(d)' = Guarded(d)
  BY ApiKept DEF DeleteNode, CreateNode, Conflict, Fails
<1>2. RegSide' /\ OneManager'
  BY <1>1, RegKept DEF DeleteNode, CreateNode, Conflict, Fails
<1>3. job.pc # "idle" /\ job.of \in Clusters /\ job.got \in Object
  BY DEF DeleteNode, CreateNode, Conflict, Fails, IInv, JobSide, Job
<1>4. Rest'
  <2>1. CASE Fails
    BY <1>3, <2>1, Spent DEF Fails, Retry, IInv, Rest, Disturbances
  <2>2. CASE DeleteNode \/ CreateNode \/ Conflict
    BY <1>3, <2>2, NodesAssumption DEF DeleteNode, CreateNode, Conflict, Retry, IInv, Rest
  <2> QED BY <2>1, <2>2
<1>5. JobSide'
  <2>1. CASE job' = Idle
    BY <2>1, IdleSide
  <2>2. CASE job' # Idle
    <3>1. /\ job'.of = job.of /\ job'.got = job.got /\ job'.fresh = job.fresh /\ job' \in Job
          /\ \/ job'.pc = "release" /\ job.pc = "delete"
             \/ job'.pc = "setup" /\ job.pc = "create"
      BY <2>2 DEF DeleteNode, CreateNode, Conflict, Fails, Retry, IInv, JobSide, Job, Steps
    <3>2. UNCHANGED <<watch, cache, managers, leafs>>
      BY DEF DeleteNode, CreateNode, Conflict, Fails, apiVars, regVars
    <3> QED BY <1>1, <1>3, <3>1, <3>2 DEF IInv, JobSide
  <2> QED BY <2>1, <2>2
<1> QED BY <1>1, <1>2, <1>4, <1>5 DEF IInv

LEMMA StepSetup ==
  ASSUME IInv, Setup
  PROVE  IInv'
<1> DEFINE c == job.of
           m == [conf |-> job.got.conf, state |-> "setup"]
           k == [by |-> c, conf |-> job.got.conf]
<1>1. /\ c \in Clusters /\ job.got \in Object /\ job.pc = "setup" /\ job.got.term = "no"
      /\ Guarded(c) /\ managers[c] = None
  BY DEF Setup, IInv, JobSide, Job
<1>2. ApiSide' /\ \A d \in Clusters : Guarded(d)' = Guarded(d)
  BY ApiKept DEF Setup
<1>3. m \in Manager /\ m # None /\ m.state = "setup" /\ k \in Client /\ k # None /\ k.by = c
  BY <1>1, NoneAssumption DEF Manager, Client, Object
<1>4. /\ managers' = [managers EXCEPT ![c] = m]
      /\ leafs' = leafs \union {c}
      /\ clients' = [clients EXCEPT ![Actual[c]] = IF clients[Actual[c]] = None THEN k ELSE clients[Actual[c]]]
      /\ job' = [job EXCEPT !.pc = "start"]
      /\ UNCHANGED <<live, stopping>>
  BY DEF Setup
<1> HIDE DEF m, k
<1>5. managers'[c] = m /\ \A d \in Clusters : d # c => managers'[d] = managers[d]
  BY <1>1, <1>4 DEF IInv, RegSide
<1>6. OneManager'
  BY <1>1, <1>3, <1>4, <1>5 DEF IInv, OneManager
<1>7. RegSide'
  <2>1. Actual[c] \in Names
    BY <1>1, NamesAssumption
  <2>2. /\ clients'[Actual[c]] \in {k, clients[Actual[c]]}
        /\ \A a \in Names : a # Actual[c] => clients'[a] = clients[a]
    BY <1>4, <2>1 DEF IInv, RegSide
  <2>3. \A a \in Names : clients'[a] # None => clients'[a].by \in leafs' /\ Actual[clients'[a].by] = a
    BY <1>3, <1>4, <2>2 DEF IInv, RegSide
  <2>4. clients' \in [Names -> Client \union {None}]
    BY <1>3, <1>4, <2>1 DEF IInv, RegSide
  <2>5. managers' \in [Clusters -> Manager \union {None}]
    BY <1>1, <1>3, <1>4 DEF IInv, RegSide
  <2>6. leafs' \subseteq Clusters /\ \A d \in leafs' : Guarded(d)'
    BY <1>1, <1>2, <1>4 DEF IInv, RegSide
  <2>7. \A d \in Clusters : managers'[d] # None => d \in leafs'
    BY <1>4, <1>5 DEF IInv, RegSide
  <2> QED BY <1>4, <2>3, <2>4, <2>5, <2>6, <2>7 DEF IInv, RegSide
<1>8. JobSide'
  <2>1. job'.pc = "start" /\ job'.of = c /\ job'.got = job.got /\ job' \in Job
    BY <1>4 DEF IInv, JobSide, Job, Steps
  <2> QED BY <1>1, <1>2, <1>3, <1>5, <2>1, NoneAssumption DEF JobSide
<1>9. Rest'
  BY DEF Setup, IInv, Rest
<1> QED BY <1>2, <1>6, <1>7, <1>8, <1>9 DEF IInv

(* The manager starts, or its Start returns. *)
LEMMA StepManager ==
  ASSUME IInv, StartManager \/ \E c \in Clusters : ManagerDies(c)
  PROVE  IInv'
<1>1. PICK c \in Clusters, s \in {"running", "dead"} :
        /\ managers[c] # None
        /\ managers' = [managers EXCEPT ![c].state = s]
        /\ \/ s = "running" /\ managers[c].state = "setup" /\ live' = [live EXCEPT ![c] = @ + 1]
              /\ job' = Idle
           \/ s = "dead" /\ managers[c].state = "running" /\ live' = [live EXCEPT ![c] = @ - 1]
              /\ job' = job
  <2>1. CASE StartManager
    <3>1. job.of \in Clusters /\ managers[job.of] # None /\ managers[job.of].state = "setup"
      BY <2>1 DEF StartManager, IInv, JobSide, Job
    <3> QED BY <2>1, <3>1 DEF StartManager
  <2>2. CASE \E d \in Clusters : ManagerDies(d)
    BY <2>2 DEF ManagerDies
  <2> QED BY <2>1, <2>2
<1>2. ApiSide' /\ \A d \in Clusters : Guarded(d)' = Guarded(d)
  BY ApiKept DEF StartManager, ManagerDies
<1>3. UNCHANGED <<stopping, leafs, clients, watch, cache>>
  BY DEF StartManager, ManagerDies, apiVars
<1>4. managers[c] \in Manager
  BY <1>1 DEF IInv, RegSide
<1>5. managers'[c] \in Manager /\ managers'[c].state = s /\ managers'[c] # None
  BY <1>1, <1>4, NoneAssumption DEF Manager, IInv, RegSide
<1>6. \A d \in Clusters : d # c => managers'[d] = managers[d] /\ live'[d] = live[d]
  BY <1>1 DEF IInv, RegSide
<1>7. live'[c] = stopping[c] + (IF s = "running" THEN 1 ELSE 0)
  BY <1>1 DEF IInv, RegSide, OneManager
<1>8. OneManager'
  BY <1>3, <1>5, <1>6, <1>7 DEF IInv, OneManager
<1>9. managers' \in [Clusters -> Manager \union {None}]
  BY <1>1, <1>5 DEF IInv, RegSide
<1>10. live' \in [Clusters -> Nat]
  BY <1>1, <1>6, <1>7 DEF IInv, RegSide
<1>11. RegSide'
  BY <1>1, <1>2, <1>3, <1>6, <1>9, <1>10 DEF IInv, RegSide
<1>12. JobSide'
  <2>1. CASE job' = Idle
    BY <2>1, IdleSide
  <2>2. CASE job' = job /\ managers[c].state = "running"
    <3>1. job.pc # "idle" => job.of \in Clusters
      BY DEF IInv, JobSide, Job
    <3>2. job.pc = "start" => job.of # c
      BY <2>2 DEF IInv, JobSide
    <3>3. job.pc \in {"delete", "release", "create", "setup"} => job.of # c
      BY <1>1 DEF IInv, JobSide
    <3> QED BY <1>2, <1>3, <1>6, <2>2, <3>1, <3>2, <3>3 DEF IInv, JobSide
  <2> QED BY <1>1, <2>1, <2>2
<1>13. Rest'
  <2>1. CASE StartManager
    BY <2>1 DEF StartManager, IInv, Rest
  <2>2. CASE \E d \in Clusters : ManagerDies(d)
    BY <2>2, Spent DEF ManagerDies, IInv, Rest, Disturbances
  <2> QED BY <2>1, <2>2
<1> QED BY <1>2, <1>8, <1>11, <1>12, <1>13 DEF IInv

(* A cancelled manager ends.                                               *)
LEMMA StepStops ==
  ASSUME IInv, NEW c \in Clusters, ManagerStops(c)
  PROVE  IInv'
<1>1. ApiSide' /\ \A d \in Clusters : Guarded(d)' = Guarded(d)
  BY ApiKept DEF ManagerStops
<1>2. /\ live'[c] = live[c] - 1 /\ stopping'[c] = stopping[c] - 1 /\ stopping[c] > 0
      /\ \A d \in Clusters : d # c => live'[d] = live[d] /\ stopping'[d] = stopping[d]
  BY DEF ManagerStops, IInv, RegSide
<1>3. live[c] >= stopping[c] /\ live[c] \in Nat /\ stopping[c] \in Nat
  BY DEF IInv, RegSide, OneManager
<1>4. live' \in [Clusters -> Nat] /\ stopping' \in [Clusters -> Nat]
  BY <1>2, <1>3 DEF ManagerStops, IInv, RegSide
<1>5. UNCHANGED <<watch, cache, queue, job, managers, leafs, clients, nodes, budget>>
  BY DEF ManagerStops, apiVars
<1>6. OneManager'
  BY <1>2, <1>3, <1>5 DEF IInv, RegSide, OneManager
<1>7. RegSide'
  BY <1>1, <1>4, <1>5 DEF IInv, RegSide
<1>8. JobSide'
  <2>1. job.pc # "idle" => job.of \in Clusters
    BY DEF IInv, JobSide, Job
  <2> QED BY <1>1, <1>5, <2>1 DEF IInv, JobSide
<1>9. Rest'
  BY <1>5 DEF IInv, Rest
<1> QED BY <1>1, <1>6, <1>7, <1>8, <1>9 DEF IInv

LEMMA StepRestart ==
  ASSUME IInv, Restart
  PROVE  IInv'
<1>1. \A d \in Clusters : Readable(d)' = Readable(d)
  BY DEF Restart, Readable, Guarded
<1>2. ASSUME NEW d \in Clusters
      PROVE  cache'[d] \in Readable(d)' /\ watch'[d] \in Seq(Readable(d)')
  BY DEF Restart, IInv, ApiSide, Readable, Guarded
<1>3. ApiSide'
  BY <1>2 DEF Restart, IInv, ApiSide
<1>4. JobSide'
  BY IdleSide DEF Restart
<1>5. RegSide' /\ OneManager'
  BY DEF Restart, RegSide, OneManager
<1>6. Rest'
  BY Spent DEF Restart, IInv, Rest, Disturbances
<1> QED BY <1>3, <1>4, <1>5, <1>6 DEF IInv

LEMMA Step == IInv /\ [Next]_vars => IInv'
<1> SUFFICES ASSUME IInv, [Next]_vars PROVE IInv'
  OBVIOUS
<1>1. CASE Work
  BY <1>1, StepFinalizer, StepQuiet, StepClear, StepRelease, StepSetup, StepManager DEF Work
<1>2. CASE Fails \/ Restart
  BY <1>2, StepQuiet, StepRestart
<1>3. ASSUME NEW c \in Clusters,
             \/ TakeNothing(c) \/ Take(c) \/ Deliver(c) \/ ManagerDies(c) \/ ManagerStops(c)
             \/ DeleteCluster(c)
             \/ \E k \in Confs : CreateCluster(c, k) \/ EditConf(c, k)
      PROVE  IInv'
  BY <1>3, StepTake, StepDeliver, StepManager, StepStops, StepAdmin
<1>4. CASE UNCHANGED vars
  <2>1. ApiSide' /\ \A d \in Clusters : Guarded(d)' = Guarded(d)
    BY <1>4, ApiKept DEF vars
  <2>2. RegSide' /\ OneManager'
    BY <1>4, <2>1, RegKept DEF vars
  <2>3. JobSide'
    <3>1. job.pc # "idle" => job.of \in Clusters
      BY DEF IInv, JobSide, Job
    <3> QED BY <1>4, <2>1, <3>1 DEF vars, apiVars, regVars, IInv, JobSide
  <2>4. Rest'
    BY <1>4 DEF vars, IInv, Rest
  <2> QED BY <2>1, <2>2, <2>3, <2>4 DEF IInv
<1> QED BY <1>1, <1>2, <1>3, <1>4 DEF Next

LEMMA Inductive == Spec => []IInv
<1>1. Init => IInv
  BY InitIInv
<1>2. IInv /\ [Next]_vars => IInv'
  BY Step
<1> QED BY <1>1, <1>2, PTL DEF Spec

(* Every variable keeps its type: in particular the number of running      *)
(* managers never becomes negative.                                        *)
THEOREM Typing == Spec => []TypeOK
BY Inductive, IInvType, PTL

(* However stale the worker's copies of the Clusters are, and whatever     *)
(* fails or restarts, of the managers of a Cluster that run all but one    *)
(* were cancelled, and that one clearClusterControllers can cancel.        *)
THEOREM OneManagerAlways == Spec => []OneManager
<1>1. IInv => OneManager
  BY DEF IInv
<1> QED BY <1>1, Inductive, PTL

(* The finalizer works: when a Cluster object is gone, its manager was     *)
(* told to stop and no registry lists it or its client any more.           *)
THEOREM NothingOutlivesCluster == Spec => []NothingOutlives
BY Inductive, IInvOutlives, PTL
=============================================================================
