---------------------------- MODULE HostDaemonSet ----------------------------
(***************************************************************************)
(* HostDaemonSetsController (host_daemon_controller.go and update.go): the *)
(* pods of one ShadowDaemonSet of type "host", one on each node of the     *)
(* root cluster that should run it, replaced node by node when the         *)
(* template changes.  It decides from caches of pods and of the set, and   *)
(* relies on its expectations, a count of the creations and deletions it   *)
(* has not seen yet, not to decide twice from what is out of date.         *)
(*                                                                         *)
(* A pod is numbered by its creation and a template by its generation,     *)
(* which stands for the hash of its ControllerRevision too: hashes do not  *)
(* collide.  MinReadySeconds is 0, so a ready pod is available.  The       *)
(* back-off of failed pods only delays the sync that deletes them.  Pods   *)
(* without an owner, and deletion of the set itself, are left out.         *)
(***************************************************************************)
EXTENDS Integers, Sequences, FiniteSets, FiniteSetsExt

CONSTANTS
  Nodes,         \* the nodes of the root cluster that are not virtual
  Strategies,    \* values of maxUnavailable and maxSurge, one is chosen
  Burst,         \* BurstReplicas
  HistoryLimit,  \* RevisionHistoryLimit
  MaxPods,       \* bound on the pods created
  MaxTemplate,   \* bound on the generations of the template
  Gone,
  Budgets,       \* disturbances of a set that runs
  NewBudgets     \* ... and of one that has just been created

Disturbances == {"template", "node", "evict", "broken", "fail", "lost", "expire", "restart"}
Ids == 1 .. MaxPods
Templates == 1 .. MaxTemplate

(* "run": pods may run; "noschedule": they may stay; "noexecute": the node *)
(* has a taint they do not tolerate; "absent": there is no such node.      *)
NodeStates == {"run", "noschedule", "noexecute", "absent"}

(* "unbound": not scheduled yet. *)
Pod == [node : Nodes, hash : Templates, phase : {"unbound", "ready", "unready", "failed"},
        term : BOOLEAN]

ASSUME NodesAssumption == IsFiniteSet(Nodes)
ASSUME BoundsAssumption ==
  /\ MaxPods \in Nat /\ Cardinality(Nodes) <= MaxPods
  /\ MaxTemplate \in Nat \ {0} /\ HistoryLimit \in Nat
ASSUME BurstAssumption == Burst \in Nat \ {0}
ASSUME StrategyAssumption ==
  \A s \in Strategies : s.unavailable \in Nat /\ s.surge \in Nat
ASSUME GoneAssumption == Gone \notin Pod
ASSUME BudgetAssumption == Budgets \union NewBudgets \subseteq [Disturbances -> Nat]

VARIABLES
  strategy,
  sds,      \* the ShadowDaemonSet: its template and status
  sdsSeen,  \* ... in the informer's cache
  node,     \* node[n]: the state of node n
  pods,     \* pods[i]: the i-th pod, or Gone
  watch,    \* changes of pods not yet delivered
  cache,    \* the pod informer's cache
  created,  \* number of pods created so far
  hist,     \* hist[t]: the revision of template t's history, 0: none
  queue,    \* the set's key is queued
  exp,      \* expectations
  job,      \* the sync that is running
  going,    \* history: <<node, pod>> for each node whose available old pod
            \* the update gave up and that has no available new one yet
  late,     \* history: expectations ran out, or an answer was lost
  budget

setVars == <<sds, sdsSeen>>
podVars == <<pods, watch, created>>
vars == <<strategy, setVars, node, podVars, cache, hist, queue, exp, job, going, late, budget>>

Idle == [pc |-> "idle", hash |-> 1, create |-> {}, batch |-> {}, size |-> 0, delete |-> {}, err |-> FALSE]
NoStatus == [desired |-> 0, current |-> 0, miss |-> 0, ready |-> 0, updated |-> 0, gen |-> 0]

(* A set that was just created, and one that has its pods on all nodes. *)
New ==
  /\ sds = [tmpl |-> 1, status |-> NoStatus]
  /\ pods = [i \in Ids |-> Gone] /\ created = 0
  /\ hist = [t \in Templates |-> 0]
  /\ queue = TRUE

RunningSet ==
  LET all == Cardinality(Nodes)
      home == CHOOSE f \in [1 .. all -> Nodes] : {f[i] : i \in 1 .. all} = Nodes
  IN  /\ sds = [tmpl |-> 1, status |-> [desired |-> all, current |-> all, miss |-> 0,
                                       ready |-> all, updated |-> all, gen |-> 1]]
      /\ pods = [i \in Ids |-> IF i > all THEN Gone
                  ELSE [node |-> home[i], hash |-> 1, phase |-> "ready", term |-> FALSE]]
      /\ created = all
      /\ hist = [t \in Templates |-> IF t = 1 THEN 1 ELSE 0]
      /\ queue = FALSE

Init ==
  /\ strategy \in Strategies
  /\ (New /\ budget \in NewBudgets) \/ (RunningSet /\ budget \in Budgets)
  /\ sdsSeen = sds
  /\ node = [n \in Nodes |-> "run"]
  /\ watch = <<>> /\ cache = pods
  /\ exp = [add |-> 0, del |-> 0]
  /\ job = Idle
  /\ going = {} /\ late = FALSE

Spend(e) == budget[e] > 0 /\ budget' = [budget EXCEPT ![e] = @ - 1]

-----------------------------------------------------------------------------
(* Pods in a view v, which is the API server's `pods` or the cache. *)

OnNode(v, n) == {i \in Ids : v[i] # Gone /\ v[i].node = n}
Alive(v, n) == {i \in OnNode(v, n) : ~v[i].term}
Running(v, n) == {i \in Alive(v, n) : v[i].phase # "failed"}
Available(p) == p.phase = "ready"

(* podByCreationTimestampAndPhase: pods that have a node first, then age. *)
Before(v, i, j) ==
  IF (v[i].phase = "unbound") = (v[j].phase = "unbound") THEN i < j ELSE v[j].phase = "unbound"
Oldest(v, S) == {i \in S : \A j \in S \ {i} : Before(v, i, j)}

(* NodeShouldRunDaemonPod *)
ShouldRun(n) == node[n] = "run"
ShouldContinue(n) == node[n] \in {"run", "noschedule"}
NodeList == {n \in Nodes : node[n] # "absent"}

Write(i, p) ==
  /\ pods' = [pods EXCEPT ![i] = p]
  /\ watch' = Append(watch, [id |-> i, pod |-> p])

(* DELETE: a pod without a node, or one that has failed, goes at once; one *)
(* that is being deleted is left as it is.                                 *)
Delete(i) ==
  /\ IF pods[i].phase \in {"unbound", "failed"} THEN Write(i, Gone)
     ELSE IF pods[i].term THEN UNCHANGED <<pods, watch>>
     ELSE Write(i, [pods[i] EXCEPT !.term = TRUE])
  /\ UNCHANGED created

-----------------------------------------------------------------------------
(* Expectations: nothing raises a count, so below zero is as good as zero. *)

Lower(n, by) == IF n > by THEN n - by ELSE 0
CreationObserved == exp' = [exp EXCEPT !.add = Lower(@, 1)]
DeletionObserved == exp' = [exp EXCEPT !.del = Lower(@, 1)]

SatisfiedExpectations == exp.add = 0 /\ exp.del = 0

(* Informers.  addPod, updatePod, deletePod: a pod that is being deleted   *)
(* is observed as a deletion when it is marked and when it is gone.        *)
DeliverPod ==
  /\ watch # <<>>
  /\ LET e == Head(watch)
     IN  /\ cache' = [cache EXCEPT ![e.id] = e.pod]
         /\ IF e.pod = Gone \/ (e.pod # Gone /\ e.pod.term) THEN DeletionObserved
            ELSE IF cache[e.id] = Gone THEN CreationObserved
            ELSE UNCHANGED exp
  /\ watch' = Tail(watch)
  /\ queue' = TRUE
  /\ UNCHANGED <<strategy, setVars, node, pods, created, hist, job, going, late, budget>>

DeliverSet ==
  /\ sdsSeen # sds
  /\ sdsSeen' = sds
  /\ queue' = TRUE
  /\ UNCHANGED <<strategy, sds, node, podVars, cache, hist, exp, job, going, late, budget>>

-----------------------------------------------------------------------------
(* constructHistory finds or makes the revision of the template, and puts  *)
(* it last.                                                                *)
OldHistories(t) == {u \in Templates \ {t} : hist[u] > 0}

(* The revision is named after the template: one that is there is kept.    *)
Snapshot(t, revision) == [hist EXCEPT ![t] = revision]

ConstructHistory(t) ==
  LET currRevision == Max({hist[u] : u \in OldHistories(t)} \union {0}) + 1
  IN  hist' = IF hist[t] = 0 THEN Snapshot(t, currRevision)
              ELSE [hist EXCEPT ![t] = Max({@, currRevision})]

(* syncNodes: expectations are set, then the calls are made.  Up to Burst  *)
(* of each, whichever come first in the lists.                             *)
Some(S, k) == IF Cardinality(S) <= k THEN {S} ELSE kSubset(k, S)

(* Pods are created in batches of 1, 2, 4, ... *)
NextBatch(j) ==
  LET k == IF j.size = 0 THEN 1 ELSE 2 * j.size
      b == CHOOSE S \in Some(j.create, k) : TRUE
  IN  IF j.batch # {} \/ j.err THEN j
      ELSE [j EXCEPT !.batch = b, !.create = @ \ b, !.size = k]

SyncNodes(pc, hash, c, d) ==
  /\ exp' = [add |-> Cardinality(c), del |-> Cardinality(d)]
  /\ job' = NextBatch([Idle EXCEPT !.pc = pc, !.hash = hash, !.create = c, !.delete = d])

(* Seeded fault: a pod that is going is not waited for. *)
NeedsAtOnce(n) == ShouldRun(n) /\ Running(cache, n) = {}

(* podsShouldBeOnNode: a node that should run a pod and has none, not even *)
(* one that is going, needs one; with surge one that is going does not     *)
(* count.                                                                  *)
Needs(n) ==
  /\ ShouldRun(n)
  /\ OnNode(cache, n) = {} \/ (strategy.surge > 0 /\ Running(cache, n) = {})

(* Without surge all pods but the oldest are too many.  With surge an old  *)
(* and a new one may stay together while the old one is ready and the new  *)
(* one is not.                                                             *)
TooMany(n, hash) ==
  LET r == Running(cache, n)
      new == Oldest(cache, {i \in r : cache[i].hash = hash})
      old == Oldest(cache, {i \in r : cache[i].hash # hash})
      replaced == new # {} /\ \A i \in old, j \in new : ~Available(cache[i]) \/ Available(cache[j])
  IN  IF strategy.surge = 0 THEN r \ Oldest(cache, r)
      ELSE (r \ (new \union old)) \union (IF replaced THEN old ELSE {})

(* Seeded fault: failed pods are left to themselves. *)
UnwantedButFailed(n, hash) ==
  IF ShouldContinue(n) THEN TooMany(n, hash) ELSE Alive(cache, n)

Unwanted(n, hash) ==
  IF ShouldContinue(n)
    THEN {i \in Alive(cache, n) : cache[i].phase = "failed"} \union TooMany(n, hash)
    ELSE Alive(cache, n)

(* getUnscheduledPodsWithoutNode *)
Stranded == {i \in Ids : cache[i] # Gone /\ cache[i].phase = "unbound" /\ node[cache[i].node] = "absent"}

(* syncDaemonSet and manage: a set that expects nothing any more. *)
Manage ==
  /\ queue /\ job.pc = "idle"
  /\ SatisfiedExpectations
  /\ queue' = FALSE
  /\ ConstructHistory(sdsSeen.tmpl)
  /\ \E c \in Some({n \in NodeList : Needs(n)}, Burst) :
     \E d \in Some(Stranded \union UNION {Unwanted(n, sdsSeen.tmpl) : n \in NodeList}, Burst) :
       SyncNodes("managed", sdsSeen.tmpl, c, d)
  /\ UNCHANGED <<strategy, setVars, node, podVars, cache, going, late, budget>>

-----------------------------------------------------------------------------
(* The calls.  After a batch with a failure the creations that are left    *)
(* are given up, and no longer expected.                                   *)

CreatesDone == job.create = {} /\ job.batch = {}
CallsDone == CreatesDone /\ job.delete = {}

GiveUpNot(N) == going' = {g \in going : g[1] \notin N}
KeepPod(i) == going' = {g \in going : g[2] # i}

SkipRest ==
  /\ job.create # {} /\ job.batch = {} /\ job.err
  /\ exp' = [exp EXCEPT !.add = Lower(@, Cardinality(job.create))]
  /\ job' = [job EXCEPT !.create = {}]
  /\ GiveUpNot(job.create)
  /\ UNCHANGED <<strategy, setVars, node, podVars, cache, hist, queue, late, budget>>

NewPod(n) ==
  /\ created < MaxPods
  /\ created' = created + 1
  /\ Write(created + 1, [node |-> n, hash |-> job.hash, phase |-> "unbound", term |-> FALSE])

CreatePod(n) ==
  /\ n \in job.batch
  /\ NewPod(n)
  /\ job' = NextBatch([job EXCEPT !.batch = @ \ {n}])
  /\ UNCHANGED <<strategy, setVars, node, cache, hist, queue, exp, going, late, budget>>

(* The call fails, or its answer is lost on the way. *)
CreateFails(n) ==
  /\ n \in job.batch
  /\ \/ Spend("fail") /\ UNCHANGED <<podVars, late>>
     \/ Spend("lost") /\ NewPod(n) /\ late' = TRUE
  /\ CreationObserved
  /\ job' = [job EXCEPT !.batch = @ \ {n}, !.err = TRUE]
  /\ GiveUpNot({n})
  /\ UNCHANGED <<strategy, setVars, node, cache, hist, queue>>

DeletePod(i) ==
  /\ CreatesDone /\ i \in job.delete
  /\ IF pods[i] = Gone THEN DeletionObserved /\ UNCHANGED podVars
     ELSE Delete(i) /\ UNCHANGED exp
  /\ IF pods[i] = Gone \/ (pods[i] # Gone /\ pods[i].term) THEN KeepPod(i) ELSE UNCHANGED going
  /\ job' = [job EXCEPT !.delete = @ \ {i}]
  /\ UNCHANGED <<strategy, setVars, node, cache, hist, queue, late, budget>>

DeleteFails(i) ==
  /\ CreatesDone /\ i \in job.delete
  /\ Spend("fail")
  /\ DeletionObserved
  /\ job' = [job EXCEPT !.delete = @ \ {i}, !.err = TRUE]
  /\ KeepPod(i)
  /\ UNCHANGED <<strategy, setVars, node, podVars, cache, hist, queue, late>>

-----------------------------------------------------------------------------
(* rollingUpdate, if nothing is expected any more. *)

NewPods(n) == {i \in Alive(cache, n) : cache[i].hash = job.hash}
OldPods(n) == {i \in Alive(cache, n) : cache[i].hash # job.hash}
SomeAvailable(S) == \E i \in S : Available(cache[i])

(* findUpdatedPodsOnNode *)
Excess(n) == Cardinality(NewPods(n)) > 1 \/ Cardinality(OldPods(n)) > 1

(* updatedDesiredNodeCounts: the nodes that have pods, wherever they are,  *)
(* and those that should have one.                                         *)
RollNodes == {n \in Nodes : OnNode(cache, n) # {} \/ ShouldRun(n)}

(* UnavailableCount: the default when both limits are 0. *)
MaxUnavailable == IF strategy.unavailable = 0 /\ strategy.surge = 0 THEN 1 ELSE strategy.unavailable

(* A node is out of service unless it has one pod that is up to date and   *)
(* available, or one that is not up to date.                               *)
OutOfService(n) ==
  \/ Excess(n)
  \/ (NewPods(n) = {}) = (OldPods(n) = {})
  \/ NewPods(n) # {} /\ ~SomeAvailable(NewPods(n))

(* The nodes where only an old pod is left. *)
Behind == {n \in RollNodes : ~Excess(n) /\ NewPods(n) = {} /\ OldPods(n) # {}}
Candidates == {n \in Behind : SomeAvailable(OldPods(n))}

GivenUp(N) == UNION {{n} \X OldPods(n) : n \in N}

(* Without surge: old pods that are not available go, and so many of the   *)
(* others as the limit leaves room for.                                    *)
RollDelete ==
  LET room == Lower(MaxUnavailable, Cardinality({n \in RollNodes : OutOfService(n)}))
  IN  \E chosen \in Some(Candidates, room) :
      \E d \in Some(UNION {OldPods(n) : n \in (Behind \ Candidates) \union chosen}, Burst) :
        /\ SyncNodes("rolled", job.hash, {}, d)
        /\ going' = going \union GivenUp({n \in chosen : ShouldRun(n) /\ OldPods(n) \subseteq d})

(* Seeded fault: a new pod beside an old one is not counted. *)
SurgingIfExcess(n) == Excess(n)

(* Nodes with an old and a new pod, the new one not available. *)
Surging(n) == Excess(n) \/ (NewPods(n) # {} /\ OldPods(n) # {} /\ ~SomeAvailable(NewPods(n)))
Surged(n) == ~Excess(n) /\ OldPods(n) # {} /\ SomeAvailable(NewPods(n))

(* With surge: a new pod wherever the old one is not available, and on so  *)
(* many other nodes as the limit leaves room for; an old one goes when its *)
(* node has a new one that is available.                                   *)
RollCreate ==
  LET room == Lower(strategy.surge, Cardinality({n \in RollNodes : Surging(n)}))
  IN  \E chosen \in Some(Candidates, room) :
      \E c \in Some((Behind \ Candidates) \union chosen, Burst) :
      \E d \in Some(UNION {OldPods(n) : n \in {m \in RollNodes : Surged(m)}}, Burst) :
        /\ SyncNodes("rolled", job.hash, c, d)
        /\ going' = {g \in going : g[1] \notin c} \union GivenUp({n \in chosen \intersect c : ShouldRun(n)})

RollingUpdate ==
  /\ job.pc = "managed" /\ CallsDone /\ ~job.err
  /\ SatisfiedExpectations
  /\ IF strategy.surge = 0 THEN RollDelete ELSE RollCreate
  /\ UNCHANGED <<strategy, setVars, node, podVars, cache, hist, queue, late, budget>>

-----------------------------------------------------------------------------
(* cleanupHistory: the oldest revisions beyond the limit that no pod has. *)
CleanupHistory ==
  LET old == OldHistories(job.hash)
      excess == Cardinality(old) - HistoryLimit
      dead == {t \in old : \A i \in Ids : cache[i] # Gone => cache[i].hash # t}
      kill == {t \in dead : Cardinality({u \in dead : hist[u] < hist[t]}) < excess}
  IN  hist' = [t \in Templates |-> IF t \in kill THEN 0 ELSE hist[t]]

(* updateDaemonSetStatus: the oldest pod of each node, on its way out or   *)
(* not, speaks for it.                                                     *)
Counts(v, hash) ==
  LET run == {n \in NodeList : ShouldRun(n)}
      with == {n \in NodeList : OnNode(v, n) # {}}
      Shows(n, P(_)) == \A i \in Oldest(v, OnNode(v, n)) : P(v[i])
      IsUpdated(p) == p.hash = hash
  IN  [desired |-> Cardinality(run),
       current |-> Cardinality(run \intersect with),
       miss |-> Cardinality(with \ run),
       ready |-> Cardinality({n \in run \intersect with : Shows(n, Available)}),
       updated |-> Cardinality({n \in run \intersect with : Shows(n, IsUpdated)})]

(* storeDaemonSetStatus: nothing is written if the cached status says the  *)
(* same already; the generation is only raised if this one was processed.  *)
Stored(hash, raise) ==
  LET c == Counts(cache, hash)
      old == sdsSeen.status
      gen == IF raise THEN sdsSeen.tmpl ELSE old.gen
      new == [f \in DOMAIN old |-> IF f = "gen" THEN gen ELSE c[f]]
  IN  IF old.gen >= sdsSeen.tmpl /\ \A f \in DOMAIN c : c[f] = old[f] THEN sds.status ELSE new

(* The write succeeds, or fails and the key is queued again. *)
Report(hash, raise, again) ==
  \/ /\ sds' = [sds EXCEPT !.status = Stored(hash, raise)]
     /\ queue' = again
     /\ UNCHANGED budget
  \/ Spend("fail") /\ queue' = TRUE /\ UNCHANGED sds

(* syncDaemonSet: a set that still expects something has only its status   *)
(* updated.                                                                *)
OnlyReport ==
  /\ queue /\ job.pc = "idle"
  /\ ~SatisfiedExpectations
  /\ ConstructHistory(sdsSeen.tmpl)
  /\ Report(sdsSeen.tmpl, FALSE, FALSE)
  /\ UNCHANGED <<strategy, sdsSeen, node, podVars, cache, exp, job, going, late>>

(* The end of a sync: an error of the calls passes over the history, and   *)
(* the key is queued again.                                                *)
SyncEnd ==
  /\ CallsDone
  /\ job.pc = "rolled" \/ (job.pc = "managed" /\ (job.err \/ ~SatisfiedExpectations))
  /\ IF job.err THEN UNCHANGED hist ELSE CleanupHistory
  /\ Report(job.hash, TRUE, queue \/ job.err)
  /\ job' = Idle
  /\ UNCHANGED <<strategy, sdsSeen, node, podVars, cache, exp, going, late>>

-----------------------------------------------------------------------------
(* The root cluster: users, kubelets, the scheduler, the pod collector. *)

ChangeTemplate ==
  /\ sds.tmpl < MaxTemplate
  /\ Spend("template")
  /\ sds' = [sds EXCEPT !.tmpl = @ + 1]
  /\ UNCHANGED <<strategy, sdsSeen, node, podVars, cache, hist, queue, exp, job, going, late>>

(* addNode, updateNode: nobody is told of a node that leaves.  A node that *)
(* joins has no taint the pods do not tolerate.                            *)
ChangeNode(n, s) ==
  /\ s # node[n] /\ (node[n] = "absent" => s = "run")
  /\ Spend("node")
  /\ node' = [node EXCEPT ![n] = s]
  /\ queue' = (queue \/ s # "absent")
  /\ GiveUpNot({n})
  /\ UNCHANGED <<strategy, setVars, podVars, cache, hist, exp, job, late>>

Evict(i) ==
  /\ pods[i] # Gone
  /\ Spend("evict")
  /\ Delete(i)
  /\ UNCHANGED <<strategy, setVars, node, cache, hist, queue, exp, job, going, late>>

PodBreaks(i) ==
  /\ pods[i] # Gone /\ Available(pods[i]) /\ ~pods[i].term
  /\ Spend("broken")
  /\ \E ph \in {"unready", "failed"} : Write(i, [pods[i] EXCEPT !.phase = ph])
  /\ UNCHANGED <<strategy, setVars, node, created, cache, hist, queue, exp, job, going, late>>

(* The new pod of a node takes over. *)
PodReady(i) ==
  /\ pods[i] # Gone /\ ~pods[i].term
  /\ \/ pods[i].phase = "unready" /\ node[pods[i].node] # "absent"
     \/ pods[i].phase = "unbound" /\ ShouldRun(pods[i].node)
  /\ Write(i, [pods[i] EXCEPT !.phase = "ready"])
  /\ going' = {g \in going : g[1] # pods[i].node \/ g[2] = i}
  /\ UNCHANGED <<strategy, setVars, node, created, cache, hist, queue, exp, job, late, budget>>

PodGoes(i) ==
  /\ pods[i] # Gone
  /\ pods[i].term \/ (node[pods[i].node] = "absent" /\ pods[i].phase # "unbound")
  /\ Write(i, Gone)
  /\ UNCHANGED <<strategy, setVars, node, created, cache, hist, queue, exp, job, going, late, budget>>

(* ExpectationsTimeout: expectations that are not met count as met. *)
Expire ==
  /\ ~SatisfiedExpectations
  /\ Spend("expire")
  /\ exp' = [add |-> 0, del |-> 0]
  /\ late' = TRUE
  /\ UNCHANGED <<strategy, setVars, node, podVars, cache, hist, queue, job, going>>

(* The process restarts; its caches are filled before a worker runs. *)
Restart ==
  /\ Spend("restart")
  /\ sdsSeen' = sds /\ cache' = pods /\ watch' = <<>>
  /\ queue' = TRUE /\ exp' = [add |-> 0, del |-> 0] /\ job' = Idle
  /\ going' = {g \in going : IF strategy.surge = 0 THEN g[2] \notin Alive(pods, g[1])
                             ELSE \E i \in Alive(pods, g[1]) : i > g[2]}
  /\ UNCHANGED <<strategy, sds, node, pods, created, hist, late>>

-----------------------------------------------------------------------------
Worker ==
  \/ OnlyReport \/ Manage \/ SkipRest \/ RollingUpdate \/ SyncEnd
  \/ \E n \in Nodes : CreatePod(n)
  \/ \E i \in Ids : DeletePod(i)

Faults ==
  \/ \E n \in Nodes : CreateFails(n)
  \/ \E i \in Ids : DeleteFails(i) \/ Evict(i) \/ PodBreaks(i)
  \/ ChangeTemplate \/ \E n \in Nodes, s \in NodeStates : ChangeNode(n, s)
  \/ Expire \/ Restart

Next ==
  \/ Worker \/ DeliverPod \/ DeliverSet \/ Faults
  \/ \E i \in Ids : PodReady(i) \/ PodGoes(i)

(* The worker runs, watches deliver, pods start where they can and pods    *)
(* that are being deleted go.                                              *)
Fairness ==
  /\ WF_vars(Worker) /\ WF_vars(DeliverPod) /\ WF_vars(DeliverSet)
  /\ \A i \in Ids : WF_vars(PodReady(i)) /\ WF_vars(PodGoes(i))

Spec == Init /\ [][Next]_vars /\ Fairness

-----------------------------------------------------------------------------
Status == [desired : Nat, current : Nat, miss : Nat, ready : Nat, updated : Nat, gen : Nat]
Set == [tmpl : Templates, status : Status]
Event == [id : Ids, pod : Pod \union {Gone}]
Job == [pc : {"idle", "managed", "rolled"}, hash : Templates, create : SUBSET Nodes,
        batch : SUBSET Nodes, size : Nat, delete : SUBSET Ids, err : BOOLEAN]

TypeOK ==
  /\ strategy \in Strategies
  /\ sds \in Set /\ sdsSeen \in Set
  /\ node \in [Nodes -> NodeStates]
  /\ pods \in [Ids -> Pod \union {Gone}] /\ cache \in [Ids -> Pod \union {Gone}]
  /\ watch \in Seq(Event)
  /\ created \in 0 .. MaxPods
  /\ queue \in BOOLEAN /\ late \in BOOLEAN
  /\ exp \in [add : Nat, del : Nat] /\ exp.add <= Burst /\ exp.del <= Burst
  /\ job \in Job /\ job.create \intersect job.batch = {}
  /\ going \subseteq Nodes \X Ids
  /\ budget \in [Disturbances -> Nat]

(* "we don't want a daemon set to create/delete more pods until all the    *)
(* effects (expectations) of a daemon set's create/delete have been        *)
(* observed" (host_daemon_controller.go): however late the watch is, and   *)
(* whenever the controller restarts, a node never gets a second pod before *)
(* the first is gone, or with surge a third that has not failed, unless an *)
(* expectation timed out or the answer of a creation was lost.             *)
OnePerNode ==
  late \/ \A n \in Nodes :
            IF strategy.surge = 0 THEN Cardinality(OnNode(pods, n)) <= 1
            ELSE Cardinality(Running(pods, n)) <= 2

(* "No more than maxSurge new pods are created for old available pods at   *)
(* any one time" (update.go): the nodes where an update has put a new pod  *)
(* beside an old one that was available, and that still wait for the new   *)
(* one to become available, never exceed maxSurge, although each decision  *)
(* is made from a late cache and the template may change meanwhile.        *)
SurgeLimited ==
  strategy.surge > 0 /\ ~late =>
    Cardinality({g \in going : g[2] \in Running(pods, g[1]) /\ Alive(pods, g[1]) # {g[2]}}) <= strategy.surge

(* "we delete just enough pods to stay under the maxUnavailable limit"     *)
(* (update.go): the nodes whose available old pod an update has given up   *)
(* and that wait for an available new one never exceed maxUnavailable.     *)
UnavailableLimited == strategy.surge = 0 /\ ~late => Cardinality(going) <= MaxUnavailable

Settled ==
  /\ \A n \in Nodes :
       LET on == OnNode(pods, n)
       IN  /\ Cardinality(on) <= 1
           /\ \A i \in on : pods[i].hash = sds.tmpl /\ ~pods[i].term
           /\ node[n] = "run" => \E i \in on : Available(pods[i])
           /\ node[n] \in {"noexecute", "absent"} => on = {}
  /\ \A f \in DOMAIN Counts(pods, sds.tmpl) : sds.status[f] = Counts(pods, sds.tmpl)[f]
  /\ sds.status.gen = sds.tmpl
  /\ \A t \in OldHistories(sds.tmpl) : 0 < hist[t] /\ hist[t] < hist[sds.tmpl]
  /\ Cardinality(OldHistories(sds.tmpl)) <= HistoryLimit

(* A pod waits for a node that has left, of which nobody was told, or for  *)
(* one that has got a taint: that node counts as out of service, and the   *)
(* update goes no further.                                                 *)
Blocked ==
  \E i \in Ids : /\ pods[i] # Gone /\ pods[i].phase = "unbound"
                /\ node[pods[i].node] \in {"absent", "noschedule"}

(* Once the disturbances end, every node that should run the set has one   *)
(* pod of the latest template, available; no other node keeps one against  *)
(* a taint; the status counts them; old revisions are cleaned up.  Only a  *)
(* pod that waits for a node which will not take it can hold this up.      *)
Converges == <>[](Settled \/ Blocked)
=============================================================================
