------------------------- MODULE MultiClusterService -------------------------
(***************************************************************************)
(* How a service of the root cluster is made known in the leaf clusters.   *)
(* In mode "mcs", AutoCreateMCSController creates a ServiceExport in the   *)
(* root and a ServiceImport in every leaf cluster for a service that is    *)
(* marked; users may make them too; ServiceExportController annotates the  *)
(* service's EndpointSlices; one ServiceImportController per leaf cluster  *)
(* copies service and slices.  In mode "direct", the two SimpleSync        *)
(* controllers copy service and slices without these objects.              *)
(* A behaviour is about one service name.  Every write is a step of its    *)
(* own, except that the reads of one round that go to a cache just before  *)
(* a write share its step.  The caches of the service may lag, that of the *)
(* root and those of the leaf clusters' managers.                          *)
(***************************************************************************)
EXTENDS Integers, FiniteSets

CONSTANTS
  Clusters, Slices,
  Late,        \* the clusters that join later
  MaxVer,      \* versions of the service and of a slice
  MaxRetries,  \* of the import controllers' workers
  None,
  Scenarios    \* what may happen, and which clusters are of another IP family than the service

Disturbances == {"svc", "edit", "mark", "eps", "user", "foreign", "join", "fail", "restart"}

ASSUME LateAssumption == Late \subseteq Clusters
ASSUME BoundAssumption == MaxVer \in Nat /\ MaxRetries \in Nat
ASSUME ScenarioAssumption == Scenarios \subseteq [budget : [Disturbances -> Nat], unfit : SUBSET Clusters]

Vers == 0 .. MaxVer
Claim == [fin : BOOLEAN, term : BOOLEAN]  \* a ServiceExport or ServiceImport
RootSlice == [ver : Vers, exported : BOOLEAN]
LeafService == [ver : Vers, mine : BOOLEAN]

(* A round of an importer: whether it saw the import go, how far it is,    *)
(* and the slices that it read.                                            *)
ImpRound ==
  [term : BOOLEAN, at : {"svc", "eps", "end"}, read : [Slices -> RootSlice \union {None}] \union {None}]

ASSUME NoneAssumption ==
  /\ None \notin Clusters \union Slices \union Nat
  /\ None \notin Claim /\ None \notin LeafService /\ None \notin ImpRound

VARIABLES
  mode, prefix,  \* the namespace has a prefix of AutoCreateMCSPrefix
  svc,           \* the root service: the annotation mark, its version
  svcCache,      \* the root's informer cache of it
  lsvcCache,     \* the service as the cache of a leaf cluster's manager has it
  eps,           \* eps[s]: a root EndpointSlice, exported if annotated
  export, imp,   \* the ServiceExport, and imp[c] the ServiceImport in c
  lsvc, leps,    \* service and slices in each leaf cluster
  joined,        \* the Cluster objects
  served,        \* the clusters whose manager runs
  unfit,         \* the clusters whose IP family is not the service's
  byUser,        \* history: the export ("root") and imports users made
  autoQ, autoJob, exportQ, exportJob, impQ, impJob, impTries,
  svcQ, epsQ,    \* the queues of the SimpleSync controllers
  lost,          \* the gaps of the code that an event fell into
  budget

rootVars == <<svc, eps, export>>
leafVars == <<imp, lsvc, leps>>
autoVars == <<autoQ, autoJob>>
exportVars == <<exportQ, exportJob>>
impVars == <<impQ, impJob, impTries>>
directVars == <<svcQ, epsQ>>
clusterVars == <<mode, prefix, joined, served, unfit>>
caches == <<svcCache, lsvcCache>>
mcsVars == <<clusterVars, caches, rootVars, leafVars, byUser, autoVars, exportVars, impVars, directVars, lost, budget>>

Spend(e) == budget[e] > 0 /\ budget' = [budget EXCEPT ![e] = @ - 1]
Lose(gap, when) == lost' = IF when THEN lost \union {gap} ELSE lost

MCSInit ==
  /\ mode \in {"mcs", "direct"} /\ prefix \in BOOLEAN
  /\ svc = None /\ svcCache = None /\ lsvcCache = [c \in Clusters |-> None] /\ eps = [s \in Slices |-> None] /\ export = None
  /\ imp = [c \in Clusters |-> None] /\ lsvc = [c \in Clusters |-> None]
  /\ leps = [c \in Clusters |-> [s \in Slices |-> None]]
  /\ joined = Clusters \ Late /\ served = joined /\ byUser = {}
  /\ autoQ = FALSE /\ autoJob = None /\ exportQ = FALSE /\ exportJob = None
  /\ impQ = {} /\ impJob = [c \in Clusters |-> None] /\ impTries = [c \in Clusters |-> 0]
  /\ svcQ = FALSE /\ epsQ = {} /\ lost = {}
  /\ \E x \in Scenarios : budget = x.budget /\ unfit = x.unfit

-----------------------------------------------------------------------------
(* Events and their filters. *)

(* shouldEnqueue of a service. *)
ShouldEnqueue(v) == v # None /\ (prefix \/ v.mark)

(* AutoCreateMCSController: created, deleted, or marked otherwise.  The    *)
(* SimpleSync controller passes what is marked afterwards.                 *)
ServiceEvent(old, new) ==
  /\ autoQ' = (autoQ \/ (mode = "mcs" /\ ShouldEnqueue(old) # ShouldEnqueue(new)))
  /\ svcQ' = (svcQ \/ (mode = "direct" /\ ShouldEnqueue(IF new = None THEN old ELSE new)))

(* OnEpsAdd, OnEpsUpdate and OnEpsDelete pass slices that are annotated or *)
(* were.  SimpleSyncEPSController looks at the namespace only.             *)
EpsEvent(s, new) ==
  LET marked(e) == e # None /\ e.exported
  IN  /\ impQ' = IF mode = "mcs" /\ (marked(eps[s]) \/ marked(new))
                 THEN impQ \union served ELSE impQ
      /\ epsQ' = IF mode = "direct" /\ prefix THEN epsQ \union {s} ELSE epsQ

-----------------------------------------------------------------------------
(* The users, the root cluster's own controllers, the cluster controller. *)

(* The cache is at most one version behind. *)
PutService(new) ==
  /\ svcCache = svc /\ svc' = new
  /\ UNCHANGED <<clusterVars, caches, eps, export, leafVars, autoVars, exportVars, impVars, directVars>>

CreateService ==
  /\ svc = None /\ Spend("svc")
  /\ \E m \in BOOLEAN : PutService([mark |-> m, ver |-> 0])
  /\ UNCHANGED <<byUser, lost>>

(* No controller of mode mcs looks at the service's content. *)
EditService ==
  /\ svc # None /\ svc.ver < MaxVer /\ Spend("edit")
  /\ PutService([svc EXCEPT !.ver = @ + 1])
  /\ Lose("service", mode = "mcs") /\ UNCHANGED byUser

MarkService ==
  /\ svc # None /\ Spend("mark")
  /\ PutService([svc EXCEPT !.mark = ~@])
  /\ Lose("unmarked", mode = "direct") /\ UNCHANGED byUser

(* The importers have no event of a service that goes. *)
DeleteService ==
  /\ svc # None /\ Spend("svc")
  /\ PutService(None)
  /\ Lose("service", mode = "mcs" /\ byUser # {}) /\ UNCHANGED byUser

SeeService ==
  /\ svcCache # svc
  /\ svcCache' = svc /\ ServiceEvent(svcCache, svc)
  /\ UNCHANGED <<clusterVars, lsvcCache, rootVars, leafVars, byUser, autoJob, exportVars, impVars, epsQ, lost, budget>>

(* The cache of a leaf cluster's manager, which the reads of LeafClient go *)
(* to, catches up; no controller waits for its events.                     *)
Stale(c) == lsvcCache[c] # lsvc[c]

SeeLeaf(c) ==
  /\ Stale(c)
  /\ lsvcCache' = [lsvcCache EXCEPT ![c] = lsvc[c]]
  /\ UNCHANGED <<clusterVars, svcCache, rootVars, leafVars, byUser, autoVars, exportVars, impVars, directVars, lost, budget>>

(* The slice controller of the root; slices go with their service.  What   *)
(* the importers copied of a slice that goes stays.                        *)
PutSlice(s, new) ==
  /\ eps' = [eps EXCEPT ![s] = new]
  /\ EpsEvent(s, new)
  /\ exportQ' = (exportQ \/ mode = "mcs")
  /\ Lose("slice gone", mode = "mcs" /\ new = None)
  /\ UNCHANGED <<clusterVars, svc, caches, export, leafVars, byUser, autoVars, exportJob, impJob, impTries, svcQ>>

SetSlice(s) ==
  /\ svc # None /\ Spend("eps")
  /\ IF eps[s] = None THEN PutSlice(s, [ver |-> 0, exported |-> FALSE])
     ELSE eps[s].ver < MaxVer /\ PutSlice(s, [eps[s] EXCEPT !.ver = @ + 1])

RemoveSlice(s) == svc # None /\ eps[s] # None /\ Spend("eps") /\ PutSlice(s, None)
CollectSlice(s) == svc = None /\ eps[s] # None /\ PutSlice(s, None) /\ UNCHANGED budget

NewClaim == [fin |-> FALSE, term |-> FALSE]

(* A deletion waits for the finalizer; before there is one, nobody cleans  *)
(* up what has been done for the object.                                   *)
DeletedClaim(o) == IF o # None /\ o.fin THEN [o EXCEPT !.term = TRUE] ELSE None

DeleteExport ==
  /\ export' = DeletedClaim(export)
  /\ exportQ' = (exportQ \/ export # None)
DeleteImport(c) ==
  /\ imp' = [imp EXCEPT ![c] = DeletedClaim(@)]
  /\ impQ' = IF imp[c] = None THEN impQ ELSE impQ \union {c}
NoFinalizer(o) == o # None /\ ~o.fin

(* Users make and delete objects of services that are not marked. *)
UserExport ==
  /\ mode = "mcs" /\ ~ShouldEnqueue(svc) /\ Spend("user")
  /\ \/ /\ export = None
        /\ export' = NewClaim /\ exportQ' = TRUE /\ byUser' = byUser \union {"root"} /\ UNCHANGED lost
     \/ /\ "root" \in byUser /\ export # None
        /\ DeleteExport /\ byUser' = byUser \ {"root"} /\ Lose("root", NoFinalizer(export))
  /\ UNCHANGED <<clusterVars, caches, svc, eps, leafVars, autoVars, exportJob, impVars, directVars>>

UserImport(c) ==
  /\ mode = "mcs" /\ c \in served /\ ~ShouldEnqueue(svc) /\ Spend("user")
  /\ \/ /\ imp[c] = None
        /\ imp' = [imp EXCEPT ![c] = NewClaim] /\ impQ' = impQ \union {c}
        /\ byUser' = byUser \union {c} /\ UNCHANGED lost
     \/ /\ c \in byUser /\ imp[c] # None
        /\ DeleteImport(c) /\ byUser' = byUser \ {c} /\ Lose(c, NoFinalizer(imp[c]))
  /\ UNCHANGED <<clusterVars, caches, rootVars, lsvc, leps, autoVars, exportVars, impJob, impTries, directVars>>

Foreign(c) ==
  /\ c \in served /\ lsvc[c] = None /\ Spend("foreign")
  /\ lsvc' = [lsvc EXCEPT ![c] = [ver |-> 0, mine |-> FALSE]]
  /\ UNCHANGED <<clusterVars, caches, rootVars, imp, leps, byUser, autoVars, exportVars, impVars, directVars, lost>>

(* A Cluster is created: every service is enqueued, marked or not.  The    *)
(* SimpleSync controllers do not look at clusters.                         *)
Join(c) ==
  /\ c \notin joined /\ Spend("join")
  /\ joined' = joined \union {c}
  /\ autoQ' = (autoQ \/ (mode = "mcs" /\ svcCache # None))
  /\ Lose("joined", mode = "direct")
  /\ UNCHANGED <<mode, prefix, served, unfit, caches, rootVars, leafVars, byUser, autoJob, exportVars, impVars, directVars>>

Serve(c) ==
  /\ c \in joined \ served
  /\ served' = served \union {c}
  /\ impQ' = IF imp[c] # None THEN impQ \union {c} ELSE impQ
  /\ UNCHANGED <<mode, prefix, joined, unfit, caches, rootVars, leafVars, byUser, autoVars, exportVars, impJob, impTries, directVars, lost, budget>>

(* Kosmos has nothing of the service in c. *)
Empty(c) == (lsvc[c] # None => ~lsvc[c].mine) /\ \A s \in Slices : leps[c][s] = None

(* The clusters whose clean-up has deleted the service and not the slices: *)
(* a clean-up that begins anew finds no service, and ends.                 *)
HalfCleaned == {c \in Clusters : impJob[c] # None /\ impJob[c].term /\ impJob[c].at = "eps"}

(* The process restarts: everything there is comes as created, and what    *)
(* was deleted meanwhile, or is half cleaned up, is not noticed.           *)
Restart ==
  /\ Spend("restart")
  /\ svcCache' = svc /\ lsvcCache' = lsvc
  /\ autoQ' = (mode = "mcs" /\ (ShouldEnqueue(svc) \/ (svc # None /\ joined # {}))) /\ autoJob' = None
  /\ exportQ' = (mode = "mcs") /\ exportJob' = None
  /\ impQ' = {c \in served : imp[c] # None} /\ impJob' = [c \in Clusters |-> None]
  /\ impTries' = [c \in Clusters |-> 0]
  /\ svcQ' = (mode = "direct" /\ ShouldEnqueue(svc))
  /\ epsQ' = IF mode = "direct" /\ prefix THEN {s \in Slices : eps[s] # None} ELSE {}
  /\ lost' = lost \union HalfCleaned
            \union (IF svc = None \/ \E s \in epsQ : eps[s] = None THEN {"restart"} ELSE {})
  /\ UNCHANGED <<clusterVars, rootVars, leafVars, byUser>>

-----------------------------------------------------------------------------
(* AutoCreateMCSController.Reconcile *)

AutoUnchanged == UNCHANGED <<clusterVars, caches, svc, eps, lsvc, leps, exportJob, impJob, impTries, directVars>>

AutoTake ==
  /\ autoQ /\ autoJob = None
  /\ autoQ' = FALSE
  /\ autoJob' = [create |-> ShouldEnqueue(svcCache), export |-> TRUE, todo |-> joined]
  /\ UNCHANGED <<export, imp, exportQ, impQ, byUser, lost, budget>> /\ AutoUnchanged


(* AlreadyExists is passed over, also when the object is being deleted. *)
AutoExport ==
  /\ autoJob # None /\ autoJob.export
  /\ IF autoJob.create
     THEN /\ export' = IF export = None THEN NewClaim ELSE export
          /\ exportQ' = TRUE
          /\ Lose("terminating", export # None /\ export.term)
          /\ UNCHANGED byUser
     ELSE /\ DeleteExport /\ Lose("root", NoFinalizer(export)) /\ byUser' = byUser \ {"root"}
  /\ autoJob' = [autoJob EXCEPT !.export = FALSE]
  /\ UNCHANGED <<imp, autoQ, impQ, budget>> /\ AutoUnchanged

AutoCluster(c) ==
  /\ autoJob # None /\ ~autoJob.export /\ c \in autoJob.todo \intersect served
  /\ IF autoJob.create
     THEN /\ imp' = IF imp[c] = None THEN [imp EXCEPT ![c] = NewClaim] ELSE imp
          /\ impQ' = impQ \union {c}
          /\ Lose("terminating", imp[c] # None /\ imp[c].term)
          /\ UNCHANGED byUser
     ELSE /\ DeleteImport(c) /\ Lose(c, NoFinalizer(imp[c])) /\ byUser' = byUser \ {c}
  /\ autoJob' = [autoJob EXCEPT !.todo = @ \ {c}]
  /\ UNCHANGED <<export, autoQ, exportQ, budget>> /\ AutoUnchanged

(* A call fails, or a cluster has no client yet: the request comes again. *)
AutoFails ==
  /\ autoJob # None
  /\ \/ Spend("fail")
     \/ ~autoJob.export /\ autoJob.todo # {} /\ ~(autoJob.todo \subseteq served) /\ UNCHANGED budget
  /\ autoJob' = None /\ autoQ' = TRUE
  /\ UNCHANGED <<export, imp, exportQ, impQ, byUser, lost>> /\ AutoUnchanged

AutoDone ==
  /\ autoJob # None /\ ~autoJob.export /\ autoJob.todo = {}
  /\ autoJob' = None
  /\ UNCHANGED <<export, imp, autoQ, exportQ, impQ, byUser, lost, budget>> /\ AutoUnchanged

-----------------------------------------------------------------------------
(* ServiceExportController.Reconcile *)

(* Seeded fault: an object that is being deleted loses its finalizer in    *)
(* any round.                                                              *)
ReleasedAnyway(o, term) ==
  IF o = None THEN None ELSE IF o.term THEN None ELSE [o EXCEPT !.fin = TRUE]

(* ensureFinalizer, or removeFinalizer if the round saw the deletion. *)
Released(o, term) ==
  IF o = None THEN None ELSE IF ~term THEN [o EXCEPT !.fin = TRUE]
  ELSE IF o.term THEN None ELSE o

ExportUnchanged == UNCHANGED <<clusterVars, caches, svc, leafVars, byUser, autoVars, impJob, impTries, svcQ>>

ExportTake ==
  /\ exportQ /\ exportJob = None
  /\ exportQ' = FALSE
  /\ exportJob' = IF export = None THEN None
                  ELSE [term |-> export.term, todo |-> {s \in Slices : eps[s] # None}]
  /\ UNCHANGED <<eps, export, impQ, epsQ, lost, budget>> /\ ExportUnchanged

(* syncServiceExport and removeAnnotation; a conflict is retried with the  *)
(* slice as it is.                                                         *)
ExportSlice(s) ==
  /\ exportJob # None /\ s \in exportJob.todo
  /\ LET new == IF eps[s] = None THEN None ELSE [eps[s] EXCEPT !.exported = ~exportJob.term]
     IN  IF new = eps[s] THEN UNCHANGED <<eps, impQ, epsQ, exportQ>>
         ELSE eps' = [eps EXCEPT ![s] = new] /\ EpsEvent(s, new) /\ exportQ' = TRUE
  /\ exportJob' = [exportJob EXCEPT !.todo = @ \ {s}]
  /\ UNCHANGED <<export, lost, budget>> /\ ExportUnchanged

ExportFails ==
  /\ exportJob # None /\ Spend("fail")
  /\ exportJob' = None /\ exportQ' = TRUE
  /\ UNCHANGED <<eps, export, impQ, epsQ, lost>> /\ ExportUnchanged

ExportDone ==
  /\ exportJob # None /\ exportJob.todo = {}
  /\ exportJob' = None
  /\ export' = Released(export, exportJob.term)
  /\ exportQ' = (exportQ \/ export' # export)
  /\ UNCHANGED <<eps, impQ, epsQ, lost, budget>> /\ ExportUnchanged

-----------------------------------------------------------------------------
(* ServiceImportController.Reconcile, one worker in each served cluster *)

ImpUnchanged == UNCHANGED <<clusterVars, caches, rootVars, byUser, autoVars, exportVars, directVars>>

ImpTake(c) ==
  /\ c \in impQ \intersect served /\ impJob[c] = None
  /\ impQ' = impQ \ {c}
  /\ impJob' = IF imp[c] = None THEN impJob
               ELSE [impJob EXCEPT ![c] = [term |-> imp[c].term, at |-> "svc", read |-> None]]
  /\ impTries' = IF imp[c] = None THEN [impTries EXCEPT ![c] = 0] ELSE impTries
  /\ UNCHANGED <<leafVars, lost, budget>> /\ ImpUnchanged

GenerateService(rootService) == [ver |-> rootService.ver, mine |-> TRUE]

(* importServiceHandler writes over any service of the name, unless the IP *)
(* family does not fit; the slices are listed afterwards, for either.      *)
(* Without a root service there is nothing to do, and the service's own    *)
(* events do not come here.                                                *)
ImpService(c) ==
  /\ impJob[c] # None /\ ~impJob[c].term /\ impJob[c].at = "svc"
  /\ svcCache # None /\ c \notin unfit => ~Stale(c)
  /\ lsvc' = IF svcCache = None \/ c \in unfit THEN lsvc ELSE [lsvc EXCEPT ![c] = GenerateService(svcCache)]
  /\ impJob' = IF svcCache = None THEN [impJob EXCEPT ![c].at = "end"]
               ELSE [impJob EXCEPT ![c].at = "eps", ![c].read = eps]
  /\ Lose("service", svcCache = None \/ svcCache # svc)
  /\ UNCHANGED <<imp, leps, impQ, impTries, budget>> /\ ImpUnchanged

(* importEndpointSliceHandler, for every slice there was, exported or not. *)
ImpSlices(c) ==
  /\ impJob[c] # None /\ ~impJob[c].term /\ impJob[c].at = "eps"
  /\ leps' = [leps EXCEPT ![c] = [s \in Slices |->
                IF impJob[c].read[s] = None THEN @[s] ELSE impJob[c].read[s].ver]]
  /\ impJob' = [impJob EXCEPT ![c].at = "end"]
  /\ UNCHANGED <<imp, lsvc, impQ, impTries, lost, budget>> /\ ImpUnchanged

(* cleanupServiceAndEndpointSlice: a service that is not there, or not     *)
(* Kosmos's, ends it, with the slices left.  So does a service that the    *)
(* cache does not show yet, or shows although it is gone.                  *)
CleanService(c) ==
  LET unknown == lsvcCache[c] = None \/ ~lsvcCache[c].mine \/ lsvc[c] = None
  IN  /\ impJob[c] # None /\ impJob[c].term /\ impJob[c].at = "svc"
      /\ impJob' = [impJob EXCEPT ![c].at = IF unknown THEN "end" ELSE "eps"]
      /\ lsvc' = IF unknown THEN lsvc ELSE [lsvc EXCEPT ![c] = None]
      /\ Lose(c, unknown /\ (Stale(c) \/ c \in unfit) /\ ~Empty(c))
      /\ UNCHANGED <<imp, leps, impQ, impTries, budget>> /\ ImpUnchanged

CleanSlices(c) ==
  /\ impJob[c] # None /\ impJob[c].term /\ impJob[c].at = "eps"
  /\ leps' = [leps EXCEPT ![c] = [s \in Slices |-> None]]
  /\ impJob' = [impJob EXCEPT ![c].at = "end"]
  /\ UNCHANGED <<imp, lsvc, impQ, impTries, lost, budget>> /\ ImpUnchanged

ImpDone(c) ==
  /\ impJob[c] # None /\ impJob[c].at = "end"
  /\ imp' = [imp EXCEPT ![c] = Released(@, impJob[c].term)]
  /\ impQ' = IF imp' # imp THEN impQ \union {c} ELSE impQ
  /\ impJob' = [impJob EXCEPT ![c] = None]
  /\ impTries' = [impTries EXCEPT ![c] = 0]
  /\ UNCHANGED <<lsvc, leps, lost, budget>> /\ ImpUnchanged

Requeues(c) == impTries[c] < MaxRetries

(* handleError: the item comes again, until it is dropped.  Slices that    *)
(* failed to go are not found again without their service.                 *)
HandleError(c) ==
  /\ impJob' = [impJob EXCEPT ![c] = None]
  /\ IF Requeues(c)
     THEN impQ' = impQ \union {c} /\ impTries' = [impTries EXCEPT ![c] = @ + 1]
     ELSE impTries' = [impTries EXCEPT ![c] = 0] /\ UNCHANGED impQ
  /\ lost' = lost \union ({c} \intersect HalfCleaned)
                  \union (IF Requeues(c) THEN {} ELSE {"dropped"})
  /\ UNCHANGED leafVars /\ ImpUnchanged

ImpFails(c) == impJob[c] # None /\ Spend("fail") /\ HandleError(c)

(* The service is created although it is there, or updated from an old     *)
(* version, or although it is gone.                                        *)
ImpConflict(c) ==
  /\ impJob[c] # None /\ ~impJob[c].term /\ impJob[c].at = "svc"
  /\ svcCache # None /\ c \notin unfit /\ Stale(c)
  /\ HandleError(c) /\ UNCHANGED budget

-----------------------------------------------------------------------------
(* SimpleSyncServiceController and SimpleSyncEPSController: one round writes *)
(* to all clusters at once; a cluster that fails brings the round again.     *)

DirectUnchanged == UNCHANGED <<clusterVars, caches, rootVars, imp, byUser, autoVars, exportVars, impVars>>

SyncServiceInLeafCluster(in) ==
  lsvc' = [c \in Clusters |-> IF c \notin in THEN lsvc[c]
                              ELSE IF svcCache = None THEN None ELSE GenerateService(svcCache)]

(* A service of another IP family, or one that the cache shows otherwise   *)
(* than it is, is not written.                                             *)
SimpleService ==
  /\ svcQ
  /\ \E bad \in SUBSET served :
       LET fails == IF svcCache = None THEN {} ELSE {c \in served : c \in unfit \/ Stale(c)}
       IN  /\ fails \subseteq bad
           /\ IF bad = fails THEN UNCHANGED budget ELSE Spend("fail")
           /\ svcQ' = (bad # {})
           /\ SyncServiceInLeafCluster(served \ bad)
  /\ UNCHANGED <<leps, epsQ, lost>> /\ DirectUnchanged

SyncEpsInLeafCluster(s, in) ==
  leps' = [c \in Clusters |-> IF c \notin in THEN leps[c]
                              ELSE [leps[c] EXCEPT ![s] = IF eps[s] = None THEN None ELSE eps[s].ver]]

(* A slice whose service is not in the cache yet, or is not marked, is     *)
(* passed over.                                                            *)
SimpleEps(s) ==
  /\ s \in epsQ
  /\ IF eps[s] # None /\ svcCache = None
     THEN epsQ' = epsQ \ {s} /\ Lose("early", TRUE) /\ UNCHANGED <<leps, budget>>
     ELSE \E bad \in SUBSET served :
            /\ IF bad = {} THEN UNCHANGED budget ELSE Spend("fail")
            /\ epsQ' = IF bad = {} THEN epsQ \ {s} ELSE epsQ
            /\ SyncEpsInLeafCluster(s, served \ bad)
            /\ UNCHANGED lost
  /\ UNCHANGED <<lsvc, svcQ>> /\ DirectUnchanged

-----------------------------------------------------------------------------

AutoStep == AutoTake \/ AutoExport \/ AutoDone \/ AutoFails \/ \E c \in Clusters : AutoCluster(c)
ExportStep == ExportTake \/ ExportDone \/ \E s \in Slices : ExportSlice(s)
ImpStep(c) ==
  \/ ImpTake(c) \/ ImpService(c) \/ ImpConflict(c) \/ ImpSlices(c)
  \/ CleanService(c) \/ CleanSlices(c) \/ ImpDone(c)

MCSNext ==
  \/ CreateService \/ EditService \/ MarkService \/ DeleteService \/ SeeService
  \/ UserExport \/ Restart \/ AutoStep \/ ExportStep \/ ExportFails \/ SimpleService
  \/ \E s \in Slices : SetSlice(s) \/ RemoveSlice(s) \/ CollectSlice(s) \/ SimpleEps(s)
  \/ \E c \in Clusters : UserImport(c) \/ Foreign(c) \/ Join(c) \/ Serve(c) \/ SeeLeaf(c) \/ ImpStep(c) \/ ImpFails(c)

(* Caches catch up, queues are served, a cluster that joined is set up.    *)
MCSSpec ==
  /\ MCSInit /\ [][MCSNext]_mcsVars
  /\ WF_mcsVars(SeeService) /\ WF_mcsVars(AutoStep) /\ WF_mcsVars(ExportStep) /\ WF_mcsVars(SimpleService)
  /\ \A s \in Slices : WF_mcsVars(CollectSlice(s)) /\ WF_mcsVars(SimpleEps(s))
  /\ \A c \in Clusters : WF_mcsVars(Serve(c)) /\ WF_mcsVars(SeeLeaf(c)) /\ WF_mcsVars(ImpStep(c))

-----------------------------------------------------------------------------

(* The types; in particular the bound of the retries, and that a round     *)
(* which copies slices has read them.                                      *)
MCSTypeOK ==
  /\ mode \in {"mcs", "direct"} /\ prefix \in BOOLEAN
  /\ svc \in [mark : BOOLEAN, ver : Vers] \union {None}
  /\ svcCache \in [mark : BOOLEAN, ver : Vers] \union {None}
  /\ eps \in [Slices -> RootSlice \union {None}]
  /\ export \in Claim \union {None} /\ imp \in [Clusters -> Claim \union {None}]
  /\ lsvc \in [Clusters -> LeafService \union {None}] /\ lsvcCache \in [Clusters -> LeafService \union {None}]
  /\ leps \in [Clusters -> [Slices -> Vers \union {None}]]
  /\ served \subseteq joined /\ joined \subseteq Clusters /\ unfit \subseteq Clusters
  /\ autoQ \in BOOLEAN /\ autoJob \in [create : BOOLEAN, export : BOOLEAN, todo : SUBSET Clusters] \union {None}
  /\ exportQ \in BOOLEAN /\ exportJob \in [term : BOOLEAN, todo : SUBSET Slices] \union {None}
  /\ impQ \subseteq Clusters /\ impTries \in [Clusters -> 0 .. MaxRetries]
  /\ impJob \in [Clusters -> ImpRound \union {None}]
  /\ \A c \in Clusters : impJob[c] # None /\ ~impJob[c].term /\ impJob[c].at = "eps" =>
       impJob[c].read \in [Slices -> RootSlice \union {None}]
  /\ svcQ \in BOOLEAN /\ epsQ \subseteq Slices
  /\ budget \in [Disturbances -> Nat]

(* A finalizer keeps its promise: a ServiceImport that has one goes only   *)
(* when its leaf cluster has neither service nor slices left, and a        *)
(* ServiceExport only when no slice that was there is annotated, although  *)
(* rounds that began before the deletion still copy and annotate.  Left    *)
(* out are the leaf clusters of which the code lost sight: a clean-up      *)
(* decided on a cache that lagged, began anew half-way, or found no        *)
(* service since the IP family did not fit.                                *)
CleanBeforeGone ==
  [][/\ \A c \in Clusters : imp[c] # None /\ imp[c].fin /\ imp'[c] = None => Empty(c) \/ c \in lost
     /\ export # None /\ export.fin /\ export' = None => \A s \in Slices : eps[s] # None => ~eps[s].exported
    ]_mcsVars

Live(o) == o # None /\ ~o.term

Agree ==
  IF mode = "mcs"
  THEN /\ ShouldEnqueue(svc) /\ "terminating" \notin lost => Live(export) /\ \A c \in joined : Live(imp[c])
       /\ ~ShouldEnqueue(svc) /\ lost \intersect {"restart", "dropped"} = {} =>
            /\ "root" \notin byUser => export = None
            /\ \A c \in joined \ byUser : imp[c] = None
       /\ "root" \notin lost => \A s \in Slices : eps[s] # None => (eps[s].exported <=> Live(export))
       /\ \A c \in served \ lost :
            /\ imp[c] = None => Empty(c) \/ "dropped" \in lost
            /\ Live(imp[c]) /\ Live(export) /\ svc # None /\ lost \intersect {"dropped", "service"} = {} =>
                 /\ c \notin unfit => lsvc[c] # None /\ lsvc[c].ver = svc.ver
                 /\ \A s \in Slices :
                      IF eps[s] # None THEN leps[c][s] = eps[s].ver ELSE leps[c][s] = None \/ "slice gone" \in lost
  ELSE \A c \in served :
         lost \intersect {"unmarked", "joined", "restart"} = {} =>
           /\ ShouldEnqueue(svc) /\ c \notin unfit => lsvc[c] # None /\ lsvc[c].ver = svc.ver
           /\ svc = None => (lsvc[c] # None => ~lsvc[c].mine)
           /\ prefix /\ "early" \notin lost =>
                \A s \in Slices : leps[c][s] = IF eps[s] = None THEN None ELSE eps[s].ver

(* When users and clusters rest: a marked service is exported and imported *)
(* everywhere and no other is, unless users do it; slices are annotated    *)
(* as the export says; and a leaf cluster has the service and the slices   *)
(* of the root if it imports them, and nothing otherwise.  Unless an event *)
(* fell into one of the gaps that the code leaves, which lost names.       *)
Converges == <>[]Agree

=============================================================================
