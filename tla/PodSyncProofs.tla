--------------------------- MODULE PodSyncProofs ---------------------------
(***************************************************************************)
(* Theorems about PodSync, for any leaf clusters, any bounds and any       *)
(* budget of disturbances: the types, OneHome (no incarnation of a root    *)
(* pod ever runs in two leaf clusters), ForeignNeverOverwritten, and that  *)
(* PodSync implements Placement.                                           *)
(***************************************************************************)
EXTENDS PodSync, TLAPS

(* The root pods that may be anywhere in the system: their node is the one *)
(* recorded for their incarnation.                                         *)
KnownRoot == {p \in RootPod : p.uid <= lastUid /\ home[p.uid] = p.node} \union {NoPod}

(* The pods that may be anywhere on the way to, in or from leaf cluster c. *)
CopiesIn(c) ==
  {p \in LeafPod : p.owner = 0 \/ (p.owner <= lastUid /\ home[p.owner] = c)} \union {NoPod}

RootSide == root \in KnownRoot /\ rootWatch \in Seq(KnownRoot) /\ rootCache \in KnownRoot

LeafSide ==
  /\ leaf = [c \in Leafs |-> leaf[c]]
  /\ leafWatch = [c \in Leafs |-> leafWatch[c]]
  /\ leafCache = [c \in Leafs |-> leafCache[c]]
  /\ \A c \in Leafs : /\ leaf[c] \in CopiesIn(c)
                      /\ leafCache[c] \in CopiesIn(c)
                      /\ leafWatch[c] \in Seq(CopiesIn(c))

JobSide == job \in Job /\ job.pod \in KnownRoot /\ (job.op = "create" => job.pod # NoPod)

CtrlSide == managed \subseteq Leafs /\ queue \subseteq Controllers

HistSide ==
  /\ home \in [1..MaxUid -> Leafs \union {NoPod}]
  /\ lastUid \in 0..MaxUid
  /\ budget \in [Disturbances -> Nat]

IInv == RootSide /\ LeafSide /\ JobSide /\ CtrlSide /\ HistSide

-----------------------------------------------------------------------------
LEMMA SeqSubset ==
  ASSUME NEW S, NEW T, S \subseteq T, NEW q \in Seq(S)
  PROVE  q \in Seq(T)
<1>1. q \in [1..Len(q) -> S] /\ Len(q) \in Nat
  OBVIOUS
<1>2. q \in [1..Len(q) -> T]
  BY <1>1
<1> QED BY <1>1, <1>2

(* The inductive invariant gives the types. *)
LEMMA IInvType == IInv => TypeOK
<1> SUFFICES ASSUME IInv PROVE TypeOK
  OBVIOUS
<1>1. KnownRoot \subseteq RootPod \union {NoPod}
  BY DEF KnownRoot
<1>2. \A c \in Leafs : CopiesIn(c) \subseteq LeafPod \union {NoPod}
  BY DEF CopiesIn
<1>3. rootWatch \in Seq(RootPod \union {NoPod})
  BY <1>1, SeqSubset DEF IInv, RootSide
<1>4. \A c \in Leafs : leafWatch[c] \in Seq(LeafPod \union {NoPod})
  BY <1>2, SeqSubset DEF IInv, LeafSide
<1>5. leafWatch \in [Leafs -> Seq(LeafPod \union {NoPod})]
  BY <1>4 DEF IInv, LeafSide
<1>6. /\ leaf \in [Leafs -> LeafPod \union {NoPod}]
      /\ leafCache \in [Leafs -> LeafPod \union {NoPod}]
  BY <1>2 DEF IInv, LeafSide
<1> QED BY <1>1, <1>3, <1>5, <1>6 DEF IInv, RootSide, JobSide, CtrlSide, HistSide, TypeOK

(* The inductive invariant gives OneHome. *)
LEMMA IInvHome == IInv => OneHome
BY DEF IInv, LeafSide, CopiesIn, OneHome, IsKosmosPod

LEMMA InitIInv == Init => IInv
<1> SUFFICES ASSUME Init PROVE IInv
  OBVIOUS
<1>1. NoPod \in KnownRoot /\ \A c \in Leafs : NoPod \in CopiesIn(c)
  BY DEF KnownRoot, CopiesIn
<1>2. RootSide /\ CtrlSide
  BY <1>1 DEF Init, RootSide, CtrlSide
<1>3. LeafSide
  BY <1>1 DEF Init, LeafSide
<1>4. JobSide
  BY <1>1 DEF Init, JobSide, Idle, Job
<1>5. HistSide
  BY BoundsAssumption, BudgetAssumption DEF Init, HistSide
<1> QED BY <1>2, <1>3, <1>4, <1>5 DEF IInv

-----------------------------------------------------------------------------
(* What the API server writes preserve. *)

LEMMA SameHistory ==
  ASSUME UNCHANGED <<home, lastUid>>
  PROVE  KnownRoot' = KnownRoot /\ \A c \in Leafs : CopiesIn(c)' = CopiesIn(c)
BY DEF KnownRoot, CopiesIn

LEMMA RootUnchanged ==
  ASSUME IInv, UNCHANGED <<rootVars, home, lastUid>>
  PROVE  RootSide'
BY SameHistory DEF rootVars, IInv, RootSide

LEMMA LeafUnchanged ==
  ASSUME IInv, UNCHANGED <<leafVars, home, lastUid>>
  PROVE  LeafSide'
BY SameHistory DEF leafVars, IInv, LeafSide

LEMMA JobUnchanged ==
  ASSUME IInv, UNCHANGED <<job, home, lastUid>>
  PROVE  JobSide'
BY SameHistory DEF IInv, JobSide

LEMMA JobIdle ==
  ASSUME IInv, job' = Idle, UNCHANGED <<home, lastUid>>
  PROVE  JobSide'
BY SameHistory DEF JobSide, Idle, Job, KnownRoot

LEMMA RootWritten ==
  ASSUME IInv, NEW p \in KnownRoot, WriteRoot(p), UNCHANGED <<home, lastUid>>
  PROVE  RootSide'
<1>1. Append(rootWatch, p) \in Seq(KnownRoot)
  BY DEF IInv, RootSide
<1> QED BY <1>1, SameHistory DEF IInv, RootSide, WriteRoot

LEMMA LeafWritten ==
  ASSUME IInv, NEW c \in Leafs, NEW p \in CopiesIn(c), WriteLeaf(c, p), UNCHANGED <<home, lastUid>>
  PROVE  LeafSide'
<1>1. Append(leafWatch[c], p) \in Seq(CopiesIn(c))
  BY DEF IInv, LeafSide
<1>2. ASSUME NEW d \in Leafs
      PROVE  /\ leaf'[d] \in CopiesIn(d)
             /\ leafCache'[d] \in CopiesIn(d)
             /\ leafWatch'[d] \in Seq(CopiesIn(d))
  <2>1. CASE d = c
    BY <1>1, <2>1 DEF IInv, LeafSide, WriteLeaf
  <2>2. CASE d # c
    BY <2>2 DEF IInv, LeafSide, WriteLeaf
  <2> QED BY <2>1, <2>2
<1>3. /\ leaf' = [d \in Leafs |-> leaf'[d]]
      /\ leafWatch' = [d \in Leafs |-> leafWatch'[d]]
      /\ leafCache' = [d \in Leafs |-> leafCache'[d]]
  BY DEF IInv, LeafSide, WriteLeaf
<1> QED BY <1>2, <1>3, SameHistory DEF LeafSide

LEMMA LeafEdited ==
  ASSUME NEW c \in Leafs, NEW p \in CopiesIn(c), p # NoPod
  PROVE  /\ [p EXCEPT !.term = "yes"] \in CopiesIn(c)
         /\ \A i, l \in 0..MaxEdit : [p EXCEPT !.image = i, !.labels = l] \in CopiesIn(c)
         /\ \A s \in Status : [p EXCEPT !.status = s] \in CopiesIn(c)
BY DEF CopiesIn, LeafPod

LEMMA LeafDeleted ==
  ASSUME IInv, NEW c \in Leafs, leaf[c] # NoPod, DeleteLeaf(c), UNCHANGED <<home, lastUid>>
  PROVE  LeafSide'
<1>1. leaf[c] \in CopiesIn(c) /\ NoPod \in CopiesIn(c)
  BY DEF IInv, LeafSide, CopiesIn
<1>2. CASE WriteLeaf(c, NoPod)
  BY <1>1, <1>2, LeafWritten
<1>3. CASE WriteLeaf(c, [leaf[c] EXCEPT !.term = "yes"])
  BY <1>1, <1>3, LeafEdited, LeafWritten
<1>4. CASE UNCHANGED leafVars
  BY <1>4, LeafUnchanged
<1> QED BY <1>2, <1>3, <1>4 DEF DeleteLeaf

LEMMA RootDeleted ==
  ASSUME IInv, DeletePodInRootCluster, UNCHANGED <<home, lastUid>>
  PROVE  RootSide'
<1>1. NoPod \in KnownRoot
  BY DEF KnownRoot
<1> QED BY <1>1, RootWritten, RootUnchanged DEF DeletePodInRootCluster

LEMMA RootEdited ==
  ASSUME NEW p \in KnownRoot, p # NoPod
  PROVE  /\ [p EXCEPT !.term = "yes"] \in KnownRoot
         /\ \A i \in 0..MaxEdit : [p EXCEPT !.image = i] \in KnownRoot
         /\ \A i \in 0..MaxEdit : [p EXCEPT !.labels = i] \in KnownRoot
         /\ \A s \in Status : [p EXCEPT !.status = s] \in KnownRoot
         /\ \A s \in Status, l \in 0..MaxEdit, m \in {"plain", "kosmos"} :
              [p EXCEPT !.status = s, !.labels = l, !.mark = m] \in KnownRoot
BY DEF KnownRoot, RootPod

LEMMA Spent ==
  ASSUME IInv, NEW e \in Disturbances, Spend(e)
  PROVE  budget' \in [Disturbances -> Nat]
BY DEF IInv, HistSide, Spend

LEMMA StatusValues ==
  /\ Pending \in Status
  /\ OtherStatus \in Status
  /\ \A c \in Leafs : \A p \in CopiesIn(c) : p # NoPod => p.status \in Status /\ p.labels \in 0..MaxEdit
  /\ \A p \in KnownRoot : p # NoPod => /\ p.status \in Status /\ p.labels \in 0..MaxEdit
                                       /\ p.image \in 0..MaxEdit /\ p.node \in Leafs
                                       /\ p.mark \in {"plain", "kosmos"}
BY BoundsAssumption DEF Pending, OtherStatus, Status, CopiesIn, LeafPod, KnownRoot, RootPod

LEMMA HistUnchanged ==
  ASSUME IInv, UNCHANGED <<home, lastUid, budget>>
  PROVE  HistSide'
BY DEF IInv, HistSide

LEMMA HistSpent ==
  ASSUME IInv, NEW e \in Disturbances, Spend(e), UNCHANGED <<home, lastUid>>
  PROVE  HistSide'
BY Spent DEF IInv, HistSide

LEMMA CtrlUnchanged ==
  ASSUME IInv, UNCHANGED <<managed, queue>>
  PROVE  CtrlSide'
BY DEF IInv, CtrlSide

-----------------------------------------------------------------------------
(* The root pod reconciler preserves the invariant, one lemma per group of *)
(* its steps.                                                              *)

LEMMA PurgeSteps ==
  ASSUME IInv, NEW c \in Leafs,
         RootPurgeStart \/ RootPurgeEnd \/ RootPurge(c) \/ RootPurgeFails(c)
  PROVE  IInv'
<1>1. CASE RootPurgeStart
  <2>1. RootSide' /\ LeafSide' /\ HistSide'
    BY <1>1, RootUnchanged, LeafUnchanged, HistUnchanged DEF RootPurgeStart
  <2>2. JobSide'
    BY <1>1, SameHistory DEF RootPurgeStart, JobSide, Job, IInv, CtrlSide, KnownRoot
  <2>3. CtrlSide'
    BY <1>1 DEF RootPurgeStart, IInv, CtrlSide
  <2> QED BY <2>1, <2>2, <2>3 DEF IInv
<1>2. CASE RootPurgeEnd
  BY <1>2, RootUnchanged, LeafUnchanged, HistUnchanged, JobIdle, CtrlUnchanged
     DEF RootPurgeEnd, IInv
<1>3. CASE RootPurge(c)
  <2>1. RootSide' /\ HistSide' /\ CtrlSide'
    BY <1>3, RootUnchanged, HistUnchanged, CtrlUnchanged DEF RootPurge
  <2>2. LeafSide'
    BY <1>3, LeafDeleted, LeafUnchanged DEF RootPurge
  <2>3. JobSide'
    BY <1>3, SameHistory DEF RootPurge, JobSide, Job, IInv
  <2> QED BY <2>1, <2>2, <2>3 DEF IInv
<1>4. CASE RootPurgeFails(c)
  <2>1. RootSide' /\ LeafSide'
    BY <1>4, RootUnchanged, LeafUnchanged DEF RootPurgeFails
  <2>2. JobSide'
    BY <1>4, JobIdle DEF RootPurgeFails, Requeue
  <2>3. CtrlSide'
    BY <1>4 DEF RootPurgeFails, Requeue, IInv, CtrlSide, Controllers
  <2>4. HistSide'
    BY <1>4, HistUnchanged, HistSpent DEF RootPurgeFails, Disturbances
  <2> QED BY <2>1, <2>2, <2>3, <2>4 DEF IInv
<1> QED BY <1>1, <1>2, <1>3, <1>4

LEMMA DeleteStep ==
  ASSUME IInv, RootDelete
  PROVE  IInv'
<1>1. rootCache \in KnownRoot /\ rootCache # NoPod
  BY DEF IInv, RootSide, RootDelete
<1>2. rootCache.node \in Leafs
  BY <1>1, StatusValues
<1>3. CtrlSide'
  BY DEF RootDelete, Done, IInv, CtrlSide
<1>4. JobSide' /\ HistSide'
  BY JobIdle, HistUnchanged DEF RootDelete, Done
<1>5. RootSide'
  BY RootDeleted, RootUnchanged DEF RootDelete
<1>6. LeafSide'
  BY <1>2, LeafDeleted, LeafUnchanged DEF RootDelete, IsKosmosPod
<1> QED BY <1>3, <1>4, <1>5, <1>6 DEF IInv

(* FitPod gives the copy of a known root pod a home in its node's cluster. *)
LEMMA FitPodHome ==
  ASSUME IInv, NEW p \in KnownRoot, p # NoPod
  PROVE  p.node \in Leafs /\ FitPod(p) \in CopiesIn(p.node)
<1>1. /\ p \in RootPod /\ p.uid <= lastUid /\ home[p.uid] = p.node
  BY DEF KnownRoot
<1>2. FitPod(p) \in LeafPod /\ FitPod(p).owner = p.uid
  BY <1>1, StatusValues DEF FitPod, LeafPod, RootPod
<1> QED BY <1>1, <1>2 DEF CopiesIn, RootPod

LEMMA CreateSteps ==
  ASSUME IInv, RootCreateStart \/ RootCreate \/ RootCreateFails
  PROVE  IInv'
<1>1. CASE RootCreateStart
  <2>1. RootSide' /\ LeafSide' /\ HistSide'
    BY <1>1, RootUnchanged, LeafUnchanged, HistUnchanged DEF RootCreateStart
  <2>2. rootCache \in RootPod /\ rootCache \in KnownRoot /\ rootCache # NoPod
    BY <1>1 DEF RootCreateStart, RootLive, IInv, RootSide, KnownRoot
  <2>3. JobSide'
    BY <1>1, <2>2, SameHistory DEF RootCreateStart, JobSide, Job
  <2>4. CtrlSide'
    BY <1>1 DEF RootCreateStart, IInv, CtrlSide
  <2> QED BY <2>1, <2>3, <2>4 DEF IInv
<1>2. CASE RootCreate
  <2>1. job.pod \in KnownRoot /\ job.pod # NoPod
    BY <1>2 DEF RootCreate, IInv, JobSide
  <2>2. LeafSide'
    BY <1>2, <2>1, FitPodHome, LeafWritten DEF RootCreate
  <2>3. RootSide' /\ HistSide' /\ CtrlSide' /\ JobSide'
    BY <1>2, RootUnchanged, HistUnchanged, CtrlUnchanged, JobIdle DEF RootCreate
  <2> QED BY <2>2, <2>3 DEF IInv
<1>3. CASE RootCreateFails
  <2>1. RootSide' /\ LeafSide'
    BY <1>3, RootUnchanged, LeafUnchanged DEF RootCreateFails
  <2>2. JobSide'
    BY <1>3, JobIdle DEF RootCreateFails, Requeue
  <2>3. CtrlSide'
    BY <1>3 DEF RootCreateFails, Requeue, IInv, CtrlSide, Controllers
  <2>4. HistSide'
    BY <1>3, HistUnchanged, HistSpent DEF RootCreateFails, Disturbances
  <2> QED BY <2>1, <2>2, <2>3, <2>4 DEF IInv
<1> QED BY <1>1, <1>2, <1>3

LEMMA UpdateStep ==
  ASSUME IInv, RootUpdate
  PROVE  IInv'
<1> DEFINE c == rootCache.node
           p == leafCache[c]
           q == [p EXCEPT !.image = rootCache.image, !.labels = rootCache.labels]
<1>1. rootCache \in KnownRoot /\ rootCache # NoPod
  BY DEF IInv, RootSide, RootUpdate, RootLive
<1>2. c \in Leafs /\ rootCache.image \in 0..MaxEdit /\ rootCache.labels \in 0..MaxEdit
  BY <1>1, StatusValues
<1>3. p \in CopiesIn(c) /\ p # NoPod
  BY <1>2 DEF IInv, LeafSide, RootUpdate
<1>4. q \in CopiesIn(c)
  BY <1>2, <1>3, LeafEdited
<1>5. (UNCHANGED leafVars \/ WriteLeaf(c, q)) /\ Done
  BY DEF RootUpdate
<1>6. UNCHANGED <<rootVars, managed, home, lastUid, budget>>
  BY DEF RootUpdate
<1> HIDE DEF c, p, q
<1>7. LeafSide'
  BY <1>2, <1>4, <1>5, <1>6, LeafWritten, LeafUnchanged
<1>8. RootSide' /\ HistSide' /\ JobSide'
  BY <1>5, <1>6, RootUnchanged, HistUnchanged, JobIdle DEF Done
<1>9. CtrlSide'
  BY <1>5, <1>6 DEF Done, IInv, CtrlSide
<1> QED BY <1>7, <1>8, <1>9 DEF IInv

-----------------------------------------------------------------------------
(* The reconcilers that carry the status back. *)

LEMMA StatusSteps ==
  ASSUME IInv, NEW c \in Leafs, LeafReconcile(c) \/ SyncReconcile \/ SyncFails
  PROVE  IInv'
<1>1. root \in KnownRoot /\ rootCache \in KnownRoot
  BY DEF IInv, RootSide
<1>2. \A d \in Leafs : leafCache[d] \in CopiesIn(d)
  BY DEF IInv, LeafSide
<1>3. CASE LeafReconcile(c)
  <2>1. ASSUME IsKosmosPod(leafCache[c]), root # NoPod
        PROVE  [root EXCEPT !.status = leafCache[c].status,
                            !.labels = leafCache[c].labels, !.mark = "kosmos"] \in KnownRoot
    <3>1. leafCache[c].status \in Status /\ leafCache[c].labels \in 0..MaxEdit
      BY <1>2, <2>1, StatusValues DEF IsKosmosPod
    <3> QED BY <1>1, <2>1, <3>1, RootEdited
  <2>2. RootSide'
    BY <1>3, <2>1, RootWritten, RootUnchanged, RootDeleted DEF LeafReconcile
  <2>3. LeafSide' /\ JobSide' /\ HistSide'
    BY <1>3, LeafUnchanged, JobUnchanged, HistUnchanged DEF LeafReconcile
  <2>4. CtrlSide'
    BY <1>3 DEF LeafReconcile, IInv, CtrlSide
  <2> QED BY <2>2, <2>3, <2>4 DEF IInv
<1>4. CASE SyncReconcile
  <2>1. ASSUME SyncApplies, root # NoPod
        PROVE  [root EXCEPT !.status = leafCache[rootCache.node].status,
                            !.labels = rootCache.labels, !.mark = rootCache.mark] \in KnownRoot
    <3>1. /\ rootCache.node \in Leafs /\ rootCache.labels \in 0..MaxEdit
          /\ rootCache.mark \in {"plain", "kosmos"}
      BY <1>1, <2>1, StatusValues DEF SyncApplies
    <3>2. leafCache[rootCache.node].status \in Status
      BY <1>2, <2>1, <3>1, StatusValues DEF SyncApplies, IsKosmosPod
    <3> QED BY <1>1, <2>1, <3>1, <3>2, RootEdited
  <2>2. RootSide'
    BY <1>4, <2>1, RootWritten, RootUnchanged DEF SyncReconcile
  <2>3. LeafSide' /\ JobSide' /\ HistSide'
    BY <1>4, LeafUnchanged, JobUnchanged, HistUnchanged DEF SyncReconcile
  <2>4. CtrlSide'
    BY <1>4 DEF SyncReconcile, IInv, CtrlSide
  <2> QED BY <2>2, <2>3, <2>4 DEF IInv
<1>5. CASE SyncFails
  <2>1. RootSide' /\ LeafSide' /\ JobSide'
    BY <1>5, RootUnchanged, LeafUnchanged, JobUnchanged DEF SyncFails
  <2>2. HistSide'
    BY <1>5, HistSpent DEF SyncFails, Disturbances
  <2>3. CtrlSide'
    BY <1>5 DEF SyncFails, IInv, CtrlSide
  <2> QED BY <2>1, <2>2, <2>3 DEF IInv
<1> QED BY <1>3, <1>4, <1>5

-----------------------------------------------------------------------------
(* Informers, leaf managers and restarts. *)

LEMMA DeliverySteps ==
  ASSUME IInv, NEW c \in Leafs, DeliverRoot \/ DeliverLeaf(c) \/ Resync
  PROVE  IInv'
<1>1. CASE DeliverRoot
  <2>1. Head(rootWatch) \in KnownRoot /\ Tail(rootWatch) \in Seq(KnownRoot)
    BY <1>1 DEF DeliverRoot, IInv, RootSide
  <2>2. RootSide'
    BY <1>1, <2>1, SameHistory DEF DeliverRoot, IInv, RootSide
  <2>3. LeafSide' /\ JobSide' /\ HistSide'
    BY <1>1, LeafUnchanged, JobUnchanged, HistUnchanged DEF DeliverRoot
  <2>4. CtrlSide'
    BY <1>1 DEF DeliverRoot, RootEvents, IInv, CtrlSide, Controllers
  <2> QED BY <2>2, <2>3, <2>4 DEF IInv
<1>2. CASE DeliverLeaf(c)
  <2>1. Head(leafWatch[c]) \in CopiesIn(c) /\ Tail(leafWatch[c]) \in Seq(CopiesIn(c))
    BY <1>2 DEF DeliverLeaf, IInv, LeafSide
  <2>2. ASSUME NEW d \in Leafs
        PROVE  leafCache'[d] \in CopiesIn(d) /\ leafWatch'[d] \in Seq(CopiesIn(d))
    <3>1. CASE d = c
      BY <1>2, <2>1, <3>1 DEF DeliverLeaf, IInv, LeafSide
    <3>2. CASE d # c
      BY <1>2, <3>2 DEF DeliverLeaf, IInv, LeafSide
    <3> QED BY <3>1, <3>2
  <2>3. LeafSide'
    BY <1>2, <2>2, SameHistory DEF DeliverLeaf, IInv, LeafSide
  <2>4. RootSide' /\ JobSide' /\ HistSide'
    BY <1>2, RootUnchanged, JobUnchanged, HistUnchanged DEF DeliverLeaf
  <2>5. CtrlSide'
    BY <1>2 DEF DeliverLeaf, IInv, CtrlSide, Controllers
  <2> QED BY <2>3, <2>4, <2>5 DEF IInv
<1>3. CASE Resync
  <2>1. RootSide' /\ LeafSide' /\ JobSide' /\ HistSide'
    BY <1>3, RootUnchanged, LeafUnchanged, JobUnchanged, HistUnchanged DEF Resync
  <2>2. CtrlSide'
    BY <1>3 DEF Resync, IInv, CtrlSide, Controllers
  <2> QED BY <2>1, <2>2 DEF IInv
<1> QED BY <1>1, <1>2, <1>3

LEMMA ManagerSteps ==
  ASSUME IInv, NEW c \in Leafs, StopLeaf(c) \/ StartLeaf(c) \/ Restart
  PROVE  IInv'
<1>1. \A d \in Leafs : NoPod \in CopiesIn(d) /\ <<>> \in Seq(CopiesIn(d))
  BY DEF CopiesIn
<1>2. CASE StopLeaf(c)
  <2>1. RootSide' /\ JobSide'
    BY <1>2, RootUnchanged, JobUnchanged DEF StopLeaf
  <2>2. HistSide'
    BY <1>2, HistSpent DEF StopLeaf, Disturbances
  <2>3. CtrlSide'
    BY <1>2 DEF StopLeaf, IInv, CtrlSide
  <2>4. LeafSide'
    BY <1>1, <1>2, SameHistory DEF StopLeaf, IInv, LeafSide
  <2> QED BY <2>1, <2>2, <2>3, <2>4 DEF IInv
<1>3. CASE StartLeaf(c)
  <2>1. RootSide' /\ JobSide' /\ HistSide'
    BY <1>3, RootUnchanged, JobUnchanged, HistUnchanged DEF StartLeaf
  <2>2. CtrlSide'
    BY <1>3 DEF StartLeaf, IInv, CtrlSide, Controllers
  <2>3. LeafSide'
    BY <1>3, SameHistory DEF StartLeaf, IInv, LeafSide
  <2> QED BY <2>1, <2>2, <2>3 DEF IInv
<1>4. CASE Restart
  <2>1. <<>> \in Seq(KnownRoot)
    OBVIOUS
  <2>2. RootSide'
    BY <1>4, <2>1, SameHistory DEF Restart, IInv, RootSide
  <2>3. LeafSide'
    BY <1>1, <1>4, SameHistory DEF Restart, IInv, LeafSide
  <2>4. JobSide'
    BY <1>4, JobIdle DEF Restart
  <2>5. HistSide'
    BY <1>4, HistSpent DEF Restart, Disturbances
  <2>6. CtrlSide'
    BY <1>4 DEF Restart, CtrlSide, Controllers
  <2> QED BY <2>2, <2>3, <2>4, <2>5, <2>6 DEF IInv
<1> QED BY <1>2, <1>3, <1>4

-----------------------------------------------------------------------------
(* Users, kubelets and other controllers. *)

(* A new incarnation adds to what is known and keeps what was. *)
LEMMA HistoryGrows ==
  ASSUME IInv, lastUid < MaxUid, NEW c \in Leafs,
         lastUid' = lastUid + 1, home' = [home EXCEPT ![lastUid + 1] = c]
  PROVE  /\ KnownRoot \subseteq KnownRoot'
         /\ \A d \in Leafs : CopiesIn(d) \subseteq CopiesIn(d)'
<1>1. lastUid \in Nat /\ MaxUid \in Nat /\ lastUid + 1 \in 1..MaxUid
  BY BoundsAssumption DEF IInv, HistSide
<1>2. \A u \in 1..MaxUid : u <= lastUid => u <= lastUid' /\ home'[u] = home[u]
  BY <1>1 DEF IInv, HistSide
<1>3. KnownRoot \subseteq KnownRoot'
  BY <1>2 DEF KnownRoot, RootPod
<1>4. ASSUME NEW d \in Leafs, NEW p \in CopiesIn(d) PROVE p \in CopiesIn(d)'
  <2>1. CASE p = NoPod \/ (p \in LeafPod /\ p.owner = 0)
    BY <2>1 DEF CopiesIn
  <2>2. CASE p \in LeafPod /\ p.owner # 0 /\ p.owner <= lastUid /\ home[p.owner] = d
    <3>1. p.owner \in 1..MaxUid
      BY <2>2, <1>1 DEF LeafPod
    <3> QED BY <1>2, <2>2, <3>1 DEF CopiesIn
  <2> QED BY <2>1, <2>2 DEF CopiesIn
<1> QED BY <1>3, <1>4

LEMMA CreateRootStep ==
  ASSUME IInv, NEW c \in Leafs, CreateRootPod(c)
  PROVE  IInv'
<1> DEFINE p == [uid |-> lastUid + 1, node |-> c, term |-> "no", image |-> 0,
                 labels |-> 0, mark |-> "plain", status |-> Pending]
<1>1. lastUid \in Nat /\ lastUid + 1 \in 1..MaxUid /\ 0 \in 0..MaxEdit
  BY BoundsAssumption DEF IInv, HistSide, CreateRootPod
<1>2. /\ lastUid' = lastUid + 1 /\ home' = [home EXCEPT ![lastUid + 1] = c]
      /\ lastUid < MaxUid /\ Spend("create") /\ WriteRoot(p) /\ UNCHANGED <<leafVars, ctrlVars>>
  BY DEF CreateRootPod
<1>3. KnownRoot \subseteq KnownRoot' /\ \A d \in Leafs : CopiesIn(d) \subseteq CopiesIn(d)'
  BY <1>2, HistoryGrows
<1>4. HistSide'
  BY <1>1, <1>2, Spent DEF IInv, HistSide, Disturbances
<1>5. p \in RootPod /\ p.uid = lastUid' /\ p.node = c
  BY <1>1, <1>2, StatusValues DEF RootPod
<1>6. home'[lastUid + 1] = c
  BY <1>1, <1>2 DEF IInv, HistSide
<1>7. p \in KnownRoot'
  BY <1>1, <1>2, <1>5, <1>6 DEF KnownRoot
<1> HIDE DEF p
<1>8. RootSide'
  <2>1. rootWatch \in Seq(KnownRoot')
    BY <1>3, SeqSubset DEF IInv, RootSide
  <2>2. Append(rootWatch, p) \in Seq(KnownRoot')
    BY <1>7, <2>1
  <2> QED BY <1>2, <1>3, <1>7, <2>1, <2>2 DEF WriteRoot, IInv, RootSide
<1>9. LeafSide'
  <2>1. \A d \in Leafs : leafWatch[d] \in Seq(CopiesIn(d)')
    BY <1>3, SeqSubset DEF IInv, LeafSide
  <2> QED BY <1>2, <1>3, <2>1 DEF leafVars, IInv, LeafSide
<1>10. JobSide'
  BY <1>2, <1>3 DEF ctrlVars, IInv, JobSide
<1>11. CtrlSide'
  BY <1>2, CtrlUnchanged DEF ctrlVars
<1> QED BY <1>4, <1>8, <1>9, <1>10, <1>11 DEF IInv

LEMMA RootUserSteps ==
  ASSUME IInv, DeleteRootPod \/ ForceDeleteRootPod \/ EditRootPod \/ OtherWritesStatus
  PROVE  IInv'
<1>1. UNCHANGED <<leafVars, ctrlVars, home, lastUid>> /\ root # NoPod
  BY DEF DeleteRootPod, ForceDeleteRootPod, EditRootPod, OtherWritesStatus
<1>2. LeafSide' /\ JobSide' /\ CtrlSide'
  BY <1>1, LeafUnchanged, JobUnchanged, CtrlUnchanged DEF ctrlVars
<1>3. HistSide'
  BY <1>1, HistUnchanged, HistSpent
     DEF DeleteRootPod, ForceDeleteRootPod, EditRootPod, OtherWritesStatus, Disturbances
<1>4. root \in KnownRoot /\ NoPod \in KnownRoot
  BY DEF IInv, RootSide, KnownRoot
<1>5. ASSUME DeleteRootPod PROVE RootSide'
  BY <1>1, <1>4, <1>5, RootEdited, RootWritten DEF DeleteRootPod
<1>6. ASSUME ForceDeleteRootPod PROVE RootSide'
  BY <1>1, <1>4, <1>6, RootWritten DEF ForceDeleteRootPod
<1>7. ASSUME EditRootPod PROVE RootSide'
  <2>1. root.image \in 0..MaxEdit /\ root.labels \in 0..MaxEdit
    BY <1>1, <1>4, StatusValues
  <2>2. root.image < MaxEdit => root.image + 1 \in 0..MaxEdit
    BY <2>1, BoundsAssumption
  <2>3. root.labels < MaxEdit => root.labels + 1 \in 0..MaxEdit
    BY <2>1, BoundsAssumption
  <2>4. root.image < MaxEdit => [root EXCEPT !.image = @ + 1] \in KnownRoot
    BY <1>1, <1>4, <2>2, RootEdited
  <2>5. root.labels < MaxEdit => [root EXCEPT !.labels = @ + 1] \in KnownRoot
    BY <1>1, <1>4, <2>3, RootEdited
  <2> QED BY <1>1, <1>7, <2>4, <2>5, RootWritten DEF EditRootPod
<1>8. ASSUME OtherWritesStatus PROVE RootSide'
  BY <1>1, <1>4, <1>8, StatusValues, RootEdited, RootWritten DEF OtherWritesStatus
<1> QED BY <1>2, <1>3, <1>5, <1>6, <1>7, <1>8 DEF IInv

LEMMA LeafUserSteps ==
  ASSUME IInv, NEW c \in Leafs,
         KubeletReports(c) \/ KubeletRemoves(c) \/ Evict(c) \/ CreateForeignPod(c)
  PROVE  IInv'
<1>1. UNCHANGED <<rootVars, ctrlVars, home, lastUid>>
  BY DEF KubeletReports, KubeletRemoves, Evict, CreateForeignPod
<1>2. RootSide' /\ JobSide' /\ CtrlSide'
  BY <1>1, RootUnchanged, JobUnchanged, CtrlUnchanged DEF ctrlVars
<1>3. HistSide'
  BY <1>1, HistUnchanged, HistSpent
     DEF KubeletReports, KubeletRemoves, Evict, CreateForeignPod, Disturbances
<1>4. leaf[c] \in CopiesIn(c) /\ NoPod \in CopiesIn(c)
  BY DEF IInv, LeafSide, CopiesIn
<1>5. ASSUME KubeletReports(c) PROVE LeafSide'
  <2> DEFINE s == [src |-> leaf[c].owner, n |-> leaf[c].status.n + 1]
  <2>1. leaf[c] \in LeafPod /\ leaf[c] # NoPod
    BY <1>4, <1>5 DEF KubeletReports, IsKosmosPod, CopiesIn
  <2>2. leaf[c].owner \in 0..MaxUid /\ leaf[c].status.n + 1 \in Nat
    BY <1>5, <2>1, BoundsAssumption DEF KubeletReports, LeafPod, Status
  <2>3. s \in Status
    BY <2>2 DEF Status
  <2>4. WriteLeaf(c, [leaf[c] EXCEPT !.status = s])
    BY <1>5 DEF KubeletReports
  <2> HIDE DEF s
  <2> QED BY <1>1, <1>4, <2>1, <2>3, <2>4, LeafEdited, LeafWritten
<1>6. ASSUME KubeletRemoves(c) PROVE LeafSide'
  BY <1>1, <1>4, <1>6, LeafWritten DEF KubeletRemoves
<1>7. ASSUME Evict(c) PROVE LeafSide'
  BY <1>1, <1>7, LeafDeleted DEF Evict
<1>8. ASSUME CreateForeignPod(c) PROVE LeafSide'
  <2> DEFINE p == [owner |-> 0, term |-> "no", image |-> 0, labels |-> 0, status |-> Pending]
  <2>1. p \in LeafPod /\ p.owner = 0
    BY BoundsAssumption, StatusValues DEF LeafPod
  <2>2. p \in CopiesIn(c)
    BY <2>1 DEF CopiesIn
  <2>3. WriteLeaf(c, p)
    BY <1>8 DEF CreateForeignPod
  <2> HIDE DEF p
  <2> QED BY <1>1, <2>2, <2>3, LeafWritten
<1> QED BY <1>2, <1>3, <1>5, <1>6, <1>7, <1>8 DEF IInv

-----------------------------------------------------------------------------
LEMMA Stutter ==
  ASSUME IInv, UNCHANGED vars
  PROVE  IInv'
BY RootUnchanged, LeafUnchanged, JobUnchanged, CtrlUnchanged, HistUnchanged
   DEF vars, ctrlVars, IInv

(* Every step preserves the inductive invariant. *)
LEMMA StepIInv == IInv /\ [Next]_vars => IInv'
<1> SUFFICES ASSUME IInv, [Next]_vars PROVE IInv'
  OBVIOUS
<1>0. PICK d \in Leafs : TRUE
  BY LeafsAssumption
<1>1. CASE RootReconcile
  BY <1>0, <1>1, PurgeSteps, DeleteStep, CreateSteps, UpdateStep DEF RootReconcile
<1>2. CASE SyncReconcile \/ SyncFails \/ \E c \in Leafs : LeafReconcile(c)
  BY <1>0, <1>2, StatusSteps
<1>3. CASE DeliverRoot \/ Resync \/ \E c \in Leafs : DeliverLeaf(c)
  BY <1>0, <1>3, DeliverySteps
<1>4. CASE Restart \/ \E c \in Leafs : StopLeaf(c) \/ StartLeaf(c)
  BY <1>0, <1>4, ManagerSteps
<1>5. CASE DeleteRootPod \/ ForceDeleteRootPod \/ EditRootPod \/ OtherWritesStatus
  BY <1>5, RootUserSteps
<1>6. ASSUME NEW c \in Leafs,
             CreateRootPod(c) \/ KubeletReports(c) \/ KubeletRemoves(c) \/ Evict(c) \/ CreateForeignPod(c)
      PROVE  IInv'
  BY <1>6, CreateRootStep, LeafUserSteps
<1>7. CASE UNCHANGED vars
  BY <1>7, Stutter
<1> QED BY <1>1, <1>2, <1>3, <1>4, <1>5, <1>6, <1>7 DEF Next, Kosmos, Environment

(* TypeOK: whatever the informers still show, whatever fails, stops or     *)
(* restarts, every variable of PodSync keeps its type, and a creation in   *)
(* progress always has a pod to create.                                    *)
THEOREM Typing == Spec => []TypeOK
BY InitIInv, StepIInv, IInvType, PTL DEF Spec

(* OneHome, for any number of leaf clusters, incarnations and              *)
(* disturbances: the reconcilers never put a copy of a root pod anywhere   *)
(* but in the cluster of the node that incarnation was bound to.           *)
THEOREM OneHomeAlways == Spec => []OneHome
BY InitIInv, StepIInv, IInvHome, PTL DEF Spec

-----------------------------------------------------------------------------
(* The second half of the argument: an informer that has nothing left to   *)
(* deliver shows the leaf cluster as it is, and one that has ends there.   *)
CaughtUp(c) ==
  IF leafWatch[c] = <<>> THEN leafCache[c] = leaf[c]
                         ELSE leafWatch[c][Len(leafWatch[c])] = leaf[c]

Fresh == \A c \in Leafs : IF c \in managed THEN CaughtUp(c) ELSE leafWatch[c] = <<>>

LEMMA InitFresh == Init => Fresh
BY DEF Init, Fresh, CaughtUp

LEMMA FreshUnchanged ==
  ASSUME Fresh, UNCHANGED <<leafVars, managed>>
  PROVE  Fresh'
BY DEF Fresh, CaughtUp, leafVars

LEMMA FreshWritten ==
  ASSUME IInv, Fresh, NEW c \in Leafs, NEW p, WriteLeaf(c, p), UNCHANGED managed
  PROVE  Fresh'
<1> SUFFICES ASSUME NEW d \in Leafs
             PROVE  IF d \in managed THEN CaughtUp(d)' ELSE leafWatch'[d] = <<>>
  BY DEF Fresh
<1>1. CASE d # c
  BY <1>1 DEF IInv, LeafSide, WriteLeaf, Fresh, CaughtUp
<1>2. CASE d = c
  <2>1. leafWatch[c] \in Seq(CopiesIn(c))
    BY DEF IInv, LeafSide
  <2>2. leaf'[c] = p
    BY DEF IInv, LeafSide, WriteLeaf
  <2>3. CASE c \in managed
    <3>1. leafWatch'[c] = Append(leafWatch[c], p)
      BY <2>3 DEF IInv, LeafSide, WriteLeaf
    <3>2. leafWatch'[c] # <<>> /\ leafWatch'[c][Len(leafWatch'[c])] = p
      BY <2>1, <3>1
    <3> QED BY <1>2, <2>2, <2>3, <3>2 DEF CaughtUp
  <2>4. CASE c \notin managed
    BY <1>2, <2>4 DEF IInv, LeafSide, WriteLeaf, Fresh
  <2> QED BY <2>3, <2>4
<1> QED BY <1>1, <1>2

LEMMA FreshDeleted ==
  ASSUME IInv, Fresh, NEW c \in Leafs, DeleteLeaf(c), UNCHANGED managed
  PROVE  Fresh'
BY FreshWritten, FreshUnchanged DEF DeleteLeaf

LEMMA FreshDelivered ==
  ASSUME IInv, Fresh, NEW c \in Leafs, DeliverLeaf(c)
  PROVE  Fresh'
<1> SUFFICES ASSUME NEW d \in Leafs
             PROVE  IF d \in managed THEN CaughtUp(d)' ELSE leafWatch'[d] = <<>>
  BY DEF Fresh, DeliverLeaf
<1>1. CASE d # c
  BY <1>1 DEF IInv, LeafSide, DeliverLeaf, Fresh, CaughtUp
<1>2. CASE d = c
  <2> DEFINE q == leafWatch[c]
  <2>1. q \in Seq(CopiesIn(c)) /\ q # <<>> /\ c \in managed
    BY DEF IInv, LeafSide, DeliverLeaf
  <2>2. q[Len(q)] = leaf[c]
    BY <2>1 DEF Fresh, CaughtUp
  <2>3. leafWatch'[c] = Tail(q) /\ leafCache'[c] = Head(q) /\ leaf'[c] = leaf[c]
    BY DEF IInv, LeafSide, DeliverLeaf
  <2> HIDE DEF q
  <2>4. CASE Tail(q) = <<>>
    <3>0. Len(Tail(q)) = Len(q) - 1 /\ Head(q) = q[1] /\ Len(q) \in Nat
      BY <2>1
    <3>1. Len(Tail(q)) = 0
      <4>1. Len(<<>>) = 0
        OBVIOUS
      <4> QED BY <2>4, <4>1, Zenon
    <3>2. Len(q) = 1
      BY <3>0, <3>1
    <3> QED BY <1>2, <2>1, <2>2, <2>3, <2>4, <3>0, <3>2 DEF CaughtUp
  <2>5. CASE Tail(q) # <<>>
    <3>1. Tail(q)[Len(Tail(q))] = q[Len(q)]
      BY <2>1, <2>5
    <3> QED BY <1>2, <2>1, <2>2, <2>3, <2>5, <3>1 DEF CaughtUp
  <2> QED BY <2>4, <2>5
<1> QED BY <1>1, <1>2

LEMMA FreshManagers ==
  ASSUME IInv, Fresh, NEW c \in Leafs, StopLeaf(c) \/ StartLeaf(c) \/ Restart
  PROVE  Fresh'
<1>1. CASE StopLeaf(c)
  BY <1>1 DEF IInv, LeafSide, StopLeaf, Fresh, CaughtUp
<1>2. CASE StartLeaf(c)
  BY <1>2 DEF IInv, LeafSide, StartLeaf, Fresh, CaughtUp
<1>3. CASE Restart
  BY <1>3 DEF Restart, Fresh
<1> QED BY <1>1, <1>2, <1>3

(* Every step keeps the informers on the way to the present. *)
LEMMA StepFresh ==
  ASSUME IInv, Fresh, [Next]_vars
  PROVE  Fresh'
<1>0. PICK d \in Leafs : TRUE
  BY LeafsAssumption
<1>1. CASE RootPurgeStart \/ RootPurgeEnd \/ RootCreateStart \/ RootCreateFails
           \/ \E c \in Leafs : RootPurgeFails(c)
  BY <1>1, FreshUnchanged
     DEF RootPurgeStart, RootPurgeEnd, RootCreateStart, RootCreateFails, RootPurgeFails
<1>2. ASSUME NEW c \in Leafs, RootPurge(c) PROVE Fresh'
  BY <1>2, FreshDeleted, FreshUnchanged DEF RootPurge
<1>3. CASE RootDelete
  <2>1. rootCache.node \in Leafs
    BY <1>3, StatusValues DEF RootDelete, IInv, RootSide
  <2> QED BY <1>3, <2>1, FreshDeleted, FreshUnchanged DEF RootDelete
<1>4. CASE RootCreate
  <2>1. job.pod.node \in Leafs
    BY <1>4, StatusValues DEF RootCreate, IInv, JobSide
  <2> QED BY <1>4, <2>1, FreshWritten DEF RootCreate
<1>5. CASE RootUpdate
  <2>1. rootCache.node \in Leafs
    BY <1>5, StatusValues DEF RootUpdate, RootLive, IInv, RootSide
  <2>2. UNCHANGED leafVars \/ \E p : WriteLeaf(rootCache.node, p)
    BY <1>5 DEF RootUpdate
  <2>3. UNCHANGED managed
    BY <1>5 DEF RootUpdate
  <2> QED BY <2>1, <2>2, <2>3, FreshWritten, FreshUnchanged
<1>6. CASE SyncReconcile \/ SyncFails \/ \E c \in Leafs : LeafReconcile(c)
  BY <1>6, FreshUnchanged DEF SyncReconcile, SyncFails, LeafReconcile
<1>7. CASE DeliverRoot \/ Resync
  BY <1>7, FreshUnchanged DEF DeliverRoot, Resync
<1>8. ASSUME NEW c \in Leafs, DeliverLeaf(c) PROVE Fresh'
  BY <1>8, FreshDelivered
<1>9. CASE Restart \/ \E c \in Leafs : StopLeaf(c) \/ StartLeaf(c)
  BY <1>0, <1>9, FreshManagers
<1>10. CASE DeleteRootPod \/ ForceDeleteRootPod \/ EditRootPod \/ OtherWritesStatus
            \/ \E c \in Leafs : CreateRootPod(c)
  BY <1>10, FreshUnchanged
     DEF DeleteRootPod, ForceDeleteRootPod, EditRootPod, OtherWritesStatus, CreateRootPod, ctrlVars
<1>11. ASSUME NEW c \in Leafs,
              KubeletReports(c) \/ KubeletRemoves(c) \/ Evict(c) \/ CreateForeignPod(c)
       PROVE  Fresh'
  BY <1>11, FreshWritten, FreshDeleted
     DEF KubeletReports, KubeletRemoves, Evict, CreateForeignPod, ctrlVars
<1>12. CASE UNCHANGED vars
  BY <1>12, FreshUnchanged DEF vars, ctrlVars
<1> QED BY <1>1, <1>2, <1>3, <1>4, <1>5, <1>6, <1>7, <1>8, <1>9, <1>10, <1>11, <1>12
        DEF Next, Kosmos, RootReconcile, Environment

(* What ForeignNeverOverwritten says of one step. *)
SparesForeign ==
  \A c \in Leafs :
    leaf[c] # NoPod /\ ~IsKosmosPod(leaf[c]) /\ leaf'[c] # NoPod =>
      leaf'[c].owner = 0 /\ leaf'[c].image = leaf[c].image /\ leaf'[c].labels = leaf[c].labels

LEMMA SparedUnchanged ==
  ASSUME IInv, UNCHANGED leaf
  PROVE  SparesForeign
BY DEF SparesForeign, IsKosmosPod

(* A write spares the pods of others when it meets a free name, a pod of   *)
(* Kosmos, or only marks or removes the pod.                               *)
LEMMA SparedWritten ==
  ASSUME IInv, NEW c \in Leafs, NEW p, WriteLeaf(c, p),
         \/ leaf[c] = NoPod \/ IsKosmosPod(leaf[c]) \/ p = NoPod
         \/ p = [leaf[c] EXCEPT !.term = "yes"]
  PROVE  SparesForeign
<1> SUFFICES ASSUME NEW d \in Leafs, leaf[d] # NoPod, ~IsKosmosPod(leaf[d]), leaf'[d] # NoPod
             PROVE  /\ leaf'[d].owner = 0 /\ leaf'[d].image = leaf[d].image
                    /\ leaf'[d].labels = leaf[d].labels
  BY DEF SparesForeign
<1>1. CASE d # c
  BY <1>1 DEF IInv, LeafSide, WriteLeaf, IsKosmosPod
<1>2. CASE d = c
  <2>1. leaf'[c] = p
    BY DEF IInv, LeafSide, WriteLeaf
  <2>2. p = [leaf[c] EXCEPT !.term = "yes"]
    BY <1>2, <2>1
  <2>3. leaf[c] \in LeafPod
    BY <1>2 DEF IInv, LeafSide, CopiesIn
  <2> QED BY <1>2, <2>1, <2>2, <2>3 DEF IsKosmosPod, LeafPod
<1> QED BY <1>1, <1>2

LEMMA SparedDeleted ==
  ASSUME IInv, NEW c \in Leafs, DeleteLeaf(c)
  PROVE  SparesForeign
BY SparedWritten, SparedUnchanged DEF DeleteLeaf, leafVars

LEMMA StepSpares ==
  ASSUME IInv, Fresh, [Next]_vars
  PROVE  SparesForeign
<1>1. ASSUME UNCHANGED leaf PROVE SparesForeign
  BY <1>1, SparedUnchanged
<1>2. ASSUME NEW c \in Leafs, RootPurge(c) PROVE SparesForeign
  BY <1>1, <1>2, SparedDeleted DEF RootPurge, leafVars
<1>3. CASE RootDelete
  <2>1. rootCache.node \in Leafs
    BY <1>3, StatusValues DEF RootDelete, IInv, RootSide
  <2> QED BY <1>1, <1>3, <2>1, SparedDeleted DEF RootDelete, leafVars
<1>4. CASE RootCreate
  <2>1. job.pod.node \in Leafs
    BY <1>4, StatusValues DEF RootCreate, IInv, JobSide
  <2> QED BY <1>4, <2>1, SparedWritten DEF RootCreate
(* The update is the one write that relies on what the cache shows. *)
<1>5. CASE RootUpdate
  <2> DEFINE c == rootCache.node
  <2>1. c \in Leafs
    BY <1>5, StatusValues DEF RootUpdate, RootLive, IInv, RootSide
  <2>2. \/ UNCHANGED leafVars
        \/ /\ IsKosmosPod(leafCache[c]) /\ c \in managed /\ leafWatch[c] = <<>>
           /\ \E p : WriteLeaf(c, p)
    BY <1>5 DEF RootUpdate, CanRead
  <2>3. c \in managed /\ leafWatch[c] = <<>> => leafCache[c] = leaf[c]
    BY <2>1 DEF Fresh, CaughtUp
  <2> HIDE DEF c
  <2> QED BY <1>1, <2>1, <2>2, <2>3, SparedWritten DEF leafVars
<1>6. ASSUME NEW c \in Leafs, KubeletReports(c) \/ KubeletRemoves(c) \/ CreateForeignPod(c)
      PROVE  SparesForeign
  BY <1>6, SparedWritten DEF KubeletReports, KubeletRemoves, CreateForeignPod
<1>7. ASSUME NEW c \in Leafs, Evict(c) PROVE SparesForeign
  BY <1>7, SparedDeleted DEF Evict
<1>8. CASE \/ RootPurgeStart \/ RootPurgeEnd \/ RootCreateStart \/ RootCreateFails
           \/ SyncReconcile \/ SyncFails \/ DeliverRoot \/ Resync \/ Restart
           \/ DeleteRootPod \/ ForceDeleteRootPod \/ EditRootPod \/ OtherWritesStatus
           \/ UNCHANGED vars
  BY <1>1, <1>8 DEF RootPurgeStart, RootPurgeEnd, RootCreateStart, RootCreateFails,
     SyncReconcile, SyncFails, DeliverRoot, Resync, Restart, DeleteRootPod,
     ForceDeleteRootPod, EditRootPod, OtherWritesStatus, vars, leafVars
<1>9. ASSUME NEW c \in Leafs,
             \/ RootPurgeFails(c) \/ LeafReconcile(c) \/ DeliverLeaf(c)
             \/ StopLeaf(c) \/ StartLeaf(c) \/ CreateRootPod(c)
      PROVE  SparesForeign
  BY <1>1, <1>9 DEF RootPurgeFails, LeafReconcile, DeliverLeaf, StopLeaf, StartLeaf,
     CreateRootPod, leafVars
<1> QED BY <1>2, <1>3, <1>4, <1>5, <1>6, <1>7, <1>8, <1>9
        DEF Next, Kosmos, RootReconcile, Environment

(* ForeignNeverOverwritten: neither the create nor the update of the root  *)
(* pod reconciler ever changes a pod that is not Kosmos's own, however far *)
(* its caches lag behind, for any number of clusters and disturbances.     *)
THEOREM ForeignSpared == Spec => ForeignNeverOverwritten
<1>1. IInv /\ Fresh /\ [Next]_vars => [SparesForeign]_vars
  BY StepSpares
<1>2. IInv /\ Fresh /\ [Next]_vars => IInv' /\ Fresh'
  BY StepIInv, StepFresh
<1>3. Init => IInv /\ Fresh
  BY InitIInv, InitFresh
<1>4. ForeignNeverOverwritten <=> [][SparesForeign]_vars
  BY PTL DEF ForeignNeverOverwritten, SparesForeign
<1> QED BY <1>1, <1>2, <1>3, <1>4, PTL DEF Spec

-----------------------------------------------------------------------------
(* The refinement of Placement.  A copy is started from the root pod as    *)
(* the reconciler read it, long before; no later incarnation has a copy by *)
(* then because the reconciler, its cache, the watch and the root cluster  *)
(* show the incarnations in the order they were created.                   *)
Later(p, q) == p = NoPod \/ q = NoPod \/ p.uid <= q.uid

(* No copy is of a later incarnation than root pod p. *)
NewestIs(p) == \A c \in Leafs : p # NoPod /\ leaf[c] # NoPod => leaf[c].owner <= p.uid

WatchOrder ==
  /\ \A i, j \in 1..Len(rootWatch) : i <= j => Later(rootWatch[i], rootWatch[j])
  /\ \A i \in 1..Len(rootWatch) : Later(rootCache, rootWatch[i]) /\ Later(rootWatch[i], root)
  /\ Later(rootCache, root)

JobOrder ==
  job.op = "create" =>
    /\ Later(job.pod, rootCache) /\ Later(job.pod, root)
    /\ \A i \in 1..Len(rootWatch) : Later(job.pod, rootWatch[i])
    /\ NewestIs(job.pod)

CopyOrder ==
  NewestIs(root) /\ NewestIs(rootCache) /\ \A i \in 1..Len(rootWatch) : NewestIs(rootWatch[i])

InOrder == WatchOrder /\ JobOrder /\ CopyOrder

LEMMA InitInOrder == Init => InOrder
BY DEF Init, InOrder, WatchOrder, JobOrder, CopyOrder, Later, NewestIs, Idle

LEMMA Uids ==
  ASSUME IInv
  PROVE  /\ lastUid \in Nat
         /\ \A p \in KnownRoot : p # NoPod => p.uid \in Nat /\ p.uid <= lastUid
         /\ \A c \in Leafs : leaf[c] # NoPod => leaf[c].owner \in Nat /\ leaf[c].owner <= lastUid
<1>1. lastUid \in Nat /\ MaxUid \in Nat
  BY BoundsAssumption DEF IInv, HistSide
<1>2. ASSUME NEW p \in KnownRoot, p # NoPod PROVE p.uid \in Nat /\ p.uid <= lastUid
  BY <1>1, <1>2 DEF KnownRoot, RootPod
<1>3. ASSUME NEW c \in Leafs, leaf[c] # NoPod PROVE leaf[c].owner \in Nat /\ leaf[c].owner <= lastUid
  <2>1. leaf[c] \in CopiesIn(c)
    BY DEF IInv, LeafSide
  <2> QED BY <1>1, <1>3, <2>1 DEF CopiesIn, LeafPod
<1> QED BY <1>1, <1>2, <1>3

LEMMA Watched ==
  ASSUME IInv, NEW i \in 1..Len(rootWatch)
  PROVE  rootWatch[i] \in KnownRoot
BY DEF IInv, RootSide

(* Nothing in the system is of a later incarnation than root pod p. *)
Above(p) ==
  /\ Later(root, p) /\ Later(rootCache, p) /\ NewestIs(p)
  /\ \A i \in 1..Len(rootWatch) : Later(rootWatch[i], p)
  /\ job.op = "create" => Later(job.pod, p)

LEMMA OrderRootWritten ==
  ASSUME IInv, InOrder, NEW p, WriteRoot(p), Above(p), p # NoPod => p.uid \in Nat,
         UNCHANGED <<leaf, job>>
  PROVE  InOrder'
<1>1. rootWatch \in Seq(KnownRoot)
  BY DEF IInv, RootSide
<1>2. root' = p /\ rootCache' = rootCache
  BY DEF WriteRoot
<1>3. CASE rootWatch' = rootWatch
  BY <1>2, <1>3 DEF InOrder, WatchOrder, JobOrder, CopyOrder, Above, NewestIs, Later
<1>4. CASE rootWatch' = Append(rootWatch, p)
  <2>1. /\ Len(rootWatch') = Len(rootWatch) + 1 /\ Len(rootWatch) \in Nat
        /\ \A i \in 1..Len(rootWatch) : rootWatch'[i] = rootWatch[i]
        /\ rootWatch'[Len(rootWatch) + 1] = p
    BY <1>1, <1>4
  <2>2. \A i \in 1..Len(rootWatch') : i \in 1..Len(rootWatch) \/ rootWatch'[i] = p
    BY <2>1
  <2>3. \A i \in 1..Len(rootWatch') : Later(rootWatch'[i], p)
    BY <2>1, <2>2 DEF Above, Later
  <2>4. WatchOrder'
    <3>1. ASSUME NEW i \in 1..Len(rootWatch'), NEW j \in 1..Len(rootWatch'), i <= j
          PROVE  Later(rootWatch'[i], rootWatch'[j])
      <4>1. CASE j \in 1..Len(rootWatch)
        BY <2>1, <3>1, <4>1 DEF InOrder, WatchOrder
      <4>2. CASE rootWatch'[j] = p
        BY <2>3, <4>2
      <4> QED BY <2>2, <4>1, <4>2
    <3>2. \A i \in 1..Len(rootWatch') : Later(rootCache, rootWatch'[i])
      BY <2>1, <2>2 DEF Above, InOrder, WatchOrder
    <3>3. Later(rootCache, p)
      BY DEF Above
    <3> QED BY <1>2, <2>3, <3>1, <3>2, <3>3 DEF WatchOrder, Later
  <2>5. JobOrder'
    BY <1>2, <2>1, <2>2 DEF JobOrder, InOrder, Above, NewestIs, Later
  <2>6. CopyOrder'
    BY <1>2, <2>1, <2>2 DEF CopyOrder, InOrder, Above, NewestIs
  <2> QED BY <2>4, <2>5, <2>6 DEF InOrder
<1> QED BY <1>3, <1>4 DEF WriteRoot

(* The root pod is changed, or goes. *)
LEMMA OrderRootEdited ==
  ASSUME IInv, InOrder, NEW p, WriteRoot(p), UNCHANGED <<leaf, job>>,
         p = NoPod \/ (root # NoPod /\ p.uid = root.uid)
  PROVE  InOrder'
<1>1. root # NoPod => root.uid \in Nat
  BY Uids DEF IInv, RootSide
<1>2. Above(p)
  BY <1>1 DEF Above, Later, NewestIs, InOrder, WatchOrder, JobOrder, CopyOrder
<1> QED BY <1>1, <1>2, OrderRootWritten

LEMMA OrderRootDeleted ==
  ASSUME IInv, InOrder, DeletePodInRootCluster, UNCHANGED <<leaf, job>>
  PROVE  InOrder'
<1>1. CASE WriteRoot(NoPod)
  BY <1>1, OrderRootEdited
<1>2. CASE UNCHANGED rootVars
  BY <1>2 DEF rootVars, InOrder, WatchOrder, JobOrder, CopyOrder, Later, NewestIs
<1> QED BY <1>1, <1>2 DEF DeletePodInRootCluster

(* What a step that starts no copy of a root pod does to the leaf pods. *)
KeepsOwners ==
  \A c \in Leafs : leaf'[c] # NoPod =>
    leaf'[c].owner = 0 \/ (leaf[c] # NoPod /\ leaf'[c].owner = leaf[c].owner)

LEMMA OrderKept ==
  ASSUME IInv, InOrder, UNCHANGED rootVars, job' = job \/ job'.op # "create", KeepsOwners
  PROVE  InOrder'
<1>1. ASSUME NEW p \in KnownRoot, NewestIs(p) PROVE NewestIs(p)'
  BY <1>1, Uids DEF NewestIs, KeepsOwners
<1>2. root \in KnownRoot /\ rootCache \in KnownRoot /\ job.pod \in KnownRoot
  BY DEF IInv, RootSide, JobSide
<1>3. CopyOrder'
  BY <1>1, <1>2, Watched DEF InOrder, CopyOrder, rootVars, NewestIs
<1>4. JobOrder'
  BY <1>1, <1>2 DEF InOrder, JobOrder, rootVars, Later, NewestIs
<1>5. WatchOrder'
  BY DEF InOrder, WatchOrder, rootVars, Later
<1> QED BY <1>3, <1>4, <1>5 DEF InOrder
LEMMA OwnersUnchanged ==
  ASSUME UNCHANGED leaf
  PROVE  KeepsOwners
BY DEF KeepsOwners

LEMMA OwnersWritten ==
  ASSUME IInv, NEW c \in Leafs, NEW p, WriteLeaf(c, p),
         p = NoPod \/ p.owner = 0 \/ (leaf[c] # NoPod /\ p.owner = leaf[c].owner)
  PROVE  KeepsOwners
BY DEF IInv, LeafSide, WriteLeaf, KeepsOwners

LEMMA OwnersDeleted ==
  ASSUME IInv, NEW c \in Leafs, leaf[c] # NoPod, DeleteLeaf(c)
  PROVE  KeepsOwners
<1>1. leaf[c] \in LeafPod
  BY DEF IInv, LeafSide, CopiesIn
<1>2. [leaf[c] EXCEPT !.term = "yes"].owner = leaf[c].owner
  BY <1>1 DEF LeafPod
<1> QED BY <1>2, OwnersWritten, OwnersUnchanged DEF DeleteLeaf, leafVars

(* What a step does that changes a leaf pod and leaves it there. *)
SamePods ==
  \A c \in Leafs : /\ leaf'[c] = NoPod <=> leaf[c] = NoPod
                   /\ leaf[c] # NoPod => leaf'[c].owner = leaf[c].owner

LEMMA WrittenInPlace ==
  ASSUME IInv, NEW c \in Leafs, leaf[c] # NoPod, NEW p \in LeafPod, p.owner = leaf[c].owner,
         WriteLeaf(c, p)
  PROVE  SamePods
BY NoPodAssumption DEF IInv, LeafSide, WriteLeaf, SamePods

(* The update writes the pod that is there: its cache was up to date.      *)
LEMMA UpdatedInPlace ==
  ASSUME IInv, Fresh, RootUpdate
  PROVE  SamePods
<1> DEFINE c == rootCache.node
           p == leafCache[c]
           q == [p EXCEPT !.image = rootCache.image, !.labels = rootCache.labels]
<1>1. c \in Leafs
  BY StatusValues DEF RootUpdate, RootLive, IInv, RootSide
<1>2. \/ UNCHANGED leafVars
      \/ p # NoPod /\ c \in managed /\ leafWatch[c] = <<>> /\ WriteLeaf(c, q)
  BY DEF RootUpdate, CanRead
<1>3. c \in managed /\ leafWatch[c] = <<>> => p = leaf[c]
  BY <1>1 DEF Fresh, CaughtUp
<1>4. p # NoPod => q \in LeafPod /\ q.owner = p.owner
  <2>1. p # NoPod => p \in LeafPod
    BY <1>1 DEF IInv, LeafSide, CopiesIn
  <2>2. rootCache.image \in 0..MaxEdit /\ rootCache.labels \in 0..MaxEdit
    BY StatusValues DEF RootUpdate, RootLive, IInv, RootSide
  <2> HIDE DEF p
  <2> QED BY <2>1, <2>2 DEF LeafPod
<1> HIDE DEF c, p, q
<1>5. CASE UNCHANGED leafVars
  BY <1>5 DEF leafVars, SamePods
<1>6. CASE p = leaf[c] /\ p # NoPod /\ WriteLeaf(c, q)
  BY <1>1, <1>4, <1>6, WrittenInPlace
<1> QED BY <1>2, <1>3, <1>5, <1>6

LEMMA ReportedInPlace ==
  ASSUME IInv, NEW c \in Leafs, KubeletReports(c)
  PROVE  SamePods
<1> DEFINE s == [src |-> leaf[c].owner, n |-> leaf[c].status.n + 1]
           p == [leaf[c] EXCEPT !.status = s]
<1>1. leaf[c] \in LeafPod /\ leaf[c] # NoPod
  BY DEF KubeletReports, IsKosmosPod, IInv, LeafSide, CopiesIn
<1>2. s \in Status
  BY <1>1 DEF LeafPod, Status
<1>3. WriteLeaf(c, p)
  BY DEF KubeletReports
<1> HIDE DEF s
<1>4. p \in LeafPod /\ p.owner = leaf[c].owner
  BY <1>1, <1>2 DEF LeafPod
<1> HIDE DEF p
<1> QED BY <1>1, <1>3, <1>4, WrittenInPlace

(* The copy that is started is of an incarnation no cache has gone past. *)
LEMMA OrderCreated ==
  ASSUME IInv, InOrder, RootCreate
  PROVE  InOrder'
<1> DEFINE n == job.pod.node
<1>1. /\ job.op = "create" /\ job.pod \in KnownRoot /\ job.pod # NoPod /\ n \in Leafs
      /\ job.pod.uid \in Nat
  BY StatusValues, Uids DEF RootCreate, IInv, JobSide
<1>2. /\ leaf' = [leaf EXCEPT ![n] = FitPod(job.pod)]
      /\ FitPod(job.pod).owner = job.pod.uid
      /\ UNCHANGED rootVars
      /\ job'.op = "idle"
  BY DEF RootCreate, WriteLeaf, FitPod, Idle
<1>3. ASSUME NEW p \in KnownRoot, NewestIs(p), Later(job.pod, p) PROVE NewestIs(p)'
  <2> SUFFICES ASSUME NEW c \in Leafs, p # NoPod, leaf'[c] # NoPod PROVE leaf'[c].owner <= p.uid
    BY DEF NewestIs
  <2>1. CASE c = n
    BY <1>1, <1>2, <1>3, <2>1 DEF Later, IInv, LeafSide
  <2>2. CASE c # n
    BY <1>1, <1>2, <1>3, <2>2 DEF NewestIs, IInv, LeafSide
  <2> QED BY <2>1, <2>2
<1>4. root \in KnownRoot /\ rootCache \in KnownRoot
  BY DEF IInv, RootSide
<1>5. CopyOrder'
  BY <1>1, <1>2, <1>3, <1>4, Watched DEF InOrder, CopyOrder, JobOrder, rootVars, NewestIs
<1>6. JobOrder' /\ WatchOrder'
  BY <1>2 DEF InOrder, JobOrder, WatchOrder, rootVars, Later
<1> QED BY <1>5, <1>6 DEF InOrder

LEMMA OrderDelivered ==
  ASSUME IInv, InOrder, DeliverRoot
  PROVE  InOrder'
<1>1. rootWatch \in Seq(KnownRoot) /\ rootWatch # <<>>
  BY DEF IInv, RootSide, DeliverRoot
<1>2. /\ rootCache' = rootWatch[1] /\ 1 \in 1..Len(rootWatch)
      /\ Len(rootWatch') = Len(rootWatch) - 1 /\ Len(rootWatch) \in Nat
      /\ \A i \in 1..Len(rootWatch') : rootWatch'[i] = rootWatch[i + 1] /\ i + 1 \in 1..Len(rootWatch)
  BY <1>1 DEF DeliverRoot
<1>3. UNCHANGED <<root, leaf, job>>
  BY DEF DeliverRoot, leafVars
<1>4. WatchOrder'
  BY <1>2, <1>3 DEF InOrder, WatchOrder, Later
<1>5. JobOrder'
  BY <1>2, <1>3 DEF InOrder, JobOrder, NewestIs, Later
<1>6. CopyOrder'
  BY <1>2, <1>3 DEF InOrder, CopyOrder, NewestIs
<1> QED BY <1>4, <1>5, <1>6 DEF InOrder

LEMMA OrderRestarted ==
  ASSUME IInv, InOrder, Restart
  PROVE  InOrder'
<1>1. root # NoPod => root.uid \in Nat
  BY Uids DEF IInv, RootSide
<1>2. rootCache' = root /\ root' = root /\ leaf' = leaf /\ rootWatch' = <<>> /\ job'.op = "idle"
  BY DEF Restart, Idle
<1> QED BY <1>1, <1>2 DEF InOrder, WatchOrder, JobOrder, CopyOrder, Later, NewestIs

(* A new incarnation is later than all before. *)
LEMMA OrderCreatedRoot ==
  ASSUME IInv, InOrder, NEW c \in Leafs, CreateRootPod(c)
  PROVE  InOrder'
<1> DEFINE p == [uid |-> lastUid + 1, node |-> c, term |-> "no", image |-> 0,
                 labels |-> 0, mark |-> "plain", status |-> Pending]
<1>1. p.uid = lastUid + 1 /\ lastUid \in Nat
  BY Uids
<1>2. WriteRoot(p) /\ UNCHANGED <<leaf, job>>
  BY DEF CreateRootPod, leafVars, ctrlVars
<1>3. root \in KnownRoot /\ rootCache \in KnownRoot /\ job.pod \in KnownRoot
  BY DEF IInv, RootSide, JobSide
<1> HIDE DEF p
<1>4. \A q \in KnownRoot : Later(q, p)
  BY <1>1, Uids DEF Later
<1>5. NewestIs(p)
  BY <1>1, Uids DEF NewestIs
<1>6. Above(p)
  BY <1>3, <1>4, <1>5, Watched DEF Above
<1> QED BY <1>1, <1>2, <1>6, OrderRootWritten
(* Every step but the start of a copy keeps the owners of the leaf pods. *)
LEMMA StepOwners ==
  ASSUME IInv, Fresh, [Next]_vars, ~RootCreate
  PROVE  KeepsOwners
<1>1. ASSUME UNCHANGED leaf PROVE KeepsOwners
  BY <1>1, OwnersUnchanged
<1>2. ASSUME NEW c \in Leafs, RootPurge(c) PROVE KeepsOwners
  BY <1>1, <1>2, OwnersDeleted DEF RootPurge, leafVars
<1>3. CASE RootDelete
  <2>1. rootCache.node \in Leafs
    BY <1>3, StatusValues DEF RootDelete, IInv, RootSide
  <2> QED BY <1>1, <1>3, <2>1, OwnersDeleted DEF RootDelete, leafVars
<1>4. CASE RootUpdate
  BY <1>4, UpdatedInPlace DEF SamePods, KeepsOwners
<1>5. ASSUME NEW c \in Leafs, KubeletReports(c) PROVE KeepsOwners
  BY <1>5, ReportedInPlace DEF SamePods, KeepsOwners
<1>6. ASSUME NEW c \in Leafs, KubeletRemoves(c) \/ CreateForeignPod(c) \/ Evict(c)
      PROVE  KeepsOwners
  BY <1>6, OwnersWritten, OwnersDeleted DEF KubeletRemoves, CreateForeignPod, Evict
<1>7. CASE \/ RootPurgeStart \/ RootPurgeEnd \/ RootCreateStart \/ RootCreateFails
           \/ SyncReconcile \/ SyncFails \/ DeliverRoot \/ Resync \/ Restart
           \/ DeleteRootPod \/ ForceDeleteRootPod \/ EditRootPod \/ OtherWritesStatus
           \/ UNCHANGED vars
  BY <1>1, <1>7 DEF RootPurgeStart, RootPurgeEnd, RootCreateStart, RootCreateFails,
     SyncReconcile, SyncFails, DeliverRoot, Resync, Restart, DeleteRootPod,
     ForceDeleteRootPod, EditRootPod, OtherWritesStatus, vars, leafVars
<1>8. ASSUME NEW c \in Leafs,
             \/ RootPurgeFails(c) \/ LeafReconcile(c) \/ DeliverLeaf(c)
             \/ StopLeaf(c) \/ StartLeaf(c) \/ CreateRootPod(c)
      PROVE  KeepsOwners
  BY <1>1, <1>8 DEF RootPurgeFails, LeafReconcile, DeliverLeaf, StopLeaf, StartLeaf,
     CreateRootPod, leafVars
<1> QED BY <1>2, <1>3, <1>4, <1>5, <1>6, <1>7, <1>8
        DEF Next, Kosmos, RootReconcile, Environment

(* The steps that write the root pod. *)
LEMMA OrderRootSteps ==
  ASSUME IInv, InOrder, NEW c \in Leafs,
         \/ LeafReconcile(c) \/ SyncReconcile
         \/ DeleteRootPod \/ ForceDeleteRootPod \/ EditRootPod \/ OtherWritesStatus
  PROVE  InOrder'
<1>1. UNCHANGED <<leaf, job>>
  BY DEF LeafReconcile, SyncReconcile, DeleteRootPod, ForceDeleteRootPod, EditRootPod,
     OtherWritesStatus, leafVars, ctrlVars
<1>2. root # NoPod => root \in RootPod
  BY DEF IInv, RootSide, KnownRoot
<1>3. root # NoPod =>
        /\ [root EXCEPT !.term = "yes"].uid = root.uid
        /\ [root EXCEPT !.image = @ + 1].uid = root.uid
        /\ [root EXCEPT !.labels = @ + 1].uid = root.uid
        /\ [root EXCEPT !.status = OtherStatus].uid = root.uid
  BY <1>2 DEF RootPod
<1>4. UNCHANGED rootVars => InOrder'
  BY <1>1, OrderKept, OwnersUnchanged
<1>5. CASE LeafReconcile(c)
  <2> DEFINE p == [root EXCEPT !.status = leafCache[c].status,
                               !.labels = leafCache[c].labels, !.mark = "kosmos"]
  <2>1. root # NoPod => p.uid = root.uid
    BY <1>2 DEF RootPod
  <2>2. UNCHANGED rootVars \/ DeletePodInRootCluster \/ (root # NoPod /\ WriteRoot(p))
    BY <1>5 DEF LeafReconcile
  <2> HIDE DEF p
  <2> QED BY <1>1, <1>4, <2>1, <2>2, OrderRootEdited, OrderRootDeleted
<1>6. CASE SyncReconcile
  <2> DEFINE p == [root EXCEPT !.status = leafCache[rootCache.node].status,
                               !.labels = rootCache.labels, !.mark = rootCache.mark]
  <2>1. root # NoPod => p.uid = root.uid
    BY <1>2 DEF RootPod
  <2>2. UNCHANGED rootVars \/ (root # NoPod /\ WriteRoot(p))
    BY <1>6 DEF SyncReconcile
  <2> HIDE DEF p
  <2> QED BY <1>1, <1>4, <2>1, <2>2, OrderRootEdited
<1>7. CASE DeleteRootPod
  BY <1>1, <1>3, <1>7, OrderRootEdited DEF DeleteRootPod
<1>8. CASE ForceDeleteRootPod
  BY <1>1, <1>8, OrderRootEdited DEF ForceDeleteRootPod
<1>9. CASE EditRootPod
  BY <1>1, <1>3, <1>9, OrderRootEdited DEF EditRootPod
<1>10. CASE OtherWritesStatus
  BY <1>1, <1>3, <1>10, OrderRootEdited DEF OtherWritesStatus
<1> QED BY <1>5, <1>6, <1>7, <1>8, <1>9, <1>10

(* The root pod that is about to be copied is the one the cache shows. *)
LEMMA OrderCreateStarted ==
  ASSUME IInv, InOrder, RootCreateStart
  PROVE  InOrder'
<1>1. rootCache # NoPod /\ rootCache.uid \in Nat
  BY Uids DEF RootCreateStart, RootLive, IInv, RootSide
<1>2. UNCHANGED <<root, rootWatch, rootCache, leaf>> /\ job'.pod = rootCache
  BY DEF RootCreateStart, rootVars, leafVars
<1> QED BY <1>1, <1>2 DEF InOrder, WatchOrder, JobOrder, CopyOrder, Later, NewestIs

LEMMA StepInOrder ==
  ASSUME IInv, Fresh, InOrder, [Next]_vars
  PROVE  InOrder'
<1>0. PICK d \in Leafs : TRUE
  BY LeafsAssumption
<1>1. CASE RootCreate
  BY <1>1, OrderCreated
<1>2. CASE RootDelete
  <2>1. CASE UNCHANGED leafVars /\ DeletePodInRootCluster
    <3>1. job' = job /\ leaf' = leaf
      BY <1>2, <2>1 DEF RootDelete, Take, Done, leafVars
    <3> QED BY <2>1, <3>1, OrderRootDeleted
  <2>2. CASE UNCHANGED rootVars
    <3>1. job' = job /\ KeepsOwners
      BY <1>2, StepOwners DEF RootDelete, Take, Done, RootCreate, Idle
    <3> QED BY <2>2, <3>1, OrderKept
  <2> QED BY <1>2, <2>1, <2>2 DEF RootDelete
<1>3. ASSUME ~RootCreate, UNCHANGED rootVars, job' = job \/ job'.op # "create" PROVE InOrder'
  BY <1>3, StepOwners, OrderKept
<1>4. CASE ~RootCreate /\ (RootPurgeStart \/ RootPurgeEnd \/ RootCreateFails \/ RootUpdate)
  BY <1>3, <1>4 DEF RootPurgeStart, RootPurgeEnd, RootCreateFails, RootUpdate, Done, Requeue, Idle
<1>5. ASSUME NEW c \in Leafs, RootPurge(c) \/ RootPurgeFails(c), ~RootCreate PROVE InOrder'
  <2>1. job'.op # "create" /\ UNCHANGED rootVars
    BY <1>5 DEF RootPurge, RootPurgeFails, Requeue, Idle, IInv, JobSide, Job
  <2> QED BY <1>3, <1>5, <2>1
<1>6. CASE RootCreateStart
  BY <1>6, OrderCreateStarted
<1>7. ASSUME NEW c \in Leafs,
             \/ LeafReconcile(c) \/ SyncReconcile
             \/ DeleteRootPod \/ ForceDeleteRootPod \/ EditRootPod \/ OtherWritesStatus
      PROVE  InOrder'
  BY <1>7, OrderRootSteps
<1>8. CASE DeliverRoot \/ Restart
  BY <1>8, OrderDelivered, OrderRestarted
<1>9. CASE ~RootCreate /\ (SyncFails \/ Resync \/ UNCHANGED vars)
  BY <1>3, <1>9 DEF SyncFails, Resync, vars, ctrlVars
<1>10. ASSUME NEW c \in Leafs, ~RootCreate,
              \/ DeliverLeaf(c) \/ StopLeaf(c) \/ StartLeaf(c)
              \/ KubeletReports(c) \/ KubeletRemoves(c) \/ Evict(c) \/ CreateForeignPod(c)
       PROVE  InOrder'
  BY <1>3, <1>10 DEF DeliverLeaf, StopLeaf, StartLeaf, KubeletReports, KubeletRemoves, Evict,
     CreateForeignPod, ctrlVars
<1>11. ASSUME NEW c \in Leafs, CreateRootPod(c) PROVE InOrder'
  BY <1>11, OrderCreatedRoot
<1> QED BY <1>0, <1>1, <1>2, <1>4, <1>5, <1>6, <1>7, <1>8, <1>9, <1>10, <1>11
        DEF Next, Kosmos, RootReconcile, Environment
-----------------------------------------------------------------------------
(* The steps, seen as steps of Placement. *)

LEMMA InitPlaced == Init => Placed!Init
<1> SUFFICES ASSUME Init PROVE Placed!Init
  OBVIOUS
<1>1. lastUid = 0 /\ leaf = [c \in Leafs |-> NoPod]
  BY DEF Init
<1>2. [u \in 1..lastUid |-> home[u]] = <<>>
  BY <1>1
<1>3. [c \in Leafs |-> IF leaf[c] = NoPod THEN -1 ELSE leaf[c].owner] = [c \in Leafs |-> -1]
  BY <1>1
<1> QED BY <1>2, <1>3 DEF Placed!Init, Placed!Empty

LEMMA BoundUnchanged ==
  ASSUME UNCHANGED <<home, lastUid>>
  PROVE  [u \in 1..lastUid' |-> home'[u]] = [u \in 1..lastUid |-> home[u]]
OBVIOUS

(* The same pods, whatever their labels, images and status. *)
LEMMA PlacedStutter ==
  ASSUME UNCHANGED <<home, lastUid>>, SamePods
  PROVE  UNCHANGED Placed!vars
<1>1. [c \in Leafs |-> IF leaf'[c] = NoPod THEN -1 ELSE leaf'[c].owner]
       = [c \in Leafs |-> IF leaf[c] = NoPod THEN -1 ELSE leaf[c].owner]
  BY DEF SamePods
<1> QED BY <1>1, BoundUnchanged DEF Placed!vars

LEMMA PlacedFree ==
  ASSUME IInv, NEW c \in Leafs, leaf[c] # NoPod, leaf' = [leaf EXCEPT ![c] = NoPod],
         UNCHANGED <<home, lastUid>>
  PROVE  Placed!Free(c)
<1> DEFINE slot == [d \in Leafs |-> IF leaf[d] = NoPod THEN -1 ELSE leaf[d].owner]
<1>1. leaf[c].owner \in Nat
  BY Uids
<1>2. slot[c] # -1
  BY <1>1
<1>3. [d \in Leafs |-> IF leaf'[d] = NoPod THEN -1 ELSE leaf'[d].owner] = [slot EXCEPT ![c] = -1]
  BY DEF IInv, LeafSide
<1> QED BY <1>2, <1>3, BoundUnchanged DEF Placed!Free, Placed!Empty
LEMMA PlacedDeleted ==
  ASSUME IInv, NEW c \in Leafs, leaf[c] # NoPod, DeleteLeaf(c), UNCHANGED <<home, lastUid>>
  PROVE  [Placed!Next]_(Placed!vars)
<1>1. CASE WriteLeaf(c, NoPod)
  BY <1>1, PlacedFree DEF WriteLeaf, Placed!Next
<1>2. CASE WriteLeaf(c, [leaf[c] EXCEPT !.term = "yes"])
  <2> DEFINE p == [leaf[c] EXCEPT !.term = "yes"]
  <2>1. leaf[c] \in LeafPod
    BY DEF IInv, LeafSide, CopiesIn
  <2>2. p \in LeafPod /\ p.owner = leaf[c].owner
    BY <2>1 DEF LeafPod
  <2>3. WriteLeaf(c, p)
    BY <1>2
  <2> HIDE DEF p
  <2> QED BY <2>2, <2>3, WrittenInPlace, PlacedStutter
<1>3. CASE UNCHANGED leafVars
  BY <1>3, PlacedStutter DEF leafVars, SamePods
<1> QED BY <1>1, <1>2, <1>3 DEF DeleteLeaf

LEMMA PlacedOccupy ==
  ASSUME IInv, NEW c \in Leafs, CreateForeignPod(c)
  PROVE  Placed!Occupy(c)
<1> DEFINE slot == [d \in Leafs |-> IF leaf[d] = NoPod THEN -1 ELSE leaf[d].owner]
           p == [owner |-> 0, term |-> "no", image |-> 0, labels |-> 0, status |-> Pending]
<1>1. p \in LeafPod /\ p.owner = 0
  BY BoundsAssumption, StatusValues DEF LeafPod
<1>2. p # NoPod
  BY <1>1, NoPodAssumption
<1>3. leaf[c] = NoPod /\ leaf' = [leaf EXCEPT ![c] = p] /\ UNCHANGED <<home, lastUid>>
  BY DEF CreateForeignPod, WriteLeaf
<1> HIDE DEF p
<1>4. slot[c] = -1
  BY <1>3
<1>5. [d \in Leafs |-> IF leaf'[d] = NoPod THEN -1 ELSE leaf'[d].owner] = [slot EXCEPT ![c] = 0]
  BY <1>1, <1>2, <1>3 DEF IInv, LeafSide
<1> QED BY <1>3, <1>4, <1>5, BoundUnchanged DEF Placed!Occupy, Placed!Empty, Placed!Own

(* The start of a copy, with the order of the incarnations. *)
LEMMA PlacedPlace ==
  ASSUME IInv, InOrder, RootCreate
  PROVE  Placed!Next
<1> DEFINE slot == [d \in Leafs |-> IF leaf[d] = NoPod THEN -1 ELSE leaf[d].owner]
           bound == [v \in 1..lastUid |-> home[v]]
           n == job.pod.node
           p == FitPod(job.pod)
<1>0. PICK u : u = job.pod.uid
  OBVIOUS
<1>1. job.op = "create" /\ job.pod \in KnownRoot /\ job.pod # NoPod
  BY DEF RootCreate, IInv, JobSide
<1>2. u \in 1..lastUid /\ home[u] = n /\ n \in Leafs
  BY <1>0, <1>1, Uids DEF KnownRoot, RootPod
<1>3. p \in LeafPod /\ p.owner = u
  <2>1. job.pod \in RootPod
    BY <1>1 DEF KnownRoot
  <2> QED BY <1>0, <2>1, StatusValues DEF FitPod, LeafPod, RootPod
<1>4. leaf[n] = NoPod /\ leaf' = [leaf EXCEPT ![n] = p] /\ UNCHANGED <<home, lastUid>>
  BY DEF RootCreate, WriteLeaf
<1>5. \A c \in Leafs : slot[c] <= u
  BY <1>0, <1>1, <1>2, Uids DEF InOrder, JobOrder, NewestIs
<1> HIDE DEF n, p
<1>6. bound[u] = n /\ slot[n] = -1
  BY <1>2, <1>4
<1>7. [d \in Leafs |-> IF leaf'[d] = NoPod THEN -1 ELSE leaf'[d].owner] = [slot EXCEPT ![n] = u]
  BY <1>2, <1>3, <1>4, NoPodAssumption DEF IInv, LeafSide
<1>8. Placed!Place(u)
  BY <1>4, <1>5, <1>6, <1>7, BoundUnchanged DEF Placed!Place, Placed!Empty
<1>9. u \in DOMAIN bound
  BY <1>2
<1> QED BY <1>8, <1>9, Zenon DEF Placed!Next

(* The start of an incarnation. *)
LEMMA PlacedBind ==
  ASSUME IInv, NEW c \in Leafs, CreateRootPod(c)
  PROVE  Placed!Bind(c)
<1> DEFINE bound == [v \in 1..lastUid |-> home[v]]
           bound1 == [v \in 1..lastUid' |-> home'[v]]
<1>1. /\ lastUid \in Nat /\ lastUid' = lastUid + 1 /\ lastUid + 1 \in 1..MaxUid
      /\ home' = [home EXCEPT ![lastUid + 1] = c]
      /\ home \in [1..MaxUid -> Leafs \union {NoPod}]
      /\ leaf' = leaf
  BY BoundsAssumption DEF CreateRootPod, IInv, HistSide, leafVars
<1>2. bound \in Seq(Leafs \union {NoPod}) /\ Len(bound) = lastUid
  <2>1. bound \in [1..lastUid -> Leafs \union {NoPod}]
    <3>1. \A v \in 1..lastUid : v \in 1..MaxUid
      BY <1>1, BoundsAssumption
    <3>2. \A v \in 1..lastUid : home[v] \in Leafs \union {NoPod}
      BY <1>1, <3>1
    <3> QED BY <3>2
  <2> QED BY <1>1, <2>1
<1>3. bound1 = Append(bound, c)
  <2>1. /\ Append(bound, c) \in Seq(Leafs \union {NoPod}) /\ Len(Append(bound, c)) = lastUid + 1
        /\ \A v \in 1..lastUid : Append(bound, c)[v] = bound[v]
        /\ Append(bound, c)[lastUid + 1] = c
    BY <1>1, <1>2
  <2>2. \A v \in 1..lastUid : bound[v] = home[v] /\ bound1[v] = home[v]
    BY <1>1
  <2>3. bound1[lastUid + 1] = c
    BY <1>1
  <2>4. DOMAIN Append(bound, c) = 1..(lastUid + 1) /\ DOMAIN bound1 = 1..(lastUid + 1)
    BY <1>1, <2>1
  <2>5. Append(bound, c) = [v \in 1..(lastUid + 1) |-> Append(bound, c)[v]]
    <3> DEFINE q == Append(bound, c)
    <3>1. q \in Seq(Leafs \union {NoPod}) /\ Len(q) = lastUid + 1
      BY <2>1
    <3> HIDE DEF q, bound
    <3>2. q \in [1..Len(q) -> Leafs \union {NoPod}]
      BY <3>1
    <3>3. q = [v \in 1..(lastUid + 1) |-> q[v]]
      BY <3>1, <3>2
    <3> QED BY <3>3 DEF q
  <2>6. bound1 = [v \in 1..(lastUid + 1) |-> bound1[v]]
    BY <1>1
  <2>7. \A v \in 1..(lastUid + 1) : bound1[v] = Append(bound, c)[v]
    <3> HIDE DEF bound, bound1
    <3> QED BY <1>1, <2>1, <2>2, <2>3
  <2> HIDE DEF bound, bound1
  <2> QED BY <2>5, <2>6, <2>7
<1>4. [d \in Leafs |-> IF leaf'[d] = NoPod THEN -1 ELSE leaf'[d].owner]
       = [d \in Leafs |-> IF leaf[d] = NoPod THEN -1 ELSE leaf[d].owner]
  BY <1>1
<1> QED BY <1>3, <1>4 DEF Placed!Bind

(* Every step of PodSync is a step of Placement, or nothing it sees. *)
LEMMA StepPlaced ==
  ASSUME IInv, Fresh, InOrder, [Next]_vars
  PROVE  [Placed!Next]_(Placed!vars)
<1>1. ASSUME UNCHANGED <<leaf, home, lastUid>> PROVE UNCHANGED Placed!vars
  BY <1>1, PlacedStutter DEF SamePods
<1>2. ASSUME NEW c \in Leafs, RootPurge(c) PROVE [Placed!Next]_(Placed!vars)
  <2>1. (leaf[c] # NoPod /\ DeleteLeaf(c)) \/ UNCHANGED leaf
    BY <1>2 DEF RootPurge, leafVars
  <2>2. UNCHANGED <<home, lastUid>>
    BY <1>2 DEF RootPurge
  <2> QED BY <1>1, <2>1, <2>2, PlacedDeleted
<1>3. CASE RootDelete
  <2> DEFINE c == rootCache.node
  <2>1. c \in Leafs
    BY <1>3, StatusValues DEF RootDelete, IInv, RootSide
  <2>2. (leaf[c] # NoPod /\ DeleteLeaf(c)) \/ UNCHANGED leaf
    BY <1>3 DEF RootDelete, leafVars
  <2>3. UNCHANGED <<home, lastUid>>
    BY <1>3 DEF RootDelete
  <2> HIDE DEF c
  <2> QED BY <1>1, <2>1, <2>2, <2>3, PlacedDeleted
<1>4. CASE RootCreate
  BY <1>4, PlacedPlace
<1>5. CASE RootUpdate
  <2>1. UNCHANGED <<home, lastUid>>
    BY <1>5 DEF RootUpdate
  <2> QED BY <1>5, <2>1, UpdatedInPlace, PlacedStutter
<1>6. ASSUME NEW c \in Leafs, KubeletReports(c) PROVE UNCHANGED Placed!vars
  BY <1>6, ReportedInPlace, PlacedStutter DEF KubeletReports
<1>7. ASSUME NEW c \in Leafs, KubeletRemoves(c) \/ Evict(c) PROVE [Placed!Next]_(Placed!vars)
  BY <1>7, PlacedFree, PlacedDeleted DEF KubeletRemoves, Evict, WriteLeaf, Placed!Next
<1>8. ASSUME NEW c \in Leafs, CreateForeignPod(c) \/ CreateRootPod(c) PROVE Placed!Next
  BY <1>8, PlacedOccupy, PlacedBind DEF Placed!Next
<1>9. CASE \/ RootPurgeStart \/ RootPurgeEnd \/ RootCreateStart \/ RootCreateFails
           \/ SyncReconcile \/ SyncFails \/ DeliverRoot \/ Resync \/ Restart
           \/ DeleteRootPod \/ ForceDeleteRootPod \/ EditRootPod \/ OtherWritesStatus
           \/ UNCHANGED vars
  BY <1>1, <1>9 DEF RootPurgeStart, RootPurgeEnd, RootCreateStart, RootCreateFails,
     SyncReconcile, SyncFails, DeliverRoot, Resync, Restart, DeleteRootPod,
     ForceDeleteRootPod, EditRootPod, OtherWritesStatus, vars, leafVars
<1>10. ASSUME NEW c \in Leafs,
              \/ RootPurgeFails(c) \/ LeafReconcile(c) \/ DeliverLeaf(c)
              \/ StopLeaf(c) \/ StartLeaf(c)
       PROVE  UNCHANGED Placed!vars
  BY <1>1, <1>10 DEF RootPurgeFails, LeafReconcile, DeliverLeaf, StopLeaf, StartLeaf, leafVars
<1> QED BY <1>2, <1>3, <1>4, <1>5, <1>6, <1>7, <1>8, <1>9, <1>10
        DEF Next, Kosmos, RootReconcile, Environment

(* ImplementsPlacement: pod synchronisation implements Placement, for any  *)
(* number of leaf clusters, incarnations and disturbances.  A copy appears *)
(* in the cluster of its incarnation, in a free slot, and never once a     *)
(* copy of a later incarnation runs anywhere: neither a stale cache nor a  *)
(* creation that took long nor a restart brings an older pod back.         *)
THEOREM Refinement == Spec => ImplementsPlacement
<1>1. Init => IInv /\ Fresh /\ InOrder
  BY InitIInv, InitFresh, InitInOrder
<1>2. IInv /\ Fresh /\ InOrder /\ [Next]_vars => (IInv /\ Fresh /\ InOrder)'
  BY StepIInv, StepFresh, StepInOrder
<1>3. IInv /\ Fresh /\ InOrder /\ [Next]_vars => [Placed!Next]_(Placed!vars)
  BY StepPlaced
<1> QED BY <1>1, <1>2, <1>3, InitPlaced, PTL DEF Spec, ImplementsPlacement, Placed!Spec
=============================================================================
