-------------------------- MODULE HostDaemonProofs --------------------------
(***************************************************************************)
(* That the expectations of HostDaemonSetsController do what they are for, *)
(* proved for any number of nodes, pods, templates and disturbances: a     *)
(* node never gets a pod too many, and an update with surge stays within   *)
(* maxSurge (HostDaemonSet).                                               *)
(*                                                                         *)
(* The argument rests on what the watch still holds.  The creations that   *)
(* are expected are exactly those the worker has still to make and those   *)
(* the cache has still to be told of, so when none is expected every pod   *)
(* there is, is in the cache; and what the cache says of a pod was true of *)
(* it once, and only some things about a pod ever change.                  *)
(***************************************************************************)
EXTENDS HostDaemonSet, FiniteSetTheorems, FunctionTheorems, SequenceTheorems, TLAPS

(* What a pod may become: it stays on its node with its template; a pod    *)
(* that is being deleted, or has failed, stays so, and none loses its node.*)
Follows(p, q) ==
  /\ p.node = q.node /\ p.hash = q.hash
  /\ p.term => q.term
  /\ p.phase = "failed" => q.phase = "failed"
  /\ q.phase = "unbound" => p.phase = "unbound"

(* Every pod of Q was in P, as something it has followed from. *)
Shrinks(P, Q) == \A i \in Ids : Q[i] # Gone => P[i] # Gone /\ Follows(P[i], Q[i])

(* The pods, the cache of them, the watch between the two and the number   *)
(* of pods created.                                                        *)
Fresh(P, C, w, k) ==
  \A i \in Ids : i > k => P[i] = Gone /\ C[i] = Gone /\ \A e \in DOMAIN w : w[e].id # i

Known(P, C, w) ==
  \A i \in Ids : P[i] # Gone =>
    /\ C[i] # Gone => Follows(C[i], P[i])
    /\ C[i] = Gone => \E e \in DOMAIN w : w[e].id = i
    /\ \A e \in DOMAIN w : w[e].id = i => w[e].pod # Gone /\ Follows(w[e].pod, P[i])

(* Nothing comes after the end of a pod, and the first thing the cache is  *)
(* told of a pod is that it was created.                                   *)
InOrder(C, w) ==
  /\ \A e, f \in DOMAIN w : e < f /\ w[e].id = w[f].id => w[e].pod # Gone
  /\ \A f \in DOMAIN w :
       C[w[f].id] = Gone /\ (\A e \in DOMAIN w : e < f => w[e].id # w[f].id)
         => w[f].pod # Gone /\ ~w[f].pod.term

Piped(P, C, w, k) == Fresh(P, C, w, k) /\ Known(P, C, w) /\ InOrder(C, w)

(* The pods whose creation the cache has not been told of. *)
Unseen(C, w) == {i \in Ids : C[i] = Gone /\ \E e \in DOMAIN w : w[e].id = i}

Pending(j) == j.create \union j.batch

(* The expectation of creations, until one times out. *)
Counted(x, j, C, w) == x.add = Cardinality(Pending(j)) + Cardinality(Unseen(C, w))

(* No surge: a node has one pod or one is being created, never both. *)
Single(P, N) ==
  /\ \A i, j \in Ids : P[i] # Gone /\ P[j] # Gone /\ P[i].node = P[j].node => i = j
  /\ \A i \in Ids : P[i] # Gone => P[i].node \notin N

(* Surge: there is room for a second one. *)
AtMostTwo(P, N) ==
  \A n \in Nodes :
    /\ \E a, b \in 0 .. MaxPods : Running(P, n) \subseteq {a, b}
    /\ n \in N => \E a \in 0 .. MaxPods : Running(P, n) \subseteq {a}

(* Nodes where an update has doubled the pod, or is about to. *)
Doubled(G, P, N) ==
  {g \in G : g[2] \in Running(P, g[1]) /\ (g[1] \in N \/ Alive(P, g[1]) # {g[2]})}

(* One entry for a node, and whatever else is alive there has not started. *)
OneEntry(G, P) ==
  \A g, h \in G : g[1] = h[1] /\ g[2] \in Running(P, g[1]) /\ h[2] \in Running(P, h[1]) => g = h
NotStarted(G, P) ==
  \A g \in G : \A j \in Alive(P, g[1]) : j # g[2] => P[j].phase = "unbound"

(* Templates only grow, and a pod that is given up has an older one. *)
Grown(P, G, t, j) ==
  /\ \A i \in Ids : P[i] # Gone => P[i].hash <= t /\ (j.pc # "idle" => P[i].hash <= j.hash)
  /\ j.pc # "idle" => j.hash <= t
  /\ \A g \in G : P[g[2]] # Gone => P[g[2]].hash < t /\ (j.pc # "idle" => P[g[2]].hash < j.hash)

Surges(G, P, N, s) ==
  /\ AtMostTwo(P, N) /\ OneEntry(G, P) /\ NotStarted(G, P)
  /\ Cardinality(Doubled(G, P, N)) <= s

OnTime ==
  /\ Counted(exp, job, cache, watch)
  /\ IF strategy.surge = 0 THEN Single(pods, Pending(job))
     ELSE Surges(going, pods, Pending(job), strategy.surge)

IInv ==
  /\ TypeOK
  /\ Piped(pods, cache, watch, created)
  /\ sdsSeen.tmpl <= sds.tmpl
  /\ Grown(pods, going, sdsSeen.tmpl, job)
  /\ \A g \in going : g[2] <= created
  /\ job.pc = "idle" => Pending(job) = {}
  /\ ~late => OnTime

-----------------------------------------------------------------------------
(* Pods, cache and watch. *)

PodsOf == [Ids -> Pod \union {Gone}]

LEMMA FollowsTransitive ==
  ASSUME NEW p, NEW q, NEW r, Follows(p, q), Follows(q, r)
  PROVE  Follows(p, r)
BY DEF Follows

(* A longer watch. *)
LEMMA Appended ==
  ASSUME NEW w \in Seq(Event), NEW x \in Event
  PROVE  /\ Append(w, x) \in Seq(Event)
         /\ DOMAIN w = 1 .. Len(w) /\ Len(w) \in Nat
         /\ DOMAIN Append(w, x) = 1 .. (Len(w) + 1)
         /\ \A e \in 1 .. Len(w) : Append(w, x)[e] = w[e]
         /\ Append(w, x)[Len(w) + 1] = x
BY AppendProperties, LenProperties

(* A shorter one. *)
LEMMA Delivered ==
  ASSUME NEW w \in Seq(Event), w # <<>>
  PROVE  /\ Tail(w) \in Seq(Event)
         /\ DOMAIN w = 1 .. Len(w) /\ Len(w) \in Nat /\ Len(w) > 0
         /\ DOMAIN Tail(w) = 1 .. (Len(w) - 1)
         /\ \A e \in 1 .. (Len(w) - 1) : Tail(w)[e] = w[e + 1]
         /\ Head(w) = w[1] /\ Head(w) \in Event
BY HeadTailProperties, LenProperties, EmptySeq

(* A pod that is there changes, or goes: the pods and the stream of events  *)
(* after it, under names of their own.                                      *)
Put(P, i, q) == [P EXCEPT ![i] = q]

Noted(w, i, q) == Append(w, [id |-> i, pod |-> q])

LEMMA Changed ==
  ASSUME NEW P \in PodsOf, NEW C \in PodsOf, NEW w \in Seq(Event), NEW k \in Nat,
         Piped(P, C, w, k),
         NEW i \in Ids, P[i] # Gone,
         NEW q \in Pod \union {Gone}, q # Gone => Follows(P[i], q)
  PROVE  /\ Put(P, i, q) \in PodsOf /\ Noted(w, i, q) \in Seq(Event)
         /\ Piped(Put(P, i, q), C, Noted(w, i, q), k)
         /\ Shrinks(P, Put(P, i, q))
         /\ Unseen(C, Noted(w, i, q)) = Unseen(C, w)
<1> DEFINE x == [id |-> i, pod |-> q]
           Q == Put(P, i, q)
           v == Noted(w, i, q)
<1>1. x \in Event /\ x.id = i /\ x.pod = q
  BY DEF Event
<1>2. /\ v \in Seq(Event)
      /\ DOMAIN w = 1 .. Len(w) /\ Len(w) \in Nat
      /\ DOMAIN v = 1 .. (Len(w) + 1)
      /\ \A e \in 1 .. Len(w) : v[e] = w[e]
      /\ v[Len(w) + 1] = x
  BY <1>1, Appended DEF Noted
<1>3. Q \in PodsOf /\ Q[i] = q /\ \A j \in Ids \ {i} : Q[j] = P[j]
  BY DEF PodsOf, Put
<1> HIDE DEF x, Q, v
<1>4. i <= k
  BY BoundsAssumption DEF Piped, Fresh, Ids
<1>5. Fresh(Q, C, v, k)
  BY <1>1, <1>2, <1>3, <1>4 DEF Piped, Fresh, Ids
<1>6. Known(Q, C, v)
  <2> SUFFICES ASSUME NEW j \in Ids, Q[j] # Gone
               PROVE  /\ C[j] # Gone => Follows(C[j], Q[j])
                      /\ C[j] = Gone => \E e \in DOMAIN v : v[e].id = j
                      /\ \A e \in DOMAIN v : v[e].id = j => v[e].pod # Gone /\ Follows(v[e].pod, Q[j])
    BY DEF Known
  <2>1. P[j] # Gone
    BY <1>3
  <2>2. Follows(P[j], Q[j])
    BY <1>3 DEF Follows
  <2>3. C[j] # Gone => Follows(C[j], Q[j])
    BY <2>1, <2>2, FollowsTransitive DEF Piped, Known
  <2>4. C[j] = Gone => \E e \in DOMAIN v : v[e].id = j
    BY <1>2, <2>1 DEF Piped, Known
  <2>5. ASSUME NEW e \in DOMAIN v, v[e].id = j PROVE v[e].pod # Gone /\ Follows(v[e].pod, Q[j])
    <3>1. CASE e \in 1 .. Len(w)
      BY <3>1, <2>1, <2>2, <2>5, <1>2, FollowsTransitive DEF Piped, Known
    <3>2. CASE e = Len(w) + 1
      BY <3>2, <2>5, <1>1, <1>2, <1>3 DEF Follows
    <3> QED BY <3>1, <3>2, <1>2
  <2> QED BY <2>3, <2>4, <2>5
<1>7. InOrder(C, v)
  <2>1. ASSUME NEW e \in DOMAIN v, NEW f \in DOMAIN v, e < f, v[e].id = v[f].id PROVE v[e].pod # Gone
    <3>1. e \in 1 .. Len(w)
      BY <2>1, <1>2
    <3>2. CASE f \in 1 .. Len(w)
      BY <3>1, <3>2, <2>1, <1>2 DEF Piped, InOrder
    <3>3. CASE f = Len(w) + 1
      BY <3>1, <3>3, <2>1, <1>1, <1>2 DEF Piped, Known
    <3> QED BY <3>2, <3>3, <1>2
  <2>2. ASSUME NEW f \in DOMAIN v, C[v[f].id] = Gone, \A e \in DOMAIN v : e < f => v[e].id # v[f].id
        PROVE  v[f].pod # Gone /\ ~v[f].pod.term
    <3>1. CASE f \in 1 .. Len(w)
      <4>1. \A e \in DOMAIN w : e < f => w[e].id # w[f].id
        BY <3>1, <2>2, <1>2
      <4> QED BY <4>1, <3>1, <2>2, <1>2 DEF Piped, InOrder
    <3>2. CASE f = Len(w) + 1
      <4>1. PICK e \in DOMAIN w : w[e].id = i
        BY <3>2, <2>2, <1>1, <1>2 DEF Piped, Known
      <4> QED BY <4>1, <3>2, <2>2, <1>1, <1>2
    <3> QED BY <3>1, <3>2, <1>2
  <2> QED BY <2>1, <2>2 DEF InOrder
<1>8. Shrinks(P, Q)
  BY <1>3 DEF Shrinks, Follows
<1>9. Unseen(C, v) = Unseen(C, w)
  <2>1. ASSUME NEW j \in Ids, C[j] = Gone
        PROVE  (\E e \in DOMAIN v : v[e].id = j) <=> (\E e \in DOMAIN w : w[e].id = j)
    BY <2>1, <1>1, <1>2 DEF Piped, Known
  <2> QED BY <2>1 DEF Unseen
<1> QED BY <1>2, <1>3, <1>5, <1>6, <1>7, <1>8, <1>9 DEF Piped, x, Q, v

(* A pod is created. *)
LEMMA Made ==
  ASSUME NEW P \in PodsOf, NEW C \in PodsOf, NEW w \in Seq(Event), NEW k \in Nat, k < MaxPods,
         Piped(P, C, w, k),
         NEW q \in Pod, ~q.term
  PROVE  LET Q == [P EXCEPT ![k + 1] = q]
             v == Append(w, [id |-> k + 1, pod |-> q])
         IN  /\ Q \in PodsOf /\ v \in Seq(Event)
             /\ Piped(Q, C, v, k + 1)
             /\ P[k + 1] = Gone /\ Q[k + 1] = q /\ \A j \in Ids \ {k + 1} : Q[j] = P[j]
             /\ k + 1 \in Ids /\ k + 1 \notin Unseen(C, w)
             /\ Unseen(C, v) = Unseen(C, w) \union {k + 1}
<1> DEFINE i == k + 1
           x == [id |-> i, pod |-> q]
           Q == [P EXCEPT ![i] = q]
           v == Append(w, x)
<1>0. i \in Ids /\ i > k /\ q # Gone
  BY BoundsAssumption, GoneAssumption DEF Ids
<1>1. x \in Event /\ x.id = i /\ x.pod = q
  BY <1>0 DEF Event
<1>2. /\ v \in Seq(Event)
      /\ DOMAIN w = 1 .. Len(w) /\ Len(w) \in Nat
      /\ DOMAIN v = 1 .. (Len(w) + 1)
      /\ \A e \in 1 .. Len(w) : v[e] = w[e]
      /\ v[Len(w) + 1] = x
  BY <1>1, Appended
<1>3. Q \in PodsOf /\ Q[i] = q /\ \A j \in Ids \ {i} : Q[j] = P[j]
  BY <1>0 DEF PodsOf
<1> HIDE DEF x, Q, v
<1>4. P[i] = Gone /\ C[i] = Gone /\ \A e \in DOMAIN w : w[e].id # i
  BY <1>0 DEF Piped, Fresh
<1>5. Fresh(Q, C, v, i)
  <2> SUFFICES ASSUME NEW j \in Ids, j > i
               PROVE  Q[j] = Gone /\ C[j] = Gone /\ \A e \in DOMAIN v : v[e].id # j
    BY DEF Fresh
  <2>1. j > k /\ j # i
    BY DEF Ids
  <2>2. P[j] = Gone /\ C[j] = Gone /\ \A e \in DOMAIN w : w[e].id # j
    BY <2>1 DEF Piped, Fresh
  <2> QED BY <2>1, <2>2, <1>1, <1>2, <1>3
<1>6. Known(Q, C, v)
  <2> SUFFICES ASSUME NEW j \in Ids, Q[j] # Gone
               PROVE  /\ C[j] # Gone => Follows(C[j], Q[j])
                      /\ C[j] = Gone => \E e \in DOMAIN v : v[e].id = j
                      /\ \A e \in DOMAIN v : v[e].id = j => v[e].pod # Gone /\ Follows(v[e].pod, Q[j])
    BY DEF Known
  <2>1. CASE j = i
    <3>1. \A e \in DOMAIN v : v[e].id = j => e = Len(w) + 1
      BY <2>1, <1>2, <1>4
    <3> QED BY <2>1, <3>1, <1>0, <1>1, <1>2, <1>3, <1>4 DEF Follows
  <2>2. CASE j # i
    <3>1. P[j] # Gone /\ Q[j] = P[j]
      BY <2>2, <1>3
    <3>2. \A e \in DOMAIN v : v[e].id = j => e \in 1 .. Len(w)
      BY <2>2, <1>1, <1>2
    <3> QED BY <3>1, <3>2, <1>2 DEF Piped, Known
  <2> QED BY <2>1, <2>2
<1>7. InOrder(C, v)
  <2>1. ASSUME NEW e \in DOMAIN v, NEW f \in DOMAIN v, e < f, v[e].id = v[f].id PROVE v[e].pod # Gone
    <3>1. e \in 1 .. Len(w)
      BY <2>1, <1>2
    <3>2. f \in 1 .. Len(w)
      BY <2>1, <3>1, <1>1, <1>2, <1>4
    <3> QED BY <3>1, <3>2, <2>1, <1>2 DEF Piped, InOrder
  <2>2. ASSUME NEW f \in DOMAIN v, C[v[f].id] = Gone, \A e \in DOMAIN v : e < f => v[e].id # v[f].id
        PROVE  v[f].pod # Gone /\ ~v[f].pod.term
    <3>1. CASE f \in 1 .. Len(w)
      <4>1. \A e \in DOMAIN w : e < f => w[e].id # w[f].id
        BY <3>1, <2>2, <1>2
      <4> QED BY <4>1, <3>1, <2>2, <1>2 DEF Piped, InOrder
    <3>2. CASE f = Len(w) + 1
      BY <3>2, <1>0, <1>1, <1>2
    <3> QED BY <3>1, <3>2, <1>2
  <2> QED BY <2>1, <2>2 DEF InOrder
<1>8. i \notin Unseen(C, w)
  BY <1>4 DEF Unseen
<1>9. Unseen(C, v) = Unseen(C, w) \union {i}
  <2>1. ASSUME NEW j \in Ids, j # i
        PROVE  (\E e \in DOMAIN v : v[e].id = j) <=> (\E e \in DOMAIN w : w[e].id = j)
    BY <2>1, <1>1, <1>2
  <2>2. i \in Unseen(C, v)
    BY <1>0, <1>1, <1>2, <1>4 DEF Unseen
  <2> QED BY <2>1, <2>2 DEF Unseen
<1> QED BY <1>0, <1>2, <1>3, <1>4, <1>5, <1>6, <1>7, <1>8, <1>9 DEF Piped, x, Q, v

(* The cache is told of the oldest change. *)
Told(C, x) == [C EXCEPT ![x.id] = x.pod]

LEMMA Seen ==
  ASSUME NEW P \in PodsOf, NEW C \in PodsOf, NEW w \in Seq(Event), NEW k \in Nat, w # <<>>,
         Piped(P, C, w, k)
  PROVE  LET x == Head(w)
             D == Told(C, x)
             v == Tail(w)
         IN  /\ x \in Event
             /\ D \in PodsOf /\ v \in Seq(Event)
             /\ Piped(P, D, v, k)
             /\ C[x.id] = Gone =>
                  /\ x.pod # Gone /\ ~x.pod.term
                  /\ x.id \in Unseen(C, w) /\ Unseen(D, v) = Unseen(C, w) \ {x.id}
             /\ C[x.id] # Gone => Unseen(D, v) = Unseen(C, w)
<1> DEFINE x == Head(w)
           D == Told(C, x)
           v == Tail(w)
<1>1. /\ v \in Seq(Event)
      /\ DOMAIN w = 1 .. Len(w) /\ Len(w) \in Nat /\ Len(w) > 0
      /\ DOMAIN v = 1 .. (Len(w) - 1)
      /\ \A e \in 1 .. (Len(w) - 1) : v[e] = w[e + 1]
      /\ x = w[1] /\ x \in Event
  BY Delivered
<1>2. x.id \in Ids /\ x.pod \in Pod \union {Gone}
  BY <1>1 DEF Event
<1>3. D \in PodsOf /\ D[x.id] = x.pod /\ \A j \in Ids \ {x.id} : D[j] = C[j]
  BY <1>2 DEF PodsOf, Told
<1> HIDE DEF x, D, v
<1>4. x.id <= k
  BY <1>1, <1>2, BoundsAssumption DEF Piped, Fresh, Ids
<1>5. Fresh(P, D, v, k)
  <2> SUFFICES ASSUME NEW j \in Ids, j > k
               PROVE  P[j] = Gone /\ D[j] = Gone /\ \A e \in DOMAIN v : v[e].id # j
    BY DEF Fresh
  <2>1. P[j] = Gone /\ C[j] = Gone /\ \A e \in DOMAIN w : w[e].id # j
    BY DEF Piped, Fresh
  <2>2. j # x.id
    BY <1>2, <1>4 DEF Ids
  <2> QED BY <2>1, <2>2, <1>1, <1>3
<1>6. Known(P, D, v)
  <2> SUFFICES ASSUME NEW j \in Ids, P[j] # Gone
               PROVE  /\ D[j] # Gone => Follows(D[j], P[j])
                      /\ D[j] = Gone => \E e \in DOMAIN v : v[e].id = j
                      /\ \A e \in DOMAIN v : v[e].id = j => v[e].pod # Gone /\ Follows(v[e].pod, P[j])
    BY DEF Known
  <2>1. /\ C[j] # Gone => Follows(C[j], P[j])
        /\ C[j] = Gone => \E e \in DOMAIN w : w[e].id = j
        /\ \A e \in DOMAIN w : w[e].id = j => w[e].pod # Gone /\ Follows(w[e].pod, P[j])
    BY DEF Piped, Known
  <2>2. \A e \in DOMAIN v : v[e].id = j => v[e].pod # Gone /\ Follows(v[e].pod, P[j])
    BY <2>1, <1>1
  <2>3. CASE j = x.id
    BY <2>1, <2>2, <2>3, <1>1, <1>3
  <2>4. CASE j # x.id
    <3>1. D[j] = C[j]
      BY <2>4, <1>3
    <3>2. ASSUME NEW e \in DOMAIN w, w[e].id = j PROVE e - 1 \in DOMAIN v /\ v[e - 1] = w[e]
      BY <3>2, <2>4, <1>1
    <3> QED BY <2>1, <2>2, <3>1, <3>2
  <2> QED BY <2>3, <2>4
<1>7. ASSUME x.pod = Gone PROVE \A e \in DOMAIN v : v[e].id # x.id
  <2> SUFFICES ASSUME NEW e \in DOMAIN v, v[e].id = x.id PROVE FALSE
    OBVIOUS
  <2>1. 1 \in DOMAIN w /\ e + 1 \in DOMAIN w /\ 1 < e + 1 /\ w[1].id = w[e + 1].id
    BY <1>1
  <2>2. w[1].pod # Gone
    BY <2>1 DEF Piped, InOrder
  <2> QED BY <2>2, <1>1, <1>7
<1>8. InOrder(D, v)
  <2>1. ASSUME NEW e \in DOMAIN v, NEW f \in DOMAIN v, e < f, v[e].id = v[f].id PROVE v[e].pod # Gone
    <3>1. e + 1 \in DOMAIN w /\ f + 1 \in DOMAIN w /\ e + 1 < f + 1
      BY <2>1, <1>1
    <3> QED BY <3>1, <2>1, <1>1 DEF Piped, InOrder
  <2>2. ASSUME NEW f \in DOMAIN v, D[v[f].id] = Gone, \A e \in DOMAIN v : e < f => v[e].id # v[f].id
        PROVE  v[f].pod # Gone /\ ~v[f].pod.term
    <3>1. v[f].id # x.id
      BY <2>2, <1>3, <1>7, <1>2
    <3>2. f + 1 \in DOMAIN w /\ v[f] = w[f + 1]
      BY <2>2, <1>1
    <3>3. C[w[f + 1].id] = Gone
      <4>1. w[f + 1] \in Event
        BY <3>2, <1>1, ElementOfSeq
      <4>2. w[f + 1].id \in Ids
        BY <4>1 DEF Event
      <4> QED BY <4>2, <3>1, <3>2, <2>2, <1>3
    <3>4. ASSUME NEW e \in DOMAIN w, e < f + 1 PROVE w[e].id # w[f + 1].id
      <4>1. CASE e = 1
        BY <4>1, <3>1, <3>2, <1>1
      <4>2. CASE e # 1
        <5>1. e - 1 \in DOMAIN v /\ e - 1 < f /\ v[e - 1] = w[e]
          BY <4>2, <3>4, <1>1
        <5> QED BY <5>1, <2>2, <3>2
      <4> QED BY <4>1, <4>2
    <3> QED BY <3>2, <3>3, <3>4 DEF Piped, InOrder
  <2> QED BY <2>1, <2>2 DEF InOrder
<1>9. ASSUME NEW j \in Ids, j # x.id PROVE (\E e \in DOMAIN v : v[e].id = j) <=> (\E e \in DOMAIN w : w[e].id = j)
  <2>1. ASSUME NEW e \in DOMAIN w, w[e].id = j PROVE \E f \in DOMAIN v : v[f].id = j
    <3>1. e - 1 \in DOMAIN v /\ v[e - 1] = w[e]
      BY <2>1, <1>9, <1>1
    <3> QED BY <3>1, <2>1
  <2>2. ASSUME NEW e \in DOMAIN v, v[e].id = j PROVE \E f \in DOMAIN w : w[f].id = j
    <3>1. e + 1 \in DOMAIN w /\ v[e] = w[e + 1]
      BY <1>1
    <3> QED BY <3>1, <2>2
  <2> QED BY <2>1, <2>2
<1>10. ASSUME C[x.id] = Gone
       PROVE  /\ x.pod # Gone /\ ~x.pod.term
              /\ x.id \in Unseen(C, w) /\ Unseen(D, v) = Unseen(C, w) \ {x.id}
  <2>1. x.pod # Gone /\ ~x.pod.term
    BY <1>10, <1>1 DEF Piped, InOrder
  <2>2. x.id \in Unseen(C, w)
    BY <1>10, <1>1, <1>2 DEF Unseen
  <2>3. x.id \notin Unseen(D, v)
    BY <2>1, <1>3 DEF Unseen
  <2> QED BY <2>1, <2>2, <2>3, <1>3, <1>9 DEF Unseen
<1>11. ASSUME C[x.id] # Gone PROVE Unseen(D, v) = Unseen(C, w)
  <2>1. x.id \notin Unseen(C, w)
    BY <1>11 DEF Unseen
  <2>2. x.id \notin Unseen(D, v)
    BY <1>3, <1>7, <1>2 DEF Unseen
  <2> QED BY <2>1, <2>2, <1>3, <1>9 DEF Unseen
<1> QED BY <1>1, <1>3, <1>5, <1>6, <1>8, <1>10, <1>11 DEF Piped, x, D, v

(* The cache is filled from scratch. *)
LEMMA Refilled ==
  ASSUME NEW P \in PodsOf, NEW k, \A i \in Ids : i > k => P[i] = Gone
  PROVE  Piped(P, P, <<>>, k) /\ Unseen(P, <<>>) = {}
BY DEF Piped, Fresh, Known, InOrder, Unseen, Follows

(* With every creation seen, what is there followed from what is cached. *)
LEMMA Complete ==
  ASSUME NEW P, NEW C, NEW w, NEW k, Piped(P, C, w, k), Unseen(C, w) = {}
  PROVE  Shrinks(C, P)
BY DEF Piped, Known, Unseen, Shrinks

LEMMA ShrinkingViews ==
  ASSUME NEW P, NEW Q, Shrinks(P, Q), NEW n
  PROVE  /\ OnNode(Q, n) \subseteq OnNode(P, n)
         /\ Alive(Q, n) \subseteq Alive(P, n)
         /\ Running(Q, n) \subseteq Running(P, n)
<1>1. OnNode(Q, n) \subseteq OnNode(P, n)
  BY DEF OnNode, Shrinks, Follows
<1>2. ASSUME NEW i \in Alive(Q, n) PROVE i \in Alive(P, n) /\ (P[i].phase = "failed" => Q[i].phase = "failed")
  BY <1>1 DEF Alive, OnNode, Shrinks, Follows
<1> QED BY <1>1, <1>2 DEF Running, Alive

-----------------------------------------------------------------------------
(* Choices of so many elements. *)

LEMMA SomeSets ==
  ASSUME NEW S, IsFiniteSet(S), NEW k \in Nat
  PROVE  /\ Some(S, k) # {}
         /\ \A T \in Some(S, k) : T \subseteq S /\ IsFiniteSet(T) /\ Cardinality(T) \in Nat /\ Cardinality(T) <= k
<1>1. Cardinality(S) \in Nat
  BY FS_CardinalityType
<1>2. ASSUME Cardinality(S) > k PROVE \E T \in SUBSET S : Cardinality(T) = k
  <2>1. PICK f \in Bijection(1 .. Cardinality(S), S) : TRUE
    BY FS_CardinalityType, Fun_ExistsBij
  <2> DEFINE R == 1 .. k
             T == Range(Restrict(f, R))
  <2>2. R \subseteq 1 .. Cardinality(S)
    BY <1>1, <1>2
  <2>3. Restrict(f, R) \in Bijection(R, T)
    BY <2>2, <2>1, Fun_BijRestrict
  <2>4. Cardinality(T) = k
    BY <2>3, Fun_ExistsBij, FS_CountingElements
  <2>5. T \subseteq S
    <3>1. f \in [1 .. Cardinality(S) -> S]
      BY <2>1, Fun_BijectionProperties
    <3>2. Restrict(f, R) \in [R -> S]
      BY <2>2, <3>1, Fun_RestrictProperties
    <3> QED BY <3>2, Fun_RangeProperties
  <2> QED BY <2>4, <2>5
<1>3. Some(S, k) # {}
  BY <1>1, <1>2 DEF Some, kSubset
<1>4. ASSUME NEW T \in Some(S, k) PROVE T \subseteq S /\ Cardinality(T) <= k
  BY <1>1, <1>4 DEF Some, kSubset
<1> QED BY <1>3, <1>4, FS_Subset, FS_CardinalityType

LEMMA PendingFinite ==
  ASSUME NEW j \in Job
  PROVE  IsFiniteSet(Pending(j)) /\ Cardinality(Pending(j)) \in Nat /\ IsFiniteSet(j.create)
<1>1. Pending(j) \in SUBSET Nodes /\ j.create \in SUBSET Nodes
  BY DEF Pending, Job
<1> QED BY <1>1, NodesAssumption, FS_Subset, FS_CardinalityType

LEMMA UnseenFinite ==
  ASSUME NEW C, NEW w
  PROVE  IsFiniteSet(Unseen(C, w)) /\ Cardinality(Unseen(C, w)) \in Nat
<1>1. IsFiniteSet(Ids) /\ Unseen(C, w) \in SUBSET Ids
  BY BoundsAssumption, FS_Interval DEF Unseen, Ids
<1> QED BY <1>1, FS_Subset, FS_CardinalityType

(* The next batch moves creations, and forgets none. *)
LEMMA Batched ==
  ASSUME NEW j \in Job, j.create \intersect j.batch = {}
  PROVE  LET m == NextBatch(j)
         IN  /\ m \in Job /\ m.create \intersect m.batch = {}
             /\ Pending(m) = Pending(j)
             /\ m.pc = j.pc /\ m.hash = j.hash /\ m.delete = j.delete /\ m.err = j.err
<1> DEFINE k == IF j.size = 0 THEN 1 ELSE 2 * j.size
           b == CHOOSE S \in Some(j.create, k) : TRUE
           m == [j EXCEPT !.batch = b, !.create = @ \ b, !.size = k]
<1>1. k \in Nat
  BY DEF Job
<1>2. b \subseteq j.create
  <2> HIDE DEF k
  <2>1. IsFiniteSet(j.create)
    BY PendingFinite
  <2>2. Some(j.create, k) # {} /\ \A T \in Some(j.create, k) : T \subseteq j.create
    BY <1>1, <2>1, SomeSets
  <2>3. b \in Some(j.create, k)
    BY <2>2
  <2> QED BY <2>2, <2>3
<1>3. CASE j.batch # {} \/ j.err
  BY <1>3 DEF NextBatch
<1>4. CASE ~(j.batch # {} \/ j.err)
  <2>1. NextBatch(j) = m
    BY <1>4 DEF NextBatch
  <2> HIDE DEF b, k
  <2>2. /\ m.batch = b /\ m.create = j.create \ b /\ m.size = k
        /\ m.pc = j.pc /\ m.hash = j.hash /\ m.delete = j.delete /\ m.err = j.err
    BY DEF Job
  <2>3. DOMAIN m = {"pc", "hash", "create", "batch", "size", "delete", "err"} /\ m = [z \in DOMAIN m |-> m[z]]
    BY DEF Job
  <2> HIDE DEF m
  <2>4. m.batch \subseteq Nodes /\ m.create \subseteq Nodes
    BY <2>2, <1>2 DEF Job
  <2>5. m \in Job
    BY <2>2, <2>3, <2>4, <1>1 DEF Job
  <2>6. m.create \intersect m.batch = {} /\ Pending(m) = Pending(j)
    BY <2>2, <1>2, <1>4 DEF Pending
  <2> QED BY <2>1, <2>2, <2>5, <2>6
<1> QED BY <1>3, <1>4

(* What syncNodes begins. *)
Begin(pc, h, c, d) == [Idle EXCEPT !.pc = pc, !.hash = h, !.create = c, !.delete = d]

BeginsWell(m, pc, h, c) ==
  /\ m \in Job /\ m.create \intersect m.batch = {}
  /\ Pending(m) = c /\ m.pc = pc /\ m.hash = h

LEMMA Begun ==
  ASSUME NEW h \in Templates, NEW pc \in {"managed", "rolled"}, NEW c \in SUBSET Nodes, NEW d \in SUBSET Ids
  PROVE  BeginsWell(NextBatch(Begin(pc, h, c, d)), pc, h, c)
<1> DEFINE j == [Idle EXCEPT !.pc = pc, !.hash = h, !.create = c, !.delete = d]
<1>1. j.pc = pc /\ j.hash = h /\ j.create = c /\ j.batch = {} /\ j.size = 0 /\ j.delete = d /\ j.err \in BOOLEAN
  BY DEF Idle
<1>2. DOMAIN j = {"pc", "hash", "create", "batch", "size", "delete", "err"} /\ j = [z \in DOMAIN j |-> j[z]]
  BY DEF Idle
<1> HIDE DEF j
<1>3. j \in Job
  BY <1>1, <1>2 DEF Job
<1>4. j.create \intersect j.batch = {} /\ Pending(j) = c
  BY <1>1 DEF Pending
<1>5. j = Begin(pc, h, c, d)
  BY DEF j, Begin
<1> QED BY <1>1, <1>3, <1>4, <1>5, Batched DEF BeginsWell

-----------------------------------------------------------------------------
(* Types. *)

LEMMA LowerType ==
  ASSUME NEW n \in Nat, NEW m \in Nat
  PROVE  Lower(n, m) \in Nat /\ Lower(n, m) <= n /\ (m <= n => Lower(n, m) = n - m)
BY DEF Lower

LEMMA ExpChanges ==
  ASSUME NEW x \in [add : Nat, del : Nat], x.add <= Burst, x.del <= Burst, NEW m \in Nat
  PROVE  LET y == [x EXCEPT !.add = Lower(@, m)]
             z == [x EXCEPT !.del = Lower(@, m)]
         IN  /\ y \in [add : Nat, del : Nat] /\ y.add = Lower(x.add, m) /\ y.add <= Burst /\ y.del <= Burst
             /\ z \in [add : Nat, del : Nat] /\ z.add = x.add /\ z.add <= Burst /\ z.del <= Burst
BY LowerType, BurstAssumption

LEMMA NodeSets ==
  ASSUME NEW S \in SUBSET Nodes
  PROVE  IsFiniteSet(S) /\ Cardinality(S) \in Nat
BY NodesAssumption, FS_Subset, FS_CardinalityType

LEMMA PodSets ==
  ASSUME NEW S \in SUBSET Ids
  PROVE  IsFiniteSet(S) /\ Cardinality(S) \in Nat
<1>1. IsFiniteSet(Ids)
  BY BoundsAssumption, FS_Interval DEF Ids
<1> QED BY <1>1, FS_Subset, FS_CardinalityType

LEMMA StoredType ==
  ASSUME TypeOK, NEW h, NEW r \in BOOLEAN
  PROVE  Stored(h, r) \in Status
<1> DEFINE c == Counts(cache, h)
           old == sdsSeen.status
           new == [f \in DOMAIN old |-> IF f = "gen" THEN IF r THEN sdsSeen.tmpl ELSE old.gen ELSE c[f]]
<1>1. sds.status \in Status /\ old \in Status /\ sdsSeen.tmpl \in Nat
  BY DEF TypeOK, Set, Templates
<1>2. c.desired \in Nat /\ c.current \in Nat /\ c.miss \in Nat /\ c.ready \in Nat /\ c.updated \in Nat
  <2> DEFINE run == {n \in NodeList : ShouldRun(n)}
             with == {n \in NodeList : OnNode(cache, n) # {}}
             sh == {n \in run \intersect with : \A i \in Oldest(cache, OnNode(cache, n)) : Available(cache[i])}
             up == {n \in run \intersect with : \A i \in Oldest(cache, OnNode(cache, n)) : cache[i].hash = h}
  <2>1. /\ run \in SUBSET Nodes /\ run \intersect with \in SUBSET Nodes /\ with \ run \in SUBSET Nodes
        /\ sh \in SUBSET Nodes /\ up \in SUBSET Nodes
    BY DEF NodeList
  <2>2. /\ Cardinality(run) \in Nat /\ Cardinality(run \intersect with) \in Nat /\ Cardinality(with \ run) \in Nat
        /\ Cardinality(sh) \in Nat /\ Cardinality(up) \in Nat
    <3> HIDE DEF run, with, sh, up
    <3> QED BY <2>1, NodeSets
  <2>3. /\ c.desired = Cardinality(run) /\ c.current = Cardinality(run \intersect with)
        /\ c.miss = Cardinality(with \ run) /\ c.ready = Cardinality(sh) /\ c.updated = Cardinality(up)
    BY DEF Counts
  <2> QED BY <2>2, <2>3
<1> HIDE DEF c
<1>3. new \in Status
  <2>1. DOMAIN old = {"desired", "current", "miss", "ready", "updated", "gen"} /\ old.gen \in Nat
    BY <1>1 DEF Status
  <2>2. /\ DOMAIN new = {"desired", "current", "miss", "ready", "updated", "gen"}
        /\ new.desired = c.desired /\ new.current = c.current /\ new.miss = c.miss
        /\ new.ready = c.ready /\ new.updated = c.updated /\ new.gen \in Nat
    BY <2>1, <1>1
  <2>3. new = [z \in DOMAIN new |-> new[z]]
    OBVIOUS
  <2> HIDE DEF new
  <2> QED BY <2>2, <2>3, <1>2 DEF Status
<1> QED BY <1>1, <1>3 DEF Stored, c

LEMMA WriteType ==
  ASSUME TypeOK, NEW i \in Ids, NEW q \in Pod \union {Gone}, Write(i, q)
  PROVE  pods' \in PodsOf /\ watch' \in Seq(Event)
<1>1. [id |-> i, pod |-> q] \in Event
  BY DEF Event
<1> QED BY <1>1, Appended DEF TypeOK, Write, PodsOf

LEMMA DeleteType ==
  ASSUME TypeOK, NEW i \in Ids, pods[i] # Gone, Delete(i)
  PROVE  pods' \in PodsOf /\ watch' \in Seq(Event) /\ created' = created
<1>1. pods[i] \in Pod
  BY DEF TypeOK
<1>2. [pods[i] EXCEPT !.term = TRUE] \in Pod
  BY <1>1 DEF Pod
<1>3. CASE UNCHANGED <<pods, watch>>
  BY <1>3 DEF TypeOK, PodsOf, Delete
<1> QED BY <1>2, <1>3, WriteType DEF Delete

LEMMA NewPodType ==
  ASSUME TypeOK, NEW n \in Nodes, NewPod(n)
  PROVE  pods' \in PodsOf /\ watch' \in Seq(Event) /\ created' \in 0 .. MaxPods
<1>1. created + 1 \in Ids /\ created' \in 0 .. MaxPods
  BY BoundsAssumption DEF TypeOK, NewPod, Ids
<1>2. [node |-> n, hash |-> job.hash, phase |-> "unbound", term |-> FALSE] \in Pod
  BY DEF TypeOK, Pod, Job
<1> QED BY <1>1, <1>2, WriteType DEF NewPod

LEMMA SpendType ==
  ASSUME budget \in [Disturbances -> Nat], NEW e \in Disturbances, Spend(e)
  PROVE  budget' \in [Disturbances -> Nat]
BY DEF Spend

(* The job drops one of its calls, or all creations, and may have failed. *)
LEMMA JobDrops ==
  ASSUME NEW j \in Job, j.create \intersect j.batch = {}, NEW S
  PROVE  LET b == [j EXCEPT !.batch = @ \ S]
             f == [j EXCEPT !.batch = @ \ S, !.err = TRUE]
             c == [j EXCEPT !.create = {}]
             d == [j EXCEPT !.delete = @ \ S]
             g == [j EXCEPT !.delete = @ \ S, !.err = TRUE]
         IN  /\ b \in Job /\ b.create = j.create /\ b.batch = j.batch \ S /\ b.pc = j.pc /\ b.hash = j.hash
             /\ f \in Job /\ f.create = j.create /\ f.batch = j.batch \ S /\ f.pc = j.pc /\ f.hash = j.hash
             /\ c \in Job /\ c.create = {} /\ c.batch = j.batch /\ c.pc = j.pc /\ c.hash = j.hash
             /\ d \in Job /\ d.create = j.create /\ d.batch = j.batch /\ d.pc = j.pc /\ d.hash = j.hash
             /\ g \in Job /\ g.create = j.create /\ g.batch = j.batch /\ g.pc = j.pc /\ g.hash = j.hash
<1> DEFINE f == [j EXCEPT !.batch = @ \ S, !.err = TRUE]
           g == [j EXCEPT !.delete = @ \ S, !.err = TRUE]
           fields == {"pc", "hash", "create", "batch", "size", "delete", "err"}
<1>1. LET b == [j EXCEPT !.batch = @ \ S]
          c == [j EXCEPT !.create = {}]
          d == [j EXCEPT !.delete = @ \ S]
      IN  /\ b \in Job /\ b.create = j.create /\ b.batch = j.batch \ S /\ b.pc = j.pc /\ b.hash = j.hash
          /\ c \in Job /\ c.create = {} /\ c.batch = j.batch /\ c.pc = j.pc /\ c.hash = j.hash
          /\ d \in Job /\ d.create = j.create /\ d.batch = j.batch /\ d.pc = j.pc /\ d.hash = j.hash
  BY DEF Job
<1>2. f \in Job /\ f.create = j.create /\ f.batch = j.batch \ S /\ f.pc = j.pc /\ f.hash = j.hash
  <2>1. /\ f.create = j.create /\ f.batch = j.batch \ S /\ f.pc = j.pc /\ f.hash = j.hash
        /\ f.size = j.size /\ f.delete = j.delete /\ f.err \in BOOLEAN
    BY DEF Job
  <2>2. DOMAIN f = fields /\ f = [z \in DOMAIN f |-> f[z]]
    BY DEF Job
  <2> HIDE DEF f
  <2> QED BY <2>1, <2>2 DEF Job
<1>3. g \in Job /\ g.create = j.create /\ g.batch = j.batch /\ g.pc = j.pc /\ g.hash = j.hash
  <2>1. /\ g.create = j.create /\ g.batch = j.batch /\ g.pc = j.pc /\ g.hash = j.hash
        /\ g.size = j.size /\ g.delete = j.delete \ S /\ g.err \in BOOLEAN
    BY DEF Job
  <2>2. DOMAIN g = fields /\ g = [z \in DOMAIN g |-> g[z]]
    BY DEF Job
  <2> HIDE DEF g
  <2> QED BY <2>1, <2>2 DEF Job
<1> QED BY <1>1, <1>2, <1>3

LEMMA IdleType == Idle \in Job /\ Pending(Idle) = {} /\ Idle.create \intersect Idle.batch = {} /\ Idle.pc = "idle"
BY BoundsAssumption DEF Idle, Job, Pending, Templates

LEMMA SyncNodesType ==
  ASSUME TypeOK, NEW pc \in {"managed", "rolled"}, NEW h \in Templates,
         NEW c \in SUBSET Nodes, NEW d \in SUBSET Ids, Cardinality(c) <= Burst, Cardinality(d) <= Burst,
         SyncNodes(pc, h, c, d)
  PROVE  /\ exp' \in [add : Nat, del : Nat] /\ exp'.add <= Burst /\ exp'.del <= Burst
         /\ exp'.add = Cardinality(c)
         /\ job' \in Job /\ job'.create \intersect job'.batch = {}
         /\ Pending(job') = c /\ job'.pc = pc /\ job'.hash = h
<1> DEFINE m == NextBatch(Begin(pc, h, c, d))
<1>1. job' = m
  BY DEF SyncNodes, Begin
<1>2. Cardinality(c) \in Nat /\ Cardinality(d) \in Nat
  BY NodeSets, PodSets
<1>4. BeginsWell(m, pc, h, c)
  BY Begun
<1> HIDE DEF m
<1>3. /\ job' \in Job /\ job'.create \intersect job'.batch = {}
      /\ Pending(job') = c /\ job'.pc = pc /\ job'.hash = h
  BY <1>1, <1>4 DEF BeginsWell
<1> QED BY <1>2, <1>3 DEF SyncNodes

(* What Manage hands to syncNodes. *)
LEMMA Managed ==
  ASSUME TypeOK, Manage
  PROVE  \E c \in SUBSET {n \in NodeList : Needs(n)}, d \in SUBSET Ids :
           Cardinality(c) <= Burst /\ Cardinality(d) <= Burst /\ SyncNodes("managed", sdsSeen.tmpl, c, d)
<1> DEFINE C == {n \in NodeList : Needs(n)}
           D == Stranded \union UNION {Unwanted(n, sdsSeen.tmpl) : n \in NodeList}
<1>1. C \in SUBSET Nodes
  BY DEF NodeList
<1>2. D \in SUBSET Ids
  BY DEF Stranded, Unwanted, TooMany, Alive, Running, OnNode, Oldest
<1> HIDE DEF C, D
<1>3. IsFiniteSet(C) /\ IsFiniteSet(D)
  BY <1>1, <1>2, NodeSets, PodSets
<1>4. PICK c \in Some(C, Burst), d \in Some(D, Burst) : SyncNodes("managed", sdsSeen.tmpl, c, d)
  BY DEF Manage, C, D
<1>5. c \subseteq C /\ Cardinality(c) <= Burst /\ d \subseteq D /\ Cardinality(d) <= Burst
  BY <1>3, <1>4, SomeSets, BurstAssumption
<1> QED BY <1>2, <1>4, <1>5 DEF C

(* ... and what an update without surge does. *)
LEMMA RolledDeletes ==
  ASSUME TypeOK, RollDelete
  PROVE  \E d \in SUBSET Ids, N \in SUBSET Nodes :
           /\ Cardinality(d) <= Burst /\ SyncNodes("rolled", job.hash, {}, d)
           /\ going' = going \union GivenUp(N)
<1> DEFINE room == Lower(MaxUnavailable, Cardinality({n \in RollNodes : OutOfService(n)}))
           D(chosen) == UNION {OldPods(n) : n \in (Behind \ Candidates) \union chosen}
<1>1. PICK chosen \in Some(Candidates, room) :
        \E d \in Some(D(chosen), Burst) :
          /\ SyncNodes("rolled", job.hash, {}, d)
          /\ going' = going \union GivenUp({n \in chosen : ShouldRun(n) /\ OldPods(n) \subseteq d})
  BY DEF RollDelete
<1>2. room \in Nat
  <2> DEFINE O == {n \in RollNodes : OutOfService(n)}
  <2>1. O \in SUBSET Nodes
    BY DEF RollNodes
  <2> HIDE DEF O
  <2>2. Cardinality(O) \in Nat
    BY <2>1, NodeSets
  <2>3. MaxUnavailable \in Nat
    BY StrategyAssumption DEF MaxUnavailable, TypeOK
  <2> QED BY <2>2, <2>3, LowerType DEF O
<1> HIDE DEF room
<1>3. Candidates \in SUBSET Nodes
  BY DEF Candidates, Behind, RollNodes
<1>4. chosen \in SUBSET Nodes
  BY <1>1, <1>2, <1>3, NodeSets, SomeSets
<1>5. PICK d \in Some(D(chosen), Burst) :
          /\ SyncNodes("rolled", job.hash, {}, d)
          /\ going' = going \union GivenUp({n \in chosen : ShouldRun(n) /\ OldPods(n) \subseteq d})
  BY <1>1
<1>6. D(chosen) \in SUBSET Ids
  BY DEF OldPods, Alive, OnNode
<1>7. IsFiniteSet(D(chosen))
  BY <1>6, PodSets
<1> HIDE DEF D
<1>8. d \subseteq Ids /\ Cardinality(d) <= Burst
  BY <1>5, <1>6, <1>7, SomeSets, BurstAssumption
<1> QED BY <1>4, <1>5, <1>8

(* ... and one with surge. *)
LEMMA RolledCreates ==
  ASSUME TypeOK, RollCreate
  PROVE  LET room == Lower(strategy.surge, Cardinality({n \in RollNodes : Surging(n)}))
         IN  \E chosen \in SUBSET Candidates, c \in SUBSET Behind, d \in SUBSET Ids :
               /\ Cardinality(chosen) <= room
               /\ Cardinality(c) <= Burst /\ Cardinality(d) <= Burst
               /\ c \intersect Candidates \subseteq chosen
               /\ SyncNodes("rolled", job.hash, c, d)
               /\ going' = {g \in going : g[1] \notin c} \union GivenUp({n \in chosen \intersect c : ShouldRun(n)})
<1> DEFINE room == Lower(strategy.surge, Cardinality({n \in RollNodes : Surging(n)}))
           D == UNION {OldPods(n) : n \in {m \in RollNodes : Surged(m)}}
           Plan(chosen, c, d) ==
             /\ SyncNodes("rolled", job.hash, c, d)
             /\ going' = {g \in going : g[1] \notin c} \union GivenUp({n \in chosen \intersect c : ShouldRun(n)})
<1>1. PICK chosen \in Some(Candidates, room) :
        \E c \in Some((Behind \ Candidates) \union chosen, Burst) : \E d \in Some(D, Burst) : Plan(chosen, c, d)
  BY DEF RollCreate
<1>2. room \in Nat
  <2> DEFINE O == {n \in RollNodes : Surging(n)}
  <2>1. O \in SUBSET Nodes
    BY DEF RollNodes
  <2> HIDE DEF O
  <2>2. Cardinality(O) \in Nat
    BY <2>1, NodeSets
  <2>3. strategy.surge \in Nat
    BY StrategyAssumption DEF TypeOK
  <2> QED BY <2>2, <2>3, LowerType DEF O
<1> HIDE DEF room, Plan
<1>3. Candidates \in SUBSET Behind /\ Behind \in SUBSET Nodes
  BY DEF Candidates, Behind, RollNodes
<1>4. chosen \in SUBSET Candidates /\ Cardinality(chosen) <= room
  BY <1>1, <1>2, <1>3, NodeSets, SomeSets
<1>5. PICK c \in Some((Behind \ Candidates) \union chosen, Burst) : \E d \in Some(D, Burst) : Plan(chosen, c, d)
  BY <1>1
<1>6. c \in SUBSET ((Behind \ Candidates) \union chosen) /\ Cardinality(c) <= Burst
  <2>1. (Behind \ Candidates) \union chosen \in SUBSET Nodes
    BY <1>3, <1>4
  <2> QED BY <2>1, <1>5, NodeSets, SomeSets, BurstAssumption
<1>7. D \in SUBSET Ids
  BY DEF OldPods, Alive, OnNode
<1>8. IsFiniteSet(D)
  BY <1>7, PodSets
<1> HIDE DEF D
<1>9. PICK d \in Some(D, Burst) : Plan(chosen, c, d)
  BY <1>5
<1>10. d \in SUBSET Ids /\ Cardinality(d) <= Burst
  BY <1>7, <1>8, <1>9, SomeSets, BurstAssumption
<1>11. c \in SUBSET Behind /\ c \intersect Candidates \subseteq chosen
  BY <1>3, <1>4, <1>6
<1> QED BY <1>4, <1>6, <1>9, <1>10, <1>11 DEF room, Plan

(* Every step, one by one. *)
LEMMA Steps ==
  ASSUME [Next]_vars
  PROVE  \/ OnlyReport \/ Manage \/ SkipRest \/ RollingUpdate \/ SyncEnd
         \/ (\E n \in Nodes : CreatePod(n) \/ CreateFails(n))
         \/ (\E i \in Ids : DeletePod(i) \/ DeleteFails(i))
         \/ (\E i \in Ids : Evict(i) \/ PodBreaks(i) \/ PodReady(i) \/ PodGoes(i))
         \/ (\E n \in Nodes, s \in NodeStates : ChangeNode(n, s))
         \/ ChangeTemplate \/ Expire \/ Restart \/ DeliverPod \/ DeliverSet
         \/ UNCHANGED vars
BY DEF Next, Worker, Faults

LEMMA ReportType ==
  ASSUME TypeOK, NEW h, NEW r \in BOOLEAN, NEW a \in BOOLEAN, Report(h, r, a)
  PROVE  sds' \in Set /\ sds'.tmpl = sds.tmpl /\ queue' \in BOOLEAN /\ budget' \in [Disturbances -> Nat]
<1> DEFINE st == Stored(h, r)
<1>1. st \in Status
  BY StoredType
<1> HIDE DEF st
<1>2. [sds EXCEPT !.status = st] \in Set /\ [sds EXCEPT !.status = st].tmpl = sds.tmpl
  BY <1>1 DEF TypeOK, Set
<1>3. CASE sds' = [sds EXCEPT !.status = st] /\ queue' = a /\ UNCHANGED budget
  BY <1>2, <1>3 DEF TypeOK
<1>4. CASE Spend("fail") /\ queue' = TRUE /\ UNCHANGED sds
  BY <1>4, SpendType DEF TypeOK, Disturbances
<1> QED BY <1>3, <1>4 DEF Report, st

LEMMA ObservedType ==
  ASSUME TypeOK, CreationObserved \/ DeletionObserved \/ UNCHANGED exp
  PROVE  exp' \in [add : Nat, del : Nat] /\ exp'.add <= Burst /\ exp'.del <= Burst
BY ExpChanges DEF TypeOK, CreationObserved, DeletionObserved

LEMMA PodChanges ==
  ASSUME NEW p \in Pod, NEW ph \in {"unbound", "ready", "unready", "failed"}
  PROVE  /\ [p EXCEPT !.term = TRUE] \in Pod /\ [p EXCEPT !.phase = ph] \in Pod
         /\ Follows(p, [p EXCEPT !.term = TRUE])
         /\ p.phase # "failed" /\ ph # "unbound" => Follows(p, [p EXCEPT !.phase = ph])
BY DEF Pod, Follows

(* Each of the program's variables keeps its type. *)
LEMMA TypeStep ==
  ASSUME TypeOK, [Next]_vars
  PROVE  TypeOK'
<1>1. CASE OnlyReport
  <2>1. sds' \in Set /\ sds'.tmpl = sds.tmpl /\ queue' \in BOOLEAN /\ budget' \in [Disturbances -> Nat]
    BY <1>1, ReportType DEF OnlyReport
  <2> QED BY <1>1, <2>1 DEF OnlyReport, podVars, TypeOK
<1>2. CASE Manage
  <2>1. PICK c \in SUBSET {n \in NodeList : Needs(n)}, d \in SUBSET Ids :
           Cardinality(c) <= Burst /\ Cardinality(d) <= Burst /\ SyncNodes("managed", sdsSeen.tmpl, c, d)
    BY <1>2, Managed
  <2>2. c \in SUBSET Nodes /\ sdsSeen.tmpl \in Templates
    BY DEF NodeList, TypeOK, Set
  <2>3. /\ exp' \in [add : Nat, del : Nat] /\ exp'.add <= Burst /\ exp'.del <= Burst
        /\ job' \in Job /\ job'.create \intersect job'.batch = {}
    BY <2>1, <2>2, SyncNodesType
  <2>4. queue' \in BOOLEAN /\ UNCHANGED <<strategy, setVars, node, podVars, cache, going, late, budget>>
    BY <1>2 DEF Manage
  <2> QED BY <2>3, <2>4 DEF setVars, podVars, TypeOK
<1>3. CASE SkipRest
  <2>1. Cardinality(job.create) \in Nat
    BY NodeSets DEF TypeOK, Job
  <2>2. exp' \in [add : Nat, del : Nat] /\ exp'.add <= Burst /\ exp'.del <= Burst
    BY <1>3, <2>1, ExpChanges DEF SkipRest, TypeOK
  <2>3. job' \in Job /\ job'.create \intersect job'.batch = {}
    BY <1>3 DEF SkipRest, TypeOK, Job
  <2> QED BY <1>3, <2>2, <2>3 DEF SkipRest, GiveUpNot, setVars, podVars, TypeOK
<1>4. CASE RollingUpdate
  <2>0. job.hash \in Templates
    BY DEF TypeOK, Job
  <2>1. ASSUME NEW N \in SUBSET Nodes PROVE GivenUp(N) \subseteq Nodes \X Ids
    BY DEF GivenUp, OldPods, Alive, OnNode
  <2>2. CASE RollDelete
    <3>1. PICK d \in SUBSET Ids, N \in SUBSET Nodes :
           /\ Cardinality(d) <= Burst /\ SyncNodes("rolled", job.hash, {}, d)
           /\ going' = going \union GivenUp(N)
      BY <2>2, RolledDeletes
    <3>2. Cardinality({}) <= Burst /\ {} \in SUBSET Nodes
      BY FS_EmptySet, BurstAssumption
    <3>3. /\ exp' \in [add : Nat, del : Nat] /\ exp'.add <= Burst /\ exp'.del <= Burst
          /\ job' \in Job /\ job'.create \intersect job'.batch = {}
      BY <2>0, <3>1, <3>2, SyncNodesType
    <3>4. going' \subseteq Nodes \X Ids
      BY <3>1, <2>1 DEF TypeOK
    <3> QED BY <1>4, <3>3, <3>4 DEF RollingUpdate, setVars, podVars, TypeOK
  <2>3. CASE RollCreate
    <3>1. PICK chosen \in SUBSET Candidates, c \in SUBSET Behind, d \in SUBSET Ids :
               /\ Cardinality(c) <= Burst /\ Cardinality(d) <= Burst
               /\ SyncNodes("rolled", job.hash, c, d)
               /\ going' = {g \in going : g[1] \notin c} \union GivenUp({n \in chosen \intersect c : ShouldRun(n)})
      BY <2>3, RolledCreates
    <3>2. c \in SUBSET Nodes
      BY DEF Behind, RollNodes
    <3>3. /\ exp' \in [add : Nat, del : Nat] /\ exp'.add <= Burst /\ exp'.del <= Burst
          /\ job' \in Job /\ job'.create \intersect job'.batch = {}
      BY <2>0, <3>1, <3>2, SyncNodesType
    <3>4. GivenUp({n \in chosen \intersect c : ShouldRun(n)}) \subseteq Nodes \X Ids
      BY <3>2, <2>1
    <3>5. going' \subseteq Nodes \X Ids
      BY <3>1, <3>4 DEF TypeOK
    <3> QED BY <1>4, <3>3, <3>5 DEF RollingUpdate, setVars, podVars, TypeOK
  <2> QED BY <1>4, <2>2, <2>3 DEF RollingUpdate
<1>5. CASE SyncEnd
  <2>1. (queue \/ job.err) \in BOOLEAN
    OBVIOUS
  <2>2. sds' \in Set /\ sds'.tmpl = sds.tmpl /\ queue' \in BOOLEAN /\ budget' \in [Disturbances -> Nat]
    BY <1>5, <2>1, ReportType DEF SyncEnd
  <2>3. job' \in Job /\ job'.create \intersect job'.batch = {}
    BY <1>5, IdleType DEF SyncEnd
  <2> QED BY <1>5, <2>2, <2>3 DEF SyncEnd, podVars, TypeOK
<1>6. ASSUME NEW n \in Nodes, CreatePod(n) PROVE TypeOK'
  <2>1. pods' \in PodsOf /\ watch' \in Seq(Event) /\ created' \in 0 .. MaxPods
    BY <1>6, NewPodType DEF CreatePod
  <2> DEFINE j == [job EXCEPT !.batch = @ \ {n}]
  <2>2. j \in Job /\ j.create = job.create /\ j.batch = job.batch \ {n}
    BY DEF TypeOK, Job
  <2>3. job' = NextBatch(j)
    BY <1>6 DEF CreatePod
  <2> HIDE DEF j
  <2>4. j.create \intersect j.batch = {}
    BY <2>2 DEF TypeOK
  <2>5. job' \in Job /\ job'.create \intersect job'.batch = {}
    BY <2>2, <2>3, <2>4, Batched
  <2> QED BY <1>6, <2>1, <2>5 DEF CreatePod, setVars, PodsOf, TypeOK
<1>7. ASSUME NEW n \in Nodes, CreateFails(n) PROVE TypeOK'
  <2>1. budget' \in [Disturbances -> Nat]
    BY <1>7, SpendType DEF CreateFails, TypeOK, Disturbances
  <2>2. pods' \in PodsOf /\ watch' \in Seq(Event) /\ created' \in 0 .. MaxPods /\ late' \in BOOLEAN
    <3>1. CASE UNCHANGED <<podVars, late>>
      BY <3>1 DEF podVars, TypeOK, PodsOf
    <3>2. CASE NewPod(n) /\ late' = TRUE
      BY <3>2, NewPodType
    <3> QED BY <1>7, <3>1, <3>2 DEF CreateFails
  <2>3. exp' \in [add : Nat, del : Nat] /\ exp'.add <= Burst /\ exp'.del <= Burst
    BY <1>7, ObservedType DEF CreateFails
  <2>4. job' \in Job /\ job'.create \intersect job'.batch = {}
    <3> DEFINE f == [job EXCEPT !.batch = @ \ {n}, !.err = TRUE]
    <3>1. f \in Job /\ f.create = job.create /\ f.batch = job.batch \ {n}
      BY DEF TypeOK, Job
    <3>2. job' = f
      BY <1>7 DEF CreateFails
    <3> HIDE DEF f
    <3> QED BY <3>1, <3>2 DEF TypeOK
  <2> QED BY <1>7, <2>1, <2>2, <2>3, <2>4 DEF CreateFails, GiveUpNot, setVars, PodsOf, TypeOK
<1>8. ASSUME NEW i \in Ids, DeletePod(i) PROVE TypeOK'
  <2>1. pods' \in PodsOf /\ watch' \in Seq(Event) /\ created' = created
    <3>1. CASE pods[i] = Gone
      BY <1>8, <3>1 DEF DeletePod, podVars, TypeOK, PodsOf
    <3>2. CASE pods[i] # Gone
      BY <1>8, <3>2, DeleteType DEF DeletePod
    <3> QED BY <3>1, <3>2
  <2>2. exp' \in [add : Nat, del : Nat] /\ exp'.add <= Burst /\ exp'.del <= Burst
    BY <1>8, ObservedType DEF DeletePod
  <2>3. job' \in Job /\ job'.create \intersect job'.batch = {}
    BY <1>8 DEF DeletePod, TypeOK, Job
  <2>4. going' \subseteq Nodes \X Ids
    BY <1>8 DEF DeletePod, KeepPod, TypeOK
  <2> QED BY <1>8, <2>1, <2>2, <2>3, <2>4 DEF DeletePod, setVars, PodsOf, TypeOK
<1>9. ASSUME NEW i \in Ids, DeleteFails(i) PROVE TypeOK'
  <2>1. budget' \in [Disturbances -> Nat]
    BY <1>9, SpendType DEF DeleteFails, TypeOK, Disturbances
  <2>2. exp' \in [add : Nat, del : Nat] /\ exp'.add <= Burst /\ exp'.del <= Burst
    BY <1>9, ObservedType DEF DeleteFails
  <2>3. job' \in Job /\ job'.create \intersect job'.batch = {}
    <3> DEFINE f == [job EXCEPT !.delete = @ \ {i}, !.err = TRUE]
    <3>1. f \in Job /\ f.create = job.create /\ f.batch = job.batch
      BY DEF TypeOK, Job
    <3>2. job' = f
      BY <1>9 DEF DeleteFails
    <3> HIDE DEF f
    <3> QED BY <3>1, <3>2 DEF TypeOK
  <2>4. going' \subseteq Nodes \X Ids
    BY <1>9 DEF DeleteFails, KeepPod, TypeOK
  <2> QED BY <1>9, <2>1, <2>2, <2>3, <2>4 DEF DeleteFails, setVars, podVars, TypeOK
<1>10. ASSUME NEW i \in Ids, Evict(i) PROVE TypeOK'
  <2>1. budget' \in [Disturbances -> Nat]
    BY <1>10, SpendType DEF Evict, TypeOK, Disturbances
  <2>2. pods' \in PodsOf /\ watch' \in Seq(Event) /\ created' = created
    BY <1>10, DeleteType DEF Evict
  <2> QED BY <1>10, <2>1, <2>2 DEF Evict, setVars, PodsOf, TypeOK
<1>11. ASSUME NEW i \in Ids, PodBreaks(i) PROVE TypeOK'
  <2>1. budget' \in [Disturbances -> Nat]
    BY <1>11, SpendType DEF PodBreaks, TypeOK, Disturbances
  <2>2. pods' \in PodsOf /\ watch' \in Seq(Event)
    <3>1. pods[i] \in Pod
      BY <1>11 DEF PodBreaks, TypeOK
    <3> QED BY <1>11, <3>1, WriteType, PodChanges DEF PodBreaks
  <2> QED BY <1>11, <2>1, <2>2 DEF PodBreaks, setVars, PodsOf, TypeOK
<1>12. ASSUME NEW i \in Ids, PodReady(i) PROVE TypeOK'
  <2>1. pods' \in PodsOf /\ watch' \in Seq(Event)
    <3>1. pods[i] \in Pod
      BY <1>12 DEF PodReady, TypeOK
    <3> QED BY <1>12, <3>1, WriteType, PodChanges DEF PodReady
  <2>2. going' \subseteq Nodes \X Ids
    BY <1>12 DEF PodReady, TypeOK
  <2> QED BY <1>12, <2>1, <2>2 DEF PodReady, setVars, PodsOf, TypeOK
<1>13. ASSUME NEW i \in Ids, PodGoes(i) PROVE TypeOK'
  <2>1. pods' \in PodsOf /\ watch' \in Seq(Event)
    BY <1>13, WriteType DEF PodGoes
  <2> QED BY <1>13, <2>1 DEF PodGoes, setVars, PodsOf, TypeOK
<1>14. ASSUME NEW n \in Nodes, NEW s \in NodeStates, ChangeNode(n, s) PROVE TypeOK'
  <2>1. budget' \in [Disturbances -> Nat]
    BY <1>14, SpendType DEF ChangeNode, TypeOK, Disturbances
  <2> QED BY <1>14, <2>1 DEF ChangeNode, GiveUpNot, setVars, podVars, TypeOK
<1>15. CASE ChangeTemplate
  <2>1. budget' \in [Disturbances -> Nat]
    BY <1>15, SpendType DEF ChangeTemplate, TypeOK, Disturbances
  <2>2. sds' \in Set
    <3>1. sds.tmpl + 1 \in Templates
      BY <1>15, BoundsAssumption DEF ChangeTemplate, TypeOK, Set, Templates
    <3> QED BY <1>15, <3>1 DEF ChangeTemplate, TypeOK, Set
  <2> QED BY <1>15, <2>1, <2>2 DEF ChangeTemplate, podVars, TypeOK
<1>16. CASE Expire
  <2>1. budget' \in [Disturbances -> Nat]
    BY <1>16, SpendType DEF Expire, TypeOK, Disturbances
  <2> QED BY <1>16, <2>1, BurstAssumption DEF Expire, setVars, podVars, TypeOK
<1>17. CASE Restart
  <2>1. budget' \in [Disturbances -> Nat]
    BY <1>17, SpendType DEF Restart, TypeOK, Disturbances
  <2>2. job' \in Job /\ job'.create \intersect job'.batch = {}
    BY <1>17, IdleType DEF Restart
  <2>3. going' \subseteq Nodes \X Ids
    BY <1>17 DEF Restart, TypeOK
  <2>4. watch' \in Seq(Event)
    BY <1>17 DEF Restart
  <2> QED BY <1>17, <2>1, <2>2, <2>3, <2>4, BurstAssumption DEF Restart, TypeOK
<1>18. CASE DeliverPod
  <2> DEFINE e == Head(watch)
  <2>1. e \in Event /\ watch' \in Seq(Event)
    BY <1>18, Delivered DEF DeliverPod, TypeOK
  <2>2. exp' \in [add : Nat, del : Nat] /\ exp'.add <= Burst /\ exp'.del <= Burst
    BY <1>18, ObservedType DEF DeliverPod
  <2>3. cache' = [cache EXCEPT ![e.id] = e.pod]
    BY <1>18 DEF DeliverPod
  <2> HIDE DEF e
  <2>4. cache' \in PodsOf
    BY <2>1, <2>3 DEF TypeOK, Event, PodsOf
  <2> QED BY <1>18, <2>1, <2>2, <2>4 DEF DeliverPod, setVars, PodsOf, TypeOK
<1>19. CASE DeliverSet
  BY <1>19 DEF DeliverSet, podVars, TypeOK
<1>20. CASE UNCHANGED vars
  BY <1>20 DEF vars, setVars, podVars, TypeOK
<1> QED BY <1>1, <1>2, <1>3, <1>4, <1>5, <1>6, <1>7, <1>8, <1>9, <1>10, <1>11, <1>12, <1>13, <1>14, <1>15,
           <1>16, <1>17, <1>18, <1>19, <1>20, Steps

-----------------------------------------------------------------------------
(* Steps that create no pod and plan none. *)

LEMMA SingleShrinks ==
  ASSUME NEW P, NEW Q, Shrinks(P, Q), NEW N, NEW M \in SUBSET N, Single(P, N)
  PROVE  Single(Q, M)
BY DEF Single, Shrinks, Follows

LEMMA GoingFinite ==
  ASSUME NEW G \in SUBSET (Nodes \X Ids)
  PROVE  IsFiniteSet(G) /\ Cardinality(G) \in Nat
<1>1. IsFiniteSet(Ids)
  BY PodSets
<1>2. IsFiniteSet(Nodes \X Ids)
  BY <1>1, NodesAssumption, FS_Product
<1> QED BY <1>2, FS_Subset, FS_CardinalityType

LEMMA DoubledShrinks ==
  ASSUME NEW P, NEW Q, Shrinks(P, Q), NEW N, NEW M \in SUBSET N,
         NEW G \in SUBSET (Nodes \X Ids), NEW H \in SUBSET G
  PROVE  Cardinality(Doubled(H, Q, M)) <= Cardinality(Doubled(G, P, N))
<1>1. Doubled(H, Q, M) \subseteq Doubled(G, P, N)
  <2> SUFFICES ASSUME NEW g \in Doubled(H, Q, M) PROVE g \in Doubled(G, P, N)
    OBVIOUS
  <2>1. g \in G /\ g[2] \in Running(Q, g[1]) /\ (g[1] \in N \/ Alive(Q, g[1]) # {g[2]})
    BY DEF Doubled
  <2>2. Running(Q, g[1]) \subseteq Running(P, g[1]) /\ Alive(Q, g[1]) \subseteq Alive(P, g[1])
    BY ShrinkingViews
  <2>3. g[2] \in Alive(Q, g[1])
    BY <2>1 DEF Running
  <2> QED BY <2>1, <2>2, <2>3 DEF Doubled
<1>2. IsFiniteSet(Doubled(G, P, N))
  BY GoingFinite DEF Doubled
<1> QED BY <1>1, <1>2, FS_Subset

LEMMA SurgesShrinks ==
  ASSUME NEW P, NEW Q, Shrinks(P, Q), NEW N, NEW M \in SUBSET N,
         NEW G \in SUBSET (Nodes \X Ids), NEW H \in SUBSET G, NEW s \in Nat,
         Surges(G, P, N, s), NotStarted(H, Q)
  PROVE  Surges(H, Q, M, s)
<1>1. AtMostTwo(Q, M)
  <2> SUFFICES ASSUME NEW n \in Nodes
               PROVE  /\ \E a, b \in 0 .. MaxPods : Running(Q, n) \subseteq {a, b}
                      /\ n \in M => \E a \in 0 .. MaxPods : Running(Q, n) \subseteq {a}
    BY DEF AtMostTwo
  <2>1. Running(Q, n) \subseteq Running(P, n)
    BY ShrinkingViews
  <2>2. /\ \E a, b \in 0 .. MaxPods : Running(P, n) \subseteq {a, b}
        /\ n \in N => \E a \in 0 .. MaxPods : Running(P, n) \subseteq {a}
    BY DEF Surges, AtMostTwo
  <2> QED BY <2>1, <2>2
<1>2. OneEntry(H, Q)
  BY ShrinkingViews DEF Surges, OneEntry
<1>3. Cardinality(Doubled(H, Q, M)) <= s
  <2>1. Cardinality(Doubled(H, Q, M)) \in Nat /\ Cardinality(Doubled(G, P, N)) \in Nat
    <3>1. Doubled(H, Q, M) \in SUBSET (Nodes \X Ids) /\ Doubled(G, P, N) \in SUBSET (Nodes \X Ids)
      BY DEF Doubled
    <3> QED BY <3>1, GoingFinite
  <2>2. Cardinality(Doubled(H, Q, M)) <= Cardinality(Doubled(G, P, N))
    BY DoubledShrinks
  <2> QED BY <2>1, <2>2 DEF Surges
<1> QED BY <1>1, <1>2, <1>3 DEF Surges

LEMMA GrownShrinks ==
  ASSUME NEW P \in PodsOf, NEW Q \in PodsOf, Shrinks(P, Q), NEW G \in SUBSET (Nodes \X Ids), NEW H \in SUBSET G,
         NEW t \in Nat, NEW u \in Nat, t <= u, NEW j, NEW m,
         m.pc # "idle" => j.pc # "idle" /\ m.hash = j.hash, j.hash \in Nat,
         Grown(P, G, t, j)
  PROVE  Grown(Q, H, u, m)
<1>1. \A i \in Ids : Q[i] # Gone => P[i] # Gone /\ Q[i].hash = P[i].hash /\ Q[i].hash \in Nat
  BY DEF Shrinks, Follows, PodsOf, Pod, Templates
<1>2. \A i \in Ids : Q[i] # Gone => Q[i].hash <= u /\ (m.pc # "idle" => Q[i].hash <= m.hash)
  BY <1>1 DEF Grown
<1>3. m.pc # "idle" => m.hash <= u
  BY DEF Grown
<1>4. ASSUME NEW g \in H, Q[g[2]] # Gone PROVE Q[g[2]].hash < u /\ (m.pc # "idle" => Q[g[2]].hash < m.hash)
  <2>1. g[2] \in Ids /\ g \in G
    OBVIOUS
  <2> QED BY <1>1, <1>4, <2>1 DEF Grown
<1> QED BY <1>2, <1>3, <1>4 DEF Grown

LEMMA TypeFacts ==
  ASSUME TypeOK
  PROVE  /\ pods \in PodsOf /\ cache \in PodsOf /\ watch \in Seq(Event) /\ created \in Nat
         /\ strategy.surge \in Nat /\ going \in SUBSET (Nodes \X Ids)
         /\ sdsSeen.tmpl \in Nat /\ sds.tmpl \in Nat /\ job.hash \in Nat /\ job \in Job
         /\ Pending(job) \in SUBSET Nodes /\ exp.add \in Nat
BY StrategyAssumption, BoundsAssumption DEF TypeOK, PodsOf, Set, Templates, Job, Pending

LEMMA Shrunk ==
  ASSUME IInv, TypeOK', Piped(pods, cache, watch, created)', Shrinks(pods, pods'),
         created' = created, strategy' = strategy, going' \subseteq going,
         sdsSeen.tmpl <= sdsSeen'.tmpl, sdsSeen'.tmpl <= sds'.tmpl,
         job'.pc # "idle" => job.pc # "idle" /\ job'.hash = job.hash,
         job'.pc = "idle" => Pending(job') = {},
         Pending(job') \subseteq Pending(job),
         ~late' => ~late /\ Counted(exp', job', cache', watch'),
         ~late' /\ strategy.surge # 0 => NotStarted(going', pods')
  PROVE  IInv'
<1>1. /\ pods \in PodsOf /\ strategy.surge \in Nat /\ going \in SUBSET (Nodes \X Ids)
      /\ sdsSeen.tmpl \in Nat /\ job.hash \in Nat
  BY TypeFacts DEF IInv
<1>2. pods' \in PodsOf /\ sdsSeen'.tmpl \in Nat
  BY BoundsAssumption DEF TypeOK, PodsOf, Set, Templates
<1>3. Grown(pods', going', sdsSeen'.tmpl, job')
  BY <1>1, <1>2, GrownShrinks DEF IInv
<1>4. \A g \in going' : g[2] <= created'
  BY DEF IInv
<1>5. ASSUME ~late' PROVE OnTime'
  <2>1. OnTime /\ Counted(exp', job', cache', watch')
    BY <1>5 DEF IInv
  <2>2. CASE strategy.surge = 0
    <3>1. Single(pods', Pending(job'))
      BY <2>1, <2>2, SingleShrinks DEF OnTime
    <3> QED BY <2>1, <2>2, <3>1 DEF OnTime
  <2>3. CASE strategy.surge # 0
    <3>1. NotStarted(going', pods')
      BY <1>5, <2>3
    <3>2. Surges(going, pods, Pending(job), strategy.surge)
      BY <2>1, <2>3 DEF OnTime
    <3>3. Surges(going', pods', Pending(job'), strategy.surge)
      BY <3>1, <3>2, <1>1, SurgesShrinks
    <3> QED BY <2>1, <2>3, <3>3 DEF OnTime
  <2> QED BY <2>2, <2>3
<1> QED BY <1>3, <1>4, <1>5 DEF IInv

LEMMA NotStartedShrinks ==
  ASSUME NEW P, NEW Q, Shrinks(P, Q), NEW G, NEW H \in SUBSET G, NotStarted(G, P),
         \A i \in Ids : Q[i] # Gone /\ P[i].phase = "unbound" => Q[i].phase = "unbound"
  PROVE  NotStarted(H, Q)
<1> SUFFICES ASSUME NEW g \in H, NEW j \in Alive(Q, g[1]), j # g[2] PROVE Q[j].phase = "unbound"
  BY DEF NotStarted
<1>1. j \in Alive(P, g[1]) /\ j \in Ids /\ Q[j] # Gone
  BY ShrinkingViews DEF Alive, OnNode
<1> QED BY <1>1 DEF NotStarted

LEMMA ShrinksSame ==
  ASSUME NEW P
  PROVE  Shrinks(P, P)
BY DEF Shrinks, Follows

LEMMA StartedNot ==
  ASSUME IInv, ~late, strategy.surge # 0
  PROVE  NotStarted(going, pods)
BY DEF IInv, OnTime, Surges

(* The pods are as they were. *)
LEMMA Untouched ==
  ASSUME IInv, TypeOK', UNCHANGED <<strategy, pods, watch, created, cache>>, going' \subseteq going,
         sdsSeen.tmpl <= sdsSeen'.tmpl, sdsSeen'.tmpl <= sds'.tmpl,
         job'.pc # "idle" => job.pc # "idle" /\ job'.hash = job.hash,
         job'.pc = "idle" => Pending(job') = {},
         Pending(job') \subseteq Pending(job),
         ~late' => ~late /\ exp'.add = Cardinality(Pending(job')) + Cardinality(Unseen(cache, watch))
  PROVE  IInv'
<1>1. Piped(pods, cache, watch, created)'
  BY DEF IInv
<1>2. Shrinks(pods, pods')
  BY ShrinksSame
<1>3. ~late' => Counted(exp', job', cache', watch')
  BY DEF Counted
<1>4. ~late' /\ strategy.surge # 0 => NotStarted(going', pods')
  BY <1>2, StartedNot, NotStartedShrinks
<1> QED BY <1>1, <1>2, <1>3, <1>4, Shrunk

(* The job, its expectations and the caches are as they were, a pod is not. *)
LEMMA Touched ==
  ASSUME IInv, TypeOK', UNCHANGED <<strategy, sdsSeen, created, cache, late>>, sds'.tmpl = sds.tmpl,
         going' \subseteq going,
         job'.pc = job.pc, job'.hash = job.hash, Pending(job') = Pending(job), exp'.add = exp.add,
         NEW i \in Ids, pods[i] # Gone, NEW q \in Pod \union {Gone}, q # Gone => Follows(pods[i], q), Write(i, q),
         ~late /\ strategy.surge # 0 => NotStarted(going', pods')
  PROVE  IInv'
<1>1. pods \in PodsOf /\ cache \in PodsOf /\ watch \in Seq(Event) /\ created \in Nat /\ sdsSeen.tmpl \in Nat
  BY TypeFacts DEF IInv
<1>2. /\ Piped(pods', cache, watch', created) /\ Shrinks(pods, pods')
      /\ Unseen(cache, watch') = Unseen(cache, watch)
  <2>1. Piped(pods, cache, watch, created)
    BY DEF IInv
  <2>2. /\ Piped(Put(pods, i, q), cache, Noted(watch, i, q), created)
        /\ Shrinks(pods, Put(pods, i, q))
        /\ Unseen(cache, Noted(watch, i, q)) = Unseen(cache, watch)
    BY <1>1, <2>1, Changed
  <2>3. pods' = Put(pods, i, q) /\ watch' = Noted(watch, i, q)
    BY DEF Write, Put, Noted
  <2> QED BY <2>2, <2>3
<1>3. Piped(pods, cache, watch, created)'
  BY <1>2
<1>4. ~late' => Counted(exp', job', cache', watch')
  BY <1>2 DEF IInv, OnTime, Counted
<1>5. sdsSeen'.tmpl <= sds'.tmpl /\ sdsSeen.tmpl <= sdsSeen'.tmpl /\ (job'.pc = "idle" => Pending(job') = {})
  BY <1>1 DEF IInv
<1> QED BY <1>2, <1>3, <1>4, <1>5, Shrunk

(* DELETE of a pod that is there. *)
LEMMA Deleted ==
  ASSUME IInv, TypeOK', UNCHANGED <<strategy, sdsSeen, cache, late>>, sds'.tmpl = sds.tmpl,
         going' \subseteq going,
         job'.pc = job.pc, job'.hash = job.hash, Pending(job') = Pending(job), exp'.add = exp.add,
         NEW i \in Ids, pods[i] # Gone, Delete(i)
  PROVE  IInv'
<1>1. sdsSeen.tmpl \in Nat /\ pods \in PodsOf
  BY TypeFacts DEF IInv
<1>2. created' = created
  BY DEF Delete
<1>3. CASE UNCHANGED <<pods, watch>>
  <2>1. ~late' => exp'.add = Cardinality(Pending(job')) + Cardinality(Unseen(cache, watch))
    BY DEF IInv, OnTime, Counted
  <2>2. sdsSeen'.tmpl <= sds'.tmpl /\ sdsSeen.tmpl <= sdsSeen'.tmpl /\ (job'.pc = "idle" => Pending(job') = {})
    BY <1>1 DEF IInv
  <2> QED BY <1>2, <1>3, <2>1, <2>2, Untouched
<1>4. ASSUME NEW q \in Pod \union {Gone}, Write(i, q), q # Gone => q = [pods[i] EXCEPT !.term = TRUE] PROVE IInv'
  <2>1. pods[i] \in Pod
    BY <1>1 DEF PodsOf
  <2>2. q # Gone => Follows(pods[i], q) /\ q.phase = pods[i].phase
    <3> DEFINE r == [pods[i] EXCEPT !.term = TRUE]
    <3>1. Follows(pods[i], r) /\ r.phase = pods[i].phase
      BY <2>1 DEF Pod, Follows
    <3> HIDE DEF r
    <3> QED BY <3>1, <1>4 DEF r
  <2>3. pods'[i] = q /\ \A j \in Ids \ {i} : pods'[j] = pods[j]
    BY <1>1, <1>4 DEF Write, PodsOf
  <2>4. \A j \in Ids : pods'[j] # Gone /\ pods[j].phase = "unbound" => pods'[j].phase = "unbound"
    BY <2>2, <2>3
  <2>5. Shrinks(pods, pods')
    BY <2>2, <2>3 DEF Shrinks, Follows
  <2>6. ~late /\ strategy.surge # 0 => NotStarted(going', pods')
    BY <2>4, <2>5, StartedNot, NotStartedShrinks
  <2> QED BY <1>2, <1>4, <2>2, <2>6, Touched
<1>5. Gone \in Pod \union {Gone} /\ [pods[i] EXCEPT !.term = TRUE] \in Pod \union {Gone}
  BY <1>1, PodChanges DEF PodsOf
<1> QED BY <1>3, <1>4, <1>5 DEF Delete

(* A creation that has failed is not expected any more. *)
LEMMA CreationFailed ==
  ASSUME IInv, TypeOK', NEW n \in Nodes, CreateFails(n), UNCHANGED <<podVars, late>>
  PROVE  IInv'
<1> DEFINE f == [job EXCEPT !.batch = @ \ {n}, !.err = TRUE]
<1>1. job \in Job /\ job.create \intersect job.batch = {} /\ sdsSeen.tmpl \in Nat /\ exp \in [add : Nat, del : Nat]
  BY TypeFacts DEF IInv, TypeOK
<1>2. f.create = job.create /\ f.batch = job.batch \ {n} /\ f.pc = job.pc /\ f.hash = job.hash
  BY <1>1 DEF Job
<1>3. job' = f /\ n \in job.batch
  BY DEF CreateFails
<1> HIDE DEF f
<1>4. n \in Pending(job) /\ Pending(job') = Pending(job) \ {n}
  BY <1>1, <1>2, <1>3 DEF Pending
<1>5. Cardinality(Pending(job')) = Cardinality(Pending(job)) - 1 /\ Cardinality(Pending(job)) \in Nat
  <2>1. IsFiniteSet(Pending(job))
    BY <1>1, PendingFinite
  <2> QED BY <1>4, <2>1, FS_RemoveElement, FS_CardinalityType
<1>6. exp'.add = Lower(exp.add, 1)
  BY <1>1 DEF CreateFails, CreationObserved
<1>7. ~late' => ~late /\ exp'.add = Cardinality(Pending(job')) + Cardinality(Unseen(cache, watch))
  <2> SUFFICES ASSUME ~late' PROVE exp'.add = Cardinality(Pending(job')) + Cardinality(Unseen(cache, watch)) /\ ~late
    OBVIOUS
  <2>1. ~late /\ exp.add = Cardinality(Pending(job)) + Cardinality(Unseen(cache, watch))
    BY DEF IInv, OnTime, Counted
  <2>2. exp.add >= 1
    <3>1. Cardinality(Pending(job)) # 0
      BY <1>1, <1>4, PendingFinite, FS_EmptySet
    <3> QED BY <2>1, <3>1, <1>5, UnseenFinite
  <2> QED BY <2>1, <2>2, <1>1, <1>5, <1>6, UnseenFinite DEF Lower
<1>8. going' \subseteq going /\ UNCHANGED <<strategy, pods, watch, created, cache>>
  BY DEF CreateFails, GiveUpNot, podVars
<1>9. sdsSeen.tmpl <= sdsSeen'.tmpl /\ sdsSeen'.tmpl <= sds'.tmpl
  BY <1>1 DEF CreateFails, setVars, IInv
<1>10. (job'.pc = "idle" => Pending(job') = {}) /\ Pending(job') \subseteq Pending(job) /\ job'.pc = job.pc /\ job'.hash = job.hash
  BY <1>2, <1>3, <1>4 DEF IInv
<1> QED BY <1>7, <1>8, <1>9, <1>10, Untouched

(* Nor are those a sync gives up after a failure. *)
LEMMA RestSkipped ==
  ASSUME IInv, TypeOK', SkipRest
  PROVE  IInv'
<1> DEFINE f == [job EXCEPT !.create = {}]
<1>1. job \in Job /\ job.create \intersect job.batch = {} /\ sdsSeen.tmpl \in Nat /\ exp \in [add : Nat, del : Nat]
  BY TypeFacts DEF IInv, TypeOK
<1>2. f.create = {} /\ f.batch = job.batch /\ f.pc = job.pc /\ f.hash = job.hash
  BY <1>1, JobDrops
<1>3. job' = f /\ job.batch = {}
  BY DEF SkipRest
<1> HIDE DEF f
<1>4. Pending(job) = job.create /\ Pending(job') = {} /\ Cardinality(Pending(job')) = 0
  BY <1>2, <1>3, FS_EmptySet DEF Pending
<1>5. exp'.add = Lower(exp.add, Cardinality(job.create)) /\ UNCHANGED late
  BY <1>1 DEF SkipRest
<1>6. ~late' => ~late /\ exp'.add = Cardinality(Pending(job')) + Cardinality(Unseen(cache, watch))
  <2> SUFFICES ASSUME ~late' PROVE exp'.add = Cardinality(Pending(job')) + Cardinality(Unseen(cache, watch)) /\ ~late
    OBVIOUS
  <2>1. ~late /\ exp.add = Cardinality(Pending(job)) + Cardinality(Unseen(cache, watch))
    BY <1>5 DEF IInv, OnTime, Counted
  <2> QED BY <2>1, <1>1, <1>4, <1>5, UnseenFinite, PendingFinite DEF Lower
<1>7. going' \subseteq going /\ UNCHANGED <<strategy, pods, watch, created, cache>>
  BY DEF SkipRest, GiveUpNot, podVars
<1>8. sdsSeen.tmpl <= sdsSeen'.tmpl /\ sdsSeen'.tmpl <= sds'.tmpl
  BY <1>1 DEF SkipRest, setVars, IInv
<1> QED BY <1>2, <1>3, <1>4, <1>6, <1>7, <1>8, Untouched

(* The cache is told of a change. *)
LEMMA PodDelivered ==
  ASSUME IInv, TypeOK', DeliverPod
  PROVE  IInv'
<1> DEFINE x == Head(watch)
           D == Told(cache, x)
           v == Tail(watch)
<1>1. /\ pods \in PodsOf /\ cache \in PodsOf /\ watch \in Seq(Event) /\ created \in Nat /\ sdsSeen.tmpl \in Nat
      /\ exp \in [add : Nat, del : Nat] /\ Cardinality(Pending(job)) \in Nat
  BY TypeFacts, PendingFinite DEF IInv, TypeOK
<1>2. Piped(pods, cache, watch, created) /\ watch # <<>>
  BY DEF IInv, DeliverPod
<1>3. /\ Piped(pods, D, v, created)
      /\ cache[x.id] = Gone =>
           /\ x.pod # Gone /\ ~x.pod.term
           /\ x.id \in Unseen(cache, watch) /\ Unseen(D, v) = Unseen(cache, watch) \ {x.id}
      /\ cache[x.id] # Gone => Unseen(D, v) = Unseen(cache, watch)
  BY <1>1, <1>2, Seen
<1>4. /\ cache' = D /\ watch' = v
      /\ IF x.pod = Gone \/ (x.pod # Gone /\ x.pod.term) THEN DeletionObserved
         ELSE IF cache[x.id] = Gone THEN CreationObserved
         ELSE UNCHANGED exp
      /\ UNCHANGED <<strategy, sds, sdsSeen, pods, created, job, going, late>>
  BY DEF DeliverPod, setVars, Told
<1> HIDE DEF x, D, v
<1>5. Piped(pods, cache, watch, created)'
  BY <1>3, <1>4
<1>6. exp.add = Cardinality(Pending(job)) + Cardinality(Unseen(cache, watch))
        => exp'.add = Cardinality(Pending(job)) + Cardinality(Unseen(D, v))
  <2>1. CASE cache[x.id] = Gone
    <3>1. exp'.add = Lower(exp.add, 1)
      BY <2>1, <1>1, <1>3, <1>4 DEF CreationObserved
    <3>2. Cardinality(Unseen(D, v)) = Cardinality(Unseen(cache, watch)) - 1
      BY <2>1, <1>3, UnseenFinite, FS_RemoveElement
    <3> QED BY <3>1, <3>2, <1>1, UnseenFinite DEF Lower
  <2>2. CASE cache[x.id] # Gone
    <3>1. exp'.add = exp.add
      BY <2>2, <1>1, <1>4 DEF DeletionObserved
    <3> QED BY <2>2, <3>1, <1>3
  <2> QED BY <2>1, <2>2
<1>7. ~late' => ~late /\ Counted(exp', job', cache', watch')
  BY <1>4, <1>6 DEF IInv, OnTime, Counted
<1>8. Shrinks(pods, pods') /\ going' \subseteq going /\ Pending(job') = Pending(job)
  BY <1>4, ShrinksSame
<1>9. ~late' /\ strategy.surge # 0 => NotStarted(going', pods')
  BY <1>4, StartedNot
<1>10. sdsSeen.tmpl <= sdsSeen'.tmpl /\ sdsSeen'.tmpl <= sds'.tmpl /\ (job'.pc = "idle" => Pending(job') = {})
  BY <1>1, <1>4 DEF IInv
<1> QED BY <1>4, <1>5, <1>7, <1>8, <1>9, <1>10, Shrunk

(* A restarted controller has nothing to do and its caches are full. *)
LEMMA Restarted ==
  ASSUME IInv, TypeOK', Restart
  PROVE  IInv'
<1>1. pods \in PodsOf /\ created \in Nat /\ sdsSeen.tmpl \in Nat /\ sds.tmpl \in Nat
  BY TypeFacts DEF IInv
<1>2. /\ cache' = pods /\ watch' = <<>> /\ job' = Idle /\ exp'.add = 0 /\ going' \subseteq going /\ sdsSeen' = sds
      /\ UNCHANGED <<strategy, sds, pods, created, late>>
  BY DEF Restart
<1>3. \A i \in Ids : i > created => pods[i] = Gone
  BY DEF IInv, Piped, Fresh
<1>4. Piped(pods, pods, <<>>, created) /\ Unseen(pods, <<>>) = {}
  BY <1>1, <1>3, Refilled
<1>5. Piped(pods, cache, watch, created)'
  BY <1>2, <1>4
<1>6. job'.pc = "idle" /\ Pending(job') = {}
  BY <1>2, IdleType
<1>7. Counted(exp', job', cache', watch')
  <2>1. Unseen(cache', watch') = {} /\ Cardinality({}) = 0
    BY <1>2, <1>4, FS_EmptySet
  <2> QED BY <2>1, <1>2, <1>6 DEF Counted
<1>8. Shrinks(pods, pods')
  BY <1>2, ShrinksSame
<1>9. ~late' /\ strategy.surge # 0 => NotStarted(going', pods')
  BY <1>2, <1>8, StartedNot, NotStartedShrinks
<1>10. sdsSeen.tmpl <= sdsSeen'.tmpl /\ sdsSeen'.tmpl <= sds'.tmpl
  BY <1>1, <1>2 DEF IInv
<1> QED BY <1>2, <1>5, <1>6, <1>7, <1>8, <1>9, <1>10, Shrunk

LEMMA QuietStep ==
  ASSUME IInv, TypeOK',
         \/ OnlyReport \/ SkipRest \/ SyncEnd \/ ChangeTemplate \/ Expire \/ Restart \/ DeliverPod \/ DeliverSet
         \/ (\E n \in Nodes : CreateFails(n) /\ UNCHANGED <<podVars, late>>)
         \/ (\E i \in Ids : DeletePod(i) \/ DeleteFails(i))
         \/ (\E i \in Ids : Evict(i) \/ PodBreaks(i) \/ PodReady(i) \/ PodGoes(i))
         \/ (\E n \in Nodes, s \in NodeStates : ChangeNode(n, s))
         \/ UNCHANGED vars
  PROVE  IInv'
<1>1. /\ pods \in PodsOf /\ sdsSeen.tmpl \in Nat /\ sds.tmpl \in Nat /\ sdsSeen.tmpl <= sds.tmpl /\ TypeOK
      /\ exp \in [add : Nat, del : Nat] /\ job \in Job
      /\ job.pc = "idle" => Pending(job) = {}
  BY TypeFacts DEF IInv, TypeOK
<1>2. ~late => exp.add = Cardinality(Pending(job)) + Cardinality(Unseen(cache, watch))
  BY DEF IInv, OnTime, Counted
<1>3. CASE OnlyReport
  <2>1. sds'.tmpl = sds.tmpl
    BY <1>1, <1>3, ReportType DEF OnlyReport
  <2> QED BY <1>1, <1>2, <1>3, <2>1, Untouched DEF OnlyReport, podVars
<1>4. CASE SyncEnd
  <2>1. sds'.tmpl = sds.tmpl
    <3>1. (queue \/ job.err) \in BOOLEAN
      OBVIOUS
    <3> QED BY <1>1, <1>4, <3>1, ReportType DEF SyncEnd
  <2>2. Pending(job) = {} /\ Pending(job') = {} /\ job'.pc = "idle"
    BY <1>4, IdleType DEF SyncEnd, CallsDone, CreatesDone, Pending
  <2> QED BY <1>1, <1>2, <1>4, <2>1, <2>2, Untouched DEF SyncEnd, podVars
<1>5. CASE ChangeTemplate
  <2>1. sds'.tmpl = sds.tmpl + 1
    BY <1>5, <1>1 DEF ChangeTemplate, TypeOK, Set
  <2> QED BY <1>1, <1>2, <1>5, <2>1, Untouched DEF ChangeTemplate, podVars
<1>6. CASE Expire
  <2>1. UNCHANGED <<strategy, pods, watch, created, cache, going, sds, sdsSeen, job>> /\ late'
    BY <1>6 DEF Expire, podVars, setVars
  <2> QED BY <1>1, <2>1, Untouched
<1>7. CASE DeliverSet
  BY <1>1, <1>2, <1>7, Untouched DEF DeliverSet, podVars
<1>8. CASE UNCHANGED vars
  BY <1>1, <1>2, <1>8, Untouched DEF vars, podVars, setVars
<1>9. ASSUME NEW n \in Nodes, NEW s \in NodeStates, ChangeNode(n, s) PROVE IInv'
  <2>1. UNCHANGED <<strategy, pods, watch, created, cache, sds, sdsSeen, job, exp, late>> /\ going' \subseteq going
    BY <1>9 DEF ChangeNode, GiveUpNot, podVars, setVars
  <2> QED BY <1>1, <1>2, <2>1, Untouched
<1>10. ASSUME NEW i \in Ids, DeletePod(i) PROVE IInv'
  <2>1. job'.pc = job.pc /\ job'.hash = job.hash /\ Pending(job') = Pending(job)
    BY <1>1, <1>10 DEF DeletePod, Job, Pending
  <2>2. exp'.add = exp.add
    BY <1>1, <1>10 DEF DeletePod, DeletionObserved
  <2>3. going' \subseteq going /\ UNCHANGED <<strategy, sds, sdsSeen, cache, late>>
    BY <1>10 DEF DeletePod, KeepPod, setVars
  <2>4. CASE pods[i] = Gone
    <3>1. UNCHANGED <<pods, watch, created>>
      BY <1>10, <2>4 DEF DeletePod, podVars
    <3> QED BY <1>1, <1>2, <2>1, <2>2, <2>3, <3>1, Untouched
  <2>5. CASE pods[i] # Gone
    <3>1. Delete(i)
      BY <1>10, <2>5 DEF DeletePod
    <3> QED BY <2>1, <2>2, <2>3, <2>5, <3>1, Deleted
  <2> QED BY <2>4, <2>5
<1>11. ASSUME NEW i \in Ids, DeleteFails(i) PROVE IInv'
  <2>1. job'.pc = job.pc /\ job'.hash = job.hash /\ Pending(job') = Pending(job)
    BY <1>1, <1>11 DEF DeleteFails, Job, Pending
  <2>2. exp'.add = exp.add
    BY <1>1, <1>11 DEF DeleteFails, DeletionObserved
  <2>3. going' \subseteq going /\ UNCHANGED <<strategy, sds, sdsSeen, cache, late, pods, watch, created>>
    BY <1>11 DEF DeleteFails, KeepPod, setVars, podVars
  <2> QED BY <1>1, <1>2, <2>1, <2>2, <2>3, Untouched
<1>12. ASSUME NEW i \in Ids, Evict(i) PROVE IInv'
  <2>1. pods[i] # Gone /\ Delete(i) /\ UNCHANGED <<strategy, sds, sdsSeen, cache, late, going, job, exp>>
    BY <1>12 DEF Evict, setVars
  <2> QED BY <2>1, Deleted
<1>13. ASSUME NEW i \in Ids, PodBreaks(i) PROVE IInv'
  <2>1. /\ pods[i] # Gone /\ pods[i].phase = "ready"
        /\ UNCHANGED <<strategy, sds, sdsSeen, cache, late, going, job, exp, created>>
    BY <1>13 DEF PodBreaks, setVars, Available
  <2>2. PICK ph \in {"unready", "failed"} : Write(i, [pods[i] EXCEPT !.phase = ph])
    BY <1>13 DEF PodBreaks
  <2> DEFINE q == [pods[i] EXCEPT !.phase = ph]
  <2>3. pods[i] \in Pod
    BY <2>1, <1>1 DEF PodsOf
  <2>4. q \in Pod /\ Follows(pods[i], q)
    BY <2>1, <2>3, PodChanges
  <2>5. pods'[i] = q /\ \A j \in Ids \ {i} : pods'[j] = pods[j]
    BY <1>1, <2>2 DEF Write, PodsOf
  <2>6. Write(i, q)
    BY <2>2
  <2> HIDE DEF q
  <2>7. Shrinks(pods, pods')
    BY <2>1, <2>4, <2>5 DEF Shrinks, Follows
  <2>8. \A j \in Ids : pods'[j] # Gone /\ pods[j].phase = "unbound" => pods'[j].phase = "unbound"
    BY <2>1, <2>5
  <2>9. ~late /\ strategy.surge # 0 => NotStarted(going', pods')
    BY <2>1, <2>7, <2>8, StartedNot, NotStartedShrinks
  <2> QED BY <2>1, <2>4, <2>6, <2>9, Touched
<1>14. ASSUME NEW i \in Ids, PodReady(i) PROVE IInv'
  <2> DEFINE q == [pods[i] EXCEPT !.phase = "ready"]
  <2>1. /\ pods[i] # Gone /\ pods[i].phase \in {"unready", "unbound"} /\ Write(i, q)
        /\ going' = {g \in going : g[1] # pods[i].node \/ g[2] = i}
        /\ UNCHANGED <<strategy, sds, sdsSeen, cache, late, job, exp, created>>
    BY <1>14 DEF PodReady, setVars
  <2>3. pods[i] \in Pod
    BY <2>1, <1>1 DEF PodsOf
  <2>4. q \in Pod /\ Follows(pods[i], q)
    BY <2>1, <2>3, PodChanges
  <2>5. pods'[i] = q /\ \A j \in Ids \ {i} : pods'[j] = pods[j]
    BY <1>1, <2>1 DEF Write, PodsOf
  <2> HIDE DEF q
  <2>6. Shrinks(pods, pods')
    BY <2>1, <2>4, <2>5 DEF Shrinks, Follows
  <2>7. ASSUME ~late /\ strategy.surge # 0 PROVE NotStarted(going', pods')
    <3> SUFFICES ASSUME NEW g \in going', NEW j \in Alive(pods', g[1]), j # g[2] PROVE pods'[j].phase = "unbound"
      BY DEF NotStarted
    <3>1. j \in Alive(pods, g[1]) /\ g \in going
      BY <2>1, <2>6, ShrinkingViews
    <3>2. pods[j].phase = "unbound" /\ j \in Ids /\ pods[j].node = g[1]
      BY <2>7, <3>1, StartedNot DEF NotStarted, Alive, OnNode
    <3>3. j # i
      BY <2>1, <3>2
    <3> QED BY <2>5, <3>2, <3>3
  <2>8. going' \subseteq going
    BY <2>1
  <2> QED BY <2>1, <2>4, <2>7, <2>8, Touched
<1>15. ASSUME NEW i \in Ids, PodGoes(i) PROVE IInv'
  <2>1. pods[i] # Gone /\ Write(i, Gone) /\ UNCHANGED <<strategy, sds, sdsSeen, cache, late, going, job, exp, created>>
    BY <1>15 DEF PodGoes, setVars
  <2>2. pods'[i] = Gone /\ \A j \in Ids \ {i} : pods'[j] = pods[j]
    BY <1>1, <2>1 DEF Write, PodsOf
  <2>3. Shrinks(pods, pods')
    BY <2>2 DEF Shrinks, Follows
  <2>4. \A j \in Ids : pods'[j] # Gone /\ pods[j].phase = "unbound" => pods'[j].phase = "unbound"
    BY <2>2
  <2>5. ~late /\ strategy.surge # 0 => NotStarted(going', pods')
    BY <2>1, <2>3, <2>4, StartedNot, NotStartedShrinks
  <2> QED BY <2>1, <2>5, Touched
<1> QED BY <1>3, <1>4, <1>5, <1>6, <1>7, <1>8, <1>9, <1>10, <1>11, <1>12, <1>13, <1>14, <1>15,
           CreationFailed, RestSkipped, PodDelivered, Restarted

-----------------------------------------------------------------------------
(* A pod is created. *)

IsMade(P, Q, i, n, h) ==
  /\ i \in Ids /\ P[i] = Gone /\ \A j \in Ids \ {i} : Q[j] = P[j]
  /\ Q[i] # Gone /\ Q[i].node = n /\ Q[i].hash = h /\ Q[i].phase = "unbound" /\ ~Q[i].term

LEMMA MadeViews ==
  ASSUME NEW P, NEW Q, NEW i, NEW n, NEW h, IsMade(P, Q, i, n, h), NEW m
  PROVE  /\ Alive(Q, m) = Alive(P, m) \union (IF m = n THEN {i} ELSE {})
         /\ Running(Q, m) = Running(P, m) \union (IF m = n THEN {i} ELSE {})
<1>1. OnNode(Q, m) = OnNode(P, m) \union (IF m = n THEN {i} ELSE {}) /\ i \notin OnNode(P, m)
  BY DEF IsMade, OnNode
<1>2. Alive(Q, m) = Alive(P, m) \union (IF m = n THEN {i} ELSE {}) /\ i \notin Alive(P, m)
  BY <1>1 DEF IsMade, Alive, OnNode
<1> QED BY <1>2 DEF IsMade, Running, Alive, OnNode

LEMMA MadeSingle ==
  ASSUME NEW P, NEW Q, NEW i, NEW n, NEW h, IsMade(P, Q, i, n, h), NEW N, n \in N, Single(P, N)
  PROVE  Single(Q, N \ {n})
BY DEF IsMade, Single

LEMMA MadeSurges ==
  ASSUME NEW P, NEW Q, NEW i, NEW n, NEW h, IsMade(P, Q, i, n, h), NEW N, n \in N, NEW s \in Nat,
         NEW G \in SUBSET (Nodes \X Ids), \A g \in G : g[2] # i, Surges(G, P, N, s)
  PROVE  Surges(G, Q, N \ {n}, s)
<1>1. AtMostTwo(Q, N \ {n})
  <2> SUFFICES ASSUME NEW m \in Nodes
               PROVE  /\ \E a, b \in 0 .. MaxPods : Running(Q, m) \subseteq {a, b}
                      /\ m \in N \ {n} => \E a \in 0 .. MaxPods : Running(Q, m) \subseteq {a}
    BY DEF AtMostTwo
  <2>1. CASE m = n
    <3>1. PICK a \in 0 .. MaxPods : Running(P, n) \subseteq {a}
      BY <2>1 DEF Surges, AtMostTwo
    <3>2. Running(Q, n) \subseteq {a, i} /\ i \in 0 .. MaxPods
      BY <2>1, <3>1, MadeViews DEF IsMade, Ids
    <3> QED BY <2>1, <3>2
  <2>2. CASE m # n
    BY <2>2, MadeViews DEF Surges, AtMostTwo
  <2> QED BY <2>1, <2>2
<1>2. \A g \in G : g[2] \in Running(Q, g[1]) => g[2] \in Running(P, g[1])
  BY MadeViews
<1>3. OneEntry(G, Q)
  BY <1>2 DEF Surges, OneEntry
<1>4. NotStarted(G, Q)
  <2> SUFFICES ASSUME NEW g \in G, NEW j \in Alive(Q, g[1]), j # g[2] PROVE Q[j].phase = "unbound"
    BY DEF NotStarted
  <2>1. j = i \/ (j \in Alive(P, g[1]) /\ j # i)
    BY MadeViews
  <2>2. ASSUME j \in Alive(P, g[1]), j # i PROVE Q[j].phase = "unbound"
    <3>1. P[j].phase = "unbound" /\ j \in Ids
      BY <2>2 DEF Surges, NotStarted, Alive, OnNode
    <3> QED BY <2>2, <3>1 DEF IsMade
  <2> QED BY <2>1, <2>2 DEF IsMade
<1>5. Cardinality(Doubled(G, Q, N \ {n})) <= s
  <2>1. Doubled(G, Q, N \ {n}) \subseteq Doubled(G, P, N)
    <3> SUFFICES ASSUME NEW g \in Doubled(G, Q, N \ {n}) PROVE g \in Doubled(G, P, N)
      OBVIOUS
    <3>1. g \in G /\ g[2] \in Running(P, g[1]) /\ (g[1] \in N \ {n} \/ Alive(Q, g[1]) # {g[2]})
      BY <1>2 DEF Doubled
    <3>2. ASSUME g[1] # n PROVE Alive(Q, g[1]) = Alive(P, g[1])
      <4>1. Alive(Q, g[1]) = Alive(P, g[1]) \union (IF g[1] = n THEN {i} ELSE {})
        BY MadeViews
      <4> QED BY <3>2, <4>1
    <3> QED BY <3>1, <3>2 DEF Doubled
  <2>2. /\ IsFiniteSet(Doubled(G, P, N)) /\ Cardinality(Doubled(G, P, N)) \in Nat
        /\ Cardinality(Doubled(G, Q, N \ {n})) \in Nat
    <3>1. Doubled(G, P, N) \in SUBSET (Nodes \X Ids) /\ Doubled(G, Q, N \ {n}) \in SUBSET (Nodes \X Ids)
      BY DEF Doubled
    <3> QED BY <3>1, GoingFinite
  <2>3. Cardinality(Doubled(G, Q, N \ {n})) <= Cardinality(Doubled(G, P, N))
    BY <2>1, <2>2, FS_Subset
  <2> QED BY <2>2, <2>3 DEF Surges
<1> QED BY <1>1, <1>3, <1>4, <1>5 DEF Surges

LEMMA PodMade ==
  ASSUME IInv, TypeOK', NEW n \in Nodes, n \in Pending(job), NewPod(n),
         Pending(job') = Pending(job) \ {n}, job'.pc = job.pc, job'.hash = job.hash, going' \subseteq going,
         UNCHANGED <<strategy, sds, sdsSeen, cache>>,
         ~late' => ~late /\ exp'.add = exp.add /\ going' = going
  PROVE  IInv'
<1> DEFINE i == created + 1
           q == [node |-> n, hash |-> job.hash, phase |-> "unbound", term |-> FALSE]
           Q == [pods EXCEPT ![i] = q]
           v == Append(watch, [id |-> i, pod |-> q])
<1>1. /\ pods \in PodsOf /\ cache \in PodsOf /\ watch \in Seq(Event) /\ created \in Nat /\ created < MaxPods
      /\ Piped(pods, cache, watch, created) /\ job \in Job /\ going \in SUBSET (Nodes \X Ids) /\ job.hash \in Nat
      /\ strategy.surge \in Nat
  BY TypeFacts DEF IInv, NewPod
<1>2. pods' = Q /\ watch' = v /\ created' = i
  BY DEF NewPod, Write
<1>3. q \in Pod /\ ~q.term /\ q.node = n /\ q.hash = job.hash /\ q.phase = "unbound"
  BY <1>1 DEF Pod, Job
<1> HIDE DEF q
<1>4. /\ Piped(Q, cache, v, i)
      /\ pods[i] = Gone /\ Q[i] = q /\ \A j \in Ids \ {i} : Q[j] = pods[j]
      /\ i \in Ids /\ i \notin Unseen(cache, watch) /\ Unseen(cache, v) = Unseen(cache, watch) \union {i}
  BY <1>1, <1>3, Made
<1> HIDE DEF Q, v
<1>5. Piped(pods, cache, watch, created)'
  BY <1>2, <1>4
<1>6. IsMade(pods, pods', i, n, job.hash)
  BY <1>2, <1>3, <1>4, GoneAssumption DEF IsMade
<1>7. job.pc # "idle"
  BY DEF IInv
<1>8. \A g \in going : g[2] <= created /\ g[2] # i /\ g[2] \in Ids
  BY <1>1 DEF IInv, Ids
<1>9. Grown(pods', going', sdsSeen'.tmpl, job')
  <2>1. job.hash <= sdsSeen.tmpl
    BY <1>7 DEF IInv, Grown
  <2>2. ASSUME NEW j \in Ids, pods'[j] # Gone PROVE pods'[j].hash <= sdsSeen.tmpl /\ pods'[j].hash <= job.hash
    <3>1. CASE j = i
      BY <3>1, <2>1, <1>1, <1>6 DEF IsMade
    <3>2. CASE j # i
      BY <3>2, <2>2, <1>6, <1>7 DEF IInv, Grown, IsMade
    <3> QED BY <3>1, <3>2
  <2>3. ASSUME NEW g \in going, pods'[g[2]] # Gone PROVE pods'[g[2]].hash < sdsSeen.tmpl /\ pods'[g[2]].hash < job.hash
    <3>1. pods'[g[2]] = pods[g[2]]
      BY <1>6, <1>8 DEF IsMade
    <3> QED BY <2>3, <3>1, <1>7 DEF IInv, Grown
  <2> QED BY <2>1, <2>2, <2>3, <1>7 DEF Grown
<1>10. \A g \in going' : g[2] <= created'
  BY <1>1, <1>2, <1>8, BoundsAssumption DEF Ids
<1>11. ASSUME ~late' PROVE OnTime'
  <2>1. ~late /\ exp'.add = exp.add /\ going' = going /\ OnTime
    BY <1>11 DEF IInv
  <2>2. Counted(exp', job', cache', watch')
    <3>1. Cardinality(Pending(job')) = Cardinality(Pending(job)) - 1 /\ Cardinality(Pending(job)) \in Nat
      BY <1>1, PendingFinite, FS_RemoveElement
    <3>2. Unseen(cache', watch') = Unseen(cache, watch) \union {i}
      BY <1>2, <1>4
    <3>3. Cardinality(Unseen(cache', watch')) = Cardinality(Unseen(cache, watch)) + 1
      BY <3>2, <1>4, UnseenFinite, FS_AddElement
    <3> QED BY <3>1, <3>3, <2>1, UnseenFinite DEF OnTime, Counted
  <2>3. CASE strategy.surge = 0
    <3>1. Single(pods', Pending(job'))
      BY <2>1, <2>3, <1>6, MadeSingle DEF OnTime
    <3> QED BY <2>2, <2>3, <3>1 DEF OnTime
  <2>4. CASE strategy.surge # 0
    <3>1. Surges(going, pods, Pending(job), strategy.surge)
      BY <2>1, <2>4 DEF OnTime
    <3>2. Surges(going, pods', Pending(job) \ {n}, strategy.surge)
      BY <3>1, <1>1, <1>6, <1>8, MadeSurges
    <3>3. Surges(going', pods', Pending(job'), strategy.surge)
      BY <3>2, <2>1
    <3> QED BY <2>2, <2>4, <3>3 DEF OnTime
  <2> QED BY <2>3, <2>4
<1>12. sdsSeen'.tmpl <= sds'.tmpl /\ (job'.pc = "idle" => Pending(job') = {})
  BY <1>7 DEF IInv
<1> QED BY <1>5, <1>9, <1>10, <1>11, <1>12 DEF IInv

LEMMA CreateStep ==
  ASSUME IInv, TypeOK', NEW n \in Nodes,
         CreatePod(n) \/ (CreateFails(n) /\ NewPod(n) /\ late')
  PROVE  IInv'
<1>1. job \in Job /\ job.create \intersect job.batch = {}
  BY DEF IInv, TypeOK
<1>2. CASE CreatePod(n)
  <2> DEFINE j == [job EXCEPT !.batch = @ \ {n}]
  <2>1. j \in Job /\ j.create = job.create /\ j.batch = job.batch \ {n} /\ j.pc = job.pc /\ j.hash = job.hash
    BY <1>1 DEF Job
  <2>2. job' = NextBatch(j) /\ n \in job.batch
    BY <1>2 DEF CreatePod
  <2> HIDE DEF j
  <2>3. j.create \intersect j.batch = {} /\ Pending(j) = Pending(job) \ {n} /\ n \in Pending(job)
    BY <1>1, <2>1, <2>2 DEF Pending
  <2>4. Pending(job') = Pending(job) \ {n} /\ job'.pc = job.pc /\ job'.hash = job.hash
    BY <2>1, <2>2, <2>3, Batched
  <2>5. NewPod(n) /\ UNCHANGED <<strategy, sds, sdsSeen, cache, exp, going, late>>
    BY <1>2 DEF CreatePod, setVars
  <2> QED BY <2>3, <2>4, <2>5, PodMade
<1>3. CASE CreateFails(n) /\ NewPod(n) /\ late'
  <2> DEFINE f == [job EXCEPT !.batch = @ \ {n}, !.err = TRUE]
  <2>1. f.create = job.create /\ f.batch = job.batch \ {n} /\ f.pc = job.pc /\ f.hash = job.hash
    BY <1>1 DEF Job
  <2>2. job' = f /\ n \in job.batch
    BY <1>3 DEF CreateFails
  <2> HIDE DEF f
  <2>3. Pending(job') = Pending(job) \ {n} /\ n \in Pending(job) /\ job'.pc = job.pc /\ job'.hash = job.hash
    BY <1>1, <2>1, <2>2 DEF Pending
  <2>4. going' \subseteq going /\ UNCHANGED <<strategy, sds, sdsSeen, cache>>
    BY <1>3 DEF CreateFails, GiveUpNot, setVars
  <2> QED BY <1>3, <2>3, <2>4, PodMade
<1> QED BY <1>2, <1>3

-----------------------------------------------------------------------------
(* Decisions: made from the cache, when no creation is expected. *)

LEMMA NothingExpected ==
  ASSUME IInv, SatisfiedExpectations, ~late
  PROVE  Pending(job) = {} /\ Unseen(cache, watch) = {} /\ Shrinks(cache, pods)
<1>1. Counted(exp, job, cache, watch) /\ exp.add = 0 /\ job \in Job /\ Piped(pods, cache, watch, created)
  BY DEF IInv, TypeOK, OnTime, SatisfiedExpectations
<1>2. Cardinality(Pending(job)) = 0 /\ Cardinality(Unseen(cache, watch)) = 0
  BY <1>1, PendingFinite, UnseenFinite DEF Counted
<1>3. Pending(job) = {} /\ Unseen(cache, watch) = {}
  BY <1>1, <1>2, PendingFinite, UnseenFinite, FS_EmptySet
<1> QED BY <1>1, <1>3, Complete

(* A decision leaves the pods as they are: what has to be shown of it. *)
LEMMA Decided ==
  ASSUME IInv, TypeOK', SatisfiedExpectations, UNCHANGED <<strategy, sds, sdsSeen, pods, watch, created, cache, late>>,
         job'.pc # "idle", job'.hash <= sdsSeen.tmpl,
         NEW c, Pending(job') = c, exp'.add = Cardinality(c),
         Grown(pods, going', sdsSeen.tmpl, job'),
         \A g \in going' : g[2] <= created,
         ~late => IF strategy.surge = 0 THEN Single(pods, c) ELSE Surges(going', pods, c, strategy.surge)
  PROVE  IInv'
<1>1. Piped(pods, cache, watch, created)' /\ sdsSeen'.tmpl <= sds'.tmpl
  BY DEF IInv
<1>2. ASSUME ~late' PROVE OnTime'
  <2>1. Unseen(cache', watch') = {} /\ Cardinality({}) = 0
    BY <1>2, NothingExpected, FS_EmptySet
  <2>2. Cardinality(c) \in Nat
    <3>1. job' \in Job
      BY DEF TypeOK
    <3> QED BY <3>1, PendingFinite
  <2>3. Counted(exp', job', cache', watch')
    BY <2>1, <2>2 DEF Counted
  <2> QED BY <1>2, <2>3 DEF OnTime
<1> QED BY <1>1, <1>2 DEF IInv

LEMMA ManageStep ==
  ASSUME IInv, TypeOK', Manage
  PROVE  IInv'
<1>1. PICK c \in SUBSET {n \in NodeList : Needs(n)}, d \in SUBSET Ids :
         Cardinality(c) <= Burst /\ Cardinality(d) <= Burst /\ SyncNodes("managed", sdsSeen.tmpl, c, d)
  BY Managed DEF IInv
<1>2. c \in SUBSET Nodes /\ sdsSeen.tmpl \in Templates /\ sdsSeen.tmpl \in Nat
  BY BoundsAssumption DEF NodeList, IInv, TypeOK, Set, Templates
<1>3. Pending(job') = c /\ job'.pc = "managed" /\ job'.hash = sdsSeen.tmpl /\ exp'.add = Cardinality(c)
  BY <1>1, <1>2, SyncNodesType DEF IInv
<1>4. /\ UNCHANGED <<strategy, sds, sdsSeen, pods, watch, created, cache, late, going>>
      /\ SatisfiedExpectations /\ job.pc = "idle"
  BY DEF Manage, setVars, podVars
<1>5. Grown(pods, going', sdsSeen.tmpl, job')
  BY <1>2, <1>3, <1>4 DEF IInv, Grown
<1>6. \A g \in going' : g[2] <= created
  BY <1>4 DEF IInv
<1>7. ASSUME ~late PROVE IF strategy.surge = 0 THEN Single(pods, c) ELSE Surges(going', pods, c, strategy.surge)
  <2>1. Pending(job) = {} /\ Shrinks(cache, pods)
    BY <1>4, <1>7, NothingExpected
  <2>2. \A n \in c : OnNode(cache, n) = {} \/ (strategy.surge > 0 /\ Running(cache, n) = {})
    BY DEF Needs
  <2>3. CASE strategy.surge = 0
    <3>1. \A n \in c : OnNode(pods, n) = {}
      BY <2>1, <2>2, <2>3, ShrinkingViews
    <3>2. Single(pods, {})
      BY <1>7, <2>1, <2>3 DEF IInv, OnTime
    <3>3. Single(pods, c)
      BY <3>1, <3>2 DEF Single, OnNode
    <3> QED BY <2>3, <3>3
  <2>4. CASE strategy.surge # 0
    <3>1. \A n \in c : Running(cache, n) = {}
      BY <2>2 DEF Running, Alive
    <3>2. \A n \in c : Running(pods, n) = {}
      BY <3>1, <2>1, ShrinkingViews
    <3>3. Surges(going, pods, {}, strategy.surge)
      BY <1>7, <2>1, <2>4 DEF IInv, OnTime
    <3>4. AtMostTwo(pods, c)
      <4>1. 0 \in 0 .. MaxPods
        BY BoundsAssumption
      <4> QED BY <3>2, <3>3, <4>1 DEF Surges, AtMostTwo
    <3>5. Doubled(going, pods, c) = Doubled(going, pods, {})
      BY <3>2 DEF Doubled
    <3>6. Surges(going', pods, c, strategy.surge)
      BY <3>3, <3>4, <3>5, <1>4 DEF Surges
    <3> QED BY <2>4, <3>6
  <2> QED BY <2>3, <2>4
<1>8. job'.hash <= sdsSeen.tmpl
  BY <1>2, <1>3
<1> QED BY <1>3, <1>4, <1>5, <1>6, <1>7, <1>8, Decided

(* What is given up is an older pod, and not one created since. *)
LEMMA GivenUpOld ==
  ASSUME IInv, job.pc # "idle", NEW N \in SUBSET Nodes, NEW g \in GivenUp(N)
  PROVE  /\ g[1] \in N /\ g[2] \in OldPods(g[1]) /\ g = <<g[1], g[2]>>
         /\ g[2] <= created
         /\ pods[g[2]] # Gone => pods[g[2]].hash < sdsSeen.tmpl /\ pods[g[2]].hash < job.hash
<1>1. g[1] \in N /\ g[2] \in OldPods(g[1]) /\ g = <<g[1], g[2]>>
  BY DEF GivenUp
<1>2. g[2] \in Ids /\ cache[g[2]] # Gone /\ cache[g[2]].hash # job.hash
  BY <1>1 DEF OldPods, Alive, OnNode
<1>3. g[2] <= created
  BY <1>2, TypeFacts DEF IInv, Piped, Fresh, Ids
<1>4. ASSUME pods[g[2]] # Gone PROVE pods[g[2]].hash < sdsSeen.tmpl /\ pods[g[2]].hash < job.hash
  <2>1. pods[g[2]].hash = cache[g[2]].hash
    BY <1>2, <1>4 DEF IInv, Piped, Known, Follows
  <2>2. pods[g[2]].hash \in Nat /\ job.hash \in Nat /\ sdsSeen.tmpl \in Nat
    BY <1>2, <1>4, TypeFacts DEF IInv, PodsOf, Pod, Templates
  <2>3. pods[g[2]].hash <= job.hash /\ job.hash <= sdsSeen.tmpl
    BY <1>2, <1>4 DEF IInv, Grown
  <2> QED BY <1>2, <2>1, <2>2, <2>3
<1> QED BY <1>1, <1>3, <1>4

(* Two facts about cardinalities. *)
LEMMA AtMostOne ==
  ASSUME NEW S, IsFiniteSet(S), Cardinality(S) <= 1, NEW a \in S, NEW b \in S
  PROVE  a = b
<1> SUFFICES ASSUME a # b PROVE FALSE
  OBVIOUS
<1>1. IsFiniteSet({a}) /\ Cardinality({a}) = 1
  BY FS_Singleton
<1>2. Cardinality({a} \union {b}) = 2
  <2>1. b \notin {a}
    OBVIOUS
  <2>2. Cardinality({a} \union {b}) = IF b \in {a} THEN Cardinality({a}) ELSE Cardinality({a}) + 1
    BY <1>1, FS_AddElement, Zenon
  <2> QED BY <1>1, <2>1, <2>2
<1>3. {a} \union {b} \in SUBSET S
  OBVIOUS
<1>4. Cardinality({a} \union {b}) <= Cardinality(S) /\ Cardinality(S) \in Nat
  BY <1>3, FS_Subset, FS_CardinalityType
<1> QED BY <1>2, <1>4

LEMMA OnePerPair ==
  ASSUME NEW G \in SUBSET (Nodes \X Ids), NEW N \in SUBSET Nodes, \A g \in G : g[1] \in N,
         \A g, h \in G : g[1] = h[1] => g = h
  PROVE  Cardinality(G) <= Cardinality(N)
<1> DEFINE f == [g \in G |-> g[1]]
<1>1. f \in [G -> N] /\ \A g, h \in G : f[g] = f[h] => g = h
  OBVIOUS
<1>2. f \in Injection(G, N)
  BY <1>1 DEF Injection, IsInjective
<1> QED BY <1>2, NodeSets, FS_Injection

(* A node where an update waits for a second pod counts as surging. *)
LEMMA DoubledSurges ==
  ASSUME IInv, job.pc # "idle", Shrinks(cache, pods), NotStarted(going, pods),
         NEW g \in going, g[2] \in Running(pods, g[1]), Alive(pods, g[1]) # {g[2]}
  PROVE  g[1] \in RollNodes /\ Surging(g[1])
<1> DEFINE n == g[1]
           i == g[2]
<1>1. n \in Nodes /\ i \in Ids
  BY TypeFacts DEF IInv
<1>2. i \in Alive(pods, n) /\ Alive(pods, n) \subseteq Alive(cache, n)
  BY ShrinkingViews DEF Running
<1>3. PICK j \in Alive(pods, n) : j # i
  BY <1>2
<1>4. i \in Alive(cache, n) /\ j \in Alive(cache, n) /\ pods[i] # Gone /\ pods[j] # Gone /\ j \in Ids
  BY <1>2, <1>3 DEF Alive, OnNode
<1>5. cache[j].phase = "unbound"
  BY <1>3, <1>4 DEF NotStarted, Shrinks, Follows
<1>6. cache[i].hash # job.hash
  <2>1. pods[i].hash < job.hash /\ cache[i].hash = pods[i].hash
    BY <1>1, <1>4 DEF IInv, Grown, Shrinks, Follows
  <2>2. pods[i].hash \in Nat /\ job.hash \in Nat
    BY <1>1, <1>4, TypeFacts DEF IInv, PodsOf, Pod, Templates
  <2> QED BY <2>1, <2>2
<1>7. i \in OldPods(n)
  BY <1>4, <1>6 DEF OldPods
<1>8. n \in RollNodes
  BY <1>1, <1>4 DEF RollNodes, Alive
<1>9. ASSUME ~Excess(n) PROVE NewPods(n) # {} /\ OldPods(n) # {} /\ ~SomeAvailable(NewPods(n))
  <2>1. /\ NewPods(n) \in SUBSET Ids /\ OldPods(n) \in SUBSET Ids
    BY DEF NewPods, OldPods, Alive, OnNode
  <2>2. /\ IsFiniteSet(NewPods(n)) /\ Cardinality(NewPods(n)) \in Nat
        /\ IsFiniteSet(OldPods(n)) /\ Cardinality(OldPods(n)) \in Nat
    BY <2>1, PodSets
  <2>3. Cardinality(NewPods(n)) <= 1 /\ Cardinality(OldPods(n)) <= 1
    BY <1>9, <2>2 DEF Excess
  <2>4. j \notin OldPods(n)
    BY <2>2, <2>3, <1>3, <1>7, AtMostOne
  <2>5. j \in NewPods(n)
    BY <2>4, <1>4 DEF NewPods, OldPods
  <2>6. \A k \in NewPods(n) : k = j
    BY <2>2, <2>3, <2>5, AtMostOne
  <2> QED BY <2>5, <2>6, <1>5, <1>7 DEF SomeAvailable, Available
<1> QED BY <1>8, <1>9 DEF Surging

(* A node that is behind has one pod in the cache, and so at most one.     *)
LEMMA BehindOne ==
  ASSUME NEW n \in Behind
  PROVE  Alive(cache, n) = OldPods(n) /\ \A i, j \in OldPods(n) : i = j
<1>1. ~Excess(n) /\ NewPods(n) = {}
  BY DEF Behind
<1>2. OldPods(n) \in SUBSET Ids
  BY DEF OldPods, Alive, OnNode
<1>3. IsFiniteSet(OldPods(n)) /\ Cardinality(OldPods(n)) <= 1
  BY <1>1, <1>2, PodSets DEF Excess
<1> QED BY <1>1, <1>3, AtMostOne DEF NewPods, OldPods

LEMMA RollDeleteStep ==
  ASSUME IInv, TypeOK', RollingUpdate, strategy.surge = 0
  PROVE  IInv'
<1>1. RollDelete /\ job.pc = "managed" /\ SatisfiedExpectations
  BY DEF RollingUpdate
<1>2. PICK d \in SUBSET Ids, N \in SUBSET Nodes :
           /\ Cardinality(d) <= Burst /\ SyncNodes("rolled", job.hash, {}, d)
           /\ going' = going \union GivenUp(N)
  BY <1>1, RolledDeletes DEF IInv
<1>3. UNCHANGED <<strategy, sds, sdsSeen, pods, watch, created, cache, late>>
  BY DEF RollingUpdate, setVars, podVars
<1>4. job.hash \in Templates /\ Cardinality({}) <= Burst /\ {} \in SUBSET Nodes /\ TypeOK
  BY FS_EmptySet, BurstAssumption DEF IInv, TypeOK, Job
<1>5. Pending(job') = {} /\ job'.pc = "rolled" /\ job'.hash = job.hash /\ exp'.add = Cardinality({})
  BY <1>2, <1>4, SyncNodesType
<1>6. Grown(pods, going', sdsSeen.tmpl, job') /\ job'.hash <= sdsSeen.tmpl
  BY <1>1, <1>2, <1>5, GivenUpOld DEF IInv, Grown
<1>7. \A g \in going' : g[2] <= created
  BY <1>1, <1>2, GivenUpOld DEF IInv
<1>8. ~late => Single(pods, {})
  BY <1>1, NothingExpected DEF IInv, OnTime
<1> QED BY <1>1, <1>3, <1>5, <1>6, <1>7, <1>8, Decided

LEMMA RollCreateStep ==
  ASSUME IInv, TypeOK', RollingUpdate, strategy.surge # 0
  PROVE  IInv'
<1> DEFINE SN == {n \in RollNodes : Surging(n)}
           room == Lower(strategy.surge, Cardinality(SN))
<1>1. RollCreate /\ job.pc = "managed" /\ SatisfiedExpectations
  BY DEF RollingUpdate
<1>2. PICK chosen \in SUBSET Candidates, c \in SUBSET Behind, d \in SUBSET Ids :
           /\ Cardinality(chosen) <= room
           /\ Cardinality(c) <= Burst /\ Cardinality(d) <= Burst
           /\ SyncNodes("rolled", job.hash, c, d)
           /\ going' = {g \in going : g[1] \notin c} \union GivenUp({n \in chosen \intersect c : ShouldRun(n)})
  BY <1>1, RolledCreates DEF IInv
<1> DEFINE X == {n \in chosen \intersect c : ShouldRun(n)}
           old == {g \in going : g[1] \notin c}
<1>3. UNCHANGED <<strategy, sds, sdsSeen, pods, watch, created, cache, late>>
  BY DEF RollingUpdate, setVars, podVars
<1>4. /\ job.hash \in Templates /\ c \in SUBSET Nodes /\ chosen \in SUBSET Nodes /\ TypeOK
      /\ SN \in SUBSET Nodes /\ strategy.surge \in Nat /\ going \in SUBSET (Nodes \X Ids)
  BY TypeFacts DEF IInv, TypeOK, Job, Behind, Candidates, RollNodes
<1> HIDE DEF SN
<1>5. X \in SUBSET Nodes /\ X \subseteq c /\ X \subseteq chosen
  BY <1>4
<1>6. going' = old \union GivenUp(X)
  BY <1>2
<1> HIDE DEF X
<1>7. Pending(job') = c /\ job'.pc = "rolled" /\ job'.hash = job.hash /\ exp'.add = Cardinality(c)
  BY <1>2, <1>4, SyncNodesType
<1>8. \A g \in GivenUp(X) :
         /\ g[1] \in X /\ g[2] \in OldPods(g[1]) /\ g = <<g[1], g[2]>> /\ g[2] <= created
         /\ pods[g[2]] # Gone => pods[g[2]].hash < sdsSeen.tmpl /\ pods[g[2]].hash < job.hash
  BY <1>1, <1>5, GivenUpOld
<1>9. Grown(pods, going', sdsSeen.tmpl, job') /\ job'.hash <= sdsSeen.tmpl
  BY <1>1, <1>6, <1>7, <1>8 DEF IInv, Grown
<1>10. \A g \in going' : g[2] <= created
  BY <1>6, <1>8 DEF IInv
<1>11. ASSUME ~late PROVE Surges(going', pods, c, strategy.surge)
  <2>1. Pending(job) = {} /\ Shrinks(cache, pods)
    BY <1>1, <1>11, NothingExpected
  <2>2. Surges(going, pods, {}, strategy.surge)
    BY <1>11, <2>1 DEF IInv, OnTime
  <2>3. \A n \in c : \A i \in Alive(pods, n), j \in OldPods(n) : i = j
    <3> SUFFICES ASSUME NEW n \in c, NEW i \in Alive(pods, n), NEW j \in OldPods(n) PROVE i = j
      OBVIOUS
    <3>1. i \in Alive(cache, n)
      BY <2>1, ShrinkingViews
    <3> QED BY <3>1, BehindOne
  <2>4. AtMostTwo(pods, c)
    <3>1. ASSUME NEW n \in c PROVE \E a \in 0 .. MaxPods : Running(pods, n) \subseteq {a}
      <4>1. PICK a \in OldPods(n) : TRUE
        BY DEF Behind
      <4>2. a \in 0 .. MaxPods
        BY BoundsAssumption DEF OldPods, Alive, OnNode, Ids
      <4> QED BY <2>3, <4>1, <4>2 DEF Running
    <3> QED BY <2>2, <3>1 DEF Surges, AtMostTwo
  <2>5. \A g \in GivenUp(X) : g[1] \in c /\ \A i \in Alive(pods, g[1]) : i = g[2]
    BY <1>5, <1>8, <2>3
  <2>6. \A g, h \in GivenUp(X) : g[1] = h[1] => g = h
    <3> SUFFICES ASSUME NEW g \in GivenUp(X), NEW h \in GivenUp(X), g[1] = h[1] PROVE g = h
      OBVIOUS
    <3>1. g[2] = h[2]
      BY <1>5, <1>8, BehindOne
    <3> QED BY <3>1, <1>8
  <2>7. OneEntry(going', pods)
    BY <1>6, <2>2, <2>5, <2>6 DEF Surges, OneEntry
  <2>8. NotStarted(going', pods)
    BY <1>6, <2>2, <2>5 DEF Surges, NotStarted
  <2> DEFINE kept == {g \in old : g[2] \in Running(pods, g[1]) /\ Alive(pods, g[1]) # {g[2]}}
  <2>9. Doubled(going', pods, c) \subseteq kept \union GivenUp(X)
    BY <1>6 DEF Doubled
  <2>10. /\ kept \in SUBSET (Nodes \X Ids) /\ GivenUp(X) \in SUBSET (Nodes \X Ids)
         /\ kept \subseteq Doubled(going, pods, {})
    <3>1. GivenUp(X) \in SUBSET (Nodes \X Ids)
      BY <1>5 DEF GivenUp, OldPods, Alive, OnNode
    <3>2. kept \in SUBSET (Nodes \X Ids) /\ kept \subseteq Doubled(going, pods, {})
      BY <1>4 DEF Doubled
    <3> QED BY <3>1, <3>2
  <2>11. \A g \in kept : g[1] \in SN
    BY <1>1, <2>1, <2>2, DoubledSurges DEF Surges, SN
  <2>12. \A g, h \in kept : g[1] = h[1] => g = h
    BY <2>2 DEF Surges, OneEntry
  <2> HIDE DEF kept
  <2>13. Cardinality(kept) <= Cardinality(SN)
    BY <1>4, <2>10, <2>11, <2>12, OnePerPair
  <2>14. Cardinality(kept) <= strategy.surge
    <3>1. IsFiniteSet(Doubled(going, pods, {})) /\ Cardinality(Doubled(going, pods, {})) \in Nat
      <4>1. Doubled(going, pods, {}) \in SUBSET (Nodes \X Ids)
        BY <1>4 DEF Doubled
      <4> QED BY <4>1, GoingFinite
    <3>2. Cardinality(kept) <= Cardinality(Doubled(going, pods, {})) /\ Cardinality(kept) \in Nat
      BY <2>10, <3>1, FS_Subset, GoingFinite
    <3> QED BY <2>2, <3>1, <3>2, <1>4 DEF Surges
  <2>15. Cardinality(GivenUp(X)) <= room
    <3>1. Cardinality(GivenUp(X)) <= Cardinality(X)
      BY <1>5, <1>8, <2>6, <2>10, OnePerPair
    <3>2. IsFiniteSet(chosen) /\ Cardinality(chosen) \in Nat /\ Cardinality(X) \in Nat
      BY <1>4, <1>5, NodeSets
    <3>3. Cardinality(X) <= Cardinality(chosen)
      BY <1>5, <3>2, FS_Subset
    <3>4. Cardinality(SN) \in Nat /\ Cardinality(GivenUp(X)) \in Nat
      BY <1>4, <2>10, NodeSets, GoingFinite
    <3>5. room \in Nat
      BY <1>4, <3>4, LowerType
    <3> QED BY <1>2, <3>1, <3>2, <3>3, <3>4, <3>5
  <2>16. Cardinality(Doubled(going', pods, c)) <= Cardinality(kept) + Cardinality(GivenUp(X))
    <3>1. IsFiniteSet(kept) /\ IsFiniteSet(GivenUp(X)) /\ Cardinality(kept) \in Nat /\ Cardinality(GivenUp(X)) \in Nat
      BY <2>10, GoingFinite
    <3>2. /\ IsFiniteSet(kept \union GivenUp(X))
          /\ Cardinality(kept \union GivenUp(X)) = Cardinality(kept) + Cardinality(GivenUp(X)) - Cardinality(kept \intersect GivenUp(X))
      BY <3>1, FS_Union
    <3>3. Cardinality(kept \intersect GivenUp(X)) \in Nat
      <4>1. kept \intersect GivenUp(X) \in SUBSET (Nodes \X Ids)
        BY <2>10
      <4> QED BY <4>1, GoingFinite
    <3>4. Cardinality(Doubled(going', pods, c)) <= Cardinality(kept \union GivenUp(X))
      BY <2>9, <3>2, FS_Subset
    <3>5. Cardinality(Doubled(going', pods, c)) \in Nat /\ Cardinality(kept \union GivenUp(X)) \in Nat
      BY <2>9, <3>2, FS_Subset, FS_CardinalityType
    <3> QED BY <3>1, <3>2, <3>3, <3>4, <3>5
  <2>17. Cardinality(Doubled(going', pods, c)) <= strategy.surge
    <3>1. /\ Cardinality(kept) \in Nat /\ Cardinality(GivenUp(X)) \in Nat /\ Cardinality(SN) \in Nat
          /\ Cardinality(Doubled(going', pods, c)) \in Nat
      <4>1. Doubled(going', pods, c) \in SUBSET (Nodes \X Ids)
        BY <2>9, <2>10
      <4> QED BY <1>4, <2>10, <4>1, NodeSets, GoingFinite
    <3> QED BY <3>1, <2>13, <2>14, <2>15, <2>16, <1>4 DEF Lower
  <2> QED BY <2>4, <2>7, <2>8, <2>17 DEF Surges
<1> QED BY <1>1, <1>3, <1>7, <1>9, <1>10, <1>11, Decided

-----------------------------------------------------------------------------
(* The beginning. *)

Home == CHOOSE f \in [1 .. Cardinality(Nodes) -> Nodes] : {f[i] : i \in 1 .. Cardinality(Nodes)} = Nodes

LEMMA HomeProperties ==
  /\ Cardinality(Nodes) \in Nat /\ 1 .. Cardinality(Nodes) \subseteq Ids
  /\ Home \in [1 .. Cardinality(Nodes) -> Nodes]
  /\ \A i, j \in 1 .. Cardinality(Nodes) : Home[i] = Home[j] => i = j
<1> DEFINE all == Cardinality(Nodes)
           D == 1 .. all
<1>1. all \in Nat /\ ExistsBijection(D, Nodes)
  BY NodesAssumption, FS_CardinalityType
<1>2. PICK b \in Bijection(D, Nodes) : TRUE
  BY <1>1, Fun_ExistsBij
<1>3. b \in [D -> Nodes] /\ {b[i] : i \in D} = Nodes
  BY <1>2 DEF Bijection, Surjection, Injection
<1>4. Home \in [D -> Nodes] /\ {Home[i] : i \in D} = Nodes
  <2> DEFINE Q(f) == {f[i] : i \in D} = Nodes
  <2>1. \E f \in [D -> Nodes] : Q(f)
    BY <1>3
  <2>2. Home = CHOOSE f \in [D -> Nodes] : Q(f)
    BY DEF Home
  <2> HIDE DEF Q
  <2>3. Home \in [D -> Nodes] /\ Q(Home)
    BY <2>1, <2>2, Zenon
  <2> QED BY <2>3 DEF Q
<1>5. Home \in Surjection(D, Nodes)
  BY <1>4 DEF Surjection
<1>6. IsFiniteSet(D) /\ Cardinality(D) = all
  BY <1>1, FS_Interval
<1>7. Home \in Injection(D, Nodes)
  BY <1>5, <1>6, FS_SurjSameCardinalityImpliesInj
<1>8. D \subseteq Ids
  BY <1>1, BoundsAssumption DEF Ids
<1> QED BY <1>1, <1>4, <1>7, <1>8 DEF Injection, IsInjective

LEMMA InitIInv ==
  ASSUME Init
  PROVE  IInv
<1> DEFINE all == Cardinality(Nodes)
           run == [i \in Ids |-> IF i > all THEN Gone
                     ELSE [node |-> Home[i], hash |-> 1, phase |-> "ready", term |-> FALSE]]
           none == [i \in Ids |-> Gone]
<1>1. 1 \in Templates /\ all \in Nat
  BY BoundsAssumption, HomeProperties DEF Templates
<1>2. /\ sds \in Set /\ sds.tmpl = 1
      /\ (pods = none /\ created = 0) \/ (pods = run /\ created = all)
      /\ budget \in [Disturbances -> Nat]
  <2>1. CASE New
    BY <1>1, <2>1, BudgetAssumption DEF Init, New, NoStatus, Set, Status, RunningSet
  <2>2. CASE RunningSet
    <3>1. sds = [tmpl |-> 1, status |-> [desired |-> all, current |-> all, miss |-> 0,
                                       ready |-> all, updated |-> all, gen |-> 1]]
      BY <2>2 DEF RunningSet
    <3>2. sds \in Set /\ sds.tmpl = 1
      BY <1>1, <3>1 DEF Set, Status
    <3>3. pods = run /\ created = all
      BY <2>2 DEF RunningSet, Home
    <3> QED BY <3>2, <3>3, BudgetAssumption DEF Init
  <2> QED BY <2>1, <2>2 DEF Init
<1>3. /\ \A i \in Ids : i <= all => run[i] \in Pod /\ run[i].node = Home[i] /\ run[i].hash = 1
      /\ \A i \in Ids : i > all => run[i] = Gone
      /\ run \in PodsOf
  <2>1. \A i \in Ids : i <= all => Home[i] \in Nodes
    BY <1>1, HomeProperties DEF Ids
  <2>2. \A i \in Ids : i <= all => run[i] \in Pod /\ run[i].node = Home[i] /\ run[i].hash = 1
    BY <1>1, <2>1 DEF Pod, Ids
  <2>3. \A i \in Ids : i > all => run[i] = Gone
    OBVIOUS
  <2> QED BY <1>1, <2>2, <2>3 DEF PodsOf, Ids
<1>4. none \in PodsOf /\ \A i \in Ids : none[i] = Gone
  BY DEF PodsOf
<1> HIDE DEF run, none
<1>5. /\ pods \in PodsOf /\ created \in 0 .. MaxPods
      /\ \A i \in Ids : i > created => pods[i] = Gone
      /\ \A i \in Ids : pods[i] # Gone => pods[i].node \in Nodes /\ pods[i].hash = 1
      /\ \A i, j \in Ids : pods[i] # Gone /\ pods[j] # Gone /\ pods[i].node = pods[j].node => i = j
  <2>1. CASE pods = none /\ created = 0
    BY <2>1, <1>4, BoundsAssumption DEF Ids
  <2>2. CASE pods = run /\ created = all
    <3>1. \A i \in Ids : pods[i] # Gone => i \in 1 .. all /\ pods[i] \in Pod /\ pods[i].node = Home[i] /\ pods[i].hash = 1
      BY <1>1, <1>3, <2>2 DEF Ids
    <3>2. created \in 0 .. MaxPods
      BY <1>1, <2>2, BoundsAssumption
    <3> QED BY <1>3, <2>2, <3>1, <3>2, HomeProperties DEF Pod
  <2> QED BY <1>2, <2>1, <2>2
<1>6. /\ sdsSeen = sds /\ node = [n \in Nodes |-> "run"] /\ watch = <<>> /\ cache = pods
      /\ exp = [add |-> 0, del |-> 0] /\ job = Idle /\ going = {} /\ strategy \in Strategies
      /\ queue \in BOOLEAN
  BY DEF Init, New, RunningSet
<1>7. TypeOK
  <2>1. watch \in Seq(Event)
    BY <1>6
  <2>2. job \in Job /\ job.create \intersect job.batch = {}
    BY <1>6, IdleType
  <2>3. exp \in [add : Nat, del : Nat] /\ exp.add <= Burst /\ exp.del <= Burst
    BY <1>6, BurstAssumption
  <2>4. node \in [Nodes -> NodeStates] /\ going \subseteq Nodes \X Ids
    BY <1>6 DEF NodeStates
  <2>5. late \in BOOLEAN
    BY DEF Init
  <2>6. pods \in [Ids -> Pod \union {Gone}] /\ cache \in [Ids -> Pod \union {Gone}]
    BY <1>5, <1>6 DEF PodsOf
  <2> QED BY <1>2, <1>5, <1>6, <2>1, <2>2, <2>3, <2>4, <2>5, <2>6 DEF TypeOK
<1>8. Piped(pods, cache, watch, created) /\ Unseen(cache, watch) = {}
  BY <1>5, <1>6, Refilled
<1>9. job.pc = "idle" /\ Pending(job) = {}
  BY <1>6, IdleType
<1>10. Grown(pods, going, sdsSeen.tmpl, job)
  BY <1>2, <1>5, <1>6, <1>9 DEF Grown
<1>11. Counted(exp, job, cache, watch)
  <2>1. Cardinality({}) = 0
    BY FS_EmptySet
  <2>2. exp.add = 0
    BY <1>6
  <2> QED BY <1>8, <1>9, <2>1, <2>2 DEF Counted
<1>12. Single(pods, {})
  BY <1>5 DEF Single
<1>13. strategy.surge \in Nat
  BY <1>6, StrategyAssumption
<1>14. Surges(going, pods, {}, strategy.surge)
  <2>1. ASSUME NEW n \in Nodes PROVE \E a \in 0 .. MaxPods : Running(pods, n) \subseteq {a}
    <3>1. CASE Running(pods, n) = {}
      BY <3>1, BoundsAssumption
    <3>2. CASE Running(pods, n) # {}
      <4>1. PICK a \in Running(pods, n) : TRUE
        BY <3>2
      <4>2. a \in 0 .. MaxPods
        BY <4>1, BoundsAssumption DEF Running, Alive, OnNode, Ids
      <4>3. Running(pods, n) \subseteq {a}
        BY <1>5, <4>1 DEF Running, Alive, OnNode
      <4> QED BY <4>2, <4>3
    <3> QED BY <3>1, <3>2
  <2>2. AtMostTwo(pods, {})
    BY <2>1 DEF AtMostTwo
  <2>3. Doubled(going, pods, {}) = {} /\ Cardinality({}) = 0
    BY <1>6, FS_EmptySet DEF Doubled
  <2>4. OneEntry(going, pods) /\ NotStarted(going, pods)
    BY <1>6 DEF OneEntry, NotStarted
  <2> QED BY <1>13, <2>2, <2>3, <2>4 DEF Surges
<1>15. sdsSeen.tmpl <= sds.tmpl
  BY <1>2, <1>6
<1> QED BY <1>6, <1>7, <1>8, <1>9, <1>10, <1>11, <1>12, <1>14, <1>15 DEF IInv, OnTime

-----------------------------------------------------------------------------
(* What is proved. *)

LEMMA NextIInv ==
  ASSUME IInv, [Next]_vars
  PROVE  IInv'
<1>1. TypeOK'
  BY TypeStep DEF IInv
<1>2. CASE Manage
  BY <1>1, <1>2, ManageStep
<1>3. CASE RollingUpdate
  BY <1>1, <1>3, RollDeleteStep, RollCreateStep
<1>4. ASSUME NEW n \in Nodes, CreatePod(n) PROVE IInv'
  BY <1>1, <1>4, CreateStep
<1>5. ASSUME NEW n \in Nodes, CreateFails(n) PROVE IInv'
  <2>1. CASE UNCHANGED <<podVars, late>>
    BY <1>1, <1>5, <2>1, QuietStep
  <2>2. CASE NewPod(n) /\ late' = TRUE
    BY <1>1, <1>5, <2>2, CreateStep
  <2> QED BY <1>5, <2>1, <2>2 DEF CreateFails
<1> QED BY <1>1, <1>2, <1>3, <1>4, <1>5, Steps, QuietStep

LEMMA Invariant == Spec => []IInv
<1>1. Init => IInv
  BY InitIInv
<1>2. IInv /\ [Next]_vars => IInv'
  BY NextIInv
<1> QED BY <1>1, <1>2, PTL DEF Spec

(* The set, its cached copy, the pods, their cache and the watch between   *)
(* them, the expectations and the running sync keep their types; no more   *)
(* calls are ever expected than BurstReplicas (syncNodes).                 *)
THEOREM HostTyping == Spec => []TypeOK
BY Invariant, PTL DEF IInv

LEMMA OnePerNodeHolds ==
  ASSUME IInv
  PROVE  OnePerNode
<1> SUFFICES ASSUME ~late, NEW n \in Nodes
             PROVE  IF strategy.surge = 0 THEN Cardinality(OnNode(pods, n)) <= 1
                    ELSE Cardinality(Running(pods, n)) <= 2
  BY DEF OnePerNode
<1>1. OnTime
  BY DEF IInv
<1>2. CASE strategy.surge = 0
  <2>1. \A i, j \in OnNode(pods, n) : i = j
    BY <1>1, <1>2 DEF OnTime, Single, OnNode
  <2>2. CASE OnNode(pods, n) = {}
    BY <1>2, <2>2, FS_EmptySet
  <2>3. CASE OnNode(pods, n) # {}
    <3>1. PICK a \in OnNode(pods, n) : TRUE
      BY <2>3
    <3>2. OnNode(pods, n) = {a}
      BY <2>1, <3>1
    <3>3. Cardinality({a}) = 1
      BY FS_Singleton
    <3> QED BY <1>2, <3>2, <3>3
  <2> QED BY <2>2, <2>3
<1>3. CASE strategy.surge # 0
  <2>1. PICK a \in 0 .. MaxPods, b \in 0 .. MaxPods : Running(pods, n) \subseteq {a, b}
    BY <1>1, <1>3 DEF OnTime, Surges, AtMostTwo
  <2>2. IsFiniteSet({a}) /\ Cardinality({a}) = 1
    BY FS_Singleton
  <2>3. IsFiniteSet({a} \union {b}) /\ Cardinality({a} \union {b}) <= 2 /\ Cardinality({a} \union {b}) \in Nat
    BY <2>2, FS_AddElement
  <2>4. Running(pods, n) \in SUBSET ({a} \union {b})
    BY <2>1
  <2>5. Cardinality(Running(pods, n)) <= Cardinality({a} \union {b}) /\ Cardinality(Running(pods, n)) \in Nat
    BY <2>3, <2>4, FS_Subset, FS_CardinalityType
  <2> QED BY <1>3, <2>3, <2>5
<1> QED BY <1>2, <1>3

(* podsShouldBeOnNode and syncNodes: for any number of nodes and pods, any *)
(* delay of the watch, restarts, failed calls, evictions and changes of    *)
(* nodes or template, a node never gets a pod too many while expectations  *)
(* are met in time and no answer of a creation is lost.                    *)
THEOREM OnePerNodeAlways == Spec => []OnePerNode
<1>1. IInv => OnePerNode
  BY OnePerNodeHolds
<1> QED BY <1>1, Invariant, PTL

LEMMA SurgeLimitedHolds ==
  ASSUME IInv
  PROVE  SurgeLimited
<1> SUFFICES ASSUME strategy.surge > 0, ~late
             PROVE  Cardinality({g \in going : g[2] \in Running(pods, g[1]) /\ Alive(pods, g[1]) # {g[2]}}) <= strategy.surge
  BY DEF SurgeLimited
<1> DEFINE S == {g \in going : g[2] \in Running(pods, g[1]) /\ Alive(pods, g[1]) # {g[2]}}
           N == Pending(job)
<1>1. going \in SUBSET (Nodes \X Ids) /\ strategy.surge \in Nat
  BY TypeFacts DEF IInv
<1>2. S \in SUBSET Doubled(going, pods, N)
  BY DEF Doubled
<1>3. Doubled(going, pods, N) \in SUBSET (Nodes \X Ids)
  BY <1>1 DEF Doubled
<1>4. Cardinality(Doubled(going, pods, N)) <= strategy.surge
  BY <1>1 DEF IInv, OnTime, Surges
<1> HIDE DEF S
<1>5. Cardinality(S) <= Cardinality(Doubled(going, pods, N)) /\ Cardinality(S) \in Nat /\ Cardinality(Doubled(going, pods, N)) \in Nat
  BY <1>2, <1>3, GoingFinite, FS_Subset, FS_CardinalityType
<1>6. Cardinality(S) <= strategy.surge
  BY <1>1, <1>4, <1>5
<1> QED BY <1>6 DEF S

(* rollingUpdate: the nodes where an update has put a second pod beside an *)
(* available one never exceed maxSurge, although the decisions of several  *)
(* syncs, each from a cache that lags behind, add up to them.              *)
THEOREM SurgeStaysLimited == Spec => []SurgeLimited
<1>1. IInv => SurgeLimited
  BY SurgeLimitedHolds
<1> QED BY <1>1, Invariant, PTL
=============================================================================
