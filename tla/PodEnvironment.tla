--------------------------- MODULE PodEnvironment ---------------------------
(***************************************************************************)
(* The environment of a container that is copied to a leaf cluster         *)
(* (pkg/utils/lifted/env.go, PopulateEnvironmentVariables): the root       *)
(* cluster's configmaps, secrets, services and pod fields are resolved     *)
(* before the pod is created in the leaf, envFrom is emptied and env is    *)
(* replaced by the resolved variables, in the order of a Go map, followed  *)
(* by the entries that could not be resolved.  The kubelet of the leaf     *)
(* cluster then evaluates that list as it evaluates any container.         *)
(*                                                                         *)
(* A text is a sequence of parts: plain text, a reference $(X), or an      *)
(* escaped reference $$(X).  All the variables derived from one service    *)
(* stand as one variable with the service's name.                          *)
(***************************************************************************)
EXTENDS Naturals, Sequences, FiniteSets, SequencesExt

CONSTANTS Containers,   \* the containers tried
          RootWorlds,   \* what the root cluster holds: objects and services
          LeafWorld,    \* what the leaf cluster holds
          Invalid,      \* keys that are no names of environment variables
          MaxUnread     \* attempts during which reads fail

ASSUME UnreadAssumption == MaxUnread \in Nat

VARIABLES container,    \* [from, env, links] as the root pod has it
          world,        \* the root cluster's objects and services
          unread,       \* attempts left in which reads may fail
          populated,    \* "no", or "yes" when the leaf's container is built
          skipped,      \* optional references given up because of a failed read
          leafEnv       \* env of the leaf's container, its envFrom is empty

envVars == <<container, world, unread, populated, skipped, leafEnv>>

Text(t) == [as |-> "text", of |-> t]
Ref(x) == [as |-> "ref", of |-> x]
Escaped(x) == [as |-> "escape", of |-> x]

NoVars == [x \in {} |-> <<>>]

(* f over g: the variables of both, f's where they share a name. *)
Over(f, g) == [x \in DOMAIN f \union DOMAIN g |-> IF x \in DOMAIN f THEN f[x] ELSE g[x]]

(* Expand: a known reference is replaced by its value, an unknown one      *)
(* stays, and an escaped one becomes the plain text of a reference, which  *)
(* the next reader cannot tell from one.                                   *)
Expand(text, known) ==
  FlattenSeq([i \in DOMAIN text |->
    CASE text[i].as = "ref" /\ text[i].of \in DOMAIN known -> known[text[i].of]
      [] text[i].as = "escape" -> <<Ref(text[i].of)>>
      [] OTHER -> <<text[i]>>])

(* FromServices, for the variables of one service. *)
FromService(w, ns, n) == <<Text(w.site \o ns \o n)>>

(* getServiceEnvVarMap: services with an address; the default namespace's  *)
(* kubernetes always, those of the pod's namespace when links are enabled, *)
(* which win over it.                                                      *)
ServiceEnv(w, links) ==
  LET seen == {s \in w.services : s.ip /\ (s.ns = "pod" => links) /\ (s.ns = "default" => s.name = "kubernetes")}
      own(n) == \E s \in seen : s.name = n /\ s.ns = "pod"
  IN [n \in {s.name : s \in seen} |-> FromService(w, IF own(n) THEN "pod" ELSE "default", n)]

(* The keys of a configmap or secret, prefixed, that are valid names. *)
FromSource(source, w) ==
  LET data == w.objects[source.object]
      names == {source.prefix \o k : k \in DOMAIN data} \ Invalid
  IN [x \in names |-> data[CHOOSE k \in DOMAIN data : source.prefix \o k = x]]

Readable(object, w, down) == object \in DOMAIN w.objects /\ object \notin down

(* Seeded fault: a variable that an earlier source set is kept. *)
EnvFromFirstWins(c, w, down) ==
  FoldLeft(LAMBDA res, s : IF Readable(s.object, w, down) THEN Over(res, FromSource(s, w)) ELSE res,
           NoVars, c.from)

(* makeEnvironmentMapBasedOnEnvFrom: later sources override earlier ones.  *)
EnvFrom(c, w, down) ==
  FoldLeft(LAMBDA res, s : IF Readable(s.object, w, down) THEN Over(FromSource(s, w), res) ELSE res,
           NoVars, c.from)

(* A mandatory source that cannot be read fails the pod. *)
EnvFromFails(c, w, down) ==
  \E i \in DOMAIN c.from : ~c.from[i].optional /\ ~Readable(c.from[i].object, w, down)

(* podFieldSelectorRuntimeValue: the other fields are left to the leaf. *)
FieldsResolved ==
  {"metadata.annotations", "metadata.labels", "metadata.name", "metadata.namespace", "metadata.uid",
   "spec.serviceAccountName"}

HasKey(e, w, down) == Readable(e.object, w, down) /\ e.key \in DOMAIN w.objects[e.object]

(* getEnvironmentVariableValue: an error keeps the entry as it is; nil, of *)
(* an optional key or of a resource field, drops it.                       *)
EntryFails(e, w, down) ==
  \/ e.kind = "key" /\ ~e.optional /\ ~HasKey(e, w, down)
  \/ e.kind = "field" /\ e.path \notin FieldsResolved

EntryIsNil(e, w, down) ==
  \/ e.kind = "resource"
  \/ e.kind = "key" /\ e.optional /\ ~HasKey(e, w, down)

EntryValue(e, w, known) ==
  CASE e.kind = "value" -> Expand(e.text, known)
    [] e.kind = "key" -> w.objects[e.object][e.key]
    [] e.kind = "field" -> <<Text(w.site \o e.path)>>

(* makeEnvironmentMap: env overrides envFrom and sees what is known so     *)
(* far; the services' variables fill the names that are left.              *)
MakeEnvironmentMap(c, w, down) ==
  LET svc == ServiceEnv(w, c.links)
      step(acc, e) ==
        IF EntryFails(e, w, down) THEN [acc EXCEPT !.keys = Append(@, e)]
        ELSE IF EntryIsNil(e, w, down) THEN acc
        ELSE [acc EXCEPT !.res =
               Over([x \in {e.name} |-> EntryValue(e, w, Over(acc.res, svc))], acc.res)]
      made == FoldLeft(step, [res |-> EnvFrom(c, w, down), keys |-> <<>>], c.env)
  IN [made EXCEPT !.res = Over(@, svc)]

Entry(x, text) == [name |-> x, kind |-> "value", text |-> text]

(* populateContainerEnvironment: the resolved variables in any order, then *)
(* the unresolved entries.  ListServices and mandatory sources must have   *)
(* been read; what an optional reference loses is not reported.            *)
Populate(down) ==
  LET made == MakeEnvironmentMap(container, world, down)
  IN /\ populated = "no"
     /\ ~EnvFromFails(container, world, down)
     /\ \E order \in SetToSeqs(DOMAIN made.res) :
          leafEnv' = [i \in DOMAIN order |-> Entry(order[i], made.res[order[i]])] \o made.keys
     /\ populated' = "yes"
     /\ skipped' = {o \in down \intersect DOMAIN world.objects :
                      \/ \E i \in DOMAIN container.from : container.from[i].object = o
                      \/ \E i \in DOMAIN container.env : container.env[i].kind = "key" /\ container.env[i].object = o}
     /\ UNCHANGED <<container, world>>

PopulateReads == Populate({}) /\ UNCHANGED unread

(* Some reads fail and the attempt goes through all the same. *)
PopulateUnread ==
  /\ unread > 0
  /\ \E down \in SUBSET DOMAIN world.objects : down # {} /\ Populate(down)
  /\ unread' = unread - 1

(* The services or a mandatory source cannot be read: CreatePodInLeafCluster *)
(* returns the error and the pod is queued again.                          *)
PopulateFails ==
  /\ populated = "no" /\ unread > 0
  /\ unread' = unread - 1
  /\ UNCHANGED <<container, world, populated, skipped, leafEnv>>

(* A mandatory source that does not exist: every attempt fails until the   *)
(* object is made.                                                         *)
MakeMissing(o) ==
  /\ populated = "no"
  /\ \E i \in DOMAIN container.from : container.from[i].object = o /\ ~container.from[i].optional
  /\ o \notin DOMAIN world.objects
  /\ world' = [world EXCEPT !.objects = [p \in {o} \union DOMAIN @ |-> IF p = o THEN NoVars ELSE @[p]]]
  /\ UNCHANGED <<container, unread, populated, skipped, leafEnv>>

EnvInit ==
  /\ container \in Containers
  /\ world \in RootWorlds
  /\ unread = MaxUnread
  /\ populated = "no"
  /\ skipped = {}
  /\ leafEnv = <<>>

EnvNext ==
  \/ PopulateReads \/ PopulateUnread \/ PopulateFails
  \/ \E i \in DOMAIN container.from : MakeMissing(container.from[i].object)

-----------------------------------------------------------------------------
(* What a kubelet gives a container (external): the last entry of env that *)
(* names a variable decides, else the last source of envFrom, else the     *)
(* services; a reference takes the value decided by the entries before it. *)
Kubelet(c, w) ==
  LET svc == ServiceEnv(w, c.links)
      sourced(x) == {i \in DOMAIN c.from : Readable(c.from[i].object, w, {}) /\ x \in DOMAIN FromSource(c.from[i], w)}
      from == [x \in UNION {DOMAIN FromSource(c.from[i], w) : i \in {j \in DOMAIN c.from : Readable(c.from[j].object, w, {})}}
                |-> FromSource(c.from[CHOOSE i \in sourced(x) : \A j \in sourced(x) : j <= i], w)[x]]
      after[n \in 0 .. Len(c.env)] ==
        IF n = 0 THEN Over(from, svc)
        ELSE LET e == c.env[n]
             IN IF EntryIsNil(e, w, {}) /\ e.kind # "resource" THEN after[n - 1]
                ELSE Over([x \in {e.name} |->
                       CASE e.kind = "value" -> Expand(e.text, after[n - 1])
                         [] e.kind = "key" -> w.objects[e.object][e.key]
                         [] e.kind = "field" -> <<Text((IF e.path \in FieldsResolved THEN "root" ELSE "leaf") \o e.path)>>
                         [] e.kind = "resource" -> <<Text("resource")>>],
                       after[n - 1])
  IN after[Len(c.env)]

(* It starts the container only if every mandatory reference is there. *)
Starts(c, w) ==
  /\ ~EnvFromFails(c, w, {})
  /\ \A i \in DOMAIN c.env : c.env[i].kind = "key" => c.env[i].optional \/ HasKey(c.env[i], w, {})

LeafContainer == [from |-> <<>>, env |-> leafEnv, links |-> container.links]

(* References that are still in the list: a forward reference, an escaped  *)
(* one or one to a field that the leaf resolves.  Whether the leaf's       *)
(* kubelet expands them is up to the order of the list.                    *)
StillRefers(x) ==
  \E i \in DOMAIN leafEnv :
    /\ leafEnv[i].name = x /\ leafEnv[i].kind = "value"
    /\ \E p \in DOMAIN leafEnv[i].text : leafEnv[i].text[p].as = "ref"

(* A field that the leaf resolves is unknown while the root's texts are    *)
(* expanded, and its entry goes to the end of the list, behind entries of  *)
(* the same name.                                                          *)
Overtakes(x) ==
  \E i, j \in DOMAIN container.env :
    /\ container.env[i].kind = "field" /\ container.env[i].path \notin FieldsResolved
    /\ i < j /\ container.env[j].name = x
    /\ \/ container.env[i].name = x
       \/ /\ container.env[j].kind = "value"
          /\ \E p \in DOMAIN container.env[j].text : container.env[j].text[p].of = container.env[i].name

(* Entries the code drops, TODO of getEnvironmentVariableValueWithValueFrom. *)
Dropped == {container.env[i].name : i \in {j \in DOMAIN container.env : container.env[j].kind = "resource"}}

(* A container of the leaf cluster sees every variable that the root       *)
(* cluster's kubelet would have given it, with the same value, although it *)
(* is resolved elsewhere, flattened, reordered and evaluated a second time *)
(* (populateContainerEnvironment, env.go:80), except for references that   *)
(* are still in the list, resource fields, optional references whose read  *)
(* failed, and names that a field of the leaf's pod overtakes.             *)
EnvFaithful ==
  populated = "yes" /\ skipped = {} /\ Dropped = {} /\ Starts(container, world) =>
    LET want == Kubelet(container, world)
        got == Kubelet(LeafContainer, LeafWorld)
    IN \A x \in DOMAIN want : StillRefers(x) \/ Overtakes(x) \/ (x \in DOMAIN got /\ got[x] = want[x])
=============================================================================
