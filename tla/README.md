# Kosmos: a TLA+ verification project

Kosmos joins Kubernetes clusters. **ClusterTree** makes every leaf cluster a virtual
node of a root cluster, copies the pods scheduled to that node into the leaf cluster, and
with them the volumes, ConfigMaps, services and DaemonSets they need. **ClusterLink**
connects the pod networks of the clusters with VXLAN devices, routes and iptables rules.
A scheduler with plugins places the pods, an operator and `kosmosctl` install everything.
Almost all of it is Kubernetes controllers: they read through informer caches that lag
behind, write to API servers that may refuse, are restarted at any time, and share
in-memory registries. This directory models the parts where such things matter, checks the
models with TLC on small instances, and proves the main safety properties with TLAPS for
all values of the constants.

Files: `X.tla` is the model of a component, `MCX.tla` and the `.cfg` files are its TLC
instances, `XProofs.tla` holds its theorems. `PROJECT.json` lists components, runs,
mutants, the map from definitions to source lines, hazards and theorems.

## Inventory

| Component | State | Operations | Correct when | Module |
|---|---|---|---|---|
| Pod synchronisation (`controllers/pod`) | root pod, a copy per leaf cluster, caches, work queues | create, update, delete the copy; carry status back; delete the root pod when the copy is gone | a copy runs only where its pod was scheduled, others' pods are not overwritten, root and leaf agree in the end | `PodSync`, abstractly `Placement` |
| Volume step (`createVolumes`) | goroutines, a buffered channel | copy ConfigMaps, claims, Secrets; collect errors | nil means all was copied; no goroutine is leaked | `CreateVolumes` |
| Pod conversion (`podutils`, `convertpolicy`) | the copy and the objects made for it | fit the pod, apply policies, make tokens, write edits | what the copy mounts is there; it follows the root pod | `LeafPod` |
| Environment (`utils/lifted/env.go`) | a container's env and envFrom | resolve in the root | it means the same to the leaf's kubelet | `PodEnvironment` |
| Scheduler plugins (`pkg/scheduler`) | policies, taints, claims, the binder's cache | PreFilter to Unreserve | a pod lands where its policy and its volumes allow; nothing stays assumed for nobody | `Scheduler` |
| Cluster controller and registries | Clusters with a finalizer, managers, two registries, virtual nodes | add, change, remove a leaf cluster | one manager per Cluster that was not cancelled; no registry entry survives the Cluster | `ClusterRegistry` |
| Node status and leases | conditions with thresholds, leases, resources | probe, renew, patch | no node is out of service before its threshold or lease is over | `NodeStatus` |
| ConfigMap/Secret, volume and claim synchronisation | copies of one object, an annotation of the clusters that hold one | copy down, carry status up, clean up | no volume in use goes; others' ConfigMaps and Secrets are not overwritten | `StorageSync` |
| Multi-cluster services, Service and EndpointSlice synchronisation | exports, imports, slices | export, import, copy, clean up | finalizers keep their promise; leaf clusters show what the root has | `MultiClusterService` |
| DaemonSet extension | mirror, shadow and member DaemonSets; pods of the host | distribute, reflect, roll out | one pod per node, within the update's limits; copies follow the original | `DaemonTree`, `HostDaemonSet` |
| ClusterLink controllers and address detection | ClusterNodes, IP pools, CIDRs of a Cluster | collect, publish | three writers do not undo each other; no CIDR comes back as one's own | `ClusterNodes`, `IPPools` |
| Network manager and gateway elector | NodeConfigs, gateway roles | compute, publish, elect | the NodeConfigs lead packets to their node; none is left over | `NetworkConfig`, `NetworkManager` |
| ClusterLink agent and kernel adapter | NodeConfig, debounce timer, kernel devices and rules | reconcile, check every 30 s | the kernel converges to the NodeConfig | `AgentSync` |
| Operator and `kosmosctl` | the objects of an installation | install, uninstall, join, unjoin, reconcile | a command goes through whatever an earlier one left, a Terminating namespace aside; unjoin leaves nothing | `Deploy` |
| Node server, multi-cluster proxy, generated code, CRD manifests | | | | not modelled |

Interactions. The scheduler binds a pod to a virtual node (`Scheduler`); the root pod
reconciler takes it from there (`PodSync`) and calls the volume step and the conversion
(`CreateVolumes`, `LeafPod`, `PodEnvironment`) before it creates the copy. It finds the
leaf cluster's client in the registries that the cluster controller fills
(`ClusterRegistry`); in `PodSync` the variable `managed` and its actions `StopLeaf`,
`StartLeaf` and `Restart` stand for that controller. The objects the volumes need are
kept in step by `StorageSync`, whose annotation of clusters is written by the volume step
(`createStorageInLeafCluster`). On the network side Nodes become ClusterNodes
(`ClusterNodes`), Clusters carry CIDRs (`IPPools`), the network manager turns both into
NodeConfigs (`NetworkConfig`, `NetworkManager`), and each agent applies its own
(`AgentSync`). The components talk through API objects only, so a module takes the
objects another one writes as its environment: `AgentSync` accepts any sequence of
NodeConfigs, `NetworkManager` any ClusterNodes, `PodSync` any binding.

What is hard: every decision is taken from a cache; deletion goes by name, without UID;
half the updates carry no resource version; errors are sometimes requeued, sometimes
retried a few times and sometimes dropped; a restart loses queues and with them deletion
events; goroutines share a channel and a lock; the kernel removes rules as a side effect;
finalizers make objects wait for controllers that may be gone. `PROJECT.json` "hazards"
lists each at its line.

## The models

A *budget* is common to most modules: a variable that counts down the disturbances left
(edits, deletions, failing calls, restarts, ...), so that they stop in the end, which is
what the liveness properties are about. Actions of the code take nothing from it. A
failing call that leaves the state as it was, in a handler that puts the key back, is a
stuttering step; failures that leave something behind are actions.

**PodSync.** One pod name, any number of leaf clusters, each with one virtual node
(LeafMode ALL). `root`, `rootWatch`, `rootCache` are the API server's pod, the versions
its informer has not yet seen, and the informer's cache; `leaf*` are the same per leaf
cluster. `queue` holds the controllers that have the name queued, `job` a root
reconciliation in the middle of something. `uid` and `owner` number the incarnations of
the name: the code compares no UID, and no action reads `owner` except `IsKosmosPod`,
which stands for the label `kosmos-io/pod`. `home` records where an incarnation was
scheduled. `Root*` actions are the branches of `RootPodReconciler.Reconcile`,
`LeafReconcile`, `SyncReconcile` and `SyncFails` the other two reconcilers, `RootEvents`
and `LeafEventAccepted` the event predicates. Left out: the nil dereference of
`GetClusterNode` when the leaf cluster is removed between two lookups.

**Placement.** What pod synchronisation promises about where pods run, with no caches,
queues or reconcilers: every incarnation is bound to one leaf cluster for good, a cluster
has one slot for the name, which a copy, or a pod of the cluster's own users, takes only when
it is free, and no copy is started once one of a later incarnation is there. `PodSync`
implements it (`ImplementsPlacement`): `bound` is `home` up to `lastUid`, a slot holds the
`owner` of the leaf pod.

**CreateVolumes.** Three goroutines poll, give up after a bounded number of attempts (the
timeout of `wait.PollImmediate`), and report on a channel of capacity three. One that
fails sends its error *and* the empty message, since the error branch does not return.

**LeafPod.** One pod and its copy through `CreatePodInLeafCluster` and
`UpdatePodInLeafCluster`: `job` goes step by step through taking back what the virtual node
put on it, the service account and its token Secret, projected volumes that become Secrets,
DNS, affinity, the conversion policies, the volumes, and the creation; edits follow as far
as the API server allows. `inLeaf` is what the leaf cluster holds, `leafPod` the copy. Names
and specs are model values; rewriting a name for the leaf (`root-ca`, tokens) is kept. Claims
of one-way storage (kind `oneway`) are not copied (`NoOneWayPVCFilter`); `StorageSync` has the
controller that brings them.

**PodEnvironment.** Pure operators: `Populate` is what the root resolves, `Kubelet` how
a kubelet evaluates an environment, both folds over the entries with references and
escapes. The action reads the objects one by one and may fail.

**Scheduler.** One scheduling cycle at a time, binding goroutines beside it. The
framework's order of extension points, the binder of Kubernetes and the volume controllers
are external, modelled from how the plugins call them. All claims and volumes are
of one storage class; the search among those of the claim's (leafnode_volume_binding.go:469)
is over all free volumes.

**ClusterRegistry.** `Take` to `StartManager` are the steps of `ClusterController.Reconcile`
between the calls that may fail. `job.fresh` says whether the copy the worker read is still
the API server's version: an update with an older one conflicts. `managers` are the maps
the code keeps, `live` counts managers that really run, `stopping` those of them whose context
was cancelled: `Clear` only cancels, and `ManagerStops` is `mgr.Start` returning some time
later, which nobody waits for. A leak is a running manager neither registered nor cancelled.
LeafMode ALL; `NodeOf`/`NamedAs` are the two node names the code uses.

**NodeStatus.** Time in rounds of ten seconds. The two loops of `NodeLeaseController`,
`NodeResourcesController`, the store that holds back conditions, and the root's node
lifecycle controller (external), for the three leaf models (whole cluster, parts, node by
node). Leases are read through a cache: one that was created a moment ago may not be shown
and ends the round, and the lease of a deleted node, which names the old UID, is collected
(`CollectLease`) and made again. A status write is a sign of life only when its heartbeat is
new or the condition changes (`ShowsLife`). Left out: the nil dereference in ALL mode when the
leaf cluster has no node (node_resources_controller.go:122-163; every state of the instances
has one), and the time between `Patch` and `PatchStatus` (:173-183), which are one step.

**StorageSync.** One object of one kind (`data`, `claim`, `oneway`) and its copies.
Rounds that merge a patch with the object as it is are one step, rounds that write what
they read earlier are several. `lost` names the gaps of the code that an event fell into. A
claim may be needed again after it went, so that volume names are used again.

**IPPools.** The cluster controller, the Calico pool controller and the starter of one
member cluster, `Here`; other clusters are the environment. `givenUp` and `unmarked` name
what dropped items leave behind.

**MultiClusterService.** One service name in mode `mcs` (exports, imports, their
finalizers) or `direct` (simple synchronisation), every write a step. `svcCache` is the root's
informer, `lsvcCache` the cache of the leaf cluster's manager, which the importers read;
writing from an old version is refused (`ImpConflict`). `unfit` are the clusters of another IP
family (`checkServiceType`): the importer skips the service there and goes on with the slices,
the simple mode fails. It is fixed for a behaviour, as if a service kept its family.

**DaemonTree and HostDaemonSet.** The chain of DaemonSets from root to member, with three
controllers and their own caches; and the controller of the host's pods with its
expectations, rolling update and surge. The reflection of member pods is not modelled.

**ClusterNodes.** Three programs that read, change and update one object with its version, in
any number of clusters whose Nodes may have the same name.

**NetworkConfig and NetworkManager.** The handler chain as operators over abstract
addresses; the reconciler with its three lagging caches, its difference of old and new
NodeConfigs and one request after the other; the electors. `kept` are the nodes whose
NodeConfig the controller kept as it was and ought not to have (see the gaps below).

**AgentSync.** `want` is the NodeConfig, `timer` what the debouncer holds, `waiting` the
calls that wait for the lock, `to` and `status` fields of NetworkManager, `sys` the kernel.
`WriteSys` is one pass with any set of calls failing; a device may be created half way.
`Sticky` are the entries that `Diff` never deletes. A rule may be published without its device:
pod_routes.go:136-141 writes routes for every gateway, vxbridge_network.go:14-25 the device
for the first one only. Adding it fails in every pass, and what is promised is about the other
rules (`Housed`). `UpdateConfig` is left out.

**Deploy.** Commands of `kosmosctl` as programs of API calls, any of which may fail, one
command at a time, beside the operator with its finalizer. An object stands for API
objects created and deleted in a row. A deleted namespace is Terminating (`nsEnding`) and
refuses creations until the namespace controller has emptied it (`NamespaceEnds`). Where the
code passes over an error of a Get that is not NotFound, the command goes on (`StartUnread`,
`CallFails`).

## Runs

Every property has a mutant of the code (the definitions commented "Seeded fault") under
which TLC finds it violated. Components that share no state run side by side in one run,
one disturbed while the others rest: `pod_creation`, `pod_live`, `storage` and
`member_cluster`. `host_daemon_overtaken` is expected to end in a violation: it shows where
the code does not do what its comment says.

| Run | Instance | Shows |
|---|---|---|
| `pod_creation` | 3 kinds, channel of 3, 2 attempts; containers with 2 entries and 2 sources; 4 pods with failing calls, policies, edits; 2 commands with a failing call or a crash | `NilMeansAllCopied`, `NoGoroutineLeak`, `EnvFaithful`, `Mountable`, `LeafSettles`, `UnjoinLeavesNothing`, `CommandsGoThrough`, `DeploySettles` |
| `pod_safe` | 2 leaf clusters, stale caches; 2 incarnations with a forced deletion, an eviction and a restart; a foreign pod; a dropped status repair | `OneHome`, `ForeignNeverOverwritten`, `ImplementsPlacement` |
| `pod_live` | 1 leaf cluster, fresh caches; a failure, an edit, an eviction; a stop and a restart. 2 pods, 3 nodes, 2 claims, 2 volumes | `Converges`; `AssumedAccounted`, `LandsRight`, `AllPlaced` |
| `registry` | 2 Clusters, good and unusable kubeconfigs, 2 creations; an edit and a failure; a dying manager and a restart | `OneManager`, `NothingOutlives`, `Converges`, `DeletedGoes` |
| `member_cluster` | 1 device, 3 rules, 4 configurations, one with a route whose device is missing; a failure with a deletion and drift, or a dropped event and a restart. 1 node that joins, leaves, changes CIDRs; failures, restart; a namesake in a second cluster that leaves or stays | `TwoPassesSuffice`, `AgentConverges`; `NoLostUpdate`, `Converges` |
| `network` | a gateway cluster of 2 nodes, a peer-to-peer cluster of 1, 2 families, 3-bit addresses | `Forwards`, `OnlyKeptLinger`, `Converges` |
| `storage` | 2 leaf clusters, each kind; a claim needed twice; one member cluster, 3 CIDRs | `VolumeKept`, `ForeignNotOverwritten`, `Converges`; `NoEcho`, `CidrsSettle` |
| `node_status` | 2 leaf nodes, 3 leaf models, thresholds of 2 and 3 rounds | `HeldBack`, `NoFalseExpiry`, `Converges` |
| `services` | 2 leaf clusters, one late, or of another IP family; 1 slice; 1 retry | `CleanBeforeGone`, `Converges` |
| `host_daemon` | 2 nodes, maxUnavailable or maxSurge 1, 8 pods | `OnePerNode`, `SurgeLimited`, `Converges` |
| `host_daemon_overtaken` | the same with maxUnavailable 1 and two templates | `UnavailableLimited` is violated |
| `daemon_tree` | 1 member cluster that joins and leaves, 14 cases | `Converges` |

Bounds. A run starts from one of several budgets (`Plans`, `Budgets` of the MC modules),
each with the disturbances that meet in one story. One of each kind suffices to interleave
it with every step of every controller; two creations for a name to be reused; two leaf
clusters for a copy to be in the wrong one; one late cluster for a controller to catch up;
one device with a rule that stays, one that goes and an iptables rule for every case of
`WriteSys`; two nodes for an update to wait for the other. `MaxRetries` is 1 (15 in the
code): an import is retried, and is given up. With the namesake only the leaving Node and
its controllers move in the second cluster. In `node_status` the threshold is shorter than
the lease (2 and 3 rounds; 180 and 4 in the code); the theorems hold for all values. The
safety properties that are proved do not depend on the bounds. The type invariants are
proved, not run. `Lag` restricts which leaf caches may be read while stale: `pod_live`
needs it empty, since with stale reads copies can be orphaned (see the gaps).

Symmetry is not used: most runs check temporal properties. Deadlock is checked in
`member_cluster` and `node_status`, which run forever; the other systems may come to rest.

Fairness. Watches deliver, a non-empty work queue is worked on, timers tick, a waiting
call gets the lock, informers resync, kubelets remove terminated pods, stopped leaf
managers are started again by the cluster controller, cancelled ones return in the end,
Terminating namespaces are emptied, an administrator's command goes on to its end. No fairness is assumed of users, failures or restarts. Strong fairness is
assumed where the code's queues give it: taking a key in `ClusterRegistry` (`Take`),
`ClusterNodes` (`NodeGet`, `CidrItem`) and `IPPools` (`PoolStart`, `CleanResource`), since work
queues are first in first out and another key's retries cannot starve one; `PreFilter` in
`Scheduler`, since the scheduling queue moves pods that wait longest to the front; and
`PodTake(order)` in `LeafPod`, since the order of volumes comes from iterating over a Go
map, which is random, so every order is taken if the pod is retried forever.

## Gaps of the code that the models name

`Converges` and its kin hold "except across the gaps": what the code passes over is
recorded by a variable or a predicate of the model, so that the property says exactly what
else goes right. They were met while modelling, or when a property failed.

*Pods.* A root pod force-deleted right after its copy was created leaves the copy: the
purge looks into a leaf cache that does not have it yet, and only at nodes registered now
(root_pod_controller.go:129). The label is checked on the cached pod and the deletion goes
by name, so a user's pod that took the name is deleted (:1070); `ForeignNeverOverwritten` is
about creations and updates. The status reconciler drops its errors
(rootpodstatus_sync_controller.go:113). The end of an old copy, handled late, deletes the
new root pod of the same name (leaf_pod_controller.go:133).

*Copies* (`LeafPod`: `TokenStuck`, `CreatedHalfway`, `UpdateRefused`, `spoilt`). A token
Secret that exists and that no service account names stops every conversion; a pod created
with a volume or its DNS unconverted, and edits that change more than the API server allows,
are refused for good; a pod may start before the claim of a one-way volume; a token Secret is stored with the uid of the root's service account, so
the leaf cluster removes it; `kube-root-ca.crt` is matched by prefix in one place and
exactly in another.

*Environments.* References left unresolved and escaped ones are expanded a second time by
the leaf's kubelet, in map order; `resourceFieldRef` and failed optional reads are dropped;
fields that the leaf resolves come after the rest, whatever the order was.

*Scheduler.* Of several policies in the unordered list the last one wins; `isToleration`
is always false; `mapContains` matches on any one label; one-to-one nodes are not checked
against the owner of unbound volumes; volumes stay assumed when the node goes or gets the
leaf taint between Reserve and Unreserve (`leaked`).

*Cluster controller.* The virtual node is created as `kosmos-<name>` and deleted as
`<name>` (cluster_controller.go:369); Clusters that share an actual name share a client
entry, and reconciling one removes it for all (:244); the registry reads a map without the
lock (leaf_resource_manager.go:150); a manager that dies is only logged. Cancelling a manager
does not wait for it (:235): the old one may run on beside the new, or after the Cluster went.

*Nodes.* A lease round ends at its first failure, so a node pays for those before it; with a
deleted node, whose lease is collected and made again, that may be every round, and in Node
mode the nodes after it become Unknown and ready in turn (`CutShort`). A list of masters that
fails makes the node not ready at once, without a threshold (leaf_model_handler.go:483);
`HeldBack` is about probes.

*Storage, services, DaemonSets.* The deletion of a root volume reaches the leaf cluster by name
(root_pv_controller.go:97): if the leaf has used the name for another claim meanwhile, that
one loses its volume ("name used again"). A one-way volume whose node is not known when its
round comes is dropped until the next event (oneway_pvc_controller.go:90-109). A ConfigMap or
Secret of others is deleted with the root's (`SyncResource`), a claim of others overwritten and
deleted (root_pvc_controller.go:84-86); `ForeignNotOverwritten` is about content. Lists that stop at the first error, errors logged and
dropped, retries given up after a number (`lost`, `Blocked`). See the comments at those
definitions. The clean-up of an import looks the service up first and deletes the slices
only if it is there: a failing call or a restart between the two deletions leaves the slices
for good (`HalfCleaned`, serviceimport_controller.go:163). It looks in a cache: a service just
made is not found, the finalizer goes, and service and slices stay (:149); in a cluster of
another IP family no service is ever found. The proof below came upon the
restart; the run's plans were extended to it. A rolling update leaves old
pods that are not available out of the count, so a template that changes again during an
update takes maxUnavailable further nodes out of service (`UnavailableLimited`, update.go:79;
the comment at update.go:42 says otherwise).

*ClusterLink.* An event of a Node is turned into the key of the first ClusterNode of that name,
of whichever cluster (adaper/interface.go:30-42): while a Node of another cluster has the
same name, the CIDRs of a ClusterNode may stay old (`Namesake`). A deletion of a NodeConfig overtakes its debounced update, and the deleted
network is set up (agent_controller.go:118); a repaired failure is reported again from a
status that was never reset (network_manager.go:279). `kept` in `NetworkManager`: a
deletion that failed is not tried again; a NodeConfig the cache does not show yet is not
deleted; a write is skipped when the stale cache still shows the wanted configuration
that was just changed or deleted (`SkippedOnStale`); and after a restart with no
ClusterNode nothing is queued, so old NodeConfigs stay. The last two came out of the proof
below: the run's budgets had not reached them. `givenUp` in `IPPools`: the arguments of the
etcd prefix call are exchanged; pools of deleted Clusters are never removed; items are
dropped; the pool controller goes on after the clean-up; a restart deletes pools until the
Clusters are reconciled again.

*Installation.* A command that starts while a namespace is still Terminating fails
(`running.late`); an unjoin that cannot read the Cluster goes on without its options and
leaves the CRDs. An operator Deployment that is found is not completed; join fails on a
Cluster that exists; its Secret has an empty kubeconfig; `uninstall` of CoreDNS panics when
the Cluster CRD is gone; unjoin cannot be repeated once the Cluster is gone, and loops when
the controller of the finalizer is uninstalled; the operator adds its finalizer only after
the installation (`begun`); the agent's uninstall deletes a ConfigMap of the Secret's name;
uninstalling ClusterTree deletes the kubeconfig the scheduler mounts; `uninstall all`
deletes the namespace with scheduler and CoreDNS; the DistributionPolicy CRD is never deleted.

## Proofs

The theorems hold for all constants that satisfy the modules' assumptions, which TLC
evaluates on every run; fairness is not used. No module uses a RECURSIVE operator.

* `PodSyncProofs`: `Typing`, `OneHomeAlways`, `ForeignSpared`, `Refinement`. `OneHome` is
  not inductive: it must hold of every copy of a pod that may still be written, so the
  invariant says of the API servers, the watches, the caches and the pod of a running
  creation that each root pod in them agrees with `home` and each leaf pod belongs to its
  cluster (`KnownRoot`, `CopiesIn`). For `ForeignSpared` a second invariant, `Fresh`, says
  that a cache with an empty watch equals the API server: the update's version check then
  means that the pod updated is the one whose label was looked at. `Refinement` goes action
  by action: each is a step of `Placement` or leaves `home` and the slots alone. That a
  copy is never started after one of a later incarnation needs a third invariant, `InOrder`:
  the versions in cache, watch and API server, and the pod of a running creation, come in
  the order of their incarnations, and no copy is newer than what the API server has had.
* `ControlPlaneProofs`: `Typing`, `NilIsSound`, `AllMountable`, `DeployTyping`,
  `UnjoinClean`, `NoCommandStuck`, `MCSTyping`, `GoneMeansClean`. For the first two the
  invariant speaks about the messages sent so far, those received followed by
  those in the channel: an error precedes the empty message of the same goroutine
  (`ErrBeforeEmpty`), and each goroutine sends that one at most once (`OneEmptyEach`). If as many empty messages as there are kinds have been
  received and no error, they come from different goroutines, and none of those failed.
  `AllMountable` is about `LeafPod`: `MountInv` follows the job from step to step and says
  which of the pod's volumes are in the leaf already, under which names, and that a token
  taken from the root marks the copy as spoilt. It says nothing of one-way claims.
  `UnjoinClean` is about `Deploy`. Lemmas say which calls the programs of the commands
  consist of, so that a step is a case per call and not per position. `DeployInv` adds to
  the types that the roles of the add-ons are in the member only while the operator's
  finalizer is on the Cluster or the operator has not got that far, and that it is released
  only after both roles are gone (`Held`); that only an unjoin deletes the Cluster, or a
  command that failed left it so (`Known`); that the CRDs of ClusterTree belong to a Cluster
  or to a command about to register it or to delete them (`Owned`); and what a running unjoin
  has deleted so far (`Cleared`).
  `NoCommandStuck` is about the same module: a command ends early only when a call fails or
  for a reason that `Refused` names. The programs of install and join only build (`Builds`):
  each call finds what it wants among objects that earlier calls create under no condition or
  under its own, and nothing looked for was a condition before. That is shown of the parts
  (`OperatorBuilds`, `ClusterlinkBuilds`, ...) and handed on by concatenation and conditions
  (`BuildsOn`, `GivenBuilds`). The invariant `Made` says that what the running command has
  created and is still due is there: no other command runs meanwhile, and the operator takes
  away only the add-ons, and a namespace ends only if it was Terminating when the command
  started. The programs of uninstall and unjoin (`Takes`) want no object.
  `GoneMeansClean` is about `MultiClusterService`, with three invariants beside the
  types: the two modes have their own objects (`MCSModes`); slices in a leaf cluster can be
  found by their service or are being deleted after it, and a finished clean-up left nothing,
  save in the clusters of `lost` (`MCSLeafSide`); a round that saw the export go has yet to come to every slice that is still
  annotated (`MCSExportSide`).
* `ClusterRegistryProofs`: `Typing`, `OneManagerAlways`, `NothingOutlivesCluster`. Any
  live version with the finalizer that can still be read, in the watch, the cache or the
  worker's hands, belongs to a Cluster whose object is there with its finalizer: only the
  worker removes it, only holding the latest version, and only after clearing the registries.
  Running managers are counted: all but at most one were cancelled (`stopping`), and that one is
  in the map.
* `MemberClusterProofs`: `AgentTyping`, `TwoPasses` about `AgentSync`, `Typing`,
  `UpdatesKept` about `ClusterNodes`. After one clean pass the devices are those of
  the configuration and no rule that should go is left (`FirstPass`); a second pass touches
  no device and adds the missing rules, but those without a device (`SecondPass`). This starts from an arbitrary kernel
  state, so nothing about reachable states is needed besides the types. For
  `UpdatesKept`: a writer's update passes only when the object is the one it read, so it
  changes its own fields only.
* `StorageProofs`: `Typing`, `VolumeSafe`, `OthersSpared` about `StorageSync`, `PoolTyping`,
  `NothingEchoed` about `IPPools`. A leaf volume is deleted by a later event than the one
  that took the claim away, so the invariant (`VolInv`, `ClaimHeld`) says that such an event is
  queued only once the copy of the claim is gone, and that the volume is there from the
  binding on, unless someone deleted it by hand or the name was used again too early (`Excused`).
  `EchoInv` carries through the pools, the controller's picture
  of them and the list it is about to write that what was made for another cluster is marked.
* `HostDaemonProofs`: `HostTyping`, `OnePerNodeAlways`, `SurgeStaysLimited`. The controller
  decides from a cache, so the invariant says that cache and watch together are the API
  server's pods (`Piped`), and that, until an expectation times out, the creations it expects
  are those still to be sent and those it has not seen (`Counted`, as a cardinality): with
  none left the cache shows every pod that was created. Then a node has one pod or one being
  created, never both (`Single`), or, during a surge, at most two (`AtMostTwo`), of which the
  newer one has not started (`NotStarted`), and the nodes doubled so are no more than maxSurge
  (`Surges`). The revision numbers of the histories are not typed: they are a maximum over a
  finite set, which exists by induction only.
* `SchedulerProofs`: `NothingStaysAssumed`, `LandsWhereAllowed`. A pod is out of the queue
  while it is in the cycle or being bound, and never both at once (`OneAtATime`); so no
  cycle overwrites the record of a binding that still answers for an assumed volume. For
  `LandsRight` every step is shown to be an edit, which spends one of the edits left, or
  steady: nodes and policies stay, and no volume goes or changes its owner or affinity
  (`WorldStep`). `World` says that claims and volumes agree, which the volume controllers
  keep; `CycleRight` that, while nothing was edited since PreFilter, the snapshot is true
  and each node in `fit` is right (`TermMeant`, `FitsInReach`); `BindingRight` that the
  goroutine has such a node. It assumes that claims and volumes agree at the start
  (`SetupsAssumption`) and that node names are not names of queues (`NodesAssumption`).
  The module also holds the theorems about the virtual nodes (`NodeStatus`): `ThresholdHeld`
  and `NoExpiryWhileRenewed`, both from `Ruled`. A lease is no older than the lease rounds
  that failed in a row, and one more before this tick's round (`LeaseOk`); the store's
  observation of a cluster that is away is no older than the time without an answer
  (`SavedOk`); what `syncNodeStatus` is about to write was right for the node it read
  (`StatusOk`), and whoever writes the node in between is seen as a conflict. The proof found
  that `HeldBack` had blamed the status write for what a patch of the other controller did
  between its read and its write; `Writes` now names the step itself. It assumes that every leaf
  cluster has a virtual node (`ConfigAssumption`) and positive thresholds (`RoundAssumption`).
* `NetworkManagerProofs`: `Typing`, `NothingElseLingers`. At rest means that queue, job and
  watches are empty; before that, every difference between the nodes and the NodeConfigs is
  in hand: an event will come, the queue holds an item, the job has the node among its
  writes or deletions, or the node is in `kept` (`InHand`, with `Noticed` and `AsSeen` for
  what the caches show). The attempt failed twice on real behaviours, the stale skip and the
  restart named above; the model's `kept` and the run's budgets were extended to them.

Only model-checked:

* all liveness properties (`Converges`, `DeletedGoes`, `NoGoroutineLeak`, `LeafSettles`,
  `AgentConverges`, `DeploySettles`, `AllPlaced`, `CidrsSettle`), which need fairness and ENABLED, out of this
  prover's reach;
* `EnvFaithful`: a fact about folds over the entries of an environment, which needs
  induction over data;
* `Forwards`: a statement about packets and the whole computation of `NetworkConfig`, a chain
  of handlers over sets of routes, neighbours and rules; for any number of nodes and
  addresses the cases are beyond the provers.

## Not modelled

The node server (streams of logs and exec sessions: I/O without state); the multi-cluster
proxy (a cache behind an API, a candidate for a module); generated code (deepcopy, openapi,
clients, informers) and the CRD manifests, about 25 000 lines; the `kosmosctl` commands that
read or print; the clean-up of ClusterNodes when a Cluster goes; the reflection of member
pods into the root. `Clusters` of the root itself and LeafMode other than ALL in `PodSync`
and `ClusterRegistry` (`NodeStatus`, `LeafPod` and `Scheduler` have all modes).

## Plan

Done: the modules, runs and proofs above, in the order pods, clusters, agent, then storage,
network, nodes, scheduler, services, DaemonSets and the installation. Left, in this order: the
part of `Forwards` within one cluster; the multi-cluster proxy and the reflection of member pods as modules of their own.

## Running

`tlc -config X.cfg M` for the pairs of `PROJECT.json` "runs", `tlapm XProofs.tla` for
the proofs. The slowest runs take about three minutes with two workers.
