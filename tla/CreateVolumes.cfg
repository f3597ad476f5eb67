CONSTANTS
  Kinds = {configmap, pvc, secret}
  Cap = 3
  MaxTries = 2
  Containers <- MCContainers
  RootWorlds <- MCRootWorlds
  LeafWorld <- MCLeafWorld
  Invalid = {"x"}
  MaxUnread = 1
  VolumeNames = {"token", "root-ca", "master-root-ca", "s", "p", "c", "d", "w"}
  RootPods <- MCRootPods
  LeafPodPlans <- MCPodPlans
  MaxImage = 2
  MaxSelection = 3
  UseProxy = TRUE
  CommandBudget = 2
  CallFaults = 1
SPECIFICATION MCSpec
INVARIANTS NilMeansAllCopied EnvFaithful Mountable UnjoinLeavesNothing
PROPERTIES NoGoroutineLeak LeafSettles CommandsGoThrough DeploySettles
CHECK_DEADLOCK FALSE
