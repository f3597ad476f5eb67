------------------------------- MODULE Deploy -------------------------------
(***************************************************************************)
(* Installing Kosmos: the commands of kosmosctl (install, uninstall, join, *)
(* unjoin) as programs of API calls that an administrator starts one after *)
(* the other and any call of which may fail, beside the ClusterLink        *)
(* operator, which puts the add-ons into every cluster that has a Cluster  *)
(* resource with ClusterLink enabled and takes them out again.             *)
(*                                                                         *)
(* An object stands for the API objects that are created, and deleted, in  *)
(* a row: a ServiceAccount with its role and binding, the four CRDs of     *)
(* ClusterTree, a Deployment.  A namespace that is deleted is Terminating: *)
(* it takes no new objects, cannot be created anew, and goes later with    *)
(* what is in it.                                                          *)
(***************************************************************************)
EXTENDS Integers, Sequences, FiniteSets

CONSTANTS UseProxy,      \* --use-proxy of the operator
          CommandBudget, \* commands the administrator starts
          CallFaults     \* API calls that fail, and crashes of the operator

ASSUME DeployConstants == UseProxy \in BOOLEAN /\ CommandBudget \in Nat /\ CallFaults \in Nat

VARIABLES
  objects,   \* per cluster, the objects that exist in it
  crs,       \* the Cluster resources of the control plane
  running,       \* the running command: where it is and what its reads found
  operator,  \* the operator: whether it runs, its queue and the reconcile under way
  begun,     \* clusters whose add-ons are being installed without a finalizer yet
  halted,    \* clusters on which a command has failed
  commands, callFaults

deployVars == <<objects, crs, running, operator, begun, halted, commands, callFaults>>

Host == "host"
Members == {"host", "member"}
Roles == {"linkRbac", "treeRbac", "schedRbac", "dnsRbac", "kosmosRole", "electorRole", "managerRole"}
ClusterWide == {"crdCluster", "crdLink", "crdCDP", "crdDP", "treeCRDs", "ns", "nsEnding"} \cup Roles
NoCluster == [link |-> FALSE, tree |-> FALSE, deleting |-> FALSE, finalizers |-> {}, there |-> FALSE]
NoCommand == [cmd |-> "none", at |-> 1, seen |-> {}, was |-> NoCluster, late |-> FALSE]
Resting == [on |-> Host, mode |-> "idle", at |-> 1, was |-> NoCluster]
Down == [up |-> FALSE, due |-> {}, now |-> Resting, config |-> "empty"]

-----------------------------------------------------------------------------
(* Programs: a step is an API call, made if `seen' allows it.              *)

Step(op, c, o) == [op |-> op, at |-> c, obj |-> o, only |-> "", unless |-> ""]
Creates(c, os) == [i \in 1..Len(os) |-> Step("create", c, os[i])]
Deletes(c, os) == [i \in 1..Len(os) |-> Step("delete", c, os[i])]
Look(o) == <<Step("look", Host, o)>>
Wait(o) == <<Step("wait", Host, o)>>
DropCRD(o) == <<Step("drop", Host, o)>>
Only(o, p) == [i \in 1..Len(p) |-> [p[i] EXCEPT !.only = o]]
Unless(o, p) == [i \in 1..Len(p) |-> [p[i] EXCEPT !.unless = o]]
Opt(b, p) == IF b THEN p ELSE <<>>

(* What the pods of a Deployment need to start.  The operator needs a      *)
(* control panel secret too; an empty one makes it use its ServiceAccount. *)
NetManagerNeeds == {"ns", "linkRbac", "crdCluster", "crdLink"}
OperatorNeeds == {"ns", "operatorSA", "kosmosRole"}
TreeNeeds == {"ns", "treeRbac", "treeSecret", "crdCluster"}
SchedulerNeeds == {"ns", "schedRbac", "schedConfig", "hostConfig", "crdCDP", "crdDP"}
CoreDNSNeeds == {"ns", "dnsRbac", "dnsConfig", "crdCluster"}

Needs(d) == CASE d = "netManager" -> NetManagerNeeds
              [] d = "operator" -> OperatorNeeds
              [] d = "treeManager" -> TreeNeeds
              [] d = "scheduler" -> SchedulerNeeds
              [] d = "coredns" -> CoreDNSNeeds

CreateOperator ==
  Creates(Host, <<"operator", "panelSecret", "kosmosRole", "operatorSA">>) \o Wait("operator")

InstallClusterlink ==
  Creates(Host, <<"ns", "linkRbac", "crdCluster", "crdLink", "netManager">>) \o Wait("netManager")
    \o Look("operator") \o Unless("operator", CreateOperator)

InstallClustertree ==
  Creates(Host, <<"ns", "treeRbac", "crdCluster", "hostConfig", "treeSecret", "treeManager">>)
    \o Wait("treeManager")

InstallScheduler ==
  Creates(Host, <<"ns", "schedRbac", "schedConfig", "hostConfig", "crdCDP", "crdDP", "scheduler">>)
    \o Wait("scheduler")

InstallCoreDNS ==
  Creates(Host, <<"ns", "dnsRbac", "dnsConfig", "crdCluster", "coredns">>) \o Wait("coredns")
    \o Creates(Host, <<"dnsService">>)

CreateTreeRelatedCRDs(c) == Creates(c, <<"treeCRDs">>)

(* The kubeconfig in the secret is never filled in.                        *)
JoinControl(c) == Creates(c, <<"controlSA", "emptySecret", "kosmosRole">>)

(* join: the Cluster is the one object whose creation may not find it      *)
(* there.                                                                  *)
JoinCluster(c, link, tree) ==
  Creates(c, <<"ns">>) \o Opt(link, Creates(c, <<"operatorSA">>))
    \o Opt(tree, CreateTreeRelatedCRDs(c))
    \o <<[op |-> "register", at |-> c, obj |-> <<link, tree>>, only |-> "", unless |-> ""]>>
    \o JoinControl(c)

CreateControlCluster(link, tree) ==
  Look("cluster") \o Unless("cluster", JoinCluster(Host, link, tree))
    \o Opt(~link, Only("cluster", CreateTreeRelatedCRDs(Host)))
    \o Only("cluster", <<[op |-> "enable", at |-> Host, obj |-> <<link, tree>>,
                          only |-> "", unless |-> ""]>>)

UninstallClusterlink ==
  Deletes(Host, <<"netManager">>) \o DropCRD("crdCluster") \o DropCRD("crdLink")
    \o Deletes(Host, <<"linkRbac">>) \o Look("treeManager")
    \o Unless("treeManager", Deletes(Host, <<"operator">>))

UninstallClustertree ==
  Deletes(Host, <<"treeManager">>) \o Only("treeManager", Deletes(Host, <<"treeSecret">>))
    \o DropCRD("crdCluster") \o Deletes(Host, <<"hostConfig", "treeRbac">>) \o Look("netManager")
    \o Unless("netManager", Deletes(Host, <<"operator">>))

UninstallAll == UninstallClusterlink \o UninstallClustertree \o Deletes(Host, <<"ns">>)

UninstallScheduler ==
  Deletes(Host, <<"scheduler", "schedConfig", "schedRbac">>) \o DropCRD("crdCDP")

(* The list of Clusters is used after a failed call: with the CRD gone the *)
(* command ends there.                                                     *)
UninstallCoredns ==
  Deletes(Host, <<"coredns", "dnsService", "dnsConfig">>) \o <<Step("mustDrop", Host, "crdCluster")>>
    \o Deletes(Host, <<"dnsRbac">>)

UnjoinCluster(c) ==
  <<Step("remove", c, "cluster")>> \o Only("tree", Deletes(c, <<"treeCRDs">>))
    \o Deletes(c, <<"emptySecret", "kosmosRole", "controlSA">>)
    \o Only("link", Deletes(c, <<"operatorSA">>))
    \o Opt(c # Host, Deletes(c, <<"ns">>))

Installs == {"install clusterlink", "install clustertree", "install scheduler", "install coredns",
             "install all"}
Uninstalls == {"uninstall clusterlink", "uninstall clustertree", "uninstall scheduler",
               "uninstall coredns", "uninstall all"}
(* join's options: without --enable-* the others decide, or everything is  *)
(* enabled.                                                                *)
JoinFlags == [all : BOOLEAN, link : BOOLEAN, tree : BOOLEAN, network : BOOLEAN, leafModel : BOOLEAN]
JoinComplete(f) ==
  LET plain == ~f.all /\ ~f.link /\ ~f.tree
      link == f.link \/ (plain /\ f.network)
      tree == f.tree \/ (plain /\ f.leafModel)
      all == f.all \/ (~link /\ ~tree)
  IN <<link \/ all, tree \/ all>>
JoinOf(e) == CASE e = <<TRUE, TRUE>> -> "join all" [] e = <<TRUE, FALSE>> -> "join link"
               [] e = <<FALSE, TRUE>> -> "join tree"
Joins == {JoinOf(JoinComplete(f)) : f \in JoinFlags}
Unjoins == {"unjoin host", "unjoin member"}
Target(cmd) == IF cmd \in Joins \cup {"unjoin member"} THEN "member" ELSE Host

Programs ==
  [cmd \in Installs \cup Uninstalls \cup Joins \cup Unjoins \cup {"none"} |->
   CASE cmd = "install clusterlink" -> InstallClusterlink \o CreateControlCluster(TRUE, FALSE)
     [] cmd = "install clustertree" -> InstallClustertree \o CreateControlCluster(FALSE, TRUE)
     [] cmd = "install scheduler" -> InstallScheduler
     [] cmd = "install coredns" -> InstallCoreDNS
     [] cmd = "install all" ->
          InstallClusterlink \o InstallClustertree \o CreateControlCluster(TRUE, TRUE)
     [] cmd = "uninstall clusterlink" -> UninstallClusterlink
     [] cmd = "uninstall clustertree" -> UninstallClustertree
     [] cmd = "uninstall scheduler" -> UninstallScheduler
     [] cmd = "uninstall coredns" -> UninstallCoredns
     [] cmd = "uninstall all" -> UninstallAll
     [] cmd = "join link" -> JoinCluster("member", TRUE, FALSE)
     [] cmd = "join tree" -> JoinCluster("member", FALSE, TRUE)
     [] cmd = "join all" -> JoinCluster("member", TRUE, TRUE)
     [] cmd = "unjoin host" -> UnjoinCluster(Host)
     [] cmd = "unjoin member" -> UnjoinCluster("member")
     [] OTHER -> <<>>]

-----------------------------------------------------------------------------
(* The API servers.                                                        *)

(* Two contents under one name, or two phases of a namespace.              *)
Secrets == {"panelSecret", "emptySecret"}
ProxySecrets == {"proxySecret", "emptyProxySecret"}
Namespace == {"ns", "nsEnding"}
SameName(o) == CASE o \in Secrets -> Secrets [] o \in ProxySecrets -> ProxySecrets
                 [] o \in Namespace -> Namespace [] OTHER -> {o}

(* Roles that are created after a ServiceAccount.                          *)
WithAccount == {"linkRbac", "treeRbac", "schedRbac", "dnsRbac"}
CanCreate(c, o) == o \in ClusterWide \ WithAccount \/ "ns" \in objects[c]

Created(objs, o) == IF SameName(o) \cap objs # {} THEN objs ELSE objs \cup {o}

Deleted(objs, o) ==
  IF o # "ns" THEN objs \ SameName(o) ELSE IF "ns" \in objs THEN (objs \ {"ns"}) \cup {"nsEnding"} ELSE objs

CanRun == {"operator"} \cup OperatorNeeds \subseteq objects[Host] /\ Secrets \cap objects[Host] # {}

Fault == callFaults > 0 /\ callFaults' = callFaults - 1

(* The operator is told of every change of a Cluster.                      *)
Told(c) == IF operator.up THEN [operator EXCEPT !.due = @ \cup {c}] ELSE operator

SetCluster(c, cr) ==
  /\ crs' = [crs EXCEPT ![c] = IF cr.deleting /\ cr.finalizers = {} THEN NoCluster ELSE cr]
  /\ operator' = Told(c)

-----------------------------------------------------------------------------
(* kosmosctl.                                                              *)

(* unjoin keeps the options of the Cluster it reads first.  What is `late' *)
(* starts while the namespace of its cluster is still being deleted.       *)
Start(cmd) ==
  /\ running = NoCommand
  /\ commands > 0
  /\ cmd \in Unjoins => crs[Target(cmd)].there
  /\ LET cr == crs[Target(cmd)]
     IN running' = [NoCommand EXCEPT !.cmd = cmd, !.late = "nsEnding" \in objects[Target(cmd)],
                  !.seen = IF cmd \in Unjoins
                             THEN {x \in {"link", "tree"} : IF x = "link" THEN cr.link ELSE cr.tree} ELSE {}]
  /\ commands' = commands - 1
  /\ UNCHANGED <<objects, crs, operator, begun, halted, callFaults>>

(* unjoin goes on without the options when it is not told whether the      *)
(* Cluster is there.                                                       *)
StartUnread(cmd) ==
  /\ running = NoCommand
  /\ commands > 0
  /\ Fault
  /\ running' = [NoCommand EXCEPT !.cmd = cmd, !.late = "nsEnding" \in objects[Target(cmd)]]
  /\ halted' = halted \cup {Target(cmd)}
  /\ commands' = commands - 1
  /\ UNCHANGED <<objects, crs, operator, begun>>

Due(s, j) == (s.only # "" => s.only \in j.seen) /\ (s.unless # "" => s.unless \notin j.seen)

(* The next call the command makes; past the program it has returned nil.  *)
Position(j) ==
  LET p == Programs[j.cmd]
      Past == Len(p) + 1
  IN CHOOSE i \in j.at..Past : /\ i = Past \/ Due(p[i], j)
                               /\ \A h \in j.at..(i - 1) : ~Due(p[h], j)

Returned(j) == j # NoCommand /\ Position(j) = Len(Programs[j.cmd]) + 1

Advance == running' = [running EXCEPT !.at = Position(running) + 1]

(* A look at an object, or its deletion, says whether it was there.        *)
Finds(o, there) ==
  running' = [running EXCEPT !.at = Position(running) + 1, !.seen = IF there THEN @ \cup {o} ELSE @ \ {o}]

Aborts ==
  /\ running' = NoCommand
  /\ halted' = halted \cup {Target(running.cmd)}

(* Seeded fault: an object that is there already is an error.              *)
CallCreateNew(s) ==
  /\ s.op = "create"
  /\ IF CanCreate(s.at, s.obj) /\ SameName(s.obj) \cap objects[s.at] = {}
       THEN objects' = [objects EXCEPT ![s.at] = Created(@, s.obj)] /\ Advance /\ UNCHANGED halted
       ELSE Aborts /\ UNCHANGED objects
  /\ UNCHANGED <<crs, operator>>

CallCreate(s) ==
  /\ s.op = "create"
  /\ IF CanCreate(s.at, s.obj)
       THEN /\ objects' = [objects EXCEPT ![s.at] = Created(@, s.obj)]
            /\ Advance
            /\ UNCHANGED halted
       ELSE Aborts /\ UNCHANGED objects
  /\ UNCHANGED <<crs, operator>>

(* The operator's pod goes with its Deployment.                            *)
CallDelete(s) ==
  /\ s.op = "delete"
  /\ objects' = [objects EXCEPT ![s.at] = Deleted(@, s.obj)]
  /\ Finds(s.obj, s.obj \in objects[s.at])
  /\ operator' = IF "operator" \in objects'[Host] THEN operator ELSE Down
  /\ UNCHANGED <<crs, halted>>

CallLook(s) ==
  /\ s.op = "look"
  /\ IF s.obj = "cluster"
       THEN running' = [running EXCEPT !.at = Position(running) + 1, !.was = crs[Host],
                               !.seen = IF crs[Host].there THEN @ \cup {"cluster"} ELSE @]
       ELSE Finds(s.obj, s.obj \in objects[s.at])
  /\ UNCHANGED <<objects, crs, operator, halted>>

(* WaitPodReady: without what the pods need they are not ready in time.    *)
CallWait(s) ==
  /\ s.op = "wait"
  /\ IF IF s.obj = "operator" THEN CanRun ELSE Needs(s.obj) \subseteq objects[Host] THEN Advance /\ UNCHANGED halted ELSE Aborts
  /\ UNCHANGED <<objects, crs, operator>>

(* A CRD with instances is kept; whether there are ClusterNodes,           *)
(* NodeConfigs or policies is not modelled.                                *)
CallDrop(s) ==
  /\ s.op \in {"drop", "mustDrop"}
  /\ IF s.op = "mustDrop" /\ s.obj \notin objects[Host]
       THEN Aborts /\ UNCHANGED objects
       ELSE /\ \E inUse \in IF s.obj = "crdCluster" THEN {\E c \in Members : crs[c].there} ELSE BOOLEAN :
                 objects' = IF inUse THEN objects ELSE [objects EXCEPT ![Host] = @ \ {s.obj}]
            /\ Advance
            /\ UNCHANGED halted
  /\ UNCHANGED <<crs, operator>>

CallRegister(s) ==
  /\ s.op = "register"
  /\ IF crs[s.at].there \/ "crdCluster" \notin objects[Host]
       THEN Aborts /\ UNCHANGED <<crs, operator>>
       ELSE /\ SetCluster(s.at, [NoCluster EXCEPT !.there = TRUE, !.link = s.obj[1], !.tree = s.obj[2]])
            /\ Advance
            /\ UNCHANGED halted
  /\ UNCHANGED objects

(* The control cluster is updated as it was read: a change in between is a *)
(* conflict.                                                               *)
CallEnable(s) ==
  /\ s.op = "enable"
  /\ IF (s.obj[1] => running.was.link) /\ (s.obj[2] => running.was.tree)
       THEN Advance /\ UNCHANGED <<crs, operator, halted>>
       ELSE IF crs[Host] # running.was
       THEN Aborts /\ UNCHANGED <<crs, operator>>
       ELSE /\ SetCluster(Host, [crs[Host] EXCEPT !.link = @ \/ s.obj[1], !.tree = @ \/ s.obj[2]])
            /\ Advance
            /\ UNCHANGED halted
  /\ UNCHANGED objects

(* Delete is repeated until the Cluster is not found.                      *)
CallRemove(s) ==
  /\ s.op = "remove"
  /\ IF crs[s.at].there
       THEN /\ ~crs[s.at].deleting
            /\ SetCluster(s.at, [crs[s.at] EXCEPT !.deleting = TRUE])
            /\ UNCHANGED running
       ELSE Advance /\ UNCHANGED <<crs, operator>>
  /\ UNCHANGED <<objects, halted>>

Call ==
  /\ running # NoCommand /\ ~Returned(running)
  /\ LET s == Programs[running.cmd][Position(running)]
     IN \/ CallCreate(s) \/ CallDelete(s) \/ CallLook(s) \/ CallWait(s)
        \/ CallDrop(s) \/ CallRegister(s) \/ CallEnable(s) \/ CallRemove(s)
  /\ UNCHANGED <<begun, commands, callFaults>>

(* uninstall leaves the operator alone, and goes on, when it is not told   *)
(* whether the other component is there; everywhere else it is an error.   *)
CallFails ==
  /\ running # NoCommand /\ ~Returned(running)
  /\ Fault
  /\ LET s == Programs[running.cmd][Position(running)]
     IN IF s.op = "look" /\ running.cmd \in Uninstalls
          THEN Finds(s.obj, TRUE) /\ UNCHANGED halted
          ELSE Aborts
  /\ UNCHANGED <<objects, crs, operator, begun, commands>>

CommandReturns ==
  /\ Returned(running)
  /\ running' = NoCommand
  /\ UNCHANGED <<objects, crs, operator, begun, halted, commands, callFaults>>

(* The namespace controller has removed what was in a namespace.           *)
NamespaceEnds(c) ==
  /\ "nsEnding" \in objects[c]
  /\ objects' = [objects EXCEPT ![c] = @ \cap (ClusterWide \ {"nsEnding"})]
  /\ operator' = IF "operator" \in objects'[Host] THEN operator ELSE Down
  /\ UNCHANGED <<crs, running, begun, halted, commands, callFaults>>

-----------------------------------------------------------------------------
(* The ClusterLink operator.                                               *)

(* What the installers put into a cluster, beside the secret.              *)
ProxyAddon == <<"proxy">>
AgentAddon == <<"agent">>
ElectorAddon == <<"elector", "electorRole">>
ManagerAddon == <<"manager", "managerRole">>

ProxyInstall(c) == Opt(UseProxy, Creates(c, <<"proxySecret">> \o ProxyAddon))
AgentInstall(c) == Opt(~UseProxy, Creates(c, <<"proxySecret">>)) \o Creates(c, AgentAddon)
ElectorInstall(c) == Creates(c, ElectorAddon)
ManagerInstall(c) == Creates(c, ManagerAddon)
GlobalInstall(c) == Creates(c, <<"ns">>)

Install(c) ==
  GlobalInstall(c) \o ProxyInstall(c) \o AgentInstall(c) \o ElectorInstall(c) \o ManagerInstall(c)

(* AgentInstaller deletes a ConfigMap of the secret's name.                *)
ManagerUninstall(c) == Deletes(c, ManagerAddon)
ElectorUninstall(c) == Deletes(c, ElectorAddon)
AgentUninstall(c) == Deletes(c, AgentAddon)
ProxyUninstall(c) == Deletes(c, ProxyAddon)

Uninstall(c) ==
  ManagerUninstall(c) \o ElectorUninstall(c) \o AgentUninstall(c) \o ProxyUninstall(c)

OperatorStarts ==
  /\ ~operator.up
  /\ CanRun /\ "crdCluster" \in objects[Host]
  /\ operator' = [Down EXCEPT !.up = TRUE, !.due = {c \in Members : crs[c].there},
                              !.config = IF "panelSecret" \in objects[Host] THEN "panel" ELSE "empty"]
  /\ UNCHANGED <<objects, crs, running, begun, halted, commands, callFaults>>

OperatorCrashes ==
  /\ operator.up
  /\ Fault
  /\ operator' = Down
  /\ UNCHANGED <<objects, crs, running, begun, halted, commands>>

(* Reconcile: what it does with the Cluster it reads.                      *)
ReconcileMode(cr) ==
  IF ~cr.there THEN "idle"
  ELSE IF cr.deleting /\ Cardinality(cr.finalizers) = 1 THEN "removeCluster"
  ELSE IF ~cr.link THEN "idle" ELSE "syncCluster"

Reconcile(c) ==
  /\ operator.up /\ operator.now.mode = "idle" /\ c \in operator.due
  /\ LET mode == ReconcileMode(crs[c])
     IN /\ operator' = [operator EXCEPT !.due = @ \ {c},
                          !.now = IF mode = "idle" THEN Resting
                                  ELSE [on |-> c, mode |-> mode, at |-> 1, was |-> crs[c]]]
        /\ begun' = IF mode = "syncCluster" /\ "operator" \notin crs[c].finalizers
                      THEN begun \cup {c} ELSE begun
  /\ UNCHANGED <<objects, crs, running, halted, commands, callFaults>>

Plans == [mode \in {"syncCluster", "removeCluster"} |->
            [c \in Members |-> IF mode = "syncCluster" THEN Install(c) ELSE Uninstall(c)]]
Plan(n) == Plans[n.mode][n.on]
Working == operator.up /\ operator.now.mode # "idle"

(* Seeded fault: the error is logged and nil returned.                     *)
RequeuedNot == [operator EXCEPT !.now = Resting]

(* An error requeues the Cluster.                                          *)
Requeued == [operator EXCEPT !.due = @ \cup {operator.now.on}, !.now = Resting]

(* The secret of the add-ons holds the operator's kubeconfig.              *)
CreateOrUpdate(objs, o) ==
  IF o = "ns" THEN Created(objs, o)
  ELSE (objs \ SameName(o)) \cup
         {IF o = "proxySecret" /\ operator.config = "empty" THEN "emptyProxySecret" ELSE o}

ApplyAddon ==
  /\ Working
  /\ LET n == operator.now
     IN /\ n.at <= Len(Plan(n))
        /\ LET s == Plan(n)[n.at]
           IN IF s.op = "create" /\ ~CanCreate(s.at, s.obj)
                THEN operator' = Requeued /\ UNCHANGED objects
                ELSE /\ objects' = [objects EXCEPT ![s.at] =
                                      IF s.op = "create" THEN CreateOrUpdate(@, s.obj) ELSE Deleted(@, s.obj)]
                     /\ operator' = [operator EXCEPT !.now.at = @ + 1]
  /\ UNCHANGED <<crs, running, begun, halted, commands, callFaults>>

(* Seeded fault: an object that could not be written is passed over.       *)
AddonFailsUnseen ==
  /\ Working
  /\ operator.now.at <= Len(Plan(operator.now))
  /\ Fault
  /\ operator' = [operator EXCEPT !.now.at = @ + 1]
  /\ UNCHANGED <<objects, crs, running, begun, halted, commands>>

AddonFails ==
  /\ Working
  /\ operator.now.at <= Len(Plan(operator.now))
  /\ Fault
  /\ operator' = Requeued
  /\ UNCHANGED <<objects, crs, running, begun, halted, commands>>

(* ensureFinalizer: refused on a Cluster that changed since it was read.   *)
EnsureFinalizer ==
  /\ Working
  /\ LET n == operator.now
     IN /\ n.mode = "syncCluster" /\ n.at > Len(Plan(n))
        /\ IF "operator" \in n.was.finalizers
             THEN operator' = [operator EXCEPT !.now = Resting] /\ UNCHANGED <<crs, begun>>
             ELSE IF crs[n.on] # n.was \/ n.was.deleting
             THEN operator' = Requeued /\ UNCHANGED <<crs, begun>>
             ELSE /\ crs' = [crs EXCEPT ![n.on].finalizers = @ \cup {"operator"}]
                  /\ operator' = [operator EXCEPT !.now = Resting, !.due = @ \cup {n.on}]
                  /\ begun' = begun \ {n.on}
  /\ UNCHANGED <<objects, running, halted, commands, callFaults>>

ReleaseCluster ==
  /\ Working
  /\ LET n == operator.now
     IN /\ n.mode = "removeCluster" /\ n.at > Len(Plan(n))
        /\ begun' = begun \ {n.on}
        /\ IF "operator" \notin n.was.finalizers
             THEN operator' = [operator EXCEPT !.now = Resting] /\ UNCHANGED crs
             ELSE IF crs[n.on] # n.was
             THEN operator' = Requeued /\ UNCHANGED crs
             ELSE /\ crs' = [crs EXCEPT ![n.on] = NoCluster]
                  /\ operator' = [operator EXCEPT !.now = Resting, !.due = @ \cup {n.on}]
  /\ UNCHANGED <<objects, running, halted, commands, callFaults>>

-----------------------------------------------------------------------------
(* The finalizer of the cluster manager of ClusterTree (ClusterRegistry).  *)

TreeHolds(c) ==
  /\ crs[c].there /\ crs[c].tree /\ ~crs[c].deleting /\ c # Host
  /\ "tree" \notin crs[c].finalizers
  /\ "treeManager" \in objects[Host]
  /\ SetCluster(c, [crs[c] EXCEPT !.finalizers = @ \cup {"tree"}])
  /\ UNCHANGED <<objects, running, begun, halted, commands, callFaults>>

TreeReleases(c) ==
  /\ crs[c].deleting /\ "tree" \in crs[c].finalizers
  /\ "treeManager" \in objects[Host]
  /\ SetCluster(c, [crs[c] EXCEPT !.finalizers = @ \ {"tree"}])
  /\ UNCHANGED <<objects, running, begun, halted, commands, callFaults>>

-----------------------------------------------------------------------------
(* Nothing is installed, or everything is, with the member joined or not.  *)

Nothing == [c \in Members |-> {}]
Everything == [c \in Members |->
  IF c = Host
    THEN NetManagerNeeds \cup OperatorNeeds \cup TreeNeeds \cup SchedulerNeeds \cup CoreDNSNeeds
           \cup {"netManager", "operator", "treeManager", "scheduler", "coredns", "dnsService",
                 "panelSecret", "treeCRDs", "controlSA"}
    ELSE {"ns", "operatorSA", "treeCRDs", "controlSA", "emptySecret", "kosmosRole"}]
Addons(c) == {Install(c)[i].obj : i \in 1..Len(Install(c))}

DeployInit ==
  /\ \/ objects = Nothing /\ crs = [c \in Members |-> NoCluster] /\ operator = Down
     \/ /\ \E joined \in {Members, {Host}} :
             /\ objects = [c \in Members |-> IF c \in joined THEN Everything[c] \cup Addons(c) ELSE {}]
             /\ crs = [c \in Members |->
                  IF c \notin joined THEN NoCluster
                  ELSE [there |-> TRUE, link |-> TRUE, tree |-> TRUE, deleting |-> FALSE,
                        finalizers |-> IF c = Host THEN {"operator"} ELSE {"operator", "tree"}]]
        /\ operator = [Down EXCEPT !.up = TRUE, !.config = "panel"]
  /\ running = NoCommand
  /\ begun = {} /\ halted = {}
  /\ commands = CommandBudget /\ callFaults \in 0..CallFaults

OperatorSteps ==
  \/ OperatorStarts \/ OperatorCrashes \/ ApplyAddon \/ AddonFails \/ EnsureFinalizer \/ ReleaseCluster
  \/ \E c \in Members : Reconcile(c) \/ TreeHolds(c) \/ TreeReleases(c)

DeployNext ==
  \/ \E cmd \in Installs \cup Uninstalls \cup Joins \cup Unjoins : Start(cmd)
  \/ \E cmd \in Unjoins : StartUnread(cmd)
  \/ Call \/ CallFails \/ CommandReturns
  \/ \E c \in Members : NamespaceEnds(c)
  \/ OperatorSteps

(* The commands and the controllers, that of namespaces too, take their    *)
(* next step; nobody has to start a command.                               *)
DeployFairness ==
  /\ WF_deployVars(Call) /\ WF_deployVars(CommandReturns)
  /\ WF_deployVars(OperatorStarts) /\ WF_deployVars(ApplyAddon)
  /\ WF_deployVars(EnsureFinalizer) /\ WF_deployVars(ReleaseCluster)
  /\ \A c \in Members :
       /\ WF_deployVars(Reconcile(c)) /\ WF_deployVars(NamespaceEnds(c))
       /\ WF_deployVars(TreeHolds(c)) /\ WF_deployVars(TreeReleases(c))

DeploySpec == DeployInit /\ [][DeployNext]_deployVars /\ DeployFairness

-----------------------------------------------------------------------------
(* A command that no call fails stops for one of these reasons.            *)
Refused ==
  LET s == Programs[running.cmd][Position(running)]
  IN \/ s.op = "register" /\ (crs[s.at].there \/ "crdCluster" \notin objects[Host])
     \/ s.op = "mustDrop" /\ "crdCluster" \notin objects[Host]
     \/ s.op = "enable" /\ crs[Host] # running.was
     \/ s.op \in {"create", "wait"} /\ running.late

(* What earlier commands left behind when they were interrupted, or took   *)
(* away, does not stop a later one: it goes through to the end unless a    *)
(* call fails, or it is refused for one of the reasons named: the Cluster  *)
(* or its CRD, a conflict, or a namespace that an earlier command deleted  *)
(* and that was not gone when this one started (install.go, uninstall.go,  *)
(* join.go, unjoin.go).                                                    *)
CommandsGoThrough ==
  [][(running # NoCommand /\ running' = NoCommand /\ callFaults' = callFaults)
       => (Returned(running) \/ Refused)]_deployVars

(* What stays in a cluster when the namespace that is being deleted goes.  *)
Lasting(c) == IF "nsEnding" \in objects[c] THEN objects[c] \cap (ClusterWide \ {"nsEnding"}) ELSE objects[c]

(* An unjoin that returns nil has left nothing in the member but a         *)
(* namespace that is going, not even a role of the add-ons, although the   *)
(* operator, its faults and the finalizer of ClusterTree interleave        *)
(* (unjoin.go, operator_controller.go), once the operator had its finalizer*)
(* on the Cluster; the CRDs of a command that failed before, or of a       *)
(* Cluster whose options could not be read, may stay.                      *)
UnjoinLeavesNothing ==
  (Returned(running) /\ running.cmd = "unjoin member" /\ "member" \notin begun) =>
    Lasting("member") \subseteq IF "member" \in halted THEN {"treeCRDs"} ELSE {}

(* Who holds the Cluster that an unjoin waits for cannot run.              *)
HeldForGood ==
  /\ running.cmd \in Unjoins /\ crs[Target(running.cmd)].deleting
  /\ LET held == crs[Target(running.cmd)].finalizers
     IN \/ "operator" \in held /\ ~operator.up /\ ~CanRun
        \/ "tree" \in held /\ "treeManager" \notin objects[Host]

(* Once the administrator starts no more commands the last one ends, with  *)
(* unjoin's loop too, unless the controller whose finalizer it waits for   *)
(* has been taken away (unjoin.go:149); and while an operator runs, every  *)
(* Cluster with ClusterLink enabled ends with all add-ons in its cluster,  *)
(* in a namespace that stays, after any faults, crashes and re-installs,   *)
(* with a kubeconfig for them if the operator has one                      *)
(* (operator_controller.go, install.go).                                   *)
DeploySettles ==
  <>[](/\ running = NoCommand \/ HeldForGood
       /\ \A c \in Members :
            crs[c].there /\ ~crs[c].deleting /\ crs[c].link /\ operator.up
              => /\ Addons(c) \ {"proxySecret"} \subseteq objects[c]
                 /\ operator.config = "panel" => "proxySecret" \in objects[c])
=============================================================================
