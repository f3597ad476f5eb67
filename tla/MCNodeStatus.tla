----------------------------- MODULE MCNodeStatus ----------------------------
(***************************************************************************)
(* Instances of NodeStatus for TLC.                                        *)
(***************************************************************************)
EXTENDS NodeStatus

CONSTANTS m1, w1, v1, v2

State(m, w, pods, taints) ==
  [nodes |-> [l \in {m1, w1} |-> IF l = m1 THEN m ELSE w],
   pods |-> [l \in {m1, w1} |-> IF l = w1 THEN pods ELSE 0], taints |-> taints]

(* A pod comes, a worker is drained and tainted, or goes, the master is    *)
(* lost.                                                                   *)
States ==
  {State("ready", "ready", 0, {}), State("ready", "ready", 1, {}),
   State("ready", "cordoned", 1, {w1}), State("notready", "ready", 0, {}),
   [nodes |-> [l \in {m1} |-> "ready"], pods |-> [l \in {m1, w1} |-> 0], taints |-> {}]}

Start == State("ready", "ready", 0, {})

One == [v \in {v1} |-> {m1, w1}]
Two == [v \in {v1, v2} |-> IF v = v1 THEN {m1} ELSE {w1}]

Models ==
  {[mode |-> "all", notready |-> o, list |-> <<v1>>, sel |-> One] : o \in BOOLEAN}
  \union {[mode |-> "party", notready |-> TRUE, list |-> <<v2>>, sel |-> Two],
          [mode |-> "node", notready |-> TRUE, list |-> <<v1, v2>>, sel |-> Two]}

Plan(n, l, g, f, r) == [net |-> n, leaf |-> l, gone |-> g, fail |-> f, restart |-> r]
Plans ==
  {Plan(3, 0, 0, 0, 0), Plan(1, 1, 0, 0, 0), Plan(1, 0, 0, 1, 0), Plan(0, 0, 1, 1, 1), Plan(0, 2, 0, 0, 0), Plan(1, 0, 0, 0, 1)}
=============================================================================
