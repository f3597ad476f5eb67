----------------------------- MODULE Placement -----------------------------
(***************************************************************************)
(* What pod synchronisation promises about WHERE pods run, with no caches, *)
(* queues or reconcilers: every incarnation of a root pod's name is bound  *)
(* to one leaf cluster, and a leaf cluster has one slot for the name, that *)
(* a copy of an incarnation or a pod of the cluster's own users occupies.  *)
(* PodSync implements this specification.                                  *)
(***************************************************************************)
EXTENDS Integers, Sequences

CONSTANT Leafs   \* leaf clusters

VARIABLES
  bound,   \* bound[u]: the cluster the u-th incarnation of the pod was bound to
  slot     \* slot[c]: what has the name in cluster c

vars == <<bound, slot>>

(* A slot holds the number of an incarnation, a pod of the cluster's own   *)
(* users, or nothing.                                                      *)
Own == 0
Empty == -1

Init ==
  /\ bound = <<>>
  /\ slot = [c \in Leafs |-> Empty]

(* The scheduler binds the next incarnation, for good. *)
Bind(c) ==
  /\ bound' = Append(bound, c)
  /\ UNCHANGED slot

(* A copy of incarnation u is started in its own cluster, in a free slot,  *)
(* and never once a copy of a later incarnation is there to be seen.       *)
Place(u) ==
  /\ slot[bound[u]] = Empty
  /\ \A c \in Leafs : slot[c] <= u
  /\ slot' = [slot EXCEPT ![bound[u]] = u]
  /\ UNCHANGED bound

Occupy(c) ==
  /\ slot[c] = Empty
  /\ slot' = [slot EXCEPT ![c] = Own]
  /\ UNCHANGED bound

(* What is in a slot leaves it before anything else takes it. *)
Free(c) ==
  /\ slot[c] # Empty
  /\ slot' = [slot EXCEPT ![c] = Empty]
  /\ UNCHANGED bound

Next ==
  \/ \E c \in Leafs : Bind(c) \/ Occupy(c) \/ Free(c)
  \/ \E u \in DOMAIN bound : Place(u)

Spec == Init /\ [][Next]_vars
=============================================================================
