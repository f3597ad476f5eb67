--------------------------- MODULE MCHostDaemonSet ---------------------------
(***************************************************************************)
(* Instances of HostDaemonSet for TLC.                                     *)
(***************************************************************************)
EXTENDS HostDaemonSet

(* One pod at a time may be out of service, or be doubled. *)
Limits == {[unavailable |-> 1, surge |-> 0], [unavailable |-> 0, surge |-> 1]}

Plan(t, n, ev, b, f, l, ex, r) ==
  [template |-> t, node |-> n, evict |-> ev, broken |-> b, fail |-> f, lost |-> l,
   expire |-> ex, restart |-> r]
Plans ==
  {Plan(1, 0, 0, 0, 1, 0, 0, 0), Plan(1, 0, 0, 0, 0, 0, 0, 1), Plan(0, 2, 0, 0, 0, 0, 0, 0),
   Plan(0, 0, 0, 1, 1, 0, 0, 0), Plan(0, 0, 1, 0, 0, 1, 0, 0), Plan(0, 0, 1, 0, 0, 0, 1, 0)}

(* The pods of the set are taken from their nodes one at a time; the        *)
(* template changes again before the first update is over.                 *)
NoSurge == {[unavailable |-> 1, surge |-> 0]}
TwoChanges == {Plan(2, 0, 0, 0, 0, 0, 0, 0)}
NoPlans == {}

NewPlans ==
  {Plan(0, 0, 0, 0, 1, 0, 0, 0), Plan(0, 0, 0, 0, 0, 0, 0, 1), Plan(0, 1, 0, 0, 0, 0, 0, 0)}
=============================================================================
