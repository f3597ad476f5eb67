--------------------------- MODULE CreateVolumes ---------------------------
(***************************************************************************)
(* The volume step of CreatePodInLeafCluster (root_pod_controller.go,      *)
(* createVolumes): one goroutine per kind of dependent object (configmaps, *)
(* persistent volume claims, secrets) copies its objects into the leaf     *)
(* cluster and reports on a shared buffered channel, and the caller takes  *)
(* as many messages off the channel as there are goroutines.               *)
(*                                                                         *)
(* A goroutine that fails sends TWO messages, the error and then the empty *)
(* string: the code falls out of the "if err" block onto `ch <- ""`.  So   *)
(* 2 * |Kinds| messages may be sent while |Kinds| are received.            *)
(***************************************************************************)
EXTENDS Naturals, Sequences, FiniteSets

CONSTANTS Kinds,      \* the goroutines: configmap, pvc, secret
          Cap,        \* capacity of the channel: make(chan string, 3)
          MaxTries    \* attempts of wait.PollImmediate before its timeout

ASSUME KindsAssumption == IsFiniteSet(Kinds) /\ Kinds # {}
ASSUME CapAssumption == Cap = Cardinality(Kinds)
ASSUME MaxTriesAssumption == MaxTries \in Nat \ {0}

VARIABLES pc,       \* pc[k]: where goroutine k is
          tries,    \* tries[k]: attempts made by its poll loop
          copied,   \* the kinds for which createStorageInLeafCluster returned nil
          ch,       \* the channel, a FIFO of [kind, text] messages
          taken,    \* the messages received by createVolumes, oldest first
          result    \* "wait" until createVolumes returns "nil" or "error"

vars == <<pc, tries, copied, ch, taken, result>>

(* Go sends bare strings; `kind` only records the sender. *)
Message == [kind : Kinds, text : {"failed", "empty"}]

TypeOK ==
  /\ pc \in [Kinds -> {"poll", "sendErr", "sendEmpty", "done"}]
  /\ tries \in [Kinds -> 0..MaxTries]
  /\ copied \subseteq Kinds
  /\ ch \in Seq(Message) /\ Len(ch) <= Cap
  /\ taken \in Seq(Message)
  /\ result \in {"wait", "nil", "error"}

Init ==
  /\ pc = [k \in Kinds |-> "poll"]
  /\ tries = [k \in Kinds |-> 0]
  /\ copied = {}
  /\ ch = <<>>
  /\ taken = <<>>
  /\ result = "wait"

(* createStorageInLeafCluster returned nil: the poll function returns true. *)
PollSucceeds(k) ==
  /\ pc[k] = "poll"
  /\ tries[k] < MaxTries
  /\ copied' = copied \union {k}
  /\ tries' = [tries EXCEPT ![k] = @ + 1]
  /\ pc' = [pc EXCEPT ![k] = "sendEmpty"]
  /\ UNCHANGED <<ch, taken, result>>

(* It returned an error: the poll function returns (false, nil) and the    *)
(* loop tries again after 500ms, until its timeout.                        *)
PollFails(k) ==
  /\ pc[k] = "poll"
  /\ tries[k] < MaxTries
  /\ tries' = [tries EXCEPT ![k] = @ + 1]
  /\ UNCHANGED <<pc, copied, ch, taken, result>>

(* Seeded fault: the error of the poll loop is logged and not sent. *)
PollGivesUpSilently(k) ==
  /\ pc[k] = "poll"
  /\ tries[k] > 0
  /\ pc' = [pc EXCEPT ![k] = "sendEmpty"]
  /\ UNCHANGED <<tries, copied, ch, taken, result>>

(* The loop gives up: its timeout expired, or (pvc) the filter on one-way  *)
(* claims returned an error, which the poll function passes on.            *)
PollGivesUp(k) ==
  /\ pc[k] = "poll"
  /\ tries[k] > 0
  /\ pc' = [pc EXCEPT ![k] = "sendErr"]
  /\ UNCHANGED <<tries, copied, ch, taken, result>>

(* Seeded fault: the channel has one slot less than there are goroutines. *)
SendSmallBuffer(k, text) ==
  /\ Len(ch) < Cap - 1
  /\ ch' = Append(ch, [kind |-> k, text |-> text])

(* ch <- text blocks while the buffer is full. *)
Send(k, text) ==
  /\ Len(ch) < Cap
  /\ ch' = Append(ch, [kind |-> k, text |-> text])

SendErr(k) ==
  /\ pc[k] = "sendErr"
  /\ Send(k, "failed")
  /\ pc' = [pc EXCEPT ![k] = "sendEmpty"]
  /\ UNCHANGED <<tries, copied, taken, result>>

SendEmpty(k) ==
  /\ pc[k] = "sendEmpty"
  /\ Send(k, "empty")
  /\ pc' = [pc EXCEPT ![k] = "done"]
  /\ UNCHANGED <<tries, copied, taken, result>>

(* t1 := <-ch; t2 := <-ch; t3 := <-ch *)
Receive ==
  /\ result = "wait"
  /\ Len(taken) < Cardinality(Kinds)
  /\ ch # <<>>
  /\ taken' = Append(taken, Head(ch))
  /\ ch' = Tail(ch)
  /\ UNCHANGED <<pc, tries, copied, result>>

Return ==
  /\ result = "wait"
  /\ Len(taken) = Cardinality(Kinds)
  /\ result' = IF \E i \in DOMAIN taken : taken[i].text # "empty" THEN "error" ELSE "nil"
  /\ UNCHANGED <<pc, tries, copied, ch, taken>>

Worker(k) ==
  PollSucceeds(k) \/ PollFails(k) \/ PollGivesUp(k) \/ SendErr(k) \/ SendEmpty(k)

Next == Receive \/ Return \/ \E k \in Kinds : Worker(k)

(* The goroutines and the caller are scheduled by the Go runtime; the poll *)
(* loop has a timeout, so it does not fail for ever.                       *)
Fairness == /\ WF_vars(Receive \/ Return)
            /\ \A k \in Kinds : WF_vars(Worker(k))

Spec == Init /\ [][Next]_vars /\ Fairness

-----------------------------------------------------------------------------
(* createVolumes returns nil only when every kind of dependent object was  *)
(* copied into the leaf cluster, although a failed goroutine also sends an *)
(* empty message and only |Kinds| of the messages are ever received: the   *)
(* pod is never created in the leaf before what this step is to copy.      *)
NilMeansAllCopied == result = "nil" => copied = Kinds

(* Every goroutine terminates: the buffer takes the messages nobody will   *)
(* receive any more, so no goroutine stays blocked on its second send.     *)
NoGoroutineLeak == <>[](\A k \in Kinds : pc[k] = "done")
=============================================================================
