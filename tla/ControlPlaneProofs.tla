------------------------- MODULE ControlPlaneProofs -------------------------
(***************************************************************************)
(* Proofs about what the control plane makes in leaf and member clusters.  *)
(* The creation of a pod: createVolumes returns nil only after all the     *)
(* volumes were copied, for any number of goroutines (CreateVolumes), and  *)
(* whatever the copy of a pod mounts was copied before it (LeafPod).  The  *)
(* installation: an unjoin that returns has left nothing behind (Deploy).  *)
(* Multi-cluster services: a finalizer goes only after what it guards      *)
(* (MultiClusterService).                                                  *)
(***************************************************************************)
EXTENDS CreateVolumes, LeafPod, Deploy, MultiClusterService, FiniteSetTheorems,
        SequenceTheorems, WellFoundedInduction, TLAPS

(* The messages sent so far, oldest first: received ones, then buffered ones. *)
Sent == taken \o ch

(* A goroutine about to send the empty message, or that has sent it, has   *)
(* copied its objects or has reported an error before.                     *)
ErrBeforeEmpty ==
  /\ \A k \in Kinds : pc[k] = "sendEmpty" =>
        k \in copied \/ \E i \in DOMAIN Sent : Sent[i] = [kind |-> k, text |-> "failed"]
  /\ \A j \in DOMAIN Sent : Sent[j].text = "empty" =>
        \/ Sent[j].kind \in copied
        \/ \E i \in 1..(j-1) : Sent[i] = [kind |-> Sent[j].kind, text |-> "failed"]

(* Each goroutine sends at most one empty message, as its last one. *)
OneEmptyEach ==
  /\ \A j \in DOMAIN Sent : Sent[j].text = "empty" => pc[Sent[j].kind] = "done"
  /\ \A i, j \in DOMAIN Sent :
        Sent[i].text = "empty" /\ Sent[j].text = "empty" /\ Sent[i].kind = Sent[j].kind => i = j

NilResult ==
  result = "nil" => /\ Len(taken) = Cardinality(Kinds)
                    /\ \A i \in DOMAIN taken : taken[i].text = "empty"

IInv == TypeOK /\ ErrBeforeEmpty /\ OneEmptyEach /\ NilResult

(* The capacity of the channel, the number of goroutines, is a natural. *)
LEMMA CapIsNat == Cap \in Nat
BY CapAssumption, KindsAssumption, FS_CardinalityType

(* The variables of createVolumes keep their types; in particular the      *)
(* channel never holds more than its capacity.                             *)
LEMMA TypingStep == TypeOK /\ [Next]_vars => TypeOK'
<1> SUFFICES ASSUME TypeOK, [Next]_vars PROVE TypeOK'
  OBVIOUS
<1> USE DEF TypeOK
<1>1. CASE Receive
  <2>1. Head(ch) \in Message /\ Tail(ch) \in Seq(Message) /\ Len(Tail(ch)) = Len(ch) - 1
    BY <1>1 DEF Receive
  <2>2. Append(taken, Head(ch)) \in Seq(Message)
    BY <2>1
  <2>3. Len(ch') <= Cap
    BY <1>1, <2>1, CapIsNat DEF Receive
  <2> QED BY <1>1, <2>1, <2>2, <2>3 DEF Receive
<1>2. CASE Return
  BY <1>2 DEF Return
<1>3. ASSUME NEW k \in Kinds, Worker(k) PROVE TypeOK'
  <2>1. CASE PollSucceeds(k) \/ PollFails(k) \/ PollGivesUp(k)
    <3>1. tries' \in [Kinds -> 0..MaxTries]
      BY <2>1, MaxTriesAssumption DEF PollSucceeds, PollFails, PollGivesUp
    <3>2. pc' \in [Kinds -> {"poll", "sendErr", "sendEmpty", "done"}]
      BY <2>1 DEF PollSucceeds, PollFails, PollGivesUp
    <3>3. copied' \subseteq Kinds
      BY <2>1 DEF PollSucceeds, PollFails, PollGivesUp
    <3> QED BY <2>1, <3>1, <3>2, <3>3 DEF PollSucceeds, PollFails, PollGivesUp
  <2>2. ASSUME NEW t \in {"failed", "empty"}, Send(k, t)
        PROVE  ch' \in Seq(Message) /\ Len(ch') <= Cap
    <3>1. [kind |-> k, text |-> t] \in Message
      BY DEF Message
    <3> QED BY <2>2, <3>1, CapIsNat DEF Send
  <2>3. CASE SendErr(k)
    BY <2>2, <2>3 DEF SendErr
  <2>4. CASE SendEmpty(k)
    BY <2>2, <2>4 DEF SendEmpty
  <2> QED BY <1>3, <2>1, <2>3, <2>4 DEF Worker
<1>4. CASE UNCHANGED vars
  BY <1>4 DEF vars
<1> QED BY <1>1, <1>2, <1>3, <1>4 DEF Next

(* Receiving moves the oldest buffered message over: nothing is reordered. *)
LEMMA ReceiveKeepsSent == TypeOK /\ Receive => Sent' = Sent
BY DEF TypeOK, Receive, Sent

(* A send appends one message to everything sent so far. *)
LEMMA SendAppends ==
  ASSUME TypeOK, NEW k \in Kinds, NEW e \in {"failed", "empty"}, Send(k, e), taken' = taken
  PROVE  Sent' = Append(Sent, [kind |-> k, text |-> e])
BY DEF TypeOK, Message, Send, Sent

LEMMA SentType ==
  TypeOK => Sent \in Seq(Message) /\ \A j \in DOMAIN Sent : Sent[j].kind \in Kinds
<1> SUFFICES ASSUME TypeOK PROVE Sent \in Seq(Message) /\ \A j \in DOMAIN Sent : Sent[j].kind \in Kinds
  OBVIOUS
<1>1. Sent \in Seq(Message)
  BY DEF TypeOK, Sent
<1>2. \A j \in DOMAIN Sent : Sent[j] \in Message
  BY <1>1
<1> QED BY <1>1, <1>2 DEF Message

LEMMA InitIInv == Init => IInv
<1> SUFFICES ASSUME Init PROVE IInv
  OBVIOUS
<1>1. Sent = <<>> /\ taken = <<>>
  BY DEF Init, Sent
<1>2. TypeOK
  BY CapIsNat, MaxTriesAssumption DEF Init, TypeOK, Message
<1> QED BY <1>1, <1>2 DEF Init, IInv, ErrBeforeEmpty, OneEmptyEach, NilResult

LEMMA IInvStep == IInv /\ [Next]_vars => IInv'
<1> SUFFICES ASSUME IInv, [Next]_vars PROVE IInv'
  OBVIOUS
<1>0. /\ TypeOK /\ TypeOK' /\ Sent \in Seq(Message)
      /\ \A j \in DOMAIN Sent : Sent[j].kind \in Kinds
  BY TypingStep, SentType DEF IInv
<1>1. CASE Receive
  <2>1. Sent' = Sent /\ pc' = pc /\ copied' = copied /\ result = "wait" /\ result' = "wait"
    BY <1>0, <1>1, ReceiveKeepsSent DEF Receive
  <2> QED BY <1>0, <2>1 DEF IInv, ErrBeforeEmpty, OneEmptyEach, NilResult
<1>2. CASE Return
  <2>1. Sent' = Sent /\ pc' = pc /\ copied' = copied /\ taken' = taken
    BY <1>2 DEF Return, Sent
  <2>2. NilResult'
    BY <1>0, <1>2, <2>1 DEF Return, NilResult, TypeOK
  <2> QED BY <1>0, <2>1, <2>2 DEF IInv, ErrBeforeEmpty, OneEmptyEach
<1>3. ASSUME NEW k \in Kinds, Worker(k) PROVE IInv'
  <2>1. CASE PollSucceeds(k) \/ PollFails(k) \/ PollGivesUp(k)
    <3>1. Sent' = Sent /\ taken' = taken /\ result' = result /\ pc[k] = "poll"
      BY <2>1 DEF PollSucceeds, PollFails, PollGivesUp, Sent
    <3>2. ErrBeforeEmpty'
      <4>1. \A kk \in Kinds : kk \in copied => kk \in copied'
        BY <1>0, <2>1 DEF PollSucceeds, PollFails, PollGivesUp, TypeOK
      <4>2. \A kk \in Kinds : pc'[kk] = "sendEmpty" => pc[kk] = "sendEmpty" \/ kk \in copied'
        BY <1>0, <2>1 DEF PollSucceeds, PollFails, PollGivesUp, TypeOK
      <4> QED BY <1>0, <3>1, <4>1, <4>2 DEF IInv, ErrBeforeEmpty
    <3>3. OneEmptyEach'
      <4>1. \A kk \in Kinds : pc[kk] = "done" => pc'[kk] = "done"
        BY <1>0, <2>1 DEF PollSucceeds, PollFails, PollGivesUp, TypeOK
      <4> QED BY <1>0, <3>1, <4>1 DEF IInv, OneEmptyEach
    <3> QED BY <1>0, <3>1, <3>2, <3>3 DEF IInv, NilResult
  <2>2. CASE SendErr(k)
    <3> DEFINE m == [kind |-> k, text |-> "failed"]
    <3>1. /\ Sent' = Append(Sent, m) /\ m \in Message
          /\ taken' = taken /\ result' = result /\ copied' = copied
          /\ pc' = [pc EXCEPT ![k] = "sendEmpty"] /\ pc[k] = "sendErr"
      BY <1>0, <2>2, SendAppends DEF SendErr, Message
    <3>2. /\ Len(Sent') = Len(Sent) + 1 /\ Sent'[Len(Sent) + 1] = m
          /\ \A i \in DOMAIN Sent : Sent'[i] = Sent[i]
          /\ DOMAIN Sent' = 1..(Len(Sent) + 1) /\ DOMAIN Sent = 1..Len(Sent) /\ Len(Sent) \in Nat
      BY <1>0, <3>1
    <3> HIDE DEF m
    <3>3. ErrBeforeEmpty'
      <4>1. ASSUME NEW kk \in Kinds, pc'[kk] = "sendEmpty"
            PROVE  kk \in copied' \/ \E i \in DOMAIN Sent' : Sent'[i] = [kind |-> kk, text |-> "failed"]
        <5>1. CASE kk = k
          BY <3>2, <5>1 DEF m
        <5>2. CASE kk # k
          <6>1. pc[kk] = "sendEmpty"
            BY <1>0, <3>1, <4>1, <5>2 DEF TypeOK
          <6> QED BY <6>1, <3>1, <3>2 DEF IInv, ErrBeforeEmpty
        <5> QED BY <5>1, <5>2
      <4>2. ASSUME NEW j \in DOMAIN Sent', Sent'[j].text = "empty"
            PROVE  \/ Sent'[j].kind \in copied'
                   \/ \E i \in 1..(j-1) : Sent'[i] = [kind |-> Sent'[j].kind, text |-> "failed"]
        <5>1. j \in DOMAIN Sent /\ Sent'[j] = Sent[j]
          BY <3>2, <4>2 DEF m
        <5>2. \A i \in 1..(j-1) : Sent'[i] = Sent[i]
          BY <3>2, <5>1
        <5> QED BY <5>1, <5>2, <4>2, <3>1 DEF IInv, ErrBeforeEmpty
      <4> QED BY <4>1, <4>2 DEF ErrBeforeEmpty
    <3>4. OneEmptyEach'
      <4>1. \A j \in DOMAIN Sent' : Sent'[j].text = "empty" =>
               j \in DOMAIN Sent /\ Sent'[j] = Sent[j] /\ Sent[j].kind \in Kinds
        BY <1>0, <3>2 DEF m
      <4>2. \A kk \in Kinds : pc[kk] = "done" => pc'[kk] = "done"
        BY <1>0, <3>1 DEF TypeOK
      <4> QED BY <4>1, <4>2 DEF IInv, OneEmptyEach
    <3> QED BY <1>0, <3>1, <3>3, <3>4 DEF IInv, NilResult
  <2>3. CASE SendEmpty(k)
    <3> DEFINE m == [kind |-> k, text |-> "empty"]
    <3>1. /\ Sent' = Append(Sent, m) /\ m \in Message
          /\ taken' = taken /\ result' = result /\ copied' = copied
          /\ pc' = [pc EXCEPT ![k] = "done"] /\ pc[k] = "sendEmpty"
      BY <1>0, <2>3, SendAppends DEF SendEmpty, Message
    <3>2. /\ Len(Sent') = Len(Sent) + 1 /\ Sent'[Len(Sent) + 1] = m
          /\ \A i \in DOMAIN Sent : Sent'[i] = Sent[i]
          /\ DOMAIN Sent' = 1..(Len(Sent) + 1) /\ DOMAIN Sent = 1..Len(Sent) /\ Len(Sent) \in Nat
      BY <1>0, <3>1
    <3>m. m.kind = k /\ m.text = "empty"
      OBVIOUS
    <3> HIDE DEF m
    <3>3. ErrBeforeEmpty'
      <4>1. ASSUME NEW kk \in Kinds, pc'[kk] = "sendEmpty"
            PROVE  kk \in copied' \/ \E i \in DOMAIN Sent' : Sent'[i] = [kind |-> kk, text |-> "failed"]
        <5>1. pc[kk] = "sendEmpty"
          BY <1>0, <3>1, <4>1 DEF TypeOK
        <5> QED BY <5>1, <3>1, <3>2 DEF IInv, ErrBeforeEmpty
      <4>2. ASSUME NEW j \in DOMAIN Sent', Sent'[j].text = "empty"
            PROVE  \/ Sent'[j].kind \in copied'
                   \/ \E i \in 1..(j-1) : Sent'[i] = [kind |-> Sent'[j].kind, text |-> "failed"]
        <5>1. CASE j \in DOMAIN Sent
          <6>1. Sent'[j] = Sent[j] /\ \A i \in 1..(j-1) : Sent'[i] = Sent[i]
            BY <3>2, <5>1
          <6> QED BY <5>1, <6>1, <4>2, <3>1 DEF IInv, ErrBeforeEmpty
        <5>2. CASE j = Len(Sent) + 1
          <6>1. Sent'[j].kind = k /\ 1..(j-1) = DOMAIN Sent
            BY <3>2, <3>m, <5>2
          <6>2. k \in copied \/ \E i \in DOMAIN Sent : Sent[i] = [kind |-> k, text |-> "failed"]
            BY <3>1 DEF IInv, ErrBeforeEmpty
          <6> QED BY <6>1, <6>2, <3>1, <3>2
        <5> QED BY <5>1, <5>2, <3>2
      <4> QED BY <4>1, <4>2 DEF ErrBeforeEmpty
    <3>4. OneEmptyEach'
      <4>1. \A j \in DOMAIN Sent' :
               \/ j \in DOMAIN Sent /\ Sent'[j] = Sent[j] /\ Sent[j].kind \in Kinds
               \/ j = Len(Sent) + 1 /\ Sent'[j] = m
        BY <1>0, <3>2
      <4>2. \A kk \in Kinds : pc[kk] = "done" => pc'[kk] = "done" /\ kk # k
        BY <1>0, <3>1 DEF TypeOK
      <4>3. pc'[k] = "done"
        BY <1>0, <3>1 DEF TypeOK
      <4> QED BY <4>1, <4>2, <4>3, <3>m DEF IInv, OneEmptyEach
    <3> QED BY <1>0, <3>1, <3>3, <3>4 DEF IInv, NilResult
  <2> QED BY <1>3, <2>1, <2>2, <2>3 DEF Worker
<1>4. CASE UNCHANGED vars
  <2>1. Sent' = Sent
    BY <1>4 DEF vars, Sent
  <2> QED BY <1>0, <1>4, <2>1 DEF vars, IInv, ErrBeforeEmpty, OneEmptyEach, NilResult
<1> QED BY <1>1, <1>2, <1>3, <1>4 DEF Next

(* The pigeonhole step: |Kinds| empty messages of distinct kinds come from *)
(* all the kinds, and each was preceded, in the received part, by the error *)
(* of its goroutine unless that goroutine copied its objects.              *)
LEMMA IInvImpliesNil == IInv => NilMeansAllCopied
<1> SUFFICES ASSUME IInv, result = "nil", NEW k \in Kinds PROVE k \in copied
  BY DEF NilMeansAllCopied, IInv, TypeOK
<1> DEFINE n == Cardinality(Kinds)
           f == [i \in 1..n |-> taken[i].kind]
<1>1. TypeOK /\ Len(taken) = n /\ n \in Nat /\ \A i \in 1..n : taken[i].text = "empty" /\ taken[i] \in Message
  <2>1. n \in Nat
    BY FS_CardinalityType, KindsAssumption
  <2>2. TypeOK /\ NilResult
    BY DEF IInv
  <2>3. Len(taken) = n /\ \A i \in DOMAIN taken : taken[i].text = "empty"
    BY <2>2 DEF NilResult
  <2>4. taken \in Seq(Message)
    BY <2>2 DEF TypeOK
  <2>5. DOMAIN taken = 1..n /\ \A i \in DOMAIN taken : taken[i] \in Message
    BY <2>3, <2>4
  <2> QED BY <2>1, <2>2, <2>3, <2>5
<1>2. \A i \in 1..n : i \in DOMAIN Sent /\ Sent[i] = taken[i]
  BY <1>1 DEF Sent, TypeOK
<1>3. f \in [1..n -> Kinds] /\ \A i, j \in 1..n : f[i] = f[j] => i = j
  BY <1>1, <1>2 DEF IInv, OneEmptyEach, Message
<1>4. f \in Injection(1..n, Kinds)
  BY <1>3 DEF Injection, IsInjective
<1>5. IsFiniteSet(1..n) /\ Cardinality(1..n) = n
  BY <1>1, FS_Interval
<1>6. f \in Surjection(1..n, Kinds)
  BY <1>4, <1>5, KindsAssumption, FS_Injection, FS_CardinalityType, FS_SameCardinalityBij DEF Bijection
<1>7. PICK j \in 1..n : taken[j].kind = k
  BY <1>6 DEF Surjection
<1>8. \A i \in 1..(j-1) : i \in 1..n
  BY <1>1
<1>9. Sent[j].text = "empty" /\ Sent[j].kind = k /\ j \in DOMAIN Sent
  BY <1>1, <1>2, <1>7
<1>10. \A i \in 1..(j-1) : Sent[i].text = "empty"
  BY <1>1, <1>2, <1>8
<1>11. k \in copied \/ \E i \in 1..(j-1) : Sent[i] = [kind |-> k, text |-> "failed"]
  BY <1>9 DEF IInv, ErrBeforeEmpty
<1> QED BY <1>10, <1>11

(* createVolumes returns nil only when every goroutine copied its objects, *)
(* for any number of goroutines and any number of attempts: the extra      *)
(* empty message a failed goroutine sends cannot hide its error.           *)
THEOREM NilIsSound == Spec => []NilMeansAllCopied
BY InitIInv, IInvStep, IInvImpliesNil, PTL DEF Spec

(* The types hold in every reachable state. *)
THEOREM Typing == Spec => []TypeOK
<1>1. IInv => TypeOK
  BY DEF IInv
<1> QED BY InitIInv, IInvStep, <1>1, PTL DEF Spec

(***************************************************************************)
(*                      What the copy of a pod mounts                      *)
(***************************************************************************)

(* The names a pod of the leaf cluster can mount.                          *)
There == (inLeaf \ {"token"}) \union (IF leafTok # "none" \/ spoilt THEN {"token"} ELSE {})

Good(m, there) == m.kind = "downward" \/ m.name \in there

(* The shape of a copy, as it is built and as it is stored; the volumes    *)
(* that count as converted mount what is there.                            *)
IsCopy(p, direct, there) ==
  /\ p = [image |-> p.image, sel |-> p.sel, extra |-> p.extra, spec |-> p.spec, direct |-> p.direct,
          projected |-> p.projected, done |-> p.done, dns |-> p.dns]
  /\ p.direct = LeafVolumes(direct)
  /\ p.projected \in Seq(Seq(Sources)) /\ p.done \in 0 .. Len(p.projected)
  /\ \A i \in 1 .. p.done : \A j \in DOMAIN p.projected[i] : Good(p.projected[i][j], there)

(* What createVolumes was asked to copy is there, but for the pull secrets,*)
(* the claims of one-way storage and what is in rest.                      *)
DirectCopied(direct, rest, there) ==
  \A v \in direct \ rest : v.kind \in {"pull", "oneway"} \/ LeafName(v.name) \in there

(* The job goes through the volumes in order and has only good sources in  *)
(* hand; it gets to the projected ones after the direct ones.              *)
IsJob(j, direct, there) ==
  /\ j = [at |-> j.at, new |-> j.new, rest |-> j.rest, vol |-> j.vol, out |-> j.out]
  /\ j.at \in {"namespace", "volumes", "projected", "attach", "token", "dns", "store"}
  /\ IsCopy(j.new, direct, there)
  /\ j.vol \in Nat \ {0} /\ j.vol <= j.new.done + 1
  /\ j.out \in Seq(Sources) /\ \A k \in DOMAIN j.out : Good(j.out[k], there)
  /\ DirectCopied(direct, j.rest, there)
  /\ j.at \notin {"namespace", "volumes"} => j.rest = {}

(* What keeps Mountable: it holds of the copy that is built as well, as    *)
(* far as it got, and a token that the leaf's token controller will remove *)
(* is known as spoilt.                                                     *)
MountInv ==
  /\ pod \in RootPods
  /\ leafTok = "root" => spoilt
  /\ leafPod # NoLeafPod => IsCopy(leafPod, pod.direct, There) /\ DirectCopied(pod.direct, {}, There)
  /\ job # IdleJob => IsJob(job, pod.direct, There)

(* What is there stays there.                                              *)
LEMMA CopyGrows ==
  ASSUME NEW p, NEW direct, NEW t, NEW u, t \subseteq u, IsCopy(p, direct, t)
  PROVE  IsCopy(p, direct, u)
  BY DEF IsCopy, Good

LEMMA DirectGrows ==
  ASSUME NEW direct, NEW rest, NEW t, NEW u, t \subseteq u, DirectCopied(direct, rest, t)
  PROVE  DirectCopied(direct, rest, u)
  BY DEF DirectCopied

LEMMA JobGrows ==
  ASSUME NEW j, NEW direct, NEW t, NEW u, t \subseteq u, IsJob(j, direct, t)
  PROVE  IsJob(j, direct, u)
<1>1. IsCopy(j.new, direct, u) /\ DirectCopied(direct, j.rest, u)
  BY CopyGrows, DirectGrows DEF IsJob
<1>2. \A k \in DOMAIN j.out : Good(j.out[k], u)
  BY DEF IsJob, Good
<1> QED
  BY <1>1, <1>2 DEF IsJob

(* A job is not at rest.                                                   *)
LEMMA NotIdle == IdleJob.at = "idle"
  BY DEF IdleJob

(* No step takes anything away but a spoilt token.                         *)
LEMMA ThereGrows ==
  ASSUME MountInv, [LeafPodNext]_leafPodVars
  PROVE  There \subseteq There' /\ pod' = pod /\ (leafTok' = "root" => spoilt')
<1>1. CASE UNCHANGED <<inLeaf, leafTok, spoilt, pod>>
  BY <1>1 DEF There, MountInv
<1>2. ASSUME inLeaf \subseteq inLeaf', UNCHANGED <<leafTok, spoilt, pod>>
      PROVE  There \subseteq There' /\ pod' = pod /\ (leafTok' = "root" => spoilt')
  BY <1>2 DEF There, MountInv
<1>3. CASE EnsureNamespace \/ ConvertSource \/ \E v \in pod.direct : CopyVolume(v)
  <2>1. inLeaf \subseteq inLeaf' /\ UNCHANGED <<leafTok, spoilt, pod>>
    BY <1>3 DEF EnsureNamespace, ConvertSource, CopyVolume, CopyObject
  <2> QED
    BY <1>2, <2>1
<1>4. ASSUME NEW f \in BOOLEAN, TokenConverted(f)
      PROVE  There \subseteq There' /\ pod' = pod /\ (leafTok' = "root" => spoilt')
  <2>1. UNCHANGED <<inLeaf, pod>> /\ StoreToken(f)
    BY <1>4 DEF TokenConverted
  <2> QED
    BY <2>1 DEF StoreToken, There, MountInv
<1>5. CASE ConversionStops
  <2>1. UNCHANGED <<inLeaf, pod, spoilt>> /\ (leafTok # "none" => leafTok' = leafTok)
        /\ leafTok' \in {leafTok, "own", "none"}
    BY <1>5 DEF ConversionStops
  <2> QED
    BY <2>1 DEF There, MountInv
<1>6. CASE TokenController
  <2>1. UNCHANGED <<inLeaf, pod, spoilt>> /\ leafTok = "root" /\ leafTok' = "none"
    BY <1>6 DEF TokenController
  <2> QED
    BY <2>1 DEF There, MountInv
<1>7. CASE VolumesDone \/ VolumeConverted \/ AllConverted \/ TokenKnown \/ CreateToken \/ AttachToken
           \/ ChangeDNS(TRUE) \/ ChangeDNS(FALSE) \/ StorePod \/ PodFails
           \/ EditImage \/ EditSelection \/ SeeAccounts \/ UNCHANGED leafPodVars
  <2>1. UNCHANGED <<inLeaf, leafTok, spoilt, pod>>
    BY <1>7 DEF VolumesDone, VolumeConverted, AllConverted, TokenKnown, CreateToken, AttachToken, ChangeDNS,
                StorePod, PodFails, EditImage, EditSelection, SeeAccounts, leafPodVars
  <2> QED
    BY <1>1, <2>1
<1>8. CASE (\E o \in Orders : PodTake(o) \/ PodTakeUnconverted(o)) \/ \E v \in pod.direct : SkipPullSecret(v)
  <2>1. UNCHANGED <<inLeaf, leafTok, spoilt, pod>>
    BY <1>8 DEF PodTake, PodTakeUnconverted, SkipPullSecret
  <2> QED
    BY <1>1, <2>1
<1>9. TRUE \in BOOLEAN /\ FALSE \in BOOLEAN
  OBVIOUS
<1>10. CASE TokenConverted(TRUE) \/ TokenConverted(FALSE)
  BY <1>4, <1>9, <1>10
<1> QED
  BY <1>3, <1>5, <1>6, <1>7, <1>8, <1>10 DEF LeafPodNext, LeafPodWorks

(* A step that leaves the copy and the job alone keeps the invariant.      *)
LEMMA MountKept ==
  ASSUME MountInv, [LeafPodNext]_leafPodVars
  PROVE  /\ pod' \in RootPods /\ (leafTok' = "root" => spoilt')
         /\ leafPod # NoLeafPod => IsCopy(leafPod, pod'.direct, There') /\ DirectCopied(pod'.direct, {}, There')
         /\ job # IdleJob => IsJob(job, pod'.direct, There')
<1>1. There \subseteq There' /\ pod' = pod /\ (leafTok' = "root" => spoilt')
  BY ThereGrows
<1> QED
  BY <1>1, CopyGrows, DirectGrows, JobGrows DEF MountInv

(* Moving on to the next phase.                                            *)
LEMMA AtMoves ==
  ASSUME NEW j, NEW direct, NEW t, IsJob(j, direct, t),
         NEW at \in {"namespace", "volumes", "projected", "attach", "token", "dns", "store"},
         at \in {"namespace", "volumes"} \/ j.rest = {}
  PROVE  IsJob([j EXCEPT !.at = at], direct, t)
<1>1. /\ [j EXCEPT !.at = at] = [at |-> at, new |-> j.new, rest |-> j.rest, vol |-> j.vol, out |-> j.out]
  BY DEF IsJob
<1> QED
  BY <1>1 DEF IsJob

(* A volume was copied, or need not be.                                    *)
LEMMA RestShrinks ==
  ASSUME NEW j, NEW direct, NEW t, IsJob(j, direct, t), NEW v,
         v.kind \in {"pull", "oneway"} \/ LeafName(v.name) \in t
  PROVE  IsJob([j EXCEPT !.rest = @ \ {v}], direct, t)
<1>0. j = [at |-> j.at, new |-> j.new, rest |-> j.rest, vol |-> j.vol, out |-> j.out]
  BY DEF IsJob
<1>1. [j EXCEPT !.rest = @ \ {v}] = [at |-> j.at, new |-> j.new, rest |-> j.rest \ {v}, vol |-> j.vol, out |-> j.out]
  BY <1>0
<1>2. DirectCopied(direct, j.rest \ {v}, t)
  BY DEF IsJob, DirectCopied
<1> QED
  BY <1>1, <1>2 DEF IsJob

(* A source was converted.                                                 *)
LEMMA OutGrows ==
  ASSUME NEW j, NEW direct, NEW t, IsJob(j, direct, t), j.rest = {}, NEW m \in Sources, Good(m, t)
  PROVE  IsJob([j EXCEPT !.at = "projected", !.out = Append(@, m)], direct, t)
<1>0. j = [at |-> j.at, new |-> j.new, rest |-> j.rest, vol |-> j.vol, out |-> j.out]
  BY DEF IsJob
<1>1. [j EXCEPT !.at = "projected", !.out = Append(@, m)]
        = [at |-> "projected", new |-> j.new, rest |-> j.rest, vol |-> j.vol, out |-> Append(j.out, m)]
  <2> DEFINE k == [j EXCEPT !.at = "projected", !.out = Append(@, m)]
  <2>1. k.at = "projected" /\ k.new = j.new /\ k.rest = j.rest /\ k.vol = j.vol /\ k.out = Append(j.out, m)
    BY <1>0
  <2>2. DOMAIN k = {"at", "new", "rest", "vol", "out"} /\ k = [z \in DOMAIN k |-> k[z]]
    BY <1>0
  <2> HIDE DEF k
  <2>3. k = [at |-> "projected", new |-> j.new, rest |-> j.rest, vol |-> j.vol, out |-> Append(j.out, m)]
    BY <2>1, <2>2
  <2> QED
    BY <2>3 DEF k
<1>2. j.out \in Seq(Sources)
  BY DEF IsJob
<1>3. Append(j.out, m) \in Seq(Sources)
  BY <1>2
<1>4. \A k \in DOMAIN Append(j.out, m) : Good(Append(j.out, m)[k], t)
  BY <1>2 DEF IsJob
<1> QED
  BY <1>1, <1>3, <1>4 DEF IsJob

(* A volume's sources are replaced.                                        *)
LEMMA VolumeReplaced ==
  ASSUME NEW j, NEW direct, NEW t, IsJob(j, direct, t), j.rest = {}, j.at = "projected",
         j.vol <= Len(j.new.projected)
  PROVE  IsJob([j EXCEPT !.new.projected[j.vol] = j.out, !.vol = @ + 1, !.out = <<>>,
                         !.new.done = IF j.vol > @ THEN j.vol ELSE @], direct, t)
<1> DEFINE pr == [j.new.projected EXCEPT ![j.vol] = j.out]
           dn == IF j.vol > j.new.done THEN j.vol ELSE j.new.done
           nw == [j.new EXCEPT !.projected = pr, !.done = dn]
           jj == [at |-> j.at, new |-> nw, rest |-> j.rest, vol |-> j.vol + 1, out |-> <<>>]
<1>13. j.new = [image |-> j.new.image, sel |-> j.new.sel, extra |-> j.new.extra, spec |-> j.new.spec,
               direct |-> j.new.direct, projected |-> j.new.projected, done |-> j.new.done, dns |-> j.new.dns]
  BY DEF IsJob, IsCopy
<1>0. j = [at |-> j.at, new |-> j.new, rest |-> j.rest, vol |-> j.vol, out |-> j.out]
  BY DEF IsJob
<1>1. [j EXCEPT !.new.projected[j.vol] = j.out, !.vol = @ + 1, !.out = <<>>,
                !.new.done = IF j.vol > @ THEN j.vol ELSE @] = jj
  <2> DEFINE k == [j EXCEPT !.new.projected[j.vol] = j.out, !.vol = @ + 1, !.out = <<>>,
                         !.new.done = IF j.vol > @ THEN j.vol ELSE @]
  <2>1. k.at = j.at /\ k.new = nw /\ k.rest = j.rest /\ k.vol = j.vol + 1 /\ k.out = <<>>
    BY <1>0, <1>13
  <2>2. DOMAIN k = {"at", "new", "rest", "vol", "out"} /\ k = [z \in DOMAIN k |-> k[z]]
    BY <1>0, <1>13
  <2> HIDE DEF k
  <2>3. k = [at |-> j.at, new |-> nw, rest |-> j.rest, vol |-> j.vol + 1, out |-> <<>>]
    BY <2>1, <2>2
  <2> QED
    BY <2>3 DEF k
<1>2. /\ j.vol \in Nat \ {0} /\ j.vol <= j.new.done + 1 /\ j.new.projected \in Seq(Seq(Sources))
      /\ j.new.done \in 0 .. Len(j.new.projected) /\ j.out \in Seq(Sources)
      /\ \A k \in DOMAIN j.out : Good(j.out[k], t)
      /\ \A i \in 1 .. j.new.done : \A k \in DOMAIN j.new.projected[i] : Good(j.new.projected[i][k], t)
  BY DEF IsJob, IsCopy
<1>3. pr \in Seq(Seq(Sources)) /\ Len(pr) = Len(j.new.projected)
  BY <1>2
<1>4. dn \in 0 .. Len(pr) /\ j.vol + 1 <= dn + 1 /\ j.vol + 1 \in Nat \ {0}
  BY <1>2, <1>3
<1>5. ASSUME NEW i \in 1 .. dn PROVE \A k \in DOMAIN pr[i] : Good(pr[i][k], t)
  <2>1. CASE i = j.vol
    BY <1>2, <2>1
  <2>2. CASE i # j.vol
    <3>1. i \in 1 .. j.new.done
      BY <1>2, <2>2
    <3>2. pr[i] = j.new.projected[i]
      BY <1>2, <2>2, <3>1
    <3> QED
      BY <1>2, <3>1, <3>2
  <2> QED
    BY <2>1, <2>2
<1> HIDE DEF pr, dn
<1>6. nw = [image |-> j.new.image, sel |-> j.new.sel, extra |-> j.new.extra, spec |-> j.new.spec,
            direct |-> j.new.direct, projected |-> pr, done |-> dn, dns |-> j.new.dns]
  <2> DEFINE k == [j.new EXCEPT !.projected = pr, !.done = dn]
  <2>1. k.image = j.new.image /\ k.sel = j.new.sel /\ k.extra = j.new.extra /\ k.spec = j.new.spec /\ k.direct = j.new.direct /\ k.projected = pr /\ k.done = dn /\ k.dns = j.new.dns
    BY <1>13
  <2>2. DOMAIN k = {"image", "sel", "extra", "spec", "direct", "projected", "done", "dns"} /\ k = [z \in DOMAIN k |-> k[z]]
    BY <1>13
  <2> HIDE DEF k
  <2>3. k = [image |-> j.new.image, sel |-> j.new.sel, extra |-> j.new.extra, spec |-> j.new.spec, direct |-> j.new.direct, projected |-> pr, done |-> dn, dns |-> j.new.dns]
    BY <2>1, <2>2
  <2> QED
    BY <2>3 DEF k
<1>7. j.new.direct = LeafVolumes(direct)
  BY DEF IsJob, IsCopy
<1> HIDE DEF nw
<1>8. IsCopy(nw, direct, t)
  BY <1>3, <1>4, <1>5, <1>6, <1>7 DEF IsCopy
<1>9. nw.done = dn
  BY <1>6
<1>10. <<>> \in Seq(Sources) /\ DOMAIN <<>> = {}
  OBVIOUS
<1>11. DirectCopied(direct, j.rest, t)
  BY DEF IsJob
<1>12. IsJob(jj, direct, t)
  BY <1>4, <1>8, <1>9, <1>10, <1>11 DEF IsJob
<1> QED
  BY <1>1, <1>12

(* The DNS policy is another field.                                        *)
LEMMA DnsReplaced ==
  ASSUME NEW j, NEW direct, NEW t, IsJob(j, direct, t), j.rest = {}, NEW d
  PROVE  IsJob([j EXCEPT !.at = "store", !.new.dns = d], direct, t)
<1> DEFINE nw == [j.new EXCEPT !.dns = d]
<1>0. j = [at |-> j.at, new |-> j.new, rest |-> j.rest, vol |-> j.vol, out |-> j.out]
  BY DEF IsJob
<1>1. [j EXCEPT !.at = "store", !.new.dns = d]
        = [at |-> "store", new |-> nw, rest |-> j.rest, vol |-> j.vol, out |-> j.out]
  <2> DEFINE k == [j EXCEPT !.at = "store", !.new.dns = d]
  <2>1. k.at = "store" /\ k.new = nw /\ k.rest = j.rest /\ k.vol = j.vol /\ k.out = j.out
    BY <1>0
  <2>2. DOMAIN k = {"at", "new", "rest", "vol", "out"} /\ k = [z \in DOMAIN k |-> k[z]]
    BY <1>0
  <2> HIDE DEF k
  <2>3. k = [at |-> "store", new |-> nw, rest |-> j.rest, vol |-> j.vol, out |-> j.out]
    BY <2>1, <2>2
  <2> QED
    BY <2>3 DEF k
<1>13. j.new = [image |-> j.new.image, sel |-> j.new.sel, extra |-> j.new.extra, spec |-> j.new.spec,
               direct |-> j.new.direct, projected |-> j.new.projected, done |-> j.new.done, dns |-> j.new.dns]
  BY DEF IsJob, IsCopy
<1>2. nw = [image |-> j.new.image, sel |-> j.new.sel, extra |-> j.new.extra, spec |-> j.new.spec,
            direct |-> j.new.direct, projected |-> j.new.projected, done |-> j.new.done, dns |-> d]
  BY <1>13
<1> HIDE DEF nw
<1>3. IsCopy(nw, direct, t) /\ nw.done = j.new.done
  BY <1>2 DEF IsJob, IsCopy
<1> QED
  BY <1>1, <1>3 DEF IsJob

(* A copy that is built mounts the direct volumes and counts no projected  *)
(* one as converted.                                                       *)
LEMMA BuildCopy ==
  ASSUME pod \in RootPods, NEW cs, NEW order, NEW t
  PROVE  IsCopy(Build(cs, order), pod.direct, t)
<1>1. pod.projected \in Seq(Seq(Sources))
  BY RootPodAssumption
<1> DEFINE sp == ConvertPod(FitSpec(pod, edit.sel, order), cs)
<1>2. Build(cs, order) = [image |-> edit.image, sel |-> edit.sel, extra |-> TRUE, spec |-> sp,
                          direct |-> LeafVolumes(pod.direct), projected |-> pod.projected, done |-> 0, dns |-> pod.dns]
  BY DEF Build
<1> HIDE DEF sp
<1> QED
  BY <1>1, <1>2 DEF IsCopy

(* An edit changes none of the volumes.                                    *)
LEMMA UpdateCopy ==
  ASSUME NEW p, NEW t, IsCopy(p, pod.direct, t), NEW e, NEW order
  PROVE  IsCopy(GetUpdatedPod(p, e, order), pod.direct, t)
<1> DEFINE q == GetUpdatedPod(p, e, order)
<1>0. p = [image |-> p.image, sel |-> p.sel, extra |-> p.extra, spec |-> p.spec, direct |-> p.direct,
           projected |-> p.projected, done |-> p.done, dns |-> p.dns]
  BY DEF IsCopy
<1>1. q = [image |-> q.image, sel |-> q.sel, extra |-> q.extra, spec |-> q.spec, direct |-> p.direct,
           projected |-> p.projected, done |-> p.done, dns |-> p.dns]
  <2> DEFINE k == GetUpdatedPod(p, e, order)
  <2>1. k.image = q.image /\ k.sel = q.sel /\ k.extra = q.extra /\ k.spec = q.spec /\ k.direct = p.direct /\ k.projected = p.projected /\ k.done = p.done /\ k.dns = p.dns
    BY <1>0 DEF GetUpdatedPod
  <2>2. DOMAIN k = {"image", "sel", "extra", "spec", "direct", "projected", "done", "dns"} /\ k = [z \in DOMAIN k |-> k[z]]
    BY <1>0 DEF GetUpdatedPod
  <2> HIDE DEF k
  <2>3. k = [image |-> q.image, sel |-> q.sel, extra |-> q.extra, spec |-> q.spec, direct |-> p.direct, projected |-> p.projected, done |-> p.done, dns |-> p.dns]
    BY <2>1, <2>2
  <2> QED
    BY <2>3 DEF k
<1> HIDE DEF q
<1>2. IsCopy(q, pod.direct, t)
  BY <1>1 DEF IsCopy
<1> QED
  BY <1>2 DEF q

LEMMA MountInit == LeafPodInit => MountInv
  BY DEF LeafPodInit, MountInv

(* A job that began is one that has copied nothing yet.                    *)
LEMMA BeginIsJob ==
  ASSUME MountInv, NEW cs, NEW order, Begin(cs, order), There \subseteq There'
  PROVE  job' # IdleJob => IsJob(job', pod.direct, There')
<1>1. CASE leafPod = NoLeafPod
  <2> DEFINE new == Build(cs, order)
  <2>1. IsCopy(new, pod.direct, There')
    BY BuildCopy DEF MountInv
  <2>2. job' = [at |-> "namespace", new |-> new, rest |-> pod.direct, vol |-> 1, out |-> <<>>]
    BY <1>1 DEF Begin
  <2> HIDE DEF new
  <2>3. <<>> \in Seq(Sources) /\ DOMAIN <<>> = {}
    OBVIOUS
  <2>4. DirectCopied(pod.direct, pod.direct, There')
    BY DEF DirectCopied
  <2>5. new.done \in Nat
    BY <2>1 DEF IsCopy
  <2> QED
    BY <2>1, <2>2, <2>3, <2>4, <2>5 DEF IsJob
<1>2. CASE leafPod # NoLeafPod
  <2> DEFINE new == GetUpdatedPod(leafPod, edit, order)
  <2>1. IsCopy(leafPod, pod.direct, There') /\ DirectCopied(pod.direct, {}, There')
    BY <1>2, CopyGrows, DirectGrows DEF MountInv
  <2>2. IsCopy(new, pod.direct, There')
    BY <2>1, UpdateCopy
  <2>3. job' \in {IdleJob, [at |-> "projected", new |-> new, rest |-> {}, vol |-> 1, out |-> <<>>]}
    BY <1>2 DEF Begin
  <2> HIDE DEF new
  <2>4. <<>> \in Seq(Sources) /\ DOMAIN <<>> = {}
    OBVIOUS
  <2>5. new.done \in Nat
    BY <2>2 DEF IsCopy
  <2>6. CASE job' = [at |-> "projected", new |-> new, rest |-> {}, vol |-> 1, out |-> <<>>]
    BY <2>1, <2>2, <2>4, <2>5, <2>6 DEF IsJob
  <2> QED
    BY <2>3, <2>6
<1> QED
  BY <1>1, <1>2

(* Every step keeps what the copy and the job mount.                       *)
LEMMA MountStep == MountInv /\ [LeafPodNext]_leafPodVars => MountInv'
<1> SUFFICES ASSUME MountInv, [LeafPodNext]_leafPodVars PROVE MountInv'
  OBVIOUS
<1> DEFINE direct == pod.direct
<1>1. There \subseteq There' /\ pod' = pod
  BY ThereGrows
<1>2. /\ pod' \in RootPods /\ (leafTok' = "root" => spoilt')
      /\ leafPod # NoLeafPod => IsCopy(leafPod, pod'.direct, There') /\ DirectCopied(pod'.direct, {}, There')
      /\ job # IdleJob => IsJob(job, pod'.direct, There')
  BY MountKept
<1>3. ASSUME leafPod' = leafPod, job' # IdleJob => IsJob(job', pod'.direct, There') PROVE MountInv'
  BY <1>2, <1>3 DEF MountInv
<1>4. CASE UNCHANGED <<job, leafPod>>
  BY <1>2, <1>3, <1>4
<1>5. CASE EditImage \/ EditSelection \/ SeeAccounts \/ TokenController \/ UNCHANGED leafPodVars
  <2>1. UNCHANGED <<job, leafPod>>
    BY <1>5 DEF EditImage, EditSelection, SeeAccounts, TokenController, leafPodVars
  <2> QED
    BY <1>4, <2>1
<1>6. ASSUME NEW o \in Orders, PodTake(o) \/ PodTakeUnconverted(o) PROVE MountInv'
  <2>1. leafPod' = leafPod /\ (Begin(MutateBy(pod.policies), o) \/ Begin(NoConverters, o))
    BY <1>6 DEF PodTake, PodTakeUnconverted
  <2>2. job' # IdleJob => IsJob(job', pod.direct, There')
    BY <1>1, <2>1, BeginIsJob
  <2> QED
    BY <1>1, <1>3, <2>1, <2>2
<1>7. CASE PodFails
  BY <1>3, <1>7 DEF PodFails, PodRequeue
<1>8. ASSUME job.at \in {"namespace", "volumes", "projected", "attach", "token", "dns", "store"}
      PROVE  IsJob(job, pod'.direct, There')
  BY <1>2, <1>8, NotIdle
<1>9. ASSUME NEW at \in {"projected", "attach", "token", "dns", "volumes"}, leafPod' = leafPod,
             job.at \in {"namespace", "volumes", "projected", "attach", "token", "dns", "store"},
             at = "volumes" \/ job.rest = {}, job' = [job EXCEPT !.at = at]
      PROVE  MountInv'
  BY <1>3, <1>8, <1>9, AtMoves
<1>10. CASE EnsureNamespace
  BY <1>9, <1>10 DEF EnsureNamespace
<1>11. ASSUME NEW v \in pod.direct, CopyVolume(v) PROVE MountInv'
  <2>1. job.at = "volumes" /\ (v.kind = "oneway" \/ inLeaf' = inLeaf \union {LeafName(v.name)})
        /\ leafPod' = leafPod /\ job' = [job EXCEPT !.rest = @ \ {v}]
    BY <1>11 DEF CopyVolume, CopyObject
  <2>2. v.name # "token"
    BY RootPodAssumption DEF MountInv
  <2>3. v.kind = "oneway" \/ LeafName(v.name) \in There'
    BY <2>1, <2>2 DEF LeafName, There
  <2>4. IsJob(job', pod'.direct, There')
    BY <1>8, <2>1, <2>3, RestShrinks
  <2> QED
    BY <1>3, <2>1, <2>4
<1>12. ASSUME NEW v \in pod.direct, SkipPullSecret(v) PROVE MountInv'
  <2>1. job.at = "volumes" /\ leafPod' = leafPod /\ job' = [job EXCEPT !.rest = @ \ {v}] /\ v.kind = "pull"
    BY <1>12 DEF SkipPullSecret
  <2>2. IsJob(job', pod'.direct, There')
    BY <1>8, <2>1, RestShrinks
  <2> QED
    BY <1>3, <2>1, <2>2
<1>13. CASE VolumesDone
  BY <1>9, <1>13 DEF VolumesDone
<1>14. ASSUME job.at \in {"projected", "attach", "token", "dns", "store"} PROVE job.rest = {}
  BY <1>8, <1>14 DEF IsJob
<1>15. CASE VolumeConverted
  <2>1. job.at = "projected" /\ job.vol <= Len(job.new.projected) /\ leafPod' = leafPod
        /\ job' = [job EXCEPT !.new.projected[job.vol] = job.out, !.vol = @ + 1, !.out = <<>>,
                              !.new.done = IF job.vol > @ THEN job.vol ELSE @]
    BY <1>15 DEF VolumeConverted
  <2>2. IsJob(job', pod'.direct, There')
    BY <1>8, <1>14, <2>1, VolumeReplaced
  <2> QED
    BY <1>3, <2>1, <2>2
<1>16. CASE AllConverted
  BY <1>9, <1>14, <1>16 DEF AllConverted
<1>17. CASE ConvertSource
  <2> DEFINE src == Source
             m == [src EXCEPT !.name = LeafName(@)]
  <2>1. job.at = "projected" /\ leafPod' = leafPod /\ src.name # "token"
        /\ (src.kind # "downward" => inLeaf' = inLeaf \union {LeafName(src.name)})
        /\ job' = [job EXCEPT !.at = "projected", !.out = Append(@, m)]
    BY <1>17 DEF ConvertSource, AtSource, Converted, CopyObject
  <2>2. src \in Sources
    <3>1. job.vol <= Len(job.new.projected) /\ Len(job.out) < Len(Volume)
      BY <1>17 DEF ConvertSource, AtSource
    <3>2. job.vol \in Nat \ {0} /\ job.new.projected \in Seq(Seq(Sources)) /\ job.out \in Seq(Sources)
      BY <1>8, <2>1 DEF IsJob, IsCopy
    <3>3. Volume \in Seq(Sources)
      BY <3>1, <3>2 DEF Volume
    <3> QED
      BY <3>1, <3>2, <3>3 DEF Source
  <2> HIDE DEF src
  <2>3. LeafName(src.name) \in VolumeNames /\ LeafName(src.name) # "token"
    BY <2>1, <2>2, NamesAssumption DEF LeafName, Sources
  <2>4. m \in Sources /\ m.kind = src.kind /\ m.name = LeafName(src.name)
    BY <2>2, <2>3 DEF Sources
  <2>5. Good(m, There')
    BY <2>1, <2>3, <2>4 DEF Good, There
  <2> HIDE DEF m
  <2>6. IsJob(job', pod'.direct, There')
    BY <1>8, <1>14, <2>1, <2>4, <2>5, OutGrows
  <2> QED
    BY <1>3, <2>1, <2>6
<1>18. CASE TokenKnown
  BY <1>9, <1>14, <1>18 DEF TokenKnown, AtSource
<1>19. CASE CreateToken
  <2>1. job.at = "projected" /\ leafPod' = leafPod /\ job' = [job EXCEPT !.at = IF rootTok THEN "dns" ELSE "attach"]
    BY <1>19 DEF CreateToken, AtSource
  <2> QED
    BY <1>9, <1>14, <2>1
<1>20. CASE AttachToken
  BY <1>9, <1>14, <1>20 DEF AttachToken
<1>21. CASE TokenConverted(TRUE) \/ TokenConverted(FALSE)
  <2> DEFINE m == [kind |-> "secret", name |-> "token"]
  <2>1. job.at = "token" /\ leafPod' = leafPod /\ (StoreToken(TRUE) \/ StoreToken(FALSE))
        /\ job' = [job EXCEPT !.at = "projected", !.out = Append(@, m)]
    BY <1>21 DEF TokenConverted, Converted
  <2>2. leafTok' # "none"
    BY <2>1 DEF StoreToken
  <2>3. m \in Sources /\ Good(m, There')
    BY <2>2, NamesAssumption DEF Sources, Good, There
  <2> HIDE DEF m
  <2>4. IsJob(job', pod'.direct, There')
    BY <1>8, <1>14, <2>1, <2>3, OutGrows
  <2> QED
    BY <1>3, <2>1, <2>4
<1>22. CASE ConversionStops
  <2>1. job.at \in {"projected", "attach", "token"} /\ leafPod' = leafPod /\ job' = [job EXCEPT !.at = "dns"]
    BY <1>22 DEF ConversionStops, AtSource
  <2> QED
    BY <1>9, <1>14, <2>1
<1>23. ASSUME NEW found \in BOOLEAN, ChangeDNS(found) PROVE MountInv'
  <2> DEFINE d == IF found /\ job.new.dns = "first" /\ ~pod.mcs THEN "master" ELSE job.new.dns
  <2>1. job.at = "dns" /\ leafPod' = leafPod /\ job' = [job EXCEPT !.at = "store", !.new.dns = d]
    BY <1>23 DEF ChangeDNS
  <2> HIDE DEF d
  <2>2. IsJob(job', pod'.direct, There')
    BY <1>8, <1>14, <2>1, DnsReplaced
  <2> QED
    BY <1>3, <2>1, <2>2
<1>24. CASE StorePod
  <2>1. CASE leafPod' = leafPod /\ job' = IdleJob
    BY <1>3, <2>1
  <2>2. CASE leafPod' = job.new /\ job' = IdleJob
    <3>1. IsJob(job, pod'.direct, There') /\ job.rest = {}
      BY <1>8, <1>14, <1>24 DEF StorePod
    <3>2. IsCopy(job.new, pod'.direct, There') /\ DirectCopied(pod'.direct, {}, There')
      BY <3>1 DEF IsJob
    <3> QED
      BY <1>2, <2>2, <3>2 DEF MountInv
  <2> QED
    BY <1>24, <2>1, <2>2 DEF StorePod, PodRequeue
<1>25. CASE ChangeDNS(TRUE) \/ ChangeDNS(FALSE)
  <2>1. TRUE \in BOOLEAN /\ FALSE \in BOOLEAN
    OBVIOUS
  <2> QED
    BY <1>23, <1>25, <2>1
<1>26. CASE LeafPodWorks
  BY <1>10, <1>11, <1>13, <1>15, <1>16, <1>17, <1>18, <1>19, <1>20, <1>21, <1>24, <1>25, <1>26 DEF LeafPodWorks
<1> QED
  BY <1>5, <1>6, <1>7, <1>12, <1>21, <1>22, <1>25, <1>26 DEF LeafPodNext

(* What is mounted is there.                                               *)
LEMMA MountEnough == MountInv => Mountable
<1> SUFFICES ASSUME MountInv, leafPod # NoLeafPod, NEW m \in Mounts, m.kind \notin {"downward", "oneway"}
             PROVE  IF m.name = "token" THEN leafTok # "none" \/ spoilt ELSE m.name \in inLeaf
  BY DEF Mountable
<1>1. IsCopy(leafPod, pod.direct, There) /\ DirectCopied(pod.direct, {}, There) /\ pod \in RootPods
  BY DEF MountInv
<1>2. ASSUME m.name \in There
      PROVE  IF m.name = "token" THEN leafTok # "none" \/ spoilt ELSE m.name \in inLeaf
  BY <1>2 DEF There
<1>3. CASE \E w \in leafPod.direct : w.kind # "pull" /\ m = [kind |-> w.kind, name |-> w.name]
  <2>1. PICK w \in leafPod.direct : w.kind # "pull" /\ m = [kind |-> w.kind, name |-> w.name]
    BY <1>3
  <2>2. PICK v \in pod.direct : w = [kind |-> v.kind, name |-> LeafName(v.name)]
    BY <1>1 DEF IsCopy, LeafVolumes
  <2>3. m.name \in There
    BY <1>1, <2>1, <2>2 DEF DirectCopied
  <2> QED
    BY <1>2, <2>3
<1>4. CASE \E i \in 1 .. leafPod.done : \E j \in DOMAIN leafPod.projected[i] : m = leafPod.projected[i][j]
  <2>1. m.name \in There
    BY <1>1, <1>4 DEF IsCopy, Good
  <2> QED
    BY <1>2, <2>1
<1> QED
  BY <1>3, <1>4 DEF Mounts

(* Whatever fails, is retried or edited, a pod of the leaf cluster mounts  *)
(* only what was copied there before it, under the name it mounts; claims  *)
(* of one-way storage, which another controller copies, aside.             *)
THEOREM AllMountable == LeafPodSpec => []Mountable
<1> QED
  BY MountInit, MountStep, MountEnough, PTL DEF LeafPodSpec

-----------------------------------------------------------------------------
(* Installing Kosmos (Deploy).                                            *)

(* A non-empty set of naturals has a least element.                        *)
LEMMA Least ==
  ASSUME NEW T, T \subseteq Nat, T # {}
  PROVE  \E x \in T : \A y \in T : x <= y
<1>1. PICK x \in T : \A y \in T : <<y, x>> \notin OpToRel(<, Nat)
  BY WFMin, NatLessThanWellFounded
<1>2. \A y \in T : ~(y < x)
  BY <1>1 DEF OpToRel
<1>3. \A y \in T : y \in Nat /\ x \in Nat
  OBVIOUS
<1>4. \A y \in T : x <= y
  BY <1>2, <1>3
<1> QED BY <1>4

(* What commands, add-ons and programs name.                               *)
Names ==
  {"crdCluster", "crdLink", "crdCDP", "crdDP", "treeCRDs", "ns", "linkRbac", "treeRbac", "schedRbac", "dnsRbac",
   "kosmosRole", "electorRole", "managerRole", "operator", "panelSecret", "operatorSA", "netManager", "hostConfig",
   "treeSecret", "treeManager", "schedConfig", "scheduler", "dnsConfig", "coredns", "dnsService", "controlSA",
   "emptySecret", "cluster", "proxySecret", "emptyProxySecret", "proxy", "agent", "elector", "manager", "link", "tree", "nsEnding", ""}

Ops == {"create", "delete", "look", "wait", "drop", "mustDrop", "remove"}

(* The calls of a program that all go to cluster c.                        *)
Calls(c) ==
  [op : Ops, at : {c}, obj : Names, only : Names, unless : Names]
    \cup [op : {"register", "enable"}, at : {c}, obj : BOOLEAN \X BOOLEAN, only : Names, unless : Names]

(* A call on a named object goes to the cluster it names.                  *)
LEMMA StepCall == ASSUME NEW c, NEW op \in Ops, NEW o \in Names PROVE Step(op, c, o) \in Calls(c)
BY DEF Step, Calls, Names

(* A function on 1..n is a sequence.                                       *)
LEMMA FunSeq == ASSUME NEW S, NEW n \in Nat, NEW f \in [1..n -> S] PROVE f \in Seq(S) /\ Len(f) = n
BY SeqDef

(* A run of creations ...                                                  *)
LEMMA CreatesCalls ==
  ASSUME NEW c, NEW os \in Seq(Names)
  PROVE  /\ Creates(c, os) \in Seq(Calls(c)) /\ Len(Creates(c, os)) = Len(os)
         /\ \A i \in 1..Len(os) : Creates(c, os)[i] = Step("create", c, os[i])
<1>1. \A i \in 1..Len(os) : os[i] \in Names
  OBVIOUS
<1>2. \A i \in 1..Len(os) : Step("create", c, os[i]) \in Calls(c)
  BY <1>1, StepCall DEF Ops
<1>3. Creates(c, os) \in [1..Len(os) -> Calls(c)]
  BY <1>2 DEF Creates
<1>4. Len(os) \in Nat
  OBVIOUS
<1> QED BY <1>3, <1>4, FunSeq DEF Creates

(* ... and a run of deletions, call by call.                               *)
LEMMA DeletesCalls ==
  ASSUME NEW c, NEW os \in Seq(Names)
  PROVE  /\ Deletes(c, os) \in Seq(Calls(c)) /\ Len(Deletes(c, os)) = Len(os)
         /\ \A i \in 1..Len(os) : Deletes(c, os)[i] = Step("delete", c, os[i])
<1>1. \A i \in 1..Len(os) : os[i] \in Names
  OBVIOUS
<1>2. \A i \in 1..Len(os) : Step("delete", c, os[i]) \in Calls(c)
  BY <1>1, StepCall DEF Ops
<1>3. Deletes(c, os) \in [1..Len(os) -> Calls(c)]
  BY <1>2 DEF Deletes
<1>4. Len(os) \in Nat
  OBVIOUS
<1> QED BY <1>3, <1>4, FunSeq DEF Deletes

(* What a condition on the reads makes of a run of calls.                  *)
LEMMA OnlyCalls ==
  ASSUME NEW c, NEW o \in Names, NEW p \in Seq(Calls(c))
  PROVE  /\ Only(o, p) \in Seq(Calls(c)) /\ Len(Only(o, p)) = Len(p)
         /\ \A i \in 1..Len(p) : Only(o, p)[i] = [p[i] EXCEPT !.only = o]
<1>1. \A i \in 1..Len(p) : p[i] \in Calls(c)
  OBVIOUS
<1>2. \A i \in 1..Len(p) : [p[i] EXCEPT !.only = o] \in Calls(c)
  <2> TAKE i \in 1..Len(p)
  <2>1. p[i] \in Calls(c)
    BY <1>1
  <2> QED BY <2>1 DEF Calls
<1>3. Only(o, p) \in [1..Len(p) -> Calls(c)]
  BY <1>2 DEF Only
<1>4. Len(p) \in Nat
  OBVIOUS
<1> QED BY <1>3, <1>4, FunSeq DEF Only

(* The same for its negation.                                              *)
LEMMA UnlessCalls ==
  ASSUME NEW c, NEW o \in Names, NEW p \in Seq(Calls(c))
  PROVE  /\ Unless(o, p) \in Seq(Calls(c)) /\ Len(Unless(o, p)) = Len(p)
         /\ \A i \in 1..Len(p) : Unless(o, p)[i] = [p[i] EXCEPT !.unless = o]
<1>1. \A i \in 1..Len(p) : p[i] \in Calls(c)
  OBVIOUS
<1>2. \A i \in 1..Len(p) : [p[i] EXCEPT !.unless = o] \in Calls(c)
  <2> TAKE i \in 1..Len(p)
  <2>1. p[i] \in Calls(c)
    BY <1>1
  <2> QED BY <2>1 DEF Calls
<1>3. Unless(o, p) \in [1..Len(p) -> Calls(c)]
  BY <1>2 DEF Unless
<1>4. Len(p) \in Nat
  OBVIOUS
<1> QED BY <1>3, <1>4, FunSeq DEF Unless

(* An optional part is still made of such calls.                           *)
LEMMA OptCalls == ASSUME NEW c, NEW b, NEW p \in Seq(Calls(c)) PROVE Opt(b, p) \in Seq(Calls(c))
BY DEF Opt

(* One call is a program ...                                               *)
LEMMA OneCall == ASSUME NEW c, NEW s \in Calls(c) PROVE <<s>> \in Seq(Calls(c))
OBVIOUS

(* ... and two programs after each other are one.                          *)
LEMMA JoinCalls == ASSUME NEW c, NEW p \in Seq(Calls(c)), NEW q \in Seq(Calls(c)) PROVE p \o q \in Seq(Calls(c))
BY ConcatProperties

(* Looking, waiting and dropping are calls to the host.                    *)
LEMMA HostCalls ==
  ASSUME NEW o \in Names
  PROVE  Look(o) \in Seq(Calls(Host)) /\ Wait(o) \in Seq(Calls(Host)) /\ DropCRD(o) \in Seq(Calls(Host))
BY StepCall, OneCall DEF Look, Wait, DropCRD, Ops

(* The installers of install.go make calls to the host ...                 *)
LEMMA InstallCalls ==
  /\ InstallClusterlink \in Seq(Calls(Host))
  /\ InstallClustertree \in Seq(Calls(Host))
<1>1. CreateOperator \in Seq(Calls(Host))
  <2>1. <<"operator", "panelSecret", "kosmosRole", "operatorSA">> \in Seq(Names) /\ "operator" \in Names
    BY DEF Names
  <2> QED BY <2>1, CreatesCalls, HostCalls, JoinCalls DEF CreateOperator
<1>2. InstallClusterlink \in Seq(Calls(Host))
  <2>1. <<"ns", "linkRbac", "crdCluster", "crdLink", "netManager">> \in Seq(Names)
    BY DEF Names
  <2>2. "operator" \in Names /\ "netManager" \in Names
    BY DEF Names
  <2> QED BY <1>1, <2>1, <2>2, CreatesCalls, HostCalls, JoinCalls, UnlessCalls DEF InstallClusterlink
<1>3. InstallClustertree \in Seq(Calls(Host))
  <2>1. <<"ns", "treeRbac", "crdCluster", "hostConfig", "treeSecret", "treeManager">> \in Seq(Names) /\ "treeManager" \in Names
    BY DEF Names
  <2> QED BY <2>1, CreatesCalls, HostCalls, JoinCalls DEF InstallClustertree
<1> QED BY <1>2, <1>3

(* ... and so do those of uninstall.go.                                    *)
LEMMA UninstallCalls ==
  /\ UninstallClusterlink \in Seq(Calls(Host)) /\ UninstallClustertree \in Seq(Calls(Host))
  /\ UninstallAll \in Seq(Calls(Host)) /\ UninstallScheduler \in Seq(Calls(Host))
  /\ UninstallCoredns \in Seq(Calls(Host))
<1>0. /\ <<"netManager">> \in Seq(Names) /\ <<"linkRbac">> \in Seq(Names) /\ <<"operator">> \in Seq(Names)
      /\ <<"treeManager">> \in Seq(Names) /\ <<"treeSecret">> \in Seq(Names) /\ <<"ns">> \in Seq(Names)
      /\ <<"hostConfig", "treeRbac">> \in Seq(Names) /\ <<"scheduler", "schedConfig", "schedRbac">> \in Seq(Names)
      /\ <<"coredns", "dnsService", "dnsConfig">> \in Seq(Names) /\ <<"dnsRbac">> \in Seq(Names)
      /\ {"crdCluster", "crdLink", "crdCDP", "treeManager", "netManager"} \subseteq Names
  BY DEF Names
<1>1. UninstallClusterlink \in Seq(Calls(Host))
  <2>1. "treeManager" \in Names /\ "crdCluster" \in Names /\ "crdLink" \in Names
    BY <1>0
  <2>2. Unless("treeManager", Deletes(Host, <<"operator">>)) \in Seq(Calls(Host))
    BY <1>0, <2>1, DeletesCalls, UnlessCalls
  <2> QED BY <1>0, <2>1, <2>2, DeletesCalls, HostCalls, JoinCalls DEF UninstallClusterlink
<1>2. UninstallClustertree \in Seq(Calls(Host))
  <2>1. "treeManager" \in Names /\ "crdCluster" \in Names /\ "netManager" \in Names
    BY <1>0
  <2>2. Unless("netManager", Deletes(Host, <<"operator">>)) \in Seq(Calls(Host))
    BY <1>0, <2>1, DeletesCalls, UnlessCalls
  <2>3. Only("treeManager", Deletes(Host, <<"treeSecret">>)) \in Seq(Calls(Host))
    BY <1>0, <2>1, DeletesCalls, OnlyCalls
  <2> QED BY <1>0, <2>1, <2>2, <2>3, DeletesCalls, HostCalls, JoinCalls DEF UninstallClustertree
<1>3. UninstallAll \in Seq(Calls(Host))
  BY <1>0, <1>1, <1>2, DeletesCalls, JoinCalls DEF UninstallAll
<1>4. UninstallScheduler \in Seq(Calls(Host))
  <2>1. "crdCDP" \in Names
    BY <1>0
  <2> QED BY <1>0, <2>1, DeletesCalls, HostCalls, JoinCalls DEF UninstallScheduler
<1>5. UninstallCoredns \in Seq(Calls(Host))
  <2>1. "crdCluster" \in Names
    BY <1>0
  <2>2. <<Step("mustDrop", Host, "crdCluster")>> \in Seq(Calls(Host))
    BY <2>1, StepCall, OneCall DEF Ops
  <2> QED BY <1>0, <2>2, DeletesCalls, JoinCalls DEF UninstallCoredns
<1> QED BY <1>1, <1>2, <1>3, <1>4, <1>5

(* A call that registers or changes a Cluster.                             *)
LEMMA ClusterCall ==
  ASSUME NEW c, NEW op \in {"register", "enable"}, NEW l \in BOOLEAN, NEW t \in BOOLEAN
  PROVE  <<[op |-> op, at |-> c, obj |-> <<l, t>>, only |-> "", unless |-> ""]>> \in Seq(Calls(c))
<1>1. "" \in Names
  BY DEF Names
<1>2. [op |-> op, at |-> c, obj |-> <<l, t>>, only |-> "", unless |-> ""] \in Calls(c)
  BY <1>1 DEF Calls
<1> QED BY <1>2, OneCall

(* A join makes all its calls to the cluster that joins.                   *)
LEMMA JoinClusterCalls ==
  ASSUME NEW c, NEW l \in BOOLEAN, NEW t \in BOOLEAN
  PROVE  JoinCluster(c, l, t) \in Seq(Calls(c))
<1>1. /\ <<"ns">> \in Seq(Names) /\ <<"operatorSA">> \in Seq(Names) /\ <<"treeCRDs">> \in Seq(Names)
      /\ <<"controlSA", "emptySecret", "kosmosRole">> \in Seq(Names)
  BY DEF Names
<1>2. Creates(c, <<"ns">>) \in Seq(Calls(c)) /\ Opt(l, Creates(c, <<"operatorSA">>)) \in Seq(Calls(c))
  BY <1>1, CreatesCalls, OptCalls
<1>3. Opt(t, CreateTreeRelatedCRDs(c)) \in Seq(Calls(c)) /\ JoinControl(c) \in Seq(Calls(c))
  BY <1>1, CreatesCalls, OptCalls DEF CreateTreeRelatedCRDs, JoinControl
<1>4. <<[op |-> "register", at |-> c, obj |-> <<l, t>>, only |-> "", unless |-> ""]>> \in Seq(Calls(c))
  BY ClusterCall
<1> QED BY <1>2, <1>3, <1>4, JoinCalls DEF JoinCluster

(* The control cluster is joined in the host.                              *)
LEMMA ControlCalls ==
  ASSUME NEW l \in BOOLEAN, NEW t \in BOOLEAN
  PROVE  CreateControlCluster(l, t) \in Seq(Calls(Host))
<1>1. "cluster" \in Names /\ <<"treeCRDs">> \in Seq(Names)
  BY DEF Names
<1>2. Look("cluster") \in Seq(Calls(Host)) /\ Unless("cluster", JoinCluster(Host, l, t)) \in Seq(Calls(Host))
  BY <1>1, HostCalls, UnlessCalls, JoinClusterCalls
<1>3. Opt(~l, Only("cluster", CreateTreeRelatedCRDs(Host))) \in Seq(Calls(Host))
  BY <1>1, CreatesCalls, OnlyCalls, OptCalls DEF CreateTreeRelatedCRDs
<1>4. Only("cluster", <<[op |-> "enable", at |-> Host, obj |-> <<l, t>>, only |-> "", unless |-> ""]>>) \in Seq(Calls(Host))
  BY <1>1, ClusterCall, OnlyCalls
<1> QED BY <1>2, <1>3, <1>4, JoinCalls DEF CreateControlCluster

(* An unjoin makes all its calls to the cluster that leaves.               *)
LEMMA UnjoinCalls == ASSUME NEW c PROVE UnjoinCluster(c) \in Seq(Calls(c))
<1>1. /\ <<"ns">> \in Seq(Names) /\ <<"operatorSA">> \in Seq(Names) /\ <<"treeCRDs">> \in Seq(Names)
      /\ <<"emptySecret", "kosmosRole", "controlSA">> \in Seq(Names)
      /\ "tree" \in Names /\ "link" \in Names /\ "cluster" \in Names
  BY DEF Names
<1>2. <<Step("remove", c, "cluster")>> \in Seq(Calls(c))
  BY <1>1, StepCall, OneCall DEF Ops
<1>3. /\ Only("tree", Deletes(c, <<"treeCRDs">>)) \in Seq(Calls(c))
      /\ Only("link", Deletes(c, <<"operatorSA">>)) \in Seq(Calls(c))
  BY <1>1, DeletesCalls, OnlyCalls
<1>4. Opt(c # Host, Deletes(c, <<"ns">>)) \in Seq(Calls(c))
  BY <1>1, DeletesCalls, OptCalls
<1> QED BY <1>1, <1>2, <1>3, <1>4, DeletesCalls, JoinCalls DEF UnjoinCluster

(* The other two installers.                                               *)
LEMMA MoreInstallCalls ==
  InstallScheduler \in Seq(Calls(Host)) /\ InstallCoreDNS \in Seq(Calls(Host))
<1>1. InstallScheduler \in Seq(Calls(Host))
  <2>1. /\ <<"ns", "schedRbac", "schedConfig", "hostConfig", "crdCDP", "crdDP", "scheduler">> \in Seq(Names)
        /\ "scheduler" \in Names
    BY DEF Names
  <2> QED BY <2>1, CreatesCalls, HostCalls, JoinCalls DEF InstallScheduler
<1>2. InstallCoreDNS \in Seq(Calls(Host))
  <2>1. /\ <<"ns", "dnsRbac", "dnsConfig", "crdCluster", "coredns">> \in Seq(Names)
        /\ "coredns" \in Names /\ <<"dnsService">> \in Seq(Names)
    BY DEF Names
  <2> QED BY <2>1, CreatesCalls, HostCalls, JoinCalls DEF InstallCoreDNS
<1> QED BY <1>1, <1>2

(* The options of join.go lead to three commands.                          *)
LEMMA JoinNames == Joins = {"join all", "join link", "join tree"}
<1>1. ASSUME NEW f \in JoinFlags
      PROVE  JoinComplete(f) \in {<<TRUE, TRUE>>, <<TRUE, FALSE>>, <<FALSE, TRUE>>}
  BY <1>1 DEF JoinFlags, JoinComplete
<1>2. /\ JoinOf(<<TRUE, TRUE>>) = "join all" /\ JoinOf(<<TRUE, FALSE>>) = "join link"
      /\ JoinOf(<<FALSE, TRUE>>) = "join tree"
  BY DEF JoinOf
<1>3. /\ JoinComplete([all |-> TRUE, link |-> FALSE, tree |-> FALSE, network |-> FALSE, leafModel |-> FALSE]) = <<TRUE, TRUE>>
      /\ JoinComplete([all |-> FALSE, link |-> TRUE, tree |-> FALSE, network |-> FALSE, leafModel |-> FALSE]) = <<TRUE, FALSE>>
      /\ JoinComplete([all |-> FALSE, link |-> FALSE, tree |-> TRUE, network |-> FALSE, leafModel |-> FALSE]) = <<FALSE, TRUE>>
  BY DEF JoinComplete
<1>4. /\ [all |-> TRUE, link |-> FALSE, tree |-> FALSE, network |-> FALSE, leafModel |-> FALSE] \in JoinFlags
      /\ [all |-> FALSE, link |-> TRUE, tree |-> FALSE, network |-> FALSE, leafModel |-> FALSE] \in JoinFlags
      /\ [all |-> FALSE, link |-> FALSE, tree |-> TRUE, network |-> FALSE, leafModel |-> FALSE] \in JoinFlags
  BY DEF JoinFlags
<1>5. Joins \subseteq {"join all", "join link", "join tree"}
  BY <1>1, <1>2 DEF Joins
<1>6. "join all" \in Joins /\ "join link" \in Joins /\ "join tree" \in Joins
  BY <1>2, <1>3, <1>4 DEF Joins
<1> QED BY <1>5, <1>6

(* The calls that create the objects O in cluster c.                       *)
Creations(c, O) == {Step("create", c, o) : o \in O}

(* A run of creations creates what it names.                               *)
LEMMA CreatesIn ==
  ASSUME NEW c, NEW O, NEW os \in Seq(O)
  PROVE  Creates(c, os) \in Seq(Creations(c, O)) /\ Len(Creates(c, os)) = Len(os)
<1>1. \A i \in 1..Len(os) : os[i] \in O
  OBVIOUS
<1>2. Creates(c, os) \in [1..Len(os) -> Creations(c, O)]
  BY <1>1 DEF Creates, Creations
<1>3. Len(os) \in Nat
  OBVIOUS
<1> QED BY <1>2, <1>3, FunSeq

Added(t) == IF t THEN {"ns", "operatorSA", "treeCRDs"} ELSE {"ns", "operatorSA"}
Registration(l, t) == [op |-> "register", at |-> "member", obj |-> <<l, t>>, only |-> "", unless |-> ""]
RegAt(l, t) == IF l /\ t THEN 4 ELSE 3

(* A join creates its objects before it registers the Cluster, the CRDs of *)
(* ClusterTree only if that is enabled, and the rest after.                *)
LEMMA JoinShape ==
  ASSUME NEW l \in BOOLEAN, NEW t \in BOOLEAN, l \/ t
  PROVE  LET p == JoinCluster("member", l, t)
             r == RegAt(l, t)
         IN  /\ Len(p) = r + 3
             /\ \A i \in 1..(r - 1) : p[i] \in Creations("member", Added(t))
             /\ p[r] = Registration(l, t)
             /\ \A i \in (r + 1)..(r + 3) : p[i] \in Creations("member", {"controlSA", "emptySecret", "kosmosRole"})
<1> DEFINE r == RegAt(l, t)
           A1 == Creates("member", <<"ns">>)
           A2 == Opt(l, Creates("member", <<"operatorSA">>))
           A3 == Opt(t, CreateTreeRelatedCRDs("member"))
           C == JoinControl("member")
           P == Creations("member", Added(t))
           Q == Creations("member", {"controlSA", "emptySecret", "kosmosRole"})
           R == Registration(l, t)
           S == P \cup Q \cup {R}
<1>1. A1 \in Seq(P) /\ Len(A1) = 1
  <2>1. <<"ns">> \in Seq(Added(t)) /\ Len(<<"ns">>) = 1
    BY DEF Added
  <2> QED BY <2>1, CreatesIn
<1>2. A2 \in Seq(P) /\ Len(A2) = IF l THEN 1 ELSE 0
  <2>0. "operatorSA" \in Added(t)
    BY DEF Added
  <2>1. <<"operatorSA">> \in Seq(Added(t)) /\ Len(<<"operatorSA">>) = 1
    BY <2>0
  <2>2. Creates("member", <<"operatorSA">>) \in Seq(P) /\ Len(Creates("member", <<"operatorSA">>)) = 1
    BY <2>1, CreatesIn
  <2> HIDE DEF P
  <2>3. CASE l
    BY <2>2, <2>3 DEF Opt
  <2>4. CASE ~l
    BY <2>4 DEF Opt
  <2> QED BY <2>3, <2>4
<1>3. A3 \in Seq(P) /\ Len(A3) = IF t THEN 1 ELSE 0
  <2>1. CASE t
    <3>1. <<"treeCRDs">> \in Seq(Added(t)) /\ Len(<<"treeCRDs">>) = 1
      BY <2>1 DEF Added
    <3>2. Creates("member", <<"treeCRDs">>) \in Seq(P) /\ Len(Creates("member", <<"treeCRDs">>)) = 1
      BY <3>1, CreatesIn
    <3> HIDE DEF P
    <3> QED BY <2>1, <3>2 DEF Opt, CreateTreeRelatedCRDs
  <2>2. CASE ~t
    <3> HIDE DEF P
    <3> QED BY <2>2 DEF Opt
  <2> QED BY <2>1, <2>2
<1>4. C \in Seq(Q) /\ Len(C) = 3
  <2>1. /\ <<"controlSA", "emptySecret", "kosmosRole">> \in Seq({"controlSA", "emptySecret", "kosmosRole"})
        /\ Len(<<"controlSA", "emptySecret", "kosmosRole">>) = 3
    OBVIOUS
  <2> QED BY <2>1, CreatesIn DEF JoinControl
<1>5. r \in Nat /\ r = 2 + (IF l THEN 1 ELSE 0) + (IF t THEN 1 ELSE 0)
  BY DEF RegAt
<1>6. JoinCluster("member", l, t) = ((((A1 \o A2) \o A3) \o <<R>>) \o C)
  BY DEF JoinCluster, Registration
<1> HIDE DEF A1, A2, A3, C, P, Q, R, r
<1>7. (A1 \o A2) \o A3 \in Seq(P) /\ Len((A1 \o A2) \o A3) = r - 1
  <2>1. A1 \o A2 \in Seq(P) /\ Len(A1 \o A2) = 1 + (IF l THEN 1 ELSE 0)
    <3>1. A1 \in Seq(P) /\ A2 \in Seq(P)
      BY <1>1, <1>2
    <3>2. A1 \o A2 \in Seq(P) /\ Len(A1 \o A2) = Len(A1) + Len(A2)
      BY <3>1, ConcatProperties
    <3> QED BY <1>1, <1>2, <3>2
  <2>2. PICK D : D = A1 \o A2
    OBVIOUS
  <2>3. D \o A3 \in Seq(P) /\ Len(D \o A3) = Len(D) + Len(A3)
    BY <1>3, <2>1, <2>2, ConcatProperties
  <2>4. Len(D) + Len(A3) = r - 1
    BY <1>3, <1>5, <2>1, <2>2
  <2> QED BY <2>2, <2>3, <2>4
<1>8. PICK A : A = (A1 \o A2) \o A3
  OBVIOUS
<1>9. A \in Seq(P) /\ Len(A) = r - 1 /\ \A i \in 1..(r - 1) : A[i] \in P
  BY <1>7, <1>8, <1>5
<1>10. /\ A \o <<R>> \in Seq(S) /\ Len(A \o <<R>>) = r /\ (A \o <<R>>)[r] = R
       /\ \A i \in 1..(r - 1) : (A \o <<R>>)[i] = A[i]
  <2>1. A \in Seq(S) /\ <<R>> \in Seq(S) /\ Len(<<R>>) = 1 /\ <<R>>[1] = R
    BY <1>9, SeqMonotonic
  <2> HIDE DEF S
  <2>2. /\ A \o <<R>> \in Seq(S) /\ Len(A \o <<R>>) = (r - 1) + 1
        /\ \A i \in 1..((r - 1) + 1) : (A \o <<R>>)[i] = IF i <= r - 1 THEN A[i] ELSE <<R>>[i - (r - 1)]
    BY <2>1, <1>9, ConcatProperties
  <2>3. r \in 1..((r - 1) + 1) /\ r - (r - 1) = 1 /\ ~(r <= r - 1)
    BY <1>5
  <2>4. (A \o <<R>>)[r] = R
    BY <2>1, <2>2, <2>3
  <2> QED BY <1>5, <2>2, <2>4
<1>11. PICK B : B = A \o <<R>>
  OBVIOUS
<1>12. /\ Len(B \o C) = r + 3
       /\ \A i \in 1..(r + 3) : (B \o C)[i] = IF i <= r THEN B[i] ELSE C[i - r]
  <2>1. B \in Seq(S) /\ C \in Seq(S) /\ Len(B) = r /\ Len(C) = 3
    BY <1>4, <1>10, <1>11, SeqMonotonic
  <2> HIDE DEF S
  <2>2. /\ Len(B \o C) = Len(B) + Len(C)
        /\ \A i \in 1..Len(B) + Len(C) : (B \o C)[i] = IF i <= Len(B) THEN B[i] ELSE C[i - Len(B)]
    BY <2>1, ConcatProperties
  <2> QED BY <2>1, <2>2
<1>13. \A i \in (r + 1)..(r + 3) : (B \o C)[i] \in Q
  <2> TAKE i \in (r + 1)..(r + 3)
  <2>1. i \in 1..(r + 3) /\ ~(i <= r) /\ i - r \in 1..3
    BY <1>5
  <2>2. (B \o C)[i] = C[i - r]
    BY <2>1, <1>12
  <2>3. C[i - r] \in Q
    BY <2>1, <1>4, ElementOfSeq
  <2> QED BY <2>2, <2>3
<1>14. \A i \in 1..(r - 1) : (B \o C)[i] \in P
  <2> TAKE i \in 1..(r - 1)
  <2>1. i \in 1..(r + 3) /\ i <= r
    BY <1>5
  <2> QED BY <2>1, <1>9, <1>10, <1>11, <1>12
<1>15. (B \o C)[r] = R
  <2>1. r \in 1..(r + 3) /\ r <= r
    BY <1>5
  <2> QED BY <2>1, <1>10, <1>11, <1>12
<1>16. JoinCluster("member", l, t) = B \o C
  BY <1>6, <1>8, <1>11
<1> QED BY <1>12, <1>13, <1>14, <1>15, <1>16 DEF r, P, Q, R

Linked(S, x, p, q) ==
  /\ x \in Seq(S) /\ Len(x) = Len(p) + Len(q)
  /\ \A i \in 1..Len(p) : x[i] = p[i]
  /\ \A i \in 1..Len(q) : x[Len(p) + i] = q[i]

(* The calls of two programs after each other.                             *)
LEMMA Cat ==
  ASSUME NEW S, NEW p \in Seq(S), NEW q \in Seq(S)
  PROVE  Linked(S, p \o q, p, q)
<1>1. /\ p \o q \in Seq(S) /\ Len(p \o q) = Len(p) + Len(q)
      /\ \A i \in 1..Len(p) + Len(q) : (p \o q)[i] = IF i <= Len(p) THEN p[i] ELSE q[i - Len(p)]
  BY ConcatProperties
<1>2. Len(p) \in Nat /\ Len(q) \in Nat
  OBVIOUS
<1>3. \A i \in 1..Len(p) : (p \o q)[i] = p[i]
  BY <1>1, <1>2
<1>4. ASSUME NEW i \in 1..Len(q) PROVE (p \o q)[Len(p) + i] = q[i]
  <2>1. Len(p) + i \in 1..Len(p) + Len(q) /\ ~(Len(p) + i <= Len(p)) /\ (Len(p) + i) - Len(p) = i
    BY <1>2
  <2> QED BY <1>1, <2>1
<1> QED BY <1>1, <1>3, <1>4 DEF Linked

(* Runs of one ...                                                         *)
LEMMA OneDelete ==
  ASSUME NEW c, NEW o \in Names
  PROVE  Deletes(c, <<o>>) \in Seq(Calls(c)) /\ Deletes(c, <<o>>) = <<Step("delete", c, o)>>
<1>1. Deletes(c, <<o>>) = <<Step("delete", c, o)>>
  BY DEF Deletes
<1>2. Step("delete", c, o) \in Calls(c)
  BY StepCall DEF Ops
<1> QED BY <1>1, <1>2, OneCall

(* ... two ...                                                             *)
LEMMA TwoDeletes ==
  ASSUME NEW c, NEW o \in Names, NEW u \in Names
  PROVE  Deletes(c, <<o, u>>) \in Seq(Calls(c)) /\ Deletes(c, <<o, u>>) = <<Step("delete", c, o), Step("delete", c, u)>>
<1>1. Deletes(c, <<o, u>>) = <<Step("delete", c, o), Step("delete", c, u)>>
  BY DEF Deletes
<1>2. <<o, u>> \in Seq(Names)
  OBVIOUS
<1> QED BY <1>1, <1>2, DeletesCalls

(* ... and three deletions.                                                *)
LEMMA ThreeDeletes ==
  ASSUME NEW c, NEW o \in Names, NEW u \in Names, NEW v \in Names
  PROVE  /\ Deletes(c, <<o, u, v>>) \in Seq(Calls(c))
         /\ Deletes(c, <<o, u, v>>) = <<Step("delete", c, o), Step("delete", c, u), Step("delete", c, v)>>
<1>1. Deletes(c, <<o, u, v>>) = <<Step("delete", c, o), Step("delete", c, u), Step("delete", c, v)>>
  BY DEF Deletes
<1>2. <<o, u, v>> \in Seq(Names)
  OBVIOUS
<1> QED BY <1>1, <1>2, DeletesCalls

Given(s, o) == [s EXCEPT !.only = o]

(* One call under a condition.                                             *)
LEMMA OneOnly ==
  ASSUME NEW c, NEW s \in Calls(c), NEW o \in Names
  PROVE  Only(o, <<s>>) \in Seq(Calls(c)) /\ Only(o, <<s>>) = <<Given(s, o)>>
<1>1. Only(o, <<s>>) = <<Given(s, o)>>
  BY DEF Only, Given
<1>2. <<s>> \in Seq(Calls(c))
  BY OneCall
<1> QED BY <1>1, <1>2, OnlyCalls

(* An unjoin of the member removes the Cluster first and the namespace     *)
(* last, and the CRDs of ClusterTree only if that was enabled.             *)
LEMMA UnjoinShape ==
  LET p == UnjoinCluster("member")
  IN  /\ Len(p) = 7
      /\ p[1] = Step("remove", "member", "cluster")
      /\ p[2] = Given(Step("delete", "member", "treeCRDs"), "tree")
      /\ p[3] = Step("delete", "member", "emptySecret")
      /\ p[4] = Step("delete", "member", "kosmosRole")
      /\ p[5] = Step("delete", "member", "controlSA")
      /\ p[6] = Given(Step("delete", "member", "operatorSA"), "link")
      /\ p[7] = Step("delete", "member", "ns")
<1> DEFINE R == <<Step("remove", "member", "cluster")>>
           T == Only("tree", Deletes("member", <<"treeCRDs">>))
           D == Deletes("member", <<"emptySecret", "kosmosRole", "controlSA">>)
           L == Only("link", Deletes("member", <<"operatorSA">>))
           N == Opt("member" # Host, Deletes("member", <<"ns">>))
           S == Calls("member")
<1>1. {"ns", "operatorSA", "treeCRDs", "emptySecret", "kosmosRole", "controlSA", "tree", "link", "cluster"} \subseteq Names
  BY DEF Names
<1>2. R \in Seq(S) /\ Len(R) = 1 /\ R[1] = Step("remove", "member", "cluster")
  <2>1. "cluster" \in Names
    BY <1>1
  <2> QED BY <2>1, StepCall, OneCall DEF Ops
<1>3. T \in Seq(S) /\ Len(T) = 1 /\ T[1] = Given(Step("delete", "member", "treeCRDs"), "tree")
  <2>1. "treeCRDs" \in Names /\ "tree" \in Names
    BY <1>1
  <2>2. Deletes("member", <<"treeCRDs">>) = <<Step("delete", "member", "treeCRDs")>> /\ Step("delete", "member", "treeCRDs") \in S
    BY <2>1, OneDelete, StepCall DEF Ops
  <2>3. T \in Seq(S) /\ T = <<Given(Step("delete", "member", "treeCRDs"), "tree")>>
    BY <2>1, <2>2, OneOnly
  <2> HIDE DEF T, S
  <2> QED BY <2>3
<1>4. /\ D \in Seq(S) /\ Len(D) = 3 /\ D[1] = Step("delete", "member", "emptySecret")
      /\ D[2] = Step("delete", "member", "kosmosRole") /\ D[3] = Step("delete", "member", "controlSA")
  <2>1. "emptySecret" \in Names /\ "kosmosRole" \in Names /\ "controlSA" \in Names
    BY <1>1
  <2>2. D \in Seq(S) /\ D = <<Step("delete", "member", "emptySecret"), Step("delete", "member", "kosmosRole"),
                             Step("delete", "member", "controlSA")>>
    BY <2>1, ThreeDeletes
  <2> HIDE DEF D, S
  <2> QED BY <2>2
<1>5. L \in Seq(S) /\ Len(L) = 1 /\ L[1] = Given(Step("delete", "member", "operatorSA"), "link")
  <2>1. "operatorSA" \in Names /\ "link" \in Names
    BY <1>1
  <2>2. Deletes("member", <<"operatorSA">>) = <<Step("delete", "member", "operatorSA")>> /\ Step("delete", "member", "operatorSA") \in S
    BY <2>1, OneDelete, StepCall DEF Ops
  <2>3. L \in Seq(S) /\ L = <<Given(Step("delete", "member", "operatorSA"), "link")>>
    BY <2>1, <2>2, OneOnly
  <2> HIDE DEF L, S
  <2> QED BY <2>3
<1>6. N \in Seq(S) /\ Len(N) = 1 /\ N[1] = Step("delete", "member", "ns")
  <2>1. N = Deletes("member", <<"ns">>) /\ "ns" \in Names
    BY <1>1 DEF Opt, Host
  <2>2. N \in Seq(S) /\ N = <<Step("delete", "member", "ns")>>
    BY <2>1, OneDelete
  <2> HIDE DEF N, S
  <2> QED BY <2>2
<1>7. UnjoinCluster("member") = (((R \o T) \o D) \o L) \o N
  BY DEF UnjoinCluster
<1> HIDE DEF R, T, D, L, N, S
<1>8. PICK a : a = R \o T
  OBVIOUS
<1>9. a \in Seq(S) /\ Len(a) = 2 /\ a[1] = R[1] /\ a[2] = T[1]
  <2>1. R \in Seq(S) /\ T \in Seq(S)
    BY <1>2, <1>3, <1>8
  <2>2. Linked(S, R \o T, R, T)
    BY <2>1, Cat
  <2> QED BY <1>2, <1>3, <1>8, <2>2 DEF Linked
<1>10. PICK b : b = a \o D
  OBVIOUS
<1>11. b \in Seq(S) /\ Len(b) = 5 /\ b[1] = a[1] /\ b[2] = a[2] /\ b[3] = D[1] /\ b[4] = D[2] /\ b[5] = D[3]
  <2>1. a \in Seq(S) /\ D \in Seq(S)
    BY <1>4, <1>9, <1>10
  <2>2. Linked(S, a \o D, a, D)
    BY <2>1, Cat
  <2> QED BY <1>4, <1>9, <1>10, <2>2 DEF Linked
<1>12. PICK d : d = b \o L
  OBVIOUS
<1>13. d \in Seq(S) /\ Len(d) = 6 /\ d[6] = L[1] /\ \A i \in 1..5 : d[i] = b[i]
  <2>1. b \in Seq(S) /\ L \in Seq(S)
    BY <1>5, <1>11, <1>12
  <2>2. Linked(S, b \o L, b, L)
    BY <2>1, Cat
  <2> QED BY <1>5, <1>11, <1>12, <2>2 DEF Linked
<1>14. Len(d \o N) = 7 /\ (d \o N)[7] = N[1] /\ \A i \in 1..6 : (d \o N)[i] = d[i]
  <2>1. d \in Seq(S) /\ N \in Seq(S)
    BY <1>6, <1>13
  <2>2. Linked(S, d \o N, d, N)
    BY <2>1, Cat
  <2> QED BY <1>6, <1>13, <2>2 DEF Linked
<1>15. UnjoinCluster("member") = d \o N
  BY <1>7, <1>8, <1>10, <1>12
<1>16. PICK p : p = d \o N
  OBVIOUS
<1>17. Len(p) = 7 /\ p[7] = N[1] /\ \A i \in 1..6 : p[i] = d[i]
  BY <1>14, <1>16
<1>18. p[6] = L[1] /\ \A i \in 1..5 : p[i] = b[i]
  BY <1>13, <1>17
<1>19. p[1] = R[1] /\ p[2] = T[1] /\ p[3] = D[1] /\ p[4] = D[2] /\ p[5] = D[3]
  BY <1>9, <1>11, <1>18
<1> QED BY <1>2, <1>3, <1>4, <1>5, <1>6, <1>15, <1>16, <1>17, <1>18, <1>19

AddonNames == {"ns", "proxySecret", "proxy", "agent", "elector", "electorRole", "manager", "managerRole"}

(* The operator installs only add-ons ...                                  *)
LEMMA InstallShape == ASSUME NEW c PROVE Install(c) \in Seq(Creations(c, AddonNames))
<1> DEFINE S == Creations(c, AddonNames)
<1>1. /\ <<"ns">> \in Seq(AddonNames) /\ <<"proxySecret">> \in Seq(AddonNames) /\ <<"agent">> \in Seq(AddonNames)
      /\ <<"elector", "electorRole">> \in Seq(AddonNames) /\ <<"manager", "managerRole">> \in Seq(AddonNames)
      /\ <<"proxy">> \in Seq(AddonNames)
  BY DEF AddonNames
<1>2. <<"proxySecret">> \o <<"proxy">> \in Seq(AddonNames)
  BY <1>1, ConcatProperties
<1>3. GlobalInstall(c) \in Seq(S) /\ ElectorInstall(c) \in Seq(S) /\ ManagerInstall(c) \in Seq(S)
  BY <1>1, CreatesIn DEF GlobalInstall, ElectorInstall, ManagerInstall, ElectorAddon, ManagerAddon
<1>4. ProxyInstall(c) \in Seq(S)
  <2>1. Creates(c, <<"proxySecret">> \o ProxyAddon) \in Seq(S)
    BY <1>2, CreatesIn DEF ProxyAddon
  <2> HIDE DEF S
  <2> QED BY <2>1 DEF ProxyInstall, Opt
<1>5. AgentInstall(c) \in Seq(S)
  <2>1. Creates(c, <<"proxySecret">>) \in Seq(S) /\ Creates(c, AgentAddon) \in Seq(S)
    BY <1>1, CreatesIn DEF AgentAddon
  <2> HIDE DEF S
  <2>2. Opt(~UseProxy, Creates(c, <<"proxySecret">>)) \in Seq(S)
    BY <2>1 DEF Opt
  <2> QED BY <2>1, <2>2, ConcatProperties DEF AgentInstall
<1> HIDE DEF S
<1>6. GlobalInstall(c) \o ProxyInstall(c) \in Seq(S)
  BY <1>3, <1>4, ConcatProperties
<1>7. (GlobalInstall(c) \o ProxyInstall(c)) \o AgentInstall(c) \in Seq(S)
  BY <1>5, <1>6, ConcatProperties
<1>8. ((GlobalInstall(c) \o ProxyInstall(c)) \o AgentInstall(c)) \o ElectorInstall(c) \in Seq(S)
  BY <1>3, <1>7, ConcatProperties
<1>9. (((GlobalInstall(c) \o ProxyInstall(c)) \o AgentInstall(c)) \o ElectorInstall(c)) \o ManagerInstall(c) \in Seq(S)
  BY <1>3, <1>8, ConcatProperties
<1> QED BY <1>9 DEF Install, S

(* ... and deletes both roles when it uninstalls them.                     *)
LEMMA UninstallShape ==
  ASSUME NEW c
  PROVE  LET p == Uninstall(c)
         IN  /\ p \in Seq(Calls(c)) /\ Len(p) = 6
             /\ \A i \in 1..6 : p[i].op = "delete"
             /\ p[2].obj = "managerRole" /\ p[4].obj = "electorRole"
<1> DEFINE S == Calls(c)
           M == ManagerUninstall(c)
           E == ElectorUninstall(c)
           A == AgentUninstall(c)
           P == ProxyUninstall(c)
<1>1. {"agent", "proxy", "elector", "electorRole", "manager", "managerRole"} \subseteq Names
  BY DEF Names
<1>2. M \in Seq(S) /\ Len(M) = 2 /\ M[1].op = "delete" /\ M[2].op = "delete" /\ M[2].obj = "managerRole"
  <2>1. "manager" \in Names /\ "managerRole" \in Names
    BY <1>1
  <2>2. M \in Seq(S) /\ M = <<Step("delete", c, "manager"), Step("delete", c, "managerRole")>>
    BY <2>1, TwoDeletes DEF ManagerUninstall, ManagerAddon
  <2> HIDE DEF M, S
  <2> QED BY <2>2 DEF Step
<1>3. E \in Seq(S) /\ Len(E) = 2 /\ E[1].op = "delete" /\ E[2].op = "delete" /\ E[2].obj = "electorRole"
  <2>1. "elector" \in Names /\ "electorRole" \in Names
    BY <1>1
  <2>2. E \in Seq(S) /\ E = <<Step("delete", c, "elector"), Step("delete", c, "electorRole")>>
    BY <2>1, TwoDeletes DEF ElectorUninstall, ElectorAddon
  <2> HIDE DEF E, S
  <2> QED BY <2>2 DEF Step
<1>4. A \in Seq(S) /\ Len(A) = 1 /\ A[1].op = "delete"
  <2>1. "agent" \in Names
    BY <1>1
  <2>2. A \in Seq(S) /\ A = <<Step("delete", c, "agent")>>
    BY <2>1, OneDelete DEF AgentUninstall, AgentAddon
  <2> HIDE DEF A, S
  <2> QED BY <2>2 DEF Step
<1>5. P \in Seq(S) /\ Len(P) = 1 /\ P[1].op = "delete"
  <2>1. "proxy" \in Names
    BY <1>1
  <2>2. P \in Seq(S) /\ P = <<Step("delete", c, "proxy")>>
    BY <2>1, OneDelete DEF ProxyUninstall, ProxyAddon
  <2> HIDE DEF P, S
  <2> QED BY <2>2 DEF Step
<1>6. Uninstall(c) = ((M \o E) \o A) \o P
  BY DEF Uninstall
<1> HIDE DEF M, E, A, P, S
<1>7. PICK a : a = M \o E
  OBVIOUS
<1>8. a \in Seq(S) /\ Len(a) = 4 /\ a[1] = M[1] /\ a[2] = M[2] /\ a[3] = E[1] /\ a[4] = E[2]
  <2>1. M \in Seq(S) /\ E \in Seq(S)
    BY <1>2, <1>3, <1>7
  <2>2. Linked(S, M \o E, M, E)
    BY <2>1, Cat
  <2> QED BY <1>2, <1>3, <1>7, <2>2 DEF Linked
<1>9. PICK b : b = a \o A
  OBVIOUS
<1>10. b \in Seq(S) /\ Len(b) = 5 /\ b[5] = A[1] /\ \A i \in 1..4 : b[i] = a[i]
  <2>1. a \in Seq(S) /\ A \in Seq(S)
    BY <1>4, <1>8, <1>9
  <2>2. Linked(S, a \o A, a, A)
    BY <2>1, Cat
  <2> QED BY <1>4, <1>8, <1>9, <2>2 DEF Linked
<1>11. b \o P \in Seq(S) /\ Len(b \o P) = 6 /\ (b \o P)[6] = P[1] /\ \A i \in 1..5 : (b \o P)[i] = b[i]
  <2>1. b \in Seq(S) /\ P \in Seq(S)
    BY <1>5, <1>10
  <2>2. Linked(S, b \o P, b, P)
    BY <2>1, Cat
  <2> QED BY <1>5, <1>10, <2>2 DEF Linked
<1>12. /\ (b \o P)[1] = M[1] /\ (b \o P)[2] = M[2] /\ (b \o P)[3] = E[1]
       /\ (b \o P)[4] = E[2] /\ (b \o P)[5] = A[1] /\ (b \o P)[6] = P[1]
  <2>1. PICK u : u = b \o P
    OBVIOUS
  <2>2. u[1] = b[1] /\ u[2] = b[2] /\ u[3] = b[3] /\ u[4] = b[4] /\ u[5] = b[5] /\ u[6] = P[1]
    <3>1. (\A i \in 1..5 : u[i] = b[i]) /\ u[6] = P[1]
      BY <1>11, <2>1
    <3>2. 1 \in 1..5 /\ 2 \in 1..5 /\ 3 \in 1..5 /\ 4 \in 1..5 /\ 5 \in 1..5
      OBVIOUS
    <3> QED BY <3>1, <3>2
  <2>3. b[1] = a[1] /\ b[2] = a[2] /\ b[3] = a[3] /\ b[4] = a[4] /\ b[5] = A[1]
    BY <1>10
  <2> QED BY <1>8, <2>1, <2>2, <2>3
<1>13. Uninstall(c) = b \o P
  BY <1>6, <1>7, <1>9
<1>14. \A i \in 1..6 : (b \o P)[i].op = "delete"
  <2>1. \A i \in 1..6 : i = 1 \/ i = 2 \/ i = 3 \/ i = 4 \/ i = 5 \/ i = 6
    OBVIOUS
  <2>2. (b \o P)[1].op = "delete" /\ (b \o P)[2].op = "delete"
    BY <1>2, <1>12
  <2>3. (b \o P)[3].op = "delete" /\ (b \o P)[4].op = "delete"
    BY <1>3, <1>12
  <2>4. (b \o P)[5].op = "delete" /\ (b \o P)[6].op = "delete"
    BY <1>4, <1>5, <1>12
  <2> QED BY <2>1, <2>2, <2>3, <2>4
<1> QED BY <1>2, <1>3, <1>11, <1>12, <1>13, <1>14 DEF S

Commands == Installs \cup Uninstalls \cup Joins \cup Unjoins \cup {"none"}

(* The program of every command.                                           *)
LEMMA ProgramOf ==
  /\ Programs["install clusterlink"] = InstallClusterlink \o CreateControlCluster(TRUE, FALSE)
  /\ Programs["install clustertree"] = InstallClustertree \o CreateControlCluster(FALSE, TRUE)
  /\ Programs["install scheduler"] = InstallScheduler /\ Programs["install coredns"] = InstallCoreDNS
  /\ Programs["install all"] = InstallClusterlink \o InstallClustertree \o CreateControlCluster(TRUE, TRUE)
  /\ Programs["uninstall clusterlink"] = UninstallClusterlink
  /\ Programs["uninstall clustertree"] = UninstallClustertree
  /\ Programs["uninstall scheduler"] = UninstallScheduler
  /\ Programs["uninstall coredns"] = UninstallCoredns
  /\ Programs["uninstall all"] = UninstallAll
  /\ Programs["join link"] = JoinCluster("member", TRUE, FALSE)
  /\ Programs["join tree"] = JoinCluster("member", FALSE, TRUE)
  /\ Programs["join all"] = JoinCluster("member", TRUE, TRUE)
  /\ Programs["unjoin host"] = UnjoinCluster(Host)
  /\ Programs["unjoin member"] = UnjoinCluster("member")
  /\ Programs["none"] = <<>>
BY JoinNames DEF Programs, Installs, Uninstalls, Unjoins

(* The cluster of every command.                                           *)
LEMMA TargetOf ==
  /\ \A cmd \in Joins : Target(cmd) = "member"
  /\ Target("unjoin member") = "member"
  /\ \A cmd \in Commands \ (Joins \cup {"unjoin member"}) : Target(cmd) = Host
BY DEF Target

(* Every command makes its calls to one cluster.                           *)
LEMMA ProgramCalls == ASSUME NEW cmd \in Commands PROVE Programs[cmd] \in Seq(Calls(Target(cmd)))
<1>1. CASE cmd \in Joins
  <2>1. Target(cmd) = "member"
    BY <1>1, TargetOf
  <2>2. Programs[cmd] \in Seq(Calls("member"))
    BY <1>1, JoinNames, ProgramOf, JoinClusterCalls
  <2> QED BY <2>1, <2>2
<1>2. CASE cmd = "unjoin member"
  BY <1>2, TargetOf, ProgramOf, UnjoinCalls
<1>3. CASE cmd \notin Joins \cup {"unjoin member"}
  <2>1. Target(cmd) = Host
    BY <1>3, TargetOf
  <2>2. CASE cmd = "none"
    BY <2>1, <2>2, ProgramOf, EmptySeq
  <2>3. CASE cmd \in Installs
    <3>1. CASE cmd = "install clusterlink"
      BY <2>1, <3>1, ProgramOf, InstallCalls, ControlCalls, JoinCalls
    <3>2. CASE cmd = "install clustertree"
      BY <2>1, <3>2, ProgramOf, InstallCalls, ControlCalls, JoinCalls
    <3>3. CASE cmd = "install scheduler"
      BY <2>1, <3>3, ProgramOf, MoreInstallCalls
    <3>4. CASE cmd = "install coredns"
      BY <2>1, <3>4, ProgramOf, MoreInstallCalls
    <3>5. CASE cmd = "install all"
      <4>1. InstallClusterlink \o InstallClustertree \in Seq(Calls(Host)) /\ CreateControlCluster(TRUE, TRUE) \in Seq(Calls(Host))
        BY InstallCalls, ControlCalls, JoinCalls
      <4>2. InstallClusterlink \o InstallClustertree \o CreateControlCluster(TRUE, TRUE) \in Seq(Calls(Host))
        BY <4>1, JoinCalls
      <4> QED BY <2>1, <3>5, <4>2, ProgramOf
    <3> QED BY <2>3, <3>1, <3>2, <3>3, <3>4, <3>5 DEF Installs
  <2>4. CASE cmd \in Uninstalls
    BY <2>1, <2>4, ProgramOf, UninstallCalls DEF Uninstalls
  <2>5. CASE cmd = "unjoin host"
    BY <2>1, <2>5, ProgramOf, UnjoinCalls
  <2> QED BY <1>3, <2>2, <2>3, <2>4, <2>5 DEF Commands, Unjoins
<1> QED BY <1>1, <1>2, <1>3

(* Where a command is: at its next call that is due, or past its program.  *)
LEMMA PositionIs ==
  ASSUME NEW j, j.cmd \in Commands, j.at \in Nat, 1 <= j.at, j.at <= Len(Programs[j.cmd]) + 1
  PROVE  LET p == Programs[j.cmd]
         IN  /\ Position(j) \in j.at..(Len(p) + 1)
             /\ Position(j) # Len(p) + 1 => Due(p[Position(j)], j)
             /\ \A h \in j.at..(Position(j) - 1) : ~Due(p[h], j)
<1> DEFINE p == Programs[j.cmd]
           Past == Len(p) + 1
           T == {i \in j.at..Past : i = Past \/ Due(p[i], j)}
           Is(i) == (i = Past \/ Due(p[i], j)) /\ \A h \in j.at..(i - 1) : ~Due(p[h], j)
<1>1. Len(p) \in Nat
  BY ProgramCalls, LenProperties
<1>2. T \subseteq Nat /\ Past \in T
  BY <1>1
<1>3. PICK x \in T : \A y \in T : x <= y
  BY <1>2, Least
<1>4. x \in j.at..Past /\ (x = Past \/ Due(p[x], j))
  BY <1>3
<1>5. ASSUME NEW h \in j.at..(x - 1) PROVE ~Due(p[h], j)
  <2>1. h \in j.at..Past /\ ~(x <= h)
    BY <1>1, <1>4
  <2> QED BY <1>3, <2>1
<1>6. x \in j.at..Past /\ Is(x)
  BY <1>4, <1>5
<1>7. Position(j) = CHOOSE i \in j.at..Past : Is(i)
  BY DEF Position
<1> HIDE DEF Is, Past, T
<1>8. Position(j) \in j.at..Past /\ Is(Position(j))
  BY <1>6, <1>7
<1> QED BY <1>8 DEF Is, Past

Reg(cmd) == IF cmd = "join all" THEN 4 ELSE 3
Trees(cmd) == cmd # "join link"
Links(cmd) == cmd # "join tree"

(* The three joins, call by call.                                          *)
LEMMA JoinProgram ==
  ASSUME NEW cmd \in Joins
  PROVE  LET p == Programs[cmd]
             r == Reg(cmd)
         IN  /\ Len(p) = r + 3
             /\ \A i \in 1..(r - 1) : p[i] \in Creations("member", Added(Trees(cmd)))
             /\ p[r] = Registration(Links(cmd), Trees(cmd))
             /\ \A i \in (r + 1)..(r + 3) : p[i] \in Creations("member", {"controlSA", "emptySecret", "kosmosRole"})
<1>1. CASE cmd = "join all"
  <2>1. Programs[cmd] = JoinCluster("member", TRUE, TRUE) /\ Reg(cmd) = RegAt(TRUE, TRUE) /\ Trees(cmd) = TRUE /\ Links(cmd) = TRUE
    BY <1>1, ProgramOf DEF Reg, RegAt, Trees, Links
  <2> QED BY <2>1, JoinShape
<1>2. CASE cmd = "join link"
  <2>1. Programs[cmd] = JoinCluster("member", TRUE, FALSE) /\ Reg(cmd) = RegAt(TRUE, FALSE) /\ Trees(cmd) = FALSE /\ Links(cmd) = TRUE
    BY <1>2, ProgramOf DEF Reg, RegAt, Trees, Links
  <2> QED BY <2>1, JoinShape
<1>3. CASE cmd = "join tree"
  <2>1. Programs[cmd] = JoinCluster("member", FALSE, TRUE) /\ Reg(cmd) = RegAt(FALSE, TRUE) /\ Trees(cmd) = TRUE /\ Links(cmd) = FALSE
    BY <1>3, ProgramOf DEF Reg, RegAt, Trees, Links
  <2> QED BY <2>1, JoinShape
<1> QED BY <1>1, <1>2, <1>3, JoinNames

(* A call that is due is made next.                                        *)
LEMMA DueIsNext ==
  ASSUME NEW j, j.cmd \in Commands, j.at \in Nat, 1 <= j.at, j.at <= Len(Programs[j.cmd]),
         Due(Programs[j.cmd][j.at], j)
  PROVE  Position(j) = j.at
<1>1. Len(Programs[j.cmd]) \in Nat
  BY ProgramCalls, LenProperties
<1>2. /\ Position(j) \in j.at..(Len(Programs[j.cmd]) + 1)
      /\ \A h \in j.at..(Position(j) - 1) : ~Due(Programs[j.cmd][h], j)
  BY <1>1, PositionIs
<1>3. ASSUME Position(j) # j.at PROVE FALSE
  <2>1. j.at \in j.at..(Position(j) - 1)
    BY <1>1, <1>2, <1>3
  <2> QED BY <1>2, <2>1
<1> QED BY <1>3

ClusterRec ==
  [link : BOOLEAN, tree : BOOLEAN, deleting : BOOLEAN, finalizers : SUBSET {"operator", "tree"}, there : BOOLEAN]
RunningRec == [cmd : Commands, at : Nat, seen : SUBSET Names, was : ClusterRec, late : BOOLEAN]
NowRec == [on : Members, mode : {"idle", "syncCluster", "removeCluster"}, at : Nat \ {0}, was : ClusterRec]
OperatorRec == [up : BOOLEAN, due : SUBSET Members, now : NowRec, config : {"empty", "panel"}]

DeployTypeOK ==
  /\ objects \in [Members -> SUBSET Names]
  /\ crs \in [Members -> ClusterRec]
  /\ running \in RunningRec
  /\ 1 <= running.at /\ running.at <= Len(Programs[running.cmd]) + 1
  /\ operator \in OperatorRec
  /\ begun \subseteq Members /\ halted \subseteq Members

InMember == objects["member"]
Unjoining == running.cmd = "unjoin member"
MemberNames ==
  {"ns", "nsEnding", "operatorSA", "treeCRDs", "controlSA", "emptySecret", "kosmosRole", "proxySecret", "emptyProxySecret",
   "proxy", "agent", "elector", "electorRole", "manager", "managerRole"}
InMode(m) == operator.now.mode = m /\ operator.now.on = "member"

(* What belongs to a namespace is there only with one.                     *)
Housed(S) == S \cap Namespace # {} \/ S \subseteq ClusterWide

(* What is in the member, and what the operator has read.                  *)
Placed ==
  /\ InMember \subseteq MemberNames /\ Housed(InMember)
  /\ crs["member"].there \/ crs["member"] = NoCluster
  /\ operator.now.mode # "idle" => operator.now.was.there
  /\ operator.now.mode = "removeCluster" => operator.now.was.deleting

(* The roles of the add-ons are in the member, or about to come, only      *)
(* while the operator holds the Cluster or has not got its finalizer.      *)
Held ==
  /\ {"electorRole", "managerRole"} \cap InMember # {} =>
       "operator" \in crs["member"].finalizers \/ "member" \in begun
  /\ InMode("syncCluster") =>
       IF "operator" \in operator.now.was.finalizers THEN "operator" \in crs["member"].finalizers
       ELSE "member" \in begun
  /\ InMode("removeCluster") =>
       /\ operator.now.at > 2 => "managerRole" \notin InMember
       /\ operator.now.at > 4 => "electorRole" \notin InMember

(* Only an unjoin deletes the Cluster, and it knows of ClusterTree if it   *)
(* could read the Cluster.                                                 *)
Known ==
  /\ Unjoining => /\ crs["member"].there => running.at = 1
                  /\ crs["member"].tree /\ "member" \notin halted => "tree" \in running.seen
  /\ crs["member"].deleting /\ "member" \notin halted => Unjoining

(* The CRDs of ClusterTree belong to a Cluster, or to a command that is    *)
(* about to register it or to delete them.                                 *)
Owned ==
  "treeCRDs" \in InMember /\ "member" \notin halted =>
    \/ crs["member"].tree
    \/ running.cmd \in Joins /\ Trees(running.cmd) /\ running.at <= Reg(running.cmd)
    \/ Unjoining /\ "tree" \in running.seen /\ running.at <= 2

(* What an unjoin has deleted stays away, unless the operator brings the   *)
(* namespace back before it had its finalizer.                             *)
Cleared ==
  Unjoining =>
    /\ running.at > 4 => "kosmosRole" \notin InMember
    /\ running.at > 7 => \/ "ns" \notin InMember
                         \/ "member" \in begun /\ ~InMode("removeCluster")

DeployInv == DeployTypeOK /\ Placed /\ Held /\ Known /\ Owned /\ Cleared

(* A call without a condition is always due.                               *)
LEMMA StepDue == ASSUME NEW op, NEW c, NEW o, NEW j PROVE Due(Step(op, c, o), j)
BY DEF Due, Step

(* An unjoin that returns is past its last call, which is always due.      *)
LEMMA UnjoinReturned ==
  ASSUME NEW j, j.cmd \in Commands, Programs[j.cmd] = UnjoinCluster("member"),
         j.at \in Nat, 1 <= j.at, j.at <= Len(Programs[j.cmd]) + 1, Returned(j)
  PROVE  j.at > 7
<1>1. Len(Programs[j.cmd]) = 7 /\ Programs[j.cmd][7] = Step("delete", "member", "ns")
  BY UnjoinShape
<1>2. Due(Programs[j.cmd][7], j)
  BY <1>1, StepDue
<1>3. Position(j) = 8 /\ \A h \in j.at..(Position(j) - 1) : ~Due(Programs[j.cmd][h], j)
  <2>1. Position(j) = Len(Programs[j.cmd]) + 1
    BY DEF Returned
  <2>2. \A h \in j.at..(Position(j) - 1) : ~Due(Programs[j.cmd][h], j)
    BY PositionIs
  <2> QED BY <1>1, <2>1, <2>2
<1>4. ASSUME j.at <= 7 PROVE FALSE
  <2>1. 7 \in j.at..(Position(j) - 1)
    BY <1>3, <1>4
  <2> QED BY <1>2, <1>3, <2>1
<1> QED BY <1>4

(* The invariant says what an unjoin that returns has left behind.         *)
LEMMA InvEnough == DeployInv => UnjoinLeavesNothing
<1> SUFFICES ASSUME DeployInv, Returned(running), Unjoining, "member" \notin begun
             PROVE  Lasting("member") \subseteq IF "member" \in halted THEN {"treeCRDs"} ELSE {}
  BY DEF UnjoinLeavesNothing, Unjoining
<1>1. running.at > 7 /\ running.at \in Nat
  <2>1. Programs[running.cmd] = UnjoinCluster("member")
    BY ProgramOf DEF Unjoining
  <2> QED BY <2>1, UnjoinReturned DEF DeployInv, DeployTypeOK, RunningRec
<1>2. crs["member"] = NoCluster
  BY <1>1 DEF DeployInv, Known, Placed
<1>3. "electorRole" \notin InMember /\ "managerRole" \notin InMember
  BY <1>2 DEF DeployInv, Held, NoCluster
<1>4. "ns" \notin InMember /\ "kosmosRole" \notin InMember
  BY <1>1 DEF DeployInv, Cleared
<1>5. InMember \subseteq MemberNames /\ Housed(InMember)
  BY DEF DeployInv, Placed
<1>6. Lasting("member") \subseteq {"treeCRDs"}
  <2>1. Lasting("member") \subseteq InMember /\ "nsEnding" \notin Lasting("member")
    BY DEF Lasting, InMember
  <2>2. Lasting("member") \subseteq ClusterWide
    BY <1>4, <1>5 DEF Lasting, InMember, Housed, Namespace
  <2> QED BY <1>3, <1>4, <1>5, <2>1, <2>2 DEF ClusterWide, Roles, MemberNames
<1>7. ASSUME "member" \notin halted PROVE "treeCRDs" \notin Lasting("member")
  <2>1. running.cmd \notin Joins /\ ~(running.at <= 2) /\ ~NoCluster.tree
    <3>1. running.cmd \notin Joins
      BY JoinNames DEF Unjoining
    <3> QED BY <1>1, <3>1 DEF NoCluster
  <2>2. "treeCRDs" \notin InMember
    BY <1>2, <1>7, <2>1 DEF DeployInv, Owned
  <2> QED BY <2>2 DEF Lasting, InMember
<1> QED BY <1>6, <1>7

(* What the resting states are.                                            *)
LEMMA Constants ==
  /\ NoCluster \in ClusterRec /\ NoCommand \in RunningRec /\ Resting \in NowRec /\ Down \in OperatorRec
  /\ NoCommand.cmd = "none" /\ NoCommand.at = 1 /\ Len(Programs["none"]) = 0
  /\ Down.now = Resting /\ Resting.mode = "idle" /\ Resting.at = 1
<1>1. NoCluster \in ClusterRec
  BY DEF NoCluster, ClusterRec
<1>2. NoCommand \in RunningRec /\ NoCommand.cmd = "none" /\ NoCommand.at = 1
  BY <1>1 DEF NoCommand, RunningRec, Commands
<1>3. Resting \in NowRec /\ Resting.mode = "idle" /\ Resting.at = 1
  BY <1>1 DEF Resting, NowRec, Host, Members
<1>4. Down \in OperatorRec /\ Down.now = Resting
  BY <1>3 DEF Down, OperatorRec
<1>5. Len(Programs["none"]) = 0
  <2>1. Programs["none"] = <<>>
    BY ProgramOf
  <2> QED BY <2>1, EmptySeq
<1> QED BY <1>1, <1>2, <1>3, <1>4, <1>5

(* A command that has ended leaves the administrator at rest.              *)
LEMMA Idled ==
  ASSUME running' = NoCommand
  PROVE  running' \in RunningRec /\ 1 <= running'.at /\ running'.at <= Len(Programs[running'.cmd]) + 1
BY Constants

(* The add-ons by name.                                                    *)
LEMMA AddonsAre == ASSUME NEW c PROVE Addons(c) \subseteq AddonNames
<1>1. \A i \in 1..Len(Install(c)) : Install(c)[i] \in Creations(c, AddonNames)
  BY InstallShape, ElementOfSeq
<1>2. \A s \in Creations(c, AddonNames) : s.obj \in AddonNames
  <2> TAKE s \in Creations(c, AddonNames)
  <2>1. PICK o \in AddonNames : s = Step("create", c, o)
    BY DEF Creations
  <2>2. s.obj = o
    BY <2>1 DEF Step
  <2> QED BY <2>1, <2>2
<1> QED BY <1>1, <1>2 DEF Addons

(* What a full installation has put into the clusters.                     *)
LEMMA EverythingIs == Everything["member"] \subseteq MemberNames /\ Everything[Host] \subseteq Names
<1>1. Everything["member"] = {"ns", "operatorSA", "treeCRDs", "controlSA", "emptySecret", "kosmosRole"}
  BY DEF Everything, Host, Members
<1>2. Everything[Host] \subseteq Names
  <2>1. Everything[Host] = NetManagerNeeds \cup OperatorNeeds \cup TreeNeeds \cup SchedulerNeeds \cup CoreDNSNeeds
           \cup {"netManager", "operator", "treeManager", "scheduler", "coredns", "dnsService",
                 "panelSecret", "treeCRDs", "controlSA"}
    BY DEF Everything, Host, Members
  <2> QED BY <2>1 DEF Names, NetManagerNeeds, OperatorNeeds, TreeNeeds, SchedulerNeeds, CoreDNSNeeds
<1> QED BY <1>1, <1>2 DEF MemberNames

(* The member's objects and the add-ons have names.                        *)
LEMMA NamesOf == MemberNames \subseteq Names /\ AddonNames \subseteq MemberNames
BY DEF MemberNames, Names, AddonNames

(* The invariant holds when the administrator starts.                      *)
LEMMA DeployStarts == DeployInit => DeployInv
<1> SUFFICES ASSUME DeployInit PROVE DeployInv
  OBVIOUS
<1>1. running = NoCommand /\ begun = {} /\ halted = {}
  BY DEF DeployInit
<1>2. running \in RunningRec /\ 1 <= running.at /\ running.at <= Len(Programs[running.cmd]) + 1 /\ running.cmd = "none"
  BY <1>1, Constants
<1>3. ~Unjoining /\ running.cmd \notin Joins
  BY <1>2, JoinNames DEF Unjoining
<1>4. CASE objects = Nothing /\ crs = [c \in Members |-> NoCluster] /\ operator = Down
  <2>5. Housed({})
    BY DEF Housed
  <2>1. objects \in [Members -> SUBSET Names] /\ InMember = {} /\ crs \in [Members -> ClusterRec] /\ crs["member"] = NoCluster
    BY <1>4, Constants DEF Nothing, Members, InMember
  <2>2. operator \in OperatorRec /\ operator.now.mode = "idle" /\ operator.now.at = 1
    BY <1>4, Constants
  <2>3. ~InMode("syncCluster") /\ ~InMode("removeCluster")
    BY <2>2 DEF InMode
  <2>4. ~crs["member"].deleting
    BY <2>1 DEF NoCluster
  <2> QED BY <1>1, <1>2, <1>3, <2>1, <2>2, <2>3, <2>4, <2>5
          DEF DeployInv, DeployTypeOK, Placed, Held, Known, Owned, Cleared
<1>5. ASSUME NEW had \in {Members, {Host}},
             objects = [c \in Members |-> IF c \in had THEN Everything[c] \cup Addons(c) ELSE {}],
             crs = [c \in Members |->
                  IF c \notin had THEN NoCluster
                  ELSE [there |-> TRUE, link |-> TRUE, tree |-> TRUE, deleting |-> FALSE,
                        finalizers |-> IF c = Host THEN {"operator"} ELSE {"operator", "tree"}]],
             operator = [Down EXCEPT !.up = TRUE, !.config = "panel"]
      PROVE  DeployInv
  <2>1. \A c \in Members : Everything[c] \cup Addons(c) \subseteq Names
    BY AddonsAre, EverythingIs, NamesOf DEF Members, Host
  <2>2. objects \in [Members -> SUBSET Names]
    BY <1>5, <2>1
  <2>3. InMember \subseteq MemberNames /\ ("member" \notin had => InMember = {}) /\ Housed(InMember)
    <3>1. InMember \subseteq MemberNames /\ ("member" \notin had => InMember = {})
      BY <1>5, AddonsAre, EverythingIs, NamesOf DEF InMember, Members
    <3>2. "member" \in had => "ns" \in InMember
      BY <1>5 DEF InMember, Members, Everything, Host
    <3> QED BY <3>1, <3>2 DEF Housed, Namespace
  <2>4. crs \in [Members -> ClusterRec]
    <3>1. ASSUME NEW c \in Members
          PROVE  [there |-> TRUE, link |-> TRUE, tree |-> TRUE, deleting |-> FALSE,
                  finalizers |-> IF c = Host THEN {"operator"} ELSE {"operator", "tree"}] \in ClusterRec
      BY DEF ClusterRec
    <3> QED BY <1>5, <3>1, Constants
  <2>5. CASE "member" \in had
    <3>1. crs["member"].there /\ crs["member"].tree /\ ~crs["member"].deleting /\ "operator" \in crs["member"].finalizers
      BY <1>5, <2>5 DEF Members, Host
    <3>2. operator \in OperatorRec /\ operator.now = Resting
      BY <1>5, Constants DEF OperatorRec
    <3>3. operator.now.mode = "idle" /\ operator.now.at = 1
      BY <3>2, Constants
    <3>4. ~InMode("syncCluster") /\ ~InMode("removeCluster")
      BY <3>3 DEF InMode
    <3> QED BY <1>1, <1>2, <1>3, <2>2, <2>3, <2>4, <3>1, <3>2, <3>3, <3>4
            DEF DeployInv, DeployTypeOK, Placed, Held, Known, Owned, Cleared
  <2>6. CASE "member" \notin had
    <3>1. crs["member"] = NoCluster /\ ~crs["member"].deleting
      BY <1>5, <2>6 DEF Members, Host, NoCluster
    <3>2. operator \in OperatorRec /\ operator.now = Resting
      BY <1>5, Constants DEF OperatorRec
    <3>3. operator.now.mode = "idle" /\ operator.now.at = 1
      BY <3>2, Constants
    <3>4. ~InMode("syncCluster") /\ ~InMode("removeCluster")
      BY <3>3 DEF InMode
    <3> QED BY <1>1, <1>2, <1>3, <2>2, <2>3, <2>4, <2>6, <3>1, <3>2, <3>3, <3>4
            DEF DeployInv, DeployTypeOK, Placed, Held, Known, Owned, Cleared
  <2> QED BY <2>5, <2>6
<1> QED BY <1>4, <1>5 DEF DeployInit

(* The API servers.                                                        *)

(* A write to a Cluster changes that one, and tells the operator.          *)
LEMMA SetClusterIs ==
  ASSUME DeployTypeOK, NEW c \in Members, NEW cr \in ClusterRec, SetCluster(c, cr)
  PROVE  /\ crs' \in [Members -> ClusterRec] /\ operator' \in OperatorRec /\ operator'.now = operator.now
         /\ crs'[c] = IF cr.deleting /\ cr.finalizers = {} THEN NoCluster ELSE cr
         /\ \A d \in Members \ {c} : crs'[d] = crs[d]
<1>1. crs' = [crs EXCEPT ![c] = IF cr.deleting /\ cr.finalizers = {} THEN NoCluster ELSE cr]
  BY DEF SetCluster
<1>2. operator' = Told(c) /\ operator \in OperatorRec
  BY DEF SetCluster, DeployTypeOK
<1>3. operator' \in OperatorRec /\ operator'.now = operator.now
  BY <1>2 DEF Told, OperatorRec
<1> QED BY <1>1, <1>3, Constants DEF DeployTypeOK

(* A creation adds at most its object ...                                  *)
LEMMA CreatedIs ==
  ASSUME NEW objs, NEW o PROVE Created(objs, o) \subseteq objs \cup {o} /\ objs \subseteq Created(objs, o)
BY DEF Created

(* ... a deletion takes it away, a namespace later on ...                  *)
LEMMA DeletedIs ==
  ASSUME NEW objs, NEW o
  PROVE  /\ Deleted(objs, o) \subseteq objs \cup {"nsEnding"}
         /\ o # "ns" => Deleted(objs, o) \subseteq objs
         /\ o \notin Deleted(objs, o)
<1>1. o \in SameName(o)
  BY DEF SameName
<1> QED BY <1>1 DEF Deleted

(* ... neither leaves anything without its namespace ...                   *)
LEMMA HousedKept ==
  ASSUME NEW objs, NEW o, Housed(objs)
  PROVE  /\ o \notin Namespace => Housed(Deleted(objs, o))
         /\ Housed(Deleted(objs, "ns"))
         /\ o \in ClusterWide \/ "ns" \in objs => Housed(Created(objs, o)) /\ Housed(CreateOrUpdate(objs, o))
<1>1. o \notin Namespace => SameName(o) \cap Namespace = {}
  BY DEF SameName, Namespace, Secrets, ProxySecrets
<1>2. o \notin Namespace => Housed(Deleted(objs, o))
  <2> SUFFICES ASSUME o \notin Namespace PROVE Housed(Deleted(objs, o))
    OBVIOUS
  <2>1. Deleted(objs, o) = objs \ SameName(o)
    BY DEF Deleted, Namespace
  <2> QED BY <1>1, <2>1 DEF Housed
<1>3. Housed(Deleted(objs, "ns"))
  BY DEF Deleted, Housed, Namespace
<1>4. "ns" \in objs => Housed(Created(objs, o)) /\ Housed(CreateOrUpdate(objs, o))
  <2> SUFFICES ASSUME "ns" \in objs PROVE Housed(Created(objs, o)) /\ Housed(CreateOrUpdate(objs, o))
    OBVIOUS
  <2>1. "ns" \in Created(objs, o)
    BY DEF Created
  <2>2. o \notin Namespace => "ns" \in CreateOrUpdate(objs, o)
    BY <1>1 DEF CreateOrUpdate, Namespace
  <2>3. o = "nsEnding" => o \in CreateOrUpdate(objs, o)
    BY DEF CreateOrUpdate
  <2>4. o = "ns" => CreateOrUpdate(objs, o) = Created(objs, o)
    BY DEF CreateOrUpdate
  <2> QED BY <2>1, <2>2, <2>3, <2>4 DEF Housed, Namespace
<1>5. o \in ClusterWide => Housed(Created(objs, o)) /\ Housed(CreateOrUpdate(objs, o))
  <2> SUFFICES ASSUME o \in ClusterWide PROVE Housed(Created(objs, o)) /\ Housed(CreateOrUpdate(objs, o))
    OBVIOUS
  <2>1. Housed(Created(objs, o))
    BY DEF Created, Housed, Namespace
  <2>2. o = "ns" => Housed(CreateOrUpdate(objs, o))
    BY <2>1 DEF CreateOrUpdate
  <2>3. o # "ns" => CreateOrUpdate(objs, o) = (objs \ SameName(o)) \cup {o}
    BY DEF CreateOrUpdate, ClusterWide, Roles
  <2>4. o = "nsEnding" => o \in CreateOrUpdate(objs, o)
    BY <2>3
  <2>5. o \notin Namespace => Housed(CreateOrUpdate(objs, o))
    BY <1>1, <2>3 DEF Housed, Namespace
  <2> QED BY <2>1, <2>2, <2>4, <2>5 DEF Housed, Namespace
<1> QED BY <1>2, <1>3, <1>4, <1>5

(* ... and the operator may write an empty secret instead.                 *)
LEMMA UpdatedIs ==
  ASSUME NEW objs, NEW o PROVE CreateOrUpdate(objs, o) \subseteq objs \cup {o, "emptyProxySecret"}
BY DEF CreateOrUpdate, Created

(* The call a command makes.                                               *)
This == Programs[running.cmd][Position(running)]

(* The call is due, and no call before it was.                             *)
LEMMA CallIs ==
  ASSUME DeployTypeOK, running # NoCommand, ~Returned(running)
  PROVE  /\ Position(running) \in Nat /\ running.at <= Position(running)
         /\ Position(running) <= Len(Programs[running.cmd])
         /\ This \in Calls(Target(running.cmd))
         /\ Due(This, running)
         /\ \A h \in running.at..(Position(running) - 1) : ~Due(Programs[running.cmd][h], running)
<1>1. running.cmd \in Commands /\ running.at \in Nat
  BY DEF DeployTypeOK, RunningRec
<1>2. Programs[running.cmd] \in Seq(Calls(Target(running.cmd))) /\ Len(Programs[running.cmd]) \in Nat
  BY <1>1, ProgramCalls, LenProperties
<1>3. /\ Position(running) \in running.at..(Len(Programs[running.cmd]) + 1)
      /\ Position(running) # Len(Programs[running.cmd]) + 1 => Due(This, running)
      /\ \A h \in running.at..(Position(running) - 1) : ~Due(Programs[running.cmd][h], running)
  BY <1>1, PositionIs DEF DeployTypeOK, This
<1>4. Position(running) # Len(Programs[running.cmd]) + 1
  BY DEF Returned
<1>5. Position(running) \in 1..Len(Programs[running.cmd])
  BY <1>1, <1>2, <1>3, <1>4 DEF DeployTypeOK
<1>6. This \in Calls(Target(running.cmd))
  BY <1>2, <1>5, ElementOfSeq DEF This
<1> QED BY <1>1, <1>2, <1>3, <1>4, <1>5, <1>6

(* The command goes on behind the call it has made.                        *)
Goes(r) ==
  /\ r \in RunningRec /\ r.cmd = running.cmd /\ r.late = running.late /\ r.at = Position(running) + 1
  /\ 1 <= r.at /\ r.at <= Len(Programs[r.cmd]) + 1

(* After most calls what the command has read stays ...                    *)
LEMMA AdvanceGoes ==
  ASSUME DeployTypeOK, running # NoCommand, ~Returned(running), Advance
  PROVE  Goes(running') /\ running'.seen = running.seen
<1>1. /\ running'.cmd = running.cmd /\ running'.late = running.late /\ running'.at = Position(running) + 1
      /\ running'.seen = running.seen /\ running' \in RunningRec
  BY CallIs DEF Advance, DeployTypeOK, RunningRec
<1>2. 1 <= running'.at /\ running'.at <= Len(Programs[running.cmd]) + 1
  <2>1. Len(Programs[running.cmd]) \in Nat
    BY ProgramCalls, LenProperties DEF DeployTypeOK, RunningRec
  <2> QED BY <1>1, <2>1, CallIs
<1> QED BY <1>1, <1>2 DEF Goes

(* ... and a look or a deletion adds or removes one object.                *)
LEMMA FindsGoes ==
  ASSUME DeployTypeOK, running # NoCommand, ~Returned(running), NEW o \in Names, NEW b, Finds(o, b)
  PROVE  Goes(running') /\ \A x \in Names \ {o} : x \in running'.seen <=> x \in running.seen
<1>1. /\ running'.cmd = running.cmd /\ running'.late = running.late /\ running'.at = Position(running) + 1
      /\ running'.seen = IF b THEN running.seen \cup {o} ELSE running.seen \ {o}
      /\ running' \in RunningRec
  <2>1. Position(running) + 1 \in Nat
    BY CallIs
  <2>2. PICK k \in Nat : k = Position(running) + 1
    BY <2>1
  <2>3. PICK z \in SUBSET Names : z = IF b THEN running.seen \cup {o} ELSE running.seen \ {o}
    BY DEF DeployTypeOK, RunningRec
  <2>4. running' = [running EXCEPT !.at = k, !.seen = z]
    BY <2>2, <2>3 DEF Finds
  <2>5. running \in RunningRec
    BY DEF DeployTypeOK
  <2> QED BY <2>2, <2>3, <2>4, <2>5 DEF RunningRec
<1>2. 1 <= running'.at /\ running'.at <= Len(Programs[running.cmd]) + 1
  <2>1. Len(Programs[running.cmd]) \in Nat
    BY ProgramCalls, LenProperties DEF DeployTypeOK, RunningRec
  <2> QED BY <1>1, <2>1, CallIs
<1> QED BY <1>1, <1>2 DEF Goes

(* A command goes to one of the two clusters.                              *)
LEMMA TargetIs == ASSUME NEW cmd PROVE Target(cmd) \in Members
BY DEF Target, Members, Host

(* A command fails.                                                        *)
LEMMA AbortsIs ==
  ASSUME DeployTypeOK, Aborts
  PROVE  /\ running' \in RunningRec /\ 1 <= running'.at /\ running'.at <= Len(Programs[running'.cmd]) + 1
         /\ running'.cmd = "none" /\ halted' = halted \cup {Target(running.cmd)} /\ halted' \subseteq Members
BY Constants, Idled, TargetIs DEF Aborts, DeployTypeOK

(* What a call that is made leaves well-typed.                             *)
LEMMA CallTypes == DeployTypeOK /\ Call => DeployTypeOK'
<1> SUFFICES ASSUME DeployTypeOK, Call PROVE DeployTypeOK'
  OBVIOUS
<1>1. running # NoCommand /\ ~Returned(running) /\ begun' = begun
  BY DEF Call
<1>2. PICK c \in Members : c = Target(running.cmd)
  BY TargetIs
<1>3. PICK s \in Calls(c) : s = This
  BY <1>1, <1>2, CallIs
<1>4. s.at = c /\ (s.op \in Ops => s.obj \in Names)
  BY DEF Calls, Ops
<1>5. \/ CallCreate(s) \/ CallDelete(s) \/ CallLook(s) \/ CallWait(s)
      \/ CallDrop(s) \/ CallRegister(s) \/ CallEnable(s) \/ CallRemove(s)
  BY <1>3 DEF Call, This
<1>6. /\ objects \in [Members -> SUBSET Names] /\ crs \in [Members -> ClusterRec] /\ operator \in OperatorRec
      /\ halted \subseteq Members /\ begun' \subseteq Members /\ Host \in Members
  BY <1>1 DEF DeployTypeOK, Members, Host
<1>7. ASSUME Advance PROVE /\ running' \in RunningRec /\ 1 <= running'.at
                           /\ running'.at <= Len(Programs[running'.cmd]) + 1
  BY <1>1, <1>7, AdvanceGoes DEF Goes
<1>8. ASSUME Aborts PROVE /\ running' \in RunningRec /\ 1 <= running'.at
                          /\ running'.at <= Len(Programs[running'.cmd]) + 1 /\ halted' \subseteq Members
  BY <1>8, AbortsIs
<1>9. ASSUME NEW o \in Names, NEW b, Finds(o, b)
      PROVE  /\ running' \in RunningRec /\ 1 <= running'.at /\ running'.at <= Len(Programs[running'.cmd]) + 1
  BY <1>1, <1>9, FindsGoes DEF Goes
<1>10. CASE CallCreate(s)
  <2>1. s.obj \in Names
    BY <1>4, <1>10 DEF CallCreate, Ops
  <2>2. objects' \in [Members -> SUBSET Names]
    <3>1. Created(objects[c], s.obj) \in SUBSET Names
      BY <1>6, <2>1, CreatedIs
    <3> QED BY <1>4, <1>6, <1>10, <3>1 DEF CallCreate
  <2> QED BY <1>6, <1>7, <1>8, <1>10, <2>2 DEF CallCreate, DeployTypeOK
<1>11. CASE CallDelete(s)
  <2>1. s.obj \in Names
    BY <1>4, <1>11 DEF CallDelete, Ops
  <2>2. objects' \in [Members -> SUBSET Names]
    <3>1. Deleted(objects[c], s.obj) \in SUBSET Names
      BY <1>6, DeletedIs DEF Names
    <3> QED BY <1>4, <1>6, <1>11, <3>1 DEF CallDelete
  <2>3. operator' \in OperatorRec
    BY <1>6, <1>11, Constants DEF CallDelete
  <2> QED BY <1>6, <1>9, <1>11, <2>1, <2>2, <2>3 DEF CallDelete, DeployTypeOK
<1>12. CASE CallLook(s)
  <2>1. s.obj \in Names
    BY <1>4, <1>12 DEF CallLook, Ops
  <2>2. CASE s.obj = "cluster"
    <3>1. PICK k \in Nat : k = Position(running) + 1
      BY <1>1, CallIs
    <3>2. PICK z \in SUBSET Names : z = IF crs[Host].there THEN running.seen \cup {"cluster"} ELSE running.seen
      BY <2>1, <2>2 DEF DeployTypeOK, RunningRec
    <3>3. running' = [running EXCEPT !.at = k, !.was = crs[Host], !.seen = z]
      BY <1>12, <2>2, <3>1, <3>2 DEF CallLook
    <3>4. running' \in RunningRec /\ running'.cmd = running.cmd /\ running'.at = k
      BY <1>6, <3>3 DEF DeployTypeOK, RunningRec
    <3>5. 1 <= running'.at /\ running'.at <= Len(Programs[running'.cmd]) + 1
      <4>1. Len(Programs[running.cmd]) \in Nat
        BY ProgramCalls, LenProperties DEF DeployTypeOK, RunningRec
      <4> QED BY <1>1, <3>1, <3>4, <4>1, CallIs
    <3> QED BY <1>6, <1>12, <3>4, <3>5 DEF CallLook, DeployTypeOK
  <2>3. CASE s.obj # "cluster"
    BY <1>6, <1>9, <1>12, <2>1, <2>3 DEF CallLook, DeployTypeOK
  <2> QED BY <2>2, <2>3
<1>13. CASE CallWait(s)
  BY <1>6, <1>7, <1>8, <1>13 DEF CallWait, DeployTypeOK
<1>14. CASE CallDrop(s)
  <2>1. objects' \in [Members -> SUBSET Names]
    BY <1>6, <1>14 DEF CallDrop
  <2> QED BY <1>6, <1>7, <1>8, <1>14, <2>1 DEF CallDrop, DeployTypeOK
<1>15. CASE CallRegister(s)
  <2>1. s.obj \in BOOLEAN \X BOOLEAN
    BY <1>15 DEF CallRegister, Calls, Ops
  <2>2. CASE Aborts /\ UNCHANGED <<crs, operator>>
    BY <1>6, <1>8, <1>15, <2>2 DEF CallRegister, DeployTypeOK
  <2>3. CASE /\ SetCluster(s.at, [NoCluster EXCEPT !.there = TRUE, !.link = s.obj[1], !.tree = s.obj[2]])
             /\ Advance /\ UNCHANGED halted
    <3>1. [NoCluster EXCEPT !.there = TRUE, !.link = s.obj[1], !.tree = s.obj[2]] \in ClusterRec
      BY <2>1 DEF NoCluster, ClusterRec
    <3>2. crs' \in [Members -> ClusterRec] /\ operator' \in OperatorRec
      BY <1>4, <2>3, <3>1, SetClusterIs
    <3> QED BY <1>6, <1>7, <1>15, <2>3, <3>2 DEF CallRegister, DeployTypeOK
  <2> QED BY <1>15, <2>2, <2>3 DEF CallRegister
<1>16. CASE CallEnable(s)
  <2>1. s.obj \in BOOLEAN \X BOOLEAN
    BY <1>16 DEF CallEnable, Calls, Ops
  <2>2. CASE Advance /\ UNCHANGED <<crs, operator, halted>>
    BY <1>6, <1>7, <1>16, <2>2 DEF CallEnable, DeployTypeOK
  <2>3. CASE Aborts /\ UNCHANGED <<crs, operator>>
    BY <1>6, <1>8, <1>16, <2>3 DEF CallEnable, DeployTypeOK
  <2>4. CASE /\ SetCluster(Host, [crs[Host] EXCEPT !.link = @ \/ s.obj[1], !.tree = @ \/ s.obj[2]])
             /\ Advance /\ UNCHANGED halted
    <3>1. [crs[Host] EXCEPT !.link = @ \/ s.obj[1], !.tree = @ \/ s.obj[2]] \in ClusterRec
      <4>1. crs[Host] \in ClusterRec
        BY <1>6
      <4> QED BY <2>1, <4>1 DEF ClusterRec
    <3>2. crs' \in [Members -> ClusterRec] /\ operator' \in OperatorRec
      BY <1>6, <2>4, <3>1, SetClusterIs
    <3> QED BY <1>6, <1>7, <1>16, <2>4, <3>2 DEF CallEnable, DeployTypeOK
  <2> QED BY <1>16, <2>2, <2>3, <2>4 DEF CallEnable
<1>17. CASE CallRemove(s)
  <2>1. CASE SetCluster(s.at, [crs[s.at] EXCEPT !.deleting = TRUE]) /\ UNCHANGED running
    <3>1. [crs[c] EXCEPT !.deleting = TRUE] \in ClusterRec
      <4>1. crs[c] \in ClusterRec
        BY <1>6
      <4> QED BY <4>1 DEF ClusterRec
    <3>2. crs' \in [Members -> ClusterRec] /\ operator' \in OperatorRec
      BY <1>4, <2>1, <3>1, SetClusterIs
    <3> QED BY <1>6, <1>17, <2>1, <3>2 DEF CallRemove, DeployTypeOK
  <2>2. CASE Advance /\ UNCHANGED <<crs, operator>>
    BY <1>6, <1>7, <1>17, <2>2 DEF CallRemove, DeployTypeOK
  <2> QED BY <1>17, <2>1, <2>2 DEF CallRemove
<1> QED BY <1>5, <1>10, <1>11, <1>12, <1>13, <1>14, <1>15, <1>16, <1>17

(* The operator rests after an error ...                                   *)
LEMMA RequeuedIs ==
  ASSUME DeployTypeOK PROVE Requeued \in OperatorRec /\ Requeued.now = Resting
<1>1. operator \in OperatorRec /\ operator.now.on \in Members
  BY DEF DeployTypeOK, OperatorRec, NowRec
<1> QED BY <1>1, Constants DEF Requeued, OperatorRec

(* ... and after a reconcile that went through.                            *)
LEMMA RestedIs ==
  ASSUME DeployTypeOK, NEW D \in SUBSET Members
  PROVE  /\ [operator EXCEPT !.now = Resting] \in OperatorRec
         /\ [operator EXCEPT !.now = Resting].now = Resting
         /\ [operator EXCEPT !.now = Resting, !.due = D] \in OperatorRec
         /\ [operator EXCEPT !.now = Resting, !.due = D].now = Resting
<1>1. operator \in OperatorRec
  BY DEF DeployTypeOK
<1> QED BY <1>1, Constants DEF OperatorRec

(* What the operator reconciles, and the call it makes for it.             *)
LEMMA PlanIs ==
  ASSUME DeployTypeOK, Working, NEW n, n = operator.now
  PROVE  /\ n \in NowRec
         /\ n.mode = "syncCluster" => Plan(n) = Install(n.on)
         /\ n.mode = "removeCluster" => Plan(n) = Uninstall(n.on)
         /\ n.mode \in {"syncCluster", "removeCluster"}
         /\ Plan(n) \in Seq(Calls(n.on)) /\ Len(Plan(n)) \in Nat
         /\ \A i \in 1..Len(Plan(n)) : Plan(n)[i] \in Calls(n.on) /\ Plan(n)[i].op \in {"create", "delete"}
<1>1. n \in NowRec /\ n.mode \in {"syncCluster", "removeCluster"} /\ n.on \in Members
  BY DEF DeployTypeOK, OperatorRec, NowRec, Working
<1>2. CASE n.mode = "syncCluster"
  <2>1. Plan(n) = Install(n.on)
    BY <1>1, <1>2 DEF Plan, Plans
  <2>2. Install(n.on) \in Seq(Creations(n.on, AddonNames))
    BY InstallShape
  <2>3. Creations(n.on, AddonNames) \subseteq Calls(n.on)
    <3> SUFFICES ASSUME NEW s \in Creations(n.on, AddonNames) PROVE s \in Calls(n.on)
      OBVIOUS
    <3>1. PICK o \in AddonNames : s = Step("create", n.on, o)
      BY DEF Creations
    <3>2. o \in Names /\ "create" \in Ops
      BY NamesOf DEF Ops
    <3> QED BY <3>1, <3>2, StepCall
  <2>4. Install(n.on) \in Seq(Calls(n.on)) /\ Len(Install(n.on)) \in Nat
    BY <2>2, <2>3, LenProperties
  <2>5. \A i \in 1..Len(Install(n.on)) : Install(n.on)[i] \in Creations(n.on, AddonNames)
    BY <2>2, ElementOfSeq
  <2>6. \A s \in Creations(n.on, AddonNames) : s.op = "create"
    <3> SUFFICES ASSUME NEW s \in Creations(n.on, AddonNames) PROVE s.op = "create"
      OBVIOUS
    <3>1. PICK o \in AddonNames : s = Step("create", n.on, o)
      BY DEF Creations
    <3> QED BY <3>1 DEF Step
  <2> QED BY <1>1, <1>2, <2>1, <2>3, <2>4, <2>5, <2>6
<1>3. CASE n.mode = "removeCluster"
  <2>1. Plan(n) = Uninstall(n.on)
    BY <1>1, <1>3 DEF Plan, Plans
  <2>2. Uninstall(n.on) \in Seq(Calls(n.on)) /\ Len(Uninstall(n.on)) = 6 /\ \A i \in 1..6 : Uninstall(n.on)[i].op = "delete"
    BY UninstallShape
  <2>3. \A i \in 1..6 : Uninstall(n.on)[i] \in Calls(n.on)
    BY <2>2, ElementOfSeq
  <2> QED BY <1>1, <1>3, <2>1, <2>2, <2>3
<1> QED BY <1>1, <1>2, <1>3

(* The operator's add-ons.                                                 *)
LEMMA ApplyTypes ==
  ASSUME DeployTypeOK, ApplyAddon
  PROVE  DeployTypeOK'
<1>1. PICK n \in NowRec : n = operator.now
  BY DEF DeployTypeOK, OperatorRec
<1>2. /\ objects \in [Members -> SUBSET Names] /\ crs' = crs /\ running' = running /\ begun' = begun /\ halted' = halted
  BY DEF ApplyAddon, DeployTypeOK
<1>3. n.at \in Nat /\ 1 <= n.at /\ n.on \in Members
  BY DEF NowRec
<1>4. CASE operator' = Requeued /\ UNCHANGED objects
  BY <1>2, <1>4, RequeuedIs DEF DeployTypeOK
<1>5. CASE /\ n.at <= Len(Plan(n))
           /\ objects' = [objects EXCEPT ![Plan(n)[n.at].at] =
                 IF Plan(n)[n.at].op = "create" THEN CreateOrUpdate(@, Plan(n)[n.at].obj) ELSE Deleted(@, Plan(n)[n.at].obj)]
           /\ operator' = [operator EXCEPT !.now.at = @ + 1]
  <2>1. operator' \in OperatorRec
    <3>1. [n EXCEPT !.at = @ + 1] \in NowRec
      BY <1>3 DEF NowRec
    <3>2. operator' = [operator EXCEPT !.now = [n EXCEPT !.at = @ + 1]]
      BY <1>1, <1>5 DEF DeployTypeOK, OperatorRec
    <3> QED BY <3>1, <3>2 DEF DeployTypeOK, OperatorRec
  <2>2. PICK s \in Calls(n.on) : s = Plan(n)[n.at] /\ s.op \in {"create", "delete"}
    <3>1. n.at \in 1..Len(Plan(n))
      BY <1>1, <1>3, <1>5, PlanIs DEF ApplyAddon
    <3> QED BY <1>1, <3>1, PlanIs DEF ApplyAddon
  <2>3. s.at = n.on /\ s.obj \in Names
    BY <2>2 DEF Calls, Ops
  <2>4. PICK z \in SUBSET Names : z = IF s.op = "create" THEN CreateOrUpdate(objects[n.on], s.obj) ELSE Deleted(objects[n.on], s.obj)
    <3>1. "emptyProxySecret" \in Names /\ "nsEnding" \in Names /\ objects[n.on] \in SUBSET Names
      BY <1>2, <1>3 DEF Names
    <3>2. CreateOrUpdate(objects[n.on], s.obj) \in SUBSET Names /\ Deleted(objects[n.on], s.obj) \in SUBSET Names
      BY <2>3, <3>1, UpdatedIs, DeletedIs
    <3> QED BY <3>2
  <2>5. objects' = [objects EXCEPT ![n.on] = z]
    BY <1>5, <2>2, <2>3, <2>4
  <2>6. objects' \in [Members -> SUBSET Names]
    BY <1>2, <1>3, <2>5
  <2> QED BY <1>2, <2>1, <2>6 DEF DeployTypeOK
<1> QED BY <1>1, <1>4, <1>5 DEF ApplyAddon

(* Membership is true or false.                                            *)
LEMMA TruthValue == ASSUME NEW x, NEW S PROVE \E l \in BOOLEAN : l = (x \in S)
<1>1. CASE x \in S
  <2>1. TRUE = (x \in S)
    BY <1>1
  <2> QED BY <2>1
<1>2. CASE x \notin S
  <2>1. FALSE = (x \in S)
    BY <1>2
  <2> QED BY <2>1
<1> QED BY <1>1, <1>2

(* A command that starts.                                                  *)
LEMMA StartIs ==
  ASSUME DeployTypeOK, NEW cmd \in Commands, Start(cmd)
  PROVE  /\ running' \in RunningRec /\ running'.cmd = cmd /\ running'.at = 1
         /\ 1 <= running'.at /\ running'.at <= Len(Programs[running'.cmd]) + 1
         /\ cmd \in Unjoins => /\ crs[Target(cmd)].there
                               /\ crs[Target(cmd)].tree => "tree" \in running'.seen
         /\ running.cmd = "none" /\ UNCHANGED <<objects, crs, operator, begun, halted>>
         /\ running'.late = ("nsEnding" \in objects[Target(cmd)])
<1>0. PICK l \in BOOLEAN : l = ("nsEnding" \in objects[Target(cmd)])
  BY TruthValue
<1>1. PICK z : /\ running' = [NoCommand EXCEPT !.cmd = cmd, !.late = l, !.seen = z]
               /\ z = IF cmd \in Unjoins
                        THEN {x \in {"link", "tree"} : IF x = "link" THEN crs[Target(cmd)].link ELSE crs[Target(cmd)].tree}
                        ELSE {}
  BY <1>0 DEF Start
<1>2. z \subseteq Names
  BY <1>1 DEF Names
<1>3. running' \in RunningRec /\ running'.cmd = cmd /\ running'.at = 1 /\ running'.seen = z /\ running'.late = l
  BY <1>1, <1>2, Constants DEF RunningRec
<1>4. Len(Programs[cmd]) \in Nat
  BY ProgramCalls, LenProperties
<1>5. running.cmd = "none" /\ UNCHANGED <<objects, crs, operator, begun, halted>> /\ (cmd \in Unjoins => crs[Target(cmd)].there)
  BY Constants DEF Start
<1>6. cmd \in Unjoins /\ crs[Target(cmd)].tree => "tree" \in z
  BY <1>1
<1> QED BY <1>0, <1>3, <1>4, <1>5, <1>6

(* An unjoin that could not read the Cluster.                              *)
LEMMA UnreadIs ==
  ASSUME DeployTypeOK, NEW cmd \in Unjoins, StartUnread(cmd)
  PROVE  /\ running' \in RunningRec /\ running'.cmd = cmd /\ running'.at = 1
         /\ 1 <= running'.at /\ running'.at <= Len(Programs[running'.cmd]) + 1
         /\ running.cmd = "none" /\ UNCHANGED <<objects, crs, operator, begun>>
         /\ halted' = halted \cup {Target(cmd)} /\ halted' \subseteq Members
<1>1. cmd \in Commands
  BY DEF Commands
<1>0. PICK l \in BOOLEAN : l = ("nsEnding" \in objects[Target(cmd)])
  BY TruthValue
<1>2. running' = [NoCommand EXCEPT !.cmd = cmd, !.late = l]
  BY <1>0 DEF StartUnread
<1>3. running' \in RunningRec /\ running'.cmd = cmd /\ running'.at = 1
  BY <1>1, <1>2, Constants DEF RunningRec
<1>4. Len(Programs[cmd]) \in Nat
  BY <1>1, ProgramCalls, LenProperties
<1>5. running.cmd = "none" /\ UNCHANGED <<objects, crs, operator, begun>> /\ halted' = halted \cup {Target(cmd)}
  BY Constants DEF StartUnread
<1> QED BY <1>3, <1>4, <1>5, TargetIs DEF DeployTypeOK

(* A call that fails ends the command, or passes over a look.              *)
LEMMA FailsIs ==
  ASSUME DeployTypeOK, CallFails
  PROVE  /\ UNCHANGED <<objects, crs, operator, begun>>
         /\ \/ Aborts
            \/ /\ running.cmd \in Uninstalls /\ halted' = halted /\ Goes(running')
               /\ running'.seen \subseteq Names
               /\ \E o \in Names : Finds(o, TRUE)
<1>1. running # NoCommand /\ ~Returned(running) /\ UNCHANGED <<objects, crs, operator, begun>>
  BY DEF CallFails
<1>2. CASE Aborts
  BY <1>1, <1>2
<1>3. CASE This.op = "look" /\ running.cmd \in Uninstalls /\ Finds(This.obj, TRUE) /\ UNCHANGED halted
  <2>1. This.obj \in Names
    BY <1>1, <1>3, CallIs DEF Calls, Ops
  <2>2. Goes(running')
    BY <1>1, <1>3, <2>1, FindsGoes
  <2> QED BY <1>1, <1>3, <2>1, <2>2 DEF Goes, RunningRec
<1> QED BY <1>2, <1>3 DEF CallFails, This

(* A namespace that has ended.                                             *)
LEMMA EndsIs ==
  ASSUME DeployTypeOK, NEW c \in Members, NamespaceEnds(c)
  PROVE  /\ objects' \in [Members -> SUBSET Names] /\ objects'[c] = objects[c] \cap (ClusterWide \ {"nsEnding"})
         /\ \A d \in Members \ {c} : objects'[d] = objects[d]
         /\ operator' \in OperatorRec /\ (operator' = operator \/ operator' = Down)
         /\ UNCHANGED <<crs, running, begun, halted>>
<1>1. objects \in [Members -> SUBSET Names] /\ operator \in OperatorRec
  BY DEF DeployTypeOK
<1> QED BY <1>1, Constants DEF NamespaceEnds

(* The finalizer of the operator.                                          *)
LEMMA FinalizerTypes ==
  ASSUME DeployTypeOK, EnsureFinalizer \/ ReleaseCluster
  PROVE  DeployTypeOK'
<1>1. PICK n \in NowRec : n = operator.now
  BY DEF DeployTypeOK, OperatorRec
<1>2. /\ crs \in [Members -> ClusterRec] /\ operator.due \in SUBSET Members /\ n.on \in Members
      /\ UNCHANGED <<objects, running, halted>> /\ begun' \subseteq Members
  BY <1>1 DEF EnsureFinalizer, ReleaseCluster, DeployTypeOK, OperatorRec, NowRec
<1>3. \/ operator' = Requeued
      \/ operator' = [operator EXCEPT !.now = Resting]
      \/ operator' = [operator EXCEPT !.now = Resting, !.due = @ \cup {n.on}]
  BY <1>1 DEF EnsureFinalizer, ReleaseCluster
<1>4. operator' \in OperatorRec
  <2>1. [operator EXCEPT !.now = Resting, !.due = @ \cup {n.on}] = [operator EXCEPT !.now = Resting, !.due = operator.due \cup {n.on}]
    BY DEF DeployTypeOK, OperatorRec
  <2> QED BY <1>2, <1>3, <2>1, RequeuedIs, RestedIs
<1>5. \/ crs' = crs \/ crs' = [crs EXCEPT ![n.on] = NoCluster]
      \/ crs' = [crs EXCEPT ![n.on].finalizers = @ \cup {"operator"}]
  BY <1>1 DEF EnsureFinalizer, ReleaseCluster
<1>6. crs' \in [Members -> ClusterRec]
  <2>1. PICK cr \in ClusterRec : cr = crs[n.on]
    BY <1>2
  <2>2. [cr EXCEPT !.finalizers = @ \cup {"operator"}] \in ClusterRec
    BY DEF ClusterRec
  <2>3. [crs EXCEPT ![n.on].finalizers = @ \cup {"operator"}] = [crs EXCEPT ![n.on] = [cr EXCEPT !.finalizers = @ \cup {"operator"}]]
    BY <1>2, <2>1
  <2> QED BY <1>2, <1>5, <2>2, <2>3, Constants
<1> QED BY <1>2, <1>4, <1>6 DEF DeployTypeOK

(* The finalizer of ClusterTree.                                           *)
LEMMA TreeTypes ==
  ASSUME DeployTypeOK, NEW c \in Members, TreeHolds(c) \/ TreeReleases(c)
  PROVE  DeployTypeOK'
<1>1. PICK cr \in ClusterRec : cr = crs[c]
  BY DEF DeployTypeOK
<1>2. [cr EXCEPT !.finalizers = @ \cup {"tree"}] \in ClusterRec /\ [cr EXCEPT !.finalizers = @ \ {"tree"}] \in ClusterRec
  BY DEF ClusterRec
<1>3. \/ SetCluster(c, [cr EXCEPT !.finalizers = @ \cup {"tree"}])
      \/ SetCluster(c, [cr EXCEPT !.finalizers = @ \ {"tree"}])
  BY <1>1 DEF TreeHolds, TreeReleases
<1>4. crs' \in [Members -> ClusterRec] /\ operator' \in OperatorRec
  BY <1>2, <1>3, SetClusterIs
<1> QED BY <1>4 DEF TreeHolds, TreeReleases, DeployTypeOK

(* What the operator decides when it reads a Cluster.                      *)
LEMMA ReconcileIs ==
  ASSUME DeployTypeOK, NEW c \in Members, Reconcile(c), NEW m, m = ReconcileMode(crs[c])
  PROVE  /\ operator' \in OperatorRec
         /\ operator'.now = IF m = "idle" THEN Resting ELSE [on |-> c, mode |-> m, at |-> 1, was |-> crs[c]]
         /\ m \in {"idle", "syncCluster", "removeCluster"}
         /\ m # "idle" => crs[c].there
         /\ m = "removeCluster" => crs[c].deleting
         /\ operator.now.mode = "idle"
<1>1. crs[c] \in ClusterRec /\ operator \in OperatorRec /\ operator.due \subseteq Members
  BY DEF DeployTypeOK, OperatorRec
<1>2. /\ m \in {"idle", "syncCluster", "removeCluster"} /\ (m # "idle" => crs[c].there)
      /\ (m = "removeCluster" => crs[c].deleting)
  <2>1. PICK cr \in ClusterRec : cr = crs[c]
    BY <1>1
  <2>2. PICK one \in BOOLEAN : one = (cr.deleting /\ Cardinality(cr.finalizers) = 1)
    OBVIOUS
  <2>3. m = IF ~cr.there THEN "idle" ELSE IF one THEN "removeCluster" ELSE IF ~cr.link THEN "idle" ELSE "syncCluster"
    BY <2>1, <2>2 DEF ReconcileMode
  <2>4. one => cr.deleting
    BY <2>2
  <2>5. cr.there \in BOOLEAN /\ cr.link \in BOOLEAN
    BY DEF ClusterRec
  <2> QED BY <2>1, <2>3, <2>4, <2>5
<1>3. m # "idle" => [on |-> c, mode |-> m, at |-> 1, was |-> crs[c]] \in NowRec
  BY <1>1, <1>2 DEF NowRec
<1>4. PICK x \in NowRec : x = IF m = "idle" THEN Resting ELSE [on |-> c, mode |-> m, at |-> 1, was |-> crs[c]]
  BY <1>3, Constants
<1>5. operator' = [operator EXCEPT !.due = @ \ {c}, !.now = x] /\ operator.now.mode = "idle"
  BY <1>4 DEF Reconcile
<1>6. operator' \in OperatorRec /\ operator'.now = x
  BY <1>1, <1>5 DEF OperatorRec
<1> QED BY <1>2, <1>4, <1>5, <1>6

(* Every step keeps the types.                                             *)
LEMMA StepTypes == DeployTypeOK /\ [DeployNext]_deployVars => DeployTypeOK'
<1> SUFFICES ASSUME DeployTypeOK, [DeployNext]_deployVars PROVE DeployTypeOK'
  OBVIOUS
<1>1. ASSUME NEW cmd \in Installs \cup Uninstalls \cup Joins \cup Unjoins, Start(cmd) PROVE DeployTypeOK'
  <2>1. cmd \in Commands
    BY DEF Commands
  <2> QED BY <1>1, <2>1, StartIs DEF DeployTypeOK
<1>2. CASE Call
  BY <1>2, CallTypes
<1>3. CASE CallFails
  <2>1. CASE Aborts
    BY <1>3, <2>1, AbortsIs, FailsIs DEF DeployTypeOK
  <2>2. CASE ~Aborts
    BY <1>3, <2>2, FailsIs DEF Goes, DeployTypeOK
  <2> QED BY <2>1, <2>2
<1>4. CASE CommandReturns
  BY <1>4, Idled DEF CommandReturns, DeployTypeOK
<1>5. CASE OperatorStarts
  <2>1. operator' \in OperatorRec
    <3>1. PICK D \in SUBSET Members : D = {c \in Members : crs[c].there}
      OBVIOUS
    <3>2. PICK f \in {"panel", "empty"} : f = IF "panelSecret" \in objects[Host] THEN "panel" ELSE "empty"
      OBVIOUS
    <3>3. operator' = [Down EXCEPT !.up = TRUE, !.due = D, !.config = f]
      BY <1>5, <3>1, <3>2 DEF OperatorStarts
    <3> QED BY <3>3, Constants DEF OperatorRec
  <2> QED BY <1>5, <2>1 DEF OperatorStarts, DeployTypeOK
<1>6. CASE OperatorCrashes
  BY <1>6, Constants DEF OperatorCrashes, DeployTypeOK
<1>7. CASE ApplyAddon
  BY <1>7, ApplyTypes
<1>8. CASE AddonFails
  BY <1>8, RequeuedIs DEF AddonFails, DeployTypeOK
<1>9. CASE EnsureFinalizer \/ ReleaseCluster
  BY <1>9, FinalizerTypes
<1>10. ASSUME NEW c \in Members, Reconcile(c) PROVE DeployTypeOK'
  <2>1. operator' \in OperatorRec
    BY <1>10, ReconcileIs
  <2> QED BY <1>10, <2>1 DEF Reconcile, DeployTypeOK
<1>11. ASSUME NEW c \in Members, TreeHolds(c) \/ TreeReleases(c) PROVE DeployTypeOK'
  BY <1>11, TreeTypes
<1>12. CASE UNCHANGED deployVars
  BY <1>12 DEF deployVars, DeployTypeOK
<1>13. ASSUME NEW cmd \in Unjoins, StartUnread(cmd) PROVE DeployTypeOK'
  BY <1>13, UnreadIs DEF DeployTypeOK
<1>14. ASSUME NEW c \in Members, NamespaceEnds(c) PROVE DeployTypeOK'
  BY <1>14, EndsIs DEF DeployTypeOK
<1> QED BY <1>1, <1>2, <1>3, <1>4, <1>5, <1>6, <1>7, <1>8, <1>9, <1>10, <1>11, <1>12, <1>13, <1>14 DEF DeployNext, OperatorSteps

(* The member as far as the invariant speaks of it.                        *)
Sound(n) ==
  /\ n.mode # "idle" => n.was.there
  /\ n.mode = "removeCluster" => n.was.deleting
Away(n) == Sound(n) /\ (n.mode = "idle" \/ n.on = Host)
Like(a, b) ==
  /\ a.there = b.there /\ a.tree = b.tree /\ a.deleting = b.deleting
  /\ "operator" \in a.finalizers <=> "operator" \in b.finalizers
  /\ a.there \/ a = NoCluster
Rest == Placed /\ Held /\ Known /\ Owned /\ Cleared

(* At rest the operator is not in the member.                              *)
LEMMA RestingAway == Away(Resting)
BY Constants DEF Away, Sound

(* Nothing changes in the member: the command goes on elsewhere, ends in   *)
(* an error or begins with something else than an unjoin.                  *)
LEMMA Frame ==
  ASSUME DeployInv,
         InMember' = InMember, Like(crs'["member"], crs["member"]),
         "member" \in begun' <=> "member" \in begun, "member" \in halted => "member" \in halted',
         operator'.now = operator.now \/ Away(operator'.now),
         \/ running' = running
         \/ /\ ~Unjoining'
            /\ "member" \in halted' \/ (running.cmd \notin Joins /\ ~Unjoining)
  PROVE  Rest'
<1>1. Placed'
  <2>1. Sound(operator.now)
    BY DEF DeployInv, Placed, Sound
  <2>2. Sound(operator'.now)
    BY <2>1 DEF Away
  <2> QED BY <2>2 DEF DeployInv, Placed, Sound, Like
<1>2. /\ InMode("syncCluster")' => InMode("syncCluster") /\ operator'.now = operator.now
      /\ InMode("removeCluster")' => InMode("removeCluster") /\ operator'.now = operator.now
  BY DEF Away, InMode, Host
<1>3. Held'
  BY <1>2 DEF DeployInv, Held, Like
<1>4. Known' /\ Owned' /\ Cleared'
  <2>1. CASE running' = running
    BY <1>2, <2>1 DEF DeployInv, Known, Owned, Cleared, Like, Unjoining
  <2>2. CASE ~Unjoining' /\ "member" \in halted'
    BY <2>2 DEF Known, Owned, Cleared
  <2>3. CASE ~Unjoining' /\ "member" \notin halted' /\ running.cmd \notin Joins /\ ~Unjoining
    BY <2>3 DEF DeployInv, Known, Owned, Cleared, Like
  <2> QED BY <2>1, <2>2, <2>3
<1> QED BY <1>1, <1>3, <1>4 DEF Rest

(* The Cluster of the member goes: an unjoin is waiting for that, or some  *)
(* command has failed.                                                     *)
LEMMA Gone ==
  ASSUME DeployInv, crs["member"].deleting \/ Unjoining, crs["member"].there, InMember' = InMember, crs'["member"] = NoCluster,
         {"electorRole", "managerRole"} \cap InMember # {} => "member" \in begun',
         InMode("syncCluster")' => operator'.now = operator.now /\ "operator" \notin crs["member"].finalizers /\ "member" \in begun',
         operator'.now = operator.now \/ operator'.now = Resting,
         halted' = halted, running' = running
  PROVE  Rest'
<1>1. Placed'
  BY Constants DEF DeployInv, Placed
<1>2. /\ InMode("syncCluster")' => InMode("syncCluster") /\ operator'.now = operator.now
      /\ InMode("removeCluster")' => InMode("removeCluster") /\ operator'.now = operator.now
  BY Constants DEF InMode
<1>3. Held'
  BY <1>2 DEF DeployInv, Held, NoCluster
<1>4. Unjoining => running.at = 1
  BY DEF DeployInv, Known
<1>5. ~NoCluster.there /\ ~NoCluster.tree /\ ~NoCluster.deleting
  BY DEF NoCluster
<1>6. Known'
  BY <1>5 DEF Known, Unjoining
<1>7. (Unjoining' <=> Unjoining) /\ (Unjoining => ~(running'.at > 4) /\ ~(running'.at > 7) /\ running'.at <= 2)
  <2>1. Unjoining' <=> Unjoining
    BY DEF Unjoining
  <2>2. ASSUME running.at = 1 PROVE ~(running'.at > 4) /\ ~(running'.at > 7) /\ running'.at <= 2
    <3>1. running'.at = 1
      BY <2>2
    <3> QED BY <3>1
  <2> QED BY <1>4, <2>1, <2>2
<1>8. Owned'
  <2> SUFFICES ASSUME "treeCRDs" \in InMember, "member" \notin halted
               PROVE  Unjoining /\ "tree" \in running.seen
    BY <1>7 DEF Owned
  <2>1. Unjoining /\ running.cmd \notin Joins
    BY JoinNames DEF DeployInv, Known, Unjoining
  <2>2. crs["member"].tree => "tree" \in running.seen
    BY <2>1 DEF DeployInv, Known
  <2> QED BY <2>1, <2>2 DEF DeployInv, Owned
<1>9. Cleared'
  BY <1>7 DEF Cleared
<1> QED BY <1>1, <1>3, <1>6, <1>8, <1>9 DEF Rest

(* A Cluster that does not change.                                         *)
LEMMA LikeItself == ASSUME DeployInv PROVE Like(crs["member"], crs["member"])
BY DEF DeployInv, Placed, Like

(* The command runs against the host, or its failure is remembered.        *)
LEMMA Targets ==
  ASSUME DeployInv
  PROVE  IF running.cmd \in Joins \/ Unjoining THEN Target(running.cmd) = "member" ELSE Target(running.cmd) = Host
BY DEF Target, Unjoining

(* A command that fails, or starts against the host or joins the member.   *)
LEMMA AbortKeeps ==
  ASSUME DeployInv, Aborts, InMember' = InMember, crs' = crs, operator' = operator, begun' = begun
  PROVE  Rest'
<1>1. running'.cmd = "none" /\ halted' = halted \cup {Target(running.cmd)}
  BY AbortsIs DEF DeployInv
<1>2. ~Unjoining'
  BY <1>1 DEF Unjoining
<1>3. "member" \in halted' \/ (running.cmd \notin Joins /\ ~Unjoining)
  BY <1>1, Targets
<1> QED BY <1>1, <1>2, <1>3, Frame, LikeItself

(* A command starts: an unjoin has read whether ClusterTree is enabled.    *)
LEMMA StartKeeps ==
  ASSUME DeployInv, NEW cmd \in Commands, Start(cmd)
  PROVE  Rest'
<1>1. running'.cmd = cmd /\ running'.at = 1 /\ running.cmd = "none" /\ UNCHANGED <<objects, crs, operator, begun, halted>>
  BY StartIs DEF DeployInv
<1>2. running.cmd \notin Joins /\ ~Unjoining /\ InMember' = InMember
  BY <1>1, JoinNames DEF Unjoining, InMember
<1>3. CASE ~Unjoining'
  BY <1>1, <1>2, <1>3, Frame, LikeItself
<1>4. CASE Unjoining'
  <2>1. crs["member"].tree => "tree" \in running'.seen
    <3>1. cmd = "unjoin member"
      BY <1>1, <1>4 DEF Unjoining
    <3>2. cmd \in Unjoins /\ Target(cmd) = "member"
      BY <3>1, TargetOf DEF Unjoins
    <3> QED BY <3>2, StartIs DEF DeployInv
  <2>2. Placed' /\ Held'
    BY <1>1, <1>2 DEF DeployInv, Placed, Held, InMode
  <2>3. Known'
    BY <1>1, <1>4, <2>1 DEF Known
  <2>4. Owned'
    BY <1>1, <1>2 DEF DeployInv, Owned
  <2>5. Cleared'
    <3>1. ~(running'.at > 4) /\ ~(running'.at > 7)
      BY <1>1
    <3> QED BY <3>1 DEF Cleared
  <2> QED BY <2>2, <2>3, <2>4, <2>5 DEF Rest
<1> QED BY <1>3, <1>4

(* An unjoin starts that could not read the Cluster.                       *)
LEMMA UnreadKeeps ==
  ASSUME DeployInv, NEW cmd \in Unjoins, StartUnread(cmd)
  PROVE  Rest'
<1>1. /\ running'.cmd = cmd /\ running'.at = 1 /\ running.cmd = "none" /\ UNCHANGED <<objects, crs, operator, begun>>
      /\ halted' = halted \cup {Target(cmd)}
  BY UnreadIs DEF DeployInv
<1>2. running.cmd \notin Joins /\ ~Unjoining /\ InMember' = InMember
  BY <1>1, JoinNames DEF Unjoining, InMember
<1>3. CASE ~Unjoining'
  BY <1>1, <1>2, <1>3, Frame, LikeItself
<1>4. CASE Unjoining'
  <2>1. "member" \in halted'
    <3>1. cmd = "unjoin member"
      BY <1>1, <1>4 DEF Unjoining
    <3> QED BY <1>1, <3>1, TargetOf
  <2>2. Placed' /\ Held'
    BY <1>1, <1>2 DEF DeployInv, Placed, Held, InMode
  <2>3. Known' /\ Owned'
    BY <1>1, <2>1 DEF Known, Owned
  <2>4. Cleared'
    <3>1. ~(running'.at > 4) /\ ~(running'.at > 7)
      BY <1>1
    <3> QED BY <3>1 DEF Cleared
  <2> QED BY <2>2, <2>3, <2>4 DEF Rest
<1> QED BY <1>3, <1>4

(* A look of an uninstall that is passed over.                             *)
LEMMA FailKeeps ==
  ASSUME DeployInv, CallFails
  PROVE  Rest'
<1>1. UNCHANGED <<objects, crs, operator, begun>> /\ InMember' = InMember
  BY FailsIs DEF DeployInv, InMember
<1>2. CASE Aborts
  BY <1>1, <1>2, AbortKeeps
<1>3. CASE ~Aborts
  <2>1. running.cmd \in Uninstalls /\ halted' = halted /\ running'.cmd = running.cmd
    BY <1>3, FailsIs DEF DeployInv, Goes
  <2>2. ~Unjoining /\ ~Unjoining' /\ running.cmd \notin Joins
    BY <2>1, JoinNames DEF Unjoining, Uninstalls
  <2> QED BY <1>1, <2>1, <2>2, Frame, LikeItself
<1> QED BY <1>2, <1>3

(* A namespace goes with what is in it.                                    *)
LEMMA EndsKeeps ==
  ASSUME DeployInv, NEW c \in Members, NamespaceEnds(c)
  PROVE  Rest'
<1>1. /\ UNCHANGED <<crs, running, begun, halted>> /\ (operator' = operator \/ operator' = Down)
      /\ objects'[c] = objects[c] \cap (ClusterWide \ {"nsEnding"})
      /\ \A d \in Members \ {c} : objects'[d] = objects[d]
  BY EndsIs DEF DeployInv
<1>2. operator'.now = operator.now \/ operator'.now = Resting
  BY <1>1, Constants
<1>3. CASE c # "member"
  <2>1. InMember' = InMember
    BY <1>1, <1>3 DEF InMember, Members
  <2> QED BY <1>1, <1>2, <2>1, Frame, LikeItself, RestingAway
<1>4. CASE c = "member"
  <2>1. InMember' \subseteq InMember /\ InMember' \subseteq ClusterWide
    BY <1>1, <1>4 DEF InMember
  <2>2. Placed'
    BY <1>1, <1>2, <2>1, Constants DEF DeployInv, Placed, Housed
  <2>3. /\ InMode("syncCluster")' => InMode("syncCluster") /\ operator'.now = operator.now
        /\ InMode("removeCluster")' => InMode("removeCluster") /\ operator'.now = operator.now
    BY <1>2, Constants DEF InMode
  <2>4. Held'
    BY <1>1, <2>1, <2>3 DEF DeployInv, Held
  <2>5. Known' /\ Owned'
    BY <1>1, <2>1 DEF DeployInv, Known, Owned, Unjoining
  <2>6. Cleared'
    BY <1>1, <2>1, <2>3 DEF DeployInv, Cleared, Unjoining
  <2> QED BY <2>2, <2>4, <2>5, <2>6 DEF Rest
<1> QED BY <1>3, <1>4

(* A join makes its calls in order, and is past the last when it returns.  *)
LEMMA JoinNext ==
  ASSUME DeployTypeOK, running.cmd \in Joins
  PROVE  /\ Len(Programs[running.cmd]) = Reg(running.cmd) + 3
         /\ running.at <= Len(Programs[running.cmd]) => Position(running) = running.at
         /\ Returned(running) => running.at > Reg(running.cmd)
<1>1. running.cmd \in Commands /\ running.at \in Nat /\ 1 <= running.at /\ running.at <= Len(Programs[running.cmd]) + 1
  BY DEF DeployTypeOK, RunningRec
<1>2. PICK r \in {3, 4} : r = Reg(running.cmd)
  BY DEF Reg
<1>3. PICK p : p = Programs[running.cmd]
  OBVIOUS
<1>4. /\ Len(p) = r + 3
      /\ \A i \in 1..(r - 1) : p[i] \in Creations("member", Added(Trees(running.cmd)))
      /\ p[r] = Registration(Links(running.cmd), Trees(running.cmd))
      /\ \A i \in (r + 1)..(r + 3) : p[i] \in Creations("member", {"controlSA", "emptySecret", "kosmosRole"})
  BY <1>2, <1>3, JoinProgram
<1>5. \A O : \A s \in Creations("member", O) : Due(s, running)
  BY StepDue DEF Creations
<1>6. Due(p[r], running)
  <2>1. ASSUME NEW s, s.only = "", s.unless = "" PROVE Due(s, running)
    BY <2>1 DEF Due
  <2>2. ASSUME NEW l, NEW t PROVE Registration(l, t).only = "" /\ Registration(l, t).unless = ""
    BY DEF Registration
  <2> QED BY <1>4, <2>1, <2>2
<1>7. \A i \in 1..Len(p) : Due(p[i], running)
  <2> TAKE i \in 1..Len(p)
  <2>1. i \in 1..(r - 1) \/ i = r \/ i \in (r + 1)..(r + 3)
    BY <1>4
  <2> QED BY <1>4, <1>5, <1>6, <2>1
<1>8. running.at <= Len(p) => Position(running) = running.at
  <2> SUFFICES ASSUME running.at <= Len(p) PROVE Position(running) = running.at
    OBVIOUS
  <2>1. Due(Programs[running.cmd][running.at], running)
    BY <1>1, <1>3, <1>4, <1>7
  <2> QED BY <1>1, <1>3, <2>1, DueIsNext
<1>9. Returned(running) => running.at > r
  <2>1. Returned(running) => Position(running) = Len(p) + 1
    BY <1>3 DEF Returned
  <2> QED BY <1>1, <1>3, <1>4, <1>8, <2>1
<1> QED BY <1>2, <1>3, <1>4, <1>8, <1>9

(* A command returns: a join has registered, an unjoin has deleted.        *)
LEMMA ReturnKeeps ==
  ASSUME DeployInv, CommandReturns
  PROVE  Rest'
<1>1. running'.cmd = "none" /\ UNCHANGED <<objects, crs, operator, begun, halted>> /\ Returned(running)
  BY Constants DEF CommandReturns
<1>2. running'.cmd \notin Joins /\ ~Unjoining' /\ InMember' = InMember
  BY <1>1, JoinNames DEF Unjoining, InMember
<1>3. CASE running.cmd \notin Joins /\ ~Unjoining
  BY <1>1, <1>2, <1>3, Frame, LikeItself
<1>4. Placed' /\ Held' /\ Cleared'
  BY <1>1, <1>2 DEF DeployInv, Placed, Held, InMode, Cleared
<1>5. CASE running.cmd \in Joins
  <2>1. ~Unjoining
    BY <1>5, JoinNames DEF Unjoining
  <2>2. Known'
    BY <1>1, <1>2, <2>1 DEF DeployInv, Known
  <2>3. ~(running.at <= Reg(running.cmd))
    <3>1. running.at > Reg(running.cmd)
      BY <1>1, <1>5, JoinNext DEF DeployInv
    <3>2. Reg(running.cmd) \in {3, 4} /\ running.at \in Nat
      BY DEF Reg, DeployInv, DeployTypeOK, RunningRec
    <3> QED BY <3>1, <3>2
  <2>4. Owned'
    BY <1>1, <1>2, <2>1, <2>3 DEF DeployInv, Owned
  <2> QED BY <1>4, <2>2, <2>4 DEF Rest
<1>6. CASE Unjoining
  <2>1. running.at > 7 /\ running.at \in Nat
    <3>1. Programs[running.cmd] = UnjoinCluster("member")
      BY <1>6, ProgramOf DEF Unjoining
    <3> QED BY <1>1, <3>1, UnjoinReturned DEF DeployInv, DeployTypeOK, RunningRec
  <2>2. crs["member"] = NoCluster
    BY <1>6, <2>1 DEF DeployInv, Known, Placed
  <2>3. ~crs["member"].deleting /\ ~crs["member"].tree
    BY <2>2 DEF NoCluster
  <2>4. running.cmd \notin Joins /\ ~(running.at <= 2)
    <3>1. running.cmd \notin Joins
      BY <1>6, JoinNames DEF Unjoining
    <3> QED BY <2>1, <3>1
  <2>5. Known' /\ Owned'
    BY <1>1, <1>2, <2>3, <2>4 DEF DeployInv, Known, Owned
  <2> QED BY <1>4, <2>5 DEF Rest
<1> QED BY <1>3, <1>5, <1>6

(* The operator.                                                           *)
LEMMA OperatorAway ==
  ASSUME DeployInv, operator'.now = operator.now \/ Away(operator'.now),
         UNCHANGED <<objects, crs, running, begun, halted>>
  PROVE  Rest'
<1>1. InMember' = InMember
  BY DEF InMember
<1> QED BY <1>1, Frame, LikeItself

(* The operator starts, crashes or meets an error.                         *)
LEMMA OperatorRests ==
  ASSUME DeployInv, OperatorStarts \/ OperatorCrashes \/ AddonFails
  PROVE  Rest'
<1>1. operator'.now = Resting
  <2>1. CASE OperatorStarts
    <3>1. PICK D, f : operator' = [Down EXCEPT !.up = TRUE, !.due = D, !.config = f]
      BY <2>1 DEF OperatorStarts
    <3> QED BY <3>1, Constants DEF OperatorRec
  <2>2. CASE OperatorCrashes
    BY <2>2, Constants DEF OperatorCrashes
  <2>3. CASE AddonFails
    BY <2>3, RequeuedIs DEF AddonFails, DeployInv
  <2> QED BY <2>1, <2>2, <2>3
<1>2. UNCHANGED <<objects, crs, running, begun, halted>>
  BY DEF OperatorStarts, OperatorCrashes, AddonFails
<1> QED BY <1>1, <1>2, OperatorAway, RestingAway

(* The Cluster of the member, which is gone when an unjoin goes on.        *)
LEMMA MemberCluster ==
  ASSUME DeployInv
  PROVE  /\ crs["member"] \in ClusterRec /\ "member" \in Members /\ Host \in Members /\ "member" # Host
         /\ crs["member"].deleting => crs["member"].there
         /\ Unjoining /\ running.at > 4 => crs["member"] = NoCluster
         /\ running.at \in Nat
<1>1. crs["member"] \in ClusterRec /\ "member" \in Members /\ Host \in Members /\ "member" # Host /\ running.at \in Nat
  BY DEF DeployInv, DeployTypeOK, Members, Host, RunningRec
<1>2. crs["member"].deleting => crs["member"].there
  BY DEF DeployInv, Placed, NoCluster
<1>3. Unjoining /\ running.at > 4 => crs["member"] = NoCluster
  BY <1>1 DEF DeployInv, Placed, Known
<1> QED BY <1>1, <1>2, <1>3

(* ClusterTree takes or releases the Cluster; the last release deletes it. *)
LEMMA TreeKeeps ==
  ASSUME DeployInv, NEW c \in Members, TreeHolds(c) \/ TreeReleases(c)
  PROVE  Rest'
<1>1. UNCHANGED <<objects, running, begun, halted>> /\ InMember' = InMember
  BY DEF TreeHolds, TreeReleases, InMember
<1>2. PICK cr \in ClusterRec : cr = crs[c]
  BY DEF DeployInv, DeployTypeOK
<1>3. [cr EXCEPT !.finalizers = @ \cup {"tree"}] \in ClusterRec /\ [cr EXCEPT !.finalizers = @ \ {"tree"}] \in ClusterRec
  BY DEF ClusterRec
<1>4. CASE c # "member"
  <2>1. crs'["member"] = crs["member"] /\ operator'.now = operator.now
    BY <1>2, <1>3, <1>4, SetClusterIs, MemberCluster DEF TreeHolds, TreeReleases, DeployInv
  <2> QED BY <1>1, <2>1, Frame, LikeItself
<1>5. CASE c = "member" /\ TreeHolds(c)
  <2>1. crs'["member"] = [cr EXCEPT !.finalizers = @ \cup {"tree"}] /\ operator'.now = operator.now
    <3>1. ~cr.deleting
      BY <1>2, <1>5 DEF TreeHolds
    <3>2. ~[cr EXCEPT !.finalizers = @ \cup {"tree"}].deleting
      BY <3>1 DEF ClusterRec
    <3> QED BY <1>2, <1>3, <1>5, <3>2, SetClusterIs DEF TreeHolds, DeployInv
  <2>2. Like(crs'["member"], cr)
    <3>1. cr.there
      BY <1>2, <1>5 DEF TreeHolds
    <3> QED BY <2>1, <3>1 DEF Like, ClusterRec
  <2> QED BY <1>1, <1>2, <1>5, <2>1, <2>2, Frame
<1>6. CASE c = "member" /\ TreeReleases(c)
  <2>1. PICK nr \in ClusterRec : nr = [cr EXCEPT !.finalizers = @ \ {"tree"}]
    BY <1>3
  <2>2. crs'["member"] = (IF nr.deleting /\ nr.finalizers = {} THEN NoCluster ELSE nr) /\ operator'.now = operator.now
    BY <1>2, <1>6, <2>1, SetClusterIs DEF TreeReleases, DeployInv
  <2>3. cr.deleting /\ cr.there
    BY <1>2, <1>6, MemberCluster DEF TreeReleases
  <2>4. CASE nr.finalizers = {}
    <3>1. crs'["member"] = NoCluster
      BY <2>1, <2>2, <2>3, <2>4 DEF ClusterRec
    <3>2. "operator" \notin cr.finalizers
      BY <2>1, <2>4 DEF ClusterRec
    <3>3. {"electorRole", "managerRole"} \cap InMember # {} => "member" \in begun'
      BY <1>1, <1>2, <1>6, <3>2 DEF DeployInv, Held
    <3>4. InMode("syncCluster")' => "member" \in begun'
      BY <1>1, <1>2, <1>6, <2>2, <3>2 DEF DeployInv, Held, InMode
    <3> QED BY <1>1, <1>2, <1>6, <2>2, <2>3, <3>1, <3>2, <3>3, <3>4, Gone
  <2>5. CASE nr.finalizers # {}
    <3>1. Like(crs'["member"], cr)
      BY <2>1, <2>2, <2>3, <2>5 DEF Like, ClusterRec
    <3> QED BY <1>1, <1>2, <1>6, <2>2, <3>1, Frame
  <2> QED BY <2>4, <2>5
<1> QED BY <1>4, <1>5, <1>6

(* The operator reads the Cluster of the member.                           *)
LEMMA ReconcileKeeps ==
  ASSUME DeployInv, NEW c \in Members, Reconcile(c)
  PROVE  Rest'
<1>1. PICK m : m = ReconcileMode(crs[c])
  OBVIOUS
<1>2. /\ operator'.now = IF m = "idle" THEN Resting ELSE [on |-> c, mode |-> m, at |-> 1, was |-> crs[c]]
      /\ m \in {"idle", "syncCluster", "removeCluster"}
      /\ m # "idle" => crs[c].there
      /\ m = "removeCluster" => crs[c].deleting
  BY <1>1, ReconcileIs DEF DeployInv
<1>3. UNCHANGED <<objects, crs, running, halted>> /\ InMember' = InMember
  BY DEF Reconcile, InMember
<1>4. begun' = IF m = "syncCluster" /\ "operator" \notin crs[c].finalizers THEN begun \cup {c} ELSE begun
  BY <1>1 DEF Reconcile
<1>5. CASE m = "idle"
  BY <1>2, <1>3, <1>4, <1>5, OperatorAway, RestingAway
<1>6. CASE m # "idle" /\ c # "member"
  <2>1. Away(operator'.now)
    BY <1>2, <1>6 DEF Away, Sound, Members, Host
  <2>2. "member" \in begun' <=> "member" \in begun
    BY <1>4, <1>6
  <2> QED BY <1>3, <2>1, <2>2, Frame, LikeItself
<1>7. CASE m # "idle" /\ c = "member"
  <2>1. PICK n : n = operator'.now /\ n.on = "member" /\ n.mode = m /\ n.at = 1 /\ n.was = crs["member"]
    BY <1>2, <1>7
  <2>2. Placed'
    BY <1>2, <1>3, <1>7, <2>1 DEF DeployInv, Placed
  <2>3. Held'
    <3>1. ~(n.at > 2) /\ ~(n.at > 4)
      BY <2>1
    <3>2. ({"electorRole", "managerRole"} \cap InMember # {} =>
       "operator" \in crs["member"].finalizers \/ "member" \in begun)'
      BY <1>3, <1>4 DEF DeployInv, Held
    <3>3. (InMode("syncCluster") =>
       IF "operator" \in operator.now.was.finalizers THEN "operator" \in crs["member"].finalizers
       ELSE "member" \in begun)'
      BY <1>3, <1>4, <1>7, <2>1 DEF InMode
    <3> QED BY <2>1, <3>1, <3>2, <3>3 DEF Held
  <2>4. Known'
    BY <1>3 DEF DeployInv, Known, Unjoining
  <2>5. Owned'
    BY <1>3 DEF DeployInv, Owned, Unjoining
  <2>6. ~Unjoining \/ ~(running.at > 4)
    BY <1>2, <1>7, MemberCluster DEF NoCluster
  <2>7. Cleared'
    <3>1. running'.at = running.at /\ (Unjoining' <=> Unjoining) /\ running.at \in Nat
      BY <1>3, MemberCluster DEF Unjoining
    <3> QED BY <2>6, <3>1 DEF Cleared
  <2> QED BY <2>2, <2>3, <2>4, <2>5, <2>7 DEF Rest
<1> QED BY <1>5, <1>6, <1>7

(* What the operator takes out of a cluster again.                         *)
Removable == {"manager", "managerRole", "elector", "electorRole", "agent", "proxy"}

(* The operator deletes no more than it installed.                         *)
LEMMA UninstallIn ==
  ASSUME NEW c PROVE \A i \in 1..Len(Uninstall(c)) : Uninstall(c)[i].op = "delete" /\ Uninstall(c)[i].obj \in Removable
<1> DEFINE S == {s \in Calls(c) : s.op = "delete" /\ s.obj \in Removable}
<1>1. ASSUME NEW os \in Seq(Removable) PROVE Deletes(c, os) \in Seq(S)
  <2>1. Removable \subseteq Names
    BY DEF Removable, Names
  <2>2. os \in Seq(Names) /\ Len(os) \in Nat /\ \A i \in 1..Len(os) : os[i] \in Removable
    BY <2>1, SeqMonotonic
  <2>3. \A i \in 1..Len(os) : Step("delete", c, os[i]) \in Calls(c)
    BY <2>1, <2>2, StepCall DEF Ops
  <2>4. \A i \in 1..Len(os) : Step("delete", c, os[i]) \in S
    BY <2>2, <2>3 DEF Step
  <2>5. Deletes(c, os) \in [1..Len(os) -> S]
    BY <2>4 DEF Deletes
  <2> QED BY <2>2, <2>5, FunSeq
<1>2. /\ ManagerAddon \in Seq(Removable) /\ ElectorAddon \in Seq(Removable)
      /\ AgentAddon \in Seq(Removable) /\ ProxyAddon \in Seq(Removable)
  BY DEF Removable, ManagerAddon, ElectorAddon, AgentAddon, ProxyAddon
<1>3. /\ ManagerUninstall(c) \in Seq(S) /\ ElectorUninstall(c) \in Seq(S)
      /\ AgentUninstall(c) \in Seq(S) /\ ProxyUninstall(c) \in Seq(S)
  BY <1>1, <1>2 DEF ManagerUninstall, ElectorUninstall, AgentUninstall, ProxyUninstall
<1>4. \A s \in S : s.op = "delete" /\ s.obj \in Removable
  OBVIOUS
<1> HIDE DEF S
<1>5. ManagerUninstall(c) \o ElectorUninstall(c) \in Seq(S)
  BY <1>3, ConcatProperties
<1>6. (ManagerUninstall(c) \o ElectorUninstall(c)) \o AgentUninstall(c) \in Seq(S)
  BY <1>3, <1>5, ConcatProperties
<1>7. ((ManagerUninstall(c) \o ElectorUninstall(c)) \o AgentUninstall(c)) \o ProxyUninstall(c) \in Seq(S)
  BY <1>3, <1>6, ConcatProperties
<1>8. Uninstall(c) \in Seq(S)
  BY <1>7 DEF Uninstall
<1> QED BY <1>4, <1>8, ElementOfSeq

(* Only the operator's plans bring add-ons, and their roles, to the member *)
(* and take them out.                                                      *)
LEMMA ApplyKeeps ==
  ASSUME DeployInv, ApplyAddon
  PROVE  Rest'
<1>1. PICK n \in NowRec : n = operator.now
  BY DEF DeployInv, DeployTypeOK, OperatorRec
<1>2. Working /\ UNCHANGED <<crs, running, begun, halted>> /\ n.at <= Len(Plan(n))
  BY <1>1 DEF ApplyAddon
<1>3. n.at \in Nat /\ 1 <= n.at /\ n.on \in Members
  BY DEF NowRec
<1>4. PICK s \in Calls(n.on) : s = Plan(n)[n.at] /\ s.op \in {"create", "delete"}
  <2>1. n.at \in 1..Len(Plan(n))
    BY <1>1, <1>2, <1>3, PlanIs DEF DeployInv
  <2> QED BY <1>1, <1>2, <2>1, PlanIs DEF DeployInv
<1>5. CASE operator' = Requeued /\ UNCHANGED objects
  BY <1>2, <1>5, RequeuedIs, OperatorAway, RestingAway DEF DeployInv
<1>6. CASE /\ s.op = "create" => CanCreate(s.at, s.obj)
           /\ objects' = [objects EXCEPT ![s.at] = IF s.op = "create" THEN CreateOrUpdate(@, s.obj) ELSE Deleted(@, s.obj)]
           /\ operator' = [operator EXCEPT !.now.at = @ + 1]
  <2>1. objects \in [Members -> SUBSET Names] /\ s.at = n.on
    BY <1>4 DEF DeployInv, DeployTypeOK, Calls
  <2>2. PICK k \in NowRec : k = operator'.now /\ k = [n EXCEPT !.at = n.at + 1]
    <3>1. [n EXCEPT !.at = n.at + 1] \in NowRec
      BY <1>3 DEF NowRec
    <3>2. operator \in OperatorRec
      BY DEF DeployInv, DeployTypeOK
    <3> QED BY <1>1, <1>6, <3>1, <3>2 DEF OperatorRec
  <2>3. k.on = n.on /\ k.mode = n.mode /\ k.was = n.was /\ k.at = n.at + 1
    BY <2>2 DEF NowRec
  <2>4. Sound(n) /\ Sound(k)
    BY <1>1, <2>3 DEF DeployInv, Placed, Sound
  <2>5. CASE n.on # "member"
    <3>1. InMember' = InMember
      BY <1>3, <1>6, <2>1, <2>5, MemberCluster DEF InMember
    <3>2. n.on = Host
      BY <1>3, <2>5 DEF Members, Host
    <3>3. Away(operator'.now)
      BY <2>2, <2>3, <2>4, <3>2 DEF Away
    <3> QED BY <1>2, <3>1, <3>3, Frame, LikeItself
  <2>6. ASSUME n.on = "member", InMember' \subseteq MemberNames, Housed(InMember'),
               "treeCRDs" \in InMember' => "treeCRDs" \in InMember, "kosmosRole" \in InMember' => "kosmosRole" \in InMember
        PROVE  /\ Placed' /\ Known' /\ Owned'
               /\ (Unjoining => (running.at > 4 => "kosmosRole" \notin InMember))'
    <3>1. Placed'
      BY <1>2, <2>2, <2>4, <2>6 DEF DeployInv, Placed, Sound
    <3>2. Known'
      BY <1>2 DEF DeployInv, Known, Unjoining
    <3>3. Owned'
      BY <1>2, <2>6 DEF DeployInv, Owned, Unjoining
    <3>4. (Unjoining => (running.at > 4 => "kosmosRole" \notin InMember))'
      BY <1>2, <2>6 DEF DeployInv, Cleared, Unjoining
    <3> QED BY <3>1, <3>2, <3>3, <3>4
  <2>7. CASE n.on = "member" /\ n.mode = "syncCluster"
    <3>1. s \in Creations("member", AddonNames)
      <4>1. Plan(n) = Install("member")
        BY <1>1, <1>2, <2>7, PlanIs DEF DeployInv
      <4>2. \A i \in 1..Len(Install("member")) : Install("member")[i] \in Creations("member", AddonNames)
        BY InstallShape, ElementOfSeq
      <4>3. Len(Install("member")) \in Nat
        BY InstallShape, LenProperties
      <4> QED BY <1>2, <1>3, <1>4, <4>1, <4>2, <4>3
    <3>2. PICK o \in AddonNames : s.op = "create" /\ s.obj = o
      <4>1. PICK x \in AddonNames : s = Step("create", "member", x)
        BY <3>1 DEF Creations
      <4> QED BY <4>1 DEF Step
    <3>3. InMember' \subseteq InMember \cup {o, "emptyProxySecret"}
      BY <1>6, <2>1, <2>7, <3>2, UpdatedIs DEF InMember, Members
    <3>4. InMember' \subseteq MemberNames /\ ("treeCRDs" \in InMember' => "treeCRDs" \in InMember)
      BY <3>3 DEF DeployInv, Placed, AddonNames, MemberNames
    <3>5. "kosmosRole" \in InMember' => "kosmosRole" \in InMember
      BY <3>3 DEF AddonNames
    <3>12. Housed(InMember')
      <4>1. s.op = "create" /\ InMember' = CreateOrUpdate(InMember, o)
        BY <1>6, <2>1, <2>7, <3>2 DEF InMember, Members
      <4>2. CanCreate("member", o)
        BY <1>6, <2>1, <2>7, <3>2
      <4> QED BY <4>1, <4>2, HousedKept DEF CanCreate, InMember, DeployInv, Placed
    <3>6. InMode("syncCluster") /\ ~InMode("removeCluster") /\ ~InMode("removeCluster")'
      BY <1>1, <2>2, <2>3, <2>7 DEF InMode
    <3>7. "operator" \in crs["member"].finalizers \/ "member" \in begun
      BY <3>6 DEF DeployInv, Held
    <3>8. Held'
      BY <1>1, <1>2, <2>2, <2>3, <3>6, <3>7 DEF DeployInv, Held
    <3>9. Unjoining /\ running.at > 7 => "member" \in begun
      BY <3>7, MemberCluster DEF NoCluster
    <3>10. Cleared'
      BY <1>2, <2>6, <2>7, <3>4, <3>5, <3>6, <3>9, <3>12 DEF Cleared, Unjoining
    <3> QED BY <2>6, <2>7, <3>4, <3>5, <3>8, <3>10, <3>12 DEF Rest
  <2>8. CASE n.on = "member" /\ n.mode = "removeCluster"
    <3>1. PICK p : p = Plan(n) /\ Len(p) = 6 /\ (\A i \in 1..6 : p[i].op = "delete" /\ p[i].obj \in Removable) /\ p[2].obj = "managerRole" /\ p[4].obj = "electorRole"
      <4>1. Plan(n) = Uninstall("member")
        BY <1>1, <1>2, <2>8, PlanIs DEF DeployInv
      <4> QED BY <4>1, UninstallShape, UninstallIn
    <3>2. s.op = "delete"
      BY <1>2, <1>3, <1>4, <3>1
    <3>3. InMember' = Deleted(InMember, s.obj)
      BY <1>6, <2>1, <2>8, <3>2 DEF InMember, Members
    <3>4. InMember' \subseteq InMember /\ s.obj \notin InMember' /\ Housed(InMember')
      <4>1. s.obj \in Removable
        BY <1>2, <1>3, <1>4, <3>1
      <4>2. s.obj \notin Namespace
        BY <4>1 DEF Removable, Namespace
      <4> QED BY <3>3, <4>2, DeletedIs, HousedKept DEF Namespace, DeployInv, Placed
    <3>5. InMember' \subseteq MemberNames
      BY <3>4 DEF DeployInv, Placed
    <3>6. InMode("removeCluster") /\ ~InMode("syncCluster")'
      BY <1>1, <2>2, <2>3, <2>8 DEF InMode
    <3>7. (n.at = 2 => s.obj = "managerRole") /\ (n.at = 4 => s.obj = "electorRole")
      BY <1>4, <3>1
    <3>8. (n.at > 2 => "managerRole" \notin InMember) /\ (n.at > 4 => "electorRole" \notin InMember)
      BY <1>1, <3>6 DEF DeployInv, Held
    <3>9. (k.at > 2 => "managerRole" \notin InMember') /\ (k.at > 4 => "electorRole" \notin InMember')
      <4>1. k.at > 2 => n.at = 2 \/ n.at > 2
        BY <1>3, <2>3
      <4>2. k.at > 4 => n.at = 4 \/ n.at > 4
        BY <1>3, <2>3
      <4> QED BY <3>4, <3>7, <3>8, <4>1, <4>2
    <3>10. Held'
      BY <1>2, <2>2, <3>4, <3>6, <3>9 DEF DeployInv, Held
    <3>11. Cleared'
      BY <1>2, <3>4, <3>6 DEF DeployInv, Cleared, Unjoining
    <3> QED BY <2>6, <2>8, <3>4, <3>5, <3>10, <3>11 DEF Rest
  <2> QED BY <1>1, <1>2, <2>5, <2>7, <2>8, PlanIs DEF DeployInv
<1> QED BY <1>1, <1>4, <1>5, <1>6 DEF ApplyAddon

(* The operator gets its finalizer on the Cluster it has read.             *)
LEMMA FinalizerKeeps ==
  ASSUME DeployInv, EnsureFinalizer
  PROVE  Rest'
<1>1. PICK n \in NowRec : n = operator.now
  BY DEF DeployInv, DeployTypeOK, OperatorRec
<1>2. Working /\ UNCHANGED <<objects, running, halted>> /\ InMember' = InMember /\ n.mode = "syncCluster" /\ n.on \in Members
  BY <1>1 DEF EnsureFinalizer, InMember, NowRec
<1>3. operator'.now = Resting
  <2>1. [operator EXCEPT !.now = Resting, !.due = @ \cup {n.on}] = [operator EXCEPT !.now = Resting, !.due = operator.due \cup {n.on}]
    BY DEF DeployInv, DeployTypeOK, OperatorRec
  <2>2. operator.due \cup {n.on} \in SUBSET Members
    BY <1>2 DEF DeployInv, DeployTypeOK, OperatorRec
  <2> QED BY <1>1, <2>1, <2>2, RequeuedIs, RestedIs DEF EnsureFinalizer, DeployInv
<1>4. CASE UNCHANGED <<crs, begun>>
  BY <1>2, <1>3, <1>4, OperatorAway, RestingAway
<1>5. CASE /\ crs[n.on] = n.was /\ ~n.was.deleting
           /\ crs' = [crs EXCEPT ![n.on].finalizers = @ \cup {"operator"}]
           /\ begun' = begun \ {n.on}
  <2>1. PICK cr \in ClusterRec : cr = crs[n.on]
    BY <1>2 DEF DeployInv, DeployTypeOK
  <2>2. PICK nr : nr = [cr EXCEPT !.finalizers = @ \cup {"operator"}]
    OBVIOUS
  <2>3. crs \in [Members -> ClusterRec] /\ crs' = [crs EXCEPT ![n.on] = nr]
    BY <1>2, <1>5, <2>1, <2>2 DEF DeployInv, DeployTypeOK
  <2>4. CASE n.on # "member"
    BY <1>2, <1>3, <1>5, <2>3, <2>4, Frame, LikeItself, RestingAway, MemberCluster
  <2>5. CASE n.on = "member"
    <3>1. crs'["member"] = nr /\ cr.there
      <4>1. n.was.there
        BY <1>1, <1>2 DEF DeployInv, Placed
      <4> QED BY <1>2, <1>5, <2>1, <2>3, <2>5, <4>1
    <3>2. /\ nr.there = cr.there /\ nr.tree = cr.tree /\ nr.deleting = cr.deleting /\ "operator" \in nr.finalizers
      BY <2>1, <2>2 DEF ClusterRec
    <3>3. ~InMode("syncCluster")' /\ ~InMode("removeCluster")'
      BY <1>3, Constants DEF InMode
    <3>4. Placed'
      BY <1>2, <1>3, <3>1, <3>2, Constants DEF DeployInv, Placed
    <3>5. Held'
      BY <3>1, <3>2, <3>3 DEF Held
    <3>6. Known' /\ Owned'
      BY <1>2, <2>1, <2>5, <3>1, <3>2 DEF DeployInv, Known, Owned, Unjoining
    <3>7. ~(Unjoining /\ running.at > 4)
      BY <2>1, <2>5, <3>1, MemberCluster DEF NoCluster
    <3>8. Cleared'
      <4>1. running'.at = running.at /\ (Unjoining' <=> Unjoining) /\ running.at \in Nat
        BY <1>2, MemberCluster DEF Unjoining
      <4> QED BY <3>7, <4>1 DEF Cleared
    <3> QED BY <3>4, <3>5, <3>6, <3>8 DEF Rest
  <2> QED BY <2>4, <2>5
<1> QED BY <1>1, <1>4, <1>5 DEF EnsureFinalizer

(* The roles are gone when the operator lets the Cluster go.               *)
LEMMA ReleaseKeeps ==
  ASSUME DeployInv, ReleaseCluster
  PROVE  Rest'
<1>1. PICK n \in NowRec : n = operator.now
  BY DEF DeployInv, DeployTypeOK, OperatorRec
<1>2. /\ Working /\ UNCHANGED <<objects, running, halted>> /\ InMember' = InMember /\ n.mode = "removeCluster"
      /\ n.at > Len(Plan(n)) /\ n.on \in Members /\ begun' = begun \ {n.on} /\ n.at \in Nat
  BY <1>1 DEF ReleaseCluster, InMember, NowRec
<1>3. operator'.now = Resting
  <2>1. [operator EXCEPT !.now = Resting, !.due = @ \cup {n.on}] = [operator EXCEPT !.now = Resting, !.due = operator.due \cup {n.on}]
    BY DEF DeployInv, DeployTypeOK, OperatorRec
  <2>2. operator.due \cup {n.on} \in SUBSET Members
    BY <1>2 DEF DeployInv, DeployTypeOK, OperatorRec
  <2> QED BY <1>1, <2>1, <2>2, RequeuedIs, RestedIs DEF ReleaseCluster, DeployInv
<1>4. UNCHANGED crs \/ (crs[n.on] = n.was /\ crs' = [crs EXCEPT ![n.on] = NoCluster])
  BY <1>1 DEF ReleaseCluster
<1>5. CASE n.on # "member"
  <2>1. crs'["member"] = crs["member"]
    BY <1>2, <1>4, <1>5, MemberCluster DEF DeployInv, DeployTypeOK
  <2> QED BY <1>2, <1>3, <1>5, <2>1, Frame, LikeItself, RestingAway
<1>6. CASE n.on = "member"
  <2>1. InMode("removeCluster") /\ ~InMode("syncCluster")' /\ ~InMode("removeCluster")'
    BY <1>1, <1>2, <1>3, <1>6, Constants DEF InMode
  <2>2. n.at > 4 /\ n.at > 2
    <3>1. Len(Plan(n)) = 6
      <4>1. Plan(n) = Uninstall("member")
        BY <1>1, <1>2, <1>6, PlanIs DEF DeployInv
      <4> QED BY <4>1, UninstallShape
    <3> QED BY <1>2, <3>1
  <2>3. {"electorRole", "managerRole"} \cap InMember = {}
    BY <1>1, <2>1, <2>2 DEF DeployInv, Held
  <2>4. CASE UNCHANGED crs
    <3>1. Placed'
      BY <1>2, <1>3, <2>4, Constants DEF DeployInv, Placed
    <3>2. Held'
      BY <1>2, <2>1, <2>3 DEF Held
    <3>3. Known' /\ Owned'
      BY <1>2, <2>4 DEF DeployInv, Known, Owned, Unjoining
    <3>4. Cleared'
      BY <1>2, <2>1 DEF DeployInv, Cleared, Unjoining
    <3> QED BY <3>1, <3>2, <3>3, <3>4 DEF Rest
  <2>5. CASE crs[n.on] = n.was /\ crs' = [crs EXCEPT ![n.on] = NoCluster]
    <3>1. crs["member"].deleting /\ crs["member"].there
      BY <1>1, <1>2, <1>6, <2>5 DEF DeployInv, Placed
    <3>2. crs'["member"] = NoCluster
      BY <1>6, <2>5, MemberCluster DEF DeployInv, DeployTypeOK
    <3> QED BY <1>2, <1>3, <2>1, <2>3, <3>1, <3>2, Gone
  <2> QED BY <1>4, <2>4, <2>5
<1> QED BY <1>5, <1>6

(* A command against the host does nothing to the member.                  *)
LEMMA HostKeeps ==
  ASSUME DeployInv, Call, running.cmd \notin Joins, ~Unjoining
  PROVE  Rest'
<1>1. running # NoCommand /\ ~Returned(running) /\ begun' = begun /\ Target(running.cmd) = Host
  BY Targets DEF Call
<1>2. PICK s \in Calls(Host) : s = This
  BY <1>1, CallIs DEF DeployInv
<1>3. s.at = Host /\ (s.op \in Ops => s.obj \in Names)
  BY DEF Calls, Ops
<1>4. \/ CallCreate(s) \/ CallDelete(s) \/ CallLook(s) \/ CallWait(s)
      \/ CallDrop(s) \/ CallRegister(s) \/ CallEnable(s) \/ CallRemove(s)
  BY <1>2 DEF Call, This
<1>5. objects \in [Members -> SUBSET Names] /\ crs \in [Members -> ClusterRec]
  BY DEF DeployInv, DeployTypeOK
<1>6. InMember' = InMember
  BY <1>3, <1>4, <1>5, MemberCluster
     DEF InMember, CallCreate, CallDelete, CallLook, CallWait, CallDrop, CallRegister, CallEnable, CallRemove
<1>7. crs'["member"] = crs["member"]
  <2>1. ASSUME NEW cr, SetCluster(Host, cr) PROVE crs'["member"] = crs["member"]
    BY <1>5, <2>1, MemberCluster DEF SetCluster
  <2> QED BY <1>3, <1>4, <2>1
         DEF CallCreate, CallDelete, CallLook, CallWait, CallDrop, CallRegister, CallEnable, CallRemove
<1>8. operator'.now = operator.now \/ operator'.now = Resting
  <2>1. ASSUME NEW cr, SetCluster(Host, cr) PROVE operator'.now = operator.now
    BY <2>1 DEF SetCluster, Told, DeployInv, DeployTypeOK, OperatorRec
  <2> QED BY <1>3, <1>4, <2>1, Constants
         DEF CallCreate, CallDelete, CallLook, CallWait, CallDrop, CallRegister, CallEnable, CallRemove
<1>9. "member" \in halted => "member" \in halted'
  BY <1>4 DEF CallCreate, CallDelete, CallLook, CallWait, CallDrop, CallRegister, CallEnable, CallRemove, Aborts
<1>10. running'.cmd = running.cmd \/ running'.cmd = "none"
  <2>1. running \in RunningRec
    BY DEF DeployInv, DeployTypeOK
  <2>2. ASSUME Advance PROVE running'.cmd = running.cmd
    BY <2>1, <2>2 DEF Advance, RunningRec
  <2>3. ASSUME NEW o, NEW b, Finds(o, b) PROVE running'.cmd = running.cmd
    BY <2>1, <2>3 DEF Finds, RunningRec
  <2>4. ASSUME Aborts PROVE running'.cmd = "none"
    BY <2>4, Constants DEF Aborts
  <2>5. ASSUME CallLook(s) PROVE running'.cmd = running.cmd
    BY <2>1, <2>3, <2>5 DEF CallLook, RunningRec
  <2> QED BY <1>4, <2>2, <2>3, <2>4, <2>5
         DEF CallCreate, CallDelete, CallWait, CallDrop, CallRegister, CallEnable, CallRemove
<1>11. ~Unjoining'
  BY <1>10 DEF Unjoining
<1> QED BY <1>1, <1>6, <1>7, <1>8, <1>9, <1>11, Frame, LikeItself, RestingAway

(* A join creates something.                                               *)
LEMMA JoinCreates ==
  ASSUME DeployInv, running.cmd \in Joins, ~Unjoining', running'.cmd = running.cmd,
         NEW o \in MemberNames \ {"electorRole", "managerRole"}, InMember' \subseteq InMember \cup {o}, Housed(InMember'),
         running.at <= Reg(running.cmd) => running'.at <= Reg(running.cmd),
         o = "treeCRDs" => Trees(running.cmd) /\ running'.at <= Reg(running.cmd),
         UNCHANGED <<crs, operator, begun, halted>>
  PROVE  Rest'
<1>1. ~Unjoining
  BY JoinNames DEF Unjoining
<1>2. Placed'
  BY DEF DeployInv, Placed
<1>3. Held'
  <2>1. \A x \in {"electorRole", "managerRole"} : x \in InMember' => x \in InMember
    OBVIOUS
  <2> QED BY <2>1 DEF DeployInv, Held, InMode
<1>4. Known' /\ Cleared'
  BY <1>1 DEF DeployInv, Known, Cleared
<1>5. Owned'
  BY <1>1 DEF DeployInv, Owned
<1> QED BY <1>2, <1>3, <1>4, <1>5 DEF Rest

(* A join registers the Cluster.                                           *)
LEMMA JoinRegisters ==
  ASSUME DeployInv, running.cmd \in Joins, ~Unjoining', ~crs["member"].there, InMember' = InMember,
         NEW l \in BOOLEAN,
         crs'["member"] = [NoCluster EXCEPT !.there = TRUE, !.link = l, !.tree = Trees(running.cmd)],
         operator'.now = operator.now, UNCHANGED <<begun, halted>>
  PROVE  Rest'
<1>1. ~Unjoining /\ crs["member"] = NoCluster
  BY JoinNames DEF Unjoining, DeployInv, Placed
<1>2. /\ crs'["member"].there /\ ~crs'["member"].deleting /\ "operator" \notin crs'["member"].finalizers
      /\ crs'["member"].tree = Trees(running.cmd)
      /\ "operator" \notin crs["member"].finalizers /\ ~crs["member"].tree
  BY <1>1 DEF NoCluster
<1>3. Placed'
  BY <1>2 DEF DeployInv, Placed
<1>4. Held'
  BY <1>2 DEF DeployInv, Held, InMode
<1>5. Known' /\ Cleared'
  BY <1>2 DEF Known, Cleared
<1>6. Owned'
  BY <1>1, <1>2 DEF DeployInv, Owned
<1> QED BY <1>3, <1>4, <1>5, <1>6 DEF Rest

(* A call of a join.                                                       *)
LEMMA JoinKeeps ==
  ASSUME DeployInv, Call, running.cmd \in Joins
  PROVE  Rest'
<1>1. running # NoCommand /\ ~Returned(running) /\ begun' = begun /\ Target(running.cmd) = "member"
  BY Targets DEF Call
<1>2. PICK r \in {3, 4} : r = Reg(running.cmd)
  BY DEF Reg
<1>3. Position(running) = running.at /\ running.at \in Nat /\ 1 <= running.at /\ running.at <= r + 3
  <2>1. /\ running.at \in Nat /\ 1 <= running.at /\ Position(running) \in Nat /\ running.at <= Position(running)
        /\ Position(running) <= Len(Programs[running.cmd]) /\ Len(Programs[running.cmd]) = r + 3
    BY <1>1, <1>2, CallIs, JoinNext DEF DeployInv, DeployTypeOK, RunningRec
  <2>2. running.at <= Len(Programs[running.cmd])
    BY <2>1
  <2> QED BY <2>1, <2>2, JoinNext DEF DeployInv
<1>4. PICK s : s = This /\ s = Programs[running.cmd][running.at]
  BY <1>3 DEF This
<1>5. \/ CallCreate(s) \/ CallDelete(s) \/ CallLook(s) \/ CallWait(s)
      \/ CallDrop(s) \/ CallRegister(s) \/ CallEnable(s) \/ CallRemove(s)
  BY <1>4 DEF Call, This
<1>6. ASSUME Advance PROVE running'.cmd = running.cmd /\ running'.at = running.at + 1 /\ ~Unjoining'
  <2>1. running'.cmd = running.cmd /\ running'.at = running.at + 1
    BY <1>1, <1>3, <1>6, AdvanceGoes DEF Goes, DeployInv
  <2> QED BY <2>1, JoinNames DEF Unjoining
<1>7. /\ running.at < r => s \in Creations("member", Added(Trees(running.cmd)))
      /\ running.at = r => s = Registration(Links(running.cmd), Trees(running.cmd))
      /\ running.at > r => s \in Creations("member", {"controlSA", "emptySecret", "kosmosRole"})
  BY <1>2, <1>3, <1>4, JoinProgram
<1>8. CASE running.at # r
  <2>1. PICK o \in MemberNames \ {"electorRole", "managerRole"} :
              /\ s = Step("create", "member", o)
              /\ o = "treeCRDs" => Trees(running.cmd) /\ running.at < r
    <3>1. CASE running.at < r
      <4>1. PICK x \in Added(Trees(running.cmd)) : s = Step("create", "member", x)
        BY <1>7, <3>1 DEF Creations
      <4>2. x \in MemberNames \ {"electorRole", "managerRole"} /\ (x = "treeCRDs" => Trees(running.cmd))
        BY DEF Added, MemberNames
      <4> QED BY <3>1, <4>1, <4>2
    <3>2. CASE running.at > r
      <4>1. PICK x \in {"controlSA", "emptySecret", "kosmosRole"} : s = Step("create", "member", x)
        BY <1>7, <3>2 DEF Creations
      <4>2. x \in MemberNames \ {"electorRole", "managerRole"} /\ x # "treeCRDs"
        BY DEF MemberNames
      <4> QED BY <4>1, <4>2
    <3> QED BY <1>2, <1>3, <1>8, <3>1, <3>2
  <2>2. s.op = "create" /\ s.at = "member" /\ s.obj = o
    BY <2>1 DEF Step
  <2>3. CallCreate(s)
    BY <1>5, <2>2 DEF CallDelete, CallLook, CallWait, CallDrop, CallRegister, CallEnable, CallRemove
  <2>4. UNCHANGED <<crs, operator>>
    BY <2>3 DEF CallCreate
  <2>5. CASE Aborts /\ UNCHANGED objects
    <3>1. InMember' = InMember
      BY <2>5 DEF InMember
    <3> QED BY <1>1, <2>4, <2>5, <3>1, AbortKeeps
  <2>6. CASE CanCreate("member", o) /\ objects' = [objects EXCEPT !["member"] = Created(@, o)] /\ Advance /\ UNCHANGED halted
    <3>1. InMember' \subseteq InMember \cup {o} /\ Housed(InMember')
      <4>1. InMember' = Created(InMember, o)
        BY <2>6, MemberCluster DEF InMember, DeployInv, DeployTypeOK
      <4>2. o \in ClusterWide \/ "ns" \in InMember
        BY <2>6 DEF CanCreate, InMember
      <4> QED BY <4>1, <4>2, CreatedIs, HousedKept DEF DeployInv, Placed
    <3>2. running'.cmd = running.cmd /\ running'.at = running.at + 1 /\ ~Unjoining'
      BY <1>6, <2>6
    <3>3. running.at <= r => running'.at <= r
      BY <1>2, <1>3, <1>8, <3>2
    <3>4. o = "treeCRDs" => Trees(running.cmd) /\ running'.at <= r
      BY <1>2, <1>3, <2>1, <3>2
    <3> QED BY <1>1, <1>2, <2>4, <2>6, <3>1, <3>2, <3>3, <3>4, JoinCreates
  <2> QED BY <2>2, <2>3, <2>5, <2>6 DEF CallCreate
<1>9. CASE running.at = r
  <2>1. /\ s.op = "register" /\ s.at = "member" /\ s.obj = <<Links(running.cmd), Trees(running.cmd)>>
    <3>1. ASSUME NEW l, NEW t
          PROVE  /\ Registration(l, t).op = "register" /\ Registration(l, t).at = "member"
                 /\ Registration(l, t).obj = <<l, t>>
      BY DEF Registration
    <3> QED BY <1>2, <1>3, <1>7, <1>9, <3>1
  <2>2. CallRegister(s)
    BY <1>5, <2>1 DEF CallCreate, CallDelete, CallLook, CallWait, CallDrop, CallEnable, CallRemove
  <2>3. InMember' = InMember
    BY <2>2 DEF CallRegister, InMember
  <2>4. CASE Aborts /\ UNCHANGED <<crs, operator>>
    BY <1>1, <2>3, <2>4, AbortKeeps
  <2>5. CASE /\ ~crs["member"].there
             /\ SetCluster("member", [NoCluster EXCEPT !.there = TRUE, !.link = Links(running.cmd), !.tree = Trees(running.cmd)])
             /\ Advance /\ UNCHANGED halted
    <3>1. PICK l \in BOOLEAN : l = Links(running.cmd)
      BY DEF Links
    <3>2. PICK cr \in ClusterRec : cr = [NoCluster EXCEPT !.there = TRUE, !.link = l, !.tree = Trees(running.cmd)] /\ ~cr.deleting
      <4>1. PICK t \in BOOLEAN : t = Trees(running.cmd)
        BY DEF Trees
      <4>2. [NoCluster EXCEPT !.there = TRUE, !.link = l, !.tree = t] \in ClusterRec
        BY DEF NoCluster, ClusterRec
      <4>3. ~[NoCluster EXCEPT !.there = TRUE, !.link = l, !.tree = t].deleting
        BY DEF NoCluster
      <4> QED BY <4>1, <4>2, <4>3
    <3>3. crs'["member"] = cr /\ operator'.now = operator.now
      BY <2>5, <3>1, <3>2, SetClusterIs, MemberCluster DEF DeployInv
    <3> QED BY <1>1, <1>6, <2>3, <2>5, <3>2, <3>3, JoinRegisters
  <2> QED BY <2>1, <2>2, <2>4, <2>5 DEF CallRegister
<1> QED BY <1>8, <1>9

(* The calls of an unjoin that do not depend on what it has read.          *)
LEMMA UnjoinDue ==
  ASSUME NEW p, p = UnjoinCluster("member"), NEW j
  PROVE  Due(p[1], j) /\ Due(p[4], j) /\ ("tree" \in j.seen => Due(p[2], j))
<1>1. /\ p[1] = Step("remove", "member", "cluster")
      /\ p[2] = Given(Step("delete", "member", "treeCRDs"), "tree")
      /\ p[4] = Step("delete", "member", "kosmosRole")
  BY UnjoinShape
<1>2. ASSUME NEW x PROVE Given(Step("delete", "member", x), "tree").only = "tree" /\ Given(Step("delete", "member", x), "tree").unless = ""
  BY DEF Given, Step
<1>3. ASSUME NEW s, s.only = "tree", s.unless = "", "tree" \in j.seen PROVE Due(s, j)
  BY <1>3 DEF Due
<1> QED BY <1>1, <1>2, <1>3, StepDue

(* An unjoin waits for the Cluster to go.                                  *)
LEMMA RemoveKeeps ==
  ASSUME DeployInv, Unjoining, begun' = begun, NEW s, s.at = "member", CallRemove(s),
         running # NoCommand, ~Returned(running), Position(running) = 1
  PROVE  Rest'
<1>1. UNCHANGED <<objects, halted>> /\ InMember' = InMember
  BY DEF CallRemove, InMember
<1>2. PICK cr \in ClusterRec : cr = crs["member"]
  BY MemberCluster
<1>3. CASE cr.there
  <2>1. PICK nr \in ClusterRec : nr = [cr EXCEPT !.deleting = TRUE]
    BY DEF ClusterRec
  <2>2. running' = running /\ SetCluster("member", nr)
    BY <1>2, <1>3, <2>1 DEF CallRemove
  <2>3. crs'["member"] = (IF nr.deleting /\ nr.finalizers = {} THEN NoCluster ELSE nr) /\ operator'.now = operator.now
    BY <2>2, SetClusterIs, MemberCluster DEF DeployInv
  <2>4. nr.deleting /\ nr.there = cr.there /\ nr.tree = cr.tree /\ nr.finalizers = cr.finalizers
    BY <2>1 DEF ClusterRec
  <2>5. CASE nr.finalizers = {}
    <3>1. crs'["member"] = NoCluster /\ "operator" \notin crs["member"].finalizers
      BY <1>2, <2>3, <2>4, <2>5
    <3>2. {"electorRole", "managerRole"} \cap InMember # {} => "member" \in begun'
      BY <3>1 DEF DeployInv, Held
    <3>3. InMode("syncCluster")' => "member" \in begun'
      BY <2>3, <3>1 DEF DeployInv, Held, InMode
    <3> QED BY <1>1, <1>2, <1>3, <2>2, <2>3, <3>1, <3>2, <3>3, Gone
  <2>6. CASE nr.finalizers # {}
    <3>1. crs'["member"] = nr /\ (Unjoining' <=> Unjoining) /\ (InMode("syncCluster")' <=> InMode("syncCluster"))
          /\ (InMode("removeCluster")' <=> InMode("removeCluster"))
      BY <2>2, <2>3, <2>6 DEF Unjoining, InMode
    <3>2. Placed'
      BY <1>1, <1>3, <2>3, <2>4, <3>1 DEF DeployInv, Placed
    <3>3. Held'
      BY <1>1, <1>2, <2>3, <2>4, <3>1 DEF DeployInv, Held
    <3>4. Known'
      BY <1>1, <1>2, <2>2, <2>4, <3>1 DEF DeployInv, Known
    <3>5. Owned'
      BY <1>1, <1>2, <2>2, <2>4, <3>1 DEF DeployInv, Owned
    <3>6. Cleared'
      BY <1>1, <2>2, <3>1 DEF DeployInv, Cleared
    <3> QED BY <3>2, <3>3, <3>4, <3>5, <3>6 DEF Rest
  <2> QED BY <2>5, <2>6
<1>4. CASE ~cr.there
  <2>1. Advance /\ UNCHANGED <<crs, operator>>
    BY <1>2, <1>4 DEF CallRemove
  <2>2. running'.cmd = running.cmd /\ running'.at = 2 /\ running'.seen = running.seen
    <3>1. Goes(running') /\ running'.seen = running.seen
      BY <2>1, AdvanceGoes DEF DeployInv
    <3> QED BY <3>1 DEF Goes
  <2>3. Unjoining' /\ running'.at <= 2 /\ ~(running'.at > 4) /\ ~(running'.at > 7)
    <3>1. Unjoining'
      BY <2>2 DEF Unjoining
    <3> QED BY <2>2, <3>1
  <2>4. crs["member"] = NoCluster
    BY <1>2, <1>4 DEF DeployInv, Placed
  <2>5. ~NoCluster.there /\ ~NoCluster.tree
    BY DEF NoCluster
  <2>6. Placed' /\ Held'
    BY <1>1, <2>1 DEF DeployInv, Placed, Held, InMode
  <2>7. Known'
    BY <2>1, <2>3, <2>4, <2>5 DEF Known
  <2>8. running.cmd \notin Joins
    BY JoinNames DEF Unjoining
  <2>9. Owned'
    BY <1>1, <2>2, <2>3, <2>4, <2>5, <2>8 DEF DeployInv, Owned
  <2>10. Cleared'
    BY <2>3 DEF Cleared
  <2> QED BY <2>6, <2>7, <2>9, <2>10 DEF Rest
<1> QED BY <1>3, <1>4

(* Then it deletes what it has put into the member.                        *)
LEMMA UnjoinDeletes ==
  ASSUME DeployInv, Unjoining, begun' = begun, halted' = halted, crs' = crs,
         NEW i \in 2..7, 2 <= running.at, running.at <= i,
         running'.cmd = running.cmd, running'.at = i + 1,
         "tree" \in running'.seen <=> "tree" \in running.seen,
         InMember' \subseteq InMember \cup {"nsEnding"}, Housed(InMember'),
         "tree" \in running.seen /\ running.at = 2 => "treeCRDs" \notin InMember',
         i >= 4 /\ running.at <= 4 => "kosmosRole" \notin InMember',
         i = 7 => "ns" \notin InMember',
         operator'.now = operator.now \/ operator'.now = Resting
  PROVE  Rest'
<1>1. Unjoining' /\ running.cmd \notin Joins /\ running.at \in Nat
  BY JoinNames, MemberCluster DEF Unjoining
<1>2. crs["member"] = NoCluster
  <2>1. running.at # 1
    BY <1>1
  <2> QED BY <2>1 DEF DeployInv, Known, Placed
<1>3. ~NoCluster.there /\ ~NoCluster.tree /\ ~NoCluster.deleting
  BY DEF NoCluster
<1>4. Placed'
  BY Constants DEF DeployInv, Placed, MemberNames
<1>5. /\ InMode("syncCluster")' => InMode("syncCluster") /\ operator'.now = operator.now
      /\ InMode("removeCluster")' => InMode("removeCluster") /\ operator'.now = operator.now
  BY Constants DEF InMode
<1>6. Held'
  BY <1>5 DEF DeployInv, Held
<1>7. Known'
  BY <1>2, <1>3 DEF Known
<1>8. Owned'
  <2> SUFFICES ASSUME "treeCRDs" \in InMember', "member" \notin halted PROVE FALSE
    BY DEF Owned
  <2>1. "tree" \in running.seen /\ running.at <= 2
    BY <1>1, <1>2, <1>3 DEF DeployInv, Owned
  <2>2. running.at = 2
    BY <1>1, <2>1
  <2> QED BY <2>1, <2>2
<1>9. running'.at > 4 => "kosmosRole" \notin InMember'
  <2> SUFFICES ASSUME running'.at > 4 PROVE "kosmosRole" \notin InMember'
    OBVIOUS
  <2>1. i >= 4 /\ (running.at <= 4 \/ running.at > 4)
    BY <1>1
  <2> QED BY <2>1 DEF DeployInv, Cleared
<1>10. running'.at > 7 => "ns" \notin InMember'
  OBVIOUS
<1>11. Cleared'
  BY <1>9, <1>10 DEF Cleared
<1> QED BY <1>4, <1>6, <1>7, <1>8, <1>11 DEF Rest

(* A call of an unjoin.                                                    *)
LEMMA UnjoinKeeps ==
  ASSUME DeployInv, Call, Unjoining
  PROVE  Rest'
<1>1. running # NoCommand /\ ~Returned(running) /\ begun' = begun
  BY DEF Call
<1>2. PICK p : p = UnjoinCluster("member") /\ p = Programs[running.cmd]
  <2>1. Programs[running.cmd] = UnjoinCluster("member")
    BY ProgramOf DEF Unjoining
  <2> QED BY <2>1
<1>3. /\ Len(p) = 7
      /\ p[1] = Step("remove", "member", "cluster")
      /\ p[2] = Given(Step("delete", "member", "treeCRDs"), "tree")
      /\ p[3] = Step("delete", "member", "emptySecret")
      /\ p[4] = Step("delete", "member", "kosmosRole")
      /\ p[5] = Step("delete", "member", "controlSA")
      /\ p[6] = Given(Step("delete", "member", "operatorSA"), "link")
      /\ p[7] = Step("delete", "member", "ns")
  BY <1>2, UnjoinShape
<1>4. PICK i \in Nat : /\ i = Position(running) /\ running.at <= i /\ i <= 7
                       /\ \A h \in running.at..(i - 1) : ~Due(p[h], running)
  BY <1>1, <1>2, <1>3, CallIs DEF DeployInv
<1>5. running.at \in Nat /\ 1 <= running.at
  BY DEF DeployInv, DeployTypeOK, RunningRec
<1>6. PICK s : s = p[i] /\ s = This
  BY <1>2, <1>4 DEF This
<1>7. \/ CallCreate(s) \/ CallDelete(s) \/ CallLook(s) \/ CallWait(s)
      \/ CallDrop(s) \/ CallRegister(s) \/ CallEnable(s) \/ CallRemove(s)
  BY <1>6 DEF Call, This
<1>8. /\ p[1].op = "remove" /\ p[1].at = "member"
      /\ p[3].op = "delete" /\ p[3].at = "member" /\ p[3].obj = "emptySecret"
      /\ p[4].op = "delete" /\ p[4].at = "member" /\ p[4].obj = "kosmosRole"
      /\ p[5].op = "delete" /\ p[5].at = "member" /\ p[5].obj = "controlSA"
      /\ p[7].op = "delete" /\ p[7].at = "member" /\ p[7].obj = "ns"
  <2>1. ASSUME NEW x PROVE /\ Step("delete", "member", x).op = "delete" /\ Step("delete", "member", x).at = "member"
                           /\ Step("delete", "member", x).obj = x
    BY DEF Step
  <2>2. Step("remove", "member", "cluster").op = "remove" /\ Step("remove", "member", "cluster").at = "member"
    BY DEF Step
  <2>3. ASSUME NEW x, NEW q, q = Step("delete", "member", x)
        PROVE  q.op = "delete" /\ q.at = "member" /\ q.obj = x
    BY <2>1, <2>3
  <2> QED BY <1>3, <2>2, <2>3
<1>9. /\ p[2].op = "delete" /\ p[2].at = "member" /\ p[2].obj = "treeCRDs"
      /\ p[6].op = "delete" /\ p[6].at = "member" /\ p[6].obj = "operatorSA"
  BY <1>3 DEF Step, Given
<1>10. CASE i = 1
  <2>1. s.op = "remove" /\ s.at = "member"
    BY <1>6, <1>8, <1>10
  <2>2. CallRemove(s)
    BY <1>7, <2>1 DEF CallCreate, CallDelete, CallLook, CallWait, CallDrop, CallRegister, CallEnable
  <2> QED BY <1>1, <1>4, <1>10, <2>1, <2>2, RemoveKeeps
<1>11. CASE i # 1
  <2>1. i \in 2..7 /\ 2 <= running.at
    <3>1. i \in 2..7
      BY <1>4, <1>5, <1>11
    <3>2. running.at # 1
      <4>1. ASSUME running.at = 1 PROVE FALSE
        <5>1. 1 \in running.at..(i - 1)
          BY <3>1, <4>1
        <5> QED BY <1>2, <1>4, <5>1, UnjoinDue
      <4> QED BY <4>1
    <3> QED BY <1>5, <3>1, <3>2
  <2>2. s.op = "delete" /\ s.at = "member" /\ s.obj \in Names \ {"tree", "nsEnding"} /\
        (i = 2 => s.obj = "treeCRDs") /\ (i = 4 => s.obj = "kosmosRole") /\ (i = 7 => s.obj = "ns")
    <3>1. i = 2 \/ i = 3 \/ i = 4 \/ i = 5 \/ i = 6 \/ i = 7
      BY <2>1
    <3>2. {"treeCRDs", "emptySecret", "kosmosRole", "controlSA", "operatorSA", "ns"} \subseteq Names \ {"tree", "nsEnding"}
      BY DEF Names
    <3>3. CASE i = 2
      <4>1. s = p[2]
        BY <1>6, <3>3
      <4>2. s.op = "delete" /\ s.at = "member" /\ s.obj = "treeCRDs"
        BY <1>9, <4>1
      <4> QED BY <3>2, <3>3, <4>2
    <3>4. CASE i = 3
      <4>1. s = p[3]
        BY <1>6, <3>4
      <4>2. s.op = "delete" /\ s.at = "member" /\ s.obj = "emptySecret"
        BY <1>8, <4>1
      <4> QED BY <3>2, <3>4, <4>2
    <3>5. CASE i = 4
      <4>1. s = p[4]
        BY <1>6, <3>5
      <4>2. s.op = "delete" /\ s.at = "member" /\ s.obj = "kosmosRole"
        BY <1>8, <4>1
      <4> QED BY <3>2, <3>5, <4>2
    <3>6. CASE i = 5
      <4>1. s = p[5]
        BY <1>6, <3>6
      <4>2. s.op = "delete" /\ s.at = "member" /\ s.obj = "controlSA"
        BY <1>8, <4>1
      <4> QED BY <3>2, <3>6, <4>2
    <3>7. CASE i = 6
      <4>1. s = p[6]
        BY <1>6, <3>7
      <4>2. s.op = "delete" /\ s.at = "member" /\ s.obj = "operatorSA"
        BY <1>9, <4>1
      <4> QED BY <3>2, <3>7, <4>2
    <3>8. CASE i = 7
      <4>1. s = p[7]
        BY <1>6, <3>8
      <4>2. s.op = "delete" /\ s.at = "member" /\ s.obj = "ns"
        BY <1>8, <4>1
      <4> QED BY <3>2, <3>8, <4>2
    <3> QED BY <3>1, <3>3, <3>4, <3>5, <3>6, <3>7, <3>8
  <2>3. CallDelete(s)
    BY <1>7, <2>2 DEF CallCreate, CallRemove, CallLook, CallWait, CallDrop, CallRegister, CallEnable
  <2>4. InMember' = Deleted(InMember, s.obj)
    BY <2>2, <2>3, MemberCluster DEF CallDelete, InMember, DeployInv, DeployTypeOK
  <2>5. InMember' \subseteq InMember \cup {"nsEnding"} /\ s.obj \notin InMember' /\ Housed(InMember')
    <3>1. s.obj = "ns" \/ s.obj \notin Namespace
      BY <2>2 DEF Namespace
    <3> QED BY <2>4, <3>1, DeletedIs, HousedKept DEF DeployInv, Placed
  <2>6. running'.cmd = running.cmd /\ running'.at = i + 1 /\ ("tree" \in running'.seen <=> "tree" \in running.seen)
    <3>1. PICK b : Finds(s.obj, b)
      BY <2>3 DEF CallDelete
    <3>2. Goes(running') /\ \A x \in Names \ {s.obj} : x \in running'.seen <=> x \in running.seen
      BY <1>1, <2>2, <3>1, FindsGoes DEF DeployInv
    <3>3. "tree" \in Names \ {s.obj}
      BY <2>2 DEF Names
    <3> QED BY <1>4, <3>2, <3>3 DEF Goes
  <2>7. ASSUME NEW h \in {2, 4}, Due(p[h], running), running.at <= h, i >= h PROVE i = h
    <3>1. ASSUME i # h PROVE FALSE
      <4>1. h \in running.at..(i - 1)
        BY <1>4, <1>5, <2>7, <3>1
      <4> QED BY <1>4, <2>7, <4>1
    <3> QED BY <3>1
  <2>8. "tree" \in running.seen /\ running.at = 2 => "treeCRDs" \notin InMember'
    <3> SUFFICES ASSUME "tree" \in running.seen, running.at = 2 PROVE "treeCRDs" \notin InMember'
      OBVIOUS
    <3>1. i = 2
      BY <1>2, <2>1, <2>7, UnjoinDue
    <3> QED BY <2>2, <2>5, <3>1
  <2>9. i >= 4 /\ running.at <= 4 => "kosmosRole" \notin InMember'
    <3> SUFFICES ASSUME i >= 4, running.at <= 4 PROVE "kosmosRole" \notin InMember'
      OBVIOUS
    <3>1. i = 4
      BY <1>2, <2>7, UnjoinDue
    <3> QED BY <2>2, <2>5, <3>1
  <2>10. crs' = crs /\ halted' = halted /\ (operator'.now = operator.now \/ operator'.now = Resting)
    BY <2>3, Constants DEF CallDelete
  <2>11. i = 7 => "ns" \notin InMember'
    BY <2>2, <2>5
  <2>12. InMember' \subseteq InMember \cup {"nsEnding"} /\ Housed(InMember')
    BY <2>5
  <2> QED BY <1>1, <1>4, <2>1, <2>6, <2>8, <2>9, <2>10, <2>11, <2>12, UnjoinDeletes
<1> QED BY <1>10, <1>11

(* Every step keeps what the invariant says of the member ...              *)
LEMMA RestSteps == DeployInv /\ [DeployNext]_deployVars => Rest'
<1> SUFFICES ASSUME DeployInv, [DeployNext]_deployVars PROVE Rest'
  OBVIOUS
<1>2. ASSUME NEW cmd \in Installs \cup Uninstalls \cup Joins \cup Unjoins, Start(cmd) PROVE Rest'
  <2>1. cmd \in Commands
    BY DEF Commands
  <2> QED BY <1>2, <2>1, StartKeeps
<1>3. CASE Call
  BY <1>3, HostKeeps, JoinKeeps, UnjoinKeeps
<1>4. CASE CallFails
  BY <1>4, FailKeeps
<1>5. CASE CommandReturns
  BY <1>5, ReturnKeeps
<1>6. CASE OperatorStarts \/ OperatorCrashes \/ AddonFails
  BY <1>6, OperatorRests
<1>7. CASE ApplyAddon
  BY <1>7, ApplyKeeps
<1>8. CASE EnsureFinalizer
  BY <1>8, FinalizerKeeps
<1>9. CASE ReleaseCluster
  BY <1>9, ReleaseKeeps
<1>10. ASSUME NEW c \in Members, Reconcile(c) PROVE Rest'
  BY <1>10, ReconcileKeeps
<1>11. ASSUME NEW c \in Members, TreeHolds(c) \/ TreeReleases(c) PROVE Rest'
  BY <1>11, TreeKeeps
<1>12. CASE UNCHANGED deployVars
  <2>1. UNCHANGED <<objects, crs, operator, running, begun, halted>> /\ InMember' = InMember
    BY <1>12 DEF deployVars, InMember
  <2> QED BY <2>1, Frame, LikeItself
<1>13. ASSUME NEW cmd \in Unjoins, StartUnread(cmd) PROVE Rest'
  BY <1>13, UnreadKeeps
<1>14. ASSUME NEW c \in Members, NamespaceEnds(c) PROVE Rest'
  BY <1>14, EndsKeeps
<1> QED BY <1>2, <1>3, <1>4, <1>5, <1>6, <1>7, <1>8, <1>9, <1>10, <1>11, <1>12, <1>13, <1>14 DEF DeployNext, OperatorSteps

(* ... and so the invariant.                                               *)
LEMMA DeploySteps == DeployInv /\ [DeployNext]_deployVars => DeployInv'
BY StepTypes, RestSteps DEF DeployInv, Rest

(* The state of the clusters, the command that runs and the operator keep  *)
(* their types whatever fails: a command never runs past its program       *)
(* (kosmosctl, operator_controller.go).                                    *)
THEOREM DeployTyping == DeploySpec => []DeployTypeOK
<1>1. DeployInit => DeployTypeOK
  BY DeployStarts DEF DeployInv
<1>2. DeployTypeOK /\ [DeployNext]_deployVars => DeployTypeOK'
  BY StepTypes
<1> QED BY <1>1, <1>2, PTL DEF DeploySpec

(* An unjoin that returns nil leaves nothing in the member but a namespace *)
(* that is going and, after a call that failed, the CRDs of ClusterTree,   *)
(* once the operator had its finalizer: for any number of commands, failing*)
(* calls and crashes of the operator (unjoin.go, operator_controller.go).  *)
THEOREM UnjoinClean == DeploySpec => []UnjoinLeavesNothing
<1> QED BY DeployStarts, DeploySteps, InvEnough, PTL DEF DeploySpec

-----------------------------------------------------------------------------
(* Commands go through. *)

(* The objects that have to be there for a call not to end the command.    *)
Wants(s) ==
  IF s.op = "create" THEN (IF s.obj \in ClusterWide \ WithAccount THEN {} ELSE {"ns"})
  ELSE IF s.op # "wait" THEN {}
  ELSE IF s.obj = "operator" THEN {"operator", "panelSecret"} \cup OperatorNeeds
  ELSE Needs(s.obj)

(* Call s creates o, and is made whenever t is.                            *)
Plain(s) == s.only = "" /\ s.unless = ""
Brings(s, o, t) ==
  s.op = "create" /\ s.obj = o /\ s.only \in {"", t.only} /\ s.unless \in {"", t.unless}

(* A call of a program that only builds.                                   *)
Buildable == Names \ (Removable \cup {"nsEnding"})
Waited == {"netManager", "operator", "treeManager", "scheduler", "coredns"}
Building(s) ==
  /\ s.op \in {"create", "look", "wait", "register", "enable"}
  /\ s.op = "create" => s.obj \in Buildable
  /\ s.op = "wait" => s.at = Host /\ s.obj \in Waited

(* A program that only builds: every call finds what it wants among the    *)
(* objects B from before or those created on the way, M names objects that *)
(* it creates under no condition, its conditions are in T, and what it     *)
(* looks for in L was no condition before.                                 *)
Builds(c, p, B, M, T, L) ==
  /\ p \in Seq(Calls(c)) /\ Len(p) \in Nat
  /\ \A i \in 1..Len(p) :
       /\ Building(p[i])
       /\ p[i].only \in T /\ p[i].unless \in T
       /\ p[i].op = "look" => p[i].obj \in L /\ \A h \in 1..(i - 1) : p[i].obj \notin {p[h].only, p[h].unless}
       /\ \A o \in Wants(p[i]) : o \in B \/ \E h \in 1..(i - 1) : Brings(p[h], o, p[i])
  /\ \A o \in M : \E h \in 1..Len(p) : p[h].op = "create" /\ p[h].obj = o /\ Plain(p[h])

(* One program after the other.                                            *)
LEMMA BuildsOn ==
  ASSUME NEW c, NEW p, NEW B, NEW M, NEW T, NEW L, Builds(c, p, B, M, T, L),
         NEW q, NEW C, NEW N, NEW U, NEW K, Builds(c, q, C, N, U, K),
         C \subseteq B \cup M, T \cap K = {}
  PROVE  Builds(c, p \o q, B, M \cup N, T \cup U, L \cup K)
<1>1. p \in Seq(Calls(c)) /\ q \in Seq(Calls(c)) /\ Len(p) \in Nat /\ Len(q) \in Nat
  BY DEF Builds
<1>2. Linked(Calls(c), p \o q, p, q)
  BY <1>1, Cat
<1>3. PICK r, m, n : r = p \o q /\ m = Len(p) /\ n = Len(q)
  OBVIOUS
<1>4. /\ r \in Seq(Calls(c)) /\ Len(r) = m + n /\ m \in Nat /\ n \in Nat
      /\ \A i \in 1..m : r[i] = p[i]
      /\ \A i \in 1..n : r[m + i] = q[i]
  BY <1>1, <1>2, <1>3 DEF Linked
<1>5. ASSUME NEW i \in 1..m
      PROVE  /\ Building(r[i])
             /\ r[i].only \in T \cup U /\ r[i].unless \in T \cup U
             /\ r[i].op = "look" =>
                  r[i].obj \in L \cup K /\ \A h \in 1..(i - 1) : r[i].obj \notin {r[h].only, r[h].unless}
             /\ \A o \in Wants(r[i]) : o \in B \/ \E h \in 1..(i - 1) : Brings(r[h], o, r[i])
  <2>1. r[i] = p[i] /\ \A h \in 1..(i - 1) : r[h] = p[h]
    BY <1>4
  <2>2. /\ Building(p[i])
        /\ p[i].only \in T /\ p[i].unless \in T
        /\ p[i].op = "look" => p[i].obj \in L /\ \A h \in 1..(i - 1) : p[i].obj \notin {p[h].only, p[h].unless}
        /\ \A o \in Wants(p[i]) : o \in B \/ \E h \in 1..(i - 1) : Brings(p[h], o, p[i])
    BY <1>3 DEF Builds
  <2> QED BY <2>1, <2>2
<1>6. ASSUME NEW i \in 1..n
      PROVE  LET k == m + i
             IN  /\ Building(r[k])
                 /\ r[k].only \in T \cup U /\ r[k].unless \in T \cup U
                 /\ r[k].op = "look" =>
                      r[k].obj \in L \cup K /\ \A h \in 1..(k - 1) : r[k].obj \notin {r[h].only, r[h].unless}
                 /\ \A o \in Wants(r[k]) : o \in B \/ \E h \in 1..(k - 1) : Brings(r[h], o, r[k])
  <2>0. /\ Building(q[i])
        /\ q[i].only \in U /\ q[i].unless \in U
        /\ q[i].op = "look" => q[i].obj \in K /\ \A h \in 1..(i - 1) : q[i].obj \notin {q[h].only, q[h].unless}
        /\ \A o \in Wants(q[i]) : o \in C \/ \E h \in 1..(i - 1) : Brings(q[h], o, q[i])
    BY <1>3 DEF Builds
  <2>1. PICK s : s = q[i] /\ s = r[m + i]
    BY <1>4
  <2>2. /\ Building(s)
        /\ s.only \in U /\ s.unless \in U
        /\ s.op = "look" => s.obj \in K /\ \A h \in 1..(i - 1) : s.obj \notin {q[h].only, q[h].unless}
        /\ \A o \in Wants(s) : o \in C \/ \E h \in 1..(i - 1) : Brings(q[h], o, s)
    BY <2>0, <2>1
  <2>3. ASSUME NEW h \in 1..((m + i) - 1)
        PROVE  h \in 1..m \/ (h - m \in 1..(i - 1) /\ h - m \in 1..n /\ r[h] = q[h - m])
    <3>1. CASE h <= m
      BY <1>4, <3>1
    <3>2. CASE ~(h <= m)
      <4>1. h - m \in 1..(i - 1) /\ h - m \in 1..n /\ m + (h - m) = h
        BY <1>4, <3>2
      <4> QED BY <1>4, <4>1
    <3> QED BY <3>1, <3>2
  <2>4. ASSUME s.op = "look", NEW h \in 1..((m + i) - 1) PROVE s.obj \notin {r[h].only, r[h].unless}
    <3>1. CASE h \in 1..m
      <4>1. r[h].only \in T /\ r[h].unless \in T
        BY <1>3, <1>4, <3>1 DEF Builds
      <4> QED BY <2>2, <2>4, <4>1
    <3>2. CASE h - m \in 1..(i - 1) /\ r[h] = q[h - m]
      BY <2>2, <2>4, <3>2
    <3> QED BY <2>3, <3>1, <3>2
  <2>5. ASSUME NEW o \in Wants(s), o \notin B PROVE \E h \in 1..((m + i) - 1) : Brings(r[h], o, s)
    <3>1. CASE o \in M
      <4>1. PICK h \in 1..m : p[h].op = "create" /\ p[h].obj = o /\ Plain(p[h])
        BY <1>3, <3>1 DEF Builds
      <4>2. r[h] = p[h] /\ h \in 1..((m + i) - 1)
        BY <1>4, <4>1
      <4>3. Brings(r[h], o, s)
        BY <4>1, <4>2 DEF Brings, Plain
      <4> QED BY <4>2, <4>3
    <3>2. CASE \E h \in 1..(i - 1) : Brings(q[h], o, s)
      <4>1. PICK h \in 1..(i - 1) : Brings(q[h], o, s)
        BY <3>2
      <4>2. h \in 1..n /\ m + h \in 1..((m + i) - 1)
        BY <1>4, <4>1
      <4> QED BY <1>4, <4>1, <4>2
    <3> QED BY <2>2, <2>5, <3>1, <3>2
  <2> QED BY <2>1, <2>2, <2>4, <2>5
<1>7. ASSUME NEW o \in M \cup N
      PROVE  \E h \in 1..(m + n) : r[h].op = "create" /\ r[h].obj = o /\ Plain(r[h])
  <2>1. CASE o \in M
    <3>1. PICK h \in 1..m : p[h].op = "create" /\ p[h].obj = o /\ Plain(p[h])
      BY <1>3, <2>1 DEF Builds
    <3>2. h \in 1..(m + n)
      BY <1>4
    <3> QED BY <1>4, <3>1, <3>2
  <2>2. CASE o \in N
    <3>1. PICK h \in 1..n : q[h].op = "create" /\ q[h].obj = o /\ Plain(q[h])
      BY <1>3, <2>2 DEF Builds
    <3>2. m + h \in 1..(m + n)
      BY <1>4
    <3> QED BY <1>4, <3>1, <3>2
  <2> QED BY <2>1, <2>2
<1>8. \A k \in 1..(m + n) : k \in 1..m \/ (k - m \in 1..n /\ m + (k - m) = k)
  BY <1>4
<1>9. ASSUME NEW k \in 1..(m + n)
      PROVE  /\ Building(r[k])
             /\ r[k].only \in T \cup U /\ r[k].unless \in T \cup U
             /\ r[k].op = "look" =>
                  r[k].obj \in L \cup K /\ \A h \in 1..(k - 1) : r[k].obj \notin {r[h].only, r[h].unless}
             /\ \A o \in Wants(r[k]) : o \in B \/ \E h \in 1..(k - 1) : Brings(r[h], o, r[k])
  <2>1. CASE k \in 1..m
    BY <1>5, <2>1
  <2>2. CASE k - m \in 1..n /\ m + (k - m) = k
    <3>1. PICK i \in 1..n : m + i = k
      BY <2>2
    <3> QED BY <1>6, <3>1
  <2> QED BY <1>8, <2>1, <2>2
<1>10. Len(r) \in Nat
  BY <1>4
<1> QED BY <1>3, <1>4, <1>7, <1>9, <1>10 DEF Builds

(* Fewer of the objects may be named, and more conditions.                 *)
LEMMA BuildsLess ==
  ASSUME NEW c, NEW p, NEW B, NEW M, NEW T, NEW L, Builds(c, p, B, M, T, L), NEW N \in SUBSET M
  PROVE  Builds(c, p, B, N, T, L)
BY DEF Builds

(* The fields of a call without a condition.                               *)
LEMMA StepIs ==
  ASSUME NEW op, NEW c, NEW o
  PROVE  Step(op, c, o).op = op /\ Step(op, c, o).obj = o /\ Plain(Step(op, c, o))
BY DEF Step, Plain

(* A call without a condition is under no condition.                       *)
LEMMA PlainIs == ASSUME NEW s, Plain(s) PROVE s.only \in {""} /\ s.unless \in {""}
BY DEF Plain

(* The calls of a run of creations.                                        *)
LEMMA CreatesFields ==
  ASSUME NEW c, NEW os \in Seq(Names)
  PROVE  \A i \in 1..Len(os) : LET s == Creates(c, os)[i] IN s.op = "create" /\ s.obj = os[i] /\ Plain(s)
<1> TAKE i \in 1..Len(os)
<1>1. PICK s, o : s = Creates(c, os)[i] /\ o = os[i] /\ s = Step("create", c, o)
  BY CreatesCalls
<1>2. s.op = "create" /\ s.obj = o /\ Plain(s)
  BY <1>1, StepIs
<1> QED BY <1>1, <1>2

(* A run of creations, where there is a namespace or it makes one first.   *)
LEMMA CreatesBuild ==
  ASSUME NEW c, NEW os \in Seq(Buildable), NEW B, NEW M,
         \A i \in 1..Len(os) : os[i] \in ClusterWide \ WithAccount \/ "ns" \in B \/ (os[1] = "ns" /\ i # 1),
         \A o \in M : \E i \in 1..Len(os) : os[i] = o
  PROVE  Builds(c, Creates(c, os), B, M, {""}, {})
<1>1. os \in Seq(Names) /\ Len(os) \in Nat /\ \A i \in 1..Len(os) : os[i] \in Buildable
  BY SeqMonotonic DEF Buildable
<1>2. PICK p, n : p = Creates(c, os) /\ n = Len(os)
  OBVIOUS
<1>3. p \in Seq(Calls(c)) /\ Len(p) = n /\ n \in Nat
  BY <1>1, <1>2, CreatesCalls
<1>4. \A i \in 1..n : p[i].op = "create" /\ p[i].obj = os[i] /\ Plain(p[i]) /\ Building(p[i])
  <2>1. \A i \in 1..n : p[i].op = "create" /\ p[i].obj = os[i] /\ Plain(p[i])
    BY <1>1, <1>2, CreatesFields
  <2> QED BY <1>1, <1>2, <2>1 DEF Building
<1>5. ASSUME NEW i \in 1..n, NEW o \in Wants(p[i]), o \notin B PROVE \E h \in 1..(i - 1) : Brings(p[h], o, p[i])
  <2>1. o = "ns" /\ os[i] \notin ClusterWide \ WithAccount
    BY <1>4, <1>5 DEF Wants
  <2>2. os[1] = "ns" /\ i # 1
    BY <1>2, <1>5, <2>1
  <2>3. 1 \in 1..(i - 1) /\ 1 \in 1..n
    BY <1>3, <2>2
  <2>4. p[1].op = "create" /\ p[1].obj = o /\ Plain(p[1])
    BY <1>4, <2>1, <2>2, <2>3
  <2>5. Brings(p[1], o, p[i])
    BY <2>4 DEF Brings, Plain
  <2> QED BY <2>3, <2>5
<1>6. ASSUME NEW o \in M PROVE \E h \in 1..n : p[h].op = "create" /\ p[h].obj = o /\ Plain(p[h])
  <2>1. PICK h \in 1..n : os[h] = o
    BY <1>2
  <2> QED BY <1>4, <2>1
<1>7. PICK T : T = {""}
  OBVIOUS
<1>8. \A i \in 1..n : p[i].only \in T /\ p[i].unless \in T
  BY <1>4, <1>7, PlainIs
<1>9. Builds(c, p, B, M, T, {})
  BY <1>3, <1>4, <1>5, <1>6, <1>8 DEF Builds
<1> QED BY <1>2, <1>7, <1>9

(* A single call that wants nothing but what is there.                     *)
LEMMA OneBuilds ==
  ASSUME NEW c, NEW s \in Calls(c), NEW B, NEW L, s.op # "create", Building(s), Plain(s),
         Wants(s) \subseteq B, s.op = "look" => s.obj \in L
  PROVE  Builds(c, <<s>>, B, {}, {""}, L)
<1>1. PICK p : p = <<s>>
  OBVIOUS
<1>2. p \in Seq(Calls(c)) /\ Len(p) = 1 /\ p[1] = s
  BY <1>1
<1>3. \A i \in 1..1 : i = 1
  OBVIOUS
<1>4. \A h \in 1..(1 - 1) : FALSE
  OBVIOUS
<1> QED BY <1>1, <1>2, <1>3, <1>4 DEF Builds, Plain

(* Looking for an object, and waiting for what is complete.                *)
LEMMA HostBuilds ==
  ASSUME NEW o \in Names
  PROVE  /\ Builds(Host, Look(o), {}, {}, {""}, {o})
         /\ o \in Waited => \A B : Wants(Step("wait", Host, o)) \subseteq B => Builds(Host, Wait(o), B, {}, {""}, {})
<1>1. Step("look", Host, o) \in Calls(Host) /\ Step("wait", Host, o) \in Calls(Host)
  BY StepCall DEF Ops
<1>2. /\ Step("look", Host, o).op = "look" /\ Step("look", Host, o).obj = o /\ Plain(Step("look", Host, o))
      /\ Step("wait", Host, o).op = "wait" /\ Plain(Step("wait", Host, o))
      /\ Building(Step("look", Host, o)) /\ (o \in Waited => Building(Step("wait", Host, o)))
  BY DEF Step, Plain, Building
<1>3. Wants(Step("look", Host, o)) \subseteq {}
  BY <1>2 DEF Wants
<1>4. Builds(Host, Look(o), {}, {}, {""}, {o})
  BY <1>1, <1>2, <1>3, OneBuilds DEF Look
<1>5. ASSUME o \in Waited, NEW B, Wants(Step("wait", Host, o)) \subseteq B PROVE Builds(Host, Wait(o), B, {}, {""}, {})
  BY <1>1, <1>2, <1>5, OneBuilds DEF Wait
<1> QED BY <1>4, <1>5

(* The calls that register or change a Cluster want no object.             *)
LEMMA ClusterBuilds ==
  ASSUME NEW c, NEW op \in {"register", "enable"}, NEW l \in BOOLEAN, NEW t \in BOOLEAN
  PROVE  Builds(c, <<[op |-> op, at |-> c, obj |-> <<l, t>>, only |-> "", unless |-> ""]>>, {}, {}, {""}, {})
<1>1. PICK s : s = [op |-> op, at |-> c, obj |-> <<l, t>>, only |-> "", unless |-> ""]
  OBVIOUS
<1>2. s.op = op /\ Plain(s) /\ s \in Calls(c) /\ Building(s)
  <2>1. "" \in Names
    BY DEF Names
  <2> QED BY <1>1, <2>1 DEF Plain, Calls, Building
<1>3. Wants(s) = {}
  BY <1>2 DEF Wants
<1>4. Builds(c, <<s>>, {}, {}, {""}, {})
  BY <1>2, <1>3, OneBuilds
<1> QED BY <1>1, <1>4

(* An optional part builds, ...                                            *)
LEMMA OptBuilds ==
  ASSUME NEW c, NEW p, NEW B, NEW M, NEW T, NEW L, Builds(c, p, B, M, T, L), NEW b \in BOOLEAN
  PROVE  Builds(c, Opt(b, p), B, {}, T, L)
<1>1. CASE b
  BY <1>1 DEF Opt, Builds
<1>2. CASE ~b
  <2>1. Opt(b, p) = <<>> /\ <<>> \in Seq(Calls(c)) /\ Len(<<>>) = 0
    BY <1>2, EmptySeq DEF Opt
  <2>2. \A i \in 1..0 : FALSE
    OBVIOUS
  <2> QED BY <2>1, <2>2 DEF Builds
<1> QED BY <1>1, <1>2

(* An earlier position of a program.                                       *)
LEMMA Before == ASSUME NEW n \in Nat, NEW i \in 1..n, NEW h \in 1..(i - 1) PROVE h \in 1..n
OBVIOUS

(* ... and one under a condition builds as well.                           *)
LEMMA GivenBuilds ==
  ASSUME NEW c, NEW p, NEW B, NEW M, Builds(c, p, B, M, {""}, {}), NEW o \in Names
  PROVE  /\ Builds(c, Only(o, p), B, {}, {"", o}, {})
         /\ Builds(c, Unless(o, p), B, {}, {"", o}, {})
<1>1. p \in Seq(Calls(c)) /\ Len(p) \in Nat /\ \A i \in 1..Len(p) : \A h \in 1..(i - 1) : h \in 1..Len(p)
  <2>1. p \in Seq(Calls(c)) /\ Len(p) \in Nat
    BY DEF Builds
  <2> QED BY <2>1, Before
<1>2. ASSUME NEW q, q \in Seq(Calls(c)), Len(q) = Len(p),
             \A i \in 1..Len(p) : q[i].op = p[i].op /\ q[i].obj = p[i].obj /\ q[i].at = p[i].at /\ q[i].only \in {"", o} /\ q[i].unless \in {"", o},
             \A i, h \in 1..Len(p) : q[i].only = q[h].only /\ q[i].unless = q[h].unless
      PROVE  Builds(c, q, B, {}, {"", o}, {})
  <2>1. ASSUME NEW i \in 1..Len(p)
        PROVE  /\ Building(q[i]) /\ q[i].op # "look"
               /\ \A x \in Wants(q[i]) : x \in B \/ \E h \in 1..(i - 1) : Brings(q[h], x, q[i])
    <3>1. /\ Building(p[i]) /\ p[i].op # "look"
          /\ \A x \in Wants(p[i]) : x \in B \/ \E h \in 1..(i - 1) : Brings(p[h], x, p[i])
      BY DEF Builds
    <3>2. Wants(q[i]) = Wants(p[i])
      BY <1>2 DEF Wants
    <3>3. ASSUME NEW x \in Wants(q[i]), NEW h \in 1..(i - 1), Brings(p[h], x, p[i]) PROVE Brings(q[h], x, q[i])
      <4>1. h \in 1..Len(p)
        BY <1>1, <3>3
      <4> QED BY <1>2, <3>3, <4>1 DEF Brings
    <3> QED BY <1>2, <3>1, <3>2, <3>3 DEF Building
  <2> QED BY <1>1, <1>2, <2>1 DEF Builds
<1>3. Builds(c, Only(o, p), B, {}, {"", o}, {})
  <2>1. PICK q : q = Only(o, p)
    OBVIOUS
  <2>2. q \in Seq(Calls(c)) /\ Len(q) = Len(p) /\ \A i \in 1..Len(p) : q[i] = [p[i] EXCEPT !.only = o]
    <3>1. p \in Seq(Calls(c))
      BY <1>1
    <3>2. /\ Only(o, p) \in Seq(Calls(c)) /\ Len(Only(o, p)) = Len(p)
          /\ \A i \in 1..Len(p) : Only(o, p)[i] = [p[i] EXCEPT !.only = o]
      BY <3>1, OnlyCalls
    <3> QED BY <2>1, <3>2
  <2>3. ASSUME NEW i \in 1..Len(p)
        PROVE  q[i].op = p[i].op /\ q[i].obj = p[i].obj /\ q[i].at = p[i].at /\ q[i].only = o /\ q[i].unless = ""
    <3>1. p[i] \in Calls(c) /\ p[i].unless = ""
      BY <1>1, ElementOfSeq DEF Builds
    <3> QED BY <2>2, <3>1 DEF Calls
  <2> QED BY <1>2, <2>1, <2>2, <2>3
<1>4. Builds(c, Unless(o, p), B, {}, {"", o}, {})
  <2>1. PICK q : q = Unless(o, p)
    OBVIOUS
  <2>2. q \in Seq(Calls(c)) /\ Len(q) = Len(p) /\ \A i \in 1..Len(p) : q[i] = [p[i] EXCEPT !.unless = o]
    <3>1. p \in Seq(Calls(c))
      BY <1>1
    <3>2. /\ Unless(o, p) \in Seq(Calls(c)) /\ Len(Unless(o, p)) = Len(p)
          /\ \A i \in 1..Len(p) : Unless(o, p)[i] = [p[i] EXCEPT !.unless = o]
      BY <3>1, UnlessCalls
    <3> QED BY <2>1, <3>2
  <2>3. ASSUME NEW i \in 1..Len(p)
        PROVE  q[i].op = p[i].op /\ q[i].obj = p[i].obj /\ q[i].at = p[i].at /\ q[i].unless = o /\ q[i].only = ""
    <3>1. p[i] \in Calls(c) /\ p[i].only = ""
      BY <1>1, ElementOfSeq DEF Builds
    <3> QED BY <2>2, <3>1 DEF Calls
  <2> QED BY <1>2, <2>1, <2>2, <2>3
<1> QED BY <1>3, <1>4

(* The operator's Deployment and what it needs.                            *)
LEMMA OperatorBuilds == Builds(Host, CreateOperator, {"ns"}, {}, {""}, {})
<1> DEFINE os == <<"operator", "panelSecret", "kosmosRole", "operatorSA">>
           M == {"operator", "panelSecret", "kosmosRole", "operatorSA"}
<1>1. os \in Seq(Buildable) /\ Len(os) = 4
  BY DEF Buildable, Names, Removable
<1>2. \A o \in M : \E i \in 1..Len(os) : os[i] = o
  OBVIOUS
<1>3. Builds(Host, Creates(Host, os), {"ns"}, M, {""}, {})
  <2> HIDE DEF os, M
  <2> QED BY <1>1, <1>2, CreatesBuild
<1>4. Builds(Host, Wait("operator"), {"ns"} \cup M, {}, {""}, {})
  <2>1. Wants(Step("wait", Host, "operator")) \subseteq {"ns"} \cup M
    BY DEF Wants, Step, OperatorNeeds
  <2>2. "operator" \in Names /\ "operator" \in Waited
    BY DEF Names, Waited
  <2> HIDE DEF M
  <2> QED BY <2>1, <2>2, HostBuilds
<1>5. CreateOperator = Creates(Host, os) \o Wait("operator")
  BY DEF CreateOperator
<1> HIDE DEF os, M
<1>6. Builds(Host, CreateOperator, {"ns"}, M \cup {}, {""} \cup {""}, {} \cup {})
  BY <1>3, <1>4, <1>5, BuildsOn
<1> QED BY <1>6 DEF Builds

(* An installer: its objects, the namespace first, and then the wait.      *)
LEMMA InstallerBuilds ==
  ASSUME NEW os \in Seq(Buildable), os # <<>>, os[1] = "ns", NEW d \in Names \cap Waited, NEW M,
         \A o \in M : \E i \in 1..Len(os) : os[i] = o,
         Wants(Step("wait", Host, d)) \subseteq M
  PROVE  Builds(Host, Creates(Host, os) \o Wait(d), {}, M, {""}, {})
<1>1. \A i \in 1..Len(os) : os[i] \in ClusterWide \ WithAccount \/ "ns" \in {} \/ (os[1] = "ns" /\ i # 1)
  BY DEF ClusterWide, WithAccount
<1>2. Builds(Host, Creates(Host, os), {}, M, {""}, {})
  BY <1>1, CreatesBuild
<1>3. Builds(Host, Wait(d), M, {}, {""}, {})
  BY HostBuilds
<1>4. Builds(Host, Creates(Host, os) \o Wait(d), {}, M \cup {}, {""} \cup {""}, {} \cup {})
  BY <1>2, <1>3, BuildsOn
<1>5. M \cup {} = M /\ {""} \cup {""} = {""} /\ {} \cup {} = {}
  OBVIOUS
<1> QED BY <1>4, <1>5

(* The programs of install.go.                                             *)
LEMMA ClusterlinkBuilds == Builds(Host, InstallClusterlink, {}, {"ns"}, {"", "operator"}, {"operator"})
<1> DEFINE os == <<"ns", "linkRbac", "crdCluster", "crdLink", "netManager">>
           M == {"ns", "linkRbac", "crdCluster", "crdLink", "netManager"}
           A == Creates(Host, os) \o Wait("netManager")
           Z == Unless("operator", CreateOperator)
<1>1. os \in Seq(Buildable) /\ os # <<>> /\ os[1] = "ns" /\ "netManager" \in Names \cap Waited /\ "operator" \in Names
  BY DEF Buildable, Names, Removable, Waited
<1>2. \A o \in M : \E i \in 1..Len(os) : os[i] = o
  OBVIOUS
<1>3. Wants(Step("wait", Host, "netManager")) \subseteq M
  BY DEF Wants, Step, Needs, NetManagerNeeds
<1>4. Builds(Host, A, {}, M, {""}, {})
  <2> HIDE DEF os, M
  <2> QED BY <1>1, <1>2, <1>3, InstallerBuilds
<1>5. Builds(Host, Look("operator"), {}, {}, {""}, {"operator"})
  BY <1>1, HostBuilds
<1>6. Builds(Host, Z, {"ns"}, {}, {"", "operator"}, {})
  BY <1>1, OperatorBuilds, GivenBuilds
<1>7. InstallClusterlink = (A \o Look("operator")) \o Z
  BY DEF InstallClusterlink
<1> HIDE DEF A, Z
<1>8. Builds(Host, A \o Look("operator"), {}, M \cup {}, {""} \cup {""}, {} \cup {"operator"})
  <2>1. {""} \cap {"operator"} = {}
    OBVIOUS
  <2> HIDE DEF M
  <2> QED BY <1>4, <1>5, <2>1, BuildsOn
<1>9. PICK N, T, L : N = M \cup {} /\ T = {""} \cup {""} /\ L = {} \cup {"operator"}
  OBVIOUS
<1>10. Builds(Host, (A \o Look("operator")) \o Z, {}, N \cup {}, T \cup {"", "operator"}, L \cup {})
  <2>1. {"ns"} \subseteq {} \cup N /\ T \cap {} = {}
    BY <1>9
  <2> QED BY <1>6, <1>8, <1>9, <2>1, BuildsOn
<1>11. "ns" \in N /\ T \cup {"", "operator"} = {"", "operator"} /\ L \cup {} = {"operator"}
  BY <1>9
<1>12. Builds(Host, InstallClusterlink, {}, N \cup {}, {"", "operator"}, {"operator"})
  BY <1>7, <1>10, <1>11
<1>13. {"ns"} \subseteq N \cup {}
  BY <1>11
<1> QED BY <1>12, <1>13, BuildsLess

(* runClustertree, ...                                                     *)
LEMMA ClustertreeBuilds == Builds(Host, InstallClustertree, {}, {}, {""}, {})
<1> DEFINE os == <<"ns", "treeRbac", "crdCluster", "hostConfig", "treeSecret", "treeManager">>
           M == {"ns", "treeRbac", "crdCluster", "hostConfig", "treeSecret", "treeManager"}
<1>1. os \in Seq(Buildable) /\ os # <<>> /\ os[1] = "ns" /\ "treeManager" \in Names \cap Waited
  BY DEF Buildable, Names, Removable, Waited
<1>2. \A o \in M : \E i \in 1..Len(os) : os[i] = o
  OBVIOUS
<1>3. Wants(Step("wait", Host, "treeManager")) \subseteq M
  BY DEF Wants, Step, Needs, TreeNeeds
<1>4. Builds(Host, Creates(Host, os) \o Wait("treeManager"), {}, M, {""}, {})
  <2> HIDE DEF os, M
  <2> QED BY <1>1, <1>2, <1>3, InstallerBuilds
<1>5. InstallClustertree = Creates(Host, os) \o Wait("treeManager")
  BY DEF InstallClustertree
<1> HIDE DEF os, M
<1> QED BY <1>4, <1>5 DEF Builds

(* ... runScheduler ...                                                    *)
LEMMA SchedulerBuilds == Builds(Host, InstallScheduler, {}, {}, {""}, {})
<1> DEFINE os == <<"ns", "schedRbac", "schedConfig", "hostConfig", "crdCDP", "crdDP", "scheduler">>
           M == {"ns", "schedRbac", "schedConfig", "hostConfig", "crdCDP", "crdDP", "scheduler"}
<1>1. os \in Seq(Buildable) /\ os # <<>> /\ os[1] = "ns" /\ "scheduler" \in Names \cap Waited
  BY DEF Buildable, Names, Removable, Waited
<1>2. \A o \in M : \E i \in 1..Len(os) : os[i] = o
  OBVIOUS
<1>3. Wants(Step("wait", Host, "scheduler")) \subseteq M
  BY DEF Wants, Step, Needs, SchedulerNeeds
<1>4. Builds(Host, Creates(Host, os) \o Wait("scheduler"), {}, M, {""}, {})
  <2> HIDE DEF os, M
  <2> QED BY <1>1, <1>2, <1>3, InstallerBuilds
<1>5. InstallScheduler = Creates(Host, os) \o Wait("scheduler")
  BY DEF InstallScheduler
<1> HIDE DEF os, M
<1> QED BY <1>4, <1>5 DEF Builds

(* ... and runCoreDNS.                                                     *)
LEMMA CoreDNSBuilds == Builds(Host, InstallCoreDNS, {}, {}, {""}, {})
<1> DEFINE os == <<"ns", "dnsRbac", "dnsConfig", "crdCluster", "coredns">>
           M == {"ns", "dnsRbac", "dnsConfig", "crdCluster", "coredns"}
           A == Creates(Host, os) \o Wait("coredns")
           Z == Creates(Host, <<"dnsService">>)
<1>1. os \in Seq(Buildable) /\ os # <<>> /\ os[1] = "ns" /\ "coredns" \in Names \cap Waited
  BY DEF Buildable, Names, Removable, Waited
<1>2. \A o \in M : \E i \in 1..Len(os) : os[i] = o
  OBVIOUS
<1>3. Wants(Step("wait", Host, "coredns")) \subseteq M
  BY DEF Wants, Step, Needs, CoreDNSNeeds
<1>4. Builds(Host, A, {}, M, {""}, {})
  <2> HIDE DEF os, M
  <2> QED BY <1>1, <1>2, <1>3, InstallerBuilds
<1>5. Builds(Host, Z, {"ns"}, {}, {""}, {})
  <2>1. <<"dnsService">> \in Seq(Buildable)
    BY DEF Buildable, Names, Removable
  <2> QED BY <2>1, CreatesBuild
<1>6. InstallCoreDNS = A \o Z
  BY DEF InstallCoreDNS
<1>7. "ns" \in M
  OBVIOUS
<1> HIDE DEF A, Z, M
<1>8. PICK C, T, L : C = {"ns"} /\ T = {""} /\ L = {}
  OBVIOUS
<1>9. Builds(Host, A \o Z, {}, M \cup {}, T \cup T, L \cup L)
  <2>1. C \subseteq {} \cup M /\ T \cap L = {}
    BY <1>7, <1>8
  <2>2. Builds(Host, A, {}, M, T, L) /\ Builds(Host, Z, C, {}, T, L)
    BY <1>4, <1>5, <1>8
  <2> QED BY <2>1, <2>2, BuildsOn
<1>10. T \cup T = {""} /\ L \cup L = {} /\ {} \subseteq M \cup {}
  BY <1>8
<1>11. Builds(Host, InstallCoreDNS, {}, M \cup {}, {""}, {})
  BY <1>6, <1>9, <1>10
<1> QED BY <1>10, <1>11, BuildsLess

(* The program of join.go.                                                 *)
LEMMA JoinBuilds ==
  ASSUME NEW c, NEW l \in BOOLEAN, NEW t \in BOOLEAN
  PROVE  Builds(c, JoinCluster(c, l, t), {}, {}, {""}, {})
<1> DEFINE A == Creates(c, <<"ns">>)
           X == Opt(l, Creates(c, <<"operatorSA">>))
           Y == Opt(t, CreateTreeRelatedCRDs(c))
           R == <<[op |-> "register", at |-> c, obj |-> <<l, t>>, only |-> "", unless |-> ""]>>
           Z == JoinControl(c)
<1>1. /\ <<"ns">> \in Seq(Buildable) /\ <<"operatorSA">> \in Seq(Buildable)
      /\ <<"treeCRDs">> \in Seq(Buildable) /\ <<"controlSA", "emptySecret", "kosmosRole">> \in Seq(Buildable)
  BY DEF Buildable, Names, Removable
<1>2. Builds(c, A, {}, {"ns"}, {""}, {})
  <2>1. \A i \in 1..Len(<<"ns">>) : <<"ns">>[i] \in ClusterWide \ WithAccount
    BY DEF ClusterWide, WithAccount
  <2>2. \A o \in {"ns"} : \E i \in 1..Len(<<"ns">>) : <<"ns">>[i] = o
    OBVIOUS
  <2> QED BY <1>1, <2>1, <2>2, CreatesBuild
<1>3. Builds(c, X, {"ns"}, {}, {""}, {})
  <2>1. Builds(c, Creates(c, <<"operatorSA">>), {"ns"}, {}, {""}, {})
    BY <1>1, CreatesBuild
  <2> QED BY <2>1, OptBuilds
<1>4. Builds(c, Y, {"ns"}, {}, {""}, {})
  <2>1. Builds(c, CreateTreeRelatedCRDs(c), {"ns"}, {}, {""}, {})
    BY <1>1, CreatesBuild DEF CreateTreeRelatedCRDs
  <2> QED BY <2>1, OptBuilds
<1>5. Builds(c, R, {}, {}, {""}, {})
  BY ClusterBuilds
<1>6. Builds(c, Z, {"ns"}, {}, {""}, {})
  BY <1>1, CreatesBuild DEF JoinControl
<1>7. JoinCluster(c, l, t) = (((A \o X) \o Y) \o R) \o Z
  BY DEF JoinCluster
<1> HIDE DEF A, X, Y, R, Z
<1>8. ASSUME NEW p, NEW q, NEW C \in SUBSET {"ns"}, Builds(c, p, {}, {"ns"}, {""}, {}), Builds(c, q, C, {}, {""}, {})
      PROVE  Builds(c, p \o q, {}, {"ns"}, {""}, {})
  <2>1. Builds(c, p \o q, {}, {"ns"} \cup {}, {""} \cup {""}, {} \cup {})
    BY <1>8, BuildsOn
  <2>2. {"ns"} \cup {} = {"ns"} /\ {""} \cup {""} = {""} /\ {} \cup {} = {}
    OBVIOUS
  <2> QED BY <2>1, <2>2
<1>9. Builds(c, A \o X, {}, {"ns"}, {""}, {})
  BY <1>2, <1>3, <1>8
<1>10. Builds(c, (A \o X) \o Y, {}, {"ns"}, {""}, {})
  BY <1>4, <1>8, <1>9
<1>11. Builds(c, ((A \o X) \o Y) \o R, {}, {"ns"}, {""}, {})
  <2>1. {} \in SUBSET {"ns"}
    OBVIOUS
  <2> QED BY <1>5, <1>8, <1>10, <2>1
<1>12. Builds(c, (((A \o X) \o Y) \o R) \o Z, {}, {"ns"}, {""}, {})
  BY <1>6, <1>8, <1>11
<1> QED BY <1>7, <1>12 DEF Builds

(* The control cluster is registered, or enabled if it is there.           *)
LEMMA ControlBuilds ==
  ASSUME NEW l \in BOOLEAN, NEW t \in BOOLEAN
  PROVE  Builds(Host, CreateControlCluster(l, t), {}, {}, {"", "cluster"}, {"cluster"})
<1> DEFINE A == Look("cluster")
           X == Unless("cluster", JoinCluster(Host, l, t))
           Y == Opt(~l, Only("cluster", CreateTreeRelatedCRDs(Host)))
           Z == Only("cluster", <<[op |-> "enable", at |-> Host, obj |-> <<l, t>>, only |-> "", unless |-> ""]>>)
           T == {"", "cluster"}
<1>1. "cluster" \in Names /\ <<"treeCRDs">> \in Seq(Buildable)
  BY DEF Buildable, Names, Removable
<1>2. Builds(Host, A, {}, {}, {""}, {"cluster"})
  BY <1>1, HostBuilds
<1>3. Builds(Host, X, {}, {}, T, {})
  BY <1>1, JoinBuilds, GivenBuilds
<1>4. Builds(Host, Y, {}, {}, T, {})
  <2>1. \A i \in 1..Len(<<"treeCRDs">>) : <<"treeCRDs">>[i] \in ClusterWide \ WithAccount
    BY DEF ClusterWide, WithAccount
  <2>2. Builds(Host, CreateTreeRelatedCRDs(Host), {}, {}, {""}, {})
    BY <1>1, <2>1, CreatesBuild DEF CreateTreeRelatedCRDs
  <2>3. Builds(Host, Only("cluster", CreateTreeRelatedCRDs(Host)), {}, {}, T, {})
    BY <1>1, <2>2, GivenBuilds
  <2> HIDE DEF T
  <2> QED BY <2>3, OptBuilds
<1>5. Builds(Host, Z, {}, {}, T, {})
  BY <1>1, ClusterBuilds, GivenBuilds
<1>6. CreateControlCluster(l, t) = ((A \o X) \o Y) \o Z
  BY DEF CreateControlCluster
<1> HIDE DEF A, X, Y, Z
<1>7. ASSUME NEW p, NEW U, U \subseteq T, NEW q, Builds(Host, p, {}, {}, U, {"cluster"}), Builds(Host, q, {}, {}, T, {})
      PROVE  Builds(Host, p \o q, {}, {}, T, {"cluster"})
  <2>0. {} \subseteq {} \cup {} /\ U \cap {} = {}
    OBVIOUS
  <2>1. Builds(Host, p \o q, {}, {} \cup {}, U \cup T, {"cluster"} \cup {})
    <3> HIDE DEF T
    <3> QED BY <1>7, <2>0, BuildsOn
  <2>2. {} \cup {} = {} /\ U \cup T = T /\ {"cluster"} \cup {} = {"cluster"}
    BY <1>7
  <2> QED BY <2>1, <2>2
<1>8. Builds(Host, A \o X, {}, {}, T, {"cluster"})
  BY <1>2, <1>3, <1>7
<1>9. Builds(Host, (A \o X) \o Y, {}, {}, T, {"cluster"})
  BY <1>4, <1>7, <1>8
<1>10. Builds(Host, ((A \o X) \o Y) \o Z, {}, {}, T, {"cluster"})
  BY <1>5, <1>7, <1>9
<1> QED BY <1>6, <1>10

(* Installing and joining only build.                                      *)
LEMMA ProgramBuilds ==
  ASSUME NEW cmd \in Installs \cup Joins
  PROVE  \E T, L : Builds(Target(cmd), Programs[cmd], {}, {}, T, L)
<1>1. CASE cmd \in Joins
  <2>1. Target(cmd) = "member"
    BY <1>1, TargetOf
  <2>2. Builds("member", Programs[cmd], {}, {}, {""}, {})
    BY <1>1, JoinNames, ProgramOf, JoinBuilds
  <2> QED BY <2>1, <2>2
<1>2. CASE cmd \in Installs
  <2>1. Target(cmd) = Host
    BY <1>2, JoinNames, TargetOf DEF Commands, Installs
  <2>2. Builds(Host, InstallClusterlink, {}, {"ns"}, {"", "operator"}, {"operator"})
    BY ClusterlinkBuilds
  <2>3. ASSUME NEW p, NEW M, NEW L, Builds(Host, p, {}, M, {"", "operator"}, L), NEW l \in BOOLEAN, NEW t \in BOOLEAN
        PROVE  \E T, K : Builds(Host, p \o CreateControlCluster(l, t), {}, {}, T, K)
    <3>1. Builds(Host, p \o CreateControlCluster(l, t), {}, M \cup {}, {"", "operator"} \cup {"", "cluster"}, L \cup {"cluster"})
      <4>1. {} \subseteq {} \cup M /\ {"", "operator"} \cap {"cluster"} = {}
        OBVIOUS
      <4> QED BY <2>3, <4>1, ControlBuilds, BuildsOn
    <3>2. Builds(Host, p \o CreateControlCluster(l, t), {}, {}, {"", "operator"} \cup {"", "cluster"}, L \cup {"cluster"})
      BY <3>1 DEF Builds
    <3> QED BY <3>2
  <2>4. CASE cmd = "install clusterlink"
    <3>1. \E T, K : Builds(Host, InstallClusterlink \o CreateControlCluster(TRUE, FALSE), {}, {}, T, K)
      BY <2>2, <2>3
    <3> QED BY <2>1, <2>4, <3>1, ProgramOf
  <2>5. CASE cmd = "install clustertree"
    <3>1. Builds(Host, InstallClustertree, {}, {}, {"", "operator"}, {})
      BY ClustertreeBuilds DEF Builds
    <3>2. \E T, K : Builds(Host, InstallClustertree \o CreateControlCluster(FALSE, TRUE), {}, {}, T, K)
      BY <2>3, <3>1
    <3> QED BY <2>1, <2>5, <3>2, ProgramOf
  <2>6. CASE cmd = "install all"
    <3>1. Builds(Host, InstallClusterlink \o InstallClustertree, {}, {"ns"} \cup {}, {"", "operator"} \cup {""}, {"operator"} \cup {})
      <4>1. {} \subseteq {} \cup {"ns"} /\ {"", "operator"} \cap {} = {}
        OBVIOUS
      <4> QED BY <2>2, <4>1, ClustertreeBuilds, BuildsOn
    <3>2. {"", "operator"} \cup {""} = {"", "operator"}
      OBVIOUS
    <3>3. Builds(Host, InstallClusterlink \o InstallClustertree, {}, {"ns"} \cup {}, {"", "operator"}, {"operator"} \cup {})
      BY <3>1, <3>2
    <3>4. \E T, K : Builds(Host, (InstallClusterlink \o InstallClustertree) \o CreateControlCluster(TRUE, TRUE), {}, {}, T, K)
      BY <2>3, <3>3
    <3> QED BY <2>1, <2>6, <3>4, ProgramOf
  <2>7. CASE cmd \in {"install scheduler", "install coredns"}
    BY <2>1, <2>7, SchedulerBuilds, CoreDNSBuilds, ProgramOf
  <2> QED BY <1>2, <2>4, <2>5, <2>6, <2>7 DEF Installs
<1> QED BY <1>1, <1>2

(* The calls of uninstall.go and unjoin.go, none of which needs an object  *)
(* but the list of Clusters.                                               *)
Takes(c) ==
  {s \in Calls(c) : /\ s.op \in {"delete", "look", "drop", "mustDrop", "remove"}
                    /\ s.op = "mustDrop" => s.obj = "crdCluster"}

(* The single calls that take an object away or look for one, ...          *)
LEMMA StepTakes ==
  ASSUME NEW c, NEW o \in Names
  PROVE  /\ \A op \in {"delete", "look", "drop", "remove"} : Step(op, c, o) \in Takes(c)
         /\ Step("mustDrop", c, "crdCluster") \in Takes(c)
<1>1. "crdCluster" \in Names
  BY DEF Names
<1>2. ASSUME NEW op \in {"delete", "look", "drop", "remove"} PROVE Step(op, c, o) \in Takes(c)
  <2>1. Step(op, c, o) \in Calls(c)
    BY StepCall DEF Ops
  <2>2. Step(op, c, o).op = op
    BY DEF Step
  <2> QED BY <2>1, <2>2 DEF Takes
<1>3. Step("mustDrop", c, "crdCluster") \in Calls(c)
  BY <1>1, StepCall DEF Ops
<1>4. Step("mustDrop", c, "crdCluster").op = "mustDrop" /\ Step("mustDrop", c, "crdCluster").obj = "crdCluster"
  BY DEF Step
<1> QED BY <1>2, <1>3, <1>4 DEF Takes

(* ... a run of deletions, ...                                             *)
LEMMA DeletesTake == ASSUME NEW c, NEW os \in Seq(Names) PROVE Deletes(c, os) \in Seq(Takes(c))
<1>1. \A i \in 1..Len(os) : os[i] \in Names
  OBVIOUS
<1>2. \A i \in 1..Len(os) : Step("delete", c, os[i]) \in Takes(c)
  BY <1>1, StepTakes
<1>3. Deletes(c, os) \in [1..Len(os) -> Takes(c)]
  BY <1>2 DEF Deletes
<1>4. Len(os) \in Nat
  OBVIOUS
<1> QED BY <1>3, <1>4, FunSeq

(* ... a part under a condition, ...                                       *)
LEMMA GivenTakes ==
  ASSUME NEW c, NEW o \in Names, NEW p \in Seq(Takes(c))
  PROVE  Only(o, p) \in Seq(Takes(c)) /\ Unless(o, p) \in Seq(Takes(c))
<1>1. \A i \in 1..Len(p) : p[i] \in Takes(c)
  OBVIOUS
<1>2. ASSUME NEW i \in 1..Len(p)
      PROVE  [p[i] EXCEPT !.only = o] \in Takes(c) /\ [p[i] EXCEPT !.unless = o] \in Takes(c)
  <2>1. PICK s \in Takes(c) : s = p[i]
    BY <1>1
  <2>2. s \in Calls(c)
    BY DEF Takes
  <2>3. /\ [s EXCEPT !.only = o] \in Calls(c) /\ [s EXCEPT !.unless = o] \in Calls(c)
        /\ [s EXCEPT !.only = o].op = s.op /\ [s EXCEPT !.unless = o].op = s.op
        /\ [s EXCEPT !.only = o].obj = s.obj /\ [s EXCEPT !.unless = o].obj = s.obj
    BY <2>2 DEF Calls
  <2> QED BY <2>1, <2>3 DEF Takes
<1>3. Only(o, p) \in [1..Len(p) -> Takes(c)] /\ Unless(o, p) \in [1..Len(p) -> Takes(c)]
  BY <1>2 DEF Only, Unless
<1>4. Len(p) \in Nat
  OBVIOUS
<1> QED BY <1>3, <1>4, FunSeq

(* ... a look and a CRD's removal with its objects, ...                    *)
LEMMA HostTakes ==
  ASSUME NEW o \in Names PROVE Look(o) \in Seq(Takes(Host)) /\ DropCRD(o) \in Seq(Takes(Host))
<1>1. Step("look", Host, o) \in Takes(Host) /\ Step("drop", Host, o) \in Takes(Host)
  BY StepTakes
<1> QED BY <1>1 DEF Look, DropCRD

(* ... and one part after the other.                                       *)
LEMMA JoinTakes == ASSUME NEW c, NEW p \in Seq(Takes(c)), NEW q \in Seq(Takes(c)) PROVE p \o q \in Seq(Takes(c))
BY ConcatProperties

(* Uninstalling and unjoining need no object.                              *)
LEMMA ProgramTakes ==
  ASSUME NEW cmd \in Commands \ (Installs \cup Joins)
  PROVE  Programs[cmd] \in Seq(Takes(Target(cmd)))
<1>0. /\ <<"netManager">> \in Seq(Names) /\ <<"linkRbac">> \in Seq(Names) /\ <<"operator">> \in Seq(Names)
      /\ <<"treeManager">> \in Seq(Names) /\ <<"treeSecret">> \in Seq(Names) /\ <<"ns">> \in Seq(Names)
      /\ <<"hostConfig", "treeRbac">> \in Seq(Names) /\ <<"scheduler", "schedConfig", "schedRbac">> \in Seq(Names)
      /\ <<"coredns", "dnsService", "dnsConfig">> \in Seq(Names) /\ <<"dnsRbac">> \in Seq(Names)
      /\ <<"operatorSA">> \in Seq(Names) /\ <<"treeCRDs">> \in Seq(Names)
      /\ <<"emptySecret", "kosmosRole", "controlSA">> \in Seq(Names)
  BY DEF Names
<1>1. /\ "crdCluster" \in Names /\ "crdLink" \in Names /\ "crdCDP" \in Names /\ "treeManager" \in Names
      /\ "netManager" \in Names /\ "tree" \in Names /\ "link" \in Names /\ "cluster" \in Names
  BY DEF Names
<1>2. UninstallClusterlink \in Seq(Takes(Host))
  <2>1. Unless("treeManager", Deletes(Host, <<"operator">>)) \in Seq(Takes(Host))
    BY <1>0, <1>1, DeletesTake, GivenTakes
  <2> QED BY <1>0, <1>1, <2>1, DeletesTake, HostTakes, JoinTakes DEF UninstallClusterlink
<1>3. UninstallClustertree \in Seq(Takes(Host))
  <2>1. Unless("netManager", Deletes(Host, <<"operator">>)) \in Seq(Takes(Host))
    BY <1>0, <1>1, DeletesTake, GivenTakes
  <2>2. Only("treeManager", Deletes(Host, <<"treeSecret">>)) \in Seq(Takes(Host))
    BY <1>0, <1>1, DeletesTake, GivenTakes
  <2> QED BY <1>0, <1>1, <2>1, <2>2, DeletesTake, HostTakes, JoinTakes DEF UninstallClustertree
<1>4. UninstallAll \in Seq(Takes(Host))
  BY <1>0, <1>2, <1>3, DeletesTake, JoinTakes DEF UninstallAll
<1>5. UninstallScheduler \in Seq(Takes(Host))
  BY <1>0, <1>1, DeletesTake, HostTakes, JoinTakes DEF UninstallScheduler
<1>6. UninstallCoredns \in Seq(Takes(Host))
  <2>1. Step("mustDrop", Host, "crdCluster") \in Takes(Host)
    BY <1>1, StepTakes
  <2>2. <<Step("mustDrop", Host, "crdCluster")>> \in Seq(Takes(Host))
    BY <2>1
  <2> QED BY <1>0, <2>2, DeletesTake, JoinTakes DEF UninstallCoredns
<1>7. ASSUME NEW c PROVE UnjoinCluster(c) \in Seq(Takes(c))
  <2>1. Step("remove", c, "cluster") \in Takes(c)
    BY <1>1, StepTakes
  <2>2. <<Step("remove", c, "cluster")>> \in Seq(Takes(c))
    BY <2>1
  <2>3. Only("tree", Deletes(c, <<"treeCRDs">>)) \in Seq(Takes(c)) /\ Only("link", Deletes(c, <<"operatorSA">>)) \in Seq(Takes(c))
    BY <1>0, <1>1, DeletesTake, GivenTakes
  <2>4. Opt(c # Host, Deletes(c, <<"ns">>)) \in Seq(Takes(c))
    <3>1. Deletes(c, <<"ns">>) \in Seq(Takes(c)) /\ <<>> \in Seq(Takes(c))
      BY <1>0, DeletesTake, EmptySeq
    <3> QED BY <3>1 DEF Opt
  <2> QED BY <1>0, <2>2, <2>3, <2>4, DeletesTake, JoinTakes DEF UnjoinCluster
<1>8. Programs["none"] \in Seq(Takes(Target(cmd)))
  BY ProgramOf, EmptySeq
<1>9. CASE cmd = "unjoin member"
  BY <1>7, <1>9, TargetOf, ProgramOf
<1>10. CASE cmd # "unjoin member"
  <2>1. Target(cmd) = Host
    BY <1>10, TargetOf
  <2> QED BY <1>2, <1>3, <1>4, <1>5, <1>6, <1>7, <1>8, <1>10, <2>1, ProgramOf DEF Commands, Uninstalls, Unjoins
<1> QED BY <1>9, <1>10

Present(c, o) == SameName(o) \cap objects[c] # {}

(* What a command has created on its way is there, and no namespace that   *)
(* is being deleted, unless there was one when it started.                 *)
Made ==
  running.cmd \in Installs \cup Joins /\ ~running.late =>
    /\ "nsEnding" \notin objects[Target(running.cmd)]
    /\ \A i \in 1..(running.at - 1) :
         LET s == Programs[running.cmd][i]
         IN  s.op = "create" /\ Due(s, running) => Present(s.at, s.obj)

MadeInv == DeployTypeOK /\ Made /\ callFaults \in Nat

(* One object for a name, but for the secrets and the namespace.           *)
LEMMA SameNameIs ==
  /\ \A o : o \in SameName(o)
  /\ \A o : o \notin Secrets \cup ProxySecrets \cup Namespace => SameName(o) = {o}
  /\ SameName("panelSecret") = Secrets /\ SameName("ns") = Namespace
  /\ \A o : o \notin Removable => SameName(o) \cap Removable = {}
BY DEF SameName, Secrets, ProxySecrets, Namespace, Removable

(* The calls of a command that builds: what is due has what it wants.      *)
LEMMA WantsPresent ==
  ASSUME MadeInv, running # NoCommand, ~Returned(running), running.cmd \in Installs \cup Joins,
         ~running.late, NEW o \in Wants(This)
  PROVE  /\ Present(Target(running.cmd), o)
         /\ o \notin Secrets \cup ProxySecrets => o \in objects[Target(running.cmd)]
<1>1. PICK c, p, k : c = Target(running.cmd) /\ p = Programs[running.cmd] /\ k = Position(running)
  OBVIOUS
<1>2. /\ k \in Nat /\ running.at \in Nat /\ 1 <= running.at /\ running.at <= k /\ k <= Len(p)
      /\ Due(p[k], running) /\ This = p[k]
      /\ \A h \in running.at..(k - 1) : ~Due(p[h], running)
  BY <1>1, CallIs DEF This, MadeInv, DeployTypeOK, RunningRec
<1>3. PICK T, L : Builds(c, p, {}, {}, T, L)
  BY <1>1, ProgramBuilds
<1>4. Len(p) \in Nat /\ k \in 1..Len(p)
  BY <1>2, <1>3 DEF Builds
<1>5. PICK h \in 1..(k - 1) : Brings(p[h], o, p[k])
  BY <1>2, <1>3, <1>4 DEF Builds
<1>6. Due(p[h], running)
  BY <1>2, <1>5 DEF Brings, Due
<1>7. h \in 1..(running.at - 1)
  BY <1>2, <1>6
<1>8. Present(p[h].at, o)
  BY <1>1, <1>5, <1>6, <1>7 DEF MadeInv, Made, Brings
<1>9. p[h].at = c
  <2>1. h \in 1..Len(p) /\ p \in Seq(Calls(c))
    BY <1>3, <1>4 DEF Builds
  <2>2. p[h] \in Calls(c)
    BY <2>1, ElementOfSeq
  <2> QED BY <2>2 DEF Calls
<1>10. "nsEnding" \notin objects[c]
  BY <1>1 DEF MadeInv, Made
<1>11. o # "nsEnding"
  <2>1. p[h].op = "create" /\ p[h].obj = o /\ h \in 1..Len(p)
    <3>1. h \in 1..Len(p)
      BY <1>2, <1>4
    <3> QED BY <1>5, <3>1 DEF Brings
  <2> QED BY <1>3, <2>1 DEF Builds, Building, Buildable
<1>12. ASSUME o \notin Secrets \cup ProxySecrets PROVE o \in objects[c]
  <2>1. CASE o \in Namespace
    <3>1. o = "ns" /\ Namespace \cap objects[c] # {}
      BY <1>8, <1>9, <1>11, <2>1, SameNameIs DEF Present, Namespace
    <3> QED BY <1>10, <3>1 DEF Namespace
  <2>2. CASE o \notin Namespace
    <3>1. SameName(o) = {o}
      BY <1>12, <2>2, SameNameIs
    <3> QED BY <1>8, <1>9, <3>1 DEF Present
  <2> QED BY <2>1, <2>2
<1> QED BY <1>1, <1>8, <1>9, <1>12

(* A call that ends its command, without a fault, was refused.             *)
LEMMA CallGoesThrough ==
  ASSUME MadeInv, Call, running' = NoCommand
  PROVE  Refused
<1>1. running # NoCommand /\ ~Returned(running) /\ DeployTypeOK
  BY DEF Call, MadeInv
<1>2. PICK c \in Members : c = Target(running.cmd)
  BY TargetIs
<1>3. PICK s \in Calls(c) : s = This
  BY <1>1, <1>2, CallIs
<1>4. s.at = c /\ (s.op \in Ops => s.obj \in Names) /\ running.cmd \in Commands
  BY <1>1 DEF Calls, Ops, DeployTypeOK, RunningRec
<1>5. \/ CallCreate(s) \/ CallDelete(s) \/ CallLook(s) \/ CallWait(s)
      \/ CallDrop(s) \/ CallRegister(s) \/ CallEnable(s) \/ CallRemove(s)
  BY <1>3 DEF Call, This
<1>6. Position(running) \in 1..Len(Programs[running.cmd]) /\ running'.at = 1
  BY <1>1, CallIs, Constants DEF DeployTypeOK, RunningRec
<1>7. running'.at # Position(running) + 1
  BY <1>6
<1>8. ~Advance
  BY <1>1, <1>7, AdvanceGoes DEF Goes
<1>9. \A o \in Names : \A b : ~Finds(o, b)
  BY <1>1, <1>7, FindsGoes DEF Goes
<1> SUFFICES ASSUME ~(s.op \in {"create", "wait"} /\ running.late) PROVE Refused
  BY <1>3 DEF Refused, This
<1>10. ASSUME s.op \in {"create", "wait"}
       PROVE  /\ running.cmd \in Installs \cup Joins
              /\ \A o \in Wants(s) : Present(c, o) /\ (o \notin Secrets \cup ProxySecrets => o \in objects[c])
  <2>1. running.cmd \in Installs \cup Joins
    <3>1. ASSUME running.cmd \notin Installs \cup Joins PROVE FALSE
      <4>1. Programs[running.cmd] \in Seq(Takes(c))
        BY <1>2, <1>4, <3>1, ProgramTakes
      <4>2. s \in Takes(c)
        BY <1>3, <1>6, <4>1, ElementOfSeq DEF This
      <4> QED BY <1>10, <4>2 DEF Takes
    <3> QED BY <3>1
  <2> QED BY <1>1, <1>2, <1>3, <1>10, <2>1, WantsPresent
<1>11. CASE CallCreate(s)
  <2>1. s.op = "create"
    BY <1>11 DEF CallCreate
  <2>2. ~CanCreate(c, s.obj)
    BY <1>4, <1>8, <1>11 DEF CallCreate
  <2>3. "ns" \in Wants(s)
    BY <2>1, <2>2 DEF Wants, CanCreate
  <2>4. "ns" \in objects[c]
    BY <1>10, <2>1, <2>3 DEF Secrets, ProxySecrets
  <2> QED BY <2>2, <2>4 DEF CanCreate
<1>12. CASE CallDelete(s)
  <2>1. s.obj \in Names
    BY <1>4, <1>12 DEF CallDelete, Ops
  <2> QED BY <1>9, <1>12, <2>1 DEF CallDelete
<1>13. CASE CallLook(s)
  <2>1. s.obj \in Names
    BY <1>4, <1>13 DEF CallLook, Ops
  <2>2. s.obj = "cluster"
    BY <1>9, <1>13, <2>1 DEF CallLook
  <2>3. PICK z, w, k : running' = [running EXCEPT !.at = k, !.was = w, !.seen = z] /\ k = Position(running) + 1
    BY <1>13, <2>2 DEF CallLook
  <2>4. running'.at = k
    BY <1>1, <2>3 DEF DeployTypeOK, RunningRec
  <2> QED BY <1>7, <2>3, <2>4
<1>14. CASE CallWait(s)
  <2>1. s.op = "wait"
    BY <1>14 DEF CallWait
  <2>2. ~IF s.obj = "operator" THEN CanRun ELSE Needs(s.obj) \subseteq objects[Host]
    BY <1>8, <1>14 DEF CallWait
  <2>3. Building(s)
    <3>1. PICK T, L : Builds(c, Programs[running.cmd], {}, {}, T, L)
      BY <1>2, <1>10, <2>1, ProgramBuilds
    <3> QED BY <1>3, <1>6, <3>1 DEF Builds, This
  <2>4. c = Host /\ s.obj \in Waited
    BY <1>4, <2>1, <2>3 DEF Building
  <2>5. \A o \in Wants(s) : Present(Host, o) /\ (o \notin Secrets \cup ProxySecrets => o \in objects[Host])
    BY <1>10, <2>1, <2>4
  <2>6. CASE s.obj = "operator"
    <3>1. Wants(s) = {"operator", "panelSecret"} \cup OperatorNeeds
      BY <2>1, <2>6 DEF Wants
    <3>2. \A o \in {"operator"} \cup OperatorNeeds : o \notin Secrets \cup ProxySecrets
      BY DEF OperatorNeeds, Secrets, ProxySecrets
    <3>3. \A o \in {"operator"} \cup OperatorNeeds : o \in objects[Host]
      BY <2>5, <3>1, <3>2
    <3>4. Secrets \cap objects[Host] # {}
      BY <2>5, <3>1, SameNameIs DEF Present
    <3> QED BY <2>2, <2>6, <3>3, <3>4 DEF CanRun
  <2>7. CASE s.obj # "operator"
    <3>1. Wants(s) = Needs(s.obj)
      BY <2>1, <2>7 DEF Wants
    <3>2. Needs(s.obj) \cap (Secrets \cup ProxySecrets) = {}
      BY <2>4, <2>7 DEF Waited, Needs, NetManagerNeeds, TreeNeeds, SchedulerNeeds, CoreDNSNeeds, Secrets, ProxySecrets
    <3>3. Needs(s.obj) \subseteq objects[Host]
      BY <2>5, <3>1, <3>2
    <3> QED BY <2>2, <2>7, <3>3
  <2> QED BY <2>6, <2>7
<1>15. CASE CallDrop(s)
  <2>1. s.op = "mustDrop" /\ s.obj \notin objects[Host]
    BY <1>8, <1>15 DEF CallDrop
  <2>2. s.obj = "crdCluster"
    <3>1. ASSUME running.cmd \in Installs \cup Joins PROVE FALSE
      <4>1. PICK T, L : Builds(c, Programs[running.cmd], {}, {}, T, L)
        BY <1>2, <3>1, ProgramBuilds
      <4>2. Building(s)
        BY <1>3, <1>6, <4>1 DEF Builds, This
      <4> QED BY <2>1, <4>2 DEF Building
    <3>2. Programs[running.cmd] \in Seq(Takes(c))
      BY <1>2, <1>4, <3>1, ProgramTakes
    <3>3. s \in Takes(c)
      BY <1>3, <1>6, <3>2, ElementOfSeq DEF This
    <3> QED BY <2>1, <3>3 DEF Takes
  <2> QED BY <1>3, <2>1, <2>2 DEF Refused, This
<1>16. CASE CallRegister(s)
  BY <1>3, <1>8, <1>16 DEF CallRegister, Refused, This
<1>17. CASE CallEnable(s)
  BY <1>3, <1>8, <1>17 DEF CallEnable, Refused, This
<1>18. CASE CallRemove(s)
  BY <1>1, <1>8, <1>18 DEF CallRemove
<1> QED BY <1>5, <1>11, <1>12, <1>13, <1>14, <1>15, <1>16, <1>17, <1>18

(* The calls of a command that builds.                                     *)
LEMMA BuildingCalls ==
  ASSUME NEW cmd \in Installs \cup Joins
  PROVE  /\ Len(Programs[cmd]) \in Nat
         /\ \A i \in 1..Len(Programs[cmd]) :
              LET s == Programs[cmd][i]
              IN  /\ Building(s) /\ s \in Calls(Target(cmd)) /\ s.at = Target(cmd) /\ s.only \in Names /\ s.unless \in Names
                  /\ s.op = "look" => \A h \in 1..(i - 1) : s.obj \notin {Programs[cmd][h].only, Programs[cmd][h].unless}
<1>1. PICK c, p : c = Target(cmd) /\ p = Programs[cmd]
  OBVIOUS
<1>2. PICK T, L : Builds(c, p, {}, {}, T, L)
  BY <1>1, ProgramBuilds
<1>3. /\ p \in Seq(Calls(c)) /\ Len(p) \in Nat
      /\ \A i \in 1..Len(p) : /\ Building(p[i])
                              /\ p[i].op = "look" => \A h \in 1..(i - 1) : p[i].obj \notin {p[h].only, p[h].unless}
  BY <1>2 DEF Builds
<1>4. \A i \in 1..Len(p) : p[i] \in Calls(c)
  BY <1>3, ElementOfSeq
<1>5. \A s \in Calls(c) : s.at = c /\ s.only \in Names /\ s.unless \in Names
  BY DEF Calls
<1> QED BY <1>1, <1>3, <1>4, <1>5

(* What the commands create is not what the operator removes.              *)
LEMMA MadeFrame ==
  ASSUME MadeInv, running' = running,
         \A o : o \notin Removable /\ Present(Target(running.cmd), o) => Present(Target(running.cmd), o)',
         "nsEnding" \notin objects[Target(running.cmd)] => "nsEnding" \notin objects'[Target(running.cmd)]
  PROVE  Made'
<1>0. running.cmd \in Installs \cup Joins /\ ~running.late => "nsEnding" \notin objects'[Target(running.cmd)]
  BY DEF MadeInv, Made
<1> SUFFICES ASSUME running.cmd \in Installs \cup Joins, ~running.late, NEW i \in 1..(running.at - 1), NEW s, s = Programs[running.cmd][i],
                    s.op = "create", Due(s, running)
             PROVE  Present(s.at, s.obj)'
  BY <1>0 DEF Made
<1>1. running.at \in Nat /\ running.at <= Len(Programs[running.cmd]) + 1
  BY DEF MadeInv, DeployTypeOK, RunningRec
<1>2. i \in 1..Len(Programs[running.cmd])
  BY <1>1, BuildingCalls
<1>3. s.at = Target(running.cmd) /\ s.obj \notin Removable
  BY <1>2, BuildingCalls DEF Building, Buildable
<1>4. Present(s.at, s.obj)
  BY DEF MadeInv, Made
<1> QED BY <1>3, <1>4

(* A call adds its object to what has been made.                           *)
LEMMA CallMade == ASSUME MadeInv, Call PROVE Made'
<1>1. running # NoCommand /\ ~Returned(running) /\ DeployTypeOK
  BY DEF Call, MadeInv
<1>2. PICK c \in Members : c = Target(running.cmd)
  BY TargetIs
<1>3. PICK s \in Calls(c) : s = This
  BY <1>1, <1>2, CallIs
<1>4. \/ CallCreate(s) \/ CallDelete(s) \/ CallLook(s) \/ CallWait(s)
      \/ CallDrop(s) \/ CallRegister(s) \/ CallEnable(s) \/ CallRemove(s)
  BY <1>3 DEF Call, This
<1>5. CASE running' = NoCommand
  <2>1. "none" \notin Installs \cup Joins
    BY JoinNames DEF Installs
  <2> QED BY <1>5, <2>1, Constants DEF Made
<1>6. CASE running' # NoCommand /\ running.cmd \in Installs \cup Joins /\ ~running.late
  <2>1. PICK p, k : p = Programs[running.cmd] /\ k = Position(running)
    OBVIOUS
  <2>2. /\ k \in Nat /\ running.at \in Nat /\ 1 <= running.at /\ running.at <= k /\ k <= Len(p) /\ Len(p) \in Nat
        /\ \A h \in running.at..(k - 1) : ~Due(p[h], running)
        /\ s = p[k] /\ k \in 1..Len(p)
    BY <1>1, <1>3, <1>6, <2>1, CallIs, BuildingCalls DEF This, DeployTypeOK, RunningRec
  <2>3. Building(s) /\ s.at = c /\ (s.op \in Ops => s.obj \in Names)
    BY <1>2, <1>6, <2>1, <2>2, BuildingCalls DEF Calls, Ops
  <2>4. s.op \in {"create", "look", "wait", "register", "enable"}
    BY <2>3 DEF Building
  <2>5. /\ Goes(running')
        /\ \A x \in Names : ~(s.op = "look" /\ x = s.obj) => (x \in running'.seen <=> x \in running.seen)
    <3>1. CASE Advance
      BY <1>1, <3>1, AdvanceGoes
    <3>2. CASE CallLook(s)
      <4>1. s.op = "look" /\ s.obj \in Names
        BY <2>3, <3>2 DEF CallLook, Ops
      <4>2. CASE s.obj # "cluster"
        <5>1. Finds(s.obj, s.obj \in objects[s.at])
          BY <3>2, <4>2 DEF CallLook
        <5> QED BY <1>1, <4>1, <5>1, FindsGoes
      <4>3. CASE s.obj = "cluster"
        <5>1. PICK z \in SUBSET Names : z = IF crs[Host].there THEN running.seen \cup {"cluster"} ELSE running.seen
          BY <1>1, <4>1, <4>3 DEF DeployTypeOK, RunningRec
        <5>2. running' = [running EXCEPT !.at = k + 1, !.was = crs[Host], !.seen = z]
          BY <2>1, <3>2, <4>3, <5>1 DEF CallLook
        <5>3. running \in RunningRec /\ crs[Host] \in ClusterRec /\ k + 1 \in Nat
          BY <1>1, <2>2 DEF DeployTypeOK, Host, Members
        <5>4. running' \in RunningRec /\ running'.cmd = running.cmd /\ running'.late = running.late /\ running'.at = k + 1 /\ running'.seen = z
          BY <5>2, <5>3 DEF RunningRec
        <5>5. Goes(running')
          BY <2>1, <2>2, <5>4 DEF Goes
        <5>6. \A x \in Names : x # "cluster" => (x \in z <=> x \in running.seen)
          BY <5>1
        <5>7. \A x \in Names : ~(s.op = "look" /\ x = s.obj) => (x \in running'.seen <=> x \in running.seen)
          BY <4>1, <4>3, <5>4, <5>6
        <5> QED BY <5>5, <5>7
      <4> QED BY <4>2, <4>3
    <3>3. CASE ~Advance /\ ~CallLook(s)
      <4>1. ~Aborts
        BY <1>6 DEF Aborts
      <4>2. CASE CallCreate(s)
        BY <3>3, <4>1, <4>2 DEF CallCreate
      <4>3. CASE CallWait(s)
        BY <3>3, <4>1, <4>3 DEF CallWait
      <4>4. CASE CallRegister(s)
        BY <3>3, <4>1, <4>4 DEF CallRegister
      <4>5. CASE CallEnable(s)
        BY <3>3, <4>1, <4>5 DEF CallEnable
      <4>6. ~CallDelete(s) /\ ~CallDrop(s) /\ ~CallRemove(s)
        BY <2>4 DEF CallDelete, CallDrop, CallRemove
      <4> QED BY <1>4, <3>3, <4>2, <4>3, <4>4, <4>5, <4>6
    <3> QED BY <3>1, <3>2, <3>3
  <2>6. /\ objects \in [Members -> SUBSET Names]
        /\ \A d \in Members : objects[d] \subseteq objects'[d]
        /\ s.op = "create" => Present(c, s.obj)'
        /\ "nsEnding" \notin objects'[c]
    <3>0. "nsEnding" \notin objects[c]
      BY <1>2, <1>6 DEF MadeInv, Made
    <3>1. objects \in [Members -> SUBSET Names]
      BY <1>1 DEF DeployTypeOK
    <3>2. CASE s.op = "create"
      <4>1. CallCreate(s)
        BY <1>4, <3>2 DEF CallDelete, CallLook, CallWait, CallDrop, CallRegister, CallEnable, CallRemove
      <4>2. objects' = [objects EXCEPT ![c] = Created(objects[c], s.obj)]
        <5>1. ~Aborts
          BY <1>6 DEF Aborts
        <5> QED BY <2>3, <4>1, <5>1 DEF CallCreate
      <4>3. objects[c] \subseteq Created(objects[c], s.obj) /\ SameName(s.obj) \cap Created(objects[c], s.obj) # {}
        BY SameNameIs DEF Created
      <4>4. objects'[c] = Created(objects[c], s.obj) /\ \A d \in Members \ {c} : objects'[d] = objects[d]
        BY <3>1, <4>2
      <4>5. s.obj # "nsEnding"
        BY <2>3, <3>2 DEF Building, Buildable
      <4>6. "nsEnding" \notin objects'[c]
        BY <3>0, <4>4, <4>5 DEF Created
      <4> QED BY <3>1, <4>3, <4>4, <4>6 DEF Present
    <3>3. CASE s.op # "create"
      <4>1. objects' = objects
        BY <1>4, <2>4, <3>3 DEF CallCreate, CallDelete, CallLook, CallWait, CallDrop, CallRegister, CallEnable, CallRemove
      <4> QED BY <3>0, <3>1, <3>3, <4>1
    <3> QED BY <3>2, <3>3
  <2>7. running'.cmd = running.cmd /\ running'.at - 1 = k
    BY <2>1, <2>2, <2>5 DEF Goes
  <2>8. ASSUME NEW i \in 1..k, p[i].op = "create", Due(p[i], running') PROVE Present(p[i].at, p[i].obj)'
    <3>1. i \in 1..Len(p)
      BY <2>2
    <3>2. p[i].at = c /\ p[i].only \in Names /\ p[i].unless \in Names
      BY <1>2, <1>6, <2>1, <3>1, BuildingCalls
    <3>3. s.op = "look" => s.obj \notin {p[i].only, p[i].unless}
      <4>1. CASE s.op = "look"
        <5>1. i \in 1..(k - 1)
          BY <2>2, <2>8, <4>1
        <5> QED BY <1>6, <2>1, <2>2, <5>1, BuildingCalls
      <4> QED BY <4>1
    <3>4. Due(p[i], running)
      BY <2>5, <2>8, <3>2, <3>3 DEF Due
    <3>5. CASE i = k
      BY <2>2, <2>6, <2>8, <3>2, <3>5
    <3>6. CASE i \in running.at..(k - 1)
      BY <2>2, <3>4, <3>6
    <3>7. CASE i \in 1..(running.at - 1)
      <4>1. Present(c, p[i].obj)
        BY <1>6, <2>1, <2>8, <3>2, <3>4, <3>7 DEF MadeInv, Made
      <4>2. objects[c] \subseteq objects'[c]
        BY <2>6
      <4> QED BY <3>2, <4>1, <4>2 DEF Present
    <3> QED BY <2>2, <3>5, <3>6, <3>7
  <2> QED BY <1>2, <2>1, <2>6, <2>7, <2>8 DEF Made
<1>7. CASE running' # NoCommand /\ (running.cmd \notin Installs \cup Joins \/ running.late)
  <2>1. s.obj \in Names \/ s.op \in {"register", "enable"}
    BY DEF Calls
  <2>2. CASE Advance
    BY <1>1, <1>7, <2>2, AdvanceGoes DEF Goes, Made
  <2>3. CASE CallDelete(s)
    <3>1. s.obj \in Names
      BY <2>1, <2>3 DEF CallDelete
    <3> QED BY <1>1, <1>7, <2>3, <3>1, FindsGoes DEF CallDelete, Goes, Made
  <2>4. CASE CallLook(s)
    <3>1. s.obj \in Names
      BY <2>1, <2>4 DEF CallLook
    <3>2. CASE s.obj # "cluster"
      BY <1>1, <1>7, <2>4, <3>1, <3>2, FindsGoes DEF CallLook, Goes, Made
    <3>3. CASE s.obj = "cluster"
      <4>1. PICK z, w, k : running' = [running EXCEPT !.at = k, !.was = w, !.seen = z]
        BY <2>4, <3>3 DEF CallLook
      <4>2. running'.cmd = running.cmd /\ running'.late = running.late
        BY <1>1, <4>1 DEF DeployTypeOK, RunningRec
      <4> QED BY <1>7, <4>2 DEF Made
    <3> QED BY <3>2, <3>3
  <2>5. CASE ~Advance /\ ~CallDelete(s) /\ ~CallLook(s)
    <3>1. ~Aborts
      BY <1>7 DEF Aborts
    <3>2. running' = running
      BY <1>4, <2>5, <3>1 DEF CallCreate, CallWait, CallDrop, CallRegister, CallEnable, CallRemove
    <3> QED BY <1>7, <3>2 DEF Made
  <2> QED BY <2>2, <2>3, <2>4, <2>5
<1> QED BY <1>5, <1>6, <1>7

(* What the operator writes or removes is not what a command waits for.    *)
LEMMA ApplyMade == ASSUME MadeInv, ApplyAddon PROVE Made'
<1>1. PICK n \in NowRec : n = operator.now
  BY DEF MadeInv, DeployTypeOK, OperatorRec
<1>2. /\ objects \in [Members -> SUBSET Names] /\ running' = running
      /\ n.at \in Nat /\ 1 <= n.at /\ n.on \in Members
  BY DEF ApplyAddon, MadeInv, DeployTypeOK, NowRec
<1>3. CASE UNCHANGED objects
  BY <1>2, <1>3, MadeFrame DEF Present
<1>4. CASE /\ n.at <= Len(Plan(n))
           /\ objects' = [objects EXCEPT ![Plan(n)[n.at].at] =
                 IF Plan(n)[n.at].op = "create" THEN CreateOrUpdate(@, Plan(n)[n.at].obj) ELSE Deleted(@, Plan(n)[n.at].obj)]
  <2>1. n.at \in 1..Len(Plan(n))
    BY <1>1, <1>2, <1>4, PlanIs DEF ApplyAddon, MadeInv
  <2>2. PICK s \in Calls(n.on) : s = Plan(n)[n.at] /\ s.op \in {"create", "delete"}
    BY <1>1, <2>1, PlanIs DEF ApplyAddon, MadeInv
  <2>3. s.at = n.on
    BY DEF Calls
  <2>4. (s.op = "delete" => s.obj \in Removable) /\ (s.op = "create" => s.obj \in AddonNames)
    <3>1. CASE n.mode = "syncCluster"
      <4>1. Plan(n) = Install(n.on)
        BY <1>1, <3>1, PlanIs DEF ApplyAddon, MadeInv
      <4>2. s \in Creations(n.on, AddonNames)
        BY <2>1, <2>2, <4>1, InstallShape, ElementOfSeq
      <4>3. PICK o \in AddonNames : s = Step("create", n.on, o)
        BY <4>2 DEF Creations
      <4> QED BY <4>3 DEF Step
    <3>2. CASE n.mode = "removeCluster"
      <4>1. Plan(n) = Uninstall(n.on)
        BY <1>1, <3>2, PlanIs DEF ApplyAddon, MadeInv
      <4> QED BY <2>1, <2>2, <4>1, UninstallIn
    <3> QED BY <1>1, <3>1, <3>2, PlanIs DEF ApplyAddon, MadeInv
  <2>5. ASSUME NEW o, o \notin Removable, Present(n.on, o) PROVE Present(n.on, o)'
    <3>1. PICK y \in objects[n.on] : y \in SameName(o)
      BY <2>5 DEF Present
    <3>2. CASE s.op = "create"
      <4>1. objects'[n.on] = CreateOrUpdate(objects[n.on], s.obj)
        BY <1>2, <1>4, <2>2, <2>3, <3>2
      <4>2. CASE y \notin SameName(s.obj)
        BY <3>1, <4>1, <4>2 DEF CreateOrUpdate, Created, Present
      <4>3. CASE y \in SameName(s.obj)
        <5>1. SameName(o) = SameName(s.obj)
          BY <3>1, <4>3 DEF SameName, Secrets, ProxySecrets, Namespace
        <5>2. PICK x : x \in CreateOrUpdate(objects[n.on], s.obj) /\ x \in SameName(s.obj)
          BY <4>3 DEF CreateOrUpdate, Created, SameName, ProxySecrets, Secrets, Namespace
        <5> QED BY <4>1, <5>1, <5>2 DEF Present
      <4> QED BY <4>2, <4>3
    <3>3. CASE s.op = "delete"
      <4>1. objects'[n.on] = Deleted(objects[n.on], s.obj)
        BY <1>2, <1>4, <2>2, <2>3, <3>3
      <4>2. s.obj # "ns" /\ SameName(s.obj) = {s.obj} /\ y \notin Removable
        BY <2>4, <2>5, <3>1, <3>3, SameNameIs DEF Removable, Secrets, ProxySecrets, Namespace
      <4>3. y \in objects'[n.on]
        BY <2>4, <3>1, <3>3, <4>1, <4>2 DEF Deleted
      <4> QED BY <3>1, <4>3 DEF Present
    <3> QED BY <2>2, <3>2, <3>3
  <2>6. \A d \in Members : d # n.on => objects'[d] = objects[d]
    BY <1>2, <1>4, <2>2, <2>3
  <2>7. ASSUME "nsEnding" \notin objects[n.on] PROVE "nsEnding" \notin objects'[n.on]
    <3>1. CASE s.op = "create"
      <4>1. objects'[n.on] = CreateOrUpdate(objects[n.on], s.obj) /\ s.obj # "nsEnding"
        BY <1>2, <1>4, <2>2, <2>3, <2>4, <3>1 DEF AddonNames
      <4> QED BY <2>7, <4>1 DEF CreateOrUpdate, Created
    <3>2. CASE s.op = "delete"
      <4>1. objects'[n.on] = Deleted(objects[n.on], s.obj) /\ s.obj # "ns"
        BY <1>2, <1>4, <2>2, <2>3, <2>4, <3>2 DEF Removable
      <4> QED BY <2>7, <4>1 DEF Deleted
    <3> QED BY <2>2, <3>1, <3>2
  <2>8. PICK d \in Members : d = Target(running.cmd)
    BY TargetIs
  <2>9. /\ \A o : o \notin Removable /\ Present(d, o) => Present(d, o)'
        /\ "nsEnding" \notin objects[d] => "nsEnding" \notin objects'[d]
    BY <2>5, <2>6, <2>7 DEF Present
  <2> QED BY <1>2, <2>8, <2>9, MadeFrame
<1> QED BY <1>1, <1>3, <1>4 DEF ApplyAddon

(* Every step keeps what a command has made.                               *)
LEMMA MadeSteps == MadeInv /\ [DeployNext]_deployVars => MadeInv'
<1> SUFFICES ASSUME MadeInv, [DeployNext]_deployVars PROVE MadeInv'
  OBVIOUS
<1>1. DeployTypeOK'
  BY StepTypes DEF MadeInv
<1>2. callFaults' \in Nat
  <2>1. callFaults \in Nat
    BY DEF MadeInv
  <2>2. Fault => callFaults' \in Nat
    BY <2>1 DEF Fault
  <2> QED BY <2>1, <2>2 DEF DeployNext, OperatorSteps, Start, StartUnread, NamespaceEnds, Call, CallFails, CommandReturns, OperatorStarts, OperatorCrashes,
                ApplyAddon, AddonFails, EnsureFinalizer, ReleaseCluster, Reconcile, TreeHolds, TreeReleases, deployVars
<1>3. ASSUME running' = running, objects' = objects PROVE Made'
  BY <1>3, MadeFrame DEF Present
<1>4. ASSUME running' = NoCommand PROVE Made'
  <2>1. "none" \notin Installs \cup Joins
    BY JoinNames DEF Installs
  <2> QED BY <1>4, <2>1, Constants DEF Made
<1>5. ASSUME NEW cmd \in Installs \cup Uninstalls \cup Joins \cup Unjoins, Start(cmd) PROVE Made'
  <2>1. cmd \in Commands
    BY DEF Commands
  <2>2. running'.at = 1
    BY <1>5, <2>1, StartIs DEF MadeInv
  <2>3. \A i \in 1..(1 - 1) : FALSE
    OBVIOUS
  <2>4. running'.cmd = cmd /\ (~running'.late => "nsEnding" \notin objects[Target(cmd)]) /\ objects' = objects
    BY <1>5, <2>1, StartIs DEF MadeInv, Start
  <2> QED BY <2>2, <2>3, <2>4 DEF Made
<1>6. CASE OperatorSteps
  <2>1. CASE ApplyAddon
    BY <2>1, ApplyMade, <1>1, <1>2 DEF MadeInv
  <2>2. CASE ~ApplyAddon
    <3>1. running' = running /\ objects' = objects
      BY <1>6, <2>2 DEF OperatorSteps, OperatorStarts, OperatorCrashes, AddonFails, EnsureFinalizer, ReleaseCluster,
                        Reconcile, TreeHolds, TreeReleases
    <3> QED BY <1>1, <1>2, <1>3, <3>1 DEF MadeInv
  <2> QED BY <2>1, <2>2
<1>7. CASE UNCHANGED deployVars
  BY <1>1, <1>2, <1>3, <1>7 DEF deployVars, MadeInv
<1>8. CASE CommandReturns
  BY <1>1, <1>2, <1>4, <1>8 DEF CommandReturns, MadeInv
<1>9. CASE Call
  BY <1>1, <1>2, <1>9, CallMade DEF MadeInv
<1>10. ASSUME NEW cmd, cmd \notin Installs \cup Joins, running'.cmd = cmd PROVE Made'
  BY <1>10 DEF Made
<1>11. Uninstalls \cap (Installs \cup Joins) = {} /\ Unjoins \cap (Installs \cup Joins) = {}
  BY JoinNames DEF Uninstalls, Unjoins, Installs
<1>12. CASE CallFails
  <2>1. CASE running' = NoCommand
    BY <1>1, <1>2, <1>4, <2>1 DEF MadeInv
  <2>2. CASE running' # NoCommand
    <3>1. running'.cmd \in Uninstalls
      BY <1>12, <2>2, FailsIs DEF MadeInv, Goes, Aborts
    <3> QED BY <1>1, <1>2, <1>10, <1>11, <3>1 DEF MadeInv
  <2> QED BY <2>1, <2>2
<1>13. ASSUME NEW cmd \in Unjoins, StartUnread(cmd) PROVE MadeInv'
  <2>1. running'.cmd = cmd
    BY <1>13, UnreadIs DEF MadeInv
  <2> QED BY <1>1, <1>2, <1>10, <1>11, <2>1 DEF MadeInv
<1>14. ASSUME NEW c \in Members, NamespaceEnds(c) PROVE MadeInv'
  <2>1. running' = running /\ "nsEnding" \in objects[c] /\ objects \in [Members -> SUBSET Names]
        /\ \A d \in Members : d # c => objects'[d] = objects[d]
    BY <1>14 DEF NamespaceEnds, MadeInv, DeployTypeOK
  <2>2. CASE Target(running.cmd) = c
    BY <1>1, <1>2, <2>1, <2>2 DEF MadeInv, Made
  <2>3. CASE Target(running.cmd) # c
    <3>1. objects'[Target(running.cmd)] = objects[Target(running.cmd)]
      BY <2>1, <2>3, TargetIs
    <3> QED BY <1>1, <1>2, <2>1, <3>1, MadeFrame DEF MadeInv, Present
  <2> QED BY <2>2, <2>3
<1> QED BY <1>1, <1>2, <1>5, <1>6, <1>7, <1>8, <1>9, <1>12, <1>13, <1>14 DEF DeployNext, MadeInv

(* The invariant holds at the start.                                       *)
LEMMA MadeStarts == DeployInit => MadeInv
<1> SUFFICES ASSUME DeployInit PROVE MadeInv
  OBVIOUS
<1>1. DeployTypeOK
  BY DeployStarts DEF DeployInv
<1>2. callFaults \in Nat
  BY DeployConstants DEF DeployInit
<1>3. Made
  <2>1. "none" \notin Installs \cup Joins
    BY JoinNames DEF Installs
  <2>2. running = NoCommand
    BY DEF DeployInit
  <2> QED BY <2>1, <2>2, Constants DEF Made
<1> QED BY <1>1, <1>2, <1>3 DEF MadeInv

(* No command is stopped by what earlier ones, the operator or failures    *)
(* left behind or took away: it ends before its last call only because a   *)
(* call fails or for one of the reasons that Refused names, a namespace of *)
(* its cluster still being deleted when it started among them, for any     *)
(* number of commands, failing calls and crashes (install.go, uninstall.go,*)
(* join.go, unjoin.go).                                                    *)
THEOREM NoCommandStuck == DeploySpec => CommandsGoThrough
<1>1. ASSUME MadeInv, [DeployNext]_deployVars
      PROVE  [(running # NoCommand /\ running' = NoCommand /\ callFaults' = callFaults)
                => (Returned(running) \/ Refused)]_deployVars
  <2> SUFFICES ASSUME running # NoCommand, running' = NoCommand, callFaults' = callFaults
               PROVE  Returned(running) \/ Refused
    OBVIOUS
  <2>1. callFaults \in Nat
    BY <1>1 DEF MadeInv
  <2>2. ~Fault
    BY <2>1 DEF Fault
  <2>3. CASE Call
    BY <1>1, <2>3, CallGoesThrough
  <2>4. CASE CommandReturns
    BY <2>4 DEF CommandReturns
  <2>5. ~CallFails
    BY <2>2 DEF CallFails
  <2>6. \A cmd : ~Start(cmd) /\ ~StartUnread(cmd)
    BY DEF Start, StartUnread
  <2>7. ~UNCHANGED deployVars
    BY DEF deployVars
  <2>8. ~OperatorSteps
    BY DEF OperatorSteps, OperatorStarts, OperatorCrashes, ApplyAddon, AddonFails, EnsureFinalizer, ReleaseCluster,
           Reconcile, TreeHolds, TreeReleases
  <2>9. \A c \in Members : ~NamespaceEnds(c)
    BY DEF NamespaceEnds
  <2> QED BY <1>1, <2>3, <2>4, <2>5, <2>6, <2>7, <2>8, <2>9 DEF DeployNext
<1> QED BY <1>1, MadeStarts, MadeSteps, PTL DEF DeploySpec, CommandsGoThrough

-----------------------------------------------------------------------------
(* Multi-cluster services. *)

(* The controllers of the other mode never run. *)
MCSModes ==
  /\ mode = "mcs" => ~svcQ /\ epsQ = {}
  /\ mode = "direct" => export = None /\ ~autoQ /\ autoJob = None /\ \A c \in Clusters : imp[c] = None

Mine(c) == lsvc[c] # None /\ lsvc[c].mine

(* Slices of a leaf cluster of the right IP family are found by their      *)
(* service, or are being deleted after it; a clean-up that is through has  *)
(* left nothing.                                                           *)
MCSLeafSide ==
  mode = "mcs" => \A c \in Clusters \ lost :
    /\ (\A s \in Slices : leps[c][s] = None) \/ Mine(c) \/ c \in HalfCleaned \/ c \in unfit
    /\ impJob[c] # None /\ ~impJob[c].term /\ impJob[c].at = "eps" => Mine(c) \/ c \in unfit
    /\ c \in HalfCleaned => ~Mine(c)
    /\ impJob[c] # None /\ impJob[c].term /\ impJob[c].at = "end" => Empty(c)

(* A round that saw the export go has yet to come to every annotated slice. *)
MCSExportSide ==
  exportJob # None /\ exportJob.term =>
    \A s \in Slices : eps[s] # None /\ eps[s].exported => s \in exportJob.todo

MCSInv == MCSTypeOK /\ MCSModes /\ MCSLeafSide /\ MCSExportSide

(* The invariant holds at first. *)
LEMMA MCSStart == ASSUME MCSInit PROVE MCSInv
<1>1. MCSTypeOK
  <2>1. impTries \in [Clusters -> 0 .. MaxRetries] /\ budget \in [Disturbances -> Nat]
    BY BoundAssumption, ScenarioAssumption DEF MCSInit
  <2>2. joined \subseteq Clusters /\ served \subseteq joined /\ unfit \subseteq Clusters
    BY ScenarioAssumption DEF MCSInit
  <2>3. /\ eps \in [Slices -> RootSlice \union {None}] /\ imp \in [Clusters -> Claim \union {None}]
        /\ lsvc \in [Clusters -> LeafService \union {None}] /\ lsvcCache \in [Clusters -> LeafService \union {None}]
        /\ leps \in [Clusters -> [Slices -> Vers \union {None}]]
        /\ impJob \in [Clusters -> ImpRound \union {None}]
    BY DEF MCSInit
  <2>4. \A c \in Clusters : impJob[c] = None
    BY DEF MCSInit
  <2> QED BY <2>1, <2>2, <2>3, <2>4 DEF MCSInit, MCSTypeOK
<1>2. MCSModes /\ MCSExportSide
  BY DEF MCSInit, MCSModes, MCSExportSide
<1>3. MCSLeafSide
  BY DEF MCSInit, MCSLeafSide, HalfCleaned
<1> QED BY <1>1, <1>2, <1>3 DEF MCSInv

(* A disturbance is spent and the budget stays one. *)
LEMMA SpendTyping ==
  ASSUME MCSTypeOK, NEW e \in Disturbances, Spend(e)
  PROVE  budget' \in [Disturbances -> Nat]
  BY DEF MCSTypeOK, Spend

(* A step that leaves the leaf clusters and the importers alone. *)
LEMMA LeafSideKept ==
  ASSUME MCSInv, UNCHANGED <<mode, unfit, lsvc, leps, impJob>>, lost \subseteq lost'
  PROVE  MCSLeafSide'
  BY DEF MCSInv, MCSLeafSide, Mine, Empty, HalfCleaned

(* A step that leaves the slices and the exporter alone. *)
LEMMA ExportSideKept ==
  ASSUME MCSInv, UNCHANGED <<eps, exportJob>>
  PROVE  MCSExportSide'
  BY DEF MCSInv, MCSExportSide

(* What the three ways of writing a claim give. *)
LEMMA NewClaimTyping == NewClaim \in Claim
  BY DEF NewClaim, Claim

LEMMA DeletedTyping ==
  ASSUME NEW o \in Claim \union {None}
  PROVE  /\ DeletedClaim(o) \in Claim \union {None}
         /\ o # None /\ o.fin => DeletedClaim(o) # None
  BY NoneAssumption DEF DeletedClaim, Claim

LEMMA ReleasedTyping ==
  ASSUME NEW o \in Claim \union {None}, NEW term \in BOOLEAN
  PROVE  /\ Released(o, term) \in Claim \union {None}
         /\ o # None /\ Released(o, term) = None => term
  BY NoneAssumption DEF Released, Claim

(* A write of a slice; it never annotates one. *)
LEMMA MCSPutSlice ==
  ASSUME MCSInv, NEW s \in Slices, NEW new \in RootSlice \union {None}, PutSlice(s, new),
         budget' \in [Disturbances -> Nat],
         new # None /\ new.exported => eps[s] # None /\ eps[s].exported
  PROVE  MCSInv'
<1> USE DEF MCSInv, clusterVars, caches, rootVars, leafVars, autoVars, exportVars, impVars, directVars
<1>1. MCSTypeOK'
  <2>1. eps' \in [Slices -> RootSlice \union {None}]
    BY DEF MCSTypeOK, PutSlice
  <2>2. impQ' \subseteq Clusters /\ epsQ' \subseteq Slices /\ exportQ' \in BOOLEAN
    BY DEF MCSTypeOK, PutSlice, EpsEvent
  <2>3. UNCHANGED <<mode, prefix, joined, served, unfit, svc, svcCache, lsvcCache, export, imp, lsvc, leps, autoQ, autoJob,
                    exportJob, impJob, impTries, svcQ>>
    BY DEF PutSlice, clusterVars, leafVars, autoVars
  <2> QED
    BY <2>1, <2>2, <2>3 DEF MCSTypeOK
<1>2. MCSModes'
  BY DEF MCSTypeOK, MCSModes, PutSlice, EpsEvent
<1>3. MCSLeafSide'
  BY LeafSideKept DEF PutSlice, Lose
<1>4. MCSExportSide'
  BY DEF MCSTypeOK, MCSExportSide, PutSlice
<1> QED BY <1>1, <1>2, <1>3, <1>4

(* The users, the root cluster and the cluster controller. *)
LEMMA MCSSetSlice ==
  ASSUME MCSInv, NEW s \in Slices, SetSlice(s)
  PROVE  MCSInv'
<1>1. budget' \in [Disturbances -> Nat]
  BY SpendTyping DEF MCSInv, SetSlice, Disturbances
<1>2. CASE eps[s] = None
  <2>1. [ver |-> 0, exported |-> FALSE] \in RootSlice
    BY BoundAssumption DEF RootSlice, Vers
  <2> QED BY <1>1, <1>2, <2>1, MCSPutSlice DEF SetSlice
<1>3. CASE eps[s] # None
  <2>1. [eps[s] EXCEPT !.ver = @ + 1] \in RootSlice /\ [eps[s] EXCEPT !.ver = @ + 1].exported = eps[s].exported
    BY <1>3, BoundAssumption DEF MCSInv, MCSTypeOK, SetSlice, RootSlice, Vers
  <2> QED BY <1>1, <1>3, <2>1, MCSPutSlice DEF SetSlice
<1> QED BY <1>2, <1>3

LEMMA MCSRemoveSlice ==
  ASSUME MCSInv, NEW s \in Slices, RemoveSlice(s)
  PROVE  MCSInv'
<1>1. budget' \in [Disturbances -> Nat]
  BY SpendTyping DEF MCSInv, RemoveSlice, Disturbances
<1> QED BY <1>1, MCSPutSlice DEF RemoveSlice

LEMMA MCSCollectSlice ==
  ASSUME MCSInv, NEW s \in Slices, CollectSlice(s)
  PROVE  MCSInv'
<1>1. budget' \in [Disturbances -> Nat]
  BY DEF MCSInv, MCSTypeOK, CollectSlice
<1> QED BY <1>1, MCSPutSlice DEF CollectSlice

(* What a step of the importer of c leaves of the leaf side. *)
LEMMA LeafSideOther ==
  ASSUME MCSInv, NEW c \in Clusters, UNCHANGED <<mode, unfit>>, lost \subseteq lost',
         \A d \in Clusters \ {c} : lsvc'[d] = lsvc[d] /\ leps'[d] = leps[d] /\ impJob'[d] = impJob[d],
         mode = "mcs" /\ c \notin lost' =>
           (/\ (\A s \in Slices : leps[c][s] = None) \/ Mine(c) \/ c \in HalfCleaned \/ c \in unfit
            /\ impJob[c] # None /\ ~impJob[c].term /\ impJob[c].at = "eps" => Mine(c) \/ c \in unfit
            /\ c \in HalfCleaned => ~Mine(c)
            /\ impJob[c] # None /\ impJob[c].term /\ impJob[c].at = "end" => Empty(c))'
  PROVE  MCSLeafSide'
<1> SUFFICES ASSUME mode = "mcs", NEW d \in Clusters \ lost'
             PROVE  (/\ (\A s \in Slices : leps[d][s] = None) \/ Mine(d) \/ d \in HalfCleaned \/ d \in unfit
                     /\ impJob[d] # None /\ ~impJob[d].term /\ impJob[d].at = "eps" => Mine(d) \/ d \in unfit
                     /\ d \in HalfCleaned => ~Mine(d)
                     /\ impJob[d] # None /\ impJob[d].term /\ impJob[d].at = "end" => Empty(d))'
  BY DEF MCSLeafSide
<1>1. CASE d = c
  BY <1>1
<1>2. CASE d # c
  <2>1. /\ (\A s \in Slices : leps[d][s] = None) \/ Mine(d) \/ d \in HalfCleaned \/ d \in unfit
        /\ impJob[d] # None /\ ~impJob[d].term /\ impJob[d].at = "eps" => Mine(d) \/ d \in unfit
        /\ d \in HalfCleaned => ~Mine(d)
        /\ impJob[d] # None /\ impJob[d].term /\ impJob[d].at = "end" => Empty(d)
    BY DEF MCSInv, MCSLeafSide
  <2> QED BY <1>2, <2>1 DEF Mine, Empty, HalfCleaned
<1> QED BY <1>1, <1>2

(* What moving a round on changes. *)
LEMMA JobMoved ==
  ASSUME MCSInv, NEW c \in Clusters, impJob[c] # None, NEW to \in {"svc", "eps", "end"},
         impJob' = [impJob EXCEPT ![c].at = to]
  PROVE  /\ impJob' \in [Clusters -> ImpRound \union {None}]
         /\ impJob'[c] \in ImpRound /\ impJob'[c].term = impJob[c].term /\ impJob'[c].at = to
         /\ impJob'[c].read = impJob[c].read
         /\ \A d \in Clusters \ {c} : impJob'[d] = impJob[d]
<1>1. impJob \in [Clusters -> ImpRound \union {None}] /\ impJob[c] \in ImpRound
  BY DEF MCSInv, MCSTypeOK
<1>2. [impJob[c] EXCEPT !.at = to] \in ImpRound
  BY <1>1 DEF ImpRound
<1>3. impJob' = [impJob EXCEPT ![c] = [impJob[c] EXCEPT !.at = to]]
  OBVIOUS
<1> QED BY <1>1, <1>2, <1>3 DEF ImpRound

(* The types after a step of an importer. *)
LEMMA ImpTyping ==
  ASSUME MCSInv, NEW c \in Clusters, ImpUnchanged,
         impJob' \in [Clusters -> ImpRound \union {None}],
         \A d \in Clusters \ {c} : impJob'[d] = impJob[d],
         impJob'[c] # None /\ ~impJob'[c].term /\ impJob'[c].at = "eps" =>
           impJob'[c].read \in [Slices -> RootSlice \union {None}],
         imp' \in [Clusters -> Claim \union {None}],
         lsvc' \in [Clusters -> LeafService \union {None}],
         leps' \in [Clusters -> [Slices -> Vers \union {None}]],
         impQ' \subseteq Clusters, impTries' \in [Clusters -> 0 .. MaxRetries],
         budget' \in [Disturbances -> Nat]
  PROVE  MCSTypeOK'
<1>1. \A d \in Clusters : impJob'[d] # None /\ ~impJob'[d].term /\ impJob'[d].at = "eps" =>
        impJob'[d].read \in [Slices -> RootSlice \union {None}]
  BY DEF MCSInv, MCSTypeOK
<1> QED
  BY <1>1 DEF MCSInv, MCSTypeOK, ImpUnchanged, ImpRound, clusterVars, caches, rootVars, leafVars, autoVars, exportVars, impVars, directVars

(* The importers. *)
LEMMA MCSImpService ==
  ASSUME MCSInv, NEW c \in Clusters, ImpService(c)
  PROVE  MCSInv'
<1> USE DEF MCSInv, clusterVars, caches, rootVars, leafVars, autoVars, exportVars, impVars, directVars
<1>1. CASE svcCache = None
  <2>1. impJob[c] # None /\ impJob' = [impJob EXCEPT ![c].at = "end"] /\ ~impJob[c].term /\ lsvc' = lsvc /\ leps' = leps
    BY <1>1 DEF ImpService
  <2>2. MCSTypeOK'
    <3>1. /\ impJob' \in [Clusters -> ImpRound \union {None}] /\ impJob'[c].at = "end"
          /\ \A d \in Clusters \ {c} : impJob'[d] = impJob[d]
      BY <2>1, JobMoved
    <3>2. ImpUnchanged /\ UNCHANGED <<imp, lsvc, leps, impQ, impTries, budget>>
      BY <2>1 DEF ImpService
    <3>3. /\ imp' \in [Clusters -> Claim \union {None}] /\ lsvc' \in [Clusters -> LeafService \union {None}]
          /\ leps' \in [Clusters -> [Slices -> Vers \union {None}]] /\ impQ' \subseteq Clusters
          /\ impTries' \in [Clusters -> 0 .. MaxRetries] /\ budget' \in [Disturbances -> Nat]
      BY <3>2 DEF MCSTypeOK
    <3> QED BY <3>1, <3>2, <3>3, ImpTyping
  <2>3. MCSLeafSide'
    <3>1. /\ ~impJob'[c].term /\ impJob'[c].at = "end" /\ \A d \in Clusters \ {c} : impJob'[d] = impJob[d]
          /\ impJob[c].at = "svc"
      BY <2>1, JobMoved DEF ImpService
    <3>2. UNCHANGED <<mode, unfit, lsvc, leps>> /\ lost \subseteq lost'
      BY <2>1 DEF ImpService, Lose, ImpUnchanged
    <3> QED BY <3>1, <3>2, LeafSideOther DEF MCSLeafSide, Mine, HalfCleaned
  <2> QED BY <2>2, <2>3, ExportSideKept DEF MCSModes, ImpService, ImpUnchanged
<1>2. CASE svcCache # None
  <2>1. impJob[c] \in ImpRound /\ ~impJob[c].term /\ impJob \in [Clusters -> ImpRound \union {None}]
    BY <1>2 DEF ImpService, MCSTypeOK, ImpRound
  <2>2. eps \in [Slices -> RootSlice \union {None}]
    BY DEF MCSTypeOK
  <2>3. [impJob[c] EXCEPT !.at = "eps", !.read = eps] \in ImpRound
    BY <2>1, <2>2 DEF ImpRound
  <2>4. impJob' = [impJob EXCEPT ![c] = [impJob[c] EXCEPT !.at = "eps", !.read = eps]]
    BY <1>2 DEF ImpService
  <2>5. /\ impJob' \in [Clusters -> ImpRound \union {None}]
        /\ ~impJob'[c].term /\ impJob'[c].at = "eps" /\ impJob'[c].read = eps
        /\ \A d \in Clusters \ {c} : impJob'[d] = impJob[d]
    BY <2>1, <2>3, <2>4 DEF ImpRound
  <2>6. GenerateService(svcCache) \in LeafService /\ GenerateService(svcCache).mine
    BY <1>2 DEF MCSTypeOK, GenerateService, LeafService
  <2>7. /\ lsvc' \in [Clusters -> LeafService \union {None}] /\ (Mine(c)' \/ c \in unfit)
        /\ \A d \in Clusters \ {c} : lsvc'[d] = lsvc[d]
    <3>1. CASE c \in unfit
      BY <3>1 DEF MCSTypeOK, ImpService
    <3>2. CASE c \notin unfit
      <4>1. lsvc' = [lsvc EXCEPT ![c] = GenerateService(svcCache)]
        BY <1>2, <3>2 DEF ImpService
      <4> QED BY <2>6, <4>1, NoneAssumption DEF MCSTypeOK, Mine
    <3> QED BY <3>1, <3>2
  <2>8. MCSTypeOK'
    <3>1. ImpUnchanged /\ UNCHANGED <<imp, leps, impQ, impTries, budget>>
      BY DEF ImpService
    <3>2. /\ imp' \in [Clusters -> Claim \union {None}]
          /\ leps' \in [Clusters -> [Slices -> Vers \union {None}]] /\ impQ' \subseteq Clusters
          /\ impTries' \in [Clusters -> 0 .. MaxRetries] /\ budget' \in [Disturbances -> Nat]
      BY <3>1 DEF MCSTypeOK
    <3> QED BY <2>2, <2>5, <2>7, <3>1, <3>2, ImpTyping
  <2>9. MCSLeafSide'
    BY <2>5, <2>7, LeafSideOther DEF ImpService, Lose, ImpUnchanged, HalfCleaned, clusterVars
  <2> QED BY <2>8, <2>9, ExportSideKept DEF MCSModes, ImpService, ImpUnchanged
<1> QED BY <1>1, <1>2

LEMMA MCSCleanService ==
  ASSUME MCSInv, NEW c \in Clusters, CleanService(c)
  PROVE  MCSInv'
<1> USE DEF MCSInv, clusterVars, caches, rootVars, leafVars, autoVars, exportVars, impVars, directVars
<1> DEFINE gone == lsvcCache[c] = None \/ ~lsvcCache[c].mine \/ lsvc[c] = None
           to == IF gone THEN "end" ELSE "eps"
<1>1. impJob[c] # None /\ impJob[c].term /\ impJob[c].at = "svc" /\ impJob' = [impJob EXCEPT ![c].at = to]
  BY DEF CleanService
<1>2. /\ impJob' \in [Clusters -> ImpRound \union {None}]
      /\ impJob'[c] \in ImpRound /\ impJob'[c].term /\ impJob'[c].at = to
      /\ \A d \in Clusters \ {c} : impJob'[d] = impJob[d]
  <2>1. to \in {"svc", "eps", "end"}
    OBVIOUS
  <2> HIDE DEF to
  <2> QED BY <1>1, <2>1, JobMoved
<1>3. lsvc' = IF gone THEN lsvc ELSE [lsvc EXCEPT ![c] = None]
  BY DEF CleanService
<1>4. /\ lsvc' \in [Clusters -> LeafService \union {None}]
      /\ \A d \in Clusters \ {c} : lsvc'[d] = lsvc[d]
      /\ lsvc'[c] = IF gone THEN lsvc[c] ELSE None
  BY <1>3 DEF MCSTypeOK
<1>5. MCSTypeOK'
  BY <1>2, <1>4, ImpTyping DEF MCSTypeOK, CleanService
<1>6. MCSLeafSide'
  <2> SUFFICES ASSUME mode = "mcs", c \notin lost'
               PROVE  (/\ (\A s \in Slices : leps[c][s] = None) \/ Mine(c) \/ c \in HalfCleaned \/ c \in unfit
                       /\ impJob[c] # None /\ ~impJob[c].term /\ impJob[c].at = "eps" => Mine(c) \/ c \in unfit
                       /\ c \in HalfCleaned => ~Mine(c)
                       /\ impJob[c] # None /\ impJob[c].term /\ impJob[c].at = "end" => Empty(c))'
    BY <1>2, <1>4, LeafSideOther DEF CleanService, Lose, ImpUnchanged, clusterVars
  <2>1. /\ (\A s \in Slices : leps[c][s] = None) \/ Mine(c) \/ c \in unfit
        /\ gone => Empty(c) \/ (c \notin unfit /\ lsvcCache[c] = lsvc[c])
    <3>1. c \notin lost /\ (gone => Empty(c) \/ (c \notin unfit /\ lsvcCache[c] = lsvc[c]))
      BY DEF CleanService, Lose, Stale
    <3> QED BY <1>1, <3>1 DEF MCSLeafSide, HalfCleaned
  <2>2. leps' = leps
    BY DEF CleanService
  <2>3. CASE gone
    BY <1>2, <1>4, <2>1, <2>2, <2>3 DEF Mine, Empty
  <2>4. CASE ~gone
    <3>1. impJob'[c] # None
      BY <1>2, NoneAssumption
    <3> QED BY <1>2, <1>4, <2>4, <3>1 DEF HalfCleaned, Mine
  <2> QED BY <2>3, <2>4
<1> QED BY <1>5, <1>6, ExportSideKept DEF MCSModes, CleanService, ImpUnchanged

LEMMA MCSCleanSlices ==
  ASSUME MCSInv, NEW c \in Clusters, CleanSlices(c)
  PROVE  MCSInv'
<1> USE DEF MCSInv, clusterVars, caches, rootVars, leafVars, autoVars, exportVars, impVars, directVars
<1>1. impJob[c] # None /\ impJob[c].term /\ impJob[c].at = "eps" /\ impJob' = [impJob EXCEPT ![c].at = "end"]
  BY DEF CleanSlices
<1>2. leps' \in [Clusters -> [Slices -> Vers \union {None}]] /\ (\A s \in Slices : leps'[c][s] = None)
      /\ \A d \in Clusters \ {c} : leps'[d] = leps[d]
  BY DEF CleanSlices, MCSTypeOK
<1>3. MCSTypeOK'
  BY <1>1, <1>2, JobMoved, ImpTyping DEF MCSTypeOK, CleanSlices
<1>4. MCSLeafSide'
  BY <1>1, <1>2, JobMoved, LeafSideOther
     DEF CleanSlices, ImpUnchanged, clusterVars, MCSLeafSide, HalfCleaned, Mine, Empty
<1> QED BY <1>3, <1>4, ExportSideKept DEF MCSModes, CleanSlices, ImpUnchanged

(* Events of the service, and of clusters. *)
LEMMA MCSCreateService ==
  ASSUME MCSInv, CreateService
  PROVE  MCSInv'
<1> USE DEF MCSInv, clusterVars, caches, rootVars, leafVars, autoVars, exportVars, impVars, directVars
<1>1. MCSTypeOK'
  BY BoundAssumption DEF MCSTypeOK, Vers, Disturbances, Spend, CreateService, PutService, Lose
<1>2. MCSModes'
  BY DEF MCSTypeOK, MCSModes, CreateService, PutService, Lose
<1>3. MCSLeafSide'
  BY LeafSideKept DEF CreateService, PutService, Lose
<1>4. MCSExportSide'
  BY ExportSideKept DEF CreateService, PutService, Lose
<1> QED BY <1>1, <1>2, <1>3, <1>4

LEMMA MCSEditService ==
  ASSUME MCSInv, EditService
  PROVE  MCSInv'
<1> USE DEF MCSInv, clusterVars, caches, rootVars, leafVars, autoVars, exportVars, impVars, directVars
<1>1. MCSTypeOK'
  BY BoundAssumption DEF MCSTypeOK, Vers, Disturbances, Spend, EditService, PutService, Lose
<1>2. MCSModes'
  BY DEF MCSTypeOK, MCSModes, EditService, PutService, Lose
<1>3. MCSLeafSide'
  BY LeafSideKept DEF EditService, PutService, Lose
<1>4. MCSExportSide'
  BY ExportSideKept DEF EditService, PutService, Lose
<1> QED BY <1>1, <1>2, <1>3, <1>4

LEMMA MCSMarkService ==
  ASSUME MCSInv, MarkService
  PROVE  MCSInv'
<1> USE DEF MCSInv, clusterVars, caches, rootVars, leafVars, autoVars, exportVars, impVars, directVars
<1>1. MCSTypeOK'
  <2>1. svc' \in [mark : BOOLEAN, ver : Vers] \union {None}
    BY DEF MCSTypeOK, Claim, MarkService, PutService, Lose
  <2>2. budget' \in [Disturbances -> Nat]
    BY SpendTyping DEF Disturbances, MarkService, PutService, Lose
  <2> QED
    BY <2>1, <2>2 DEF MCSTypeOK, MarkService, PutService, Lose
<1>2. MCSModes'
  BY DEF MCSTypeOK, MCSModes, MarkService, PutService, Lose
<1>3. MCSLeafSide'
  BY LeafSideKept DEF MarkService, PutService, Lose
<1>4. MCSExportSide'
  BY ExportSideKept DEF MarkService, PutService, Lose
<1> QED BY <1>1, <1>2, <1>3, <1>4

LEMMA MCSDeleteService ==
  ASSUME MCSInv, DeleteService
  PROVE  MCSInv'
<1> USE DEF MCSInv, clusterVars, caches, rootVars, leafVars, autoVars, exportVars, impVars, directVars
<1>1. MCSTypeOK'
  BY BoundAssumption DEF MCSTypeOK, Vers, Disturbances, Spend, DeleteService, PutService, Lose
<1>2. MCSModes'
  BY DEF MCSTypeOK, MCSModes, DeleteService, PutService, Lose
<1>3. MCSLeafSide'
  BY LeafSideKept DEF DeleteService, PutService, Lose
<1>4. MCSExportSide'
  BY ExportSideKept DEF DeleteService, PutService, Lose
<1> QED BY <1>1, <1>2, <1>3, <1>4

LEMMA MCSSeeService ==
  ASSUME MCSInv, SeeService
  PROVE  MCSInv'
<1> USE DEF MCSInv, clusterVars, caches, rootVars, leafVars, autoVars, exportVars, impVars, directVars
<1>1. MCSTypeOK'
  BY DEF MCSTypeOK, SeeService, ServiceEvent
<1>2. MCSModes'
  BY DEF MCSTypeOK, MCSModes, SeeService, ServiceEvent
<1>3. MCSLeafSide'
  BY LeafSideKept DEF SeeService, ServiceEvent
<1>4. MCSExportSide'
  BY ExportSideKept DEF SeeService, ServiceEvent
<1> QED BY <1>1, <1>2, <1>3, <1>4

LEMMA MCSSeeLeaf ==
  ASSUME MCSInv, NEW c \in Clusters, SeeLeaf(c)
  PROVE  MCSInv'
<1> USE DEF MCSInv, clusterVars, caches, rootVars, leafVars, autoVars, exportVars, impVars, directVars
<1>1. MCSTypeOK'
  <2>1. lsvcCache' \in [Clusters -> LeafService \union {None}]
    BY DEF MCSTypeOK, SeeLeaf
  <2> QED BY <2>1 DEF MCSTypeOK, SeeLeaf
<1>2. MCSModes'
  BY DEF MCSTypeOK, MCSModes, SeeLeaf
<1>3. MCSLeafSide'
  BY LeafSideKept DEF SeeLeaf
<1>4. MCSExportSide'
  BY ExportSideKept DEF SeeLeaf
<1> QED BY <1>1, <1>2, <1>3, <1>4

LEMMA MCSForeign ==
  ASSUME MCSInv, NEW c \in Clusters, Foreign(c)
  PROVE  MCSInv'
<1> USE DEF MCSInv, clusterVars, caches, rootVars, leafVars, autoVars, exportVars, impVars, directVars
<1>1. MCSTypeOK'
  BY BoundAssumption DEF MCSTypeOK, LeafService, Vers, Disturbances, Spend, Foreign
<1>2. MCSModes'
  BY DEF MCSTypeOK, MCSModes, Foreign
<1>3. MCSLeafSide'
  BY DEF MCSTypeOK, MCSLeafSide, Mine, Empty, HalfCleaned, Foreign
<1>4. MCSExportSide'
  BY ExportSideKept DEF Foreign
<1> QED BY <1>1, <1>2, <1>3, <1>4

LEMMA MCSJoin ==
  ASSUME MCSInv, NEW c \in Clusters, Join(c)
  PROVE  MCSInv'
<1> USE DEF MCSInv, clusterVars, caches, rootVars, leafVars, autoVars, exportVars, impVars, directVars
<1>1. MCSTypeOK'
  BY BoundAssumption DEF MCSTypeOK, Vers, Disturbances, Spend, Join, Lose
<1>2. MCSModes'
  BY DEF MCSTypeOK, MCSModes, Join, Lose
<1>3. MCSLeafSide'
  BY LeafSideKept DEF Join, Lose
<1>4. MCSExportSide'
  BY ExportSideKept DEF Join, Lose
<1> QED BY <1>1, <1>2, <1>3, <1>4

LEMMA MCSServe ==
  ASSUME MCSInv, NEW c \in Clusters, Serve(c)
  PROVE  MCSInv'
<1> USE DEF MCSInv, clusterVars, caches, rootVars, leafVars, autoVars, exportVars, impVars, directVars
<1>1. MCSTypeOK'
  BY DEF MCSTypeOK, Serve
<1>2. MCSModes'
  BY DEF MCSTypeOK, MCSModes, Serve
<1>3. MCSLeafSide'
  BY LeafSideKept DEF Serve
<1>4. MCSExportSide'
  BY ExportSideKept DEF Serve
<1> QED BY <1>1, <1>2, <1>3, <1>4

LEMMA MCSRestart ==
  ASSUME MCSInv, Restart
  PROVE  MCSInv'
<1> USE DEF MCSInv, clusterVars, caches, rootVars, leafVars, autoVars, exportVars, impVars, directVars
<1>1. MCSTypeOK'
  BY BoundAssumption DEF MCSTypeOK, Vers, Disturbances, Spend, Restart
<1>2. MCSModes'
  BY DEF MCSTypeOK, MCSModes, Restart
<1>3. MCSLeafSide'
  BY DEF MCSTypeOK, MCSLeafSide, Mine, Empty, HalfCleaned, Restart
<1>4. MCSExportSide'
  BY DEF MCSTypeOK, MCSExportSide, Restart
<1> QED BY <1>1, <1>2, <1>3, <1>4

(* The other controllers. *)
LEMMA MCSAutoFails ==
  ASSUME MCSInv, AutoFails
  PROVE  MCSInv'
<1> USE DEF MCSInv, clusterVars, caches, rootVars, leafVars, autoVars, exportVars, impVars, directVars
<1>1. MCSTypeOK'
  BY BoundAssumption DEF MCSTypeOK, Vers, Disturbances, Spend, AutoFails, AutoUnchanged
<1>2. MCSModes'
  BY DEF MCSTypeOK, MCSModes, AutoFails, AutoUnchanged
<1>3. MCSLeafSide'
  BY LeafSideKept DEF AutoFails, AutoUnchanged
<1>4. MCSExportSide'
  BY ExportSideKept DEF AutoFails, AutoUnchanged
<1> QED BY <1>1, <1>2, <1>3, <1>4

LEMMA MCSAutoDone ==
  ASSUME MCSInv, AutoDone
  PROVE  MCSInv'
<1> USE DEF MCSInv, clusterVars, caches, rootVars, leafVars, autoVars, exportVars, impVars, directVars
<1>1. MCSTypeOK'
  BY DEF MCSTypeOK, AutoDone, AutoUnchanged
<1>2. MCSModes'
  BY DEF MCSTypeOK, MCSModes, AutoDone, AutoUnchanged
<1>3. MCSLeafSide'
  BY LeafSideKept DEF AutoDone, AutoUnchanged
<1>4. MCSExportSide'
  BY ExportSideKept DEF AutoDone, AutoUnchanged
<1> QED BY <1>1, <1>2, <1>3, <1>4

LEMMA MCSExportTake ==
  ASSUME MCSInv, ExportTake
  PROVE  MCSInv'
<1> USE DEF MCSInv, clusterVars, caches, rootVars, leafVars, autoVars, exportVars, impVars, directVars
<1>1. MCSTypeOK'
  <2>1. exportJob' \in [term : BOOLEAN, todo : SUBSET Slices] \union {None}
    BY DEF MCSTypeOK, Claim, ExportTake, ExportUnchanged
  <2>2. /\ exportQ' \in BOOLEAN
        /\ UNCHANGED <<mode, prefix, joined, served, unfit, svc, svcCache, lsvcCache, eps, export, imp, lsvc, leps, autoQ, autoJob,
                       impQ, impJob, impTries, svcQ, epsQ, budget>>
    BY DEF ExportTake, ExportUnchanged
  <2> QED
    BY <2>1, <2>2 DEF MCSTypeOK
<1>2. MCSModes'
  BY DEF MCSTypeOK, MCSModes, ExportTake, ExportUnchanged
<1>3. MCSLeafSide'
  BY LeafSideKept DEF ExportTake, ExportUnchanged
<1>4. MCSExportSide'
  BY DEF MCSTypeOK, MCSExportSide, ExportTake, ExportUnchanged
<1> QED BY <1>1, <1>2, <1>3, <1>4

LEMMA MCSExportFails ==
  ASSUME MCSInv, ExportFails
  PROVE  MCSInv'
<1> USE DEF MCSInv, clusterVars, caches, rootVars, leafVars, autoVars, exportVars, impVars, directVars
<1>1. MCSTypeOK'
  BY BoundAssumption DEF MCSTypeOK, Vers, Disturbances, Spend, ExportFails, ExportUnchanged
<1>2. MCSModes'
  BY DEF MCSTypeOK, MCSModes, ExportFails, ExportUnchanged
<1>3. MCSLeafSide'
  BY LeafSideKept DEF ExportFails, ExportUnchanged
<1>4. MCSExportSide'
  BY DEF MCSTypeOK, MCSExportSide, ExportFails, ExportUnchanged
<1> QED BY <1>1, <1>2, <1>3, <1>4

LEMMA MCSExportDone ==
  ASSUME MCSInv, ExportDone
  PROVE  MCSInv'
<1> USE DEF MCSInv, clusterVars, caches, rootVars, leafVars, autoVars, exportVars, impVars, directVars
<1>1. MCSTypeOK'
  <2>1. export' \in Claim \union {None}
    BY DEF MCSTypeOK, Claim, ExportDone, ExportUnchanged, Released
  <2>2. exportQ' \in BOOLEAN
    BY DEF MCSTypeOK, Claim, ExportDone, ExportUnchanged, Released
  <2> QED
    BY <2>1, <2>2 DEF MCSTypeOK, ExportDone, ExportUnchanged, Released
<1>2. MCSModes'
  BY DEF MCSTypeOK, MCSModes, ExportDone, ExportUnchanged, Released
<1>3. MCSLeafSide'
  BY LeafSideKept DEF ExportDone, ExportUnchanged, Released
<1>4. MCSExportSide'
  BY DEF MCSTypeOK, MCSExportSide, ExportDone, ExportUnchanged, Released
<1> QED BY <1>1, <1>2, <1>3, <1>4

LEMMA MCSImpTake ==
  ASSUME MCSInv, NEW c \in Clusters, ImpTake(c)
  PROVE  MCSInv'
<1> USE DEF MCSInv, clusterVars, caches, rootVars, leafVars, autoVars, exportVars, impVars, directVars
<1> DEFINE round == [term |-> imp[c].term, at |-> "svc", read |-> None]
<1>1. imp[c] # None => round \in ImpRound
  BY DEF MCSTypeOK, Claim, ImpRound
<1>2. impJob[c] = None /\ impJob' = IF imp[c] = None THEN impJob ELSE [impJob EXCEPT ![c] = round]
  BY DEF ImpTake
<1>3. /\ impJob' \in [Clusters -> ImpRound \union {None}]
      /\ \A d \in Clusters \ {c} : impJob'[d] = impJob[d]
      /\ impJob'[c] # None => impJob'[c].at = "svc"
  <2> HIDE DEF round
  <2>1. imp[c] # None => round.at = "svc"
    BY DEF round
  <2> QED BY <1>1, <1>2, <2>1 DEF MCSTypeOK
<1>4. MCSTypeOK'
  <2>1. impQ' \subseteq Clusters /\ impTries' \in [Clusters -> 0 .. MaxRetries]
    BY BoundAssumption DEF MCSTypeOK, ImpTake
  <2> QED BY <1>3, <2>1, ImpTyping DEF MCSTypeOK, ImpTake, leafVars
<1>5. MCSModes'
  BY DEF MCSModes, ImpTake, ImpUnchanged
<1>6. MCSLeafSide'
  BY <1>2, <1>3, LeafSideOther DEF MCSLeafSide, Mine, Empty, HalfCleaned, ImpTake, ImpUnchanged, clusterVars, leafVars
<1>7. MCSExportSide'
  BY ExportSideKept DEF ImpTake, ImpUnchanged
<1> QED BY <1>4, <1>5, <1>6, <1>7

LEMMA MCSImpSlices ==
  ASSUME MCSInv, NEW c \in Clusters, ImpSlices(c)
  PROVE  MCSInv'
<1> USE DEF MCSInv, clusterVars, caches, rootVars, leafVars, autoVars, exportVars, impVars, directVars
<1>1. /\ impJob[c] # None /\ ~impJob[c].term /\ impJob[c].at = "eps"
      /\ impJob' = [impJob EXCEPT ![c].at = "end"]
  BY DEF ImpSlices
<1>2. leps' \in [Clusters -> [Slices -> Vers \union {None}]] /\ \A d \in Clusters \ {c} : leps'[d] = leps[d]
  <2> DEFINE copy == [s \in Slices |-> IF impJob[c].read[s] = None THEN leps[c][s] ELSE impJob[c].read[s].ver]
  <2>1. impJob[c].read \in [Slices -> RootSlice \union {None}]
    BY <1>1 DEF MCSTypeOK
  <2>2. copy \in [Slices -> Vers \union {None}]
    BY <2>1 DEF MCSTypeOK, RootSlice
  <2>3. leps' = [leps EXCEPT ![c] = copy]
    BY DEF ImpSlices
  <2> HIDE DEF copy
  <2> QED BY <2>2, <2>3 DEF MCSTypeOK
<1>3. MCSTypeOK'
  BY <1>1, <1>2, JobMoved, ImpTyping DEF MCSTypeOK, ImpSlices
<1>4. MCSModes'
  BY DEF MCSModes, ImpSlices, ImpUnchanged
<1>5. MCSLeafSide'
  BY <1>1, <1>2, JobMoved, LeafSideOther DEF MCSLeafSide, Mine, HalfCleaned, ImpSlices, ImpUnchanged, clusterVars
<1>6. MCSExportSide'
  BY ExportSideKept DEF ImpSlices, ImpUnchanged
<1> QED BY <1>3, <1>4, <1>5, <1>6

LEMMA MCSHandleError ==
  ASSUME MCSInv, NEW c \in Clusters, HandleError(c), budget' \in [Disturbances -> Nat]
  PROVE  MCSInv'
<1> USE DEF MCSInv, clusterVars, caches, rootVars, leafVars, autoVars, exportVars, impVars, directVars
<1>1. /\ impJob' \in [Clusters -> ImpRound \union {None}] /\ impJob'[c] = None
      /\ \A d \in Clusters \ {c} : impJob'[d] = impJob[d]
  BY DEF MCSTypeOK, HandleError
<1>2. MCSTypeOK'
  <2>1. impQ' \subseteq Clusters /\ impTries' \in [Clusters -> 0 .. MaxRetries]
    <3>1. impTries \in [Clusters -> 0 .. MaxRetries] /\ impTries[c] \in 0 .. MaxRetries /\ MaxRetries \in Nat
      BY BoundAssumption DEF MCSTypeOK
    <3>2. CASE Requeues(c)
      <4>1. impTries[c] + 1 \in 0 .. MaxRetries
        BY <3>1, <3>2 DEF Requeues
      <4> QED BY <3>1, <3>2, <4>1 DEF MCSTypeOK, HandleError
    <3>3. CASE ~Requeues(c)
      <4>1. 0 \in 0 .. MaxRetries
        BY <3>1
      <4> QED BY <3>1, <3>3, <4>1 DEF MCSTypeOK, HandleError
    <3> QED BY <3>2, <3>3
  <2> QED BY <1>1, <2>1, ImpTyping DEF MCSTypeOK, HandleError, leafVars
<1>3. MCSModes'
  BY DEF MCSModes, HandleError, ImpUnchanged
<1>4. MCSLeafSide'
  BY <1>1, LeafSideOther DEF MCSLeafSide, Mine, HalfCleaned, HandleError, ImpUnchanged, clusterVars, leafVars
<1>5. MCSExportSide'
  BY ExportSideKept DEF HandleError, ImpUnchanged
<1> QED BY <1>2, <1>3, <1>4, <1>5

LEMMA MCSImpFails ==
  ASSUME MCSInv, NEW c \in Clusters, ImpFails(c) \/ ImpConflict(c)
  PROVE  MCSInv'
<1>1. budget' \in [Disturbances -> Nat]
  <2>1. CASE ImpFails(c)
    BY <2>1, SpendTyping DEF MCSInv, ImpFails, Disturbances
  <2>2. CASE ImpConflict(c)
    BY <2>2 DEF MCSInv, MCSTypeOK, ImpConflict
  <2> QED BY <2>1, <2>2
<1>2. HandleError(c)
  BY DEF ImpFails, ImpConflict
<1> QED BY <1>1, <1>2, MCSHandleError

(* The claims that users and AutoCreateMCSController write. *)
LEMMA MCSUserExport ==
  ASSUME MCSInv, UserExport
  PROVE  MCSInv'
<1> USE DEF MCSInv, clusterVars, caches, rootVars, leafVars, autoVars, exportVars, impVars, directVars
<1>1. MCSTypeOK'
  <2>1. export' \in Claim \union {None} /\ exportQ' \in BOOLEAN
    BY NewClaimTyping, DeletedTyping DEF MCSTypeOK, UserExport, DeleteExport
  <2>2. budget' \in [Disturbances -> Nat]
    BY SpendTyping DEF UserExport, Disturbances
  <2> QED BY <2>1, <2>2 DEF MCSTypeOK, UserExport
<1>2. MCSModes'
  BY DEF MCSModes, UserExport
<1>3. MCSLeafSide'
  BY LeafSideKept DEF UserExport, Lose
<1>4. MCSExportSide'
  BY ExportSideKept DEF UserExport
<1> QED BY <1>1, <1>2, <1>3, <1>4

LEMMA MCSUserImport ==
  ASSUME MCSInv, NEW c \in Clusters, UserImport(c)
  PROVE  MCSInv'
<1> USE DEF MCSInv, clusterVars, caches, rootVars, leafVars, autoVars, exportVars, impVars, directVars
<1>1. MCSTypeOK'
  <2>1. imp' \in [Clusters -> Claim \union {None}] /\ impQ' \subseteq Clusters
    <3>1. imp[c] \in Claim \union {None}
      BY DEF MCSTypeOK
    <3>2. NewClaim \in Claim /\ DeletedClaim(imp[c]) \in Claim \union {None}
      BY <3>1, NewClaimTyping, DeletedTyping
    <3>3. imp \in [Clusters -> Claim \union {None}] /\ impQ \subseteq Clusters
      BY DEF MCSTypeOK
    <3> QED BY <3>2, <3>3 DEF UserImport, DeleteImport
  <2>2. budget' \in [Disturbances -> Nat]
    BY SpendTyping DEF UserImport, Disturbances
  <2> QED BY <2>1, <2>2 DEF MCSTypeOK, UserImport
<1>2. MCSModes'
  BY DEF MCSModes, UserImport
<1>3. MCSLeafSide'
  BY LeafSideKept DEF UserImport, Lose
<1>4. MCSExportSide'
  BY ExportSideKept DEF UserImport
<1> QED BY <1>1, <1>2, <1>3, <1>4

LEMMA MCSAutoTake ==
  ASSUME MCSInv, AutoTake
  PROVE  MCSInv'
<1> USE DEF MCSInv, clusterVars, caches, rootVars, leafVars, autoVars, exportVars, impVars, directVars
<1>1. MCSTypeOK'
  <2>1. ShouldEnqueue(svcCache) \in BOOLEAN
    BY DEF MCSTypeOK, ShouldEnqueue
  <2>2. autoJob' \in [create : BOOLEAN, export : BOOLEAN, todo : SUBSET Clusters] \union {None}
    BY <2>1 DEF MCSTypeOK, AutoTake
  <2>3. /\ autoQ' \in BOOLEAN
        /\ UNCHANGED <<mode, prefix, joined, served, unfit, svc, svcCache, lsvcCache, eps, export, imp, lsvc, leps, exportQ, exportJob,
                       impQ, impJob, impTries, svcQ, epsQ, budget>>
    BY DEF AutoTake, AutoUnchanged
  <2> QED BY <2>2, <2>3 DEF MCSTypeOK
<1>2. MCSModes'
  BY DEF MCSModes, AutoTake, AutoUnchanged
<1>3. MCSLeafSide'
  BY LeafSideKept DEF AutoTake, AutoUnchanged
<1>4. MCSExportSide'
  BY ExportSideKept DEF AutoTake, AutoUnchanged
<1> QED BY <1>1, <1>2, <1>3, <1>4

LEMMA MCSAutoExport ==
  ASSUME MCSInv, AutoExport
  PROVE  MCSInv'
<1> USE DEF MCSInv, clusterVars, caches, rootVars, leafVars, autoVars, exportVars, impVars, directVars
<1>1. MCSTypeOK'
  <2>1. export' \in Claim \union {None} /\ exportQ' \in BOOLEAN
    BY NewClaimTyping, DeletedTyping DEF MCSTypeOK, AutoExport, DeleteExport
  <2>2. autoJob' \in [create : BOOLEAN, export : BOOLEAN, todo : SUBSET Clusters] \union {None}
    BY DEF MCSTypeOK, AutoExport
  <2> QED BY <2>1, <2>2 DEF MCSTypeOK, AutoExport, AutoUnchanged
<1>2. MCSModes'
  BY DEF MCSTypeOK, MCSModes, AutoExport, AutoUnchanged
<1>3. MCSLeafSide'
  BY LeafSideKept DEF AutoExport, AutoUnchanged, Lose
<1>4. MCSExportSide'
  BY ExportSideKept DEF AutoExport, AutoUnchanged
<1> QED BY <1>1, <1>2, <1>3, <1>4

LEMMA MCSAutoCluster ==
  ASSUME MCSInv, NEW c \in Clusters, AutoCluster(c)
  PROVE  MCSInv'
<1> USE DEF MCSInv, clusterVars, caches, rootVars, leafVars, autoVars, exportVars, impVars, directVars
<1>1. MCSTypeOK'
  <2>1. imp' \in [Clusters -> Claim \union {None}] /\ impQ' \subseteq Clusters
    <3>1. imp[c] \in Claim \union {None}
      BY DEF MCSTypeOK
    <3> QED BY <3>1, NewClaimTyping, DeletedTyping DEF MCSTypeOK, AutoCluster, DeleteImport
  <2>2. autoJob' \in [create : BOOLEAN, export : BOOLEAN, todo : SUBSET Clusters] \union {None}
    BY DEF MCSTypeOK, AutoCluster
  <2> QED BY <2>1, <2>2 DEF MCSTypeOK, AutoCluster, AutoUnchanged
<1>2. MCSModes'
  BY DEF MCSTypeOK, MCSModes, AutoCluster, AutoUnchanged
<1>3. MCSLeafSide'
  BY LeafSideKept DEF AutoCluster, AutoUnchanged, Lose
<1>4. MCSExportSide'
  BY ExportSideKept DEF AutoCluster, AutoUnchanged
<1> QED BY <1>1, <1>2, <1>3, <1>4

LEMMA MCSExportSlice ==
  ASSUME MCSInv, NEW s \in Slices, ExportSlice(s)
  PROVE  MCSInv'
<1> USE DEF MCSInv, clusterVars, caches, rootVars, leafVars, autoVars, exportVars, impVars, directVars
<1> DEFINE new == IF eps[s] = None THEN None ELSE [eps[s] EXCEPT !.exported = ~exportJob.term]
<1>1. /\ exportJob # None /\ s \in exportJob.todo /\ exportJob.term \in BOOLEAN
      /\ exportJob' = [exportJob EXCEPT !.todo = @ \ {s}]
  BY DEF MCSTypeOK, ExportSlice
<1>2. /\ new \in RootSlice \union {None}
      /\ new # None /\ eps[s] # None => new.exported = ~exportJob.term
      /\ eps[s] = None => new = None
  BY <1>1 DEF MCSTypeOK, RootSlice
<1>3. /\ eps' \in [Slices -> RootSlice \union {None}] /\ eps' = [eps EXCEPT ![s] = new]
      /\ impQ' \subseteq Clusters /\ epsQ' \subseteq Slices /\ exportQ' \in BOOLEAN
  <2>1. CASE new = eps[s]
    BY <1>2, <2>1 DEF MCSTypeOK, ExportSlice
  <2>2. CASE new # eps[s]
    <3>1. eps' = [eps EXCEPT ![s] = new] /\ EpsEvent(s, new) /\ exportQ' = TRUE
      BY <2>2 DEF ExportSlice
    <3>2. impQ' \subseteq Clusters /\ epsQ' \subseteq Slices
      BY <3>1 DEF MCSTypeOK, EpsEvent
    <3> QED BY <1>2, <3>1, <3>2 DEF MCSTypeOK
  <2> QED BY <2>1, <2>2
<1>4. /\ exportJob' \in [term : BOOLEAN, todo : SUBSET Slices]
      /\ exportJob'.term = exportJob.term /\ exportJob'.todo = exportJob.todo \ {s}
  BY <1>1 DEF MCSTypeOK
<1>5. MCSTypeOK'
  <2>1. UNCHANGED <<mode, prefix, joined, served, unfit, svc, svcCache, lsvcCache, export, imp, lsvc, leps, autoQ, autoJob,
                    impJob, impTries, svcQ, budget>>
    BY DEF ExportSlice, ExportUnchanged, clusterVars, leafVars, autoVars
  <2> QED BY <1>3, <1>4, <2>1 DEF MCSTypeOK
<1>6. MCSModes'
  <2>1. mode = "mcs" => epsQ' = epsQ
    BY DEF MCSTypeOK, ExportSlice, EpsEvent
  <2> QED BY <2>1 DEF MCSModes, ExportSlice, ExportUnchanged
<1>7. MCSLeafSide'
  BY LeafSideKept DEF ExportSlice, ExportUnchanged
<1>8. MCSExportSide'
  <2> SUFFICES ASSUME exportJob.term, NEW x \in Slices, eps'[x] # None, eps'[x].exported
               PROVE  x \in exportJob.todo \ {s}
    BY <1>4 DEF MCSExportSide
  <2>1. CASE x = s
    BY <1>2, <1>3, <2>1 DEF MCSTypeOK
  <2>2. CASE x # s
    BY <1>1, <1>3, <2>2 DEF MCSTypeOK, MCSExportSide
  <2> QED BY <2>1, <2>2
<1> QED BY <1>5, <1>6, <1>7, <1>8

LEMMA MCSImpDone ==
  ASSUME MCSInv, NEW c \in Clusters, ImpDone(c)
  PROVE  MCSInv'
<1> USE DEF MCSInv, clusterVars, caches, rootVars, leafVars, autoVars, exportVars, impVars, directVars
<1>1. /\ imp[c] \in Claim \union {None} /\ impJob[c].term \in BOOLEAN
      /\ imp' = [imp EXCEPT ![c] = Released(imp[c], impJob[c].term)]
  BY DEF MCSTypeOK, ImpRound, ImpDone
<1>2. imp' \in [Clusters -> Claim \union {None}] /\ \A d \in Clusters : imp[d] = None => imp'[d] = None
  <2>1. Released(imp[c], impJob[c].term) \in Claim \union {None}
    BY <1>1, ReleasedTyping
  <2>2. imp[c] = None => Released(imp[c], impJob[c].term) = None
    BY DEF Released
  <2> QED BY <1>1, <2>1, <2>2 DEF MCSTypeOK
<1>3. /\ impJob' \in [Clusters -> ImpRound \union {None}] /\ impJob'[c] = None
      /\ \A d \in Clusters \ {c} : impJob'[d] = impJob[d]
  BY DEF MCSTypeOK, ImpDone
<1>4. impQ' \subseteq Clusters /\ impTries' \in [Clusters -> 0 .. MaxRetries]
  BY BoundAssumption DEF MCSTypeOK, ImpDone
<1>5. MCSTypeOK'
  BY <1>2, <1>3, <1>4, ImpTyping DEF MCSTypeOK, ImpDone
<1>6. MCSModes'
  BY <1>2 DEF MCSModes, ImpDone, ImpUnchanged
<1>7. MCSLeafSide'
  BY <1>3, LeafSideOther DEF MCSLeafSide, Mine, Empty, HalfCleaned, ImpDone, ImpUnchanged, clusterVars
<1>8. MCSExportSide'
  BY ExportSideKept DEF ImpDone, ImpUnchanged
<1> QED BY <1>5, <1>6, <1>7, <1>8

LEMMA MCSSimpleService ==
  ASSUME MCSInv, SimpleService
  PROVE  MCSInv'
<1> USE DEF MCSInv, clusterVars, caches, rootVars, leafVars, autoVars, exportVars, impVars, directVars
<1>1. mode # "mcs"
  BY DEF MCSModes, SimpleService
<1>2. PICK bad \in SUBSET served : /\ UNCHANGED budget \/ Spend("fail")
                                   /\ svcQ' = (bad # {})
                                   /\ SyncServiceInLeafCluster(served \ bad)
  BY DEF SimpleService
<1>3. budget' \in [Disturbances -> Nat]
  BY <1>2, SpendTyping DEF MCSTypeOK, Disturbances
<1>4. lsvc' \in [Clusters -> LeafService \union {None}]
  BY <1>2 DEF MCSTypeOK, SyncServiceInLeafCluster, GenerateService, LeafService
<1>5. MCSTypeOK'
  BY <1>2, <1>3, <1>4 DEF MCSTypeOK, SimpleService, DirectUnchanged
<1>6. MCSModes' /\ MCSLeafSide'
  BY <1>1 DEF MCSModes, MCSLeafSide, SimpleService, DirectUnchanged
<1>7. MCSExportSide'
  BY ExportSideKept DEF SimpleService, DirectUnchanged
<1> QED BY <1>5, <1>6, <1>7

LEMMA MCSSimpleEps ==
  ASSUME MCSInv, NEW s \in Slices, SimpleEps(s)
  PROVE  MCSInv'
<1> USE DEF MCSInv, clusterVars, caches, rootVars, leafVars, autoVars, exportVars, impVars, directVars
<1>1. mode # "mcs"
  BY DEF MCSModes, SimpleEps
<1>2. leps' \in [Clusters -> [Slices -> Vers \union {None}]] /\ epsQ' \subseteq Slices /\ budget' \in [Disturbances -> Nat]
  <2>1. CASE eps[s] # None /\ svcCache = None
    BY <2>1 DEF MCSTypeOK, SimpleEps
  <2>2. CASE ~(eps[s] # None /\ svcCache = None)
    <3>1. PICK bad \in SUBSET served : /\ IF bad = {} THEN UNCHANGED budget ELSE Spend("fail")
                                       /\ epsQ' = IF bad = {} THEN epsQ \ {s} ELSE epsQ
                                       /\ SyncEpsInLeafCluster(s, served \ bad)
      BY <2>2 DEF SimpleEps
    <3>2. budget' \in [Disturbances -> Nat]
      BY <3>1, SpendTyping DEF MCSTypeOK, Disturbances
    <3>3. leps' \in [Clusters -> [Slices -> Vers \union {None}]]
      BY <3>1 DEF MCSTypeOK, SyncEpsInLeafCluster, RootSlice
    <3> QED BY <3>1, <3>2, <3>3 DEF MCSTypeOK
  <2> QED BY <2>1, <2>2
<1>3. MCSTypeOK'
  BY <1>2 DEF MCSTypeOK, SimpleEps, DirectUnchanged
<1>4. MCSModes' /\ MCSLeafSide'
  BY <1>1 DEF MCSModes, MCSLeafSide, SimpleEps, DirectUnchanged
<1>5. MCSExportSide'
  BY ExportSideKept DEF SimpleEps, DirectUnchanged
<1> QED BY <1>3, <1>4, <1>5

(* Every step keeps the invariant. *)
LEMMA MCSStep ==
  ASSUME MCSInv, [MCSNext]_mcsVars
  PROVE  MCSInv'
<1>1. ASSUME NEW s \in Slices, SetSlice(s) \/ RemoveSlice(s) \/ CollectSlice(s) \/ SimpleEps(s) \/ ExportSlice(s)
      PROVE  MCSInv'
  BY <1>1, MCSSetSlice, MCSRemoveSlice, MCSCollectSlice, MCSSimpleEps, MCSExportSlice
<1>2. ASSUME NEW c \in Clusters, UserImport(c) \/ Foreign(c) \/ Join(c) \/ Serve(c) \/ SeeLeaf(c) \/ AutoCluster(c)
      PROVE  MCSInv'
  BY <1>2, MCSUserImport, MCSForeign, MCSJoin, MCSServe, MCSSeeLeaf, MCSAutoCluster
<1>3. ASSUME NEW c \in Clusters, ImpStep(c) \/ ImpFails(c)
      PROVE  MCSInv'
  BY <1>3, MCSImpTake, MCSImpService, MCSImpSlices, MCSCleanService, MCSCleanSlices, MCSImpDone, MCSImpFails
     DEF ImpStep
<1>4. ASSUME CreateService \/ EditService \/ MarkService \/ DeleteService \/ SeeService \/ UserExport \/ Restart
      PROVE  MCSInv'
  BY <1>4, MCSCreateService, MCSEditService, MCSMarkService, MCSDeleteService, MCSSeeService, MCSUserExport, MCSRestart
<1>5. ASSUME AutoTake \/ AutoExport \/ AutoDone \/ AutoFails \/ ExportTake \/ ExportDone \/ ExportFails \/ SimpleService
      PROVE  MCSInv'
  BY <1>5, MCSAutoTake, MCSAutoExport, MCSAutoDone, MCSAutoFails, MCSExportTake, MCSExportDone, MCSExportFails,
     MCSSimpleService
<1>6. ASSUME UNCHANGED mcsVars
      PROVE  MCSInv'
  BY <1>6, LeafSideKept, ExportSideKept
     DEF MCSInv, MCSTypeOK, MCSModes, mcsVars, clusterVars, caches, rootVars, leafVars, autoVars, exportVars, impVars, directVars
<1> QED
  BY <1>1, <1>2, <1>3, <1>4, <1>5, <1>6 DEF MCSNext, AutoStep, ExportStep

(* The types of the multi-cluster services, with the bound of the retries. *)
THEOREM MCSTyping == MCSSpec => []MCSTypeOK
<1>1. MCSInv => MCSTypeOK
  BY DEF MCSInv
<1> QED
  BY <1>1, MCSStart, MCSStep, PTL DEF MCSSpec

(* A clean-up removes the claim of an import only in the last step of a    *)
(* round that saw the deletion.                                            *)
LEMMA ImportGoes ==
  ASSUME MCSInv, [MCSNext]_mcsVars, NEW c \in Clusters, imp[c] # None, imp[c].fin, imp'[c] = None
  PROVE  Empty(c) \/ c \in lost
<1> USE DEF MCSInv
<1>1. imp[c] \in Claim /\ DeletedClaim(imp[c]) # None
  BY DeletedTyping DEF MCSTypeOK
<1>2. imp' # imp
  OBVIOUS
<1>3. ASSUME NEW d \in Clusters, UserImport(d) \/ AutoCluster(d)
      PROVE  FALSE
  BY <1>1, <1>3 DEF MCSTypeOK, UserImport, AutoCluster, DeleteImport
<1>4. ASSUME NEW d \in Clusters, ImpDone(d)
      PROVE  Empty(c) \/ c \in lost
  <2>1. d = c
    BY <1>4 DEF MCSTypeOK, ImpDone
  <2>2. impJob[c] # None /\ impJob[c].at = "end" /\ impJob[c].term \in BOOLEAN
        /\ imp'[c] = Released(imp[c], impJob[c].term)
    BY <1>4, <2>1 DEF MCSTypeOK, ImpRound, ImpDone
  <2>3. impJob[c].term
    BY <1>1, <2>2, ReleasedTyping
  <2>4. mode = "mcs"
    BY DEF MCSTypeOK, MCSModes
  <2> QED BY <2>2, <2>3, <2>4 DEF MCSLeafSide
<1>5. ASSUME NEW s \in Slices, SetSlice(s) \/ RemoveSlice(s) \/ CollectSlice(s) \/ SimpleEps(s) \/ ExportSlice(s)
      PROVE  imp' = imp
  BY <1>5 DEF SetSlice, RemoveSlice, CollectSlice, PutSlice, SimpleEps, DirectUnchanged, ExportSlice, ExportUnchanged,
     leafVars
<1>6. ASSUME NEW d \in Clusters, \/ Foreign(d) \/ Join(d) \/ Serve(d) \/ SeeLeaf(d) \/ ImpTake(d) \/ ImpService(d) \/ ImpSlices(d)
                                 \/ CleanService(d) \/ CleanSlices(d) \/ ImpFails(d) \/ ImpConflict(d)
      PROVE  imp' = imp
  BY <1>6 DEF Foreign, Join, Serve, SeeLeaf, ImpTake, ImpService, ImpSlices, CleanService, CleanSlices, ImpFails,
     ImpConflict, HandleError, leafVars
<1>7. ASSUME CreateService \/ EditService \/ MarkService \/ DeleteService \/ SeeService \/ UserExport \/ Restart
      PROVE  imp' = imp
  BY <1>7 DEF CreateService, EditService, MarkService, DeleteService, PutService, SeeService, UserExport, Restart, leafVars
<1>8. ASSUME AutoTake \/ AutoExport \/ AutoDone \/ AutoFails \/ ExportTake \/ ExportDone \/ ExportFails \/ SimpleService
      PROVE  imp' = imp
  BY <1>8 DEF AutoTake, AutoExport, AutoDone, AutoFails, ExportTake, ExportDone, ExportFails, ExportUnchanged,
     SimpleService, DirectUnchanged, leafVars
<1>9. UNCHANGED mcsVars => imp' = imp
  BY DEF mcsVars, leafVars
<1> QED
  BY <1>2, <1>3, <1>4, <1>5, <1>6, <1>7, <1>8, <1>9 DEF MCSNext, AutoStep, ExportStep, ImpStep

(* The same of the export, whose rounds have by then taken every           *)
(* annotation away.                                                        *)
LEMMA ExportGoes ==
  ASSUME MCSInv, [MCSNext]_mcsVars, export # None, export.fin, export' = None
  PROVE  \A s \in Slices : eps[s] # None => ~eps[s].exported
<1> USE DEF MCSInv
<1>1. export \in Claim /\ DeletedClaim(export) # None
  BY DeletedTyping DEF MCSTypeOK
<1>2. export' # export
  OBVIOUS
<1>3. ASSUME UserExport \/ AutoExport
      PROVE  FALSE
  BY <1>1, <1>3 DEF UserExport, AutoExport, DeleteExport
<1>4. ASSUME ExportDone
      PROVE  \A s \in Slices : eps[s] # None => ~eps[s].exported
  <2>1. exportJob # None /\ exportJob.todo = {} /\ exportJob.term \in BOOLEAN /\ export' = Released(export, exportJob.term)
    BY <1>4 DEF MCSTypeOK, ExportDone
  <2>2. exportJob.term
    BY <1>1, <2>1, ReleasedTyping
  <2> QED BY <2>1, <2>2 DEF MCSExportSide
<1>5. ASSUME NEW s \in Slices, SetSlice(s) \/ RemoveSlice(s) \/ CollectSlice(s) \/ SimpleEps(s) \/ ExportSlice(s)
      PROVE  export' = export
  BY <1>5 DEF SetSlice, RemoveSlice, CollectSlice, PutSlice, SimpleEps, DirectUnchanged, ExportSlice, rootVars
<1>6. ASSUME NEW d \in Clusters, \/ Foreign(d) \/ Join(d) \/ Serve(d) \/ SeeLeaf(d) \/ UserImport(d) \/ AutoCluster(d)
                                 \/ ImpStep(d) \/ ImpFails(d)
      PROVE  export' = export
  BY <1>6 DEF Foreign, Join, Serve, SeeLeaf, UserImport, AutoCluster, ImpStep, ImpTake, ImpService, ImpSlices,
     CleanService, CleanSlices, ImpDone, ImpFails, ImpConflict, HandleError, ImpUnchanged, rootVars
<1>7. ASSUME CreateService \/ EditService \/ MarkService \/ DeleteService \/ SeeService \/ Restart
      PROVE  export' = export
  BY <1>7 DEF CreateService, EditService, MarkService, DeleteService, PutService, SeeService, Restart, rootVars
<1>8. ASSUME AutoTake \/ AutoDone \/ AutoFails \/ ExportTake \/ ExportFails \/ SimpleService
      PROVE  export' = export
  BY <1>8 DEF AutoTake, AutoDone, AutoFails, ExportTake, ExportFails, SimpleService, DirectUnchanged, rootVars
<1>9. UNCHANGED mcsVars => export' = export
  BY DEF mcsVars, rootVars
<1> QED
  BY <1>2, <1>3, <1>4, <1>5, <1>6, <1>7, <1>8, <1>9 DEF MCSNext, AutoStep, ExportStep

(* CleanBeforeGone for any clusters, slices and disturbances: whatever     *)
(* rounds, failing calls and restarts come between, a finalizer of the     *)
(* multi-cluster services goes only after what it guards, save in the      *)
(* clusters that lost names: the ones where a clean-up read a cache that   *)
(* lagged, was cut off half-way, or found a service of another IP family.  *)
THEOREM GoneMeansClean == MCSSpec => CleanBeforeGone
<1>1. MCSInv /\ [MCSNext]_mcsVars =>
        [/\ \A c \in Clusters : imp[c] # None /\ imp[c].fin /\ imp'[c] = None => Empty(c) \/ c \in lost
         /\ export # None /\ export.fin /\ export' = None => \A s \in Slices : eps[s] # None => ~eps[s].exported
        ]_mcsVars
  BY ImportGoes, ExportGoes
<1> QED
  BY <1>1, MCSStart, MCSStep, PTL DEF MCSSpec, CleanBeforeGone

=============================================================================
