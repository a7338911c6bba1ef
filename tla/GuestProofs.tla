---------------------------- MODULE GuestProofs ----------------------------
(***************************************************************************)
(* What a tenant's guest leaves behind it: its answers and wakes, from the *)
(* invocations that run it, and its output, on the way to CloudWatch.      *)
(*                                                                         *)
(* Invocation, for any number of requests, messages and tasks: the types,  *)
(* that one guest runs at a time, and that nothing is answered before it   *)
(* is anchored.  Without background tasks the same holds of wakes; with    *)
(* them it does not: a finish that anchors nothing still delivers what is  *)
(* staged (tasks.rs).  None of these is inductive alone.  HoldsLock        *)
(* extends GuestHoldsLock to the steps around the guest's call;            *)
(* AnchoredCalls says what an invocation knows once its anchor is in, and  *)
(* CleanIsEnded that a clean end comes after that; StagedUnderLock that    *)
(* nobody stages between an anchor and the delivery it allows.             *)
(*                                                                         *)
(* LogShip, for any sizes of the queues, batches and calls: every line     *)
(* lands in order or is counted, twice only when an answer was lost, and a *)
(* shutdown that nothing cuts short leaves none behind.  The invariant is  *)
(* ShipInv, before its lemmas below.                                       *)
(***************************************************************************)
EXTENDS Invocation, LogShip, SequenceTheorems, FiniteSetTheorems,
        WellFoundedInduction, TLAPS


HoldsLock == \A i \in Invocations :
  pc[i] \in InCall \cup {"anchoring", "anchored", "locked"} => lock = i

AnchoredCalls == \A i \in Interactive :
  pc[i] \in {"anchored", "ended"} /\ i \in written => i \in anchored

CleanIsEnded == \A i \in Interactive : resp[i] = "clean" => pc[i] = "ended"

TaskSteps == \A i \in Invocations :
  pc[i] \in {"locked", "ran", "unrecorded", "finished"} => i \in Tasks

WroteFirst == \A i \in Invocations : pc[i] \in {"wrote", "staged"} => i \in written

Inv == TypeOK /\ HoldsLock /\ AnchoredCalls /\ CleanIsEnded /\ TaskSteps /\ WroteFirst

StagedUnderLock == \A i \in Invocations : pc[i] = "anchored" => staged \subseteq anchored

LEMMA Initially == Init => Inv
BY InvocationAssumption DEF Init, Inv, TypeOK, HoldsLock, AnchoredCalls, CleanIsEnded, TaskSteps,
   WroteFirst, InCall, Over, Invocations, Interactive

LEMMA Inductive == Inv /\ [Next]_vars => Inv'
<1> SUFFICES ASSUME Inv, [Next]_vars PROVE Inv'
  OBVIOUS
<1> USE InvocationAssumption
    DEF Inv, TypeOK, HoldsLock, AnchoredCalls, CleanIsEnded, TaskSteps, WroteFirst, InCall, Over,
        Invocations, Interactive, Move, Release
<1>0. ASSUME lock = "free", NEW j \in Invocations
      PROVE  pc[j] \notin InCall \cup {"anchoring", "anchored", "locked"}
  BY <1>0
<1>1. ASSUME NEW i \in Invocations, Arrive(i) \/ Acquire(i) PROVE Inv'
  <2>1. CASE Arrive(i)
    BY <2>1 DEF Arrive
  <2>2. CASE Acquire(i)
    <3>1. /\ lock = "free" /\ pc[i] = "waiting"
          /\ lock' = i /\ pc' = [pc EXCEPT ![i] = "held"]
      BY <2>2 DEF Acquire
    <3>2. UNCHANGED <<resp, written, anchored, staged, woken, orphans, cancelled, up>>
      BY <2>2 DEF Acquire
    <3>3. TypeOK'
      BY <3>1, <3>2
    <3>4. HoldsLock'
      BY <1>0, <3>1
    <3>5. AnchoredCalls' /\ CleanIsEnded' /\ TaskSteps' /\ WroteFirst'
      BY <3>1, <3>2
    <3> QED BY <3>3, <3>4, <3>5
  <2> QED BY <1>1, <2>1, <2>2
<1>2. ASSUME NEW i \in Invocations, GuestWrites(i) \/ GuestStages(i) PROVE Inv'
  <2>1. CASE GuestWrites(i)
    <3>1. /\ pc[i] = "held" /\ pc' = [pc EXCEPT ![i] = "wrote"]
          /\ written' = written \cup {i}
          /\ UNCHANGED <<lock, resp, anchored, staged, woken, orphans, cancelled, up>>
      BY <2>1 DEF GuestWrites
    <3>2. TypeOK' /\ HoldsLock' /\ CleanIsEnded' /\ TaskSteps' /\ WroteFirst'
      BY <3>1
    <3>3. AnchoredCalls'
      BY <3>1
    <3> QED BY <3>2, <3>3
  <2>2. CASE GuestStages(i)
    <3>1. /\ pc[i] = "wrote" /\ pc' = [pc EXCEPT ![i] = "staged"]
          /\ staged' = staged \cup {i}
          /\ UNCHANGED <<lock, resp, written, anchored, woken, orphans, cancelled, up>>
      BY <2>2 DEF GuestStages
    <3>2. HoldsLock' /\ CleanIsEnded' /\ TaskSteps' /\ WroteFirst' /\ AnchoredCalls'
      BY <3>1
    <3>3. TypeOK'
      BY <3>1
    <3> QED BY <3>2, <3>3
  <2> QED BY <1>2, <2>1, <2>2
<1>3. ASSUME NEW i \in Invocations, GuestSetsHead(i) \/ Unwatched(i) PROVE Inv'
  BY <1>3 DEF GuestSetsHead, Unwatched
<1>18. ASSUME NEW i \in Invocations, SetupFails(i) PROVE Inv'
  BY <1>18 DEF SetupFails
<1>4. ASSUME NEW i \in Invocations, NEW task \in Tasks, GuestCancels(i, task) PROVE Inv'
  BY <1>4 DEF GuestCancels
<1>5. ASSUME NEW i \in Invocations, CallReturns(i) \/ MessageFails(i) PROVE Inv'
  BY <1>5 DEF CallReturns, MessageFails
<1>6. ASSUME NEW i \in Invocations, AnchorHolds(i) PROVE Inv'
  BY <1>6 DEF AnchorHolds, Anchor
<1>7. ASSUME NEW i \in Invocations, Complete(i) PROVE Inv'
  BY <1>7 DEF Complete, deliver_staged
<1>8. ASSUME NEW i \in Invocations, AnchorFails(i) PROVE Inv'
  BY <1>8 DEF AnchorFails, drop_staged
<1>9. ASSUME NEW i \in Invocations, Deadline(i) PROVE Inv'
  BY <1>9 DEF Deadline
<1>10. ASSUME NEW i \in Invocations, ResponseEnds(i) PROVE Inv'
  BY <1>10 DEF ResponseEnds
<1>11. ASSUME NEW i \in Invocations, TryLock(i) PROVE Inv'
  <2>1. UNCHANGED <<resp, written, anchored, staged, woken, orphans, cancelled, up>>
    BY <1>11 DEF TryLock
  <2>2. CASE lock = "free"
    <3>1. i \in Tasks /\ pc[i] = "new" /\ lock' = i /\ pc' = [pc EXCEPT ![i] = "locked"]
      BY <1>11, <2>2 DEF TryLock
    <3>2. HoldsLock'
      BY <1>0, <2>2, <3>1
    <3>3. TypeOK' /\ AnchoredCalls' /\ CleanIsEnded' /\ TaskSteps' /\ WroteFirst'
      BY <2>1, <3>1
    <3> QED BY <3>2, <3>3
  <2>3. CASE lock # "free"
    BY <1>11, <2>1, <2>3 DEF TryLock
  <2> QED BY <2>2, <2>3
<1>12. ASSUME NEW i \in Invocations, Begin(i) PROVE Inv'
  BY <1>12 DEF Begin, Anchor
<1>13. ASSUME NEW i \in Invocations, RunReturns(i) \/ FinishUnrecorded(i) PROVE Inv'
  BY <1>13 DEF RunReturns, FinishUnrecorded
<1>14. ASSUME NEW i \in Invocations, FinishAnchors(i) PROVE Inv'
  BY <1>14 DEF FinishAnchors, Anchor
<1>15. ASSUME NEW i \in Invocations, Deliver(i) \/ FinishFails(i) PROVE Inv'
  <2>1. i \in Tasks /\ i \notin Interactive
    BY <1>15 DEF Deliver, FinishFails
  <2>2. CASE Deliver(i)
    BY <2>1, <2>2 DEF Deliver, deliver_staged
  <2>3. CASE FinishFails(i)
    BY <2>1, <2>3 DEF FinishFails, drop_staged
  <2> QED BY <1>15, <2>2, <2>3
<1>16. CASE OrphanAnchors
  BY <1>16 DEF OrphanAnchors, Anchor
<1>17. CASE UNCHANGED vars
  BY <1>17 DEF vars
<1> QED BY <1>1, <1>2, <1>3, <1>4, <1>5, <1>6, <1>7, <1>8, <1>9, <1>10, <1>11, <1>12,
           <1>13, <1>14, <1>15, <1>16, <1>17, <1>18 DEF Next, Step

(* Every variable of the serving path's model keeps its type. *)
THEOREM TypeCorrect == Spec => []TypeOK
<1>1. Inv => TypeOK
  BY DEF Inv
<1> QED BY Initially, Inductive, <1>1, PTL DEF Spec

(* A guest runs only while its invocation holds the tenant's lock, so two  *)
(* of one tenant's guests never run at once.                               *)
THEOREM GuestsAreSerial == Spec => []GuestHoldsLock
<1>1. Inv => GuestHoldsLock
  BY DEF Inv, HoldsLock, GuestHoldsLock
<1> QED BY Initially, Inductive, <1>1, PTL DEF Spec

(* No response ends cleanly and no reply is returned before what its call  *)
(* wrote is anchored.                                                      *)
THEOREM AnswersAreDurable == Spec => []AnsweredIsDurable
<1>1. Inv => AnsweredIsDurable
  BY DEF Inv, AnchoredCalls, CleanIsEnded, AnsweredIsDurable
<1> QED BY Initially, Inductive, <1>1, PTL DEF Spec

(* Until a background task has been tried, a wake is raised only once the  *)
(* write it announces is anchored.                                         *)
THEOREM WakesAreDurable == Spec => []CallsWakeAfterAnchor
<1> DEFINE WInv == Inv /\ (NoTaskYet => StagedUnderLock /\ WakeAfterAnchor)
<1>1. Init => WInv
  BY Initially DEF Init, NoTaskYet, StagedUnderLock, WakeAfterAnchor
<1>2. WInv /\ [Next]_vars => WInv'
  <2> SUFFICES ASSUME WInv, [Next]_vars, NoTaskYet'
               PROVE  StagedUnderLock' /\ WakeAfterAnchor'
    BY Inductive
  <2> USE InvocationAssumption
      DEF Inv, TypeOK, HoldsLock, TaskSteps, NoTaskYet, StagedUnderLock, WakeAfterAnchor,
          InCall, Over, Invocations, Interactive, Move, Release
  <2>1. ASSUME NEW i \in Invocations, Arrive(i) \/ Acquire(i)
        PROVE  StagedUnderLock' /\ WakeAfterAnchor'
    BY <2>1 DEF Arrive, Acquire
  <2>2. ASSUME NEW i \in Invocations, GuestWrites(i) \/ GuestStages(i)
        PROVE  StagedUnderLock' /\ WakeAfterAnchor'
    BY <2>2 DEF GuestWrites, GuestStages
  <2>3. ASSUME NEW i \in Invocations, GuestSetsHead(i) \/ Unwatched(i) \/ ResponseEnds(i)
        PROVE  StagedUnderLock' /\ WakeAfterAnchor'
    BY <2>3 DEF GuestSetsHead, Unwatched, ResponseEnds
  <2>4. ASSUME NEW i \in Invocations, NEW task \in Tasks, GuestCancels(i, task)
        PROVE  StagedUnderLock' /\ WakeAfterAnchor'
    BY <2>4 DEF GuestCancels
  <2>5. ASSUME NEW i \in Invocations, CallReturns(i) \/ MessageFails(i) \/ Deadline(i)
                                      \/ SetupFails(i)
        PROVE  StagedUnderLock' /\ WakeAfterAnchor'
    BY <2>5 DEF CallReturns, MessageFails, Deadline, SetupFails
  <2>6. ASSUME NEW i \in Invocations, AnchorHolds(i)
        PROVE  StagedUnderLock' /\ WakeAfterAnchor'
    BY <2>6 DEF AnchorHolds, Anchor
  <2>7. ASSUME NEW i \in Invocations, Complete(i)
        PROVE  StagedUnderLock' /\ WakeAfterAnchor'
    BY <2>7 DEF Complete, deliver_staged
  <2>8. ASSUME NEW i \in Invocations, AnchorFails(i)
        PROVE  StagedUnderLock' /\ WakeAfterAnchor'
    BY <2>8 DEF AnchorFails, drop_staged
  <2>9. CASE OrphanAnchors
    BY <2>9 DEF OrphanAnchors, Anchor
  <2>10. CASE UNCHANGED vars
    BY <2>10 DEF vars
  <2>11. ASSUME NEW i \in Invocations
         PROVE  /\ ~TryLock(i) /\ ~Begin(i) /\ ~RunReturns(i) /\ ~FinishUnrecorded(i)
                /\ ~FinishAnchors(i) /\ ~Deliver(i) /\ ~FinishFails(i)
    BY DEF TryLock, Begin, RunReturns, FinishUnrecorded, FinishAnchors, Deliver, FinishFails
  <2> QED BY <2>1, <2>2, <2>3, <2>4, <2>5, <2>6, <2>7, <2>8, <2>9, <2>10, <2>11 DEF Next, Step
<1>3. WInv => CallsWakeAfterAnchor
  BY DEF CallsWakeAfterAnchor
<1> QED BY <1>1, <1>2, <1>3, PTL DEF Spec

(* Neither an answer nor, until a task is tried, a wake overtakes the      *)
(* anchor of what its call wrote (in_tenant, run_message, the held end of  *)
(* a body, deliver_staged).                                                *)
THEOREM NothingOvertakes == Spec => []NothingBeforeAnchor
<1>1. AnsweredIsDurable /\ CallsWakeAfterAnchor => NothingBeforeAnchor
  BY DEF NothingBeforeAnchor
<1> QED BY <1>1, AnswersAreDurable, WakesAreDurable, PTL

-----------------------------------------------------------------------------
(* LogShip.  A line moves from the queue to the transport, to the batch     *)
(* being filled, to the sealed ones, and out; what is ahead on that way was *)
(* framed before what is behind (InLine).  What landed and was answered is  *)
(* ahead of all that is held; what landed unanswered is held with all that  *)
(* is behind it and nothing before it will be sent for the first time       *)
(* (Landing).  The calls still to make cut the oldest batch into pieces,    *)
(* each with the stale records before its events (CutUp).  Settled says how *)
(* far the two tasks and main have got, and what is then empty.             *)
Rising(s) == \A i, j \in DOMAIN s : i < j => s[i] < s[j]
Before(A, B) == \A a \in A, b \in B : a < b

(* Batches in their order: none empty or too long, each before the next.    *)
InAll(bs) == UNION {Range(bs[i]) : i \in DOMAIN bs}
Lined(bs) ==
  /\ bs \in Seq(Seq(Records))
  /\ \A i \in DOMAIN bs : Len(bs[i]) \in 1 .. BatchMax /\ Rising(bs[i])
  /\ \A i, j \in DOMAIN bs : i < j => Before(Range(bs[i]), Range(bs[j]))

InLine ==
  /\ Rising(queue) /\ Rising(transport) /\ Rising(current) /\ Lined(pending)
  /\ Before(InBatches, Range(current)) /\ Before(InBatches, Range(transport))
  /\ Before(InBatches, Range(queue)) /\ Before(Range(current), Range(transport))
  /\ Before(Range(current), Range(queue)) /\ Before(Range(transport), Range(queue))
  /\ \A r \in Held : r <= framed

Landing ==
  /\ unanswered \subseteq Range(landed)
  /\ \A r \in Range(landed) : r <= framed
  /\ \A r \in Range(landed) : r \in unanswered \/ \A h \in Held : r < h
  /\ \A u \in unanswered, h \in Held : h < u => h \in unanswered \/ TooOld(h)

(* calls cut batch where p says: call i accounts for what is after p[i - 1] *)
(* up to p[i].                                                              *)
Piece(batch, call, from, to) ==
  /\ call.consumed = to - from
  /\ \E q \in from .. to - 1 :
       /\ call.events = SubSeq(batch, q + 1, to)
       /\ \A k \in from + 1 .. q : TooOld(batch[k]) /\ batch[k] \in counted

Cuts(batch, calls, p) ==
  /\ p \in [0 .. Len(calls) -> 0 .. Len(batch)]
  /\ p[0] = 0 /\ p[Len(calls)] = Len(batch)
  /\ \A i, j \in 0 .. Len(calls) : i < j => p[i] < p[j]
  /\ \A i \in 1 .. Len(calls) : Piece(batch, calls[i], p[i - 1], p[i])

NoneAhead == \A i \in DOMAIN chunks : \A e \in Range(chunks[i].events), u \in unanswered :
                e < u => e \in unanswered

CutUp ==
  /\ chunks # <<>> => /\ pending # <<>>
                      /\ \E p \in [0 .. Len(chunks) -> 0 .. Len(pending[1])] : Cuts(pending[1], chunks, p)
  /\ NoneAhead

Whole == 1 .. framed \subseteq Held \cup Range(landed) \cup counted

Settled ==
  /\ forwarder = "waits" => chunks = <<>>
  /\ flushing => stopped
  /\ stopped => shutdown \in {"forwarder", "stopped"}
  /\ shutdown \in {"forwarder", "stopped"} => collector = "ended"
  /\ shutdown = "stopped" => forwarder = "ended"
  /\ ~cut => /\ ~disabled
             /\ collector = "ended" => queue = <<>>
             /\ stopped => transport = <<>> /\ current = <<>>
             /\ forwarder = "ended" => flushing /\ pending = <<>>
             /\ flushing /\ forwarder = "waits" => pending = <<>>

Arrived == LogTypeOK /\ ResentOnlyUnanswered /\ LandsInOrder
Way == Arrived /\ InLine /\ Landing /\ CutUp /\ Whole
ShipInv == Way /\ Settled

(* Sequences by their positions.                                           *)
LEMMA SeqIs ==
  ASSUME NEW S, NEW s \in Seq(S)
  PROVE  /\ Len(s) \in Nat /\ DOMAIN s = 1 .. Len(s)
         /\ \A i \in DOMAIN s : i \in Nat /\ s[i] \in S /\ s[i] \in Range(s)
         /\ Range(s) \subseteq S
         /\ \A x \in Range(s) : \E i \in DOMAIN s : x = s[i]
         /\ s = <<>> <=> Len(s) = 0
         /\ s = <<>> <=> Range(s) = {}
<1>1. Len(s) \in Nat /\ DOMAIN s = 1 .. Len(s) /\ (s = <<>> <=> Len(s) = 0)
  OBVIOUS
<1>2. \A i \in DOMAIN s : s[i] \in S
  OBVIOUS
<1>3. \A i \in DOMAIN s : s[i] \in Range(s)
  BY DEF Range
<1>4. \A x \in Range(s) : \E i \in DOMAIN s : x = s[i]
  BY DEF Range
<1>5. Range(s) \subseteq S
  BY <1>2, <1>4
<1>6. Len(s) # 0 => 1 \in DOMAIN s
  BY <1>1
<1>7. Len(s) = 0 => DOMAIN s = {}
  BY <1>1
<1>8. s = <<>> <=> Range(s) = {}
  BY <1>1, <1>3, <1>4, <1>6, <1>7
<1> QED BY <1>1, <1>2, <1>3, <1>4, <1>5, <1>8

LEMMA SubIs ==
  ASSUME NEW S, NEW s \in Seq(S), NEW a \in Nat \ {0}, NEW b \in Nat, b <= Len(s)
  PROVE  /\ SubSeq(s, a, b) \in Seq(S)
         /\ Len(SubSeq(s, a, b)) = IF a <= b THEN b - a + 1 ELSE 0
         /\ \A k \in DOMAIN SubSeq(s, a, b) : /\ k \in Nat /\ a + k - 1 \in a .. b
                                              /\ a + k - 1 \in DOMAIN s
                                              /\ SubSeq(s, a, b)[k] = s[a + k - 1]
         /\ Range(SubSeq(s, a, b)) = {s[m] : m \in a .. b}
<1>1. Len(s) \in Nat /\ DOMAIN s = 1 .. Len(s) /\ \A i \in DOMAIN s : s[i] \in S
  BY SeqIs
<1>2. \A i \in a .. b : s[i] \in S
  BY <1>1
<1> DEFINE t == SubSeq(s, a, b)
<1>3. /\ t \in Seq(S) /\ Len(t) = IF a <= b THEN b - a + 1 ELSE 0
      /\ \A i \in 1 .. b - a + 1 : t[i] = s[a + i - 1]
  BY <1>2, SubSeqProperties
<1> HIDE DEF t
<1>4. DOMAIN t = 1 .. b - a + 1
  BY <1>3, SeqIs
<1>5. \A k \in 1 .. b - a + 1 : k \in Nat /\ a + k - 1 \in a .. b /\ a + k - 1 \in 1 .. Len(s)
  BY <1>1
<1>6. ASSUME NEW m \in a .. b PROVE s[m] \in Range(t)
  <2>1. m - a + 1 \in 1 .. b - a + 1 /\ a + (m - a + 1) - 1 = m
    OBVIOUS
  <2>2. t[m - a + 1] = s[m]
    BY <1>3, <2>1
  <2> QED BY <1>4, <2>1, <2>2 DEF Range
<1>7. Range(t) = {s[m] : m \in a .. b}
  <2>1. ASSUME NEW x \in Range(t) PROVE \E m \in a .. b : x = s[m]
    <3>1. PICK k \in 1 .. b - a + 1 : x = t[k]
      BY <1>4 DEF Range
    <3> QED BY <1>3, <1>5, <3>1
  <2> QED BY <1>6, <2>1
<1> QED BY <1>1, <1>3, <1>4, <1>5, <1>7 DEF t

PartOf(t, s, a, b) ==
  /\ t \in Seq(Records) /\ Len(t) = (IF a <= b THEN b - a + 1 ELSE 0)
  /\ Range(t) = {s[m] : m \in a .. b}

LEMMA PartIs ==
  ASSUME NEW s \in Seq(Records), NEW a \in Nat \ {0}, NEW b \in Nat, b <= Len(s)
  PROVE  PartOf(SubSeq(s, a, b), s, a, b)
BY SubIs DEF PartOf

LEMMA SubRises ==
  ASSUME NEW s \in Seq(Records), NEW a \in Nat \ {0}, NEW b \in Nat, b <= Len(s), Rising(s)
  PROVE  Rising(SubSeq(s, a, b))
<1> DEFINE t == SubSeq(s, a, b)
<1>1. \A k \in DOMAIN t : k \in Nat /\ a + k - 1 \in DOMAIN s /\ t[k] = s[a + k - 1]
  BY SubIs
<1> HIDE DEF t
<1>2. ASSUME NEW i \in DOMAIN t, NEW j \in DOMAIN t, i < j PROVE t[i] < t[j]
  <2>1. a + i - 1 < a + j - 1
    BY <1>1, <1>2
  <2> QED BY <1>1, <2>1 DEF Rising
<1> QED BY <1>2 DEF Rising, t

LEMMA TailRises ==
  ASSUME NEW q \in Seq(Records), q # <<>>
  PROVE  /\ Head(q) \in Records /\ Tail(q) \in Seq(Records) /\ Head(q) = q[1]
         /\ Range(q) = {Head(q)} \cup Range(Tail(q))
         /\ Rising(q) => Rising(Tail(q)) /\ \A x \in Range(Tail(q)) : Head(q) < x
<1>1. /\ Len(q) \in Nat \ {0} /\ DOMAIN q = 1 .. Len(q) /\ Head(q) = q[1]
      /\ Head(q) \in Records /\ Tail(q) = SubSeq(q, 2, Len(q))
  BY TailIsSubSeq
<1>0. 2 \in Nat \ {0} /\ Len(q) \in Nat /\ Len(q) <= Len(q)
  BY <1>1
<1>2. Tail(q) \in Seq(Records) /\ Range(Tail(q)) = {q[m] : m \in 2 .. Len(q)}
  <2>1. /\ SubSeq(q, 2, Len(q)) \in Seq(Records)
        /\ Range(SubSeq(q, 2, Len(q))) = {q[m] : m \in 2 .. Len(q)}
    BY <1>0, SubIs
  <2> QED BY <1>1, <2>1
<1>3. Range(q) = {Head(q)} \cup Range(Tail(q))
  <2>1. \A m \in 1 .. Len(q) : m = 1 \/ m \in 2 .. Len(q)
    BY <1>1
  <2>2. \A m \in 2 .. Len(q) : m \in 1 .. Len(q)
    BY <1>1
  <2>3. Range(q) = {q[m] : m \in 1 .. Len(q)} /\ 1 \in 1 .. Len(q)
    BY <1>1 DEF Range
  <2> HIDE DEF Range
  <2> QED BY <1>1, <1>2, <2>1, <2>2, <2>3
<1>4. ASSUME Rising(q) PROVE Rising(Tail(q)) /\ \A x \in Range(Tail(q)) : Head(q) < x
  <2>1. Rising(Tail(q))
    BY <1>1, <1>0, <1>4, SubRises
  <2>2. \A m \in 2 .. Len(q) : q[1] < q[m]
    BY <1>1, <1>4 DEF Rising
  <2> QED BY <1>1, <1>2, <2>1, <2>2
<1> QED BY <1>1, <1>2, <1>3, <1>4

LEMMA ConcatRises ==
  ASSUME NEW s \in Seq(Records), NEW t \in Seq(Records)
  PROVE  /\ s \o t \in Seq(Records) /\ Range(s \o t) = Range(s) \cup Range(t)
         /\ Rising(s) /\ Rising(t) /\ Before(Range(s), Range(t)) => Rising(s \o t)
<1> DEFINE u == s \o t
<1>1. /\ u \in Seq(Records) /\ Len(u) = Len(s) + Len(t)
      /\ \A i \in 1 .. Len(s) + Len(t) : u[i] = IF i <= Len(s) THEN s[i] ELSE t[i - Len(s)]
  BY ConcatProperties
<1>2. /\ Len(s) \in Nat /\ DOMAIN s = 1 .. Len(s) /\ Len(t) \in Nat /\ DOMAIN t = 1 .. Len(t)
      /\ \A i \in DOMAIN s : s[i] \in Range(s)
      /\ \A i \in DOMAIN t : t[i] \in Range(t)
  BY SeqIs
<1>3. DOMAIN u = 1 .. Len(s) + Len(t)
  BY <1>1, SeqIs
<1> HIDE DEF u
<1>4. ASSUME NEW i \in DOMAIN s PROVE i \in DOMAIN u /\ u[i] = s[i]
  BY <1>1, <1>2, <1>3
<1>5. ASSUME NEW i \in DOMAIN t PROVE i + Len(s) \in DOMAIN u /\ u[i + Len(s)] = t[i]
  <2>1. i + Len(s) \in 1 .. Len(s) + Len(t) /\ ~(i + Len(s) <= Len(s)) /\ i + Len(s) - Len(s) = i
    BY <1>2
  <2> QED BY <1>1, <1>3, <2>1
<1>6. ASSUME NEW i \in DOMAIN u
      PROVE  \/ i \in DOMAIN s /\ u[i] = s[i]
             \/ i - Len(s) \in DOMAIN t /\ u[i] = t[i - Len(s)] /\ i > Len(s)
  BY <1>1, <1>2, <1>3
<1>7. Range(u) = Range(s) \cup Range(t)
  <2>1. \A x \in Range(u) : x \in Range(s) \cup Range(t)
    BY <1>2, <1>6 DEF Range
  <2>2. \A x \in Range(s) \cup Range(t) : x \in Range(u)
    BY <1>4, <1>5 DEF Range
  <2> QED BY <2>1, <2>2
<1>8. ASSUME Rising(s), Rising(t), Before(Range(s), Range(t)), NEW i \in DOMAIN u, NEW j \in DOMAIN u, i < j
      PROVE  u[i] < u[j]
  <2>0. i \in Nat /\ j \in Nat
    BY <1>2, <1>3
  <2>1. CASE i \in DOMAIN s /\ j \in DOMAIN s
    BY <1>4, <1>8, <2>1 DEF Rising
  <2>2. CASE i \in DOMAIN s /\ j \notin DOMAIN s
    BY <1>2, <1>6, <1>8, <2>2 DEF Before
  <2>3. CASE i \notin DOMAIN s
    <3>1. /\ i - Len(s) \in DOMAIN t /\ u[i] = t[i - Len(s)]
          /\ j - Len(s) \in DOMAIN t /\ u[j] = t[j - Len(s)]
      BY <1>2, <1>6, <1>8, <2>0, <2>3
    <3>2. i - Len(s) < j - Len(s)
      BY <1>2, <1>8, <2>0
    <3> QED BY <1>8, <3>1, <3>2 DEF Rising
  <2> QED BY <2>1, <2>2, <2>3
<1>9. Rising(s) /\ Rising(t) /\ Before(Range(s), Range(t)) => Rising(u)
  BY <1>8 DEF Rising
<1> QED BY <1>1, <1>7, <1>9 DEF u

LEMMA AppendRises ==
  ASSUME NEW q \in Seq(Records), NEW e \in Records
  PROVE  /\ Append(q, e) \in Seq(Records) /\ Range(Append(q, e)) = Range(q) \cup {e}
         /\ Rising(q) /\ (\A x \in Range(q) : x < e) => Rising(Append(q, e))
<1>1. Append(q, e) = q \o <<e>> /\ <<e>> \in Seq(Records) /\ Range(<<e>>) = {e}
  BY DEF Range
<1>2. Rising(<<e>>)
  BY DEF Rising
<1>3. (\A x \in Range(q) : x < e) => Before(Range(q), Range(<<e>>))
  BY <1>1 DEF Before
<1> QED BY <1>1, <1>2, <1>3, ConcatRises

(* Products and quotients.                                                 *)
LEMMA Times ==
  ASSUME NEW a \in Nat, NEW b \in Nat, NEW n \in Nat \ {0}
  PROVE  /\ a * n \in Nat /\ (a + 1) * n = a * n + n
         /\ a <= b => a * n <= b * n
         /\ a * n < b * n => a < b
<1>1. a * n \in Nat /\ (a + 1) * n = a * n + n
  OBVIOUS
<1>2. ASSUME a <= b PROVE a * n <= b * n
  <2>1. PICK d \in Nat : b = a + d
    BY <1>2
  <2>2. b * n = a * n + d * n /\ d * n \in Nat
    BY <2>1
  <2> QED BY <1>1, <2>2
<1>3. ASSUME a * n < b * n PROVE a < b
  <2>1. ASSUME b <= a PROVE FALSE
    <3>1. PICK d \in Nat : a = b + d
      BY <2>1
    <3>2. a * n = b * n + d * n /\ d * n \in Nat /\ b * n \in Nat
      BY <3>1
    <3> QED BY <1>3, <3>2
  <2> QED BY <2>1
<1> QED BY <1>1, <1>2, <1>3

LEMMA Quotient ==
  ASSUME NEW a \in Nat, NEW n \in Nat \ {0}
  PROVE  /\ a \div n \in Nat /\ (a \div n) * n <= a /\ a < (a \div n) * n + n
OBVIOUS

(* Batches.                                                                *)
LEMMA ShipAssumed ==
  /\ MaxRecords \in Nat /\ MaxLanded \in Nat
  /\ BatchMax \in Nat \ {0} /\ ChunkMax \in Nat \ {0} /\ MaxPending \in Nat \ {0}
BY LogShipAssumption DEF LogShipAssumption

LEMMA LinedJoin ==
  ASSUME NEW a, NEW b, Lined(a), Lined(b), Before(InAll(a), InAll(b))
  PROVE  Lined(a \o b) /\ InAll(a \o b) = InAll(a) \cup InAll(b)
<1> DEFINE u == a \o b
<1>0. a \in Seq(Seq(Records)) /\ b \in Seq(Seq(Records))
  BY DEF Lined
<1>1. /\ u \in Seq(Seq(Records)) /\ Len(u) = Len(a) + Len(b)
      /\ \A i \in 1 .. Len(a) + Len(b) : u[i] = IF i <= Len(a) THEN a[i] ELSE b[i - Len(a)]
  BY <1>0, ConcatProperties
<1>2. /\ Len(a) \in Nat /\ DOMAIN a = 1 .. Len(a) /\ Len(b) \in Nat /\ DOMAIN b = 1 .. Len(b)
  BY <1>0, SeqIs
<1>3. DOMAIN u = 1 .. Len(a) + Len(b)
  BY <1>1, SeqIs
<1> HIDE DEF u
<1>4. ASSUME NEW i \in DOMAIN a PROVE i \in DOMAIN u /\ u[i] = a[i]
  BY <1>1, <1>2, <1>3
<1>5. ASSUME NEW i \in DOMAIN b PROVE i + Len(a) \in DOMAIN u /\ u[i + Len(a)] = b[i]
  <2>1. PICK n : n = i + Len(a)
    OBVIOUS
  <2>2. n \in 1 .. Len(a) + Len(b) /\ ~(n <= Len(a)) /\ n - Len(a) = i
    BY <1>2, <2>1
  <2>3. u[n] = b[i]
    BY <1>1, <2>2
  <2> QED BY <1>3, <2>1, <2>2, <2>3
<1>6. ASSUME NEW i \in DOMAIN u
      PROVE  \/ i \in DOMAIN a /\ u[i] = a[i]
             \/ i - Len(a) \in DOMAIN b /\ u[i] = b[i - Len(a)] /\ i > Len(a)
  BY <1>1, <1>2, <1>3
<1>7. ASSUME NEW i \in DOMAIN u PROVE Len(u[i]) \in 1 .. BatchMax /\ Rising(u[i])
  BY <1>6 DEF Lined
<1>8. /\ \A i \in DOMAIN a : Range(a[i]) \subseteq InAll(a)
      /\ \A i \in DOMAIN b : Range(b[i]) \subseteq InAll(b)
  BY DEF InAll
<1>9. ASSUME NEW i \in DOMAIN u, NEW j \in DOMAIN u, i < j
      PROVE  Before(Range(u[i]), Range(u[j]))
  <2>0. i \in Nat /\ j \in Nat
    BY <1>2, <1>3
  <2>1. CASE i \in DOMAIN a /\ j \in DOMAIN a
    BY <1>4, <1>9, <2>1 DEF Lined
  <2>2. CASE i \in DOMAIN a /\ j \notin DOMAIN a
    <3>1. u[i] = a[i] /\ j - Len(a) \in DOMAIN b /\ u[j] = b[j - Len(a)]
      BY <1>4, <1>6, <2>2
    <3> QED BY <1>8, <2>2, <3>1 DEF Before
  <2>3. CASE i \notin DOMAIN a
    <3>1. /\ i - Len(a) \in DOMAIN b /\ u[i] = b[i - Len(a)]
          /\ j - Len(a) \in DOMAIN b /\ u[j] = b[j - Len(a)]
      BY <1>2, <1>6, <1>9, <2>0, <2>3
    <3>2. i - Len(a) < j - Len(a)
      BY <1>2, <1>9, <2>0
    <3> QED BY <3>1, <3>2 DEF Lined
  <2> QED BY <2>1, <2>2, <2>3
<1>10. Lined(u)
  BY <1>1, <1>7, <1>9 DEF Lined
<1>11. InAll(u) = InAll(a) \cup InAll(b)
  <2>1. \A x \in InAll(u) : x \in InAll(a) \cup InAll(b)
    BY <1>6 DEF InAll
  <2>2. \A x \in InAll(a) \cup InAll(b) : x \in InAll(u)
    BY <1>4, <1>5 DEF InAll
  <2> QED BY <2>1, <2>2
<1> QED BY <1>10, <1>11 DEF u

LEMMA LinedDrop ==
  ASSUME NEW a, Lined(a), NEW d \in Nat, d <= Len(a)
  PROVE  /\ Lined(SubSeq(a, d + 1, Len(a))) /\ Len(SubSeq(a, d + 1, Len(a))) = Len(a) - d
         /\ InAll(a) = InAll(SubSeq(a, d + 1, Len(a))) \cup UNION {Range(a[i]) : i \in 1 .. d}
<1> DEFINE t == SubSeq(a, d + 1, Len(a))
<1>0. /\ a \in Seq(Seq(Records)) /\ Len(a) \in Nat /\ DOMAIN a = 1 .. Len(a)
      /\ d + 1 \in Nat \ {0} /\ Len(a) <= Len(a)
  BY SeqIs DEF Lined
<1>1. /\ t \in Seq(Seq(Records))
      /\ Len(t) = IF d + 1 <= Len(a) THEN Len(a) - (d + 1) + 1 ELSE 0
      /\ \A k \in DOMAIN t : /\ k \in Nat /\ (d + 1) + k - 1 \in DOMAIN a
                             /\ t[k] = a[(d + 1) + k - 1]
  <2> DEFINE x == d + 1
             y == Len(a)
             B == Seq(Records)
  <2>1. x \in Nat \ {0} /\ y \in Nat /\ y <= Len(a)
    BY <1>0
  <2>3. a \in Seq(B)
    BY <1>0
  <2> HIDE DEF x, y, B
  <2>2. /\ SubSeq(a, x, y) \in Seq(B)
        /\ Len(SubSeq(a, x, y)) = IF x <= y THEN y - x + 1 ELSE 0
        /\ \A k \in DOMAIN SubSeq(a, x, y) : /\ k \in Nat /\ x + k - 1 \in DOMAIN a
                                             /\ SubSeq(a, x, y)[k] = a[x + k - 1]
    BY <2>1, <2>3, SubIs
  <2> QED BY <2>2 DEF x, y, B
<1>2. Len(t) = Len(a) - d /\ DOMAIN t = 1 .. Len(a) - d
  <2> HIDE DEF t
  <2>1. Len(t) = Len(a) - d
    <3>1. CASE d = Len(a)
      BY <1>0, <1>1, <3>1
    <3>2. CASE d # Len(a)
      <4>1. d + 1 <= Len(a)
        <5> DEFINE n == Len(a)
        <5>1. n \in Nat /\ d <= n /\ d # n
          BY <1>0, <3>2
        <5> HIDE DEF n
        <5>2. d + 1 <= n
          BY <5>1
        <5> QED BY <5>2 DEF n
      <4> QED BY <1>0, <1>1, <4>1
    <3> QED BY <3>1, <3>2
  <2> QED BY <1>1, <2>1, SeqIs
<1>3. \A k \in DOMAIN t : k \in Nat /\ k + d \in DOMAIN a /\ t[k] = a[k + d]
  <2>1. \A k \in Nat : (d + 1) + k - 1 = k + d
    OBVIOUS
  <2> QED BY <1>1, <2>1
<1> HIDE DEF t
<1>4. ASSUME NEW i \in DOMAIN a PROVE i \in 1 .. d \/ (i - d \in DOMAIN t /\ t[i - d] = a[i])
  <2>1. i \in 1 .. d \/ i - d \in DOMAIN t
    BY <1>0, <1>2
  <2>2. (i - d) + d = i
    BY <1>0
  <2> QED BY <1>3, <2>1, <2>2
<1>5. \A i \in DOMAIN t : Len(t[i]) \in 1 .. BatchMax /\ Rising(t[i])
  BY <1>3 DEF Lined
<1>6. ASSUME NEW i \in DOMAIN t, NEW j \in DOMAIN t, i < j
      PROVE  Before(Range(t[i]), Range(t[j]))
  <2>1. i + d < j + d
    BY <1>3, <1>6
  <2> QED BY <1>3, <2>1 DEF Lined
<1>7. Lined(t)
  BY <1>1, <1>5, <1>6 DEF Lined, t
<1>8. InAll(a) = InAll(t) \cup UNION {Range(a[i]) : i \in 1 .. d}
  <2>1. \A i \in 1 .. d : i \in DOMAIN a
    BY <1>0
  <2>2. \A x \in InAll(t) : x \in InAll(a)
    BY <1>3 DEF InAll
  <2>3. \A x \in InAll(a) : x \in InAll(t) \cup UNION {Range(a[i]) : i \in 1 .. d}
    BY <1>4 DEF InAll
  <2>4. \A x \in UNION {Range(a[i]) : i \in 1 .. d} : x \in InAll(a)
    BY <2>1 DEF InAll
  <2> QED BY <2>2, <2>3, <2>4
<1> QED BY <1>2, <1>7, <1>8 DEF t

(* What sealing leaves in the batch being filled, and what it takes off.   *)
Unsealed(c, all) == SubSeq(c, Len(Sealed(c, all)) * BatchMax + 1, Len(c))

LEMMA SealedIs ==
  ASSUME NEW c \in Seq(Records), NEW all \in BOOLEAN, Rising(c),
         NEW rest, rest = Unsealed(c, all)
  PROVE  /\ Lined(Sealed(c, all)) /\ rest \in Seq(Records) /\ Rising(rest)
         /\ InAll(Sealed(c, all)) \cup Range(rest) = Range(c)
         /\ Before(InAll(Sealed(c, all)), Range(rest))
         /\ all => rest = <<>>
<1> DEFINE L == Len(c)
           a == L + (IF all THEN BatchMax - 1 ELSE 0)
           w == a \div BatchMax
           lo(i) == (i - 1) * BatchMax + 1
           hi(i) == IF i * BatchMax < L THEN i * BatchMax ELSE L
           s == [i \in 1 .. w |-> SubSeq(c, lo(i), hi(i))]
<1>0. /\ Sealed(c, all) = s
      /\ BatchMax \in Nat \ {0} /\ L \in Nat /\ a \in Nat /\ a <= L + BatchMax - 1 /\ L <= a
      /\ DOMAIN c = 1 .. L
      /\ all => a = L + BatchMax - 1
  BY ShipAssumed, SeqIs DEF Sealed
<1>1. w \in Nat /\ w * BatchMax <= a /\ a < w * BatchMax + BatchMax
  <2> HIDE DEF a
  <2> QED BY <1>0, Quotient
<1> HIDE DEF w
<1>1a. w * BatchMax \in Nat
  BY <1>0, <1>1
<1>2. rest = SubSeq(c, w * BatchMax + 1, L)
  <2>1. Len(s) = w
    BY <1>1
  <2> QED BY <1>0, <2>1 DEF Unsealed
<1> HIDE DEF a
<1>3. all => rest = <<>>
  <2> DEFINE x == w * BatchMax + 1
  <2>1. all => L < x
    BY <1>0, <1>1, <1>1a
  <2>2. x \in Int /\ L \in Int
    BY <1>0, <1>1a
  <2> HIDE DEF x
  <2>3. L < x => SubSeq(c, x, L) = <<>>
    BY <2>2, SubSeqEmpty
  <2> QED BY <1>2, <2>1, <2>3 DEF x
(* A batch is not empty and not too long. *)
<1>4. ASSUME NEW i \in 1 .. w
      PROVE  /\ i \in Nat \ {0} /\ i - 1 \in Nat /\ i * BatchMax \in Nat
             /\ (i - 1) * BatchMax \in Nat /\ i * BatchMax = (i - 1) * BatchMax + BatchMax
             /\ i * BatchMax <= w * BatchMax
             /\ lo(i) \in Nat \ {0} /\ hi(i) \in Nat /\ lo(i) <= hi(i) /\ hi(i) <= L
             /\ hi(i) - lo(i) + 1 <= BatchMax
  <2>1. i \in Nat /\ i - 1 \in Nat /\ (i - 1) + 1 = i /\ i <= w
    BY <1>1
  <2>2. i * BatchMax = (i - 1) * BatchMax + BatchMax /\ (i - 1) * BatchMax \in Nat
        /\ i * BatchMax \in Nat /\ i * BatchMax <= w * BatchMax /\ w * BatchMax \in Nat
    BY <1>0, <1>1, <2>1, Times
  <2>3. (i - 1) * BatchMax < L
    <3> DEFINE z == (i - 1) * BatchMax
    <3>0. z \in Nat /\ i * BatchMax \in Nat /\ i * BatchMax = z + BatchMax
      BY <2>2
    <3> HIDE DEF z
    <3>1. z + BatchMax <= a
      <4> DEFINE y == i * BatchMax
                 v == w * BatchMax
      <4>1. y \in Nat /\ v \in Nat /\ y <= v /\ v <= a /\ a \in Nat /\ y = z + BatchMax
        BY <1>0, <1>1, <1>1a, <2>2, <3>0
      <4> HIDE DEF y, v
      <4> QED BY <4>1
    <3> HIDE DEF L
    <3> QED BY <1>0, <3>0, <3>1 DEF z
  <2> QED BY <1>0, <2>1, <2>2, <2>3
<1>5. ASSUME NEW i \in 1 .. w
      PROVE  /\ s[i] \in Seq(Records) /\ Len(s[i]) \in 1 .. BatchMax /\ Rising(s[i])
             /\ Range(s[i]) = {c[m] : m \in lo(i) .. hi(i)}
  <2> DEFINE x == lo(i)
             y == hi(i)
  <2>1. /\ x \in Nat \ {0} /\ y \in Nat /\ y <= Len(c) /\ x <= y /\ y - x + 1 <= BatchMax
    BY <1>4
  <2>2. s[i] = SubSeq(c, x, y)
    OBVIOUS
  <2> HIDE DEF x, y, s
  <2>3. /\ SubSeq(c, x, y) \in Seq(Records) /\ Len(SubSeq(c, x, y)) = IF x <= y THEN y - x + 1 ELSE 0
        /\ Range(SubSeq(c, x, y)) = {c[m] : m \in x .. y}
    <3>1. PartOf(SubSeq(c, x, y), c, x, y)
      BY <2>1, PartIs
    <3> QED BY <3>1 DEF PartOf
  <2>5. Rising(SubSeq(c, x, y))
    BY <2>1, SubRises
  <2>4. Len(s[i]) \in 1 .. BatchMax
    BY <1>0, <2>1, <2>2, <2>3
  <2> QED BY <2>2, <2>3, <2>4, <2>5 DEF x, y
<1>6. ASSUME NEW i \in 1 .. w, NEW m \in lo(i) .. hi(i)
      PROVE  /\ m \in DOMAIN c /\ m <= w * BatchMax /\ m <= i * BatchMax
             /\ m > (i - 1) * BatchMax /\ m \in Nat
  <2>1. /\ (i - 1) * BatchMax \in Nat /\ i * BatchMax \in Nat /\ i * BatchMax <= w * BatchMax
        /\ hi(i) \in Nat /\ hi(i) <= L
    BY <1>4
  <2>2. m >= (i - 1) * BatchMax + 1 /\ m <= hi(i) /\ m \in Nat
    BY <2>1
  <2>3. hi(i) <= i * BatchMax
    BY <1>0, <2>1
  <2> DEFINE d == (i - 1) * BatchMax
             u == i * BatchMax
             z == w * BatchMax
             h == hi(i)
  <2>4. /\ d \in Nat /\ u \in Nat /\ z \in Nat /\ h \in Nat /\ u <= z /\ h <= L /\ h <= u
        /\ m >= d + 1 /\ m <= h /\ m \in Nat
    BY <1>1a, <2>1, <2>2, <2>3
  <2> HIDE DEF d, u, z, h
  <2>5. m \in 1 .. L /\ m <= z /\ m <= u /\ m > d
    BY <1>0, <2>4
  <2> QED BY <1>0, <2>4, <2>5 DEF d, u, z
<1>7. ASSUME NEW i \in 1 .. w, NEW j \in 1 .. w, i < j
      PROVE  Before(Range(s[i]), Range(s[j]))
  <2>1. i * BatchMax <= (j - 1) * BatchMax
    <3>1. i \in Nat /\ j - 1 \in Nat /\ i <= j - 1
      BY <1>4, <1>7
    <3> QED BY <1>0, <3>1, Times
  <2>2. \A m \in lo(i) .. hi(i), n \in lo(j) .. hi(j) :
          m \in DOMAIN c /\ n \in DOMAIN c /\ m < n
    <3> SUFFICES ASSUME NEW m \in lo(i) .. hi(i), NEW n \in lo(j) .. hi(j)
                 PROVE  m \in DOMAIN c /\ n \in DOMAIN c /\ m < n
      OBVIOUS
    <3>1. m \in DOMAIN c /\ m <= i * BatchMax /\ m \in Nat
      BY <1>6
    <3>2. n \in DOMAIN c /\ n > (j - 1) * BatchMax /\ n \in Nat
      BY <1>6
    <3>3. i * BatchMax \in Nat /\ (j - 1) * BatchMax \in Nat
      BY <1>4
    <3> QED BY <2>1, <3>1, <3>2, <3>3
  <2> HIDE DEF s, lo, hi
  <2>3. \A m \in lo(i) .. hi(i), n \in lo(j) .. hi(j) : c[m] < c[n]
    BY <2>2 DEF Rising
  <2>4. Range(s[i]) = {c[m] : m \in lo(i) .. hi(i)} /\ Range(s[j]) = {c[m] : m \in lo(j) .. hi(j)}
    BY <1>5
  <2> QED BY <2>3, <2>4 DEF Before
<1>8. s \in Seq(Seq(Records)) /\ DOMAIN s = 1 .. w
  <2>1. \A i \in 1 .. w : SubSeq(c, lo(i), hi(i)) \in Seq(Records)
    BY <1>5
  <2> QED BY <1>1, <2>1
<1>9. Lined(s)
  <2> HIDE DEF s, lo, hi
  <2> QED BY <1>5, <1>7, <1>8 DEF Lined
(* What is left. *)
<1>10. /\ rest \in Seq(Records) /\ Rising(rest)
       /\ Range(rest) = {c[m] : m \in (w * BatchMax + 1) .. L}
  <2> DEFINE x == w * BatchMax + 1
  <2>1. x \in Nat \ {0} /\ L \in Nat /\ L <= Len(c)
    BY <1>0, <1>1
  <2> HIDE DEF x
  <2>2. /\ SubSeq(c, x, L) \in Seq(Records) /\ Rising(SubSeq(c, x, L))
        /\ Range(SubSeq(c, x, L)) = {c[m] : m \in x .. L}
    BY <2>1, SubIs, SubRises
  <2> QED BY <1>2, <2>2 DEF x
(* Every position is in a batch or left. *)
<1>11. ASSUME NEW m \in DOMAIN c
       PROVE  (\E i \in 1 .. w : m \in lo(i) .. hi(i)) \/ m \in (w * BatchMax + 1) .. L
  <2>0. m \in Nat /\ m >= 1 /\ m <= L /\ w * BatchMax \in Nat
    BY <1>0, <1>1
  <2>1. CASE m > w * BatchMax
    BY <2>0, <2>1, <1>0
  <2>2. CASE m <= w * BatchMax
    <3> DEFINE q == (m - 1) \div BatchMax
    <3>1. q \in Nat /\ q * BatchMax <= m - 1 /\ m - 1 < q * BatchMax + BatchMax
      <4> DEFINE k == m - 1
      <4>1. k \in Nat
        BY <2>0
      <4> HIDE DEF k
      <4>2. /\ k \div BatchMax \in Nat /\ (k \div BatchMax) * BatchMax <= k
            /\ k < (k \div BatchMax) * BatchMax + BatchMax
        BY <1>0, <4>1, Quotient
      <4> QED BY <4>2 DEF k
    <3> HIDE DEF q
    <3>2. (q + 1) * BatchMax = q * BatchMax + BatchMax /\ q * BatchMax \in Nat
      BY <1>0, <3>1, Times
    <3>3. q * BatchMax < w * BatchMax
      BY <2>0, <2>2, <3>1, <3>2
    <3>4. q < w
      BY <1>0, <1>1, <3>1, <3>3, Times
    <3>5. q + 1 \in 1 .. w /\ (q + 1) - 1 = q
      BY <1>1, <3>1, <3>4
    <3>6. m \in lo(q + 1) .. hi(q + 1)
      BY <1>0, <2>0, <3>1, <3>2, <3>5
    <3> QED BY <3>5, <3>6
  <2> QED BY <2>0, <2>1, <2>2, <1>0
<1>12. InAll(s) \cup Range(rest) = Range(c)
  <2>1. ASSUME NEW i \in 1 .. w PROVE Range(s[i]) \subseteq Range(c)
    <3> HIDE DEF s, lo, hi
    <3>1. Range(s[i]) = {c[m] : m \in lo(i) .. hi(i)}
      BY <1>5
    <3>2. \A m \in lo(i) .. hi(i) : m \in DOMAIN c
      BY <1>6
    <3>3. \A m \in DOMAIN c : c[m] \in Range(c)
      BY DEF Range
    <3> QED BY <3>1, <3>2, <3>3
  <2>2. Range(rest) \subseteq Range(c)
    <3>1. \A m \in (w * BatchMax + 1) .. L : m \in DOMAIN c
      <4>1. w * BatchMax \in Nat
        BY <1>0, <1>1
      <4> QED BY <1>0, <4>1
    <3> QED BY <1>10, <3>1 DEF Range
  <2>3. ASSUME NEW m \in DOMAIN c PROVE c[m] \in InAll(s) \cup Range(rest)
    <3>1. CASE m \in (w * BatchMax + 1) .. L
      BY <1>10, <3>1
    <3>2. CASE \E i \in 1 .. w : m \in lo(i) .. hi(i)
      <4>1. PICK i \in 1 .. w : m \in lo(i) .. hi(i)
        BY <3>2
      <4> HIDE DEF s, lo, hi
      <4>2. c[m] \in Range(s[i])
        BY <1>5, <4>1
      <4> QED BY <1>8, <4>2 DEF InAll
    <3> QED BY <1>11, <3>1, <3>2
  <2>4. \A x \in Range(c) : \E m \in DOMAIN c : x = c[m]
    BY DEF Range
  <2> HIDE DEF s
  <2> QED BY <1>8, <2>1, <2>2, <2>3, <2>4 DEF InAll
<1>13. Before(InAll(s), Range(rest))
  <2> SUFFICES ASSUME NEW x \in InAll(s), NEW y \in Range(rest) PROVE x < y
    BY DEF Before
  <2>1. PICK i \in 1 .. w : x \in Range(s[i])
    <3> HIDE DEF s
    <3> QED BY <1>8 DEF InAll
  <2>2. PICK m \in lo(i) .. hi(i) : x = c[m]
    <3> HIDE DEF s, lo, hi
    <3> QED BY <1>5, <2>1
  <2>3. PICK n \in (w * BatchMax + 1) .. L : y = c[n]
    BY <1>10
  <2>4. m \in DOMAIN c /\ m <= w * BatchMax /\ m \in Nat
    BY <1>6
  <2>5. w * BatchMax \in Nat
    BY <1>0, <1>1
  <2>6. n \in DOMAIN c /\ m < n
    BY <1>0, <2>4, <2>5
  <2> QED BY <2>2, <2>3, <2>4, <2>6 DEF Rising
<1> QED BY <1>0, <1>3, <1>9, <1>10, <1>12, <1>13

LEMMA HoldsAll ==
  /\ InBatches = InAll(pending)
  /\ InBatches' = InAll(pending')
  /\ Held = Range(queue) \cup Range(transport) \cup Range(current) \cup InBatches
  /\ Held' = Range(queue') \cup Range(transport') \cup Range(current') \cup InBatches'
BY DEF InBatches, InAll, Held

LEMMA HeldTyped ==
  ASSUME LogTypeOK, InLine
  PROVE  /\ Held \subseteq Records /\ Records \subseteq Nat
         /\ \A r \in Held : r <= framed /\ r \in Nat
         /\ framed \in Nat /\ stale \in Nat /\ MaxRecords \in Nat
<1>0. MaxRecords \in Nat /\ Records = 0 .. MaxRecords
  BY ShipAssumed DEF Records
<1>1. /\ Range(queue) \subseteq Records /\ Range(transport) \subseteq Records
      /\ Range(current) \subseteq Records
  BY SeqIs DEF LogTypeOK
<1>2. InBatches \subseteq Records
  <2>1. \A i \in DOMAIN pending : pending[i] \in Seq(Records)
    BY SeqIs DEF LogTypeOK
  <2>2. \A i \in DOMAIN pending : Range(pending[i]) \subseteq Records
    BY <2>1, SeqIs
  <2> QED BY <2>2 DEF InBatches
<1>3. framed \in Records /\ stale \in Records
  BY DEF LogTypeOK
<1> QED BY <1>0, <1>1, <1>2, <1>3, HoldsAll DEF InLine

LEMMA SealStep ==
  ASSUME LogTypeOK, Lined(pending), NEW c \in Seq(Records), Rising(c),
         Before(InBatches, Range(c)), NEW all \in BOOLEAN, Seal(c, all)
  PROVE  /\ current' \in Seq(Records) /\ Rising(current')
         /\ Lined(pending') /\ Len(pending') <= MaxPending
         /\ Before(InBatches', Range(current'))
         /\ Range(c) \cup InBatches \subseteq Range(current') \cup InBatches' \cup counted'
         /\ Range(current') \cup InBatches' \subseteq Range(c) \cup InBatches
         /\ counted \subseteq counted' /\ counted' \subseteq counted \cup Range(c) \cup InBatches
         /\ all => current' = <<>>
<1> DEFINE sealed == Sealed(c, all)
           batches == pending \o sealed
           out == PushedOut(batches)
           lost == UNION {Range(batches[i]) : i \in 1 .. out}
<1>1. /\ current' = SubSeq(c, Len(sealed) * BatchMax + 1, Len(c))
      /\ pending' = SubSeq(batches, out + 1, Len(batches))
      /\ counted' = counted \cup lost
  BY DEF Seal
<1>2. /\ Lined(sealed) /\ current' \in Seq(Records) /\ Rising(current')
      /\ InAll(sealed) \cup Range(current') = Range(c)
      /\ Before(InAll(sealed), Range(current'))
      /\ all => current' = <<>>
  <2>1. current' = Unsealed(c, all)
    BY <1>1 DEF Unsealed
  <2> HIDE DEF sealed
  <2> QED BY <2>1, SealedIs DEF sealed
<1> HIDE DEF sealed
<1>3. InBatches = InAll(pending) /\ InBatches' = InAll(pending')
  BY HoldsAll
<1>4. Before(InAll(pending), InAll(sealed))
  BY <1>2, <1>3 DEF Before
<1>5. Lined(batches) /\ InAll(batches) = InAll(pending) \cup InAll(sealed)
  BY <1>2, <1>4, LinedJoin
<1> HIDE DEF batches
<1>6. Len(batches) \in Nat /\ out \in Nat /\ out <= Len(batches) /\ Len(batches) - out <= MaxPending
  BY <1>5, SeqIs, ShipAssumed DEF Lined, PushedOut
<1> HIDE DEF out
<1>7. /\ Lined(pending') /\ Len(pending') = Len(batches) - out
      /\ InAll(batches) = InAll(pending') \cup lost
  BY <1>1, <1>5, <1>6, LinedDrop
<1> HIDE DEF lost
<1>8. InBatches' \subseteq InBatches \cup InAll(sealed)
  BY <1>3, <1>5, <1>7
<1>9. Before(InBatches', Range(current'))
  BY <1>2, <1>8 DEF Before
<1> QED BY <1>1, <1>2, <1>3, <1>5, <1>6, <1>7, <1>8, <1>9

(* What a step leaves of the parts of the invariant.                       *)
LEMMA LandingKept ==
  ASSUME LogTypeOK, InLine, Landing, landed' = landed, unanswered' = unanswered,
         framed' \in Nat, framed <= framed', stale' \in Nat, stale <= stale',
         \A h \in Held' : h \in Held \/ (h \in Nat /\ h > framed)
  PROVE  Landing'
<1>1. \A r \in Range(landed) : r <= framed /\ r \in Nat
  <2>1. Range(landed) \subseteq Nat
    BY HeldTyped, SeqIs DEF LogTypeOK
  <2> QED BY <2>1 DEF Landing
<1>2. \A h \in Held' : h \in Held \/ (h \in Nat /\ h > framed)
  OBVIOUS
<1>3. framed \in Nat /\ stale \in Nat /\ \A h \in Held : h \in Nat
  BY HeldTyped
<1>4. \A h \in Held : TooOld(h) => TooOld(h)'
  BY <1>3 DEF TooOld
<1>5. \A r \in Range(landed) : r \in unanswered \/ \A h \in Held' : r < h
  <2> SUFFICES ASSUME NEW r \in Range(landed), r \notin unanswered, NEW h \in Held' PROVE r < h
    OBVIOUS
  <2>1. CASE h \in Held
    BY <2>1 DEF Landing
  <2>2. CASE h \in Nat /\ h > framed
    BY <1>1, <1>3, <2>2
  <2> QED BY <1>2, <2>1, <2>2
<1>6. \A u \in unanswered, h \in Held' : h < u => h \in unanswered \/ TooOld(h)'
  <2> SUFFICES ASSUME NEW u \in unanswered, NEW h \in Held', h < u
               PROVE  h \in unanswered \/ TooOld(h)'
    OBVIOUS
  <2>1. u \in Range(landed)
    BY DEF Landing
  <2>2. CASE h \in Held
    BY <1>4, <2>2 DEF Landing
  <2>3. CASE h \in Nat /\ h > framed
    BY <1>1, <1>3, <2>1, <2>3
  <2> QED BY <1>2, <2>2, <2>3
<1>7. \A r \in Range(landed) : r <= framed'
  BY <1>1, <1>3
<1> QED BY <1>5, <1>6, <1>7 DEF Landing, TooOld

LEMMA CutKept ==
  ASSUME LogTypeOK, InLine, CutUp, pending' = pending, chunks' = chunks,
         unanswered' = unanswered, counted \subseteq counted', stale' \in Nat, stale <= stale'
  PROVE  CutUp'
<1>1. NoneAhead'
  BY DEF CutUp, NoneAhead
<1>2. ASSUME chunks # <<>>
      PROVE  /\ pending # <<>>
             /\ \E p \in [0 .. Len(chunks) -> 0 .. Len(pending[1])] : Cuts(pending[1], chunks, p)'
  <2> DEFINE b == pending[1]
  <2>1. PICK p \in [0 .. Len(chunks) -> 0 .. Len(b)] : Cuts(b, chunks, p)
    BY <1>2 DEF CutUp
  <2>2. pending # <<>> /\ b \in Seq(Records)
    <3>1. pending # <<>> /\ Lined(pending)
      BY <1>2 DEF CutUp, InLine
    <3> QED BY <3>1, SeqIs DEF Lined
  <2>3. /\ Len(b) \in Nat /\ DOMAIN b = 1 .. Len(b) /\ \A k \in DOMAIN b : b[k] \in Nat
        /\ Len(chunks) \in Nat /\ stale \in Nat
    <3>1. Len(b) \in Nat /\ DOMAIN b = 1 .. Len(b) /\ \A k \in DOMAIN b : b[k] \in Records
      BY <2>2, SeqIs
    <3>2. Len(chunks) \in Nat
      BY SeqIs DEF LogTypeOK
    <3> QED BY <3>1, <3>2, HeldTyped
  <2> HIDE DEF b
  <2>4. ASSUME NEW i \in 1 .. Len(chunks) PROVE Piece(b, chunks[i], p[i - 1], p[i])'
    <3>1. /\ i - 1 \in 0 .. Len(chunks) /\ i \in 0 .. Len(chunks)
          /\ p[i - 1] \in 0 .. Len(b) /\ p[i] \in 0 .. Len(b)
      BY <2>3
    <3> DEFINE from == p[i - 1]
               to == p[i]
    <3>2. Piece(b, chunks[i], from, to) /\ from \in Nat /\ to \in Nat /\ to <= Len(b)
      BY <2>1, <2>3, <3>1 DEF Cuts
    <3> HIDE DEF from, to
    <3>3. PICK q \in from .. to - 1 :
            /\ chunks[i].events = SubSeq(b, q + 1, to)
            /\ \A k \in from + 1 .. q : TooOld(b[k]) /\ b[k] \in counted
      BY <3>2 DEF Piece
    <3>4. \A k \in from + 1 .. q : k \in DOMAIN b
      BY <2>3, <3>2
    <3>5. \A k \in from + 1 .. q : (b[k] <= stale' /\ stale' > 0) /\ b[k] \in counted'
      BY <2>3, <3>3, <3>4 DEF TooOld
    <3>6. Piece(b, chunks[i], from, to)'
      BY <3>2, <3>3, <3>5 DEF Piece, TooOld, b, from, to
    <3> QED BY <3>6 DEF from, to
  <2>5. Cuts(b, chunks, p)'
    BY <2>1, <2>4 DEF Cuts, b
  <2> QED BY <2>2, <2>5 DEF b
<1> QED BY <1>1, <1>2 DEF CutUp

LEMMA WholeKept ==
  ASSUME Whole, framed' = framed,
         Held \cup Range(landed) \cup counted \subseteq Held' \cup Range(landed') \cup counted'
  PROVE  Whole'
BY DEF Whole

LEMMA InLineIs ==
  ASSUME LogTypeOK
  PROVE  /\ queue \in Seq(Records) /\ transport \in Seq(Records) /\ current \in Seq(Records)
         /\ pending \in Seq(Seq(Records)) /\ landed \in Seq(Records)
         /\ Range(landed) \subseteq Nat /\ stale \in Nat
BY ShipAssumed, SeqIs DEF LogTypeOK, Records

(* A step that moves no line.                                              *)
LEMMA StillWay ==
  ASSUME Way, LogTypeOK', UNCHANGED <<framed, queue, transport, current, pending, landed, unanswered>>,
         chunks' = chunks \/ chunks' = <<>>, counted \subseteq counted', stale <= stale'
  PROVE  Way'
<1>1. LogTypeOK /\ InLine /\ Landing /\ CutUp /\ Whole
  BY DEF Way, Arrived
<1>2. Held' = Held /\ InBatches' = InBatches
  BY HoldsAll
<1>3. InLine'
  BY <1>1, <1>2 DEF InLine, Lined
<1>4. framed \in Nat /\ stale \in Nat /\ stale' \in Nat
  BY <1>1, HeldTyped, InLineIs, ShipAssumed DEF LogTypeOK, Records
<1>5. Landing'
  BY <1>1, <1>2, <1>4, LandingKept
<1>6. CutUp'
  <2>1. CASE chunks' = chunks
    BY <1>1, <1>4, <2>1, CutKept
  <2>2. CASE chunks' = <<>>
    BY <2>2 DEF CutUp, NoneAhead
  <2> QED BY <2>1, <2>2
<1>7. Whole'
  BY <1>1, <1>2, WholeKept
<1>8. Arrived'
  BY DEF Way, Arrived, ResentOnlyUnanswered, LandsInOrder
<1> QED BY <1>3, <1>5, <1>6, <1>7, <1>8 DEF Way

LEMMA LineFramedWay ==
  ASSUME Way, LogTypeOK', LineFramed
  PROVE  Way'
<1> DEFINE e == framed + 1
<1>1. LogTypeOK /\ InLine /\ Landing /\ CutUp /\ Whole
  BY DEF Way, Arrived
<1>2. /\ \A r \in Held : r <= framed /\ r \in Nat
      /\ framed \in Nat /\ stale \in Nat /\ MaxRecords \in Nat
  BY <1>1, HeldTyped
<1>3. /\ framed < MaxRecords /\ framed' = e
      /\ UNCHANGED <<transport, current, pending, chunks, landed, unanswered, stale>>
      /\ \/ queue' = Append(queue, e) /\ counted' = counted
         \/ queue' = queue /\ counted' = counted \cup {e}
  BY DEF LineFramed, held, far
<1>4. e \in Nat /\ e > framed /\ e \in Records /\ 1 .. e = 1 .. framed \cup {e}
  BY <1>2, <1>3 DEF Records
<1> HIDE DEF e
<1>5. InBatches' = InBatches /\ Range(transport') = Range(transport) /\ Range(current') = Range(current)
  BY <1>3, HoldsAll
<1>6. /\ queue' \in Seq(Records) /\ Rising(queue')
      /\ Range(queue') \subseteq Range(queue) \cup {e} /\ Range(queue) \subseteq Range(queue')
      /\ e \in Range(queue') \cup counted'
  <2>1. CASE queue' = queue /\ counted' = counted \cup {e}
    BY <1>1, <2>1, InLineIs DEF InLine
  <2>2. CASE queue' = Append(queue, e) /\ counted' = counted
    <3>1. \A x \in Range(queue) : x < e
      BY <1>2, <1>4, HoldsAll
    <3> QED BY <1>1, <1>4, <2>2, <3>1, InLineIs, AppendRises DEF InLine
  <2> QED BY <1>3, <2>1, <2>2
<1>7. Held' \subseteq Held \cup {e} /\ Held \subseteq Held'
  BY <1>5, <1>6, HoldsAll
<1>8. \A x \in InBatches \cup Range(current) \cup Range(transport) : x < e
  BY <1>2, <1>4, HoldsAll
<1>9. InLine'
  <2>1. /\ Before(InBatches', Range(queue')) /\ Before(Range(current'), Range(queue'))
        /\ Before(Range(transport'), Range(queue'))
    BY <1>1, <1>5, <1>6, <1>8 DEF InLine, Before
  <2>2. \A r \in Held' : r <= framed'
    BY <1>2, <1>3, <1>4, <1>7
  <2> QED BY <1>1, <1>3, <1>5, <1>6, <2>1, <2>2 DEF InLine, Lined
<1>10. Landing'
  <2>1. framed' \in Nat /\ framed <= framed' /\ stale' \in Nat /\ stale <= stale'
    BY <1>2, <1>3, <1>4
  <2>2. \A h \in Held' : h \in Held \/ (h \in Nat /\ h > framed)
    BY <1>4, <1>7
  <2>3. landed' = landed /\ unanswered' = unanswered
    BY <1>3
  <2> QED BY <1>1, <2>1, <2>2, <2>3, LandingKept
<1>11. CutUp'
  <2>1. counted \subseteq counted' /\ stale' \in Nat /\ stale <= stale'
    BY <1>2, <1>3
  <2> QED BY <1>1, <1>3, <2>1, CutKept
<1>12. Whole'
  <2>1. e \in Held' \cup counted'
    BY <1>6, HoldsAll
  <2>2. counted \subseteq counted'
    BY <1>3
  <2> QED BY <1>1, <1>3, <1>4, <1>7, <2>1, <2>2 DEF Whole
<1>13. Arrived'
  BY <1>3 DEF Way, Arrived, ResentOnlyUnanswered, LandsInOrder
<1> QED BY <1>9, <1>10, <1>11, <1>12, <1>13 DEF Way

LEMMA CollectWay ==
  ASSUME Way, LogTypeOK', Collect
  PROVE  Way'
<1> DEFINE h == Head(queue)
<1>1. LogTypeOK /\ InLine /\ Landing /\ CutUp /\ Whole
  BY DEF Way, Arrived
<1>2. framed \in Nat /\ stale \in Nat
  BY <1>1, HeldTyped
<1>3. /\ queue # <<>> /\ queue' = Tail(queue)
      /\ UNCHANGED <<framed, current, pending, chunks, landed, unanswered, stale>>
      /\ \/ transport' = Append(transport, h) /\ counted' = counted
         \/ transport' = transport /\ counted' = counted \cup {h}
  BY DEF Collect, Emit, held, far
<1>4. /\ h \in Records /\ queue' \in Seq(Records) /\ Range(queue) = {h} \cup Range(queue')
      /\ Rising(queue') /\ \A x \in Range(queue') : h < x
  BY <1>1, <1>3, InLineIs, TailRises DEF InLine
<1> HIDE DEF h
<1>5. InBatches' = InBatches /\ Range(current') = Range(current)
  BY <1>3, HoldsAll
<1>6. \A x \in InBatches \cup Range(current) \cup Range(transport) : x < h
  BY <1>1, <1>4 DEF InLine, Before
<1>7. /\ transport' \in Seq(Records) /\ Rising(transport')
      /\ Range(transport') \subseteq Range(transport) \cup {h}
      /\ Range(transport) \cup {h} \subseteq Range(transport') \cup counted'
  <2>1. CASE transport' = transport /\ counted' = counted \cup {h}
    BY <1>1, <2>1, InLineIs DEF InLine
  <2>2. CASE transport' = Append(transport, h) /\ counted' = counted
    BY <1>1, <1>4, <1>6, <2>2, InLineIs, AppendRises DEF InLine
  <2> QED BY <1>3, <2>1, <2>2
<1>8. Held' \subseteq Held /\ Held \cup counted \subseteq Held' \cup counted'
  <2>1. counted \subseteq counted'
    BY <1>3
  <2> QED BY <1>4, <1>5, <1>7, <2>1, HoldsAll
<1>9. InLine'
  <2>1. /\ Before(InBatches', Range(queue')) /\ Before(Range(current'), Range(queue'))
        /\ Before(InBatches', Range(transport')) /\ Before(Range(current'), Range(transport'))
    BY <1>1, <1>4, <1>5, <1>6, <1>7 DEF InLine, Before
  <2>2. Before(Range(transport'), Range(queue'))
    BY <1>1, <1>4, <1>7 DEF InLine, Before
  <2>3. Before(InBatches', Range(current'))
    BY <1>1, <1>5 DEF InLine
  <2>4. \A r \in Held' : r <= framed'
    BY <1>1, <1>3, <1>8 DEF InLine
  <2> QED BY <1>1, <1>3, <1>4, <1>7, <2>1, <2>2, <2>3, <2>4 DEF InLine, Lined
<1>10. Landing'
  BY <1>1, <1>2, <1>3, <1>8, LandingKept
<1>11. CutUp'
  <2>1. counted \subseteq counted' /\ stale' \in Nat /\ stale <= stale'
    BY <1>2, <1>3
  <2> QED BY <1>1, <1>3, <2>1, CutKept
<1>12. Whole'
  BY <1>1, <1>3, <1>8, WholeKept
<1>13. Arrived'
  BY <1>3 DEF Way, Arrived, ResentOnlyUnanswered, LandsInOrder
<1> QED BY <1>9, <1>10, <1>11, <1>12, <1>13 DEF Way

(* A round that seals: what was in current and transport is in c, in what  *)
(* is left of transport, or counted.                                       *)
LEMMA SealWay ==
  ASSUME Way, chunks = <<>>, NEW c \in Seq(Records), NEW all \in BOOLEAN, Seal(c, all),
         transport' \in Seq(Records), Rising(transport'), Rising(c),
         Range(c) \cup Range(transport') = Range(current) \cup Range(transport),
         Before(Range(c), Range(transport')),
         UNCHANGED <<framed, queue, chunks, landed, unanswered, stale>>
  PROVE  /\ InLine' /\ Landing' /\ CutUp' /\ Whole' /\ ResentOnlyUnanswered' /\ LandsInOrder'
         /\ current' \in Seq(Records) /\ pending' \in Seq(Seq(Records)) /\ Len(pending') <= MaxPending
         /\ \A i \in DOMAIN pending' : Len(pending'[i]) \in 1 .. BatchMax
         /\ counted' \subseteq Records
         /\ all => current' = <<>>
<1>1. LogTypeOK /\ InLine /\ Landing /\ CutUp /\ Whole
  BY DEF Way, Arrived
<1>2. framed \in Nat /\ stale \in Nat /\ Held \subseteq Records
  BY <1>1, HeldTyped
<1>3. /\ Before(InBatches, Range(c)) /\ Before(InBatches, Range(transport'))
      /\ Before(Range(c), Range(queue)) /\ Before(Range(transport'), Range(queue))
  BY <1>1 DEF InLine, Before
<1>4. /\ current' \in Seq(Records) /\ Rising(current')
      /\ Lined(pending') /\ Len(pending') <= MaxPending
      /\ Before(InBatches', Range(current'))
      /\ Range(c) \cup InBatches \subseteq Range(current') \cup InBatches' \cup counted'
      /\ Range(current') \cup InBatches' \subseteq Range(c) \cup InBatches
      /\ counted \subseteq counted' /\ counted' \subseteq counted \cup Range(c) \cup InBatches
      /\ all => current' = <<>>
  <2>1. Lined(pending)
    BY <1>1 DEF InLine
  <2> QED BY <1>1, <1>3, <2>1, SealStep
<1>5. Held' \subseteq Held /\ Held \cup counted \subseteq Held' \cup counted'
  BY <1>4, HoldsAll
<1>6. InLine'
  <2>1. /\ Before(InBatches', Range(queue')) /\ Before(Range(current'), Range(queue'))
        /\ Before(InBatches', Range(transport')) /\ Before(Range(current'), Range(transport'))
    <3>1. InBatches' \cup Range(current') \subseteq Range(c) \cup InBatches /\ queue' = queue
      BY <1>4
    <3>2. Before(InBatches, Range(queue))
      BY <1>1 DEF InLine
    <3> QED BY <1>3, <3>1, <3>2 DEF Before
  <2>2. \A r \in Held' : r <= framed'
    BY <1>1, <1>5 DEF InLine
  <2> QED BY <1>1, <1>3, <1>4, <2>1, <2>2 DEF InLine, Lined
<1>7. Landing'
  BY <1>1, <1>2, <1>5, LandingKept
<1>8. CutUp'
  BY DEF CutUp, NoneAhead
<1>9. Whole'
  BY <1>1, <1>5, WholeKept
<1>10. counted' \subseteq Records
  <2>1. counted \subseteq Records
    BY <1>1 DEF LogTypeOK
  <2> QED BY <1>2, <1>4, <2>1, HoldsAll, SeqIs
<1> QED BY <1>4, <1>6, <1>7, <1>8, <1>9, <1>10 DEF Lined, Way, Arrived, ResentOnlyUnanswered, LandsInOrder

LEMMA RoundWay ==
  ASSUME ShipInv, Receive \/ LingerExpires \/ StopForwarder
  PROVE  Way' /\ (StopForwarder => current' = <<>> /\ transport' = <<>>)
<1>1. Way /\ LogTypeOK /\ InLine /\ Settled
  BY DEF ShipInv, Way, Arrived
<1>2. /\ queue \in Seq(Records) /\ transport \in Seq(Records) /\ current \in Seq(Records)
      /\ Rising(queue) /\ Rising(transport) /\ Rising(current)
      /\ Before(Range(current), Range(transport))
  BY <1>1, InLineIs DEF InLine
<1>3. chunks = <<>>
  BY <1>1 DEF Settled, Receive, LingerExpires, StopForwarder
<1>4. UNCHANGED <<framed, queue, collector, chunks, disabled, backoff, flushing, shutdown, landed,
                  unanswered, stale, cut>>
  BY DEF Receive, LingerExpires, StopForwarder, far
<1>5. Proceed /\ stopped' \in BOOLEAN
  BY <1>1 DEF Receive, LingerExpires, StopForwarder, LogTypeOK
<1> DEFINE Sealing(c, all) ==
             /\ c \in Seq(Records) /\ all \in BOOLEAN /\ Seal(c, all) /\ Rising(c)
             /\ transport' \in Seq(Records) /\ Rising(transport')
             /\ Range(c) \cup Range(transport') = Range(current) \cup Range(transport)
             /\ Before(Range(c), Range(transport'))
<1>6. ASSUME NEW c, NEW all, Sealing(c, all)
      PROVE  Way' /\ (all => current' = <<>>)
  <2>1. /\ InLine' /\ Landing' /\ CutUp' /\ Whole' /\ ResentOnlyUnanswered' /\ LandsInOrder'
        /\ current' \in Seq(Records) /\ pending' \in Seq(Seq(Records)) /\ Len(pending') <= MaxPending
        /\ \A i \in DOMAIN pending' : Len(pending'[i]) \in 1 .. BatchMax
        /\ counted' \subseteq Records /\ (all => current' = <<>>)
    BY <1>1, <1>3, <1>4, <1>6, SealWay
  <2>2. forwarder' \in {"waits", "delivers", "ended"}
    BY <1>5 DEF Proceed
  <2>3. LogTypeOK'
    BY <1>1, <1>4, <1>5, <1>6, <2>1, <2>2 DEF LogTypeOK
  <2> QED BY <2>1, <2>3 DEF Way, Arrived
<1> HIDE DEF Sealing
<1>7. CASE Receive
  <2> DEFINE h == Head(transport)
             c == Append(current, h)
  <2>1. transport # <<>> /\ transport' = Tail(transport) /\ Seal(c, FALSE)
    BY <1>7 DEF Receive
  <2>2. /\ h \in Records /\ transport' \in Seq(Records) /\ Range(transport) = {h} \cup Range(transport')
        /\ Rising(transport') /\ \A x \in Range(transport') : h < x
    BY <1>2, <2>1, TailRises
  <2> HIDE DEF h
  <2>3. \A x \in Range(current) : x < h
    BY <1>2, <2>2 DEF Before
  <2>4. c \in Seq(Records) /\ Range(c) = Range(current) \cup {h} /\ Rising(c)
    BY <1>2, <2>2, <2>3, AppendRises
  <2> HIDE DEF c
  <2>5. Before(Range(c), Range(transport'))
    BY <1>2, <2>2, <2>4 DEF Before
  <2>6. Sealing(c, FALSE)
    BY <2>1, <2>2, <2>4, <2>5 DEF Sealing
  <2>7. ~StopForwarder
    BY <1>7, <2>1, <1>1 DEF Receive, StopForwarder, LogTypeOK
  <2> QED BY <1>6, <2>6, <2>7
<1>8. CASE LingerExpires
  <2>1. Seal(current, TRUE) /\ transport' = transport /\ current # <<>>
    BY <1>8 DEF LingerExpires
  <2>2. Sealing(current, TRUE)
    BY <1>2, <2>1 DEF Sealing
  <2>3. StopForwarder => transport' = <<>>
    BY DEF StopForwarder
  <2> QED BY <1>6, <2>2, <2>3
<1>9. CASE StopForwarder
  <2>1. Seal(current \o transport, TRUE) /\ transport' = <<>>
    BY <1>9 DEF StopForwarder
  <2>2. /\ current \o transport \in Seq(Records) /\ Rising(current \o transport)
        /\ Range(current \o transport) = Range(current) \cup Range(transport)
    BY <1>2, ConcatRises
  <2>3. <<>> \in Seq(Records) /\ Rising(<<>>) /\ Range(<<>>) = {}
    BY DEF Rising, Range
  <2>4. Sealing(current \o transport, TRUE)
    BY <2>1, <2>2, <2>3 DEF Sealing, Before
  <2> QED BY <1>6, <2>1, <2>4
<1> QED BY <1>7, <1>8, <1>9

(* A set of positions that holds every position before its own is an       *)
(* initial segment.                                                        *)
LEMMA Prefix ==
  ASSUME NEW n \in Nat, NEW P \in SUBSET (1 .. n), \A i \in P, j \in 1 .. n : j < i => j \in P
  PROVE  Cardinality(P) \in 0 .. n /\ P = 1 .. Cardinality(P)
<1> DEFINE Out == {k \in Nat : k \notin P /\ k >= 1}
<1>1. n + 1 \in Out
  OBVIOUS
<1>2. PICK m \in Out : \A k \in Out : ~(k < m)
  <2> DEFINE R == OpToRel(<, Nat)
  <2> HIDE DEF Out
  <2>1. Out \subseteq Nat /\ Out # {}
    BY <1>1 DEF Out
  <2>2. PICK m \in Out : \A k \in Out : ~ (<<k, m>> \in R)
    BY <2>1, NatLessThanWellFounded, WFMin DEF R
  <2>3. \A k \in Out : ~ (k < m)
    BY <2>1, <2>2 DEF OpToRel
  <2> QED BY <2>3
<1>3. m \in Nat \ {0} /\ m <= n + 1
  BY <1>1, <1>2
<1>4. P = 1 .. m - 1
  <2>1. \A k \in 1 .. m - 1 : k \in P
    BY <1>2, <1>3
  <2>2. \A k \in P : k < m
    BY <1>2, <1>3
  <2>3. \A k \in P : k \in 1 .. m - 1
    BY <1>3, <2>2
  <2> QED BY <2>1, <2>3
<1>5. Cardinality(1 .. m - 1) = m - 1
  <2> DEFINE d == m - 1
  <2>1. d \in Nat
    BY <1>3
  <2> HIDE DEF d
  <2>2. Cardinality(1 .. d) = IF 1 > d THEN 0 ELSE d - 1 + 1
    BY <2>1, FS_Interval
  <2> QED BY <2>1, <2>2 DEF d
<1> QED BY <1>3, <1>4, <1>5

(* The oldest batch and what is behind it.                                 *)
LEMMA HeadBatch ==
  ASSUME Lined(pending), pending # <<>>
  PROVE  /\ pending[1] \in Seq(Records) /\ Head(pending) = pending[1] /\ 1 \in DOMAIN pending
         /\ Len(pending[1]) \in 1 .. BatchMax /\ Rising(pending[1])
         /\ InBatches = Range(pending[1]) \cup InAll(Tail(pending))
         /\ Lined(Tail(pending)) /\ Len(Tail(pending)) = Len(pending) - 1
         /\ Before(Range(pending[1]), InAll(Tail(pending)))
         /\ InAll(Tail(pending)) = UNION {Range(pending[i]) : i \in DOMAIN pending \ {1}}
<1>1. /\ pending \in Seq(Seq(Records)) /\ Len(pending) \in Nat \ {0} /\ DOMAIN pending = 1 .. Len(pending)
      /\ Head(pending) = pending[1] /\ Tail(pending) = SubSeq(pending, 2, Len(pending))
  BY SeqIs, TailIsSubSeq DEF Lined
<1>2. 1 \in DOMAIN pending /\ 1 \in Nat /\ 1 <= Len(pending) /\ 1 + 1 = 2
  BY <1>1
<1>3. /\ Lined(Tail(pending)) /\ Len(Tail(pending)) = Len(pending) - 1
      /\ InAll(pending) = InAll(Tail(pending)) \cup UNION {Range(pending[i]) : i \in 1 .. 1}
  <2> DEFINE d == 1
  <2>1. d \in Nat /\ d <= Len(pending)
    BY <1>2
  <2> HIDE DEF d
  <2>2. /\ Lined(SubSeq(pending, d + 1, Len(pending)))
        /\ Len(SubSeq(pending, d + 1, Len(pending))) = Len(pending) - d
        /\ InAll(pending) = InAll(SubSeq(pending, d + 1, Len(pending)))
                              \cup UNION {Range(pending[i]) : i \in 1 .. d}
    BY <2>1, LinedDrop
  <2>3. d = 1 /\ d + 1 = 2
    BY DEF d
  <2> QED BY <1>1, <2>2, <2>3
<1>4. UNION {Range(pending[i]) : i \in 1 .. 1} = Range(pending[1])
  BY <1>1, <1>2
<1>5. pending[1] \in Seq(Records) /\ Len(pending[1]) \in 1 .. BatchMax /\ Rising(pending[1])
  BY <1>1, <1>2 DEF Lined
<1>6. \A k \in DOMAIN Tail(pending) :
         /\ k \in Nat /\ k + 1 \in DOMAIN pending /\ 1 < k + 1
         /\ Tail(pending)[k] = pending[k + 1]
  <2> DEFINE B == Seq(Records)
             y == Len(pending)
  <2>1. pending \in Seq(B) /\ 2 \in Nat \ {0} /\ y \in Nat /\ y <= Len(pending)
    BY <1>1
  <2> HIDE DEF B, y
  <2>2. /\ SubSeq(pending, 2, y) \in Seq(B)
        /\ \A k \in DOMAIN SubSeq(pending, 2, y) :
             k \in Nat /\ 2 + k - 1 \in DOMAIN pending
             /\ SubSeq(pending, 2, y)[k] = pending[2 + k - 1]
    BY <2>1, SubIs
  <2>3. \A k \in DOMAIN SubSeq(pending, 2, y) : k >= 1
    BY <2>2, SeqIs
  <2>4. \A k \in Nat : 2 + k - 1 = k + 1 /\ (k >= 1 => 1 < k + 1)
    OBVIOUS
  <2> QED BY <1>1, <2>2, <2>3, <2>4 DEF y
<1>7. Before(Range(pending[1]), InAll(Tail(pending)))
  <2>1. \A k \in DOMAIN Tail(pending) : Before(Range(pending[1]), Range(Tail(pending)[k]))
    BY <1>2, <1>6 DEF Lined
  <2> QED BY <2>1 DEF InAll, Before
<1>8. ASSUME NEW i \in DOMAIN pending, i # 1
      PROVE  i - 1 \in DOMAIN Tail(pending) /\ Tail(pending)[i - 1] = pending[i]
  <2>1. DOMAIN Tail(pending) = 1 .. Len(pending) - 1
    BY <1>3, SeqIs DEF Lined
  <2>2. i - 1 \in 1 .. Len(pending) - 1 /\ (i - 1) + 1 = i
    BY <1>1, <1>8
  <2> QED BY <1>6, <2>1, <2>2
<1>9. InAll(Tail(pending)) = UNION {Range(pending[i]) : i \in DOMAIN pending \ {1}}
  <2>1. \A x \in InAll(Tail(pending)) : x \in UNION {Range(pending[i]) : i \in DOMAIN pending \ {1}}
    <3>1. \A k \in DOMAIN Tail(pending) : k + 1 \in DOMAIN pending \ {1} /\ Tail(pending)[k] = pending[k + 1]
      BY <1>6
    <3> QED BY <3>1 DEF InAll
  <2>2. \A x \in UNION {Range(pending[i]) : i \in DOMAIN pending \ {1}} : x \in InAll(Tail(pending))
    BY <1>8 DEF InAll
  <2> QED BY <2>1, <2>2
<1> QED BY <1>1, <1>2, <1>3, <1>4, <1>5, <1>7, <1>9, HoldsAll

LEMMA StaleIs ==
  ASSUME NEW b \in Seq(Records), Rising(b), stale \in Nat
  PROVE  Skipped(b) \in 0 .. Len(b) /\ StaleOf(b) = 1 .. Skipped(b)
<1> DEFINE n == Len(b)
           P == StaleOf(b)
<1>1. n \in Nat /\ DOMAIN b = 1 .. n /\ \A i \in DOMAIN b : b[i] \in Nat
  BY SeqIs, ShipAssumed DEF Records
<1>2. P \in SUBSET (1 .. n)
  BY <1>1 DEF StaleOf
<1>3. ASSUME NEW i \in P, NEW j \in 1 .. n, j < i PROVE j \in P
  <2>1. i \in DOMAIN b /\ j \in DOMAIN b /\ TooOld(b[i])
    BY <1>1, <1>3 DEF StaleOf
  <2>2. b[j] < b[i] /\ b[j] \in Nat /\ b[i] \in Nat
    BY <1>1, <1>3, <2>1 DEF Rising
  <2>3. TooOld(b[j])
    BY <2>1, <2>2 DEF TooOld
  <2> QED BY <2>1, <2>3 DEF StaleOf
<1> HIDE DEF n, P
<1>4. Cardinality(P) \in 0 .. n /\ P = 1 .. Cardinality(P)
  BY <1>1, <1>2, <1>3, Prefix
<1> QED BY <1>4 DEF n, P, Skipped

(* How many calls a batch takes: the last is not empty, and they are enough. *)
LEMMA CallsIs ==
  ASSUME NEW b \in Seq(Records), Rising(b), stale \in Nat
  PROVE  /\ Calls(b) \in Nat
         /\ Calls(b) = 0 => Skipped(b) = Len(b)
         /\ \A i \in 1 .. Calls(b) : /\ (i - 1) * ChunkMax \in Nat
                                     /\ i * ChunkMax = (i - 1) * ChunkMax + ChunkMax
                                     /\ Skipped(b) + (i - 1) * ChunkMax < Len(b)
                                     /\ i < Calls(b) => Skipped(b) + i * ChunkMax < Len(b)
<1> DEFINE s == Skipped(b)
           n == Len(b)
           a == n - s + ChunkMax - 1
           q == a \div ChunkMax
<1>1. s \in Nat /\ n \in Nat /\ s <= n
  <2>1. s \in 0 .. n /\ n \in Nat
    BY StaleIs, SeqIs
  <2> HIDE DEF s, n
  <2> QED BY <2>1
<1> HIDE DEF s, n
<1>2. ChunkMax \in Nat \ {0} /\ a \in Nat
  BY <1>1, ShipAssumed
<1>3. q \in Nat /\ q * ChunkMax <= a /\ a < q * ChunkMax + ChunkMax
  <2> HIDE DEF a
  <2> QED BY <1>2, Quotient
<1>4. Calls(b) = q
  BY DEF Calls, s, n
<1> HIDE DEF q
<1>5. q = 0 => s = n
  BY <1>1, <1>2, <1>3
<1>6. ASSUME NEW i \in 1 .. q
      PROVE  /\ (i - 1) * ChunkMax \in Nat /\ i * ChunkMax = (i - 1) * ChunkMax + ChunkMax
             /\ s + (i - 1) * ChunkMax < n
  <2>1. i \in Nat /\ i - 1 \in Nat /\ (i - 1) + 1 = i /\ i <= q
    BY <1>3
  <2>2. /\ i * ChunkMax = (i - 1) * ChunkMax + ChunkMax /\ (i - 1) * ChunkMax \in Nat
        /\ i * ChunkMax \in Nat /\ i * ChunkMax <= q * ChunkMax /\ q * ChunkMax \in Nat
    BY <1>2, <1>3, <2>1, Times
  <2> DEFINE x == (i - 1) * ChunkMax
             y == i * ChunkMax
             z == q * ChunkMax
  <2>3. x \in Nat /\ y \in Nat /\ z \in Nat /\ y = x + ChunkMax /\ y <= z /\ z <= a
    BY <1>3, <2>2
  <2> HIDE DEF x, y, z
  <2>4. s + x < n
    BY <1>1, <1>2, <2>3
  <2> QED BY <2>2, <2>4 DEF x
<1>7. ASSUME NEW i \in 1 .. q, i < q PROVE s + i * ChunkMax < n
  <2>1. i + 1 \in 1 .. q /\ (i + 1) - 1 = i
    BY <1>3, <1>7
  <2> QED BY <1>6, <2>1
<1> QED BY <1>3, <1>4, <1>5, <1>6, <1>7 DEF s, n

LEMMA UpToIs ==
  ASSUME NEW b \in Seq(Records), Rising(b), stale \in Nat, NEW i \in 1 .. Calls(b)
  PROVE  /\ UpTo(b, i - 1) \in 0 .. Len(b) /\ UpTo(b, i) \in 0 .. Len(b)
         /\ UpTo(b, i - 1) < UpTo(b, i)
         /\ Skipped(b) + (i - 1) * ChunkMax \in UpTo(b, i - 1) .. UpTo(b, i) - 1
         /\ i = 1 => UpTo(b, i - 1) = 0 /\ Skipped(b) + (i - 1) * ChunkMax = Skipped(b)
         /\ i # 1 => UpTo(b, i - 1) = Skipped(b) + (i - 1) * ChunkMax
<1> DEFINE s == Skipped(b)
           n == Len(b)
           x == (i - 1) * ChunkMax
           y == i * ChunkMax
           q == Calls(b)
           from == UpTo(b, i - 1)
           to == UpTo(b, i)
<1>1. s \in 0 .. n /\ n \in Nat
  BY StaleIs, SeqIs
<1>2. /\ q \in Nat /\ x \in Nat /\ y = x + ChunkMax /\ s + x < n
      /\ i < q => s + y < n
  BY CallsIs
<1>3. i \in Nat \ {0} /\ i <= q /\ i - 1 # q /\ (i - 1 = 0 <=> i = 1) /\ ChunkMax \in Nat \ {0}
  BY <1>2, ShipAssumed
<1>4. from = IF i = 1 THEN 0 ELSE s + x
  BY <1>3 DEF UpTo
<1>5. to = IF i = q THEN n ELSE s + y
  BY <1>3 DEF UpTo
<1>6. i = 1 => x = 0
  BY <1>3
<1> HIDE DEF s, n, x, y, q, from, to
<1>7. to \in 0 .. n /\ s + x < to
  BY <1>1, <1>2, <1>3, <1>5
<1>8. from \in 0 .. n /\ from <= s + x
  BY <1>1, <1>2, <1>4
<1>9. from < to /\ s + x \in from .. to - 1
  BY <1>1, <1>2, <1>7, <1>8
<1>10. (i = 1 => from = 0 /\ s + x = s) /\ (i # 1 => from = s + x)
  BY <1>1, <1>4, <1>6
<1> QED BY <1>7, <1>8, <1>9, <1>10 DEF s, n, x, from, to

(* The calls that a batch is cut into: the first p[i] records of the batch *)
(* are what the first i calls account for.                                 *)
CutOf(b, calls) ==
  /\ calls \in Seq([consumed : 1 .. BatchMax, events : Seq(Records)])
  /\ calls = <<>> => \A k \in DOMAIN b : k \in StaleOf(b)
  /\ calls # <<>> =>
       \E p \in [0 .. Len(calls) -> 0 .. Len(b)] :
         /\ p[0] = 0 /\ p[Len(calls)] = Len(b)
         /\ \A i, j \in 0 .. Len(calls) : i < j => p[i] < p[j]
         /\ \A i \in 1 .. Len(calls) :
              /\ calls[i].consumed = p[i] - p[i - 1]
              /\ \E q \in p[i - 1] .. p[i] - 1 :
                   /\ calls[i].events = SubSeq(b, q + 1, p[i])
                   /\ \A k \in p[i - 1] + 1 .. q : k \in StaleOf(b)
  /\ \A i \in DOMAIN calls : \A e \in Range(calls[i].events) : e \in Range(b) /\ ~TooOld(e)

LEMMA ChunkIs ==
  ASSUME NEW b \in Seq(Records), Rising(b), Len(b) \in 1 .. BatchMax, stale \in Nat
  PROVE  CutOf(b, Chunk(b))
<1> DEFINE n == Len(b)
           m == Calls(b)
           s == Skipped(b)
           lo(i) == s + (i - 1) * ChunkMax
           p == [i \in 0 .. m |-> UpTo(b, i)]
           C == Chunk(b)
<1>1. /\ n \in Nat \ {0} /\ m \in Nat /\ s \in 0 .. n /\ StaleOf(b) = 1 .. s /\ DOMAIN b = 1 .. n
      /\ m = 0 => s = n
  <2>1. n \in Nat /\ n >= 1
    BY SeqIs, ShipAssumed
  <2> QED BY <2>1, CallsIs, StaleIs, SeqIs
<1>2. /\ C = [i \in 1 .. m |-> [consumed |-> UpTo(b, i) - UpTo(b, i - 1), events |-> SubSeq(b, lo(i) + 1, UpTo(b, i))]]
      /\ Len(C) = m /\ DOMAIN C = 1 .. m
  BY <1>1 DEF Chunk
<1>3. ASSUME NEW i \in 1 .. m
      PROVE  /\ UpTo(b, i - 1) \in 0 .. n /\ UpTo(b, i) \in 0 .. n /\ UpTo(b, i - 1) < UpTo(b, i)
             /\ lo(i) \in UpTo(b, i - 1) .. UpTo(b, i) - 1 /\ lo(i) >= s /\ lo(i) \in Nat
             /\ i = 1 => UpTo(b, i - 1) = 0 /\ lo(i) = s
             /\ i # 1 => UpTo(b, i - 1) = lo(i)
  <2>1. (i - 1) * ChunkMax \in Nat
    BY CallsIs
  <2> DEFINE x == (i - 1) * ChunkMax
  <2>2. x \in Nat
    BY <2>1
  <2>3. lo(i) = s + x
    OBVIOUS
  <2>5. s \in Nat
    BY <1>1
  <2> HIDE DEF x, s
  <2>4. s + x >= s /\ s + x \in Nat
    BY <2>2, <2>5
  <2> QED BY <2>3, <2>4, UpToIs DEF x, s
<1>4. ASSUME NEW i \in 1 .. m
      PROVE  /\ SubSeq(b, lo(i) + 1, UpTo(b, i)) \in Seq(Records)
             /\ \A e \in Range(SubSeq(b, lo(i) + 1, UpTo(b, i))) : e \in Range(b) /\ ~TooOld(e)
             /\ UpTo(b, i) - UpTo(b, i - 1) \in 1 .. BatchMax
  <2> DEFINE x == lo(i) + 1
             y == UpTo(b, i)
  <2>1. x \in Nat \ {0} /\ y \in Nat /\ y <= Len(b) /\ x > s
    BY <1>1, <1>3
  <2> HIDE DEF x, y
  <2>2. SubSeq(b, x, y) \in Seq(Records) /\ Range(SubSeq(b, x, y)) = {b[k] : k \in x .. y}
    <3>1. x \in Nat \ {0} /\ y \in Nat /\ y <= Len(b)
      BY <2>1
    <3>2. PartOf(SubSeq(b, x, y), b, x, y)
      BY <3>1, PartIs
    <3> QED BY <3>2 DEF PartOf
  <2>3. ASSUME NEW k \in x .. y PROVE b[k] \in Range(b) /\ ~TooOld(b[k])
    <3>1. k \in DOMAIN b /\ k \notin 1 .. s
      BY <1>1, <2>1
    <3> HIDE DEF s
    <3> QED BY <1>1, <3>1, SeqIs DEF StaleOf
  <2>4. UpTo(b, i) - UpTo(b, i - 1) \in 1 .. BatchMax
    <3> DEFINE f == UpTo(b, i - 1)
    <3>1. f \in 0 .. n /\ y \in 0 .. n /\ f < y /\ n <= BatchMax /\ BatchMax \in Nat
      BY <1>3, ShipAssumed DEF y
    <3> HIDE DEF f, n
    <3>2. y - f \in 1 .. BatchMax
      BY <1>1, <3>1
    <3> QED BY <3>2 DEF f, y
  <2> QED BY <2>2, <2>3, <2>4 DEF x, y
<1>5. C \in Seq([consumed : 1 .. BatchMax, events : Seq(Records)])
  <2> DEFINE e(i) == [consumed |-> UpTo(b, i) - UpTo(b, i - 1), events |-> SubSeq(b, lo(i) + 1, UpTo(b, i))]
             K == [consumed : 1 .. BatchMax, events : Seq(Records)]
  <2>1. \A i \in 1 .. m : e(i) \in K
    BY <1>4
  <2>2. C = [i \in 1 .. m |-> e(i)]
    BY <1>2
  <2>3. m \in Nat
    BY <1>1
  <2> HIDE DEF e, K, C, m
  <2>4. [i \in 1 .. m |-> e(i)] \in [1 .. m -> K]
    BY <2>1
  <2>5. C \in Seq(K)
    BY <2>2, <2>3, <2>4, SeqDef
  <2> QED BY <2>5 DEF K
<1>6. \A i \in DOMAIN C : \A e \in Range(C[i].events) : e \in Range(b) /\ ~TooOld(e)
  <2>1. \A i \in 1 .. m : C[i].events = SubSeq(b, lo(i) + 1, UpTo(b, i))
    BY <1>2
  <2> HIDE DEF lo, C, m
  <2> QED BY <1>2, <1>4, <2>1
<1>7. C = <<>> => \A k \in DOMAIN b : k \in StaleOf(b)
  BY <1>1, <1>2
<1>8. ASSUME C # <<>>
      PROVE  \E f \in [0 .. Len(C) -> 0 .. n] :
                /\ f[0] = 0 /\ f[Len(C)] = n
                /\ \A i, j \in 0 .. Len(C) : i < j => f[i] < f[j]
                /\ \A i \in 1 .. Len(C) :
                     /\ C[i].consumed = f[i] - f[i - 1]
                     /\ \E q \in f[i - 1] .. f[i] - 1 :
                          /\ C[i].events = SubSeq(b, q + 1, f[i])
                          /\ \A k \in f[i - 1] + 1 .. q : k \in StaleOf(b)
  <2>1. m # 0
    BY <1>2, <1>5, <1>8, SeqIs
  <2>2. p[0] = 0 /\ p[m] = n
    BY <1>1, <2>1 DEF UpTo
  <2>3. p \in [0 .. m -> 0 .. n]
    <3>1. \A i \in 0 .. m : UpTo(b, i) \in 0 .. n
      <4>1. UpTo(b, 0) \in 0 .. n
        BY <1>1 DEF UpTo
      <4>2. \A i \in 0 .. m : i = 0 \/ i \in 1 .. m
        BY <1>1
      <4> QED BY <1>3, <4>1, <4>2
    <3> QED BY <3>1
  <2>4. ASSUME NEW i \in 1 .. m
        PROVE  /\ C[i].consumed = p[i] - p[i - 1]
               /\ \E q \in p[i - 1] .. p[i] - 1 :
                    /\ C[i].events = SubSeq(b, q + 1, p[i])
                    /\ \A k \in p[i - 1] + 1 .. q : k \in StaleOf(b)
    <3>1. i - 1 \in 0 .. m /\ i \in 0 .. m
      BY <1>1
    <3>2. p[i - 1] = UpTo(b, i - 1) /\ p[i] = UpTo(b, i)
      BY <3>1
    <3>3. C[i].consumed = UpTo(b, i) - UpTo(b, i - 1) /\ C[i].events = SubSeq(b, lo(i) + 1, UpTo(b, i))
      BY <1>2
    <3> DEFINE q == lo(i)
               from == UpTo(b, i - 1)
               to == UpTo(b, i)
    <3>4. \A k \in from + 1 .. q : k \in StaleOf(b)
      <4>1. CASE i = 1
        <5>1. from + 1 .. q = 1 .. s
          BY <1>3, <4>1
        <5> QED BY <1>1, <5>1
      <4>2. CASE i # 1
        <5>1. from = q /\ q \in Nat
          BY <1>3, <4>2
        <5> HIDE DEF from, q
        <5>2. from + 1 .. q = {}
          BY <5>1
        <5> QED BY <5>2
      <4> QED BY <4>1, <4>2
    <3>5. q \in from .. to - 1 /\ from < to
      BY <1>3
    <3> HIDE DEF q, from, to, p, C
    <3> QED BY <3>2, <3>3, <3>4, <3>5 DEF q, from, to
  <2>5. ASSUME NEW i \in 0 .. m, NEW j \in 0 .. m, i < j PROVE p[i] < p[j]
    <3> DEFINE x == i * ChunkMax
               y == (j - 1) * ChunkMax
               from == UpTo(b, i)
               to == UpTo(b, j)
    <3>1. j \in 1 .. m /\ i \in Nat /\ j - 1 \in Nat /\ i <= j - 1 /\ i # m
      BY <1>1, <2>5
    <3>2. x <= y /\ x \in Nat /\ y \in Nat
      BY <3>1, ShipAssumed, Times
    <3>3. from = IF i = 0 THEN 0 ELSE s + x
      BY <1>1, <3>1 DEF UpTo
    <3>4. to \in 0 .. n /\ s + y \in UpTo(b, j - 1) .. to - 1 /\ UpTo(b, j - 1) \in 0 .. n
      BY <1>3, <3>1
    <3>5. p[i] = from /\ p[j] = to
      OBVIOUS
    <3>6. s \in Nat /\ to \in Nat /\ s + y < to
      <4> DEFINE f == UpTo(b, j - 1)
      <4>1. s \in Nat /\ to \in Nat /\ f \in Nat /\ s + y \in f .. to - 1
        BY <1>1, <3>4
      <4> HIDE DEF f, s, to, y
      <4> QED BY <3>2, <4>1
    <3> HIDE DEF x, y, from, to, s, p
    <3>7. from < to
      BY <3>2, <3>3, <3>6
    <3> QED BY <3>5, <3>7
  <2> HIDE DEF p
  <2> QED BY <1>2, <2>2, <2>3, <2>4, <2>5
<1> HIDE DEF C
<1>9. CutOf(b, C)
  BY <1>5, <1>6, <1>7, <1>8 DEF CutOf
<1> QED BY <1>9 DEF C

(* A step of the delivery only takes lines off the sealed batches.         *)
LEMMA ShrinkInLine ==
  ASSUME InLine, Lined(pending'), InBatches' \subseteq InBatches,
         UNCHANGED <<framed, queue, transport, current>>
  PROVE  InLine' /\ Held' \subseteq Held
<1>1. Held' \subseteq Held
  BY HoldsAll
<1>2. /\ Before(InBatches', Range(current')) /\ Before(InBatches', Range(transport'))
      /\ Before(InBatches', Range(queue'))
  BY DEF InLine, Before
<1>3. \A r \in Held' : r <= framed'
  BY <1>1 DEF InLine
<1> QED BY <1>1, <1>2, <1>3 DEF InLine, Lined

LEMMA PendingIs ==
  ASSUME Lined(pending')
  PROVE  pending' \in Seq(Seq(Records)) /\ \A i \in DOMAIN pending' : Len(pending'[i]) \in 1 .. BatchMax
BY DEF Lined

LEMMA OpenWay ==
  ASSUME Way, OpenBatch
  PROVE  Way'
<1> DEFINE b == pending[1]
<1>1. LogTypeOK /\ InLine /\ Landing /\ CutUp /\ Whole /\ Lined(pending) /\ stale \in Nat
  BY InLineIs DEF Way, Arrived, InLine
<1>2. /\ UNCHANGED <<framed, queue, collector, transport, forwarder, current, disabled, backoff,
                     stopped, flushing, shutdown, landed, unanswered, stale, cut>>
      /\ pending # <<>> /\ Head(pending) = b
      /\ counted' = counted \cup {b[k] : k \in StaleOf(b)}
      /\ chunks' = Chunk(b)
      /\ pending' = IF chunks' = <<>> THEN Tail(pending) ELSE pending
  BY <1>1, HeadBatch DEF OpenBatch, far
<1>3. /\ b \in Seq(Records) /\ Len(b) \in 1 .. BatchMax /\ Rising(b)
      /\ InBatches = Range(b) \cup InAll(Tail(pending))
      /\ Lined(Tail(pending)) /\ Len(Tail(pending)) = Len(pending) - 1
  BY <1>1, <1>2, HeadBatch
<1>4. Held \subseteq Records /\ Len(pending) \in Nat /\ MaxPending \in Nat
  BY <1>1, HeldTyped, SeqIs, ShipAssumed DEF LogTypeOK
<1> HIDE DEF b
<1>5. CutOf(b, chunks')
  BY <1>1, <1>2, <1>3, ChunkIs
<1>6. \A k \in StaleOf(b) : k \in DOMAIN b /\ TooOld(b[k]) /\ b[k] \in counted'
  BY <1>2 DEF StaleOf
<1>7. /\ Lined(pending') /\ Len(pending') <= MaxPending /\ InBatches' \subseteq InBatches
      /\ InBatches \subseteq InBatches' \cup counted'
  <2>1. CASE chunks' = <<>>
    <3>1. InBatches' = InAll(Tail(pending)) /\ pending' = Tail(pending)
      BY <1>2, <2>1, HoldsAll
    <3>2. Range(b) \subseteq counted'
      BY <1>3, <1>5, <1>6, <2>1, SeqIs DEF CutOf
    <3>3. Len(pending) <= MaxPending
      BY <1>1 DEF LogTypeOK
    <3> QED BY <1>3, <1>4, <3>1, <3>2, <3>3
  <2>2. CASE chunks' # <<>>
    <3>1. pending' = pending /\ InBatches' = InBatches
      BY <1>2, <2>2, HoldsAll
    <3> QED BY <1>1, <3>1 DEF LogTypeOK
  <2> QED BY <2>1, <2>2
<1>8. InLine' /\ Held' \subseteq Held
  BY <1>1, <1>2, <1>7, ShrinkInLine
<1>9. Landing'
  <2>1. framed' = framed /\ stale' = stale /\ framed \in Nat
    BY <1>1, <1>2, HeldTyped
  <2> QED BY <1>1, <1>2, <1>8, <2>1, LandingKept
<1>10. NoneAhead'
  <2> SUFFICES ASSUME NEW i \in DOMAIN chunks', NEW e \in Range(chunks'[i].events), NEW u \in unanswered, e < u
               PROVE  e \in unanswered
    BY <1>2 DEF NoneAhead
  <2>1. e \in Held /\ ~TooOld(e)
    BY <1>3, <1>5, HoldsAll DEF CutOf
  <2> QED BY <1>1, <2>1 DEF Landing
<1>11. ASSUME chunks' # <<>>
       PROVE  /\ pending' # <<>>
              /\ \E p \in [0 .. Len(chunks') -> 0 .. Len(pending'[1])] : Cuts(pending[1], chunks, p)'
  <2>1. pending' = pending /\ pending'[1] = b
    BY <1>2, <1>11 DEF b
  <2>2. PICK p \in [0 .. Len(chunks') -> 0 .. Len(b)] :
                /\ p[0] = 0 /\ p[Len(chunks')] = Len(b)
                /\ \A i, j \in 0 .. Len(chunks') : i < j => p[i] < p[j]
                /\ \A i \in 1 .. Len(chunks') :
                     /\ chunks'[i].consumed = p[i] - p[i - 1]
                     /\ \E q \in p[i - 1] .. p[i] - 1 :
                          /\ chunks'[i].events = SubSeq(b, q + 1, p[i])
                          /\ \A k \in p[i - 1] + 1 .. q : k \in StaleOf(b)
    BY <1>5, <1>11 DEF CutOf
  <2>3. \A r : TooOld(r)' <=> TooOld(r)
    BY <1>2 DEF TooOld
  <2>4. ASSUME NEW i \in 1 .. Len(chunks') PROVE Piece(pending[1], chunks[i], p[i - 1], p[i])'
    <3>1. PICK q \in p[i - 1] .. p[i] - 1 :
                          /\ chunks'[i].events = SubSeq(b, q + 1, p[i])
                          /\ \A k \in p[i - 1] + 1 .. q : k \in StaleOf(b)
      BY <2>2
    <3>2. \A k \in p[i - 1] + 1 .. q : (b[k] <= stale' /\ stale' > 0) /\ b[k] \in counted'
      BY <1>2, <1>6, <3>1 DEF TooOld
    <3>3. chunks'[i].consumed = p[i] - p[i - 1]
      BY <2>2
    <3> QED BY <2>1, <3>1, <3>2, <3>3 DEF Piece, TooOld
  <2> QED BY <1>2, <2>1, <2>2, <2>4 DEF Cuts
<1>12. CutUp'
  BY <1>10, <1>11 DEF CutUp
<1>13. Whole'
  <2>1. Held \cup Range(landed) \cup counted \subseteq Held' \cup Range(landed') \cup counted'
    BY <1>2, <1>7, HoldsAll
  <2> QED BY <1>1, <1>2, <2>1, WholeKept
<1>14. LogTypeOK'
  <2>1. counted' \subseteq Records
    <3>1. \A k \in StaleOf(b) : b[k] \in Records
      BY <1>3, <1>6, SeqIs
    <3> QED BY <1>1, <1>2, <3>1 DEF LogTypeOK
  <2> QED BY <1>1, <1>2, <1>5, <1>7, <2>1, PendingIs DEF LogTypeOK, CutOf
<1> QED BY <1>2, <1>8, <1>9, <1>12, <1>13, <1>14 DEF Way, Arrived, ResentOnlyUnanswered, LandsInOrder

(* The next call: it accounts for the first t of the oldest batch, of which *)
(* the first q were stale and counted.                                      *)
LEMMA FirstCall ==
  ASSUME Way, chunks # <<>>
  PROVE  /\ pending # <<>> /\ Len(chunks) \in Nat \ {0} /\ 1 \in DOMAIN chunks
         /\ chunks[1].events \in Seq(Records) /\ Rising(chunks[1].events)
         /\ \A e \in Range(chunks[1].events), u \in unanswered : e < u => e \in unanswered
         /\ Range(chunks[1].events) \subseteq Range(pending[1])
         /\ \E p \in [0 .. Len(chunks) -> 0 .. Len(pending[1])] :
              /\ Cuts(pending[1], chunks, p)
              /\ p[1] \in 1 .. Len(pending[1]) /\ chunks[1].consumed = p[1]
              /\ Len(chunks) = 1 <=> p[1] = Len(pending[1])
              /\ \E q \in 0 .. p[1] - 1 :
                   /\ chunks[1].events = SubSeq(pending[1], q + 1, p[1])
                   /\ Range(chunks[1].events) = {pending[1][k] : k \in q + 1 .. p[1]}
                   /\ \A k \in 1 .. q : TooOld(pending[1][k]) /\ pending[1][k] \in counted
<1> DEFINE b == pending[1]
           m == Len(chunks)
<1>1. LogTypeOK /\ InLine /\ Landing /\ CutUp /\ Lined(pending)
  BY DEF Way, Arrived, InLine
<1>2. pending # <<>> /\ m \in Nat \ {0} /\ DOMAIN chunks = 1 .. m /\ 1 \in DOMAIN chunks
  BY <1>1, SeqIs DEF CutUp, LogTypeOK
<1>3. b \in Seq(Records) /\ Rising(b) /\ Len(b) \in Nat /\ DOMAIN b = 1 .. Len(b)
  BY <1>1, <1>2, HeadBatch, SeqIs
<1>4. PICK p \in [0 .. m -> 0 .. Len(b)] : Cuts(b, chunks, p)
  BY <1>1 DEF CutUp
<1> DEFINE t == p[1]
           n == Len(b)
<1>5. 0 \in 0 .. m /\ 1 \in 0 .. m /\ m \in 0 .. m /\ 1 \in 1 .. m /\ 1 - 1 = 0 /\ 0 < 1
  BY <1>2
<1>6. /\ p[0] = 0 /\ p[m] = n /\ p[0] < t /\ t \in 0 .. n
      /\ 1 < m => t < n
      /\ Piece(b, chunks[1], p[1 - 1], t)
  BY <1>4, <1>5 DEF Cuts
<1>6a. m = 1 => t = n
  BY <1>6
<1>6b. n \in Nat /\ m \in Nat \ {0}
  BY <1>2, <1>3
<1> HIDE DEF b, m, t, n
<1>7. t \in 1 .. n /\ (m = 1 <=> t = n)
  <2>0. 0 < t /\ t \in 0 .. n /\ (1 < m => t < n)
    BY <1>6
  <2>1. t \in 1 .. n
    BY <1>6b, <2>0
  <2>2. m # 1 => t # n
    BY <1>6b, <2>0
  <2> QED BY <1>6a, <2>1, <2>2
<1>8. /\ chunks[1].consumed = t
      /\ \E q \in 0 .. t - 1 : /\ chunks[1].events = SubSeq(b, q + 1, t)
                               /\ \A k \in 1 .. q : TooOld(b[k]) /\ b[k] \in counted
  <2>1. p[1 - 1] = 0
    BY <1>5, <1>6
  <2>2. Piece(b, chunks[1], 0, t)
    BY <1>6, <2>1
  <2>3. t - 0 = t /\ 0 + 1 = 1
    BY <1>7
  <2> QED BY <2>2, <2>3 DEF Piece
<1>9. PICK q \in 0 .. t - 1 : /\ chunks[1].events = SubSeq(b, q + 1, t)
                              /\ \A k \in 1 .. q : TooOld(b[k]) /\ b[k] \in counted
  BY <1>8
<1> DEFINE x == q + 1
<1>10. x \in Nat \ {0} /\ t \in Nat /\ t <= n /\ q \in Nat
  BY <1>6b, <1>7, <1>9
<1> HIDE DEF x
<1>11. /\ SubSeq(b, x, t) \in Seq(Records) /\ Rising(SubSeq(b, x, t))
       /\ Range(SubSeq(b, x, t)) = {b[k] : k \in x .. t}
  BY <1>3, <1>10, SubIs, SubRises DEF n
<1>12. {b[k] : k \in x .. t} \subseteq Range(b)
  <2>1. \A k \in x .. t : k \in DOMAIN b
    <3>1. DOMAIN b = 1 .. n
      BY <1>3 DEF n
    <3> QED BY <1>6b, <1>10, <3>1
  <2> QED BY <1>3, <2>1, SeqIs
<1>13. \A e \in Range(chunks[1].events), u \in unanswered : e < u => e \in unanswered
  BY <1>1, <1>2 DEF CutUp, NoneAhead
<1> QED BY <1>2, <1>4, <1>7, <1>8, <1>9, <1>11, <1>12, <1>13 DEF b, m, t, x, n

(* What lands next.                                                        *)
LEMMA Lands ==
  ASSUME Way, NEW ev \in Seq(Records), Rising(ev), Range(ev) \subseteq Held,
         \A e \in Range(ev), u \in unanswered : e < u => e \in unanswered,
         landed' = landed \o ev, unanswered \subseteq unanswered'
  PROVE  /\ ResentOnlyUnanswered' /\ LandsInOrder' /\ landed' \in Seq(Records)
         /\ Range(landed') = Range(landed) \cup Range(ev)
<1>1. LogTypeOK /\ InLine /\ Landing /\ ResentOnlyUnanswered /\ LandsInOrder /\ landed \in Seq(Records)
  BY InLineIs DEF Way, Arrived
<1>2. landed' \in Seq(Records) /\ Range(landed') = Range(landed) \cup Range(ev)
  BY <1>1, ConcatRises
<1> DEFINE n == Len(landed)
<1>3. /\ n \in Nat /\ DOMAIN landed = 1 .. n /\ Len(ev) \in Nat /\ DOMAIN ev = 1 .. Len(ev)
      /\ \A i \in DOMAIN landed : landed[i] \in Range(landed) /\ landed[i] \in Nat
      /\ \A i \in DOMAIN ev : ev[i] \in Range(ev) /\ ev[i] \in Nat
  BY <1>1, SeqIs, ShipAssumed DEF Records
<1>4. /\ Len(landed') = n + Len(ev)
      /\ \A i \in 1 .. n + Len(ev) : landed'[i] = IF i <= n THEN landed[i] ELSE ev[i - n]
  BY <1>1, ConcatProperties
<1>5. DOMAIN landed' = 1 .. n + Len(ev)
  BY <1>2, <1>4, SeqIs
<1> HIDE DEF n
<1>6. ASSUME NEW i \in DOMAIN landed'
      PROVE  \/ i \in DOMAIN landed /\ landed'[i] = landed[i]
             \/ i > n /\ i - n \in DOMAIN ev /\ landed'[i] = ev[i - n]
  BY <1>3, <1>4, <1>5
<1>7. ASSUME NEW r \in Range(landed), NEW e \in Range(ev), e <= r, r \in Nat, e \in Nat
      PROVE  r \in unanswered /\ (e < r => e \in unanswered)
  <2>1. e \in Held /\ ~(r < e)
    BY <1>7
  <2>2. r \in unanswered
    BY <1>1, <2>1 DEF Landing
  <2> QED BY <2>2
<1>8. ASSUME NEW i \in DOMAIN landed', NEW j \in DOMAIN landed', i < j, landed'[j] <= landed'[i]
      PROVE  /\ landed'[j] < landed'[i] => landed'[j] \in unanswered
             /\ landed'[j] = landed'[i] => landed'[i] \in unanswered
  <2>0. i \in Nat /\ j \in Nat
    BY <1>3, <1>5
  <2>1. CASE i \in DOMAIN landed /\ j \in DOMAIN landed
    <3>1. landed'[i] = landed[i] /\ landed'[j] = landed[j]
      BY <1>3, <1>6, <2>1
    <3>2. landed[j] < landed[i] => landed[j] \in unanswered
      BY <1>1, <1>8, <2>1 DEF LandsInOrder
    <3>3. i # j
      BY <1>8, <2>0
    <3>4. landed[j] = landed[i] => landed[i] \in unanswered
      BY <1>1, <2>1, <3>3 DEF ResentOnlyUnanswered
    <3> QED BY <3>1, <3>2, <3>4
  <2>2. CASE i \in DOMAIN landed /\ j \notin DOMAIN landed
    <3>1. landed'[i] = landed[i] /\ j - n \in DOMAIN ev /\ landed'[j] = ev[j - n]
      BY <1>3, <1>6, <2>2
    <3> QED BY <1>3, <1>7, <1>8, <2>2, <3>1
  <2>3. CASE i \notin DOMAIN landed
    <3>1. i > n
      BY <1>6, <2>3
    <3>2. j \notin DOMAIN landed
      BY <1>3, <1>8, <2>0, <3>1
    <3>3. /\ i - n \in DOMAIN ev /\ landed'[i] = ev[i - n]
          /\ j - n \in DOMAIN ev /\ landed'[j] = ev[j - n]
      BY <1>6, <2>3, <3>2
    <3>4. i - n < j - n
      BY <1>3, <1>8, <2>0
    <3>5. landed'[i] < landed'[j]
      BY <3>3, <3>4 DEF Rising
    <3>6. landed'[i] \in Nat /\ landed'[j] \in Nat
      BY <1>3, <3>3
    <3> QED BY <1>8, <3>5, <3>6
  <2> QED BY <2>1, <2>2, <2>3
<1>9. \A i \in DOMAIN landed' : landed'[i] \in Nat /\ i \in Nat
  <2>1. \A i \in DOMAIN landed' : landed'[i] \in Records /\ i \in Nat
    BY <1>2, SeqIs
  <2>2. Records \subseteq Nat
    BY ShipAssumed DEF Records
  <2> QED BY <2>1, <2>2
<1>10. LandsInOrder'
  <2> SUFFICES ASSUME NEW i \in DOMAIN landed', NEW j \in DOMAIN landed', i < j, landed'[j] < landed'[i]
               PROVE  landed'[j] \in unanswered
    BY DEF LandsInOrder
  <2>1. landed'[j] <= landed'[i]
    BY <1>9
  <2> QED BY <1>8, <2>1
<1>11. ResentOnlyUnanswered'
  <2> SUFFICES ASSUME NEW i \in DOMAIN landed', NEW j \in DOMAIN landed', i # j, landed'[i] = landed'[j]
               PROVE  landed'[i] \in unanswered
    BY DEF ResentOnlyUnanswered
  <2>1. i < j \/ j < i
    BY <1>9
  <2>2. landed'[j] <= landed'[i] /\ landed'[i] <= landed'[j]
    BY <1>9
  <2> QED BY <1>8, <2>1, <2>2
<1> QED BY <1>2, <1>10, <1>11

(* What a call accounts for, when the records before it have left.         *)
LEMMA ShiftedPiece ==
  ASSUME NEW b \in Seq(Records), NEW n, n = Len(b), NEW t \in Nat \ {0}, t < n,
         NEW call, NEW F \in Nat, NEW T \in Nat, F < T, T <= n - t, Piece(b, call, F + t, T + t)
  PROVE  Piece(SubSeq(b, t + 1, n), call, F, T)
<1> DEFINE b2 == SubSeq(b, t + 1, n)
<1>1. n \in Nat
  BY SeqIs
<1>2. PICK q \in F + t .. (T + t) - 1 :
        /\ call.events = SubSeq(b, q + 1, T + t)
        /\ \A k \in (F + t) + 1 .. q : TooOld(b[k]) /\ b[k] \in counted
  BY DEF Piece
<1>3. call.consumed = T - F
  <2>1. call.consumed = (T + t) - (F + t)
    BY DEF Piece
  <2> QED BY <2>1
<1> DEFINE r == q - t
<1>4. r \in F .. T - 1 /\ q = r + t /\ r \in Nat
  BY <1>2
<1> HIDE DEF r
<1>5. \A k \in DOMAIN b2 : k \in Nat /\ b2[k] = b[k + t]
  <2> DEFINE x == t + 1
  <2>1. x \in Nat \ {0} /\ n <= Len(b)
    BY <1>1
  <2> HIDE DEF x
  <2>2. \A k \in DOMAIN SubSeq(b, x, n) : k \in Nat /\ SubSeq(b, x, n)[k] = b[x + k - 1]
    BY <1>1, <2>1, SubIs
  <2>3. \A k \in Nat : x + k - 1 = k + t
    BY DEF x
  <2> QED BY <2>2, <2>3 DEF x
<1>6. DOMAIN b2 = 1 .. n - t
  <2> DEFINE x == t + 1
  <2>1. x \in Nat \ {0} /\ n <= Len(b)
    BY <1>1
  <2> HIDE DEF x
  <2>2. SubSeq(b, x, n) \in Seq(Records) /\ Len(SubSeq(b, x, n)) = IF x <= n THEN n - x + 1 ELSE 0
    BY <1>1, <2>1, SubIs
  <2>3. (IF x <= n THEN n - x + 1 ELSE 0) = n - t
    BY <1>1 DEF x
  <2> QED BY <2>2, <2>3, SeqIs DEF x
<1>7. \A k \in F + 1 .. r : TooOld(b2[k]) /\ b2[k] \in counted
  <2> SUFFICES ASSUME NEW k \in F + 1 .. r PROVE TooOld(b2[k]) /\ b2[k] \in counted
    OBVIOUS
  <2>1. k \in 1 .. n - t /\ k + t \in (F + t) + 1 .. q
    BY <1>1, <1>4
  <2> QED BY <1>2, <1>5, <1>6, <2>1
<1>8. SubSeq(b2, r + 1, T) = SubSeq(b, q + 1, T + t)
  <2> DEFINE i == t + 1
             m == r + 1
  <2>1. i \in 1 .. Len(b) /\ n \in 1 .. Len(b) /\ m \in 1 .. n - i + 1 /\ T \in 1 .. n - i + 1
    BY <1>1, <1>4
  <2>2. i + m - 1 = q + 1 /\ i + T - 1 = T + t
    BY <1>4
  <2> HIDE DEF i, m
  <2>3. SubSeq(SubSeq(b, i, n), m, T) = SubSeq(b, i + m - 1, i + T - 1)
    BY <2>1, SubSeqOfSubSeq
  <2> QED BY <2>2, <2>3 DEF i, m
<1> QED BY <1>2, <1>3, <1>4, <1>7, <1>8 DEF Piece

LEMMA AcceptedWay ==
  ASSUME Way, PutAccepted
  PROVE  Way'
<1> DEFINE b == pending[1]
           n == Len(b)
           m == Len(chunks)
           ev == chunks[1].events
           E == Range(ev)
           rest == Tail(pending)
<1>1. /\ LogTypeOK /\ InLine /\ Landing /\ CutUp /\ Whole /\ Lined(pending) /\ NoneAhead
      /\ chunks # <<>>
  BY DEF Way, Arrived, InLine, CutUp, PutAccepted
<1>2. /\ pending # <<>> /\ m \in Nat \ {0} /\ ev \in Seq(Records) /\ Rising(ev)
      /\ \A e \in E, u \in unanswered : e < u => e \in unanswered
      /\ E \subseteq Range(b)
  BY <1>1, FirstCall
<1>3. PICK p \in [0 .. m -> 0 .. n] :
        /\ Cuts(b, chunks, p) /\ p[1] \in 1 .. n /\ chunks[1].consumed = p[1] /\ (m = 1 <=> p[1] = n)
        /\ \E q \in 0 .. p[1] - 1 : /\ ev = SubSeq(b, q + 1, p[1]) /\ E = {b[k] : k \in q + 1 .. p[1]}
                                    /\ \A k \in 1 .. q : TooOld(b[k]) /\ b[k] \in counted
  BY <1>1, FirstCall
<1> DEFINE t == p[1]
<1>4. PICK q \in 0 .. t - 1 : /\ ev = SubSeq(b, q + 1, t) /\ E = {b[k] : k \in q + 1 .. t}
                              /\ \A k \in 1 .. q : TooOld(b[k]) /\ b[k] \in counted
  BY <1>3
<1>5. /\ b \in Seq(Records) /\ n \in 1 .. BatchMax /\ n \in Nat /\ Rising(b) /\ DOMAIN b = 1 .. n
      /\ InBatches = Range(b) \cup InAll(rest) /\ Before(Range(b), InAll(rest))
      /\ Lined(rest) /\ Len(rest) = Len(pending) - 1
      /\ InAll(rest) = UNION {Range(pending[i]) : i \in DOMAIN pending \ {1}}
      /\ 1 \in DOMAIN pending /\ pending \in Seq(Seq(Records))
      /\ Len(pending) \in Nat /\ DOMAIN pending = 1 .. Len(pending)
  <2>1. /\ b \in Seq(Records) /\ n \in 1 .. BatchMax /\ Rising(b)
        /\ InBatches = Range(b) \cup InAll(rest) /\ Before(Range(b), InAll(rest))
        /\ Lined(rest) /\ Len(rest) = Len(pending) - 1 /\ 1 \in DOMAIN pending
        /\ InAll(rest) = UNION {Range(pending[i]) : i \in DOMAIN pending \ {1}}
    BY <1>1, <1>2, HeadBatch
  <2>2. pending \in Seq(Seq(Records))
    BY <1>1 DEF Lined
  <2>3. n \in Nat /\ DOMAIN b = 1 .. n /\ Len(pending) \in Nat /\ DOMAIN pending = 1 .. Len(pending)
    BY <2>1, <2>2, SeqIs
  <2> QED BY <2>1, <2>2, <2>3
<1> DEFINE b2 == SubSeq(b, t + 1, n)
<1>6. /\ UNCHANGED <<framed, queue, collector, transport, forwarder, current, disabled, backoff,
                     stopped, flushing, shutdown, unanswered, stale, cut>>
      /\ chunks' = Tail(chunks)
      /\ pending' = IF m = 1 THEN rest ELSE [pending EXCEPT ![1] = b2]
      /\ \E k \in {0, Len(ev)} : /\ landed' = landed \o SubSeq(ev, k + 1, Len(ev))
                                 /\ counted' = counted \cup Range(SubSeq(ev, 1, k))
  BY <1>3 DEF PutAccepted, Drained
<1>7. \/ landed' = landed \o ev /\ counted' = counted
      \/ landed' = landed \o <<>> /\ counted' = counted \cup E
  <2> DEFINE x == Len(ev)
  <2>1. x \in Nat /\ x <= Len(ev)
    BY <1>2, SeqIs
  <2>2. PICK k \in {0, x} : /\ landed' = landed \o SubSeq(ev, k + 1, x)
                            /\ counted' = counted \cup Range(SubSeq(ev, 1, k))
    BY <1>6
  <2>3. SubSeq(ev, 1, x) = ev
    BY <1>2, SubSeqFull
  <2> HIDE DEF x, ev
  <2>4. SubSeq(ev, x + 1, x) = <<>> /\ SubSeq(ev, 1, 0) = <<>>
    BY <2>1, SubSeqEmpty
  <2>5. Range(<<>>) = {} /\ 0 + 1 = 1
    BY DEF Range
  <2>6. CASE k = 0
    BY <2>2, <2>3, <2>4, <2>5, <2>6
  <2>7. CASE k = x
    BY <2>2, <2>3, <2>4, <2>7 DEF ev
  <2> QED BY <2>2, <2>6, <2>7
<1> HIDE DEF ev, E, m, t, n, b, rest, b2
(* What goes and what stays of the batch. *)
<1>8. t \in Nat \ {0} /\ t <= n /\ q \in Nat /\ (m # 1 => t < n)
  <2>1. t \in 1 .. n /\ (m = 1 <=> t = n)
    BY <1>3 DEF t
  <2> QED BY <1>4, <1>5, <2>1
<1>9. /\ b2 \in Seq(Records) /\ Rising(b2) /\ Len(b2) = n - t
      /\ Range(b2) = {b[k] : k \in t + 1 .. n}
      /\ \A k \in DOMAIN b2 : b2[k] = b[t + k]
  <2> DEFINE x == t + 1
  <2>1. x \in Nat \ {0} /\ n \in Nat /\ n <= Len(b)
    BY <1>5, <1>8 DEF n
  <2> HIDE DEF x
  <2>2. /\ SubSeq(b, x, n) \in Seq(Records) /\ Len(SubSeq(b, x, n)) = IF x <= n THEN n - x + 1 ELSE 0
        /\ \A k \in DOMAIN SubSeq(b, x, n) : k \in Nat /\ SubSeq(b, x, n)[k] = b[x + k - 1]
        /\ Range(SubSeq(b, x, n)) = {b[k] : k \in x .. n}
    <3> HIDE DEF n
    <3>1. b \in Seq(Records)
      BY <1>5
    <3>2. /\ SubSeq(b, x, n) \in Seq(Records) /\ Len(SubSeq(b, x, n)) = IF x <= n THEN n - x + 1 ELSE 0
          /\ \A k \in DOMAIN SubSeq(b, x, n) : k \in Nat /\ x + k - 1 \in DOMAIN b
                                                /\ SubSeq(b, x, n)[k] = b[x + k - 1]
          /\ Range(SubSeq(b, x, n)) = {b[k] : k \in x .. n}
      BY <2>1, <3>1, SubIs
    <3> QED BY <3>2
  <2>7. Rising(SubSeq(b, x, n))
    BY <1>5, <2>1, SubRises
  <2>3. (IF x <= n THEN n - x + 1 ELSE 0) = n - t
    BY <1>5, <1>8 DEF x
  <2>4. \A k \in Nat : x + k - 1 = t + k
    BY <1>8 DEF x
  <2>5. b2 = SubSeq(b, x, n)
    BY DEF b2, x
  <2> HIDE DEF n
  <2>6. \A k \in DOMAIN b2 : b2[k] = b[t + k]
    BY <2>2, <2>4, <2>5
  <2> QED BY <2>2, <2>3, <2>5, <2>6, <2>7 DEF x
<1>10. /\ Range(b2) \subseteq Range(b) /\ Range(b) \subseteq Range(b2) \cup E \cup counted
       /\ \A e \in E, h \in Range(b2) : e < h
  <2>1. \A k \in t + 1 .. n : k \in DOMAIN b
    BY <1>5, <1>8
  <2>2. Range(b2) \subseteq Range(b)
    BY <1>5, <1>9, <2>1, SeqIs
  <2>3. \A k \in DOMAIN b : k \in 1 .. q \/ k \in q + 1 .. t \/ k \in t + 1 .. n
    BY <1>4, <1>5, <1>8
  <2>4. Range(b) \subseteq Range(b2) \cup E \cup counted
    <3>1. ASSUME NEW k \in DOMAIN b PROVE b[k] \in Range(b2) \cup E \cup counted
      <4>1. k \in 1 .. q => b[k] \in counted
        BY <1>4
      <4>2. k \in q + 1 .. t => b[k] \in E
        BY <1>4
      <4>3. k \in t + 1 .. n => b[k] \in Range(b2)
        BY <1>9
      <4> QED BY <2>3, <4>1, <4>2, <4>3
    <3>2. \A x \in Range(b) : \E k \in DOMAIN b : x = b[k]
      BY <1>5, SeqIs
    <3> QED BY <3>1, <3>2
  <2>5. \A k \in q + 1 .. t, j \in t + 1 .. n : k \in DOMAIN b /\ j \in DOMAIN b /\ k < j
    BY <1>5, <1>8
  <2>6. \A e \in E, h \in Range(b2) : e < h
    <3> SUFFICES ASSUME NEW e \in E, NEW h \in Range(b2) PROVE e < h
      OBVIOUS
    <3>1. PICK k \in q + 1 .. t : e = b[k]
      BY <1>4
    <3>2. PICK j \in t + 1 .. n : h = b[j]
      BY <1>9
    <3> QED BY <1>5, <2>5, <3>1, <3>2 DEF Rising
  <2> QED BY <2>2, <2>4, <2>6
<1>11. /\ Lined(pending') /\ Len(pending') <= MaxPending
       /\ InBatches' \subseteq InBatches /\ InBatches \subseteq InBatches' \cup E \cup counted
       /\ \A e \in E, h \in InBatches' : e < h
       /\ m # 1 => pending'[1] = b2 /\ pending' # <<>>
  <2>0. Len(pending) <= MaxPending /\ MaxPending \in Nat
    BY <1>1, ShipAssumed DEF LogTypeOK
  <2>1. CASE m = 1
    <3>1. InBatches' = InAll(rest) /\ pending' = rest
      BY <1>6, <2>1, HoldsAll
    <3>2. Range(b2) = {}
      <4>1. t = n
        BY <1>3, <2>1 DEF t
      <4> QED BY <1>5, <1>8, <1>9, <4>1
    <3>3. \A e \in E, h \in InAll(rest) : e < h
      BY <1>2, <1>5 DEF Before
    <3>4. Len(pending') <= MaxPending
      BY <1>5, <2>0, <3>1
    <3>5. InBatches' \subseteq InBatches /\ InBatches \subseteq InBatches' \cup E \cup counted
      BY <1>5, <1>10, <3>1, <3>2
    <3> QED BY <1>5, <2>1, <3>1, <3>3, <3>4, <3>5
  <2>2. CASE m # 1
    <3>1. pending' = [pending EXCEPT ![1] = b2]
      BY <1>6, <2>2
    <3>2. /\ DOMAIN pending' = DOMAIN pending /\ Len(pending') = Len(pending)
          /\ pending'[1] = b2 /\ \A i \in DOMAIN pending : i # 1 => pending'[i] = pending[i]
          /\ pending' \in Seq(Seq(Records))
      BY <1>5, <1>9, <3>1
    <3>3. Len(b2) \in 1 .. BatchMax
      <4> DEFINE d == Len(b2)
      <4>1. d = n - t /\ n \in Nat /\ n <= BatchMax /\ BatchMax \in Nat /\ t < n /\ t \in Nat
        BY <1>5, <1>8, <1>9, <2>2, ShipAssumed
      <4> HIDE DEF d
      <4>2. d \in 1 .. BatchMax
        BY <4>1
      <4> QED BY <4>2 DEF d
    <3>4. \A i \in DOMAIN pending' : Range(pending'[i]) \subseteq Range(pending[i])
      <4>1. Range(pending'[1]) \subseteq Range(pending[1])
        BY <1>10, <3>2 DEF b
      <4>2. ASSUME NEW i \in DOMAIN pending, i # 1 PROVE Range(pending'[i]) \subseteq Range(pending[i])
        BY <3>2, <4>2
      <4> QED BY <3>2, <4>1, <4>2
    <3>5. Lined(pending')
      <4>1. \A i \in DOMAIN pending' : Len(pending'[i]) \in 1 .. BatchMax /\ Rising(pending'[i])
        BY <1>1, <1>9, <3>2, <3>3 DEF Lined
      <4>2. \A i, j \in DOMAIN pending' : i < j => Before(Range(pending'[i]), Range(pending'[j]))
        BY <1>1, <3>2, <3>4 DEF Lined, Before
      <4> QED BY <3>2, <4>1, <4>2 DEF Lined
    <3>7. InBatches' = Range(b2) \cup InAll(rest)
      <4>1. InAll(pending') = Range(pending'[1]) \cup UNION {Range(pending'[i]) : i \in DOMAIN pending' \ {1}}
        BY <1>5, <3>2 DEF InAll
      <4>2. UNION {Range(pending'[i]) : i \in DOMAIN pending' \ {1}} = InAll(rest)
        BY <1>5, <3>2
      <4> QED BY <3>2, <4>1, <4>2, HoldsAll
    <3>8. \A e \in E, h \in InAll(rest) : e < h
      BY <1>2, <1>5 DEF Before
    <3> QED BY <1>5, <1>10, <2>0, <3>2, <3>5, <3>7, <3>8
  <2> QED BY <2>1, <2>2
<1>12. InLine' /\ Held' \subseteq Held /\ Held \subseteq Held' \cup E \cup counted
  <2>1. InLine' /\ Held' \subseteq Held
    BY <1>1, <1>6, <1>11, ShrinkInLine
  <2> QED BY <1>6, <1>11, <2>1, HoldsAll
<1>13. E \subseteq Held /\ \A e \in E, h \in Held' : e < h
  <2>1. E \subseteq InBatches
    BY <1>2, <1>5
  <2>2. \A e \in E, h \in Range(queue) \cup Range(transport) \cup Range(current) : e < h
    BY <1>1, <2>1 DEF InLine, Before
  <2> QED BY <1>6, <1>11, <2>1, <2>2, HoldsAll
(* What landed. *)
<1>14. /\ ResentOnlyUnanswered' /\ LandsInOrder' /\ landed' \in Seq(Records)
       /\ Range(landed) \subseteq Range(landed') /\ Range(landed') \subseteq Range(landed) \cup E
       /\ E \subseteq Range(landed') \cup counted' /\ counted \subseteq counted'
       /\ counted' \subseteq counted \cup E
  <2>1. CASE landed' = landed \o ev /\ counted' = counted
    <3>1. /\ ResentOnlyUnanswered' /\ LandsInOrder' /\ landed' \in Seq(Records)
          /\ Range(landed') = Range(landed) \cup Range(ev)
      BY <1>2, <1>6, <1>13, <2>1, Lands DEF E
    <3> QED BY <2>1, <3>1 DEF E
  <2>2. CASE landed' = landed \o <<>> /\ counted' = counted \cup E
    <3>1. <<>> \in Seq(Records) /\ Rising(<<>>) /\ Range(<<>>) = {}
      BY DEF Rising, Range
    <3>2. /\ ResentOnlyUnanswered' /\ LandsInOrder' /\ landed' \in Seq(Records)
          /\ Range(landed') = Range(landed) \cup Range(<<>>)
      BY <1>6, <2>2, <3>1, Lands
    <3> QED BY <2>2, <3>1, <3>2
  <2> QED BY <1>7, <2>1, <2>2
<1>15. Landing'
  <2>1. unanswered' \subseteq Range(landed')
    BY <1>1, <1>6, <1>14 DEF Landing
  <2>2. \A r \in Range(landed') : r <= framed'
    BY <1>1, <1>6, <1>13, <1>14 DEF Landing, InLine
  <2>3. \A r \in Range(landed') : r \in unanswered' \/ \A h \in Held' : r < h
    BY <1>1, <1>6, <1>12, <1>13, <1>14 DEF Landing
  <2>4. \A u \in unanswered', h \in Held' : h < u => h \in unanswered' \/ TooOld(h)'
    BY <1>1, <1>6, <1>12 DEF Landing, TooOld
  <2> QED BY <2>1, <2>2, <2>3, <2>4 DEF Landing
<1>16. Whole'
  <2>1. Held \cup Range(landed) \cup counted \subseteq Held' \cup Range(landed') \cup counted'
    BY <1>12, <1>14
  <2> QED BY <1>1, <1>6, <2>1, WholeKept
(* The calls that are left. *)
<1>17. /\ chunks \in Seq([consumed : 1 .. BatchMax, events : Seq(Records)])
       /\ chunks' \in Seq([consumed : 1 .. BatchMax, events : Seq(Records)])
       /\ Len(chunks') = m - 1 /\ DOMAIN chunks' = 1 .. m - 1 /\ DOMAIN chunks = 1 .. m
       /\ \A i \in DOMAIN chunks' : i + 1 \in DOMAIN chunks /\ chunks'[i] = chunks[i + 1]
  <2> DEFINE B == [consumed : 1 .. BatchMax, events : Seq(Records)]
  <2>1. chunks \in Seq(B)
    BY <1>1 DEF LogTypeOK
  <2> HIDE DEF B
  <2>2. /\ chunks' \in Seq(B) /\ Len(chunks') = m - 1
        /\ \A i \in 1 .. Len(chunks') : chunks'[i] = chunks[i + 1]
    BY <1>1, <1>6, <2>1, HeadTailProperties DEF m
  <2>3. DOMAIN chunks' = 1 .. m - 1 /\ DOMAIN chunks = 1 .. m
    BY <2>1, <2>2, SeqIs DEF m
  <2>4. \A i \in 1 .. m - 1 : i + 1 \in 1 .. m
    BY <1>2
  <2> QED BY <2>1, <2>2, <2>3, <2>4 DEF B
<1>18. NoneAhead'
  BY <1>1, <1>6, <1>17 DEF NoneAhead
<1>19. ASSUME chunks' # <<>>
       PROVE  /\ pending' # <<>>
              /\ \E f \in [0 .. Len(chunks') -> 0 .. Len(pending'[1])] : Cuts(pending[1], chunks, f)'
  <2>1. m # 1 /\ m \in Nat \ {0} /\ m - 1 \in Nat /\ Len(chunks') = m - 1 /\ pending' # <<>> /\ pending'[1] = b2
    <3>1. m # 1
      BY <1>17, <1>19, SeqIs
    <3> QED BY <1>2, <1>11, <1>17, <3>1
  <2>0. PICK f : f = [i \in 0 .. m - 1 |-> p[i + 1] - t]
    OBVIOUS
  <2>2. /\ Len(b2) = n - t /\ Len(b2) \in Nat /\ n \in Nat /\ t \in Nat /\ t < n
        /\ \A i \in 0 .. m : p[i] \in 0 .. n
        /\ \A i, j \in 0 .. m : i < j => p[i] < p[j]
        /\ p[m] = n
    <3>1. Len(b2) = n - t /\ n \in Nat /\ t \in Nat /\ t < n
      BY <1>5, <1>8, <1>9, <2>1
    <3>2. /\ \A i, j \in 0 .. m : i < j => p[i] < p[j]
          /\ p[m] = n
      BY <1>3 DEF Cuts, m, n
    <3>3. n - t \in Nat
      BY <3>1
    <3> QED BY <3>1, <3>2, <3>3
  <2>3. \A i \in 0 .. m - 1 : i + 1 \in 0 .. m /\ (i = 0 \/ 1 < i + 1) /\ 1 \in 0 .. m
    BY <2>1
  <2>4. \A i \in 0 .. m - 1 : p[i + 1] \in t .. n
    BY <2>2, <2>3 DEF t
  <2>5. ASSUME NEW i \in 0 .. m - 1 PROVE f[i] = p[i + 1] - t /\ f[i] \in 0 .. n - t /\ p[i + 1] = f[i] + t
    <3> DEFINE x == p[i + 1]
    <3>1. x \in t .. n
      BY <2>4
    <3>2. f[i] = x - t
      BY <2>0
    <3> HIDE DEF x
    <3> QED BY <2>2, <3>1, <3>2 DEF x
  <2>6. f \in [0 .. m - 1 -> 0 .. n - t]
    <3>1. f = [i \in 0 .. m - 1 |-> f[i]]
      BY <2>0
    <3> QED BY <2>5, <3>1
  <2>7. f[0] = 0 /\ f[m - 1] = n - t
    <3>1. 0 \in 0 .. m - 1 /\ m - 1 \in 0 .. m - 1 /\ 0 + 1 = 1 /\ (m - 1) + 1 = m
      BY <2>1, <2>3, <1>2
    <3>2. f[0] = p[1] - t /\ f[m - 1] = p[m] - t
      BY <2>5, <3>1
    <3> QED BY <2>2, <3>2 DEF t
  <2>8. ASSUME NEW i \in 0 .. m - 1, NEW j \in 0 .. m - 1, i < j PROVE f[i] < f[j]
    <3>1. i + 1 < j + 1 /\ i + 1 \in 0 .. m /\ j + 1 \in 0 .. m
      BY <2>1, <2>3, <2>8
    <3> DEFINE x == p[i + 1]
               y == p[j + 1]
    <3>2. x < y /\ x \in 0 .. n /\ y \in 0 .. n
      BY <2>2, <3>1
    <3>3. f[i] = x - t /\ f[j] = y - t
      BY <2>5
    <3> HIDE DEF x, y
    <3> QED BY <2>2, <3>2, <3>3
  <2>9. ASSUME NEW i \in 1 .. m - 1 PROVE Piece(pending[1], chunks[i], f[i - 1], f[i])'
    <3> DEFINE F == f[i - 1]
               T == f[i]
               call == chunks[i + 1]
    <3>1. i \in 0 .. m - 1 /\ i - 1 \in 0 .. m - 1 /\ (i - 1) + 1 = i /\ i + 1 \in 1 .. m /\ (i + 1) - 1 = i
          /\ i - 1 < i
      BY <2>1
    <3>2. F \in 0 .. n - t /\ T \in 0 .. n - t /\ F < T /\ p[i] = F + t /\ p[i + 1] = T + t
      BY <2>5, <2>8, <3>1
    <3>3. Piece(b, call, p[i], p[i + 1])
      BY <1>3, <3>1 DEF Cuts, m
    <3>4. chunks'[i] = call
      BY <1>17
    <3> HIDE DEF F, T, call
    <3>5. F \in Nat /\ T \in Nat /\ T <= n - t /\ t \in Nat \ {0} /\ t < n
      BY <1>8, <2>1, <2>2, <3>2
    <3>6. Piece(b, call, F + t, T + t) /\ b \in Seq(Records) /\ n = Len(b)
      BY <1>5, <3>2, <3>3 DEF n
    <3>7. Piece(b2, call, F, T)
      BY <3>2, <3>5, <3>6, ShiftedPiece DEF b2
    <3>8. Piece(pending'[1], chunks'[i], F, T)
      BY <2>1, <3>4, <3>7
    <3>9. counted \subseteq counted' /\ stale' = stale
      BY <1>6, <1>14
    <3>10. Piece(pending[1], chunks[i], F, T)'
      BY <3>8, <3>9 DEF Piece, TooOld
    <3> QED BY <3>10 DEF F, T
  <2>10. Cuts(pending[1], chunks, f)' /\ f \in [0 .. Len(chunks') -> 0 .. Len(pending'[1])]
    <3>1. Len(chunks') = m - 1 /\ Len(pending'[1]) = n - t
      BY <2>1, <2>2
    <3> QED BY <2>6, <2>7, <2>8, <2>9, <3>1 DEF Cuts
  <2> QED BY <2>1, <2>10
<1>20. CutUp'
  BY <1>18, <1>19 DEF CutUp
<1>21. LogTypeOK'
  <2>1. counted' \subseteq Records
    BY <1>1, <1>2, <1>5, <1>14, SeqIs DEF LogTypeOK
  <2> QED BY <1>1, <1>6, <1>11, <1>14, <1>17, <2>1, PendingIs DEF LogTypeOK
<1> QED BY <1>12, <1>14, <1>15, <1>16, <1>20, <1>21 DEF Way, Arrived

LEMMA FailsWay ==
  ASSUME Way, PutFails
  PROVE  Way'
<1> DEFINE b == pending[1]
           ev == chunks[1].events
           E == Range(ev)
<1>1. /\ LogTypeOK /\ InLine /\ Landing /\ CutUp /\ Whole /\ Lined(pending) /\ chunks # <<>>
  BY DEF Way, Arrived, InLine, PutFails
<1>2. /\ UNCHANGED <<framed, queue, collector, transport, current, pending, disabled, stopped, flushing,
                     shutdown, stale, counted>>
      /\ chunks' = <<>> /\ backoff' = TRUE /\ forwarder' = "waits" /\ cut' = TRUE
      /\ \/ UNCHANGED <<landed, unanswered>>
         \/ landed' = landed \o ev /\ unanswered' = unanswered \cup E
  BY DEF PutFails
<1>3. <<>> \in Seq([consumed : 1 .. BatchMax, events : Seq(Records)])
  OBVIOUS
<1>4. CASE UNCHANGED <<landed, unanswered>>
  <2>1. LogTypeOK'
    BY <1>1, <1>2, <1>3, <1>4 DEF LogTypeOK
  <2>2. stale \in Nat /\ stale <= stale'
    BY <1>1, <1>2, InLineIs
  <2> QED BY <1>2, <1>4, <2>1, <2>2, StillWay
<1>5. CASE landed' = landed \o ev /\ unanswered' = unanswered \cup E
  <2>1. /\ pending # <<>> /\ ev \in Seq(Records) /\ Rising(ev)
        /\ \A e \in E, u \in unanswered : e < u => e \in unanswered
        /\ E \subseteq Range(b)
    BY <1>1, FirstCall
  <2>2. PICK t \in Nat, q \in Nat :
           /\ t <= Len(b) /\ q < t /\ E = {b[k] : k \in q + 1 .. t}
           /\ \A k \in 1 .. q : TooOld(b[k])
    <3>1. PICK p \in [0 .. Len(chunks) -> 0 .. Len(b)] :
            /\ p[1] \in 1 .. Len(b)
            /\ \E q \in 0 .. p[1] - 1 : /\ E = {b[k] : k \in q + 1 .. p[1]}
                                        /\ \A k \in 1 .. q : TooOld(b[k]) /\ b[k] \in counted
      BY <1>1, FirstCall
    <3> DEFINE t == p[1]
    <3>2. t \in 1 .. Len(b)
      BY <3>1
    <3>3. PICK q \in 0 .. t - 1 : /\ E = {b[k] : k \in q + 1 .. t}
                                  /\ \A k \in 1 .. q : TooOld(b[k]) /\ b[k] \in counted
      BY <3>1
    <3>4. Len(b) \in Nat
      BY <1>1, <2>1, HeadBatch, SeqIs
    <3> HIDE DEF t, E, b
    <3>5. t \in Nat /\ q \in Nat /\ t <= Len(b) /\ q < t
      BY <3>2, <3>3, <3>4
    <3> QED BY <3>3, <3>5 DEF b
  <2>3. /\ b \in Seq(Records) /\ Rising(b) /\ DOMAIN b = 1 .. Len(b) /\ Len(b) \in Nat
        /\ InBatches = Range(b) \cup InAll(Tail(pending)) /\ Before(Range(b), InAll(Tail(pending)))
    BY <1>1, <2>1, HeadBatch, SeqIs
  <2> HIDE DEF b, ev, E
  <2>4. Held' = Held /\ InBatches' = InBatches /\ E \subseteq Held
    BY <1>2, <2>1, <2>3, HoldsAll
  <2>5. /\ ResentOnlyUnanswered' /\ LandsInOrder' /\ landed' \in Seq(Records)
        /\ Range(landed') = Range(landed) \cup E
    BY <1>5, <2>1, <2>4, Lands DEF E
  (* What is ahead of a record of the call is stale, or in the call too. *)
  <2>6. ASSUME NEW u \in E, NEW h \in Held, h < u PROVE h \in E \/ TooOld(h)
    <3>1. u \in Range(b) /\ u \in InBatches
      BY <2>1, <2>3
    <3>2. u \in Nat /\ h \in Nat
      BY <1>1, <2>4, HeldTyped
    <3>3. h \in Range(b)
      <4>1. \A x \in InAll(Tail(pending)) \cup Range(queue) \cup Range(transport) \cup Range(current) : u < x
        BY <1>1, <2>3, <3>1 DEF InLine, Before
      <4> QED BY <2>3, <2>6, <3>2, <4>1, HoldsAll
    <3>4. PICK k \in q + 1 .. t : u = b[k]
      BY <2>2
    <3>5. PICK j \in DOMAIN b : h = b[j]
      BY <2>3, <3>3, SeqIs
    <3>6. k \in DOMAIN b /\ j \in Nat /\ k \in Nat
      BY <2>2, <2>3
    <3>7. j < k
      <4>1. ~(j = k)
        BY <2>6, <3>2, <3>4, <3>5
      <4>2. ~(k < j)
        <5>1. k < j => b[k] < b[j]
          BY <2>3, <3>6 DEF Rising
        <5> QED BY <2>6, <3>2, <3>4, <3>5, <5>1
      <4> QED BY <3>6, <4>1, <4>2
    <3>8. j \in 1 .. q \/ j \in q + 1 .. t
      BY <2>2, <2>3, <3>7
    <3> QED BY <2>2, <3>5, <3>8
  <2>7. Landing'
    <3>1. unanswered' \subseteq Range(landed')
      BY <1>1, <1>5, <2>5 DEF Landing
    <3>2. \A r \in Range(landed') : r <= framed'
      BY <1>1, <1>2, <2>4, <2>5 DEF Landing, InLine
    <3>3. \A r \in Range(landed') : r \in unanswered' \/ \A h \in Held' : r < h
      BY <1>1, <1>5, <2>4, <2>5 DEF Landing
    <3>4. \A u \in unanswered', h \in Held' : h < u => h \in unanswered' \/ TooOld(h)'
      BY <1>1, <1>2, <1>5, <2>4, <2>6 DEF Landing, TooOld
    <3> QED BY <3>1, <3>2, <3>3, <3>4 DEF Landing
  <2>8. CutUp'
    BY <1>2 DEF CutUp, NoneAhead
  <2>9. Whole'
    BY <1>1, <1>2, <2>4, <2>5, WholeKept
  <2>10. InLine'
    BY <1>1, <1>2, <2>4 DEF InLine, Lined
  <2>11. LogTypeOK'
    <3>1. unanswered' \subseteq Records
      BY <1>1, <1>5, <2>1, SeqIs DEF LogTypeOK, E
    <3> QED BY <1>1, <1>2, <1>3, <2>5, <3>1 DEF LogTypeOK
  <2> QED BY <2>5, <2>7, <2>8, <2>9, <2>10, <2>11 DEF Way, Arrived
<1> QED BY <1>2, <1>4, <1>5

LEMMA RefusedWay ==
  ASSUME Way, PutRefused
  PROVE  Way'
<1>1. /\ LogTypeOK /\ InLine /\ Landing /\ CutUp /\ Whole /\ Lined(pending)
  BY DEF Way, Arrived, InLine
<1>2. /\ UNCHANGED <<framed, queue, collector, transport, current, backoff, stopped, flushing, shutdown,
                     landed, unanswered, stale>>
      /\ chunks' = <<>> /\ forwarder' = "waits" /\ cut' = TRUE
      /\ \/ UNCHANGED <<disabled, counted, pending>>
         \/ disabled' = TRUE /\ counted' = counted \cup InBatches /\ pending' = <<>>
  BY DEF PutRefused, far
<1>3. <<>> \in Seq([consumed : 1 .. BatchMax, events : Seq(Records)])
  OBVIOUS
<1>4. CASE UNCHANGED <<disabled, counted, pending>>
  <2>1. LogTypeOK'
    BY <1>1, <1>2, <1>3, <1>4 DEF LogTypeOK
  <2>2. stale \in Nat /\ stale <= stale'
    BY <1>1, <1>2, InLineIs
  <2> QED BY <1>2, <1>4, <2>1, <2>2, StillWay
<1>5. CASE disabled' = TRUE /\ counted' = counted \cup InBatches /\ pending' = <<>>
  <2>1. pending' \in Seq(Seq(Records)) /\ DOMAIN pending' = {} /\ Len(pending') = 0
    BY <1>5
  <2>2. Lined(pending') /\ InBatches' = {}
    BY <2>1 DEF Lined, InBatches
  <2>3. InLine' /\ Held' \subseteq Held
    BY <1>1, <1>2, <2>2, ShrinkInLine
  <2>4. Landing'
    <3>1. stale \in Nat /\ framed \in Nat
      BY <1>1, HeldTyped
    <3> QED BY <1>1, <1>2, <2>3, <3>1, LandingKept
  <2>5. CutUp'
    BY <1>2 DEF CutUp, NoneAhead
  <2>6. Whole'
    <3>1. Held \cup Range(landed) \cup counted \subseteq Held' \cup Range(landed') \cup counted'
      BY <1>2, <1>5, HoldsAll
    <3> QED BY <1>1, <1>2, <3>1, WholeKept
  <2>7. LogTypeOK'
    <3>1. counted' \subseteq Records
      BY <1>1, <1>5, HeldTyped, HoldsAll DEF LogTypeOK
    <3>2. Len(pending') <= MaxPending
      BY <2>1, ShipAssumed
    <3> QED BY <1>1, <1>2, <1>3, <1>5, <2>1, <3>1, <3>2 DEF LogTypeOK
  <2> QED BY <1>2, <2>3, <2>4, <2>5, <2>6, <2>7 DEF Way, Arrived, ResentOnlyUnanswered, LandsInOrder
<1> QED BY <1>2, <1>4, <1>5

(* What only moves a task or main.                                         *)
Turning == \/ Drain \/ CollectorEnds \/ BackoffEnds \/ AttemptDue \/ Delivered
           \/ FinalFlush \/ ForwarderEnds \/ Shutdown \/ DrainDeadline \/ Age

LEMMA TurningWay ==
  ASSUME Way, Turning
  PROVE  Way'
<1>1. LogTypeOK /\ stale \in Nat /\ framed \in Records /\ MaxRecords \in Nat
  BY InLineIs, ShipAssumed DEF Way, Arrived, LogTypeOK
<1>2. /\ UNCHANGED <<framed, queue, transport, current, pending, landed, unanswered, chunks, counted>>
      /\ stale' = stale \/ (stale < framed /\ stale' = stale + 1)
  BY DEF Turning, Drain, CollectorEnds, BackoffEnds, AttemptDue, Delivered, FinalFlush, ForwarderEnds,
         Shutdown, DrainDeadline, Age, held, far
<1>3. stale <= stale' /\ stale' \in Records
  <2>1. CASE stale' = stale
    BY <1>1, <2>1 DEF LogTypeOK
  <2>2. CASE stale < framed /\ stale' = stale + 1
    BY <1>1, <2>2 DEF Records
  <2> QED BY <1>2, <2>1, <2>2
<1>4. /\ collector' \in {"runs", "drains", "ended"} /\ forwarder' \in {"waits", "delivers", "ended"}
      /\ {disabled', backoff', stopped', flushing', cut'} \subseteq BOOLEAN
      /\ shutdown' \in {"serving", "collector", "forwarder", "stopped"}
  BY <1>1 DEF LogTypeOK, Turning, Drain, CollectorEnds, BackoffEnds, AttemptDue, Delivered, FinalFlush,
         ForwarderEnds, Shutdown, DrainDeadline, Age
<1>5. LogTypeOK'
  BY <1>1, <1>2, <1>3, <1>4 DEF LogTypeOK
<1> QED BY <1>2, <1>3, <1>5, StillWay

LEMMA WayStep ==
  ASSUME ShipInv, LogNext
  PROVE  Way'
<1>1. Way /\ LogTypeOK
  BY DEF ShipInv, Way, Arrived
<1>2. CASE LineFramed
  <2>1. LogTypeOK'
    <3>1. /\ UNCHANGED <<collector, transport, forwarder, current, pending, chunks, disabled, backoff,
                         stopped, flushing, shutdown, landed, unanswered, stale, cut>>
          /\ framed < MaxRecords /\ framed' = framed + 1
          /\ queue' = queue \/ queue' = Append(queue, framed')
          /\ counted' = counted \/ counted' = counted \cup {framed'}
      BY <1>2 DEF LineFramed, held, far
    <3>2. framed' \in Records
      BY <1>1, <3>1, ShipAssumed DEF LogTypeOK, Records
    <3>3. queue' \in Seq(Records)
      <4> DEFINE e == framed'
      <4>1. e \in Records /\ queue \in Seq(Records)
        BY <1>1, <3>2 DEF LogTypeOK
      <4>2. queue' = queue \/ queue' = Append(queue, e)
        BY <3>1
      <4> HIDE DEF e
      <4> QED BY <4>1, <4>2
    <3>4. counted' \subseteq Records
      BY <1>1, <3>1, <3>2 DEF LogTypeOK
    <3> QED BY <1>1, <3>1, <3>2, <3>3, <3>4 DEF LogTypeOK
  <2> QED BY <1>1, <1>2, <2>1, LineFramedWay
<1>3. CASE Collect
  <2>1. LogTypeOK'
    <3>1. /\ UNCHANGED <<framed, collector, forwarder, current, pending, chunks, disabled, backoff,
                         stopped, flushing, shutdown, landed, unanswered, stale, cut>>
          /\ queue # <<>> /\ queue' = Tail(queue)
          /\ transport' = transport \/ transport' = Append(transport, Head(queue))
          /\ counted' = counted \/ counted' = counted \cup {Head(queue)}
      BY <1>3 DEF Collect, Emit, held, far
    <3>2. Head(queue) \in Records /\ queue' \in Seq(Records)
      BY <1>1, <3>1, InLineIs, TailRises
    <3>3. transport' \in Seq(Records)
      <4> DEFINE h == Head(queue)
      <4>1. h \in Records /\ transport \in Seq(Records)
        BY <1>1, <3>2 DEF LogTypeOK
      <4>2. transport' = transport \/ transport' = Append(transport, h)
        BY <3>1
      <4> HIDE DEF h
      <4> QED BY <4>1, <4>2
    <3>4. counted' \subseteq Records
      BY <1>1, <3>1, <3>2 DEF LogTypeOK
    <3> QED BY <1>1, <3>1, <3>2, <3>3, <3>4 DEF LogTypeOK
  <2> QED BY <1>1, <1>3, <2>1, CollectWay
<1>4. CASE Receive \/ LingerExpires \/ StopForwarder
  BY <1>4, RoundWay
<1>5. CASE OpenBatch
  BY <1>1, <1>5, OpenWay
<1>6. CASE PutAccepted
  BY <1>1, <1>6, AcceptedWay
<1>7. CASE PutFails
  BY <1>1, <1>7, FailsWay
<1>8. CASE PutRefused
  BY <1>1, <1>8, RefusedWay
<1>9. CASE Turning
  BY <1>1, <1>9, TurningWay
<1> QED BY <1>2, <1>3, <1>4, <1>5, <1>6, <1>7, <1>8, <1>9 DEF LogNext, Collecting, Forwarding, Turning

LEMMA SettledStep ==
  ASSUME ShipInv, LogNext, Way'
  PROVE  Settled'
<1>1. Way /\ LogTypeOK /\ CutUp /\ Settled
  BY DEF ShipInv, Way, Arrived
<1>2. CASE LineFramed
  BY <1>1, <1>2 DEF Settled, LineFramed, held, far, LogTypeOK
<1>3. CASE Collect
  <2>1. /\ UNCHANGED <<collector, forwarder, current, pending, chunks, disabled, stopped, flushing, shutdown, cut>>
        /\ collector # "ended"
    BY <1>3 DEF Collect, held
  <2> QED BY <1>1, <2>1 DEF Settled
<1>4. CASE Receive \/ LingerExpires
  <2>1. /\ forwarder = "waits" /\ ~stopped
        /\ UNCHANGED <<queue, collector, chunks, disabled, stopped, flushing, shutdown, cut>>
        /\ forwarder' \in {"waits", "delivers"}
    BY <1>4 DEF Receive, LingerExpires, Proceed
  <2> QED BY <1>1, <2>1 DEF Settled
<1>5. CASE StopForwarder
  <2>1. /\ forwarder = "waits" /\ ~stopped /\ shutdown = "forwarder" /\ stopped' = TRUE
        /\ UNCHANGED <<queue, collector, chunks, disabled, flushing, shutdown, cut>>
        /\ forwarder' \in {"waits", "delivers"}
    BY <1>5 DEF StopForwarder, Proceed
  <2>2. current' = <<>> /\ transport' = <<>>
    BY <1>5, RoundWay
  <2> QED BY <1>1, <2>1, <2>2 DEF Settled
<1>6. CASE OpenBatch
  <2>1. /\ forwarder = "delivers"
        /\ UNCHANGED <<queue, collector, transport, forwarder, current, disabled, stopped, flushing, shutdown, cut>>
    BY <1>6 DEF OpenBatch
  <2> QED BY <1>1, <2>1 DEF Settled
<1>7. CASE PutAccepted
  <2>1. /\ forwarder = "delivers"
        /\ UNCHANGED <<queue, collector, transport, forwarder, current, disabled, stopped, flushing, shutdown, cut>>
    BY <1>7 DEF PutAccepted
  <2> QED BY <1>1, <2>1 DEF Settled
<1>8. CASE PutFails \/ PutRefused
  <2>1. /\ forwarder = "delivers" /\ forwarder' = "waits" /\ chunks' = <<>> /\ cut' = TRUE
        /\ UNCHANGED <<collector, stopped, flushing, shutdown>>
    BY <1>8 DEF PutFails, PutRefused
  <2> QED BY <1>1, <2>1 DEF Settled
<1>9. CASE Delivered
  <2>1. /\ pending = <<>> /\ chunks = <<>>
        /\ UNCHANGED <<queue, collector, transport, current, pending, chunks, disabled, stopped, flushing, shutdown, cut>>
        /\ forwarder = "delivers" /\ forwarder' = "waits"
    BY <1>1, <1>9 DEF Delivered, CutUp, held
  <2> QED BY <1>1, <2>1 DEF Settled
<1>10. CASE FinalFlush
  BY <1>1, <1>10 DEF Settled, FinalFlush, held
<1>11. CASE Drain \/ CollectorEnds \/ BackoffEnds \/ AttemptDue \/ ForwarderEnds \/ Shutdown \/ DrainDeadline \/ Age
  BY <1>1, <1>11 DEF Settled, Drain, CollectorEnds, BackoffEnds, AttemptDue, ForwarderEnds, Shutdown,
     DrainDeadline, Age, held, far, LogTypeOK
<1> QED BY <1>2, <1>3, <1>4, <1>5, <1>6, <1>7, <1>8, <1>9, <1>10, <1>11 DEF LogNext, Collecting, Forwarding

LEMMA ShipInitially == LogInit => ShipInv
<1> SUFFICES ASSUME LogInit PROVE ShipInv
  OBVIOUS
<1>1. /\ framed = 0 /\ queue = <<>> /\ transport = <<>> /\ current = <<>> /\ chunks = <<>>
      /\ stale = 0 /\ counted = {} /\ unanswered = {}
      /\ collector = "runs" /\ forwarder = "waits" /\ shutdown = "serving"
      /\ ~disabled /\ ~backoff /\ ~stopped /\ ~flushing /\ ~cut
      /\ {disabled, backoff, stopped, flushing, cut} \subseteq BOOLEAN
      /\ \/ pending = <<>> /\ landed = <<0>>
         \/ pending = <<<<0>>>> /\ landed = <<>>
  BY DEF LogInit
<1>2. /\ 0 \in Records /\ 1 \in 1 .. BatchMax /\ MaxPending \in Nat /\ 1 <= MaxPending
  BY ShipAssumed DEF Records
<1>3. /\ <<0>> \in Seq(Records) /\ <<>> \in Seq(Records) /\ Len(<<0>>) = 1 /\ Range(<<0>>) = {0} /\ Range(<<>>) = {}
      /\ Rising(<<0>>) /\ Rising(<<>>) /\ DOMAIN <<0>> = {1} /\ <<0>>[1] = 0
  BY <1>2 DEF Range, Rising
<1>4. /\ Lined(pending) /\ Len(pending) <= MaxPending /\ pending \in Seq(Seq(Records))
      /\ \A i \in DOMAIN pending : Len(pending[i]) \in 1 .. BatchMax
      /\ landed \in Seq(Records)
      /\ (InBatches = {} /\ Range(landed) = {0}) \/ (InBatches = {0} /\ Range(landed) = {})
  <2>1. CASE pending = <<>> /\ landed = <<0>>
    <3>1. <<>> \in Seq(Seq(Records)) /\ DOMAIN <<>> = {} /\ Len(<<>>) = 0
      OBVIOUS
    <3>2. Lined(pending)
      BY <2>1, <3>1 DEF Lined
    <3>3. InBatches = {}
      BY <2>1, <3>1 DEF InBatches
    <3> QED BY <1>2, <1>3, <2>1, <3>1, <3>2, <3>3
  <2>2. CASE pending = <<<<0>>>> /\ landed = <<>>
    <3>1. /\ pending \in Seq(Seq(Records)) /\ DOMAIN pending = {1} /\ Len(pending) = 1 /\ pending[1] = <<0>>
      BY <1>3, <2>2
    <3>2. Lined(pending)
      <4>1. \A i \in DOMAIN pending : Len(pending[i]) \in 1 .. BatchMax /\ Rising(pending[i])
        BY <1>2, <1>3, <3>1
      <4>2. \A i, j \in DOMAIN pending : ~(i < j)
        BY <3>1
      <4> QED BY <3>1, <4>1, <4>2 DEF Lined
    <3>3. InBatches = {0}
      BY <1>3, <3>1 DEF InBatches
    <3> QED BY <1>2, <1>3, <2>2, <3>1, <3>2, <3>3
  <2> QED BY <1>1, <2>1, <2>2
<1>5. Held = InBatches
  BY <1>1, <1>3, HoldsAll
<1>6. LogTypeOK
  <2>1. <<>> \in Seq([consumed : 1 .. BatchMax, events : Seq(Records)])
    OBVIOUS
  <2> QED BY <1>1, <1>2, <1>3, <1>4, <2>1 DEF LogTypeOK
<1>7. ResentOnlyUnanswered /\ LandsInOrder
  <2>1. CASE landed = <<>>
    BY <2>1 DEF ResentOnlyUnanswered, LandsInOrder
  <2>2. CASE landed = <<0>>
    BY <1>3, <2>2 DEF ResentOnlyUnanswered, LandsInOrder
  <2> QED BY <1>1, <2>1, <2>2
<1>8. InLine
  BY <1>1, <1>3, <1>4, <1>5 DEF InLine, Before
<1>9. Landing
  BY <1>1, <1>4, <1>5 DEF Landing
<1>10. CutUp /\ NoneAhead
  BY <1>1 DEF CutUp, NoneAhead
<1>11. Whole
  BY <1>1 DEF Whole
<1>12. Settled
  BY <1>1 DEF Settled
<1> QED BY <1>6, <1>7, <1>8, <1>9, <1>10, <1>11, <1>12 DEF ShipInv, Way, Arrived

LEMMA ShipInductive == ShipInv /\ [LogNext]_logVars => ShipInv'
<1>1. ShipInv /\ LogNext => ShipInv'
  BY WayStep, SettledStep DEF ShipInv
<1>2. ASSUME ShipInv, UNCHANGED logVars PROVE ShipInv'
  <2>1. Way /\ Settled /\ LogTypeOK /\ stale \in Nat
    BY <1>2, InLineIs DEF ShipInv, Way, Arrived
  <2>2. LogTypeOK' /\ Settled'
    BY <1>2, <2>1 DEF LogTypeOK, Settled, logVars
  <2>3. Way'
    BY <1>2, <2>1, <2>2, StillWay DEF logVars
  <2> QED BY <2>2, <2>3 DEF ShipInv
<1> QED BY <1>1, <1>2

LEMMA ShipDelivers == ShipInv => LandsOrCounted
<1> SUFFICES ASSUME ShipInv PROVE LandsOrCounted
  OBVIOUS
<1>1. LogTypeOK /\ ResentOnlyUnanswered /\ LandsInOrder /\ InLine /\ Whole /\ Settled
  BY DEF ShipInv, Way, Arrived
<1>2. NoSilentLoss
  BY <1>1 DEF Whole, NoSilentLoss
<1>3. ASSUME shutdown = "stopped", ~cut PROVE Held = {}
  <2>1. queue = <<>> /\ transport = <<>> /\ current = <<>> /\ pending = <<>>
    BY <1>1, <1>3 DEF Settled
  <2>2. Range(<<>>) = {} /\ InAll(<<>>) = {}
    BY DEF Range, InAll
  <2> QED BY <2>1, <2>2, HoldsAll
<1>4. ShutdownFlushes
  BY <1>3 DEF ShutdownFlushes
<1> QED BY <1>1, <1>2, <1>4 DEF LandsOrCounted

(* Every line lands in order or is counted as lost, twice only when an     *)
(* answer was lost, and a shutdown that nothing cut short leaves none      *)
(* behind: for any queue, batch and call sizes (guest_io.rs and            *)
(* guest_io/cloudwatch.rs).                                                *)
THEOREM LinesLandOrCount == LogSpec => []LandsOrCounted
<1>1. LogSpec => []ShipInv
  BY ShipInitially, ShipInductive, PTL DEF LogSpec
<1> QED BY <1>1, ShipDelivers, PTL

=============================================================================
