----------------------------- MODULE Invocation -----------------------------
(***************************************************************************)
(* What one tenant's guest calls have in common, from serve/http.rs and    *)
(* notify/mod.rs: an interactive request, a message of a held connection   *)
(* or a background task takes the tenant's lock, runs the guest, anchors   *)
(* what it wrote, and only then lets anything out: the end of a response,  *)
(* a reply, or the wakes the guest staged.                                 *)
(*                                                                         *)
(* An invocation writes once and may then stage one wake announcing that   *)
(* write.  anchored is the set of invocations whose write the newest       *)
(* anchor holds; module Anchor shows that such a write survives.           *)
(***************************************************************************)
EXTENDS Naturals

CONSTANTS Requests, Messages, Tasks   \* invocations of each kind

ASSUME InvocationAssumption ==
  /\ Requests \cap Messages = {} /\ Requests \cap Tasks = {} /\ Messages \cap Tasks = {}
  /\ "free" \notin Requests \cup Messages \cup Tasks

VARIABLES
  lock,      \* who holds the tenant's lock, or "free"
  pc,        \* where each invocation is
  resp,      \* what the client of a request, or the peer of a message, saw
  written,   \* invocations whose write is in the dataset
  anchored,  \* invocations whose write is anchored
  staged,    \* Notifier::staged for this tenant, as the invocations that staged
  woken,     \* invocations whose wake was raised to the forwarder
  orphans,   \* anchors still running for a call that was abandoned
  cancelled, \* tasks a request cancelled
  up         \* FALSE once serving has stopped

vars == <<lock, pc, resp, written, anchored, staged, woken, orphans, cancelled, up>>

Invocations == Requests \cup Messages \cup Tasks
Interactive == Requests \cup Messages
InCall == {"held", "wrote", "staged"}              \* the guest is running
Over   == {"ended", "failed", "dropped"}           \* its lock is released, its part done

Move(i, to) == pc' = [pc EXCEPT ![i] = to]
Release(i) == lock' = IF lock = i THEN "free" ELSE lock

(* deliver_staged and drop_staged act on all the tenant has staged. *)
deliver_staged == woken' = woken \cup staged /\ staged' = {}
drop_staged == staged' = {} /\ UNCHANGED woken

(* anchor_tenant, at the point where the anchor holds what is written. *)
Anchor == anchored' = written

-----------------------------------------------------------------------------
(* Interactive requests and messages wait for the lock. *)

Arrive(i) ==
  /\ up /\ i \in Interactive /\ pc[i] = "new"
  /\ Move(i, "waiting")
  /\ UNCHANGED <<lock, resp, written, anchored, staged, woken, orphans, cancelled, up>>

Acquire(i) ==
  /\ up /\ pc[i] = "waiting" /\ lock = "free"
  /\ lock' = i
  /\ Move(i, "held")
  /\ UNCHANGED <<resp, written, anchored, staged, woken, orphans, cancelled, up>>

(* No directory, or no instance: in_tenant returns before there is a call. *)
SetupFails(i) ==
  /\ up /\ i \in Requests /\ pc[i] = "held" /\ resp[i] = "nothing"
  /\ Move(i, "dropped") /\ Release(i)
  /\ resp' = [resp EXCEPT ![i] = "error"]
  /\ UNCHANGED <<written, anchored, staged, woken, orphans, cancelled, up>>

(* What a guest may do while it runs. *)
GuestWrites(i) ==
  /\ up /\ pc[i] = "held"
  /\ written' = written \cup {i}
  /\ Move(i, "wrote")
  /\ UNCHANGED <<lock, resp, anchored, staged, woken, orphans, cancelled, up>>

(* notify.wake: stage. *)
GuestStages(i) ==
  /\ up /\ pc[i] = "wrote"
  /\ staged' = staged \cup {i}
  /\ Move(i, "staged")
  /\ UNCHANGED <<lock, resp, written, anchored, woken, orphans, cancelled, up>>

(* response-outparam::set: a streamed body starts to reach the client; a   *)
(* sized or bodiless one is held whole.                                    *)
GuestSetsHead(i) ==
  /\ up /\ i \in Requests /\ pc[i] \in InCall /\ resp[i] = "nothing"
  /\ \E shape \in {"streaming", "withheld"} : resp' = [resp EXCEPT ![i] = shape]
  /\ UNCHANGED <<lock, pc, written, anchored, staged, woken, orphans, cancelled, up>>

(* Nobody is left to watch the call, which goes on: the guest set an error *)
(* or the client went away before the head, or the guest let go of the     *)
(* outparam, and await_head waits for the call's own end.                  *)
Unwatched(i) ==
  /\ up /\ i \in Requests /\ pc[i] \in InCall /\ resp[i] = "nothing"
  /\ \E left \in {"error", "unset"} : resp' = [resp EXCEPT ![i] = left]
  /\ UNCHANGED <<lock, pc, written, anchored, staged, woken, orphans, cancelled, up>>

GuestCancels(i, task) ==
  /\ up /\ i \in Requests /\ pc[i] \in InCall /\ task \in Tasks
  /\ cancelled' = cancelled \cup {task}
  /\ UNCHANGED <<lock, pc, resp, written, anchored, staged, woken, orphans, up>>

(* The call returns or traps: a request is anchored either way. *)
CallReturns(i) ==
  /\ up /\ i \in Interactive /\ pc[i] \in InCall
  /\ Move(i, "anchoring")
  /\ UNCHANGED <<lock, resp, written, anchored, staged, woken, orphans, cancelled, up>>

AnchorHolds(i) ==
  /\ up /\ pc[i] = "anchoring"
  /\ Anchor
  /\ Move(i, "anchored")
  /\ UNCHANGED <<lock, resp, written, staged, woken, orphans, cancelled, up>>

(* The anchor's Ok reaches the call: wakes go out, then the lock is free   *)
(* and, for a message, the reply is returned.                              *)
Complete(i) ==
  /\ up /\ pc[i] = "anchored"
  /\ deliver_staged
  /\ Move(i, "ended") /\ Release(i)
  /\ resp' = IF i \in Messages THEN [resp EXCEPT ![i] = "clean"] ELSE resp
  /\ UNCHANGED <<written, anchored, orphans, cancelled, up>>

(* Mutant: a failed anchor delivers what was staged all the same. *)
AnchorFailsDelivers(i) ==
  /\ up /\ pc[i] \in {"anchoring", "anchored"}
  /\ deliver_staged
  /\ Move(i, "failed") /\ Release(i)
  /\ UNCHANGED <<resp, written, anchored, orphans, cancelled, up>>

AnchorFails(i) ==
  /\ up /\ pc[i] \in {"anchoring", "anchored"}
  /\ drop_staged
  /\ Move(i, "failed") /\ Release(i)
  /\ UNCHANGED <<resp, written, anchored, orphans, cancelled, up>>

(* on-message fails: the error is returned before any anchor. *)
MessageFails(i) ==
  /\ up /\ i \in Messages /\ pc[i] \in InCall
  /\ Move(i, "failed") /\ Release(i)
  /\ UNCHANGED <<resp, written, anchored, staged, woken, orphans, cancelled, up>>

(* Mutant: nothing watches a request once its head is out. *)
DeadlineBeforeHead(i) ==
  /\ up /\ i \in Interactive /\ pc[i] \in InCall \cup {"anchoring", "anchored"}
  /\ resp[i] = "nothing"
  /\ Move(i, "dropped") /\ Release(i)
  /\ orphans' = IF pc[i] = "anchoring" THEN orphans + 1 ELSE orphans
  /\ UNCHANGED <<resp, written, anchored, staged, woken, cancelled, up>>

(* A deadline: await_head before the head is out, supervise after it, the  *)
(* timeout around a message's work.  The call is dropped where it stands,  *)
(* its lock with it; an anchor it had started goes on by itself.           *)
Deadline(i) ==
  /\ up /\ i \in Interactive /\ pc[i] \in InCall \cup {"anchoring", "anchored"}
  /\ resp[i] \notin {"error", "unset"}
  /\ Move(i, "dropped") /\ Release(i)
  /\ orphans' = IF pc[i] = "anchoring" THEN orphans + 1 ELSE orphans
  /\ UNCHANGED <<resp, written, anchored, staged, woken, cancelled, up>>

OrphanAnchors ==
  /\ up /\ orphans > 0
  /\ orphans' = orphans - 1
  /\ Anchor
  /\ UNCHANGED <<lock, pc, resp, written, staged, woken, cancelled, up>>

(* after_anchor and AnchoredBody: a response ends cleanly once the call    *)
(* has sent an Ok anchor, and in an error once it sent anything else or    *)
(* went away.                                                              *)
ResponseEnds(i) ==
  /\ up /\ i \in Requests /\ resp[i] \notin {"clean", "error"}
  /\ pc[i] \in Over
  /\ resp' = [resp EXCEPT ![i] =
       IF pc[i] = "ended" /\ resp[i] \in {"streaming", "withheld"} THEN "clean" ELSE "error"]
  /\ UNCHANGED <<lock, pc, written, anchored, staged, woken, orphans, cancelled, up>>

-----------------------------------------------------------------------------
(* Background tasks: run_background, finish, and the worker around them. *)

(* Mutant: a task does not take the lock. *)
TryNoLock(i) ==
  /\ up /\ i \in Tasks /\ pc[i] = "new"
  /\ Move(i, "locked")
  /\ UNCHANGED <<lock, resp, written, anchored, staged, woken, orphans, cancelled, up>>

(* The lock is tried, never waited for: a busy tenant is Ok(None). *)
TryLock(i) ==
  /\ up /\ i \in Tasks /\ pc[i] = "new"
  /\ IF lock = "free"
     THEN lock' = i /\ Move(i, "locked")
     ELSE UNCHANGED lock /\ Move(i, "unrecorded")
  /\ UNCHANGED <<resp, written, anchored, staged, woken, orphans, cancelled, up>>

(* begin, which anchors the attempt, or finds it cancelled, or fails. *)
Begin(i) ==
  /\ up /\ pc[i] = "locked"
  /\ \/ i \in cancelled /\ Move(i, "ran") /\ Release(i) /\ UNCHANGED anchored
     \/ i \notin cancelled /\ Anchor /\ Move(i, "held") /\ UNCHANGED lock
     \/ i \notin cancelled /\ Move(i, "ran") /\ Release(i) /\ UNCHANGED anchored
  /\ UNCHANGED <<resp, written, staged, woken, orphans, cancelled, up>>

(* run_background returns, in any way; its guard is dropped here. *)
RunReturns(i) ==
  /\ up /\ i \in Tasks /\ pc[i] \in InCall
  /\ Move(i, "ran") /\ Release(i)
  /\ UNCHANGED <<resp, written, anchored, staged, woken, orphans, cancelled, up>>

(* finish returns Ok without an anchor: cancelled, or the tenant was busy. *)
FinishUnrecorded(i) ==
  /\ up
  /\ pc[i] = "unrecorded" \/ (pc[i] = "ran" /\ i \in cancelled)
  /\ Move(i, "finished")
  /\ UNCHANGED <<lock, resp, written, anchored, staged, woken, orphans, cancelled, up>>

FinishAnchors(i) ==
  /\ up /\ pc[i] = "ran" /\ i \notin cancelled
  /\ Anchor
  /\ Move(i, "finished")
  /\ UNCHANGED <<lock, resp, written, staged, woken, orphans, cancelled, up>>

(* The worker: deliver_wakes when finish is Ok. *)
Deliver(i) ==
  /\ up /\ pc[i] = "finished"
  /\ deliver_staged
  /\ Move(i, "ended")
  /\ UNCHANGED <<lock, resp, written, anchored, orphans, cancelled, up>>

(* finish fails: drop_wakes, and its error ends the scheduler and serving. *)
FinishFails(i) ==
  /\ up /\ pc[i] = "ran" /\ i \notin cancelled
  /\ drop_staged
  /\ Move(i, "failed")
  /\ up' = FALSE
  /\ UNCHANGED <<lock, resp, written, anchored, orphans, cancelled>>

-----------------------------------------------------------------------------
Init ==
  /\ lock = "free"
  /\ pc = [i \in Invocations |-> "new"]
  /\ resp = [i \in Invocations |-> "nothing"]
  /\ written = {} /\ anchored = {} /\ staged = {} /\ woken = {}
  /\ orphans = 0 /\ cancelled = {} /\ up = TRUE

Step(i) ==
  \/ Arrive(i) \/ Acquire(i) \/ SetupFails(i)
  \/ GuestWrites(i) \/ GuestStages(i) \/ GuestSetsHead(i) \/ Unwatched(i)
  \/ \E task \in Tasks : GuestCancels(i, task)
  \/ CallReturns(i) \/ AnchorHolds(i) \/ Complete(i) \/ AnchorFails(i)
  \/ MessageFails(i) \/ Deadline(i) \/ ResponseEnds(i)
  \/ TryLock(i) \/ Begin(i) \/ RunReturns(i)
  \/ FinishUnrecorded(i) \/ FinishAnchors(i) \/ Deliver(i) \/ FinishFails(i)

Next == OrphanAnchors \/ \E i \in Invocations : Step(i)

Spec == Init /\ [][Next]_vars

(***************************************************************************)
(* Fairness.  A guest may park for ever in a host call, so nothing the     *)
(* guest does is fair; the deadlines are timers and do fire.  A tokio      *)
(* mutex is first come, first served: a waiter that the lock is free for   *)
(* again and again gets it.  TASK_TIMEOUT ends a task's call.  An anchor   *)
(* is the runtime's own work and ends, one way or the other.               *)
(***************************************************************************)
Fairness ==
  \A i \in Invocations :
    /\ SF_vars(Acquire(i))
    /\ WF_vars(Deadline(i))
    /\ WF_vars(AnchorHolds(i) \/ AnchorFails(i) \/ Complete(i))
    /\ WF_vars(ResponseEnds(i))
    /\ WF_vars(Begin(i)) /\ WF_vars(RunReturns(i))

LiveSpec == Spec /\ Fairness

-----------------------------------------------------------------------------
(* Every variable keeps its type. *)
TypeOK ==
  /\ lock \in Invocations \cup {"free"}
  /\ pc \in [Invocations -> InCall \cup Over \cup
       {"new", "waiting", "anchoring", "anchored", "locked", "ran", "unrecorded", "finished"}]
  /\ resp \in [Invocations -> {"nothing", "unset", "streaming", "withheld", "clean", "error"}]
  /\ written \subseteq Invocations /\ anchored \subseteq written
  /\ staged \subseteq written /\ woken \subseteq written
  /\ orphans \in Nat
  /\ cancelled \subseteq Tasks /\ up \in BOOLEAN

(* No client sees a response end cleanly, and no peer gets a reply, before *)
(* what the call wrote is anchored, however calls are abandoned and        *)
(* whatever other invocations of the tenant do meanwhile.                  *)
AnsweredIsDurable ==
  \A i \in Interactive : resp[i] = "clean" /\ i \in written => i \in anchored

WakeAfterAnchor == woken \subseteq anchored
NoTaskYet == \A i \in Tasks : pc[i] = "new"

(* A wake is raised only once the change it announces is anchored: "sending*)
(* one before the change is durable could wake an owner for a state a      *)
(* crash then rewinds".  So it is until a background task has been tried:  *)
(* a call abandoned at any point leaves what it staged to a later one,     *)
(* which anchors first.                                                    *)
CallsWakeAfterAnchor == NoTaskYet => WakeAfterAnchor

(* One guest at a time: the invocation whose guest runs holds the lock.    *)
GuestHoldsLock == \A i \in Invocations : pc[i] \in InCall => lock = i

(* A call somebody watches gives its lock back, whatever its guest does:   *)
(* the deadlines reach it before its head, after it, and in its anchor.    *)
WatchedCallsRelease ==
  \A i \in Invocations : lock = i ~> (lock # i \/ resp[i] \in {"error", "unset"} \/ ~up)

(* Nothing leaves a call before what it wrote is durable: neither its      *)
(* answer nor, until a task was tried, the wake it staged (in_tenant,      *)
(* run_message, the end of a held body, deliver_staged).                   *)
NothingBeforeAnchor ==
  /\ AnsweredIsDurable
  /\ CallsWakeAfterAnchor

=============================================================================
