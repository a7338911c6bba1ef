------------------------------ MODULE Watchdog ------------------------------
(***************************************************************************)
(* What ends a guest's call (runtime/src/serve/http.rs and progress.rs):   *)
(* the epoch callback, which only wasm that is executing reaches and which *)
(* judges by the bytes that moved; await_head's timeout and supervise's    *)
(* deadline, whose abort only lands where the guest awaits something.      *)
(*                                                                         *)
(* Time is counted in epoch ticks.  The byte counters are kept as whether  *)
(* they moved since still_working last looked.                             *)
(***************************************************************************)
EXTENDS Integers

CONSTANTS
    HeadTimeout,     \* request_timeout, in ticks
    MaxInteraction,  \* max_interaction, in ticks
    SilentTicks,     \* SILENT_TICKS_BEFORE_TRAP
    Channel,         \* chunks the outgoing body's channel holds
    None

VARIABLES
    now,       \* the tick
    guest,     \* "running" wasm, "parked" in a host call, or how it ended
    deadline,  \* the store's epoch deadline
    head,      \* the tick the head went out at, or None
    aborted,   \* task.abort() was called
    buffered,  \* chunks the guest wrote and nobody drained
    moved,     \* bytes # last_seen
    strikes,
    quiet,     \* ghost: ticks since a byte last moved
    spun       \* ghost: ticks it ran without a pause or a byte

vars == <<now, guest, deadline, head, aborted, buffered, moved, strikes, quiet, spun>>

\* ServeHandle::watchdog: two ticks inside the timeout, and at least one.
Budget == IF HeadTimeout - 2 > 1 THEN HeadTimeout - 2 ELSE 1

(* The timeouts are counted in ticks, SILENT_TICKS_BEFORE_TRAP is at least *)
(* one, and max_interaction is no shorter than the watchdog's budget.      *)
WatchdogAssumption ==
    /\ HeadTimeout \in Nat /\ MaxInteraction \in Nat /\ Channel \in Nat
    /\ SilentTicks \in Nat \ {0}
    /\ MaxInteraction >= Budget
    /\ None \notin Nat

Live == {"running", "parked"}
Ended == {"returned", "trapped", "dropped"}
Latest == HeadTimeout + MaxInteraction + SilentTicks + 2

TypeOK ==
    /\ now \in 0..Latest /\ deadline \in 0..Latest
    /\ guest \in Live \cup Ended
    /\ head \in 0..Latest \cup {None} /\ aborted \in BOOLEAN
    /\ buffered \in 0..Channel /\ moved \in BOOLEAN /\ strikes \in 0..SilentTicks
    /\ quiet \in 0..Latest /\ spun \in 0..Latest

Init ==
    /\ now = 0 /\ guest = "running" /\ deadline = Budget /\ head = None
    /\ aborted = FALSE /\ buffered = 0 /\ moved = FALSE /\ strikes = 0
    /\ quiet = 0 /\ spun = 0

-----------------------------------------------------------------------------
(* The guest and its peer.                                                 *)

Park ==
    /\ guest = "running" /\ guest' = "parked" /\ spun' = 0
    /\ UNCHANGED <<now, deadline, head, aborted, buffered, moved, strikes, quiet>>

Resume ==
    /\ guest = "parked" /\ ~aborted /\ guest' = "running"
    /\ UNCHANGED <<now, deadline, head, aborted, buffered, moved, strikes, quiet, spun>>

Return ==
    /\ guest = "running" /\ guest' = "returned"
    /\ UNCHANGED <<now, deadline, head, aborted, buffered, moved, strikes, quiet, spun>>

\* The head: from here supervise's deadline runs instead of await_head's.
SetHead ==
    /\ guest = "running" /\ head = None /\ ~aborted
    /\ head' = now
    /\ UNCHANGED <<now, guest, deadline, aborted, buffered, moved, strikes, quiet, spun>>

Writes ==
    /\ guest = "running" /\ buffered < Channel
    /\ buffered' = buffered + 1
    /\ UNCHANGED <<now, guest, deadline, head, aborted, moved, strikes, quiet, spun>>

Record == moved' = TRUE /\ quiet' = 0 /\ spun' = 0

\* Counting: a chunk hyper drains of the response, which needs its head.
Drained ==
    /\ guest \in Live /\ head # None /\ buffered > 0
    /\ buffered' = buffered - 1 /\ Record
    /\ UNCHANGED <<now, guest, deadline, head, aborted, strikes>>

\* A chunk of the request, which the guest has to wait for.
Received ==
    /\ guest = "parked" /\ Record
    /\ UNCHANGED <<now, guest, deadline, head, aborted, buffered, strikes>>

-----------------------------------------------------------------------------
(* The runtime.                                                            *)

\* StreamProgress::still_working, and the strikes it leaves.
StrikesForgotten == 0   \* mutant
Strikes == IF moved THEN 0 ELSE IF head = None THEN strikes ELSE strikes + 1
StillWorking == moved \/ (head # None /\ Strikes < SilentTicks)

Due == guest = "running" /\ now >= deadline

\* Yield(1): one more tick, and an await point for an abort to land on.
YieldsToAbort == aborted

\* arm_watchdog's callback, at the first epoch check past the deadline.
EpochCallback ==
    /\ Due
    /\ strikes' = Strikes /\ moved' = FALSE
    /\ IF StillWorking
         THEN /\ deadline' = now + 1
              /\ guest' = IF YieldsToAbort THEN "dropped" ELSE guest
         ELSE guest' = "trapped" /\ UNCHANGED deadline
    /\ UNCHANGED <<now, head, aborted, buffered, quiet, spun>>

TimeoutDue ==
    /\ guest \in Live /\ ~aborted
    /\ IF head = None THEN now >= HeadTimeout ELSE now >= head + MaxInteraction

\* await_head gives up, or supervise does.
TimesOut ==
    /\ TimeoutDue
    /\ aborted' = TRUE
    /\ UNCHANGED <<now, guest, deadline, head, buffered, moved, strikes, quiet, spun>>

\* abort finds the call awaiting something.
AbortLands ==
    /\ aborted /\ guest = "parked" /\ guest' = "dropped"
    /\ UNCHANGED <<now, deadline, head, aborted, buffered, moved, strikes, quiet, spun>>

\* A tick passes once what was due at this one has happened.
Tick ==
    /\ guest \in Live /\ now < Latest
    /\ ~Due /\ ~TimeoutDue /\ ~(aborted /\ guest = "parked")
    /\ now' = now + 1 /\ quiet' = quiet + 1
    /\ spun' = IF guest = "running" THEN spun + 1 ELSE 0
    /\ UNCHANGED <<guest, deadline, head, aborted, buffered, moved, strikes>>

Over == guest \in Ended /\ UNCHANGED vars

Next ==
    \/ Park \/ Resume \/ Return \/ SetHead \/ Writes \/ Drained \/ Received
    \/ EpochCallback \/ TimesOut \/ AbortLands \/ Tick \/ Over

Spec == Init /\ [][Next]_vars

-----------------------------------------------------------------------------
(* Once its head is out, a call whose last byte moved fewer than           *)
(* SilentTicks ticks ago is not trapped, however long it has taken: a slow *)
(* signing session is not a runaway.                                       *)
ConversationsLive ==
    guest = "trapped" /\ head # None => quiet >= SilentTicks

(* A guest that spins is stopped within its budget and the silent ticks,   *)
(* though nothing but the epoch can reach it.                              *)
RunawaysStop == spun <= Budget + SilentTicks

(* No call lives two ticks past the timeout that governs it, spinning,     *)
(* parked or talking: the epoch hands the abort a place to land in time.   *)
DeadlinesHold ==
    guest \in Live =>
        now <= 1 + IF head = None THEN HeadTimeout ELSE head + MaxInteraction

(* The epoch callback tells the three kinds of guests apart: one that      *)
(* talks is left alone, one that spins is trapped, and nobody outlives a   *)
(* deadline.                                                               *)
WatchdogHolds ==
  /\ TypeOK
  /\ ConversationsLive
  /\ RunawaysStop
  /\ DeadlinesHold

=============================================================================
