------------------------------- MODULE Clock -------------------------------
(***************************************************************************)
(* The guest's wall clock (src/runtime/src/clock.rs): open_clock resolves  *)
(* the configured source at start-up, main.rs' self check reads it five    *)
(* times, and one WallClockAdapter, shared by every guest instance and by  *)
(* the runtime's own records (run.rs), serves the readings.                *)
(*                                                                         *)
(* now() reads the device without the lock and takes it afterwards to      *)
(* store the reading, so a slow reader may store an old reading over a     *)
(* newer one; a read that fails is answered from what is stored.           *)
(***************************************************************************)
EXTENDS Naturals, Sequences

CONSTANTS Callers,     \* threads that ask for the time
          Sources,     \* values of ClockSource: a subset of {"auto", "ptp", "host"}
          MaxTime,     \* bound on the time the device shows
          MaxCalls,    \* bound on calls of now()
          Readings     \* readings clock_check takes: 5

VARIABLES source,      \* what the configuration asks for
          clock,       \* "none" before open_clock, then "ptp" or "host"
          time,        \* what the clock shows
          device,      \* whether the PTP device can be read
          stage,       \* "opening", "checking", "building", "serving", "refused"
          checked,     \* the readings of clock_check
          last_good,   \* the reading the adapter keeps
          call,        \* per caller: where its call of now() is
          calls,
          newest,      \* history: the latest reading a call has returned
          raced        \* history: a reading was stored over a later one

seen == <<newest, raced>>
vars == <<source, clock, time, device, stage, checked, last_good, call, calls, seen>>

(* got is what the call returns, floor what had been returned before it.   *)
Idle == [at |-> "idle", got |-> 0, floor |-> 0]

Init ==
  /\ source \in Sources
  /\ clock = "none" /\ time = 1 /\ device \in BOOLEAN
  /\ stage = "opening" /\ checked = <<>> /\ last_good = 0
  /\ call = [c \in Callers |-> Idle] /\ calls = 0
  /\ newest = 0 /\ raced = FALSE

(***************************************************************************)
(* The environment: time passes, and the device fails and recovers.        *)
(***************************************************************************)
Tick ==
  /\ time < MaxTime /\ time' = time + 1
  /\ UNCHANGED <<source, clock, device, stage, checked, last_good, call, calls, seen>>

DeviceChanges ==
  /\ device' = ~device
  /\ UNCHANGED <<source, clock, time, stage, checked, last_good, call, calls, seen>>

(* TrustedClock::now: the host's clock always answers, the PTP device only *)
(* while it can be read.                                                   *)
Readable == clock = "host" \/ device

(***************************************************************************)
(* Start-up.  PtpClock::open takes one reading, so a device that cannot be *)
(* read is found here: 'ptp' then refuses to start, 'auto' falls back.     *)
(***************************************************************************)
Resolve(s) ==
  CASE s = "host" -> "host"
    [] s = "ptp"  -> IF device THEN "ptp" ELSE "none"
    [] s = "auto" -> IF device THEN "ptp" ELSE "host"

OpenClock ==
  /\ stage = "opening"
  /\ clock' = Resolve(source)
  /\ stage' \in IF clock' = "none" THEN {"refused"} ELSE {"checking", "building"}
  /\ UNCHANGED <<source, time, device, checked, last_good, call, calls, seen>>

(* clock_check, under --self-check: Readings readings, none before the one *)
(* that precedes it; the process ends with it either way.                  *)
ClockCheck ==
  /\ stage = "checking"
  /\ IF Readable /\ (checked = <<>> \/ checked[Len(checked)] <= time)
       THEN /\ checked' = Append(checked, time)
            /\ stage' = IF Len(checked') = Readings THEN "done" ELSE "checking"
       ELSE stage' = "refused" /\ UNCHANGED checked
  /\ UNCHANGED <<source, clock, time, device, last_good, call, calls, seen>>

(* WallClockAdapter::new reads once, so there is a reading to serve from   *)
(* the start.                                                              *)
NewAdapter ==
  /\ stage = "building"
  /\ IF Readable THEN last_good' = time /\ stage' = "serving"
                 ELSE stage' = "refused" /\ UNCHANGED last_good
  /\ UNCHANGED <<source, clock, time, device, checked, call, calls, seen>>

(***************************************************************************)
(* WallClockAdapter::now.                                                  *)
(***************************************************************************)
At(c, step) == stage = "serving" /\ call[c].at = step

Call(c) ==
  /\ At(c, "idle") /\ calls < MaxCalls
  /\ call' = [call EXCEPT ![c] = [Idle EXCEPT !.at = "reading", !.floor = newest]]
  /\ calls' = calls + 1
  /\ UNCHANGED <<source, clock, time, device, stage, checked, last_good, seen>>

(* The device read: outside the lock.                                      *)
Read(c) ==
  /\ At(c, "reading")
  /\ call' = IF Readable
               THEN [call EXCEPT ![c].at = "storing", ![c].got = time]
               ELSE [call EXCEPT ![c].at = "failed"]
  /\ UNCHANGED <<source, clock, time, device, stage, checked, last_good, calls, seen>>

(* Ok(now): the lock is taken, the reading stored and returned.            *)
StoreNothing(c) ==   \* mutant
  /\ At(c, "storing")
  /\ call' = [call EXCEPT ![c].at = "returned"]
  /\ UNCHANGED <<source, clock, time, device, stage, checked, last_good, calls, seen>>
Store(c) ==
  /\ At(c, "storing")
  /\ last_good' = call[c].got
  /\ raced' = (raced \/ call[c].got < last_good)
  /\ call' = [call EXCEPT ![c].at = "returned"]
  /\ UNCHANGED <<source, clock, time, device, stage, checked, calls, newest>>

(* Err: the last good reading, under the lock.                             *)
Stale(c) ==
  /\ At(c, "failed")
  /\ call' = [call EXCEPT ![c].at = "returned", ![c].got = last_good]
  /\ UNCHANGED <<source, clock, time, device, stage, checked, last_good, calls, seen>>

Return(c) ==
  /\ At(c, "returned") /\ call' = [call EXCEPT ![c] = Idle]
  /\ newest' = IF call[c].got > newest THEN call[c].got ELSE newest
  /\ UNCHANGED <<source, clock, time, device, stage, checked, last_good, calls, raced>>

Now(c) == Call(c) \/ Read(c) \/ Store(c) \/ Stale(c) \/ Return(c)

Next == Tick \/ DeviceChanges \/ OpenClock \/ ClockCheck \/ NewAdapter \/ \E c \in Callers : Now(c)

Spec == Init /\ [][Next]_vars

(***************************************************************************)
(* Properties.  The device itself never goes back here.                    *)
(***************************************************************************)

(* What a call returns is a reading of the device, never zero, and no      *)
(* earlier than what any call had returned before this one began, unless a *)
(* slow call stored its reading over a later one: WallClockAdapter::now,   *)
(* which answers a failed read with the last good reading.                 *)
LastGood ==
  \A c \in Callers : call[c].at = "returned" =>
    /\ call[c].got \in 1 .. time
    /\ call[c].got >= call[c].floor \/ raced
=============================================================================
