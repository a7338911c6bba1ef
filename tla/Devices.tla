------------------------------ MODULE Devices ------------------------------
(***************************************************************************)
(* Which devices a tenant can be woken on (runtime/src/notify/device.rs)   *)
(* and the forwarder that prunes the ones the push service says are gone   *)
(* (notify/mod.rs deliver, notify/pinpoint.rs classify_send).              *)
(*                                                                         *)
(* A record is its tenant, its token and the time it was enrolled.  Every  *)
(* call holds the registry's mutex from its checks to its last file        *)
(* operation, so one runs at a time; but a guest's call can be dropped at  *)
(* any await, and the file operation it was waiting for then still runs,   *)
(* after the mutex is free.  Two enrolments of one token are at least a    *)
(* millisecond apart: a removal and a write to the pool lie between.       *)
(***************************************************************************)
EXTENDS Integers, FiniteSets

CONSTANTS
    Tenants,
    Tokens,        \* registration tokens, integers: their order breaks ties
    PerTenant,     \* DeviceLimits::per_tenant
    MaxDevices,    \* DeviceLimits::max_devices
    MaxEnrolments, \* bound: enrolments written
    MaxFaults,     \* bound: dropped calls, failed removals and restarts
    None

(* open refuses limits of zero. *)
DevicesAssumption ==
    /\ PerTenant \in Nat \ {0} /\ MaxDevices \in Nat \ {0}
    /\ Tokens \subseteq Int /\ None \notin Nat

Keys == Tenants \X Tokens

VARIABLES
    file,     \* when the record published on the pool was enrolled, or None
    list,     \* DeviceRegistry::devices, likewise
    call,     \* the call that holds the mutex: [step, key], or Idle
    now,      \* the clock: enrolments so far
    late,     \* file operations of dropped calls, still running
    stray,    \* keys whose file a fault may have left different from memory
    wake,     \* the device a wake is being sent to: [key, at, said], or None
    gone,     \* enrolments the push service has said are gone
    faults

vars == <<file, list, call, now, late, stray, wake, gone, faults>>

Idle == [step |-> "idle"]
Free == call = Idle
On(m) == {k \in Keys : m[k] # None}
Of(m, t) == {k \in On(m) : k[1] = t}
(* list.sort_by_key: oldest first, then by token. *)
Older(m, j, k) == m[j] < m[k] \/ (m[j] = m[k] /\ j[2] < k[2])
Oldest(m, ks) == CHOOSE j \in ks : \A k \in ks \ {j} : Older(m, j, k)

Init ==
    /\ file = [k \in Keys |-> None] /\ list = file
    /\ call = Idle /\ now = 0 /\ late = {} /\ stray = {}
    /\ wake = None /\ gone = {} /\ faults = 0

-----------------------------------------------------------------------------
(* register *)

(* Mutant: an off-by-one at the global cap. *)
HasRoomOver == Cardinality(On(list)) <= MaxDevices

HasRoom == Cardinality(On(list)) < MaxDevices

(* Already enrolled is success and a full store a refusal; neither changes *)
(* anything.                                                               *)
Register(k) ==
    /\ Free /\ list[k] = None /\ HasRoom /\ now < MaxEnrolments
    /\ now' = now + 1
    /\ call' = [step |-> "write", key |-> k, at |-> now']
    /\ UNCHANGED <<file, list, late, stray, wake, gone, faults>>

(* write: the temporary file, then the rename that publishes it. *)
Publish ==
    /\ call.step = "write"
    /\ file' = [file EXCEPT ![call.key] = call.at]
    /\ call' = [call EXCEPT !.step = "push"]
    /\ UNCHANGED <<list, now, late, stray, wake, gone, faults>>

Push ==
    /\ call.step = "push"
    /\ list' = [list EXCEPT ![call.key] = call.at]
    /\ call' = [call EXCEPT !.step = "trim"]
    /\ UNCHANGED <<file, now, late, stray, wake, gone, faults>>

(* list.remove(0) *)
Victim(t) == Oldest(list, Of(list, t))

(* Memory first, then the file. *)
Evict ==
    LET t == call.key[1] IN
    /\ call.step = "trim" /\ Cardinality(Of(list, t)) > PerTenant
    /\ list' = [list EXCEPT ![Victim(t)] = None]
    /\ call' = [step |-> "evict", key |-> call.key, at |-> call.at, victim |-> Victim(t)]
    /\ UNCHANGED <<file, now, late, stray, wake, gone, faults>>

Evicted ==
    /\ call.step = "evict"
    /\ file' = [file EXCEPT ![call.victim] = None]
    /\ call' = [step |-> "trim", key |-> call.key, at |-> call.at]
    /\ UNCHANGED <<list, now, late, stray, wake, gone, faults>>

Registered ==
    /\ call.step = "trim" /\ Cardinality(Of(list, call.key[1])) <= PerTenant
    /\ call' = Idle
    /\ UNCHANGED <<file, list, now, late, stray, wake, gone, faults>>

-----------------------------------------------------------------------------
(* forget, forget_if_unchanged: the file first, then memory *)

Forget(k) ==
    /\ Free /\ (file[k] # None \/ list[k] # None)
    /\ call' = [step |-> "remove", key |-> k, by |-> "guest"]
    /\ UNCHANGED <<file, list, now, late, stray, wake, gone, faults>>

(* Mutant: whatever is enrolled under the token is pruned. *)
UnchangedAnyway(k, at) == list[k] # None

Unchanged(k, at) == list[k] = at

(* The forwarder's own call: not dropped, and no change if the record is   *)
(* no longer the one the wake was sent to.                                 *)
Prune ==
    /\ Free /\ wake # None /\ wake.said = "gone"
    /\ call' = IF list[wake.key] # None /\ Unchanged(wake.key, wake.at)
               THEN [step |-> "remove", key |-> wake.key, by |-> "forwarder"] ELSE Idle
    /\ wake' = None
    /\ UNCHANGED <<file, list, now, late, stray, gone, faults>>

Removed ==
    /\ call.step = "remove"
    /\ file' = [file EXCEPT ![call.key] = None]
    /\ list' = [list EXCEPT ![call.key] = None]
    /\ stray' = IF \E o \in late : o.key = call.key THEN stray ELSE stray \ {call.key}
    /\ call' = Idle
    /\ UNCHANGED <<now, late, wake, gone, faults>>

-----------------------------------------------------------------------------
(* deliver: the records are read under the mutex, the answer comes later *)

Send(k) ==
    /\ Free /\ wake = None /\ list[k] # None
    /\ wake' = [key |-> k, at |-> list[k], said |-> "nothing"]
    /\ UNCHANGED <<file, list, call, now, late, stray, gone, faults>>

(* What the service may say, and what classify_send makes of it. *)
Answers == {"successful", "permanent 410", "permanent unregistered", "permanent other",
            "opt out", "temporary", "403", "400", "silence"}

Classify(a) == IF a \in {"permanent 410", "permanent unregistered"} THEN "gone" ELSE "kept"

(* Only the first two mean the token is gone; a wake to be retried reads   *)
(* the registry again.                                                     *)
Answer(a) ==
    /\ wake # None /\ wake.said = "nothing"
    /\ gone' = gone \cup (IF a \in {"permanent 410", "permanent unregistered"} THEN {wake.at} ELSE {})
    /\ wake' = IF Classify(a) = "gone" THEN [wake EXCEPT !.said = "gone"] ELSE None
    /\ UNCHANGED <<file, list, call, now, late, stray, faults>>

-----------------------------------------------------------------------------
(* Faults *)

Guests == ~Free /\ ~(call.step = "remove" /\ call.by = "forwarder")
Writing == call.step = "write"
Removing == call.step \in {"evict", "remove"}
Target == IF call.step = "evict" THEN call.victim ELSE call.key

(* The guest's call is dropped where it awaits a file operation. *)
Dropped ==
    /\ Guests /\ (Writing \/ Removing) /\ faults < MaxFaults
    /\ late' = late \cup {[key |-> Target, to |-> IF Writing THEN call.at ELSE None]}
    /\ stray' = stray \cup {Target}
    /\ call' = Idle /\ faults' = faults + 1
    /\ UNCHANGED <<file, list, now, wake, gone>>

Lands(o) ==
    /\ late' = late \ {o}
    /\ file' = [file EXCEPT ![o.key] = o.to]
    /\ UNCHANGED <<list, call, now, stray, wake, gone, faults>>

(* A file operation fails and its error ends the call; or the call was     *)
(* dropped before the operation that would have published or removed.      *)
Fails ==
    /\ (Writing \/ Removing) /\ faults < MaxFaults
    /\ stray' = IF call.step = "evict" THEN stray \cup {Target} ELSE stray
    /\ call' = Idle /\ faults' = faults + 1
    /\ UNCHANGED <<file, list, now, late, wake, gone>>

(* open: scan.  Temporary files are removed, the rest is loaded, and over  *)
(* the global cap the oldest are dropped.                                  *)
Kept(m) == {k \in On(m) : Cardinality({j \in On(m) \ {k} : Older(m, k, j)}) < MaxDevices}

Restart ==
    /\ faults < MaxFaults
    /\ file' = [k \in Keys |-> IF k \in Kept(file) THEN file[k] ELSE None]
    /\ list' = file'
    /\ call' = Idle /\ late' = {} /\ stray' = {} /\ wake' = None
    /\ faults' = faults + 1
    /\ UNCHANGED <<now, gone>>

Next ==
    \/ \E k \in Keys : Register(k) \/ Forget(k) \/ Send(k)
    \/ Publish \/ Push \/ Evict \/ Evicted \/ Registered
    \/ Prune \/ Removed \/ \E a \in Answers : Answer(a)
    \/ Dropped \/ Fails \/ Restart \/ \E o \in late : Lands(o)

Spec == Init /\ [][Next]_vars

-----------------------------------------------------------------------------
(* What memory holds is what a restart would load: but for the records     *)
(* whose call was dropped or failed half way, file and memory agree        *)
(* whenever no call runs.  An acknowledged enrolment survives a restart.   *)
Mirrored == Free => \A k \in Keys \ stray : file[k] = list[k]

(* No sequence of enrolments, faults and restarts loads or admits more     *)
(* devices than the global cap.                                            *)
StoreBounded == Cardinality(On(list)) <= MaxDevices

(* An enrolment leaves memory only because the guest forgot it, because a  *)
(* newer one of its tenant took its place, because the service said that   *)
(* this enrolment, not an earlier one of the same token, is gone, or at a  *)
(* restart.                                                                *)
OnlyForCause ==
    [][\A k \in Keys :
        list[k] # None /\ list'[k] # list[k] =>
            \/ call.step = "remove" /\ call.key = k /\ call.by = "guest"
            \/ \E j \in Of(list, k[1]) : Older(list, k, j)
            \/ list[k] \in gone
            \/ faults' > faults]_vars

(* Published first, evicted second: no step, after which the enclave might *)
(* stop, leaves a tenant without a device on the pool that had one, but    *)
(* for a forget, a prune, a call dropped earlier and the scan at the cap.  *)
NeverEmptied ==
    [][\A t \in Tenants :
        Of(file, t) # {} /\ Of(file', t) = {} =>
            \/ call.step = "remove" /\ call.key[1] = t
            \/ \E k \in stray : k[1] = t
            \/ faults' > faults]_vars

(* The list a push goes by is the one a restart would load, and no longer  *)
(* than the cap (register, evict, prune, the scan at boot).                *)
RegistryHolds ==
  /\ Mirrored
  /\ StoreBounded

(* A device leaves only for cause, and none of its steps leaves its tenant *)
(* without one (register, forget, prune).                                  *)
DevicesStay ==
  /\ OnlyForCause
  /\ NeverEmptied

=============================================================================
