------------------------------ MODULE MCNotify ------------------------------
(***************************************************************************)
(* Wake signals end to end: Notify with one tenant and a channel that      *)
(* fills up after a few raises, the registry of devices a wake goes to,    *)
(* and the client that signs and sends it. A behaviour is one of part; the *)
(* others stay as they started.                                            *)
(***************************************************************************)
EXTENDS Notify

CONSTANTS DTenants, Tokens, PerTenant, MaxDevices, MaxEnrolments, MaxFaults,
          PushDevices, Lifetime, MaxTime, MaxRevoked,
          None

VARIABLE part       \* "notify", "devices" or "push"
VARIABLES d_file, d_list, d_call, d_now, d_late, d_stray, d_wake, d_gone,
          d_faults
d_vars == <<d_file, d_list, d_call, d_now, d_late, d_stray, d_wake, d_gone,
            d_faults>>
VARIABLES p_now, p_step, p_asked, p_crossed, p_cached, p_used, p_left,
          p_retry, p_wake, p_stop, p_healthy, p_revoked
p_vars == <<p_now, p_step, p_asked, p_crossed, p_cached, p_used, p_left,
            p_retry, p_wake, p_stop, p_healthy, p_revoked>>

Devs == INSTANCE Devices WITH
  Tenants <- DTenants, Tokens <- Tokens, PerTenant <- PerTenant,
  MaxDevices <- MaxDevices, MaxEnrolments <- MaxEnrolments,
  MaxFaults <- MaxFaults, None <- None, file <- d_file,
  list <- d_list, call <- d_call, now <- d_now, late <- d_late,
  stray <- d_stray, wake <- d_wake, gone <- d_gone, faults <- d_faults
Client == INSTANCE Push WITH
  Devices <- PushDevices, Lifetime <- Lifetime, MaxTime <- MaxTime,
  MaxRevoked <- MaxRevoked, None <- None, now <- p_now, step <- p_step, asked <- p_asked, crossed <- p_crossed,
  cached <- p_cached, used <- p_used, left <- p_left, retry <- p_retry,
  wake <- p_wake, stop <- p_stop, healthy <- p_healthy, revoked <- p_revoked

(* What the proofs ask of these constants. *)
ASSUME RegistryAssumption == Devs!DevicesAssumption
ASSUME ClientAssumption == Client!PushAssumption

Sum == <<part, vars, d_vars, p_vars>>

SumInit ==
  /\ part \in {"notify", "devices", "push"}
  /\ Init
  /\ Devs!Init
  /\ Client!Init

SumNext ==
  /\ UNCHANGED part
  /\ \/ part = "notify" /\ Next /\ UNCHANGED <<d_vars, p_vars>>
     \/ part = "devices" /\ Devs!Next /\ UNCHANGED <<vars, p_vars>>
     \/ part = "push" /\ Client!Next /\ UNCHANGED <<vars, d_vars>>

(* The fairness of LiveSpec in Notify and of Spec in Push.                 *)
SumFairness ==
  /\ WF_vars(part = "notify" /\ Forward)
  /\ \A r \in Raisers : WF_vars(part = "notify" /\ RaiseSend(r))
  /\ WF_p_vars(part = "push" /\ (Client!Forward \/ Client!Fetched \/ Client!Settle))

SumSpec == SumInit /\ [][SumNext]_Sum /\ SumFairness

-----------------------------------------------------------------------------
(* The list a push goes by is the one a restart would load, and no longer  *)
(* than the cap (register, evict, prune, the scan at boot).                *)
RegistryHolds == part = "devices" => Devs!RegistryHolds

(* A device leaves only for cause, and none of its steps leaves its tenant *)
(* without one (register, forget, prune).                                  *)
DevicesStay == Devs!DevicesStay

(* A wake comes to an end, and its mark with it (raise, the forwarder):    *)
(* no request is signed with a credential that lapses before it arrives,   *)
(* and none is stuck behind one the service stopped accepting; once the    *)
(* metadata service and the push service answer, every wake is settled or  *)
(* dropped at shutdown (pinpoint.rs).                                      *)
WakesSettle ==
  /\ InflightClears
  /\ [](part = "push" => Client!NotLapsed)
  /\ Client!WakeSettles

=============================================================================
