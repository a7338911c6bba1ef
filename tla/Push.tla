-------------------------------- MODULE Push --------------------------------
(***************************************************************************)
(* The push service client (runtime/src/notify/pinpoint.rs, transport.rs)  *)
(* as the forwarder drives it: credentials cached and fetched again,       *)
(* requests signed at the time the forwarder read, answers classified, and *)
(* a wake tried again after a transient failure.                           *)
(*                                                                         *)
(* Time is counted in credential margins (CREDENTIAL_MARGIN, five minutes, *)
(* which is also the skew the service allows a signature).  An exchange is *)
(* bounded by EXCHANGE_TIMEOUT, seconds, so at most one margin begins      *)
(* while it runs; a sweep is a long series of exchanges and has no bound.  *)
(* The queue itself is module Notify: here one wake, of Devices devices.   *)
(***************************************************************************)
EXTENDS Integers

CONSTANTS
    Devices,      \* devices of the tenant that is woken
    Lifetime,     \* how long a credential lives, in margins
    MaxTime,      \* bound: margins that pass
    MaxRevoked,   \* bound: credentials the service stops accepting early
    None

(* A credential may be past its end when it is handed out, and a tenant    *)
(* may have no device.                                                     *)
PushAssumption ==
    \A n \in {Devices, Lifetime, MaxTime, MaxRevoked} : n \in Nat

VARIABLES
    now,       \* the trusted clock
    step,      \* "probe", "top", "select", "sign", "sent" or "stopped"
    asked,     \* now_ms: the time the forwarder last read
    crossed,   \* a margin began while this exchange ran
    cached,    \* PinpointClient::cached: [until, good, near], or None
    used,      \* the credential the request in flight is signed with
    left,      \* devices still to be sent this wake
    retry,     \* one of its devices failed transiently
    wake,      \* "none", "queued", "sending", "backoff"
    stop,      \* shutdown has been asked for
        \* what the probe found at start: the channel can deliver
    healthy,   \* from now on metadata and push service answer, credentials are whole
    revoked

vars == <<now, step, asked, crossed, cached, used, left, retry, wake, stop, healthy, revoked>>

(* near: handed out with a margin or less to live. *)
Credential == [until : 0..(MaxTime + Lifetime), good : BOOLEAN, near : BOOLEAN]

TypeOK ==
    /\ now \in 0..MaxTime /\ asked \in 0..MaxTime
    /\ step \in {"probe", "top", "select", "sign", "sent", "stopped"}
    /\ cached \in Credential \cup {None} /\ used \in Credential \cup {None}
    /\ left \in 0..Devices /\ retry \in BOOLEAN /\ crossed \in BOOLEAN
    /\ wake \in {"none", "queued", "sending", "backoff"}
    /\ stop \in BOOLEAN /\ healthy \in BOOLEAN /\ revoked \in 0..MaxRevoked

Init ==
    /\ now = 0 /\ step = "probe" /\ asked = 0 /\ crossed = FALSE
    /\ cached = None /\ used = None /\ left = 0 /\ retry = FALSE
    /\ wake = "none" /\ stop = FALSE /\ healthy = FALSE /\ revoked = 0

-----------------------------------------------------------------------------
(* The forwarder's loop, as far as it decides what time a request carries *)

(* The startup probe signs and sends one request of its own: a definitive  *)
(* refusal stops the boot, whatever else it finds is logged, with a        *)
(* credential cached or not.                                               *)
Probe ==
    /\ step = "probe"
    /\ cached' \in {None} \cup {[until |-> now + life, good |-> TRUE, near |-> life <= 1] : life \in 0..Lifetime}
    /\ step' \in {"top", "stopped"}
    /\ UNCHANGED <<now, asked, crossed, used, left, retry, wake, stop, healthy, revoked>>

Top ==
    /\ step = "top"
    /\ asked' = now /\ step' = "select"
    /\ UNCHANGED <<now, crossed, cached, used, left, retry, wake, stop, healthy, revoked>>

Raise ==
    /\ wake = "none" /\ ~stop
    /\ wake' = "queued"
    /\ UNCHANGED <<now, step, asked, crossed, cached, used, left, retry, stop, healthy, revoked>>

(* A wake received, or a backoff that is over: now is read again. *)
Sweep ==
    /\ step = "select" /\ ~stop /\ wake \in {"queued", "backoff"}
    /\ asked' = now
    /\ step' = "sign" /\ wake' = "sending" /\ left' = Devices /\ retry' = FALSE
    /\ UNCHANGED <<now, crossed, cached, used, stop, healthy, revoked>>

Stop ==
    /\ ~stop /\ stop' = TRUE
    /\ UNCHANGED <<now, step, asked, crossed, cached, used, left, retry, wake, healthy, revoked>>

(* The stop branch: what is queued is delivered once, at the time the      *)
(* forwarder read before it waited.                                        *)
Flush ==
    /\ step = "select" /\ stop
    /\ IF wake = "none"
       THEN step' = "stopped" /\ UNCHANGED <<left, retry, wake>>
       ELSE step' = "sign" /\ wake' = "sending" /\ left' = Devices /\ retry' = FALSE
    /\ UNCHANGED <<now, asked, crossed, cached, used, stop, healthy, revoked>>

(* deliver is done with the wake: gone, or held back unless this is the    *)
(* last round.                                                             *)
Delivered ==
    /\ step = "sign" /\ left = 0
    /\ wake' = IF retry /\ ~stop THEN "backoff" ELSE "none"
    /\ step' = IF stop THEN "select" ELSE "top"
    /\ UNCHANGED <<now, asked, crossed, cached, used, left, retry, stop, healthy, revoked>>

-----------------------------------------------------------------------------
(* One exchange *)

(* credentials: cached, and not about to expire at the time asked. *)
Usable == cached # None /\ cached.until > asked + 1

Sign ==
    /\ step = "sign" /\ left > 0 /\ Usable
    /\ used' = cached /\ step' = "sent" /\ crossed' = FALSE
    /\ UNCHANGED <<now, asked, cached, left, retry, wake, stop, healthy, revoked>>

(* The instance role's credential as the metadata service gives it, which  *)
(* may be near its end.                                                    *)
Fetch(life) ==
    /\ step = "sign" /\ left > 0 /\ ~Usable /\ (healthy => life = Lifetime)
    /\ cached' = [until |-> now + life, good |-> TRUE, near |-> life <= 1]
    /\ used' = cached' /\ step' = "sent" /\ crossed' = FALSE
    /\ UNCHANGED <<now, asked, left, retry, wake, stop, healthy, revoked>>

FetchFails ==
    /\ step = "sign" /\ left > 0 /\ ~Usable /\ ~healthy
    /\ left' = left - 1 /\ retry' = TRUE
    /\ UNCHANGED <<now, step, asked, crossed, cached, used, wake, stop, healthy, revoked>>

(* Mutant: a refused signature leaves the cache alone. *)
After403Kept == cached

After403 == None

(* The service refuses a signature that is out of date or made with a      *)
(* credential that is over: 403, transient.                                *)
Accepted == used.good /\ used.until > now /\ now - asked <= 1

Refuse ==
    /\ step = "sent" /\ ~Accepted
    /\ cached' = After403 /\ used' = None
    /\ left' = left - 1 /\ retry' = TRUE /\ step' = "sign"
    /\ UNCHANGED <<now, asked, crossed, wake, stop, healthy, revoked>>

(* Sent, gone or refused for good: nothing to retry.  An access denied is  *)
(* a 403 too.                                                              *)
Settle ==
    /\ step = "sent" /\ Accepted
    /\ cached' \in {cached, After403} /\ used' = None
    /\ left' = left - 1 /\ step' = "sign"
    /\ UNCHANGED <<now, asked, crossed, retry, wake, stop, healthy, revoked>>

(* A throttle, a 5xx, a response too long to read, or no answer within     *)
(* EXCHANGE_TIMEOUT.                                                       *)
Transient ==
    /\ step = "sent" /\ ~healthy
    /\ used' = None /\ left' = left - 1 /\ retry' = TRUE /\ step' = "sign"
    /\ UNCHANGED <<now, asked, crossed, cached, wake, stop, healthy, revoked>>

-----------------------------------------------------------------------------
(* Time, and the service's own doing *)

Tick ==
    /\ now < MaxTime
    /\ step \in {"select", "sign"} \/ (step = "sent" /\ ~crossed)
    /\ now' = now + 1 /\ crossed' = (step = "sent")
    /\ UNCHANGED <<step, asked, cached, used, left, retry, wake, stop, healthy, revoked>>

Revoke ==
    /\ cached # None /\ cached.good /\ revoked < MaxRevoked
    /\ cached' = [cached EXCEPT !.good = FALSE]
    /\ used' = IF used = cached THEN cached' ELSE used
    /\ revoked' = revoked + 1
    /\ UNCHANGED <<now, step, asked, crossed, left, retry, wake, stop, healthy>>

Heal ==
    /\ ~healthy /\ healthy' = TRUE
    /\ UNCHANGED <<now, step, asked, crossed, cached, used, left, retry, wake, stop, revoked>>

Forward == Probe \/ Top \/ Sweep \/ Flush \/ Delivered \/ Sign \/ FetchFails \/ Refuse \/ Transient
Fetched == \E life \in 0..Lifetime : Fetch(life)
Next == Forward \/ Fetched \/ Settle \/ Raise \/ Stop \/ Tick \/ Revoke \/ Heal

(* The forwarder is a task of its own and every exchange is bounded. *)
Spec == Init /\ [][Next]_vars /\ WF_vars(Forward \/ Fetched \/ Settle)

-----------------------------------------------------------------------------
SignedAt == IF crossed THEN now - 1 ELSE now
(* "A signature made with it could arrive after it lapsed": a request made *)
(* at the time the forwarder read is not overtaken by its credential's     *)
(* end, unless the credential was handed out that near to it.              *)
NotLapsed == step = "sent" /\ SignedAt = asked /\ ~used.near => used.until > now

(* A wake is not stuck behind a credential the service stopped accepting:  *)
(* a refusal clears the cache and the next try fetches again.  Once the    *)
(* metadata service hands out whole credentials and the push service       *)
(* answers, every wake is settled, or dropped at shutdown.                 *)
WakeSettles == healthy /\ wake # "none" ~> wake = "none" \/ step = "stopped"
=============================================================================
