------------------------------- MODULE Notify -------------------------------
(***************************************************************************)
(* The wake queue of runtime/src/notify/mod.rs: raise, called from any     *)
(* thread once a wake's writes are anchored, and the one forwarder task    *)
(* that drains the channel, sends, and holds back what to retry.           *)
(*                                                                         *)
(* A wake is its (tenant, category); references and texts are left out.    *)
(* A wake held back is due or not yet; what a push service answers for all *)
(* of a tenant's devices is one outcome: settled, or transient.            *)
(***************************************************************************)
EXTENDS Naturals, Sequences, FiniteSets

CONSTANTS
  Tenants, Categories,
  Raisers,        \* threads that may be in raise at once
  QueueCapacity,  \* QUEUE_CAPACITY
  MaxInflight,    \* MAX_INFLIGHT_PER_TENANT
  MaxPending,     \* MAX_PENDING
  MaxRaises       \* bound: calls of raise

ASSUME NotifyAssumption ==
  /\ \A n \in {QueueCapacity, MaxInflight, MaxPending} : n \in Nat \ {0}
  /\ MaxRaises \in Nat
  /\ IsFiniteSet(Raisers)

VARIABLES
  inflight,   \* Notifier::inflight
  raiser,     \* what each raiser is about to send: a key, or Nobody
  channel,    \* the mpsc channel
  pending,    \* the forwarder's queue
  carry,      \* what the current sweep holds back
  forwarder,  \* "select", "trim", "sweep", "send", "flush" or "stopped"
  sending,    \* the wake being sent
  stop,       \* shutdown has been asked for
  retried,    \* the push service has failed transiently
  raises      \* what the bound counts

vars == <<inflight, raiser, channel, pending, carry, forwarder, sending, stop, retried, raises>>

Keys   == Tenants \X Categories
Nobody == <<>>
(* fresh: never given to deliver.  due: its due_ms is not in the future. *)
Wake   == [key : Keys, fresh : BOOLEAN, due : BOOLEAN]
NoWake == [key |-> Nobody]

-----------------------------------------------------------------------------
(* raise, in its two critical sections. *)

Held(tenant) == {k \in inflight : k[1] = tenant}

RaiseInsert(r, k) ==
  /\ raiser[r] = Nobody /\ raises < MaxRaises
  /\ k \notin inflight /\ Cardinality(Held(k[1])) < MaxInflight
  /\ inflight' = inflight \cup {k}
  /\ raiser' = [raiser EXCEPT ![r] = k]
  /\ raises' = raises + 1
  /\ UNCHANGED <<channel, pending, carry, forwarder, sending, stop, retried>>

(* try_send fails when the channel is full or its receiver is gone. *)
RaiseSend(r) ==
  /\ raiser[r] # Nobody
  /\ IF Len(channel) < QueueCapacity /\ forwarder # "stopped"
     THEN channel' = Append(channel, raiser[r]) /\ UNCHANGED inflight
     ELSE inflight' = inflight \ {raiser[r]} /\ UNCHANGED channel
  /\ raiser' = [raiser EXCEPT ![r] = Nobody]
  /\ UNCHANGED <<pending, carry, forwarder, sending, stop, retried, raises>>

-----------------------------------------------------------------------------
(* forward: one turn of its loop is select, trim, sweep. *)

Received(k) == [key |-> k, fresh |-> TRUE, due |-> TRUE]

(* The biased select: shutdown first, then the channel, then the timer. *)
Receive ==
  /\ forwarder = "select" /\ ~stop /\ channel # <<>>
  /\ pending' = Append(pending, Received(Head(channel)))
  /\ channel' = Tail(channel)
  /\ forwarder' = "trim"
  /\ UNCHANGED <<inflight, raiser, carry, sending, stop, retried, raises>>

(* Time passes: the backoff of a held-back wake is over. *)
ComesDue ==
  /\ forwarder = "select"
  /\ \E n \in DOMAIN pending :
       ~pending[n].due /\ pending' = [pending EXCEPT ![n].due = TRUE]
  /\ UNCHANGED <<inflight, raiser, channel, carry, forwarder, sending, stop, retried, raises>>

Timer ==
  /\ forwarder = "select" /\ ~stop /\ channel = <<>>
  /\ \E n \in DOMAIN pending : pending[n].due
  /\ forwarder' = "trim"
  /\ UNCHANGED <<inflight, raiser, channel, pending, carry, sending, stop, retried, raises>>

(* Mutant: the newest is dropped, not the oldest. *)
TrimNewest ==
  /\ forwarder = "trim"
  /\ pending' = IF Len(pending) > MaxPending THEN SubSeq(pending, 1, MaxPending) ELSE pending
  /\ forwarder' = "sweep"
  /\ UNCHANGED <<inflight, raiser, channel, carry, sending, stop, retried, raises>>

(* Dropped oldest first. *)
Trim ==
  /\ forwarder = "trim"
  /\ pending' = IF Len(pending) > MaxPending
                THEN SubSeq(pending, Len(pending) - MaxPending + 1, Len(pending)) ELSE pending
  /\ forwarder' = "sweep"
  /\ UNCHANGED <<inflight, raiser, channel, carry, sending, stop, retried, raises>>

(* pop_front: carried if it is not due; else given to deliver, which       *)
(* releases its key first.                                                 *)
Sweep ==
  /\ forwarder = "sweep" /\ pending # <<>>
  /\ pending' = Tail(pending)
  /\ IF Head(pending).due
     THEN /\ sending' = Head(pending)
          /\ inflight' = inflight \ {Head(pending).key}
          /\ forwarder' = "send"
          /\ UNCHANGED carry
     ELSE /\ carry' = Append(carry, Head(pending))
          /\ UNCHANGED <<sending, inflight, forwarder>>
  /\ UNCHANGED <<raiser, channel, stop, retried, raises>>

(* The devices have answered: settled, or held back with a backoff. *)
Sent ==
  /\ forwarder = "send"
  /\ \/ UNCHANGED <<carry, retried>>
     \/ /\ carry' = Append(carry, [sending EXCEPT !.fresh = FALSE, !.due = FALSE])
        /\ retried' = TRUE
  /\ sending' = NoWake
  /\ forwarder' = "sweep"
  /\ UNCHANGED <<inflight, raiser, channel, pending, stop, raises>>

SweepEnds ==
  /\ forwarder = "sweep" /\ pending = <<>>
  /\ pending' = carry /\ carry' = <<>>
  /\ forwarder' = "select"
  /\ UNCHANGED <<inflight, raiser, channel, sending, stop, retried, raises>>

Shutdown ==
  /\ ~stop
  /\ stop' = TRUE
  /\ UNCHANGED <<inflight, raiser, channel, pending, carry, forwarder, sending, retried, raises>>

(* The stop branch: drain the channel, then deliver everything once. *)
Drain ==
  /\ forwarder = "select" /\ stop
  /\ pending' = pending \o [n \in DOMAIN channel |-> Received(channel[n])]
  /\ channel' = <<>>
  /\ forwarder' = "flush"
  /\ UNCHANGED <<inflight, raiser, carry, sending, stop, retried, raises>>

Flush ==
  /\ forwarder = "flush" /\ pending # <<>>
  /\ inflight' = inflight \ {Head(pending).key}
  /\ pending' = Tail(pending)
  /\ UNCHANGED <<raiser, channel, carry, forwarder, sending, stop, retried, raises>>

FlushEnds ==
  /\ forwarder = "flush" /\ pending = <<>>
  /\ forwarder' = "stopped"
  /\ UNCHANGED <<inflight, raiser, channel, pending, carry, sending, stop, retried, raises>>

Forward == Receive \/ Timer \/ Trim \/ Sweep \/ Sent \/ SweepEnds \/ Drain \/ Flush \/ FlushEnds

Init ==
  /\ inflight = {} /\ raiser = [r \in Raisers |-> Nobody]
  /\ channel = <<>> /\ pending = <<>> /\ carry = <<>>
  /\ forwarder = "select" /\ sending = NoWake
  /\ stop = FALSE /\ retried = FALSE /\ raises = 0

Next ==
  \/ \E r \in Raisers : RaiseSend(r) \/ \E k \in Keys : RaiseInsert(r, k)
  \/ Forward \/ ComesDue \/ Shutdown

Spec == Init /\ [][Next]_vars

(* The forwarder is a task of its own and each raiser is past its last     *)
(* await: both always go on.                                               *)
LiveSpec == Spec /\ WF_vars(Forward) /\ \A r \in Raisers : WF_vars(RaiseSend(r))

-----------------------------------------------------------------------------
(* Every variable keeps its type. *)
TypeOK ==
  /\ inflight \subseteq Keys
  /\ \A r \in Raisers : raiser[r] \in Keys \cup {Nobody}
  /\ channel \in Seq(Keys) /\ Len(channel) <= QueueCapacity
  /\ pending \in Seq(Wake) /\ carry \in Seq(Wake)
  /\ Len(pending) <= MaxPending + QueueCapacity + 1
  /\ forwarder \in {"select", "trim", "sweep", "send", "flush", "stopped"}
  /\ sending \in Wake \cup {NoWake}
  /\ stop \in BOOLEAN /\ retried \in BOOLEAN /\ raises \in 0..MaxRaises

(* The wakes of a set of keys still on their way to their first attempt. *)
Waiting(keys) ==
  Cardinality({r \in Raisers : raiser[r] \in keys})
  + Cardinality({n \in DOMAIN channel : channel[n] \in keys})
  + Cardinality({n \in DOMAIN pending : pending[n].key \in keys /\ pending[n].fresh})

(* No category is silenced: whatever is in inflight, and so swallows later *)
(* wakes of that category, has a wake behind it that will be attempted.    *)
(* Full channels, trims and retries all come between.                      *)
NeverSilenced == forwarder # "stopped" => \A k \in inflight : Waiting({k}) > 0

(* So a category that is in flight does not stay so, until shutdown.       *)
InflightClears == \A k \in Keys : k \in inflight ~> (k \notin inflight \/ stop)

(* "a second one for a category still waiting is the one already waiting": *)
(* until the push service has failed once, at most one wake of a key waits *)
(* for its first attempt.  A retry releases its key again, and with it the *)
(* mark of any newer wake, so no more is true after one.                   *)
Coalesced == ~retried => \A k \in Keys : Waiting({k}) <= 1

(* Until then one tenant never has more wakes waiting than its cap, so it  *)
(* cannot fill the channel all tenants share.                              *)
TenantCapped == ~retried => \A t \in Tenants : Waiting({t} \X Categories) <= MaxInflight

(* A mark stands for a wake that is on its way: none is left behind to     *)
(* silence its category, none is set twice, and no tenant has more than    *)
(* its cap (raise, the forwarder's trim and settle).                       *)
MarksHold ==
  /\ TypeOK
  /\ NeverSilenced
  /\ Coalesced
  /\ TenantCapped

=============================================================================
