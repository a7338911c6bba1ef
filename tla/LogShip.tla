------------------------------ MODULE LogShip ------------------------------
(***************************************************************************)
(* Guest output on its way out of the enclave: the bounded queue and the   *)
(* collector of runtime/src/guest_io.rs, the second queue, the batches and *)
(* the forwarder of guest_io/cloudwatch.rs, and the order in which         *)
(* main.rs starts and drains them.  A record is a number, in the order the *)
(* lines were framed; 0 is the boot marker.  Both sinks of emit return     *)
(* without waiting, so the collector passes a record on in one step.       *)
(* Time is which records are older than MAX_RECORD_AGE, whether a backoff  *)
(* is over, and whether a deadline passes.  A count of lost records or     *)
(* batches is modelled by the set of the records counted.                  *)
(***************************************************************************)
EXTENDS Integers, Sequences, FiniteSets, Functions

CONSTANTS MaxRecords,     \* lines a guest writes in one run
          QueueCap,       \* LOG_QUEUE_CAPACITY
          TransportCap,   \* TRANSPORT_QUEUE_CAPACITY
          BatchMax,       \* MAX_BATCH_RECORDS
          ChunkMax,       \* what fits one PutLogEvents call
          MaxPending,     \* MAX_PENDING_BATCHES
          MaxLanded       \* bound on what lands in one run, resends included

ASSUME LogShipAssumption ==
    /\ {MaxRecords, QueueCap, TransportCap, MaxLanded} \subseteq Nat
    /\ {BatchMax, ChunkMax, MaxPending} \subseteq Nat \ {0}

VARIABLES framed,     \* lines framed so far
          queue,      \* guest to collector
          collector,  \* "runs", "drains" or "ended"
          transport,  \* collector to forwarder
          forwarder,  \* "waits", "delivers", "ended"
          current,    \* the batch being filled
          pending,    \* sealed batches, oldest first
          chunks,     \* the calls still to make for the oldest batch
          disabled,   \* the destination refused us for good
          backoff,    \* the next attempt is not due
          stopped,    \* the forwarder's last round has begun
          flushing,   \* and its delivery is the final one
          stale,      \* records up to this one are too old to send
          shutdown,   \* how far main has got with stopping
          landed,     \* what CloudWatch holds, in order of arrival
          counted,    \* records counted as lost
          unanswered, \* records of calls that landed and were never answered
          cut         \* a call failed, or a deadline ended something, on the way

logVars == <<framed, queue, collector, transport, forwarder, current, pending,
          chunks, disabled, backoff, stopped, flushing, stale, shutdown, landed,
          counted, unanswered, cut>>

held == <<current, pending, chunks>>
far  == <<landed, unanswered, stale>>

Records == 0 .. MaxRecords
InBatches == UNION {Range(pending[i]) : i \in DOMAIN pending}
Held == Range(queue) \cup Range(transport) \cup Range(current) \cup InBatches

\* main: the marker is the probe of the destination.  One that cannot be reached
\* leaves the marker to the forwarder; one that refuses stops the boot.
LogInit == /\ framed = 0 /\ queue = <<>> /\ collector = "runs"
        /\ transport = <<>> /\ forwarder = "waits"
        /\ current = <<>> /\ chunks = <<>>
        /\ \/ pending = <<>> /\ landed = <<0>>
           \/ pending = <<<<0>>>> /\ landed = <<>>
        /\ disabled = FALSE /\ backoff = FALSE
        /\ stopped = FALSE /\ flushing = FALSE
        /\ stale = 0 /\ shutdown = "serving"
        /\ counted = {} /\ unanswered = {} /\ cut = FALSE

----------------------------------------------------------------------------
(* The guest's side: LineFramer::emit, which never waits.                   *)

LineFramed ==
    /\ framed < MaxRecords
    /\ framed' = framed + 1
    /\ IF Len(queue) < QueueCap /\ collector # "ended"
       THEN queue' = Append(queue, framed') /\ UNCHANGED counted
       ELSE counted' = counted \cup {framed'} /\ UNCHANGED queue
    /\ UNCHANGED <<collector, transport, forwarder, held, disabled, backoff, stopped,
                   flushing, shutdown, far, cut>>

\* CloudWatchLogSink::emit: stamped and queued, or counted.
Emit(r) == IF Len(transport) < TransportCap /\ forwarder # "ended"
           THEN transport' = Append(transport, r) /\ UNCHANGED counted
           ELSE counted' = counted \cup {r} /\ UNCHANGED transport

Collect ==
    /\ collector # "ended" /\ queue # <<>>
    /\ Emit(Head(queue))
    /\ queue' = Tail(queue)
    /\ UNCHANGED <<framed, collector, forwarder, held, disabled, backoff, stopped,
                   flushing, shutdown, far, cut>>

\* The stop branch of the collector: what is queued, then the end.
Drain ==
    /\ collector = "runs" /\ shutdown = "collector"
    /\ collector' = "drains"
    /\ UNCHANGED <<framed, queue, transport, forwarder, held, disabled, backoff, stopped,
                   flushing, shutdown, far, counted, cut>>

CollectorEnds ==
    /\ collector = "drains" /\ queue = <<>>
    /\ collector' = "ended"
    /\ UNCHANGED <<framed, queue, transport, forwarder, held, disabled, backoff, stopped,
                   flushing, shutdown, far, counted, cut>>

----------------------------------------------------------------------------
(* forward: one round of its loop receives, wakes or stops, seals, and then *)
(* delivers if there is something to deliver and the time has come.         *)

\* What the sealing loop takes off current: all of it or only full batches, the
\* last of the former may be short.
Sealed(c, all) ==
    [i \in 1 .. (Len(c) + (IF all THEN BatchMax - 1 ELSE 0)) \div BatchMax |->
        SubSeq(c, (i - 1) * BatchMax + 1, IF i * BatchMax < Len(c) THEN i * BatchMax ELSE Len(c))]

\* A batch joins the deque, and the oldest leaves it when the deque is full: how
\* many have left when all have joined.
PushedOut(batches) == IF Len(batches) > MaxPending THEN Len(batches) - MaxPending ELSE 0

Seal(c, all) ==
    LET sealed == Sealed(c, all)
        batches == pending \o sealed
        out == PushedOut(batches)
    IN  /\ current' = SubSeq(c, Len(sealed) * BatchMax + 1, Len(c))
        /\ pending' = SubSeq(batches, out + 1, Len(batches))
        /\ counted' = counted \cup UNION {Range(batches[i]) : i \in 1 .. out}

Due == ~disabled /\ ~backoff /\ pending' # <<>>

\* The end of a round: deliver, wait again, or leave the loop.
Proceed == forwarder' = IF Due THEN "delivers" ELSE "waits"

Receive ==
    /\ forwarder = "waits" /\ ~stopped /\ transport # <<>>
    /\ transport' = Tail(transport)
    /\ Seal(Append(current, Head(transport)), FALSE)
    /\ Proceed
    /\ UNCHANGED <<framed, queue, collector, chunks, disabled, backoff, stopped,
                   flushing, shutdown, far, cut>>

LingerExpires ==
    /\ forwarder = "waits" /\ ~stopped /\ current # <<>>
    /\ Seal(current, TRUE)
    /\ Proceed
    /\ UNCHANGED <<framed, queue, collector, transport, chunks, disabled, backoff, stopped,
                   flushing, shutdown, far, cut>>

\* Mutant: the loop does not wake for the next attempt.
BackoffNeverEnds == FALSE /\ UNCHANGED logVars

\* sleep_until(next_attempt): with nothing pending, or nobody to send to, the
\* loop does not wake for it.
BackoffEnds ==
    /\ forwarder = "waits" /\ ~stopped /\ backoff /\ ~disabled /\ pending # <<>>
    /\ backoff' = FALSE
    /\ forwarder' = "delivers"
    /\ UNCHANGED <<framed, queue, collector, transport, held, disabled, stopped,
                   flushing, shutdown, far, counted, cut>>

AttemptDue ==
    /\ forwarder = "waits" /\ ~stopped /\ ~backoff /\ ~disabled /\ pending # <<>>
    /\ forwarder' = "delivers"
    /\ UNCHANGED <<framed, queue, collector, transport, held, disabled, backoff, stopped,
                   flushing, shutdown, far, counted, cut>>

\* The stop branch: the queue is drained and everything sealed before the last round.
StopForwarder ==
    /\ forwarder = "waits" /\ ~stopped /\ shutdown = "forwarder"
    /\ stopped' = TRUE
    /\ Seal(current \o transport, TRUE)
    /\ transport' = <<>>
    /\ Proceed
    /\ UNCHANGED <<framed, queue, collector, chunks, disabled, backoff,
                   flushing, shutdown, far, cut>>

\* put_chunks: the records of a batch that are not stale, cut into calls; each
\* says how many of the batch's records it accounts for.  The stamps of emit
\* never go back, so the stale ones are the first.
TooOld(r) == r <= stale /\ stale > 0
StaleOf(batch) == {k \in DOMAIN batch : TooOld(batch[k])}
Skipped(batch) == Cardinality(StaleOf(batch))

Calls(batch) == (Len(batch) - Skipped(batch) + ChunkMax - 1) \div ChunkMax

\* The records that the first i calls account for.
UpTo(batch, i) == IF i = 0 THEN 0
                  ELSE IF i = Calls(batch) THEN Len(batch)
                  ELSE Skipped(batch) + i * ChunkMax

Chunk(batch) ==
    [i \in 1 .. Calls(batch) |->
        [consumed |-> UpTo(batch, i) - UpTo(batch, i - 1),
         events |-> SubSeq(batch, Skipped(batch) + (i - 1) * ChunkMax + 1, UpTo(batch, i))]]

OpenBatch ==
    /\ forwarder = "delivers" /\ chunks = <<>> /\ pending # <<>>
    /\ counted' = counted \cup {Head(pending)[k] : k \in StaleOf(Head(pending))}
    /\ chunks' = Chunk(Head(pending))
    /\ pending' = IF chunks' = <<>> THEN Tail(pending) ELSE pending
    /\ UNCHANGED <<framed, queue, collector, transport, forwarder, current, disabled, backoff,
                   stopped, flushing, shutdown, far, cut>>

\* Every batch has gone.
Delivered ==
    /\ forwarder = "delivers" /\ pending = <<>>
    /\ forwarder' = "waits"
    /\ UNCHANGED <<framed, queue, collector, transport, held, disabled, backoff, stopped,
                   flushing, shutdown, far, counted, cut>>

\* Mutant: a batch is only let go as a whole.
DrainedWhole(n) == IF Len(chunks) = 1 THEN Tail(pending) ELSE pending

Drained(n) == IF Len(chunks) = 1 THEN Tail(pending)
              ELSE [pending EXCEPT ![1] = SubSeq(@, n + 1, Len(@))]

\* A 200, with the events CloudWatch refused inside it counted.
PutAccepted ==
    /\ forwarder = "delivers" /\ chunks # <<>>
    /\ \E k \in {0, Len(chunks[1].events)} :
          /\ landed' = landed \o SubSeq(chunks[1].events, k + 1, Len(chunks[1].events))
          /\ counted' = counted \cup Range(SubSeq(chunks[1].events, 1, k))
    /\ pending' = Drained(chunks[1].consumed)
    /\ chunks' = Tail(chunks)
    /\ UNCHANGED <<framed, queue, collector, transport, forwarder, current, disabled, backoff,
                   stopped, flushing, shutdown, unanswered, stale, cut>>

\* A transient failure: the batch keeps what no answered call covered.  The call
\* may have landed all the same.
PutFails ==
    /\ forwarder = "delivers" /\ chunks # <<>>
    /\ \/ UNCHANGED <<landed, unanswered>>
       \/ /\ Len(landed) < MaxLanded
          /\ landed' = landed \o chunks[1].events
          /\ unanswered' = unanswered \cup Range(chunks[1].events)
    /\ chunks' = <<>>
    /\ backoff' = TRUE
    /\ forwarder' = "waits"
    /\ cut' = TRUE
    /\ UNCHANGED <<framed, queue, collector, transport, current, pending, disabled,
                   stopped, flushing, shutdown, stale, counted>>

\* ResourceNotFound or AccessDenied: no more attempts, and what is held is dropped.
\* In the final flush the answer is thrown away.
PutRefused ==
    /\ forwarder = "delivers" /\ chunks # <<>>
    /\ chunks' = <<>>
    /\ IF flushing
       THEN UNCHANGED <<disabled, counted, pending>>
       ELSE disabled' = TRUE /\ counted' = counted \cup InBatches /\ pending' = <<>>
    /\ forwarder' = "waits"
    /\ cut' = TRUE
    /\ UNCHANGED <<framed, queue, collector, transport, current, backoff, stopped,
                   flushing, shutdown, far>>

\* After the loop: one more delivery of whatever is left, whatever the backoff.
FinalFlush ==
    /\ forwarder = "waits" /\ stopped /\ ~flushing
    /\ flushing' = TRUE
    /\ forwarder' = IF pending # <<>> /\ ~disabled THEN "delivers" ELSE "ended"
    /\ UNCHANGED <<framed, queue, collector, transport, held, disabled, backoff, stopped,
                   shutdown, far, counted, cut>>

ForwarderEnds ==
    /\ forwarder = "waits" /\ flushing
    /\ forwarder' = "ended"
    /\ UNCHANGED <<framed, queue, collector, transport, held, disabled, backoff, stopped,
                   flushing, shutdown, far, counted, cut>>

----------------------------------------------------------------------------
(* main, once serving has ended: the collector, then the forwarder, each    *)
(* with a deadline after which it is aborted.                               *)

Shutdown ==
    /\ \/ shutdown = "serving" /\ shutdown' = "collector"
       \/ shutdown = "collector" /\ collector = "ended" /\ shutdown' = "forwarder"
       \/ shutdown = "forwarder" /\ forwarder = "ended" /\ shutdown' = "stopped"
    /\ UNCHANGED <<framed, queue, collector, transport, forwarder, held, disabled, backoff,
                   stopped, flushing, far, counted, cut>>

DrainDeadline ==
    /\ \/ shutdown = "collector" /\ collector # "ended" /\ collector' = "ended" /\ UNCHANGED forwarder
       \/ shutdown = "forwarder" /\ forwarder # "ended" /\ forwarder' = "ended" /\ UNCHANGED collector
    /\ cut' = TRUE
    /\ UNCHANGED <<framed, queue, transport, held, disabled, backoff, stopped, flushing,
                   shutdown, far, counted>>

\* MAX_RECORD_AGE passes for one more record.
Age == /\ stale < framed
       /\ stale' = stale + 1
       /\ UNCHANGED <<framed, queue, collector, transport, forwarder, held, disabled, backoff,
                      stopped, flushing, shutdown, landed, unanswered, counted, cut>>

Collecting == Collect \/ Drain \/ CollectorEnds
Forwarding == \/ Receive \/ LingerExpires \/ BackoffEnds \/ AttemptDue \/ StopForwarder
              \/ OpenBatch \/ Delivered \/ PutAccepted \/ PutFails \/ PutRefused
              \/ FinalFlush \/ ForwarderEnds

LogNext == LineFramed \/ Collecting \/ Forwarding \/ Shutdown \/ DrainDeadline \/ Age

\* Both tasks run whenever they can, every deadline passes, and the destination
\* answers now and then.
LogFairness == /\ WF_logVars(Collecting) /\ WF_logVars(Forwarding)
            /\ WF_logVars(Shutdown /\ shutdown # "serving") /\ WF_logVars(DrainDeadline)
            /\ SF_logVars(PutAccepted) /\ SF_logVars(LingerExpires) /\ SF_logVars(Receive)

LogSpec == LogInit /\ [][LogNext]_logVars /\ LogFairness

----------------------------------------------------------------------------
(* Every variable keeps its type. *)
LogTypeOK ==
    /\ framed \in Records /\ stale \in Records
    /\ queue \in Seq(Records) /\ transport \in Seq(Records) /\ current \in Seq(Records)
    /\ collector \in {"runs", "drains", "ended"}
    /\ forwarder \in {"waits", "delivers", "ended"}
    /\ pending \in Seq(Seq(Records)) /\ Len(pending) <= MaxPending
    /\ \A i \in DOMAIN pending : Len(pending[i]) \in 1 .. BatchMax
    /\ chunks \in Seq([consumed : 1 .. BatchMax, events : Seq(Records)])
    /\ {disabled, backoff, stopped, flushing, cut} \subseteq BOOLEAN
    /\ shutdown \in {"serving", "collector", "forwarder", "stopped"}
    /\ landed \in Seq(Records)
    /\ counted \subseteq Records /\ unanswered \subseteq Records

(* No silent loss while the enclave serves: every line framed is in         *)
(* CloudWatch, or held on its way there, or counted as lost, through full   *)
(* queues, batches pushed out, stale records and refusals.                  *)
NoSilentLoss ==
    shutdown = "serving" => 1 .. framed \subseteq Held \cup Range(landed) \cup counted

(* Progress is recorded for each call: a record lands a second time only if *)
(* the call that carried it was never answered.                             *)
ResentOnlyUnanswered ==
    \A i, j \in DOMAIN landed : i # j /\ landed[i] = landed[j] => landed[i] \in unanswered

(* A guest's lines land in the order it wrote them, leaving aside resends.  *)
LandsInOrder ==
    \A i, j \in DOMAIN landed :
        i < j /\ landed[j] < landed[i] => landed[j] \in unanswered

(* A shutdown that no failure and no deadline cut short leaves nothing      *)
(* behind that a guest wrote before it: the collector is drained before the *)
(* forwarder is told to flush.                                              *)
ShutdownFlushes ==
    shutdown = "stopped" /\ ~cut => Held \subseteq {r \in Records : r > framed}

(* Stopping never waits on the destination: whatever CloudWatch does, the   *)
(* enclave stops.                                                           *)
EnclaveStops == shutdown = "collector" ~> shutdown = "stopped"

(* If the destination answers now and then, no line is held for ever: it    *)
(* lands or is counted, unless the enclave stops or was refused for good.   *)
LinesLand ==
    \A r \in 1 .. MaxRecords :
        (r \in Held) ~> (r \in Range(landed) \cup counted \/ shutdown # "serving" \/ disabled)

(* Every line lands in order or is counted as lost, twice only when an     *)
(* answer was lost, and what was queued at shutdown is flushed before the  *)
(* forwarder ends (Collect, Push, Seal, the delivery and the final flush). *)
LandsOrCounted ==
  /\ LogTypeOK
  /\ NoSilentLoss
  /\ ResentOnlyUnanswered
  /\ LandsInOrder
  /\ ShutdownFlushes

(* A shutdown ends, whatever the destination does, and while it answers    *)
(* what a guest wrote gets there (shutdown's deadline, the backoff).       *)
LogsEnd ==
  /\ EnclaveStops
  /\ LinesLand

=============================================================================
