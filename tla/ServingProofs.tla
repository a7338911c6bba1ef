---------------------------- MODULE ServingProofs ---------------------------
(***************************************************************************)
(* TenantPool, Watchdog, Auth and LineFramer, and with all but Auth the    *)
(* sum MCServing, for any number of tenants, calls and slots, for any      *)
(* timeouts, and for any writes of a guest.                                *)
(*                                                                         *)
(* A tenant's calls run one at a time.  OneAtATime is not inductive: it    *)
(* says nothing of a call that waits on a slot the pool has since          *)
(* replaced.  CheckedOutIsKept rules that out, and with the types it is    *)
(* inductive: eviction spares every slot in Busy, and a new slot is made   *)
(* only for a tenant without one.  The pool's bound is inductive on top of *)
(* that: what a checkout cannot evict is in flight, every slot for a call  *)
(* of its own, and the call that checks out is not among those.            *)
(*                                                                         *)
(* WatchdogHolds is about ticks that pass between things the runtime only  *)
(* counts, so the proof says how they add up (GuardInv): what is left of a *)
(* silent guest's patience, of its deadline and of its budget never        *)
(* exceeds the budget and the silent ticks together; its strikes and the   *)
(* ticks to its deadline never outrun the ticks since its last byte; and   *)
(* when a timeout comes, the epoch's deadline is at most a tick away.      *)
(***************************************************************************)
EXTENDS MCServing, FiniteSetTheorems, SequenceTheorems, WellFoundedInduction, TLAPS

(* TenantPool counts as this module does. *)
LEMMA SameCount ==
  ASSUME NEW S
  PROVE  /\ Pool!Cardinality(S) = Cardinality(S)
         /\ Pool!IsFiniteSet(S) <=> IsFiniteSet(S)
<1>1. Pool!Cardinality(S) = Cardinality(S)
  BY Zenon DEF Pool!Cardinality, Cardinality, Pool!IsFiniteSet, IsFiniteSet
<1>2. Pool!IsFiniteSet(S) <=> IsFiniteSet(S)
  BY Zenon DEF Pool!IsFiniteSet, IsFiniteSet
<1> QED BY <1>1, <1>2

LEMMA PoolAssumed ==
  /\ MaxTenants \in Nat \ {0}
  /\ NoSlot \notin Slots /\ Free \notin Calls
  /\ IsFiniteSet(Tenants) /\ IsFiniteSet(Calls)
BY SameCount, ServingAssumption DEF Pool!TenantPoolAssumption

PoolInv == Pool!TypeOK /\ Pool!CheckedOutIsKept

LEMMA PoolInitially == Pool!Init => PoolInv
BY DEF Pool!Init, PoolInv, Pool!TypeOK, Pool!CheckedOutIsKept, Pool!Idle, Pool!CheckedOut,
  Pool!Locked

LEMMA PoolInductive == PoolInv /\ [Pool!Next]_Pool!vars => PoolInv'
<1> SUFFICES ASSUME PoolInv, [Pool!Next]_Pool!vars PROVE PoolInv'
  OBVIOUS
<1> USE PoolAssumed DEF PoolInv, Pool!TypeOK, Pool!CheckedOutIsKept, Pool!Idle,
    Pool!CheckedOut, Pool!Locked,
        Pool!Records, Pool!Kinds
<1>1. ASSUME NEW c \in Calls, NEW t \in Tenants, NEW kind \in Pool!Kinds,
             Pool!CheckoutKept(c, t, kind)
      PROVE  PoolInv'
  BY <1>1 DEF Pool!CheckoutKept, Pool!Queue
<1>2. ASSUME NEW c \in Calls, NEW t \in Tenants, NEW kind \in Pool!Kinds, NEW s \in Slots,
             Pool!CheckoutNew(c, t, s, kind)
      PROVE  PoolInv'
  <2>1. PICK keep \in SUBSET Tenants :
          /\ Pool!Evicted(keep)
          /\ p_slots' = [u \in Tenants |->
                         IF u = t THEN s ELSE IF u \in keep THEN p_slots[u] ELSE NoSlot]
    BY <1>2 DEF Pool!CheckoutNew
  <2>2. ASSUME NEW d \in Calls, p_call[d].pc \in Pool!CheckedOut
        PROVE  p_call[d].tenant \in keep /\ p_call[d].tenant # t /\ d # c
    <3>1. p_call[d] \in Pool!Records
      BY <2>2
    <3>2. p_slots[p_call[d].tenant] = p_call[d].slot /\ p_call[d].slot # NoSlot
      BY <2>2, <3>1
    <3>3. d \in Pool!in_flight(p_slots[p_call[d].tenant])
      BY <2>2, <3>2 DEF Pool!in_flight
    <3> QED BY <1>2, <2>1, <2>2, <3>1, <3>2, <3>3 DEF Pool!CheckoutNew, Pool!Evicted,
        Pool!Busy, Pool!Kept
  <2>3. p_call' = [p_call EXCEPT ![c] = [pc |-> "queued", tenant |-> t, slot |-> s,
  kind |-> kind]]
    BY <1>2 DEF Pool!CheckoutNew, Pool!Queue
  <2>4. p_holder' = p_holder /\ p_made' = p_made \cup {s} /\ p_call[c].pc = "idle"
    BY <1>2 DEF Pool!CheckoutNew
  <2>5. Pool!TypeOK'
    BY <2>1, <2>3, <2>4
  <2>6. ASSUME NEW d \in Calls, p_call'[d].pc \in Pool!CheckedOut
        PROVE  p_slots'[p_call'[d].tenant] = p_call'[d].slot
    <3>1. CASE d = c
      BY <2>1, <2>3, <3>1
    <3>2. CASE d # c
      <4>1. p_call'[d] = p_call[d] /\ p_call[d] \in Pool!Records
        BY <2>3, <2>6, <3>2
      <4> QED BY <2>1, <2>2, <2>6, <4>1
    <3> QED BY <3>1, <3>2
  <2>7. ASSUME NEW d \in Calls, p_call'[d].pc \in Pool!Locked
        PROVE  p_holder'[p_call'[d].slot] = d
    BY <2>3, <2>4, <2>7
  <2> QED BY <2>5, <2>6, <2>7
<1>3. ASSUME NEW c \in Calls, Pool!Lock(c) PROVE PoolInv'
  BY <1>3 DEF Pool!Lock
<1>4. ASSUME NEW c \in Calls, Pool!GiveUp(c) PROVE PoolInv'
  BY <1>4 DEF Pool!GiveUp
<1>5. ASSUME NEW c \in Calls, Pool!DropCheckoutFirst(c) PROVE PoolInv'
  BY <1>5 DEF Pool!DropCheckoutFirst
<1>6. ASSUME NEW c \in Calls, Pool!DropGuardFirst(c) PROVE PoolInv'
  BY <1>6 DEF Pool!DropGuardFirst
<1>7. ASSUME NEW c \in Calls, Pool!DropRest(c) PROVE PoolInv'
  BY <1>7 DEF Pool!DropRest
<1>8. CASE UNCHANGED Pool!vars
  BY <1>8 DEF Pool!vars
<1> QED BY <1>1, <1>2, <1>3, <1>4, <1>5, <1>6, <1>7, <1>8 DEF Pool!Next

(* A slot that is checked out is never replaced, and a lock's holder is    *)
(* the call that got past it.                                              *)
THEOREM CheckoutsAreKept == Pool!Spec => []Pool!CheckedOutIsKept
<1>1. PoolInv => Pool!CheckedOutIsKept
  BY DEF PoolInv
<1> QED BY PoolInitially, PoolInductive, <1>1, PTL DEF Pool!Spec

-----------------------------------------------------------------------------
(* A slot is one tenant's, and one that was made. *)
SlotsApart ==
  /\ \A t \in Tenants : p_slots[t] # NoSlot => p_slots[t] \in p_made
  /\ \A t, u \in Tenants : p_slots[t] = p_slots[u] /\ p_slots[t] # NoSlot => t = u

LEMMA PoolApartInductive == PoolInv /\ SlotsApart /\ [Pool!Next]_Pool!vars => SlotsApart'
<1> SUFFICES ASSUME PoolInv, SlotsApart, [Pool!Next]_Pool!vars PROVE SlotsApart'
  OBVIOUS
<1>1. ASSUME NEW c \in Calls, NEW t \in Tenants, NEW kind \in Pool!Kinds, NEW s \in Slots,
             Pool!CheckoutNew(c, t, s, kind)
      PROVE  SlotsApart'
  <2>1. PICK keep \in SUBSET Tenants :
          p_slots' = [u \in Tenants |->
                      IF u = t THEN s ELSE IF u \in keep THEN p_slots[u] ELSE NoSlot]
    BY <1>1 DEF Pool!CheckoutNew
  <2>2. s \notin p_made /\ p_made' = p_made \cup {s}
    BY <1>1 DEF Pool!CheckoutNew
  <2> QED BY <2>1, <2>2 DEF SlotsApart
<1>2. CASE UNCHANGED <<p_slots, p_made>>
  BY <1>2 DEF SlotsApart
<1> QED BY <1>1, <1>2 DEF Pool!Next, Pool!CheckoutKept, Pool!Lock, Pool!GiveUp,
    Pool!DropCheckoutFirst,
           Pool!DropGuardFirst, Pool!DropRest, Pool!vars

(* Every tenant somebody is busy with has a call of its own in flight, and *)
(* the call that checks out is not one of those.                           *)
LEMMA BusyFewerThanCalls ==
  ASSUME PoolInv, SlotsApart, NEW c \in Calls, p_call[c].pc = "idle"
  PROVE  Cardinality(Pool!Busy) < Cardinality(Calls)
<1> DEFINE others == Calls \ {c}
           callOf == [t \in Pool!Busy |->
                        CHOOSE d \in others : d \in Pool!in_flight(p_slots[t])]
<1>1. IsFiniteSet(others) /\ Cardinality(others) = Cardinality(Calls) - 1
  BY PoolAssumed, FS_RemoveElement
<1>2. ASSUME NEW t \in Pool!Busy
      PROVE  callOf[t] \in others /\ callOf[t] \in Pool!in_flight(p_slots[t])
  <2>1. PICK d : d \in Pool!in_flight(p_slots[t])
    BY DEF Pool!Busy
  <2>2. d \in others
    BY <2>1 DEF Pool!in_flight, Pool!CheckedOut
  <2> QED BY <2>1, <2>2
<1>3. ASSUME NEW t \in Pool!Busy, NEW u \in Pool!Busy, callOf[t] = callOf[u] PROVE t = u
  BY <1>2, <1>3 DEF Pool!in_flight, Pool!Busy, Pool!Kept, SlotsApart
<1>4. callOf \in Injection(Pool!Busy, others)
  BY <1>2, <1>3 DEF Injection, IsInjective
<1> HIDE DEF callOf
<1>5. Cardinality(Pool!Busy) <= Cardinality(others) /\ IsFiniteSet(Pool!Busy)
  BY <1>1, <1>4, FS_Injection
<1> QED BY <1>1, <1>5, PoolAssumed, FS_CardinalityType

LEMMA PoolBoundInductive ==
  PoolInv /\ SlotsApart /\ Pool!PoolBounded /\ [Pool!Next]_Pool!vars => Pool!PoolBounded'
<1> SUFFICES ASSUME PoolInv, SlotsApart, Pool!PoolBounded, [Pool!Next]_Pool!vars
             PROVE  Pool!PoolBounded'
  OBVIOUS
<1>1. ASSUME NEW c \in Calls, NEW t \in Tenants, NEW kind \in Pool!Kinds, NEW s \in Slots,
             Pool!CheckoutNew(c, t, s, kind)
      PROVE  Pool!PoolBounded'
  <2>1. PICK keep \in SUBSET Tenants :
          /\ Pool!Evicted(keep)
          /\ p_slots' = [u \in Tenants |->
                         IF u = t THEN s ELSE IF u \in keep THEN p_slots[u] ELSE NoSlot]
    BY <1>1 DEF Pool!CheckoutNew
  <2>2. Pool!Kept' = keep \cup {t}
    BY <2>1, PoolAssumed DEF Pool!Kept, Pool!Evicted
  <2>3. IsFiniteSet(keep) /\ Cardinality(keep) \in Nat
    BY PoolAssumed, FS_Subset, FS_CardinalityType
  <2>4. Cardinality(Pool!Kept') <= Cardinality(keep) + 1
    <3>1. Cardinality(keep \cup {t}) = IF t \in keep THEN Cardinality(keep)
                                        ELSE Cardinality(keep) + 1
      BY <2>3, FS_AddElement
    <3> QED BY <2>2, <2>3, <3>1
  <2>5. CASE Cardinality(keep) < MaxTenants
    <3>1. Cardinality(Pool!Kept') \in Nat
      BY <2>2, <2>3, FS_AddElement, FS_CardinalityType
    <3> QED BY <2>3, <2>4, <2>5, <3>1, SameCount, PoolAssumed DEF Pool!PoolBounded
  <2>6. CASE keep = Pool!Busy
    <3>1. Cardinality(keep) < Cardinality(Calls)
      BY <1>1, <2>6, BusyFewerThanCalls DEF Pool!CheckoutNew
    <3>2. Cardinality(Pool!Kept') \in Nat
      BY <2>2, <2>3, FS_AddElement, FS_CardinalityType
    <3>3. Cardinality(Calls) \in Nat
      BY PoolAssumed, FS_CardinalityType
    <3> QED BY <2>3, <2>4, <3>1, <3>2, <3>3, SameCount DEF Pool!PoolBounded
  <2> QED BY <2>1, <2>5, <2>6, SameCount DEF Pool!Evicted
<1>2. CASE UNCHANGED p_slots
  BY <1>2 DEF Pool!PoolBounded, Pool!Kept
<1> QED BY <1>1, <1>2 DEF Pool!Next, Pool!CheckoutKept, Pool!Lock, Pool!GiveUp,
    Pool!DropCheckoutFirst,
           Pool!DropGuardFirst, Pool!DropRest, Pool!vars

PoolKept == PoolInv /\ SlotsApart /\ Pool!PoolBounded

LEMMA PoolKeptInitially == Pool!Init => PoolKept
<1> SUFFICES ASSUME Pool!Init PROVE SlotsApart /\ Pool!PoolBounded
  BY PoolInitially DEF PoolKept
<1>1. SlotsApart
  BY DEF Pool!Init, SlotsApart
<1>2. Pool!Kept = {}
  BY DEF Pool!Init, Pool!Kept
<1> QED BY <1>1, <1>2, FS_EmptySet, SameCount, PoolAssumed DEF Pool!PoolBounded

LEMMA PoolKeptInductive == PoolKept /\ [Pool!Next]_Pool!vars => PoolKept'
BY PoolInductive, PoolApartInductive, PoolBoundInductive
   DEF PoolKept

LEMMA PoolKeptInSum ==
  /\ SumInit => (part = "pool" => PoolKept)
  /\ (part = "pool" => PoolKept) /\ [SumNext]_Sum => (part = "pool" => PoolKept)'
<1>1. SumInit => (part = "pool" => PoolKept)
  BY PoolKeptInitially DEF SumInit
<1>2. ASSUME part = "pool" => PoolKept, [SumNext]_Sum PROVE (part = "pool" => PoolKept)'
  <2> SUFFICES ASSUME PoolKept, part = "pool", part' = "pool", [SumNext]_Sum PROVE PoolKept'
    BY <1>2 DEF SumNext, Sum
  <2> QED BY PoolKeptInductive DEF SumNext, Sum, p_vars, Pool!vars
<1> QED BY <1>1, <1>2

(* Two calls of one tenant never run at once, whatever the pool has        *)
(* forgotten between them.                                                 *)
THEOREM CallsAreSerial ==
  /\ Pool!Spec => []Pool!OneAtATime
  /\ SumSpec => []OneAtATime
<1>1. PoolKept => Pool!OneAtATime
  BY DEF PoolKept, PoolInv, Pool!CheckedOutIsKept, Pool!OneAtATime, Pool!CheckedOut,
    Pool!Locked
<1>2. Pool!Spec => []Pool!OneAtATime
  BY <1>1, PoolKeptInitially, PoolKeptInductive, PTL DEF Pool!Spec
<1>3. (part = "pool" => PoolKept) => OneAtATime
  BY <1>1 DEF OneAtATime
<1>4. SumSpec => []OneAtATime
  BY <1>3, PoolKeptInSum, PTL DEF SumSpec
<1> QED BY <1>2, <1>4

(* Whatever is evicted and made again, the pool outgrows its cap only by   *)
(* slots in use, and no checkout loses its slot (checkout,                 *)
(* evict_while_full).                                                      *)
THEOREM SlotsAreHeld ==
  /\ Pool!Spec => []Pool!SlotsHold
  /\ SumSpec => []SlotsHold
<1>1. PoolKept => Pool!SlotsHold
  BY DEF PoolKept, PoolInv, Pool!SlotsHold
<1>2. Pool!Spec => []Pool!SlotsHold
  BY <1>1, PoolKeptInitially, PoolKeptInductive, PTL DEF Pool!Spec
<1>3. (part = "pool" => PoolKept) => SlotsHold
  BY <1>1 DEF SlotsHold
<1>4. SumSpec => []SlotsHold
  BY <1>3, PoolKeptInSum, PTL DEF SumSpec
<1> QED BY <1>2, <1>4

-----------------------------------------------------------------------------
(* Watchdog.                                                               *)

TimeoutAt == IF w_head = None THEN HeadTimeout ELSE w_head + MaxInteraction
Patience == IF w_moved THEN SilentTicks ELSE SilentTicks - 1 - w_strikes
Allowed == Guard!Budget + SilentTicks

(* The head went out in time, and strikes are counted from it.             *)
HeadInTime ==
  /\ w_head # None => w_head <= HeadTimeout
  /\ w_head = None => w_strikes = 0

(* The epoch looks again within its budget, or at the next tick; an abort  *)
(* has nobody it waits for beyond that.                                    *)
LooksAgain ==
  /\ w_deadline <= Guard!Budget \/ w_deadline <= w_now + 1
  /\ w_guest \in Guard!Live =>
       /\ w_now <= TimeoutAt + (IF w_aborted THEN 1 ELSE 0)
       /\ w_aborted => w_deadline <= TimeoutAt + 1

(* Silence, strikes and the deadline add up.                               *)
SilenceCounted ==
  /\ w_quiet <= w_now /\ w_spun <= w_now
  /\ w_guest = "parked" => w_spun = 0
  /\ w_guest \in Guard!Live =>
       /\ w_strikes < SilentTicks
       /\ ~w_moved => w_strikes + w_now + 1 <= w_quiet + w_deadline
       /\ w_spun + Patience <= Allowed
       /\ w_spun + Patience + w_deadline <= Allowed + w_now

GuardInv == Guard!WatchdogHolds /\ HeadInTime /\ LooksAgain /\ SilenceCounted

LEMMA GuardAssumed ==
  /\ HeadTimeout \in Nat /\ MaxInteraction \in Nat /\ Channel \in Nat
  /\ SilentTicks \in Nat \ {0} /\ Guard!Budget \in Nat \ {0}
  /\ Guard!Budget <= MaxInteraction /\ Guard!Budget <= HeadTimeout + 1
  /\ None \notin Nat
BY ServingAssumption DEF Guard!WatchdogAssumption, Guard!Budget

LEMMA GuardInitially == Guard!Init => GuardInv
<1> SUFFICES ASSUME Guard!Init PROVE GuardInv
  OBVIOUS
<1> USE GuardAssumed DEF Guard!Init
<1>1. Guard!TypeOK
  <2>1. Guard!Latest \in Nat /\ Guard!Budget <= Guard!Latest
    BY DEF Guard!Latest
  <2>2. w_aborted \in BOOLEAN /\ w_moved \in BOOLEAN
    OBVIOUS
  <2>3. w_now = 0 /\ w_guest = "running" /\ w_deadline = Guard!Budget /\ w_head = None
        /\ w_buffered = 0 /\ w_strikes = 0 /\ w_quiet = 0 /\ w_spun = 0
    OBVIOUS
  <2> HIDE DEF Guard!Init
  <2> QED BY <2>1, <2>2, <2>3 DEF Guard!TypeOK, Guard!Live, Guard!Ended
<1>2. Guard!WatchdogHolds
  BY <1>1 DEF Guard!WatchdogHolds, Guard!ConversationsLive, Guard!RunawaysStop,
              Guard!DeadlinesHold
<1>3. HeadInTime /\ LooksAgain
  BY DEF HeadInTime, LooksAgain, TimeoutAt
<1>4. SilenceCounted
  BY DEF SilenceCounted, Patience, Allowed
<1> QED BY <1>2, <1>3, <1>4 DEF GuardInv

LEMMA GuardInductive == GuardInv /\ [Guard!Next]_Guard!vars => GuardInv'
<1> SUFFICES ASSUME GuardInv, [Guard!Next]_Guard!vars PROVE GuardInv'
  OBVIOUS
<1> USE GuardAssumed
    DEF GuardInv, Guard!WatchdogHolds, Guard!TypeOK, Guard!ConversationsLive,
        Guard!RunawaysStop, Guard!DeadlinesHold, HeadInTime, LooksAgain, SilenceCounted,
        TimeoutAt, Patience, Allowed, Guard!Live, Guard!Ended, Guard!Latest
<1>1. CASE Guard!Park
  BY <1>1 DEF Guard!Park
<1>2. CASE Guard!Resume
  BY <1>2 DEF Guard!Resume
<1>3. CASE Guard!Return
  BY <1>3 DEF Guard!Return
<1>4. CASE Guard!SetHead
  BY <1>4 DEF Guard!SetHead
<1>5. CASE Guard!Writes
  BY <1>5 DEF Guard!Writes
<1>6. CASE Guard!Drained
  BY <1>6 DEF Guard!Drained, Guard!Record
<1>7. CASE Guard!Received
  BY <1>7 DEF Guard!Received, Guard!Record
<1>8. CASE Guard!EpochCallback
  <2> USE DEF Guard!EpochCallback, Guard!StillWorking, Guard!Strikes, Guard!Due,
              Guard!YieldsToAbort
  <2>1. /\ w_guest = "running" /\ w_now >= w_deadline
        /\ ~w_moved' /\ w_moved' \in BOOLEAN
        /\ UNCHANGED <<w_now, w_head, w_aborted, w_buffered, w_quiet, w_spun>>
    BY <1>8
  <2>2. CASE w_moved
    <3>1. w_strikes' = 0 /\ w_deadline' = w_now + 1 /\ w_guest' \in {"running", "dropped"}
          /\ (w_aborted => w_guest' = "dropped")
      BY <1>8, <2>2
    <3> QED BY <2>1, <2>2, <3>1
  <2>3. CASE ~w_moved /\ w_head # None /\ w_strikes + 1 < SilentTicks
    <3>1. w_strikes' = w_strikes + 1 /\ w_deadline' = w_now + 1
          /\ w_guest' \in {"running", "dropped"} /\ (w_aborted => w_guest' = "dropped")
      BY <1>8, <2>3
    <3> QED BY <2>1, <2>3, <3>1
  <2>4. CASE ~w_moved /\ w_head # None /\ ~(w_strikes + 1 < SilentTicks)
    <3>1. w_strikes' = w_strikes + 1 /\ w_deadline' = w_deadline /\ w_guest' = "trapped"
      BY <1>8, <2>4
    <3> QED BY <2>1, <2>4, <3>1
  <2>5. CASE ~w_moved /\ w_head = None
    <3>1. w_strikes' = w_strikes /\ w_deadline' = w_deadline /\ w_guest' = "trapped"
      BY <1>8, <2>5
    <3> QED BY <2>1, <2>5, <3>1
  <2> QED BY <2>2, <2>3, <2>4, <2>5
<1>9. CASE Guard!TimesOut
  BY <1>9 DEF Guard!TimesOut, Guard!TimeoutDue
<1>10. CASE Guard!AbortLands
  BY <1>10 DEF Guard!AbortLands
<1>11. CASE Guard!Tick
  BY <1>11 DEF Guard!Tick, Guard!Due, Guard!TimeoutDue
<1>12. CASE UNCHANGED Guard!vars
  BY <1>12 DEF Guard!vars
<1> QED BY <1>1, <1>2, <1>3, <1>4, <1>5, <1>6, <1>7, <1>8, <1>9, <1>10, <1>11, <1>12
        DEF Guard!Next, Guard!Over

(* Whatever the timeouts are set to, a guest that talked in the last       *)
(* SILENT_TICKS_BEFORE_TRAP ticks is not trapped, one that spins is        *)
(* stopped within its budget and those ticks, and no call outlives its     *)
(* timeout by more than a tick (still_working, arm_watchdog, await_head,   *)
(* supervise).                                                             *)
THEOREM GuestsAreTold ==
  /\ Guard!Spec => []Guard!WatchdogHolds
  /\ SumSpec => []WatchdogHolds
<1>1. GuardInv => Guard!WatchdogHolds
  BY DEF GuardInv
<1>2. Guard!Spec => []Guard!WatchdogHolds
  BY <1>1, GuardInitially, GuardInductive, PTL DEF Guard!Spec
<1> DEFINE Part == part = "watchdog" => GuardInv
<1>3. SumInit => Part
  BY GuardInitially DEF SumInit
<1>4. Part /\ [SumNext]_Sum => Part'
  <2> SUFFICES ASSUME GuardInv, part = "watchdog", part' = "watchdog", [SumNext]_Sum
               PROVE  GuardInv'
    BY DEF SumNext, Sum
  <2> QED BY GuardInductive DEF SumNext, Sum, w_vars, Guard!vars
<1>5. Part => WatchdogHolds
  BY <1>1 DEF WatchdogHolds
<1>6. SumSpec => []WatchdogHolds
  BY <1>3, <1>4, <1>5, PTL DEF SumSpec
<1> QED BY <1>2, <1>6

-----------------------------------------------------------------------------
(* Auth, for any number of credentials, keys, scopes, requests in flight   *)
(* and restarts, and for tables of any capacity.                           *)
(*                                                                         *)
(* CredentialsHold is not inductive: an anchor cuts the images down to     *)
(* those written since it began, so the proof says what each handler       *)
(* stands on while it works (Stands): before the anchor of a registration  *)
(* every older image is without the record and every later one has it;     *)
(* before that of a revocation no older image has it revoked and every     *)
(* later one has.  One handler at a time works on a record's file (Alone), *)
(* because create_new succeeds once and a revocation begins once.          *)
(*                                                                         *)
(* OneInteractionPerApproval follows an approval from the challenge to the *)
(* request that takes it, the token and the interaction: it is at one      *)
(* place at a time (OnePlace), and what is there is the challenge as       *)
(* issued, signed (InHand, Approves).                                      *)

Blank(v) == v \in {None, Empty}
Active(k) == [key |-> k, active |-> TRUE]
Inactive(v) == IsRecord(v) /\ ~v.active
Acked(c) == \E k \in Keys : <<c, k>> \in acked

Reading(h)  == At(h, "options") \/ At(h, "verify")
Storing(h)  == At(h, "write") \/ At(h, "anchor")
Rewriting(h) == At(h, "revoke") \/ At(h, "revoke_write")
Revoking(h) == Rewriting(h) \/ At(h, "revoke_anchor")

(* Within a boot a record file comes to be in one order.                   *)
Ordered(c) ==
  \A image \in images :
    /\ file[c] = None => image[c] = None
    /\ file[c] = Empty => Blank(image[c])
    /\ c \notin revoking => image[c] # Torn /\ ~Inactive(image[c])

(* Nobody has read a record that was never written.                        *)
Unread(c) ==
  Blank(file[c]) => cache[c] = None /\ \A h \in Handlers : Reading(h) => handler[h].cred # c

(* Everybody has the key the client was told of.                           *)
KeyKept(c, k) ==
  /\ cache[c] # None => cache[c].key = k
  /\ \A h \in Handlers : handler[h] # None /\ handler[h].cred = c =>
       /\ Reading(h) => handler[h].rec.key = k
       /\ Rewriting(h) => handler[h].key = k

(* What a handler stands on, by the step it is at.                         *)
ToWrite(h) == At(h, "write") => ~Acked(handler[h].cred) /\ file[handler[h].cred] = Empty
ToAnchor(h) ==
  LET n == handler[h] IN
  At(h, "anchor") =>
    /\ ~Acked(n.cred) /\ file[n.cred] = Active(n.key)
    /\ \A image \in n.older : Blank(image[n.cred])
    /\ \A image \in images \ n.older : image[n.cred] = file[n.cred]
ToRewrite(h) ==
  LET n == handler[h] IN
  Rewriting(h) =>
    /\ n.cred \in revoking \ revoked
    /\ \A image \in images : ~Inactive(image[n.cred])
ToRevoke(h) ==
  LET n == handler[h] IN
  At(h, "revoke_anchor") =>
    /\ n.cred \in revoking \ revoked /\ Inactive(file[n.cred])
    /\ \A image \in n.older : ~Inactive(image[n.cred])
    /\ \A image \in images \ n.older : Inactive(image[n.cred])
Stands(h) == ToWrite(h) /\ ToAnchor(h) /\ ToRewrite(h) /\ ToRevoke(h)

Alone(g, h) ==
  /\ Storing(g) /\ Storing(h) /\ handler[g].cred = handler[h].cred => g = h
  /\ Revoking(g) /\ Revoking(h) /\ handler[g].cred = handler[h].cred => g = h

Recorded ==
  /\ \A c \in Credentials : Ordered(c) /\ Unread(c) /\ (c \in revoking => Acked(c))
  /\ \A p \in acked : KeyKept(p[1], p[2])
Handled ==
  /\ \A h \in Handlers : Stands(h)
  /\ \A g, h \in Handlers : Alone(g, h)

CredentialInv == CredentialsHold /\ Recorded /\ Handled

(* Where the approval of challenge i can be: with the challenge, with a    *)
(* request that has taken it, with a token, with an interaction let in.    *)
Held(i) == \E h \in Handlers : At(h, "verify") /\ handler[h].id = i
Granted(i) == \E t \in Tokens : tokens[t] # None /\ tokens[t].val.id = i
Spent(i) == \E n \in 1..Len(admitted) : admitted[n].id = i

(* It is at one place at a time, and nowhere before it was issued.         *)
OnePlace(i) ==
  /\ challenges[i] # None => issued[i] # None /\ ~Held(i) /\ ~Granted(i) /\ ~Spent(i)
  /\ Held(i) => issued[i] # None /\ ~Granted(i) /\ ~Spent(i)
  /\ Granted(i) => issued[i] # None /\ ~Spent(i)
  /\ Spent(i) => issued[i] # None

(* An approval: the challenge as issued, signed with the key it was issued *)
(* for.                                                                    *)
Approves(i, c, s) ==
  /\ issued[i].cred = c /\ issued[i].scope = s
  /\ [id |-> i, cred |-> c, key |-> issued[i].key] \in signed

InHand(h) ==
  At(h, "verify") => handler[h].entry = issued[handler[h].id] /\ handler[h].asr \in signed

ApprovalInv ==
  /\ OneInteractionPerApproval
  /\ \A i \in Ids : OnePlace(i) /\ (challenges[i] # None => challenges[i].val = issued[i])
  /\ \A h \in Handlers : InHand(h)
  /\ \A g, h \in Handlers :
       At(g, "verify") /\ At(h, "verify") /\ handler[g].id = handler[h].id => g = h
  /\ \A t \in Tokens : tokens[t] # None =>
       Approves(tokens[t].val.id, tokens[t].val.cred, tokens[t].val.scope)
  /\ \A t, u \in Tokens :
       tokens[t] # None /\ tokens[u] # None /\ tokens[t].val.id = tokens[u].val.id => t = u

-----------------------------------------------------------------------------
(* The tables.                                                             *)

LEMMA Inserted ==
  ASSUME NEW I, NEW V, NEW table \in Table(I, V), NEW i \in I, NEW v \in V
  PROVE  /\ Insert(table, i, v) \in Table(I, V)
         /\ \A j \in I : Insert(table, i, v)[j] \in {table[j], None} \/ (j = i /\ ~Full(table))
         /\ \A j \in Live(table) : Insert(table, i, v)[j] = table[j] \/ j = i
         /\ ~Full(table) => Insert(table, i, v)[i] = Entry(v)
         /\ Full(table) => \A j \in Live(table) : Insert(table, i, v)[j] = table[j]
BY DEF Insert, Sweep, Live, Entry, Table

LEMMA Removed ==
  ASSUME NEW I, NEW V, NEW table \in Table(I, V), NEW i \in I
  PROVE  /\ Remove(table, i) \in Table(I, V)
         /\ \A j \in I : Remove(table, i)[j] = IF j = i THEN None ELSE table[j]
BY DEF Remove, Table

LEMMA Expired ==
  ASSUME NEW I, NEW V, NEW table \in Table(I, V), NEW i \in Live(table), NEW new,
         new = [table EXCEPT ![i].dead = TRUE]
  PROVE  /\ new \in Table(I, V)
         /\ \A j \in I : j # i => new[j] = table[j]
         /\ table[i] # None /\ new[i] \in [dead : BOOLEAN, val : V] /\ new[i].val = table[i].val
BY DEF Live, Table

LEMMA TablesStep ==
  ASSUME TypeOK, [Next]_vars PROVE TablesOK' /\ issued' \in [Ids -> Pending \union {None}]
<1> DEFINE Goal == TablesOK /\ issued \in [Ids -> Pending \union {None}]
<1> USE DEF TablesOK, HistoryOK, history
<1>0. TablesOK /\ HistoryOK /\ PoolOK /\ handler \in [Handlers -> Handling \union {None}]
  BY DEF TypeOK
<1>i. ASSUME NEW i \in Ids, NEW c \in Credentials, NEW k \in Keys, NEW s \in Scopes,
             Issue(i, c, k, s)
      PROVE  /\ challenges' \in Table(Ids, Pending)
             /\ issued' \in [Ids -> Pending \union {None}]
  <2>1. [cred |-> c, key |-> k, scope |-> s] \in Pending
    BY DEF Pending
  <2>2. challenges' \in Table(Ids, Pending)
    BY <1>0, <1>i, <2>1, Inserted DEF Issue
  <2> QED BY <1>0, <1>i, <2>1, <2>2 DEF Issue
<1>g. ASSUME NEW i \in Ids, NEW e \in Pending, NEW a, NEW rec, Authenticated(i, e, a, rec)
      PROVE  tokens' \in Table(Tokens, Approved)
  <2>1. CASE UNCHANGED tokens
    BY <1>0, <2>1
  <2>2. ASSUME NEW t \in Tokens,
               tokens' = Insert(tokens, t, [cred |-> e.cred, scope |-> e.scope, id |-> i])
        PROVE  tokens' \in Table(Tokens, Approved)
    <3>1. [cred |-> e.cred, scope |-> e.scope, id |-> i] \in Approved
      BY DEF Approved, Pending
    <3> QED BY <1>0, <2>2, <3>1, Inserted
  <2> QED BY <1>g, <2>1, <2>2 DEF Authenticated, Grant
<1>1. ASSUME NEW c \in Credentials, NEW s \in Scopes, RequestOptionsCached(c, s) PROVE Goal'
  <2>1. cache[c].key \in Keys
    BY <1>0, <1>1 DEF RequestOptionsCached, PoolOK, StoredCredential
  <2> QED BY <1>0, <1>1, <1>i, <2>1 DEF RequestOptionsCached
<1>2. ASSUME NEW i \in Ids, NEW a \in signed, RequestVerifyCached(i, a) PROVE Goal'
  <2>1. challenges[i].val \in Pending
    BY <1>0, <1>2 DEF RequestVerifyCached, Table
  <2>2. challenges' \in Table(Ids, Pending)
    BY <1>0, <1>2, Removed DEF RequestVerifyCached, Consume
  <2>3. tokens' \in Table(Tokens, Approved)
    BY <1>0, <1>2, <1>g, <2>1 DEF RequestVerifyCached
  <2> QED BY <1>0, <1>2, <2>2, <2>3 DEF RequestVerifyCached
<1>3. ASSUME NEW t \in Tokens, NEW s \in Scopes, Redeem(t, s) PROVE Goal'
  <2>1. tokens' \in Table(Tokens, Approved)
    BY <1>0, <1>3, Removed DEF Redeem
  <2> QED BY <1>0, <1>3, <2>1 DEF Redeem
<1>4. ASSUME NEW r \in Registrations, RegisterOptions(r) PROVE Goal'
  <2>1. registrations' \in Table(Registrations, {"pending"})
    BY <1>0, <1>4, Inserted DEF RegisterOptions
  <2> QED BY <1>0, <1>4, <2>1 DEF RegisterOptions
<1>5. ASSUME NEW h \in Handlers, RequestOptionsFills(h) PROVE Goal'
  <2>1. handler[h].cred \in Credentials /\ handler[h].rec.key \in Keys /\ handler[h].scope \in Scopes
    BY <1>0, <1>5 DEF RequestOptionsFills, Handling, StoredCredential
  <2> QED BY <1>0, <1>5, <1>i, <2>1 DEF RequestOptionsFills
<1>6. ASSUME NEW h \in Handlers, NEW i \in Ids, NEW a \in signed, RequestVerifyReads(h, i, a) PROVE Goal'
  <2>1. challenges' \in Table(Ids, Pending)
    BY <1>0, <1>6, Removed DEF RequestVerifyReads, Consume
  <2> QED BY <1>0, <1>6, <2>1 DEF RequestVerifyReads
<1>7. ASSUME NEW h \in Handlers, RequestVerifyFills(h) PROVE Goal'
  <2>1. handler[h].id \in Ids /\ handler[h].entry \in Pending
    BY <1>0, <1>7 DEF RequestVerifyFills, Handling
  <2>2. tokens' \in Table(Tokens, Approved)
    BY <1>7, <1>g, <2>1 DEF RequestVerifyFills
  <2> QED BY <1>0, <1>7, <2>2 DEF RequestVerifyFills
<1>8. ASSUME NEW h \in Handlers, NEW r \in Registrations, NEW c \in Credentials, NEW k \in Keys,
             RegisterVerify(h, r, c, k)
      PROVE  Goal'
  <2>1. registrations' \in Table(Registrations, {"pending"})
    BY <1>0, <1>8, Removed DEF RegisterVerify
  <2> QED BY <1>0, <1>8, <2>1 DEF RegisterVerify
<1>9. ASSUME Expire PROVE Goal'
  <2>1. ASSUME NEW i \in Ids, Dies(challenges, i) PROVE challenges' \in Table(Ids, Pending)
    BY <1>0, <2>1, Expired DEF Dies
  <2>2. ASSUME NEW t \in Tokens, Dies(tokens, t) PROVE tokens' \in Table(Tokens, Approved)
    BY <1>0, <2>2, Expired DEF Dies
  <2>3. ASSUME NEW r \in Registrations, Dies(registrations, r)
        PROVE  registrations' \in Table(Registrations, {"pending"})
    BY <1>0, <2>3, Expired DEF Dies
  <2> QED BY <1>0, <1>9, <2>1, <2>2, <2>3 DEF Expire
<1>10. ASSUME Restart PROVE Goal'
  BY <1>0, <1>10 DEF Restart, Table
<1>11. ASSUME UNCHANGED <<challenges, tokens, registrations, issued>> PROVE Goal'
  BY <1>0, <1>11
<1>12. ASSUME NEW h \in Handlers,
              \/ \E c \in Credentials, s \in Scopes : RequestOptionsReads(h, c, s)
              \/ CreateNew(h) \/ WriteRecord(h) \/ Registered(h)
              \/ \E c \in Credentials : Revoke(h, c)
              \/ RevokeTruncates(h) \/ RevokeWrites(h) \/ Revoked(h)
              \/ GiveUp(h)
       PROVE  Goal'
  BY <1>12, <1>11 DEF RequestOptionsReads, CreateNew, WriteRecord, Registered, Revoke,
    RevokeTruncates,
     RevokeWrites, Revoked, GiveUp
<1>13. ASSUME NEW i \in Ids, NEW k \in Keys, Sign(i, k) PROVE Goal'
  BY <1>13, <1>11 DEF Sign
<1> HIDE DEF Goal
<1>14. Goal'
  BY <1>1, <1>2, <1>3, <1>4, <1>5, <1>6, <1>7, <1>8, <1>9, <1>10, <1>11, <1>12, <1>13
    DEF Next, vars
<1> QED BY <1>14 DEF Goal

-----------------------------------------------------------------------------
(* The other types.                                                        *)

(* What a handler carries, by the step it is at.                           *)
LEMMA Carried ==
  ASSUME TypeOK, NEW h \in Handlers, handler[h] # None
  PROVE  /\ handler[h].cred \in Credentials
         /\ Reading(h) => handler[h].rec \in StoredCredential
         /\ At(h, "verify") =>
              handler[h].id \in Ids /\ handler[h].entry \in Pending /\ handler[h].asr \in Assertion
         /\ At(h, "anchor") => handler[h].key \in Keys
         /\ At(h, "tenant_dir") \/ At(h, "write") \/ Rewriting(h) =>
              /\ handler[h].key \in Keys
              /\ \A step \in {"write", "revoke_write"} :
                   [handler[h] EXCEPT !.at = step]
                     = [at |-> step, cred |-> handler[h].cred, key |-> handler[h].key]
BY DEF TypeOK, Handling, Reading, Rewriting, At

(* A handler moves alone.                                                  *)
LEMMA Moved ==
  ASSUME TypeOK, NEW h \in Handlers, NEW x, handler' = [handler EXCEPT ![h] = x]
  PROVE  handler'[h] = x /\ \A g \in Handlers : g # h => handler'[g] = handler[g]
BY DEF TypeOK

LEMMA HandlersStep ==
  ASSUME TypeOK, [Next]_vars PROVE handler' \in [Handlers -> Handling \union {None}]
<1> DEFINE Goal == handler \in [Handlers -> Handling \union {None}]
<1>0. Goal
  BY DEF TypeOK
<1>1. ASSUME NEW h \in Handlers, NEW x \in Handling \union {None}, handler' = [handler EXCEPT ![h] = x]
      PROVE  Goal'
  BY <1>0, <1>1
<1>2. ASSUME UNCHANGED handler PROVE Goal'
  BY <1>0, <1>2
<1>3. ASSUME NEW h \in Handlers, NEW c \in Credentials, NEW s \in Scopes, RequestOptionsReads(h, c, s)
      PROVE  Goal'
  <2>1. file[c] \in Records
    BY DEF TypeOK, PoolOK, Images
  <2>2. IsRecord(file[c]) =>
          [at |-> "options", cred |-> c, rec |-> file[c], scope |-> s] \in Handling
    BY <2>1 DEF Handling, IsRecord, Records
  <2> QED BY <1>1, <1>3, <2>2 DEF RequestOptionsReads, LookupRead
<1>4. ASSUME NEW h \in Handlers, NEW i \in Ids, NEW a \in signed, RequestVerifyReads(h, i, a)
      PROVE  Goal'
  <2>1. /\ challenges[i].val \in Pending /\ a \in Assertion /\ a.cred \in Credentials
        /\ file[a.cred] \in Records
    BY <1>4 DEF TypeOK, PoolOK, TablesOK, HistoryOK, RequestVerifyReads, Table, Assertion,
      Images
  <2>2. IsRecord(file[a.cred]) =>
          [at |-> "verify", cred |-> a.cred, rec |-> file[a.cred], id |-> i,
           entry |-> challenges[i].val, asr |-> a] \in Handling
    BY <2>1 DEF Handling, IsRecord, Records
  <2> QED BY <1>1, <1>2, <1>4, <2>2 DEF RequestVerifyReads, LookupRead
<1>5. ASSUME NEW h \in Handlers, NEW r \in Registrations, NEW c \in Credentials, NEW k \in Keys,
             RegisterVerify(h, r, c, k)
      PROVE  Goal'
  <2>1. [at |-> "tenant_dir", cred |-> c, key |-> k] \in Handling
    BY DEF Handling
  <2> QED BY <1>1, <1>5, <2>1 DEF RegisterVerify
<1>6. ASSUME NEW h \in Handlers, NEW step \in {"write", "revoke_write"}, Goto(h, step),
             At(h, "tenant_dir") \/ At(h, "write") \/ Rewriting(h)
      PROVE  Goal'
  <2>1. handler[h] # None
    BY <1>6 DEF At, Rewriting
  <2>2. [handler[h] EXCEPT !.at = step] \in Handling
    BY ZenonT(60), <1>6, <2>1, Carried DEF Handling
  <2>3. handler' = [handler EXCEPT ![h] = [handler[h] EXCEPT !.at = step]]
    BY <1>6, <1>0 DEF Goto
  <2> QED BY <1>1, <2>2, <2>3
<1>7. ASSUME NEW h \in Handlers, CreateNew(h) PROVE Goal'
  BY <1>1, <1>6, <1>7 DEF CreateNew
<1>8. ASSUME NEW h \in Handlers, WriteRecord(h) PROVE Goal'
  <2>1. [at |-> "anchor", cred |-> handler[h].cred, key |-> handler[h].key, older |-> Older] \in Handling
    BY <1>8, Carried DEF WriteRecord, At, Handling, Older, TypeOK, PoolOK
  <2> QED BY <1>1, <1>8, <2>1 DEF WriteRecord
<1>9. ASSUME NEW h \in Handlers, NEW c \in Credentials, Revoke(h, c) PROVE Goal'
  <2>1. file[c] \in Records
    BY DEF TypeOK, PoolOK, Images
  <2>2. [at |-> "revoke", cred |-> c, key |-> file[c].key] \in Handling
    BY <1>9, <2>1 DEF Revoke, Handling, IsRecord, Records, StoredCredential
  <2> QED BY <1>1, <1>9, <2>2 DEF Revoke
<1>10. ASSUME NEW h \in Handlers, RevokeTruncates(h) PROVE Goal'
  BY <1>6, <1>10 DEF RevokeTruncates, Rewriting
<1>11. ASSUME NEW h \in Handlers, RevokeWrites(h) PROVE Goal'
  <2>1. [at |-> "revoke_anchor", cred |-> handler[h].cred, older |-> Older] \in Handling
    BY <1>11, Carried DEF RevokeWrites, At, Handling, Older, TypeOK, PoolOK
  <2> QED BY <1>1, <1>11, <2>1 DEF RevokeWrites
<1>12. ASSUME NEW h \in Handlers,
              \/ RequestOptionsFills(h) \/ RequestVerifyFills(h) \/ Registered(h) \/ Revoked(h)
              \/ GiveUp(h)
       PROVE  Goal'
  BY <1>1, <1>12 DEF RequestOptionsFills, RequestVerifyFills, Registered, Revoked, GiveUp
<1>13. ASSUME \/ \E c \in Credentials, s \in Scopes : RequestOptionsCached(c, s)
              \/ \E i \in Ids, a \in signed : RequestVerifyCached(i, a)
              \/ \E t \in Tokens, s \in Scopes : Redeem(t, s)
              \/ \E r \in Registrations : RegisterOptions(r)
              \/ \E i \in Ids, k \in Keys : Sign(i, k)
              \/ Expire \/ UNCHANGED vars
       PROVE  Goal'
  BY <1>2, <1>13 DEF RequestOptionsCached, RequestVerifyCached, Redeem, RegisterOptions,
    Sign, Expire, vars
<1>14. ASSUME Restart PROVE Goal'
  BY <1>14 DEF Restart
<1> HIDE DEF Goal
<1>15. Goal'
  BY <1>3, <1>4, <1>5, <1>7, <1>8, <1>9, <1>10, <1>11, <1>12, <1>13, <1>14 DEF Next
<1> QED BY <1>15 DEF Goal

-----------------------------------------------------------------------------
(* The records.                                                            *)

records == <<file, images, acked, revoking, revoked>>

(* What the steps do to the records, the cache and the handlers.           *)
Leaves(h) ==
  /\ \E x : handler' = [handler EXCEPT ![h] = x] /\ (x # None => x.at = "tenant_dir")
  /\ UNCHANGED <<records, cache>>
Reads(h, c) ==
  /\ handler[h] = None /\ IsRecord(file[c])
  /\ \E x : /\ handler' = [handler EXCEPT ![h] = x]
             /\ x.at \in {"options", "verify"} /\ x.cred = c /\ x.rec = file[c]
  /\ UNCHANGED <<records, cache>>
Fills(h) ==
  /\ Reading(h)
  /\ cache' = [cache EXCEPT ![handler[h].cred] = handler[h].rec]
  /\ handler' = [handler EXCEPT ![h] = None]
  /\ UNCHANGED records
Creates(h) ==
  /\ At(h, "tenant_dir") /\ file[handler[h].cred] = None
  /\ Write(handler[h].cred, Empty) /\ Goto(h, "write")
  /\ UNCHANGED <<cache, acked, revoking, revoked>>

Effect ==
  \/ UNCHANGED <<records, cache, handler>>
  \/ Restart
  \/ \E h \in Handlers :
       \/ Leaves(h) \/ Fills(h) \/ Creates(h) \/ WriteRecord(h) \/ Registered(h)
       \/ RevokeTruncates(h) \/ RevokeWrites(h) \/ Revoked(h)
       \/ \E c \in Credentials : Reads(h, c) \/ Revoke(h, c)

LEMMA Effects == ASSUME TypeOK, [Next]_vars PROVE Effect
<1>1. ASSUME \/ \E c \in Credentials, s \in Scopes : RequestOptionsCached(c, s)
             \/ \E i \in Ids, a \in signed : RequestVerifyCached(i, a)
             \/ \E t \in Tokens, s \in Scopes : Redeem(t, s)
             \/ \E r \in Registrations : RegisterOptions(r)
             \/ \E i \in Ids, k \in Keys : Sign(i, k)
             \/ Expire \/ UNCHANGED vars
      PROVE  Effect
  BY <1>1 DEF Effect, RequestOptionsCached, RequestVerifyCached, Redeem, RegisterOptions,
    Sign, Expire, vars,
              records, pool, history
<1>2. ASSUME NEW h \in Handlers, handler' = [handler EXCEPT ![h] = None], UNCHANGED <<records, cache>>
      PROVE  Effect
  BY <1>2 DEF Leaves, Effect
<1>3. ASSUME NEW h \in Handlers, NEW c \in Credentials, NEW x, LookupRead(h, c, x),
             x.at \in {"options", "verify"}, x.cred = c, x.rec = file[c], UNCHANGED <<records, cache>>
      PROVE  Effect
  <2>1. CASE IsRecord(file[c])
    <3>1. Reads(h, c)
      BY <1>3, <2>1 DEF Reads, LookupRead
    <3> QED BY <3>1 DEF Effect
  <2>2. CASE ~IsRecord(file[c])
    BY <1>2, <1>3, <2>2 DEF LookupRead
  <2> QED BY <2>1, <2>2
<1>4. ASSUME NEW h \in Handlers, NEW c \in Credentials, NEW s \in Scopes, RequestOptionsReads(h, c, s)
      PROVE  Effect
  BY <1>3, <1>4 DEF RequestOptionsReads, records, pool, history
<1>5. ASSUME NEW h \in Handlers, NEW i \in Ids, NEW a \in signed, RequestVerifyReads(h, i, a)
      PROVE  Effect
  <2>1. a.cred \in Credentials
    BY DEF TypeOK, HistoryOK, Assertion
  <2>2. CASE UNCHANGED handler
    BY <1>5, <2>2 DEF RequestVerifyReads, Effect, records, pool, history
  <2> QED BY <1>3, <1>5, <2>1, <2>2 DEF RequestVerifyReads, records, pool, history
<1>6. ASSUME NEW h \in Handlers, RequestOptionsFills(h) \/ RequestVerifyFills(h) PROVE Effect
  <2>1. Fills(h)
    BY <1>6 DEF RequestOptionsFills, RequestVerifyFills, Fills, LookupFill, Reading, At,
      records, pool, history
  <2> QED BY <2>1 DEF Effect
<1>7. ASSUME NEW h \in Handlers, NEW r \in Registrations, NEW c \in Credentials, NEW k \in Keys,
             RegisterVerify(h, r, c, k)
      PROVE  Effect
  <2>1. CASE registrations[r].dead
    BY <1>2, <1>7, <2>1 DEF RegisterVerify, records, pool, history
  <2>2. CASE ~registrations[r].dead
    <3>1. handler' = [handler EXCEPT ![h] = [at |-> "tenant_dir", cred |-> c, key |-> k]]
      BY <1>7, <2>2 DEF RegisterVerify
    <3>2. Leaves(h)
      BY <1>7, <3>1 DEF RegisterVerify, Leaves, records, pool, history
    <3> QED BY <3>2 DEF Effect
  <2> QED BY <2>1, <2>2
<1>8. ASSUME NEW h \in Handlers, CreateNew(h) PROVE Effect
  <2>1. CASE file[handler[h].cred] = None
    <3>1. Creates(h)
      BY <1>8, <2>1 DEF CreateNew, Creates, history
    <3> QED BY <3>1 DEF Effect
  <2>2. CASE file[handler[h].cred] # None
    BY <1>2, <1>8, <2>2 DEF CreateNew, records, pool, history
  <2> QED BY <2>1, <2>2
<1>9. ASSUME NEW h \in Handlers, GiveUp(h) PROVE Effect
  BY <1>2, <1>9 DEF GiveUp, records, pool, history
<1>10. ASSUME NEW h \in Handlers,
              \/ WriteRecord(h) \/ Registered(h) \/ RevokeTruncates(h) \/ RevokeWrites(h) \/ Revoked(h)
              \/ \E c \in Credentials : Revoke(h, c)
       PROVE  Effect
  BY <1>10 DEF Effect
<1>11. ASSUME Restart PROVE Effect
  BY <1>11 DEF Effect
<1> QED BY <1>1, <1>4, <1>5, <1>6, <1>7, <1>8, <1>9, <1>10, <1>11 DEF Next

(* What is left to prove of the invariant.                                 *)
Core ==
  /\ PoolOK /\ acked \subseteq Credentials \X Keys /\ revoking \subseteq Credentials
  /\ revoked \subseteq revoking
  /\ RegistrationHolds /\ RevocationHolds /\ CacheKeyIsRecorded
  /\ Recorded /\ Handled

LEMMA CoreOf == ASSUME CredentialInv PROVE Core /\ TypeOK
BY DEF CredentialInv, CredentialsHold, TypeOK, HistoryOK, Core

(* A handler that only reads, or is gone, stands on nothing.               *)
LEMMA Aside ==
  ASSUME CredentialInv, NEW h \in Handlers, NEW x, handler' = [handler EXCEPT ![h] = x],
         x # None => x.at \in {"tenant_dir", "options", "verify"}, UNCHANGED records
  PROVE  /\ RegistrationHolds' /\ RevocationHolds' /\ Handled'
         /\ \A c \in Credentials : Ordered(c)' /\ (c \in revoking => Acked(c))'
<1> USE DEF At, Reading, Storing, Rewriting, Revoking
<1>1. Core /\ TypeOK /\ UNCHANGED <<file, images, acked, revoking, revoked>>
  BY CoreOf DEF records
<1>2. handler'[h] = x /\ \A g \in Handlers : g # h => handler'[g] = handler[g]
  BY <1>1, Moved
<1>3. RegistrationHolds' /\ RevocationHolds'
  BY <1>1 DEF Core, RegistrationHolds, RevocationHolds, IsRecord
<1>4. ASSUME NEW c \in Credentials PROVE Ordered(c)' /\ (c \in revoking => Acked(c))'
  BY <1>1 DEF Core, Recorded, Ordered, Acked, Blank, Inactive, IsRecord
<1>5. ASSUME NEW g \in Handlers PROVE Stands(g)'
  <2>1. CASE g = h
    BY <1>2, <2>1 DEF Stands, ToWrite, ToAnchor, ToRewrite, ToRevoke
  <2>2. CASE g # h
    <3>1. Stands(g) /\ handler'[g] = handler[g]
      BY <1>1, <1>2, <2>2 DEF Core, Handled
    <3>2. ToWrite(g)' /\ ToRewrite(g)'
      BY <1>1, <3>1 DEF Stands, ToWrite, ToRewrite, Acked, Inactive, IsRecord
    <3>3. ToAnchor(g)'
      BY <1>1, <3>1 DEF Stands, ToAnchor, Acked, Blank
    <3>4. ToRevoke(g)'
      BY <1>1, <3>1 DEF Stands, ToRevoke, Inactive, IsRecord
    <3> QED BY <3>2, <3>3, <3>4 DEF Stands
  <2> QED BY <2>1, <2>2
<1>6. ASSUME NEW f \in Handlers, NEW g \in Handlers PROVE Alone(f, g)'
  <2>1. Alone(f, g)
    BY <1>1 DEF Core, Handled
  <2> QED BY <1>2, <2>1 DEF Alone
<1> QED BY <1>3, <1>4, <1>5, <1>6 DEF Handled

LEMMA LeavesStep ==
  ASSUME CredentialInv, NEW h \in Handlers, Leaves(h) PROVE Core'
<1> USE DEF At, Reading, Rewriting
<1>1. Core /\ TypeOK /\ UNCHANGED <<file, images, cache, acked, revoking, revoked>>
  BY CoreOf DEF Leaves, records
<1>2. PICK x : handler' = [handler EXCEPT ![h] = x] /\ (x # None => x.at = "tenant_dir")
  BY DEF Leaves
<1>3. handler'[h] = x /\ \A g \in Handlers : g # h => handler'[g] = handler[g]
  BY <1>1, <1>2, Moved
<1>4. /\ RegistrationHolds' /\ RevocationHolds' /\ Handled'
      /\ \A c \in Credentials : Ordered(c)' /\ (c \in revoking => Acked(c))'
  BY <1>2, Aside DEF Leaves
<1>5. PoolOK' /\ CacheKeyIsRecorded'
  BY <1>1, <1>2, <1>3 DEF Core, PoolOK, CacheKeyIsRecorded, IsRecord
<1>6. ASSUME NEW c \in Credentials PROVE Unread(c)'
  BY <1>1, <1>2, <1>3 DEF Core, Recorded, Unread, Blank
<1>7. ASSUME NEW p \in acked PROVE KeyKept(p[1], p[2])'
  BY <1>1, <1>2, <1>3 DEF Core, Recorded, KeyKept
<1>8. Recorded'
  BY <1>1, <1>4, <1>6, <1>7 DEF Recorded
<1> QED BY <1>1, <1>4, <1>5, <1>8 DEF Core

(* A lookup holds what the file has, which is what was acknowledged.       *)
LEMMA ReadsStep ==
  ASSUME CredentialInv, NEW h \in Handlers, NEW c \in Credentials, Reads(h, c)
  PROVE  Core'
<1> USE DEF At, Reading, Rewriting
<1>1. Core /\ TypeOK /\ UNCHANGED <<file, images, cache, acked, revoking, revoked>>
  BY CoreOf DEF Reads, records
<1>2. PICK x : /\ handler' = [handler EXCEPT ![h] = x]
               /\ x.at \in {"options", "verify"} /\ x.cred = c /\ x.rec = file[c]
  BY DEF Reads
<1>3. handler'[h] = x /\ \A g \in Handlers : g # h => handler'[g] = handler[g]
  BY <1>1, <1>2, Moved
<1>4. /\ RegistrationHolds' /\ RevocationHolds' /\ Handled'
      /\ \A d \in Credentials : Ordered(d)' /\ (d \in revoking => Acked(d))'
  BY <1>2, Aside DEF Reads
<1>5. PoolOK' /\ CacheKeyIsRecorded'
  BY <1>1, <1>2, <1>3 DEF Core, PoolOK, CacheKeyIsRecorded, IsRecord
<1>6. ASSUME NEW d \in Credentials PROVE Unread(d)'
  <2>1. d = c => ~Blank(file[d])
    BY DEF Reads, Blank, IsRecord
  <2> QED BY <1>1, <1>2, <1>3, <2>1 DEF Core, Recorded, Unread, Blank
<1>7. ASSUME NEW p \in acked PROVE KeyKept(p[1], p[2])'
  <2>1. p[1] = c => file[c].key = p[2]
    BY <1>1 DEF Core, RegistrationHolds, PoolOK, Reads
  <2> QED BY <1>1, <1>2, <1>3, <2>1 DEF Core, Recorded, KeyKept
<1>8. Recorded'
  BY <1>1, <1>4, <1>6, <1>7 DEF Recorded
<1> QED BY <1>1, <1>4, <1>5, <1>8 DEF Core

(* What a lookup puts in the cache has the key on record, though the file  *)
(* may have been rewritten since it was read.                              *)
LEMMA FillsStep ==
  ASSUME CredentialInv, NEW h \in Handlers, Fills(h) PROVE Core'
<1> USE DEF At, Reading, Rewriting
<1> DEFINE c == handler[h].cred
<1>1. Core /\ TypeOK /\ UNCHANGED <<file, images, acked, revoking, revoked>>
  BY CoreOf DEF Fills, records
<1>2. /\ handler'[h] = None /\ \A g \in Handlers : g # h => handler'[g] = handler[g]
  BY <1>1, Moved DEF Fills
<1>3. c \in Credentials /\ handler[h].rec \in StoredCredential /\ handler[h] # None
  BY <1>1, Carried DEF Fills
<1>4. /\ RegistrationHolds' /\ RevocationHolds' /\ Handled'
      /\ \A d \in Credentials : Ordered(d)' /\ (d \in revoking => Acked(d))'
  BY Aside DEF Fills
<1>5. /\ cache'[c] = handler[h].rec /\ \A d \in Credentials : d # c => cache'[d] = cache[d]
      /\ cache' \in [Credentials -> StoredCredential \union {None}]
  BY <1>1, <1>3 DEF Core, PoolOK, Fills
<1>6. PoolOK'
  BY <1>1, <1>5 DEF Core, PoolOK
<1>7. ~Blank(file[c])
  BY <1>1, <1>3 DEF Core, Recorded, Unread, Fills
<1>8. CacheKeyIsRecorded'
  <2> SUFFICES ASSUME NEW d \in Credentials
               PROVE  /\ cache'[d] # None => file[d] # None /\ (IsRecord(file[d]) => file[d].key = cache'[d].key)
                      /\ \A g \in Handlers :
                           /\ (At(g, "options") \/ At(g, "verify"))' /\ handler'[g].cred = d
                           /\ IsRecord(file[d])
                           => file[d].key = handler'[g].rec.key
    BY <1>1 DEF CacheKeyIsRecorded, IsRecord
  <2> QED BY <1>1, <1>2, <1>3, <1>5, <1>7 DEF Core, CacheKeyIsRecorded, Fills, Blank
<1>9. ASSUME NEW d \in Credentials PROVE Unread(d)'
  BY <1>1, <1>2, <1>5, <1>7 DEF Core, Recorded, Unread, Blank
<1>10. ASSUME NEW p \in acked PROVE KeyKept(p[1], p[2])'
  BY <1>1, <1>2, <1>3, <1>5 DEF Core, Recorded, KeyKept, Fills
<1>11. Recorded'
  BY <1>1, <1>4, <1>9, <1>10 DEF Recorded
<1> QED BY <1>1, <1>4, <1>6, <1>8, <1>11 DEF Core

(* A record is none of the three marks.                                    *)
LEMMA ARecord ==
  ASSUME NEW k \in Keys, NEW b \in BOOLEAN
  PROVE  LET v == [key |-> k, active |-> b] IN
         v \in StoredCredential /\ IsRecord(v) /\ v.key = k /\ v.active = b
<1> DEFINE v == [key |-> k, active |-> b]
<1>1. v \in StoredCredential /\ v.key = k /\ v.active = b
  BY DEF StoredCredential
<1> HIDE DEF v
<1>2. IsRecord(v)
  BY <1>1, AuthAssumption DEF IsRecord
<1> QED BY <1>1, <1>2 DEF v

(* A record the client was told of is there.                               *)
LEMMA AckedIsWritten ==
  ASSUME CredentialInv, NEW c \in Credentials, Acked(c) PROVE ~Blank(file[c])
BY CoreOf DEF Core, PoolOK, RegistrationHolds, Acked, Blank

(* Of the handlers that work on one record's file, there is one.           *)
LEMMA Sole ==
  ASSUME CredentialInv, NEW g \in Handlers, NEW h \in Handlers,
         handler[g].cred = handler[h].cred, Storing(g) \/ Revoking(g),
         \/ Storing(h) \/ Revoking(h)
         \/ At(h, "tenant_dir") /\ file[handler[h].cred] = None
  PROVE  g = h
<1> DEFINE c == handler[h].cred
<1>1. c \in Credentials /\ handler[g] # None /\ handler[h] # None
  BY CoreOf, Carried DEF Storing, Revoking, Rewriting, At
<1>2. Stands(g) /\ Stands(h) /\ Alone(g, h) /\ (c \in revoking => Acked(c))
  BY <1>1, CoreOf DEF Core, Handled, Recorded
<1>3. ASSUME NEW f \in {g, h} PROVE Revoking(f) => Acked(c)
  BY <1>2, <1>3 DEF Stands, ToRewrite, ToRevoke, Revoking
<1>4. ASSUME NEW f \in {g, h} PROVE Storing(f) => ~Acked(c) /\ file[c] # None
  <2>1. At(f, "anchor") => handler[f].key \in Keys
    BY <1>1, CoreOf, Carried
  <2>2. \A k \in Keys : Active(k) # None
    BY ARecord DEF Active, IsRecord
  <2> QED BY <1>2, <1>4, <2>1, <2>2, AuthAssumption DEF Stands, ToWrite, ToAnchor, Storing
<1>5. CASE At(h, "tenant_dir") /\ file[c] = None
  BY <1>1, <1>3, <1>4, <1>5, AckedIsWritten DEF Blank
<1> QED BY <1>2, <1>3, <1>4, <1>5 DEF Alone

(* A write to the file of c leaves every other record, and every handler   *)
(* that is not at work on c, where it was.                                 *)
LEMMA Writes ==
  ASSUME CredentialInv, NEW h \in Handlers, NEW x,
         handler' = [handler EXCEPT ![h] = x],
         NEW c \in Credentials, NEW v \in Records, Write(c, v),
         UNCHANGED <<cache, acked, revoking, revoked>>,
         \A g \in Handlers : g # h /\ (Storing(g) \/ Revoking(g)) => handler[g].cred # c
  PROVE  /\ PoolOK' /\ images' = images \union {file'}
         /\ file'[c] = v /\ \A d \in Credentials : d # c => file'[d] = file[d]
         /\ \A d \in Credentials : d # c => Ordered(d)'
         /\ \A g \in Handlers : g # h => Stands(g)' /\ handler'[g] = handler[g]
         /\ handler'[h] = x
         /\ \A d \in Credentials : (d \in revoking => Acked(d))'
<1>1. Core /\ TypeOK
  BY CoreOf
<1>2. /\ PoolOK' /\ images' = images \union {file'}
      /\ file'[c] = v /\ \A d \in Credentials : d # c => file'[d] = file[d]
  BY <1>1 DEF Core, PoolOK, Write, Images
<1>3. handler'[h] = x /\ \A g \in Handlers : g # h => handler'[g] = handler[g]
  BY <1>1, Moved
<1>4. ASSUME NEW d \in Credentials, d # c PROVE Ordered(d)'
  BY <1>1, <1>2, <1>4 DEF Core, PoolOK, Recorded, Ordered, Blank, Inactive, IsRecord
<1>5. ASSUME NEW g \in Handlers, g # h PROVE Stands(g)'
  <2> DEFINE d == handler[g].cred
  <2>1. Stands(g) /\ handler'[g] = handler[g] /\ (handler[g] # None => d \in Credentials)
    BY <1>1, <1>3, <1>5, Carried DEF Core, Handled
  <2>2. CASE ~(Storing(g) \/ Revoking(g))
    BY <2>1, <2>2 DEF Stands, ToWrite, ToAnchor, ToRewrite, ToRevoke, Storing, Revoking,
      Rewriting, At
  <2>3. CASE Storing(g) \/ Revoking(g)
    <3>1. d \in Credentials /\ file'[d] = file[d] /\ file \in images
      BY <1>1, <1>2, <1>5, <2>1, <2>3 DEF Storing, Revoking, Rewriting, At, Core, PoolOK
    <3>2. ToWrite(g)' /\ ToRewrite(g)'
      BY <1>2, <2>1, <3>1 DEF Stands, ToWrite, ToRewrite, Acked, Inactive, IsRecord, At,
        Rewriting
    <3>3. ToAnchor(g)'
      BY SMTT(30), <1>2, <2>1, <3>1 DEF Stands, ToAnchor, Acked, Blank, At
    <3>4. ToRevoke(g)'
      BY <1>2, <2>1, <3>1 DEF Stands, ToRevoke, Inactive, IsRecord, At
    <3> QED BY <3>2, <3>3, <3>4 DEF Stands
  <2> QED BY <2>2, <2>3
<1>6. ASSUME NEW d \in Credentials PROVE (d \in revoking => Acked(d))'
  BY <1>1 DEF Core, Recorded, Acked
<1> QED BY <1>2, <1>3, <1>4, <1>5, <1>6

(* The record's file is created: nobody has read it, and nobody was told.  *)
LEMMA CreatesStep ==
  ASSUME CredentialInv, NEW h \in Handlers, Creates(h) PROVE Core'
<1> DEFINE c == handler[h].cred
<1> DEFINE x == [at |-> "write", cred |-> c, key |-> handler[h].key]
<1>1. Core /\ TypeOK /\ UNCHANGED <<cache, acked, revoking, revoked>> /\ At(h, "tenant_dir")
      /\ file[c] = None
  BY CoreOf DEF Creates
<1>2. c \in Credentials /\ handler' = [handler EXCEPT ![h] = x]
  <2>1. handler[h] # None
    BY <1>1 DEF At
  <2>2. c \in Credentials /\ [handler[h] EXCEPT !.at = "write"] = x
    BY <1>1, <2>1, Carried
  <2>3. handler' = [handler EXCEPT ![h] = [handler[h] EXCEPT !.at = "write"]]
    BY <1>1 DEF Creates, Goto, TypeOK
  <2> QED BY <2>2, <2>3
<1>3. \A g \in Handlers : g # h /\ (Storing(g) \/ Revoking(g)) => handler[g].cred # c
  BY <1>1, Sole
<1>4. /\ PoolOK' /\ images' = images \union {file'}
      /\ file'[c] = Empty /\ \A d \in Credentials : d # c => file'[d] = file[d]
      /\ \A d \in Credentials : d # c => Ordered(d)'
      /\ \A g \in Handlers : g # h => Stands(g)' /\ handler'[g] = handler[g]
      /\ handler'[h] = x
      /\ \A d \in Credentials : (d \in revoking => Acked(d))'
  <2>1. Empty \in Records /\ Write(c, Empty)
    BY DEF Records, Creates
  <2> HIDE DEF c, x
  <2> QED BY <1>1, <1>2, <1>3, <2>1, Writes
<1>5. ~Acked(c)
  BY <1>1, <1>2, AckedIsWritten DEF Blank
<1>6. ASSUME NEW p \in acked PROVE p[1] # c /\ p[1] \in Credentials
  <2>1. p = <<p[1], p[2]>> /\ p[1] \in Credentials /\ p[2] \in Keys
    BY <1>1 DEF Core
  <2> QED BY <1>5, <2>1 DEF Acked
<1> HIDE DEF c, x
<1>7. RegistrationHolds' /\ RevocationHolds'
  <2>1. c \notin revoked
    BY <1>1, <1>2, <1>5 DEF Core, Recorded
  <2> QED BY <1>1, <1>2, <1>4, <1>6, <2>1 DEF Core, PoolOK, RegistrationHolds,
      RevocationHolds, IsRecord
<1>8. x # None => x.at = "write" /\ x.cred = c
  BY DEF x
<1>9. CacheKeyIsRecorded'
  BY <1>1, <1>2, <1>4, <1>8 DEF Core, CacheKeyIsRecorded, IsRecord, At
<1>10. Recorded'
  <2>1. ASSUME NEW d \in Credentials PROVE Ordered(d)'
    <3>1. CASE d = c
      <4>1. \A image \in images' : Blank(image[c])
        BY <1>1, <1>2, <1>4 DEF Core, Recorded, Ordered, Blank
      <4> QED BY <1>2, <1>4, <3>1, <4>1, AuthAssumption DEF Ordered, Blank, Inactive,
          IsRecord
    <3> QED BY <1>4, <3>1
  <2>2. ASSUME NEW d \in Credentials PROVE Unread(d)'
    <3>1. Unread(d) /\ (d = c => Blank(file[d]))
      BY <1>1 DEF Core, Recorded, Blank
    <3> QED BY <1>1, <1>2, <1>4, <1>8, <3>1 DEF Unread, Blank, Reading, At
  <2>3. ASSUME NEW p \in acked PROVE KeyKept(p[1], p[2])'
    <3>1. KeyKept(p[1], p[2])
      BY <1>1 DEF Core, Recorded
    <3> QED BY <1>1, <1>4, <1>8, <3>1 DEF KeyKept, Reading, Rewriting, At
  <2> QED BY <1>1, <1>4, <2>1, <2>2, <2>3 DEF Recorded
<1>11. Handled'
  <2>1. Stands(h)'
    BY <1>1, <1>4, <1>5, <1>8 DEF Stands, ToWrite, ToAnchor, ToRewrite, ToRevoke, Rewriting,
      At, Acked
  <2>2. ASSUME NEW f \in Handlers, NEW g \in Handlers PROVE Alone(f, g)'
    <3>1. Alone(f, g)
      BY <1>1 DEF Core, Handled
    <3> QED BY <1>1, <1>3, <1>4, <1>8, <3>1 DEF Alone, Storing, Revoking, Rewriting, At
  <2> QED BY <1>4, <2>1, <2>2 DEF Handled
<1> QED BY <1>1, <1>4, <1>7, <1>9, <1>10, <1>11 DEF Core

(* The record is written where nothing was: every image before it is       *)
(* without the record, the one after it has it.                            *)
LEMMA WriteRecordStep ==
  ASSUME CredentialInv, NEW h \in Handlers, WriteRecord(h) PROVE Core'
<1> DEFINE c == handler[h].cred
<1> DEFINE k == handler[h].key
<1> DEFINE x == [at |-> "anchor", cred |-> c, key |-> k, older |-> images]
<1>1. /\ Core /\ TypeOK /\ UNCHANGED <<cache, acked, revoking, revoked>> /\ At(h, "write")
      /\ handler' = [handler EXCEPT ![h] = x]
  BY CoreOf DEF WriteRecord, history, Older
<1>2. c \in Credentials /\ k \in Keys
  BY <1>1, Carried DEF At
<1>3. \A g \in Handlers : g # h /\ (Storing(g) \/ Revoking(g)) => handler[g].cred # c
  BY <1>1, Sole DEF Storing
<1>4. Active(k) \in StoredCredential /\ IsRecord(Active(k)) /\ Active(k).key = k /\ Active(k).active
  BY <1>2, ARecord DEF Active
<1>5. /\ PoolOK' /\ images' = images \union {file'}
      /\ file'[c] = Active(k) /\ \A d \in Credentials : d # c => file'[d] = file[d]
      /\ \A d \in Credentials : d # c => Ordered(d)'
      /\ \A g \in Handlers : g # h => Stands(g)' /\ handler'[g] = handler[g]
      /\ handler'[h] = x
      /\ \A d \in Credentials : (d \in revoking => Acked(d))'
  <2>1. Active(k) \in Records /\ Write(c, Active(k))
    BY <1>4 DEF Records, WriteRecord, Active
  <2> HIDE DEF c, k, x
  <2> QED BY <1>1, <1>2, <1>3, <2>1, Writes
<1>6. ~Acked(c) /\ file[c] = Empty /\ \A image \in images : Blank(image[c])
  BY <1>1, <1>2 DEF Core, Handled, Stands, ToWrite, Recorded, Ordered
<1>7. ASSUME NEW p \in acked PROVE p[1] # c /\ p[1] \in Credentials
  <2>1. p = <<p[1], p[2]>> /\ p[1] \in Credentials /\ p[2] \in Keys
    BY <1>1 DEF Core
  <2> QED BY <1>6, <2>1 DEF Acked
<1>8. /\ x.at = "anchor" /\ x.cred = c /\ x.key = k /\ x.older = images
      /\ handler[h] # None /\ handler[h].at = "write" /\ handler[h].cred = c
  BY <1>1 DEF At
<1> HIDE DEF c, k, x
<1>9. RegistrationHolds' /\ RevocationHolds'
  <2>1. c \notin revoked
    BY <1>1, <1>2, <1>6 DEF Core, Recorded
  <2> QED BY <1>1, <1>2, <1>5, <1>7, <2>1 DEF Core, PoolOK, RegistrationHolds,
      RevocationHolds, IsRecord
<1>10. cache[c] = None /\ \A g \in Handlers : Reading(g) => handler[g].cred # c
  BY <1>1, <1>2, <1>6 DEF Core, Recorded, Unread, Blank
<1>11. CacheKeyIsRecorded'
  BY <1>1, <1>2, <1>5, <1>8, <1>10 DEF Core, CacheKeyIsRecorded, IsRecord, At, Reading
<1>12. Recorded'
  <2>1. ASSUME NEW d \in Credentials PROVE Ordered(d)'
    <3>1. CASE d = c
      BY <1>2, <1>4, <1>5, <1>6, <3>1, AuthAssumption DEF Ordered, Blank, Inactive, IsRecord
    <3> QED BY <1>5, <3>1
  <2>2. ASSUME NEW d \in Credentials PROVE Unread(d)'
    <3>1. Unread(d) /\ (d = c => ~Blank(file'[d]))
      BY <1>1, <1>4, <1>5 DEF Core, Recorded, Blank, IsRecord
    <3> QED BY <1>1, <1>2, <1>5, <1>8, <3>1 DEF Unread, Blank, Reading, At
  <2>3. ASSUME NEW p \in acked PROVE KeyKept(p[1], p[2])'
    <3>1. KeyKept(p[1], p[2])
      BY <1>1 DEF Core, Recorded
    <3> QED BY <1>1, <1>5, <1>8, <3>1 DEF KeyKept, Reading, Rewriting, At
  <2> QED BY <1>1, <1>5, <2>1, <2>2, <2>3 DEF Recorded
<1>13. Handled'
  <2>1. Stands(h)'
    BY <1>1, <1>5, <1>6, <1>8
    DEF Stands, ToWrite, ToAnchor, ToRewrite, ToRevoke, Rewriting, At, Acked, Blank
  <2>2. ASSUME NEW f \in Handlers, NEW g \in Handlers PROVE Alone(f, g)'
    <3>1. Alone(f, g)
      BY <1>1 DEF Core, Handled
    <3> QED BY <1>1, <1>3, <1>5, <1>8, <3>1 DEF Alone, Storing, Revoking, Rewriting, At
  <2> QED BY <1>5, <2>1, <2>2 DEF Handled
<1> QED BY <1>1, <1>5, <1>9, <1>11, <1>12, <1>13 DEF Core

(* The revocation truncates the file of a record whose client was told: it *)
(* has the key everybody has.                                              *)
LEMMA RevokeTruncatesStep ==
  ASSUME CredentialInv, NEW h \in Handlers, RevokeTruncates(h) PROVE Core'
<1> DEFINE c == handler[h].cred
<1> DEFINE k == handler[h].key
<1> DEFINE x == [at |-> "revoke_write", cred |-> c, key |-> k]
<1>1. /\ Core /\ TypeOK /\ UNCHANGED <<cache, acked, revoking, revoked>> /\ At(h, "revoke")
  BY CoreOf DEF RevokeTruncates, history
<1>2. c \in Credentials /\ k \in Keys /\ handler' = [handler EXCEPT ![h] = x]
  <2>1. handler[h] # None
    BY <1>1 DEF At
  <2>2. c \in Credentials /\ k \in Keys /\ [handler[h] EXCEPT !.at = "revoke_write"] = x
    BY <1>1, <2>1, Carried DEF Rewriting
  <2>3. handler' = [handler EXCEPT ![h] = [handler[h] EXCEPT !.at = "revoke_write"]]
    BY <1>1 DEF RevokeTruncates, Goto, TypeOK
  <2> QED BY <2>2, <2>3
<1>3. \A g \in Handlers : g # h /\ (Storing(g) \/ Revoking(g)) => handler[g].cred # c
  BY <1>1, Sole DEF Revoking, Rewriting
<1>4. /\ PoolOK' /\ images' = images \union {file'}
      /\ file'[c] = Torn /\ \A d \in Credentials : d # c => file'[d] = file[d]
      /\ \A d \in Credentials : d # c => Ordered(d)'
      /\ \A g \in Handlers : g # h => Stands(g)' /\ handler'[g] = handler[g]
      /\ handler'[h] = x
      /\ \A d \in Credentials : (d \in revoking => Acked(d))'
  <2>1. Torn \in Records /\ Write(c, Torn)
    BY DEF Records, RevokeTruncates
  <2> HIDE DEF c, k, x
  <2> QED BY <1>1, <1>2, <1>3, <2>1, Writes
<1>5. c \in revoking \ revoked /\ \A image \in images : ~Inactive(image[c])
  BY <1>1, <1>2 DEF Core, Handled, Stands, ToRewrite, Rewriting
<1>6. /\ x.at = "revoke_write" /\ x.cred = c /\ x.key = k
      /\ handler[h] # None /\ handler[h].at = "revoke" /\ handler[h].cred = c /\ handler[h].key = k
  BY <1>1 DEF At
<1>7. /\ ~Blank(Torn) /\ ~IsRecord(Torn) /\ ~Blank(file[c])
  BY <1>1, <1>2, <1>5, AckedIsWritten, AuthAssumption DEF Blank, IsRecord, Core, Recorded
<1> HIDE DEF c, k, x
<1>8. RegistrationHolds' /\ RevocationHolds'
  BY <1>1, <1>2, <1>4, <1>5, <1>7
  DEF Core, PoolOK, RegistrationHolds, RevocationHolds, IsRecord, Blank
<1>9. CacheKeyIsRecorded'
  BY <1>1, <1>2, <1>4, <1>6, <1>7 DEF Core, CacheKeyIsRecorded, IsRecord, At, Blank
<1>10. Recorded'
  <2>1. ASSUME NEW d \in Credentials PROVE Ordered(d)'
    <3>1. CASE d = c
      BY <1>1, <1>2, <1>4, <1>5, <1>7, <3>1 DEF Ordered, Blank
    <3> QED BY <1>4, <3>1
  <2>2. ASSUME NEW d \in Credentials PROVE Unread(d)'
    <3>1. Unread(d) /\ (d = c => ~Blank(file'[d]))
      BY <1>1, <1>4, <1>7 DEF Core, Recorded
    <3> QED BY <1>1, <1>2, <1>4, <1>6, <3>1 DEF Unread, Blank, Reading, At
  <2>3. ASSUME NEW p \in acked PROVE KeyKept(p[1], p[2])'
    <3>1. KeyKept(p[1], p[2])
      BY <1>1 DEF Core, Recorded
    <3> QED BY <1>1, <1>4, <1>6, <3>1 DEF KeyKept, Reading, Rewriting, At
  <2> QED BY <1>1, <1>4, <2>1, <2>2, <2>3 DEF Recorded
<1>11. Handled'
  <2>1. Stands(h)'
    <3>1. \A image \in images' : ~Inactive(image[c])
      BY <1>2, <1>4, <1>5, <1>7 DEF Inactive
    <3> QED BY <1>1, <1>4, <1>5, <1>6, <3>1
        DEF Stands, ToWrite, ToAnchor, ToRewrite, ToRevoke, Rewriting, At, Inactive,
        IsRecord
  <2>2. ASSUME NEW f \in Handlers, NEW g \in Handlers PROVE Alone(f, g)'
    <3>1. Alone(f, g)
      BY <1>1 DEF Core, Handled
    <3> QED BY <1>1, <1>3, <1>4, <1>6, <3>1 DEF Alone, Storing, Revoking, Rewriting, At
  <2> QED BY <1>4, <2>1, <2>2 DEF Handled
<1> QED BY <1>1, <1>4, <1>8, <1>9, <1>10, <1>11 DEF Core

(* The revocation writes the record back, under the same key.              *)
LEMMA RevokeWritesStep ==
  ASSUME CredentialInv, NEW h \in Handlers, RevokeWrites(h) PROVE Core'
<1> DEFINE c == handler[h].cred
<1> DEFINE k == handler[h].key
<1> DEFINE v == [key |-> k, active |-> FALSE]
<1> DEFINE x == [at |-> "revoke_anchor", cred |-> c, older |-> images]
<1>1. /\ Core /\ TypeOK /\ UNCHANGED <<cache, acked, revoking, revoked>> /\ At(h, "revoke_write")
      /\ handler' = [handler EXCEPT ![h] = x]
  BY CoreOf DEF RevokeWrites, history, Older
<1>2. c \in Credentials /\ k \in Keys
  BY <1>1, Carried DEF At, Rewriting
<1>3. \A g \in Handlers : g # h /\ (Storing(g) \/ Revoking(g)) => handler[g].cred # c
  BY <1>1, Sole DEF Revoking, Rewriting
<1>4. v \in StoredCredential /\ IsRecord(v) /\ v.key = k /\ ~v.active
  BY <1>2, ARecord
<1>5. Write(c, v)
  BY DEF RevokeWrites
<1>6. c \in revoking \ revoked /\ \A image \in images : ~Inactive(image[c])
  BY <1>1, <1>2 DEF Core, Handled, Stands, ToRewrite, Rewriting
<1>7. /\ x.at = "revoke_anchor" /\ x.cred = c /\ x.older = images
      /\ handler[h] # None /\ handler[h].at = "revoke_write" /\ handler[h].cred = c /\ handler[h].key = k
  BY <1>1 DEF At
<1> HIDE DEF c, k, v, x
<1>8. /\ PoolOK' /\ images' = images \union {file'}
      /\ file'[c] = v /\ \A d \in Credentials : d # c => file'[d] = file[d]
      /\ \A d \in Credentials : d # c => Ordered(d)'
      /\ \A g \in Handlers : g # h => Stands(g)' /\ handler'[g] = handler[g]
      /\ handler'[h] = x
      /\ \A d \in Credentials : (d \in revoking => Acked(d))'
  BY ZenonT(60), <1>1, <1>2, <1>3, <1>4, <1>5, Writes DEF Records
<1>9. ~Blank(v) /\ Inactive(v) /\ v # Torn /\ ~Blank(file[c])
  BY <1>1, <1>2, <1>4, <1>6, AckedIsWritten DEF Blank, IsRecord, Inactive, Core, Recorded
<1>10. \A p \in acked : p[1] = c => p[2] = k
  BY <1>1, <1>7 DEF Core, Recorded, KeyKept, Rewriting, At
<1>11. RegistrationHolds' /\ RevocationHolds'
  BY <1>1, <1>2, <1>4, <1>6, <1>8, <1>9, <1>10
  DEF Core, PoolOK, RegistrationHolds, RevocationHolds, IsRecord, Blank
<1>12. CacheKeyIsRecorded'
  <2>1. PICK p \in acked : p[1] = c
    BY <1>1, <1>2, <1>6 DEF Core, Recorded, Acked
  <2>2. /\ cache[c] # None => cache[c].key = k
        /\ \A g \in Handlers : Reading(g) /\ handler[g].cred = c => handler[g].rec.key = k
    BY <1>1, <1>10, <2>1 DEF Core, Recorded, KeyKept, Reading, At
  <2> QED BY <1>1, <1>2, <1>4, <1>7, <1>8, <1>9, <2>2
      DEF Core, CacheKeyIsRecorded, IsRecord, At, Reading, Blank
<1>13. Recorded'
  <2>1. ASSUME NEW d \in Credentials PROVE Ordered(d)'
    <3>1. CASE d = c
      BY <1>1, <1>2, <1>6, <1>8, <1>9, <3>1 DEF Ordered, Blank
    <3> QED BY <1>8, <3>1
  <2>2. ASSUME NEW d \in Credentials PROVE Unread(d)'
    <3>1. Unread(d) /\ (d = c => ~Blank(file'[d]))
      BY <1>1, <1>8, <1>9 DEF Core, Recorded
    <3> QED BY <1>1, <1>2, <1>7, <1>8, <3>1 DEF Unread, Blank, Reading, At
  <2>3. ASSUME NEW p \in acked PROVE KeyKept(p[1], p[2])'
    <3>1. KeyKept(p[1], p[2])
      BY <1>1 DEF Core, Recorded
    <3> QED BY <1>1, <1>7, <1>8, <3>1 DEF KeyKept, Reading, Rewriting, At
  <2> QED BY <1>1, <1>8, <2>1, <2>2, <2>3 DEF Recorded
<1>14. Handled'
  <2>1. Stands(h)'
    BY <1>1, <1>6, <1>7, <1>8, <1>9
    DEF Stands, ToWrite, ToAnchor, ToRewrite, ToRevoke, Rewriting, At, Inactive, IsRecord
  <2>2. ASSUME NEW f \in Handlers, NEW g \in Handlers PROVE Alone(f, g)'
    <3>1. Alone(f, g)
      BY <1>1 DEF Core, Handled
    <3> QED BY <1>1, <1>3, <1>7, <1>8, <3>1 DEF Alone, Storing, Revoking, Rewriting, At
  <2> QED BY <1>8, <2>1, <2>2 DEF Handled
<1> QED BY <1>1, <1>8, <1>11, <1>12, <1>13, <1>14 DEF Core

(* A revocation begins once, on a record nobody has rewritten.             *)
LEMMA RevokeStep ==
  ASSUME CredentialInv, NEW h \in Handlers, NEW c \in Credentials, Revoke(h, c)
  PROVE  Core'
<1> DEFINE x == [at |-> "revoke", cred |-> c, key |-> file[c].key]
<1>1. /\ Core /\ TypeOK /\ UNCHANGED <<file, images, cache, acked, revoked>>
      /\ handler' = [handler EXCEPT ![h] = x] /\ revoking' = revoking \union {c}
      /\ handler[h] = None /\ IsRecord(file[c]) /\ c \notin revoking /\ Acked(c)
  BY CoreOf DEF Revoke, pool, Acked
<1>2. handler'[h] = x /\ \A g \in Handlers : g # h => handler'[g] = handler[g]
  BY <1>1, Moved
<1>3. x.at = "revoke" /\ x.cred = c /\ x.key = file[c].key
  OBVIOUS
<1> HIDE DEF x
<1>4. PoolOK' /\ RegistrationHolds' /\ RevocationHolds'
  BY <1>1 DEF Core, PoolOK, RegistrationHolds, RevocationHolds, IsRecord
<1>5. CacheKeyIsRecorded'
  BY <1>1, <1>2, <1>3 DEF Core, CacheKeyIsRecorded, IsRecord, At
<1>6. Recorded'
  <2>1. ASSUME NEW d \in Credentials PROVE Ordered(d)' /\ (d \in revoking => Acked(d))'
    BY <1>1 DEF Core, Recorded, Ordered, Acked, Blank, Inactive, IsRecord
  <2>2. ASSUME NEW d \in Credentials PROVE Unread(d)'
    BY <1>1, <1>2, <1>3 DEF Core, Recorded, Unread, Blank, Reading, At
  <2>3. ASSUME NEW p \in acked PROVE KeyKept(p[1], p[2])'
    <3>1. KeyKept(p[1], p[2]) /\ (p[1] = c => x.key = p[2])
      BY <1>1, <1>3 DEF Core, Recorded, RegistrationHolds, PoolOK
    <3> QED BY <1>1, <1>2, <1>3, <3>1 DEF KeyKept, Reading, Rewriting, At
  <2> QED BY <1>1, <2>1, <2>2, <2>3 DEF Recorded
<1>7. Handled'
  <2>1. ASSUME NEW g \in Handlers PROVE Stands(g)'
    <3>1. CASE g = h
      <4>1. c \in revoking' \ revoked /\ \A image \in images : ~Inactive(image[c])
        BY <1>1 DEF Core, Recorded, Ordered
      <4> QED BY <1>1, <1>2, <1>3, <3>1, <4>1
          DEF Stands, ToWrite, ToAnchor, ToRewrite, ToRevoke, Rewriting, At, Inactive,
          IsRecord
    <3>2. CASE g # h
      <4>1. Stands(g) /\ handler'[g] = handler[g]
        BY <1>1, <1>2, <3>2 DEF Core, Handled
      <4>2. ToWrite(g)' /\ ToRewrite(g)'
        BY <1>1, <4>1 DEF Stands, ToWrite, ToRewrite, Acked, Inactive, IsRecord, At,
          Rewriting
      <4>3. ToAnchor(g)'
        BY <1>1, <4>1 DEF Stands, ToAnchor, Acked, Blank, At
      <4>4. ToRevoke(g)'
        BY <1>1, <4>1 DEF Stands, ToRevoke, Inactive, IsRecord, At
      <4> QED BY <4>2, <4>3, <4>4 DEF Stands
    <3> QED BY <3>1, <3>2
  <2>2. ASSUME NEW g \in Handlers PROVE Revoking(g) => handler[g].cred # c
    BY <1>1 DEF Core, Handled, Stands, ToRewrite, ToRevoke, Revoking
  <2>3. ASSUME NEW f \in Handlers, NEW g \in Handlers PROVE Alone(f, g)'
    <3>1. Alone(f, g)
      BY <1>1 DEF Core, Handled
    <3> QED BY <1>1, <1>2, <1>3, <2>2, <3>1 DEF Alone, Storing, Revoking, Rewriting, At
  <2> QED BY <2>1, <2>3 DEF Handled
<1>8. revoking' \subseteq Credentials /\ revoked' \subseteq revoking' /\ acked' \subseteq Credentials \X Keys
  BY <1>1 DEF Core
<1> QED BY <1>4, <1>5, <1>6, <1>7, <1>8 DEF Core

(* An anchor only takes images away, never the present one; the handlers   *)
(* on other records stand as they did.                                     *)
LEMMA Anchors ==
  ASSUME CredentialInv, NEW h \in Handlers,
         handler' = [handler EXCEPT ![h] = None],
         images' = images \ handler[h].older, file \notin handler[h].older,
         UNCHANGED <<file, revoking>>,
         cache' \in [Credentials -> StoredCredential \union {None}],
         NEW c \in Credentials,
         acked \subseteq acked', \A p \in acked' : p \in acked \/ p[1] = c,
         revoked \subseteq revoked', revoked' \subseteq revoked \union {c},
         \A g \in Handlers : g # h /\ (Storing(g) \/ Revoking(g)) => handler[g].cred # c
  PROVE  /\ PoolOK' /\ Handled'
         /\ handler'[h] = None /\ \A g \in Handlers : g # h => handler'[g] = handler[g]
         /\ \A d \in Credentials : Ordered(d)' /\ (d \in revoking => Acked(d))'
<1>1. Core /\ TypeOK
  BY CoreOf
<1>2. PoolOK'
  BY <1>1 DEF Core, PoolOK
<1>3. handler'[h] = None /\ \A g \in Handlers : g # h => handler'[g] = handler[g]
  BY <1>1, Moved
<1>4. ASSUME NEW d \in Credentials PROVE Ordered(d)' /\ (d \in revoking => Acked(d))'
  BY <1>1 DEF Core, Recorded, Ordered, Acked, Blank, Inactive, IsRecord
<1>5. ASSUME NEW g \in Handlers PROVE Stands(g)'
  <2>1. CASE g = h
    BY <1>3, <2>1 DEF Stands, ToWrite, ToAnchor, ToRewrite, ToRevoke, Rewriting, At
  <2>2. CASE g # h
    <3>1. Stands(g) /\ handler'[g] = handler[g]
      BY <1>1, <1>3, <2>2 DEF Core, Handled
    <3>2. ASSUME Storing(g) PROVE ~Acked(handler[g].cred) => ~Acked(handler[g].cred)'
      BY <1>1, <2>2, <3>1, <3>2 DEF Acked
    <3>3. ASSUME Revoking(g) PROVE handler[g].cred \notin revoked => handler[g].cred \notin revoked'
      BY <2>2, <3>3
    <3>4. ToWrite(g)' /\ ToAnchor(g)'
      BY <3>1, <3>2 DEF Stands, ToWrite, ToAnchor, Storing, At, Blank
    <3>5. ToRewrite(g)' /\ ToRevoke(g)'
      BY <3>1, <3>3 DEF Stands, ToRewrite, ToRevoke, Revoking, Rewriting, At, Inactive,
        IsRecord
    <3> QED BY <3>4, <3>5 DEF Stands
  <2> QED BY <2>1, <2>2
<1>6. ASSUME NEW f \in Handlers, NEW g \in Handlers PROVE Alone(f, g)'
  <2>1. Alone(f, g)
    BY <1>1 DEF Core, Handled
  <2> QED BY <1>3, <2>1 DEF Alone, Storing, Revoking, Rewriting, At
<1> QED BY <1>2, <1>3, <1>4, <1>5, <1>6 DEF Handled

(* The client is told once no image is left without the record.            *)
LEMMA RegisteredStep ==
  ASSUME CredentialInv, NEW h \in Handlers, Registered(h) PROVE Core'
<1> DEFINE c == handler[h].cred
<1> DEFINE k == handler[h].key
<1>1. /\ Core /\ TypeOK /\ UNCHANGED <<file, revoking, revoked>> /\ At(h, "anchor")
      /\ acked' = acked \union {<<c, k>>} /\ images' = images \ handler[h].older
      /\ handler' = [handler EXCEPT ![h] = None] /\ cache' = [cache EXCEPT ![c] = Active(k)]
  BY CoreOf DEF Registered, AnchorCovers, Active
<1>2. c \in Credentials /\ k \in Keys
  BY <1>1, Carried DEF At
<1>3. \A g \in Handlers : g # h /\ (Storing(g) \/ Revoking(g)) => handler[g].cred # c
  BY <1>1, Sole DEF Storing
<1>4. Active(k) \in StoredCredential /\ IsRecord(Active(k)) /\ Active(k).key = k /\ Active(k).active
  BY <1>2, ARecord DEF Active
<1>5. /\ ~Acked(c) /\ file[c] = Active(k)
      /\ \A image \in handler[h].older : Blank(image[c])
      /\ \A image \in images' : image[c] = Active(k)
  BY <1>1 DEF Core, Handled, Stands, ToAnchor
<1>6. file \notin handler[h].older /\ ~Blank(Active(k)) /\ Active(k) # Torn
  BY <1>4, <1>5 DEF Blank, IsRecord
<1> HIDE DEF c, k
<1>7. /\ cache'[c] = Active(k) /\ \A d \in Credentials : d # c => cache'[d] = cache[d]
      /\ cache' \in [Credentials -> StoredCredential \union {None}]
  BY <1>1, <1>2, <1>4 DEF Core, PoolOK
<1>8. /\ acked' \subseteq Credentials \X Keys /\ \A p \in acked' : p \in acked \/ p = <<c, k>>
  BY <1>1, <1>2 DEF Core
<1>9. /\ PoolOK' /\ Handled'
      /\ handler'[h] = None /\ \A g \in Handlers : g # h => handler'[g] = handler[g]
      /\ \A d \in Credentials : Ordered(d)' /\ (d \in revoking => Acked(d))'
  <2>1. /\ acked \subseteq acked' /\ \A p \in acked' : p \in acked \/ p[1] = c
        /\ revoked \subseteq revoked' /\ revoked' \subseteq revoked \union {c}
    BY <1>1, <1>8
  <2> QED BY ZenonT(60), <1>1, <1>2, <1>3, <1>6, <1>7, <2>1, Anchors
<1>10. RegistrationHolds'
  <2>1. ASSUME NEW image \in images' PROVE
          image[c] \notin {None, Empty} /\ image[c] # Torn /\ image[c].key = k
    BY <1>4, <1>5, <1>6, <2>1 DEF Blank
  <2> QED BY <1>1, <1>8, <2>1 DEF Core, RegistrationHolds, IsRecord
<1>11. RevocationHolds'
  BY <1>1 DEF Core, RevocationHolds, IsRecord
<1>12. ASSUME NEW g \in Handlers, Reading(g), handler[g].cred = c PROVE handler[g].rec.key = k
  BY <1>1, <1>2, <1>4, <1>5, <1>12 DEF Core, CacheKeyIsRecorded, Reading
<1>13. CacheKeyIsRecorded'
  BY <1>1, <1>4, <1>5, <1>6, <1>7, <1>9 DEF Core, CacheKeyIsRecorded, IsRecord, At, Blank
<1>14. ASSUME NEW d \in Credentials PROVE Unread(d)'
  BY <1>1, <1>5, <1>6, <1>7, <1>9 DEF Core, Recorded, Unread, Blank, Reading, At
<1>15. ASSUME NEW p \in acked' PROVE KeyKept(p[1], p[2])'
  <2>1. CASE p = <<c, k>>
    <3>1. ASSUME NEW g \in Handlers, g # h, Rewriting(g) PROVE handler[g].cred # c
      BY <1>3, <3>1 DEF Revoking
    <3> QED BY <1>4, <1>7, <1>9, <1>12, <2>1, <3>1 DEF KeyKept, Reading, Rewriting, At
  <2>2. CASE p \in acked
    <3>1. KeyKept(p[1], p[2]) /\ p[1] \in Credentials /\ p[1] # c
      <4>1. p = <<p[1], p[2]>> /\ p[1] \in Credentials /\ p[2] \in Keys
        BY <1>1, <2>2 DEF Core
      <4> QED BY <1>1, <1>5, <2>2, <4>1 DEF Core, Recorded, Acked
    <3> QED BY <1>7, <1>9, <3>1 DEF KeyKept, Reading, Rewriting, At
  <2> QED BY <1>8, <2>1, <2>2
<1>16. Recorded'
  BY <1>9, <1>14, <1>15 DEF Recorded
<1> QED BY <1>1, <1>8, <1>9, <1>10, <1>11, <1>13, <1>16 DEF Core

(* The revocation is answered once no image is left with a live record.    *)
LEMMA RevokedStep ==
  ASSUME CredentialInv, NEW h \in Handlers, Revoked(h) PROVE Core'
<1> DEFINE c == handler[h].cred
<1> DEFINE v == IF cache[c] = None THEN None ELSE [cache[c] EXCEPT !.active = FALSE]
<1>1. /\ Core /\ TypeOK /\ UNCHANGED <<file, acked, revoking>> /\ At(h, "revoke_anchor")
      /\ revoked' = revoked \union {c} /\ images' = images \ handler[h].older
      /\ handler' = [handler EXCEPT ![h] = None]
  BY CoreOf DEF Revoked, AnchorCovers
<1>2. c \in Credentials
  BY <1>1, Carried DEF At
<1>3. /\ v \in StoredCredential \union {None}
      /\ v # None => cache[c] # None /\ v.key = cache[c].key
  <2>1. cache[c] \in StoredCredential \union {None}
    BY <1>1, <1>2 DEF Core, PoolOK
  <2> QED BY <2>1 DEF StoredCredential
<1>4. cache' = [cache EXCEPT ![c] = v]
  BY <1>1, <1>2 DEF Revoked, Core, PoolOK
<1>5. \A g \in Handlers : g # h /\ (Storing(g) \/ Revoking(g)) => handler[g].cred # c
  BY <1>1, Sole DEF Revoking
<1>6. /\ c \in revoking /\ file \notin handler[h].older
      /\ \A image \in images' : Inactive(image[c])
  BY <1>1 DEF Core, Handled, Stands, ToRevoke
<1> HIDE DEF c, v
<1>7. /\ cache'[c] = v /\ \A d \in Credentials : d # c => cache'[d] = cache[d]
      /\ cache' \in [Credentials -> StoredCredential \union {None}]
  BY <1>1, <1>2, <1>3, <1>4 DEF Core, PoolOK
<1>8. /\ PoolOK' /\ Handled'
      /\ handler'[h] = None /\ \A g \in Handlers : g # h => handler'[g] = handler[g]
      /\ \A d \in Credentials : Ordered(d)' /\ (d \in revoking => Acked(d))'
  BY <1>1, <1>2, <1>5, <1>6, <1>7, Anchors
<1>9. RegistrationHolds'
  BY <1>1 DEF Core, RegistrationHolds, IsRecord
<1>10. RevocationHolds'
  BY <1>1, <1>6 DEF Core, RevocationHolds, Inactive, IsRecord
<1>11. CacheKeyIsRecorded'
  BY <1>1, <1>2, <1>3, <1>7, <1>8 DEF Core, CacheKeyIsRecorded, IsRecord, At
<1>12. ASSUME NEW d \in Credentials PROVE Unread(d)'
  BY <1>1, <1>3, <1>7, <1>8 DEF Core, Recorded, Unread, Blank, Reading, At
<1>13. ASSUME NEW p \in acked PROVE KeyKept(p[1], p[2])'
  <2>1. KeyKept(p[1], p[2]) /\ p[1] \in Credentials
    BY <1>1 DEF Core, Recorded
  <2> QED BY <1>3, <1>7, <1>8, <2>1 DEF KeyKept, Reading, Rewriting, At
<1>14. Recorded'
  BY <1>1, <1>8, <1>12, <1>13 DEF Recorded
<1> QED BY <1>1, <1>6, <1>8, <1>9, <1>10, <1>11, <1>14 DEF Core

(* A boot finds one of the images, and nothing in memory.                  *)
LEMMA RestartStep == ASSUME CredentialInv, Restart PROVE Core'
<1>1. Core /\ TypeOK /\ UNCHANGED <<acked, revoking, revoked>>
  BY CoreOf DEF Restart, history
<1>2. /\ file' \in images /\ images' = {file'}
      /\ \A c \in Credentials : cache'[c] = None
      /\ cache' \in [Credentials -> StoredCredential \union {None}]
      /\ \A h \in Handlers : handler'[h] = None
  BY DEF Restart
<1>3. PoolOK' /\ RegistrationHolds' /\ RevocationHolds'
  BY <1>1, <1>2 DEF Core, PoolOK, RegistrationHolds, RevocationHolds, IsRecord
<1>4. CacheKeyIsRecorded'
  BY <1>2 DEF CacheKeyIsRecorded, At
<1>5. Handled'
  BY <1>2 DEF Handled, Stands, ToWrite, ToAnchor, ToRewrite, ToRevoke, Alone, Storing,
    Revoking,
              Rewriting, At
<1>6. Recorded'
  <2>1. ASSUME NEW c \in Credentials PROVE Ordered(c)' /\ (c \in revoking => Acked(c))'
    BY <1>1, <1>2 DEF Core, Recorded, Ordered, Acked, Blank, Inactive, IsRecord
  <2>2. ASSUME NEW c \in Credentials PROVE Unread(c)'
    BY <1>2 DEF Unread, Reading, At
  <2>3. ASSUME NEW p \in acked PROVE KeyKept(p[1], p[2])'
    <3>1. p[1] \in Credentials
      BY <1>1 DEF Core
    <3> QED BY <1>2, <3>1 DEF KeyKept
  <2> QED BY <1>1, <2>1, <2>2, <2>3 DEF Recorded
<1> QED BY <1>1, <1>3, <1>4, <1>5, <1>6 DEF Core

LEMMA IdleStep == ASSUME CredentialInv, UNCHANGED <<records, cache, handler>> PROVE Core'
<1>1. Core /\ UNCHANGED <<file, images, cache, handler, acked, revoking, revoked>>
  BY CoreOf DEF records
<1>2. PoolOK' /\ RegistrationHolds' /\ RevocationHolds' /\ CacheKeyIsRecorded'
  BY <1>1 DEF Core, PoolOK, RegistrationHolds, RevocationHolds, CacheKeyIsRecorded,
    IsRecord, At
<1>3. Recorded'
  <2>1. ASSUME NEW c \in Credentials PROVE Ordered(c)' /\ Unread(c)' /\ (c \in revoking => Acked(c))'
    BY SMTT(30), <1>1 DEF Core, Recorded, Ordered, Unread, Acked, Blank, Inactive, IsRecord,
      Reading, At
  <2>2. ASSUME NEW p \in acked PROVE KeyKept(p[1], p[2])'
    BY <1>1 DEF Core, Recorded, KeyKept, Reading, Rewriting, At
  <2> QED BY <1>1, <2>1, <2>2 DEF Recorded
<1>4. Handled'
  <2>1. ASSUME NEW g \in Handlers PROVE Stands(g)'
    <3>1. Stands(g)
      BY <1>1 DEF Core, Handled
    <3>2. ToWrite(g)' /\ ToRewrite(g)'
      BY <1>1, <3>1 DEF Stands, ToWrite, ToRewrite, Acked, Inactive, IsRecord, At, Rewriting
    <3>3. ToAnchor(g)'
      BY <1>1, <3>1 DEF Stands, ToAnchor, Acked, Blank, At
    <3>4. ToRevoke(g)'
      BY <1>1, <3>1 DEF Stands, ToRevoke, Inactive, IsRecord, At
    <3> QED BY <3>2, <3>3, <3>4 DEF Stands
  <2>2. ASSUME NEW f \in Handlers, NEW g \in Handlers PROVE Alone(f, g)'
    BY <1>1 DEF Core, Handled, Alone, Storing, Revoking, Rewriting, At
  <2> QED BY <2>1, <2>2 DEF Handled
<1> QED BY <1>1, <1>2, <1>3, <1>4 DEF Core

LEMMA HistoryStep ==
  ASSUME TypeOK, [Next]_vars
  PROVE  /\ signed' \subseteq Assertion
         /\ admitted' \in Seq([id : Ids, tenant : Credentials, scope : Scopes])
         /\ restarts' \in 0..MaxRestarts
<1> DEFINE Goal == /\ signed \subseteq Assertion
                   /\ admitted \in Seq([id : Ids, tenant : Credentials, scope : Scopes])
                   /\ restarts \in 0..MaxRestarts
<1>0. Goal
  BY DEF TypeOK, HistoryOK
<1>1. ASSUME UNCHANGED <<signed, admitted, restarts>> PROVE Goal'
  BY <1>0, <1>1
<1>2. ASSUME NEW t \in Tokens, NEW s \in Scopes, Redeem(t, s) PROVE Goal'
  <2>1. tokens[t].val \in Approved
    BY <1>2 DEF TypeOK, TablesOK, Table, Redeem
  <2>2. [id |-> tokens[t].val.id, tenant |-> tokens[t].val.cred, scope |-> s]
          \in [id : Ids, tenant : Credentials, scope : Scopes]
    BY <2>1 DEF Approved
  <2> DEFINE n == [id |-> tokens[t].val.id, tenant |-> tokens[t].val.cred, scope |-> s]
  <2>3. UNCHANGED <<signed, restarts>> /\ (admitted' = admitted \/ admitted' = Append(admitted, n))
    BY <1>2 DEF Redeem
  <2> HIDE DEF n
  <2> DEFINE S == [id : Ids, tenant : Credentials, scope : Scopes]
  <2>4. n \in S /\ admitted \in Seq(S)
    BY <1>0, <2>2 DEF n
  <2> HIDE DEF S
  <2>5. admitted' \in Seq(S)
    BY <2>3, <2>4
  <2> QED BY <1>0, <2>3, <2>5 DEF S
<1>3. ASSUME NEW i \in Ids, NEW k \in Keys, Sign(i, k) PROVE Goal'
  <2>1. [id |-> i, cred |-> issued[i].cred, key |-> k] \in Assertion
    BY <1>3 DEF TypeOK, HistoryOK, Sign, Pending, Assertion
  <2> QED BY <1>0, <1>3, <2>1 DEF Sign
<1>4. ASSUME Restart PROVE Goal'
  BY <1>0, <1>4, AuthAssumption DEF Restart, history
<1>5. ASSUME NEW h \in Handlers,
             \/ \E c \in Credentials, s \in Scopes : RequestOptionsReads(h, c, s)
             \/ RequestOptionsFills(h)
             \/ \E i \in Ids, a \in signed : RequestVerifyReads(h, i, a)
             \/ RequestVerifyFills(h)
             \/ \E r \in Registrations, c \in Credentials, k \in Keys : RegisterVerify(h, r, c, k)
             \/ CreateNew(h) \/ WriteRecord(h) \/ Registered(h)
             \/ \E c \in Credentials : Revoke(h, c)
             \/ RevokeTruncates(h) \/ RevokeWrites(h) \/ Revoked(h)
             \/ GiveUp(h)
      PROVE  Goal'
  BY <1>1, <1>5 DEF RequestOptionsReads, RequestOptionsFills, RequestVerifyReads,
    RequestVerifyFills,
     RegisterVerify, CreateNew, WriteRecord, Registered, Revoke, RevokeTruncates,
     RevokeWrites,
     Revoked, GiveUp, history
<1>6. ASSUME \/ \E c \in Credentials, s \in Scopes : RequestOptionsCached(c, s)
             \/ \E i \in Ids, a \in signed : RequestVerifyCached(i, a)
             \/ \E r \in Registrations : RegisterOptions(r)
             \/ Expire \/ UNCHANGED vars
      PROVE  Goal'
  BY <1>1, <1>6 DEF RequestOptionsCached, RequestVerifyCached, RegisterOptions, Expire,
    vars, history
<1> HIDE DEF Goal
<1>7. Goal'
  BY <1>2, <1>3, <1>4, <1>5, <1>6 DEF Next
<1> QED BY <1>7 DEF Goal

LEMMA CredentialInductive ==
  CredentialInv /\ [Next]_vars => CredentialInv'
<1> SUFFICES ASSUME CredentialInv, [Next]_vars PROVE CredentialInv'
  OBVIOUS
<1>1. TypeOK /\ Effect
  BY CoreOf, Effects
<1>2. Core'
  BY <1>1, IdleStep, RestartStep, LeavesStep, FillsStep, CreatesStep, WriteRecordStep,
     RegisteredStep, RevokeTruncatesStep, RevokeWritesStep, RevokedStep, ReadsStep,
     RevokeStep
     DEF Effect
<1>3. TypeOK'
  BY <1>1, <1>2, TablesStep, HandlersStep, HistoryStep DEF TypeOK, HistoryOK, Core
<1> QED BY <1>2, <1>3 DEF CredentialInv, CredentialsHold, Core

LEMMA CredentialInitially == Init => CredentialInv
<1> SUFFICES ASSUME Init PROVE CredentialInv
  OBVIOUS
<1>1. TypeOK
  <2>1. PoolOK /\ TablesOK /\ HistoryOK
    BY DEF Init, PoolOK, TablesOK, HistoryOK, Table, Images, Records
  <2>2. restarts \in 0..MaxRestarts
    BY AuthAssumption DEF Init
  <2> QED BY <2>1, <2>2 DEF Init, TypeOK
<1>2. RegistrationHolds /\ RevocationHolds /\ CacheKeyIsRecorded
  BY DEF Init, RegistrationHolds, RevocationHolds, CacheKeyIsRecorded, At
<1>3. Recorded
  <2>1. ASSUME NEW c \in Credentials PROVE Ordered(c) /\ Unread(c) /\ c \notin revoking
    BY AuthAssumption DEF Init, Ordered, Unread, Blank, Inactive, IsRecord, Reading, At
  <2> QED BY <2>1 DEF Init, Recorded
<1>4. Handled
  BY DEF Init, Handled, Stands, ToWrite, ToAnchor, ToRewrite, ToRevoke, Alone, Storing,
    Revoking,
         Rewriting, At
<1> QED BY <1>1, <1>2, <1>3, <1>4 DEF CredentialInv, CredentialsHold

(* A registration or a revocation that was answered is on every image a    *)
(* boot may find, and the cache never holds another key than the record's, *)
(* for any number of credentials, keys, requests and restarts, and however *)
(* the requests' awaits fall between each other (FilesystemCredentials).   *)
THEOREM AnswersAreKept == Spec => []CredentialsHold
<1>1. (Init => CredentialInv) /\ (CredentialInv /\ [Next]_vars => CredentialInv')
  BY CredentialInitially, CredentialInductive
<1>2. CredentialInv => CredentialsHold
  BY DEF CredentialInv
<1> QED BY <1>1, <1>2, PTL DEF Spec

-----------------------------------------------------------------------------
(* The approvals.                                                          *)

(* What a step may do to an approval other than move it.                   *)
ChallengesGo(S) ==
  \A i \in Ids : challenges'[i] # None =>
    i \notin S /\ challenges[i] # None /\ challenges'[i].val = challenges[i].val
VerifiesGo(S) ==
  \A h \in Handlers : At(h, "verify")' => h \notin S /\ At(h, "verify") /\ handler'[h] = handler[h]
TokensGo(S) ==
  \A t \in Tokens : tokens'[t] # None =>
    t \notin S /\ tokens[t] # None /\ tokens'[t].val = tokens[t].val

LEMMA Fewer ==
  ASSUME TypeOK, ApprovalInv, ChallengesGo({}), VerifiesGo({}), TokensGo({}),
         UNCHANGED <<issued, admitted>>, signed \subseteq signed'
  PROVE  ApprovalInv'
<1>1. OneInteractionPerApproval'
  BY DEF ApprovalInv, OneInteractionPerApproval
<1>2. ASSUME NEW i \in Ids PROVE OnePlace(i)' /\ (challenges[i] # None => challenges[i].val = issued[i])'
  <2>1. /\ Held(i)' => Held(i)
        /\ Granted(i)' => Granted(i)
        /\ Spent(i)' <=> Spent(i)
    BY DEF Held, Granted, Spent, VerifiesGo, TokensGo, At
  <2> QED BY <2>1 DEF ApprovalInv, OnePlace, ChallengesGo
<1>3. ASSUME NEW h \in Handlers PROVE InHand(h)'
  BY DEF ApprovalInv, InHand, VerifiesGo, At
<1>4. ASSUME NEW g \in Handlers, NEW h \in Handlers
      PROVE  (At(g, "verify") /\ At(h, "verify") /\ handler[g].id = handler[h].id => g = h)'
  BY DEF ApprovalInv, VerifiesGo, At
<1>5. ASSUME NEW t \in Tokens
      PROVE  (tokens[t] # None => Approves(tokens[t].val.id, tokens[t].val.cred, tokens[t].val.scope))'
  BY DEF ApprovalInv, TokensGo, Approves
<1>6. ASSUME NEW t \in Tokens, NEW u \in Tokens
      PROVE  (tokens[t] # None /\ tokens[u] # None /\ tokens[t].val.id = tokens[u].val.id => t = u)'
  BY DEF ApprovalInv, TokensGo
<1> QED BY <1>1, <1>2, <1>3, <1>4, <1>5, <1>6 DEF ApprovalInv

(* Whoever has an approval has an id that was issued.                      *)
LEMMA InUse ==
  ASSUME TypeOK, ApprovalInv
  PROVE  /\ \A h \in Handlers : At(h, "verify") =>
              handler[h].id \in Ids /\ Held(handler[h].id) /\ issued[handler[h].id] # None
         /\ \A t \in Tokens : tokens[t] # None =>
              /\ tokens[t].val.id \in Ids /\ Granted(tokens[t].val.id)
              /\ issued[tokens[t].val.id] # None
         /\ \A n \in 1..Len(admitted) :
              admitted[n].id \in Ids /\ Spent(admitted[n].id) /\ issued[admitted[n].id] # None
<1>1. ASSUME NEW h \in Handlers, At(h, "verify")
      PROVE  handler[h].id \in Ids /\ Held(handler[h].id) /\ issued[handler[h].id] # None
  <2>1. handler[h].id \in Ids /\ Held(handler[h].id)
    BY <1>1, Carried DEF At, Held
  <2> QED BY <2>1 DEF ApprovalInv, OnePlace
<1>2. ASSUME NEW t \in Tokens, tokens[t] # None
      PROVE  /\ tokens[t].val.id \in Ids /\ Granted(tokens[t].val.id)
             /\ issued[tokens[t].val.id] # None
  <2>1. tokens[t].val.id \in Ids /\ Granted(tokens[t].val.id)
    BY <1>2 DEF Granted, TypeOK, TablesOK, Table, Approved
  <2> QED BY <2>1 DEF ApprovalInv, OnePlace
<1>3. ASSUME NEW n \in 1..Len(admitted)
      PROVE  admitted[n].id \in Ids /\ Spent(admitted[n].id) /\ issued[admitted[n].id] # None
  <2> DEFINE S == [id : Ids, tenant : Credentials, scope : Scopes]
  <2>0. admitted[n] \in S
    <3>1. admitted \in Seq(S)
      BY DEF TypeOK, HistoryOK
    <3> HIDE DEF S
    <3> QED BY <3>1
  <2>1. admitted[n].id \in Ids /\ Spent(admitted[n].id)
    BY <2>0 DEF Spent
  <2> QED BY <2>1 DEF ApprovalInv, OnePlace
<1> QED BY <1>1, <1>2, <1>3

(* A challenge is issued under an id that is nowhere.                      *)
LEMMA Issues ==
  ASSUME TypeOK, ApprovalInv, NEW i \in Ids, NEW e \in Pending, Fresh(i),
         issued' = [issued EXCEPT ![i] = e], challenges'[i] = Entry(e),
         \A j \in Ids : j # i => challenges'[j] \in {challenges[j], None},
         VerifiesGo({}), UNCHANGED <<tokens, admitted, signed>>
  PROVE  ApprovalInv'
<1>1. issued'[i] = e /\ e # None /\ (\A j \in Ids : j # i => issued'[j] = issued[j]) /\ issued[i] = None
  BY AuthAssumption DEF TypeOK, HistoryOK, Fresh
<1>2. ASSUME NEW j \in Ids, issued[j] # None PROVE issued'[j] = issued[j]
  BY <1>1, <1>2
<1>3. OneInteractionPerApproval'
  <2>1. \A n \in 1..Len(admitted) : issued'[admitted[n].id] = issued[admitted[n].id]
    BY <1>2, InUse
  <2> QED BY <2>1 DEF ApprovalInv, OneInteractionPerApproval
<1>4. ASSUME NEW j \in Ids PROVE OnePlace(j)' /\ (challenges[j] # None => challenges[j].val = issued[j])'
  <2>1. /\ Held(j)' => Held(j)
        /\ Granted(j)' <=> Granted(j)
        /\ Spent(j)' <=> Spent(j)
    BY DEF Held, Granted, Spent, VerifiesGo, At
  <2>2. CASE j = i
    BY <1>1, <2>1, <2>2 DEF ApprovalInv, OnePlace, Entry
  <2>3. CASE j # i
    BY <1>1, <2>1, <2>3 DEF ApprovalInv, OnePlace
  <2> QED BY <2>2, <2>3
<1>5. ASSUME NEW h \in Handlers PROVE InHand(h)'
  BY <1>2, InUse DEF ApprovalInv, InHand, VerifiesGo, At
<1>6. ASSUME NEW g \in Handlers, NEW h \in Handlers
      PROVE  (At(g, "verify") /\ At(h, "verify") /\ handler[g].id = handler[h].id => g = h)'
  BY DEF ApprovalInv, VerifiesGo, At
<1>7. ASSUME NEW t \in Tokens
      PROVE  (tokens[t] # None => Approves(tokens[t].val.id, tokens[t].val.cred, tokens[t].val.scope))'
  BY <1>2, InUse DEF ApprovalInv, Approves
<1>8. ASSUME NEW t \in Tokens, NEW u \in Tokens
      PROVE  (tokens[t] # None /\ tokens[u] # None /\ tokens[t].val.id = tokens[u].val.id => t = u)'
  BY DEF ApprovalInv
<1> QED BY <1>3, <1>4, <1>5, <1>6, <1>7, <1>8 DEF ApprovalInv

(* A request takes the challenge with it.                                  *)
LEMMA Takes ==
  ASSUME TypeOK, ApprovalInv, NEW i \in Ids, challenges[i] # None, ChallengesGo({i}),
         NEW h \in Handlers, \A g \in Handlers \ {h} : handler'[g] = handler[g],
         At(h, "verify")' => /\ handler'[h].id = i /\ handler'[h].entry = challenges[i].val
                             /\ handler'[h].asr \in signed,
         UNCHANGED <<tokens, admitted, issued, signed>>
  PROVE  ApprovalInv'
<1>1. OneInteractionPerApproval'
  BY DEF ApprovalInv, OneInteractionPerApproval
<1>2. /\ issued[i] # None /\ ~Held(i) /\ ~Granted(i) /\ ~Spent(i) /\ challenges[i].val = issued[i]
  BY DEF ApprovalInv, OnePlace
<1>3. \A g \in Handlers : At(g, "verify")' /\ g # h => At(g, "verify") /\ handler'[g] = handler[g]
  BY DEF At
<1>4. ASSUME NEW j \in Ids PROVE OnePlace(j)' /\ (challenges[j] # None => challenges[j].val = issued[j])'
  <2>1. /\ Held(j)' => Held(j) \/ j = i
        /\ Granted(j)' <=> Granted(j)
        /\ Spent(j)' <=> Spent(j)
    BY <1>3 DEF Held, Granted, Spent, At
  <2> QED BY <1>2, <2>1 DEF ApprovalInv, OnePlace, ChallengesGo
<1>5. ASSUME NEW g \in Handlers PROVE InHand(g)'
  BY <1>2, <1>3 DEF ApprovalInv, InHand, At
<1>6. ASSUME NEW f \in Handlers, NEW g \in Handlers
      PROVE  (At(f, "verify") /\ At(g, "verify") /\ handler[f].id = handler[g].id => f = g)'
  <2>1. \A k \in Handlers : At(k, "verify") => handler[k].id # i
    BY <1>2 DEF Held
  <2> QED BY <1>3, <2>1 DEF ApprovalInv, At
<1>7. ASSUME NEW t \in Tokens
      PROVE  (tokens[t] # None => Approves(tokens[t].val.id, tokens[t].val.cred, tokens[t].val.scope))'
  BY DEF ApprovalInv, Approves
<1>8. ASSUME NEW t \in Tokens, NEW u \in Tokens
      PROVE  (tokens[t] # None /\ tokens[u] # None /\ tokens[t].val.id = tokens[u].val.id => t = u)'
  BY DEF ApprovalInv
<1> QED BY <1>1, <1>4, <1>5, <1>6, <1>7, <1>8 DEF ApprovalInv

(* The approval goes from the challenge, or from the request that took it, *)
(* to a token.                                                             *)
LEMMA Grants ==
  ASSUME TypeOK, ApprovalInv, NEW i \in Ids, issued[i] # None, ~Granted(i), ~Spent(i),
         ChallengesGo({i}), NEW H, VerifiesGo(H),
         \A h \in Handlers : At(h, "verify") /\ handler[h].id = i => h \in H,
         NEW a \in signed, Verifies(i, issued[i], a), Grant(i, issued[i]),
         UNCHANGED <<admitted, issued, signed>>
  PROVE  ApprovalInv'
<1> DEFINE v == [cred |-> issued[i].cred, scope |-> issued[i].scope, id |-> i]
<1>1. PICK t \in Tokens : (Full(tokens) \/ t \notin Live(tokens)) /\ tokens' = Insert(tokens, t, v)
  BY DEF Grant
<1>2. v \in Approved /\ tokens \in Table(Tokens, Approved)
  BY DEF TypeOK, HistoryOK, TablesOK, Pending, Approved
<1>3. v.id = i /\ v.cred = issued[i].cred /\ v.scope = issued[i].scope
  OBVIOUS
<1> HIDE DEF v
<1>4. \A u \in Tokens : tokens'[u] # None =>
        \/ tokens[u] # None /\ tokens'[u].val = tokens[u].val /\ tokens[u].val.id # i
        \/ u = t /\ tokens'[u].val = v
  <2>1. \A u \in Tokens : tokens'[u] \in {tokens[u], None} \/ (u = t /\ tokens'[u] = Entry(v))
    BY <1>1, <1>2, Inserted
  <2> QED BY <2>1 DEF Entry, Granted
<1>5. [id |-> i, cred |-> issued[i].cred, key |-> issued[i].key] = a
  BY DEF Verifies, Assertion, TypeOK, HistoryOK
<1>6. Approves(i, v.cred, v.scope)
  BY <1>3, <1>5 DEF Approves
<1>7. OneInteractionPerApproval'
  BY DEF ApprovalInv, OneInteractionPerApproval
<1>8. ASSUME NEW j \in Ids PROVE OnePlace(j)' /\ (challenges[j] # None => challenges[j].val = issued[j])'
  <2>1. /\ Held(j)' => Held(j) /\ j # i
        /\ Granted(j)' => Granted(j) \/ j = i
        /\ Spent(j)' <=> Spent(j)
    BY <1>3, <1>4 DEF Held, Granted, Spent, VerifiesGo, At
  <2> QED BY <2>1 DEF ApprovalInv, OnePlace, ChallengesGo
<1>9. ASSUME NEW h \in Handlers PROVE InHand(h)'
  BY DEF ApprovalInv, InHand, VerifiesGo, At
<1>10. ASSUME NEW g \in Handlers, NEW h \in Handlers
       PROVE  (At(g, "verify") /\ At(h, "verify") /\ handler[g].id = handler[h].id => g = h)'
  BY DEF ApprovalInv, VerifiesGo, At
<1>11. ASSUME NEW u \in Tokens
       PROVE  (tokens[u] # None => Approves(tokens[u].val.id, tokens[u].val.cred, tokens[u].val.scope))'
  BY <1>3, <1>4, <1>6 DEF ApprovalInv, Approves
<1>12. ASSUME NEW u \in Tokens, NEW w \in Tokens
       PROVE  (tokens[u] # None /\ tokens[w] # None /\ tokens[u].val.id = tokens[w].val.id => u = w)'
  BY <1>3, <1>4 DEF ApprovalInv
<1> QED BY <1>7, <1>8, <1>9, <1>10, <1>11, <1>12 DEF ApprovalInv

(* The gate spends the token, and lets in what it approves or nothing.     *)
LEMMA Redeems ==
  ASSUME TypeOK, ApprovalInv, NEW t \in Tokens, NEW s \in Scopes, Redeem(t, s)
  PROVE  ApprovalInv'
<1> DEFINE i == tokens[t].val.id
<1> DEFINE n == [id |-> i, tenant |-> tokens[t].val.cred, scope |-> s]
<1>1. UNCHANGED <<challenges, handler, issued, signed>> /\ tokens[t] # None /\ TokensGo({t})
  <2>1. \A u \in Tokens : tokens'[u] = IF u = t THEN None ELSE tokens[u]
    BY Removed DEF Redeem, TypeOK, TablesOK
  <2> QED BY <2>1 DEF Redeem, TokensGo
<1>2. ChallengesGo({}) /\ VerifiesGo({})
  BY <1>1 DEF ChallengesGo, VerifiesGo, At
<1>3. CASE UNCHANGED admitted
  BY <1>1, <1>2, <1>3, Fewer DEF TokensGo
<1>4. CASE tokens[t].val.scope = s /\ admitted' = Append(admitted, n)
  <2>1. i \in Ids /\ Granted(i) /\ issued[i] # None /\ Approves(i, tokens[t].val.cred, s)
    BY <1>1, <1>4, InUse DEF ApprovalInv
  <2>2. ~Spent(i) /\ challenges[i] = None /\ ~Held(i)
    BY <2>1 DEF ApprovalInv, OnePlace
  <2>3. /\ Len(admitted) \in Nat /\ Len(admitted') = Len(admitted) + 1
        /\ \A m \in 1..Len(admitted) : admitted'[m] = admitted[m]
        /\ admitted'[Len(admitted) + 1] = n
    <3> DEFINE S == [id : Ids, tenant : Credentials, scope : Scopes]
    <3>1. admitted \in Seq(S)
      BY DEF TypeOK, HistoryOK
    <3> HIDE DEF S, n
    <3> QED BY <1>4, <3>1
  <2>4. n.id = i /\ n.tenant = tokens[t].val.cred /\ n.scope = s
    OBVIOUS
  <2> HIDE DEF i, n
  <2>5. \A m \in 1..Len(admitted') : m \in 1..Len(admitted) \/ m = Len(admitted) + 1
    BY <2>3
  <2>6. \A m \in 1..Len(admitted) : admitted[m].id # i
    BY <2>2 DEF Spent
  <2>7. OneInteractionPerApproval'
    <3>1. ASSUME NEW m \in 1..Len(admitted'), NEW p \in 1..Len(admitted'),
                 admitted'[m].id = admitted'[p].id
          PROVE  m = p
      <4>1. OneInteractionPerApproval
        BY DEF ApprovalInv
      <4> QED BY <2>3, <2>4, <2>5, <2>6, <3>1, <4>1 DEF OneInteractionPerApproval
    <3>2. ASSUME NEW m \in 1..Len(admitted')
          PROVE  LET e == issued'[admitted'[m].id] IN
                 /\ e # None /\ e.cred = admitted'[m].tenant /\ e.scope = admitted'[m].scope
                 /\ [id |-> admitted'[m].id, cred |-> e.cred, key |-> e.key] \in signed'
      <4>1. CASE m \in 1..Len(admitted)
        BY <1>1, <2>3, <4>1 DEF ApprovalInv, OneInteractionPerApproval
      <4>2. CASE m = Len(admitted) + 1
        BY <1>1, <2>1, <2>3, <2>4, <4>2 DEF Approves
      <4> QED BY <2>5, <4>1, <4>2
    <3> QED BY <3>1, <3>2 DEF OneInteractionPerApproval
  <2>8. ASSUME NEW j \in Ids PROVE OnePlace(j)' /\ (challenges[j] # None => challenges[j].val = issued[j])'
    <3>1. Held(j)' <=> Held(j)
      BY <1>1 DEF Held, At
    <3>2. Granted(j)' => Granted(j) /\ j # i
      <4>1. \A u \in Tokens : tokens[u] # None /\ tokens[u].val.id = i => u = t
        BY <1>1 DEF ApprovalInv, i
      <4> QED BY <4>1, <1>1 DEF Granted, TokensGo
    <3>3. Spent(j)' => Spent(j) \/ j = i
      BY <2>3, <2>4, <2>5 DEF Spent
    <3> QED BY <1>1, <2>1, <2>2, <3>1, <3>2, <3>3 DEF ApprovalInv, OnePlace
  <2>9. ASSUME NEW h \in Handlers PROVE InHand(h)'
    BY <1>1 DEF ApprovalInv, InHand, At
  <2>10. ASSUME NEW g \in Handlers, NEW h \in Handlers
         PROVE  (At(g, "verify") /\ At(h, "verify") /\ handler[g].id = handler[h].id => g = h)'
    BY <1>1 DEF ApprovalInv, At
  <2>11. ASSUME NEW u \in Tokens
         PROVE  (tokens[u] # None => Approves(tokens[u].val.id, tokens[u].val.cred, tokens[u].val.scope))'
    BY <1>1 DEF ApprovalInv, TokensGo, Approves
  <2>12. ASSUME NEW u \in Tokens, NEW w \in Tokens
         PROVE  (tokens[u] # None /\ tokens[w] # None /\ tokens[u].val.id = tokens[w].val.id => u = w)'
    BY <1>1 DEF ApprovalInv, TokensGo
  <2> QED BY <2>7, <2>8, <2>9, <2>10, <2>11, <2>12 DEF ApprovalInv
<1> QED BY <1>3, <1>4 DEF Redeem

LEMMA IssueStep ==
  ASSUME TypeOK, ApprovalInv, NEW i \in Ids, NEW c \in Credentials, NEW k \in Keys,
         NEW s \in Scopes, Issue(i, c, k, s), VerifiesGo({}), UNCHANGED <<tokens, admitted, signed>>
  PROVE  ApprovalInv'
<1> DEFINE e == [cred |-> c, key |-> k, scope |-> s]
<1>1. e \in Pending /\ challenges \in Table(Ids, Pending)
  BY DEF Pending, TypeOK, TablesOK
<1>2. Fresh(i) /\ challenges' = Insert(challenges, i, e)
  BY DEF Issue
<1>3. Full(challenges) => issued' = issued
  BY DEF Issue
<1>4. ~Full(challenges) => issued' = [issued EXCEPT ![i] = e]
  BY DEF Issue
<1> HIDE DEF e
<1>5. /\ \A j \in Ids : challenges'[j] \in {challenges[j], None} \/ (j = i /\ ~Full(challenges))
      /\ ~Full(challenges) => challenges'[i] = Entry(e)
  BY <1>1, <1>2, Inserted
<1>6. CASE Full(challenges)
  BY <1>3, <1>5, <1>6, Fewer DEF ChallengesGo, TokensGo
<1>7. CASE ~Full(challenges)
  <2>1. \A j \in Ids : j # i => challenges'[j] \in {challenges[j], None}
    BY <1>5
  <2> QED BY <1>1, <1>2, <1>4, <1>5, <1>7, <2>1, Issues
<1> QED BY <1>6, <1>7

LEMMA ConsumeStep ==
  ASSUME TypeOK, NEW i \in Ids, Consume(i) PROVE ChallengesGo({i}) /\ ChallengesGo({})
<1>1. \A j \in Ids : challenges'[j] = IF j = i THEN None ELSE challenges[j]
  BY Removed DEF Consume, TypeOK, TablesOK
<1> QED BY <1>1 DEF ChallengesGo

(* A handler that moves and does not come to hold a challenge.             *)
LEMMA NotVerifying ==
  ASSUME TypeOK, NEW h \in Handlers, NEW x, handler' = [handler EXCEPT ![h] = x],
         x # None => x.at # "verify"
  PROVE  VerifiesGo({}) /\ VerifiesGo({h})
BY Moved DEF VerifiesGo, At

LEMMA ApprovalStep ==
  ASSUME TypeOK, ApprovalInv, [Next]_vars PROVE ApprovalInv'
<1> USE DEF history
<1>1. ASSUME NEW c \in Credentials, NEW s \in Scopes, RequestOptionsCached(c, s) PROVE ApprovalInv'
  <2>1. cache[c].key \in Keys
    BY <1>1 DEF RequestOptionsCached, TypeOK, PoolOK, StoredCredential
  <2>2. PICK i \in Ids : Issue(i, c, cache[c].key, s)
    BY <1>1 DEF RequestOptionsCached
  <2>3. VerifiesGo({}) /\ UNCHANGED <<tokens, admitted, signed>>
    BY <1>1 DEF RequestOptionsCached, VerifiesGo, At
  <2> QED BY <2>1, <2>2, <2>3, IssueStep
<1>2. ASSUME NEW h \in Handlers, RequestOptionsFills(h) PROVE ApprovalInv'
  <2>1. VerifiesGo({}) /\ UNCHANGED <<tokens, admitted, signed>>
    BY <1>2, NotVerifying DEF RequestOptionsFills
  <2>2. CASE UNCHANGED <<challenges, issued>>
    BY <2>1, <2>2, Fewer DEF ChallengesGo, TokensGo
  <2>3. ASSUME NEW i \in Ids, Issue(i, handler[h].cred, handler[h].rec.key, handler[h].scope)
        PROVE  ApprovalInv'
    <3>1. handler[h].cred \in Credentials /\ handler[h].rec.key \in Keys /\ handler[h].scope \in Scopes
      BY <1>2 DEF RequestOptionsFills, Handling, StoredCredential, TypeOK
    <3> QED BY <2>1, <2>3, <3>1, IssueStep
  <2> QED BY <1>2, <2>2, <2>3 DEF RequestOptionsFills
<1>3. ASSUME NEW i \in Ids, NEW a \in signed, RequestVerifyCached(i, a) PROVE ApprovalInv'
  <2>1. /\ challenges[i] # None /\ ChallengesGo({i}) /\ ChallengesGo({})
        /\ VerifiesGo({}) /\ UNCHANGED <<admitted, issued, signed>>
    BY <1>3, ConsumeStep DEF RequestVerifyCached, VerifiesGo, At
  <2>2. /\ issued[i] # None /\ ~Held(i) /\ ~Granted(i) /\ ~Spent(i) /\ challenges[i].val = issued[i]
    BY <2>1 DEF ApprovalInv, OnePlace
  <2>3. CASE UNCHANGED tokens
    BY <2>1, <2>3, Fewer DEF TokensGo
  <2>4. CASE Verifies(i, issued[i], a) /\ Grant(i, issued[i])
    <3>1. \A h \in Handlers : At(h, "verify") /\ handler[h].id = i => h \in {}
      BY <2>2 DEF Held
    <3> QED BY <2>1, <2>2, <2>4, <3>1, Grants
  <2> QED BY <1>3, <2>2, <2>3, <2>4 DEF RequestVerifyCached, Authenticated
<1>4. ASSUME NEW h \in Handlers, RequestVerifyFills(h) PROVE ApprovalInv'
  <2> DEFINE i == handler[h].id
  <2>1. /\ VerifiesGo({}) /\ VerifiesGo({h}) /\ At(h, "verify")
        /\ UNCHANGED <<challenges, admitted, issued, signed>>
    BY <1>4, NotVerifying DEF RequestVerifyFills, At
  <2>2. /\ i \in Ids /\ issued[i] # None /\ Held(i)
        /\ handler[h].entry = issued[i] /\ handler[h].asr \in signed
    BY <2>1, InUse DEF ApprovalInv, InHand
  <2>3. challenges[i] = None /\ ~Granted(i) /\ ~Spent(i)
    BY <2>2 DEF ApprovalInv, OnePlace
  <2>4. ChallengesGo({}) /\ ChallengesGo({i})
    BY <2>1, <2>3 DEF ChallengesGo
  <2>5. CASE UNCHANGED tokens
    BY <2>1, <2>4, <2>5, Fewer DEF TokensGo
  <2>6. CASE Verifies(i, issued[i], handler[h].asr) /\ Grant(i, issued[i])
    <3>1. \A g \in Handlers : At(g, "verify") /\ handler[g].id = i => g \in {h}
      BY <2>1 DEF ApprovalInv
    <3> QED BY <2>1, <2>2, <2>3, <2>4, <2>6, <3>1, Grants
  <2> QED BY <1>4, <2>2, <2>5, <2>6 DEF RequestVerifyFills, Authenticated
<1>5. ASSUME NEW h \in Handlers, NEW i \in Ids, NEW a \in signed, RequestVerifyReads(h, i, a)
      PROVE  ApprovalInv'
  <2>1. /\ challenges[i] # None /\ ChallengesGo({i}) /\ ChallengesGo({})
        /\ UNCHANGED <<tokens, admitted, issued, signed>>
    BY <1>5, ConsumeStep DEF RequestVerifyReads
  <2>2. CASE UNCHANGED handler
    BY <2>1, <2>2, Fewer DEF VerifiesGo, TokensGo, At
  <2>3. ASSUME NEW x, handler' = [handler EXCEPT ![h] = x],
               x # None => x.id = i /\ x.entry = challenges[i].val /\ x.asr \in signed
        PROVE  ApprovalInv'
    <3>1. handler'[h] = x /\ \A g \in Handlers : g # h => handler'[g] = handler[g]
      BY <2>3, Moved
    <3> QED BY <2>1, <2>3, <3>1, Takes DEF At
  <2>4. CASE ~challenges[i].dead /\ IsRecord(file[a.cred])
    <3> DEFINE x == [at |-> "verify", cred |-> a.cred, rec |-> file[a.cred],
                     id |-> i, entry |-> challenges[i].val, asr |-> a]
    <3>1. handler' = [handler EXCEPT ![h] = x]
      BY <1>5, <2>4 DEF RequestVerifyReads, LookupRead
    <3>2. x.id = i /\ x.entry = challenges[i].val /\ x.asr \in signed
      OBVIOUS
    <3> HIDE DEF x
    <3> QED BY <2>3, <3>1, <3>2
  <2>5. CASE ~challenges[i].dead /\ ~IsRecord(file[a.cred])
    BY <1>5, <2>3, <2>5 DEF RequestVerifyReads, LookupRead
  <2> QED BY <1>5, <2>2, <2>4, <2>5 DEF RequestVerifyReads
<1>6. ASSUME NEW t \in Tokens, NEW s \in Scopes, Redeem(t, s) PROVE ApprovalInv'
  BY <1>6, Redeems
<1>7. ASSUME UNCHANGED <<challenges, tokens, issued, admitted, signed>>, VerifiesGo({}) PROVE ApprovalInv'
  BY <1>7, Fewer DEF ChallengesGo, TokensGo
<1>8. ASSUME NEW h \in Handlers, NEW x, handler' = [handler EXCEPT ![h] = x],
             x # None => x.at # "verify", UNCHANGED <<challenges, tokens, issued, admitted, signed>>
      PROVE  ApprovalInv'
  BY <1>7, <1>8, NotVerifying
<1>9. ASSUME NEW h \in Handlers, NEW c \in Credentials, NEW s \in Scopes, RequestOptionsReads(h, c, s)
      PROVE  ApprovalInv'
  <2> DEFINE x == IF IsRecord(file[c])
                    THEN [at |-> "options", cred |-> c, rec |-> file[c],
                    scope |-> s] ELSE None
  <2>1. handler' = [handler EXCEPT ![h] = x] /\ (x # None => x.at # "verify")
    BY <1>9 DEF RequestOptionsReads, LookupRead
  <2> HIDE DEF x
  <2> QED BY <1>8, <1>9, <2>1 DEF RequestOptionsReads
<1>10. ASSUME NEW h \in Handlers, NEW r \in Registrations, NEW c \in Credentials, NEW k \in Keys,
              RegisterVerify(h, r, c, k)
       PROVE  ApprovalInv'
  <2> DEFINE x == IF registrations[r].dead THEN None ELSE [at |-> "tenant_dir", cred |-> c, key |-> k]
  <2>1. handler' = [handler EXCEPT ![h] = x] /\ (x # None => x.at # "verify")
    BY <1>10 DEF RegisterVerify
  <2> HIDE DEF x
  <2> QED BY <1>8, <1>10, <2>1 DEF RegisterVerify
<1>11. ASSUME NEW h \in Handlers, NEW step \in {"write", "revoke_write"}, Goto(h, step),
              At(h, "tenant_dir") \/ Rewriting(h), UNCHANGED <<challenges, tokens, issued, admitted, signed>>
       PROVE  ApprovalInv'
  <2>1. handler' = [handler EXCEPT ![h] = [handler[h] EXCEPT !.at = step]]
    BY <1>11 DEF Goto, TypeOK
  <2>2. [handler[h] EXCEPT !.at = step].at # "verify"
    BY <1>11, Carried DEF At, Rewriting
  <2> QED BY <1>8, <1>11, <2>1, <2>2
<1>12. ASSUME NEW h \in Handlers, CreateNew(h) PROVE ApprovalInv'
  BY <1>8, <1>11, <1>12 DEF CreateNew
<1>13. ASSUME NEW h \in Handlers, WriteRecord(h) PROVE ApprovalInv'
  BY <1>8, <1>13 DEF WriteRecord
<1>14. ASSUME NEW h \in Handlers, NEW c \in Credentials, Revoke(h, c) PROVE ApprovalInv'
  BY <1>8, <1>14 DEF Revoke
<1>15. ASSUME NEW h \in Handlers, RevokeTruncates(h) PROVE ApprovalInv'
  BY <1>11, <1>15 DEF RevokeTruncates, Rewriting
<1>16. ASSUME NEW h \in Handlers, RevokeWrites(h) PROVE ApprovalInv'
  BY <1>8, <1>16 DEF RevokeWrites
<1>17. ASSUME NEW h \in Handlers, Registered(h) \/ Revoked(h) \/ GiveUp(h) PROVE ApprovalInv'
  BY <1>8, <1>17 DEF Registered, Revoked, GiveUp
<1>18. ASSUME \/ \E r \in Registrations : RegisterOptions(r)
              \/ UNCHANGED vars
       PROVE  ApprovalInv'
  BY <1>7, <1>18 DEF RegisterOptions, vars, VerifiesGo, At
<1>19. ASSUME NEW i \in Ids, NEW k \in Keys, Sign(i, k) PROVE ApprovalInv'
  BY <1>19, Fewer DEF Sign, ChallengesGo, VerifiesGo, TokensGo, At
<1>20. ASSUME Expire PROVE ApprovalInv'
  <2>1. VerifiesGo({}) /\ UNCHANGED <<issued, admitted, signed>>
    BY <1>20 DEF Expire, VerifiesGo, At
  <2>2. ASSUME NEW i \in Ids, Dies(challenges, i) PROVE ChallengesGo({})
    <3>1. /\ \A j \in Ids : j # i => challenges'[j] = challenges[j]
          /\ challenges[i] # None /\ challenges'[i].val = challenges[i].val
      BY <2>2, Expired DEF Dies, TypeOK, TablesOK
    <3> QED BY <3>1 DEF ChallengesGo
  <2>3. ASSUME NEW t \in Tokens, Dies(tokens, t) PROVE TokensGo({})
    <3>1. /\ \A u \in Tokens : u # t => tokens'[u] = tokens[u]
          /\ tokens[t] # None /\ tokens'[t].val = tokens[t].val
      BY <2>3, Expired DEF Dies, TypeOK, TablesOK
    <3> QED BY <3>1 DEF TokensGo
  <2>4. (UNCHANGED challenges => ChallengesGo({})) /\ (UNCHANGED tokens => TokensGo({}))
    BY DEF ChallengesGo, TokensGo
  <2> QED BY <1>20, <2>1, <2>2, <2>3, <2>4, Fewer DEF Expire
<1>21. ASSUME Restart PROVE ApprovalInv'
  BY <1>21, Fewer DEF Restart, ChallengesGo, VerifiesGo, TokensGo, At
<1> QED BY <1>1, <1>2, <1>3, <1>4, <1>5, <1>6, <1>9, <1>10, <1>12, <1>13, <1>14, <1>15,
    <1>16, <1>17,
           <1>18, <1>19, <1>20, <1>21 DEF Next

(* What a step does to a live entry of a table.                            *)
LEMMA LiveInserted ==
  ASSUME NEW I, NEW V \in SUBSET (Pending \union Approved),
         NEW table \in Table(I, V), NEW i \in I, NEW v \in V, NEW j \in Live(table)
  PROVE  Insert(table, i, v)[j] # None
<1>1. table[j] # None
  BY DEF Live
<1>2. Insert(table, i, v)[j] = table[j] \/ (j = i /\ ~Full(table))
  BY Inserted
<1>3. Entry(v) \in [dead : BOOLEAN, val : Pending \union Approved]
  BY DEF Entry
<1>4. ~Full(table) => Insert(table, i, v)[i] = Entry(v)
  BY Inserted
<1> QED BY <1>1, <1>2, <1>3, <1>4, AuthAssumption

LEMMA LiveRemoved ==
  ASSUME NEW I, NEW V, NEW table \in Table(I, V), NEW i \in I, NEW j \in Live(table),
         Remove(table, i)[j] = None
  PROVE  i = j
<1>1. table[j] # None /\ j \in I
  BY DEF Live, Table
<1> QED BY <1>1, Removed

LEMMA LiveExpired ==
  ASSUME NEW I, NEW V \in SUBSET (Pending \union Approved),
         NEW table \in Table(I, V), NEW i \in Live(table), NEW j \in Live(table), NEW new,
         new = [table EXCEPT ![i].dead = TRUE]
  PROVE  new[j] # None
<1>1. table[j] # None /\ j \in I
  BY DEF Live, Table
<1>2. new[i] \in [dead : BOOLEAN, val : V] /\ (j # i => new[j] = table[j])
  BY <1>1 DEF Live, Table
<1>3. new[i] \in [dead : BOOLEAN, val : Pending \union Approved]
  BY <1>2
<1> QED BY <1>1, <1>2, <1>3, AuthAssumption

NoneEvicted ==
  /\ \A i \in Live(challenges) : challenges'[i] = None => challenges' = Remove(challenges, i)
  /\ \A t \in Live(tokens) : tokens'[t] = None => tokens' = Remove(tokens, t)

LEMMA EvictsNone ==
  ASSUME TypeOK, [Next]_vars, restarts' = restarts PROVE NoneEvicted
<1> DEFINE C == \A i \in Live(challenges) : challenges'[i] = None => challenges' = Remove(challenges, i)
<1> DEFINE T == \A t \in Live(tokens) : tokens'[t] = None => tokens' = Remove(tokens, t)
<1> USE DEF history
<1>0. challenges \in Table(Ids, Pending) /\ tokens \in Table(Tokens, Approved)
  BY DEF TypeOK, TablesOK
<1>c. ASSUME UNCHANGED challenges PROVE C
  BY <1>c DEF Live
<1>t. ASSUME UNCHANGED tokens PROVE T
  BY <1>t DEF Live
<1>i. ASSUME NEW i \in Ids, NEW c \in Credentials, NEW k \in Keys, NEW s \in Scopes,
             Issue(i, c, k, s)
      PROVE  C
  <2>1. [cred |-> c, key |-> k, scope |-> s] \in Pending
    BY DEF Pending
  <2>2. challenges' = Insert(challenges, i, [cred |-> c, key |-> k, scope |-> s])
    BY <1>i DEF Issue
  <2> QED BY <1>0, <2>1, <2>2, LiveInserted
<1>r. ASSUME NEW i \in Ids, Consume(i) PROVE C
  BY <1>0, <1>r, LiveRemoved DEF Consume
<1>g. ASSUME NEW i \in Ids, NEW e \in Pending, NEW a, NEW rec, Authenticated(i, e, a, rec) PROVE T
  <2>1. ASSUME NEW t \in Tokens,
               tokens' = Insert(tokens, t, [cred |-> e.cred, scope |-> e.scope, id |-> i])
        PROVE  T
    <3>1. [cred |-> e.cred, scope |-> e.scope, id |-> i] \in Approved
      BY DEF Approved, Pending
    <3> QED BY <1>0, <2>1, <3>1, LiveInserted
  <2> QED BY <1>g, <1>t, <2>1 DEF Authenticated, Grant
<1>1. ASSUME NEW c \in Credentials, NEW s \in Scopes, RequestOptionsCached(c, s) PROVE C /\ T
  <2>1. cache[c].key \in Keys
    BY <1>1 DEF RequestOptionsCached, TypeOK, PoolOK, StoredCredential
  <2> QED BY <1>1, <1>i, <1>t, <2>1 DEF RequestOptionsCached
<1>2. ASSUME NEW i \in Ids, NEW a \in signed, RequestVerifyCached(i, a) PROVE C /\ T
  <2>1. challenges[i].val \in Pending
    BY <1>0, <1>2 DEF RequestVerifyCached, Table
  <2> QED BY <1>2, <1>r, <1>g, <1>t, <2>1 DEF RequestVerifyCached
<1>3. ASSUME NEW t \in Tokens, NEW s \in Scopes, Redeem(t, s) PROVE C /\ T
  <2>1. T
    BY <1>0, <1>3, LiveRemoved DEF Redeem
  <2> QED BY <1>3, <1>c, <2>1 DEF Redeem
<1>4. ASSUME NEW h \in Handlers, RequestOptionsFills(h) PROVE C /\ T
  <2>1. handler[h].cred \in Credentials /\ handler[h].rec.key \in Keys /\ handler[h].scope \in Scopes
    BY <1>4 DEF RequestOptionsFills, Handling, StoredCredential, TypeOK
  <2> QED BY <1>4, <1>c, <1>i, <1>t, <2>1 DEF RequestOptionsFills
<1>5. ASSUME NEW h \in Handlers, NEW i \in Ids, NEW a \in signed, RequestVerifyReads(h, i, a)
      PROVE  C /\ T
  BY <1>5, <1>r, <1>t DEF RequestVerifyReads
<1>6. ASSUME NEW h \in Handlers, RequestVerifyFills(h) PROVE C /\ T
  <2>1. handler[h].id \in Ids /\ handler[h].entry \in Pending
    BY <1>6, Carried DEF RequestVerifyFills, At
  <2> QED BY <1>6, <1>c, <1>g, <2>1 DEF RequestVerifyFills
<1>7. ASSUME Expire PROVE C /\ T
  <2>1. ASSUME NEW i \in Ids, Dies(challenges, i) PROVE C
    BY <1>0, <2>1, LiveExpired DEF Dies
  <2>2. ASSUME NEW t \in Tokens, Dies(tokens, t) PROVE T
    BY <1>0, <2>2, LiveExpired DEF Dies
  <2> QED BY <1>7, <1>c, <1>t, <2>1, <2>2 DEF Expire
<1>8. ~Restart
  BY AuthAssumption DEF Restart, TypeOK
<1>9. ASSUME UNCHANGED <<challenges, tokens>> PROVE C /\ T
  BY <1>9, <1>c, <1>t
<1>10. ASSUME NEW h \in Handlers,
              \/ \E c \in Credentials, s \in Scopes : RequestOptionsReads(h, c, s)
              \/ \E r \in Registrations, c \in Credentials, k \in Keys : RegisterVerify(h, r, c, k)
              \/ CreateNew(h) \/ WriteRecord(h) \/ Registered(h)
              \/ \E c \in Credentials : Revoke(h, c)
              \/ RevokeTruncates(h) \/ RevokeWrites(h) \/ Revoked(h)
              \/ GiveUp(h)
       PROVE  UNCHANGED <<challenges, tokens>>
  BY <1>10 DEF RequestOptionsReads, RegisterVerify, CreateNew, WriteRecord, Registered,
    Revoke,
     RevokeTruncates, RevokeWrites, Revoked, GiveUp
<1>11. ASSUME \/ \E r \in Registrations : RegisterOptions(r)
              \/ \E i \in Ids, k \in Keys : Sign(i, k)
              \/ UNCHANGED vars
       PROVE  UNCHANGED <<challenges, tokens>>
  BY <1>11 DEF RegisterOptions, Sign, vars
<1> HIDE DEF C, T
<1>12. C /\ T
  BY <1>1, <1>2, <1>3, <1>4, <1>5, <1>6, <1>7, <1>8, <1>9, <1>10, <1>11 DEF Next
<1> QED BY <1>12 DEF C, T, NoneEvicted

LEMMA ApprovalInitially == Init => ApprovalInv
BY DEF Init, ApprovalInv, OneInteractionPerApproval, OnePlace, Held, Granted, Spent, InHand,
  At

(* However often an assertion or a token is sent, and whatever comes       *)
(* between its requests' awaits, an approval lets in one interaction, its  *)
(* own; and no other caller can take it away by asking for more            *)
(* (ChallengeStore::consume and issue, TokenStore::redeem).                *)
THEOREM ApprovalsAreKept == Spec => ApprovalsHold
<1> DEFINE I == CredentialInv /\ ApprovalInv
<1>1. Init => I
  BY CredentialInitially, ApprovalInitially
<1>2. I /\ [Next]_vars => I'
  BY CredentialInductive, ApprovalStep, CoreOf
<1>3. I => OneInteractionPerApproval
  BY DEF ApprovalInv
<1>4. I /\ [Next]_vars => [restarts' = restarts => NoneEvicted]_vars
  BY EvictsNone, CoreOf
<1> HIDE DEF I
<1>5. Spec => []OneInteractionPerApproval
  BY <1>1, <1>2, <1>3, PTL DEF Spec
<1>6. Spec => [][restarts' = restarts => NoneEvicted]_vars
  BY <1>1, <1>2, <1>4, PTL DEF Spec
<1>7. [][restarts' = restarts => NoneEvicted]_vars => NothingEvicted
  BY PTL DEF NoneEvicted, NothingEvicted
<1> QED BY <1>5, <1>6, <1>7, PTL DEF ApprovalsHold

-----------------------------------------------------------------------------
(* LineFramer, for any stream objects, cap and writes.  What an object has *)
(* framed is a function of the bytes written through it alone: Framed says  *)
(* which, for a framer that has taken w, and a byte more keeps it so.      *)

LEMMA LinesAssumed == Cap \in Nat /\ MaxChunk \in Nat
BY ServingAssumption DEF Lines!LinesAssumption

LEMMA LinesCount ==
  ASSUME NEW S
  PROVE  Lines!Cardinality(S) = Cardinality(S)
BY Zenon DEF Lines!Cardinality, Cardinality, Lines!IsFiniteSet, IsFiniteSet

LEMMA LeastNatural ==
  ASSUME NEW S \in SUBSET Nat, S # {}
  PROVE  \E x \in S : \A y \in S : x <= y
<1> DEFINE R == OpToRel(<, Nat)
<1>1. \A y, x \in Nat : <<y, x>> \in R <=> y < x
  BY DEF OpToRel
<1> HIDE DEF R
<1>2. PICK x \in S : \A y \in S : <<y, x>> \notin R
  BY NatLessThanWellFounded, WFMin DEF R
<1>3. ASSUME NEW y \in S PROVE x <= y
  <2>1. x \in Nat /\ y \in Nat
    OBVIOUS
  <2>2. ~(y < x)
    BY <1>1, <1>2, <2>1
  <2> QED BY <2>1, <2>2
<1> QED BY <1>3

(* The line that the i-th byte ends or is in begins at s. *)
Begins(w, i, s) ==
  /\ s \in 1..i
  /\ s = 1 \/ w[s - 1] = "n"
  /\ \A j \in s..(i - 1) : w[j] # "n"

LEMMA BeginsOnce ==
  ASSUME NEW w, NEW i \in Nat, NEW s, NEW t, Begins(w, i, s), Begins(w, i, t)
  PROVE  s = t
<1>1. ASSUME NEW a, NEW b, Begins(w, i, a), Begins(w, i, b), a < b PROVE FALSE
  <2>1. a \in Nat /\ b \in Nat /\ b <= i /\ a >= 1
    BY <1>1 DEF Begins
  <2>2. b - 1 \in a..(i - 1) /\ w[b - 1] = "n"
    BY <1>1, <2>1 DEF Begins
  <2> QED BY <1>1, <2>2 DEF Begins
<1>2. s \in Nat /\ t \in Nat
  BY DEF Begins
<1> QED BY <1>1, <1>2

LEMMA StartBegins ==
  ASSUME NEW w, NEW i \in Nat \ {0}
  PROVE  Begins(w, i, Lines!Start(w, i))
<1> DEFINE S == {s \in 1..i : \A j \in s..(i - 1) : w[j] # "n"}
<1>1. S \in SUBSET Nat /\ i \in S
  OBVIOUS
<1>2. PICK s \in S : \A t \in S : s <= t
  BY <1>1, LeastNatural
<1>3. s = 1 \/ w[s - 1] = "n"
  <2> SUFFICES ASSUME s # 1, w[s - 1] # "n" PROVE FALSE
    OBVIOUS
  <2>1. s \in 1..i /\ s - 1 \in 1..i
    OBVIOUS
  <2>2. \A j \in (s - 1)..(i - 1) : j = s - 1 \/ j \in s..(i - 1)
    BY <2>1
  <2>3. s - 1 \in S
    BY <2>1, <2>2
  <2> QED BY <1>2, <2>1, <2>3
<1>4. Begins(w, i, s)
  BY <1>3 DEF Begins
<1>5. Lines!Start(w, i) = CHOOSE x \in 1..i : Begins(w, i, x)
  BY DEF Lines!Start, Begins
<1> QED BY <1>4, <1>5 DEF Begins

LEMMA StartIs ==
  ASSUME NEW w, NEW i \in Nat \ {0}, NEW s, Begins(w, i, s)
  PROVE  Lines!Start(w, i) = s
BY StartBegins, BeginsOnce

InProgress(w) == Lines!LineEnding(w, Len(w) + 1)

(* A byte more: the lines before are as they were. *)
LEMMA Grown ==
  ASSUME NEW w \in Seq(Lines!Bytes), NEW b \in Lines!Bytes
  PROVE  /\ \A i \in 1..(Len(w) + 1) :
              /\ Lines!Start(Append(w, b), i) = Lines!Start(w, i)
              /\ Lines!LineEnding(Append(w, b), i) = Lines!LineEnding(w, i)
         /\ Lines!Ends(Append(w, b)) =
              IF b = "n" THEN Lines!Ends(w) \cup {Len(w) + 1} ELSE Lines!Ends(w)
         /\ InProgress(w) \in Seq(Lines!Bytes)
         /\ \A i : i = Len(w) + 1 => Len(InProgress(w)) = i - Lines!Start(w, i)
         /\ InProgress(Append(w, b)) = IF b = "n" THEN <<>> ELSE Append(InProgress(w), b)
<1> DEFINE v == Append(w, b)
           n == Len(w)
<1>1. /\ n \in Nat /\ v \in Seq(Lines!Bytes) /\ Len(v) = n + 1 /\ v[n + 1] = b
      /\ \A i \in 1..n : v[i] = w[i] /\ w[i] \in Lines!Bytes
      /\ DOMAIN w = 1..n /\ DOMAIN v = 1..(n + 1)
  OBVIOUS
<1> HIDE DEF v
<1>2. ASSUME NEW i \in 1..(n + 1) PROVE Lines!Start(v, i) = Lines!Start(w, i)
  <2> DEFINE s == Lines!Start(w, i)
  <2>1. Begins(w, i, s)
    BY <1>1, StartBegins
  <2> HIDE DEF s
  <2>2. Begins(v, i, s)
    <3>1. s \in 1..i /\ (s = 1 \/ w[s - 1] = "n") /\ \A j \in s..(i - 1) : w[j] # "n"
      BY <2>1 DEF Begins
    <3>2. s # 1 => s - 1 \in 1..n
      BY <1>1, <3>1
    <3>3. \A j \in s..(i - 1) : j \in 1..n
      BY <1>1, <3>1
    <3> QED BY <1>1, <3>1, <3>2, <3>3 DEF Begins
  <2> QED BY <1>1, <2>2, StartIs DEF s
<1>3. ASSUME NEW i \in 1..(n + 1)
      PROVE  /\ Lines!LineEnding(w, i) \in Seq(Lines!Bytes)
             /\ Len(Lines!LineEnding(w, i)) = i - Lines!Start(w, i)
             /\ Lines!LineEnding(v, i) = Lines!LineEnding(w, i)
  <2> DEFINE s == Lines!Start(w, i)
  <2>1. s \in 1..i
    BY <1>1, StartBegins DEF Begins
  <2>2. Lines!LineEnding(w, i) = SubSeq(w, s, i - 1) /\ Lines!LineEnding(v, i) = SubSeq(v, s, i - 1)
    BY <1>2 DEF Lines!LineEnding
  <2> HIDE DEF s
  <2>3. \A j \in s..(i - 1) : j \in 1..n
    BY <1>1, <2>1
  <2>4. /\ SubSeq(w, s, i - 1) \in Seq(Lines!Bytes)
        /\ Len(SubSeq(w, s, i - 1)) = IF s <= i - 1 THEN i - 1 - s + 1 ELSE 0
        /\ \A j \in 1..(i - 1 - s + 1) : SubSeq(w, s, i - 1)[j] = w[s + j - 1]
    BY <1>1, <2>1, <2>3, SubSeqProperties
  <2>5. /\ SubSeq(v, s, i - 1) \in Seq(Lines!Bytes)
        /\ Len(SubSeq(v, s, i - 1)) = IF s <= i - 1 THEN i - 1 - s + 1 ELSE 0
        /\ \A j \in 1..(i - 1 - s + 1) : SubSeq(v, s, i - 1)[j] = v[s + j - 1]
    BY <1>1, <2>1, <2>3, SubSeqProperties
  <2>6. Len(SubSeq(w, s, i - 1)) = i - s
    BY <1>1, <2>1, <2>4
  <2>7. SubSeq(v, s, i - 1) = SubSeq(w, s, i - 1)
    <3>1. \A j \in 1..(i - s) : s + j - 1 \in 1..n
      BY <1>1, <2>1
    <3>2. \A j \in 1..Len(SubSeq(w, s, i - 1)) : SubSeq(v, s, i - 1)[j] = SubSeq(w, s, i - 1)[j]
      BY <1>1, <2>1, <2>4, <2>5, <2>6, <3>1
    <3> QED BY <2>4, <2>5, <3>2, SeqEqual
  <2> QED BY <2>2, <2>4, <2>6, <2>7 DEF s
<1>4. Lines!Ends(v) = IF b = "n" THEN Lines!Ends(w) \cup {n + 1} ELSE Lines!Ends(w)
  <2>1. \A i \in 1..(n + 1) : i \in 1..n \/ i = n + 1
    BY <1>1
  <2> QED BY <1>1, <2>1 DEF Lines!Ends
<1>5. InProgress(v) = IF b = "n" THEN <<>> ELSE Append(InProgress(w), b)
  <2> DEFINE s == Lines!Start(w, n + 1)
  <2>1. Begins(w, n + 1, s) /\ InProgress(v) = SubSeq(v, Lines!Start(v, n + 2), n + 1)
    BY <1>1, StartBegins DEF InProgress, Lines!LineEnding
  <2> HIDE DEF s
  <2>2. CASE b = "n"
    <3>1. Begins(v, n + 2, n + 2)
      BY <1>1, <2>2 DEF Begins
    <3>2. Lines!Start(v, n + 2) = n + 2
      BY <1>1, <3>1, StartIs
    <3> QED BY <1>1, <2>1, <2>2, <3>2, SubSeqEmpty
  <2>3. CASE b # "n"
    <3>1. s \in 1..(n + 1) /\ (s = 1 \/ w[s - 1] = "n") /\ \A j \in s..n : w[j] # "n"
      BY <1>1, <2>1 DEF Begins
    <3>2. \A j \in s..(n + 1) : j \in 1..n \/ j = n + 1
      BY <1>1, <3>1
    <3>3. Begins(v, n + 2, s)
      <4>1. s # 1 => s - 1 \in 1..n
        BY <1>1, <3>1
      <4>2. \A j \in s..(n + 1) : v[j] # "n"
        BY <1>1, <2>3, <3>1, <3>2
      <4> QED BY <1>1, <3>1, <4>1, <4>2 DEF Begins
    <3>4. InProgress(v) = SubSeq(v, s, n + 1)
      <4>1. n + 2 \in Nat \ {0}
        BY <1>1
      <4>2. Lines!Start(v, n + 2) = s
        BY <3>3, <4>1, StartIs
      <4> QED BY <2>1, <4>2
    <3>5. SubSeq(v, s, n + 1) = SubSeq(v, s, n) \o <<v[n + 1]>>
      BY <1>1, <3>1, SubSeqRecursiveSecond
    <3>6. InProgress(w) = SubSeq(v, s, n) /\ InProgress(w) \in Seq(Lines!Bytes)
      <4>1. n + 1 \in 1..(n + 1) /\ (n + 1) - 1 = n
        BY <1>1
      <4>2. Lines!LineEnding(v, n + 1) = SubSeq(v, s, n)
        BY <1>2, <4>1 DEF Lines!LineEnding, s
      <4> QED BY <1>3, <4>1, <4>2 DEF InProgress
    <3> QED BY <1>1, <2>3, <3>4, <3>5, <3>6, AppendIsConcat
  <2> QED BY <2>2, <2>3
<1>6. ASSUME NEW i, i = n + 1
      PROVE  InProgress(w) \in Seq(Lines!Bytes) /\ Len(InProgress(w)) = i - Lines!Start(w, i)
  <2>1. i \in 1..(n + 1)
    BY <1>1, <1>6
  <2>2. /\ Lines!LineEnding(w, i) \in Seq(Lines!Bytes)
        /\ Len(Lines!LineEnding(w, i)) = i - Lines!Start(w, i)
    BY <1>3, <2>1
  <2>3. InProgress(w) = Lines!LineEnding(w, i)
    BY <1>6 DEF InProgress
  <2> QED BY <2>2, <2>3, Zenon
<1> QED BY <1>2, <1>3, <1>4, <1>5, <1>6 DEF v

(* The first bytes of a line, as many as a record holds, as it grows. *)
LEMMA WholeGrows ==
  ASSUME NEW l \in Seq(Lines!Bytes), NEW b \in Lines!Bytes
  PROVE  /\ Lines!Whole(l) \in Seq(Lines!Bytes) /\ Len(Lines!Whole(l)) <= Cap
         /\ Len(l) <= Cap => Lines!Whole(l) = l
         /\ Len(l) >= Cap => /\ Len(Lines!Whole(l)) = Cap
                            /\ Lines!Whole(Append(l, b)) = Lines!Whole(l)
<1> USE LinesAssumed
<1> DEFINE m == Append(l, b)
<1>1. /\ Len(l) \in Nat /\ m \in Seq(Lines!Bytes) /\ Len(m) = Len(l) + 1
      /\ \A i \in 1..Len(l) : m[i] = l[i] /\ l[i] \in Lines!Bytes
  OBVIOUS
<1> HIDE DEF m
<1>2. CASE Len(l) <= Cap
  <2>1. Lines!Whole(l) = l
    BY <1>1, <1>2, SubSeqFull DEF Lines!Whole
  <2>2. Len(l) >= Cap => Lines!Whole(m) = l
    <3> SUFFICES ASSUME Len(l) = Cap PROVE Lines!Whole(m) = l
      BY <1>1, <1>2
    <3>1. Lines!Whole(m) = SubSeq(m, 1, Len(l))
      BY <1>1 DEF Lines!Whole
    <3>2. /\ SubSeq(m, 1, Len(l)) \in Seq(Lines!Bytes)
          /\ Len(SubSeq(m, 1, Len(l))) = IF 1 <= Len(l) THEN Len(l) - 1 + 1 ELSE 0
          /\ \A i \in 1..(Len(l) - 1 + 1) : SubSeq(m, 1, Len(l))[i] = m[1 + i - 1]
      BY <1>1, SubSeqProperties
    <3>3. /\ Len(SubSeq(m, 1, Len(l))) = Len(l)
          /\ \A i \in 1..Len(l) : SubSeq(m, 1, Len(l))[i] = l[i]
      BY <1>1, <3>2
    <3> QED BY <3>1, <3>2, <3>3, SeqEqual
  <2> QED BY <1>1, <1>2, <2>1, <2>2 DEF m
<1>3. CASE Len(l) > Cap
  <2>1. Lines!Whole(l) = SubSeq(l, 1, Cap) /\ Lines!Whole(m) = SubSeq(m, 1, Cap)
    BY <1>1, <1>3 DEF Lines!Whole
  <2>2. \A i \in 1..Cap : i \in 1..Len(l) /\ m[i] = l[i] /\ l[i] \in Lines!Bytes
    BY <1>1, <1>3
  <2>3. /\ SubSeq(l, 1, Cap) \in Seq(Lines!Bytes) /\ SubSeq(m, 1, Cap) \in Seq(Lines!Bytes)
        /\ Len(SubSeq(l, 1, Cap)) = Cap /\ Len(SubSeq(m, 1, Cap)) = Cap
        /\ \A i \in 1..Cap : SubSeq(l, 1, Cap)[i] = l[i] /\ SubSeq(m, 1, Cap)[i] = m[i]
    <3>1. ASSUME NEW t, \A i \in 1..Cap : t[i] \in Lines!Bytes
          PROVE  /\ SubSeq(t, 1, Cap) \in Seq(Lines!Bytes) /\ Len(SubSeq(t, 1, Cap)) = Cap
                 /\ \A i \in 1..Cap : SubSeq(t, 1, Cap)[i] = t[i]
      <4>1. /\ SubSeq(t, 1, Cap) \in Seq(Lines!Bytes)
            /\ Len(SubSeq(t, 1, Cap)) = IF 1 <= Cap THEN Cap - 1 + 1 ELSE 0
            /\ \A i \in 1..(Cap - 1 + 1) : SubSeq(t, 1, Cap)[i] = t[1 + i - 1]
        BY <3>1, SubSeqProperties
      <4> QED BY <4>1
    <3>2. \A i \in 1..Cap : l[i] \in Lines!Bytes /\ m[i] \in Lines!Bytes
      BY <2>2
    <3> QED BY <3>1, <3>2
  <2>4. SubSeq(m, 1, Cap) = SubSeq(l, 1, Cap)
    BY <2>2, <2>3, SeqEqual
  <2> QED BY <1>1, <1>3, <2>1, <2>3, <2>4 DEF m
<1> QED BY <1>1, <1>2, <1>3

Past(w) == {i \in DOMAIN w : w[i] # "n" /\ i - Lines!Start(w, i) >= Cap}
Before(S, i) == Cardinality({j \in S : j <= i})

(* The framer that has taken w. *)
Framed(w, f) ==
  /\ w \in Seq(Lines!Bytes) /\ f \in Lines!Framer
  /\ Len(f.out) = Cardinality(Lines!Ends(w))
  /\ \A i \in Lines!Ends(w) : f.out[Before(Lines!Ends(w), i)] = Lines!Record(Lines!LineEnding(w, i))
  /\ f.partial = Lines!Whole(InProgress(w))
  /\ f.overflowed <=> Len(InProgress(w)) > Cap
  /\ f.lost = Cardinality(Past(w))

LEMMA FinitePlaces ==
  ASSUME NEW w \in Seq(Lines!Bytes)
  PROVE  /\ IsFiniteSet(Lines!Ends(w)) /\ IsFiniteSet(Past(w))
         /\ Lines!Ends(w) \subseteq 1..Len(w) /\ Past(w) \subseteq 1..Len(w)
         /\ Cardinality(Lines!Ends(w)) \in Nat /\ Cardinality(Past(w)) \in Nat
<1>1. DOMAIN w = 1..Len(w) /\ Len(w) \in Nat
  OBVIOUS
<1>2. IsFiniteSet(1..Len(w))
  BY <1>1, FS_Interval
<1>3. Lines!Ends(w) \in SUBSET (1..Len(w)) /\ Past(w) \in SUBSET (1..Len(w))
  BY <1>1 DEF Lines!Ends, Past
<1>4. IsFiniteSet(Lines!Ends(w)) /\ IsFiniteSet(Past(w))
  BY <1>2, <1>3, FS_Subset
<1> QED BY <1>3, <1>4, FS_CardinalityType

(* A record's bytes are a message's. *)
LEMMA NormaliseTyped ==
  ASSUME NEW l \in Seq(Lines!Bytes)
  PROVE  Lines!Normalise(l) \in Seq(Lines!Bytes)
<1>1. CASE l = <<>>
  BY <1>1 DEF Lines!Normalise
<1>2. CASE l # <<>>
  <2>1. Len(l) \in Nat /\ \A i \in 1..(Len(l) - 1) : l[i] \in Lines!Bytes
    OBVIOUS
  <2>2. SubSeq(l, 1, Len(l) - 1) \in Seq(Lines!Bytes)
    BY <2>1, SubSeqProperties
  <2> QED BY <2>2 DEF Lines!Normalise
<1> QED BY <1>1, <1>2

LEMMA LostGrown ==
  ASSUME NEW w \in Seq(Lines!Bytes), NEW b \in Lines!Bytes, NEW m, m = Len(w) + 1
  PROVE  Past(Append(w, b)) =
           IF b # "n" /\ Len(InProgress(w)) >= Cap THEN Past(w) \cup {m} ELSE Past(w)
<1> USE LinesAssumed
<1> DEFINE v == Append(w, b)
<1>1. /\ DOMAIN w = 1..Len(w) /\ DOMAIN v = 1..m /\ v[m] = b /\ Len(w) \in Nat
      /\ \A i \in 1..Len(w) : v[i] = w[i]
  OBVIOUS
<1>2. /\ \A i \in 1..m : Lines!Start(v, i) = Lines!Start(w, i)
      /\ Len(InProgress(w)) = m - Lines!Start(w, m)
  BY Grown
<1> HIDE DEF v
<1>3. \A i : i \in 1..m <=> i \in 1..Len(w) \/ i = m
  BY <1>1
<1>4. m \notin 1..Len(w) /\ m \in 1..m
  BY <1>1
<1>5. ASSUME NEW i \in 1..Len(w) PROVE i \in Past(v) <=> i \in Past(w)
  BY <1>1, <1>2, <1>3, <1>5 DEF Past
<1>6. m \in Past(v) <=> b # "n" /\ Len(InProgress(w)) >= Cap
  BY <1>1, <1>2, <1>4 DEF Past
<1>7. \A i : i \in Past(v) => i \in 1..Len(w) \/ i = m
  BY <1>1, <1>3 DEF Past
<1>8. \A i \in Past(w) : i \in 1..Len(w)
  BY <1>1 DEF Past
<1>9. CASE b # "n" /\ Len(InProgress(w)) >= Cap
  BY <1>5, <1>6, <1>7, <1>8, <1>9 DEF v
<1>10. CASE ~(b # "n" /\ Len(InProgress(w)) >= Cap)
  <2>1. m \notin Past(v)
    BY <1>6, <1>10
  <2>2. \A i \in 1..Len(w) : i \in Past(v) <=> i \in Past(w)
    BY <1>5
  <2>3. \A i : i \in Past(v) <=> i \in Past(w)
    BY <1>7, <1>8, <2>1, <2>2
  <2>4. Past(v) = Past(w)
    BY <2>3 DEF Past
  <2> QED BY <1>10, <2>4 DEF v
<1> QED BY <1>9, <1>10

(* A place's number among the ends is one of a line framed; a later end    *)
(* does not change it.                                                     *)
LEMMA PlaceOf ==
  ASSUME NEW n \in Nat, NEW S \in SUBSET (1..n), NEW i \in S
  PROVE  /\ Before(S, i) \in 1..Cardinality(S)
         /\ \A m : m = n + 1 => Before(S \cup {m}, i) = Before(S, i)
<1> DEFINE B == {j \in S : j <= i}
<1>1. IsFiniteSet(S) /\ B \in SUBSET S
  <2>1. IsFiniteSet(1..n)
    BY FS_Interval
  <2> QED BY <2>1, FS_Subset
<1>2. IsFiniteSet(B) /\ Cardinality(B) <= Cardinality(S)
  BY <1>1, FS_Subset
<1>3. Cardinality(B) \in Nat /\ Cardinality(S) \in Nat
  BY <1>1, <1>2, FS_CardinalityType
<1>4. Cardinality(B) # 0
  <2>1. i \in B
    OBVIOUS
  <2> QED BY <1>2, <2>1, FS_EmptySet
<1>5. ASSUME NEW m, m = n + 1 PROVE {j \in S \cup {m} : j <= i} = B
  BY <1>5
<1> HIDE DEF B
<1>6. Cardinality(B) \in 1..Cardinality(S)
  BY <1>2, <1>3, <1>4
<1> QED BY <1>5, <1>6 DEF Before, B

LEMMA SameTruth ==
  ASSUME NEW a \in BOOLEAN, NEW c \in BOOLEAN, a <=> c
  PROVE  a = c
OBVIOUS

(* The terminator: the line in progress becomes a record. *)
LEMMA FramedEnd ==
  ASSUME NEW w, NEW f, Framed(w, f)
  PROVE  Framed(Append(w, "n"), Lines!Emit(f))
<1> USE LinesAssumed
<1> DEFINE v == Append(w, "n")
           t == InProgress(w)
           S == Lines!Ends(w)
           r == [message |-> Lines!Normalise(f.partial), truncated |-> f.overflowed]
<1>1. /\ w \in Seq(Lines!Bytes) /\ f \in Lines!Framer /\ "n" \in Lines!Bytes
      /\ Len(f.out) = Cardinality(S)
      /\ \A i \in S : f.out[Before(S, i)] = Lines!Record(Lines!LineEnding(w, i))
      /\ f.partial = Lines!Whole(t) /\ (f.overflowed <=> Len(t) > Cap)
      /\ f.lost = Cardinality(Past(w))
  BY DEF Framed, Lines!Bytes
<1>2. /\ f.partial \in Seq(Lines!Bytes) /\ f.overflowed \in BOOLEAN
      /\ f.out \in Seq(Lines!GuestLogRecord) /\ f.lost \in Nat /\ Len(w) \in Nat
  BY <1>1 DEF Lines!Framer
<1>3. PICK m : m = Len(w) + 1
  OBVIOUS
<1>4. /\ v \in Seq(Lines!Bytes) /\ m \in Nat
      /\ \A i \in 1..m : Lines!LineEnding(v, i) = Lines!LineEnding(w, i)
      /\ Lines!Ends(v) = S \cup {m} /\ t \in Seq(Lines!Bytes) /\ InProgress(v) = <<>>
      /\ Past(v) = Past(w)
  BY <1>1, <1>2, <1>3, Grown, LostGrown
<1>5. t = Lines!LineEnding(w, m)
  BY <1>3 DEF InProgress
<1>6. S \in SUBSET (1..Len(w)) /\ m \notin S /\ IsFiniteSet(S) /\ Cardinality(S) \in Nat
  BY <1>1, <1>2, <1>3, FinitePlaces
<1>7. Cardinality(S \cup {m}) = Cardinality(S) + 1
  BY <1>6, FS_AddElement
<1>8. r = Lines!Record(t)
  <2>1. f.overflowed = (Len(t) > Cap)
    BY <1>1, <1>2, SameTruth
  <2> QED BY <1>1, <2>1, Zenon DEF Lines!Record
<1>9. Lines!Emit(f) = [f EXCEPT !.out = Append(f.out, r), !.partial = <<>>, !.overflowed = FALSE]
  BY DEF Lines!Emit
<1> DEFINE g == Lines!Emit(f)
<1>10. r \in Lines!GuestLogRecord
  BY <1>2, NormaliseTyped DEF Lines!GuestLogRecord
<1> HIDE DEF r
<1>11. /\ g \in Lines!Framer /\ g.out = Append(f.out, r) /\ g.partial = <<>>
       /\ g.overflowed = FALSE /\ g.lost = f.lost
  <2>1. g = [partial |-> <<>>, overflowed |-> FALSE, out |-> Append(f.out, r), lost |-> f.lost]
    BY <1>1, <1>9 DEF Lines!Framer
  <2>2. Append(f.out, r) \in Seq(Lines!GuestLogRecord) /\ <<>> \in Seq(Lines!Bytes)
    BY <1>2, <1>10
  <2> HIDE DEF g
  <2> QED BY <1>2, <2>1, <2>2 DEF Lines!Framer
<1>12. Len(g.out) = Len(f.out) + 1
  BY <1>2, <1>10, <1>11
<1> HIDE DEF g, v, S, t
<1>13. Len(g.out) = Cardinality(Lines!Ends(v))
  BY <1>1, <1>4, <1>7, <1>12
<1>14. ASSUME NEW i \in Lines!Ends(v)
       PROVE  g.out[Before(Lines!Ends(v), i)] = Lines!Record(Lines!LineEnding(v, i))
  <2>1. CASE i \in S
    <3>1. Before(S, i) \in 1..Len(f.out) /\ Before(Lines!Ends(v), i) = Before(S, i)
      <4>1. Before(S, i) \in 1..Cardinality(S) /\ Before(S \cup {m}, i) = Before(S, i)
        BY <1>2, <1>3, <1>6, <2>1, PlaceOf
      <4> QED BY <1>1, <1>4, <4>1
    <3>2. g.out[Before(S, i)] = f.out[Before(S, i)]
      BY <1>2, <1>10, <1>11, <3>1
    <3>3. i \in 1..m
      BY <1>2, <1>3, <1>6, <2>1
    <3> QED BY <1>1, <1>4, <2>1, <3>1, <3>2, <3>3
  <2>2. CASE i = m
    <3>1. {j \in Lines!Ends(v) : j <= i} = Lines!Ends(v)
      <4>1. \A j \in S \cup {m} : j <= m
        BY <1>2, <1>3, <1>6
      <4> QED BY <1>4, <2>2, <4>1
    <3>2. Before(Lines!Ends(v), i) = Len(f.out) + 1
      BY <1>1, <1>4, <1>7, <3>1 DEF Before
    <3>3. g.out[Len(f.out) + 1] = r
      BY <1>2, <1>10, <1>11
    <3>4. Lines!LineEnding(v, i) = t
      BY <1>2, <1>3, <1>4, <1>5, <2>2
    <3> QED BY <1>8, <3>2, <3>3, <3>4
  <2> QED BY <1>4, <2>1, <2>2
<1>15. g.partial = Lines!Whole(InProgress(v)) /\ (g.overflowed <=> Len(InProgress(v)) > Cap)
  <2>1. <<>> \in Seq(Lines!Bytes) /\ Len(<<>>) = 0
    OBVIOUS
  <2>2. Lines!Whole(<<>>) = <<>>
    <3>1. \A l \in Seq(Lines!Bytes) : Len(l) <= Cap => Lines!Whole(l) = l
      BY <1>1, WholeGrows
    <3>2. Len(<<>>) <= Cap
      OBVIOUS
    <3> QED BY <2>1, <3>1, <3>2
  <2> QED BY <1>4, <1>11, <2>1, <2>2
<1>16. Framed(v, g)
  BY <1>1, <1>4, <1>11, <1>13, <1>14, <1>15 DEF Framed
<1> QED BY <1>16 DEF v, g

(* Any other byte: the line in progress grows by it. *)
LEMMA FramedMore ==
  ASSUME NEW w, NEW f, Framed(w, f), NEW b \in Lines!Bytes, b # "n"
  PROVE  Framed(Append(w, b), Lines!Extend(f, b))
<1> USE LinesAssumed
<1> DEFINE v == Append(w, b)
           t == InProgress(w)
           S == Lines!Ends(w)
           g == Lines!Extend(f, b)
<1>1. /\ w \in Seq(Lines!Bytes) /\ f \in Lines!Framer
      /\ Len(f.out) = Cardinality(S)
      /\ \A i \in S : f.out[Before(S, i)] = Lines!Record(Lines!LineEnding(w, i))
      /\ f.partial = Lines!Whole(t) /\ (f.overflowed <=> Len(t) > Cap)
      /\ f.lost = Cardinality(Past(w))
  BY DEF Framed
<1>2. /\ f.partial \in Seq(Lines!Bytes) /\ f.overflowed \in BOOLEAN
      /\ f.out \in Seq(Lines!GuestLogRecord) /\ f.lost \in Nat /\ Len(w) \in Nat
  BY <1>1 DEF Lines!Framer
<1>3. PICK m : m = Len(w) + 1
  OBVIOUS
<1>4. /\ v \in Seq(Lines!Bytes) /\ m \in Nat
      /\ \A i \in 1..m : Lines!LineEnding(v, i) = Lines!LineEnding(w, i)
      /\ Lines!Ends(v) = S /\ t \in Seq(Lines!Bytes) /\ InProgress(v) = Append(t, b)
  BY <1>1, <1>2, <1>3, Grown
<1>5. /\ S \in SUBSET (1..m)
      /\ Past(w) \in SUBSET (1..Len(w)) /\ IsFiniteSet(Past(w)) /\ m \notin Past(w)
      /\ Cardinality(Past(w)) \in Nat
  BY <1>1, <1>2, <1>3, FinitePlaces
<1>6. Past(v) = IF Len(t) >= Cap THEN Past(w) \cup {m} ELSE Past(w)
  BY <1>1, <1>3, LostGrown
<1>7. Len(t) \in Nat /\ Append(t, b) \in Seq(Lines!Bytes) /\ Len(Append(t, b)) = Len(t) + 1
  BY <1>4
<1>8. /\ g \in Lines!Framer /\ g.out = f.out /\ g.partial = Lines!Whole(Append(t, b))
      /\ (g.overflowed <=> Len(Append(t, b)) > Cap) /\ g.lost = Cardinality(Past(v))
  <2>1. CASE Len(t) < Cap
    <3>1. Lines!Whole(t) = t /\ Lines!Whole(Append(t, b)) = Append(t, b)
      <4>1. Len(t) <= Cap /\ Len(Append(t, b)) <= Cap
        BY <1>7, <2>1
      <4>2. \A l \in Seq(Lines!Bytes) : Len(l) <= Cap => Lines!Whole(l) = l
        BY WholeGrows
      <4> QED BY <1>4, <1>7, <4>1, <4>2
    <3>2. g = [f EXCEPT !.partial = Append(t, b)]
      BY <1>1, <2>1, <3>1 DEF Lines!Extend
    <3>3. /\ g \in Lines!Framer /\ g.out = f.out /\ g.partial = Append(t, b)
          /\ g.overflowed = f.overflowed /\ g.lost = f.lost
      BY <1>1, <1>7, <3>2 DEF Lines!Framer
    <3> QED BY <1>1, <1>6, <1>7, <2>1, <3>1, <3>3
  <2>2. CASE Len(t) >= Cap
    <3>1. Len(Lines!Whole(t)) = Cap /\ Lines!Whole(Append(t, b)) = Lines!Whole(t)
      BY <1>4, <1>7, <2>2, WholeGrows
    <3>2. g = [f EXCEPT !.overflowed = TRUE, !.lost = f.lost + 1]
      BY <1>1, <2>2, <3>1 DEF Lines!Extend
    <3>3. /\ g \in Lines!Framer /\ g.out = f.out /\ g.partial = f.partial
          /\ g.overflowed = TRUE /\ g.lost = f.lost + 1
      <4>1. g = [partial |-> f.partial, overflowed |-> TRUE, out |-> f.out, lost |-> f.lost + 1]
        BY <1>1, <3>2 DEF Lines!Framer
      <4> HIDE DEF g
      <4> QED BY <1>2, <4>1 DEF Lines!Framer
    <3>4. Cardinality(Past(v)) = Cardinality(Past(w)) + 1
      BY <1>5, <1>6, <2>2, FS_AddElement
    <3>5. Len(Append(t, b)) > Cap
      BY <1>7, <2>2
    <3> QED BY <1>1, <3>1, <3>3, <3>4, <3>5
  <2> QED BY <1>7, <2>1, <2>2
<1> HIDE DEF g, v, S, t
<1>9. ASSUME NEW i \in S
      PROVE  g.out[Before(S, i)] = Lines!Record(Lines!LineEnding(v, i))
  BY <1>1, <1>4, <1>5, <1>8
<1>10. Framed(v, g)
  BY <1>1, <1>4, <1>8, <1>9 DEF Framed
<1> QED BY <1>10 DEF v, g

LEMMA FramedByte ==
  ASSUME NEW w, NEW f, Framed(w, f), NEW b \in Lines!Bytes
  PROVE  Framed(Append(w, b), Lines!Absorb(f, b))
BY FramedEnd, FramedMore DEF Lines!Absorb

(* The framer after each byte of a write: push takes them one at a time. *)
IsRun(f, bytes, k, g) ==
  g = [n \in 0..k |-> IF n = 0 THEN f ELSE Lines!Absorb(g[n - 1], bytes[n])]

LEMMA RunExists ==
  ASSUME NEW f, NEW bytes, NEW k \in Nat
  PROVE  \E g : IsRun(f, bytes, k, g)
<1> DEFINE S == {j \in Nat : ~\E g : IsRun(f, bytes, j, g)}
<1> SUFFICES ASSUME S # {} PROVE FALSE
  OBVIOUS
<1>1. PICK j \in S : \A y \in S : j <= y
  BY LeastNatural
<1>2. j \in Nat /\ ~\E g : IsRun(f, bytes, j, g)
  OBVIOUS
<1>3. CASE j = 0
  <2> DEFINE h == [n \in 0..0 |-> f]
  <2>1. \A n \in 0..0 : n = 0
    OBVIOUS
  <2>2. h = [n \in 0..0 |-> IF n = 0 THEN f ELSE Lines!Absorb(h[n - 1], bytes[n])]
    BY <2>1
  <2> QED BY <1>2, <1>3, <2>2 DEF IsRun
<1>4. CASE j # 0
  <2>1. PICK i \in Nat : j = i + 1
    <3>1. j - 1 \in Nat /\ j = (j - 1) + 1
      BY <1>2, <1>4
    <3> QED BY <3>1
  <2>2. i \notin S
    BY <1>1, <2>1
  <2>3. PICK g : IsRun(f, bytes, i, g)
    BY <2>2
  <2> DEFINE h == [n \in 0..j |-> IF n = j THEN Lines!Absorb(g[i], bytes[j]) ELSE g[n]]
  <2>4. ASSUME NEW n \in 0..j PROVE h[n] = IF n = 0 THEN f ELSE Lines!Absorb(h[n - 1], bytes[n])
    <3>1. CASE n = j
      <4>1. n # 0 /\ n - 1 = i /\ i \in 0..j /\ i # j
        BY <1>4, <2>1, <3>1
      <4>2. h[n] = Lines!Absorb(g[i], bytes[j]) /\ h[i] = g[i]
        BY <3>1, <4>1
      <4> QED BY <3>1, <4>1, <4>2
    <3>2. CASE n # j
      <4>1. n \in 0..i /\ h[n] = g[n]
        BY <2>1, <3>2
      <4>2. g[n] = IF n = 0 THEN f ELSE Lines!Absorb(g[n - 1], bytes[n])
        BY <2>3, <4>1 DEF IsRun
      <4>3. n # 0 => n - 1 \in 0..j /\ n - 1 # j
        BY <2>1, <4>1
      <4>4. n # 0 => h[n - 1] = g[n - 1]
        BY <4>3
      <4> QED BY <4>1, <4>2, <4>4
    <3> QED BY <3>1, <3>2
  <2>5. h = [n \in 0..j |-> h[n]]
    OBVIOUS
  <2> HIDE DEF h
  <2>6. IsRun(f, bytes, j, h)
    BY <2>4, <2>5 DEF IsRun
  <2> QED BY <1>2, <2>6
<1> QED BY <1>3, <1>4

(* So a write, of however many bytes, keeps a framer what its bytes make it. *)
LEMMA FramedWrite ==
  ASSUME NEW w, NEW f, Framed(w, f), NEW bytes \in Seq(Lines!Bytes)
  PROVE  Framed(w \o bytes, Lines!Push(f, bytes))
<1> DEFINE k == Len(bytes)
           Run == CHOOSE g : IsRun(f, bytes, k, g)
<1>1. k \in Nat /\ w \in Seq(Lines!Bytes)
  BY DEF Framed
<1>2. IsRun(f, bytes, k, Run)
  BY <1>1, RunExists
<1>3. Lines!Push(f, bytes) = Run[k]
  BY DEF Lines!Push, IsRun
<1> HIDE DEF Run
<1>4. /\ Run[0] = f
      /\ \A n \in 1..k : Run[n] = Lines!Absorb(Run[n - 1], bytes[n])
  BY <1>1, <1>2 DEF IsRun
<1> DEFINE Cut(n) == w \o SubSeq(bytes, 1, n)
           S == {n \in 0..k : ~Framed(Cut(n), Run[n])}
<1>5. S = {}
  <2> SUFFICES ASSUME S # {} PROVE FALSE
    OBVIOUS
  <2>1. PICK j \in S : \A y \in S : j <= y
    <3>1. S \in SUBSET Nat
      BY <1>1
    <3> QED BY <3>1, LeastNatural
  <2>2. j \in 0..k /\ ~Framed(Cut(j), Run[j])
    OBVIOUS
  <2>3. CASE j = 0
    <3>1. SubSeq(bytes, 1, 0) = <<>>
      BY SubSeqEmpty
    <3>2. Cut(0) = w
      BY <1>1, <3>1
    <3> QED BY <1>4, <2>2, <2>3, <3>2
  <2>4. CASE j # 0
    <3>1. PICK i \in 0..k : j = i + 1 /\ i = j - 1
      <4>1. j - 1 \in 0..k /\ j = (j - 1) + 1
        BY <1>1, <2>2, <2>4
      <4> QED BY <4>1
    <3>2. Framed(Cut(i), Run[i])
      <4>1. i \notin S
        BY <2>1, <3>1
      <4> QED BY <4>1
    <3>3. bytes[j] \in Lines!Bytes /\ j \in 1..k
      BY <1>1, <2>2, <2>4
    <3>4. Run[j] = Lines!Absorb(Run[i], bytes[j])
      BY <1>4, <3>1, <3>3
    <3>5. Cut(j) = Append(Cut(i), bytes[j])
      <4>1. \A n \in 1..i : bytes[n] \in Lines!Bytes
        BY <1>1, <3>1
      <4>2. SubSeq(bytes, 1, i) \in Seq(Lines!Bytes)
        BY <3>1, <4>1, SubSeqProperties
      <4>3. SubSeq(bytes, 1, j) = Append(SubSeq(bytes, 1, i), bytes[j])
        <5>1. SubSeq(bytes, 1, j) = SubSeq(bytes, 1, j - 1) \o <<bytes[j]>>
          BY <1>1, <3>3, SubSeqRecursiveSecond
        <5> QED BY <3>1, <3>3, <4>2, <5>1, AppendIsConcat
      <4> HIDE DEF k
      <4>4. \A x \in Lines!Bytes, l \in Seq(Lines!Bytes) :
               w \o Append(l, x) = Append(w \o l, x)
        BY <1>1
      <4> QED BY <3>3, <4>2, <4>3, <4>4
    <3>6. Framed(Cut(j), Run[j])
      BY <3>2, <3>3, <3>4, <3>5, FramedByte
    <3> QED BY <2>2, <3>6
  <2> QED BY <2>3, <2>4
<1>6. Framed(Cut(k), Run[k])
  BY <1>1, <1>5
<1>7. Cut(k) = w \o bytes
  BY SubSeqFull
<1> QED BY <1>3, <1>6, <1>7

(* An object that is gone: its last line is a record too, if there was one. *)
Over(w) == Lines!Ends(w) \cup {i \in {Len(w) + 1} : Lines!LineEnding(w, i) # <<>>}

Done(w, f) ==
  /\ w \in Seq(Lines!Bytes) /\ f \in Lines!Framer
  /\ Len(f.out) = Cardinality(Over(w))
  /\ \A i \in Over(w) : f.out[Before(Over(w), i)] = Lines!Record(Lines!LineEnding(w, i))
  /\ Len(f.partial) <= Cap
  /\ f.lost = Cardinality(Past(w))

LEMMA FramedLast ==
  ASSUME NEW w, NEW f, Framed(w, f)
  PROVE  Done(w, Lines!Finish(f))
<1> USE LinesAssumed
<1> DEFINE t == InProgress(w)
           v == Append(w, "n")
           g == Lines!Emit(f)
<1>1. /\ w \in Seq(Lines!Bytes) /\ f \in Lines!Framer /\ "n" \in Lines!Bytes
      /\ f.partial = Lines!Whole(t) /\ (f.overflowed <=> Len(t) > Cap)
      /\ f.lost = Cardinality(Past(w))
  BY DEF Framed, Lines!Bytes
<1>2. PICK m : m = Len(w) + 1
  OBVIOUS
<1>3. /\ t \in Seq(Lines!Bytes) /\ Len(t) \in Nat
      /\ \A i \in 1..m : Lines!LineEnding(v, i) = Lines!LineEnding(w, i)
      /\ Lines!Ends(v) = Lines!Ends(w) \cup {m}
      /\ Past(v) = Past(w)
  BY <1>1, <1>2, Grown, LostGrown
<1>4. t = Lines!LineEnding(w, m)
  BY <1>2 DEF InProgress
<1>5. Over(w) = IF t = <<>> THEN Lines!Ends(w) ELSE Lines!Ends(v)
  BY <1>2, <1>3, <1>4 DEF Over
<1>6. /\ Lines!Whole(t) \in Seq(Lines!Bytes) /\ Len(Lines!Whole(t)) <= Cap
      /\ Len(t) <= Cap => Lines!Whole(t) = t
  BY <1>1, <1>3, WholeGrows
<1>7. CASE t = <<>>
  <2>1. Len(t) = 0 /\ Lines!Whole(t) = <<>>
    BY <1>6, <1>7
  <2>2. Lines!Finish(f) = f
    BY <1>1, <2>1 DEF Lines!Finish
  <2>3. Over(w) = Lines!Ends(w)
    BY <1>5, <1>7
  <2> HIDE DEF t, v, g
  <2> QED BY <1>1, <1>6, <2>2, <2>3 DEF Framed, Done
<1>8. CASE t # <<>>
  <2>1. f.partial # <<>> \/ f.overflowed
    BY <1>1, <1>3, <1>6, <1>8
  <2>2. Lines!Finish(f) = g
    BY <2>1 DEF Lines!Finish
  <2>3. Over(w) = Lines!Ends(v)
    BY <1>5, <1>8
  <2>4. Framed(v, g)
    BY FramedEnd
  <2>5. g.partial = <<>> /\ Len(g.partial) <= Cap
    <3>1. g.partial = <<>>
      BY <1>1 DEF Lines!Emit, Lines!Framer
    <3>2. Len(<<>>) = 0
      OBVIOUS
    <3> QED BY <3>1, <3>2
  <2>6. \A i \in Lines!Ends(v) : i \in 1..m
    BY <1>1, <1>2, <1>3, FinitePlaces
  <2> HIDE DEF t, v, g
  <2> QED BY <1>1, <1>3, <2>2, <2>3, <2>4, <2>5, <2>6 DEF Framed, Done
<1> QED BY <1>7, <1>8

LEMMA FramedNothing == Framed(<<>>, Lines!Fresh)
<1> USE LinesAssumed
<1>1. <<>> \in Seq(Lines!Bytes) /\ Len(<<>>) = 0 /\ DOMAIN <<>> = {}
  OBVIOUS
<1>2. Lines!Ends(<<>>) = {} /\ Past(<<>>) = {}
  BY <1>1 DEF Lines!Ends, Past
<1>3. "n" \in Lines!Bytes
  BY DEF Lines!Bytes
<1>4. InProgress(<<>>) \in Seq(Lines!Bytes) /\ Len(InProgress(<<>>)) = 0
  <2>1. PICK i : i = Len(<<>>) + 1
    OBVIOUS
  <2>2. InProgress(<<>>) \in Seq(Lines!Bytes) /\ Len(InProgress(<<>>)) = i - Lines!Start(<<>>, i)
    BY <1>1, <1>3, <2>1, Grown
  <2>3. Lines!Start(<<>>, i) \in 1..i
    <3>1. i \in Nat \ {0}
      BY <1>1, <2>1
    <3> QED BY <3>1, StartBegins DEF Begins
  <2> QED BY <1>1, <2>1, <2>2, <2>3
<1>5. InProgress(<<>>) = <<>>
  BY <1>4
<1>6. Lines!Whole(<<>>) = <<>>
  <2>1. \A l \in Seq(Lines!Bytes) : Len(l) <= Cap => Lines!Whole(l) = l
    BY <1>3, WholeGrows
  <2>2. Len(<<>>) <= Cap
    OBVIOUS
  <2> QED BY <1>1, <2>1, <2>2
<1>7. /\ Lines!Fresh \in Lines!Framer /\ Lines!Fresh.out = <<>> /\ Lines!Fresh.partial = <<>>
      /\ Lines!Fresh.overflowed = FALSE /\ Lines!Fresh.lost = 0
  BY DEF Lines!Fresh, Lines!Framer
<1>8. Cardinality({}) = 0
  BY FS_EmptySet
<1>9. Lines!Fresh.partial = Lines!Whole(InProgress(<<>>))
  BY <1>5, <1>6, <1>7
<1>10. Lines!Fresh.overflowed <=> Len(InProgress(<<>>)) > Cap
  BY <1>4, <1>7
<1>11. /\ Len(Lines!Fresh.out) = Cardinality(Lines!Ends(<<>>))
       /\ Lines!Fresh.lost = Cardinality(Past(<<>>))
  BY <1>1, <1>2, <1>7, <1>8
<1> QED BY <1>1, <1>2, <1>7, <1>9, <1>10, <1>11, Zenon DEF Framed

LinesInv ==
  /\ l_closed \in SUBSET Objects
  /\ l_framer \in [Objects -> Lines!Framer] /\ l_wrote \in [Objects -> Seq(Lines!Bytes)]
  /\ \A o \in Objects :
        IF o \in l_closed THEN Done(l_wrote[o], l_framer[o]) ELSE Framed(l_wrote[o], l_framer[o])

LEMMA LinesInitially == Lines!Init => LinesInv
<1> SUFFICES ASSUME Lines!Init PROVE LinesInv
  OBVIOUS
<1>1. Lines!Fresh \in Lines!Framer /\ <<>> \in Seq(Lines!Bytes)
  BY FramedNothing DEF Framed
<1> QED BY <1>1, FramedNothing DEF Lines!Init, LinesInv

LEMMA LinesInductive == LinesInv /\ [Lines!Next]_(Lines!vars) => LinesInv'
<1> SUFFICES ASSUME LinesInv, [Lines!Next]_(Lines!vars) PROVE LinesInv'
  OBVIOUS
<1>1. ASSUME NEW o \in Objects, Lines!Drop(o) PROVE LinesInv'
  <2>1. Framed(l_wrote[o], l_framer[o])
    BY <1>1 DEF LinesInv, Lines!Drop
  <2>2. Done(l_wrote[o], Lines!Finish(l_framer[o]))
    BY <2>1, FramedLast
  <2>3. Lines!Finish(l_framer[o]) \in Lines!Framer
    BY <2>2 DEF Done
  <2> QED BY <1>1, <2>2, <2>3 DEF LinesInv, Lines!Drop
<1>2. ASSUME NEW o \in Objects, NEW bytes \in Lines!Chunks, Lines!Write(o, bytes)
      PROVE  LinesInv'
  <2>1. bytes \in Seq(Lines!Bytes)
    BY <1>2, LinesAssumed DEF Lines!Chunks
  <2>2. Framed(l_wrote[o], l_framer[o])
    BY <1>2 DEF LinesInv, Lines!Write
  <2>3. Framed(l_wrote[o] \o bytes, Lines!Push(l_framer[o], bytes))
    BY <2>1, <2>2, FramedWrite
  <2>4. /\ Lines!Push(l_framer[o], bytes) \in Lines!Framer
        /\ l_wrote[o] \o bytes \in Seq(Lines!Bytes)
    BY <2>3 DEF Framed
  <2> QED BY <1>2, <2>3, <2>4 DEF LinesInv, Lines!Write
<1>3. CASE UNCHANGED Lines!vars
  BY <1>3 DEF LinesInv, Lines!vars
<1> QED BY <1>1, <1>2, <1>3 DEF Lines!Next

LEMMA LinesAreFramed == LinesInv => Lines!FramingHolds
<1> SUFFICES ASSUME LinesInv, NEW o \in Objects
             PROVE  /\ Len(l_framer[o].out) = Cardinality(Lines!LineEnds(o))
                    /\ \A i \in Lines!LineEnds(o) :
                          l_framer[o].out[Cardinality({j \in Lines!LineEnds(o) : j <= i})]
                            = Lines!Record(Lines!LineEnding(l_wrote[o], i))
                    /\ Len(l_framer[o].partial) <= Cap
                    /\ l_framer[o].lost = Cardinality({i \in DOMAIN l_wrote[o] :
                          l_wrote[o][i] # "n" /\ i - Lines!Start(l_wrote[o], i) >= Cap})
  BY LinesCount DEF Lines!FramingHolds, Lines!FramedAsWritten, Lines!LossCounted
<1> DEFINE w == l_wrote[o]
           f == l_framer[o]
<1>1. Lines!LineEnds(o) = IF o \in l_closed THEN Over(w) ELSE Lines!Ends(w)
  BY DEF Lines!LineEnds, Over
<1>2. CASE o \in l_closed
  <2>1. Done(w, f)
    BY <1>2 DEF LinesInv
  <2> QED BY <1>1, <1>2, <2>1 DEF Done, Before, Past
<1>3. CASE o \notin l_closed
  <2>1. Framed(w, f)
    BY <1>3 DEF LinesInv
  <2>2. Len(f.partial) <= Cap
    <3>1. "n" \in Lines!Bytes
      BY DEF Lines!Bytes
    <3>2. InProgress(w) \in Seq(Lines!Bytes)
      BY <2>1, <3>1, Grown DEF Framed
    <3> QED BY <2>1, <3>1, <3>2, WholeGrows DEF Framed
  <2> QED BY <1>1, <1>3, <2>1, <2>2 DEF Framed, Before, Past
<1> QED BY <1>2, <1>3

(* Whatever the cap, and however a guest cuts its output into writes of    *)
(* whatever length and spreads it over its stream objects: every object    *)
(* has framed exactly the lines written through it, in order, each cut at  *)
(* the cap and marked if it was longer, with the unfinished one when the   *)
(* object goes; and every byte that is in no record was counted as lost    *)
(* (LineFramer::push, extend, emit, finish).                               *)
THEOREM LinesAreWhole ==
  /\ Lines!Spec => []Lines!FramingHolds
  /\ SumSpec => []FramingHolds
<1>1. Lines!Spec => []Lines!FramingHolds
  BY LinesAreFramed, LinesInitially, LinesInductive, PTL DEF Lines!Spec
<1> DEFINE Part == part = "lines" => LinesInv
<1>2. SumInit => Part
  BY LinesInitially DEF SumInit
<1>3. Part /\ [SumNext]_Sum => Part'
  <2> SUFFICES ASSUME LinesInv, part = "lines", part' = "lines", [SumNext]_Sum
               PROVE  LinesInv'
    BY DEF SumNext, Sum
  <2> QED BY LinesInductive DEF SumNext, Sum, l_vars, Lines!vars
<1>4. Part => FramingHolds
  BY LinesAreFramed DEF FramingHolds
<1>5. SumSpec => []FramingHolds
  BY <1>2, <1>3, <1>4, PTL DEF SumSpec
<1> QED BY <1>1, <1>5

=============================================================================
