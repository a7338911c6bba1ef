---------------------------- MODULE TenantPool ----------------------------
(***************************************************************************)
(* The pool of per-tenant locks, runtime/src/serve/pool.rs, with the way   *)
(* its callers in serve/http.rs hold and let go of a slot.  Nothing but    *)
(* this pool keeps two calls of one tenant apart, and it forgets slots     *)
(* nobody has checked out; a tenant it forgot gets a new lock.             *)
(*                                                                         *)
(* in_flight is the set of calls that have a slot checked out.  Time is    *)
(* left out: any slot nobody has checked out may have been idle for long   *)
(* enough to be dropped, and any may be the least recently used.           *)
(***************************************************************************)
EXTENDS Naturals, FiniteSets

CONSTANTS
  Tenants,
  Calls,       \* requests, messages and task runs
  Slots,       \* the slots ever made (a bound)
  MaxTenants,  \* limits.max_tenants
  NoSlot, Free \* no slot; no holder

(* The cap lets a tenant in, the marks are not what they stand in for,     *)
(* and no more is in flight than can be counted.                           *)
TenantPoolAssumption ==
  /\ MaxTenants \in Nat \ {0}
  /\ NoSlot \notin Slots /\ Free \notin Calls
  /\ IsFiniteSet(Tenants) /\ IsFiniteSet(Calls)

VARIABLES
  slots,  \* TenantPool::slots
  made,   \* slots made so far
  holder, \* the holder of each slot's lock
  call    \* where each call is, its tenant and its slot

vars == <<slots, made, holder, call>>

CheckedOut == {"queued", "working", "unlocked"}
Locked     == {"working", "unmarked"}
Idle       == [pc |-> "idle"]

in_flight(s) == {c \in Calls : call[c].pc \in CheckedOut /\ call[c].slot = s}

Kept == {t \in Tenants : slots[t] # NoSlot}

(* Mutant: the sweep looks at who holds the lock, not at who waits for it. *)
BusyLocked == {t \in Kept : holder[slots[t]] # Free}
Busy == {t \in Kept : in_flight(slots[t]) # {}}

(* Mutant: room is made after the new slot is in. *)
EvictedLate(keep) == keep \subseteq Kept /\ Busy \subseteq keep

(* evict_while_full leaves some of the tenants nobody is busy with, and    *)
(* either room for one more or nothing but busy ones.                      *)
Evicted(keep) ==
  /\ keep \subseteq Kept /\ Busy \subseteq keep
  /\ Cardinality(keep) < MaxTenants \/ keep = Busy

Queue(c, t, s, kind) ==
  call' = [call EXCEPT ![c] = [pc |-> "queued", tenant |-> t, slot |-> s, kind |-> kind]]

(* checkout, of a slot the pool has. *)
CheckoutKept(c, t, kind) ==
  /\ call[c].pc = "idle" /\ slots[t] # NoSlot
  /\ Queue(c, t, slots[t], kind)
  /\ UNCHANGED <<slots, made, holder>>

(* checkout, of a new one: room first. *)
CheckoutNew(c, t, s, kind) ==
  /\ call[c].pc = "idle" /\ slots[t] = NoSlot /\ s \in Slots \ made
  /\ \E keep \in SUBSET Tenants :
       /\ Evicted(keep)
       /\ slots' = [u \in Tenants |->
                      IF u = t THEN s ELSE IF u \in keep THEN slots[u] ELSE NoSlot]
  /\ made' = made \cup {s}
  /\ Queue(c, t, s, kind)
  /\ UNCHANGED holder

(* lock_owned, or a try_lock that succeeds. *)
Lock(c) ==
  /\ call[c].pc = "queued" /\ holder[call[c].slot] = Free
  /\ holder' = [holder EXCEPT ![call[c].slot] = c]
  /\ call' = [call EXCEPT ![c].pc = "working"]
  /\ UNCHANGED <<slots, made>>

(* A try_lock that fails, or a call dropped while it waits. *)
GiveUp(c) ==
  /\ call[c].pc = "queued"
  /\ call' = [call EXCEPT ![c] = Idle]
  /\ UNCHANGED <<slots, made, holder>>

(* A request's task drops its checkout, then its guard: locals go in the   *)
(* reverse of their order.                                                 *)
DropCheckoutFirst(c) ==
  /\ call[c].pc = "working" /\ call[c].kind = "request"
  /\ call' = [call EXCEPT ![c].pc = "unmarked"]
  /\ UNCHANGED <<slots, made, holder>>

(* A message or a task drops its guard, then its checkout. *)
DropGuardFirst(c) ==
  /\ call[c].pc = "working" /\ call[c].kind = "other"
  /\ holder' = [holder EXCEPT ![call[c].slot] = Free]
  /\ call' = [call EXCEPT ![c].pc = "unlocked"]
  /\ UNCHANGED <<slots, made>>

DropRest(c) ==
  /\ call[c].pc \in {"unmarked", "unlocked"}
  /\ holder' = IF call[c].pc = "unmarked"
               THEN [holder EXCEPT ![call[c].slot] = Free] ELSE holder
  /\ call' = [call EXCEPT ![c] = Idle]
  /\ UNCHANGED <<slots, made>>

Init ==
  /\ slots = [t \in Tenants |-> NoSlot]
  /\ made = {}
  /\ holder = [s \in Slots |-> Free]
  /\ call = [c \in Calls |-> Idle]

Kinds == {"request", "other"}

Next ==
  \E c \in Calls :
    \/ \E t \in Tenants, kind \in Kinds :
         CheckoutKept(c, t, kind) \/ \E s \in Slots : CheckoutNew(c, t, s, kind)
    \/ Lock(c) \/ GiveUp(c)
    \/ DropCheckoutFirst(c) \/ DropGuardFirst(c) \/ DropRest(c)

Spec == Init /\ [][Next]_vars

-----------------------------------------------------------------------------
(* Every variable keeps its type. *)
Records == [pc : CheckedOut \cup {"unmarked"}, tenant : Tenants, slot : Slots, kind : Kinds]
TypeOK ==
  /\ slots \in [Tenants -> Slots \cup {NoSlot}]
  /\ made \subseteq Slots
  /\ holder \in [Slots -> Calls \cup {Free}]
  /\ call \in [Calls -> Records \cup {Idle}]

(* A tenant's calls run one at a time, although its slot may be dropped    *)
(* and made again between them, and a request's is open to eviction while  *)
(* its lock is still held.                                                 *)
OneAtATime ==
  \A c, d \in Calls :
    call[c].pc = "working" /\ call[d].pc = "working" /\ call[c].tenant = call[d].tenant
      => c = d

(* The pool grows past its cap only with calls that are in it at once.     *)
PoolBounded ==
  Cardinality(Kept) <= MaxTenants \/ Cardinality(Kept) <= Cardinality(Calls)

(* Why calls are kept apart: a call that has a slot checked out has the    *)
(* slot the pool still knows for its tenant, and whoever got past a lock   *)
(* is its holder.                                                          *)
CheckedOutIsKept ==
  /\ \A c \in Calls : call[c].pc \in CheckedOut => slots[call[c].tenant] = call[c].slot
  /\ \A c \in Calls : call[c].pc \in Locked => holder[call[c].slot] = c

(* A slot that is checked out is the pool's own for its tenant, and the    *)
(* pool grows past its cap only by slots in use (checkout,                 *)
(* evict_while_full).                                                      *)
SlotsHold ==
  /\ TypeOK
  /\ CheckedOutIsKept
  /\ PoolBounded

=============================================================================
