----------------------------- MODULE MCServing ------------------------------
(***************************************************************************)
(* A tenant's call on its way in: the slots of the tenant pool, the        *)
(* passkey gate before it, the watchdog over the guest, the framing of     *)
(* what the guest writes. A behaviour is one of part; the others stay as   *)
(* they started. What a client, a handler or an id is called makes no      *)
(* difference to authentication; parts never meet, so tenants, calls and   *)
(* slots are named by the same values and permuted with them.              *)
(***************************************************************************)
EXTENDS Auth, TLC

CONSTANTS Tenants, Calls, Slots, MaxTenants, NoSlot, Free        \* TenantPool
CONSTANTS HeadTimeout, MaxInteraction, SilentTicks, Channel      \* Watchdog
CONSTANTS Objects, Cap, MaxChunk, MaxBytes                       \* LineFramer

VARIABLE part       \* "pool", "auth", "watchdog" or "lines"
VARIABLES p_slots, p_made, p_holder, p_call
p_vars == <<p_slots, p_made, p_holder, p_call>>
VARIABLES w_now, w_guest, w_deadline, w_head, w_aborted, w_buffered, w_moved,
          w_strikes, w_quiet, w_spun
w_vars == <<w_now, w_guest, w_deadline, w_head, w_aborted, w_buffered,
            w_moved, w_strikes, w_quiet, w_spun>>
VARIABLES l_framer, l_wrote, l_closed
l_vars == <<l_framer, l_wrote, l_closed>>

Interchangeable ==
  Permutations(Keys) \cup Permutations(Scopes) \cup Permutations(Handlers) \cup Permutations(Ids)

Pool == INSTANCE TenantPool WITH
  Tenants <- Tenants, Calls <- Calls, Slots <- Slots,
  MaxTenants <- MaxTenants, NoSlot <- NoSlot, Free <- Free,
  slots <- p_slots, made <- p_made, holder <- p_holder, call <- p_call
Guard == INSTANCE Watchdog WITH
  HeadTimeout <- HeadTimeout, MaxInteraction <- MaxInteraction,
  SilentTicks <- SilentTicks, Channel <- Channel, None <- None,
  now <- w_now, guest <- w_guest, deadline <- w_deadline,
  head <- w_head, aborted <- w_aborted, buffered <- w_buffered,
  moved <- w_moved, strikes <- w_strikes, quiet <- w_quiet, spun <- w_spun
Lines == INSTANCE LineFramer WITH
  Objects <- Objects, Cap <- Cap, MaxChunk <- MaxChunk, MaxBytes <- MaxBytes,
  framer <- l_framer, wrote <- l_wrote, closed <- l_closed

(* What the proofs ask of these constants. *)
ASSUME ServingAssumption ==
  Pool!TenantPoolAssumption /\ Guard!WatchdogAssumption /\ Lines!LinesAssumption

Sum == <<part, vars, p_vars, w_vars, l_vars>>

SumInit ==
  /\ part \in {"pool", "auth", "watchdog", "lines"}
  /\ Init
  /\ Pool!Init
  /\ Guard!Init
  /\ Lines!Init

SumNext ==
  /\ UNCHANGED part
  /\ \/ part = "auth" /\ Next /\ UNCHANGED <<p_vars, w_vars, l_vars>>
     \/ part = "pool" /\ Pool!Next /\ UNCHANGED <<vars, w_vars, l_vars>>
     \/ part = "watchdog" /\ Guard!Next /\ UNCHANGED <<vars, p_vars, l_vars>>
     \/ part = "lines" /\ Lines!Next /\ UNCHANGED <<vars, p_vars, w_vars>>

SumSpec == SumInit /\ [][SumNext]_Sum

-----------------------------------------------------------------------------
(* A tenant's calls run one at a time, although its slot may be dropped    *)
(* and made again between them, and a request's is open to eviction while  *)
(* its lock is still held (TenantPool).                                    *)
OneAtATime == part = "pool" => Pool!OneAtATime

(* A slot that is checked out is the pool's own for its tenant, and the    *)
(* pool grows past its cap only by slots in use (checkout,                 *)
(* evict_while_full).                                                      *)
SlotsHold == part = "pool" => Pool!SlotsHold

(* The epoch callback tells the three kinds of guests apart: one that      *)
(* talks is left alone, one that spins is trapped, and nobody outlives a   *)
(* deadline.                                                               *)
WatchdogHolds == part = "watchdog" => Guard!WatchdogHolds

(* What was written is framed as written, and what is not framed is        *)
(* counted (LineFramer).                                                   *)
FramingHolds == part = "lines" => Lines!FramingHolds

=============================================================================
