------------------------------ MODULE Catalog ------------------------------
(***************************************************************************)
(* The tenants' pools of runtime/src/zfs.rs: the slot that serialises a    *)
(* tenant's first use in a boot, the catalog on the control pool that says *)
(* which pool and which region of the disk are a tenant's, the creation of *)
(* a pool on the lowest free region, and the import of one the catalog     *)
(* names.  A call may fail or be dropped between any two steps: nothing it *)
(* did is undone.  A restart loads the control pool at its newest anchor   *)
(* or at any later state the disk held (module Anchor).                    *)
(*                                                                         *)
(* A pool id is random and never met twice, so it also stands for the      *)
(* pool's chain, its anchor 0 and the key of its device.                   *)
(***************************************************************************)
EXTENDS Naturals, FiniteSets

CONSTANTS Tenants,     \* tenant ids
          Callers,     \* calls of tenant_pool in flight at once
          PoolIds,     \* the ids a run may draw
          MaxPools,    \* regions of the disk, the control pool's included
          MaxRestarts, \* restarts in one run
          None, Empty  \* no value; a slot nobody has filled

VARIABLES catalog,   \* the entries, as the control pool's files are now
          anchored,  \* the entries the newest anchor of the control pool covers
          recent,    \* the states of the files since then
          region,    \* which pool was last made on a region of the disk
          slots,     \* `tenants`: no slot, an empty one, or the pool in it
          mapped,    \* the pools with a device-mapper device in this boot
          imported,  \* the pools ZFS has imported in this boot
          noted,     \* the imports the kernel's debug log tells of
          calls,     \* what each caller is doing
          creating,  \* the holder of create_lock
          served,    \* the entry a tenant had when a write of theirs was acknowledged
          restarts   \* restarts so far

vars == <<catalog, anchored, recent, region, slots, mapped, imported, noted,
          calls, creating, served, restarts>>

disk == <<catalog, anchored, recent, region>>
boot == <<slots, mapped, imported, noted>>
seen == <<served, restarts>>

Regions == 1 .. (MaxPools - 1)
Entries == [pool : PoolIds, region : Regions]
Catalogs == [Tenants -> Entries \cup {None}]
Steps == {"wait", "read", "map", "clear", "import", "admit",
          "lock", "place", "mapNew", "format", "write", "anchor"}
Calls == [at : Steps, tenant : Tenants, create : BOOLEAN, entry : Entries \cup {None}]

\* The ids somebody has drawn: a random id is none of them.
Minted == {p \in PoolIds : \/ \E r \in Regions : region[r] = p
                           \/ p \in mapped \cup imported
                           \/ \E cat \in recent \cup {anchored}, t \in Tenants :
                                  cat[t] # None /\ cat[t].pool = p
                           \/ \E c \in Callers : calls[c] # None /\ calls[c].entry # None
                                                 /\ calls[c].entry.pool = p}

(* What one call does next, and how it ends.  The guards of create_lock and *)
(* of the slot's cell are dropped with the call.                            *)
Goto(c, step) == calls' = [calls EXCEPT ![c].at = step]
Ends(c) == /\ calls' = [calls EXCEPT ![c] = None]
           /\ creating' = IF creating = c THEN None ELSE creating

At(c, step) == calls[c] # None /\ calls[c].at = step
Tenant(c) == calls[c].tenant
Entry(c) == calls[c].entry

NoEntry == [t \in Tenants |-> None]

Init == /\ catalog = NoEntry /\ anchored = NoEntry /\ recent = {NoEntry}
        /\ region = [r \in Regions |-> None]
        /\ slots = NoEntry
        /\ mapped = {} /\ imported = {} /\ noted = {}
        /\ calls = [c \in Callers |-> None] /\ creating = None
        /\ served = NoEntry /\ restarts = 0

----------------------------------------------------------------------------
(* tenant_pool: a slot for the tenant, then its cell.                       *)

Slotted == {t \in Tenants : slots[t] # None}

\* The tenant has a slot, or there is room for one (else the call is refused and
\* nothing changes); with create for a request of the tenant's own, without for
\* work on their behalf.
TenantPool(c, t, create) ==
    /\ calls[c] = None
    /\ slots[t] \in {None, Empty}
    /\ slots[t] # None \/ Cardinality(Slotted) + 1 < MaxPools
    /\ slots' = [slots EXCEPT ![t] = Empty]
    /\ calls' = [calls EXCEPT ![c] = [at |-> "wait", tenant |-> t, create |-> create,
                                      entry |-> None]]
    /\ UNCHANGED <<disk, mapped, imported, noted, creating, seen>>

\* get_or_try_init: one caller of a tenant at a time fills the cell.
Initialising(t) == \E c \in Callers : calls[c] # None /\ Tenant(c) = t /\ ~At(c, "wait")

EnterCell(c) ==
    /\ At(c, "wait") /\ slots[Tenant(c)] = Empty
    /\ ~Initialising(Tenant(c))
    /\ Goto(c, "read")
    /\ UNCHANGED <<disk, boot, creating, seen>>

FoundFilled(c) ==
    /\ At(c, "wait") /\ slots[Tenant(c)] # Empty
    /\ Ends(c)
    /\ UNCHANGED <<disk, boot, seen>>

\* open_or_create_tenant: import what the catalog names, else create, else refuse.
ReadCatalog(c) ==
    LET e == catalog[Tenant(c)] IN
    /\ At(c, "read")
    /\ \/ e # None /\ calls' = [calls EXCEPT ![c].at = "map", ![c].entry = e]
                   /\ UNCHANGED creating
       \/ e = None /\ calls[c].create /\ Goto(c, "lock") /\ UNCHANGED creating
       \/ e = None /\ ~calls[c].create /\ Ends(c)
    /\ UNCHANGED <<disk, boot, seen>>

----------------------------------------------------------------------------
(* import_tenant.                                                           *)

\* dmsetup create refuses a name that exists: the device of an import that
\* failed earlier in this boot is still there.
MapRegion(c) ==
    /\ At(c, "map")
    /\ IF Entry(c).pool \in mapped
       THEN Ends(c) /\ UNCHANGED mapped
       ELSE /\ mapped' = mapped \cup {Entry(c).pool}
            /\ Goto(c, "clear") /\ UNCHANGED creating
    /\ UNCHANGED <<disk, slots, imported, noted, seen>>

\* Pool::open: the one debug log of the kernel is emptied before the import.
ClearLog(c) ==
    /\ At(c, "clear")
    /\ noted' = {}
    /\ Goto(c, "import")
    /\ UNCHANGED <<disk, slots, mapped, imported, creating, seen>>

ZpoolImport(c) ==
    /\ At(c, "import")
    /\ region[Entry(c).region] = Entry(c).pool
    /\ imported' = imported \cup {Entry(c).pool}
    /\ noted' = noted \cup {Entry(c).pool}
    /\ Goto(c, "admit")
    /\ UNCHANGED <<disk, slots, mapped, creating, seen>>

\* The pool is admitted on what the log says was loaded; without it the pool is
\* exported again and refused.
AdmitPool(c) ==
    LET p == Entry(c).pool IN
    /\ At(c, "admit")
    /\ IF p \in noted
       THEN slots' = [slots EXCEPT ![Tenant(c)] = p] /\ UNCHANGED imported
       ELSE imported' = imported \ {p} /\ UNCHANGED slots
    /\ Ends(c)
    /\ UNCHANGED <<disk, mapped, noted, seen>>

----------------------------------------------------------------------------
(* create_tenant, under create_lock.                                        *)

TakeLock(c) ==
    /\ At(c, "lock") /\ creating = None
    /\ creating' = c
    /\ Goto(c, "place")
    /\ UNCHANGED <<disk, boot, seen>>

TakenRegions == {catalog[t].region : t \in {u \in Tenants : catalog[u] # None}}
FreeRegions == Regions \ TakenRegions
FreeRegion == CHOOSE r \in FreeRegions : \A s \in FreeRegions : r <= s

\* free_region and the random pool id; a full disk ends the call.
Place(c) ==
    /\ At(c, "place")
    /\ \/ /\ FreeRegions # {}
          /\ \E p \in PoolIds \ Minted :
                calls' = [calls EXCEPT ![c].at = "mapNew",
                                       ![c].entry = [pool |-> p, region |-> FreeRegion]]
          /\ UNCHANGED creating
       \/ FreeRegions = {} /\ Ends(c)
    /\ UNCHANGED <<disk, boot, seen>>

MapNew(c) ==
    /\ At(c, "mapNew")
    /\ mapped' = mapped \cup {Entry(c).pool}
    /\ Goto(c, "format")
    /\ UNCHANGED <<disk, slots, imported, noted, creating, seen>>

\* Pool::create: the new key finds no pool on the device and no chain exists
\* under the new id, so the region is formatted and anchor 0 published.
Format(c) ==
    /\ At(c, "format")
    /\ region' = [region EXCEPT ![Entry(c).region] = Entry(c).pool]
    /\ imported' = imported \cup {Entry(c).pool}
    /\ Goto(c, "write")
    /\ UNCHANGED <<catalog, anchored, recent, slots, mapped, noted, creating, seen>>

\* write_catalog: a temporary file renamed over the entry.
WriteCatalog(c) ==
    /\ At(c, "write")
    /\ catalog' = [catalog EXCEPT ![Tenant(c)] = Entry(c)]
    /\ recent' = recent \cup {catalog'}
    /\ Goto(c, "anchor")
    /\ UNCHANGED <<anchored, region, boot, creating, seen>>

CoverCatalog == anchored' = catalog /\ recent' = {catalog}

\* The control pool is anchored and the slot filled; create_lock goes with it.
AnchorCreated(c) ==
    /\ At(c, "anchor")
    /\ CoverCatalog
    /\ slots' = [slots EXCEPT ![Tenant(c)] = Entry(c).pool]
    /\ Ends(c)
    /\ UNCHANGED <<catalog, region, mapped, imported, noted, seen>>

\* Mutant: only the tenant's own pool is anchored before the answer.
AnchorTenantAlone(t) ==
    /\ slots[t] \notin {None, Empty}
    /\ served' = [served EXCEPT ![t] = catalog[t]]
    /\ UNCHANGED <<disk, boot, calls, creating, restarts>>

----------------------------------------------------------------------------
(* anchor_tenant: what a request answers with.  The tenant's own pool, then *)
(* the control pool, whoever's records it holds.                            *)
AnchorTenant(t) ==
    /\ slots[t] \notin {None, Empty}
    /\ CoverCatalog
    /\ served' = [served EXCEPT ![t] = catalog[t]]
    /\ UNCHANGED <<catalog, region, boot, calls, creating, restarts>>

\* An anchor of the control pool alone: for a credential, or one whose caller
\* left (it runs in a task of its own).
AnchorControl ==
    /\ CoverCatalog /\ recent # recent'
    /\ UNCHANGED <<catalog, region, boot, calls, creating, seen>>

\* A command, a request to the bucket or the pool fails, or the client leaves
\* and the call is dropped where it is.
Fails(c) ==
    /\ calls[c] # None
    /\ Ends(c)
    /\ UNCHANGED <<disk, boot, seen>>

\* validate_catalog, at every resume.
ValidCatalog(cat) ==
    \A t, u \in Tenants :
        cat[t] # None /\ cat[u] # None /\ t # u =>
            cat[t].region # cat[u].region /\ cat[t].pool # cat[u].pool

Restart ==
    /\ restarts < MaxRestarts
    /\ \E cat \in recent \cup {anchored} :
          ValidCatalog(cat) /\ catalog' = cat /\ recent' = {cat}
    /\ slots' = NoEntry
    /\ mapped' = {} /\ imported' = {} /\ noted' = {}
    /\ calls' = [c \in Callers |-> None] /\ creating' = None
    /\ restarts' = restarts + 1
    /\ UNCHANGED <<anchored, region, served>>

Step(c) == \/ EnterCell(c) \/ FoundFilled(c) \/ ReadCatalog(c)
           \/ MapRegion(c) \/ ClearLog(c) \/ ZpoolImport(c) \/ AdmitPool(c)
           \/ TakeLock(c) \/ Place(c) \/ MapNew(c) \/ Format(c)
           \/ WriteCatalog(c) \/ AnchorCreated(c)

Next == \/ \E c \in Callers :
              \/ Step(c)
              \/ Fails(c)
              \/ \E t \in Tenants, b \in BOOLEAN : TenantPool(c, t, b)
        \/ \E t \in Tenants : AnchorTenant(t)
        \/ AnchorControl
        \/ Restart

Spec == Init /\ [][Next]_vars

----------------------------------------------------------------------------
(* What the proofs ask of the constants: None and Empty are none of the     *)
(* values they stand beside.                                                *)
ASSUME CatalogAssumption ==
    /\ None \notin PoolIds \cup Entries \cup Calls \cup Callers
    /\ Empty \notin PoolIds /\ None # Empty
    /\ {MaxPools, MaxRestarts} \subseteq Nat

(* Every variable keeps its type. *)
TypeOK ==
    /\ catalog \in Catalogs /\ anchored \in Catalogs
    /\ recent \subseteq Catalogs /\ catalog \in recent
    /\ region \in [Regions -> PoolIds \cup {None}]
    /\ slots \in [Tenants -> PoolIds \cup {None, Empty}]
    /\ mapped \subseteq PoolIds /\ imported \subseteq PoolIds /\ noted \subseteq PoolIds
    /\ calls \in [Callers -> Calls \cup {None}] /\ creating \in Callers \cup {None}
    /\ served \in Catalogs
    /\ restarts \in 0 .. MaxRestarts

(* Whatever state of the control pool a restart may load, validate_catalog  *)
(* accepts it: creation races, failures and drops leave no two tenants on   *)
(* one region or one pool, not even in entries nobody was told of.          *)
BootAccepts == \A cat \in recent \cup {anchored} : ValidCatalog(cat)

(* A tenant whose write was acknowledged keeps its pool: every state a      *)
(* restart may load names the same pool and region, and no creation has     *)
(* formatted that region since.                                             *)
AcknowledgedKept ==
    \A t \in Tenants : served[t] # None =>
        /\ region[served[t].region] = served[t].pool
        /\ \A cat \in recent \cup {anchored} : cat[t] = served[t]

(* A slot is filled only with the pool the tenant's entry names, imported   *)
(* in this boot, and never two slots with one pool.                         *)
SlotIsCatalogued ==
    \A t \in Tenants : slots[t] \notin {None, Empty} =>
        /\ catalog[t] # None /\ catalog[t].pool = slots[t]
        /\ slots[t] \in imported
        /\ region[catalog[t].region] = slots[t]

(* Creations, imports, failures and restarts leave a catalog every boot    *)
(* accepts, in which an acknowledged tenant keeps its pool and a slot      *)
(* holds the pool of its entry (tenant_pool, create_tenant,                *)
(* validate_catalog).                                                      *)
CatalogHolds ==
  /\ TypeOK
  /\ BootAccepts
  /\ AcknowledgedKept
  /\ SlotIsCatalogued

=============================================================================
