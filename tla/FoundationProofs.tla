-------------------------- MODULE FoundationProofs --------------------------
(***************************************************************************)
(* What serving stands on: the catalog of tenants and their pools, what an *)
(* enclave and its client take on trust, and may: the key (module          *)
(* KeyPolicy), the time (Clock) and the proof of which enclave answers     *)
(* (Attested), what an enclave is started with (Settings) and the store    *)
(* its tests run on (MemoryStore), each for every value of its constants.  *)
(* The six share no state; each section says which facts its property      *)
(* needs to be inductive.                                                  *)
(***************************************************************************)
EXTENDS MCFoundation, FiniteSetTheorems, SequenceTheorems, WellFoundedInduction, TLAPS

-----------------------------------------------------------------------------
(* Catalog, for any number of tenants, callers, regions and restarts.      *)
(* CatalogHolds is not inductive: what a creation will write was decided   *)
(* several requests earlier.  The proof adds                               *)
(*   - that the images a restart may load are a chain: each has what the   *)
(*     newest anchor has, and the catalog has what each has (Growing), so  *)
(*     only the catalog itself need be valid;                              *)
(*   - that every entry's region holds its pool (OnDisk), an entry lost to *)
(*     a restart having left the catalog with it;                          *)
(*   - that one call at a time is past a tenant's cell (OneEach); and      *)
(*   - what each call stands on (EachCaller): create_lock is what keeps a  *)
(*     placed region free until it is written down, the cell is what keeps *)
(*     the tenant without an entry until then.                             *)

(* An image has what an earlier one has.                                   *)
Within(a, b) == \A t \in Tenants : a[t] # None => a[t] = b[t]

Growing ==
  /\ \A cat \in recent : Within(anchored, cat) /\ Within(cat, catalog)
  /\ \A t \in Tenants : served[t] # None => anchored[t] = served[t]

(* Every entry's pool is on its region.                                    *)
OnDisk == \A t \in Tenants : catalog[t] # None => region[catalog[t].region] = catalog[t].pool

Creating == {"place", "mapNew", "format", "write", "anchor"}
Placed   == {"mapNew", "format", "write"}
Importing == {"map", "clear", "import", "admit"}

(* What a call stands on, by the step it is at.                            *)
EachCaller(c) ==
  LET n == calls[c] IN
  /\ creating = c <=> n # None /\ n.at \in Creating
  /\ n # None /\ n.at # "wait" => slots[n.tenant] = Empty
  /\ n # None /\ n.at \in Importing => n.entry # None /\ catalog[n.tenant] = n.entry
  /\ n # None /\ n.at \in {"lock", "place"} \cup Placed => catalog[n.tenant] = None
  /\ n # None /\ n.at \in Placed =>
       /\ n.entry # None
       /\ \A t \in Tenants : catalog[t] # None =>
            catalog[t].region # n.entry.region /\ catalog[t].pool # n.entry.pool
  /\ n # None /\ n.at = "write" => region[n.entry.region] = n.entry.pool
  /\ n # None /\ n.at = "anchor" => n.entry # None /\ catalog[n.tenant] = n.entry
  /\ n # None /\ n.at \in {"admit", "write", "anchor"} => n.entry.pool \in imported

(* get_or_try_init: one call past the cell of a tenant.                    *)
OneEach ==
  \A c, d \in Callers :
    /\ calls[c] # None /\ calls[c].at # "wait" /\ calls[d] # None /\ calls[d].at # "wait"
    /\ calls[c].tenant = calls[d].tenant
    => c = d

DiskInv == ValidCatalog(catalog) /\ Growing /\ OnDisk
CallersInv == OneEach /\ \A c \in Callers : EachCaller(c)
CatalogInv == TypeOK /\ DiskInv /\ SlotIsCatalogued /\ CallersInv

(* Every set of naturals has a least member.                               *)
LEMMA LeastNatural ==
  ASSUME NEW S \in SUBSET Nat, S # {}
  PROVE  \E x \in S : \A y \in S : x <= y
<1> DEFINE R == OpToRel(<, Nat)
<1>1. \A y, x \in Nat : <<y, x>> \in R <=> y < x
  BY DEF OpToRel
<1> HIDE DEF R
<1>2. PICK x \in S : \A y \in S : <<y, x>> \notin R
  BY NatLessThanWellFounded, WFMin DEF R
<1>3. ASSUME NEW y \in S PROVE x <= y
  <2>1. x \in Nat /\ y \in Nat
    OBVIOUS
  <2>2. ~(y < x)
    BY <1>1, <1>2, <2>1
  <2> QED BY <2>1, <2>2
<1> QED BY <1>2, <1>3

(* free_region finds a region when there is one.                           *)
LEMMA FreeRegionIsFree ==
  ASSUME FreeRegions # {} PROVE FreeRegion \in FreeRegions
<1>1. FreeRegions \in SUBSET Nat
  BY CatalogAssumption DEF FreeRegions, Regions
<1>2. \E r \in FreeRegions : \A s \in FreeRegions : r <= s
  BY <1>1, LeastNatural
<1> QED BY <1>2 DEF FreeRegion

(* Every variable keeps its type.                                          *)
LEMMA TypesStep ==
  ASSUME CatalogInv, [Next]_vars
  PROVE  TypeOK'
<1> USE CatalogAssumption DEF CatalogInv, DiskInv, CallersInv, TypeOK, Calls, Catalogs,
    Entries, Steps, At, Goto,
    Ends, Tenant, Entry, disk, boot, seen, NoEntry, CoverCatalog
<1>1. ASSUME NEW c \in Callers, EnterCell(c) PROVE TypeOK'
  BY <1>1 DEF EnterCell
<1>2. ASSUME NEW c \in Callers, FoundFilled(c) PROVE TypeOK'
  BY <1>2 DEF FoundFilled
<1>3. ASSUME NEW c \in Callers, ReadCatalog(c) PROVE TypeOK'
  BY <1>3 DEF ReadCatalog
<1>4. ASSUME NEW c \in Callers, MapRegion(c) PROVE TypeOK'
  BY <1>4 DEF MapRegion, EachCaller, Importing
<1>5. ASSUME NEW c \in Callers, ClearLog(c) PROVE TypeOK'
  BY <1>5 DEF ClearLog
<1>6. ASSUME NEW c \in Callers, ZpoolImport(c) PROVE TypeOK'
  BY <1>6 DEF ZpoolImport, EachCaller, Importing
<1>7. ASSUME NEW c \in Callers, AdmitPool(c) PROVE TypeOK'
  BY <1>7 DEF AdmitPool, EachCaller, Importing
<1>8. ASSUME NEW c \in Callers, TakeLock(c) PROVE TypeOK'
  BY <1>8 DEF TakeLock
<1>9. ASSUME NEW c \in Callers, Place(c) PROVE TypeOK'
  <2>1. CASE FreeRegions = {}
    BY <1>9, <2>1 DEF Place, Ends
  <2>2. CASE FreeRegions # {}
    <3>1. PICK p \in PoolIds :
            calls' = [calls EXCEPT ![c].at = "mapNew",
                                   ![c].entry = [pool |-> p, region |-> FreeRegion]]
      BY <1>9, <2>2 DEF Place
    <3>2. FreeRegion \in Regions
      BY <2>2, FreeRegionIsFree DEF FreeRegions
    <3>3. [pool |-> p, region |-> FreeRegion] \in Entries
      BY <3>2
    <3>4. calls[c] \in Calls
      BY <1>9 DEF Place
    <3>5. calls' \in [Callers -> Calls \cup {None}]
      BY <3>1, <3>3, <3>4
    <3>6. UNCHANGED <<disk, boot, seen, creating>>
      BY <1>9, <2>2 DEF Place
    <3> QED BY <3>5, <3>6
  <2> QED BY <2>1, <2>2
<1>10. ASSUME NEW c \in Callers, MapNew(c) PROVE TypeOK'
  BY <1>10 DEF MapNew, EachCaller, Placed
<1>11. ASSUME NEW c \in Callers, Format(c) PROVE TypeOK'
  BY <1>11 DEF Format, EachCaller, Placed
<1>12. ASSUME NEW c \in Callers, WriteCatalog(c) PROVE TypeOK'
  BY <1>12 DEF WriteCatalog, EachCaller, Placed
<1>13. ASSUME NEW c \in Callers, AnchorCreated(c) PROVE TypeOK'
  BY <1>13 DEF AnchorCreated, EachCaller
<1>14. ASSUME NEW c \in Callers, Fails(c) PROVE TypeOK'
  BY <1>14 DEF Fails
<1>15. ASSUME NEW c \in Callers, NEW t \in Tenants, NEW b \in BOOLEAN, TenantPool(c, t, b)
      PROVE  TypeOK'
  BY <1>15 DEF TenantPool
<1>16. ASSUME NEW t \in Tenants, AnchorTenant(t) PROVE TypeOK'
  BY <1>16 DEF AnchorTenant
<1>17. ASSUME AnchorControl PROVE TypeOK'
  BY <1>17 DEF AnchorControl
<1>18. ASSUME Restart PROVE TypeOK'
  BY <1>18 DEF Restart
<1>19. CASE UNCHANGED vars
  BY <1>19 DEF vars, disk, boot, seen
<1> HIDE CatalogAssumption DEF CatalogInv, DiskInv, CallersInv, TypeOK, Calls, Catalogs,
    Entries, Steps, At, Goto,
    Ends, Tenant, Entry, disk, boot, seen, NoEntry, CoverCatalog
<1> QED BY <1>1, <1>2, <1>3, <1>4, <1>5, <1>6, <1>7, <1>8, <1>9, <1>10, <1>11, <1>12, <1>13,
    <1>14, <1>15, <1>16, <1>17, <1>18, <1>19 DEF Next, Step

(* The images and the regions they name.                                   *)
LEMMA DiskStep ==
  ASSUME CatalogInv, [Next]_vars
  PROVE  DiskInv'
<1> USE CatalogAssumption DEF CatalogInv, DiskInv, CallersInv, TypeOK, ValidCatalog,
    Growing, Within, OnDisk, At,
    Tenant, Entry, disk, seen, CoverCatalog
<1>1. CASE UNCHANGED <<catalog, anchored, recent, region, served>>
  BY <1>1
<1>2. ASSUME NEW c \in Callers, Format(c) PROVE DiskInv'
  BY <1>2 DEF Format, EachCaller, Placed, Calls, Entries
<1>3. ASSUME NEW c \in Callers, WriteCatalog(c) PROVE DiskInv'
  <2>1. catalog' = [catalog EXCEPT ![Tenant(c)] = Entry(c)] /\ recent' = recent \cup {catalog'}
        /\ UNCHANGED <<anchored, region, served>> /\ At(c, "write")
    BY <1>3 DEF WriteCatalog, seen
  <2>2. /\ Tenant(c) \in Tenants /\ catalog[Tenant(c)] = None
        /\ Entry(c) # None /\ region[Entry(c).region] = Entry(c).pool
        /\ \A t \in Tenants : catalog[t] # None =>
             catalog[t].region # Entry(c).region /\ catalog[t].pool # Entry(c).pool
    BY <2>1 DEF EachCaller, Placed, Calls
  <2>3. \A t \in Tenants : catalog'[t] = IF t = Tenant(c) THEN Entry(c) ELSE catalog[t]
    BY <2>1 DEF Catalogs
  <2>4. ValidCatalog(catalog)'
    BY <2>2, <2>3
  <2>5. Growing'
    <3>1. ASSUME NEW cat, Within(cat, catalog) PROVE Within(cat, catalog')
      BY <2>2, <2>3, <3>1
    <3>2. Within(anchored, catalog) /\ \A cat \in recent : Within(cat, catalog)
      OBVIOUS
    <3>3. ASSUME NEW cat \in recent' PROVE Within(anchored', cat) /\ Within(cat, catalog')
      <4>1. CASE cat \in recent
        BY <2>1, <3>1, <3>2, <4>1
      <4>2. CASE cat = catalog'
        BY <2>1, <3>1, <3>2, <4>2
      <4> QED BY <2>1, <4>1, <4>2
    <3> QED BY <2>1, <3>3
  <2>6. OnDisk'
    BY <2>1, <2>2, <2>3
  <2> QED BY <2>4, <2>5, <2>6
<1>4. ASSUME NEW c \in Callers, AnchorCreated(c) PROVE DiskInv'
  BY <1>4 DEF AnchorCreated
<1>5. ASSUME NEW t \in Tenants, AnchorTenant(t) PROVE DiskInv'
  BY <1>5 DEF AnchorTenant
<1>6. ASSUME AnchorControl PROVE DiskInv'
  BY <1>6 DEF AnchorControl
<1>7. ASSUME Restart PROVE DiskInv'
  <2>1. PICK cat \in recent \cup {anchored} : catalog' = cat /\ recent' = {cat}
    BY <1>7 DEF Restart
  <2>2. UNCHANGED <<anchored, region, served>>
    BY <1>7 DEF Restart
  <2>3. Within(anchored, cat) /\ Within(cat, catalog) /\ catalog' \in Catalogs
    BY <2>1 DEF Catalogs
  <2>4. ASSUME NEW t \in Tenants, cat[t] # None PROVE catalog[t] = cat[t]
    BY <2>3, <2>4
  <2>5. ValidCatalog(cat)
    BY <2>4
  <2>6. Growing'
    BY <2>1, <2>2, <2>3
  <2>7. OnDisk'
    BY <2>1, <2>2, <2>4
  <2> QED BY <2>1, <2>5, <2>6, <2>7
<1> HIDE CatalogAssumption DEF CatalogInv, DiskInv, CallersInv, TypeOK, ValidCatalog,
    Growing, Within, OnDisk, At,
    Tenant, Entry, disk, seen, CoverCatalog
<1> QED BY <1>1, <1>2, <1>3, <1>4, <1>5, <1>6, <1>7 DEF Next, Step, vars, disk, boot, seen,
    EnterCell, FoundFilled, ReadCatalog, MapRegion, ClearLog, ZpoolImport, AdmitPool,
    TakeLock, Place, MapNew, Fails, TenantPool

(* What the slots of this boot hold.                                       *)
LEMMA SlotsStep ==
  ASSUME CatalogInv, [Next]_vars
  PROVE  SlotIsCatalogued'
<1> USE CatalogAssumption DEF CatalogInv, DiskInv, CallersInv, TypeOK, Calls, Catalogs,
    Entries, Steps, At, Tenant, Entry, disk, boot, seen, EachCaller, Placed, Importing,
    SlotIsCatalogued
<1>1. CASE UNCHANGED <<catalog, region, slots, imported>>
  BY <1>1
<1>2. ASSUME NEW c \in Callers, ZpoolImport(c) PROVE SlotIsCatalogued'
  BY <1>2 DEF ZpoolImport
<1>3. ASSUME NEW c \in Callers, AdmitPool(c) PROVE SlotIsCatalogued'
  <2>1. /\ At(c, "admit") /\ catalog[Tenant(c)] = Entry(c) /\ Entry(c) # None
        /\ Tenant(c) \in Tenants /\ Entry(c).pool \in imported /\ slots[Tenant(c)] = Empty
        /\ (UNCHANGED catalog) /\ UNCHANGED region
    BY <1>3 DEF AdmitPool
  <2>2. CASE Entry(c).pool \in noted
    <3>1. imported' = imported /\ slots' = [slots EXCEPT ![Tenant(c)] = Entry(c).pool]
      BY <1>3, <2>2 DEF AdmitPool
    <3> QED BY <2>1, <3>1 DEF OnDisk
  <2>3. CASE Entry(c).pool \notin noted
    <3>1. imported' = imported \ {Entry(c).pool} /\ slots' = slots
      BY <1>3, <2>3 DEF AdmitPool
    <3>2. ASSUME NEW t \in Tenants, slots[t] \notin {None, Empty} PROVE slots[t] # Entry(c).pool
      <4>1. catalog[t] # None /\ catalog[t].pool = slots[t] /\ t # Tenant(c)
        BY <2>1, <3>2
      <4> QED BY <2>1, <4>1 DEF ValidCatalog
    <3> QED BY <2>1, <3>1, <3>2
  <2> QED BY <2>2, <2>3
<1>4. ASSUME NEW c \in Callers, Format(c) PROVE SlotIsCatalogued'
  <2>1. /\ At(c, "format") /\ Entry(c) # None
        /\ \A t \in Tenants : catalog[t] # None => catalog[t].region # Entry(c).region
        /\ region' = [region EXCEPT ![Entry(c).region] = Entry(c).pool]
        /\ imported \subseteq imported' /\ (UNCHANGED catalog) /\ UNCHANGED slots
    BY <1>4 DEF Format
  <2>2. \A t \in Tenants :
          catalog[t] # None => region'[catalog[t].region] = region[catalog[t].region]
    BY <2>1
  <2> QED BY <2>1, <2>2
<1>5. ASSUME NEW c \in Callers, WriteCatalog(c) PROVE SlotIsCatalogued'
  BY <1>5 DEF WriteCatalog
<1>6. ASSUME NEW c \in Callers, AnchorCreated(c) PROVE SlotIsCatalogued'
  BY <1>6 DEF AnchorCreated, OnDisk
<1>7. ASSUME NEW c \in Callers, NEW t \in Tenants, NEW b \in BOOLEAN, TenantPool(c, t, b)
      PROVE  SlotIsCatalogued'
  BY <1>7 DEF TenantPool
<1>8. ASSUME Restart PROVE SlotIsCatalogued'
  BY <1>8 DEF Restart, NoEntry
<1> HIDE CatalogAssumption DEF CatalogInv, DiskInv, CallersInv, TypeOK, Calls, Catalogs,
    Entries, Steps, At, Tenant, Entry, disk, boot, seen, EachCaller, Placed, Importing,
    SlotIsCatalogued
<1> QED BY <1>1, <1>2, <1>3, <1>4, <1>5, <1>6, <1>7, <1>8 DEF Next, Step, vars, disk, boot,
    seen,
    EnterCell, FoundFilled, ReadCatalog, MapRegion, ClearLog, TakeLock, Place, MapNew,
    Fails, AnchorTenant, AnchorControl

(* What each call in flight stands on.                                     *)
LEMMA CallersStep ==
  ASSUME CatalogInv, [Next]_vars
  PROVE  CallersInv'
<1> USE CatalogAssumption DEF CatalogInv, DiskInv, CallersInv, TypeOK, Calls, Catalogs,
    Entries, Steps, At, Goto, Ends,
    Tenant, Entry, disk, boot, seen, EachCaller, OneEach, Creating, Placed, Importing
<1>1. ASSUME NEW c \in Callers, EnterCell(c) PROVE CallersInv'
  BY <1>1 DEF EnterCell, Initialising
<1>2. ASSUME NEW c \in Callers, FoundFilled(c) PROVE CallersInv'
  BY <1>2 DEF FoundFilled
<1>3. ASSUME NEW c \in Callers, ReadCatalog(c) PROVE CallersInv'
  BY <1>3 DEF ReadCatalog
<1>4. ASSUME NEW c \in Callers, MapRegion(c) PROVE CallersInv'
  BY <1>4 DEF MapRegion
<1>5. ASSUME NEW c \in Callers, ClearLog(c) PROVE CallersInv'
  BY <1>5 DEF ClearLog
<1>6. ASSUME NEW c \in Callers, ZpoolImport(c) PROVE CallersInv'
  BY <1>6 DEF ZpoolImport
<1>7. ASSUME NEW c \in Callers, AdmitPool(c) PROVE CallersInv'
  <2>1. OneEach'
    BY <1>7 DEF AdmitPool
  <2>2. /\ At(c, "admit") /\ catalog[Tenant(c)] = Entry(c) /\ Entry(c) # None
        /\ imported \ {Entry(c).pool} \subseteq imported'
        /\ calls' = [calls EXCEPT ![c] = None]
        /\ creating' = IF creating = c THEN None ELSE creating
        /\ UNCHANGED <<disk, mapped>>
        /\ \A t \in Tenants \ {Tenant(c)} : slots'[t] = slots[t]
    BY <1>7 DEF AdmitPool
  <2>3. ASSUME NEW d \in Callers, d # c, calls[d] # None, 
               calls[d].at \in {"admit", "write", "anchor"}
        PROVE  calls[d].entry.pool # Entry(c).pool
    BY <2>2, <2>3 DEF ValidCatalog
  <2>4. ASSUME NEW d \in Callers PROVE EachCaller(d)'
    BY <2>2, <2>3
  <2> QED BY <2>1, <2>4
<1>8. ASSUME NEW c \in Callers, TakeLock(c) PROVE CallersInv'
  BY <1>8 DEF TakeLock
<1>9. ASSUME NEW c \in Callers, Place(c) PROVE CallersInv'
  <2>1. CASE FreeRegions = {}
    BY <1>9, <2>1 DEF Place
  <2>2. CASE FreeRegions # {}
    <3>1. PICK p \in PoolIds \ Minted :
            calls' = [calls EXCEPT ![c].at = "mapNew",
                                   ![c].entry = [pool |-> p, region |-> FreeRegion]]
      BY <1>9, <2>2 DEF Place
    <3>2. FreeRegion \in FreeRegions /\ FreeRegion \in Regions
      BY <2>2, FreeRegionIsFree DEF FreeRegions
    <3>3. At(c, "place") /\ (UNCHANGED <<disk, boot, seen>>) /\ UNCHANGED creating
      BY <1>9, <2>2 DEF Place
    <3>4. \A t \in Tenants : catalog[t] # None =>
             catalog[t].region # FreeRegion /\ catalog[t].pool # p
      BY <3>1, <3>2 DEF Minted, FreeRegions, TakenRegions
    <3>5. /\ \A d \in Callers \ {c} : calls'[d] = calls[d]
          /\ calls'[c] \in Calls /\ calls'[c] # None
          /\ calls'[c].at = "mapNew" /\ calls'[c].tenant = calls[c].tenant
          /\ calls'[c].entry = [pool |-> p, region |-> FreeRegion]
      <4> DEFINE entry == [pool |-> p, region |-> FreeRegion]
      <4>1. entry \in Entries /\ calls[c] \in Calls
        BY <3>2, <3>3
      <4>2. calls' = [calls EXCEPT ![c].at = "mapNew", ![c].entry = entry]
        BY <3>1
      <4> HIDE DEF entry
      <4>3. /\ \A d \in Callers \ {c} : calls'[d] = calls[d]
            /\ calls'[c] \in Calls /\ calls'[c].entry = entry
            /\ calls'[c].at = "mapNew" /\ calls'[c].tenant = calls[c].tenant
        BY ZenonT(60), <4>1, <4>2
      <4>4. calls'[c] # None
        BY <4>3
      <4> HIDE DEF Calls
      <4> QED BY <4>3, <4>4 DEF entry
    <3>6. OneEach'
      BY <3>3, <3>5
    <3>7. ASSUME NEW d \in Callers PROVE EachCaller(d)'
      BY <3>2, <3>3, <3>4, <3>5
    <3> QED BY <3>6, <3>7
  <2> QED BY <2>1, <2>2
<1>10. ASSUME NEW c \in Callers, MapNew(c) PROVE CallersInv'
  BY <1>10 DEF MapNew
<1>11. ASSUME NEW c \in Callers, Format(c) PROVE CallersInv'
  BY <1>11 DEF Format
<1>12. ASSUME NEW c \in Callers, WriteCatalog(c) PROVE CallersInv'
  BY <1>12 DEF WriteCatalog
<1>13. ASSUME NEW c \in Callers, AnchorCreated(c) PROVE CallersInv'
  BY <1>13 DEF AnchorCreated
<1>14. ASSUME NEW c \in Callers, Fails(c) PROVE CallersInv'
  BY <1>14 DEF Fails
<1>15. ASSUME NEW c \in Callers, NEW t \in Tenants, NEW b \in BOOLEAN, TenantPool(c, t, b)
      PROVE  CallersInv'
  BY <1>15 DEF TenantPool
<1>16. ASSUME NEW t \in Tenants, AnchorTenant(t) PROVE CallersInv'
  BY <1>16 DEF AnchorTenant
<1>17. ASSUME AnchorControl PROVE CallersInv'
  BY <1>17 DEF AnchorControl
<1>18. ASSUME Restart PROVE CallersInv'
  BY <1>18 DEF Restart
<1>19. CASE UNCHANGED vars
  BY <1>19 DEF vars, disk, boot, seen
<1> HIDE CatalogAssumption DEF CatalogInv, DiskInv, CallersInv, TypeOK, Calls, Catalogs,
    Entries, Steps, At, Goto, Ends,
    Tenant, Entry, disk, boot, seen, EachCaller, OneEach, Creating, Placed, Importing
<1> QED BY <1>1, <1>2, <1>3, <1>4, <1>5, <1>6, <1>7, <1>8, <1>9, <1>10, <1>11, <1>12, <1>13,
    <1>14, <1>15, <1>16, <1>17, <1>18, <1>19 DEF Next, Step

(* Creations raced, failed or dropped anywhere, imports that are refused,  *)
(* restarts on any image the disk held: no two tenants ever share a pool   *)
(* or a region, and an acknowledged tenant keeps its own, for any number   *)
(* of tenants, callers, regions and restarts (tenant_pool, create_tenant,  *)
(* validate_catalog).                                                      *)
THEOREM TenantsKeepTheirPools ==
  /\ Spec => []CatalogHolds
  /\ SumSpec => []CatalogHolds
<1>1. Init => CatalogInv
  BY CatalogAssumption DEF Init, CatalogInv, DiskInv, CallersInv, TypeOK, Catalogs,
         NoEntry, ValidCatalog, Growing, Within, OnDisk, SlotIsCatalogued, OneEach, EachCaller
<1>2. CatalogInv /\ [Next]_vars => CatalogInv'
  BY TypesStep, DiskStep, CallersStep, SlotsStep DEF CatalogInv
<1>3. CatalogInv => CatalogHolds
  <2> SUFFICES ASSUME CatalogInv PROVE CatalogHolds
    OBVIOUS
  <2> USE DEF CatalogInv, DiskInv, TypeOK, Growing, Within
  <2>1. \A cat \in recent \cup {anchored} : Within(anchored, cat) /\ Within(cat, catalog)
    OBVIOUS
  <2>2. ASSUME NEW cat \in recent \cup {anchored} PROVE ValidCatalog(cat)
    <3>1. \A t \in Tenants : cat[t] # None => catalog[t] = cat[t]
      BY <2>1
    <3> QED BY <3>1 DEF ValidCatalog
  <2>3. AcknowledgedKept
    <3>1. ASSUME NEW t \in Tenants, served[t] # None
          PROVE  \A cat \in recent \cup {anchored} : cat[t] = served[t]
      BY <2>1, <3>1
    <3>2. ASSUME NEW t \in Tenants, served[t] # None
          PROVE  catalog[t] = served[t]
      BY <3>1, <3>2
    <3> QED BY <3>1, <3>2 DEF AcknowledgedKept, OnDisk
  <2> QED BY <2>2, <2>3 DEF CatalogHolds, BootAccepts
<1>4. Spec => []CatalogHolds
  BY <1>1, <1>2, <1>3, PTL DEF Spec
<1>5. SumInit => Init
  BY DEF SumInit
<1>6. [SumNext]_Sum => [Next]_vars
  BY DEF SumNext, Sum
<1>7. SumSpec => []CatalogHolds
  BY <1>1, <1>2, <1>3, <1>5, <1>6, PTL DEF SumSpec
<1> QED BY <1>4, <1>7

-----------------------------------------------------------------------------
(* KeyPolicy.  What an enclave found fit stays fit, because the policy it  *)
(* accepted lets nobody edit it and lets nobody make a grant: Checked says *)
(* how far verify_key has got, Kept that the ciphertext is only ever kept  *)
(* under a key that passed the whole of it.                                *)

Checked ==
  /\ k_enclave \in {"policy", "grants", "trusted", "running"} => Kms!CheckKey(k_key)
  /\ k_enclave \in {"grants", "trusted", "running"} => Kms!CheckPolicy(k_policy)
  /\ k_enclave \in {"trusted", "running"} => ~k_grants
Kept == k_copy => Kms!CheckKey(k_key) /\ Kms!CheckPolicy(k_policy) /\ ~k_grants

KeyInv ==
  /\ k_policy \in SUBSET Kms!Statements
  /\ k_key \in [imported : BOOLEAN, multiRegion : BOOLEAN]
  /\ k_grants \in BOOLEAN /\ k_copy \in BOOLEAN
  /\ Checked /\ Kept

(* An action that is on neither list is nobody's under a policy that       *)
(* passed (check_statement, only_fields).                                  *)
LEMMA UnlistedRefused ==
  ASSUME k_policy \in SUBSET Kms!Statements, Kms!CheckPolicy(k_policy),
         NEW a, a \notin Kms!UNCONDITIONED \cup Kms!RELEASING, NEW att
  PROVE  ~Kms!Allowed(a, att)
BY DEF Kms!CheckPolicy, Kms!Allowed, Kms!Matches, Kms!CheckStatement, Kms!OnlyFields,
       Kms!UNCONDITIONED, Kms!RELEASING, Kms!Statements, Kms!Conditions

(* One that releases is nobody's but on our own two registers, whatever    *)
(* other conditions the statement has (pinned_to).                         *)
LEMMA ReleasedToOursOnly ==
  ASSUME k_policy \in SUBSET Kms!Statements, Kms!CheckPolicy(k_policy),
         NEW a \in Kms!RELEASING, NEW att \in Kms!Others
  PROVE  ~Kms!Allowed(a, att)
<1> SUFFICES ASSUME NEW s \in k_policy, s.effect = "Allow", Kms!Matches(s, a, att) PROVE FALSE
  BY DEF Kms!Allowed
<1>1. Kms!PinnedTo(s.conditions) /\ \A c \in s.conditions : Kms!Holds(c, att)
  BY DEF Kms!CheckPolicy, Kms!Matches, Kms!CheckStatement, Kms!OnlyFields,
         Kms!UNCONDITIONED, Kms!RELEASING, Kms!Statements, Kms!Conditions
<1>2. ASSUME NEW r \in Kms!Registers PROVE att # Kms!NoAttestation /\ att[r] = "ours"
  <2>1. PICK c \in s.conditions : Kms!Exact(c) /\ c.register = r /\ Kms!Pins(c)
    BY <1>1 DEF Kms!PinnedTo
  <2>2. Kms!Holds(c, att)
    BY <1>1
  <2> QED BY <2>1, <2>2 DEF Kms!Pins, Kms!Exact, Kms!Holds
<1>3. att = Kms!Ours
  BY <1>2 DEF Kms!Ours, Kms!Others, Kms!Attestations, Kms!Registers
<1> QED BY <1>3 DEF Kms!Others

LEMMA KeyInductive ==
  KeyInv /\ [Kms!Next]_Kms!vars => KeyInv'
<1> SUFFICES ASSUME KeyInv, [Kms!Next]_Kms!vars PROVE KeyInv'
  OBVIOUS
<1> USE DEF KeyInv, Checked, Kept
<1>1. CASE Kms!Boot
  BY <1>1 DEF Kms!Boot
<1>2. CASE Kms!VerifyKey
  BY <1>2 DEF Kms!VerifyKey, Kms!Step
<1>3. CASE Kms!Release
  BY <1>3 DEF Kms!Release
<1>4. CASE Kms!Stop
  BY <1>4 DEF Kms!Stop
<1>5. ASSUME NEW p \in Policies, Kms!PutKeyPolicy(p) PROVE KeyInv'
  <2>1. ~Kms!CheckPolicy(k_policy)
    BY <1>5, UnlistedRefused DEF Kms!PutKeyPolicy, Kms!UNCONDITIONED, Kms!RELEASING
  <2> QED BY <1>5, <2>1, FoundationAssumption DEF Kms!PutKeyPolicy, Kms!PoliciesAssumption
<1>6. CASE Kms!CreateGrant
  <2>1. ~Kms!CheckPolicy(k_policy)
    BY <1>6, UnlistedRefused DEF Kms!CreateGrant, Kms!UNCONDITIONED, Kms!RELEASING
  <2> QED BY <1>6, <2>1 DEF Kms!CreateGrant
<1>7. CASE UNCHANGED Kms!vars
  BY <1>7 DEF Kms!vars, Kms!CheckKey, Kms!CheckPolicy
<1> QED BY <1>1, <1>2, <1>3, <1>4, <1>5, <1>6, <1>7 DEF Kms!Next

(* Whatever policies the account may set, and whenever it sets them or     *)
(* makes a grant between the reads of verify_key: what is kept under a key *)
(* the enclave accepted is nobody else's.                                  *)
THEOREM NobodyElseOpens ==
  /\ Kms!Spec => []Kms!SecretStays
  /\ SumSpec => []SecretStays
<1>1. Kms!Init => KeyInv
  BY FoundationAssumption DEF Kms!Init, Kms!PoliciesAssumption, KeyInv, Checked, Kept
<1>2. KeyInv => Kms!SecretStays
  <2> SUFFICES ASSUME KeyInv PROVE Kms!SecretStays
    OBVIOUS
  <2>1. CASE ~Kms!CheckPolicy(k_policy)
    BY <2>1 DEF KeyInv, Checked, Kept, Kms!SecretStays
  <2>2. CASE Kms!CheckPolicy(k_policy)
    <3>1. ~Kms!Allowed("ReEncrypt", Kms!NoAttestation)
      BY <2>2, UnlistedRefused DEF KeyInv, Kms!UNCONDITIONED, Kms!RELEASING
    <3>2. \A att \in Kms!Others :
            ~Kms!Allowed("Decrypt", att) /\ ~Kms!Allowed("GenerateDataKey", att)
      BY <2>2, ReleasedToOursOnly DEF KeyInv, Kms!RELEASING
    <3> QED BY <3>1, <3>2 DEF KeyInv, Kept, Kms!CheckKey, Kms!SecretStays, Kms!Exposed
  <2> QED BY <2>1, <2>2
<1>3. Kms!Spec => []Kms!SecretStays
  BY <1>1, <1>2, KeyInductive, PTL DEF Kms!Spec
<1> DEFINE Part == part = "policy" => KeyInv
<1>4. SumInit => Part
  BY <1>1 DEF SumInit
<1>5. Part /\ [SumNext]_Sum => Part'
  <2> SUFFICES ASSUME KeyInv, part = "policy", part' = "policy", [SumNext]_Sum PROVE KeyInv'
    BY DEF SumNext, Sum
  <2> QED BY KeyInductive DEF SumNext, Sum, k_vars, Kms!vars
<1>6. Part => SecretStays
  BY <1>2 DEF SecretStays
<1>7. SumSpec => []SecretStays
  BY <1>4, <1>5, <1>6, PTL DEF SumSpec
<1> QED BY <1>3, <1>7

-----------------------------------------------------------------------------
(* Clock.  A call that finds the device gone is answered with what is      *)
(* stored, so LastGood rests on what is stored being no older than what    *)
(* was returned (Stored), and that on every call that returns having       *)
(* stored first, unless a slow one has stored over it.                     *)

CallRecords ==
  [at : {"idle", "reading", "storing", "failed", "returned"}, got : Nat, floor : Nat]

Stored ==
  \/ t_raced
  \/ /\ t_newest <= t_last_good
     /\ \A c \in Threads : t_call[c].at = "returned" => t_call[c].got <= t_last_good

Shown ==
  /\ t_time \in Nat /\ t_newest \in 0..t_time /\ t_last_good \in 0..t_time
  /\ t_stage = "serving" => t_last_good >= 1
  /\ t_stage # "serving" => t_time >= 1 /\ t_newest = 0 /\ t_call = [c \in Threads |-> Time!Idle]

EachCall(c) ==
  /\ t_call[c].floor <= t_newest
  /\ t_call[c].at \in {"storing", "returned"} => t_call[c].got \in 1..t_time
  /\ t_call[c].at = "storing" => t_call[c].got >= t_call[c].floor
  /\ t_call[c].at = "returned" => t_call[c].got >= t_call[c].floor \/ t_raced

ClockInv ==
  /\ t_call \in [Threads -> CallRecords]
  /\ Shown /\ Stored /\ \A c \in Threads : EachCall(c)

LEMMA ClockInductive == ClockInv /\ [Time!Next]_Time!vars => ClockInv'
<1> SUFFICES ASSUME ClockInv, [Time!Next]_Time!vars PROVE ClockInv'
  OBVIOUS
<1> USE DEF ClockInv, Stored, Shown, EachCall, CallRecords, Time!Idle, Time!seen
<1>0. t_newest \in Nat /\ t_last_good \in Nat /\ \A c \in Threads : t_call[c].got \in Nat
  OBVIOUS
<1>1. CASE Time!Tick
  BY <1>1 DEF Time!Tick
<1>2. CASE Time!DeviceChanges \/ Time!ClockCheck
  BY <1>2 DEF Time!DeviceChanges, Time!ClockCheck
<1>3. CASE Time!OpenClock
  BY <1>3 DEF Time!OpenClock
<1>4. CASE Time!NewAdapter
  BY <1>4 DEF Time!NewAdapter
<1>5. ASSUME NEW c \in Threads, Time!Call(c) PROVE ClockInv'
  <2>1. t_call' \in [Threads -> CallRecords] /\ (\A d \in Threads : d # c => t_call'[d] = t_call[d])
    BY <1>0, <1>5 DEF Time!Call, Time!At
  <2>2. ASSUME NEW d \in Threads PROVE EachCall(d)'
    BY <1>5, <2>1 DEF Time!Call, Time!At
  <2>3. Stored'
    BY <1>5, <2>1 DEF Time!Call, Time!At
  <2>4. Shown'
    BY <1>5 DEF Time!Call, Time!At
  <2> QED BY <2>1, <2>2, <2>3, <2>4
<1>6. ASSUME NEW c \in Threads, Time!Read(c) PROVE ClockInv'
  <2>1. t_call' \in [Threads -> CallRecords] /\ (\A d \in Threads : d # c => t_call'[d] = t_call[d])
    BY ZenonT(60), <1>0, <1>6 DEF Time!Read, Time!At
  <2>2. ASSUME NEW d \in Threads PROVE EachCall(d)'
    BY <1>6, <2>1 DEF Time!Read, Time!At
  <2>3. Stored'
    BY <1>6, <2>1 DEF Time!Read, Time!At
  <2>4. Shown'
    BY <1>6 DEF Time!Read, Time!At
  <2> QED BY <2>1, <2>2, <2>3, <2>4
<1>7. ASSUME NEW c \in Threads, Time!Store(c) PROVE ClockInv'
  <2>1. t_call' \in [Threads -> CallRecords] /\ (\A d \in Threads : d # c => t_call'[d] = t_call[d])
    BY <1>0, <1>7 DEF Time!Store, Time!At
  <2>2. ASSUME NEW d \in Threads PROVE EachCall(d)'
    BY ZenonT(60), <1>7, <2>1 DEF Time!Store, Time!At
  <2>3. Stored'
    <3>1. CASE t_raced \/ t_call[c].got < t_last_good
      BY <1>7, <3>1 DEF Time!Store
    <3>2. CASE ~t_raced /\ t_last_good <= t_call[c].got
      BY <1>0, <1>7, <2>1, <3>2 DEF Time!Store
    <3> QED BY <1>0, <3>1, <3>2
  <2>4. Shown'
    BY <1>7 DEF Time!Store, Time!At
  <2> QED BY <2>1, <2>2, <2>3, <2>4
<1>8. ASSUME NEW c \in Threads, Time!Stale(c) PROVE ClockInv'
  <2>1. t_call' \in [Threads -> CallRecords] /\ (\A d \in Threads : d # c => t_call'[d] = t_call[d])
    BY ZenonT(60), <1>0, <1>8 DEF Time!Stale, Time!At
  <2>2. ASSUME NEW d \in Threads PROVE EachCall(d)'
    BY <1>8, <2>1 DEF Time!Stale, Time!At
  <2>3. Stored'
    BY <1>8, <2>1 DEF Time!Stale, Time!At
  <2>4. Shown'
    BY <1>8 DEF Time!Stale, Time!At
  <2> QED BY <2>1, <2>2, <2>3, <2>4
<1>9. ASSUME NEW c \in Threads, Time!Return(c) PROVE ClockInv'
  <2>1. t_call' \in [Threads -> CallRecords] /\ (\A d \in Threads : d # c => t_call'[d] = t_call[d])
    BY <1>0, <1>9 DEF Time!Return, Time!At
  <2>2. ASSUME NEW d \in Threads PROVE EachCall(d)'
    BY <1>9, <2>1 DEF Time!Return, Time!At
  <2>3. Stored'
    BY <1>9, <2>1 DEF Time!Return, Time!At
  <2>4. Shown'
    BY <1>9 DEF Time!Return, Time!At
  <2> QED BY <2>1, <2>2, <2>3, <2>4
<1>10. CASE UNCHANGED Time!vars
  BY <1>10 DEF Time!vars
<1> QED BY <1>1, <1>2, <1>3, <1>4, <1>5, <1>6, <1>7, <1>8, <1>9, <1>10 DEF Time!Next,
    Time!Now

(* For any number of threads, however slow each is between its read and    *)
(* the lock: what now() answers is a reading, and none older than what was *)
(* returned before it was asked, unless an older one was stored last.      *)
THEOREM NowNeverBehind ==
  /\ Time!Spec => []Time!LastGood
  /\ SumSpec => []LastGood
<1>1. Time!Init => ClockInv
  BY DEF Time!Init, ClockInv, Stored, Shown, EachCall, CallRecords, Time!Idle
<1>2. ClockInv => Time!LastGood
  BY DEF ClockInv, EachCall, Time!LastGood
<1>3. Time!Spec => []Time!LastGood
  BY <1>1, <1>2, ClockInductive, PTL DEF Time!Spec
<1> DEFINE Part == part = "clock" => ClockInv
<1>4. SumInit => Part
  BY <1>1 DEF SumInit
<1>5. Part /\ [SumNext]_Sum => Part'
  <2> SUFFICES ASSUME ClockInv, part = "clock", part' = "clock", [SumNext]_Sum PROVE ClockInv'
    BY DEF SumNext, Sum
  <2> QED BY ClockInductive DEF SumNext, Sum, t_vars, Time!vars, Time!seen
<1>6. Part => LastGood
  BY <1>2 DEF LastGood
<1>7. SumSpec => []LastGood
  BY <1>4, <1>5, <1>6, PTL DEF SumSpec
<1> QED BY <1>3, <1>7

-----------------------------------------------------------------------------
(* Attested.  A document the client accepts ends in a chain of the root's, *)
(* and only a module has the key of one.  Of a module's documents, one of  *)
(* our image says what our runtime asked of it: it was made after the      *)
(* register was locked over one measurement (Measured), for the            *)
(* certificate of its own enclave (SignedByOurs).                          *)

(* A chain that verifies is one of authorities up to its last certificate, *)
(* so nobody makes one up (verify_chain).                                  *)
LEMMA MadeUpRefused ==
  ASSUME NEW authorities, Client!Root.key \in authorities,
         NEW chain, Client!Unissued(chain, authorities)
  PROVE  ~Client!VerifyChain(chain)
<1> SUFFICES ASSUME Client!VerifyChain(chain) PROVE FALSE
  OBVIOUS
<1> DEFINE foreign == {i \in 1..(Len(chain) - 1) : chain[i].key \notin authorities}
<1>1. Len(chain) \in Nat /\ Len(chain) > 1
  BY DEF Client!VerifyChain, Client!Unissued
<1>2. foreign = {}
  <2> SUFFICES ASSUME foreign # {} PROVE FALSE
    OBVIOUS
  <2>1. PICK i \in foreign : \A j \in foreign : i <= j
    <3>1. foreign \in SUBSET Nat
      BY <1>1
    <3> HIDE DEF foreign
    <3> QED BY <3>1, LeastNatural
  <2>2. i # 1
    BY <2>1 DEF Client!VerifyChain
  <2>3. i - 1 \in 1..(Len(chain) - 1) /\ i - 1 \notin foreign
    BY <1>1, <2>1, <2>2
  <2>4. chain[i].by = chain[i - 1].key /\ chain[i].ca
    BY <1>1, <2>1, <2>2 DEF Client!VerifyChain, Client!MayIssue
  <2> QED BY <1>1, <2>1, <2>3, <2>4 DEF Client!Unissued
<1>3. chain[Len(chain)].by = chain[Len(chain) - 1].key
      /\ chain[Len(chain)].issuer = chain[Len(chain) - 1].names
  BY <1>1 DEF Client!VerifyChain
<1>4. chain[Len(chain) - 1].key \in authorities
  BY <1>1, <1>2
<1> QED BY <1>1, <1>3, <1>4 DEF Client!Unissued

(* A register that is extended is a sequence of measurements still.        *)
LEMMA ExtendedIsMeasured ==
  ASSUME MaxExtends \in Nat, NEW v \in Client!Measured, Len(v) < MaxExtends,
         NEW data \in {"ours", "other"}
  PROVE  Append(v, data) \in Client!Measured
<1>1. PICK n \in 0..MaxExtends : v \in [1..n -> {"ours", "other"}]
  BY DEF Client!Measured
<1>2. v \in Seq({"ours", "other"}) /\ Len(v) = n
  BY <1>1
<1>3. Append(v, data) \in [1..(n + 1) -> {"ours", "other"}]
  <2>1. Append(v, data) \in Seq({"ours", "other"}) /\ Len(Append(v, data)) = n + 1
    BY <1>2
  <2> QED BY <2>1, LenProperties
<1>4. n + 1 \in 0..MaxExtends
  BY <1>1, <1>2
<1> QED BY <1>3, <1>4 DEF Client!Measured

Registers ==
  \A e \in Client!Names : Enclaves[e].image = "ours" =>
    /\ a_reg[e].value \in {<<>>, <<Enclaves[e].guest>>}
    /\ a_reg[e].locked => a_reg[e].value = <<Enclaves[e].guest>>

SignedByOurs ==
  \A d \in a_docs : d.pcr0 = "ours" =>
    /\ d.cert \in Client!Names /\ Enclaves[d.cert].image = "ours"
    /\ d.pcr16 = <<Enclaves[d.cert].guest>>

Unproven == {"idle", "options", "fetch"}

Course ==
  /\ a_client.step # "idle" => Client!TrustConfig(a_cli)
  /\ a_client.step \in Unproven <=> a_client.proof = None
  /\ a_client.step \in Unproven => a_client.pinned = None
  /\ a_client.step \in {"verify", "operation"} => a_client.cert = a_client.pinned

ClientInv == Client!TypeOK /\ Client!ProofIsGenuine /\ Registers /\ SignedByOurs /\ Course

LEMMA RegistersStep ==
  ASSUME ClientInv,
         NEW e \in Client!Names, Client!Measure(e)
  PROVE  ClientInv'
<1> USE FoundationAssumption DEF Client!AttestedAssumption, ClientInv, Client!TypeOK, Client!Pcr
<1>0. UNCHANGED <<a_docs, a_cli, a_client, a_nonces, a_now>>
  BY DEF Client!Measure, Client!ExtendPcr, Client!LockPcr
<1>1. a_reg' \in [Client!Names -> Client!Pcr] /\ Registers'
  <2>1. ASSUME NEW data \in {"ours", "other"},
               Enclaves[e].image = "ours" => data = Enclaves[e].guest /\ a_reg[e].value = <<>>,
               Client!ExtendPcr(e, data)
        PROVE  a_reg' \in [Client!Names -> Client!Pcr] /\ Registers'
    <3>1. Append(a_reg[e].value, data) \in Client!Measured
      BY <2>1, ExtendedIsMeasured DEF Client!ExtendPcr
    <3>2. a_reg' = [a_reg EXCEPT ![e].value = Append(a_reg[e].value, data)] /\ ~a_reg[e].locked
      BY <2>1 DEF Client!ExtendPcr
    <3>3. Append(<<>>, data) = <<data>>
      OBVIOUS
    <3> QED BY <2>1, <3>1, <3>2, <3>3 DEF Registers
  <2>2. ASSUME Enclaves[e].image = "ours" => a_reg[e].value # <<>>, Client!LockPcr(e)
        PROVE  a_reg' \in [Client!Names -> Client!Pcr] /\ Registers'
    <3>1. a_reg' = [a_reg EXCEPT ![e].locked = TRUE]
      BY <2>2 DEF Client!LockPcr
    <3>2. a_reg' \in [Client!Names -> Client!Pcr]
      BY <3>1
    <3>3. ASSUME NEW d \in Client!Names, Enclaves[d].image = "ours"
          PROVE  /\ a_reg'[d].value \in {<<>>, <<Enclaves[d].guest>>}
                 /\ a_reg'[d].locked => a_reg'[d].value = <<Enclaves[d].guest>>
      BY <2>2, <3>1, <3>3 DEF Registers
    <3> QED BY <3>2, <3>3 DEF Registers
  <2> QED BY <2>1, <2>2 DEF Client!Measure
<1> QED BY <1>0, <1>1 DEF SignedByOurs, Course, Client!ProofIsGenuine, Client!TrustConfig,
    Client!Genuine

LEMMA AttestStep ==
  ASSUME ClientInv,
         NEW e \in Client!Names, Client!Attest(e)
  PROVE  ClientInv'
<1> USE FoundationAssumption DEF Client!AttestedAssumption, ClientInv, Client!TypeOK
<1>1. PICK n \in 1..a_nonces, cert \in Client!Names \cup {Between}, guest \in {"ours", "other"} :
        /\ Enclaves[e].image = "ours" => a_reg[e].locked /\ cert = e /\ guest = Enclaves[e].guest
        /\ a_docs' = a_docs \cup {Client!Document(e, n, cert, guest)}
  BY DEF Client!Attest
<1>2. UNCHANGED <<a_reg, a_cli, a_client, a_nonces, a_now>>
  BY DEF Client!Attest
<1>3. Client!AttestedPcr(e) \in Client!Measured \cup {None}
  BY DEF Client!AttestedPcr, Client!Pcr
<1>4. Client!Document(e, n, cert, guest) \in Client!Signed
  BY <1>1, <1>3 DEF Client!Document, Client!Signed
<1>5. SignedByOurs'
  BY <1>1, <1>2 DEF SignedByOurs, Client!Document, Client!AttestedPcr, Registers
<1> QED BY <1>1, <1>2, <1>4, <1>5 DEF Registers, Course, Client!ProofIsGenuine,
    Client!TrustConfig, Client!Genuine

(* A document that is accepted was signed by the module of the enclave     *)
(* that was asked for.                                                     *)
LEMMA AcceptedIsGenuine ==
  ASSUME ClientInv,
         a_client.step # "idle", NEW doc \in a_docs \cup Client!MadeUp,
         Client!ConnectionProof(doc)
  PROVE  /\ doc \in a_docs /\ doc \in Client!Signed /\ doc # None
         /\ Client!Genuine(doc.cert) /\ doc.cert = a_client.cert
         /\ doc.pcr16 = <<"ours">> /\ doc.pcr0 = "ours"
<1> USE FoundationAssumption DEF Client!AttestedAssumption, ClientInv
<1>1. doc \in a_docs
  <2> SUFFICES ASSUME doc \in Client!MadeUp PROVE FALSE
    OBVIOUS
  <2>1. doc.chain \in Chains
    BY DEF Client!MadeUp
  <2> QED BY <2>1, MadeUpRefused DEF Client!ConnectionProof, Client!Verify
<1>2. doc.pcr0 = "ours" /\ doc.pcr16 = <<"ours">> /\ doc.cert = a_client.cert
  BY DEF Course, Client!TrustConfig, Client!ConnectionProof, Client!Expect,
    Client!ExpectPcr,
         Client!GuestRegister, Client!CheckBinding, Client!Binds
<1>3. doc.cert \in Client!Names /\ Enclaves[doc.cert].image = "ours"
      /\ Enclaves[doc.cert].guest = "ours"
  <2>1. <<Enclaves[doc.cert].guest>> = <<"ours">>
    BY <1>1, <1>2 DEF SignedByOurs
  <2> QED BY <1>1, <1>2, <2>1 DEF SignedByOurs
<1>4. Client!Genuine(doc.cert)
  BY <1>3 DEF Client!Genuine, Client!Ours
<1>5. doc \in Client!Signed
  BY <1>1 DEF Client!TypeOK
<1>6. doc # None
  BY <1>5
<1> QED BY <1>1, <1>2, <1>4, <1>5, <1>6

LEMMA ClientStep ==
  ASSUME ClientInv,
         \/ \E cert \in Client!Names \cup {Between} : Client!Request(cert) \/ Client!Fetch(cert)
         \/ \E doc \in a_docs \cup Client!MadeUp : Client!Options(doc) \/ Client!Run(doc)
         \/ Client!Answer \/ Client!Fail \/ Client!Tick
  PROVE  ClientInv'
<1> USE FoundationAssumption DEF ClientInv, Client!Idle, Unproven
<1>1. (UNCHANGED a_reg) /\ (UNCHANGED a_docs) /\ UNCHANGED a_cli
  BY DEF Client!Request, Client!Fetch, Client!Connect, Client!Options, Client!Run,
    Client!Answer,
         Client!Fail, Client!Tick
<1>2. Registers' /\ SignedByOurs'
  BY <1>1 DEF Registers, SignedByOurs
<1> DEFINE Rest == Client!TypeOK /\ Client!ProofIsGenuine /\ Course
<1>3. ASSUME NEW cert \in Client!Names \cup {Between}, Client!Request(cert) PROVE Rest'
  <2>1. a_client' = [a_client EXCEPT !.step = Client!Steps[a_client.step], !.cert = cert,
  !.nonce = a_nonces + 1]
        /\ a_client.step \in {"idle", "checked", "approved"} /\ Client!TrustConfig(a_cli)
        /\ a_nonces < MaxNonces /\ a_nonces' = a_nonces + 1 /\ a_now' = a_now
        /\ a_client.pinned \in {None, cert}
    BY <1>3 DEF Client!Request, Client!Connect, Client!Steps, Client!Pinned
  <2>2. Client!Steps[a_client.step] = IF a_client.step = "idle" THEN "options"
                             ELSE IF a_client.step = "checked" THEN "verify" ELSE "operation"
    BY <2>1 DEF Client!Steps
  <2>3. Client!TypeOK'
    <3>1. a_nonces' \in 0..MaxNonces
      BY <2>1 DEF Client!TypeOK, Client!AttestedAssumption
    <3>2. a_client' \in Client!Client
      BY <2>1, <2>2, <3>1 DEF Client!TypeOK, Client!Client
    <3> QED BY <1>1, <2>1, <3>1, <3>2 DEF Client!TypeOK
  <2>4. Client!ProofIsGenuine'
    BY <1>1, <2>1 DEF Client!TypeOK, Client!Client, Client!ProofIsGenuine, Client!Genuine
  <2>5. Course'
    BY <1>1, <2>1, <2>2 DEF Client!TypeOK, Client!Client, Course, Client!ProofIsGenuine,
      Client!Genuine, Client!TrustConfig, Client!AttestedAssumption
  <2> QED BY <2>3, <2>4, <2>5
<1>4. ASSUME NEW cert \in Client!Names \cup {Between}, Client!Fetch(cert) PROVE Rest'
  <2>1. a_client' = [a_client EXCEPT !.step = "fetch", !.cert = cert, !.nonce = a_nonces + 1]
        /\ a_client.step = "idle" /\ Client!TrustConfig(a_cli)
        /\ a_nonces < MaxNonces /\ a_nonces' = a_nonces + 1 /\ a_now' = a_now
    BY <1>4 DEF Client!Fetch, Client!Connect
  <2>3. Client!TypeOK'
    <3>1. a_nonces' \in 0..MaxNonces
      BY <2>1 DEF Client!TypeOK, Client!AttestedAssumption
    <3>2. a_client' \in Client!Client
      BY <2>1, <3>1 DEF Client!TypeOK, Client!Client
    <3> QED BY <1>1, <2>1, <3>1, <3>2 DEF Client!TypeOK
  <2>4. Client!ProofIsGenuine'
    BY <1>1, <2>1 DEF Client!TypeOK, Client!Client, Client!ProofIsGenuine, Client!Genuine
  <2>5. Course'
    BY <1>1, <2>1 DEF Client!TypeOK, Client!Client, Course, Client!TrustConfig
  <2> QED BY <2>3, <2>4, <2>5
<1>5. ASSUME NEW doc \in a_docs \cup Client!MadeUp, Client!Options(doc) \/ Client!Run(doc)
      PROVE  Rest'
  <2>1. a_nonces' = a_nonces /\ a_now' = a_now /\ a_client.step \in {"options", "fetch"}
    BY <1>5 DEF Client!Options, Client!Run
  <2>2. CASE Client!ConnectionProof(doc)
    <3>1. /\ doc \in a_docs /\ doc \in Client!Signed /\ doc # None
          /\ Client!Genuine(doc.cert) /\ doc.cert = a_client.cert
          /\ doc.pcr16 = <<"ours">> /\ doc.pcr0 = "ours"
      BY <2>1, <2>2, AcceptedIsGenuine
    <3>2. PICK step \in {"checked", "said"} :
            a_client' = [a_client EXCEPT !.step = step, !.pinned = a_client.cert, !.proof = doc]
      BY <1>5, <2>2 DEF Client!Options, Client!Run, Client!ConnectionProof
    <3>3. Client!TypeOK'
      BY <1>1, <2>1, <3>1, <3>2 DEF Client!TypeOK, Client!Client
    <3>4. Client!ProofIsGenuine'
      BY <1>1, <3>1, <3>2 DEF Client!TypeOK, Client!Client, Client!ProofIsGenuine,
        Client!Genuine
    <3>5. Course'
      BY <1>1, <2>1, <3>1, <3>2 DEF Client!TypeOK, Client!Client, Course, Client!TrustConfig
    <3> QED BY <3>3, <3>4, <3>5
  <2>3. CASE ~Client!ConnectionProof(doc)
    <3>1. a_client' = Client!Idle
      BY <1>5, <2>3 DEF Client!Options, Client!Run, Client!ConnectionProof
    <3> QED BY <1>1, <2>1, <3>1 DEF Client!TypeOK, Client!Client, Course,
        Client!ProofIsGenuine, Client!AttestedAssumption
  <2> QED BY <2>2, <2>3
<1>6. ASSUME Client!Answer \/ Client!Fail PROVE Rest'
  <2>1. a_nonces' = a_nonces /\ a_now' = a_now
    BY <1>6 DEF Client!Answer, Client!Fail
  <2>2. CASE a_client' = Client!Idle
    BY <1>1, <2>1, <2>2 DEF Client!TypeOK, Client!Client, Course, Client!ProofIsGenuine,
      Client!AttestedAssumption
  <2>3. CASE a_client.step = "verify" /\ a_client' = [a_client EXCEPT !.step = "approved"]
    BY <1>1, <2>1, <2>3 DEF Client!TypeOK, Client!Client, Course, Client!ProofIsGenuine,
      Client!Genuine, Client!TrustConfig
  <2> QED BY <1>6, <2>2, <2>3 DEF Client!Answer, Client!Fail
<1>7. CASE Client!Tick
  <2>1. a_client' = a_client /\ a_nonces' = a_nonces
    BY <1>7 DEF Client!Tick
  <2>2. a_now' \in 0..MaxNow
    BY <1>7 DEF Client!Tick, Client!TypeOK, Client!AttestedAssumption
  <2>3. Client!TypeOK'
    BY <1>1, <2>1, <2>2 DEF Client!TypeOK
  <2>4. Client!ProofIsGenuine'
    BY <1>1, <2>1 DEF Client!ProofIsGenuine, Client!Genuine
  <2>5. Course'
    BY <1>1, <2>1 DEF Course, Client!TrustConfig
  <2> QED BY <1>2, <2>3, <2>4, <2>5
<1> QED BY <1>2, <1>3, <1>4, <1>5, <1>6, <1>7

(* Whoever answers, whatever enclaves there are and whatever chains can be *)
(* made up: the client goes on only with a proof of the enclave it asked   *)
(* for, made for its own request, and sends what is secret only to who     *)
(* presents the certificate that proof names (connection_proof, request).  *)
THEOREM TalksToTheProven ==
  /\ Client!Spec => []Client!OnlyToTheProven
  /\ SumSpec => []OnlyToTheProven
<1>1. Client!Init => ClientInv
  BY FoundationAssumption DEF Client!Init, ClientInv, Client!TypeOK, Client!ProofIsGenuine, Registers,
    SignedByOurs, Course, Unproven, Client!Idle, Client!Client, Client!Pcr, Client!Measured,
    Client!AttestedAssumption
<1>2. ClientInv /\ [Client!Next]_Client!vars => ClientInv'
  <2> SUFFICES ASSUME ClientInv, [Client!Next]_Client!vars PROVE ClientInv'
    OBVIOUS
  <2>1. CASE UNCHANGED Client!vars
    BY <2>1 DEF ClientInv, Client!vars, Client!TypeOK, Client!ProofIsGenuine, Registers,
      SignedByOurs, Course, Client!Genuine, Client!TrustConfig
  <2> QED BY <2>1, RegistersStep, AttestStep, ClientStep DEF Client!Next
<1>3. ClientInv => Client!OnlyToTheProven
  BY DEF ClientInv, Course, Unproven, Client!OnlyToTheProven, Client!PinHolds,
    Client!ProofIsGenuine
<1>4. Client!Spec => []Client!OnlyToTheProven
  BY <1>1, <1>2, <1>3, PTL DEF Client!Spec
<1> DEFINE Part == part = "client" => ClientInv
<1>5. SumInit => Part
  BY <1>1 DEF SumInit
<1>6. Part /\ [SumNext]_Sum => Part'
  <2> SUFFICES ASSUME ClientInv, part = "client", part' = "client", [SumNext]_Sum
               PROVE  ClientInv'
    BY DEF SumNext, Sum
  <2> QED BY <1>2 DEF SumNext, Sum, a_vars, Client!vars
<1>7. Part => OnlyToTheProven
  BY <1>3 DEF OnlyToTheProven
<1>8. SumSpec => []OnlyToTheProven
  BY <1>5, <1>6, <1>7, PTL DEF SumSpec
<1> QED BY <1>4, <1>8

-----------------------------------------------------------------------------
(* Settings, for any services, ports and environment.  What SettingsHold   *)
(* says of an enclave that serves was decided a step at a time: each part  *)
(* of the invariant says what a step has established, from that step on.   *)

AfterHost == {"gate", "notify", "serving"}
AfterBoot == AfterHost \cup {"host"}
AfterKeys == AfterBoot \cup {"boot"}
AfterCosign == AfterKeys \cup {"keys"}
AfterEntropy == AfterCosign \cup {"cosign"}
AfterClock == AfterEntropy \cup {"entropy"}

Read == Start!Given \cup {"unread"}

SettingsTyped ==
  /\ s_build \in {"production", "testing"}
  /\ s_at \in AfterClock \cup {"clock", "done", "refused"}
  /\ s_cli \in [kms_key_id : Read, parameter : Read, rp_id : Read, origins : Read,
                push_app : Read]
  /\ s_testing \in Start!Testing
  /\ s_runs \in [clock : {"none", "ptp", "host"}, random : {"none", "nsm", "host"},
                 signer : {"none", "nsm", "host", "minted"}, keys : {"none", "kms", "static"},
                 receipts : {"none", "required", "unsigned"},
                 closed : SUBSET {Start!PortOf(u) : u \in Start!Url}, host : BOOLEAN,
                 gate : BOOLEAN, push : {"off", "stub", "role"}]

(* A production binary is sealed as far as run() has got.                  *)
SealedSoFar ==
  s_build = "production" =>
    /\ s_testing = Start!Production /\ ~s_runs.host /\ s_runs.push # "stub"
    /\ s_at \in AfterClock => s_runs.clock = "ptp"
    /\ s_at \in AfterEntropy => s_runs.random = "nsm"
    /\ s_at \in AfterCosign => s_runs.signer = "nsm"
    /\ s_at \in AfterKeys => s_runs.keys = "kms"
    /\ s_at \in AfterBoot => s_runs.receipts = "required"

(* What was given is what is run with, as far as it has been read.         *)
HeededSoFar ==
  /\ s_at \in AfterKeys =>
       /\ s_runs.keys # "none"
       /\ Start!KeySource(s_runs.keys, s_testing.master_key, s_cli.kms_key_id, s_cli.parameter)
  /\ s_at \in AfterHost => \A s \in Services :
       Start!IsSome(s_testing.urls[s].given) => Start!PortOf(s_testing.urls[s]) \in s_runs.closed
  /\ s_at \in {"notify", "serving"} => Start!Gate(s_cli.rp_id, s_cli.origins)
                                       /\ s_runs.gate = Start!Nonempty(s_cli.rp_id)
  /\ s_at = "serving" /\ Start!Nonempty(s_testing.urls[PushService].given) =>
       s_runs.push = "stub"

StartInv == SettingsTyped /\ SealedSoFar /\ HeededSoFar

LEMMA ProductionIs ==
  /\ Start!Production \in Start!Testing
  /\ \A s \in Services : Start!Production.urls[s].given = "unset"
  /\ Start!Production.clock = "ptp" /\ Start!Production.random = "nsm"
  /\ Start!Production.cosign = FALSE /\ Start!Production.receipts = "required"
  /\ Start!Production.keys = "kms" /\ Start!Production.master_key = "unset"
<1>1. /\ Start!Production \in Start!Testing
      /\ \A s \in Services : Start!Production.urls[s].given = "unset"
  BY DEF Start!Production, Start!Testing, Start!Given, Start!Url, Start!NoUrl
<1>2. /\ Start!Production.clock = "ptp" /\ Start!Production.random = "nsm"
      /\ Start!Production.receipts = "required"
      /\ Start!Production.keys = "kms" /\ Start!Production.master_key = "unset"
  BY DEF Start!Production
<1>3. Start!Production.cosign = FALSE
  BY DEF Start!Production
<1> QED BY <1>1, <1>2, <1>3

(* A setting that is what it was leaves the settings as they were.         *)
LEMMA SameSetting ==
  ASSUME NEW r \in Start!Testing
  PROVE  /\ [r EXCEPT !.clock = r.clock] = r /\ [r EXCEPT !.random = r.random] = r
         /\ [r EXCEPT !.cosign = r.cosign] = r /\ [r EXCEPT !.receipts = r.receipts] = r
         /\ [r EXCEPT !.keys = r.keys, !.master_key = r.master_key] = r
<1>1. [r EXCEPT !.clock = r.clock] = r /\ [r EXCEPT !.random = r.random] = r
  BY DEF Start!Testing
<1>2. [r EXCEPT !.cosign = r.cosign] = r
  BY DEF Start!Testing
<1>3. [r EXCEPT !.receipts = r.receipts] = r
  BY DEF Start!Testing
<1>4. [r EXCEPT !.keys = r.keys, !.master_key = r.master_key] = r
  BY DEF Start!Testing
<1> QED BY <1>1, <1>2, <1>3, <1>4

LEMMA StartInit == Start!Init => StartInv
<1> SUFFICES ASSUME Start!Init PROVE StartInv
  OBVIOUS
<1>1. PICK u \in [Services -> Start!Url] :
        s_testing = [Start!Production EXCEPT
                       !.urls = [s \in Services |-> Start!Parsed("urls", u)[s]]]
  BY DEF Start!Init
<1>2. [s \in Services |-> Start!Parsed("urls", u)[s]] \in [Services -> Start!Url]
  BY ProductionIs DEF Start!Parsed, Start!Production, Start!Url
<1>3. s_testing \in Start!Testing
  BY <1>1, <1>2, ProductionIs DEF Start!Testing
<1>4. s_build = "production" => s_testing = Start!Production
  BY <1>1 DEF Start!Parsed, Start!Production
<1> QED BY <1>3, <1>4 DEF Start!Init, StartInv, SettingsTyped, SealedSoFar, HeededSoFar, Read,
      AfterHost, AfterBoot, AfterKeys, AfterCosign, AfterEntropy, AfterClock

(* What a testing binary was given, and what a production one puts in its  *)
(* place, are of the same kind.                                            *)
LEMMA ParsedIs ==
  ASSUME NEW v
  PROVE  /\ s_build = "testing" => \A f : Start!Parsed(f, v) = v
         /\ s_build = "production" => \A f : Start!Parsed(f, v) = Start!Production[f]
BY DEF Start!Parsed

LEMMA OpenStep ==
  ASSUME StartInv, Start!OpenClock \/ Start!OpenEntropy
  PROVE  StartInv'
<1>1. CASE Start!OpenClock
  <2>1. PICK v \in {"ptp", "auto", "host"}, opens \in BOOLEAN :
          LET c == Start!Opened(Start!Parsed("clock", v), "ptp", opens) IN
            /\ Start!Keep("clock", v)
            /\ s_runs' = [s_runs EXCEPT !.clock = c]
            /\ s_at' = IF c = "none" THEN "refused" ELSE "entropy"
    BY <1>1 DEF Start!OpenClock
  <2>2. PICK a \in {"ptp", "auto", "host"} :
          /\ a = Start!Parsed("clock", v)
          /\ s_build = "production" => a = "ptp"
    BY ParsedIs DEF StartInv, SettingsTyped, Start!Production
  <2>3. PICK c \in {"none", "ptp", "host"} :
          c = Start!Opened(a, "ptp", opens) /\ (a = "ptp" => c \in {"none", "ptp"})
    BY DEF Start!Opened
  <2>4. /\ s_at = "clock" /\ s_build' = s_build /\ s_cli' = s_cli
        /\ s_testing' = [s_testing EXCEPT !.clock = a] /\ s_runs' = [s_runs EXCEPT !.clock = c]
        /\ s_at' = IF c = "none" THEN "refused" ELSE "entropy"
    BY <1>1, <2>1, <2>2, <2>3 DEF Start!OpenClock, Start!Keep
  <2>5. SettingsTyped'
    BY <2>3, <2>4 DEF StartInv, SettingsTyped, Start!Testing, AfterClock
  <2>6. SealedSoFar'
    <3>1. s_build = "production" => s_testing' = Start!Production
      BY <2>2, <2>4, ProductionIs, SameSetting DEF StartInv, SealedSoFar
    <3> QED BY <2>3, <2>4, <2>2, <3>1 DEF StartInv, SettingsTyped, SealedSoFar,
          AfterHost, AfterBoot, AfterKeys, AfterCosign, AfterEntropy, AfterClock
  <2> QED BY <2>4, <2>5, <2>6 DEF StartInv, HeededSoFar, AfterHost, AfterBoot, AfterKeys
<1>2. CASE Start!OpenEntropy
  <2>1. PICK v \in {"nsm", "auto", "host"}, opens \in BOOLEAN :
          LET r == Start!Opened(Start!Parsed("random", v), "nsm", opens) IN
            /\ Start!Keep("random", v)
            /\ s_runs' = [s_runs EXCEPT !.random = r]
            /\ s_at' = IF r = "none" THEN "refused" ELSE "cosign"
    BY <1>2 DEF Start!OpenEntropy
  <2>2. PICK a \in {"nsm", "auto", "host"} :
          /\ a = Start!Parsed("random", v)
          /\ s_build = "production" => a = "nsm"
    BY ParsedIs DEF StartInv, SettingsTyped, Start!Production
  <2>3. PICK r \in {"none", "nsm", "host"} :
          r = Start!Opened(a, "nsm", opens) /\ (a = "nsm" => r \in {"none", "nsm"})
    BY DEF Start!Opened
  <2>4. /\ s_at = "entropy" /\ s_build' = s_build /\ s_cli' = s_cli
        /\ s_testing' = [s_testing EXCEPT !.random = a] /\ s_runs' = [s_runs EXCEPT !.random = r]
        /\ s_at' = IF r = "none" THEN "refused" ELSE "cosign"
    BY <1>2, <2>1, <2>2, <2>3 DEF Start!OpenEntropy, Start!Keep
  <2>5. SettingsTyped'
    BY <2>3, <2>4 DEF StartInv, SettingsTyped, Start!Testing, AfterClock, AfterEntropy
  <2>6. SealedSoFar'
    <3>1. s_build = "production" => s_testing' = Start!Production
      BY <2>2, <2>4, ProductionIs, SameSetting DEF StartInv, SealedSoFar
    <3> QED BY <2>3, <2>4, <2>2, <3>1 DEF StartInv, SettingsTyped, SealedSoFar,
          AfterHost, AfterBoot, AfterKeys, AfterCosign, AfterEntropy, AfterClock
  <2> QED BY <2>4, <2>5, <2>6 DEF StartInv, HeededSoFar, AfterHost, AfterBoot, AfterKeys
<1> QED BY <1>1, <1>2

LEMMA CosignStep ==
  ASSUME StartInv, Start!Cosign
  PROVE  StartInv'
<1>1. PICK v \in BOOLEAN :
        /\ Start!Keep("cosign", v)
        /\ s_runs' = [s_runs EXCEPT !.signer =
                        IF s_build = "testing" /\ v THEN "minted" ELSE s_runs.random]
  BY DEF Start!Cosign
<1>2. PICK a \in BOOLEAN : a = Start!Parsed("cosign", v) /\ (s_build = "production" => a = FALSE)
  <2>1. CASE s_build = "production"
    BY <2>1, ProductionIs, ParsedIs
  <2>2. CASE s_build = "testing"
    BY <2>2, ParsedIs
  <2> QED BY <2>1, <2>2 DEF StartInv, SettingsTyped
<1>3. /\ s_at = "cosign" /\ s_at' \in {"keys", "done"} /\ s_build' = s_build /\ s_cli' = s_cli
      /\ s_testing' = [s_testing EXCEPT !.cosign = a]
  BY <1>1, <1>2 DEF Start!Cosign, Start!Goto, Start!Keep
<1>4. SettingsTyped'
  BY <1>1, <1>3 DEF StartInv, SettingsTyped, Start!Testing, AfterClock, AfterEntropy, AfterCosign
<1>5. SealedSoFar'
  <2>1. s_build = "production" => s_testing' = Start!Production
    BY <1>2, <1>3, ProductionIs, SameSetting DEF StartInv, SealedSoFar
  <2> QED BY <1>1, <1>3, <2>1 DEF StartInv, SettingsTyped, SealedSoFar,
        AfterHost, AfterBoot, AfterKeys, AfterCosign, AfterEntropy, AfterClock
<1> QED BY <1>3, <1>4, <1>5 DEF StartInv, HeededSoFar, AfterHost, AfterBoot, AfterKeys

LEMMA KeysStep ==
  ASSUME StartInv, Start!OpenKeySource
  PROVE  StartInv'
<1>1. PICK kind \in {"kms", "static"}, mk \in Start!Given, id \in Start!Given, p \in Start!Given :
        LET k == Start!Parsed("keys", kind)   m == Start!Parsed("master_key", mk) IN
          /\ s_testing' = [s_testing EXCEPT !.keys = k, !.master_key = m]
          /\ s_cli' = [s_cli EXCEPT !.kms_key_id = id, !.parameter = p]
          /\ s_runs' = [s_runs EXCEPT !.keys = k]
          /\ s_at' = IF Start!KeySource(k, m, id, p) THEN "boot" ELSE "refused"
  BY DEF Start!OpenKeySource
<1>2. PICK k \in {"kms", "static"} :
        k = Start!Parsed("keys", kind) /\ (s_build = "production" => k = "kms")
  BY ParsedIs DEF StartInv, SettingsTyped, Start!Production
<1>3. PICK m \in Start!Given :
        m = Start!Parsed("master_key", mk) /\ (s_build = "production" => m = "unset")
  BY ParsedIs DEF StartInv, SettingsTyped, Start!Production, Start!Given
<1>4. /\ s_at = "keys" /\ s_build' = s_build
      /\ s_testing' = [s_testing EXCEPT !.keys = k, !.master_key = m]
      /\ s_cli' = [s_cli EXCEPT !.kms_key_id = id, !.parameter = p]
      /\ s_runs' = [s_runs EXCEPT !.keys = k]
      /\ s_at' = IF Start!KeySource(k, m, id, p) THEN "boot" ELSE "refused"
  BY <1>1, <1>2, <1>3 DEF Start!OpenKeySource
<1>5. SettingsTyped'
  BY <1>4 DEF StartInv, SettingsTyped, Start!Testing, Read, AfterClock, AfterEntropy, AfterCosign,
    AfterKeys
<1>6. SealedSoFar'
  <2>1. ASSUME s_build = "production" PROVE s_testing' = Start!Production
    <3>1. s_testing = Start!Production /\ k = "kms" /\ m = "unset"
      BY <1>2, <1>3, <2>1 DEF StartInv, SealedSoFar
    <3>2. s_testing.keys = "kms" /\ s_testing.master_key = "unset"
      BY <3>1, ProductionIs
    <3>3. s_testing \in Start!Testing
      BY <3>1, ProductionIs
    <3>4. [s_testing EXCEPT !.keys = s_testing.keys, !.master_key = s_testing.master_key]
            = s_testing
      BY <3>3, SameSetting
    <3>5. [s_testing EXCEPT !.keys = k, !.master_key = m] = s_testing
      BY <3>1, <3>2, <3>4, Zenon
    <3> QED BY <1>4, <3>1, <3>5
  <2> QED BY <1>2, <1>4, <2>1 DEF StartInv, SettingsTyped, SealedSoFar,
        AfterHost, AfterBoot, AfterKeys, AfterCosign, AfterEntropy, AfterClock
<1>7. s_at' = "boot" =>
        /\ s_runs'.keys # "none"
        /\ Start!KeySource(s_runs.keys, s_testing.master_key, s_cli.kms_key_id, s_cli.parameter)'
  BY <1>4 DEF StartInv, SettingsTyped, Start!Testing, Start!KeySource, Start!IsSome
<1> QED BY <1>4, <1>5, <1>6, <1>7 DEF StartInv, HeededSoFar, AfterHost, AfterBoot, AfterKeys

LEMMA BootStep ==
  ASSUME StartInv, Start!Boot
  PROVE  StartInv'
<1>1. PICK v \in {"required", "unsigned"} :
        /\ Start!Keep("receipts", v)
        /\ s_runs' = [s_runs EXCEPT !.receipts = Start!Parsed("receipts", v)]
  BY DEF Start!Boot
<1>2. PICK a \in {"required", "unsigned"} :
        a = Start!Parsed("receipts", v) /\ (s_build = "production" => a = "required")
  BY ParsedIs DEF StartInv, SettingsTyped, Start!Production
<1>3. /\ s_at = "boot" /\ s_at' \in {"refused", "host"} /\ s_build' = s_build /\ s_cli' = s_cli
      /\ s_testing' = [s_testing EXCEPT !.receipts = a]
      /\ s_runs' = [s_runs EXCEPT !.receipts = a]
  BY <1>1, <1>2 DEF Start!Boot, Start!Keep
<1>4. SettingsTyped'
  BY <1>3 DEF StartInv, SettingsTyped, Start!Testing, AfterClock, AfterEntropy, AfterCosign,
    AfterKeys, AfterBoot
<1>5. SealedSoFar'
  <2>1. s_build = "production" => s_testing' = Start!Production
    BY <1>2, <1>3, ProductionIs, SameSetting DEF StartInv, SealedSoFar
  <2> QED BY <1>2, <1>3, <2>1 DEF StartInv, SettingsTyped, SealedSoFar,
        AfterHost, AfterBoot, AfterKeys, AfterCosign, AfterEntropy, AfterClock
<1>6. /\ s_runs'.keys # "none"
      /\ Start!KeySource(s_runs.keys, s_testing.master_key, s_cli.kms_key_id, s_cli.parameter)'
  BY <1>3 DEF StartInv, SettingsTyped, HeededSoFar, Start!Testing, Start!KeySource, Start!IsSome,
    AfterKeys
<1> QED BY <1>3, <1>4, <1>5, <1>6 DEF StartInv, HeededSoFar, AfterHost

(* The ports of the runtime's own services are closed, whichever way their *)
(* URLs name them.                                                         *)
LEMMA HostStep ==
  ASSUME StartInv, Start!OpenDevHost
  PROVE  StartInv'
<1> DEFINE given == {s \in Services : Start!IsSome(s_testing.urls[s].given)}
           ports == {Start!PortOf(s_testing.urls[s]) : s \in given}
<1>1. /\ s_at = "host" /\ s_build' = s_build /\ s_cli' = s_cli /\ s_testing' = s_testing
      /\ \/ s_at' = "refused" /\ s_runs' = s_runs
         \/ /\ s_at' = "gate"
            /\ s_runs' = [s_runs EXCEPT !.host = (s_build = "testing"), !.closed = ports]
  BY DEF Start!OpenDevHost
<1>2. ports \in SUBSET {Start!PortOf(u) : u \in Start!Url}
  BY DEF StartInv, SettingsTyped, Start!Testing
<1> HIDE DEF ports
<1>3. CASE s_at' = "refused" /\ s_runs' = s_runs
  BY <1>1, <1>3 DEF StartInv, SettingsTyped, SealedSoFar, HeededSoFar,
    AfterHost, AfterBoot, AfterKeys, AfterCosign, AfterEntropy, AfterClock
<1>4. CASE /\ s_at' = "gate"
           /\ s_runs' = [s_runs EXCEPT !.host = (s_build = "testing"), !.closed = ports]
  <2>1. SettingsTyped'
    BY <1>1, <1>2, <1>4 DEF StartInv, SettingsTyped, AfterHost, AfterBoot, AfterKeys,
      AfterCosign, AfterEntropy, AfterClock
  <2>2. SealedSoFar'
    BY <1>1, <1>4 DEF StartInv, SettingsTyped, SealedSoFar, AfterHost, AfterBoot, AfterKeys,
      AfterCosign, AfterEntropy, AfterClock
  <2>3. /\ s_runs'.closed = ports /\ s_runs'.keys = s_runs.keys
    BY <1>4 DEF StartInv, SettingsTyped
  <2>4. /\ s_runs'.keys # "none"
        /\ Start!KeySource(s_runs.keys, s_testing.master_key, s_cli.kms_key_id, s_cli.parameter)'
    BY <1>1, <2>3 DEF StartInv, HeededSoFar, AfterKeys, AfterBoot, Start!KeySource, Start!IsSome
  <2>5. \A s \in Services : Start!IsSome(s_testing'.urls[s].given) =>
          Start!PortOf(s_testing'.urls[s]) \in s_runs'.closed
    BY <1>1, <2>3 DEF ports
  <2> QED BY <1>4, <2>1, <2>2, <2>4, <2>5 DEF StartInv, HeededSoFar, Start!IsSome, Start!PortOf
<1> QED BY <1>1, <1>3, <1>4

LEMMA ClientsStep ==
  ASSUME StartInv, Start!Authentication \/ Start!Notify
  PROVE  StartInv'
<1>1. /\ s_build' = s_build /\ s_testing' = s_testing
  BY DEF Start!Authentication, Start!Notify
<1>2. CASE Start!Authentication
  <2>1. PICK rp \in Start!Given, o \in Start!Given :
          /\ s_cli' = [s_cli EXCEPT !.rp_id = rp, !.origins = o]
          /\ s_runs' = [s_runs EXCEPT !.gate = Start!Nonempty(rp)]
          /\ s_at' = IF Start!Gate(rp, o) THEN "notify" ELSE "refused"
    BY <1>2 DEF Start!Authentication
  <2>2. s_at = "gate"
    BY <1>2 DEF Start!Authentication
  <2>3. SettingsTyped'
    BY <1>1, <2>1 DEF StartInv, SettingsTyped, Read, Start!Nonempty, AfterHost, AfterBoot,
      AfterKeys, AfterCosign, AfterEntropy, AfterClock
  <2>4. SealedSoFar'
    BY <1>1, <2>1, <2>2 DEF StartInv, SettingsTyped, SealedSoFar, AfterHost, AfterBoot,
      AfterKeys, AfterCosign, AfterEntropy, AfterClock
  <2>5. HeededSoFar'
    BY <1>1, <2>1, <2>2 DEF StartInv, SettingsTyped, HeededSoFar, AfterHost, AfterBoot,
      AfterKeys, Start!KeySource, Start!IsSome, Start!PortOf, Start!Gate, Start!Nonempty
  <2> QED BY <2>3, <2>4, <2>5 DEF StartInv
<1>3. CASE Start!Notify
  <2>1. PICK app \in Start!Given :
          /\ s_cli' = [s_cli EXCEPT !.push_app = app]
          /\ s_runs' = [s_runs EXCEPT !.push =
                CASE ~Start!Nonempty(app) -> "off"
                  [] /\ Start!Nonempty(app)
                     /\ Start!Nonempty(s_testing.urls[PushService].given) -> "stub"
                  [] OTHER -> "role"]
          /\ s_at' = IF Start!Nonempty(s_testing.urls[PushService].given) /\ ~Start!Nonempty(app)
                     THEN "refused" ELSE "serving"
    BY <1>3 DEF Start!Notify
  <2>2. s_at = "notify"
    BY <1>3 DEF Start!Notify
  <2>3. PICK url : url = s_testing.urls[PushService].given
    OBVIOUS
  <2>4. PICK push \in {"off", "stub", "role"} :
          /\ s_runs' = [s_runs EXCEPT !.push = push]
          /\ push = "stub" => Start!Nonempty(url)
          /\ Start!Nonempty(url) /\ Start!Nonempty(app) => push = "stub"
    BY <2>1, <2>3
  <2>5. s_build = "production" => ~Start!Nonempty(url)
    BY <2>3, ProductionIs, FoundationAssumption DEF StartInv, SealedSoFar, Start!Nonempty,
      Start!SettingsAssumption
  <2>6. SettingsTyped'
    BY <1>1, <2>1, <2>4 DEF StartInv, SettingsTyped, Read, AfterHost, AfterBoot,
      AfterKeys, AfterCosign, AfterEntropy, AfterClock
  <2>7. SealedSoFar'
    BY <1>1, <2>1, <2>2, <2>4, <2>5 DEF StartInv, SettingsTyped, SealedSoFar, AfterHost,
      AfterBoot, AfterKeys, AfterCosign, AfterEntropy, AfterClock
  <2>8. HeededSoFar'
    <3>1. s_at' = "serving" /\ Start!Nonempty(s_testing'.urls[PushService].given) =>
            s_runs'.push = "stub"
      BY <1>1, <2>1, <2>3, <2>4 DEF StartInv, SettingsTyped
    <3> QED BY <1>1, <2>1, <2>2, <2>4, <3>1 DEF StartInv, SettingsTyped, HeededSoFar, AfterHost,
          AfterBoot, AfterKeys, Start!KeySource, Start!IsSome, Start!PortOf, Start!Gate,
          Start!Nonempty
  <2> QED BY <2>6, <2>7, <2>8 DEF StartInv
<1> QED BY <1>2, <1>3

(* Whatever the environment of the process says, whichever services it     *)
(* moves and wherever: no enclave serves unsealed in production, with a    *)
(* port of the runtime's own open to its guests, or on a setting it was    *)
(* given and dropped (run, Testing, open_dev_host).                        *)
THEOREM SettingsAreHeeded ==
  /\ Start!Spec => []Start!SettingsHold
  /\ SumSpec => []SettingsHold
<1>1. StartInv /\ [Start!Next]_Start!vars => StartInv'
  <2> SUFFICES ASSUME StartInv, [Start!Next]_Start!vars PROVE StartInv'
    OBVIOUS
  <2>1. CASE UNCHANGED Start!vars
    BY <2>1 DEF Start!vars, StartInv, SettingsTyped, SealedSoFar, HeededSoFar, Start!KeySource,
      Start!IsSome, Start!PortOf, Start!Gate, Start!Nonempty
  <2> QED BY <2>1, OpenStep, CosignStep, KeysStep, BootStep, HostStep, ClientsStep DEF Start!Next
<1>2. StartInv => Start!SettingsHold
  <2> SUFFICES ASSUME StartInv PROVE Start!SettingsHold
    OBVIOUS
  <2>1. Start!ProductionIsSealed
    BY DEF StartInv, SealedSoFar, Start!ProductionIsSealed, AfterHost, AfterBoot, AfterKeys,
      AfterCosign, AfterEntropy, AfterClock
  <2>2. Start!OwnServicesClosed
    <3> SUFFICES ASSUME s_at = "serving", NEW s \in Services,
                        Start!Nonempty(s_testing.urls[s].given)
                 PROVE  \E p \in s_runs.closed :
                          p = CASE s_testing.urls[s].port # 0 -> s_testing.urls[s].port
                                [] /\ s_testing.urls[s].port = 0
                                   /\ s_testing.urls[s].scheme = "http" -> 80
                                [] OTHER -> 443
      BY DEF Start!OwnServicesClosed
    <3>1. PICK url \in Start!Url : url = s_testing.urls[s]
      BY DEF StartInv, SettingsTyped, Start!Testing
    <3>2. Start!PortOf(url) \in s_runs.closed
      BY <3>1 DEF StartInv, HeededSoFar, AfterHost, Start!IsSome, Start!Nonempty
    <3>3. url.scheme \in {"http", "https"}
      BY DEF Start!Url, Start!NoUrl
    <3>4. Start!PortOf(url) = CASE url.port # 0 -> url.port
                                [] url.port = 0 /\ url.scheme = "http" -> 80
                                [] OTHER -> 443
      <4>1. CASE url.port # 0
        BY <3>3, <4>1 DEF Start!PortOf
      <4>2. CASE url.port = 0 /\ url.scheme = "http"
        BY <4>2 DEF Start!PortOf
      <4>3. CASE url.port = 0 /\ url.scheme = "https"
        BY <4>3 DEF Start!PortOf
      <4> QED BY <3>3, <4>1, <4>2, <4>3
    <3> QED BY <3>1, <3>2, <3>4
  <2>3. Start!NothingDropped
    <3> SUFFICES ASSUME s_at = "serving"
                 PROVE  /\ Start!IsSome(s_testing.master_key) => s_runs.keys = "static"
                        /\ Start!IsSome(s_cli.kms_key_id) \/ Start!IsSome(s_cli.parameter) =>
                             s_runs.keys = "kms"
                        /\ Start!Nonempty(s_cli.origins) => s_runs.gate
                        /\ Start!Nonempty(s_testing.urls[PushService].given) =>
                             s_runs.push = "stub"
      BY DEF Start!NothingDropped
    <3>1. s_runs.keys \in {"kms", "static"}
      BY DEF StartInv, SettingsTyped, HeededSoFar, AfterHost, AfterBoot, AfterKeys
    <3>2. Start!KeySource(s_runs.keys, s_testing.master_key, s_cli.kms_key_id, s_cli.parameter)
      BY DEF StartInv, HeededSoFar, AfterHost, AfterBoot, AfterKeys
    <3>3. Start!IsSome(s_testing.master_key) => s_runs.keys = "static"
      BY <3>2 DEF Start!KeySource
    <3>4. Start!Nonempty(s_cli.origins) => s_runs.gate
      BY DEF StartInv, HeededSoFar, Start!Gate
    <3>5. Start!IsSome(s_cli.kms_key_id) \/ Start!IsSome(s_cli.parameter) => s_runs.keys = "kms"
      BY <3>1, <3>2 DEF Start!KeySource, Start!IsSome
    <3>6. Start!Nonempty(s_testing.urls[PushService].given) => s_runs.push = "stub"
      BY DEF StartInv, HeededSoFar
    <3> QED BY <3>3, <3>4, <3>5, <3>6
  <2> QED BY <2>1, <2>2, <2>3 DEF Start!SettingsHold
<1>3. Start!Spec => []Start!SettingsHold
  BY StartInit, <1>1, <1>2, PTL DEF Start!Spec
<1> DEFINE Part == part = "settings" => StartInv
<1>4. SumInit => Part
  BY StartInit DEF SumInit
<1>5. Part /\ [SumNext]_Sum => Part'
  <2> SUFFICES ASSUME StartInv, part = "settings", part' = "settings", [SumNext]_Sum
               PROVE  StartInv'
    BY DEF SumNext, Sum
  <2> QED BY <1>1 DEF SumNext, Sum, s_vars, Start!vars
<1>6. Part => SettingsHold
  BY <1>2 DEF SettingsHold
<1>7. SumSpec => []SettingsHold
  BY <1>4, <1>5, <1>6, PTL DEF SumSpec
<1> QED BY <1>3, <1>7

-----------------------------------------------------------------------------
(* MemoryStore, for any keys, folder, length of a page and calls.  What a  *)
(* key reads as and what it retains follow from how its object, its marker *)
(* and what was set aside relate (KeyInv).  A listing is right because its *)
(* token splits the keys: those up to it that were there all along have    *)
(* been named, none past it has (ListInv).                                 *)

LEMMA MemoryAssumed ==
  /\ StoreKeys \subseteq Nat \ {0} /\ IsFiniteSet(StoreKeys)
  /\ Folder \subseteq StoreKeys
  /\ \A i, k \in Folder, j \in StoreKeys : i < j /\ j < k => j \in Folder
  /\ PageSize \in Nat /\ MaxWrites \in Nat
  /\ None \notin Mem!Blobs /\ None \notin Nat
<1>1. Mem!IsFiniteSet(StoreKeys) <=> IsFiniteSet(StoreKeys)
  BY Zenon DEF Mem!IsFiniteSet, IsFiniteSet
<1> QED BY <1>1, FoundationAssumption DEF Mem!MemoryAssumption

(* MemoryStore counts as this module does. *)
LEMMA MemoryCounts ==
  ASSUME NEW S
  PROVE  Mem!Cardinality(S) = Cardinality(S)
BY Zenon DEF Mem!Cardinality, Cardinality, Mem!IsFiniteSet, IsFiniteSet

BlobInv(k) ==
  /\ k \in m_markers => Mem!IsRetained(k)
  /\ Mem!Current(k) = Mem!Newest(k)
  /\ m_retained[k] # None => m_first[k] = m_retained[k].body
  /\ m_retained[k] = None /\ Mem!IsRetained(k) => m_first[k] = m_objects[k].body
  /\ m_first[k] # None => m_retained[k] # None \/ Mem!IsRetained(k)
  /\ Mem!IsRetained(k) => m_first[k] # None

ListInv == m_listing # None =>
  /\ m_listing.stable \subseteq Mem!Visible
  /\ \A k \in StoreKeys : /\ m_listing.found[k] <= 1
                          /\ m_listing.found[k] = 1 => k <= m_listing.after
  /\ \A k \in m_listing.stable : k <= m_listing.after =>
       IF k \in Folder THEN m_listing.folder ELSE m_listing.found[k] = 1
  /\ ~m_listing.more => \A k \in m_listing.stable : k <= m_listing.after

MemInv == Mem!TypeOK /\ (\A k \in StoreKeys : BlobInv(k)) /\ ListInv

LEMMA MemInit == Mem!Init => MemInv
<1> SUFFICES ASSUME Mem!Init PROVE MemInv
  OBVIOUS
<1>1. Mem!TypeOK
  <2>1. Mem!NoObjects \in Mem!State /\ m_first \in [StoreKeys -> 1..MaxWrites \cup {None}]
    BY DEF Mem!Init, Mem!NoObjects, Mem!State
  <2>2. m_bucket \in [StoreKeys -> Seq(Mem!Blobs \cup {Mem!Marker})]
    BY DEF Mem!Init
  <2>3. m_objects \in Mem!State /\ m_retained \in Mem!State
    BY <2>1 DEF Mem!Init
  <2>4. m_calls \in 0..MaxWrites
    BY MemoryAssumed DEF Mem!Init
  <2>5. /\ m_markers \subseteq StoreKeys /\ m_upload \in Mem!ActiveMpu \cup {None}
        /\ m_failNext \in BOOLEAN /\ m_listing \in Mem!Listing \cup {None}
    BY DEF Mem!Init
  <2> QED BY <2>1, <2>2, <2>3, <2>4, <2>5 DEF Mem!TypeOK
<1>2. \A k \in StoreKeys : BlobInv(k)
  BY DEF Mem!Init, Mem!NoObjects, BlobInv, Mem!IsRetained, Mem!Current, Mem!Newest
<1>3. ListInv
  BY DEF Mem!Init, ListInv
<1> QED BY <1>1, <1>2, <1>3 DEF MemInv

(* A step that changes what the keys of ks read as takes them from the     *)
(* listing.                                                                *)
LEMMA ListShrinks ==
  ASSUME MemInv, NEW ks \in SUBSET StoreKeys,
         m_listing' = IF m_listing = None THEN None
                      ELSE [m_listing EXCEPT !.stable = @ \ ks],
         \A k \in StoreKeys \ ks : Mem!Current(k)' = Mem!Current(k)
  PROVE  ListInv' /\ m_listing' \in Mem!Listing \cup {None}
<1>1. CASE m_listing = None
  BY <1>1 DEF ListInv
<1>2. CASE m_listing # None
  <2>1. m_listing \in Mem!Listing
    BY <1>2 DEF MemInv, Mem!TypeOK
  <2>2. /\ m_listing' = [m_listing EXCEPT !.stable = @ \ ks] /\ m_listing' \in Mem!Listing
        /\ m_listing'.after = m_listing.after /\ m_listing'.more = m_listing.more
        /\ m_listing'.found = m_listing.found /\ m_listing'.folder = m_listing.folder
        /\ m_listing'.stable = m_listing.stable \ ks
    BY <1>2, <2>1 DEF Mem!Listing
  <2>3. \A k \in m_listing.stable : k \in StoreKeys /\ Mem!Current(k) # None
    BY <1>2 DEF MemInv, ListInv, Mem!Visible
  <2>4. m_listing'.stable \subseteq Mem!Visible'
    BY <2>2, <2>3 DEF Mem!Visible
  <2> QED BY <1>2, <2>2, <2>4 DEF MemInv, ListInv
<1> QED BY <1>1, <1>2

LEMMA ListSame ==
  ASSUME MemInv, UNCHANGED <<m_objects, m_markers, m_listing>>
  PROVE  ListInv'
BY DEF MemInv, ListInv, Mem!Visible, Mem!Current

(* A key's part of the invariant is about its own entries. *)
LEMMA KeySame ==
  ASSUME NEW k, BlobInv(k), k \in m_markers' <=> k \in m_markers,
         m_objects'[k] = m_objects[k], m_retained'[k] = m_retained[k],
         m_bucket'[k] = m_bucket[k], m_first'[k] = m_first[k]
  PROVE  BlobInv(k)' /\ Mem!Current(k)' = Mem!Current(k)
BY DEF BlobInv, Mem!IsRetained, Mem!Current, Mem!Newest

(* The last of a key's versions once another is stacked on it. *)
LEMMA Stacked ==
  ASSUME Mem!TypeOK, NEW k \in StoreKeys, NEW v,
         v \in Mem!Blobs \cup {Mem!Marker}, m_bucket'[k] = Append(m_bucket[k], v)
  PROVE  Mem!Newest(k)' = IF v = Mem!Marker THEN None ELSE v
<1>1. m_bucket[k] \in Seq(Mem!Blobs \cup {Mem!Marker})
  BY DEF Mem!TypeOK
<1>2. ASSUME NEW T, NEW c \in Seq(T), NEW w \in T
      PROVE  Append(c, w) # <<>> /\ Append(c, w)[Len(Append(c, w))] = w
  OBVIOUS
<1>3. /\ Append(m_bucket[k], v) # <<>>
      /\ Append(m_bucket[k], v)[Len(Append(m_bucket[k], v))] = v
  BY <1>1, <1>2
<1> QED BY <1>3 DEF Mem!Newest, Mem!Last

(* What every step that changes an object keeps of the types. *)
ObjectsTyped ==
  /\ m_objects \in Mem!State /\ m_retained \in Mem!State /\ m_markers \subseteq StoreKeys
  /\ m_bucket \in [StoreKeys -> Seq(Mem!Blobs \cup {Mem!Marker})]
  /\ m_first \in [StoreKeys -> 1..MaxWrites \cup {None}]
  /\ m_listing \in Mem!Listing \cup {None}

(* A blob, and that of no other object, is stacked on a key. *)
LEMMA StackTyped ==
  ASSUME Mem!TypeOK, NEW k \in StoreKeys, NEW blob \in Mem!Blobs, Mem!Stack(k, blob)
  PROVE  /\ m_bucket' \in [StoreKeys -> Seq(Mem!Blobs \cup {Mem!Marker})]
         /\ m_first' \in [StoreKeys -> 1..MaxWrites \cup {None}]
         /\ Mem!Newest(k)' = blob
         /\ m_first'[k] = IF m_first[k] = None /\ blob.locked THEN blob.body ELSE m_first[k]
         /\ \A j \in StoreKeys \ {k} : m_bucket'[j] = m_bucket[j] /\ m_first'[j] = m_first[j]
<1> DEFINE V == Mem!Blobs \cup {Mem!Marker}
<1>1. m_bucket \in [StoreKeys -> Seq(V)] /\ m_first \in [StoreKeys -> 1..MaxWrites \cup {None}]
  BY DEF Mem!TypeOK
<1>2. /\ m_bucket' = [m_bucket EXCEPT ![k] = Append(m_bucket[k], blob)]
      /\ m_first' = [m_first EXCEPT ![k] = IF m_first[k] = None /\ blob.locked
                                           THEN blob.body ELSE m_first[k]]
  BY DEF Mem!Stack
<1>3. blob \in V /\ blob.body \in 1..MaxWrites
  BY DEF Mem!Blobs
<1>4. Append(m_bucket[k], blob) \in Seq(V)
  BY <1>1, <1>3, AppendProperties
<1>5. m_bucket'[k] = Append(m_bucket[k], blob)
  BY <1>1, <1>2
<1>6. blob # Mem!Marker
  BY <1>3 DEF Mem!Marker
<1>7. Mem!Newest(k)' = blob
  BY <1>3, <1>5, <1>6, Stacked
<1> QED BY <1>1, <1>2, <1>3, <1>4, <1>7

(* put_blob, copy_blob and multipart_complete: over an object that is not  *)
(* retained.                                                               *)
LEMMA Written ==
  ASSUME MemInv, NEW k \in StoreKeys, NEW blob \in Mem!Blobs, ~Mem!IsRetained(k),
         m_objects' = [m_objects EXCEPT ![k] = blob], Mem!Stack(k, blob),
         UNCHANGED <<m_markers, m_retained>>
  PROVE  ObjectsTyped' /\ (\A j \in StoreKeys : BlobInv(j)') /\ ListInv'
<1>1. /\ m_objects' \in Mem!State /\ m_objects'[k] = blob
      /\ \A j \in StoreKeys \ {k} : m_objects'[j] = m_objects[j]
  BY DEF MemInv, Mem!TypeOK, Mem!State
<1>2. Mem!TypeOK /\ BlobInv(k) /\ \A j \in StoreKeys : BlobInv(j)
  BY DEF MemInv
<1>3. /\ m_bucket' \in [StoreKeys -> Seq(Mem!Blobs \cup {Mem!Marker})]
      /\ m_first' \in [StoreKeys -> 1..MaxWrites \cup {None}]
      /\ Mem!Newest(k)' = blob
      /\ m_first'[k] = IF m_first[k] = None /\ blob.locked THEN blob.body ELSE m_first[k]
      /\ \A j \in StoreKeys \ {k} : m_bucket'[j] = m_bucket[j] /\ m_first'[j] = m_first[j]
  BY <1>2, StackTyped
<1>4. \A j \in StoreKeys \ {k} : BlobInv(j)' /\ Mem!Current(j)' = Mem!Current(j)
  BY <1>1, <1>2, <1>3, KeySame
<1>5. BlobInv(k)'
  <2>1. blob # None /\ blob.body # None /\ blob.body \in 1..MaxWrites /\ blob.locked \in BOOLEAN
    BY MemoryAssumed DEF Mem!Blobs
  <2>2. k \notin m_markers' /\ m_retained'[k] = m_retained[k]
    BY <1>2 DEF BlobInv
  <2>3. Mem!Current(k)' = Mem!Newest(k)'
    BY <1>1, <1>3, <2>2 DEF Mem!Current
  <2>4. Mem!IsRetained(k)' <=> blob.locked
    BY <1>1, <2>1 DEF Mem!IsRetained
  <2>5. m_retained[k] # None => m_first[k] = m_retained[k].body /\ m_first[k] # None
    <3>1. m_retained[k] \in Mem!Blobs \cup {None}
      BY DEF MemInv, Mem!TypeOK, Mem!State
    <3> QED BY <1>2, <3>1, MemoryAssumed DEF BlobInv, Mem!Blobs
  <2>6. m_retained[k] = None => m_first[k] = None
    BY <1>2 DEF BlobInv
  <2> QED BY <1>1, <1>3, <2>1, <2>2, <2>3, <2>4, <2>5, <2>6 DEF BlobInv
<1>6. ListInv' /\ m_listing' \in Mem!Listing \cup {None}
  BY <1>4, ListShrinks DEF Mem!Stack, Mem!Disturbs
<1>7. m_retained' \in Mem!State /\ m_markers' \subseteq StoreKeys
  BY DEF MemInv, Mem!TypeOK
<1> QED BY <1>1, <1>3, <1>4, <1>5, <1>6, <1>7 DEF ObjectsTyped

(* put_blob_if_not_exists: what is written over is set aside. *)
LEMMA Created ==
  ASSUME MemInv, NEW k \in StoreKeys, NEW locked \in BOOLEAN, Mem!Create(k, locked)
  PROVE  ObjectsTyped' /\ (\A j \in StoreKeys : BlobInv(j)') /\ ListInv'
<1> DEFINE blob == Mem!Blob(m_calls + 1, locked)
           old == Mem!PinBeforeOverwrite(k)
<1>1. blob \in Mem!Blobs /\ blob.body # None /\ blob # None /\ blob.locked = locked
  BY MemoryAssumed DEF MemInv, Mem!TypeOK, Mem!Create, Mem!Blob, Mem!Blobs
<1>2. Mem!TypeOK /\ BlobInv(k) /\ \A j \in StoreKeys : BlobInv(j)
  BY DEF MemInv
<1>3. /\ m_objects' \in Mem!State /\ m_objects'[k] = blob
      /\ \A j \in StoreKeys \ {k} : m_objects'[j] = m_objects[j]
  BY <1>1, <1>2 DEF Mem!Create, Mem!TypeOK, Mem!State
<1>4. old \in Mem!Blobs \cup {None}
  BY <1>2 DEF Mem!TypeOK, Mem!State, Mem!PinBeforeOverwrite
<1>5. /\ m_retained' \in Mem!State /\ m_retained'[k] = old
      /\ \A j \in StoreKeys \ {k} : m_retained'[j] = m_retained[j]
  BY <1>2, <1>4 DEF Mem!Create, Mem!TypeOK, Mem!State
<1>6. /\ m_bucket' \in [StoreKeys -> Seq(Mem!Blobs \cup {Mem!Marker})]
      /\ m_first' \in [StoreKeys -> 1..MaxWrites \cup {None}]
      /\ Mem!Newest(k)' = blob
      /\ m_first'[k] = IF m_first[k] = None /\ blob.locked THEN blob.body ELSE m_first[k]
      /\ \A j \in StoreKeys \ {k} : m_bucket'[j] = m_bucket[j] /\ m_first'[j] = m_first[j]
  BY <1>1, <1>2, StackTyped DEF Mem!Create
<1>7. /\ m_markers' \subseteq StoreKeys /\ k \notin m_markers'
      /\ \A j \in StoreKeys \ {k} : j \in m_markers' <=> j \in m_markers
  BY <1>2 DEF Mem!Create, Mem!TypeOK
<1>8. \A j \in StoreKeys \ {k} : BlobInv(j)' /\ Mem!Current(j)' = Mem!Current(j)
  BY <1>2, <1>3, <1>5, <1>6, <1>7, KeySame
<1>9. BlobInv(k)'
  <2>1. Mem!Current(k)' = Mem!Newest(k)'
    BY <1>3, <1>6, <1>7 DEF Mem!Current
  <2>2. Mem!IsRetained(k)' <=> locked
    BY <1>1, <1>3 DEF Mem!IsRetained
  <2>3. old # None => m_first[k] = old.body /\ m_first[k] # None
    BY <1>2, <1>4, MemoryAssumed DEF BlobInv, Mem!PinBeforeOverwrite, Mem!Blobs
  <2>4. old = None => m_first[k] = None
    BY <1>2 DEF BlobInv, Mem!PinBeforeOverwrite, Mem!IsRetained
  <2> QED BY <1>1, <1>3, <1>5, <1>6, <1>7, <2>1, <2>2, <2>3, <2>4 DEF BlobInv
<1>10. ListInv' /\ m_listing' \in Mem!Listing \cup {None}
  <2>1. m_listing' = IF m_listing = None THEN None ELSE [m_listing EXCEPT !.stable = @ \ {k}]
    BY DEF Mem!Create, Mem!Stack, Mem!Disturbs
  <2> QED BY <1>8, <2>1, ListShrinks, ZenonT(30)
<1> QED BY <1>3, <1>5, <1>6, <1>7, <1>8, <1>9, <1>10 DEF ObjectsTyped

(* delete_one, of each key. *)
LEMMA Deleted ==
  ASSUME MemInv, NEW ks \in SUBSET StoreKeys, Mem!DeleteBlobs(ks)
  PROVE  ObjectsTyped' /\ (\A j \in StoreKeys : BlobInv(j)') /\ ListInv'
<1> DEFINE kept == {k \in ks : Mem!IsRetained(k)}
           V == Mem!Blobs \cup {Mem!Marker}
<1>1. Mem!TypeOK /\ \A j \in StoreKeys : BlobInv(j)
  BY DEF MemInv
<1>2. /\ m_objects' = [j \in StoreKeys |-> IF j \in ks \ kept THEN None ELSE m_objects[j]]
      /\ m_markers' = (m_markers \cup kept) \ (ks \ kept)
      /\ m_retained' = m_retained /\ m_first' = m_first
      /\ m_bucket' = [j \in StoreKeys |-> IF j \in ks THEN Append(m_bucket[j], Mem!Marker)
                                          ELSE m_bucket[j]]
  BY DEF Mem!DeleteBlobs
<1>3. m_objects' \in Mem!State /\ m_retained' \in Mem!State /\ m_markers' \subseteq StoreKeys
  BY <1>1, <1>2 DEF Mem!TypeOK, Mem!State
<1>4. m_bucket' \in [StoreKeys -> Seq(V)] /\ m_first' \in [StoreKeys -> 1..MaxWrites \cup {None}]
  <2>1. ASSUME NEW j \in StoreKeys PROVE Append(m_bucket[j], Mem!Marker) \in Seq(V)
    BY <1>1, AppendProperties DEF Mem!TypeOK
  <2> QED BY <1>1, <1>2, <2>1 DEF Mem!TypeOK
<1>5. \A j \in StoreKeys \ ks : BlobInv(j)' /\ Mem!Current(j)' = Mem!Current(j)
  <2> SUFFICES ASSUME NEW j \in StoreKeys \ ks PROVE BlobInv(j)' /\ Mem!Current(j)' = Mem!Current(j)
    OBVIOUS
  <2> QED BY <1>1, <1>2, KeySame
<1>6. ASSUME NEW j \in ks PROVE BlobInv(j)'
  <2>1. m_bucket'[j] = Append(m_bucket[j], Mem!Marker)
    BY <1>2
  <2>2. Mem!Newest(j)' = None
    BY <1>1, <2>1, Stacked
  <2>3. CASE Mem!IsRetained(j)
    <3>1. j \in m_markers' /\ m_objects'[j] = m_objects[j]
      BY <1>2, <2>3
    <3> QED BY <1>1, <1>2, <2>2, <2>3, <3>1 DEF BlobInv, Mem!IsRetained, Mem!Current
  <2>4. CASE ~Mem!IsRetained(j)
    <3>1. j \notin m_markers' /\ m_objects'[j] = None
      BY <1>2, <2>4
    <3> QED BY <1>1, <1>2, <2>2, <2>4, <3>1 DEF BlobInv, Mem!IsRetained, Mem!Current
  <2> QED BY <2>3, <2>4
<1>7. ListInv' /\ m_listing' \in Mem!Listing \cup {None}
  BY <1>5, ListShrinks DEF Mem!DeleteBlobs
<1> QED BY <1>3, <1>4, <1>5, <1>6, <1>7 DEF ObjectsTyped

-----------------------------------------------------------------------------
(* A page, of the keys past the cursor. *)

(* A page has the items before each of its own. *)
LEMMA PageInOrder ==
  ASSUME NEW keys \in SUBSET StoreKeys, NEW k \in Mem!Page(keys),
         NEW i \in Mem!Items(keys), i < k
  PROVE  i \in Mem!Page(keys)
<1> DEFINE Upto(n) == {j \in Mem!Items(keys) : j <= n}
<1>1. /\ k \in Mem!Items(keys) /\ Mem!Items(keys) \subseteq StoreKeys
      /\ Mem!Cardinality(Upto(k)) <= PageSize
  BY DEF Mem!Page, Mem!Items
<1>2. IsFiniteSet(Upto(k)) /\ Cardinality(Upto(k)) \in Nat
  BY <1>1, MemoryAssumed, FS_Subset, FS_CardinalityType
<1>3. Upto(i) \in SUBSET Upto(k)
  <2>1. Mem!Items(keys) \subseteq Nat
    BY <1>1, MemoryAssumed
  <2>2. ASSUME NEW j \in Mem!Items(keys), j <= i PROVE j <= k
    <3>1. i \in Nat /\ j \in Nat /\ k \in Nat
      BY <1>1, <2>1
    <3> QED BY <2>2, <3>1
  <2> QED BY <2>2
<1>4. /\ Cardinality(Upto(i)) <= Cardinality(Upto(k)) /\ Cardinality(Upto(i)) \in Nat
  BY <1>2, <1>3, FS_Subset, FS_CardinalityType
<1>5. Mem!Cardinality(Upto(i)) <= PageSize
  BY <1>1, <1>2, <1>4, MemoryCounts, MemoryAssumed
<1> QED BY <1>5 DEF Mem!Page

(* The common prefix is listed at the first key under it. *)
LEMMA FirstOfFolder ==
  ASSUME NEW keys \in SUBSET StoreKeys, NEW k \in keys \cap Folder
  PROVE  \E i \in Mem!Items(keys) \cap Folder : i <= k
<1>1. keys \cap Folder \in SUBSET Nat /\ keys \cap Folder # {}
  BY MemoryAssumed
<1>2. PICK i \in keys \cap Folder : \A j \in keys \cap Folder : i <= j
  BY <1>1, LeastNatural
<1> QED BY <1>2 DEF Mem!Items

(* Up to the token every key was named: itself, or its folder. *)
LEMMA NamedUpTo ==
  ASSUME NEW keys \in SUBSET StoreKeys, NEW last \in Mem!Consumed(keys),
         NEW k \in keys, k <= last
  PROVE  IF k \in Folder THEN Mem!Page(keys) \cap Folder # {} ELSE k \in Mem!Page(keys)
<1> USE MemoryAssumed
<1>1. /\ last \in StoreKeys /\ last \in Nat /\ k \in StoreKeys /\ k \in Nat
      /\ last \in Mem!Page(keys) \/ (last \in Folder /\ Mem!Page(keys) \cap Folder # {})
  BY DEF Mem!Consumed
<1>2. CASE k \in Folder
  <2>1. CASE Mem!Page(keys) \cap Folder # {}
    BY <1>2, <2>1
  <2>2. CASE Mem!Page(keys) \cap Folder = {}
    <3>1. last \in Mem!Page(keys) /\ last \notin Folder
      BY <1>1, <2>2
    <3>2. PICK i \in Mem!Items(keys) \cap Folder : i <= k
      BY <1>2, FirstOfFolder
    <3>3. i < last
      <4>1. i \in Nat /\ i # last
        BY <3>1, <3>2 DEF Mem!Items
      <4> QED BY <1>1, <3>2, <4>1
    <3>4. i \in Mem!Page(keys)
      BY <3>1, <3>2, <3>3, PageInOrder
    <3> QED BY <2>2, <3>2, <3>4
  <2> QED BY <2>1, <2>2
<1>3. CASE k \notin Folder
  <2>1. k \in Mem!Items(keys)
    BY <1>3 DEF Mem!Items
  <2>2. CASE last \in Mem!Page(keys)
    <3>1. CASE k = last
      BY <1>3, <2>2, <3>1
    <3>2. CASE k # last
      <4>1. k < last
        BY <1>1, <3>2
      <4> QED BY <1>3, <2>1, <2>2, <4>1, PageInOrder
    <3> QED BY <3>1, <3>2
  <2>3. CASE last \in Folder /\ Mem!Page(keys) \cap Folder # {}
    <3>1. PICK i \in Mem!Page(keys) \cap Folder : TRUE
      BY <2>3
    <3>2. i \in StoreKeys /\ i \in Nat /\ i # k
      BY <1>3, <3>1
    <3>3. CASE k < i
      BY <1>3, <2>1, <3>1, <3>3, PageInOrder
    <3>4. CASE i < k
      <4>1. k < last
        BY <1>1, <1>3, <2>3
      <4> QED BY <1>1, <1>3, <2>3, <3>1, <3>4, <4>1
    <3> QED BY <1>1, <3>2, <3>3, <3>4
  <2> QED BY <1>1, <2>2, <2>3
<1> QED BY <1>2, <1>3

LEMMA PageStep ==
  ASSUME MemInv, Mem!ListPage
  PROVE  m_listing' \in Mem!Listing /\ ListInv'
<1> USE MemoryAssumed
<1> DEFINE keys == {k \in Mem!Visible : k > m_listing.after}
           page == Mem!Page(keys)
<1>1. m_listing # None /\ m_listing \in Mem!Listing
  BY DEF MemInv, Mem!TypeOK, Mem!ListPage
<1>2. keys \in SUBSET StoreKeys
  BY DEF Mem!Visible
<1>3. Mem!Consumed(keys) \subseteq keys /\ page \subseteq keys
  BY DEF Mem!Consumed, Mem!Page, Mem!Items
<1>4. PICK last \in Mem!Consumed(keys) \cup {m_listing.after} :
        /\ \A k \in Mem!Consumed(keys) : k <= last
        /\ m_listing' = [m_listing EXCEPT
                           !.after = last,
                           !.more = \E k \in keys : k > last,
                           !.found = [k \in StoreKeys |->
                                        IF k \in page \ Folder THEN m_listing.found[k] + 1
                                        ELSE m_listing.found[k]],
                           !.folder = m_listing.folder \/ page \cap Folder # {}]
  BY DEF Mem!ListPage
<1>5. /\ m_listing'.after = last /\ m_listing'.stable = m_listing.stable
      /\ m_listing'.more <=> \E k \in keys : k > last
      /\ m_listing'.folder <=> (m_listing.folder \/ page \cap Folder # {})
      /\ \A k \in StoreKeys :
           m_listing'.found[k] = IF k \in page \ Folder THEN m_listing.found[k] + 1
                                 ELSE m_listing.found[k]
  BY <1>1, <1>4 DEF Mem!Listing
<1>6. /\ m_listing.after \in Nat /\ last \in Nat /\ m_listing.after <= last
      /\ \A k \in StoreKeys : m_listing.found[k] \in Nat
  <2>1. m_listing.after \in Nat /\ \A k \in StoreKeys : m_listing.found[k] \in Nat
    BY <1>1 DEF Mem!Listing
  <2>2. ASSUME NEW k \in keys PROVE k \in Nat /\ m_listing.after <= k
    <3>1. k \in Nat /\ k > m_listing.after
      BY <1>2
    <3> QED BY <2>1, <3>1
  <2> QED BY <1>3, <2>1, <2>2
<1>7. m_listing' \in Mem!Listing
  <2>1. [k \in StoreKeys |-> IF k \in page \ Folder THEN m_listing.found[k] + 1
                             ELSE m_listing.found[k]] \in [StoreKeys -> Nat]
    BY <1>6
  <2> QED BY <1>1, <1>4, <1>6, <2>1 DEF Mem!Listing
<1>8. /\ m_listing.stable \subseteq Mem!Visible
      /\ \A k \in StoreKeys : /\ m_listing.found[k] <= 1
                              /\ m_listing.found[k] = 1 => k <= m_listing.after
      /\ \A k \in m_listing.stable : k <= m_listing.after =>
           IF k \in Folder THEN m_listing.folder ELSE m_listing.found[k] = 1
  BY <1>1 DEF MemInv, ListInv
<1>9. m_listing'.stable \subseteq Mem!Visible'
  BY <1>5, <1>8 DEF Mem!ListPage, Mem!store, Mem!Visible, Mem!Current
<1>10. ASSUME NEW k \in page \ Folder
       PROVE  k \in StoreKeys /\ k \in Nat /\ m_listing.after < k /\ k <= last
  <2>1. k \in Mem!Consumed(keys)
    BY <1>3 DEF Mem!Consumed
  <2> QED BY <1>2, <1>3, <1>4, <1>6, <2>1
<1>11. ASSUME NEW k \in StoreKeys
       PROVE  m_listing'.found[k] <= 1 /\ (m_listing'.found[k] = 1 => k <= m_listing'.after)
  <2>1. CASE k \in page \ Folder
    <3>1. ~(k <= m_listing.after) /\ k <= last
      BY <1>6, <1>10, <2>1
    <3>2. m_listing.found[k] = 0
      <4>1. m_listing.found[k] \in Nat /\ m_listing.found[k] <= 1 /\ m_listing.found[k] # 1
        BY <1>6, <1>8, <3>1
      <4> QED BY <4>1
    <3>3. m_listing'.found[k] = m_listing.found[k] + 1
      BY <1>5, <2>1
    <3> QED BY <1>5, <3>1, <3>2, <3>3
  <2>2. CASE k \notin page \ Folder
    <3>1. m_listing'.found[k] = m_listing.found[k] /\ k \in Nat
      BY <1>5, <2>2
    <3> QED BY <1>5, <1>6, <1>8, <3>1
  <2> QED BY <2>1, <2>2
<1>12. ASSUME NEW k \in m_listing.stable, k <= last
       PROVE  IF k \in Folder THEN m_listing'.folder ELSE m_listing'.found[k] = 1
  <2>1. k \in StoreKeys /\ k \in Nat /\ k \in Mem!Visible
    BY <1>8 DEF Mem!Visible
  <2>2. CASE k <= m_listing.after
    <3>1. ~(k > m_listing.after) /\ k \notin page
      BY <1>3, <1>6, <2>1, <2>2
    <3> QED BY <1>5, <1>8, <2>1, <2>2, <3>1
  <2>3. CASE ~(k <= m_listing.after)
    <3>1. k \in keys /\ last # m_listing.after
      BY <1>6, <1>12, <2>1, <2>3
    <3>2. last \in Mem!Consumed(keys)
      BY <1>4, <3>1
    <3>3. IF k \in Folder THEN page \cap Folder # {} ELSE k \in page
      BY <1>2, <1>12, <3>1, <3>2, NamedUpTo
    <3>4. CASE k \in Folder
      BY <1>5, <3>3, <3>4
    <3>5. CASE k \notin Folder
      <4>1. m_listing.found[k] = 0
        <5>1. m_listing.found[k] # 1
          BY <1>8, <2>1, <2>3
        <5>2. m_listing.found[k] \in Nat /\ m_listing.found[k] <= 1
          BY <1>6, <1>8, <2>1
        <5> QED BY <5>1, <5>2
      <4> QED BY <1>5, <2>1, <3>3, <3>5, <4>1
    <3> QED BY <3>4, <3>5
  <2> QED BY <2>2, <2>3
<1>13. ASSUME ~m_listing'.more, NEW k \in m_listing.stable
       PROVE  k <= last
  <2>1. k \in StoreKeys /\ k \in Nat /\ k \in Mem!Visible
    BY <1>8 DEF Mem!Visible
  <2> QED BY <1>5, <1>6, <1>13, <2>1
<1> QED BY <1>5, <1>7, <1>9, <1>11, <1>12, <1>13 DEF ListInv

LEMMA MemNext == MemInv /\ [Mem!Next]_Mem!vars => MemInv'
<1> SUFFICES ASSUME MemInv, [Mem!Next]_Mem!vars PROVE MemInv'
  OBVIOUS
<1>1. ASSUME ObjectsTyped', \A j \in StoreKeys : BlobInv(j)', ListInv',
             m_upload' \in Mem!ActiveMpu \cup {None}, m_failNext' \in BOOLEAN,
             m_calls' \in 0..MaxWrites
      PROVE  MemInv'
  BY <1>1 DEF ObjectsTyped, MemInv, Mem!TypeOK
<1>2. /\ m_upload \in Mem!ActiveMpu \cup {None} /\ m_failNext \in BOOLEAN
      /\ m_calls \in 0..MaxWrites
  BY DEF MemInv, Mem!TypeOK
<1>3. m_calls < MaxWrites => m_calls + 1 \in 0..MaxWrites
  BY <1>2, MemoryAssumed
<1>4. \A j \in StoreKeys, locked \in BOOLEAN :
        m_calls < MaxWrites => Mem!Blob(m_calls + 1, locked) \in Mem!Blobs
  BY <1>2, MemoryAssumed DEF Mem!Blob, Mem!Blobs
<1>5. ASSUME UNCHANGED <<m_objects, m_markers, m_retained, m_bucket, m_first, m_listing>>
      PROVE  ObjectsTyped' /\ (\A j \in StoreKeys : BlobInv(j)') /\ ListInv'
  <2>1. ASSUME NEW j \in StoreKeys PROVE BlobInv(j)'
    BY <1>5, KeySame DEF MemInv
  <2> QED BY <1>5, <2>1, ListSame DEF MemInv, Mem!TypeOK, ObjectsTyped
<1>6. ASSUME NEW k \in StoreKeys, NEW locked \in BOOLEAN, Mem!PutBlob(k, locked) PROVE MemInv'
  BY <1>1, <1>2, <1>3, <1>4, <1>6, Written DEF Mem!PutBlob
<1>7. ASSUME NEW k \in StoreKeys, NEW locked \in BOOLEAN, Mem!Create(k, locked) PROVE MemInv'
  <2>1. ObjectsTyped' /\ (\A j \in StoreKeys : BlobInv(j)') /\ ListInv'
    BY <1>7, Created
  <2> QED BY <1>1, <1>2, <1>3, <1>7, <2>1 DEF Mem!Create
<1>8. ASSUME NEW ks \in SUBSET StoreKeys, Mem!DeleteBlobs(ks) PROVE MemInv'
  <2>1. ObjectsTyped' /\ (\A j \in StoreKeys : BlobInv(j)') /\ ListInv'
    BY <1>8, Deleted
  <2> QED BY <1>1, <1>2, <1>3, <1>8, <2>1 DEF Mem!DeleteBlobs
<1>9. ASSUME NEW s \in StoreKeys, NEW k \in StoreKeys, Mem!CopyBlob(s, k) PROVE MemInv'
  <2>1. Mem!Blob(m_objects[s].body, FALSE) \in Mem!Blobs
    BY <1>9 DEF Mem!CopyBlob, MemInv, Mem!TypeOK, Mem!State, Mem!Blob, Mem!Blobs
  <2> QED BY <1>1, <1>2, <1>3, <1>9, <2>1, Written DEF Mem!CopyBlob
<1>10. ASSUME NEW k \in StoreKeys, NEW locked \in BOOLEAN, Mem!MultipartBegin(k, locked)
       PROVE  MemInv'
  <2>1. m_upload' \in Mem!ActiveMpu
    BY <1>10, MemoryAssumed DEF Mem!MultipartBegin, Mem!ActiveMpu
  <2> QED BY <1>1, <1>2, <1>3, <1>5, <1>10, <2>1 DEF Mem!MultipartBegin
<1>11. CASE Mem!UploadPart
  <2>1. m_upload' \in Mem!ActiveMpu
    BY <1>2, <1>3, <1>11 DEF Mem!UploadPart, Mem!ActiveMpu
  <2> QED BY <1>1, <1>2, <1>3, <1>5, <1>11, <2>1 DEF Mem!UploadPart
<1>12. CASE Mem!MultipartComplete
  <2>1. m_upload \in Mem!ActiveMpu
    BY <1>2, <1>12 DEF Mem!MultipartComplete
  <2>2. ObjectsTyped' /\ (\A j \in StoreKeys : BlobInv(j)') /\ ListInv'
    <3>1. CASE Mem!IsRetained(m_upload.key)
      BY <1>5, <1>12, <3>1 DEF Mem!MultipartComplete
    <3>2. CASE ~Mem!IsRetained(m_upload.key)
      <4>1. m_upload.key \in StoreKeys /\ Mem!Blob(m_upload.parts, m_upload.locked) \in Mem!Blobs
        BY <1>12, <2>1, MemoryAssumed DEF Mem!MultipartComplete, Mem!ActiveMpu, Mem!Blob, Mem!Blobs
      <4> QED BY <1>12, <3>2, <4>1, Written DEF Mem!MultipartComplete
    <3> QED BY <3>1, <3>2
  <2> QED BY <1>1, <1>2, <1>12, <2>2 DEF Mem!MultipartComplete
<1>13. CASE Mem!MultipartAbort
  BY <1>1, <1>2, <1>5, <1>13 DEF Mem!MultipartAbort
<1>14. CASE Mem!FailNextPut
  BY <1>1, <1>2, <1>3, <1>5, <1>14 DEF Mem!FailNextPut
<1>15. CASE Mem!PutFails
  BY <1>1, <1>2, <1>5, <1>15 DEF Mem!PutFails
<1>16. ASSUME UNCHANGED <<Mem!store, m_calls>>, ListInv', m_listing' \in Mem!Listing \cup {None}
       PROVE  MemInv'
  <2>1. ASSUME NEW j \in StoreKeys PROVE BlobInv(j)'
    BY <1>16, KeySame DEF MemInv, Mem!store
  <2> QED BY <1>16, <2>1 DEF MemInv, Mem!TypeOK, Mem!store
<1>17. CASE Mem!ListBegin
  <2>1. m_listing' \in Mem!Listing
    BY <1>17 DEF Mem!ListBegin, Mem!Listing, Mem!Visible
  <2>2. ListInv'
    BY <1>17, MemoryAssumed DEF Mem!ListBegin, ListInv, Mem!Visible, Mem!store, Mem!Current
  <2> QED BY <1>16, <1>17, <2>1, <2>2 DEF Mem!ListBegin
<1>18. CASE Mem!ListPage
  BY <1>16, <1>18, PageStep DEF Mem!ListPage
<1>19. CASE Mem!ListEnd
  BY <1>16, <1>19 DEF Mem!ListEnd, ListInv
<1>20. CASE UNCHANGED Mem!vars
  BY <1>16, <1>20, ListSame DEF Mem!vars, Mem!store, MemInv, Mem!TypeOK
<1> QED BY <1>6, <1>7, <1>8, <1>9, <1>10, <1>11, <1>12, <1>13, <1>14, <1>15, <1>17, <1>18,
           <1>19, <1>20 DEF Mem!Next

(* For any keys, folder, length of a page and number of calls: the fake    *)
(* reads, retains and lists as the bucket it stands for, whatever is       *)
(* written, deleted or copied between two pages (memory.rs).               *)
THEOREM TheFakeIsABucket ==
  /\ Mem!Spec => []Mem!BucketLike
  /\ SumSpec => []BucketLike
<1>1. MemInv => Mem!BucketLike
  <2> SUFFICES ASSUME MemInv PROVE Mem!BucketLike
    OBVIOUS
  <2>1. Mem!TypeOK /\ Mem!ReadsAsBucket
    BY DEF MemInv, BlobInv, Mem!ReadsAsBucket, Mem!GetBlob
  <2>2. Mem!RetainedForGood
    <3> SUFFICES ASSUME NEW k \in StoreKeys, m_first[k] # None
                 PROVE  Mem!Retained(k) # None /\ Mem!Retained(k).body = m_first[k]
      BY DEF Mem!RetainedForGood, Mem!GetRetainedBlob
    <3> QED BY DEF MemInv, BlobInv, Mem!Retained, Mem!IsRetained
  <2>3. Mem!ListedOnce
    BY DEF MemInv, ListInv, Mem!ListedOnce, Mem!Listed
  <2> QED BY <2>1, <2>2, <2>3 DEF Mem!BucketLike
<1>2. Mem!Spec => []Mem!BucketLike
  BY MemInit, MemNext, <1>1, PTL DEF Mem!Spec
<1>3. SumInit => MemInv
  BY MemInit DEF SumInit
<1>4. [SumNext]_Sum => [Mem!Next]_Mem!vars
  BY DEF SumNext, Sum, m_vars, Mem!vars, Mem!store
<1>5. MemInv => BucketLike
  BY <1>1 DEF BucketLike
<1>6. SumSpec => []BucketLike
  BY MemNext, <1>3, <1>4, <1>5, PTL DEF SumSpec
<1> QED BY <1>2, <1>6

=============================================================================
