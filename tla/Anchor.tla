------------------------------- MODULE Anchor -------------------------------
(***************************************************************************)
(* The anchor protocol of one ZFS pool (runtime/src/zfs.rs, Pool).         *)
(*                                                                         *)
(* The pool lives on a disk the host owns.  An enclave acknowledges a      *)
(* write only after an anchor: it commits the pool, writes a marker with a *)
(* fresh nonce into it, commits again, checks that no newer enclave has    *)
(* claimed a generation, and publishes a signed record of the marker and   *)
(* the txg as the next object of a write-once chain.  A boot claims a      *)
(* generation, reads the tip of the chain, imports whatever the host       *)
(* serves as the disk and refuses it unless the tip vouches for it.        *)
(*                                                                         *)
(* The host may serve any image the disk ever held, may delay, repeat or   *)
(* lose the PUT of an anchor (also past the death of its sender), may lay  *)
(* a delete marker over the chain, and may kill an enclave at any step.    *)
(* It cannot forge a record, and an image is all of one committed txg or   *)
(* nothing: signatures, dm-crypt and ZFS's checksums are taken as perfect. *)
(*                                                                         *)
(* An enclave is named by the generation it claimed; generation 0 is the   *)
(* one that created the pool.  A nonce is drawn once and never repeats;    *)
(* an enclave seals at most one anchor per sequence number (any failure    *)
(* stops it), so <<generation, seq>> names the nonce, and the nonce stands *)
(* for the hash of the anchor that carries it.                             *)
(***************************************************************************)
EXTENDS Integers, Sequences

CONSTANTS
    Writes,   \* the distinguishable writes guests make
    MaxGen,   \* bound: the last generation a boot may claim
    MaxTxg,   \* bound: the last transaction group a pool may commit
    MinSeq,   \* the floor a boot puts under the chain (min_seq)
    Overlap   \* may the host start an enclave while another one runs?

ASSUME AnchorAssumption ==
    /\ MaxGen \in Nat
    /\ MaxTxg \in Nat \ {0}
    /\ MinSeq \in Nat
    /\ Overlap \in BOOLEAN

VARIABLES
    chain,    \* published anchors, one per sequence number, in order
    puts,     \* anchors some enclave sent as a conditional PUT
    latest,   \* the highest generation claimed
    images,   \* every image the disk, or a fork of it, ever held
    status,   \* of an enclave: "off", "claimed", "tip", "up", "dead"
    step,     \* of its anchor: "idle", "sync", "marked", "synced", "fenced",
              \* "put"; "stopped" once a failure ended anchoring for good
    prev,     \* Pool.last: the newest anchor it published or booted on
    txg,      \* the newest txg its pool committed, or was loaded at
    wrote,    \* has this import committed a txg?
    data,     \* the writes that txg holds
    live,     \* the writes in its pool, committed or not
    mark,     \* the pool's enclave:anchor property
    want,     \* the writes the anchor under way will acknowledge
    sealing,  \* that anchor, from the second sync on
    acked     \* the writes any enclave has acknowledged to a client

vars == <<chain, puts, latest, images, status, step, prev, txg, wrote, data,
          live, mark, want, sealing, acked>>

poolVars == <<txg, wrote, data, live, mark, images>>

Gens == 0 .. MaxGen

Steps == {"idle", "sync", "marked", "synced", "fenced", "put", "stopped"}

-----------------------------------------------------------------------------
(* Records.                                                                 *)

Nonce == Gens \X Nat

NoHash == <<-1, 0>>       \* Hash256::ZERO, the predecessor of anchor 0

Hashes == Nonce \cup {NoHash}

Anchors == [seq : Nat, nonce : Nonce, prev : Hashes, txg : Nat]

Markers == [seq : Nat, nonce : Nonce, prev : Hashes]

Images == [txg : Nat, data : SUBSET Writes, mark : Markers]

\* marker / Anchor::property: what a pool holds of the anchor sealed over it.
Property(a) == [seq |-> a.seq, nonce |-> a.nonce, prev |-> a.prev]

\* The marker enclave g writes for its next anchor.
NextMarker(g) == [seq   |-> prev[g].seq + 1,
                  nonce |-> <<g, prev[g].seq + 1>>,
                  prev  |-> prev[g].nonce]

\* Anchor::seal, over the marker the pool holds and the txg synced_txg read.
Sealed(g, t) == [seq   |-> mark[g].seq,
                 nonce |-> mark[g].nonce,
                 prev  |-> mark[g].prev,
                 txg   |-> t]

Tip == chain[Len(chain)]

Genesis == [seq |-> 0, nonce |-> <<0, 0>>, prev |-> NoHash, txg |-> 1]

\* Mutant of Admit: the marker alone vouches for a state.
AdmitMarkerOnly(a, d) ==
    \/ d.mark = Property(a)
    \/ d.mark.seq = a.seq + 1 /\ d.mark.prev = a.nonce

\* admit: the newest anchor vouches for a loaded state.  The guid test is
\* left out: the import names the pool by the anchored guid.
Admit(a, d) ==
    /\ d.txg >= a.txg
    /\ \/ d.mark = Property(a)
       \/ d.mark.seq = a.seq + 1 /\ d.mark.prev = a.nonce

-----------------------------------------------------------------------------
(* The pool an enclave has imported.                                        *)

Up(g) == status[g] = "up"

\* Enclave g's pool commits a txg holding the writes in it and marker m; the
\* host keeps the image.
CommitTxg(g, m) ==
    /\ txg[g] < MaxTxg
    /\ txg'    = [txg EXCEPT ![g] = @ + 1]
    /\ wrote'  = [wrote EXCEPT ![g] = TRUE]
    /\ data'   = [data EXCEPT ![g] = live[g]]
    /\ mark'   = [mark EXCEPT ![g] = m]
    /\ images' = images \cup {[txg |-> txg[g] + 1, data |-> live[g], mark |-> m]}
    /\ UNCHANGED live

\* Writes that no txg on the disk holds yet.
Dirty(g) == live[g] # data[g]

\* zpool sync: returns once everything written so far is on the disk.  A
\* pool with nothing to write commits nothing.
ZpoolSync(g) ==
    IF Dirty(g) THEN CommitTxg(g, mark[g]) ELSE UNCHANGED poolVars

\* synced_txg / witness: the newest txg this import wrote, if it wrote any.
Witnessed(g) == wrote[g]

-----------------------------------------------------------------------------
Init ==
    /\ chain  = <<Genesis>>
    /\ puts   = {}
    /\ latest = 0
    /\ images = {[txg |-> 1, data |-> {}, mark |-> Property(Genesis)]}
    /\ status = [g \in Gens |-> IF g = 0 THEN "up" ELSE "off"]
    /\ step   = [g \in Gens |-> "idle"]
    /\ prev   = [g \in Gens |-> Genesis]
    /\ txg    = [g \in Gens |-> 1]
    /\ wrote  = [g \in Gens |-> g = 0]
    /\ data   = [g \in Gens |-> {}]
    /\ live   = [g \in Gens |-> {}]
    /\ mark   = [g \in Gens |-> Property(Genesis)]
    /\ want   = [g \in Gens |-> {}]
    /\ sealing = [g \in Gens |-> Genesis]
    /\ acked  = {}

-----------------------------------------------------------------------------
(* Booting.                                                                 *)

Running == {g \in Gens : status[g] \in {"claimed", "tip", "up"}}

\* claim_generation: the first unused generation, won by a conditional PUT.
ClaimGeneration ==
    /\ latest < MaxGen
    /\ Overlap \/ Running = {}
    /\ latest' = latest + 1
    /\ status' = [status EXCEPT ![latest + 1] = "claimed"]
    /\ UNCHANGED <<chain, puts, step, prev, txg, wrote, data, live, mark,
                   images, want, sealing, acked>>

\* Pool::open up to the import: find the tip, hold it against the floor and
\* against the anchor before it.
ReadTip(g) ==
    /\ status[g] = "claimed"
    /\ Tip.seq >= MinSeq
    /\ Len(chain) > 1 => chain[Len(chain) - 1].nonce = Tip.prev
    /\ status' = [status EXCEPT ![g] = "tip"]
    /\ prev'   = [prev EXCEPT ![g] = Tip]
    /\ UNCHANGED <<chain, puts, latest, step, txg, wrote, data, live, mark,
                   images, want, sealing, acked>>

\* Pool::open from the import: whatever image the host serves, admitted by
\* the tip read before.
Import(g, d) ==
    /\ status[g] = "tip"
    /\ Admit(prev[g], d)
    /\ status' = [status EXCEPT ![g] = "up"]
    /\ txg'    = [txg EXCEPT ![g] = d.txg]
    /\ wrote'  = [wrote EXCEPT ![g] = FALSE]
    /\ data'   = [data EXCEPT ![g] = d.data]
    /\ live'   = [live EXCEPT ![g] = d.data]
    /\ mark'   = [mark EXCEPT ![g] = d.mark]
    /\ UNCHANGED <<chain, puts, latest, images, step, prev, want, sealing, acked>>

\* An anchor ends in step s, and its locals with it.
Forget(g, s) ==
    /\ step'    = [step EXCEPT ![g] = s]
    /\ want'    = [want EXCEPT ![g] = {}]
    /\ sealing' = [sealing EXCEPT ![g] = Genesis]

\* The host kills an enclave at any step of a boot or of an anchor, and what
\* it held in memory is gone; a boot whose checks refuse what it was served
\* ends the same way.
Die(g) ==
    /\ g \in Running
    /\ status' = [status EXCEPT ![g] = "dead"]
    /\ Forget(g, "idle")
    /\ prev'   = [prev EXCEPT ![g] = Genesis]
    /\ txg'    = [txg EXCEPT ![g] = 1]
    /\ wrote'  = [wrote EXCEPT ![g] = FALSE]
    /\ data'   = [data EXCEPT ![g] = {}]
    /\ live'   = [live EXCEPT ![g] = {}]
    /\ mark'   = [mark EXCEPT ![g] = Property(Genesis)]
    /\ UNCHANGED <<chain, puts, latest, images, acked>>

-----------------------------------------------------------------------------
(* Writing.                                                                 *)

\* A guest, or the runtime, writes to a file of the pool: sync=disabled, so
\* the write is in memory only.
Write(g, w) ==
    /\ Up(g)
    /\ w \notin live[g]
    /\ live' = [live EXCEPT ![g] = @ \cup {w}]
    /\ UNCHANGED <<chain, puts, latest, status, step, prev, txg, wrote, data,
                   mark, images, want, sealing, acked>>

\* ZFS commits a txg of its own accord: a dirty pool's, or the one an import
\* makes.  A txg that changes nothing writes no uberblock.
BackgroundTxg(g) ==
    /\ Up(g)
    /\ Dirty(g) \/ ~wrote[g]
    /\ CommitTxg(g, mark[g])
    /\ UNCHANGED <<chain, puts, latest, status, step, prev, want, sealing, acked>>

-----------------------------------------------------------------------------
(* Anchoring: anchor_now, seal_and_publish, publish, for one caller at a    *)
(* time (the lock on Pool.last).  The caller's writes are those in the pool *)
(* when it gets the lock.                                                   *)

\* anchor_now: take the lock, find anchoring not stopped, zpool sync.
AnchorStart(g) ==
    /\ Up(g) /\ step[g] = "idle"
    /\ ZpoolSync(g)
    /\ step' = [step EXCEPT ![g] = "sync"]
    /\ want' = [want EXCEPT ![g] = live[g]]
    /\ UNCHANGED <<chain, puts, latest, status, prev, sealing, acked>>

\* Mutant of AnchorNothingNew: any txg at or past the anchor's will do.
AnchorNeverAgain(g) ==
    /\ Up(g) /\ step[g] = "sync"
    /\ Witnessed(g) /\ txg[g] >= prev[g].txg
    /\ Forget(g, "idle")
    /\ acked' = acked \cup want[g]
    /\ UNCHANGED <<chain, puts, latest, status, prev, txg, wrote, data, live,
                   mark, images>>

\* anchor_now: the pool is at the txg the last anchor names, so that anchor
\* already covers the caller, which acknowledges its writes.
AnchorNothingNew(g) ==
    /\ Up(g) /\ step[g] = "sync"
    /\ Witnessed(g) /\ txg[g] = prev[g].txg
    /\ Forget(g, "idle")
    /\ acked' = acked \cup want[g]
    /\ UNCHANGED <<chain, puts, latest, status, prev, txg, wrote, data, live,
                   mark, images>>

\* anchor_now: a failure before the marker is only returned.
AnchorNotBegun(g) ==
    /\ Up(g) /\ step[g] = "sync"
    /\ Forget(g, "idle")
    /\ UNCHANGED <<chain, puts, latest, status, prev, txg, wrote, data, live,
                   mark, images, acked>>

\* seal_and_publish: zfs set is a sync task, back once the txg that holds the
\* marker is on the disk.
WriteMarker(g) ==
    /\ Up(g) /\ step[g] = "sync"
    /\ Witnessed(g) /\ txg[g] # prev[g].txg
    /\ CommitTxg(g, NextMarker(g))
    /\ step' = [step EXCEPT ![g] = "marked"]
    /\ UNCHANGED <<chain, puts, latest, status, prev, want, sealing, acked>>

\* seal_and_publish: the second zpool sync, the txg it reached, which must be
\* past the last anchor's, and the anchor that names it.
SecondSync(g) ==
    /\ Up(g) /\ step[g] = "marked"
    /\ ZpoolSync(g)
    /\ txg'[g] > prev[g].txg
    /\ step' = [step EXCEPT ![g] = "synced"]
    /\ sealing' = [sealing EXCEPT ![g] = Sealed(g, txg'[g])]
    /\ UNCHANGED <<chain, puts, latest, status, prev, want, acked>>

\* generation_exists: has a later boot claimed the generation after g's?
Superseded(g) == latest > g

\* seal_and_publish: the fence, checked before the publish and not with it.
Fence(g) ==
    /\ Up(g) /\ step[g] = "synced"
    /\ ~Superseded(g)
    /\ step' = [step EXCEPT ![g] = "fenced"]
    /\ UNCHANGED <<chain, puts, latest, status, prev, txg, wrote, data, live,
                   mark, images, want, sealing, acked>>

\* publish: the conditional PUT leaves the enclave.
SendPut(g) ==
    /\ Up(g) /\ step[g] = "fenced"
    /\ puts' = puts \cup {sealing[g]}
    /\ step' = [step EXCEPT ![g] = "put"]
    /\ UNCHANGED <<chain, latest, status, prev, txg, wrote, data, live, mark,
                   images, want, sealing, acked>>

\* put_blob_if_not_exists: a PUT reaches the bucket, soon, late or again, its
\* sender alive or not; the retained version of a key is the first to land.
LandPut(a) ==
    /\ a \in puts
    /\ a.seq = Len(chain)
    /\ chain' = Append(chain, a)
    /\ UNCHANGED <<puts, latest, status, step, prev, txg, wrote, data, live,
                   mark, images, want, sealing, acked>>

\* The bucket accepts g's PUT: its key was free, or the host hid the version
\* there under a delete marker.
PutAccepted(g) == Len(chain) > sealing[g].seq

\* Mutant of ReadBack: the bucket's answer to the PUT is believed.
ReadBackSkipped(g) == TRUE

\* The retained version of that key, read back, is what g sent.
ReadBack(g) == chain[sealing[g].seq + 1] = sealing[g]

\* publish returns: the anchor is the new tip and its caller acknowledges.
Anchored(g) ==
    /\ Up(g) /\ step[g] = "put"
    /\ PutAccepted(g) /\ ReadBack(g)
    /\ prev'  = [prev EXCEPT ![g] = sealing[g]]
    /\ Forget(g, "idle")
    /\ acked' = acked \cup want[g]
    /\ UNCHANGED <<chain, puts, latest, status, txg, wrote, data, live, mark,
                   images>>

\* anchor_now: any failure from the marker on (the fence, a lost race, a PUT
\* whose fate is unknown) stops anchoring for good; the enclave runs on.
Stop(g) ==
    /\ Up(g) /\ step[g] \in {"marked", "synced", "fenced", "put"}
    /\ Forget(g, "stopped")
    /\ UNCHANGED <<chain, puts, latest, status, prev, txg, wrote, data, live,
                   mark, images, acked>>

-----------------------------------------------------------------------------
Next ==
    \/ ClaimGeneration
    \/ \E a \in puts : LandPut(a)
    \/ \E g \in Gens :
         \/ ReadTip(g)
         \/ \E d \in images : Import(g, d)
         \/ Die(g)
         \/ \E w \in Writes : Write(g, w)
         \/ BackgroundTxg(g)
         \/ AnchorStart(g)
         \/ AnchorNothingNew(g)
         \/ AnchorNotBegun(g)
         \/ WriteMarker(g)
         \/ SecondSync(g)
         \/ Fence(g)
         \/ SendPut(g)
         \/ Anchored(g)
         \/ Stop(g)

Spec == Init /\ [][Next]_vars

-----------------------------------------------------------------------------
TypeOK ==
    /\ chain \in Seq(Anchors) /\ Len(chain) > 0
    /\ puts \in SUBSET Anchors
    /\ latest \in Gens
    /\ images \in SUBSET Images
    /\ status \in [Gens -> {"off", "claimed", "tip", "up", "dead"}]
    /\ step \in [Gens -> Steps]
    /\ prev \in [Gens -> Anchors]
    /\ txg \in [Gens -> Nat]
    /\ wrote \in [Gens -> BOOLEAN]
    /\ data \in [Gens -> SUBSET Writes]
    /\ live \in [Gens -> SUBSET Writes]
    /\ mark \in [Gens -> Markers]
    /\ want \in [Gens -> SUBSET Writes]
    /\ sealing \in [Gens -> Anchors]
    /\ acked \in SUBSET Writes

\* A boot on any image the newest anchor vouches for finds every write that
\* was ever acknowledged (admit: "everything the anchor covered is there, and
\* anything after it was never acknowledged"), whatever the host rolls back.
AdmittedKeepsAcked ==
    \A d \in images : Admit(Tip, d) => acked \subseteq d.data

\* Every boot and every anchor extends one history: each anchor names the one
\* before it and a later txg, so the check of the chain at a boot never fails.
ChainLinked ==
    \A i \in 2 .. Len(chain) :
        /\ chain[i].seq = i - 1
        /\ chain[i].prev = chain[i - 1].nonce
        /\ chain[i].txg > chain[i - 1].txg

\* The store the protocol implements when boots do not overlap: the pool of
\* the enclave that serves.
Durable == INSTANCE DurableStore WITH
    serving <- Up(latest),
    store   <- IF Up(latest) THEN live[latest] ELSE {},
    acked   <- acked

\* The anchored pool implements a durable store: across crashes, rolled-back
\* disks and late PUTs, what Pool::anchor let a caller acknowledge survives.
ImplementsDurableStore == Durable!Spec

(* Types are kept, and whatever enclaves and late PUTs do the anchors are  *)
(* one linked chain (seal_and_publish, publish).                           *)
ChainHolds ==
  /\ TypeOK
  /\ ChainLinked

=============================================================================
