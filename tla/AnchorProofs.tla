---------------------------- MODULE AnchorProofs ----------------------------
(***************************************************************************)
(* Proofs about the anchor protocol, for every set of writes, every number *)
(* of boots and every length of history.                                   *)
(*                                                                         *)
(* ChainInv holds however boots overlap: anchors, PUTs and markers all     *)
(* extend one chain.  ForkInv adds what holds when at most one enclave     *)
(* runs: the running enclave's nonce is on no image but its own, so a      *)
(* state that holds its marker holds what the anchor will acknowledge.     *)
(***************************************************************************)
EXTENDS Anchor, TLAPS

-----------------------------------------------------------------------------
(* The inductive invariant, whether boots overlap or not.                   *)

Marked == {"marked", "synced", "fenced", "put"}

Sealing == {"synced", "fenced", "put"}

\* A marker that some enclave wrote over an anchor that is on the chain.
Extends(m) ==
    /\ m.seq <= Len(chain)
    /\ m.seq > 0 => m.prev = chain[m.seq].nonce
    /\ m.nonce[2] = m.seq
    /\ m.nonce[1] <= latest

ChainStarts == chain[1] = Genesis

PutsExtend ==
    \A a \in puts :
        /\ a.seq > 0
        /\ Extends(a)
        /\ a.txg > chain[a.seq].txg

BootedOnChain ==
    \A g \in Gens : status[g] \in {"tip", "up"} =>
        /\ prev[g].seq < Len(chain)
        /\ prev[g] = chain[prev[g].seq + 1]

MarkersExtend ==
    /\ \A d \in images : Extends(d.mark)
    /\ \A g \in Gens : Up(g) => Extends(mark[g])

AnchoringOf(g) ==
    /\ g > latest => status[g] = "off"
    /\ ~Up(g) => step[g] = "idle"
    /\ step[g] \in Marked => mark[g] = NextMarker(g)
    /\ step[g] \in Sealing =>
         /\ Property(sealing[g]) = mark[g]
         /\ sealing[g].txg > prev[g].txg
         /\ sealing[g].txg <= txg[g]

AnchoringExtends == \A g \in Gens : AnchoringOf(g)

ChainInv ==
    /\ TypeOK
    /\ ChainStarts
    /\ ChainLinked
    /\ PutsExtend
    /\ BootedOnChain
    /\ MarkersExtend
    /\ AnchoringExtends

-----------------------------------------------------------------------------
(* The inductive invariant when boots do not overlap.  Only the enclave of  *)
(* the latest generation runs.                                              *)

OneRuns == \A g \in Gens : g \in Running => g = latest

Fresh == status[latest] \in {"claimed", "tip"} =>
            \A d \in images : d.mark.nonce[1] # latest

ServingKeepsAcked ==
    Up(latest) => /\ acked \subseteq live[latest]
                  /\ data[latest] \subseteq live[latest]
                  /\ step[latest] # "idle" => want[latest] \subseteq data[latest]

TipKeepsAcked ==
    status[latest] = "tip" =>
        \A d \in images : Admit(prev[latest], d) => acked \subseteq d.data

\* Nothing is sent, marked or published past the anchor after prev.
NoneAhead ==
    status[latest] \in {"tip", "up"} =>
        /\ Len(chain) <= prev[latest].seq + 2
        /\ \A a \in puts : a.seq <= prev[latest].seq + 1
        /\ \A d \in images : d.mark.seq <= prev[latest].seq + 1
        /\ Up(latest) => mark[latest].seq <= prev[latest].seq + 1

\* An image with a nonce of the running enclave is one that enclave wrote.
OwnImages ==
    Up(latest) =>
        /\ \A d \in images : d.mark.nonce[1] = latest =>
             /\ d.txg <= txg[latest]
             /\ d.txg = txg[latest] => d.data = data[latest]
        /\ step[latest] \in {"idle", "sync"} =>
             /\ \A d \in images : d.mark.nonce[1] = latest =>
                  d.mark.seq <= prev[latest].seq
             /\ mark[latest].nonce[1] = latest =>
                  mark[latest].seq <= prev[latest].seq

\* An image with the marker of the anchor under way holds what it covers.
MarkedHoldsWant ==
    step[latest] \in Marked =>
        \A d \in images : d.mark.nonce = mark[latest].nonce =>
            want[latest] \subseteq d.data

PastTheAnchor ==
    Up(latest) =>
        /\ txg[latest] >= prev[latest].txg
        /\ step[latest] \in Marked \cup {"stopped"} => txg[latest] > prev[latest].txg

\* The pool is at the txg of prev only if this enclave published prev, and
\* then nobody has gone on from it.
AtTheAnchor ==
    Up(latest) /\ wrote[latest] /\ txg[latest] = prev[latest].txg =>
        /\ prev[latest].nonce[1] = latest
        /\ Len(chain) = prev[latest].seq + 1
        /\ \A a \in puts : a.seq <= prev[latest].seq
        /\ \A d \in images : d.mark.seq <= prev[latest].seq

ForkInv ==
    /\ OneRuns
    /\ Fresh
    /\ ServingKeepsAcked
    /\ AdmittedKeepsAcked
    /\ TipKeepsAcked
    /\ NoneAhead
    /\ OwnImages
    /\ MarkedHoldsWant
    /\ PastTheAnchor
    /\ AtTheAnchor

-----------------------------------------------------------------------------
(* Types.                                                                   *)

LEMMA GenesisTypes == Genesis \in Anchors /\ Property(Genesis) \in Markers
BY AnchorAssumption DEF Genesis, Property, Anchors, Markers, Nonce, Hashes, NoHash, Gens

LEMMA PropertyType == ASSUME NEW a \in Anchors PROVE Property(a) \in Markers
BY DEF Property, Anchors, Markers

\* What a commit, and a zpool sync, leave of the pool's variables.
LEMMA CommitTypes ==
    ASSUME TypeOK, NEW g \in Gens, NEW m \in Markers, CommitTxg(g, m)
    PROVE  /\ txg' \in [Gens -> Nat]
           /\ wrote' \in [Gens -> BOOLEAN]
           /\ data' \in [Gens -> SUBSET Writes]
           /\ live' \in [Gens -> SUBSET Writes]
           /\ mark' \in [Gens -> Markers]
           /\ images' \in SUBSET Images
<1>1. [txg |-> txg[g] + 1, data |-> live[g], mark |-> m] \in Images
  BY DEF TypeOK, Images
<1>2. QED
  BY <1>1 DEF TypeOK, CommitTxg

LEMMA SyncTypes ==
    ASSUME TypeOK, NEW g \in Gens, ZpoolSync(g)
    PROVE  /\ txg' \in [Gens -> Nat]
           /\ wrote' \in [Gens -> BOOLEAN]
           /\ data' \in [Gens -> SUBSET Writes]
           /\ live' \in [Gens -> SUBSET Writes]
           /\ mark' \in [Gens -> Markers]
           /\ images' \in SUBSET Images
<1>1. CASE Dirty(g)
  <2>1. mark[g] \in Markers
    BY DEF TypeOK
  <2>2. QED
    BY <1>1, <2>1, CommitTypes DEF ZpoolSync
<1>2. CASE ~Dirty(g)
  BY <1>2 DEF ZpoolSync, poolVars, TypeOK
<1>3. QED
  BY <1>1, <1>2

LEMMA NextMarkerType ==
    ASSUME TypeOK, NEW g \in Gens
    PROVE  NextMarker(g) \in Markers
BY SMTT(30) DEF TypeOK, NextMarker, Markers, Anchors, Nonce, Hashes

LEMMA TypeInit == ASSUME Init PROVE TypeOK
<1>1. chain \in Seq(Anchors) /\ Len(chain) > 0
  BY GenesisTypes DEF Init
<1>2. images \in SUBSET Images
  BY GenesisTypes DEF Init, Images
<1>3. QED
  BY <1>1, <1>2, GenesisTypes, AnchorAssumption DEF Init, TypeOK, Gens, Steps

LEMMA TypeStep == ASSUME TypeOK, [Next]_vars PROVE TypeOK'
<1>1. CASE ClaimGeneration
  BY <1>1, AnchorAssumption DEF ClaimGeneration, TypeOK, Gens
<1>2. ASSUME NEW a \in puts, LandPut(a) PROVE TypeOK'
  <2>1. a \in Anchors
    BY DEF TypeOK
  <2>2. chain' \in Seq(Anchors) /\ Len(chain') > 0
    BY <1>2, <2>1 DEF LandPut, TypeOK
  <2>3. QED
    BY <1>2, <2>2 DEF LandPut, TypeOK
<1>3. ASSUME NEW g \in Gens, ReadTip(g) PROVE TypeOK'
  <2>1. Tip \in Anchors
    BY DEF Tip, TypeOK
  <2>2. QED
    BY <1>3, <2>1 DEF ReadTip, TypeOK
<1>4. ASSUME NEW g \in Gens, NEW d \in images, Import(g, d) PROVE TypeOK'
  <2>1. d.txg \in Nat /\ d.data \in SUBSET Writes /\ d.mark \in Markers
    BY DEF TypeOK, Images
  <2>2. QED
    BY <1>4, <2>1 DEF Import, TypeOK
<1>5. ASSUME NEW g \in Gens, Die(g) PROVE TypeOK'
  BY <1>5, GenesisTypes DEF Die, Forget, TypeOK, Steps
<1>6. ASSUME NEW g \in Gens, NEW w \in Writes, Write(g, w) PROVE TypeOK'
  BY <1>6 DEF Write, TypeOK
<1>7. ASSUME NEW g \in Gens, BackgroundTxg(g) PROVE TypeOK'
  <2>1. mark[g] \in Markers
    BY DEF TypeOK
  <2>2. QED
    BY <1>7, <2>1, CommitTypes DEF BackgroundTxg, TypeOK
<1>8. ASSUME NEW g \in Gens, AnchorStart(g) PROVE TypeOK'
  BY <1>8, SyncTypes DEF AnchorStart, TypeOK, Steps
<1>9. ASSUME NEW g \in Gens, AnchorNothingNew(g) PROVE TypeOK'
  BY <1>9, GenesisTypes DEF AnchorNothingNew, Forget, TypeOK, Steps
<1>10. ASSUME NEW g \in Gens, AnchorNotBegun(g) PROVE TypeOK'
  BY <1>10, GenesisTypes DEF AnchorNotBegun, Forget, TypeOK, Steps
<1>11. ASSUME NEW g \in Gens, WriteMarker(g) PROVE TypeOK'
  BY <1>11, NextMarkerType, CommitTypes DEF WriteMarker, TypeOK, Steps
<1>12. ASSUME NEW g \in Gens, SecondSync(g) PROVE TypeOK'
  <2>1. txg' \in [Gens -> Nat]
    BY <1>12, SyncTypes DEF SecondSync
  <2>2. Sealed(g, txg'[g]) \in Anchors
    BY <2>1 DEF Sealed, TypeOK, Markers, Anchors
  <2>3. QED
    BY <1>12, <2>2, SyncTypes DEF SecondSync, TypeOK, Steps
<1>13. ASSUME NEW g \in Gens, Fence(g) PROVE TypeOK'
  BY <1>13 DEF Fence, TypeOK, Steps
<1>14. ASSUME NEW g \in Gens, SendPut(g) PROVE TypeOK'
  BY <1>14 DEF SendPut, TypeOK, Steps
<1>15. ASSUME NEW g \in Gens, Anchored(g) PROVE TypeOK'
  BY <1>15, GenesisTypes DEF Anchored, Forget, TypeOK, Steps
<1>16. ASSUME NEW g \in Gens, Stop(g) PROVE TypeOK'
  BY <1>16, GenesisTypes DEF Stop, Forget, TypeOK, Steps
<1>17. CASE UNCHANGED vars
  BY <1>17 DEF vars, TypeOK
<1>18. QED
  BY <1>1, <1>2, <1>3, <1>4, <1>5, <1>6, <1>7, <1>8, <1>9, <1>10, <1>11,
     <1>12, <1>13, <1>14, <1>15, <1>16, <1>17 DEF Next

\* Every variable keeps its type, in every run of the protocol.
THEOREM TypeCorrect == Spec => []TypeOK
<1>1. Init => TypeOK
  BY TypeInit
<1>2. TypeOK /\ [Next]_vars => TypeOK'
  BY TypeStep
<1>3. QED
  BY <1>1, <1>2, PTL DEF Spec

-----------------------------------------------------------------------------
(* One chain.                                                               *)

LEMMA ChainInit == ASSUME Init PROVE ChainInv
<1>1. ChainStarts /\ ChainLinked /\ PutsExtend
  BY DEF Init, ChainStarts, ChainLinked, PutsExtend
<1>2. BootedOnChain
  <2>1. Genesis.seq = 0 /\ Len(chain) = 1 /\ chain[1] = Genesis
    BY DEF Init, Genesis
  <2>2. QED
    BY <2>1 DEF Init, BootedOnChain
<1>3. Extends(Property(Genesis))
  BY AnchorAssumption DEF Init, Extends, Property, Genesis, Gens
<1>4. MarkersExtend
  BY <1>3 DEF Init, MarkersExtend
<1>5. AnchoringExtends
  BY AnchorAssumption DEF Init, AnchoringExtends, AnchoringOf, Up, Marked, Sealing, Gens
<1>6. QED
  BY <1>1, <1>2, <1>4, <1>5, TypeInit DEF ChainInv

LEMMA TipFacts ==
    ASSUME ChainInv
    PROVE  Tip \in Anchors /\ Tip.seq = Len(chain) - 1
<1>1. CASE Len(chain) = 1
  BY <1>1, GenesisTypes DEF ChainInv, ChainStarts, Tip, Genesis
<1>2. CASE Len(chain) # 1
  <2>1. Tip \in Anchors
    BY DEF ChainInv, TypeOK, Tip
  <2>2. Len(chain) \in Nat /\ Len(chain) > 0
    BY DEF ChainInv, TypeOK
  <2>3. ASSUME NEW n \in Nat, n > 0, n # 1 PROVE n \in 2 .. n
    BY <2>3
  <2>4. QED
    BY <1>2, <2>1, <2>2, <2>3 DEF ChainInv, ChainLinked, Tip
<1>3. QED
  BY <1>1, <1>2

\* What every commit of an enclave's pool does to ChainInv, m being a marker
\* that extends the chain.
LEMMA CommitMarkers ==
    ASSUME ChainInv, NEW g \in Gens, NEW m \in Markers, Extends(m),
           CommitTxg(g, m), UNCHANGED <<chain, latest, status>>
    PROVE  MarkersExtend'
<1>1. Extends(m)'
  BY DEF Extends
<1>2. ASSUME NEW d \in images' PROVE Extends(d.mark)'
  <2>1. CASE d \in images
    BY <2>1 DEF ChainInv, MarkersExtend, Extends
  <2>2. CASE d.mark = m
    BY <2>2, <1>1
  <2>3. QED
    BY <2>1, <2>2 DEF CommitTxg
<1>3. ASSUME NEW h \in Gens, Up(h)' PROVE Extends(mark[h])'
  <2>1. CASE h = g
    BY <2>1, <1>1 DEF CommitTxg, ChainInv, TypeOK
  <2>2. CASE h # g
    BY <2>2, <1>3 DEF CommitTxg, ChainInv, TypeOK, MarkersExtend, Extends, Up
  <2>3. QED
    BY <2>1, <2>2
<1>4. QED
  BY <1>2, <1>3 DEF MarkersExtend

LEMMA SyncMarkers ==
    ASSUME ChainInv, NEW g \in Gens, Up(g), ZpoolSync(g),
           UNCHANGED <<chain, latest, status>>
    PROVE  /\ MarkersExtend'
           /\ mark' = mark
           /\ txg'[g] >= txg[g]
           /\ \A h \in Gens \ {g} : txg'[h] = txg[h]
<1>1. CASE Dirty(g)
  <2>1. CommitTxg(g, mark[g]) /\ mark[g] \in Markers /\ Extends(mark[g])
    BY <1>1 DEF ZpoolSync, ChainInv, TypeOK, MarkersExtend
  <2>2. MarkersExtend'
    BY <2>1, CommitMarkers
  <2>3. mark' = mark
    BY <2>1 DEF CommitTxg, ChainInv, TypeOK
  <2>4. QED
    BY <2>1, <2>2, <2>3 DEF CommitTxg, ChainInv, TypeOK
<1>2. CASE ~Dirty(g)
  BY <1>2 DEF ZpoolSync, poolVars, ChainInv, TypeOK, MarkersExtend, Extends, Up
<1>3. QED
  BY <1>1, <1>2

\* The parts of ChainInv about the chain, where neither it nor the PUTs move.
LEMMA ChainFrame ==
    ASSUME ChainInv, UNCHANGED <<chain, puts, latest>>
    PROVE  ChainStarts' /\ ChainLinked' /\ PutsExtend'
BY DEF ChainInv, ChainStarts, ChainLinked, PutsExtend, Extends

LEMMA AnchoringFrame ==
    ASSUME ChainInv, NEW g \in Gens, UNCHANGED latest, AnchoringOf(g)',
           \A h \in Gens \ {g} :
               /\ status'[h] = status[h] /\ step'[h] = step[h]
               /\ prev'[h] = prev[h] /\ mark'[h] = mark[h]
               /\ sealing'[h] = sealing[h] /\ txg'[h] = txg[h]
    PROVE  AnchoringExtends'
<1>1. ASSUME NEW h \in Gens \ {g} PROVE AnchoringOf(h)'
  BY <1>1 DEF ChainInv, AnchoringExtends, AnchoringOf, Up, NextMarker
<1>2. QED
  BY <1>1 DEF AnchoringExtends

LEMMA ChainStep == ASSUME ChainInv, [Next]_vars PROVE ChainInv'
<1> USE DEF ChainInv
<1>0. TypeOK'
  BY TypeStep
<1>1. CASE ClaimGeneration
  <2>1. latest' = latest + 1 /\ latest' \in Gens /\ latest <= latest'
    BY <1>1, <1>0 DEF ClaimGeneration, TypeOK, Gens
  <2>2. ChainStarts' /\ ChainLinked'
    BY <1>1 DEF ClaimGeneration, ChainStarts, ChainLinked
  <2>3. PutsExtend'
    BY <1>1, <2>1, SMTT(30) DEF ClaimGeneration, PutsExtend, Extends, TypeOK, Anchors, Nonce, Gens
  <2>4. status[latest + 1] = "off" /\ \A g \in Gens : g # latest + 1 => status'[g] = status[g]
    BY <1>1, <2>1 DEF ClaimGeneration, AnchoringExtends, AnchoringOf, TypeOK, Gens
  <2>5. status'[latest + 1] = "claimed"
    BY <1>1, <2>1 DEF ClaimGeneration, TypeOK
  <2>6. BootedOnChain'
    BY <1>1, <2>4, <2>5 DEF ClaimGeneration, BootedOnChain
  <2>7. MarkersExtend'
    <3>1. ASSUME NEW m \in Markers, Extends(m) PROVE Extends(m)'
      BY <1>1, <2>1, <3>1 DEF ClaimGeneration, Extends, Markers, Nonce, Gens, TypeOK
    <3>2. QED
      BY <1>1, <2>4, <2>5, <3>1 DEF ClaimGeneration, MarkersExtend, Up, TypeOK, Images
  <2>8. AnchoringExtends'
    BY <1>1, <2>1, <2>4, <2>5 DEF ClaimGeneration, AnchoringExtends, AnchoringOf, Up,
       TypeOK, Gens, NextMarker
  <2>9. QED
    BY <1>0, <2>2, <2>3, <2>6, <2>7, <2>8
<1>2. ASSUME NEW a \in puts, LandPut(a) PROVE ChainInv'
  <2>1. /\ a \in Anchors /\ chain' = Append(chain, a) /\ a.seq = Len(chain)
        /\ latest' = latest /\ latest \in Gens
    BY <1>2 DEF LandPut, TypeOK
  <2>2. Len(chain') = Len(chain) + 1 /\ chain'[Len(chain) + 1] = a
        /\ \A i \in 1 .. Len(chain) : chain'[i] = chain[i]
    BY <2>1 DEF TypeOK
  <2>3. a.prev = chain[a.seq].nonce /\ a.txg > chain[a.seq].txg
    BY DEF PutsExtend, Extends
  <2>4. ChainStarts' /\ ChainLinked'
    BY <2>1, <2>2, <2>3 DEF ChainStarts, ChainLinked, TypeOK
  <2>5. PutsExtend'
    <3> SUFFICES ASSUME NEW b \in puts PROVE b.seq > 0 /\ Extends(b)' /\ b.txg > chain'[b.seq].txg
      BY <1>2 DEF LandPut, PutsExtend
    <3>1. b \in Anchors /\ b.seq \in 1 .. Len(chain) /\ Extends(b) /\ b.txg > chain[b.seq].txg
      BY DEF PutsExtend, Extends, TypeOK, Anchors
    <3>2. QED
      BY <2>1, <2>2, <3>1 DEF Extends
  <2>6. BootedOnChain'
    <3> SUFFICES ASSUME NEW g \in Gens, status[g] \in {"tip", "up"}
                 PROVE  prev[g].seq < Len(chain') /\ prev[g] = chain'[prev[g].seq + 1]
      BY <1>2 DEF LandPut, BootedOnChain
    <3>1. prev[g].seq \in Nat /\ prev[g].seq < Len(chain) /\ prev[g] = chain[prev[g].seq + 1]
      BY DEF BootedOnChain, TypeOK, Anchors
    <3>2. prev[g].seq + 1 \in 1 .. Len(chain)
      BY <3>1 DEF TypeOK
    <3>3. QED
      BY <2>2, <3>1, <3>2 DEF TypeOK
  <2>7. MarkersExtend'
    <3>1. ASSUME NEW m \in Markers, Extends(m) PROVE Extends(m)'
      BY <2>1, <2>2, <3>1 DEF Extends, Markers, TypeOK
    <3>2. QED
      BY <1>2, <3>1 DEF LandPut, MarkersExtend, Up, TypeOK, Images
  <2>8. AnchoringExtends'
    BY <1>2 DEF LandPut, AnchoringExtends, AnchoringOf, Up, NextMarker
  <2>9. QED
    BY <1>0, <2>4, <2>5, <2>6, <2>7, <2>8
<1>3. ASSUME NEW g \in Gens, ReadTip(g) PROVE ChainInv'
  <2>1. ChainStarts' /\ ChainLinked' /\ PutsExtend'
    BY <1>3, ChainFrame DEF ReadTip
  <2>2. BootedOnChain'
    <3>1. Tip.seq < Len(chain) /\ Tip = chain[Tip.seq + 1]
      BY TipFacts DEF Tip, TypeOK
    <3>2. QED
      BY <1>3, <3>1 DEF ReadTip, BootedOnChain, TypeOK
  <2>3. ~Up(g) /\ ~Up(g)' /\ \A h \in Gens \ {g} : Up(h)' = Up(h) /\ prev'[h] = prev[h]
    BY <1>3 DEF ReadTip, TypeOK, Up
  <2>4. MarkersExtend'
    BY <1>3, <2>3 DEF ReadTip, MarkersExtend, Extends
  <2>5. AnchoringExtends'
    <3>1. step[g] = "idle"
      BY <1>3 DEF ReadTip, AnchoringExtends, AnchoringOf, Up
    <3>2. AnchoringOf(g)'
      BY <1>3, <3>1 DEF ReadTip, AnchoringExtends, AnchoringOf, Up, Marked, Sealing, TypeOK
    <3>3. QED
      BY <1>3, <3>2, AnchoringFrame DEF ReadTip, TypeOK
  <2>6. QED
    BY <1>0, <2>1, <2>2, <2>4, <2>5
<1>4. ASSUME NEW g \in Gens, NEW d \in images, Import(g, d) PROVE ChainInv'
  <2>1. ChainStarts' /\ ChainLinked' /\ PutsExtend'
    BY <1>4, ChainFrame DEF Import
  <2>2. BootedOnChain'
    BY <1>4 DEF Import, BootedOnChain, TypeOK
  <2>3. MarkersExtend'
    BY <1>4 DEF Import, MarkersExtend, Extends, Up, TypeOK
  <2>4. step[g] = "idle" /\ g <= latest
    BY <1>4 DEF Import, AnchoringExtends, AnchoringOf, Up, TypeOK, Gens
  <2>5. AnchoringOf(g)'
    BY <1>4, <2>4 DEF Import, AnchoringOf, Up, Marked, Sealing, TypeOK, Gens
  <2>6. AnchoringExtends'
    BY <1>4, <2>5, AnchoringFrame DEF Import, TypeOK
  <2>7. QED
    BY <1>0, <2>1, <2>2, <2>3, <2>6
<1>5. ASSUME NEW g \in Gens, Die(g) PROVE ChainInv'
  <2>1. ChainStarts' /\ ChainLinked' /\ PutsExtend'
    BY <1>5, ChainFrame DEF Die
  <2>2. BootedOnChain'
    BY <1>5 DEF Die, BootedOnChain, TypeOK
  <2>3. MarkersExtend'
    BY <1>5 DEF Die, MarkersExtend, Extends, Up, TypeOK
  <2>4. AnchoringOf(g)'
    BY <1>5 DEF Die, Forget, Running, AnchoringExtends, AnchoringOf, Up, Marked, Sealing, TypeOK
  <2>5. AnchoringExtends'
    BY <1>5, <2>4, AnchoringFrame DEF Die, Forget, TypeOK
  <2>6. QED
    BY <1>0, <2>1, <2>2, <2>3, <2>5
<1>6. ASSUME NEW g \in Gens, NEW w \in Writes, Write(g, w) PROVE ChainInv'
  BY <1>0, <1>6, ChainFrame DEF Write, BootedOnChain, MarkersExtend, Extends, Up,
     AnchoringExtends, AnchoringOf, NextMarker
<1>7. ASSUME NEW g \in Gens, BackgroundTxg(g) PROVE ChainInv'
  <2>1. ChainStarts' /\ ChainLinked' /\ PutsExtend'
    BY <1>7, ChainFrame DEF BackgroundTxg
  <2>2. BootedOnChain'
    BY <1>7 DEF BackgroundTxg, BootedOnChain
  <2>3. CommitTxg(g, mark[g]) /\ mark[g] \in Markers /\ Extends(mark[g])
    BY <1>7 DEF BackgroundTxg, MarkersExtend, TypeOK
  <2>4. MarkersExtend'
    BY <1>7, <2>3, CommitMarkers DEF BackgroundTxg
  <2>5. AnchoringOf(g)'
    BY <1>7, <2>3, SMTT(30) DEF BackgroundTxg, CommitTxg, AnchoringExtends, AnchoringOf, Up, NextMarker,
       TypeOK, Anchors
  <2>6. AnchoringExtends'
    BY <1>7, <2>3, <2>5, AnchoringFrame DEF BackgroundTxg, CommitTxg, TypeOK
  <2>7. QED
    BY <1>0, <2>1, <2>2, <2>4, <2>6
<1>8. ASSUME NEW g \in Gens, AnchorStart(g) PROVE ChainInv'
  <2>1. ChainStarts' /\ ChainLinked' /\ PutsExtend'
    BY <1>8, ChainFrame DEF AnchorStart
  <2>2. BootedOnChain'
    BY <1>8 DEF AnchorStart, BootedOnChain
  <2>3. MarkersExtend' /\ mark' = mark /\ \A h \in Gens \ {g} : txg'[h] = txg[h]
    BY <1>8, SyncMarkers DEF AnchorStart
  <2>4. AnchoringOf(g)'
    BY <1>8 DEF AnchorStart, AnchoringExtends, AnchoringOf, Up, Marked, Sealing, TypeOK
  <2>5. AnchoringExtends'
    BY <1>8, <2>3, <2>4, AnchoringFrame DEF AnchorStart, TypeOK
  <2>6. QED
    BY <1>0, <2>1, <2>2, <2>3, <2>5
<1>9. ASSUME NEW g \in Gens, AnchorNothingNew(g) \/ AnchorNotBegun(g) \/ Stop(g) PROVE ChainInv'
  <2> USE DEF AnchorNothingNew, AnchorNotBegun, Stop, Forget
  <2>1. ChainStarts' /\ ChainLinked' /\ PutsExtend'
    BY <1>9, ChainFrame
  <2>2. BootedOnChain' /\ MarkersExtend'
    BY <1>9 DEF BootedOnChain, MarkersExtend, Extends, Up
  <2>3. AnchoringOf(g)'
    BY <1>9 DEF AnchoringExtends, AnchoringOf, Up, Marked, Sealing, TypeOK
  <2>4. AnchoringExtends'
    BY <1>9, <2>3, AnchoringFrame DEF TypeOK
  <2>5. QED
    BY <1>0, <2>1, <2>2, <2>4
<1>10. ASSUME NEW g \in Gens, WriteMarker(g) PROVE ChainInv'
  <2>1. ChainStarts' /\ ChainLinked' /\ PutsExtend'
    BY <1>10, ChainFrame DEF WriteMarker
  <2>2. BootedOnChain'
    BY <1>10 DEF WriteMarker, BootedOnChain
  <2>3. CommitTxg(g, NextMarker(g)) /\ NextMarker(g) \in Markers /\ Up(g)
    BY <1>10, NextMarkerType DEF WriteMarker
  <2>4. Extends(NextMarker(g))
    <3>1. prev[g].seq \in Nat /\ prev[g].seq < Len(chain) /\ prev[g] = chain[prev[g].seq + 1]
      BY <2>3 DEF BootedOnChain, Up, TypeOK, Anchors
    <3>2. g <= latest
      BY <2>3 DEF AnchoringExtends, AnchoringOf, Up, TypeOK, Gens
    <3>3. QED
      BY <3>1, <3>2 DEF Extends, NextMarker, TypeOK
  <2>5. MarkersExtend'
    BY <1>10, <2>3, <2>4, CommitMarkers DEF WriteMarker
  <2>6. AnchoringOf(g)'
    BY <1>10, <2>3 DEF WriteMarker, CommitTxg, AnchoringExtends, AnchoringOf, Up, NextMarker,
       Sealing, TypeOK
  <2>7. AnchoringExtends'
    BY <1>10, <2>3, <2>6, AnchoringFrame DEF WriteMarker, CommitTxg, TypeOK
  <2>8. QED
    BY <1>0, <2>1, <2>2, <2>5, <2>7
<1>11. ASSUME NEW g \in Gens, SecondSync(g) PROVE ChainInv'
  <2>1. ChainStarts' /\ ChainLinked' /\ PutsExtend'
    BY <1>11, ChainFrame DEF SecondSync
  <2>2. BootedOnChain'
    BY <1>11 DEF SecondSync, BootedOnChain
  <2>3. MarkersExtend' /\ mark' = mark /\ \A h \in Gens \ {g} : txg'[h] = txg[h]
    BY <1>11, SyncMarkers DEF SecondSync
  <2>4. sealing'[g] = Sealed(g, txg'[g]) /\ txg'[g] \in Nat
    BY <1>0, <1>11 DEF SecondSync, TypeOK
  <2>5. Property(sealing'[g]) = mark[g]
    BY <2>4 DEF Property, Sealed, TypeOK, Markers
  <2>6. AnchoringOf(g)'
    BY <1>11, <2>3, <2>4, <2>5 DEF SecondSync, Sealed, AnchoringExtends, AnchoringOf, Up,
       NextMarker, Marked, Property, TypeOK
  <2>7. AnchoringExtends'
    BY <1>11, <2>3, <2>6, AnchoringFrame DEF SecondSync, TypeOK
  <2>8. QED
    BY <1>0, <2>1, <2>2, <2>3, <2>7
<1>12. ASSUME NEW g \in Gens, Fence(g) PROVE ChainInv'
  <2>1. BootedOnChain' /\ MarkersExtend'
    BY <1>12 DEF Fence, BootedOnChain, MarkersExtend, Extends, Up
  <2>2. AnchoringOf(g)'
    BY <1>12 DEF Fence, AnchoringExtends, AnchoringOf, Up, NextMarker, Marked, Sealing, TypeOK
  <2>3. AnchoringExtends'
    BY <1>12, <2>2, AnchoringFrame DEF Fence, TypeOK
  <2>4. QED
    BY <1>0, <1>12, <2>1, <2>3, ChainFrame DEF Fence
<1>13. ASSUME NEW g \in Gens, SendPut(g) PROVE ChainInv'
  <2>1. ChainStarts' /\ ChainLinked' /\ BootedOnChain' /\ MarkersExtend'
    BY <1>13 DEF SendPut, ChainStarts, ChainLinked, BootedOnChain, MarkersExtend, Extends, Up
  <2>2. /\ sealing[g].seq = prev[g].seq + 1 /\ sealing[g].prev = prev[g].nonce
        /\ sealing[g].nonce = <<g, prev[g].seq + 1>> /\ sealing[g].txg > prev[g].txg
    BY <1>13 DEF SendPut, AnchoringExtends, AnchoringOf, Marked, Sealing, NextMarker, Property,
       TypeOK, Anchors
  <2>3. prev[g].seq \in Nat /\ prev[g].seq < Len(chain) /\ prev[g] = chain[prev[g].seq + 1]
    BY <1>13 DEF SendPut, BootedOnChain, Up, TypeOK, Anchors
  <2>4. g <= latest
    BY <1>13 DEF SendPut, AnchoringExtends, AnchoringOf, Up, TypeOK, Gens
  <2>5. sealing[g].seq > 0 /\ Extends(sealing[g]) /\ sealing[g].txg > chain[sealing[g].seq].txg
    BY <2>2, <2>3, <2>4 DEF Extends, TypeOK
  <2>6. PutsExtend'
    BY <1>13, <2>5 DEF SendPut, PutsExtend, Extends
  <2>7. AnchoringOf(g)'
    BY <1>13 DEF SendPut, AnchoringExtends, AnchoringOf, Up, NextMarker, Marked, Sealing, TypeOK
  <2>8. AnchoringExtends'
    BY <1>13, <2>7, AnchoringFrame DEF SendPut, TypeOK
  <2>9. QED
    BY <1>0, <2>1, <2>6, <2>8
<1>14. ASSUME NEW g \in Gens, Anchored(g) PROVE ChainInv'
  <2>1. ChainStarts' /\ ChainLinked' /\ PutsExtend'
    BY <1>14, ChainFrame DEF Anchored
  <2>2. BootedOnChain'
    <3>1. sealing[g].seq < Len(chain) /\ sealing[g] = chain[sealing[g].seq + 1]
      BY <1>14 DEF Anchored, PutAccepted, ReadBack, TypeOK, Anchors
    <3>2. QED
      BY <1>14, <3>1 DEF Anchored, BootedOnChain, TypeOK
  <2>3. MarkersExtend'
    BY <1>14 DEF Anchored, MarkersExtend, Extends, Up
  <2>4. AnchoringOf(g)'
    BY <1>14 DEF Anchored, Forget, AnchoringExtends, AnchoringOf, Up, Marked, Sealing, TypeOK
  <2>5. AnchoringExtends'
    BY <1>14, <2>4, AnchoringFrame DEF Anchored, Forget, TypeOK
  <2>6. QED
    BY <1>0, <2>1, <2>2, <2>3, <2>5
<1>15. CASE UNCHANGED vars
  BY <1>0, <1>15, ChainFrame DEF vars, BootedOnChain, MarkersExtend, Extends, Up,
     AnchoringExtends, AnchoringOf, NextMarker
<1>16. QED
  BY <1>1, <1>2, <1>3, <1>4, <1>5, <1>6, <1>7, <1>8, <1>9, <1>10, <1>11, <1>12,
     <1>13, <1>14, <1>15 DEF Next

\* Anchors form one linked history with increasing txgs, however enclaves
\* overlap, die and have their PUTs delayed: the chain check of Pool::open
\* (zfs.load(seq - 1).hash() = tip.prev) never refuses a boot.
THEOREM ChainIsLinked == Spec => []ChainLinked
<1>1. Init => ChainInv
  BY ChainInit
<1>2. ChainInv /\ [Next]_vars => ChainInv'
  BY ChainStep
<1>3. ChainInv => ChainLinked
  BY DEF ChainInv
<1>4. QED
  BY <1>1, <1>2, <1>3, PTL DEF Spec

\* Both together: what seal_and_publish keeps of its chain whoever else runs.
THEOREM ChainAlwaysHolds == Spec => []ChainHolds
<1>1. TypeOK /\ ChainLinked => ChainHolds
  BY DEF ChainHolds
<1>2. QED
  BY <1>1, TypeCorrect, ChainIsLinked, PTL

-----------------------------------------------------------------------------
(* No acknowledged write is lost, when boots do not overlap.                *)

LEMMA ForkInit == ASSUME Init PROVE ForkInv
<1>0. Genesis.seq = 0 /\ Genesis.txg = 1 /\ Genesis.nonce = <<0, 0>>
      /\ Property(Genesis).seq = 0 /\ Property(Genesis).nonce = <<0, 0>>
  BY DEF Genesis, Property
<1>1. /\ latest = 0 /\ 0 \in Gens /\ status[0] = "up" /\ step[0] = "idle"
      /\ prev[0] = Genesis /\ txg[0] = 1 /\ data[0] = {} /\ live[0] = {}
      /\ mark[0] = Property(Genesis) /\ Len(chain) = 1 /\ puts = {} /\ acked = {}
  BY AnchorAssumption DEF Init, Gens
<1>2. \A d \in images : d.mark = Property(Genesis) /\ d.txg = 1 /\ d.data = {}
  BY DEF Init
<1>3. OneRuns
  BY <1>1 DEF Init, OneRuns, Running
<1>4. Fresh /\ ServingKeepsAcked /\ TipKeepsAcked /\ AdmittedKeepsAcked
  BY <1>1 DEF Fresh, ServingKeepsAcked, TipKeepsAcked, AdmittedKeepsAcked
<1>5. NoneAhead /\ OwnImages /\ AtTheAnchor
  BY <1>0, <1>1, <1>2 DEF NoneAhead, OwnImages, AtTheAnchor
<1>6. MarkedHoldsWant /\ PastTheAnchor
  BY <1>0, <1>1 DEF MarkedHoldsWant, PastTheAnchor, Marked
<1>7. QED
  BY <1>3, <1>4, <1>5, <1>6 DEF ForkInv

\* The latest enclave commits a txg with its own or an older marker m.
LEMMA ForkCommit ==
    ASSUME ChainInv, ForkInv, Up(latest), NEW m \in Markers, CommitTxg(latest, m),
           m.seq <= prev[latest].seq + 1,
           UNCHANGED <<chain, puts, latest, status, prev, acked>>
    PROVE  /\ OneRuns' /\ Fresh' /\ AdmittedKeepsAcked' /\ TipKeepsAcked'
           /\ NoneAhead' /\ AtTheAnchor'
           /\ acked' \subseteq live'[latest]
           /\ data'[latest] = live[latest] /\ live' = live
           /\ mark'[latest] = m
           /\ txg'[latest] = txg[latest] + 1 /\ txg'[latest] > prev[latest].txg
           /\ \A d \in images' : d.mark.nonce[1] = latest =>
                /\ d.txg <= txg'[latest]
                /\ d.txg = txg'[latest] => d.data = data'[latest]
<1> USE DEF ForkInv
<1>1. latest \in Gens /\ txg[latest] \in Nat /\ prev[latest] \in Anchors
  BY DEF ChainInv, TypeOK
<1>2. DEFINE new == [txg |-> txg[latest] + 1, data |-> live[latest], mark |-> m]
<1>3. images' = images \cup {new}
  BY DEF CommitTxg
<1>4. /\ data'[latest] = live[latest] /\ live' = live /\ mark'[latest] = m
      /\ txg'[latest] = txg[latest] + 1
  BY <1>1 DEF CommitTxg, ChainInv, TypeOK
<1>5. acked \subseteq live[latest]
  BY DEF ServingKeepsAcked
<1>6. txg'[latest] > prev[latest].txg
  BY <1>1, <1>4 DEF PastTheAnchor, Anchors
<1>7. new.txg = txg[latest] + 1 /\ new.data = live[latest] /\ new.mark = m
  OBVIOUS
<1> HIDE DEF new
<1>8. OneRuns' /\ Fresh'
  BY DEF OneRuns, Running, Fresh, Up
<1>9. AdmittedKeepsAcked'
  BY <1>3, <1>5, <1>7 DEF AdmittedKeepsAcked, Admit, Tip
<1>10. TipKeepsAcked'
  BY DEF TipKeepsAcked, Up
<1>11. NoneAhead'
  BY <1>3, <1>4, <1>7 DEF NoneAhead, Up
<1>12. AtTheAnchor'
  BY <1>1, <1>6 DEF AtTheAnchor, Anchors
<1>13. \A d \in images' : d.mark.nonce[1] = latest =>
          /\ d.txg <= txg'[latest]
          /\ d.txg = txg'[latest] => d.data = data'[latest]
  <2> SUFFICES ASSUME NEW d \in images', d.mark.nonce[1] = latest
               PROVE  d.txg <= txg'[latest] /\ (d.txg = txg'[latest] => d.data = data'[latest])
    OBVIOUS
  <2>1. CASE d \in images
    <3>1. d.txg \in Nat /\ d.txg <= txg[latest]
      BY <2>1 DEF OwnImages, ChainInv, TypeOK, Images
    <3>2. QED
      BY <1>1, <1>4, <3>1
  <2>2. CASE d = new
    BY <1>1, <1>4, <1>7, <2>2
  <2>3. QED
    BY <1>3, <2>1, <2>2
<1>14. QED
  BY <1>4, <1>5, <1>6, <1>8, <1>9, <1>10, <1>11, <1>12, <1>13

LEMMA ForkSync ==
    ASSUME ChainInv, ForkInv, Up(latest), ZpoolSync(latest),
           UNCHANGED <<chain, puts, latest, status, prev, acked>>
    PROVE  /\ OneRuns' /\ Fresh' /\ AdmittedKeepsAcked' /\ TipKeepsAcked'
           /\ NoneAhead' /\ AtTheAnchor'
           /\ acked' \subseteq live'[latest]
           /\ data'[latest] = live[latest] /\ live' = live
           /\ mark'[latest] = mark[latest]
           /\ txg'[latest] >= txg[latest]
           /\ \A d \in images' : d.mark.nonce[1] = latest =>
                /\ d.txg <= txg'[latest]
                /\ d.txg = txg'[latest] => d.data = data'[latest]
           /\ \A d \in images' : d \in images \/ (d.mark = mark[latest] /\ d.data = live[latest])
<1>1. latest \in Gens /\ txg[latest] \in Nat /\ mark[latest] \in Markers
  BY DEF ChainInv, TypeOK
<1>2. CASE Dirty(latest)
  <2>1. CommitTxg(latest, mark[latest])
    BY <1>2 DEF ZpoolSync
  <2>2. mark[latest].seq <= prev[latest].seq + 1
    BY DEF ForkInv, NoneAhead, Up
  <2>3. images' = images \cup {[txg |-> txg[latest] + 1, data |-> live[latest], mark |-> mark[latest]]}
    BY <2>1 DEF CommitTxg
  <2>4. \A d \in images' : d \in images \/ (d.mark = mark[latest] /\ d.data = live[latest])
    BY <2>3
  <2>5. txg'[latest] >= txg[latest]
    BY <1>1, <2>1 DEF CommitTxg, ChainInv, TypeOK
  <2>6. QED
    BY <1>1, <2>1, <2>2, <2>4, <2>5, ForkCommit
<1>3. CASE ~Dirty(latest)
  <2>1. UNCHANGED poolVars /\ live[latest] = data[latest]
    BY <1>3 DEF ZpoolSync, Dirty
  <2>2. OneRuns' /\ Fresh' /\ AdmittedKeepsAcked' /\ TipKeepsAcked' /\ NoneAhead' /\ AtTheAnchor'
    BY <2>1 DEF poolVars, ForkInv, OneRuns, Running, Fresh, AdmittedKeepsAcked, TipKeepsAcked,
       NoneAhead, AtTheAnchor, Admit, Tip, Up
  <2>3. acked \subseteq live[latest] /\ \A d \in images : d.mark.nonce[1] = latest =>
                /\ d.txg <= txg[latest]
                /\ d.txg = txg[latest] => d.data = data[latest]
    BY DEF ForkInv, ServingKeepsAcked, OwnImages
  <2>4. QED
    BY <1>1, <2>1, <2>2, <2>3 DEF poolVars
<1>4. QED
  BY <1>2, <1>3

\* Steps that touch neither the pool nor the chain, nor what is acknowledged.
LEMMA ForkFrame ==
    ASSUME ForkInv, UNCHANGED <<chain, puts, latest, status, prev, images, acked>>
    PROVE  OneRuns' /\ Fresh' /\ AdmittedKeepsAcked' /\ TipKeepsAcked'
BY DEF ForkInv, OneRuns, Running, Fresh, AdmittedKeepsAcked, TipKeepsAcked, Admit, Tip

LEMMA ForkStep == ASSUME ~Overlap, ChainInv, ForkInv, [Next]_vars PROVE ForkInv'
<1> USE DEF ForkInv
<1>0. /\ latest \in Gens /\ ChainInv' /\ latest' \in Gens
      /\ Len(chain) \in Nat /\ Len(chain) > 0
  BY ChainStep DEF ChainInv, TypeOK
<1>00. ASSUME NEW g \in Gens, Up(g) \/ status[g] \in {"claimed", "tip"} PROVE g = latest
  BY <1>00 DEF OneRuns, Running, Up
<1>1. CASE ClaimGeneration
  <2>1. Running = {} /\ latest' = latest + 1 /\ latest' # latest /\ status'[latest'] = "claimed"
    BY <1>0, <1>1 DEF ClaimGeneration, ChainInv, TypeOK, Gens
  <2>2. \A g \in Gens : g # latest' => status'[g] = status[g] /\ status[g] \notin {"claimed", "tip", "up"}
    BY <1>1, <2>1 DEF ClaimGeneration, Running, ChainInv, TypeOK
  <2>3. OneRuns'
    BY <2>2 DEF OneRuns, Running
  <2>4. Fresh'
    BY <1>0, <1>1, <2>1 DEF ClaimGeneration, Fresh, ChainInv, MarkersExtend, Extends, TypeOK, Images,
       Markers, Nonce, Gens
  <2>5. AdmittedKeepsAcked'
    BY <1>1 DEF ClaimGeneration, AdmittedKeepsAcked, Admit, Tip
  <2>6. step'[latest'] = "idle"
    BY <1>0, <1>1, <2>1 DEF ChainInv, AnchoringExtends, AnchoringOf, Up
  <2>7. QED
    BY <2>1, <2>3, <2>4, <2>5, <2>6 DEF ServingKeepsAcked, TipKeepsAcked, NoneAhead, OwnImages,
       MarkedHoldsWant, PastTheAnchor, AtTheAnchor, Up, Marked
<1>2. ASSUME NEW a \in puts, LandPut(a) PROVE ForkInv'
  <2>1. /\ a \in Anchors /\ chain' = Append(chain, a) /\ a.seq = Len(chain)
        /\ Len(chain') = Len(chain) + 1 /\ Tip' = a
    BY <1>0, <1>2 DEF LandPut, ChainInv, TypeOK, Tip
  <2>2. a.prev = Tip.nonce /\ a.txg > Tip.txg /\ a.seq = Tip.seq + 1 /\ Tip \in Anchors
    BY <1>0, <2>1, TipFacts DEF ChainInv, PutsExtend, Extends, Tip
  <2>3. AdmittedKeepsAcked'
    <3> SUFFICES ASSUME NEW d \in images, Admit(a, d) PROVE acked \subseteq d.data
      BY <1>2, <2>1 DEF LandPut, AdmittedKeepsAcked, Admit
    <3>1. d.mark.seq \in Nat /\ d.mark.seq <= Len(chain) /\ d.txg \in Nat
      BY DEF ChainInv, MarkersExtend, Extends, TypeOK, Images, Markers
    <3>2. d.mark = Property(a)
      BY <1>0, <2>1, <3>1 DEF Admit
    <3>3. d.mark.seq = Tip.seq + 1 /\ d.mark.prev = Tip.nonce
      BY <2>2, <3>2 DEF Property
    <3>4. d.txg >= Tip.txg
      BY <2>1, <2>2, <3>1 DEF Admit, Anchors
    <3>5. Admit(Tip, d)
      BY <3>3, <3>4 DEF Admit
    <3>6. QED
      BY <3>5 DEF AdmittedKeepsAcked
  <2>4. OneRuns' /\ Fresh' /\ ServingKeepsAcked' /\ TipKeepsAcked' /\ OwnImages'
        /\ MarkedHoldsWant' /\ PastTheAnchor'
    BY <1>2 DEF LandPut, OneRuns, Running, Fresh, ServingKeepsAcked, TipKeepsAcked, OwnImages,
       MarkedHoldsWant, PastTheAnchor, Up, Admit
  <2>5. NoneAhead'
    BY <1>2, <2>1 DEF LandPut, NoneAhead, Up, ChainInv, TypeOK, Anchors
  <2>6. AtTheAnchor'
    BY <1>0, <1>2, <2>1 DEF LandPut, AtTheAnchor, Up, ChainInv, TypeOK, Anchors
  <2>7. QED
    BY <2>3, <2>4, <2>5, <2>6
<1>3. ASSUME NEW g \in Gens, ReadTip(g) PROVE ForkInv'
  <2>1. g = latest /\ status'[latest] = "tip" /\ prev'[latest] = Tip /\ latest' = latest
    BY <1>00, <1>3 DEF ReadTip, ChainInv, TypeOK
  <2>2. OneRuns' /\ Fresh' /\ AdmittedKeepsAcked'
    BY <1>3, <2>1 DEF ReadTip, OneRuns, Running, Fresh, AdmittedKeepsAcked, Admit, Tip, ChainInv, TypeOK
  <2>3. TipKeepsAcked'
    BY <1>3, <2>1 DEF ReadTip, AdmittedKeepsAcked, TipKeepsAcked, Admit
  <2>4. NoneAhead'
    <3>1. Tip.seq + 1 = Len(chain) /\ Tip.seq \in Nat
      BY <1>0, TipFacts DEF Anchors
    <3>2. (\A a \in puts : a.seq <= Len(chain)) /\ (\A d \in images : d.mark.seq <= Len(chain))
      BY DEF ChainInv, PutsExtend, MarkersExtend, Extends
    <3>3. QED
      BY <1>3, <2>1, <3>1, <3>2 DEF ReadTip, NoneAhead, Up
  <2>5. step'[latest] = "idle"
    BY <1>0, <1>3, <2>1 DEF ReadTip, ChainInv, AnchoringExtends, AnchoringOf, Up
  <2>6. QED
    BY <2>1, <2>2, <2>3, <2>4, <2>5 DEF ServingKeepsAcked, OwnImages, MarkedHoldsWant,
       PastTheAnchor, AtTheAnchor, Up, Marked
<1>4. ASSUME NEW g \in Gens, NEW d \in images, Import(g, d) PROVE ForkInv'
  <2>1. /\ g = latest /\ status'[latest] = "up" /\ latest' = latest /\ status[latest] = "tip"
        /\ txg'[latest] = d.txg /\ wrote'[latest] = FALSE /\ data'[latest] = d.data
        /\ live'[latest] = d.data /\ mark'[latest] = d.mark /\ prev' = prev
        /\ images' = images /\ acked' = acked
    BY <1>00, <1>4 DEF Import, ChainInv, TypeOK
  <2>2. step'[latest] = "idle"
    BY <1>4, <2>1 DEF Import, ChainInv, AnchoringExtends, AnchoringOf, Up
  <2>3. OneRuns' /\ Fresh' /\ AdmittedKeepsAcked' /\ TipKeepsAcked'
    BY <1>4, <2>1 DEF Import, OneRuns, Running, Fresh, AdmittedKeepsAcked, TipKeepsAcked, Admit, Tip,
       ChainInv, TypeOK
  <2>4. ServingKeepsAcked'
    BY <1>4, <2>1, <2>2 DEF Import, ServingKeepsAcked, TipKeepsAcked
  <2>5. NoneAhead'
    BY <1>4, <2>1 DEF Import, NoneAhead
  <2>6. OwnImages'
    BY <2>1, <2>2 DEF OwnImages, Fresh
  <2>7. PastTheAnchor'
    BY <1>4, <2>1, <2>2 DEF Import, PastTheAnchor, Admit, Marked
  <2>8. QED
    BY <2>1, <2>2, <2>3, <2>4, <2>5, <2>6, <2>7 DEF MarkedHoldsWant, AtTheAnchor, Marked
<1>5. ASSUME NEW g \in Gens, Die(g) PROVE ForkInv'
  <2>1. g = latest /\ status'[latest] = "dead" /\ latest' = latest /\ step'[latest] = "idle"
    BY <1>5 DEF Die, Forget, OneRuns, ChainInv, TypeOK
  <2>2. OneRuns' /\ AdmittedKeepsAcked'
    BY <1>5, <2>1 DEF Die, OneRuns, Running, AdmittedKeepsAcked, Admit, Tip, ChainInv, TypeOK
  <2>3. QED
    BY <2>1, <2>2 DEF Fresh, ServingKeepsAcked, TipKeepsAcked, NoneAhead, OwnImages,
       MarkedHoldsWant, PastTheAnchor, AtTheAnchor, Up, Marked
<1>6. ASSUME NEW g \in Gens, NEW w \in Writes, Write(g, w) PROVE ForkInv'
  <2>1. g = latest /\ live'[latest] = live[latest] \cup {w}
    BY <1>00, <1>6 DEF Write, ChainInv, TypeOK
  <2>2. ServingKeepsAcked'
    BY <1>6, <2>1 DEF Write, ServingKeepsAcked, Up
  <2>3. QED
    BY <1>6, <2>2, ForkFrame DEF Write, NoneAhead, OwnImages, MarkedHoldsWant, PastTheAnchor,
       AtTheAnchor, Up
<1>7. ASSUME NEW g \in Gens, BackgroundTxg(g) PROVE ForkInv'
  <2>1. g = latest /\ Up(latest) /\ CommitTxg(latest, mark[latest]) /\ mark[latest] \in Markers
    BY <1>00, <1>7 DEF BackgroundTxg, ChainInv, TypeOK
  <2>2. UNCHANGED <<chain, puts, latest, status, step, prev, want, acked>>
    BY <1>7 DEF BackgroundTxg
  <2>3. mark[latest].seq <= prev[latest].seq + 1
    BY <2>1 DEF NoneAhead, Up
  <2>4. /\ OneRuns' /\ Fresh' /\ AdmittedKeepsAcked' /\ TipKeepsAcked' /\ NoneAhead' /\ AtTheAnchor'
        /\ acked' \subseteq live'[latest] /\ data'[latest] = live[latest] /\ live' = live
        /\ mark'[latest] = mark[latest] /\ txg'[latest] > prev[latest].txg
        /\ \A d \in images' : d.mark.nonce[1] = latest =>
             d.txg <= txg'[latest] /\ (d.txg = txg'[latest] => d.data = data'[latest])
    BY <2>1, <2>2, <2>3, ForkCommit
  <2>5. \A d \in images' : d \in images \/ (d.mark = mark[latest] /\ d.data = live[latest])
    BY <2>1 DEF CommitTxg
  <2>6. ServingKeepsAcked'
    BY <2>1, <2>2, <2>4 DEF ServingKeepsAcked
  <2>7. OwnImages'
    BY <2>1, <2>2, <2>4, <2>5 DEF OwnImages, Up
  <2>8. MarkedHoldsWant'
    BY <2>1, <2>2, <2>4, <2>5 DEF MarkedHoldsWant, ServingKeepsAcked, Marked
  <2>9. PastTheAnchor'
    BY <1>0, <2>2, <2>4 DEF PastTheAnchor, ChainInv, TypeOK, Anchors
  <2>10. QED
    BY <2>4, <2>6, <2>7, <2>8, <2>9
<1>8. ASSUME NEW g \in Gens, AnchorStart(g) PROVE ForkInv'
  <2>1. /\ g = latest /\ Up(latest) /\ ZpoolSync(latest) /\ step[latest] = "idle"
        /\ step'[latest] = "sync" /\ want'[latest] = live[latest]
        /\ UNCHANGED <<chain, puts, latest, status, prev, acked>>
    BY <1>00, <1>8 DEF AnchorStart, ChainInv, TypeOK
  <2>2. /\ OneRuns' /\ Fresh' /\ AdmittedKeepsAcked' /\ TipKeepsAcked' /\ NoneAhead' /\ AtTheAnchor'
        /\ acked' \subseteq live'[latest] /\ data'[latest] = live[latest] /\ live' = live
        /\ mark'[latest] = mark[latest] /\ txg'[latest] >= txg[latest]
        /\ \A d \in images' : d.mark.nonce[1] = latest =>
             d.txg <= txg'[latest] /\ (d.txg = txg'[latest] => d.data = data'[latest])
        /\ \A d \in images' : d \in images \/ (d.mark = mark[latest] /\ d.data = live[latest])
    BY <2>1, ForkSync
  <2>3. ServingKeepsAcked'
    BY <2>1, <2>2 DEF ServingKeepsAcked
  <2>4. OwnImages'
    BY <2>1, <2>2 DEF OwnImages, Up
  <2>5. MarkedHoldsWant'
    BY <2>1 DEF MarkedHoldsWant, Marked
  <2>6. PastTheAnchor'
    BY <1>0, <2>1, <2>2 DEF PastTheAnchor, Marked, ChainInv, TypeOK, Anchors
  <2>7. QED
    BY <2>2, <2>3, <2>4, <2>5, <2>6
<1>9. ASSUME NEW g \in Gens, AnchorNothingNew(g) PROVE ForkInv'
  <2>1. /\ g = latest /\ Up(latest) /\ step[latest] = "sync" /\ wrote[latest]
        /\ txg[latest] = prev[latest].txg /\ step'[latest] = "idle"
        /\ acked' = acked \cup want[latest]
        /\ UNCHANGED <<chain, puts, latest, status, prev, txg, wrote, data, live, mark, images>>
    BY <1>00, <1>9 DEF AnchorNothingNew, Forget, Witnessed, ChainInv, TypeOK
  <2>2. want[latest] \subseteq data[latest] /\ data[latest] \subseteq live[latest]
    BY <2>1 DEF ServingKeepsAcked
  <2>3. /\ prev[latest].nonce[1] = latest /\ Len(chain) = prev[latest].seq + 1
        /\ \A d \in images : d.mark.seq <= prev[latest].seq
    BY <2>1 DEF AtTheAnchor
  <2>4. Tip = prev[latest] /\ prev[latest].seq \in Nat
    BY <2>1, <2>3 DEF Tip, ChainInv, BootedOnChain, Up, TypeOK, Anchors
  <2>5. ASSUME NEW d \in images, Admit(Tip, d) PROVE want[latest] \subseteq d.data
    <3>1. d.txg >= txg[latest] /\ d.txg \in Nat /\ txg[latest] \in Nat /\ d.mark.seq \in Nat
      BY <1>0, <2>1, <2>4, <2>5 DEF Admit, ChainInv, TypeOK, Images, Markers
    <3>2. d.mark.seq # prev[latest].seq + 1
      BY <2>3, <2>4, <3>1
    <3>3. d.mark = Property(Tip)
      BY <2>4, <2>5, <3>2 DEF Admit
    <3>4. d.mark.nonce[1] = latest
      BY <2>3, <2>4, <3>3 DEF Property
    <3>5. d.data = data[latest]
      BY <2>1, <3>1, <3>4, SMTT(30) DEF OwnImages
    <3>6. QED
      BY <2>2, <3>5
  <2>6. AdmittedKeepsAcked'
    BY <2>1, <2>5 DEF AdmittedKeepsAcked, Admit, Tip
  <2>7. OneRuns' /\ Fresh' /\ TipKeepsAcked'
    BY <2>1 DEF OneRuns, Running, Fresh, TipKeepsAcked, Up
  <2>8. ServingKeepsAcked'
    BY <2>1, <2>2 DEF ServingKeepsAcked
  <2>9. NoneAhead' /\ OwnImages' /\ PastTheAnchor' /\ AtTheAnchor'
    BY <2>1 DEF NoneAhead, OwnImages, PastTheAnchor, AtTheAnchor, Up, Marked
  <2>10. QED
    BY <2>1, <2>6, <2>7, <2>8, <2>9 DEF MarkedHoldsWant, Marked
<1>10. ASSUME NEW g \in Gens, AnchorNotBegun(g) PROVE ForkInv'
  <2>1. /\ g = latest /\ Up(latest) /\ step[latest] = "sync" /\ step'[latest] = "idle"
        /\ UNCHANGED <<chain, puts, latest, status, prev, txg, wrote, data, live, mark, images, acked>>
    BY <1>00, <1>10 DEF AnchorNotBegun, Forget, ChainInv, TypeOK
  <2>2. ServingKeepsAcked' /\ MarkedHoldsWant'
    BY <2>1 DEF ServingKeepsAcked, MarkedHoldsWant, Marked
  <2>3. NoneAhead' /\ OwnImages' /\ PastTheAnchor' /\ AtTheAnchor'
    BY <2>1 DEF NoneAhead, OwnImages, PastTheAnchor, AtTheAnchor, Up, Marked
  <2>4. QED
    BY <2>1, <2>2, <2>3, ForkFrame
<1>11. ASSUME NEW g \in Gens, WriteMarker(g) PROVE ForkInv'
  <2>1. /\ g = latest /\ Up(latest) /\ step[latest] = "sync" /\ step'[latest] = "marked"
        /\ CommitTxg(latest, NextMarker(latest)) /\ NextMarker(latest) \in Markers
        /\ UNCHANGED <<chain, puts, latest, status, prev, want, acked>>
    BY <1>00, <1>11, NextMarkerType DEF WriteMarker, ChainInv, TypeOK
  <2>2. /\ NextMarker(latest).seq = prev[latest].seq + 1 /\ prev[latest].seq \in Nat
        /\ NextMarker(latest).nonce = <<latest, prev[latest].seq + 1>>
    BY <1>0 DEF NextMarker, ChainInv, TypeOK, Anchors
  <2>3. /\ OneRuns' /\ Fresh' /\ AdmittedKeepsAcked' /\ TipKeepsAcked' /\ NoneAhead' /\ AtTheAnchor'
        /\ acked' \subseteq live'[latest] /\ data'[latest] = live[latest] /\ live' = live
        /\ mark'[latest] = NextMarker(latest) /\ txg'[latest] > prev[latest].txg
        /\ \A d \in images' : d.mark.nonce[1] = latest =>
             d.txg <= txg'[latest] /\ (d.txg = txg'[latest] => d.data = data'[latest])
    BY <2>1, <2>2, ForkCommit
  <2>4. \A d \in images' : d \in images \/ d.data = live[latest]
    BY <2>1 DEF CommitTxg
  <2>5. want[latest] \subseteq live[latest]
    BY <2>1 DEF ServingKeepsAcked
  <2>6. ServingKeepsAcked'
    BY <2>1, <2>3 DEF ServingKeepsAcked
  <2>7. OwnImages'
    BY <2>1, <2>3 DEF OwnImages
  <2>8. MarkedHoldsWant'
    <3> SUFFICES ASSUME NEW d \in images', d.mark.nonce = <<latest, prev[latest].seq + 1>>
                 PROVE  want[latest] \subseteq d.data
      BY <2>1, <2>2, <2>3 DEF MarkedHoldsWant
    <3>1. CASE d \in images
      <4>1. d.mark.nonce[1] = latest /\ d.mark.seq = prev[latest].seq + 1
        BY <3>1 DEF ChainInv, MarkersExtend, Extends
      <4>2. d.mark.seq <= prev[latest].seq
        BY <2>1, <3>1, <4>1 DEF OwnImages
      <4>3. QED
        BY <2>2, <4>1, <4>2
    <3>2. CASE d.data = live[latest]
      BY <2>5, <3>2
    <3>3. QED
      BY <2>4, <3>1, <3>2
  <2>9. PastTheAnchor'
    BY <1>0, <2>1, <2>3 DEF PastTheAnchor, ChainInv, TypeOK, Anchors
  <2>10. QED
    BY <2>3, <2>6, <2>7, <2>8, <2>9
<1>12. ASSUME NEW g \in Gens, SecondSync(g) PROVE ForkInv'
  <2>1. /\ g = latest /\ Up(latest) /\ ZpoolSync(latest) /\ step[latest] = "marked"
        /\ step'[latest] = "synced"
        /\ UNCHANGED <<chain, puts, latest, status, prev, want, acked>>
    BY <1>00, <1>12 DEF SecondSync, ChainInv, TypeOK
  <2>2. /\ OneRuns' /\ Fresh' /\ AdmittedKeepsAcked' /\ TipKeepsAcked' /\ NoneAhead' /\ AtTheAnchor'
        /\ acked' \subseteq live'[latest] /\ data'[latest] = live[latest] /\ live' = live
        /\ mark'[latest] = mark[latest] /\ txg'[latest] >= txg[latest]
        /\ \A d \in images' : d.mark.nonce[1] = latest =>
             d.txg <= txg'[latest] /\ (d.txg = txg'[latest] => d.data = data'[latest])
        /\ \A d \in images' : d \in images \/ (d.mark = mark[latest] /\ d.data = live[latest])
    BY <2>1, ForkSync
  <2>3. want[latest] \subseteq live[latest]
    BY <2>1 DEF ServingKeepsAcked
  <2>4. ServingKeepsAcked'
    BY <2>1, <2>2, <2>3 DEF ServingKeepsAcked
  <2>5. OwnImages'
    BY <2>1, <2>2 DEF OwnImages
  <2>6. MarkedHoldsWant'
    BY <2>1, <2>2, <2>3 DEF MarkedHoldsWant, Marked
  <2>7. PastTheAnchor'
    BY <1>0, <2>1, <2>2 DEF PastTheAnchor, Marked, ChainInv, TypeOK, Anchors
  <2>8. QED
    BY <2>2, <2>4, <2>5, <2>6, <2>7
<1>13. ASSUME NEW g \in Gens, Fence(g) PROVE ForkInv'
  <2>1. /\ g = latest /\ Up(latest) /\ step[latest] = "synced" /\ step'[latest] = "fenced"
        /\ UNCHANGED <<chain, puts, latest, status, prev, txg, wrote, data, live, mark, images, want, acked>>
    BY <1>00, <1>13 DEF Fence, ChainInv, TypeOK
  <2>2. ServingKeepsAcked' /\ MarkedHoldsWant' /\ NoneAhead' /\ OwnImages' /\ PastTheAnchor' /\ AtTheAnchor'
    BY <2>1 DEF ServingKeepsAcked, MarkedHoldsWant, NoneAhead, OwnImages, PastTheAnchor, AtTheAnchor,
       Up, Marked
  <2>3. QED
    BY <2>1, <2>2, ForkFrame
<1>14. ASSUME NEW g \in Gens, SendPut(g) PROVE ForkInv'
  <2>1. /\ g = latest /\ Up(latest) /\ step[latest] = "fenced" /\ step'[latest] = "put"
        /\ puts' = puts \cup {sealing[latest]}
        /\ UNCHANGED <<chain, latest, status, prev, txg, wrote, data, live, mark, images, want, acked>>
    BY <1>00, <1>14 DEF SendPut, ChainInv, TypeOK
  <2>2. sealing[latest].seq = prev[latest].seq + 1
    BY <1>0, <2>1 DEF ChainInv, AnchoringExtends, AnchoringOf, Marked, Sealing, NextMarker, Property,
       TypeOK, Anchors
  <2>3. NoneAhead'
    BY <1>0, <2>1, <2>2 DEF NoneAhead, Up, ChainInv, TypeOK, Anchors
  <2>4. txg[latest] # prev[latest].txg
    BY <1>0, <2>1 DEF PastTheAnchor, Marked, ChainInv, TypeOK, Anchors
  <2>5. AtTheAnchor'
    BY <2>1, <2>4 DEF AtTheAnchor
  <2>6. ServingKeepsAcked' /\ MarkedHoldsWant' /\ OwnImages' /\ PastTheAnchor'
    BY <2>1 DEF ServingKeepsAcked, MarkedHoldsWant, OwnImages, PastTheAnchor, Up, Marked
  <2>7. OneRuns' /\ Fresh' /\ AdmittedKeepsAcked' /\ TipKeepsAcked'
    BY <2>1 DEF OneRuns, Running, Fresh, AdmittedKeepsAcked, TipKeepsAcked, Admit, Tip
  <2>8. QED
    BY <2>3, <2>5, <2>6, <2>7
<1>15. ASSUME NEW g \in Gens, Anchored(g) PROVE ForkInv'
  <2>1. /\ g = latest /\ Up(latest) /\ step[latest] = "put" /\ step'[latest] = "idle"
        /\ PutAccepted(latest) /\ ReadBack(latest) /\ prev'[latest] = sealing[latest]
        /\ acked' = acked \cup want[latest]
        /\ UNCHANGED <<chain, puts, latest, status, txg, wrote, data, live, mark, images>>
    BY <1>00, <1>15 DEF Anchored, Forget, ChainInv, TypeOK
  <2>2. /\ sealing[latest].seq = prev[latest].seq + 1 /\ sealing[latest].nonce[1] = latest
        /\ Property(sealing[latest]) = mark[latest] /\ prev[latest].seq \in Nat
        /\ sealing[latest].txg <= txg[latest]
    BY <1>0, <2>1 DEF ChainInv, AnchoringExtends, AnchoringOf, Marked, Sealing, NextMarker, Property,
       TypeOK, Anchors
  <2>3. Len(chain) = sealing[latest].seq + 1 /\ Tip = sealing[latest]
    BY <1>0, <2>1, <2>2 DEF PutAccepted, ReadBack, NoneAhead, Up, Tip
  <2>4. /\ \A a \in puts : a.seq <= sealing[latest].seq
        /\ \A d \in images : d.mark.seq <= sealing[latest].seq
        /\ mark[latest].seq = sealing[latest].seq
    BY <2>1, <2>2 DEF NoneAhead, Up, Property
  <2>5. want[latest] \subseteq data[latest] /\ data[latest] \subseteq live[latest]
    BY <2>1 DEF ServingKeepsAcked
  <2>6. ASSUME NEW d \in images, Admit(Tip, d) PROVE want[latest] \subseteq d.data
    <3>1. d.mark.seq # sealing[latest].seq + 1
      BY <2>2, <2>4 DEF ChainInv, TypeOK, Images, Markers
    <3>2. d.mark = mark[latest]
      BY <2>2, <2>3, <2>6, <3>1 DEF Admit
    <3>3. QED
      BY <2>1, <3>2 DEF MarkedHoldsWant, Marked
  <2>7. AdmittedKeepsAcked'
    BY <2>1, <2>6 DEF AdmittedKeepsAcked, Admit, Tip
  <2>8. OneRuns' /\ Fresh' /\ TipKeepsAcked' /\ MarkedHoldsWant'
    BY <2>1 DEF OneRuns, Running, Fresh, TipKeepsAcked, MarkedHoldsWant, Up, Marked
  <2>9. ServingKeepsAcked'
    BY <2>1, <2>5 DEF ServingKeepsAcked
  <2>10. NoneAhead'
    <3>1. /\ \A a \in puts : a.seq \in Nat
          /\ \A d \in images : d.mark.seq \in Nat
          /\ mark[latest].seq \in Nat
      BY <1>0 DEF ChainInv, TypeOK, Images, Markers, Anchors
    <3>2. sealing[latest].seq \in Nat
      BY <2>2
    <3>3. /\ Len(chain) <= sealing[latest].seq + 2
          /\ \A a \in puts : a.seq <= sealing[latest].seq + 1
          /\ \A d \in images : d.mark.seq <= sealing[latest].seq + 1
          /\ mark[latest].seq <= sealing[latest].seq + 1
      BY <2>3, <2>4, <3>1, <3>2
    <3>4. QED
      BY <2>1, <3>3 DEF NoneAhead
  <2>11. OwnImages'
    <3>1. mark[latest].seq <= sealing[latest].seq
      BY <2>2, <2>4
    <3>2. \A d \in images : d.mark.nonce[1] = latest =>
            d.txg <= txg[latest] /\ (d.txg = txg[latest] => d.data = data[latest])
      BY <2>1 DEF OwnImages
    <3>3. QED
      BY <2>1, <2>4, <3>1, <3>2 DEF OwnImages
  <2>12. PastTheAnchor'
    BY <2>1, <2>2 DEF PastTheAnchor, Marked
  <2>13. AtTheAnchor'
    BY <2>1, <2>2, <2>3, <2>4 DEF AtTheAnchor
  <2>14. QED
    BY <2>7, <2>8, <2>9, <2>10, <2>11, <2>12, <2>13
<1>16. ASSUME NEW g \in Gens, Stop(g) PROVE ForkInv'
  <2>1. /\ g = latest /\ Up(latest) /\ step[latest] \in Marked /\ step'[latest] = "stopped"
        /\ want'[latest] = {}
        /\ UNCHANGED <<chain, puts, latest, status, prev, txg, wrote, data, live, mark, images, acked>>
    BY <1>00, <1>16 DEF Stop, Forget, Marked, ChainInv, TypeOK
  <2>2. ServingKeepsAcked' /\ MarkedHoldsWant' /\ NoneAhead' /\ OwnImages' /\ PastTheAnchor' /\ AtTheAnchor'
    BY <2>1 DEF ServingKeepsAcked, MarkedHoldsWant, NoneAhead, OwnImages, PastTheAnchor, AtTheAnchor,
       Up, Marked
  <2>3. QED
    BY <2>1, <2>2, ForkFrame
<1>17. CASE UNCHANGED vars
  BY <1>17, ForkFrame DEF vars, ServingKeepsAcked, MarkedHoldsWant, NoneAhead, OwnImages,
     PastTheAnchor, AtTheAnchor, Up
<1>18. QED
  BY <1>1, <1>2, <1>3, <1>4, <1>5, <1>6, <1>7, <1>8, <1>9, <1>10, <1>11, <1>12,
     <1>13, <1>14, <1>15, <1>16, <1>17 DEF Next

\* While one enclave runs at a time, an image the newest anchor vouches for
\* holds every acknowledged write, whatever the host rolls the disk back to
\* and however late a dead enclave's PUT lands.
THEOREM AckedSurvives == ASSUME ~Overlap PROVE Spec => []AdmittedKeepsAcked
<1>1. Init => ChainInv /\ ForkInv
  BY ChainInit, ForkInit
<1>2. ChainInv /\ ForkInv /\ [Next]_vars => ChainInv' /\ ForkInv'
  BY ChainStep, ForkStep
<1>3. ForkInv => AdmittedKeepsAcked
  BY DEF ForkInv
<1>4. QED
  BY <1>1, <1>2, <1>3, PTL DEF Spec

-----------------------------------------------------------------------------
(* The refinement.                                                          *)

\* The store's variables do not change in a step that keeps them.
LEMMA DurableStutters ==
    ASSUME UNCHANGED <<latest, status, live, acked>>
    PROVE  UNCHANGED Durable!vars
BY DEF Durable!vars, Up

LEMMA DurableStep ==
    ASSUME ~Overlap, ChainInv, ForkInv, [Next]_vars
    PROVE  [Durable!Next]_(Durable!vars)
<1> USE DEF ForkInv
<1>0. latest \in Gens /\ ForkInv'
  BY ForkStep DEF ChainInv, TypeOK
<1>00. ASSUME NEW g \in Gens, Up(g) \/ status[g] \in {"claimed", "tip"} PROVE g = latest
  BY <1>00 DEF OneRuns, Running, Up
<1>1. CASE ClaimGeneration
  <2>1. ~Up(latest) /\ ~Up(latest)' /\ acked' = acked
    <3>1. latest' \in Gens /\ latest' = latest + 1
      BY <1>1, ChainStep DEF ClaimGeneration, ChainInv, TypeOK
    <3>2. status'[latest'] = "claimed" /\ status[latest] # "up" /\ acked' = acked
      BY <1>0, <1>1, <3>1 DEF ClaimGeneration, Running, ChainInv, TypeOK
    <3>3. QED
      BY <3>2 DEF Up
  <2>2. QED
    BY <2>1 DEF Durable!vars, Up
<1>2. ASSUME NEW a \in puts, LandPut(a) PROVE UNCHANGED Durable!vars
  BY <1>2, DurableStutters DEF LandPut
<1>3. ASSUME NEW g \in Gens, ReadTip(g) PROVE UNCHANGED Durable!vars
  <2>1. ~Up(latest) /\ ~Up(latest)' /\ acked' = acked
    BY <1>00, <1>3 DEF ReadTip, Up, ChainInv, TypeOK
  <2>2. QED
    BY <2>1 DEF Durable!vars, Up
<1>4. ASSUME NEW g \in Gens, NEW d \in images, Import(g, d) PROVE Durable!Return(d.data) /\ d.data \in SUBSET Writes
  <2>1. /\ ~Up(latest) /\ Up(latest)' /\ live'[latest'] = d.data /\ acked' = acked
        /\ d.data \in SUBSET Writes
    BY <1>00, <1>4 DEF Import, Up, ChainInv, TypeOK, Images
  <2>2. acked \subseteq d.data
    BY <1>0, <2>1 DEF ServingKeepsAcked
  <2>3. QED
    BY <2>1, <2>2 DEF Durable!Return
<1>5. ASSUME NEW g \in Gens, Die(g) PROVE [Durable!Next]_(Durable!vars)
  <2>1. ~Up(latest)' /\ acked' = acked
    BY <1>5 DEF Die, OneRuns, Up, ChainInv, TypeOK
  <2>2. CASE Up(latest)
    BY <2>1, <2>2 DEF Durable!Next, Durable!Vanish
  <2>3. CASE ~Up(latest)
    BY <2>1, <2>3 DEF Durable!vars, Up
  <2>4. QED
    BY <2>2, <2>3
<1>6. ASSUME NEW g \in Gens, NEW w \in Writes, Write(g, w) PROVE Durable!Write(w)
  <2>1. /\ Up(latest) /\ Up(latest)' /\ latest' = latest /\ acked' = acked
        /\ live'[latest] = live[latest] \cup {w}
    BY <1>00, <1>6 DEF Write, Up, ChainInv, TypeOK
  <2>2. QED
    BY <2>1 DEF Durable!Write
<1>7. ASSUME NEW g \in Gens,
             BackgroundTxg(g) \/ AnchorStart(g) \/ WriteMarker(g) \/ SecondSync(g)
      PROVE  UNCHANGED Durable!vars
  BY <1>7, DurableStutters DEF BackgroundTxg, AnchorStart, WriteMarker, SecondSync, ZpoolSync,
     CommitTxg, poolVars
<1>8. ASSUME NEW g \in Gens, AnchorNotBegun(g) \/ Fence(g) \/ SendPut(g) \/ Stop(g)
      PROVE  UNCHANGED Durable!vars
  BY <1>8, DurableStutters DEF AnchorNotBegun, Fence, SendPut, Stop
<1>9. ASSUME NEW g \in Gens, AnchorNothingNew(g) \/ Anchored(g)
      PROVE  Durable!Ack(want[latest]) /\ want[latest] \in SUBSET Writes
  <2>1. /\ g = latest /\ Up(latest) /\ step[latest] # "idle" /\ acked' = acked \cup want[latest]
        /\ UNCHANGED <<latest, status, live>>
    BY <1>00, <1>9 DEF AnchorNothingNew, Anchored, Up
  <2>2. want[latest] \subseteq live[latest] /\ want[latest] \in SUBSET Writes
    BY <1>0, <2>1 DEF ServingKeepsAcked, ChainInv, TypeOK
  <2>3. QED
    BY <2>1, <2>2 DEF Durable!Ack, Up
<1>10. CASE UNCHANGED vars
  BY <1>10, DurableStutters DEF vars
<1>11. QED
  BY <1>1, <1>2, <1>3, <1>4, <1>5, <1>6, <1>7, <1>8, <1>9, <1>10 DEF Next, Durable!Next

\* While one enclave runs at a time, the anchored pool is a durable store: it
\* vanishes and returns, but never without a write that Pool::anchor let its
\* caller acknowledge.
THEOREM AnchoringIsDurable == ASSUME ~Overlap PROVE Spec => ImplementsDurableStore
<1>1. Init => ChainInv /\ ForkInv
  BY ChainInit, ForkInit
<1>2. ChainInv /\ ForkInv /\ [Next]_vars => ChainInv' /\ ForkInv'
  BY ChainStep, ForkStep
<1>3. Init => Durable!Init
  <2> SUFFICES ASSUME Init PROVE Durable!Init
    OBVIOUS
  <2>1. Up(latest) /\ live[latest] = {} /\ acked = {}
    BY AnchorAssumption DEF Init, Up, Gens
  <2>2. QED
    BY <2>1 DEF Durable!Init
<1>4. ChainInv /\ ForkInv /\ [Next]_vars => [Durable!Next]_(Durable!vars)
  BY DurableStep
<1>5. QED
  BY <1>1, <1>2, <1>3, <1>4, PTL DEF Spec, ImplementsDurableStore, Durable!Spec
=============================================================================
