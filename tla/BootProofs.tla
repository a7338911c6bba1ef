----------------------------- MODULE BootProofs -----------------------------
(***************************************************************************)
(* What a boot relies on: GenesisHolds of module Boot, TipFound of module  *)
(* ChainTip, DocumentsHold of module Front, RandomnessHolds of module      *)
(* Entropy and RecordsHold of module ObjectStore.                          *)
(*                                                                         *)
(* GenesisHolds for any number of enclaves, guests and secrets, stopped    *)
(* and restarted any number of times.  It is not inductive: what an        *)
(* enclave will write depends on what it carries from the requests it has  *)
(* made.  Two things make it so.  The store's objects are written once and *)
(* in one order, each naming the one before it (WrittenInOrder); and what  *)
(* an enclave carries at a step is what the store holds or what it is the  *)
(* only one to know (Carries).  That two enclaves are never in genesis     *)
(* past the parameter is not needed: both would carry the same master.     *)
(***************************************************************************)
EXTENDS MCBoot, Sequences, FiniteSets, FiniteSetTheorems, WellFoundedInduction,
        TLAPS

(* The store, object by object.                                            *)
WrittenInOrder ==
  /\ key # None => ssm # None /\ key = Encode(ssm)
  /\ pool # None => pool = ssm /\ key = Encode(ssm)
  /\ receipt # None => pool # None /\ receipt = Payload("state-origin", StateRoot(pool, key))

Before  == {"measured", "receipt_read", "open", "mint"}
Genesis == {"key", "create", "receipt"}
Open    == {"open", "opened"}
Rooted  == {"record", "put_pair", "up"}
Keyed   == {"opened", "parameter"} \cup Genesis \cup Rooted

(* What an enclave carries.                                                *)
Carries(e) ==
  LET n == enclave[e] IN
  /\ n.at = "off" => n = Off
  /\ n.at # "off" => n.guest # None
  /\ n.at \in Before \cup Keyed => n.pcr16 = n.guest
  /\ n.at \in Keyed => n.pcr16 = Pinned /\ n.master # None
  /\ n.at \notin Keyed => n.master = None
  /\ n.receipt # None => n.receipt = receipt
  /\ n.at \in Open => n.receipt # None /\ n.sealed = key /\ key # None
  /\ n.at \in Genesis => n.master = ssm
  /\ n.at \in {"create", "receipt"} => n.sealed = key /\ key # None
  /\ n.at = "receipt" => pool = n.master /\ n.root = StateRoot(pool, key)
  /\ n.at = "opened" => n.master = ssm
  /\ n.at \in Rooted => /\ receipt # None /\ n.root = StateRoot(pool, key)
                        /\ n.master = pool

Inv ==
  /\ GenesisHolds
  /\ WrittenInOrder
  /\ \A e \in Enclaves : Carries(e)

LEMMA Initially == Init => Inv
BY BootAssumption DEF Init, Inv, GenesisHolds, TypeOK, OneOrigin, ServedIsRecorded,
       PinnedGuestAlone, ReceiptIsLast, WrittenInOrder, Carries, Off, Opt, Steps,
       Before, Genesis, Open, Rooted, Keyed

(* Every variable keeps its type.                                          *)
LEMMA TypesStep ==
  ASSUME Inv, [Next]_vars
  PROVE  TypeOK'
<1> USE BootAssumption DEF Inv, GenesisHolds, TypeOK, At, Goto, Refuse, store, Opt, Steps,
    Off
<1>1. ASSUME NEW e \in Enclaves, FetchGuest(e) PROVE TypeOK'
  BY <1>1 DEF FetchGuest
<1>2. ASSUME NEW e \in Enclaves, MeasureGuest(e) PROVE TypeOK'
  BY <1>2 DEF MeasureGuest
<1>3. ASSUME NEW e \in Enclaves, ReadReceipt(e) PROVE TypeOK'
  BY <1>3 DEF ReadReceipt
<1>4. ASSUME NEW e \in Enclaves, ReadSealedKey(e) PROVE TypeOK'
  BY <1>4 DEF ReadSealedKey
<1>5. ASSUME NEW e \in Enclaves, OpenKey(e) PROVE TypeOK'
  BY <1>5 DEF OpenKey
<1>6. ASSUME NEW e \in Enclaves, OpenPool(e) PROVE TypeOK'
  BY <1>6 DEF OpenPool, StateRoot, Roots, Sealed
<1>7. ASSUME NEW e \in Enclaves, Mint(e) PROVE TypeOK'
  <2>1. CASE VerifyKey(e)
    <3>1. PICK s \in Secrets :
            enclave' = [enclave EXCEPT ![e].master = s, ![e].at = "parameter"]
      BY <1>7, <2>1 DEF Mint
    <3>2. UNCHANGED <<bucket, store, stops, uploads, served>> /\ At(e, "mint")
      BY <1>7 DEF Mint
    <3> QED BY <2>1, <3>1, <3>2 DEF VerifyKey
  <2>2. CASE ~VerifyKey(e)
    BY <1>7, <2>2 DEF Mint
  <2> QED BY <2>1, <2>2
<1>8. ASSUME NEW e \in Enclaves, PutParameter(e) PROVE TypeOK'
  BY <1>8 DEF PutParameter
<1>9. ASSUME NEW e \in Enclaves, PutKey(e) PROVE TypeOK'
  BY <1>9 DEF PutKey, Encode, Sealed
<1>10. ASSUME NEW e \in Enclaves, CreatePool(e) PROVE TypeOK'
  BY <1>10 DEF CreatePool, StateRoot, Roots, Carries, Keyed, Genesis
<1>11. ASSUME NEW e \in Enclaves, PutReceipt(e) PROVE TypeOK'
  BY <1>11 DEF PutReceipt, Payload, Records, Carries, StateRoot, Roots
<1>a. ASSUME NEW e \in Enclaves, At(e, "record") \/ At(e, "put_pair")
     PROVE  enclave[e].root \in Roots /\ enclave[e].master \in Secrets /\ enclave[e].guest \in Guests
  <2>1. Carries(e) /\ enclave[e].at \in Rooted
    BY <1>a DEF Rooted
  <2>2. /\ receipt # None /\ enclave[e].root = StateRoot(pool, key) /\ enclave[e].master = pool
        /\ enclave[e].guest # None
    BY ONLY <2>1 DEF Carries, Rooted
  <2>3. pool \in Secrets /\ key \in Sealed
    BY <2>2 DEF WrittenInOrder, Encode, Sealed
  <2> QED BY <2>2, <2>3 DEF StateRoot, Roots
<1>b. ASSUME NEW e \in Enclaves, At(e, "record") \/ At(e, "put_pair"),
              NEW mode \in Opt({"Genesis", "Resume", "Upgrade"}), Up(e, mode)
     PROVE  /\ enclave' \in [Enclaves -> [at : Steps, guest : Opt(Guests), pcr16 : Opt(Guests),
                   receipt : Opt(Records), sealed : Opt(Sealed), master : Opt(Secrets), root : Opt(Roots),
                   mode : Opt({"Genesis", "Resume", "Upgrade"})]]
              /\ served' \subseteq [root : Roots, master : Secrets, guest : Guests]
  BY <1>a, <1>b DEF Up
<1>12. ASSUME NEW e \in Enclaves, FindPair(e) PROVE TypeOK'
  <2>1. UNCHANGED <<bucket, store, stops, uploads>> /\ At(e, "record")
    BY <1>12 DEF FindPair
  <2>2. CASE Up(e, enclave[e].mode)
    <3>1. enclave[e].mode \in Opt({"Genesis", "Resume", "Upgrade"})
      OBVIOUS
    <3> QED BY <1>b, <2>1, <2>2, <3>1
  <2>3. CASE ~Up(e, enclave[e].mode)
    BY <1>12, <2>1, <2>3 DEF FindPair
  <2> QED BY <2>2, <2>3
<1>13. ASSUME NEW e \in Enclaves, PutPair(e) PROVE TypeOK'
  <2> DEFINE found == pairs[RecordKey(e)]
             root == enclave[e].root
  <2>1. UNCHANGED <<bucket, ssm, key, pool, receipt, stops, uploads>> /\ At(e, "put_pair")
    BY <1>13 DEF PutPair
  <2>2. NewMode(e) \in Opt({"Genesis", "Resume", "Upgrade"})
    BY DEF NewMode
  <2>3. Payload("state-pair", root) \in Records
    BY <1>a, <2>1 DEF Payload, Records
  <2>4. CASE found = None
    <3>1. pairs' = [pairs EXCEPT ![RecordKey(e)] = Payload("state-pair", root)] /\ Up(e, NewMode(e))
      BY <1>13, <2>4 DEF PutPair
    <3> QED BY <1>b, <2>1, <2>2, <2>3, <3>1
  <2>5. CASE found # None /\ VerifyPairRecord(found, root)
    <3>1. UNCHANGED pairs /\ Up(e, NewMode(e))
      BY <1>13, <2>5 DEF PutPair
    <3> QED BY <1>b, <2>1, <2>2, <3>1
  <2>6. CASE found # None /\ ~VerifyPairRecord(found, root)
    <3>1. Refuse(e) /\ UNCHANGED <<pairs, served>>
      BY <1>13, <2>6 DEF PutPair
    <3> QED BY <2>1, <3>1
  <2> QED BY <2>4, <2>5, <2>6
<1>14. ASSUME NEW e \in Enclaves, Stop(e) PROVE TypeOK'
  BY <1>14 DEF Stop
<1>15. ASSUME NEW g \in Guests, UploadGuest(g) PROVE TypeOK'
  BY <1>15 DEF UploadGuest
<1>16. CASE UNCHANGED vars
  BY <1>16 DEF vars
<1> QED BY <1>1, <1>2, <1>3, <1>4, <1>5, <1>6, <1>7, <1>8, <1>9, <1>10, <1>11, <1>12, <1>13,
    <1>14, <1>15, <1>16 DEF Next, Step

(* What was written stays, and in its order.                               *)
LEMMA StoreStep ==
  ASSUME Inv, [Next]_vars
  PROVE  WrittenInOrder'
<1> USE BootAssumption DEF Inv, GenesisHolds, TypeOK, At, Goto, Refuse, store, Opt,
    WrittenInOrder
<1>1. ASSUME NEW e \in Enclaves, FetchGuest(e) PROVE WrittenInOrder'
  BY <1>1 DEF FetchGuest
<1>2. ASSUME NEW e \in Enclaves, MeasureGuest(e) PROVE WrittenInOrder'
  BY <1>2 DEF MeasureGuest
<1>3. ASSUME NEW e \in Enclaves, ReadReceipt(e) PROVE WrittenInOrder'
  BY <1>3 DEF ReadReceipt
<1>4. ASSUME NEW e \in Enclaves, ReadSealedKey(e) PROVE WrittenInOrder'
  BY <1>4 DEF ReadSealedKey
<1>5. ASSUME NEW e \in Enclaves, OpenKey(e) PROVE WrittenInOrder'
  BY <1>5 DEF OpenKey
<1>6. ASSUME NEW e \in Enclaves, OpenPool(e) PROVE WrittenInOrder'
  BY <1>6 DEF OpenPool
<1>7. ASSUME NEW e \in Enclaves, Mint(e) PROVE WrittenInOrder'
  BY <1>7 DEF Mint
<1>8. ASSUME NEW e \in Enclaves, PutParameter(e) PROVE WrittenInOrder'
  BY <1>8 DEF PutParameter, Carries, Genesis, Keyed, Encode, Sealed, StateRoot
<1>9. ASSUME NEW e \in Enclaves, PutKey(e) PROVE WrittenInOrder'
  BY <1>9 DEF PutKey, Carries, Genesis, Keyed, Encode, Sealed, StateRoot
<1>10. ASSUME NEW e \in Enclaves, CreatePool(e) PROVE WrittenInOrder'
  BY <1>10 DEF CreatePool, Carries, Genesis, Keyed, Encode, Sealed, StateRoot
<1>11. ASSUME NEW e \in Enclaves, PutReceipt(e) PROVE WrittenInOrder'
  BY <1>11 DEF PutReceipt, Carries, Genesis, Keyed, Encode, Sealed, StateRoot
<1>12. ASSUME NEW e \in Enclaves, FindPair(e) PROVE WrittenInOrder'
  BY <1>12 DEF FindPair
<1>13. ASSUME NEW e \in Enclaves, PutPair(e) PROVE WrittenInOrder'
  BY <1>13 DEF PutPair
<1>14. ASSUME NEW e \in Enclaves, Stop(e) PROVE WrittenInOrder'
  BY <1>14 DEF Stop
<1>15. ASSUME NEW g \in Guests, UploadGuest(g) PROVE WrittenInOrder'
  BY <1>15 DEF UploadGuest
<1>16. CASE UNCHANGED vars
  BY <1>16 DEF vars
<1> QED BY <1>1, <1>2, <1>3, <1>4, <1>5, <1>6, <1>7, <1>8, <1>9, <1>10, <1>11, <1>12, <1>13,
    <1>14, <1>15, <1>16 DEF Next, Step

(* An enclave carries what the store has.                                  *)
LEMMA CarriedStep ==
  ASSUME Inv, [Next]_vars
  PROVE  \A d \in Enclaves : Carries(d)'
<1> USE BootAssumption DEF Inv, GenesisHolds, TypeOK, At, Goto, Refuse, store, Opt, Off,
    Carries,
           Before, Genesis, Open, Rooted, Keyed, WrittenInOrder
<1>1. ASSUME NEW e \in Enclaves, FetchGuest(e) PROVE \A d \in Enclaves : Carries(d)'
  BY <1>1 DEF FetchGuest
<1>2. ASSUME NEW e \in Enclaves, MeasureGuest(e) PROVE \A d \in Enclaves : Carries(d)'
  BY <1>2 DEF MeasureGuest
<1>3. ASSUME NEW e \in Enclaves, ReadReceipt(e) PROVE \A d \in Enclaves : Carries(d)'
  BY <1>3 DEF ReadReceipt, PairRead
<1>4. ASSUME NEW e \in Enclaves, ReadSealedKey(e) PROVE \A d \in Enclaves : Carries(d)'
  BY <1>4 DEF ReadSealedKey
<1>5. ASSUME NEW e \in Enclaves, OpenKey(e) PROVE \A d \in Enclaves : Carries(d)'
  BY <1>5 DEF OpenKey, VerifyKey, ReadCiphertext, Encode, Decode, Sealed
<1>6. ASSUME NEW e \in Enclaves, OpenPool(e) PROVE \A d \in Enclaves : Carries(d)'
  BY <1>6 DEF OpenPool, VerifyOrigin, OpenReceipt, Payload, StateRoot
<1>7. ASSUME NEW e \in Enclaves, Mint(e) PROVE \A d \in Enclaves : Carries(d)'
  <2>1. CASE VerifyKey(e)
    <3>1. PICK s \in Secrets :
            enclave' = [enclave EXCEPT ![e].master = s, ![e].at = "parameter"]
      BY <1>7, <2>1 DEF Mint
    <3>2. UNCHANGED <<bucket, store, stops, uploads, served>> /\ At(e, "mint")
      BY <1>7 DEF Mint
    <3> QED BY <2>1, <3>1, <3>2 DEF VerifyKey
  <2>2. CASE ~VerifyKey(e)
    BY <1>7, <2>2 DEF Mint
  <2> QED BY <2>1, <2>2
<1>8. ASSUME NEW e \in Enclaves, PutParameter(e) PROVE \A d \in Enclaves : Carries(d)'
  BY <1>8 DEF PutParameter
<1>9. ASSUME NEW e \in Enclaves, PutKey(e) PROVE \A d \in Enclaves : Carries(d)'
  BY <1>9 DEF PutKey, Encode, Sealed
<1>10. ASSUME NEW e \in Enclaves, CreatePool(e) PROVE \A d \in Enclaves : Carries(d)'
  BY <1>10 DEF CreatePool, StateRoot, Encode
<1>11. ASSUME NEW e \in Enclaves, PutReceipt(e) PROVE \A d \in Enclaves : Carries(d)'
  BY <1>11 DEF PutReceipt, Payload, Records
<1>12. ASSUME NEW e \in Enclaves, FindPair(e) PROVE \A d \in Enclaves : Carries(d)'
  BY <1>12 DEF FindPair, Up
<1>13. ASSUME NEW e \in Enclaves, PutPair(e) PROVE \A d \in Enclaves : Carries(d)'
  BY <1>13 DEF PutPair, Up, NewMode
<1>14. ASSUME NEW e \in Enclaves, Stop(e) PROVE \A d \in Enclaves : Carries(d)'
  BY <1>14 DEF Stop
<1>15. ASSUME NEW g \in Guests, UploadGuest(g) PROVE \A d \in Enclaves : Carries(d)'
  BY <1>15 DEF UploadGuest
<1>16. CASE UNCHANGED vars
  BY <1>16 DEF vars
<1> QED BY <1>1, <1>2, <1>3, <1>4, <1>5, <1>6, <1>7, <1>8, <1>9, <1>10, <1>11, <1>12, <1>13,
    <1>14, <1>15, <1>16 DEF Next, Step

(* What was served is the origin's, and on record.                         *)
LEMMA ServedStep ==
  ASSUME Inv, [Next]_vars
  PROVE  OneOrigin' /\ ServedIsRecorded'
<1> USE BootAssumption DEF Inv, GenesisHolds, TypeOK, At, Goto, Refuse, store, OneOrigin,
           ServedIsRecorded
<1>1. ASSUME NEW e \in Enclaves, FetchGuest(e) PROVE OneOrigin' /\ ServedIsRecorded'
  BY <1>1 DEF FetchGuest
<1>2. ASSUME NEW e \in Enclaves, MeasureGuest(e) PROVE OneOrigin' /\ ServedIsRecorded'
  BY <1>2 DEF MeasureGuest
<1>3. ASSUME NEW e \in Enclaves, ReadReceipt(e) PROVE OneOrigin' /\ ServedIsRecorded'
  BY <1>3 DEF ReadReceipt
<1>4. ASSUME NEW e \in Enclaves, ReadSealedKey(e) PROVE OneOrigin' /\ ServedIsRecorded'
  BY <1>4 DEF ReadSealedKey
<1>5. ASSUME NEW e \in Enclaves, OpenKey(e) PROVE OneOrigin' /\ ServedIsRecorded'
  BY <1>5 DEF OpenKey
<1>6. ASSUME NEW e \in Enclaves, OpenPool(e) PROVE OneOrigin' /\ ServedIsRecorded'
  BY <1>6 DEF OpenPool
<1>7. ASSUME NEW e \in Enclaves, Mint(e) PROVE OneOrigin' /\ ServedIsRecorded'
  BY <1>7 DEF Mint
<1>8. ASSUME NEW e \in Enclaves, PutParameter(e) PROVE OneOrigin' /\ ServedIsRecorded'
  BY <1>8 DEF PutParameter
<1>9. ASSUME NEW e \in Enclaves, PutKey(e) PROVE OneOrigin' /\ ServedIsRecorded'
  BY <1>9 DEF PutKey
<1>10. ASSUME NEW e \in Enclaves, CreatePool(e) PROVE OneOrigin' /\ ServedIsRecorded'
  BY <1>10 DEF CreatePool, WrittenInOrder, Payload, Records
<1>11. ASSUME NEW e \in Enclaves, PutReceipt(e) PROVE OneOrigin' /\ ServedIsRecorded'
  BY <1>11 DEF PutReceipt, Payload, Records
<1>12. ASSUME NEW e \in Enclaves, FindPair(e) PROVE OneOrigin' /\ ServedIsRecorded'
  BY <1>12 DEF FindPair, Up, Carries, Rooted, Keyed, Before, WrittenInOrder, RecordKey,
    VerifyPairRecord, OpenReceipt, StateRoot, Encode
<1>13. ASSUME NEW e \in Enclaves, PutPair(e) PROVE OneOrigin' /\ ServedIsRecorded'
  BY <1>13 DEF PutPair, Up, NewMode, Carries, Rooted, Keyed, Before, WrittenInOrder,
    RecordKey, VerifyPairRecord, OpenReceipt, StateRoot, Encode, Payload, Opt, Records
<1>14. ASSUME NEW e \in Enclaves, Stop(e) PROVE OneOrigin' /\ ServedIsRecorded'
  BY <1>14 DEF Stop
<1>15. ASSUME NEW g \in Guests, UploadGuest(g) PROVE OneOrigin' /\ ServedIsRecorded'
  BY <1>15 DEF UploadGuest
<1>16. CASE UNCHANGED vars
  BY <1>16 DEF vars
<1> QED BY <1>1, <1>2, <1>3, <1>4, <1>5, <1>6, <1>7, <1>8, <1>9, <1>10, <1>11, <1>12, <1>13,
    <1>14, <1>15, <1>16 DEF Next, Step

(* However many enclaves race through genesis or resume, whatever guest is *)
(* uploaded and wherever each stops, one state is served, by the pinned    *)
(* guest alone, with its pair on record and a receipt only over a whole    *)
(* genesis (boot, genesis, record_pair).                                   *)
THEOREM OneGenesis == Spec => []GenesisHolds
<1>1. Init => Inv
  BY Initially
<1>2. Inv /\ [Next]_vars => Inv'
  <2> SUFFICES ASSUME Inv, [Next]_vars PROVE Inv'
    OBVIOUS
  <2>1. TypeOK' /\ WrittenInOrder' /\ (\A d \in Enclaves : Carries(d)')
        /\ OneOrigin' /\ ServedIsRecorded'
    BY TypesStep, StoreStep, CarriedStep, ServedStep
  <2>2. PinnedGuestAlone' /\ ReceiptIsLast'
    BY <2>1 DEF WrittenInOrder, Carries, PinnedGuestAlone, ReceiptIsLast, Keyed, Before,
                Genesis, Rooted, Payload, StateRoot
  <2> QED BY <2>1, <2>2 DEF Inv, GenesisHolds
<1>3. Inv => GenesisHolds
  BY DEF Inv
<1> QED BY <1>1, <1>2, <1>3, PTL DEF Spec

-----------------------------------------------------------------------------
(* ChainTip.  Bracketed, with the types, is the inductive invariant: it is *)
(* what makes `hi' an upper bound although the chain has grown past it     *)
(* since it was probed.                                                    *)

TipInv == Tip!TypeOK /\ Tip!Bracketed /\ Tip!TipFound

LEMMA TipInitially == Tip!Init => TipInv
BY PartsAssumption DEF Tip!ChainTipAssumption, Tip!Init, TipInv, Tip!TypeOK, Tip!Bracketed,
  Tip!TipFound

LEMMA TipInductive ==
  TipInv /\ [Tip!Next]_Tip!vars => TipInv'
<1> SUFFICES ASSUME TipInv, [Tip!Next]_Tip!vars PROVE TipInv'
  OBVIOUS
<1> USE PartsAssumption DEF Tip!ChainTipAssumption, TipInv, Tip!TypeOK, Tip!Bracketed,
    Tip!TipFound
<1>1. CASE Tip!Append
  BY <1>1 DEF Tip!Append, Tip!search
<1>2. CASE Tip!Begin
  BY <1>2 DEF Tip!Begin, Tip!exists
<1>3. CASE Tip!Gallop
  <2>1. t_lo \in Int /\ t_step \in Int /\ t_tip \in Int /\ MaxNumber \in Int
    OBVIOUS
  <2>2. CASE t_lo + t_step <= MaxNumber /\ Tip!exists(t_lo + t_step)
    BY <1>3, <2>1, <2>2 DEF Tip!Gallop, Tip!exists, Tip!Limit
  <2>3. CASE ~(t_lo + t_step <= MaxNumber /\ Tip!exists(t_lo + t_step))
    BY <1>3, <2>1, <2>3 DEF Tip!Gallop, Tip!exists, Tip!Limit
  <2> QED BY <2>2, <2>3
<1>4. CASE Tip!Bisect
  <2>1. Tip!Mid \in Int /\ t_lo < Tip!Mid /\ Tip!Mid < t_hi
    BY <1>4 DEF Tip!Bisect, Tip!Mid
  <2>2. CASE Tip!exists(Tip!Mid)
    BY <1>4, <2>1, <2>2 DEF Tip!Bisect, Tip!exists
  <2>3. CASE ~Tip!exists(Tip!Mid)
    BY <1>4, <2>1, <2>3 DEF Tip!Bisect, Tip!exists
  <2> QED BY <2>2, <2>3
<1>5. CASE Tip!Finish
  BY <1>5 DEF Tip!Finish
<1>6. CASE Tip!ProbeFails
  BY <1>6 DEF Tip!ProbeFails
<1>7. CASE UNCHANGED Tip!vars
  BY <1>7 DEF Tip!vars
<1> QED BY <1>1, <1>2, <1>3, <1>4, <1>5, <1>6, <1>7 DEF Tip!Next, Tip!Search

(* chain_tip never returns a number that does not exist, nor one older     *)
(* than the newest that existed when it was called, for every chain length *)
(* and however the chain grows during the search.                          *)
THEOREM TipIsFound ==
  /\ Tip!Spec => []Tip!TipFound
  /\ SumSpec => []TipFound
<1>1. (Tip!Init => TipInv) /\ (TipInv /\ [Tip!Next]_Tip!vars => TipInv')
  BY TipInitially, TipInductive
<1>2. TipInv => Tip!TipFound
  BY DEF TipInv
<1>3. Tip!Spec => []Tip!TipFound
  BY <1>1, <1>2, PTL DEF Tip!Spec
<1> DEFINE Part == part = "tip" => TipInv
<1>4. SumInit => Part
  BY <1>1 DEF SumInit
<1>5. Part /\ [SumNext]_Sum => Part'
  <2> SUFFICES ASSUME TipInv, part = "tip", part' = "tip", [SumNext]_Sum PROVE TipInv'
    BY DEF SumNext, Sum
  <2> QED BY <1>1 DEF SumNext, Sum, t_vars, Tip!vars
<1>6. Part => TipFound
  BY <1>2 DEF TipFound
<1>7. SumSpec => []TipFound
  BY <1>4, <1>5, <1>6, PTL DEF SumSpec
<1> QED BY <1>3, <1>7

(* No intermediate number of the search passes u64::MAX, and every         *)
(* variable keeps its type.                                                *)
THEOREM TipInWidth == Tip!Spec => []Tip!TypeOK
<1>1. (Tip!Init => TipInv) /\ (TipInv /\ [Tip!Next]_Tip!vars => TipInv')
  BY TipInitially, TipInductive
<1>2. TipInv => Tip!TypeOK
  BY DEF TipInv
<1> QED BY <1>1, <1>2, PTL DEF Tip!Spec

-----------------------------------------------------------------------------
(* Front.  A document is made for the certificate its connection loaded,   *)
(* and that one stays while there is a document or a response; permits and *)
(* calls of the device go together, and every connection that signs has    *)
(* one of each.                                                            *)

LEMMA SameCount ==
  ASSUME NEW S
  PROVE  /\ Serving!Cardinality(S) = Cardinality(S)
         /\ Serving!IsFiniteSet(S) <=> IsFiniteSet(S)
<1>1. Serving!Cardinality(S) = Cardinality(S)
  BY Zenon DEF Serving!Cardinality, Cardinality, Serving!IsFiniteSet, IsFiniteSet
<1>2. Serving!IsFiniteSet(S) <=> IsFiniteSet(S)
  BY Zenon DEF Serving!IsFiniteSet, IsFiniteSet
<1> QED BY <1>1, <1>2

LEMMA FrontAssumed ==
  /\ Concurrent \in Nat /\ MaxCerts \in Nat /\ MaxRestarts \in Nat
  /\ IsFiniteSet(Conns)
  /\ None # Forged /\ None \notin 0..MaxCerts /\ Forged \notin 0..MaxCerts
<1>1. Serving!FrontAssumption
  BY PartsAssumption
<1>2. IsFiniteSet(Conns)
  BY <1>1, SameCount DEF Serving!FrontAssumption
<1> QED BY <1>1, <1>2 DEF Serving!FrontAssumption

Presented == {"handshake", "open", "queued", "signing", "routing", "guest"}
InDevice == {c \in Conns : f_conn[c] = "signing"}

(* An order is made only below the bound. *)
OrderFits == f_acme \in {"ordered", "validated"} => f_issued < MaxCerts

(* What a connection stands on. *)
Conversation(c) ==
  /\ f_conn[c] \in Presented => f_leaf[c] # 0
  /\ f_conn[c] \notin Presented => f_header[c] = None
  /\ f_doc[c] # None => f_doc[c] = f_leaf[c] /\ f_conn[c] \in {"routing", "guest"}

PermitsOut == f_device = f_taken /\ Cardinality(InDevice) <= f_device

FrontInv ==
  /\ Serving!TypeOK /\ Serving!BoundToConnection
  /\ OrderFits /\ PermitsOut
  /\ \A c \in Conns : Conversation(c)

LEMMA FrontInitially == Serving!Init => FrontInv
<1> SUFFICES ASSUME Serving!Init PROVE FrontInv
  OBVIOUS
<1> USE FrontAssumed DEF Serving!Init
<1>1. InDevice = {}
  BY DEF InDevice
<1>2. PermitsOut
  BY <1>1, FS_EmptySet DEF PermitsOut
<1>3. f_listening \in BOOLEAN /\ f_permit \in BOOLEAN
      /\ f_mode \in [gated : BOOLEAN, attests : BOOLEAN]
      /\ f_auth \in [Conns -> BOOLEAN]
  OBVIOUS
<1>4. Serving!TypeOK
  BY <1>3 DEF Serving!TypeOK, Serving!Idle, Serving!Serving, Serving!Certs
<1> QED BY <1>2, <1>4 DEF FrontInv, Serving!BoundToConnection, OrderFits, Conversation,
    Presented

LEMMA FrontInductive == FrontInv /\ [Serving!Next]_Serving!vars => FrontInv'
<1> SUFFICES ASSUME FrontInv, [Serving!Next]_Serving!vars PROVE FrontInv'
  OBVIOUS
<1> USE FrontAssumed
<1>0. /\ Serving!TypeOK /\ Serving!BoundToConnection /\ OrderFits /\ PermitsOut
      /\ \A c \in Conns : Conversation(c)
  BY DEF FrontInv
<1>1. ASSUME UNCHANGED Serving!connVars
      PROVE  /\ Serving!BoundToConnection' /\ PermitsOut'
             /\ (\A c \in Conns : Conversation(c)')
  BY <1>0, <1>1 DEF Serving!connVars, Serving!BoundToConnection, PermitsOut, InDevice,
    Conversation
<1>2. ASSUME \/ Serving!Bind \/ Serving!Wait \/ Serving!Notified \/ Serving!LoadCert
             \/ Serving!Order \/ Serving!Validate \/ Serving!Issue \/ Serving!Store
      PROVE  FrontInv'
  <2>1. UNCHANGED Serving!connVars /\ UNCHANGED <<f_mode, f_restarts>>
    BY <1>2 DEF Serving!Bind, Serving!Wait, Serving!Notified, Serving!LoadCert,
                Serving!Order, Serving!Validate, Serving!Issue, Serving!Store
  <2>2. f_listening' \in BOOLEAN /\ f_permit' \in BOOLEAN
    BY <1>0, <1>2 DEF Serving!TypeOK, Serving!Bind, Serving!NotifyOne, Serving!Wait,
                Serving!Notified, Serving!LoadCert, Serving!Order, Serving!Validate,
                Serving!Issue, Serving!Store
  <2>3. /\ f_acme' \in {"spawned", "waiting", "loading", "idle", "ordered", "validated", "storing"}
        /\ f_slot' \in 0..MaxCerts /\ f_cached' \in 0..MaxCerts /\ f_issued' \in 0..MaxCerts
        /\ OrderFits'
    BY <1>0, <1>2 DEF Serving!TypeOK, OrderFits, Serving!Bind, Serving!Wait,
      Serving!Notified,
                Serving!LoadCert, Serving!PublishLeaf, Serving!Order, Serving!Validate,
                Serving!Issue, Serving!Store
  <2>4. Serving!TypeOK'
    BY <1>0, <2>1, <2>2, <2>3 DEF Serving!TypeOK, Serving!connVars
  <2> QED BY <1>1, <2>1, <2>3, <2>4 DEF FrontInv
<1>3. ASSUME UNCHANGED <<f_mode, f_listening, Serving!acmeVars, f_restarts>>,
             f_conn' \in [Conns -> Serving!Idle \cup Serving!Serving],
             f_leaf' \in [Conns -> 0..MaxCerts],
             f_auth' \in [Conns -> BOOLEAN],
             f_doc' \in [Conns -> Serving!Certs \cup {None}],
             f_header' \in [Conns -> Serving!Certs \cup {None, Forged}],
             f_taken' \in 0..Concurrent, PermitsOut'
      PROVE  Serving!TypeOK' /\ OrderFits' /\ PermitsOut'
  <2>1. f_device' \in Nat
    BY <1>3 DEF PermitsOut
  <2> QED BY <1>0, <1>3, <2>1 DEF Serving!TypeOK, OrderFits, Serving!acmeVars
<1>4. IsFiniteSet(InDevice) /\ Cardinality(InDevice) \in Nat
  BY FS_Subset, FS_CardinalityType DEF InDevice
<1>5. f_taken \in 0..Concurrent /\ f_device \in Nat
  BY <1>0 DEF Serving!TypeOK
<1> DEFINE Leaves(c) == f_conn[c] # "signing" /\ f_conn'[c] # "signing"
           Apart(c) == \A d \in Conns : d # c => f_conn'[d] = f_conn[d]
<1>6. ASSUME NEW c \in Conns, Apart(c), Leaves(c), UNCHANGED <<f_taken, f_device>>
      PROVE  PermitsOut'
  <2>1. InDevice' = InDevice
    BY <1>6 DEF InDevice
  <2> QED BY <1>0, <1>6, <2>1 DEF PermitsOut
<1>7. ASSUME NEW c \in Conns, Apart(c), f_conn[c] = "signing", f_conn'[c] # "signing"
      PROVE  Cardinality(InDevice') = Cardinality(InDevice) - 1 /\ Cardinality(InDevice) >= 1
  <2>1. InDevice' = InDevice \ {c} /\ c \in InDevice
    BY <1>7 DEF InDevice
  <2>2. /\ Cardinality(InDevice \ {c}) = Cardinality(InDevice) - 1
        /\ Cardinality(InDevice \ {c}) \in Nat
    BY <1>4, <2>1, FS_RemoveElement, FS_CardinalityType
  <2> QED BY <1>4, <2>1, <2>2
<1> DEFINE
      Else(c) == \A d \in Conns : d # c =>
                   /\ f_conn'[d] = f_conn[d] /\ f_leaf'[d] = f_leaf[d]
                   /\ f_doc'[d] = f_doc[d] /\ f_header'[d] = f_header[d]
      Own(c) == Conversation(c)' /\ (f_header'[c] # None => f_header'[c] = f_leaf'[c])
      Typed == /\ f_conn' \in [Conns -> Serving!Idle \cup Serving!Serving]
               /\ f_leaf' \in [Conns -> 0..MaxCerts]
               /\ f_auth' \in [Conns -> BOOLEAN]
               /\ f_doc' \in [Conns -> Serving!Certs \cup {None}]
               /\ f_header' \in [Conns -> Serving!Certs \cup {None, Forged}]
      Rest == UNCHANGED <<f_mode, f_listening, Serving!acmeVars, f_restarts>>
<1>8. ASSUME NEW c \in Conns, Rest, Typed, Else(c), Own(c), f_taken' \in 0..Concurrent, PermitsOut'
      PROVE  FrontInv'
  <2>1. Serving!TypeOK' /\ OrderFits' /\ PermitsOut'
    BY <1>3, <1>8
  <2>2. ASSUME NEW d \in Conns, d # c
        PROVE  Conversation(d)' /\ (f_header'[d] # None => f_header'[d] = f_leaf'[d])
    BY <1>0, <1>8, <2>2 DEF Conversation, Serving!BoundToConnection
  <2>3. Serving!BoundToConnection' /\ \A d \in Conns : Conversation(d)'
    BY <1>8, <2>2 DEF Serving!BoundToConnection
  <2> QED BY <2>1, <2>3 DEF FrontInv
<1> HIDE DEF Rest
<1>9. ASSUME NEW c \in Conns,
             \/ Serving!Accept(c) \/ Serving!LoadIdentity(c) \/ Serving!Handshake(c)
             \/ Serving!NoNonce(c) \/ Serving!Route(c) \/ Serving!GuestAnswers(c)
             \/ \E under \in BOOLEAN : Serving!Request(c, under)
      PROVE  FrontInv'
  <2> USE <1>0 DEF Serving!TypeOK, Serving!Idle, Serving!Serving, Serving!At, Serving!Answer
  <2> DEFINE Goal == Typed /\ Else(c) /\ Own(c) /\ Leaves(c)
  <2>1. UNCHANGED <<f_taken, f_device>> /\ Rest
    BY <1>9 DEF Rest, Serving!Accept, Serving!LoadIdentity, Serving!Handshake,
      Serving!NoNonce,
                Serving!Route, Serving!GuestAnswers, Serving!Request
  <2>2. ASSUME Serving!Accept(c) PROVE Goal
    BY <2>2 DEF Serving!Accept, Conversation, Presented, Serving!BoundToConnection
  <2>3. ASSUME Serving!LoadIdentity(c) PROVE Goal
    BY <2>3 DEF Serving!LoadIdentity, Conversation, Presented, Serving!BoundToConnection
  <2>4. ASSUME Serving!Handshake(c) PROVE Goal
    BY <2>4 DEF Serving!Handshake, Conversation, Presented, Serving!BoundToConnection
  <2>5. ASSUME Serving!NoNonce(c) PROVE Goal
    BY <2>5 DEF Serving!NoNonce, Conversation, Presented, Serving!BoundToConnection
  <2>6. ASSUME Serving!Route(c) PROVE Goal
    <3>1. CASE /\ f_conn[c] = "routing" /\ Serving!At(c, "guest")
               /\ UNCHANGED <<f_leaf, f_auth, f_doc, f_header>>
      BY <3>1 DEF Conversation, Presented, Serving!BoundToConnection
    <3>2. CASE f_conn[c] = "routing" /\ Serving!Answer(c, f_doc[c], "open") /\ UNCHANGED f_leaf
      BY <3>2 DEF Conversation, Presented, Serving!BoundToConnection
    <3> QED BY <2>6, <3>1, <3>2 DEF Serving!Route
  <2>7. ASSUME Serving!GuestAnswers(c) PROVE Goal
    BY <2>7 DEF Serving!GuestAnswers, Serving!AttachOrStrip, Conversation, Presented,
                Serving!BoundToConnection
  <2>8. ASSUME NEW under \in BOOLEAN, Serving!Request(c, under) PROVE Goal
    BY <2>8 DEF Serving!Request, Conversation, Presented, Serving!BoundToConnection
  <2>9. Goal
    BY <1>9, <2>2, <2>3, <2>4, <2>5, <2>6, <2>7, <2>8
  <2> QED BY <1>6, <1>8, <2>1, <2>9
<1>10. ASSUME NEW c \in Conns, Serving!Sign(c) PROVE FrontInv'
  <2>1. Typed /\ Else(c) /\ Own(c)
    BY <1>0, <1>10 DEF Serving!Sign, Serving!TypeOK, Serving!Idle, Serving!Serving,
      Serving!At,
                Conversation, Presented, Serving!BoundToConnection
  <2>2. Rest /\ f_taken' = f_taken + 1 /\ f_device' = f_device + 1 /\ f_taken < Concurrent
    BY <1>10 DEF Rest, Serving!Sign
  <2>3. InDevice' = InDevice \cup {c}
    BY <1>0, <1>10 DEF Serving!Sign, Serving!At, Serving!TypeOK, InDevice
  <2>4. Cardinality(InDevice \cup {c}) <= Cardinality(InDevice) + 1
        /\ Cardinality(InDevice \cup {c}) \in Nat
    <3>1. /\ IsFiniteSet(InDevice \cup {c})
          /\ \/ Cardinality(InDevice \cup {c}) = Cardinality(InDevice)
             \/ Cardinality(InDevice \cup {c}) = Cardinality(InDevice) + 1
      BY <1>4, FS_AddElement
    <3> QED BY <1>4, <3>1
  <2>5. PermitsOut' /\ f_taken' \in 0..Concurrent
    BY <1>0, <1>4, <1>5, <2>2, <2>3, <2>4 DEF PermitsOut
  <2> QED BY <1>8, <2>1, <2>2, <2>5
<1>11. ASSUME NEW c \in Conns, Serving!Signed(c) \/ Serving!SignFails(c) PROVE FrontInv'
  <2>1. ASSUME Serving!Signed(c) PROVE Typed /\ Else(c) /\ Own(c)
    BY <1>0, <2>1 DEF Serving!Signed, Serving!Bound, Serving!TypeOK, Serving!Idle,
                Serving!Serving, Serving!At, Serving!Certs, Conversation, Presented,
                Serving!BoundToConnection
  <2>2. ASSUME Serving!SignFails(c) PROVE Typed /\ Else(c) /\ Own(c)
    BY <1>0, <2>2 DEF Serving!SignFails, Serving!Answer, Serving!TypeOK, Serving!Idle,
                Serving!Serving, Serving!At, Conversation, Presented,
                Serving!BoundToConnection
  <2>3. Rest /\ f_taken' = f_taken - 1 /\ f_device' = f_device - 1
    BY <1>11 DEF Rest, Serving!Signed, Serving!SignFails
  <2>4. Apart(c) /\ f_conn[c] = "signing" /\ f_conn'[c] # "signing"
    BY <1>0, <1>11 DEF Serving!Signed, Serving!SignFails, Serving!Answer, Serving!At,
                Serving!TypeOK
  <2>5. PermitsOut' /\ f_taken' \in 0..Concurrent
    BY <1>0, <1>4, <1>5, <1>7, <2>3, <2>4 DEF PermitsOut
  <2> QED BY <1>8, <1>11, <2>1, <2>2, <2>3, <2>5
<1>12. ASSUME NEW c \in Conns, Serving!Gone(c) PROVE FrontInv'
  <2>1. Typed /\ Else(c) /\ Own(c)
    BY <1>0, <1>12 DEF Serving!Gone, Serving!TypeOK, Serving!Idle, Serving!Serving,
      Serving!At,
                Conversation, Presented, Serving!BoundToConnection
  <2>2. Rest /\ f_taken' = f_taken /\ f_device' = f_device
    BY <1>5, <1>12 DEF Rest, Serving!Gone, Serving!PermitsDropped
  <2>3. Apart(c) /\ f_conn'[c] # "signing"
    BY <1>0, <1>12 DEF Serving!Gone, Serving!At, Serving!TypeOK
  <2>4. PermitsOut'
    <3>1. CASE f_conn[c] = "signing"
      BY <1>0, <1>4, <1>5, <1>7, <2>2, <2>3, <3>1 DEF PermitsOut
    <3>2. CASE f_conn[c] # "signing"
      BY <1>6, <2>2, <2>3, <3>2
    <3> QED BY <3>1, <3>2
  <2> QED BY <1>5, <1>8, <2>1, <2>2, <2>4
<1>13. ASSUME Serving!OrphanSigned PROVE FrontInv'
  <2>1. /\ UNCHANGED <<f_mode, f_listening, Serving!acmeVars, f_restarts>>
        /\ UNCHANGED <<f_conn, f_leaf, f_auth, f_doc, f_header>>
    BY <1>13 DEF Serving!OrphanSigned
  <2>2. Serving!Signing = Cardinality(InDevice)
    BY SameCount DEF Serving!Signing, InDevice
  <2>3. f_device' = f_device - 1 /\ f_taken' = f_taken - 1 /\ f_device > Cardinality(InDevice)
    BY <1>0, <1>4, <1>5, <1>13, <2>2 DEF Serving!OrphanSigned, Serving!Orphans, PermitsOut
  <2>4. PermitsOut' /\ f_taken' \in 0..Concurrent
    BY <1>0, <1>4, <1>5, <2>1, <2>3 DEF PermitsOut, InDevice
  <2>5. Serving!TypeOK' /\ OrderFits'
    BY <1>0, <1>3, <2>1, <2>4 DEF Serving!TypeOK
  <2> QED BY <1>0, <2>1, <2>4, <2>5 DEF FrontInv, Serving!BoundToConnection, Conversation
<1>14. ASSUME Serving!Restart PROVE FrontInv'
  <2>1. InDevice' = {}
    BY <1>14 DEF Serving!Restart, InDevice
  <2>2. PermitsOut'
    BY <1>14, <2>1, FS_EmptySet DEF Serving!Restart, PermitsOut
  <2>3. f_listening' \in BOOLEAN /\ f_permit' \in BOOLEAN /\ f_auth' \in [Conns -> BOOLEAN]
    BY <1>14 DEF Serving!Restart
  <2>4. Serving!TypeOK'
    BY <1>0, <1>14, <2>3 DEF Serving!Restart, Serving!TypeOK, Serving!Idle
  <2> QED BY <1>14, <2>2, <2>4 DEF Serving!Restart, FrontInv, Serving!BoundToConnection,
                OrderFits, Conversation, Presented
<1>15. ASSUME UNCHANGED Serving!vars PROVE FrontInv'
  BY <1>0, <1>1, <1>15 DEF Serving!vars, Serving!acmeVars, Serving!connVars, FrontInv,
                Serving!TypeOK, OrderFits
<1> QED BY <1>2, <1>9, <1>10, <1>11, <1>12, <1>13, <1>14, <1>15
        DEF Serving!Next, Serving!Connection

(* Whatever is renewed between a handshake and an answer, whoever leaves   *)
(* while the device works for him and however often the enclave restarts,  *)
(* a document speaks of its own connection's certificate and the device    *)
(* does no more at once than it may (Attestor::sign, attach, serve).       *)
THEOREM DocumentsAreBound ==
  /\ Serving!Spec => []Serving!DocumentsHold
  /\ SumSpec => []DocumentsHold
<1>1. FrontInv => Serving!DocumentsHold
  BY FrontAssumed
     DEF FrontInv, Serving!DocumentsHold, Serving!DeviceLimit, PermitsOut, Serving!TypeOK
<1>2. Serving!Spec => []Serving!DocumentsHold
  BY <1>1, FrontInitially, FrontInductive, PTL DEF Serving!Spec
<1> DEFINE Part == part = "front" => FrontInv
<1>3. SumInit => Part
  BY FrontInitially DEF SumInit
<1>4. Part /\ [SumNext]_Sum => Part'
  <2> SUFFICES ASSUME FrontInv, part = "front", part' = "front", [SumNext]_Sum PROVE FrontInv'
    BY DEF SumNext, Sum
  <2> QED BY FrontInductive
          DEF SumNext, Sum, f_vars, Serving!vars, Serving!acmeVars, Serving!connVars
<1>5. Part => DocumentsHold
  BY <1>1 DEF DocumentsHold
<1>6. SumSpec => []DocumentsHold
  BY <1>3, <1>4, <1>5, PTL DEF SumSpec
<1> QED BY <1>2, <1>6

-----------------------------------------------------------------------------
(* Entropy.  A device that works, or has stopped, has given every byte     *)
(* out once: what is in any caller's buffer or was handed over is among    *)
(* the bytes made so far, each at one place (FreshBytes).                  *)

Sound == n_kind \in {"good", "silent"}

Distinct(s) == \A x, y \in DOMAIN s : x # y => s[x] # s[y]
Disjoint(s, t) == \A x \in DOMAIN s, y \in DOMAIN t : s[x] # t[y]
Made(s, n) == \A x \in DOMAIN s : s[x] \in 1..n

Draws == [at : {"idle", "drawing", "filled", "failed", "trapped"}, want : Nat,
          buf : Seq(Nat), infallible : BOOLEAN]
Handed == [want : Nat, buf : Seq(Nat)]

DrawsTyped ==
  /\ n_made \in Nat /\ n_draw \in [Callers -> Draws] /\ n_given \in Seq(Handed)
  /\ \A c \in Callers :
       /\ n_draw[c].at = "drawing" => Len(n_draw[c].buf) <= n_draw[c].want
       /\ n_draw[c].at = "filled" => Len(n_draw[c].buf) = n_draw[c].want
       /\ n_draw[c].at = "idle" => n_draw[c].buf = <<>>

FreshBytes ==
  /\ \A c \in Callers : Made(n_draw[c].buf, n_made) /\ Distinct(n_draw[c].buf)
  /\ \A c, d \in Callers : c # d => Disjoint(n_draw[c].buf, n_draw[d].buf)
  /\ \A i \in 1..Len(n_given) : /\ Made(n_given[i].buf, n_made) /\ Distinct(n_given[i].buf)
                                /\ Len(n_given[i].buf) = n_given[i].want
  /\ \A i, j \in 1..Len(n_given) : i # j => Disjoint(n_given[i].buf, n_given[j].buf)
  /\ \A c \in Callers, i \in 1..Len(n_given) : Disjoint(n_draw[c].buf, n_given[i].buf)

RngInv == Rng!StuckIsCaught /\ (Sound => DrawsTyped /\ FreshBytes)

LEMMA RngAssumed == ReplyMax \in Nat /\ BufferLens \subseteq Nat
BY PartsAssumption DEF Rng!EntropyAssumption

LEMMA RngInitially == Rng!Init => RngInv
<1> SUFFICES ASSUME Rng!Init PROVE RngInv
  OBVIOUS
<1> DEFINE none == Rng!Idle
<1>1. none \in Draws /\ none.at = "idle" /\ none.buf = <<>> /\ Len(none.buf) = 0
  BY DEF Rng!Idle, Draws
<1>2. n_made = 0 /\ n_draw = [c \in Callers |-> none] /\ n_given = <<>> /\ n_check = "off"
  BY DEF Rng!Init
<1> HIDE DEF none
<1>3. DrawsTyped
  BY <1>1, <1>2 DEF DrawsTyped
<1>4. FreshBytes
  BY <1>1, <1>2 DEF FreshBytes, Made, Distinct, Disjoint
<1> QED BY <1>2, <1>3, <1>4 DEF RngInv, Rng!StuckIsCaught

(* The next bytes of the device, or the first of them, behind those a      *)
(* buffer has: they are new.                                               *)
LEMMA Refilled ==
  ASSUME NEW buf \in Seq(Nat), NEW n \in Nat, NEW want \in Nat, n_made \in Nat,
         Made(buf, n_made), Distinct(buf), Len(buf) <= want
  PROVE  LET reply == [i \in 1..n |-> n_made + i]
             r == buf \o Rng!Take(reply, want - Len(buf))
         IN  /\ r \in Seq(Nat) /\ Len(r) <= want /\ Distinct(r) /\ Made(r, n_made + n)
             /\ \A x \in DOMAIN r : r[x] > n_made \/ (x \in DOMAIN buf /\ r[x] = buf[x])
<1> DEFINE reply == [i \in 1..n |-> n_made + i]
           room == want - Len(buf)
           m == IF n < room THEN n ELSE room
           new == Rng!Take(reply, room)
           r == buf \o new
<1>1. reply \in Seq(Nat) /\ Len(reply) = n /\ room \in Nat /\ m \in Nat /\ m <= n /\ m <= room
  OBVIOUS
<1>2. new \in Seq(Nat) /\ Len(new) = m /\ \A i \in 1..m : new[i] = n_made + i
  BY <1>1 DEF Rng!Take
<1> HIDE DEF new, m, room, reply
<1>3. r \in Seq(Nat) /\ Len(r) = Len(buf) + m
  <2>1. new \in Seq(Nat) /\ Len(new) = m
    BY <1>2
  <2>2. buf \o new \in Seq(Nat)
    BY <2>1
  <2>3. Len(buf \o new) = Len(buf) + Len(new)
    BY <2>1, SMTT(30)
  <2> QED BY <2>1, <2>2, <2>3
<1>4. \A x \in 1..Len(buf) : r[x] = buf[x]
  BY <1>1, <1>2
<1>5. \A x \in 1..(Len(buf) + m) : x > Len(buf) => r[x] = n_made + (x - Len(buf))
  BY <1>1, <1>2
<1> HIDE DEF r
<1>6. /\ DOMAIN buf = 1..Len(buf) /\ Len(buf) \in Nat
      /\ \A x \in 1..Len(buf) : buf[x] \in Nat /\ 0 < buf[x] /\ buf[x] <= n_made
  BY DEF Made
<1>11. DOMAIN r = 1..(Len(buf) + m)
  BY <1>3
<1>12. ASSUME NEW x \in DOMAIN r
       PROVE  /\ r[x] \in Nat /\ 0 < r[x] /\ r[x] <= n_made + n
              /\ r[x] > n_made \/ (x \in DOMAIN buf /\ r[x] = buf[x])
  <2>0. x \in Int /\ 1 <= x /\ x <= Len(buf) + m
    BY <1>1, <1>6, <1>11
  <2>1. CASE x <= Len(buf)
    <3>1. x \in 1..Len(buf)
      BY <1>6, <2>0, <2>1
    <3> QED BY <1>4, <1>6, <3>1
  <2>2. CASE x > Len(buf)
    <3>1. r[x] = n_made + (x - Len(buf))
      BY <1>5, <1>11, <2>2
    <3> QED BY <1>1, <1>6, <2>0, <2>2, <3>1
  <2> QED BY <1>6, <2>0, <2>1, <2>2
<1>7. ASSUME NEW x \in DOMAIN r, NEW y \in DOMAIN r, x # y PROVE r[x] # r[y]
  <2>0. x \in Int /\ y \in Int /\ x \in 1..(Len(buf) + m) /\ y \in 1..(Len(buf) + m)
    BY <1>11
  <2>1. CASE x > Len(buf) /\ y > Len(buf)
    <3>1. r[x] = n_made + (x - Len(buf)) /\ r[y] = n_made + (y - Len(buf))
      BY <1>5, <2>0, <2>1
    <3> QED BY <1>6, <1>7, <2>0, <3>1
  <2>2. CASE ~(x > Len(buf)) /\ ~(y > Len(buf))
    <3>1. x \in 1..Len(buf) /\ y \in 1..Len(buf)
      BY <1>6, <2>0, <2>2
    <3> QED BY <1>4, <1>6, <1>7, <3>1 DEF Distinct
  <2>3. CASE x > Len(buf) /\ ~(y > Len(buf))
    <3>1. r[x] = n_made + (x - Len(buf)) /\ y \in 1..Len(buf)
      BY <1>5, <1>6, <2>0, <2>3
    <3>2. r[y] <= n_made /\ r[y] \in Nat
      BY <1>4, <1>6, <3>1
    <3> QED BY <1>6, <2>0, <2>3, <3>1, <3>2
  <2>4. CASE ~(x > Len(buf)) /\ y > Len(buf)
    <3>1. r[y] = n_made + (y - Len(buf)) /\ x \in 1..Len(buf)
      BY <1>5, <1>6, <2>0, <2>4
    <3>2. r[x] <= n_made /\ r[x] \in Nat
      BY <1>4, <1>6, <3>1
    <3> QED BY <1>6, <2>0, <2>4, <3>1, <3>2
  <2> QED BY <2>1, <2>2, <2>3, <2>4
<1>10. Len(r) <= want
  BY <1>1, <1>3, <1>6 DEF room
<1>13. Made(r, n_made + n)
  BY <1>12 DEF Made
<1> QED BY <1>3, <1>7, <1>10, <1>12, <1>13 DEF r, new, room, reply, Distinct

(* A caller's draw changes, nobody else's, and its buffer has bytes it had *)
(* or new ones.                                                            *)
LEMMA DrawMoves ==
  ASSUME DrawsTyped, FreshBytes, NEW c \in Callers, NEW d \in Draws,
         n_draw' = [n_draw EXCEPT ![c] = d], n_given' = n_given,
         n_made' \in Nat, n_made <= n_made', Made(d.buf, n_made'), Distinct(d.buf),
         \A x \in DOMAIN d.buf :
           d.buf[x] > n_made \/ (x \in DOMAIN n_draw[c].buf /\ d.buf[x] = n_draw[c].buf[x]),
         d.at = "drawing" => Len(d.buf) <= d.want,
         d.at = "filled" => Len(d.buf) = d.want,
         d.at = "idle" => d.buf = <<>>
  PROVE  DrawsTyped' /\ FreshBytes'
<1>1. n_draw'[c] = d /\ \A e \in Callers : e # c => n_draw'[e] = n_draw[e]
  BY DEF DrawsTyped
<1>2. n_draw' \in [Callers -> Draws]
  BY DEF DrawsTyped
<1>3. DrawsTyped'
  BY <1>1, <1>2 DEF DrawsTyped
<1>4. n_made \in Nat
  BY DEF DrawsTyped
<1>5. ASSUME NEW s, Made(s, n_made) PROVE Made(s, n_made')
  BY <1>4, <1>5 DEF Made
<1>6. ASSUME NEW s, Made(s, n_made), Disjoint(n_draw[c].buf, s)
      PROVE  Disjoint(d.buf, s) /\ Disjoint(s, d.buf)
  BY <1>4, <1>6 DEF Made, Disjoint
<1>7. \A e \in Callers : Made(n_draw'[e].buf, n_made') /\ Distinct(n_draw'[e].buf)
  BY <1>1, <1>5 DEF FreshBytes
<1>8. \A e \in Callers : e # c => Disjoint(d.buf, n_draw[e].buf) /\ Disjoint(n_draw[e].buf, d.buf)
  BY <1>6 DEF FreshBytes
<1>9. \A i \in 1..Len(n_given) : Disjoint(d.buf, n_given[i].buf)
  BY <1>6 DEF FreshBytes
<1>10. \A i \in 1..Len(n_given) : Made(n_given[i].buf, n_made')
  BY <1>5 DEF FreshBytes
<1> QED BY <1>1, <1>3, <1>7, <1>8, <1>9, <1>10 DEF FreshBytes

LEMMA DrawAnswered ==
  ASSUME Sound, DrawsTyped, FreshBytes, NEW c \in Callers, Rng!Answer(c)
  PROVE  DrawsTyped' /\ FreshBytes'
<1> DEFINE o == n_draw[c]
<1>1. o \in Draws /\ o.at = "drawing" /\ o.want \in Nat /\ o.buf \in Seq(Nat)
      /\ Len(o.buf) <= o.want /\ n_made \in Nat
  BY DEF DrawsTyped, Draws, Rng!Answer
<1>2. Made(o.buf, n_made) /\ Distinct(o.buf)
  BY DEF FreshBytes
<1>3. PICK reply \in IF n_source = "nsm" THEN Rng!Replies
                     ELSE {Rng!Failed, [i \in 1..o.want |-> n_made + i]} :
        /\ LET r == Rng!GetRandom(reply, o.buf, o.want) IN
           n_draw' = [n_draw EXCEPT ![c].at = r.at, ![c].buf = r.buf]
        /\ n_made' = IF reply = Rng!Failed \/ (n_source = "nsm" /\ n_kind # "good") THEN n_made
                     ELSE n_made + Len(reply)
  BY DEF Rng!Answer
<1> DEFINE r == Rng!GetRandom(reply, o.buf, o.want)
           d == [o EXCEPT !.at = r.at, !.buf = r.buf]
<1>4. n_given' = n_given
  BY DEF Rng!Answer
<1>5. /\ d.at = r.at /\ d.want = o.want /\ d.buf = r.buf
      /\ r.at \in {"drawing", "filled", "failed"} /\ r.buf \in Seq(Nat) => d \in Draws
  <2> HIDE DEF o, r
  <2> QED BY <1>1 DEF Draws
<1>6. n_draw' = [n_draw EXCEPT ![c] = d]
  BY <1>3 DEF DrawsTyped
<1>7. CASE reply = Rng!Failed \/ reply = <<>>
  <2>1. r = [at |-> "failed", buf |-> o.buf]
    BY <1>7 DEF Rng!GetRandom
  <2>2. n_made' = n_made
    BY <1>1, <1>3, <1>7 DEF Rng!Failed
  <2>3. d.at = "failed" /\ d.buf = o.buf
    <3> HIDE DEF d
    <3> QED BY <1>5, <2>1
  <2>4. d \in Draws
    <3> HIDE DEF d
    <3> QED BY <1>1, <1>5, <2>1
  <2> HIDE DEF d, r
  <2>5. /\ n_made' \in Nat /\ n_made <= n_made' /\ Made(d.buf, n_made') /\ Distinct(d.buf)
        /\ \A x \in DOMAIN d.buf : x \in DOMAIN n_draw[c].buf /\ d.buf[x] = n_draw[c].buf[x]
    BY <1>1, <1>2, <2>2, <2>3
  <2> QED BY <1>4, <1>6, <2>3, <2>4, <2>5, DrawMoves
<1>8. CASE ~(reply = Rng!Failed \/ reply = <<>>)
  <2>1. \E n \in Nat : reply = [i \in 1..n |-> n_made + i]
    <3>1. CASE n_source = "nsm" /\ n_kind = "good"
      <4>1. PICK n \in 0..ReplyMax : reply = Rng!Bytes(n)
        BY <1>3, <1>8, <3>1 DEF Rng!Replies
      <4>2. Rng!Bytes(n) = [i \in 1..n |-> n_made + i]
        BY <3>1 DEF Rng!Bytes
      <4> QED BY <4>1, <4>2, RngAssumed
    <3>2. CASE n_source = "nsm" /\ n_kind = "silent"
      BY <1>3, <1>8, <3>2 DEF Rng!Replies, Rng!Bytes
    <3>3. CASE n_source # "nsm"
      BY <1>1, <1>3, <1>8, <3>3
    <3> QED BY <3>1, <3>2, <3>3 DEF Sound
  <2>2. PICK n \in Nat : reply = [i \in 1..n |-> n_made + i]
    BY <2>1
  <2>3. Len(reply) = n
    BY <2>2
  <2>4. n_made' = n_made + n
    <3>1. ~(n_source = "nsm" /\ n_kind # "good")
      BY <1>3, <1>8 DEF Sound, Rng!Replies, Rng!Bytes
    <3> QED BY <1>3, <1>8, <2>3, <3>1
  <2> DEFINE filled == o.buf \o Rng!Take(reply, o.want - Len(o.buf))
  <2>5. r = [at |-> IF Len(filled) < o.want THEN "drawing" ELSE "filled", buf |-> filled]
    BY <1>8 DEF Rng!GetRandom
  <2>6. /\ filled \in Seq(Nat) /\ Len(filled) <= o.want /\ Distinct(filled)
        /\ Made(filled, n_made + n)
        /\ \A x \in DOMAIN filled : filled[x] > n_made \/ (x \in DOMAIN o.buf /\ filled[x] = o.buf[x])
    BY ZenonT(60), <1>1, <1>2, <2>2, Refilled
  <2>7. d.buf = filled /\ d.want = o.want
        /\ d.at = (IF Len(filled) < o.want THEN "drawing" ELSE "filled")
    <3> HIDE DEF filled, o, d
    <3>1. r.buf = filled /\ r.at = (IF Len(filled) < o.want THEN "drawing" ELSE "filled")
      BY <2>5
    <3> HIDE DEF r
    <3> QED BY <1>5, <3>1
  <2>8. d \in Draws
    <3> HIDE DEF filled, o, d
    <3>1. r.buf = filled /\ r.at \in {"drawing", "filled"}
      BY <2>5
    <3> QED BY <1>5, <2>6, <3>1
  <2> HIDE DEF filled, d, r, o
  <2>9. d.at \in {"drawing", "filled"} /\ (d.at = "filled" => Len(d.buf) = d.want)
        /\ Len(d.buf) <= d.want
    BY <1>1, <2>6, <2>7
  <2>10. /\ n_made' \in Nat /\ n_made <= n_made' /\ Made(d.buf, n_made') /\ Distinct(d.buf)
         /\ \A x \in DOMAIN d.buf :
              d.buf[x] > n_made \/ (x \in DOMAIN n_draw[c].buf /\ d.buf[x] = n_draw[c].buf[x])
    BY <1>1, <2>4, <2>6, <2>7 DEF o
  <2>11. d.at # "idle"
    BY <2>9
  <2> QED BY <1>4, <1>6, <2>8, <2>9, <2>10, <2>11, DrawMoves
<1> QED BY <1>7, <1>8

LEMMA DrawHanded ==
  ASSUME DrawsTyped, FreshBytes, NEW c \in Callers, Rng!Hand(c)
  PROVE  DrawsTyped' /\ FreshBytes'
<1> DEFINE h == [want |-> n_draw[c].want, buf |-> n_draw[c].buf]
           m == Len(n_given)
<1>1. /\ n_draw[c].at = "filled" /\ n_draw[c] \in Draws
      /\ n_given' = Append(n_given, h) /\ n_draw' = [n_draw EXCEPT ![c] = Rng!Idle]
      /\ n_made' = n_made
  BY DEF Rng!Hand, DrawsTyped
<1>2. h \in Handed /\ h.buf = n_draw[c].buf /\ h.want = n_draw[c].want /\ Len(h.buf) = h.want
  BY <1>1 DEF Draws, Handed, DrawsTyped
<1>3. Rng!Idle \in Draws /\ Rng!Idle.at = "idle" /\ Rng!Idle.buf = <<>>
  BY DEF Rng!Idle, Draws
<1> HIDE DEF h
<1>4. /\ n_given' \in Seq(Handed) /\ Len(n_given') = m + 1 /\ m \in Nat
      /\ n_given'[m + 1] = h /\ \A i \in 1..m : n_given'[i] = n_given[i]
  BY <1>1, <1>2 DEF DrawsTyped
<1>5. n_draw'[c] = Rng!Idle /\ \A e \in Callers : e # c => n_draw'[e] = n_draw[e]
  BY <1>1 DEF DrawsTyped
<1>6. DrawsTyped'
  BY <1>1, <1>3, <1>4, <1>5 DEF DrawsTyped
<1>7. \A s : Made(<<>>, n_made) /\ Distinct(<<>>) /\ Disjoint(<<>>, s) /\ Disjoint(s, <<>>)
  BY DEF Made, Distinct, Disjoint
<1>8. \A i \in 1..(m + 1) : i \in 1..m \/ i = m + 1
  BY <1>4
<1>9. \A i \in 1..(m + 1) : /\ Made(n_given'[i].buf, n_made) /\ Distinct(n_given'[i].buf)
                           /\ Len(n_given'[i].buf) = n_given'[i].want
  BY <1>2, <1>4, <1>8 DEF FreshBytes
<1>10. \A i \in 1..m : Disjoint(h.buf, n_given[i].buf) /\ Disjoint(n_given[i].buf, h.buf)
  BY <1>2 DEF FreshBytes, Disjoint
<1>11. \A i, j \in 1..(m + 1) : i # j => Disjoint(n_given'[i].buf, n_given'[j].buf)
  BY <1>4, <1>8, <1>10 DEF FreshBytes
<1>12. \A e \in Callers, i \in 1..(m + 1) : Disjoint(n_draw'[e].buf, n_given'[i].buf)
  BY <1>2, <1>3, <1>4, <1>5, <1>7, <1>8 DEF FreshBytes
<1>13. \A e \in Callers : Made(n_draw'[e].buf, n_made) /\ Distinct(n_draw'[e].buf)
  BY <1>3, <1>5, <1>7 DEF FreshBytes
<1>14. \A e, g \in Callers : e # g => Disjoint(n_draw'[e].buf, n_draw'[g].buf)
  BY <1>3, <1>5, <1>7 DEF FreshBytes
<1> QED BY <1>1, <1>4, <1>6, <1>9, <1>11, <1>12, <1>13, <1>14 DEF FreshBytes

LEMMA RngInductive == RngInv /\ [Rng!Next]_Rng!vars => RngInv'
<1> SUFFICES ASSUME RngInv, [Rng!Next]_Rng!vars PROVE RngInv'
  OBVIOUS
<1> USE DEF RngInv
<1> DEFINE Same == n_kind' = n_kind /\ n_check' = n_check
           Kept == n_made' = n_made /\ n_draw' = n_draw /\ n_given' = n_given
<1>1. ASSUME Kept, Sound PROVE DrawsTyped' /\ FreshBytes'
  BY <1>1 DEF DrawsTyped, FreshBytes
<1>2. ASSUME Same, Sound => DrawsTyped' /\ FreshBytes' PROVE RngInv'
  BY <1>2 DEF Sound, Rng!StuckIsCaught
<1>3. CASE Rng!OpenEntropy
  BY <1>1, <1>3 DEF Rng!OpenEntropy, Sound, Rng!StuckIsCaught
<1>4. CASE Rng!Silenced
  BY <1>1, <1>4 DEF Rng!Silenced, Sound, Rng!StuckIsCaught
<1>5. CASE Rng!EntropyCheck
  <2>1. n_check' = "passed" => n_kind = "good"
    BY <1>5 DEF Rng!EntropyCheck, Rng!Verdict, Rng!Filled
  <2> QED BY <1>1, <1>5, <2>1 DEF Rng!EntropyCheck, Sound, Rng!StuckIsCaught
<1>6. ASSUME NEW c \in Callers, NEW n \in BufferLens, NEW infallible \in BOOLEAN,
             Rng!Draw(c, n, infallible)
      PROVE  RngInv'
  <2> DEFINE d == [at |-> "drawing", want |-> n, buf |-> <<>>, infallible |-> infallible]
  <2>1. Same /\ n_draw' = [n_draw EXCEPT ![c] = d] /\ n_given' = n_given /\ n_made' = n_made
    BY <1>6 DEF Rng!Draw
  <2>2. n \in Nat /\ d \in Draws /\ d.buf = <<>> /\ Len(d.buf) <= d.want /\ d.at = "drawing"
    BY RngAssumed DEF Draws
  <2> HIDE DEF d
  <2>3. Distinct(d.buf) /\ Made(d.buf, n_made) /\ DOMAIN d.buf = {}
    BY <2>2 DEF Distinct, Made
  <2>4. ASSUME Sound PROVE DrawsTyped' /\ FreshBytes'
    <3>1. n_made' \in Nat /\ n_made <= n_made' /\ Made(d.buf, n_made')
      BY <2>1, <2>3, <2>4 DEF DrawsTyped
    <3> QED BY <2>1, <2>2, <2>3, <2>4, <3>1, DrawMoves
  <2> QED BY <1>2, <2>1, <2>4
<1>7. ASSUME NEW c \in Callers, Rng!Answer(c) PROVE RngInv'
  BY <1>2, <1>7, DrawAnswered DEF Rng!Answer
<1>8. ASSUME NEW c \in Callers, Rng!Hand(c) PROVE RngInv'
  BY <1>2, <1>8, DrawHanded DEF Rng!Hand
<1>9. ASSUME NEW c \in Callers, Rng!FillFails(c) PROVE RngInv'
  <2> DEFINE at == IF n_draw[c].infallible THEN "trapped" ELSE "idle"
             d == [Rng!Idle EXCEPT !.at = at]
  <2>1. Same /\ n_draw' = [n_draw EXCEPT ![c] = d] /\ n_given' = n_given /\ n_made' = n_made
    BY <1>9 DEF Rng!FillFails
  <2>2. d \in Draws /\ d.buf = <<>> /\ d.at \in {"trapped", "idle"}
    <3>1. Rng!Idle \in Draws /\ Rng!Idle.buf = <<>>
      BY DEF Draws, Rng!Idle
    <3>2. at \in {"trapped", "idle"}
      OBVIOUS
    <3> HIDE DEF at
    <3> QED BY <3>1, <3>2 DEF Draws
  <2> HIDE DEF d
  <2>3. Distinct(d.buf) /\ Made(d.buf, n_made) /\ DOMAIN d.buf = {}
    BY <2>2 DEF Distinct, Made
  <2>4. ASSUME Sound PROVE DrawsTyped' /\ FreshBytes'
    <3>1. n_made' \in Nat /\ n_made <= n_made' /\ Made(d.buf, n_made')
      BY <2>1, <2>3, <2>4 DEF DrawsTyped
    <3> QED BY <2>1, <2>2, <2>3, <2>4, <3>1, DrawMoves
  <2> QED BY <1>2, <2>1, <2>4
<1>10. CASE UNCHANGED Rng!vars
  BY <1>1, <1>2, <1>10 DEF Rng!vars
<1> QED BY <1>3, <1>4, <1>5, <1>6, <1>7, <1>8, <1>9, <1>10 DEF Rng!Next

(* In whatever lengths a working device answers, whoever draws beside and  *)
(* wherever it stops, every buffer handed over is full of bytes of the     *)
(* device that nobody else got, and no stuck device passes the check       *)
(* (get_random, entropy_check).                                            *)
THEOREM BytesAreFresh ==
  /\ Rng!Spec => []Rng!RandomnessHolds
  /\ SumSpec => []RandomnessHolds
<1>1. RngInv => Rng!RandomnessHolds
  <2> SUFFICES ASSUME RngInv PROVE Rng!RandomnessHolds
    OBVIOUS
  <2>1. ASSUME Sound, NEW i \in DOMAIN n_given, NEW j \in DOMAIN n_given,
               NEW x \in DOMAIN n_given[i].buf, NEW y \in DOMAIN n_given[j].buf
        PROVE  /\ n_given[i].buf[x] # 0
               /\ <<i, x>> # <<j, y>> => n_given[i].buf[x] # n_given[j].buf[y]
    <3>0. DOMAIN n_given = 1..Len(n_given) /\ n_made \in Nat
      BY <2>1 DEF RngInv, DrawsTyped
    <3>1. n_given[i].buf[x] \in 1..n_made
      BY <2>1, <3>0 DEF RngInv, FreshBytes, Made
    <3>2. CASE i # j
      BY <2>1, <3>0, <3>1, <3>2 DEF RngInv, FreshBytes, Disjoint
    <3>3. CASE i = j
      BY <2>1, <3>0, <3>1, <3>3 DEF RngInv, FreshBytes, Distinct
    <3> QED BY <3>2, <3>3
  <2>2. ASSUME Sound, NEW i \in DOMAIN n_given PROVE Len(n_given[i].buf) = n_given[i].want
    <3>0. DOMAIN n_given = 1..Len(n_given)
      BY <2>2 DEF RngInv, DrawsTyped
    <3> QED BY <2>2, <3>0 DEF RngInv, FreshBytes
  <2> QED BY <2>1, <2>2 DEF RngInv, Rng!RandomnessHolds, Rng!NeverPredictable, Sound
<1>2. Rng!Spec => []Rng!RandomnessHolds
  BY <1>1, RngInitially, RngInductive, PTL DEF Rng!Spec
<1> DEFINE Part == part = "entropy" => RngInv
<1>3. SumInit => Part
  BY RngInitially DEF SumInit
<1>4. Part /\ [SumNext]_Sum => Part'
  <2> SUFFICES ASSUME RngInv, part = "entropy", part' = "entropy", [SumNext]_Sum PROVE RngInv'
    BY DEF SumNext, Sum
  <2> QED BY RngInductive DEF SumNext, Sum, n_vars, Rng!vars
<1>5. Part => RandomnessHolds
  BY <1>1 DEF RandomnessHolds
<1>6. SumSpec => []RandomnessHolds
  BY <1>3, <1>4, <1>5, PTL DEF SumSpec
<1> QED BY <1>2, <1>6

-----------------------------------------------------------------------------
(* ObjectStore.  A locked version is the first write of a client and is    *)
(* never moved from the listing's end, so it is what the floor of a read   *)
(* is; a listing that is under way has not come to the floor yet or has    *)
(* found something as old (Reads).                                         *)

LEMMA StoreAssumed ==
  /\ Siblings \in Nat /\ MaxWrites \in Nat /\ PageSize \in Nat \ {0}
  /\ Attempts \in Nat \ {0} /\ None \notin Int
  /\ Clients \cap ({Marker, Planted, Sibling, None} \cup S3!Errors) = {}
  /\ Marker \notin {Planted, Sibling} /\ Planted # Sibling
  /\ {Planted, Sibling} \cap ({None} \cup S3!Errors) = {}
  /\ None \notin S3!Errors
BY PartsAssumption DEF S3!ObjectStoreAssumption

LEMMA SameStoreCount ==
  ASSUME NEW S PROVE S3!Cardinality(S) = Cardinality(S)
BY Zenon DEF S3!Cardinality, Cardinality, S3!IsFiniteSet, IsFiniteSet

(* A set of numbers has a least.                                           *)
LEMMA LeastIs ==
  ASSUME NEW T, T \subseteq Nat, T # {}
  PROVE  \E n \in T : \A m \in T : n <= m
<1> DEFINE R == OpToRel(<, Nat)
<1>1. PICK n \in T : \A m \in T : ~ (<<m, n>> \in R)
  BY NatLessThanWellFounded, WFMin DEF R
<1>2. \A m \in T : ~ (m < n)
  BY <1>1 DEF OpToRel
<1> QED BY <1>2

LEMMA EldestIs ==
  ASSUME NEW S, S # {}, \A v \in S : v.id \in Nat
  PROVE  /\ S3!Eldest(S) \in S
         /\ \A w \in S : S3!Eldest(S).id <= w.id
<1>1. PICK n \in {v.id : v \in S} : \A m \in {v.id : v \in S} : n <= m
  BY LeastIs
<1>2. \E v \in S : \A w \in S : v.id <= w.id
  BY <1>1
<1> QED BY <1>2 DEF S3!Eldest

(* A page is what comes first of the rest, and not empty while there is a  *)
(* rest.                                                                   *)
LEMMA PageIs ==
  ASSUME NEW rest, IsFiniteSet(rest), NEW n \in Nat, \A v \in rest : v.id \in 0..n
  PROVE  /\ S3!Page(rest) \subseteq rest
         /\ \A v \in S3!Page(rest), w \in rest : w.id > v.id => w \in S3!Page(rest)
         /\ S3!Page(rest) # rest => S3!Page(rest) # {}
<1> DEFINE Above(v) == {w \in rest : w.id > v.id}
<1>0. PageSize \in Nat \ {0}
  BY StoreAssumed
<1>1. S3!Page(rest) = {v \in rest : Cardinality(Above(v)) < PageSize}
  BY SameStoreCount DEF S3!Page
<1>2. ASSUME NEW v PROVE IsFiniteSet(Above(v)) /\ Cardinality(Above(v)) \in Nat
  BY FS_Subset, FS_CardinalityType
<1>3. ASSUME NEW v \in rest, NEW w \in rest, w.id > v.id
      PROVE  Cardinality(Above(w)) <= Cardinality(Above(v))
  <2>1. Above(w) \subseteq Above(v)
    BY <1>3
  <2> HIDE DEF Above
  <2> QED BY <2>1, <1>2, FS_Subset
<1>4. ASSUME rest # {} PROVE \E v \in rest : Above(v) = {}
  <2> DEFINE T == {n - v.id : v \in rest}
  <2>1. T \subseteq Nat /\ T # {}
    BY <1>4
  <2>2. PICK m \in T : \A k \in T : m <= k
    BY <2>1, LeastIs
  <2>3. PICK v \in rest : m = n - v.id
    BY <2>2
  <2>4. \A w \in rest : n - v.id <= n - w.id
    BY <2>2, <2>3
  <2> QED BY <2>4
<1>5. ASSUME rest # {} PROVE S3!Page(rest) # {}
  <2>1. PICK v \in rest : Above(v) = {}
    BY <1>4, <1>5
  <2>2. Cardinality(Above(v)) = 0
    BY <2>1, FS_EmptySet
  <2> QED BY <1>0, <1>1, <2>2
<1> HIDE DEF Above
<1>6. ASSUME NEW v \in S3!Page(rest), NEW w \in rest, w.id > v.id
      PROVE  w \in S3!Page(rest)
  BY <1>0, <1>1, <1>2, <1>3, <1>6
<1> QED BY <1>1, <1>5, <1>6

(* The versions of the key.                                                *)
Stack ==
  /\ IsFiniteSet(o_versions)
  /\ \A v \in o_versions : /\ v.id \in (Siblings + 1)..(Siblings + o_written)
                           /\ v.locked <=> v.body \in Clients
                           /\ v.body # Sibling
  /\ \A v, w \in o_versions : v.id = w.id => v = w

(* What a client has read, and what it will.                               *)
Reads(c) ==
  /\ o_pc[c] = "create" => o_floor[c] = None /\ o_cursor[c] = None /\ o_found[c] = None
  /\ o_pc[c] # "done" => o_read[c] = None
  /\ o_floor[c] # None =>
       \E v \in o_versions : /\ v.locked /\ v.id = o_floor[c]
                             /\ \A w \in o_versions : w.locked => v.id <= w.id
  /\ o_pc[c] # "create" => \A v \in o_versions : v.body = c => o_floor[c] # None
  /\ o_found[c] # None =>
       /\ o_found[c] > Siblings /\ o_found[c] <= Siblings + o_written
       /\ \A v \in o_versions : v.id = o_found[c] => v.body # Marker
  /\ o_pc[c] = "list" =>
       /\ o_found[c] # None => o_cursor[c] # None /\ o_cursor[c] <= o_found[c]
       /\ o_floor[c] # None => \/ o_cursor[c] # None => o_floor[c] < o_cursor[c]
                               \/ o_found[c] # None /\ o_found[c] <= o_floor[c]
  /\ o_pc[c] = "get" \/ o_read[c] \in S3!Bodies =>
       /\ o_found[c] # None
       /\ o_floor[c] # None => o_found[c] <= o_floor[c]
  /\ o_read[c] = "NotFound" => o_floor[c] = None
  /\ o_read[c] # Sibling
  /\ o_read[c] = c => \E v \in o_versions : v.id = o_found[c] /\ v.body = c

StoreInv == S3!TypeOK /\ Stack /\ \A c \in Clients : Reads(c)

LEMMA StoreInitially == S3!Init => StoreInv
<1> SUFFICES ASSUME S3!Init PROVE StoreInv
  OBVIOUS
<1> USE StoreAssumed DEF S3!Init
<1>1. S3!TypeOK
  BY DEF S3!TypeOK, S3!Version
<1>2. Stack
  BY FS_EmptySet DEF Stack
<1>3. ASSUME NEW c \in Clients PROVE Reads(c)
  BY DEF Reads, S3!Bodies, S3!Errors
<1> QED BY <1>1, <1>2, <1>3 DEF StoreInv

(* How the versions move: a locked one stays, a new one has the next id,   *)
(* and one with a client's body is that client's, which is creating.       *)
Moves ==
  /\ o_written <= o_written'
  /\ \A v \in o_versions : v.locked => v \in o_versions'
  /\ \A w \in o_versions' : \/ w \in o_versions
                            \/ /\ w.id = Siblings + o_written + 1
                               /\ w.body \in Clients => o_pc[w.body] = "create"

LEMMA StackMoves ==
  ASSUME StoreInv, [S3!Next]_S3!vars
  PROVE  Stack' /\ Moves /\ o_versions' \in SUBSET S3!Version /\ o_written' \in 0..MaxWrites
<1> DEFINE Goal == Stack' /\ Moves /\ o_versions' \in SUBSET S3!Version
                   /\ o_written' \in 0..MaxWrites
<1>0. /\ Stack /\ o_versions \in SUBSET S3!Version /\ o_written \in 0..MaxWrites
      /\ o_written \in Nat
  BY StoreAssumed DEF StoreInv, S3!TypeOK
<1> USE StoreAssumed
<1>1. ASSUME NEW body \in (S3!Bodies \cup {Marker}) \ {Sibling}, NEW locked \in BOOLEAN,
             S3!Write(body, locked), locked <=> body \in Clients,
             body \in Clients => o_pc[body] = "create"
      PROVE  Goal
  <2> DEFINE v == [id |-> Siblings + o_written + 1, body |-> body, locked |-> locked]
  <2>1. o_versions' = o_versions \cup {v} /\ o_written' = o_written + 1
        /\ o_written < MaxWrites
    BY <1>1 DEF S3!Write, S3!Stacked
  <2>2. v \in S3!Version
    BY <1>0, <1>1, <2>1 DEF S3!Version, S3!Ids
  <2>3. IsFiniteSet(o_versions')
    BY <1>0, <2>1, FS_AddElement DEF Stack
  <2>4. v.id = Siblings + o_written + 1 /\ v.body = body /\ v.locked = locked
    OBVIOUS
  <2> HIDE DEF v
  <2>5. Stack'
    BY <1>0, <1>1, <2>1, <2>3, <2>4 DEF Stack
  <2> QED BY <1>0, <1>1, <2>1, <2>2, <2>4, <2>5 DEF Moves
<1>2. ASSUME UNCHANGED <<o_versions, o_written>> PROVE Goal
  BY <1>0, <1>2 DEF Stack, Moves
<1>3. ASSUME NEW v \in o_versions, S3!Destroy(v) PROVE Goal
  <2>1. o_versions' = o_versions \ {v} /\ o_written' = o_written /\ ~v.locked
    BY <1>3 DEF S3!Destroy
  <2>2. IsFiniteSet(o_versions')
    BY <1>0, <2>1, FS_RemoveElement DEF Stack
  <2> QED BY <1>0, <2>1, <2>2 DEF Stack, Moves
<1>4. ASSUME NEW c \in Clients, ~S3!Present /\ S3!Write(c, S3!ObjectLock), o_pc[c] = "create"
      PROVE  Goal
  BY <1>1, <1>4 DEF S3!ObjectLock, S3!Bodies
<1>5. CASE S3!DeleteBlob \/ S3!PutBlob
  BY <1>1, <1>5 DEF S3!DeleteBlob, S3!PutBlob, S3!Bodies
<1>6. ASSUME NEW c \in Clients, S3!ClientStep(c) PROVE Goal
  BY <1>2, <1>4, <1>6 DEF S3!ClientStep, S3!CreateAnswered, S3!CreateUnanswered,
     S3!ListPage, S3!ListFails, S3!GetVersion
<1>7. CASE UNCHANGED S3!vars
  BY <1>2, <1>7 DEF S3!vars
<1> QED BY <1>3, <1>5, <1>6, <1>7 DEF S3!Next, S3!Others

LEMMA NoneApart ==
  /\ None \notin S3!Bodies /\ None # "NotFound" /\ None # Sibling
  /\ "NotFound" \notin S3!Bodies /\ "NotFound" # Sibling
  /\ Sibling \notin Clients
  /\ \A c \in Clients : c # None /\ c # "NotFound"
BY StoreAssumed DEF S3!Bodies, S3!Errors

(* What the others write beside a client.                                  *)
LEMMA ReadsStay ==
  ASSUME StoreInv, Stack', Moves, o_written' \in 0..MaxWrites, NEW c \in Clients,
         o_pc'[c] = o_pc[c], o_cursor'[c] = o_cursor[c], o_found'[c] = o_found[c],
         o_read'[c] = o_read[c], o_floor'[c] = o_floor[c]
  PROVE  Reads(c)'
<1>0. Reads(c) /\ Stack /\ o_written \in Nat
  BY StoreAssumed DEF StoreInv, S3!TypeOK
<1>1. ASSUME o_floor[c] # None
      PROVE  \E v \in o_versions' : /\ v.locked /\ v.id = o_floor[c]
                                    /\ \A w \in o_versions' : w.locked => v.id <= w.id
  <2>1. PICK v \in o_versions : /\ v.locked /\ v.id = o_floor[c]
                                /\ \A w \in o_versions : w.locked => v.id <= w.id
    BY <1>0, <1>1 DEF Reads
  <2>2. v \in o_versions' /\ v.id \in (Siblings + 1)..(Siblings + o_written)
    BY <1>0, <2>1 DEF Moves, Stack
  <2>3. ASSUME NEW w \in o_versions', w.locked PROVE v.id <= w.id
    <3>1. CASE w \in o_versions
      BY <2>1, <2>3, <3>1
    <3>2. CASE w.id = Siblings + o_written + 1
      BY <2>2, <3>2, <1>0, StoreAssumed
    <3> QED BY <3>1, <3>2, <2>3 DEF Moves
  <2> QED BY <2>1, <2>2, <2>3
<1>2. ASSUME o_pc[c] # "create", NEW v \in o_versions', v.body = c PROVE o_floor[c] # None
  <2>1. v \in o_versions
    BY <1>2 DEF Moves
  <2> QED BY <1>0, <1>2, <2>1 DEF Reads
<1>3. ASSUME o_read[c] = c PROVE \E v \in o_versions' : v.id = o_found[c] /\ v.body = c
  <2>1. PICK v \in o_versions : v.id = o_found[c] /\ v.body = c
    BY <1>0, <1>3 DEF Reads
  <2>2. v \in o_versions'
    BY <1>0, <2>1 DEF Stack, Moves
  <2> QED BY <2>1, <2>2
<1>4. ASSUME o_found[c] # None
      PROVE  /\ o_found[c] > Siblings /\ o_found[c] <= Siblings + o_written'
             /\ \A v \in o_versions' : v.id = o_found[c] => v.body # Marker
  <2>1. /\ o_found[c] > Siblings /\ o_found[c] <= Siblings + o_written
        /\ \A v \in o_versions : v.id = o_found[c] => v.body # Marker
    BY <1>0, <1>4 DEF Reads
  <2>2. o_written <= o_written' /\ o_written' \in Nat /\ o_found[c] \in Nat
    BY <1>4, StoreAssumed DEF Moves, StoreInv, S3!TypeOK, S3!Ids
  <2>3. ASSUME NEW v \in o_versions', v.id = o_found[c] PROVE v \in o_versions
    BY <1>0, <2>1, <2>2, <2>3, StoreAssumed DEF Moves
  <2> QED BY <1>0, <2>1, <2>2, <2>3, StoreAssumed
<1> QED BY <1>0, <1>1, <1>2, <1>3, <1>4 DEF Reads

(* A create is over and the read begins: if a version of the client is     *)
(* there, it is locked and the floor is no younger.                        *)
LEMMA ReadBegins ==
  ASSUME StoreInv, Stack', o_written' \in 0..MaxWrites,
         NEW c \in Clients, o_pc[c] = "create", S3!Answered(c)
  PROVE  Reads(c)' /\ o_floor'[c] \in S3!Ids \cup {None}
<1>0. /\ Reads(c) /\ o_pc'[c] = "list" /\ o_read'[c] = None
      /\ o_cursor'[c] = None /\ o_found'[c] = None
      /\ o_floor'[c] = S3!OldestLocked'
  BY DEF StoreInv, Reads, S3!TypeOK, S3!Answered
<1>1. \A v \in S3!Locked' : v \in o_versions' /\ v.locked
  BY DEF S3!Locked
<1>2. CASE S3!Locked' = {}
  <2>1. o_floor'[c] = None
    BY <1>0, <1>2 DEF S3!OldestLocked
  <2>2. \A v \in o_versions' : v.body # c
    BY <1>2 DEF S3!Locked, Stack
  <2> QED BY <1>0, <2>1, <2>2, NoneApart DEF Reads
<1>3. CASE S3!Locked' # {}
  <2> DEFINE L == S3!Locked'
  <2>1. \A v \in L : v.id \in Nat
    BY <1>1, StoreAssumed DEF Stack
  <2> HIDE DEF L
  <2>2. S3!Eldest(L) \in L /\ \A w \in L : S3!Eldest(L).id <= w.id
    BY <1>3, <2>1, EldestIs DEF L
  <2>3. o_floor'[c] = S3!Eldest(L).id
    BY <1>0, <1>3 DEF S3!OldestLocked, L, S3!Eldest
  <2>4. /\ S3!Eldest(L) \in o_versions' /\ S3!Eldest(L).locked
        /\ \A w \in o_versions' : w.locked => S3!Eldest(L).id <= w.id
    BY <2>2, <1>1 DEF L, S3!Locked
  <2>5. o_floor'[c] # None
    BY <2>1, <2>2, <2>3, StoreAssumed
  <2> HIDE DEF L
  <2>6. S3!Eldest(L).id \in S3!Ids
    BY <2>4, StoreAssumed DEF Stack, S3!Ids
  <2> DEFINE e == S3!Eldest(L)
  <2> HIDE DEF e
  <2> QED BY <1>0, <2>3, <2>4, <2>5, <2>6, NoneApart DEF Reads, e
<1> QED BY <1>2, <1>3

(* One page.                                                               *)
LEMMA ListingIs ==
  ASSUME StoreInv
  PROVE  /\ IsFiniteSet(S3!Listing)
         /\ \A v \in S3!Listing : v.id \in 1..(Siblings + o_written)
         /\ \A v \in S3!Listing : v.id > Siblings <=> v \in o_versions
         /\ \A v \in S3!Listing : v.id <= Siblings => v.body = Sibling
         /\ \A v, w \in S3!Listing : v.id = w.id => v = w
<1> DEFINE Longer == {[id |-> i, body |-> Sibling, locked |-> TRUE] : i \in 1..Siblings}
<1>0. Siblings \in Nat /\ o_written \in Nat /\ Stack
  BY StoreAssumed DEF StoreInv, S3!TypeOK
<1>1. IsFiniteSet(Longer)
  <2>1. IsFiniteSet(1..Siblings)
    BY <1>0, FS_Interval
  <2> DEFINE longer == [i \in 1..Siblings |-> [id |-> i, body |-> Sibling, locked |-> TRUE]]
  <2>2. longer \in Surjection(1..Siblings, Longer)
    BY DEF Surjection
  <2> QED BY <2>1, <2>2, FS_Surjection
<1>2. \A v \in Longer : v.id \in 1..Siblings /\ v.body = Sibling
  OBVIOUS
<1>3. ASSUME NEW v \in Longer, NEW w \in Longer, v.id = w.id PROVE v = w
  <2>1. PICK i \in 1..Siblings : v = [id |-> i, body |-> Sibling, locked |-> TRUE]
    OBVIOUS
  <2>2. PICK j \in 1..Siblings : w = [id |-> j, body |-> Sibling, locked |-> TRUE]
    OBVIOUS
  <2> QED BY <1>3, <2>1, <2>2
<1>4. S3!Listing = o_versions \cup Longer
  BY DEF S3!Listing
<1> HIDE DEF Longer
<1>5. IsFiniteSet(S3!Listing)
  BY <1>0, <1>1, <1>4, FS_Union DEF Stack
<1>6. \A v \in o_versions : v.id \in (Siblings + 1)..(Siblings + o_written)
  BY <1>0 DEF Stack
<1> QED BY <1>0, <1>2, <1>3, <1>4, <1>5, <1>6 DEF Stack

LEMMA OnePage ==
  ASSUME StoreInv, NEW c \in Clients, S3!ListPage(c)
  PROVE  Reads(c)' /\ S3!TypeOK'
<1> DEFINE rest == S3!AfterMarker(c)
           page == S3!Page(rest)
           own == S3!Own(page)
           kept == S3!Oldest(o_found[c], own)
           Top == Siblings + o_written
<1>0. /\ Reads(c) /\ Stack /\ S3!TypeOK /\ Siblings \in Nat /\ o_written \in Nat
      /\ Siblings + o_written \in Nat /\ MaxWrites \in Nat /\ None \notin Int
      /\ o_written <= MaxWrites
  BY StoreAssumed DEF StoreInv, S3!TypeOK
<1>1. /\ o_pc[c] = "list" /\ o_found' = [o_found EXCEPT ![c] = kept]
      /\ UNCHANGED <<o_versions, o_written, o_attempt, o_floor>>
  BY DEF S3!ListPage
<1>2. \/ /\ page # rest /\ o_cursor' = [o_cursor EXCEPT ![c] = S3!Eldest(page).id]
         /\ UNCHANGED <<o_pc, o_read>>
      \/ /\ page = rest /\ kept = None /\ UNCHANGED o_cursor
         /\ o_read' = [o_read EXCEPT ![c] = "NotFound"] /\ o_pc' = [o_pc EXCEPT ![c] = "done"]
      \/ /\ page = rest /\ kept # None /\ UNCHANGED <<o_cursor, o_read>>
         /\ o_pc' = [o_pc EXCEPT ![c] = "get"]
  BY DEF S3!ListPage, S3!Truncated, S3!NextMarker, S3!Ends
<1>3. /\ rest \subseteq S3!Listing
      /\ \A v \in S3!Listing : v \in rest <=> (o_cursor[c] # None => v.id < o_cursor[c])
  BY DEF S3!AfterMarker
<1>4. /\ IsFiniteSet(rest)
      /\ \A v \in rest : v.id \in 1..Top
      /\ \A v \in rest : v.id \in 0..Top
  BY <1>0, <1>3, ListingIs, FS_Subset
<1> HIDE DEF rest
<1>5. /\ page \subseteq rest
      /\ \A v \in page, w \in rest : w.id > v.id => w \in page
      /\ page # rest => page # {}
  <2> HIDE DEF Top
  <2>1. Top \in Nat
    BY <1>0 DEF Top
  <2> QED BY <1>4, <2>1, PageIs
<1> HIDE DEF page
<1>6. ASSUME page # rest
      PROVE  S3!Eldest(page) \in page /\ \A w \in page : S3!Eldest(page).id <= w.id
  BY <1>0, <1>4, <1>5, <1>6, EldestIs
<1>7. /\ own \subseteq page
      /\ \A v \in page : v \in own <=> v.id > Siblings /\ v.body # Marker
  BY DEF S3!Own, S3!OfKey
<1> HIDE DEF own
<1>8. ASSUME own # {}
      PROVE  S3!Eldest(own) \in own /\ \A w \in own : S3!Eldest(own).id <= w.id
  BY <1>0, <1>4, <1>5, <1>7, <1>8, EldestIs
<1>9. /\ own = {} => kept = o_found[c]
      /\ own # {} => kept = S3!Eldest(own).id
  BY DEF S3!Oldest
<1> HIDE DEF kept, Top
<1>10. /\ o_found[c] # None => o_cursor[c] # None /\ o_cursor[c] <= o_found[c]
       /\ o_found[c] # None => o_found[c] > Siblings
       /\ o_floor[c] # None => \/ o_cursor[c] # None => o_floor[c] < o_cursor[c]
                               \/ o_found[c] # None /\ o_found[c] <= o_floor[c]
       /\ o_found[c] \in S3!Ids \cup {None} /\ o_cursor[c] \in S3!Ids \cup {None}
       /\ o_floor[c] \in S3!Ids \cup {None}
       /\ o_read[c] = None
  BY <1>0, <1>1 DEF Reads, S3!TypeOK
<1>11. S3!Ids \subseteq Nat /\ None \notin S3!Ids /\ 0..Top \subseteq S3!Ids
  BY <1>0 DEF S3!Ids, Top
(* What the page keeps. *)
<1>12. kept \in S3!Ids \cup {None} /\ (kept # None => kept > Siblings)
  BY <1>4, <1>5, <1>7, <1>8, <1>9, <1>10, <1>11
<1>12b. ASSUME kept # None
      PROVE  /\ kept <= Siblings + o_written
             /\ \A v \in o_versions : v.id = kept => v.body # Marker
  <2>1. CASE own = {}
    BY <1>0, <1>12b, <1>9, <2>1 DEF Reads
  <2>2. CASE own # {}
    <3>1. PICK v \in own : kept = v.id
      BY <1>8, <1>9, <2>2
    <3>2. v \in S3!Listing /\ v.id > Siblings /\ v.body # Marker
      BY <1>3, <1>5, <1>7, <3>1
    <3>3. v \in o_versions
      BY <3>2, ListingIs
    <3> QED BY <1>0, <3>1, <3>2, <3>3 DEF Stack
  <2> QED BY <2>1, <2>2
<1>12a. /\ kept = None \/ (kept \in Nat /\ kept # None)
        /\ o_found[c] = None \/ (o_found[c] \in Nat /\ o_found[c] # None)
        /\ o_cursor[c] = None \/ (o_cursor[c] \in Nat /\ o_cursor[c] # None)
        /\ o_floor[c] = None \/ (o_floor[c] \in Nat /\ o_floor[c] # None)
  BY <1>10, <1>11, <1>12
<1>13. own # {} => kept # None /\ (o_cursor[c] # None => kept < o_cursor[c])
  <2> SUFFICES ASSUME own # {} PROVE kept # None /\ (o_cursor[c] # None => kept < o_cursor[c])
    OBVIOUS
  <2>1. PICK v \in own : kept = v.id
    BY <1>8, <1>9
  <2>2. v \in rest /\ v.id \in Nat
    BY <1>4, <1>5, <1>7
  <2> QED BY <1>0, <1>3, <2>1, <2>2
<1>14. o_found[c] # None => kept # None /\ kept <= o_found[c]
  BY <1>9, <1>10, <1>13, <1>12a
(* The floor, if it was in the page. *)
<1>15. ASSUME o_floor[c] # None, o_cursor[c] # None => o_floor[c] < o_cursor[c]
       PROVE  \/ kept # None /\ kept <= o_floor[c]
              \/ page # rest /\ o_floor[c] < S3!Eldest(page).id
  <2>1. PICK v \in o_versions : v.locked /\ v.id = o_floor[c]
    BY <1>0, <1>15 DEF Reads
  <2>2. v \in S3!Listing /\ v.id > Siblings /\ v.body # Marker
    BY <1>0, <2>1, ListingIs, StoreAssumed DEF Stack, S3!Listing
  <2>3. v \in rest
    BY <1>3, <1>15, <2>1, <2>2
  <2>4. CASE v \in page
    <3>1. v \in own
      BY <1>7, <2>2, <2>4
    <3>2. S3!Eldest(own).id <= v.id
      BY <1>8, <3>1
    <3> QED BY <1>9, <1>13, <2>1, <3>1, <3>2
  <2>5. CASE v \notin page
    <3>1. page # rest
      BY <2>3, <2>5
    <3>2. S3!Eldest(page) \in page
      BY <1>6, <3>1
    <3> DEFINE e == S3!Eldest(page)
    <3>3. e \in rest /\ e.id \in Nat /\ v.id \in Nat /\ e # v
      BY <1>4, <1>5, <2>3, <2>5, <3>2
    <3>4. ~ (v.id > e.id)
      BY <1>5, <2>3, <2>5, <3>2
    <3>5. v.id # e.id
      BY <1>3, <2>2, <3>3, ListingIs
    <3> HIDE DEF e
    <3>6. v.id < e.id
      BY <3>3, <3>4, <3>5
    <3> QED BY <2>1, <3>1, <3>6 DEF e
  <2> QED BY <2>4, <2>5
<1>16. S3!TypeOK'
  <2>1. page # rest => S3!Eldest(page).id \in S3!Ids
    BY <1>4, <1>5, <1>6, <1>11
  <2> QED BY <1>0, <1>1, <1>2, <1>12, <2>1 DEF S3!TypeOK, S3!Errors
<1>17. /\ o_found'[c] = kept /\ o_floor'[c] = o_floor[c]
  BY <1>0, <1>1 DEF S3!TypeOK
<1>18. CASE page # rest
  <2> DEFINE next == S3!Eldest(page).id
  <2>1. o_cursor'[c] = next /\ o_pc'[c] = "list" /\ o_read'[c] = None
    BY <1>0, <1>1, <1>2, <1>10, <1>18 DEF S3!TypeOK
  <2>2. next \in Nat /\ next # None
    BY <1>4, <1>5, <1>6, <1>11, <1>18
  <2>3. kept # None => next <= kept
    <3>1. CASE own # {}
      BY <1>6, <1>7, <1>8, <1>9, <1>18, <3>1
    <3>2. CASE own = {}
      <4>1. kept = o_found[c]
        BY <1>9, <3>2
      <4>2. S3!Eldest(page) \in rest
        BY <1>5, <1>6, <1>18
      <4>3. o_cursor[c] # None => next < o_cursor[c]
        BY <1>3, <4>2
      <4> HIDE DEF next
      <4> QED BY <1>10, <1>12a, <2>2, <4>1, <4>3
    <3> QED BY <3>1, <3>2
  <2>4. o_floor[c] # None => \/ o_floor[c] < next
                             \/ kept # None /\ kept <= o_floor[c]
    <3>1. CASE o_floor[c] # None /\ o_found[c] # None /\ o_found[c] <= o_floor[c]
      BY <3>1, <1>14, <1>12a
    <3> QED BY <3>1, <1>10, <1>15
  <2> HIDE DEF next
  <2> QED BY <1>0, <1>1, <1>12, <1>12b, <1>16, <1>17, <2>1, <2>2, <2>3, <2>4, NoneApart DEF Reads
<1>19. CASE page = rest
  <2>1. o_floor[c] # None => kept # None /\ kept <= o_floor[c]
    <3>1. CASE o_floor[c] # None /\ o_found[c] # None /\ o_found[c] <= o_floor[c]
      BY <3>1, <1>14, <1>12a
    <3> QED BY <3>1, <1>10, <1>15, <1>19
  <2>2. \/ kept = None /\ o_read'[c] = "NotFound" /\ o_pc'[c] = "done"
        \/ kept # None /\ o_read'[c] = None /\ o_pc'[c] = "get"
    BY <1>0, <1>2, <1>10, <1>19 DEF S3!TypeOK
  <2> QED BY <1>0, <1>1, <1>12, <1>12b, <1>16, <1>17, <2>1, <2>2, NoneApart DEF Reads
<1> QED BY <1>16, <1>18, <1>19

(* The version is asked for by its id.                                     *)
LEMMA OneVersion ==
  ASSUME StoreInv, NEW c \in Clients, S3!GetVersion(c)
  PROVE  Reads(c)' /\ S3!TypeOK'
<1> DEFINE at == {v \in S3!Listing : v.id = o_found[c]}
<1>0. /\ Reads(c) /\ Stack /\ S3!TypeOK /\ Siblings \in Nat /\ o_written \in Nat
      /\ None \notin Int
  BY StoreAssumed DEF StoreInv, S3!TypeOK
<1>1. /\ o_pc[c] = "get" /\ o_pc' = [o_pc EXCEPT ![c] = "done"]
      /\ UNCHANGED <<o_versions, o_written, o_attempt, o_cursor, o_found, o_floor>>
      /\ at = {} => o_read' = [o_read EXCEPT ![c] = "Io"]
      /\ at # {} => o_read' = [o_read EXCEPT ![c] = (CHOOSE v \in at : TRUE).body]
  BY DEF S3!GetVersion, S3!Ends
<1>2. /\ o_found[c] # None /\ (o_floor[c] # None => o_found[c] <= o_floor[c])
      /\ o_found[c] > Siblings /\ o_pc'[c] = "done"
  BY <1>0, <1>1 DEF Reads, S3!TypeOK
<1>3. CASE at = {}
  <2>1. o_read'[c] = "Io" /\ S3!TypeOK'
    BY <1>0, <1>1, <1>3 DEF S3!TypeOK, S3!Errors
  <2>2. "Io" \notin S3!Bodies \cup {"NotFound", Sibling, c}
    BY StoreAssumed DEF S3!Bodies, S3!Errors
  <2> QED BY <1>0, <1>1, <1>2, <2>1, <2>2 DEF Reads
<1>4. CASE at # {}
  <2>1. PICK v \in at : o_read' = [o_read EXCEPT ![c] = v.body]
    BY <1>1, <1>4
  <2>2. v \in o_versions /\ v.id = o_found[c]
    BY <1>2, ListingIs
  <2>3. v.body \in S3!Bodies \cup {Marker} /\ v.locked \in BOOLEAN
    BY <1>0, <2>2 DEF S3!TypeOK, S3!Version
  <2>4. v.body # Marker /\ v.body # Sibling
    BY <1>0, <1>2, <2>2 DEF Reads, Stack
  <2>5. o_read'[c] = v.body
    BY <1>0, <2>1 DEF S3!TypeOK
  <2>6. S3!TypeOK'
    BY <1>0, <1>1, <2>1, <2>3, <2>4 DEF S3!TypeOK
  <2>7. v.body # None /\ v.body # "NotFound"
    BY <2>3, <2>4, NoneApart
  <2> HIDE DEF at
  <2> QED BY <1>0, <1>1, <1>2, <2>2, <2>4, <2>5, <2>6, <2>7 DEF Reads
<1> QED BY <1>3, <1>4

LEMMA StoreInductive == StoreInv /\ [S3!Next]_S3!vars => StoreInv'
<1> SUFFICES ASSUME StoreInv, [S3!Next]_S3!vars PROVE StoreInv'
  OBVIOUS
<1>0. S3!TypeOK /\ Stack /\ \A c \in Clients : Reads(c)
  BY DEF StoreInv
<1>1. Stack' /\ Moves /\ o_versions' \in SUBSET S3!Version /\ o_written' \in 0..MaxWrites
  BY StackMoves
<1>2. ASSUME UNCHANGED S3!client PROVE StoreInv'
  <2>1. S3!TypeOK'
    BY <1>0, <1>1, <1>2 DEF S3!TypeOK, S3!client
  <2>2. ASSUME NEW c \in Clients PROVE Reads(c)'
    BY <1>1, <1>2, ReadsStay DEF S3!client
  <2> QED BY <1>1, <2>1, <2>2 DEF StoreInv
<1>3. ASSUME NEW c \in Clients, Reads(c)', S3!TypeOK', S3!ClientStep(c) PROVE StoreInv'
  <2>1. ASSUME NEW d \in Clients, d # c
        PROVE  /\ o_pc'[d] = o_pc[d] /\ o_cursor'[d] = o_cursor[d]
               /\ o_found'[d] = o_found[d] /\ o_read'[d] = o_read[d]
               /\ o_floor'[d] = o_floor[d]
    BY <1>0, <1>3, <2>1 DEF S3!TypeOK, S3!ClientStep, S3!CreateAnswered, S3!CreateUnanswered,
       S3!Answered, S3!ListPage, S3!ListFails, S3!GetVersion, S3!Ends
  <2>2. ASSUME NEW d \in Clients PROVE Reads(d)'
    <3>1. CASE d = c
      BY <1>3, <3>1
    <3>2. CASE d # c
      BY <1>1, <2>1, <3>2, ReadsStay
    <3> QED BY <3>1, <3>2
  <2> QED BY <1>1, <1>3, <2>2 DEF StoreInv
<1>4. ASSUME NEW c \in Clients, o_pc[c] = "create", S3!Answered(c)
      PROVE  Reads(c)' /\ S3!TypeOK'
  <2>1. Reads(c)' /\ o_floor'[c] \in S3!Ids \cup {None}
    BY <1>1, <1>4, ReadBegins
  <2> QED BY <1>0, <1>1, <1>4, <2>1, StoreAssumed DEF S3!TypeOK, S3!Answered
<1>5. ASSUME NEW c \in Clients, S3!CreateAnswered(c) PROVE StoreInv'
  BY <1>3, <1>4, <1>5 DEF S3!CreateAnswered, S3!ClientStep
<1>6. ASSUME NEW c \in Clients, S3!CreateUnanswered(c) PROVE StoreInv'
  <2>1. CASE o_attempt[c] < Attempts
    <3>1. /\ o_attempt' = [o_attempt EXCEPT ![c] = o_attempt[c] + 1]
          /\ UNCHANGED <<o_pc, o_cursor, o_found, o_read, o_floor>>
      BY <1>6, <2>1 DEF S3!CreateUnanswered
    <3>2. S3!TypeOK'
      BY <1>0, <1>1, <2>1, <3>1, StoreAssumed DEF S3!TypeOK
    <3>3. Reads(c)'
      BY <1>1, <3>1, ReadsStay
    <3> QED BY <1>3, <1>6, <3>2, <3>3 DEF S3!ClientStep
  <2>2. CASE ~(o_attempt[c] < Attempts)
    BY <1>3, <1>4, <1>6, <2>2 DEF S3!CreateUnanswered, S3!ClientStep
  <2> QED BY <2>1, <2>2
<1>7. ASSUME NEW c \in Clients, S3!ListPage(c) PROVE StoreInv'
  BY <1>3, <1>7, OnePage DEF S3!ClientStep
<1>8. ASSUME NEW c \in Clients, S3!ListFails(c) PROVE StoreInv'
  <2>1. PICK e \in {"Io", "IoTimeout"} :
          /\ o_read' = [o_read EXCEPT ![c] = e] /\ o_pc' = [o_pc EXCEPT ![c] = "done"]
    BY <1>8 DEF S3!ListFails, S3!Ends
  <2>2. /\ o_pc[c] = "list"
        /\ UNCHANGED <<o_versions, o_written, o_attempt, o_cursor, o_found, o_floor>>
    BY <1>8 DEF S3!ListFails
  <2>3. S3!TypeOK'
    BY <1>0, <2>1, <2>2 DEF S3!TypeOK, S3!Errors
  <2>4. e \notin S3!Bodies \cup {None, "NotFound", Sibling, c}
    BY StoreAssumed DEF S3!Bodies, S3!Errors
  <2>5. Reads(c)'
    BY <1>0, <2>1, <2>2, <2>4 DEF Reads, S3!TypeOK
  <2> QED BY <1>3, <1>8, <2>3, <2>5 DEF S3!ClientStep
<1>9. ASSUME NEW c \in Clients, S3!GetVersion(c) PROVE StoreInv'
  BY <1>3, <1>9, OneVersion DEF S3!ClientStep
<1>10. CASE S3!Others
  BY <1>2, <1>10 DEF S3!Others, S3!DeleteBlob, S3!PutBlob, S3!Destroy
<1>11. CASE UNCHANGED S3!vars
  BY <1>2, <1>11 DEF S3!vars, S3!client
<1> QED BY <1>5, <1>6, <1>7, <1>8, <1>9, <1>10, <1>11 DEF S3!Next, S3!ClientStep

(* However many enclaves create one record, whatever is stacked on it and  *)
(* destroyed, and however often a create is repeated: one of them reads    *)
(* its own body back, nobody who began after the first create landed is    *)
(* told that there is none, and nobody reads what was written over it      *)
(* (create_blob, get_retained_blob).                                       *)
THEOREM RecordsAreKept ==
  /\ S3!Spec => []S3!RecordsHold
  /\ SumSpec => []RecordsHold
<1>1. StoreInv => S3!RecordsHold
  <2> SUFFICES ASSUME StoreInv PROVE S3!RecordsHold
    OBVIOUS
  <2>0. S3!TypeOK /\ Stack /\ \A c \in Clients : Reads(c)
    BY DEF StoreInv
  <2>1. ASSUME NEW c \in Clients, o_read[c] = c
        PROVE  /\ o_floor[c] # None /\ o_found[c] = o_floor[c]
               /\ \E v \in o_versions : /\ v.locked /\ v.id = o_floor[c] /\ v.body = c
                                       /\ \A w \in o_versions : w.locked => v.id <= w.id
    <3>1. PICK v \in o_versions : v.id = o_found[c] /\ v.body = c
      BY <2>0, <2>1 DEF Reads
    <3>2. o_pc[c] # "create" /\ c \in S3!Bodies
      BY <2>0, <2>1, NoneApart DEF Reads, S3!Bodies
    <3>3. o_floor[c] # None /\ o_found[c] <= o_floor[c] /\ v.locked
      BY <2>0, <2>1, <3>1, <3>2 DEF Reads, Stack
    <3>4. PICK w \in o_versions : /\ w.locked /\ w.id = o_floor[c]
                                  /\ \A u \in o_versions : u.locked => w.id <= u.id
      BY <2>0, <3>3 DEF Reads
    <3>5. v.id \in Nat /\ w.id \in Nat /\ w.id <= v.id /\ v.id <= w.id
      BY <2>0, <3>1, <3>3, <3>4, StoreAssumed DEF Stack, S3!TypeOK
    <3>6. v = w
      BY <2>0, <3>5 DEF Stack
    <3> QED BY <3>1, <3>3, <3>4, <3>6
  <2>2. S3!OneWinner
    <3> SUFFICES ASSUME NEW c \in Clients, NEW d \in Clients, o_read[c] = c, o_read[d] = d
                 PROVE  c = d
      BY DEF S3!OneWinner
    <3>1. PICK v \in o_versions : /\ v.locked /\ v.body = c
                                  /\ \A u \in o_versions : u.locked => v.id <= u.id
      BY <2>1
    <3>2. PICK w \in o_versions : /\ w.locked /\ w.body = d
                                  /\ \A u \in o_versions : u.locked => w.id <= u.id
      BY <2>1
    <3>3. v.id \in Int /\ w.id \in Int /\ w.id <= v.id /\ v.id <= w.id
      BY <2>0, <3>1, <3>2 DEF Stack
    <3> QED BY <2>0, <3>1, <3>2, <3>3 DEF Stack
  <2>3. S3!HiddenIsFound
    BY <2>0 DEF Reads, S3!HiddenIsFound
  <2>4. S3!NothingNewer
    BY <2>0 DEF Reads, S3!NothingNewer
  <2> QED BY <2>0, <2>2, <2>3, <2>4 DEF S3!RecordsHold
<1>2. S3!Spec => []S3!RecordsHold
  BY <1>1, StoreInitially, StoreInductive, PTL DEF S3!Spec
<1> DEFINE Part == part = "store" => StoreInv
<1>3. SumInit => Part
  BY StoreInitially DEF SumInit
<1>4. Part /\ [SumNext]_Sum => Part'
  <2> SUFFICES ASSUME StoreInv, part = "store", part' = "store", [SumNext]_Sum PROVE StoreInv'
    BY DEF SumNext, Sum
  <2> QED BY StoreInductive DEF SumNext, Sum, o_vars, S3!vars
<1>5. Part => RecordsHold
  BY <1>1 DEF RecordsHold
<1>6. SumSpec => []RecordsHold
  BY <1>3, <1>4, <1>5, PTL DEF SumSpec
<1> QED BY <1>2, <1>6
=============================================================================
