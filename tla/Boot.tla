-------------------------------- MODULE Boot --------------------------------
(***************************************************************************)
(* From an empty enclave to one that serves (src/runtime/src/main.rs,      *)
(* boot.rs, guest.rs, keys/): fetch the guest and measure it, find out     *)
(* whether the filesystem exists, have KMS release or mint its master      *)
(* secret, open or create the pool, and leave the records that account for *)
(* it: the sealed key, the state-origin receipt, one record per pair of    *)
(* runtime and guest.                                                      *)
(*                                                                         *)
(* Several enclaves boot on one store, each request of theirs a step of    *)
(* its own, and may stop between any two.  A store object is written once  *)
(* (a conditional put under Object Lock, read back by get_retained_blob);  *)
(* the SSM parameter is written with overwrite(false).                     *)
(*                                                                         *)
(* A secret stands for everything unique to it: the data key, its          *)
(* ciphertext and digest, and the genesis anchor made with it.  A pair is  *)
(* named by its guest: two runtimes differ as two guests do.               *)
(***************************************************************************)
EXTENDS Naturals, FiniteSets

CONSTANTS Enclaves, Guests, Secrets,
          Pinned,       \* the guest whose pair the KMS key policy names
          MaxStops,     \* bound on enclaves stopped by a fault
          MaxUploads,   \* bound on guests uploaded over the one in the bucket
          None

VARIABLES bucket,    \* the guest component the bucket holds
          ssm,       \* the SSM parameter: a ciphertext
          key,       \* origin/<fs>.key: a pointer that commits to a ciphertext
          pool,      \* the pool's genesis anchor
          receipt,   \* origin/<fs>.receipt: the state root it attests
          pairs,     \* origin/<fs>.pair.<hash>: the state root per pair
          enclave, stops, uploads,
          served     \* history: what every enclave that came up served

store == <<ssm, key, pool, receipt, pairs>>
vars == <<bucket, ssm, key, pool, receipt, pairs, enclave, stops, uploads, served>>

(* state_root: the hash over the genesis anchor and the sealed key.        *)
StateRoot(p, k) == <<p, k>>

(* The sealed key is a pointer that commits to the parameter's ciphertext  *)
(* by digest and holds no key material.                                    *)
Encode(ciphertext) == [digest |-> ciphertext]
Decode(sealed) == sealed.digest

(* The records are attestation documents over a purpose and a state root,  *)
(* their signatures checked as of when they were made; nothing else is     *)
(* asked of a receipt, a pair record must be the pair's own too.           *)
Payload(purpose, root) == [purpose |-> purpose, root |-> root]
OpenReceipt(document, expected) == document = expected
VerifyOrigin(document, root) == OpenReceipt(document, Payload("state-origin", root))
VerifyPairRecord(document, root) == OpenReceipt(document, Payload("state-pair", root))

Off == [at |-> "off", guest |-> None, pcr16 |-> None, receipt |-> None, sealed |-> None,
        master |-> None, root |-> None, mode |-> None]

Init ==
  /\ bucket = Pinned
  /\ ssm = None /\ key = None /\ pool = None /\ receipt = None
  /\ pairs = [g \in Guests |-> None]
  /\ enclave = [e \in Enclaves |-> Off]
  /\ stops = 0 /\ uploads = 0 /\ served = {}

At(e, step) == enclave[e].at = step
Goto(e, step) == enclave' = [enclave EXCEPT ![e].at = step]
Refuse(e) == enclave' = [enclave EXCEPT ![e] = Off]   \* bail!: the process exits

(***************************************************************************)
(* main.rs: the guest is fetched once and measured before any key is asked *)
(* for.  PCR16 starts at zero and unlocked in a fresh enclave; it is       *)
(* extended with the guest's hash and locked.                              *)
(***************************************************************************)
FetchGuest(e) ==
  /\ At(e, "off")
  /\ enclave' = [enclave EXCEPT ![e] = [Off EXCEPT !.at = "fetched", !.guest = bucket]]
  /\ UNCHANGED <<bucket, store, stops, uploads, served>>

MeasureGuest(e) ==
  /\ At(e, "fetched")
  /\ enclave' = [enclave EXCEPT ![e].pcr16 = enclave[e].guest, ![e].at = "measured"]
  /\ UNCHANGED <<bucket, store, stops, uploads, served>>

(***************************************************************************)
(* boot: the pair is read from the device, the guest's register locked and *)
(* extended or nothing; then the receipt, then the sealed key.             *)
(***************************************************************************)
PairRead(e) == enclave[e].pcr16 # None
RecordKey(e) == enclave[e].pcr16

ReadReceipt(e) ==
  /\ At(e, "measured")
  /\ IF PairRead(e)
       THEN enclave' = [enclave EXCEPT ![e].receipt = receipt, ![e].at = "receipt_read"]
       ELSE Refuse(e)
  /\ UNCHANGED <<bucket, store, stops, uploads, served>>

ReadSealedKey(e) ==
  /\ At(e, "receipt_read")
  /\ CASE enclave[e].receipt # None /\ key # None ->
            enclave' = [enclave EXCEPT ![e].sealed = key, ![e].at = "open"]
       [] enclave[e].receipt = None /\ key = None -> Goto(e, "mint")
       [] OTHER -> Refuse(e)
  /\ UNCHANGED <<bucket, store, stops, uploads, served>>

(* verify_key: KMS's answer is used only when the key policy names this    *)
(* enclave's pair and no other; KMS releases to that attestation alone.    *)
VerifyKey(e) == enclave[e].pcr16 = Pinned

(* read_ciphertext: the parameter must be the one the pointer commits to.  *)
ReadCiphertext(e) == ssm = Decode(enclave[e].sealed)

OpenKey(e) ==
  /\ At(e, "open")
  /\ IF VerifyKey(e) /\ ReadCiphertext(e)
       THEN enclave' = [enclave EXCEPT ![e].master = ssm, ![e].at = "opened"]
       ELSE Refuse(e)
  /\ UNCHANGED <<bucket, store, stops, uploads, served>>

(* Zfs::open under the master key, then verify_origin: the receipt names   *)
(* the state root of this pool and this sealed key.                        *)
OpenPool(e) ==
  /\ At(e, "opened")
  /\ LET root == StateRoot(pool, enclave[e].sealed) IN
     IF pool = enclave[e].master /\ VerifyOrigin(enclave[e].receipt, root)
       THEN enclave' = [enclave EXCEPT ![e].root = root, ![e].mode = "Resume", ![e].at = "record"]
       ELSE Refuse(e)
  /\ UNCHANGED <<bucket, store, stops, uploads, served>>

(***************************************************************************)
(* genesis: mint, the parameter, the key, the pool, the receipt.           *)
(***************************************************************************)
Fresh(s) == s \notin {ssm, pool} /\ key # Encode(s) /\ \A e \in Enclaves : enclave[e].master # s

Mint(e) ==
  /\ At(e, "mint")
  /\ IF VerifyKey(e)
       THEN \E s \in Secrets :
              Fresh(s) /\ enclave' = [enclave EXCEPT ![e].master = s, ![e].at = "parameter"]
       ELSE Refuse(e)
  /\ UNCHANGED <<bucket, store, stops, uploads, served>>

(* put_parameter with overwrite(false).                                    *)
PutParameter(e) ==
  /\ At(e, "parameter")
  /\ IF ssm = None THEN ssm' = enclave[e].master /\ Goto(e, "key")
                   ELSE Refuse(e) /\ UNCHANGED ssm
  /\ UNCHANGED <<bucket, key, pool, receipt, pairs, stops, uploads, served>>

(* The genesis lease: the conditional put of the sealed key.               *)
PutKey(e) ==
  /\ At(e, "key")
  /\ IF key = None
       THEN /\ key' = Encode(enclave[e].master)
            /\ enclave' = [enclave EXCEPT ![e].sealed = key', ![e].at = "create"]
       ELSE Refuse(e) /\ UNCHANGED key
  /\ UNCHANGED <<bucket, ssm, pool, receipt, pairs, stops, uploads, served>>

(* Zfs::create publishes the pool's genesis anchor with a conditional put. *)
CreatePool(e) ==
  /\ At(e, "create")
  /\ IF pool = None
       THEN /\ pool' = enclave[e].master
            /\ enclave' = [enclave EXCEPT ![e].root = StateRoot(enclave[e].master, enclave[e].sealed),
                                          ![e].at = "receipt"]
       ELSE Refuse(e) /\ UNCHANGED pool
  /\ UNCHANGED <<bucket, ssm, key, receipt, pairs, stops, uploads, served>>

PutReceiptUnsent(e) ==   \* mutant
  /\ At(e, "receipt")
  /\ enclave' = [enclave EXCEPT ![e].mode = "Genesis", ![e].at = "record"]
  /\ UNCHANGED <<bucket, store, stops, uploads, served>>
PutReceipt(e) ==
  /\ At(e, "receipt")
  /\ IF receipt = None
       THEN /\ receipt' = Payload("state-origin", enclave[e].root)
            /\ enclave' = [enclave EXCEPT ![e].mode = "Genesis", ![e].at = "record"]
       ELSE Refuse(e) /\ UNCHANGED receipt
  /\ UNCHANGED <<bucket, ssm, key, pool, pairs, stops, uploads, served>>

(***************************************************************************)
(* record_pair, at the end of either way.                                  *)
(***************************************************************************)
Up(e, mode) ==
  /\ enclave' = [enclave EXCEPT ![e].mode = mode, ![e].at = "up"]
  /\ served' = served \union {[root |-> enclave[e].root, master |-> enclave[e].master,
                               guest |-> enclave[e].guest]}

FindPair(e) ==
  /\ At(e, "record")
  /\ LET found == pairs[RecordKey(e)] IN
     CASE found = None -> Goto(e, "put_pair") /\ UNCHANGED served
       [] found # None /\ VerifyPairRecord(found, enclave[e].root) -> Up(e, enclave[e].mode)
       [] OTHER -> Refuse(e) /\ UNCHANGED served
  /\ UNCHANGED <<bucket, store, stops, uploads>>

(* genesis keeps its mode; a boot that resumed and wrote the record, or    *)
(* lost the race to write it, reports an upgrade.                          *)
NewMode(e) == IF enclave[e].mode = "Genesis" THEN "Genesis" ELSE "Upgrade"
PutPair(e) ==
  /\ At(e, "put_pair")
  /\ LET found == pairs[RecordKey(e)]   root == enclave[e].root IN
     CASE found = None -> /\ pairs' = [pairs EXCEPT ![RecordKey(e)] = Payload("state-pair", root)]
                          /\ Up(e, NewMode(e))
       [] found # None /\ VerifyPairRecord(found, root) -> UNCHANGED pairs /\ Up(e, NewMode(e))
       [] OTHER -> Refuse(e) /\ UNCHANGED <<pairs, served>>
  /\ UNCHANGED <<bucket, ssm, key, pool, receipt, stops, uploads>>

(***************************************************************************)
(* The environment.                                                        *)
(***************************************************************************)
(* A request fails or its answer is lost, or the host stops the enclave:   *)
(* the process ends and may be started again.                              *)
Stop(e) ==
  /\ ~At(e, "off") /\ stops < MaxStops
  /\ stops' = stops + 1
  /\ Refuse(e)
  /\ UNCHANGED <<bucket, store, uploads, served>>

(* An operator uploads another guest, which is not an Object Lock record.  *)
UploadGuest(g) ==
  /\ uploads < MaxUploads /\ g # bucket
  /\ uploads' = uploads + 1 /\ bucket' = g
  /\ UNCHANGED <<store, enclave, stops, served>>

Step(e) ==
  \/ FetchGuest(e) \/ MeasureGuest(e) \/ ReadReceipt(e) \/ ReadSealedKey(e)
  \/ OpenKey(e) \/ OpenPool(e)
  \/ Mint(e) \/ PutParameter(e) \/ PutKey(e) \/ CreatePool(e) \/ PutReceipt(e)
  \/ FindPair(e) \/ PutPair(e)

Next ==
  \/ \E e \in Enclaves : Step(e) \/ Stop(e)
  \/ \E g \in Guests : UploadGuest(g)

(* The process goes on by itself, and the host starts it again when it     *)
(* exits.                                                                  *)
Fairness == \A e \in Enclaves : WF_vars(Step(e))
Spec == Init /\ [][Next]_vars /\ Fairness

(***************************************************************************)
(* Properties.                                                             *)
(***************************************************************************)
Steps == {"off", "fetched", "measured", "receipt_read", "open", "opened", "mint", "parameter",
          "key", "create", "receipt", "record", "put_pair", "up"}
Sealed == [digest : Secrets]
Roots == Secrets \X Sealed
Records == [purpose : {"state-origin", "state-pair"}, root : Roots]
Opt(S) == S \union {None}

(* None is none of the values it stands beside, and the policy pins a      *)
(* guest there is.                                                         *)
ASSUME BootAssumption ==
  /\ None \notin Secrets \union Guests \union Sealed \union Roots \union Records
  /\ Pinned \in Guests
  /\ MaxStops \in Nat /\ MaxUploads \in Nat

(* Types; an enclave past the measurement knows the guest it will run, and *)
(* one that serves holds a master key (the shape of boot's Booted).        *)
TypeOK ==
  /\ bucket \in Guests /\ {ssm, pool} \subseteq Opt(Secrets) /\ key \in Opt(Sealed)
  /\ receipt \in Opt(Records) /\ pairs \in [Guests -> Opt(Records)]
  /\ enclave \in [Enclaves -> [at : Steps, guest : Opt(Guests), pcr16 : Opt(Guests),
       receipt : Opt(Records), sealed : Opt(Sealed), master : Opt(Secrets), root : Opt(Roots),
       mode : Opt({"Genesis", "Resume", "Upgrade"})]]
  /\ stops \in 0..MaxStops /\ uploads \in 0..MaxUploads
  /\ served \subseteq [root : Roots, master : Secrets, guest : Guests]

(* However many enclaves race through genesis or stop half-way, one state  *)
(* is ever served: every enclave that comes up has the state root of the   *)
(* receipt and the master key its pool was created with (boot, genesis).   *)
OneOrigin ==
  \A s \in served : /\ receipt = Payload("state-origin", s.root)
                   /\ s.root = StateRoot(s.master, Encode(s.master)) /\ s.master = pool

(* The record that accounts for a pair is in the store before the pair     *)
(* serves: whoever later asks finds which runtime and guest held this      *)
(* state (record_pair is awaited before Booted is returned).               *)
ServedIsRecorded == \A s \in served : pairs[s.guest] = Payload("state-pair", s.root)

(* The secret is never in an enclave running another guest than the key    *)
(* policy pins, whatever is uploaded while it boots (measure_guest before  *)
(* mint and open, verify_key in both).                                     *)
PinnedGuestAlone ==
  \A e \in Enclaves : enclave[e].master # None => enclave[e].guest = Pinned

(* What is in the store always lets the next step be judged: a receipt     *)
(* only with its key, its pool and its parameter, all of one genesis       *)
(* (the order of genesis).                                                 *)
ReceiptIsLast ==
  receipt # None => ssm = pool /\ key = Encode(pool) /\ receipt.root = StateRoot(pool, key)

(* Once the receipt is written the filesystem is never locked out: however *)
(* the enclaves stop, one comes up again, unless the bucket no longer has  *)
(* the pinned guest (boot: "a genesis interrupted between the two leaves a *)
(* store the next boot resumes").                                          *)
BornComesUp ==
  receipt # None ~> (bucket # Pinned \/ \E e \in Enclaves : At(e, "up"))

(* However boots race and stop, one state is served, by the pinned guest   *)
(* alone, with its pair on record and a receipt only over a whole genesis  *)
(* (boot, genesis, record_pair, measure_guest).                            *)
GenesisHolds ==
  /\ TypeOK
  /\ OneOrigin
  /\ ServedIsRecorded
  /\ PinnedGuestAlone
  /\ ReceiptIsLast

=============================================================================
