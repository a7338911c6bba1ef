---------------------------- MODULE MCFoundation ----------------------------
(***************************************************************************)
(* What the enclave stands on: the catalog of tenants, the settings it     *)
(* starts with, its clock, the policy of the key it asks for and the       *)
(* answer it gets, the store its tests run on, and the attestation its     *)
(* clients check. A behaviour is one of part; the others stay as they      *)
(* started. The operators before the instances are values for constants.   *)
(***************************************************************************)
EXTENDS Catalog, Integers, Sequences, TLC

CONSTANTS StoreKeys, Folder, PageSize, MaxWrites                \* MemoryStore
CONSTANTS Services, PushService, Ports                          \* Settings
CONSTANTS Policies, MaxBoots                                    \* KeyPolicy
CONSTANTS Threads, Sources, MaxTime, MaxCalls, Readings         \* Clock
CONSTANTS Enclaves, Between, Chains, Clis, Authorities,         \* Attested
          MaxNonces, MaxExtends, MaxDocs, MaxNow, MaxAge

VARIABLE part       \* "catalog", "memory", "settings", "policy", "ber", "clock" or "client"
VARIABLES m_objects, m_markers, m_retained, m_upload, m_failNext, m_bucket,
          m_first, m_listing, m_calls
m_vars == <<m_objects, m_markers, m_retained, m_upload, m_failNext, m_bucket,
            m_first, m_listing, m_calls>>
VARIABLES s_build, s_at, s_cli, s_testing, s_runs
s_vars == <<s_build, s_at, s_cli, s_testing, s_runs>>
VARIABLES k_key, k_policy, k_grants, k_enclave, k_copy, k_boots
k_vars == <<k_key, k_policy, k_grants, k_enclave, k_copy, k_boots>>
VARIABLES b_value, b_cut, b_answer
b_vars == <<b_value, b_cut, b_answer>>
VARIABLES t_source, t_clock, t_time, t_device, t_stage, t_checked,
          t_last_good, t_call, t_calls, t_newest, t_raced
t_vars == <<t_source, t_clock, t_time, t_device, t_stage, t_checked,
            t_last_good, t_call, t_calls, t_newest, t_raced>>
VARIABLES a_reg, a_docs, a_cli, a_client, a_nonces, a_now
a_vars == <<a_reg, a_docs, a_cli, a_client, a_nonces, a_now>>

(* KeyPolicy: one statement of every kind beside one that lets everybody   *)
(* read the key.                                                           *)
Statement(effect, inverted, actions, conditions) ==
  [effect |-> effect, inverted |-> inverted, unknown |-> FALSE, actions |-> actions,
   conditions |-> conditions]
ReadKey ==
  Statement("Allow", FALSE, {"DescribeKey", "GetKeyPolicy", "ListGrants", "ScheduleKeyDeletion"}, {})
Conditions ==
  [op : {"equals", "ifExists", "other"}, register : {"pcr0", "pcr16"},
   values : {{"ours"}, {"theirs"}, {"ours", "theirs"}, {}}]
Releasing ==
  {Statement("Allow", FALSE, {"Decrypt", "GenerateDataKey"}, {c, d}) : c, d \in Conditions}
    \cup {Statement("Allow", FALSE, {a}, {}) : a \in {"Decrypt", "GenerateDataKey"}}
Other ==
  {Statement(e, i, {a}, {}) : e \in {"Allow", "Deny"}, i \in BOOLEAN,
     a \in {"PutKeyPolicy", "CreateGrant", "ReEncrypt", "*", "Decrypt", "DescribeKey"}}
AllPolicies ==
  {{ReadKey}, {ReadKey, [ReadKey EXCEPT !.unknown = TRUE]}}
    \cup {{ReadKey, s} : s \in Releasing \cup Other}

(* Attested: the enclave wanted, one of the same runtime with another      *)
(* guest, one of another runtime; and the chains to be had by whoever      *)
(* holds the key of one properly issued leaf and a key of his own, which   *)
(* is the leaf of any chain that is not the module's.                      *)
ThreeEnclaves ==
  [right |-> [image |-> "ours", guest |-> "ours"],
   guest |-> [image |-> "ours", guest |-> "other"],
   image |-> [image |-> "other", guest |-> "other"]]
Cert(key, by, ca, names, issuer) ==
  [key |-> key, by |-> by, ca |-> ca, names |-> names, issuer |-> issuer, valid |-> TRUE]
AwsRoot == Cert("root", "root", TRUE, "root", "root")
OwnRoot == Cert("own", "own", TRUE, "root", "root")
Zone == Cert("zone", "root", TRUE, "zone", "root")
Held == Cert("held", "zone", FALSE, "leaf", "zone")
Names(c) == IF c = <<>> THEN "root" ELSE c[Len(c)].names
AllChains ==
  {Append(c, Cert("own", "own", TRUE, "own", Names(c))) :
     c \in {<<>>, <<OwnRoot>>, <<AwsRoot>>, <<AwsRoot, Zone>>}}
    \cup {<<AwsRoot, Zone, Held, Cert("own", "held", TRUE, "own", "leaf")>>,
          <<AwsRoot, Zone, Cert("own", "zone", FALSE, "own", "root")>>}
AllClis ==
  [tool : {"nitro-attest", "passkey-client"}, pcr0 : BOOLEAN, pcr16 : BOOLEAN, guest : BOOLEAN]

(* Ber: contents that end-of-contents could be taken for, and one that     *)
(* needs a long length.                                                    *)
Contents == {<<>>, <<0, 0>>, [i \in 1 .. 128 |-> 0]}

Interchangeable == Permutations(Tenants)

Mem == INSTANCE MemoryStore WITH
  Keys <- StoreKeys, Folder <- Folder, PageSize <- PageSize, MaxCalls <- MaxWrites,
  None <- None, objects <- m_objects, markers <- m_markers,
  retained <- m_retained, upload <- m_upload, failNext <- m_failNext,
  bucket <- m_bucket, first <- m_first, listing <- m_listing, calls <- m_calls
Start == INSTANCE Settings WITH
  Services <- Services, Push <- PushService, Ports <- Ports,
  build <- s_build, at <- s_at, cli <- s_cli, testing <- s_testing,
  runs <- s_runs
Kms == INSTANCE KeyPolicy WITH
  Policies <- Policies, MaxBoots <- MaxBoots, key <- k_key, policy <- k_policy,
  grants <- k_grants, enclave <- k_enclave, copy <- k_copy, boots <- k_boots
Answer == INSTANCE Ber WITH
  MaxDepth <- 2, MaxCut <- 4, Nesting <- 3, Contents <- Contents,
  value <- b_value, cut <- b_cut, answer <- b_answer
Time == INSTANCE Clock WITH
  Callers <- Threads, Sources <- Sources, MaxTime <- MaxTime,
  MaxCalls <- MaxCalls, Readings <- Readings, source <- t_source, clock <- t_clock,
  time <- t_time, device <- t_device, stage <- t_stage, checked <- t_checked,
  last_good <- t_last_good, call <- t_call, calls <- t_calls,
  newest <- t_newest, raced <- t_raced
Client == INSTANCE Attested WITH
  Enclaves <- Enclaves, Between <- Between, Chains <- Chains, Clis <- Clis,
  MaxNonces <- MaxNonces, MaxExtends <- MaxExtends, MaxDocs <- MaxDocs,
  MaxTime <- MaxNow, MaxAge <- MaxAge,
  None <- None, reg <- a_reg, docs <- a_docs, cli <- a_cli,
  client <- a_client, nonces <- a_nonces, now <- a_now

(* What the proofs ask of these constants. *)
ASSUME FoundationAssumption ==
  /\ Mem!MemoryAssumption
  /\ Start!SettingsAssumption
  /\ Kms!PoliciesAssumption
  /\ Client!AttestedAssumption(Authorities)

Sum == <<part, vars, m_vars, s_vars, k_vars, b_vars, t_vars, a_vars>>

SumInit ==
  /\ part \in {"catalog", "memory", "settings", "policy", "ber", "clock",
               "client"}
  /\ Init
  /\ Mem!Init
  /\ IF part = "settings" THEN Start!Init
     ELSE s_build = 0 /\ s_at = 0 /\ s_cli = 0 /\ s_testing = 0 /\ s_runs = 0
  /\ part # "policy" => /\ k_policy = (CHOOSE p \in Policies : TRUE)
                        /\ k_key = [imported |-> FALSE, multiRegion |-> FALSE]
  /\ Kms!Init
  /\ IF part = "ber" THEN Answer!Init ELSE b_value = 0 /\ b_cut = 0 /\ b_answer = 0
  /\ (part # "clock" => t_source = "ptp" /\ t_device = TRUE) /\ Time!Init
  /\ Client!Init /\ (part # "client" => a_cli.tool = "nitro-attest" /\ a_cli.pcr0 /\ a_cli.pcr16 /\ a_cli.guest)

SumNext ==
  /\ UNCHANGED part
  /\ \/ part = "catalog" /\ Next /\ UNCHANGED <<m_vars, s_vars, k_vars, b_vars, t_vars, a_vars>>
     \/ part = "memory" /\ Mem!Next /\ UNCHANGED <<vars, s_vars, k_vars, b_vars, t_vars, a_vars>>
     \/ part = "settings" /\ Start!Next /\ UNCHANGED <<vars, m_vars, k_vars, b_vars, t_vars, a_vars>>
     \/ part = "policy" /\ Kms!Next /\ UNCHANGED <<vars, m_vars, s_vars, b_vars, t_vars, a_vars>>
     \/ part = "ber" /\ Answer!Next /\ UNCHANGED <<vars, m_vars, s_vars, k_vars, t_vars, a_vars>>
     \/ part = "clock" /\ Time!Next /\ UNCHANGED <<vars, m_vars, s_vars, k_vars, b_vars, a_vars>>
     \/ part = "client" /\ Client!Next /\ UNCHANGED <<vars, m_vars, s_vars, k_vars, b_vars, t_vars>>

SumSpec == SumInit /\ [][SumNext]_Sum

-----------------------------------------------------------------------------
(* The in-memory backend is a bucket to its callers: in what it reads, in  *)
(* what it retains and in what it lists.                                   *)
BucketLike == part = "memory" => Mem!BucketLike

(* No combination of settings serves unsealed in production, opens a       *)
(* service of the runtime's own or is dropped silently (run, Testing,      *)
(* open_dev_host).                                                         *)
SettingsHold == part = "settings" => Start!SettingsHold

(* Once an enclave has found a key fit and minted under it, nobody else    *)
(* can get what it keeps: no later edit of the policy, no grant made while *)
(* it was open, and no request on another measurement (policy.rs, kms.rs   *)
(* verify_key); and while it trusts the key nobody else can have KMS make  *)
(* a data key under it, one a new filesystem might be made to use.         *)
SecretStays == part = "policy" => Kms!SecretStays

(* to_der is a function of the value alone, and of the whole of it.        *)
Transcodes == part = "ber" => Answer!Transcodes

(* What a call returns is a reading of the device, never zero, and no      *)
(* earlier than what any call had returned before this one began, unless a *)
(* slow call stored its reading over a later one: WallClockAdapter::now,   *)
(* which answers a failed read with the last good reading.                 *)
LastGood == part = "clock" => Time!LastGood

(* A client goes on only with a fresh proof of the enclave it asked for,   *)
(* and then only with the certificate that proof names (connection_proof,  *)
(* request).                                                               *)
OnlyToTheProven == part = "client" => Client!OnlyToTheProven

=============================================================================
