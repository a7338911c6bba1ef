----------------------------- MODULE KeyPolicy -----------------------------
(***************************************************************************)
(* The key the master secret is released under (runtime/src/keys): what    *)
(* the runtime checks of it before it mints or opens (policy.rs,           *)
(* kms.rs::verify_key), against what KMS then lets anybody do with it.     *)
(*                                                                         *)
(* The check is three reads of KMS, with whatever the account does between *)
(* them: describe, policy, grants.  KMS's own decisions (Allowed) are the  *)
(* reference: a request is allowed if a statement allows it and none       *)
(* denies it.                                                              *)
(*                                                                         *)
(* A request carries an attestation [pcr0, pcr16] or none; "ours" are this *)
(* enclave's measurements.  A statement is                                 *)
(*   [effect, inverted, unknown, actions, conditions]                      *)
(* with inverted standing for NotPrincipal, NotAction and NotResource,     *)
(* unknown for a field the check has no name for, and a condition          *)
(* [op, register, values].                                                 *)
(***************************************************************************)
EXTENDS Integers, FiniteSets

CONSTANTS
    Policies,   \* the policies an account may set: sets of statements
    MaxBoots    \* bound: times the enclave starts

VARIABLES
    key,        \* [imported, multiRegion]: metadata no one can change
    policy,     \* the key's policy now
    grants,     \* whether the key has a grant
    enclave,    \* where verify_key is
    copy,       \* the ciphertext is in the SSM parameter
    boots

vars == <<key, policy, grants, enclave, copy, boots>>

UNCONDITIONED == {"DescribeKey", "GetKeyPolicy", "ListGrants", "ScheduleKeyDeletion"}
RELEASING == {"Decrypt", "GenerateDataKey"}
Registers == {"pcr0", "pcr16"}
Measurements == {"ours", "theirs"}

NoAttestation == <<>>
Attestations == [Registers -> Measurements] \cup {NoAttestation}
Ours == [r \in Registers |-> "ours"]
Others == Attestations \ {Ours}

Conditions ==
    [op : {"equals", "ifExists", "other"}, register : Registers, values : SUBSET Measurements]
Statements ==
    [effect : {"Allow", "Deny"}, inverted : BOOLEAN, unknown : BOOLEAN,
     actions : SUBSET STRING, conditions : SUBSET Conditions]
PoliciesAssumption == Policies \subseteq SUBSET Statements

-----------------------------------------------------------------------------
(* How KMS decides (external). *)

(* "equals" is any exact operator; "ifExists" passes a request without the *)
(* attribute; "other" is one that, at its widest, passes everything.       *)
Holds(c, att) ==
    CASE c.op = "equals"   -> att # NoAttestation /\ att[c.register] \in c.values
      [] c.op = "ifExists" -> att = NoAttestation \/ att[c.register] \in c.values
      [] c.op = "other"    -> TRUE

(* A field unknown to the check may, at its widest, allow anything. *)
Matches(s, action, att) ==
    \/ s.effect = "Allow" /\ s.unknown
    \/ /\ IF s.inverted THEN action \notin s.actions
          ELSE action \in s.actions \/ "*" \in s.actions
       /\ \A c \in s.conditions : Holds(c, att)

Allowed(action, att) ==
    /\ \E s \in policy : s.effect = "Allow" /\ Matches(s, action, att)
    /\ ~\E s \in policy : s.effect = "Deny" /\ Matches(s, action, att)

-----------------------------------------------------------------------------
(* policy.rs *)

(* check_key: material that never left KMS, one copy of it. *)
CheckKey(k) == ~k.imported /\ ~k.multiRegion

(* Every value of an exact condition is ours, and there is one. *)
Pins(c) == c.values = {"ours"}

Exact(c) == c.op = "equals"

(* pinned_to: of the exact conditions on the two registers, none admits    *)
(* another value, and each register has one.                               *)
PinnedTo(conditions) ==
    LET exact == {c \in conditions : Exact(c)} IN
    /\ \A c \in exact : Pins(c)
    /\ \A r \in Registers : \E c \in exact : c.register = r

(* check_statement: a denial takes away; an allowance names actions of the *)
(* two lists and, for the releasing ones, is pinned.                       *)
CheckStatement(s) ==
    \/ s.effect = "Deny"
    \/ /\ s.effect = "Allow" /\ ~s.inverted
       /\ s.actions \subseteq UNCONDITIONED \cup RELEASING
       /\ s.actions \cap RELEASING # {} => PinnedTo(s.conditions)

OnlyFields(s) == ~s.unknown

CheckPolicy(p) == \A s \in p : OnlyFields(s) /\ CheckStatement(s)

-----------------------------------------------------------------------------
Init ==
    /\ key \in [imported : BOOLEAN, multiRegion : BOOLEAN]
    /\ policy \in Policies /\ grants = FALSE
    /\ enclave = "off" /\ copy = FALSE /\ boots = 0

(* A boot: mint at genesis, open at every later one; both verify first. *)
Boot ==
    /\ enclave = "off" /\ boots < MaxBoots
    /\ enclave' = "describe" /\ boots' = boots + 1
    /\ UNCHANGED <<key, policy, grants, copy>>

(* Mutant: the grants are listed before the policy is read. *)
StepGrantsFirst(at) ==
    CASE at = "describe" -> "grants" [] at = "grants" -> "policy"
      [] at = "policy"   -> "trusted" [] OTHER -> "off"

(* The order of verify_key's calls. *)
Step(at) ==
    CASE at = "describe" -> "policy" [] at = "policy" -> "grants"
      [] at = "grants"   -> "trusted" [] OTHER -> "off"

(* One call of verify_key: a key that fails it is refused, and the boot    *)
(* with it; so is a call KMS does not answer.                              *)
VerifyKey ==
    /\ enclave \in {"describe", "policy", "grants"}
    /\ \/ /\ CASE enclave = "describe" -> CheckKey(key) /\ Allowed("DescribeKey", NoAttestation)
               [] enclave = "policy"   -> CheckPolicy(policy) /\ Allowed("GetKeyPolicy", NoAttestation)
               [] enclave = "grants"   -> ~grants /\ Allowed("ListGrants", NoAttestation)
          /\ enclave' = Step(enclave)
       \/ enclave' = "off"
    /\ UNCHANGED <<key, policy, grants, copy, boots>>

(* mint: the secret comes back encrypted to the recipient key, and its     *)
(* ciphertext goes to the parameter.  Or open: it is opened again.         *)
Release ==
    /\ enclave = "trusted"
    /\ Allowed(IF copy THEN "Decrypt" ELSE "GenerateDataKey", Ours)
    /\ enclave' = "running" /\ copy' = TRUE
    /\ UNCHANGED <<key, policy, grants, boots>>

Stop ==
    /\ enclave \in {"trusted", "running"} /\ enclave' = "off"
    /\ UNCHANGED <<key, policy, grants, copy, boots>>

-----------------------------------------------------------------------------
(* What the account may do, at any time, with what the policy allows. *)

PutKeyPolicy(p) ==
    /\ Allowed("PutKeyPolicy", NoAttestation)
    /\ policy' = p
    /\ UNCHANGED <<key, grants, enclave, copy, boots>>

CreateGrant ==
    /\ Allowed("CreateGrant", NoAttestation)
    /\ grants' = TRUE
    /\ UNCHANGED <<key, policy, enclave, copy, boots>>

Next ==
    \/ Boot \/ VerifyKey \/ Release \/ Stop
    \/ \E p \in Policies : PutKeyPolicy(p)
    \/ CreateGrant

Spec == Init /\ [][Next]_vars

-----------------------------------------------------------------------------
(* The ciphertext can be opened for somebody else: on another measurement  *)
(* or none, through a grant, by encrypting it again under another key, or  *)
(* with a copy of the key itself.                                          *)
Exposed ==
    \/ \E att \in Others : Allowed("Decrypt", att)
    \/ grants
    \/ Allowed("ReEncrypt", NoAttestation)
    \/ key.imported \/ key.multiRegion

(* Once an enclave has found a key fit and minted under it, nobody else    *)
(* can get what it keeps: no later edit of the policy, no grant made while *)
(* it was open, and no request on another measurement (policy.rs, kms.rs   *)
(* verify_key); and while it trusts the key nobody else can have KMS make  *)
(* a data key under it, one a new filesystem might be made to use.         *)
SecretStays ==
    /\ copy => ~Exposed
    /\ enclave \in {"trusted", "running"} =>
          \A att \in Others : ~Allowed("GenerateDataKey", att)
=============================================================================
