------------------------------ MODULE Attested ------------------------------
(***************************************************************************)
(* A client that will only talk to the enclave it means: the measurements  *)
(* an enclave's security module keeps (crates/nitro-nsm), the documents it *)
(* makes, their verification (crates/nitro-attestation), and the two tools *)
(* that act on it: nitro-attest, which says whether an endpoint is the     *)
(* enclave meant, and passkey-client, which goes on to use it.             *)
(*                                                                         *)
(* Every request is a connection of its own and anybody may answer it: an  *)
(* enclave, or a party in between that passes documents on.  An enclave is *)
(* [image, guest]; one of another image writes what it likes in its guest  *)
(* register and in the fields a document leaves to its maker.  A register  *)
(* is the sequence of what extended it, which is what its hash stands for; *)
(* the certificate of an enclave, and the key behind it, is its name.      *)
(* The option that verifies no signature, for the emulator, is left out.   *)
(***************************************************************************)
EXTENDS Integers, Sequences, FiniteSets

CONSTANTS
    Enclaves,       \* the enclaves there are: a function to [image, guest]
    Between,        \* the party that is no enclave, and its certificate
    Chains,         \* certificate chains anybody could put together
    Clis,           \* the tool, and what it is given: [tool, pcr0, pcr16, guest]
    MaxNonces,      \* bound: requests
    MaxExtends,     \* bound: extensions of a register
    MaxDocs,        \* bound: documents made
    MaxTime, MaxAge,
    None

VARIABLES
    reg,        \* PCR16 of each enclave: [value, locked]
    docs,       \* documents the modules have signed
    cli,        \* the options of this run of the tool
    client,     \* [step, cert, nonce, pinned, proof]
    nonces,     \* nonces used
    now

vars == <<reg, docs, cli, client, nonces, now>>

Names == DOMAIN Enclaves
Ours == [image |-> "ours", guest |-> "ours"]
Genuine(e) == e \in Names /\ Enclaves[e] = Ours

(* A certificate is [key, by, ca, names, issuer, valid]: the key it is     *)
(* for, the key that signed it, whether it may issue.  Only Root is        *)
(* pinned; a module signs with the key of the leaf it was issued.          *)
Root == [key |-> "root", by |-> "root", ca |-> TRUE, names |-> "root", issuer |-> "root", valid |-> TRUE]
Module == [key |-> "module", by |-> "root", ca |-> FALSE, names |-> "module", issuer |-> "root", valid |-> TRUE]
Issued == <<Root, Module>>

(* A register, a document the module signed, the options, and what a run   *)
(* has got to.                                                             *)
Measured == UNION {[1..n -> {"ours", "other"}] : n \in 0..MaxExtends}
Pcr == [value : Measured, locked : BOOLEAN]
Signed ==
    [chain : {Issued}, pcr0 : {"ours", "other"}, pcr16 : Measured \cup {None},
     nonce : 1..MaxNonces, cert : Names \cup {Between}, guest : {"ours", "other"}, at : 0..MaxTime]
Cli == [tool : {"nitro-attest", "passkey-client"}, pcr0 : BOOLEAN, pcr16 : BOOLEAN, guest : BOOLEAN]
Client ==
    LET ends == Names \cup {Between, None} IN
    [step : {"idle", "options", "checked", "verify", "approved", "operation", "fetch", "said"},
     cert : ends, nonce : 0..MaxNonces, pinned : ends, proof : Signed \cup {None}]

Idle == [step |-> "idle", cert |-> None, nonce |-> 0, pinned |-> None, proof |-> None]

Init ==
    /\ reg = [e \in Names |-> [value |-> <<>>, locked |-> FALSE]]
    /\ docs = {} /\ cli \in Clis /\ client = Idle /\ nonces = 0 /\ now = 0

-----------------------------------------------------------------------------
(* The security module *)

(* extend_pcr; a locked register is read-only *)
ExtendPcr(e, data) ==
    /\ ~reg[e].locked /\ Len(reg[e].value) < MaxExtends
    /\ reg' = [reg EXCEPT ![e].value = Append(@, data)]
    /\ UNCHANGED <<docs, cli, client, nonces, now>>

(* lock_pcr *)
LockPcr(e) ==
    /\ ~reg[e].locked
    /\ reg' = [reg EXCEPT ![e].locked = TRUE]
    /\ UNCHANGED <<docs, cli, client, nonces, now>>

(* Another image does as it likes; ours extends once, with its guest, and  *)
(* then locks (measure_guest, module Boot).                                *)
Measure(e) ==
    \/ \E data \in {"ours", "other"} :
          /\ Enclaves[e].image = "ours" => data = Enclaves[e].guest /\ reg[e].value = <<>>
          /\ ExtendPcr(e, data)
    \/ /\ Enclaves[e].image = "ours" => reg[e].value # <<>>
       /\ LockPcr(e)

(* A document carries locked registers only. *)
AttestedPcr(e) == IF reg[e].locked THEN reg[e].value ELSE None

Document(e, nonce, cert, guest) ==
    [chain |-> Issued, pcr0 |-> Enclaves[e].image, pcr16 |-> AttestedPcr(e),
     nonce |-> nonce, cert |-> cert, guest |-> guest, at |-> now]

(* attest: our runtime, serving once its register is locked, binds the     *)
(* certificate it serves and its guest's hash to whatever nonce a caller   *)
(* sends; another image claims anything.                                   *)
Attest(e) ==
    /\ Cardinality(docs) < MaxDocs
    /\ \E n \in 1..nonces, cert \in Names \cup {Between}, guest \in {"ours", "other"} :
         /\ Enclaves[e].image = "ours" =>
              reg[e].locked /\ cert = e /\ guest = Enclaves[e].guest
         /\ Enclaves[e].image # "ours" => guest = "ours"
         /\ docs' = docs \cup {Document(e, n, cert, guest)}
    /\ UNCHANGED <<reg, cli, client, nonces, now>>

(* A document anybody writes, saying what is wanted: its chain is its      *)
(* weakness.                                                               *)
MadeUp ==
    {[chain |-> c, pcr0 |-> "ours", pcr16 |-> <<"ours">>, nonce |-> client.nonce,
      cert |-> client.cert, guest |-> "ours", at |-> now] : c \in Chains}

-----------------------------------------------------------------------------
(* Verification *)

(* Mutant: a leaf may sign others. *)
MayIssueAny(chain, i) == TRUE

MayIssue(chain, i) == i < Len(chain) => chain[i].ca

(* verify_chain: root first, then each against the one before it. *)
VerifyChain(chain) ==
    /\ Len(chain) > 1
    /\ chain[1] = Root
    /\ \A i \in 1..Len(chain) : chain[i].valid /\ MayIssue(chain, i)
    /\ \A i \in 2..Len(chain) :
          chain[i].issuer = chain[i - 1].names /\ chain[i].by = chain[i - 1].key

(* verify: the chain first, then the signature against the leaf it ends    *)
(* in; a document anybody writes is signed with a key of the leaf it       *)
(* names.                                                                  *)
Verify(doc) == VerifyChain(doc.chain)

ExpectPcr(doc, want) == doc.pcr16 = want

Abs(n) == IF n < 0 THEN 0 - n ELSE n

(* The register to require: from --pcr16, from --guest, or from both. *)
GuestRegister == IF cli.pcr16 \/ cli.guest THEN <<"ours">> ELSE None

(* Verified::expect, with what the options ask for. *)
Expect(doc, nonce) ==
    /\ cli.pcr0 => doc.pcr0 = "ours"
    /\ GuestRegister # None => ExpectPcr(doc, GuestRegister)
    /\ doc.nonce = nonce
    /\ Abs(now - doc.at) <= MaxAge

(* TrustConfig::from: both measurements, or nothing is asked. *)
TrustConfig(c) == c.pcr0 /\ (c.pcr16 \/ c.guest)

Binds(doc, cert) == doc.cert = cert

(* check_binding, and the user_data passkey-client expects: this           *)
(* connection's certificate and, if it was given, the guest's hash.        *)
CheckBinding(doc) == Binds(doc, client.cert) /\ (cli.guest => doc.guest = "ours")

(* connection_proof *)
ConnectionProof(doc) == Verify(doc) /\ Expect(doc, client.nonce) /\ CheckBinding(doc)

-----------------------------------------------------------------------------
(* The client: request after request, none retried. *)

(* The handshake's signature would show that the far end holds the key of  *)
(* the certificate it presents; the tool's verifier (AcceptAny) accepts    *)
(* any certificate and any signature, so anybody presents any.             *)
HandshakeAccepted(cert) == TRUE

Pinned(cert) == client.pinned \in {None, cert}

Steps == [idle |-> "options", checked |-> "verify", approved |-> "operation"]

(* A connection, and the bytes on it, with a nonce of their own. *)
Connect(cert, step) ==
    /\ HandshakeAccepted(cert)
    /\ nonces < MaxNonces /\ nonces' = nonces + 1
    /\ client' = [client EXCEPT !.step = step, !.cert = cert, !.nonce = nonces + 1]
    /\ UNCHANGED <<reg, docs, cli, now>>

(* request, of passkey-client: its certificate, then the pin, and only     *)
(* then the bytes.  The second carries the assertion and the third the     *)
(* token.                                                                  *)
Request(cert) ==
    /\ cli.tool = "passkey-client" /\ TrustConfig(cli)
    /\ client.step \in DOMAIN Steps /\ Pinned(cert)
    /\ Connect(cert, Steps[client.step])

(* fetch, of nitro-attest: one request for a document. *)
Fetch(cert) ==
    /\ cli.tool = "nitro-attest" /\ TrustConfig(cli)
    /\ client.step = "idle"
    /\ Connect(cert, "fetch")

(* The answer to the first request proves the connection, or ends the run. *)
Options(doc) ==
    /\ client.step = "options"
    /\ client' = IF ConnectionProof(doc)
                 THEN [client EXCEPT !.step = "checked", !.pinned = client.cert, !.proof = doc]
                 ELSE Idle
    /\ UNCHANGED <<reg, docs, cli, nonces, now>>

(* run, of nitro-attest: it says whether the document proves the           *)
(* connection it came on, and does no more.                                *)
Run(doc) ==
    /\ client.step = "fetch"
    /\ client' = IF Verify(doc) /\ Expect(doc, client.nonce) /\ CheckBinding(doc)
                 THEN [client EXCEPT !.step = "said", !.pinned = client.cert, !.proof = doc]
                 ELSE Idle
    /\ UNCHANGED <<reg, docs, cli, nonces, now>>

(* The answers to pinned requests carry no document: a token, and then the *)
(* operation's own.                                                        *)
Answer ==
    /\ client.step \in {"verify", "operation"}
    /\ client' = IF client.step = "verify" THEN [client EXCEPT !.step = "approved"] ELSE Idle
    /\ UNCHANGED <<reg, docs, cli, nonces, now>>

(* No answer, a refusal, a body cut off: the run ends. *)
Fail ==
    /\ client.step # "idle" /\ client' = Idle
    /\ UNCHANGED <<reg, docs, cli, nonces, now>>

Tick ==
    /\ now < MaxTime /\ now' = now + 1
    /\ UNCHANGED <<reg, docs, cli, client, nonces>>

Next ==
    \/ \E e \in Names : Measure(e) \/ Attest(e)
    \/ \E cert \in Names \cup {Between} : Request(cert) \/ Fetch(cert)
    \/ \E doc \in docs \cup MadeUp : Options(doc) \/ Run(doc)
    \/ Answer \/ Fail \/ Tick

Spec == Init /\ [][Next]_vars

-----------------------------------------------------------------------------
(* What the proof asks of the constants.  Authorities are the keys that    *)
(* issue: the root's, and those an authority certified to issue.  They     *)
(* certify nobody else to issue, and no one of them has in its own name    *)
(* issued a certificate for the key a made-up chain ends in.               *)
Unissued(chain, authorities) ==
    /\ chain \in Seq([key : STRING, by : STRING, ca : BOOLEAN, names : STRING,
                      issuer : STRING, valid : BOOLEAN])
    /\ \A i \in 1..Len(chain) :
          chain[i].by \in authorities /\ chain[i].ca => chain[i].key \in authorities
    /\ LET last == Len(chain) IN
       last > 1 => ~(chain[last].by \in authorities /\ chain[last].issuer = chain[last - 1].names)

AttestedAssumption(authorities) ==
    /\ Enclaves \in [Names -> [image : {"ours", "other"}, guest : {"ours", "other"}]]
    /\ Clis \subseteq Cli
    /\ Root.key \in authorities /\ \A c \in Chains : Unissued(c, authorities)
    /\ {MaxNonces, MaxExtends, MaxTime} \subseteq Nat
    /\ Between \notin Names /\ None \notin Names \cup {Between} \cup Signed /\ None # <<"ours">>

(* Every variable keeps its type, and no run goes on with a document that  *)
(* no module signed. *)
TypeOK ==
    /\ reg \in [Names -> Pcr] /\ docs \subseteq Signed /\ cli \in Cli
    /\ client \in Client /\ nonces \in 0..MaxNonces /\ now \in 0..MaxTime

(* What the tool goes on with was signed by the module of an enclave that  *)
(* runs the runtime and the guest it was asked for, while its own request  *)
(* was waiting, for the very certificate it was served: whoever else ran,  *)
(* measured, kept or passed documents on (connection_proof).               *)
ProofIsGenuine ==
    client.proof # None =>
        /\ client.proof \in docs
        /\ Genuine(client.proof.cert) /\ client.proof.cert = client.pinned
        /\ client.proof.pcr16 = <<"ours">> /\ client.proof.pcr0 = "ours"

(* The assertion and the token go only to who presents the certificate the *)
(* proof names (request, the pin).                                         *)
PinHolds ==
    client.step \in {"verify", "operation"} => Genuine(client.cert)

(* A client goes on only with a fresh proof of the enclave it asked for,   *)
(* and then only with the certificate that proof names (connection_proof,  *)
(* request).                                                               *)
OnlyToTheProven ==
  /\ TypeOK
  /\ ProofIsGenuine
  /\ PinHolds

=============================================================================
