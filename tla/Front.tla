------------------------------- MODULE Front -------------------------------
(***************************************************************************)
(* The front of a serving enclave (runtime/src/serve/http.rs, attest.rs,   *)
(* acme.rs, tls.rs): the listener and the ACME client that wait for each   *)
(* other, connections that keep the certificate they were accepted with,   *)
(* and requests that are attested, routed and answered on them.            *)
(*                                                                         *)
(* Certificates are 1..MaxCerts in order of issue, 0 is none.  A document  *)
(* stands for the certificate it binds; the nonce it also binds is that of *)
(* the request it is made for.  The guest may put a document of its own    *)
(* making on any response, here Forged.                                    *)
(***************************************************************************)
EXTENDS Integers, FiniteSets

CONSTANTS
    Conns,        \* connections that can be open at once
    Concurrent,   \* CONCURRENT_DOCUMENTS
    MaxCerts,     \* bound: certificates issued
    MaxRestarts,  \* bound: restarts of the enclave
    Forged, None

Certs == 1..MaxCerts

VARIABLES
    mode,       \* [gated, attests]: what the deployment configured
    listening,  \* the socket is bound
    permit,     \* the permit `listening.notify_one()` leaves behind
    acme,       \* where the ACME task is
    slot,       \* CertificateSlot
    cached,     \* the sealed certificate in the bucket, 0 for none
    issued,     \* certificates the CA has issued
    conn,       \* each connection's phase
    leaf,       \* the identity it loaded, and what its handshake presents
    auth,       \* is the request being served on it under `/auth/`?
    doc,        \* the document made for it, or None
    header,     \* what its last response carried under the header's name
    taken,      \* permits of the attestor's semaphore that are out
    device,     \* NSM calls running
    restarts

acmeVars == <<permit, acme, slot, cached, issued>>
connVars == <<conn, leaf, auth, doc, header, taken, device>>
vars == <<mode, listening, acmeVars, connVars, restarts>>

(* The bounds are numbers, connections can be counted, and the two marks   *)
(* are told apart and from certificates.                                   *)
FrontAssumption ==
    /\ Concurrent \in Nat /\ MaxCerts \in Nat /\ MaxRestarts \in Nat
    /\ IsFiniteSet(Conns)
    /\ None # Forged /\ {None, Forged} \cap (0..MaxCerts) = {}

Idle == {"closed", "hello", "handshake", "open"}
Serving == {"queued", "signing", "routing", "guest"}

TypeOK ==
    /\ mode \in [gated : BOOLEAN, attests : BOOLEAN]
    /\ listening \in BOOLEAN /\ permit \in BOOLEAN
    /\ acme \in {"spawned", "waiting", "loading", "idle", "ordered", "validated", "storing"}
    /\ slot \in 0..MaxCerts /\ cached \in 0..MaxCerts /\ issued \in 0..MaxCerts
    /\ conn \in [Conns -> Idle \cup Serving]
    /\ leaf \in [Conns -> 0..MaxCerts]
    /\ auth \in [Conns -> BOOLEAN]
    /\ doc \in [Conns -> Certs \cup {None}]
    /\ header \in [Conns -> Certs \cup {None, Forged}]
    /\ taken \in 0..Concurrent /\ device \in Nat /\ restarts \in 0..MaxRestarts

Init ==
    /\ mode \in [gated : BOOLEAN, attests : BOOLEAN]
    /\ listening = FALSE /\ permit = FALSE /\ acme = "spawned" /\ slot = 0
    /\ cached = 0 /\ issued = 0 /\ restarts = 0
    /\ conn = [c \in Conns |-> "closed"] /\ leaf = [c \in Conns |-> 0]
    /\ auth = [c \in Conns |-> FALSE] /\ doc = [c \in Conns |-> None]
    /\ header = [c \in Conns |-> None] /\ taken = 0 /\ device = 0

-----------------------------------------------------------------------------
(* The listener and the certificate.                                       *)

\* Server::run binds, then notify_one: the permit is kept for a waiter that
\* has yet to come.
NotifyOne == TRUE
Bind ==
    /\ ~listening /\ listening' = TRUE
    /\ permit' = NotifyOne
    /\ UNCHANGED <<mode, acme, slot, cached, issued, connVars, restarts>>

\* The task that start() spawned gets to wait for the listener; nothing is
\* loaded or ordered before.
Wait ==
    /\ acme = "spawned" /\ acme' = "waiting"
    /\ UNCHANGED <<mode, listening, permit, slot, cached, issued, connVars, restarts>>

Notified ==
    /\ acme = "waiting" /\ permit
    /\ permit' = FALSE /\ acme' = "loading"
    /\ UNCHANGED <<mode, listening, slot, cached, issued, connVars, restarts>>

\* publish_leaf: a blob no identity can be built from leaves the slot alone.
PublishLeaf(cert) == slot' \in {cert, slot}

\* load_cert: none yet, one that is published, or a blob that does not
\* unseal, which rustls-acme treats as nothing cached.
LoadCert ==
    /\ acme = "loading" /\ acme' = "idle"
    /\ IF cached # 0 THEN PublishLeaf(cached) ELSE UNCHANGED slot
    /\ UNCHANGED <<mode, listening, permit, cached, issued, connVars, restarts>>

\* An order, the first or a renewal.
Order ==
    /\ acme = "idle" /\ issued < MaxCerts
    /\ acme' = "ordered"
    /\ UNCHANGED <<mode, listening, permit, slot, cached, issued, connVars, restarts>>

\* A TLS-ALPN-01 hello is answered with the challenge configuration and
\* closed, before any certificate is looked for: it needs the listener alone.
AnswersChallenge == listening

\* The CA validates by connecting in.
Validate ==
    /\ acme = "ordered" /\ AnswersChallenge
    /\ acme' = "validated"
    /\ UNCHANGED <<mode, listening, permit, slot, cached, issued, connVars, restarts>>

\* The CA issues; store_cert publishes what came before it is stored.
Issue ==
    /\ acme = "validated" /\ acme' = "storing"
    /\ issued' = issued + 1
    /\ PublishLeaf(issued')
    /\ UNCHANGED <<mode, listening, permit, cached, connVars, restarts>>

\* The put lands, or fails and rustls-acme logs it.
Store ==
    /\ acme = "storing" /\ acme' = "idle"
    /\ cached' \in {issued, cached}
    /\ UNCHANGED <<mode, listening, permit, slot, issued, connVars, restarts>>

-----------------------------------------------------------------------------
(* Connections.                                                            *)

At(c, phase) == conn' = [conn EXCEPT ![c] = phase]

Accept(c) ==
    /\ listening /\ conn[c] = "closed" /\ At(c, "hello")
    /\ UNCHANGED <<mode, listening, acmeVars, leaf, auth, doc, header, taken, device, restarts>>

\* The identity is loaded once, after the ClientHello.
LoadIdentity(c) ==
    /\ conn[c] = "hello"
    /\ leaf' = [leaf EXCEPT ![c] = slot]
    /\ At(c, IF slot = 0 THEN "closed" ELSE "handshake")
    /\ UNCHANGED <<mode, listening, acmeVars, auth, doc, header, taken, device, restarts>>

Handshake(c) ==
    /\ conn[c] = "handshake" /\ At(c, "open")
    /\ UNCHANGED <<mode, listening, acmeVars, leaf, auth, doc, header, taken, device, restarts>>

-----------------------------------------------------------------------------
(* One request on an open connection: serve_connection's closure.          *)

Answer(c, h, phase) ==
    /\ header' = [header EXCEPT ![c] = h]
    /\ auth' = [auth EXCEPT ![c] = FALSE]
    /\ doc' = [doc EXCEPT ![c] = None]
    /\ At(c, phase)

\* 400 before anything else, and no document: there is no nonce to bind.
NoNonce(c) ==
    /\ conn[c] = "open" /\ header[c] # None
    /\ Answer(c, None, "open")
    /\ UNCHANGED <<mode, listening, acmeVars, leaf, taken, device, restarts>>

Request(c, under) ==
    /\ conn[c] = "open"
    /\ auth' = [auth EXCEPT ![c] = under]
    /\ At(c, IF mode.attests /\ under THEN "queued" ELSE "routing")
    /\ header' = [header EXCEPT ![c] = None]
    /\ UNCHANGED <<mode, listening, acmeVars, leaf, doc, taken, device, restarts>>

\* sign: a permit first, then the blocking call, which owns it.
Sign(c) ==
    /\ conn[c] = "queued" /\ taken < Concurrent
    /\ taken' = taken + 1 /\ device' = device + 1
    /\ At(c, "signing")
    /\ UNCHANGED <<mode, listening, acmeVars, leaf, auth, doc, header, restarts>>

\* The certificate bound is the one this connection loaded.
BoundNow(c) == slot   \* mutant
Bound(c) == leaf[c]

Signed(c) ==
    /\ conn[c] = "signing"
    /\ taken' = taken - 1 /\ device' = device - 1
    /\ doc' = [doc EXCEPT ![c] = Bound(c)]
    /\ At(c, "routing")
    /\ UNCHANGED <<mode, listening, acmeVars, leaf, auth, header, restarts>>

\* The device fails: 503 with `connection: close`, before the guest runs.
SignFails(c) ==
    /\ conn[c] = "signing"
    /\ taken' = taken - 1 /\ device' = device - 1
    /\ Answer(c, None, "closed")
    /\ leaf' = [leaf EXCEPT ![c] = 0]
    /\ UNCHANGED <<mode, listening, acmeVars, restarts>>

\* route: `/auth/` is the runtime's where there is a gate; nothing else gets
\* past the gate without a token.  Without one everything is the guest's.
Route(c) ==
    /\ conn[c] = "routing"
    /\ \/ (mode.gated => ~auth[c]) /\ At(c, "guest") /\ UNCHANGED <<auth, doc, header>>
       \/ mode.gated /\ Answer(c, doc[c], "open")
    /\ UNCHANGED <<mode, listening, acmeVars, leaf, taken, device, restarts>>

\* attach replaces what the guest set; a response without a document of the
\* runtime's is stripped of it.
AttachOrStrip(document, guests) == document

GuestAnswers(c) ==
    /\ conn[c] = "guest"
    /\ \E guests \in {None, Forged} : Answer(c, AttachOrStrip(doc[c], guests), "open")
    /\ UNCHANGED <<mode, listening, acmeVars, leaf, taken, device, restarts>>

\* The client goes away, or hyper's keep-alive finds it gone: everything its
\* request held is dropped but a call that is in the device.
PermitsDropped(c) == 0
Gone(c) ==
    /\ conn[c] \in Serving \cup {"hello", "handshake", "open"}
    /\ At(c, "closed")
    /\ auth' = [auth EXCEPT ![c] = FALSE]
    /\ doc' = [doc EXCEPT ![c] = None]
    /\ taken' = taken - PermitsDropped(c)
    /\ leaf' = [leaf EXCEPT ![c] = 0]
    /\ header' = [header EXCEPT ![c] = None]
    /\ UNCHANGED <<mode, listening, acmeVars, device, restarts>>

\* A call whose caller left comes back from the device.
Signing == Cardinality({c \in Conns : conn[c] = "signing"})
Orphans == device - Signing
OrphanSigned ==
    /\ Orphans > 0
    /\ device' = device - 1
    /\ taken' = IF taken > Signing THEN taken - 1 ELSE taken
    /\ UNCHANGED <<mode, listening, acmeVars, conn, leaf, auth, doc, header, restarts>>

\* The enclave stops; only the bucket and the CA remember anything.
Restart ==
    /\ restarts < MaxRestarts /\ restarts' = restarts + 1
    /\ listening' = FALSE /\ permit' = FALSE /\ acme' = "spawned" /\ slot' = 0
    /\ conn' = [c \in Conns |-> "closed"] /\ leaf' = [c \in Conns |-> 0]
    /\ auth' = [c \in Conns |-> FALSE] /\ doc' = [c \in Conns |-> None]
    /\ header' = [c \in Conns |-> None] /\ taken' = 0 /\ device' = 0
    /\ UNCHANGED <<mode, cached, issued>>

-----------------------------------------------------------------------------
Connection(c) ==
    \/ LoadIdentity(c) \/ Handshake(c) \/ Sign(c) \/ Signed(c) \/ SignFails(c)
    \/ Route(c) \/ GuestAnswers(c)

Next ==
    \/ Bind \/ Wait \/ Notified \/ LoadCert \/ Order \/ Validate \/ Issue \/ Store
    \/ OrphanSigned \/ Restart
    \/ \E c \in Conns :
        \/ Accept(c) \/ NoNonce(c) \/ Gone(c) \/ Connection(c)
        \/ \E under \in BOOLEAN : Request(c, under)

(***************************************************************************)
(* The runtime's tasks run, the CA answers an order, the device answers    *)
(* every call.  tokio's semaphore is first come, first served.  Clients    *)
(* and the guest promise nothing.                                          *)
(***************************************************************************)
Fairness ==
    /\ WF_vars(Bind) /\ WF_vars(Wait) /\ WF_vars(Notified) /\ WF_vars(LoadCert)
    /\ WF_vars(Order) /\ WF_vars(Validate) /\ WF_vars(Issue) /\ WF_vars(Store)
    /\ WF_vars(OrphanSigned)
    /\ \A c \in Conns : SF_vars(Sign(c)) /\ WF_vars(Signed(c) \/ SignFails(c))

Spec == Init /\ [][Next]_vars /\ Fairness

-----------------------------------------------------------------------------
(* A document on a response names the certificate this connection's own    *)
(* handshake presented, however often the certificate is renewed between   *)
(* the handshake and the answer, and never one the runtime did not make.   *)
BoundToConnection ==
    \A c \in Conns : header[c] # None => header[c] # Forged /\ header[c] = leaf[c]

(* Clients that connect and leave while the device works for them never    *)
(* push it past the documents it is allowed at once.                       *)
DeviceLimit == device <= Concurrent

Certified == slot # 0 \/ issued = MaxCerts

(* A request that waits for a document is answered or its client is gone:  *)
(* calls abandoned in the device give their permits back.                  *)
QueuedAnswered == \A c \in Conns : conn[c] = "queued" ~> conn[c] # "queued"

(* A response's document is the runtime's own, for the certificate of its  *)
(* connection, and signing never exceeds what the device is allowed        *)
(* (Attestor::sign, attach, serve).                                        *)
DocumentsHold ==
  /\ TypeOK
  /\ BoundToConnection
  /\ DeviceLimit

=============================================================================
