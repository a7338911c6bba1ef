-------------------------------- MODULE Auth --------------------------------
(***************************************************************************)
(* Passkey authentication: registration of a credential, the challenge a   *)
(* person signs for one interaction, the token minted for the signature,   *)
(* and the gate that spends the token before the guest runs                *)
(* (src/runtime/src/auth/).                                                *)
(*                                                                         *)
(* Challenges, tokens, half-finished registrations and the credential      *)
(* cache live in memory and go with the process.  Credential records are   *)
(* files of the control pool: `file' is what the running enclave sees and  *)
(* `images' are the contents a boot may find, the one last anchored and    *)
(* every later one.  A time-to-live is a bit per entry: `dead' entries are *)
(* past their `expires'.                                                   *)
(*                                                                         *)
(* A handler that awaits (a file read or write, a tenant directory, an     *)
(* anchor) is a record in `handler'; between two awaits it runs as one     *)
(* step.  It may end at any await: the I/O fails, or hyper drops it        *)
(* because its client has gone.                                            *)
(***************************************************************************)
EXTENDS Naturals, Sequences, FiniteSets

CONSTANTS Credentials,   \* credential ids; tenant_of is injective on them
          Keys,          \* the passkeys clients hold
          Scopes,        \* InteractionScope: method, path and query
          Ids, Tokens,   \* random challenge ids and tokens, never drawn twice
          Registrations, \* random registration ids
          Handlers,      \* requests in flight that await something
          Capacity,      \* of each in-memory table
          MaxRestarts,   \* bound on the enclave's restarts
          None,          \* no file, no entry, no handler
          Empty, Torn    \* a file created and not written, truncated and not written

VARIABLES file, images, cache, challenges, tokens, registrations, handler,
          issued, signed, admitted, acked, revoking, revoked, restarts

pool == <<file, images>>
history == <<issued, signed, admitted, acked, revoking, revoked>>
vars == <<file, images, cache, challenges, tokens, registrations, handler,
          issued, signed, admitted, acked, revoking, revoked, restarts>>

StoredCredential == [key : Keys, active : BOOLEAN]
Pending == [cred : Credentials, key : Keys, scope : Scopes]
Approved == [cred : Credentials, scope : Scopes, id : Ids]
Assertion == [id : Ids, cred : Credentials, key : Keys]

(* The three marks are told apart, and from what is kept in their places;  *)
(* the bound on restarts is a number.                                      *)
ASSUME AuthAssumption ==
  /\ MaxRestarts \in Nat
  /\ None # Empty /\ None # Torn /\ Empty # Torn
  /\ {None, Empty, Torn} \cap StoredCredential = {}
  /\ None \notin Pending \union [dead : BOOLEAN, val : Pending \union Approved]

(***************************************************************************)
(* The three in-memory tables share one shape: an entry with a dead bit.   *)
(***************************************************************************)
Live(table) == {i \in DOMAIN table : table[i] # None /\ ~table[i].dead}
Sweep(table) == [i \in DOMAIN table |-> IF i \in Live(table) THEN table[i] ELSE None]
Full(table) == Cardinality(Live(table)) >= Capacity
Entry(v) == [dead |-> FALSE, val |-> v]

(* Mutant: a full table makes room. *)
InsertTrading(table, i, v) ==
  [j \in DOMAIN table |-> IF j = i THEN Entry(v) ELSE IF Full(table) THEN None ELSE Sweep(table)[j]]

Insert(table, i, v) == IF Full(table) THEN Sweep(table) ELSE [Sweep(table) EXCEPT ![i] = Entry(v)]

Remove(table, i) == [table EXCEPT ![i] = None]

Init ==
  /\ file = [c \in Credentials |-> None]
  /\ images = {file}
  /\ cache = [c \in Credentials |-> None]
  /\ challenges = [i \in Ids |-> None]
  /\ tokens = [t \in Tokens |-> None]
  /\ registrations = [r \in Registrations |-> None]
  /\ handler = [h \in Handlers |-> None]
  /\ issued = [i \in Ids |-> None]
  /\ signed = {} /\ admitted = <<>>
  /\ acked = {} /\ revoking = {} /\ revoked = {}
  /\ restarts = 0

Write(c, v) ==
  /\ file' = [file EXCEPT ![c] = v]
  /\ images' = images \union {file'}

(* An anchor of the control pool covers what was on it when it began: the  *)
(* images older than that are no longer ones a boot may find.              *)
Older == images
AnchorCovers(older) == images' = images \ older

(* random_id: the enclave's entropy never repeats an id.                   *)
Fresh(i) == issued[i] = None

(***************************************************************************)
(* Challenges and tokens.                                                  *)
(***************************************************************************)
Issue(i, c, k, s) ==
  /\ Fresh(i)
  /\ challenges' = Insert(challenges, i, [cred |-> c, key |-> k, scope |-> s])
  /\ issued' = IF Full(challenges) THEN issued
               ELSE [issued EXCEPT ![i] = [cred |-> c, key |-> k, scope |-> s]]

(* grant: the approval of challenge i, recorded against a new token.  A    *)
(* name that is no longer live stands for a token not drawn before.        *)
Grant(i, e) ==
  \E t \in Tokens :
    /\ Full(tokens) \/ t \notin Live(tokens)
    /\ tokens' = Insert(tokens, t, [cred |-> e.cred, scope |-> e.scope, id |-> i])

(* finish_passkey_authentication: the assertion signs this challenge with  *)
(* the one passkey the challenge allows.                                   *)
Verifies(i, e, a) == a.id = i /\ a.cred = e.cred /\ a.key = e.key
(* The rest of authenticate once the record is in hand, and the grant.     *)
Authenticated(i, e, a, rec) ==
  IF rec.active /\ Verifies(i, e, a) THEN Grant(i, e) ELSE UNCHANGED tokens

(* request_options and request_verify of a credential the cache holds run  *)
(* without awaiting anything.                                              *)
RequestOptionsCached(c, s) ==
  /\ cache[c] # None /\ cache[c].active
  /\ \E i \in Ids : Issue(i, c, cache[c].key, s)
  /\ UNCHANGED <<pool, cache, tokens, registrations, handler, signed, admitted,
                 acked, revoking, revoked, restarts>>

(* consume: the challenge is gone whatever the assertion turns out to be.  *)
Consume(i) == challenges' = Remove(challenges, i)

RequestVerifyCached(i, a) ==
  /\ challenges[i] # None /\ Consume(i)
  /\ cache[a.cred] # None
  /\ IF challenges[i].dead THEN UNCHANGED tokens
     ELSE Authenticated(i, challenges[i].val, a, cache[a.cred])
  /\ UNCHANGED <<pool, cache, registrations, handler, history, restarts>>

(* lookup misses the cache and reads the file; what it read is held across *)
(* the await and put in the cache afterwards.  A file that does not decode *)
(* or is not there ends the request.                                       *)
IsRecord(v) == v \notin {None, Empty, Torn}
LookupRead(h, c, waiting) ==
  /\ handler[h] = None
  /\ cache[c] = None
  /\ handler' = [handler EXCEPT ![h] = IF IsRecord(file[c]) THEN waiting ELSE None]

LookupFill(h) ==
  cache' = [cache EXCEPT ![handler[h].cred] = handler[h].rec]

RequestOptionsReads(h, c, s) ==
  /\ LookupRead(h, c, [at |-> "options", cred |-> c, rec |-> file[c], scope |-> s])
  /\ UNCHANGED <<pool, cache, challenges, tokens, registrations, history, restarts>>

RequestOptionsFills(h) ==
  /\ handler[h] # None /\ handler[h].at = "options"
  /\ LookupFill(h)
  /\ IF handler[h].rec.active
       THEN \E i \in Ids : Issue(i, handler[h].cred, handler[h].rec.key, handler[h].scope)
       ELSE UNCHANGED <<challenges, issued>>
  /\ handler' = [handler EXCEPT ![h] = None]
  /\ UNCHANGED <<pool, tokens, registrations, signed, admitted, acked, revoking, revoked, restarts>>

RequestVerifyReads(h, i, a) ==
  /\ challenges[i] # None /\ Consume(i)
  /\ IF challenges[i].dead THEN UNCHANGED handler
     ELSE LookupRead(h, a.cred, [at |-> "verify", cred |-> a.cred, rec |-> file[a.cred],
                                 id |-> i, entry |-> challenges[i].val, asr |-> a])
  /\ cache[a.cred] = None
  /\ UNCHANGED <<pool, cache, tokens, registrations, history, restarts>>

RequestVerifyFills(h) ==
  /\ handler[h] # None /\ handler[h].at = "verify"
  /\ LookupFill(h)
  /\ Authenticated(handler[h].id, handler[h].entry, handler[h].asr, handler[h].rec)
  /\ handler' = [handler EXCEPT ![h] = None]
  /\ UNCHANGED <<pool, challenges, registrations, history, restarts>>

(* The gate: a token is removed before anything about it is checked, and   *)
(* only an unspent one offered for its own scope reaches the guest.        *)
Redeem(t, s) ==
  /\ tokens[t] # None
  /\ tokens' = Remove(tokens, t)
  /\ admitted' = IF tokens[t].dead \/ tokens[t].val.scope # s THEN admitted
                 ELSE Append(admitted, [id |-> tokens[t].val.id, tenant |-> tokens[t].val.cred,
                                        scope |-> s])
  /\ UNCHANGED <<pool, cache, challenges, registrations, handler, issued, signed,
                 acked, revoking, revoked, restarts>>

(***************************************************************************)
(* Registration.  register_verify takes the half-finished registration,    *)
(* checks what the client's new passkey answered, makes the tenant's       *)
(* directory, and stores the record: create_new, write, anchor, cache.     *)
(***************************************************************************)
RegisterOptions(r) ==
  /\ r \notin Live(registrations)
  /\ registrations' = Insert(registrations, r, "pending")
  /\ UNCHANGED <<pool, cache, challenges, tokens, handler, history, restarts>>

RegisterVerify(h, r, c, k) ==
  /\ registrations[r] # None /\ handler[h] = None
  /\ registrations' = Remove(registrations, r)
  /\ handler' = [handler EXCEPT ![h] = IF registrations[r].dead THEN None
                                       ELSE [at |-> "tenant_dir", cred |-> c, key |-> k]]
  /\ UNCHANGED <<pool, cache, challenges, tokens, history, restarts>>

At(h, step) == handler[h] # None /\ handler[h].at = step
Goto(h, step) == handler' = [handler EXCEPT ![h].at = step]

(* The directory exists; create_new fails on a credential id already there *)
(* and the request answers CONFLICT.                                       *)
CreateNew(h) ==
  /\ At(h, "tenant_dir")
  /\ IF file[handler[h].cred] = None
       THEN Write(handler[h].cred, Empty) /\ Goto(h, "write")
       ELSE handler' = [handler EXCEPT ![h] = None] /\ UNCHANGED pool
  /\ UNCHANGED <<cache, challenges, tokens, registrations, history, restarts>>

WriteRecord(h) ==
  /\ At(h, "write")
  /\ Write(handler[h].cred, [key |-> handler[h].key, active |-> TRUE])
  /\ handler' = [handler EXCEPT ![h] = [at |-> "anchor", cred |-> handler[h].cred,
                                        key |-> handler[h].key, older |-> Older]]
  /\ UNCHANGED <<cache, challenges, tokens, registrations, history, restarts>>

(* The anchor is published; only now is the client told, and the cache.    *)
Registered(h) ==
  /\ At(h, "anchor")
  /\ AnchorCovers(handler[h].older)
  /\ cache' = [cache EXCEPT ![handler[h].cred] = [key |-> handler[h].key, active |-> TRUE]]
  /\ acked' = acked \union {<<handler[h].cred, handler[h].key>>}
  /\ handler' = [handler EXCEPT ![h] = None]
  /\ UNCHANGED <<file, challenges, tokens, registrations, issued, signed, admitted,
                 revoking, revoked, restarts>>

(***************************************************************************)
(* Revocation.  The record is rewritten in place: tokio::fs::write         *)
(* truncates the file before it writes it.  The cache is changed only if   *)
(* it holds the credential when the anchor is done.  No route calls revoke *)
(* yet; an operator's would name a credential known to be registered.      *)
(***************************************************************************)
Revoke(h, c) ==
  /\ handler[h] = None /\ IsRecord(file[c]) /\ c \notin revoking
  /\ \E k \in Keys : <<c, k>> \in acked
  /\ handler' = [handler EXCEPT ![h] = [at |-> "revoke", cred |-> c, key |-> file[c].key]]
  /\ revoking' = revoking \union {c}
  /\ UNCHANGED <<pool, cache, challenges, tokens, registrations, issued, signed, admitted,
                 acked, revoked, restarts>>

RevokeTruncates(h) ==
  /\ At(h, "revoke")
  /\ Write(handler[h].cred, Torn) /\ Goto(h, "revoke_write")
  /\ UNCHANGED <<cache, challenges, tokens, registrations, history, restarts>>

RevokeWrites(h) ==
  /\ At(h, "revoke_write")
  /\ Write(handler[h].cred, [key |-> handler[h].key, active |-> FALSE])
  /\ handler' = [handler EXCEPT ![h] = [at |-> "revoke_anchor", cred |-> handler[h].cred,
                                        older |-> Older]]
  /\ UNCHANGED <<cache, challenges, tokens, registrations, history, restarts>>

RevokedUnanchored(h) ==   \* mutant
  /\ At(h, "revoke_anchor")
  /\ cache' = [cache EXCEPT ![handler[h].cred] = IF @ = None THEN None
                                                 ELSE [@ EXCEPT !.active = FALSE]]
  /\ revoked' = revoked \union {handler[h].cred}
  /\ handler' = [handler EXCEPT ![h] = None]
  /\ UNCHANGED <<pool, challenges, tokens, registrations, issued, signed, admitted,
                 acked, revoking, restarts>>

Revoked(h) ==
  /\ At(h, "revoke_anchor")
  /\ AnchorCovers(handler[h].older)
  /\ cache' = [cache EXCEPT ![handler[h].cred] = IF @ = None THEN None
                                                 ELSE [@ EXCEPT !.active = FALSE]]
  /\ revoked' = revoked \union {handler[h].cred}
  /\ handler' = [handler EXCEPT ![h] = None]
  /\ UNCHANGED <<file, challenges, tokens, registrations, issued, signed, admitted,
                 acked, revoking, restarts>>

(***************************************************************************)
(* The environment: people, time, faults.                                  *)
(***************************************************************************)
(* A person's authenticator signs a challenge it was sent, with the key it *)
(* holds for the credential.  The assertion can be sent any number of      *)
(* times, with any challenge id.                                           *)
Sign(i, k) ==
  /\ issued[i] # None
  /\ signed' = signed \union {[id |-> i, cred |-> issued[i].cred, key |-> k]}
  /\ UNCHANGED <<pool, cache, challenges, tokens, registrations, handler, issued, admitted,
                 acked, revoking, revoked, restarts>>

Dies(table, i) == i \in Live(table) /\ table' = [table EXCEPT ![i].dead = TRUE]
Expire ==
  /\ \/ (\E i \in Ids : Dies(challenges, i)) /\ UNCHANGED <<tokens, registrations>>
     \/ (\E t \in Tokens : Dies(tokens, t)) /\ UNCHANGED <<challenges, registrations>>
     \/ (\E r \in Registrations : Dies(registrations, r)) /\ UNCHANGED <<challenges, tokens>>
  /\ UNCHANGED <<pool, cache, handler, history, restarts>>

(* An await fails or the request is dropped at it: what is done stays.     *)
GiveUp(h) ==
  /\ handler[h] # None
  /\ handler' = [handler EXCEPT ![h] = None]
  /\ UNCHANGED <<pool, cache, challenges, tokens, registrations, history, restarts>>

(* The enclave stops and another boots on an image the anchor admits.      *)
Restart ==
  /\ restarts < MaxRestarts /\ restarts' = restarts + 1
  /\ \E image \in images : file' = image /\ images' = {image}
  /\ cache' = [c \in Credentials |-> None]
  /\ challenges' = [i \in Ids |-> None]
  /\ tokens' = [t \in Tokens |-> None]
  /\ registrations' = [r \in Registrations |-> None]
  /\ handler' = [h \in Handlers |-> None]
  /\ UNCHANGED history

Next ==
  \/ \E c \in Credentials, s \in Scopes : RequestOptionsCached(c, s)
  \/ \E i \in Ids, a \in signed : RequestVerifyCached(i, a)
  \/ \E t \in Tokens, s \in Scopes : Redeem(t, s)
  \/ \E r \in Registrations : RegisterOptions(r)
  \/ \E h \in Handlers :
       \/ \E c \in Credentials, s \in Scopes : RequestOptionsReads(h, c, s)
       \/ RequestOptionsFills(h)
       \/ \E i \in Ids, a \in signed : RequestVerifyReads(h, i, a)
       \/ RequestVerifyFills(h)
       \/ \E r \in Registrations, c \in Credentials, k \in Keys : RegisterVerify(h, r, c, k)
       \/ CreateNew(h) \/ WriteRecord(h) \/ Registered(h)
       \/ \E c \in Credentials : Revoke(h, c)
       \/ RevokeTruncates(h) \/ RevokeWrites(h) \/ Revoked(h)
       \/ GiveUp(h)
  \/ \E i \in Ids, k \in Keys : Sign(i, k)
  \/ Expire
  \/ Restart

Spec == Init /\ [][Next]_vars

(***************************************************************************)
(* Properties.                                                             *)
(***************************************************************************)
Records == StoredCredential \union {None, Empty, Torn}
Images == [Credentials -> Records]
Table(I, V) == [I -> [dead : BOOLEAN, val : V] \union {None}]
Handling ==
  [at : {"options"}, cred : Credentials, rec : StoredCredential, scope : Scopes]
  \union [at : {"verify"}, cred : Credentials, rec : StoredCredential, id : Ids,
          entry : Pending, asr : Assertion]
  \union [at : {"tenant_dir", "write", "revoke", "revoke_write"}, cred : Credentials, key : Keys]
  \union [at : {"anchor"}, cred : Credentials, key : Keys, older : SUBSET Images]
  \union [at : {"revoke_anchor"}, cred : Credentials, older : SUBSET Images]

PoolOK ==
  /\ file \in Images /\ file \in images /\ images \subseteq Images
  /\ cache \in [Credentials -> StoredCredential \union {None}]
TablesOK ==
  /\ challenges \in Table(Ids, Pending)
  /\ tokens \in Table(Tokens, Approved)
  /\ registrations \in Table(Registrations, {"pending"})
HistoryOK ==
  /\ issued \in [Ids -> Pending \union {None}]
  /\ signed \subseteq Assertion
  /\ admitted \in Seq([id : Ids, tenant : Credentials, scope : Scopes])
  /\ acked \subseteq Credentials \X Keys
  /\ revoking \subseteq Credentials /\ revoked \subseteq revoking

(* Every variable has its type; the file is one of the images a boot finds *)
(* (credential.rs register and revoke write the live pool, which a stop    *)
(* may leave as it is).                                                    *)
TypeOK ==
  /\ PoolOK /\ TablesOK /\ HistoryOK
  /\ handler \in [Handlers -> Handling \union {None}]
  /\ restarts \in 0..MaxRestarts

(* Each interaction the gate lets through was approved: its challenge was  *)
(* signed by the passkey it was issued for, for that tenant and that       *)
(* method, path and query, and no other interaction was let through on the *)
(* same signature, however often the assertion or the token was sent       *)
(* (ChallengeStore::consume, TokenStore::redeem).                          *)
OneInteractionPerApproval ==
  /\ \A m, n \in 1..Len(admitted) : admitted[m].id = admitted[n].id => m = n
  /\ \A n \in 1..Len(admitted) :
       LET entry == issued[admitted[n].id] IN
       /\ entry # None /\ entry.cred = admitted[n].tenant /\ entry.scope = admitted[n].scope
       /\ [id |-> admitted[n].id, cred |-> entry.cred, key |-> entry.key] \in signed

(* A registration the client was told of is on every image a boot may      *)
(* find, under the key it was made with; only a revocation that was begun  *)
(* may leave the record unreadable (FilesystemCredentials::register).      *)
RegistrationHolds ==
  \A p \in acked : \A image \in images :
    /\ image[p[1]] \notin {None, Empty}
    /\ image[p[1]] = Torn => p[1] \in revoking
    /\ IsRecord(image[p[1]]) => image[p[1]].key = p[2]

(* A revocation that was answered is on every image a boot may find: no    *)
(* rewind brings the credential back (FilesystemCredentials::revoke).      *)
RevocationHolds ==
  \A c \in revoked : \A image \in images :
    image[c] \notin {None, Empty} /\ (IsRecord(image[c]) => ~image[c].active)

(* The gate never works with a key other than the one on record: what the  *)
(* cache holds, and what a lookup in flight will put there, has the key of *)
(* the file (lookup fills the cache after an await).                       *)
CacheKeyIsRecorded ==
  \A c \in Credentials :
    /\ cache[c] # None => file[c] # None /\ (IsRecord(file[c]) => file[c].key = cache[c].key)
    /\ \A h \in Handlers :
         (At(h, "options") \/ At(h, "verify")) /\ handler[h].cred = c /\ IsRecord(file[c])
           => file[c].key = handler[h].rec.key

(* A live challenge or token leaves its table only by being used or by a   *)
(* restart: no caller can cancel another's approval by asking for more     *)
(* (issue refuses at capacity, never evicts).                              *)
NothingEvicted ==
  [][restarts' = restarts =>
       /\ \A i \in Live(challenges) : challenges'[i] = None => challenges' = Remove(challenges, i)
       /\ \A t \in Live(tokens) : tokens'[t] = None => tokens' = Remove(tokens, t)]_vars

(* credential.rs:171 says of the cache that "it must not outlive the       *)
(* decision to revoke by even one request".                                *)
RevokedStaysOut ==
  \A c \in revoked : cache[c] # None => ~cache[c].active

(* An approval is good for one interaction, its own, and nobody else can   *)
(* take it away (ChallengeStore, TokenStore, the gate).                    *)
ApprovalsHold ==
  /\ []OneInteractionPerApproval
  /\ NothingEvicted

(* What was answered of a registration or of a revocation is on every      *)
(* image a boot may find, and the cache never holds another key than the   *)
(* record's (FilesystemCredentials).                                       *)
CredentialsHold ==
  /\ TypeOK
  /\ RegistrationHolds
  /\ RevocationHolds
  /\ CacheKeyIsRecorded

=============================================================================
