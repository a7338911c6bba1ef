---------------------------- MODULE ObjectStore ----------------------------
(***************************************************************************)
(* The root bucket as the enclave reaches it (runtime/src/store/backend/   *)
(* aws.rs): conditional creates through an SDK that retries, and the read  *)
(* that looks under delete markers for the oldest version of a key.        *)
(*                                                                         *)
(* One key, named as a root record is: the longer keys that begin with it  *)
(* (`roots/1`, `roots/10`) come back in the same listing.  The bucket is   *)
(* external: versioned, newest first, a locked version stays for the whole *)
(* behaviour, and whoever else holds the bucket's credentials may stack    *)
(* versions and markers and destroy what is not locked.  A version is      *)
(* [id, body, locked]; ids grow with the write, the longer keys' being the *)
(* smallest because they are listed last, so that an entry's place in the  *)
(* listing is told by its id, the highest first.                           *)
(***************************************************************************)
EXTENDS Integers, FiniteSets

CONSTANTS
    Clients,      \* enclaves creating the record, each with a body of its own
    Siblings,     \* how many versions the longer keys have
    PageSize,     \* entries one page of ListObjectVersions holds
    Attempts,     \* the SDK's tries of one request
    MaxWrites,    \* bound: versions and markers written to the key
    Marker,       \* the body of a delete marker
    Planted,      \* the body another holder of the credentials writes
    Sibling,      \* the body of a longer key's version
    None

Errors == {"NotFound", "IoTimeout", "Io"}

ObjectStoreAssumption ==
    /\ Siblings \in Nat /\ MaxWrites \in Nat
    /\ PageSize \in Nat \ {0} /\ Attempts \in Nat \ {0}
    /\ None \notin Int
    /\ Clients \cap ({Marker, Planted, Sibling, None} \cup Errors) = {}
    /\ Marker \notin {Planted, Sibling}
    /\ {Planted, Sibling} \cap ({None} \cup Errors) = {} /\ Planted # Sibling
    /\ None \notin Errors

Bodies == Clients \cup {Planted, Sibling}
Ids == 0..(Siblings + MaxWrites)
Version == [id : Ids, body : Bodies \cup {Marker}, locked : BOOLEAN]

VARIABLES
    versions,   \* the key's versions and markers
    written,    \* how many were ever written
    pc,         \* where each client is: "create", "list", "get", "done"
    attempt,    \* the try its create is at
    cursor,     \* version_id_marker of its listing, None before the first page
    found,      \* the version get_retained_blob will ask for, None before any
    read,       \* what get_retained_blob answered
    floor       \* ghost: the oldest locked version when its read began, or None

vars == <<versions, written, pc, attempt, cursor, found, read, floor>>
client == <<pc, attempt, cursor, found, read, floor>>

TypeOK ==
    /\ versions \in SUBSET Version /\ written \in 0..MaxWrites
    /\ pc \in [Clients -> {"create", "list", "get", "done"}]
    /\ attempt \in [Clients -> 1..Attempts]
    /\ cursor \in [Clients -> Ids \cup {None}]
    /\ found \in [Clients -> Ids \cup {None}]
    /\ read \in [Clients -> {None} \cup Bodies \cup Errors]
    /\ floor \in [Clients -> Ids \cup {None}]

Init ==
    /\ versions = {} /\ written = 0
    /\ pc = [c \in Clients |-> "create"] /\ attempt = [c \in Clients |-> 1]
    /\ cursor = [c \in Clients |-> None] /\ found = [c \in Clients |-> None]
    /\ read = [c \in Clients |-> None]
    /\ floor = [c \in Clients |-> None]

-----------------------------------------------------------------------------
(* The service.                                                            *)

\* What a plain GetObject, and If-None-Match: *, see.
Present == \E v \in versions : v.body # Marker /\ \A w \in versions : w.id <= v.id

Stacked(body, locked) ==
    versions \cup {[id |-> Siblings + written + 1, body |-> body, locked |-> locked]}

Write(body, locked) ==
    /\ written < MaxWrites
    /\ versions' = Stacked(body, locked)
    /\ written' = written + 1

\* ListObjectVersions with a prefix: the key's entries, then the longer keys'.
Listing ==
    versions \cup {[id |-> i, body |-> Sibling, locked |-> TRUE] : i \in 1..Siblings}

\* The last in the order of the listing.
Eldest(S) == CHOOSE v \in S : \A w \in S : v.id <= w.id

Locked == {v \in versions : v.locked}
OldestLocked == IF Locked = {} THEN None ELSE Eldest(Locked).id

\* delete_blob, by whoever may: a marker on top, whatever the lock.
DeleteBlob == Write(Marker, FALSE) /\ UNCHANGED client

\* put_blob without a lock over whatever is there.
PutBlob == Write(Planted, FALSE) /\ UNCHANGED client

\* A version that is not locked, a marker included, is destroyed by its id.
Destroy(v) ==
    /\ ~v.locked
    /\ versions' = versions \ {v}
    /\ UNCHANGED <<written, client>>

-----------------------------------------------------------------------------
(* put_blob_if_not_exists, with the retention of a root record.            *)

\* The retention a root record is created with.
ObjectLock == TRUE

\* Ok, AlreadyExists (a retry meets its own first attempt so) or IoTimeout:
\* whatever the create answered, its caller turns to get_retained_blob.
Answered(c) ==
    /\ pc' = [pc EXCEPT ![c] = "list"]
    /\ floor' = [floor EXCEPT ![c] = OldestLocked']
    /\ attempt' = [attempt EXCEPT ![c] = 1]
    /\ UNCHANGED <<cursor, found, read>>

\* One attempt reaches the bucket and its answer comes back.
CreateAnswered(c) ==
    /\ pc[c] = "create"
    /\ \/ ~Present /\ Write(c, ObjectLock)
       \/ Present /\ UNCHANGED <<versions, written>>
    /\ Answered(c)

\* The answer is lost or the attempt times out, landed or not; the SDK tries
\* again until operation_timeout, three attempts long.
CreateUnanswered(c) ==
    /\ pc[c] = "create"
    /\ \/ ~Present /\ Write(c, ObjectLock)
       \/ UNCHANGED <<versions, written>>
    /\ IF attempt[c] < Attempts
         THEN attempt' = [attempt EXCEPT ![c] = @ + 1]
              /\ UNCHANGED <<pc, cursor, found, read, floor>>
         ELSE Answered(c)

-----------------------------------------------------------------------------
(* get_retained_blob.                                                      *)

\* What is left of the listing after the marker.
AfterMarker(c) ==
    {v \in Listing : cursor[c] # None => v.id < cursor[c]}

\* The first PageSize entries.
Page(rest) ==
    {v \in rest : Cardinality({w \in rest : w.id > v.id}) < PageSize}

\* The filter on the exact key, and `versions` without the delete markers.
OfKey(v) == v.id > Siblings /\ v.body # Marker
Own(page) == {v \in page : OfKey(v)}

\* Is there another page to ask for?
TruncatedNever(rest) == FALSE   \* mutant
Truncated(rest) == Page(rest) # rest

\* Where the next page begins: next_version_id_marker of this one.
NextMarker(page) == Eldest(page).id

\* The oldest by position: the listing is newest first, page after page.
Oldest(kept, own) == IF own = {} THEN kept ELSE Eldest(own).id

Ends(c, r) ==
    /\ read' = [read EXCEPT ![c] = r]
    /\ pc' = [pc EXCEPT ![c] = "done"]

ListPage(c) ==
    LET rest == AfterMarker(c)
        page == Page(rest)
        kept == Oldest(found[c], Own(page))
    IN  /\ pc[c] = "list"
        /\ found' = [found EXCEPT ![c] = kept]
        /\ IF Truncated(rest)
             THEN cursor' = [cursor EXCEPT ![c] = NextMarker(page)]
                  /\ UNCHANGED <<pc, read>>
             ELSE IF kept = None
               THEN Ends(c, "NotFound") /\ UNCHANGED cursor
               ELSE pc' = [pc EXCEPT ![c] = "get"] /\ UNCHANGED <<cursor, read>>
        /\ UNCHANGED <<versions, written, attempt, floor>>

\* A page that says it is truncated and gives no marker, or a listing that
\* fails: map_sdk_error's categories.
ListFails(c) ==
    /\ pc[c] = "list"
    /\ \E e \in {"Io", "IoTimeout"} : Ends(c, e)
    /\ UNCHANGED <<versions, written, attempt, cursor, found, floor>>

\* GetObject with the version's id; one destroyed since is NoSuchVersion,
\* which map_sdk_error does not name, so it is an Io and not a NotFound.
GetVersion(c) ==
    LET at == {v \in Listing : v.id = found[c]}
    IN  /\ pc[c] = "get"
        /\ IF at = {} THEN Ends(c, "Io")
           ELSE Ends(c, (CHOOSE v \in at : TRUE).body)
        /\ UNCHANGED <<versions, written, attempt, cursor, found, floor>>

-----------------------------------------------------------------------------
ClientStep(c) ==
    \/ CreateAnswered(c) \/ CreateUnanswered(c)
    \/ ListPage(c) \/ ListFails(c) \/ GetVersion(c)

Others == DeleteBlob \/ PutBlob \/ \E v \in versions : Destroy(v)

Done == \A c \in Clients : pc[c] = "done"

Next == Others \/ (\E c \in Clients : ClientStep(c)) \/ (Done /\ UNCHANGED vars)

\* The service answers or the SDK's timeout ends the attempt; others' writes
\* promise nothing, and no failure is needed for an operation to end.
Fairness == \A c \in Clients :
    /\ WF_vars(CreateAnswered(c) \/ CreateUnanswered(c))
    /\ WF_vars(ListPage(c) \/ GetVersion(c))

Spec == Init /\ [][Next]_vars /\ Fairness

-----------------------------------------------------------------------------
(* Of all the enclaves that create the record, at most one reads its own   *)
(* body back (zfs.rs publish decides who won a sequence by exactly this),  *)
(* whatever markers and versions others stack between the two and however  *)
(* often the SDK repeated the create.                                      *)
OneWinner ==
    \A c, d \in Clients : read[c] = c /\ read[d] = d => c = d

(* A read that began when a locked version was there does not answer that  *)
(* the record was never written, however many markers were stacked on it   *)
(* or are being stacked while the pages are walked.                        *)
HiddenIsFound ==
    \A c \in Clients : floor[c] # None => read[c] # "NotFound"

(* What a read answers belongs to this key and is as old as anything that  *)
(* was locked when the read began: a record cannot be replaced for its     *)
(* readers by one written over it.                                         *)
NothingNewer ==
    \A c \in Clients :
        read[c] \in Bodies =>
            /\ read[c] # Sibling
            /\ floor[c] # None => found[c] <= floor[c]

(* A record belongs to its first writer: one winner of a create, found     *)
(* behind any marker, and never replaced for its readers (create_blob,     *)
(* get_retained_blob).                                                     *)
RecordsHold ==
  /\ TypeOK
  /\ OneWinner
  /\ HiddenIsFound
  /\ NothingNewer

=============================================================================
