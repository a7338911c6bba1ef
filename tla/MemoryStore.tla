---------------------------- MODULE MemoryStore ----------------------------
(***************************************************************************)
(* The in-memory backend the tests run on                                  *)
(* (runtime/src/store/backend/memory.rs), beside a ghost of the versioned  *)
(* bucket it stands for: what a test proves with the one should hold of    *)
(* the other.                                                              *)
(*                                                                         *)
(* A body is the number of the call that made it.  Retention outlives     *)
(* every behaviour, as the years the runtime asks for outlive a test; a    *)
(* blob is [body, locked].  Every call holds the state's lock, so calls    *)
(* are atomic; a listing is a series of calls.  Keys are numbers, in their *)
(* order; those of Folder share a common prefix.                           *)
(***************************************************************************)
EXTENDS Integers, Sequences, SequencesExt, FiniteSets

CONSTANTS
    Keys,       \* a set of positive integers
    Folder,     \* an interval of Keys below one delimiter
    PageSize,   \* max_keys of a listing
    MaxCalls,   \* bound: calls that change anything
    None

VARIABLES
    objects,    \* State::objects
    markers,    \* State::delete_markers
    retained,   \* State::retained
    upload,     \* State::mpus, one at a time: [key, locked, parts], or None
    failNext,   \* fail_next_put
    bucket,     \* ghost: the versions of each key, oldest first, Marker among them
    first,      \* ghost: the first locked body written to each key
    listing,    \* a listing under way, or None
    calls

store == <<objects, markers, retained, upload, failNext, bucket, first>>
vars == <<store, listing, calls>>

Marker == [body |-> 0, locked |-> FALSE]
Blob(b, locked) == [body |-> b, locked |-> locked]
Blobs == [body : 1..MaxCalls, locked : BOOLEAN]
ActiveMpu == [key : Keys, locked : BOOLEAN, parts : 0..MaxCalls]
State == [Keys -> Blobs \cup {None}]
NoObjects == [k \in Keys |-> None]

(* How often each key was named, whether the folder was, and the keys that *)
(* were there all along.                                                   *)
Listing == [after : Nat, more : BOOLEAN, found : [Keys -> Nat], folder : BOOLEAN,
            stable : SUBSET Keys]

(* What lies between two keys of one folder is in it. *)
MemoryAssumption ==
    /\ Keys \subseteq Nat \ {0} /\ IsFiniteSet(Keys)
    /\ Folder \subseteq Keys
    /\ \A i, k \in Folder, j \in Keys : i < j /\ j < k => j \in Folder
    /\ PageSize \in Nat /\ MaxCalls \in Nat
    /\ None \notin Blobs /\ None \notin Nat

Init ==
    /\ objects = NoObjects /\ markers = {} /\ retained = NoObjects
    /\ upload = None /\ failNext = FALSE
    /\ bucket = [k \in Keys |-> <<>>] /\ first = NoObjects
    /\ listing = None /\ calls = 0

-----------------------------------------------------------------------------

(* State::current *)
Current(k) == IF k \in markers THEN None ELSE objects[k]

(* State::retained *)
Retained(k) == IF retained[k] # None THEN retained[k] ELSE objects[k]

(* head_blob and get_blob *)
GetBlob(k) == Current(k)

(* get_retained_blob *)
GetRetainedBlob(k) == Retained(k)

(* StoredBlob::is_retained *)
IsRetained(k) == objects[k] # None /\ objects[k].locked

(* What is stable for a listing under way: present, and not written since. *)
Disturbs(k) ==
    listing' = IF listing = None THEN None ELSE [listing EXCEPT !.stable = @ \ {k}]

(* What every write of a blob does to the bucket it stands for. *)
Stack(k, blob) ==
    /\ bucket' = [bucket EXCEPT ![k] = Append(@, blob)]
    /\ first' = [first EXCEPT ![k] = IF @ = None /\ blob.locked THEN blob.body ELSE @]
    /\ Disturbs(k)

(* The helper a test arms: the next put stores nothing. *)
FailNextPut ==
    /\ ~failNext /\ failNext' = TRUE /\ calls < MaxCalls
    /\ calls' = calls + 1
    /\ UNCHANGED <<objects, markers, retained, upload, bucket, first, listing>>

PutFails ==
    /\ failNext /\ failNext' = FALSE
    /\ UNCHANGED <<objects, markers, retained, upload, bucket, first, listing, calls>>

(* put_blob: over a retained object it is refused, a marker or not. *)
PutBlob(k, locked) ==
    /\ ~failNext /\ ~IsRetained(k) /\ calls < MaxCalls
    /\ objects' = [objects EXCEPT ![k] = Blob(calls + 1, locked)]
    /\ Stack(k, Blob(calls + 1, locked))
    /\ calls' = calls + 1
    /\ UNCHANGED <<markers, retained, upload, failNext>>

(* Mutant: what is written over is not set aside. *)
PinNothing(k) == retained[k]

(* pin_before_overwrite *)
PinBeforeOverwrite(k) == IF retained[k] = None /\ IsRetained(k) THEN objects[k] ELSE retained[k]

(* put_blob_if_not_exists: AlreadyExists unless there is no current one. *)
Create(k, locked) ==
    /\ ~failNext /\ Current(k) = None /\ calls < MaxCalls
    /\ retained' = [retained EXCEPT ![k] = PinBeforeOverwrite(k)]
    /\ markers' = markers \ {k}
    /\ objects' = [objects EXCEPT ![k] = Blob(calls + 1, locked)]
    /\ Stack(k, Blob(calls + 1, locked))
    /\ calls' = calls + 1
    /\ UNCHANGED <<upload, failNext>>

(* delete_one: a marker on a retained object, else the object goes. *)
DeleteBlobs(ks) ==
    LET kept == {k \in ks : IsRetained(k)} IN
    /\ calls < MaxCalls /\ calls' = calls + 1
    /\ markers' = (markers \cup kept) \ (ks \ kept)
    /\ objects' = [k \in Keys |-> IF k \in ks \ kept THEN None ELSE objects[k]]
    /\ bucket' = [k \in Keys |-> IF k \in ks THEN Append(bucket[k], Marker) ELSE bucket[k]]
    /\ listing' = IF listing = None THEN None ELSE [listing EXCEPT !.stable = @ \ ks]
    /\ UNCHANGED <<retained, upload, failNext, first>>

(* copy_blob: retention does not come along; it reads under a marker. *)
CopyBlob(s, k) ==
    /\ objects[s] # None /\ ~IsRetained(k) /\ calls < MaxCalls
    /\ objects' = [objects EXCEPT ![k] = Blob(objects[s].body, FALSE)]
    /\ Stack(k, Blob(objects[s].body, FALSE))
    /\ calls' = calls + 1
    /\ UNCHANGED <<markers, retained, upload, failNext>>

MultipartBegin(k, locked) ==
    /\ upload = None /\ calls < MaxCalls
    /\ upload' = [key |-> k, locked |-> locked, parts |-> 0]
    /\ calls' = calls + 1
    /\ UNCHANGED <<objects, markers, retained, failNext, bucket, first, listing>>

(* A part is sent, or copied out of an object; complete puts them         *)
(* together.                                                               *)
UploadPart ==
    /\ upload # None /\ calls < MaxCalls
    /\ upload' = [upload EXCEPT !.parts = calls + 1]
    /\ calls' = calls + 1
    /\ UNCHANGED <<objects, markers, retained, failNext, bucket, first, listing>>

(* multipart_complete: the upload is gone even where the object is         *)
(* retained and the blob is refused.                                       *)
MultipartComplete ==
    /\ upload # None /\ upload.parts > 0
    /\ upload' = None
    /\ IF IsRetained(upload.key) THEN UNCHANGED <<objects, bucket, first, listing>>
       ELSE /\ objects' = [objects EXCEPT ![upload.key] = Blob(upload.parts, upload.locked)]
            /\ Stack(upload.key, Blob(upload.parts, upload.locked))
    /\ UNCHANGED <<markers, retained, failNext, calls>>

MultipartAbort ==
    /\ upload # None /\ upload' = None
    /\ UNCHANGED <<objects, markers, retained, failNext, bucket, first, listing, calls>>

-----------------------------------------------------------------------------
(* list_blobs, page after page *)

Visible == {k \in Keys : Current(k) # None}

ListBegin ==
    /\ listing = None
    /\ listing' = [after |-> 0, more |-> TRUE, found |-> [k \in Keys |-> 0],
                  folder |-> FALSE, stable |-> Visible]
    /\ UNCHANGED <<store, calls>>

(* What a listing has one item for: a key, or the common prefix, at the    *)
(* first key under it.                                                     *)
Items(keys) == {k \in keys : k \in Folder => \A j \in keys \cap Folder : k <= j}

(* The loop takes items in their order, up to max_keys. *)
Page(keys) == {k \in Items(keys) : Cardinality({j \in Items(keys) : j <= k}) <= PageSize}

(* The keys it is past, every key under the prefix with the prefix. *)
Consumed(keys) == {k \in keys : k \in Page(keys) \/ (k \in Folder /\ Page(keys) \cap Folder # {})}

(* One call.  It gives the last key consumed for a token, from which the   *)
(* next goes on, if keys are left.                                         *)
ListPage ==
    LET keys == {k \in Visible : k > listing.after}
        page == Page(keys)
    IN  /\ listing # None /\ listing.more
        /\ \E last \in Consumed(keys) \cup {listing.after} :
              /\ \A k \in Consumed(keys) : k <= last
              /\ listing' =
                   [listing EXCEPT
                      !.after = last,
                      !.more = \E k \in keys : k > last,
                      !.found = [k \in Keys |-> IF k \in page \ Folder THEN @[k] + 1 ELSE @[k]],
                      !.folder = @ \/ page \cap Folder # {}]
        /\ UNCHANGED <<store, calls>>

Listed == listing # None /\ ~listing.more

ListEnd ==
    /\ Listed /\ listing' = None
    /\ UNCHANGED <<store, calls>>

Next ==
    \/ \E k \in Keys, locked \in BOOLEAN : PutBlob(k, locked) \/ Create(k, locked) \/ MultipartBegin(k, locked)
    \/ FailNextPut \/ PutFails
    \/ \E ks \in SUBSET Keys \ {{}} : DeleteBlobs(ks)
    \/ \E s, k \in Keys : CopyBlob(s, k)
    \/ UploadPart \/ MultipartComplete \/ MultipartAbort
    \/ ListBegin \/ ListPage \/ ListEnd

Spec == Init /\ [][Next]_vars

-----------------------------------------------------------------------------
(* What the current version of a key is in the bucket. *)
Newest(k) ==
    IF bucket[k] = <<>> \/ Last(bucket[k]) = Marker THEN None ELSE Last(bucket[k])

(* Every variable keeps its type. *)
TypeOK ==
    /\ objects \in State /\ retained \in State /\ markers \subseteq Keys
    /\ upload \in ActiveMpu \cup {None} /\ failNext \in BOOLEAN /\ calls \in 0..MaxCalls
    /\ bucket \in [Keys -> Seq(Blobs \cup {Marker})]
    /\ first \in [Keys -> 1..MaxCalls \cup {None}]
    /\ listing \in Listing \cup {None}

(* The fake answers an ordinary read, and so a conditional create, as the  *)
(* bucket would: the last write, unless a delete came after it.            *)
ReadsAsBucket == \A k \in Keys : GetBlob(k) = Newest(k)

(* Whatever is written, created over a marker, copied, uploaded or deleted *)
(* after it, the first locked body of a key is the one get_retained_blob   *)
(* finds.                                                                  *)
RetainedForGood ==
    \A k \in Keys : first[k] # None => GetRetainedBlob(k) # None /\ GetRetainedBlob(k).body = first[k]

(* A listing of several pages, with calls and deletes between them, names *)
(* every key that was there all along exactly once, a folder's at least    *)
(* once between them.                                                      *)
ListedOnce ==
    listing # None =>
        /\ \A k \in Keys : listing.found[k] <= 1
        /\ Listed => \A k \in listing.stable :
              IF k \in Folder THEN listing.folder ELSE listing.found[k] = 1

(* The in-memory backend is a bucket to its callers: in what it reads, in  *)
(* what it retains and in what it lists.                                   *)
BucketLike ==
  /\ TypeOK
  /\ ReadsAsBucket
  /\ RetainedForGood
  /\ ListedOnce

=============================================================================
