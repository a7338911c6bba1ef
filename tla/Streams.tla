------------------------------ MODULE Streams ------------------------------
(***************************************************************************)
(* The held connections of one tenant, runtime/src/stream.rs: the guest's  *)
(* standing instructions, each a file on the tenant's pool; the one loop   *)
(* that keeps a supervisor task for each; the supervisors, which dial and  *)
(* dial again; and the status they share with the guest.                   *)
(*                                                                         *)
(* An abort is a request: tokio drops the task at its next await.  A       *)
(* supervisor whose connection has just changed is past its await and can  *)
(* still write its status after it was aborted.                            *)
(*                                                                         *)
(* images is every state of the files a restart may find, as module        *)
(* DurableStore promises; flagImages the same of the tenant's flag in the  *)
(* catalog.  Messages and replies change nothing here and are left out.    *)
(***************************************************************************)
EXTENDS Naturals, FiniteSets

CONSTANTS
  Ids, Origins,
  None,         \* no origin, no record
  PerTenant,    \* PER_TENANT
  MaxOpens,     \* bound: streams opened by one enclave
  MaxRequests,  \* bound: interactive requests served
  MaxStops      \* bound: times the enclave stops

ASSUME StreamsAssumption ==
  /\ None \notin Origins /\ IsFiniteSet(Ids)
  /\ PerTenant \in Nat \ {0}
  /\ \A n \in {MaxOpens, MaxRequests, MaxStops} : n \in Nat

VARIABLES
  records,     \* StreamRegistry::records
  generations, \* StreamRegistry::generations
  live,        \* StreamStatus::connected, FALSE where live has no entry
  changed,     \* the permit of StreamRegistry::changed
  loop,        \* where run is: "collect", "pass" or "wait"
  wanted,      \* what run collected
  kept,        \* the ids in run's map; each has the last supervisor spawned
  spawned,     \* supervisors spawned for each id
  sup,         \* those supervisors
  req,         \* the tenant's interactive request
  file,        \* the published record files
  images, flag, flagImages,
  up, requests, stops,
  promised,    \* what a finished response last vouched for of an id
  cut          \* ids whose close was abandoned before it told run

memory  == <<records, generations, live, changed>>
runner  == <<loop, wanted, kept, spawned, sup>>
pools   == <<file, images, flag, flagImages>>
bounds  == <<requests, stops>>
vars    == <<memory, runner, req, pools, up, bounds, promised, cut>>

(* At most one supervisor for each open, and one for a record found at boot. *)
Spawns   == 1 .. MaxOpens + 1
Record   == [origin : Origins, gen : 0..MaxOpens]
NoRecord == [origin |-> None, gen |-> 0]
NoSup    == [pc |-> "gone"]
NoRequest == [pc |-> "none"]
Unknown  == "unknown"

-----------------------------------------------------------------------------
(* The guest's calls, in an interactive request under the tenant's lock.   *)

InGuest == up /\ req.pc = "guest"

(* publish, or remove_file: on the pool, and not anchored yet. *)
Publish(k, o) ==
  /\ file' = [file EXCEPT ![k] = o]
  /\ images' = images \cup {file'}
  /\ promised' = [promised EXCEPT ![k] = Unknown]

RequestStart ==
  /\ up /\ req.pc = "none" /\ requests < MaxRequests
  /\ req' = [pc |-> "guest", told |-> {}]
  /\ requests' = requests + 1
  /\ UNCHANGED <<memory, runner, pools, up, stops, promised, cut>>

(* mark_background: flag the tenant, then anchor the control pool. *)
MarkBackground ==
  /\ InGuest /\ ~flag
  /\ flag' = TRUE /\ flagImages' = flagImages \cup {TRUE}
  /\ req' = [req EXCEPT !.pc = "marking"]
  /\ UNCHANGED <<memory, runner, file, images, up, bounds, promised, cut>>

MarkEnds ==
  /\ up /\ req.pc = "marking"
  /\ flagImages' = {flag} \/ UNCHANGED flagImages    \* anchored, or it failed
  /\ req' = [req EXCEPT !.pc = "guest"]
  /\ UNCHANGED <<memory, runner, file, images, flag, up, bounds, promised, cut>>

OpenExisting(k) ==
  /\ InGuest /\ flag /\ records[k] # NoRecord
  /\ req' = [req EXCEPT !.told = @ \cup {k}]
  /\ UNCHANGED <<memory, runner, pools, up, bounds, promised, cut>>

MayOpen(k) ==
  /\ InGuest /\ flag /\ records[k] = NoRecord
  /\ Cardinality({j \in Ids : records[j] # NoRecord}) < PerTenant
  /\ generations <= MaxOpens

(* Mutant: the supervisors are told only if one is waiting just then. *)
OpenUnlessBusy(k, o) ==
  /\ MayOpen(k)
  /\ Publish(k, o)
  /\ records' = [records EXCEPT ![k] = [origin |-> o, gen |-> generations]]
  /\ generations' = generations + 1
  /\ changed' = (changed \/ loop = "wait")
  /\ req' = [req EXCEPT !.told = @ \cup {k}]
  /\ UNCHANGED <<live, runner, flag, flagImages, up, bounds, cut>>

Open(k, o) ==
  /\ MayOpen(k)
  /\ Publish(k, o)
  /\ records' = [records EXCEPT ![k] = [origin |-> o, gen |-> generations]]
  /\ generations' = generations + 1
  /\ changed' = TRUE
  /\ req' = [req EXCEPT !.told = @ \cup {k}]
  /\ UNCHANGED <<live, runner, flag, flagImages, up, bounds, cut>>

(* The request is abandoned while the rename runs on the blocking pool. *)
OpenCut(k, o) ==
  /\ MayOpen(k)
  /\ Publish(k, o)
  /\ generations' = generations + 1
  /\ req' = NoRequest
  /\ UNCHANGED <<records, live, changed, runner, flag, flagImages, up, bounds, cut>>

(* Mutant: closing leaves the file. *)
CloseMemory(k) ==
  /\ InGuest /\ records[k] # NoRecord
  /\ records' = [records EXCEPT ![k] = NoRecord]
  /\ req' = [pc |-> "closing", told |-> req.told \cup {k}, id |-> k]
  /\ promised' = [promised EXCEPT ![k] = Unknown]
  /\ UNCHANGED <<generations, live, changed, runner, pools, up, bounds, cut>>

(* close, up to the release of the records: memory first, then the file. *)
Close(k) ==
  /\ InGuest /\ records[k] # NoRecord
  /\ records' = [records EXCEPT ![k] = NoRecord]
  /\ Publish(k, None)
  /\ req' = [pc |-> "closing", told |-> req.told \cup {k}, id |-> k]
  /\ UNCHANGED <<generations, live, changed, runner, flag, flagImages, up, bounds, cut>>

(* It fails, or is abandoned, between the two, or before it tells run. *)
CloseCut(k) ==
  /\ InGuest /\ records[k] # NoRecord
  /\ records' = [records EXCEPT ![k] = NoRecord]
  /\ \/ Publish(k, None)
     \/ promised' = [promised EXCEPT ![k] = Unknown] /\ UNCHANGED <<file, images>>
  /\ cut' = cut \cup {k}
  /\ req' \in {NoRequest, [req EXCEPT !.told = @ \ {k}]}
  /\ UNCHANGED <<generations, live, changed, runner, flag, flagImages, up, bounds>>

(* The rest of close: forget the status, tell run. *)
CloseTells ==
  /\ up /\ req.pc = "closing"
  /\ live' = [live EXCEPT ![req.id] = FALSE]
  /\ changed' = TRUE
  /\ req' = [pc |-> "guest", told |-> req.told]
  /\ UNCHANGED <<records, generations, runner, pools, up, bounds, promised, cut>>

(* close of an id without a record: it forgets the status and tells run.   *)
CloseNothing(k) ==
  /\ InGuest /\ records[k] = NoRecord
  /\ live' = [live EXCEPT ![k] = FALSE]
  /\ changed' = TRUE
  /\ UNCHANGED <<records, generations, runner, req, pools, up, bounds, promised, cut>>

(* anchor_tenant: the tenant's pool, then the control pool. *)
AnchorTenant ==
  /\ InGuest
  /\ images' = {file}
  /\ req' = [req EXCEPT !.pc = "anchored"]
  /\ UNCHANGED <<memory, runner, file, flag, flagImages, up, bounds, promised, cut>>

Origin(k) == records[k].origin

(* The response ends: its client is told. *)
Respond ==
  /\ up /\ req.pc = "anchored"
  /\ flagImages' = {flag}
  /\ promised' = [k \in Ids |-> IF k \in req.told THEN Origin(k) ELSE promised[k]]
  /\ req' = NoRequest
  /\ UNCHANGED <<memory, runner, file, images, flag, up, bounds, cut>>

Abandon ==
  /\ up /\ req.pc # "none"
  /\ req' = NoRequest
  /\ cut' = IF req.pc = "closing" THEN cut \cup {req.id} ELSE cut
  /\ UNCHANGED <<memory, runner, pools, up, bounds, promised>>

-----------------------------------------------------------------------------
(* run: one pass starts, restarts and stops supervisors. *)

Collect ==
  /\ up /\ loop = "collect"
  /\ wanted' = records
  /\ loop' = "pass"
  /\ UNCHANGED <<memory, kept, spawned, sup, req, pools, up, bounds, promised, cut>>

Current(k) == sup[k][spawned[k]]
New(record) == [pc |-> "dial", origin |-> record.origin, gen |-> record.gen, aborted |-> FALSE]

(* r == record: the origin and which open made it. *)
Same(k) == [origin |-> Current(k).origin, gen |-> Current(k).gen] = wanted[k]

Starts == {k \in Ids : wanted[k] # NoRecord /\ ~(k \in kept /\ Same(k))}

Aborts == {k \in kept : wanted[k] = NoRecord \/ k \in Starts}

Pass ==
  /\ up /\ loop = "pass"
  /\ spawned' = [k \in Ids |-> IF k \in Starts THEN spawned[k] + 1 ELSE spawned[k]]
  /\ sup' = [k \in Ids |-> [n \in Spawns |->
       CASE k \in Starts /\ n = spawned'[k] -> New(wanted[k])
         [] k \in Aborts /\ n = spawned[k] /\ sup[k][n] # NoSup
              -> [sup[k][n] EXCEPT !.aborted = TRUE]
         [] OTHER -> sup[k][n]]]
  /\ kept' = {k \in Ids : wanted[k] # NoRecord}
  /\ cut' = cut \cap {k \in Ids : wanted[k] # NoRecord}
  /\ loop' = "wait"
  /\ UNCHANGED <<memory, wanted, req, pools, up, bounds, promised>>

(* Woken by the permit, or by the sleep of 30 seconds. *)
Wake ==
  /\ up /\ loop = "wait" /\ changed
  /\ changed' = FALSE
  /\ loop' = "collect"
  /\ UNCHANGED <<records, generations, live, wanted, kept, spawned, sup, req, pools, up,
                 bounds, promised, cut>>

Timer ==
  /\ up /\ loop = "wait"
  /\ loop' = "collect"
  /\ UNCHANGED <<memory, wanted, kept, spawned, sup, req, pools, up, bounds, promised, cut>>

-----------------------------------------------------------------------------
(* supervise and connect_once, of supervisor n of id k. *)

At(k, n, pc) == up /\ sup[k][n].pc = pc
Moves(k, n, pc) == sup' = [sup EXCEPT ![k][n].pc = pc]

(* The dial is answered or fails, a held connection ends, a backoff is     *)
(* over: each ends a wait, and an abort that came before it wins.          *)
Waits(k, n) ==
  /\ up /\ sup[k][n] # NoSup /\ ~sup[k][n].aborted
  /\ \/ sup[k][n].pc = "dial" /\ \E to \in {"noteUp", "noteDown"} : Moves(k, n, to)
     \/ sup[k][n].pc = "held" /\ Moves(k, n, "noteDown")
     \/ sup[k][n].pc = "backoff" /\ Moves(k, n, "dial")
  /\ UNCHANGED <<memory, loop, wanted, kept, spawned, req, pools, up, bounds, promised, cut>>

(* note. *)
NoteUp(k, n) ==
  /\ At(k, n, "noteUp")
  /\ live' = [live EXCEPT ![k] = TRUE]
  /\ Moves(k, n, "held")
  /\ UNCHANGED <<records, generations, changed, loop, wanted, kept, spawned, req, pools, up,
                 bounds, promised, cut>>

(* Mutant: the status outlives the connection. *)
NoteDownKeeps(k, n) ==
  /\ At(k, n, "noteDown")
  /\ Moves(k, n, "backoff")
  /\ UNCHANGED <<memory, loop, wanted, kept, spawned, req, pools, up, bounds, promised, cut>>

NoteDown(k, n) ==
  /\ At(k, n, "noteDown")
  /\ live' = [live EXCEPT ![k] = FALSE]
  /\ Moves(k, n, "backoff")
  /\ UNCHANGED <<records, generations, changed, loop, wanted, kept, spawned, req, pools, up,
                 bounds, promised, cut>>

(* tokio drops an aborted supervisor at an await, its connection with it. *)
Dropped(k, n) ==
  /\ up /\ sup[k][n] # NoSup /\ sup[k][n].aborted
  /\ sup' = [sup EXCEPT ![k][n] = NoSup]
  /\ UNCHANGED <<memory, loop, wanted, kept, spawned, req, pools, up, bounds, promised, cut>>

-----------------------------------------------------------------------------
(* Stopping and starting again. *)

Nothing == [k \in Ids |-> None]
NoSups  == [k \in Ids |-> [n \in Spawns |-> NoSup]]

Volatile ==
  /\ records' = [k \in Ids |-> NoRecord]
  /\ generations' = 1 /\ live' = [k \in Ids |-> FALSE] /\ changed' = FALSE
  /\ loop' = "collect" /\ wanted' = [k \in Ids |-> NoRecord]
  /\ kept' = {} /\ spawned' = [k \in Ids |-> 0] /\ sup' = NoSups
  /\ req' = NoRequest /\ cut' = {}

Die ==
  /\ up /\ stops < MaxStops
  /\ up' = FALSE /\ stops' = stops + 1
  /\ Volatile
  /\ UNCHANGED <<pools, requests, promised>>

(* open_registry: the records on the pool, if the catalog flags it. *)
Restart ==
  /\ ~up
  /\ \E found \in images, flagged \in flagImages :
       /\ file' = found /\ images' = {found}
       /\ flag' = flagged /\ flagImages' = {flagged}
       /\ records' = [k \in Ids |->
            IF flagged /\ found[k] # None THEN [origin |-> found[k], gen |-> 0] ELSE NoRecord]
  /\ up' = TRUE
  /\ UNCHANGED <<generations, live, changed, runner, req, bounds, promised, cut>>

Init ==
  /\ records = [k \in Ids |-> NoRecord]
  /\ generations = 1 /\ live = [k \in Ids |-> FALSE] /\ changed = FALSE
  /\ loop = "collect" /\ wanted = [k \in Ids |-> NoRecord]
  /\ kept = {} /\ spawned = [k \in Ids |-> 0] /\ sup = NoSups
  /\ req = NoRequest
  /\ file = Nothing /\ images = {Nothing} /\ flag = FALSE /\ flagImages = {FALSE}
  /\ up = TRUE /\ requests = 0 /\ stops = 0
  /\ promised = [k \in Ids |-> Unknown] /\ cut = {}

Calls ==
  \/ RequestStart \/ MarkBackground \/ MarkEnds
  \/ \E k \in Ids :
       \/ OpenExisting(k) \/ \E o \in Origins : Open(k, o) \/ OpenCut(k, o)
       \/ Close(k) \/ CloseCut(k) \/ CloseNothing(k)
  \/ CloseTells \/ AnchorTenant \/ Respond \/ Abandon

Run == Collect \/ Pass \/ Wake \/ Timer
Supervise(k, n) == Waits(k, n) \/ NoteUp(k, n) \/ NoteDown(k, n) \/ Dropped(k, n)

Next ==
  \/ Calls \/ Run \/ Die \/ Restart
  \/ \E k \in Ids, n \in Spawns : Supervise(k, n)

Spec == Init /\ [][Next]_vars

(***************************************************************************)
(* Fairness.  run and the supervisors are tasks of their own, which tokio  *)
(* goes on polling; a backoff has an end, and a dial is taken to have one  *)
(* (its lookup and its connect are timed, its handshake ends with the      *)
(* peer); a held connection may stay for ever.  The interactive calls need *)
(* no fairness: a request that stands still keeps nothing from run.        *)
(***************************************************************************)
Awake(k, n) == sup[k][n].pc # "held" /\ Waits(k, n)
Fairness ==
  /\ WF_vars(Collect \/ Pass) /\ WF_vars(Wake \/ Timer)
  /\ \A k \in Ids, n \in Spawns :
       /\ WF_vars(NoteUp(k, n)) /\ WF_vars(NoteDown(k, n)) /\ WF_vars(Dropped(k, n))
       /\ WF_vars(Awake(k, n))

LiveSpec == Spec /\ Fairness

-----------------------------------------------------------------------------
SupRecord ==
  [pc : {"dial", "noteUp", "held", "noteDown", "backoff"}, origin : Origins,
   gen : 0..MaxOpens, aborted : BOOLEAN]
Requests ==
  {NoRequest} \cup [pc : {"guest", "marking", "anchored"}, told : SUBSET Ids]
              \cup [pc : {"closing"}, told : SUBSET Ids, id : Ids]
Files == [Ids -> Origins \cup {None}]

(* Every variable keeps its type, and no more supervisors are spawned than *)
(* there are records to spawn one for.                                     *)
MemoryOK ==
  /\ records \in [Ids -> Record \cup {NoRecord}]
  /\ generations \in 1 .. MaxOpens + 1
  /\ live \in [Ids -> BOOLEAN] /\ changed \in BOOLEAN
RunnerOK ==
  /\ loop \in {"collect", "pass", "wait"}
  /\ wanted \in [Ids -> Record \cup {NoRecord}]
  /\ kept \subseteq Ids /\ spawned \in [Ids -> Spawns \cup {0}]
  /\ sup \in [Ids -> [Spawns -> {NoSup} \cup SupRecord]]
PoolsOK ==
  /\ file \in Files /\ images \in SUBSET Files /\ file \in images
  /\ flag \in BOOLEAN /\ flagImages \in SUBSET BOOLEAN /\ flag \in flagImages
TypeOK ==
  /\ MemoryOK /\ RunnerOK /\ PoolsOK
  /\ req \in Requests
  /\ promised \in [Ids -> Origins \cup {None, Unknown}]

(* Two connections are never kept for one id: of its supervisors all but   *)
(* one are aborted, whatever is closed and opened again between two        *)
(* passes, and the one in run's map is not.                                *)
Kept(k) == {n \in Spawns : sup[k][n] # NoSup /\ ~sup[k][n].aborted}
OneConnection ==
  \A k \in Ids : Cardinality(Kept(k)) <= 1 /\ (k \in kept => spawned[k] \in Kept(k))

(* No wakeup is lost: when run waits and nothing is there to wake it, the  *)
(* supervisors are those of the records as they are now, of the same open, *)
(* except for a close that was abandoned before it told run.               *)
Follows(k) ==
  IF records[k] = NoRecord THEN k \notin kept \/ k \in cut
  ELSE k \in kept /\ Current(k).origin = Origin(k) /\ Current(k).gen = records[k].gen
NoLostWakeup ==
  up /\ loop = "wait" /\ ~changed =>
    \A k \in Ids : Follows(k) \/ (req.pc = "closing" /\ req.id = k)

(* What a response said of a stream holds: one it opened is there, and one *)
(* it closed is not, in this enclave and after any restart, until a later  *)
(* call changes it.                                                        *)
PromiseHolds ==
  up => \A k \in Ids : promised[k] # Unknown => Origin(k) = promised[k]

(* A standing instruction gets its connection: a record that stays is      *)
(* adopted by a supervisor of its own, at boot too, and one that is gone   *)
(* is dropped.                                                             *)
Adopted == \A k \in Ids : <>[]up => []<>(Follows(k))

(* A connection that is gone is not reported for ever: a "connected" left  *)
(* behind by an aborted supervisor, or by a connection that ended, comes   *)
(* to be corrected while the record stands.                                *)
Truthful(k) ==
  records[k] # NoRecord /\ live[k] => Follows(k) /\ Current(k).pc = "held"
StatusSettles ==
  \A k \in Ids : <>[]up => []<>(Truthful(k))

(* Every record has its connection: never two at once, and no change of    *)
(* the records that the loop would sleep over (run, supervise, open,       *)
(* close).                                                                 *)
SupervisedOnce ==
  /\ TypeOK
  /\ OneConnection
  /\ NoLostWakeup

=============================================================================
