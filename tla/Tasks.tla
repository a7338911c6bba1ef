------------------------------- MODULE Tasks -------------------------------
(***************************************************************************)
(* The background task queue of runtime/src/tasks.rs, driven as the server *)
(* drives it: interactive requests enqueue, cancel and forget tasks under  *)
(* their tenant's lock, a bounded set of workers runs what is due, and the *)
(* enclave may stop at any moment.                                         *)
(*                                                                         *)
(* A record is a file on the tenant's pool.  disk is what the files say,   *)
(* images is every state of them that a restart may find: the one the      *)
(* last anchor vouches for and every later one (the promise of module      *)
(* DurableStore).  The catalog of tenants the boot scan visits is on the   *)
(* control pool and has its own images.                                    *)
(*                                                                         *)
(* Time is one bit: an entry of `due' is ripe once its deadline is past.   *)
(* Payloads, results and error texts are left out, except that the input a *)
(* task was enqueued with says whether it recurs.                          *)
(***************************************************************************)
EXTENDS Integers, FiniteSets

CONSTANTS
  Tenants,       \* tenant ids, as numbers: the scheduler compares them
  Ids,           \* task ids
  Inputs,        \* the inputs of enqueue: a subset of {"once", "every"}
  Workers,       \* as many as limits.concurrency
  MaxAttempts,   \* MAX_ATTEMPTS
  MaxRecords,    \* limits.max_records
  PerTenant,     \* limits.per_tenant
  MaxGens,       \* bound: task generations drawn
  MaxOccurrence, \* bound: occurrences of a recurring task
  MaxRequests,   \* bound: interactive requests served
  MaxStops       \* bound: times the enclave stops

ASSUME TasksAssumption ==
  /\ Tenants \subseteq Nat \ {0} /\ IsFiniteSet(Tenants)
  /\ IsFiniteSet(Ids)
  /\ Inputs \subseteq {"once", "every"}
  /\ \A n \in {MaxAttempts, MaxRecords, PerTenant} : n \in Nat \ {0}
  /\ \A n \in {MaxGens, MaxOccurrence, MaxRequests, MaxStops} : n \in Nat

VARIABLES
  tasks,      \* Records::tasks, per tenant and id
  due,        \* Records::due: <<ripe, tenant, id>>
  active,     \* Records::active: <<tenant, id>>
  lastTenant, \* Records::last_tenant; 0 when none
  disk,       \* the published record files of each tenant
  images,     \* the record files a restart may find, per tenant
  catalog,    \* the tenants flagged as having background work
  catImages,  \* the flags a restart may find
  lock,       \* the lock of each tenant
  req,        \* the interactive request of each tenant
  worker,     \* what each worker is doing
  up,         \* "up" or "down"
  gens, requests, stops,       \* what the bounds count
  runs,       \* how often the guest was called for a run id
  done,       \* run ids whose success was anchored
  ended,      \* tasks that have reached a terminal status
  ackEnqueue, \* tasks whose enqueue a finished response vouched for
  ackCancel   \* tasks whose cancellation a finished response vouched for

records == <<tasks, due, active, lastTenant>>
pools   == <<disk, images, catalog, catImages>>
ghosts  == <<runs, done, ended, ackEnqueue, ackCancel>>
bounds  == <<gens, requests, stops>>
vars    == <<records, pools, lock, req, worker, up, bounds, ghosts>>

Keys   == Tenants \X Ids
Gens   == 1..MaxGens
Status == {"pending", "running", "completed", "failed", "cancelled"}
Task   == [gen : Gens, input : Inputs, status : Status,
           attempts : 0..MaxAttempts, occurrence : 0..MaxOccurrence]
NoTask == [status |-> "none"]
Named  == Keys \X Gens                    \* a task, told apart by generation
RunIds == Named \X (0..MaxOccurrence)     \* Task::run_id

terminal(task) == task.status \in {"completed", "failed", "cancelled"}
Named_(t, i, task) == <<<<t, i>>, task.gen>>

-----------------------------------------------------------------------------
(* The files, the memory and the locks. *)

Put(f, t, i, task) == [f EXCEPT ![t][i] = task]

(* write: the record is published by a rename; nothing anchors it yet. *)
write(t, i, task) ==
  /\ disk' = Put(disk, t, i, task)
  /\ images' = [images EXCEPT ![t] = @ \cup {disk'[t]}]

(* anchor_tenant anchors the tenant's pool and then the control pool. *)
AnchorTenantPool(t) ==
  /\ images' = [images EXCEPT ![t] = {disk[t]}]
  /\ UNCHANGED <<disk, catalog, catImages>>
AnchorControlPool ==
  /\ catImages' = {catalog}
  /\ UNCHANGED <<disk, images, catalog>>

(* finish holds the records' lock from its write to its last insert. *)
RecordsFree == \A w \in Workers : worker[w].pc \notin {"written", "sealed", "anchored"}

Idle      == [pc |-> "idle"]
NoRequest == [pc |-> "none"]
Step(w, pc) == worker' = [worker EXCEPT ![w].pc = pc]
(* run_background returns: its lock guard is dropped before finish. *)
Returns(w, outcome) ==
  /\ worker' = [worker EXCEPT ![w] = [@ EXCEPT !.pc = "ran", !.outcome = outcome]]
  /\ lock' = [lock EXCEPT ![worker[w].t] = "free"]

Known(file) == Cardinality({k \in Keys : file[k[1]][k[2]] # NoTask})
End(t, i, task) ==
  ended' = IF terminal(task) THEN ended \cup {Named_(t, i, task)} ELSE ended

-----------------------------------------------------------------------------
(* Interactive requests.  in_tenant holds the tenant's lock through the    *)
(* guest's call and the anchor; an abort at any await drops the call.      *)

InGuest(t) == up = "up" /\ req[t].pc = "guest"
Tell(t, what, named) == req' = [req EXCEPT ![t][what] = @ \cup {named}]
Gone(t) ==
  /\ req' = [req EXCEPT ![t] = NoRequest]
  /\ lock' = [lock EXCEPT ![t] = "free"]

RequestStart(t) ==
  /\ up = "up" /\ lock[t] = "free" /\ requests < MaxRequests
  /\ lock' = [lock EXCEPT ![t] = "request"]
  /\ req' = [req EXCEPT ![t] = [pc |-> "guest", enqueued |-> {}, cancelled |-> {}]]
  /\ requests' = requests + 1
  /\ UNCHANGED <<records, pools, worker, up, gens, stops, ghosts>>

(* mark_background: flag the tenant, then anchor the control pool. *)
MarkBackground(t) ==
  /\ InGuest(t) /\ t \notin catalog
  /\ catalog' = catalog \cup {t}
  /\ catImages' = catImages \cup {catalog'}
  /\ req' = [req EXCEPT ![t].pc = "marking"]
  /\ UNCHANGED <<records, disk, images, lock, worker, up, bounds, ghosts>>

MarkAnchored(t) ==
  /\ up = "up" /\ req[t].pc = "marking"
  /\ AnchorControlPool
  /\ req' = [req EXCEPT ![t].pc = "guest"]
  /\ UNCHANGED <<records, lock, worker, up, bounds, ghosts>>

(* The anchor fails: enqueue returns an error and the guest goes on. *)
MarkFails(t) ==
  /\ up = "up" /\ req[t].pc = "marking"
  /\ req' = [req EXCEPT ![t].pc = "guest"]
  /\ UNCHANGED <<records, pools, lock, worker, up, bounds, ghosts>>

EnqueueExisting(t, i, input) ==
  /\ InGuest(t) /\ t \in catalog /\ RecordsFree
  /\ tasks[t][i] # NoTask /\ tasks[t][i].input = input
  /\ Tell(t, "enqueued", Named_(t, i, tasks[t][i]))
  /\ UNCHANGED <<records, pools, lock, worker, up, bounds, ghosts>>

Fresh(input) == [gen |-> gens + 1, input |-> input, status |-> "pending",
                 attempts |-> 0, occurrence |-> 0]

(* The part of enqueue that may be refused: the quotas. *)
MayEnqueue(t, i) ==
  /\ InGuest(t) /\ t \in catalog /\ RecordsFree
  /\ tasks[t][i] = NoTask /\ gens < MaxGens
  /\ Known(tasks) < MaxRecords
  /\ Cardinality({j \in Ids : tasks[t][j] # NoTask}) < PerTenant

Enqueue(t, i, input) ==
  /\ MayEnqueue(t, i)
  /\ write(t, i, Fresh(input))
  /\ tasks' = Put(tasks, t, i, Fresh(input))
  /\ \E ripe \in BOOLEAN : due' = due \cup {<<ripe, t, i>>}
  /\ gens' = gens + 1
  /\ Tell(t, "enqueued", Named_(t, i, Fresh(input)))
  /\ UNCHANGED <<active, lastTenant, catalog, catImages, lock, worker, up,
                 requests, stops, ghosts>>

Cancelled(t, i) == [tasks[t][i] EXCEPT !.status = "cancelled"]

Cancel(t, i) ==
  /\ InGuest(t) /\ RecordsFree /\ tasks[t][i] # NoTask
  /\ write(t, i, Cancelled(t, i))
  /\ tasks' = Put(tasks, t, i, Cancelled(t, i))
  /\ due' = {d \in due : <<d[2], d[3]>> # <<t, i>>}
  /\ Tell(t, "cancelled", Named_(t, i, tasks[t][i]))
  /\ End(t, i, Cancelled(t, i))
  /\ UNCHANGED <<active, lastTenant, catalog, catImages, lock, worker, up, bounds,
                 runs, done, ackEnqueue, ackCancel>>

MayForget(t, i) ==
  /\ InGuest(t) /\ RecordsFree
  /\ <<t, i>> \notin active
  /\ terminal(tasks[t][i])
  /\ disk[t][i] # NoTask                     \* remove_file fails otherwise

Forget(t, i) ==
  /\ MayForget(t, i)
  /\ write(t, i, NoTask)
  /\ tasks' = Put(tasks, t, i, NoTask)
  /\ UNCHANGED <<due, active, lastTenant, catalog, catImages, lock, req, worker, up,
                 bounds, ghosts>>

(* The request is abandoned while a call's file operation runs on the      *)
(* blocking pool: the file changes and the memory does not.                *)
CutShort(t) ==
  /\ \E i \in Ids :
       \/ \E input \in Inputs :
            /\ MayEnqueue(t, i)
            /\ write(t, i, Fresh(input)) /\ gens' = gens + 1
       \/ /\ InGuest(t) /\ RecordsFree /\ tasks[t][i] # NoTask
          /\ write(t, i, Cancelled(t, i)) /\ UNCHANGED gens
       \/ /\ MayForget(t, i)
          /\ write(t, i, NoTask) /\ UNCHANGED gens
  /\ Gone(t)
  /\ UNCHANGED <<records, catalog, catImages, worker, up, requests, stops, ghosts>>

GuestAnswers(t) ==
  /\ InGuest(t)
  /\ req' = [req EXCEPT ![t].pc = "anchoring"]
  /\ UNCHANGED <<records, pools, lock, worker, up, bounds, ghosts>>

RequestAnchors(t) ==
  /\ up = "up" /\ req[t].pc = "anchoring"
  /\ AnchorTenantPool(t)
  /\ req' = [req EXCEPT ![t].pc = "anchored"]
  /\ UNCHANGED <<records, lock, worker, up, bounds, ghosts>>

(* Only now may the response end: its client is told. *)
Respond(t) ==
  /\ up = "up" /\ req[t].pc = "anchored"
  /\ AnchorControlPool
  /\ ackEnqueue' = ackEnqueue \cup req[t].enqueued
  /\ ackCancel' = ackCancel \cup req[t].cancelled
  /\ Gone(t)
  /\ UNCHANGED <<records, worker, up, bounds, runs, done, ended>>

(* The call traps, times out or cannot be anchored: no clean response. *)
Abandon(t) ==
  /\ up = "up" /\ req[t].pc # "none"
  /\ Gone(t)
  /\ UNCHANGED <<records, pools, worker, up, bounds, ghosts>>

-----------------------------------------------------------------------------
(* The scheduler and its workers. *)

(* The deadline of a task passes. *)
Ripen(t, i) ==
  /\ up = "up" /\ <<FALSE, t, i>> \in due
  /\ due' = (due \ {<<FALSE, t, i>>}) \cup {<<TRUE, t, i>>}
  /\ UNCHANGED <<tasks, active, lastTenant, pools, lock, req, worker, up, bounds, ghosts>>

Ready == {t \in Tenants : \E i \in Ids : <<TRUE, t, i>> \in due /\ tasks[t][i] # NoTask}

(* Mutant: the lowest tenant first, whoever was served last. *)
LowestFirst(s, t) == s < t

(* min_by_key: tenants after the last one served come first, in order. *)
Before(s, t) == IF (s <= lastTenant) = (t <= lastTenant) THEN s < t ELSE t <= lastTenant
Turn(t) == t \in Ready /\ \A s \in Ready \ {t} : Before(t, s)

(* due, called by run for a worker of its set. *)
TakeDue(w, t, i) ==
  /\ up = "up" /\ RecordsFree /\ worker[w].pc = "idle"
  /\ Turn(t) /\ <<TRUE, t, i>> \in due /\ tasks[t][i] # NoTask
  /\ due' = due \ {<<TRUE, t, i>>}
  /\ lastTenant' = t
  /\ active' = active \cup {<<t, i>>}
  /\ worker' = [worker EXCEPT ![w] =
       [pc |-> "taken", t |-> t, i |-> i, outcome |-> "none",
        run |-> <<Named_(t, i, tasks[t][i]), tasks[t][i].occurrence>>]]
  /\ UNCHANGED <<tasks, pools, lock, req, up, bounds, ghosts>>

At(w, pc) == up = "up" /\ worker[w].pc = pc
Mine(w) == tasks[worker[w].t][worker[w].i]

(* run_background: the lock is tried, never waited for. *)
TryLock(w) ==
  /\ At(w, "taken")
  /\ IF lock[worker[w].t] = "free"
     THEN /\ lock' = [lock EXCEPT ![worker[w].t] = "task"]
          /\ Step(w, "locked")
     ELSE /\ Step(w, "ran")                      \* Ok(None)
          /\ UNCHANGED lock
  /\ UNCHANGED <<records, pools, req, up, bounds, ghosts>>

(* begin finds the task no longer pending. *)
BeginRefused(w) ==
  /\ At(w, "locked") /\ RecordsFree /\ Mine(w).status # "pending"
  /\ Returns(w, "ok")
  /\ UNCHANGED <<records, pools, req, up, bounds, ghosts>>

Intent(w) == [Mine(w) EXCEPT !.status = "running", !.attempts = @ + 1]

(* Mutant: begin does not look at the status. *)
BeginAnyway(w) ==
  /\ At(w, "locked") /\ RecordsFree
  /\ LET t == worker[w].t  i == worker[w].i IN
       /\ write(t, i, Intent(w))
       /\ tasks' = Put(tasks, t, i, Intent(w))
  /\ Step(w, "begun")
  /\ UNCHANGED <<due, active, lastTenant, catalog, catImages, lock, req, up, bounds, ghosts>>

Begin(w) ==
  /\ At(w, "locked") /\ RecordsFree /\ Mine(w).status = "pending"
  /\ LET t == worker[w].t  i == worker[w].i IN
       /\ write(t, i, Intent(w))
       /\ tasks' = Put(tasks, t, i, Intent(w))
  /\ Step(w, "begun")
  /\ UNCHANGED <<due, active, lastTenant, catalog, catImages, lock, req, up, bounds, ghosts>>

(* Mutant: the attempt is not anchored before the guest is called. *)
BeginUnanchored(w) ==
  /\ At(w, "begun")
  /\ Step(w, "intent")
  /\ UNCHANGED <<records, pools, lock, req, up, bounds, ghosts>>

BeginAnchors(w) ==
  /\ At(w, "begun")
  /\ AnchorTenantPool(worker[w].t)
  /\ Step(w, "intent")
  /\ UNCHANGED <<records, lock, req, up, bounds, ghosts>>

(* The intent is anchored and the guest is called with the run id. *)
CallGuest(w) ==
  /\ At(w, "intent")
  /\ AnchorControlPool
  /\ Step(w, "running")
  /\ runs' = [runs EXCEPT ![worker[w].run] = @ + 1]
  /\ UNCHANGED <<records, lock, req, up, bounds, done, ended, ackEnqueue, ackCancel>>

(* An error of begin's anchor is the outcome of the run. *)
BeginFails(w) ==
  /\ up = "up" /\ worker[w].pc \in {"begun", "intent"}
  /\ Returns(w, "err")
  /\ UNCHANGED <<records, pools, req, up, bounds, ghosts>>

(* So is an error of its write, which leaves the task pending.  It will    *)
(* stop the scheduler, so MaxStops counts it.                              *)
BeginUnwritten(w) ==
  /\ At(w, "locked") /\ RecordsFree /\ Mine(w).status = "pending"
  /\ stops < MaxStops /\ stops' = stops + 1
  /\ Returns(w, "err")
  /\ UNCHANGED <<records, pools, req, up, gens, requests, ghosts>>

(* The guest answers, traps or meets its deadline. *)
GuestReturns(w) ==
  /\ At(w, "running")
  /\ \E outcome \in {"ok", "err"} : Returns(w, outcome)
  /\ UNCHANGED <<records, pools, req, up, bounds, ghosts>>

Leaves(w) == active' = active \ {<<worker[w].t, worker[w].i>>}

(* Mutant: a busy tenant's task is not put back. *)
FinishBusyLost(w) ==
  /\ At(w, "ran") /\ RecordsFree
  /\ Mine(w).status = "cancelled" \/ worker[w].outcome = "none"
  /\ Leaves(w)
  /\ worker' = [worker EXCEPT ![w] = Idle]
  /\ UNCHANGED <<tasks, due, lastTenant, pools, lock, req, up, bounds, ghosts>>

(* finish, where there is nothing to record: cancelled, or a busy tenant. *)
FinishUnrecorded(w) ==
  /\ At(w, "ran") /\ RecordsFree
  /\ \/ Mine(w).status = "cancelled" /\ UNCHANGED due
     \/ /\ Mine(w).status # "cancelled" /\ worker[w].outcome = "none"
        /\ due' = due \cup {<<FALSE, worker[w].t, worker[w].i>>}
  /\ Leaves(w)
  /\ worker' = [worker EXCEPT ![w] = Idle]
  /\ UNCHANGED <<tasks, lastTenant, pools, lock, req, up, bounds, ghosts>>

Outcome(w) ==
  LET task == Mine(w) IN
  IF worker[w].outcome = "ok"
  THEN IF task.input = "every"
       THEN [task EXCEPT !.status = "pending", !.attempts = 0, !.occurrence = @ + 1]
       ELSE [task EXCEPT !.status = "completed"]
  ELSE [task EXCEPT !.status = IF task.attempts >= MaxAttempts THEN "failed" ELSE "pending"]

Finish(w) ==
  /\ At(w, "ran") /\ RecordsFree
  /\ worker[w].outcome # "none" /\ Mine(w).status = "running"
  /\ worker[w].outcome = "ok" /\ Mine(w).input = "every" => Mine(w).occurrence < MaxOccurrence
  /\ write(worker[w].t, worker[w].i, Outcome(w))
  /\ Leaves(w)
  /\ Step(w, "written")
  /\ UNCHANGED <<tasks, due, lastTenant, catalog, catImages, lock, req, up, bounds, ghosts>>

FinishAnchors(w) ==
  /\ At(w, "written")
  /\ AnchorTenantPool(worker[w].t)
  /\ Step(w, "sealed")
  /\ UNCHANGED <<records, lock, req, up, bounds, ghosts>>

FinishAnchorsControl(w) ==
  /\ At(w, "sealed")
  /\ AnchorControlPool
  /\ Step(w, "anchored")
  /\ done' = IF worker[w].outcome = "ok" THEN done \cup {worker[w].run} ELSE done
  /\ UNCHANGED <<records, lock, req, up, bounds, runs, ended, ackEnqueue, ackCancel>>

FinishRecords(w) ==
  /\ At(w, "anchored")
  /\ LET t == worker[w].t  i == worker[w].i  task == Outcome(w) IN
       /\ tasks' = Put(tasks, t, i, task)
       /\ due' = IF task.status = "pending" THEN due \cup {<<FALSE, t, i>>} ELSE due
       /\ End(t, i, task)
  /\ worker' = [worker EXCEPT ![w] = Idle]
  /\ UNCHANGED <<active, lastTenant, pools, lock, req, up, bounds,
                 runs, done, ackEnqueue, ackCancel>>

-----------------------------------------------------------------------------
(* Stopping and starting again. *)

Nothing == [t \in Tenants |-> [i \in Ids |-> NoTask]]

Volatile ==
  /\ tasks' = Nothing
  /\ due' = {} /\ active' = {} /\ lastTenant' = 0
  /\ lock' = [t \in Tenants |-> "free"]
  /\ req' = [t \in Tenants |-> NoRequest]
  /\ worker' = [w \in Workers |-> Idle]

(* The enclave dies, or an anchor of finish fails and serving ends. *)
Die ==
  /\ up = "up" /\ stops < MaxStops
  /\ up' = "down" /\ stops' = stops + 1
  /\ Volatile
  /\ UNCHANGED <<pools, gens, requests, ghosts>>

(* finish refuses a run whose intent was never recorded, and run returns   *)
(* its error: "task could not persist its execution intent".               *)
SchedulerStops(w) ==
  /\ At(w, "ran") /\ RecordsFree
  /\ worker[w].outcome # "none" /\ Mine(w).status \notin {"running", "cancelled"}
  /\ up' = "down"
  /\ Volatile
  /\ UNCHANGED <<pools, bounds, ghosts>>

(* open: an attempt the stop interrupted is failed or given back. *)
Recovered(task) ==
  IF task.status = "running"
  THEN [task EXCEPT !.status = IF task.attempts >= MaxAttempts THEN "failed" ELSE "pending"]
  ELSE task

Found(flags, found) == [t \in Tenants |-> IF t \in flags THEN found[t] ELSE Nothing[t]]

Images == {f \in [Tenants -> UNION {images[t] : t \in Tenants}] :
             \A t \in Tenants : f[t] \in images[t]}

(* open refuses a store with more records than the quota: the enclave      *)
(* stays down, and the host may try again.                                 *)
Refused(flags, found) == Known(Found(flags, found)) > MaxRecords

Restart ==
  /\ up = "down"
  /\ \E flags \in catImages, found \in Images :
       LET loaded == [t \in Tenants |->
                        [i \in Ids |-> Recovered(Found(flags, found)[t][i])]]
       IN /\ ~Refused(flags, found)
          /\ catalog' = flags /\ catImages' = {flags}
          /\ disk' = [t \in Tenants |-> IF t \in flags THEN loaded[t] ELSE found[t]]
          /\ images' = [t \in Tenants |->
               {[i \in Ids |-> IF i \in rewritten THEN disk'[t][i] ELSE found[t][i]]
                  : rewritten \in SUBSET Ids}]
          /\ tasks' = loaded
          /\ due' = {<<FALSE, k[1], k[2]>> : k \in
                       {k \in Keys : loaded[k[1]][k[2]].status = "pending"}}
          /\ ended' = ended \cup
               {Named_(k[1], k[2], loaded[k[1]][k[2]]) : k \in
                  {k \in Keys : terminal(loaded[k[1]][k[2]])}}
  /\ up' = "up"
  /\ UNCHANGED <<active, lastTenant, lock, req, worker, bounds, runs, done,
                 ackEnqueue, ackCancel>>

Init ==
  /\ tasks = Nothing /\ due = {} /\ active = {} /\ lastTenant = 0
  /\ disk = Nothing /\ images = [t \in Tenants |-> {Nothing[t]}]
  /\ catalog = {} /\ catImages = {{}}
  /\ lock = [t \in Tenants |-> "free"]
  /\ req = [t \in Tenants |-> NoRequest]
  /\ worker = [w \in Workers |-> Idle]
  /\ up = "up" /\ gens = 0 /\ requests = 0 /\ stops = 0
  /\ runs = [r \in RunIds |-> 0]
  /\ done = {} /\ ended = {} /\ ackEnqueue = {} /\ ackCancel = {}

RequestStep(t) ==
  \/ RequestStart(t) \/ MarkBackground(t) \/ MarkAnchored(t) \/ MarkFails(t)
  \/ \E i \in Ids :
       \/ \E input \in Inputs : EnqueueExisting(t, i, input) \/ Enqueue(t, i, input)
       \/ Cancel(t, i) \/ Forget(t, i)
  \/ CutShort(t)
  \/ GuestAnswers(t) \/ RequestAnchors(t) \/ Respond(t) \/ Abandon(t)

WorkerStep(w) ==
  \/ \E t \in Tenants, i \in Ids : TakeDue(w, t, i)
  \/ TryLock(w) \/ BeginRefused(w) \/ Begin(w) \/ BeginAnchors(w) \/ CallGuest(w)
  \/ BeginFails(w) \/ BeginUnwritten(w) \/ GuestReturns(w)
  \/ FinishUnrecorded(w) \/ Finish(w) \/ FinishAnchors(w) \/ FinishAnchorsControl(w)
  \/ FinishRecords(w) \/ SchedulerStops(w)

Next ==
  \/ \E t \in Tenants : RequestStep(t)
  \/ \E t \in Tenants, i \in Ids : Ripen(t, i)
  \/ \E w \in Workers : WorkerStep(w)
  \/ Die \/ Restart

Spec == Init /\ [][Next]_vars

(***************************************************************************)
(* Fairness.  Tokio runs every ready future; TASK_TIMEOUT and the request  *)
(* timeouts end every guest call; the clock passes every deadline; the     *)
(* host starts a stopped enclave again.  A try_lock has no such promise,   *)
(* and needs none: TryLock is taken whichever way it goes.                 *)
(***************************************************************************)
Fairness ==
  /\ \A w \in Workers : WF_vars(WorkerStep(w))
  /\ \A t \in Tenants, i \in Ids : WF_vars(Ripen(t, i))
  /\ \A t \in Tenants :
       WF_vars(MarkAnchored(t) \/ MarkFails(t) \/ GuestAnswers(t)
               \/ RequestAnchors(t) \/ Respond(t))
  /\ WF_vars(Restart)

LiveSpec == Spec /\ Fairness

-----------------------------------------------------------------------------
(* Every variable keeps its type. *)
Pcs == {"taken", "locked", "begun", "intent", "running", "ran", "written", "sealed",
        "anchored"}
TypeOK ==
  /\ tasks \in [Tenants -> [Ids -> Task \cup {NoTask}]]
  /\ disk \in [Tenants -> [Ids -> Task \cup {NoTask}]]
  /\ \A t \in Tenants : images[t] \subseteq [Ids -> Task \cup {NoTask}] /\ disk[t] \in images[t]
  /\ due \subseteq BOOLEAN \X Tenants \X Ids
  /\ active \subseteq Keys
  /\ lastTenant \in Tenants \cup {0}
  /\ catalog \subseteq Tenants /\ catImages \subseteq SUBSET Tenants /\ catalog \in catImages
  /\ lock \in [Tenants -> {"free", "request", "task"}]
  /\ \A w \in Workers :
       \/ worker[w] = Idle
       \/ worker[w] \in [pc : Pcs, t : Tenants, i : Ids, run : RunIds,
                         outcome : {"none", "ok", "err"}]
  /\ \A t \in Tenants :
       \/ req[t] = NoRequest
       \/ req[t] \in [pc : {"guest", "marking", "anchoring", "anchored"},
                      enqueued : SUBSET Named, cancelled : SUBSET Named]
  /\ up \in {"up", "down"}
  /\ gens \in 0..MaxGens /\ requests \in 0..MaxRequests /\ stops \in 0..MaxStops

Entries(t, i) == {d \in due : <<d[2], d[3]>> = <<t, i>>}
Holders(t, i) == {w \in Workers : worker[w].pc # "idle" /\ <<worker[w].t, worker[w].i>> = <<t, i>>}
Handled(t, i) == Cardinality(Entries(t, i)) + Cardinality(Holders(t, i))

(* No task is lost by the scheduler or handed out twice: while the enclave *)
(* is up a pending task has one entry in due or one worker, a running one  *)
(* has one worker, and a finished one is not due.  cancel, forget, begin   *)
(* and finish each move it under a different part of the records' lock.    *)
ScheduledOnce ==
  up = "up" => \A t \in Tenants, i \in Ids :
    \/ tasks[t][i] = NoTask /\ Handled(t, i) = 0
    \/ /\ tasks[t][i] # NoTask
       /\ Handled(t, i) <= 1
       /\ tasks[t][i].status = "pending" => Handled(t, i) = 1
       /\ tasks[t][i].status = "running" => Cardinality(Holders(t, i)) = 1
       /\ terminal(tasks[t][i]) => Entries(t, i) = {}

(* However often the enclave stops, the guest is called for one run id at  *)
(* most MAX_ATTEMPTS times: begin anchors the attempt before the call.     *)
AttemptsBounded == \A r \in RunIds : runs[r] <= MaxAttempts

(* A run whose success was anchored is never run again, whichever image a  *)
(* later boot finds.                                                       *)
DoneRunsOnce == [][\A r \in done : runs'[r] = runs[r]]_vars

(* Once a response has said a task is cancelled the guest is not called    *)
(* for it again, by a worker that had taken it or after a restart.         *)
CancelHolds == [][\A r \in RunIds : r[1] \in ackCancel => runs'[r] = runs[r]]_vars

(* A task whose enqueue a response vouched for is in the queue of every    *)
(* later boot until it has ended: its record and the flag that makes the   *)
(* boot scan visit it are both anchored by then.                           *)
EnqueueHolds ==
  up = "up" => \A n \in ackEnqueue \ ended :
    LET task == tasks[n[1][1]][n[1][2]] IN task # NoTask /\ task.gen = n[2]

(* The tenants served before s when last was served last. *)
Ahead(s, last) ==
  {t \in Tenants \ {s} : IF last < s THEN last < t /\ t < s ELSE last < t \/ t < s}

(* Ready tenants take turns: each time another tenant is served, fewer     *)
(* tenants are left to be served before one that is ready.                 *)
TakesTurns ==
  [][\A s \in Ready : active' \ active # {} /\ lastTenant' # s
        => Cardinality(Ahead(s, lastTenant')) < Cardinality(Ahead(s, lastTenant))]_vars

(* A one-shot task a response vouched for ends: completed, failed or       *)
(* cancelled, however often the enclave stops and its tenant is busy,      *)
(* unless the boot scan refuses what it finds.                             *)
Recurs(n) == LET task == tasks[n[1][1]][n[1][2]] IN
  task # NoTask /\ task.gen = n[2] /\ task.input = "every"
Unbootable == up = "down" /\ \E flags \in catImages, found \in Images : Refused(flags, found)
EveryTaskEnds ==
  \A n \in Named : n \in ackEnqueue ~> (n \in ended \/ Recurs(n) \/ Unbootable)

(* mark_background: "a crash never leaves a record the boot scan would     *)
(* miss".                                                                  *)
RecordsAreScanned ==
  \A flags \in catImages, t \in Tenants :
    t \notin flags => \A image \in images[t], i \in Ids : image[i] = NoTask

(* The queue is true to what callers were told: each task is due or with   *)
(* one worker, its attempts stay within the limit through any crash, and   *)
(* an acknowledged enqueue is on every image a boot may find (enqueue,     *)
(* take_due, begin, finish, open).                                         *)
QueueHolds ==
  /\ TypeOK
  /\ ScheduledOnce
  /\ AttemptsBounded
  /\ EnqueueHolds

(* An outcome is final: a task that was recorded as done is not run again, *)
(* and one that was cancelled stays cancelled, whatever worker still holds *)
(* it (finish, cancel).                                                    *)
OutcomesKept ==
  /\ DoneRunsOnce
  /\ CancelHolds

=============================================================================
