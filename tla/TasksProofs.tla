----------------------------- MODULE TasksProofs ----------------------------
(***************************************************************************)
(* The queue of background tasks, and with it the sum MCTasks, for any     *)
(* tenants, ids, workers and limits and any number of stops.               *)
(*                                                                         *)
(* QueueHolds speaks of the memory of a running enclave and of what        *)
(* callers were told; what keeps it true is on the images a boot may find. *)
(* QueueInv says what every record must be, wherever it is kept: Sound     *)
(* relates it to the calls made and the answers given, Past to the runs    *)
(* that succeeded.  Every image has only such records.  The memory has     *)
(* too, but for one task: between the anchor of finish and its last insert *)
(* it shows an attempt whose outcome is already durable (Unseen).          *)
(*                                                                         *)
(* The rest says who may move a record meanwhile.  Held follows a worker   *)
(* from due to finish: what it holds, what the file says, and which images *)
(* have the attempt or the outcome it is about to act on.  Told does the   *)
(* same for a request until it may answer.  Placed has each task due or    *)
(* with one worker, and Alone keeps two workers apart.                     *)
(***************************************************************************)
EXTENDS MCTasks, FiniteSetTheorems, TLAPS

Records  == Task \cup {NoTask}
Row      == [Ids -> Records]
File     == [Tenants -> Row]
Running  == [pc : Pcs, t : Tenants, i : Ids, run : RunIds, outcome : {"none", "ok", "err"}]
Request  == [pc : {"guest", "marking", "anchoring", "anchored"},
             enqueued : SUBSET Named, cancelled : SUBSET Named]

Typed ==
  /\ tasks \in File /\ disk \in File
  /\ images \in [Tenants -> SUBSET Row] /\ \A t \in Tenants : disk[t] \in images[t]
  /\ due \subseteq BOOLEAN \X Tenants \X Ids
  /\ active \subseteq Keys /\ lastTenant \in Tenants \cup {0}
  /\ catalog \subseteq Tenants /\ catImages \subseteq SUBSET Tenants /\ catalog \in catImages
  /\ lock \in [Tenants -> {"free", "request", "task"}]
  /\ worker \in [Workers -> Running \cup {Idle}]
  /\ req \in [Tenants -> Request \cup {NoRequest}]
  /\ up \in {"up", "down"}
  /\ gens \in 0..MaxGens /\ requests \in 0..MaxRequests /\ stops \in 0..MaxStops
  /\ runs \in [RunIds -> Nat] /\ done \subseteq RunIds
  /\ ended \subseteq Named /\ ackEnqueue \subseteq Named /\ ackCancel \subseteq Named

(* Steps of a worker: with the tenant's lock, between the attempt and its  *)
(* outcome, and with the records' lock.                                    *)
Locking   == {"locked", "begun", "intent", "running"}
Called    == {"begun", "intent", "running"}
Recording == {"written", "sealed", "anchored"}

(* A record x of a task <<t, i>>, in memory or on an image, is one the     *)
(* ghosts allow: it counts the calls made for its run and no later run has *)
(* been called; it is cancelled if a response said so; and it is there, if *)
(* a response vouched for it.                                              *)
Sound(t, i, x) ==
  /\ x # NoTask =>
       /\ x.gen <= gens
       /\ x.status = "pending" => x.attempts < MaxAttempts
       /\ runs[<<Named_(t, i, x), x.occurrence>>] <= x.attempts
       /\ \A o \in 0..MaxOccurrence : x.occurrence < o => runs[<<Named_(t, i, x), o>>] = 0
       /\ Named_(t, i, x) \in ackCancel => x.status = "cancelled"
  /\ \A g \in Gens : <<<<t, i>>, g>> \in ackEnqueue \ ended => x # NoTask /\ x.gen = g

(* ... and does not call for a run that succeeded.                         *)
Past(t, i, x) ==
  \A o \in 0..MaxOccurrence :
    x # NoTask /\ <<Named_(t, i, x), o>> \in done => o < x.occurrence \/ terminal(x)

(* A worker that has recorded an outcome which the memory does not show.   *)
Unseen(t, i) ==
  \E w \in Workers : worker[w].pc = "anchored" /\ worker[w].t = t /\ worker[w].i = i

ImagesSound ==
  \A t \in Tenants, i \in Ids : \A image \in images[t] :
    Sound(t, i, image[i]) /\ Past(t, i, image[i])
MemorySound ==
  up = "up" => \A t \in Tenants, i \in Ids :
    Sound(t, i, tasks[t][i]) /\ (Unseen(t, i) \/ Past(t, i, tasks[t][i]))

(* A generation not drawn yet is nobody's.                                 *)
Undrawn ==
  \A t \in Tenants, i \in Ids, g \in Gens : gens < g =>
    /\ <<<<t, i>>, g>> \notin ackCancel
    /\ \A s \in Tenants : req[s].pc # "none" => <<<<t, i>>, g>> \notin req[s].cancelled
    /\ \A o \in 0..MaxOccurrence : /\ runs[<<<<<<t, i>>, g>>, o>>] = 0
                                   /\ <<<<<<t, i>>, g>>, o>> \notin done

(* What the memory says of a task, its file and the ghosts say too.        *)
Filed(t, i) ==
  LET m == tasks[t][i]  d == disk[t][i] IN
  /\ m # NoTask /\ ~terminal(m) => d # NoTask /\ d.gen = m.gen
  /\ m # NoTask /\ terminal(m) => Named_(t, i, m) \in ended

(* A worker by the step it is at.                                          *)
Held(w) ==
  LET n == worker[w]  m == Mine(w) IN
  n.pc # "idle" =>
    /\ m # NoTask /\ n.run = <<Named_(n.t, n.i, m), m.occurrence>>
    /\ n.pc \notin Recording => <<n.t, n.i>> \in active
    /\ n.pc \in Locking => lock[n.t] = "task"
    /\ n.pc \in {"taken", "locked"} => n.outcome = "none" /\ m.status \in {"pending", "cancelled"}
    /\ n.pc \in Called => n.outcome = "none" /\ m.status = "running"
    /\ n.pc = "begun" => disk[n.t][n.i] = m
    /\ n.pc \in {"begun", "intent"} => runs[n.run] < m.attempts
    /\ n.pc = "intent" => \A image \in images[n.t] : image[n.i] = m
    /\ n.pc = "ran" => /\ m.status \in {"pending", "running", "cancelled"}
                       /\ n.outcome = "none" => m.status # "running"
    /\ n.pc \in Recording =>
         /\ n.outcome # "none" /\ m.status = "running"
         /\ n.outcome = "ok" /\ m.input = "every" => m.occurrence < MaxOccurrence
         /\ disk[n.t][n.i] = Outcome(w)
    /\ n.pc \in {"sealed", "anchored"} => \A image \in images[n.t] : image[n.i] = Outcome(w)

Holds(w, t, i) == worker[w].pc # "idle" /\ worker[w].t = t /\ worker[w].i = i

Alone ==
  \A w, v \in Workers : worker[w].pc # "idle" /\ worker[v].pc # "idle" /\ w # v =>
    /\ ~(worker[w].t = worker[v].t /\ worker[w].i = worker[v].i)
    /\ ~(/\ worker[w].pc \in Locking /\ worker[v].pc \in Locking
         /\ worker[w].t = worker[v].t)

(* Where a task is: due, or with a worker.                                 *)
Placed(t, i) ==
  /\ \A ripe \in BOOLEAN : <<ripe, t, i>> \in due =>
       /\ <<~ripe, t, i>> \notin due
       /\ tasks[t][i].status = "pending"
       /\ \A w \in Workers : ~Holds(w, t, i)
  /\ tasks[t][i].status = "pending" =>
       (\E ripe \in BOOLEAN : <<ripe, t, i>> \in due) \/ \E w \in Workers : Holds(w, t, i)
  /\ tasks[t][i].status = "running" => \E w \in Workers : Holds(w, t, i)

(* What a request may tell its client.                                     *)
Told(t) ==
  req[t].pc # "none" =>
    /\ lock[t] = "request"
    /\ \A s \in Tenants, i \in Ids, g \in Gens :
         /\ <<<<s, i>>, g>> \in req[t].enqueued =>
              /\ s = t /\ t \in catalog
              /\ \/ <<<<s, i>>, g>> \in ended
                 \/ /\ tasks[s][i] # NoTask /\ tasks[s][i].gen = g
                    /\ req[t].pc = "anchored" =>
                         \A image \in images[s] : image[i] # NoTask /\ image[i].gen = g
         /\ <<<<s, i>>, g>> \in req[t].cancelled =>
              /\ s = t
              /\ tasks[s][i] # NoTask /\ tasks[s][i].gen = g => tasks[s][i].status = "cancelled"
              /\ disk[s][i] # NoTask /\ disk[s][i].gen = g => disk[s][i].status = "cancelled"
              /\ req[t].pc = "anchored" =>
                   \A image \in images[s] :
                     image[i] # NoTask /\ image[i].gen = g => image[i].status = "cancelled"

(* The tenants of tasks that were vouched for are flagged.                 *)
Flagged ==
  \A t \in Tenants, i \in Ids, g \in Gens :
    <<<<t, i>>, g>> \in ackEnqueue \ ended => \A flags \in catImages : t \in flags

Stopped ==
  up = "down" =>
    /\ tasks = Nothing /\ due = {} /\ active = {} /\ lock = [t \in Tenants |-> "free"]
    /\ \A w \in Workers : worker[w].pc = "idle"
    /\ \A t \in Tenants : req[t].pc = "none"

QueueInv ==
  /\ Typed /\ ImagesSound /\ MemorySound /\ Undrawn /\ Alone /\ Flagged /\ Stopped
  /\ \A t \in Tenants : Told(t)
  /\ \A w \in Workers : Held(w)
  /\ \A t \in Tenants, i \in Ids : Placed(t, i) /\ Filed(t, i)

-----------------------------------------------------------------------------
(* The kinds of record, worker and request do not overlap.                 *)
LEMMA Apart ==
  /\ NoTask \notin Task /\ NoTask.status = "none"
  /\ \A x \in Records : x = NoTask \/ (x \in Task /\ x.status \in Status /\ x # NoTask)
  /\ Idle.pc = "idle" /\ \A n \in Running : n.pc \in Pcs /\ n # Idle
  /\ NoRequest.pc = "none" /\ \A n \in Request : n.pc # "none" /\ n # NoRequest
BY DEF NoTask, Task, Records, Status, Idle, Running, Pcs, NoRequest, Request

(* Records as the handlers write them.                                     *)
LEMMA FreshIs ==
  ASSUME Typed, gens < MaxGens, NEW input \in Inputs
  PROVE  /\ Fresh(input) \in Task /\ Fresh(input).gen = gens + 1
         /\ Fresh(input).status = "pending" /\ Fresh(input).attempts = 0
         /\ Fresh(input).occurrence = 0 /\ Fresh(input).input = input
BY TasksAssumption DEF Typed, Fresh, Task, Gens, Status

LEMMA CancelledIs ==
  ASSUME NEW t \in Tenants, NEW i \in Ids, tasks[t][i] \in Task
  PROVE  /\ Cancelled(t, i) \in Task /\ Cancelled(t, i).gen = tasks[t][i].gen
         /\ Cancelled(t, i).status = "cancelled" /\ Cancelled(t, i).attempts = tasks[t][i].attempts
         /\ Cancelled(t, i).occurrence = tasks[t][i].occurrence
BY DEF Cancelled, Task, Status

LEMMA IntentIs ==
  ASSUME NEW w \in Workers, Mine(w) \in Task, Mine(w).attempts < MaxAttempts
  PROVE  /\ Intent(w) \in Task /\ Intent(w).gen = Mine(w).gen
         /\ Intent(w).status = "running" /\ Intent(w).attempts = Mine(w).attempts + 1
         /\ Intent(w).occurrence = Mine(w).occurrence /\ Intent(w).input = Mine(w).input
<1>1. Mine(w).attempts + 1 \in 0..MaxAttempts
  BY TasksAssumption DEF Task
<1> QED BY <1>1 DEF Intent, Task, Status

LEMMA OutcomeIs ==
  ASSUME NEW w \in Workers, Mine(w) \in Task,
         worker[w].outcome = "ok" /\ Mine(w).input = "every" => Mine(w).occurrence < MaxOccurrence
  PROVE  /\ Outcome(w) \in Task /\ Outcome(w).gen = Mine(w).gen
         /\ Outcome(w).input = Mine(w).input
         /\ Outcome(w).status \in {"pending", "completed", "failed"}
         /\ \/ /\ Outcome(w).occurrence = Mine(w).occurrence + 1
               /\ Outcome(w).attempts = 0 /\ Outcome(w).status = "pending"
            \/ /\ Outcome(w).occurrence = Mine(w).occurrence
               /\ Outcome(w).attempts = Mine(w).attempts
               /\ Outcome(w).status = "pending" => Mine(w).attempts < MaxAttempts
         /\ worker[w].outcome = "ok" =>
              terminal(Outcome(w)) \/ Outcome(w).occurrence = Mine(w).occurrence + 1
<1> DEFINE m == Mine(w)
<1>1. m.attempts \in Nat /\ m.occurrence \in Nat /\ 0 \in 0..MaxAttempts
      /\ m.input \in Inputs /\ m.gen \in Gens
  BY TasksAssumption DEF Task
<1>2. CASE worker[w].outcome = "ok" /\ m.input = "every"
  <2>1. Outcome(w) = [m EXCEPT !.status = "pending", !.attempts = 0, !.occurrence = @ + 1]
    BY <1>2 DEF Outcome
  <2>2. m.occurrence + 1 \in 0..MaxOccurrence
    BY <1>1, <1>2, TasksAssumption
  <2>3. ASSUME NEW k \in Task, k.occurrence + 1 \in 0..MaxOccurrence,
               NEW y, y = [k EXCEPT !.status = "pending", !.attempts = 0, !.occurrence = @ + 1]
        PROVE  /\ y \in Task /\ y.gen = k.gen /\ y.input = k.input /\ y.status = "pending"
               /\ y.attempts = 0 /\ y.occurrence = k.occurrence + 1
    BY <1>1, <2>3 DEF Task, Status
  <2> QED BY <1>2, <2>1, <2>2, <2>3
<1>3. CASE worker[w].outcome = "ok" /\ m.input # "every"
  BY <1>1, <1>3 DEF Outcome, Task, Status, terminal
<1>4. CASE worker[w].outcome # "ok"
  BY <1>1, <1>4, TasksAssumption DEF Outcome, Task, Status
<1> QED BY <1>2, <1>3, <1>4

LEMMA RecoveredIs ==
  ASSUME NEW x \in Records
  PROVE  /\ Recovered(x) \in Records
         /\ x = NoTask => Recovered(x) = NoTask
         /\ x # NoTask => /\ Recovered(x) \in Task /\ Recovered(x).gen = x.gen
                          /\ Recovered(x).attempts = x.attempts
                          /\ Recovered(x).occurrence = x.occurrence
                          /\ Recovered(x).status \in Status \ {"running"}
                          /\ Recovered(x) = x \/ ~terminal(x)
                          /\ x.status = "cancelled" => Recovered(x) = x
                          /\ Recovered(x).status = "pending" =>
                               x.status = "pending" \/ x.attempts < MaxAttempts
<1>1. CASE x = NoTask
  BY <1>1, Apart DEF Recovered
<1>2. CASE x # NoTask
  <2>1. x \in Task /\ x.attempts \in Nat
    BY <1>2, Apart, TasksAssumption DEF Task
  <2>2. CASE x.status = "running"
    BY <1>2, <2>1, <2>2, TasksAssumption DEF Recovered, Task, Status, terminal, Records
  <2>3. CASE x.status # "running"
    BY <1>2, <2>1, <2>3, Apart DEF Recovered
  <2> QED BY <2>2, <2>3
<1> QED BY <1>1, <1>2

(* The files, the memory, the images and the workers after a change.       *)
LEMMA PutAt ==
  ASSUME NEW f \in File, NEW t \in Tenants, NEW i \in Ids, NEW x \in Records
  PROVE  /\ Put(f, t, i, x) \in File /\ Put(f, t, i, x)[t][i] = x
         /\ \A s \in Tenants, j \in Ids : s # t \/ j # i => Put(f, t, i, x)[s][j] = f[s][j]
         /\ \A s \in Tenants : s # t => Put(f, t, i, x)[s] = f[s]
BY DEF Put, File, Row

LEMMA WriteAt ==
  ASSUME Typed, NEW t \in Tenants, NEW i \in Ids, NEW x \in Records, write(t, i, x)
  PROVE  /\ disk' \in File /\ disk'[t][i] = x
         /\ \A s \in Tenants, j \in Ids : s # t \/ j # i => disk'[s][j] = disk[s][j]
         /\ images' \in [Tenants -> SUBSET Row] /\ \A s \in Tenants : disk'[s] \in images'[s]
         /\ \A s \in Tenants, j \in Ids : \A image \in images'[s] :
              \/ s = t /\ j = i /\ image[j] = x
              \/ \E old \in images[s] : old[j] = image[j]
<1>1. disk' = Put(disk, t, i, x) /\ images' = [images EXCEPT ![t] = @ \cup {disk'[t]}]
  BY DEF write
<1>2. /\ disk' \in File /\ disk'[t][i] = x
      /\ \A s \in Tenants, j \in Ids : s # t \/ j # i => disk'[s][j] = disk[s][j]
      /\ \A s \in Tenants : s # t => disk'[s] = disk[s]
  BY <1>1, PutAt DEF Typed
<1>3. disk'[t] \in Row
  BY <1>2 DEF File
<1>4. images' \in [Tenants -> SUBSET Row]
      /\ \A s \in Tenants : images'[s] = IF s = t THEN images[t] \cup {disk'[t]} ELSE images[s]
  BY <1>1, <1>3 DEF Typed
<1>5. \A s \in Tenants : disk'[s] \in images'[s]
  BY <1>2, <1>4 DEF Typed
<1>6. \A s \in Tenants : disk[s] \in images[s]
  BY DEF Typed
<1> QED BY <1>2, <1>4, <1>5, <1>6

LEMMA AnchorAt ==
  ASSUME Typed, NEW t \in Tenants, AnchorTenantPool(t)
  PROVE  /\ disk' = disk /\ images' \in [Tenants -> SUBSET Row]
         /\ \A s \in Tenants : disk'[s] \in images'[s]
         /\ \A s \in Tenants : images'[s] = IF s = t THEN {disk[t]} ELSE images[s]
         /\ \A s \in Tenants : images'[s] \subseteq images[s]
         /\ catalog' = catalog /\ catImages' = catImages
<1>1. images' = [images EXCEPT ![t] = {disk[t]}] /\ disk' = disk
      /\ catalog' = catalog /\ catImages' = catImages
  BY DEF AnchorTenantPool
<1>2. disk[t] \in Row
  BY DEF Typed, File
<1> QED BY <1>1, <1>2 DEF Typed

LEMMA StepAt ==
  ASSUME Typed, NEW w \in Workers, worker[w].pc # "idle", NEW pc \in Pcs, Step(w, pc)
  PROVE  /\ worker' \in [Workers -> Running \cup {Idle}]
         /\ \A v \in Workers : v # w => worker'[v] = worker[v]
         /\ worker'[w] \in Running /\ worker'[w].pc = pc
         /\ worker'[w].t = worker[w].t /\ worker'[w].i = worker[w].i
         /\ worker'[w].run = worker[w].run /\ worker'[w].outcome = worker[w].outcome
<1>1. worker[w] \in Running
  BY Apart DEF Typed
<1>2. worker' = [worker EXCEPT ![w].pc = pc]
  BY DEF Step
<1>3. worker'[w] = [worker[w] EXCEPT !.pc = pc] /\ \A v \in Workers : v # w => worker'[v] = worker[v]
  BY <1>2 DEF Typed
<1>4. worker'[w] \in Running
  BY <1>1, <1>3 DEF Running
<1>5. worker' \in [Workers -> Running \cup {Idle}]
  BY <1>2, <1>3, <1>4 DEF Typed
<1> QED BY <1>1, <1>3, <1>4, <1>5 DEF Running

LEMMA ReturnsAt ==
  ASSUME Typed, NEW w \in Workers, worker[w].pc # "idle", NEW o \in {"ok", "err"}, Returns(w, o)
  PROVE  /\ worker' \in [Workers -> Running \cup {Idle}]
         /\ \A v \in Workers : v # w => worker'[v] = worker[v]
         /\ worker'[w] \in Running /\ worker'[w].pc = "ran"
         /\ worker'[w].t = worker[w].t /\ worker'[w].i = worker[w].i
         /\ worker'[w].run = worker[w].run /\ worker'[w].outcome = o
         /\ lock' = [lock EXCEPT ![worker[w].t] = "free"]
<1>1. worker[w] \in Running
  BY Apart DEF Typed
<1>2. /\ worker' = [worker EXCEPT ![w] = [@ EXCEPT !.pc = "ran", !.outcome = o]]
      /\ lock' = [lock EXCEPT ![worker[w].t] = "free"]
  BY DEF Returns
<1>3. worker'[w] = [worker[w] EXCEPT !.pc = "ran", !.outcome = o]
      /\ \A v \in Workers : v # w => worker'[v] = worker[v]
  BY <1>2 DEF Typed
<1>4. worker'[w] \in Running
  BY <1>1, <1>3 DEF Running, Pcs
<1>5. worker' \in [Workers -> Running \cup {Idle}]
  BY <1>2, <1>3, <1>4 DEF Typed
<1> QED BY <1>1, <1>2, <1>3, <1>4, <1>5 DEF Running

LEMMA LeavesAt ==
  ASSUME Typed, NEW w \in Workers, worker' = [worker EXCEPT ![w] = Idle]
  PROVE  /\ worker' \in [Workers -> Running \cup {Idle}] /\ worker'[w] = Idle
         /\ \A v \in Workers : v # w => worker'[v] = worker[v]
BY DEF Typed

LEMMA ReqAt ==
  ASSUME Typed, NEW t \in Tenants, req[t].pc # "none",
         NEW p \in {"guest", "marking", "anchoring", "anchored"}, req' = [req EXCEPT ![t].pc = p]
  PROVE  /\ req' \in [Tenants -> Request \cup {NoRequest}]
         /\ \A s \in Tenants : s # t => req'[s] = req[s]
         /\ req'[t].pc = p /\ req'[t].enqueued = req[t].enqueued
         /\ req'[t].cancelled = req[t].cancelled
<1>1. req[t] \in Request
  BY Apart DEF Typed
<1>2. req'[t] = [req[t] EXCEPT !.pc = p] /\ \A s \in Tenants : s # t => req'[s] = req[s]
  BY DEF Typed
<1>3. req'[t] \in Request
  BY <1>1, <1>2 DEF Request
<1>4. req' \in [Tenants -> Request \cup {NoRequest}]
  BY <1>2, <1>3 DEF Typed
<1> QED BY <1>1, <1>2, <1>3, <1>4 DEF Request

LEMMA TellAt ==
  ASSUME Typed, NEW t \in Tenants, req[t].pc # "none", NEW n \in Named,
         NEW what \in {"enqueued", "cancelled"}, Tell(t, what, n)
  PROVE  /\ req' \in [Tenants -> Request \cup {NoRequest}]
         /\ \A s \in Tenants : s # t => req'[s] = req[s]
         /\ req'[t].pc = req[t].pc
         /\ req'[t].enqueued = IF what = "enqueued" THEN req[t].enqueued \cup {n}
                               ELSE req[t].enqueued
         /\ req'[t].cancelled = IF what = "cancelled" THEN req[t].cancelled \cup {n}
                                ELSE req[t].cancelled
<1>1. req[t] \in Request
  BY Apart DEF Typed
<1>2. req' = [req EXCEPT ![t][what] = @ \cup {n}]
  BY DEF Tell
<1>3. CASE what = "enqueued"
  <2>1. req' = [req EXCEPT ![t].enqueued = @ \cup {n}]
    BY <1>2, <1>3
  <2>2. req'[t] = [req[t] EXCEPT !.enqueued = @ \cup {n}]
        /\ \A s \in Tenants : s # t => req'[s] = req[s]
    BY <2>1 DEF Typed
  <2>3. req'[t] \in Request /\ req'[t].pc = req[t].pc
        /\ req'[t].enqueued = req[t].enqueued \cup {n} /\ req'[t].cancelled = req[t].cancelled
    BY <1>1, <2>2 DEF Request
  <2>4. req' \in [Tenants -> Request \cup {NoRequest}]
    BY <2>1, <2>2, <2>3 DEF Typed
  <2> QED BY <1>3, <2>2, <2>3, <2>4
<1>4. CASE what = "cancelled"
  <2>1. req' = [req EXCEPT ![t].cancelled = @ \cup {n}]
    BY <1>2, <1>4
  <2>2. req'[t] = [req[t] EXCEPT !.cancelled = @ \cup {n}]
        /\ \A s \in Tenants : s # t => req'[s] = req[s]
    BY <2>1 DEF Typed
  <2>3. req'[t] \in Request /\ req'[t].pc = req[t].pc
        /\ req'[t].cancelled = req[t].cancelled \cup {n} /\ req'[t].enqueued = req[t].enqueued
    BY <1>1, <2>2 DEF Request
  <2>4. req' \in [Tenants -> Request \cup {NoRequest}]
    BY <2>1, <2>2, <2>3 DEF Typed
  <2> QED BY <1>4, <2>2, <2>3, <2>4
<1> QED BY <1>3, <1>4

LEMMA GoneAt ==
  ASSUME Typed, NEW t \in Tenants, Gone(t)
  PROVE  /\ req' \in [Tenants -> Request \cup {NoRequest}] /\ req'[t] = NoRequest
         /\ lock' \in [Tenants -> {"free", "request", "task"}] /\ lock'[t] = "free"
         /\ \A s \in Tenants : s # t => req'[s] = req[s] /\ lock'[s] = lock[s]
BY DEF Typed, Gone

LEMMA NamedIs ==
  ASSUME NEW t \in Tenants, NEW i \in Ids, NEW x \in Task
  PROVE  /\ Named_(t, i, x) \in Named /\ <<Named_(t, i, x), x.occurrence>> \in RunIds
         /\ x.gen \in Gens /\ Named_(t, i, x) = <<<<t, i>>, x.gen>>
         /\ x.occurrence \in Nat /\ x.attempts \in Nat /\ x.attempts <= MaxAttempts
         /\ x.occurrence \in 0..MaxOccurrence
BY TasksAssumption DEF Named_, Named, Keys, RunIds, Task

(* A busy worker's task.                                                   *)
LEMMA BusyIs ==
  ASSUME Typed, NEW w \in Workers, worker[w].pc # "idle"
  PROVE  /\ worker[w] \in Running /\ worker[w].pc \in Pcs /\ worker[w].t \in Tenants
         /\ worker[w].i \in Ids /\ worker[w].run \in RunIds
         /\ worker[w].outcome \in {"none", "ok", "err"}
         /\ Mine(w) \in Records /\ Mine(w) = tasks[worker[w].t][worker[w].i]
<1>1. worker[w] \in Running
  BY Apart DEF Typed
<1>2. worker[w].t \in Tenants /\ worker[w].i \in Ids
  BY <1>1 DEF Running
<1> QED BY <1>1, <1>2 DEF Running, Mine, Typed, File, Row

LEMMA HeldTask ==
  ASSUME Typed, NEW w \in Workers, Held(w), worker[w].pc # "idle"
  PROVE  Mine(w) \in Task /\ Mine(w) # NoTask
BY BusyIs, Apart DEF Held

-----------------------------------------------------------------------------
(* What carries over a step, part by part.                                 *)

LEMMA SoundKept ==
  ASSUME runs' = runs, done' = done, ackCancel' = ackCancel, ackEnqueue' = ackEnqueue,
         ended \subseteq ended', gens \in Nat, gens' \in Nat, gens <= gens',
         NEW t \in Tenants, NEW i \in Ids, NEW x \in Records
  PROVE  (Sound(t, i, x) => Sound(t, i, x)') /\ (Past(t, i, x) => Past(t, i, x)')
<1>1. x # NoTask => x.gen \in Nat
  BY Apart, TasksAssumption DEF Task, Gens
<1> QED BY <1>1 DEF Sound, Past

(* Each record on an image is an old one or sound.                         *)
LEMMA ImagesKept ==
  ASSUME QueueInv, Typed',
         runs' = runs, done' = done, ackCancel' = ackCancel, ackEnqueue' = ackEnqueue,
         ended \subseteq ended', gens <= gens',
         \A s \in Tenants, j \in Ids : \A image \in images'[s] :
           \/ \E old \in images[s] : old[j] = image[j]
           \/ Sound(s, j, image[j])' /\ Past(s, j, image[j])'
  PROVE  ImagesSound'
<1> SUFFICES ASSUME NEW s \in Tenants, NEW j \in Ids, NEW image \in images'[s]
             PROVE  Sound(s, j, image[j])' /\ Past(s, j, image[j])'
  BY DEF ImagesSound
<1>1. CASE \E old \in images[s] : old[j] = image[j]
  <2>1. PICK old \in images[s] : old[j] = image[j]
    BY <1>1
  <2>2. old[j] \in Records
    BY DEF QueueInv, Typed, Row
  <2>3. Sound(s, j, old[j]) /\ Past(s, j, old[j])
    BY DEF QueueInv, ImagesSound
  <2>4. gens \in Nat /\ gens' \in Nat
    BY DEF QueueInv, Typed
  <2>5. Sound(s, j, old[j])' /\ Past(s, j, old[j])'
    BY <2>2, <2>3, <2>4, SoundKept
  <2> QED BY <2>1, <2>5
<1>2. CASE Sound(s, j, image[j])' /\ Past(s, j, image[j])'
  BY <1>2
<1> QED BY <1>1, <1>2

LEMMA HeldKept ==
  ASSUME QueueInv, NEW w \in Workers, worker'[w] = worker[w],
         worker[w].pc # "idle" =>
           LET t == worker[w].t  i == worker[w].i IN
           /\ tasks'[t][i] = tasks[t][i]
           /\ <<t, i>> \in active => <<t, i>> \in active'
           /\ lock[t] = "task" /\ worker[w].pc \in Locking => lock'[t] = "task"
           /\ disk'[t][i] = disk[t][i]
           /\ \A image \in images'[t] : \E old \in images[t] : old[i] = image[i]
           /\ runs'[worker[w].run] = runs[worker[w].run]
  PROVE  Held(w)'
<1>1. CASE worker[w].pc = "idle"
  BY <1>1 DEF Held
<1>2. CASE worker[w].pc # "idle"
  <2>1. Mine(w)' = Mine(w) /\ Outcome(w)' = Outcome(w)
    BY <1>2 DEF Mine, Outcome
  <2>2. Held(w)
    BY DEF QueueInv
  <2> QED BY <1>2, <2>1, <2>2 DEF Held
<1> QED BY <1>1, <1>2

LEMMA AloneKept ==
  ASSUME QueueInv,
         \A w \in Workers : worker'[w].pc # "idle" =>
           /\ worker[w].pc # "idle" /\ worker'[w].t = worker[w].t /\ worker'[w].i = worker[w].i
           /\ worker'[w].pc \in Locking => worker[w].pc \in Locking
  PROVE  Alone'
BY DEF QueueInv, Alone

LEMMA PlacedKept ==
  ASSUME NEW t \in Tenants, NEW i \in Ids, Placed(t, i),
         tasks'[t][i] = tasks[t][i],
         \A ripe \in BOOLEAN : <<ripe, t, i>> \in due' <=> <<ripe, t, i>> \in due,
         \A w \in Workers : Holds(w, t, i)' <=> Holds(w, t, i)
  PROVE  Placed(t, i)'
BY DEF Placed

(* A worker's step moves only records that are not cancelled.              *)
Moves(t, i) ==
  LET m == tasks[t][i]
      live == m # NoTask /\ m.status # "cancelled" IN
  /\ tasks'[t][i] = m \/ (live /\ tasks'[t][i] # NoTask /\ tasks'[t][i].gen = m.gen)
  /\ disk'[t][i] = disk[t][i] \/ (live /\ disk'[t][i] # NoTask /\ disk'[t][i].gen = m.gen)
  /\ \A image \in images'[t] :
       \/ \E old \in images[t] : old[i] = image[i]
       \/ live /\ image[i] # NoTask /\ image[i].gen = m.gen

LEMMA ToldKept ==
  ASSUME NEW t \in Tenants, Told(t), req'[t] = req[t],
         req[t].pc # "none" => lock'[t] = lock[t],
         catalog \subseteq catalog', ended \subseteq ended', \A i \in Ids : Moves(t, i)
  PROVE  Told(t)'
<1> SUFFICES ASSUME req[t].pc # "none" PROVE Told(t)'
  BY DEF Told
<1>1. lock'[t] = "request"
  BY DEF Told
<1> SUFFICES ASSUME NEW s \in Tenants, NEW i \in Ids, NEW g \in Gens
    PROVE  /\ <<<<s, i>>, g>> \in req[t].enqueued =>
                /\ s = t /\ t \in catalog'
                /\ \/ <<<<s, i>>, g>> \in ended'
                   \/ /\ tasks'[s][i] # NoTask /\ tasks'[s][i].gen = g
                      /\ req[t].pc = "anchored" =>
                           \A image \in images'[s] : image[i] # NoTask /\ image[i].gen = g
           /\ <<<<s, i>>, g>> \in req[t].cancelled =>
                /\ s = t
                /\ tasks'[s][i] # NoTask /\ tasks'[s][i].gen = g => tasks'[s][i].status = "cancelled"
                /\ disk'[s][i] # NoTask /\ disk'[s][i].gen = g => disk'[s][i].status = "cancelled"
                /\ req[t].pc = "anchored" =>
                     \A image \in images'[s] :
                       image[i] # NoTask /\ image[i].gen = g => image[i].status = "cancelled"
  BY <1>1 DEF Told
<1>2. Moves(t, i)
  OBVIOUS
<1>3. ASSUME <<<<s, i>>, g>> \in req[t].enqueued
      PROVE  /\ s = t /\ t \in catalog'
             /\ \/ <<<<s, i>>, g>> \in ended'
                \/ /\ tasks'[s][i] # NoTask /\ tasks'[s][i].gen = g
                   /\ req[t].pc = "anchored" =>
                        \A image \in images'[s] : image[i] # NoTask /\ image[i].gen = g
  BY <1>2, <1>3 DEF Told, Moves
<1>4. ASSUME <<<<s, i>>, g>> \in req[t].cancelled
      PROVE  /\ s = t
             /\ tasks'[s][i] # NoTask /\ tasks'[s][i].gen = g => tasks'[s][i].status = "cancelled"
             /\ disk'[s][i] # NoTask /\ disk'[s][i].gen = g => disk'[s][i].status = "cancelled"
             /\ req[t].pc = "anchored" =>
                  \A image \in images'[s] :
                    image[i] # NoTask /\ image[i].gen = g => image[i].status = "cancelled"
  BY <1>2, <1>4 DEF Told, Moves
<1> QED BY <1>3, <1>4

LEMMA UndrawnKept ==
  ASSUME QueueInv, runs' = runs, done' = done, ackCancel' = ackCancel,
         gens \in Nat, gens' \in Nat, gens <= gens',
         \A s \in Tenants : req'[s].pc # "none" =>
           \/ req[s].pc # "none" /\ req'[s].cancelled = req[s].cancelled
           \/ \A n \in req'[s].cancelled : \A t \in Tenants, i \in Ids, g \in Gens :
                n = <<<<t, i>>, g>> =>
                  g <= gens \/ (req[s].pc # "none" /\ n \in req[s].cancelled)
  PROVE  Undrawn'
<1> SUFFICES ASSUME NEW t \in Tenants, NEW i \in Ids, NEW g \in Gens, gens' < g
    PROVE  /\ <<<<t, i>>, g>> \notin ackCancel
           /\ \A s \in Tenants : req'[s].pc # "none" => <<<<t, i>>, g>> \notin req'[s].cancelled
           /\ \A o \in 0..MaxOccurrence : /\ runs[<<<<<<t, i>>, g>>, o>>] = 0
                                          /\ <<<<<<t, i>>, g>>, o>> \notin done
  BY DEF Undrawn
<1>1. gens < g /\ g \in Nat
  BY DEF Gens
<1>2. \A s \in Tenants : req[s].pc # "none" => <<<<t, i>>, g>> \notin req[s].cancelled
  BY <1>1 DEF QueueInv, Undrawn
<1> QED BY <1>1, <1>2 DEF QueueInv, Undrawn

(* Where the records and the ghosts stay as they are.                      *)
LEMMA RecordsKept ==
  ASSUME QueueInv, Typed', up' = up, tasks' = tasks, disk' = disk, UNCHANGED ghosts, gens' = gens,
         \A s \in Tenants : images'[s] \subseteq images[s],
         \A w \in Workers : worker[w].pc = "anchored" => worker'[w] = worker[w]
  PROVE  ImagesSound' /\ MemorySound' /\ \A t \in Tenants, i \in Ids : Filed(t, i)'
<1>1. runs' = runs /\ done' = done /\ ended' = ended /\ ackEnqueue' = ackEnqueue
      /\ ackCancel' = ackCancel /\ gens \in Nat
  BY DEF ghosts, QueueInv, Typed
<1>2. ImagesSound'
  <2>1. \A s \in Tenants, j \in Ids : \A image \in images'[s] :
           \E old \in images[s] : old[j] = image[j]
    OBVIOUS
  <2> QED BY <1>1, <2>1, ImagesKept
<1>3. \A t \in Tenants, i \in Ids : Unseen(t, i) => Unseen(t, i)'
  BY DEF Unseen
<1>4. \A t \in Tenants, i \in Ids : tasks[t][i] \in Records
  BY DEF QueueInv, Typed, File, Row
<1>5. MemorySound'
  BY <1>1, <1>3, <1>4, SoundKept DEF QueueInv, MemorySound
<1>6. \A t \in Tenants, i \in Ids : Filed(t, i)'
  BY <1>1 DEF QueueInv, Filed
<1> QED BY <1>2, <1>5, <1>6

LEMMA FlaggedKept ==
  ASSUME QueueInv, ackEnqueue' = ackEnqueue, ended \subseteq ended',
         \A flags \in catImages' : \E old \in catImages : old \subseteq flags
  PROVE  Flagged'
BY DEF QueueInv, Flagged

-----------------------------------------------------------------------------
(* Steps of a request that write no record.                                *)

LEMMA RequestOnly ==
  ASSUME QueueInv, Typed', up = "up", NEW t \in Tenants, Told(t)', lock[t] # "task",
         UNCHANGED <<tasks, due, active, disk, worker, up, gens, ghosts>>,
         \A s \in Tenants : s # t => req'[s] = req[s] /\ lock'[s] = lock[s],
         \A s \in Tenants : images'[s] \subseteq images[s],
         catalog \subseteq catalog',
         \A flags \in catImages' : \E old \in catImages : old \subseteq flags,
         req'[t].pc # "none" =>
           \/ req[t].pc # "none" /\ req'[t].cancelled = req[t].cancelled
           \/ req'[t].cancelled = {}
  PROVE  QueueInv'
<1>1. /\ tasks' = tasks /\ due' = due /\ active' = active /\ disk' = disk /\ worker' = worker
      /\ up' = up /\ gens' = gens /\ runs' = runs /\ done' = done /\ ended' = ended
      /\ ackEnqueue' = ackEnqueue /\ ackCancel' = ackCancel /\ gens \in Nat
  BY DEF ghosts, QueueInv, Typed
<1>2. ImagesSound' /\ MemorySound' /\ \A s \in Tenants, i \in Ids : Filed(s, i)'
  BY <1>1, RecordsKept
<1>3. Undrawn'
  BY <1>1, UndrawnKept
<1>4. Alone'
  BY <1>1, AloneKept
<1>5. Flagged'
  BY <1>1, FlaggedKept
<1>6. Stopped'
  BY <1>1 DEF Stopped
<1>7. ASSUME NEW s \in Tenants PROVE Told(s)'
  <2>1. CASE s = t
    BY <2>1
  <2>2. CASE s # t
    <3>1. \A i \in Ids : Moves(s, i)
      BY <1>1 DEF Moves
    <3> QED BY <1>1, <2>2, <3>1, ToldKept DEF QueueInv
  <2> QED BY <2>1, <2>2
<1>8. ASSUME NEW w \in Workers PROVE Held(w)'
  <2>1. worker[w].pc # "idle" => worker[w].t \in Tenants
    BY BusyIs DEF QueueInv
  <2> QED BY <1>1, <2>1, HeldKept
<1>9. ASSUME NEW s \in Tenants, NEW i \in Ids PROVE Placed(s, i)'
  BY <1>1 DEF QueueInv, Placed, Holds
<1> QED BY <1>2, <1>3, <1>4, <1>5, <1>6, <1>7, <1>8, <1>9 DEF QueueInv

LEMMA RequestStartStep ==
  ASSUME QueueInv, NEW t \in Tenants, RequestStart(t)
  PROVE  QueueInv'
<1> DEFINE n == [pc |-> "guest", enqueued |-> {}, cancelled |-> {}]
<1>1. /\ up = "up" /\ lock[t] = "free" /\ requests < MaxRequests
      /\ lock' = [lock EXCEPT ![t] = "request"] /\ req' = [req EXCEPT ![t] = n]
      /\ requests' = requests + 1
      /\ UNCHANGED <<records, pools, worker, up, gens, stops, ghosts>>
  BY DEF RequestStart
<1>2. n \in Request /\ n.pc = "guest" /\ n.cancelled = {} /\ n.enqueued = {}
  BY DEF Request
<1> HIDE DEF n
<1>3. /\ req' \in [Tenants -> Request \cup {NoRequest}] /\ req'[t] = n
      /\ lock' \in [Tenants -> {"free", "request", "task"}] /\ lock'[t] = "request"
      /\ \A s \in Tenants : s # t => req'[s] = req[s] /\ lock'[s] = lock[s]
  BY <1>1, <1>2 DEF QueueInv, Typed
<1>4. Typed'
  BY <1>1, <1>3, TasksAssumption DEF QueueInv, Typed, records, pools, ghosts
<1>5. Told(t)'
  BY <1>2, <1>3 DEF Told
<1>6. UNCHANGED <<tasks, due, active, disk, worker, up, gens, ghosts>>
      /\ images' = images /\ catalog' = catalog /\ catImages' = catImages
  BY <1>1 DEF records, pools
<1> QED BY <1>1, <1>2, <1>3, <1>4, <1>5, <1>6, RequestOnly

(* A step that only changes where the request is.                          *)
LEMMA RequestMoves ==
  ASSUME QueueInv, NEW t \in Tenants, up = "up", req[t].pc # "none",
         NEW p \in {"guest", "marking", "anchoring"}, req' = [req EXCEPT ![t].pc = p],
         UNCHANGED <<records, disk, images, lock, worker, up, bounds, ghosts>>,
         catalog \subseteq catalog' /\ catalog' \subseteq Tenants /\ catalog' \in catImages',
         catImages' \subseteq SUBSET Tenants,
         \A flags \in catImages' : \E old \in catImages : old \subseteq flags
  PROVE  QueueInv'
<1>1. /\ req' \in [Tenants -> Request \cup {NoRequest}]
      /\ \A s \in Tenants : s # t => req'[s] = req[s]
      /\ req'[t].pc = p /\ req'[t].enqueued = req[t].enqueued
      /\ req'[t].cancelled = req[t].cancelled
  BY ReqAt DEF QueueInv
<1>2. Typed'
  BY <1>1 DEF QueueInv, Typed, records, ghosts, bounds
<1>3. Told(t) /\ lock[t] = "request" /\ req'[t].pc # "none"
  BY <1>1 DEF QueueInv, Told
<1>4. Told(t)'
  BY <1>1, <1>3 DEF Told, records, ghosts
<1>5. UNCHANGED <<tasks, due, active, disk, worker, up, gens, ghosts>> /\ images' = images
      /\ lock' = lock
  BY DEF records, bounds
<1> QED BY <1>1, <1>2, <1>3, <1>4, <1>5, RequestOnly

LEMMA MarkBackgroundStep ==
  ASSUME QueueInv, NEW t \in Tenants, MarkBackground(t)
  PROVE  QueueInv'
<1>1. /\ up = "up" /\ req[t].pc = "guest" /\ req' = [req EXCEPT ![t].pc = "marking"]
      /\ catalog' = catalog \cup {t} /\ catImages' = catImages \cup {catalog'}
      /\ UNCHANGED <<records, disk, images, lock, worker, up, bounds, ghosts>>
  BY DEF MarkBackground, InGuest
<1>2. catalog \in catImages /\ catalog \subseteq Tenants /\ catImages \subseteq SUBSET Tenants
  BY DEF QueueInv, Typed
<1>3. /\ catalog \subseteq catalog' /\ catalog' \subseteq Tenants /\ catalog' \in catImages'
      /\ catImages' \subseteq SUBSET Tenants
      /\ \A flags \in catImages' : \E old \in catImages : old \subseteq flags
  BY <1>1, <1>2
<1> QED BY <1>1, <1>3, RequestMoves

LEMMA MarkAnchoredStep ==
  ASSUME QueueInv, NEW t \in Tenants, MarkAnchored(t)
  PROVE  QueueInv'
<1>1. /\ up = "up" /\ req[t].pc = "marking" /\ req' = [req EXCEPT ![t].pc = "guest"]
      /\ catalog' = catalog /\ catImages' = {catalog}
      /\ UNCHANGED <<records, disk, images, lock, worker, up, bounds, ghosts>>
  BY DEF MarkAnchored, AnchorControlPool
<1>2. catalog \in catImages /\ catalog \subseteq Tenants
  BY DEF QueueInv, Typed
<1>3. /\ catalog \subseteq catalog' /\ catalog' \subseteq Tenants /\ catalog' \in catImages'
      /\ catImages' \subseteq SUBSET Tenants
      /\ \A flags \in catImages' : \E old \in catImages : old \subseteq flags
  BY <1>1, <1>2
<1> QED BY <1>1, <1>3, RequestMoves

LEMMA AnswersStep ==
  ASSUME QueueInv, NEW t \in Tenants, MarkFails(t) \/ GuestAnswers(t)
  PROVE  QueueInv'
<1>1. PICK p \in {"guest", "anchoring"} :
      /\ up = "up" /\ req[t].pc # "none" /\ req' = [req EXCEPT ![t].pc = p]
      /\ UNCHANGED <<records, pools, lock, worker, up, bounds, ghosts>>
  BY DEF MarkFails, GuestAnswers, InGuest
<1>2. catalog \in catImages /\ catalog \subseteq Tenants /\ catImages \subseteq SUBSET Tenants
      /\ catalog' = catalog /\ catImages' = catImages /\ disk' = disk /\ images' = images
  BY <1>1 DEF QueueInv, Typed, pools
<1>3. \A flags \in catImages' : \E old \in catImages : old \subseteq flags
  BY <1>2
<1> QED BY <1>1, <1>2, <1>3, RequestMoves

LEMMA EnqueueExistingStep ==
  ASSUME QueueInv, NEW t \in Tenants, NEW i \in Ids, NEW input \in Inputs,
         EnqueueExisting(t, i, input)
  PROVE  QueueInv'
<1> DEFINE n == Named_(t, i, tasks[t][i])
<1>1. /\ up = "up" /\ req[t].pc = "guest" /\ t \in catalog /\ tasks[t][i] # NoTask
      /\ Tell(t, "enqueued", n)
      /\ UNCHANGED <<records, pools, lock, worker, up, bounds, ghosts>>
  BY DEF EnqueueExisting, InGuest
<1>2. tasks[t][i] \in Task
  BY <1>1, Apart DEF QueueInv, Typed, File, Row
<1>3. n \in Named /\ n = <<<<t, i>>, tasks[t][i].gen>>
  BY <1>2, NamedIs
<1> HIDE DEF n
<1>4. /\ req' \in [Tenants -> Request \cup {NoRequest}]
      /\ \A s \in Tenants : s # t => req'[s] = req[s]
      /\ req'[t].pc = "guest" /\ req'[t].cancelled = req[t].cancelled
      /\ req'[t].enqueued = req[t].enqueued \cup {n}
  BY <1>1, <1>3, TellAt DEF QueueInv
<1>5. Typed'
  BY <1>1, <1>4 DEF QueueInv, Typed, records, pools, ghosts, bounds
<1>6. UNCHANGED <<tasks, due, active, disk, worker, up, gens, ghosts>> /\ images' = images
      /\ lock' = lock /\ catalog' = catalog /\ catImages' = catImages
  BY <1>1 DEF records, bounds, pools
<1>7. Told(t) /\ lock[t] = "request"
  BY <1>1 DEF QueueInv, Told
<1>8. Told(t)'
  BY <1>1, <1>3, <1>4, <1>6, <1>7 DEF Told, ghosts
<1> QED BY <1>1, <1>4, <1>5, <1>6, <1>7, <1>8, RequestOnly

LEMMA RequestAnchorsStep ==
  ASSUME QueueInv, NEW t \in Tenants, RequestAnchors(t)
  PROVE  QueueInv'
<1>1. /\ up = "up" /\ req[t].pc = "anchoring" /\ req' = [req EXCEPT ![t].pc = "anchored"]
      /\ AnchorTenantPool(t)
      /\ UNCHANGED <<records, lock, worker, up, bounds, ghosts>>
  BY DEF RequestAnchors
<1>2. /\ req' \in [Tenants -> Request \cup {NoRequest}]
      /\ \A s \in Tenants : s # t => req'[s] = req[s]
      /\ req'[t].pc = "anchored" /\ req'[t].enqueued = req[t].enqueued
      /\ req'[t].cancelled = req[t].cancelled
  BY <1>1, ReqAt DEF QueueInv
<1>3. /\ disk' = disk /\ images' \in [Tenants -> SUBSET Row]
      /\ \A s \in Tenants : disk'[s] \in images'[s]
      /\ images'[t] = {disk[t]}
      /\ \A s \in Tenants : images'[s] \subseteq images[s]
      /\ catalog' = catalog /\ catImages' = catImages
  BY <1>1, AnchorAt DEF QueueInv
<1>4. Typed'
  BY <1>1, <1>2, <1>3 DEF QueueInv, Typed, records, ghosts, bounds
<1>5. UNCHANGED <<tasks, due, active, disk, worker, up, gens, ghosts>> /\ lock' = lock
      /\ ended' = ended
  BY <1>1, <1>3 DEF records, bounds, ghosts
<1>6. Told(t) /\ lock[t] = "request"
  BY <1>1 DEF QueueInv, Told
<1>7. ASSUME NEW s \in Tenants, NEW i \in Ids, NEW g \in Gens
      PROVE  /\ <<<<s, i>>, g>> \in req[t].enqueued =>
                  /\ s = t /\ t \in catalog
                  /\ \/ <<<<s, i>>, g>> \in ended
                     \/ /\ tasks[s][i] # NoTask /\ tasks[s][i].gen = g
                        /\ disk[t][i] # NoTask /\ disk[t][i].gen = g
             /\ <<<<s, i>>, g>> \in req[t].cancelled =>
                  /\ s = t
                  /\ tasks[s][i] # NoTask /\ tasks[s][i].gen = g => tasks[s][i].status = "cancelled"
                  /\ disk[t][i] # NoTask /\ disk[t][i].gen = g => disk[t][i].status = "cancelled"
  <2>1. Filed(t, i)
    BY DEF QueueInv
  <2> QED BY <1>1, <1>6, <2>1 DEF Told, Filed, Named_
<1>8. Told(t)'
  BY <1>2, <1>3, <1>5, <1>6, <1>7 DEF Told
<1> QED BY <1>1, <1>2, <1>3, <1>4, <1>5, <1>6, <1>8, RequestOnly

LEMMA AbandonStep ==
  ASSUME QueueInv, NEW t \in Tenants, Abandon(t)
  PROVE  QueueInv'
<1>1. /\ up = "up" /\ req[t].pc # "none" /\ Gone(t)
      /\ UNCHANGED <<records, pools, worker, up, bounds, ghosts>>
  BY DEF Abandon
<1>2. /\ req' \in [Tenants -> Request \cup {NoRequest}] /\ req'[t] = NoRequest
      /\ lock' \in [Tenants -> {"free", "request", "task"}] /\ lock'[t] = "free"
      /\ \A s \in Tenants : s # t => req'[s] = req[s] /\ lock'[s] = lock[s]
  BY <1>1, GoneAt DEF QueueInv
<1>3. Typed'
  BY <1>1, <1>2 DEF QueueInv, Typed, records, pools, ghosts, bounds
<1>4. UNCHANGED <<tasks, due, active, disk, worker, up, gens, ghosts>> /\ images' = images
      /\ catalog' = catalog /\ catImages' = catImages
  BY <1>1 DEF records, bounds, pools
<1>5. Told(t)' /\ lock[t] # "task" /\ req'[t].pc = "none"
  BY <1>1, <1>2, Apart DEF QueueInv, Told
<1> QED BY <1>1, <1>2, <1>3, <1>4, <1>5, RequestOnly

(* The client is told: what Told says of an anchored request is what the   *)
(* acknowledgements ask of every record.                                   *)
LEMMA RespondStep ==
  ASSUME QueueInv, NEW t \in Tenants, Respond(t)
  PROVE  QueueInv'
<1>1. /\ up = "up" /\ req[t].pc = "anchored" /\ Gone(t)
      /\ disk' = disk /\ images' = images /\ catalog' = catalog /\ catImages' = {catalog}
      /\ ackEnqueue' = ackEnqueue \cup req[t].enqueued
      /\ ackCancel' = ackCancel \cup req[t].cancelled
      /\ UNCHANGED <<records, worker, up, bounds, runs, done, ended>>
  BY DEF Respond, AnchorControlPool
<1>2. /\ req' \in [Tenants -> Request \cup {NoRequest}] /\ req'[t] = NoRequest
      /\ lock' \in [Tenants -> {"free", "request", "task"}] /\ lock'[t] = "free"
      /\ \A s \in Tenants : s # t => req'[s] = req[s] /\ lock'[s] = lock[s]
  BY <1>1, GoneAt DEF QueueInv
<1>3. /\ tasks' = tasks /\ due' = due /\ active' = active /\ worker' = worker /\ up' = up
      /\ gens' = gens /\ runs' = runs /\ done' = done /\ ended' = ended
  BY <1>1 DEF records, bounds
<1>4. req[t] \in Request /\ req[t].enqueued \subseteq Named /\ req[t].cancelled \subseteq Named
  <2>1. req[t] \in Request
    BY <1>1, Apart DEF QueueInv, Typed
  <2> QED BY <2>1 DEF Request
<1>5. Typed'
  BY <1>1, <1>2, <1>3, <1>4 DEF QueueInv, Typed, records, bounds
<1>6. Told(t)
  BY DEF QueueInv
<1>7. ASSUME NEW s \in Tenants, NEW i \in Ids, NEW x \in Records, Sound(s, i, x),
             \A g \in Gens : <<<<s, i>>, g>> \in req[t].enqueued \ ended => x # NoTask /\ x.gen = g,
             \A g \in Gens : <<<<s, i>>, g>> \in req[t].cancelled /\ x # NoTask /\ x.gen = g
                               => x.status = "cancelled"
      PROVE  Sound(s, i, x)'
  <2>1. x # NoTask => x.gen \in Gens /\ Named_(s, i, x) = <<<<s, i>>, x.gen>>
    BY <1>7, Apart, NamedIs
  <2> QED BY <1>1, <1>3, <1>7, <2>1 DEF Sound
<1>8. ImagesSound'
  <2> SUFFICES ASSUME NEW s \in Tenants, NEW i \in Ids, NEW image \in images[s]
               PROVE  Sound(s, i, image[i])' /\ Past(s, i, image[i])'
    BY <1>1 DEF ImagesSound
  <2>1. image[i] \in Records
    BY DEF QueueInv, Typed, Row
  <2>2. Sound(s, i, image[i]) /\ Past(s, i, image[i])
    BY DEF QueueInv, ImagesSound
  <2>3. Sound(s, i, image[i])'
    BY <1>1, <1>6, <1>7, <2>1, <2>2 DEF Told
  <2> QED BY <1>3, <2>2, <2>3 DEF Past
<1>9. MemorySound'
  <2> SUFFICES ASSUME NEW s \in Tenants, NEW i \in Ids
               PROVE  Sound(s, i, tasks[s][i])' /\ (Unseen(s, i)' \/ Past(s, i, tasks[s][i])')
    BY <1>3 DEF MemorySound
  <2>1. tasks[s][i] \in Records
    BY DEF QueueInv, Typed, File, Row
  <2>2. Sound(s, i, tasks[s][i]) /\ (Unseen(s, i) \/ Past(s, i, tasks[s][i]))
    BY <1>1 DEF QueueInv, MemorySound
  <2>3. Sound(s, i, tasks[s][i])'
    BY <1>1, <1>3, <1>6, <1>7, <2>1, <2>2 DEF Told
  <2> QED BY <1>3, <2>2, <2>3 DEF Past, Unseen
<1>10. Undrawn'
  <2> SUFFICES ASSUME NEW s \in Tenants, NEW i \in Ids, NEW g \in Gens, gens < g
      PROVE  /\ <<<<s, i>>, g>> \notin ackCancel'
             /\ \A u \in Tenants : req'[u].pc # "none" => <<<<s, i>>, g>> \notin req'[u].cancelled
             /\ \A o \in 0..MaxOccurrence : /\ runs[<<<<<<s, i>>, g>>, o>>] = 0
                                            /\ <<<<<<s, i>>, g>>, o>> \notin done
    BY <1>3 DEF Undrawn
  <2>1. /\ <<<<s, i>>, g>> \notin ackCancel
        /\ \A u \in Tenants : req[u].pc # "none" => <<<<s, i>>, g>> \notin req[u].cancelled
        /\ \A o \in 0..MaxOccurrence : /\ runs[<<<<<<s, i>>, g>>, o>>] = 0
                                       /\ <<<<<<s, i>>, g>>, o>> \notin done
    BY DEF QueueInv, Undrawn
  <2>2. req'[t].pc = "none"
    BY <1>2, Apart
  <2> QED BY <1>1, <1>2, <2>1, <2>2
<1>11. Flagged'
  <2>1. \A s \in Tenants, i \in Ids, g \in Gens :
          <<<<s, i>>, g>> \in ackEnqueue' \ ended => s \in catalog
    BY <1>1, <1>6 DEF QueueInv, Typed, Told, Flagged
  <2> QED BY <1>1, <1>3, <2>1 DEF Flagged
<1>12. Alone' /\ Stopped'
  BY <1>1, <1>3, AloneKept DEF Stopped
<1>13. ASSUME NEW s \in Tenants PROVE Told(s)'
  <2>1. CASE s = t
    BY <1>2, <2>1, Apart DEF Told
  <2>2. CASE s # t
    <3>1. \A i \in Ids : Moves(s, i)
      BY <1>1, <1>3 DEF Moves
    <3> QED BY <1>1, <1>2, <1>3, <2>2, <3>1, ToldKept DEF QueueInv
  <2> QED BY <2>1, <2>2
<1>14. ASSUME NEW w \in Workers PROVE Held(w)'
  <2>1. worker[w].pc # "idle" => worker[w].t \in Tenants
    BY BusyIs DEF QueueInv
  <2>2. lock[t] # "task"
    BY <1>1, <1>6 DEF Told
  <2> QED BY <1>1, <1>2, <1>3, <2>1, <2>2, HeldKept
<1>15. ASSUME NEW s \in Tenants, NEW i \in Ids PROVE Placed(s, i)' /\ Filed(s, i)'
  <2>1. Placed(s, i)'
    BY <1>3 DEF QueueInv, Placed, Holds
  <2>2. Filed(s, i)'
    BY <1>1, <1>3 DEF QueueInv, Filed
  <2> QED BY <2>1, <2>2
<1> QED BY <1>5, <1>8, <1>9, <1>10, <1>11, <1>12, <1>13, <1>14, <1>15 DEF QueueInv

-----------------------------------------------------------------------------
(* Steps of a request that write a record: enqueue, cancel and forget, and *)
(* each of them cut short.                                                 *)

LEMMA RequestWrites ==
  ASSUME QueueInv, Typed', up = "up", RecordsFree,
         NEW t \in Tenants, NEW i \in Ids, NEW x \in Records, write(t, i, x),
         lock[t] = "request",
         UNCHANGED <<active, catalog, catImages, worker, up, runs, done, ackEnqueue, ackCancel>>,
         ended \subseteq ended', gens <= gens',
         \A s \in Tenants : s # t => req'[s] = req[s] /\ lock'[s] = lock[s],
         \A s \in Tenants, j \in Ids : s # t \/ j # i =>
           /\ tasks'[s][j] = tasks[s][j]
           /\ \A ripe \in BOOLEAN : <<ripe, s, j>> \in due' <=> <<ripe, s, j>> \in due,
         tasks'[t][i] = tasks[t][i] \/ tasks'[t][i] = x,
         Sound(t, i, x)', Past(t, i, x)', Placed(t, i)', Filed(t, i)', Told(t)',
         \A w \in Workers : Holds(w, t, i) => Held(w)',
         req'[t].pc # "none" =>
           \A n \in req'[t].cancelled : \A s \in Tenants, j \in Ids, g \in Gens :
             n = <<<<s, j>>, g>> => g <= gens \/ (req[t].pc # "none" /\ n \in req[t].cancelled)
  PROVE  QueueInv'
<1>1. /\ active' = active /\ catalog' = catalog /\ catImages' = catImages /\ worker' = worker
      /\ up' = up /\ runs' = runs /\ done' = done
      /\ ackEnqueue' = ackEnqueue /\ ackCancel' = ackCancel /\ gens \in Nat /\ gens' \in Nat
  BY DEF QueueInv, Typed
<1>2. /\ disk'[t][i] = x
      /\ \A s \in Tenants, j \in Ids : s # t \/ j # i => disk'[s][j] = disk[s][j]
      /\ \A s \in Tenants, j \in Ids : \A image \in images'[s] :
           \/ s = t /\ j = i /\ image[j] = x
           \/ \E old \in images[s] : old[j] = image[j]
  BY WriteAt DEF QueueInv
<1>3. ImagesSound'
  <2>1. \A s \in Tenants, j \in Ids : \A image \in images'[s] :
           \/ \E old \in images[s] : old[j] = image[j]
           \/ Sound(s, j, image[j])' /\ Past(s, j, image[j])'
    BY <1>2
  <2> QED BY <1>1, <2>1, ImagesKept
<1>4. MemorySound'
  <2>1. \A s \in Tenants, j \in Ids : tasks'[s][j] = tasks[s][j] \/ (s = t /\ j = i /\ tasks'[s][j] = x)
    OBVIOUS
  <2>2. ASSUME NEW s \in Tenants, NEW j \in Ids
        PROVE  Sound(s, j, tasks[s][j]) /\ Past(s, j, tasks[s][j]) /\ tasks[s][j] \in Records
    <3>1. ~Unseen(s, j)
      BY DEF Unseen, RecordsFree
    <3> QED BY <3>1 DEF QueueInv, MemorySound, Typed, File, Row
  <2>3. ASSUME NEW s \in Tenants, NEW j \in Ids, NEW y \in Records, y = tasks[s][j]
        PROVE  Sound(s, j, y)' /\ Past(s, j, y)'
    BY <1>1, <2>2, <2>3, SoundKept
  <2>4. ASSUME NEW s \in Tenants, NEW j \in Ids, NEW y, y = tasks'[s][j]
        PROVE  Sound(s, j, y)' /\ Past(s, j, y)'
    BY <2>1, <2>2, <2>3, <2>4
  <2>5. ASSUME NEW s \in Tenants, NEW j \in Ids
        PROVE  Sound(s, j, tasks[s][j])' /\ Past(s, j, tasks[s][j])'
    BY <2>4
  <2> QED BY <2>5 DEF MemorySound
<1>5. Undrawn'
  <2>1. \A s \in Tenants : req'[s].pc # "none" =>
           \/ req[s].pc # "none" /\ req'[s].cancelled = req[s].cancelled
           \/ \A n \in req'[s].cancelled : \A u \in Tenants, j \in Ids, g \in Gens :
                n = <<<<u, j>>, g>> =>
                  g <= gens \/ (req[s].pc # "none" /\ n \in req[s].cancelled)
    OBVIOUS
  <2> QED BY <1>1, <2>1, UndrawnKept
<1>6. Alone' /\ Stopped' /\ Flagged'
  BY <1>1, AloneKept, FlaggedKept DEF Stopped
<1>7. ASSUME NEW s \in Tenants PROVE Told(s)'
  <2>1. CASE s # t
    <3>1. \A j \in Ids : Moves(s, j)
      BY <1>2, <2>1 DEF Moves
    <3> QED BY <1>1, <2>1, <3>1, ToldKept DEF QueueInv
  <2> QED BY <2>1
<1>8. ASSUME NEW w \in Workers PROVE Held(w)'
  <2>1. CASE Holds(w, t, i)
    BY <2>1
  <2>2. CASE worker[w].pc = "idle"
    BY <1>1, <2>2 DEF Held
  <2>3. CASE worker[w].pc # "idle" /\ ~Holds(w, t, i)
    <3>1. worker[w].t \in Tenants /\ worker[w].i \in Ids
          /\ (worker[w].t # t \/ worker[w].i # i)
      BY <2>3, BusyIs DEF QueueInv, Holds
    <3>2. worker[w].pc \in Locking => worker[w].t # t
      BY <2>3 DEF QueueInv, Held
    <3> QED BY <1>1, <1>2, <3>1, <3>2, HeldKept
  <2> QED BY <2>1, <2>2, <2>3
<1>9. ASSUME NEW s \in Tenants, NEW j \in Ids PROVE Placed(s, j)' /\ Filed(s, j)'
  <2>1. CASE s # t \/ j # i
    <3>1. Placed(s, j)'
      <4>1. \A w \in Workers : Holds(w, s, j)' <=> Holds(w, s, j)
        BY <1>1 DEF Holds
      <4> QED BY <2>1, <4>1, PlacedKept DEF QueueInv
    <3>2. Filed(s, j)'
      BY <1>2, <2>1 DEF QueueInv, Filed
    <3> QED BY <3>1, <3>2
  <2> QED BY <2>1
<1> QED BY <1>3, <1>4, <1>5, <1>6, <1>7, <1>8, <1>9 DEF QueueInv

(* What a request in its guest has of a task: nobody records an outcome,   *)
(* and no worker that has the task has the tenant.                         *)
LEMMA InHand ==
  ASSUME QueueInv, NEW t \in Tenants, NEW i \in Ids, InGuest(t), RecordsFree
  PROVE  /\ up = "up" /\ req[t].pc = "guest" /\ req[t] \in Request
         /\ Told(t) /\ lock[t] = "request"
         /\ tasks[t][i] \in Records /\ disk[t][i] \in Records /\ gens \in Nat
         /\ Sound(t, i, tasks[t][i]) /\ Past(t, i, tasks[t][i])
         /\ Placed(t, i) /\ Filed(t, i)
         /\ \A w \in Workers : Holds(w, t, i) =>
              Held(w) /\ worker[w].pc \in {"taken", "ran"} /\ <<t, i>> \in active
<1>1. up = "up" /\ req[t].pc = "guest" /\ Told(t) /\ lock[t] = "request"
  BY DEF InGuest, QueueInv, Told
<1>2. tasks[t][i] \in Records /\ disk[t][i] \in Records /\ gens \in Nat /\ req[t] \in Request
  BY <1>1, Apart DEF QueueInv, Typed, File, Row
<1>3. Sound(t, i, tasks[t][i]) /\ Past(t, i, tasks[t][i])
  <2>1. ~Unseen(t, i)
    BY DEF Unseen, RecordsFree
  <2> QED BY <1>1, <2>1 DEF QueueInv, MemorySound
<1>4. ASSUME NEW w \in Workers, Holds(w, t, i)
      PROVE  Held(w) /\ worker[w].pc \in {"taken", "ran"} /\ <<t, i>> \in active
  <2>1. worker[w].pc \in Pcs /\ worker[w].pc \notin Recording /\ Held(w) /\ worker[w].pc # "idle"
        /\ worker[w].t = t /\ worker[w].i = i
    BY <1>4, BusyIs DEF QueueInv, Holds, RecordsFree, Recording
  <2>2. worker[w].pc \notin Locking /\ <<t, i>> \in active
    BY <1>1, <2>1 DEF Held
  <2> QED BY <2>1, <2>2 DEF Pcs, Locking, Recording
<1> QED BY <1>1, <1>2, <1>3, <1>4 DEF QueueInv

LEMMA EnqueueStep ==
  ASSUME QueueInv, NEW t \in Tenants, NEW i \in Ids, NEW input \in Inputs, Enqueue(t, i, input)
  PROVE  QueueInv'
<1>0. PICK x : x = Fresh(input)
  OBVIOUS
<1> DEFINE n == Named_(t, i, x)
<1>1. /\ InGuest(t) /\ t \in catalog /\ RecordsFree /\ tasks[t][i] = NoTask /\ gens < MaxGens
      /\ write(t, i, x) /\ tasks' = Put(tasks, t, i, x) /\ gens' = gens + 1
      /\ Tell(t, "enqueued", n)
      /\ UNCHANGED <<active, lastTenant, catalog, catImages, lock, worker, up,
                     requests, stops, ghosts>>
  BY <1>0 DEF Enqueue, MayEnqueue
<1>2. PICK ripe \in BOOLEAN : due' = due \cup {<<ripe, t, i>>}
  BY DEF Enqueue
<1>3. /\ x \in Task /\ x \in Records /\ x # NoTask /\ x.gen = gens + 1 /\ x.status = "pending"
      /\ x.attempts = 0 /\ x.occurrence = 0
  BY <1>0, <1>1, FreshIs, Apart DEF QueueInv, Records
<1>4. /\ n \in Named /\ n = <<<<t, i>>, x.gen>> /\ x.gen \in Gens /\ 0 \in 0..MaxOccurrence
  BY <1>3, NamedIs
<1>5. /\ req[t].pc = "guest" /\ Told(t) /\ lock[t] = "request" /\ up = "up"
      /\ Sound(t, i, NoTask) /\ gens \in Nat /\ Placed(t, i)
      /\ \A w \in Workers : ~Holds(w, t, i)
  <2>1. ASSUME NEW w \in Workers, Holds(w, t, i) PROVE FALSE
    BY ZenonT(60), <1>1, <2>1, InHand DEF Held, Holds, Mine
  <2> QED BY <1>1, <2>1, InHand
<1>6. /\ tasks' \in File /\ tasks'[t][i] = x
      /\ \A s \in Tenants, j \in Ids : s # t \/ j # i => tasks'[s][j] = tasks[s][j]
  BY <1>1, <1>3, PutAt DEF QueueInv, Typed
<1>7. /\ disk' \in File /\ disk'[t][i] = x
      /\ images' \in [Tenants -> SUBSET Row] /\ \A s \in Tenants : disk'[s] \in images'[s]
      /\ \A s \in Tenants, j \in Ids : s # t \/ j # i => disk'[s][j] = disk[s][j]
  BY <1>1, <1>3, WriteAt DEF QueueInv
<1>8. /\ req' \in [Tenants -> Request \cup {NoRequest}]
      /\ \A s \in Tenants : s # t => req'[s] = req[s]
      /\ req'[t].pc = "guest" /\ req'[t].cancelled = req[t].cancelled
      /\ req'[t].enqueued = req[t].enqueued \cup {n}
  BY <1>1, <1>4, <1>5, TellAt DEF QueueInv
<1>9. /\ runs' = runs /\ done' = done /\ ended' = ended /\ ackEnqueue' = ackEnqueue
      /\ ackCancel' = ackCancel
  BY <1>1 DEF ghosts
<1>10. Typed'
  BY <1>1, <1>2, <1>6, <1>7, <1>8, <1>9, TasksAssumption DEF QueueInv, Typed
<1>11. Sound(t, i, x)' /\ Past(t, i, x)'
  <2>1. /\ n \notin ackCancel
        /\ \A o \in 0..MaxOccurrence : runs[<<n, o>>] = 0 /\ <<n, o>> \notin done
    BY <1>3, <1>4, <1>5 DEF QueueInv, Undrawn
  <2>2. \A g \in Gens : <<<<t, i>>, g>> \notin ackEnqueue \ ended
    BY <1>5 DEF Sound
  <2>3. 0 < MaxAttempts
    BY TasksAssumption
  <2>4. x.gen <= gens'
    BY <1>1, <1>3, <1>5
  <2>5. Named_(t, i, x) = n
    OBVIOUS
  <2> HIDE DEF n
  <2> QED BY <1>3, <1>4, <1>9, <2>1, <2>2, <2>3, <2>4, <2>5 DEF Sound, Past
<1>12. Placed(t, i)'
  <2>1. \A r \in BOOLEAN : <<r, t, i>> \notin due
    BY <1>1, <1>5, Apart DEF Placed
  <2>2. \A r \in BOOLEAN : <<r, t, i>> \in due' <=> r = ripe
    BY <1>2, <2>1
  <2>3. \A w \in Workers : ~Holds(w, t, i)'
    BY <1>1, <1>5 DEF Holds
  <2> QED BY <1>3, <1>6, <2>2, <2>3 DEF Placed
<1>13. Filed(t, i)'
  BY <1>3, <1>6, <1>7 DEF Filed, terminal
<1>14. Told(t)'
  <2>1. ASSUME NEW s \in Tenants, NEW j \in Ids, NEW g \in Gens
        PROVE  /\ <<<<s, j>>, g>> \in req'[t].enqueued =>
                    /\ s = t /\ t \in catalog
                    /\ \/ <<<<s, j>>, g>> \in ended
                       \/ tasks'[s][j] # NoTask /\ tasks'[s][j].gen = g
               /\ <<<<s, j>>, g>> \in req[t].cancelled =>
                    /\ s = t
                    /\ tasks'[s][j] # NoTask /\ tasks'[s][j].gen = g => tasks'[s][j].status = "cancelled"
                    /\ disk'[s][j] # NoTask /\ disk'[s][j].gen = g => disk'[s][j].status = "cancelled"
    <3>1. CASE s = t /\ j = i
      <4>1. <<<<s, j>>, g>> \in req[t].cancelled => g # x.gen
        <5>1. gens < g => <<<<s, j>>, g>> \notin req[t].cancelled
          BY <1>5 DEF QueueInv, Undrawn
        <5>2. gens < x.gen
          BY <1>3, <1>4, <1>5
        <5> QED BY <5>1, <5>2
      <4>2. <<<<s, j>>, g>> \in req[t].enqueued => <<<<s, j>>, g>> \in ended /\ t \in catalog
        BY <1>1, <1>5, <3>1 DEF Told
      <4> QED BY <1>1, <1>3, <1>4, <1>6, <1>7, <1>8, <3>1, <4>1, <4>2
    <3>2. CASE s # t \/ j # i
      BY <1>4, <1>5, <1>6, <1>7, <1>8, <3>2 DEF Told
    <3> QED BY <3>1, <3>2
  <2> QED BY <1>1, <1>5, <1>8, <1>9, <2>1 DEF Told
<1>15. \A s \in Tenants, j \in Ids : s # t \/ j # i =>
         \A r \in BOOLEAN : <<r, s, j>> \in due' <=> <<r, s, j>> \in due
  BY <1>2
<1>16. gens <= gens' /\ ended \subseteq ended' /\ lock' = lock
  BY <1>1, <1>5, <1>9
<1> QED BY <1>1, <1>3, <1>5, <1>6, <1>8, <1>9, <1>10, <1>11, <1>12, <1>13, <1>14, <1>15, <1>16,
           RequestWrites

LEMMA CancelStep ==
  ASSUME QueueInv, NEW t \in Tenants, NEW i \in Ids, Cancel(t, i)
  PROVE  QueueInv'
<1>0. PICK x, m : x = Cancelled(t, i) /\ m = tasks[t][i]
  OBVIOUS
<1> DEFINE n == Named_(t, i, m)
<1>1. /\ InGuest(t) /\ RecordsFree /\ m # NoTask
      /\ write(t, i, x) /\ tasks' = Put(tasks, t, i, x)
      /\ due' = {d \in due : <<d[2], d[3]>> # <<t, i>>}
      /\ Tell(t, "cancelled", n) /\ End(t, i, x)
      /\ UNCHANGED <<active, lastTenant, catalog, catImages, lock, worker, up, bounds,
                     runs, done, ackEnqueue, ackCancel>>
  BY <1>0 DEF Cancel
<1>2. /\ req[t].pc = "guest" /\ Told(t) /\ lock[t] = "request" /\ up = "up"
      /\ m \in Task /\ Sound(t, i, m) /\ gens \in Nat /\ Placed(t, i)
      /\ \A w \in Workers : Holds(w, t, i) => Held(w) /\ worker[w].pc \in {"taken", "ran"}
  BY <1>0, <1>1, InHand, Apart
<1>3. /\ x \in Task /\ x \in Records /\ x # NoTask /\ x.gen = m.gen /\ x.status = "cancelled"
      /\ x.attempts = m.attempts /\ x.occurrence = m.occurrence /\ terminal(x)
  BY <1>0, <1>2, CancelledIs, Apart DEF Records, terminal
<1>4. /\ n \in Named /\ n = <<<<t, i>>, m.gen>> /\ m.gen \in Gens /\ m.gen <= gens
      /\ Named_(t, i, x) = n
  BY <1>1, <1>2, <1>3, NamedIs DEF Sound
<1> HIDE DEF n
<1>5. ended' = ended \cup {n}
  BY <1>1, <1>3, <1>4 DEF End
<1>6. /\ tasks' \in File /\ tasks'[t][i] = x
      /\ \A s \in Tenants, j \in Ids : s # t \/ j # i => tasks'[s][j] = tasks[s][j]
  BY <1>1, <1>3, PutAt DEF QueueInv, Typed
<1>7. /\ disk' \in File /\ disk'[t][i] = x
      /\ images' \in [Tenants -> SUBSET Row] /\ \A s \in Tenants : disk'[s] \in images'[s]
      /\ \A s \in Tenants, j \in Ids : s # t \/ j # i => disk'[s][j] = disk[s][j]
  BY <1>1, <1>3, WriteAt DEF QueueInv
<1>8. /\ req' \in [Tenants -> Request \cup {NoRequest}]
      /\ \A s \in Tenants : s # t => req'[s] = req[s]
      /\ req'[t].pc = "guest" /\ req'[t].enqueued = req[t].enqueued
      /\ req'[t].cancelled = req[t].cancelled \cup {n}
  BY <1>1, <1>2, <1>4, TellAt DEF QueueInv
<1>9. Typed'
  BY <1>1, <1>4, <1>5, <1>6, <1>7, <1>8 DEF QueueInv, Typed, bounds
<1>10. gens' = gens /\ runs' = runs /\ done' = done /\ ackEnqueue' = ackEnqueue
       /\ ackCancel' = ackCancel /\ worker' = worker /\ lock' = lock /\ active' = active
  BY <1>1 DEF bounds
<1>11. Sound(t, i, x)' /\ Past(t, i, x)'
  BY <1>1, <1>2, <1>3, <1>4, <1>5, <1>10 DEF Sound, Past, n
<1>12. Placed(t, i)'
  <2>1. \A r \in BOOLEAN : <<r, t, i>> \notin due'
    BY <1>1
  <2> QED BY <1>3, <1>6, <2>1 DEF Placed
<1>13. Filed(t, i)'
  BY <1>3, <1>4, <1>5, <1>6 DEF Filed
<1>14. Told(t)'
  <2>1. ASSUME NEW s \in Tenants, NEW j \in Ids, NEW g \in Gens
        PROVE  /\ <<<<s, j>>, g>> \in req[t].enqueued =>
                    /\ s = t /\ t \in catalog
                    /\ \/ <<<<s, j>>, g>> \in ended
                       \/ tasks'[s][j] # NoTask /\ tasks'[s][j].gen = g
               /\ <<<<s, j>>, g>> \in req'[t].cancelled =>
                    /\ s = t
                    /\ tasks'[s][j] # NoTask /\ tasks'[s][j].gen = g => tasks'[s][j].status = "cancelled"
                    /\ disk'[s][j] # NoTask /\ disk'[s][j].gen = g => disk'[s][j].status = "cancelled"
    <3>1. CASE s = t /\ j = i
      BY <1>0, <1>2, <1>3, <1>6, <1>7, <3>1 DEF Told
    <3>2. CASE s # t \/ j # i
      BY <1>2, <1>4, <1>6, <1>7, <1>8, <3>2 DEF Told
    <3> QED BY <3>1, <3>2
  <2> QED BY <1>1, <1>2, <1>5, <1>8, <2>1 DEF Told
<1>15. \A s \in Tenants, j \in Ids : s # t \/ j # i =>
         \A r \in BOOLEAN : <<r, s, j>> \in due' <=> <<r, s, j>> \in due
  BY <1>1
<1>16. ASSUME NEW w \in Workers, Holds(w, t, i) PROVE Held(w)'
  <2>1. /\ Held(w) /\ worker[w].pc \in {"taken", "ran"} /\ Mine(w) = m /\ Mine(w)' = x
        /\ worker[w].t = t /\ worker[w].i = i
    BY <1>0, <1>2, <1>6, <1>10, <1>16 DEF Holds, Mine
  <2>2. <<t, i>> \in active
    BY <2>1 DEF Held, Recording
  <2>3. worker[w].run = <<Named_(t, i, x), x.occurrence>>
    BY <1>3, <2>1 DEF Held, Named_
  <2>4. worker[w].pc = "taken" => worker[w].outcome = "none"
    BY <2>1 DEF Held
  <2> QED BY <1>3, <1>10, <2>1, <2>2, <2>3, <2>4 DEF Held, Locking, Called, Recording
<1>17. \A k \in req'[t].cancelled : \A s \in Tenants, j \in Ids, g \in Gens :
         k = <<<<s, j>>, g>> => g <= gens \/ (req[t].pc # "none" /\ k \in req[t].cancelled)
  BY <1>2, <1>4, <1>8
<1>18. gens <= gens' /\ ended \subseteq ended' /\ lock' = lock
  BY <1>2, <1>5, <1>10
<1> QED BY <1>1, <1>2, <1>3, <1>6, <1>8, <1>9, <1>11, <1>12, <1>13, <1>14, <1>15, <1>16, <1>17,
           <1>18, RequestWrites

(* A task that may be forgotten has no worker and is not due.              *)
LEMMA ForgetHand ==
  ASSUME QueueInv, NEW t \in Tenants, NEW i \in Ids, MayForget(t, i)
  PROVE  /\ InGuest(t) /\ RecordsFree /\ tasks[t][i] \in Task /\ tasks[t][i] # NoTask
         /\ terminal(tasks[t][i]) /\ Named_(t, i, tasks[t][i]) \in ended
         /\ \A g \in Gens : <<<<t, i>>, g>> \in ackEnqueue => <<<<t, i>>, g>> \in ended
         /\ \A w \in Workers : ~Holds(w, t, i)
         /\ \A r \in BOOLEAN : <<r, t, i>> \notin due
<1>1. InGuest(t) /\ RecordsFree /\ <<t, i>> \notin active /\ terminal(tasks[t][i])
  BY DEF MayForget
<1>2. tasks[t][i] # NoTask /\ tasks[t][i] \in Task
  BY <1>1, InHand, Apart DEF terminal
<1>3. Named_(t, i, tasks[t][i]) \in ended
  BY <1>1, <1>2 DEF QueueInv, Filed
<1>4. \A g \in Gens : <<<<t, i>>, g>> \in ackEnqueue => <<<<t, i>>, g>> \in ended
  BY <1>1, <1>3, InHand DEF Sound, Named_
<1>5. tasks[t][i].status # "pending"
  BY <1>1 DEF terminal
<1>6. \A r \in BOOLEAN : <<r, t, i>> \notin due
  BY <1>1, <1>5, InHand DEF Placed
<1>7. \A w \in Workers : ~Holds(w, t, i)
  BY <1>1, InHand
<1> QED BY <1>1, <1>2, <1>3, <1>4, <1>6, <1>7

LEMMA ForgetStep ==
  ASSUME QueueInv, NEW t \in Tenants, NEW i \in Ids, Forget(t, i)
  PROVE  QueueInv'
<1>1. /\ MayForget(t, i) /\ write(t, i, NoTask) /\ tasks' = Put(tasks, t, i, NoTask)
      /\ UNCHANGED <<due, active, lastTenant, catalog, catImages, lock, req, worker, up,
                     bounds, ghosts>>
  BY DEF Forget
<1>2. /\ InGuest(t) /\ RecordsFree /\ tasks[t][i] \in Task /\ tasks[t][i] # NoTask
      /\ Named_(t, i, tasks[t][i]) \in ended
      /\ \A g \in Gens : <<<<t, i>>, g>> \in ackEnqueue => <<<<t, i>>, g>> \in ended
      /\ \A w \in Workers : ~Holds(w, t, i)
      /\ \A r \in BOOLEAN : <<r, t, i>> \notin due
  BY <1>1, ForgetHand
<1>3. req[t].pc = "guest" /\ Told(t) /\ lock[t] = "request" /\ up = "up" /\ gens \in Nat
  BY <1>2, InHand
<1>4. NoTask \in Records /\ NoTask.status = "none"
  BY Apart DEF Records
<1>5. /\ tasks' \in File /\ tasks'[t][i] = NoTask
      /\ \A s \in Tenants, j \in Ids : s # t \/ j # i => tasks'[s][j] = tasks[s][j]
  BY <1>1, <1>4, PutAt DEF QueueInv, Typed
<1>6. /\ disk' \in File /\ disk'[t][i] = NoTask
      /\ images' \in [Tenants -> SUBSET Row] /\ \A s \in Tenants : disk'[s] \in images'[s]
      /\ \A s \in Tenants, j \in Ids : s # t \/ j # i => disk'[s][j] = disk[s][j]
  BY <1>1, <1>4, WriteAt DEF QueueInv
<1>7. /\ gens' = gens /\ runs' = runs /\ done' = done /\ ackEnqueue' = ackEnqueue
      /\ ackCancel' = ackCancel /\ ended' = ended /\ worker' = worker /\ lock' = lock
      /\ active' = active /\ due' = due /\ req' = req /\ up' = up
  BY <1>1 DEF bounds, ghosts
<1>8. Typed'
  BY <1>1, <1>5, <1>6 DEF QueueInv, Typed, bounds, ghosts
<1>9. Sound(t, i, NoTask)' /\ Past(t, i, NoTask)'
  BY <1>2, <1>7 DEF Sound, Past
<1>10. Placed(t, i)'
  BY <1>2, <1>4, <1>5, <1>7 DEF Placed
<1>11. Filed(t, i)'
  BY <1>5 DEF Filed
<1>12. Told(t)'
  <2>1. ASSUME NEW s \in Tenants, NEW j \in Ids, NEW g \in Gens
        PROVE  /\ <<<<s, j>>, g>> \in req[t].enqueued =>
                    /\ s = t /\ t \in catalog
                    /\ \/ <<<<s, j>>, g>> \in ended
                       \/ tasks'[s][j] # NoTask /\ tasks'[s][j].gen = g
               /\ <<<<s, j>>, g>> \in req[t].cancelled =>
                    /\ s = t
                    /\ tasks'[s][j] # NoTask /\ tasks'[s][j].gen = g => tasks'[s][j].status = "cancelled"
                    /\ disk'[s][j] # NoTask /\ disk'[s][j].gen = g => disk'[s][j].status = "cancelled"
    <3>1. CASE s = t /\ j = i
      BY <1>2, <1>3, <1>5, <1>6, <3>1 DEF Told, Named_
    <3>2. CASE s # t \/ j # i
      BY <1>3, <1>5, <1>6, <3>2 DEF Told
    <3> QED BY <3>1, <3>2
  <2> QED BY <1>1, <1>3, <1>7, <2>1 DEF Told
<1>13. gens <= gens' /\ ended \subseteq ended'
       /\ UNCHANGED <<active, catalog, catImages, worker, up, runs, done, ackEnqueue, ackCancel>>
  BY <1>1, <1>3, <1>7
<1> QED BY <1>2, <1>1, <1>3, <1>4, <1>5, <1>7, <1>8, <1>9, <1>10, <1>11, <1>12, <1>13,
           RequestWrites

(* The file has changed and the memory has not.                            *)
LEMMA CutShortStep ==
  ASSUME QueueInv, NEW t \in Tenants, CutShort(t)
  PROVE  QueueInv'
<1>1. /\ Gone(t)
      /\ UNCHANGED <<records, catalog, catImages, worker, up, requests, stops, ghosts>>
  BY DEF CutShort
<1>2. PICK i \in Ids, x \in Records :
        /\ write(t, i, x) /\ InGuest(t) /\ RecordsFree
        /\ \/ /\ tasks[t][i] = NoTask /\ gens < MaxGens /\ gens' = gens + 1
              /\ \E input \in Inputs : x = Fresh(input)
           \/ tasks[t][i] # NoTask /\ x = Cancelled(t, i) /\ gens' = gens
           \/ MayForget(t, i) /\ x = NoTask /\ gens' = gens
  <2>1. PICK i \in Ids :
       \/ \E input \in Inputs :
            /\ MayEnqueue(t, i)
            /\ write(t, i, Fresh(input)) /\ gens' = gens + 1
       \/ /\ InGuest(t) /\ RecordsFree /\ tasks[t][i] # NoTask
          /\ write(t, i, Cancelled(t, i)) /\ UNCHANGED gens
       \/ /\ MayForget(t, i)
          /\ write(t, i, NoTask) /\ UNCHANGED gens
    BY DEF CutShort
  <2>2. CASE \E input \in Inputs :
            MayEnqueue(t, i) /\ write(t, i, Fresh(input)) /\ gens' = gens + 1
    <3>1. PICK input \in Inputs :
            MayEnqueue(t, i) /\ write(t, i, Fresh(input)) /\ gens' = gens + 1
      BY <2>2
    <3>2. Fresh(input) \in Records
      BY <3>1, FreshIs DEF MayEnqueue, QueueInv, Records
    <3> QED BY <3>1, <3>2 DEF MayEnqueue
  <2>3. CASE /\ InGuest(t) /\ RecordsFree /\ tasks[t][i] # NoTask
             /\ write(t, i, Cancelled(t, i)) /\ UNCHANGED gens
    <3>1. Cancelled(t, i) \in Records
      BY <2>3, InHand, Apart, CancelledIs DEF Records
    <3> QED BY <2>3, <3>1
  <2>4. CASE MayForget(t, i) /\ write(t, i, NoTask) /\ UNCHANGED gens
    <3>1. NoTask \in Records
      BY DEF Records
    <3> QED BY <2>4, <3>1 DEF MayForget
  <2> QED BY <2>1, <2>2, <2>3, <2>4
<1>3. PICK m : m = tasks[t][i]
  OBVIOUS
<1>4. /\ req[t].pc = "guest" /\ Told(t) /\ lock[t] = "request" /\ up = "up" /\ gens \in Nat
      /\ m \in Records /\ Sound(t, i, m) /\ Past(t, i, m) /\ Placed(t, i) /\ Filed(t, i)
      /\ \A w \in Workers : Holds(w, t, i) => Held(w) /\ worker[w].pc \in {"taken", "ran"}
  BY <1>2, <1>3, InHand
<1>5. /\ tasks' = tasks /\ due' = due /\ active' = active /\ worker' = worker /\ up' = up
      /\ runs' = runs /\ done' = done /\ ended' = ended /\ ackEnqueue' = ackEnqueue
      /\ ackCancel' = ackCancel
  BY <1>1 DEF records, ghosts
<1>6. /\ req' \in [Tenants -> Request \cup {NoRequest}] /\ req'[t] = NoRequest
      /\ lock' \in [Tenants -> {"free", "request", "task"}] /\ lock'[t] = "free"
      /\ \A s \in Tenants : s # t => req'[s] = req[s] /\ lock'[s] = lock[s]
  BY <1>1, GoneAt DEF QueueInv
<1>7. /\ disk' \in File /\ disk'[t][i] = x
      /\ images' \in [Tenants -> SUBSET Row] /\ \A s \in Tenants : disk'[s] \in images'[s]
  BY <1>2, WriteAt DEF QueueInv
<1>8. gens' \in 0..MaxGens /\ gens <= gens'
  BY <1>2, <1>4, TasksAssumption DEF QueueInv, Typed
<1>9. Typed'
  BY <1>1, <1>5, <1>6, <1>7, <1>8 DEF QueueInv, Typed, records, ghosts
<1>10. Sound(t, i, x)' /\ Past(t, i, x)' /\ Filed(t, i)'
  <2>1. CASE /\ m = NoTask /\ gens < MaxGens /\ gens' = gens + 1
             /\ \E input \in Inputs : x = Fresh(input)
    <3>1. PICK input \in Inputs : x = Fresh(input)
      BY <2>1
    <3>2. /\ x \in Task /\ x # NoTask /\ x.gen = gens + 1 /\ x.status = "pending"
          /\ x.attempts = 0 /\ x.occurrence = 0
      BY <2>1, <3>1, FreshIs, Apart DEF QueueInv
    <3>3. Named_(t, i, x) = <<<<t, i>>, x.gen>> /\ x.gen \in Gens
      BY <3>2, NamedIs
    <3>4. /\ <<<<t, i>>, x.gen>> \notin ackCancel
          /\ \A o \in 0..MaxOccurrence : runs[<<<<<<t, i>>, x.gen>>, o>>] = 0
                                         /\ <<<<<<t, i>>, x.gen>>, o>> \notin done
      BY <1>4, <3>2, <3>3 DEF QueueInv, Undrawn
    <3>5. \A g \in Gens : <<<<t, i>>, g>> \notin ackEnqueue \ ended
      BY <1>4, <2>1 DEF Sound
    <3>6. 0 < MaxAttempts /\ 0 \in 0..MaxOccurrence /\ x.gen <= gens'
      BY <1>4, <2>1, <3>2, TasksAssumption
    <3>7. Sound(t, i, x)' /\ Past(t, i, x)'
      BY <1>5, <3>2, <3>3, <3>4, <3>5, <3>6 DEF Sound, Past
    <3> QED BY <1>3, <1>5, <2>1, <3>7 DEF Filed
  <2>2. CASE m # NoTask /\ x = Cancelled(t, i) /\ gens' = gens
    <3>1. m \in Task
      BY <1>4, <2>2, Apart
    <3>2. /\ x \in Task /\ x # NoTask /\ x.gen = m.gen /\ x.status = "cancelled"
          /\ x.attempts = m.attempts /\ x.occurrence = m.occurrence /\ terminal(x)
      BY <1>3, <2>2, <3>1, CancelledIs, Apart DEF terminal
    <3>3. Named_(t, i, x) = Named_(t, i, m)
      BY <3>2 DEF Named_
    <3>4. Sound(t, i, x)' /\ Past(t, i, x)'
      BY <1>4, <1>5, <2>2, <3>2, <3>3 DEF Sound, Past
    <3>5. Filed(t, i)'
      BY <1>3, <1>4, <1>5, <1>7, <3>2 DEF Filed
    <3> QED BY <3>4, <3>5
  <2>3. CASE MayForget(t, i) /\ x = NoTask /\ gens' = gens
    <3>1. /\ terminal(m) /\ Named_(t, i, m) \in ended
          /\ \A g \in Gens : <<<<t, i>>, g>> \in ackEnqueue => <<<<t, i>>, g>> \in ended
      BY <1>3, <2>3, ForgetHand
    <3>2. Sound(t, i, x)' /\ Past(t, i, x)'
      BY <1>5, <2>3, <3>1 DEF Sound, Past
    <3>3. Filed(t, i)'
      BY <1>3, <1>5, <3>1 DEF Filed
    <3> QED BY <3>2, <3>3
  <2> QED BY <1>2, <1>3, <2>1, <2>2, <2>3
<1>11. Placed(t, i)'
  BY <1>4, <1>5 DEF Placed, Holds
<1>12. Told(t)' /\ req'[t].pc = "none"
  BY <1>6, Apart DEF Told
<1>13. ASSUME NEW w \in Workers, Holds(w, t, i) PROVE Held(w)'
  <2>1. Held(w) /\ worker[w].pc \in {"taken", "ran"}
    BY <1>4, <1>13
  <2>2. Mine(w)' = Mine(w)
    BY <1>5 DEF Mine
  <2> QED BY <1>5, <2>1, <2>2 DEF Held, Locking, Called, Recording
<1>14. UNCHANGED <<active, catalog, catImages, worker, up, runs, done, ackEnqueue, ackCancel>>
  BY <1>1, <1>5
<1> QED BY <1>2, <1>4, <1>5, <1>6, <1>8, <1>9, <1>10, <1>11, <1>12, <1>13, <1>14, RequestWrites

-----------------------------------------------------------------------------
(* Steps of a worker that write no record.                                 *)

LEMMA WorkerOnly ==
  ASSUME QueueInv, Typed', up = "up", NEW w \in Workers, worker[w].pc # "anchored",
         UNCHANGED <<tasks, disk, catalog, catImages, req, up, gens, ghosts>>,
         \A v \in Workers : v # w => worker'[v] = worker[v],
         \A s \in Tenants : images'[s] \subseteq images[s],
         \A s \in Tenants : req[s].pc # "none" => lock'[s] = lock[s],
         \A v \in Workers : v # w /\ worker[v].pc # "idle" =>
           /\ worker[v].pc \in Locking => lock'[worker[v].t] = lock[worker[v].t]
           /\ <<worker[v].t, worker[v].i>> \in active => <<worker[v].t, worker[v].i>> \in active',
         Held(w)', Alone', \A s \in Tenants, j \in Ids : Placed(s, j)'
  PROVE  QueueInv'
<1>1. /\ tasks' = tasks /\ disk' = disk /\ catalog' = catalog /\ catImages' = catImages
      /\ req' = req /\ up' = up /\ gens' = gens /\ runs' = runs /\ done' = done
      /\ ended' = ended /\ ackEnqueue' = ackEnqueue /\ ackCancel' = ackCancel /\ gens \in Nat
  BY DEF ghosts, QueueInv, Typed
<1>2. \A v \in Workers : worker[v].pc = "anchored" => worker'[v] = worker[v]
  OBVIOUS
<1>3. ImagesSound' /\ MemorySound' /\ \A s \in Tenants, i \in Ids : Filed(s, i)'
  BY <1>1, <1>2, RecordsKept
<1>4. Undrawn' /\ Flagged' /\ Stopped'
  BY <1>1, UndrawnKept, FlaggedKept DEF Stopped
<1>5. ASSUME NEW s \in Tenants PROVE Told(s)'
  <2>1. \A i \in Ids : Moves(s, i)
    BY <1>1 DEF Moves
  <2> QED BY <1>1, <2>1, ToldKept DEF QueueInv
<1>6. ASSUME NEW v \in Workers PROVE Held(v)'
  <2>1. CASE v = w
    BY <2>1
  <2>2. CASE v # w
    <3>1. worker[v].pc # "idle" => worker[v].t \in Tenants
      BY BusyIs DEF QueueInv
    <3> QED BY <1>1, <2>2, <3>1, HeldKept
  <2> QED BY <2>1, <2>2
<1> QED BY <1>3, <1>4, <1>5, <1>6 DEF QueueInv

(* A worker that keeps its task leaves every task where it is.             *)
LEMMA PlacesKept ==
  ASSUME QueueInv, NEW w \in Workers, worker[w].pc # "idle", worker'[w].pc # "idle",
         worker'[w].t = worker[w].t, worker'[w].i = worker[w].i,
         \A v \in Workers : v # w => worker'[v] = worker[v], tasks' = tasks, due' = due
  PROVE  \A s \in Tenants, j \in Ids : Placed(s, j)'
<1> SUFFICES ASSUME NEW s \in Tenants, NEW j \in Ids PROVE Placed(s, j)'
  OBVIOUS
<1>1. \A v \in Workers : Holds(v, s, j)' <=> Holds(v, s, j)
  BY DEF Holds
<1> QED BY <1>1, PlacedKept DEF QueueInv

LEMMA TakeDueStep ==
  ASSUME QueueInv, NEW w \in Workers, NEW t \in Tenants, NEW i \in Ids, TakeDue(w, t, i)
  PROVE  QueueInv'
<1>0. PICK m, n : m = tasks[t][i] /\ n = [pc |-> "taken", t |-> t, i |-> i, outcome |-> "none",
                                          run |-> <<Named_(t, i, m), m.occurrence>>]
  OBVIOUS
<1>1. /\ up = "up" /\ RecordsFree /\ worker[w].pc = "idle" /\ <<TRUE, t, i>> \in due
      /\ m # NoTask /\ due' = due \ {<<TRUE, t, i>>} /\ lastTenant' = t
      /\ active' = active \cup {<<t, i>>} /\ worker' = [worker EXCEPT ![w] = n]
      /\ UNCHANGED <<tasks, pools, lock, req, up, bounds, ghosts>>
  BY <1>0 DEF TakeDue
<1>2. m \in Task
  BY <1>0, <1>1, Apart DEF QueueInv, Typed, File, Row
<1>3. /\ n \in Running /\ n.pc = "taken" /\ n.t = t /\ n.i = i /\ n.outcome = "none"
      /\ n.run = <<Named_(t, i, m), m.occurrence>>
  BY <1>0, <1>2, NamedIs DEF Running, Pcs
<1>4. /\ worker' \in [Workers -> Running \cup {Idle}] /\ worker'[w] = n
      /\ \A v \in Workers : v # w => worker'[v] = worker[v]
  BY <1>1, <1>3 DEF QueueInv, Typed
<1>5. Typed'
  <2>1. active' \subseteq Keys
    BY <1>1 DEF QueueInv, Typed, Keys
  <2>2. due' \subseteq BOOLEAN \X Tenants \X Ids /\ lastTenant' \in Tenants \cup {0}
    BY <1>1 DEF QueueInv, Typed
  <2> QED BY <1>1, <1>4, <2>1, <2>2 DEF QueueInv, Typed, pools, bounds, ghosts
<1>6. Placed(t, i) /\ m.status = "pending" /\ <<FALSE, t, i>> \notin due
      /\ \A v \in Workers : ~Holds(v, t, i)
  BY <1>0, <1>1 DEF QueueInv, Placed
<1>7. Held(w)'
  <2>1. Mine(w)' = m
    BY <1>0, <1>1, <1>3, <1>4 DEF Mine
  <2> QED BY <1>1, <1>3, <1>4, <1>6, <2>1 DEF Held, Locking, Called, Recording
<1>8. Alone'
  BY <1>3, <1>4, <1>6 DEF QueueInv, Alone, Holds, Locking
<1>9. ASSUME NEW s \in Tenants, NEW j \in Ids PROVE Placed(s, j)'
  <2>1. CASE s = t /\ j = i
    <3>1. \A r \in BOOLEAN : <<r, t, i>> \notin due'
      BY <1>1, <1>6
    <3>2. Holds(w, t, i)' /\ tasks'[t][i].status = "pending"
      BY <1>0, <1>1, <1>3, <1>4, <1>6 DEF Holds
    <3> QED BY <2>1, <3>1, <3>2 DEF Placed
  <2>2. CASE s # t \/ j # i
    <3>1. \A v \in Workers : Holds(v, s, j)' <=> Holds(v, s, j)
      BY <1>1, <1>3, <1>4, <2>2 DEF Holds
    <3>2. \A r \in BOOLEAN : <<r, s, j>> \in due' <=> <<r, s, j>> \in due
      BY <1>1, <2>2
    <3> QED BY <1>1, <3>1, <3>2, PlacedKept DEF QueueInv
  <2> QED BY <2>1, <2>2
<1>10. UNCHANGED <<tasks, disk, catalog, catImages, req, up, gens, ghosts>> /\ images' = images
       /\ lock' = lock
  BY <1>1 DEF pools, bounds
<1> QED BY <1>1, <1>4, <1>5, <1>7, <1>8, <1>9, <1>10, WorkerOnly

LEMMA TryLockStep ==
  ASSUME QueueInv, NEW w \in Workers, TryLock(w)
  PROVE  QueueInv'
<1>1. up = "up" /\ worker[w].pc = "taken"
      /\ UNCHANGED <<records, pools, req, up, bounds, ghosts>>
  BY DEF TryLock, At
<1>2. PICK t : t = worker[w].t
  OBVIOUS
<1>3. PICK pc \in {"locked", "ran"} :
        /\ Step(w, pc)
        /\ \/ pc = "locked" /\ lock[t] = "free" /\ lock' = [lock EXCEPT ![t] = "task"]
           \/ pc = "ran" /\ lock' = lock
  BY <1>2 DEF TryLock
<1>4. /\ worker' \in [Workers -> Running \cup {Idle}]
      /\ \A v \in Workers : v # w => worker'[v] = worker[v]
      /\ worker'[w] \in Running /\ worker'[w].pc = pc
      /\ worker'[w].t = t /\ worker'[w].i = worker[w].i
      /\ worker'[w].run = worker[w].run /\ worker'[w].outcome = worker[w].outcome
  <2>1. pc \in Pcs
    BY DEF Pcs
  <2> QED BY <1>1, <1>2, <1>3, <2>1, StepAt DEF QueueInv
<1>5. t \in Tenants /\ Held(w)
  BY <1>1, <1>2, BusyIs DEF QueueInv
<1>6. /\ lock' \in [Tenants -> {"free", "request", "task"}]
      /\ \A s \in Tenants : lock'[s] = IF s = t /\ pc = "locked" THEN "task" ELSE lock[s]
  BY <1>3, <1>5 DEF QueueInv, Typed
<1>7. Typed'
  BY <1>1, <1>4, <1>6 DEF QueueInv, Typed, records, pools, bounds, ghosts
<1>8. tasks' = tasks /\ active' = active /\ due' = due /\ images' = images
      /\ UNCHANGED <<tasks, disk, catalog, catImages, req, up, gens, ghosts>>
  BY <1>1 DEF records, pools, bounds
<1>9. Held(w)'
  <2>1. Mine(w)' = Mine(w)
    BY <1>2, <1>4, <1>8 DEF Mine
  <2>2. pc = "locked" => lock'[t] = "task"
    BY <1>5, <1>6
  <2> QED BY <1>1, <1>2, <1>4, <1>5, <1>8, <2>1, <2>2 DEF Held, Locking, Called, Recording
<1>10. pc = "locked" => lock[t] = "free"
  BY <1>3
<1>11. Alone'
  <2>1. \A v \in Workers : worker[v].pc \in Locking => lock[worker[v].t] = "task"
    BY DEF QueueInv, Held, Locking
  <2> QED BY <1>1, <1>2, <1>4, <1>10, <2>1 DEF QueueInv, Alone, Locking
<1>12. \A s \in Tenants, j \in Ids : Placed(s, j)'
  BY <1>1, <1>2, <1>4, <1>8, PlacesKept
<1>13. \A s \in Tenants : req[s].pc # "none" => lock'[s] = lock[s]
  BY <1>6, <1>10 DEF QueueInv, Told
<1>14. \A v \in Workers : v # w /\ worker[v].pc # "idle" =>
         (worker[v].pc \in Locking => lock'[worker[v].t] = lock[worker[v].t])
  <2>1. \A v \in Workers : worker[v].pc # "idle" => worker[v].t \in Tenants
    BY BusyIs DEF QueueInv
  <2>2. \A v \in Workers : worker[v].pc \in Locking => lock[worker[v].t] = "task"
    BY DEF QueueInv, Held, Locking
  <2> QED BY <1>6, <1>10, <2>1, <2>2
<1> QED BY <1>1, <1>4, <1>7, <1>8, <1>9, <1>11, <1>12, <1>13, <1>14, WorkerOnly

(* run_background returns, whichever way.                                  *)
LEMMA ReturnStep ==
  ASSUME QueueInv, NEW w \in Workers, up = "up", worker[w].pc \in Locking,
         NEW o \in {"ok", "err"}, Returns(w, o), Mine(w).status \in {"pending", "running", "cancelled"},
         UNCHANGED <<records, pools, req, up, gens, requests, ghosts>>, stops' \in 0..MaxStops
  PROVE  QueueInv'
<1>1. PICK t : t = worker[w].t
  OBVIOUS
<1>2. /\ worker' \in [Workers -> Running \cup {Idle}]
      /\ \A v \in Workers : v # w => worker'[v] = worker[v]
      /\ worker'[w] \in Running /\ worker'[w].pc = "ran"
      /\ worker'[w].t = t /\ worker'[w].i = worker[w].i
      /\ worker'[w].run = worker[w].run /\ worker'[w].outcome = o
      /\ lock' = [lock EXCEPT ![t] = "free"]
  BY <1>1, ReturnsAt DEF QueueInv, Locking
<1>3. t \in Tenants /\ Held(w) /\ lock[t] = "task" /\ worker[w].pc # "idle"
  BY <1>1, BusyIs DEF QueueInv, Held, Locking
<1>4. /\ lock' \in [Tenants -> {"free", "request", "task"}]
      /\ \A s \in Tenants : lock'[s] = IF s = t THEN "free" ELSE lock[s]
  BY <1>2, <1>3 DEF QueueInv, Typed
<1>5. Typed'
  BY <1>2, <1>4 DEF QueueInv, Typed, records, pools, ghosts
<1>6. tasks' = tasks /\ active' = active /\ due' = due /\ images' = images
      /\ UNCHANGED <<tasks, disk, catalog, catImages, req, up, gens, ghosts>>
  BY DEF records, pools
<1>7. Held(w)'
  <2>1. Mine(w)' = Mine(w)
    BY <1>1, <1>2, <1>6 DEF Mine
  <2>2. <<worker[w].t, worker[w].i>> \in active /\ Mine(w) # NoTask
        /\ worker[w].run = <<Named_(worker[w].t, worker[w].i, Mine(w)), Mine(w).occurrence>>
    BY <1>3 DEF Held, Locking, Recording
  <2> QED BY <1>1, <1>2, <1>6, <2>1, <2>2 DEF Held, Locking, Called, Recording
<1>8. Alone'
  BY <1>1, <1>2, <1>3, AloneKept DEF Locking
<1>9. \A s \in Tenants, j \in Ids : Placed(s, j)'
  BY <1>1, <1>2, <1>3, <1>6, PlacesKept
<1>10. \A s \in Tenants : req[s].pc # "none" => lock'[s] = lock[s]
  BY <1>3, <1>4 DEF QueueInv, Told
<1>11. \A v \in Workers : v # w /\ worker[v].pc # "idle" =>
         (worker[v].pc \in Locking => lock'[worker[v].t] = lock[worker[v].t])
  <2>1. \A v \in Workers : worker[v].pc # "idle" => worker[v].t \in Tenants
    BY BusyIs DEF QueueInv
  <2>2. \A v \in Workers : v # w /\ worker[v].pc # "idle" /\ worker[v].pc \in Locking
          => worker[v].t # t
    BY <1>1, <1>3 DEF QueueInv, Alone
  <2> QED BY <1>4, <2>1, <2>2
<1>12. worker[w].pc # "anchored"
  BY DEF Locking
<1> QED BY <1>2, <1>5, <1>6, <1>7, <1>8, <1>9, <1>10, <1>11, <1>12, WorkerOnly

LEMMA ReturnsStep ==
  ASSUME QueueInv, NEW w \in Workers,
         BeginRefused(w) \/ BeginFails(w) \/ BeginUnwritten(w) \/ GuestReturns(w)
  PROVE  QueueInv'
<1>1. Held(w) /\ stops \in 0..MaxStops
  BY DEF QueueInv, Typed
<1>2. CASE BeginRefused(w)
  <2>1. /\ up = "up" /\ worker[w].pc = "locked" /\ Mine(w).status # "pending" /\ Returns(w, "ok")
        /\ UNCHANGED <<records, pools, req, up, bounds, ghosts>>
    BY <1>2 DEF BeginRefused, At
  <2>2. Mine(w).status = "cancelled"
    BY <1>1, <2>1 DEF Held
  <2> QED BY <1>1, <2>1, <2>2, ReturnStep DEF Locking, bounds
<1>3. CASE BeginFails(w)
  <2>1. /\ up = "up" /\ worker[w].pc \in {"begun", "intent"} /\ Returns(w, "err")
        /\ UNCHANGED <<records, pools, req, up, bounds, ghosts>>
    BY <1>3 DEF BeginFails
  <2>2. Mine(w).status = "running"
    BY <1>1, <2>1 DEF Held, Called
  <2> QED BY <1>1, <2>1, <2>2, ReturnStep DEF Locking, bounds
<1>4. CASE BeginUnwritten(w)
  <2>1. /\ up = "up" /\ worker[w].pc = "locked" /\ Mine(w).status = "pending" /\ Returns(w, "err")
        /\ stops < MaxStops /\ stops' = stops + 1
        /\ UNCHANGED <<records, pools, req, up, gens, requests, ghosts>>
    BY <1>4 DEF BeginUnwritten, At
  <2>2. stops' \in 0..MaxStops
    BY <1>1, <2>1, TasksAssumption
  <2> QED BY <1>1, <2>1, <2>2, ReturnStep DEF Locking
<1>5. CASE GuestReturns(w)
  <2>1. PICK o \in {"ok", "err"} : Returns(w, o)
    BY <1>5 DEF GuestReturns
  <2>2. /\ up = "up" /\ worker[w].pc = "running"
        /\ UNCHANGED <<records, pools, req, up, bounds, ghosts>>
    BY <1>5 DEF GuestReturns, At
  <2>3. Mine(w).status = "running"
    BY <1>1, <2>2 DEF Held, Called
  <2> QED BY <1>1, <2>1, <2>2, <2>3, ReturnStep DEF Locking, bounds
<1> QED BY <1>2, <1>3, <1>4, <1>5

LEMMA AnchorsStep ==
  ASSUME QueueInv, NEW w \in Workers, BeginAnchors(w) \/ FinishAnchors(w)
  PROVE  QueueInv'
<1>1. PICK t, i, pc : t = worker[w].t /\ i = worker[w].i
                      /\ pc = IF worker[w].pc = "begun" THEN "intent" ELSE "sealed"
  OBVIOUS
<1>2. /\ up = "up" /\ worker[w].pc \in {"begun", "written"} /\ pc \in {"intent", "sealed"}
      /\ AnchorTenantPool(t) /\ Step(w, pc)
      /\ UNCHANGED <<records, lock, req, up, bounds, ghosts>>
  BY <1>1 DEF BeginAnchors, FinishAnchors, At
<1>3. worker[w].pc # "idle" /\ t \in Tenants /\ i \in Ids /\ Held(w) /\ pc \in Pcs
  BY <1>1, <1>2, BusyIs DEF QueueInv, Pcs
<1>4. /\ worker' \in [Workers -> Running \cup {Idle}]
      /\ \A v \in Workers : v # w => worker'[v] = worker[v]
      /\ worker'[w] \in Running /\ worker'[w].pc = pc
      /\ worker'[w].t = t /\ worker'[w].i = i
      /\ worker'[w].run = worker[w].run /\ worker'[w].outcome = worker[w].outcome
  BY <1>1, <1>2, <1>3, StepAt DEF QueueInv
<1>5. /\ disk' = disk /\ images' \in [Tenants -> SUBSET Row]
      /\ \A s \in Tenants : disk'[s] \in images'[s]
      /\ images'[t] = {disk[t]}
      /\ \A s \in Tenants : images'[s] \subseteq images[s]
      /\ catalog' = catalog /\ catImages' = catImages
  BY <1>2, <1>3, AnchorAt DEF QueueInv
<1>6. Typed'
  BY <1>2, <1>4, <1>5 DEF QueueInv, Typed, records, bounds, ghosts
<1>7. tasks' = tasks /\ active' = active /\ due' = due /\ lock' = lock /\ runs' = runs
      /\ UNCHANGED <<tasks, disk, catalog, catImages, req, up, gens, ghosts>>
  BY <1>2, <1>5 DEF records, bounds, ghosts
<1>8. Held(w)'
  <2>1. Mine(w)' = Mine(w) /\ Outcome(w)' = Outcome(w)
    BY <1>1, <1>4, <1>7 DEF Mine, Outcome
  <2>2. CASE worker[w].pc = "begun"
    <3>1. \A image \in images'[t] : image[i] = Mine(w)
      BY <1>1, <1>3, <1>5, <2>2 DEF Held
    <3>2. pc = "intent"
      BY <1>1, <2>2
    <3> QED BY <1>1, <1>3, <1>4, <1>7, <2>1, <2>2, <3>1, <3>2 DEF Held, Locking, Called, Recording
  <2>3. CASE worker[w].pc = "written"
    <3>1. \A image \in images'[t] : image[i] = Outcome(w)
      BY <1>1, <1>3, <1>5, <2>3 DEF Held, Recording
    <3>2. pc = "sealed"
      BY <1>1, <2>3
    <3> QED BY <1>1, <1>3, <1>4, <1>5, <1>7, <2>1, <2>3, <3>1, <3>2
            DEF Held, Locking, Called, Recording
  <2> QED BY <1>2, <2>2, <2>3
<1>9. Alone'
  <2>1. pc \in Locking => worker[w].pc \in Locking
    BY <1>1, <1>2 DEF Locking
  <2> QED BY <1>1, <1>3, <1>4, <2>1, AloneKept
<1>10. worker'[w].pc # "idle" /\ worker[w].pc # "anchored"
  BY <1>2, <1>4
<1>11. \A s \in Tenants, j \in Ids : Placed(s, j)'
  BY <1>1, <1>3, <1>4, <1>7, <1>10, PlacesKept
<1> QED BY <1>2, <1>4, <1>5, <1>6, <1>7, <1>8, <1>9, <1>10, <1>11, WorkerOnly

LEMMA FinishUnrecordedStep ==
  ASSUME QueueInv, NEW w \in Workers, FinishUnrecorded(w)
  PROVE  QueueInv'
<1>0. PICK t, i, m, late : t = worker[w].t /\ i = worker[w].i /\ m = Mine(w) /\ late = FALSE
  OBVIOUS
<1>a. late \in BOOLEAN
  BY <1>0
<1>1. /\ up = "up" /\ worker[w].pc = "ran" /\ RecordsFree
      /\ \/ m.status = "cancelled" /\ due' = due
         \/ /\ m.status # "cancelled" /\ worker[w].outcome = "none"
            /\ due' = due \cup {<<late, t, i>>}
      /\ active' = active \ {<<t, i>>}
      /\ worker' = [worker EXCEPT ![w] = Idle]
      /\ UNCHANGED <<tasks, lastTenant, pools, lock, req, up, bounds, ghosts>>
  BY <1>0 DEF FinishUnrecorded, At, Leaves
<1>2. /\ t \in Tenants /\ i \in Ids /\ m = tasks[t][i] /\ Held(w) /\ Placed(t, i)
  BY <1>0, <1>1, BusyIs DEF QueueInv
<1>3. /\ worker' \in [Workers -> Running \cup {Idle}] /\ worker'[w] = Idle
      /\ \A v \in Workers : v # w => worker'[v] = worker[v]
  BY <1>1, LeavesAt DEF QueueInv
<1>4. \/ m.status = "cancelled" /\ due' = due
      \/ m.status = "pending" /\ due' = due \cup {<<late, t, i>>}
  BY <1>0, <1>1, <1>2 DEF Held
<1>5. Typed'
  <2>1. active' \subseteq Keys /\ due' \subseteq BOOLEAN \X Tenants \X Ids
    BY <1>a, <1>1, <1>2, <1>4 DEF QueueInv, Typed
  <2> QED BY <1>1, <1>3, <2>1 DEF QueueInv, Typed, pools, bounds, ghosts
<1>6. Holds(w, t, i) /\ \A v \in Workers : v # w => ~Holds(v, t, i)
  BY <1>0, <1>1 DEF QueueInv, Alone, Holds
<1>7. Held(w)'
  BY <1>3, Apart DEF Held
<1>8. Alone'
  BY <1>3, Apart, AloneKept
<1>9. ASSUME NEW s \in Tenants, NEW j \in Ids PROVE Placed(s, j)'
  <2>1. CASE s = t /\ j = i
    <3>1. \A r \in BOOLEAN : <<r, t, i>> \notin due
      BY <1>2, <1>6 DEF Placed
    <3>2. \A v \in Workers : ~Holds(v, t, i)'
      BY <1>3, <1>6, Apart DEF Holds
    <3>3. CASE m.status = "cancelled" /\ due' = due
      BY <1>1, <1>2, <2>1, <3>1, <3>3 DEF Placed
    <3>4. CASE m.status = "pending" /\ due' = due \cup {<<late, t, i>>}
      <4>1. \A r \in BOOLEAN : <<r, t, i>> \in due' <=> r = late
        BY <3>1, <3>4
      <4> QED BY <1>a, <1>1, <1>2, <2>1, <3>2, <3>4, <4>1 DEF Placed
    <3> QED BY <1>4, <3>3, <3>4
  <2>2. CASE s # t \/ j # i
    <3>1. \A v \in Workers : Holds(v, s, j)' <=> Holds(v, s, j)
      BY <1>0, <1>1, <1>3, <2>2, Apart DEF Holds
    <3>2. \A r \in BOOLEAN : <<r, s, j>> \in due' <=> <<r, s, j>> \in due
      BY <1>4, <2>2
    <3> QED BY <1>1, <3>1, <3>2, PlacedKept DEF QueueInv
  <2> QED BY <2>1, <2>2
<1>10. UNCHANGED <<tasks, disk, catalog, catImages, req, up, gens, ghosts>> /\ images' = images
       /\ lock' = lock
  BY <1>1 DEF pools, bounds
<1>11. \A v \in Workers : v # w /\ worker[v].pc # "idle" =>
         (<<worker[v].t, worker[v].i>> \in active => <<worker[v].t, worker[v].i>> \in active')
  BY <1>1, <1>6 DEF Holds
<1> QED BY <1>1, <1>3, <1>5, <1>7, <1>8, <1>9, <1>10, <1>11, WorkerOnly

(* The clock passes a deadline.                                            *)
LEMMA RipenStep ==
  ASSUME QueueInv, NEW t \in Tenants, NEW i \in Ids, Ripen(t, i)
  PROVE  QueueInv'
<1>0. PICK late, ripe : late = FALSE /\ ripe = TRUE
  OBVIOUS
<1>a. late \in BOOLEAN /\ ripe \in BOOLEAN /\ ripe = ~late
  BY <1>0
<1>1. /\ up = "up" /\ <<late, t, i>> \in due
      /\ due' = (due \ {<<late, t, i>>}) \cup {<<ripe, t, i>>}
      /\ UNCHANGED <<tasks, active, lastTenant, pools, lock, req, worker, up, bounds, ghosts>>
  BY <1>0 DEF Ripen
<1>2. /\ tasks' = tasks /\ active' = active /\ disk' = disk /\ images' = images
      /\ catalog' = catalog /\ catImages' = catImages /\ lock' = lock /\ req' = req
      /\ worker' = worker /\ up' = up /\ gens' = gens /\ runs' = runs /\ done' = done
      /\ ended' = ended /\ ackEnqueue' = ackEnqueue /\ ackCancel' = ackCancel /\ gens \in Nat
  BY <1>1 DEF pools, bounds, ghosts, QueueInv, Typed
<1>3. Typed'
  <2>1. due' \subseteq BOOLEAN \X Tenants \X Ids
    <3>1. <<ripe, t, i>> \in BOOLEAN \X Tenants \X Ids
      BY <1>0
    <3>2. due \subseteq BOOLEAN \X Tenants \X Ids
      BY DEF QueueInv, Typed
    <3> QED BY <1>1, <3>1, <3>2
  <2> QED BY <1>1, <2>1 DEF QueueInv, Typed, pools, bounds, ghosts
<1>4. ImagesSound' /\ MemorySound' /\ \A s \in Tenants, j \in Ids : Filed(s, j)'
  BY <1>1, <1>2, <1>3, RecordsKept
<1>5. Undrawn' /\ Flagged' /\ Stopped' /\ Alone'
  BY <1>1, <1>2, UndrawnKept, FlaggedKept, AloneKept DEF Stopped
<1>6. ASSUME NEW s \in Tenants PROVE Told(s)'
  <2>1. \A j \in Ids : Moves(s, j)
    BY <1>2 DEF Moves
  <2> QED BY <1>2, <2>1, ToldKept DEF QueueInv
<1>7. ASSUME NEW w \in Workers PROVE Held(w)'
  BY <1>2, HeldKept
<1>8. ASSUME NEW s \in Tenants, NEW j \in Ids PROVE Placed(s, j)'
  <2>1. \A v \in Workers : Holds(v, s, j)' <=> Holds(v, s, j)
    BY <1>2 DEF Holds
  <2>2. CASE s = t /\ j = i
    <3>1. <<ripe, t, i>> \notin due /\ tasks[t][i].status = "pending"
          /\ \A w \in Workers : ~Holds(w, t, i)
      BY <1>a, <1>1 DEF QueueInv, Placed
    <3>2. \A r \in BOOLEAN : <<r, t, i>> \in due' <=> r = ripe
      BY <1>a, <1>1, <3>1
    <3> QED BY <1>a, <1>2, <2>1, <2>2, <3>1, <3>2 DEF Placed
  <2>3. CASE s # t \/ j # i
    <3>1. \A r \in BOOLEAN : <<r, s, j>> \in due' <=> <<r, s, j>> \in due
      BY <1>1, <2>3
    <3> QED BY <1>2, <2>1, <3>1, PlacedKept DEF QueueInv
  <2> QED BY <2>2, <2>3
<1> QED BY <1>3, <1>4, <1>5, <1>6, <1>7, <1>8 DEF QueueInv

-----------------------------------------------------------------------------
(* Steps of a worker that the ghosts or the records notice.                *)

(* The guest is called: every image has the attempt.                       *)
LEMMA CallGuestStep ==
  ASSUME QueueInv, NEW w \in Workers, CallGuest(w)
  PROVE  QueueInv' /\ worker[w].run \notin done /\ worker[w].run[1] \notin ackCancel
         /\ runs' = [runs EXCEPT ![worker[w].run] = @ + 1]
         /\ worker[w].run \in RunIds /\ runs[worker[w].run] < MaxAttempts
<1>0. PICK t, i, m, r : t = worker[w].t /\ i = worker[w].i /\ m = Mine(w) /\ r = worker[w].run
  OBVIOUS
<1>1. /\ up = "up" /\ worker[w].pc = "intent" /\ Step(w, "running")
      /\ disk' = disk /\ images' = images /\ catalog' = catalog /\ catImages' = {catalog}
      /\ runs' = [runs EXCEPT ![r] = @ + 1]
      /\ UNCHANGED <<records, lock, req, up, bounds, done, ended, ackEnqueue, ackCancel>>
  BY <1>0 DEF CallGuest, At, AnchorControlPool
<1>2. /\ t \in Tenants /\ i \in Ids /\ m = tasks[t][i] /\ Held(w) /\ m \in Task /\ m # NoTask
      /\ r \in RunIds
  BY <1>0, <1>1, BusyIs, HeldTask DEF QueueInv
<1>3. /\ r = <<Named_(t, i, m), m.occurrence>> /\ m.status = "running"
      /\ runs[r] < m.attempts /\ <<t, i>> \in active /\ worker[w].outcome = "none"
      /\ \A image \in images[t] : image[i] = m
  BY <1>0, <1>1, <1>2 DEF Held, Called, Recording
<1>4. /\ Named_(t, i, m) = <<<<t, i>>, m.gen>> /\ m.gen \in Gens /\ m.attempts \in Nat
      /\ m.occurrence \in 0..MaxOccurrence
  BY <1>2, NamedIs
<1>5. /\ worker' \in [Workers -> Running \cup {Idle}]
      /\ \A v \in Workers : v # w => worker'[v] = worker[v]
      /\ worker'[w] \in Running /\ worker'[w].pc = "running"
      /\ worker'[w].t = t /\ worker'[w].i = i
      /\ worker'[w].run = r /\ worker'[w].outcome = worker[w].outcome
  <2>1. "running" \in Pcs
    BY DEF Pcs
  <2> QED BY <1>0, <1>1, <2>1, StepAt DEF QueueInv
<1>6. /\ tasks' = tasks /\ active' = active /\ due' = due /\ lock' = lock /\ req' = req
      /\ up' = up /\ gens' = gens /\ done' = done /\ ended' = ended
      /\ ackEnqueue' = ackEnqueue /\ ackCancel' = ackCancel
  BY <1>1 DEF records, bounds
<1>7. /\ runs' \in [RunIds -> Nat] /\ runs'[r] = runs[r] + 1 /\ runs[r] \in Nat
      /\ \A q \in RunIds : q # r => runs'[q] = runs[q]
  BY <1>1, <1>2 DEF QueueInv, Typed
<1>8. Typed'
  BY <1>1, <1>5, <1>7 DEF QueueInv, Typed, records, bounds
<1>9. PICK image \in images[t] : image = disk[t]
  BY <1>2 DEF QueueInv, Typed
<1>10. Sound(t, i, m) /\ Past(t, i, m)
  BY <1>2, <1>3, <1>9 DEF QueueInv, ImagesSound
<1>11. r \notin done /\ Named_(t, i, m) \notin ackCancel
  BY <1>2, <1>3, <1>4, <1>10 DEF Sound, Past, terminal
<1>12. ASSUME NEW s \in Tenants, NEW j \in Ids, NEW x \in Records, Sound(s, j, x),
              s = t /\ j = i => x = m
       PROVE  Sound(s, j, x)'
  <2>1. CASE x = NoTask
    BY <1>6, <1>12, <2>1 DEF Sound
  <2>2. CASE x # NoTask
    <3>1. /\ x \in Task /\ Named_(s, j, x) = <<<<s, j>>, x.gen>> /\ x.occurrence \in 0..MaxOccurrence
          /\ Named_(s, j, x) \in Named /\ x.occurrence \in Nat
      BY <2>2, Apart, NamedIs
    <3>2. \A o \in 0..MaxOccurrence : <<Named_(s, j, x), o>> \in RunIds
      BY <3>1 DEF RunIds
    <3>3. ASSUME s = t /\ j = i
          PROVE  /\ runs'[<<Named_(s, j, x), x.occurrence>>] <= x.attempts
                 /\ \A o \in 0..MaxOccurrence : x.occurrence < o =>
                      runs'[<<Named_(s, j, x), o>>] = 0
      <4>1. x = m /\ <<Named_(s, j, x), x.occurrence>> = r
        BY <1>3, <1>12, <3>3
      <4>2. runs'[r] <= m.attempts
        BY <1>3, <1>4, <1>7
      <4>3. \A o \in 0..MaxOccurrence : x.occurrence < o => <<Named_(s, j, x), o>> # r
        BY <3>1, <4>1
      <4> QED BY <1>7, <1>12, <2>2, <3>2, <4>1, <4>2, <4>3 DEF Sound
    <3>4. ASSUME s # t \/ j # i
          PROVE  \A o \in 0..MaxOccurrence : runs'[<<Named_(s, j, x), o>>] = runs[<<Named_(s, j, x), o>>]
      <4>1. \A o \in 0..MaxOccurrence : <<Named_(s, j, x), o>> # r
        BY <1>3, <1>4, <3>1, <3>4
      <4> QED BY <1>7, <3>2, <4>1
    <3> QED BY <1>6, <1>12, <2>2, <3>1, <3>3, <3>4 DEF Sound
  <2> QED BY <2>1, <2>2
<1>13. ImagesSound'
  <2> SUFFICES ASSUME NEW s \in Tenants, NEW j \in Ids, NEW y \in images[s]
               PROVE  Sound(s, j, y[j])' /\ Past(s, j, y[j])'
    BY <1>1 DEF ImagesSound
  <2>1. y[j] \in Records /\ Sound(s, j, y[j]) /\ Past(s, j, y[j])
    BY DEF QueueInv, Typed, Row, ImagesSound
  <2>2. Sound(s, j, y[j])'
    BY <1>3, <1>12, <2>1
  <2> QED BY <1>6, <2>1, <2>2 DEF Past
<1>14. MemorySound'
  <2> SUFFICES ASSUME NEW s \in Tenants, NEW j \in Ids
               PROVE  Sound(s, j, tasks[s][j])' /\ (Unseen(s, j)' \/ Past(s, j, tasks[s][j])')
    BY <1>6 DEF MemorySound
  <2>1. PICK y : y = tasks[s][j]
    OBVIOUS
  <2>2. y \in Records /\ Sound(s, j, y) /\ (Unseen(s, j) \/ Past(s, j, y))
    BY <1>1, <2>1 DEF QueueInv, Typed, File, Row, MemorySound
  <2>3. Sound(s, j, y)'
    BY <1>2, <1>12, <2>1, <2>2
  <2>4. Past(s, j, y) => Past(s, j, y)'
    BY <1>6 DEF Past
  <2>5. Unseen(s, j) => Unseen(s, j)'
    BY <1>1, <1>5 DEF Unseen
  <2> QED BY <1>6, <2>1, <2>2, <2>3, <2>4, <2>5
<1>15. Undrawn'
  <2>1. m.gen <= gens /\ gens \in Nat /\ m.gen \in Nat
    BY <1>2, <1>4, <1>10 DEF Sound, QueueInv, Typed, Gens
  <2> SUFFICES ASSUME NEW s \in Tenants, NEW j \in Ids, NEW g \in Gens, gens < g
      PROVE  /\ <<<<s, j>>, g>> \notin ackCancel
             /\ \A u \in Tenants : req[u].pc # "none" => <<<<s, j>>, g>> \notin req[u].cancelled
             /\ \A o \in 0..MaxOccurrence : /\ runs'[<<<<<<s, j>>, g>>, o>>] = 0
                                            /\ <<<<<<s, j>>, g>>, o>> \notin done
    BY <1>6 DEF Undrawn
  <2>2. \A o \in 0..MaxOccurrence : <<<<<<s, j>>, g>>, o>> # r
                                    /\ <<<<<<s, j>>, g>>, o>> \in RunIds
    <3>1. g # m.gen
      BY <2>1 DEF Gens
    <3> QED BY <1>3, <1>4, <3>1 DEF RunIds, Named, Keys
  <2> QED BY <1>7, <2>2 DEF QueueInv, Undrawn
<1>16. Flagged'
  <2>1. catalog \in catImages
    BY DEF QueueInv, Typed
  <2> QED BY <1>1, <1>6, <2>1, FlaggedKept
<1>17. Alone' /\ Stopped'
  <2>1. Alone'
    BY <1>0, <1>1, <1>5, AloneKept DEF Locking
  <2> QED BY <1>1, <1>6, <2>1 DEF Stopped
<1>18. ASSUME NEW s \in Tenants PROVE Told(s)'
  <2>1. \A j \in Ids : Moves(s, j)
    BY <1>1, <1>6 DEF Moves
  <2> QED BY <1>1, <1>6, <2>1, ToldKept DEF QueueInv
<1>19. ASSUME NEW v \in Workers PROVE Held(v)'
  <2>1. CASE v = w
    <3>1. Mine(w)' = m
      BY <1>0, <1>5, <1>6 DEF Mine
    <3>2. lock[t] = "task"
      BY <1>0, <1>1, <1>2 DEF Held, Locking
    <3> QED BY <1>2, <1>3, <1>5, <1>6, <2>1, <3>1, <3>2 DEF Held, Locking, Called, Recording
  <2>2. CASE v # w
    <3>1. ASSUME worker[v].pc # "idle" PROVE runs'[worker[v].run] = runs[worker[v].run]
      <4>1. Held(v) /\ worker[v].run \in RunIds /\ Mine(v) \in Task
            /\ worker[v].t \in Tenants /\ worker[v].i \in Ids
        BY <3>1, BusyIs, HeldTask DEF QueueInv
      <4>2. worker[v].run = <<<<<<worker[v].t, worker[v].i>>, Mine(v).gen>>, Mine(v).occurrence>>
        BY <3>1, <4>1, NamedIs DEF Held
      <4>3. worker[v].t # t \/ worker[v].i # i
        BY <1>0, <1>1, <2>2, <3>1 DEF QueueInv, Alone
      <4>4. worker[v].run # r
        BY <1>3, <1>4, <4>2, <4>3
      <4> QED BY <1>7, <4>1, <4>4
    <3> QED BY <1>1, <1>5, <1>6, <2>2, <3>1, HeldKept
  <2> QED BY <2>1, <2>2
<1>20. \A s \in Tenants, j \in Ids : Placed(s, j)'
  BY <1>0, <1>1, <1>5, <1>6, PlacesKept
<1>21. \A s \in Tenants, j \in Ids : Filed(s, j)'
  BY <1>1, <1>6 DEF QueueInv, Filed
<1>22. QueueInv'
  BY <1>8, <1>13, <1>14, <1>15, <1>16, <1>17, <1>18, <1>19, <1>20, <1>21 DEF QueueInv
<1>23. runs[r] < MaxAttempts
  <2>1. m.attempts <= MaxAttempts /\ MaxAttempts \in Nat
    BY <1>2, NamedIs, TasksAssumption
  <2> QED BY <1>3, <1>4, <1>7, <2>1
<1>24. r[1] = Named_(t, i, m)
  BY <1>3
<1>25. /\ r \notin done /\ r[1] \notin ackCancel
       /\ runs' = [runs EXCEPT ![r] = @ + 1]
       /\ r \in RunIds /\ runs[r] < MaxAttempts
  BY <1>1, <1>2, <1>11, <1>23, <1>24
<1> QED BY <1>0, <1>22, <1>25

(* A record that a worker writes for its own task.                         *)
LEMMA WorkerWrites ==
  ASSUME QueueInv, Typed', up = "up", RecordsFree, NEW w \in Workers, worker[w].pc # "idle",
         NEW t \in Tenants, NEW i \in Ids, worker[w].t = t, worker[w].i = i,
         NEW x \in Task, write(t, i, x), x.gen = tasks[t][i].gen,
         tasks[t][i] # NoTask, tasks[t][i].status # "cancelled",
         Sound(t, i, x)', Past(t, i, x)',
         UNCHANGED <<due, catalog, catImages, lock, req, up, gens, ghosts>>,
         tasks'[t][i] = tasks[t][i] \/ tasks'[t][i] = x,
         \A s \in Tenants, j \in Ids : s # t \/ j # i =>
           /\ tasks'[s][j] = tasks[s][j]
           /\ <<s, j>> \in active => <<s, j>> \in active',
         \A v \in Workers : v # w => worker'[v] = worker[v],
         worker'[w].t = t, worker'[w].i = i, worker'[w].pc # "idle",
         worker'[w].pc \in Locking => worker[w].pc \in Locking,
         Held(w)', Placed(t, i)', Filed(t, i)'
  PROVE  QueueInv'
<1>1. /\ due' = due /\ catalog' = catalog /\ catImages' = catImages /\ lock' = lock /\ req' = req
      /\ up' = up /\ gens' = gens /\ runs' = runs /\ done' = done /\ ended' = ended
      /\ ackEnqueue' = ackEnqueue /\ ackCancel' = ackCancel /\ gens \in Nat /\ x \in Records
      /\ x # NoTask
  BY Apart DEF QueueInv, Typed, ghosts, Records
<1>2. /\ disk'[t][i] = x
      /\ \A s \in Tenants, j \in Ids : s # t \/ j # i => disk'[s][j] = disk[s][j]
      /\ \A s \in Tenants, j \in Ids : \A image \in images'[s] :
           \/ s = t /\ j = i /\ image[j] = x
           \/ \E old \in images[s] : old[j] = image[j]
  BY <1>1, WriteAt DEF QueueInv
<1>3. ImagesSound'
  <2>1. \A s \in Tenants, j \in Ids : \A image \in images'[s] :
           \/ \E old \in images[s] : old[j] = image[j]
           \/ Sound(s, j, image[j])' /\ Past(s, j, image[j])'
    BY <1>2
  <2> QED BY <1>1, <2>1, ImagesKept
<1>4. MemorySound'
  <2>1. \A s \in Tenants, j \in Ids : tasks'[s][j] = tasks[s][j] \/ (s = t /\ j = i /\ tasks'[s][j] = x)
    OBVIOUS
  <2>2. ASSUME NEW s \in Tenants, NEW j \in Ids
        PROVE  Sound(s, j, tasks[s][j]) /\ Past(s, j, tasks[s][j]) /\ tasks[s][j] \in Records
    <3>1. ~Unseen(s, j)
      BY DEF Unseen, RecordsFree
    <3> QED BY <3>1 DEF QueueInv, MemorySound, Typed, File, Row
  <2>3. ASSUME NEW s \in Tenants, NEW j \in Ids, NEW y \in Records, y = tasks[s][j]
        PROVE  Sound(s, j, y)' /\ Past(s, j, y)'
    BY <1>1, <2>2, <2>3, SoundKept
  <2>4. ASSUME NEW s \in Tenants, NEW j \in Ids, NEW y, y = tasks'[s][j]
        PROVE  Sound(s, j, y)' /\ Past(s, j, y)'
    BY <2>1, <2>2, <2>3, <2>4
  <2>5. ASSUME NEW s \in Tenants, NEW j \in Ids
        PROVE  Sound(s, j, tasks[s][j])' /\ Past(s, j, tasks[s][j])'
    BY <2>4
  <2> QED BY <2>5 DEF MemorySound
<1>5. Undrawn' /\ Flagged' /\ Stopped'
  BY <1>1, UndrawnKept, FlaggedKept DEF Stopped
<1>6. Alone'
  BY AloneKept
<1>7. ASSUME NEW s \in Tenants PROVE Told(s)'
  <2>1. ASSUME NEW j \in Ids PROVE Moves(s, j)
    <3>1. CASE s = t /\ j = i
      BY <1>1, <1>2, <3>1 DEF Moves
    <3>2. CASE s # t \/ j # i
      BY <1>2, <3>2 DEF Moves
    <3> QED BY <3>1, <3>2
  <2> QED BY <1>1, <2>1, ToldKept DEF QueueInv
<1>8. ASSUME NEW v \in Workers PROVE Held(v)'
  <2>1. CASE v = w
    BY <2>1
  <2>2. CASE v # w /\ worker[v].pc = "idle"
    BY <2>2 DEF Held
  <2>3. CASE v # w /\ worker[v].pc # "idle"
    <3>1. worker[v].t \in Tenants /\ worker[v].i \in Ids
          /\ (worker[v].t # t \/ worker[v].i # i)
      BY <2>3, BusyIs DEF QueueInv, Alone
    <3> QED BY <1>1, <1>2, <2>3, <3>1, HeldKept
  <2> QED BY <2>1, <2>2, <2>3
<1>9. ASSUME NEW s \in Tenants, NEW j \in Ids PROVE Placed(s, j)' /\ Filed(s, j)'
  <2>1. CASE s # t \/ j # i
    <3>1. Placed(s, j)'
      <4>1. \A v \in Workers : Holds(v, s, j)' <=> Holds(v, s, j)
        BY DEF Holds
      <4> QED BY <1>1, <2>1, <4>1, PlacedKept DEF QueueInv
    <3>2. Filed(s, j)'
      <4>1. /\ disk'[s][j] = disk[s][j] /\ tasks'[s][j] = tasks[s][j] /\ ended' = ended
            /\ Filed(s, j)
        BY <1>1, <1>2, <2>1 DEF QueueInv
      <4> QED BY <4>1 DEF Filed
    <3> QED BY <3>1, <3>2
  <2> QED BY <2>1
<1> QED BY <1>3, <1>4, <1>5, <1>6, <1>7, <1>8, <1>9 DEF QueueInv

(* What a worker has of its task while nobody records an outcome.          *)
LEMMA OwnTask ==
  ASSUME QueueInv, NEW w \in Workers, up = "up", RecordsFree, worker[w].pc # "idle",
         NEW t, NEW i, NEW m, t = worker[w].t, i = worker[w].i, m = Mine(w)
  PROVE  /\ t \in Tenants /\ i \in Ids /\ m = tasks[t][i] /\ m \in Task /\ m # NoTask
         /\ Held(w) /\ Placed(t, i) /\ Sound(t, i, m) /\ Past(t, i, m)
         /\ m.gen \in Gens /\ Named_(t, i, m) = <<<<t, i>>, m.gen>> /\ Named_(t, i, m) \in Named
         /\ m.occurrence \in 0..MaxOccurrence /\ m.attempts \in Nat /\ gens \in Nat
         /\ runs \in [RunIds -> Nat]
         /\ \A r \in BOOLEAN : <<r, t, i>> \notin due
<1>1. /\ t \in Tenants /\ i \in Ids /\ m = tasks[t][i] /\ m \in Task /\ m # NoTask
      /\ Held(w) /\ Placed(t, i) /\ gens \in Nat /\ runs \in [RunIds -> Nat]
  BY BusyIs, HeldTask DEF QueueInv, Typed
<1>2. ~Unseen(t, i)
  BY DEF Unseen, RecordsFree
<1>3. Sound(t, i, m) /\ Past(t, i, m)
  BY <1>1, <1>2 DEF QueueInv, MemorySound
<1>4. Holds(w, t, i)
  BY DEF Holds
<1> QED BY <1>1, <1>3, <1>4, NamedIs DEF Placed

LEMMA BeginStep ==
  ASSUME QueueInv, NEW w \in Workers, Begin(w)
  PROVE  QueueInv'
<1>0. PICK t, i, m, x : t = worker[w].t /\ i = worker[w].i /\ m = Mine(w) /\ x = Intent(w)
  OBVIOUS
<1>1. /\ up = "up" /\ worker[w].pc = "locked" /\ RecordsFree /\ m.status = "pending"
      /\ write(t, i, x) /\ tasks' = Put(tasks, t, i, x) /\ Step(w, "begun")
      /\ UNCHANGED <<due, active, lastTenant, catalog, catImages, lock, req, up, bounds, ghosts>>
  BY <1>0 DEF Begin, At
<1>2. /\ t \in Tenants /\ i \in Ids /\ m = tasks[t][i] /\ m \in Task /\ m # NoTask
      /\ Held(w) /\ Placed(t, i) /\ Sound(t, i, m) /\ Past(t, i, m)
      /\ m.gen \in Gens /\ Named_(t, i, m) = <<<<t, i>>, m.gen>> /\ Named_(t, i, m) \in Named
      /\ m.occurrence \in 0..MaxOccurrence /\ m.attempts \in Nat /\ gens \in Nat
      /\ runs \in [RunIds -> Nat]
      /\ \A r \in BOOLEAN : <<r, t, i>> \notin due
  BY <1>0, <1>1, OwnTask
<1>3. /\ x \in Task /\ x \in Records /\ x # NoTask /\ x.gen = m.gen /\ x.status = "running"
      /\ x.attempts = m.attempts + 1 /\ x.occurrence = m.occurrence /\ ~terminal(x)
  <2>1. m.attempts < MaxAttempts
    BY <1>1, <1>2 DEF Sound
  <2>2. /\ x \in Task /\ x.gen = m.gen /\ x.status = "running"
        /\ x.attempts = m.attempts + 1 /\ x.occurrence = m.occurrence
    BY <1>0, <1>2, <2>1, IntentIs
  <2> QED BY <2>2, Apart DEF Records, terminal
<1>4. Named_(t, i, x) = Named_(t, i, m)
  BY <1>3 DEF Named_
<1>5. /\ tasks' \in File /\ tasks'[t][i] = x
      /\ \A s \in Tenants, j \in Ids : s # t \/ j # i => tasks'[s][j] = tasks[s][j]
  BY <1>1, <1>2, <1>3, PutAt DEF QueueInv, Typed
<1>6. /\ disk' \in File /\ disk'[t][i] = x
      /\ images' \in [Tenants -> SUBSET Row] /\ \A s \in Tenants : disk'[s] \in images'[s]
  BY <1>1, <1>2, <1>3, WriteAt DEF QueueInv
<1>7. /\ worker' \in [Workers -> Running \cup {Idle}]
      /\ \A v \in Workers : v # w => worker'[v] = worker[v]
      /\ worker'[w] \in Running /\ worker'[w].pc = "begun"
      /\ worker'[w].t = t /\ worker'[w].i = i
      /\ worker'[w].run = worker[w].run /\ worker'[w].outcome = worker[w].outcome
  <2>1. "begun" \in Pcs
    BY DEF Pcs
  <2> QED BY <1>0, <1>1, <2>1, StepAt DEF QueueInv
<1>8. Typed'
  BY <1>1, <1>5, <1>6, <1>7 DEF QueueInv, Typed, bounds, ghosts
<1>9. /\ gens' = gens /\ runs' = runs /\ done' = done /\ ended' = ended /\ active' = active
      /\ ackEnqueue' = ackEnqueue /\ ackCancel' = ackCancel /\ due' = due /\ lock' = lock
  BY <1>1 DEF bounds, ghosts
<1>10. /\ worker[w].run = <<Named_(t, i, m), m.occurrence>> /\ <<t, i>> \in active
       /\ lock[t] = "task" /\ worker[w].outcome = "none"
  BY <1>0, <1>1, <1>2 DEF Held, Locking, Recording
<1>11. runs[worker[w].run] < x.attempts /\ runs[<<Named_(t, i, m), m.occurrence>>] \in Nat
  <2>1. runs[<<Named_(t, i, m), m.occurrence>>] <= m.attempts
    BY <1>2 DEF Sound
  <2>2. <<Named_(t, i, m), m.occurrence>> \in RunIds
    BY <1>2, NamedIs
  <2>3. runs[<<Named_(t, i, m), m.occurrence>>] \in Nat
    BY <1>2, <2>2
  <2> QED BY <1>2, <1>3, <1>10, <2>1, <2>3
<1>12. Sound(t, i, x)'
  <2>1. runs[<<Named_(t, i, m), m.occurrence>>] <= x.attempts
    BY <1>3, <1>2, <1>10, <1>11
  <2> QED BY <1>1, <1>2, <1>3, <1>4, <1>9, <2>1 DEF Sound
<1>13. Past(t, i, x)'
  BY <1>1, <1>2, <1>3, <1>4, <1>9 DEF Past, terminal
<1>14. Held(w)'
  <2>1. Mine(w)' = x
    BY <1>5, <1>7 DEF Mine
  <2> QED BY <1>3, <1>4, <1>6, <1>7, <1>9, <1>10, <1>11, <2>1
          DEF Held, Locking, Called, Recording
<1>15. Placed(t, i)'
  <2>1. Holds(w, t, i)'
    BY <1>7 DEF Holds
  <2> QED BY <1>2, <1>3, <1>5, <1>9, <2>1 DEF Placed
<1>16. Filed(t, i)'
  BY <1>3, <1>5, <1>6 DEF Filed
<1>17. worker[w].pc # "idle" /\ worker'[w].pc # "idle" /\ worker[w].pc \in Locking
       /\ UNCHANGED <<due, catalog, catImages, lock, req, up, gens, ghosts>>
       /\ tasks[t][i].status # "cancelled"
  BY <1>1, <1>2, <1>7 DEF Locking, bounds
<1> QED BY <1>0, <1>1, <1>2, <1>3, <1>5, <1>7, <1>8, <1>9, <1>12, <1>13, <1>14, <1>15, <1>16,
           <1>17, WorkerWrites

LEMMA FinishStep ==
  ASSUME QueueInv, NEW w \in Workers, Finish(w)
  PROVE  QueueInv'
<1>0. PICK t, i, m, x : t = worker[w].t /\ i = worker[w].i /\ m = Mine(w) /\ x = Outcome(w)
  OBVIOUS
<1>1. /\ up = "up" /\ worker[w].pc = "ran" /\ RecordsFree /\ m.status = "running"
      /\ worker[w].outcome # "none"
      /\ worker[w].outcome = "ok" /\ m.input = "every" => m.occurrence < MaxOccurrence
      /\ write(t, i, x) /\ active' = active \ {<<t, i>>} /\ Step(w, "written")
      /\ UNCHANGED <<tasks, due, lastTenant, catalog, catImages, lock, req, up, bounds, ghosts>>
  BY <1>0 DEF Finish, At, Leaves
<1>2. /\ t \in Tenants /\ i \in Ids /\ m = tasks[t][i] /\ m \in Task /\ m # NoTask
      /\ Held(w) /\ Placed(t, i) /\ Sound(t, i, m) /\ Past(t, i, m)
      /\ m.gen \in Gens /\ Named_(t, i, m) = <<<<t, i>>, m.gen>> /\ Named_(t, i, m) \in Named
      /\ m.occurrence \in 0..MaxOccurrence /\ m.attempts \in Nat /\ gens \in Nat
      /\ runs \in [RunIds -> Nat]
      /\ \A r \in BOOLEAN : <<r, t, i>> \notin due
  BY <1>0, <1>1, OwnTask
<1>3. /\ x \in Task /\ x \in Records /\ x # NoTask /\ x.gen = m.gen /\ x.occurrence \in Nat
      /\ \/ /\ x.occurrence = m.occurrence + 1 /\ x.attempts = 0 /\ x.status = "pending"
         \/ /\ x.occurrence = m.occurrence /\ x.attempts = m.attempts
            /\ x.status = "pending" => m.attempts < MaxAttempts
  <2>1. Mine(w) \in Task /\ (worker[w].outcome = "ok" /\ Mine(w).input = "every"
                               => Mine(w).occurrence < MaxOccurrence)
    BY <1>0, <1>1, <1>2
  <2>2. /\ x \in Task /\ x.gen = m.gen
        /\ \/ /\ x.occurrence = m.occurrence + 1 /\ x.attempts = 0 /\ x.status = "pending"
           \/ /\ x.occurrence = m.occurrence /\ x.attempts = m.attempts
              /\ x.status = "pending" => m.attempts < MaxAttempts
    BY <1>0, <2>1, OutcomeIs
  <2> QED BY <1>2, <2>2, Apart, NamedIs DEF Records
<1>4. Named_(t, i, x) = Named_(t, i, m)
  BY <1>3 DEF Named_
<1>5. /\ disk' \in File /\ disk'[t][i] = x
      /\ images' \in [Tenants -> SUBSET Row] /\ \A s \in Tenants : disk'[s] \in images'[s]
  BY <1>1, <1>2, <1>3, WriteAt DEF QueueInv
<1>6. /\ worker' \in [Workers -> Running \cup {Idle}]
      /\ \A v \in Workers : v # w => worker'[v] = worker[v]
      /\ worker'[w] \in Running /\ worker'[w].pc = "written"
      /\ worker'[w].t = t /\ worker'[w].i = i
      /\ worker'[w].run = worker[w].run /\ worker'[w].outcome = worker[w].outcome
  <2>1. "written" \in Pcs
    BY DEF Pcs
  <2> QED BY <1>0, <1>1, <2>1, StepAt DEF QueueInv
<1>7. Typed'
  <2>1. active' \subseteq Keys
    BY <1>1 DEF QueueInv, Typed
  <2> QED BY <1>1, <1>5, <1>6, <2>1 DEF QueueInv, Typed, bounds, ghosts
<1>8. /\ gens' = gens /\ runs' = runs /\ done' = done /\ ended' = ended /\ tasks' = tasks
      /\ ackEnqueue' = ackEnqueue /\ ackCancel' = ackCancel /\ due' = due
  BY <1>1 DEF bounds, ghosts
<1>9. Sound(t, i, x)'
  <2>1. /\ \A o \in 0..MaxOccurrence : m.occurrence < o => runs[<<Named_(t, i, m), o>>] = 0
        /\ runs[<<Named_(t, i, m), m.occurrence>>] <= m.attempts
        /\ Named_(t, i, m) \notin ackCancel /\ m.gen <= gens
        /\ \A g \in Gens : <<<<t, i>>, g>> \in ackEnqueue \ ended => m.gen = g
    BY <1>1, <1>2 DEF Sound
  <2>2. m.occurrence \in Nat /\ x.occurrence \in 0..MaxOccurrence /\ 0 < MaxAttempts
    <3>1. m.occurrence \in Nat
      BY <1>2, NamedIs
    <3>2. x.occurrence \in 0..MaxOccurrence
      BY <1>2, <1>3, NamedIs
    <3>3. 0 < MaxAttempts
      BY TasksAssumption
    <3> QED BY <3>1, <3>2, <3>3
  <2>3. \A o \in 0..MaxOccurrence : x.occurrence < o => m.occurrence < o
    BY <1>3, <2>2
  <2>4. runs[<<Named_(t, i, m), x.occurrence>>] <= x.attempts
    BY <1>3, <2>1, <2>2
  <2>5. x.status = "pending" => x.attempts < MaxAttempts
    BY <1>3, <2>2
  <2> QED BY <1>3, <1>4, <1>8, <2>1, <2>3, <2>4, <2>5 DEF Sound
<1>10. Past(t, i, x)'
  <2>1. \A o \in 0..MaxOccurrence : <<Named_(t, i, m), o>> \in done => o < m.occurrence
    BY <1>1, <1>2 DEF Past, terminal
  <2>2. \A o \in 0..MaxOccurrence : o < m.occurrence => o < x.occurrence
    BY <1>2, <1>3
  <2> QED BY <1>4, <1>8, <2>1, <2>2 DEF Past
<1>11. Held(w)'
  <2>1. Mine(w)' = m /\ Outcome(w)' = x
    BY <1>0, <1>6, <1>8 DEF Mine, Outcome
  <2>2. worker[w].run = <<Named_(t, i, m), m.occurrence>>
    BY <1>0, <1>1, <1>2 DEF Held
  <2> QED BY <1>1, <1>2, <1>5, <1>6, <2>1, <2>2 DEF Held, Locking, Called, Recording
<1>12. worker[w].pc # "idle" /\ worker'[w].pc # "idle" /\ worker'[w].pc \notin Locking
       /\ UNCHANGED <<due, catalog, catImages, lock, req, up, gens, ghosts>>
       /\ tasks[t][i].status # "cancelled"
  BY <1>1, <1>2, <1>6 DEF Locking, bounds
<1>13. Placed(t, i)'
  BY <1>0, <1>2, <1>6, <1>8, <1>12, PlacesKept
<1>14. Filed(t, i)'
  BY <1>1, <1>2, <1>3, <1>5, <1>8 DEF Filed, terminal
<1>15. \A s \in Tenants, j \in Ids : s # t \/ j # i => (<<s, j>> \in active => <<s, j>> \in active')
  BY <1>1
<1> QED BY <1>0, <1>1, <1>2, <1>3, <1>6, <1>7, <1>8, <1>9, <1>10, <1>11, <1>12, <1>13, <1>14,
           <1>15, WorkerWrites

(* The outcome is anchored: every image has it, and the memory does not    *)
(* yet.                                                                    *)
LEMMA FinishAnchorsControlStep ==
  ASSUME QueueInv, NEW w \in Workers, FinishAnchorsControl(w)
  PROVE  QueueInv'
<1>0. PICK t, i, m, x, r : t = worker[w].t /\ i = worker[w].i /\ m = Mine(w) /\ x = Outcome(w)
                           /\ r = worker[w].run
  OBVIOUS
<1>1. /\ up = "up" /\ worker[w].pc = "sealed" /\ Step(w, "anchored")
      /\ disk' = disk /\ images' = images /\ catalog' = catalog /\ catImages' = {catalog}
      /\ done' = IF worker[w].outcome = "ok" THEN done \cup {r} ELSE done
      /\ UNCHANGED <<records, lock, req, up, bounds, runs, ended, ackEnqueue, ackCancel>>
  BY <1>0 DEF FinishAnchorsControl, At, AnchorControlPool
<1>2. /\ t \in Tenants /\ i \in Ids /\ m = tasks[t][i] /\ Held(w) /\ m \in Task /\ m # NoTask
      /\ r \in RunIds
  BY <1>0, <1>1, BusyIs, HeldTask DEF QueueInv
<1>3. /\ r = <<Named_(t, i, m), m.occurrence>> /\ m.status = "running"
      /\ worker[w].outcome # "none" /\ disk[t][i] = x
      /\ worker[w].outcome = "ok" /\ m.input = "every" => m.occurrence < MaxOccurrence
      /\ \A image \in images[t] : image[i] = x
  BY <1>0, <1>1, <1>2 DEF Held, Called, Recording
<1>4. /\ Named_(t, i, m) = <<<<t, i>>, m.gen>> /\ m.gen \in Gens
      /\ m.occurrence \in 0..MaxOccurrence
  BY <1>2, NamedIs
<1>5. /\ worker' \in [Workers -> Running \cup {Idle}]
      /\ \A v \in Workers : v # w => worker'[v] = worker[v]
      /\ worker'[w] \in Running /\ worker'[w].pc = "anchored"
      /\ worker'[w].t = t /\ worker'[w].i = i
      /\ worker'[w].run = r /\ worker'[w].outcome = worker[w].outcome
  <2>1. "anchored" \in Pcs
    BY DEF Pcs
  <2> QED BY <1>0, <1>1, <2>1, StepAt DEF QueueInv
<1>6. /\ tasks' = tasks /\ active' = active /\ due' = due /\ lock' = lock /\ req' = req
      /\ up' = up /\ gens' = gens /\ runs' = runs /\ ended' = ended
      /\ ackEnqueue' = ackEnqueue /\ ackCancel' = ackCancel
  BY <1>1 DEF records, bounds
<1>7. done' \subseteq RunIds /\ \A q \in done' : q \in done \/ (q = r /\ worker[w].outcome = "ok")
  BY <1>1, <1>2 DEF QueueInv, Typed
<1>8. Typed'
  BY <1>1, <1>5, <1>7 DEF QueueInv, Typed, records, bounds
<1>9. x.gen = m.gen /\ (worker[w].outcome = "ok" => terminal(x) \/ x.occurrence = m.occurrence + 1)
  <2>1. Mine(w) \in Task /\ (worker[w].outcome = "ok" /\ Mine(w).input = "every"
                               => Mine(w).occurrence < MaxOccurrence)
    BY <1>0, <1>2, <1>3
  <2> QED BY <1>0, <2>1, OutcomeIs
<1>10. ASSUME NEW s \in Tenants, NEW j \in Ids, NEW y \in Records, Past(s, j, y),
              s = t /\ j = i => y = x
       PROVE  Past(s, j, y)'
  <2> SUFFICES ASSUME NEW o \in 0..MaxOccurrence, y # NoTask, <<Named_(s, j, y), o>> \in done'
               PROVE  o < y.occurrence \/ terminal(y)
    BY DEF Past
  <2>1. CASE <<Named_(s, j, y), o>> \in done
    BY <1>10, <2>1 DEF Past
  <2>2. CASE <<Named_(s, j, y), o>> = r /\ worker[w].outcome = "ok"
    <3>1. s = t /\ j = i /\ o = m.occurrence
      BY <1>3, <1>4, <2>2 DEF Named_
    <3> QED BY <1>4, <1>9, <1>10, <2>2, <3>1
  <2> QED BY <1>7, <2>1, <2>2
<1>11. ImagesSound'
  <2> SUFFICES ASSUME NEW s \in Tenants, NEW j \in Ids, NEW y \in images[s]
               PROVE  Sound(s, j, y[j])' /\ Past(s, j, y[j])'
    BY <1>1 DEF ImagesSound
  <2>1. y[j] \in Records /\ Sound(s, j, y[j]) /\ Past(s, j, y[j])
    BY DEF QueueInv, Typed, Row, ImagesSound
  <2>2. Past(s, j, y[j])'
    BY <1>3, <1>10, <2>1
  <2> QED BY <1>6, <2>1, <2>2 DEF Sound
<1>12. MemorySound'
  <2> SUFFICES ASSUME NEW s \in Tenants, NEW j \in Ids
               PROVE  Sound(s, j, tasks[s][j])' /\ (Unseen(s, j)' \/ Past(s, j, tasks[s][j])')
    BY <1>6 DEF MemorySound
  <2>1. PICK y : y = tasks[s][j]
    OBVIOUS
  <2>2. y \in Records /\ Sound(s, j, y) /\ (Unseen(s, j) \/ Past(s, j, y))
    BY <1>1, <2>1 DEF QueueInv, Typed, File, Row, MemorySound
  <2>3. Sound(s, j, y)'
    BY <1>6, <2>2 DEF Sound
  <2>4. CASE s = t /\ j = i
    <3>1. Unseen(s, j)'
      BY <1>5, <2>4 DEF Unseen
    <3> QED BY <1>6, <2>1, <2>3, <3>1
  <2>5. CASE s # t \/ j # i
    <3>1. Past(s, j, y) => Past(s, j, y)'
      BY <1>10, <2>2, <2>5
    <3>2. Unseen(s, j) => Unseen(s, j)'
      BY <1>1, <1>5 DEF Unseen
    <3> QED BY <1>6, <2>1, <2>2, <2>3, <3>1, <3>2
  <2> QED BY <2>4, <2>5
<1>13. Undrawn'
  <2>1. PICK image \in images[t] : image = disk[t]
    BY <1>2 DEF QueueInv, Typed
  <2>2. Sound(t, i, x) /\ x \in Records
    BY <1>2, <1>3, <2>1 DEF QueueInv, ImagesSound, Typed, Row
  <2>3. Sound(t, i, m)
    BY <1>1, <1>2 DEF QueueInv, MemorySound
  <2>4. m.gen <= gens /\ gens \in Nat /\ m.gen \in Nat
    BY <1>2, <1>4, <2>3 DEF Sound, QueueInv, Typed, Gens
  <2> SUFFICES ASSUME NEW s \in Tenants, NEW j \in Ids, NEW g \in Gens, gens < g
      PROVE  /\ <<<<s, j>>, g>> \notin ackCancel
             /\ \A u \in Tenants : req[u].pc # "none" => <<<<s, j>>, g>> \notin req[u].cancelled
             /\ \A o \in 0..MaxOccurrence : /\ runs[<<<<<<s, j>>, g>>, o>>] = 0
                                            /\ <<<<<<s, j>>, g>>, o>> \notin done'
    BY <1>6 DEF Undrawn
  <2>5. \A o \in 0..MaxOccurrence : <<<<<<s, j>>, g>>, o>> # r
    <3>1. g # m.gen
      BY <2>4 DEF Gens
    <3> QED BY <1>3, <1>4, <3>1
  <2> QED BY <1>7, <2>5 DEF QueueInv, Undrawn
<1>14. Flagged'
  <2>1. catalog \in catImages
    BY DEF QueueInv, Typed
  <2> QED BY <1>1, <1>6, <2>1, FlaggedKept
<1>15. Alone' /\ Stopped'
  <2>1. Alone'
    BY <1>0, <1>1, <1>5, AloneKept DEF Locking
  <2> QED BY <1>1, <1>6, <2>1 DEF Stopped
<1>16. ASSUME NEW s \in Tenants PROVE Told(s)'
  <2>1. \A j \in Ids : Moves(s, j)
    BY <1>1, <1>6 DEF Moves
  <2> QED BY <1>1, <1>6, <2>1, ToldKept DEF QueueInv
<1>17. ASSUME NEW v \in Workers PROVE Held(v)'
  <2>1. CASE v = w
    <3>1. Mine(w)' = m /\ Outcome(w)' = x
      BY <1>0, <1>5, <1>6 DEF Mine, Outcome
    <3> QED BY <1>1, <1>2, <1>3, <1>5, <1>6, <2>1, <3>1 DEF Held, Locking, Called, Recording
  <2>2. CASE v # w
    BY <1>1, <1>5, <1>6, <2>2, HeldKept
  <2> QED BY <2>1, <2>2
<1>18. \A s \in Tenants, j \in Ids : Placed(s, j)'
  BY <1>0, <1>1, <1>5, <1>6, PlacesKept
<1>19. \A s \in Tenants, j \in Ids : Filed(s, j)'
  BY <1>1, <1>6 DEF QueueInv, Filed
<1> QED BY <1>8, <1>11, <1>12, <1>13, <1>14, <1>15, <1>16, <1>17, <1>18, <1>19 DEF QueueInv

LEMMA FinishRecordsStep ==
  ASSUME QueueInv, NEW w \in Workers, FinishRecords(w)
  PROVE  QueueInv'
<1>0. PICK t, i, m, x, late : t = worker[w].t /\ i = worker[w].i /\ m = Mine(w)
                              /\ x = Outcome(w) /\ late = FALSE
  OBVIOUS
<1>a. late \in BOOLEAN
  BY <1>0
<1>1. /\ up = "up" /\ worker[w].pc = "anchored" /\ tasks' = Put(tasks, t, i, x)
      /\ due' = IF x.status = "pending" THEN due \cup {<<late, t, i>>} ELSE due
      /\ End(t, i, x) /\ worker' = [worker EXCEPT ![w] = Idle]
      /\ UNCHANGED <<active, lastTenant, pools, lock, req, up, bounds,
                     runs, done, ackEnqueue, ackCancel>>
  BY <1>0 DEF FinishRecords, At
<1>2. /\ t \in Tenants /\ i \in Ids /\ m = tasks[t][i] /\ Held(w) /\ m \in Task /\ m # NoTask
      /\ Placed(t, i)
  BY <1>0, <1>1, BusyIs, HeldTask DEF QueueInv
<1>3. /\ m.status = "running" /\ disk[t][i] = x
      /\ worker[w].outcome = "ok" /\ m.input = "every" => m.occurrence < MaxOccurrence
      /\ \A image \in images[t] : image[i] = x
  BY <1>0, <1>1, <1>2 DEF Held, Called, Recording
<1>4. /\ x \in Task /\ x \in Records /\ x # NoTask /\ x.gen = m.gen
      /\ x.status \in {"pending", "completed", "failed"}
  <2>1. Mine(w) \in Task /\ (worker[w].outcome = "ok" /\ Mine(w).input = "every"
                               => Mine(w).occurrence < MaxOccurrence)
    BY <1>0, <1>2, <1>3
  <2>2. x \in Task /\ x.gen = m.gen /\ x.status \in {"pending", "completed", "failed"}
    BY <1>0, <2>1, OutcomeIs
  <2> QED BY <2>2, Apart DEF Records
<1>5. /\ worker' \in [Workers -> Running \cup {Idle}] /\ worker'[w] = Idle
      /\ \A v \in Workers : v # w => worker'[v] = worker[v]
  BY <1>1, LeavesAt DEF QueueInv
<1>6. /\ disk' = disk /\ images' = images /\ catalog' = catalog /\ catImages' = catImages
      /\ active' = active /\ lock' = lock /\ req' = req /\ up' = up /\ gens' = gens
      /\ runs' = runs /\ done' = done /\ ackEnqueue' = ackEnqueue /\ ackCancel' = ackCancel
      /\ gens \in Nat
  BY <1>1 DEF pools, bounds, QueueInv, Typed
<1>7. /\ tasks' \in File /\ tasks'[t][i] = x
      /\ \A s \in Tenants, j \in Ids : s # t \/ j # i => tasks'[s][j] = tasks[s][j]
  BY <1>1, <1>2, <1>4, PutAt DEF QueueInv, Typed
<1>8. /\ ended \subseteq ended' /\ ended' \subseteq Named
      /\ terminal(x) => Named_(t, i, x) \in ended'
  <2>1. Named_(t, i, x) \in Named
    BY <1>2, <1>4, NamedIs
  <2> QED BY <1>1, <2>1 DEF End, QueueInv, Typed
<1>9. Typed'
  <2>1. due' \subseteq BOOLEAN \X Tenants \X Ids
    BY <1>a, <1>1, <1>2 DEF QueueInv, Typed
  <2> QED BY <1>1, <1>5, <1>7, <1>8, <2>1 DEF QueueInv, Typed, pools, bounds
<1>10. PICK image \in images[t] : image = disk[t]
  BY <1>2 DEF QueueInv, Typed
<1>11. Sound(t, i, x)' /\ Past(t, i, x)'
  <2>1. Sound(t, i, x) /\ Past(t, i, x)
    BY <1>2, <1>3, <1>10 DEF QueueInv, ImagesSound
  <2> QED BY <1>2, <1>4, <1>6, <1>8, <2>1, SoundKept
<1>12. ImagesSound'
  <2>1. \A s \in Tenants, j \in Ids : \A y \in images'[s] : \E old \in images[s] : old[j] = y[j]
    BY <1>6
  <2> QED BY <1>6, <1>8, <1>9, <2>1, ImagesKept
<1>13. MemorySound'
  <2>1. ASSUME NEW s \in Tenants, NEW j \in Ids, NEW y, y = tasks'[s][j]
        PROVE  Sound(s, j, y)' /\ (Unseen(s, j)' \/ Past(s, j, y)')
    <3>1. CASE s = t /\ j = i
      BY <1>7, <1>11, <2>1, <3>1
    <3>2. CASE s # t \/ j # i
      <4>1. y \in Records /\ Sound(s, j, y) /\ (Unseen(s, j) \/ Past(s, j, y))
        BY <1>1, <1>7, <2>1, <3>2 DEF QueueInv, Typed, File, Row, MemorySound
      <4>2. Unseen(s, j) => Unseen(s, j)'
        BY <1>0, <1>5, <3>2 DEF Unseen
      <4> QED BY <1>6, <1>8, <4>1, <4>2, SoundKept
    <3> QED BY <3>1, <3>2
  <2>2. ASSUME NEW s \in Tenants, NEW j \in Ids
        PROVE  Sound(s, j, tasks[s][j])' /\ (Unseen(s, j)' \/ Past(s, j, tasks[s][j])')
    BY <2>1
  <2> QED BY <2>2 DEF MemorySound
<1>14. Undrawn' /\ Flagged' /\ Stopped'
  BY <1>1, <1>6, <1>8, UndrawnKept, FlaggedKept DEF Stopped
<1>15. Alone'
  BY <1>5, Apart, AloneKept
<1>16. Holds(w, t, i) /\ \A v \in Workers : v # w => ~Holds(v, t, i)
  BY <1>0, <1>1 DEF QueueInv, Alone, Holds
<1>17. ASSUME NEW s \in Tenants PROVE Told(s)'
  <2>1. ASSUME NEW j \in Ids PROVE Moves(s, j)
    <3>1. CASE s = t /\ j = i
      BY <1>2, <1>3, <1>4, <1>6, <1>7, <3>1 DEF Moves
    <3>2. CASE s # t \/ j # i
      BY <1>6, <1>7, <3>2 DEF Moves
    <3> QED BY <3>1, <3>2
  <2> QED BY <1>6, <1>8, <2>1, ToldKept DEF QueueInv
<1>18. ASSUME NEW v \in Workers PROVE Held(v)'
  <2>1. CASE v = w
    BY <1>5, <2>1, Apart DEF Held
  <2>2. CASE v # w /\ worker[v].pc = "idle"
    BY <1>5, <2>2 DEF Held
  <2>3. CASE v # w /\ worker[v].pc # "idle"
    <3>1. worker[v].t \in Tenants /\ worker[v].i \in Ids
          /\ (worker[v].t # t \/ worker[v].i # i)
      BY <1>16, <2>3, BusyIs DEF QueueInv, Holds
    <3> QED BY <1>5, <1>6, <1>7, <2>3, <3>1, HeldKept
  <2> QED BY <2>1, <2>2, <2>3
<1>19. ASSUME NEW s \in Tenants, NEW j \in Ids PROVE Placed(s, j)'
  <2>1. CASE s = t /\ j = i
    <3>1. \A r \in BOOLEAN : <<r, t, i>> \notin due
      BY <1>2, <1>16 DEF Placed
    <3>2. \A v \in Workers : ~Holds(v, t, i)'
      BY <1>5, <1>16, Apart DEF Holds
    <3>3. CASE x.status # "pending"
      BY <1>1, <1>4, <1>7, <2>1, <3>1, <3>3 DEF Placed
    <3>4. CASE x.status = "pending"
      <4>1. \A r \in BOOLEAN : <<r, t, i>> \in due' <=> r = late
        BY <1>1, <3>1, <3>4
      <4> QED BY <1>a, <1>7, <2>1, <3>2, <3>4, <4>1 DEF Placed
    <3> QED BY <3>3, <3>4
  <2>2. CASE s # t \/ j # i
    <3>1. \A v \in Workers : Holds(v, s, j)' <=> Holds(v, s, j)
      BY <1>0, <1>1, <1>5, <2>2, Apart DEF Holds
    <3>2. \A r \in BOOLEAN : <<r, s, j>> \in due' <=> <<r, s, j>> \in due
      BY <1>1, <2>2
    <3> QED BY <1>7, <2>2, <3>1, <3>2, PlacedKept DEF QueueInv
  <2> QED BY <2>1, <2>2
<1>20. ASSUME NEW s \in Tenants, NEW j \in Ids PROVE Filed(s, j)'
  <2>1. CASE s = t /\ j = i
    BY <1>3, <1>4, <1>6, <1>7, <1>8, <2>1 DEF Filed
  <2>2. CASE s # t \/ j # i
    <3>1. disk'[s][j] = disk[s][j] /\ tasks'[s][j] = tasks[s][j] /\ Filed(s, j)
      BY <1>6, <1>7, <2>2 DEF QueueInv
    <3> QED BY <1>8, <3>1 DEF Filed
  <2> QED BY <2>1, <2>2
<1> QED BY <1>9, <1>12, <1>13, <1>14, <1>15, <1>17, <1>18, <1>19, <1>20 DEF QueueInv

-----------------------------------------------------------------------------
(* Stopping and starting again.                                            *)

LEMMA StopStep ==
  ASSUME QueueInv, Volatile, up' = "down", UNCHANGED <<pools, gens, requests, ghosts>>,
         stops' \in 0..MaxStops
  PROVE  QueueInv'
<1>1. /\ tasks' = Nothing /\ due' = {} /\ active' = {} /\ lastTenant' = 0
      /\ lock' = [t \in Tenants |-> "free"] /\ req' = [t \in Tenants |-> NoRequest]
      /\ worker' = [w \in Workers |-> Idle]
  BY DEF Volatile
<1>2. /\ disk' = disk /\ images' = images /\ catalog' = catalog /\ catImages' = catImages
      /\ gens' = gens /\ runs' = runs /\ done' = done /\ ended' = ended
      /\ ackEnqueue' = ackEnqueue /\ ackCancel' = ackCancel /\ gens \in Nat
  BY DEF pools, ghosts, QueueInv, Typed
<1>3. /\ \A t \in Tenants : req'[t].pc = "none"
      /\ \A w \in Workers : worker'[w].pc = "idle"
      /\ \A t \in Tenants, i \in Ids : tasks'[t][i] = NoTask
  BY <1>1, Apart DEF Nothing
<1>4. Typed'
  <2>1. tasks' \in File
    BY <1>1 DEF Nothing, File, Row, Records
  <2>2. /\ lock' \in [Tenants -> {"free", "request", "task"}]
        /\ req' \in [Tenants -> Request \cup {NoRequest}]
        /\ worker' \in [Workers -> Running \cup {Idle}]
    BY <1>1
  <2> QED BY <1>1, <1>2, <2>1, <2>2 DEF QueueInv, Typed, pools, ghosts
<1>5. ImagesSound'
  <2>1. \A s \in Tenants, j \in Ids : \A y \in images'[s] : \E old \in images[s] : old[j] = y[j]
    BY <1>2
  <2> QED BY <1>2, <1>4, <2>1, ImagesKept
<1>6. MemorySound'
  BY DEF MemorySound
<1>7. Undrawn' /\ Flagged'
  BY <1>2, <1>3, UndrawnKept, FlaggedKept
<1>8. Alone' /\ Stopped'
  BY <1>1, <1>3 DEF Alone, Stopped
<1>9. /\ \A t \in Tenants : Told(t)'
      /\ \A w \in Workers : Held(w)'
  BY <1>3 DEF Told, Held
<1>10. \A t \in Tenants, i \in Ids : Placed(t, i)' /\ Filed(t, i)'
  <2>1. \A r, t, i : <<r, t, i>> \notin due'
    BY <1>1
  <2> QED BY <1>3, <2>1, Apart DEF Placed, Filed
<1> QED BY <1>4, <1>5, <1>6, <1>7, <1>8, <1>9, <1>10 DEF QueueInv

LEMMA StopsStep ==
  ASSUME QueueInv, Die \/ \E w \in Workers : SchedulerStops(w)
  PROVE  QueueInv'
<1>1. stops \in 0..MaxStops
  BY DEF QueueInv, Typed
<1>2. CASE Die
  <2>1. /\ Volatile /\ up' = "down" /\ UNCHANGED <<pools, gens, requests, ghosts>>
        /\ stops < MaxStops /\ stops' = stops + 1
    BY <1>2 DEF Die
  <2>2. stops' \in 0..MaxStops
    BY <1>1, <2>1, TasksAssumption
  <2> QED BY <2>1, <2>2, StopStep
<1>3. CASE \E w \in Workers : SchedulerStops(w)
  <2>1. Volatile /\ up' = "down" /\ UNCHANGED <<pools, bounds, ghosts>>
    BY <1>3 DEF SchedulerStops
  <2> QED BY <1>1, <2>1, StopStep DEF bounds
<1> QED BY <1>2, <1>3

(* open: whichever images the boot finds, and whichever of the records it  *)
(* rewrites a further stop keeps.                                          *)
LEMMA RecoveredSound ==
  ASSUME QueueInv, NEW t \in Tenants, NEW i \in Ids, NEW x \in Records,
         Sound(t, i, x), Past(t, i, x)
  PROVE  Sound(t, i, Recovered(x)) /\ Past(t, i, Recovered(x))
<1>1. CASE x = NoTask
  BY <1>1, RecoveredIs
<1>2. CASE x # NoTask
  <2>1. PICK y : y = Recovered(x)
    OBVIOUS
  <2>2. /\ y \in Task /\ y.gen = x.gen /\ y.attempts = x.attempts /\ y.occurrence = x.occurrence
        /\ y = x \/ ~terminal(x)
        /\ x.status = "cancelled" => y = x
        /\ y.status = "pending" => x.status = "pending" \/ x.attempts < MaxAttempts
    BY <1>2, <2>1, RecoveredIs
  <2>3. y # NoTask /\ Named_(t, i, y) = Named_(t, i, x)
    BY <2>2, Apart DEF Named_
  <2>4. x.status = "cancelled" => y.status = "cancelled"
    BY <1>2, <2>1, RecoveredIs
  <2>5. Sound(t, i, y)
    BY <1>2, <2>2, <2>3, <2>4 DEF Sound
  <2>6. y = x \/ ~terminal(x)
    BY <1>2, <2>1, RecoveredIs
  <2>7. Past(t, i, y)
    BY <1>2, <2>2, <2>3, <2>6 DEF Past
  <2> QED BY <2>1, <2>5, <2>7
<1> QED BY <1>1, <1>2

LEMMA RestartStep ==
  ASSUME QueueInv, Restart
  PROVE  QueueInv'
<1>0. PICK late : late = FALSE
  OBVIOUS
<1>a. late \in BOOLEAN
  BY <1>0
<1>1. PICK flags \in catImages, found \in Images :
        LET loaded == [t \in Tenants |->
                         [i \in Ids |-> Recovered(Found(flags, found)[t][i])]]
        IN /\ catalog' = flags /\ catImages' = {flags}
           /\ disk' = [t \in Tenants |-> IF t \in flags THEN loaded[t] ELSE found[t]]
           /\ images' = [t \in Tenants |->
                {[i \in Ids |-> IF i \in rewritten THEN disk'[t][i] ELSE found[t][i]]
                   : rewritten \in SUBSET Ids}]
           /\ tasks' = loaded
           /\ due' = {<<FALSE, k[1], k[2]>> : k \in
                        {k \in Keys : loaded[k[1]][k[2]].status = "pending"}}
           /\ ended' = ended \cup
                {Named_(k[1], k[2], loaded[k[1]][k[2]]) : k \in
                   {k \in Keys : terminal(loaded[k[1]][k[2]])}}
  BY DEF Restart
<1>2. /\ up = "down" /\ up' = "up"
      /\ UNCHANGED <<active, lastTenant, lock, req, worker, bounds, runs, done,
                     ackEnqueue, ackCancel>>
  BY DEF Restart
<1>3. PICK loaded : loaded = [t \in Tenants |->
                                [i \in Ids |-> Recovered(Found(flags, found)[t][i])]]
  OBVIOUS
<1>4. /\ catalog' = flags /\ catImages' = {flags}
      /\ disk' = [t \in Tenants |-> IF t \in flags THEN loaded[t] ELSE found[t]]
      /\ images' = [t \in Tenants |->
           {[i \in Ids |-> IF i \in rewritten THEN disk'[t][i] ELSE found[t][i]]
              : rewritten \in SUBSET Ids}]
      /\ tasks' = loaded
      /\ due' = {<<late, k[1], k[2]>> : k \in
                   {k \in Keys : loaded[k[1]][k[2]].status = "pending"}}
      /\ ended' = ended \cup
           {Named_(k[1], k[2], loaded[k[1]][k[2]]) : k \in
              {k \in Keys : terminal(loaded[k[1]][k[2]])}}
  BY <1>0, <1>1, <1>3
<1>5. \A t \in Tenants : found[t] \in images[t] /\ found[t] \in Row
  BY DEF Images, QueueInv, Typed
<1>6. ASSUME NEW t \in Tenants, NEW i \in Ids
      PROVE  /\ found[t][i] \in Records /\ Sound(t, i, found[t][i]) /\ Past(t, i, found[t][i])
             /\ loaded[t][i] = IF t \in flags THEN Recovered(found[t][i]) ELSE NoTask
  <2>1. found[t][i] \in Records
    BY <1>5 DEF Row
  <2>2. Sound(t, i, found[t][i]) /\ Past(t, i, found[t][i])
    BY <1>5 DEF QueueInv, ImagesSound
  <2>3. Found(flags, found)[t][i] = IF t \in flags THEN found[t][i] ELSE NoTask
    BY DEF Found, Nothing
  <2>4. NoTask \in Records /\ Recovered(NoTask) = NoTask
    BY RecoveredIs DEF Records
  <2> QED BY <1>3, <2>1, <2>2, <2>3, <2>4
<1>7. /\ gens' = gens /\ runs' = runs /\ done' = done /\ ackEnqueue' = ackEnqueue
      /\ ackCancel' = ackCancel /\ active' = active /\ lastTenant' = lastTenant /\ lock' = lock
      /\ req' = req /\ worker' = worker /\ requests' = requests /\ stops' = stops /\ gens \in Nat
  BY <1>2 DEF bounds, QueueInv, Typed
<1>8. /\ \A w \in Workers : worker[w].pc = "idle"
      /\ \A t \in Tenants : req[t].pc = "none"
  BY <1>2 DEF QueueInv, Stopped
<1>9. ASSUME NEW t \in Tenants, NEW i \in Ids
      PROVE  loaded[t][i] \in Records /\ Sound(t, i, loaded[t][i]) /\ Past(t, i, loaded[t][i])
             /\ loaded[t][i].status # "running"
             /\ (t \notin flags => loaded[t][i] = NoTask)
  <2>1. CASE t \in flags
    <3>1. loaded[t][i] = Recovered(found[t][i])
      BY <1>6, <2>1
    <3>2. Recovered(found[t][i]) \in Records /\ Recovered(found[t][i]).status # "running"
      BY <1>6, RecoveredIs, Apart
    <3> QED BY <1>6, <2>1, <3>1, <3>2, RecoveredSound
  <2>2. CASE t \notin flags
    <3>1. loaded[t][i] = NoTask /\ NoTask \in Records
      BY <1>6, <2>2 DEF Records
    <3>2. \A g \in Gens : <<<<t, i>>, g>> \notin ackEnqueue \ ended
      BY <2>2 DEF QueueInv, Flagged
    <3> QED BY <2>2, <3>1, <3>2, Apart DEF Sound, Past
  <2> QED BY <2>1, <2>2
<1>10. loaded \in File
  <2>1. \A t \in Tenants : loaded[t] = [i \in Ids |-> Recovered(Found(flags, found)[t][i])]
    BY <1>3
  <2>2. \A t \in Tenants : loaded[t] \in Row
    BY <1>9, <2>1 DEF Row
  <2> QED BY <1>3, <2>2 DEF File
<1>11. disk' \in File /\ \A t \in Tenants : disk'[t] = IF t \in flags THEN loaded[t] ELSE found[t]
  BY <1>4, <1>5, <1>10 DEF File
<1>12. /\ images' \in [Tenants -> SUBSET Row]
       /\ \A t \in Tenants : disk'[t] \in images'[t]
       /\ \A t \in Tenants, i \in Ids : \A y \in images'[t] :
            y[i] = loaded[t][i] \/ y[i] = found[t][i]
  <2>1. PICK d : d = disk'
    OBVIOUS
  <2>2. \A t \in Tenants : d[t] \in Row /\ d[t] = IF t \in flags THEN loaded[t] ELSE found[t]
    BY <1>11, <2>1 DEF File
  <2>3. PICK mix : mix = [t \in Tenants |->
           {[i \in Ids |-> IF i \in rewritten THEN d[t][i] ELSE found[t][i]]
              : rewritten \in SUBSET Ids}]
    OBVIOUS
  <2>4. images' = mix
    BY <1>4, <2>1, <2>3
  <2>5. ASSUME NEW t \in Tenants
        PROVE  /\ mix[t] \subseteq Row /\ d[t] \in mix[t]
               /\ \A i \in Ids : \A y \in mix[t] : y[i] = d[t][i] \/ y[i] = found[t][i]
    <3>1. mix[t] = {[i \in Ids |-> IF i \in rewritten THEN d[t][i] ELSE found[t][i]]
                      : rewritten \in SUBSET Ids}
      BY <2>3
    <3>2. ASSUME NEW y \in mix[t]
          PROVE  y \in Row /\ \A i \in Ids : y[i] = d[t][i] \/ y[i] = found[t][i]
      <4>1. PICK rewritten \in SUBSET Ids :
              y = [i \in Ids |-> IF i \in rewritten THEN d[t][i] ELSE found[t][i]]
        BY <3>1, <3>2
      <4> QED BY <1>5, <2>2, <4>1 DEF Row
    <3>3. d[t] \in mix[t]
      <4>1. d[t] = [i \in Ids |-> IF i \in Ids THEN d[t][i] ELSE found[t][i]]
        BY <2>2 DEF Row
      <4> QED BY <3>1, <4>1
    <3> QED BY <3>2, <3>3
  <2>6. images' \in [Tenants -> SUBSET Row]
    <3>1. mix = [t \in Tenants |-> mix[t]]
      BY <2>3
    <3>2. \A t \in Tenants : mix[t] \in SUBSET Row
      BY <2>5
    <3> QED BY <2>4, <3>1, <3>2
  <2> QED BY <2>1, <2>2, <2>4, <2>5, <2>6
<1>13. \A r \in BOOLEAN, t \in Tenants, i \in Ids :
         <<r, t, i>> \in due' <=> r = late /\ loaded[t][i].status = "pending"
  <2> TAKE r \in BOOLEAN, t \in Tenants, i \in Ids
  <2>1. ASSUME <<r, t, i>> \in due' PROVE r = late /\ loaded[t][i].status = "pending"
    <3>1. PICK k \in Keys : loaded[k[1]][k[2]].status = "pending"
                            /\ <<r, t, i>> = <<late, k[1], k[2]>>
      BY <1>4, <2>1
    <3> QED BY <3>1
  <2>2. ASSUME r = late, loaded[t][i].status = "pending" PROVE <<r, t, i>> \in due'
    <3>1. PICK k : k = <<t, i>>
      OBVIOUS
    <3>2. k \in Keys /\ k[1] = t /\ k[2] = i
      BY <3>1 DEF Keys
    <3>3. k \in {q \in Keys : loaded[q[1]][q[2]].status = "pending"}
      BY <2>2, <3>2
    <3>4. <<late, k[1], k[2]>> \in due'
      BY <1>4, <3>3
    <3> QED BY <2>2, <3>2, <3>4
  <2> QED BY <2>1, <2>2
<1>14. ended \subseteq ended'
       /\ \A t \in Tenants, i \in Ids : terminal(loaded[t][i]) => Named_(t, i, loaded[t][i]) \in ended'
  <2>1. ended \subseteq ended'
    BY <1>4
  <2>2. ASSUME NEW t \in Tenants, NEW i \in Ids, terminal(loaded[t][i])
        PROVE  Named_(t, i, loaded[t][i]) \in ended'
    <3>1. PICK k : k = <<t, i>>
      OBVIOUS
    <3>2. k \in Keys /\ k[1] = t /\ k[2] = i
      BY <3>1 DEF Keys
    <3>3. k \in {q \in Keys : terminal(loaded[q[1]][q[2]])}
      BY <2>2, <3>2
    <3>4. Named_(k[1], k[2], loaded[k[1]][k[2]]) \in ended'
      BY <1>4, <3>3
    <3> QED BY <3>2, <3>4
  <2> QED BY <2>1, <2>2
<1>15. Typed'
  <2>1. ended' \subseteq Named
    <3>1. ASSUME NEW k \in Keys, terminal(loaded[k[1]][k[2]])
          PROVE  Named_(k[1], k[2], loaded[k[1]][k[2]]) \in Named
      <4>1. k[1] \in Tenants /\ k[2] \in Ids
        BY DEF Keys
      <4>2. loaded[k[1]][k[2]] \in Task
        BY <1>9, <3>1, <4>1, Apart DEF terminal
      <4> QED BY <4>1, <4>2, NamedIs
    <3>2. ended \subseteq Named
      BY DEF QueueInv, Typed
    <3> QED BY <1>4, <3>1, <3>2
  <2>2. due' \subseteq BOOLEAN \X Tenants \X Ids
    BY <1>a, <1>4 DEF Keys
  <2>3. catalog' \subseteq Tenants /\ catImages' \subseteq SUBSET Tenants /\ catalog' \in catImages'
    BY <1>4 DEF QueueInv, Typed
  <2> QED BY <1>2, <1>4, <1>7, <1>10, <1>11, <1>12, <2>1, <2>2, <2>3 DEF QueueInv, Typed
<1>16. ASSUME NEW t \in Tenants, NEW i \in Ids, NEW y \in Records, Sound(t, i, y), Past(t, i, y)
       PROVE  Sound(t, i, y)' /\ Past(t, i, y)'
  BY <1>7, <1>14, <1>16, SoundKept
<1>17. ImagesSound'
  <2> SUFFICES ASSUME NEW t \in Tenants, NEW i \in Ids, NEW image \in images'[t]
               PROVE  Sound(t, i, image[i])' /\ Past(t, i, image[i])'
    BY DEF ImagesSound
  <2>1. PICK y : y = image[i]
    OBVIOUS
  <2>2. y \in Records /\ Sound(t, i, y) /\ Past(t, i, y)
    BY <1>6, <1>9, <1>12, <2>1
  <2>3. Sound(t, i, y)' /\ Past(t, i, y)'
    BY <1>16, <2>2
  <2> QED BY <2>1, <2>3
<1>18. MemorySound'
  <2>1. ASSUME NEW t \in Tenants, NEW i \in Ids, NEW y, y = tasks'[t][i]
        PROVE  Sound(t, i, y)' /\ Past(t, i, y)'
    BY <1>4, <1>9, <1>16, <2>1
  <2>2. ASSUME NEW t \in Tenants, NEW i \in Ids
        PROVE  Sound(t, i, tasks[t][i])' /\ Past(t, i, tasks[t][i])'
    BY <2>1
  <2> QED BY <2>2 DEF MemorySound
<1>19. Undrawn'
  BY <1>7, UndrawnKept
<1>20. Flagged'
  BY <1>4, <1>7, <1>14, FlaggedKept
<1>21. Alone' /\ Stopped'
  BY <1>2, <1>7, <1>8 DEF Alone, Stopped
<1>22. (\A t \in Tenants : Told(t)') /\ (\A w \in Workers : Held(w)')
  BY <1>7, <1>8 DEF Told, Held
<1>23. ASSUME NEW t \in Tenants, NEW i \in Ids PROVE Placed(t, i)' /\ Filed(t, i)'
  <2>1. \A w \in Workers : ~Holds(w, t, i)'
    BY <1>7, <1>8 DEF Holds
  <2>2. Placed(t, i)'
    BY <1>a, <1>4, <1>9, <1>13, <2>1 DEF Placed
  <2>3. tasks'[t][i] # NoTask => disk'[t][i] = tasks'[t][i]
    BY <1>4, <1>9, <1>11
  <2>4. Filed(t, i)'
    BY <1>4, <1>14, <2>3 DEF Filed
  <2> QED BY <2>2, <2>4
<1> QED BY <1>15, <1>17, <1>18, <1>19, <1>20, <1>21, <1>22, <1>23 DEF QueueInv

-----------------------------------------------------------------------------
(* The invariant, step by step.                                            *)

LEMMA QueueInit == Init => QueueInv
<1> SUFFICES ASSUME Init PROVE QueueInv
  OBVIOUS
<1>1. /\ tasks = Nothing /\ due = {} /\ active = {} /\ lastTenant = 0
      /\ disk = Nothing /\ images = [t \in Tenants |-> {Nothing[t]}]
      /\ catalog = {} /\ catImages = {{}}
      /\ lock = [t \in Tenants |-> "free"] /\ req = [t \in Tenants |-> NoRequest]
      /\ worker = [w \in Workers |-> Idle]
      /\ up = "up" /\ gens = 0 /\ requests = 0 /\ stops = 0
      /\ runs = [r \in RunIds |-> 0]
      /\ done = {} /\ ended = {} /\ ackEnqueue = {} /\ ackCancel = {}
  BY DEF Init
<1>2. /\ Nothing \in File /\ \A t \in Tenants : Nothing[t] \in Row
      /\ \A t \in Tenants, i \in Ids : Nothing[t][i] = NoTask
  BY DEF Nothing, File, Row, Records
<1>3. /\ \A t \in Tenants : req[t].pc = "none"
      /\ \A w \in Workers : worker[w].pc = "idle"
  BY <1>1, Apart
<1>4. Typed
  <2>1. /\ lock \in [Tenants -> {"free", "request", "task"}]
        /\ req \in [Tenants -> Request \cup {NoRequest}]
        /\ worker \in [Workers -> Running \cup {Idle}] /\ runs \in [RunIds -> Nat]
    BY <1>1
  <2>2. images \in [Tenants -> SUBSET Row] /\ \A t \in Tenants : disk[t] \in images[t]
    BY <1>1, <1>2
  <2> QED BY <1>1, <1>2, <2>1, <2>2, TasksAssumption DEF Typed
<1>5. \A t \in Tenants, i \in Ids : Sound(t, i, NoTask) /\ Past(t, i, NoTask)
  BY <1>1 DEF Sound, Past
<1>6. ImagesSound /\ MemorySound
  BY <1>1, <1>2, <1>5 DEF ImagesSound, MemorySound
<1>7. Undrawn
  <2>1. \A t \in Tenants, i \in Ids, g \in Gens, o \in 0..MaxOccurrence :
          <<<<<<t, i>>, g>>, o>> \in RunIds
    BY DEF RunIds, Named, Keys
  <2> QED BY <1>1, <1>3, <2>1 DEF Undrawn
<1>8. Alone /\ Flagged /\ Stopped
  BY <1>1, <1>3 DEF Alone, Flagged, Stopped
<1>9. (\A t \in Tenants : Told(t)) /\ (\A w \in Workers : Held(w))
  BY <1>3 DEF Told, Held
<1>10. \A t \in Tenants, i \in Ids : Placed(t, i) /\ Filed(t, i)
  BY <1>1, <1>2, Apart DEF Placed, Filed
<1> QED BY <1>4, <1>6, <1>7, <1>8, <1>9, <1>10 DEF QueueInv

LEMMA QueueStutter ==
  ASSUME QueueInv, UNCHANGED vars
  PROVE  QueueInv'
<1>1. /\ tasks' = tasks /\ due' = due /\ active' = active /\ lastTenant' = lastTenant
      /\ disk' = disk /\ images' = images /\ catalog' = catalog /\ catImages' = catImages
      /\ lock' = lock /\ req' = req /\ worker' = worker /\ up' = up /\ UNCHANGED ghosts
      /\ gens' = gens /\ requests' = requests /\ stops' = stops
      /\ runs' = runs /\ done' = done /\ ended' = ended
      /\ ackEnqueue' = ackEnqueue /\ ackCancel' = ackCancel /\ gens \in Nat
  BY DEF vars, records, pools, bounds, ghosts, QueueInv, Typed
<1>2. Typed'
  BY <1>1 DEF QueueInv, Typed
<1>3. ImagesSound' /\ MemorySound' /\ \A t \in Tenants, i \in Ids : Filed(t, i)'
  BY <1>1, <1>2, RecordsKept
<1>4. Undrawn' /\ Flagged' /\ Alone'
  BY <1>1, UndrawnKept, FlaggedKept, AloneKept
<1>5. Stopped'
  BY <1>1 DEF QueueInv, Stopped
<1>6. ASSUME NEW t \in Tenants PROVE Told(t)'
  <2>1. \A i \in Ids : Moves(t, i)
    BY <1>1 DEF Moves
  <2> QED BY <1>1, <2>1, ToldKept DEF QueueInv
<1>7. ASSUME NEW w \in Workers PROVE Held(w)'
  BY <1>1, HeldKept
<1>8. \A t \in Tenants, i \in Ids : Placed(t, i)'
  BY <1>1 DEF QueueInv, Placed, Holds
<1> QED BY <1>2, <1>3, <1>4, <1>5, <1>6, <1>7, <1>8 DEF QueueInv

LEMMA QueueStep == QueueInv /\ [Next]_vars => QueueInv'
<1> SUFFICES ASSUME QueueInv, [Next]_vars PROVE QueueInv'
  OBVIOUS
<1>1. ASSUME NEW t \in Tenants, RequestStep(t) PROVE QueueInv'
  <2>1. ASSUME NEW i \in Ids, Cancel(t, i) \/ Forget(t, i) PROVE QueueInv'
    BY <2>1, CancelStep, ForgetStep
  <2>2. ASSUME NEW i \in Ids, NEW input \in Inputs,
               EnqueueExisting(t, i, input) \/ Enqueue(t, i, input)
        PROVE  QueueInv'
    BY <2>2, EnqueueExistingStep, EnqueueStep
  <2>3. CASE RequestStart(t) \/ MarkBackground(t) \/ MarkAnchored(t) \/ MarkFails(t)
    BY <2>3, RequestStartStep, MarkBackgroundStep, MarkAnchoredStep, AnswersStep
  <2>4. CASE CutShort(t) \/ GuestAnswers(t) \/ RequestAnchors(t) \/ Respond(t) \/ Abandon(t)
    BY <2>4, CutShortStep, AnswersStep, RequestAnchorsStep, RespondStep, AbandonStep
  <2> QED BY <1>1, <2>1, <2>2, <2>3, <2>4 DEF RequestStep
<1>2. ASSUME NEW t \in Tenants, NEW i \in Ids, Ripen(t, i) PROVE QueueInv'
  BY <1>2, RipenStep
<1>3. ASSUME NEW w \in Workers, WorkerStep(w) PROVE QueueInv'
  <2>1. ASSUME NEW t \in Tenants, NEW i \in Ids, TakeDue(w, t, i) PROVE QueueInv'
    BY <2>1, TakeDueStep
  <2>2. CASE TryLock(w) \/ Begin(w) \/ CallGuest(w)
    BY <2>2, TryLockStep, BeginStep, CallGuestStep
  <2>3. CASE BeginRefused(w) \/ BeginFails(w) \/ BeginUnwritten(w) \/ GuestReturns(w)
    BY <2>3, ReturnsStep
  <2>4. CASE BeginAnchors(w) \/ FinishAnchors(w)
    BY <2>4, AnchorsStep
  <2>5. CASE FinishUnrecorded(w) \/ Finish(w) \/ FinishAnchorsControl(w) \/ FinishRecords(w)
    BY <2>5, FinishUnrecordedStep, FinishStep, FinishAnchorsControlStep, FinishRecordsStep
  <2>6. CASE SchedulerStops(w)
    BY <2>6, StopsStep
  <2> QED BY <1>3, <2>1, <2>2, <2>3, <2>4, <2>5, <2>6 DEF WorkerStep
<1>4. CASE Die
  BY <1>4, StopsStep
<1>5. CASE Restart
  BY <1>5, RestartStep
<1>6. CASE UNCHANGED vars
  BY <1>6, QueueStutter
<1> QED BY <1>1, <1>2, <1>3, <1>4, <1>5, <1>6 DEF Next

(* Only CallGuest calls the guest.                                         *)
LEMMA RunsCounted ==
  ASSUME [Next]_vars
  PROVE  runs' = runs \/ \E w \in Workers : CallGuest(w)
<1>1. ASSUME NEW t \in Tenants, RequestStep(t) PROVE runs' = runs
  BY <1>1 DEF RequestStep, RequestStart, MarkBackground, MarkAnchored, MarkFails, EnqueueExisting,
              Enqueue, Cancel, Forget, CutShort, GuestAnswers, RequestAnchors, Respond, Abandon,
              ghosts
<1>2. ASSUME NEW t \in Tenants, NEW i \in Ids, Ripen(t, i) PROVE runs' = runs
  BY <1>2 DEF Ripen, ghosts
<1>3. ASSUME NEW w \in Workers, WorkerStep(w) PROVE runs' = runs \/ CallGuest(w)
  BY <1>3 DEF WorkerStep, TakeDue, TryLock, BeginRefused, Begin, BeginAnchors, BeginFails,
              BeginUnwritten, GuestReturns, FinishUnrecorded, Finish, FinishAnchors,
              FinishAnchorsControl, FinishRecords, SchedulerStops, ghosts
<1>4. CASE Die \/ Restart
  BY <1>4 DEF Die, Restart, ghosts
<1>5. CASE UNCHANGED vars
  BY <1>5 DEF vars, ghosts
<1> QED BY <1>1, <1>2, <1>3, <1>4, <1>5 DEF Next

LEMMA AttemptsStep == QueueInv /\ AttemptsBounded /\ [Next]_vars => AttemptsBounded'
<1> SUFFICES ASSUME QueueInv, AttemptsBounded, [Next]_vars PROVE AttemptsBounded'
  OBVIOUS
<1>1. CASE runs' = runs
  BY <1>1 DEF AttemptsBounded
<1>2. ASSUME NEW w \in Workers, CallGuest(w) PROVE AttemptsBounded'
  <2>1. /\ runs' = [runs EXCEPT ![worker[w].run] = @ + 1]
        /\ worker[w].run \in RunIds /\ runs[worker[w].run] < MaxAttempts
    BY <1>2, CallGuestStep
  <2>2. runs \in [RunIds -> Nat] /\ MaxAttempts \in Nat
    BY TasksAssumption DEF QueueInv, Typed
  <2> QED BY <2>1, <2>2 DEF AttemptsBounded
<1> QED BY <1>1, <1>2, RunsCounted

LEMMA HoldersAre ==
  ASSUME QueueInv, NEW t \in Tenants, NEW i \in Ids
  PROVE  /\ \/ Entries(t, i) = {} /\ Cardinality(Entries(t, i)) = 0
            \/ /\ Cardinality(Entries(t, i)) = 1 /\ Holders(t, i) = {}
               /\ tasks[t][i].status = "pending"
         /\ \/ Holders(t, i) = {} /\ Cardinality(Holders(t, i)) = 0
            \/ Cardinality(Holders(t, i)) = 1 /\ tasks[t][i] # NoTask
         /\ tasks[t][i].status = "running" => Holders(t, i) # {}
         /\ tasks[t][i].status = "pending" => Holders(t, i) # {} \/ Entries(t, i) # {}
<1>1. Placed(t, i) /\ due \subseteq BOOLEAN \X Tenants \X Ids
  BY DEF QueueInv, Typed
<1>2. Holders(t, i) = {w \in Workers : Holds(w, t, i)}
  BY DEF Holders, Holds
<1>3. \A d \in due : d = <<d[1], d[2], d[3]>> /\ d[1] \in BOOLEAN
  BY <1>1
<1>4. ASSUME NEW d \in Entries(t, i)
      PROVE  /\ Entries(t, i) = {d} /\ Holders(t, i) = {} /\ tasks[t][i].status = "pending"
  <2>1. d \in due /\ d[1] \in BOOLEAN /\ d = <<d[1], t, i>>
    BY <1>3, <1>4 DEF Entries
  <2>2. tasks[t][i].status = "pending" /\ (\A w \in Workers : ~Holds(w, t, i))
        /\ <<~d[1], t, i>> \notin due
    BY <1>1, <2>1 DEF Placed
  <2>3. ASSUME NEW e \in Entries(t, i) PROVE e = d
    <3>1. e \in due /\ e[1] \in BOOLEAN /\ e = <<e[1], t, i>>
      BY <1>3, <2>3 DEF Entries
    <3>2. e[1] # ~d[1]
      BY <2>2, <3>1
    <3>3. e[1] = d[1]
      BY <2>1, <3>1, <3>2
    <3> QED BY <2>1, <3>1, <3>3
  <2> QED BY <1>2, <1>4, <2>2, <2>3
<1>5. ASSUME NEW w \in Holders(t, i) PROVE Holders(t, i) = {w} /\ tasks[t][i] # NoTask
  <2>1. w \in Workers /\ Holds(w, t, i)
    BY <1>2, <1>5
  <2>2. \A v \in Workers : Holds(v, t, i) => v = w
    BY <2>1 DEF QueueInv, Alone, Holds
  <2>3. Mine(w) # NoTask /\ Mine(w) = tasks[t][i]
    BY <2>1 DEF QueueInv, Held, Holds, Mine
  <2> QED BY <1>2, <1>5, <2>2, <2>3
<1>6. \A ripe \in BOOLEAN : <<ripe, t, i>> \in due => <<ripe, t, i>> \in Entries(t, i)
  BY DEF Entries
<1>7. /\ tasks[t][i].status = "running" => Holders(t, i) # {}
      /\ tasks[t][i].status = "pending" => Holders(t, i) # {} \/ Entries(t, i) # {}
  BY <1>1, <1>2, <1>6 DEF Placed
<1>8. \/ Entries(t, i) = {} /\ Cardinality(Entries(t, i)) = 0
      \/ /\ Cardinality(Entries(t, i)) = 1 /\ Holders(t, i) = {}
         /\ tasks[t][i].status = "pending"
  <2>1. CASE Entries(t, i) = {}
    BY <2>1, FS_EmptySet
  <2>2. CASE Entries(t, i) # {}
    BY <1>4, <2>2, FS_Singleton
  <2> QED BY <2>1, <2>2
<1>9. \/ Holders(t, i) = {} /\ Cardinality(Holders(t, i)) = 0
      \/ Cardinality(Holders(t, i)) = 1 /\ tasks[t][i] # NoTask
  <2>1. CASE Holders(t, i) = {}
    BY <2>1, FS_EmptySet
  <2>2. CASE Holders(t, i) # {}
    BY <1>5, <2>2, FS_Singleton
  <2> QED BY <2>1, <2>2
<1> QED BY <1>7, <1>8, <1>9

LEMMA QueueImplies == QueueInv /\ AttemptsBounded => QueueHolds
<1> SUFFICES ASSUME QueueInv, AttemptsBounded PROVE QueueHolds
  OBVIOUS
<1>1. TypeOK
  <2>1. /\ tasks \in [Tenants -> [Ids -> Task \cup {NoTask}]]
        /\ disk \in [Tenants -> [Ids -> Task \cup {NoTask}]]
        /\ \A t \in Tenants : images[t] \subseteq [Ids -> Task \cup {NoTask}] /\ disk[t] \in images[t]
    BY DEF QueueInv, Typed, File, Row, Records
  <2>2. \A w \in Workers : worker[w] = Idle \/ worker[w] \in Running
    BY DEF QueueInv, Typed
  <2>3. \A t \in Tenants : req[t] = NoRequest \/ req[t] \in Request
    BY DEF QueueInv, Typed
  <2> QED BY <2>1, <2>2, <2>3 DEF QueueInv, Typed, TypeOK, Running, Request
<1>2. ScheduledOnce
  <2> SUFFICES ASSUME NEW t \in Tenants, NEW i \in Ids
      PROVE  \/ tasks[t][i] = NoTask /\ Handled(t, i) = 0
             \/ /\ tasks[t][i] # NoTask
                /\ Handled(t, i) <= 1
                /\ tasks[t][i].status = "pending" => Handled(t, i) = 1
                /\ tasks[t][i].status = "running" => Cardinality(Holders(t, i)) = 1
                /\ terminal(tasks[t][i]) => Entries(t, i) = {}
    BY DEF ScheduledOnce
  <2>1. CASE Entries(t, i) = {} /\ Cardinality(Entries(t, i)) = 0
    BY <2>1, HoldersAre, Apart DEF Handled
  <2>2. CASE Cardinality(Entries(t, i)) = 1 /\ Holders(t, i) = {} /\ tasks[t][i].status = "pending"
    <3>1. Cardinality(Holders(t, i)) = 0
      BY <2>2, FS_EmptySet
    <3>2. tasks[t][i] # NoTask /\ ~terminal(tasks[t][i])
      BY <2>2, Apart DEF terminal
    <3> QED BY <2>2, <3>1, <3>2 DEF Handled
  <2> QED BY <2>1, <2>2, HoldersAre
<1>3. EnqueueHolds
  <2> SUFFICES ASSUME up = "up", NEW n \in ackEnqueue \ ended
               PROVE  /\ tasks[n[1][1]][n[1][2]] # NoTask
                      /\ tasks[n[1][1]][n[1][2]].gen = n[2]
    BY DEF EnqueueHolds
  <2>1. PICK t \in Tenants, i \in Ids, g \in Gens : n = <<<<t, i>>, g>>
    BY DEF QueueInv, Typed, Named, Keys
  <2>2. Sound(t, i, tasks[t][i])
    BY DEF QueueInv, MemorySound
  <2> QED BY <2>1, <2>2 DEF Sound
<1> QED BY <1>1, <1>2, <1>3 DEF QueueHolds

(* A behaviour of the sum is, for the one tenant, a behaviour of the queue. *)
LEMMA QueueInSum == SumSpec => Spec
<1>1. SumInit => Init
  BY DEF SumInit
<1>2. [SumNext]_Sum => [Next]_vars
  BY DEF SumNext, Sum
<1> QED BY <1>1, <1>2, PTL DEF SumSpec, Spec

(* For any tenants, ids, workers and limits, and however often the enclave *)
(* stops: each task is due or with one worker, the guest is called at most *)
(* MAX_ATTEMPTS times for a run, and a task whose enqueue a response       *)
(* vouched for is in the queue until it has ended (enqueue, due, begin,    *)
(* finish, open).                                                          *)
THEOREM TasksAreKept ==
  /\ Spec => []QueueHolds
  /\ SumSpec => []QueueHolds
<1>1. Init => AttemptsBounded
  BY TasksAssumption DEF Init, AttemptsBounded
<1>2. QueueInv /\ AttemptsBounded /\ [Next]_vars => QueueInv' /\ AttemptsBounded'
  BY QueueStep, AttemptsStep
<1>3. Spec => []QueueHolds
  BY <1>1, <1>2, QueueInit, QueueImplies, PTL DEF Spec
<1> QED BY <1>3, QueueInSum, PTL

LEMMA OutcomesStep ==
  ASSUME QueueInv, [Next]_vars
  PROVE  /\ \A r \in done : runs'[r] = runs[r]
         /\ \A r \in RunIds : r[1] \in ackCancel => runs'[r] = runs[r]
<1>1. ASSUME NEW w \in Workers, CallGuest(w)
      PROVE  /\ \A r \in done : runs'[r] = runs[r]
             /\ \A r \in RunIds : r[1] \in ackCancel => runs'[r] = runs[r]
  <2>1. /\ runs' = [runs EXCEPT ![worker[w].run] = @ + 1]
        /\ worker[w].run \notin done /\ worker[w].run[1] \notin ackCancel
    BY <1>1, CallGuestStep
  <2>2. runs \in [RunIds -> Nat] /\ done \subseteq RunIds
    BY DEF QueueInv, Typed
  <2> QED BY <2>1, <2>2
<1> QED BY <1>1, RunsCounted

(* A run whose success was anchored, and a task whose cancellation a       *)
(* response vouched for, are not called again, whichever worker had taken  *)
(* them and whichever image a later boot finds (begin, finish, cancel,     *)
(* open).                                                                  *)
THEOREM OutcomesAreKept ==
  /\ Spec => OutcomesKept
  /\ SumSpec => OutcomesKept
<1>1. QueueInv /\ [Next]_vars => [\A r \in done : runs'[r] = runs[r]]_vars
  BY OutcomesStep
<1>2. QueueInv /\ [Next]_vars =>
        [\A r \in RunIds : r[1] \in ackCancel => runs'[r] = runs[r]]_vars
  BY OutcomesStep
<1>3. Spec => OutcomesKept
  BY <1>1, <1>2, QueueInit, QueueStep, PTL DEF Spec, OutcomesKept, DoneRunsOnce, CancelHolds
<1> QED BY <1>3, QueueInSum, PTL

(* Only TakeDue hands out a task, and it serves the tenant whose turn it   *)
(* is.                                                                     *)
LEMMA HandedOut ==
  ASSUME QueueInv, [Next]_vars, active' \ active # {}
  PROVE  \E t \in Tenants : Turn(t) /\ lastTenant' = t
<1>1. ASSUME NEW t \in Tenants, RequestStep(t) PROVE active' = active
  BY <1>1 DEF RequestStep, RequestStart, MarkBackground, MarkAnchored, MarkFails, EnqueueExisting,
              Enqueue, Cancel, Forget, CutShort, GuestAnswers, RequestAnchors, Respond, Abandon,
              records
<1>2. ASSUME NEW t \in Tenants, NEW i \in Ids, Ripen(t, i) PROVE active' = active
  BY <1>2 DEF Ripen
<1>3. ASSUME NEW w \in Workers, WorkerStep(w)
      PROVE  active' \subseteq active \/ \E t \in Tenants, i \in Ids : TakeDue(w, t, i)
  BY <1>3 DEF WorkerStep, TryLock, BeginRefused, Begin, BeginAnchors, CallGuest, BeginFails,
              BeginUnwritten, GuestReturns, FinishUnrecorded, Finish, FinishAnchors,
              FinishAnchorsControl, FinishRecords, SchedulerStops, Volatile, Leaves, records
<1>4. ASSUME NEW w \in Workers, NEW t \in Tenants, NEW i \in Ids, TakeDue(w, t, i)
      PROVE  Turn(t) /\ lastTenant' = t
  BY <1>4 DEF TakeDue
<1>5. CASE Die \/ Restart
  BY <1>5 DEF Die, Volatile, Restart
<1>6. CASE UNCHANGED vars
  BY <1>6 DEF vars, records
<1> QED BY <1>1, <1>2, <1>3, <1>4, <1>5, <1>6 DEF Next

LEMMA TurnsStep ==
  ASSUME QueueInv, [Next]_vars, NEW s \in Ready, active' \ active # {}, lastTenant' # s
  PROVE  Cardinality(Ahead(s, lastTenant')) < Cardinality(Ahead(s, lastTenant))
<1>1. PICK t \in Tenants : Turn(t) /\ lastTenant' = t
  BY HandedOut
<1>2. PICK last : last = lastTenant
  OBVIOUS
<1>3. s \in Tenants /\ s \in Nat /\ t \in Nat /\ last \in Nat /\ Tenants \subseteq Nat
  <2>1. Tenants \subseteq Nat
    BY TasksAssumption
  <2>2. s \in Tenants
    BY DEF Ready
  <2>3. last \in Tenants \cup {0}
    BY <1>2 DEF QueueInv, Typed
  <2> QED BY <2>1, <2>2, <2>3
<1>4. s # t /\ IF (t <= last) = (s <= last) THEN t < s ELSE s <= last
  BY <1>1, <1>2 DEF Turn, Before
<1>5. t \in Ahead(s, last) /\ t \notin Ahead(s, t)
  BY <1>1, <1>3, <1>4 DEF Ahead
<1>6. ASSUME NEW u \in Ahead(s, t) PROVE u \in Ahead(s, last)
  <2>1. u \in Tenants \ {s} /\ IF t < s THEN t < u /\ u < s ELSE t < u \/ u < s
    BY DEF Ahead
  <2>2. u \in Nat
    BY <1>3, <2>1
  <2>3. CASE last < s
    <3>1. last < t /\ t < s
      BY <1>3, <1>4, <2>3
    <3> QED BY <1>3, <2>1, <2>2, <2>3, <3>1 DEF Ahead
  <2>4. CASE ~(last < s)
    <3>1. last < t \/ t < s
      BY <1>3, <1>4, <2>4
    <3>2. last < u \/ u < s
      BY <1>3, <2>1, <2>2, <2>4, <3>1
    <3> QED BY <2>1, <2>4, <3>2 DEF Ahead
  <2> QED BY <2>3, <2>4
<1>7. IsFiniteSet(Ahead(s, last))
  <2>1. IsFiniteSet(Tenants) /\ Ahead(s, last) \in SUBSET Tenants
    BY TasksAssumption DEF Ahead
  <2> QED BY <2>1, FS_Subset
<1>8. /\ Cardinality(Ahead(s, t)) <= Cardinality(Ahead(s, last))
      /\ Cardinality(Ahead(s, last)) # Cardinality(Ahead(s, t))
      /\ IsFiniteSet(Ahead(s, t))
  <2>1. Ahead(s, t) \in SUBSET Ahead(s, last) /\ Ahead(s, t) # Ahead(s, last)
    BY <1>5, <1>6
  <2> QED BY <1>7, <2>1, FS_Subset
<1>9. Cardinality(Ahead(s, t)) \in Nat /\ Cardinality(Ahead(s, last)) \in Nat
  BY <1>7, <1>8, FS_CardinalityType
<1> QED BY <1>1, <1>2, <1>8, <1>9

(* For any set of tenants, each time another tenant is served fewer are    *)
(* left to be served before one that is ready: with n tenants a ready one  *)
(* waits for at most n - 1 others (due, Records::last_tenant).             *)
THEOREM TurnsAreTaken == Spec => TakesTurns
<1>1. QueueInv /\ [Next]_vars =>
        [\A s \in Ready : active' \ active # {} /\ lastTenant' # s
           => Cardinality(Ahead(s, lastTenant')) < Cardinality(Ahead(s, lastTenant))]_vars
  BY TurnsStep
<1> QED BY <1>1, QueueInit, QueueStep, PTL DEF Spec, TakesTurns

=============================================================================
