---------------------------- MODULE StreamsProofs ----------------------------
(***************************************************************************)
(* Held connections, for any number of ids, origins, opens and stops:      *)
(* SupervisedOnce and PromiseHolds of module Streams; NeverInside of       *)
(* module Egress, for every IPv4 address there is; and HoweverItArrives of *)
(* module SseFramer, for every stream of bytes.                            *)
(*                                                                         *)
(* SupervisedOnce is not inductive.  A supervisor is spawned for a record  *)
(* that run collected earlier, so the proof says what has become of the    *)
(* records since: each open has a generation of its own, later than every  *)
(* one spawned (Counted); and while run works through what it collected,   *)
(* whatever has changed behind its back has left the permit, or is being   *)
(* closed by a request that will leave it (Noticed).                       *)
(*                                                                         *)
(* PromiseHolds speaks of the records in memory, and a restart reads them  *)
(* from the pool: every image of the files a restart may find has what was *)
(* promised, and so has every image of the flag (Durable).                 *)
(***************************************************************************)
EXTENDS MCStreams, FiniteSetTheorems, SequenceTheorems, WellFoundedInduction, TLAPS

(* Nothing is left of an enclave that stopped.                             *)
Down ==
  ~up => loop = "collect" /\ req = NoRequest /\ \A k \in Ids : spawned[k] = 0

Closing(k) == req.pc = "closing" /\ req.id = k
Gone(k, n) == sup[k][n] = NoSup \/ sup[k][n].aborted

(* Of the supervisors of k, only the last one of a kept id goes on.        *)
Retired(k) ==
  /\ \A n \in Spawns : n # spawned[k] \/ k \notin kept => Gone(k, n)
  /\ k \in kept => spawned[k] > 0 /\ ~Gone(k, spawned[k])

Runs(k, r) == k \in kept /\ Current(k).origin = r.origin /\ Current(k).gen = r.gen

(* A record is the one that runs, or later than all that were spawned.     *)
Later(k, r) ==
  r # NoRecord => r.gen < generations /\ (Runs(k, r) \/ spawned[k] <= r.gen)

Counted(k) ==
  /\ spawned[k] <= generations
  /\ Later(k, records[k])
  /\ loop = "pass" => Later(k, wanted[k])
  /\ loop = "pass" /\ records[k] # NoRecord /\ records[k] # wanted[k] =>
       IF wanted[k] = NoRecord THEN spawned[k] <= records[k].gen
       ELSE wanted[k].gen < records[k].gen

Noticed(k) ==
  /\ loop = "pass" /\ ~changed =>
       wanted[k] = records[k] \/ Closing(k) \/ (k \in cut /\ records[k] = NoRecord)
  /\ up /\ loop = "wait" /\ ~changed => Follows(k) \/ Closing(k)

SupervisionInv ==
  /\ TypeOK /\ Down
  /\ \A k \in Ids : Retired(k) /\ Counted(k) /\ Noticed(k)
  /\ \A k \in Ids : Closing(k) => records[k] = NoRecord

(* What is in memory is what is on the pool, of a record and of an id the  *)
(* request has spoken of; and what was promised is in every image.         *)
InStep(k) ==
  /\ records[k] # NoRecord => Origin(k) = file[k] /\ flag
  /\ req # NoRequest /\ k \in req.told => Origin(k) = file[k]
Durable(k) ==
  promised[k] # Unknown =>
    /\ \A found \in images : found[k] = promised[k]
    /\ promised[k] # None => flagImages = {TRUE}

Promised(k) ==
  up => InStep(k) /\ (promised[k] # Unknown => Origin(k) = promised[k])

PromiseInv ==
  /\ SupervisionInv
  /\ req.pc = "anchored" => images = {file}
  /\ \A k \in Ids : Promised(k) /\ Durable(k)

-----------------------------------------------------------------------------
(* One step.  What the supervisors do to their own state, and what a pass  *)
(* of run does, come first; the rest leaves sup alone.                     *)

(* What a supervisor may become.                                           *)
LEMMA SupervisorMoves ==
  ASSUME NEW s \in SupRecord
  PROVE  /\ [s EXCEPT !.aborted = TRUE] \in SupRecord
         /\ \A pc \in {"dial", "noteUp", "held", "noteDown", "backoff"} :
              [s EXCEPT !.pc = pc] \in SupRecord
BY DEF SupRecord

(* A pass, supervisor by supervisor: one is spawned, one is aborted, the   *)
(* others stay as they are.                                                *)
PassOf(k) ==
  /\ IF k \in Starts
     THEN /\ spawned[k] <= wanted[k].gen
          /\ spawned'[k] = spawned[k] + 1 /\ spawned'[k] \in Spawns
          /\ sup'[k][spawned'[k]] = New(wanted[k])
     ELSE spawned'[k] = spawned[k]
  /\ \A n \in Spawns : ~(k \in Starts /\ n = spawned'[k]) =>
       IF k \in Aborts /\ n = spawned[k] /\ sup[k][n] # NoSup
       THEN sup'[k][n] = [sup[k][n] EXCEPT !.aborted = TRUE]
       ELSE sup'[k][n] = sup[k][n]

LEMMA PassSpawns ==
  ASSUME MemoryOK, RunnerOK, \A k \in Ids : Counted(k), Pass
  PROVE  RunnerOK' /\ \A k \in Ids : PassOf(k)
<1>0. MaxOpens \in Nat
  BY StreamsAssumption
<1>1. ASSUME NEW k \in Starts
      PROVE  /\ k \in Ids /\ wanted[k] \in Record /\ spawned[k] <= wanted[k].gen
             /\ spawned[k] + 1 \in Spawns
  BY <1>0, <1>1 DEF Starts, Same, Counted, Later, Runs, Pass, NoRecord, RunnerOK, Spawns,
     Record
<1>2. spawned' = [k \in Ids |-> IF k \in Starts THEN spawned[k] + 1 ELSE spawned[k]]
  BY DEF Pass
<1>3. spawned' \in [Ids -> Spawns \cup {0}]
  BY <1>1, <1>2 DEF RunnerOK
<1>4. ASSUME NEW k \in Starts PROVE New(wanted[k]) \in SupRecord
  BY <1>1 DEF New, SupRecord, Record
<1>5. \A k \in Ids, n \in Spawns : sup'[k][n] =
         CASE k \in Starts /\ n = spawned'[k] -> New(wanted[k])
           [] k \in Aborts /\ n = spawned[k] /\ sup[k][n] # NoSup
                -> [sup[k][n] EXCEPT !.aborted = TRUE]
           [] OTHER -> sup[k][n]
  BY DEF Pass
<1>6. \A k \in Ids : k \in Starts => spawned'[k] # spawned[k]
  BY <1>2 DEF RunnerOK, Spawns
<1>7. ASSUME NEW k \in Ids, NEW n \in Spawns, sup[k][n] # NoSup
      PROVE  [sup[k][n] EXCEPT !.aborted = TRUE] \in SupRecord
  <2>1. sup[k][n] \in SupRecord
    BY <1>7 DEF RunnerOK
  <2> QED BY <2>1, SupervisorMoves
<1>8. \A k \in Ids, n \in Spawns :
         /\ k \in Starts /\ n = spawned'[k] => sup'[k][n] = New(wanted[k])
         /\ ~(k \in Starts /\ n = spawned'[k]) =>
              /\ k \in Aborts /\ n = spawned[k] /\ sup[k][n] # NoSup =>
                   sup'[k][n] = [sup[k][n] EXCEPT !.aborted = TRUE]
              /\ ~(k \in Aborts /\ n = spawned[k] /\ sup[k][n] # NoSup) =>
                   sup'[k][n] = sup[k][n]
  BY <1>5, <1>6
<1>9. ASSUME NEW k \in Ids, NEW n \in Spawns PROVE sup'[k][n] \in {NoSup} \cup SupRecord
  <2>1. CASE k \in Starts /\ n = spawned'[k]
    BY <1>4, <1>8, <2>1
  <2>2. CASE ~(k \in Starts /\ n = spawned'[k]) /\ sup'[k][n] # sup[k][n]
    BY <1>7, <1>8, <2>2
  <2>3. CASE sup'[k][n] = sup[k][n]
    BY <2>3 DEF RunnerOK
  <2> QED BY <2>1, <2>2, <2>3
<1>10. sup' \in [Ids -> [Spawns -> {NoSup} \cup SupRecord]]
  <2>1. \A k \in Ids : sup'[k] \in [Spawns -> {NoSup} \cup SupRecord]
    BY <1>9 DEF Pass
  <2> QED BY <2>1 DEF Pass
<1>11. \A k \in Starts : spawned'[k] = spawned[k] + 1 /\ spawned'[k] \in Spawns
  BY <1>1, <1>2
<1>12. RunnerOK'
  BY <1>3, <1>10 DEF RunnerOK, Pass
<1> QED BY <1>1, <1>2, <1>8, <1>11, <1>12 DEF PassOf

(* A step of a supervisor changes one, which keeps its record and whether  *)
(* it was aborted, or is dropped because it was.                           *)
Pcs == {"dial", "noteUp", "held", "noteDown", "backoff"}
StepOf(k, n) ==
  \/ sup'[k][n] = sup[k][n]
  \/ sup[k][n] # NoSup /\ sup'[k][n] = NoSup /\ sup[k][n].aborted
  \/ sup[k][n] # NoSup /\ \E pc \in Pcs : sup'[k][n] = [sup[k][n] EXCEPT !.pc = pc]

LEMMA SuperviseStep ==
  ASSUME RunnerOK, NEW k \in Ids, NEW n \in Spawns, Supervise(k, n)
  PROVE  /\ RunnerOK'
         /\ UNCHANGED <<records, generations, changed, loop, wanted, kept, spawned, req,
                        pools, up, promised, cut>>
         /\ \A j \in Ids, m \in Spawns : StepOf(j, m)
<1> USE DEF StepOf, Pcs
<1>1. CASE Dropped(k, n)
  <2>1. sup' = [sup EXCEPT ![k][n] = NoSup]
    BY <1>1 DEF Dropped
  <2>2. sup' \in [Ids -> [Spawns -> {NoSup} \cup SupRecord]]
    BY <2>1 DEF RunnerOK
  <2>3. \A j \in Ids, m \in Spawns : sup'[j][m] # sup[j][m] => j = k /\ m = n
    BY <2>1 DEF RunnerOK
  <2>4. sup'[k][n] = NoSup
    BY <2>1 DEF RunnerOK
  <2> QED BY <1>1, <2>2, <2>3, <2>4 DEF Dropped, RunnerOK, memory
<1>2. ASSUME Waits(k, n) \/ NoteUp(k, n) \/ NoteDown(k, n)
      PROVE  /\ sup[k][n] # NoSup /\ \E pc \in Pcs : Moves(k, n, pc)
             /\ UNCHANGED <<records, generations, changed, loop, wanted, kept, spawned, req,
                            pools, up, promised, cut>>
  BY <1>2 DEF Waits, NoteUp, NoteDown, NoSup, At, memory
<1>3. CASE Waits(k, n) \/ NoteUp(k, n) \/ NoteDown(k, n)
  <2>1. PICK pc \in Pcs : sup' = [sup EXCEPT ![k][n].pc = pc]
    BY <1>2, <1>3 DEF Moves
  <2>2. sup[k][n] \in SupRecord
    BY <1>2, <1>3 DEF RunnerOK
  <2>3. [sup[k][n] EXCEPT !.pc = pc] \in SupRecord
    BY <2>2, SupervisorMoves
  <2>4. sup' \in [Ids -> [Spawns -> {NoSup} \cup SupRecord]]
    BY <2>1, <2>3 DEF RunnerOK
  <2>5. \A j \in Ids, m \in Spawns : sup'[j][m] # sup[j][m] => j = k /\ m = n
    BY <2>1 DEF RunnerOK
  <2>6. sup'[k][n] = [sup[k][n] EXCEPT !.pc = pc]
    BY <2>1 DEF RunnerOK
  <2> QED BY <1>2, <1>3, <2>4, <2>5, <2>6 DEF RunnerOK
<1> HIDE DEF StepOf, Pcs
<1> QED BY <1>1, <1>3 DEF Supervise

(* Every variable keeps its type: the parts, each with the actions that    *)
(* can disturb it.                                                         *)
LEMMA MemoryStep ==
  ASSUME TypeOK, Next PROVE MemoryOK'
<1> USE DEF MemoryOK, NoRecord
<1>0. MemoryOK /\ MaxOpens \in Nat
  BY StreamsAssumption DEF TypeOK
<1>1. ASSUME NEW k \in Ids, NEW o \in Origins, Open(k, o) PROVE MemoryOK'
  BY <1>0, <1>1 DEF Open, MayOpen, Record
<1>2. ASSUME NEW k \in Ids, NEW o \in Origins, OpenCut(k, o) PROVE MemoryOK'
  BY <1>0, <1>2 DEF OpenCut, MayOpen
<1>3. ASSUME NEW k \in Ids, Close(k) \/ CloseCut(k) PROVE MemoryOK'
  BY <1>0, <1>3 DEF Close, CloseCut
<1>4. ASSUME NEW k \in Ids, CloseNothing(k) PROVE MemoryOK'
  BY <1>0, <1>4 DEF CloseNothing
<1>5. CASE CloseTells
  <2>1. req.id \in Ids
    BY <1>5 DEF CloseTells, TypeOK, Requests, NoRequest
  <2> QED BY <1>0, <1>5, <2>1 DEF CloseTells
<1>6. CASE Wake
  BY <1>0, <1>6 DEF Wake
<1>7. CASE Die
  <2>1. /\ records' = [k \in Ids |-> NoRecord] /\ generations' = 1
        /\ live' = [k \in Ids |-> FALSE] /\ changed' = FALSE
    BY <1>7 DEF Die, Volatile
  <2>2. live' \in [Ids -> BOOLEAN] /\ changed' \in BOOLEAN
    BY <2>1
  <2> QED BY <1>0, <2>1, <2>2
<1>8. CASE Restart
  <2>1. PICK found \in images, flagged \in flagImages :
          records' = [k \in Ids |->
            IF flagged /\ found[k] # None THEN [origin |-> found[k], gen |-> 0] ELSE NoRecord]
    BY <1>8 DEF Restart
  <2>2. \A k \in Ids : found[k] # None => [origin |-> found[k], gen |-> 0] \in Record
    BY <1>0 DEF TypeOK, PoolsOK, Files, Record
  <2>3. records' \in [Ids -> Record \cup {NoRecord}]
    BY <2>1, <2>2
  <2> QED BY <1>0, <1>8, <2>3 DEF Restart
<1>9. ASSUME NEW k \in Ids, NEW n \in Spawns, Supervise(k, n) PROVE MemoryOK'
  BY <1>0, <1>9 DEF Supervise, Waits, NoteUp, NoteDown, Dropped, memory
<1>10. CASE UNCHANGED memory
  BY <1>0, <1>10 DEF memory
<1>11. ASSUME NEW k \in Ids, OpenExisting(k) PROVE UNCHANGED memory
  BY <1>11 DEF OpenExisting
<1>12. ASSUME \/ RequestStart \/ MarkBackground \/ MarkEnds \/ AnchorTenant \/ Respond
              \/ Abandon \/ Collect \/ Pass \/ Timer
       PROVE  UNCHANGED memory
  BY <1>12 DEF RequestStart, MarkBackground, MarkEnds, AnchorTenant, Respond, Abandon,
     Collect, Pass, Timer, memory
<1> HIDE DEF MemoryOK, NoRecord
<1> QED BY <1>1, <1>2, <1>3, <1>4, <1>5, <1>6, <1>7, <1>8, <1>9, <1>10, <1>11, <1>12
  DEF Next, Calls, Run

(* Only run and the supervisors touch the supervisors.                     *)
LEMMA CallsLeaveRunner == ASSUME Calls PROVE UNCHANGED <<runner, up, stops>>
BY DEF Calls, RequestStart, MarkBackground, MarkEnds, OpenExisting, Open, OpenCut, Close,
  CloseCut, CloseNothing, CloseTells, AnchorTenant, Respond, Abandon, bounds

LEMMA RunnerStep ==
  ASSUME TypeOK, \A k \in Ids : Counted(k), Next PROVE RunnerOK'
<1>1. CASE Calls
  BY <1>1, CallsLeaveRunner DEF TypeOK, RunnerOK, runner
<1>2. CASE Collect \/ Wake \/ Timer
  BY <1>2 DEF TypeOK, RunnerOK, MemoryOK, Collect, Wake, Timer
<1>3. CASE Pass
  BY <1>3, PassSpawns DEF TypeOK
<1>4. CASE Die
  BY <1>4 DEF Die, Volatile, NoSups, RunnerOK
<1>5. CASE Restart
  BY <1>5 DEF Restart, TypeOK, RunnerOK, runner
<1>6. ASSUME NEW k \in Ids, NEW n \in Spawns, Supervise(k, n) PROVE RunnerOK'
  BY <1>6, SuperviseStep DEF TypeOK
<1> QED BY <1>1, <1>2, <1>3, <1>4, <1>5, <1>6 DEF Next, Run

LEMMA PoolsStep ==
  ASSUME TypeOK, Next PROVE PoolsOK'
<1> USE DEF PoolsOK, Files
<1>0. PoolsOK
  BY DEF TypeOK
<1>1. ASSUME NEW k \in Ids, NEW o \in Origins \cup {None}, Publish(k, o)
      PROVE  file' \in Files /\ images' \in SUBSET Files /\ file' \in images'
  BY <1>0, <1>1 DEF Publish
<1>2. ASSUME NEW k \in Ids, NEW o \in Origins, Open(k, o) \/ OpenCut(k, o) PROVE PoolsOK'
  BY <1>0, <1>1, <1>2 DEF Open, OpenCut
<1>3. ASSUME NEW k \in Ids, Close(k) PROVE PoolsOK'
  BY <1>0, <1>1, <1>3 DEF Close
<1>4. ASSUME NEW k \in Ids, CloseCut(k) PROVE PoolsOK'
  BY <1>0, <1>1, <1>4 DEF CloseCut
<1>5. CASE MarkBackground \/ MarkEnds \/ AnchorTenant \/ Respond
  BY <1>0, <1>5 DEF MarkBackground, MarkEnds, AnchorTenant, Respond
<1>6. CASE Restart
  BY <1>0, <1>6 DEF Restart
<1>7. CASE UNCHANGED pools
  BY <1>0, <1>7 DEF pools
<1>8. ASSUME NEW k \in Ids, OpenExisting(k) \/ CloseNothing(k) PROVE UNCHANGED pools
  BY <1>8 DEF OpenExisting, CloseNothing
<1>9. ASSUME RequestStart \/ CloseTells \/ Abandon \/ Run \/ Die PROVE UNCHANGED pools
  BY <1>9 DEF RequestStart, CloseTells, Abandon, Run, Collect, Pass, Wake, Timer, Die
<1>10. ASSUME NEW k \in Ids, NEW n \in Spawns, Supervise(k, n) PROVE UNCHANGED pools
  BY <1>10 DEF Supervise, Waits, NoteUp, NoteDown, Dropped
<1> HIDE DEF PoolsOK, Files
<1> QED BY <1>2, <1>3, <1>4, <1>5, <1>6, <1>7, <1>8, <1>9, <1>10 DEF Next, Calls

LEMMA RequestStep ==
  ASSUME TypeOK, Next
  PROVE  req' \in Requests /\ promised' \in [Ids -> Origins \cup {None, Unknown}]
<1> DEFINE Goal == req \in Requests /\ promised \in [Ids -> Origins \cup {None, Unknown}]
<1> USE DEF Requests, NoRequest, InGuest, Publish
<1>0. Goal
  BY DEF TypeOK
<1>1. ASSUME NEW k \in Ids, NEW o \in Origins, Open(k, o) \/ OpenCut(k, o) PROVE Goal'
  BY <1>0, <1>1 DEF Open, OpenCut, MayOpen
<1>2. ASSUME NEW k \in Ids, Close(k) PROVE Goal'
  BY <1>0, <1>2 DEF Close
<1>3. ASSUME NEW k \in Ids, CloseCut(k) PROVE Goal'
  BY <1>0, <1>3 DEF CloseCut
<1>4. ASSUME NEW k \in Ids, OpenExisting(k) PROVE Goal'
  BY <1>0, <1>4 DEF OpenExisting
<1>5. ASSUME RequestStart \/ CloseTells PROVE Goal'
  BY <1>0, <1>5 DEF RequestStart, CloseTells
<1>12. ASSUME MarkBackground \/ MarkEnds \/ AnchorTenant PROVE Goal'
  <2>1. PICK pc \in {"guest", "marking", "anchored"} : req' = [req EXCEPT !.pc = pc]
    BY <1>12 DEF MarkBackground, MarkEnds, AnchorTenant
  <2>2. req.pc \in {"guest", "marking"}
    BY <1>12 DEF MarkBackground, MarkEnds, AnchorTenant
  <2>3. req' \in [pc : {"guest", "marking", "anchored"}, told : SUBSET Ids]
    BY <1>0, <2>1, <2>2
  <2> QED BY <1>0, <1>12, <2>3 DEF MarkBackground, MarkEnds, AnchorTenant
<1>6. ASSUME Respond PROVE Goal'
  <2>1. \A k \in Ids : Origin(k) \in Origins \cup {None}
    BY DEF TypeOK, MemoryOK, Origin, Record, NoRecord
  <2> QED BY <1>0, <1>6, <2>1 DEF Respond
<1>7. ASSUME Abandon \/ Die PROVE Goal'
  BY <1>0, <1>7 DEF Abandon, Die, Volatile
<1>8. ASSUME NEW k \in Ids, CloseNothing(k) PROVE UNCHANGED <<req, promised>>
  BY <1>8 DEF CloseNothing
<1>9. ASSUME Run \/ Restart PROVE UNCHANGED <<req, promised>>
  BY <1>9 DEF Run, Collect, Pass, Wake, Timer, Restart
<1>10. ASSUME NEW k \in Ids, NEW n \in Spawns, Supervise(k, n)
       PROVE  UNCHANGED <<req, promised>>
  BY <1>10, SuperviseStep DEF TypeOK
<1>11. ASSUME UNCHANGED <<req, promised>> PROVE Goal'
  BY <1>0, <1>11
<1> HIDE DEF Goal
<1>13. Goal'
  BY <1>1, <1>2, <1>3, <1>4, <1>5, <1>6, <1>7, <1>8, <1>9, <1>10, <1>11, <1>12
    DEF Next, Calls
<1> QED BY <1>13 DEF Goal

LEMMA TypesStep ==
  ASSUME TypeOK, \A k \in Ids : Counted(k), [Next]_vars PROVE TypeOK'
<1>1. CASE Next
  BY <1>1, MemoryStep, RunnerStep, PoolsStep, RequestStep DEF TypeOK
<1>2. CASE UNCHANGED vars
  BY <1>2 DEF TypeOK, MemoryOK, RunnerOK, PoolsOK, vars, memory, runner, pools
<1> QED BY <1>1, <1>2

LEMMA DownStep == ASSUME TypeOK, Down, [Next]_vars PROVE Down'
<1> USE DEF Down
<1>1. CASE Calls
  BY <1>1, CallsLeaveRunner DEF runner, Calls, RequestStart, MarkBackground, MarkEnds,
    OpenExisting, Open, OpenCut, MayOpen, Close, CloseCut, CloseNothing, CloseTells,
    AnchorTenant, Respond, Abandon, InGuest
<1>2. CASE Run
  BY <1>2 DEF Run, Collect, Pass, Wake, Timer
<1>3. CASE Die
  BY <1>3 DEF Die, Volatile
<1>4. CASE Restart
  BY <1>4 DEF Restart
<1>5. ASSUME NEW k \in Ids, NEW n \in Spawns, Supervise(k, n) PROVE Down'
  BY <1>5, SuperviseStep DEF TypeOK
<1>6. CASE UNCHANGED vars
  BY <1>6 DEF vars, runner
<1> QED BY <1>1, <1>2, <1>3, <1>4, <1>5, <1>6 DEF Next

(* Of an id's supervisors, the last one goes on or none does (run).        *)
LEMMA RetiredStep ==
  ASSUME TypeOK, Down, \A k \in Ids : Retired(k) /\ Counted(k), [Next]_vars,
         NEW k \in Ids
  PROVE  Retired(k)'
<1> USE DEF Retired, Gone
<1>0. MaxOpens \in Nat
  BY StreamsAssumption
<1>1. CASE UNCHANGED <<kept, spawned, sup>>
  BY <1>1
<1>2. CASE Pass
  <2>0. RunnerOK /\ RunnerOK' /\ PassOf(k)
    BY <1>2, PassSpawns DEF TypeOK
  <2>1. kept' = {j \in Ids : wanted[j] # NoRecord}
    BY <1>2 DEF Pass
  <2>2. spawned[k] \in Nat /\ \A n \in Spawns : sup[k][n] \in {NoSup} \cup SupRecord
    BY <1>0, <2>0 DEF Spawns, RunnerOK
  <2>3. ASSUME k \in kept' PROVE spawned'[k] > 0 /\ ~Gone(k, spawned[k])'
    <3>1. CASE k \in Starts
      BY <2>0, <2>2, <3>1 DEF PassOf, New, NoSup
    <3>2. CASE k \notin Starts
      <4>1. k \in kept /\ k \notin Aborts /\ spawned'[k] = spawned[k]
        BY <2>0, <2>1, <2>3, <3>2 DEF PassOf, Starts, Aborts
      <4>2. spawned[k] \in Spawns /\ spawned[k] > 0 /\ ~Gone(k, spawned[k])
        BY <2>0, <4>1 DEF RunnerOK
      <4>3. sup'[k][spawned[k]] = sup[k][spawned[k]]
        BY <2>0, <3>2, <4>1, <4>2 DEF PassOf
      <4> QED BY <4>1, <4>2, <4>3
    <3> QED BY <3>1, <3>2
  <2>4. ASSUME NEW n \in Spawns, n # spawned'[k] \/ k \notin kept' PROVE Gone(k, n)'
    <3>1. ~(k \in Starts /\ n = spawned'[k])
      BY <2>1, <2>4 DEF Starts
    <3>2. sup'[k][n] = sup[k][n] \/
          (sup[k][n] # NoSup /\ sup'[k][n] = [sup[k][n] EXCEPT !.aborted = TRUE])
      BY <2>0, <3>1 DEF PassOf
    <3>3. CASE sup'[k][n] # sup[k][n]
      BY <2>2, <3>2, <3>3 DEF SupRecord
    <3>4. CASE sup'[k][n] = sup[k][n]
      <4> SUFFICES ASSUME ~Gone(k, n) PROVE FALSE
        BY <3>4
      <4>1. k \in kept /\ n = spawned[k] /\ sup[k][n] \in SupRecord
        BY <2>2
      <4>2. k \in Aborts
        BY <2>0, <2>1, <2>4, <4>1 DEF Aborts, Starts, PassOf
      <4>3. sup'[k][n] = [sup[k][n] EXCEPT !.aborted = TRUE]
        BY <2>0, <3>1, <4>1, <4>2 DEF PassOf
      <4> QED BY <3>4, <4>1, <4>3 DEF SupRecord
    <3> QED BY <3>3, <3>4
  <2> QED BY <2>3, <2>4
<1>3. CASE Die
  BY <1>3 DEF Die, Volatile, NoSups
<1>4. ASSUME NEW j \in Ids, NEW n \in Spawns, Supervise(j, n) PROVE Retired(k)'
  <2>1. UNCHANGED <<kept, spawned>> /\ \A m \in Spawns : StepOf(k, m)
    BY <1>4, SuperviseStep DEF TypeOK
  <2>2. ASSUME NEW m \in Spawns PROVE Gone(k, m)' <=> Gone(k, m)
    <3>1. sup[k][m] \in {NoSup} \cup SupRecord
      BY DEF TypeOK, RunnerOK
    <3>2. ASSUME NEW pc, sup[k][m] # NoSup, sup'[k][m] = [sup[k][m] EXCEPT !.pc = pc]
          PROVE  sup'[k][m] # NoSup /\ sup'[k][m].aborted = sup[k][m].aborted
      BY <3>1, <3>2 DEF SupRecord, NoSup
    <3> QED BY <2>1, <3>2 DEF StepOf
  <2>3. k \in kept => spawned[k] \in Spawns
    BY DEF TypeOK, RunnerOK
  <2> QED BY <2>1, <2>2, <2>3
<1> QED BY <1>1, <1>2, <1>3, <1>4, CallsLeaveRunner DEF Next, Run, Collect, Wake, Timer,
    Restart, runner, vars

(* A step of a supervisor leaves the last one of a kept id its record.     *)
LEMMA SuperviseRuns ==
  ASSUME TypeOK, NEW j \in Ids, NEW n \in Spawns, Supervise(j, n),
         NEW k \in Ids, Retired(k), k \in kept
  PROVE  /\ Current(k)'.origin = Current(k).origin
         /\ Current(k)'.gen = Current(k).gen
<1>1. spawned[k] \in Spawns /\ UNCHANGED spawned /\ StepOf(k, spawned[k])
  BY SuperviseStep DEF TypeOK, RunnerOK, Retired
<1>2. Current(k) \in SupRecord /\ ~Current(k).aborted
  BY <1>1 DEF TypeOK, RunnerOK, Retired, Gone, Current
<1>3. \/ Current(k)' = Current(k)
      \/ \E pc \in Pcs : Current(k)' = [Current(k) EXCEPT !.pc = pc]
  BY <1>1, <1>2 DEF StepOf, Current
<1> QED BY <1>2, <1>3 DEF SupRecord

(* A pass leaves each id wanted with a supervisor of its record.           *)
LEMMA PassRuns ==
  ASSUME TypeOK, \A k \in Ids : Retired(k) /\ Counted(k), Pass,
         NEW k \in Ids, wanted[k] # NoRecord
  PROVE  Runs(k, wanted[k])' /\ wanted'[k] = wanted[k]
<1>1. RunnerOK /\ PassOf(k) /\ k \in kept' /\ wanted' = wanted
  BY PassSpawns DEF TypeOK, Pass
<1>2. CASE k \in Starts
  BY <1>1, <1>2 DEF PassOf, Runs, Current, New
<1>3. CASE k \notin Starts
  <2>1. k \in kept /\ k \notin Aborts /\ Same(k) /\ spawned'[k] = spawned[k]
    BY <1>1, <1>3 DEF Starts, Aborts, PassOf
  <2>2. spawned[k] \in Spawns
    BY <1>1, <2>1 DEF Retired, RunnerOK
  <2>3. sup'[k][spawned[k]] = sup[k][spawned[k]]
    BY <1>1, <1>3, <2>1, <2>2 DEF PassOf
  <2>4. Current(k).origin = wanted[k].origin /\ Current(k).gen = wanted[k].gen
    BY <2>1 DEF Same
  <2> QED BY <1>1, <2>1, <2>3, <2>4 DEF Runs, Current
<1> QED BY <1>2, <1>3

(* What a call of the guest does to the record of an id: nothing, or it is *)
(* gone, or it is a new one, of a generation nobody has had.               *)
LEMMA CallsRecord ==
  ASSUME TypeOK, Calls, NEW k \in Ids
  PROVE  /\ generations' \in {generations, generations + 1}
         /\ \/ records'[k] \in {records[k], NoRecord}
            \/ records'[k].gen = generations /\ generations' = generations + 1
<1> USE DEF TypeOK, MemoryOK
<1>1. ASSUME NEW j \in Ids, NEW o \in Origins, Open(j, o)
      PROVE  /\ generations' = generations + 1
             /\ records'[k] = records[k] \/ records'[k].gen = generations
  BY <1>1 DEF Open
<1>2. ASSUME NEW j \in Ids, Close(j) \/ CloseCut(j)
      PROVE  generations' = generations /\ records'[k] \in {records[k], NoRecord}
  BY <1>2 DEF Close, CloseCut
<1>3. ASSUME NEW j \in Ids, NEW o \in Origins, OpenCut(j, o)
      PROVE  generations' = generations + 1 /\ records' = records
  BY <1>3 DEF OpenCut
<1>4. ASSUME NEW j \in Ids, OpenExisting(j) \/ CloseNothing(j)
      PROVE  generations' = generations /\ records' = records
  BY <1>4 DEF OpenExisting, CloseNothing, memory
<1>5. ASSUME \/ RequestStart \/ MarkBackground \/ MarkEnds \/ CloseTells \/ AnchorTenant
             \/ Respond \/ Abandon
      PROVE  generations' = generations /\ records' = records
  BY <1>5 DEF RequestStart, MarkBackground, MarkEnds, CloseTells, AnchorTenant, Respond,
    Abandon, memory
<1> HIDE DEF TypeOK, MemoryOK
<1> QED BY <1>1, <1>2, <1>3, <1>4, <1>5 DEF Calls

(* Each open is later than every supervisor spawned.                       *)
LEMMA CountedStep ==
  ASSUME TypeOK, Down, \A k \in Ids : Retired(k) /\ Counted(k), [Next]_vars,
         NEW k \in Ids
  PROVE  Counted(k)'
<1>0. /\ Counted(k) /\ generations \in Nat /\ spawned[k] \in Nat
      /\ records[k] \in Record \cup {NoRecord} /\ wanted[k] \in Record \cup {NoRecord}
      /\ records[k].gen \in Nat /\ wanted[k].gen \in Nat
  BY StreamsAssumption DEF TypeOK, MemoryOK, RunnerOK, Spawns, Record, NoRecord
<1>1. CASE Calls
  <2>1. UNCHANGED <<loop, wanted, kept, spawned, sup>>
    BY <1>1, CallsLeaveRunner DEF runner
  <2>2. \A r : Runs(k, r)' <=> Runs(k, r)
    BY <2>1 DEF Runs, Current
  <2>3. /\ generations' \in {generations, generations + 1}
        /\ \/ records'[k] \in {records[k], NoRecord}
           \/ records'[k].gen = generations /\ generations' = generations + 1
    BY <1>1, CallsRecord
  <2>4. \A r : r.gen \in Nat /\ Later(k, r) => Later(k, r)'
    BY <1>0, <2>1, <2>2, <2>3 DEF Later
  <2> QED BY <1>0, <2>1, <2>2, <2>3, <2>4 DEF Counted, Later
<1>2. CASE Collect
  BY <1>0, <1>2 DEF Collect, Counted, Later, Runs, Current, memory
<1>3. CASE Pass
  <2>1. /\ PassOf(k) /\ UNCHANGED <<records, generations, wanted>>
        /\ loop = "pass" /\ loop' = "wait"
    BY <1>3, PassSpawns DEF TypeOK, Pass, memory
  <2>2. wanted[k] # NoRecord => Runs(k, wanted[k])'
    BY <1>3, PassRuns
  <2>3. CASE k \in Starts
    BY <1>0, <2>1, <2>2, <2>3 DEF PassOf, Counted, Later, Runs, Starts
  <2>4. CASE k \notin Starts
    <3>1. spawned'[k] = spawned[k]
      BY <2>1, <2>4 DEF PassOf
    <3>2. CASE wanted[k] = NoRecord
      BY <1>0, <2>1, <3>1, <3>2 DEF Counted, Later
    <3>3. CASE wanted[k] # NoRecord
      <4>1. Same(k)
        BY <2>4, <3>3 DEF Starts
      <4>2. Current(k).gen = wanted[k].gen /\ Current(k).origin = wanted[k].origin
        BY <4>1 DEF Same
      <4>3. records[k] # NoRecord /\ records[k] # wanted[k] => spawned[k] <= records[k].gen
        BY <1>0, <2>1, <3>3, <4>2 DEF Counted, Later, Runs
      <4> QED BY <1>0, <2>1, <2>2, <3>1, <3>3, <4>3 DEF Counted, Later
    <3> QED BY <3>2, <3>3
  <2> QED BY <2>3, <2>4
<1>4. CASE Wake \/ Timer
  BY <1>0, <1>4 DEF Wake, Timer, Counted, Later, Runs, Current, memory
<1>5. CASE Die
  BY <1>5 DEF Die, Volatile, Counted, Later
<1>6. CASE Restart
  <2>1. records'[k] # NoRecord => records'[k].gen = 0
    BY <1>6 DEF Restart
  <2>2. spawned'[k] = 0 /\ loop' = "collect" /\ generations' \in Nat \ {0}
    BY <1>0, <1>6 DEF Restart, Down, runner, TypeOK, MemoryOK
  <2> QED BY <2>1, <2>2 DEF Counted, Later
<1>7. ASSUME NEW j \in Ids, NEW n \in Spawns, Supervise(j, n) PROVE Counted(k)'
  <2>1. UNCHANGED <<records, generations, loop, wanted, kept, spawned>>
    BY <1>7, SuperviseStep DEF TypeOK
  <2>2. \A r : Runs(k, r)' <=> Runs(k, r)
    BY <1>7, <2>1, SuperviseRuns DEF Runs
  <2> QED BY <1>0, <2>1, <2>2 DEF Counted, Later
<1>8. CASE UNCHANGED vars
  BY <1>0, <1>8 DEF vars, memory, runner, Counted, Later, Runs, Current
<1> QED BY <1>1, <1>2, <1>3, <1>4, <1>5, <1>6, <1>7, <1>8 DEF Next, Run

(* A close that is under way has taken its record out of memory.           *)
LEMMA ClosingStep ==
  ASSUME TypeOK, Down, \A k \in Ids : Closing(k) => records[k] = NoRecord, [Next]_vars,
         NEW k \in Ids, Closing(k)'
  PROVE  records'[k] = NoRecord
<1> USE DEF Closing, NoRequest
<1>1. ASSUME NEW j \in Ids, Close(j) PROVE records'[k] = NoRecord
  BY <1>1 DEF Close, TypeOK, MemoryOK
<1>2. ASSUME UNCHANGED <<req, records>> PROVE records'[k] = NoRecord
  BY <1>2
<1>3. ASSUME Calls PROVE req' = req \/ req'.pc # "closing" \/ \E j \in Ids : Close(j)
  <2>1. ASSUME NEW j \in Ids, NEW o \in Origins, Open(j, o) \/ OpenCut(j, o)
        PROVE  req'.pc # "closing"
    BY <2>1 DEF Open, OpenCut, MayOpen, InGuest, TypeOK, Requests
  <2>2. ASSUME NEW j \in Ids, OpenExisting(j) \/ CloseCut(j) \/ CloseNothing(j)
        PROVE  req' = req \/ req'.pc # "closing"
    BY <2>2 DEF OpenExisting, CloseCut, CloseNothing, InGuest, TypeOK, Requests
  <2>3. ASSUME RequestStart \/ CloseTells \/ Respond \/ Abandon PROVE req'.pc # "closing"
    BY <2>3 DEF RequestStart, CloseTells, Respond, Abandon
  <2>4. ASSUME NEW pc \in {"guest", "marking", "anchored"}, req' = [req EXCEPT !.pc = pc]
        PROVE  req'.pc # "closing"
    BY <2>4 DEF TypeOK, Requests
  <2>5. ASSUME MarkBackground \/ MarkEnds \/ AnchorTenant PROVE req'.pc # "closing"
    BY <2>4, <2>5 DEF MarkBackground, MarkEnds, AnchorTenant
  <2> QED BY <1>3, <2>1, <2>2, <2>3, <2>5 DEF Calls
<1>4. ASSUME Calls, req' = req, req.pc = "closing" PROVE UNCHANGED <<req, records>>
  BY <1>4 DEF Calls, RequestStart, MarkBackground, MarkEnds, OpenExisting, Open, OpenCut,
    MayOpen, Close, CloseCut, CloseNothing, CloseTells, AnchorTenant, Respond, Abandon, InGuest
<1>5. ASSUME Run PROVE UNCHANGED <<req, records>>
  BY <1>5 DEF Run, Collect, Pass, Wake, Timer, memory
<1>6. ASSUME Die \/ Restart PROVE FALSE
  BY <1>6 DEF Die, Volatile, Restart, Down
<1>7. ASSUME NEW j \in Ids, NEW n \in Spawns, Supervise(j, n)
      PROVE  UNCHANGED <<req, records>>
  BY <1>7, SuperviseStep DEF TypeOK
<1> QED BY <1>1, <1>2, <1>3, <1>4, <1>5, <1>6, <1>7 DEF Next, vars, memory

(* No change of the records goes unnoticed.                                *)
LEMMA NoticedStep ==
  ASSUME SupervisionInv, [Next]_vars, NEW k \in Ids
  PROVE  Noticed(k)'
<1> USE DEF Noticed, Closing
<1>0. /\ TypeOK /\ Down /\ Noticed(k) /\ Retired(k)
      /\ Closing(k) => records[k] = NoRecord
      /\ \A j \in Ids : Retired(j) /\ Counted(j)
  BY DEF SupervisionInv
<1>1. CASE changed'
  BY <1>1
<1>2. CASE Calls
  <2>1. UNCHANGED <<loop, wanted, kept, spawned, sup, up>>
    BY <1>2, CallsLeaveRunner DEF runner
  <2>2. ASSUME UNCHANGED <<records, changed, cut>>, ~Closing(k) PROVE Noticed(k)'
    BY <1>0, <2>1, <2>2 DEF Follows, Current, Origin
  <2>3. ASSUME NEW j \in Ids, NEW o \in Origins, Open(j, o) \/ OpenCut(j, o) PROVE Noticed(k)'
    BY <1>1, <2>2, <2>3 DEF Open, OpenCut, MayOpen, InGuest
  <2>4. ASSUME NEW j \in Ids, Close(j) PROVE Noticed(k)'
    <3>1. CASE j = k
      BY <2>4, <3>1 DEF Close
    <3>2. CASE j # k
      BY <1>0, <2>1, <2>4, <3>2 DEF Close, InGuest, Follows, Current, Origin, TypeOK, MemoryOK
    <3> QED BY <3>1, <3>2
  <2>5. ASSUME NEW j \in Ids, CloseCut(j) PROVE Noticed(k)'
    <3>1. CASE j = k
      BY <1>0, <2>5, <3>1 DEF CloseCut, Follows, TypeOK, MemoryOK
    <3>2. CASE j # k
      BY <1>0, <2>1, <2>5, <3>2 DEF CloseCut, InGuest, Follows, Current, Origin,
        TypeOK, MemoryOK
    <3> QED BY <3>1, <3>2
  <2>6. ASSUME NEW j \in Ids, OpenExisting(j) PROVE Noticed(k)'
    BY <2>2, <2>6 DEF OpenExisting, InGuest, memory
  <2>7. ASSUME NEW j \in Ids, CloseNothing(j) PROVE Noticed(k)'
    BY <2>7 DEF CloseNothing
  <2>8. CASE RequestStart \/ MarkBackground \/ MarkEnds \/ AnchorTenant \/ Respond
    BY <2>2, <2>8 DEF RequestStart, MarkBackground, MarkEnds, AnchorTenant, Respond, InGuest,
      memory
  <2>9. CASE CloseTells
    BY <2>9 DEF CloseTells
  <2>10. CASE Abandon
    BY <1>0, <2>1, <2>10 DEF Abandon, memory, Follows, Current, Origin
  <2> QED BY <1>2, <2>3, <2>4, <2>5, <2>6, <2>7, <2>8, <2>9, <2>10 DEF Calls
<1>3. CASE Collect
  BY <1>3 DEF Collect, memory
<1>4. CASE Pass
  <2>1. /\ loop = "pass" /\ loop' = "wait" /\ UNCHANGED <<records, changed, req>>
        /\ kept' = {j \in Ids : wanted[j] # NoRecord}
        /\ cut' = cut \cap {j \in Ids : wanted[j] # NoRecord}
    BY <1>4 DEF Pass, memory
  <2>2. CASE wanted[k] = NoRecord
    BY <1>0, <2>1, <2>2 DEF Follows
  <2>3. CASE wanted[k] # NoRecord
    <3>1. Runs(k, wanted[k])'
      BY <1>0, <1>4, <2>3, PassRuns
    <3>2. UNCHANGED wanted
      BY <1>4 DEF Pass
    <3> QED BY <1>0, <2>1, <2>3, <3>1, <3>2 DEF Follows, Runs, Origin
  <2> QED BY <2>2, <2>3
<1>5. CASE Wake \/ Timer
  BY <1>5 DEF Wake, Timer
<1>6. CASE Die
  BY <1>6 DEF Die, Volatile
<1>7. CASE Restart
  BY <1>0, <1>7 DEF Restart, Down, runner
<1>8. ASSUME NEW j \in Ids, NEW n \in Spawns, Supervise(j, n) PROVE Noticed(k)'
  <2>1. UNCHANGED <<records, changed, loop, wanted, kept, req, up, cut>>
    BY <1>0, <1>8, SuperviseStep DEF TypeOK
  <2>2. k \in kept => /\ Current(k)'.origin = Current(k).origin
                     /\ Current(k)'.gen = Current(k).gen
    BY <1>0, <1>8, SuperviseRuns
  <2> QED BY <1>0, <2>1, <2>2 DEF Follows, Origin
<1>9. CASE UNCHANGED vars
  BY <1>0, <1>9 DEF vars, memory, runner, Follows, Current, Origin
<1> HIDE DEF Noticed, Closing
<1> QED BY <1>2, <1>3, <1>4, <1>5, <1>6, <1>7, <1>8, <1>9 DEF Next, Run

LEMMA SupervisionInductive ==
  ASSUME SupervisionInv, [Next]_vars PROVE SupervisionInv'
<1>1. TypeOK' /\ Down'
  BY TypesStep, DownStep DEF SupervisionInv
<1>2. \A k \in Ids : Retired(k)' /\ Counted(k)'
  BY RetiredStep, CountedStep DEF SupervisionInv
<1>3. \A k \in Ids : Noticed(k)' /\ (Closing(k)' => records'[k] = NoRecord)
  BY NoticedStep, ClosingStep DEF SupervisionInv
<1> QED BY <1>1, <1>2, <1>3 DEF SupervisionInv

LEMMA Initially == Init => SupervisionInv
<1> SUFFICES ASSUME Init PROVE SupervisionInv
  OBVIOUS
<1>0. MaxOpens \in Nat
  BY StreamsAssumption
<1>1. MemoryOK
  <2>1. records \in [Ids -> Record \cup {NoRecord}] /\ generations \in 1 .. MaxOpens + 1
    BY <1>0 DEF Init
  <2>2. live \in [Ids -> BOOLEAN] /\ changed \in BOOLEAN
    BY DEF Init
  <2> QED BY <2>1, <2>2 DEF MemoryOK
<1>2. RunnerOK
  BY DEF Init, RunnerOK, NoSups
<1>3. PoolsOK /\ req \in Requests /\ promised \in [Ids -> Origins \cup {None, Unknown}]
  BY DEF Init, PoolsOK, Files, Nothing, Requests
<1>4. Down /\ \A k \in Ids : ~Closing(k)
  BY DEF Init, Down, Closing, NoRequest
<1>5. ASSUME NEW k \in Ids PROVE Retired(k) /\ Counted(k) /\ Noticed(k)
  BY DEF Init, Retired, Gone, NoSups, Counted, Later, Noticed
<1> QED BY <1>1, <1>2, <1>3, <1>4, <1>5 DEF SupervisionInv, TypeOK

(* For any number of streams, opened, closed and abandoned in any order    *)
(* between two passes of run: every record has one supervisor or is about  *)
(* to be given it, and no id keeps two connections.                        *)
THEOREM OneSupervisorEach == Spec => []SupervisedOnce
<1>1. SupervisionInv => SupervisedOnce
  <2> SUFFICES ASSUME SupervisionInv PROVE SupervisedOnce
    OBVIOUS
  <2>1. ASSUME NEW k \in Ids
        PROVE  Cardinality(Kept(k)) <= 1 /\ (k \in kept => spawned[k] \in Kept(k))
    <3>1. Retired(k) /\ spawned[k] \in Spawns \cup {0} /\ (k \in kept => spawned[k] > 0)
      BY DEF SupervisionInv, TypeOK, RunnerOK, Retired
    <3>2. Kept(k) \subseteq {spawned[k]}
      BY <3>1 DEF Retired, Gone, Kept
    <3>3. IsFiniteSet({spawned[k]}) /\ Cardinality({spawned[k]}) = 1
      BY FS_Singleton
    <3>4. Cardinality(Kept(k)) <= 1
      BY <3>2, <3>3, FS_Subset
    <3>5. k \in kept => spawned[k] \in Kept(k)
      BY <3>1 DEF Retired, Gone, Kept
    <3> QED BY <3>4, <3>5
  <2>2. NoLostWakeup
    BY DEF SupervisionInv, Noticed, Closing, NoLostWakeup
  <2> QED BY <2>1, <2>2 DEF SupervisedOnce, OneConnection, SupervisionInv
<1> QED BY <1>1, Initially, SupervisionInductive, PTL DEF Spec

-----------------------------------------------------------------------------
(* What the parts of the promise need of the types.                        *)
LEMMA PromiseTypes ==
  ASSUME TypeOK, NEW k \in Ids
  PROVE  /\ records[k] = NoRecord => Origin(k) = None
         /\ records[k] # NoRecord => Origin(k) \in Origins /\ Origin(k) # None
         /\ req.pc # "none" => req # NoRequest
         /\ req = NoRequest => req.pc = "none"
         /\ file \in images /\ flag \in flagImages /\ flag \in BOOLEAN
BY StreamsAssumption DEF TypeOK, MemoryOK, PoolsOK, Record, NoRecord, Origin, NoRequest

(* A file that is written or removed takes its promise with it.            *)
LEMMA PublishStep ==
  ASSUME TypeOK, NEW j \in Ids, NEW o, Publish(j, o), NEW k \in Ids, Durable(k),
         UNCHANGED flagImages
  PROVE  Durable(k)' /\ file'[j] = o /\ (k # j => UNCHANGED <<file[k], promised[k]>>)
         /\ promised'[j] = Unknown
BY DEF Publish, Durable, TypeOK, PoolsOK, Files

LEMMA PromiseStep ==
  ASSUME PromiseInv, [Next]_vars, NEW k \in Ids
  PROVE  Promised(k)' /\ Durable(k)'
<1> DEFINE Goal == Promised(k) /\ Durable(k)
<1>0. TypeOK /\ Down /\ Goal
  BY DEF PromiseInv, SupervisionInv
<1>1. ASSUME UNCHANGED <<records, req, pools, up, promised>> PROVE Goal'
  BY <1>0, <1>1 DEF Promised, Durable, InStep, Origin, pools
<1>2. ASSUME RequestStart PROVE Goal'
  BY <1>0, <1>2, PromiseTypes DEF RequestStart, Promised, Durable, InStep, Origin, pools,
    memory
<1>3. ASSUME MarkBackground PROVE Goal'
  BY <1>0, <1>3, PromiseTypes DEF MarkBackground, Promised, Durable, InStep, Origin, memory,
    InGuest, NoRequest, TypeOK, Requests
<1>4. ASSUME MarkEnds PROVE Goal'
  BY <1>0, <1>4, PromiseTypes DEF MarkEnds, Promised, Durable, InStep, Origin, memory,
    NoRequest, TypeOK, Requests
<1>5. ASSUME NEW j \in Ids, OpenExisting(j) PROVE Goal'
  BY <1>0, <1>5, PromiseTypes DEF OpenExisting, Promised, Durable, InStep, Origin, memory,
    pools, InGuest, NoRequest, TypeOK, Requests
<1>6. ASSUME NEW j \in Ids, NEW o \in Origins, Open(j, o) PROVE Goal'
  BY <1>0, <1>6, PromiseTypes, PublishStep DEF Open, MayOpen, Promised, InStep, Origin,
    InGuest, NoRequest, TypeOK, Requests, MemoryOK
<1>7. ASSUME NEW j \in Ids, NEW o \in Origins, OpenCut(j, o) PROVE Goal'
  BY <1>0, <1>7, PromiseTypes, PublishStep DEF OpenCut, MayOpen, Promised, InStep, Origin,
    NoRequest
<1>8. ASSUME NEW j \in Ids, Close(j) PROVE Goal'
  BY <1>0, <1>8, PromiseTypes, PublishStep DEF Close, Promised, InStep, Origin,
    InGuest, NoRequest, TypeOK, Requests, MemoryOK, NoRecord
<1>9. ASSUME NEW j \in Ids, CloseCut(j) PROVE Goal'
  <2>1. /\ Durable(k)' /\ promised'[j] = Unknown
        /\ k # j => UNCHANGED <<file[k], promised[k]>>
    <3>1. CASE Publish(j, None)
      BY <1>0, <1>9, <3>1, PublishStep DEF CloseCut
    <3>2. CASE ~Publish(j, None)
      BY <1>0, <1>9, <3>2 DEF CloseCut, Durable, TypeOK
    <3> QED BY <3>1, <3>2
  <2>2. req' # NoRequest /\ k \in req'.told => req # NoRequest /\ k \in req.told /\ k # j
    BY <1>0, <1>9 DEF CloseCut, InGuest, TypeOK, Requests, NoRequest
  <2>3. UNCHANGED <<up, flag>> /\ records' = [records EXCEPT ![j] = NoRecord]
    BY <1>9 DEF CloseCut
  <2> QED BY <1>0, <2>1, <2>2, <2>3 DEF Promised, InStep, Origin, TypeOK, MemoryOK
<1>10. ASSUME CloseTells PROVE Goal'
  BY <1>0, <1>10, PromiseTypes DEF CloseTells, Promised, Durable, InStep, Origin, pools
<1>11. ASSUME AnchorTenant PROVE Goal'
  BY <1>0, <1>11, PromiseTypes DEF AnchorTenant, Promised, Durable, InStep, Origin, memory,
    InGuest, NoRequest, TypeOK, Requests
<1>12. ASSUME Respond PROVE Goal'
  BY <1>0, <1>12, PromiseTypes DEF Respond, PromiseInv, Promised, Durable, InStep, Origin,
    memory
<1>13. ASSUME Abandon PROVE Goal'
  BY <1>0, <1>13, PromiseTypes DEF Abandon, Promised, Durable, InStep, Origin, memory, pools
<1>14. ASSUME Die PROVE Goal'
  BY <1>0, <1>14 DEF Die, Promised, Durable, pools
<1>15. ASSUME Restart PROVE Goal'
  <2>1. PICK found \in images, flagged \in flagImages :
          /\ file' = found /\ images' = {found} /\ flag' = flagged /\ flagImages' = {flagged}
          /\ records' = [i \in Ids |->
               IF flagged /\ found[i] # None THEN [origin |-> found[i], gen |-> 0]
               ELSE NoRecord]
    BY <1>15 DEF Restart
  <2>2. req' = NoRequest /\ promised' = promised
    BY <1>0, <1>15 DEF Restart, Down
  <2>3. Durable(k)'
    BY <1>0, <2>1, <2>2 DEF Durable
  <2>4. InStep(k)'
    BY <2>1, <2>2 DEF InStep, Origin
  <2>5. promised[k] # Unknown => Origin(k)' = promised[k]
    <3>1. CASE found[k] = None
      BY <1>0, <2>1, <3>1 DEF Durable, Origin, NoRecord
    <3>2. CASE found[k] # None /\ promised[k] # Unknown
      <4>1. found[k] = promised[k] /\ flagImages = {TRUE}
        BY <1>0, <2>1, <3>2 DEF Durable
      <4>2. flagged = TRUE
        BY <4>1
      <4> QED BY <2>1, <3>2, <4>1, <4>2 DEF Origin
    <3> QED BY <3>1, <3>2
  <2> QED BY <2>2, <2>3, <2>4, <2>5 DEF Promised
<1>16. ASSUME NEW j \in Ids, CloseNothing(j) PROVE Goal'
  BY <1>1, <1>16 DEF CloseNothing
<1>17. ASSUME Run PROVE Goal'
  BY <1>1, <1>17 DEF Run, Collect, Pass, Wake, Timer, memory
<1>18. ASSUME NEW j \in Ids, NEW n \in Spawns, Supervise(j, n) PROVE Goal'
  BY <1>0, <1>1, <1>18, SuperviseStep DEF TypeOK
<1>19. ASSUME UNCHANGED vars PROVE Goal'
  BY <1>1, <1>19 DEF vars, memory
<1> HIDE DEF Goal
<1>20. Goal'
  BY <1>2, <1>3, <1>4, <1>5, <1>6, <1>7, <1>8, <1>9, <1>10, <1>11, <1>12, <1>13, <1>14,
    <1>15, <1>16, <1>17, <1>18, <1>19 DEF Next, Calls
<1> QED BY <1>20 DEF Goal

(* What a response said of a stream holds for any number of streams,       *)
(* through any number of stops, whichever image a restart finds.           *)
THEOREM PromisesKept == Spec => []PromiseHolds
<1>1. Init => PromiseInv
  <2> SUFFICES ASSUME Init PROVE PromiseInv
    OBVIOUS
  <2>1. ASSUME NEW k \in Ids PROVE Promised(k) /\ Durable(k)
    BY DEF Init, Promised, InStep, Durable
  <2> QED BY <2>1, Initially DEF PromiseInv, Init, NoRequest
<1>2. PromiseInv /\ [Next]_vars => PromiseInv'
  <2> SUFFICES ASSUME PromiseInv, [Next]_vars PROVE PromiseInv'
    OBVIOUS
  <2>0. TypeOK /\ Down /\ (req.pc = "anchored" => images = {file})
    BY DEF PromiseInv, SupervisionInv
  <2>1. req'.pc = "anchored" => images' = {file'}
    <3>1. CASE UNCHANGED <<req, file, images>>
      BY <2>0, <3>1
    <3>2. CASE Calls
      <4> USE DEF InGuest, TypeOK, Requests, NoRequest
      <4>1. CASE AnchorTenant
        BY <4>1 DEF AnchorTenant
      <4>2. ASSUME RequestStart \/ CloseTells \/ Respond \/ Abandon PROVE req'.pc # "anchored"
        BY <4>2 DEF RequestStart, CloseTells, Respond, Abandon
      <4>3. ASSUME MarkBackground PROVE req'.pc # "anchored"
        BY <2>0, <4>3 DEF MarkBackground
      <4>4. ASSUME MarkEnds PROVE req'.pc # "anchored"
        BY <2>0, <4>4 DEF MarkEnds
      <4>5. ASSUME NEW k \in Ids, OpenExisting(k) PROVE req'.pc # "anchored"
        BY <2>0, <4>5 DEF OpenExisting
      <4>6. ASSUME NEW k \in Ids, NEW o \in Origins, Open(k, o) \/ OpenCut(k, o)
            PROVE  req'.pc # "anchored"
        BY <2>0, <4>6 DEF Open, OpenCut, MayOpen
      <4>7. ASSUME NEW k \in Ids, Close(k) \/ CloseCut(k) PROVE req'.pc # "anchored"
        BY <2>0, <4>7 DEF Close, CloseCut
      <4>8. ASSUME NEW k \in Ids, CloseNothing(k) PROVE UNCHANGED <<req, file, images>>
        BY <4>8 DEF CloseNothing, pools
      <4> QED BY <3>1, <3>2, <4>1, <4>2, <4>3, <4>4, <4>5, <4>6, <4>7, <4>8 DEF Calls
    <3>3. CASE Die \/ Restart
      BY <2>0, <3>3 DEF Die, Volatile, Restart, Down, NoRequest
    <3>4. ASSUME NEW k \in Ids, NEW n \in Spawns, Supervise(k, n)
          PROVE  UNCHANGED <<req, file, images>>
      BY <2>0, <3>4, SuperviseStep DEF TypeOK, pools
    <3> QED BY <3>1, <3>2, <3>3, <3>4 DEF Next, Run, Collect, Pass, Wake, Timer, vars, pools
  <2>2. SupervisionInv'
    BY SupervisionInductive DEF PromiseInv
  <2> QED BY <2>1, <2>2, PromiseStep DEF PromiseInv
<1>3. PromiseInv => PromiseHolds
  BY DEF PromiseInv, Promised, PromiseHolds
<1> QED BY <1>1, <1>2, <1>3, PTL DEF Spec

-----------------------------------------------------------------------------
(* Egress.  The check in `admits` is written octet by octet, the registry  *)
(* block by block: PublicIsAdmitted is that the one leaves out nothing of  *)
(* the other.  NeverInside then needs only that the address connected to   *)
(* is one that was admitted for the port that was asked for.               *)

(* What it takes to be in a block, where its length leaves bits to compare.*)
LEMMA OctetsOfBlock ==
  ASSUME NEW ip \in [1..4 -> 0..255], NEW base, NEW length,
         Way!InBlock(ip, <<base, length>>)
  PROVE  /\ length = 4 => ip[1] \div 16 = base[1] \div 16
         /\ length >= 8 /\ length \in Nat => ip[1] \div 1 = base[1] \div 1
         /\ length = 10 => ip[2] \div 64 = base[2] \div 64
         /\ length = 12 => ip[2] \div 16 = base[2] \div 16
         /\ length = 15 => ip[2] \div 2 = base[2] \div 2
         /\ length >= 16 /\ length \in Nat => ip[2] \div 1 = base[2] \div 1
         /\ length = 24 => ip[3] \div 1 = base[3] \div 1
<1>0. 1 \in 1..4 /\ 2 \in 1..4 /\ 3 \in 1..4
  OBVIOUS
<1>1. 2^0 = 1 /\ 2^1 = 2 /\ 2^4 = 16 /\ 2^6 = 64
  OBVIOUS
<1>2. ASSUME NEW i \in 1..4, NEW n, 8 - Way!Covered(length, i) = n
      PROVE  ip[i] \div 2^n = base[i] \div 2^n
  BY <1>2 DEF Way!InBlock
<1>3. /\ length = 4 => 8 - Way!Covered(length, 1) = 4
      /\ length >= 8 /\ length \in Nat => 8 - Way!Covered(length, 1) = 0
      /\ length = 10 => 8 - Way!Covered(length, 2) = 6
      /\ length = 12 => 8 - Way!Covered(length, 2) = 4
      /\ length = 15 => 8 - Way!Covered(length, 2) = 1
      /\ length >= 16 /\ length \in Nat => 8 - Way!Covered(length, 2) = 0
      /\ length = 24 => 8 - Way!Covered(length, 3) = 0
  BY DEF Way!Covered
<1>4. /\ length = 4 => ip[1] \div 2^4 = base[1] \div 2^4
      /\ length >= 8 /\ length \in Nat => ip[1] \div 2^0 = base[1] \div 2^0
      /\ length = 10 => ip[2] \div 2^6 = base[2] \div 2^6
      /\ length = 12 => ip[2] \div 2^4 = base[2] \div 2^4
      /\ length = 15 => ip[2] \div 2^1 = base[2] \div 2^1
      /\ length >= 16 /\ length \in Nat => ip[2] \div 2^0 = base[2] \div 2^0
      /\ length = 24 => ip[3] \div 2^0 = base[3] \div 2^0
  BY <1>0, <1>2, <1>3, ZenonT(60)
<1> QED BY <1>1, <1>4

(* Every address there is: one that `admits` lets through is in no block.  *)
LEMMA PublicIsAdmitted ==
  ASSUME NEW ip \in [1..4 -> 0..255], ~Way!IsReserved(ip)
  PROVE  Way!Public(ip)
<1> SUFFICES ASSUME NEW b \in Way!Blocks, Way!InBlock(ip, b) PROVE FALSE
  BY DEF Way!Public
<1>0. ip[1] \in 0..255 /\ ip[2] \in 0..255 /\ ip[3] \in 0..255
  OBVIOUS
<1>1. 2^(8 - 2) = 64 /\ 2^(8 - 7) = 2
  OBVIOUS
<1>2. /\ ip[1] # 0 /\ ip[1] < 224 /\ ip[1] # 127 /\ ip[1] # 10
      /\ ip[1] = 172 => ip[2] \notin 16..31
      /\ ip[1] = 192 => ip[2] # 168
      /\ ip[1] = 169 => ip[2] # 254
      /\ ip[1] = 192 /\ ip[2] = 0 => ip[3] # 2 /\ ip[3] # 0
      /\ ip[1] = 198 /\ ip[2] = 51 => ip[3] # 100
      /\ ip[1] = 203 /\ ip[2] = 0 => ip[3] # 113
      /\ ip[1] = 100 => ip[2] - (ip[2] % 64) # 64
      /\ ip[1] = 198 => ip[2] - (ip[2] % 2) # 18
  BY <1>0, <1>1 DEF Way!IsReserved, Way!IsPrivate, Way!IsDocumentation, Way!HighBits
<1> DEFINE base == b[1]
           length == b[2]
<1>8. /\ length = 4 => ip[1] \div 16 = base[1] \div 16
      /\ length >= 8 /\ length \in Nat => ip[1] \div 1 = base[1] \div 1
      /\ length = 10 => ip[2] \div 64 = base[2] \div 64
      /\ length = 12 => ip[2] \div 16 = base[2] \div 16
      /\ length = 15 => ip[2] \div 2 = base[2] \div 2
      /\ length >= 16 /\ length \in Nat => ip[2] \div 1 = base[2] \div 1
      /\ length = 24 => ip[3] \div 1 = base[3] \div 1
  <2>1. Way!InBlock(ip, <<base, length>>)
    BY DEF Way!InBlock
  <2> HIDE DEF base, length
  <2> QED BY <2>1, OctetsOfBlock
<1>3. CASE length = 8
  <2>1. base[1] \in {0, 10, 127}
    BY <1>3 DEF Way!Blocks
  <2> QED BY ONLY <1>0, <1>2, <1>3, <1>8, <2>1
<1>4. CASE length = 4
  <2>1. base[1] \in {224, 240}
    BY <1>4 DEF Way!Blocks
  <2> QED BY ONLY <1>0, <1>2, <1>4, <1>8, <2>1
<1>5. CASE length \in {10, 12, 15}
  <2>1. \/ length = 10 /\ base[1] = 100 /\ base[2] = 64
        \/ length = 12 /\ base[1] = 172 /\ base[2] = 16
        \/ length = 15 /\ base[1] = 198 /\ base[2] = 18
    BY <1>5 DEF Way!Blocks
  <2> QED BY ONLY <1>0, <1>2, <1>8, <2>1
<1>6. CASE length = 16
  <2>1. \/ base[1] = 169 /\ base[2] = 254
        \/ base[1] = 192 /\ base[2] = 168
    BY <1>6 DEF Way!Blocks
  <2> QED BY ONLY <1>0, <1>2, <1>6, <1>8, <2>1
<1>7. CASE length = 24
  <2>1. \/ base[1] = 192 /\ base[2] = 0 /\ base[3] \in {0, 2}
        \/ base[1] = 198 /\ base[2] = 51 /\ base[3] = 100
        \/ base[1] = 203 /\ base[2] = 0 /\ base[3] = 113
    BY <1>7 DEF Way!Blocks
  <2> QED BY ONLY <1>0, <1>2, <1>7, <1>8, <2>1
<1> QED BY <1>3, <1>4, <1>5, <1>6, <1>7 DEF Way!Blocks

(* The address connected to was admitted, and not moved on from.           *)
EgressInv ==
  /\ e_answers \subseteq Samples \cup Seconds
  /\ e_peer # None => e_peer \in Samples \cup Seconds /\ Way!Admits(e_peer, e_port)
  /\ e_phase \in {"idle", "backoff", "resolve"} => e_peer = None

LEMMA EgressInductive == EgressInv /\ [Way!Next]_Way!vars => EgressInv'
<1> SUFFICES ASSUME EgressInv, [Way!Next]_Way!vars PROVE EgressInv'
  OBVIOUS
<1> USE DEF EgressInv, Way!Admits
<1>1. CASE Way!BringUp \/ Way!GatewayAnswers \/ Way!Closes
  BY <1>1 DEF Way!BringUp, Way!GatewayAnswers, Way!Closes
<1>2. ASSUME NEW p \in Ports, Way!Dial(p) PROVE EgressInv'
  BY <1>2 DEF Way!Dial
<1>3. CASE Way!End
  BY <1>3 DEF Way!End
<1>4. ASSUME NEW as \in SUBSET (Samples \cup Seconds), Way!Resolve(as) PROVE EgressInv'
  BY <1>3, <1>4 DEF Way!Resolve
<1>5. ASSUME NEW a \in Samples, Way!Connect(a) PROVE EgressInv'
  BY <1>5 DEF Way!Connect, Way!Peers, Way!Admitted
<1>6. CASE Way!TlsDone \/ Way!HttpDone \/ Way!HeadArrives
  BY <1>6 DEF Way!TlsDone, Way!HttpDone, Way!HeadArrives, Way!Proceeds
<1>7. ASSUME Way!Fails \/ Way!Expire \/ Way!BodyEnds \/ Way!GivesUp \/ Way!Trapped
      PROVE  Way!End
  BY <1>7 DEF Way!Fails, Way!Expire, Way!BodyEnds, Way!GivesUp, Way!Trapped
<1>8. CASE UNCHANGED Way!vars
  BY <1>8 DEF Way!vars
<1> HIDE DEF EgressInv, Way!Admits
<1> QED BY <1>1, <1>2, <1>3, <1>4, <1>5, <1>6, <1>7, <1>8 DEF Way!Next, Way!Steps

(* Whatever of the 2^32 addresses the resolver answers with, in whatever   *)
(* form, no exchange reaches one that is not public.                       *)
THEOREM OnlyPublicReached ==
  /\ Way!Spec => []Way!NeverInside
  /\ SumSpec => []NeverInside
<1>1. Way!Init => EgressInv
  BY DEF Way!Init, EgressInv
<1>2. EgressInv => Way!NeverInside
  <2> SUFFICES ASSUME EgressInv, e_peer # None PROVE Way!NeverInside
    BY DEF Way!NeverInside
  <2>1. e_peer.ip \in [1..4 -> 0..255] /\ Way!Admits(e_peer, e_port)
    BY EgressAssumption DEF EgressInv, Way!AddressAssumption
  <2> QED BY <2>1, PublicIsAdmitted DEF Way!Admits, Way!NeverInside
<1>3. Way!Spec => []Way!NeverInside
  BY <1>1, <1>2, EgressInductive, PTL DEF Way!Spec
<1> DEFINE Part == part = "egress" => EgressInv
<1>4. SumInit => Part
  BY <1>1 DEF SumInit
<1>5. Part /\ [SumNext]_Sum => Part'
  <2> SUFFICES ASSUME EgressInv, part = "egress", part' = "egress", [SumNext]_Sum
               PROVE  EgressInv'
    BY DEF SumNext, Sum
  <2> QED BY EgressInductive DEF SumNext, Sum, e_vars, Way!vars
<1>6. Part => NeverInside
  BY <1>2 DEF NeverInside
<1>7. SumSpec => []NeverInside
  BY <1>4, <1>5, <1>6, PTL DEF SumSpec
<1> QED BY <1>3, <1>7

-----------------------------------------------------------------------------
(* SseFramer, for any bytes, frames and ceiling.  The buffer stands for    *)
(* what was written: reading on from it, after the events handed on, is    *)
(* reading on from all of it (FramerInv).  Folding the line endings does   *)
(* not change what is read (NormaliseReads), and neither does taking off   *)
(* the blocks that are complete (TakeReads).                               *)

LEMMA FramerCount ==
  ASSUME NEW S
  PROVE  Framer!Cardinality(S) = Cardinality(S)
BY Zenon DEF Framer!Cardinality, Cardinality, Framer!IsFiniteSet, IsFiniteSet

LEMMA LeastNatural ==
  ASSUME NEW S \in SUBSET Nat, S # {}
  PROVE  \E x \in S : \A y \in S : x <= y
<1> DEFINE R == OpToRel(<, Nat)
<1>1. \A y, x \in Nat : <<y, x>> \in R <=> y < x
  BY DEF OpToRel
<1> HIDE DEF R
<1>2. PICK x \in S : \A y \in S : <<y, x>> \notin R
  BY NatLessThanWellFounded, WFMin DEF R
<1>3. ASSUME NEW y \in S PROVE x <= y
  <2>1. x \in Nat /\ y \in Nat
    OBVIOUS
  <2>2. ~(y < x)
    BY <1>1, <1>2, <2>1
  <2> QED BY <2>1, <2>2
<1> QED BY <1>3

(* Induction over the naturals, and over sequences, to a set.              *)
LEMMA ReachesAll ==
  ASSUME NEW T, 0 \in T, \A i, j \in Nat : i \in T /\ j = i + 1 => j \in T
  PROVE  Nat \subseteq T
<1> DEFINE S == {n \in Nat : n \notin T}
<1> SUFFICES ASSUME S # {} PROVE FALSE
  OBVIOUS
<1>1. PICK n \in S : \A y \in S : n <= y
  BY LeastNatural
<1>2. n \in Nat /\ n # 0
  OBVIOUS
<1>3. n - 1 \in Nat /\ n = (n - 1) + 1
  BY <1>2
<1>4. n - 1 \notin S
  BY <1>1, <1>3
<1> QED BY <1>3, <1>4

LEMMA Prefixes ==
  ASSUME NEW S, NEW s \in Seq(S), NEW i \in Nat, NEW j, j = i + 1, j <= Len(s)
  PROVE  /\ SubSeq(s, 1, i) \in Seq(S) /\ s[j] \in S
         /\ SubSeq(s, 1, j) = Append(SubSeq(s, 1, i), s[j])
<1>1. Len(s) \in Nat /\ j \in 1..Len(s) /\ i = j - 1
  OBVIOUS
<1>2. \A n \in 1..i : s[n] \in S
  BY <1>1
<1>3. SubSeq(s, 1, i) \in Seq(S) /\ s[j] \in S
  BY <1>1, <1>2, SubSeqProperties
<1>4. SubSeq(s, 1, j) = SubSeq(s, 1, j - 1) \o <<s[j]>>
  BY <1>1, SubSeqRecursiveSecond
<1> QED BY <1>1, <1>3, <1>4, AppendIsConcat

LEMMA ReachesSequences ==
  ASSUME NEW S, NEW T, <<>> \in T, \A s \in Seq(S), b \in S : s \in T => Append(s, b) \in T
  PROVE  Seq(S) \subseteq T
<1> SUFFICES ASSUME NEW s \in Seq(S) PROVE s \in T
  OBVIOUS
<1> DEFINE N == {n \in Nat : n <= Len(s) => SubSeq(s, 1, n) \in T}
<1>1. 0 \in N
  <2>1. SubSeq(s, 1, 0) = <<>>
    BY SubSeqEmpty
  <2> QED BY <2>1
<1>2. ASSUME NEW i \in Nat, NEW j \in Nat, i \in N, j = i + 1 PROVE j \in N
  <2> SUFFICES ASSUME j <= Len(s) PROVE SubSeq(s, 1, j) \in T
    OBVIOUS
  <2>1. /\ SubSeq(s, 1, i) \in Seq(S) /\ s[j] \in S
        /\ SubSeq(s, 1, j) = Append(SubSeq(s, 1, i), s[j])
    BY <1>2, Prefixes
  <2>2. Len(s) \in Nat /\ i <= Len(s)
    BY <1>2
  <2>3. SubSeq(s, 1, i) \in T
    BY <1>2, <2>2
  <2> QED BY <2>1, <2>3
<1> HIDE DEF N
<1>3. Nat \subseteq N
  BY <1>1, <1>2, ReachesAll
<1>4. SubSeq(s, 1, Len(s)) \in T
  BY <1>3 DEF N
<1> QED BY <1>4, SubSeqFull

(* The three loops of the model: each a function of how many rounds.       *)
Round(loop_, s, x, n) ==
  CASE loop_ = "fold" -> Framer!FoldByte(s, x, n)
    [] loop_ = "take" -> Framer!TakeBlock(x)
    [] loop_ = "read" -> Framer!Reads(x, s[n])

IsRun(l, s, x, k, g) == g = [n \in 0..k |-> IF n = 0 THEN x ELSE Round(l, s, g[n - 1], n)]
Rounds(l, s, x, k) == (CHOOSE g : IsRun(l, s, x, k, g))[k]

LEMMA RunExists ==
  ASSUME NEW l, NEW s, NEW x, NEW k \in Nat
  PROVE  \E g : IsRun(l, s, x, k, g)
<1> DEFINE T == {j \in Nat : \E g : IsRun(l, s, x, j, g)}
<1>1. 0 \in T
  <2> DEFINE h == [n \in 0..0 |-> x]
  <2>1. \A n \in 0..0 : n = 0
    OBVIOUS
  <2>2. h = [n \in 0..0 |-> IF n = 0 THEN x ELSE Round(l, s, h[n - 1], n)]
    BY <2>1
  <2> QED BY <2>2 DEF IsRun
<1>2. ASSUME NEW i \in Nat, NEW j \in Nat, i \in T, j = i + 1 PROVE j \in T
  <2>1. PICK g : IsRun(l, s, x, i, g)
    BY <1>2
  <2> DEFINE h == [n \in 0..j |-> IF n = j THEN Round(l, s, g[i], j) ELSE g[n]]
  <2>2. ASSUME NEW n \in 0..j PROVE h[n] = IF n = 0 THEN x ELSE Round(l, s, h[n - 1], n)
    <3>1. CASE n = j
      <4>1. n # 0 /\ n - 1 = i /\ i \in 0..j /\ i # j
        BY <1>2, <3>1
      <4>2. h[n] = Round(l, s, g[i], j) /\ h[i] = g[i]
        BY <3>1, <4>1
      <4> QED BY <3>1, <4>1, <4>2
    <3>2. CASE n # j
      <4>1. n \in 0..i /\ h[n] = g[n]
        BY <1>2, <3>2
      <4>2. g[n] = IF n = 0 THEN x ELSE Round(l, s, g[n - 1], n)
        BY <2>1, <4>1 DEF IsRun
      <4>3. n # 0 => n - 1 \in 0..j /\ n - 1 # j
        BY <1>2, <4>1
      <4>4. n # 0 => h[n - 1] = g[n - 1]
        BY <4>3
      <4> QED BY <4>1, <4>2, <4>4
    <3> QED BY <3>1, <3>2
  <2>3. h = [n \in 0..j |-> h[n]]
    OBVIOUS
  <2> HIDE DEF h
  <2>4. IsRun(l, s, x, j, h)
    BY <2>2, <2>3 DEF IsRun
  <2> QED BY <2>4
<1> HIDE DEF T
<1>3. k \in T
  BY <1>1, <1>2, ReachesAll
<1> QED BY <1>3 DEF T

(* Runs agree as far as their rounds do.                                   *)
LEMMA RunsAgree ==
  ASSUME NEW l, NEW s, NEW t, NEW x, NEW k \in Nat, NEW m \in Nat, NEW e \in Nat, e <= k, e <= m,
         NEW g, NEW h, IsRun(l, s, x, k, g), IsRun(l, t, x, m, h),
         \A n \in 1..e : \A y : Round(l, s, y, n) = Round(l, t, y, n)
  PROVE  g[e] = h[e]
<1> DEFINE T == {n \in Nat : n <= e => g[n] = h[n]}
<1>1. 0 \in T
  BY DEF IsRun
<1>2. ASSUME NEW i \in Nat, NEW j \in Nat, i \in T, j = i + 1 PROVE j \in T
  <2> SUFFICES ASSUME j <= e PROVE g[j] = h[j]
    OBVIOUS
  <2>1. j \in 0..k /\ j \in 0..m /\ j # 0 /\ j - 1 = i /\ j \in 1..e
    BY <1>2
  <2>2. g[j] = Round(l, s, g[i], j) /\ h[j] = Round(l, t, h[i], j)
    BY <2>1 DEF IsRun
  <2>3. g[i] = h[i]
    BY <1>2
  <2> QED BY <2>1, <2>2, <2>3
<1> HIDE DEF T
<1>3. e \in T
  BY <1>1, <1>2, ReachesAll
<1> QED BY <1>3 DEF T

LEMMA NoRounds ==
  ASSUME NEW l, NEW s, NEW x
  PROVE  Rounds(l, s, x, 0) = x
<1>1. PICK g : g = CHOOSE z : IsRun(l, s, x, 0, z)
  OBVIOUS
<1>2. IsRun(l, s, x, 0, g)
  BY <1>1, RunExists
<1> QED BY <1>1, <1>2 DEF Rounds, IsRun

LEMMA RoundByRound ==
  ASSUME NEW l, NEW s, NEW x, NEW i \in Nat, NEW j, j = i + 1
  PROVE  Rounds(l, s, x, j) = Round(l, s, Rounds(l, s, x, i), j)
<1>1. j \in Nat /\ j \in 0..j /\ j # 0 /\ j - 1 = i /\ i <= j /\ i <= i
  OBVIOUS
<1>2. PICK g : g = CHOOSE z : IsRun(l, s, x, i, z)
  OBVIOUS
<1>3. PICK h : h = CHOOSE z : IsRun(l, s, x, j, z)
  OBVIOUS
<1>4. IsRun(l, s, x, i, g) /\ IsRun(l, s, x, j, h)
  BY <1>1, <1>2, <1>3, RunExists
<1>5. h[j] = Round(l, s, h[i], j)
  BY <1>1, <1>4 DEF IsRun
<1>6. h[i] = g[i]
  BY <1>1, <1>4, RunsAgree
<1> QED BY <1>2, <1>3, <1>5, <1>6 DEF Rounds

LEMMA RoundsAgree ==
  ASSUME NEW l, NEW s, NEW t, NEW x, NEW k \in Nat,
         \A n \in 1..k : \A y : Round(l, s, y, n) = Round(l, t, y, n)
  PROVE  Rounds(l, s, x, k) = Rounds(l, t, x, k)
<1>1. PICK g : g = CHOOSE z : IsRun(l, s, x, k, z)
  OBVIOUS
<1>2. PICK h : h = CHOOSE z : IsRun(l, t, x, k, z)
  OBVIOUS
<1>3. IsRun(l, s, x, k, g) /\ IsRun(l, t, x, k, h)
  BY <1>1, <1>2, RunExists
<1>4. g[k] = h[k]
  BY <1>3, RunsAgree
<1> QED BY <1>1, <1>2, <1>4 DEF Rounds

LEMMA RunIsRounds ==
  ASSUME NEW l, NEW s, NEW x, NEW k \in Nat, NEW g, IsRun(l, s, x, k, g)
  PROVE  g[k] = Rounds(l, s, x, k)
<1>1. PICK h : h = CHOOSE z : IsRun(l, s, x, k, z)
  OBVIOUS
<1>2. IsRun(l, s, x, k, h)
  BY <1>1, RunExists
<1>3. g[k] = h[k]
  BY <1>2, RunsAgree
<1> QED BY <1>1, <1>3 DEF Rounds

LEMMA LoopsAreRounds ==
  ASSUME NEW s, NEW st, Len(s) \in Nat
  PROVE  /\ Framer!Fold(s) = Rounds("fold", s, <<>>, Len(s))
         /\ Framer!Take(s) = Rounds("take", s, [rest |-> s, out |-> <<>>], Len(s))
         /\ Framer!Reading(st, s) = Rounds("read", s, st, Len(s))
<1>1. \A x, n : /\ Round("fold", s, x, n) = Framer!FoldByte(s, x, n)
                /\ Round("take", s, x, n) = Framer!TakeBlock(x)
                /\ Round("read", s, x, n) = Framer!Reads(x, s[n])
  BY DEF Round
<1>2. Framer!Fold(s) = Rounds("fold", s, <<>>, Len(s))
  <2> DEFINE A(g) == g = [n \in 0..Len(s) |-> IF n = 0 THEN <<>> ELSE Framer!FoldByte(s, g[n - 1], n)]
             G == CHOOSE g : A(g)
  <2>1. Framer!Fold(s) = G[Len(s)]
    BY DEF Framer!Fold
  <2>2. \A g : A(g) <=> IsRun("fold", s, <<>>, Len(s), g)
    BY <1>1 DEF IsRun
  <2> HIDE DEF A
  <2>3. IsRun("fold", s, <<>>, Len(s), G)
    BY <2>2, RunExists
  <2> HIDE DEF G
  <2> QED BY <2>1, <2>3, RunIsRounds
<1>3. Framer!Take(s) = Rounds("take", s, [rest |-> s, out |-> <<>>], Len(s))
  <2> DEFINE A(g) == g = [n \in 0..Len(s) |-> IF n = 0 THEN [rest |-> s, out |-> <<>>] ELSE Framer!TakeBlock(g[n - 1])]
             G == CHOOSE g : A(g)
  <2>1. Framer!Take(s) = G[Len(s)]
    BY DEF Framer!Take
  <2>2. \A g : A(g) <=> IsRun("take", s, [rest |-> s, out |-> <<>>], Len(s), g)
    BY <1>1 DEF IsRun
  <2> HIDE DEF A
  <2>3. IsRun("take", s, [rest |-> s, out |-> <<>>], Len(s), G)
    BY <2>2, RunExists
  <2> HIDE DEF G
  <2> QED BY <2>1, <2>3, RunIsRounds
<1>4. Framer!Reading(st, s) = Rounds("read", s, st, Len(s))
  <2> DEFINE A(g) == g = [n \in 0..Len(s) |-> IF n = 0 THEN st ELSE Framer!Reads(g[n - 1], s[n])]
             G == CHOOSE g : A(g)
  <2>1. Framer!Reading(st, s) = G[Len(s)]
    BY DEF Framer!Reading
  <2>2. \A g : A(g) <=> IsRun("read", s, st, Len(s), g)
    BY <1>1 DEF IsRun
  <2> HIDE DEF A
  <2>3. IsRun("read", s, st, Len(s), G)
    BY <2>2, RunExists
  <2> HIDE DEF G
  <2> QED BY <2>1, <2>3, RunIsRounds
<1> QED BY <1>2, <1>3, <1>4

(* Reading on, a byte and a text at a time.                                *)
Plain == Framer!Bytes \ {Framer!CR}
ReaderState == [data : Nat, empty : BOOLEAN, cr : BOOLEAN, out : Seq(Nat)]
CutShort(s) == SubSeq(s, 1, Len(s) - 1)
EndsInCR(s) == s # <<>> /\ s[Len(s)] = Framer!CR

LEMMA LastByte ==
  ASSUME NEW S, NEW s \in Seq(S)
  PROVE  /\ s # <<>> => /\ CutShort(s) \in Seq(S) /\ s[Len(s)] \in S
                        /\ s = Append(CutShort(s), s[Len(s)])
         /\ \A b \in S : CutShort(Append(s, b)) = s
<1>1. ASSUME s # <<>>
      PROVE  /\ CutShort(s) \in Seq(S) /\ s[Len(s)] \in S
             /\ s = Append(CutShort(s), s[Len(s)])
  <2>1. PICK i \in Nat : Len(s) = i + 1 /\ i = Len(s) - 1
    <3>1. Len(s) - 1 \in Nat /\ Len(s) = (Len(s) - 1) + 1
      BY <1>1
    <3> QED BY <3>1
  <2>2. /\ SubSeq(s, 1, i) \in Seq(S) /\ s[Len(s)] \in S
        /\ SubSeq(s, 1, Len(s)) = Append(SubSeq(s, 1, i), s[Len(s)])
    BY <2>1, Prefixes
  <2> QED BY <2>1, <2>2, SubSeqFull DEF CutShort
<1>2. ASSUME NEW b \in S PROVE CutShort(Append(s, b)) = s
  <2> DEFINE v == Append(s, b)
  <2>1. /\ v \in Seq(S) /\ Len(v) = Len(s) + 1 /\ Len(s) \in Nat
        /\ \A i \in 1..Len(s) : v[i] = s[i] /\ s[i] \in S
    OBVIOUS
  <2> HIDE DEF v
  <2>2. /\ SubSeq(v, 1, Len(s)) \in Seq(S)
        /\ Len(SubSeq(v, 1, Len(s))) = IF 1 <= Len(s) THEN Len(s) - 1 + 1 ELSE 0
        /\ \A i \in 1..(Len(s) - 1 + 1) : SubSeq(v, 1, Len(s))[i] = v[1 + i - 1]
    BY <2>1, SubSeqProperties
  <2>3. /\ Len(SubSeq(v, 1, Len(s))) = Len(s)
        /\ \A i \in 1..Len(s) : SubSeq(v, 1, Len(s))[i] = s[i]
    BY <2>1, <2>2
  <2>4. SubSeq(v, 1, Len(s)) = s
    BY <2>2, <2>3, SeqEqual
  <2>5. Len(v) - 1 = Len(s)
    BY <2>1
  <2> QED BY <2>4, <2>5 DEF CutShort, v
<1> QED BY <1>1, <1>2

LEMMA ReadByte ==
  ASSUME NEW st, NEW s \in Seq(Framer!Bytes), NEW b \in Framer!Bytes
  PROVE  /\ Framer!Reading(st, <<>>) = st
         /\ Framer!Reading(st, Append(s, b)) = Framer!Reads(Framer!Reading(st, s), b)
<1> DEFINE v == Append(s, b)
<1>1. /\ v \in Seq(Framer!Bytes) /\ Len(v) \in Nat /\ Len(s) \in Nat /\ Len(v) = Len(s) + 1
      /\ v[Len(v)] = b /\ \A i \in 1..Len(s) : v[i] = s[i]
  OBVIOUS
<1> HIDE DEF v
<1>2. Framer!Reading(st, <<>>) = st
  <2>1. Len(<<>>) = 0
    OBVIOUS
  <2>2. Framer!Reading(st, <<>>) = Rounds("read", <<>>, st, Len(<<>>))
    BY <2>1, LoopsAreRounds
  <2>3. Rounds("read", <<>>, st, 0) = st
    BY NoRounds
  <2> QED BY <2>1, <2>2, <2>3
<1>3. Rounds("read", s, st, Len(s)) = Rounds("read", v, st, Len(s))
  <2>1. \A n \in 1..Len(s) : \A y : Round("read", s, y, n) = Round("read", v, y, n)
    BY <1>1 DEF Round
  <2> QED BY <1>1, <2>1, RoundsAgree
<1>4. Rounds("read", v, st, Len(v)) = Round("read", v, Rounds("read", v, st, Len(s)), Len(v))
  BY <1>1, RoundByRound
<1>5. \A y : Round("read", v, y, Len(v)) = Framer!Reads(y, b)
  BY <1>1 DEF Round
<1>6. /\ Framer!Reading(st, v) = Rounds("read", v, st, Len(v))
      /\ Framer!Reading(st, s) = Rounds("read", s, st, Len(s))
  BY <1>1, LoopsAreRounds
<1>7. Framer!Reading(st, v) = Framer!Reads(Framer!Reading(st, s), b)
  BY <1>3, <1>4, <1>5, <1>6
<1> QED BY <1>2, <1>7 DEF v

LEMMA ReadOn ==
  ASSUME NEW st, NEW s \in Seq(Framer!Bytes), NEW t \in Seq(Framer!Bytes)
  PROVE  Framer!Reading(st, s \o t) = Framer!Reading(Framer!Reading(st, s), t)
<1> DEFINE T == {u \in Seq(Framer!Bytes) :
                   Framer!Reading(st, s \o u) = Framer!Reading(Framer!Reading(st, s), u)}
<1>1. <<>> \in T
  <2>1. s \o <<>> = s /\ <<>> \in Seq(Framer!Bytes)
    OBVIOUS
  <2>2. Framer!LF \in Framer!Bytes
    BY DEF Framer!Bytes
  <2>3. Framer!Reading(Framer!Reading(st, s), <<>>) = Framer!Reading(st, s)
    BY <2>1, <2>2, ReadByte
  <2> QED BY <2>1, <2>3
<1>2. ASSUME NEW u \in Seq(Framer!Bytes), NEW b \in Framer!Bytes, u \in T
      PROVE  Append(u, b) \in T
  <2>1. /\ s \o u \in Seq(Framer!Bytes) /\ Append(u, b) \in Seq(Framer!Bytes)
        /\ s \o Append(u, b) = Append(s \o u, b)
    OBVIOUS
  <2>2. Framer!Reading(st, Append(s \o u, b)) = Framer!Reads(Framer!Reading(st, s \o u), b)
    BY <2>1, ReadByte
  <2>3. Framer!Reading(Framer!Reading(st, s), Append(u, b))
          = Framer!Reads(Framer!Reading(Framer!Reading(st, s), u), b)
    BY ReadByte
  <2> QED BY <1>2, <2>1, <2>2, <2>3
<1> HIDE DEF T
<1>3. t \in T
  BY <1>1, <1>2, ReachesSequences
<1> QED BY <1>3 DEF T

(* A byte read: what the reader is then, case by case.                     *)
LEMMA ReadsCases ==
  ASSUME NEW x \in ReaderState, NEW b \in Framer!Bytes
  PROVE  /\ b = Framer!LF /\ x.cr =>
              Framer!Reads(x, b) = [data |-> x.data, empty |-> x.empty, cr |-> FALSE, out |-> x.out]
         /\ b \in {Framer!LF, Framer!CR} /\ ~(b = Framer!LF /\ x.cr) =>
              Framer!Reads(x, b) =
                IF x.empty /\ x.data > 0
                THEN [data |-> 0, empty |-> TRUE, cr |-> b = Framer!CR, out |-> Append(x.out, x.data)]
                ELSE [data |-> x.data, empty |-> TRUE, cr |-> b = Framer!CR, out |-> x.out]
         /\ b \notin {Framer!LF, Framer!CR} =>
              Framer!Reads(x, b) = [data |-> x.data + (IF b = Framer!Data THEN 1 ELSE 0),
                                    empty |-> FALSE, cr |-> FALSE, out |-> x.out]
<1>1. x = [data |-> x.data, empty |-> x.empty, cr |-> x.cr, out |-> x.out]
  BY DEF ReaderState
<1>2. CASE b = Framer!LF /\ x.cr
  BY <1>1, <1>2 DEF Framer!Reads
<1>3. CASE b \in {Framer!LF, Framer!CR} /\ ~(b = Framer!LF /\ x.cr) /\ x.empty /\ x.data > 0
  BY <1>3 DEF Framer!Reads
<1>4. CASE b \in {Framer!LF, Framer!CR} /\ ~(b = Framer!LF /\ x.cr) /\ ~(x.empty /\ x.data > 0)
  BY <1>4 DEF Framer!Reads
<1>5. CASE b \notin {Framer!LF, Framer!CR}
  BY <1>1, <1>5 DEF Framer!Reads
<1> QED BY <1>2, <1>3, <1>4, <1>5

LEMMA ReadsTyped ==
  ASSUME NEW x \in ReaderState, NEW b \in Framer!Bytes
  PROVE  /\ Framer!Reads(x, b) \in ReaderState
         /\ Framer!Reads(x, b).cr <=> b = Framer!CR
<1> DEFINE y == Framer!Reads(x, b)
<1>1. /\ x.data \in Nat /\ x.empty \in BOOLEAN /\ x.cr \in BOOLEAN /\ x.out \in Seq(Nat)
      /\ Append(x.out, x.data) \in Seq(Nat) /\ (b = Framer!CR) \in BOOLEAN
  BY DEF ReaderState
<1>2. Framer!LF # Framer!CR
  BY DEF Framer!LF, Framer!CR
<1>3. CASE b = Framer!LF /\ x.cr
  <2>1. y = [data |-> x.data, empty |-> x.empty, cr |-> FALSE, out |-> x.out]
    BY <1>3, ReadsCases
  <2> HIDE DEF y
  <2> QED BY <1>1, <1>2, <1>3, <2>1 DEF ReaderState, y
<1>4. CASE b \in {Framer!LF, Framer!CR} /\ ~(b = Framer!LF /\ x.cr)
  <2>1. y = IF x.empty /\ x.data > 0
            THEN [data |-> 0, empty |-> TRUE, cr |-> b = Framer!CR, out |-> Append(x.out, x.data)]
            ELSE [data |-> x.data, empty |-> TRUE, cr |-> b = Framer!CR, out |-> x.out]
    BY <1>4, ReadsCases
  <2> HIDE DEF y
  <2>2. y \in ReaderState
    BY <1>1, <2>1 DEF ReaderState
  <2>3. y.cr <=> b = Framer!CR
    BY <2>1
  <2> QED BY <2>2, <2>3 DEF y
<1>5. CASE b \notin {Framer!LF, Framer!CR}
  <2>1. y = [data |-> x.data + (IF b = Framer!Data THEN 1 ELSE 0), empty |-> FALSE, cr |-> FALSE,
             out |-> x.out]
    BY <1>5, ReadsCases
  <2>2. x.data + (IF b = Framer!Data THEN 1 ELSE 0) \in Nat
    BY <1>1
  <2> HIDE DEF y
  <2> QED BY <1>1, <1>5, <2>1, <2>2 DEF ReaderState, y
<1> QED BY <1>3, <1>4, <1>5

LEMMA ReadTyped ==
  ASSUME NEW st \in ReaderState, NEW s \in Seq(Framer!Bytes)
  PROVE  /\ Framer!Reading(st, s) \in ReaderState
         /\ s # <<>> => (Framer!Reading(st, s).cr <=> EndsInCR(s))
<1> DEFINE Good(u) == /\ Framer!Reading(st, u) \in ReaderState
                      /\ u # <<>> => (Framer!Reading(st, u).cr <=> EndsInCR(u))
           T == {u \in Seq(Framer!Bytes) : Good(u)}
<1>1. <<>> \in T
  <2>1. <<>> \in Seq(Framer!Bytes) /\ Framer!LF \in Framer!Bytes
    BY DEF Framer!Bytes
  <2>2. Framer!Reading(st, <<>>) = st
    BY <2>1, ReadByte
  <2> QED BY <2>1, <2>2
<1>2. ASSUME NEW u \in Seq(Framer!Bytes), NEW b \in Framer!Bytes, u \in T
      PROVE  Append(u, b) \in T
  <2> DEFINE x == Framer!Reading(st, u)
  <2>1. x \in ReaderState
    BY <1>2
  <2>2. Framer!Reading(st, Append(u, b)) = Framer!Reads(x, b)
    BY ReadByte
  <2> HIDE DEF x
  <2>3. Framer!Reads(x, b) \in ReaderState /\ (Framer!Reads(x, b).cr <=> b = Framer!CR)
    BY <2>1, ReadsTyped
  <2>4. /\ Append(u, b) \in Seq(Framer!Bytes) /\ Append(u, b) # <<>>
        /\ Append(u, b)[Len(Append(u, b))] = b
    OBVIOUS
  <2> QED BY <2>2, <2>3, <2>4 DEF EndsInCR
<1> HIDE DEF T
<1>3. s \in T
  BY <1>1, <1>2, ReachesSequences
<1> QED BY <1>3 DEF T

(* Folding, a byte at a time.                                              *)
LEMMA FoldGrows ==
  ASSUME NEW s \in Seq(Framer!Bytes), NEW b \in Framer!Bytes
  PROVE  /\ Framer!Fold(<<>>) = <<>>
         /\ Framer!Fold(Append(s, b)) =
              IF b = Framer!LF /\ EndsInCR(s) THEN Framer!Fold(s)
              ELSE Append(Framer!Fold(s), IF b = Framer!CR THEN Framer!LF ELSE b)
<1> DEFINE v == Append(s, b)
<1>1. /\ v \in Seq(Framer!Bytes) /\ Len(v) \in Nat /\ Len(s) \in Nat /\ Len(v) = Len(s) + 1
      /\ v[Len(v)] = b /\ \A i \in 1..Len(s) : v[i] = s[i]
  OBVIOUS
<1> HIDE DEF v
<1>2. Framer!Fold(<<>>) = <<>>
  <2>1. Len(<<>>) = 0
    OBVIOUS
  <2>2. Framer!Fold(<<>>) = Rounds("fold", <<>>, <<>>, Len(<<>>))
    BY <2>1, LoopsAreRounds
  <2>3. Rounds("fold", <<>>, <<>>, 0) = <<>>
    BY NoRounds
  <2> QED BY <2>1, <2>2, <2>3
<1>3. Rounds("fold", s, <<>>, Len(s)) = Rounds("fold", v, <<>>, Len(s))
  <2>1. ASSUME NEW n \in 1..Len(s), NEW y PROVE Round("fold", s, y, n) = Round("fold", v, y, n)
    <3>1. v[n] = s[n] /\ (n > 1 => v[n - 1] = s[n - 1])
      BY <1>1
    <3> QED BY <3>1 DEF Round, Framer!FoldByte
  <2> QED BY <1>1, <2>1, RoundsAgree
<1>4. Rounds("fold", v, <<>>, Len(v)) = Round("fold", v, Rounds("fold", v, <<>>, Len(s)), Len(v))
  BY <1>1, RoundByRound
<1>5. ASSUME NEW y
      PROVE  Round("fold", v, y, Len(v)) =
               IF b = Framer!LF /\ EndsInCR(s) THEN y
               ELSE Append(y, IF b = Framer!CR THEN Framer!LF ELSE b)
  <2>1. Len(v) > 1 <=> s # <<>>
    BY <1>1
  <2>2. s # <<>> => v[Len(v) - 1] = s[Len(s)]
    <3> SUFFICES ASSUME s # <<>> PROVE v[Len(v) - 1] = s[Len(s)]
      OBVIOUS
    <3>1. Len(v) - 1 = Len(s) /\ Len(s) \in 1..Len(s)
      BY <1>1
    <3> QED BY <1>1, <3>1
  <2>3. Round("fold", v, y, Len(v)) = Framer!FoldByte(v, y, Len(v))
    BY DEF Round
  <2> QED BY <1>1, <2>1, <2>2, <2>3 DEF Framer!FoldByte, EndsInCR
<1>6. /\ Framer!Fold(v) = Rounds("fold", v, <<>>, Len(v))
      /\ Framer!Fold(s) = Rounds("fold", s, <<>>, Len(s))
  BY <1>1, LoopsAreRounds
<1>7. Framer!Fold(v) = IF b = Framer!LF /\ EndsInCR(s) THEN Framer!Fold(s)
                       ELSE Append(Framer!Fold(s), IF b = Framer!CR THEN Framer!LF ELSE b)
  BY <1>3, <1>4, <1>5, <1>6
<1> QED BY <1>2, <1>7 DEF v

(* Two readers that differ at most in having just read a carriage return.  *)
Alike(x, y) == /\ x \in ReaderState /\ y \in ReaderState
               /\ x.data = y.data /\ x.empty = y.empty /\ x.out = y.out

LEMMA ReadAlike ==
  ASSUME NEW x, NEW y, Alike(x, y), NEW b \in Framer!Bytes
  PROVE  /\ b # Framer!LF \/ x.cr = y.cr => Framer!Reads(x, b) = Framer!Reads(y, b)
         /\ ~x.cr => Alike(Framer!Reads(y, Framer!CR), Framer!Reads(x, Framer!LF))
         /\ y.cr => Alike(Framer!Reads(y, Framer!LF), x)
<1>1. x \in ReaderState /\ y \in ReaderState /\ x.data = y.data /\ x.empty = y.empty /\ x.out = y.out
  BY DEF Alike
<1>2. Framer!LF # Framer!CR /\ Framer!LF \in Framer!Bytes /\ Framer!CR \in Framer!Bytes
  BY DEF Framer!LF, Framer!CR, Framer!Bytes
<1>3. ASSUME b # Framer!LF \/ x.cr = y.cr PROVE Framer!Reads(x, b) = Framer!Reads(y, b)
  <2>1. CASE b = Framer!LF /\ x.cr
    <3>1. Framer!Reads(x, b) = [data |-> x.data, empty |-> x.empty, cr |-> FALSE, out |-> x.out]
      BY <1>1, <2>1, ReadsCases
    <3>2. Framer!Reads(y, b) = [data |-> y.data, empty |-> y.empty, cr |-> FALSE, out |-> y.out]
      BY <1>1, <1>3, <2>1, ReadsCases
    <3> QED BY <1>1, <3>1, <3>2, Zenon
  <2>2. CASE b \in {Framer!LF, Framer!CR} /\ ~(b = Framer!LF /\ x.cr)
    <3>1. ~(b = Framer!LF /\ y.cr)
      BY <1>3, <2>2
    <3>2. Framer!Reads(x, b) =
            IF x.empty /\ x.data > 0
            THEN [data |-> 0, empty |-> TRUE, cr |-> b = Framer!CR, out |-> Append(x.out, x.data)]
            ELSE [data |-> x.data, empty |-> TRUE, cr |-> b = Framer!CR, out |-> x.out]
      BY <1>1, <2>2, ReadsCases, Zenon
    <3>3. Framer!Reads(y, b) =
            IF y.empty /\ y.data > 0
            THEN [data |-> 0, empty |-> TRUE, cr |-> b = Framer!CR, out |-> Append(y.out, y.data)]
            ELSE [data |-> y.data, empty |-> TRUE, cr |-> b = Framer!CR, out |-> y.out]
      BY <1>1, <2>2, <3>1, ReadsCases, Zenon
    <3>4. CASE x.empty /\ x.data > 0
      <4>1. y.empty /\ y.data > 0
        BY <1>1, <3>4, Zenon
      <4> QED BY <1>1, <3>2, <3>3, <3>4, <4>1, Zenon
    <3>5. CASE ~(x.empty /\ x.data > 0)
      <4>1. ~(y.empty /\ y.data > 0)
        BY <1>1, <3>5, Zenon
      <4> QED BY <1>1, <3>2, <3>3, <3>5, <4>1, Zenon
    <3> QED BY <3>4, <3>5
  <2>3. CASE b \notin {Framer!LF, Framer!CR}
    <3>1. Framer!Reads(x, b) = [data |-> x.data + (IF b = Framer!Data THEN 1 ELSE 0),
                                empty |-> FALSE, cr |-> FALSE, out |-> x.out]
      BY <1>1, <2>3, ReadsCases, Zenon
    <3>2. Framer!Reads(y, b) = [data |-> y.data + (IF b = Framer!Data THEN 1 ELSE 0),
                                empty |-> FALSE, cr |-> FALSE, out |-> y.out]
      BY <1>1, <2>3, ReadsCases, Zenon
    <3> QED BY <1>1, <3>1, <3>2
  <2> QED BY <2>1, <2>2, <2>3
<1>4. ASSUME ~x.cr PROVE Alike(Framer!Reads(y, Framer!CR), Framer!Reads(x, Framer!LF))
  <2> DEFINE v == Framer!Reads(y, Framer!CR)
             w == Framer!Reads(x, Framer!LF)
  <2>1. v \in ReaderState /\ w \in ReaderState
    BY <1>1, <1>2, ReadsTyped
  <2>2. v = IF y.empty /\ y.data > 0
            THEN [data |-> 0, empty |-> TRUE, cr |-> Framer!CR = Framer!CR, out |-> Append(y.out, y.data)]
            ELSE [data |-> y.data, empty |-> TRUE, cr |-> Framer!CR = Framer!CR, out |-> y.out]
    BY <1>1, <1>2, ReadsCases
  <2>3. w = IF x.empty /\ x.data > 0
            THEN [data |-> 0, empty |-> TRUE, cr |-> Framer!LF = Framer!CR, out |-> Append(x.out, x.data)]
            ELSE [data |-> x.data, empty |-> TRUE, cr |-> Framer!LF = Framer!CR, out |-> x.out]
    BY <1>1, <1>2, <1>4, ReadsCases
  <2> HIDE DEF v, w
  <2>4. v.data = w.data /\ v.empty = w.empty /\ v.out = w.out
    <3>1. CASE x.empty /\ x.data > 0
      BY <1>1, <2>2, <2>3, <3>1
    <3>2. CASE ~(x.empty /\ x.data > 0)
      BY <1>1, <2>2, <2>3, <3>2
    <3> QED BY <3>1, <3>2
  <2> QED BY <2>1, <2>4 DEF Alike, v, w
<1>5. ASSUME y.cr PROVE Alike(Framer!Reads(y, Framer!LF), x)
  <2>1. Framer!Reads(y, Framer!LF) \in ReaderState
    BY <1>1, <1>2, ReadsTyped
  <2>2. Framer!Reads(y, Framer!LF) = [data |-> y.data, empty |-> y.empty, cr |-> FALSE, out |-> y.out]
    BY <1>1, <1>2, <1>5, ReadsCases
  <2> QED BY <1>1, <2>1, <2>2 DEF Alike
<1> QED BY <1>3, <1>4, <1>5

(* What is read of a text, and of the same with its line endings folded.   *)
Folded(st, s) == /\ Framer!Fold(s) \in Seq(Plain)
                 /\ Alike(Framer!Reading(st, Framer!Fold(s)), Framer!Reading(st, s))
                 /\ ~Framer!Reading(st, Framer!Fold(s)).cr

LEMMA FoldReads ==
  ASSUME NEW st \in ReaderState, ~st.cr, NEW s \in Seq(Framer!Bytes)
  PROVE  Folded(st, s)
<1> DEFINE T == {u \in Seq(Framer!Bytes) : Folded(st, u)}
<1>0. /\ Framer!LF # Framer!CR /\ Framer!LF \in Framer!Bytes /\ Framer!CR \in Framer!Bytes
      /\ Framer!LF \in Plain /\ Plain \subseteq Framer!Bytes /\ Framer!CR \notin Plain
  BY DEF Framer!LF, Framer!CR, Framer!Bytes, Plain
<1>1. <<>> \in T
  <2>1. <<>> \in Seq(Framer!Bytes) /\ <<>> \in Seq(Plain)
    OBVIOUS
  <2>2. Framer!Reading(st, <<>>) = st /\ Framer!Fold(<<>>) = <<>>
    BY <1>0, <2>1, ReadByte, FoldGrows
  <2> QED BY <2>1, <2>2 DEF Folded, Alike
<1>2. ASSUME NEW u \in Seq(Framer!Bytes), NEW b \in Framer!Bytes, u \in T
      PROVE  Append(u, b) \in T
  <2> DEFINE v == Append(u, b)
             F == Framer!Fold(u)
             x == Framer!Reading(st, F)
             y == Framer!Reading(st, u)
  <2>1. /\ F \in Seq(Plain) /\ Alike(x, y) /\ ~x.cr
        /\ v \in Seq(Framer!Bytes) /\ Framer!Reading(st, v) = Framer!Reads(y, b)
    BY <1>2, ReadByte DEF Folded
  <2>2. F \in Seq(Framer!Bytes)
    BY <1>0, <2>1
  <2>3. y.cr <=> EndsInCR(u)
    <3>1. CASE u = <<>>
      <4>1. y = st
        BY <1>0, <3>1, ReadByte
      <4> QED BY <3>1, <4>1 DEF EndsInCR
    <3>2. CASE u # <<>>
      BY <3>2, ReadTyped
    <3> QED BY <3>1, <3>2
  <2>4. Framer!Fold(v) = IF b = Framer!LF /\ EndsInCR(u) THEN F
                         ELSE Append(F, IF b = Framer!CR THEN Framer!LF ELSE b)
    BY FoldGrows
  <2>5. \A d \in Framer!Bytes : Framer!Reading(st, Append(F, d)) = Framer!Reads(x, d)
    BY <2>2, ReadByte
  <2>6. \A d \in Framer!Bytes : Framer!Reads(x, d).cr <=> d = Framer!CR
    BY <2>1, ReadsTyped DEF Alike
  <2>7. \A d \in Plain : Append(F, d) \in Seq(Plain)
    BY <2>1
  <2> HIDE DEF v, F, x, y
  <2>8. CASE b = Framer!LF /\ EndsInCR(u)
    <3>1. Framer!Fold(v) = F
      BY <2>4, <2>8
    <3>2. Alike(Framer!Reads(y, b), x)
      BY <1>0, <2>1, <2>3, <2>8, ReadAlike
    <3>3. Alike(x, Framer!Reads(y, b))
      BY <3>2 DEF Alike
    <3> QED BY <2>1, <3>1, <3>3 DEF Folded, v, x
  <2>9. CASE b = Framer!CR
    <3>1. Framer!Fold(v) = Append(F, Framer!LF)
      BY <1>0, <2>4, <2>9
    <3>2. Alike(Framer!Reads(y, Framer!CR), Framer!Reads(x, Framer!LF))
      BY <1>0, <2>1, ReadAlike
    <3>3. Alike(Framer!Reads(x, Framer!LF), Framer!Reads(y, b))
      BY <2>9, <3>2 DEF Alike
    <3> QED BY <1>0, <2>1, <2>5, <2>6, <2>7, <3>1, <3>3 DEF Folded, v
  <2>10. CASE b # Framer!CR /\ ~(b = Framer!LF /\ EndsInCR(u))
    <3>1. Framer!Fold(v) = Append(F, b)
      BY <2>4, <2>10
    <3>2. b # Framer!LF \/ x.cr = y.cr
      BY <2>1, <2>3, <2>10 DEF Alike, ReaderState
    <3>3. Framer!Reads(x, b) = Framer!Reads(y, b)
      BY <2>1, <3>2, ReadAlike
    <3>4. Framer!Reads(y, b) \in ReaderState
      BY <2>1, ReadsTyped DEF Alike
    <3>5. Alike(Framer!Reads(x, b), Framer!Reads(y, b))
      BY <3>3, <3>4 DEF Alike
    <3>6. b \in Plain
      BY <2>10 DEF Plain
    <3> QED BY <2>1, <2>5, <2>6, <2>7, <2>10, <3>1, <3>5, <3>6 DEF Folded, v
  <2> QED BY <2>8, <2>9, <2>10
<1> HIDE DEF T
<1>3. s \in T
  BY <1>1, <1>2, ReachesSequences
<1> QED BY <1>3 DEF T

(* Normalised, a text reads as it did; a carriage return that came last    *)
(* stays, and what is before it reads as it did too.                       *)
LEMMA NormaliseReads ==
  ASSUME NEW st \in ReaderState, ~st.cr, NEW s \in Seq(Framer!Bytes)
  PROVE  /\ Framer!Reading(st, Framer!Normalise(s)) = Framer!Reading(st, s)
         /\ IF EndsInCR(s)
            THEN \E h \in Seq(Plain) :
                   /\ Framer!Normalise(s) = Append(h, Framer!CR)
                   /\ Framer!Reading(st, h).out = Framer!Reading(st, CutShort(s)).out
            ELSE Framer!Normalise(s) \in Seq(Plain)
<1>0. /\ Framer!LF # Framer!CR /\ Framer!LF \in Framer!Bytes /\ Framer!CR \in Framer!Bytes
      /\ Framer!LF \in Plain /\ Plain \subseteq Framer!Bytes /\ Framer!CR \notin Plain
  BY DEF Framer!LF, Framer!CR, Framer!Bytes, Plain
<1>1. CASE EndsInCR(s)
  <2> DEFINE u == CutShort(s)
             h == Framer!Fold(u)
  <2>1. u \in Seq(Framer!Bytes) /\ s = Append(u, Framer!CR)
    BY <1>1, LastByte DEF EndsInCR
  <2>2. h \in Seq(Plain) /\ Alike(Framer!Reading(st, h), Framer!Reading(st, u))
    BY <2>1, FoldReads DEF Folded
  <2> HIDE DEF u
  <2>3. Framer!Fold(s) = Append(h, Framer!LF)
    BY <1>0, <2>1, FoldGrows
  <2> HIDE DEF h
  <2>4. Framer!Front(Framer!Fold(s)) = h
    BY <1>0, <2>2, <2>3, LastByte DEF Framer!Front, CutShort
  <2>5. Framer!Normalise(s) = Append(h, Framer!CR)
    BY <1>1, <2>4 DEF Framer!Normalise, EndsInCR, Framer!Last
  <2>6. h \in Seq(Framer!Bytes)
    BY <1>0, <2>2
  <2>7. /\ Framer!Reading(st, Append(h, Framer!CR)) = Framer!Reads(Framer!Reading(st, h), Framer!CR)
        /\ Framer!Reading(st, s) = Framer!Reads(Framer!Reading(st, u), Framer!CR)
    BY <1>0, <2>1, <2>6, ReadByte
  <2>8. Framer!Reads(Framer!Reading(st, h), Framer!CR) = Framer!Reads(Framer!Reading(st, u), Framer!CR)
    BY <1>0, <2>2, ReadAlike
  <2> QED BY <1>1, <2>2, <2>5, <2>7, <2>8 DEF u, Alike
<1>2. CASE ~EndsInCR(s)
  <2>1. Framer!Normalise(s) = Framer!Fold(s)
    BY <1>2 DEF Framer!Normalise, EndsInCR, Framer!Last
  <2> DEFINE x == Framer!Reading(st, Framer!Fold(s))
             y == Framer!Reading(st, s)
  <2>2. Framer!Fold(s) \in Seq(Plain) /\ Alike(x, y) /\ ~x.cr
    BY FoldReads DEF Folded
  <2>3. ~y.cr
    <3>1. CASE s = <<>>
      BY <1>0, <3>1, ReadByte
    <3>2. CASE s # <<>>
      BY <1>2, <3>2, ReadTyped
    <3> QED BY <3>1, <3>2
  <2> HIDE DEF x, y
  <2>4. x = y
    <3>1. x \in ReaderState /\ y \in ReaderState /\ x.data = y.data /\ x.empty = y.empty /\ x.out = y.out
      BY <2>2 DEF Alike
    <3>2. x.cr = FALSE /\ y.cr = FALSE
      BY <2>2, <2>3, <3>1 DEF ReaderState
    <3>3. \A z \in ReaderState : z = [data |-> z.data, empty |-> z.empty, cr |-> z.cr, out |-> z.out]
      BY DEF ReaderState
    <3> QED BY <3>1, <3>2, <3>3
  <2> QED BY <1>2, <2>1, <2>2, <2>4 DEF x, y
<1> QED BY <1>1, <1>2
(* Blocks.  A text without two line feeds in a row has no block complete.  *)
LEMMA PlainBytes ==
  /\ Framer!LF # Framer!CR /\ Framer!LF # Framer!Data /\ Framer!LF \in Framer!Bytes
  /\ Framer!CR \in Framer!Bytes /\ Framer!CR \notin Plain /\ Framer!LF \in Plain
  /\ Plain \subseteq Framer!Bytes /\ Seq(Plain) \subseteq Seq(Framer!Bytes)
<1>1. /\ Framer!LF # Framer!CR /\ Framer!LF # Framer!Data /\ Framer!LF \in Framer!Bytes
      /\ Framer!CR \in Framer!Bytes /\ Framer!CR \notin Plain /\ Framer!LF \in Plain
      /\ Plain \subseteq Framer!Bytes
  BY DEF Framer!LF, Framer!CR, Framer!Data, Framer!Bytes, Plain
<1> QED BY <1>1

LEMMA AppendedOn ==
  ASSUME NEW S, NEW s \in Seq(S), NEW t \in Seq(S), NEW b \in S
  PROVE  s \o Append(t, b) = Append(s \o t, b) /\ Append(t, b) \in Seq(S)
OBVIOUS

LEMMA LastOfTwo ==
  ASSUME NEW S, NEW s \in Seq(S), NEW t \in Seq(S)
  PROVE  t # <<>> => s \o t # <<>> /\ (s \o t)[Len(s \o t)] = t[Len(t)]
<1>1. ASSUME t # <<>> PROVE s \o t # <<>> /\ (s \o t)[Len(s \o t)] = t[Len(t)]
  <2> DEFINE u == s \o t
  <2>1. Len(t) \in Nat /\ Len(s) \in Nat /\ Len(t) # 0
    BY <1>1
  <2>2. /\ u \in Seq(S) /\ Len(u) = Len(s) + Len(t)
        /\ \A i \in 1..(Len(s) + Len(t)) : u[i] = IF i <= Len(s) THEN s[i] ELSE t[i - Len(s)]
    BY ONLY s \in Seq(S), t \in Seq(S), ConcatProperties
  <2> HIDE DEF u
  <2>3. /\ Len(u) \in 1..(Len(s) + Len(t)) /\ ~(Len(u) <= Len(s)) /\ Len(u) - Len(s) = Len(t)
        /\ Len(u) # 0
    BY <2>1, <2>2
  <2>4. u[Len(u)] = t[Len(t)]
    BY <2>2, <2>3
  <2>5. u # <<>>
    BY <2>3
  <2> QED BY <2>4, <2>5 DEF u
<1> QED BY <1>1

LEMMA DataGrows ==
  ASSUME NEW s \in Seq(Framer!Bytes), NEW b \in Framer!Bytes
  PROVE  /\ Framer!DataOf(<<>>) = 0 /\ Framer!DataOf(s) \in Nat
         /\ Framer!DataOf(Append(s, b)) = Framer!DataOf(s) + (IF b = Framer!Data THEN 1 ELSE 0)
<1> DEFINE D(t) == {i \in DOMAIN t : t[i] = Framer!Data}
<1>1. ASSUME NEW t PROVE Framer!DataOf(t) = Cardinality(D(t))
  BY FramerCount DEF Framer!DataOf
<1>2. IsFiniteSet(D(s)) /\ D(s) \subseteq 1..Len(s) /\ Len(s) \in Nat
  <2>1. D(s) \subseteq 1..Len(s) /\ Len(s) \in Nat
    OBVIOUS
  <2>2. IsFiniteSet(1..Len(s))
    BY <2>1, FS_Interval
  <2> QED BY <2>1, <2>2, FS_Subset
<1>3. Cardinality(D(s)) \in Nat
  BY <1>2, FS_CardinalityType
<1>4. D(<<>>) = {}
  OBVIOUS
<1>5. D(Append(s, b)) = IF b = Framer!Data THEN D(s) \cup {Len(s) + 1} ELSE D(s)
  <2> DEFINE v == Append(s, b)
  <2>1. /\ DOMAIN v = 1..(Len(s) + 1) /\ DOMAIN s = 1..Len(s) /\ Len(s) \in Nat
        /\ v[Len(s) + 1] = b /\ \A i \in 1..Len(s) : v[i] = s[i]
    OBVIOUS
  <2> HIDE DEF v
  <2>2. D(v) = IF b = Framer!Data THEN D(s) \cup {Len(s) + 1} ELSE D(s)
    BY <2>1
  <2> QED BY <2>2 DEF v
<1>6. Len(s) + 1 \notin D(s)
  BY <1>2
<1> HIDE DEF D
<1>7. Cardinality(D(s) \cup {Len(s) + 1}) = Cardinality(D(s)) + 1
  BY <1>2, <1>6, FS_AddElement
<1>8. Cardinality(D(<<>>)) = 0
  BY <1>4, FS_EmptySet
<1>9. Cardinality(D(Append(s, b))) = Cardinality(D(s)) + (IF b = Framer!Data THEN 1 ELSE 0)
  BY <1>3, <1>5, <1>7
<1> QED BY <1>1, <1>3, <1>8, <1>9

LEMMA BlankGrows ==
  ASSUME NEW s \in Seq(Framer!Bytes), NEW b \in Framer!Bytes
  PROVE  /\ Framer!Blank(s) \subseteq Framer!Blank(Append(s, b))
         /\ Framer!Blank(Append(s, b)) = {} => ~(b = Framer!LF /\ s # <<>> /\ s[Len(s)] = Framer!LF)
<1> DEFINE v == Append(s, b)
<1>1. /\ Len(v) = Len(s) + 1 /\ Len(s) \in Nat /\ v[Len(s) + 1] = b
      /\ \A i \in 1..Len(s) : v[i] = s[i]
  OBVIOUS
<1>2. s # <<>> => Len(s) \in 1..Len(s)
  OBVIOUS
<1> HIDE DEF v
<1>3. Framer!Blank(s) \subseteq Framer!Blank(v)
  BY <1>1 DEF Framer!Blank
<1>4. b = Framer!LF /\ s # <<>> /\ s[Len(s)] = Framer!LF => Len(s) \in Framer!Blank(v)
  BY <1>1, <1>2 DEF Framer!Blank
<1> QED BY <1>3, <1>4 DEF v

(* Read from where an event ended, such a text hands nothing on.           *)
EndsInLF(s) == s # <<>> /\ s[Len(s)] = Framer!LF
Waiting(o, s, x) == /\ x \in ReaderState /\ ~x.cr /\ x.out = o /\ x.data = Framer!DataOf(s)
                    /\ x.empty <=> s = <<>> \/ EndsInLF(s)

LEMMA BlockReads ==
  ASSUME NEW o \in Seq(Nat), NEW s \in Seq(Plain), Framer!Blank(s) = {}
  PROVE  Waiting(o, s, Framer!Reading(Framer!After(o), s))
<1> DEFINE Good(u) == Framer!Blank(u) = {} => Waiting(o, u, Framer!Reading(Framer!After(o), u))
           T == {u \in Seq(Plain) : Good(u)}
<1>1. <<>> \in T
  <2>1. <<>> \in Seq(Framer!Bytes) /\ <<>> \in Seq(Plain)
    OBVIOUS
  <2>2. Framer!Reading(Framer!After(o), <<>>) = Framer!After(o) /\ Framer!DataOf(<<>>) = 0
    BY <2>1, PlainBytes, ReadByte, DataGrows
  <2>3. Framer!After(o) \in ReaderState
    BY DEF Framer!After, ReaderState
  <2>4. /\ Framer!After(o).data = 0 /\ Framer!After(o).empty = TRUE
        /\ Framer!After(o).cr = FALSE /\ Framer!After(o).out = o
    BY DEF Framer!After
  <2> QED BY <2>1, <2>2, <2>3, <2>4 DEF Waiting
<1>2. ASSUME NEW u \in Seq(Plain), NEW b \in Plain, u \in T
      PROVE  Append(u, b) \in T
  <2> DEFINE v == Append(u, b)
             x == Framer!Reading(Framer!After(o), u)
             y == Framer!Reading(Framer!After(o), v)
  <2>1. /\ u \in Seq(Framer!Bytes) /\ b \in Framer!Bytes /\ v \in Seq(Plain) /\ v # <<>>
        /\ v[Len(v)] = b
    <3>1. u \in Seq(Framer!Bytes) /\ b \in Framer!Bytes
      BY PlainBytes
    <3> QED BY <3>1, SMTT(30)
  <2>2. y = Framer!Reads(x, b) /\ Framer!DataOf(u) \in Nat
        /\ Framer!DataOf(v) = Framer!DataOf(u) + (IF b = Framer!Data THEN 1 ELSE 0)
    BY <2>1, ReadByte, DataGrows
  <2>3. Framer!Blank(v) = {} => Framer!Blank(u) = {} /\ ~(b = Framer!LF /\ EndsInLF(u))
    BY <2>1, BlankGrows DEF EndsInLF
  <2> SUFFICES ASSUME Framer!Blank(v) = {} PROVE Waiting(o, v, y)
    BY <2>1
  <2>4. Waiting(o, u, x)
    BY <1>2, <2>3
  <2>5. EndsInLF(v) <=> b = Framer!LF
    BY <2>1 DEF EndsInLF
  <2>6. y \in ReaderState /\ (y.cr <=> b = Framer!CR)
    BY <2>1, <2>2, <2>4, ReadsTyped DEF Waiting
  <2>7. b # Framer!CR
    BY PlainBytes
  <2>8. u = <<>> => Framer!DataOf(u) = 0
    BY <2>1, DataGrows
  <2> HIDE DEF v, x, y
  <2>9. CASE b = Framer!LF
    <3>1. ~(x.empty /\ x.data > 0)
      BY <2>3, <2>4, <2>8, <2>9 DEF Waiting
    <3>2. y = [data |-> x.data, empty |-> TRUE, cr |-> b = Framer!CR, out |-> x.out]
      BY <2>1, <2>2, <2>4, <2>9, <3>1, ReadsCases DEF Waiting
    <3>3. y.data = x.data /\ y.empty = TRUE /\ y.out = x.out
      BY <3>2
    <3>4. Framer!DataOf(v) = Framer!DataOf(u)
      BY PlainBytes, <2>2, <2>9
    <3> QED BY <2>4, <2>5, <2>6, <2>7, <2>9, <3>3, <3>4 DEF Waiting
  <2>10. CASE b # Framer!LF
    <3>1. y = [data |-> x.data + (IF b = Framer!Data THEN 1 ELSE 0), empty |-> FALSE, cr |-> FALSE, out |-> x.out]
      BY <2>1, <2>2, <2>4, <2>7, <2>10, ReadsCases DEF Waiting
    <3>2. y.data = x.data + (IF b = Framer!Data THEN 1 ELSE 0) /\ y.empty = FALSE /\ y.out = x.out
      BY <3>1
    <3> QED BY <2>1, <2>2, <2>4, <2>5, <2>6, <2>7, <2>10, <3>2 DEF Waiting
  <2> QED BY <2>9, <2>10
<1> HIDE DEF T
<1>3. s \in T
  BY <1>1, <1>2, ReachesSequences
<1> QED BY <1>3 DEF T
(* What is left of a text that was normalised: a carriage return comes     *)
(* last or nowhere.                                                        *)
Tidy(s) == s \in Seq(Framer!Bytes) /\ \A i \in 1..(Len(s) - 1) : s[i] # Framer!CR

(* A block in front of the rest of s: read after the events w, it hands on *)
(* its data, if it has any.                                                *)
HandsOn(s, w, block, rest) ==
  /\ block \in Seq(Plain) /\ Tidy(rest) /\ s = block \o rest /\ Len(rest) < Len(s)
  /\ Framer!DataOf(block) \in Nat
  /\ Framer!Reading(Framer!After(w), block)
       = Framer!After(IF Framer!DataOf(block) > 0 THEN Append(w, Framer!DataOf(block)) ELSE w)

(* The first block taken off is such a block.                              *)
LEMMA FirstBlock ==
  ASSUME NEW s, Tidy(s), Framer!Blank(s) # {}, NEW w \in Seq(Nat),
         NEW end, end = Framer!FirstBlank(s) + 1,
         NEW block, block = SubSeq(s, 1, end), NEW rest, rest = SubSeq(s, end + 1, Len(s))
  PROVE  HandsOn(s, w, block, rest)
<1> DEFINE e == Framer!FirstBlank(s)
           body == SubSeq(s, 1, e)
<1>1. s \in Seq(Framer!Bytes) /\ Len(s) \in Nat /\ \A i \in 1..(Len(s) - 1) : s[i] # Framer!CR
  BY DEF Tidy
<1>2. /\ e \in Framer!Blank(s) /\ \A j \in Framer!Blank(s) : e <= j
  <2>1. Framer!Blank(s) \in SUBSET Nat
    BY <1>1 DEF Framer!Blank
  <2>2. \E i \in Framer!Blank(s) : \A j \in Framer!Blank(s) : i <= j
    BY <2>1, LeastNatural
  <2> QED BY <2>2 DEF Framer!FirstBlank
<1> HIDE DEF e
<1>3. /\ e \in Nat /\ e >= 1 /\ end = e + 1 /\ end <= Len(s) /\ s[e] = Framer!LF /\ s[end] = Framer!LF
  BY <1>1, <1>2 DEF Framer!Blank, e
<1>4. \A i \in 1..end : s[i] \in Plain
  <2> TAKE i \in 1..end
  <2>1. s[i] \in Framer!Bytes
    BY <1>1, <1>3
  <2>2. CASE i = end
    BY <1>3, <2>2, PlainBytes
  <2>3. CASE i # end
    <3>1. i \in 1..(Len(s) - 1)
      BY <1>1, <1>3, <2>3
    <3> QED BY <1>1, <2>1, <3>1 DEF Plain
  <2> QED BY <2>2, <2>3
<1>5. /\ block \in Seq(Plain) /\ body \in Seq(Plain) /\ Len(body) = e /\ \A i \in 1..e : body[i] = s[i]
  <2>1. \A n \in {e, end} : n \in Nat /\ n <= Len(s) /\ \A i \in 1..n : s[i] \in Plain
    BY <1>1, <1>3, <1>4
  <2>2. \A n \in {e, end} : /\ SubSeq(s, 1, n) = [i \in 1..n |-> s[i]]
                            /\ Len(SubSeq(s, 1, n)) = n /\ SubSeq(s, 1, n) \in Seq(Plain)
                            /\ \A i \in 1..n : SubSeq(s, 1, n)[i] = s[i]
    <3> TAKE n \in {e, end}
    <3>1. n \in Nat /\ n <= Len(s) /\ \A i \in 1..n : s[i] \in Plain
      BY <2>1
    <3>2. SubSeq(s, 1, n) = [i \in 1..n |-> s[i]]
      BY <1>1, <3>1
    <3> QED BY <3>1, <3>2
  <2> QED BY <1>3, <2>2
<1>6. block = Append(body, Framer!LF)
  BY <1>1, <1>3, Prefixes
<1> HIDE DEF body
<1>19. PICK m \in Nat : m = Len(s)
  BY <1>1
<1>20. m \in Nat /\ end \in 1..m
  BY <1>3, <1>19
<1>7. /\ rest \in Seq(Framer!Bytes) /\ \A i \in 1..(m - end) : rest[i] = s[end + i]
      /\ Len(rest) = m - end
  <2>1. PICK k \in Int : k = end + 1
    BY <1>20
  <2>2. /\ m \in Int /\ m - k + 1 = m - end /\ (IF k <= m THEN m - k + 1 ELSE 0) = m - end
        /\ \A i \in k..m : i \in 1..m
    BY <1>20, <2>1
  <2>3. \A i \in Int : k + i - 1 = end + i
    BY <1>20, <2>1
  <2>4. m \in Int /\ \A i \in k..m : s[i] \in Framer!Bytes
    BY <1>1, <1>19, <2>2
  <2>5. /\ SubSeq(s, k, m) \in Seq(Framer!Bytes)
        /\ Len(SubSeq(s, k, m)) = IF k <= m THEN m - k + 1 ELSE 0
        /\ \A i \in 1..(m - k + 1) : SubSeq(s, k, m)[i] = s[k + i - 1]
    BY ONLY k \in Int, <2>4, SubSeqProperties
  <2>6. rest = SubSeq(s, k, m)
    BY <1>19, <2>1
  <2>7. ASSUME NEW i \in 1..(m - end) PROVE rest[i] = s[end + i]
    <3>1. i \in 1..(m - k + 1) /\ i \in Int
      BY <2>2
    <3> QED BY <2>3, <2>5, <2>6, <3>1
  <2> QED BY <2>2, <2>5, <2>6, <2>7
<1>17. Len(rest) < Len(s)
  BY <1>7, <1>19, <1>20
<1>18. s = block \o rest
  <2>1. /\ block \in Seq(Framer!Bytes) /\ Len(block) = end /\ \A i \in 1..end : block[i] = s[i]
    BY <1>1, <1>3
  <2> DEFINE c == block \o rest
  <2>2. /\ c \in Seq(Framer!Bytes) /\ Len(c) = end + (m - end)
        /\ \A i \in 1..(end + (m - end)) : c[i] = IF i <= end THEN block[i] ELSE rest[i - end]
    <3>1. block \in Seq(Framer!Bytes) /\ rest \in Seq(Framer!Bytes)
      BY <1>7, <2>1
    <3>2. /\ c \in Seq(Framer!Bytes) /\ Len(c) = Len(block) + Len(rest)
          /\ \A i \in 1..(Len(block) + Len(rest)) :
               c[i] = IF i <= Len(block) THEN block[i] ELSE rest[i - Len(block)]
      BY ONLY <3>1, ConcatProperties
    <3>3. Len(block) = end /\ Len(rest) = m - end
      BY <1>7, <2>1
    <3> HIDE DEF c
    <3> QED BY <3>2, <3>3
  <2>3. end + (m - end) = m
    BY <1>20
  <2> HIDE DEF c
  <2>4. ASSUME NEW i \in 1..m PROVE s[i] = c[i]
    <3>1. CASE i <= end
      <4>1. i \in 1..end
        BY <1>20, <2>4, <3>1
      <4> QED BY <2>1, <2>2, <2>3, <2>4, <3>1, <4>1
    <3>2. CASE ~(i <= end)
      <4>1. i - end \in 1..(m - end) /\ end + (i - end) = i
        BY <1>20, <2>4, <3>2
      <4> QED BY <1>7, <2>2, <2>3, <2>4, <3>2, <4>1
    <3> QED BY <3>1, <3>2
  <2>5. Len(c) = Len(s) /\ c \in Seq(Framer!Bytes) /\ \A i \in 1..Len(s) : s[i] = c[i]
    BY <1>19, <2>2, <2>3, <2>4
  <2>6. s = c
    BY ONLY <1>1, <2>5, SeqEqual
  <2> QED BY <2>6 DEF c
<1>8. Tidy(rest)
  <2>1. ASSUME NEW i \in 1..(Len(rest) - 1) PROVE rest[i] # Framer!CR
    <3>1. i \in 1..(m - end - 1)
      BY <1>7, <2>1
    <3>2. i \in 1..(m - end) /\ end + i \in 1..(m - 1)
      BY ONLY <1>20, <3>1
    <3> QED BY <1>1, <1>7, <1>19, <3>2
  <2> QED BY <1>7, <2>1 DEF Tidy
<1>9. Framer!Blank(body) = {}
  <2> SUFFICES ASSUME NEW i \in Framer!Blank(body) PROVE FALSE
    OBVIOUS
  <2>1. i \in 1..(e - 1) /\ body[i] = Framer!LF /\ body[i + 1] = Framer!LF
    BY <1>5 DEF Framer!Blank
  <2>2. i \in 1..e /\ i + 1 \in 1..e /\ i \in 1..(Len(s) - 1) /\ i < e
    BY <1>1, <1>3, <2>1
  <2>3. i \in Framer!Blank(s)
    BY <1>5, <2>1, <2>2 DEF Framer!Blank
  <2> QED BY <1>2, <1>3, <2>2, <2>3
<1> DEFINE x == Framer!Reading(Framer!After(w), body)
<1>10. Waiting(w, body, x)
  BY <1>5, <1>9, BlockReads
<1>11. body # <<>> /\ EndsInLF(body)
  <2>1. Len(body) = e /\ e \in 1..e /\ body[e] = s[e]
    BY <1>3, <1>5
  <2> QED BY <1>3, <2>1 DEF EndsInLF
<1> HIDE DEF x
<1>12. /\ x \in ReaderState /\ ~x.cr /\ x.out = w /\ x.data = Framer!DataOf(body) /\ x.empty
  BY <1>10, <1>11 DEF Waiting
<1>13. /\ body \in Seq(Framer!Bytes) /\ Framer!LF \in Framer!Bytes
  BY <1>5, PlainBytes
<1>14. /\ Framer!Reading(Framer!After(w), block) = Framer!Reads(x, Framer!LF)
       /\ Framer!DataOf(block) = Framer!DataOf(body) /\ Framer!DataOf(body) \in Nat
  <2>1. Framer!Reading(Framer!After(w), block) = Framer!Reads(x, Framer!LF)
    <3>1. Framer!Reading(Framer!After(w), Append(body, Framer!LF))
            = Framer!Reads(Framer!Reading(Framer!After(w), body), Framer!LF)
      BY <1>13, ReadByte
    <3> QED BY <1>6, <3>1, Zenon DEF x
  <2>2. /\ Framer!DataOf(body) \in Nat
        /\ Framer!DataOf(block) = Framer!DataOf(body) + (IF Framer!LF = Framer!Data THEN 1 ELSE 0)
    BY <1>6, <1>13, DataGrows
  <2> QED BY <2>1, <2>2, PlainBytes
<1>15. Framer!Reads(x, Framer!LF) =
         IF x.empty /\ x.data > 0
         THEN [data |-> 0, empty |-> TRUE, cr |-> Framer!LF = Framer!CR, out |-> Append(x.out, x.data)]
         ELSE [data |-> x.data, empty |-> TRUE, cr |-> Framer!LF = Framer!CR, out |-> x.out]
  BY <1>12, <1>13, ReadsCases
<1>16. (Framer!LF = Framer!CR) = FALSE
  BY PlainBytes
<1>21. Framer!Reads(x, Framer!LF)
         = Framer!After(IF Framer!DataOf(block) > 0 THEN Append(w, Framer!DataOf(block)) ELSE w)
  <2>1. CASE Framer!DataOf(block) > 0
    BY <1>12, <1>14, <1>15, <1>16, <2>1 DEF Framer!After
  <2>2. CASE ~(Framer!DataOf(block) > 0)
    <3>1. x.data = 0
      BY <1>12, <1>14, <2>2
    <3> QED BY <1>12, <1>14, <1>15, <1>16, <2>2, <3>1 DEF Framer!After
  <2> QED BY <2>1, <2>2
<1> QED BY <1>5, <1>8, <1>14, <1>17, <1>18, <1>21 DEF HandsOn
(* The loop that takes them off: what it took, p, was read to its events.  *)
Taken(s, o, x) ==
  /\ Tidy(x.rest) /\ x.out \in Seq(Nat)
  /\ \E p \in Seq(Plain) : s = p \o x.rest /\ Framer!Reading(Framer!After(o), p) = Framer!After(o \o x.out)

LEMMA TakesBlock ==
  ASSUME NEW s, NEW o \in Seq(Nat), NEW x, Taken(s, o, x), NEW z, z = Framer!TakeBlock(x)
  PROVE  /\ Taken(s, o, z)
         /\ IF Framer!Blank(x.rest) = {} THEN z = x ELSE Len(z.rest) < Len(x.rest)
<1>1. Tidy(x.rest) /\ x.out \in Seq(Nat) /\ x.rest \in Seq(Framer!Bytes)
  BY DEF Taken, Tidy
<1>2. CASE Framer!Blank(x.rest) = {}
  <2>1. z = x
    BY <1>2 DEF Framer!TakeBlock
  <2> QED BY <1>2, <2>1
<1>3. CASE Framer!Blank(x.rest) # {}
  <2>1. PICK p \in Seq(Plain) : /\ s = p \o x.rest
                                /\ Framer!Reading(Framer!After(o), p) = Framer!After(o \o x.out)
    BY DEF Taken
  <2> DEFINE e == Framer!FirstBlank(x.rest) + 1
             block == SubSeq(x.rest, 1, e)
             rest == SubSeq(x.rest, e + 1, Len(x.rest))
             d == Framer!DataOf(block)
             out == IF d > 0 THEN Append(x.out, d) ELSE x.out
             w == o \o x.out
  <2>2. z.rest = rest /\ z.out = out
    BY <1>3 DEF Framer!TakeBlock
  <2>3. w \in Seq(Nat)
    BY <1>1
  <2> HIDE DEF w
  <2>4. /\ block \in Seq(Plain) /\ Tidy(rest) /\ x.rest = block \o rest /\ Len(rest) < Len(x.rest)
        /\ d \in Nat
        /\ Framer!Reading(Framer!After(w), block) = Framer!After(IF d > 0 THEN Append(w, d) ELSE w)
    <3>1. HandsOn(x.rest, w, block, rest)
      BY ONLY <1>1, <1>3, <2>3, FirstBlock
    <3> HIDE DEF e, block, rest, d
    <3> QED BY ONLY <3>1 DEF HandsOn, d
  <2> HIDE DEF e, block, rest, d
  <2>5. /\ p \in Seq(Framer!Bytes) /\ block \in Seq(Framer!Bytes) /\ rest \in Seq(Framer!Bytes)
    BY <2>4, PlainBytes DEF Tidy
  <2>6. s = (p \o block) \o rest /\ p \o block \in Seq(Plain)
    <3>1. p \o (block \o rest) = (p \o block) \o rest
      BY ONLY <2>5, ConcatAssociative, SMTT(30)
    <3>2. p \o block \in Seq(Plain)
      BY <2>4
    <3> QED BY <2>1, <2>4, <3>1, <3>2
  <2>7. Framer!Reading(Framer!After(o), p \o block) = Framer!Reading(Framer!After(w), block)
    BY <2>1, <2>5, ReadOn DEF w
  <2>8. (IF d > 0 THEN Append(w, d) ELSE w) = o \o out /\ out \in Seq(Nat)
    <3>1. o \o Append(x.out, d) = Append(o \o x.out, d) /\ Append(x.out, d) \in Seq(Nat)
      <4>1. x.out \in Seq(Nat) /\ d \in Nat
        BY <1>1, <2>4
      <4> QED BY ONLY <4>1, o \in Seq(Nat), AppendedOn, Zenon
    <3> QED BY <1>1, <3>1 DEF w
  <2> HIDE DEF out
  <2>9. Taken(s, o, z)
    <3>1. Framer!Reading(Framer!After(o), p \o block) = Framer!After(o \o z.out)
      BY <2>2, <2>4, <2>7, <2>8
    <3>2. s = (p \o block) \o z.rest
      BY <2>2, <2>6
    <3> QED BY <2>2, <2>4, <2>6, <2>8, <3>1, <3>2 DEF Taken
  <2> QED BY <1>3, <2>2, <2>4, <2>9
<1> QED BY <1>2, <1>3

LEMMA TakeTakes ==
  ASSUME NEW s, Tidy(s), NEW o \in Seq(Nat)
  PROVE  Taken(s, o, Framer!Take(s)) /\ Framer!Blank(Framer!Take(s).rest) = {}
<1> DEFINE start == [rest |-> s, out |-> <<>>]
           R(n) == Rounds("take", s, start, n)
           T == {n \in Nat : /\ Taken(s, o, R(n))
                             /\ Framer!Blank(R(n).rest) = {} \/ Len(R(n).rest) + n <= Len(s)}
<1>1. s \in Seq(Framer!Bytes) /\ Len(s) \in Nat
  BY DEF Tidy
<1>2. start.rest = s /\ start.out = <<>>
  OBVIOUS
<1> HIDE DEF start
<1>3. 0 \in T
  <2>1. R(0) = start
    BY NoRounds
  <2>2. <<>> \in Seq(Framer!Bytes) /\ <<>> \in Seq(Plain) /\ <<>> \in Seq(Nat) /\ o \o <<>> = o /\ <<>> \o s = s
    BY <1>1
  <2>3. Framer!Reading(Framer!After(o), <<>>) = Framer!After(o)
    BY <2>2, ReadByte, PlainBytes
  <2>4. Taken(s, o, start)
    BY <1>2, <2>2, <2>3 DEF Taken
  <2> HIDE DEF R
  <2> QED BY <1>1, <1>2, <2>1, <2>4
<1>4. ASSUME NEW i \in Nat, NEW j \in Nat, i \in T, j = i + 1 PROVE j \in T
  <2>1. R(j) = Framer!TakeBlock(R(i))
    <3>1. R(j) = Round("take", s, R(i), j)
      BY <1>4, RoundByRound
    <3> HIDE DEF R
    <3> QED BY <3>1 DEF Round
  <2>2. Taken(s, o, R(i)) /\ (Framer!Blank(R(i).rest) = {} \/ Len(R(i).rest) + i <= Len(s))
    BY <1>4
  <2> HIDE DEF R
  <2>3. /\ Taken(s, o, R(j))
        /\ IF Framer!Blank(R(i).rest) = {} THEN R(j) = R(i) ELSE Len(R(j).rest) < Len(R(i).rest)
    BY <2>1, <2>2, TakesBlock
  <2>4. Framer!Blank(R(j).rest) = {} \/ Len(R(j).rest) + j <= Len(s)
    <3>1. CASE Framer!Blank(R(i).rest) = {}
      BY <2>3, <3>1
    <3>2. CASE Framer!Blank(R(i).rest) # {}
      <4>1. R(i).rest \in Seq(Framer!Bytes) /\ R(j).rest \in Seq(Framer!Bytes)
        BY <2>2, <2>3 DEF Taken, Tidy
      <4>2. PICK m \in Nat : m = Len(R(i).rest)
        BY <4>1
      <4>3. PICK k \in Nat : k = Len(R(j).rest)
        BY <4>1
      <4>4. k < m /\ m + i <= Len(s)
        BY <2>2, <2>3, <3>2, <4>2, <4>3
      <4>5. k + j <= Len(s)
        BY <1>1, <1>4, <4>4
      <4> QED BY <4>3, <4>5
    <3> QED BY <3>1, <3>2
  <2> QED BY <2>3, <2>4
<1> HIDE DEF T
<1>5. Len(s) \in T
  BY <1>1, <1>3, <1>4, ReachesAll
<1>6. Framer!Take(s) = R(Len(s))
  BY <1>1, LoopsAreRounds DEF start
<1> HIDE DEF R
<1>7. /\ Taken(s, o, Framer!Take(s))
      /\ Framer!Blank(Framer!Take(s).rest) = {} \/ Len(Framer!Take(s).rest) + Len(s) <= Len(s)
  BY <1>5, <1>6 DEF T
<1>8. Framer!Blank(Framer!Take(s).rest) = {}
  <2> DEFINE r == Framer!Take(s).rest
  <2>1. Len(r) \in Nat
    BY <1>7 DEF Taken, Tidy
  <2> HIDE DEF r
  <2>2. Len(r) <= 0 => Framer!Blank(r) = {}
    BY <2>1 DEF Framer!Blank
  <2> QED BY <1>1, <1>7, <2>1, <2>2 DEF r
<1> QED BY <1>7, <1>8

(* Once the loop ends, what is left of the text is read on from its events.*)
ReadsOn(s, o, x, w) ==
  /\ Tidy(x.rest) /\ w \in Seq(Nat) /\ Framer!Blank(x.rest) = {}
  /\ Framer!Reading(Framer!After(o), s) = Framer!Reading(Framer!After(w), x.rest)
  /\ EndsInCR(x.rest) => EndsInCR(s)
  /\ EndsInCR(s) => Framer!Reading(Framer!After(o), CutShort(s))
                      = Framer!Reading(Framer!After(w), CutShort(x.rest))

LEMMA TakeReads ==
  ASSUME NEW s, Tidy(s), NEW o \in Seq(Nat), NEW x, x = Framer!Take(s), NEW w, w = o \o x.out
  PROVE  ReadsOn(s, o, x, w)
<1>1. Taken(s, o, x) /\ Framer!Blank(x.rest) = {}
  BY TakeTakes
<1>2. Tidy(x.rest) /\ x.out \in Seq(Nat) /\ x.rest \in Seq(Framer!Bytes) /\ w \in Seq(Nat)
  BY <1>1 DEF Taken, Tidy
<1>3. PICK p \in Seq(Plain) : s = p \o x.rest /\ Framer!Reading(Framer!After(o), p) = Framer!After(w)
  BY <1>1 DEF Taken
<1>4. p \in Seq(Framer!Bytes)
  BY PlainBytes
<1>5. Framer!Reading(Framer!After(o), s) = Framer!Reading(Framer!After(w), x.rest)
  <2>1. \A u \in Seq(Framer!Bytes) :
          Framer!Reading(Framer!After(o), p \o u) = Framer!Reading(Framer!Reading(Framer!After(o), p), u)
    BY <1>4, ReadOn
  <2> QED BY <1>2, <1>3, <2>1
<1>6. EndsInCR(x.rest) => EndsInCR(s)
  <2> SUFFICES ASSUME EndsInCR(x.rest) PROVE EndsInCR(s)
    OBVIOUS
  <2>1. PICK r \in Seq(Framer!Bytes) : r = x.rest
    BY <1>2
  <2>2. r # <<>> /\ r[Len(r)] = Framer!CR /\ s = p \o r
    BY <1>3, <2>1 DEF EndsInCR
  <2>3. s # <<>> /\ s[Len(s)] = r[Len(r)]
    BY <1>4, <2>2, LastOfTwo
  <2> QED BY <2>2, <2>3 DEF EndsInCR
<1>7. ASSUME EndsInCR(s)
      PROVE  Framer!Reading(Framer!After(o), CutShort(s)) = Framer!Reading(Framer!After(w), CutShort(x.rest))
  <2>1. PICK r \in Seq(Framer!Bytes) : r = x.rest
    BY <1>2
  <2>2. s = p \o r /\ s # <<>> /\ s[Len(s)] = Framer!CR
    BY <1>3, <1>7, <2>1 DEF EndsInCR
  <2>3. r # <<>>
    <3> SUFFICES ASSUME r = <<>> PROVE FALSE
      OBVIOUS
    <3>1. s = p
      BY <2>2
    <3>2. p[Len(p)] \in Plain
      BY <2>2, <3>1
    <3> QED BY <2>2, <3>1, <3>2, PlainBytes
  <2>4. CutShort(r) \in Seq(Framer!Bytes) /\ r = Append(CutShort(r), r[Len(r)])
    BY <2>3, LastByte
  <2>5. PICK q \in Seq(Framer!Bytes) : q = CutShort(r)
    BY <2>4
  <2>6. s = Append(p \o q, r[Len(r)]) /\ p \o q \in Seq(Framer!Bytes)
    <3>1. r[Len(r)] \in Framer!Bytes
      BY <2>3, LastByte
    <3>2. p \o Append(q, r[Len(r)]) = Append(p \o q, r[Len(r)])
      BY <1>4, <3>1, AppendedOn
    <3> QED BY <1>4, <2>2, <2>4, <2>5, <3>2, SMTT(30)
  <2>7. CutShort(s) = p \o q
    <3>1. \A b \in Framer!Bytes : CutShort(Append(p \o q, b)) = p \o q
      BY <2>6, LastByte
    <3> QED BY <2>3, <2>6, <3>1, LastByte
  <2>8. Framer!Reading(Framer!After(o), p \o q) = Framer!Reading(Framer!Reading(Framer!After(o), p), q)
    BY <1>4, ReadOn
  <2> QED BY <1>3, <2>1, <2>5, <2>7, <2>8
<1> QED BY <1>1, <1>2, <1>5, <1>6, <1>7 DEF ReadsOn
LEMMA CutIsPlain ==
  ASSUME NEW s, Tidy(s), s # <<>>, Framer!Blank(s) = {}
  PROVE  CutShort(s) \in Seq(Plain) /\ Framer!Blank(CutShort(s)) = {}
<1>1. s \in Seq(Framer!Bytes) /\ Len(s) \in Nat /\ \A i \in 1..(Len(s) - 1) : s[i] # Framer!CR
  BY DEF Tidy
<1>2. PICK c \in Seq(Framer!Bytes) : c = CutShort(s) /\ s = Append(c, s[Len(s)])
  BY <1>1, LastByte
<1>3. s[Len(s)] \in Framer!Bytes
  BY <1>1, LastByte
<1>4. Framer!Blank(c) = {}
  <2>1. Framer!Blank(c) \subseteq Framer!Blank(Append(c, s[Len(s)]))
    BY <1>3, BlankGrows
  <2> QED BY <1>2, <2>1
<1>5. Len(c) \in Nat /\ Len(s) = Len(c) + 1 /\ \A i \in 1..Len(c) : c[i] = s[i]
  <2>1. \A b \in Framer!Bytes : Len(Append(c, b)) = Len(c) + 1 /\ \A i \in 1..Len(c) : Append(c, b)[i] = c[i]
    OBVIOUS
  <2> QED BY <1>2, <1>3, <2>1
<1>6. \A i \in 1..Len(c) : c[i] \in Plain
  <2> TAKE i \in 1..Len(c)
  <2>1. i \in 1..(Len(s) - 1) /\ c[i] \in Framer!Bytes /\ c[i] = s[i]
    BY <1>5
  <2> QED BY <1>1, <2>1 DEF Plain
<1>7. c \in Seq(Plain)
  BY <1>5, <1>6
<1> QED BY <1>2, <1>4, <1>7

FramerInv ==
  /\ s_written \in Seq(Framer!Bytes) /\ s_events \in Seq(Nat) /\ Tidy(s_buffer)
  /\ s_failed \/
       /\ Framer!Blank(s_buffer) = {}
       /\ Framer!Reading(Framer!After(<<>>), s_written) = Framer!Reading(Framer!After(s_events), s_buffer)
       /\ EndsInCR(s_buffer) =>
            /\ EndsInCR(s_written)
            /\ Framer!Reading(Framer!After(<<>>), CutShort(s_written)).out = s_events

LEMMA AfterTyped ==
  ASSUME NEW o \in Seq(Nat)
  PROVE  Framer!After(o) \in ReaderState /\ ~Framer!After(o).cr
BY DEF Framer!After, ReaderState

LEMMA NormaliseTidies ==
  ASSUME NEW st \in ReaderState, ~st.cr, NEW s \in Seq(Framer!Bytes), NEW normal, normal = Framer!Normalise(s)
  PROVE  /\ Tidy(normal)
         /\ EndsInCR(normal) <=> EndsInCR(s)
         /\ Framer!Reading(st, normal) = Framer!Reading(st, s)
         /\ EndsInCR(s) => Framer!Reading(st, CutShort(normal)).out = Framer!Reading(st, CutShort(s)).out
<1>1. /\ Framer!Reading(st, normal) = Framer!Reading(st, s)
      /\ IF EndsInCR(s)
         THEN \E h \in Seq(Plain) : /\ normal = Append(h, Framer!CR)
                                    /\ Framer!Reading(st, h).out = Framer!Reading(st, CutShort(s)).out
         ELSE normal \in Seq(Plain)
  BY NormaliseReads
<1>2. CASE EndsInCR(s)
  <2>1. PICK h \in Seq(Plain) : /\ normal = Append(h, Framer!CR)
                                /\ Framer!Reading(st, h).out = Framer!Reading(st, CutShort(s)).out
    BY <1>1, <1>2
  <2>2. h \in Seq(Framer!Bytes) /\ Framer!CR \in Framer!Bytes /\ Framer!CR \notin Plain
    BY PlainBytes
  <2>3. /\ normal \in Seq(Framer!Bytes) /\ Len(normal) = Len(h) + 1 /\ Len(h) \in Nat
        /\ normal[Len(normal)] = Framer!CR /\ \A i \in 1..Len(h) : normal[i] = h[i]
        /\ \A i \in 1..Len(h) : h[i] \in Plain
    BY <2>1, <2>2
  <2>4. Tidy(normal)
    BY <2>2, <2>3 DEF Tidy
  <2>5. EndsInCR(normal)
    BY <2>3 DEF EndsInCR
  <2>6. CutShort(normal) = h
    BY <2>1, <2>2, LastByte
  <2> QED BY <1>1, <1>2, <2>1, <2>4, <2>5, <2>6
<1>3. CASE ~EndsInCR(s)
  <2>1. normal \in Seq(Plain) /\ normal \in Seq(Framer!Bytes) /\ Framer!CR \notin Plain
    BY <1>1, <1>3, PlainBytes
  <2>2. \A i \in 1..Len(normal) : normal[i] # Framer!CR
    BY <2>1
  <2>3. Len(normal) \in Nat /\ (normal # <<>> => Len(normal) \in 1..Len(normal))
    BY <2>1
  <2> QED BY <1>1, <1>3, <2>1, <2>2, <2>3 DEF Tidy, EndsInCR
<1> QED BY <1>2, <1>3

(* A frame: what it adds is read on from the buffer as from all that came. *)
LEMMA PushKeeps ==
  ASSUME FramerInv, NEW chunk \in Seq(Framer!Bytes), chunk # <<>>, Framer!Push(chunk)
  PROVE  FramerInv'
<1> DEFINE s == s_buffer \o chunk
           normal == Framer!Normalise(s)
           taken == Framer!Take(normal)
           begun == Framer!After(<<>>)
           st == Framer!After(s_events)
<1>1. /\ s_written \in Seq(Framer!Bytes) /\ s_events \in Seq(Nat) /\ s_buffer \in Seq(Framer!Bytes)
      /\ Tidy(s_buffer) /\ s_written' = s_written \o chunk /\ ~s_failed
  BY DEF FramerInv, Tidy, Framer!Push
<1>2. s_written' \in Seq(Framer!Bytes) /\ s \in Seq(Framer!Bytes)
  BY <1>1
<1>3. CASE s_failed' = TRUE /\ UNCHANGED <<s_buffer, s_events>>
  BY <1>1, <1>2, <1>3 DEF FramerInv, Tidy
<1>4. CASE s_buffer' = taken.rest /\ s_events' = s_events \o taken.out /\ s_failed' = FALSE
  <2>1. Framer!Reading(begun, s_written) = Framer!Reading(st, s_buffer)
    BY <1>1 DEF FramerInv
  <2>2. st \in ReaderState /\ ~st.cr
    BY <1>1, AfterTyped
  <2> DEFINE w == s_events \o taken.out
  <2> HIDE DEF s, begun, st, normal
  <2>3. /\ Tidy(normal) /\ (EndsInCR(normal) <=> EndsInCR(s))
        /\ Framer!Reading(st, normal) = Framer!Reading(st, s)
        /\ EndsInCR(s) => Framer!Reading(st, CutShort(normal)).out = Framer!Reading(st, CutShort(s)).out
    BY <1>2, <2>2, NormaliseTidies DEF normal
  <2>4. /\ Tidy(taken.rest) /\ w \in Seq(Nat) /\ Framer!Blank(taken.rest) = {}
        /\ Framer!Reading(st, normal) = Framer!Reading(Framer!After(w), taken.rest)
        /\ EndsInCR(taken.rest) => EndsInCR(normal)
        /\ EndsInCR(normal) => Framer!Reading(st, CutShort(normal))
                                 = Framer!Reading(Framer!After(w), CutShort(taken.rest))
    <3>1. ReadsOn(normal, s_events, taken, w)
      <4>1. s_events \in Seq(Nat) /\ Tidy(normal)
        BY <1>1, <2>3
      <4> QED BY ONLY <4>1, TakeReads
    <3> HIDE DEF taken, w
    <3> QED BY <3>1 DEF ReadsOn, st
  <2> HIDE DEF taken, w
  <2>5. \A t \in Seq(Framer!Bytes) : Framer!Reading(begun, s_written \o t) = Framer!Reading(st, s_buffer \o t)
    <3> TAKE t \in Seq(Framer!Bytes)
    <3>1. Framer!Reading(begun, s_written \o t) = Framer!Reading(Framer!Reading(begun, s_written), t)
      BY <1>1, ReadOn
    <3>2. Framer!Reading(st, s_buffer \o t) = Framer!Reading(Framer!Reading(st, s_buffer), t)
      BY <1>1, ReadOn
    <3> QED BY <2>1, <3>1, <3>2
  <2>6. Framer!Reading(begun, s_written') = Framer!Reading(Framer!After(w), taken.rest)
    BY <1>1, <2>3, <2>4, <2>5 DEF s
  <2>7. ASSUME EndsInCR(taken.rest)
        PROVE  EndsInCR(s_written') /\ Framer!Reading(begun, CutShort(s_written')).out = w
    <3>1. EndsInCR(s) /\ EndsInCR(normal)
      BY <2>3, <2>4, <2>7
    <3>2. PICK c \in Seq(Framer!Bytes) : c = CutShort(chunk) /\ chunk = Append(c, chunk[Len(chunk)])
      BY LastByte
    <3>3. chunk[Len(chunk)] \in Framer!Bytes
      BY LastByte
    <3>4. /\ s = Append(s_buffer \o c, chunk[Len(chunk)])
          /\ s_written' = Append(s_written \o c, chunk[Len(chunk)])
          /\ s_buffer \o c \in Seq(Framer!Bytes) /\ s_written \o c \in Seq(Framer!Bytes)
      <4>1. PICK d \in Framer!Bytes : d = chunk[Len(chunk)]
        BY <3>3
      <4>2. \A u \in Seq(Framer!Bytes) : u \o Append(c, d) = Append(u \o c, d)
        <5> TAKE u \in Seq(Framer!Bytes)
        <5>1. c \in Seq(Framer!Bytes) /\ d \in Framer!Bytes
          BY <3>2, <4>1
        <5>2. u \o Append(c, d) = Append(u \o c, d) /\ Append(c, d) \in Seq(Framer!Bytes)
          BY <5>1, AppendedOn, Zenon
        <5> QED BY <5>2
      <4>3. chunk = Append(c, d)
        BY <3>2, <4>1
      <4>4. s_buffer \o c \in Seq(Framer!Bytes) /\ s_written \o c \in Seq(Framer!Bytes)
        BY <1>1, <3>2
      <4> QED BY <1>1, <4>1, <4>2, <4>3, <4>4 DEF s
    <3>5. CutShort(s) = s_buffer \o c /\ CutShort(s_written') = s_written \o c
      BY <3>3, <3>4, LastByte
    <3>6. EndsInCR(s_written')
      <4>1. s[Len(s)] = chunk[Len(chunk)] /\ s_written'[Len(s_written')] = chunk[Len(chunk)]
            /\ s_written' # <<>>
        BY <1>1, LastOfTwo DEF s
      <4> QED BY <3>1, <4>1 DEF EndsInCR
    <3>7. Framer!Reading(begun, CutShort(s_written')).out
            = Framer!Reading(Framer!After(w), CutShort(taken.rest)).out
      BY <2>3, <2>4, <2>5, <3>1, <3>2, <3>5
    <3>8. CutShort(taken.rest) \in Seq(Plain) /\ Framer!Blank(CutShort(taken.rest)) = {}
      BY <2>4, <2>7, CutIsPlain DEF EndsInCR
    <3>9. Waiting(w, CutShort(taken.rest), Framer!Reading(Framer!After(w), CutShort(taken.rest)))
      BY <2>4, <3>8, BlockReads
    <3> QED BY <3>6, <3>7, <3>9 DEF Waiting
  <2> QED BY <1>2, <1>4, <2>4, <2>6, <2>7 DEF FramerInv, w, begun
<1>5. QED
  BY <1>3, <1>4 DEF Framer!Push
LEMMA FramerInductive ==
  ASSUME FramerInv, [Framer!Next]_(Framer!vars)
  PROVE  FramerInv'
<1>1. CASE Framer!Next
  <2>1. PICK n \in 1..MaxFrame : \E chunk \in [1..n -> Framer!Bytes] : Framer!Push(chunk)
    BY <1>1 DEF Framer!Next
  <2>2. PICK chunk \in [1..n -> Framer!Bytes] : Framer!Push(chunk)
    BY <2>1
  <2>3. n \in Nat /\ n # 0
    BY <2>1, LengthsAssumption DEF Framer!FramerAssumption
  <2>4. chunk \in Seq(Framer!Bytes) /\ chunk # <<>>
    BY <2>2, <2>3
  <2> QED BY <2>2, <2>4, PushKeeps
<1>2. CASE UNCHANGED Framer!vars
  BY <1>2 DEF FramerInv, Tidy, Framer!vars
<1> QED BY <1>1, <1>2

LEMMA AllHandedOn == FramerInv => Framer!HoweverItArrives
<1> SUFFICES ASSUME FramerInv, ~s_failed PROVE Framer!HoweverItArrives
  BY DEF Framer!HoweverItArrives
<1>1. /\ s_written \in Seq(Framer!Bytes) /\ s_events \in Seq(Nat) /\ Tidy(s_buffer)
      /\ s_buffer \in Seq(Framer!Bytes) /\ Framer!Blank(s_buffer) = {}
      /\ Framer!Reading(Framer!After(<<>>), s_written) = Framer!Reading(Framer!After(s_events), s_buffer)
      /\ EndsInCR(s_buffer) => /\ EndsInCR(s_written)
                               /\ Framer!Reading(Framer!After(<<>>), CutShort(s_written)).out = s_events
  BY DEF FramerInv, Tidy
<1>2. CASE EndsInCR(s_buffer)
  BY <1>1, <1>2 DEF Framer!HoweverItArrives, EndsInCR, CutShort, Framer!Last, Framer!Front, Framer!Reference
<1>3. CASE ~EndsInCR(s_buffer)
  <2>1. ASSUME NEW i \in 1..Len(s_buffer) PROVE s_buffer[i] \in Plain
    <3>1. Len(s_buffer) \in Nat /\ s_buffer[i] \in Framer!Bytes /\ s_buffer # <<>>
      BY <1>1, <2>1
    <3>2. CASE i = Len(s_buffer)
      BY <1>3, <3>1, <3>2 DEF EndsInCR, Plain
    <3>3. CASE i # Len(s_buffer)
      <4>1. i \in 1..(Len(s_buffer) - 1)
        BY <3>1, <3>3
      <4> QED BY <1>1, <3>1, <4>1 DEF Tidy, Plain
    <3> QED BY <3>2, <3>3
  <2>2. s_buffer \in Seq(Plain)
    BY <1>1, <2>1, SMTT(30)
  <2>3. Waiting(s_events, s_buffer, Framer!Reading(Framer!After(s_events), s_buffer))
    BY <1>1, <2>2, BlockReads
  <2> QED BY <1>1, <2>3 DEF Waiting, Framer!HoweverItArrives, Framer!Reference
<1> QED BY <1>2, <1>3

(* However the bytes are cut into frames, whatever the line endings and    *)
(* wherever a carriage return comes last, what is handed on is what was    *)
(* written (SseFramer::push): for streams of every length.                 *)
THEOREM EventsAsWritten ==
  /\ Framer!Spec => []Framer!HoweverItArrives
  /\ SumSpec => []HoweverItArrives
<1>1. Framer!Init => FramerInv
  <2> SUFFICES ASSUME Framer!Init PROVE FramerInv
    OBVIOUS
  <2>1. s_written = <<>> /\ s_buffer = <<>> /\ s_events = <<>>
    BY DEF Framer!Init
  <2>2. /\ <<>> \in Seq(Framer!Bytes) /\ <<>> \in Seq(Nat) /\ Len(<<>>) = 0
    OBVIOUS
  <2>3. Tidy(<<>>) /\ Framer!Blank(<<>>) = {} /\ ~EndsInCR(<<>>)
    BY <2>2 DEF Tidy, Framer!Blank, EndsInCR
  <2> QED BY <2>1, <2>2, <2>3 DEF FramerInv
<1>2. Framer!Spec => []Framer!HoweverItArrives
  BY <1>1, FramerInductive, AllHandedOn, PTL DEF Framer!Spec
<1> DEFINE Part == part = "framer" => FramerInv
<1>3. SumInit => Part
  BY <1>1 DEF SumInit
<1>4. Part /\ [SumNext]_Sum => Part'
  <2> SUFFICES ASSUME FramerInv, part = "framer", part' = "framer", [SumNext]_Sum
               PROVE  FramerInv'
    BY DEF SumNext, Sum
  <2> QED BY FramerInductive DEF SumNext, Sum, s_vars, Framer!vars
<1>5. Part => HoweverItArrives
  BY AllHandedOn DEF HoweverItArrives
<1>6. SumSpec => []HoweverItArrives
  BY <1>3, <1>4, <1>5, PTL DEF SumSpec
<1> QED BY <1>2, <1>6

=============================================================================
