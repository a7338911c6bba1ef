------------------------------ MODULE MCTasks -------------------------------
(***************************************************************************)
(* Background tasks: one tenant whose one task is asked for, put off, run, *)
(* refused, cancelled and scanned again over stops of the enclave; and,    *)
(* apart from it, two tenants whose work is due at once, one at a time or  *)
(* two. A behaviour is one of part; the other stays as it started.         *)
(***************************************************************************)
EXTENDS Tasks

CONSTANTS Pair

VARIABLE part       \* "one" or "several"
VARIABLES s_tasks, s_due, s_active, s_lastTenant, s_disk, s_images, s_catalog,
          s_catImages, s_lock, s_req, s_worker, s_up, s_gens, s_requests,
          s_stops, s_runs, s_done, s_ended, s_ackEnqueue, s_ackCancel
s_vars == <<s_tasks, s_due, s_active, s_lastTenant, s_disk, s_images,
            s_catalog, s_catImages, s_lock, s_req, s_worker, s_up, s_gens,
            s_requests, s_stops, s_runs, s_done, s_ended, s_ackEnqueue,
            s_ackCancel>>

Several == INSTANCE Tasks WITH
  Tenants <- {1, 2}, Ids <- Ids, Inputs <- {"once"}, Workers <- Pair,
  MaxAttempts <- 1, MaxRecords <- 2, PerTenant <- 1, MaxGens <- 2,
  MaxOccurrence <- 0, MaxRequests <- 2, MaxStops <- 0, tasks <- s_tasks,
  due <- s_due, active <- s_active, lastTenant <- s_lastTenant,
  disk <- s_disk, images <- s_images, catalog <- s_catalog,
  catImages <- s_catImages, lock <- s_lock, req <- s_req, worker <- s_worker,
  up <- s_up, gens <- s_gens, requests <- s_requests, stops <- s_stops,
  runs <- s_runs, done <- s_done, ended <- s_ended,
  ackEnqueue <- s_ackEnqueue, ackCancel <- s_ackCancel

Sum == <<part, vars, s_vars>>

SumInit ==
  /\ part \in {"one", "several"}
  /\ Init
  /\ Several!Init

SumNext ==
  /\ UNCHANGED part
  /\ \/ part = "one" /\ Next /\ UNCHANGED <<s_vars>>
     \/ part = "several" /\ Several!Next /\ UNCHANGED <<vars>>

(* The fairness of LiveSpec, for the one tenant.                           *)
SumFairness ==
  /\ \A w \in Workers : WF_vars(part = "one" /\ WorkerStep(w))
  /\ \A t \in Tenants, i \in Ids : WF_vars(part = "one" /\ Ripen(t, i))
  /\ \A t \in Tenants :
       WF_vars(/\ part = "one"
               /\ MarkAnchored(t) \/ MarkFails(t) \/ GuestAnswers(t)
                  \/ RequestAnchors(t) \/ Respond(t))
  /\ WF_vars(part = "one" /\ Restart)

SumSpec == SumInit /\ [][SumNext]_Sum /\ SumFairness

-----------------------------------------------------------------------------
(* Two tenants and two workers: a task is due or being worked on, never    *)
(* both and never by two workers, and ready tenants take turns: each time  *)
(* another tenant is served, fewer tenants are left to be served before    *)
(* one that is ready (take_due, Records::last_tenant).                     *)
TenantsTakeTurns ==
  /\ [](part = "several" => Several!ScheduledOnce)
  /\ Several!TakesTurns

=============================================================================
