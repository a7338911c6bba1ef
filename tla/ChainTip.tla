------------------------------ MODULE ChainTip ------------------------------
(***************************************************************************)
(* chain_tip of runtime/src/zfs.rs: the newest number of a contiguous,     *)
(* never-deleted chain of S3 objects, by galloping and then bisecting.     *)
(* Every probe is a request, and other enclaves append to the chain        *)
(* between two of them.  boot and the anchor reader both trust the answer. *)
(***************************************************************************)
EXTENDS Integers

CONSTANT MaxNumber    \* u64::MAX in the source

ChainTipAssumption == MaxNumber \in Nat \ {0}

VARIABLES
  tip,    \* the newest number of the chain; -1 while it is empty
  first,  \* what tip was when the search began
  pc, lo, step, hi,
  result  \* -1 is the source's None

vars   == <<tip, first, pc, lo, step, hi, result>>
search == <<first, pc, lo, step, hi, result>>

exists(n) == n <= tip
Limit(n)  == IF n > MaxNumber THEN MaxNumber ELSE n     \* saturating arithmetic

(* Another enclave appends.  A chain never gets near u64::MAX. *)
Append ==
  /\ tip + 1 < MaxNumber
  /\ tip' = tip + 1
  /\ UNCHANGED search

Begin ==
  /\ pc = "begin"
  /\ first' = tip
  /\ IF exists(0)
     THEN pc' = "gallop" /\ lo' = 0 /\ step' = 1 /\ UNCHANGED result
     ELSE pc' = "done" /\ result' = -1 /\ UNCHANGED <<lo, step>>
  /\ UNCHANGED <<tip, hi>>

Gallop ==
  /\ pc = "gallop"
  /\ IF lo + step <= MaxNumber /\ exists(lo + step)
     THEN /\ lo' = lo + step
          /\ step' = Limit(step * 2)
          /\ UNCHANGED <<pc, hi>>
     ELSE /\ hi' = Limit(lo + step)
          /\ pc' = "bisect"
          /\ UNCHANGED <<lo, step>>
  /\ UNCHANGED <<tip, first, result>>

Mid == lo + (hi - lo) \div 2

Bisect ==
  /\ pc = "bisect" /\ hi - lo > 1
  /\ IF exists(Mid) THEN lo' = Mid /\ UNCHANGED hi ELSE hi' = Mid /\ UNCHANGED lo
  /\ UNCHANGED <<tip, first, pc, step, result>>

(* Mutant: the wrong end of the interval is the answer. *)
FinishHigh ==
  /\ pc = "bisect" /\ hi - lo <= 1
  /\ result' = hi
  /\ pc' = "done"
  /\ UNCHANGED <<tip, first, lo, step, hi>>

Finish ==
  /\ pc = "bisect" /\ hi - lo <= 1
  /\ result' = lo
  /\ pc' = "done"
  /\ UNCHANGED <<tip, first, lo, step, hi>>

(* A probe fails for another reason than NotFound. *)
ProbeFails ==
  /\ pc \in {"begin", "gallop", "bisect"}
  /\ pc' = "failed"
  /\ UNCHANGED <<tip, first, lo, step, hi, result>>

Init ==
  /\ tip \in -1 .. MaxNumber - 1
  /\ first = tip /\ pc = "begin" /\ result = -1
  /\ lo = 0 /\ step = 1 /\ hi = 0

Search == Begin \/ Gallop \/ Bisect \/ Finish
Next == Append \/ Search \/ ProbeFails

Spec == Init /\ [][Next]_vars

(* Every request is answered, and the search is one task that always goes  *)
(* on.                                                                     *)
LiveSpec == Spec /\ WF_vars(Search)

-----------------------------------------------------------------------------
(* Every variable keeps its type: no number passes u64::MAX. *)
TypeOK ==
  /\ tip \in -1 .. MaxNumber - 1 /\ first \in -1 .. MaxNumber - 1
  /\ pc \in {"begin", "gallop", "bisect", "done", "failed"}
  /\ lo \in 0..MaxNumber /\ hi \in 0..MaxNumber /\ step \in 1..MaxNumber
  /\ result \in -1 .. MaxNumber

(* The answer is a number the chain has, and none older than the chain's   *)
(* newest when the search began: appending during the search can neither   *)
(* make it overshoot nor make it miss what was already there.              *)
TipFound == pc = "done" => first <= result /\ result <= tip

(* What the search relies on: lo exists, and hi did not when the search    *)
(* began.                                                                  *)
Bracketed ==
  /\ first <= tip
  /\ pc \in {"gallop", "bisect"} => first >= 0 /\ 0 <= lo /\ lo <= tip
  /\ pc = "bisect" => lo < hi /\ first < hi

(* The search ends, whatever is appended meanwhile. *)
SearchEnds == <>(pc \in {"done", "failed"})
=============================================================================
