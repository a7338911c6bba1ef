---------------------------- MODULE NotifyProofs ----------------------------
(***************************************************************************)
(* Wake signals: the registry of devices (module Devices), the queue of    *)
(* wakes (Notify) and the client that sends them (Push), for any tenants,  *)
(* categories, threads, tokens and limits.  The three share no state: each *)
(* section says which facts its property needs to be inductive.            *)
(***************************************************************************)
EXTENDS MCNotify, FiniteSetTheorems, SequenceTheorems, WellFoundedInduction, TLAPS

-----------------------------------------------------------------------------
(* Devices, for any tenants, tokens and limits.  RegistryHolds is not      *)
(* inductive: it says nothing of a call half way, nor of why a scan knows  *)
(* the oldest.  The proof adds                                             *)
(*   - what a call has done to memory and not yet to the file, or the      *)
(*     other way round, by the step it is at (CallAt);                     *)
(*   - that a file operation still running is on a stray key (LateAstray); *)
(*   - that a time belongs to one enrolment (OneKey), which is why the     *)
(*     order of the oldest is total and a scan keeps no more than the cap; *)
(*   - that what a wake was told is gone, the service said is (ToldGone).  *)

(* Devices counts as this module does. *)
LEMMA SameCount ==
  ASSUME NEW S
  PROVE  /\ Devs!Cardinality(S) = Cardinality(S)
         /\ Devs!IsFiniteSet(S) <=> IsFiniteSet(S)
<1>1. Devs!Cardinality(S) = Cardinality(S)
  BY Zenon DEF Devs!Cardinality, Cardinality, Devs!IsFiniteSet, IsFiniteSet
<1>2. Devs!IsFiniteSet(S) <=> IsFiniteSet(S)
  BY Zenon DEF Devs!IsFiniteSet, IsFiniteSet
<1> QED BY <1>1, <1>2

LEMMA RegistryAssumed ==
  /\ PerTenant \in Nat \ {0} /\ MaxDevices \in Nat \ {0}
  /\ Tokens \subseteq Int /\ None \notin Nat
BY RegistryAssumption DEF Devs!DevicesAssumption

Times == [Devs!Keys -> Nat \cup {None}]
Call ==
  {Devs!Idle} \cup [step : {"write", "push", "trim"}, key : Devs!Keys, at : Nat]
    \cup [step : {"evict"}, key : Devs!Keys, at : Nat, victim : Devs!Keys]
    \cup [step : {"remove"}, key : Devs!Keys, by : {"guest", "forwarder"}]
Operation == [key : Devs!Keys, to : Nat \cup {None}]

DevicesTyped ==
  /\ d_file \in Times /\ d_list \in Times /\ d_call \in Call /\ d_now \in Nat
  /\ d_late \subseteq Operation /\ d_stray \subseteq Devs!Keys
  /\ d_wake \in {None} \cup [key : Devs!Keys, at : Nat, said : {"nothing", "gone"}]
  /\ d_faults \in Nat
  /\ IsFiniteSet(Devs!On(d_file)) /\ IsFiniteSet(Devs!On(d_list))

Enrolling == {"write", "push", "trim", "evict"}

(* What an enrolment is, wherever it is.                                   *)
Dated(k, n) ==
  \/ d_file[k] = n
  \/ d_list[k] = n
  \/ d_call.step \in Enrolling /\ d_call.key = k /\ d_call.at = n
  \/ \E o \in d_late : o.key = k /\ o.to = n

OneKey ==
  \A k \in Devs!Keys, n \in Nat : Dated(k, n) =>
    n <= d_now /\ \A j \in Devs!Keys : Dated(j, n) => j = k

(* File and memory agree but for the strays and these. *)
AgreeBut(apart) == \A k \in Devs!Keys \ (d_stray \cup apart) : d_file[k] = d_list[k]

CallAt ==
  /\ d_call.step \in {"idle", "write", "trim", "remove"} => AgreeBut({})
  /\ d_call.step = "push" =>
       AgreeBut({d_call.key}) /\ (d_call.key \notin d_stray => d_file[d_call.key] = d_call.at)
  /\ d_call.step \in {"write", "push"} =>
       d_list[d_call.key] = None /\ Cardinality(Devs!On(d_list)) < MaxDevices
  /\ d_call.step \in Enrolling => d_call.at = d_now
  /\ d_call.step \in {"trim", "evict"} => d_list[d_call.key] = d_call.at
  /\ d_call.step = "evict" =>
       /\ AgreeBut({d_call.victim})
       /\ d_call.victim # d_call.key /\ d_call.victim[1] = d_call.key[1]
       /\ d_list[d_call.victim] = None
  /\ d_call.step = "remove" /\ d_call.by = "forwarder" => d_list[d_call.key] \in d_gone

LateAstray == \A o \in d_late : o.key \in d_stray
ToldGone == d_wake # None /\ d_wake.said = "gone" => d_wake.at \in d_gone
CountBounded == Cardinality(Devs!On(d_list)) <= MaxDevices

RegistryInv == DevicesTyped /\ OneKey /\ CallAt /\ LateAstray /\ ToldGone /\ CountBounded

(* Of times that are all different no more than the cap are kept.          *)
LEMMA KeptBounded ==
  ASSUME NEW m \in Times, IsFiniteSet(Devs!On(m)),
         \A j, k \in Devs!On(m) : m[j] = m[k] => j = k
  PROVE  Cardinality(Devs!Kept(m)) <= MaxDevices /\ IsFiniteSet(Devs!Kept(m))
<1> DEFINE Newer(k) == {j \in Devs!On(m) \ {k} : Devs!Older(m, k, j)}
           K == Devs!Kept(m)
           rank == [k \in K |-> Cardinality(Newer(k))]
<1>1. K \subseteq Devs!On(m) /\ Devs!On(m) \subseteq Devs!Keys
  BY DEF Devs!Kept, Devs!On
<1>2. \A k \in Devs!On(m) : m[k] \in Nat
  BY DEF Devs!On, Times
<1>3. \A k \in Devs!On(m) : IsFiniteSet(Newer(k)) /\ Cardinality(Newer(k)) \in Nat
  BY FS_Subset, FS_CardinalityType
<1>4. \A k \in K : Cardinality(Newer(k)) < MaxDevices
  BY SameCount DEF Devs!Kept
<1>5. IsFiniteSet(K) /\ Cardinality(K) \in Nat
  BY <1>1, FS_Subset, FS_CardinalityType
<1>6. ASSUME NEW x \in K, NEW y \in K, m[x] < m[y]
      PROVE  Cardinality(Newer(y)) < Cardinality(Newer(x))
  <2>1. Newer(y) \subseteq Newer(x)
    <3> SUFFICES ASSUME NEW j \in Newer(y) PROVE j \in Newer(x)
      OBVIOUS
    <3>1. m[j] >= m[y]
      BY <1>1, <1>2 DEF Devs!Older
    <3>2. m[x] < m[j] /\ j # x
      BY <1>1, <1>2, <1>6, <3>1
    <3> QED BY <3>2 DEF Devs!Older
  <2>2. y \in Newer(x)
    BY <1>1, <1>2, <1>6 DEF Devs!Older
  <2>3. Newer(y) # Newer(x)
    BY <2>2
  <2>4. /\ Cardinality(Newer(y)) <= Cardinality(Newer(x))
        /\ Cardinality(Newer(x)) = Cardinality(Newer(y)) => Newer(x) = Newer(y)
    <3>1. IsFiniteSet(Newer(x))
      BY <1>1, <1>3
    <3> HIDE DEF Newer
    <3> QED BY <2>1, <3>1, FS_Subset
  <2> HIDE DEF Newer
  <2> QED BY <1>1, <1>3, <2>3, <2>4
<1>7. ASSUME Cardinality(K) > MaxDevices PROVE FALSE
  <2> DEFINE N == 0 .. MaxDevices - 1
  <2>1. IsFiniteSet(N) /\ Cardinality(N) = MaxDevices
    BY RegistryAssumed, FS_Interval
  <2>2. rank \in [K -> N]
    <3> SUFFICES ASSUME NEW k \in K PROVE Cardinality(Newer(k)) \in N
      OBVIOUS
    <3> HIDE DEF Newer, K
    <3> QED BY <1>1, <1>3, <1>4, RegistryAssumed
  <2> HIDE DEF N, rank
  <2>3. PICK x \in K, y \in K : x # y /\ rank[x] = rank[y]
    BY <1>5, <1>7, <2>1, <2>2, FS_PigeonHole
  <2>4. m[x] < m[y] \/ m[y] < m[x]
    BY <1>1, <1>2, <2>3
  <2>5. Cardinality(Newer(x)) = Cardinality(Newer(y))
    BY <2>3 DEF rank
  <2> HIDE DEF Newer, K
  <2> QED BY <1>1, <1>3, <1>6, <2>4, <2>5
<1> QED BY <1>5, <1>7, RegistryAssumed

(* Every set of naturals has a least member.                               *)
LEMMA LeastNatural ==
  ASSUME NEW S \in SUBSET Nat, S # {}
  PROVE  \E x \in S : \A y \in S : x <= y
<1> DEFINE R == OpToRel(<, Nat)
<1>1. \A y, x \in Nat : <<y, x>> \in R <=> y < x
  BY DEF OpToRel
<1> HIDE DEF R
<1>2. PICK x \in S : \A y \in S : <<y, x>> \notin R
  BY NatLessThanWellFounded, WFMin DEF R
<1>3. ASSUME NEW y \in S PROVE x <= y
  <2>1. x \in Nat /\ y \in Nat
    OBVIOUS
  <2>2. ~(y < x)
    BY <1>1, <1>2, <2>1
  <2> QED BY <2>1, <2>2
<1> QED BY <1>2, <1>3

(* The oldest of some enrolments is older than any other of them.          *)
LEMMA OldestIs ==
  ASSUME NEW m \in Times, NEW ks \in SUBSET Devs!On(m), ks # {},
         \A j, k \in ks : m[j] = m[k] => j = k
  PROVE  /\ Devs!Oldest(m, ks) \in ks
         /\ \A k \in ks \ {Devs!Oldest(m, ks)} : Devs!Older(m, Devs!Oldest(m, ks), k)
<1>1. \A k \in ks : m[k] \in Nat
  BY DEF Devs!On, Times
<1>2. PICK j \in ks : \A k \in ks : m[j] <= m[k]
  <2> DEFINE S == {m[k] : k \in ks}
  <2>1. S \in SUBSET Nat /\ S # {}
    BY <1>1
  <2> HIDE DEF S
  <2>2. PICK x \in S : \A y \in S : x <= y
    BY <2>1, LeastNatural
  <2> QED BY <2>2 DEF S
<1>3. \A k \in ks \ {j} : Devs!Older(m, j, k)
  BY <1>1, <1>2 DEF Devs!Older
<1> QED BY <1>3 DEF Devs!Oldest

LEMMA Times_ ==
  ASSUME DevicesTyped, NEW k \in Devs!Keys, NEW n \in Nat \cup {None}
  PROVE  /\ [d_file EXCEPT ![k] = n] \in Times /\ [d_list EXCEPT ![k] = n] \in Times
         /\ IsFiniteSet(Devs!On([d_file EXCEPT ![k] = n]))
         /\ IsFiniteSet(Devs!On([d_list EXCEPT ![k] = n]))
<1>1. ASSUME NEW m \in Times, IsFiniteSet(Devs!On(m))
      PROVE  [m EXCEPT ![k] = n] \in Times /\ IsFiniteSet(Devs!On([m EXCEPT ![k] = n]))
  <2>1. Devs!On([m EXCEPT ![k] = n]) \subseteq Devs!On(m) \cup {k}
    BY DEF Devs!On, Times
  <2>2. IsFiniteSet(Devs!On(m) \cup {k})
    BY <1>1, FS_AddElement
  <2> QED BY <2>1, <2>2, FS_Subset DEF Times
<1> QED BY <1>1 DEF DevicesTyped

(* A call by its step, and what a record of it keeps.                      *)
LEMMA CallIs ==
  ASSUME DevicesTyped
  PROVE  /\ d_call = Devs!Idle \/ d_call.step \in Enrolling \cup {"remove"}
         /\ Devs!Free <=> d_call.step = "idle"
         /\ d_call.step \in Enrolling => d_call.key \in Devs!Keys /\ d_call.at \in Nat
         /\ d_call.step = "evict" => d_call.victim \in Devs!Keys
         /\ d_call.step = "remove" =>
              d_call.key \in Devs!Keys /\ d_call.by \in {"guest", "forwarder"}
BY DEF DevicesTyped, Call, Enrolling, Devs!Free, Devs!Idle

(* Whatever makes no enrolment leaves every time its key.                  *)
LEMMA NothingNew ==
  ASSUME OneKey, d_now' = d_now,
         \A k \in Devs!Keys, n \in Nat : Dated(k, n)' => Dated(k, n)
  PROVE  OneKey'
BY DEF OneKey, Devs!Keys

LEMMA RegisterStep ==
  ASSUME RegistryInv, NEW k \in Devs!Keys, Devs!Register(k)
  PROVE  RegistryInv'
<1>1. /\ d_call = Devs!Idle /\ d_list[k] = None /\ d_now' = d_now + 1
      /\ d_call' = [step |-> "write", key |-> k, at |-> d_now']
      /\ UNCHANGED <<d_file, d_list, d_late, d_stray, d_wake, d_gone, d_faults>>
  BY DEF Devs!Register, Devs!Free
<1>2. Cardinality(Devs!On(d_list)) < MaxDevices
  BY SameCount DEF Devs!Register, Devs!HasRoom
<1>3. DevicesTyped'
  <2>1. d_now' \in Nat /\ d_call' \in Call
    BY <1>1 DEF RegistryInv, DevicesTyped, Call
  <2> QED BY <1>1, <2>1 DEF RegistryInv, DevicesTyped, Devs!On
<1>4. OneKey'
  <2>1. ASSUME NEW j \in Devs!Keys, NEW n \in Nat, Dated(j, n)'
        PROVE  Dated(j, n) \/ (j = k /\ n = d_now')
    BY <1>1, <2>1 DEF Dated
  <2>2. \A j \in Devs!Keys, n \in Nat : Dated(j, n) => n < d_now'
    BY <1>1 DEF RegistryInv, OneKey, DevicesTyped
  <2>3. ASSUME NEW j \in Devs!Keys, NEW n \in Nat, Dated(j, n)'
        PROVE  n <= d_now' /\ \A i \in Devs!Keys : Dated(i, n)' => i = j
    <3>1. CASE n < d_now'
      BY <2>1, <2>3, <3>1, <1>3 DEF RegistryInv, OneKey, DevicesTyped
    <3>2. CASE n = d_now'
      BY <2>1, <2>2, <2>3, <3>2, <1>3 DEF DevicesTyped
    <3> QED BY <2>1, <2>2, <2>3, <3>1, <3>2
  <2> QED BY <2>3 DEF OneKey, Devs!Keys
<1>5. CallAt'
  BY <1>1, <1>2 DEF RegistryInv, CallAt, AgreeBut, Devs!Idle, Devs!On, Enrolling
<1> QED BY <1>1, <1>3, <1>4, <1>5 DEF RegistryInv, LateAstray, ToldGone, CountBounded, Devs!On

LEMMA PublishStep ==
  ASSUME RegistryInv, Devs!Publish
  PROVE  RegistryInv'
<1>1. /\ d_call.step = "write" /\ d_file' = [d_file EXCEPT ![d_call.key] = d_call.at]
      /\ d_call' = [d_call EXCEPT !.step = "push"]
      /\ UNCHANGED <<d_list, d_now, d_late, d_stray, d_wake, d_gone, d_faults>>
  BY DEF Devs!Publish
<1>2. PICK k \in Devs!Keys, n \in Nat : d_call.key = k /\ d_call.at = n
  BY <1>1, CallIs DEF RegistryInv, Enrolling
<1>3. d_call' \in Call /\ d_call'.step = "push" /\ d_call'.key = k /\ d_call'.at = n
  BY <1>1, <1>2 DEF RegistryInv, DevicesTyped, Call, Devs!Idle
<1>4. /\ d_file' \in Times /\ IsFiniteSet(Devs!On(d_file'))
      /\ d_file'[k] = n /\ \A j \in Devs!Keys : j # k => d_file'[j] = d_file[j]
  <2>1. d_file' \in Times /\ IsFiniteSet(Devs!On(d_file'))
    BY <1>1, <1>2, Times_ DEF RegistryInv
  <2> QED BY <1>1, <1>2, <2>1 DEF RegistryInv, DevicesTyped, Times
<1>5. DevicesTyped'
  BY <1>1, <1>3, <1>4 DEF RegistryInv, DevicesTyped, Devs!On
<1>6. OneKey'
  <2>1. \A j \in Devs!Keys, m \in Nat : Dated(j, m)' => Dated(j, m)
    BY <1>1, <1>2, <1>3, <1>4 DEF Dated, Enrolling
  <2> QED BY <1>1, <2>1, NothingNew DEF RegistryInv
<1>7. CallAt'
  BY <1>1, <1>2, <1>3, <1>4 DEF RegistryInv, CallAt, AgreeBut, Devs!On, Enrolling
<1> QED BY <1>1, <1>5, <1>6, <1>7 DEF RegistryInv, LateAstray, ToldGone, CountBounded, Devs!On

LEMMA PushStep ==
  ASSUME RegistryInv, Devs!Push
  PROVE  RegistryInv'
<1>1. /\ d_call.step = "push" /\ d_list' = [d_list EXCEPT ![d_call.key] = d_call.at]
      /\ d_call' = [d_call EXCEPT !.step = "trim"]
      /\ UNCHANGED <<d_file, d_now, d_late, d_stray, d_wake, d_gone, d_faults>>
  BY DEF Devs!Push
<1>2. PICK k \in Devs!Keys, n \in Nat : d_call.key = k /\ d_call.at = n
  BY <1>1, CallIs DEF RegistryInv, Enrolling
<1>3. d_call' \in Call /\ d_call'.step = "trim" /\ d_call'.key = k /\ d_call'.at = n
  BY <1>1, <1>2 DEF RegistryInv, DevicesTyped, Call, Devs!Idle
<1>4. /\ d_list' \in Times /\ IsFiniteSet(Devs!On(d_list'))
      /\ d_list'[k] = n /\ \A j \in Devs!Keys : j # k => d_list'[j] = d_list[j]
  <2>1. d_list' \in Times /\ IsFiniteSet(Devs!On(d_list'))
    BY <1>1, <1>2, Times_ DEF RegistryInv
  <2> QED BY <1>1, <1>2, <2>1 DEF RegistryInv, DevicesTyped, Times
<1>5. DevicesTyped'
  BY <1>1, <1>3, <1>4 DEF RegistryInv, DevicesTyped, Devs!On
<1>6. OneKey'
  <2>1. \A j \in Devs!Keys, m \in Nat : Dated(j, m)' => Dated(j, m)
    BY <1>1, <1>2, <1>3, <1>4 DEF Dated, Enrolling
  <2> QED BY <1>1, <2>1, NothingNew DEF RegistryInv
<1>7. CallAt'
  BY <1>1, <1>2, <1>3, <1>4 DEF RegistryInv, CallAt, AgreeBut, Enrolling
<1>8. CountBounded'
  <2>1. Cardinality(Devs!On(d_list)) < MaxDevices /\ Cardinality(Devs!On(d_list)) \in Nat
    BY <1>1, FS_CardinalityType DEF RegistryInv, DevicesTyped, CallAt
  <2>2. Devs!On(d_list)' \subseteq Devs!On(d_list) \cup {k}
    BY <1>4 DEF Devs!On
  <2>3. /\ IsFiniteSet(Devs!On(d_list) \cup {k})
        /\ Cardinality(Devs!On(d_list) \cup {k}) <= Cardinality(Devs!On(d_list)) + 1
    <3>1. IsFiniteSet(Devs!On(d_list))
      BY DEF RegistryInv, DevicesTyped
    <3>2. /\ IsFiniteSet(Devs!On(d_list) \cup {k})
          /\ Cardinality(Devs!On(d_list) \cup {k}) =
               IF k \in Devs!On(d_list) THEN Cardinality(Devs!On(d_list))
               ELSE Cardinality(Devs!On(d_list)) + 1
      BY <3>1, FS_AddElement
    <3> QED BY <2>1, <3>2
  <2>4. Cardinality(Devs!On(d_list)') <= Cardinality(Devs!On(d_list) \cup {k})
    BY <2>2, <2>3, FS_Subset
  <2>5. /\ Cardinality(Devs!On(d_list)') \in Nat
        /\ Cardinality(Devs!On(d_list) \cup {k}) \in Nat
    BY <1>4, <2>3, FS_CardinalityType
  <2>6. Cardinality(Devs!On(d_list)') <= MaxDevices
    BY <2>1, <2>3, <2>4, <2>5, RegistryAssumed
  <2> QED BY <2>6 DEF CountBounded
<1> QED BY <1>1, <1>5, <1>6, <1>7, <1>8 DEF RegistryInv, LateAstray, ToldGone

(* A list that lost a record, or none, is no longer than it was.           *)
LEMMA FewerCounted ==
  ASSUME DevicesTyped, CountBounded, Devs!On(d_list)' \subseteq Devs!On(d_list)
  PROVE  CountBounded'
<1>1. /\ Cardinality(Devs!On(d_list)') <= Cardinality(Devs!On(d_list))
      /\ IsFiniteSet(Devs!On(d_list)')
  BY FS_Subset DEF DevicesTyped
<1>2. Cardinality(Devs!On(d_list)') \in Nat /\ Cardinality(Devs!On(d_list)) \in Nat
  BY <1>1, FS_CardinalityType DEF DevicesTyped
<1>3. Cardinality(Devs!On(d_list)') <= MaxDevices
  BY <1>1, <1>2, RegistryAssumed DEF CountBounded
<1> QED BY <1>3 DEF CountBounded

LEMMA EvictStep ==
  ASSUME RegistryInv, Devs!Evict
  PROVE  /\ RegistryInv'
         /\ \A k \in Devs!Keys : d_list[k] # None /\ d_list'[k] # d_list[k] =>
              \E j \in Devs!Of(d_list, k[1]) : Devs!Older(d_list, k, j)
<1> DEFINE t == d_call.key[1]
           mine == Devs!Of(d_list, t)
           v == Devs!Victim(t)
<1>1. /\ d_call.step = "trim" /\ Cardinality(mine) > PerTenant
      /\ d_list' = [d_list EXCEPT ![v] = None]
      /\ d_call' = [step |-> "evict", key |-> d_call.key, at |-> d_call.at, victim |-> v]
      /\ UNCHANGED <<d_file, d_now, d_late, d_stray, d_wake, d_gone, d_faults>>
  BY SameCount DEF Devs!Evict
<1>2. PICK k \in Devs!Keys, n \in Nat : d_call.key = k /\ d_call.at = n
  BY <1>1, CallIs DEF RegistryInv, Enrolling
<1>3. d_list[k] = n /\ n = d_now /\ None \notin Nat /\ d_list \in Times
  BY <1>1, <1>2, RegistryAssumed DEF RegistryInv, CallAt, Enrolling, DevicesTyped
<1>4. mine \in SUBSET Devs!On(d_list) /\ k \in mine
  BY <1>2, <1>3 DEF Devs!Of, Devs!On
<1>5. \A i, j \in Devs!On(d_list) : d_list[i] = d_list[j] => i = j
  BY <1>3 DEF RegistryInv, OneKey, Dated, Devs!On, Times
<1>6. v \in mine /\ \A j \in mine \ {v} : Devs!Older(d_list, v, j)
  <2> HIDE DEF mine
  <2>1. Devs!Oldest(d_list, mine) \in mine
        /\ \A j \in mine \ {Devs!Oldest(d_list, mine)} :
              Devs!Older(d_list, Devs!Oldest(d_list, mine), j)
    BY <1>3, <1>4, <1>5, OldestIs
  <2> QED BY <2>1 DEF mine, Devs!Victim
<1>7. \E j \in mine : j # v
  <2>1. Cardinality(mine) > 1
    <3>1. IsFiniteSet(mine)
      BY <1>4, FS_Subset DEF RegistryInv, DevicesTyped
    <3>2. Cardinality(mine) \in Nat
      BY <3>1, FS_CardinalityType
    <3> HIDE DEF mine
    <3> QED BY <1>1, <3>2, RegistryAssumed
  <2>2. Cardinality({v}) = 1
    BY FS_Singleton
  <2>3. mine # {v}
    BY <2>1, <2>2
  <2> QED BY <1>6, <2>3
<1>8. v # k
  <2>1. PICK j \in mine : j # v
    BY <1>7
  <2>2. /\ d_list[j] \in Nat /\ d_list[v] \in Nat /\ d_list[j] # d_list[v]
        /\ d_list[v] <= d_list[j] /\ d_list[j] <= d_now
    BY <1>3, <1>4, <1>5, <1>6, <2>1 DEF RegistryInv, OneKey, Dated, DevicesTyped, Devs!On, Times,
      Devs!Older
  <2> QED BY <1>3, <2>2
<1>9. /\ v \in Devs!Keys /\ v[1] = t
      /\ d_call' \in Call /\ d_call'.step = "evict" /\ d_call'.key = k /\ d_call'.at = n
      /\ d_call'.victim = v
  <2>1. v \in Devs!Keys /\ v[1] = t
    BY <1>6 DEF Devs!Of, Devs!On
  <2> HIDE DEF v
  <2> QED BY <1>1, <1>2, <2>1 DEF Call
<1> HIDE DEF v
<1>10. /\ d_list' \in Times /\ IsFiniteSet(Devs!On(d_list'))
       /\ d_list'[v] = None /\ \A j \in Devs!Keys : j # v => d_list'[j] = d_list[j]
  <2>1. d_list' \in Times /\ IsFiniteSet(Devs!On(d_list'))
    BY <1>1, <1>9, Times_ DEF RegistryInv
  <2> QED BY <1>1, <1>3, <1>9, <2>1 DEF Times
<1>11. DevicesTyped'
  BY <1>1, <1>9, <1>10 DEF RegistryInv, DevicesTyped, Devs!On
<1>12. OneKey'
  <2>1. \A j \in Devs!Keys, m \in Nat : Dated(j, m)' => Dated(j, m)
    BY <1>1, <1>2, <1>3, <1>9, <1>10 DEF Dated, Enrolling
  <2> QED BY <1>1, <2>1, NothingNew DEF RegistryInv
<1>13. CallAt'
  BY <1>1, <1>2, <1>3, <1>8, <1>9, <1>10 DEF RegistryInv, CallAt, AgreeBut, Enrolling
<1>14. CountBounded'
  BY <1>10, FewerCounted DEF RegistryInv, Devs!On
<1>15. ASSUME NEW j \in Devs!Keys, d_list[j] # None, d_list'[j] # d_list[j]
       PROVE  \E i \in Devs!Of(d_list, j[1]) : Devs!Older(d_list, j, i)
  BY <1>6, <1>7, <1>9, <1>10, <1>15
<1> QED BY <1>1, <1>11, <1>12, <1>13, <1>14, <1>15 DEF RegistryInv, LateAstray, ToldGone

LEMMA EvictedStep ==
  ASSUME RegistryInv, Devs!Evicted
  PROVE  /\ RegistryInv' /\ d_list' = d_list
         /\ \A t \in DTenants : Devs!Of(d_file, t) # {} /\ Devs!Of(d_file', t) = {} =>
              \E k \in d_stray : k[1] = t
<1>1. /\ d_call.step = "evict" /\ d_file' = [d_file EXCEPT ![d_call.victim] = None]
      /\ d_call' = [step |-> "trim", key |-> d_call.key, at |-> d_call.at]
      /\ UNCHANGED <<d_list, d_now, d_late, d_stray, d_wake, d_gone, d_faults>>
  BY DEF Devs!Evicted
<1>2. PICK k \in Devs!Keys, n \in Nat, v \in Devs!Keys :
        d_call.key = k /\ d_call.at = n /\ d_call.victim = v
  BY <1>1, CallIs DEF RegistryInv, Enrolling
<1>3. /\ v # k /\ v[1] = k[1] /\ d_list[k] = n /\ n = d_now /\ d_list[v] = None /\ AgreeBut({v})
      /\ d_call' \in Call /\ d_call'.step = "trim" /\ d_call'.key = k /\ d_call'.at = n
  BY <1>1, <1>2 DEF RegistryInv, CallAt, Call, Enrolling
<1>4. /\ d_file' \in Times /\ IsFiniteSet(Devs!On(d_file'))
      /\ d_file'[v] = None /\ \A j \in Devs!Keys : j # v => d_file'[j] = d_file[j]
  <2>1. d_file' \in Times /\ IsFiniteSet(Devs!On(d_file'))
    BY <1>1, <1>2, Times_ DEF RegistryInv
  <2> QED BY <1>1, <1>2, <2>1 DEF RegistryInv, DevicesTyped, Times
<1>5. DevicesTyped'
  BY <1>1, <1>3, <1>4 DEF RegistryInv, DevicesTyped, Devs!On
<1>6. OneKey'
  <2>1. \A j \in Devs!Keys, m \in Nat : Dated(j, m)' => Dated(j, m)
    BY <1>1, <1>2, <1>3, <1>4, RegistryAssumed DEF Dated, Enrolling
  <2> QED BY <1>1, <2>1, NothingNew DEF RegistryInv
<1>7. CallAt'
  BY <1>1, <1>3, <1>4 DEF CallAt, AgreeBut, Enrolling
<1>8. CountBounded'
  BY <1>1, FewerCounted DEF RegistryInv, Devs!On
<1>9. ASSUME NEW t \in DTenants, Devs!Of(d_file, t) # {}, Devs!Of(d_file', t) = {}
      PROVE  \E j \in d_stray : j[1] = t
  <2>1. PICK j \in Devs!Keys : d_file[j] # None /\ j[1] = t
    BY <1>9 DEF Devs!Of, Devs!On
  <2>2. j = v
    BY <1>4, <1>9, <2>1 DEF Devs!Of, Devs!On
  <2>3. k[1] = t /\ d_file'[k] = None
    BY <1>3, <1>9, <2>1, <2>2 DEF Devs!Of, Devs!On
  <2>4. k \in d_stray
    BY <1>3, <1>4, <2>3, RegistryAssumed DEF AgreeBut
  <2> QED BY <2>3, <2>4
<1> QED BY <1>1, <1>5, <1>6, <1>7, <1>8, <1>9 DEF RegistryInv, LateAstray, ToldGone

(* The steps that touch neither memory nor the files.                      *)
LEMMA QuietStep ==
  ASSUME RegistryInv,
         \/ Devs!Registered
         \/ Devs!Prune
         \/ \E k \in Devs!Keys : Devs!Forget(k) \/ Devs!Send(k)
         \/ \E a \in Devs!Answers : Devs!Answer(a)
  PROVE  RegistryInv' /\ d_list' = d_list /\ d_file' = d_file
<1>1. /\ d_list' = d_list /\ d_file' = d_file /\ d_now' = d_now /\ d_late' = d_late
      /\ d_stray' = d_stray /\ d_faults' = d_faults /\ d_gone \subseteq d_gone'
  BY DEF Devs!Registered, Devs!Prune, Devs!Forget, Devs!Send, Devs!Answer
<1>2. \/ d_call' = d_call
      \/ d_call' = Devs!Idle /\ d_call.step \in {"trim", "idle"}
      \/ /\ d_call = Devs!Idle
         /\ \E k \in Devs!Keys, by \in {"guest", "forwarder"} :
              /\ d_call' = [step |-> "remove", key |-> k, by |-> by]
              /\ by = "forwarder" => d_list[k] \in d_gone
  <2>1. CASE Devs!Prune
    <3>1. d_call = Devs!Idle /\ d_wake # None /\ d_wake.said = "gone" /\ d_wake.key \in Devs!Keys
      BY <2>1 DEF Devs!Prune, Devs!Free, RegistryInv, DevicesTyped
    <3>2. CASE d_list[d_wake.key] # None /\ Devs!Unchanged(d_wake.key, d_wake.at)
      <4>1. d_call' = [step |-> "remove", key |-> d_wake.key, by |-> "forwarder"]
        BY <2>1, <3>2 DEF Devs!Prune
      <4>2. d_list[d_wake.key] \in d_gone
        BY <3>1, <3>2 DEF RegistryInv, ToldGone, Devs!Unchanged
      <4> QED BY <3>1, <4>1, <4>2
    <3>3. CASE ~(d_list[d_wake.key] # None /\ Devs!Unchanged(d_wake.key, d_wake.at))
      BY <2>1, <3>1, <3>3 DEF Devs!Prune, Devs!Idle
    <3> QED BY <3>2, <3>3
  <2>2. CASE \E k \in Devs!Keys : Devs!Forget(k)
    BY <2>2 DEF Devs!Forget, Devs!Free
  <2>3. CASE Devs!Registered
    BY <2>3 DEF Devs!Registered
  <2>4. CASE (\E k \in Devs!Keys : Devs!Send(k)) \/ \E a \in Devs!Answers : Devs!Answer(a)
    BY <2>4 DEF Devs!Send, Devs!Answer
  <2> QED BY <2>1, <2>2, <2>3, <2>4
<1> DEFINE Wakes ==
             /\ d_wake \in {None} \cup [key : Devs!Keys, at : Nat, said : {"nothing", "gone"}]
             /\ ToldGone
<1>3. Wakes'
  <2>1. CASE Devs!Registered \/ Devs!Prune \/ \E k \in Devs!Keys : Devs!Forget(k)
    BY <2>1 DEF Devs!Registered, Devs!Prune, Devs!Forget, RegistryInv, DevicesTyped, ToldGone
  <2>2. ASSUME NEW k \in Devs!Keys, Devs!Send(k) PROVE Wakes'
    BY <2>2 DEF Devs!Send, RegistryInv, DevicesTyped, Times, ToldGone
  <2>3. ASSUME NEW a \in Devs!Answers, Devs!Answer(a) PROVE Wakes'
    BY <2>3 DEF Devs!Answer, Devs!Classify, RegistryInv, DevicesTyped, ToldGone
  <2> QED BY <2>1, <2>2, <2>3
<1>4. d_call' \in Call
  BY <1>2 DEF RegistryInv, DevicesTyped, Call
<1>5. DevicesTyped'
  BY <1>1, <1>3, <1>4 DEF RegistryInv, DevicesTyped, Devs!On
<1>6. OneKey'
  <2>1. d_call'.step \in Enrolling => d_call' = d_call
    BY <1>2 DEF Enrolling, Devs!Idle
  <2>2. \A j \in Devs!Keys, m \in Nat : Dated(j, m)' => Dated(j, m)
    BY <1>1, <2>1 DEF Dated
  <2> QED BY <1>1, <2>2, NothingNew DEF RegistryInv
<1>7. CallAt'
  <2>1. CASE d_call' = d_call
    BY <1>1, <2>1 DEF RegistryInv, CallAt, AgreeBut, Enrolling, Devs!On
  <2>2. CASE d_call' # d_call
    <3>1. AgreeBut({})
      BY <1>2, <2>2 DEF RegistryInv, CallAt, Devs!Idle
    <3>2. /\ d_call'.step \in {"idle", "remove"}
          /\ d_call'.step = "remove" /\ d_call'.by = "forwarder" => d_list[d_call'.key] \in d_gone
      BY <1>2, <2>2 DEF Devs!Idle
    <3> QED BY <1>1, <3>1, <3>2 DEF CallAt, AgreeBut, Enrolling
  <2> QED BY <2>1, <2>2
<1> QED BY <1>1, <1>3, <1>5, <1>6, <1>7 DEF RegistryInv, LateAstray, ToldGone, CountBounded,
      Devs!On

LEMMA RemovedStep ==
  ASSUME RegistryInv, Devs!Removed
  PROVE  /\ RegistryInv'
         /\ \A k \in Devs!Keys : d_list[k] # None /\ d_list'[k] # d_list[k] =>
              \/ d_call.step = "remove" /\ d_call.key = k /\ d_call.by = "guest"
              \/ d_list[k] \in d_gone
         /\ \A t \in DTenants : Devs!Of(d_file, t) # {} /\ Devs!Of(d_file', t) = {} =>
              d_call.step = "remove" /\ d_call.key[1] = t
<1>1. /\ d_call.step = "remove" /\ d_call' = Devs!Idle
      /\ d_file' = [d_file EXCEPT ![d_call.key] = None]
      /\ d_list' = [d_list EXCEPT ![d_call.key] = None]
      /\ d_stray' = IF \E o \in d_late : o.key = d_call.key
                    THEN d_stray ELSE d_stray \ {d_call.key}
      /\ UNCHANGED <<d_now, d_late, d_wake, d_gone, d_faults>>
  BY DEF Devs!Removed
<1>2. PICK k \in Devs!Keys : d_call.key = k
  BY <1>1, CallIs DEF RegistryInv
<1>3. d_call.by \in {"guest", "forwarder"} /\ AgreeBut({})
  BY <1>1, CallIs DEF RegistryInv, CallAt
<1>4. /\ d_file' \in Times /\ IsFiniteSet(Devs!On(d_file'))
      /\ d_list' \in Times /\ IsFiniteSet(Devs!On(d_list'))
  BY <1>1, <1>2, Times_ DEF RegistryInv
<1>5. /\ d_file'[k] = None /\ \A j \in Devs!Keys : j # k => d_file'[j] = d_file[j]
      /\ d_list'[k] = None /\ \A j \in Devs!Keys : j # k => d_list'[j] = d_list[j]
  BY <1>1, <1>2 DEF RegistryInv, DevicesTyped, Times
<1>6. DevicesTyped'
  <2>1. d_call' \in Call /\ d_stray' \subseteq Devs!Keys
    BY <1>1 DEF Call, RegistryInv, DevicesTyped
  <2> QED BY <1>1, <1>4, <2>1 DEF RegistryInv, DevicesTyped, Devs!On
<1>7. OneKey'
  <2>1. \A j \in Devs!Keys, m \in Nat : Dated(j, m)' => Dated(j, m)
    BY <1>1, <1>5, RegistryAssumed DEF Dated, Enrolling, Devs!Idle
  <2> QED BY <1>1, <2>1, NothingNew DEF RegistryInv
<1>8. CallAt'
  <2>1. \A j \in Devs!Keys : j # k => (j \in d_stray' <=> j \in d_stray)
    BY <1>1, <1>2
  <2> QED BY <1>1, <1>3, <1>5, <2>1 DEF CallAt, AgreeBut, Enrolling, Devs!Idle
<1>9. LateAstray'
  BY <1>1, <1>2 DEF RegistryInv, LateAstray
<1>10. CountBounded'
  BY <1>5, FewerCounted DEF RegistryInv, Devs!On
<1>11. ASSUME NEW j \in Devs!Keys, d_list[j] # None, d_list'[j] # d_list[j]
       PROVE  (d_call.key = j /\ d_call.by = "guest") \/ d_list[j] \in d_gone
  BY <1>1, <1>2, <1>3, <1>5, <1>11 DEF RegistryInv, CallAt
<1>12. ASSUME NEW t \in DTenants, Devs!Of(d_file, t) # {}, Devs!Of(d_file', t) = {}
       PROVE  d_call.key[1] = t
  BY <1>2, <1>5, <1>12 DEF Devs!Of, Devs!On
<1> QED BY <1>1, <1>6, <1>7, <1>8, <1>9, <1>10, <1>11, <1>12 DEF RegistryInv, ToldGone

LEMMA FaultStep ==
  ASSUME RegistryInv, Devs!Dropped \/ Devs!Fails
  PROVE  RegistryInv' /\ d_list' = d_list /\ d_file' = d_file
<1>1. /\ d_list' = d_list /\ d_file' = d_file /\ d_now' = d_now /\ d_wake' = d_wake
      /\ d_gone' = d_gone /\ d_faults' = d_faults + 1 /\ d_call' = Devs!Idle
      /\ d_call.step \in {"write", "evict", "remove"}
  BY DEF Devs!Dropped, Devs!Fails, Devs!Writing, Devs!Removing
<1>2. /\ Devs!Target \in Devs!Keys
      /\ d_call.step = "evict" => AgreeBut({Devs!Target})
      /\ d_call.step \in {"write", "remove"} => AgreeBut({}) /\ Devs!Target = d_call.key
      /\ d_call.step = "write" => d_call.at \in Nat
  BY <1>1, CallIs DEF RegistryInv, CallAt, Devs!Target, Enrolling
<1>3. /\ d_stray \subseteq d_stray' /\ d_stray' \subseteq d_stray \cup {Devs!Target}
      /\ d_call.step = "evict" => Devs!Target \in d_stray'
      /\ \/ d_late' = d_late
         \/ /\ Devs!Target \in d_stray'
            /\ d_late' = d_late \cup
                 {[key |-> Devs!Target, to |-> IF d_call.step = "write" THEN d_call.at ELSE None]}
  BY <1>1 DEF Devs!Dropped, Devs!Fails, Devs!Writing, Devs!Removing
<1> DEFINE late == [key |-> Devs!Target, to |-> IF d_call.step = "write" THEN d_call.at ELSE None]
<1>4. late \in Operation
  BY <1>2 DEF Operation
<1>5. DevicesTyped'
  <2>1. d_late' \subseteq Operation
    BY <1>3, <1>4 DEF RegistryInv, DevicesTyped
  <2>2. d_call' \in Call
    BY <1>1 DEF Call
  <2> QED BY <1>1, <1>2, <1>3, <2>1, <2>2 DEF RegistryInv, DevicesTyped, Devs!On
<1>6. OneKey'
  <2>1. ASSUME NEW j \in Devs!Keys, NEW m \in Nat, Dated(j, m)' PROVE Dated(j, m)
    <3>1. ASSUME NEW o \in d_late', o.key = j, o.to = m PROVE Dated(j, m)
      <4>1. CASE o \in d_late
        BY <3>1, <4>1 DEF Dated
      <4>2. CASE o = late
        BY <1>2, <3>1, <4>2, RegistryAssumed DEF Dated, Enrolling
      <4> QED BY <1>3, <3>1, <4>1, <4>2
    <3> QED BY <1>1, <2>1, <3>1 DEF Dated, Enrolling, Devs!Idle
  <2> QED BY <1>1, <2>1, NothingNew DEF RegistryInv
<1>7. CallAt'
  <2>1. AgreeBut({})'
    BY <1>1, <1>2, <1>3 DEF AgreeBut
  <2> QED BY <1>1, <2>1 DEF CallAt, Devs!Idle, Enrolling
<1>8. LateAstray'
  BY <1>3 DEF RegistryInv, LateAstray
<1> QED BY <1>1, <1>5, <1>6, <1>7, <1>8 DEF RegistryInv, ToldGone, CountBounded, Devs!On

LEMMA LandsStep ==
  ASSUME RegistryInv, NEW o \in d_late, Devs!Lands(o)
  PROVE  /\ RegistryInv' /\ d_list' = d_list
         /\ \A t \in DTenants : Devs!Of(d_file, t) # {} /\ Devs!Of(d_file', t) = {} =>
              \E k \in d_stray : k[1] = t
<1>1. /\ d_late' = d_late \ {o} /\ d_file' = [d_file EXCEPT ![o.key] = o.to]
      /\ UNCHANGED <<d_list, d_call, d_now, d_stray, d_wake, d_gone, d_faults>>
  BY DEF Devs!Lands
<1>2. PICK k \in Devs!Keys, n \in Nat \cup {None} : o.key = k /\ o.to = n /\ k \in d_stray
  BY DEF RegistryInv, DevicesTyped, Operation, LateAstray
<1>3. d_file' \in Times /\ IsFiniteSet(Devs!On(d_file'))
  BY <1>1, <1>2, Times_ DEF RegistryInv
<1>4. d_file'[k] = n /\ \A j \in Devs!Keys : j # k => d_file'[j] = d_file[j]
  BY <1>1, <1>2 DEF RegistryInv, DevicesTyped, Times
<1>5. DevicesTyped'
  BY <1>1, <1>3 DEF RegistryInv, DevicesTyped, Devs!On
<1>6. OneKey'
  <2>1. \A j \in Devs!Keys, m \in Nat : Dated(j, m)' => Dated(j, m)
    BY <1>1, <1>2, <1>4 DEF Dated
  <2> QED BY <1>1, <2>1, NothingNew DEF RegistryInv
<1>7. CallAt'
  BY <1>1, <1>2, <1>4 DEF RegistryInv, CallAt, AgreeBut, Devs!On, Enrolling
<1>8. ASSUME NEW t \in DTenants, Devs!Of(d_file, t) # {}, Devs!Of(d_file', t) = {}
      PROVE  \E j \in d_stray : j[1] = t
  BY <1>2, <1>4, <1>8 DEF Devs!Of, Devs!On
<1> QED BY <1>1, <1>5, <1>6, <1>7, <1>8 DEF RegistryInv, LateAstray, ToldGone, CountBounded,
      Devs!On

LEMMA RestartStep ==
  ASSUME RegistryInv, Devs!Restart
  PROVE  RegistryInv' /\ d_faults' > d_faults
<1>1. /\ d_file' = [k \in Devs!Keys |-> IF k \in Devs!Kept(d_file) THEN d_file[k] ELSE None]
      /\ d_list' = d_file' /\ d_call' = Devs!Idle /\ d_late' = {} /\ d_stray' = {}
      /\ d_wake' = None /\ d_faults' = d_faults + 1 /\ d_now' = d_now /\ d_gone' = d_gone
  BY DEF Devs!Restart
<1>2. /\ d_file \in Times /\ IsFiniteSet(Devs!On(d_file))
      /\ \A j, k \in Devs!On(d_file) : d_file[j] = d_file[k] => j = k
  BY DEF RegistryInv, DevicesTyped, OneKey, Dated, Devs!On, Times
<1>3. IsFiniteSet(Devs!Kept(d_file)) /\ Cardinality(Devs!Kept(d_file)) <= MaxDevices
  BY <1>2, KeptBounded
<1>4. /\ d_file' \in Times /\ \A k \in Devs!Keys : d_file'[k] \in {d_file[k], None}
      /\ Devs!On(d_file') \subseteq Devs!Kept(d_file)
  BY <1>1, <1>2 DEF Times, Devs!On
<1>5. /\ IsFiniteSet(Devs!On(d_file'))
      /\ Cardinality(Devs!On(d_file')) <= Cardinality(Devs!Kept(d_file))
  BY <1>3, <1>4, FS_Subset
<1>6. DevicesTyped'
  <2>1. d_call' \in Call
    BY <1>1 DEF Call
  <2> QED BY <1>1, <1>4, <1>5, <2>1 DEF RegistryInv, DevicesTyped, Devs!On
<1>7. OneKey'
  <2>1. \A j \in Devs!Keys, m \in Nat : Dated(j, m)' => Dated(j, m)
    BY <1>1, <1>4, RegistryAssumed DEF Dated, Enrolling, Devs!Idle
  <2> QED BY <1>1, <2>1, NothingNew DEF RegistryInv
<1>8. CountBounded'
  <2>1. Cardinality(Devs!On(d_file')) \in Nat /\ Cardinality(Devs!Kept(d_file)) \in Nat
    BY <1>3, <1>5, FS_CardinalityType
  <2>2. Cardinality(Devs!On(d_file')) <= MaxDevices
    BY <1>3, <1>5, <2>1, RegistryAssumed
  <2>3. Devs!On(d_list)' = Devs!On(d_file')
    BY <1>1 DEF Devs!On
  <2> QED BY <2>2, <2>3 DEF CountBounded
<1>9. CallAt'
  BY <1>1 DEF CallAt, AgreeBut, Enrolling, Devs!Idle
<1>10. d_faults' > d_faults
  BY <1>1 DEF RegistryInv, DevicesTyped
<1> QED BY <1>1, <1>6, <1>7, <1>8, <1>9, <1>10 DEF RegistryInv, LateAstray, ToldGone

LEMMA RegistryInit == Devs!Init => RegistryInv
<1> SUFFICES ASSUME Devs!Init PROVE RegistryInv
  OBVIOUS
<1>1. /\ d_file = [k \in Devs!Keys |-> None] /\ d_list = d_file /\ d_call = Devs!Idle
      /\ d_now = 0 /\ d_late = {} /\ d_stray = {} /\ d_wake = None /\ d_faults = 0
  BY DEF Devs!Init
<1>2. Devs!On(d_list) = {} /\ Devs!On(d_file) = {}
  BY <1>1 DEF Devs!On
<1>3. DevicesTyped
  BY <1>1, <1>2, FS_EmptySet DEF DevicesTyped, Times, Call
<1>4. OneKey
  BY <1>1, RegistryAssumed DEF OneKey, Dated, Enrolling, Devs!Idle
<1>5. CallAt
  BY <1>1 DEF CallAt, AgreeBut, Enrolling, Devs!Idle
<1>6. CountBounded
  BY <1>2, FS_EmptySet, RegistryAssumed DEF CountBounded
<1> QED BY <1>1, <1>3, <1>4, <1>5, <1>6 DEF RegistryInv, LateAstray, ToldGone

(* What a step may do to a device, and to a tenant's last one.             *)
ForCause ==
  \A k \in Devs!Keys :
    d_list[k] # None /\ d_list'[k] # d_list[k] =>
      \/ d_call.step = "remove" /\ d_call.key = k /\ d_call.by = "guest"
      \/ \E j \in Devs!Of(d_list, k[1]) : Devs!Older(d_list, k, j)
      \/ d_list[k] \in d_gone
      \/ d_faults' > d_faults

NotEmptied ==
  \A t \in DTenants :
    Devs!Of(d_file, t) # {} /\ Devs!Of(d_file', t) = {} =>
      \/ d_call.step = "remove" /\ d_call.key[1] = t
      \/ \E k \in d_stray : k[1] = t
      \/ d_faults' > d_faults

LEMMA RegistryNext ==
  ASSUME RegistryInv, [Devs!Next]_Devs!vars
  PROVE  RegistryInv' /\ [ForCause /\ NotEmptied]_Devs!vars
<1>1. CASE UNCHANGED Devs!vars
  BY <1>1 DEF Devs!vars, RegistryInv, DevicesTyped, OneKey, Dated, CallAt, AgreeBut, LateAstray,
    ToldGone, CountBounded, Devs!On
<1>2. CASE d_list' = d_list /\ d_file' = d_file /\ RegistryInv'
  BY <1>2 DEF ForCause, NotEmptied
<1>3. ASSUME NEW k \in Devs!Keys, Devs!Register(k) PROVE RegistryInv' /\ ForCause /\ NotEmptied
  BY <1>3, RegisterStep DEF Devs!Register, ForCause, NotEmptied
<1>4. CASE Devs!Publish
  <2>1. NotEmptied
    <3>1. d_file' = [d_file EXCEPT ![d_call.key] = d_call.at] /\ d_call.at \in Nat
          /\ d_call.key \in Devs!Keys
      BY <1>4, CallIs DEF Devs!Publish, RegistryInv, Enrolling
    <3> QED BY <3>1, RegistryAssumed DEF NotEmptied, Devs!Of, Devs!On, RegistryInv, DevicesTyped,
          Times
  <2> QED BY <1>4, <2>1, PublishStep DEF Devs!Publish, ForCause
<1>5. CASE Devs!Push
  <2>1. ForCause
    <3>1. d_list' = [d_list EXCEPT ![d_call.key] = d_call.at] /\ d_list[d_call.key] = None
      BY <1>5 DEF Devs!Push, RegistryInv, CallAt
    <3> QED BY <3>1 DEF ForCause, RegistryInv, DevicesTyped, Times
  <2> QED BY <1>5, <2>1, PushStep DEF Devs!Push, NotEmptied
<1>6. CASE Devs!Evict
  BY <1>6, EvictStep DEF Devs!Evict, ForCause, NotEmptied
<1>7. CASE Devs!Evicted
  BY <1>7, EvictedStep DEF ForCause, NotEmptied
<1>8. CASE Devs!Removed
  BY <1>8, RemovedStep DEF ForCause, NotEmptied
<1>9. ASSUME NEW o \in d_late, Devs!Lands(o) PROVE RegistryInv' /\ ForCause /\ NotEmptied
  BY <1>9, LandsStep DEF ForCause, NotEmptied
<1>10. CASE Devs!Restart
  BY <1>10, RestartStep DEF ForCause, NotEmptied
<1> QED BY <1>1, <1>2, <1>3, <1>4, <1>5, <1>6, <1>7, <1>8, <1>9, <1>10, QuietStep, FaultStep
      DEF Devs!Next

LEMMA Causes == [ForCause /\ NotEmptied]_Devs!vars =>
                  [ForCause]_Devs!vars /\ [NotEmptied]_Devs!vars
OBVIOUS

(* For any tenants, tokens, limits and faults: the list a push goes by is  *)
(* the one a restart would load, but for the calls cut short, and it never *)
(* outgrows the cap (register, forget, prune, open).                       *)
THEOREM RegistryIsKept ==
  /\ Devs!Spec => []Devs!RegistryHolds
  /\ SumSpec => []RegistryHolds
<1>1. RegistryInv => Devs!RegistryHolds
  <2> SUFFICES ASSUME RegistryInv PROVE Devs!RegistryHolds
    OBVIOUS
  <2>1. Devs!Mirrored
    BY CallIs DEF RegistryInv, CallAt, AgreeBut, Devs!Mirrored
  <2>2. Devs!StoreBounded
    BY SameCount DEF RegistryInv, CountBounded, Devs!StoreBounded
  <2> QED BY <2>1, <2>2 DEF Devs!RegistryHolds
<1>2. RegistryInv /\ [Devs!Next]_Devs!vars => RegistryInv'
  BY RegistryNext
<1>3. Devs!Spec => []Devs!RegistryHolds
  BY RegistryInit, <1>1, <1>2, PTL DEF Devs!Spec
<1>4. SumInit => RegistryInv
  BY RegistryInit DEF SumInit
<1>5. [SumNext]_Sum => [Devs!Next]_Devs!vars
  BY DEF SumNext, Sum, d_vars, Devs!vars
<1>6. RegistryInv => RegistryHolds
  BY <1>1 DEF RegistryHolds
<1>7. SumSpec => []RegistryHolds
  BY <1>2, <1>4, <1>5, <1>6, PTL DEF SumSpec
<1> QED BY <1>3, <1>7

(* For any of them too: a device leaves only because its tenant said so, a *)
(* newer one took its place, the push service said that it is gone, or the *)
(* enclave restarted; and no step takes a tenant's last one for another    *)
(* reason (register, forget, forget_if_unchanged).                         *)
THEOREM DevicesLeaveForCause ==
  /\ Devs!Spec => Devs!DevicesStay
  /\ SumSpec => DevicesStay
<1>1. RegistryInv /\ [Devs!Next]_Devs!vars =>
        RegistryInv' /\ [ForCause]_Devs!vars /\ [NotEmptied]_Devs!vars
  BY RegistryNext
<1>2. Devs!Spec => [][ForCause]_Devs!vars /\ [][NotEmptied]_Devs!vars
  BY RegistryInit, <1>1, PTL DEF Devs!Spec
<1>3. SumInit => RegistryInv
  BY RegistryInit DEF SumInit
<1>4. [SumNext]_Sum => [Devs!Next]_Devs!vars
  BY DEF SumNext, Sum, d_vars, Devs!vars
<1>5. SumSpec => [][ForCause]_Devs!vars /\ [][NotEmptied]_Devs!vars
  BY <1>1, <1>3, <1>4, PTL DEF SumSpec
<1>6. [][ForCause]_Devs!vars /\ [][NotEmptied]_Devs!vars => Devs!DevicesStay
  BY PTL DEF ForCause, NotEmptied, Devs!DevicesStay, Devs!OnlyForCause, Devs!NeverEmptied
<1> QED BY <1>2, <1>5, <1>6 DEF DevicesStay

-----------------------------------------------------------------------------
(* Notify, for any tenants, categories, raisers and limits.  MarksHold is  *)
(* not inductive.  The proof adds                                          *)
(*   - how long the forwarder's queues are at each step of a turn (Room);  *)
(*   - that only the newest of pending was never tried, and that what was  *)
(*     never tried is due (Untried): why the trim, which drops the oldest, *)
(*     and the sweep, which carries what is not due, leave no mark behind; *)
(*   - that a tenant's marks are within its cap (Capped); and              *)
(*   - until the first retry, that every wake waiting has its mark and is  *)
(*     the only one of its key (Once), so counting wakes is counting marks.*)

MarksTyped ==
  /\ inflight \subseteq Keys /\ IsFiniteSet(inflight)
  /\ raiser \in [Raisers -> Keys \cup {Nobody}]
  /\ channel \in Seq(Keys) /\ Len(channel) <= QueueCapacity
  /\ pending \in Seq(Wake) /\ carry \in Seq(Wake)
  /\ forwarder \in {"select", "trim", "sweep", "send", "flush", "stopped"}
  /\ sending \in Wake \cup {NoWake} /\ (forwarder = "send" => sending \in Wake)
  /\ stop \in BOOLEAN /\ retried \in BOOLEAN /\ raises \in 0..MaxRaises

Room ==
  /\ forwarder \in {"select", "trim", "flush", "stopped"} => carry = <<>>
  /\ forwarder = "select" => Len(pending) <= MaxPending
  /\ forwarder = "trim" => Len(pending) <= MaxPending + 1
  /\ forwarder = "sweep" => Len(pending) + Len(carry) <= MaxPending
  /\ forwarder = "send" => Len(pending) + Len(carry) < MaxPending
  /\ forwarder \in {"flush", "stopped"} => Len(pending) <= MaxPending + QueueCapacity

Untried ==
  /\ \A n \in DOMAIN pending : pending[n].fresh => pending[n].due
  /\ \A n \in DOMAIN carry : ~carry[n].fresh
  /\ forwarder = "select" => \A n \in DOMAIN pending : ~pending[n].fresh
  /\ forwarder \in {"trim", "sweep", "send"} =>
       \A n \in DOMAIN pending : pending[n].fresh => n = Len(pending)

(* A wake of this category will be attempted.                              *)
Behind(k) ==
  \/ \E r \in Raisers : raiser[r] = k
  \/ \E n \in DOMAIN channel : channel[n] = k
  \/ \E n \in DOMAIN pending : pending[n].key = k /\ pending[n].fresh

Marked == forwarder # "stopped" => \A k \in inflight : Behind(k)

Capped == \A t \in Tenants : Cardinality(Held(t)) <= MaxInflight

AllMarked ==
  /\ \A r \in Raisers : raiser[r] # Nobody => raiser[r] \in inflight
  /\ \A n \in DOMAIN channel : channel[n] \in inflight
  /\ \A n \in DOMAIN pending : pending[n].key \in inflight

Apart ==
  /\ \A r, s \in Raisers : raiser[r] # Nobody /\ raiser[r] = raiser[s] => r = s
  /\ \A m, n \in DOMAIN channel : channel[m] = channel[n] => m = n
  /\ \A m, n \in DOMAIN pending : pending[m].key = pending[n].key => m = n
  /\ \A r \in Raisers : \A n \in DOMAIN channel : raiser[r] # channel[n]
  /\ \A r \in Raisers : \A n \in DOMAIN pending : raiser[r] # pending[n].key
  /\ \A m \in DOMAIN channel : \A n \in DOMAIN pending : channel[m] # pending[n].key

AllFresh == \A n \in DOMAIN pending : pending[n].fresh

Once == ~retried => carry = <<>> /\ AllFresh /\ AllMarked /\ Apart

MarksInv == MarksTyped /\ Room /\ Untried /\ Marked /\ Capped /\ Once

LEMMA KeysAre ==
  /\ Nobody \notin Keys
  /\ \A w \in Wake : w.key \in Keys /\ w.fresh \in BOOLEAN /\ w.due \in BOOLEAN
  /\ \A k \in Keys : Received(k) \in Wake /\ Received(k).key = k /\ Received(k).fresh
                     /\ Received(k).due
BY DEF Keys, Nobody, Wake, Received

LEMMA NotifyAssumed ==
  /\ QueueCapacity \in Nat \ {0} /\ MaxInflight \in Nat \ {0} /\ MaxPending \in Nat \ {0}
  /\ MaxRaises \in Nat /\ IsFiniteSet(Raisers)
BY NotifyAssumption

(* The cap is kept by whatever adds no mark.                               *)
LEMMA CapKept ==
  ASSUME MarksTyped, Capped, inflight' \subseteq inflight
  PROVE  Capped' /\ IsFiniteSet(inflight')
<1>1. IsFiniteSet(inflight')
  BY FS_Subset DEF MarksTyped
<1>2. ASSUME NEW t \in Tenants PROVE Cardinality(Held(t)') <= MaxInflight
  <2>1. Held(t) \subseteq inflight /\ Held(t)' \subseteq Held(t)
    BY DEF Held
  <2>2. IsFiniteSet(Held(t))
    BY <2>1, FS_Subset DEF MarksTyped
  <2>3. Cardinality(Held(t)') <= Cardinality(Held(t)) /\ IsFiniteSet(Held(t)')
    BY <2>1, <2>2, FS_Subset
  <2>4. Cardinality(Held(t)') \in Nat /\ Cardinality(Held(t)) \in Nat
    BY <2>2, <2>3, FS_CardinalityType
  <2> QED BY <2>3, <2>4, NotifyAssumed DEF Capped
<1> QED BY <1>1, <1>2 DEF Capped

LEMMA InsertStep ==
  ASSUME MarksInv, NEW r \in Raisers, NEW k \in Keys, RaiseInsert(r, k)
  PROVE  MarksInv'
<1>1. /\ raiser[r] = Nobody /\ raises < MaxRaises /\ k \notin inflight
      /\ Cardinality(Held(k[1])) < MaxInflight
      /\ inflight' = inflight \cup {k} /\ raises' = raises + 1
      /\ raiser' = [raiser EXCEPT ![r] = k]
      /\ UNCHANGED <<channel, pending, carry, forwarder, sending, stop, retried>>
  BY DEF RaiseInsert
<1>2. /\ raiser' \in [Raisers -> Keys \cup {Nobody}] /\ raiser'[r] = k
      /\ \A s \in Raisers : s # r => raiser'[s] = raiser[s]
  BY <1>1 DEF MarksInv, MarksTyped
<1>3. MarksTyped'
  <2>1. inflight' \subseteq Keys /\ IsFiniteSet(inflight')
    BY <1>1, FS_AddElement DEF MarksInv, MarksTyped
  <2>2. raises' \in 0..MaxRaises
    BY <1>1, NotifyAssumed DEF MarksInv, MarksTyped
  <2> QED BY <1>1, <1>2, <2>1, <2>2 DEF MarksInv, MarksTyped
<1>4. Room' /\ Untried'
  BY <1>1 DEF MarksInv, Room, Untried
<1>5. Marked'
  <2>1. \A j \in Keys : Behind(j) => Behind(j)'
    BY <1>1, <1>2, KeysAre DEF Behind
  <2>2. Behind(k)'
    BY <1>2 DEF Behind
  <2> QED BY <1>1, <2>1, <2>2 DEF MarksInv, MarksTyped, Marked
<1>6. Capped'
  <2> SUFFICES ASSUME NEW t \in Tenants PROVE Cardinality(Held(t)') <= MaxInflight
    BY DEF Capped
  <2>1. IsFiniteSet(Held(t)) /\ Cardinality(Held(t)) \in Nat
    <3>1. Held(t) \subseteq inflight
      BY DEF Held
    <3> QED BY <3>1, FS_Subset, FS_CardinalityType DEF MarksInv, MarksTyped
  <2>2. CASE t = k[1]
    <3>1. Held(t)' = Held(t) \cup {k}
      BY <1>1, <2>2 DEF Held
    <3>2. Cardinality(Held(t) \cup {k}) <= Cardinality(Held(t)) + 1
      <4>1. Cardinality(Held(t) \cup {k}) = IF k \in Held(t) THEN Cardinality(Held(t))
                                             ELSE Cardinality(Held(t)) + 1
        BY <2>1, FS_AddElement
      <4> QED BY <2>1, <4>1
    <3>3. Cardinality(Held(t) \cup {k}) \in Nat
      BY <2>1, FS_AddElement, FS_CardinalityType
    <3>4. Cardinality(Held(t)) < MaxInflight
      BY <1>1, <2>2
    <3> QED BY <2>1, <3>1, <3>2, <3>3, <3>4, NotifyAssumed
  <2>3. CASE t # k[1]
    <3>1. Held(t)' = Held(t)
      BY <1>1, <2>3 DEF Held
    <3> QED BY <3>1 DEF MarksInv, Capped
  <2> QED BY <2>2, <2>3
<1>7. Once'
  <2> SUFFICES ASSUME ~retried PROVE carry = <<>> /\ AllFresh /\ AllMarked' /\ Apart'
    BY <1>1 DEF Once, AllFresh
  <2>1. carry = <<>> /\ AllFresh /\ AllMarked /\ Apart
    BY DEF MarksInv, Once
  <2>2. AllMarked'
    BY <1>1, <1>2, <2>1 DEF AllMarked
  <2>3. Apart'
    BY <1>1, <1>2, <2>1, KeysAre DEF AllMarked, Apart
  <2> QED BY <2>1, <2>2, <2>3
<1> QED BY <1>3, <1>4, <1>5, <1>6, <1>7 DEF MarksInv

LEMMA SendStep ==
  ASSUME MarksInv, NEW r \in Raisers, RaiseSend(r)
  PROVE  MarksInv'
<1>1. /\ raiser[r] # Nobody /\ raiser' = [raiser EXCEPT ![r] = Nobody]
      /\ UNCHANGED <<pending, carry, forwarder, sending, stop, retried, raises>>
      /\ \/ /\ Len(channel) < QueueCapacity /\ forwarder # "stopped"
            /\ channel' = Append(channel, raiser[r]) /\ inflight' = inflight
         \/ inflight' = inflight \ {raiser[r]} /\ channel' = channel
  BY DEF RaiseSend
<1>2. PICK k \in Keys : raiser[r] = k
  BY <1>1 DEF MarksInv, MarksTyped
<1>3. /\ raiser' \in [Raisers -> Keys \cup {Nobody}] /\ raiser'[r] = Nobody
      /\ \A s \in Raisers : s # r => raiser'[s] = raiser[s]
  BY <1>1 DEF MarksInv, MarksTyped
<1>4. Room' /\ Untried'
  BY <1>1 DEF MarksInv, Room, Untried
<1>5. Capped' /\ IsFiniteSet(inflight')
  BY <1>1, CapKept DEF MarksInv
<1>6. CASE /\ Len(channel) < QueueCapacity /\ forwarder # "stopped"
           /\ channel' = Append(channel, k) /\ inflight' = inflight
  <2> DEFINE n == Len(channel)
  <2>1. /\ channel' \in Seq(Keys) /\ Len(channel') = n + 1 /\ channel'[n + 1] = k
        /\ n \in Nat /\ DOMAIN channel = 1..n /\ DOMAIN channel' = 1..n+1
        /\ \A m \in 1..n : channel'[m] = channel[m]
    BY <1>2, <1>6 DEF MarksInv, MarksTyped
  <2>2. MarksTyped'
    <3>1. n + 1 <= QueueCapacity
      BY <1>6, <2>1, NotifyAssumed
    <3>2. channel' \in Seq(Keys) /\ Len(channel') <= QueueCapacity
      BY <2>1, <3>1
    <3> QED BY <1>1, <1>3, <1>5, <1>6, <3>2 DEF MarksInv, MarksTyped
  <2>3. Marked'
    <3>1. ASSUME NEW j \in inflight, Behind(j) PROVE Behind(j)'
      <4>1. CASE j = k
        BY <2>1, <4>1 DEF Behind
      <4>2. CASE j # k
        BY <1>1, <1>2, <1>3, <2>1, <3>1, <4>2 DEF Behind
      <4> QED BY <4>1, <4>2
    <3> QED BY <1>1, <1>6, <3>1 DEF MarksInv, Marked
  <2>4. Once'
    <3> SUFFICES ASSUME ~retried PROVE carry = <<>> /\ AllFresh /\ AllMarked' /\ Apart'
      BY <1>1 DEF Once, AllFresh
    <3>1. carry = <<>> /\ AllFresh /\ AllMarked /\ Apart
      BY DEF MarksInv, Once
    <3>2. AllMarked'
      <4>1. k \in inflight
        BY <1>1, <1>2, <3>1 DEF AllMarked
      <4>2. \A m \in DOMAIN channel' : channel'[m] \in inflight
        <5> SUFFICES ASSUME NEW m \in 1..n+1 PROVE channel'[m] \in inflight
          BY <2>1
        <5>1. CASE m = n + 1
          BY <2>1, <4>1, <5>1
        <5>2. CASE m # n + 1
          <6>1. m \in 1..n
            BY <2>1, <5>2
          <6> QED BY <2>1, <3>1, <6>1 DEF AllMarked
        <5> QED BY <5>1, <5>2
      <4>3. \A s \in Raisers : raiser'[s] # Nobody => raiser'[s] \in inflight
        BY <1>3, <3>1 DEF AllMarked
      <4> QED BY <1>1, <1>6, <3>1, <4>2, <4>3 DEF AllMarked
    <3>3. Apart'
      <4>1. \A i, m \in DOMAIN channel' : channel'[i] = channel'[m] => i = m
        BY <1>1, <1>2, <2>1, <3>1 DEF Apart
      <4>2. \A s \in Raisers : \A i \in DOMAIN channel' : raiser'[s] # channel'[i]
        <5>1. \A i \in DOMAIN channel' : channel'[i] \in Keys
          BY <2>1
        <5>2. \A s \in Raisers : s # r => raiser'[s] # k
          BY <1>1, <1>2, <1>3, <3>1 DEF Apart
        <5> QED BY <1>3, <2>1, <3>1, <5>1, <5>2, KeysAre DEF Apart
      <4>3. \A i \in DOMAIN channel' : \A m \in DOMAIN pending : channel'[i] # pending[m].key
        BY <1>2, <2>1, <3>1 DEF Apart
      <4>4. \A s, u \in Raisers : raiser'[s] # Nobody /\ raiser'[s] = raiser'[u] => s = u
        BY <1>3, <3>1 DEF Apart
      <4>5. \A s \in Raisers : \A m \in DOMAIN pending : raiser'[s] # pending[m].key
        BY <1>3, <3>1, KeysAre DEF Apart, MarksInv, MarksTyped
      <4> QED BY <1>1, <3>1, <4>1, <4>2, <4>3, <4>4, <4>5 DEF Apart
    <3> QED BY <3>1, <3>2, <3>3
  <2> QED BY <1>4, <1>5, <2>2, <2>3, <2>4 DEF MarksInv
<1>7. CASE inflight' = inflight \ {k} /\ channel' = channel
  <2>1. MarksTyped'
    BY <1>1, <1>3, <1>5, <1>7 DEF MarksInv, MarksTyped
  <2>2. Marked'
    BY <1>1, <1>2, <1>3, <1>7 DEF MarksInv, Marked, Behind
  <2>3. Once'
    <3> SUFFICES ASSUME ~retried PROVE carry = <<>> /\ AllFresh /\ AllMarked' /\ Apart'
      BY <1>1 DEF Once, AllFresh
    <3>1. carry = <<>> /\ AllFresh /\ AllMarked /\ Apart
      BY DEF MarksInv, Once
    <3>2. AllMarked'
      BY <1>1, <1>2, <1>3, <1>7, <3>1 DEF AllMarked, Apart
    <3>3. Apart'
      BY <1>1, <1>3, <1>7, <3>1, KeysAre DEF Apart, MarksInv, MarksTyped
    <3> QED BY <3>1, <3>2, <3>3
  <2> QED BY <1>4, <1>5, <2>1, <2>2, <2>3 DEF MarksInv
<1> QED BY <1>1, <1>2, <1>6, <1>7

(* What taking the first of a sequence, or adding a last, leaves.          *)
LEMMA TailIs ==
  ASSUME NEW S, NEW q \in Seq(S), q # <<>>
  PROVE  /\ Len(q) \in Nat \ {0} /\ DOMAIN q = 1..Len(q) /\ 1 \in DOMAIN q
         /\ Head(q) = q[1] /\ Head(q) \in S
         /\ Tail(q) \in Seq(S) /\ Len(Tail(q)) = Len(q) - 1
         /\ \A n \in DOMAIN Tail(q) : n + 1 \in DOMAIN q /\ Tail(q)[n] = q[n + 1] /\ n \in Nat
         /\ \A n \in DOMAIN q : n # 1 => n - 1 \in DOMAIN Tail(q) /\ Tail(q)[n - 1] = q[n]
OBVIOUS

LEMMA AppendIs ==
  ASSUME NEW S, NEW q \in Seq(S), NEW e \in S
  PROVE  /\ Len(q) \in Nat /\ DOMAIN q = 1..Len(q)
         /\ Append(q, e) \in Seq(S) /\ Len(Append(q, e)) = Len(q) + 1
         /\ DOMAIN Append(q, e) = 1..Len(q) + 1
         /\ \A n \in DOMAIN q : n \in DOMAIN Append(q, e) /\ Append(q, e)[n] = q[n]
                                /\ n # Len(q) + 1
         /\ Append(q, e)[Len(q) + 1] = e
         /\ \A n \in DOMAIN Append(q, e) : n = Len(q) + 1 \/ n \in DOMAIN q
OBVIOUS

LEMMA ReceiveStep ==
  ASSUME MarksInv, Receive
  PROVE  MarksInv'
<1> DEFINE k == Head(channel)
           w == Received(k)
           l == Len(pending) + 1
<1>1. /\ forwarder = "select" /\ channel # <<>> /\ pending' = Append(pending, w)
      /\ channel' = Tail(channel) /\ forwarder' = "trim"
      /\ UNCHANGED <<inflight, raiser, carry, sending, stop, retried, raises>>
  BY DEF Receive
<1>2. channel \in Seq(Keys) /\ pending \in Seq(Wake)
  BY DEF MarksInv, MarksTyped
<1>3. /\ k = channel[1] /\ k \in Keys /\ 1 \in DOMAIN channel
      /\ channel' \in Seq(Keys) /\ Len(channel') = Len(channel) - 1 /\ Len(channel) \in Nat \ {0}
      /\ \A n \in DOMAIN channel' : /\ n + 1 \in DOMAIN channel /\ channel'[n] = channel[n + 1]
                                    /\ n \in Nat
      /\ \A n \in DOMAIN channel : n # 1 =>
           n - 1 \in DOMAIN channel' /\ channel'[n - 1] = channel[n]
  BY <1>1, <1>2, TailIs
<1>4. w \in Wake /\ w.key = k /\ w.fresh /\ w.due
  BY <1>3, KeysAre
<1> HIDE DEF k, w
<1>5. /\ pending' \in Seq(Wake) /\ Len(pending') = l /\ Len(pending) \in Nat
      /\ \A n \in DOMAIN pending : n \in DOMAIN pending' /\ pending'[n] = pending[n] /\ n # l
      /\ l \in DOMAIN pending' /\ pending'[l] = w
      /\ \A n \in DOMAIN pending' : n = l \/ n \in DOMAIN pending
  BY <1>1, <1>2, <1>4, AppendIs
<1>6. MarksTyped'
  <2>1. Len(channel') <= QueueCapacity
    BY <1>3, NotifyAssumed DEF MarksInv, MarksTyped
  <2> QED BY <1>1, <1>3, <1>5, <2>1 DEF MarksInv, MarksTyped
<1>7. Room'
  <2>1. carry = <<>> /\ Len(pending) <= MaxPending
    BY <1>1 DEF MarksInv, Room
  <2>2. Len(pending') <= MaxPending + 1
    BY <1>5, <2>1, NotifyAssumed
  <2> QED BY <1>1, <2>1, <2>2 DEF Room
<1>8. Untried'
  <2>1. /\ \A n \in DOMAIN pending : ~pending[n].fresh
        /\ \A n \in DOMAIN carry : ~carry[n].fresh
    BY <1>1 DEF MarksInv, Untried
  <2>2. \A n \in DOMAIN pending' : pending'[n].fresh => n = l
    BY <1>5, <2>1
  <2> QED BY <1>1, <1>4, <1>5, <2>1, <2>2 DEF Untried
<1>9. Marked'
  <2>1. ASSUME NEW j \in inflight, Behind(j) PROVE Behind(j)'
    <3>1. CASE \E r \in Raisers : raiser[r] = j
      BY <1>1, <3>1 DEF Behind
    <3>2. CASE \E n \in DOMAIN channel : channel[n] = j
      <4>1. PICK n \in DOMAIN channel : channel[n] = j
        BY <3>2
      <4>2. CASE n = 1
        BY <1>3, <1>4, <1>5, <4>1, <4>2 DEF Behind
      <4>3. CASE n # 1
        BY <1>3, <4>1, <4>3 DEF Behind
      <4> QED BY <4>2, <4>3
    <3>3. CASE \E n \in DOMAIN pending : pending[n].key = j /\ pending[n].fresh
      BY <1>5, <3>3 DEF Behind
    <3> QED BY <2>1, <3>1, <3>2, <3>3 DEF Behind
  <2> QED BY <1>1, <2>1 DEF MarksInv, Marked
<1>10. Capped'
  BY <1>1, CapKept DEF MarksInv
<1>11. Once'
  <2> SUFFICES ASSUME ~retried PROVE carry = <<>> /\ AllFresh' /\ AllMarked' /\ Apart'
    BY <1>1 DEF Once
  <2>1. carry = <<>> /\ AllFresh /\ AllMarked /\ Apart
    BY DEF MarksInv, Once
  <2>2. AllFresh'
    BY <1>4, <1>5, <2>1 DEF AllFresh
  <2>3. AllMarked'
    <3>1. \A n \in DOMAIN channel' : channel'[n] \in inflight
      BY <1>3, <2>1 DEF AllMarked
    <3>2. \A n \in DOMAIN pending' : pending'[n].key \in inflight
      BY <1>3, <1>4, <1>5, <2>1 DEF AllMarked
    <3> QED BY <1>1, <2>1, <3>1, <3>2 DEF AllMarked
  <2>4. Apart'
    <3>1. \A m, n \in DOMAIN channel' : channel'[m] = channel'[n] => m = n
      <4> SUFFICES ASSUME NEW m \in DOMAIN channel', NEW n \in DOMAIN channel',
                          channel'[m] = channel'[n]
                   PROVE  m = n
        OBVIOUS
      <4>1. m + 1 = n + 1 /\ m \in Nat /\ n \in Nat
        BY <1>3, <2>1 DEF Apart
      <4> QED BY <4>1
    <3>2. \A m \in DOMAIN channel' : channel'[m] # k
      <4> SUFFICES ASSUME NEW m \in DOMAIN channel', channel'[m] = k PROVE FALSE
        OBVIOUS
      <4>1. m + 1 = 1 /\ m \in Nat /\ m # 0
        BY <1>3, <2>1 DEF Apart
      <4> QED BY <4>1
    <3>3. \A n \in DOMAIN pending : pending[n].key # k
      BY <1>3, <2>1 DEF Apart
    <3>4. \A m, n \in DOMAIN pending' : pending'[m].key = pending'[n].key => m = n
      BY <1>4, <1>5, <2>1, <3>3 DEF Apart
    <3>5. \A r \in Raisers : \A n \in DOMAIN channel' : raiser[r] # channel'[n]
      BY <1>3, <2>1 DEF Apart
    <3>6. \A r \in Raisers : raiser[r] # k
      BY <1>3, <2>1 DEF Apart
    <3>7. \A r \in Raisers : \A n \in DOMAIN pending' : raiser[r] # pending'[n].key
      BY <1>4, <1>5, <2>1, <3>6 DEF Apart
    <3>8. \A m \in DOMAIN channel' : \A n \in DOMAIN pending' : channel'[m] # pending'[n].key
      BY <1>3, <1>4, <1>5, <2>1, <3>2 DEF Apart
    <3> QED BY <1>1, <2>1, <3>1, <3>4, <3>5, <3>7, <3>8 DEF Apart
  <2> QED BY <2>1, <2>2, <2>3, <2>4
<1> QED BY <1>6, <1>7, <1>8, <1>9, <1>10, <1>11 DEF MarksInv

(* The steps that leave every queue as it is.                              *)
LEMMA TimerStep ==
  ASSUME MarksInv, Timer
  PROVE  MarksInv'
<1>1. /\ forwarder = "select" /\ forwarder' = "trim"
      /\ UNCHANGED <<inflight, raiser, channel, pending, carry, sending, stop, retried, raises>>
  BY DEF Timer
<1>2. MarksTyped'
  BY <1>1 DEF MarksInv, MarksTyped
<1>3. Room'
  <2>1. Len(pending) \in Nat /\ Len(pending) <= MaxPending /\ carry = <<>>
    BY <1>1 DEF MarksInv, MarksTyped, Room
  <2>2. Len(pending) <= MaxPending + 1
    BY <2>1, NotifyAssumed
  <2> QED BY <1>1, <2>1, <2>2 DEF Room
<1>4. Untried' /\ Marked'
  BY <1>1 DEF MarksInv, Untried, Marked, Behind
<1>5. Capped'
  BY <1>1, CapKept DEF MarksInv
<1>6. Once'
  BY <1>1 DEF MarksInv, Once, AllFresh, AllMarked, Apart
<1> QED BY <1>2, <1>3, <1>4, <1>5, <1>6 DEF MarksInv

LEMMA ShutdownStep ==
  ASSUME MarksInv, Shutdown
  PROVE  MarksInv'
<1>1. /\ stop' = TRUE
      /\ UNCHANGED <<inflight, raiser, channel, pending, carry, forwarder, sending, retried,
                     raises>>
  BY DEF Shutdown
<1>2. MarksTyped' /\ Room'
  BY <1>1 DEF MarksInv, MarksTyped, Room
<1>3. Untried' /\ Marked'
  BY <1>1 DEF MarksInv, Untried, Marked, Behind
<1>4. Capped'
  BY <1>1, CapKept DEF MarksInv
<1>5. Once'
  BY <1>1 DEF MarksInv, Once, AllFresh, AllMarked, Apart
<1> QED BY <1>2, <1>3, <1>4, <1>5 DEF MarksInv

LEMMA FlushEndsStep ==
  ASSUME MarksInv, FlushEnds
  PROVE  MarksInv'
<1>1. /\ forwarder = "flush" /\ pending = <<>> /\ forwarder' = "stopped"
      /\ UNCHANGED <<inflight, raiser, channel, pending, carry, sending, stop, retried, raises>>
  BY DEF FlushEnds
<1>2. MarksTyped' /\ Room'
  BY <1>1 DEF MarksInv, MarksTyped, Room
<1>3. Untried' /\ Marked'
  BY <1>1 DEF MarksInv, Untried, Marked
<1>4. Capped'
  BY <1>1, CapKept DEF MarksInv
<1>5. Once'
  BY <1>1 DEF MarksInv, Once, AllFresh, AllMarked, Apart
<1> QED BY <1>2, <1>3, <1>4, <1>5 DEF MarksInv

(* Only what is held back, and so is not fresh, comes due.                 *)
LEMMA ComesDueStep ==
  ASSUME MarksInv, ComesDue
  PROVE  MarksInv'
<1>1. PICK n \in DOMAIN pending :
        /\ forwarder = "select" /\ ~pending[n].due /\ pending' = [pending EXCEPT ![n].due = TRUE]
        /\ UNCHANGED <<inflight, raiser, channel, carry, forwarder, sending, stop, retried,
                       raises>>
  BY DEF ComesDue
<1>2. pending \in Seq(Wake) /\ pending[n] \in Wake
  BY DEF MarksInv, MarksTyped
<1>3. /\ pending' \in Seq(Wake) /\ Len(pending') = Len(pending)
      /\ DOMAIN pending' = DOMAIN pending
      /\ \A m \in DOMAIN pending : m # n => pending'[m] = pending[m]
      /\ pending'[n].key = pending[n].key /\ pending'[n].fresh = pending[n].fresh
      /\ pending'[n].due
  <2>1. [pending[n] EXCEPT !.due = TRUE] \in Wake
    BY <1>2 DEF Wake
  <2>2. pending' = [pending EXCEPT ![n] = [pending[n] EXCEPT !.due = TRUE]]
    BY <1>1
  <2>3. pending'[n] = [pending[n] EXCEPT !.due = TRUE]
    BY <1>2, <2>2
  <2>4. /\ pending' \in Seq(Wake) /\ Len(pending') = Len(pending)
        /\ DOMAIN pending' = DOMAIN pending
        /\ \A m \in DOMAIN pending : m # n => pending'[m] = pending[m]
    BY <1>2, <2>1, <2>2
  <2> QED BY <1>2, <2>3, <2>4 DEF Wake
<1>4. MarksTyped' /\ Room'
  BY <1>1, <1>3 DEF MarksInv, MarksTyped, Room
<1>5. Untried'
  BY <1>1, <1>3 DEF MarksInv, Untried
<1>6. Marked'
  <2>1. ASSUME NEW j \in inflight, Behind(j) PROVE Behind(j)'
    BY <1>1, <1>3, <2>1 DEF Behind
  <2> QED BY <1>1, <2>1 DEF MarksInv, Marked
<1>7. Capped'
  BY <1>1, CapKept DEF MarksInv
<1>8. Once'
  <2>1. ASSUME ~retried PROVE FALSE
    BY <1>1, <2>1 DEF MarksInv, Untried, Once, AllFresh
  <2> QED BY <1>1, <2>1 DEF Once
<1> QED BY <1>4, <1>5, <1>6, <1>7, <1>8 DEF MarksInv

LEMMA DropIs ==
  ASSUME NEW S, NEW q \in Seq(S), NEW d \in 0..Len(q)
  PROVE  /\ d \in Nat /\ SubSeq(q, d + 1, Len(q)) \in Seq(S)
         /\ Len(SubSeq(q, d + 1, Len(q))) = Len(q) - d
         /\ \A n \in DOMAIN SubSeq(q, d + 1, Len(q)) :
              n \in Nat /\ n + d \in DOMAIN q /\ SubSeq(q, d + 1, Len(q))[n] = q[n + d]
         /\ \A n \in DOMAIN q : n > d => /\ n - d \in DOMAIN SubSeq(q, d + 1, Len(q))
                                        /\ SubSeq(q, d + 1, Len(q))[n - d] = q[n]
<1> DEFINE p == SubSeq(q, d + 1, Len(q))
<1>1. Len(q) \in Nat /\ d \in Nat /\ d <= Len(q) /\ DOMAIN q = 1..Len(q)
  OBVIOUS
<1>2. \A n, m \in Nat : m <= n => m < n \/ m = n
  OBVIOUS
<1>3. /\ p \in Seq(S) /\ Len(p) = Len(q) - d /\ DOMAIN p = 1..Len(q) - d
      /\ \A n \in 1..Len(q) - d : p[n] = q[d + n]
  <2>1. \A n \in (d + 1)..Len(q) : q[n] \in S
    BY <1>1
  <2>2. d + 1 \in Int /\ Len(q) \in Int
    BY <1>1
  <2>3. /\ p \in Seq(S) /\ Len(p) = IF d + 1 <= Len(q) THEN Len(q) - (d + 1) + 1 ELSE 0
        /\ \A n \in 1..Len(q) - (d + 1) + 1 : p[n] = q[(d + 1) + n - 1]
    BY <2>1, <2>2, SubSeqProperties
  <2> HIDE DEF p
  <2>4. Len(p) = Len(q) - d
    <3>1. CASE d < Len(q)
      <4>1. d + 1 <= Len(q) /\ Len(q) - (d + 1) + 1 = Len(q) - d
        BY <1>1, <3>1
      <4> QED BY <2>3, <4>1
    <3>2. CASE d = Len(q)
      <4>1. ~(d + 1 <= Len(q)) /\ Len(q) - d = 0
        BY <1>1, <3>2
      <4> QED BY <2>3, <4>1
    <3>3. d < Len(q) \/ d = Len(q)
      BY <1>1, <1>2, Zenon
    <3> QED BY <3>1, <3>2, <3>3
  <2>5. DOMAIN p = 1..Len(q) - d
    BY <2>3, <2>4
  <2>6. ASSUME NEW n \in 1..Len(q) - d PROVE p[n] = q[d + n]
    <3>1. n \in 1..Len(q) - (d + 1) + 1 /\ (d + 1) + n - 1 = d + n
      BY <1>1
    <3> QED BY <2>3, <3>1
  <2> QED BY <2>3, <2>4, <2>5, <2>6
<1> HIDE DEF p
<1>4. ASSUME NEW n \in DOMAIN p PROVE n \in Nat /\ n + d \in DOMAIN q /\ p[n] = q[n + d]
  BY <1>1, <1>3
<1>5. ASSUME NEW n \in DOMAIN q, n > d PROVE n - d \in DOMAIN p /\ p[n - d] = q[n]
  <2>1. n - d \in 1..Len(q) - d /\ d + (n - d) = n
    BY <1>1, <1>5
  <2> QED BY <1>3, <2>1
<1> QED BY <1>1, <1>3, <1>4, <1>5 DEF p

(* What the trim drops is the oldest, and so never a fresh one.            *)
LEMMA TrimStep ==
  ASSUME MarksInv, Trim
  PROVE  MarksInv'
<1> DEFINE d == IF Len(pending) > MaxPending THEN Len(pending) - MaxPending ELSE 0
<1>1. /\ forwarder = "trim" /\ forwarder' = "sweep"
      /\ pending' = IF Len(pending) > MaxPending
                    THEN SubSeq(pending, Len(pending) - MaxPending + 1, Len(pending)) ELSE pending
      /\ UNCHANGED <<inflight, raiser, channel, carry, sending, stop, retried, raises>>
  BY DEF Trim
<1>2. pending \in Seq(Wake) /\ Len(pending) \in Nat /\ DOMAIN pending = 1..Len(pending)
  BY DEF MarksInv, MarksTyped
<1>3. d \in 0..Len(pending) /\ (d < Len(pending) \/ Len(pending) = 0)
  BY <1>2, NotifyAssumed
<1>4. Len(pending) - d <= MaxPending
  BY <1>2, NotifyAssumed
<1>5. pending' = SubSeq(pending, d + 1, Len(pending))
  <2>1. CASE Len(pending) > MaxPending
    BY <1>1, <2>1
  <2>2. CASE ~(Len(pending) > MaxPending)
    <3>1. pending = SubSeq(pending, 1, Len(pending))
      BY <1>2
    <3> QED BY <1>1, <2>2, <3>1
  <2> QED BY <2>1, <2>2
<1> HIDE DEF d
<1>6. /\ d \in Nat /\ pending' \in Seq(Wake) /\ Len(pending') = Len(pending) - d
      /\ \A n \in DOMAIN pending' : n \in Nat /\ n + d \in DOMAIN pending
                                    /\ pending'[n] = pending[n + d]
      /\ \A n \in DOMAIN pending : n > d =>
           n - d \in DOMAIN pending' /\ pending'[n - d] = pending[n]
  BY <1>2, <1>3, <1>5, DropIs
<1>7. MarksTyped'
  BY <1>1, <1>6 DEF MarksInv, MarksTyped
<1>8. Room'
  <2>1. carry = <<>>
    BY <1>1 DEF MarksInv, Room
  <2>2. Len(pending') + Len(<<>>) <= MaxPending
    BY <1>2, <1>4, <1>6, NotifyAssumed
  <2> QED BY <1>1, <2>1, <2>2 DEF Room
<1>9. Untried'
  <2>1. ASSUME NEW n \in DOMAIN pending', pending'[n].fresh PROVE n = Len(pending')
    <3>1. n + d = Len(pending) /\ n \in Nat
      BY <1>1, <1>6, <2>1 DEF MarksInv, Untried
    <3> QED BY <1>2, <1>6, <3>1
  <2> QED BY <1>1, <1>6, <2>1 DEF MarksInv, Untried
<1>10. Marked'
  <2>1. ASSUME NEW j \in inflight, Behind(j) PROVE Behind(j)'
    <3>1. CASE \E n \in DOMAIN pending : pending[n].key = j /\ pending[n].fresh
      <4>1. PICK n \in DOMAIN pending : pending[n].key = j /\ pending[n].fresh
        BY <3>1
      <4>2. n = Len(pending)
        BY <1>1, <4>1 DEF MarksInv, Untried
      <4>3. n > d
        BY <1>2, <1>3, <4>2
      <4> QED BY <1>6, <4>1, <4>3 DEF Behind
    <3> QED BY <1>1, <2>1, <3>1 DEF Behind
  <2> QED BY <1>1, <2>1 DEF MarksInv, Marked
<1>11. Capped'
  BY <1>1, CapKept DEF MarksInv
<1>12. Once'
  <2> SUFFICES ASSUME ~retried PROVE carry = <<>> /\ AllFresh' /\ AllMarked' /\ Apart'
    BY <1>1 DEF Once
  <2>1. carry = <<>> /\ AllFresh /\ AllMarked /\ Apart
    BY DEF MarksInv, Once
  <2>2. AllFresh' /\ AllMarked'
    BY <1>1, <1>6, <2>1 DEF AllFresh, AllMarked
  <2>3. Apart'
    <3>1. \A m, n \in DOMAIN pending' : pending'[m].key = pending'[n].key => m = n
      <4> SUFFICES ASSUME NEW m \in DOMAIN pending', NEW n \in DOMAIN pending',
                          pending'[m].key = pending'[n].key
                   PROVE  m = n
        OBVIOUS
      <4>1. m + d = n + d /\ m \in Nat /\ n \in Nat
        BY <1>6, <2>1 DEF Apart
      <4> QED BY <1>6, <4>1
    <3>2. \A r \in Raisers : \A n \in DOMAIN pending' : raiser[r] # pending'[n].key
      BY <1>6, <2>1 DEF Apart
    <3>3. \A m \in DOMAIN channel : \A n \in DOMAIN pending' : channel[m] # pending'[n].key
      BY <1>6, <2>1 DEF Apart
    <3> QED BY <1>1, <2>1, <3>1, <3>2, <3>3 DEF Apart
  <2> QED BY <2>1, <2>2, <2>3
<1> QED BY <1>7, <1>8, <1>9, <1>10, <1>11, <1>12 DEF MarksInv

(* Taking the first of pending leaves the rest as they were.               *)
LEMMA PoppedApart ==
  ASSUME MarksInv, pending # <<>>, pending' = Tail(pending), ~retried,
         UNCHANGED <<raiser, channel>>,
         inflight' = inflight \/ inflight' = inflight \ {Head(pending).key}
  PROVE  AllFresh' /\ AllMarked' /\ Apart'
<1> DEFINE h == Head(pending).key
<1>1. AllFresh /\ AllMarked /\ Apart /\ pending \in Seq(Wake)
  BY DEF MarksInv, MarksTyped, Once
<1>2. /\ Head(pending) = pending[1] /\ 1 \in DOMAIN pending
      /\ \A n \in DOMAIN pending' : /\ n + 1 \in DOMAIN pending /\ pending'[n] = pending[n + 1]
                                    /\ n \in Nat
  BY <1>1, TailIs
<1>3. h = pending[1].key /\ (\A n \in Nat : n + 1 = 1 => n = 0)
  BY <1>2
<1> HIDE DEF h
<1>4. AllFresh'
  BY <1>1, <1>2 DEF AllFresh
<1>5. AllMarked'
  <2>1. \A r \in Raisers : raiser[r] # h
    BY <1>1, <1>2, <1>3 DEF Apart
  <2>2. \A n \in DOMAIN channel : channel[n] # h
    BY <1>1, <1>2, <1>3 DEF Apart
  <2>3. ASSUME NEW n \in DOMAIN pending', pending'[n].key = h PROVE FALSE
    <3>1. n + 1 = 1 /\ n \in Nat
      BY <1>1, <1>2, <1>3, <2>3 DEF Apart
    <3>2. n # 0
      BY <1>1, <1>2
    <3> QED BY <3>1, <3>2
  <2>4. \A k \in inflight : k # h => k \in inflight'
    BY DEF h
  <2> QED BY <1>1, <1>2, <2>1, <2>2, <2>3, <2>4 DEF AllMarked
<1>6. Apart'
  <2>1. \A m, n \in DOMAIN pending' : pending'[m].key = pending'[n].key => m = n
    <3> SUFFICES ASSUME NEW m \in DOMAIN pending', NEW n \in DOMAIN pending',
                        pending'[m].key = pending'[n].key
                 PROVE  m = n
      OBVIOUS
    <3>1. m + 1 = n + 1 /\ m \in Nat /\ n \in Nat
      BY <1>1, <1>2 DEF Apart
    <3> QED BY <3>1
  <2>2. \A r \in Raisers : \A n \in DOMAIN pending' : raiser[r] # pending'[n].key
    BY <1>1, <1>2 DEF Apart
  <2>3. \A m \in DOMAIN channel : \A n \in DOMAIN pending' : channel[m] # pending'[n].key
    BY <1>1, <1>2 DEF Apart
  <2> QED BY <1>1, <2>1, <2>2, <2>3 DEF Apart
<1> QED BY <1>4, <1>5, <1>6

(* A mark whose wake is not the first of pending still has its wake.       *)
LEMMA PoppedBehind ==
  ASSUME MarksInv, pending # <<>>, pending' = Tail(pending), UNCHANGED <<raiser, channel>>,
         NEW j \in Keys, Behind(j), Head(pending).key # j \/ ~Head(pending).fresh
  PROVE  Behind(j)'
<1>1. pending \in Seq(Wake)
  BY DEF MarksInv, MarksTyped
<1>2. /\ Head(pending) = pending[1]
      /\ \A n \in DOMAIN pending : n # 1 =>
           n - 1 \in DOMAIN pending' /\ pending'[n - 1] = pending[n]
  BY <1>1, TailIs
<1>3. CASE \E n \in DOMAIN pending : pending[n].key = j /\ pending[n].fresh
  <2>1. PICK n \in DOMAIN pending : pending[n].key = j /\ pending[n].fresh
    BY <1>3
  <2>2. n # 1
    BY <1>2, <2>1
  <2> QED BY <1>2, <2>1, <2>2 DEF Behind
<1> QED BY <1>3 DEF Behind

LEMMA SweepStep ==
  ASSUME MarksInv, Sweep
  PROVE  MarksInv'
<1>1. /\ forwarder = "sweep" /\ pending # <<>> /\ pending' = Tail(pending)
      /\ UNCHANGED <<raiser, channel, stop, retried, raises>>
  BY DEF Sweep
<1>2. pending \in Seq(Wake) /\ carry \in Seq(Wake) /\ Len(carry) \in Nat
  BY DEF MarksInv, MarksTyped
<1>3. /\ Len(pending) \in Nat \ {0} /\ Head(pending) \in Wake /\ Head(pending) = pending[1]
      /\ 1 \in DOMAIN pending
      /\ pending' \in Seq(Wake) /\ Len(pending') = Len(pending) - 1
      /\ \A n \in DOMAIN pending' : /\ n + 1 \in DOMAIN pending /\ pending'[n] = pending[n + 1]
                                    /\ n \in Nat
  BY <1>1, <1>2, TailIs
<1>4. Len(pending) + Len(carry) <= MaxPending
  BY <1>1 DEF MarksInv, Room
<1>5. /\ \A n \in DOMAIN pending' : pending'[n].fresh => pending'[n].due
      /\ \A n \in DOMAIN pending' : pending'[n].fresh => n = Len(pending')
  <2>1. ASSUME NEW n \in DOMAIN pending', pending'[n].fresh
        PROVE  pending'[n].due /\ n + 1 = Len(pending)
    BY <1>1, <1>3, <2>1 DEF MarksInv, Untried
  <2>2. ASSUME NEW n \in DOMAIN pending', n + 1 = Len(pending) PROVE n = Len(pending')
    BY <1>3, <2>2
  <2> QED BY <2>1, <2>2
<1>6. CASE Head(pending).due /\ sending' = Head(pending) /\ carry' = carry
           /\ inflight' = inflight \ {Head(pending).key} /\ forwarder' = "send"
  <2>1. Capped' /\ IsFiniteSet(inflight')
    BY <1>6, CapKept DEF MarksInv
  <2>2. MarksTyped'
    BY <1>1, <1>3, <1>6, <2>1 DEF MarksInv, MarksTyped
  <2>3. Room'
    <3>1. Len(pending') + Len(carry) < MaxPending
      BY <1>2, <1>3, <1>4, NotifyAssumed
    <3> QED BY <1>6, <3>1 DEF Room
  <2>4. Untried'
    BY <1>5, <1>6 DEF MarksInv, Untried
  <2>5. Marked'
    <3> SUFFICES ASSUME NEW j \in inflight' PROVE Behind(j)'
      BY DEF Marked
    <3>1. j \in Keys /\ Behind(j) /\ Head(pending).key # j
      BY <1>1, <1>6 DEF MarksInv, MarksTyped, Marked
    <3> QED BY <1>1, <3>1, PoppedBehind
  <2>6. Once'
    <3> SUFFICES ASSUME ~retried PROVE carry = <<>> /\ AllFresh' /\ AllMarked' /\ Apart'
      BY <1>1, <1>6 DEF Once
    <3> QED BY <1>1, <1>6, PoppedApart DEF MarksInv, Once
  <2> QED BY <2>1, <2>2, <2>3, <2>4, <2>5, <2>6 DEF MarksInv
<1>7. CASE ~Head(pending).due /\ carry' = Append(carry, Head(pending))
           /\ UNCHANGED <<sending, inflight, forwarder>>
  <2>1. ~Head(pending).fresh /\ retried
    BY <1>3, <1>7 DEF MarksInv, Untried, Once, AllFresh
  <2>2. /\ carry' \in Seq(Wake) /\ Len(carry') = Len(carry) + 1
        /\ \A n \in DOMAIN carry' : carry'[n] = Head(pending)
                                    \/ (n \in DOMAIN carry /\ carry'[n] = carry[n])
    BY <1>2, <1>3, <1>7, AppendIs
  <2>3. MarksTyped'
    BY <1>1, <1>3, <1>7, <2>2 DEF MarksInv, MarksTyped
  <2>4. Room'
    <3>1. Len(pending') + Len(carry') <= MaxPending
      BY <1>2, <1>3, <1>4, <2>2, NotifyAssumed
    <3> QED BY <1>1, <1>7, <3>1 DEF Room
  <2>5. Untried'
    <3>1. \A n \in DOMAIN carry' : ~carry'[n].fresh
      BY <2>1, <2>2 DEF MarksInv, Untried
    <3> QED BY <1>1, <1>5, <1>7, <3>1 DEF Untried
  <2>6. Marked'
    <3> SUFFICES ASSUME NEW j \in inflight' PROVE Behind(j)'
      BY DEF Marked
    <3>1. j \in Keys /\ Behind(j)
      BY <1>1, <1>7 DEF MarksInv, MarksTyped, Marked
    <3> QED BY <1>1, <2>1, <3>1, PoppedBehind
  <2>7. Capped'
    BY <1>7, CapKept DEF MarksInv
  <2>8. Once'
    BY <1>1, <2>1 DEF Once
  <2> QED BY <2>3, <2>4, <2>5, <2>6, <2>7, <2>8 DEF MarksInv
<1> QED BY <1>6, <1>7 DEF Sweep

LEMMA SentStep ==
  ASSUME MarksInv, Sent
  PROVE  MarksInv'
<1> DEFINE back == [sending EXCEPT !.fresh = FALSE, !.due = FALSE]
<1>1. /\ forwarder = "send" /\ sending' = NoWake /\ forwarder' = "sweep"
      /\ UNCHANGED <<inflight, raiser, channel, pending, stop, raises>>
  BY DEF Sent
<1>2. pending \in Seq(Wake) /\ carry \in Seq(Wake) /\ sending \in Wake
      /\ Len(pending) + Len(carry) < MaxPending /\ Len(pending) \in Nat /\ Len(carry) \in Nat
  BY <1>1 DEF MarksInv, MarksTyped, Room
<1>3. back \in Wake /\ ~back.fresh
  BY <1>2 DEF Wake
<1> HIDE DEF back
<1>4. Marked'
  BY <1>1 DEF MarksInv, Marked, Behind
<1>5. Capped'
  BY <1>1, CapKept DEF MarksInv
<1>6. CASE UNCHANGED <<carry, retried>>
  <2>1. MarksTyped'
    BY <1>1, <1>6 DEF MarksInv, MarksTyped
  <2>2. Room'
    <3>1. Len(pending) + Len(carry) <= MaxPending
      BY <1>2, NotifyAssumed
    <3> QED BY <1>1, <1>6, <3>1 DEF Room
  <2>3. Untried'
    BY <1>1, <1>6 DEF MarksInv, Untried
  <2>4. Once'
    BY <1>1, <1>6 DEF MarksInv, Once, AllFresh, AllMarked, Apart
  <2> QED BY <1>4, <1>5, <2>1, <2>2, <2>3, <2>4 DEF MarksInv
<1>7. CASE carry' = Append(carry, back) /\ retried' = TRUE
  <2>1. /\ carry' \in Seq(Wake) /\ Len(carry') = Len(carry) + 1
        /\ \A n \in DOMAIN carry' : carry'[n] = back
                                    \/ (n \in DOMAIN carry /\ carry'[n] = carry[n])
    BY <1>2, <1>3, <1>7, AppendIs
  <2>2. MarksTyped'
    BY <1>1, <1>7, <2>1 DEF MarksInv, MarksTyped
  <2>3. Room'
    <3>1. Len(pending) + Len(carry') <= MaxPending
      BY <1>2, <2>1, NotifyAssumed
    <3> QED BY <1>1, <3>1 DEF Room
  <2>4. Untried'
    <3>1. \A n \in DOMAIN carry' : ~carry'[n].fresh
      BY <1>3, <2>1 DEF MarksInv, Untried
    <3> QED BY <1>1, <3>1 DEF MarksInv, Untried
  <2>5. Once'
    BY <1>7 DEF Once
  <2> QED BY <1>4, <1>5, <2>2, <2>3, <2>4, <2>5 DEF MarksInv
<1> QED BY <1>6, <1>7 DEF Sent, back

LEMMA SweepEndsStep ==
  ASSUME MarksInv, SweepEnds
  PROVE  MarksInv'
<1>1. /\ forwarder = "sweep" /\ pending = <<>> /\ pending' = carry /\ carry' = <<>>
      /\ forwarder' = "select"
      /\ UNCHANGED <<inflight, raiser, channel, sending, stop, retried, raises>>
  BY DEF SweepEnds
<1>2. MarksTyped'
  BY <1>1 DEF MarksInv, MarksTyped
<1>3. Room'
  <2>1. Len(pending) + Len(carry) <= MaxPending /\ Len(pending) = 0 /\ Len(carry) \in Nat
    BY <1>1 DEF MarksInv, MarksTyped, Room
  <2>2. Len(carry) <= MaxPending
    BY <2>1, NotifyAssumed
  <2> QED BY <1>1, <2>2 DEF Room
<1>4. Untried'
  BY <1>1 DEF MarksInv, Untried
<1>5. Marked'
  BY <1>1 DEF MarksInv, Marked, Behind
<1>6. Capped'
  BY <1>1, CapKept DEF MarksInv
<1>7. Once'
  BY <1>1 DEF MarksInv, Once, AllFresh, AllMarked, Apart
<1> QED BY <1>2, <1>3, <1>4, <1>5, <1>6, <1>7 DEF MarksInv

LEMMA DrainStep ==
  ASSUME MarksInv, Drain
  PROVE  MarksInv'
<1> DEFINE got == [n \in DOMAIN channel |-> Received(channel[n])]
           l == Len(pending)
<1>1. /\ forwarder = "select" /\ pending' = pending \o got /\ channel' = <<>>
      /\ forwarder' = "flush"
      /\ UNCHANGED <<inflight, raiser, carry, sending, stop, retried, raises>>
  BY DEF Drain
<1>2. /\ channel \in Seq(Keys) /\ pending \in Seq(Wake) /\ l \in Nat /\ Len(channel) \in Nat
      /\ DOMAIN channel = 1..Len(channel) /\ DOMAIN pending = 1..l
      /\ l <= MaxPending /\ Len(channel) <= QueueCapacity /\ carry = <<>>
  BY <1>1 DEF MarksInv, MarksTyped, Room
<1>3. \A n \in DOMAIN channel : channel[n] \in Keys /\ Received(channel[n]) \in Wake
  BY <1>2, KeysAre
<1>4. /\ got \in Seq(Wake) /\ Len(got) = Len(channel) /\ DOMAIN got = DOMAIN channel
      /\ \A n \in DOMAIN channel : got[n].key = channel[n] /\ got[n].fresh /\ got[n].due
  <2>1. got \in [1..Len(channel) -> Wake]
    BY <1>2, <1>3
  <2>2. got \in Seq(Wake) /\ Len(got) = Len(channel)
    BY <1>2, <2>1
  <2>3. \A n \in DOMAIN channel : got[n] = Received(channel[n])
    OBVIOUS
  <2> QED BY <1>3, <2>2, <2>3, KeysAre
<1> HIDE DEF got
<1>5. /\ pending' \in Seq(Wake) /\ Len(pending') = l + Len(channel)
      /\ \A n \in DOMAIN pending : n \in DOMAIN pending' /\ pending'[n] = pending[n]
      /\ \A n \in DOMAIN channel : l + n \in DOMAIN pending' /\ pending'[l + n] = got[n]
      /\ \A n \in DOMAIN pending' : \/ n \in DOMAIN pending
                                    \/ \E m \in DOMAIN channel : n = l + m
  <2>1. /\ pending' \in Seq(Wake) /\ Len(pending') = l + Len(channel)
        /\ \A n \in 1..Len(pending') : pending'[n] = IF n <= l THEN pending[n] ELSE got[n - l]
    BY <1>1, <1>2, <1>4, ConcatProperties
  <2>2. DOMAIN pending' = 1..l + Len(channel)
    BY <1>2, <2>1
  <2> HIDE DEF l
  <2>3. ASSUME NEW n \in DOMAIN pending PROVE n \in DOMAIN pending' /\ pending'[n] = pending[n]
    <3>1. n \in 1..l + Len(channel) /\ n <= l
      BY <1>2
    <3> QED BY <2>1, <2>2, <3>1
  <2>4. ASSUME NEW n \in DOMAIN channel PROVE l + n \in DOMAIN pending' /\ pending'[l + n] = got[n]
    <3>1. l + n \in 1..l + Len(channel) /\ ~(l + n <= l) /\ l + n - l = n
      BY <1>2
    <3>2. \A m \in 1..Len(pending') : ~(m <= l) => pending'[m] = got[m - l]
      BY <2>1
    <3>3. l + n \in 1..Len(pending')
      BY <2>1, <3>1
    <3>4. PICK m \in 1..Len(pending') : m = l + n
      BY <3>3
    <3>5. ~(m <= l) /\ m - l = n
      <4>1. l \in Nat /\ n \in Nat \ {0}
        BY <1>2
      <4> QED BY <3>4, <4>1
    <3>6. pending'[m] = got[m - l]
      BY <3>2, <3>5
    <3>7. pending'[m] = got[n] /\ m \in DOMAIN pending'
      BY <2>2, <3>1, <3>4, <3>5, <3>6
    <3> QED BY <3>4, <3>7
  <2>5. ASSUME NEW n \in DOMAIN pending', n \notin DOMAIN pending
        PROVE  \E m \in DOMAIN channel : n = l + m
    <3>1. n - l \in 1..Len(channel) /\ n = l + (n - l)
      BY <1>2, <2>2, <2>5
    <3> QED BY <1>2, <3>1
  <2> QED BY <2>1, <2>3, <2>4, <2>5
<1>6. MarksTyped'
  BY <1>1, <1>5, NotifyAssumed DEF MarksInv, MarksTyped
<1>7. Room'
  <2>1. Len(pending') <= MaxPending + QueueCapacity
    BY <1>2, <1>5, NotifyAssumed
  <2> QED BY <1>1, <1>2, <2>1 DEF Room
<1>8. Untried'
  BY <1>1, <1>4, <1>5 DEF MarksInv, Untried
<1>9. Marked'
  <2>1. ASSUME NEW j \in inflight, Behind(j) PROVE Behind(j)'
    <3>1. CASE \E r \in Raisers : raiser[r] = j
      BY <1>1, <3>1 DEF Behind
    <3>2. CASE \E n \in DOMAIN channel : channel[n] = j
      <4>1. PICK n \in DOMAIN channel : channel[n] = j
        BY <3>2
      <4>2. l + n \in DOMAIN pending' /\ pending'[l + n].key = j /\ pending'[l + n].fresh
        BY <1>4, <1>5, <4>1
      <4> QED BY <4>2 DEF Behind
    <3>3. CASE \E n \in DOMAIN pending : pending[n].key = j /\ pending[n].fresh
      BY <1>5, <3>3 DEF Behind
    <3> QED BY <2>1, <3>1, <3>2, <3>3 DEF Behind
  <2> QED BY <1>1, <2>1 DEF MarksInv, Marked
<1>10. Capped'
  BY <1>1, CapKept DEF MarksInv
<1>11. Once'
  <2> SUFFICES ASSUME ~retried PROVE carry = <<>> /\ AllFresh' /\ AllMarked' /\ Apart'
    BY <1>1 DEF Once
  <2>1. AllFresh /\ AllMarked /\ Apart
    BY DEF MarksInv, Once
  <2>2. AllFresh'
    BY <1>4, <1>5, <2>1 DEF AllFresh
  <2>3. AllMarked'
    BY <1>1, <1>4, <1>5, <2>1 DEF AllMarked
  <2>4. Apart'
    <3>1. \A m, n \in DOMAIN pending' : pending'[m].key = pending'[n].key => m = n
      BY <1>4, <1>5, <2>1 DEF Apart
    <3>2. \A r \in Raisers : \A n \in DOMAIN pending' : raiser[r] # pending'[n].key
      BY <1>4, <1>5, <2>1 DEF Apart
    <3> QED BY <1>1, <2>1, <3>1, <3>2 DEF Apart
  <2> QED BY <1>2, <2>2, <2>3, <2>4
<1> QED BY <1>6, <1>7, <1>8, <1>9, <1>10, <1>11 DEF MarksInv

LEMMA FlushStep ==
  ASSUME MarksInv, Flush
  PROVE  MarksInv'
<1>1. /\ forwarder = "flush" /\ pending # <<>> /\ pending' = Tail(pending)
      /\ inflight' = inflight \ {Head(pending).key}
      /\ UNCHANGED <<raiser, channel, carry, forwarder, sending, stop, retried, raises>>
  BY DEF Flush
<1>2. pending \in Seq(Wake)
  BY DEF MarksInv, MarksTyped
<1>3. /\ Len(pending) \in Nat \ {0}
      /\ pending' \in Seq(Wake) /\ Len(pending') = Len(pending) - 1
      /\ \A n \in DOMAIN pending' : n + 1 \in DOMAIN pending /\ pending'[n] = pending[n + 1]
  BY <1>1, <1>2, TailIs
<1>4. Capped' /\ IsFiniteSet(inflight')
  BY <1>1, CapKept DEF MarksInv
<1>5. MarksTyped'
  BY <1>1, <1>3, <1>4 DEF MarksInv, MarksTyped
<1>6. Room'
  <2>1. Len(pending) <= MaxPending + QueueCapacity /\ carry = <<>>
    BY <1>1 DEF MarksInv, Room
  <2>2. Len(pending') <= MaxPending + QueueCapacity
    BY <1>3, <2>1, NotifyAssumed
  <2> QED BY <1>1, <2>1, <2>2 DEF Room
<1>7. Untried'
  BY <1>1, <1>3 DEF MarksInv, Untried
<1>8. Marked'
  <2> SUFFICES ASSUME NEW j \in inflight' PROVE Behind(j)'
    BY DEF Marked
  <2>1. j \in Keys /\ Behind(j) /\ Head(pending).key # j
    BY <1>1 DEF MarksInv, MarksTyped, Marked
  <2> QED BY <1>1, <2>1, PoppedBehind
<1>9. Once'
  <2> SUFFICES ASSUME ~retried PROVE carry = <<>> /\ AllFresh' /\ AllMarked' /\ Apart'
    BY <1>1 DEF Once
  <2> QED BY <1>1, PoppedApart DEF MarksInv, Once
<1> QED BY <1>4, <1>5, <1>6, <1>7, <1>8, <1>9 DEF MarksInv

LEMMA NotifyNext ==
  ASSUME MarksInv, [Next]_vars
  PROVE  MarksInv'
<1>1. CASE UNCHANGED vars
  BY <1>1 DEF vars, MarksInv, MarksTyped, Room, Untried, Marked, Behind, Capped, Held, Once,
    AllFresh, AllMarked, Apart
<1> QED
  BY <1>1, InsertStep, SendStep, ReceiveStep, TimerStep, TrimStep, SweepStep, SentStep,
     SweepEndsStep, DrainStep, FlushStep, FlushEndsStep, ComesDueStep, ShutdownStep
     DEF Next, Forward

LEMMA NotifyInit == Init => MarksInv
<1> SUFFICES ASSUME Init PROVE MarksInv
  OBVIOUS
<1>1. MarksTyped
  <2>1. IsFiniteSet(inflight) /\ inflight = {}
    BY FS_EmptySet DEF Init
  <2>2. raises \in 0..MaxRaises
    BY NotifyAssumed DEF Init
  <2>3. Len(channel) <= QueueCapacity
    BY NotifyAssumed DEF Init
  <2>4. raiser \in [Raisers -> Keys \cup {Nobody}] /\ channel \in Seq(Keys)
    BY DEF Init
  <2>5. pending \in Seq(Wake) /\ carry \in Seq(Wake) /\ sending \in Wake \cup {NoWake}
    BY DEF Init
  <2>6. forwarder = "select" /\ stop \in BOOLEAN /\ retried \in BOOLEAN
    BY DEF Init
  <2> QED BY <2>1, <2>2, <2>3, <2>4, <2>5, <2>6 DEF MarksTyped
<1>2. Room
  BY NotifyAssumed DEF Init, Room
<1>3. Untried /\ Marked
  BY DEF Init, Untried, Marked
<1>4. Capped
  <2>1. \A t \in Tenants : Held(t) = {}
    BY DEF Init, Held
  <2> QED BY <2>1, FS_EmptySet, NotifyAssumed DEF Capped
<1>5. Once
  BY DEF Init, Once, AllFresh, AllMarked, Apart
<1> QED BY <1>1, <1>2, <1>3, <1>4, <1>5 DEF MarksInv

(* The wakes of some keys that wait, where they wait.                      *)
Calling(keys) == {r \in Raisers : raiser[r] \in keys}
Queued(keys)  == {n \in DOMAIN channel : channel[n] \in keys}
Untaken(keys) == {n \in DOMAIN pending : pending[n].key \in keys /\ pending[n].fresh}

LEMMA WaitingIs ==
  ASSUME MarksTyped, NEW keys
  PROVE  /\ IsFiniteSet(Calling(keys)) /\ Cardinality(Calling(keys)) \in Nat
         /\ IsFiniteSet(Queued(keys)) /\ Cardinality(Queued(keys)) \in Nat
         /\ IsFiniteSet(Untaken(keys)) /\ Cardinality(Untaken(keys)) \in Nat
         /\ Waiting(keys) = Cardinality(Calling(keys)) + Cardinality(Queued(keys))
                            + Cardinality(Untaken(keys))
<1>1. IsFiniteSet(Calling(keys))
  BY NotifyAssumed, FS_Subset DEF Calling
<1>2. IsFiniteSet(Queued(keys))
  <2>1. Len(channel) \in Nat /\ DOMAIN channel = 1..Len(channel)
    BY DEF MarksTyped
  <2>2. IsFiniteSet(DOMAIN channel)
    BY <2>1, FS_Interval
  <2> QED BY <2>2, FS_Subset DEF Queued
<1>3. IsFiniteSet(Untaken(keys))
  <2>1. Len(pending) \in Nat /\ DOMAIN pending = 1..Len(pending)
    BY DEF MarksTyped
  <2>2. IsFiniteSet(DOMAIN pending)
    BY <2>1, FS_Interval
  <2> QED BY <2>2, FS_Subset DEF Untaken
<1> QED BY <1>1, <1>2, <1>3, FS_CardinalityType DEF Waiting, Calling, Queued, Untaken

(* Whoever is behind a mark is counted.                                    *)
LEMMA BehindWaits ==
  ASSUME MarksTyped, NEW k \in Keys, Behind(k)
  PROVE  Waiting({k}) > 0
<1>1. Calling({k}) # {} \/ Queued({k}) # {} \/ Untaken({k}) # {}
  BY DEF Behind, Calling, Queued, Untaken
<1>2. \/ Cardinality(Calling({k})) # 0 \/ Cardinality(Queued({k})) # 0
      \/ Cardinality(Untaken({k})) # 0
  BY <1>1, WaitingIs, FS_EmptySet
<1> QED BY <1>2, WaitingIs

(* While each waits alone with its mark, counting them is counting marks.  *)
LEMMA WaitingIsMarked ==
  ASSUME MarksTyped, AllMarked, Apart, NEW keys \in SUBSET Keys, NEW marks,
         inflight \cap keys \subseteq marks, IsFiniteSet(marks)
  PROVE  Waiting(keys) <= Cardinality(marks)
<1> DEFINE C == {raiser[r] : r \in Calling(keys)}
           Q == {channel[n] : n \in Queued(keys)}
           P == {pending[n].key : n \in Untaken(keys)}
           c == [r \in Calling(keys) |-> raiser[r]]
           q == [n \in Queued(keys) |-> channel[n]]
           p == [n \in Untaken(keys) |-> pending[n].key]
<1>1. C \subseteq marks /\ Q \subseteq marks /\ P \subseteq marks
  BY KeysAre DEF AllMarked, Calling, Queued, Untaken
<1>2. C \cap Q = {} /\ (C \cup Q) \cap P = {}
  BY DEF Apart, Calling, Queued, Untaken
<1>3. c \in Injection(Calling(keys), C)
  BY KeysAre DEF Injection, IsInjective, Apart, Calling
<1>4. q \in Injection(Queued(keys), Q)
  BY DEF Injection, IsInjective, Apart, Queued
<1>5. p \in Injection(Untaken(keys), P)
  BY DEF Injection, IsInjective, Apart, Untaken
<1> HIDE DEF C, Q, P, c, q, p
<1>6. IsFiniteSet(C) /\ IsFiniteSet(Q) /\ IsFiniteSet(P)
  BY <1>1, FS_Subset
<1>7. /\ Cardinality(Calling(keys)) <= Cardinality(C)
      /\ Cardinality(Queued(keys)) <= Cardinality(Q)
      /\ Cardinality(Untaken(keys)) <= Cardinality(P)
  BY <1>3, <1>4, <1>5, <1>6, FS_Injection
<1>8. Cardinality({}) = 0
  BY FS_EmptySet
<1>9. /\ IsFiniteSet(C \cup Q)
      /\ Cardinality(C \cup Q) = Cardinality(C) + Cardinality(Q) - Cardinality(C \cap Q)
  BY <1>6, FS_Union
<1>10. Cardinality((C \cup Q) \cup P)
         = Cardinality(C \cup Q) + Cardinality(P) - Cardinality((C \cup Q) \cap P)
  BY <1>6, <1>9, FS_Union
<1>11. Cardinality((C \cup Q) \cup P) <= Cardinality(marks)
  <2>1. (C \cup Q) \cup P \in SUBSET marks
    BY <1>1
  <2> QED BY <2>1, FS_Subset
<1>12. /\ Cardinality(C) \in Nat /\ Cardinality(Q) \in Nat /\ Cardinality(P) \in Nat
       /\ Cardinality(marks) \in Nat /\ Cardinality(C \cup Q) \in Nat
  BY <1>6, <1>9, FS_CardinalityType
<1>13. Cardinality(C) + Cardinality(Q) + Cardinality(P) <= Cardinality(marks)
  <2>1. Cardinality(C \cap Q) = 0 /\ Cardinality((C \cup Q) \cap P) = 0
    BY <1>2, <1>8
  <2>2. Cardinality(C \cup Q) = Cardinality(C) + Cardinality(Q)
    BY <1>9, <1>12, <2>1
  <2>3. Cardinality((C \cup Q) \cup P) = Cardinality(C) + Cardinality(Q) + Cardinality(P)
    BY <1>10, <1>12, <2>1, <2>2
  <2> QED BY <1>11, <2>3
<1> QED BY <1>7, <1>12, <1>13, WaitingIs

(* For any tenants, categories, threads and limits: a mark stands for a    *)
(* wake on its way, whatever is trimmed or retried; until the push service *)
(* has failed once none is set twice and no tenant goes over its cap       *)
(* (raise, the forwarder's trim and deliver).                              *)
THEOREM MarksAreKept ==
  /\ Spec => []MarksHold
  /\ SumSpec => []MarksHold
<1>1. MarksInv => MarksHold
  <2> SUFFICES ASSUME MarksInv PROVE MarksHold
    OBVIOUS
  <2>1. TypeOK
    <3>1. /\ Len(pending) \in Nat /\ Len(carry) \in Nat
          /\ forwarder \in {"select", "trim", "sweep", "send", "flush", "stopped"}
      BY DEF MarksInv, MarksTyped
    <3>2. Len(pending) <= MaxPending + QueueCapacity + 1
      <4>1. CASE forwarder \in {"flush", "stopped"}
        BY <3>1, <4>1, NotifyAssumed DEF MarksInv, Room
      <4>2. CASE forwarder = "select"
        BY <3>1, <4>2, NotifyAssumed DEF MarksInv, Room
      <4>3. CASE forwarder = "trim"
        BY <3>1, <4>3, NotifyAssumed DEF MarksInv, Room
      <4>4. CASE forwarder = "sweep"
        BY <3>1, <4>4, NotifyAssumed DEF MarksInv, Room
      <4>5. CASE forwarder = "send"
        BY <3>1, <4>5, NotifyAssumed DEF MarksInv, Room
      <4> QED BY <3>1, <4>1, <4>2, <4>3, <4>4, <4>5
    <3> QED BY <3>2 DEF MarksInv, MarksTyped, TypeOK
  <2>2. NeverSilenced
    BY BehindWaits DEF MarksInv, Marked, MarksTyped, NeverSilenced
  <2>3. Coalesced
    <3> SUFFICES ASSUME ~retried, NEW k \in Keys PROVE Waiting({k}) <= 1
      BY DEF Coalesced
    <3>1. IsFiniteSet({k}) /\ Cardinality({k}) = 1 /\ {k} \in SUBSET Keys
      BY FS_Singleton
    <3> QED BY <3>1, WaitingIsMarked DEF MarksInv, Once
  <2>4. TenantCapped
    <3> SUFFICES ASSUME ~retried, NEW t \in Tenants
                 PROVE  Waiting({t} \X Categories) <= MaxInflight
      BY DEF TenantCapped
    <3>1. inflight \cap ({t} \X Categories) \subseteq Held(t) /\ {t} \X Categories \in SUBSET Keys
      BY DEF Held, Keys
    <3>2. IsFiniteSet(Held(t)) /\ Cardinality(Held(t)) \in Nat
      <4>1. Held(t) \subseteq inflight
        BY DEF Held
      <4> QED BY <4>1, FS_Subset, FS_CardinalityType DEF MarksInv, MarksTyped
    <3>3. Waiting({t} \X Categories) <= Cardinality(Held(t))
      BY <3>1, <3>2, WaitingIsMarked DEF MarksInv, Once
    <3>4. Waiting({t} \X Categories) \in Nat
      BY WaitingIs DEF MarksInv
    <3>5. Cardinality(Held(t)) <= MaxInflight
      BY DEF MarksInv, Capped
    <3> QED BY <3>2, <3>3, <3>4, <3>5, NotifyAssumed
  <2> QED BY <2>1, <2>2, <2>3, <2>4 DEF MarksHold
<1>2. Spec => []MarksHold
  BY NotifyInit, NotifyNext, <1>1, PTL DEF Spec
<1>3. SumInit => MarksInv
  BY NotifyInit DEF SumInit
<1>4. [SumNext]_Sum => [Next]_vars
  BY DEF SumNext, Sum, vars
<1>5. SumSpec => []MarksHold
  BY NotifyNext, <1>1, <1>3, <1>4, PTL DEF SumSpec
<1> QED BY <1>2, <1>5

-----------------------------------------------------------------------------
(* The push service client (module Push), for any number of devices and    *)
(* any life of a credential.  A request is out for at most a margin        *)
(* (EXCHANGE_TIMEOUT); what keeps it from arriving after its credential    *)
(* lapsed is what was known when it was signed.  A cached one had more     *)
(* than a margin to live at the time the forwarder read, a fetched one at  *)
(* the time it came, unless it was handed out nearer to its end (Ahead).   *)
(* That the forwarder's time is no later than the clock's turns the second *)
(* into the first.                                                         *)

LEMMA ClientAssumed == Lifetime \in Nat
BY ClientAssumption DEF Client!PushAssumption

HandedOut == [until : Nat, good : BOOLEAN, near : BOOLEAN]

ClientTyped == p_now \in Nat /\ p_asked \in Nat /\ p_cached \in HandedOut \cup {None}

Ahead == p_step = "sent" =>
           /\ p_used \in HandedOut
           /\ p_used.near \/ p_used.until > p_asked + 1

ClientInv == ClientTyped /\ p_asked <= p_now /\ Ahead

LEMMA ClientInit == Client!Init => ClientInv
BY DEF Client!Init, ClientInv, ClientTyped, Ahead

LEMMA Handed ==
  ASSUME p_now \in Nat, NEW life \in 0..Lifetime
  PROVE  [until |-> p_now + life, good |-> TRUE, near |-> life <= 1] \in HandedOut
<1>1. p_now + life \in Nat
  BY ClientAssumed
<1>2. (life <= 1) \in BOOLEAN
  OBVIOUS
<1> QED BY <1>1, <1>2, Zenon DEF HandedOut

LEMMA ClientNext == ClientInv /\ [Client!Next]_Client!vars => ClientInv'
<1> SUFFICES ASSUME ClientInv, [Client!Next]_Client!vars PROVE ClientInv'
  OBVIOUS
<1>1. CASE UNCHANGED Client!vars
  BY <1>1 DEF Client!vars, ClientInv, ClientTyped, Ahead
<1>2. CASE Client!Probe
  BY <1>2, Handed DEF Client!Probe, ClientInv, ClientTyped, Ahead
<1>3. CASE Client!Top
  BY <1>3 DEF Client!Top, ClientInv, ClientTyped, Ahead
<1>4. CASE Client!Raise
  BY <1>4 DEF Client!Raise, ClientInv, ClientTyped, Ahead
<1>5. CASE Client!Sweep
  BY <1>5 DEF Client!Sweep, ClientInv, ClientTyped, Ahead
<1>6. CASE Client!Stop
  BY <1>6 DEF Client!Stop, ClientInv, ClientTyped, Ahead
<1>7. CASE Client!Flush
  BY <1>7 DEF Client!Flush, ClientInv, ClientTyped, Ahead
<1>8. CASE Client!Delivered
  BY <1>8 DEF Client!Delivered, ClientInv, ClientTyped, Ahead
<1>9. CASE Client!Sign
  <2>1. p_cached \in HandedOut /\ p_cached.until > p_asked + 1
    BY <1>9 DEF Client!Sign, Client!Usable, ClientInv, ClientTyped
  <2> QED BY <1>9, <2>1 DEF Client!Sign, ClientInv, ClientTyped, Ahead
<1>10. ASSUME NEW life \in 0..Lifetime, Client!Fetch(life) PROVE ClientInv'
  <2>1. p_cached' \in HandedOut /\ p_used' = p_cached'
    BY <1>10, Handed DEF Client!Fetch, ClientInv, ClientTyped
  <2>2. p_used'.near \/ p_used'.until > p_asked + 1
    <3>1. p_used'.until = p_now + life
      BY <1>10 DEF Client!Fetch
    <3>2. life <= 1 => p_used'.near
      BY <1>10 DEF Client!Fetch
    <3>3. p_now \in Nat /\ p_asked \in Nat /\ p_asked <= p_now /\ life \in Nat
      BY ClientAssumed DEF ClientInv, ClientTyped
    <3> QED BY <3>1, <3>2, <3>3
  <2> QED BY <1>10, <2>1, <2>2 DEF Client!Fetch, ClientInv, ClientTyped, Ahead
<1>11. CASE Client!FetchFails
  BY <1>11 DEF Client!FetchFails, ClientInv, ClientTyped, Ahead
<1>12. CASE Client!Refuse
  BY <1>12 DEF Client!Refuse, Client!After403, ClientInv, ClientTyped, Ahead
<1>13. CASE Client!Settle
  BY <1>13 DEF Client!Settle, Client!After403, ClientInv, ClientTyped, Ahead
<1>14. CASE Client!Transient
  BY <1>14 DEF Client!Transient, ClientInv, ClientTyped, Ahead
<1>15. CASE Client!Tick
  BY <1>15 DEF Client!Tick, ClientInv, ClientTyped, Ahead
<1>16. CASE Client!Revoke
  <2>1. /\ p_cached' \in HandedOut
        /\ p_cached'.until = p_cached.until /\ p_cached'.near = p_cached.near
    BY <1>16 DEF Client!Revoke, ClientInv, ClientTyped, HandedOut
  <2>2. p_used' = p_used \/ (p_used = p_cached /\ p_used' = p_cached')
    BY <1>16 DEF Client!Revoke
  <2> QED BY <1>16, <2>1, <2>2 DEF Client!Revoke, ClientInv, ClientTyped, Ahead
<1>17. CASE Client!Heal
  BY <1>17 DEF Client!Heal, ClientInv, ClientTyped, Ahead
<1> QED BY <1>1, <1>2, <1>3, <1>4, <1>5, <1>6, <1>7, <1>8, <1>9, <1>10, <1>11, <1>12,
           <1>13, <1>14, <1>15, <1>16, <1>17
        DEF Client!Next, Client!Forward, Client!Fetched

(* For any number of devices, any life of a credential and any revocation: *)
(* a request made at the time the forwarder read is not overtaken by its   *)
(* credential's end, unless that was handed out a margin or less before    *)
(* its end (credentials, signed).                                          *)
THEOREM RequestsNotLapsed ==
  /\ Client!Spec => []Client!NotLapsed
  /\ SumSpec => [](part = "push" => Client!NotLapsed)
<1>1. ClientInv => Client!NotLapsed
  BY DEF ClientInv, ClientTyped, Ahead, Client!NotLapsed, Client!SignedAt, HandedOut
<1>2. Client!Spec => []Client!NotLapsed
  BY ClientInit, ClientNext, <1>1, PTL DEF Client!Spec
<1>3. SumInit => ClientInv
  BY ClientInit DEF SumInit
<1>4. [SumNext]_Sum => [Client!Next]_Client!vars
  BY DEF SumNext, Sum, p_vars, Client!vars
<1>5. ClientInv => (part = "push" => Client!NotLapsed)
  BY <1>1
<1>6. SumSpec => [](part = "push" => Client!NotLapsed)
  BY ClientNext, <1>3, <1>4, <1>5, PTL DEF SumSpec
<1> QED BY <1>2, <1>6

=============================================================================
