------------------------------ MODULE Entropy ------------------------------
(***************************************************************************)
(* Random bytes (src/crates/nitro-nsm/src/lib.rs, src/runtime/src/         *)
(* random.rs): every draw goes to the NSM device, which answers as many    *)
(* bytes as it likes per request, so get_random asks until the buffer is   *)
(* full.  Guests on several threads and the runtime draw from one device;  *)
(* a guest's infallible draw that fails traps, its fallible one reports.   *)
(* main.rs' self check (entropy_check) draws twice and compares.           *)
(*                                                                         *)
(* A byte is the number of the device byte it is; 0 is the zero a buffer   *)
(* is made of before anything is written to it.  A device that is stuck    *)
(* answers every request with the same block.                              *)
(***************************************************************************)
EXTENDS Integers, Sequences

CONSTANTS Callers,      \* threads that draw
          BufferLens,   \* lengths of the buffers drawn for
          ReplyMax,     \* most bytes one answer carries
          CheckLen,     \* the length entropy_check draws: 64
          MaxDraws,     \* bound on draws
          Source        \* "nsm" or "auto": RandomSource as configured

(* Lengths are numbers.                                                    *)
EntropyAssumption == ReplyMax \in Nat /\ BufferLens \subseteq Nat

VARIABLES source,       \* "opening", then "nsm" or "host", or "refused"
          kind,         \* what the device is: "good", "zeros", "block", "silent"
          made,         \* bytes the device has produced
          draw,         \* per caller: the draw it is in
          draws,
          check,        \* entropy_check: "off", "first", "passed", "failed"
          given         \* history: the buffers handed over, and the lengths asked

vars == <<source, kind, made, draw, draws, check, given>>

Idle == [at |-> "idle", want |-> 0, buf |-> <<>>, infallible |-> FALSE]

Init ==
  /\ source = "opening" /\ kind \in {"good", "zeros", "block", "silent"}
  /\ made = 0 /\ draw = [c \in Callers |-> Idle] /\ draws = 0
  /\ check = "off" /\ given = <<>>

(***************************************************************************)
(* One raw round trip and its decoding.  An ioctl that fails, an empty or  *)
(* over-long response, an Error answer and an answer to something else     *)
(* are all one refusal; otherwise the answer carries 0..ReplyMax bytes.    *)
(***************************************************************************)
Failed == <<-1>>

Bytes(n) ==
  CASE kind = "good"  -> [i \in 1 .. n |-> made + i]
    [] kind = "zeros" -> [i \in 1 .. n |-> 0]
    [] kind = "block" -> [i \in 1 .. n |-> i]
    [] kind = "silent" -> <<>>

(* A stuck device answers with blocks of one length.                       *)
Replies ==
  CASE kind = "good" -> {Failed} \cup {Bytes(n) : n \in 0 .. ReplyMax}
    [] OTHER -> {Bytes(ReplyMax)}

(***************************************************************************)
(* get_random: one iteration of its loop.                                  *)
(***************************************************************************)
Take(bytes, room) == SubSeq(bytes, 1, IF Len(bytes) < room THEN Len(bytes) ELSE room)

StopOnShort(reply, buf, want) ==   \* mutant
  IF reply = Failed \/ reply = <<>> THEN [at |-> "failed", buf |-> buf]
  ELSE LET filled == buf \o Take(reply, want - Len(buf)) IN
       [at |-> "filled", buf |-> filled \o [i \in 1 .. want - Len(filled) |-> 0]]
AskAgain(reply, buf, want) ==      \* mutant
  IF reply = Failed THEN [at |-> "failed", buf |-> buf]
  ELSE LET filled == buf \o Take(reply, want - Len(buf)) IN
       [at |-> IF Len(filled) < want THEN "drawing" ELSE "filled", buf |-> filled]
GetRandom(reply, buf, want) ==
  IF reply = Failed \/ reply = <<>> THEN [at |-> "failed", buf |-> buf]
  ELSE LET filled == buf \o Take(reply, want - Len(buf)) IN
       [at |-> IF Len(filled) < want THEN "drawing" ELSE "filled", buf |-> filled]

(***************************************************************************)
(* open_entropy: NsmDevice::open proves the device answers with one draw;  *)
(* 'nsm' refuses to start without it, 'auto' falls back to the kernel.     *)
(***************************************************************************)
OpenEntropy ==
  /\ source = "opening"
  /\ \E answers \in {kind # "silent", FALSE} :
       source' = IF answers THEN "nsm" ELSE IF Source = "nsm" THEN "refused" ELSE "host"
  /\ check' \in {"off", "first"}
  /\ UNCHANGED <<kind, made, draw, draws, given>>

(***************************************************************************)
(* The device stops producing.                                             *)
(***************************************************************************)
Silenced ==
  /\ kind = "good" /\ kind' = "silent"
  /\ UNCHANGED <<source, made, draw, draws, check, given>>

(***************************************************************************)
(* Draws: fill_bytes (infallible) and try_fill_bytes, and the insecure     *)
(* seed each new guest instance is given.                                  *)
(***************************************************************************)
Draw(c, n, infallible) ==
  /\ source \in {"nsm", "host"} /\ check = "off"
  /\ draw[c].at = "idle" /\ draws < MaxDraws
  /\ draw' = [draw EXCEPT ![c] = [at |-> "drawing", want |-> n, buf |-> <<>>,
                                  infallible |-> infallible]]
  /\ draws' = draws + 1
  /\ UNCHANGED <<source, kind, made, check, given>>

(* HostEntropy: getrandom(2) fills the buffer or fails; its bytes are      *)
(* numbered like the device's.                                             *)
Answer(c) ==
  /\ draw[c].at = "drawing"
  /\ \E reply \in IF source = "nsm" THEN Replies
                  ELSE {Failed, [i \in 1 .. draw[c].want |-> made + i]} :
       /\ LET r == GetRandom(reply, draw[c].buf, draw[c].want) IN
          draw' = [draw EXCEPT ![c].at = r.at, ![c].buf = r.buf]
       /\ made' = IF reply = Failed \/ (source = "nsm" /\ kind # "good") THEN made
                   ELSE made + Len(reply)
  /\ UNCHANGED <<source, kind, draws, check, given>>

(* fill_bytes panics on a failure; try_fill_bytes reports it.              *)
Hand(c) ==
  /\ draw[c].at = "filled"
  /\ given' = Append(given, [want |-> draw[c].want, buf |-> draw[c].buf])
  /\ draw' = [draw EXCEPT ![c] = Idle]
  /\ UNCHANGED <<source, kind, made, draws, check>>

FillFails(c) ==
  /\ draw[c].at = "failed"
  /\ draw' = [draw EXCEPT ![c] = [Idle EXCEPT !.at = IF draw[c].infallible THEN "trapped" ELSE "idle"]]
  /\ UNCHANGED <<source, kind, made, draws, check, given>>

(***************************************************************************)
(* entropy_check: two draws of 64 bytes and the tests on them.  The        *)
(* histogram of a third draw asks no more of these devices.                *)
(***************************************************************************)
Constant(buf) == \A i \in DOMAIN buf : buf[i] = buf[1]

Verdict(first, second) == ~Constant(first) /\ first # second

Filled(from) ==
  CASE kind = "good" -> [i \in 1 .. CheckLen |-> from + i]
    [] OTHER -> [i \in 1 .. CheckLen |-> Bytes(ReplyMax)[((i - 1) % ReplyMax) + 1]]

EntropyCheck ==
  /\ source = "nsm" /\ check = "first"
  /\ check' = IF kind # "silent" /\ Verdict(Filled(made), Filled(made + CheckLen))
                THEN "passed" ELSE "failed"
  /\ UNCHANGED <<source, kind, made, draw, draws, given>>

Next ==
  \/ OpenEntropy \/ EntropyCheck \/ Silenced
  \/ \E c \in Callers :
       \/ \E n \in BufferLens, infallible \in BOOLEAN : Draw(c, n, infallible)
       \/ Answer(c) \/ Hand(c) \/ FillFails(c)

(* An ioctl returns, and a thread goes on.                                 *)
Spec ==
  /\ Init /\ [][Next]_vars
  /\ \A c \in Callers : WF_vars(Answer(c) \/ Hand(c) \/ FillFails(c))

(***************************************************************************)
(* Properties.                                                             *)
(***************************************************************************)

(* A buffer handed to a guest is as long as it asked, holds no byte that   *)
(* nothing wrote, and shares none with a buffer handed to anybody else,    *)
(* whatever lengths the device answers in: get_random over a device that   *)
(* works.                                                                  *)
NeverPredictable ==
  kind \in {"good", "silent"} =>
    \A i \in DOMAIN given :
      /\ Len(given[i].buf) = given[i].want
      /\ \A j \in DOMAIN given : \A x \in DOMAIN given[i].buf, y \in DOMAIN given[j].buf :
           /\ given[i].buf[x] # 0
           /\ <<i, x>> # <<j, y>> => given[i].buf[x] # given[j].buf[y]

(* The self check passes no device that answers zeros or always the same   *)
(* block: entropy_check.                                                   *)
StuckIsCaught == check = "passed" => kind \in {"good", "silent"}

(* A draw ends, filled or failed, also when the device stops producing in  *)
(* the middle of it: get_random treats an empty answer as an error.        *)
DrawEnds == \A c \in Callers : (draw[c].at = "drawing") ~> (draw[c].at # "drawing")

(* No predictable byte is handed out by a device that works, and no stuck  *)
(* device passes the check (get_random, entropy_check).                    *)
RandomnessHolds ==
  /\ NeverPredictable
  /\ StuckIsCaught

=============================================================================
