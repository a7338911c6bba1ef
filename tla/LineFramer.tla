---------------------------- MODULE LineFramer ----------------------------
(***************************************************************************)
(* The framing of guest output of runtime/src/guest_io.rs: a guest writes  *)
(* bytes through several stream objects of one factory, in chunks of its   *)
(* own choice, and each object cuts them into lines of its own.  What      *)
(* happens to a framed record is module LogShip's.  A byte is "x" (any     *)
(* other), "r" (carriage return) or "n" (newline).                         *)
(***************************************************************************)
EXTENDS Naturals, Sequences, SequencesExt, FiniteSets

CONSTANTS Objects,    \* stream objects the guest holds
          Cap,        \* MAX_LOG_RECORD_BYTES
          MaxChunk,   \* bytes in one write
          MaxBytes    \* bytes written through one object in a run

LinesAssumption == Cap \in Nat /\ MaxChunk \in Nat /\ MaxBytes \in Nat

VARIABLES framer,   \* each object's LineFramer, with what it has framed and lost
          wrote,    \* everything written through an object
          closed    \* objects the guest has dropped

vars == <<framer, wrote, closed>>

Bytes == {"x", "r", "n"}
Chunks == UNION {[1 .. n -> Bytes] : n \in 0 .. MaxChunk}
GuestLogRecord == [message : Seq(Bytes), truncated : BOOLEAN]

\* drops.bytes is shared by all of them: here each object's part of it.
Framer == [partial : Seq(Bytes), overflowed : BOOLEAN, out : Seq(GuestLogRecord), lost : Nat]

Fresh == [partial |-> <<>>, overflowed |-> FALSE, out |-> <<>>, lost |-> 0]

Init == /\ framer = [o \in Objects |-> Fresh]
        /\ wrote = [o \in Objects |-> <<>>]
        /\ closed = {}

\* A byte of the line: kept while there is room, else counted.  (extend takes the
\* bytes up to the newline at once, which comes to the same.)
Extend(f, b) ==
    IF Len(f.partial) < Cap
    THEN [f EXCEPT !.partial = Append(@, b)]
    ELSE [f EXCEPT !.overflowed = TRUE, !.lost = @ + 1]

\* The terminator's carriage return goes with it.
Normalise(line) == IF line # <<>> /\ Last(line) = "r" THEN SubSeq(line, 1, Len(line) - 1) ELSE line

\* Mutant: the flag of a long line is left standing.
EmitSticky(f) ==
    [f EXCEPT !.out = Append(@, [message |-> Normalise(f.partial), truncated |-> f.overflowed]),
              !.partial = <<>>]

Emit(f) ==
    [f EXCEPT !.out = Append(@, [message |-> Normalise(f.partial), truncated |-> f.overflowed]),
              !.partial = <<>>, !.overflowed = FALSE]

Absorb(f, b) == IF b = "n" THEN Emit(f) ELSE Extend(f, b)

\* after[n]: the framer once it has taken n bytes of the write.
Push(f, bytes) ==
    LET after[n \in 0 .. Len(bytes)] == IF n = 0 THEN f ELSE Absorb(after[n - 1], bytes[n])
    IN  after[Len(bytes)]

\* A line in progress is emitted when its object goes.  (A writer's poll_shutdown
\* does it first, and the drop then finds nothing.)
Finish(f) == IF f.partial # <<>> \/ f.overflowed THEN Emit(f) ELSE f

Write(o, bytes) ==
    /\ o \notin closed
    /\ Len(wrote[o]) + Len(bytes) <= MaxBytes
    /\ framer' = [framer EXCEPT ![o] = Push(@, bytes)]
    /\ wrote' = [wrote EXCEPT ![o] = @ \o bytes]
    /\ UNCHANGED closed

Drop(o) ==
    /\ o \notin closed
    /\ framer' = [framer EXCEPT ![o] = Finish(@)]
    /\ closed' = closed \cup {o}
    /\ UNCHANGED wrote

Next == \E o \in Objects : Drop(o) \/ \E bytes \in Chunks : Write(o, bytes)

Spec == Init /\ [][Next]_vars

----------------------------------------------------------------------------
(* The lines an object was given, by where its newlines are, whatever the   *)
(* chunks were.                                                             *)

\* Where the line begins that the i-th byte ends or is in.
Start(bytes, i) ==
    CHOOSE s \in 1 .. i : /\ s = 1 \/ bytes[s - 1] = "n"
                          /\ \A j \in s .. (i - 1) : bytes[j] # "n"
LineEnding(bytes, i) == SubSeq(bytes, Start(bytes, i), i - 1)

\* Where lines end: at a newline, and the one begun last with the object.
Ends(bytes) == {i \in DOMAIN bytes : bytes[i] = "n"}
LineEnds(o) ==
    Ends(wrote[o]) \cup
      {i \in {Len(wrote[o]) + 1} : o \in closed /\ LineEnding(wrote[o], i) # <<>>}

Whole(line) == SubSeq(line, 1, IF Len(line) > Cap THEN Cap ELSE Len(line))
Record(line) == [message |-> Normalise(Whole(line)), truncated |-> Len(line) > Cap]

(* However a guest cuts its output into writes, and whichever of its stream *)
(* objects it uses, every object frames exactly the lines written through   *)
(* it, in order: none is split, joined or marked cut when it was not, and   *)
(* the last unfinished one appears when the object is dropped.              *)
FramedAsWritten ==
    \A o \in Objects :
        /\ Len(framer[o].out) = Cardinality(LineEnds(o))
        /\ \A i \in LineEnds(o) :
              framer[o].out[Cardinality({j \in LineEnds(o) : j <= i})]
                = Record(LineEnding(wrote[o], i))

(* A byte that is in no record was counted as lost, and what an object      *)
(* keeps between writes is never longer than one record.                    *)
LossCounted ==
    \A o \in Objects :
        /\ Len(framer[o].partial) <= Cap
        /\ framer[o].lost = Cardinality({i \in DOMAIN wrote[o] :
              wrote[o][i] # "n" /\ i - Start(wrote[o], i) >= Cap})

(* What was written is framed as written, and what is not framed is        *)
(* counted (LineFramer).                                                   *)
FramingHolds ==
  /\ FramedAsWritten
  /\ LossCounted

=============================================================================
