----------------------------- MODULE SseFramer -----------------------------
(***************************************************************************)
(* The event framer of a held connection (runtime/src/stream.rs SseFramer) *)
(* fed a stream of server-sent events in frames of any size.               *)
(*                                                                         *)
(* A byte is a line feed, a carriage return, a character of a data field,  *)
(* or half of a character of two bytes, which only a comment holds.  What  *)
(* is written is valid UTF-8.  An event is the data of its block; the far  *)
(* side writes lines ended by LF, CR or CRLF.                              *)
(***************************************************************************)
EXTENDS Integers, Sequences, SequencesExt, FiniteSets

CONSTANTS
    MaxBytes,   \* bound: bytes the far side writes
    MaxFrame,   \* bound: bytes of one frame
    Ceiling     \* MAX_MESSAGE * 2

FramerAssumption == {MaxBytes, MaxFrame, Ceiling} \subseteq Nat

LF == "lf"
CR == "cr"
Data == "data"
Lead == "lead"      \* the first byte of a two-byte character,
Trail == "trail"    \* and its second

VARIABLES
    written,    \* everything received so far
    buffer,     \* SseFramer::buffer
    events,     \* the events handed on, each the number of its data bytes
    failed      \* push returned an error, which ends the connection

vars == <<written, buffer, events, failed>>

-----------------------------------------------------------------------------
Bytes == {LF, CR, Data, Lead, Trail}
ValidUtf8(s) == \A i \in 1..Len(s) :
    /\ s[i] = Lead => i < Len(s) /\ s[i + 1] = Trail
    /\ s[i] = Trail => i > 1 /\ s[i - 1] = Lead

(* replace("\r\n", "\n").replace('\r', "\n"), a byte at a time.              *)
FoldByte(s, folded, n) ==
    IF s[n] = LF /\ n > 1 /\ s[n - 1] = CR THEN folded
    ELSE Append(folded, IF s[n] = CR THEN LF ELSE s[n])
Fold(s) ==
    LET folded[n \in 0..Len(s)] == IF n = 0 THEN <<>> ELSE FoldByte(s, folded[n - 1], n)
    IN  folded[Len(s)]

(* Mutant: a carriage return at the end is folded at once. *)
NormaliseAtOnce(s) == Fold(s)

(* A trailing carriage return is held back: it may be half of a CRLF. *)
Normalise(s) ==
    IF s # <<>> /\ Last(s) = CR THEN Append(Front(Fold(s)), CR) ELSE Fold(s)

Blank(s) == {i \in 1..(Len(s) - 1) : s[i] = LF /\ s[i + 1] = LF}
FirstBlank(s) == CHOOSE i \in Blank(s) : \A j \in Blank(s) : i <= j
DataOf(block) == Cardinality({i \in DOMAIN block : block[i] = Data})

(* The while loop: what is left of the buffer, and the events of the       *)
(* blocks taken off.  A block without data is a heartbeat or a comment.    *)
TakeBlock(taken) ==
    IF Blank(taken.rest) = {} THEN taken
    ELSE LET end  == FirstBlank(taken.rest) + 1
             data == DataOf(SubSeq(taken.rest, 1, end))
         IN  [rest |-> SubSeq(taken.rest, end + 1, Len(taken.rest)),
              out  |-> IF data > 0 THEN Append(taken.out, data) ELSE taken.out]
Take(s) ==
    LET taken[n \in 0..Len(s)] ==
          IF n = 0 THEN [rest |-> s, out |-> <<>>] ELSE TakeBlock(taken[n - 1])
    IN  taken[Len(s)]

Init == written = <<>> /\ buffer = <<>> /\ events = <<>> /\ failed = FALSE

Push(chunk) ==
    LET normal == Normalise(buffer \o chunk)
        taken  == Take(normal)
    IN  /\ ~failed
        /\ written' = written \o chunk
        /\ IF ValidUtf8(chunk) /\ Len(normal) <= Ceiling
           THEN /\ buffer' = taken.rest
                /\ events' = events \o taken.out
                /\ failed' = FALSE
           ELSE failed' = TRUE /\ UNCHANGED <<buffer, events>>

(* What the far side writes is valid as a whole, not frame by frame. *)
Next ==
    \E n \in 1..MaxFrame : \E chunk \in [1..n -> Bytes] :
        /\ Len(written) + n <= MaxBytes
        /\ \E more \in {<<>>, <<Trail>>} : ValidUtf8(written \o chunk \o more)
        /\ Push(chunk)

Spec == Init /\ [][Next]_vars

-----------------------------------------------------------------------------
(* The reference reads byte by byte: a line ends at LF, CR or CRLF, and an *)
(* event at an empty line.                                                 *)
Reads(st, b) ==
    IF b = LF /\ st.cr THEN [st EXCEPT !.cr = FALSE]
    ELSE IF b \in {LF, CR} THEN
        IF st.empty /\ st.data > 0
        THEN [data |-> 0, empty |-> TRUE, cr |-> b = CR, out |-> Append(st.out, st.data)]
        ELSE [data |-> st.data, empty |-> TRUE, cr |-> b = CR, out |-> st.out]
    ELSE [st EXCEPT !.empty = FALSE, !.cr = FALSE, !.data = @ + (IF b = Data THEN 1 ELSE 0)]
Reading(st, s) ==
    LET read[n \in 0..Len(s)] == IF n = 0 THEN st ELSE Reads(read[n - 1], s[n])
    IN  read[Len(s)]
After(handed) == [data |-> 0, empty |-> TRUE, cr |-> FALSE, out |-> handed]
Reference(s) == Reading(After(<<>>), s).out

(* What a connection that is still up has handed to the guest is what the  *)
(* far side wrote, however the bytes were cut into frames and whichever    *)
(* line endings it used; an event ended by a carriage return that came     *)
(* last may wait for the next byte.                                        *)
HoweverItArrives ==
    ~failed =>
        \/ events = Reference(written)
        \/ Last(written) = CR /\ events = Reference(Front(written))
=============================================================================
