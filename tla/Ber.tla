-------------------------------- MODULE Ber --------------------------------
(***************************************************************************)
(* keys/ber.rs: KMS answers in BER (indefinite lengths, OCTET STRINGs in   *)
(* chunks), the CMS reader takes DER only, and to_der rewrites the one as  *)
(* the other before anything in it has been authenticated.                 *)
(*                                                                         *)
(* Transcode and its helpers are the code, on strings of bytes.  Values is *)
(* the reference: small ASN.1 values, each with one of its BER encodings   *)
(* and its only DER encoding.                                              *)
(***************************************************************************)
EXTENDS Integers, Sequences, FiniteSetsExt, SequencesExt

CONSTANTS MaxDepth,     \* MAX_DEPTH: 64
          MaxCut,       \* a value is cut after so many bytes, or before its last
          Nesting,      \* depth of the values enumerated
          Contents      \* contents of the primitive values enumerated

VARIABLES value, cut, answer
vars == <<value, cut, answer>>

Byte == 0 .. 255
INTEGER == 2
OCTETS == 4
CHUNKED == 36
SEQUENCE == 48
CONTEXT == 160
IMPLICIT == 128
Indefinite == -1
Bad == [out |-> <<>>, rest |-> <<>>, ok |-> FALSE]
Good(out, rest) == [out |-> out, rest |-> rest, ok |-> TRUE]

Constructed(id) == (id \div 32) % 2 = 1
From(s, i) == SubSeq(s, i, Len(s))

(***************************************************************************)
(* read_len: the short form, the long form of at most four bytes, or       *)
(* indefinite; out is a length here.                                       *)
(***************************************************************************)
BigEndian(bytes) == FoldLeft(LAMBDA n, b : n * 256 + b, 0, bytes)

ReadLen(in) ==
  IF in = <<>> THEN Bad
  ELSE LET first == in[1]   rest == From(in, 2)   n == first - 128 IN
       CASE first = 128 -> Good(Indefinite, rest)
         [] first < 128 -> Good(first, rest)
         [] OTHER -> IF n > Len(rest) \/ n > 4 THEN Bad
                     ELSE Good(BigEndian(SubSeq(rest, 1, n)), From(rest, n + 1))

(* emit: the shortest definite length.                                     *)
Emit(id, content) ==
  LET n == Len(content) IN
  CASE n < 128 -> <<id, n>> \o content
    [] n \in 128 .. 255 -> <<id, 129, n>> \o content
    [] OTHER -> <<id, 130, n \div 256, n % 256>> \o content

OctetValue(der) ==
  IF der[1] # OCTETS THEN Bad
  ELSE LET len == ReadLen(Tail(der)) IN Good(SubSeq(len.rest, 1, len.out), <<>>)

(* A chunked OCTET STRING, universal or under a context tag, becomes one   *)
(* primitive; any other constructed value keeps its children.              *)
JoinChunksOnly(id, children) ==   \* mutant
  IF id = CHUNKED
    THEN Good(Emit(OCTETS, FlattenSeq([i \in DOMAIN children |-> OctetValue(children[i]).out])), <<>>)
    ELSE Good(Emit(id, FlattenSeq(children)), <<>>)
Join(id, children) ==
  LET octets == \A i \in DOMAIN children : children[i][1] = OCTETS
      body == FlattenSeq([i \in DOMAIN children |-> OctetValue(children[i]).out]) IN
  CASE id = CHUNKED -> IF octets THEN Good(Emit(OCTETS, body), <<>>) ELSE Bad
    [] id \div 64 = 2 /\ children # <<>> /\ octets -> Good(Emit(id - 32, body), <<>>)
    [] OTHER -> Good(Emit(id, FlattenSeq(children)), <<>>)

(***************************************************************************)
(* transcode: one TLV.  Children collects the values of a region: up to    *)
(* its end, or up to end-of-contents when the length is indefinite.        *)
(***************************************************************************)
Transcode[in \in Seq(Byte), depth \in Nat] ==
  IF depth > MaxDepth \/ in = <<>> \/ (in # <<>> /\ in[1] % 32 = 31) THEN Bad
  ELSE
  LET id == in[1]
      len == ReadLen(Tail(in))
      indefinite == len.out = Indefinite
      fits == ~indefinite /\ len.out <= Len(len.rest)
      after == IF fits THEN From(len.rest, len.out + 1) ELSE <<>>
      Children[region \in Seq(Byte)] ==
        CASE ~indefinite /\ region = <<>> -> Good(<<>>, <<>>)
          [] indefinite /\ Len(region) >= 2 /\ region[1] = 0 /\ region[2] = 0 ->
               Good(<<>>, From(region, 3))
          [] OTHER ->
               LET child == Transcode[region, depth + 1]
                   others == Children[child.rest] IN
               IF child.ok /\ others.ok THEN Good(<<child.out>> \o others.out, others.rest) ELSE Bad
      body == IF fits THEN SubSeq(len.rest, 1, len.out) ELSE len.rest
      children == Children[body]
      joined == Join(id, children.out) IN
  CASE ~len.ok \/ (~fits /\ ~(indefinite /\ Constructed(id))) -> Bad
    [] len.ok /\ fits /\ ~Constructed(id) -> Good(Emit(id, body), after)
    [] OTHER -> IF children.ok /\ joined.ok
                  THEN Good(joined.out, IF indefinite THEN children.rest ELSE after)
                  ELSE Bad

ToDer(in) == LET t == Transcode[in, 0] IN IF t.rest = <<>> THEN t ELSE Bad

(***************************************************************************)
(* The reference.  A value: one BER encoding, its DER, the octets it       *)
(* carries when it is an OCTET STRING, its depth.                          *)
(***************************************************************************)
Value(ber, der, octets, depth) ==
  [ber |-> ber, der |-> der, octets |-> octets, depth |-> depth]
Nothing == <<-1>>

Primitives ==
  {Value(Emit(id, c), Emit(id, c), IF id = OCTETS THEN c ELSE Nothing, 0) :
     id \in {INTEGER, OCTETS}, c \in Contents}

(* Definite, definite with a length byte too many, indefinite.             *)
Forms(id, body) ==
  {Emit(id, body), <<id, 128>> \o body \o <<0, 0>>}
    \cup (IF Len(body) < 128 THEN {<<id, 129, Len(body)>> \o body} ELSE {})

Depth(kids) == IF kids = <<>> THEN 0 ELSE 1 + Max({kids[i].depth : i \in DOMAIN kids})
All(kids, part(_)) == FlattenSeq([i \in DOMAIN kids |-> part(kids[i])])
Octets(kids) == \A i \in DOMAIN kids : kids[i].octets # Nothing

Composite(kids) ==
  LET ber == All(kids, LAMBDA k : k.ber)   der == All(kids, LAMBDA k : k.der) IN
  {Value(b, Emit(SEQUENCE, der), Nothing, Depth(kids)) : b \in Forms(SEQUENCE, ber)} \cup
  (IF Octets(kids)
     THEN LET bytes == All(kids, LAMBDA k : k.octets) IN
          {Value(b, Emit(OCTETS, bytes), bytes, Depth(kids)) : b \in Forms(CHUNKED, ber)} \cup
          (IF kids = <<>> THEN {}
           ELSE {Value(b, Emit(IMPLICIT, bytes), Nothing, Depth(kids)) : b \in Forms(CONTEXT, ber)})
     ELSE {Value(b, Emit(CONTEXT, der), Nothing, Depth(kids)) : b \in Forms(CONTEXT, ber)})

(* Two children at the lowest level, one above.                            *)
Values[d \in Nat] ==
  IF d = 0 THEN Primitives
  ELSE Values[d - 1] \cup
       UNION {Composite(kids) : kids \in IF d = 1 THEN SeqOf(Values[0], 2)
                                         ELSE {<<v>> : v \in Values[d - 1]}}

Init == value \in Values[Nesting] /\ cut = -2 /\ answer = Bad

(* The value as it was sent, cut short, or with something after it.        *)
Arrives(n) ==
  /\ cut = -2
  /\ cut' = n
  /\ answer' = ToDer(CASE n = 0 -> value.ber
                       [] n > 0 -> SubSeq(value.ber, 1, n)
                       [] n < 0 -> value.ber \o <<0, 0>>)
  /\ UNCHANGED value

Next == \E n \in {-1, 0, Len(value.ber) - 1} \cup 1 .. Min({MaxCut, Len(value.ber) - 1}) : Arrives(n)
Spec == Init /\ [][Next]_vars

(***************************************************************************)
(* Properties.                                                             *)
(***************************************************************************)

(* However a value is encoded, to_der yields its one DER encoding, which a *)
(* second pass leaves as it is; a value nested deeper than MAX_DEPTH is    *)
(* refused: transcode.                                                     *)
SameValue ==
  cut = 0 => IF value.depth > MaxDepth THEN ~answer.ok
             ELSE answer = Good(value.der, <<>>) /\ ToDer(value.der) = answer

(* A value cut short anywhere, or with anything after it, is refused: the  *)
(* bounds checks of transcode and read_len, and to_der's own.              *)
PartRefused == cut \notin {-2, 0} => ~answer.ok

(* to_der is a function of the value alone, and of the whole of it.        *)
Transcodes ==
  /\ SameValue
  /\ PartRefused

=============================================================================
