------------------------------- MODULE Egress -------------------------------
(***************************************************************************)
(* Outbound connections (runtime/src/serve/egress.rs): one exchange of a   *)
(* guest, or the one a held stream's supervisor (stream.rs connect_once)   *)
(* dials again and again, from the lookup to the end of the body, over the *)
(* network net.rs brings up.                                               *)
(*                                                                         *)
(* An address is its four octets and the form the resolver gave it in: an  *)
(* IPv4 one, an IPv4 one written as IPv6, or IPv6.  A far side can end a   *)
(* connection, answer slowly, or vanish without a word.                    *)
(***************************************************************************)
EXTENDS Integers, FiniteSets

CONSTANTS
    Samples,    \* addresses the resolver may answer with: [form, ip]
    Seconds,    \* a second address in the same answer
    DevHost,    \* DEV_HOST
    Ports,      \* ports a request may name
    OwnPorts,   \* DEV_HOST_OWN_PORTS
    MaxDials,   \* bound: exchanges
    None

(* The resolver answers with IPv4 addresses, written one way or the other, *)
(* and IPv6 ones.                                                          *)
AddressAssumption ==
    Samples \cup Seconds \subseteq
      [form : {"IPv4", "mapped", "IPv6"}, ip : [1..4 -> 0..255]]

VARIABLES
    testing,   \* an emulator build: the development host is admitted
    network,   \* "down", "waiting" or "up": net.rs
    who,       \* "guest" or "held": whose exchange it is
    phase,
    port,
    answers,   \* what the one lookup answered
    peer,      \* the address connected to
    far,       \* "answering", "silent" or "closed"
    worker,    \* the task that drives the connection runs
    dials

vars == <<testing, network, who, phase, port, answers, peer, far, worker, dials>>

-----------------------------------------------------------------------------
(* admits, as it is coded *)

IsPrivate(ip) ==
    \/ ip[1] = 10
    \/ ip[1] = 172 /\ ip[2] \in 16..31
    \/ ip[1] = 192 /\ ip[2] = 168
IsDocumentation(ip) ==
    \/ ip[1] = 192 /\ ip[2] = 0 /\ ip[3] = 2
    \/ ip[1] = 198 /\ ip[2] = 51 /\ ip[3] = 100
    \/ ip[1] = 203 /\ ip[2] = 0 /\ ip[3] = 113
(* b & mask, for a mask of the high bits. *)
HighBits(b, bits) == b - (b % 2^(8 - bits))

(* Mutant: 100.64/10 is taken for a /16. *)
IsReservedNarrow(ip) ==
    \/ ip[1] = 0 \/ ip[1] >= 224 \/ ip[1] = 127
    \/ IsPrivate(ip) \/ IsDocumentation(ip)
    \/ ip[1] = 169 /\ ip[2] = 254
    \/ ip[1] = 100 /\ ip[2] = 64
    \/ ip[1] = 198 /\ HighBits(ip[2], 7) = 18
    \/ ip[1] = 192 /\ ip[2] = 0 /\ ip[3] = 0

IsReserved(ip) ==
    \/ ip[1] = 0 \/ ip[1] >= 224 \/ ip[1] = 127
    \/ IsPrivate(ip) \/ IsDocumentation(ip)
    \/ ip[1] = 169 /\ ip[2] = 254
    \/ ip[1] = 100 /\ HighBits(ip[2], 2) = 64
    \/ ip[1] = 198 /\ HighBits(ip[2], 7) = 18
    \/ ip[1] = 192 /\ ip[2] = 0 /\ ip[3] = 0

Admits(a, p) ==
    /\ a.form # "IPv6"
    /\ IF testing /\ a.ip = DevHost THEN p \notin OwnPorts ELSE ~IsReserved(a.ip)

(* The reference: the blocks of the IANA special-purpose registry that are *)
(* not globally reachable, multicast and class E, as <<base, length>>.     *)
Blocks == {
    <<<<0, 0, 0, 0>>, 8>>, <<<<10, 0, 0, 0>>, 8>>, <<<<100, 64, 0, 0>>, 10>>,
    <<<<127, 0, 0, 0>>, 8>>, <<<<169, 254, 0, 0>>, 16>>, <<<<172, 16, 0, 0>>, 12>>,
    <<<<192, 0, 0, 0>>, 24>>, <<<<192, 0, 2, 0>>, 24>>, <<<<192, 168, 0, 0>>, 16>>,
    <<<<198, 18, 0, 0>>, 15>>, <<<<198, 51, 100, 0>>, 24>>, <<<<203, 0, 113, 0>>, 24>>,
    <<<<224, 0, 0, 0>>, 4>>, <<<<240, 0, 0, 0>>, 4>>}

(* How many bits of octet i a prefix of that length covers. *)
Covered(length, i) ==
    LET bits == length - 8 * (i - 1) IN IF bits < 0 THEN 0 ELSE IF bits > 8 THEN 8 ELSE bits
InBlock(ip, b) ==
    \A i \in 1..4 : ip[i] \div 2^(8 - Covered(b[2], i)) = b[1][i] \div 2^(8 - Covered(b[2], i))
Public(ip) == \A b \in Blocks : ~InBlock(ip, b)

-----------------------------------------------------------------------------
Init ==
    /\ testing \in BOOLEAN
    /\ network = "down" /\ who \in {"guest", "held"} /\ phase = "idle" /\ port = None
    /\ answers = {} /\ peer = None /\ far = "answering" /\ worker = FALSE /\ dials = 0

(* bring_up: the forwarder is started; nothing goes on until the gateway   *)
(* accepts a connection, and if it never does the boot fails.              *)
BringUp ==
    /\ network = "down" /\ network' = "waiting"
    /\ UNCHANGED <<testing, who, phase, port, answers, peer, far, worker, dials>>

GatewayAnswers ==
    /\ network = "waiting" /\ network' = "up"
    /\ UNCHANGED <<testing, who, phase, port, answers, peer, far, worker, dials>>

(* Origin::of and Origin::parse gave host and port; the lookup begins. *)
Dial(p) ==
    /\ network = "up" /\ phase \in {"idle", "backoff"} /\ dials < MaxDials
    /\ phase' = "resolve" /\ port' = p /\ far' = "answering" /\ dials' = dials + 1
    /\ UNCHANGED <<testing, network, who, answers, peer, worker>>

Ended == IF who = "held" THEN "backoff" ELSE "idle"

(* Every way an exchange ends drops what it holds. *)
End ==
    /\ phase' = Ended /\ worker' = FALSE /\ peer' = None /\ answers' = {} /\ port' = None
    /\ UNCHANGED <<testing, network, who, far, dials>>

Admitted(as) == {a \in as : Admits(a, port)}

(* public_addrs: no address, or none that is admitted, is an error. *)
Resolve(as) ==
    /\ phase = "resolve"
    /\ IF Admitted(as) = {} THEN End
       ELSE /\ answers' = as /\ phase' = "connect"
            /\ UNCHANGED <<testing, network, who, port, peer, far, worker, dials>>

(* The connection goes to exactly the addresses that were checked. *)
Peers == Admitted(answers)

Connect(a) ==
    /\ phase = "connect" /\ a \in Peers
    /\ peer' = a
    /\ phase' \in {"tls", "http"}      \* by the scheme
    /\ UNCHANGED <<testing, network, who, port, answers, far, worker, dials>>

(* The TLS handshake, the HTTP handshake, the head of the response. *)
Proceeds(from, to) ==
    /\ phase = from /\ far = "answering"
    /\ phase' = to
    /\ UNCHANGED <<testing, network, who, port, answers, peer, far, dials>>

TlsDone == Proceeds("tls", "http") /\ UNCHANGED worker
HttpDone == Proceeds("http", "request") /\ worker' = TRUE

(* HeldResponse, IncomingResponse: the worker rides along with the body. *)
Rides == TRUE

HeadArrives == Proceeds("request", "body") /\ worker' = Rides

(* What `timeout` wraps: lookup and connect, the HTTP handshake, the head. *)
Timed == {"resolve", "connect", "http", "request"}

Expire == phase \in Timed /\ End

(* A failure the far side causes, at any point; its close ends a body. *)
Fails == phase \in {"connect", "tls", "http", "request"} /\ far # "silent" /\ End

(* No more frames: the far side closed, or nothing drives the connection. *)
BodyEnds == phase = "body" /\ (far = "closed" \/ ~worker) /\ End

(* Each frame of the body is waited for: wasi-http gives up on a guest's   *)
(* after between_bytes_timeout; a supervisor reads the body itself.        *)
GivesUp == phase = "body" /\ who = "guest" /\ far = "silent" /\ End

(* The guest is trapped at its limit, and its future is aborted. *)
Trapped == who = "guest" /\ phase # "idle" /\ End

Closes ==
    /\ phase \notin {"idle", "backoff"} /\ far = "answering"
    /\ far' \in {"closed", "silent"}
    /\ UNCHANGED <<testing, network, who, phase, port, answers, peer, worker, dials>>

Steps == TlsDone \/ HttpDone \/ HeadArrives \/ Fails
Next ==
    \/ BringUp \/ GatewayAnswers \/ \E p \in Ports : Dial(p)
    \/ \E a \in Samples : \/ Resolve({a}) \/ Connect(a)
                          \/ \E b \in Seconds : Resolve({a, b})
    \/ Steps \/ Expire \/ BodyEnds \/ GivesUp \/ Trapped \/ Closes

(* Timers fire, an ended body is noticed, and a supervisor is a task of    *)
(* its own; nothing is asked of the far side.                              *)
Spec ==
    /\ Init /\ [][Next]_vars
    /\ WF_vars(Expire) /\ WF_vars(BodyEnds) /\ WF_vars(GivesUp)

-----------------------------------------------------------------------------
(* No exchange reaches an address that is not public, whatever the         *)
(* resolver answers, in whatever form, and however often it changes its    *)
(* mind; an emulator build reaches the development host besides, on ports  *)
(* that are not the runtime's own.                                         *)
NeverInside ==
    peer # None =>
        /\ peer.form # "IPv6"
        /\ Public(peer.ip) \/ (testing /\ peer.ip = DevHost /\ port \notin OwnPorts)

(* A held body is not ended by the runtime itself: it ends when the far    *)
(* side closes.  (Dropping the worker ended every stream as it began.)     *)
EndsByFarSide == [][phase = "body" /\ who = "held" /\ phase' # "body" => far = "closed"]_vars

(* A dial that has no TLS handshake to wait for comes to an end, whatever  *)
(* the far side does: it becomes a body, or is over.  (No timer covers the *)
(* TLS handshake.)                                                         *)
DialEnds == phase \in {"resolve", "connect", "http", "request"} ~>
            phase \in {"tls", "body", "backoff", "idle"}
=============================================================================
