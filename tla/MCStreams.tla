----------------------------- MODULE MCStreams ------------------------------
(***************************************************************************)
(* Streams with one id, closed and opened again at every point of run and  *)
(* of its supervisors (one origin: an open is told from the next by its    *)
(* generation, and the same origin again is the case hardest to notice);   *)
(* the way a connection goes out, with every edge of every reserved block; *)
(* and the framing of what comes back. A behaviour is one of part; the     *)
(* others stay as they started.                                            *)
(***************************************************************************)
EXTENDS Streams

CONSTANTS Samples, Seconds, DevHost, Ports, OwnPorts, MaxDials   \* Egress
CONSTANTS MaxBytes, MaxFrame, Ceiling                            \* SseFramer

VARIABLE part       \* "streams", "egress" or "framer"
VARIABLES e_testing, e_network, e_who, e_phase, e_port, e_answers, e_peer,
          e_far, e_worker, e_dials
e_vars == <<e_testing, e_network, e_who, e_phase, e_port, e_answers, e_peer,
            e_far, e_worker, e_dials>>
VARIABLES s_written, s_buffer, s_events, s_failed
s_vars == <<s_written, s_buffer, s_events, s_failed>>

(* Values for them: the development host, and the first and last address   *)
(* of every reserved block with the one before and the one after it.       *)
DevelopmentHost == <<192, 168, 127, 254>>
Edges == {
  <<0, 0, 0, 0>>, <<0, 255, 255, 255>>, <<1, 0, 0, 0>>, <<9, 255, 255, 255>>,
  <<10, 0, 0, 0>>, <<10, 255, 255, 255>>, <<11, 0, 0, 0>>,
  <<100, 63, 255, 255>>, <<100, 64, 0, 0>>, <<100, 127, 255, 255>>,
  <<100, 128, 0, 0>>, <<126, 255, 255, 255>>, <<127, 0, 0, 0>>,
  <<127, 255, 255, 255>>, <<128, 0, 0, 0>>, <<169, 253, 255, 255>>,
  <<169, 254, 0, 0>>, <<169, 254, 255, 255>>, <<169, 255, 0, 0>>,
  <<172, 15, 255, 255>>, <<172, 16, 0, 0>>, <<172, 31, 255, 255>>,
  <<172, 32, 0, 0>>, <<191, 255, 255, 255>>, <<192, 0, 0, 0>>,
  <<192, 0, 0, 255>>, <<192, 0, 1, 0>>, <<192, 0, 1, 255>>, <<192, 0, 2, 0>>,
  <<192, 0, 2, 255>>, <<192, 0, 3, 0>>, <<192, 167, 255, 255>>,
  <<192, 168, 0, 0>>, <<192, 168, 255, 255>>, <<192, 169, 0, 0>>,
  <<198, 17, 255, 255>>, <<198, 18, 0, 0>>, <<198, 19, 255, 255>>,
  <<198, 20, 0, 0>>, <<198, 51, 99, 255>>, <<198, 51, 100, 0>>,
  <<198, 51, 100, 255>>, <<198, 51, 101, 0>>, <<203, 0, 112, 255>>,
  <<203, 0, 113, 0>>, <<203, 0, 113, 255>>, <<203, 0, 114, 0>>,
  <<223, 255, 255, 255>>, <<224, 0, 0, 0>>, <<239, 255, 255, 255>>,
  <<240, 0, 0, 0>>, <<255, 255, 255, 255>>}
EdgeAddresses ==
  [form : {"IPv4", "mapped"}, ip : Edges \cup {DevelopmentHost}]
    \cup [form : {"IPv6"}, ip : {<<1, 1, 1, 1>>}]
SecondAddresses == [form : {"IPv4"}, ip : {<<8, 8, 8, 8>>, <<169, 254, 169, 254>>}]

Way == INSTANCE Egress WITH
  Samples <- Samples, Seconds <- Seconds, DevHost <- DevHost,
  Ports <- Ports, OwnPorts <- OwnPorts, MaxDials <- MaxDials, None <- None,
  testing <- e_testing, network <- e_network, who <- e_who, phase <- e_phase,
  port <- e_port, answers <- e_answers, peer <- e_peer, far <- e_far,
  worker <- e_worker, dials <- e_dials

Framer == INSTANCE SseFramer WITH
  MaxBytes <- MaxBytes, MaxFrame <- MaxFrame, Ceiling <- Ceiling, written <- s_written,
  buffer <- s_buffer, events <- s_events, failed <- s_failed

(* What the proofs ask of these constants. *)
ASSUME EgressAssumption == Way!AddressAssumption
ASSUME LengthsAssumption == Framer!FramerAssumption

Sum == <<part, vars, e_vars, s_vars>>

SumInit ==
  /\ part \in {"streams", "egress", "framer"}
  /\ Init
  /\ Way!Init /\ (part # "egress" => ~e_testing /\ e_who = "held")
  /\ Framer!Init

SumNext ==
  /\ UNCHANGED part
  /\ \/ part = "streams" /\ Next /\ UNCHANGED <<e_vars, s_vars>>
     \/ part = "egress" /\ Way!Next /\ UNCHANGED <<vars, s_vars>>
     \/ part = "framer" /\ Framer!Next /\ UNCHANGED <<vars, e_vars>>

(* The fairness of LiveSpec in Streams and of Spec in Egress.              *)
SumFairness ==
  /\ WF_vars(part = "streams" /\ (Collect \/ Pass))
  /\ WF_vars(part = "streams" /\ (Wake \/ Timer))
  /\ \A k \in Ids, n \in Spawns :
       /\ WF_vars(part = "streams" /\ NoteUp(k, n))
       /\ WF_vars(part = "streams" /\ NoteDown(k, n))
       /\ WF_vars(part = "streams" /\ Dropped(k, n))
       /\ WF_vars(part = "streams" /\ Awake(k, n))
  /\ WF_e_vars(part = "egress" /\ Way!Expire)
  /\ WF_e_vars(part = "egress" /\ Way!BodyEnds)
  /\ WF_e_vars(part = "egress" /\ Way!GivesUp)

SumSpec == SumInit /\ [][SumNext]_Sum /\ SumFairness

-----------------------------------------------------------------------------
(* No exchange reaches an address that is not public, whatever the         *)
(* resolver answers, in whatever form, and however often it changes its    *)
(* mind; an emulator build reaches the development host besides, on ports  *)
(* that are not the runtime's own.                                         *)
NeverInside == part = "egress" => Way!NeverInside

(* What a connection that is still up has handed to the guest is what the  *)
(* far side wrote, however the bytes were cut into frames and whichever    *)
(* line endings it used; an event ended by a carriage return that came     *)
(* last may wait for the next byte.                                        *)
HoweverItArrives == part = "framer" => Framer!HoweverItArrives

(* Connections do not stay in between: a record that stays is adopted by a *)
(* supervisor and a status that says connected becomes true or goes (run,  *)
(* note); a held body ends when the far side ends it and not before, and   *)
(* a dial that waits for no TLS handshake ends whatever the far side does  *)
(* (egress.rs).                                                            *)
ConnectionsSettle ==
  /\ Adopted /\ StatusSettles
  /\ Way!EndsByFarSide /\ Way!DialEnds

=============================================================================
