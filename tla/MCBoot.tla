------------------------------- MODULE MCBoot -------------------------------
(***************************************************************************)
(* From power-on to a certificate: enclaves that boot on one store, the    *)
(* search for the tip of a chain (with numbers so narrow that galloping    *)
(* overshoots the limit and the saturating arithmetic is reached), the     *)
(* client of that store, the entropy source and the front that listens.    *)
(* A behaviour is one of part; the others stay as they started.            *)
(***************************************************************************)
EXTENDS Boot, Integers

CONSTANTS MaxNumber                                              \* ChainTip
CONSTANTS Clients, Siblings, PageSize, Attempts, MaxWrites,      \* ObjectStore
          Marker, Planted, Sibling
CONSTANTS Callers, BufferLens, ReplyMax, CheckLen, MaxDraws,     \* Entropy
          Source
CONSTANTS Conns, Concurrent, MaxCerts, MaxRestarts, Forged       \* Front

VARIABLE part       \* "boot", "tip", "store", "entropy" or "front"
VARIABLES t_tip, t_first, t_pc, t_lo, t_step, t_hi, t_result
t_vars == <<t_tip, t_first, t_pc, t_lo, t_step, t_hi, t_result>>
VARIABLES o_versions, o_written, o_pc, o_attempt, o_cursor, o_found, o_read,
          o_floor
o_vars == <<o_versions, o_written, o_pc, o_attempt, o_cursor, o_found, o_read,
            o_floor>>
VARIABLES n_source, n_kind, n_made, n_draw, n_draws, n_check, n_given
n_vars == <<n_source, n_kind, n_made, n_draw, n_draws, n_check, n_given>>
VARIABLES f_mode, f_listening, f_permit, f_acme, f_slot, f_cached, f_issued,
          f_conn, f_leaf, f_auth, f_doc, f_header, f_taken, f_device,
          f_restarts
f_vars == <<f_mode, f_listening, f_permit, f_acme, f_slot, f_cached, f_issued,
            f_conn, f_leaf, f_auth, f_doc, f_header, f_taken, f_device,
            f_restarts>>

Tip == INSTANCE ChainTip WITH
  MaxNumber <- MaxNumber, tip <- t_tip, first <- t_first, pc <- t_pc,
  lo <- t_lo, step <- t_step, hi <- t_hi, result <- t_result
S3 == INSTANCE ObjectStore WITH
  Clients <- Clients, Siblings <- Siblings, PageSize <- PageSize,
  Attempts <- Attempts, MaxWrites <- MaxWrites, Marker <- Marker,
  Planted <- Planted, Sibling <- Sibling, None <- None,
  versions <- o_versions, written <- o_written, pc <- o_pc,
  attempt <- o_attempt, cursor <- o_cursor, found <- o_found, read <- o_read,
  floor <- o_floor
Rng == INSTANCE Entropy WITH
  Callers <- Callers, BufferLens <- BufferLens, ReplyMax <- ReplyMax,
  CheckLen <- CheckLen, MaxDraws <- MaxDraws, Source <- Source,
  source <- n_source, kind <- n_kind, made <- n_made, draw <- n_draw,
  draws <- n_draws, check <- n_check, given <- n_given
Serving == INSTANCE Front WITH
  Conns <- Conns, Concurrent <- Concurrent, MaxCerts <- MaxCerts,
  MaxRestarts <- MaxRestarts, Forged <- Forged, None <- None, mode <- f_mode,
  listening <- f_listening, permit <- f_permit, acme <- f_acme,
  slot <- f_slot, cached <- f_cached, issued <- f_issued, conn <- f_conn,
  leaf <- f_leaf, auth <- f_auth, doc <- f_doc, header <- f_header,
  taken <- f_taken, device <- f_device, restarts <- f_restarts

(* What the proofs ask of these constants. *)
ASSUME PartsAssumption ==
  /\ Tip!ChainTipAssumption
  /\ S3!ObjectStoreAssumption
  /\ Rng!EntropyAssumption
  /\ Serving!FrontAssumption

Sum == <<part, vars, t_vars, o_vars, n_vars, f_vars>>

SumInit ==
  /\ part \in {"tip", "boot", "store", "entropy", "front"}
  /\ Init
  /\ IF part = "tip" THEN Tip!Init
     ELSE /\ t_tip = -1 /\ t_first = -1 /\ t_pc = "done" /\ t_result = -1
          /\ t_lo = 0 /\ t_step = 1 /\ t_hi = 0
  /\ S3!Init
  /\ Rng!Init /\ (part # "entropy" => n_kind = "good")
  /\ Serving!Init /\ (part # "front" => f_mode = [gated |-> TRUE, attests |-> TRUE])

SumNext ==
  /\ UNCHANGED part
  /\ \/ part = "boot" /\ Next /\ UNCHANGED <<t_vars, o_vars, n_vars, f_vars>>
     \/ part = "tip" /\ Tip!Next /\ UNCHANGED <<vars, o_vars, n_vars, f_vars>>
     \/ part = "store" /\ S3!Next /\ UNCHANGED <<vars, t_vars, n_vars, f_vars>>
     \/ part = "entropy" /\ Rng!Next /\ UNCHANGED <<vars, t_vars, o_vars, f_vars>>
     \/ part = "front" /\ Serving!Next /\ UNCHANGED <<vars, t_vars, o_vars, n_vars>>

(* The fairness each module states.                                        *)
SumFairness ==
  /\ WF_t_vars(part = "tip" /\ Tip!Search)
  /\ \A e \in Enclaves : WF_vars(part = "boot" /\ Step(e))
  /\ \A c \in Clients :
       /\ WF_o_vars(part = "store" /\ (S3!CreateAnswered(c) \/ S3!CreateUnanswered(c)))
       /\ WF_o_vars(part = "store" /\ (S3!ListPage(c) \/ S3!GetVersion(c)))
  /\ \A c \in Callers :
       WF_n_vars(part = "entropy" /\ (Rng!Answer(c) \/ Rng!Hand(c) \/ Rng!FillFails(c)))
  /\ WF_f_vars(part = "front" /\ Serving!Bind)
  /\ WF_f_vars(part = "front" /\ Serving!Wait)
  /\ WF_f_vars(part = "front" /\ Serving!Notified)
  /\ WF_f_vars(part = "front" /\ Serving!LoadCert)
  /\ WF_f_vars(part = "front" /\ Serving!Order)
  /\ WF_f_vars(part = "front" /\ Serving!Validate)
  /\ WF_f_vars(part = "front" /\ Serving!Issue)
  /\ WF_f_vars(part = "front" /\ Serving!Store)
  /\ WF_f_vars(part = "front" /\ Serving!OrphanSigned)
  /\ \A c \in Conns :
       /\ SF_f_vars(part = "front" /\ Serving!Sign(c))
       /\ WF_f_vars(part = "front" /\ (Serving!Signed(c) \/ Serving!SignFails(c)))

SumSpec == SumInit /\ [][SumNext]_Sum /\ SumFairness

-----------------------------------------------------------------------------
(* What chain_tip answers is not past the chain, and not older than the    *)
(* chain was when the search began, however it grows between two probes.   *)
TipFound == part = "tip" => Tip!TipFound

(* A record belongs to its first writer: one winner of a create, found     *)
(* behind any marker, and never replaced for its readers (create_blob,     *)
(* get_retained_blob).                                                     *)
RecordsHold == part = "store" => S3!RecordsHold

(* No predictable byte is handed out by a device that works, and no stuck  *)
(* device passes the check (get_random, entropy_check).                    *)
RandomnessHolds == part = "entropy" => Rng!RandomnessHolds

(* A response's document is the runtime's own, for the certificate of its  *)
(* connection, and signing never exceeds what the device is allowed        *)
(* (Attestor::sign, attach, serve).                                        *)
DocumentsHold == part = "front" => Serving!DocumentsHold

(* Nothing on the way up waits for ever: a store with a receipt comes up   *)
(* again (boot), the search for the tip ends though the chain grows        *)
(* (chain_tip), a create and the read behind it end (create_blob,          *)
(* get_retained_blob), a draw ends on a device that went silent            *)
(* (get_random), the first certificate comes though everything else on     *)
(* that socket waits for it (Acme, serve), and a request that waits for a  *)
(* document is answered (Attestor::sign).                                  *)
EverythingComesUp ==
  /\ BornComesUp
  /\ Tip!SearchEnds
  /\ \A c \in Clients : part = "store" ~> o_pc[c] = "done"
  /\ Rng!DrawEnds
  /\ []<>(part = "front" => Serving!Certified)
  /\ Serving!QueuedAnswered

=============================================================================
