---------------------------- MODULE MCInvocation ----------------------------
(* Invocation with one invocation of each kind, each of which may be       *)
(* abandoned at any step.                                                  *)
EXTENDS Invocation
=============================================================================
