------------------------------ MODULE MCAnchor ------------------------------
(* The anchor protocol on a small instance.                                 *)
EXTENDS Anchor, TLC

Symmetric == Permutations(Writes)
=============================================================================
