------------------------------ MODULE MCOutbox ------------------------------
(* Instances of Outbox for TLC. *)
EXTENDS Outbox, TLC

CONSTANTS w1, w2, r1, d1

Symmetric == Permutations({w1, w2})
=============================================================================
