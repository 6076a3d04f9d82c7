----------------------------- MODULE MCPayments -----------------------------
EXTENDS Payments, TLC
CONSTANTS o1, o2, w1, w2, w3, writing, speaking
AllSkills == [o \in Orders |-> Skills]
WorkerSymmetry == Permutations(Workers)

(* The bound of the second order: one that is captured for a wrong amount  *)
(* is not refunded, and no attempt to pay it fails.                        *)
WrongIsCaptured ==
  \A o \in WrongAmount :
    rzp[o] # "refunded" /\ <<o, "payment.failed">> \notin emitted
=============================================================================
