----------------------------- MODULE Entitlement -----------------------------
(***************************************************************************)
(* What payment fulfilment promises, with no handler, table or event: an   *)
(* order that is captured for the right amount gives access once, access   *)
(* is never given without a capture, it is taken away only for an order    *)
(* that was refunded, and what was taken away is not given back.           *)
(***************************************************************************)
CONSTANTS
  Orders,    \* orders a user can pay
  Payable    \* those captured for the amount that was asked

VARIABLES
  charge,    \* charge[o]: what happened to the user's money
  access     \* access[o]: the access order o stands for

vars == <<charge, access>>

TypeOK ==
  /\ charge \in [Orders -> {"open", "captured", "refunded"}]
  /\ access \in [Orders -> {"none", "active", "cancelled"}]

Init ==
  /\ charge = [o \in Orders |-> "open"]
  /\ access = [o \in Orders |-> "none"]

Charge(o) ==
  /\ charge[o] = "open"
  /\ charge' = [charge EXCEPT ![o] = "captured"]
  /\ UNCHANGED access

Return(o) ==
  /\ charge[o] = "captured"
  /\ charge' = [charge EXCEPT ![o] = "refunded"]
  /\ UNCHANGED access

Grant(o) ==
  /\ o \in Payable
  /\ charge[o] # "open" /\ access[o] = "none"
  /\ access' = [access EXCEPT ![o] = "active"]
  /\ UNCHANGED charge

Revoke(o) ==
  /\ charge[o] = "refunded" /\ access[o] = "active"
  /\ access' = [access EXCEPT ![o] = "cancelled"]
  /\ UNCHANGED charge

Next == \E o \in Orders : Charge(o) \/ Return(o) \/ Grant(o) \/ Revoke(o)

Spec == Init /\ [][Next]_vars
=============================================================================
