----------------------------- MODULE MCPurchase -----------------------------
(***************************************************************************)
(* Instances of Purchase for TLC.  Safety, over two calendar days: two     *)
(* users after the one unit of i1, which sells on both days, and the one   *)
(* unit of i2, which sells on the first day.  Only u2 could pay for both:  *)
(* u1 runs into the balance, and u2 into the daily cap.  Progress and      *)
(* tickets, within one day: three requests for i1 alone, which has a unit  *)
(* for each of its two keys, so that two figures of remaining_allocation   *)
(* are given out.  Replays: i1 alone with two units over two days, so that *)
(* a purchase can be tried again with success.                             *)
(***************************************************************************)
EXTENDS Purchase, TLC
CONSTANTS u1, u2, i1, i2, k1, k2, k3, k4

BuyerOf == [k \in Keys |-> IF k \in {k2, k4} THEN u2 ELSE u1]
WantedBy == [k \in Keys |-> IF k \in {k3, k4} THEN i2 ELSE i1]
OneEach == [i \in Items |-> 1]
TwoEach == [i \in Items |-> 2]
AtOnce == [i \in Items |-> 0]
Closes == [i \in Items |-> IF i = i1 THEN Horizon ELSE 0]
Prices == [i \in Items |-> IF i = i1 THEN 1 ELSE 2]
TwoCents == [u \in Users |-> 2]
TwoOrThreeCents == [u \in Users |-> IF u = u1 THEN 2 ELSE 3]

SlotSymmetry == Permutations(Slots)
=============================================================================
