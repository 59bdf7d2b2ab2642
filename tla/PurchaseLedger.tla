--------------------------- MODULE PurchaseLedger ---------------------------
(***************************************************************************)
(* What POST /v1/flashsale/purchase promises to do to the database: a      *)
(* purchase is one indivisible sale of a unit that exists, to a user who   *)
(* can pay and has not bought that day, with its event.  Requests, locks,  *)
(* replicas, caches and crashes are not visible here.  Purchase implements *)
(* it (property LedgerSpec, and theorem Refinement in PurchaseProofs).      *)
(***************************************************************************)
EXTENDS Integers

CONSTANTS Users, Items, Keys, Buyer, Wanted, Quantity, Price, OpeningBalance,
          Days    \* the calendar days a purchase can carry

VARIABLES sold, balance, purchases, events
ledger == <<sold, balance, purchases, events>>

Init ==
  /\ sold = [i \in Items |-> 0]
  /\ balance = OpeningBalance
  /\ purchases = {}
  /\ events = [k \in Keys |-> 0]

Sell(k, d) ==
  LET u == Buyer[k]
      i == Wanted[k]
  IN
  /\ sold[i] < Quantity[i]
  /\ balance[u] >= Price[i]
  /\ \A p \in purchases : p.key # k /\ ~(p.user = u /\ p.day = d)
  /\ sold' = [sold EXCEPT ![i] = @ + 1]
  /\ balance' = [balance EXCEPT ![u] = @ - Price[i]]
  /\ purchases' = purchases \cup {[key |-> k, user |-> u, item |-> i, day |-> d]}
  /\ events' = [events EXCEPT ![k] = @ + 1]

Next == \E k \in Keys, d \in Days : Sell(k, d)
Spec == Init /\ [][Next]_ledger
=============================================================================
