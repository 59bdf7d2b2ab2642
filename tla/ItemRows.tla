------------------------------ MODULE ItemRows ------------------------------
(***************************************************************************)
(* The flash_sale_items rows as sales and buyers use them.  A purchase is  *)
(* two steps here: Reserve locks the row and passes every check on it, and *)
(* later Sell commits or Release rolls back.  The clock may move between   *)
(* the two.  Purchase implements this module, with its users, requests and *)
(* caches hidden; SaleLifecycle builds on it.                              *)
(***************************************************************************)
EXTENDS Integers

CONSTANTS Items, Quantity, StartsAt, EndsAt, Horizon

VARIABLES
  now,
  listed,   \* committed rows
  sold,     \* their column sold
  busy      \* rows locked by a purchase that passed the checks
rows == <<now, listed, sold, busy>>

RowsInit ==
  /\ now = 0
  /\ listed = {}
  /\ sold = [i \in Items |-> 0]
  /\ busy = {}

Open(i) == StartsAt[i] <= now /\ now <= EndsAt[i]

Reserve(i) ==
  /\ i \in listed \ busy
  /\ Open(i) /\ sold[i] < Quantity[i]
  /\ busy' = busy \cup {i}
  /\ UNCHANGED <<now, listed, sold>>

Sell(i) ==
  /\ i \in busy
  /\ sold' = [sold EXCEPT ![i] = @ + 1]
  /\ busy' = busy \ {i}
  /\ UNCHANGED <<now, listed>>

Release(i) ==
  /\ i \in busy
  /\ busy' = busy \ {i}
  /\ UNCHANGED <<now, listed, sold>>

Publish(new) ==
  /\ new # {} /\ new \subseteq Items \ listed
  /\ listed' = listed \cup new
  /\ UNCHANGED <<now, sold, busy>>

Tick ==
  /\ now < Horizon
  /\ now' = now + 1
  /\ UNCHANGED <<listed, sold, busy>>

RowsNext ==
  \/ \E i \in Items : Reserve(i) \/ Sell(i) \/ Release(i)
  \/ \E new \in SUBSET Items : Publish(new)
  \/ Tick

RowsSpec == RowsInit /\ [][RowsNext]_rows
=============================================================================
