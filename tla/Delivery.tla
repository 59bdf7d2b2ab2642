------------------------------ MODULE Delivery ------------------------------
(***************************************************************************)
(* What the outbox promises to whoever appends an event: it is delivered   *)
(* at least once before it is PROCESSED, at most once more for each failed *)
(* attempt that was counted and each tick that was lost, and it is given   *)
(* up as DEAD_LETTER after OUTBOX_MAX_ATTEMPTS failures and not before.    *)
(* Outbox implements this for its handlers, SaleLifecycle for the          *)
(* settlement of sales.                                                    *)
(*                                                                         *)
(* The events have nothing to do with one another, and any number of them  *)
(* may move in one step: a tick commits its whole batch.                   *)
(***************************************************************************)
EXTENDS Integers

CONSTANTS
  Events,
  Handled,      \* the events whose type has a handler
  MaxAttempts   \* OUTBOX_MAX_ATTEMPTS

VARIABLES
  status,       \* of the outbox row
  attempts,     \* failed attempts counted on the row
  effects,      \* how often the handler took effect
  losses        \* ticks lost with everything they had staged
vars == <<status, attempts, effects, losses>>

Init ==
  /\ status = [e \in Events |-> "NONE"]
  /\ attempts = [e \in Events |-> 0]
  /\ effects = [e \in Events |-> 0]
  /\ losses = 0

Unmoved(e) == status'[e] = status[e] /\ attempts'[e] = attempts[e]

Append(e) ==
  /\ status[e] = "NONE" /\ status'[e] = "PENDING"
  /\ attempts'[e] = attempts[e] /\ effects'[e] = effects[e]

\* Also after the row was finished, by a worker whose tick is lost.
Deliver(e) ==
  /\ status[e] # "NONE" /\ e \in Handled
  /\ effects[e] <= attempts[e] + losses
  /\ effects'[e] = effects[e] + 1
  /\ Unmoved(e)

Process(e) ==
  /\ status[e] = "PENDING" /\ status'[e] = "PROCESSED"
  /\ e \in Handled => effects[e] > 0
  /\ attempts'[e] = attempts[e] /\ effects'[e] = effects[e]

Fail(e) ==
  /\ status[e] = "PENDING"
  /\ attempts'[e] = attempts[e] + 1 /\ attempts'[e] <= MaxAttempts
  /\ status'[e] = IF attempts'[e] < MaxAttempts THEN "PENDING" ELSE "DEAD_LETTER"
  /\ effects'[e] = effects[e]

Next ==
  /\ losses' \in {losses, losses + 1}
  /\ \A e \in Events :
       \/ Append(e) \/ Deliver(e) \/ Process(e) \/ Fail(e)
       \/ Unmoved(e) /\ effects'[e] = effects[e]

Spec == Init /\ [][Next]_vars
=============================================================================
