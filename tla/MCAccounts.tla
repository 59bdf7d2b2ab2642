----------------------------- MODULE MCAccounts -----------------------------
(***************************************************************************)
(* One identifier, which two requests at a time register, verify and log   *)
(* in and which is a test user of the seed script; one call refreshes or   *)
(* logs out.                                                               *)
(***************************************************************************)
EXTENDS Accounts, TLC

Interchangeable == Permutations(Slots) \cup Permutations(Calls)
=============================================================================
