----------------------------- MODULE MCSessions -----------------------------
(***************************************************************************)
(* Two calls at a time and four tokens: a session whose token two calls    *)
(* redeem in parallel, and one more token for a new sign-in or for the     *)
(* refresh of what the two were given.                                     *)
(***************************************************************************)
EXTENDS Sessions, TLC

Interchangeable == Permutations(Calls)
=============================================================================
