------------------------------ MODULE MCOutbox ------------------------------
(***************************************************************************)
(* Three rows in batches of two: an OTP, a purchase, and a row of a type   *)
(* that this build of the worker does not know.                            *)
(***************************************************************************)
EXTENDS Outbox

MCKind == [r \in Events |->
             CASE r = 1 -> "otp.send" [] r = 2 -> "log" [] OTHER -> "unknown"]
=============================================================================
