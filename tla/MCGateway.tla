------------------------------ MODULE MCGateway ----------------------------
(***************************************************************************)
(* One route for each kind of key, the chain of two limits (login), and a  *)
(* bucket of several tokens (verify-otp).  One account has two spellings,  *)
(* and one string is no identifier; one request has no address.  Two       *)
(* readings of Date.now() differ by up to one and a half seconds, more     *)
(* than the second that the script adds to the time to live.  A token      *)
(* takes from one to two seconds to refill, and login's two limits differ  *)
(* in it.  At the horizon a drained bucket of one token has expired, one   *)
(* of three is full again, and the longest wait that is asked for is over. *)
(***************************************************************************)
EXTENDS Gateway, TLC

AllLimits == Routes \X {"ip", "identifier", "user_id"}
MCCapacity == [<<route, key>> \in AllLimits |->
  CASE route = "verify-otp" -> 3 [] <<route, key>> = <<"login", "ip">> -> 2 [] OTHER -> 1]
MCUnit == [<<route, key>> \in AllLimits |->
  CASE route = "verify-otp" -> 2 [] <<route, key>> = <<"login", "identifier">> -> 4 [] OTHER -> 3]

Sent(route, ip, user, identifier, valid) ==
  [route |-> route, ip |-> ip, user |-> user, identifier |-> identifier, valid |-> valid]

MCRequests ==
  {Sent(r, "ip", NoUser, i, TRUE) : r \in {"login", "verify-otp"}, i \in {"a@x", "A@x"}}
    \cup {Sent("register", a, NoUser, "a@x", TRUE) : a \in {"ip", NoAddress}}
    \cup {Sent("resend-otp", "ip", NoUser, "a@x", v) : v \in BOOLEAN}
    \cup {Sent("resend-otp", "ip", NoUser, "junk", TRUE)}
    \cup {Sent("purchase", "ip", u, "", TRUE) : u \in {NoUser, "u1", "u2"}}

MCNormalised == [i \in {"a@x", "A@x"} |-> "a@x"]
SlotSymmetry == Permutations(Slots)
=============================================================================
