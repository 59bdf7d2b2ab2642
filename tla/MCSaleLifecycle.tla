-------------------------- MODULE MCSaleLifecycle ---------------------------
(***************************************************************************)
(* Two sales of the service and one of the seed script over two products,  *)
(* their lines in both orders, so that creations and settlements can wait  *)
(* for one another.  The stock is enough for one of them at a time, or for *)
(* another after units came back.                                          *)
(***************************************************************************)
EXTENDS SaleLifecycle, TLC
CONSTANTS sa, sb, sc, a1, a2, b1, b2, c1, c2, p1, p2

MCLines == (sa :> <<a1, a2>>) @@ (sb :> <<b2, b1>>) @@ (sc :> <<c2, c1>>)
MCSeeds == <<sc>>
MCProductOf ==
  (a1 :> p1) @@ (a2 :> p2) @@ (b1 :> p1) @@ (b2 :> p2) @@ (c1 :> p1) @@ (c2 :> p2)
MCQuantity ==
  (a1 :> 2) @@ (a2 :> 1) @@ (b1 :> 1) @@ (b2 :> 1) @@ (c1 :> 1) @@ (c2 :> 1)
MCStock == (p1 :> 2) @@ (p2 :> 1)
MCStartsAt == [i \in Items |-> 0]
MCEndsAt == [i \in Items |-> 1]
=============================================================================
