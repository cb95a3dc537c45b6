----------------------------- MODULE MCFrontDesk -----------------------------
(***************************************************************************)
(* A small instance of FrontDesk: a waiter's order and a scan at one table, *)
(* bookings of it exactly one overlap window apart, staff and bot requests. *)
(***************************************************************************)
EXTENDS FrontDesk, TLC

CONSTANTS t1, t2, r1, s1, s2, b1, b2, br, d1, d2, k1, k2, h1

FrontReq == r1 :> [kind |-> "staff", table |-> t1, seats |-> TRUE, coupon |-> None,
                   subtotal |-> 1, guid |-> None, after |-> None]

FrontBooking == b1 :> [table |-> t1, time |-> 0, branch |-> br]
             @@ b2 :> [table |-> t1, time |-> OverlapWindow, branch |-> br]

NoCoupons == [c \in {} |-> 0]

\* Scans, staff requests and bot requests are alike but for their names.
FrontSymmetry == Permutations(Scans) \cup Permutations(DeskCalls) \cup Permutations(Binds)
=============================================================================
