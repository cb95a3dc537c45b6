------------------------------- MODULE MCOrders -------------------------------
(***************************************************************************)
(* Small instances of OrderPlacement.  A request is a staff request for    *)
(* nothing in particular, changed where the scenario needs it.             *)
(***************************************************************************)
EXTENDS OrderPlacement, TLC

CONSTANTS t1, t2, s1, s2, r1, r2, r3, r4, c1, c2, g1

Blank == [kind |-> "staff", table |-> None, seats |-> FALSE, coupon |-> None,
          subtotal |-> 1, guid |-> None, after |-> None]

QrGuest(t)     == [Blank EXCEPT !.kind = "qr", !.table = t, !.seats = TRUE]
Waiter(t)      == [Blank EXCEPT !.table = t, !.seats = TRUE]
Takeaway(t)    == [Blank EXCEPT !.table = t]     \* a TAKEAWAY order that names a table
Offline(g)     == [Blank EXCEPT !.kind = "sync", !.guid = g]

\* Two guests at one table: one with the QR code, one served by a waiter.
VisitReq == r1 :> QrGuest(t1) @@ r2 :> Waiter(t1)

\* A takeaway order that names the table the waiter seats an order at.
CounterReq == r1 :> Takeaway(t1) @@ r2 :> Waiter(t1)
WaiterReq == r2 :> Waiter(t1)

\* Coupons and offline batches: r2 retries the guid of r1 and seats its order, the
\* batch <<r3, r4>> carries the guid again and then one with no guid at all.
IntakeReq == r1 :> [Blank EXCEPT !.coupon = c1, !.guid = g1]
          @@ r2 :> [Waiter(t1) EXCEPT !.coupon = c1, !.guid = g1]
          @@ r3 :> Offline(g1)
          @@ r4 :> [Offline(None) EXCEPT !.after = r3]

NoCoupons    == [c \in {} |-> 0]
IntakeLimits == [c \in Coupons |-> 1]
IntakeMin    == [c \in Coupons |-> 1]
=============================================================================
