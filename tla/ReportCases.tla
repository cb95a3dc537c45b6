----------------------------- MODULE ReportCases -----------------------------
(***************************************************************************)
(* Reports over the sets of up to three of the orders below.                *)
(***************************************************************************)
EXTENDS Reports

CONSTANTS own, other        \* two tenants

Order(i, t, b, table, status, at) ==
    [id |-> i, tenantId |-> t, branchId |-> b, tableId |-> table, status |-> status,
     totalAmount |-> 10 + i, channel |-> IF table = None THEN "DELIVERY" ELSE "DINE_IN",
     createdAt |-> at]

AllOrders == {Order(1, own, "b1", "t1", "PAID", 0), Order(2, own, "b1", "t1", "PAID", 1),
              Order(3, own, "b1", "t2", "PENDING", 2), Order(4, own, "b2", None, "PAID", 3),
              Order(5, other, "b3", "t3", "PAID", 2), Order(6, own, "b1", "t1", "PAID", 5)}

OrderSets == {s \in SUBSET AllOrders : Cardinality(s) <= 3}

Tables == {[id |-> "t1", tenantId |-> own, number |-> 1],
           [id |-> "t3", tenantId |-> other, number |-> 3]}

Sum(days, Of(_)) ==
    FoldLeft(LAMBDA sum, bucket : sum + MapThenSumSet(Of, bucket.tables), 0, days)

Branches == {None, "b1", "b2"}

\* The two reports agree: over all dates, the days and tables of one add up to the other.
ReportsAgree ==
    \A os \in OrderSets, b \in Branches :
        LET days  == GetOrdersHistoryByTable(os, Tables, own, b, None, None)
            sales == GenerateSalesReport(os, own, b)
        IN  /\ Sum(days, LAMBDA e : e.orderCount) = sales.totalOrders
            /\ Sum(days, LAMBDA e : e.totalRevenue) = sales.totalRevenue

\* A period that is cut at a day's end is reported in two parts that make up the whole.
PeriodsAddUp ==
    \A os \in OrderSets, d \in 1..2 :
        GetOrdersHistoryByTable(os, Tables, own, None, None, None)
          = GetOrdersHistoryByTable(os, Tables, own, None, d * Day, None)
            \o GetOrdersHistoryByTable(os, Tables, own, None, None, d * Day - 1)

\* The history of a table is the latest part of its whole history, the latest first, and
\* another tenant's table has none.
HistoryIsLatest ==
    \A os \in OrderSets, limit \in 0..2 :
        LET all  == GetOrderHistory(os, Tables, own, "t1", None, 0)
            some == GetOrderHistory(os, Tables, own, "t1", None, limit)
        IN  /\ IsPrefix(some, all)
            /\ ToSet(all) = {o \in os : o.tableId = "t1"}
            /\ \A i, j \in DOMAIN all : i < j => all[i].createdAt > all[j].createdAt
            /\ GetOrderHistory(os, Tables, own, "t3", None, limit) = None

\* The cleanup changes no report of the days it keeps, a second delivery of its job removes
\* nothing more, and the sales of a tenant only shrink by it.
CleanupKeepsRecent ==
    \A os \in OrderSets, d \in 0..3 :
        LET kept == CleanedUp(os, d * Day)
            from(orders) == GetOrdersHistoryByTable(orders, Tables, own, None, d * Day, None)
        IN  /\ from(kept) = from(os)
            /\ CleanedUp(kept, d * Day) = kept
            /\ GenerateSalesReport(kept, own, None).totalRevenue
                 <= GenerateSalesReport(os, own, None).totalRevenue

ReportCasesHold == ReportsAgree /\ PeriodsAddUp /\ HistoryIsLatest /\ CleanupKeepsRecent
=============================================================================
