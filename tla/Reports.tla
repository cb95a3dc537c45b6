-------------------------------- MODULE Reports --------------------------------
(***************************************************************************)
(* The reports an owner reads over the orders: sales, orders per table and  *)
(* day, and the history of one table.                                      *)
(***************************************************************************)
EXTENDS Integers, FiniteSets, SequencesExt

CONSTANTS Day,     \* length of a day, in the units of createdAt (UTC)
          None

(* An order is [id, tenantId, branchId, tableId, status, totalAmount, channel,  *)
(* createdAt]; tableId is None for one that no table was named for.         *)

Revenue(orders) ==
    MapThenSumSet(LAMBDA o : o.totalAmount, {o \in orders : o.status = "PAID"})

\* tenantQuery.aggregate puts the tenant first; a branch narrows it when given.
InScope(orders, tenantId, branchId) ==
    {o \in orders : o.tenantId = tenantId /\ branchId \in {None, o.branchId}}

GenerateSalesReport(orders, tenantId, branchId) ==
    LET scoped == InScope(orders, tenantId, branchId)
    IN  [totalOrders  |-> Cardinality(scoped),
         totalRevenue |-> Revenue(scoped),
         paidOrders   |-> Cardinality({o \in scoped : o.status = "PAID"})]

\* Both ends are inclusive, and each is optional.
Between(orders, startDate, endDate) ==
    {o \in orders : /\ startDate = None \/ o.createdAt >= startDate
                    /\ endDate = None \/ o.createdAt <= endDate}

DateOf(o) == o.createdAt \div Day

\* One bucket per day, the latest first; in it one entry for each table, and one for the
\* orders without a table. A table that is gone, or is another tenant's, has no number.
GetOrdersHistoryByTable(orders, tables, tenantId, branchId, startDate, endDate) ==
    LET scoped    == Between(InScope(orders, tenantId, branchId), startDate, endDate)
        number(t) == LET own == {x \in tables : x.id = t /\ x.tenantId = tenantId}
                     IN  IF own = {} THEN None ELSE (CHOOSE x \in own : TRUE).number
        entry(os) == LET t == (CHOOSE o \in os : TRUE).tableId
                     IN  [tableId |-> t, tableNumber |-> number(t),
                          orderCount |-> Cardinality(os), totalRevenue |-> Revenue(os)]
        bucket(d) == LET today == {o \in scoped : DateOf(o) = d}
                     IN  [date   |-> d,
                          tables |-> {entry({o \in today : o.tableId = t}) :
                                        t \in {o.tableId : o \in today}}]
        dates     == SetToSortSeq({DateOf(o) : o \in scoped}, >)
    IN  [i \in DOMAIN dates |-> bucket(dates[i])]

\* The orders of one table, the latest first: all of a tenant's, or of one channel.
\* A table that is not the tenant's is answered with 404, here None.
GetOrderHistory(orders, tables, tenantId, tableId, channel, limit) ==
    LET found  == {o \in orders : /\ o.tenantId = tenantId /\ o.tableId = tableId
                                  /\ channel \in {None, o.channel}}
        newest == SetToSortSeq(found, LAMBDA a, b : a.createdAt > b.createdAt)
    IN  IF \A x \in tables : x.id # tableId \/ x.tenantId # tenantId THEN None
        ELSE IF limit \in 1 .. Len(newest) THEN SubSeq(newest, 1, limit)
        ELSE newest     \* to MongoDB a limit of 0 is none

\* handleTableHistoryCleanup: finished orders that named a table go, of every tenant, and
\* with them their part in all the reports. Unfinished ones and takeaways stay.
CleanedUp(orders, cutoff) ==
    orders \ {o \in orders : /\ o.tableId # None /\ o.status \in {"PAID", "CANCELLED"}
                             /\ o.createdAt < cutoff}
=============================================================================
