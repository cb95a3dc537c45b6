------------------------- MODULE MCOrderProjections -------------------------
(***************************************************************************)
(* A small instance of OrderProjections.  Calls and jobs of different      *)
(* orders touch different documents, so one order shows all there is.      *)
(***************************************************************************)
EXTENDS OrderProjections

CONSTANT o1

\* What is read from the orders: the reports. The model value o1 stands for None there.
OrderReports == INSTANCE ReportCases WITH Day <- 2, own <- "own", other <- "other",
                                          None <- o1

ASSUME ReportsOfOrders == OrderReports!ReportCasesHold
=============================================================================
