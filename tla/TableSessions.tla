---------------------------- MODULE TableSessions ----------------------------
(***************************************************************************)
(* The dining tables of one branch and the QR sessions opened on them:     *)
(* modules/tables/service.ts.  A table document lives in MongoDB, its      *)
(* session under the cache key table_session:{tenant}:{table} with a TTL.  *)
(* Scanning the QR code of a table (resolveByQrToken) is four awaits, and  *)
(* other requests run between any two of them:                             *)
(*                                                                         *)
(*   ReadTable -> ReadSession -> OpenSession -> SaveTable                  *)
(*                     |              |                                    *)
(*                     +--> done      +--> done (table was not AVAILABLE)  *)
(*                                                                         *)
(* A minted session id is fresh (crypto.randomUUID), so it is named by the *)
(* scan that minted it.                                                    *)
(***************************************************************************)
EXTENDS Naturals, FiniteSets

CONSTANTS Tables,   \* table ids
          Scans,    \* requests to GET /tables/qr/:token, and the ids they mint
          None      \* null

VARIABLES tableStatus,   \* Table.status
          currentOrder,  \* Table.currentOrderId
          ordersServed,  \* Table.totalOrdersServed
          session,       \* the session id in the cache, None when absent
          opened,        \* history: the session ids ever written to the cache
          scanPc, scanTable, scanSnapshot, scanSid

sessionVars == <<session, opened>>
scanVars    == <<scanPc, scanTable, scanSnapshot, scanSid>>
tableVars   == <<tableStatus, currentOrder, ordersServed>>

TableStatus == {"AVAILABLE", "OCCUPIED", "RESERVED", "BILL_REQUESTED"}
ScanPc      == {"new", "read", "mint", "occupy", "done", "lost"}

TablesInit ==
    /\ tableStatus  = [t \in Tables |-> "AVAILABLE"]
    /\ currentOrder = [t \in Tables |-> None]
    /\ ordersServed = [t \in Tables |-> 0]
    /\ session      = [t \in Tables |-> None]
    /\ opened       = {}
    /\ scanPc       = [s \in Scans |-> "new"]
    /\ scanTable    = [s \in Scans |-> None]
    /\ scanSnapshot = [s \in Scans |-> None]
    /\ scanSid      = [s \in Scans |-> None]

-----------------------------------------------------------------------------
(* resolveByQrToken, one action per await.                                 *)

\* The table found is not kept for the awaits to come.
ReadTable_Forgets(s, t) ==
    /\ scanPc[s] = "new"
    /\ scanPc'       = [scanPc EXCEPT ![s] = "read"]
    /\ scanSnapshot' = [scanSnapshot EXCEPT ![s] = tableStatus[t]]
    /\ UNCHANGED <<tableVars, sessionVars, scanTable, scanSid>>

\* The tenant-scoped findOne: `table` is a snapshot from here on.
ReadTable(s, t) ==
    /\ scanPc[s] = "new"
    /\ scanPc'       = [scanPc EXCEPT ![s] = "read"]
    /\ scanTable'    = [scanTable EXCEPT ![s] = t]
    /\ scanSnapshot' = [scanSnapshot EXCEPT ![s] = tableStatus[t]]
    /\ UNCHANGED <<tableVars, sessionVars, scanSid>>

\* An open session is reused only if the snapshot says OCCUPIED.
ReadSession(s) ==
    LET open == session[scanTable[s]] IN
    /\ scanPc[s] = "read"
    /\ \/ /\ open # None /\ scanSnapshot[s] = "OCCUPIED"
          /\ scanPc'  = [scanPc EXCEPT ![s] = "done"]
          /\ scanSid' = [scanSid EXCEPT ![s] = open]
       \/ /\ ~(open # None /\ scanSnapshot[s] = "OCCUPIED")
          /\ scanPc'  = [scanPc EXCEPT ![s] = "mint"]
          /\ UNCHANGED scanSid
    /\ UNCHANGED <<tableVars, sessionVars, scanTable, scanSnapshot>>

\* The minted id is not fresh: an id handed out before may come out again.
OpenSession_Reuses(s) ==
    /\ scanPc[s] = "mint"
    /\ \E id \in opened \cup {s} :
          /\ session' = [session EXCEPT ![scanTable[s]] = id]
          /\ opened'  = opened \cup {id}
          /\ scanSid' = [scanSid EXCEPT ![s] = id]
    /\ scanPc'  = [scanPc EXCEPT ![s] = "done"]
    /\ UNCHANGED <<tableVars, scanTable, scanSnapshot>>

\* cacheService.set of the fresh session, over whatever the key holds by now.
OpenSession(s) ==
    /\ scanPc[s] = "mint"
    /\ session' = [session EXCEPT ![scanTable[s]] = s]
    /\ opened'  = opened \cup {s}
    /\ scanSid' = [scanSid EXCEPT ![s] = s]
    /\ scanPc'  = [scanPc EXCEPT
                     ![s] = IF scanSnapshot[s] = "AVAILABLE" THEN "occupy" ELSE "done"]
    /\ UNCHANGED <<tableVars, scanTable, scanSnapshot>>

\* table.save(): Mongoose writes the modified path `status` and nothing else.
SaveTable(s) ==
    /\ scanPc[s] = "occupy"
    /\ tableStatus' = [tableStatus EXCEPT ![scanTable[s]] = "OCCUPIED"]
    /\ scanPc'      = [scanPc EXCEPT ![s] = "done"]
    /\ UNCHANGED <<currentOrder, ordersServed, sessionVars, scanTable, scanSnapshot,
                   scanSid>>

\* The instance that runs the scan dies: no further step of it happens.
LoseScan(s) ==
    /\ scanPc[s] \in {"read", "mint", "occupy"}
    /\ scanPc' = [scanPc EXCEPT ![s] = "lost"]
    /\ UNCHANGED <<tableVars, sessionVars, scanTable, scanSnapshot, scanSid>>

-----------------------------------------------------------------------------
(* What else touches a table or its session.                               *)

\* The 90-minute TTL of the cache entry runs out.
ExpireSession(t) ==
    /\ session[t] # None
    /\ session' = [session EXCEPT ![t] = None]
    /\ UNCHANGED <<tableVars, opened, scanVars>>

\* PUT /tables/:id, in the fields the other handlers read; one the dto leaves out is
\* given the value it has.
UpdateTable(t, st, o) ==
    /\ tableStatus'  = [tableStatus EXCEPT ![t] = st]
    /\ currentOrder' = [currentOrder EXCEPT ![t] = o]
    /\ UNCHANGED <<ordersServed, sessionVars, scanVars>>

\* validateTableSession: the claimed session is the one the cache holds now.
SessionMatches(t, sid) == session[t] # None /\ session[t] = sid

\* closeTableSession deletes by table, whichever session the key holds.
DeleteSession(t) ==
    /\ session' = [session EXCEPT ![t] = None]
    /\ UNCHANGED <<tableVars, opened, scanVars>>

-----------------------------------------------------------------------------
TablesTypeOK ==
    /\ tableStatus  \in [Tables -> TableStatus]
    /\ session      \in [Tables -> Scans \cup {None}]
    /\ ordersServed \in [Tables -> Nat]
    /\ opened       \subseteq Scans
    /\ scanPc       \in [Scans -> ScanPc]
    /\ scanTable    \in [Scans -> Tables \cup {None}]
    /\ \A s \in Scans : scanPc[s] # "new" => scanTable[s] \in Tables
    /\ scanSnapshot \in [Scans -> TableStatus \cup {None}]
    /\ scanSid      \in [Scans -> Scans \cup {None}]
=============================================================================
