------------------------------ MODULE Platform ------------------------------
(***************************************************************************)
(* The operator's side of the backend: accounts, tenants and the counter of *)
(* the rate limiter, with a pool of requests each of which is for one of    *)
(* them.                                                                    *)
(***************************************************************************)
EXTENDS Accounts, RateLimit

CONSTANT MaxLost   \* bound on requests that die with their instance

ASSUME ArrivalsAssumption == Arrivals = Calls

VARIABLE lostCalls

platformVars == <<accountVars, tenancyVars, limitVars, lostCalls>>

PlatformInit == AccountsInit /\ TenancyInit /\ LimitInit /\ lostCalls = 0

\* A request that has not been used for anything.
Fresh(c) == authCall[c].pc = "idle" /\ tenCall[c].pc = "idle" /\ hitPc[c] = "idle"

AccountsNext ==
    /\ \/ \E c \in Calls : AuthStep(c) \/ (Fresh(c) /\ BeginAuthCall(c))
       \/ AuthTimePasses
    /\ UNCHANGED <<tenancyVars, limitVars, lostCalls>>

TenancyNext ==
    /\ \E c \in Calls : TenantStep(c) \/ (Fresh(c) /\ BeginTenantCall(c))
    /\ UNCHANGED <<accountVars, limitVars, lostCalls>>

LimitNext ==
    /\ WindowEnds \/ \E c \in Calls : SetWindow(c) \/ (Fresh(c) /\ Increment(c))
    /\ UNCHANGED <<accountVars, tenancyVars, lostCalls>>

CallDies ==
    /\ lostCalls < MaxLost
    /\ lostCalls' = lostCalls + 1
    /\ \E c \in Calls :
         \/ (LoseAuthCall(c) /\ UNCHANGED <<tenancyVars, limitVars>>)
         \/ (LoseTenantCall(c) /\ UNCHANGED <<accountVars, limitVars>>)
         \/ (LoseHit(c) /\ UNCHANGED <<accountVars, tenancyVars>>)

PlatformNext == AccountsNext \/ TenancyNext \/ LimitNext \/ CallDies

PlatformSpec == PlatformInit /\ [][PlatformNext]_platformVars

PlatformTypeOK == AccountsTypeOK /\ TenancyTypeOK /\ LimitTypeOK /\ lostCalls \in Nat
=============================================================================
