------------------------------- MODULE Coupons -------------------------------
(***************************************************************************)
(* Promotional coupons: modules/coupons.  An order asks validateCoupon     *)
(* first, and the use is counted later, by an update nobody awaits         *)
(* (void recordCouponUsage), which MongoDB applies only while the limit is *)
(* not reached.  The record of a use in flight is a pair <<request, c>>.   *)
(***************************************************************************)
EXTENDS Naturals, FiniteSets

CONSTANTS Coupons, Requests, \* Requests: the order requests that may apply a coupon
          NoLimit,              \* usageLimit is absent
          InitialLimit,         \* [Coupons -> Nat \cup {NoLimit}]
          MinOrderAmount,       \* [Coupons -> Nat]
          NewLimits,            \* usage limits staff may set
          MaxCouponEdits        \* bound on updateCoupon / deleteCoupon

VARIABLES couponState,  \* ACTIVE, INACTIVE (isActive = false), EXPIRED or DELETED
          usageLimit, timesUsed,
          recording,    \* uses being recorded in the background
          counted, uncounted, lostUses,  \* history: how each recording ended
          lowered,      \* history: coupons whose limit staff set below timesUsed
          couponEdits

couponVars == <<couponState, usageLimit, timesUsed, recording, counted, uncounted,
                lostUses, lowered, couponEdits>>

CouponState == {"ACTIVE", "INACTIVE", "EXPIRED", "DELETED"}
Uses        == Requests \X Coupons

CouponsInit ==
    /\ couponState = [c \in Coupons |-> "ACTIVE"]
    /\ usageLimit  = InitialLimit
    /\ timesUsed   = [c \in Coupons |-> 0]
    /\ recording = {} /\ counted = {} /\ uncounted = {} /\ lostUses = {}
    /\ lowered = {} /\ couponEdits = 0

BelowLimit(c) == usageLimit[c] = NoLimit \/ timesUsed[c] < usageLimit[c]

\* validateCoupon: what it reads of the coupon, in one findOne.
ValidCoupon(c, subtotal) ==
    /\ couponState[c] = "ACTIVE"
    /\ BelowLimit(c)
    /\ subtotal >= MinOrderAmount[c]

\* void recordCouponUsage(...): the use is on its way, nobody waits for it.
ApplyCoupon(r, c) ==
    /\ recording' = recording \cup {<<r, c>>}
    /\ UNCHANGED <<couponState, usageLimit, timesUsed, counted, uncounted, lostUses,
                   lowered, couponEdits>>

\* A read-modify-write in place of the conditional $inc: the limit is not looked at.
IncrementUsage_NoLimit(r, c) ==
    /\ recording' = recording \ {<<r, c>>}
    /\ timesUsed' = [timesUsed EXCEPT ![c] = @ + 1]
    /\ counted'   = counted \cup {<<r, c>>}
    /\ UNCHANGED <<couponState, usageLimit, uncounted, lostUses, lowered, couponEdits>>

\* A redelivered increment: the record is kept, so the use is counted again.
IncrementUsage_Redelivered(r, c) ==
    /\ BelowLimit(c)
    /\ timesUsed' = [timesUsed EXCEPT ![c] = @ + 1]
    /\ counted'   = counted \cup {<<r, c>>}
    /\ UNCHANGED <<couponState, usageLimit, recording, uncounted, lostUses, lowered,
                   couponEdits>>

\* incrementUsage: one updateOne whose filter holds the limit, so it is atomic;
\* isActive and expiresAt are not part of the filter.
IncrementUsage(r, c) ==
    /\ recording' = recording \ {<<r, c>>}
    /\ \/ /\ couponState[c] # "DELETED" /\ BelowLimit(c)
          /\ timesUsed' = [timesUsed EXCEPT ![c] = @ + 1]
          /\ counted'   = counted \cup {<<r, c>>}
          /\ UNCHANGED uncounted
       \/ /\ ~(couponState[c] # "DELETED" /\ BelowLimit(c))
          /\ uncounted' = uncounted \cup {<<r, c>>}
          /\ UNCHANGED <<timesUsed, counted>>
    /\ UNCHANGED <<couponState, usageLimit, lostUses, lowered, couponEdits>>

RecordUsage(u) == u \in recording /\ IncrementUsage(u[1], u[2])

\* The instance dies, or the update fails and .catch(() => null) drops the error.
LoseUsage(u) ==
    /\ u \in recording
    /\ recording' = recording \ {u}
    /\ lostUses'  = lostUses \cup {u}
    /\ UNCHANGED <<couponState, usageLimit, timesUsed, counted, uncounted, lowered,
                   couponEdits>>

\* updateCoupon: isActive / expiresAt and, when the dto has it, usageLimit.
UpdateCoupon(c, st, limit) ==
    /\ couponEdits < MaxCouponEdits
    /\ couponState[c] # "DELETED"
    /\ couponState' = [couponState EXCEPT ![c] = st]
    /\ usageLimit'  = [usageLimit EXCEPT ![c] = limit]
    /\ lowered'     = IF limit # NoLimit /\ limit < timesUsed[c]
                      THEN lowered \cup {c} ELSE lowered
    /\ couponEdits' = couponEdits + 1
    /\ UNCHANGED <<timesUsed, recording, counted, uncounted, lostUses>>

DeleteCoupon(c) ==
    /\ couponEdits < MaxCouponEdits
    /\ couponState[c] # "DELETED"
    /\ couponState' = [couponState EXCEPT ![c] = "DELETED"]
    /\ couponEdits' = couponEdits + 1
    /\ UNCHANGED <<usageLimit, timesUsed, recording, counted, uncounted, lostUses,
                   lowered>>

\* Time passes expiresAt.
ExpireCoupon(c) ==
    /\ couponState[c] = "ACTIVE"
    /\ couponState' = [couponState EXCEPT ![c] = "EXPIRED"]
    /\ UNCHANGED <<usageLimit, timesUsed, recording, counted, uncounted, lostUses, lowered,
                   couponEdits>>

CouponsNext ==
    \/ \E u \in recording : RecordUsage(u) \/ LoseUsage(u)
    \/ \E c \in Coupons :
          \/ \E st \in CouponState \ {"DELETED"}, l \in NewLimits \cup {usageLimit[c]} :
                UpdateCoupon(c, st, l)
          \/ DeleteCoupon(c)
          \/ ExpireCoupon(c)

-----------------------------------------------------------------------------
CouponsTypeOK ==
    /\ couponState \in [Coupons -> CouponState]
    /\ usageLimit  \in [Coupons -> Nat \cup {NoLimit}]
    /\ timesUsed   \in [Coupons -> Nat]
    /\ \A set \in {recording, counted, uncounted, lostUses} : set \subseteq Uses
    /\ lowered \subseteq Coupons
    /\ couponEdits \in Nat

\* However many orders apply a coupon at once and whenever their background
\* increments land, timesUsed passes usageLimit only where staff lowered the
\* limit below the uses already counted (coupons/repository.ts:33-46).
LimitNeverOverrun ==
    \A c \in Coupons \ lowered :
        usageLimit[c] # NoLimit => timesUsed[c] <= usageLimit[c]

\* timesUsed is the number of applications that were counted, each at most once,
\* and no application is both still on its way and already settled.
EachUseCountedOnce ==
    /\ \A c \in Coupons : timesUsed[c] = Cardinality({u \in counted : u[2] = c})
    /\ recording \cap (counted \cup uncounted \cup lostUses) = {}
=============================================================================
