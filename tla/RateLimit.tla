------------------------------ MODULE RateLimit ------------------------------
(***************************************************************************)
(* One counter of the rate limiter (middleware/rateLimit.middleware.ts) in  *)
(* Redis: INCR creates the key without a TTL, and the request that reads 1  *)
(* sets the TTL with a second command.                                      *)
(***************************************************************************)
EXTENDS Naturals

CONSTANT Arrivals   \* requests the limiter counts

VARIABLES hits,       \* the counter, 0 when the key is absent
          expires,    \* whether the key has a TTL
          hitPc,
          unexpired   \* history: requests that died before they set the TTL

limitVars == <<hits, expires, hitPc, unexpired>>

LimitInit == /\ hits = 0 /\ expires = FALSE /\ unexpired = {}
             /\ hitPc = [c \in Arrivals |-> "idle"]

\* Only a request that finds the counter new sets its TTL, and it tests after the INCR.
Increment_TestsBefore(c) ==
    /\ hitPc[c] = "idle"
    /\ hits'  = hits + 1
    /\ hitPc' = [hitPc EXCEPT ![c] = IF hits = 1 THEN "expire" ELSE "done"]
    /\ UNCHANGED <<expires, unexpired>>

Increment(c) ==
    /\ hitPc[c] = "idle"
    /\ hits'  = hits + 1
    /\ hitPc' = [hitPc EXCEPT ![c] = IF hits' = 1 THEN "expire" ELSE "done"]
    /\ UNCHANGED <<expires, unexpired>>

SetWindow(c) ==
    /\ hitPc[c] = "expire"
    /\ expires' = TRUE
    /\ hitPc'   = [hitPc EXCEPT ![c] = "done"]
    /\ UNCHANGED <<hits, unexpired>>

WindowEnds ==
    /\ expires
    /\ hits' = 0 /\ expires' = FALSE
    /\ UNCHANGED <<hitPc, unexpired>>

LoseHit(c) ==
    /\ hitPc[c] = "expire"
    /\ hitPc'     = [hitPc EXCEPT ![c] = "lost"]
    /\ unexpired' = unexpired \cup {c}
    /\ UNCHANGED <<hits, expires>>

-----------------------------------------------------------------------------
LimitTypeOK == /\ hits \in Nat /\ expires \in BOOLEAN /\ unexpired \subseteq Arrivals
               /\ hitPc \in [Arrivals -> {"idle", "expire", "done", "lost"}]

\* A counter that is never reset, and so blocks its client for good, comes only from the
\* death of the request that was to set its window (rateLimit.middleware.ts:20-23).
CountersEnd ==
    hits > 0 /\ ~expires => unexpired # {} \/ \E c \in Arrivals : hitPc[c] = "expire"
=============================================================================
