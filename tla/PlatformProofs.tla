----------------------------- MODULE PlatformProofs -----------------------------
(***************************************************************************)
(* Proofs about the rate limiter's counter and about tenants and their      *)
(* documents within Platform, for any number of requests and tenants.       *)
(***************************************************************************)
EXTENDS Platform, TLAPS

-----------------------------------------------------------------------------
(* The counter of the rate limiter.                                        *)

\* What a step of the platform does to the counter.
LEMMA LimitSteps ==
    ASSUME [PlatformNext]_platformVars
    PROVE  \/ \E c \in Calls : Increment(c) \/ SetWindow(c) \/ LoseHit(c)
           \/ WindowEnds
           \/ UNCHANGED limitVars
BY DEF PlatformNext, AccountsNext, TenancyNext, LimitNext, CallDies, platformVars

LimitInv == LimitTypeOK /\ CountersEnd

LEMMA LimitStep == ASSUME LimitInv, [PlatformNext]_platformVars PROVE LimitInv'
<1> USE ArrivalsAssumption DEF LimitInv, LimitTypeOK, CountersEnd
<1>1. ASSUME NEW c \in Calls, Increment(c) PROVE LimitInv'
  <2>1. hits' \in Nat /\ hits' > 0 /\ hitPc' \in [Arrivals -> {"idle", "expire", "done", "lost"}]
    BY <1>1 DEF Increment
  <2>2. CASE hits = 0
    BY <1>1, <2>1, <2>2 DEF Increment
  <2>3. CASE hits > 0 /\ expires
    BY <1>1, <2>1, <2>3 DEF Increment
  <2>4. CASE hits > 0 /\ ~expires
    BY <1>1, <2>1, <2>4 DEF Increment
  <2>5. QED BY <2>2, <2>3, <2>4
<1>2. ASSUME NEW c \in Calls, SetWindow(c) PROVE LimitInv'
  BY <1>2 DEF SetWindow
<1>3. ASSUME NEW c \in Calls, LoseHit(c) PROVE LimitInv'
  BY <1>3 DEF LoseHit
<1>4. CASE WindowEnds
  <2>1. hits' = 0 /\ expires' = FALSE /\ hitPc' = hitPc /\ unexpired' = unexpired
    BY <1>4 DEF WindowEnds
  <2>2. hits' \in Nat /\ ~(hits' > 0)
    BY <2>1
  <2>3. expires' \in BOOLEAN
    BY <2>1
  <2>4. QED BY <2>1, <2>2, <2>3
<1>5. CASE UNCHANGED limitVars
  BY <1>5 DEF limitVars
<1>6. QED BY LimitSteps, <1>1, <1>2, <1>3, <1>4, <1>5

\* A counter without a window, which blocks its client for good, comes only from the death
\* of the request that was to set the window (rateLimit.middleware.ts:20-23).
THEOREM CountersEndHolds == PlatformSpec => [](LimitTypeOK /\ CountersEnd)
<1>1. PlatformInit => LimitInv
  <2> SUFFICES ASSUME LimitInit PROVE LimitInv
    BY DEF PlatformInit
  <2>1. hits \in Nat /\ ~(hits > 0)
    BY DEF LimitInit
  <2>2. expires \in BOOLEAN
    BY DEF LimitInit
  <2>3. QED BY <2>1, <2>2 DEF LimitInit, LimitInv, LimitTypeOK, CountersEnd
<1>2. LimitInv /\ [PlatformNext]_platformVars => LimitInv'
  BY LimitStep
<1>3. QED BY <1>1, <1>2, PTL DEF PlatformSpec, LimitInv

-----------------------------------------------------------------------------
(* Tenants and their documents.                                            *)

\* What a step of the platform does to the tenants.
LEMMA TenancySteps ==
    ASSUME [PlatformNext]_platformVars
    PROVE  \/ \E c \in Calls : TenantStep(c) \/ BeginTenantCall(c) \/ LoseTenantCall(c)
           \/ UNCHANGED tenancyVars
BY DEF PlatformNext, AccountsNext, TenancyNext, LimitNext, CallDies, platformVars

\* Why TenantsComplete is kept: a creation between its writes has written the tenant, and
\* past the second one its subscription too; both happen without transactions only.
CreationOk(c) ==
    /\ tenCall[c].pc \in {"sub", "branch", "bootstrap", "save"} => tenCall[c].slug \in tenants
    /\ tenCall[c].pc \in {"sub", "branch"} => FALSE \in Deployments
    /\ tenCall[c].pc = "branch" => tenCall[c].slug \in subscribed

TenantsInv ==
    /\ TenancyTypeOK
    /\ \A c \in Calls : CreationOk(c)
    /\ broken # {} => FALSE \in Deployments
    /\ TenantsComplete

\* A dto holds values of the fields of its part.
LEMMA DtoValues ==
    ASSUME NEW p \in Parts, NEW dto \in Dtos(p)
    PROVE  DOMAIN dto \subseteq Fields[p] /\ \A f \in DOMAIN dto : dto[f] \in Values
<1>1. PICK F \in (SUBSET Fields[p]) \ {{}} : dto \in [F -> Values]
  BY DEF Dtos
<1>2. QED BY <1>1

LEMMA TenantsInit == TenancyInit => TenantsInv
<1> SUFFICES ASSUME TenancyInit PROVE TenantsInv
  OBVIOUS
<1> USE TenancyAssumption DEF TenancyInit
<1>1. ASSUME NEW t \in Slugs, NEW p \in Parts PROVE doc[t][p] \in Document(p)
  BY DEF Document
<1>2. doc \in [Slugs -> [Parts -> UNION {Document(p) : p \in Parts}]]
  <2>1. doc = [t \in Slugs |-> [p \in Parts |-> [f \in Fields[p] |-> OldValue]]]
    OBVIOUS
  <2>2. ASSUME NEW p \in Parts
        PROVE  [f \in Fields[p] |-> OldValue] \in UNION {Document(q) : q \in Parts}
    BY DEF Document
  <2>3. QED BY <2>1, <2>2
<1>3. IdleTen \in TenCall /\ IdleTen.pc = "idle"
  <2> DEFINE dtos == (UNION {Dtos(p) : p \in Parts}) \cup {None}
             snaps == (UNION {Document(p) : p \in Parts}) \cup {None}
  <2>1. None \in dtos /\ None \in snaps
    OBVIOUS
  <2> HIDE DEF dtos, snaps
  <2>2. IdleTen \in [pc: TenPc, slug: Slugs \cup {None}, part: Parts \cup {None},
                     dto: dtos, snap: snaps, seen: SUBSET Calls]
    BY <2>1 DEF IdleTen, TenPc
  <2>3. QED BY <2>2 DEF TenCall, dtos, snaps, IdleTen
<1>4. tenCall \in [Calls -> TenCall] /\ \A c \in Calls : tenCall[c].pc = "idle"
  BY <1>3
<1>5. TenancyTypeOK
  BY <1>1, <1>2, <1>4 DEF TenancyTypeOK
<1>6. QED BY <1>4, <1>5 DEF TenantsInv, CreationOk, TenantsComplete

\* A call that moves on keeps all but its program counter, its dto and its document.
LEMMA Becoming ==
    ASSUME tenCall \in [Calls -> TenCall], NEW c \in Calls, NEW pc \in TenPc, Becomes(c, pc)
    PROVE  /\ tenCall' \in [Calls -> TenCall]
           /\ \A d \in Calls \ {c} : tenCall'[d] = tenCall[d]
           /\ tenCall'[c].pc = pc /\ tenCall'[c].slug = tenCall[c].slug
           /\ tenCall'[c].part = tenCall[c].part /\ tenCall'[c].seen = tenCall[c].seen
<1> DEFINE dtos == (UNION {Dtos(p) : p \in Parts}) \cup {None}
           snaps == (UNION {Document(p) : p \in Parts}) \cup {None}
           call == [tenCall[c] EXCEPT !.pc = pc, !.dto = None, !.snap = None]
<1>1. /\ TenCall = [pc: TenPc, slug: Slugs \cup {None}, part: Parts \cup {None},
                    dto: dtos, snap: snaps, seen: SUBSET Calls]
      /\ None \in dtos /\ None \in snaps
  BY DEF TenCall
<1> HIDE DEF dtos, snaps
<1>2. /\ call \in TenCall /\ call.pc = pc /\ call.slug = tenCall[c].slug
      /\ call.part = tenCall[c].part /\ call.seen = tenCall[c].seen
  <2>1. tenCall[c] \in [pc: TenPc, slug: Slugs \cup {None}, part: Parts \cup {None},
                        dto: dtos, snap: snaps, seen: SUBSET Calls]
    BY <1>1
  <2>2. QED BY <1>1, <2>1
<1>3. tenCall' = [tenCall EXCEPT ![c] = call]
  BY DEF Becomes
<1> HIDE DEF call
<1>4. QED BY <1>2, <1>3

\* The steps of the calls, each for the parts of TenancyTypeOK it can disturb.
LEMMA TenancyTypeStep ==
    ASSUME TenantsInv, NEW c \in Calls,
           TenantStep(c) \/ BeginTenantCall(c) \/ LoseTenantCall(c)
    PROVE  TenancyTypeOK'
<1> USE DEF docVars
<1> /\ tenCall \in [Calls -> TenCall]
    /\ CreationOk(c)
    /\ TenancyTypeOK
  BY DEF TenantsInv, TenancyTypeOK
<1> DEFINE dtos == (UNION {Dtos(p) : p \in Parts}) \cup {None}
           snaps == (UNION {Document(p) : p \in Parts}) \cup {None}
<1>0. /\ TenCall = [pc: TenPc, slug: Slugs \cup {None}, part: Parts \cup {None},
                    dto: dtos, snap: snaps, seen: SUBSET Calls]
      /\ None \in dtos /\ None \in snaps
  BY DEF TenCall
<1> HIDE DEF dtos, snaps
<1>1. ASSUME NEW pc \in TenPc \ {"save"}, Becomes(c, pc), tenCall[c].pc # "idle", UNCHANGED doc,
             tenants' \subseteq Slugs, subscribed' \subseteq tenants',
             mainBranch' \subseteq tenants', broken' \subseteq tenants'
      PROVE  TenancyTypeOK'
  <2>1. tenCall' \in [Calls -> TenCall]
    BY <1>1, Becoming
  <2>2. /\ tenCall'[c].pc = pc /\ tenCall'[c].slug = tenCall[c].slug
        /\ \A d \in Calls \ {c} : tenCall'[d] = tenCall[d]
    BY <1>1, Becoming
  <2>3. QED BY <1>1, <2>1, <2>2 DEF TenancyTypeOK
<1>2. CASE InsertTenant(c)
  BY <1>1, <1>2 DEF InsertTenant, TenPc, TenancyTypeOK
<1>3. CASE InsertSubscription(c)
  BY <1>1, <1>3 DEF InsertSubscription, TenPc, TenancyTypeOK, CreationOk
<1>4. CASE InsertMainBranch(c)
  BY <1>1, <1>4 DEF InsertMainBranch, TenPc, TenancyTypeOK, CreationOk
<1>5. CASE BootstrapSubscription(c)
  BY <1>1, <1>5 DEF BootstrapSubscription, TenPc, TenancyTypeOK, CreationOk
<1>6. CASE LoseTenantCall(c)
  BY <1>1, <1>6 DEF LoseTenantCall, TenPc, TenancyTypeOK, CreationOk
<1>7. CASE SaveDocument(c)
  <2> DEFINE t == tenCall[c].slug
             p == tenCall[c].part
             new == [f \in Fields[p] |->
                        IF f \in (IF p \in Whole
                                     /\ {g \in Fields[p] : Merged(c)[g] # tenCall[c].snap[g]} # {}
                                  THEN Fields[p]
                                  ELSE {g \in Fields[p] : Merged(c)[g] # tenCall[c].snap[g]})
                        THEN Merged(c)[f] ELSE doc[t][p][f]]
  <2>1. /\ t \in Slugs /\ p \in Parts
        /\ tenCall[c].dto \in Dtos(p) /\ tenCall[c].snap \in Document(p)
        /\ doc[t][p] \in Document(p)
    BY <1>7 DEF SaveDocument, TenancyTypeOK
  <2>2. ASSUME NEW f \in Fields[p] PROVE Merged(c)[f] \in Values /\ doc[t][p][f] \in Values
    BY <2>1, DtoValues DEF Merged, Document
  <2>3. new \in Document(p)
    BY <2>2 DEF Document
  <2>4. doc' = [doc EXCEPT ![t][p] = new]
    BY <1>7 DEF SaveDocument
  <2> HIDE DEF new
  <2>5. /\ doc' \in [Slugs -> [Parts -> UNION {Document(q) : q \in Parts}]]
        /\ \A u \in Slugs, q \in Parts : doc'[u][q] \in Document(q)
    <3>1. doc \in [Slugs -> [Parts -> UNION {Document(q) : q \in Parts}]]
      BY DEF TenancyTypeOK
    <3>2. new \in UNION {Document(q) : q \in Parts}
      BY <2>1, <2>3
    <3>3. doc' \in [Slugs -> [Parts -> UNION {Document(q) : q \in Parts}]]
      BY <2>1, <2>4, <3>1, <3>2
    <3>4. ASSUME NEW u \in Slugs, NEW q \in Parts PROVE doc'[u][q] \in Document(q)
      <4>1. doc[u][q] \in Document(q)
        BY DEF TenancyTypeOK
      <4>2. QED BY <2>1, <2>3, <2>4, <3>1, <4>1
    <3>5. QED BY <3>3, <3>4
  <2>6. tenCall' \in [Calls -> TenCall]
    BY <1>7, Becoming DEF SaveDocument, TenPc
  <2>7. /\ tenCall'[c].pc = "done" /\ tenCall'[c].slug = tenCall[c].slug
        /\ \A d \in Calls \ {c} : tenCall'[d] = tenCall[d]
    BY <1>7, Becoming DEF SaveDocument, TenPc
  <2>8. UNCHANGED <<tenants, subscribed, mainBranch, broken>>
    BY <1>7 DEF SaveDocument
  <2>9. QED BY <2>1, <2>5, <2>6, <2>7, <2>8 DEF TenancyTypeOK
<1>8. ASSUME NEW t \in Slugs, FindSlug(c, t) \/ FindSubscription(c, t) PROVE TenancyTypeOK'
  <2>1. PICK pc \in {"denied", "insert", "done", "bootstrap"} :
           tenCall' = [tenCall EXCEPT ![c].slug = t, ![c].pc = pc]
    BY <1>8 DEF FindSlug, FindSubscription
  <2>2. tenCall' \in [Calls -> TenCall]
    BY <1>0, <2>1 DEF TenPc
  <2>3. \A d \in Calls : IF d = c THEN tenCall'[d].slug = t /\ tenCall'[d].pc = pc
                         ELSE tenCall'[d] = tenCall[d]
    BY <1>0, <2>1
  <2>4. QED BY <1>8, <2>2, <2>3 DEF FindSlug, FindSubscription, TenancyTypeOK
<1>9. ASSUME NEW t \in Slugs, NEW p \in Parts, NEW dto \in Updates[p], FindDocument(c, t, p, dto)
      PROVE  TenancyTypeOK'
  <2> DEFINE call == [pc |-> "save", slug |-> t, part |-> p, dto |-> dto, snap |-> doc[t][p],
                      seen |-> Saved(t, p)]
  <2>1. doc[t][p] \in Document(p)
    BY DEF TenancyTypeOK
  <2>2. dto \in dtos /\ doc[t][p] \in snaps
    BY <2>1, UpdatesAssumption DEF dtos, snaps
  <2>3. call \in TenCall
    BY <1>0, <2>2 DEF TenPc, Saved
  <2>4. tenCall' = [tenCall EXCEPT ![c] = call]
    BY <1>9 DEF FindDocument
  <2> HIDE DEF call
  <2>5. tenCall' \in [Calls -> TenCall]
    BY <2>3, <2>4
  <2>6. tenCall'[c] = call /\ \A d \in Calls \ {c} : tenCall'[d] = tenCall[d]
    BY <2>4
  <2>7. call.slug = t /\ call.part = p /\ call.dto = dto /\ call.snap = doc[t][p]
    BY DEF call
  <2>8. dto \in Dtos(p)
    BY UpdatesAssumption
  <2>9. QED BY <1>9, <2>1, <2>5, <2>6, <2>7, <2>8 DEF FindDocument, TenancyTypeOK
<1>10. QED
  BY <1>2, <1>3, <1>4, <1>5, <1>6, <1>7, <1>8, <1>9 DEF TenantStep, BeginTenantCall

\* A step of one call leaves the other calls where they are.
LEMMA OtherTenantCalls ==
    ASSUME tenCall \in [Calls -> TenCall], NEW c \in Calls,
           TenantStep(c) \/ BeginTenantCall(c) \/ LoseTenantCall(c)
    PROVE  \A d \in Calls \ {c} : tenCall'[d] = tenCall[d]
<1> SUFFICES ASSUME NEW d \in Calls, d # c PROVE tenCall'[d] = tenCall[d]
  OBVIOUS
<1>1. ASSUME NEW pc, Becomes(c, pc) PROVE tenCall'[d] = tenCall[d]
  BY <1>1 DEF Becomes
<1>2. CASE TenantStep(c)
  BY Zenon, <1>1, <1>2 DEF TenantStep, InsertTenant, InsertSubscription, InsertMainBranch,
     BootstrapSubscription, SaveDocument
<1>3. CASE BeginTenantCall(c)
  <2>1. ASSUME NEW t, FindSlug(c, t) PROVE tenCall'[d] = tenCall[d]
    BY <2>1 DEF FindSlug
  <2>2. ASSUME NEW t, FindSubscription(c, t) PROVE tenCall'[d] = tenCall[d]
    BY <2>2 DEF FindSubscription
  <2>3. ASSUME NEW t, NEW p, NEW dto, FindDocument(c, t, p, dto)
        PROVE  tenCall'[d] = tenCall[d]
    BY <2>3 DEF FindDocument
  <2>4. QED BY Zenon, <1>3, <2>1, <2>2, <2>3 DEF BeginTenantCall
<1>4. CASE LoseTenantCall(c)
  BY Zenon, <1>1, <1>4 DEF LoseTenantCall
<1>5. QED BY <1>2, <1>3, <1>4

LEMMA TenantsStep == ASSUME TenantsInv, [PlatformNext]_platformVars PROVE TenantsInv'
<1> USE DEF docVars
<1>1. CASE UNCHANGED tenancyVars
  BY <1>1 DEF tenancyVars, TenantsInv, TenancyTypeOK, CreationOk, TenantsComplete
<1>2. ASSUME NEW c \in Calls, TenantStep(c) \/ BeginTenantCall(c) \/ LoseTenantCall(c)
      PROVE  TenantsInv'
  <2>0. TenancyTypeOK'
    BY <1>2, TenancyTypeStep
  <2> /\ tenCall \in [Calls -> TenCall]
      /\ \A d \in Calls : CreationOk(d)
      /\ TenantsComplete /\ (broken # {} => FALSE \in Deployments)
    BY DEF TenantsInv, TenancyTypeOK
  <2>1. tenants \subseteq tenants' /\ subscribed \subseteq subscribed'
        /\ mainBranch \subseteq mainBranch' /\ broken \subseteq broken'
    BY <1>2 DEF TenantStep, BeginTenantCall, InsertTenant, InsertSubscription,
       InsertMainBranch, BootstrapSubscription, SaveDocument, FindSlug, FindSubscription,
       FindDocument, LoseTenantCall
  <2>2. \A d \in Calls \ {c} : tenCall'[d] = tenCall[d]
    BY <1>2, OtherTenantCalls
  <2> DEFINE Missing(t) == /\ FALSE \in Deployments
                           /\ t \in broken \/ \E d \in Calls : /\ tenCall[d].slug = t
                                                               /\ tenCall[d].pc \in {"sub", "branch"}
             Goal == /\ CreationOk(c)'
                     /\ broken' # {} => FALSE \in Deployments
                     /\ \A t \in tenants' \ tenants :
                           t \in subscribed' \cap mainBranch' \/ Missing(t)'
                     /\ \A t \in tenants :
                           /\ tenCall[c].slug = t /\ tenCall[c].pc \in {"sub", "branch"}
                           => t \in subscribed' \cap mainBranch' \/ Missing(t)'
  <2>3. SUFFICES Goal
    <3>1. ASSUME NEW d \in Calls \ {c} PROVE CreationOk(d)'
      BY <2>1, <2>2 DEF CreationOk
    <3>2. ASSUME NEW t \in tenants, t \in broken \/ t \in subscribed \cap mainBranch
          PROVE  t \in subscribed' \cap mainBranch' \/ t \in broken'
      BY <2>1, <3>2
    <3>3. ASSUME NEW d \in Calls \ {c}, tenCall[d].pc \in {"sub", "branch"}
          PROVE  tenCall'[d].slug = tenCall[d].slug /\ tenCall'[d].pc \in {"sub", "branch"}
      BY <2>2, <3>3
    <3>4. ASSUME NEW t \in tenants PROVE t \in subscribed' \cap mainBranch' \/ Missing(t)'
      <4>1. CASE t \in subscribed \cap mainBranch
        BY <3>2, <4>1
      <4>2. CASE t \in broken
        BY <2>1, <4>2
      <4>3. ASSUME NEW d \in Calls, tenCall[d].slug = t, tenCall[d].pc \in {"sub", "branch"}
            PROVE  t \in subscribed' \cap mainBranch' \/ Missing(t)'
        <5>1. CASE d = c
          BY <4>3, <5>1
        <5>2. CASE d # c
          BY <2>2, <4>3, <5>2 DEF CreationOk
        <5>3. QED BY <5>1, <5>2
      <4>4. QED BY <4>1, <4>2, <4>3 DEF TenantsComplete
    <3>5. QED BY <2>0, <3>1, <3>4 DEF TenantsInv, TenantsComplete
  <2> DEFINE dtos == (UNION {Dtos(p) : p \in Parts}) \cup {None}
             snaps == (UNION {Document(p) : p \in Parts}) \cup {None}
  <2>4. TenCall = [pc: TenPc, slug: Slugs \cup {None}, part: Parts \cup {None},
                   dto: dtos, snap: snaps, seen: SUBSET Calls]
    BY DEF TenCall
  <2> HIDE DEF dtos, snaps
  <2>5. ASSUME NEW pc \in TenPc, Becomes(c, pc)
        PROVE  tenCall'[c].pc = pc /\ tenCall'[c].slug = tenCall[c].slug
    BY <2>5, Becoming
  <2>6. CASE InsertTenant(c)
    <3> DEFINE t == tenCall[c].slug
    <3>1. CASE t \in tenants
      BY <2>5, <2>6, <3>1 DEF InsertTenant, CreationOk, TenPc
    <3>2. CASE t \notin tenants /\ Becomes(c, "done")
      BY <2>5, <2>6, <3>2 DEF InsertTenant, CreationOk, TenPc
    <3>3. CASE t \notin tenants /\ Becomes(c, "sub") /\ FALSE \in Deployments
      BY <2>5, <2>6, <3>3 DEF InsertTenant, CreationOk, TenPc
    <3>4. QED BY <2>6, <3>1, <3>2, <3>3, TenancyAssumption DEF InsertTenant
  <2>7. CASE InsertSubscription(c)
    <3> DEFINE t == tenCall[c].slug
    <3>1. CASE t \in subscribed
      BY <2>5, <2>7, <3>1 DEF InsertSubscription, CreationOk, TenPc
    <3>2. CASE t \notin subscribed
      <4>1. /\ tenCall'[c].slug = t /\ tenCall'[c].pc = "branch" /\ tenants' = tenants
            /\ broken' = broken /\ t \in subscribed' /\ t \in tenants /\ FALSE \in Deployments
        BY <2>5, <2>7, <3>2 DEF InsertSubscription, CreationOk, TenPc
      <4>2. Missing(t)'
        BY <4>1
      <4>3. QED BY <4>1, <4>2 DEF CreationOk
    <3>3. QED BY <3>1, <3>2
  <2>8. CASE InsertMainBranch(c)
    BY <2>5, <2>8 DEF InsertMainBranch, CreationOk, TenPc
  <2>9. CASE BootstrapSubscription(c)
    BY <2>5, <2>9 DEF BootstrapSubscription, CreationOk, TenPc
  <2>10. CASE SaveDocument(c)
    BY <2>5, <2>10 DEF SaveDocument, CreationOk, TenPc
  <2>11. CASE LoseTenantCall(c)
    BY <2>5, <2>11 DEF LoseTenantCall, CreationOk, TenPc
  <2>12. ASSUME NEW t \in Slugs, FindSlug(c, t) \/ FindSubscription(c, t) PROVE Goal
    <3>1. /\ tenCall'[c].slug = t
          /\ tenCall'[c].pc \in {"denied", "insert", "done", "bootstrap"}
          /\ tenCall'[c].pc = "bootstrap" => t \in tenants
          /\ tenCall[c].pc = "idle"
      BY <2>4, <2>12 DEF FindSlug, FindSubscription
    <3>2. QED BY <2>12, <3>1 DEF FindSlug, FindSubscription, CreationOk
  <2>13. ASSUME NEW t \in Slugs, NEW p \in Parts, NEW dto \in Updates[p], FindDocument(c, t, p, dto)
         PROVE  Goal
    <3>1. tenCall'[c].slug = t /\ tenCall'[c].pc = "save" /\ tenCall[c].pc = "idle"
      BY <2>13 DEF FindDocument
    <3>2. QED BY <2>13, <3>1 DEF FindDocument, CreationOk
  <2>14. QED
    BY <1>2, <2>6, <2>7, <2>8, <2>9, <2>10, <2>11, <2>12, <2>13
       DEF TenantStep, BeginTenantCall
<1>3. QED BY TenancySteps, <1>1, <1>2

\* A tenant is whole unless its creation is under way, failed or died, and without
\* transactions only (tenants/service.ts:25-56).
THEOREM TenantsWhole == PlatformSpec => [](TenancyTypeOK /\ TenantsComplete)
<1>1. PlatformInit => TenantsInv
  BY TenantsInit DEF PlatformInit
<1>2. TenantsInv /\ [PlatformNext]_platformVars => TenantsInv'
  BY TenantsStep
<1>3. TenantsInv => TenancyTypeOK /\ TenantsComplete
  BY DEF TenantsInv
<1>4. QED BY <1>1, <1>2, <1>3, PTL DEF PlatformSpec

-----------------------------------------------------------------------------
(* Updates are lost only to those they overlap.                            *)

\* Some save of the document overlapped the one of c.
Contested(c, t, p) == \E d \in Saved(t, p) : Overlapped(d, c)

\* The last save of a field has ended, and what it wrote is there or was contested.
FieldOk(t, p, f) ==
    LET last == latest[t][p][f] IN
    /\ last.by \in Calls => last.by \in Saved(t, p)
    /\ doc[t][p][f] # last.value => last.by \in Calls /\ Contested(last.by, t, p)

\* A document in memory is the stored one while it has seen every save of it; where it
\* differs from the last save of a field, it has not seen that save or that was contested.
SnapshotOk(c) ==
    LET t == tenCall[c].slug
        p == tenCall[c].part
    IN
    /\ Saved(t, p) \subseteq tenCall[c].seen => doc[t][p] = tenCall[c].snap
    /\ \A f \in Fields[p] :
          LET last == latest[t][p][f] IN
          tenCall[c].snap[f] # last.value =>
              /\ last.by \in Calls
              /\ last.by \notin tenCall[c].seen \/ Contested(last.by, t, p)

UpdatesInv ==
    /\ latest = [t \in Slugs |-> [p \in Parts |-> latest[t][p]]]
    /\ \A c, d \in Calls : d \in tenCall[c].seen => tenCall[d].pc = "done"
    /\ \A t \in Slugs, p \in Parts : \A f \in Fields[p] : FieldOk(t, p, f)
    /\ \A c \in Calls : tenCall[c].pc = "save" => SnapshotOk(c)

LEMMA UpdatesInit == TenancyInit => UpdatesInv
<1> SUFFICES ASSUME TenancyInit PROVE UpdatesInv
  OBVIOUS
<1>1. \A c \in Calls : tenCall[c].pc = "idle" /\ tenCall[c].seen = {}
  BY DEF TenancyInit, IdleTen
<1>2. /\ latest = [t \in Slugs |-> [p \in Parts |-> latest[t][p]]]
      /\ \A t \in Slugs, p \in Parts : \A f \in Fields[p] :
            /\ latest[t][p][f] = [by |-> None, value |-> OldValue]
            /\ doc[t][p][f] = OldValue
  BY DEF TenancyInit
<1>3. ASSUME NEW t \in Slugs, NEW p \in Parts, NEW f \in Fields[p] PROVE FieldOk(t, p, f)
  BY <1>2, TenancyAssumption DEF FieldOk
<1>4. QED BY <1>1, <1>2, <1>3 DEF UpdatesInv

\* A step that leaves the documents alone, of a call that has not ended and holds none after it.
LEMMA QuietUpdates ==
    ASSUME TenancyTypeOK, UpdatesInv, NEW c \in Calls, tenCall[c].pc # "done",
           \A d \in Calls \ {c} : tenCall'[d] = tenCall[d],
           tenCall'[c].seen = tenCall[c].seen, tenCall'[c].pc # "save",
           UNCHANGED <<doc, latest>>
    PROVE  UpdatesInv'
<1>1. \A d \in Calls : /\ tenCall'[d].seen = tenCall[d].seen
                       /\ tenCall[d].pc = "done" => tenCall'[d] = tenCall[d]
  OBVIOUS
<1>2. \A t, p : Saved(t, p) \subseteq Saved(t, p)'
  BY <1>1 DEF Saved
<1>3. ASSUME NEW b \in Calls, NEW t, NEW p, Contested(b, t, p) PROVE Contested(b, t, p)'
  BY <1>1, <1>2, <1>3 DEF Contested, Overlapped, Saved
<1>4. ASSUME NEW t \in Slugs, NEW p \in Parts, NEW f \in Fields[p] PROVE FieldOk(t, p, f)'
  BY <1>2, <1>3 DEF UpdatesInv, FieldOk
<1>5. ASSUME NEW d \in Calls, tenCall'[d].pc = "save" PROVE SnapshotOk(d)'
  <2>1. tenCall'[d] = tenCall[d] /\ SnapshotOk(d)
    BY <1>5 DEF UpdatesInv
  <2>2. QED BY <1>2, <1>3, <2>1 DEF SnapshotOk
<1>6. QED BY <1>1, <1>4, <1>5 DEF UpdatesInv

LEMMA FindingUpdates ==
    ASSUME TenancyTypeOK, UpdatesInv, NEW c \in Calls, NEW t \in Slugs, NEW p \in Parts,
           NEW dto \in Updates[p], FindDocument(c, t, p, dto)
    PROVE  UpdatesInv'
<1> DEFINE call == [pc |-> "save", slug |-> t, part |-> p, dto |-> dto, snap |-> doc[t][p],
                    seen |-> Saved(t, p)]
<1>1. call.pc = "save" /\ call.slug = t /\ call.part = p /\ call.snap = doc[t][p]
      /\ call.seen = Saved(t, p)
  OBVIOUS
<1>2. /\ tenCall[c].pc = "idle" /\ tenCall' = [tenCall EXCEPT ![c] = call]
      /\ UNCHANGED <<doc, latest>>
  BY DEF FindDocument, docVars
<1> HIDE DEF call
<1>3. /\ tenCall'[c] = call /\ \A d \in Calls \ {c} : tenCall'[d] = tenCall[d]
  BY <1>2 DEF TenancyTypeOK
<1>4. \A u, q : Saved(u, q)' = Saved(u, q) /\ c \notin Saved(u, q)
  BY <1>1, <1>2, <1>3 DEF Saved
<1>5. ASSUME NEW u, NEW q, NEW b \in Saved(u, q) PROVE Contested(b, u, q)' <=> Contested(b, u, q)
  <2>1. \A d \in Saved(u, q) : d \in Calls \ {c}
    BY <1>4 DEF Saved
  <2>2. QED BY <1>3, <1>4, <2>1 DEF Contested, Overlapped
<1>6. ASSUME NEW u \in Slugs, NEW q \in Parts, NEW f \in Fields[q] PROVE FieldOk(u, q, f)'
  BY <1>2, <1>4, <1>5 DEF UpdatesInv, FieldOk
<1>7. ASSUME NEW d \in Calls, tenCall'[d].pc = "save" PROVE SnapshotOk(d)'
  <2>1. CASE d = c
    <3>1. \A f \in Fields[p] : FieldOk(t, p, f)'
      BY <1>6
    <3>2. QED BY SMTT(30), <1>1, <1>2, <1>3, <2>1, <3>1 DEF SnapshotOk, FieldOk
  <2>2. CASE d # c
    <3>1. tenCall'[d] = tenCall[d] /\ SnapshotOk(d) /\ tenCall[d].slug \in Slugs
          /\ tenCall[d].part \in Parts
      BY <1>3, <1>7, <2>2 DEF UpdatesInv, TenancyTypeOK
    <3>2. \A f \in Fields[tenCall[d].part] : FieldOk(tenCall[d].slug, tenCall[d].part, f)
      BY <3>1 DEF UpdatesInv
    <3>3. QED BY <1>2, <1>4, <1>5, <3>1, <3>2 DEF SnapshotOk, FieldOk
  <2>3. QED BY <2>1, <2>2
<1>8. ASSUME NEW b \in Calls, NEW d \in Calls, d \in tenCall'[b].seen PROVE tenCall'[d].pc = "done"
  <2>1. tenCall[d].pc = "done"
    BY <1>1, <1>3, <1>8 DEF UpdatesInv, Saved
  <2>2. QED BY <1>2, <1>3, <2>1
<1>9. QED BY <1>2, <1>6, <1>7, <1>8 DEF UpdatesInv

\* The document as read is stale only for saves that have not been seen, and the call itself
\* was not there for any of those to see.
LEMMA SavingUpdates ==
    ASSUME TenancyTypeOK, UpdatesInv, NEW c \in Calls, SaveDocument(c) PROVE UpdatesInv'
<1>1. PICK t \in Slugs, p \in Parts : t = tenCall[c].slug /\ p = tenCall[c].part
  BY DEF SaveDocument, TenancyTypeOK
<1>2. PICK dto, snap : dto = tenCall[c].dto /\ snap = tenCall[c].snap
  OBVIOUS
<1>3. /\ tenCall[c].pc = "save" /\ tenCall'[c].pc = "done"
      /\ tenCall'[c].slug = t /\ tenCall'[c].part = p /\ tenCall'[c].seen = tenCall[c].seen
      /\ \A d \in Calls \ {c} : tenCall'[d] = tenCall[d]
  BY <1>1, Becoming DEF SaveDocument, TenancyTypeOK, TenPc
<1>4. \E written \in SUBSET Fields[p] :
         /\ doc' = [doc EXCEPT ![t][p] = [f \in Fields[p] |->
                       IF f \in written
                       THEN IF f \in DOMAIN dto THEN dto[f] ELSE snap[f]
                       ELSE doc[t][p][f]]]
         /\ \A f \in Fields[p] \cap DOMAIN dto : f \notin written => dto[f] = snap[f]
  <2> DEFINE merged  == [f \in Fields[p] |-> IF f \in DOMAIN dto THEN dto[f] ELSE snap[f]]
             dirty   == {f \in Fields[p] : merged[f] # snap[f]}
             written == IF p \in Whole /\ dirty # {} THEN Fields[p] ELSE dirty
  <2>1. Merged(c) = merged
    BY <1>1, <1>2 DEF Merged
  <2> HIDE DEF merged
  <2>2. doc' = [doc EXCEPT ![t][p] = [f \in Fields[p] |->
                   IF f \in written THEN merged[f] ELSE doc[t][p][f]]]
    BY <1>1, <1>2, <2>1 DEF SaveDocument
  <2>3. [f \in Fields[p] |-> IF f \in written THEN merged[f] ELSE doc[t][p][f]]
        = [f \in Fields[p] |-> IF f \in written
                               THEN IF f \in DOMAIN dto THEN dto[f] ELSE snap[f]
                               ELSE doc[t][p][f]]
    BY DEF merged
  <2>4. written \in SUBSET Fields[p]
    OBVIOUS
  <2>5. \A f \in Fields[p] \cap DOMAIN dto : f \notin written => dto[f] = snap[f]
    BY DEF merged
  <2>6. QED BY <2>2, <2>3, <2>4, <2>5
<1>5. PICK written \in SUBSET Fields[p] :
         /\ doc' = [doc EXCEPT ![t][p] = [f \in Fields[p] |->
                       IF f \in written
                       THEN IF f \in DOMAIN dto THEN dto[f] ELSE snap[f]
                       ELSE doc[t][p][f]]]
         /\ \A f \in Fields[p] \cap DOMAIN dto : f \notin written => dto[f] = snap[f]
  BY <1>4
<1>6. /\ \A f \in Fields[p] : doc'[t][p][f] = IF f \in written
                                              THEN IF f \in DOMAIN dto THEN dto[f] ELSE snap[f]
                                              ELSE doc[t][p][f]
      /\ \A u \in Slugs, q \in Parts : u # t \/ q # p => doc'[u][q] = doc[u][q]
  BY <1>5 DEF TenancyTypeOK
<1>7. latest' = [latest EXCEPT ![t][p] = [f \in Fields[p] |->
                    IF f \in DOMAIN dto THEN [by |-> c, value |-> dto[f]] ELSE latest[t][p][f]]]
  BY <1>1, <1>2 DEF SaveDocument
<1>8. /\ latest' = [u \in Slugs |-> [q \in Parts |-> latest'[u][q]]]
      /\ \A f \in Fields[p] : latest'[t][p][f] = IF f \in DOMAIN dto
                                                 THEN [by |-> c, value |-> dto[f]]
                                                 ELSE latest[t][p][f]
      /\ \A u \in Slugs, q \in Parts : u # t \/ q # p => latest'[u][q] = latest[u][q]
  <2>1. PICK new : new = [f \in Fields[p] |->
                    IF f \in DOMAIN dto THEN [by |-> c, value |-> dto[f]] ELSE latest[t][p][f]]
    OBVIOUS
  <2>2. latest = [u \in Slugs |-> [q \in Parts |-> latest[u][q]]]
    BY DEF UpdatesInv
  <2>3. latest' = [u \in Slugs |-> [q \in Parts |-> IF u = t /\ q = p THEN new
                                                    ELSE latest[u][q]]]
    BY <1>7, <2>1, <2>2
  <2>4. QED BY <2>1, <2>3
<1>9. /\ \A d \in Calls : tenCall'[d].seen = tenCall[d].seen /\ c \notin tenCall[d].seen
      /\ c \in Saved(t, p)'
      /\ \A u, q : Saved(u, q) \subseteq Saved(u, q)' /\ c \notin Saved(u, q)
  BY <1>3 DEF UpdatesInv, Saved
<1>10. ASSUME NEW b \in Calls, NEW u, NEW q, Contested(b, u, q) PROVE Contested(b, u, q)'
  BY <1>9, <1>10 DEF Contested, Overlapped, Saved
<1>11. ASSUME NEW f \in Fields[p] PROVE FieldOk(t, p, f)'
  <2>1. FieldOk(t, p, f)
    BY DEF UpdatesInv
  <2>2. CASE f \in DOMAIN dto
    <3>0. latest'[t][p][f] = [by |-> c, value |-> dto[f]]
      BY <1>8, <2>2
    <3>1. latest'[t][p][f].by = c /\ latest'[t][p][f].value = dto[f]
      BY <3>0
    <3>2. ASSUME doc'[t][p][f] # dto[f] PROVE Contested(c, t, p)'
      <4>1. dto[f] = snap[f] /\ doc'[t][p][f] = doc[t][p][f]
        BY SMTT(30), <1>5, <1>6, <2>2, <3>2
      <4>2. doc[t][p] # snap
        BY <3>2, <4>1
      <4>3. PICK d \in Saved(t, p) : d \notin tenCall[c].seen
        BY <1>1, <1>2, <1>3, <4>2 DEF UpdatesInv, SnapshotOk
      <4>4. QED BY <1>9, <4>3 DEF Contested, Overlapped, Saved
    <3>3. QED BY <1>9, <3>1, <3>2 DEF FieldOk
  <2>3. CASE f \notin DOMAIN dto
    <3>1. latest'[t][p][f] = latest[t][p][f]
      BY <1>8, <2>3
    <3>2. CASE f \notin written
      BY <1>6, <1>9, <1>10, <2>1, <3>1, <3>2 DEF FieldOk
    <3>3. CASE f \in written
      <4>1. doc'[t][p][f] = snap[f]
        BY <1>6, <2>3, <3>3
      <4>2. PICK last : last = latest[t][p][f]
        BY ZenonT(60)
      <4>3. snap[f] # last.value =>
               last.by \in Calls /\ (last.by \notin tenCall[c].seen \/ Contested(last.by, t, p))
        BY <1>1, <1>2, <1>3, <4>2 DEF UpdatesInv, SnapshotOk
      <4>4. last.by \in Calls => last.by \in Saved(t, p)
        BY <2>1, <4>2 DEF FieldOk
      <4>5. ASSUME last.by \in Calls, last.by \notin tenCall[c].seen
            PROVE  Contested(last.by, t, p)'
        BY <1>9, <4>4, <4>5 DEF Contested, Overlapped
      <4>6. QED BY <1>9, <1>10, <3>1, <4>1, <4>2, <4>3, <4>4, <4>5 DEF FieldOk
    <3>4. QED BY <3>2, <3>3
  <2>4. QED BY <2>2, <2>3
<1>12. ASSUME NEW u \in Slugs, NEW q \in Parts, NEW f \in Fields[q] PROVE FieldOk(u, q, f)'
  <2>1. CASE u = t /\ q = p
    BY <1>11, <2>1
  <2>2. CASE u # t \/ q # p
    <3>1. FieldOk(u, q, f) /\ doc'[u][q] = doc[u][q] /\ latest'[u][q] = latest[u][q]
      BY <1>6, <1>8, <2>2 DEF UpdatesInv
    <3>2. QED BY <1>9, <1>10, <3>1 DEF FieldOk
  <2>3. QED BY <2>1, <2>2
<1>13. ASSUME NEW d \in Calls, tenCall'[d].pc = "save" PROVE SnapshotOk(d)'
  <2>1. /\ d # c /\ tenCall'[d] = tenCall[d] /\ SnapshotOk(d)
        /\ tenCall[d].slug \in Slugs /\ tenCall[d].part \in Parts
    BY <1>3, <1>13 DEF UpdatesInv, TenancyTypeOK
  <2>2. CASE tenCall[d].slug = t /\ tenCall[d].part = p
    <3>1. ~(Saved(t, p)' \subseteq tenCall[d].seen)
      BY <1>9
    <3>2. ASSUME NEW f \in Fields[p], tenCall[d].snap[f] # latest'[t][p][f].value
          PROVE  /\ latest'[t][p][f].by \in Calls
                 /\ \/ latest'[t][p][f].by \notin tenCall[d].seen
                    \/ Contested(latest[t][p][f].by, t, p)' /\ latest'[t][p][f] = latest[t][p][f]
      <4>1. CASE f \in DOMAIN dto
        <5>1. latest'[t][p][f] = [by |-> c, value |-> dto[f]]
          BY <1>8, <4>1
        <5>2. latest'[t][p][f].by = c
          BY <5>1
        <5>3. QED BY <1>9, <5>2
      <4>2. CASE f \notin DOMAIN dto
        <5>1. latest'[t][p][f] = latest[t][p][f]
          BY <1>8, <4>2
        <5>2. QED BY <1>10, <2>1, <2>2, <3>2, <5>1 DEF SnapshotOk
      <4>3. QED BY <4>1, <4>2
    <3>3. QED BY <2>1, <2>2, <3>1, <3>2 DEF SnapshotOk
  <2>3. CASE tenCall[d].slug # t \/ tenCall[d].part # p
    <3>1. PICK u \in Slugs, q \in Parts : u = tenCall[d].slug /\ q = tenCall[d].part
      BY <2>1
    <3>2. doc'[u][q] = doc[u][q] /\ latest'[u][q] = latest[u][q]
      BY <1>6, <1>8, <2>3, <3>1
    <3>3. QED BY <1>9, <1>10, <2>1, <3>1, <3>2 DEF SnapshotOk
  <2>4. QED BY <2>2, <2>3
<1>14. ASSUME NEW b \in Calls, NEW d \in Calls, d \in tenCall'[b].seen
       PROVE  tenCall'[d].pc = "done"
  BY <1>3, <1>9, <1>14 DEF UpdatesInv
<1>15. QED BY <1>8, <1>12, <1>13, <1>14 DEF UpdatesInv

LEMMA UpdatesStep ==
    ASSUME TenancyTypeOK, UpdatesInv, [PlatformNext]_platformVars PROVE UpdatesInv'
<1> USE DEF docVars
<1>1. CASE UNCHANGED tenancyVars
  <2>1. UNCHANGED <<doc, latest, tenCall>>
    BY <1>1 DEF tenancyVars
  <2>2. /\ \A t, p : Saved(t, p)' = Saved(t, p)
        /\ \A c, d : Overlapped(c, d)' <=> Overlapped(c, d)
    BY <2>1 DEF Saved, Overlapped
  <2>3. \A c, t, p : Contested(c, t, p)' <=> Contested(c, t, p)
    BY <2>2 DEF Contested
  <2>4. ASSUME NEW t, NEW p, NEW f, FieldOk(t, p, f) PROVE FieldOk(t, p, f)'
    BY <2>1, <2>2, <2>3, <2>4 DEF FieldOk
  <2>5. ASSUME NEW c, SnapshotOk(c) PROVE SnapshotOk(c)'
    BY <2>1, <2>2, <2>3, <2>5 DEF SnapshotOk
  <2>6. QED BY <2>1, <2>4, <2>5 DEF UpdatesInv
<1>2. ASSUME NEW c \in Calls,
             \/ InsertTenant(c) \/ InsertSubscription(c) \/ InsertMainBranch(c)
             \/ BootstrapSubscription(c) \/ LoseTenantCall(c)
      PROVE  UpdatesInv'
  <2>1. PICK pc \in TenPc \ {"save"} : Becomes(c, pc)
    BY <1>2 DEF InsertTenant, InsertSubscription, InsertMainBranch, BootstrapSubscription,
       LoseTenantCall, TenPc
  <2>2. tenCall[c].pc # "done" /\ UNCHANGED <<doc, latest>>
    BY <1>2 DEF InsertTenant, InsertSubscription, InsertMainBranch, BootstrapSubscription,
       LoseTenantCall
  <2>3. QED BY QuietUpdates, Becoming, <2>1, <2>2 DEF TenancyTypeOK
<1>3. ASSUME NEW c \in Calls, NEW t \in Slugs, FindSlug(c, t) \/ FindSubscription(c, t)
      PROVE  UpdatesInv'
  <2>1. PICK pc \in {"denied", "insert", "done", "bootstrap"} :
           tenCall' = [tenCall EXCEPT ![c].slug = t, ![c].pc = pc]
    BY <1>3 DEF FindSlug, FindSubscription
  <2>2. /\ \A d \in Calls \ {c} : tenCall'[d] = tenCall[d]
        /\ tenCall'[c].pc = pc /\ tenCall'[c].seen = tenCall[c].seen
    <3> DEFINE dtos == (UNION {Dtos(p) : p \in Parts}) \cup {None}
               snaps == (UNION {Document(p) : p \in Parts}) \cup {None}
    <3>1. tenCall \in [Calls -> [pc: TenPc, slug: Slugs \cup {None}, part: Parts \cup {None},
                                 dto: dtos, snap: snaps, seen: SUBSET Calls]]
      BY DEF TenancyTypeOK, TenCall
    <3> HIDE DEF dtos, snaps
    <3>2. QED BY <2>1, <3>1
  <2>3. tenCall[c].pc = "idle" /\ UNCHANGED <<doc, latest>>
    BY <1>3 DEF FindSlug, FindSubscription
  <2>4. QED BY QuietUpdates, <2>2, <2>3
<1>4. QED BY TenancySteps, FindingUpdates, SavingUpdates, <1>1, <1>2, <1>3
          DEF TenantStep, BeginTenantCall

\* A field holds what the last save that names it asked for, unless another save of the
\* document overlapped that one (tenants/service.ts:84-128, subscriptions/service.ts:26-45).
THEOREM UpdatesKept == PlatformSpec => []UpdatesLostOnlyOverlap
<1>1. PlatformInit => TenantsInv /\ UpdatesInv
  BY TenantsInit, UpdatesInit DEF PlatformInit
<1>2. TenantsInv /\ UpdatesInv /\ [PlatformNext]_platformVars => TenantsInv' /\ UpdatesInv'
  BY TenantsStep, UpdatesStep DEF TenantsInv
<1>3. UpdatesInv => UpdatesLostOnlyOverlap
  BY DEF UpdatesInv, FieldOk, Contested, UpdatesLostOnlyOverlap
<1>4. QED BY <1>1, <1>2, <1>3, PTL DEF PlatformSpec
=============================================================================
