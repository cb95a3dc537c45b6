-------------------------- MODULE RequestScopeProofs --------------------------
(***************************************************************************)
(* Tenant isolation, for any tenants, requests and documents: the tenant of *)
(* a staff request is the one of its token, the tenant of a public request  *)
(* is one that is served, and a query never leaves its tenant.              *)
(***************************************************************************)
EXTENDS RequestScope, TLAPS

\* The user schema requires a tenant of everyone but a super admin.
StaffUser(user) ==
    /\ user # Undef
    /\ user.role # "super_admin"
    /\ user.tenantId \notin Falsy

-----------------------------------------------------------------------------
(* The tenant of a request.                                                *)

LEMMA NamedTenantPasses ==
    ASSUME NEW id, NEW slug, NEW code, code # "next", NEW blocked,
           NamedTenant(id, slug, code, blocked).status = "next"
    PROVE  NamedTenant(id, slug, code, blocked).tenantId \in Tenants \ blocked
<1> DEFINE named == IF id \notin Falsy THEN Tenants \cap {id}
                    ELSE {t \in Tenants : SlugOf[t] = slug}
<1>1. /\ NamedTenant(id, slug, code, blocked) = Passes(CHOOSE t \in named : TRUE)
      /\ named # {}
      /\ named \cap blocked = {}
  BY DEF NamedTenant, Answers, Passes
<1>2. (CHOOSE t \in named : TRUE) \in named
  BY <1>1
<1>3. named \subseteq Tenants
  OBVIOUS
<1>4. QED BY <1>1, <1>2, <1>3 DEF Passes

\* No header, body or query changes the tenant of a member of staff.
LEMMA StaffTenant ==
    ASSUME NEW req, NEW user, StaffUser(user)
    PROVE  TenantMiddleware(req, user) = Passes(user.tenantId)
BY DEF TenantMiddleware, StaffUser

\* The tenant a staff route works for is the one of the token that was presented, whatever
\* else the request says: headers, body and query cannot lead a member of staff elsewhere.
THEOREM StaffScope ==
    ASSUME NEW req, NEW roles, StaffUser(AuthMiddleware(req)),
           StaffRoute(req, roles).status = "next"
    PROVE  /\ StaffRoute(req, roles).tenantId = AuthMiddleware(req).tenantId
           /\ AuthMiddleware(req).role \in roles
<1> DEFINE user == AuthMiddleware(req)
<1>1. StaffRoute(req, roles) = RbacMiddleware(roles, user, user.tenantId)
  BY StaffTenant DEF StaffRoute, Passes, StaffUser
<1>2. QED BY <1>1 DEF RbacMiddleware, StaffUser, Passes, Answers

\* A public request is served for a tenant that exists and is not suspended, or not at all.
THEOREM PublicScope ==
    ASSUME NEW req, PublicRoute(req).status = "next"
    PROVE  PublicRoute(req).tenantId \in Tenants \ Suspended
<1> DEFINE target == PublicTarget(req)
<1>1. PublicRoute(req) = NamedTenant(target.id, target.slug, "403", Suspended)
  BY DEF PublicRoute, TenantMiddleware, Answers
<1>2. QED BY <1>1, NamedTenantPasses

\* The settings route reads and changes the own tenant of a member of staff only, although
\* it goes by the id in the path and not through tenantQuery.
THEOREM SettingsScope ==
    ASSUME NEW req, NEW roles, StaffUser(AuthMiddleware(req)), req.param # Empty,
           TenantRoute(req, roles).status = "next"
    PROVE  TenantRoute(req, roles).tenantId = AuthMiddleware(req).tenantId
<1> DEFINE user == AuthMiddleware(req)
           scope == StaffRoute(req, roles)
<1>1. scope.status = "next"
  BY DEF TenantRoute
<1>2. scope.tenantId = user.tenantId
  BY <1>1, StaffScope
<1>3. req.param = Undef \/ req.param = scope.tenantId
  BY <1>1, <1>2 DEF TenantRoute, StaffUser, Falsy, Answers
<1>4. QED BY <1>1, <1>2, <1>3 DEF TenantRoute, StaffUser, Falsy, Answers, Passes, Given

-----------------------------------------------------------------------------
(* What a query reaches.                                                   *)

\* A query finds documents of its tenant only, whatever tenant the filter names.
LEMMA FindInTenant ==
    ASSUME NEW docs, NEW t, NEW filter, NEW d \in Find(docs, t, filter)
    PROVE  /\ d \in docs
           /\ "tenantId" \in DOMAIN d /\ d["tenantId"] = t
           /\ t \notin Falsy
<1>1. t \notin Falsy /\ d \in docs /\ Matches(d, ScopeFilter(t, filter))
  BY DEF Find
<1>2. "tenantId" \in DOMAIN ScopeFilter(t, filter)
  BY DEF ScopeFilter
<1>3. "tenantId" \in DOMAIN d /\ d["tenantId"] \in ScopeFilter(t, filter)["tenantId"]
  BY <1>1, <1>2 DEF Matches
<1>4. ScopeFilter(t, filter)["tenantId"] = {t}
  BY DEF ScopeFilter
<1>5. QED BY <1>1, <1>3, <1>4

\* The documents of the other tenants.
Others(docs, t) == {d \in docs : d["tenantId"] # t}

\* tenantQuery hands an update on as it is.  Those of the routes name no tenant: their
\* validation schemas have no such field and drop what they do not have.
NamesNoTenant(update) == "tenantId" \notin DOMAIN update

\* An update that names no tenant leaves a document with its own.
LEMMA UpdatedInTenant ==
    ASSUME NEW docs, NEW t, NEW filter, NEW update, NamesNoTenant(update),
           NEW d \in Find(docs, t, filter)
    PROVE  Updated(d, update)["tenantId"] = t
BY FindInTenant DEF Updated, NamesNoTenant

\* After a write the documents of the other tenants are those there were: none is changed,
\* removed or added, whichever tenant the filter or the created data names, as long as an
\* update names none.
THEOREM WritesStayInTenant ==
    ASSUME NEW docs, NEW t, NEW filter, NEW update, NamesNoTenant(update), NEW data
    PROVE  /\ Others(UpdateMany(docs, t, filter, update), t) = Others(docs, t)
           /\ \A after \in UpdateOne(docs, t, filter, update) :
                 Others(after, t) = Others(docs, t)
           /\ Others(DeleteMany(docs, t, filter), t) = Others(docs, t)
           /\ Others(Create(docs, t, data), t) = Others(docs, t)
<1> DEFINE found == Find(docs, t, filter)
<1>1. \A d \in found : d["tenantId"] = t /\ Updated(d, update)["tenantId"] = t
  BY FindInTenant, UpdatedInTenant
<1>2. Others(UpdateMany(docs, t, filter, update), t) = Others(docs, t)
  BY <1>1 DEF Others, UpdateMany
<1>3. ASSUME NEW after \in UpdateOne(docs, t, filter, update)
      PROVE  Others(after, t) = Others(docs, t)
  BY <1>1, <1>3 DEF Others, UpdateOne
<1>4. Others(DeleteMany(docs, t, filter), t) = Others(docs, t)
  BY <1>1 DEF Others, DeleteMany
<1>5. Others(Create(docs, t, data), t) = Others(docs, t)
  <2> DEFINE new == [k \in DOMAIN data \cup {"tenantId"} |->
                        IF k = "tenantId" THEN t ELSE data[k]]
  <2>1. new["tenantId"] = t
    OBVIOUS
  <2>2. Create(docs, t, data) \in {docs, docs \cup {new}}
    BY DEF Create
  <2> HIDE DEF new
  <2>3. QED BY <2>1, <2>2 DEF Others
<1>6. QED BY <1>2, <1>3, <1>4, <1>5

\* Whatever an update names, the documents of the other tenants stay: one that names a tenant
\* could only give own documents away.
THEOREM OthersStay ==
    ASSUME NEW docs, NEW t, NEW filter, NEW update
    PROVE  /\ Others(docs, t) \subseteq UpdateMany(docs, t, filter, update)
           /\ \A after \in UpdateOne(docs, t, filter, update) : Others(docs, t) \subseteq after
<1>1. ASSUME NEW d \in Others(docs, t) PROVE d \in docs /\ d \notin Find(docs, t, filter)
  BY FindInTenant DEF Others
<1>2. Others(docs, t) \subseteq UpdateMany(docs, t, filter, update)
  BY <1>1 DEF UpdateMany
<1>3. ASSUME NEW after \in UpdateOne(docs, t, filter, update)
      PROVE  Others(docs, t) \subseteq after
  BY <1>1, <1>3 DEF UpdateOne
<1>4. QED BY <1>2, <1>3

\* What a staff route reads are documents of the tenant of the token, and what it writes
\* leaves the documents of all other tenants as they were, and adds none to them: the two
\* halves, the tenant of the request and the query, put together.
THEOREM StaffStayInTenant ==
    ASSUME NEW req, NEW roles, StaffUser(AuthMiddleware(req)),
           StaffRoute(req, roles).status = "next",
           NEW docs, NEW filter, NEW update, NamesNoTenant(update), NEW data
    PROVE  LET own == AuthMiddleware(req).tenantId
               t   == StaffRoute(req, roles).tenantId
           IN  /\ \A d \in Find(docs, t, filter) : d["tenantId"] = own
               /\ \A after \in UpdateOne(docs, t, filter, update)
                       \cup {UpdateMany(docs, t, filter, update),
                             DeleteMany(docs, t, filter), Create(docs, t, data)} :
                     Others(after, own) = Others(docs, own)
<1> DEFINE t == StaffRoute(req, roles).tenantId
<1>1. t = AuthMiddleware(req).tenantId
  BY StaffScope
<1> HIDE DEF t
<1>2. \A d \in Find(docs, t, filter) : d["tenantId"] = t
  BY FindInTenant
<1>3. \A after \in UpdateOne(docs, t, filter, update)
            \cup {UpdateMany(docs, t, filter, update), DeleteMany(docs, t, filter),
                  Create(docs, t, data)} : Others(after, t) = Others(docs, t)
  BY WritesStayInTenant
<1>4. QED BY <1>1, <1>2, <1>3 DEF t
=============================================================================
