----------------------------- MODULE RequestScope -----------------------------
(***************************************************************************)
(* Whose data a request reaches: the middleware that decides the tenant of  *)
(* a request, from its token, headers, body and query, and tenantQuery,     *)
(* through which the repositories read and write.  Everything here is       *)
(* decided within one request, so the module has operators and no state.    *)
(***************************************************************************)
CONSTANTS
    Tenants,      \* the ids of the tenants that exist
    SlugOf,       \* [Tenants -> slug]
    Suspended,    \* tenants whose status is 'suspended'
    Malformed,    \* strings that are no ObjectId: looking one up throws
    Undef,        \* undefined
    Empty         \* the empty string, which a caller may send for any of the values

Falsy == {Undef, Empty}
Or(a, b)    == IF a \in Falsy THEN b ELSE a        \* a || b
Given(a, b) == IF a = Undef THEN b ELSE a          \* a ?? b

\* A header is looked up in two spellings with ||, of which Node sends one in lower case
\* only: an empty header counts as none, unlike an empty value of a body or query.
Header(value) == Or(value, Undef)

\* What a middleware does with a request: it answers it, or passes it on with a tenant.
Passes(t)    == [status |-> "next", tenantId |-> t]
Answers(code) == [status |-> code, tenantId |-> Undef]

-----------------------------------------------------------------------------
(* authMiddleware and optionalAuthMiddleware                               *)

\* A Bearer header hides the cookie. A token is [valid, revoked, user].
Presented(req) == Given(req.bearer, req.cookie)

AuthMiddleware(req) ==
    LET token == Presented(req)
    IN  IF token = Undef \/ ~token.valid \/ token.revoked THEN Undef ELSE token.user

-----------------------------------------------------------------------------
(* tenantMiddleware                                                        *)

\* A tenant named by id, and by slug when no id is given. An unknown one is answered with
\* code; findById throws at a malformed id, and the error handler answers 500.
NamedTenant(id, slug, code, blocked) ==
    LET named == IF id \notin Falsy THEN Tenants \cap {id}
                 ELSE {t \in Tenants : SlugOf[t] = slug}
    IN  IF id \in Malformed THEN Answers("500")
        ELSE IF named = {} \/ named \cap blocked # {} THEN Answers(code)
        ELSE Passes(CHOOSE t \in named : TRUE)

\* The body counts in requests that change something only.
FromBody(req, value) == IF req.mutating THEN value ELSE Undef

\* A super admin may name any tenant, a suspended one too.
SuperAdminTarget(req) ==
    [id   |-> Given(Header(req.targetHeader), Given(FromBody(req, req.bodyId), req.queryId)),
     slug |-> Given(FromBody(req, req.bodySlug), req.querySlug)]

PublicTarget(req) ==
    [id   |-> Given(Or(req.tenantHeader, Header(req.targetHeader)),
                    Given(FromBody(req, req.bodyId), req.queryId)),
     slug |-> Given(Header(req.slugHeader), Given(FromBody(req, req.bodySlug), req.querySlug))]

TenantMiddleware(req, user) ==
    IF user = Undef
    THEN LET target == PublicTarget(req)
         IN  IF {target.id, target.slug} \subseteq Falsy THEN Answers("403")
             ELSE NamedTenant(target.id, target.slug, "403", Suspended)
    ELSE LET target == SuperAdminTarget(req)
         IN  IF user.role = "super_admin" /\ ~({target.id, target.slug} \subseteq Falsy)
             THEN NamedTenant(target.id, target.slug, "404", {})
             ELSE Passes(user.tenantId)

-----------------------------------------------------------------------------
(* rbacMiddleware, and the chains of the routes                            *)

RbacMiddleware(roles, user, tenantId) ==
    IF user = Undef THEN Answers("401")
    ELSE IF user.role = "super_admin" THEN Passes(tenantId)
    ELSE IF user.role \notin roles THEN Answers("403")
    ELSE IF tenantId \notin Falsy /\ user.tenantId # tenantId THEN Answers("403")
    ELSE Passes(tenantId)

\* router.use(authMiddleware, tenantMiddleware, rbacMiddleware(roles))
StaffRoute(req, roles) ==
    LET user  == AuthMiddleware(req)
        scope == TenantMiddleware(req, user)
    IN  IF user = Undef THEN Answers("401")
        ELSE IF scope.status # "next" THEN scope
        ELSE RbacMiddleware(roles, user, scope.tenantId)

\* Routes without authMiddleware: a token, if any, is not looked at.
PublicRoute(req) == TenantMiddleware(req, Undef)

\* optionalAuthMiddleware, tenantMiddleware: a bad token counts for none. The order history
\* of a table is open to guests for orders taken at the table, and to three roles.
HistoryRoute(req) ==
    LET user  == AuthMiddleware(req)
        scope == TenantMiddleware(req, user)
    IN  IF scope.status # "next" THEN scope
        ELSE IF user = Undef /\ req.channel # "DINE_IN" THEN Answers("401")
        ELSE IF user # Undef /\ user.role \notin {"owner", "manager", "cashier"}
             THEN Answers("403")
        ELSE scope

\* GET /tenants/:id, PATCH /tenants/:id/settings and PATCH /tenants/settings: the tenant
\* they read or change. These go to the tenant itself and not through tenantQuery.
TenantRoute(req, roles) ==
    LET user  == AuthMiddleware(req)
        scope == StaffRoute(req, roles)
        named == Given(req.param, scope.tenantId)
    IN  IF scope.status # "next" THEN scope
        ELSE IF /\ user.role # "super_admin" /\ scope.tenantId \notin Falsy
                /\ req.param \notin Falsy /\ req.param # scope.tenantId
             THEN Answers("403")
        ELSE IF named \in Falsy THEN Answers("400")
        ELSE Passes(named)

-----------------------------------------------------------------------------
(* tenantQuery. A document is a function of its fields; a filter gives, for *)
(* some fields, the values it accepts.                                      *)

\* The tenant takes the place of a tenant the caller's filter may name.
ScopeFilter(t, filter) ==
    [k \in DOMAIN filter \cup {"tenantId"} |-> IF k = "tenantId" THEN {t} ELSE filter[k]]

Matches(doc, filter) == \A k \in DOMAIN filter : k \in DOMAIN doc /\ doc[k] \in filter[k]

\* Without a tenant the query throws before it reads: the error handler answers 403.
Find(docs, t, filter) ==
    IF t \in Falsy THEN {} ELSE {d \in docs : Matches(d, ScopeFilter(t, filter))}

Updated(doc, update) ==
    [k \in DOMAIN doc \cup DOMAIN update |-> IF k \in DOMAIN update THEN update[k] ELSE doc[k]]

UpdateMany(docs, t, filter, update) ==
    LET found == Find(docs, t, filter)
    IN  (docs \ found) \cup {Updated(d, update) : d \in found}

DeleteMany(docs, t, filter) == docs \ Find(docs, t, filter)

\* One of the documents found, if any: which one is MongoDB's choice.
UpdateOne(docs, t, filter, update) ==
    LET found == Find(docs, t, filter)
    IN  IF found = {} THEN {docs} ELSE {(docs \ {d}) \cup {Updated(d, update)} : d \in found}

\* The tenant takes the place of one the data may name.
Create(docs, t, data) ==
    IF t \in Falsy THEN docs
    ELSE docs \cup {[k \in DOMAIN data \cup {"tenantId"} |->
                        IF k = "tenantId" THEN t ELSE data[k]]}
=============================================================================
