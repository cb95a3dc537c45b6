-------------------------- MODULE RequestScopeCases --------------------------
(***************************************************************************)
(* RequestScope over a bounded set of requests, against a description of    *)
(* each answer that does not follow the order of the code.                 *)
(***************************************************************************)
EXTENDS RequestScope, Integers, Sequences

CONSTANTS own, other      \* two tenants; other is suspended

Ids == {own, other, "ghost", "bad", Empty, Undef}

UserOf(role, t) == [role |-> role, tenantId |-> t]
TokenOf(user)   == [valid |-> TRUE, revoked |-> FALSE, user |-> user]

Bearers == {Undef, TokenOf(UserOf("owner", own)), TokenOf(UserOf("kitchen", own)),
            TokenOf(UserOf("super_admin", Undef)),
            [TokenOf(UserOf("owner", own)) EXCEPT !.revoked = TRUE]}

Requests ==
    [bearer : Bearers, cookie : {Undef, TokenOf(UserOf("cashier", other))},
     mutating : BOOLEAN, targetHeader : {Undef, Empty, other}, tenantHeader : {Undef, own},
     bodyId : Ids, queryId : {Undef, other, "ghost"},
     slugHeader : {Undef}, bodySlug : {Undef, Empty}, querySlug : {Undef, "slug", "none"},
     param : {Undef, own, other}, channel : {"DINE_IN", "TAKEAWAY"}]

Roles == {"owner", "manager"}

\* The ids a request may name its tenant by, the one that counts first.
NamedIds(req, headers) ==
    headers \o (IF req.mutating THEN <<req.bodyId>> ELSE <<>>) \o <<req.queryId>>

\* The first id that was sent decides. An empty one counts as sent, but names nothing.
Decides(ids, id) == \E i \in DOMAIN ids : ids[i] = id /\ \A j \in 1 .. i - 1 : ids[j] = Undef

\* A super admin works for a tenant that exists, or for none.
SuperAdminScope ==
    \A req \in Requests :
        LET user == AuthMiddleware(req)
            scope == StaffRoute(req, Roles)
            sent == IF req.targetHeader = Empty THEN <<>> ELSE <<req.targetHeader>>
        IN  user # Undef /\ user.role = "super_admin" /\ scope.status = "next"
            => /\ scope.tenantId \in Tenants \cup {Undef}
               /\ scope.tenantId # Undef =>
                     Decides(NamedIds(req, sent), scope.tenantId) \/ req.querySlug = "slug"

\* A token that was revoked or is no token at all opens no staff route, whatever its claims.
NoTokenNoStaff ==
    \A req \in Requests :
        AuthMiddleware(req) = Undef => StaffRoute(req, Roles).status = "401"

\* The history of a table without a token: orders taken at tables, of a tenant served.
GuestHistory ==
    \A req \in Requests :
        LET answer == HistoryRoute(req)
        IN  answer.status = "next" =>
                \/ /\ AuthMiddleware(req) = Undef
                   /\ req.channel = "DINE_IN"
                   /\ answer.tenantId \in Tenants \ Suspended
                \/ /\ AuthMiddleware(req) # Undef
                   /\ answer.tenantId = AuthMiddleware(req).tenantId

\* The theorems of RequestScopeProofs, on these requests.
ScopeTheorems ==
    \A req \in Requests :
        LET user == AuthMiddleware(req)
        IN  /\ PublicRoute(req).status = "next" =>
                   PublicRoute(req).tenantId \in Tenants \ Suspended
            /\ user # Undef /\ user.role # "super_admin" =>
                   \A scope \in {StaffRoute(req, Roles), TenantRoute(req, Roles)} :
                      scope.status = "next" => scope.tenantId = user.tenantId

Docs == {[_id |-> i, tenantId |-> t, n |-> 0] : i \in 1..2, t \in {own, other}}

Filters == {[k \in {} |-> {}], [tenantId |-> {other}], [_id |-> {1}, tenantId |-> {other}]}

\* A filter that names another tenant reads and writes the own one all the same.
WritesInTenant ==
    \A filter \in Filters :
        /\ Find(Docs, Undef, filter) = {}
        /\ Find(Docs, own, filter) # {}
        /\ \A d \in Find(Docs, own, filter) : d.tenantId = own
        /\ \A after \in UpdateOne(Docs, own, filter, [n |-> 1])
                 \cup {UpdateMany(Docs, own, filter, [n |-> 1]), DeleteMany(Docs, own, filter)} :
              {d \in after : d.tenantId = other} = {d \in Docs : d.tenantId = other}
        /\ Create(Docs, own, [_id |-> 3, tenantId |-> other, n |-> 0])
              = Docs \cup {[_id |-> 3, tenantId |-> own, n |-> 0]}

\* tenantQuery does not look into an update: one that named a tenant would give the document
\* away.  No route's schema lets one through.
UpdateMayGiveAway ==
    {d \in UpdateMany(Docs, own, [_id |-> {1}], [tenantId |-> other]) : d.tenantId = own}
        = {[_id |-> 2, tenantId |-> own, n |-> 0]}

ScopeCasesHold ==
    SuperAdminScope /\ NoTokenNoStaff /\ GuestHistory /\ ScopeTheorems /\ WritesInTenant
    /\ UpdateMayGiveAway
=============================================================================
