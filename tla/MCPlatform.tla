------------------------------ MODULE MCPlatform ------------------------------
(***************************************************************************)
(* A small instance of Platform: a tenant and one to come, an owner who is  *)
(* signed in, a super admin with the same email, and a cashier to register. *)
(***************************************************************************)
EXTENDS Platform, TLC

CONSTANTS c1, c2, c3, ta, tb, owner, admin, cashier, mail, mail2, p1, p2, x, y

TheTenants   == owner :> ta @@ admin :> None @@ cashier :> ta
TheEmails    == owner :> mail @@ admin :> mail @@ cashier :> mail2
ThePasswords == owner :> p1 @@ admin :> p1 @@ cashier :> None

\* One chatbot setting or the other, the currency, a plan and another with its status.
TheUpdates == [chatbot      |-> {"offlineMessage" :> y, "aiModelPreference" :> y},
               settings     |-> {"currency" :> y},
               subscription |-> {"plan" :> y, "plan" :> x @@ "status" :> y}]

\* Requests are alike but for their names.
PlatformSymmetry == Permutations(Calls)

\* The tenant of a request, on the requests of RequestScopeCases: tb is suspended.
Scopes == INSTANCE RequestScopeCases WITH
    Tenants <- {ta, tb}, SlugOf <- (ta :> "slug" @@ tb :> "b"), Suspended <- {tb},
    Malformed <- {"bad"}, Undef <- None, Empty <- "", own <- ta, other <- tb

ASSUME TenantScopes == Scopes!ScopeCasesHold
=============================================================================
