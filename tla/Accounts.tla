------------------------------ MODULE Accounts ------------------------------
(***************************************************************************)
(* Accounts and their sessions: modules/auth.  Users and password hashes    *)
(* live in MongoDB; everything that expires lives in the cache:             *)
(*                                                                          *)
(*   refresh_token:{user}       the one refresh token of a user             *)
(*   blacklist_token:{hash}     tokens that were logged out                 *)
(*   otp:forgot:{email}         the code mailed last, and for which user    *)
(*   otp_rate:{email}           how many were mailed in this hour           *)
(*   reset_token:{token}        grants to set a new password                *)
(*                                                                          *)
(* A request runs one action per await, with the others between any two:    *)
(*                                                                          *)
(*   login     idle -> save -> store -> done                                *)
(*   refresh   idle -> user -> store -> done                                *)
(*   register  idle -> [authed] -> create -> store -> done                  *)
(*   logout    idle -> del -> blacklist -> done                             *)
(*   change    idle -> authed -> savePw -> del -> blacklist -> done         *)
(*   forgot    idle -> rate -> setCode -> setRate -> mail -> done           *)
(*   verify    idle -> dropCode -> grant -> done                            *)
(*   reset     idle -> savePw -> dropGrant -> del -> done                   *)
(*                                                                          *)
(* A token is a JWT: its payload and the second it was signed in.  Two of   *)
(* one user signed in one second are the same string, so a token is named   *)
(* by its user and that second; access and refresh token of a pair share    *)
(* it.  A code is named by the request that drew it, a password stands for  *)
(* its hash.                                                                *)
(***************************************************************************)
EXTENDS Tenancy

CONSTANTS Users,        \* accounts that exist or may be opened
          TenantOf,     \* [Users -> tenant, None for a super admin]
          EmailOf,      \* [Users -> email]; no two users share tenant and email
          Staff,        \* users whose role is not owner: registerStaff makes only these
          OldPassword,  \* [Users -> password at the start, None if not registered]
          SignedIn,     \* users with a session of second 0 at the start
          Passwords,
          OtpLimit,     \* 3: mails an hour
          MaxSeconds    \* bound on the clock

Emails  == {EmailOf[u] : u \in Users}
Seconds == 0 .. MaxSeconds
Admins  == {u \in Users : TenantOf[u] = None}

ASSUME AccountsAssumption ==
    /\ TenantOf \in [Users -> Slugs \cup {None}]
    /\ \A u, v \in Users : TenantOf[u] = TenantOf[v] /\ EmailOf[u] = EmailOf[v] => u = v
    /\ OldPassword \in [Users -> Passwords \cup {None}]
    /\ None \notin Users \cup Passwords \cup Emails \cup Seconds
    /\ Staff \subseteq Users \ Admins
    /\ SignedIn \subseteq {u \in Users : OldPassword[u] # None}
    /\ OtpLimit \in Nat /\ MaxSeconds \in Nat
    /\ Calls \cap (Users \cup (Users \X Seconds)) = {}   \* no code is a user or a grant

VARIABLES password,    \* [user -> User.passwordHash, None when there is no such user]
          refreshKey,  \* [user -> second of the stored refresh token, None when absent]
          blacklist,   \* <<user, second, kind of token>>
          otpKey,      \* [email -> the request whose code it holds, None when absent]
          otpRate,     \* [email -> the counter, 0 when absent]
          resetKeys,   \* <<user, second>>
          now,         \* seconds
          authCall,    \* [call -> its program counter and locals]
          issued,      \* history: <<user, second>> of the token pairs answered
          chain,       \* history: [user -> the logins, registrations and refreshes that
                       \* the stored token descends from, or the user itself for the
                       \* session it had at the start]
          chainPw,     \* history: [user -> the password that session was opened with]
          signedOut,   \* history: members of the chains that a deletion ended
          overtaken,   \* history: calls past their check when their user's key was deleted
          unswept,     \* history: users whose password change died before the deletion
          mailed,      \* history: <<request, user>> of the codes mailed
          granted,     \* history: <<user, second>> of the grants answered
          proved,      \* history: <<request, user, password>> of the compares that matched
          spent,       \* history: codes and grants a finished use deleted
          late,        \* history: calls that read a code or a grant already spent
          counted      \* history: [email -> requests this window has counted]

keyVars  == <<refreshKey, blacklist>>
codeVars == <<otpKey, otpRate, resetKeys>>
chainVars == <<issued, chain, chainPw, signedOut, overtaken, unswept>>
grantVars == <<mailed, granted, proved, spent, late, counted>>
accountVars == <<password, keyVars, codeVars, now, authCall, chainVars, grantVars>>

AuthPc == {"idle", "save", "user", "store", "authed", "create", "del", "blacklist", "savePw",
           "rate", "setCode", "setRate", "mail", "dropCode", "grant", "dropGrant", "done",
           "denied", "failed", "lost"}
AuthOps == {"login", "refresh", "register", "logout", "change", "forgot", "verify", "reset"}
TokenKinds == {"access", "reset"}   \* both signed with JWT_SECRET
AuthCall == [pc: AuthPc, op: AuthOps \cup {None}, user: Users \cup {None},
             token: Seconds \cup {None}, kind: TokenKinds, pw: Passwords \cup {None},
             code: Calls \cup {None}, mint: Seconds \cup {None}, tries: Nat,
             from: SUBSET (Calls \cup Users)]
Idle    == [pc |-> "idle", op |-> None, user |-> None, token |-> None, kind |-> "access",
            pw |-> None, code |-> None, mint |-> None, tries |-> 0, from |-> {}]

Ended          == {"done", "denied", "failed", "lost"}
Registered     == {u \in Users : password[u] # None}
InFlight(c)    == authCall[c].pc \notin Ended \cup {"idle"}
Token(c)       == <<authCall[c].user, authCall[c].token>>
At(c, pc)      == authCall[c].pc = pc

\* The locals of a request end with it; what a forgotten password read is remembered.
Going(call, pc) == IF pc \in Ended
                   THEN [Idle EXCEPT !.pc = pc,
                                     !.from = IF call.op = "forgot" THEN call.from ELSE {}]
                   ELSE [call EXCEPT !.pc = pc]
Step(c, pc)     == authCall' = [authCall EXCEPT ![c] = Going(@, pc)]
Begin(c, call)  == /\ At(c, "idle")
                   /\ authCall' = [authCall EXCEPT ![c] = Going(call, call.pc)]

\* generateTokens signs with the second it runs in.
Sign(c, pc) == authCall' = [authCall EXCEPT ![c].mint = now, ![c].pc = pc]

AccountsInit ==
    /\ password   = OldPassword
    /\ refreshKey = [u \in Users |-> IF u \in SignedIn THEN 0 ELSE None]
    /\ otpKey  = [e \in Emails |-> None] /\ otpRate = [e \in Emails |-> 0]
    /\ blacklist = {} /\ resetKeys = {} /\ now = 0
    /\ authCall = [c \in Calls |-> Idle]
    /\ issued  = {<<u, 0>> : u \in SignedIn}
    /\ chain   = [u \in Users |-> IF u \in SignedIn THEN {u} ELSE {}]
    /\ chainPw = OldPassword
    /\ signedOut = {} /\ overtaken = {} /\ unswept = {}
    /\ mailed = {} /\ granted = {} /\ proved = {} /\ spent = {} /\ late = {}
    /\ counted = [e \in Emails |-> {}]

-----------------------------------------------------------------------------
(* login and refreshTokens.                                                *)

\* findByEmail, or findSuperAdminByEmail, and the compare with the hash it read.
LoginFind(c, u, p) ==
    /\ Begin(c, [Idle EXCEPT !.op = "login", !.user = u, !.pw = p,
                             !.pc = IF password[u] = p THEN "save" ELSE "denied"])
    /\ UNCHANGED <<password, keyVars, codeVars, now, chainVars, grantVars>>

\* save() writes lastLoginAt alone; the tokens are signed when it answers.
SaveLastLogin(c) ==
    /\ At(c, "save")
    /\ Sign(c, "store")
    /\ UNCHANGED <<password, keyVars, codeVars, now, chainVars, grantVars>>

\* Any token is refreshed for which the user has one stored.
RefreshGet_AnyToken(c, u, t) ==
    /\ <<u, t>> \in issued
    /\ Begin(c, [Idle EXCEPT !.op = "refresh", !.user = u, !.token = t, !.pw = chainPw[u],
                             !.from = chain[u], !.pc = "user"])
    /\ UNCHANGED <<password, keyVars, codeVars, now, chainVars, grantVars>>

\* The stored token is compared as a string: it may be another one of the same second.
RefreshGet(c, u, t) ==
    /\ <<u, t>> \in issued
    /\ Begin(c, [Idle EXCEPT !.op = "refresh", !.user = u, !.token = t, !.pw = chainPw[u],
                             !.from = chain[u],
                             !.pc = IF refreshKey[u] = t THEN "user" ELSE "denied"])
    /\ UNCHANGED <<password, keyVars, codeVars, now, chainVars, grantVars>>

\* findById wants a tenant, and the token of a super admin carries none: 401.
RefreshFindUser(c) ==
    /\ At(c, "user")
    /\ IF authCall[c].user \in Admins THEN Step(c, "denied") ELSE Sign(c, "store")
    /\ UNCHANGED <<password, keyVars, codeVars, now, chainVars, grantVars>>

\* cacheService.set of the signed token, over whatever the key holds by now.
StoreRefresh(c) ==
    LET u == authCall[c].user IN
    /\ At(c, "store")
    /\ refreshKey' = [refreshKey EXCEPT ![u] = authCall[c].mint]
    /\ issued'  = issued \cup {<<u, authCall[c].mint>>}
    /\ chain'   = [chain EXCEPT ![u] = authCall[c].from \cup {c}]
    /\ chainPw' = [chainPw EXCEPT ![u] = authCall[c].pw]
    /\ Step(c, "done")
    /\ UNCHANGED <<password, blacklist, codeVars, now, signedOut, overtaken, unswept,
                   grantVars>>

-----------------------------------------------------------------------------
(* logout, changePassword and the three registrations.                     *)

\* authMiddleware: a token that was not logged out.  A grant is signed with the same secret
\* and serves as well, but has no role, so that nobody registers by it.  A logout goes on to
\* its deletions.
Authenticate(c, op, u, t, kind) ==
    /\ <<u, t>> \in (IF kind = "access" THEN issued ELSE granted)
    /\ op = "register" => kind = "access"
    /\ Begin(c, [Idle EXCEPT !.op = op, !.user = u, !.token = t, !.kind = kind,
                             !.pc = IF <<u, t, kind>> \in blacklist THEN "denied"
                                    ELSE IF op = "logout" THEN "del" ELSE "authed"])
    /\ UNCHANGED <<password, keyVars, codeVars, now, chainVars, grantVars>>

\* find and compare.  A super admin has no tenant context of their own, and none that
\* findById would find them in.
CheckPassword(c, old, new) ==
    LET u == authCall[c].user
        match == u \notin Admins /\ password[u] = old
    IN
    /\ At(c, "authed") /\ authCall[c].op = "change"
    /\ authCall' = [authCall EXCEPT ![c] = IF match
                        THEN [@ EXCEPT !.pw = new, !.pc = "savePw"] ELSE Going(@, "denied")]
    /\ proved' = IF match THEN proved \cup {<<c, u, old>>} ELSE proved
    /\ UNCHANGED <<password, keyVars, codeVars, now, chainVars, mailed, granted, spent, late,
                   counted>>

\* save() of the new hash, for changePassword and resetPassword alike.
SavePassword(c) ==
    /\ At(c, "savePw")
    /\ password' = [password EXCEPT ![authCall[c].user] = authCall[c].pw]
    /\ Step(c, IF authCall[c].op = "reset" THEN "dropGrant" ELSE "del")
    /\ UNCHANGED <<keyVars, codeVars, now, chainVars, grantVars>>

AfterDelete(c) == IF authCall[c].op = "reset" THEN "done" ELSE "blacklist"

\* A reset signs nobody out.
DeleteRefresh_NotOnReset(c) ==
    LET u == authCall[c].user IN
    /\ At(c, "del")
    /\ Step(c, AfterDelete(c))
    /\ refreshKey' = IF authCall[c].op = "reset" THEN refreshKey
                     ELSE [refreshKey EXCEPT ![u] = None]
    /\ UNCHANGED <<password, blacklist, codeVars, now, chainVars, grantVars>>

\* cacheService.del of the user's key.  The calls past their own check store after it.
DeleteRefresh(c) ==
    LET u == authCall[c].user IN
    /\ At(c, "del")
    /\ Step(c, AfterDelete(c))
    /\ refreshKey' = [refreshKey EXCEPT ![u] = None]
    /\ signedOut'  = signedOut \cup (IF refreshKey[u] = None THEN {} ELSE chain[u])
    /\ overtaken'  = overtaken \cup {d \in Calls : /\ authCall[d].user = u
                                                   /\ authCall[d].pc \in {"save", "user", "store"}}
    /\ UNCHANGED <<password, blacklist, codeVars, now, issued, chain, chainPw, unswept,
                   grantVars>>

BlacklistToken(c) ==
    /\ At(c, "blacklist")
    /\ blacklist' = blacklist \cup {<<authCall[c].user, authCall[c].token, authCall[c].kind>>}
    /\ Step(c, "done")
    /\ UNCHANGED <<password, refreshKey, codeVars, now, chainVars, grantVars>>

\* Whom the bearer of a token may register: a super admin anyone, an owner or manager
\* (here: any user of the tenant) its staff.
MayRegister(by, u) == \/ by \in Admins
                      \/ u \in Staff /\ TenantOf[by] = TenantOf[u]

RegisterFind(u, p) ==
    [Idle EXCEPT !.op = "register", !.user = u, !.pw = p,
                 !.pc = IF password[u] = None /\ TenantOf[u] \in tenants \cup {None}
                        THEN "create" ELSE "denied"]

RegisterByToken(c, u, p) ==
    /\ At(c, "authed") /\ authCall[c].op = "register"
    /\ u \notin Admins /\ MayRegister(authCall[c].user, u)
    /\ authCall' = [authCall EXCEPT ![c] = Going(RegisterFind(u, p), RegisterFind(u, p).pc)]
    /\ UNCHANGED <<password, keyVars, codeVars, now, chainVars, grantVars>>

\* POST /auth/register/super-admin is open to all.
RegisterSuperAdmin(c, u, p) ==
    /\ u \in Admins
    /\ Begin(c, RegisterFind(u, p))
    /\ UNCHANGED <<password, keyVars, codeVars, now, chainVars, grantVars>>

\* An account that another request opened meanwhile is written over.
CreateUser_NoIndex(c) ==
    LET u == authCall[c].user IN
    /\ At(c, "create")
    /\ password' = [password EXCEPT ![u] = authCall[c].pw]
    /\ Sign(c, "store")
    /\ UNCHANGED <<keyVars, codeVars, now, chainVars, grantVars>>

\* The unique index on tenant and email turns a second account away.
CreateUser(c) ==
    LET u == authCall[c].user IN
    /\ At(c, "create")
    /\ \/ /\ password[u] # None
          /\ Step(c, "failed")
          /\ UNCHANGED password
       \/ /\ password[u] = None
          /\ password' = [password EXCEPT ![u] = authCall[c].pw]
          /\ Sign(c, "store")
    /\ UNCHANGED <<keyVars, codeVars, now, chainVars, grantVars>>

-----------------------------------------------------------------------------
(* forgotPassword, verifyOtp and resetPassword.                            *)

\* By tenant and email, or by email across tenants, where any of its users may be found.
ForgotFind(c, u) ==
    /\ u \in Registered
    /\ Begin(c, [Idle EXCEPT !.op = "forgot", !.user = u, !.pc = "rate"])
    /\ UNCHANGED <<password, keyVars, codeVars, now, chainVars, grantVars>>

ReadRate(c) ==
    LET e == EmailOf[authCall[c].user] IN
    /\ At(c, "rate")
    /\ authCall' = [authCall EXCEPT ![c] =
                       Going([@ EXCEPT !.tries = otpRate[e], !.from = counted[e]],
                             IF otpRate[e] >= OtpLimit THEN "denied" ELSE "setCode")]
    /\ UNCHANGED <<password, keyVars, codeVars, now, chainVars, grantVars>>

\* The key is the email's alone: the code replaces one for a user of another tenant.
SetCode(c) ==
    /\ At(c, "setCode")
    /\ otpKey' = [otpKey EXCEPT ![EmailOf[authCall[c].user]] = c]
    /\ Step(c, "setRate")
    /\ UNCHANGED <<password, keyVars, otpRate, resetKeys, now, chainVars, grantVars>>

\* The counter is written as it was read.
SetRate_NotCounted(c) ==
    LET e == EmailOf[authCall[c].user] IN
    /\ At(c, "setRate")
    /\ otpRate' = [otpRate EXCEPT ![e] = authCall[c].tries]
    /\ counted' = [counted EXCEPT ![e] = @ \cup {c}]
    /\ Step(c, "mail")
    /\ UNCHANGED <<password, keyVars, otpKey, resetKeys, now, chainVars, mailed, granted,
                   proved, spent, late>>

SetRate(c) ==
    LET e == EmailOf[authCall[c].user] IN
    /\ At(c, "setRate")
    /\ otpRate' = [otpRate EXCEPT ![e] = authCall[c].tries + 1]
    /\ counted' = [counted EXCEPT ![e] = @ \cup {c}]
    /\ Step(c, "mail")
    /\ UNCHANGED <<password, keyVars, otpKey, resetKeys, now, chainVars, mailed, granted,
                   proved, spent, late>>

\* enqueue may throw: the answer is 500 and nothing is mailed.
MailCode(c) ==
    /\ At(c, "mail")
    /\ \/ mailed' = mailed \cup {<<c, authCall[c].user>>} /\ Step(c, "done")
       \/ UNCHANGED mailed /\ Step(c, "failed")
    /\ UNCHANGED <<password, keyVars, codeVars, now, chainVars, granted, proved, spent, late,
                   counted>>

\* One that was mailed is presented; the user comes out of the key.
VerifyGet(c, k, u) ==
    LET e == EmailOf[u] IN
    /\ <<k, u>> \in mailed
    /\ Begin(c, [Idle EXCEPT !.op = "verify", !.user = u, !.code = k,
                             !.pc = IF otpKey[e] = k THEN "dropCode" ELSE "denied"])
    /\ late' = IF otpKey[e] = k /\ k \in spent THEN late \cup {c} ELSE late
    /\ UNCHANGED <<password, keyVars, codeVars, now, chainVars, mailed, granted, proved,
                   spent, counted>>

\* The code stays until its TTL runs out.
DropCode_Keeps(c) ==
    /\ At(c, "dropCode")
    /\ spent' = spent \cup {authCall[c].code}
    /\ Sign(c, "grant")
    /\ UNCHANGED <<password, keyVars, codeVars, now, chainVars, mailed, granted, proved, late,
                   counted>>

\* del by email, which may hold a newer code by now; the grant is signed when it answers.
DropCode(c) ==
    /\ At(c, "dropCode")
    /\ otpKey' = [otpKey EXCEPT ![EmailOf[authCall[c].user]] = None]
    /\ spent'  = spent \cup {authCall[c].code}
    /\ Sign(c, "grant")
    /\ UNCHANGED <<password, keyVars, otpRate, resetKeys, now, chainVars, mailed, granted,
                   proved, late, counted>>

\* Two grants of one user and second are one token, and the second set renews it.
StoreGrant(c) ==
    LET g == <<authCall[c].user, authCall[c].mint>> IN
    /\ At(c, "grant")
    /\ resetKeys' = resetKeys \cup {g}
    /\ granted'   = granted \cup {g}
    /\ spent'     = spent \ {g}
    /\ Step(c, "done")
    /\ UNCHANGED <<password, keyVars, otpKey, otpRate, now, chainVars, mailed, proved, late,
                   counted>>

\* The user is looked up in the tenant of the grant, "global" for a super admin, which is
\* no ObjectId: 400.
ResetGet(c, g, new) ==
    LET live == g \in resetKeys IN
    /\ g \in granted
    /\ Begin(c, [Idle EXCEPT !.op = "reset", !.user = g[1], !.token = g[2], !.pw = new,
                             !.pc = IF live /\ g[1] \notin Admins THEN "savePw" ELSE "denied"])
    /\ late' = IF live /\ g \in spent THEN late \cup {c} ELSE late
    /\ UNCHANGED <<password, keyVars, codeVars, now, chainVars, mailed, granted, proved,
                   spent, counted>>

DropGrant(c) ==
    /\ At(c, "dropGrant")
    /\ resetKeys' = resetKeys \ {Token(c)}
    /\ spent'     = spent \cup {Token(c)}
    /\ Step(c, "del")
    /\ UNCHANGED <<password, keyVars, otpKey, otpRate, now, chainVars, mailed, granted,
                   proved, late, counted>>

-----------------------------------------------------------------------------
(* The clock, the TTLs and the death of an instance.                       *)

Tick ==
    /\ now < MaxSeconds
    /\ now' = now + 1
    /\ UNCHANGED <<password, keyVars, codeVars, authCall, chainVars, grantVars>>

ExpireCode(e) ==
    /\ otpKey[e] # None
    /\ otpKey' = [otpKey EXCEPT ![e] = None]
    /\ UNCHANGED <<password, keyVars, otpRate, resetKeys, now, authCall, chainVars, grantVars>>

ExpireRate(e) ==
    /\ otpRate[e] > 0
    /\ otpRate' = [otpRate EXCEPT ![e] = 0]
    /\ counted' = [counted EXCEPT ![e] = {}]
    /\ UNCHANGED <<password, keyVars, otpKey, resetKeys, now, authCall, chainVars, mailed,
                   granted, proved, spent, late>>

\* A password change that has saved but not yet deleted the key leaves the session open.
LoseAuthCall(c) ==
    /\ InFlight(c)
    /\ unswept' = IF authCall[c].op # "logout" /\ authCall[c].pc \in {"dropGrant", "del"}
                  THEN unswept \cup {authCall[c].user} ELSE unswept
    /\ Step(c, "lost")
    /\ UNCHANGED <<password, keyVars, codeVars, now, issued, chain, chainPw, signedOut,
                   overtaken, grantVars>>

-----------------------------------------------------------------------------
AuthStep(c) ==
    \/ SaveLastLogin(c) \/ RefreshFindUser(c) \/ StoreRefresh(c)
    \/ SavePassword(c) \/ DeleteRefresh(c) \/ BlacklistToken(c)
    \/ CreateUser(c)
    \/ ReadRate(c) \/ SetCode(c) \/ SetRate(c) \/ MailCode(c)
    \/ DropCode(c) \/ StoreGrant(c) \/ DropGrant(c)
    \/ \E p, new \in Passwords : CheckPassword(c, p, new)
    \/ \E u \in Users, p \in Passwords : RegisterByToken(c, u, p)

BeginAuthCall(c) ==
    \/ \E u \in Users :
         \/ \E p \in Passwords : LoginFind(c, u, p) \/ RegisterSuperAdmin(c, u, p)
         \/ \E t \in Seconds : \/ RefreshGet(c, u, t)
                               \/ \E op \in {"logout", "change", "register"}, k \in TokenKinds :
                                     Authenticate(c, op, u, t, k)
         \/ ForgotFind(c, u)
         \/ \E k \in Calls : VerifyGet(c, k, u)
    \/ \E g \in Users \X Seconds, new \in Passwords : ResetGet(c, g, new)

AuthTimePasses == Tick \/ \E e \in Emails : ExpireCode(e) \/ ExpireRate(e)

-----------------------------------------------------------------------------
(* Properties.                                                             *)

AccountsTypeOK ==
    /\ password   \in [Users -> Passwords \cup {None}]
    /\ refreshKey \in [Users -> Seconds \cup {None}]
    /\ blacklist \subseteq Users \X Seconds \X TokenKinds /\ resetKeys \subseteq granted
    /\ granted \subseteq Users \X Seconds /\ issued \subseteq Users \X Seconds
    /\ otpKey  \in [Emails -> Calls \cup {None}]
    /\ otpRate \in [Emails -> Nat]
    /\ now \in Seconds
    /\ authCall \in [Calls -> AuthCall]
    /\ \A c \in Calls : InFlight(c) => authCall[c].user \in Users
    /\ chain \in [Users -> SUBSET (Calls \cup Users)]
    /\ chainPw \in [Users -> Passwords \cup {None}]
    /\ counted \in [Emails -> SUBSET Calls]
    /\ mailed \subseteq Calls \X Users
    /\ proved \subseteq Calls \X Users \X Passwords

\* The session a sign-out ended, and whatever was refreshed from it, is never the one the
\* cache holds, unless a refresh or login of that user had passed its check when the key was
\* deleted and stored its token afterwards (auth/service.ts:350-371, 382).
SignedOutStaysOut ==
    \A u \in Users : refreshKey[u] # None /\ chain[u] \cap signedOut # {}
        => chain[u] \cap overtaken # {}

\* A session opened with a password that is no longer the user's is on its way out: the
\* change or reset that replaced the password still has to delete it or died before it did,
\* or the session was stored by a call that the deletion overtook (auth/service.ts:418-422,
\* 528-534).
OldPasswordSessionsEnd ==
    \A u \in Users \ unswept : refreshKey[u] # None /\ chainPw[u] # password[u] =>
        \/ chain[u] \cap overtaken # {}
        \/ \E c \in Calls : authCall[c].user = u /\ authCall[c].pc \in {"dropGrant", "del"}

\* A mailed code buys one grant and a grant one password: more only for calls that read the
\* key before the first of them deleted it, or for a grant that another code renewed within
\* its second (auth/service.ts:482-497, 515-533).
SpentStaysSpent == late = {}

\* More codes than the limit are counted for one email in one window only if two of the
\* requests read the counter before either wrote it (auth/service.ts:447-460).
MailsOverLimitOverlap ==
    \A e \in Emails : Cardinality(counted[e]) > OtpLimit =>
        \E c, d \in counted[e] : /\ c # d
                                 /\ c \notin authCall[d].from /\ d \notin authCall[c].from

\* Passwords change only as the abstract specification allows.
Promise == INSTANCE Credentials WITH pw <- password, grants <- granted, Codes <- Calls,
                                     Proofs <- Calls, Stamps <- Seconds, NoPassword <- None

CredentialsKept == Promise!CredSpec
=============================================================================
