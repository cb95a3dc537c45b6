---------------------------- MODULE AccountsProofs ----------------------------
(***************************************************************************)
(* Proofs about Accounts within Platform, for any number of users, requests *)
(* and seconds: passwords change only as Credentials allows, a code or      *)
(* grant that was used up is not read again, a sign-out and a new password  *)
(* end the session and what was refreshed from it, and the codes mailed     *)
(* stay within their limit, up to what overlaps.                            *)
(***************************************************************************)
EXTENDS PlatformProofs, FiniteSetTheorems

-----------------------------------------------------------------------------
(* What a step of the platform does to the accounts.                       *)

LEMMA AccountSteps ==
    ASSUME [PlatformNext]_platformVars
    PROVE  \/ \E c \in Calls : AuthStep(c) \/ BeginAuthCall(c) \/ LoseAuthCall(c)
           \/ AuthTimePasses
           \/ UNCHANGED accountVars
BY DEF PlatformNext, AccountsNext, TenancyNext, LimitNext, CallDies, platformVars

\* What the program counter of a request says about its locals, about the codes and grants
\* it presented, and about the user it works for.
CallOk(c) ==
    LET call == authCall[c] IN
    /\ call.pc \in {"store", "grant"} => call.mint \in Seconds
    /\ call.pc \in {"authed", "savePw", "dropGrant", "del", "blacklist"} => call.token \in Seconds
    /\ call.pc \in {"create", "savePw"} => call.pw \in Passwords
    /\ call.pc \in {"rate", "setCode", "setRate", "mail"} => call.user \in Registered
    /\ call.pc \in {"dropCode", "grant"} => <<call.code, call.user>> \in mailed
    /\ call.pc = "dropGrant" => call.op = "reset" /\ Token(c) \in granted
    /\ call.pc = "savePw" =>
         \/ call.op = "change" /\ \E p \in Passwords : <<c, call.user, p>> \in proved
         \/ call.op = "reset" /\ Token(c) \in granted

\* Codes, proofs and grants are for accounts that exist.
AccountsExist ==
    /\ \A k \in Calls, u \in Users : <<k, u>> \in mailed => u \in Registered
    /\ \A k \in Calls, u \in Users, p \in Passwords : <<k, u, p>> \in proved => u \in Registered
    /\ \A u \in Users, t \in Seconds : <<u, t>> \in granted => u \in Registered

AccountsInv == AccountsTypeOK /\ (\A c \in Calls : CallOk(c)) /\ AccountsExist

LEMMA AccountsInvInit == AccountsInit => AccountsInv
<1> SUFFICES ASSUME AccountsInit PROVE AccountsInv
  OBVIOUS
<1> USE AccountsAssumption DEF AccountsInit
<1>1. Idle \in AuthCall /\ Idle.pc = "idle"
  BY DEF Idle, AuthCall, AuthPc, TokenKinds
<1>2. authCall \in [Calls -> AuthCall] /\ \A c \in Calls : authCall[c].pc = "idle"
  BY <1>1
<1>3. 0 \in Seconds
  BY DEF Seconds
<1>4. AccountsTypeOK
  BY <1>2, <1>3 DEF AccountsTypeOK, InFlight, Emails
<1>5. QED BY <1>2, <1>4 DEF AccountsInv, CallOk, AccountsExist

-----------------------------------------------------------------------------
(* Steps that change nothing but their own program counter.                *)

\* A call that moves on with its locals as they are, or without them when it ends.
Kept(c) == /\ authCall' \in [Calls -> AuthCall]
           /\ \A d \in Calls \ {c} : authCall'[d] = authCall[d]
           /\ authCall'[c].pc \notin Ended =>
                /\ authCall'[c].op = authCall[c].op /\ authCall'[c].user = authCall[c].user
                /\ authCall'[c].token = authCall[c].token /\ authCall'[c].pw = authCall[c].pw
                /\ authCall'[c].code = authCall[c].code

LEMMA GoingOn ==
    ASSUME NEW call \in AuthCall, NEW pc \in AuthPc
    PROVE  /\ Going(call, pc) \in AuthCall /\ Going(call, pc).pc = pc
           /\ pc \notin Ended => Going(call, pc) = [call EXCEPT !.pc = pc]
BY DEF Going, Idle, AuthCall, TokenKinds

LEMMA Stepping ==
    ASSUME AccountsInv, NEW c \in Calls, NEW pc \in AuthPc, Step(c, pc)
    PROVE  /\ Kept(c) /\ authCall'[c].pc = pc
           /\ pc \notin Ended => authCall'[c].mint = authCall[c].mint
<1>1. authCall \in [Calls -> AuthCall] /\ authCall[c] \in AuthCall
  BY DEF AccountsInv, AccountsTypeOK
<1>2. Going(authCall[c], pc) \in AuthCall /\ Going(authCall[c], pc).pc = pc
  BY <1>1, GoingOn
<1>3. pc \notin Ended => Going(authCall[c], pc) = [authCall[c] EXCEPT !.pc = pc]
  BY <1>1, GoingOn
<1>4. authCall' = [authCall EXCEPT ![c] = Going(authCall[c], pc)]
  BY DEF Step
<1>5. authCall' \in [Calls -> AuthCall] /\ authCall'[c] = Going(authCall[c], pc)
  BY <1>1, <1>2, <1>4
<1>6. \A d \in Calls \ {c} : authCall'[d] = authCall[d]
  BY <1>1, <1>4
<1>7. QED BY <1>1, <1>2, <1>3, <1>5, <1>6 DEF Kept, AuthCall

\* A call that signs a token.
LEMMA Signing ==
    ASSUME AccountsInv, NEW c \in Calls, NEW pc \in AuthPc, Sign(c, pc)
    PROVE  Kept(c) /\ authCall'[c].pc = pc /\ authCall'[c].mint = now /\ now \in Seconds
<1> DEFINE call == [authCall[c] EXCEPT !.mint = now, !.pc = pc]
<1>1. authCall \in [Calls -> AuthCall] /\ authCall[c] \in AuthCall /\ now \in Seconds
  BY DEF AccountsInv, AccountsTypeOK
<1>2. /\ call \in AuthCall /\ call.pc = pc /\ call.mint = now
      /\ call.op = authCall[c].op /\ call.user = authCall[c].user
      /\ call.token = authCall[c].token /\ call.pw = authCall[c].pw
      /\ call.code = authCall[c].code
  BY <1>1 DEF AuthCall
<1>3. authCall' = [authCall EXCEPT ![c] = call]
  BY DEF Sign
<1> HIDE DEF call
<1>4. authCall' \in [Calls -> AuthCall] /\ authCall'[c] = call
  BY <1>1, <1>2, <1>3
<1>5. \A d \in Calls \ {c} : authCall'[d] = authCall[d]
  BY <1>1, <1>3
<1>6. QED BY <1>1, <1>2, <1>4, <1>5 DEF Kept

\* The call a request begins with, or what is left of it when it is turned away at once.
LEMMA Beginning ==
    ASSUME AccountsInv, NEW c \in Calls, NEW call \in AuthCall, Begin(c, call)
    PROVE  /\ authCall' \in [Calls -> AuthCall]
           /\ \A d \in Calls \ {c} : authCall'[d] = authCall[d]
           /\ authCall'[c].pc = call.pc
           /\ call.pc \notin Ended => authCall'[c] = call
<1>1. authCall \in [Calls -> AuthCall]
  BY DEF AccountsInv, AccountsTypeOK
<1>2. Going(call, call.pc) \in AuthCall /\ Going(call, call.pc).pc = call.pc
  BY DEF Going, Idle, AuthCall, TokenKinds
<1>3. call.pc \notin Ended => Going(call, call.pc) = call
  BY DEF Going, AuthCall
<1>4. authCall' = [authCall EXCEPT ![c] = Going(call, call.pc)]
  BY DEF Begin
<1>5. QED BY <1>1, <1>2, <1>3, <1>4

\* The invariant after a step is a matter of the call that made it and of what it wrote.
LEMMA OneCall ==
    ASSUME AccountsInv, NEW c \in Calls,
           AccountsTypeOK', CallOk(c)',
           \A d \in Calls \ {c} : authCall'[d] = authCall[d],
           Registered \subseteq Registered', mailed \subseteq mailed',
           granted \subseteq granted', proved \subseteq proved',
           \A k \in Calls, u \in Users : <<k, u>> \in mailed' \ mailed => u \in Registered',
           \A k \in Calls, u \in Users, p \in Passwords :
              <<k, u, p>> \in proved' \ proved => u \in Registered',
           \A u \in Users, t \in Seconds : <<u, t>> \in granted' \ granted => u \in Registered'
    PROVE  AccountsInv'
<1>1. ASSUME NEW d \in Calls \ {c} PROVE CallOk(d)'
  <2>1. CallOk(d) /\ authCall'[d] = authCall[d]
    BY DEF AccountsInv
  <2>2. QED BY <2>1 DEF CallOk, Token
<1>2. AccountsExist'
  BY DEF AccountsInv, AccountsExist
<1>3. QED BY <1>1, <1>2 DEF AccountsInv

\* The awaits of login, refresh, logout and the password changes.
LEMMA SessionSteps ==
    ASSUME AccountsInv, NEW c \in Calls,
           \/ SaveLastLogin(c) \/ RefreshFindUser(c) \/ StoreRefresh(c) \/ SavePassword(c)
           \/ DeleteRefresh(c) \/ BlacklistToken(c) \/ CreateUser(c)
    PROVE  AccountsInv'
<1> USE DEF keyVars, codeVars, chainVars, grantVars, InFlight, Ended
<1> /\ AccountsTypeOK /\ CallOk(c) /\ authCall[c] \in AuthCall
    /\ InFlight(c) => authCall[c].user \in Users
    /\ authCall[c].pw \in Passwords \cup {None}
  BY DEF AccountsInv, AccountsTypeOK, At, AuthCall
<1>1. CASE SaveLastLogin(c)
  <2>1. /\ Kept(c) /\ authCall'[c].pc = "store" /\ authCall'[c].mint \in Seconds
        /\ authCall[c].user \in Users
    BY Signing, <1>1 DEF SaveLastLogin, AuthPc, At
  <2>2. AccountsTypeOK'
    BY <1>1, <2>1 DEF SaveLastLogin, AccountsTypeOK, At, Kept
  <2>3. CallOk(c)'
    BY <2>1 DEF CallOk
  <2>4. QED BY OneCall, <1>1, <2>1, <2>2, <2>3 DEF SaveLastLogin, Registered, Kept
<1>2. CASE RefreshFindUser(c)
  <2>1. /\ Kept(c) /\ authCall[c].user \in Users
        /\ \/ authCall'[c].pc = "store" /\ authCall'[c].mint \in Seconds
           \/ authCall'[c].pc = "denied"
    BY Signing, Stepping, <1>2 DEF RefreshFindUser, AuthPc, At
  <2>2. AccountsTypeOK'
    BY <1>2, <2>1 DEF RefreshFindUser, AccountsTypeOK, At, Kept
  <2>3. CallOk(c)'
    BY <2>1 DEF CallOk
  <2>4. QED BY OneCall, <1>2, <2>1, <2>2, <2>3 DEF RefreshFindUser, Registered, Kept
<1>3. CASE StoreRefresh(c)
  <2>1. /\ Kept(c) /\ authCall'[c].pc = "done" /\ authCall[c].user \in Users
        /\ authCall[c].mint \in Seconds
    BY Stepping, <1>3 DEF StoreRefresh, AuthPc, At, CallOk
  <2>2. /\ refreshKey' \in [Users -> Seconds \cup {None}]
        /\ issued' \subseteq Users \X Seconds
    BY <1>3, <2>1 DEF StoreRefresh, AccountsTypeOK
  <2>3. authCall[c].from \subseteq Calls \cup Users
    BY DEF AuthCall
  <2>4. /\ chain' \in [Users -> SUBSET (Calls \cup Users)]
        /\ chainPw' \in [Users -> Passwords \cup {None}]
    BY <1>3, <2>1, <2>3 DEF StoreRefresh, AccountsTypeOK
  <2>5. AccountsTypeOK'
    BY <1>3, <2>1, <2>2, <2>4 DEF StoreRefresh, AccountsTypeOK, At, Kept
  <2>6. CallOk(c)'
    BY <2>1 DEF CallOk
  <2>7. QED BY OneCall, <1>3, <2>1, <2>5, <2>6 DEF StoreRefresh, Registered, Kept
<1>4. CASE SavePassword(c)
  <2>1. /\ Kept(c) /\ authCall[c].user \in Users /\ authCall[c].pw \in Passwords
        /\ authCall'[c].pc = IF authCall[c].op = "reset" THEN "dropGrant" ELSE "del"
        /\ authCall[c].op = "reset" => Token(c) \in granted
        /\ authCall[c].token \in Seconds
    BY Stepping, <1>4 DEF SavePassword, AuthPc, At, CallOk
  <2>2. password' \in [Users -> Passwords \cup {None}]
    BY <1>4, <2>1 DEF SavePassword, AccountsTypeOK
  <2>3. AccountsTypeOK'
    BY <1>4, <2>1, <2>2 DEF SavePassword, AccountsTypeOK, At, Kept
  <2>4. CallOk(c)'
    BY <1>4, <2>1 DEF SavePassword, CallOk, Token, Kept
  <2>5. Registered \subseteq Registered'
    BY <1>4, <2>1, AccountsAssumption DEF SavePassword, Registered, AccountsTypeOK
  <2>6. QED BY OneCall, <1>4, <2>1, <2>3, <2>4, <2>5 DEF SavePassword, Kept
<1>5. CASE DeleteRefresh(c)
  <2>1. /\ Kept(c) /\ authCall[c].user \in Users /\ authCall'[c].pc \in {"done", "blacklist"}
    BY Stepping, <1>5 DEF DeleteRefresh, AfterDelete, AuthPc, At
  <2>2. refreshKey' \in [Users -> Seconds \cup {None}]
    BY <1>5, <2>1 DEF DeleteRefresh, AccountsTypeOK
  <2>3. AccountsTypeOK'
    BY <1>5, <2>1, <2>2 DEF DeleteRefresh, AccountsTypeOK, At, Kept
  <2>4. CallOk(c)'
    BY <1>5, <2>1 DEF DeleteRefresh, At, CallOk, Kept
  <2>5. QED BY OneCall, <1>5, <2>1, <2>3, <2>4 DEF DeleteRefresh, Registered, Kept
<1>6. CASE BlacklistToken(c)
  <2>1. /\ Kept(c) /\ authCall[c].user \in Users /\ authCall'[c].pc = "done"
        /\ authCall[c].token \in Seconds
    BY Stepping, <1>6 DEF BlacklistToken, AuthPc, At, CallOk
  <2>2. blacklist' \subseteq Users \X Seconds \X TokenKinds
    BY <1>6, <2>1 DEF BlacklistToken, AccountsTypeOK, AuthCall
  <2>3. AccountsTypeOK'
    BY <1>6, <2>1, <2>2 DEF BlacklistToken, AccountsTypeOK, At, Kept
  <2>4. CallOk(c)'
    BY <2>1 DEF CallOk
  <2>5. QED BY OneCall, <1>6, <2>1, <2>3, <2>4 DEF BlacklistToken, Registered, Kept
<1>7. CASE CreateUser(c)
  <2>1. /\ Kept(c) /\ authCall[c].user \in Users /\ authCall[c].pw \in Passwords
        /\ \/ authCall'[c].pc = "store" /\ authCall'[c].mint \in Seconds
           \/ authCall'[c].pc = "failed"
    BY Stepping, Signing, <1>7 DEF CreateUser, AuthPc, At, CallOk
  <2>2. password' \in [Users -> Passwords \cup {None}] /\ Registered \subseteq Registered'
    BY <1>7, <2>1, AccountsAssumption DEF CreateUser, Registered, AccountsTypeOK
  <2>3. AccountsTypeOK'
    BY <1>7, <2>1, <2>2 DEF CreateUser, AccountsTypeOK, At, Kept
  <2>4. CallOk(c)'
    BY <2>1 DEF CallOk
  <2>5. QED BY OneCall, <1>7, <2>1, <2>2, <2>3, <2>4 DEF CreateUser, Kept
<1>8. QED BY <1>1, <1>2, <1>3, <1>4, <1>5, <1>6, <1>7

\* The awaits of a forgotten password, up to the new one.
LEMMA CodeSteps ==
    ASSUME AccountsInv, NEW c \in Calls,
           \/ ReadRate(c) \/ SetCode(c) \/ SetRate(c) \/ MailCode(c)
           \/ DropCode(c) \/ StoreGrant(c) \/ DropGrant(c)
    PROVE  AccountsInv'
<1> USE DEF keyVars, codeVars, chainVars, grantVars, InFlight, Ended
<1> /\ AccountsTypeOK /\ CallOk(c) /\ authCall[c] \in AuthCall
    /\ InFlight(c) => authCall[c].user \in Users
    /\ \A u \in Users : EmailOf[u] \in Emails
  BY DEF AccountsInv, AccountsTypeOK, At, Emails
<1>1. CASE ReadRate(c)
  <2> DEFINE e == EmailOf[authCall[c].user]
  <2>1. authCall[c].user \in Registered /\ authCall[c].user \in Users /\ authCall[c].pc = "rate"
    BY <1>1 DEF ReadRate, At, CallOk
  <2>2. otpRate[e] \in Nat /\ counted[e] \in SUBSET Calls
    BY <2>1 DEF AccountsTypeOK
  <2> DEFINE call == [authCall[c] EXCEPT !.tries = otpRate[e], !.from = counted[e]]
  <2>3. call \in AuthCall /\ call.user = authCall[c].user
    BY <2>2 DEF AuthCall
  <2>4. /\ authCall' \in [Calls -> AuthCall]
        /\ \A d \in Calls \ {c} : authCall'[d] = authCall[d]
        /\ authCall'[c].pc \in {"denied", "setCode"}
        /\ authCall'[c].pc = "setCode" => authCall'[c].user = authCall[c].user
    <3>1. PICK pc \in {"denied", "setCode"} :
             authCall' = [authCall EXCEPT ![c] = Going(call, pc)]
      BY <1>1 DEF ReadRate
    <3> HIDE DEF call
    <3>2. /\ Going(call, pc) \in AuthCall /\ Going(call, pc).pc = pc
          /\ pc \notin Ended => Going(call, pc) = [call EXCEPT !.pc = pc]
      BY <2>3, GoingOn DEF AuthPc
    <3>3. pc = "setCode" => Going(call, pc).user = authCall[c].user
      BY SMTT(30), <2>3, <3>2 DEF AuthCall
    <3>4. QED BY <3>1, <3>2, <3>3 DEF AccountsTypeOK
  <2>5. AccountsTypeOK'
    <3>1. \A d \in Calls : InFlight(d)' => authCall'[d].user \in Users
      BY Zenon, <2>1, <2>4 DEF AccountsTypeOK
    <3> HIDE DEF keyVars, codeVars, chainVars, grantVars, InFlight
    <3>2. UNCHANGED <<password, keyVars, codeVars, now, chainVars, grantVars>>
      BY Zenon, <1>1 DEF ReadRate
    <3>3. UNCHANGED <<password, refreshKey, blacklist, resetKeys, granted, issued, otpKey,
                      otpRate, now, chain, chainPw, counted, mailed, proved>>
      BY Zenon, <3>2 DEF keyVars, codeVars, chainVars, grantVars
    <3>4. QED BY <2>4, <3>1, <3>3 DEF AccountsTypeOK
  <2>6. CallOk(c)'
    BY <1>1, <2>1, <2>4 DEF ReadRate, CallOk, Registered
  <2>7. QED BY OneCall, <1>1, <2>4, <2>5, <2>6 DEF ReadRate, Registered
<1>2. CASE SetCode(c)
  <2>1. /\ Kept(c) /\ authCall[c].user \in Users /\ authCall'[c].pc = "setRate"
        /\ authCall[c].user \in Registered
    BY Stepping, <1>2 DEF SetCode, AuthPc, At, CallOk
  <2>2. otpKey' \in [Emails -> Calls \cup {None}]
    BY <1>2, <2>1 DEF SetCode, AccountsTypeOK
  <2>3. AccountsTypeOK'
    BY <1>2, <2>1, <2>2 DEF SetCode, AccountsTypeOK, At, Kept
  <2>4. CallOk(c)'
    BY <1>2, <2>1 DEF SetCode, CallOk, Kept, Registered
  <2>5. QED BY OneCall, <1>2, <2>1, <2>3, <2>4 DEF SetCode, Registered, Kept
<1>3. CASE SetRate(c)
  <2>1. /\ Kept(c) /\ authCall[c].user \in Users /\ authCall'[c].pc = "mail"
        /\ authCall[c].user \in Registered /\ authCall[c].tries + 1 \in Nat
    BY Stepping, <1>3 DEF SetRate, AuthPc, At, CallOk, AuthCall
  <2>2. otpRate' \in [Emails -> Nat] /\ counted' \in [Emails -> SUBSET Calls]
    BY <1>3, <2>1 DEF SetRate, AccountsTypeOK
  <2>3. AccountsTypeOK'
    BY <1>3, <2>1, <2>2 DEF SetRate, AccountsTypeOK, At, Kept
  <2>4. CallOk(c)'
    BY <1>3, <2>1 DEF SetRate, CallOk, Kept, Registered
  <2>5. QED BY OneCall, <1>3, <2>1, <2>3, <2>4 DEF SetRate, Registered, Kept
<1>4. CASE MailCode(c)
  <2>1. /\ Kept(c) /\ authCall[c].user \in Users /\ authCall'[c].pc \in {"done", "failed"}
        /\ authCall[c].user \in Registered
    BY Stepping, <1>4 DEF MailCode, AuthPc, At, CallOk
  <2>2. mailed' \subseteq Calls \X Users /\ mailed \subseteq mailed'
    BY <1>4, <2>1 DEF MailCode, AccountsTypeOK
  <2>3. AccountsTypeOK'
    BY <1>4, <2>1, <2>2 DEF MailCode, AccountsTypeOK, At, Kept
  <2>4. CallOk(c)'
    BY <2>1 DEF CallOk
  <2>5. ASSUME NEW k \in Calls, NEW u \in Users, <<k, u>> \in mailed' \ mailed
        PROVE  u \in Registered'
    BY <1>4, <2>1, <2>5 DEF MailCode, Registered
  <2>6. QED BY OneCall, <1>4, <2>1, <2>2, <2>3, <2>4, <2>5 DEF MailCode, Registered, Kept
<1>5. CASE DropCode(c)
  <2>1. /\ Kept(c) /\ authCall[c].user \in Users /\ authCall'[c].pc = "grant"
        /\ authCall'[c].mint \in Seconds /\ <<authCall[c].code, authCall[c].user>> \in mailed
    BY Signing, <1>5 DEF DropCode, AuthPc, At, CallOk
  <2>2. otpKey' \in [Emails -> Calls \cup {None}]
    BY <1>5, <2>1 DEF DropCode, AccountsTypeOK
  <2>3. AccountsTypeOK'
    BY <1>5, <2>1, <2>2 DEF DropCode, AccountsTypeOK, At, Kept
  <2>4. CallOk(c)'
    BY <1>5, <2>1 DEF DropCode, CallOk, Kept
  <2>5. QED BY OneCall, <1>5, <2>1, <2>3, <2>4 DEF DropCode, Registered, Kept
<1>6. CASE StoreGrant(c)
  <2> DEFINE g == <<authCall[c].user, authCall[c].mint>>
  <2>1. /\ Kept(c) /\ authCall[c].user \in Users /\ authCall'[c].pc = "done"
        /\ authCall[c].mint \in Seconds /\ <<authCall[c].code, authCall[c].user>> \in mailed
    BY Stepping, <1>6 DEF StoreGrant, AuthPc, At, CallOk
  <2>2. authCall[c].user \in Registered
    BY <2>1 DEF AccountsInv, AccountsExist, AccountsTypeOK
  <2>3. granted' = granted \cup {g} /\ resetKeys' = resetKeys \cup {g}
    BY <1>6 DEF StoreGrant
  <2>4. granted' \subseteq Users \X Seconds /\ resetKeys' \subseteq granted'
    BY <2>1, <2>3 DEF AccountsTypeOK
  <2>5. AccountsTypeOK'
    BY <1>6, <2>1, <2>4 DEF StoreGrant, AccountsTypeOK, At, Kept
  <2>6. CallOk(c)'
    BY <2>1 DEF CallOk
  <2>7. Registered' = Registered
    BY <1>6 DEF StoreGrant, Registered
  <2>8. ASSUME NEW u \in Users, NEW t \in Seconds, <<u, t>> \in granted' \ granted
        PROVE  u \in Registered'
    BY <2>2, <2>3, <2>7, <2>8
  <2>9. QED BY OneCall, <1>6, <2>1, <2>3, <2>5, <2>6, <2>7, <2>8 DEF StoreGrant, Kept
<1>7. CASE DropGrant(c)
  <2>1. /\ Kept(c) /\ authCall[c].user \in Users /\ authCall'[c].pc = "del"
        /\ authCall[c].token \in Seconds
    BY Stepping, <1>7 DEF DropGrant, AuthPc, At, CallOk
  <2>2. AccountsTypeOK'
    BY <1>7, <2>1 DEF DropGrant, AccountsTypeOK, At, Kept
  <2>3. CallOk(c)'
    BY <2>1 DEF CallOk, Kept
  <2>4. QED BY OneCall, <1>7, <2>1, <2>2, <2>3 DEF DropGrant, Registered, Kept
<1>8. QED BY <1>1, <1>2, <1>3, <1>4, <1>5, <1>6, <1>7

\* The password shown by the bearer of a token, and whom they register.
LEMMA TokenSteps ==
    ASSUME AccountsInv, NEW c \in Calls, NEW p \in Passwords,
           \/ \E new \in Passwords : CheckPassword(c, p, new)
           \/ \E u \in Users : RegisterByToken(c, u, p)
    PROVE  AccountsInv'
<1> USE DEF keyVars, codeVars, chainVars, grantVars, InFlight, Ended
<1> /\ AccountsTypeOK /\ CallOk(c) /\ authCall[c] \in AuthCall
    /\ authCall \in [Calls -> AuthCall]
    /\ InFlight(c) => authCall[c].user \in Users
  BY DEF AccountsInv, AccountsTypeOK
<1>1. ASSUME NEW new \in Passwords, CheckPassword(c, p, new) PROVE AccountsInv'
  <2> DEFINE u == authCall[c].user
             match == u \notin Admins /\ password[u] = p
             shown == [authCall[c] EXCEPT !.pw = new, !.pc = "savePw"]
  <2>1. u \in Users /\ authCall[c].token \in Seconds /\ authCall[c].op = "change"
    BY <1>1 DEF CheckPassword, At, CallOk
  <2>2. /\ shown \in AuthCall /\ shown.pc = "savePw" /\ shown.user = u /\ shown.pw = new
        /\ shown.token = authCall[c].token /\ shown.op = "change"
    BY <2>1 DEF AuthCall, AuthPc
  <2>3. /\ Going(authCall[c], "denied") \in AuthCall
        /\ Going(authCall[c], "denied").pc = "denied"
    BY GoingOn DEF AuthPc
  <2>4. authCall' = [authCall EXCEPT ![c] = IF match THEN shown ELSE Going(authCall[c], "denied")]
    BY <1>1 DEF CheckPassword
  <2> HIDE DEF shown
  <2>5. /\ authCall' \in [Calls -> AuthCall]
        /\ \A d \in Calls \ {c} : authCall'[d] = authCall[d]
        /\ IF match THEN authCall'[c] = shown ELSE authCall'[c].pc = "denied"
    BY <2>2, <2>3, <2>4
  <2>6. proved' = IF match THEN proved \cup {<<c, u, p>>} ELSE proved
    BY <1>1 DEF CheckPassword
  <2>7. AccountsTypeOK'
    <3>1. proved' \subseteq Calls \X Users \X Passwords
      BY <2>1, <2>6 DEF AccountsTypeOK
    <3>2. InFlight(c)' => authCall'[c].user \in Users
      BY <2>1, <2>2, <2>5
    <3>3. \A d \in Calls : InFlight(d)' => authCall'[d].user \in Users
      BY <2>5, <3>2 DEF AccountsTypeOK
    <3>4. QED BY <1>1, <2>5, <3>1, <3>3 DEF CheckPassword, AccountsTypeOK
  <2>8. CallOk(c)'
    BY <2>1, <2>2, <2>5, <2>6 DEF CallOk
  <2>9. Registered' = Registered /\ (match => u \in Registered)
    BY <1>1, <2>1, AccountsAssumption DEF CheckPassword, Registered
  <2>10. QED BY OneCall, <1>1, <2>5, <2>6, <2>7, <2>8, <2>9 DEF CheckPassword
<1>2. ASSUME NEW u \in Users, RegisterByToken(c, u, p) PROVE AccountsInv'
  <2> DEFINE call == RegisterFind(u, p)
  <2>1. /\ call \in AuthCall /\ call.pc \in {"create", "denied"}
        /\ call.user = u /\ call.pw = p
    BY ZenonT(60) DEF RegisterFind, Idle, AuthCall, AuthPc, AuthOps, TokenKinds
  <2>2. authCall' = [authCall EXCEPT ![c] = Going(call, call.pc)]
    BY <1>2 DEF RegisterByToken
  <2> HIDE DEF call
  <2>3. /\ Going(call, call.pc) \in AuthCall /\ Going(call, call.pc).pc = call.pc
        /\ call.pc = "create" => Going(call, call.pc) = call
    BY ZenonT(60), <2>1 DEF Going, Idle, AuthCall, TokenKinds
  <2>4. /\ authCall' \in [Calls -> AuthCall]
        /\ \A d \in Calls \ {c} : authCall'[d] = authCall[d]
        /\ authCall'[c].pc \in {"create", "denied"}
        /\ authCall'[c].pc = "create" => authCall'[c].user = u /\ authCall'[c].pw = p
    BY <2>1, <2>2, <2>3
  <2>5. AccountsTypeOK'
    BY <1>2, <2>4 DEF RegisterByToken, AccountsTypeOK
  <2>6. CallOk(c)'
    BY <2>4 DEF CallOk
  <2>7. QED BY OneCall, <1>2, <2>4, <2>5, <2>6 DEF RegisterByToken, Registered
<1>3. QED BY <1>1, <1>2

-----------------------------------------------------------------------------
(* Requests begin, die, and time passes.                                   *)

\* A request may begin with whatever its program counter says nothing against.
LEMMA BeginOk ==
    ASSUME AccountsInv, NEW c \in Calls, NEW call \in AuthCall, Begin(c, call),
           call.pc \in {"save", "user", "del", "authed", "create", "rate", "dropCode", "savePw"}
                       \cup Ended,
           call.pc \notin Ended => call.user \in Users,
           call.pc \in {"del", "authed", "savePw"} => call.token \in Seconds,
           call.pc \in {"create", "savePw"} => call.pw \in Passwords,
           call.pc = "rate" => call.user \in Registered,
           call.pc = "dropCode" => <<call.code, call.user>> \in mailed,
           call.pc = "savePw" => call.op = "reset" /\ <<call.user, call.token>> \in granted,
           UNCHANGED <<password, keyVars, codeVars, now, chainVars, mailed, granted, proved,
                       spent, counted>>
    PROVE  AccountsInv'
<1> USE DEF keyVars, codeVars, chainVars
<1>1. /\ authCall' \in [Calls -> AuthCall]
      /\ \A d \in Calls \ {c} : authCall'[d] = authCall[d]
      /\ authCall'[c].pc = call.pc
      /\ call.pc \notin Ended => authCall'[c] = call
  BY Beginning
<1>2. AccountsTypeOK'
  BY <1>1 DEF AccountsInv, AccountsTypeOK, InFlight
<1>3. CallOk(c)'
  BY <1>1 DEF CallOk, Ended, Token, Registered
<1>4. QED BY OneCall, <1>1, <1>2, <1>3 DEF Registered

LEMMA BeginSteps ==
    ASSUME AccountsInv, NEW c \in Calls, BeginAuthCall(c)
    PROVE  AccountsInv'
<1> USE DEF grantVars, Ended
<1>1. ASSUME NEW u \in Users, NEW p \in Passwords, LoginFind(c, u, p) PROVE AccountsInv'
  <2> DEFINE call == [Idle EXCEPT !.op = "login", !.user = u, !.pw = p,
                                  !.pc = IF password[u] = p THEN "save" ELSE "denied"]
  <2>1. call \in AuthCall /\ call.pc \in {"save", "denied"} /\ call.user = u
    BY DEF Idle, AuthCall, AuthPc, AuthOps, TokenKinds
  <2>2. Begin(c, call)
    BY <1>1 DEF LoginFind
  <2> HIDE DEF call
  <2>3. QED BY BeginOk, <1>1, <2>1, <2>2 DEF LoginFind
<1>2. ASSUME NEW u \in Users, NEW p \in Passwords, RegisterSuperAdmin(c, u, p)
      PROVE  AccountsInv'
  <2> DEFINE call == RegisterFind(u, p)
  <2>1. /\ call \in AuthCall /\ call.pc \in {"create", "denied"}
        /\ call.user = u /\ call.pw = p
    BY DEF RegisterFind, Idle, AuthCall, AuthPc, AuthOps, TokenKinds
  <2>2. Begin(c, call)
    BY <1>2 DEF RegisterSuperAdmin
  <2> HIDE DEF call
  <2>3. QED BY BeginOk, <1>2, <2>1, <2>2 DEF RegisterSuperAdmin
<1>3. ASSUME NEW u \in Users, NEW t \in Seconds, RefreshGet(c, u, t) PROVE AccountsInv'
  <2> DEFINE call == [Idle EXCEPT !.op = "refresh", !.user = u, !.token = t, !.pw = chainPw[u],
                                  !.from = chain[u],
                                  !.pc = IF refreshKey[u] = t THEN "user" ELSE "denied"]
  <2>1. chainPw[u] \in Passwords \cup {None} /\ chain[u] \in SUBSET (Calls \cup Users)
    BY DEF AccountsInv, AccountsTypeOK
  <2>2. call \in AuthCall /\ call.pc \in {"user", "denied"} /\ call.user = u
    BY <2>1 DEF Idle, AuthCall, AuthPc, AuthOps, TokenKinds
  <2>3. Begin(c, call)
    BY <1>3 DEF RefreshGet
  <2> HIDE DEF call
  <2>4. QED BY BeginOk, <1>3, <2>2, <2>3 DEF RefreshGet
<1>4. ASSUME NEW u \in Users, NEW t \in Seconds, NEW op \in {"logout", "change", "register"},
             NEW kind \in TokenKinds, Authenticate(c, op, u, t, kind)
      PROVE  AccountsInv'
  <2> DEFINE call == [Idle EXCEPT !.op = op, !.user = u, !.token = t, !.kind = kind,
                                  !.pc = IF <<u, t, kind>> \in blacklist THEN "denied"
                                         ELSE IF op = "logout" THEN "del" ELSE "authed"]
  <2>1. /\ call \in AuthCall /\ call.pc \in {"del", "authed", "denied"}
        /\ call.user = u /\ call.token = t
    BY DEF Idle, AuthCall, AuthPc, AuthOps, TokenKinds
  <2>2. Begin(c, call)
    BY <1>4 DEF Authenticate
  <2> HIDE DEF call
  <2>3. QED BY BeginOk, <1>4, <2>1, <2>2 DEF Authenticate
<1>5. ASSUME NEW u \in Users, ForgotFind(c, u) PROVE AccountsInv'
  <2> DEFINE call == [Idle EXCEPT !.op = "forgot", !.user = u, !.pc = "rate"]
  <2>1. call \in AuthCall /\ call.pc = "rate" /\ call.user = u
    BY DEF Idle, AuthCall, AuthPc, AuthOps, TokenKinds
  <2>2. Begin(c, call) /\ u \in Registered
    BY <1>5 DEF ForgotFind
  <2> HIDE DEF call
  <2>3. QED BY BeginOk, <1>5, <2>1, <2>2 DEF ForgotFind
<1>6. ASSUME NEW u \in Users, NEW k \in Calls, VerifyGet(c, k, u) PROVE AccountsInv'
  <2> DEFINE call == [Idle EXCEPT !.op = "verify", !.user = u, !.code = k,
                         !.pc = IF otpKey[EmailOf[u]] = k THEN "dropCode" ELSE "denied"]
  <2>1. /\ call \in AuthCall /\ call.pc \in {"dropCode", "denied"}
        /\ call.user = u /\ call.code = k
    BY DEF Idle, AuthCall, AuthPc, AuthOps, TokenKinds
  <2>2. Begin(c, call) /\ <<k, u>> \in mailed
    BY <1>6 DEF VerifyGet
  <2> HIDE DEF call
  <2>3. QED BY BeginOk, <1>6, <2>1, <2>2 DEF VerifyGet
<1>7. ASSUME NEW g \in Users \X Seconds, NEW new \in Passwords, ResetGet(c, g, new)
      PROVE  AccountsInv'
  <2> DEFINE call == [Idle EXCEPT !.op = "reset", !.user = g[1], !.token = g[2], !.pw = new,
                         !.pc = IF g \in resetKeys /\ g[1] \notin Admins
                                THEN "savePw" ELSE "denied"]
  <2>1. /\ call \in AuthCall /\ call.pc \in {"savePw", "denied"} /\ call.op = "reset"
        /\ call.user = g[1] /\ call.token = g[2] /\ call.pw = new
    BY DEF Idle, AuthCall, AuthPc, AuthOps, TokenKinds
  <2>2. Begin(c, call) /\ <<g[1], g[2]>> \in granted
    BY <1>7 DEF ResetGet
  <2> HIDE DEF call
  <2>3. QED BY BeginOk, <1>7, <2>1, <2>2 DEF ResetGet
<1>8. QED BY <1>1, <1>2, <1>3, <1>4, <1>5, <1>6, <1>7 DEF BeginAuthCall

\* An instance dies, a second passes, a key expires.
LEMMA OtherSteps ==
    ASSUME AccountsInv, (\E c \in Calls : LoseAuthCall(c)) \/ AuthTimePasses
    PROVE  AccountsInv'
<1> USE DEF keyVars, codeVars, chainVars, grantVars
<1>1. ASSUME NEW c \in Calls, LoseAuthCall(c) PROVE AccountsInv'
  <2>1. Kept(c) /\ authCall'[c].pc = "lost"
    BY Stepping, <1>1 DEF LoseAuthCall, AuthPc
  <2>2. AccountsTypeOK'
    BY <1>1, <2>1 DEF LoseAuthCall, AccountsInv, AccountsTypeOK, Kept, InFlight, Ended
  <2>3. CallOk(c)'
    BY <2>1 DEF CallOk
  <2>4. QED BY OneCall, <1>1, <2>1, <2>2, <2>3 DEF LoseAuthCall, Registered, Kept
<1>2. CASE AuthTimePasses
  <2>1. /\ UNCHANGED <<password, keyVars, resetKeys, authCall, chainVars, mailed, granted,
                        proved>>
    BY <1>2 DEF AuthTimePasses, Tick, ExpireCode, ExpireRate
  <2>2. now' \in Seconds
    <3>1. CASE Tick
      BY <3>1, AccountsAssumption DEF Tick, AccountsInv, AccountsTypeOK, Seconds
    <3>2. CASE \E e \in Emails : ExpireCode(e) \/ ExpireRate(e)
      BY <3>2 DEF ExpireCode, ExpireRate, AccountsInv, AccountsTypeOK
    <3>3. QED BY <1>2, <3>1, <3>2 DEF AuthTimePasses
  <2>3. /\ otpKey' \in [Emails -> Calls \cup {None}] /\ otpRate' \in [Emails -> Nat]
        /\ counted' \in [Emails -> SUBSET Calls]
    BY <1>2 DEF AuthTimePasses, Tick, ExpireCode, ExpireRate, AccountsInv, AccountsTypeOK
  <2>4. AccountsTypeOK'
    BY <2>1, <2>2, <2>3 DEF AccountsInv, AccountsTypeOK, InFlight
  <2>5. QED BY <2>1, <2>4 DEF AccountsInv, CallOk, Token, AccountsExist, Registered
<1>3. QED BY <1>1, <1>2

LEMMA AccountsInvStep == ASSUME AccountsInv, [PlatformNext]_platformVars PROVE AccountsInv'
<1>1. ASSUME NEW c \in Calls, AuthStep(c) PROVE AccountsInv'
  BY <1>1, SessionSteps, CodeSteps, TokenSteps DEF AuthStep
<1>2. CASE UNCHANGED accountVars
  BY <1>2 DEF accountVars, keyVars, codeVars, chainVars, grantVars, AccountsInv,
     AccountsTypeOK, InFlight, CallOk, Token, AccountsExist, Registered
<1>3. QED BY <1>1, <1>2, AccountSteps, BeginSteps, OtherSteps

\* The variables of accounts, tenants and the rate limiter keep their types.
THEOREM PlatformTypes == PlatformSpec => []PlatformTypeOK
<1> DEFINE Inv == AccountsInv /\ lostCalls \in Nat
<1>1. PlatformInit => Inv
  BY AccountsInvInit DEF PlatformInit
<1>2. Inv /\ [PlatformNext]_platformVars => Inv'
  <2>1. ASSUME lostCalls \in Nat, [PlatformNext]_platformVars PROVE lostCalls' \in Nat
    BY <2>1 DEF PlatformNext, AccountsNext, TenancyNext, LimitNext, CallDies, platformVars
  <2>2. QED BY <2>1, AccountsInvStep
<1>3. Inv /\ TenancyTypeOK /\ LimitTypeOK => PlatformTypeOK
  BY DEF PlatformTypeOK, AccountsInv
<1> HIDE DEF Inv
<1>4. QED BY <1>1, <1>2, <1>3, TenantsWhole, CountersEndHolds, PTL DEF PlatformSpec

-----------------------------------------------------------------------------
(* Passwords change only as Credentials allows.                            *)

LEMMA PromiseStep ==
    ASSUME AccountsInv, [PlatformNext]_platformVars
    PROVE  [Promise!CredNext]_(Promise!credVars)
<1> USE DEF keyVars, codeVars, chainVars, grantVars
<1> DEFINE Stutter == UNCHANGED <<password, mailed, proved, granted>>
           Goal == Promise!CredNext \/ Stutter
<1>1. SUFFICES Goal
  BY DEF Promise!credVars
<1>2. ASSUME NEW c \in Calls, CreateUser(c) PROVE Goal
  <2> DEFINE u == authCall[c].user
  <2>1. u \in Users /\ authCall[c].pw \in Passwords
    BY <1>2 DEF CreateUser, At, AccountsInv, AccountsTypeOK, CallOk, InFlight, Ended
  <2>2. Stutter \/ Promise!Open(u, authCall[c].pw)
    BY <1>2 DEF CreateUser, Promise!Open
  <2>3. QED BY <2>1, <2>2 DEF Promise!CredNext
<1>3. ASSUME NEW c \in Calls, NEW p \in Passwords, NEW new \in Passwords,
             CheckPassword(c, p, new)
      PROVE  Goal
  <2> DEFINE u == authCall[c].user
  <2>1. u \in Users
    BY <1>3 DEF CheckPassword, At, AccountsInv, AccountsTypeOK, InFlight, Ended
  <2>2. Stutter \/ Promise!Prove(c, u)
    BY <1>3, AccountsAssumption DEF CheckPassword, Promise!Prove
  <2>3. QED BY <2>1, <2>2 DEF Promise!CredNext
<1>4. ASSUME NEW c \in Calls, SavePassword(c) PROVE Goal
  <2> DEFINE u == authCall[c].user
  <2>1. /\ u \in Users /\ authCall[c].pw \in Passwords
        /\ \/ \E p \in Passwords : <<c, u, p>> \in proved
           \/ authCall[c].token \in Seconds /\ <<u, authCall[c].token>> \in granted
    BY <1>4 DEF SavePassword, At, AccountsInv, AccountsTypeOK, CallOk, Token, InFlight, Ended
  <2>2. password[u] # None
    BY <2>1 DEF AccountsInv, AccountsExist, Registered
  <2>3. Promise!ChangePassword(u, authCall[c].pw)
    BY <1>4, <2>1, <2>2 DEF SavePassword, Promise!ChangePassword
  <2>4. QED BY <2>1, <2>3 DEF Promise!CredNext
<1>5. ASSUME NEW c \in Calls, MailCode(c) PROVE Goal
  <2>1. authCall[c].user \in Users
    BY <1>5 DEF MailCode, At, AccountsInv, AccountsTypeOK, InFlight, Ended
  <2>2. Stutter \/ Promise!MailCode(c, authCall[c].user)
    BY <1>5 DEF MailCode, Promise!MailCode
  <2>3. QED BY <2>1, <2>2 DEF Promise!CredNext
<1>6. ASSUME NEW c \in Calls, StoreGrant(c) PROVE Goal
  <2> DEFINE call == authCall[c]
  <2>1. call.user \in Users /\ call.mint \in Seconds /\ <<call.code, call.user>> \in mailed
    BY <1>6 DEF StoreGrant, At, AccountsInv, AccountsTypeOK, CallOk, InFlight, Ended
  <2>2. call.code \in Calls
    BY <2>1 DEF AccountsInv, AccountsTypeOK
  <2>3. Promise!Redeem(call.code, call.user, call.mint)
    BY <1>6, <2>1 DEF StoreGrant, Promise!Redeem
  <2>4. QED BY <2>1, <2>2, <2>3 DEF Promise!CredNext
<1>7. ASSUME NEW c \in Calls,
             \/ SaveLastLogin(c) \/ RefreshFindUser(c) \/ StoreRefresh(c) \/ DeleteRefresh(c)
             \/ BlacklistToken(c) \/ ReadRate(c) \/ SetCode(c) \/ SetRate(c)
             \/ DropCode(c) \/ DropGrant(c)
             \/ \E u \in Users, p \in Passwords : RegisterByToken(c, u, p)
      PROVE  Stutter
  BY <1>7 DEF SaveLastLogin, RefreshFindUser, StoreRefresh, DeleteRefresh, BlacklistToken,
     ReadRate, SetCode, SetRate, DropCode, DropGrant, RegisterByToken
<1>8. ASSUME NEW c \in Calls, BeginAuthCall(c) \/ LoseAuthCall(c) PROVE Stutter
  BY ZenonT(60), <1>8 DEF BeginAuthCall, LoginFind, RegisterSuperAdmin, RefreshGet,
     Authenticate, ForgotFind, VerifyGet, ResetGet, LoseAuthCall
<1>9. CASE AuthTimePasses
  BY <1>9 DEF AuthTimePasses, Tick, ExpireCode, ExpireRate
<1>10. CASE UNCHANGED accountVars
  BY <1>10 DEF accountVars
<1>11. ASSUME NEW c \in Calls, AuthStep(c) PROVE Goal
  BY <1>2, <1>3, <1>4, <1>5, <1>6, <1>7, <1>11 DEF AuthStep
<1>12. QED BY AccountSteps, <1>8, <1>9, <1>10, <1>11

\* Whatever the interleaving of requests, deaths and expiries, a password changes only on a
\* proof of the one the account had or on a grant bought with a code mailed for the account
\* (auth/service.ts:394-422, 437-535).
THEOREM PasswordsAsPromised == PlatformSpec => CredentialsKept
<1>1. PlatformInit => AccountsInv /\ Promise!CredInit
  BY AccountsInvInit, AccountsAssumption DEF PlatformInit, AccountsInit, Promise!CredInit
<1>2. AccountsInv /\ [PlatformNext]_platformVars => AccountsInv'
  BY AccountsInvStep
<1>3. AccountsInv /\ [PlatformNext]_platformVars => [Promise!CredNext]_(Promise!credVars)
  BY PromiseStep
<1>4. QED BY <1>1, <1>2, <1>3, PTL DEF PlatformSpec, CredentialsKept, Promise!CredSpec

-----------------------------------------------------------------------------
(* A code or grant that was used up is not read again.                     *)

\* What holds of the code k under the key of the email e.
HeldCode(e, k) ==
    /\ authCall[k].pc \in {"setRate", "mail"} \cup Ended
    /\ authCall[k].pc \in {"setRate", "mail"} => EmailOf[authCall[k].user] = e
    /\ \A u \in Users : <<k, u>> \in mailed => EmailOf[u] = e

CodesInv ==
    /\ late = {}
    /\ resetKeys \cap spent = {}
    /\ \A k \in Calls, u \in Users : <<k, u>> \in mailed => authCall[k].pc \in Ended
    /\ \A k \in Calls \cap spent : authCall[k].pc \in Ended /\ \A e \in Emails : otpKey[e] # k
    /\ \A e \in Emails, k \in Calls : otpKey[e] = k => HeldCode(e, k)

\* A request that begins was idle, and the others go on as they were.
LEMMA Beginners ==
    ASSUME NEW c \in Calls, BeginAuthCall(c), authCall \in [Calls -> AuthCall]
    PROVE  authCall[c].pc = "idle" /\ \A d \in Calls \ {c} : authCall'[d] = authCall[d]
<1> DEFINE Goal == authCall[c].pc = "idle" /\ \A d \in Calls \ {c} : authCall'[d] = authCall[d]
<1>1. ASSUME NEW call, Begin(c, call) PROVE Goal
  BY <1>1 DEF Begin, At
<1> HIDE DEF Goal
<1>2. ASSUME NEW u \in Users, NEW p \in Passwords, LoginFind(c, u, p) PROVE Goal
  BY <1>1, <1>2 DEF LoginFind
<1>3. ASSUME NEW u \in Users, NEW p \in Passwords, RegisterSuperAdmin(c, u, p) PROVE Goal
  BY <1>1, <1>3 DEF RegisterSuperAdmin
<1>4. ASSUME NEW u \in Users, NEW t \in Seconds, RefreshGet(c, u, t) PROVE Goal
  BY <1>1, <1>4 DEF RefreshGet
<1>5. ASSUME NEW u \in Users, NEW t \in Seconds, NEW op \in {"logout", "change", "register"},
             NEW kind \in TokenKinds, Authenticate(c, op, u, t, kind)
      PROVE  Goal
  BY <1>1, <1>5 DEF Authenticate
<1>6. ASSUME NEW u \in Users, ForgotFind(c, u) PROVE Goal
  BY <1>1, <1>6 DEF ForgotFind
<1>7. ASSUME NEW u \in Users, NEW k \in Calls, VerifyGet(c, k, u) PROVE Goal
  BY <1>1, <1>7 DEF VerifyGet
<1>8. ASSUME NEW g \in Users \X Seconds, NEW new \in Passwords, ResetGet(c, g, new) PROVE Goal
  BY <1>1, <1>8 DEF ResetGet
<1>9. Goal
  BY <1>2, <1>3, <1>4, <1>5, <1>6, <1>7, <1>8 DEF BeginAuthCall
<1>10. QED BY <1>9 DEF Goal

\* A step is made by one call, which had not ended.
LEMMA Movers ==
    ASSUME AccountsInv, NEW c \in Calls, AuthStep(c) \/ BeginAuthCall(c) \/ LoseAuthCall(c)
    PROVE  authCall[c].pc \notin Ended /\ \A d \in Calls \ {c} : authCall'[d] = authCall[d]
<1> USE DEF At, Step, Sign, Ended
<1>1. authCall \in [Calls -> AuthCall]
  BY DEF AccountsInv, AccountsTypeOK
<1>2. CASE \/ SaveLastLogin(c) \/ RefreshFindUser(c) \/ StoreRefresh(c) \/ SavePassword(c)
           \/ DeleteRefresh(c) \/ BlacklistToken(c) \/ CreateUser(c)
  BY <1>1, <1>2 DEF SaveLastLogin, RefreshFindUser, StoreRefresh, SavePassword, DeleteRefresh,
     BlacklistToken, CreateUser
<1>3. CASE \/ ReadRate(c) \/ SetCode(c) \/ SetRate(c) \/ MailCode(c)
           \/ DropCode(c) \/ StoreGrant(c) \/ DropGrant(c)
  BY <1>1, <1>3 DEF ReadRate, SetCode, SetRate, MailCode, DropCode, StoreGrant, DropGrant
<1>4. CASE \/ \E p, new \in Passwords : CheckPassword(c, p, new)
           \/ \E u \in Users, p \in Passwords : RegisterByToken(c, u, p)
  BY <1>1, <1>4 DEF CheckPassword, RegisterByToken
<1>5. CASE BeginAuthCall(c)
  BY <1>1, <1>5, Beginners
<1>6. CASE LoseAuthCall(c)
  BY <1>1, <1>6 DEF LoseAuthCall, InFlight
<1>7. QED BY <1>2, <1>3, <1>4, <1>5, <1>6 DEF AuthStep

\* A step that leaves codes and grants alone, of a call that no key holds the code of or that
\* ends with it.
LEMMA QuietSteps ==
    ASSUME CodesInv, NEW c \in Calls, authCall[c].pc \notin Ended,
           \A d \in Calls \ {c} : authCall'[d] = authCall[d],
           UNCHANGED <<otpKey, resetKeys, mailed, spent, late>>,
           authCall[c].pc \in {"setRate", "mail"} =>
              \/ authCall'[c].pc \in Ended
              \/ /\ authCall'[c].pc \in {"setRate", "mail"}
                 /\ authCall'[c].user = authCall[c].user
    PROVE  CodesInv'
<1>1. ASSUME NEW e \in Emails, NEW k \in Calls, otpKey[e] = k PROVE HeldCode(e, k)'
  <2>1. HeldCode(e, k)
    BY <1>1 DEF CodesInv
  <2>2. CASE k = c
    BY <2>1, <2>2 DEF HeldCode, Ended
  <2>3. CASE k # c
    BY <2>1, <2>3 DEF HeldCode
  <2>4. QED BY <2>2, <2>3
<1>2. QED BY <1>1 DEF CodesInv

LEMMA CodesStep ==
    ASSUME AccountsInv, CodesInv, [PlatformNext]_platformVars PROVE CodesInv'
<1> USE DEF keyVars, codeVars, chainVars, grantVars
<1> /\ AccountsTypeOK /\ \A u \in Users : EmailOf[u] \in Emails
    /\ resetKeys \subseteq Users \X Seconds
  BY DEF AccountsInv, AccountsTypeOK, Emails
<1>1. ASSUME NEW c \in Calls,
             \/ SaveLastLogin(c) \/ RefreshFindUser(c) \/ StoreRefresh(c) \/ SavePassword(c)
             \/ DeleteRefresh(c) \/ BlacklistToken(c) \/ CreateUser(c) \/ ReadRate(c)
             \/ \E p, new \in Passwords : CheckPassword(c, p, new)
             \/ \E u \in Users, p \in Passwords : RegisterByToken(c, u, p)
      PROVE  CodesInv'
  <2>1. authCall[c].pc \notin Ended /\ \A d \in Calls \ {c} : authCall'[d] = authCall[d]
    BY <1>1, Movers DEF AuthStep
  <2>2. /\ authCall[c].pc \notin {"setRate", "mail"}
        /\ UNCHANGED <<otpKey, resetKeys, mailed, spent, late>>
    BY <1>1 DEF SaveLastLogin, RefreshFindUser, StoreRefresh, SavePassword, DeleteRefresh,
       BlacklistToken, CreateUser, ReadRate, CheckPassword, RegisterByToken, At
  <2>3. QED BY QuietSteps, <2>1, <2>2
<1>2. ASSUME NEW c \in Calls, SetCode(c) PROVE CodesInv'
  <2> DEFINE e0 == EmailOf[authCall[c].user]
  <2>1. /\ authCall[c].pc = "setCode" /\ \A d \in Calls \ {c} : authCall'[d] = authCall[d]
        /\ authCall'[c].pc = "setRate" /\ authCall'[c].user = authCall[c].user
        /\ authCall[c].user \in Users
    BY <1>2, Movers, Stepping
       DEF AuthStep, SetCode, At, AuthPc, Kept, Ended, AccountsTypeOK, InFlight
  <2>2. otpKey' = [otpKey EXCEPT ![e0] = c] /\ UNCHANGED <<resetKeys, mailed, spent, late>>
    BY <1>2 DEF SetCode
  <2>3. c \notin spent /\ \A u \in Users : <<c, u>> \notin mailed
    BY <2>1 DEF CodesInv, Ended
  <2>4. \A e \in Emails : otpKey'[e] = IF e = e0 THEN c ELSE otpKey[e]
    BY <2>1, <2>2 DEF AccountsTypeOK
  <2>5. ASSUME NEW e \in Emails, NEW k \in Calls, otpKey'[e] = k PROVE HeldCode(e, k)'
    <3>1. CASE k = c
      <4>1. e = e0
        BY <2>1, <2>4, <2>5, <3>1 DEF CodesInv, HeldCode, Ended
      <4>2. QED BY <2>1, <2>2, <2>3, <3>1, <4>1 DEF HeldCode, Ended
    <3>2. CASE k # c
      BY <2>1, <2>2, <2>4, <2>5, <3>2 DEF CodesInv, HeldCode
    <3>3. QED BY <3>1, <3>2
  <2>6. QED BY <2>1, <2>2, <2>3, <2>4, <2>5 DEF CodesInv, Ended
<1>3. ASSUME NEW c \in Calls, SetRate(c) PROVE CodesInv'
  <2>1. /\ authCall[c].pc = "setRate" /\ \A d \in Calls \ {c} : authCall'[d] = authCall[d]
        /\ authCall'[c].pc = "mail" /\ authCall'[c].user = authCall[c].user
    BY <1>3, Movers, Stepping DEF AuthStep, SetRate, At, AuthPc, Kept, Ended
  <2>2. UNCHANGED <<otpKey, resetKeys, mailed, spent, late>>
    BY <1>3 DEF SetRate
  <2>3. QED BY QuietSteps, <2>1, <2>2 DEF Ended
<1>4. ASSUME NEW c \in Calls, MailCode(c) PROVE CodesInv'
  <2>1. /\ authCall[c].pc = "mail" /\ \A d \in Calls \ {c} : authCall'[d] = authCall[d]
        /\ authCall'[c].pc \in {"done", "failed"}
    BY <1>4, Movers, Stepping DEF AuthStep, MailCode, At, AuthPc
  <2>2. /\ mailed' \subseteq mailed \cup {<<c, authCall[c].user>>}
        /\ UNCHANGED <<otpKey, resetKeys, spent, late>>
    BY <1>4 DEF MailCode
  <2>3. ASSUME NEW e \in Emails, NEW k \in Calls, otpKey[e] = k PROVE HeldCode(e, k)'
    <3>1. HeldCode(e, k)
      BY <2>3 DEF CodesInv
    <3>2. CASE k = c
      BY <2>1, <2>2, <3>1, <3>2 DEF HeldCode, Ended
    <3>3. CASE k # c
      BY <2>1, <2>2, <3>1, <3>3 DEF HeldCode
    <3>4. QED BY <3>2, <3>3
  <2>4. ASSUME NEW k \in Calls, NEW u \in Users, <<k, u>> \in mailed'
        PROVE  authCall'[k].pc \in Ended
    BY <2>1, <2>2, <2>4 DEF CodesInv, Ended
  <2>5. ASSUME NEW k \in Calls \cap spent PROVE authCall'[k].pc \in Ended
    BY <2>1 DEF CodesInv, Ended
  <2>6. QED BY <2>2, <2>3, <2>4, <2>5 DEF CodesInv
<1>5. ASSUME NEW c \in Calls, DropCode(c) PROVE CodesInv'
  <2> DEFINE k0 == authCall[c].code
             e0 == EmailOf[authCall[c].user]
  <2>1. /\ authCall[c].pc = "dropCode" /\ \A d \in Calls \ {c} : authCall'[d] = authCall[d]
        /\ authCall'[c].pc = "grant" /\ authCall[c].user \in Users
        /\ <<k0, authCall[c].user>> \in mailed
    BY <1>5, Movers, Signing
       DEF AuthStep, DropCode, At, AuthPc, AccountsInv, CallOk, InFlight, Ended, AccountsTypeOK
  <2>2. /\ otpKey' = [otpKey EXCEPT ![e0] = None] /\ spent' = spent \cup {k0}
        /\ UNCHANGED <<resetKeys, mailed, late>>
    BY <1>5 DEF DropCode
  <2>3. k0 \in Calls /\ authCall[k0].pc \in Ended /\ k0 # c
    <3>1. k0 \in Calls
      BY <2>1 DEF AccountsTypeOK
    <3>2. QED BY <2>1, <3>1 DEF CodesInv, Ended
  <2>4. \A e \in Emails : otpKey'[e] = IF e = e0 THEN None ELSE otpKey[e]
    BY <2>1, <2>2 DEF AccountsTypeOK
  <2>5. \A e \in Emails : otpKey'[e] # k0
    <3>1. \A e \in Emails : otpKey[e] = k0 => e = e0
      BY <2>1, <2>3 DEF CodesInv, HeldCode
    <3>2. QED BY <2>3, <2>4, <3>1, TenancyAssumption
  <2>6. ASSUME NEW e \in Emails, NEW k \in Calls, otpKey'[e] = k PROVE HeldCode(e, k)'
    <3>1. HeldCode(e, k) /\ k # c
      BY <2>1, <2>4, <2>6, TenancyAssumption DEF CodesInv, HeldCode, Ended
    <3>2. QED BY <2>1, <2>2, <3>1 DEF HeldCode
  <2>7. resetKeys' \cap spent' = {}
    BY <2>2, <2>3, AccountsAssumption DEF CodesInv
  <2>8. ASSUME NEW k \in Calls \cap spent'
        PROVE  authCall'[k].pc \in Ended /\ \A e \in Emails : otpKey'[e] # k
    <3>1. CASE k = k0
      BY <2>1, <2>3, <2>5, <3>1
    <3>2. CASE k # k0
      <4>1. authCall[k].pc \in Ended /\ k # c /\ \A e \in Emails : otpKey[e] # k
        BY <2>1, <2>2, <2>8, <3>2 DEF CodesInv, Ended
      <4>2. QED BY <2>1, <2>4, <4>1, TenancyAssumption
    <3>3. QED BY <3>1, <3>2
  <2>9. ASSUME NEW k \in Calls, NEW u \in Users, <<k, u>> \in mailed
        PROVE  authCall'[k].pc \in Ended
    BY <2>1, <2>9 DEF CodesInv, Ended
  <2>10. QED BY <2>2, <2>6, <2>7, <2>8, <2>9 DEF CodesInv
<1>6. ASSUME NEW c \in Calls, StoreGrant(c) \/ DropGrant(c) PROVE CodesInv'
  <2>1. /\ authCall[c].pc \in {"grant", "dropGrant"} /\ authCall[c].user \in Users
        /\ \A d \in Calls \ {c} : authCall'[d] = authCall[d]
        /\ authCall[c].pc = "grant" => authCall[c].mint \in Seconds
        /\ authCall[c].pc = "dropGrant" => authCall[c].token \in Seconds
    BY <1>6, Movers
       DEF AuthStep, StoreGrant, DropGrant, At, AccountsInv, CallOk, InFlight, Ended, AccountsTypeOK
  <2>2. PICK g \in Users \X Seconds :
           \/ resetKeys' = resetKeys \cup {g} /\ spent' = spent \ {g}
           \/ resetKeys' = resetKeys \ {g} /\ spent' = spent \cup {g}
    <3>1. CASE StoreGrant(c)
      BY <2>1, <3>1 DEF StoreGrant, At
    <3>2. CASE DropGrant(c)
      BY <2>1, <3>2 DEF DropGrant, At, Token
    <3>3. QED BY <1>6, <3>1, <3>2
  <2>3. UNCHANGED <<otpKey, mailed, late>>
    BY <1>6 DEF StoreGrant, DropGrant
  <2>4. resetKeys' \cap spent' = {} /\ Calls \cap spent' \subseteq Calls \cap spent
    BY <2>2, AccountsAssumption DEF CodesInv
  <2>5. ASSUME NEW e \in Emails, NEW k \in Calls, otpKey[e] = k PROVE HeldCode(e, k)'
    BY <2>1, <2>3, <2>5 DEF CodesInv, HeldCode, Ended
  <2>6. \A k \in Calls : authCall[k].pc \in Ended => authCall'[k].pc \in Ended
    BY <2>1 DEF Ended
  <2>7. QED BY <2>3, <2>4, <2>5, <2>6 DEF CodesInv
<1>7. ASSUME NEW c \in Calls, BeginAuthCall(c) \/ LoseAuthCall(c) PROVE CodesInv'
  <2>1. authCall[c].pc \notin Ended /\ \A d \in Calls \ {c} : authCall'[d] = authCall[d]
    BY <1>7, Movers
  <2>2. late' = late
    <3>1. CASE \E u \in Users, k \in Calls : VerifyGet(c, k, u)
      <4>1. PICK u \in Users, k \in Calls : VerifyGet(c, k, u)
        BY <3>1
      <4>2. ~(otpKey[EmailOf[u]] = k /\ k \in spent)
        BY DEF CodesInv
      <4>3. QED BY <4>1, <4>2 DEF VerifyGet
    <3>2. CASE \E g \in Users \X Seconds, new \in Passwords : ResetGet(c, g, new)
      BY <3>2 DEF ResetGet, CodesInv
    <3>3. QED BY <1>7, <3>1, <3>2 DEF BeginAuthCall, LoginFind, RegisterSuperAdmin, RefreshGet,
       Authenticate, ForgotFind, LoseAuthCall
  <2>3. UNCHANGED <<otpKey, resetKeys, mailed, spent>>
    BY ZenonT(60), <1>7 DEF BeginAuthCall, LoginFind, RegisterSuperAdmin, RefreshGet, Authenticate,
       ForgotFind, VerifyGet, ResetGet, LoseAuthCall
  <2>4. CASE BeginAuthCall(c)
    <3>1. authCall[c].pc = "idle"
      BY <2>4, Beginners DEF AccountsTypeOK
    <3>2. QED BY QuietSteps, <2>1, <2>2, <2>3, <3>1
  <2>5. CASE LoseAuthCall(c)
    <3>1. authCall'[c].pc = "lost"
      BY <2>5, Stepping DEF LoseAuthCall, AuthPc
    <3>2. QED BY QuietSteps, <2>1, <2>2, <2>3, <3>1 DEF Ended
  <2>6. QED BY <1>7, <2>4, <2>5
<1>8. CASE AuthTimePasses
  <2>1. /\ UNCHANGED <<authCall, resetKeys, mailed, spent, late>>
        /\ \A e \in Emails : otpKey'[e] = otpKey[e] \/ otpKey'[e] = None
    BY <1>8 DEF AuthTimePasses, Tick, ExpireCode, ExpireRate, AccountsTypeOK
  <2>2. \A e \in Emails, k \in Calls : otpKey'[e] = k => otpKey[e] = k
    BY <2>1, TenancyAssumption
  <2>3. QED BY <2>1, <2>2 DEF CodesInv, HeldCode
<1>9. CASE UNCHANGED accountVars
  BY <1>9 DEF accountVars, CodesInv, HeldCode
<1>10. ASSUME NEW c \in Calls, AuthStep(c) PROVE CodesInv'
  BY <1>1, <1>2, <1>3, <1>4, <1>5, <1>6, <1>10 DEF AuthStep
<1>11. QED BY AccountSteps, <1>7, <1>8, <1>9, <1>10

\* No request reads a code or a grant that a finished use has deleted: only those that read
\* before the deletion buy a second grant or password (auth/service.ts:482-497, 515-533).
THEOREM NothingSpentTwice == PlatformSpec => []SpentStaysSpent
<1>1. PlatformInit => AccountsInv /\ CodesInv
  <2> SUFFICES ASSUME PlatformInit PROVE AccountsInv /\ CodesInv
    OBVIOUS
  <2>1. AccountsInv
    BY AccountsInvInit DEF PlatformInit
  <2>2. CodesInv
    BY AccountsAssumption, TenancyAssumption DEF PlatformInit, AccountsInit, CodesInv, HeldCode
  <2>3. QED BY <2>1, <2>2
<1>2. AccountsInv /\ CodesInv /\ [PlatformNext]_platformVars => AccountsInv' /\ CodesInv'
  BY AccountsInvStep, CodesStep
<1>3. CodesInv => SpentStaysSpent
  BY DEF CodesInv, SpentStaysSpent
<1>4. QED BY <1>1, <1>2, <1>3, PTL DEF PlatformSpec

-----------------------------------------------------------------------------
(* Sessions: their lines, and what ends them.                              *)

\* Requests that have passed their check and will store a token, with what is known of the
\* session it continues.
Storing(c) == authCall[c].pc \in {"save", "user", "store"}

\* Sessions that were opened before, by requests that have ended.
Gone(x) == x \in Users \/ (x \in Calls /\ authCall[x].pc \in Ended)

\* The line of a user: what the stored token descends from, and what the tokens to be stored
\* will descend from.
InLine(x, u) ==
    \/ x \in chain[u]
    \/ \E c \in Calls : /\ Storing(c) /\ authCall[c].user = u
                        /\ x \in authCall[c].from

\* Lines are of ended requests, and no two users have a common one.
LinesInv ==
    /\ \A u \in Users, x \in Users \cup Calls : InLine(x, u) => Gone(x)
    /\ \A x \in signedOut : Gone(x)
    /\ \A u, v \in Users, x \in Users \cup Calls : InLine(x, u) /\ InLine(x, v) => u = v
    /\ \A c \in Calls : authCall[c].pc = "create" => authCall[c].from = {}

Overtaken(S) == S \cap overtaken # {}
Excused(S)   == S \cap signedOut # {} => Overtaken(S)

\* A change of u's password that has still to end the session.
Sweeping(d, u) == /\ authCall[d].user = u /\ authCall[d].op # "logout"
                  /\ authCall[d].pc \in {"dropGrant", "del"}

\* A session opened with p is u's of today, or excused.
Current(u, p, S) ==
    p = password[u] \/ u \in unswept \/ Overtaken(S) \/ \E d \in Calls : Sweeping(d, u)

StoredOk(u) == /\ u \in Registered
               /\ Excused(chain[u]) /\ Current(u, chainPw[u], chain[u])

PendingOk(c) == LET S == authCall[c].from \cup {c} IN
                /\ authCall[c].user \in Registered
                /\ Excused(S) /\ Current(authCall[c].user, authCall[c].pw, S)

SignOutInv == /\ LinesInv
              /\ \A u \in Users : refreshKey[u] # None => StoredOk(u)
              /\ \A c \in Calls : Storing(c) => PendingOk(c)

LEMMA SignOutInit == AccountsInit => SignOutInv
<1> SUFFICES ASSUME AccountsInit PROVE SignOutInv
  OBVIOUS
<1> USE AccountsAssumption
<1>1. /\ \A c \in Calls : authCall[c].pc = "idle" /\ authCall[c].from = {}
      /\ signedOut = {} /\ password = OldPassword /\ chainPw = OldPassword
      /\ chain = [u \in Users |-> IF u \in SignedIn THEN {u} ELSE {}]
      /\ refreshKey = [u \in Users |-> IF u \in SignedIn THEN 0 ELSE None]
  BY DEF AccountsInit, Idle
<1>2. \A u \in Users : \A x : InLine(x, u) => x = u
  BY <1>1 DEF InLine, Storing
<1>3. LinesInv
  BY <1>1, <1>2 DEF LinesInv, Gone
<1>4. \A u \in Users : refreshKey[u] # None => StoredOk(u)
  BY <1>1 DEF StoredOk, Registered, Excused, Current
<1>5. QED BY <1>1, <1>3, <1>4 DEF SignOutInv, Storing

-----------------------------------------------------------------------------
(* Steps that leave the keys of the sessions alone.                        *)

\* The request that makes the step comes to a token, if it does, by itself, by a password
\* that is the user's, or from the session that is stored.
LEMMA SteadySessions ==
    ASSUME AccountsInv, SignOutInv, NEW c \in Calls, authCall[c].pc \notin Ended,
           \A d \in Calls \ {c} : authCall'[d] = authCall[d],
           UNCHANGED <<refreshKey, chain, chainPw, signedOut, overtaken>>,
           Registered \subseteq Registered', unswept \subseteq unswept',
           \A u \in Users : password'[u] = password[u] \/ u \notin Registered \/ Sweeping(c, u)',
           \A u \in Users : Sweeping(c, u) => Sweeping(c, u)' \/ u \in unswept',
           authCall'[c].pc = "create" => authCall'[c].from = {},
           Storing(c)' =>
              /\ authCall'[c].user \in Registered'
              /\ \/ /\ Storing(c) /\ authCall'[c].user = authCall[c].user
                    /\ authCall'[c].pw = authCall[c].pw /\ authCall'[c].from = authCall[c].from
                 \/ /\ authCall'[c].from = {}
                    /\ authCall'[c].pw = password'[authCall'[c].user]
                 \/ /\ refreshKey[authCall'[c].user] # None
                    /\ authCall'[c].from = chain[authCall'[c].user]
                    /\ authCall'[c].pw = chainPw[authCall'[c].user]
    PROVE  SignOutInv'
<1>1. \A u \in Users, x \in Users \cup Calls : InLine(x, u)' => InLine(x, u)
  BY DEF InLine, Storing
<1>2. \A x : Gone(x) => Gone(x)' /\ x # c
  BY AccountsAssumption DEF Gone
<1>3. LinesInv'
  BY <1>1, <1>2 DEF SignOutInv, LinesInv
<1>4. c \notin signedOut
  BY <1>2 DEF SignOutInv, LinesInv
<1>5. ASSUME NEW u \in Registered, NEW p, NEW S, NEW T, S \subseteq T, Current(u, p, S)
      PROVE  Current(u, p, T)'
  <2>1. \A d \in Calls \ {c} : Sweeping(d, u) => Sweeping(d, u)'
    BY DEF Sweeping
  <2>2. (\E d \in Calls : Sweeping(d, u)) => u \in unswept' \/ \E d \in Calls : Sweeping(d, u)'
    BY <2>1 DEF Registered
  <2>3. QED BY <1>5, <2>2 DEF Current, Overtaken, Registered
<1>6. ASSUME NEW u \in Users, refreshKey[u] # None PROVE StoredOk(u)'
  <2>1. StoredOk(u)
    BY <1>6 DEF SignOutInv
  <2>2. QED BY <1>5, <2>1 DEF StoredOk, Excused, Overtaken
<1>7. ASSUME NEW d \in Calls, Storing(d)' PROVE PendingOk(d)'
  <2>1. CASE d # c
    <3>1. PendingOk(d) /\ authCall'[d] = authCall[d]
      BY <1>7, <2>1 DEF SignOutInv, Storing
    <3>2. QED BY <1>5, <3>1 DEF PendingOk, Excused, Overtaken
  <2>2. CASE /\ Storing(c) /\ d = c /\ authCall'[c].user = authCall[c].user
             /\ authCall'[c].pw = authCall[c].pw /\ authCall'[c].from = authCall[c].from
    <3>1. PendingOk(c)
      BY <2>2 DEF SignOutInv
    <3>2. QED BY <1>5, <2>2, <3>1 DEF PendingOk, Excused, Overtaken
  <2>3. CASE d = c /\ authCall'[c].from = {} /\ authCall'[c].pw = password'[authCall'[c].user]
    BY <1>4, <1>7, <2>3 DEF PendingOk, Excused, Current
  <2>4. CASE /\ d = c /\ refreshKey[authCall'[c].user] # None
             /\ authCall'[c].from = chain[authCall'[c].user]
             /\ authCall'[c].pw = chainPw[authCall'[c].user]
    <3>1. PICK u \in Users : u = authCall'[c].user
      BY <1>7, <2>4 DEF Registered
    <3>2. PICK p, S : p = chainPw[u] /\ S = chain[u]
      OBVIOUS
    <3>3. Excused(S) /\ Current(u, p, S) /\ u \in Registered
      BY <2>4, <3>1, <3>2 DEF SignOutInv, StoredOk
    <3>4. Current(u, p, S \cup {c})'
      BY <1>5, <3>3
    <3>5. Excused(S \cup {c})'
      BY <1>4, <3>3 DEF Excused, Overtaken
    <3>6. QED BY <1>7, <2>4, <3>1, <3>2, <3>4, <3>5 DEF PendingOk
  <2>5. QED BY <1>7, <2>1, <2>2, <2>3, <2>4
<1>8. QED BY <1>3, <1>6, <1>7 DEF SignOutInv

-----------------------------------------------------------------------------
(* Steps that store a token or delete one.                                 *)

LEMMA StoringStep ==
    ASSUME AccountsInv, SignOutInv, NEW c \in Calls, StoreRefresh(c) PROVE SignOutInv'
<1> USE DEF keyVars, chainVars
<1>1. PICK u \in Users : u = authCall[c].user
  BY DEF StoreRefresh, At, AccountsInv, AccountsTypeOK, InFlight, Ended
<1>2. /\ Kept(c) /\ authCall'[c].pc = "done" /\ authCall[c].pc = "store"
  BY Stepping DEF StoreRefresh, At, AuthPc
<1>3. /\ refreshKey \in [Users -> Seconds \cup {None}]
      /\ chainPw \in [Users -> Passwords \cup {None}]
      /\ chain \in [Users -> SUBSET (Calls \cup Users)]
  BY DEF AccountsInv, AccountsTypeOK
<1>4. PICK S, p : S = authCall[c].from \cup {c} /\ p = authCall[c].pw
  OBVIOUS
<1>5. /\ \A v \in Users \ {u} : /\ refreshKey'[v] = refreshKey[v] /\ chain'[v] = chain[v]
                                /\ chainPw'[v] = chainPw[v]
      /\ chain'[u] = S /\ chainPw'[u] = p
      /\ UNCHANGED <<password, signedOut, overtaken, unswept>>
  BY <1>1, <1>3, <1>4 DEF StoreRefresh
<1>6. \A d \in Calls : Storing(d)' => Storing(d) /\ d # c /\ authCall'[d] = authCall[d]
  BY <1>2 DEF Storing, Kept
<1>7. \A v \in Users, x \in Users \cup Calls : InLine(x, v)' => InLine(x, v) \/ (v = u /\ x = c)
  BY <1>1, <1>2, <1>4, <1>5, <1>6 DEF InLine, Storing
<1>8. \A x : (Gone(x) => Gone(x)' /\ x # c) /\ Gone(c)'
  BY <1>2, AccountsAssumption DEF Gone, Ended, Kept
<1>9. LinesInv'
  BY <1>2, <1>5, <1>7, <1>8 DEF SignOutInv, LinesInv, Kept
<1>10. ASSUME NEW v \in Users, NEW q, NEW T, Current(v, q, T) PROVE Current(v, q, T)'
  <2>1. \A d \in Calls : Sweeping(d, v) => Sweeping(d, v)'
    BY <1>2 DEF Sweeping, Kept
  <2>2. QED BY <1>5, <1>10, <2>1 DEF Current, Overtaken
<1>11. Excused(S) /\ Current(u, p, S) /\ u \in Registered
  BY <1>1, <1>2, <1>4 DEF SignOutInv, PendingOk, Storing
<1>12. ASSUME NEW v \in Users, refreshKey'[v] # None PROVE StoredOk(v)'
  <2>1. CASE v = u
    BY <1>5, <1>10, <1>11, <2>1 DEF StoredOk, Registered, Excused, Overtaken
  <2>2. CASE v # u
    <3>1. StoredOk(v)
      BY <1>5, <1>12, <2>2 DEF SignOutInv
    <3>2. QED BY <1>5, <1>10, <2>2, <3>1 DEF StoredOk, Registered, Excused, Overtaken
  <2>3. QED BY <2>1, <2>2
<1>13. ASSUME NEW d \in Calls, Storing(d)' PROVE PendingOk(d)'
  <2>1. PendingOk(d) /\ authCall'[d] = authCall[d]
    BY <1>6, <1>13 DEF SignOutInv
  <2>2. QED BY <1>5, <1>10, <2>1 DEF PendingOk, Registered, Excused, Overtaken
<1>14. QED BY <1>9, <1>12, <1>13 DEF SignOutInv

\* A deletion takes the stored token, and overtakes the requests that would store another.
LEMMA DeletingStep ==
    ASSUME AccountsInv, SignOutInv, NEW c \in Calls, DeleteRefresh(c) PROVE SignOutInv'
<1> USE DEF keyVars, chainVars
<1>1. PICK u \in Users : u = authCall[c].user
  BY DEF DeleteRefresh, At, AccountsInv, AccountsTypeOK, InFlight, Ended
<1>2. /\ Kept(c) /\ authCall'[c].pc \in {"done", "blacklist"} /\ authCall[c].pc = "del"
  BY Stepping DEF DeleteRefresh, AfterDelete, At, AuthPc
<1>3. /\ refreshKey \in [Users -> Seconds \cup {None}]
      /\ chain \in [Users -> SUBSET (Calls \cup Users)]
      /\ \A d \in Calls : authCall[d].from \subseteq Calls \cup Users
  BY DEF AccountsInv, AccountsTypeOK, AuthCall
<1>4. /\ UNCHANGED <<password, chain, chainPw, unswept>>
      /\ refreshKey'[u] = None /\ \A v \in Users \ {u} : refreshKey'[v] = refreshKey[v]
      /\ signedOut \subseteq signedOut' /\ signedOut' \subseteq signedOut \cup chain[u]
      /\ overtaken \subseteq overtaken'
      /\ \A d \in Calls : Storing(d) /\ authCall[d].user = u => d \in overtaken'
  BY <1>1, <1>3 DEF DeleteRefresh, Storing
<1>5. \A d \in Calls : Storing(d)' => Storing(d) /\ d # c /\ authCall'[d] = authCall[d]
  BY <1>2 DEF Storing, Kept
<1>6. \A v \in Users, x \in Users \cup Calls : InLine(x, v)' => InLine(x, v)
  BY <1>4, <1>5 DEF InLine
<1>7. \A x : Gone(x) => Gone(x)'
  BY <1>2, AccountsAssumption DEF Gone, Ended, Kept
<1>8. \A x \in chain[u] : x \in Users \cup Calls /\ InLine(x, u) /\ Gone(x)
  BY <1>3 DEF SignOutInv, LinesInv, InLine
<1>9. LinesInv'
  BY <1>2, <1>4, <1>6, <1>7, <1>8 DEF SignOutInv, LinesInv, Kept
<1>10. ASSUME NEW v \in Users \ {u}, NEW q, NEW T, Current(v, q, T) PROVE Current(v, q, T)'
  <2>1. \A d \in Calls : Sweeping(d, v) => Sweeping(d, v)'
    BY <1>1, <1>2 DEF Sweeping, Kept
  <2>2. QED BY <1>4, <1>10, <2>1 DEF Current, Overtaken
<1>11. ASSUME NEW v \in Users, refreshKey'[v] # None PROVE StoredOk(v)'
  <2>1. v # u /\ StoredOk(v)
    BY <1>4, <1>11 DEF SignOutInv
  <2>2. chain[v] \cap chain[u] = {}
    BY <1>8, <2>1 DEF SignOutInv, LinesInv, InLine
  <2>3. Excused(chain[v])'
    BY <1>4, <2>1, <2>2 DEF StoredOk, Excused, Overtaken
  <2>4. QED BY <1>4, <1>10, <2>1, <2>3 DEF StoredOk, Registered
<1>12. ASSUME NEW d \in Calls, Storing(d)' PROVE PendingOk(d)'
  <2>1. PendingOk(d) /\ Storing(d) /\ authCall'[d] = authCall[d]
    BY <1>5, <1>12 DEF SignOutInv
  <2>2. CASE authCall[d].user = u
    <3>1. d \in overtaken'
      BY <1>4, <2>1, <2>2
    <3>2. QED BY <1>4, <2>1, <3>1 DEF PendingOk, Registered, Excused, Overtaken, Current
  <2>3. CASE authCall[d].user # u
    <3>1. PICK v \in Users \ {u} : v = authCall[d].user
      BY <2>1, <2>3 DEF PendingOk, Registered
    <3>2. d \notin chain[u]
      BY <1>8, <2>1, AccountsAssumption DEF Gone, Storing, Ended
    <3>3. authCall[d].from \cap chain[u] = {}
      BY <1>8, <2>1, <3>1 DEF SignOutInv, LinesInv, InLine
    <3>4. PICK S, q : S = authCall[d].from \cup {d} /\ q = authCall[d].pw
      OBVIOUS
    <3>5. Excused(S) /\ Current(v, q, S)
      BY <2>1, <3>1, <3>4 DEF PendingOk
    <3>6. Excused(S)' /\ Current(v, q, S)'
      BY <1>4, <1>10, <3>2, <3>3, <3>4, <3>5 DEF Excused, Overtaken
    <3>7. QED BY <1>4, <2>1, <3>1, <3>4, <3>6 DEF PendingOk, Registered
  <2>4. QED BY <2>2, <2>3
<1>13. QED BY <1>9, <1>11, <1>12 DEF SignOutInv

-----------------------------------------------------------------------------
(* All other steps.                                                        *)

\* A request that is not about to store a token afterwards, and is no password change on its
\* way to the deletion, or goes on with that.
LEMMA OtherSessions ==
    ASSUME AccountsInv, SignOutInv, NEW c \in Calls, authCall[c].pc \notin Ended,
           \A d \in Calls \ {c} : authCall'[d] = authCall[d],
           UNCHANGED <<password, refreshKey, chain, chainPw, signedOut, overtaken>>,
           unswept \subseteq unswept', ~Storing(c)',
           authCall'[c].pc = "create" => authCall'[c].from = {},
           \A u \in Users : Sweeping(c, u) => Sweeping(c, u)' \/ u \in unswept'
    PROVE  SignOutInv'
BY SteadySessions DEF Registered

LEMMA AwaitsOfSessions ==
    ASSUME AccountsInv, SignOutInv, NEW c \in Calls,
           \/ SaveLastLogin(c) \/ RefreshFindUser(c) \/ SavePassword(c) \/ BlacklistToken(c)
           \/ CreateUser(c)
    PROVE  SignOutInv'
<1> USE DEF keyVars, chainVars
<1>1. /\ authCall \in [Calls -> AuthCall] /\ authCall[c] \in AuthCall /\ CallOk(c)
      /\ InFlight(c) => authCall[c].user \in Users
      /\ password \in [Users -> Passwords \cup {None}]
  BY DEF AccountsInv, AccountsTypeOK
<1>2. ASSUME NEW pc, Sign(c, pc) PROVE authCall'[c].from = authCall[c].from
  BY <1>1, <1>2 DEF Sign, AuthCall
<1>3. CASE SaveLastLogin(c) \/ (RefreshFindUser(c) /\ authCall[c].user \notin Admins)
  <2>1. /\ Kept(c) /\ authCall'[c].pc = "store" /\ authCall'[c].from = authCall[c].from
        /\ Storing(c)
    BY <1>2, <1>3, Signing DEF SaveLastLogin, RefreshFindUser, At, AuthPc, Storing
  <2>2. authCall[c].user \in Registered
    BY <2>1 DEF SignOutInv, PendingOk
  <2>3. UNCHANGED <<password, refreshKey, chain, chainPw, signedOut, overtaken, unswept>>
    BY <1>3 DEF SaveLastLogin, RefreshFindUser
  <2>4. QED BY SteadySessions, <2>1, <2>2, <2>3
        DEF Kept, Ended, Storing, Registered, Sweeping
<1>4. CASE \/ RefreshFindUser(c) /\ authCall[c].user \in Admins
           \/ BlacklistToken(c)
  <2>1. /\ Kept(c) /\ authCall'[c].pc \in {"denied", "done"}
        /\ authCall[c].pc \in {"user", "blacklist"}
    BY <1>4, Stepping DEF RefreshFindUser, BlacklistToken, At, AuthPc
  <2>2. UNCHANGED <<password, refreshKey, chain, chainPw, signedOut, overtaken, unswept>>
    BY <1>4 DEF RefreshFindUser, BlacklistToken
  <2>3. QED BY OtherSessions, <2>1, <2>2 DEF Kept, Ended, Storing, Sweeping
<1>5. CASE SavePassword(c)
  <2>1. /\ Kept(c) /\ authCall'[c].pc \in {"dropGrant", "del"} /\ authCall[c].pc = "savePw"
        /\ authCall[c].op \in {"change", "reset"} /\ authCall[c].user \in Users
        /\ authCall[c].pw \in Passwords
    BY <1>1, <1>5, Stepping DEF SavePassword, At, AuthPc, CallOk, InFlight, Ended
  <2>2. PICK u \in Users : u = authCall[c].user
    BY <2>1
  <2>3. Sweeping(c, u)' /\ \A v \in Users : ~Sweeping(c, v)
    BY <2>1, <2>2 DEF Sweeping, Kept, Ended
  <2>4. /\ UNCHANGED <<refreshKey, chain, chainPw, signedOut, overtaken, unswept>>
        /\ password' = [password EXCEPT ![u] = authCall[c].pw]
    BY <1>5, <2>2 DEF SavePassword
  <2>5. /\ \A v \in Users \ {u} : password'[v] = password[v]
        /\ password'[u] # None
    BY <1>1, <2>1, <2>4, AccountsAssumption
  <2>6. Registered \subseteq Registered'
    BY <2>5 DEF Registered
  <2>7. \A v \in Users : password'[v] = password[v] \/ Sweeping(c, v)'
    BY <2>3, <2>5
  <2>8. QED BY SteadySessions, <2>1, <2>3, <2>4, <2>6, <2>7 DEF Kept, Ended, Storing
<1>6. CASE CreateUser(c) /\ authCall'[c].pc = "failed"
  <2>1. authCall[c].pc = "create" /\ ~Sign(c, "store")
    BY <1>6, Signing DEF CreateUser, At, AuthPc
  <2>2. Step(c, "failed") /\ UNCHANGED password
    BY <1>6, <2>1 DEF CreateUser
  <2>3. Kept(c)
    BY <2>2, Stepping DEF AuthPc
  <2>4. UNCHANGED <<refreshKey, chain, chainPw, signedOut, overtaken, unswept>>
    BY <1>6 DEF CreateUser
  <2>5. QED BY OtherSessions, <1>6, <2>1, <2>2, <2>3, <2>4 DEF Kept, Ended, Storing, Sweeping
<1>7. CASE CreateUser(c) /\ authCall'[c].pc # "failed"
  <2> DEFINE u == authCall[c].user
  <2>1. /\ Kept(c) /\ authCall'[c].pc = "store" /\ authCall'[c].from = authCall[c].from
        /\ authCall[c].pc = "create" /\ u \in Users /\ authCall[c].pw \in Passwords
        /\ password[u] = None
        /\ password' = [password EXCEPT ![u] = authCall[c].pw]
    <3>1. authCall[c].pc = "create" /\ ~Step(c, "failed")
      BY <1>7, Stepping DEF CreateUser, At, AuthPc
    <3>2. /\ Sign(c, "store") /\ password[u] = None
          /\ password' = [password EXCEPT ![u] = authCall[c].pw]
      BY <1>7, <3>1 DEF CreateUser
    <3>3. QED BY <1>1, <1>2, <3>1, <3>2, Signing DEF CallOk, InFlight, Ended, AuthPc
  <2>2. UNCHANGED <<refreshKey, chain, chainPw, signedOut, overtaken, unswept>>
    BY <1>7 DEF CreateUser
  <2>3. /\ Registered \subseteq Registered' /\ u \in Registered' /\ password'[u] = authCall[c].pw
        /\ \A v \in Users : password'[v] = password[v] \/ v \notin Registered
    BY <1>1, <2>1, AccountsAssumption DEF Registered
  <2>4. authCall[c].from = {}
    BY <2>1 DEF SignOutInv, LinesInv
  <2>5. QED BY SteadySessions, <2>1, <2>2, <2>3, <2>4 DEF Kept, Ended, Storing, Sweeping
<1>8. QED BY <1>3, <1>4, <1>5, <1>6, <1>7

LEMMA AwaitsOfCodes ==
    ASSUME AccountsInv, SignOutInv, NEW c \in Calls,
           \/ ReadRate(c) \/ SetCode(c) \/ SetRate(c) \/ MailCode(c)
           \/ DropCode(c) \/ StoreGrant(c) \/ DropGrant(c)
    PROVE  SignOutInv'
<1> USE DEF keyVars, chainVars
<1>1. UNCHANGED <<password, refreshKey, chain, chainPw, signedOut, overtaken, unswept>>
  BY DEF ReadRate, SetCode, SetRate, MailCode, DropCode, StoreGrant, DropGrant
<1>2. /\ authCall \in [Calls -> AuthCall] /\ authCall[c] \in AuthCall
      /\ authCall[c].pc \notin Ended
      /\ \A d \in Calls \ {c} : authCall'[d] = authCall[d]
  BY Movers DEF AccountsInv, AccountsTypeOK, AuthStep
<1>3. CASE DropGrant(c)
  <2>1. Kept(c) /\ authCall'[c].pc = "del" /\ authCall[c].pc = "dropGrant"
    BY <1>3, Stepping DEF DropGrant, At, AuthPc
  <2>2. QED BY OtherSessions, <1>1, <1>2, <2>1 DEF Kept, Ended, Storing, Sweeping
<1>4. CASE ReadRate(c)
  <2>1. authCall[c].pc = "rate" /\ authCall'[c].pc \in {"denied", "setCode"}
    BY <1>2, <1>4 DEF ReadRate, At, Going, Idle, AuthCall
  <2>2. QED BY OtherSessions, <1>1, <1>2, <2>1 DEF Storing, Sweeping
<1>5. CASE SetCode(c) \/ SetRate(c) \/ MailCode(c) \/ StoreGrant(c)
  <2>1. /\ authCall[c].pc \in {"setCode", "setRate", "mail", "grant"}
        /\ authCall'[c].pc \in {"setRate", "mail", "done", "failed"}
    BY <1>5, Stepping DEF SetCode, SetRate, MailCode, StoreGrant, At, AuthPc
  <2>2. QED BY SMTT(30), OtherSessions, <1>1, <1>2, <2>1 DEF Storing, Sweeping
<1>6. CASE DropCode(c)
  <2>1. authCall[c].pc = "dropCode" /\ authCall'[c].pc = "grant"
    BY <1>6, Signing DEF DropCode, At, AuthPc
  <2>2. QED BY OtherSessions, <1>1, <1>2, <2>1 DEF Storing, Sweeping
<1>7. QED BY <1>3, <1>4, <1>5, <1>6

LEMMA BearersOfTokens ==
    ASSUME AccountsInv, SignOutInv, NEW c \in Calls, NEW p \in Passwords,
           \/ \E new \in Passwords : CheckPassword(c, p, new)
           \/ \E u \in Users : RegisterByToken(c, u, p)
    PROVE  SignOutInv'
<1> USE DEF keyVars, chainVars
<1>1. UNCHANGED <<password, refreshKey, chain, chainPw, signedOut, overtaken, unswept>>
  BY DEF CheckPassword, RegisterByToken
<1>2. /\ authCall \in [Calls -> AuthCall] /\ authCall[c] \in AuthCall
      /\ authCall[c].pc = "authed"
      /\ \A d \in Calls \ {c} : authCall'[d] = authCall[d]
  BY DEF AccountsInv, AccountsTypeOK, CheckPassword, RegisterByToken, At
<1>3. ASSUME NEW new \in Passwords, CheckPassword(c, p, new)
      PROVE  authCall'[c].pc \in {"savePw", "denied"}
  <2> DEFINE shown == [authCall[c] EXCEPT !.pw = new, !.pc = "savePw"]
             none  == Going(authCall[c], "denied")
  <2>1. shown.pc = "savePw" /\ none.pc = "denied"
    BY <1>2, GoingOn DEF AuthCall, AuthPc
  <2>2. authCall'[c] \in {shown, none}
    BY <1>2, <1>3 DEF CheckPassword
  <2> HIDE DEF shown, none
  <2>3. QED BY <2>1, <2>2
<1>4. ASSUME NEW u \in Users, RegisterByToken(c, u, p)
      PROVE  /\ authCall'[c].pc \in {"create", "denied"}
             /\ authCall'[c].pc = "create" => authCall'[c].from = {}
  <2> DEFINE call == RegisterFind(u, p)
  <2>1. call \in AuthCall /\ call.pc \in {"create", "denied"} /\ call.from = {}
    BY DEF RegisterFind, Idle, AuthCall, AuthPc, AuthOps, TokenKinds
  <2>2. authCall'[c] = Going(call, call.pc)
    BY <1>2, <1>4 DEF RegisterByToken
  <2> HIDE DEF call
  <2>3. /\ Going(call, call.pc).pc = call.pc
        /\ call.pc = "create" => Going(call, call.pc).from = {}
    BY <2>1 DEF Going, Idle, Ended, AuthCall, TokenKinds
  <2>4. QED BY <2>1, <2>2, <2>3
<1>5. /\ authCall'[c].pc \in {"savePw", "denied", "create"}
      /\ authCall'[c].pc = "create" => authCall'[c].from = {}
  BY <1>3, <1>4
<1>6. QED BY OtherSessions, <1>1, <1>2, <1>5 DEF Ended, Storing, Sweeping

\* What a request begins with: a login a session of its own, a refresh the stored one, a
\* registration none, and no other request goes on to store a token or counts a mail yet.
Starts(call) ==
    /\ call.pc \notin {"store", "setCode", "setRate", "mail"}
    /\ call.pc = "rate" => call.op = "forgot"
    /\ call.pc = "create" => call.from = {}
    /\ call.from = {} \/ \E u \in Users : call.from = chain[u]
    /\ call.pc \in {"save", "user"} =>
          /\ call.user \in Registered
          /\ \/ call.from = {} /\ call.pw = password[call.user]
             \/ /\ refreshKey[call.user] # None
                /\ call.from = chain[call.user] /\ call.pw = chainPw[call.user]

LEMMA Beginnings ==
    ASSUME AccountsInv, SignOutInv, NEW c \in Calls, BeginAuthCall(c)
    PROVE  \E call \in AuthCall : Begin(c, call) /\ Starts(call)
<1> DEFINE Goal == \E call \in AuthCall : Begin(c, call) /\ Starts(call)
<1>1. ASSUME NEW u \in Users, NEW p \in Passwords, LoginFind(c, u, p) PROVE Goal
  <2> DEFINE call == [Idle EXCEPT !.op = "login", !.user = u, !.pw = p,
                                  !.pc = IF password[u] = p THEN "save" ELSE "denied"]
  <2>1. /\ call \in AuthCall /\ call.pc \in {"save", "denied"} /\ call.user = u
        /\ call.pc = "save" => password[u] = p
        /\ call.pw = p /\ call.from = {}
    BY DEF Idle, AuthCall, AuthPc, AuthOps, TokenKinds
  <2>2. Begin(c, call)
    BY <1>1 DEF LoginFind
  <2> HIDE DEF call
  <2>3. call.pc = "save" => u \in Registered
    BY <2>1, AccountsAssumption DEF Registered
  <2>4. QED BY <2>1, <2>2, <2>3 DEF Starts
<1>2. ASSUME NEW u \in Users, NEW t \in Seconds, RefreshGet(c, u, t) PROVE Goal
  <2> DEFINE call == [Idle EXCEPT !.op = "refresh", !.user = u, !.token = t, !.pw = chainPw[u],
                                  !.from = chain[u],
                                  !.pc = IF refreshKey[u] = t THEN "user" ELSE "denied"]
  <2>1. chainPw[u] \in Passwords \cup {None} /\ chain[u] \in SUBSET (Calls \cup Users)
    BY DEF AccountsInv, AccountsTypeOK
  <2>2. /\ call \in AuthCall /\ call.pc \in {"user", "denied"} /\ call.user = u
        /\ call.pc = "user" => refreshKey[u] = t
        /\ call.pw = chainPw[u] /\ call.from = chain[u]
    BY <2>1 DEF Idle, AuthCall, AuthPc, AuthOps, TokenKinds
  <2>3. Begin(c, call)
    BY <1>2 DEF RefreshGet
  <2> HIDE DEF call
  <2>4. call.pc = "user" => refreshKey[u] # None /\ u \in Registered
    BY <2>2, AccountsAssumption DEF SignOutInv, StoredOk
  <2>5. QED BY <2>2, <2>3, <2>4 DEF Starts
<1>3. ASSUME NEW u \in Users, NEW p \in Passwords, RegisterSuperAdmin(c, u, p)
      PROVE  Goal
  <2> DEFINE call == RegisterFind(u, p)
  <2>1. call \in AuthCall /\ call.pc \in {"create", "denied"} /\ call.from = {}
    BY DEF RegisterFind, Idle, AuthCall, AuthPc, AuthOps, TokenKinds
  <2>2. Begin(c, call)
    BY <1>3 DEF RegisterSuperAdmin
  <2> HIDE DEF call
  <2>3. QED BY <2>1, <2>2 DEF Starts
<1>4. ASSUME NEW u \in Users, NEW t \in Seconds, NEW op \in {"logout", "change", "register"},
             NEW kind \in TokenKinds, Authenticate(c, op, u, t, kind)
      PROVE  Goal
  <2> DEFINE call == [Idle EXCEPT !.op = op, !.user = u, !.token = t, !.kind = kind,
                                  !.pc = IF <<u, t, kind>> \in blacklist THEN "denied"
                                         ELSE IF op = "logout" THEN "del" ELSE "authed"]
  <2>1. call \in AuthCall /\ call.pc \in {"del", "authed", "denied"} /\ call.from = {}
    BY DEF Idle, AuthCall, AuthPc, AuthOps, TokenKinds
  <2>2. Begin(c, call)
    BY <1>4 DEF Authenticate
  <2> HIDE DEF call
  <2>3. QED BY <2>1, <2>2 DEF Starts
<1>5. ASSUME NEW u \in Users, ForgotFind(c, u) PROVE Goal
  <2> DEFINE call == [Idle EXCEPT !.op = "forgot", !.user = u, !.pc = "rate"]
  <2>1. call \in AuthCall /\ call.pc = "rate" /\ call.op = "forgot" /\ call.from = {}
    BY DEF Idle, AuthCall, AuthPc, AuthOps, TokenKinds
  <2>2. Begin(c, call)
    BY <1>5 DEF ForgotFind
  <2> HIDE DEF call
  <2>3. QED BY <2>1, <2>2 DEF Starts
<1>6. ASSUME NEW u \in Users, NEW k \in Calls, VerifyGet(c, k, u) PROVE Goal
  <2> DEFINE call == [Idle EXCEPT !.op = "verify", !.user = u, !.code = k,
                         !.pc = IF otpKey[EmailOf[u]] = k THEN "dropCode" ELSE "denied"]
  <2>1. call \in AuthCall /\ call.pc \in {"dropCode", "denied"} /\ call.from = {}
    BY DEF Idle, AuthCall, AuthPc, AuthOps, TokenKinds
  <2>2. Begin(c, call)
    BY <1>6 DEF VerifyGet
  <2> HIDE DEF call
  <2>3. QED BY <2>1, <2>2 DEF Starts
<1>7. ASSUME NEW g \in Users \X Seconds, NEW new \in Passwords, ResetGet(c, g, new)
      PROVE  Goal
  <2> DEFINE call == [Idle EXCEPT !.op = "reset", !.user = g[1], !.token = g[2], !.pw = new,
                         !.pc = IF g \in resetKeys /\ g[1] \notin Admins
                                THEN "savePw" ELSE "denied"]
  <2>1. call \in AuthCall /\ call.pc \in {"savePw", "denied"} /\ call.from = {}
    BY DEF Idle, AuthCall, AuthPc, AuthOps, TokenKinds
  <2>2. Begin(c, call)
    BY <1>7 DEF ResetGet
  <2> HIDE DEF call
  <2>3. QED BY <2>1, <2>2 DEF Starts
<1> HIDE DEF Goal
<1>8. Goal
  BY <1>1, <1>2, <1>3, <1>4, <1>5, <1>6, <1>7 DEF BeginAuthCall
<1>9. QED BY <1>8 DEF Goal

LEMMA BeginningsOfSessions ==
    ASSUME AccountsInv, SignOutInv, NEW c \in Calls, BeginAuthCall(c) PROVE SignOutInv'
<1> USE DEF keyVars, chainVars
<1>1. /\ authCall[c].pc = "idle"
      /\ \A d \in Calls \ {c} : authCall'[d] = authCall[d]
      /\ \A u \in Users : ~Sweeping(c, u)
  BY Beginners DEF AccountsInv, AccountsTypeOK, Sweeping
<1>2. UNCHANGED <<password, refreshKey, chain, chainPw, signedOut, overtaken, unswept>>
  BY DEF BeginAuthCall, LoginFind, RegisterSuperAdmin, RefreshGet, Authenticate, ForgotFind,
     VerifyGet, ResetGet
<1>3. PICK call \in AuthCall : Begin(c, call) /\ Starts(call)
  BY Beginnings
<1>4. authCall'[c].pc = call.pc /\ (call.pc \notin Ended => authCall'[c] = call)
  BY Beginning, <1>3
<1>5. CASE call.pc \in {"save", "user"}
  BY SteadySessions, <1>1, <1>2, <1>3, <1>4, <1>5 DEF Starts, Registered, Ended
<1>6. CASE call.pc \notin {"save", "user"}
  BY OtherSessions, <1>1, <1>2, <1>3, <1>4, <1>6 DEF Starts, Storing, Ended
<1>7. QED BY <1>5, <1>6

LEMMA SignOutStep ==
    ASSUME AccountsInv, SignOutInv, [PlatformNext]_platformVars PROVE SignOutInv'
<1> USE DEF keyVars, chainVars
<1>1. ASSUME NEW c \in Calls, LoseAuthCall(c) PROVE SignOutInv'
  <2>1. /\ Kept(c) /\ authCall'[c].pc = "lost" /\ authCall[c].pc \notin Ended
        /\ \A d \in Calls \ {c} : authCall'[d] = authCall[d]
    BY <1>1, Stepping DEF LoseAuthCall, AuthPc, InFlight, Kept
  <2>2. /\ UNCHANGED <<password, refreshKey, chain, chainPw, signedOut, overtaken>>
        /\ unswept \subseteq unswept'
        /\ \A u \in Users : Sweeping(c, u) => u \in unswept'
    BY <1>1 DEF LoseAuthCall, Sweeping
  <2>3. QED BY OtherSessions, <2>1, <2>2 DEF Storing
<1>2. CASE AuthTimePasses \/ UNCHANGED accountVars
  <2>1. UNCHANGED <<password, refreshKey, authCall, chain, chainPw, signedOut, overtaken, unswept>>
    BY <1>2 DEF AuthTimePasses, Tick, ExpireCode, ExpireRate, accountVars
  <2>2. LinesInv'
    BY <2>1 DEF SignOutInv, LinesInv, InLine, Gone, Storing
  <2>3. ASSUME NEW u \in Users, StoredOk(u) PROVE StoredOk(u)'
    BY <2>1, <2>3 DEF StoredOk, Registered, Current, Overtaken, Excused, Sweeping
  <2>4. ASSUME NEW c \in Calls, PendingOk(c) PROVE PendingOk(c)'
    BY <2>1, <2>4 DEF PendingOk, Registered, Current, Overtaken, Excused, Sweeping
  <2>5. QED BY <2>1, <2>2, <2>3, <2>4 DEF SignOutInv, Storing
<1>3. ASSUME NEW c \in Calls, AuthStep(c) PROVE SignOutInv'
  BY <1>3, StoringStep, DeletingStep, AwaitsOfSessions, AwaitsOfCodes, BearersOfTokens
     DEF AuthStep
<1>4. QED BY AccountSteps, BeginningsOfSessions, <1>1, <1>2, <1>3

LEMMA SessionsAsTheyEnd == PlatformSpec => [](AccountsInv /\ SignOutInv)
<1>1. PlatformInit => AccountsInv /\ SignOutInv
  BY AccountsInvInit, SignOutInit DEF PlatformInit
<1>2. AccountsInv /\ SignOutInv /\ [PlatformNext]_platformVars => AccountsInv' /\ SignOutInv'
  BY AccountsInvStep, SignOutStep
<1>3. QED BY <1>1, <1>2, PTL DEF PlatformSpec

\* A session that a logout or a new password ended never holds the key again, nor does what
\* was refreshed from it, unless a call was past its check when the key was deleted
\* (auth/service.ts:350-371, 382).
THEOREM SignOutsAreFinal == PlatformSpec => []SignedOutStaysOut
<1>1. SignOutInv => SignedOutStaysOut
  BY DEF SignOutInv, StoredOk, Excused, Overtaken, SignedOutStaysOut
<1>2. QED BY <1>1, SessionsAsTheyEnd, PTL

\* A session opened with a password that was changed since is waiting for its deletion, or
\* the change died before it, or the session was stored by a call the deletion overtook
\* (auth/service.ts:418-422, 528-534).
THEOREM NewPasswordsEndSessions == PlatformSpec => []OldPasswordSessionsEnd
<1>1. SignOutInv => OldPasswordSessionsEnd
  BY DEF SignOutInv, StoredOk, Current, Overtaken, Sweeping, OldPasswordSessionsEnd
<1>2. QED BY <1>1, SessionsAsTheyEnd, PTL

-----------------------------------------------------------------------------
(* More mails than the limit only for requests that read the counter        *)
(* together.                                                                *)

\* Requests that have written the counter, or never will.
Past(c)  == authCall[c].pc \in {"mail"} \cup Ended

\* Requests that have read it and will write it.
Rated(c) == authCall[c].pc \in {"setCode", "setRate"}

\* Of any two, one wrote the counter before the other read it.
InTurn(S) == \A c, d \in S : c # d => c \in authCall[d].from \/ d \in authCall[c].from

Counted(S, n) == InTurn(S) => Cardinality(S) <= n

CounterOk(e) == /\ IsFiniteSet(counted[e]) /\ \A d \in counted[e] : Past(d)
                /\ Counted(counted[e], otpRate[e]) /\ Counted(counted[e], OtpLimit)

\* The counter a request has read stands for the requests of its window, which is still the
\* current one or is over.
ReadingOk(c) == LET e == EmailOf[authCall[c].user] IN
                /\ authCall[c].tries < OtpLimit
                /\ authCall[c].from \subseteq Calls
                /\ Counted(authCall[c].from, authCall[c].tries)
                /\ authCall[c].from \subseteq counted[e] \/ authCall[c].from \cap counted[e] = {}

RateInv ==
    /\ \A c \in Calls : authCall[c].pc \in {"rate", "setCode", "setRate", "mail"}
                            => authCall[c].op = "forgot"
    /\ \A c, d \in Calls : d \in authCall[c].from => Past(d)
    /\ \A e \in Emails : CounterOk(e)
    /\ \A c \in Calls : Rated(c) => ReadingOk(c)

LEMMA RateInit == AccountsInit => RateInv
<1> SUFFICES ASSUME AccountsInit PROVE RateInv
  OBVIOUS
<1>1. /\ \A c \in Calls : authCall[c].pc = "idle" /\ authCall[c].from = {}
      /\ \A e \in Emails : counted[e] = {} /\ otpRate[e] = 0
  BY DEF AccountsInit, Idle
<1>2. ASSUME NEW e \in Emails PROVE CounterOk(e)
  <2>1. /\ IsFiniteSet(counted[e]) /\ Cardinality(counted[e]) = 0
        /\ \A d \in counted[e] : FALSE
    BY <1>1, FS_EmptySet
  <2>2. 0 <= OtpLimit /\ otpRate[e] = 0
    BY <1>1, AccountsAssumption
  <2>3. QED BY <2>1, <2>2 DEF CounterOk, Counted
<1>3. QED BY <1>1, <1>2 DEF RateInv, Rated

\* What a step of one request keeps, whatever it does to the counters.
LEMMA OthersInTurn ==
    ASSUME RateInv, NEW c \in Calls, authCall[c].pc \notin Ended,
           \A d \in Calls \ {c} : authCall'[d] = authCall[d],
           Past(c) => Past(c)' /\ authCall'[c].from = authCall[c].from
    PROVE  /\ \A d \in Calls : Past(d) => Past(d)'
           /\ \A S \in SUBSET Calls : (\A d \in S : Past(d)) => (InTurn(S)' <=> InTurn(S))
<1>1. \A d \in Calls : Past(d) => Past(d)' /\ authCall'[d].from = authCall[d].from
  BY DEF Past
<1>2. ASSUME NEW S \in SUBSET Calls, \A d \in S : Past(d) PROVE InTurn(S)' <=> InTurn(S)
  BY <1>1, <1>2 DEF InTurn
<1>3. QED BY <1>1, <1>2

\* Steps that leave the counters alone.
LEMMA SteadyRates ==
    ASSUME AccountsInv, RateInv, NEW c \in Calls, authCall[c].pc \notin Ended,
           \A d \in Calls \ {c} : authCall'[d] = authCall[d], UNCHANGED <<otpRate, counted>>,
           Past(c) => Past(c)' /\ authCall'[c].from = authCall[c].from,
           \A d \in Calls : d \in authCall'[c].from => Past(d),
           authCall'[c].pc \in {"rate", "setCode", "setRate", "mail"}
               => authCall'[c].op = "forgot",
           Rated(c)' => /\ authCall'[c].tries < OtpLimit
                        /\ authCall'[c].from \subseteq Calls
                        /\ Counted(authCall'[c].from, authCall'[c].tries)
                        /\ \/ authCall'[c].from \subseteq counted[EmailOf[authCall'[c].user]]
                           \/ authCall'[c].from \cap counted[EmailOf[authCall'[c].user]] = {}
    PROVE  RateInv'
<1>1. /\ \A d \in Calls : Past(d) => Past(d)'
      /\ \A S \in SUBSET Calls : (\A d \in S : Past(d)) => (InTurn(S)' <=> InTurn(S))
  BY OthersInTurn
<1>2. \A e \in Emails : counted[e] \in SUBSET Calls
  BY DEF AccountsInv, AccountsTypeOK
<1>3. \A e \in Emails : CounterOk(e)'
  BY <1>1, <1>2 DEF RateInv, CounterOk, Counted
<1>4. \A b, d \in Calls : d \in authCall'[b].from => Past(d)'
  BY <1>1 DEF RateInv
<1>5. ASSUME NEW b \in Calls, Rated(b)' PROVE ReadingOk(b)'
  <2>1. CASE b = c
    <3>1. PICK S \in SUBSET Calls : S = authCall'[c].from
      BY <1>5, <2>1
    <3>2. InTurn(S)' <=> InTurn(S)
      BY <1>1, <3>1
    <3>3. QED BY <1>5, <2>1, <3>1, <3>2 DEF ReadingOk, Counted
  <2>2. CASE b # c
    <3>1. Rated(b) /\ ReadingOk(b) /\ authCall'[b] = authCall[b]
      BY <1>5, <2>2 DEF RateInv, Rated
    <3>2. PICK S \in SUBSET Calls : S = authCall[b].from
      BY <3>1 DEF ReadingOk
    <3>3. InTurn(S)' <=> InTurn(S)
      BY <1>1, <3>2 DEF RateInv
    <3>4. QED BY <3>1, <3>2, <3>3 DEF ReadingOk, Counted
  <2>3. QED BY <2>1, <2>2
<1>6. QED BY <1>3, <1>4, <1>5 DEF RateInv

\* What a request has read of the counter stays with it; another's session does not.
LEMMA Remembering ==
    ASSUME AccountsInv, NEW c \in Calls, NEW pc \in AuthPc, Step(c, pc) \/ Sign(c, pc)
    PROVE  /\ Kept(c) /\ authCall'[c].pc = pc /\ authCall'[c].from \subseteq authCall[c].from
           /\ authCall[c].op = "forgot" \/ pc \notin Ended
                 => authCall'[c].from = authCall[c].from
           /\ pc \notin Ended => authCall'[c].tries = authCall[c].tries
<1>1. authCall \in [Calls -> AuthCall] /\ authCall[c] \in AuthCall
  BY DEF AccountsInv, AccountsTypeOK
<1>2. CASE Step(c, pc)
  <2>1. authCall'[c] = Going(authCall[c], pc)
    BY <1>1, <1>2 DEF Step
  <2>2. pc \in Ended => Going(authCall[c], pc).from =
                           IF authCall[c].op = "forgot" THEN authCall[c].from ELSE {}
    BY DEF Going, Idle
  <2>3. pc \notin Ended => /\ Going(authCall[c], pc).from = authCall[c].from
                           /\ Going(authCall[c], pc).tries = authCall[c].tries
    BY <1>1 DEF Going, AuthCall
  <2>4. QED BY <1>2, <2>1, <2>2, <2>3, Stepping
<1>3. CASE Sign(c, pc)
  <2>1. authCall'[c] = [authCall[c] EXCEPT !.mint = now, !.pc = pc]
    BY <1>1, <1>3 DEF Sign
  <2>2. authCall'[c].from = authCall[c].from /\ authCall'[c].tries = authCall[c].tries
    BY <1>1, <2>1 DEF AuthCall
  <2>3. QED BY <1>3, <2>2, Signing
<1>4. QED BY <1>2, <1>3

\* Awaits of other requests, and those in which a forgotten password is only mailed or dies.
LEMMA AwaitsOffCounter ==
    ASSUME AccountsInv, RateInv, NEW c \in Calls,
           \/ SaveLastLogin(c) \/ RefreshFindUser(c) \/ StoreRefresh(c) \/ SavePassword(c)
           \/ DeleteRefresh(c) \/ BlacklistToken(c) \/ CreateUser(c)
           \/ SetCode(c) \/ MailCode(c)
           \/ DropCode(c) \/ StoreGrant(c) \/ DropGrant(c) \/ LoseAuthCall(c)
    PROVE  RateInv'
<1> USE DEF codeVars, grantVars
<1>1. /\ UNCHANGED <<otpRate, counted>>
      /\ \A d \in Calls : d \in authCall[c].from => Past(d)
  BY DEF SaveLastLogin, RefreshFindUser, StoreRefresh, SavePassword, DeleteRefresh, BlacklistToken,
     CreateUser, SetCode, MailCode, DropCode, StoreGrant, DropGrant, LoseAuthCall, RateInv
<1>2. authCall[c].pc \notin Ended /\ \A d \in Calls \ {c} : authCall'[d] = authCall[d]
  BY Movers DEF AuthStep
<1>3. CASE SetCode(c)
  <2>1. Step(c, "setRate") /\ authCall[c].pc = "setCode"
    BY <1>3 DEF SetCode, At
  <2>2. /\ authCall'[c].pc = "setRate" /\ authCall'[c].from = authCall[c].from
        /\ authCall'[c].tries = authCall[c].tries /\ authCall'[c].user = authCall[c].user
        /\ authCall'[c].op = authCall[c].op
    BY <2>1, Remembering DEF AuthPc, Ended, Kept
  <2>3. ReadingOk(c) /\ authCall[c].op = "forgot"
    BY <2>1 DEF RateInv, Rated
  <2>4. QED BY SteadyRates, <1>1, <1>2, <2>1, <2>2, <2>3 DEF ReadingOk, Past, Ended
<1>4. CASE MailCode(c) \/ LoseAuthCall(c)
  <2>1. PICK pc \in {"done", "failed", "lost"} : Step(c, pc)
    BY <1>4 DEF MailCode, LoseAuthCall
  <2>2. /\ authCall'[c].pc = pc /\ authCall'[c].from \subseteq authCall[c].from
        /\ authCall[c].op = "forgot" => authCall'[c].from = authCall[c].from
    BY <2>1, Remembering DEF AuthPc
  <2>3. Past(c) => authCall[c].op = "forgot"
    BY <1>2 DEF RateInv, Past
  <2>4. QED BY SteadyRates, <1>1, <1>2, <2>1, <2>2, <2>3 DEF Past, Rated, Ended
<1>5. CASE \/ SaveLastLogin(c) \/ RefreshFindUser(c) \/ StoreRefresh(c) \/ SavePassword(c)
           \/ DeleteRefresh(c) \/ BlacklistToken(c) \/ CreateUser(c)
           \/ DropCode(c) \/ StoreGrant(c) \/ DropGrant(c)
  <2>1. PICK pc \in {"store", "denied", "done", "failed", "dropGrant", "del", "blacklist",
                     "grant"} : Step(c, pc) \/ Sign(c, pc)
    BY SMTT(30), <1>5 DEF SaveLastLogin, RefreshFindUser, StoreRefresh, SavePassword, DeleteRefresh,
       AfterDelete, BlacklistToken, CreateUser, DropCode, StoreGrant, DropGrant
  <2>2. authCall[c].pc \notin {"mail"} \cup Ended
    BY <1>5 DEF SaveLastLogin, RefreshFindUser, StoreRefresh, SavePassword, DeleteRefresh,
       BlacklistToken, CreateUser, DropCode, StoreGrant, DropGrant, At, Ended
  <2>3. authCall'[c].pc = pc /\ authCall'[c].from \subseteq authCall[c].from
    BY <2>1, Remembering DEF AuthPc
  <2>4. QED BY SMTT(30), SteadyRates, <1>1, <1>2, <2>2, <2>3 DEF Past, Rated
<1>6. QED BY <1>3, <1>4, <1>5

LEMMA BearersOffCounter ==
    ASSUME AccountsInv, RateInv, NEW c \in Calls, NEW p \in Passwords,
           \/ \E new \in Passwords : CheckPassword(c, p, new)
           \/ \E u \in Users : RegisterByToken(c, u, p)
    PROVE  RateInv'
<1>1. /\ UNCHANGED <<otpRate, counted>> /\ authCall[c].pc = "authed"
      /\ authCall \in [Calls -> AuthCall] /\ authCall[c] \in AuthCall
      /\ \A d \in Calls \ {c} : authCall'[d] = authCall[d]
  BY DEF codeVars, grantVars, AccountsInv, AccountsTypeOK, CheckPassword, RegisterByToken, At
<1>2. ASSUME NEW new \in Passwords, CheckPassword(c, p, new)
      PROVE  /\ authCall'[c].pc \in {"savePw", "denied", "create"}
             /\ authCall'[c].from \subseteq authCall[c].from
  <2> DEFINE shown == [authCall[c] EXCEPT !.pw = new, !.pc = "savePw"]
             none  == Going(authCall[c], "denied")
  <2>1. shown.pc = "savePw" /\ shown.from = authCall[c].from
    BY <1>1 DEF AuthCall
  <2>2. none.pc = "denied" /\ none.from \subseteq authCall[c].from
    BY DEF Going, Ended, Idle
  <2>3. authCall'[c] \in {shown, none}
    BY <1>1, <1>2 DEF CheckPassword
  <2> HIDE DEF shown, none
  <2>4. QED BY <2>1, <2>2, <2>3
<1>3. ASSUME NEW u \in Users, RegisterByToken(c, u, p)
      PROVE  /\ authCall'[c].pc \in {"savePw", "denied", "create"}
             /\ authCall'[c].from \subseteq authCall[c].from
  <2> DEFINE call == RegisterFind(u, p)
  <2>1. call \in AuthCall /\ call.pc \in {"create", "denied"} /\ call.from = {}
    BY DEF RegisterFind, Idle, AuthCall, AuthPc, AuthOps, TokenKinds
  <2>2. authCall'[c] = Going(call, call.pc)
    BY <1>1, <1>3 DEF RegisterByToken
  <2> HIDE DEF call
  <2>3. Going(call, call.pc).pc = call.pc /\ Going(call, call.pc).from = {}
    BY <2>1 DEF Going, Idle, Ended, AuthCall, TokenKinds
  <2>4. QED BY <2>1, <2>2, <2>3
<1>4. /\ authCall'[c].pc \in {"savePw", "denied", "create"}
      /\ authCall'[c].from \subseteq authCall[c].from
  BY <1>2, <1>3
<1>5. \A d \in Calls : d \in authCall[c].from => Past(d)
  BY DEF RateInv
<1>6. QED BY SteadyRates, <1>1, <1>4, <1>5 DEF Past, Rated, Ended

LEMMA BeginningsOffCounter ==
    ASSUME AccountsInv, SignOutInv, RateInv, NEW c \in Calls, BeginAuthCall(c) PROVE RateInv'
<1>1. /\ authCall[c].pc = "idle"
      /\ \A d \in Calls \ {c} : authCall'[d] = authCall[d]
      /\ UNCHANGED <<otpRate, counted>>
  BY Beginners DEF AccountsInv, AccountsTypeOK, codeVars, grantVars, BeginAuthCall, LoginFind,
     RegisterSuperAdmin, RefreshGet, Authenticate, ForgotFind, VerifyGet, ResetGet
<1>2. PICK call \in AuthCall : Begin(c, call) /\ Starts(call)
  BY Beginnings
<1>3. \A d \in Calls : d \in call.from => Past(d)
  BY <1>2, AccountsAssumption DEF Starts, SignOutInv, LinesInv, InLine, Gone, Past
<1>4. /\ authCall'[c].pc = call.pc /\ (call.pc \notin Ended => authCall'[c] = call)
      /\ authCall'[c].from \subseteq call.from
  <2>1. authCall \in [Calls -> AuthCall] /\ authCall'[c] = Going(call, call.pc)
    BY <1>2 DEF Begin, AccountsInv, AccountsTypeOK
  <2>2. Going(call, call.pc).from \subseteq call.from
    BY DEF Going, Idle, AuthCall, TokenKinds
  <2>3. QED BY <1>2, <2>1, <2>2, Beginning
<1>5. QED BY SteadyRates, <1>1, <1>2, <1>3, <1>4 DEF Starts, Past, Rated, Ended

\* The request goes on with the counter and those it stands for.
LEMMA ReadingStep ==
    ASSUME AccountsInv, RateInv, NEW c \in Calls, ReadRate(c) PROVE RateInv'
<1> USE DEF codeVars, grantVars
<1>1. /\ UNCHANGED <<otpRate, counted>> /\ authCall[c].pc = "rate" /\ authCall[c].op = "forgot"
      /\ authCall \in [Calls -> AuthCall] /\ authCall[c] \in AuthCall
      /\ authCall[c].user \in Users
      /\ \A d \in Calls \ {c} : authCall'[d] = authCall[d]
  BY Movers DEF AuthStep, ReadRate, At, RateInv, AccountsInv, AccountsTypeOK, InFlight, Ended
<1>2. PICK e \in Emails : e = EmailOf[authCall[c].user]
  BY <1>1 DEF Emails
<1>3. otpRate[e] \in Nat /\ counted[e] \in SUBSET Calls /\ CounterOk(e)
  BY DEF AccountsInv, AccountsTypeOK, RateInv
<1> DEFINE call == [authCall[c] EXCEPT !.tries = otpRate[e], !.from = counted[e]]
<1>4. /\ call \in AuthCall /\ call.tries = otpRate[e] /\ call.from = counted[e]
      /\ call.user = authCall[c].user /\ call.op = "forgot"
  BY <1>1, <1>3 DEF AuthCall
<1>5. authCall'[c] = Going(call, IF otpRate[e] >= OtpLimit THEN "denied" ELSE "setCode")
  BY <1>1, <1>2 DEF ReadRate
<1> HIDE DEF call
<1>6. CASE otpRate[e] >= OtpLimit
  <2>1. authCall'[c].pc = "denied" /\ authCall'[c].from = counted[e]
    BY <1>4, <1>5, <1>6 DEF Going, Ended, Idle
  <2>2. QED BY SteadyRates, <1>1, <1>3, <2>1 DEF CounterOk, Past, Rated, Ended
<1>7. CASE ~(otpRate[e] >= OtpLimit)
  <2>1. Going(call, "setCode") = [call EXCEPT !.pc = "setCode"]
    BY <1>4, GoingOn DEF AuthPc, Ended
  <2>2. /\ authCall'[c].pc = "setCode" /\ authCall'[c].from = counted[e]
        /\ authCall'[c].tries = otpRate[e] /\ authCall'[c].user = authCall[c].user
        /\ authCall'[c].op = "forgot"
    BY <1>4, <1>5, <1>7, <2>1 DEF AuthCall
  <2>3. otpRate[e] < OtpLimit
    BY <1>3, <1>7, AccountsAssumption
  <2>4. QED BY SteadyRates, <1>1, <1>2, <1>3, <2>2, <2>3 DEF CounterOk, Past, Rated, Ended
<1>8. QED BY <1>6, <1>7

\* Whoever read the counter after all that it stands for counts one more than they are; the
\* others leave two that are not in turn.
LEMMA CountingStep ==
    ASSUME AccountsInv, RateInv, NEW c \in Calls, SetRate(c) PROVE RateInv'
<1> USE DEF codeVars, grantVars
<1>1. /\ authCall[c].pc = "setRate" /\ authCall[c].op = "forgot" /\ Step(c, "mail")
      /\ authCall[c] \in AuthCall /\ authCall[c].user \in Users /\ ReadingOk(c)
      /\ \A d \in Calls \ {c} : authCall'[d] = authCall[d]
  BY Movers DEF AuthStep, SetRate, At, RateInv, Rated, AccountsInv, AccountsTypeOK, InFlight, Ended
<1>2. PICK e \in Emails : e = EmailOf[authCall[c].user]
  BY <1>1 DEF Emails
<1>3. PICK F, S \in SUBSET Calls : F = authCall[c].from /\ S = counted[e]
  BY <1>1 DEF ReadingOk, AccountsInv, AccountsTypeOK
<1>4. PICK n \in Nat : n = authCall[c].tries
  BY <1>1 DEF AuthCall
<1>5. /\ authCall'[c].pc = "mail" /\ authCall'[c].from = F /\ authCall'[c].op = "forgot"
  BY <1>1, <1>3, Remembering DEF Kept, AuthPc, Ended
<1>6. /\ \A f \in Emails \ {e} : counted'[f] = counted[f] /\ otpRate'[f] = otpRate[f]
      /\ counted'[e] = S \cup {c} /\ otpRate'[e] = n + 1
  BY <1>2, <1>3, <1>4 DEF SetRate, AccountsInv, AccountsTypeOK
<1>7. /\ \A d \in Calls : Past(d) => Past(d)'
      /\ \A T \in SUBSET Calls : (\A d \in T : Past(d)) => (InTurn(T)' <=> InTurn(T))
  BY OthersInTurn, <1>1 DEF Past, Ended
<1>8. /\ IsFiniteSet(S) /\ \A d \in S \cup F : d # c /\ Past(d)
      /\ n < OtpLimit /\ Counted(F, n) /\ (F \subseteq S \/ F \cap S = {})
  BY <1>1, <1>2, <1>3, <1>4 DEF RateInv, CounterOk, ReadingOk, Past, Ended
<1>9. ASSUME NEW f \in Emails PROVE CounterOk(f)'
  <2>1. CASE f # e
    <3>1. CounterOk(f) /\ counted[f] \in SUBSET Calls
      BY DEF RateInv, AccountsInv, AccountsTypeOK
    <3>2. QED BY <1>6, <1>7, <2>1, <3>1 DEF CounterOk, Counted
  <2>2. CASE f = e
    <3>1. IsFiniteSet(S \cup {c}) /\ Cardinality(S \cup {c}) = Cardinality(S) + 1
      BY <1>8, FS_AddElement
    <3>2. ASSUME InTurn(S \cup {c})' PROVE Cardinality(S) <= n
      <4>1. \A d \in S : c \notin authCall'[d].from
        BY <1>1, <1>8 DEF RateInv, Past, Ended
      <4>2. S \subseteq F
        BY <1>5, <1>8, <3>2, <4>1 DEF InTurn
      <4>3. CASE F \subseteq S
        <5>1. F = S
          BY <4>2, <4>3
        <5>2. InTurn(S)'
          BY <3>2 DEF InTurn
        <5>3. InTurn(F)
          BY <1>7, <1>8, <5>1, <5>2
        <5>4. QED BY <1>8, <5>1, <5>3 DEF Counted
      <4>4. CASE F \cap S = {}
        <5>1. S = {}
          BY <4>2, <4>4
        <5>2. QED BY <5>1, FS_EmptySet
      <4>5. QED BY <1>8, <4>3, <4>4
    <3>3. \A d \in S \cup {c} : Past(d)'
      BY <1>5, <1>7, <1>8 DEF Past
    <3>4. Cardinality(S) \in Nat
      BY <1>8, FS_CardinalityType
    <3>5. ASSUME InTurn(S \cup {c})'
          PROVE  Cardinality(S \cup {c}) <= n + 1 /\ Cardinality(S \cup {c}) <= OtpLimit
      BY <1>8, <3>1, <3>2, <3>4, <3>5, AccountsAssumption
    <3>6. QED BY <1>6, <2>2, <3>1, <3>3, <3>5 DEF CounterOk, Counted
  <2>3. QED BY <2>1, <2>2
<1>10. ASSUME NEW d \in Calls, Rated(d)' PROVE ReadingOk(d)'
  <2>1. d # c /\ Rated(d) /\ ReadingOk(d) /\ authCall'[d] = authCall[d]
    BY <1>1, <1>5, <1>10 DEF RateInv, Rated
  <2>2. PICK G \in SUBSET Calls : G = authCall[d].from
    BY <2>1 DEF ReadingOk
  <2>3. InTurn(G)' <=> InTurn(G)
    BY <1>7, <2>2 DEF RateInv
  <2>4. c \notin G
    BY <1>1, <2>2 DEF RateInv, Past, Ended
  <2>5. authCall[d].user \in Users
    BY <2>1 DEF Rated, AccountsInv, AccountsTypeOK, InFlight, Ended
  <2>6. PICK f \in Emails : f = EmailOf[authCall[d].user]
    BY <2>5 DEF Emails
  <2>7. (G \subseteq counted[f] \/ G \cap counted[f] = {})
           => (G \subseteq counted'[f] \/ G \cap counted'[f] = {})
    BY <1>3, <1>6, <2>4
  <2>8. QED BY <2>1, <2>2, <2>3, <2>6, <2>7 DEF ReadingOk, Counted
<1>11. ASSUME NEW b \in Calls, NEW d \in Calls, d \in authCall'[b].from PROVE Past(d)'
  <2>1. d \in authCall[b].from
    BY <1>1, <1>3, <1>5, <1>11
  <2>2. QED BY <1>7, <2>1 DEF RateInv
<1>12. \A b \in Calls : authCall'[b].pc \in {"rate", "setCode", "setRate", "mail"}
                            => authCall'[b].op = "forgot"
  BY <1>1, <1>5 DEF RateInv
<1>13. QED BY <1>9, <1>10, <1>11, <1>12 DEF RateInv

\* A window that ends takes its counter and its requests with it.
LEMMA WindowsEnd ==
    ASSUME AccountsInv, RateInv, AuthTimePasses \/ UNCHANGED accountVars PROVE RateInv'
<1> USE DEF codeVars, grantVars
<1>1. /\ UNCHANGED authCall /\ otpRate \in [Emails -> Nat] /\ counted \in [Emails -> SUBSET Calls]
      /\ \A e \in Emails : \/ counted'[e] = counted[e] /\ otpRate'[e] = otpRate[e]
                           \/ counted'[e] = {} /\ otpRate'[e] = 0
  BY DEF AuthTimePasses, Tick, ExpireCode, ExpireRate, accountVars, AccountsInv, AccountsTypeOK
<1>2. ASSUME NEW e \in Emails PROVE CounterOk(e)'
  <2>1. CASE counted'[e] = counted[e] /\ otpRate'[e] = otpRate[e]
    BY <1>1, <2>1 DEF RateInv, CounterOk, Counted, InTurn, Past
  <2>2. CASE counted'[e] = {} /\ otpRate'[e] = 0
    <3>1. /\ IsFiniteSet(counted'[e]) /\ Cardinality(counted'[e]) = 0
          /\ \A d \in counted'[e] : FALSE
      BY <2>2, FS_EmptySet
    <3>2. QED BY <2>2, <3>1, AccountsAssumption DEF CounterOk, Counted
  <2>3. QED BY <1>1, <2>1, <2>2
<1>3. ASSUME NEW c \in Calls, Rated(c) PROVE ReadingOk(c)'
  <2>1. ReadingOk(c) /\ authCall[c].user \in Users
    BY <1>3 DEF RateInv, Rated, AccountsInv, AccountsTypeOK, InFlight, Ended
  <2>2. PICK e \in Emails : e = EmailOf[authCall[c].user]
    BY <2>1 DEF Emails
  <2>3. QED BY <1>1, <2>1, <2>2 DEF ReadingOk, Counted, InTurn
<1>4. QED BY <1>1, <1>2, <1>3 DEF RateInv, Past, Rated

LEMMA RateStep ==
    ASSUME AccountsInv, SignOutInv, RateInv, [PlatformNext]_platformVars PROVE RateInv'
<1>1. ASSUME NEW c \in Calls, AuthStep(c) PROVE RateInv'
  BY <1>1, AwaitsOffCounter, BearersOffCounter, ReadingStep, CountingStep DEF AuthStep
<1>2. QED BY <1>1, AccountSteps, AwaitsOffCounter, BeginningsOffCounter, WindowsEnd

\* More codes than the limit are counted for one email in one window only if two of their
\* requests read the counter before either of them wrote it (auth/service.ts:447-460).
THEOREM MailsBounded == PlatformSpec => []MailsOverLimitOverlap
<1>1. PlatformInit => AccountsInv /\ RateInv
  BY AccountsInvInit, RateInit DEF PlatformInit
<1>2. AccountsInv /\ SignOutInv /\ RateInv /\ [PlatformNext]_platformVars => RateInv'
  BY RateStep
<1>3. AccountsInv /\ RateInv => MailsOverLimitOverlap
  <2> SUFFICES ASSUME AccountsInv, RateInv, NEW e \in Emails, Cardinality(counted[e]) > OtpLimit
               PROVE  ~InTurn(counted[e])
    BY DEF MailsOverLimitOverlap, InTurn
  <2>1. IsFiniteSet(counted[e]) /\ Counted(counted[e], OtpLimit)
    BY DEF RateInv, CounterOk
  <2>2. Cardinality(counted[e]) \in Nat /\ OtpLimit \in Nat
    BY <2>1, FS_CardinalityType, AccountsAssumption
  <2>3. QED BY <2>1, <2>2 DEF Counted
<1>4. QED BY <1>1, <1>2, <1>3, SessionsAsTheyEnd, PTL DEF PlatformSpec
=============================================================================
