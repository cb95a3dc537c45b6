----------------------------- MODULE Credentials -----------------------------
(***************************************************************************)
(* What modules/auth promises about passwords, whatever the requests, the   *)
(* cache keys and the order of their awaits: an account's password is set   *)
(* when it is opened, and then changes only on a proof of the password it   *)
(* had or on a grant, and a grant is bought with a code mailed for that     *)
(* account.                                                                 *)
(***************************************************************************)
CONSTANTS Users, Passwords,
          Codes,    \* codes that may be mailed
          Proofs,   \* requests that may show the current password
          Stamps,   \* what tells two grants of one account apart
          NoPassword

VARIABLES pw,       \* [account -> its password, NoPassword before it is opened]
          mailed,   \* <<code, account>>: codes mailed, and for which account
          proved,   \* <<request, account, password>>: the password was current when shown
          grants    \* <<account, stamp>>

credVars == <<pw, mailed, proved, grants>>

CredInit == /\ pw \in [Users -> Passwords \cup {NoPassword}]
            /\ mailed = {} /\ proved = {} /\ grants = {}

Open(u, p) ==
    /\ pw[u] = NoPassword
    /\ pw' = [pw EXCEPT ![u] = p]
    /\ UNCHANGED <<mailed, proved, grants>>

MailCode(k, u) ==
    /\ mailed' = mailed \cup {<<k, u>>}
    /\ UNCHANGED <<pw, proved, grants>>

Redeem(k, u, s) ==
    /\ <<k, u>> \in mailed
    /\ grants' = grants \cup {<<u, s>>}
    /\ UNCHANGED <<pw, mailed, proved>>

Prove(c, u) ==
    /\ pw[u] # NoPassword
    /\ proved' = proved \cup {<<c, u, pw[u]>>}
    /\ UNCHANGED <<pw, mailed, grants>>

\* Opened accounts only: by a proof of the account's own password, or by its own grant.
ChangePassword(u, p) ==
    /\ pw[u] # NoPassword
    /\ \/ \E c \in Proofs, old \in Passwords : <<c, u, old>> \in proved
       \/ \E s \in Stamps : <<u, s>> \in grants
    /\ pw' = [pw EXCEPT ![u] = p]
    /\ UNCHANGED <<mailed, proved, grants>>

CredNext ==
    \E u \in Users :
        \/ \E p \in Passwords : Open(u, p) \/ ChangePassword(u, p)
        \/ \E k \in Codes : MailCode(k, u) \/ \E s \in Stamps : Redeem(k, u, s)
        \/ \E c \in Proofs : Prove(c, u)

CredSpec == CredInit /\ [][CredNext]_credVars
=============================================================================
