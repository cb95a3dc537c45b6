------------------------------- MODULE Tenancy -------------------------------
(***************************************************************************)
(* Restaurants and their documents: modules/tenants, modules/subscriptions. *)
(* A super admin creates a tenant with its subscription and main branch; a  *)
(* settings, profile or subscription update reads a document and saves it   *)
(* later, with other requests in between.                                   *)
(*                                                                          *)
(*   create   idle -> insert -> [sub -> branch] -> done                     *)
(*              |        |        |                                         *)
(*            denied   failed   failed (the tenant stays)                   *)
(*   bootstrap idle -> [create -> done | failed]                            *)
(*   update    idle -> save -> done                                         *)
(*                                                                          *)
(* A tenant is named by its slug, which is unique.  A call names one        *)
(* request; which requests share an instance does not matter here.          *)
(***************************************************************************)
EXTENDS Naturals, FiniteSets

CONSTANTS Calls,        \* requests of every kind
          Slugs,        \* tenants that exist or may be created
          OldTenants,   \* those of an earlier time, complete
          Values,       \* values of a document field
          OldValue,     \* the one every field has at the start
          Updates,      \* [part of a tenant -> the changes of it that are asked for]
          Deployments,  \* the values withTransactionOrFallback's `session` may have: TRUE
                        \* where MongoDB has transactions, FALSE on a standalone one
          None

ASSUME TenancyAssumption == /\ OldTenants \subseteq Slugs /\ OldValue \in Values
                            /\ Deployments \subseteq BOOLEAN
                            /\ None \notin Calls \cup Slugs \cup Values

VARIABLES tenants,      \* slugs of the tenant documents
          subscribed,   \* tenants with a subscription
          mainBranch,   \* tenants with a main branch
          doc,          \* [tenant -> [part -> [field -> value]]]
          tenCall,      \* [call -> its program counter and locals]
          broken,       \* history: tenants whose creation failed or died after its first write
          latest        \* history: [tenant -> [part -> [field -> the last save to name it]]]

docVars     == <<tenants, subscribed, mainBranch, doc>>
tenancyVars == <<docVars, tenCall, broken, latest>>

\* The parts of a tenant that are read, changed and saved.  Only chatbotSettings is saved
\* whole; the currency stands for each of the other settings and profile fields, which are
\* saved one by one.
Fields == [chatbot      |-> {"offlineMessage", "aiModelPreference"},
           settings     |-> {"currency"},
           subscription |-> {"plan", "status"}]
Parts  == DOMAIN Fields
Whole  == {"chatbot"}

Dtos(p)     == UNION {[F -> Values] : F \in (SUBSET Fields[p]) \ {{}}}
Document(p) == [Fields[p] -> Values]

ASSUME UpdatesAssumption == \A p \in Parts : Updates[p] \subseteq Dtos(p)

TenPc   == {"idle", "insert", "sub", "branch", "bootstrap", "save", "done", "denied",
            "failed", "lost"}
TenCall == [pc: TenPc, slug: Slugs \cup {None}, part: Parts \cup {None},
            dto: (UNION {Dtos(p) : p \in Parts}) \cup {None},
            snap: (UNION {Document(p) : p \in Parts}) \cup {None}, seen: SUBSET Calls]
IdleTen == [pc |-> "idle", slug |-> None, part |-> None, dto |-> None, snap |-> None,
            seen |-> {}]

\* Only a save has a dto and a document in memory, and it is the last thing a call does.
Becomes(c, pc) == tenCall' = [tenCall EXCEPT ![c].pc = pc, ![c].dto = None, ![c].snap = None]
Saved(t, p)    == {c \in Calls : /\ tenCall[c].slug = t /\ tenCall[c].part = p
                                 /\ tenCall[c].pc = "done"}

TenancyInit ==
    /\ tenants = OldTenants /\ subscribed = OldTenants /\ mainBranch = OldTenants
    /\ doc = [t \in Slugs |-> [p \in Parts |-> [f \in Fields[p] |-> OldValue]]]
    /\ tenCall = [c \in Calls |-> IdleTen]
    /\ broken = {}
    /\ latest = [t \in Slugs |-> [p \in Parts |->
                    [f \in Fields[p] |-> [by |-> None, value |-> OldValue]]]]

-----------------------------------------------------------------------------
(* createTenant.                                                           *)

FindSlug(c, t) ==
    /\ tenCall[c].pc = "idle"
    /\ tenCall' = [tenCall EXCEPT ![c].slug = t,
                                  ![c].pc = IF t \in tenants THEN "denied" ELSE "insert"]
    /\ UNCHANGED <<docVars, broken, latest>>

\* The transaction ends after the tenant and its subscription.
InsertTenant_NoBranch(c) ==
    LET t == tenCall[c].slug IN
    /\ tenCall[c].pc = "insert" /\ t \notin tenants
    /\ tenants' = tenants \cup {t} /\ subscribed' = subscribed \cup {t}
    /\ Becomes(c, "done")
    /\ UNCHANGED <<mainBranch, doc, broken, latest>>

\* The three documents in one transaction, or the tenant alone; the slug index turns a
\* second tenant away.
InsertTenant(c) ==
    LET t == tenCall[c].slug IN
    /\ tenCall[c].pc = "insert"
    /\ \/ /\ t \in tenants
          /\ Becomes(c, "failed")
          /\ UNCHANGED docVars
       \/ /\ t \notin tenants
          /\ tenants' = tenants \cup {t}
          /\ \E transaction \in Deployments :
                IF transaction
                THEN /\ subscribed' = subscribed \cup {t}
                     /\ mainBranch' = mainBranch \cup {t}
                     /\ Becomes(c, "done")
                ELSE Becomes(c, "sub") /\ UNCHANGED <<subscribed, mainBranch>>
          /\ UNCHANGED doc
    /\ UNCHANGED <<broken, latest>>

\* The subscription of the fallback: the tenantId index refuses it when getSubscription
\* was first, and then the branch is never made.
InsertSubscription(c) ==
    LET t == tenCall[c].slug IN
    /\ tenCall[c].pc = "sub"
    /\ Becomes(c, IF t \in subscribed THEN "failed" ELSE "branch")
    /\ broken'     = IF t \in subscribed THEN broken \cup {t} ELSE broken
    /\ subscribed' = subscribed \cup {t}
    /\ UNCHANGED <<tenants, mainBranch, doc, latest>>

InsertMainBranch(c) ==
    /\ tenCall[c].pc = "branch"
    /\ mainBranch' = mainBranch \cup {tenCall[c].slug}
    /\ Becomes(c, "done")
    /\ UNCHANGED <<tenants, subscribed, doc, broken, latest>>

-----------------------------------------------------------------------------
(* getSubscription, which makes the subscription it does not find.         *)

\* A subscription is made for any id in the path.
FindSubscription_AnyTenant(c, t) ==
    /\ tenCall[c].pc = "idle"
    /\ tenCall' = [tenCall EXCEPT ![c].slug = t,
                                  ![c].pc = IF t \in subscribed THEN "done" ELSE "bootstrap"]
    /\ UNCHANGED <<docVars, broken, latest>>

FindSubscription(c, t) ==
    /\ tenCall[c].pc = "idle" /\ t \in tenants
    /\ tenCall' = [tenCall EXCEPT ![c].slug = t,
                                  ![c].pc = IF t \in subscribed THEN "done" ELSE "bootstrap"]
    /\ UNCHANGED <<docVars, broken, latest>>

BootstrapSubscription(c) ==
    LET t == tenCall[c].slug IN
    /\ tenCall[c].pc = "bootstrap"
    /\ Becomes(c, IF t \in subscribed THEN "failed" ELSE "done")
    /\ subscribed' = subscribed \cup {t}
    /\ UNCHANGED <<tenants, mainBranch, doc, broken, latest>>

-----------------------------------------------------------------------------
(* updateTenantSettings, upsertProfile and updateSubscription: find, change *)
(* in memory, save().                                                       *)

FindDocument(c, t, p, dto) ==
    /\ tenCall[c].pc = "idle" /\ t \in tenants
    /\ p = "subscription" => t \in subscribed /\ "plan" \in DOMAIN dto
    /\ tenCall' = [tenCall EXCEPT ![c] = [pc |-> "save", slug |-> t, part |-> p, dto |-> dto,
                                          snap |-> doc[t][p], seen |-> Saved(t, p)]]
    /\ UNCHANGED <<docVars, broken, latest>>

\* The document as the request changed it in memory: what the dto leaves out is read back
\* from the snapshot.
Merged(c) ==
    [f \in Fields[tenCall[c].part] |->
        IF f \in DOMAIN tenCall[c].dto THEN tenCall[c].dto[f] ELSE tenCall[c].snap[f]]

\* upsertProfile assigns the dto's chatbotSettings without spreading the old ones.
SaveDocument_Replaces(c) ==
    LET t == tenCall[c].slug
        p == tenCall[c].part
        dto == tenCall[c].dto
        dirty == {f \in DOMAIN dto : dto[f] # tenCall[c].snap[f]}
    IN
    /\ tenCall[c].pc = "save"
    /\ doc' = [doc EXCEPT ![t][p] = [f \in Fields[p] |->
                  IF f \in dirty THEN dto[f]
                  ELSE IF p \in Whole THEN OldValue ELSE @[f]]]
    /\ latest' = [latest EXCEPT ![t][p] = [f \in Fields[p] |->
                  IF f \in DOMAIN dto THEN [by |-> c, value |-> dto[f]] ELSE @[f]]]
    /\ Becomes(c, "done")
    /\ UNCHANGED <<tenants, subscribed, mainBranch, broken>>

\* Mongoose writes the paths the request changed; chatbotSettings is one path.
SaveDocument(c) ==
    LET t == tenCall[c].slug
        p == tenCall[c].part
        dto == tenCall[c].dto
        dirty == {f \in Fields[p] : Merged(c)[f] # tenCall[c].snap[f]}
        written == IF p \in Whole /\ dirty # {} THEN Fields[p] ELSE dirty
    IN
    /\ tenCall[c].pc = "save"
    /\ doc' = [doc EXCEPT ![t][p] = [f \in Fields[p] |->
                  IF f \in written THEN Merged(c)[f] ELSE @[f]]]
    /\ latest' = [latest EXCEPT ![t][p] = [f \in Fields[p] |->
                  IF f \in DOMAIN dto THEN [by |-> c, value |-> dto[f]] ELSE @[f]]]
    /\ Becomes(c, "done")
    /\ UNCHANGED <<tenants, subscribed, mainBranch, broken>>

\* The instance dies: a creation that has written the tenant leaves it as it is.
LoseTenantCall(c) ==
    /\ tenCall[c].pc \in {"insert", "sub", "branch", "bootstrap", "save"}
    /\ broken' = IF tenCall[c].pc \in {"sub", "branch"} THEN broken \cup {tenCall[c].slug}
                                                        ELSE broken
    /\ Becomes(c, "lost")
    /\ UNCHANGED <<docVars, latest>>

-----------------------------------------------------------------------------
TenantStep(c) == \/ InsertTenant(c) \/ InsertSubscription(c) \/ InsertMainBranch(c)
                 \/ BootstrapSubscription(c) \/ SaveDocument(c)

BeginTenantCall(c) ==
    \E t \in Slugs : \/ FindSlug(c, t) \/ FindSubscription(c, t)
                     \/ \E p \in Parts : \E dto \in Updates[p] : FindDocument(c, t, p, dto)

TenancyTypeOK ==
    /\ tenants \subseteq Slugs /\ subscribed \subseteq tenants /\ mainBranch \subseteq tenants
    /\ broken \subseteq tenants
    /\ doc \in [Slugs -> [Parts -> UNION {Document(p) : p \in Parts}]]
    /\ \A t \in Slugs, p \in Parts : doc[t][p] \in Document(p)
    /\ tenCall \in [Calls -> TenCall]
    /\ \A c \in Calls :
         /\ tenCall[c].pc # "idle" => tenCall[c].slug \in Slugs
         /\ tenCall[c].pc = "save" =>
              /\ tenCall[c].part \in Parts
              /\ tenCall[c].dto \in Dtos(tenCall[c].part)
              /\ tenCall[c].snap \in Document(tenCall[c].part)

\* A tenant has its subscription and its main branch, unless the request that creates it is
\* still at it, or failed or died between the writes: only on a MongoDB without transactions
\* (tenants/service.ts:25-56; subscriptions/service.ts:12-21 can be what makes it fail).
TenantsComplete ==
    \A t \in tenants :
        \/ t \in subscribed \cap mainBranch
        \/ /\ FALSE \in Deployments
           /\ t \in broken \/ \E c \in Calls : /\ tenCall[c].slug = t
                                               /\ tenCall[c].pc \in {"sub", "branch"}

Overlapped(c, d) == c # d /\ c \notin tenCall[d].seen /\ d \notin tenCall[c].seen

\* A field holds what the last save that names it asked for, unless that save overlapped
\* another one of the same document: a whole chatbotSettings saved back, or a value that
\* Mongoose takes for unchanged, loses it only then (tenants/service.ts:84-128,
\* subscriptions/service.ts:26-45).
UpdatesLostOnlyOverlap ==
    \A t \in Slugs, p \in Parts : \A f \in Fields[p] :
        LET last == latest[t][p][f] IN
        doc[t][p][f] # last.value =>
            last.by \in Calls /\ \E c \in Saved(t, p) : Overlapped(c, last.by)
=============================================================================
