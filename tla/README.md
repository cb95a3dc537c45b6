# A TLA+ model of the restaurant platform

The repository is a multi-tenant restaurant backend (`src/backend/src`, Express on serverless
instances, MongoDB, a Redis cache, Firestore for live screens, a vector index, QStash for jobs).  A
request is a chain of awaits; between any two of them every other request, on this instance or another
one, may run; and an instance may be gone after any of them, together with the work it started and did
not await.  The modules here model the backend in four groups, as the code groups what shares state:

- *the floor*: placing and finishing orders, the tables they occupy and the QR sessions opened on them,
  coupons, reservations, the chats a scan opens, the table counter of a branch;
- *the screens*: the Firestore projections of an order and the jobs that repair them;
- *accounts and tenants*: sessions, passwords and one-time codes, tenants with their subscription and
  branch, the rate limiter, and which tenant a request may touch;
- *the menu*: products, categories, the cached catalog, imports and uploads, the vector index.

## 1. Inventory

| Component | State | Operations | Talks to | Correct when |
|---|---|---|---|---|
| orders (`modules/orders`) | `Order` documents: status, table, coupon, `offlineGuid` | `createOrder` behind QR, staff, customer and offline-batch routes; `confirmByCashier`, `completeByKitchen`, `completeOrder`, `updateOrderStatus` | tables and sessions, coupons, Firestore, pricing | a finished order leaves its table; a QR order has proof of a scan of its table; a retry creates no second order |
| tables and sessions (`modules/tables`) | `Table` documents: status, current order, orders served; cache key `table_session:{tenant}:{table}` with a 90-minute TTL | `resolveByQrToken`, `validateTableSession`, `closeTableSession`, create / update / delete | cache, branches, chat sessions | one session per table, held under its own table only, never valid again once closed |
| branches (`modules/branches`) | `Branch` documents: `tableCount` | create / update / delete | tables | `tableCount` is the number of tables |
| coupons (`modules/coupons`) | `Coupon` documents: limit, `timesUsed`, active, expiry | `validateCoupon`, `recordCouponUsage`, edit, delete | orders | the limit is never passed, a use counted at most once |
| reservations (`modules/reservations`) | `Reservation` documents, `Table.status` | create (overlap check), confirm, seat, cancel, no-show | tables | no double booking; RESERVED means a reservation; a seated table is not freed |
| chat sessions (`modules/chat-sessions`) | chat session, scan token, chat binding and table binding, all cache keys | the redirecting scan, `resolveAndBind`, close, bind a table, lookups | tables and sessions, cache | a scan token is used once; a chat is served for the table that was scanned |
| projections (`services/realtime`, `workers/firestore-retry.worker.ts`) | Firestore documents `active_orders`, `cashier_orders`, `kitchen_orders` | `publishSafe`, `delete`, the retry job | orders, job queue | screens converge to the order's status and show only statuses it had |
| authentication (`modules/auth`) | `User` documents; cache keys of the refresh token, the blacklist, `otp:forgot:`, `otp_rate:`, `reset_token:` | login, refresh, logout, change / forgot / verify / reset password, three registrations | cache, tenants | a logout is final; an old password's session ends; a code or grant is used once; passwords change only with proof |
| tenants, subscriptions (`modules/tenants`, `modules/subscriptions`) | tenant, subscription and main-branch documents | `createTenant`, `getSubscription` (find or create), updates of settings, profile, plan | branches | the three exist together; an update is not lost |
| rate limiter (`middleware/rateLimit.middleware.ts`) | one counter key per client | increment, set the window | cache | every counter ends |
| request scope and roles (`middleware`) | none | the tenant of a request; what `tenantQuery` adds to a query | every module | nobody reads or writes another tenant's documents |
| menu, categories, variants | `Menu` document (an array of products), `Category`, `Variant`; `menu:catalog:{tenant}` in the cache | the cached read; add, update, remove, import; create, rename, delete a category | cache, vector index, queue | the cache converges; one product per name; a product carries its category's name |
| menu ingestion (`upload.controller.ts`, its worker) | `MenuUploadStatus`, `Menu.sourceDocuments` | upload, the job and its attempts | queue, menu | the status polled is true of the menu |
| vector index (`modules/vector`, its worker) | one namespace of vectors per tenant | upsert, delete, rebuild, search | menu, queue | the index converges to the menu |
| pricing (`menu/pricing.service.ts`) | none | `priceOrderItems` | menu, orders | guests pay what the menu says |
| reports, table history | none of its own | sales, orders per table and day, history, cleanup of old orders | orders | the reports agree |
| job queue, cache | jobs; keys with TTL | enqueue with a local fallback; get / set / del / incr | all workers | a failed job is retried |
| customers, employees, feedback, notifications; logging-only workers; plumbing | single documents or none | reads and writes by id | | nothing to relate |

`PROJECT.json` lists each with its files and what is modelled of it, and under `hazards` each place
where an order of events that a test would hardly produce matters.

**What is hard.**  (a) *Interleaving and stale reads*: nearly every operation reads, awaits, and
writes what it decided: sessions, overlap checks, refresh tokens, one-time codes, the products array,
settings objects.  (b) *Partial failure*: statuses are written first, the table is freed by a second
update, the session deleted by a third that nobody awaits; a tenant is three documents.  (c) *Unordered
background work*: publishes, deletions, coupon increments and index jobs settle in any order.
(d) *Retries*: failed publishes carry old data, QStash delivers at least once, a crashed upload is
imported again, clients resend offline orders.  (e) *Data kept twice*: `tableCount`, `timesUsed`, the
category's name on each product, the cached catalog, the vectors, the screens.

## 2. The modules

```
 TableSessions  Coupons                     Credentials (abstract)
        \        /                                |
      OrderPlacement -- MCOrders       Tenancy   |  (refined by)
        |      OrderPlacementProofs       \      |
        |                                  Accounts   RateLimit
        |   Reservations  ChatSessions          \      /
        |      /   ______/                      Platform -- MCPlatform
      FrontDesk -- MCFrontDesk                      PlatformProofs
          FrontDeskProofs                           AccountsProofs

 MenuCatalog                        BranchTables -- MCBranchTables, BranchTablesProofs
     |                              OrderProjections -- MCOrderProjections,
 VectorIndex                                            OrderProjectionsProofs
     |
 MenuIngestion -- MCMenu
     MenuProofs                     no state: RequestScope (RequestScopeCases, RequestScopeProofs),
                                    Pricing (PricingCases), CatalogSearch (SearchCases),
                                    Reports (ReportCases)
```

**TableSessions** has the table documents, the session in the cache, and a QR scan as four actions,
one per await: `ReadTable` (the snapshot), `ReadSession` (reuse if there is a session and the snapshot
says OCCUPIED), `OpenSession` (write a fresh one, over anything), `SaveTable` (write `status` only, as
Mongoose does).  A session id is a UUID, so it is named by the scan that minted it.

**Coupons** has `validateCoupon` as a predicate, and the increment as what it is: a background update
whose filter holds the limit, which may be refused or lost.

**OrderPlacement** composes the two with the orders.  A request walks through `createOrder`:
`FindByOfflineGuid`, `CheckCoupon`, `CheckSession`, `InsertOrder` (and `OccupyTable` where there are no
transactions); `SyncLookup` is the loop of an offline batch.  An order is named by the request that
created it.  The four status writes share `WriteStatus`: they look the order up by id, refuse no
status and compare with none.  A terminal status adds an element to `releasing` (the handler that has
still to free the table), and `ReleaseTable` adds one to `closing` (the deletion of the session nobody
awaits).  `InstanceDies` makes any one of these vanish, or a request or scan stop where it is.

| `OrderPlacement` / `TableSessions` / `Coupons` | code |
|---|---|
| `orderStatus`, `NoOrder` | `Order.status`; no such order |
| `tableStatus`, `currentOrder`, `ordersServed` | `Table.status`, `.currentOrderId`, `.totalOrdersServed` |
| `session` | the cache entry of `table_session:{tenant}:{table}` |
| `reqPc`, `scanPc` | the await a request stands at |
| `reqSid`, `scanSnapshot`, `scanSid` | locals of the handlers |
| `Req[r].seats` | the order is DINE_IN and its table is one of its branch: the filter of the table update |
| `recording` | `void recordCouponUsage(...)` in flight |
| `releasing`, `closing` | handlers suspended before the table update; deletions in flight |
| `opened`, `seenAt`, `counted`, `lostReleases`, `handEdited`, `handSeated`, ... | history variables: no guard reads them |

**BranchTables** has `createTable` (insert, sign the QR token, `$inc`) and `deleteTable` (find, delete,
`$inc`) as separate updates, with the branches they count for.

**OrderProjections** repeats the status writes with the Firestore calls each of them launches, and
follows every call: it succeeds, fails and becomes one or two retry jobs with the data it carried, or
dies.  It is a module of its own because nothing in it feeds back into the orders: the only thing it
shares with `OrderPlacement` is the order of status writes, which is arbitrary in both.

**Reservations** has `createReservation` as `CheckOverlap` (every reservation of the branch within the
window, both ends included), `InsertReservation` and `NotifyGuest`, which may throw after the
insert, and the four staff operations as `FindReservation`, `UpdateReservation` (no status is refused)
and `UpdateReservedTable`, which writes the table of the *updated* reservation by id, looking at nothing.
**ChatSessions** has the redirecting half of a scan (`OpenChat`, `MintToken`), `resolveAndBind` as
`ReadToken`, `ReadChatSession`, `SetBinding`, `DropToken`, and the TTL of each key.  **FrontDesk** composes
both with `OrderPlacement`: orders, scans, bookings and staff requests write the same `tableStatus`,
and a chat session is opened under the session id a scan was handed.

| `Reservations` / `ChatSessions` | code |
|---|---|
| `resStatus`, `resTable` | `Reservation.status`, `.tableId` |
| `bookPc`, `deskPc`, `deskOp`, `deskRes`, `deskTable` | where a request stands, and its locals |
| `chatSession`, `tokenSid`, `binding`, `tableBinding` | the four cache keys of a chat |
| `bindPc`, `bindToken`, `bindSid`, `bindChat` | a bot's call of `resolveAndBind` |
| `seenBookings`, `reassigned`, `contended`, `deskWrote`, `deskLoose`, `spent`, `lateReads` | history |

**Accounts** has the eight operations of `modules/auth` await by await over a pool of requests
(`authCall[c]` is the request's program counter and locals).  A JWT is named by its user and the second it
was signed in, because `iat` is all that tells two of them apart; a code is named by the request that
drew it; a hash is its password.  The keys of codes and of their counter are per *email*, which two
tenants may share; refresh and reset keys are per user.  A super admin's refresh and reset find no user
under the tenant of the token and answer 401 and 400.  **Tenancy** has `createTenant` with and without
transactions, `getSubscription`, and the read-change-save of three documents: Mongoose writes the paths
that differ from what was loaded, but `chatbotSettings` as the one object it was spread into.
**RateLimit** has the `INCR` and the later `EXPIRE`.  **Platform** lets each request of a pool be for any of them.
**Credentials** is the abstract specification: a password is set when the account is opened, and then
changes only on a proof of the current one or on a grant, bought with a code mailed for that account.
`Accounts!Promise` instantiates it (`pw <- password`, `grants <- granted`), and `CredentialsKept` says
that every run of `Platform` is one of its runs.

| `Accounts` / `Tenancy` / `RateLimit` | code |
|---|---|
| `password` | `User.passwordHash` |
| `refreshKey`, `blacklist`, `otpKey`, `otpRate`, `resetKeys` | the cache keys |
| `now` | the clock, in the seconds of `iat` |
| `tenants`, `subscribed`, `mainBranch`, `doc` | the documents of a tenant |
| `hits`, `expires` | a counter and whether it has a TTL |
| `granted`, `mailed`, `proved` | history that the refinement maps |
| `issued`, `chain`, `chainPw`, `signedOut`, `overtaken`, `unswept`, `spent`, `late`, `counted`, `broken`, `latest`, `unexpired` | history |

**MenuCatalog** has the operations on the menu, from the load of the whole document to the deletion of the
cached catalog.  A save sends what the request changed: a push, a pull, or fields of array elements under
Mongoose's version check (`VersionOk`), so two saves may merge or one may be refused; a push, a pull and a
changed array of variants also advance the version.  In a transaction the second writer conflicts and retries.
An import finds a category and creates it in two awaits, and the unique index refuses the one that another
request made in between.  A product is named by the request (and attempt) that pushed it.
**VectorIndex** takes the jobs the catalog enqueues, in any order and again after a failure.
**MenuIngestion** puts uploads on top: the status document, the deliveries of the job, each of which runs the
catalog's own import, and the failure path.

| `MenuCatalog` / `VectorIndex` / `MenuIngestion` | code |
|---|---|
| `products`, `version`, `hasMenu` | `Menu.products`, `.__v`, the document |
| `catName` | `Category` documents |
| `cache` | `menu:catalog:{tenant}` |
| `mcall` | a request: operation, program counter, loaded snapshot |
| `jobs`, `work`, `vec` | jobs waiting, deliveries at work, the namespace |
| `status`, `records` | `MenuUploadStatus.status`, entries in `sourceDocuments` |
| `unsynced`, `renamed`, `imported`, `crossed`, `early`, `dropped`, the `after` of a request | history |

**The modules without state.**  `RequestScope` translates `authMiddleware`, `tenantMiddleware`,
`rbacMiddleware` and `tenantQuery`: from a request to the tenant it works for, and from there to the
documents a filter finds and a write changes.  `Pricing` is `priceOrderItems`, in tenths of a cent so that
rounding shows, and the ways an option's price takes into the menu.  `CatalogSearch` is the search with
its fallback, `Reports` the reports and the cleanup.  Each has a module of cases, which compares it with a
description that does not follow the code; an `ASSUME` of an MC module evaluates it in every run of that
module.

The `MC` modules give the constants their values; the eight modules named `...Proofs` hold the theorems.

## 3. The runs

| Run | What it has in it | Properties | States |
|---|---|---|---|
| `visits` | two tables, two scans, a QR guest and a waiter ordering at `t1`; two status writes or manual edits; one crash | `TypeOK`, `FinishedOrderLeavesTable`, `SeatedTableOccupied`, `QrOrderProof`, `SessionsNeverRevive`, and the invariants of the proofs `PlacementInv`, `SessionInv` | 2.3 million |
| `tables_freed` | one table and scan, a waiter's order and a takeaway order that names the table; three status writes or edits, one crash; fairness | `FinishedOrderEventuallyOff` | 313 thousand |
| `intake` | four requests, one coupon of limit 1, one guid, two of them a batch and one at a table, on a standalone MongoDB (`Transactional = FALSE`); two coupon edits, one crash | `DuplicatesOnlyOverlap`, `LimitNeverOverrun`, `EachUseCountedOnce`, and `UseInv` of the proofs | 41 thousand |
| `branch_tables` | two branches, three creations (two with one number), two deletions, one branch edit | `TypeOK`, `TableCountAccountsForTables` | 4.3 million |
| `projection` | one order, three status writes, one redelivery per job, two of the three collections; evaluates `ReportCases` | `TypeOK`, `SettledProjectionMatches`, `ScreensShowHistory` | 1.2 million |
| `front_desk` | two tables; any three of two scans, a waiter's order, two bookings exactly one overlap window apart, two staff requests, two binds; one status write, one close, binding or TTL of a chat, one crash | `FrontTypeOK`, `ClashOnlyOverlap`, `ReservedTableHasReservation`, `OnlyDeskMisleadsTable`, `SpentTokenStaysSpent`, `ChatServedForScannedTable` | 333 thousand |
| `platform` | three requests of any kinds on three accounts (an owner who is signed in, a super admin with the same email, a cashier to register), two tenants, one counter; two seconds, limit 1 on codes, one crash, with and without transactions; evaluates `RequestScopeCases` | `PlatformTypeOK`, `SignedOutStaysOut`, `OldPasswordSessionsEnd`, `SpentStaysSpent`, `MailsOverLimitOverlap`, `TenantsComplete`, `UpdatesLostOnlyOverlap`, `CountersEnd`, `CredentialsKept` | 410 thousand |
| `menu` | two requests of any kinds on a menu of one product in one category: reads, additions, edits, removals, imports, categories, one upload with two attempts; one fault, with and without transactions; evaluates `PricingCases` and `SearchCases` | `TypeOK`, `StaleMenuOnlyOverlap`, `SameNameOnlyOverlap`, `LabelsFollowCategories`, `IndexMatchesMenu`, `UploadStatusTrue` | 1.41 million |

**Bounds.**  The hazards of the visit model need two scans of one table, or a scan against an order
against a status write; a second table shows that sessions do not cross, and two status writes let
a release of one order fall into the life of the next.  `MaxLost = 1`: tasks die one by one and
independently, and one lost task already breaks what a lost task can break.  In `intake`, one coupon with
limit 1 and two requests for it are enough to pass the limit, and staff move it to 2 and back.  Two tables of one number and two deletions of
one table are the cases where the counter could be wrong.  In `projection` a call and a retry job of an
earlier write, and the calls of a later one, are there together; collections never interact, so two of
them (`active_orders`, which every write updates, and `kitchen_orders`, which starts late) are followed.
In `front_desk`, `MaxStarted = 3` leaves room for every triple of requests: two bookings and the staff
request that revives one; two staff requests on one reservation; a scan, and two binds of its token;
`OverlapWindow = 2` puts the bookings on the closed end of the window.  What needs more than three is covered by
the proofs, which bound nothing.  In `platform` a race on one key has a reader, a writer that is
overtaken and the request that notices: three requests; two seconds are what makes two tokens of one user equal or
different; `OtpLimit = 1` is passed by two.  In `menu`, two requests are two writers, a writer against a
reader, or an upload delivered again against a writer; `Adds`, `Edits` and `Files` are chosen so that names and
categories collide, and `SetsVariants` so that two saves that overlap are merged when an addition or an import comes
first and one refused when an edit does.  Three concurrent writers of one menu are not checked.

**Four runs end in a violation**, each of a sentence of the repository:

- `session_replaced`: "One active session per table: if session open and table is OCCUPIED, reuse
  existing" (`tables/service.ts:105`).  Two phones that scan together both mint a session and the later
  one replaces the earlier under an OCCUPIED table.
- `duplicate_billing`: "zero duplicate billing" (`docs/phase-3-core-domain-modules.md:30`).  The lookup of
  the guid and the insert are awaits apart, the index is not unique, and the idempotency middleware is
  mounted nowhere.  What does hold is `DuplicatesOnlyOverlap`.
- `negative_table_count`: "guard against negative" (`tables/service.ts:210`).  There is no guard.  What does
  hold is `TableCountAccountsForTables`.
- `projection_resync`: "Firestore projection is brought back in sync with MongoDB"
  (`firestore-retry.worker.ts:16`).  The retry writes the data of the failed publish, not the order's status.
  What does hold is `SettledProjectionMatches`.

**What the passing runs say of overlaps.**  A property that exempts an overlap does not say that the overlap is
harmless: it says that the damage has no other cause.  A booking is refused whenever the other one was there at
its overlap check (`ClashOnlyOverlap`), but two whose checks overlap are both kept.  A scan token that was
deleted never serves again (`SpentTokenStaysSpent`), but two binds that read it before either deletes it both
succeed.  A logout is final except for a refresh or login that had passed its check before the key was deleted
(`SignedOutStaysOut`); the same gap lets a session opened with an old password survive the change
(`OldPasswordSessionsEnd`).  Two calls that read one code before either deletes it both get a grant
(`SpentStaysSpent`), but neither can be for an account the code was not mailed for (`CredentialsKept`). Two
updates of different chatbot settings lose one of the two when they overlap (`UpdatesLostOnlyOverlap`).  A
reader that overlaps a writer can cache a stale catalog for its whole TTL (`StaleMenuOnlyOverlap`); two saves of
one product can leave the category of one with the name of the other (`LabelsFollowCategories`); the rebuild an
import enqueues from inside its transaction can read the menu before the commit (`IndexMatchesMenu`).

**What the properties leave to the code as it is.**  A table left OCCUPIED by a scan with nobody ordering; a
table freed under another guest by an order that only named it, by a second terminal write, or by a cancelled
reservation; a reserved table nobody frees when a confirm moves the reservation; a session of the next guest
deleted by a late `closeTableSession`; a coupon use consumed by an order that was then rejected, and a discount
granted past the limit (validate, then record); `totalOrdersServed` counted twice by PAID and then COMPLETED; an
offline batch stopped by its first error; `cashier_orders` never updated by `updateOrderStatus`; codes of one
email shared by the accounts of two tenants; a reset token that serves as a bearer token as well, because
`authMiddleware` asks for the signature and not for the type (`Authenticate`); a super admin who can neither
refresh nor reset.  All of these are behaviours of the model too, because they are behaviours of the code, and
no property says they cannot happen.

**Seen in the code without state.**  What the cases pin down:

- A product that is added or edited by `POST` or `PUT /menu/products` loses the price of its options: only the
  import maps `priceDelta` to what `priceOrderItems` reads (`menu/repository.ts:88` against `:166`, `:179-180`,
  `:256`; `pricing.service.ts:36-38`).  `PricingCases!OptionsOnTheirWay`.
- `.partial()` of a schema with defaults keeps the defaults: an edit of a product that does not name its variants
  removes them (`menu/controller.ts:69`), and one of a branch that does not name `tableCount` sets it to 0
  (`branches/validation.ts:12`).
- In the fallback search a product whose name is the query can rank below one that has its words scattered
  (`vector/sync.service.ts:129-138`).  `SearchCases!ExactNameNotFirst`.
- The cleanup worker deletes old finished orders of all tenants, and with them their share of the sales
  reports, which read the orders.  `ReportCases!CleanupKeepsRecent` says what stays.

**Exemptions are history, not luck.**  The history variables name the cases in which the code does break
the plain statement, each set at the one action that breaks it; outside of them the property must hold.

| Property | Exempt, and set by |
|---|---|
| `FinishedOrderLeavesTable`, `SeatedTableOccupied` | `lostReleases` (the handler died), `handEdited`, `handSeated` (`updateTable`) |
| `LimitNeverOverrun`, `TableCountAccountsForTables` | `lowered`, `edited` (staff wrote the limit or the counter) |
| `SettledProjectionMatches` | `overlapped` (two writes in flight), `dropped` (a call or job lost) |
| `ClashOnlyOverlap` | `reassigned` (a confirm revived or moved the reservation) |
| `ReservedTableHasReservation` | `contended`, `deskLoose` (staff requests on one reservation, or left behind), `handEdited` |
| `OnlyDeskMisleadsTable` | `deskWrote` (a staff request was the last to write the table's status; the next order, scan or release takes the table out of it), `handEdited` |
| `SignedOutStaysOut`, `OldPasswordSessionsEnd` | `overtaken` (past its check when the key was deleted), `unswept` (died before the deletion) |
| `TenantsComplete`, `CountersEnd` | `broken`, `unexpired` (failed or died between two writes) |
| `SameNameOnlyOverlap` | `renamed` (`updateProduct` checks no name) |
| `IndexMatchesMenu` | `crossed`, `early`, `dropped`, `unsynced` (deliveries at once, before the commit, out of retries, never enqueued) |

Where an exemption is an overlap, the runs keep who had ended when a request began (`after`, `seen`, `from`,
`seenAt`, `seenBookings`), so that "overlap" is a fact of the run and not a guess.

**Deadlock** is not checked: every run ends when its requests are served and its bounds used up.

## 4. Fairness

Only one thing is assumed, in the specification of the orders:
`WF_vars(\E x \in releasing : ReleaseTable(x))`.  A handler that has written a
terminal status is resumed by the event loop when that write settles, unless its instance dies (which
moves the order to `lostReleases`).  Nobody is made to scan, to order or to edit, and the deletion of the
session, which nobody awaits, is not assumed to happen.  `FinishedOrderEventuallyOff` then says that no
interference keeps a finished order on its table.  The front desk, the platform and the menu assume no
fairness: what they promise "in the end" is stated of settled states (`IndexMatchesMenu`,
`SettledProjectionMatches`, `UploadStatusTrue`), because the queue's deliveries are the work of another
service and may run out.

## 5. What is proved

TLAPS checks the following for every value of the constants that the named assumptions allow:
any sets of requests, tables, users and tenants, transactional or not (finite sets where a cardinality is
involved), with no bound on what the runs bound.

- `OrderPlacementProofs`: `Typing`, then the two inductive invariants.  `Placement` proves `PlacementInv`
  with `TypeOK`: an order exists exactly from its insert on, and a table holds an order that exists and was
  placed at it.  From it follow `FinishedOrdersLeave` (the interesting cases are a status write, which adds
  the release it owes, and the insert, which is PENDING), `SeatedTables`, and `OnlyOverlappingDuplicates`
  (`seenAt` holds no order of the request's own guid once it is past the lookup, and orders are never
  created before their request's insert).  `SessionBookkeeping` proves `SessionInv`: the session
  under a table was opened by a scan of that table, and a request past `CheckSession` holds one of its own
  table; `QrOrdersProven` is what it says of orders, and `SessionsStayClosed` follows because only a scan
  that has not opened one yet opens a session.  The coupons of the same module: `LimitsHold` (the filter of the
  update is the whole argument: it is evaluated where the increment happens), and `UsesCountedOnce`, which needs `UseOnce`: a request leaves the coupon check once, so
  a use cannot be put in flight again after it was settled.
- `BranchTablesProofs`: `CountAccounts`, by the effect of every action on the three cardinalities; it rests
  on `Typing` and on the finiteness of the requests.
- `FrontDeskProofs`: a step of `FrontDesk` is one of the orders and scans, one of the desk or one of the chats
  (`FrontSteps`), so the invariants of the orders carry over (`VisitsKept`).  `ClashesOverlap` needs `BookInv`:
  a request that is about to insert found no conflict among the reservations it saw, and a reservation only
  changes table or comes back to life by a confirm.  `ReservedTablesClaimed` needs `DeskInv`: a staff request
  between its two writes still has its reservation as it wrote it, unless another has that reservation too.
  `DeskMisleads` goes through every write of a table's status: an order that sits down and a scan that is saved make
  it OCCUPIED, a release takes the order off it, and what else it says is what the last staff request, which has
  ended, came for.  `SpentTokensStaySpent` and
  `ChatsServeScannedTables` from `HandedInv` and `ChatInv`: a session id handed to a scan was opened for its
  table, and a token of it points there or nowhere.
- `OrderProjectionsProofs`: `ScreensTrue` by `HistoryInv` (every pending call and job carries a status the order
  had), `SettledProjections` by `ReflectInv`: an order whose writes never overlapped and that lost nothing has
  its `active_orders` document right, or a call or job pending that makes it right, and none that makes it wrong.
- `PlatformProofs`: `CountersEndHolds`, and `TenantsWhole`: a tenant lacks a document only while the request that
  creates it stands before that write, or was broken there.  `UpdatesKept` needs `UpdatesInv`, about the copies
  in memory: one that has seen every save of its document is the document, and where it differs from the last
  save of a field, it has not seen that save or the save was contested already.
- `AccountsProofs`: `PlatformTypes` (with the inductive `AccountsInv`), then the refinement
  `PasswordsAsPromised`: the initial states map to initial states, and every step of the platform to a step of
  `Credentials` or a stutter.  `AccountsInv` is what makes it go through: a call past
  the read of a code holds one that was mailed for its user, a grant in the cache is one that was answered, and a call
  about to save a password holds a proof or a grant of that user.  `NothingSpentTwice` rests on `CodesInv`: a code or grant that was
  spent is under no key, and no call past its read will put it back.
  The rest of the module says what the history variables are for.  `chain[u]` is the line of the stored token: the logins,
  registrations and refreshes it descends from.  `SignOutInv` says that these have ended, that no two users'
  lines meet (the stored one and those of the calls about to store), and that the token stored, as well as
  every token about to be stored, is of no line that was signed out and was opened with the password of
  today, or else has its excuse: overtaken, unswept, or a deletion to come.  A login brings a line of its own, a
  refresh continues the stored one, and a deletion marks whatever is past its check, so `SignOutsAreFinal` and
  `NewPasswordsEndSessions` follow.  `MailsBounded` needs `RateInv`: a counter that was read is at
  least the number of requests it stands for, as long as these came one after another; who counts later
  without having read it makes two that did not.
- `MenuProofs`: every step of a request is a *move* (`Moves`): a next program counter and locals that fit each
  other, one request at a time.  `MenuInv` says what each request knows where it stands (it has loaded an
  array, the product it names was in it, its menu exists or its transaction is to make it), that a product's price
  names a request that has saved, that a job names a product its request still knows, and what the documents of
  an upload say by where its delivery stands; `MenuTypes` and `UploadsTold` are what it says of all.
  `NamesApart` needs `NamesInv`: an id that is not yet pushed is in no array, saved or loaded; and a product that
  the array loaded by a request lacks came of a request that had not ended when that one began.
  `IndexFollows` needs `IndexInv`: as long as no fault is on record, every product is *followed*: a
  request that has saved it owes its job, a job will read it, a delivery has read it as it is, or the index
  holds it as it is; deliveries do not overlap, and a rebuild has wiped before it writes.
  `CacheFollows` needs `CacheInv`: where the array or the names a reader holds are not those of the database, the
  writer that made the difference overlaps the reader, or still owes the deletion of the key; and a catalog in the cache was
  read by a reader that no finished writer overtook.
  `LabelsFollow` needs two.  `NamingInv` says that no two categories have one name, that a category not yet made has
  none, and that what a transaction has made but not committed meets no other name (the unique index).
  `LabelsInv` says that as long as no rename or deletion overlapped a writer, died or failed (`Disturbed`), every
  product is in order but for those of the category whose rename or deletion is still to cascade (`Changing`), and what
  each request holds or means to write is in order (`MeansOrder`).  An undisturbed rename or deletion has the
  menu for itself (`Alone`), and every other save writes category and label together or neither (`SavedInOrder`).
- `RequestScopeProofs`: `StaffScope`, `PublicScope`, `SettingsScope` (which tenant a request works for),
  `WritesStayInTenant` (the documents of the other tenants are the same before and after a write, as long as the
  update names no tenant) and their composition `StaffStayInTenant`.  `tenantQuery` does not look into an update,
  so that one naming a tenant would give own documents away (`RequestScopeCases!UpdateMayGiveAway`); the schemas of
  the routes let none through, and even then the documents of others stay as they are (`OthersStay`).  They are
  about every request and every set of documents.  Routes that take the tenant from their own
  path or body, like the super admin's, are outside of them.

Assumptions: the named `ASSUME`s of the modules (what a request is, `None` is no id, the limits staff set are
positive as the validation schema says, staff write statuses of the enum, updates name fields of the
document they update; ids are ids of one kind of document, and `None` is none of them: `IdAssumption`; in the menu
the requests find, category names are unique and products carry them: `OldMenuInOrder`).  TLC
evaluates them in every run.

**Only model-checked:** `FinishedOrderEventuallyOff` (liveness under fairness is out of the prover's reach);
the cases of the modules without state, bounded by nature (sums and folds are inductions over data); and of course
the four violations.  Every invariant a passing run checks is the subject of a theorem.

## 6. Not modelled

- *Data that no property tells apart*: guest data, notes, texts, pictures, files of menus (a file is a pair of
  rows, or fails to parse), embeddings (a vector is the product it was made of), password hashing and signing.
- *Discounts*: the amount of a coupon; half-cent ties of the floating-point rounding in `Pricing`.
- *Single-document modules*: customers, employees, feedback, notifications; their tenant filter is
  `RequestScope`'s.
- *Nothing to keep*: workers that log or send (mails, invoices, telegram, backups, billing), request plumbing and
  configuration, the generated API documentation, scripts.
- *Not in use*: the locks and the idempotency middleware have no caller; the subscription guard is mounted on no
  route; the payment integration is a stub.
- *Other services*: MongoDB, Redis, QStash, Firestore, the index and the mailer are modelled by what the code
  does with their answers.  The in-memory cache, queue and realtime services of local development are left
  out; the `incr` of that cache, which reads, awaits and sets, is in the list of hazards.
- *Deletion of a table in use*: its later updates match no document (`BranchTables` models deletion by itself).
- *More than one tenant* on the floor and in the menu: every query carries the tenant (`StaffStayInTenant`) and
  nothing is shared across tenants.

## 7. Plan

1. *An abstract specification of a visit* (a table is free, open or seated; an order opens, is worked on, is
   finished), implemented by `OrderPlacement` under a refinement mapping.
2. *Liveness of uploads and of the index* under a fair queue that delivers until its attempts are used up.
