----------------------------- MODULE MenuCatalog -----------------------------
(***************************************************************************)
(* The menu of one tenant: modules/menu, modules/categories and             *)
(* modules/variants.  All products are one array in one Menu document,      *)
(* categories are documents of their own, and each product carries the id   *)
(* and the name of its category.  The catalog shown to guests is cached     *)
(* under menu:catalog:{tenant}; a writer deletes the key when it is done.   *)
(*                                                                          *)
(*   read      idle -> cats -> menu -> fill -> done                         *)
(*   add       idle -> [lookup] -> save -> enqueue -> del -> done           *)
(*   update    idle -> [lookup] -> save -> enqueue -> del -> done           *)
(*   remove    idle -> save -> enqueue -> del -> done                       *)
(*   import    idle -> category -> [newCategory] -> save -> enqueue ->      *)
(*             [commit] -> del -> done                                      *)
(*   create    idle -> del -> done               (a category; variants too) *)
(*   rename    idle -> write -> del -> cascade -> save -> enqueue -> done   *)
(*   drop      idle -> del -> cascade -> save -> enqueue -> done            *)
(*                                                                          *)
(* Every operation on products loads the whole document first (findOr-      *)
(* CreateMenu), changes it in memory and saves what it changed.             *)
(***************************************************************************)
EXTENDS Naturals, FiniteSets

CONSTANTS Calls,        \* requests, and uploads with the attempts to process them
          MaxAttempts,  \* attempts at one upload
          OldProducts, OldCategories,  \* ids from before the first state
          OldMenu,      \* [OldProducts -> product]
          OldNames,     \* [OldCategories -> category name]
          Names,        \* product names a dto may carry, already trimmed and lowered
          CategoryNames,
          Adds,         \* products that addProduct is sent: name, whether in a category
          Edits,        \* the edits of updateProduct: a new name or None, whether it moves
          Files,        \* [name, category]: what an import or an uploaded file holds
          SetsVariants, \* operations whose dtos give a product other variants than it had
          MaxFaults,    \* bound on jobs, deliveries and instances lost
          Deployments,  \* TRUE where MongoDB has transactions, FALSE on a standalone one
          None

Attempts   == 1 .. MaxAttempts
Ids        == OldProducts \cup (Calls \X Attempts)   \* a new product is named by its maker
Categories == OldCategories \cup (Calls \X Attempts)
Product    == [name: Names, cat: Categories \cup {None}, label: CategoryNames \cup {None},
               price: Calls \cup {None}]   \* the price stands for the request that set it
Arrays     == [Ids -> Product \cup {None}]
Naming     == [Categories -> CategoryNames \cup {None}]

CategoryOps == {"rename", "drop"}

ASSUME MenuAssumption == /\ OldMenu \in [OldProducts -> Product]
                         /\ \A id \in OldProducts : OldMenu[id].price = None
                         /\ OldNames \in [OldCategories -> CategoryNames]
                         /\ Files \subseteq Names \X CategoryNames
                         /\ Adds \subseteq Names \X BOOLEAN
                         /\ Edits \subseteq (Names \cup {None}) \X BOOLEAN
                         /\ SetsVariants \cap CategoryOps = {}
                         /\ MaxAttempts \in Nat \ {0} /\ MaxFaults \in Nat
                         /\ Deployments \subseteq BOOLEAN

VARIABLES hasTx,       \* whether this deployment has transactions
          hasMenu,     \* whether the Menu document exists
          products,    \* [id -> product, None when it is not in the array]
          version,     \* Menu.__v
          catName,     \* [category -> its name, None when there is no such category]
          cache,       \* the cached catalog with the request that filled it, or None
          mcall,       \* [call -> its program counter and locals]
          jobs,        \* vector-sync jobs enqueued and not yet taken
          unsynced,    \* history: calls that died between their save and the enqueue
          faults,      \* the jobs, deliveries and instances lost so far
          renamed      \* history: products that updateProduct gave a name

menuVars    == <<hasTx, hasMenu, products, version>>
catalogVars == <<menuVars, catName, cache, mcall, jobs, unsynced, faults, renamed>>

NoProducts == [id \in Ids |-> None]
MenuPc == {"idle", "cats", "menu", "newMenu", "fill", "lookup", "category", "newCategory",
           "save", "enqueue", "commit", "del", "write", "cascade", "done", "denied", "failed",
           "lost", "status", "ingest", "processing", "record", "del2", "complete", "fail"}
Imports     == {"import", "upload"}
Ended       == {"idle", "done", "denied", "failed", "lost"}
MenuOps     == {"read", "add", "update", "remove", "create", "variant"}
                   \cup CategoryOps \cup Imports

MenuCall == [op: MenuOps \cup {None}, pc: MenuPc, id: Ids \cup {None},
             name: Names \cup CategoryNames \cup {None},
             cat: Categories \cup {None}, label: CategoryNames \cup {None},
             cats: Naming \cup {None}, snap: Arrays \cup {None}, ver: Nat, made: BOOLEAN,
             try: Attempts, after: SUBSET Calls]

IdleCall == [op |-> None, pc |-> "idle", id |-> None, name |-> None, cat |-> None, label |-> None,
             cats |-> None, snap |-> None, ver |-> 0, made |-> FALSE, try |-> 1, after |-> {}]

\* An id is that of one document, and None is nothing's.
ASSUME IdAssumption ==
    /\ (OldProducts \cup OldCategories) \cap (Calls \X Attempts) = {}
    /\ None \notin Ids \cup Categories \cup Names \cup CategoryNames \cup Calls
    /\ None \notin Product /\ None \notin Arrays /\ None \notin Naming
    /\ None \notin MenuOps

\* Before any of the requests names are unique and products in order; the property of labels
\* says what the requests may do to that.
ASSUME OldMenuInOrder ==
    /\ \A j, k \in OldCategories : OldNames[j] = OldNames[k] => j = k
    /\ \A id \in OldProducts : LET p == OldMenu[id] IN
          IF p.cat = None THEN p.label = None
                          ELSE p.cat \in OldCategories /\ p.label = OldNames[p.cat]

\* The locals of a request end with it; a job keeps the id it was given.
At(call, pc)    == IF pc \in Ended
                   THEN [IdleCall EXCEPT !.op = call.op, !.pc = pc, !.id = call.id,
                                         !.try = call.try, !.after = call.after]
                   ELSE [call EXCEPT !.pc = pc]
MGoto(c, pc)    == mcall' = [mcall EXCEPT ![c] = At(@, pc)]
Over            == {c \in Calls : mcall[c].pc \in Ended \ {"idle"}}
Opened(op)      == [IdleCall EXCEPT !.op = op, !.after = Over]
InArray(snap)   == {id \in Ids : snap[id] # None}
Live            == InArray(products)

CatalogInit ==
    /\ hasTx \in Deployments /\ hasMenu \in BOOLEAN
    /\ products = [id \in Ids |-> IF hasMenu /\ id \in OldProducts THEN OldMenu[id] ELSE None]
    /\ version = 0
    /\ catName = [k \in Categories |-> IF k \in OldCategories THEN OldNames[k] ELSE None]
    /\ cache = None
    /\ mcall = [c \in Calls |-> IdleCall]
    /\ jobs = {} /\ unsynced = {} /\ renamed = {} /\ faults = 0

-----------------------------------------------------------------------------
(* findOrCreateMenu: the document as it is now, or an empty one of its own. *)

\* The handler goes on with the document it has: without the product it names, 404.
AfterLoad(call) ==
    IF call.op = "read" THEN "fill"
    ELSE IF call.op \in {"update", "remove"} /\ call.snap[call.id] = None THEN "denied"
    ELSE IF call.op \in Imports THEN "category"
    ELSE IF call.op \in {"add", "update"} /\ call.cat # None THEN "lookup"
    ELSE "save"

Loaded(call) ==
    LET read == [call EXCEPT !.snap = products, !.ver = version, !.made = FALSE] IN
    IF hasMenu THEN At(read, AfterLoad(read)) ELSE [call EXCEPT !.pc = "newMenu"]

Load(c, call) ==
    /\ mcall' = [mcall EXCEPT ![c] = Loaded(call)]
    /\ UNCHANGED <<menuVars, catName, cache, jobs, unsynced, faults, renamed>>

\* An import may run in a transaction: what it writes before the commit nobody sees, and
\* others wait to write the same.
InTransaction(c) == hasTx /\ mcall[c].op \in Imports
Uncommitted      == {c \in Calls : InTransaction(c) /\
                        mcall[c].pc \in {"category", "newCategory", "save", "enqueue", "commit"}}
MenuPending      == \E c \in Uncommitted : mcall[c].made
NamePending(g)   == \E c \in Uncommitted : /\ mcall[c].cat = <<c, mcall[c].try>>
                                            /\ mcall[c].label = g
Saving           == \E c \in Uncommitted : mcall[c].pc \in {"enqueue", "commit"}

\* A 500, or the end of one attempt at an upload.
Refused(c) == MGoto(c, IF mcall[c].op = "upload" THEN "fail" ELSE "failed")

\* The new document is changed and saved, but was never inserted.
CreateMenu_NotSaved(c) ==
    LET empty == [mcall[c] EXCEPT !.snap = NoProducts, !.ver = 0, !.made = TRUE] IN
    /\ mcall[c].pc = "newMenu" /\ ~MenuPending
    /\ mcall' = [mcall EXCEPT ![c] = At(empty, AfterLoad(empty))]
    /\ UNCHANGED <<menuVars, catName, cache, jobs, unsynced, faults, renamed>>

\* Only one of two concurrent creations passes the unique index; a read may be the other.
CreateMenu(c) ==
    LET empty == [mcall[c] EXCEPT !.snap = NoProducts, !.ver = 0, !.made = TRUE] IN
    /\ mcall[c].pc = "newMenu" /\ ~MenuPending
    /\ \/ hasMenu  /\ Refused(c)
       \/ ~hasMenu /\ mcall' = [mcall EXCEPT ![c] = At(empty, AfterLoad(empty))]
    /\ hasMenu' = (hasMenu \/ ~InTransaction(c))
    /\ UNCHANGED <<hasTx, products, version, catName, cache, jobs, unsynced, faults, renamed>>

-----------------------------------------------------------------------------
(* getFullMenu.                                                            *)

GetCached(c) ==
    /\ mcall[c].pc = "idle"
    /\ mcall' = [mcall EXCEPT ![c] = [Opened("read") EXCEPT
                    !.pc = IF cache # None THEN "done" ELSE "cats"]]
    /\ UNCHANGED <<menuVars, catName, cache, jobs, unsynced, faults, renamed>>

ReadCategories(c) ==
    /\ mcall[c].pc = "cats"
    /\ mcall' = [mcall EXCEPT ![c].cats = catName, ![c].pc = "menu"]
    /\ UNCHANGED <<menuVars, catName, cache, jobs, unsynced, faults, renamed>>

ReadProducts(c) == mcall[c].pc = "menu" /\ Load(c, mcall[c])

\* What was read is cached for an hour, whatever was written meanwhile.
FillCache(c) ==
    /\ mcall[c].pc = "fill"
    /\ cache' = [cats |-> mcall[c].cats, products |-> mcall[c].snap, by |-> c]
    /\ MGoto(c, "done")
    /\ UNCHANGED <<menuVars, catName, jobs, unsynced, faults, renamed>>

-----------------------------------------------------------------------------
(* Products: the handlers up to their save.                                *)

AddProduct(c, name, k) ==
    /\ mcall[c].pc = "idle"
    /\ Load(c, [Opened("add") EXCEPT !.name = name, !.cat = k])

\* A name that the dto leaves out is None; one it carries is not compared with the others.
UpdateProduct(c, id, name, k) ==
    /\ mcall[c].pc = "idle"
    /\ Load(c, [Opened("update") EXCEPT !.id = id, !.name = name, !.cat = k])

RemoveProduct(c, id) ==
    /\ mcall[c].pc = "idle"
    /\ Load(c, [Opened("remove") EXCEPT !.id = id])

\* One category with one product.
ImportMenu(c, name, g) ==
    /\ mcall[c].pc = "idle"
    /\ Load(c, [Opened("import") EXCEPT !.name = name, !.label = g])

\* The name of the category the dto names, None when it is gone.
LookupCategory(c) ==
    /\ mcall[c].pc = "lookup"
    /\ mcall' = [mcall EXCEPT ![c].label = catName[mcall[c].cat], ![c].pc = "save"]
    /\ UNCHANGED <<menuVars, catName, cache, jobs, unsynced, faults, renamed>>

NamedCategory(g) == {k \in Categories : catName[k] = g}

\* bulkImport looks for the category by its name, outside its transaction.
FindImportCategory(c) ==
    LET found == NamedCategory(mcall[c].label) IN
    /\ mcall[c].pc = "category"
    /\ \/ \E k \in found : mcall' = [mcall EXCEPT ![c].cat = k, ![c].pc = "save"]
       \/ found = {} /\ mcall' = [mcall EXCEPT ![c].pc = "newCategory"]
    /\ UNCHANGED <<menuVars, catName, cache, jobs, unsynced, faults, renamed>>

\* What it did not find it makes, for itself until the commit if there is a transaction.  The
\* unique index refuses the name if another request has made the category since.
CreateImportCategory(c) ==
    LET g == mcall[c].label
        new == <<c, mcall[c].try>>
    IN
    /\ mcall[c].pc = "newCategory" /\ ~NamePending(g)
    /\ \/ NamedCategory(g) # {} /\ Refused(c) /\ UNCHANGED catName
       \/ /\ NamedCategory(g) = {}
          /\ mcall' = [mcall EXCEPT ![c].cat = new, ![c].pc = "save"]
          /\ catName' = IF hasTx THEN catName ELSE [catName EXCEPT ![new] = g]
    /\ UNCHANGED <<menuVars, cache, jobs, unsynced, faults, renamed>>

FindOrCreateCategory(c) == FindImportCategory(c) \/ CreateImportCategory(c)

-----------------------------------------------------------------------------
(* What the handlers make of the array they loaded.                        *)

Priced(c, p) ==
    LET call == mcall[c] IN
    [name  |-> IF call.op = "update" /\ call.name # None THEN call.name ELSE p.name,
     cat   |-> IF call.cat # None THEN call.cat ELSE p.cat,
     label |-> IF call.cat # None /\ call.label # None THEN call.label ELSE p.label,
     price |-> c]

NewProduct(c) == [name |-> mcall[c].name, cat |-> mcall[c].cat, label |-> mcall[c].label,
                  price |-> c]

Relabelled(c, p) ==
    IF p # None /\ p.cat = mcall[c].cat
    THEN IF mcall[c].op = "drop" THEN [p EXCEPT !.cat = None, !.label = None, !.price = c]
                                 ELSE [p EXCEPT !.label = mcall[c].name, !.price = c]
    ELSE p

\* The name is looked for in the category of the dto only.
SameName_InCategory(c) ==
    {id \in InArray(mcall[c].snap) : /\ mcall[c].snap[id].name = mcall[c].name
                                     /\ mcall[c].snap[id].cat = mcall[c].cat}

SameName(c) == {id \in InArray(mcall[c].snap) : mcall[c].snap[id].name = mcall[c].name}

\* By name the product is updated, or pushed when the loaded array has none of that name.
ByName(c) ==
    LET snap == mcall[c].snap IN
    IF SameName(c) = {} THEN {[snap EXCEPT ![<<c, mcall[c].try>>] = NewProduct(c)]}
                        ELSE {[snap EXCEPT ![id] = Priced(c, snap[id])] : id \in SameName(c)}

\* The arrays save() may be called with; by id a product is updated or pulled, and a cascade
\* goes through all of its category.
Wanted(c) ==
    LET call == mcall[c]
        snap == call.snap
    IN
    CASE call.op \in {"add"} \cup Imports -> ByName(c)
      [] call.op = "update"         -> {[snap EXCEPT ![call.id] = Priced(c, snap[call.id])]}
      [] call.op = "remove"         -> {[snap EXCEPT ![call.id] = None]}
      [] call.op \in CategoryOps    -> {[id \in Ids |-> Relabelled(c, snap[id])]}

-----------------------------------------------------------------------------
(* save() of a Mongoose document.  It sends what changed since the load:    *)
(* fields of the elements that were edited, under the condition that __v is *)
(* still the one of the load, or a $push or a $pull, which has no condition *)
(* and increments __v.  So does an edit that sets the array of variants of  *)
(* its product; a cascade sets none.                                        *)

Edited(c, want) == {id \in Ids : /\ mcall[c].snap[id] # None /\ want[id] # None
                                 /\ want[id] # mcall[c].snap[id]}
Moved(c, want)  == {id \in Ids : (mcall[c].snap[id] = None) # (want[id] = None)}

VersionOk(c, want) == Edited(c, want) = {} \/ version = mcall[c].ver

Fields(old, snap, want) ==
    [name  |-> IF want.name # snap.name THEN want.name ELSE old.name,
     cat   |-> IF want.cat # snap.cat THEN want.cat ELSE old.cat,
     label |-> IF want.label # snap.label THEN want.label ELSE old.label,
     price |-> IF want.price # snap.price THEN want.price ELSE old.price]

SaveArray(c, want) ==
    /\ products' = [id \in Ids |->
          IF id \in Moved(c, want) THEN want[id]
          ELSE IF id \in Edited(c, want) /\ products[id] # None
               THEN Fields(products[id], mcall[c].snap[id], want[id])
               ELSE products[id]]
    /\ version' = IF Moved(c, want) # {} \/ (mcall[c].op \in SetsVariants /\ Edited(c, want) # {})
                  THEN version + 1 ELSE version

\* The product the handler is about, which its job will name.
Touched(c, want) == {id \in Ids : want[id] # mcall[c].snap[id]}

SaveMenu(c) ==
    /\ mcall[c].pc = "save" /\ ~InTransaction(c) /\ ~Saving
    /\ \E want \in Wanted(c) :
         \/ /\ VersionOk(c, want)
            /\ SaveArray(c, want)
            /\ mcall' = [mcall EXCEPT ![c].pc = "enqueue", ![c].snap = None, ![c].ver = 0,
                    ![c].id = IF mcall[c].op = "add" THEN CHOOSE id \in Touched(c, want) : TRUE
                                                     ELSE mcall[c].id]
            /\ renamed' = IF mcall[c].op = "update" /\ mcall[c].name # None
                          THEN renamed \cup {mcall[c].id} ELSE renamed
         \/ /\ ~VersionOk(c, want)
            /\ Refused(c)
            /\ UNCHANGED <<products, version, renamed>>
    /\ UNCHANGED <<hasTx, hasMenu, catName, cache, jobs, unsynced, faults>>

SaveInTransaction(c) ==
    /\ mcall[c].pc = "save" /\ InTransaction(c) /\ ~Saving
    /\ IF \A want \in Wanted(c) : VersionOk(c, want) THEN MGoto(c, "enqueue") ELSE Refused(c)
    /\ UNCHANGED <<menuVars, catName, cache, jobs, unsynced, faults, renamed>>

\* The transaction ends after the job was enqueued.
CommitImport(c) ==
    /\ mcall[c].pc = "commit"
    /\ mcall' = [mcall EXCEPT ![c].pc = "del", ![c].snap = None, ![c].ver = 0]
    /\ hasMenu' = TRUE
    /\ \E want \in Wanted(c) : SaveArray(c, want)
    /\ catName' = IF mcall[c].cat = <<c, mcall[c].try>>
                  THEN [catName EXCEPT ![mcall[c].cat] = mcall[c].label] ELSE catName
    /\ UNCHANGED <<hasTx, cache, jobs, unsynced, faults, renamed>>

WriteConflict(c) ==
    \/ /\ mcall[c].pc = "newCategory"
       /\ NamePending(mcall[c].label) \/ NamedCategory(mcall[c].label) # {}
    \/ mcall[c].pc = "save" /\ (Saving \/ products # mcall[c].snap)

\* withTransaction runs its callback again after a write conflict or another transient error.
RetryTransaction(c) ==
    /\ c \in Uncommitted
    /\ IF WriteConflict(c) THEN UNCHANGED faults
                           ELSE faults < MaxFaults /\ faults' = faults + 1
    /\ mcall' = [mcall EXCEPT ![c] = Loaded([mcall[c] EXCEPT !.cat = None])]
    /\ UNCHANGED <<menuVars, catName, cache, jobs, unsynced, renamed>>

\* enqueueVectorSync after the save.  It never throws: a job that cannot be published runs in
\* this process.  A cascade ends here, with its cache already invalidated.
JobOf(c) == [by |-> c, op |-> IF mcall[c].op \in Imports \cup CategoryOps THEN "rebuild"
                              ELSE IF mcall[c].op = "remove" THEN "delete" ELSE "upsert"]

AfterEnqueue(c) == IF InTransaction(c) THEN "commit"
                   ELSE IF mcall[c].op \in CategoryOps THEN "done" ELSE "del"

\* A cascade saves the menu and forgets the index.
EnqueueVectorSync_NotOnCascade(c) ==
    /\ mcall[c].pc = "enqueue"
    /\ MGoto(c, AfterEnqueue(c))
    /\ jobs' = IF mcall[c].op \in CategoryOps THEN jobs ELSE jobs \cup {JobOf(c)}
    /\ UNCHANGED <<menuVars, catName, cache, unsynced, faults, renamed>>

EnqueueVectorSync(c) ==
    /\ mcall[c].pc = "enqueue"
    /\ MGoto(c, AfterEnqueue(c))
    /\ jobs' = jobs \cup {JobOf(c)}
    /\ UNCHANGED <<menuVars, catName, cache, unsynced, faults, renamed>>

-----------------------------------------------------------------------------
(* Categories and variants.                                                *)

\* The name is unique within the tenant.
CreateCategory(c, g) ==
    /\ mcall[c].pc = "idle" /\ ~NamePending(g)
    /\ mcall' = [mcall EXCEPT ![c] = [Opened("create") EXCEPT
                    !.pc = IF NamedCategory(g) = {} THEN "del" ELSE "failed"]]
    /\ catName' = IF NamedCategory(g) = {} THEN [catName EXCEPT ![<<c, 1>>] = g] ELSE catName
    /\ UNCHANGED <<menuVars, cache, jobs, unsynced, faults, renamed>>

\* updateCategory reads the name it had before; `label` keeps it.
FindCategory(c, k, g) ==
    /\ mcall[c].pc = "idle" /\ catName[k] # None
    /\ mcall' = [mcall EXCEPT ![c] = [Opened("rename") EXCEPT
                    !.cat = k, !.name = g, !.label = catName[k], !.pc = "write"]]
    /\ UNCHANGED <<menuVars, catName, cache, jobs, unsynced, faults, renamed>>

WriteCategory(c) ==
    LET k == mcall[c].cat
        g == mcall[c].name
    IN
    /\ mcall[c].pc = "write" /\ ~NamePending(g)
    /\ IF catName[k] = None THEN MGoto(c, "denied") /\ UNCHANGED catName
       ELSE IF NamedCategory(g) \subseteq {k}
            THEN MGoto(c, "del") /\ catName' = [catName EXCEPT ![k] = g]
            ELSE MGoto(c, "failed") /\ UNCHANGED catName
    /\ UNCHANGED <<menuVars, cache, jobs, unsynced, faults, renamed>>

DeleteCategory(c, k) ==
    /\ mcall[c].pc = "idle" /\ catName[k] # None
    /\ mcall' = [mcall EXCEPT ![c] = [Opened("drop") EXCEPT !.cat = k, !.pc = "del"]]
    /\ catName' = [catName EXCEPT ![k] = None]
    /\ UNCHANGED <<menuVars, cache, jobs, unsynced, faults, renamed>>

\* Variants are copied into products when these are saved; writing one only deletes the key.
WriteVariant(c) ==
    /\ mcall[c].pc = "idle"
    /\ mcall' = [mcall EXCEPT ![c] = [Opened("variant") EXCEPT !.pc = "del"]]
    /\ UNCHANGED <<menuVars, catName, cache, jobs, unsynced, faults, renamed>>

\* A rename to the name it had has nothing to cascade.
AfterDel(c) ==
    IF mcall[c].op = "drop" \/ (mcall[c].op = "rename" /\ mcall[c].name # mcall[c].label)
    THEN "cascade" ELSE IF mcall[c].op = "upload" THEN "record" ELSE "done"

\* The handler answers and leaves the catalog to its hour.
InvalidateMenuCache_NotOnUpdate(c) ==
    /\ mcall[c].pc = "del"
    /\ cache' = IF mcall[c].op = "update" THEN cache ELSE None
    /\ MGoto(c, AfterDel(c))
    /\ UNCHANGED <<menuVars, catName, jobs, unsynced, faults, renamed>>

InvalidateMenuCache(c) ==
    /\ mcall[c].pc = "del"
    /\ cache' = None
    /\ MGoto(c, AfterDel(c))
    /\ UNCHANGED <<menuVars, catName, jobs, unsynced, faults, renamed>>

InCategory(k) == {id \in Live : products[id].cat = k}

\* A rename forgets the products that carry the old name.
ReadForCascade_DropOnly(c) ==
    /\ mcall[c].pc = "cascade"
    /\ mcall' = [mcall EXCEPT ![c] = At([@ EXCEPT !.snap = products, !.ver = version],
                    IF mcall[c].op = "rename" \/ InCategory(mcall[c].cat) = {}
                    THEN "done" ELSE "save")]
    /\ UNCHANGED <<menuVars, catName, cache, jobs, unsynced, faults, renamed>>

ReadForCascade(c) ==
    /\ mcall[c].pc = "cascade"
    /\ mcall' = [mcall EXCEPT ![c] = At([@ EXCEPT !.snap = products, !.ver = version],
                    IF InCategory(mcall[c].cat) = {} THEN "done" ELSE "save")]
    /\ UNCHANGED <<menuVars, catName, cache, jobs, unsynced, faults, renamed>>

-----------------------------------------------------------------------------
CatalogStep(c) ==
    \/ CreateMenu(c) \/ ReadCategories(c) \/ ReadProducts(c) \/ FillCache(c)
    \/ LookupCategory(c) \/ FindOrCreateCategory(c) \/ SaveMenu(c) \/ SaveInTransaction(c)
    \/ CommitImport(c) \/ RetryTransaction(c) \/ EnqueueVectorSync(c) \/ WriteCategory(c)
    \/ InvalidateMenuCache(c) \/ ReadForCascade(c)

BeginCatalogCall(c) ==
    \/ GetCached(c) \/ WriteVariant(c)
    \/ \E g \in CategoryNames :
         \/ CreateCategory(c, g)
         \/ \E k \in Categories : FindCategory(c, k, g)
    \/ \E f \in Files : ImportMenu(c, f[1], f[2])
    \/ \E k \in Categories : DeleteCategory(c, k)
    \/ \E k \in {j \in Categories : catName[j] # None} \cup {None} :
         \/ \E a \in Adds : a[2] = (k # None) /\ AddProduct(c, a[1], k)
         \/ \E id \in Live, e \in Edits : e[2] = (k # None) /\ UpdateProduct(c, id, e[1], k)
    \/ \E id \in Live : RemoveProduct(c, id)

Jobs == [by: Calls, op: {"upsert", "delete", "rebuild"}]

CatalogTypeOK ==
    /\ hasTx \in Deployments /\ hasMenu \in BOOLEAN /\ version \in Nat
    /\ products \in Arrays /\ catName \in Naming
    /\ cache \in [cats: Naming, products: Arrays, by: Calls] \cup {None}
    /\ mcall \in [Calls -> MenuCall]
    /\ ~hasMenu => Live = {}
    /\ jobs \subseteq Jobs /\ faults \in 0 .. MaxFaults
    /\ unsynced \subseteq Calls /\ renamed \subseteq Ids

\* Neither of two requests had ended when the other began.
Overlap(c, d) == c # d /\ c \notin mcall[d].after /\ d \notin mcall[c].after

Unfinished(c) == \/ mcall[c].pc \notin Ended \/ mcall[c].pc = "lost"
                 \/ mcall[c].pc = "failed" /\ mcall[c].op \in CategoryOps \cup {"upload"}

\* The cached catalog is the one of the database, unless a writer overlapped the request that
\* cached it, is still at work, or died or failed half-way: only then an hour of a stale menu
\* (menu/service.ts:26-70, 87-106, 128-147; categories/service.ts:64-84, where the overlap
\* includes a read between the invalidation and the cascade).
StaleMenuOnlyOverlap ==
    cache # None /\ (cache.cats # catName \/ cache.products # products) =>
        \E w \in Calls : /\ mcall[w].op \notin {None, "read"}
                         /\ Overlap(cache.by, w) \/ Unfinished(w)

\* Two products of one name come only from requests that overlapped, each loading the array
\* before the other had pushed, or from a rename, which checks nothing
\* (menu/repository.ts:97-125, 154-215, 245).
SameNameOnlyOverlap ==
    \A a, b \in Live \ renamed :
        /\ a # b /\ ~({a, b} \subseteq OldProducts)
        /\ products[a].name = products[b].name
        => a \notin OldProducts /\ b \notin OldProducts /\ Overlap(a[1], b[1])

\* A product carries the name its category has, unless a request that renamed or deleted a
\* category overlapped a writer of the menu or did not finish its cascade: two saves of one
\* product each send the fields they changed, and the two together may be a category of the
\* one with a name of the other (categories/service.ts:22-46; menu/repository.ts:158-163,
\* 251-255).
LabelsFollowCategories ==
    \A id \in Live : LET k == products[id].cat IN
        k # None /\ catName[k] # None /\ products[id].label # catName[k] =>
            \E w \in Calls : /\ mcall[w].op \in CategoryOps
                             /\ \/ Unfinished(w)
                                \/ \E x \in Calls : /\ mcall[x].op \notin {None, "read"}
                                                     /\ Overlap(w, x)
=============================================================================
