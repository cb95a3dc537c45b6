------------------------------ MODULE MenuProofs ------------------------------
(***************************************************************************)
(* Proofs about MenuIngestion, for any requests, uploads, products,         *)
(* categories and faults: the types, what the status of an upload promises, *)
(* where products of one name come from, that the vector index follows the  *)
(* menu, what keeps a cached catalog from being stale, and that products    *)
(* carry the names of their categories.                                     *)
(***************************************************************************)
EXTENDS MenuIngestion, TLAPS

USE MenuAssumption, IdAssumption

Writers == {"add", "update", "remove"}   \* of one product

\* Which operation may stand where.
OpAt(call) ==
    /\ call.op = None <=> call.pc = "idle"
    /\ call.pc \in {"cats", "menu", "fill"} => call.op = "read"
    /\ call.pc = "newMenu" => call.op \in {"read"} \cup Writers \cup Imports
    /\ call.pc = "lookup" => call.op \in {"add", "update"} /\ call.cat # None
    /\ call.pc \in {"category", "newCategory", "commit"} => call.op \in Imports
    /\ call.pc \in {"save", "enqueue"} => call.op \in Writers \cup Imports \cup CategoryOps
    /\ call.pc = "del" => call.op \notin {None, "read"}
    /\ call.pc = "write" => call.op = "rename"
    /\ call.pc = "cascade" => call.op \in CategoryOps
    /\ call.pc \in {"ingest", "status", "processing", "record", "del2", "complete", "fail"}
           => call.op = "upload"

\* What a request at work knows.
Knows(call) ==
    /\ call.pc \in {"fill", "lookup", "category", "newCategory", "save", "commit"}
           => call.snap # None
    /\ call.pc # "cats" /\ call.pc \notin Ended /\ call.op = "read" => call.cats # None
    /\ call.op \in {"update", "remove"} => call.id \in Ids
    /\ call.op \in {"update", "remove"} /\ call.pc \in {"lookup", "save"}
           => call.snap[call.id] # None
    /\ call.op = "add" /\ call.pc \in {"enqueue", "del", "done"} => call.id \in Ids
    /\ call.pc \notin Ended =>
         /\ call.op \in {"add"} \cup Imports => call.name \in Names
         /\ call.op = "update" => call.name \in Names \cup {None}
         /\ call.op = "rename" => call.name \in CategoryNames
         /\ call.op \in {"rename"} \cup Imports => call.label \in CategoryNames
         /\ call.op \in CategoryOps => call.cat \in Categories

\* The menu it works on exists, unless its transaction is to create it; what a transaction
\* will commit it still holds.
HasItsMenu(call) ==
    /\ call.pc = "commit" => hasTx
    /\ call.pc = "enqueue" /\ hasTx /\ call.op \in Imports => call.snap # None
    /\ /\ call.pc \in {"lookup", "category", "newCategory", "save", "enqueue"}
       /\ ~(hasTx /\ call.op \in Imports)
       => hasMenu

Fits(call) == OpAt(call) /\ Knows(call) /\ HasItsMenu(call)

\* A request only goes on; a job of it keeps the product it names.
BeforeSave == {"idle", "newMenu", "lookup", "save"}
Onward(call, next) ==
    /\ call.op # None => next.op = call.op
    /\ call.op = "add" /\ call.pc \notin BeforeSave => next.pc \notin BeforeSave
    /\ call.op \in Writers /\ call.pc \in {"del", "done", "lost"}
           => next.id = call.id /\ next.pc \in {"del", "done", "lost"}

CallsOk == \A c \in Calls : Fits(mcall[c])

\* What carries a request's price was saved by it, so a product to be added is not there yet.
PricedBy(arr, c) == \E id \in Ids : arr[id] # None /\ arr[id].price = c
Unsaved(c)       == /\ mcall[c].op \in {None, "add"}
                    /\ mcall[c].pc \in BeforeSave

PricesPast == \A c \in Calls : Unsaved(c) =>
                  /\ ~PricedBy(products, c)
                  /\ \A d \in Calls : mcall[d].snap # None => ~PricedBy(mcall[d].snap, c)

CatalogInv == CatalogTypeOK /\ CallsOk /\ PricesPast

\* A job stands for a request that has saved; one about a product still names it.
Jobbed(c) == /\ mcall[c].op \in Writers \cup Imports \cup CategoryOps
             /\ mcall[c].op \in Writers
                    => mcall[c].pc \in {"del", "done", "lost"} /\ mcall[c].id \in Ids

WorkOk(c) == LET w == work[c] IN w.pc # "idle" =>
    /\ Jobbed(c) /\ w.op = JobOf(c).op
    /\ w.pc = "reset" => w.op = "rebuild"
    /\ w.pc = "read" => w.op # "delete"
    /\ w.pc = "write" => /\ w.op # "delete" /\ w.read # None
                         /\ w.op # "rebuild" => w.read[mcall[c].id] # None
    /\ w.pc = "delete" => w.op # "rebuild"

DeliveriesInv == /\ VectorTypeOK
                 /\ \A j \in jobs : Jobbed(j.by) /\ j = JobOf(j.by)
                 /\ \A c \in Calls : WorkOk(c)

\* What the documents of an upload say, by where its delivery stands.
UploadOk(c) == LET call == mcall[c] IN
    /\ call.op # "upload" => status[c] = None /\ records[c] = 0 /\ c \notin imported
    /\ records[c] <= call.try
    /\ records[c] > 0 => c \in imported
    /\ c \in imported => hasMenu
    /\ status[c] = "completed" => records[c] > 0
    /\ call.op = "upload" =>
         /\ call.pc \notin {"del2", "complete", "fail"} \cup Ended => records[c] < call.try
         /\ call.pc \in {"del", "record", "del2", "complete"} => c \in imported
         /\ call.pc \in {"del2", "complete"} => records[c] > 0
         /\ call.pc = "done" => status[c] = "completed"
         /\ call.pc = "failed" => status[c] = "failed"

UploadsInv == /\ status \in [Calls -> Statuses \cup {None}]
              /\ records \in [Calls -> Nat] /\ imported \subseteq Calls
              /\ \A c \in Calls : UploadOk(c)

MenuInv == CatalogInv /\ DeliveriesInv /\ UploadsInv

-----------------------------------------------------------------------------
(* The pieces of the handlers.                                             *)

\* An operation is never the mark of none.
LEMMA NoOp == \A op \in MenuOps : op # None
OBVIOUS

\* A request goes to a program counter; where it ends its locals go.
LEMMA AtOk ==
    ASSUME NEW call \in MenuCall, NEW pc \in MenuPc
    PROVE  /\ At(call, pc) \in MenuCall
           /\ At(call, pc).op = call.op /\ At(call, pc).pc = pc /\ At(call, pc).id = call.id
           /\ At(call, pc).try = call.try /\ At(call, pc).after = call.after
           /\ pc \in Ended => /\ At(call, pc).snap = None /\ At(call, pc).cats = None
                              /\ At(call, pc).name = None /\ At(call, pc).cat = None
                              /\ At(call, pc).label = None /\ At(call, pc).ver = 0
                              /\ At(call, pc).made = FALSE
           /\ pc \notin Ended => At(call, pc) = [call EXCEPT !.pc = pc]
<1>1. CASE pc \in Ended
  BY <1>1 DEF At, IdleCall, MenuCall
<1>2. CASE pc \notin Ended
  BY <1>2 DEF At, MenuCall
<1>3. QED BY <1>1, <1>2

\* What going on keeps of a request, whatever its program counter.
LEMMA AtKeeps ==
    ASSUME NEW call \in MenuCall, NEW pc \in MenuPc
    PROVE  /\ At(call, pc).op = call.op /\ At(call, pc).pc = pc /\ At(call, pc).id = call.id
           /\ At(call, pc).try = call.try /\ At(call, pc).after = call.after
BY AtOk

\* The operations there are.
LEMMA OpNames ==
    /\ Writers \subseteq MenuOps /\ Imports \subseteq MenuOps /\ CategoryOps \subseteq MenuOps
    /\ {"read", "add", "update", "remove", "import", "upload", "create", "variant", "rename",
        "drop"} \subseteq MenuOps
BY DEF MenuOps, Writers, Imports, CategoryOps

\* The locals of a request that begins.
Opening(o, op) == /\ o = Opened(op)
                  /\ o.op = op /\ o.pc = "idle" /\ o.after = Over
                  /\ o.id = None /\ o.name = None /\ o.cat = None /\ o.label = None
                  /\ o.cats = None /\ o.snap = None
                  /\ o.ver = 0 /\ o.made = FALSE /\ o.try = 1

\* A request begins without locals, after those that have ended.
LEMMA OpenedOk ==
    ASSUME NEW op \in MenuOps
    PROVE  \E o \in MenuCall : Opening(o, op)
<1>1. Over \subseteq Calls /\ 1 \in Attempts /\ "idle" \in MenuPc
  BY DEF Over, Attempts, MenuPc
<1>2. IdleCall \in MenuCall
  BY <1>1 DEF IdleCall, MenuCall
<1>3. /\ IdleCall.op = None /\ IdleCall.pc = "idle" /\ IdleCall.id = None
      /\ IdleCall.name = None /\ IdleCall.cat = None /\ IdleCall.label = None
      /\ IdleCall.cats = None /\ IdleCall.snap = None /\ IdleCall.ver = 0
      /\ IdleCall.made = FALSE /\ IdleCall.try = 1
  BY DEF IdleCall
<1>4. PICK o \in MenuCall : o = [IdleCall EXCEPT !.op = op, !.after = Over]
  BY <1>1, <1>2 DEF MenuCall
<1>5. Opening(o, op)
  BY <1>2, <1>3, <1>4 DEF Opened, Opening, MenuCall
<1>6. QED BY <1>5

\* A handler has loaded the menu: what it goes on with fits.
LEMMA AfterLoadOk ==
    ASSUME NEW call \in MenuCall, call.snap \in Arrays,
           call.op \in {"read"} \cup Writers \cup Imports,
           call.op = "read" => call.cats # None,
           call.op \in {"update", "remove"} => call.id \in Ids,
           call.op \in {"add"} \cup Imports => call.name \in Names,
           call.op = "update" => call.name \in Names \cup {None},
           call.op \in Imports => call.label \in CategoryNames,
           hasMenu' \/ (hasTx' /\ call.op \in Imports)
    PROVE  /\ AfterLoad(call) \in {"fill", "denied", "category", "lookup", "save"}
           /\ At(call, AfterLoad(call)) \in MenuCall
           /\ OpAt(At(call, AfterLoad(call)))
           /\ Knows(At(call, AfterLoad(call)))
           /\ HasItsMenu(At(call, AfterLoad(call)))'
           /\ At(call, AfterLoad(call)).op = call.op
           /\ At(call, AfterLoad(call)).pc = AfterLoad(call)
<1>1. AfterLoad(call) \in {"fill", "denied", "category", "lookup", "save"}
  BY DEF AfterLoad
<1>2. PICK pc \in {"fill", "denied", "category", "lookup", "save"} : pc = AfterLoad(call)
  BY <1>1
<1>3. pc \in MenuPc
  BY <1>2 DEF MenuPc
<1>4. PICK next : next = At(call, pc)
  OBVIOUS
<1>5. /\ next \in MenuCall /\ next.op = call.op /\ next.pc = pc /\ next.id = call.id
      /\ pc \notin Ended => next = [call EXCEPT !.pc = pc]
  BY <1>3, <1>4, AtOk
<1>6. /\ pc = "fill" => call.op = "read"
      /\ pc = "denied" => call.op \in {"update", "remove"}
      /\ pc = "category" => call.op \in Imports
      /\ pc = "lookup" => call.op \in {"add", "update"} /\ call.cat # None
      /\ pc = "save" => call.op \in Writers
      /\ pc # "denied" /\ call.op \in {"update", "remove"} => call.snap[call.id] # None
  BY <1>2 DEF AfterLoad, Writers, Imports
<1>7. /\ pc # "denied" => /\ next.snap = call.snap /\ next.cats = call.cats
                          /\ next.name = call.name /\ next.label = call.label
                          /\ next.cat = call.cat
  BY <1>2, <1>5 DEF Ended, MenuCall
<1>8. next.snap # None \/ pc = "denied"
  BY <1>7
<1>9. OpAt(next)
  BY NoOp, <1>2, <1>5, <1>6, <1>7 DEF OpAt, Writers, Imports, CategoryOps, MenuOps
<1>10. Knows(next)
  BY <1>2, <1>5, <1>6, <1>7, <1>8 DEF Knows, Ended, Writers, Imports, CategoryOps
<1>11. HasItsMenu(next)'
  BY <1>2, <1>5 DEF HasItsMenu
<1>12. QED BY <1>1, <1>2, <1>4, <1>5, <1>9, <1>10, <1>11

\* A step of c: its next state, whatever the rest does.
Moves(c, next) ==
    /\ next \in MenuCall /\ mcall' = [mcall EXCEPT ![c] = next]
    /\ OpAt(next) /\ Knows(next) /\ HasItsMenu(next)' /\ Onward(mcall[c], next)
    /\ hasTx' = hasTx /\ (hasMenu => hasMenu')

\* What the invariant says of one request and of the menu.
LEMMA CallTypes ==
    ASSUME CatalogTypeOK, CallsOk, NEW c \in Calls
    PROVE  /\ mcall[c] \in MenuCall /\ OpAt(mcall[c]) /\ Knows(mcall[c]) /\ HasItsMenu(mcall[c])
           /\ products \in Arrays /\ catName \in Naming /\ version \in Nat
           /\ hasMenu \in BOOLEAN /\ hasTx \in BOOLEAN
           /\ NoProducts \in Arrays
BY DEF CatalogTypeOK, CallsOk, Fits, NoProducts, Arrays

\* A handler that ends.
LEMMA Ending ==
    ASSUME CatalogTypeOK, CallsOk, NEW c \in Calls, mcall[c].op # None,
           NEW pc \in {"done", "denied", "failed", "lost"}, MGoto(c, pc),
           mcall[c].op = "add" /\ pc = "done" => mcall[c].id \in Ids,
           mcall[c].op \in Writers /\ mcall[c].pc \in {"del", "done", "lost"}
               => pc \in {"done", "lost"},
           hasTx' = hasTx, hasMenu => hasMenu'
    PROVE  \E next : Moves(c, next)
<1>1. mcall[c] \in MenuCall /\ Knows(mcall[c]) /\ pc \in MenuPc
  BY CallTypes DEF MenuPc
<1>2. PICK next : next = At(mcall[c], pc)
  OBVIOUS
<1>3. mcall' = [mcall EXCEPT ![c] = next]
  BY <1>2 DEF MGoto
<1>4. next \in MenuCall /\ next.op = mcall[c].op /\ next.pc = pc /\ next.id = mcall[c].id
  BY ZenonT(60), <1>1, <1>2, AtOk
<1>5. OpAt(next) /\ HasItsMenu(next)'
  BY <1>4 DEF OpAt, HasItsMenu
<1>6. Knows(next)
  BY <1>1, <1>4 DEF Knows, Ended, Writers
<1>7. Onward(mcall[c], next)
  BY <1>4 DEF Onward, BeforeSave
<1>8. QED BY <1>3, <1>4, <1>5, <1>6, <1>7 DEF Moves

\* A handler that stays at work and changes nothing but where it is.
LEMMA GoingOn ==
    ASSUME CatalogTypeOK, CallsOk, NEW c \in Calls,
           NEW pc \in MenuPc \ Ended, mcall' = [mcall EXCEPT ![c].pc = pc] \/ MGoto(c, pc),
           mcall[c].pc \notin Ended,
           NEW next, next = [mcall[c] EXCEPT !.pc = pc],
           OpAt(next), Knows(next), HasItsMenu(next)',
           mcall[c].op \in Writers => mcall[c].pc # "del" /\ pc \notin BeforeSave,
           hasTx' = hasTx, hasMenu => hasMenu'
    PROVE  Moves(c, next)
<1>1. mcall[c] \in MenuCall
  BY CallTypes
<1>2. mcall' = [mcall EXCEPT ![c] = next]
  BY DEF MGoto, At, CatalogTypeOK
<1>3. next \in MenuCall /\ next.op = mcall[c].op /\ next.pc = pc /\ next.id = mcall[c].id
  BY <1>1 DEF MenuCall
<1>4. Onward(mcall[c], next)
  BY <1>3 DEF Onward, Ended, Writers
<1>5. QED BY <1>2, <1>3, <1>4 DEF Moves

\* findOrCreateMenu: the request goes on with the document, or goes to insert one.
LEMMA LoadedOk ==
    ASSUME CatalogTypeOK, CallsOk, NEW call \in MenuCall,
           call.op \in {"read"} \cup Writers \cup Imports,
           call.op = "read" => call.cats # None,
           call.op \in {"update", "remove"} => call.id \in Ids,
           call.op \in {"add"} \cup Imports => call.name \in Names,
           call.op = "update" => call.name \in Names \cup {None},
           call.op \in Imports => call.label \in CategoryNames,
           hasTx' = hasTx, hasMenu' = hasMenu,
           NEW next, next = Loaded(call)
    PROVE  /\ next \in MenuCall /\ OpAt(next) /\ Knows(next) /\ HasItsMenu(next)'
           /\ next.op = call.op
           /\ next.pc \in {"fill", "denied", "category", "lookup", "save", "newMenu"}
<1> PICK arr \in Arrays, n \in Nat : arr = products /\ n = version
  BY DEF CatalogTypeOK
<1>1. PICK read : read = [call EXCEPT !.snap = arr, !.ver = n, !.made = FALSE]
  OBVIOUS
<1>2. /\ read \in MenuCall /\ read.snap = arr /\ read.op = call.op /\ read.id = call.id
      /\ read.name = call.name /\ read.label = call.label /\ read.cats = call.cats
  BY ZenonT(60), <1>1 DEF MenuCall
<1>3. CASE hasMenu
  <2>1. next = At(read, AfterLoad(read))
    BY <1>1, <1>3 DEF Loaded
  <2>2. /\ next \in MenuCall /\ OpAt(next) /\ Knows(next) /\ HasItsMenu(next)'
        /\ next.op = read.op /\ next.pc = AfterLoad(read)
        /\ AfterLoad(read) \in {"fill", "denied", "category", "lookup", "save"}
    BY <1>2, <1>3, <2>1, AfterLoadOk
  <2>3. QED BY <1>2, <2>2
<1>4. CASE ~hasMenu
  <2>1. next = [call EXCEPT !.pc = "newMenu"]
    BY <1>4 DEF Loaded
  <2>2. /\ next \in MenuCall /\ next.pc = "newMenu" /\ next.op = call.op
        /\ next.id = call.id /\ next.name = call.name /\ next.label = call.label
        /\ next.cats = call.cats
    BY <2>1 DEF MenuCall, MenuPc
  <2>3. OpAt(next) /\ Knows(next) /\ HasItsMenu(next)'
    BY NoOp, <2>2 DEF OpAt, Knows, HasItsMenu, Ended, CategoryOps, Writers, Imports, MenuOps
  <2>4. QED BY <2>2, <2>3
<1>5. QED BY <1>3, <1>4

\* What loading keeps of a request.
LEMMA LoadedKeeps ==
    ASSUME CatalogTypeOK, NEW call \in MenuCall
    PROVE  /\ Loaded(call).op = call.op /\ Loaded(call).try = call.try
           /\ Loaded(call).after = call.after
           /\ Loaded(call).snap \in {None, products, call.snap}
           /\ Loaded(call).pc \in {"fill", "denied", "category", "lookup", "save", "newMenu"}
           /\ call.op \in Imports => Loaded(call).pc \in {"category", "newMenu"}
<1>1. CASE hasMenu
  <2>1. PICK arr \in Arrays, n \in Nat : arr = products /\ n = version
    BY DEF CatalogTypeOK
  <2>2. PICK read : read = [call EXCEPT !.snap = arr, !.ver = n, !.made = FALSE]
    OBVIOUS
  <2>3. /\ read \in MenuCall /\ read.snap = products /\ read.op = call.op
        /\ read.try = call.try /\ read.after = call.after
    BY ZenonT(60), <2>1, <2>2 DEF MenuCall
  <2>4. PICK pc : pc = AfterLoad(read)
    OBVIOUS
  <2>5. /\ pc \in {"fill", "denied", "category", "lookup", "save"} /\ pc \in MenuPc
        /\ call.op \in Imports => pc = "category"
    BY <2>3, <2>4 DEF AfterLoad, MenuPc, Imports
  <2>6. Loaded(call) = At(read, pc)
    BY <1>1, <2>1, <2>2, <2>4 DEF Loaded
  <2>7. /\ At(read, pc).pc = pc /\ At(read, pc).op = read.op /\ At(read, pc).try = read.try
        /\ At(read, pc).after = read.after
    BY <2>3, <2>5, AtKeeps
  <2>8. At(read, pc).snap \in {None, read.snap}
    BY <2>3, <2>5 DEF At, IdleCall, MenuCall
  <2>9. QED BY <2>3, <2>5, <2>6, <2>7, <2>8
<1>2. CASE ~hasMenu
  <2>1. Loaded(call) = [call EXCEPT !.pc = "newMenu"]
    BY <1>2 DEF Loaded
  <2>2. QED BY <2>1 DEF MenuCall
<1>3. QED BY <1>1, <1>2

\* A request that loads holds the menu as it is, array and version.
LEMMA LoadedVersion ==
    ASSUME CatalogTypeOK, NEW call \in MenuCall, Loaded(call).pc = "category"
    PROVE  Loaded(call).ver = version
<1>1. PICK arr \in Arrays, n \in Nat : arr = products /\ n = version
  BY DEF CatalogTypeOK
<1>2. PICK read : read = [call EXCEPT !.snap = arr, !.ver = n, !.made = FALSE]
  OBVIOUS
<1>3. read \in MenuCall /\ read.ver = version
  BY ZenonT(60), <1>1, <1>2 DEF MenuCall
<1>4. CASE hasMenu
  <2>1. PICK pc : pc = AfterLoad(read)
    OBVIOUS
  <2>2. pc \in MenuPc
    BY <2>1 DEF AfterLoad, MenuPc
  <2>3. Loaded(call) = At(read, pc)
    BY <1>1, <1>2, <1>4, <2>1 DEF Loaded
  <2>4. pc = "category"
    BY <1>3, <2>2, <2>3, AtKeeps
  <2>5. At(read, pc) = [read EXCEPT !.pc = pc]
    BY <2>4 DEF At, Ended
  <2>6. QED BY <1>3, <2>3, <2>5 DEF MenuCall
<1>5. CASE ~hasMenu
  BY <1>5 DEF Loaded, MenuCall
<1>6. QED BY <1>4, <1>5

\* Loading leaves a request with its category; only one without goes straight to its save.
LEMMA LoadedCategory ==
    ASSUME CatalogTypeOK, NEW call \in MenuCall, Loaded(call).pc \notin Ended
    PROVE  /\ Loaded(call).cat = call.cat /\ Loaded(call).label = call.label
           /\ call.op \in {"add", "update"} =>
                 /\ Loaded(call).pc \in {"newMenu", "lookup", "save"}
                 /\ Loaded(call).pc = "save" => call.cat = None
<1>1. PICK arr \in Arrays, n \in Nat : arr = products /\ n = version
  BY DEF CatalogTypeOK
<1>2. PICK read : read = [call EXCEPT !.snap = arr, !.ver = n, !.made = FALSE]
  OBVIOUS
<1>3. /\ read \in MenuCall /\ read.cat = call.cat /\ read.label = call.label
      /\ read.op = call.op
  BY ZenonT(60), <1>1, <1>2 DEF MenuCall
<1>4. CASE hasMenu
  <2>1. PICK pc \in MenuPc : pc = AfterLoad(read)
    BY DEF AfterLoad, MenuPc
  <2>2. Loaded(call) = At(read, pc)
    BY <1>1, <1>2, <1>4, <2>1 DEF Loaded
  <2>3. Loaded(call).pc = pc /\ pc \notin Ended
    BY <1>3, <2>2, AtKeeps
  <2>4. Loaded(call) = [read EXCEPT !.pc = pc]
    BY <2>2, <2>3 DEF At
  <2>5. Loaded(call).cat = call.cat /\ Loaded(call).label = call.label
    BY <1>3, <2>4 DEF MenuCall
  <2>6. call.op \in {"add", "update"} =>
           pc \in {"newMenu", "lookup", "save"} /\ (pc = "save" => call.cat = None)
    BY <1>3, <2>1, <2>3 DEF AfterLoad, Ended, Imports
  <2>7. QED BY <2>3, <2>5, <2>6
<1>5. CASE ~hasMenu
  <2>1. Loaded(call) = [call EXCEPT !.pc = "newMenu"]
    BY <1>5 DEF Loaded
  <2>2. QED BY <2>1 DEF MenuCall
<1>6. QED BY <1>4, <1>5

\* A step that loads the menu.
LEMMA Loading ==
    ASSUME CatalogTypeOK, CallsOk, NEW c \in Calls, NEW call \in MenuCall, Load(c, call),
           call.op \in {"read"} \cup Writers \cup Imports,
           call.op = "read" => call.cats # None,
           call.op \in {"update", "remove"} => call.id \in Ids,
           call.op \in {"add"} \cup Imports => call.name \in Names,
           call.op = "update" => call.name \in Names \cup {None},
           call.op \in Imports => call.label \in CategoryNames,
           \/ mcall[c].op = None
           \/ mcall[c].op = call.op /\ call.op \in {"read", "upload"}
    PROVE  \E next : Moves(c, next) /\ next = Loaded(call)
<1>1. hasTx' = hasTx /\ hasMenu' = hasMenu
  BY DEF Load, menuVars
<1>2. PICK next : next = Loaded(call)
  OBVIOUS
<1>3. /\ next \in MenuCall /\ OpAt(next) /\ Knows(next) /\ HasItsMenu(next)'
      /\ next.op = call.op
      /\ next.pc \in {"fill", "denied", "category", "lookup", "save", "newMenu"}
  BY <1>1, <1>2, LoadedOk
<1>4. mcall' = [mcall EXCEPT ![c] = next]
  BY <1>2 DEF Load
<1>5. mcall[c].op \notin Writers
  BY NoOp DEF Writers, MenuOps
<1>6. Onward(mcall[c], next)
  BY <1>3, <1>5 DEF Onward, BeforeSave, Writers
<1>7. QED BY <1>1, <1>2, <1>3, <1>4, <1>6 DEF Moves

-----------------------------------------------------------------------------
(* The handlers, step by step.                                             *)

\* The catalog that a guest asks for: its three reads and the fill.
LEMMA ReadingSteps ==
    ASSUME CatalogTypeOK, CallsOk, NEW c \in Calls,
           \/ ReadCategories(c) \/ ReadProducts(c) \/ FillCache(c) \/ ReadForCascade(c)
    PROVE  \E next : Moves(c, next)
<1>0. PICK call \in MenuCall : call = mcall[c] /\ OpAt(call) /\ Knows(call) /\ HasItsMenu(call)
  BY CallTypes
<1>1. CASE ReadCategories(c)
  <2>1. PICK next : next = [call EXCEPT !.cats = catName, !.pc = "menu"]
    OBVIOUS
  <2>2. call.pc = "cats" /\ mcall' = [mcall EXCEPT ![c] = next]
    BY <1>0, <1>1, <2>1 DEF ReadCategories, CatalogTypeOK
  <2>3. hasTx' = hasTx /\ hasMenu' = hasMenu
    BY <1>1 DEF ReadCategories, menuVars
  <2>4. /\ next \in MenuCall /\ next.pc = "menu" /\ next.op = "read" /\ next.cats # None
        /\ call.op = "read"
    <3>1. call.op = "read" /\ catName \in Naming /\ catName # None /\ "menu" \in MenuPc
      BY <1>0, <2>2, CallTypes DEF OpAt, MenuPc
    <3>2. QED BY <2>1, <3>1 DEF MenuCall
  <2>5. OpAt(next) /\ Knows(next) /\ HasItsMenu(next)' /\ Onward(call, next)
    BY NoOp, <2>4 DEF OpAt, Knows, HasItsMenu, Onward, BeforeSave, Writers, Imports,
                      CategoryOps, MenuOps
  <2>6. QED BY <1>0, <2>2, <2>3, <2>4, <2>5 DEF Moves
<1>2. CASE ReadProducts(c)
  <2>1. call.pc = "menu" /\ call.op = "read" /\ call.cats # None
    BY <1>0, <1>2 DEF ReadProducts, OpAt, Knows, Ended
  <2>2. Load(c, call) /\ call.pc \notin Ended
    BY <1>0, <1>2, <2>1 DEF ReadProducts, Ended
  <2>3. \E next : Moves(c, next) /\ next = Loaded(call)
    BY <1>0, <2>1, <2>2, Loading DEF Imports
  <2>4. QED BY <2>3
<1>3. CASE FillCache(c)
  <2>1. call.op = "read" /\ MGoto(c, "done") /\ hasTx' = hasTx /\ hasMenu' = hasMenu
    BY <1>0, <1>3 DEF FillCache, OpAt, menuVars
  <2>2. QED BY NoOp, <1>0, <2>1, Ending DEF Writers, MenuOps
<1>4. CASE ReadForCascade(c)
  <2>1. PICK read : read = [call EXCEPT !.snap = products, !.ver = version]
    OBVIOUS
  <2>2. PICK pc \in {"done", "save"} :
          /\ mcall' = [mcall EXCEPT ![c] = At(read, pc)]
          /\ pc = "save" => InCategory(call.cat) # {}
    BY <1>0, <1>4, <2>1 DEF ReadForCascade, CatalogTypeOK
  <2>3. hasTx' = hasTx /\ hasMenu' = hasMenu /\ call.pc = "cascade"
    BY <1>0, <1>4 DEF ReadForCascade, menuVars
  <2>4. /\ read \in MenuCall /\ read.snap \in Arrays /\ read.op = call.op /\ read.cat = call.cat
        /\ read.name = call.name /\ read.label = call.label /\ read.id = call.id
    BY <1>0, <2>1, CallTypes DEF MenuCall
  <2>5. PICK next : next = At(read, pc)
    OBVIOUS
  <2>6. /\ next \in MenuCall /\ next.pc = pc /\ next.op = call.op /\ next.op \in CategoryOps
        /\ pc = "save" => /\ next.snap # None /\ next.cat = call.cat /\ next.name = call.name
                          /\ next.label = call.label /\ next.id = call.id
    <3>1. pc \in MenuPc /\ call.op \in CategoryOps
      BY <1>0, <2>3 DEF MenuPc, OpAt
    <3>2. pc = "save" => next = [read EXCEPT !.pc = pc]
      BY <2>5 DEF At, Ended
    <3>3. next \in MenuCall /\ next.pc = pc /\ next.op = read.op
      <4>1. read \in MenuCall /\ pc \in MenuPc
        BY <2>4, <3>1
      <4>2. At(read, pc) \in MenuCall /\ At(read, pc).pc = pc /\ At(read, pc).op = read.op
        BY ZenonT(60), <4>1, AtOk
      <4>3. QED BY <2>5, <4>2
    <3>4. ASSUME pc = "save"
          PROVE  /\ next.snap = read.snap /\ next.cat = read.cat /\ next.name = read.name
                 /\ next.label = read.label /\ next.id = read.id
      BY <2>4, <3>2, <3>4 DEF MenuCall
    <3>5. read.snap # None
      BY <2>4
    <3>6. QED BY <2>4, <3>1, <3>3, <3>4, <3>5
  <2>7. pc = "save" => hasMenu
    BY <2>2, <1>0 DEF CatalogTypeOK, InCategory
  <2>8. OpAt(next)
    BY NoOp, <2>6 DEF OpAt, CategoryOps, MenuOps
  <2>9. Knows(next)
    BY <1>0, <2>3, <2>6 DEF Knows, CategoryOps, Imports, Ended
  <2>10. HasItsMenu(next)' /\ Onward(call, next)
    BY <2>3, <2>6, <2>7 DEF HasItsMenu, Onward, BeforeSave, Writers, CategoryOps
  <2>11. QED BY <1>0, <2>2, <2>3, <2>5, <2>6, <2>8, <2>9, <2>10 DEF Moves
<1>5. QED BY <1>1, <1>2, <1>3, <1>4

\* A handler that answers 500, or an attempt at an upload that ends badly.
LEMMA Refusing ==
    ASSUME CatalogTypeOK, CallsOk, NEW c \in Calls, Refused(c),
           mcall[c].op # None, mcall[c].pc \notin Ended \cup {"del"},
           hasTx' = hasTx, hasMenu => hasMenu'
    PROVE  \E next : Moves(c, next)
<1>0. PICK call \in MenuCall : call = mcall[c] /\ OpAt(call) /\ Knows(call) /\ HasItsMenu(call)
  BY CallTypes
<1>1. CASE call.op = "upload"
  <2>1. PICK next : next = [call EXCEPT !.pc = "fail"]
    OBVIOUS
  <2>2. MGoto(c, "fail") /\ "fail" \in MenuPc \ Ended
    BY <1>0, <1>1 DEF Refused, MenuPc, Ended
  <2>3. /\ next.pc = "fail" /\ next.op = "upload"
        /\ next.name = call.name /\ next.label = call.label
    BY <1>1, <2>1 DEF MenuCall
  <2>4. OpAt(next) /\ Knows(next) /\ HasItsMenu(next)'
    BY NoOp, <1>0, <1>1, <2>3 DEF OpAt, Knows, HasItsMenu, MenuOps, Ended, Imports, CategoryOps
  <2>5. QED BY <1>0, <1>1, <2>1, <2>2, <2>4, GoingOn DEF Writers
<1>2. CASE call.op # "upload"
  <2>1. MGoto(c, "failed")
    BY <1>0, <1>2 DEF Refused
  <2>2. QED BY <1>0, <2>1, Ending DEF Ended
<1>3. QED BY <1>1, <1>2

\* An import goes from its category to the save, to the making of the category or to its end.
LEMMA ImportCategorySteps ==
    ASSUME NEW c \in Calls, mcall[c] \in MenuCall, FindOrCreateCategory(c)
    PROVE  /\ mcall[c].pc \in {"category", "newCategory"}
           /\ UNCHANGED <<menuVars, cache, jobs, unsynced, faults, renamed>>
           /\ \/ /\ mcall[c].pc = "category" /\ UNCHANGED catName
                 /\ mcall' = [mcall EXCEPT ![c].pc = "newCategory"]
              \/ mcall[c].pc = "newCategory" /\ UNCHANGED catName /\ Refused(c)
              \/ \E k \in Categories :
                    /\ mcall' = [mcall EXCEPT ![c].cat = k, ![c].pc = "save"]
                    /\ \/ /\ mcall[c].pc = "category" /\ UNCHANGED catName
                          /\ k \in NamedCategory(mcall[c].label)
                       \/ /\ mcall[c].pc = "newCategory" /\ k = <<c, mcall[c].try>>
                          /\ NamedCategory(mcall[c].label) = {}
                          /\ ~NamePending(mcall[c].label)
                          /\ catName' = IF hasTx THEN catName
                                        ELSE [catName EXCEPT ![k] = mcall[c].label]
<1>1. <<c, mcall[c].try>> \in Categories
  BY DEF MenuCall, Categories
<1>2. NamedCategory(mcall[c].label) \subseteq Categories
  BY DEF NamedCategory
<1>3. CASE FindImportCategory(c)
  BY <1>2, <1>3 DEF FindImportCategory
<1>4. CASE CreateImportCategory(c)
  BY <1>1, <1>4 DEF CreateImportCategory
<1>5. QED BY <1>3, <1>4 DEF FindOrCreateCategory

\* The handlers of products up to their save.
LEMMA ProductSteps ==
    ASSUME CatalogTypeOK, CallsOk, NEW c \in Calls,
           \/ CreateMenu(c) \/ LookupCategory(c) \/ FindOrCreateCategory(c)
           \/ SaveInTransaction(c) \/ EnqueueVectorSync(c)
    PROVE  \E next : Moves(c, next)
<1>0. PICK call \in MenuCall : call = mcall[c] /\ OpAt(call) /\ Knows(call) /\ HasItsMenu(call)
  BY CallTypes
<1>1. CASE CreateMenu(c)
  <2>1. /\ call.pc = "newMenu" /\ call.op \in {"read"} \cup Writers \cup Imports
        /\ hasTx' = hasTx /\ (hasMenu => hasMenu')
        /\ ~(hasTx /\ call.op \in Imports) => hasMenu'
    BY <1>0, <1>1 DEF CreateMenu, OpAt, InTransaction, CatalogTypeOK
  <2>2. CASE Refused(c)
    BY NoOp, <1>0, <2>1, <2>2, Refusing DEF Ended, MenuOps, Writers, Imports
  <2>3. PICK empty : empty = [call EXCEPT !.snap = NoProducts, !.ver = 0, !.made = TRUE]
    OBVIOUS
  <2>4. /\ empty \in MenuCall /\ empty.snap \in Arrays /\ empty.op = call.op
        /\ empty.id = call.id /\ empty.name = call.name /\ empty.label = call.label
        /\ empty.cats = call.cats
    BY <2>3, CallTypes DEF MenuCall
  <2>5. CASE mcall' = [mcall EXCEPT ![c] = At(empty, AfterLoad(empty))]
    <3>1. PICK next : next = At(empty, AfterLoad(empty))
      OBVIOUS
    <3>2. /\ call.op = "read" => call.cats # None
          /\ call.op \in {"update", "remove"} => call.id \in Ids
          /\ call.op \in {"add"} \cup Imports => call.name \in Names
          /\ call.op = "update" => call.name \in Names \cup {None}
          /\ call.op \in Imports => call.label \in CategoryNames
      BY <1>0, <2>1 DEF Knows, Ended
    <3>3. hasMenu' \/ (hasTx' /\ call.op \in Imports)
      BY <2>1 DEF CatalogTypeOK
    <3>4. /\ next \in MenuCall /\ OpAt(next) /\ Knows(next) /\ HasItsMenu(next)'
          /\ next.op = call.op
      BY <2>1, <2>4, <3>1, <3>2, <3>3, AfterLoadOk
    <3>5. Onward(call, next)
      BY <2>1, <3>4 DEF Onward, BeforeSave
    <3>6. QED BY <1>0, <2>1, <2>5, <3>1, <3>4, <3>5 DEF Moves
  <2>6. QED BY <1>0, <1>1, <2>2, <2>3, <2>5 DEF CreateMenu
<1>2. CASE LookupCategory(c)
  <2>1. PICK next : next = [call EXCEPT !.label = catName[call.cat], !.pc = "save"]
    OBVIOUS
  <2>2. /\ call.pc = "lookup" /\ mcall' = [mcall EXCEPT ![c] = next]
        /\ hasTx' = hasTx /\ hasMenu' = hasMenu
    BY <1>0, <1>2, <2>1 DEF LookupCategory, menuVars, CatalogTypeOK
  <2>3. call.cat \in Categories /\ call.op \in {"add", "update"}
        /\ catName[call.cat] \in CategoryNames \cup {None} /\ "save" \in MenuPc
    BY <1>0, <2>2, CallTypes DEF OpAt, MenuCall, Naming, MenuPc
  <2>4. /\ next \in MenuCall /\ next.pc = "save" /\ next.op = call.op /\ next.id = call.id
        /\ next.name = call.name /\ next.snap = call.snap
    BY <2>1, <2>3 DEF MenuCall
  <2>5. OpAt(next) /\ Onward(call, next) /\ HasItsMenu(next)'
    BY NoOp, <1>0, <2>2, <2>3, <2>4
       DEF OpAt, Onward, BeforeSave, HasItsMenu, Writers, MenuOps, Imports
  <2>6. Knows(next)
    BY <1>0, <2>2, <2>3, <2>4 DEF Knows, Ended, Imports, CategoryOps
  <2>7. QED BY <1>0, <2>2, <2>4, <2>5, <2>6 DEF Moves
<1>3. CASE FindOrCreateCategory(c)
  <2>1. /\ call.pc \in {"category", "newCategory"} /\ call.op \in Imports
        /\ hasTx' = hasTx /\ hasMenu' = hasMenu
    BY <1>0, <1>3, ImportCategorySteps DEF menuVars, OpAt
  <2>2. CASE Refused(c)
    BY NoOp, <1>0, <2>1, <2>2, Refusing DEF Ended, MenuOps, Imports
  <2>3. CASE mcall' = [mcall EXCEPT ![c].pc = "newCategory"]
    <3>1. PICK next : next = [call EXCEPT !.pc = "newCategory"]
      OBVIOUS
    <3>2. /\ next \in MenuCall /\ next.pc = "newCategory" /\ next.op = call.op
          /\ next.id = call.id /\ next.name = call.name /\ next.snap = call.snap
          /\ next.label = call.label
      BY <3>1 DEF MenuCall, MenuPc
    <3>3. OpAt(next) /\ Onward(call, next) /\ HasItsMenu(next)'
      BY NoOp, <1>0, <2>1, <3>2
         DEF OpAt, Onward, BeforeSave, HasItsMenu, Writers, MenuOps, Imports
    <3>4. Knows(next)
      BY <1>0, <2>1, <3>2 DEF Knows, Ended, Imports, CategoryOps
    <3>5. QED BY <1>0, <2>1, <2>3, <3>1, <3>2, <3>3, <3>4 DEF Moves, CatalogTypeOK
  <2>4. CASE \E k \in Categories : mcall' = [mcall EXCEPT ![c].cat = k, ![c].pc = "save"]
    <3>1. PICK k \in Categories : mcall' = [mcall EXCEPT ![c].cat = k, ![c].pc = "save"]
      BY <2>4
    <3>2. PICK next : next = [call EXCEPT !.cat = k, !.pc = "save"]
      OBVIOUS
    <3>3. /\ next \in MenuCall /\ next.pc = "save" /\ next.op = call.op /\ next.id = call.id
          /\ next.name = call.name /\ next.snap = call.snap /\ next.label = call.label
      BY <3>2 DEF MenuCall, MenuPc
    <3>4. OpAt(next) /\ Onward(call, next) /\ HasItsMenu(next)'
      BY NoOp, <1>0, <2>1, <3>3
         DEF OpAt, Onward, BeforeSave, HasItsMenu, Writers, MenuOps, Imports
    <3>5. Knows(next)
      BY <1>0, <2>1, <3>3 DEF Knows, Ended, Imports, CategoryOps
    <3>6. mcall' = [mcall EXCEPT ![c] = next]
      BY <1>0, <3>1, <3>2 DEF CatalogTypeOK
    <3>7. QED BY <1>0, <2>1, <3>3, <3>4, <3>5, <3>6 DEF Moves
  <2>5. QED BY <1>0, <1>3, <2>2, <2>3, <2>4, ImportCategorySteps
<1>4. CASE SaveInTransaction(c)
  <2>1. /\ call.pc = "save" /\ hasTx' = hasTx /\ hasMenu' = hasMenu /\ hasTx
        /\ call.op \in Imports
        /\ MGoto(c, "enqueue") \/ Refused(c)
    BY <1>0, <1>4 DEF SaveInTransaction, InTransaction, menuVars
  <2>2. CASE Refused(c)
    BY NoOp, <1>0, <2>1, <2>2, Refusing DEF Ended, MenuOps
  <2>3. CASE MGoto(c, "enqueue")
    <3>1. PICK next : next = [call EXCEPT !.pc = "enqueue"]
      OBVIOUS
    <3>2. /\ next.pc = "enqueue" /\ next.op = call.op
          /\ next.name = call.name /\ next.label = call.label /\ next.snap = call.snap
      BY <3>1 DEF MenuCall
    <3>3. OpAt(next) /\ Knows(next) /\ HasItsMenu(next)'
      BY NoOp, <1>0, <2>1, <3>2
         DEF OpAt, Knows, HasItsMenu, Writers, MenuOps, Imports, CategoryOps, Ended
    <3>4. "enqueue" \in MenuPc \ Ended /\ call.pc \notin Ended
      BY <2>1 DEF MenuPc, Ended
    <3>5. QED BY <1>0, <2>1, <2>3, <3>1, <3>3, <3>4, GoingOn DEF Imports, Writers
  <2>4. QED BY <2>1, <2>2, <2>3
<1>5. CASE EnqueueVectorSync(c)
  <2>1. PICK pc \in {"commit", "done", "del"} : MGoto(c, pc) /\ pc = AfterEnqueue(c)
    BY <1>5 DEF EnqueueVectorSync, AfterEnqueue
  <2>2. call.pc = "enqueue" /\ hasTx' = hasTx /\ hasMenu' = hasMenu
    BY <1>0, <1>5 DEF EnqueueVectorSync, menuVars
  <2>3. /\ pc = "commit" => hasTx /\ call.op \in Imports
        /\ pc = "done" => call.op \in CategoryOps
        /\ pc = "del" => call.op \in Writers \cup Imports
        /\ call.op # None
    BY NoOp, <1>0, <2>1, <2>2
       DEF AfterEnqueue, InTransaction, OpAt, MenuOps, Imports, CategoryOps, Writers
  <2>4. CASE pc = "done"
    BY <1>0, <2>1, <2>2, <2>3, <2>4, Ending DEF CategoryOps, Writers
  <2>5. CASE pc # "done"
    <3>1. PICK next : next = [call EXCEPT !.pc = pc]
      OBVIOUS
    <3>2. /\ next.pc = pc /\ next.op = call.op /\ next.id = call.id /\ next.snap = call.snap
          /\ next.name = call.name /\ next.label = call.label
      BY <3>1 DEF MenuCall
    <3>3. OpAt(next) /\ HasItsMenu(next)'
      BY NoOp, <1>0, <2>2, <2>3, <2>5, <3>2
         DEF OpAt, HasItsMenu, Writers, MenuOps, Imports, CategoryOps
    <3>4. Knows(next)
      BY NoOp, <1>0, <2>2, <2>3, <2>5, <3>2
         DEF Knows, HasItsMenu, Ended, Writers, Imports, CategoryOps
    <3>5. pc \in MenuPc \ Ended /\ call.pc \notin Ended
      BY <2>2, <2>5 DEF MenuPc, Ended
    <3>6. QED BY <1>0, <2>1, <2>2, <3>1, <3>3, <3>4, <3>5, GoingOn DEF BeforeSave
  <2>6. QED BY <2>4, <2>5
<1>6. QED BY <1>1, <1>2, <1>3, <1>4, <1>5

\* The handlers of categories, and the invalidation of the cache.
LEMMA CategorySteps ==
    ASSUME CatalogTypeOK, CallsOk, NEW c \in Calls,
           \/ WriteCategory(c) \/ InvalidateMenuCache(c) \/ RetryTransaction(c)
    PROVE  \E next : Moves(c, next)
<1>0. PICK call \in MenuCall : call = mcall[c] /\ OpAt(call) /\ Knows(call) /\ HasItsMenu(call)
  BY CallTypes
<1>1. CASE WriteCategory(c)
  <2>1. PICK pc \in {"denied", "failed", "del"} : MGoto(c, pc)
    BY <1>1 DEF WriteCategory
  <2>2. call.pc = "write" /\ call.op = "rename" /\ hasTx' = hasTx /\ hasMenu' = hasMenu
    BY <1>0, <1>1 DEF WriteCategory, OpAt, menuVars
  <2>3. CASE pc # "del"
    BY NoOp, <1>0, <2>1, <2>2, <2>3, Ending DEF Writers, MenuOps, CategoryOps
  <2>4. CASE pc = "del"
    <3>1. PICK next : next = [call EXCEPT !.pc = "del"]
      OBVIOUS
    <3>2. /\ next.pc = "del" /\ next.op = call.op /\ next.cat = call.cat
          /\ next.name = call.name /\ next.label = call.label
      BY <3>1 DEF MenuCall
    <3>3. OpAt(next) /\ Knows(next) /\ HasItsMenu(next)'
      BY NoOp, <1>0, <2>2, <3>2
         DEF OpAt, Knows, HasItsMenu, Writers, MenuOps, Imports, CategoryOps, Ended
    <3>4. "del" \in MenuPc \ Ended /\ call.pc \notin Ended
      BY <2>2 DEF MenuPc, Ended
    <3>5. QED BY <1>0, <2>1, <2>2, <2>4, <3>1, <3>3, <3>4, GoingOn DEF Writers
  <2>5. QED BY <2>3, <2>4
<1>2. CASE InvalidateMenuCache(c)
  <2>1. PICK pc \in {"cascade", "record", "done"} : MGoto(c, pc) /\ pc = AfterDel(c)
    BY <1>2 DEF InvalidateMenuCache, AfterDel
  <2>2. /\ call.pc = "del" /\ call.op # None /\ hasTx' = hasTx /\ hasMenu' = hasMenu
        /\ call.op = "add" => call.id \in Ids
    BY <1>0, <1>2 DEF InvalidateMenuCache, OpAt, Knows, menuVars
  <2>3. /\ pc = "cascade" => call.op \in CategoryOps
        /\ pc = "record" => call.op = "upload"
        /\ call.op \in Writers => pc = "done"
    BY <1>0, <2>1 DEF AfterDel, CategoryOps, Writers
  <2>4. CASE pc = "done"
    BY <1>0, <2>1, <2>2, <2>3, <2>4, Ending
  <2>5. CASE pc # "done"
    <3>1. PICK next : next = [call EXCEPT !.pc = pc]
      OBVIOUS
    <3>2. /\ next.pc = pc /\ next.op = call.op /\ next.cat = call.cat
          /\ next.name = call.name /\ next.label = call.label
      BY <3>1 DEF MenuCall
    <3>3. OpAt(next) /\ Knows(next) /\ HasItsMenu(next)'
      BY NoOp, <1>0, <2>2, <2>3, <2>5, <3>2
         DEF OpAt, Knows, HasItsMenu, Writers, MenuOps, Imports, CategoryOps, Ended
    <3>4. pc \in MenuPc \ Ended
      BY <2>5 DEF MenuPc, Ended
    <3>5. next \in MenuCall /\ mcall' = [mcall EXCEPT ![c] = next]
      BY <1>0, <2>1, <3>1, <3>4 DEF MGoto, At, MenuCall, CatalogTypeOK
    <3>6. Onward(call, next)
      BY <2>3, <2>5, <3>2 DEF Onward, BeforeSave
    <3>7. QED BY <1>0, <2>2, <3>3, <3>5, <3>6 DEF Moves
  <2>6. QED BY <2>4, <2>5
<1>3. CASE RetryTransaction(c)
  <2>1. PICK again : again = [call EXCEPT !.cat = None]
    OBVIOUS
  <2>2. /\ again \in MenuCall /\ again.op = call.op
        /\ again.name = call.name /\ again.label = call.label
    BY <2>1 DEF MenuCall
  <2>3. /\ call.op \in Imports
        /\ call.pc \in {"category", "newCategory", "save", "enqueue", "commit"}
        /\ hasTx' = hasTx /\ hasMenu' = hasMenu
    BY <1>0, <1>3 DEF RetryTransaction, Uncommitted, InTransaction, menuVars
  <2>4. call.name \in Names /\ call.label \in CategoryNames
    BY <1>0, <2>3 DEF Knows, Ended
  <2>5. PICK next : next = Loaded(again)
    OBVIOUS
  <2>6. mcall' = [mcall EXCEPT ![c] = next]
    BY <1>0, <1>3, <2>1, <2>5 DEF RetryTransaction
  <2>7. /\ next \in MenuCall /\ OpAt(next) /\ Knows(next) /\ HasItsMenu(next)'
        /\ next.op = call.op
    BY <2>2, <2>3, <2>4, <2>5, LoadedOk DEF Imports
  <2>8. Onward(call, next)
    BY <2>3, <2>7 DEF Onward, BeforeSave, Writers, Imports
  <2>9. QED BY <1>0, <2>3, <2>6, <2>7, <2>8 DEF Moves
<1>4. QED BY <1>1, <1>2, <1>3

-----------------------------------------------------------------------------
(* save().                                                                 *)

\* The arrays a save may be called with are arrays of products.
LEMMA WantedArrays ==
    ASSUME CatalogTypeOK, CallsOk, NEW c \in Calls, mcall[c].pc \in {"save", "commit"},
           NEW want \in Wanted(c)
    PROVE  want \in Arrays
<1>0. PICK call \in MenuCall : call = mcall[c] /\ OpAt(call) /\ Knows(call)
  BY CallTypes
<1>1. PICK snap \in Arrays : snap = call.snap
  BY <1>0 DEF Knows, MenuCall
<1>2. \A id \in Ids, p \in Product \cup {None} : [snap EXCEPT ![id] = p] \in Arrays
  BY DEF Arrays
<1>3. call.op \in {"add"} \cup Imports \cup {"update", "remove"} \cup CategoryOps
  BY <1>0 DEF OpAt, Writers, Imports
<1>4. ASSUME NEW p \in Product, call.op \in {"add", "update"} \cup Imports
      PROVE  Priced(c, p) \in Product
  <2>1. call.name \in Names \/ (call.op = "update" /\ call.name = None)
    BY <1>0, <1>4 DEF Knows, Ended
  <2>2. QED BY <1>0, <2>1 DEF Priced, Product, MenuCall
<1>5. CASE call.op \in {"add"} \cup Imports
  <2>1. call.name \in Names
    BY <1>0, <1>5 DEF Knows, Ended
  <2>2. NewProduct(c) \in Product
    BY <1>0, <2>1 DEF NewProduct, Product, MenuCall
  <2>3. <<c, call.try>> \in Ids
    BY DEF Ids, MenuCall
  <2>4. \A id \in SameName(c) : id \in Ids /\ snap[id] \in Product
    BY <1>0, <1>1 DEF SameName, InArray, Arrays
  <2>5. \/ want = [snap EXCEPT ![<<c, call.try>>] = NewProduct(c)]
        \/ \E id \in SameName(c) : want = [snap EXCEPT ![id] = Priced(c, snap[id])]
    <3>1. want \in ByName(c)
      BY <1>0, <1>5 DEF Wanted, Imports, CategoryOps
    <3>2. QED BY <1>0, <1>1, <3>1 DEF ByName
  <2>6. QED BY <1>2, <1>4, <1>5, <2>2, <2>3, <2>4, <2>5
<1>6. CASE call.op \in {"update", "remove"}
  <2>1. call.id \in Ids /\ snap[call.id] \in Product
    BY <1>0, <1>1, <1>6 DEF OpAt, Knows, Arrays, Imports
  <2>2. \/ call.op = "update" /\ want = [snap EXCEPT ![call.id] = Priced(c, snap[call.id])]
        \/ want = [snap EXCEPT ![call.id] = None]
    BY <1>0, <1>1, <1>6 DEF Wanted, Imports, CategoryOps
  <2>3. QED BY <1>2, <1>4, <1>6, <2>1, <2>2
<1>7. CASE call.op \in CategoryOps
  <2>1. want = [id \in Ids |-> Relabelled(c, snap[id])]
    BY <1>0, <1>1, <1>7 DEF Wanted, CategoryOps, Imports
  <2>2. call.name \in CategoryNames \/ call.op = "drop"
    BY <1>0, <1>7 DEF Knows, Ended, CategoryOps
  <2>3. \A p \in Product \cup {None} : Relabelled(c, p) \in Product \cup {None}
    BY <1>0, <2>2 DEF Relabelled, Product
  <2>4. QED BY <2>1, <2>3 DEF Arrays
<1>8. QED BY <1>3, <1>5, <1>6, <1>7

\* Each field of a merged product is the old one or the one wanted.
LEMMA FieldsOk ==
    ASSUME NEW old \in Product, NEW snap \in Product, NEW want \in Product
    PROVE  /\ Fields(old, snap, want) \in Product
           /\ Fields(old, snap, want).price \in {old.price, want.price}
BY DEF Fields, Product

\* A save leaves an array of products, each as it was or with fields of the one wanted.
LEMMA SavedArray ==
    ASSUME NEW c \in Calls, products \in Arrays, mcall[c].snap \in Arrays, version \in Nat,
           NEW want \in Arrays, SaveArray(c, want)
    PROVE  /\ products' \in Arrays /\ version' \in Nat
           /\ \A id \in Ids : products'[id] # None =>
                  \/ products[id] # None /\ products'[id].price = products[id].price
                  \/ want[id] # None /\ products'[id].price = want[id].price
<1> PICK snap \in Arrays : snap = mcall[c].snap
  OBVIOUS
<1>1. \A id \in Ids : /\ snap[id] \in Product \cup {None} /\ want[id] \in Product \cup {None}
                      /\ products[id] \in Product \cup {None}
  BY DEF Arrays
<1>2. ASSUME NEW id \in Ids
      PROVE  /\ products'[id] \in Product \cup {None}
             /\ products'[id] # None =>
                  \/ products[id] # None /\ products'[id].price = products[id].price
                  \/ want[id] # None /\ products'[id].price = want[id].price
  <2>1. products'[id] = IF id \in Moved(c, want) THEN want[id]
                        ELSE IF id \in Edited(c, want) /\ products[id] # None
                             THEN Fields(products[id], snap[id], want[id])
                             ELSE products[id]
    BY DEF SaveArray
  <2>2. CASE id \in Edited(c, want) /\ products[id] # None
    <3>1. products[id] \in Product /\ snap[id] \in Product /\ want[id] \in Product
      BY <1>1, <2>2 DEF Edited
    <3>2. QED BY <1>1, <2>1, <2>2, <3>1, FieldsOk
  <2>3. QED BY <1>1, <2>1, <2>2
<1>3. products' \in Arrays
  BY <1>2 DEF SaveArray, Arrays
<1>4. version' \in Nat
  BY DEF SaveArray
<1>5. QED BY <1>2, <1>3, <1>4

\* What an array wanted is priced by: the request, or what the array loaded is priced by.
LEMMA WantedPrices ==
    ASSUME CatalogTypeOK, CallsOk, NEW c \in Calls, mcall[c].pc \in {"save", "commit"},
           NEW want \in Wanted(c), NEW id \in Ids, want[id] # None
    PROVE  \/ want[id].price = c
           \/ mcall[c].snap[id] # None /\ want[id].price = mcall[c].snap[id].price
<1>0. PICK call \in MenuCall : call = mcall[c] /\ OpAt(call) /\ Knows(call)
  BY CallTypes
<1>1. PICK snap \in Arrays : snap = call.snap
  BY <1>0 DEF Knows, MenuCall
<1>2. call.op \in {"add"} \cup Imports \cup {"update", "remove"} \cup CategoryOps
  BY <1>0 DEF OpAt, Writers, Imports
<1>3. snap[id] \in Product \cup {None}
  BY DEF Arrays
<1>4. CASE call.op \in {"add"} \cup Imports
  <2>1. want \in ByName(c)
    BY <1>0, <1>4 DEF Wanted, Imports, CategoryOps
  <2>2. \E i : \/ want = [snap EXCEPT ![i] = NewProduct(c)]
               \/ want = [snap EXCEPT ![i] = Priced(c, snap[i])]
    BY <1>0, <1>1, <2>1 DEF ByName
  <2>3. QED BY <1>0, <1>1, <2>2 DEF NewProduct, Priced, Arrays
<1>5. CASE call.op \in {"update", "remove"}
  <2>1. \E i : \/ want = [snap EXCEPT ![i] = None]
               \/ want = [snap EXCEPT ![i] = Priced(c, snap[i])]
    BY <1>0, <1>1, <1>5 DEF Wanted, Imports, CategoryOps
  <2>2. QED BY <1>0, <1>1, <2>1 DEF Priced, Arrays
<1>6. CASE call.op \in CategoryOps
  <2>1. want = [i \in Ids |-> Relabelled(c, snap[i])]
    BY <1>0, <1>1, <1>6 DEF Wanted, CategoryOps, Imports
  <2>2. want[id] = Relabelled(c, snap[id])
    BY <2>1
  <2>3. QED BY <1>0, <1>1, <1>3, <2>2 DEF Relabelled, Product
<1>7. QED BY <1>2, <1>4, <1>5, <1>6

\* An addition changes the array it loaded.
LEMMA AddedProduct ==
    ASSUME CatalogInv, NEW c \in Calls, mcall[c].pc = "save", mcall[c].op = "add",
           NEW want \in Wanted(c)
    PROVE  \E id \in Ids : Touched(c, want) = {id} /\ want[id] # None
<1>0. PICK call \in MenuCall : call = mcall[c] /\ OpAt(call) /\ Knows(call)
  BY CallTypes DEF CatalogInv
<1>1. PICK snap \in Arrays : snap = call.snap /\ ~PricedBy(snap, c)
  BY <1>0 DEF Knows, MenuCall, CatalogInv, PricesPast, Unsaved, BeforeSave
<1>2. want \in ByName(c)
  BY <1>0 DEF Wanted, Imports, CategoryOps
<1>3. PICK id \in Ids, p \in Product : want = [snap EXCEPT ![id] = p] /\ p.price = c
  <2>1. \/ want = [snap EXCEPT ![<<c, call.try>>] = NewProduct(c)]
        \/ \E i \in SameName(c) : want = [snap EXCEPT ![i] = Priced(c, snap[i])]
    BY <1>0, <1>1, <1>2 DEF ByName
  <2>2. <<c, call.try>> \in Ids /\ SameName(c) \subseteq Ids
    BY DEF Ids, MenuCall, SameName, InArray
  <2>3. NewProduct(c).price = c /\ NewProduct(c) \in Product
    BY <1>0 DEF NewProduct, Product, MenuCall, Knows, Ended
  <2>4. \A i \in SameName(c) : Priced(c, snap[i]).price = c /\ Priced(c, snap[i]) \in Product
    <3>1. \A i \in SameName(c) : snap[i] \in Product
      BY <1>0, <1>1 DEF SameName, InArray, Arrays
    <3>2. QED BY <1>0, <3>1 DEF Priced, Product, MenuCall
  <2>5. QED BY <2>1, <2>2, <2>3, <2>4
<1>4. \A i \in Ids : snap[i] # want[i] <=> i = id
  BY <1>1, <1>3 DEF PricedBy, Arrays
<1>5. Touched(c, want) = {id}
  BY <1>0, <1>1, <1>4 DEF Touched
<1>6. QED BY <1>3, <1>5 DEF Arrays

\* save(), the commit of a transaction and the enqueue that follows.
LEMMA SavingSteps ==
    ASSUME CatalogInv, NEW c \in Calls, SaveMenu(c) \/ CommitImport(c)
    PROVE  \E next : Moves(c, next)
<1>0. PICK call \in MenuCall : call = mcall[c] /\ OpAt(call) /\ Knows(call) /\ HasItsMenu(call)
  BY CallTypes DEF CatalogInv
<1>1. CASE SaveMenu(c)
  <2>1. PICK want \in Wanted(c) :
          \/ mcall' = [mcall EXCEPT ![c].pc = "enqueue", ![c].snap = None, ![c].ver = 0,
                  ![c].id = IF mcall[c].op = "add" THEN CHOOSE id \in Touched(c, want) : TRUE
                                                   ELSE mcall[c].id]
          \/ Refused(c)
    BY <1>1 DEF SaveMenu
  <2>2. /\ call.pc = "save" /\ ~InTransaction(c) /\ hasTx' = hasTx /\ hasMenu' = hasMenu
        /\ call.op \in Writers \cup Imports \cup CategoryOps
    BY <1>0, <1>1 DEF SaveMenu, OpAt
  <2>3. CASE Refused(c)
    BY NoOp, <1>0, <2>2, <2>3, Refusing
       DEF CatalogInv, Ended, MenuOps, Writers, Imports, CategoryOps
  <2>4. CASE mcall' = [mcall EXCEPT ![c].pc = "enqueue", ![c].snap = None, ![c].ver = 0,
                  ![c].id = IF mcall[c].op = "add" THEN CHOOSE id \in Touched(c, want) : TRUE
                                                   ELSE mcall[c].id]
    <3>1. PICK id \in Ids \cup {None} : /\ id = IF mcall[c].op = "add"
                                                THEN CHOOSE i \in Touched(c, want) : TRUE
                                                ELSE mcall[c].id
                                        /\ call.op = "add" => id \in Ids
                                        /\ call.op # "add" => id = call.id
      <4>1. call.op = "add" => (CHOOSE i \in Touched(c, want) : TRUE) \in Ids
        BY <1>0, <2>2, AddedProduct
      <4>2. call.id \in Ids \cup {None}
        BY DEF MenuCall
      <4>3. QED BY <1>0, <4>1, <4>2
    <3>2. PICK next : next = [call EXCEPT !.pc = "enqueue", !.snap = None, !.ver = 0, !.id = id]
      OBVIOUS
    <3>3. mcall' = [mcall EXCEPT ![c] = next]
      <4>1. mcall' = [mcall EXCEPT ![c].pc = "enqueue", ![c].snap = None, ![c].ver = 0,
                                   ![c].id = id]
        BY <2>4, <3>1
      <4>2. QED BY <1>0, <3>2, <4>1 DEF CatalogInv, CatalogTypeOK
    <3>4. /\ next \in MenuCall /\ next.pc = "enqueue" /\ next.op = call.op /\ next.id = id
          /\ next.name = call.name /\ next.label = call.label /\ next.cat = call.cat
      <4>1. "enqueue" \in MenuPc
        BY DEF MenuPc
      <4>2. id \in Ids \cup {None}
        OBVIOUS
      <4>3. QED BY <3>2, <4>1, <4>2 DEF MenuCall
    <3>5. OpAt(next) /\ HasItsMenu(next)' /\ Onward(call, next)
      BY NoOp, <1>0, <2>2, <3>4
         DEF OpAt, HasItsMenu, Onward, BeforeSave, InTransaction, Writers, Imports,
             CategoryOps, MenuOps
    <3>6. Knows(next)
      BY <1>0, <2>2, <3>1, <3>4 DEF Knows, Ended, Writers, Imports, CategoryOps
    <3>7. QED BY <1>0, <2>2, <3>3, <3>4, <3>5, <3>6 DEF Moves
  <2>5. QED BY <2>1, <2>3, <2>4
<1>2. CASE CommitImport(c)
  <2>1. PICK next : next = [call EXCEPT !.pc = "del", !.snap = None, !.ver = 0]
    OBVIOUS
  <2>2. /\ call.pc = "commit" /\ mcall' = [mcall EXCEPT ![c] = next]
        /\ hasTx' = hasTx /\ hasMenu' = TRUE /\ call.op \in Imports
    BY <1>0, <1>2, <2>1 DEF CommitImport, CatalogInv, CatalogTypeOK, OpAt
  <2>3. /\ next \in MenuCall /\ next.pc = "del" /\ next.op = call.op
        /\ next.name = call.name /\ next.label = call.label
    BY <2>1 DEF MenuCall, MenuPc
  <2>4. OpAt(next) /\ HasItsMenu(next)' /\ Onward(call, next)
    BY NoOp, <1>0, <2>2, <2>3
       DEF OpAt, HasItsMenu, Onward, BeforeSave, Writers, Imports, CategoryOps, MenuOps
  <2>5. Knows(next)
    BY <1>0, <2>2, <2>3 DEF Knows, Ended, Writers, Imports, CategoryOps
  <2>6. QED BY <1>0, <2>2, <2>3, <2>4, <2>5 DEF Moves
<1>3. QED BY <1>1, <1>2

\* Every step of the catalog is a move of one request.
LEMMA CatalogMoves ==
    ASSUME CatalogInv, NEW c \in Calls, CatalogStep(c)
    PROVE  \E next : Moves(c, next)
BY ReadingSteps, ProductSteps, CategorySteps, SavingSteps DEF CatalogStep, CatalogInv

\* What a request that begins has of categories and their names.
FromNames(c, next) ==
    /\ catName' # catName => \/ \E g \in CategoryNames : CreateCategory(c, g)
                             \/ \E k \in Categories : DeleteCategory(c, k)
    /\ next.op \in CategoryOps => \E k \in Categories :
           DeleteCategory(c, k) \/ \E g \in CategoryNames : FindCategory(c, k, g)
    /\ next.op \in {"add", "update"} /\ next.pc \notin Ended =>
           /\ next.pc \in {"newMenu", "lookup", "save"} /\ next.label = None
           /\ next.cat = None \/ catName[next.cat] # None
           /\ next.pc = "save" => next.cat = None

\* A request that begins: whatever it loads, it is one of its own.
Begun(c, next) ==
    /\ next.op \in MenuOps /\ next.pc \notin {"idle", "enqueue", "commit"}
    /\ next.snap \in {None, products}
    /\ next.after = Over /\ next.try = 1
    /\ next.op = "upload" => \E f \in Files : UploadMenu(c, f[1], f[2])
    /\ next.op = "read" => next.pc \in {"cats", "done"}
    /\ next.op \in CategoryOps => next.pc \in {"write", "del"}
    /\ next.op = "import" => /\ next.pc \in {"category", "newMenu"}
                             /\ next.pc = "category" => next.ver = version
    /\ catName' # catName => next.op # "read" /\ next.pc = "del"
    /\ FromNames(c, next)

\* Every request begins with a move.
LEMMA BeginMoves ==
    ASSUME CatalogInv, NEW c \in Calls,
           BeginCatalogCall(c) \/ \E f \in Files : UploadMenu(c, f[1], f[2])
    PROVE  /\ mcall[c].pc = "idle" /\ mcall[c].op = None
           /\ hasTx' = hasTx /\ hasMenu' = hasMenu
           /\ \E next : Moves(c, next) /\ Begun(c, next)
<1>1. mcall[c].pc = "idle" /\ hasTx' = hasTx /\ hasMenu' = hasMenu
  BY DEF BeginCatalogCall, UploadMenu, GetCached, WriteVariant, CreateCategory, FindCategory,
         ImportMenu, DeleteCategory, AddProduct, UpdateProduct, RemoveProduct, Load, InCatalog,
         menuVars
<1>2. mcall[c].op = None
  BY <1>1, CallTypes DEF CatalogInv, OpAt
<1> SUFFICES \E next : Moves(c, next) /\ Begun(c, next)
  BY <1>1, <1>2
<1>3. ASSUME NEW call \in MenuCall, Load(c, call), call.op \in Writers \cup {"import"},
             call.op \in {"update", "remove"} => call.id \in Ids,
             call.op \in {"add", "import"} => call.name \in Names,
             call.op = "update" => call.name \in Names \cup {None},
             call.op = "import" => call.label \in CategoryNames,
             call.op # "import" => /\ call.label = None
                                   /\ call.cat = None \/ catName[call.cat] # None,
             call.snap = None, call.after = Over, call.try = 1
      PROVE  \E next : Moves(c, next) /\ Begun(c, next)
  <2>1. PICK next : Moves(c, next) /\ next = Loaded(call)
    BY <1>2, <1>3, Loading DEF CatalogInv, Writers, Imports
  <2>2. next.pc \in {"fill", "denied", "category", "lookup", "save", "newMenu"}
        /\ next.op = call.op
    BY <2>1, LoadedKeeps DEF CatalogInv
  <2>3. next.snap \in {None, products} /\ next.after = Over /\ next.try = 1
    BY <1>3, <2>1, LoadedKeeps DEF CatalogInv
  <2>4. next.op \in MenuOps /\ next.op \notin {"upload", "read"} \cup CategoryOps
    BY OpNames, <1>3, <2>2 DEF Writers, CategoryOps
  <2>5. next.pc = "category" => next.ver = version
    BY <2>1, LoadedVersion DEF CatalogInv
  <2>6. catName' = catName
    BY <1>3 DEF Load
  <2>7. next.op = "import" => next.pc \in {"category", "newMenu"}
    BY <2>1, <2>2, LoadedKeeps DEF CatalogInv, Imports
  <2>8. FromNames(c, next)
    <3>1. CASE next.op \in {"add", "update"} /\ next.pc \notin Ended
      <4>1. /\ next.cat = call.cat /\ next.label = call.label
            /\ next.pc \in {"newMenu", "lookup", "save"} /\ (next.pc = "save" => call.cat = None)
        BY <2>1, <2>2, <3>1, LoadedCategory DEF CatalogInv
      <4>2. call.op # "import"
        BY <2>2, <3>1
      <4>3. QED BY <1>3, <2>4, <2>6, <4>1, <4>2 DEF FromNames
    <3>2. CASE ~(next.op \in {"add", "update"} /\ next.pc \notin Ended)
      BY <2>4, <2>6, <3>2 DEF FromNames
    <3>3. QED BY <3>1, <3>2
  <2>9. QED BY <2>1, <2>2, <2>3, <2>4, <2>5, <2>6, <2>7, <2>8 DEF Begun
<1>4. ASSUME NEW next \in MenuCall, mcall' = [mcall EXCEPT ![c] = next], next.snap = None,
             next.op \in MenuOps, next.pc \notin {"idle", "enqueue", "commit"},
             OpAt(next), Knows(next), HasItsMenu(next)',
             next.after = Over, next.try = 1,
             next.op = "upload" => \E f \in Files : UploadMenu(c, f[1], f[2]),
             next.op = "read" => next.pc \in {"cats", "done"}, next.op # "import",
             next.op \in CategoryOps => next.pc \in {"write", "del"},
             catName' # catName => next.op # "read" /\ next.pc = "del",
             FromNames(c, next)
      PROVE  \E n : Moves(c, n) /\ Begun(c, n)
  <2>1. Onward(mcall[c], next)
    BY NoOp, <1>2 DEF Onward, BeforeSave, Writers, MenuOps
  <2>2. QED BY <1>1, <1>4, <2>1 DEF Moves, Begun
<1>5. CASE GetCached(c) \/ WriteVariant(c)
  <2>1. PICK op \in {"read", "variant"}, pc \in {"done", "cats", "del"} :
          /\ mcall' = [mcall EXCEPT ![c] = [Opened(op) EXCEPT !.pc = pc]]
          /\ op = "read" => pc \in {"done", "cats"}
          /\ op = "variant" => pc = "del"
          /\ catName' = catName
    BY <1>5 DEF GetCached, WriteVariant
  <2>2. PICK o \in MenuCall : Opening(o, op)
    BY OpenedOk, OpNames
  <2>0. PICK next : next = [o EXCEPT !.pc = pc]
    OBVIOUS
  <2>3. /\ next \in MenuCall /\ next.pc = pc /\ next.op = op /\ next.snap = None
        /\ next.after = Over /\ next.try = 1 /\ op \in MenuOps
        /\ mcall' = [mcall EXCEPT ![c] = next]
    BY <2>0, <2>1, <2>2, OpNames DEF Opening, MenuCall, MenuPc
  <2>4. OpAt(next) /\ Knows(next) /\ HasItsMenu(next)'
    BY NoOp, <2>1, <2>3 DEF OpAt, Knows, HasItsMenu, Ended, MenuOps, Imports, CategoryOps
  <2>5. FromNames(c, next)
    BY <2>1, <2>3 DEF FromNames, CategoryOps
  <2>6. QED BY <1>4, <2>1, <2>3, <2>4, <2>5 DEF CategoryOps
<1>6. CASE \E g \in CategoryNames : CreateCategory(c, g)
  <2>1. PICK pc \in {"failed", "del"} :
          /\ mcall' = [mcall EXCEPT ![c] = [Opened("create") EXCEPT !.pc = pc]]
          /\ catName' = catName \/ pc = "del"
    BY <1>6 DEF CreateCategory
  <2>2. PICK o \in MenuCall : Opening(o, "create")
    BY OpenedOk, OpNames
  <2>0. PICK next : next = [o EXCEPT !.pc = pc]
    OBVIOUS
  <2>3. /\ next \in MenuCall /\ next.pc = pc /\ next.op = "create" /\ next.snap = None
        /\ next.after = Over /\ next.try = 1 /\ next.op \in MenuOps
        /\ mcall' = [mcall EXCEPT ![c] = next]
    BY <2>0, <2>1, <2>2, OpNames DEF Opening, MenuCall, MenuPc
  <2>4. OpAt(next) /\ Knows(next) /\ HasItsMenu(next)'
    BY NoOp, <2>1, <2>3 DEF OpAt, Knows, HasItsMenu, Ended, MenuOps, Imports, CategoryOps
  <2>5. FromNames(c, next)
    BY <1>6, <2>1, <2>3 DEF FromNames, CategoryOps
  <2>6. QED BY <1>4, <2>1, <2>3, <2>4, <2>5 DEF CategoryOps
<1>7. CASE \E k \in Categories :
             DeleteCategory(c, k) \/ \E g \in CategoryNames : FindCategory(c, k, g)
  <2>1. PICK next \in MenuCall :
          /\ mcall' = [mcall EXCEPT ![c] = next] /\ next.snap = None /\ next.cat \in Categories
          /\ next.after = Over /\ next.try = 1
          /\ \/ next.op = "drop" /\ next.pc = "del"
             \/ /\ next.op = "rename" /\ next.pc = "write" /\ catName' = catName
                /\ next.name \in CategoryNames /\ next.label \in CategoryNames
    <3>1. CASE \E k \in Categories : DeleteCategory(c, k)
      <4>1. PICK k \in Categories : DeleteCategory(c, k)
        BY <3>1
      <4>2. PICK o \in MenuCall : Opening(o, "drop")
        BY OpenedOk, OpNames
      <4>3. PICK next : next = [o EXCEPT !.cat = k, !.pc = "del"]
        OBVIOUS
      <4>4. mcall' = [mcall EXCEPT ![c] = next]
        BY <4>1, <4>2, <4>3 DEF DeleteCategory, Opening
      <4>5. /\ next \in MenuCall /\ next.op = "drop" /\ next.pc = "del" /\ next.snap = None
            /\ next.cat = k /\ next.after = Over /\ next.try = 1
        BY ZenonT(60), <4>2, <4>3 DEF MenuCall, MenuPc, Opening
      <4>6. QED BY <4>4, <4>5
    <3>2. CASE \E k \in Categories, g \in CategoryNames : FindCategory(c, k, g)
      <4>1. PICK k \in Categories, g \in CategoryNames : FindCategory(c, k, g)
        BY <3>2
      <4>2. PICK o \in MenuCall : Opening(o, "rename")
        BY OpenedOk, OpNames
      <4>3. PICK l \in CategoryNames : l = catName[k]
        BY <4>1, CallTypes DEF FindCategory, Naming, CatalogInv
      <4>4. PICK next : next = [o EXCEPT !.cat = k, !.name = g, !.label = l, !.pc = "write"]
        OBVIOUS
      <4>5. mcall' = [mcall EXCEPT ![c] = next]
        BY <4>1, <4>2, <4>3, <4>4 DEF FindCategory, Opening
      <4>6. "write" \in MenuPc
        BY DEF MenuPc
      <4>7. /\ next \in MenuCall /\ next.op = "rename" /\ next.pc = "write" /\ next.snap = None
            /\ next.cat = k /\ next.name = g /\ next.label = l
            /\ next.after = Over /\ next.try = 1
        BY <4>2, <4>4, <4>6 DEF MenuCall, Opening
      <4>8. catName' = catName
        BY <4>1 DEF FindCategory
      <4>9. QED BY <4>5, <4>7, <4>8
    <3>3. QED BY <1>7, <3>1, <3>2
  <2>2. next.op \in MenuOps
    BY <2>1, OpNames
  <2>3. OpAt(next) /\ Knows(next) /\ HasItsMenu(next)'
    BY NoOp, <2>1, <2>2 DEF OpAt, Knows, HasItsMenu, Ended, MenuOps, Imports, CategoryOps
  <2>4. catName' # catName => \E k \in Categories : DeleteCategory(c, k)
    BY <1>7 DEF FindCategory
  <2>5. FromNames(c, next)
    BY <1>7, <2>1, <2>4 DEF FromNames
  <2>6. QED BY <1>4, <2>1, <2>2, <2>3, <2>5
<1>8. CASE \E f \in Files : UploadMenu(c, f[1], f[2])
  <2>1. PICK f \in Files : UploadMenu(c, f[1], f[2])
    BY <1>8
  <2>2. f[1] \in Names /\ f[2] \in CategoryNames
    OBVIOUS
  <2>0. PICK o \in MenuCall : Opening(o, "upload")
    BY OpenedOk, OpNames
  <2>3. PICK next : next = [o EXCEPT !.name = f[1], !.label = f[2], !.pc = "ingest"]
    OBVIOUS
  <2>4. /\ next \in MenuCall /\ next.pc = "ingest" /\ next.op = "upload" /\ next.snap = None
        /\ next.after = Over /\ next.try = 1 /\ next.op \in MenuOps
        /\ next.name = f[1] /\ next.label = f[2]
        /\ mcall' = [mcall EXCEPT ![c] = next]
    <3>1. "ingest" \in MenuPc
      BY DEF MenuPc
    <3>2. mcall' = [mcall EXCEPT ![c] = next]
      BY <2>0, <2>1, <2>3 DEF UploadMenu, Opening
    <3>3. QED BY ZenonT(60), <2>0, <2>2, <2>3, <3>1, <3>2, OpNames DEF Opening, MenuCall
  <2>5. OpAt(next) /\ Knows(next) /\ HasItsMenu(next)'
    BY NoOp, <2>2, <2>4 DEF OpAt, Knows, HasItsMenu, Ended, MenuOps, Imports, CategoryOps
  <2>6. catName' = catName
    BY <2>1 DEF UploadMenu, InCatalog
  <2>7. FromNames(c, next)
    BY <2>4, <2>6 DEF FromNames, CategoryOps
  <2>8. QED BY <1>4, <1>8, <2>4, <2>5, <2>6, <2>7 DEF CategoryOps
<1>9. CASE \E f \in Files : ImportMenu(c, f[1], f[2])
  <2>1. PICK f \in Files : ImportMenu(c, f[1], f[2])
    BY <1>9
  <2>2. f[1] \in Names /\ f[2] \in CategoryNames
    OBVIOUS
  <2>0. PICK o \in MenuCall : Opening(o, "import")
    BY OpenedOk, OpNames
  <2>3. PICK call : call = [o EXCEPT !.name = f[1], !.label = f[2]]
    OBVIOUS
  <2>4. /\ call \in MenuCall /\ call.op = "import" /\ call.snap = None /\ call.name = f[1]
        /\ call.after = Over /\ call.try = 1 /\ call.label = f[2] /\ Load(c, call)
    BY <2>0, <2>1, <2>2, <2>3, OpNames DEF ImportMenu, Opening, MenuCall
  <2>5. QED BY <1>3, <2>2, <2>4 DEF Writers
<1>10. CASE \E k \in {j \in Categories : catName[j] # None} \cup {None} :
              \/ \E a \in Adds : AddProduct(c, a[1], k)
              \/ \E id \in Live, e \in Edits : UpdateProduct(c, id, e[1], k)
  <2>1. PICK call \in MenuCall :
          /\ Load(c, call) /\ call.snap = None /\ call.after = Over /\ call.try = 1
          /\ call.label = None /\ (call.cat = None \/ catName[call.cat] # None)
          /\ \/ call.op = "add" /\ call.name \in Names
             \/ call.op = "update" /\ call.id \in Ids /\ call.name \in Names \cup {None}
    <3>1. CASE \E k \in {j \in Categories : catName[j] # None} \cup {None}, a \in Adds :
                 AddProduct(c, a[1], k)
      <4>1. PICK k \in Categories \cup {None}, a \in Adds :
              AddProduct(c, a[1], k) /\ (k = None \/ catName[k] # None)
        BY <3>1
      <4>2. PICK n \in Names : n = a[1]
        OBVIOUS
      <4>3. PICK o \in MenuCall : Opening(o, "add")
        BY OpenedOk, OpNames
      <4>4. PICK call : call = [o EXCEPT !.name = n, !.cat = k]
        OBVIOUS
      <4>5. /\ call \in MenuCall /\ call.op = "add" /\ call.name = n /\ call.snap = None
            /\ call.after = Over /\ call.try = 1 /\ call.cat = k /\ call.label = None
        BY <4>3, <4>4 DEF MenuCall, Opening
      <4>6. Load(c, call)
        BY <4>1, <4>2, <4>3, <4>4 DEF AddProduct, Opening
      <4>7. QED BY <4>1, <4>5, <4>6
    <3>2. CASE \E k \in {j \in Categories : catName[j] # None} \cup {None},
                  id \in Live, e \in Edits : UpdateProduct(c, id, e[1], k)
      <4>1. PICK k \in Categories \cup {None}, id \in Live, e \in Edits :
              UpdateProduct(c, id, e[1], k) /\ (k = None \/ catName[k] # None)
        BY <3>2
      <4>2. PICK n \in Names \cup {None} : n = e[1]
        OBVIOUS
      <4>3. PICK o \in MenuCall : Opening(o, "update")
        BY OpenedOk, OpNames
      <4>4. PICK call : call = [o EXCEPT !.id = id, !.name = n, !.cat = k]
        OBVIOUS
      <4>5. Load(c, call)
        BY <4>1, <4>2, <4>3, <4>4 DEF UpdateProduct, Opening
      <4>6. id \in Ids
        BY DEF Live, InArray
      <4>7. /\ call \in MenuCall /\ call.op = "update" /\ call.name = n /\ call.id = id
            /\ call.snap = None /\ call.after = Over /\ call.try = 1
            /\ call.cat = k /\ call.label = None
        BY ZenonT(60), <4>3, <4>4, <4>6 DEF MenuCall, Opening
      <4>8. QED BY <4>1, <4>5, <4>6, <4>7
    <3>3. QED BY <1>10, <3>1, <3>2
  <2>2. QED BY <1>3, <2>1 DEF Writers
<1>11. CASE \E id \in Live : RemoveProduct(c, id)
  <2>1. PICK id \in Live : RemoveProduct(c, id)
    BY <1>11
  <2>2. id \in Ids
    BY DEF Live, InArray
  <2>0. PICK o \in MenuCall : Opening(o, "remove")
    BY OpenedOk, OpNames
  <2>3. PICK call : call = [o EXCEPT !.id = id]
    OBVIOUS
  <2>4. /\ call \in MenuCall /\ call.op = "remove" /\ call.snap = None /\ call.id = id
        /\ call.after = Over /\ call.try = 1 /\ Load(c, call)
        /\ call.cat = None /\ call.label = None
    BY <2>0, <2>1, <2>2, <2>3 DEF RemoveProduct, Opening, MenuCall
  <2>5. QED BY <1>3, <2>2, <2>4 DEF Writers
<1>12. CASE BeginCatalogCall(c)
  <2>1. \/ GetCached(c) \/ WriteVariant(c)
        \/ \E g \in CategoryNames : CreateCategory(c, g)
        \/ \E k \in Categories :
              DeleteCategory(c, k) \/ \E g \in CategoryNames : FindCategory(c, k, g)
        \/ \E f \in Files : ImportMenu(c, f[1], f[2])
        \/ \E k \in {j \in Categories : catName[j] # None} \cup {None} :
              \/ \E a \in Adds : AddProduct(c, a[1], k)
              \/ \E id \in Live, e \in Edits : UpdateProduct(c, id, e[1], k)
        \/ \E id \in Live : RemoveProduct(c, id)
    BY <1>12 DEF BeginCatalogCall
  <2>2. QED BY <1>5, <1>6, <1>7, <1>9, <1>10, <1>11, <2>1
<1>13. QED BY <1>1, <1>2, <1>8, <1>12

\* The deliveries of an upload, and instances that die.
LEMMA IngestionMoves ==
    ASSUME CatalogInv, NEW c \in Calls, IngestionStep(c)
    PROVE  \E next : Moves(c, next)
<1>0. PICK call \in MenuCall : call = mcall[c] /\ OpAt(call) /\ Knows(call) /\ HasItsMenu(call)
  BY CallTypes DEF CatalogInv
<1>1. hasTx' = hasTx /\ hasMenu' = hasMenu
  BY DEF IngestionStep, EnqueueIngestion, StartIngestion, ParseFile, RecordSource, InvalidateAgain,
         CompleteIngestion, IngestionThrows, FailIngestion, InstanceDies, Load, InCatalog, menuVars
<1>2. ASSUME NEW pc \in {"status", "processing", "del2", "complete"}, MGoto(c, pc),
             call.op = "upload", call.pc \notin Ended
      PROVE  \E next : Moves(c, next)
  <2>1. PICK next : next = [call EXCEPT !.pc = pc]
    OBVIOUS
  <2>2. /\ next.pc = pc /\ next.op = "upload" /\ next.name = call.name /\ next.label = call.label
    BY <1>2, <2>1 DEF MenuCall
  <2>3. OpAt(next) /\ Knows(next) /\ HasItsMenu(next)'
    BY NoOp, OpNames, <1>0, <1>2, <2>2 DEF OpAt, Knows, HasItsMenu, Ended, Imports, CategoryOps
  <2>4. pc \in MenuPc \ Ended
    BY DEF MenuPc, Ended
  <2>5. Moves(c, next)
    BY <1>0, <1>1, <1>2, <2>1, <2>3, <2>4, GoingOn DEF CatalogInv, Writers
  <2>6. QED BY <2>5
<1>3. CASE EnqueueIngestion(c) \/ StartIngestion(c) \/ RecordSource(c) \/ InvalidateAgain(c)
  <2>1. PICK pc \in {"status", "processing", "del2", "complete"} : MGoto(c, pc)
    BY <1>3 DEF EnqueueIngestion, StartIngestion, RecordSource, InvalidateAgain
  <2>2. call.op = "upload" /\ call.pc \notin Ended
    BY <1>0, <1>3 DEF EnqueueIngestion, StartIngestion, RecordSource, InvalidateAgain, OpAt, Ended
  <2>3. QED BY <1>2, <2>1, <2>2
<1>4. CASE CompleteIngestion(c)
  <2>1. call.op = "upload" /\ MGoto(c, "done")
    BY <1>0, <1>4 DEF CompleteIngestion, OpAt
  <2>2. QED BY NoOp, OpNames, <1>0, <1>1, <2>1, Ending DEF CatalogInv, Writers
<1>5. CASE ParseFile(c)
  <2>1. call.op = "upload" /\ call.pc \notin Ended \cup {"del"} /\ Load(c, call)
    BY <1>0, <1>5 DEF ParseFile, OpAt, Ended
  <2>2. call.name \in Names /\ call.label \in CategoryNames
    BY <1>0, <2>1 DEF Knows, Imports
  <2>3. \E next : Moves(c, next) /\ next = Loaded(call)
    BY <1>0, <2>1, <2>2, Loading DEF CatalogInv, Imports
  <2>4. QED BY <2>3
<1>6. CASE IngestionThrows(c)
  <2>1. call.op = "upload" /\ call.pc \notin Ended \cup {"del"} /\ Refused(c)
    BY <1>0, <1>6 DEF IngestionThrows, OpAt, Ended
  <2>2. QED BY NoOp, OpNames, <1>0, <1>1, <2>1, Refusing DEF CatalogInv
<1>7. ASSUME call.op = "upload", call.pc \notin Ended, call.try < MaxAttempts,
             mcall' = [mcall EXCEPT ![c] = NextAttempt(call)]
      PROVE  \E next : Moves(c, next)
  <2>1. PICK next : next = NextAttempt(call)
    OBVIOUS
  <2>2. call.try + 1 \in Attempts /\ "status" \in MenuPc
    BY <1>7 DEF MenuCall, Attempts, MenuPc
  <2>3. /\ next \in MenuCall /\ next.pc = "status" /\ next.op = "upload"
        /\ next.name = call.name /\ next.label = call.label
    BY <1>7, <2>1, <2>2 DEF NextAttempt, MenuCall
  <2>4. OpAt(next) /\ Knows(next) /\ HasItsMenu(next)' /\ Onward(call, next)
    BY NoOp, OpNames, <1>0, <1>7, <2>3
       DEF OpAt, Knows, HasItsMenu, Onward, BeforeSave, Ended, Imports, CategoryOps, Writers
  <2>5. QED BY <1>0, <1>1, <1>7, <2>1, <2>3, <2>4 DEF Moves
<1>8. CASE FailIngestion(c)
  <2>1. call.pc = "fail" /\ call.op = "upload" /\ call.pc \notin Ended
    BY <1>0, <1>8 DEF FailIngestion, OpAt, Ended
  <2>2. \/ mcall' = [mcall EXCEPT ![c] = At(call, "failed")]
        \/ /\ call.try < MaxAttempts
           /\ mcall' = [mcall EXCEPT ![c] = NextAttempt(call)]
    BY <1>0, <1>8 DEF FailIngestion, Afterwards
  <2>3. CASE mcall' = [mcall EXCEPT ![c] = At(call, "failed")]
    <3>1. MGoto(c, "failed")
      BY <1>0, <2>3 DEF MGoto
    <3>2. QED BY NoOp, OpNames, <1>0, <1>1, <2>1, <3>1, Ending DEF CatalogInv, Writers
  <2>4. QED BY <1>7, <2>1, <2>2, <2>3
<1>9. CASE InstanceDies(c)
  <2>1. call.pc \notin Ended /\ call.op # None
    BY <1>0, <1>9 DEF InstanceDies, OpAt, Ended
  <2>2. \/ mcall' = [mcall EXCEPT ![c] = At(call, "lost")]
        \/ /\ call.try < MaxAttempts /\ call.op = "upload"
           /\ mcall' = [mcall EXCEPT ![c] = NextAttempt(call)]
    BY <1>0, <1>9 DEF InstanceDies, Afterwards
  <2>3. CASE mcall' = [mcall EXCEPT ![c] = At(call, "lost")]
    <3>1. MGoto(c, "lost")
      BY <1>0, <2>3 DEF MGoto
    <3>2. QED BY <1>0, <1>1, <2>1, <3>1, Ending DEF CatalogInv
  <2>4. QED BY <1>7, <2>1, <2>2, <2>3
<1>10. QED BY <1>3, <1>4, <1>5, <1>6, <1>8, <1>9 DEF IngestionStep

-----------------------------------------------------------------------------
(* What becomes of the arrays.                                             *)

\* A snapshot is of the menu as it is, and is never changed.
LEMMA LocalsStep ==
    ASSUME CatalogInv, NEW c \in Calls, CatalogStep(c) \/ IngestionStep(c)
    PROVE  /\ mcall'[c].snap \in {None, products, mcall[c].snap}
           /\ mcall'[c].after = mcall[c].after
           /\ mcall'[c].try # mcall[c].try =>
                 IngestionStep(c) /\ mcall'[c] = NextAttempt(mcall[c])
<1>0. PICK call \in MenuCall : call = mcall[c]
  BY CallTypes DEF CatalogInv
<1> USE DEF CatalogInv, CatalogTypeOK
<1>1. ASSUME NEW q \in MenuCall, NEW pc \in MenuPc, q.after = call.after, q.try = call.try,
             mcall' = [mcall EXCEPT ![c] = At(q, pc)]
      PROVE  mcall'[c].snap \in {None, q.snap} /\ mcall'[c].after = mcall[c].after
             /\ mcall'[c].try = mcall[c].try
  <2>1. At(q, pc).after = q.after /\ At(q, pc).try = q.try
    BY AtKeeps
  <2>2. At(q, pc).snap \in {None, q.snap}
    BY DEF At, IdleCall, MenuCall
  <2>3. mcall'[c] = At(q, pc)
    BY <1>1
  <2>4. QED BY <1>0, <1>1, <2>1, <2>2, <2>3
<1>2. ASSUME NEW q \in MenuCall, q.after = call.after, q.try = call.try, q.snap = call.snap,
             mcall' = [mcall EXCEPT ![c] = Loaded(q)]
      PROVE  mcall'[c].snap \in {None, products, mcall[c].snap} /\ mcall'[c].after = mcall[c].after
             /\ mcall'[c].try = mcall[c].try
  BY <1>0, <1>2, LoadedKeeps
<1>3. ASSUME NEW pc \in MenuPc, MGoto(c, pc)
      PROVE  mcall'[c].snap \in {None, mcall[c].snap} /\ mcall'[c].after = mcall[c].after
             /\ mcall'[c].try = mcall[c].try
  BY <1>0, <1>1, <1>3 DEF MGoto
<1>4. ASSUME Refused(c)
      PROVE  mcall'[c].snap \in {None, mcall[c].snap} /\ mcall'[c].after = mcall[c].after
             /\ mcall'[c].try = mcall[c].try
  BY <1>3, <1>4 DEF Refused, MenuPc
<1>5. CASE CreateMenu(c)
  <2>1. PICK empty : empty = [call EXCEPT !.snap = NoProducts, !.ver = 0, !.made = TRUE]
    OBVIOUS
  <2>2. /\ empty \in MenuCall /\ empty.snap = NoProducts /\ empty.after = call.after
        /\ empty.try = call.try
    BY <2>1, CallTypes DEF MenuCall
  <2>3. PICK pc \in MenuPc : pc = AfterLoad(empty)
    BY DEF AfterLoad, MenuPc
  <2>4. Refused(c) \/ (~hasMenu /\ mcall' = [mcall EXCEPT ![c] = At(empty, pc)])
    BY <1>0, <1>5, <2>1, <2>3 DEF CreateMenu
  <2>5. ~hasMenu => products = NoProducts
    BY DEF Live, InArray, Arrays, NoProducts
  <2>6. QED BY <1>1, <1>4, <2>2, <2>4, <2>5
<1>6. CASE ReadCategories(c) \/ LookupCategory(c) \/ FindOrCreateCategory(c) \/ CommitImport(c)
  <2>1. CASE ReadCategories(c) \/ LookupCategory(c)
    BY <1>0, <2>1 DEF ReadCategories, LookupCategory, MenuCall
  <2>2. CASE FindOrCreateCategory(c)
    <3>1. \/ Refused(c) \/ mcall' = [mcall EXCEPT ![c].pc = "newCategory"]
          \/ \E k : mcall' = [mcall EXCEPT ![c].cat = k, ![c].pc = "save"]
      BY <1>0, <2>2, ImportCategorySteps
    <3>2. CASE mcall' = [mcall EXCEPT ![c].pc = "newCategory"]
      BY <1>0, <3>2 DEF MenuCall
    <3>3. CASE \E k : mcall' = [mcall EXCEPT ![c].cat = k, ![c].pc = "save"]
      BY <1>0, <3>3 DEF MenuCall
    <3>4. QED BY <1>4, <3>1, <3>2, <3>3
  <2>3. CASE CommitImport(c)
    BY <1>0, <2>3 DEF CommitImport, MenuCall
  <2>4. QED BY <1>6, <2>1, <2>2, <2>3
<1>7. CASE ReadProducts(c) \/ ParseFile(c)
  BY <1>0, <1>2, <1>7 DEF ReadProducts, ParseFile, Load
<1>8. CASE FillCache(c) \/ SaveInTransaction(c) \/ EnqueueVectorSync(c) \/ WriteCategory(c)
           \/ InvalidateMenuCache(c)
  <2>1. Refused(c) \/ \E pc \in MenuPc : MGoto(c, pc)
    BY <1>8 DEF FillCache, SaveInTransaction, EnqueueVectorSync, WriteCategory,
                InvalidateMenuCache, AfterEnqueue, AfterDel, MenuPc
  <2>2. QED BY <1>3, <1>4, <2>1
<1>9. CASE SaveMenu(c)
  BY <1>0, <1>4, <1>9 DEF SaveMenu, MenuCall
<1>10. CASE RetryTransaction(c)
  <2>1. PICK q : q = [call EXCEPT !.cat = None]
    OBVIOUS
  <2>2. q \in MenuCall /\ q.snap = call.snap /\ q.after = call.after /\ q.try = call.try
    BY <2>1 DEF MenuCall
  <2>3. QED BY <1>0, <1>2, <1>10, <2>1, <2>2 DEF RetryTransaction
<1>11. CASE ReadForCascade(c)
  <2>1. PICK q : q = [call EXCEPT !.snap = products, !.ver = version]
    OBVIOUS
  <2>2. q \in MenuCall /\ q.snap = products /\ q.after = call.after /\ q.try = call.try
    BY <2>1 DEF MenuCall
  <2>3. \E pc \in {"done", "save"} : mcall' = [mcall EXCEPT ![c] = At(q, pc)]
    BY <1>0, <1>11, <2>1 DEF ReadForCascade
  <2>4. QED BY <1>1, <2>2, <2>3 DEF MenuPc
<1>12. CASE EnqueueIngestion(c) \/ StartIngestion(c) \/ RecordSource(c) \/ InvalidateAgain(c)
            \/ CompleteIngestion(c) \/ IngestionThrows(c)
  <2>1. Refused(c) \/ \E pc \in MenuPc : MGoto(c, pc)
    BY <1>12 DEF EnqueueIngestion, StartIngestion, RecordSource, InvalidateAgain,
                 CompleteIngestion, IngestionThrows, MenuPc
  <2>2. QED BY <1>3, <1>4, <2>1
<1>13. CASE FailIngestion(c) \/ InstanceDies(c)
  <2>1. \/ \E pc \in {"failed", "lost"} : mcall' = [mcall EXCEPT ![c] = At(call, pc)]
        \/ mcall' = [mcall EXCEPT ![c] = NextAttempt(call)]
    BY <1>0, <1>13 DEF FailIngestion, InstanceDies, Afterwards
  <2>2. CASE mcall' = [mcall EXCEPT ![c] = NextAttempt(call)]
    <3>1. NextAttempt(call).snap = None /\ NextAttempt(call).after = call.after
      BY DEF NextAttempt, MenuCall
    <3>2. mcall'[c] = NextAttempt(call) /\ IngestionStep(c)
      BY <1>13, <2>2 DEF IngestionStep
    <3>3. QED BY <1>0, <3>1, <3>2
  <2>3. QED BY <1>0, <1>1, <2>1, <2>2 DEF MenuPc
<1>14. QED BY <1>5, <1>6, <1>7, <1>8, <1>9, <1>10, <1>11, <1>12, <1>13
           DEF CatalogStep, IngestionStep

\* A step of one request leaves the others as they are.
LEMMA OneMoves ==
    ASSUME CatalogInv, NEW c \in Calls, NEW next, Moves(c, next)
    PROVE  /\ mcall' \in [Calls -> MenuCall] /\ mcall'[c] = next
           /\ \A d \in Calls \ {c} : mcall'[d] = mcall[d]
           /\ CallsOk'
<1>1. /\ mcall' \in [Calls -> MenuCall] /\ mcall'[c] = next
      /\ \A d \in Calls \ {c} : mcall'[d] = mcall[d]
      /\ hasTx' = hasTx /\ (hasMenu => hasMenu')
      /\ OpAt(next) /\ Knows(next) /\ HasItsMenu(next)'
  BY DEF CatalogInv, CatalogTypeOK, Moves
<1>2. ASSUME NEW d \in Calls PROVE Fits(mcall[d])'
  <2>1. CASE d = c
    BY <1>1, <2>1 DEF Fits, HasItsMenu
  <2>2. CASE d # c
    BY <1>1, <2>2 DEF CatalogInv, CallsOk, Fits, HasItsMenu
  <2>3. QED BY <2>1, <2>2
<1>3. QED BY <1>1, <1>2 DEF CallsOk

\* What a save, alone or at the commit of its transaction, makes of the products.
LEMMA SavedProducts ==
    ASSUME CatalogInv, NEW c \in Calls, mcall[c].pc \in {"save", "commit"},
           NEW want \in Wanted(c), SaveArray(c, want)
    PROVE  /\ products' \in Arrays /\ version' \in Nat
           /\ \A d \in Calls \ {c} : Unsaved(d) => ~PricedBy(products, d)'
<1>0. mcall[c] \in MenuCall /\ mcall[c].snap \in Arrays
  BY CallTypes DEF CatalogInv, Knows, MenuCall
<1>1. /\ products' \in Arrays /\ version' \in Nat
      /\ \A id \in Ids : products'[id] # None =>
             \/ products[id] # None /\ products'[id].price = products[id].price
             \/ want[id] # None /\ want[id].price = products'[id].price
  BY <1>0, WantedArrays, SavedArray DEF CatalogInv, CatalogTypeOK
<1>2. ASSUME NEW d \in Calls \ {c}, Unsaved(d), NEW id \in Ids,
             products'[id] # None, products'[id].price = d
      PROVE  FALSE
  <2>1. ~PricedBy(products, d) /\ ~PricedBy(mcall[c].snap, d)
    BY <1>0, <1>2 DEF CatalogInv, PricesPast
  <2>2. want[id] # None /\ want[id].price = d
    BY <1>1, <1>2, <2>1 DEF PricedBy
  <2>3. mcall[c].snap[id] # None /\ want[id].price = mcall[c].snap[id].price
    BY <1>2, <2>2, WantedPrices DEF CatalogInv
  <2>4. QED BY <2>1, <2>2, <2>3 DEF PricedBy
<1>3. QED BY <1>1, <1>2 DEF PricedBy

\* Only a save changes the array.
LEMMA OnlySaves ==
    ASSUME CatalogInv, NEW c \in Calls,
           CatalogStep(c) \/ IngestionStep(c) \/ BeginCatalogCall(c)
              \/ \E f \in Files : UploadMenu(c, f[1], f[2])
    PROVE  \/ products' = products /\ version' = version /\ renamed \subseteq renamed'
           \/ /\ SaveMenu(c) \/ CommitImport(c)
              /\ hasMenu'
              /\ mcall'[c].snap = None
              /\ \/ /\ mcall[c].pc = "save" /\ mcall'[c].pc = "enqueue" /\ ~InTransaction(c)
                    /\ mcall[c].op = "update" /\ mcall[c].name # None => mcall[c].id \in renamed'
                 \/ /\ mcall[c].pc = "commit" /\ mcall'[c].pc = "del"
              /\ renamed \subseteq renamed'
              /\ \E want \in Wanted(c) : SaveArray(c, want)
<1>1. CASE SaveMenu(c)
  <2>1. mcall[c] \in MenuCall /\ mcall \in [Calls -> MenuCall]
    BY CallTypes DEF CatalogInv, CatalogTypeOK
  <2>2. CASE \E want \in Wanted(c) : Refused(c) /\ UNCHANGED <<products, version, renamed>>
    BY <2>2
  <2>3. CASE \E want \in Wanted(c) :
               /\ SaveArray(c, want)
               /\ mcall' = [mcall EXCEPT ![c].pc = "enqueue", ![c].snap = None, ![c].ver = 0,
                    ![c].id = IF mcall[c].op = "add" THEN CHOOSE id \in Touched(c, want) : TRUE
                                                     ELSE mcall[c].id]
               /\ renamed' = IF mcall[c].op = "update" /\ mcall[c].name # None
                             THEN renamed \cup {mcall[c].id} ELSE renamed
    <3>1. mcall'[c].pc = "enqueue" /\ mcall'[c].snap = None
      BY <2>1, <2>3 DEF MenuCall
    <3>2. mcall[c].pc = "save" /\ ~InTransaction(c) /\ hasMenu' = hasMenu
      BY <1>1 DEF SaveMenu
    <3>3. hasMenu
      BY <3>2, CallTypes DEF CatalogInv, HasItsMenu, InTransaction
    <3>4. /\ renamed \subseteq renamed'
          /\ mcall[c].op = "update" /\ mcall[c].name # None => mcall[c].id \in renamed'
      BY <2>3
    <3>5. QED BY <1>1, <2>3, <3>1, <3>2, <3>3, <3>4
  <2>4. QED BY <1>1, <2>2, <2>3 DEF SaveMenu
<1>2. CASE CommitImport(c)
  <2>1. mcall[c] \in MenuCall /\ mcall \in [Calls -> MenuCall]
    BY CallTypes DEF CatalogInv, CatalogTypeOK
  <2>2. mcall'[c].pc = "del" /\ mcall'[c].snap = None
    BY <1>2, <2>1 DEF CommitImport, MenuCall
  <2>3. QED BY <1>2, <2>2 DEF CommitImport
<1>3. CASE CatalogStep(c) /\ ~SaveMenu(c) /\ ~CommitImport(c)
  BY <1>3 DEF CatalogStep, CreateMenu, ReadCategories, ReadProducts, FillCache, LookupCategory,
       FindOrCreateCategory, FindImportCategory, CreateImportCategory,
       SaveInTransaction, RetryTransaction, EnqueueVectorSync,
       WriteCategory, InvalidateMenuCache, ReadForCascade, Load, menuVars
<1>4. CASE IngestionStep(c)
  BY <1>4 DEF IngestionStep, EnqueueIngestion, StartIngestion, ParseFile, RecordSource,
       InvalidateAgain, CompleteIngestion, IngestionThrows, FailIngestion, InstanceDies, Load,
       InCatalog, menuVars
<1>5. CASE BeginCatalogCall(c) \/ \E f \in Files : UploadMenu(c, f[1], f[2])
  BY <1>5 DEF BeginCatalogCall, UploadMenu, GetCached, WriteVariant, CreateCategory, FindCategory,
       ImportMenu, DeleteCategory, AddProduct, UpdateProduct, RemoveProduct, Load, InCatalog,
       menuVars
<1>6. QED BY <1>1, <1>2, <1>3, <1>4, <1>5

\* What the other variables of the catalog are after a step.
LEMMA CatalogVariables ==
    ASSUME CatalogInv, NEW c \in Calls,
           CatalogStep(c) \/ IngestionStep(c) \/ BeginCatalogCall(c)
              \/ \E f \in Files : UploadMenu(c, f[1], f[2])
    PROVE  /\ catName' \in Naming
           /\ cache' \in [cats: Naming, products: Arrays, by: Calls] \cup {None}
           /\ jobs' = jobs \/ (EnqueueVectorSync(c) /\ jobs' = jobs \cup {JobOf(c)})
           /\ faults' \in 0 .. MaxFaults /\ unsynced' \subseteq Calls /\ renamed' \subseteq Ids
<1>0. PICK call \in MenuCall : call = mcall[c] /\ OpAt(call) /\ Knows(call)
  BY CallTypes DEF CatalogInv
<1>a. /\ catName \in Naming /\ faults \in 0 .. MaxFaults /\ unsynced \subseteq Calls
      /\ renamed \subseteq Ids
      /\ cache \in [cats: Naming, products: Arrays, by: Calls] \cup {None}
  BY DEF CatalogInv, CatalogTypeOK
<1>b. \A k \in Categories, g \in CategoryNames \cup {None} : [catName EXCEPT ![k] = g] \in Naming
  BY <1>a DEF Naming
<1>c. <<c, 1>> \in Categories /\ <<c, call.try>> \in Categories
  BY DEF Categories, Attempts, MenuCall
<1>1. CASE CreateMenu(c) \/ ReadCategories(c) \/ ReadProducts(c) \/ LookupCategory(c)
           \/ SaveInTransaction(c) \/ ReadForCascade(c)
  BY <1>1, <1>a DEF CreateMenu, ReadCategories, ReadProducts, LookupCategory,
       SaveInTransaction, ReadForCascade, Load
<1>2. CASE FillCache(c)
  <2>1. call.snap \in Arrays /\ call.cats \in Naming
    BY <1>0, <1>2 DEF FillCache, OpAt, Knows, Ended, MenuCall
  <2>2. cache' = [cats |-> call.cats, products |-> call.snap, by |-> c]
    BY <1>0, <1>2 DEF FillCache
  <2>3. cache' \in [cats: Naming, products: Arrays, by: Calls]
    BY <2>1, <2>2
  <2>4. QED BY <1>2, <1>a, <2>3 DEF FillCache
<1>3. CASE FindOrCreateCategory(c)
  <2>1. /\ call.pc \in {"category", "newCategory"}
        /\ UNCHANGED <<cache, jobs, unsynced, faults, renamed>>
        /\ catName' \in {catName, [catName EXCEPT ![<<c, call.try>>] = call.label]}
    BY <1>0, <1>3, ImportCategorySteps
  <2>2. call.label \in CategoryNames
    BY <1>0, <2>1 DEF Knows, OpAt, Ended
  <2>3. QED BY <1>a, <1>b, <1>c, <2>1, <2>2
<1>4. CASE SaveMenu(c)
  <2>1. call.op = "update" => call.id \in Ids
    BY <1>0 DEF Knows
  <2>2. renamed' \in {renamed, renamed \cup {call.id}} /\ (renamed' = renamed \/ call.op = "update")
    BY <1>0, <1>4 DEF SaveMenu
  <2>3. QED BY <1>4, <1>a, <2>1, <2>2 DEF SaveMenu
<1>5. CASE CommitImport(c)
  <2>1. call.label \in CategoryNames
    BY <1>0, <1>5 DEF CommitImport, Knows, OpAt, Ended
  <2>2. QED BY <1>0, <1>5, <1>a, <1>b, <1>c, <2>1 DEF CommitImport
<1>6. CASE RetryTransaction(c)
  BY <1>6, <1>a DEF RetryTransaction
<1>7. CASE EnqueueVectorSync(c)
  BY <1>7, <1>a DEF EnqueueVectorSync
<1>8. CASE WriteCategory(c)
  <2>1. call.name \in CategoryNames /\ call.cat \in Categories
    BY <1>0, <1>8 DEF WriteCategory, Knows, OpAt, Ended, CategoryOps
  <2>2. QED BY <1>0, <1>8, <1>a, <1>b, <2>1 DEF WriteCategory
<1>9. CASE InvalidateMenuCache(c)
  BY <1>9, <1>a DEF InvalidateMenuCache
<1>10. CASE IngestionStep(c)
  BY <1>10, <1>a DEF IngestionStep, EnqueueIngestion, StartIngestion, ParseFile, RecordSource,
       InvalidateAgain, CompleteIngestion, IngestionThrows, FailIngestion, InstanceDies, Load,
       InCatalog
<1>11. CASE BeginCatalogCall(c) \/ \E f \in Files : UploadMenu(c, f[1], f[2])
  <2>1. \/ UNCHANGED <<catName, cache, jobs, unsynced, faults, renamed>>
        \/ \E g \in CategoryNames : CreateCategory(c, g)
        \/ \E k \in Categories : DeleteCategory(c, k)
    BY <1>11 DEF BeginCatalogCall, UploadMenu, GetCached, WriteVariant, FindCategory,
       ImportMenu, AddProduct, UpdateProduct, RemoveProduct, Load, InCatalog
  <2>2. CASE \E g \in CategoryNames : CreateCategory(c, g)
    BY <1>a, <1>b, <1>c, <2>2 DEF CreateCategory
  <2>3. CASE \E k \in Categories : DeleteCategory(c, k)
    <3>1. PICK k \in Categories : DeleteCategory(c, k)
      BY <2>3
    <3>2. catName' = [catName EXCEPT ![k] = None]
      BY <3>1 DEF DeleteCategory
    <3>3. catName' \in Naming
      BY <1>b, <3>2
    <3>4. QED BY <1>a, <3>1, <3>3 DEF DeleteCategory
  <2>4. QED BY SMTT(30), <1>a, <2>1, <2>2, <2>3
<1>12. QED BY <1>1, <1>2, <1>3, <1>4, <1>5, <1>6, <1>7, <1>8, <1>9, <1>10, <1>11 DEF CatalogStep

\* A move keeps the types, the locals of requests and the prices.
LEMMA CatalogInvOfMoves ==
    ASSUME CatalogInv, NEW c \in Calls,
           CatalogStep(c) \/ IngestionStep(c) \/ BeginCatalogCall(c)
              \/ \E f \in Files : UploadMenu(c, f[1], f[2])
    PROVE  CatalogInv' /\ \E next : Moves(c, next)
<1>1. PICK next : Moves(c, next)
  BY CatalogMoves, IngestionMoves, BeginMoves
<1>2. /\ mcall' \in [Calls -> MenuCall] /\ mcall'[c] = next
      /\ \A d \in Calls \ {c} : mcall'[d] = mcall[d]
      /\ CallsOk'
      /\ hasTx' = hasTx /\ (hasMenu => hasMenu')
  BY <1>1, OneMoves DEF Moves
<1>3. /\ products' \in Arrays /\ version' \in Nat
      /\ \/ products' = products
         \/ hasMenu' /\ mcall[c].pc \in {"save", "commit"} /\ mcall'[c].pc \in {"enqueue", "del"}
      /\ \A d \in Calls \ {c} : Unsaved(d) => ~PricedBy(products, d)'
  <2>1. CASE products' = products /\ version' = version
    BY <2>1 DEF CatalogInv, CatalogTypeOK, PricesPast, PricedBy
  <2>2. CASE ~(products' = products /\ version' = version)
    <3>1. /\ hasMenu' /\ mcall[c].pc \in {"save", "commit"} /\ mcall'[c].pc \in {"enqueue", "del"}
          /\ \E want \in Wanted(c) : SaveArray(c, want)
      BY <2>2, OnlySaves
    <3>2. QED BY <3>1, SavedProducts
  <2>3. QED BY <2>1, <2>2
<1>4. hasMenu' \in BOOLEAN
  <2>1. hasMenu' \in {hasMenu, TRUE, hasMenu \/ ~InTransaction(c)}
    BY DEF CatalogStep, CreateMenu, ReadCategories, ReadProducts, FillCache, LookupCategory,
       FindOrCreateCategory, FindImportCategory, CreateImportCategory,
       SaveMenu, SaveInTransaction, CommitImport, RetryTransaction,
       EnqueueVectorSync, WriteCategory, InvalidateMenuCache, ReadForCascade, Load, menuVars,
       IngestionStep, EnqueueIngestion, StartIngestion, ParseFile, RecordSource,
       InvalidateAgain, CompleteIngestion, IngestionThrows, FailIngestion, InstanceDies,
       InCatalog, BeginCatalogCall, UploadMenu, GetCached, WriteVariant, CreateCategory,
       FindCategory, ImportMenu, DeleteCategory, AddProduct, UpdateProduct, RemoveProduct
  <2>2. QED BY <2>1 DEF CatalogInv, CatalogTypeOK, InTransaction
<1>5. ~hasMenu' => Live' = {}
  <2>1. CASE ~hasMenu'
    BY <1>2, <1>3, <2>1 DEF CatalogInv, CatalogTypeOK, Live, InArray
  <2>2. QED BY <2>1
<1>6. JobOf(c) \in Jobs
  BY DEF JobOf, Jobs
<1>7. CatalogTypeOK'
  <2>1. jobs' \subseteq Jobs
    BY <1>6, CatalogVariables DEF CatalogInv, CatalogTypeOK
  <2>2. hasTx' \in Deployments
    BY <1>2 DEF CatalogInv, CatalogTypeOK
  <2>3. QED BY <1>2, <1>3, <1>4, <1>5, <2>1, <2>2, CatalogVariables DEF CatalogTypeOK
<1>8. PricesPast'
  <2>1. ASSUME NEW e \in Calls, Unsaved(e)' PROVE Unsaved(e)
    <3>1. CASE e = c
      <4>1. Onward(mcall[c], next) /\ mcall[c] \in MenuCall /\ OpAt(mcall[c])
        BY <1>1, CallTypes DEF Moves, CatalogInv
      <4>2. next.op \in {None, "add"} /\ next.pc \in BeforeSave
        BY <1>2, <2>1, <3>1 DEF Unsaved
      <4>3. mcall[c].op = None => mcall[c].pc = "idle"
        BY <4>1 DEF OpAt
      <4>4. QED BY <3>1, <4>1, <4>2, <4>3 DEF Unsaved, Onward, BeforeSave
    <3>2. CASE e # c
      BY <1>2, <2>1, <3>2 DEF Unsaved
    <3>3. QED BY <3>1, <3>2
  <2>2. mcall'[c].snap \in {None, products, mcall[c].snap}
    <3>1. CASE CatalogStep(c) \/ IngestionStep(c)
      BY <3>1, LocalsStep
    <3>2. CASE BeginCatalogCall(c) \/ \E f \in Files : UploadMenu(c, f[1], f[2])
      <4>1. PICK n : Moves(c, n) /\ n.snap \in {None, products}
        BY <3>2, BeginMoves DEF Begun
      <4>2. mcall'[c] = n
        BY <4>1, OneMoves
      <4>3. QED BY <4>1, <4>2
    <3>3. QED BY <3>1, <3>2
  <2>3. ASSUME NEW e \in Calls, Unsaved(e)'
        PROVE  /\ ~PricedBy(products, e)'
               /\ \A d \in Calls : mcall'[d].snap # None => ~PricedBy(mcall[d].snap, e)'
    <3>1. Unsaved(e)
      BY <2>1, <2>3
    <3>2. ~PricedBy(products, e)
      BY <3>1 DEF CatalogInv, PricesPast
    <3>3. ~PricedBy(products, e)'
      <4>1. CASE e = c
        <5>1. mcall'[c].pc \notin {"enqueue", "del"}
          BY <2>3, <4>1 DEF Unsaved, BeforeSave
        <5>2. QED BY <1>3, <3>2, <5>1 DEF PricedBy
      <4>2. CASE e # c
        BY <1>3, <3>1, <4>2
      <4>3. QED BY <4>1, <4>2
    <3>4. ASSUME NEW d \in Calls, mcall'[d].snap # None
          PROVE  ~PricedBy(mcall[d].snap, e)'
      <4>1. CASE d = c
        <5>1. \A arr \in {products, mcall[c].snap} : arr # None => ~PricedBy(arr, e)
          BY <3>1, <3>2 DEF CatalogInv, PricesPast
        <5>2. QED BY <2>2, <3>4, <4>1, <5>1 DEF PricedBy
      <4>2. CASE d # c
        BY <1>2, <3>1, <3>4, <4>2 DEF CatalogInv, PricesPast, PricedBy
      <4>3. QED BY <4>1, <4>2
    <3>5. QED BY <3>3, <3>4
  <2>4. QED BY <2>3 DEF PricesPast
<1>9. QED BY <1>1, <1>2, <1>7, <1>8 DEF CatalogInv

-----------------------------------------------------------------------------
(* The whole invariant: initial states, deliveries of jobs, requests.      *)

\* The first state has the invariant.
LEMMA InitialStates == Init => MenuInv
<1> SUFFICES ASSUME Init PROVE MenuInv
  OBVIOUS
<1> USE DEF Init, CatalogInit, VectorInit
<1>1. /\ IdleCall \in MenuCall /\ IdleCall.op = None /\ IdleCall.pc = "idle"
      /\ IdleCall.snap = None /\ IdleCall.try = 1
  BY DEF IdleCall, MenuCall, Attempts, MenuPc
<1>2. \A id \in Ids : products[id] \in Product \cup {None}
  <2>1. \A id \in OldProducts : OldMenu[id] \in Product
    OBVIOUS
  <2>2. QED BY <2>1
<1>3. products \in Arrays /\ catName \in Naming
  <2>1. products \in Arrays
    BY <1>2 DEF Arrays
  <2>2. catName \in Naming
    BY DEF Naming
  <2>3. QED BY <2>1, <2>2
<1>4. CatalogTypeOK
  <2>1. ~hasMenu => Live = {}
    BY DEF Live, InArray
  <2>2. QED BY <1>1, <1>3, <2>1 DEF CatalogTypeOK
<1>5. CallsOk
  BY NoOp, OpNames, <1>1 DEF CallsOk, Fits, OpAt, Knows, HasItsMenu, Ended, Writers
<1>6. PricesPast
  <2>1. \A id \in Ids : products[id] # None => products[id].price = None
    OBVIOUS
  <2>2. \A c \in Calls : mcall[c].snap = None
    BY <1>1
  <2>3. \A c \in Calls : ~PricedBy(products, c)
    BY <2>1 DEF PricedBy
  <2>4. QED BY <2>2, <2>3 DEF PricesPast
<1>7. DeliveriesInv
  <2>1. VectorTypeOK
    BY <1>3 DEF VectorTypeOK, Delivery, NoWork, WorkPc
  <2>2. \A c \in Calls : WorkOk(c)
    BY DEF WorkOk, NoWork
  <2>3. QED BY <2>1, <2>2 DEF DeliveriesInv
<1>8. UploadsInv
  <2>1. \A c \in Calls : mcall[c].op # "upload" /\ mcall[c].try = 1
    BY NoOp, OpNames, <1>1
  <2>2. QED BY <2>1, UploadAssumption DEF UploadsInv, UploadOk, Statuses
<1>9. QED BY <1>4, <1>5, <1>6, <1>7, <1>8 DEF MenuInv, CatalogInv

\* A delivery leaves requests and products as they are.
LEMMA CatalogOfDeliveries ==
    ASSUME CatalogInv, VectorTypeOK, \A c \in Calls : WorkOk(c), VectorNext
    PROVE  CatalogInv' /\ mcall' = mcall /\ products' = products /\ hasMenu' = hasMenu
<1>1. /\ UNCHANGED <<menuVars, catName, cache, mcall, unsynced, renamed>>
      /\ faults' = faults \/ (faults < MaxFaults /\ faults' = faults + 1)
  <2>1. CASE \E j \in jobs : TakeJob(j)
    BY <2>1 DEF TakeJob
  <2>2. CASE \E c \in Calls : ResetNamespace(c) \/ ReadMenu(c) \/ WriteVectors(c) \/ DeleteVector(c)
    BY <2>2 DEF ResetNamespace, ReadMenu, WriteVectors, DeleteVector, catalogVars
  <2>3. CASE \E c \in Calls : JobFails(c)
    BY <2>3 DEF JobFails
  <2>4. QED BY <2>1, <2>2, <2>3 DEF VectorNext
<1>2. jobs' \subseteq Jobs
  <2>1. ASSUME NEW c \in Calls, work[c].pc \in {"write", "delete"}
        PROVE  [by |-> c, op |-> work[c].op] \in Jobs
    BY <2>1 DEF WorkOk, JobOf, Jobs
  <2>2. \/ jobs' \subseteq jobs
        \/ \E c \in Calls : /\ work[c].pc \in {"write", "delete"}
                            /\ jobs' = jobs \cup {[by |-> c, op |-> work[c].op]}
    BY DEF VectorNext, TakeJob, ResetNamespace, ReadMenu, WriteVectors, DeleteVector, JobFails,
           catalogVars
  <2>3. QED BY <2>1, <2>2 DEF CatalogInv, CatalogTypeOK
<1>3. faults' \in 0 .. MaxFaults
  BY <1>1 DEF CatalogInv, CatalogTypeOK
<1>4. CatalogTypeOK'
  BY <1>1, <1>2, <1>3 DEF CatalogInv, CatalogTypeOK, Live, InArray, menuVars
<1>5. CallsOk'
  BY <1>1 DEF CatalogInv, CallsOk, Fits, HasItsMenu, menuVars
<1>6. PricesPast'
  BY <1>1 DEF CatalogInv, PricesPast, Unsaved, PricedBy, menuVars
<1>7. QED BY <1>1, <1>4, <1>5, <1>6 DEF CatalogInv, menuVars

\* A step of a delivery keeps what is known of jobs and deliveries.
LEMMA DeliveriesOfDeliveries ==
    ASSUME CatalogInv, DeliveriesInv, VectorNext
    PROVE  DeliveriesInv'
<1>1. CatalogInv' /\ mcall' = mcall /\ products' = products
  BY CatalogOfDeliveries DEF DeliveriesInv
<1>2. \A c \in Calls : Jobbed(c)' = Jobbed(c) /\ JobOf(c)' = JobOf(c)
  BY <1>1 DEF Jobbed, JobOf
<1>3. /\ work \in [Calls -> Delivery] /\ vec \in Arrays /\ products \in Arrays
      /\ NoProducts \in Arrays
      /\ crossed \in BOOLEAN /\ early \subseteq Calls /\ dropped \subseteq Calls
      /\ jobs \subseteq Jobs
  BY DEF DeliveriesInv, VectorTypeOK, CatalogInv, CatalogTypeOK, NoProducts, Arrays
<1>4. NoWork \in Delivery /\ NoWork.pc = "idle"
  BY DEF NoWork, Delivery, WorkPc
<1>5. ASSUME NEW c \in Calls, NEW w \in Delivery, work' = [work EXCEPT ![c] = w],
             WorkOk(c)', jobs' \subseteq jobs \cup {JobOf(c)}, Jobbed(c) \/ jobs' \subseteq jobs,
             vec' \in Arrays, crossed' \in BOOLEAN, early' \subseteq Calls, dropped' \subseteq Calls
      PROVE  DeliveriesInv'
  <2>1. \A d \in Calls \ {c} : WorkOk(d)'
    BY <1>1, <1>2, <1>3, <1>5 DEF DeliveriesInv, WorkOk
  <2>2. \A j \in jobs' : Jobbed(j.by)' /\ j = JobOf(j.by)'
    <3>1. ASSUME NEW j \in jobs PROVE j.by \in Calls /\ Jobbed(j.by) /\ j = JobOf(j.by)
      BY <1>3 DEF DeliveriesInv, Jobs
    <3>2. JobOf(c).by = c
      BY DEF JobOf
    <3>3. QED BY <1>2, <1>5, <3>1, <3>2
  <2>3. VectorTypeOK'
    BY <1>3, <1>5 DEF VectorTypeOK
  <2>4. QED BY <1>5, <2>1, <2>2, <2>3 DEF DeliveriesInv
<1>6. ASSUME NEW j \in jobs, TakeJob(j) PROVE DeliveriesInv'
  <2>1. PICK c \in Calls : c = j.by
    BY <1>3 DEF Jobs
  <2>2. Jobbed(c) /\ j = JobOf(c) /\ j.op \in {"upsert", "delete", "rebuild"}
    BY <2>1, <1>3 DEF DeliveriesInv, Jobs
  <2>3. PICK w \in Delivery :
          /\ work' = [work EXCEPT ![c] = w] /\ w.op = j.op
          /\ w.pc = CASE j.op = "rebuild" -> "reset"
                      [] j.op = "upsert"  -> "read"
                      [] j.op = "delete"  -> "delete"
    <3>1. PICK pc \in {"reset", "read", "delete"} :
             pc = CASE j.op = "rebuild" -> "reset"
                    [] j.op = "upsert"  -> "read"
                    [] j.op = "delete"  -> "delete"
      BY <2>2
    <3>2. PICK w : w = [NoWork EXCEPT !.op = j.op, !.pc = pc]
      OBVIOUS
    <3>3. w \in Delivery /\ w.op = j.op /\ w.pc = pc
      BY <2>2, <3>2 DEF NoWork, Delivery, WorkPc
    <3>4. QED BY <1>6, <2>1, <3>1, <3>2, <3>3 DEF TakeJob
  <2>4. WorkOk(c)'
    BY <1>2, <1>3, <2>2, <2>3 DEF WorkOk
  <2>5. /\ jobs' \subseteq jobs /\ UNCHANGED <<vec, early, dropped>>
        /\ crossed' \in BOOLEAN
    BY <1>3, <1>6 DEF TakeJob
  <2>6. QED BY <1>3, <1>5, <2>3, <2>4, <2>5
<1>7. ASSUME NEW c \in Calls, ResetNamespace(c) PROVE DeliveriesInv'
  <2>1. PICK w : w = [work[c] EXCEPT !.pc = "read"]
    OBVIOUS
  <2>2. w \in Delivery /\ w.pc = "read" /\ w.op = work[c].op
    BY <1>3, <2>1 DEF Delivery, WorkPc
  <2>3. /\ work' = [work EXCEPT ![c] = w] /\ jobs' = jobs /\ vec' = NoProducts
        /\ UNCHANGED <<crossed, early, dropped>> /\ work[c].pc = "reset"
    BY <1>7, <2>1 DEF ResetNamespace, WorkGoto, catalogVars
  <2>4. WorkOk(c)'
    BY <1>2, <1>3, <2>2, <2>3 DEF WorkOk, DeliveriesInv
  <2>5. QED BY <1>3, <1>5, <2>2, <2>3, <2>4
<1>8. ASSUME NEW c \in Calls, ReadMenu(c) PROVE DeliveriesInv'
  <2>1. /\ jobs' = jobs /\ vec' = vec /\ crossed' = crossed /\ dropped' = dropped
        /\ early' \subseteq Calls /\ work[c].pc = "read"
    BY <1>3, <1>8 DEF ReadMenu, catalogVars
  <2>2. WorkOk(c) /\ work[c] \in Delivery
    BY <1>3 DEF DeliveriesInv
  <2>3. CASE work' = [work EXCEPT ![c] = NoWork]
    <3>1. WorkOk(c)'
      BY <1>3, <1>4, <2>3 DEF WorkOk
    <3>2. QED BY <1>3, <1>4, <1>5, <2>1, <2>3, <3>1
  <2>4. CASE work' # [work EXCEPT ![c] = NoWork]
    <3>1. PICK arr : arr = [i \in Ids |-> IF work[c].op = "rebuild" \/ i = mcall[c].id
                                          THEN products[i] ELSE None]
      OBVIOUS
    <3>2. arr \in Arrays
      BY <1>3, <3>1 DEF Arrays
    <3>3. PICK pc \in {"write", "delete"} :
            /\ work' = [work EXCEPT ![c] = [@ EXCEPT !.read = arr, !.pc = pc]]
            /\ work[c].op = "rebuild" => pc = "write"
            /\ work[c].op # "rebuild" /\ pc = "write" => products[mcall[c].id] # None
      BY <1>8, <2>4, <3>1 DEF ReadMenu
    <3>4. PICK w : w = [work[c] EXCEPT !.read = arr, !.pc = pc]
      OBVIOUS
    <3>5. w \in Delivery /\ w.pc = pc /\ w.op = work[c].op /\ w.read = arr
      BY <2>2, <3>2, <3>4 DEF Delivery, WorkPc
    <3>6. work' = [work EXCEPT ![c] = w]
      BY <3>3, <3>4
    <3>7. arr # None
      BY <3>2
    <3>8. work[c].op # "rebuild" => mcall[c].id \in Ids
      <4>1. Jobbed(c) /\ work[c].op = JobOf(c).op
        BY <2>1, <2>2 DEF WorkOk
      <4>2. QED BY <4>1 DEF Jobbed, JobOf, Writers
    <3>9. WorkOk(c)'
      BY <1>1, <1>2, <1>3, <2>1, <2>2, <3>1, <3>3, <3>5, <3>6, <3>7, <3>8 DEF WorkOk
    <3>10. QED BY <1>3, <1>5, <2>1, <3>5, <3>6, <3>9
  <2>5. QED BY <2>3, <2>4
<1>9. ASSUME NEW c \in Calls, WriteVectors(c) \/ DeleteVector(c) PROVE DeliveriesInv'
  <2>1. /\ jobs' = jobs /\ UNCHANGED <<crossed, early, dropped>>
        /\ work' = [work EXCEPT ![c] = NoWork]
    BY <1>9 DEF WriteVectors, DeleteVector, catalogVars
  <2>2. WorkOk(c)'
    BY <1>3, <1>4, <2>1 DEF WorkOk
  <2>3. WorkOk(c) /\ work[c] \in Delivery
    BY <1>3 DEF DeliveriesInv
  <2>4. vec' \in Arrays
    <3>1. CASE DeleteVector(c)
      BY <1>3, <3>1 DEF DeleteVector, Arrays
    <3>2. CASE WriteVectors(c)
      <4>1. work[c].read \in Arrays
        BY <2>3, <3>2 DEF WriteVectors, WorkOk, Delivery
      <4>2. PICK read \in Arrays : read = work[c].read
        BY <4>1
      <4>3. \/ vec' = [id \in Ids |-> IF read[id] # None THEN read[id] ELSE vec[id]]
            \/ vec' = [vec EXCEPT ![mcall[c].id] = read[mcall[c].id]]
        BY <3>2, <4>2 DEF WriteVectors
      <4>4. QED BY <1>3, <4>3 DEF Arrays
    <3>3. QED BY <1>9, <3>1, <3>2
  <2>5. QED BY <1>3, <1>4, <1>5, <2>1, <2>2, <2>4
<1>10. ASSUME NEW c \in Calls, JobFails(c) PROVE DeliveriesInv'
  <2>1. /\ work' = [work EXCEPT ![c] = NoWork] /\ UNCHANGED <<vec, crossed, early>>
        /\ dropped' \subseteq Calls
        /\ jobs' \subseteq jobs \cup {[by |-> c, op |-> work[c].op]}
        /\ work[c].pc # "idle"
    BY <1>3, <1>10 DEF JobFails
  <2>2. WorkOk(c)'
    BY <1>3, <1>4, <2>1 DEF WorkOk
  <2>3. Jobbed(c) /\ work[c].op = JobOf(c).op
    BY <2>1 DEF DeliveriesInv, WorkOk
  <2>4. [by |-> c, op |-> work[c].op] = JobOf(c)
    BY <2>3 DEF JobOf
  <2>5. QED BY <1>3, <1>4, <1>5, <2>1, <2>2, <2>3, <2>4
<1>11. QED BY <1>6, <1>7, <1>8, <1>9, <1>10 DEF VectorNext

\* A job goes on naming its product.
LEMMA JobbedOn ==
    ASSUME CatalogInv, NEW c \in Calls,
           CatalogStep(c) \/ IngestionStep(c) \/ BeginCatalogCall(c)
              \/ \E f \in Files : UploadMenu(c, f[1], f[2]),
           NEW d \in Calls, Jobbed(d)
    PROVE  /\ Jobbed(d)' /\ JobOf(d)' = JobOf(d) /\ mcall'[d].op = mcall[d].op
           /\ mcall[d].op \in Writers => mcall'[d].id = mcall[d].id
<1>1. PICK next : Moves(c, next)
  BY CatalogInvOfMoves
<1>2. /\ mcall'[c] = next /\ Onward(mcall[c], next)
      /\ \A e \in Calls \ {c} : mcall'[e] = mcall[e]
  BY <1>1, OneMoves DEF Moves
<1>3. mcall[d].op # None
  BY NoOp, OpNames DEF Jobbed
<1>4. CASE d = c
  BY <1>2, <1>3, <1>4 DEF Jobbed, JobOf, Onward
<1>5. CASE d # c
  BY <1>2, <1>5 DEF Jobbed, JobOf
<1>6. QED BY <1>4, <1>5

\* A job is enqueued by a request that saved, and goes on naming its product.
LEMMA DeliveriesOfRequests ==
    ASSUME CatalogInv, DeliveriesInv, NEW c \in Calls, UNCHANGED vectorVars,
           CatalogStep(c) \/ IngestionStep(c) \/ BeginCatalogCall(c)
              \/ \E f \in Files : UploadMenu(c, f[1], f[2])
    PROVE  DeliveriesInv'
<1>1. CatalogInv' /\ \E next : Moves(c, next)
  BY CatalogInvOfMoves
<1>2. PICK next : Moves(c, next)
  BY <1>1
<1>3. /\ mcall[c] \in MenuCall /\ OpAt(mcall[c]) /\ Knows(mcall[c])
      /\ mcall'[c] = next /\ Onward(mcall[c], next)
      /\ \A d \in Calls \ {c} : mcall'[d] = mcall[d]
  BY <1>2, CallTypes, OneMoves DEF CatalogInv, Moves
<1>4. ASSUME NEW d \in Calls, Jobbed(d)
      PROVE  /\ Jobbed(d)' /\ JobOf(d)' = JobOf(d)
             /\ mcall[d].op \in Writers => mcall'[d].id = mcall[d].id
  BY <1>4, JobbedOn
<1>5. ASSUME EnqueueVectorSync(c) PROVE Jobbed(c)' /\ JobOf(c)' = JobOf(c)
  <2>1. mcall[c].pc = "enqueue" /\ mcall[c].op \in Writers \cup Imports \cup CategoryOps
    BY <1>3, <1>5 DEF EnqueueVectorSync, OpAt
  <2>2. next.op = mcall[c].op
    BY NoOp, OpNames, <1>3, <2>1 DEF Onward
  <2>3. CASE mcall[c].op \in Writers
    <3>1. mcall[c].id \in Ids
      BY <1>3, <2>1, <2>3 DEF Knows, Writers
    <3>2. AfterEnqueue(c) = "del"
      BY <2>3 DEF AfterEnqueue, InTransaction, Writers, Imports, CategoryOps
    <3>3. mcall' = [mcall EXCEPT ![c] = At(mcall[c], "del")] /\ "del" \in MenuPc
      BY <1>5, <3>2 DEF EnqueueVectorSync, MGoto, MenuPc
    <3>4. At(mcall[c], "del").pc = "del" /\ At(mcall[c], "del").id = mcall[c].id
      BY <1>3, <3>3, AtKeeps
    <3>5. next.pc = "del" /\ next.id = mcall[c].id
      BY <1>3, <3>3, <3>4 DEF CatalogInv, CatalogTypeOK
    <3>6. QED BY <1>3, <2>2, <2>3, <3>1, <3>5 DEF Jobbed, JobOf
  <2>4. CASE mcall[c].op \notin Writers
    BY <1>3, <2>1, <2>2, <2>4 DEF Jobbed, JobOf
  <2>5. QED BY <2>3, <2>4
<1>6. ASSUME NEW j \in jobs' PROVE Jobbed(j.by)' /\ j = JobOf(j.by)'
  <2>1. CASE j \in jobs
    <3>1. j.by \in Calls /\ Jobbed(j.by) /\ j = JobOf(j.by)
      BY <2>1 DEF DeliveriesInv, CatalogInv, CatalogTypeOK, Jobs
    <3>2. QED BY <1>4, <3>1
  <2>2. CASE j \notin jobs
    <3>1. EnqueueVectorSync(c) /\ j = JobOf(c)
      BY <2>2, CatalogVariables
    <3>2. j.by = c
      BY <3>1 DEF JobOf
    <3>3. QED BY <1>5, <3>1, <3>2
  <2>3. QED BY <2>1, <2>2
<1>7. ASSUME NEW d \in Calls PROVE WorkOk(d)'
  <2>1. work'[d] = work[d] /\ WorkOk(d)
    BY DEF vectorVars, DeliveriesInv
  <2>2. CASE work[d].pc # "idle"
    <3>1. Jobbed(d) /\ work[d].op = JobOf(d).op
      BY <2>1, <2>2 DEF WorkOk
    <3>2. work[d].op # "rebuild" => mcall[d].op \in Writers
      BY <3>1 DEF Jobbed, JobOf
    <3>3. QED BY <1>4, <2>1, <2>2, <3>1, <3>2 DEF WorkOk
  <2>3. CASE work[d].pc = "idle"
    BY <2>1, <2>3 DEF WorkOk
  <2>4. QED BY <2>2, <2>3
<1>8. QED BY <1>6, <1>7 DEF DeliveriesInv, VectorTypeOK, vectorVars

\* Where the import of an upload may come.
LEMMA ImportPlaces ==
    ASSUME CatalogInv, NEW c \in Calls, CatalogStep(c), mcall[c].op = "upload"
    PROVE  /\ mcall'[c].try = mcall[c].try
           /\ mcall[c].pc \notin {"del2", "complete", "fail"} \cup Ended
           /\ mcall'[c].pc \notin {"del2", "complete"} \cup Ended
           /\ mcall'[c].pc = "record" => mcall[c].pc = "del"
           /\ mcall'[c].pc = "del" => hasMenu'
<1>0. PICK call \in MenuCall : /\ call = mcall[c] /\ OpAt(call) /\ Knows(call) /\ HasItsMenu(call)
                               /\ call.op = "upload"
  BY CallTypes DEF CatalogInv
<1> USE DEF CatalogInv, CatalogTypeOK
<1>1. call.op \in Imports /\ call.op \notin CategoryOps
  BY <1>0 DEF Imports, CategoryOps
<1>2. call.pc \in {"newMenu", "category", "newCategory", "save", "enqueue", "commit", "del"}
  BY <1>0, <1>1 DEF CatalogStep, CreateMenu, ReadCategories, ReadProducts, FillCache,
      LookupCategory, FindOrCreateCategory, FindImportCategory, CreateImportCategory,
      SaveMenu, SaveInTransaction, CommitImport,
      RetryTransaction, EnqueueVectorSync, WriteCategory, InvalidateMenuCache, ReadForCascade,
      OpAt, Uncommitted
<1>3. ASSUME NEW q \in MenuCall, NEW pc \in MenuPc, q.try = call.try,
             mcall' = [mcall EXCEPT ![c] = At(q, pc)]
      PROVE  mcall'[c].pc = pc /\ mcall'[c].try = mcall[c].try
  <2>1. At(q, pc).pc = pc /\ At(q, pc).try = q.try
    BY AtKeeps
  <2>2. QED BY <1>0, <1>3, <2>1
<1>4. ASSUME Refused(c) PROVE mcall'[c].pc = "fail" /\ mcall'[c].try = mcall[c].try
  BY <1>0, <1>3, <1>4 DEF Refused, MGoto, MenuPc
<1>5. ASSUME NEW q \in MenuCall, q.try = call.try, q.op = "upload"
      PROVE  Loaded(q).try = call.try /\ Loaded(q).pc \in {"category", "newMenu"}
  BY <1>5, LoadedKeeps DEF Imports
<1>6. CASE CreateMenu(c)
  <2>1. PICK empty : empty = [call EXCEPT !.snap = NoProducts, !.ver = 0, !.made = TRUE]
    OBVIOUS
  <2>2. empty \in MenuCall /\ empty.op = "upload" /\ empty.try = call.try
    BY ZenonT(60), <1>0, <2>1, CallTypes DEF MenuCall
  <2>3. AfterLoad(empty) = "category" /\ "category" \in MenuPc
    BY <2>2 DEF AfterLoad, Imports, MenuPc
  <2>4. Refused(c) \/ mcall' = [mcall EXCEPT ![c] = At(empty, "category")]
    BY <1>0, <1>6, <2>1, <2>3 DEF CreateMenu
  <2>5. mcall'[c].pc \in {"fail", "category"} /\ mcall'[c].try = mcall[c].try
    BY <1>3, <1>4, <2>2, <2>3, <2>4
  <2>6. QED BY <1>0, <1>2, <2>5 DEF Ended
<1>7. CASE FindOrCreateCategory(c)
  <2>1. \/ Refused(c) \/ mcall' = [mcall EXCEPT ![c].pc = "newCategory"]
        \/ \E k : mcall' = [mcall EXCEPT ![c].cat = k, ![c].pc = "save"]
    BY <1>0, <1>7, ImportCategorySteps
  <2>2. mcall'[c].pc \in {"fail", "newCategory", "save"} /\ mcall'[c].try = mcall[c].try
    <3>1. CASE mcall' = [mcall EXCEPT ![c].pc = "newCategory"]
      BY <1>0, <3>1 DEF MenuCall
    <3>2. CASE \E k : mcall' = [mcall EXCEPT ![c].cat = k, ![c].pc = "save"]
      BY <1>0, <3>2 DEF MenuCall
    <3>3. QED BY <1>4, <2>1, <3>1, <3>2
  <2>3. QED BY <1>0, <1>2, <2>2 DEF Ended
<1>8. CASE SaveMenu(c)
  <2>1. Refused(c) \/ (mcall'[c].pc = "enqueue" /\ mcall'[c].try = mcall[c].try)
    BY <1>0, <1>8 DEF SaveMenu, MenuCall
  <2>2. QED BY <1>0, <1>2, <1>4, <2>1 DEF Ended
<1>9. CASE SaveInTransaction(c) \/ EnqueueVectorSync(c) \/ InvalidateMenuCache(c)
  <2>1. \/ Refused(c)
        \/ \E pc \in {"enqueue", "commit", "del", "record"} :
              /\ MGoto(c, pc) /\ hasMenu' = hasMenu
              /\ pc = "record" => call.pc = "del"
              /\ pc = "del" => call.pc = "enqueue" /\ ~hasTx
    BY <1>0, <1>1, <1>9 DEF SaveInTransaction, EnqueueVectorSync, InvalidateMenuCache,
       AfterEnqueue, AfterDel, InTransaction, menuVars
  <2>2. CASE Refused(c)
    BY <1>0, <1>2, <1>4, <2>2 DEF Ended
  <2>3. CASE ~Refused(c)
    <3>1. PICK pc \in {"enqueue", "commit", "del", "record"} :
              /\ MGoto(c, pc) /\ hasMenu' = hasMenu
              /\ pc = "record" => call.pc = "del"
              /\ pc = "del" => call.pc = "enqueue" /\ ~hasTx
      BY <2>1, <2>3
    <3>2. mcall'[c].pc = pc /\ mcall'[c].try = mcall[c].try
      BY <1>0, <1>3, <3>1 DEF MGoto, MenuPc
    <3>3. pc = "del" => hasMenu'
      BY <1>0, <3>1 DEF HasItsMenu
    <3>4. QED BY <1>0, <1>2, <3>1, <3>2, <3>3 DEF Ended
  <2>4. QED BY <2>2, <2>3
<1>10. CASE CommitImport(c)
  <2>1. mcall'[c].pc = "del" /\ mcall'[c].try = mcall[c].try /\ hasMenu'
    BY <1>0, <1>10 DEF CommitImport, MenuCall
  <2>2. QED BY <1>0, <1>2, <2>1 DEF Ended
<1>11. CASE RetryTransaction(c)
  <2>1. PICK q : q = [call EXCEPT !.cat = None]
    OBVIOUS
  <2>2. q \in MenuCall /\ q.op = "upload" /\ q.try = call.try
    BY <1>0, <2>1 DEF MenuCall
  <2>3. mcall' = [mcall EXCEPT ![c] = Loaded(q)]
    BY <1>0, <1>11, <2>1 DEF RetryTransaction
  <2>4. mcall'[c].pc \in {"category", "newMenu"} /\ mcall'[c].try = mcall[c].try
    BY <1>0, <1>5, <2>2, <2>3
  <2>5. QED BY <1>0, <1>2, <2>4 DEF Ended
<1>12. CASE \/ ReadCategories(c) \/ ReadProducts(c) \/ FillCache(c) \/ LookupCategory(c)
            \/ WriteCategory(c) \/ ReadForCascade(c)
  BY <1>0, <1>2, <1>12 DEF ReadCategories, ReadProducts, FillCache, LookupCategory,
     WriteCategory, ReadForCascade
<1>13. QED BY <1>6, <1>7, <1>8, <1>9, <1>10, <1>11, <1>12 DEF CatalogStep

\* The documents of the other uploads stay true whatever one request does.
LEMMA OtherUploads ==
    ASSUME CatalogInv, UploadsInv, NEW c \in Calls, NEW next, Moves(c, next),
           NEW s \in Statuses \cup {None}, NEW r \in Nat,
           status' = [status EXCEPT ![c] = s], records' = [records EXCEPT ![c] = r],
           imported' \in {imported, imported \cup {c}},
           UploadOk(c)'
    PROVE  UploadsInv'
<1>1. /\ mcall' \in [Calls -> MenuCall] /\ \A d \in Calls \ {c} : mcall'[d] = mcall[d]
      /\ hasMenu => hasMenu'
  BY OneMoves DEF Moves
<1>2. ASSUME NEW d \in Calls \ {c} PROVE UploadOk(d)'
  BY <1>1 DEF UploadsInv, UploadOk
<1>3. QED BY <1>2 DEF UploadsInv

\* A step of a request keeps what the documents of uploads say.
LEMMA UploadsOfRequests ==
    ASSUME CatalogInv, UploadsInv, NEW c \in Calls,
           Begin(c) \/ ImportStep(c) \/ IngestionStep(c)
    PROVE  UploadsInv'
<1>0. PICK call \in MenuCall : call = mcall[c] /\ OpAt(call)
  BY CallTypes DEF CatalogInv
<1>1. PICK next : Moves(c, next)
  BY CatalogInvOfMoves DEF Begin, ImportStep
<1>2. /\ mcall'[c] = next /\ next \in MenuCall /\ OpAt(next) /\ Onward(call, next)
      /\ hasMenu => hasMenu'
  BY <1>0, <1>1, OneMoves DEF Moves
<1>3. /\ status \in [Calls -> Statuses \cup {None}] /\ records \in [Calls -> Nat]
      /\ UploadOk(c) /\ None \notin Statuses
  BY UploadAssumption DEF UploadsInv, Statuses
<1>4. /\ call.op # None => next.op = call.op
      /\ call.try \in Nat \ {0} /\ next.try \in Nat \ {0}
  BY <1>0, <1>2 DEF Onward, MenuCall, Attempts
<1>5. status = [status EXCEPT ![c] = status[c]] /\ records = [records EXCEPT ![c] = records[c]]
  BY <1>3
<1>6. CASE UNCHANGED ingestionVars /\ next.op # "upload"
  <2>1. call.op # "upload"
    BY NoOp, OpNames, <1>4, <1>6
  <2>2. records[c] <= next.try
    BY <1>0, <1>3, <1>4, <2>1 DEF UploadOk
  <2>3. UploadOk(c)'
    BY <1>0, <1>2, <1>3, <1>6, <2>1, <2>2 DEF UploadOk, ingestionVars
  <2>4. QED BY <1>1, <1>3, <1>5, <1>6, <2>3, OtherUploads DEF ingestionVars
<1>7. CASE /\ BeginCatalogCall(c) /\ UNCHANGED ingestionVars
           /\ ~\E f \in Files : UploadMenu(c, f[1], f[2])
  <2>1. PICK n : Moves(c, n) /\ Begun(c, n)
    BY <1>7, BeginMoves
  <2>2. mcall'[c] = n
    BY <2>1, OneMoves
  <2>3. n.op # "upload"
    BY <1>7, <2>1 DEF Begun
  <2>4. QED BY <1>2, <1>6, <1>7, <2>2, <2>3
<1>8. CASE \E f \in Files : UploadMenu(c, f[1], f[2])
  <2>1. PICK n : Moves(c, n) /\ mcall[c].op = None
    BY <1>8, BeginMoves
  <2>2. /\ status' = [status EXCEPT ![c] = "queued"] /\ UNCHANGED <<records, imported>>
        /\ mcall'[c].pc = "ingest"
    <3>1. PICK o \in MenuCall : Opening(o, "upload")
      BY OpenedOk, OpNames
    <3>2. PICK f \in Files : UploadMenu(c, f[1], f[2])
      BY <1>8
    <3>3. mcall' = [mcall EXCEPT ![c] = [o EXCEPT !.name = f[1], !.label = f[2], !.pc = "ingest"]]
      BY <3>1, <3>2 DEF UploadMenu, Opening
    <3>4. mcall'[c].pc = "ingest"
      BY <3>3 DEF CatalogInv, CatalogTypeOK, MenuCall
    <3>5. QED BY <3>2, <3>4 DEF UploadMenu, SetStatus
  <2>3. call.op # "upload" /\ next.op = "upload" /\ next.pc = "ingest"
    BY NoOp, OpNames, <1>0, <1>2, <2>1, <2>2 DEF OpAt
  <2>4. records[c] = 0 /\ c \notin imported
    BY <1>0, <1>3, <2>3 DEF UploadOk
  <2>5. status'[c] = "queued" /\ records'[c] = 0 /\ c \notin imported' /\ 0 < next.try
    BY <1>3, <1>4, <2>2, <2>4
  <2>6. UploadOk(c)'
    BY <1>2, <1>4, <2>3, <2>5 DEF UploadOk, Ended
  <2>7. QED BY <1>1, <1>3, <1>5, <2>2, <2>6, OtherUploads DEF Statuses
<1>9. CASE ImportStep(c) /\ call.op = "upload"
  <2>1. CatalogStep(c)
    BY <1>9 DEF ImportStep
  <2>2. /\ next.try = call.try
        /\ call.pc \notin {"del2", "complete", "fail"} \cup Ended
        /\ next.pc \notin {"del2", "complete"} \cup Ended
        /\ next.pc = "record" => call.pc = "del"
        /\ next.pc = "del" => hasMenu'
    BY <1>0, <1>2, <1>9, <2>1, ImportPlaces
  <2>3. /\ UNCHANGED <<status, records>> /\ next.op = "upload"
        /\ imported' = IF next.pc = "del" THEN imported \cup {c} ELSE imported
    BY NoOp, OpNames, <1>0, <1>2, <1>4, <1>9 DEF ImportStep
  <2>4. records[c] < call.try /\ (records[c] > 0 => c \in imported)
    BY <1>0, <1>3, <1>9, <2>2 DEF UploadOk
  <2>5. c \in imported' => hasMenu'
    BY <1>2, <1>3, <2>2, <2>3 DEF UploadOk
  <2>6. next.pc \in {"del", "record"} => c \in imported'
    BY <1>0, <1>3, <1>9, <2>2, <2>3 DEF UploadOk
  <2>7. UploadOk(c)'
    BY <1>0, <1>2, <1>3, <1>4, <1>9, <2>2, <2>3, <2>4, <2>5, <2>6 DEF UploadOk, Ended
  <2>8. QED BY <1>1, <1>3, <1>5, <2>3, <2>7, OtherUploads
<1>10. CASE ImportStep(c) /\ call.op # "upload"
  <2>1. UNCHANGED ingestionVars
    BY <1>0, <1>10 DEF ImportStep, ingestionVars
  <2>2. call.op # None
    <3>1. call.pc # "idle"
      BY <1>0, <1>10 DEF ImportStep, CatalogStep, CreateMenu, ReadCategories, ReadProducts,
      FillCache, LookupCategory, FindOrCreateCategory, FindImportCategory, CreateImportCategory,
      SaveMenu, SaveInTransaction, CommitImport,
      RetryTransaction, EnqueueVectorSync, WriteCategory, InvalidateMenuCache, ReadForCascade,
      Uncommitted
    <3>2. QED BY SMTT(30), <1>0, <3>1 DEF OpAt
  <2>3. QED BY <1>4, <1>6, <1>10, <2>1, <2>2
<1>11. CASE IngestionStep(c) /\ call.op # "upload"
  <2>1. InstanceDies(c) /\ call.pc \notin Ended
    BY <1>0, <1>11 DEF IngestionStep, EnqueueIngestion, StartIngestion, ParseFile, RecordSource,
       InvalidateAgain, CompleteIngestion, IngestionThrows, FailIngestion, InstanceDies, OpAt
  <2>2. call.op # None /\ UNCHANGED ingestionVars
    BY <1>0, <2>1 DEF OpAt, Ended, InstanceDies
  <2>3. QED BY <1>4, <1>6, <1>11, <2>2
<1>12. CASE IngestionStep(c) /\ call.op = "upload"
  <2>1. next.op = "upload"
    BY NoOp, OpNames, <1>4, <1>12
  <2>2. ASSUME NEW pc \in MenuPc, MGoto(c, pc) PROVE next.pc = pc /\ next.try = call.try
    <3>1. At(call, pc).pc = pc /\ At(call, pc).try = call.try
      BY AtKeeps
    <3>2. QED BY <1>0, <1>2, <2>2, <3>1 DEF MGoto, CatalogInv, CatalogTypeOK
  <2>3. CASE EnqueueIngestion(c) \/ InvalidateAgain(c) \/ ParseFile(c) \/ IngestionThrows(c)
    <3>1. UNCHANGED ingestionVars
      BY <2>3 DEF EnqueueIngestion, InvalidateAgain, ParseFile, IngestionThrows
    <3>2. /\ next.try = call.try
          /\ \/ next.pc \in {"status", "category", "newMenu"}
                /\ call.pc \in {"ingest", "processing"}
             \/ next.pc = "complete" /\ call.pc = "del2"
             \/ next.pc = "fail"
      <4>1. CASE EnqueueIngestion(c)
        BY <1>0, <2>2, <4>1 DEF EnqueueIngestion, MenuPc
      <4>2. CASE InvalidateAgain(c)
        BY <1>0, <2>2, <4>2 DEF InvalidateAgain, MenuPc
      <4>3. CASE IngestionThrows(c)
        BY <1>0, <1>12, <2>2, <4>3 DEF IngestionThrows, Refused, MenuPc
      <4>4. CASE ParseFile(c)
        <5>1. call.pc = "processing" /\ next = Loaded(call)
          BY <1>0, <1>2, <4>4 DEF ParseFile, Load, CatalogInv, CatalogTypeOK
        <5>2. Loaded(call).try = call.try /\ Loaded(call).pc \in {"category", "newMenu"}
          BY <1>12, LoadedKeeps DEF CatalogInv, Imports
        <5>3. QED BY <5>1, <5>2
      <4>5. QED BY <2>3, <4>1, <4>2, <4>3, <4>4
    <3>3. UploadOk(c)'
      BY <1>0, <1>2, <1>3, <1>12, <2>1, <3>1, <3>2 DEF UploadOk, Ended, ingestionVars
    <3>4. QED BY <1>1, <1>3, <1>5, <3>1, <3>3, OtherUploads DEF ingestionVars
  <2>4. CASE StartIngestion(c)
    <3>1. /\ call.pc = "status" /\ UNCHANGED <<records, imported>>
          /\ status' = [status EXCEPT ![c] = "processing"]
      BY <1>0, <2>4 DEF StartIngestion, SetStatus
    <3>2. next.pc = "processing" /\ next.try = call.try
      BY <2>2, <2>4 DEF StartIngestion, MenuPc
    <3>3. UploadOk(c)'
      BY <1>0, <1>2, <1>3, <1>12, <2>1, <3>1, <3>2 DEF UploadOk, Ended
    <3>4. QED BY <1>1, <1>3, <1>5, <3>1, <3>3, OtherUploads DEF Statuses
  <2>5. CASE RecordSource(c)
    <3>1. call.pc = "record" /\ UNCHANGED <<status, imported, hasMenu>>
      BY <1>0, <2>5 DEF RecordSource, InCatalog, menuVars
    <3>2. next.pc = "del2" /\ next.try = call.try
      BY <2>2, <2>5 DEF RecordSource, MenuPc
    <3>3. c \in imported /\ hasMenu /\ records[c] < call.try
      BY <1>0, <1>3, <1>12, <3>1 DEF UploadOk, Ended
    <3>4. records' = [records EXCEPT ![c] = records[c] + 1]
      BY <2>5, <3>3 DEF RecordSource
    <3>5. records'[c] = records[c] + 1 /\ records'[c] <= next.try /\ records'[c] > 0
      BY <1>3, <1>4, <3>2, <3>3, <3>4
    <3>6. UploadOk(c)'
      BY <1>2, <1>4, <2>1, <3>1, <3>2, <3>3, <3>5 DEF UploadOk, Ended
    <3>7. PICK r \in Nat : records' = [records EXCEPT ![c] = r]
      <4>1. records[c] \in Nat
        BY <1>3
      <4>2. PICK r \in Nat : r = records[c] + 1
        BY <4>1
      <4>3. QED BY <3>4, <4>2
    <3>8. PICK t \in Statuses \cup {None} : status' = [status EXCEPT ![c] = t]
      BY <1>3, <1>5, <3>1
    <3>9. QED BY <1>1, <3>1, <3>6, <3>7, <3>8, OtherUploads
  <2>6. CASE CompleteIngestion(c)
    <3>1. /\ call.pc = "complete" /\ UNCHANGED <<records, imported>>
          /\ status' = [status EXCEPT ![c] = "completed"]
      BY <1>0, <2>6 DEF CompleteIngestion, SetStatus
    <3>2. next.pc = "done" /\ next.try = call.try
      BY <2>2, <2>6 DEF CompleteIngestion, MenuPc
    <3>3. UploadOk(c)'
      BY <1>0, <1>2, <1>3, <1>12, <2>1, <3>1, <3>2 DEF UploadOk, Ended
    <3>4. QED BY <1>1, <1>3, <1>5, <3>1, <3>3, OtherUploads DEF Statuses
  <2>7. CASE FailIngestion(c) \/ InstanceDies(c)
    <3>1. \/ /\ FailIngestion(c) /\ call.pc = "fail" /\ UNCHANGED <<records, imported>>
             /\ status' = [status EXCEPT ![c] = "failed"]
             /\ next.pc = "failed" /\ next.try = call.try
          \/ /\ InstanceDies(c) /\ UNCHANGED ingestionVars
             /\ next.pc = "lost" /\ next.try = call.try
          \/ /\ UNCHANGED <<records, imported>>
             /\ status' = status \/ status' = [status EXCEPT ![c] = "failed"]
             /\ next.pc = "status" /\ next.try = call.try + 1
      <4>1. \A end \in {"failed", "lost"} : mcall' = [mcall EXCEPT ![c] = At(call, end)]
                => next.pc = end /\ next.try = call.try
        BY <1>0, <2>2 DEF MGoto, MenuPc
      <4>2. mcall' = [mcall EXCEPT ![c] = NextAttempt(call)]
                => next.pc = "status" /\ next.try = call.try + 1
        <5>1. NextAttempt(call).pc = "status" /\ NextAttempt(call).try = call.try + 1
          BY DEF NextAttempt, MenuCall
        <5>2. QED BY <1>2, <5>1 DEF CatalogInv, CatalogTypeOK
      <4>3. QED BY <1>0, <2>7, <4>1, <4>2 DEF FailIngestion, InstanceDies, Afterwards, SetStatus,
                                              ingestionVars
    <3>2. UploadOk(c)'
      BY <1>0, <1>2, <1>3, <1>4, <1>12, <2>1, <3>1 DEF UploadOk, Ended, ingestionVars
    <3>3. QED BY <1>1, <1>3, <1>5, <3>1, <3>2, OtherUploads DEF Statuses, ingestionVars
  <2>8. QED BY <1>12, <2>3, <2>4, <2>5, <2>6, <2>7 DEF IngestionStep
<1>13. QED BY <1>7, <1>8, <1>9, <1>10, <1>11, <1>12 DEF Begin

\* Every step keeps the invariant.
LEMMA MenuStep == MenuInv /\ [Next]_allVars => MenuInv'
<1> SUFFICES ASSUME MenuInv, [Next]_allVars PROVE MenuInv'
  OBVIOUS
<1>0. CatalogInv /\ DeliveriesInv /\ UploadsInv
  BY DEF MenuInv
<1>1. ASSUME NEW c \in Calls, Begin(c) \/ ImportStep(c) \/ IngestionStep(c), UNCHANGED vectorVars
      PROVE  MenuInv'
  <2>1. CatalogStep(c) \/ IngestionStep(c) \/ BeginCatalogCall(c)
           \/ \E f \in Files : UploadMenu(c, f[1], f[2])
    BY <1>1 DEF Begin, ImportStep
  <2>2. CatalogInv'
    BY <1>0, <2>1, CatalogInvOfMoves
  <2>3. DeliveriesInv'
    BY <1>0, <1>1, <2>1, DeliveriesOfRequests
  <2>4. UploadsInv'
    BY <1>0, <1>1, UploadsOfRequests
  <2>5. QED BY <2>2, <2>3, <2>4 DEF MenuInv
<1>2. CASE VectorNext /\ UNCHANGED ingestionVars
  <2>1. CatalogInv' /\ mcall' = mcall /\ hasMenu' = hasMenu
    BY <1>0, <1>2, CatalogOfDeliveries DEF DeliveriesInv
  <2>2. DeliveriesInv'
    BY <1>0, <1>2, DeliveriesOfDeliveries
  <2>3. UploadsInv'
    BY <1>0, <1>2, <2>1 DEF UploadsInv, UploadOk, ingestionVars
  <2>4. QED BY <2>1, <2>2, <2>3 DEF MenuInv
<1>3. CASE UNCHANGED allVars
  <2> USE <1>3 DEF allVars, catalogVars, menuVars, vectorVars, ingestionVars
  <2>1. CatalogInv'
    BY <1>0 DEF CatalogInv, CatalogTypeOK, CallsOk, Fits, HasItsMenu, PricesPast, Unsaved, PricedBy,
       Live, InArray
  <2>2. DeliveriesInv'
    BY <1>0 DEF DeliveriesInv, VectorTypeOK, Jobbed, JobOf, WorkOk
  <2>3. UploadsInv'
    BY <1>0 DEF UploadsInv, UploadOk
  <2>4. QED BY <2>1, <2>2, <2>3 DEF MenuInv
<1>4. QED BY <1>1, <1>2, <1>3 DEF Next

\* The invariant the others rest on: the types, what each request knows where it stands, that
\* every job names a product its request still knows, and what the documents of an upload say.
THEOREM MenuInvariant == Spec => []MenuInv
BY InitialStates, MenuStep, PTL DEF Spec

\* Every variable of the catalog, the index and the uploads keeps to its type, whatever
\* requests, deliveries and faults come: no handler works on an array it has not loaded, no job
\* names a product that its request does not know, and a file is entered at most once per
\* attempt (menu/repository.ts, vector-sync.worker.ts, menu-ingestion.worker.ts).
THEOREM MenuTypes == Spec => []TypeOK
<1>1. MenuInv => TypeOK
  <2> SUFFICES ASSUME MenuInv PROVE TypeOK
    OBVIOUS
  <2>1. \A c \in Calls : records[c] \in 0 .. MaxAttempts
    <3>1. ASSUME NEW c \in Calls PROVE records[c] \in 0 .. MaxAttempts
      <4>1. mcall[c].try \in Attempts /\ records[c] \in Nat /\ records[c] <= mcall[c].try
        BY DEF MenuInv, CatalogInv, CatalogTypeOK, MenuCall, UploadsInv, UploadOk
      <4>2. QED BY <4>1 DEF Attempts
    <3>2. QED BY <3>1
  <2>2. records \in [Calls -> 0 .. MaxAttempts]
    BY <2>1 DEF MenuInv, UploadsInv
  <2>3. QED BY <2>2 DEF MenuInv, CatalogInv, DeliveriesInv, UploadsInv, TypeOK
<1>2. QED BY <1>1, MenuInvariant, PTL

\* The status a client polls is true: "completed" only of a file that an attempt has imported
\* and entered in the menu, at most one entry per attempt, and an ended upload says how it
\* ended, with any number of uploads, attempts and faults (menu-ingestion.worker.ts:27-82).
THEOREM UploadsTold == Spec => []UploadStatusTrue
<1>1. MenuInv => UploadStatusTrue
  BY DEF MenuInv, CatalogInv, CatalogTypeOK, UploadsInv, UploadOk, UploadStatusTrue
<1>2. QED BY <1>1, MenuInvariant, PTL

-----------------------------------------------------------------------------
(* Products of one name.                                                   *)

Pushers    == {"add"} \cup Imports
BeforePush == {"ingest", "status", "processing", "newMenu", "lookup", "category", "newCategory",
               "save"}

\* The product that attempt t of c may bring has not been pushed.
Waits(call)   == \/ call.pc \in BeforePush
                 \/ hasTx /\ call.op \in Imports /\ call.pc \in {"enqueue", "commit"}
Unborn(c, t)  == LET call == mcall[c] IN
                 \/ call.op = None \/ t > call.try
                 \/ t = call.try /\ call.op \in Pushers /\ Waits(call)
Nowhere(id)   == /\ products[id] = None
                 /\ \A d \in Calls : mcall[d].snap # None => mcall[d].snap[id] = None

EndedBefore == \A c \in Calls : \A d \in mcall[c].after : mcall[d].pc \in Ended \ {"idle"}

UnbornNowhere == \A c \in Calls, t \in Attempts : Unborn(c, t) => Nowhere(<<c, t>>)

\* What is in the menu and not in the array that a request loaded was pushed by another one
\* that had not ended when the request began; what is in both has one name.
MissedAreNew == \A c \in Calls, id \in Ids :
    mcall[c].snap # None /\ products[id] # None =>
        /\ mcall[c].snap[id] = None =>
             id \notin OldProducts /\ id[1] # c /\ id[1] \notin mcall[c].after
        /\ mcall[c].snap[id] # None /\ id \notin renamed =>
             mcall[c].snap[id].name = products[id].name

NamesInv == EndedBefore /\ UnbornNowhere /\ MissedAreNew /\ SameNameOnlyOverlap

\* A request that is at no step has none to take.
LEMMA OnlyAtWork ==
    ASSUME CatalogInv, NEW c \in Calls, CatalogStep(c) \/ IngestionStep(c)
    PROVE  mcall[c].pc \notin Ended /\ mcall[c].op # None
<1>1. mcall[c].pc \notin Ended
  BY DEF CatalogStep, CreateMenu, ReadCategories, ReadProducts, FillCache, LookupCategory,
      FindOrCreateCategory, FindImportCategory, CreateImportCategory,
      SaveMenu, SaveInTransaction, CommitImport, RetryTransaction,
      EnqueueVectorSync, WriteCategory, InvalidateMenuCache, ReadForCascade, Uncommitted,
      IngestionStep, EnqueueIngestion, StartIngestion, ParseFile, RecordSource, InvalidateAgain,
      CompleteIngestion, IngestionThrows, FailIngestion, InstanceDies, Ended
<1>2. QED BY <1>1, CallTypes DEF CatalogInv, OpAt, Ended

\* Past its push a request never waits to push again, but in another attempt.
LEMMA PushedOnce ==
    ASSUME CatalogInv, NEW c \in Calls, CatalogStep(c) \/ IngestionStep(c),
           mcall[c].op \in Pushers, ~Waits(mcall[c])
    PROVE  mcall'[c].try # mcall[c].try \/ ~Waits(mcall[c])'
<1>0. PICK call \in MenuCall : /\ call = mcall[c] /\ OpAt(call) /\ Knows(call) /\ HasItsMenu(call)
                               /\ call.op \in Pushers /\ ~Waits(call)
  BY CallTypes DEF CatalogInv
<1>1. call.pc \notin Ended \cup BeforePush
                     \cup {"commit", "cats", "menu", "fill", "write", "cascade"}
  BY <1>0, OnlyAtWork DEF Waits, HasItsMenu, OpAt, Pushers, Imports, CategoryOps
<1>2. ~InTransaction(c) \/ call.pc # "enqueue"
  BY <1>0 DEF Waits, InTransaction
<1>3. ASSUME NEW pc \in {"del", "record", "done", "del2", "complete", "fail", "failed", "lost"},
             MGoto(c, pc)
      PROVE  ~Waits(mcall[c])'
  <2>1. At(call, pc).pc = pc
    BY AtKeeps DEF MenuPc
  <2>2. mcall'[c].pc = pc
    BY <1>0, <1>3, <2>1 DEF MGoto, CatalogInv, CatalogTypeOK
  <2>3. QED BY <2>2 DEF Waits, BeforePush
<1>4. CASE CatalogStep(c)
  <2>1. EnqueueVectorSync(c) \/ InvalidateMenuCache(c)
    BY <1>0, <1>1, <1>2, <1>4 DEF CatalogStep, CreateMenu, ReadCategories, ReadProducts, FillCache,
      LookupCategory, FindOrCreateCategory, FindImportCategory, CreateImportCategory,
      SaveMenu, SaveInTransaction, CommitImport,
      RetryTransaction, WriteCategory, ReadForCascade, Uncommitted, BeforePush
  <2>2. \E pc \in {"del", "record", "done"} : MGoto(c, pc)
    BY <1>0, <1>2, <2>1 DEF EnqueueVectorSync, InvalidateMenuCache, AfterEnqueue, AfterDel,
       Pushers, Imports, CategoryOps
  <2>3. QED BY SMTT(30), <1>3, <2>2
<1>5. CASE IngestionStep(c) /\ mcall'[c].try = mcall[c].try
  <2>1. CASE EnqueueIngestion(c) \/ StartIngestion(c) \/ ParseFile(c)
    BY <1>0, <1>1, <2>1 DEF EnqueueIngestion, StartIngestion, ParseFile, BeforePush
  <2>2. CASE RecordSource(c) \/ InvalidateAgain(c) \/ CompleteIngestion(c) \/ IngestionThrows(c)
    <3>1. \E pc \in {"done", "del2", "complete", "fail", "failed"} : MGoto(c, pc)
      BY <2>2 DEF RecordSource, InvalidateAgain, CompleteIngestion, IngestionThrows, Refused
    <3>2. QED BY <1>3, <3>1
  <2>3. CASE FailIngestion(c) \/ InstanceDies(c)
    <3>1. \/ \E pc \in {"failed", "lost"} : MGoto(c, pc)
          \/ mcall' = [mcall EXCEPT ![c] = NextAttempt(call)]
      BY <1>0, <2>3 DEF FailIngestion, InstanceDies, Afterwards, MGoto
    <3>2. CASE mcall' = [mcall EXCEPT ![c] = NextAttempt(call)]
      <4>1. NextAttempt(call).try = call.try + 1 /\ call.try \in Nat
        BY DEF NextAttempt, MenuCall, Attempts
      <4>2. QED BY <1>0, <1>5, <3>2, <4>1 DEF CatalogInv, CatalogTypeOK
    <3>3. QED BY <1>3, <3>1, <3>2
  <2>4. QED BY <1>5, <2>1, <2>2, <2>3 DEF IngestionStep
<1>6. QED BY <1>4, <1>5

\* A product once pushed is never waited for again.
LEMMA BornForGood ==
    ASSUME CatalogInv, NEW c \in Calls,
           CatalogStep(c) \/ IngestionStep(c) \/ BeginCatalogCall(c)
              \/ \E f \in Files : UploadMenu(c, f[1], f[2]),
           NEW d \in Calls, NEW t \in Attempts, Unborn(d, t)'
    PROVE  Unborn(d, t)
<1>1. PICK next : Moves(c, next)
  BY CatalogInvOfMoves
<1>2. /\ mcall'[c] = next /\ \A e \in Calls \ {c} : mcall'[e] = mcall[e]
      /\ hasTx' = hasTx /\ Onward(mcall[c], next) /\ next \in MenuCall /\ mcall[c] \in MenuCall
      /\ OpAt(mcall[c])
  BY <1>1, OneMoves, CallTypes DEF Moves, CatalogInv
<1>3. CASE d # c
  BY <1>2, <1>3 DEF Unborn, Waits
<1>4. CASE d = c /\ mcall[c].op = None
  BY <1>4 DEF Unborn
<1>5. CASE d = c /\ mcall[c].op # None
  <2>1. next.op = mcall[c].op
    BY <1>2, <1>5 DEF Onward
  <2>2. CatalogStep(c) \/ IngestionStep(c)
    BY <1>5, BeginMoves
  <2>3. CASE mcall'[c].try = mcall[c].try
    <3>1. next.op \in Pushers /\ Waits(mcall[c])' => Waits(mcall[c])
      BY <2>1, <2>2, <2>3, PushedOnce
    <3>2. QED BY <1>2, <1>5, <2>1, <2>3, <3>1 DEF Unborn
  <2>4. CASE mcall'[c].try # mcall[c].try
    <3>1. next = NextAttempt(mcall[c])
      BY <1>2, <2>2, <2>4, LocalsStep
    <3>2. next.try = mcall[c].try + 1 /\ mcall[c].try \in Nat /\ t \in Nat
      BY <1>2, <3>1 DEF NextAttempt, MenuCall, Attempts
    <3>3. next.try = t \/ t > next.try
      BY <1>2, <1>5, <2>1 DEF Unborn
    <3>4. t > mcall[c].try
      BY <3>2, <3>3
    <3>5. QED BY <1>5, <3>4 DEF Unborn
  <2>5. QED BY <2>3, <2>4
<1>6. QED BY <1>3, <1>4, <1>5

\* The arrays that save() may be called with.
LEMMA WantedForms ==
    ASSUME CatalogInv, NEW c \in Calls, mcall[c].pc \in {"save", "commit"},
           NEW want \in Wanted(c), NEW call, call = mcall[c], NEW snap, snap = call.snap
    PROVE  \/ /\ call.op \in Pushers /\ SameName(c) = {}
              /\ want = [snap EXCEPT ![<<c, call.try>>] = NewProduct(c)]
           \/ /\ call.op \in Pushers
              /\ \E id \in SameName(c) : want = [snap EXCEPT ![id] = Priced(c, snap[id])]
           \/ /\ call.op = "update"
              /\ want = [snap EXCEPT ![call.id] = Priced(c, snap[call.id])]
           \/ call.op = "remove" /\ want = [snap EXCEPT ![call.id] = None]
           \/ call.op \in CategoryOps /\ want = [id \in Ids |-> Relabelled(c, snap[id])]
<1>1. call.op \in {"add"} \cup Imports \cup {"update", "remove"} \cup CategoryOps
  BY CallTypes DEF CatalogInv, OpAt, Writers, Imports
<1>2. CASE call.op \in Pushers
  <2>1. want \in ByName(c)
    BY <1>2 DEF Wanted, Pushers, Imports, CategoryOps
  <2>2. QED BY <1>2, <2>1 DEF ByName
<1>3. CASE call.op \in {"update", "remove"}
  BY <1>3 DEF Wanted, Imports, CategoryOps
<1>4. CASE call.op \in CategoryOps
  BY <1>4 DEF Wanted, Imports, CategoryOps
<1>5. QED BY <1>1, <1>2, <1>3, <1>4 DEF Pushers

\* What a save makes of names: a product is pushed by one that found none of its name in what
\* it had loaded, and only a rename changes the name of one.
LEMMA SaveNames ==
    ASSUME CatalogInv, UnbornNowhere, NEW c \in Calls, mcall[c].pc \in {"save", "commit"},
           NEW want \in Wanted(c), SaveArray(c, want), NEW id \in Ids, products'[id] # None
    PROVE  /\ products[id] = None => /\ mcall[c].op \in Pushers /\ id = <<c, mcall[c].try>>
                                     /\ SameName(c) = {} /\ products'[id].name = mcall[c].name
           /\ products[id] # None /\ products'[id].name # products[id].name =>
                 mcall[c].op = "update" /\ mcall[c].name # None /\ id = mcall[c].id
<1>0. PICK call \in MenuCall : call = mcall[c] /\ OpAt(call) /\ Knows(call) /\ HasItsMenu(call)
  BY CallTypes DEF CatalogInv
<1>1. PICK snap \in Arrays : snap = call.snap
  BY <1>0 DEF Knows, MenuCall
<1>2. want \in Arrays /\ products \in Arrays
  BY WantedArrays DEF CatalogInv, CatalogTypeOK
<1>3. <<c, call.try>> \in Ids
  BY DEF Ids, MenuCall
<1>4. call.op \in Pushers => Nowhere(<<c, call.try>>)
  <2>1. call.op \in Pushers => Unborn(c, call.try)
    BY <1>0 DEF Unborn, Waits, BeforePush, HasItsMenu, OpAt
  <2>2. QED BY <1>0, <2>1 DEF UnbornNowhere, MenuCall
<1>5. \/ /\ call.op \in Pushers /\ SameName(c) = {}
         /\ want = [snap EXCEPT ![<<c, call.try>>] = NewProduct(c)]
      \/ /\ call.op \in Pushers
         /\ \E i \in SameName(c) : want = [snap EXCEPT ![i] = Priced(c, snap[i])]
      \/ /\ call.op = "update"
         /\ want = [snap EXCEPT ![call.id] = Priced(c, snap[call.id])]
      \/ call.op = "remove" /\ want = [snap EXCEPT ![call.id] = None]
      \/ call.op \in CategoryOps /\ want = [i \in Ids |-> Relabelled(c, snap[i])]
  BY <1>0, <1>1, WantedForms
<1>6. \A i \in SameName(c) : i \in Ids /\ snap[i] # None
  BY <1>0, <1>1 DEF SameName, InArray
<1>7. call.op = "update" => call.id \in Ids /\ snap[call.id] # None
  BY <1>0, <1>1 DEF Knows, OpAt, Imports
<1>8. want[id] # None /\ snap[id] = None =>
          /\ call.op \in Pushers /\ id = <<c, call.try>> /\ SameName(c) = {}
          /\ want[id].name = call.name
  <2>1. \A q : Relabelled(c, q) # None => q # None
    BY DEF Relabelled
  <2>2. NewProduct(c).name = call.name
    BY <1>0 DEF NewProduct
  <2>3. QED BY <1>1, <1>3, <1>5, <1>6, <1>7, <2>1, <2>2 DEF Arrays
<1>9. want[id] # None /\ snap[id] # None /\ want[id].name # snap[id].name =>
          call.op = "update" /\ call.name # None /\ id = call.id
  <2>1. \A q \in Product : Relabelled(c, q).name = q.name
    BY DEF Relabelled, Product
  <2>2. \A q \in Product : /\ Priced(c, q).name # q.name => call.op = "update" /\ call.name # None
    BY <1>0 DEF Priced
  <2>3. snap[id] # None => snap[id] \in Product
    BY DEF Arrays
  <2>4. CASE call.op \in Pushers /\ SameName(c) = {}
             /\ want = [snap EXCEPT ![<<c, call.try>>] = NewProduct(c)]
    <3>1. snap[<<c, call.try>>] = None
      BY <1>0, <1>1, <1>4, <2>4 DEF Nowhere
    <3>2. QED BY <1>1, <2>4, <3>1 DEF Arrays
  <2>5. CASE \E i \in SameName(c) : want = [snap EXCEPT ![i] = Priced(c, snap[i])]
             /\ call.op \in Pushers
    BY <1>1, <1>6, <2>2, <2>3, <2>5 DEF Arrays, Pushers, Imports
  <2>6. CASE call.op = "update" /\ want = [snap EXCEPT ![call.id] = Priced(c, snap[call.id])]
    BY <1>1, <1>7, <2>2, <2>3, <2>6 DEF Arrays
  <2>7. CASE call.op = "remove" /\ want = [snap EXCEPT ![call.id] = None]
    BY <1>1, <2>7 DEF Arrays
  <2>8. CASE call.op \in CategoryOps /\ want = [i \in Ids |-> Relabelled(c, snap[i])]
    BY <2>1, <2>3, <2>8
  <2>9. QED BY <1>5, <2>4, <2>5, <2>6, <2>7, <2>8
<1>10. products'[id] = IF id \in Moved(c, want) THEN want[id]
                       ELSE IF id \in Edited(c, want) /\ products[id] # None
                            THEN Fields(products[id], snap[id], want[id])
                            ELSE products[id]
  BY <1>0, <1>1 DEF SaveArray
<1>11. CASE id \in Moved(c, want)
  <2>1. want[id] # None /\ snap[id] = None /\ products'[id] = want[id]
    BY <1>0, <1>1, <1>10, <1>11 DEF Moved
  <2>2. products[id] = None
    BY <1>4, <1>8, <2>1 DEF Nowhere
  <2>3. QED BY <1>0, <1>8, <2>1, <2>2
<1>12. CASE id \in Edited(c, want) /\ products[id] # None /\ id \notin Moved(c, want)
  <2>1. want[id] # None /\ snap[id] # None
    BY <1>0, <1>1, <1>12 DEF Edited
  <2>2. products'[id].name = IF want[id].name # snap[id].name THEN want[id].name
                             ELSE products[id].name
    BY <1>10, <1>12 DEF Fields
  <2>3. QED BY <1>0, <1>9, <1>12, <2>1, <2>2
<1>13. QED BY <1>10, <1>11, <1>12

\* A live product was made by a request.
LEMMA MadeBySome ==
    ASSUME CatalogInv, UnbornNowhere, NEW id \in Ids \ OldProducts, products[id] # None
    PROVE  id[1] \in Calls /\ mcall[id[1]].op # None
<1>1. PICK d \in Calls, t \in Attempts : id = <<d, t>>
  BY DEF Ids
<1>2. ~Unborn(d, t)
  BY <1>1 DEF UnbornNowhere, Nowhere
<1>3. QED BY <1>1, <1>2 DEF Unborn

\* A step of a request keeps what is known of the names of products.
LEMMA NamesOfRequests ==
    ASSUME CatalogInv, NamesInv, NEW c \in Calls,
           CatalogStep(c) \/ IngestionStep(c) \/ BeginCatalogCall(c)
              \/ \E f \in Files : UploadMenu(c, f[1], f[2])
    PROVE  NamesInv'
<1> USE DEF NamesInv
<1>1. PICK next : Moves(c, next)
  BY CatalogInvOfMoves
<1>2. /\ mcall'[c] = next /\ \A e \in Calls \ {c} : mcall'[e] = mcall[e]
      /\ Onward(mcall[c], next) /\ next \in MenuCall /\ mcall[c] \in MenuCall /\ OpAt(mcall[c])
  BY <1>1, OneMoves, CallTypes DEF Moves, CatalogInv
<1>3. CatalogInv' /\ mcall \in [Calls -> MenuCall] /\ products \in Arrays /\ products' \in Arrays
  BY CatalogInvOfMoves DEF CatalogInv, CatalogTypeOK
<1>4. mcall[c].pc \notin Ended \ {"idle"}
  BY OnlyAtWork, BeginMoves
<1>5. \/ mcall[c].op # None /\ next.snap \in {None, products, mcall[c].snap}
                            /\ next.after = mcall[c].after
      \/ mcall[c].op = None /\ next.snap \in {None, products} /\ next.after = Over
  <2>1. CASE CatalogStep(c) \/ IngestionStep(c)
    BY <1>2, <2>1, LocalsStep, OnlyAtWork
  <2>2. CASE BeginCatalogCall(c) \/ \E f \in Files : UploadMenu(c, f[1], f[2])
    <3>1. PICK n : Moves(c, n) /\ Begun(c, n) /\ mcall[c].op = None
      BY <2>2, BeginMoves
    <3>2. n = next
      BY <1>2, <3>1, OneMoves
    <3>3. QED BY <3>1, <3>2 DEF Begun
  <2>3. QED BY <2>1, <2>2
<1>6. ASSUME NEW e \in Calls PROVE c \notin mcall[e].after
  BY <1>4 DEF EndedBefore
<1>7. ASSUME NEW e \in Calls PROVE mcall[e].op # None => mcall'[e].after = mcall[e].after
  BY <1>2, <1>5
<1>8. EndedBefore'
  <2>1. ASSUME NEW e \in Calls, NEW d \in mcall'[e].after
        PROVE  mcall'[d].pc \in Ended \ {"idle"}
    <3>1. CASE d \in mcall[e].after
      <4>1. d # c /\ d \in Calls
        BY <1>3, <1>6, <3>1 DEF MenuCall
      <4>2. QED BY <1>2, <3>1, <4>1 DEF EndedBefore
    <3>2. CASE d \notin mcall[e].after
      <4>1. e = c /\ d \in Over
        BY <1>2, <1>5, <2>1, <3>2
      <4>2. d \in Calls /\ mcall[d].pc \in Ended \ {"idle"} /\ d # c
        BY <1>4, <4>1 DEF Over
      <4>3. QED BY <1>2, <4>2
    <3>3. QED BY <3>1, <3>2
  <2>2. QED BY <2>1 DEF EndedBefore
<1>9. /\ renamed \subseteq renamed'
      /\ \/ products' = products
         \/ /\ next.snap = None
            /\ mcall[c].pc \in {"save", "commit"}
            /\ \/ mcall[c].pc = "save" /\ next.pc = "enqueue" /\ ~InTransaction(c)
               \/ mcall[c].pc = "commit" /\ next.pc = "del"
            /\ \E want \in Wanted(c) : SaveArray(c, want)
            /\ mcall[c].op = "update" /\ mcall[c].name # None => mcall[c].id \in renamed'
  <2>1. mcall[c].pc = "commit" => mcall[c].op # "update"
    BY <1>2 DEF OpAt, Imports
  <2>2. QED BY <1>2, <2>1, OnlySaves
\* What a step makes of one product.
<1>10. ASSUME NEW id \in Ids, products'[id] # None
       PROVE  /\ products[id] = None =>
                    /\ id = <<c, mcall[c].try>> /\ mcall[c].op \in Pushers /\ SameName(c) = {}
                    /\ products'[id].name = mcall[c].name /\ mcall[c].snap # None
                    /\ next.snap = None /\ ~Waits(mcall[c])' /\ next.op = mcall[c].op
                    /\ next.try = mcall[c].try /\ Nowhere(id)
              /\ products[id] # None /\ id \notin renamed' => products'[id].name = products[id].name
  <2>1. CASE products' = products
    BY <1>10, <2>1
  <2>2. CASE products' # products
    <3>1. PICK want \in Wanted(c) : SaveArray(c, want)
      BY <1>9, <2>2
    <3>2. /\ products[id] = None => /\ mcall[c].op \in Pushers /\ id = <<c, mcall[c].try>>
                                    /\ SameName(c) = {} /\ products'[id].name = mcall[c].name
          /\ products[id] # None /\ products'[id].name # products[id].name =>
                mcall[c].op = "update" /\ mcall[c].name # None /\ id = mcall[c].id
      BY <1>9, <1>10, <2>2, <3>1, SaveNames
    <3>3. mcall[c].snap # None
      BY <1>9, <2>2, CallTypes DEF CatalogInv, Knows
    <3>4. next.op = mcall[c].op
      BY <1>2, <1>9, <2>2 DEF Onward, OpAt
    <3>5. hasTx' = hasTx
      BY <1>1 DEF Moves
    <3>6. ~Waits(mcall[c])'
      BY <1>2, <1>9, <2>2, <3>4, <3>5 DEF Waits, BeforePush, InTransaction
    <3>7. next.try = mcall[c].try
      <4>1. CatalogStep(c) \/ IngestionStep(c)
        BY <1>2, <1>9, <2>2, BeginMoves
      <4>2. next # NextAttempt(mcall[c])
        <5>1. NextAttempt(mcall[c]).pc = "status"
          BY <1>2 DEF NextAttempt, MenuCall
        <5>2. QED BY <1>9, <2>2, <5>1
      <4>3. QED BY <1>2, <4>1, <4>2, LocalsStep
    <3>8. products[id] = None => Nowhere(id)
      <4>1. Waits(mcall[c])
        BY <1>9, <2>2, CallTypes DEF CatalogInv, Waits, BeforePush, HasItsMenu, OpAt
      <4>2. products[id] = None => Unborn(c, mcall[c].try)
        BY <3>2, <4>1 DEF Unborn
      <4>3. QED BY <1>2, <3>2, <4>2 DEF UnbornNowhere, MenuCall
    <3>9. QED BY <1>9, <2>2, <3>2, <3>3, <3>4, <3>6, <3>7, <3>8
  <2>3. QED BY <2>1, <2>2
<1>11. UnbornNowhere'
  <2>1. ASSUME NEW d \in Calls, NEW t \in Attempts, Unborn(d, t)'
        PROVE  Nowhere(<<d, t>>)'
    <3>1. Unborn(d, t)
      BY <2>1, BornForGood
    <3>2. PICK id \in Ids : id = <<d, t>>
      BY DEF Ids
    <3>3. products[id] = None /\ \A e \in Calls : mcall[e].snap # None => mcall[e].snap[id] = None
      BY <3>1, <3>2 DEF UnbornNowhere, Nowhere
    <3>4. products'[id] = None
      <4>1. SUFFICES ASSUME products'[id] # None PROVE FALSE
        OBVIOUS
      <4>2. /\ id = <<c, mcall[c].try>> /\ mcall[c].op \in Pushers
            /\ ~Waits(mcall[c])' /\ next.op = mcall[c].op /\ next.try = mcall[c].try
        BY <1>10, <3>3, <4>1
      <4>3. d = c /\ t = mcall[c].try
        BY <3>2, <4>2
      <4>4. t = next.try /\ next.try \in Nat /\ next.op # None
        BY NoOp, OpNames, <1>2, <4>2, <4>3 DEF MenuCall, Attempts, Pushers
      <4>5. ~Unborn(d, t)'
        BY <1>2, <4>2, <4>3, <4>4 DEF Unborn
      <4>6. QED BY <2>1, <4>5
    <3>5. \A e \in Calls : mcall'[e].snap # None => mcall'[e].snap[id] = None
      BY <1>2, <1>5, <3>3
    <3>6. QED BY <3>2, <3>4, <3>5 DEF Nowhere
  <2>2. QED BY <2>1 DEF UnbornNowhere
<1>12. MissedAreNew'
  <2>1. ASSUME NEW e \in Calls, NEW id \in Ids, mcall'[e].snap # None, products'[id] # None
        PROVE  /\ mcall'[e].snap[id] = None =>
                    id \notin OldProducts /\ id[1] # e /\ id[1] \notin mcall'[e].after
               /\ mcall'[e].snap[id] # None /\ id \notin renamed' =>
                    mcall'[e].snap[id].name = products'[id].name
    <3>1. CASE e = c /\ next.snap = products /\ products' = products
      BY <1>2, <2>1, <3>1
    <3>2. CASE ~(e = c /\ next.snap = products /\ products' = products)
      <4>1. mcall'[e].snap = mcall[e].snap /\ mcall'[e].after = mcall[e].after
        <5>1. CASE e # c
          BY <1>2, <5>1
        <5>2. CASE e = c
          BY <1>2, <1>5, <1>9, <2>1, <3>2, <5>2
        <5>3. QED BY <5>1, <5>2
      <4>2. CASE products[id] # None
        <5>1. products'[id].name = products[id].name \/ id \in renamed'
          BY <1>10, <2>1, <4>2
        <5>2. QED BY <1>9, <2>1, <4>1, <4>2, <5>1 DEF MissedAreNew
      <4>3. CASE products[id] = None
        <5>1. id = <<c, mcall[c].try>> /\ mcall[c].op \in Pushers /\ next.snap = None
              /\ mcall[c].snap # None
          BY <1>10, <2>1, <4>3
        <5>2. e # c
          BY <1>2, <2>1, <5>1
        <5>3. id \notin OldProducts /\ id[1] = c
          BY <1>2, <5>1 DEF MenuCall
        <5>4. mcall[e].snap[id] = None
          BY <1>10, <2>1, <4>1, <4>3 DEF Nowhere
        <5>5. QED BY <1>6, <4>1, <5>2, <5>3, <5>4
      <4>4. QED BY <4>2, <4>3
    <3>3. QED BY <3>1, <3>2
  <2>2. QED BY <2>1 DEF MissedAreNew
<1>13. SameNameOnlyOverlap'
  <2>1. ASSUME NEW a \in Live', a \notin renamed', a \notin OldProducts
        PROVE  /\ a[1] \in Calls
               /\ mcall'[a[1]].after = mcall[a[1]].after
    <3>1. a \in Ids /\ products'[a] # None
      BY <2>1 DEF Live, InArray
    <3>2. CASE products[a] # None
      <4>1. a[1] \in Calls /\ mcall[a[1]].op # None
        BY <2>1, <3>1, <3>2, MadeBySome
      <4>2. QED BY <1>7, <4>1
    <3>3. CASE products[a] = None
      <4>1. a[1] = c /\ mcall[c].op # None
        BY NoOp, OpNames, <1>10, <3>1, <3>3 DEF Pushers
      <4>2. QED BY <1>7, <4>1
    <3>4. QED BY <3>2, <3>3
\* One that is pushed, and one that was there.
  <2>2. ASSUME NEW a \in Live', NEW b \in Live', a \notin renamed', b \notin renamed', a # b,
               products'[a].name = products'[b].name, products[a] = None
        PROVE  /\ a \notin OldProducts /\ b \notin OldProducts
               /\ Overlap(a[1], b[1])' /\ Overlap(b[1], a[1])'
    <3>1. a \in Ids /\ b \in Ids /\ products'[a] # None /\ products'[b] # None
      BY <2>2 DEF Live, InArray
    <3>2. /\ a = <<c, mcall[c].try>> /\ SameName(c) = {} /\ products'[a].name = mcall[c].name
          /\ mcall[c].snap # None
      BY <1>10, <2>2, <3>1
    <3>3. products[b] # None
      BY <1>10, <2>2, <3>1, <3>2
    <3>4. products[b].name = mcall[c].name
      BY <1>10, <2>2, <3>1, <3>2, <3>3
    <3>5. b \notin renamed
      BY <1>9, <2>2
    <3>6. mcall[c].snap[b] = None
      BY <3>1, <3>2, <3>3, <3>4, <3>5 DEF MissedAreNew, SameName, InArray
    <3>7. b \notin OldProducts /\ b[1] # c /\ b[1] \notin mcall[c].after
      BY <3>1, <3>2, <3>3, <3>6 DEF MissedAreNew
    <3>8. a \notin OldProducts /\ a[1] = c
      BY <1>2, <3>2 DEF MenuCall
    <3>9. /\ b[1] \in Calls /\ mcall'[b[1]].after = mcall[b[1]].after
          /\ mcall'[c].after = mcall[c].after
      BY <2>1, <2>2, <3>7, <3>8
    <3>10. QED BY <1>6, <3>7, <3>8, <3>9 DEF Overlap
  <2>3. ASSUME NEW a \in Live', NEW b \in Live', a \notin renamed', b \notin renamed', a # b,
               ~({a, b} \subseteq OldProducts), products'[a].name = products'[b].name
        PROVE  a \notin OldProducts /\ b \notin OldProducts /\ Overlap(a[1], b[1])'
    <3>1. CASE products[a] = None
      BY <2>2, <2>3, <3>1
    <3>2. CASE products[b] = None
      BY <2>2, <2>3, <3>2
    <3>3. CASE products[a] # None /\ products[b] # None
      <4>1. a \in Ids /\ b \in Ids /\ products'[a] # None /\ products'[b] # None
        BY <2>3 DEF Live, InArray
      <4>2. products'[a].name = products[a].name /\ products'[b].name = products[b].name
        BY <1>10, <2>3, <3>3, <4>1
      <4>3. a \in Live \ renamed /\ b \in Live \ renamed
        BY <1>9, <2>3, <3>3, <4>1 DEF Live, InArray
      <4>4. a \notin OldProducts /\ b \notin OldProducts /\ Overlap(a[1], b[1])
        BY <2>3, <4>2, <4>3 DEF SameNameOnlyOverlap
      <4>5. mcall'[a[1]].after = mcall[a[1]].after /\ mcall'[b[1]].after = mcall[b[1]].after
        BY <2>1, <2>3, <4>4
      <4>6. QED BY <4>4, <4>5 DEF Overlap
    <3>4. QED BY <3>1, <3>2, <3>3
  <2>4. QED BY <2>3 DEF SameNameOnlyOverlap
<1>14. QED BY <1>8, <1>11, <1>12, <1>13

\* Two products of one name in the array come of requests that overlapped, in every
\* reachable state; the array each has loaded is no older than its request.
LEMMA NamesHold == Spec => []NamesInv
<1>1. Init => NamesInv
  <2> SUFFICES ASSUME Init PROVE NamesInv
    OBVIOUS
  <2> USE DEF Init, CatalogInit
  <2>1. \A c \in Calls : mcall[c].op = None /\ mcall[c].snap = None /\ mcall[c].after = {}
    BY DEF IdleCall
  <2>2. \A id \in Ids : products[id] # None => id \in OldProducts
    OBVIOUS
  <2>3. UnbornNowhere
    <3>1. \A c \in Calls, t \in Attempts : <<c, t>> \in Ids \ OldProducts
      BY DEF Ids
    <3>2. QED BY <2>1, <2>2, <3>1 DEF UnbornNowhere, Nowhere
  <2>4. SameNameOnlyOverlap
    BY <2>2 DEF SameNameOnlyOverlap, Live, InArray
  <2>5. QED BY <2>1, <2>3, <2>4 DEF NamesInv, EndedBefore, MissedAreNew
<1>2. MenuInv /\ NamesInv /\ [Next]_allVars => NamesInv'
  <2> SUFFICES ASSUME MenuInv, NamesInv, [Next]_allVars PROVE NamesInv'
    OBVIOUS
  <2>1. CASE \E c \in Calls : Begin(c) \/ ImportStep(c) \/ IngestionStep(c)
    BY <2>1, NamesOfRequests DEF Begin, ImportStep, MenuInv
  <2>2. CASE VectorNext \/ UNCHANGED allVars
    <3>1. UNCHANGED <<hasTx, products, mcall, renamed>>
      BY <2>2 DEF VectorNext, TakeJob, ResetNamespace, ReadMenu, WriteVectors, DeleteVector,
         JobFails, allVars, catalogVars, menuVars
    <3>2. QED BY <3>1 DEF NamesInv, EndedBefore, UnbornNowhere, Unborn, Waits, Nowhere,
         MissedAreNew, SameNameOnlyOverlap, Live, InArray, Overlap
  <2>3. QED BY <2>1, <2>2 DEF Next
<1>3. QED BY <1>1, <1>2, MenuInvariant, PTL DEF Spec

\* Two products of one name come only of requests that overlapped or of a rename, with any
\* number of requests, attempts and products (menu/repository.ts:97-125, 154-215, 245).
THEOREM NamesApart == Spec => []SameNameOnlyOverlap
<1>1. NamesInv => SameNameOnlyOverlap
  BY DEF NamesInv
<1>2. QED BY <1>1, NamesHold, PTL

-----------------------------------------------------------------------------
(* The index and the menu.                                                 *)

Covers(c, id) == JobOf(c).op = "rebuild" \/ mcall[c].id = id

\* A delivery that has still to read the menu will bring the product as it is.
ToEnqueue(c) == mcall[c].pc = "enqueue" /\ ~InTransaction(c)
WillRead(c)  == ToEnqueue(c) \/ JobOf(c) \in jobs \/ work[c].pc \in {"reset", "read"}

\* One that has read it brings what it read.
InHand(c, id) == work[c].pc \in {"write", "delete"} /\ Covers(c, id)
Brings(c, id) == IF work[c].pc = "delete" THEN None ELSE work[c].read[id]

Followed(id) == \/ \E c \in Calls : Covers(c, id) /\ WillRead(c)
                \/ \E c \in Calls : InHand(c, id) /\ Brings(c, id) = products[id]
                \/ vec[id] = products[id] /\ \A c \in Calls : ~InHand(c, id)

Quiet == ~crossed /\ early = {} /\ dropped = {} /\ unsynced = {}

\* A product that was removed does not come back.
Born(id) == \A d \in Calls, t \in Attempts : id = <<d, t>> => ~Unborn(d, t)
Gone(id) == products[id] = None /\ Born(id)

RemovedForGood == \A c \in Calls :
    mcall[c].op = "remove" /\ (WillRead(c) \/ work[c].pc # "idle") => Gone(mcall[c].id)

OneAtWork       == \A c, d \in AtWork : c = d
WipedForRebuild == \A c \in Calls : work[c].op = "rebuild" /\ work[c].pc \in {"read", "write"}
                                        => vec = NoProducts
CommitFollowed  == \A c \in Calls : mcall[c].pc = "commit" => WillRead(c)

IndexInv == /\ RemovedForGood
            /\ Quiet => /\ OneAtWork /\ WipedForRebuild /\ CommitFollowed
                        /\ \A id \in Ids : Followed(id)

\* Where a request that has something to enqueue comes from, and goes.
LEMMA Arrivals ==
    ASSUME CatalogInv, NEW c \in Calls, CatalogStep(c) \/ IngestionStep(c)
    PROVE  /\ mcall'[c].pc = "enqueue" => SaveMenu(c) \/ SaveInTransaction(c)
           /\ mcall'[c].pc = "commit" => EnqueueVectorSync(c)
<1>0. PICK call \in MenuCall : call = mcall[c] /\ OpAt(call)
  BY CallTypes DEF CatalogInv
<1> USE DEF CatalogInv, CatalogTypeOK
<1>1. ASSUME NEW q \in MenuCall, NEW pc \in MenuPc, mcall' = [mcall EXCEPT ![c] = At(q, pc)]
      PROVE  mcall'[c].pc = pc
  BY <1>1, AtKeeps
<1>2. ASSUME NEW pc \in MenuPc, MGoto(c, pc) PROVE mcall'[c].pc = pc
  BY <1>0, <1>1, <1>2 DEF MGoto
<1>3. ASSUME Refused(c) PROVE mcall'[c].pc \in {"fail", "failed"}
  BY <1>2, <1>3 DEF Refused, MenuPc
<1>4. ASSUME NEW q \in MenuCall, mcall' = [mcall EXCEPT ![c] = Loaded(q)]
      PROVE  mcall'[c].pc \notin {"enqueue", "commit"}
  BY <1>4, LoadedKeeps
<1> SUFFICES \/ mcall'[c].pc \notin {"enqueue", "commit"}
             \/ mcall'[c].pc = "enqueue" /\ (SaveMenu(c) \/ SaveInTransaction(c))
             \/ mcall'[c].pc = "commit" /\ EnqueueVectorSync(c)
  OBVIOUS
<1>5. CASE CreateMenu(c)
  <2>1. PICK empty : empty = [call EXCEPT !.snap = NoProducts, !.ver = 0, !.made = TRUE]
    OBVIOUS
  <2>2. empty \in MenuCall
    BY <2>1, CallTypes DEF MenuCall
  <2>3. PICK pc \in MenuPc \ {"enqueue", "commit"} : pc = AfterLoad(empty)
    BY DEF AfterLoad, MenuPc
  <2>4. Refused(c) \/ mcall' = [mcall EXCEPT ![c] = At(empty, pc)]
    BY <1>0, <1>5, <2>1, <2>3 DEF CreateMenu
  <2>5. QED BY <1>1, <1>3, <2>2, <2>4
<1>6. CASE ReadCategories(c) \/ LookupCategory(c) \/ FindOrCreateCategory(c) \/ CommitImport(c)
  <2>1. CASE ReadCategories(c) \/ LookupCategory(c) \/ CommitImport(c)
    BY <1>0, <2>1 DEF ReadCategories, LookupCategory, CommitImport, MenuCall
  <2>2. CASE FindOrCreateCategory(c)
    <3>1. \/ Refused(c) \/ mcall' = [mcall EXCEPT ![c].pc = "newCategory"]
          \/ \E k : mcall' = [mcall EXCEPT ![c].cat = k, ![c].pc = "save"]
      BY <1>0, <2>2, ImportCategorySteps
    <3>2. CASE mcall' = [mcall EXCEPT ![c].pc = "newCategory"]
      BY <1>0, <3>2 DEF MenuCall
    <3>3. CASE \E k : mcall' = [mcall EXCEPT ![c].cat = k, ![c].pc = "save"]
      BY <1>0, <3>3 DEF MenuCall
    <3>4. QED BY <1>3, <3>1, <3>2, <3>3
  <2>3. QED BY <1>6, <2>1, <2>2
<1>7. CASE ReadProducts(c) \/ ParseFile(c)
  BY <1>0, <1>4, <1>7 DEF ReadProducts, ParseFile, Load
<1>8. CASE FillCache(c) \/ WriteCategory(c) \/ InvalidateMenuCache(c)
  <2>1. \E pc \in MenuPc \ {"enqueue", "commit"} : MGoto(c, pc)
    BY <1>8 DEF FillCache, WriteCategory, InvalidateMenuCache, AfterDel, MenuPc
  <2>2. QED BY <1>2, <2>1
<1>9. CASE SaveMenu(c)
  <2>1. Refused(c) \/ mcall'[c].pc = "enqueue"
    BY <1>0, <1>9 DEF SaveMenu, MenuCall
  <2>2. QED BY <1>3, <1>9, <2>1
<1>10. CASE SaveInTransaction(c)
  <2>1. Refused(c) \/ MGoto(c, "enqueue")
    BY <1>10 DEF SaveInTransaction
  <2>2. QED BY <1>2, <1>3, <1>10, <2>1 DEF MenuPc
<1>11. CASE EnqueueVectorSync(c)
  <2>1. \E pc \in MenuPc \ {"enqueue"} : MGoto(c, pc)
    BY <1>11 DEF EnqueueVectorSync, AfterEnqueue, MenuPc
  <2>2. QED BY <1>2, <1>11, <2>1
<1>12. CASE RetryTransaction(c)
  <2>1. PICK q : q = [call EXCEPT !.cat = None]
    OBVIOUS
  <2>2. q \in MenuCall
    BY <2>1 DEF MenuCall
  <2>3. QED BY <1>0, <1>4, <1>12, <2>1, <2>2 DEF RetryTransaction
<1>13. CASE ReadForCascade(c)
  <2>1. PICK q : q = [call EXCEPT !.snap = products, !.ver = version]
    OBVIOUS
  <2>2. q \in MenuCall
    BY <2>1 DEF MenuCall
  <2>3. \E pc \in {"done", "save"} : mcall' = [mcall EXCEPT ![c] = At(q, pc)]
    BY <1>0, <1>13, <2>1 DEF ReadForCascade
  <2>4. QED BY <1>1, <2>2, <2>3 DEF MenuPc
<1>14. CASE EnqueueIngestion(c) \/ StartIngestion(c) \/ RecordSource(c) \/ InvalidateAgain(c)
            \/ CompleteIngestion(c) \/ IngestionThrows(c)
  <2>1. Refused(c) \/ \E pc \in MenuPc \ {"enqueue", "commit"} : MGoto(c, pc)
    BY <1>14 DEF EnqueueIngestion, StartIngestion, RecordSource, InvalidateAgain,
                 CompleteIngestion, IngestionThrows, MenuPc
  <2>2. QED BY <1>2, <1>3, <2>1
<1>15. CASE FailIngestion(c) \/ InstanceDies(c)
  <2>1. \/ \E pc \in {"failed", "lost"} : mcall' = [mcall EXCEPT ![c] = At(call, pc)]
        \/ mcall' = [mcall EXCEPT ![c] = NextAttempt(call)]
    BY <1>0, <1>15 DEF FailIngestion, InstanceDies, Afterwards
  <2>2. NextAttempt(call).pc = "status"
    BY DEF NextAttempt, MenuCall
  <2>3. QED BY <1>0, <1>1, <2>1, <2>2 DEF MenuPc
<1>16. QED BY <1>5, <1>6, <1>7, <1>8, <1>9, <1>10, <1>11, <1>12, <1>13, <1>14, <1>15
           DEF CatalogStep, IngestionStep

\* A request leaves its enqueue with the job enqueued, or dies and is remembered.
LEMMA Departures ==
    ASSUME CatalogInv, NEW c \in Calls, CatalogStep(c) \/ IngestionStep(c), ToEnqueue(c),
           unsynced' = {}
    PROVE  EnqueueVectorSync(c)
<1>1. mcall[c].pc = "enqueue" /\ ~InTransaction(c)
  BY DEF ToEnqueue
<1>2. CASE CatalogStep(c)
  BY <1>1, <1>2 DEF CatalogStep, CreateMenu, ReadCategories, ReadProducts, FillCache,
      LookupCategory, FindOrCreateCategory, FindImportCategory, CreateImportCategory,
      SaveMenu, SaveInTransaction, CommitImport,
      RetryTransaction, WriteCategory, InvalidateMenuCache, ReadForCascade, Uncommitted
<1>3. CASE IngestionStep(c)
  BY <1>1, <1>3 DEF IngestionStep, EnqueueIngestion, StartIngestion, ParseFile, RecordSource,
      InvalidateAgain, CompleteIngestion, IngestionThrows, FailIngestion, InstanceDies
<1>4. QED BY <1>2, <1>3

\* The job enqueued is the one of the request.
LEMMA Enqueued ==
    ASSUME CatalogInv, NEW c \in Calls, EnqueueVectorSync(c)
    PROVE  /\ mcall'[c].op = mcall[c].op /\ mcall'[c].id = mcall[c].id
           /\ JobOf(c)' = JobOf(c) /\ JobOf(c) \in jobs'
<1>1. mcall[c] \in MenuCall
  BY CallTypes DEF CatalogInv
<1>2. PICK pc \in MenuPc : MGoto(c, pc)
  BY DEF EnqueueVectorSync, AfterEnqueue, MenuPc
<1>3. At(mcall[c], pc).op = mcall[c].op /\ At(mcall[c], pc).id = mcall[c].id
  BY <1>1, AtKeeps
<1>4. mcall'[c].op = mcall[c].op /\ mcall'[c].id = mcall[c].id
  BY <1>2, <1>3 DEF MGoto, CatalogInv, CatalogTypeOK
<1>5. QED BY <1>4 DEF JobOf, EnqueueVectorSync

\* The job that a save will enqueue is about every product that the save changes.
LEMMA SaveCovers ==
    ASSUME CatalogInv, NEW c \in Calls, SaveMenu(c), NEW id \in Ids, products'[id] # products[id]
    PROVE  Covers(c, id)' /\ ToEnqueue(c)'
<1>0. PICK call \in MenuCall : call = mcall[c] /\ OpAt(call) /\ Knows(call) /\ call.pc = "save"
  BY CallTypes DEF CatalogInv, SaveMenu
<1>1. PICK snap \in Arrays : snap = call.snap
  BY <1>0 DEF Knows, MenuCall
<1>2. PICK want \in Wanted(c) :
        /\ SaveArray(c, want)
        /\ mcall' = [mcall EXCEPT ![c].pc = "enqueue", ![c].snap = None, ![c].ver = 0,
                    ![c].id = IF mcall[c].op = "add" THEN CHOOSE i \in Touched(c, want) : TRUE
                                                     ELSE mcall[c].id]
  BY DEF SaveMenu
<1>3. /\ mcall'[c].pc = "enqueue" /\ mcall'[c].op = call.op
      /\ call.op = "add" => mcall'[c].id = CHOOSE i \in Touched(c, want) : TRUE
      /\ call.op # "add" => mcall'[c].id = call.id
  BY <1>0, <1>2 DEF MenuCall, CatalogInv, CatalogTypeOK
<1>4. ToEnqueue(c)'
  BY <1>0, <1>3 DEF ToEnqueue, SaveMenu, InTransaction
<1>5. want[id] # snap[id]
  BY <1>0, <1>1, <1>2 DEF SaveArray, Moved, Edited
<1>6. CASE call.op = "add"
  <2>1. Touched(c, want) = {mcall'[c].id}
    <3>1. PICK i \in Ids : Touched(c, want) = {i}
      BY <1>0, <1>6, AddedProduct
    <3>2. (CHOOSE j \in {i} : TRUE) = i
      OBVIOUS
    <3>3. QED BY <1>3, <1>6, <3>1, <3>2
  <2>2. id \in Touched(c, want)
    BY <1>0, <1>1, <1>5 DEF Touched
  <2>3. QED BY <1>4, <2>1, <2>2 DEF Covers
<1>7. CASE call.op \in {"update", "remove"}
  <2>1. \E p : want = [snap EXCEPT ![call.id] = p]
    <3>1. \/ want = [snap EXCEPT ![call.id] = Priced(c, snap[call.id])]
          \/ want = [snap EXCEPT ![call.id] = None]
      BY <1>0, <1>1, <1>7 DEF Wanted, Imports, CategoryOps
    <3>2. QED BY <3>1
  <2>2. id = call.id
    BY <1>1, <1>5, <2>1 DEF Arrays
  <2>3. QED BY <1>3, <1>4, <1>7, <2>2 DEF Covers
<1>8. CASE call.op \in Imports \cup CategoryOps
  BY <1>3, <1>4, <1>8 DEF Covers, JobOf
<1>9. QED BY <1>0, <1>6, <1>7, <1>8 DEF OpAt, Writers

\* Nothing puts back what was there and is not.
LEMMA GoneForGood ==
    ASSUME CatalogInv, UnbornNowhere, NEW c \in Calls,
           CatalogStep(c) \/ IngestionStep(c) \/ BeginCatalogCall(c)
              \/ \E f \in Files : UploadMenu(c, f[1], f[2]),
           NEW id \in Ids, Gone(id)
    PROVE  Gone(id)'
<1>1. Born(id)'
  BY BornForGood DEF Gone, Born
<1>2. products'[id] = None
  <2>1. SUFFICES ASSUME products'[id] # None PROVE FALSE
    OBVIOUS
  <2>2. PICK want \in Wanted(c) : SaveArray(c, want) /\ mcall[c].pc \in {"save", "commit"}
    BY <2>1, OnlySaves DEF Gone
  <2>3. mcall[c].op \in Pushers /\ id = <<c, mcall[c].try>>
    BY <2>1, <2>2, SaveNames DEF Gone
  <2>4. Waits(mcall[c]) /\ mcall[c].try \in Attempts
    BY <2>2, CallTypes DEF CatalogInv, Waits, BeforePush, HasItsMenu, OpAt, MenuCall
  <2>5. Unborn(c, mcall[c].try)
    BY <2>3, <2>4 DEF Unborn
  <2>6. QED BY <2>3, <2>4, <2>5 DEF Gone, Born
<1>3. QED BY <1>1, <1>2 DEF Gone

\* What a removal pulls is gone.
LEMMA RemovedIsGone ==
    ASSUME CatalogInv, UnbornNowhere, NEW c \in Calls, SaveMenu(c), mcall[c].op = "remove",
           mcall'[c].pc = "enqueue"
    PROVE  Gone(mcall[c].id)' /\ mcall'[c].id = mcall[c].id
<1>0. PICK call \in MenuCall : /\ call = mcall[c] /\ Knows(call) /\ call.pc = "save"
                               /\ call.op = "remove"
  BY CallTypes DEF CatalogInv, SaveMenu
<1>1. PICK snap \in Arrays : snap = call.snap /\ call.id \in Ids /\ snap[call.id] # None
  BY <1>0 DEF Knows, MenuCall
<1>2. \/ Refused(c)
      \/ \E want \in Wanted(c) :
           /\ SaveArray(c, want)
           /\ mcall' = [mcall EXCEPT ![c].pc = "enqueue", ![c].snap = None, ![c].ver = 0,
                    ![c].id = IF mcall[c].op = "add" THEN CHOOSE i \in Touched(c, want) : TRUE
                                                     ELSE mcall[c].id]
  BY DEF SaveMenu
<1>3. ~Refused(c)
  <2>1. SUFFICES ASSUME Refused(c) PROVE FALSE
    OBVIOUS
  <2>2. mcall' = [mcall EXCEPT ![c] = At(call, "failed")]
    BY <1>0, <2>1 DEF Refused, MGoto
  <2>3. At(call, "failed").pc = "failed"
    BY AtKeeps DEF MenuPc
  <2>4. QED BY <2>2, <2>3 DEF CatalogInv, CatalogTypeOK
<1>4. PICK want \in Wanted(c) :
           /\ SaveArray(c, want)
           /\ mcall' = [mcall EXCEPT ![c].pc = "enqueue", ![c].snap = None, ![c].ver = 0,
                    ![c].id = IF mcall[c].op = "add" THEN CHOOSE i \in Touched(c, want) : TRUE
                                                     ELSE mcall[c].id]
  BY <1>2, <1>3
<1>5. mcall'[c].id = call.id
  BY <1>0, <1>4 DEF MenuCall, CatalogInv, CatalogTypeOK
<1>6. want = [snap EXCEPT ![call.id] = None]
  BY <1>0, <1>1, <1>4 DEF Wanted, Imports, CategoryOps
<1>7. call.id \in Moved(c, want) /\ want[call.id] = None
  BY <1>0, <1>1, <1>6 DEF Moved, Arrays
<1>8. products'[call.id] = None
  BY <1>1, <1>4, <1>7 DEF SaveArray
<1>9. Born(call.id)
  BY <1>0, <1>1 DEF Born, UnbornNowhere, Nowhere
<1>10. Born(call.id)'
  BY <1>9, BornForGood DEF Born, CatalogStep
<1>11. QED BY <1>0, <1>5, <1>8, <1>10 DEF Gone

\* A step of a request keeps each product followed: what it saves it owes a job for.
LEMMA IndexOfRequests ==
    ASSUME CatalogInv, DeliveriesInv, UnbornNowhere, IndexInv, NEW c \in Calls,
           CatalogStep(c) \/ IngestionStep(c) \/ BeginCatalogCall(c)
              \/ \E f \in Files : UploadMenu(c, f[1], f[2]),
           UNCHANGED vectorVars
    PROVE  IndexInv'
<1>1. PICK next : Moves(c, next)
  BY CatalogInvOfMoves
<1>2. /\ mcall'[c] = next /\ \A e \in Calls \ {c} : mcall'[e] = mcall[e]
      /\ Onward(mcall[c], next) /\ mcall[c] \in MenuCall /\ OpAt(mcall[c])
      /\ hasTx' = hasTx
  BY <1>1, OneMoves, CallTypes DEF Moves, CatalogInv
<1>3. /\ vec' = vec /\ work' = work /\ crossed' = crossed /\ early' = early /\ dropped' = dropped
  BY DEF vectorVars
<1>4. jobs' = jobs \/ (EnqueueVectorSync(c) /\ jobs' = jobs \cup {JobOf(c)})
  BY CatalogVariables
<1>5. unsynced \subseteq unsynced'
  BY DEF CatalogStep, CreateMenu, ReadCategories, ReadProducts, FillCache, LookupCategory,
       FindOrCreateCategory, FindImportCategory, CreateImportCategory,
       SaveMenu, SaveInTransaction, CommitImport, RetryTransaction,
       EnqueueVectorSync, WriteCategory, InvalidateMenuCache, ReadForCascade, Load,
       IngestionStep, EnqueueIngestion, StartIngestion, ParseFile, RecordSource,
       InvalidateAgain, CompleteIngestion, IngestionThrows, FailIngestion, InstanceDies,
       InCatalog, BeginCatalogCall, UploadMenu, GetCached, WriteVariant, CreateCategory,
       FindCategory, ImportMenu, DeleteCategory, AddProduct, UpdateProduct, RemoveProduct
<1>6. \A d \in Calls : JobOf(d).by = d /\ JobOf(d)'.by = d
  BY DEF JobOf
<1>7. ASSUME NEW d \in Calls, JobOf(d) \in jobs \/ JobOf(d)' \in jobs \/ work[d].pc # "idle"
      PROVE  Jobbed(d)
  BY <1>6, <1>7 DEF DeliveriesInv, WorkOk
<1>8. ASSUME NEW d \in Calls, Jobbed(d)
      PROVE  /\ JobOf(d)' = JobOf(d) /\ mcall'[d].op = mcall[d].op
             /\ mcall[d].op \in Writers => mcall'[d].id = mcall[d].id
             /\ \A id \in Ids : Covers(d, id)' = Covers(d, id)
  <2>1. /\ JobOf(d)' = JobOf(d) /\ mcall'[d].op = mcall[d].op
        /\ mcall[d].op \in Writers => mcall'[d].id = mcall[d].id
    BY <1>8, JobbedOn
  <2>2. mcall[d].op \notin Writers => JobOf(d).op = "rebuild"
    BY <1>8 DEF Jobbed, JobOf
  <2>3. QED BY <2>1, <2>2 DEF Covers
<1>9. ASSUME NEW d \in Calls \ {c}
      PROVE  /\ WillRead(d)' = WillRead(d) /\ \A id \in Ids : Covers(d, id)' = Covers(d, id)
  <2>1. JobOf(d)' = JobOf(d) /\ ToEnqueue(d)' = ToEnqueue(d)
    BY <1>2 DEF JobOf, ToEnqueue, InTransaction
  <2>2. JobOf(d) \in jobs' <=> JobOf(d) \in jobs
    BY <1>4, <1>6
  <2>3. \A id \in Ids : Covers(d, id)' = Covers(d, id)
    BY <1>2, <2>1 DEF Covers
  <2>4. QED BY <1>3, <2>1, <2>2, <2>3 DEF WillRead
<1>10. ASSUME WillRead(c), unsynced' = {}
       PROVE  WillRead(c)' /\ \A id \in Ids : Covers(c, id) => Covers(c, id)'
  <2>1. CASE ToEnqueue(c)
    <3>1. CatalogStep(c) \/ IngestionStep(c)
      BY <2>1, BeginMoves DEF ToEnqueue
    <3>2. EnqueueVectorSync(c)
      BY <1>10, <2>1, <3>1, Departures
    <3>3. QED BY <3>2, Enqueued DEF WillRead, Covers
  <2>2. CASE JobOf(c) \in jobs \/ work[c].pc \in {"reset", "read"}
    <3>1. Jobbed(c)
      BY <1>7, <2>2
    <3>2. QED BY <1>3, <1>4, <1>8, <2>2, <3>1 DEF WillRead
  <2>3. QED BY <1>10, <2>1, <2>2 DEF WillRead
<1>11. RemovedForGood'
  <2>1. ASSUME NEW d \in Calls, mcall[d].op = "remove", mcall'[d].id = mcall[d].id,
               WillRead(d) \/ work[d].pc # "idle"
        PROVE  Gone(mcall[d].id)'
    <3>1. PICK id \in Ids : id = mcall[d].id
      BY <2>1, CallTypes DEF CatalogInv, Knows
    <3>2. Gone(id)
      BY <2>1, <3>1 DEF IndexInv, RemovedForGood
    <3>3. Gone(id)'
      BY <3>2, GoneForGood
    <3>4. products'[id] = None /\ Born(id)'
      BY <3>3 DEF Gone
    <3>5. mcall'[d].id = id
      BY <2>1, <3>1
    <3>6. QED BY <2>1, <3>1, <3>3
  <2>2. ASSUME NEW d \in Calls, mcall'[d].op = "remove", WillRead(d)' \/ work'[d].pc # "idle"
        PROVE  Gone(mcall[d].id)'
    <3>1. CASE d # c
      BY <1>2, <1>3, <1>9, <2>1, <2>2, <3>1
    <3>2. CASE d = c /\ Jobbed(c) /\ (JobOf(c)' \in jobs \/ work[c].pc # "idle")
      <4>1. mcall[c].op = "remove" /\ mcall'[c].id = mcall[c].id /\ JobOf(c)' = JobOf(c)
        BY <1>8, <2>2, <3>2 DEF Writers
      <4>2. QED BY <2>1, <3>2, <4>1 DEF WillRead
    <3>3. CASE d = c /\ EnqueueVectorSync(c)
      <4>1. mcall[c].op = "remove" /\ mcall'[c].id = mcall[c].id
        BY <2>2, <3>3, Enqueued
      <4>2. WillRead(c)
        BY <3>3, <4>1 DEF WillRead, ToEnqueue, EnqueueVectorSync, InTransaction, Imports
      <4>3. QED BY <2>1, <3>3, <4>1, <4>2
    <3>4. CASE d = c /\ ToEnqueue(c)'
      <4>1. CatalogStep(c) \/ IngestionStep(c)
        <5>1. SUFFICES ASSUME BeginCatalogCall(c) \/ \E f \in Files : UploadMenu(c, f[1], f[2])
                       PROVE FALSE
          OBVIOUS
        <5>2. PICK n : Moves(c, n) /\ Begun(c, n)
          BY <5>1, BeginMoves
        <5>3. mcall'[c] = n
          BY <5>2, OneMoves
        <5>4. QED BY <3>4, <5>2, <5>3 DEF Begun, ToEnqueue
      <4>2. SaveMenu(c) \/ SaveInTransaction(c)
        BY <3>4, <4>1, Arrivals DEF ToEnqueue
      <4>3. mcall[c].op = "remove"
        BY <1>2, <2>2, <3>4, <4>1, OnlyAtWork DEF Onward
      <4>4. SaveMenu(c)
        BY <4>2, <4>3 DEF SaveInTransaction, InTransaction, Imports
      <4>5. QED BY <3>4, <4>3, <4>4, RemovedIsGone DEF ToEnqueue
    <3>5. CASE d = c /\ ~EnqueueVectorSync(c) /\ ~ToEnqueue(c)'
      <4>1. JobOf(c)' \in jobs \/ work[c].pc # "idle"
        BY <1>3, <1>4, <2>2, <3>5 DEF WillRead
      <4>2. QED BY <1>7, <3>2, <3>5, <4>1
    <3>6. QED BY <3>1, <3>3, <3>4, <3>5
  <2>3. QED BY <2>2 DEF RemovedForGood
<1>12. SUFFICES ASSUME Quiet'
                PROVE  /\ OneAtWork' /\ WipedForRebuild' /\ CommitFollowed'
                       /\ \A id \in Ids : Followed(id)'
  BY <1>11 DEF IndexInv
<1>13. Quiet /\ unsynced' = {}
  BY <1>3, <1>5, <1>12 DEF Quiet
<1>14. OneAtWork /\ WipedForRebuild /\ CommitFollowed /\ \A id \in Ids : Followed(id)
  BY <1>13 DEF IndexInv
<1>15. OneAtWork' /\ WipedForRebuild'
  BY <1>3, <1>14 DEF OneAtWork, WipedForRebuild, AtWork
<1>16. CommitFollowed'
  <2>1. ASSUME NEW d \in Calls, mcall'[d].pc = "commit" PROVE WillRead(d)'
    <3>1. CASE d # c
      BY <1>2, <1>9, <1>14, <2>1, <3>1 DEF CommitFollowed
    <3>2. CASE d = c
      <4>1. CatalogStep(c) \/ IngestionStep(c)
        <5>1. SUFFICES ASSUME BeginCatalogCall(c) \/ \E f \in Files : UploadMenu(c, f[1], f[2])
                       PROVE FALSE
          OBVIOUS
        <5>2. PICK n : Moves(c, n) /\ Begun(c, n)
          BY <5>1, BeginMoves
        <5>3. mcall'[c] = n
          BY <5>2, OneMoves
        <5>4. QED BY <2>1, <3>2, <5>2, <5>3 DEF Begun
      <4>2. EnqueueVectorSync(c)
        BY <2>1, <3>2, <4>1, Arrivals
      <4>3. QED BY <3>2, <4>2, Enqueued DEF WillRead
    <3>3. QED BY <3>1, <3>2
  <2>2. QED BY <2>1 DEF CommitFollowed
<1>17. ASSUME NEW d \in Calls, WillRead(d)
       PROVE  WillRead(d)' /\ \A id \in Ids : Covers(d, id) => Covers(d, id)'
  BY <1>9, <1>10, <1>13, <1>17
<1>18. ASSUME NEW id \in Ids PROVE Followed(id)'
  <2>1. CASE products'[id] # products[id]
    <3>1. SaveMenu(c) \/ (CommitImport(c) /\ mcall[c].pc = "commit")
      BY <2>1, OnlySaves DEF CommitImport
    <3>2. CASE SaveMenu(c)
      <4>1. Covers(c, id)' /\ ToEnqueue(c)'
        BY <2>1, <3>2, SaveCovers
      <4>2. QED BY <4>1 DEF Followed, WillRead
    <3>3. CASE CommitImport(c) /\ mcall[c].pc = "commit"
      <4>1. WillRead(c)
        BY <1>14, <3>3 DEF CommitFollowed
      <4>2. Covers(c, id)
        BY <1>2, <3>3 DEF Covers, JobOf, OpAt
      <4>3. QED BY <1>17, <4>1, <4>2 DEF Followed
    <3>4. QED BY <3>1, <3>2, <3>3
  <2>2. CASE products'[id] = products[id]
    <3>1. ASSUME NEW d \in Calls PROVE InHand(d, id)' = InHand(d, id)
      <4>1. CASE work[d].pc = "idle"
        BY <1>3, <4>1 DEF InHand
      <4>2. CASE work[d].pc # "idle"
        BY <1>3, <1>7, <1>8, <4>2 DEF InHand
      <4>3. QED BY <4>1, <4>2
    <3>2. \A d \in Calls : Brings(d, id)' = Brings(d, id)
      BY <1>3 DEF Brings
    <3>3. Followed(id)
      BY <1>14
    <3>4. CASE \E d \in Calls : Covers(d, id) /\ WillRead(d)
      BY <1>17, <3>4 DEF Followed
    <3>5. CASE \E d \in Calls : InHand(d, id) /\ Brings(d, id) = products[id]
      BY <2>2, <3>1, <3>2, <3>5 DEF Followed
    <3>6. CASE vec[id] = products[id] /\ \A d \in Calls : ~InHand(d, id)
      BY <1>3, <2>2, <3>1, <3>6 DEF Followed
    <3>7. QED BY <3>3, <3>4, <3>5, <3>6 DEF Followed
  <2>3. QED BY <2>1, <2>2
<1>19. QED BY <1>15, <1>16, <1>18

\* A step of a delivery keeps each product followed.
LEMMA IndexOfDeliveries ==
    ASSUME CatalogInv, DeliveriesInv, IndexInv, VectorNext
    PROVE  IndexInv'
<1>0. /\ work \in [Calls -> Delivery] /\ vec \in Arrays /\ products \in Arrays
      /\ jobs \subseteq Jobs /\ mcall \in [Calls -> MenuCall]
  BY DEF DeliveriesInv, VectorTypeOK, CatalogInv, CatalogTypeOK
<1>1. /\ mcall' = mcall /\ products' = products /\ hasTx' = hasTx /\ unsynced' = unsynced
      /\ dropped \subseteq dropped' /\ early \subseteq early' /\ (crossed => crossed')
  <2>1. UNCHANGED <<menuVars, mcall, unsynced>>
    BY DEF VectorNext, TakeJob, ResetNamespace, ReadMenu, WriteVectors, DeleteVector,
           JobFails, catalogVars
  <2>2. dropped \subseteq dropped' /\ early \subseteq early'
    BY DEF VectorNext, TakeJob, ResetNamespace, ReadMenu, WriteVectors, DeleteVector, JobFails
  <2>3. crossed => crossed'
    <3>1. CASE \E j \in jobs : TakeJob(j)
      BY <3>1 DEF TakeJob
    <3>2. CASE ~\E j \in jobs : TakeJob(j)
      BY <3>2 DEF VectorNext, ResetNamespace, ReadMenu, WriteVectors, DeleteVector, JobFails
    <3>3. QED BY <3>1, <3>2
  <2>4. QED BY <2>1, <2>2, <2>3 DEF menuVars
<1>2. \A d \in Calls : /\ JobOf(d)' = JobOf(d) /\ ToEnqueue(d)' = ToEnqueue(d) /\ JobOf(d).by = d
                       /\ \A id \in Ids : Covers(d, id)' = Covers(d, id)
  BY <1>1 DEF JobOf, ToEnqueue, InTransaction, Covers
<1>3. PICK c \in Calls : \/ JobOf(c) \in jobs /\ TakeJob(JobOf(c))
                         \/ ResetNamespace(c) \/ ReadMenu(c) \/ WriteVectors(c)
                         \/ DeleteVector(c) \/ JobFails(c)
  <2>1. CASE \E j \in jobs : TakeJob(j)
    <3>1. PICK j \in jobs : TakeJob(j)
      BY <2>1
    <3>2. j.by \in Calls /\ j = JobOf(j.by)
      BY <1>0 DEF DeliveriesInv, Jobs
    <3>3. QED BY <3>1, <3>2
  <2>2. QED BY <2>1 DEF VectorNext
<1>4. WorkOk(c)
  BY DEF DeliveriesInv
<1>5. JobOf(c) \in jobs => JobOf(c).op \in {"upsert", "delete", "rebuild"}
  BY <1>0 DEF Jobs
<1>6. /\ \A d \in Calls \ {c} : work'[d] = work[d]
      /\ jobs' \cup {JobOf(c)} = jobs \cup {JobOf(c)}
  <2>1. CASE TakeJob(JobOf(c))
    BY <1>0, <1>2, <2>1 DEF TakeJob
  <2>2. CASE ResetNamespace(c) \/ ReadMenu(c) \/ WriteVectors(c) \/ DeleteVector(c)
    BY <1>0, <2>2 DEF ResetNamespace, ReadMenu, WriteVectors, DeleteVector, WorkGoto, catalogVars
  <2>3. CASE JobFails(c)
    <3>1. [by |-> c, op |-> work[c].op] = JobOf(c)
      BY <1>4, <2>3 DEF JobFails, WorkOk, JobOf
    <3>2. QED BY <1>0, <2>3, <3>1 DEF JobFails
  <2>4. QED BY <1>3, <2>1, <2>2, <2>3
<1>7. ASSUME NEW d \in Calls \ {c} PROVE WillRead(d)' = WillRead(d)
  BY <1>2, <1>6 DEF WillRead
<1>8. WillRead(c) \/ work[c].pc # "idle"
  BY <1>3 DEF WillRead, ResetNamespace, ReadMenu, WriteVectors, DeleteVector, JobFails
<1>9. RemovedForGood'
  <2>1. ASSUME NEW d \in Calls, mcall[d].op = "remove", WillRead(d)' \/ work'[d].pc # "idle"
        PROVE  Gone(mcall[d].id)
    BY <1>6, <1>7, <1>8, <2>1 DEF IndexInv, RemovedForGood
  <2>2. ASSUME NEW id, Gone(id) PROVE Gone(id)'
    BY <1>1, <2>2 DEF Gone, Born, Unborn, Waits
  <2>3. QED BY <1>1, <2>1, <2>2 DEF RemovedForGood
<1>10. SUFFICES ASSUME Quiet'
                PROVE  /\ OneAtWork' /\ WipedForRebuild' /\ CommitFollowed'
                       /\ \A id \in Ids : Followed(id)'
  BY <1>9 DEF IndexInv
<1>11. Quiet
  BY <1>1, <1>10 DEF Quiet
<1>12. OneAtWork /\ WipedForRebuild /\ CommitFollowed /\ \A id \in Ids : Followed(id)
  BY <1>11 DEF IndexInv
<1>13. \A d \in Calls \ {c} : work[d].pc = "idle" /\ work'[d].pc = "idle"
  <2>1. CASE TakeJob(JobOf(c))
    BY <1>6, <1>10, <2>1 DEF TakeJob, Quiet, AtWork
  <2>2. CASE ~TakeJob(JobOf(c))
    <3>1. c \in AtWork
      BY <1>3, <2>2 DEF AtWork, ResetNamespace, ReadMenu, WriteVectors, DeleteVector, JobFails
    <3>2. QED BY <1>6, <1>12, <3>1 DEF OneAtWork, AtWork
  <2>3. QED BY <2>1, <2>2
<1>14. OneAtWork'
  BY <1>13 DEF OneAtWork, AtWork
<1>15. \A d \in Calls \ {c}, id \in Ids : ~InHand(d, id) /\ ~InHand(d, id)'
  BY <1>13 DEF InHand
<1>16. CASE TakeJob(JobOf(c)) /\ JobOf(c) \in jobs
  <2>1. vec' = vec /\ work[c].pc = "idle"
    BY <1>2, <1>16 DEF TakeJob
  <2>2. work'[c].pc = CASE JobOf(c).op = "rebuild" -> "reset"
                        [] JobOf(c).op = "upsert"  -> "read"
                        [] JobOf(c).op = "delete"  -> "delete"
    BY <1>0, <1>2, <1>16 DEF TakeJob, NoWork
  <2>3. work'[c].op = JobOf(c).op
    BY <1>0, <1>2, <1>16 DEF TakeJob, NoWork
  <2>4. JobOf(c).op # "delete" => work'[c].pc \in {"reset", "read"}
    BY <1>5, <1>16, <2>2
  <2>5. work'[c].op = "rebuild" => work'[c].pc = "reset"
    BY <2>2, <2>3
  <2>6. WipedForRebuild'
    BY <1>13, <2>5 DEF WipedForRebuild
  <2>7. CommitFollowed'
    <3>1. mcall[c].pc = "commit" => WillRead(c)'
      BY <1>2, <2>4, CallTypes DEF WillRead, JobOf, OpAt, CatalogInv
    <3>2. QED BY <1>1, <1>7, <1>12, <3>1 DEF CommitFollowed
  <2>8. ASSUME NEW id \in Ids PROVE Followed(id)'
    <3>1. Followed(id) /\ ~InHand(c, id)
      BY <1>12, <2>1 DEF InHand
    <3>2. CASE \E d \in Calls \ {c} : Covers(d, id) /\ WillRead(d)
      BY <1>2, <1>7, <3>2 DEF Followed
    <3>3. CASE JobOf(c).op # "delete" /\ Covers(c, id)
      BY <1>2, <2>4, <3>3 DEF Followed, WillRead
    <3>4. CASE JobOf(c).op = "delete" /\ Covers(c, id)
      <4>1. mcall[c].op = "remove" /\ mcall[c].id = id
        BY <3>4 DEF JobOf, Covers
      <4>2. products[id] = None
        BY <1>16, <4>1 DEF IndexInv, RemovedForGood, WillRead, Gone
      <4>3. InHand(c, id)' /\ Brings(c, id)' = None
        BY <1>2, <2>2, <3>4 DEF InHand, Brings
      <4>4. QED BY <1>1, <4>2, <4>3 DEF Followed
    <3>5. CASE ~Covers(c, id) /\ ~\E d \in Calls \ {c} : Covers(d, id) /\ WillRead(d)
      <4>1. vec[id] = products[id]
        BY <1>15, <3>1, <3>5 DEF Followed
      <4>2. \A d \in Calls : ~InHand(d, id)'
        BY <1>2, <1>15, <3>5 DEF InHand
      <4>3. QED BY <1>1, <2>1, <4>1, <4>2 DEF Followed
    <3>6. QED BY <3>2, <3>3, <3>4, <3>5
  <2>9. QED BY <1>14, <2>6, <2>7, <2>8
<1>17. CASE ResetNamespace(c)
  <2>1. /\ work[c].pc = "reset" /\ vec' = NoProducts /\ work'[c].pc = "read"
    BY <1>0, <1>17 DEF ResetNamespace, WorkGoto, Delivery
  <2>2. JobOf(c).op = "rebuild"
    BY <1>4, <2>1 DEF WorkOk
  <2>3. WillRead(c)' /\ \A id \in Ids : Covers(c, id)'
    BY <1>2, <2>1, <2>2 DEF WillRead, Covers
  <2>4. WipedForRebuild'
    <3>1. NoProducts' = NoProducts
      BY DEF NoProducts
    <3>2. QED BY <2>1, <3>1 DEF WipedForRebuild
  <2>5. CommitFollowed'
    BY <1>1, <1>7, <1>12, <2>3 DEF CommitFollowed
  <2>6. QED BY <1>14, <2>3, <2>4, <2>5 DEF Followed
<1>18. CASE ReadMenu(c)
  <2>1. /\ vec' = vec /\ jobs' = jobs /\ work[c].pc = "read" /\ c \notin Uncommitted
    BY <1>10, <1>18 DEF ReadMenu, catalogVars, Quiet
  <2>2. work[c].op = JobOf(c).op /\ JobOf(c).op \in {"rebuild", "upsert"} /\ Jobbed(c)
    BY <1>4, <2>1 DEF WorkOk, JobOf
  <2>3. work[c].op = "rebuild" => vec = NoProducts
    BY <1>12, <2>1 DEF WipedForRebuild
  <2>4. WipedForRebuild'
    <3>1. work'[c].op = work[c].op \/ work'[c].pc = "idle"
      BY <1>0, <1>18 DEF ReadMenu, NoWork, Delivery
    <3>2. NoProducts' = NoProducts
      BY DEF NoProducts
    <3>3. QED BY <1>13, <2>1, <2>3, <3>1, <3>2 DEF WipedForRebuild
  <2>5. CommitFollowed'
    <3>1. mcall[c].pc # "commit"
      BY <2>1, CallTypes DEF CatalogInv, OpAt, HasItsMenu, Uncommitted, InTransaction
    <3>2. QED BY <1>1, <1>7, <1>12, <3>1 DEF CommitFollowed
  <2>6. ASSUME NEW id \in Ids PROVE Followed(id)'
    <3>1. Followed(id) /\ ~InHand(c, id)
      BY <1>12, <2>1 DEF InHand
    <3>2. CASE \E d \in Calls \ {c} : Covers(d, id) /\ WillRead(d)
      BY <1>2, <1>7, <3>2 DEF Followed
    <3>3. CASE Covers(c, id)
      <4>1. CASE work' = [work EXCEPT ![c] = NoWork] /\ work[c].op = "rebuild" /\ Live = {}
        <5>1. vec[id] = None /\ products[id] = None
          BY <2>3, <4>1 DEF NoProducts, Live, InArray
        <5>2. work'[c].pc = "idle"
          BY <1>0, <4>1 DEF NoWork
        <5>3. \A d \in Calls : ~InHand(d, id)'
          BY <1>15, <5>2 DEF InHand
        <5>4. QED BY <1>1, <2>1, <5>1, <5>3 DEF Followed
      <4>2. CASE ~(work[c].op = "rebuild" /\ Live = {})
        <5>1. PICK arr : arr = [i \in Ids |-> IF work[c].op = "rebuild" \/ i = mcall[c].id
                                              THEN products[i] ELSE None]
          OBVIOUS
        <5>2. arr[id] = products[id]
          BY <2>2, <3>3, <5>1 DEF Covers
        <5>3. PICK pc \in {"write", "delete"} :
                /\ work' = [work EXCEPT ![c] = [@ EXCEPT !.read = arr, !.pc = pc]]
                /\ pc = "delete" => work[c].op # "rebuild" /\ products[mcall[c].id] = None
          BY <1>18, <4>2, <5>1 DEF ReadMenu
        <5>4. work'[c].pc = pc /\ work'[c].read = arr
          BY <1>0, <5>3 DEF Delivery
        <5>5. InHand(c, id)'
          BY <1>2, <3>3, <5>4 DEF InHand
        <5>6. Brings(c, id)' = products[id]
          BY <2>2, <3>3, <5>2, <5>3, <5>4 DEF Brings, Covers
        <5>7. QED BY <1>1, <5>5, <5>6 DEF Followed
      <4>3. QED BY <1>18, <4>1, <4>2 DEF ReadMenu
    <3>4. CASE ~Covers(c, id) /\ ~\E d \in Calls \ {c} : Covers(d, id) /\ WillRead(d)
      <4>1. vec[id] = products[id]
        BY <1>15, <3>1, <3>4 DEF Followed
      <4>2. \A d \in Calls : ~InHand(d, id)'
        BY <1>2, <1>15, <3>4 DEF InHand
      <4>3. QED BY <1>1, <2>1, <4>1, <4>2 DEF Followed
    <3>5. QED BY <3>2, <3>3, <3>4
  <2>7. QED BY <1>14, <2>4, <2>5, <2>6
<1>19. CASE WriteVectors(c) \/ DeleteVector(c)
  <2>1. /\ work[c].pc \in {"write", "delete"} /\ jobs' = jobs /\ work'[c].pc = "idle"
    BY <1>0, <1>19 DEF WriteVectors, DeleteVector, catalogVars, NoWork
  <2>2. work[c].op = JobOf(c).op /\ Jobbed(c)
    BY <1>4, <2>1 DEF WorkOk
  <2>3. WillRead(c)' = WillRead(c)
    BY <1>2, <2>1 DEF WillRead
  <2>4. WipedForRebuild' /\ CommitFollowed'
    BY <1>1, <1>7, <1>12, <1>13, <2>1, <2>3 DEF WipedForRebuild, CommitFollowed
  <2>5. ASSUME NEW id \in Ids, ~InHand(c, id) PROVE vec'[id] = vec[id]
    <3>1. work[c].op # "rebuild" /\ mcall[c].id # id
      BY <2>1, <2>2, <2>5 DEF InHand, Covers
    <3>2. QED BY <1>0, <1>19, <3>1 DEF WriteVectors, DeleteVector, Arrays
  <2>6. ASSUME NEW id \in Ids, InHand(c, id) PROVE vec'[id] = Brings(c, id)
    <3>1. CASE DeleteVector(c)
      <4>1. work[c].pc = "delete"
        BY <3>1 DEF DeleteVector
      <4>2. mcall[c].id = id
        BY <1>4, <2>2, <2>6, <4>1 DEF WorkOk, InHand, Covers
      <4>3. QED BY <1>0, <3>1, <4>1, <4>2 DEF DeleteVector, Brings, Arrays
    <3>2. CASE WriteVectors(c) /\ work[c].op = "rebuild"
      <4>1. work[c].pc = "write" /\ vec[id] = None
        BY <1>12, <3>2 DEF WriteVectors, WipedForRebuild, NoProducts
      <4>2. QED BY <3>2, <4>1 DEF WriteVectors, Brings
    <3>3. CASE WriteVectors(c) /\ work[c].op # "rebuild"
      <4>1. work[c].pc = "write" /\ mcall[c].id = id
        BY <2>2, <2>6, <3>3 DEF WriteVectors, InHand, Covers
      <4>2. QED BY <1>0, <3>3, <4>1 DEF WriteVectors, Brings, Arrays
    <3>4. QED BY <1>19, <3>1, <3>2, <3>3
  <2>7. ASSUME NEW id \in Ids PROVE Followed(id)'
    <3>1. Followed(id)
      BY <1>12
    <3>2. CASE \E d \in Calls : Covers(d, id) /\ WillRead(d)
      BY <1>2, <1>7, <2>3, <3>2 DEF Followed
    <3>3. CASE ~\E d \in Calls : Covers(d, id) /\ WillRead(d)
      <4>1. \A d \in Calls : ~InHand(d, id)'
        BY <1>15, <2>1 DEF InHand
      <4>2. vec'[id] = products[id]
        BY <1>15, <2>5, <2>6, <3>1, <3>3 DEF Followed
      <4>3. QED BY <1>1, <4>1, <4>2 DEF Followed
    <3>4. QED BY <3>2, <3>3
  <2>8. QED BY <1>14, <2>4, <2>7
<1>20. CASE JobFails(c)
  <2>1. /\ work[c].pc \in {"write", "delete"} /\ vec' = vec /\ work'[c].pc = "idle"
        /\ jobs' = jobs \cup {[by |-> c, op |-> work[c].op]}
    BY <1>0, <1>10, <1>20 DEF JobFails, NoWork, Quiet
  <2>2. [by |-> c, op |-> work[c].op] = JobOf(c)
    BY <1>4, <2>1 DEF WorkOk, JobOf
  <2>3. WillRead(c)'
    BY <1>2, <2>1, <2>2 DEF WillRead
  <2>4. WipedForRebuild' /\ CommitFollowed'
    BY <1>1, <1>7, <1>12, <1>13, <2>1, <2>3 DEF WipedForRebuild, CommitFollowed
  <2>5. ASSUME NEW id \in Ids PROVE Followed(id)'
    <3>1. Followed(id)
      BY <1>12
    <3>2. CASE Covers(c, id)
      BY <1>2, <2>3, <3>2 DEF Followed
    <3>3. CASE ~Covers(c, id)
      <4>1. ~InHand(c, id) /\ ~InHand(c, id)'
        BY <1>2, <3>3 DEF InHand
      <4>2. QED BY <1>1, <1>2, <1>7, <1>15, <2>1, <3>1, <3>3, <4>1 DEF Followed
    <3>4. QED BY <3>2, <3>3
  <2>6. QED BY <1>14, <2>4, <2>5
<1>21. QED BY <1>3, <1>16, <1>17, <1>18, <1>19, <1>20

\* Every product of the menu is followed by a job, a delivery or the index itself.
LEMMA IndexHolds == Spec => []IndexInv
<1>1. Init => IndexInv
  <2> SUFFICES ASSUME Init PROVE IndexInv
    OBVIOUS
  <2>1. vec = products /\ jobs = {}
    BY DEF Init, VectorInit, CatalogInit
  <2>2. \A c \in Calls : work[c].pc = "idle" /\ mcall[c].pc = "idle"
    BY DEF Init, VectorInit, CatalogInit, NoWork, IdleCall
  <2>3. \A c \in Calls : ~WillRead(c) /\ \A id \in Ids : ~InHand(c, id)
    BY <2>1, <2>2 DEF WillRead, ToEnqueue, InHand
  <2>4. QED BY <2>1, <2>2, <2>3 DEF IndexInv, RemovedForGood, OneAtWork, AtWork, WipedForRebuild,
         CommitFollowed, Followed
<1>2. MenuInv /\ NamesInv /\ IndexInv /\ [Next]_allVars => IndexInv'
  <2> SUFFICES ASSUME MenuInv, NamesInv, IndexInv, [Next]_allVars PROVE IndexInv'
    OBVIOUS
  <2>1. CASE /\ \E c \in Calls : Begin(c) \/ ImportStep(c) \/ IngestionStep(c)
             /\ UNCHANGED vectorVars
    BY <2>1, IndexOfRequests DEF Begin, ImportStep, MenuInv, NamesInv
  <2>2. CASE VectorNext
    BY <2>2, IndexOfDeliveries DEF MenuInv
  <2>3. CASE UNCHANGED allVars
    <3> USE <2>3 DEF allVars, catalogVars, menuVars, vectorVars
    <3>1. \A c \in Calls : /\ WillRead(c)' = WillRead(c) /\ work'[c] = work[c]
                           /\ mcall'[c] = mcall[c]
                           /\ \A id : /\ InHand(c, id)' = InHand(c, id)
                                      /\ Brings(c, id)' = Brings(c, id)
                                      /\ Covers(c, id)' = Covers(c, id)
      BY DEF WillRead, ToEnqueue, InTransaction, JobOf, InHand, Brings, Covers
    <3>2. \A id : Gone(id)' = Gone(id)
      BY DEF Gone, Born, Unborn, Waits
    <3>3. \A id : Followed(id)' = Followed(id)
      BY <3>1 DEF Followed
    <3>4. RemovedForGood'
      BY <3>1, <3>2 DEF IndexInv, RemovedForGood
    <3>5. QED BY <3>1, <3>3, <3>4 DEF IndexInv, Quiet, OneAtWork, AtWork, WipedForRebuild,
           CommitFollowed, NoProducts
  <2>4. QED BY <2>1, <2>2, <2>3 DEF Next
<1>3. QED BY <1>1, <1>2, MenuInvariant, NamesHold, PTL DEF Spec

\* Once nothing is left to do the index holds the menu: every product has a delivery that will
\* still read it, or one that has read it as it is, or it is in the index as it is. That holds
\* of any number of requests, products, uploads and faults, and in whatever order the queue
\* delivers (vector-sync.worker.ts:18-40, vector/sync.service.ts:37-72).
THEOREM IndexFollows == Spec => []IndexMatchesMenu
<1>1. MenuInv /\ IndexInv => IndexMatchesMenu
  <2> SUFFICES ASSUME MenuInv, IndexInv, Settled, Quiet PROVE vec = products
    BY DEF IndexMatchesMenu, Quiet
  <2>1. \A c \in Calls : ~WillRead(c) /\ \A id \in Ids : ~InHand(c, id)
    BY DEF Settled, WillRead, ToEnqueue, InHand, AtWork
  <2>2. \A id \in Ids : vec[id] = products[id]
    BY <2>1 DEF IndexInv, Followed
  <2>3. vec \in Arrays /\ products \in Arrays
    BY DEF MenuInv, CatalogInv, CatalogTypeOK, DeliveriesInv, VectorTypeOK
  <2>4. QED BY <2>2, <2>3 DEF Arrays
<1>2. QED BY <1>1, MenuInvariant, IndexHolds, PTL

-----------------------------------------------------------------------------
(* The cached catalog and the menu.                                        *)

Writer(w) == mcall[w].op \notin {None, "read"}

\* It has changed the menu, or may have, and is still to delete the cached catalog; or its
\* instance died before it could.
Owes(w) == LET call == mcall[w] IN
           /\ Writer(w)
           /\ \/ call.pc \in {"del", "lost"}
              \/ call.pc = "enqueue" /\ call.op \notin CategoryOps /\ ~InTransaction(w)
              \/ /\ call.op = "upload"
                 /\ call.pc \notin {"denied", "done", "record", "del2", "complete"}

\* An import outside a transaction may have made its category.
MadeCategory(w) == mcall[w].op = "import" /\ mcall[w].pc = "save" /\ ~hasTx

\* A request that has not ended and overlapped a writer read what is not any more.
ReadsApart == \A r \in Calls :
    /\ mcall[r].op = "read" /\ mcall[r].pc \in {"menu", "newMenu", "fill"}
    /\ mcall[r].cats # catName \/ (mcall[r].pc = "fill" /\ mcall[r].snap # products)
    => \E w \in Calls : Writer(w) /\ Overlap(r, w)

CachedApart == cache # None /\ (cache.cats # catName \/ cache.products # products) =>
    \E w \in Calls : Writer(w) /\ (Overlap(cache.by, w) \/ Owes(w) \/ MadeCategory(w))

\* A cascade saves with the key deleted already, so what is cached then was filled since.
FilledSince == cache # None => \A w \in Calls :
    mcall[w].op \in CategoryOps /\ mcall[w].pc \in {"cascade", "save", "enqueue"}
        => cache.by \notin mcall[w].after

\* An import that will be refused for the version of the menu: another one pushed or pulled.
RefusalOwed == cache # None => \A w \in Calls :
    /\ mcall[w].op = "import" /\ ~hasTx /\ mcall[w].pc \in {"category", "newCategory", "save"}
    /\ mcall[w].ver # version
    => Overlap(cache.by, w) \/ \E x \in Calls \ {w} : Owes(x)

CacheInv == /\ cache # None => mcall[cache.by].op = "read"
            /\ ~hasMenu => version = 0
            /\ ReadsApart /\ CachedApart /\ FilledSince /\ RefusalOwed

\* Requests that overlapped have overlapped for good.
LEMMA OverlapStays ==
    ASSUME CatalogInv, EndedBefore, NEW c \in Calls,
           CatalogStep(c) \/ IngestionStep(c) \/ BeginCatalogCall(c)
              \/ \E f \in Files : UploadMenu(c, f[1], f[2])
    PROVE  /\ mcall[c].pc \notin Ended \ {"idle"}
           /\ \A e \in Calls : c \notin mcall[e].after
           /\ \A e \in Calls : mcall[e].op # None =>
                  mcall'[e].op = mcall[e].op /\ mcall'[e].after = mcall[e].after
           /\ \A e \in Calls \ {c} : mcall'[e] = mcall[e]
           /\ \A d, e \in Calls : mcall[d].op # None /\ mcall[e].op # None =>
                  Overlap(d, e)' = Overlap(d, e)
<1>1. PICK next : Moves(c, next)
  BY CatalogInvOfMoves
<1>2. /\ mcall'[c] = next /\ \A e \in Calls \ {c} : mcall'[e] = mcall[e]
      /\ Onward(mcall[c], next)
  BY <1>1, OneMoves DEF Moves
<1>3. mcall[c].pc \notin Ended \ {"idle"}
  BY OnlyAtWork, BeginMoves
<1>4. \A e \in Calls : c \notin mcall[e].after
  BY <1>3 DEF EndedBefore
<1>5. ASSUME mcall[c].op # None PROVE next.op = mcall[c].op /\ next.after = mcall[c].after
  BY <1>2, <1>5, LocalsStep, BeginMoves DEF Onward
<1>6. \A e \in Calls : mcall[e].op # None =>
          mcall'[e].op = mcall[e].op /\ mcall'[e].after = mcall[e].after
  BY <1>2, <1>5
<1>7. QED BY <1>2, <1>3, <1>4, <1>6 DEF Overlap

\* What a request that reads the catalog has read.
LEMMA ReaderSteps ==
    ASSUME CatalogInv, NEW c \in Calls,
           CatalogStep(c) \/ IngestionStep(c) \/ BeginCatalogCall(c)
              \/ \E f \in Files : UploadMenu(c, f[1], f[2]),
           mcall'[c].op = "read"
    PROVE  /\ catName' = catName /\ products' = products /\ version' = version
           /\ cache' = cache \/ FillCache(c)
           /\ mcall'[c].pc = "menu" => mcall'[c].cats = catName
           /\ mcall'[c].pc \in {"newMenu", "fill"} =>
                 /\ mcall[c].op = "read" /\ mcall[c].pc \in {"menu", "newMenu"}
                 /\ mcall'[c].cats = mcall[c].cats
                 /\ mcall'[c].pc = "fill" => mcall'[c].snap = products
<1> USE DEF CatalogInv, CatalogTypeOK
<1>1. PICK next : Moves(c, next)
  BY CatalogInvOfMoves
<1>2. /\ mcall'[c] = next /\ Onward(mcall[c], next) /\ next.op = "read"
      /\ mcall[c] \in MenuCall /\ OpAt(mcall[c]) /\ Knows(mcall[c])
  BY <1>1, OneMoves, CallTypes DEF Moves
<1>3. PICK call \in MenuCall : call = mcall[c] /\ OpAt(call)
  BY <1>2
<1>4. CASE BeginCatalogCall(c) \/ \E f \in Files : UploadMenu(c, f[1], f[2])
  <2>1. next.pc \in {"cats", "done"} /\ catName' = catName
    <3>1. PICK n : Moves(c, n) /\ Begun(c, n)
      BY <1>4, BeginMoves
    <3>2. n = next
      BY <1>2, <3>1, OneMoves
    <3>3. QED BY <1>2, <3>1, <3>2 DEF Begun
  <2>2. products' = products /\ version' = version
    <3>1. mcall[c].pc = "idle"
      BY <1>4, BeginMoves
    <3>2. QED BY <3>1, OnlySaves
  <2>3. cache' = cache
    BY <1>4 DEF BeginCatalogCall, UploadMenu, GetCached, WriteVariant, CreateCategory, FindCategory,
       ImportMenu, DeleteCategory, AddProduct, UpdateProduct, RemoveProduct, Load, InCatalog
  <2>4. QED BY <1>2, <2>1, <2>2, <2>3
<1>5. CASE CatalogStep(c) \/ IngestionStep(c)
  <2>1. call.op = "read" /\ call.pc \notin Ended
    BY <1>2, <1>3, <1>5, OnlyAtWork DEF Onward
  <2>2. call.pc \in {"cats", "menu", "newMenu", "fill"}
    BY <1>3, <2>1 DEF OpAt, MenuCall, MenuPc, Ended, Writers, Imports, CategoryOps
  <2>3. ReadCategories(c) \/ ReadProducts(c) \/ CreateMenu(c) \/ FillCache(c) \/ InstanceDies(c)
    BY <1>3, <1>5, <2>1, <2>2 DEF CatalogStep, LookupCategory, FindOrCreateCategory,
       FindImportCategory, CreateImportCategory, SaveMenu, SaveInTransaction,
       CommitImport, RetryTransaction, EnqueueVectorSync, WriteCategory, InvalidateMenuCache,
       ReadForCascade, Uncommitted, InTransaction, Imports,
       IngestionStep, EnqueueIngestion, StartIngestion, ParseFile, RecordSource, InvalidateAgain,
       CompleteIngestion, IngestionThrows, FailIngestion
  <2>4. catName' = catName /\ products' = products /\ version' = version
    BY <2>3 DEF ReadCategories, ReadProducts, CreateMenu, FillCache, InstanceDies, Load, menuVars
  <2>5. cache' = cache \/ FillCache(c)
    BY <2>3 DEF ReadCategories, ReadProducts, CreateMenu, InstanceDies, Load
  <2>6. ASSUME NEW pc \in {"done", "failed", "lost"}, mcall' = [mcall EXCEPT ![c] = At(call, pc)]
        PROVE  next.pc \notin {"menu", "newMenu", "fill"}
    <3>1. At(call, pc).pc = pc
      BY AtKeeps DEF MenuPc
    <3>2. QED BY <1>2, <2>6, <3>1
  <2>7. CASE ReadCategories(c)
    BY <1>2, <1>3, <2>4, <2>5, <2>7 DEF ReadCategories, MenuCall
  <2>8. CASE ReadProducts(c)
    <3>1. next = Loaded(call) /\ call.pc = "menu"
      BY <1>2, <1>3, <2>8 DEF ReadProducts, Load
    <3>2. PICK arr \in Arrays, n \in Nat : arr = products /\ n = version
      OBVIOUS
    <3>3. PICK read : read = [call EXCEPT !.snap = arr, !.ver = n, !.made = FALSE]
      OBVIOUS
    <3>4. read \in MenuCall /\ read.snap = products /\ read.cats = call.cats /\ read.op = "read"
      BY ZenonT(60), <2>1, <3>2, <3>3 DEF MenuCall
    <3>5. CASE hasMenu
      <4>1. next = At(read, "fill")
        BY <3>1, <3>2, <3>3, <3>4, <3>5 DEF Loaded, AfterLoad
      <4>2. next = [read EXCEPT !.pc = "fill"]
        BY <4>1 DEF At, Ended
      <4>3. next.pc = "fill" /\ next.snap = products /\ next.cats = call.cats
        BY <3>4, <4>2 DEF MenuCall
      <4>4. QED BY <1>2, <1>3, <2>1, <2>4, <2>5, <3>1, <4>3
    <3>6. CASE ~hasMenu
      <4>1. next.pc = "newMenu" /\ next.cats = call.cats
        BY <3>1, <3>6 DEF Loaded, MenuCall
      <4>2. QED BY <1>2, <1>3, <2>1, <2>4, <2>5, <3>1, <4>1
    <3>7. QED BY <3>5, <3>6
  <2>9. CASE CreateMenu(c)
    <3>1. CASE Refused(c)
      <4>1. mcall' = [mcall EXCEPT ![c] = At(call, "failed")]
        BY <1>3, <2>1, <3>1 DEF Refused, MGoto
      <4>2. next.pc \notin {"menu", "newMenu", "fill"}
        BY <2>6, <4>1
      <4>3. QED BY <1>2, <2>4, <2>5, <4>2
    <3>2. CASE ~Refused(c)
      <4>1. PICK empty : empty = [call EXCEPT !.snap = NoProducts, !.ver = 0, !.made = TRUE]
        OBVIOUS
      <4>2. /\ empty \in MenuCall /\ empty.snap = NoProducts
            /\ empty.cats = call.cats /\ empty.op = "read"
        BY <2>1, <4>1, CallTypes DEF MenuCall
      <4>3. ~hasMenu /\ mcall' = [mcall EXCEPT ![c] = At(empty, "fill")]
        BY <1>3, <2>9, <3>2, <4>1, <4>2 DEF CreateMenu, AfterLoad
      <4>4. products = NoProducts
        BY <4>3 DEF Live, InArray, Arrays, NoProducts
      <4>5. next = [empty EXCEPT !.pc = "fill"]
        BY <1>2, <4>3 DEF At, Ended
      <4>6. next.pc = "fill" /\ next.snap = products /\ next.cats = call.cats
        BY <4>2, <4>4, <4>5 DEF MenuCall
      <4>7. call.pc = "newMenu"
        BY <1>3, <2>9 DEF CreateMenu
      <4>8. QED BY <1>2, <1>3, <2>1, <2>4, <2>5, <4>6, <4>7
    <3>3. QED BY <3>1, <3>2
  <2>10. CASE FillCache(c) \/ InstanceDies(c)
    <3>1. \E pc \in {"done", "failed", "lost"} : mcall' = [mcall EXCEPT ![c] = At(call, pc)]
      BY <1>3, <2>1, <2>10 DEF FillCache, InstanceDies, MGoto
    <3>2. next.pc \notin {"menu", "newMenu", "fill"}
      BY <2>6, <3>1
    <3>3. QED BY <1>2, <2>4, <2>5, <3>2
  <2>11. QED BY <2>3, <2>7, <2>8, <2>9, <2>10
<1>6. QED BY <1>4, <1>5

\* A cascade moves no product, so it leaves the version of the menu.
LEMMA CascadeKeepsVersion ==
    ASSUME CatalogInv, NEW c \in Calls, mcall[c].pc = "save", mcall[c].op \in CategoryOps,
           NEW want \in Wanted(c)
    PROVE  Moved(c, want) = {}
<1>1. PICK call \in MenuCall, snap \in Arrays :
         call = mcall[c] /\ snap = call.snap /\ call.op \in CategoryOps
  BY CallTypes DEF CatalogInv, Knows, MenuCall
<1>2. want = [id \in Ids |-> Relabelled(c, snap[id])]
  BY <1>1 DEF Wanted, Imports, CategoryOps
<1>3. ASSUME NEW id \in Ids PROVE (snap[id] = None) = (want[id] = None)
  <2>1. CASE snap[id] = None
    BY <1>2, <2>1 DEF Relabelled
  <2>2. CASE snap[id] # None
    <3>1. PICK p \in Product : p = snap[id]
      BY <2>2 DEF Arrays
    <3>2. Relabelled(c, p) # None
      <4>1. p # None
        OBVIOUS
      <4>2. CASE call.op = "drop"
        <5>1. [p EXCEPT !.cat = None, !.label = None, !.price = c] \in Product
          BY DEF Product
        <5>2. [p EXCEPT !.cat = None, !.label = None, !.price = c] # None
          BY <5>1
        <5>3. QED BY <1>1, <4>1, <4>2, <5>2 DEF Relabelled
      <4>3. CASE call.op = "rename"
        <5>1. call.name \in CategoryNames
          BY <1>1, <4>3, CallTypes DEF CatalogInv, Knows, Ended
        <5>2. [p EXCEPT !.label = call.name, !.price = c] \in Product
          BY <5>1 DEF Product
        <5>3. [p EXCEPT !.label = call.name, !.price = c] # None
          BY <5>2
        <5>4. QED BY <1>1, <4>1, <4>3, <5>3 DEF Relabelled
      <4>4. QED BY <1>1, <4>2, <4>3 DEF CategoryOps
    <3>3. QED BY <1>2, <2>2, <3>1, <3>2
  <2>3. QED BY <2>1, <2>2
<1>4. QED BY <1>1, <1>3 DEF Moved

\* What a writer owes after a step.
WriterStep(c) ==
    /\ cache' \in {cache, None}
    /\ Owes(c) => Owes(c)' \/ cache' = None
    /\ MadeCategory(c) => \/ Owes(c)'
                          \/ mcall[c].ver # version /\ UNCHANGED <<products, version, catName>>
    /\ products' # products \/ catName' # catName =>
          /\ mcall'[c].pc \notin Ended
          /\ \/ Owes(c)' \/ MadeCategory(c)'
             \/ mcall[c].op \in CategoryOps /\ mcall[c].pc = "save" /\ catName' = catName
    /\ version' # version => Owes(c)'
    /\ mcall[c].op \in CategoryOps /\ mcall'[c].pc \in {"cascade", "save", "enqueue"} =>
          cache' = None \/ mcall[c].pc \in {"cascade", "save"}
    /\ mcall[c].op = "import" /\ ~hasTx /\ mcall'[c].pc \in {"category", "newCategory", "save"} =>
          \/ mcall'[c].ver = version'
          \/ /\ mcall[c].pc \in {"category", "newCategory"}
             /\ mcall'[c].ver = mcall[c].ver /\ version' = version

\* What a step of a writer changes of the catalog, it owes an invalidation for.
LEMMA WriterSteps ==
    ASSUME CatalogInv, ~hasMenu => version = 0, NEW c \in Calls,
           CatalogStep(c) \/ IngestionStep(c), Writer(c)
    PROVE  WriterStep(c)
<1> USE DEF CatalogInv, CatalogTypeOK
<1>0. PICK call \in MenuCall : /\ call = mcall[c] /\ OpAt(call) /\ Knows(call) /\ HasItsMenu(call)
                               /\ call.op \notin {None, "read"} /\ call.pc \notin Ended
  BY CallTypes, OnlyAtWork DEF Writer
<1>1. PICK next : Moves(c, next)
  BY CatalogInvOfMoves
<1>2. /\ mcall'[c] = next /\ next \in MenuCall /\ OpAt(next) /\ next.op = call.op
      /\ hasTx' = hasTx
  BY <1>0, <1>1, OneMoves DEF Moves, Onward
<1>3. ASSUME NEW q \in MenuCall, NEW pc \in MenuPc, mcall' = [mcall EXCEPT ![c] = At(q, pc)]
      PROVE  next.pc = pc
  BY <1>2, <1>3, AtKeeps
<1>4. ASSUME NEW pc \in MenuPc, MGoto(c, pc) PROVE next.pc = pc
  BY <1>0, <1>3, <1>4 DEF MGoto
<1>5. ASSUME Refused(c) PROVE next.pc = IF call.op = "upload" THEN "fail" ELSE "failed"
  BY <1>0, <1>4, <1>5 DEF Refused, MenuPc
<1>6. /\ Owes(c) <=> \/ call.pc \in {"del", "lost"}
                     \/ call.pc = "enqueue" /\ call.op \notin CategoryOps /\ ~InTransaction(c)
                     \/ /\ call.op = "upload"
                 /\ call.pc \notin {"denied", "done", "record", "del2", "complete"}
      /\ Owes(c)' <=> \/ next.pc \in {"del", "lost"}
                      \/ next.pc = "enqueue" /\ call.op \notin CategoryOps /\ ~InTransaction(c)
                      \/ /\ call.op = "upload"
                         /\ next.pc \notin {"denied", "done", "record", "del2", "complete"}
      /\ MadeCategory(c) <=> call.op = "import" /\ call.pc = "save" /\ ~hasTx
      /\ MadeCategory(c)' <=> call.op = "import" /\ next.pc = "save" /\ ~hasTx
      /\ InTransaction(c) <=> hasTx /\ call.op \in Imports
  BY <1>0, <1>2 DEF Owes, MadeCategory, Writer, InTransaction
\* Steps that touch neither the menu nor the cache.
<1>7. ASSUME UNCHANGED <<products, version, catName, cache>>,
             Owes(c) => Owes(c)', MadeCategory(c) => Owes(c)',
             call.op \in CategoryOps =>
                call.pc = "cascade" \/ next.pc \notin {"cascade", "save", "enqueue"},
             call.op = "import" /\ ~hasTx =>
                \/ next.pc \notin {"category", "newCategory", "save"} \/ next.ver = version
                \/ call.pc \in {"category", "newCategory"} /\ next.ver = call.ver
      PROVE  WriterStep(c)
  BY <1>0, <1>2, <1>7 DEF WriterStep
<1>8. CASE CreateMenu(c)
  <2>1. /\ call.pc = "newMenu" /\ UNCHANGED <<products, version, catName, cache>>
        /\ call.op \in Writers \cup Imports
    BY <1>0, <1>8 DEF CreateMenu, OpAt
  <2>2. CASE Refused(c)
    BY <1>5, <1>6, <1>7, <2>1, <2>2 DEF Writers, Imports, CategoryOps
  <2>3. CASE ~Refused(c)
    <3>1. PICK empty : empty = [call EXCEPT !.snap = NoProducts, !.ver = 0, !.made = TRUE]
      OBVIOUS
    <3>2. empty \in MenuCall /\ empty.ver = 0 /\ empty.op = call.op
      BY <3>1, CallTypes DEF MenuCall
    <3>3. PICK pc \in MenuPc : pc = AfterLoad(empty)
      BY DEF AfterLoad, MenuPc
    <3>4. ~hasMenu /\ mcall' = [mcall EXCEPT ![c] = At(empty, pc)]
      BY <1>0, <1>8, <2>3, <3>1, <3>3 DEF CreateMenu
    <3>5. next.pc = pc
      BY <1>3, <3>2, <3>4
    <3>6. call.op \in Imports => pc = "category"
      BY <3>2, <3>3 DEF AfterLoad, Imports
    <3>7. call.op \in Imports => next.ver = 0
      <4>1. call.op \in Imports => next = [empty EXCEPT !.pc = "category"]
        BY <1>2, <3>4, <3>6 DEF At, Ended
      <4>2. QED BY <3>2, <4>1 DEF MenuCall
    <3>8. QED BY <1>6, <1>7, <2>1, <3>4, <3>5, <3>6, <3>7 DEF Writers, Imports, CategoryOps
  <2>4. QED BY <2>2, <2>3
<1>9. CASE LookupCategory(c)
  <2>1. /\ call.pc = "lookup" /\ UNCHANGED <<products, version, catName, cache>>
        /\ call.op \in {"add", "update"}
    BY <1>0, <1>9 DEF LookupCategory, OpAt, menuVars
  <2>2. QED BY <1>6, <1>7, <2>1 DEF CategoryOps
<1>10. CASE FindOrCreateCategory(c)
  <2>1. /\ call.pc \in {"category", "newCategory"} /\ UNCHANGED <<products, version, cache>>
        /\ call.op \in Imports
    BY <1>0, <1>10, ImportCategorySteps DEF OpAt, menuVars
  <2>2. CASE Refused(c) /\ catName' = catName
    BY <1>5, <1>6, <1>7, <2>1, <2>2 DEF Imports, CategoryOps
  <2>3. CASE mcall' = [mcall EXCEPT ![c].pc = "newCategory"] /\ catName' = catName
    <3>1. next = [call EXCEPT !.pc = "newCategory"]
      BY <1>0, <1>2, <2>3
    <3>2. next.pc = "newCategory" /\ next.ver = call.ver
      BY <3>1 DEF MenuCall
    <3>3. QED BY <1>6, <1>7, <2>1, <2>3, <3>2 DEF Imports, CategoryOps
  <2>4. ASSUME NEW k \in Categories, mcall' = [mcall EXCEPT ![c].cat = k, ![c].pc = "save"],
               hasTx => catName' = catName
        PROVE  WriterStep(c)
    <3>1. next = [call EXCEPT !.cat = k, !.pc = "save"]
      BY <1>0, <1>2, <2>4
    <3>2. next.pc = "save" /\ next.ver = call.ver
      BY <3>1 DEF MenuCall
    <3>3. QED BY <1>0, <1>2, <1>6, <2>1, <2>4, <3>2 DEF WriterStep, Imports, CategoryOps, Ended
  <2>5. QED BY <1>0, <1>10, <2>2, <2>3, <2>4, ImportCategorySteps
<1>11. CASE SaveMenu(c)
  <2>1. /\ call.pc = "save" /\ UNCHANGED <<catName, cache>> /\ ~InTransaction(c)
        /\ call.op \in Writers \cup Imports \cup CategoryOps
    BY <1>0, <1>11 DEF SaveMenu, OpAt
  <2>2. PICK want \in Wanted(c) :
          \/ /\ SaveArray(c, want)
             /\ mcall' = [mcall EXCEPT ![c].pc = "enqueue", ![c].snap = None, ![c].ver = 0,
                    ![c].id = IF mcall[c].op = "add" THEN CHOOSE id \in Touched(c, want) : TRUE
                                                     ELSE mcall[c].id]
          \/ /\ ~VersionOk(c, want) /\ Refused(c) /\ UNCHANGED <<products, version>>
    BY <1>11 DEF SaveMenu
  <2>3. CASE Refused(c) /\ ~VersionOk(c, want) /\ UNCHANGED <<products, version>>
    <3>1. version # call.ver
      BY <1>0, <2>3 DEF VersionOk
    <3>2. QED BY <1>0, <1>2, <1>5, <1>6, <2>1, <2>3, <3>1
             DEF WriterStep, Writers, Imports, CategoryOps
  <2>4. CASE /\ SaveArray(c, want)
             /\ mcall' = [mcall EXCEPT ![c].pc = "enqueue", ![c].snap = None, ![c].ver = 0,
                    ![c].id = IF mcall[c].op = "add" THEN CHOOSE id \in Touched(c, want) : TRUE
                                                     ELSE mcall[c].id]
    <3>1. next.pc = "enqueue"
      BY <1>0, <1>2, <2>4 DEF MenuCall
    <3>2. call.op \in CategoryOps => version' = version
      BY <1>0, <2>1, <2>4, CascadeKeepsVersion DEF SaveArray
    <3>3. call.op \notin CategoryOps => Owes(c)'
      BY <1>6, <2>1, <3>1
    <3>4. QED BY <1>0, <1>2, <1>6, <2>1, <3>1, <3>2, <3>3
             DEF WriterStep, Writers, Imports, CategoryOps, Ended
  <2>5. QED BY <2>2, <2>3, <2>4
<1>12. CASE SaveInTransaction(c)
  <2>1. /\ call.pc = "save" /\ UNCHANGED <<products, version, catName, cache>>
        /\ hasTx /\ call.op \in Imports
    BY <1>0, <1>12 DEF SaveInTransaction, InTransaction, menuVars
  <2>2. next.pc = "enqueue" \/ next.pc = IF call.op = "upload" THEN "fail" ELSE "failed"
    BY <1>4, <1>5, <1>12 DEF SaveInTransaction, MenuPc
  <2>3. QED BY <1>6, <1>7, <2>1, <2>2 DEF Imports, CategoryOps
<1>13. CASE CommitImport(c)
  <2>1. call.pc = "commit" /\ call.op \in Imports /\ hasTx /\ cache' = cache
    BY <1>0, <1>13 DEF CommitImport, OpAt, HasItsMenu
  <2>2. next.pc = "del"
    BY <1>0, <1>2, <1>13 DEF CommitImport, MenuCall
  <2>3. QED BY <1>0, <1>2, <1>6, <2>1, <2>2 DEF WriterStep, Imports, CategoryOps, Ended
<1>14. CASE RetryTransaction(c)
  <2>1. /\ hasTx /\ call.op \in Imports /\ UNCHANGED <<products, version, catName, cache>>
        /\ call.pc \in {"category", "newCategory", "save", "enqueue", "commit"}
    BY <1>0, <1>14 DEF RetryTransaction, Uncommitted, InTransaction, menuVars
  <2>2. PICK q : q = [call EXCEPT !.cat = None]
    OBVIOUS
  <2>3. q \in MenuCall /\ q.op = call.op
    BY <2>2 DEF MenuCall
  <2>4. next = Loaded(q)
    BY <1>0, <1>2, <1>14, <2>2 DEF RetryTransaction
  <2>5. next.pc \in {"category", "newMenu"}
    BY <2>1, <2>3, <2>4, LoadedKeeps
  <2>6. QED BY <1>6, <1>7, <2>1, <2>5 DEF Imports, CategoryOps
<1>15. CASE EnqueueVectorSync(c)
  <2>1. /\ call.pc = "enqueue" /\ UNCHANGED <<products, version, catName, cache>>
        /\ MGoto(c, AfterEnqueue(c))
    BY <1>0, <1>15 DEF EnqueueVectorSync, menuVars
  <2>2. AfterEnqueue(c) \in MenuPc
    BY DEF AfterEnqueue, MenuPc
  <2>3. next.pc = AfterEnqueue(c)
    BY <1>4, <2>1, <2>2
  <2>4. QED BY <1>0, <1>6, <1>7, <2>1, <2>3 DEF AfterEnqueue, Imports, CategoryOps
<1>16. CASE WriteCategory(c)
  <2>1. /\ call.pc = "write" /\ call.op = "rename" /\ UNCHANGED <<products, version, cache>>
        /\ \/ catName' = catName /\ \E pc \in {"denied", "failed", "del"} : MGoto(c, pc)
           \/ MGoto(c, "del")
    BY <1>0, <1>16 DEF WriteCategory, OpAt, menuVars
  <2>2. next.pc = "del" \/ (next.pc \in {"denied", "failed"} /\ catName' = catName)
    BY <1>4, <2>1 DEF MenuPc
  <2>3. QED BY <1>0, <1>2, <1>6, <2>1, <2>2 DEF WriterStep, CategoryOps, Ended
<1>17. CASE InvalidateMenuCache(c)
  <2>1. /\ call.pc = "del" /\ UNCHANGED <<products, version, catName>> /\ cache' = None
        /\ MGoto(c, AfterDel(c))
    BY <1>0, <1>17 DEF InvalidateMenuCache, menuVars
  <2>2. next.pc \in {"cascade", "record", "done"}
    BY <1>4, <2>1 DEF AfterDel, MenuPc
  <2>3. QED BY <1>0, <1>2, <1>6, <2>1, <2>2 DEF WriterStep
<1>18. CASE ReadForCascade(c)
  <2>1. /\ call.pc = "cascade" /\ call.op \in CategoryOps
        /\ UNCHANGED <<products, version, catName, cache>>
    BY <1>0, <1>18 DEF ReadForCascade, OpAt, menuVars
  <2>2. QED BY <1>6, <1>7, <2>1 DEF CategoryOps
<1>19. CASE ReadCategories(c) \/ ReadProducts(c) \/ FillCache(c)
  BY <1>0, <1>19 DEF ReadCategories, ReadProducts, FillCache, OpAt
<1>20. CASE IngestionStep(c) /\ ~InstanceDies(c)
  <2>1. /\ call.op = "upload"
        /\ call.pc \in {"ingest", "status", "processing", "record", "del2", "complete", "fail"}
    BY <1>0, <1>20 DEF IngestionStep, EnqueueIngestion, StartIngestion, ParseFile, RecordSource,
       InvalidateAgain, CompleteIngestion, IngestionThrows, FailIngestion, OpAt
  <2>2. UNCHANGED <<products, version, catName>> /\ (cache' = cache \/ InvalidateAgain(c))
    BY <1>20 DEF IngestionStep, EnqueueIngestion, StartIngestion, ParseFile, RecordSource,
       InvalidateAgain, CompleteIngestion, IngestionThrows, FailIngestion, InCatalog, Load, menuVars
  <2>3. CASE call.pc \in {"record", "del2", "complete"}
    <3>1. ~Owes(c) /\ ~MadeCategory(c)
      BY <1>6, <2>1, <2>3
    <3>2. cache' \in {cache, None}
      BY <2>2 DEF InvalidateAgain
    <3>3. QED BY <1>0, <2>1, <2>2, <3>1, <3>2 DEF WriterStep, CategoryOps
  <2>4. CASE EnqueueIngestion(c) \/ StartIngestion(c)
    <3>1. next.pc \in {"status", "processing", "fail"}
      BY <1>4, <1>5, <2>1, <2>4 DEF EnqueueIngestion, StartIngestion, MenuPc
    <3>2. cache' = cache
      BY <2>4 DEF EnqueueIngestion, StartIngestion, InCatalog
    <3>3. QED BY <1>6, <1>7, <2>1, <2>2, <3>1, <3>2 DEF CategoryOps
  <2>5. CASE ParseFile(c)
    <3>1. next = Loaded(call) /\ cache' = cache
      BY <1>0, <1>2, <2>5 DEF ParseFile, Load
    <3>2. next.pc \in {"category", "newMenu"}
      BY <2>1, <3>1, LoadedKeeps DEF Imports
    <3>3. QED BY <1>6, <1>7, <2>1, <2>2, <3>1, <3>2 DEF CategoryOps
  <2>6. CASE call.pc \in {"processing", "fail"} /\ IngestionThrows(c)
    <3>1. next.pc = "fail" /\ cache' = cache
      BY <1>5, <2>1, <2>6 DEF IngestionThrows
    <3>2. QED BY <1>6, <1>7, <2>1, <2>2, <3>1 DEF CategoryOps
  <2>7. CASE FailIngestion(c)
    <3>1. \/ mcall' = [mcall EXCEPT ![c] = At(call, "failed")]
          \/ mcall' = [mcall EXCEPT ![c] = NextAttempt(call)]
      BY <1>0, <2>7 DEF FailIngestion, Afterwards
    <3>2. NextAttempt(call).pc = "status"
      BY DEF NextAttempt, MenuCall
    <3>3. next.pc \in {"failed", "status"} /\ cache' = cache
      BY <1>2, <1>3, <2>7, <3>1, <3>2 DEF MenuPc, FailIngestion, InCatalog
    <3>4. QED BY <1>6, <1>7, <2>1, <2>2, <3>3 DEF CategoryOps
  <2>8. QED BY <1>0, <1>20, <2>1, <2>3, <2>4, <2>5, <2>6, <2>7 DEF IngestionStep, RecordSource,
         InvalidateAgain, CompleteIngestion, IngestionThrows
<1>21. CASE InstanceDies(c)
  <2>1. UNCHANGED <<products, version, catName, cache>>
    BY <1>21 DEF InstanceDies, menuVars
  <2>2. \/ mcall' = [mcall EXCEPT ![c] = At(call, "lost")]
        \/ call.op = "upload" /\ mcall' = [mcall EXCEPT ![c] = NextAttempt(call)]
    BY <1>0, <1>21 DEF InstanceDies, Afterwards
  <2>3. NextAttempt(call).pc = "status"
    BY DEF NextAttempt, MenuCall
  <2>4. next.pc = "lost" \/ (call.op = "upload" /\ next.pc = "status")
    BY <1>2, <1>3, <2>2, <2>3 DEF MenuPc
  <2>5. QED BY <1>6, <1>7, <2>1, <2>4 DEF CategoryOps
<1>22. QED BY <1>8, <1>9, <1>10, <1>11, <1>12, <1>13, <1>14, <1>15, <1>16, <1>17, <1>18, <1>19,
           <1>20, <1>21 DEF CatalogStep

\* A step of a request keeps what is known of the cached catalog.
LEMMA CacheOfRequests ==
    ASSUME CatalogInv, EndedBefore, EndedBefore', CacheInv, NEW c \in Calls,
           CatalogStep(c) \/ IngestionStep(c) \/ BeginCatalogCall(c)
              \/ \E f \in Files : UploadMenu(c, f[1], f[2])
    PROVE  CacheInv'
<1>0. hasTx' = hasTx /\ (hasMenu => hasMenu')
  BY CatalogInvOfMoves DEF Moves
<1>1. /\ mcall[c].pc \notin Ended \ {"idle"}
      /\ \A e \in Calls : c \notin mcall[e].after
      /\ \A e \in Calls : mcall[e].op # None =>
             mcall'[e].op = mcall[e].op /\ mcall'[e].after = mcall[e].after
      /\ \A e \in Calls \ {c} : mcall'[e] = mcall[e]
      /\ \A d, e \in Calls : mcall[d].op # None /\ mcall[e].op # None =>
             Overlap(d, e)' = Overlap(d, e)
  BY OverlapStays
<1>2. PICK next : /\ next \in MenuCall /\ mcall'[c] = next
                  /\ mcall[c].op = None <=> mcall[c].pc = "idle"
                  /\ mcall[c].op # None => next.op = mcall[c].op
                  /\ OpAt(next)
  BY CatalogInvOfMoves, OneMoves, CallTypes DEF Moves, CatalogInv, Onward, OpAt
<1>3. cache # None => cache.by \in Calls /\ mcall[cache.by].op = "read"
  BY DEF CatalogInv, CatalogTypeOK, CacheInv
<1>4. "read" # None /\ \A op \in CategoryOps \cup Imports : op # None /\ op # "read"
  BY NoOp, OpNames DEF CategoryOps, Imports
<1>5. mcall[c].op # None => CatalogStep(c) \/ IngestionStep(c)
  BY BeginMoves
<1>6. ASSUME Writer(c) PROVE WriterStep(c)
  BY <1>5, <1>6, WriterSteps DEF CacheInv, Writer
<1>7. ASSUME mcall[c].op = None
      PROVE  /\ products' = products /\ version' = version /\ cache' = cache
             /\ catName' # catName => next.op \notin {None, "read"} /\ next.pc = "del"
             /\ next.op \in CategoryOps => next.pc \in {"write", "del"}
             /\ next.op = "import" => /\ next.pc \in {"category", "newMenu"}
                                      /\ next.pc = "category" => next.ver = version
  <2>1. BeginCatalogCall(c) \/ \E f \in Files : UploadMenu(c, f[1], f[2])
    BY <1>7, OnlyAtWork
  <2>2. PICK n : Moves(c, n) /\ Begun(c, n)
    BY <2>1, BeginMoves
  <2>3. n = next
    BY <1>2, <2>2, OneMoves
  <2>4. products' = products /\ version' = version
    BY SMTT(30), <1>2, <1>7, OnlySaves
  <2>5. cache' = cache
    BY <2>1 DEF BeginCatalogCall, UploadMenu, GetCached, WriteVariant, CreateCategory, FindCategory,
       ImportMenu, DeleteCategory, AddProduct, UpdateProduct, RemoveProduct, Load, InCatalog
  <2>6. next.op # None
    BY NoOp, <2>2, <2>3 DEF Begun
  <2>7. QED BY <2>2, <2>3, <2>4, <2>5, <2>6 DEF Begun
<1>8. ASSUME mcall'[c].op = "read"
      PROVE  /\ catName' = catName /\ products' = products /\ version' = version
             /\ cache' = cache \/ FillCache(c)
             /\ mcall'[c].pc = "menu" => mcall'[c].cats = catName
             /\ mcall'[c].pc \in {"newMenu", "fill"} =>
                 /\ mcall[c].op = "read" /\ mcall[c].pc \in {"menu", "newMenu"}
                 /\ mcall'[c].cats = mcall[c].cats
                 /\ mcall'[c].pc = "fill" => mcall'[c].snap = products
  BY <1>8, ReaderSteps
\* What becomes of the cache.
<1>9. \/ cache' \in {cache, None}
      \/ /\ mcall[c].op = "read" /\ mcall[c].pc = "fill" /\ next.op = "read"
         /\ cache' = [cats |-> mcall[c].cats, products |-> mcall[c].snap, by |-> c]
  <2>1. CASE mcall[c].op = None
    BY <1>7, <2>1
  <2>2. CASE Writer(c)
    BY <1>6, <2>2 DEF WriterStep
  <2>3. CASE mcall[c].op = "read" /\ FillCache(c)
    <3>1. cache' = [cats |-> mcall[c].cats, products |-> mcall[c].snap, by |-> c]
      BY <2>3 DEF FillCache
    <3>2. QED BY <1>2, <1>4, <2>3, <3>1 DEF FillCache
  <2>4. CASE mcall[c].op = "read" /\ ~FillCache(c)
    BY <1>2, <1>4, <1>8, <2>4
  <2>5. QED BY <2>1, <2>2, <2>3, <2>4 DEF Writer
\* A change of the menu is a writer's.
<1>10. ASSUME products' # products \/ catName' # catName
       PROVE  /\ Writer(c)' /\ next.pc \notin Ended
              /\ \/ Owes(c)' \/ MadeCategory(c)'
                 \/ mcall[c].op \in CategoryOps /\ mcall[c].pc = "save"
  <2>1. CASE mcall[c].op = None
    BY <1>2, <1>7, <1>10, <2>1 DEF Writer, Owes, Ended
  <2>2. CASE Writer(c)
    BY <1>2, <1>6, <1>10, <2>2 DEF WriterStep, Writer
  <2>3. CASE mcall[c].op = "read"
    BY <1>2, <1>4, <1>8, <1>10, <2>3
  <2>4. QED BY <2>1, <2>2, <2>3 DEF Writer
\* Two requests that have not ended overlap.
<1>11. ASSUME NEW r \in Calls \ {c}, mcall[r].pc \notin Ended, next.pc \notin Ended
       PROVE  Overlap(r, c)' /\ Overlap(c, r)'
  BY <1>1, <1>2, <1>11 DEF Overlap, EndedBefore
<1>12. ASSUME NEW r \in Calls, NEW w \in Calls, mcall[r].op = "read", Writer(w), Overlap(r, w)
       PROVE  Writer(w)' /\ Overlap(r, w)'
  BY <1>1, <1>4, <1>12 DEF Writer
<1>13. ASSUME NEW w \in Calls, Owes(w), cache' # None PROVE Owes(w)'
  <2>1. CASE w = c
    BY <1>6, <1>13, <2>1 DEF WriterStep, Owes
  <2>2. CASE w # c
    BY <1>0, <1>1, <1>13, <2>2 DEF Owes, Writer, InTransaction
  <2>3. QED BY <2>1, <2>2
<1>14. ASSUME cache' # None PROVE cache'.by \in Calls /\ mcall'[cache'.by].op = "read"
  BY <1>1, <1>2, <1>3, <1>4, <1>9, <1>14
<1>15. ~hasMenu' => version' = 0
  BY <1>0, OnlySaves DEF CacheInv
<1>16. ReadsApart'
  <2>1. ASSUME NEW r \in Calls, mcall'[r].op = "read", mcall'[r].pc \in {"menu", "newMenu", "fill"},
               mcall'[r].cats # catName' \/ (mcall'[r].pc = "fill" /\ mcall'[r].snap # products')
        PROVE  \E w \in Calls : Writer(w)' /\ Overlap(r, w)'
    <3>1. CASE r = c
      <4>1. /\ mcall[c].op = "read" /\ mcall[c].pc \in {"menu", "newMenu"}
            /\ mcall[c].cats # catName
        BY <1>8, <2>1, <3>1
      <4>2. PICK w \in Calls : Writer(w) /\ Overlap(c, w)
        BY <4>1 DEF CacheInv, ReadsApart
      <4>3. QED BY <1>12, <3>1, <4>1, <4>2
    <3>2. CASE r # c /\ products' = products /\ catName' = catName
      <4>1. PICK w \in Calls : Writer(w) /\ Overlap(r, w)
        BY <1>1, <2>1, <3>2 DEF CacheInv, ReadsApart
      <4>2. QED BY <1>1, <1>12, <2>1, <3>2, <4>1
    <3>3. CASE r # c /\ ~(products' = products /\ catName' = catName)
      BY <1>1, <1>10, <1>11, <2>1, <3>3 DEF Ended
    <3>4. QED BY <3>1, <3>2, <3>3
  <2>2. QED BY <2>1 DEF ReadsApart
<1>17. CachedApart'
  <2>1. ASSUME cache' # None, cache'.cats # catName' \/ cache'.products # products'
        PROVE  \E w \in Calls :
                  Writer(w)' /\ (Overlap(cache.by, w)' \/ Owes(w)' \/ MadeCategory(w)')
    <3>1. CASE cache' = cache /\ ~(products' = products /\ catName' = catName)
      <4>1. PICK r \in Calls : r = cache.by /\ mcall[r].op = "read"
        BY <1>3, <2>1, <3>1
      <4>2. CASE mcall[c].op \in CategoryOps /\ mcall[c].pc = "save"
        <5>1. r \notin mcall[c].after
          BY <2>1, <3>1, <4>1, <4>2 DEF CacheInv, FilledSince
        <5>2. r # c
          BY <1>4, <4>1, <4>2
        <5>3. Overlap(r, c)'
          BY <1>1, <1>4, <4>1, <4>2, <5>1, <5>2 DEF Overlap
        <5>4. Overlap(cache.by, c)'
          BY <3>1, <4>1, <5>3 DEF Overlap
        <5>5. QED BY <1>10, <3>1, <5>4
      <4>3. QED BY <1>10, <3>1, <4>2
    <3>2. CASE cache' = cache /\ products' = products /\ catName' = catName
      <4>1. PICK r \in Calls : r = cache.by /\ mcall[r].op = "read"
        BY <1>3, <2>1, <3>2
      <4>2. ASSUME NEW w \in Calls, Writer(w), Overlap(r, w)
            PROVE  Writer(w)' /\ Overlap(cache.by, w)'
        BY <1>12, <3>2, <4>1, <4>2 DEF Overlap
      <4>3. ASSUME NEW w \in Calls, Owes(w) PROVE Writer(w)' /\ Owes(w)'
        BY <1>13, <2>1, <4>3 DEF Owes
      <4>4. PICK w \in Calls : Writer(w) /\ (Overlap(r, w) \/ Owes(w) \/ MadeCategory(w))
        BY <2>1, <3>2, <4>1 DEF CacheInv, CachedApart
      <4>5. CASE Overlap(r, w) \/ Owes(w)
        BY <4>2, <4>3, <4>4, <4>5
      <4>6. CASE MadeCategory(w) /\ w # c
        BY <1>0, <1>1, <4>4, <4>6 DEF MadeCategory, Writer
      <4>7. CASE MadeCategory(c) /\ w = c
        <5>1. Owes(c)' \/ mcall[c].ver # version
          BY <1>6, <4>4, <4>7 DEF WriterStep
        <5>2. CASE Owes(c)'
          BY <5>2 DEF Owes
        <5>3. CASE mcall[c].ver # version
          <6>1. Overlap(r, c) \/ \E x \in Calls \ {c} : Owes(x)
            BY <2>1, <3>2, <4>1, <4>7, <5>3 DEF CacheInv, RefusalOwed, MadeCategory
          <6>2. QED BY <4>2, <4>3, <4>4, <4>7, <6>1
        <5>4. QED BY <5>1, <5>2, <5>3
      <4>8. QED BY <4>4, <4>5, <4>6, <4>7
    <3>3. CASE cache' \notin {cache, None}
      <4>1. /\ mcall[c].op = "read" /\ mcall[c].pc = "fill" /\ next.op = "read"
            /\ cache'.cats = mcall[c].cats /\ cache'.products = mcall[c].snap /\ cache'.by = c
        BY <1>9, <3>3
      <4>2. catName' = catName /\ products' = products
        BY <1>2, <1>8, <4>1
      <4>3. PICK w \in Calls : Writer(w) /\ Overlap(c, w)
        BY <2>1, <4>1, <4>2 DEF CacheInv, ReadsApart
      <4>4. Writer(w)' /\ Overlap(c, w)'
        BY <1>12, <4>1, <4>3
      <4>5. Overlap(cache.by, w)'
        BY <4>1, <4>4 DEF Overlap
      <4>6. QED BY <4>4, <4>5
    <3>4. QED BY <2>1, <3>1, <3>2, <3>3
  <2>2. QED BY <2>1 DEF CachedApart
<1>18. FilledSince'
  <2>1. ASSUME cache' # None, NEW w \in Calls, mcall'[w].op \in CategoryOps,
               mcall'[w].pc \in {"cascade", "save", "enqueue"}
        PROVE  cache'.by \notin mcall'[w].after
    <3>1. /\ mcall[w].op \in CategoryOps /\ mcall[w].pc \in {"cascade", "save", "enqueue"}
          /\ mcall'[w].after = mcall[w].after
      <4>1. CASE w # c
        BY <1>1, <2>1, <4>1
      <4>2. CASE w = c
        <5>1. mcall[c].op # None
          BY <1>2, <1>7, <2>1, <4>2
        <5>2. mcall[c].op \in CategoryOps /\ Writer(c)
          BY <1>2, <1>4, <2>1, <4>2, <5>1 DEF Writer
        <5>3. mcall[c].pc \in {"cascade", "save"}
          BY <1>6, <2>1, <4>2, <5>2 DEF WriterStep
        <5>4. QED BY <1>1, <4>2, <5>1, <5>2, <5>3
      <4>3. QED BY <4>1, <4>2
    <3>2. CASE cache' = cache
      BY <2>1, <3>1, <3>2 DEF CacheInv, FilledSince
    <3>3. CASE cache' \notin {cache, None}
      <4>1. cache'.by = c
        BY <1>9, <3>3
      <4>2. QED BY <1>1, <3>1, <4>1
    <3>4. QED BY <1>9, <2>1, <3>2, <3>3
  <2>2. QED BY <2>1 DEF FilledSince
<1>19. RefusalOwed'
  <2>1. ASSUME cache' # None, NEW w \in Calls, mcall'[w].op = "import", ~hasTx',
               mcall'[w].pc \in {"category", "newCategory", "save"},
               mcall'[w].ver # version'
        PROVE  Overlap(cache.by, w)' \/ \E x \in Calls \ {w} : Owes(x)'
    <3>0. mcall'[w].pc \notin Ended
      BY <2>1 DEF Ended
    <3>1. CASE cache' \notin {cache, None}
      <4>1. mcall[c].op = "read" /\ mcall[c].pc = "fill" /\ cache'.by = c
        BY <1>9, <3>1
      <4>2. w # c
        BY <1>1, <1>4, <2>1, <4>1
      <4>3. w \notin mcall'[c].after /\ c \notin mcall'[w].after
        BY <1>1, <1>4, <2>1, <3>0, <4>1, <4>2 DEF EndedBefore
      <4>4. Overlap(c, w)'
        BY <4>2, <4>3 DEF Overlap
      <4>5. QED BY <4>1, <4>4 DEF Overlap
    <3>2. CASE cache' = cache
      <4>1. PICK r \in Calls : r = cache.by /\ mcall[r].op = "read"
        BY <1>3, <2>1, <3>2
      <4>2. ASSUME Writer(w), Overlap(r, w) PROVE Overlap(cache.by, w)'
        BY <1>12, <3>2, <4>1, <4>2 DEF Overlap
      <4>3. ASSUME mcall[w].op = "import", mcall[w].pc \in {"category", "newCategory", "save"},
                   mcall[w].ver # version
            PROVE  Overlap(cache.by, w)' \/ \E x \in Calls \ {w} : Owes(x)'
        <5>1. Overlap(r, w) \/ \E x \in Calls \ {w} : Owes(x)
          BY <1>0, <2>1, <3>2, <4>1, <4>3 DEF CacheInv, RefusalOwed
        <5>2. Writer(w)
          BY <1>4, <4>3 DEF Writer, Imports
        <5>3. QED BY <1>13, <2>1, <4>2, <5>1, <5>2
      <4>4. CASE w = c
        <5>1. Writer(c)
          BY <1>2, <1>4, <1>7, <2>1, <4>4 DEF Writer, Imports
        <5>2. mcall[c].op = "import"
          BY <1>2, <2>1, <4>4, <5>1 DEF Writer
        <5>3. /\ mcall[c].pc \in {"category", "newCategory"}
              /\ mcall'[c].ver = mcall[c].ver /\ version' = version
          BY <1>0, <1>6, <2>1, <4>4, <5>1, <5>2 DEF WriterStep
        <5>4. QED BY <2>1, <4>3, <4>4, <5>2, <5>3
      <4>5. CASE w # c /\ version' = version
        BY <1>1, <2>1, <4>3, <4>5
      <4>6. CASE w # c /\ version' # version
        <5>1. Writer(c)
          BY <1>2, <1>7, <1>8, <4>6 DEF Writer
        <5>2. Owes(c)'
          BY <1>6, <4>6, <5>1 DEF WriterStep
        <5>3. QED BY <4>6, <5>2
      <4>7. QED BY <4>4, <4>5, <4>6
    <3>3. QED BY <1>9, <2>1, <3>1, <3>2
  <2>2. QED BY <2>1 DEF RefusalOwed
<1>20. QED BY <1>14, <1>15, <1>16, <1>17, <1>18, <1>19 DEF CacheInv

\* What is known of the cached catalog holds in every reachable state.
LEMMA CacheHolds == Spec => []CacheInv
<1>1. Init => CacheInv
  <2> SUFFICES ASSUME Init PROVE CacheInv
    OBVIOUS
  <2>1. cache = None /\ version = 0 /\ \A c \in Calls : mcall[c].op = None
    BY DEF Init, CatalogInit, IdleCall
  <2>2. "read" # None
    BY NoOp, OpNames
  <2>3. QED BY <2>1, <2>2 DEF CacheInv, ReadsApart, CachedApart, FilledSince, RefusalOwed
<1>2. MenuInv /\ NamesInv /\ NamesInv' /\ CacheInv /\ [Next]_allVars => CacheInv'
  <2> SUFFICES ASSUME MenuInv, NamesInv, NamesInv', CacheInv, [Next]_allVars PROVE CacheInv'
    OBVIOUS
  <2>1. CASE \E c \in Calls : Begin(c) \/ ImportStep(c) \/ IngestionStep(c)
    BY <2>1, CacheOfRequests DEF Begin, ImportStep, MenuInv, NamesInv
  <2>2. CASE VectorNext \/ UNCHANGED allVars
    <3>1. UNCHANGED <<hasTx, hasMenu, products, version, catName, cache, mcall>>
      BY <2>2 DEF VectorNext, TakeJob, ResetNamespace, ReadMenu, WriteVectors, DeleteVector,
         JobFails, allVars, catalogVars, menuVars
    <3>2. QED BY <3>1 DEF CacheInv, ReadsApart, CachedApart, FilledSince, RefusalOwed, Writer, Owes,
         MadeCategory, InTransaction, Overlap
  <2>3. QED BY <2>1, <2>2 DEF Next
<1>3. QED BY <1>1, <1>2, MenuInvariant, NamesHold, PTL DEF Spec

\* The cached catalog is the menu as it is, unless a writer overlapped the request that filled
\* it, is still to delete the key, or died or failed before it could, with any number of
\* requests, uploads and products (menu/service.ts:26-70, 87-147; categories/service.ts:64-84).
THEOREM CacheFollows == Spec => []StaleMenuOnlyOverlap
<1>1. MenuInv /\ CacheInv => StaleMenuOnlyOverlap
  <2> SUFFICES ASSUME MenuInv, CacheInv,
                      cache # None, cache.cats # catName \/ cache.products # products
               PROVE  \E w \in Calls : /\ mcall[w].op \notin {None, "read"}
                                       /\ Overlap(cache.by, w) \/ Unfinished(w)
    BY DEF StaleMenuOnlyOverlap
  <2>1. PICK w \in Calls : Writer(w) /\ (Overlap(cache.by, w) \/ Owes(w) \/ MadeCategory(w))
    BY DEF CacheInv, CachedApart
  <2>2. Owes(w) \/ MadeCategory(w) => Unfinished(w)
    <3>1. mcall[w].pc # "idle"
      BY <2>1, CallTypes DEF MenuInv, CatalogInv, OpAt, Writer
    <3>2. CASE mcall[w].pc \in {"del", "lost", "enqueue", "save"}
      BY <3>2 DEF Unfinished, Ended
    <3>3. CASE mcall[w].op = "upload" /\ mcall[w].pc \notin {"denied", "done"}
      BY <3>1, <3>3 DEF Unfinished, Ended
    <3>4. QED BY <3>2, <3>3 DEF Owes, MadeCategory
  <2>3. QED BY <2>1, <2>2 DEF Writer
<1>2. QED BY <1>1, MenuInvariant, CacheHolds, PTL

-----------------------------------------------------------------------------
(* The labels of products and the names of categories.                     *)

Finding   == {"ingest", "status", "processing", "newMenu", "category", "newCategory"}
Inserting == {"save", "enqueue", "commit"}

\* A transaction has made a category that nobody else sees yet.
Pending(c) == LET call == mcall[c] IN
              /\ InTransaction(c) /\ call.pc \in Inserting
              /\ call.cat = <<c, call.try>>

\* The category that attempt t of c may make has not been made.
Unmade(c, t) == LET call == mcall[c] IN
                \/ call.op = None \/ t > call.try
                \/ /\ t = call.try /\ call.op \in Imports
                   /\ call.pc \in Finding \/ (hasTx /\ call.pc \in Inserting)

NamesDiffer    == \A j, k \in Categories : catName[j] # None /\ catName[j] = catName[k] => j = k
UnmadeNameless == \A c \in Calls, t \in Attempts : Unmade(c, t) => catName[<<c, t>>] = None
PendingAlone   == \A c \in Calls : Pending(c) =>
                     /\ NamedCategory(mcall[c].label) = {}
                     /\ \A d \in Calls : Pending(d) /\ mcall[d].label = mcall[c].label => d = c

NamingInv == NamesDiffer /\ UnmadeNameless /\ PendingAlone

\* The excuse of LabelsFollowCategories, once and for all.
Disturbed == \E w \in Calls : /\ mcall[w].op \in CategoryOps
                              /\ \/ mcall[w].pc \in {"lost", "failed"}
                                 \/ \E x \in Calls : Writer(x) /\ Overlap(w, x)

\* The category of a rename or a deletion that has yet to cascade.
Changing(k) == \E w \in Calls : LET call == mcall[w] IN
    /\ call.op \in CategoryOps /\ call.pc \in {"del", "cascade", "save"} /\ call.cat = k
    /\ call.op = "rename" => call.name # call.label

\* A product without a category has no label, and one with a category has its name.
InOrder(p) == IF p.cat = None THEN p.label = None
                              ELSE p.label # None /\ catName[p.cat] = p.label
ArrayInOrder(arr) == \A id \in Ids : arr[id] # None => InOrder(arr[id])

\* What a request at work means to write is in order.
MeansOrder(x) == LET call == mcall[x] IN
    /\ Writer(x) /\ call.op \notin CategoryOps /\ call.snap # None => ArrayInOrder(call.snap)
    /\ call.op \in {"add", "update"} /\ call.pc \in {"newMenu", "lookup", "save"} =>
         IF call.cat = None THEN call.label = None
         ELSE /\ catName[call.cat] # None
              /\ call.pc = "save" => call.label = catName[call.cat]
    /\ call.op \in Imports /\ (call.pc = "save" \/ (hasTx /\ call.pc \in Inserting)) =>
         call.cat # None /\ (Pending(x) \/ catName[call.cat] = call.label)
    /\ call.op = "rename" /\ call.pc = "write" => catName[call.cat] = call.label
    /\ call.op = "rename" /\ call.pc \in {"del", "cascade", "save"} => catName[call.cat] = call.name
    /\ call.op \in CategoryOps /\ call.pc = "save" => call.snap = products

ProductsInOrder ==
    \A id \in Ids : products[id] # None => InOrder(products[id]) \/ Changing(products[id].cat)
RequestsInOrder == \A x \in Calls : mcall[x].pc \notin Ended => MeansOrder(x)

LabelsInv == ~Disturbed => ProductsInOrder /\ RequestsInOrder

\* How an import goes on: what it inserts it has looked up, or carries through its transaction.
ImportGoesOn(c) == LET call == mcall[c] next == mcall'[c] IN
    /\ next.op = call.op
    /\ \/ next.try = call.try
       \/ next.try > call.try /\ next.pc = "status"
    /\ next.try = call.try /\ next.pc \in Finding =>
          call.pc \in Finding \/ (hasTx /\ call.pc \in Inserting)
    /\ next.pc = "save" \/ (hasTx /\ next.pc \in Inserting) =>
          /\ next.label = call.label /\ next.try = call.try
          /\ \/ FindOrCreateCategory(c) /\ next.pc = "save" /\ next.cat # None
             \/ /\ hasTx /\ call.pc \in {"save", "enqueue"} /\ next.cat = call.cat
                /\ catName' = catName

\* Every step of an import is of this kind.
LEMMA ImportSteps ==
    ASSUME CatalogInv, NEW c \in Calls, CatalogStep(c) \/ IngestionStep(c),
           mcall[c].op \in Imports
    PROVE  ImportGoesOn(c)
<1> USE DEF CatalogInv, CatalogTypeOK
<1>0. PICK call \in MenuCall : /\ call = mcall[c] /\ OpAt(call) /\ Knows(call) /\ HasItsMenu(call)
                               /\ call.op \in Imports /\ call.op # "read"
                               /\ call.op \notin CategoryOps \cup Writers
  BY CallTypes DEF Imports, CategoryOps, Writers
<1>1. PICK next : Moves(c, next)
  BY CatalogInvOfMoves
<1>2. mcall'[c] = next /\ next \in MenuCall /\ next.op = call.op
  BY NoOp, OpNames, <1>0, <1>1, OneMoves DEF Moves, Onward, Imports
<1>3. ASSUME NEW q \in MenuCall, NEW pc \in MenuPc, mcall' = [mcall EXCEPT ![c] = At(q, pc)]
      PROVE  /\ next.pc = pc /\ next.try = q.try
             /\ pc \notin Ended => next.cat = q.cat /\ next.label = q.label
  <2>1. next = At(q, pc)
    BY <1>2, <1>3
  <2>2. pc \notin Ended => next = [q EXCEPT !.pc = pc]
    BY <2>1 DEF At
  <2>3. QED BY <2>1, <2>2, AtKeeps DEF MenuCall
<1>4. ASSUME NEW pc \in MenuPc, MGoto(c, pc)
      PROVE  /\ next.pc = pc /\ next.try = call.try
             /\ pc \notin Ended => next.cat = call.cat /\ next.label = call.label
  BY <1>0, <1>3, <1>4 DEF MGoto
\* Where nothing is left to insert.
<1>5. ASSUME next.try = call.try,
             next.pc \notin Finding \cup Inserting \/ (next.pc = "enqueue" /\ ~hasTx)
      PROVE  ImportGoesOn(c)
  BY <1>0, <1>2, <1>5 DEF ImportGoesOn, Finding, Inserting
<1>6. ASSUME next.try = call.try, next.pc \in Finding,
             call.pc \in Finding \/ (hasTx /\ call.pc \in Inserting)
      PROVE  ImportGoesOn(c)
  BY <1>0, <1>2, <1>6 DEF ImportGoesOn, Finding, Inserting
<1>7. ASSUME Refused(c) PROVE ImportGoesOn(c)
  <2>1. next.pc \in {"fail", "failed"} /\ next.try = call.try
    BY <1>4, <1>7 DEF Refused, MenuPc
  <2>2. QED BY <1>5, <2>1 DEF Finding, Inserting
<1>8. ASSUME mcall' = [mcall EXCEPT ![c] = NextAttempt(call)] PROVE ImportGoesOn(c)
  <2>1. next = NextAttempt(call)
    BY <1>2, <1>8
  <2>2. next.pc = "status" /\ next.try = call.try + 1 /\ call.try \in Nat
    BY <2>1 DEF NextAttempt, MenuCall, Attempts
  <2>3. QED BY <1>0, <1>2, <2>2 DEF ImportGoesOn, Finding, Inserting
<1>9. ASSUME NEW q \in MenuCall, q.op = call.op, q.try = call.try,
             mcall' = [mcall EXCEPT ![c] = Loaded(q)],
             call.pc \in Finding \/ (hasTx /\ call.pc \in Inserting)
      PROVE  ImportGoesOn(c)
  <2>1. next.pc \in {"category", "newMenu"} /\ next.try = call.try
    BY <1>0, <1>2, <1>9, LoadedKeeps
  <2>2. QED BY <1>6, <1>9, <2>1 DEF Finding
<1>10. CASE CreateMenu(c)
  <2>1. call.pc = "newMenu"
    BY <1>0, <1>10 DEF CreateMenu
  <2>2. CASE ~Refused(c)
    <3>1. PICK empty : empty = [call EXCEPT !.snap = NoProducts, !.ver = 0, !.made = TRUE]
      OBVIOUS
    <3>2. empty \in MenuCall /\ empty.op = call.op /\ empty.try = call.try
      BY <3>1, CallTypes DEF MenuCall
    <3>3. "category" = AfterLoad(empty)
      BY <1>0, <3>2 DEF AfterLoad, Imports
    <3>4. mcall' = [mcall EXCEPT ![c] = At(empty, "category")]
      BY <1>0, <1>10, <2>2, <3>1, <3>3 DEF CreateMenu
    <3>5. next.pc = "category" /\ next.try = call.try
      BY <1>3, <3>2, <3>4 DEF MenuPc
    <3>6. QED BY <1>6, <2>1, <3>5 DEF Finding
  <2>3. QED BY <1>7, <2>2
<1>11. CASE FindOrCreateCategory(c)
  <2>1. call.pc \in {"category", "newCategory"}
    BY <1>0, <1>11, ImportCategorySteps
  <2>2. CASE mcall' = [mcall EXCEPT ![c].pc = "newCategory"]
    <3>1. next = [call EXCEPT !.pc = "newCategory"]
      BY <1>0, <1>2, <2>2
    <3>2. next.pc = "newCategory" /\ next.try = call.try
      BY <3>1 DEF MenuCall
    <3>3. QED BY <1>6, <2>1, <3>2 DEF Finding
  <2>3. ASSUME NEW k \in Categories, mcall' = [mcall EXCEPT ![c].cat = k, ![c].pc = "save"]
        PROVE  ImportGoesOn(c)
    <3>1. next = [call EXCEPT !.cat = k, !.pc = "save"]
      BY <1>0, <1>2, <2>3
    <3>2. /\ next.pc = "save" /\ next.cat = k /\ next.label = call.label /\ next.try = call.try
      BY <3>1 DEF MenuCall
    <3>3. k # None
      OBVIOUS
    <3>4. QED BY <1>0, <1>2, <1>11, <3>2, <3>3 DEF ImportGoesOn, Finding
  <2>4. QED BY <1>0, <1>7, <1>11, <2>2, <2>3, ImportCategorySteps
<1>12. CASE SaveMenu(c)
  <2>1. ~hasTx
    BY <1>0, <1>12 DEF SaveMenu, InTransaction
  <2>2. CASE ~Refused(c)
    <3>1. PICK i : mcall' = [mcall EXCEPT ![c].pc = "enqueue", ![c].snap = None, ![c].ver = 0,
                                          ![c].id = i]
      BY <1>12, <2>2 DEF SaveMenu
    <3>2. next = [call EXCEPT !.pc = "enqueue", !.snap = None, !.ver = 0, !.id = i]
      BY <1>0, <1>2, <3>1
    <3>3. next.pc = "enqueue" /\ next.try = call.try
      BY <3>2 DEF MenuCall
    <3>4. QED BY <1>5, <2>1, <3>3
  <2>3. QED BY <1>7, <2>2
<1>13. CASE SaveInTransaction(c)
  <2>1. hasTx /\ call.pc = "save" /\ catName' = catName
    BY <1>0, <1>13 DEF SaveInTransaction, InTransaction
  <2>2. CASE MGoto(c, "enqueue")
    <3>1. /\ next.pc = "enqueue" /\ next.try = call.try
          /\ next.cat = call.cat /\ next.label = call.label
      BY <1>4, <2>2 DEF MenuPc, Ended
    <3>2. QED BY <1>0, <1>2, <2>1, <3>1 DEF ImportGoesOn, Finding
  <2>3. QED BY <1>7, <1>13, <2>2 DEF SaveInTransaction
<1>14. CASE CommitImport(c)
  <2>1. mcall' = [mcall EXCEPT ![c].pc = "del", ![c].snap = None, ![c].ver = 0]
    BY <1>14 DEF CommitImport
  <2>2. next = [call EXCEPT !.pc = "del", !.snap = None, !.ver = 0]
    BY <1>0, <1>2, <2>1
  <2>3. next.pc = "del" /\ next.try = call.try
    BY <2>2 DEF MenuCall
  <2>4. QED BY <1>5, <2>3 DEF Finding, Inserting
<1>15. CASE RetryTransaction(c)
  <2>1. hasTx /\ call.pc \in {"category", "newCategory", "save", "enqueue", "commit"}
    BY <1>0, <1>15 DEF RetryTransaction, Uncommitted, InTransaction
  <2>2. PICK q : q = [call EXCEPT !.cat = None]
    OBVIOUS
  <2>3. q \in MenuCall /\ q.op = call.op /\ q.try = call.try
    BY <2>2 DEF MenuCall
  <2>4. mcall' = [mcall EXCEPT ![c] = Loaded(q)]
    BY <1>0, <1>15, <2>2 DEF RetryTransaction
  <2>5. QED BY <1>9, <2>1, <2>3, <2>4 DEF Finding, Inserting
<1>16. CASE EnqueueVectorSync(c)
  <2>1. /\ call.pc = "enqueue" /\ catName' = catName
        /\ MGoto(c, IF hasTx THEN "commit" ELSE "del")
    BY <1>0, <1>16 DEF EnqueueVectorSync, AfterEnqueue, InTransaction
  <2>2. CASE hasTx
    <3>1. /\ next.pc = "commit" /\ next.try = call.try
          /\ next.cat = call.cat /\ next.label = call.label
      BY <1>4, <2>1, <2>2 DEF MenuPc, Ended
    <3>2. QED BY <1>0, <1>2, <2>1, <2>2, <3>1 DEF ImportGoesOn, Finding
  <2>3. CASE ~hasTx
    <3>1. next.pc = "del" /\ next.try = call.try
      BY <1>4, <2>1, <2>3 DEF MenuPc
    <3>2. QED BY <1>5, <3>1 DEF Finding, Inserting
  <2>4. QED BY <2>2, <2>3
<1>17. CASE InvalidateMenuCache(c)
  <2>1. AfterDel(c) \in {"record", "done"} /\ MGoto(c, AfterDel(c))
    BY <1>0, <1>17 DEF InvalidateMenuCache, AfterDel, Imports
  <2>2. next.pc \in {"record", "done"} /\ next.try = call.try
    BY <1>4, <2>1 DEF MenuPc
  <2>3. QED BY <1>5, <2>2 DEF Finding, Inserting
<1>18. CASE \/ ReadCategories(c) \/ ReadProducts(c) \/ FillCache(c) \/ LookupCategory(c)
            \/ WriteCategory(c) \/ ReadForCascade(c)
  BY <1>0, <1>18 DEF ReadCategories, ReadProducts, FillCache, LookupCategory, WriteCategory,
     ReadForCascade, OpAt, Imports, CategoryOps
<1>19. CASE EnqueueIngestion(c) \/ StartIngestion(c)
  <2>1. /\ call.pc \in {"ingest", "status"}
        /\ \E pc \in {"status", "processing"} : MGoto(c, pc)
    BY <1>0, <1>19 DEF EnqueueIngestion, StartIngestion
  <2>2. next.pc \in {"status", "processing"} /\ next.try = call.try
    BY <1>4, <2>1 DEF MenuPc
  <2>3. QED BY <1>6, <2>1, <2>2 DEF Finding
<1>20. CASE ParseFile(c)
  <2>1. mcall' = [mcall EXCEPT ![c] = Loaded(call)] /\ call.pc = "processing"
    BY <1>0, <1>20 DEF ParseFile, Load
  <2>2. QED BY <1>9, <2>1 DEF Finding
<1>21. CASE RecordSource(c) \/ InvalidateAgain(c) \/ CompleteIngestion(c)
  <2>1. \E pc \in {"del2", "complete", "done"} : MGoto(c, pc)
    BY <1>21 DEF RecordSource, InvalidateAgain, CompleteIngestion
  <2>2. next.pc \in {"del2", "complete", "done"} /\ next.try = call.try
    BY <1>4, <2>1 DEF MenuPc
  <2>3. QED BY <1>5, <2>2 DEF Finding, Inserting
<1>22. CASE FailIngestion(c) \/ InstanceDies(c)
  <2>1. \/ \E pc \in {"failed", "lost"} : mcall' = [mcall EXCEPT ![c] = At(call, pc)]
        \/ mcall' = [mcall EXCEPT ![c] = NextAttempt(call)]
    BY <1>0, <1>22 DEF FailIngestion, InstanceDies, Afterwards
  <2>2. CASE \E pc \in {"failed", "lost"} : mcall' = [mcall EXCEPT ![c] = At(call, pc)]
    <3>1. next.pc \in {"failed", "lost"} /\ next.try = call.try
      BY <1>3, <2>2 DEF MenuPc
    <3>2. QED BY <1>5, <3>1 DEF Finding, Inserting
  <2>3. QED BY <1>8, <2>1, <2>2
<1>23. CASE IngestionThrows(c)
  BY <1>7, <1>23 DEF IngestionThrows
<1>24. QED BY <1>10, <1>11, <1>12, <1>13, <1>14, <1>15, <1>16, <1>17, <1>18, <1>19, <1>20, <1>21,
           <1>22, <1>23 DEF CatalogStep, IngestionStep

\* What a request that adds or updates a product means to write of categories.
LEMMA ProductLabels ==
    ASSUME CatalogInv, NEW c \in Calls, CatalogStep(c) \/ IngestionStep(c),
           mcall[c].op \in {"add", "update"}, mcall'[c].pc \in {"newMenu", "lookup", "save"}
    PROVE  /\ catName' = catName /\ mcall'[c].cat = mcall[c].cat
           /\ mcall[c].pc \in {"newMenu", "lookup"}
           /\ IF mcall[c].pc = "newMenu"
              THEN /\ mcall'[c].label = mcall[c].label
                   /\ mcall'[c].pc = "save" => mcall[c].cat = None
              ELSE mcall'[c].label = catName[mcall[c].cat]
<1> USE DEF CatalogInv, CatalogTypeOK
<1>0. PICK call \in MenuCall : /\ call = mcall[c] /\ OpAt(call)
                               /\ call.op \in {"add", "update"} /\ call.op # "read"
                               /\ call.op \notin CategoryOps \cup Imports
                               /\ call.pc \notin Ended
  BY CallTypes, OnlyAtWork DEF Imports, CategoryOps
<1>1. PICK next : Moves(c, next)
  BY CatalogInvOfMoves
<1>2. mcall'[c] = next /\ next \in MenuCall
  BY <1>1, OneMoves DEF Moves
<1>3. call.pc \in {"newMenu", "lookup", "save", "enqueue", "del"}
  BY <1>0 DEF OpAt, Imports, CategoryOps, MenuCall, MenuPc, Ended
<1>4. ASSUME NEW pc \in MenuPc, MGoto(c, pc) PROVE next.pc = pc
  <2>1. next = At(call, pc)
    BY <1>0, <1>2, <1>4 DEF MGoto
  <2>2. QED BY <2>1, AtKeeps
<1>5. CASE CreateMenu(c)
  <2>1. call.pc = "newMenu" /\ catName' = catName
    BY <1>0, <1>5 DEF CreateMenu
  <2>2. ~Refused(c)
    BY <1>0, <1>2, <1>4 DEF Refused, MenuPc
  <2>3. PICK empty : empty = [call EXCEPT !.snap = NoProducts, !.ver = 0, !.made = TRUE]
    OBVIOUS
  <2>4. /\ empty \in MenuCall /\ empty.cat = call.cat /\ empty.label = call.label
        /\ empty.op = call.op
    BY <2>3, CallTypes DEF MenuCall
  <2>5. PICK pc \in MenuPc : pc = AfterLoad(empty)
    BY DEF AfterLoad, MenuPc
  <2>6. next = At(empty, pc)
    BY <1>0, <1>2, <1>5, <2>2, <2>3, <2>5 DEF CreateMenu
  <2>7. next.pc = pc
    BY <2>4, <2>6, AtKeeps
  <2>8. next = [empty EXCEPT !.pc = pc]
    BY <1>2, <2>6, <2>7 DEF At, Ended
  <2>9. next.cat = call.cat /\ next.label = call.label
    BY <2>4, <2>8 DEF MenuCall
  <2>10. next.pc = "save" => call.cat = None
    BY <1>0, <2>4, <2>5, <2>7 DEF AfterLoad
  <2>11. QED BY <1>0, <1>2, <2>1, <2>9, <2>10
<1>6. CASE LookupCategory(c)
  <2>1. call.pc = "lookup" /\ catName' = catName
    BY <1>0, <1>6 DEF LookupCategory
  <2>2. next = [call EXCEPT !.label = catName[call.cat], !.pc = "save"]
    BY <1>0, <1>2, <1>6 DEF LookupCategory
  <2>3. next.cat = call.cat /\ next.label = catName[call.cat]
    BY <2>2 DEF MenuCall
  <2>4. QED BY <1>0, <1>2, <2>1, <2>3
<1>7. CASE SaveMenu(c)
  <2>1. CASE Refused(c)
    BY <1>0, <1>2, <1>4, <2>1 DEF Refused, MenuPc
  <2>2. CASE ~Refused(c)
    <3>1. PICK i : mcall' = [mcall EXCEPT ![c].pc = "enqueue", ![c].snap = None, ![c].ver = 0,
                                          ![c].id = i]
      BY <1>7, <2>2 DEF SaveMenu
    <3>2. next = [call EXCEPT !.pc = "enqueue", !.snap = None, !.ver = 0, !.id = i]
      BY <1>0, <1>2, <3>1
    <3>3. QED BY <1>2, <3>2 DEF MenuCall
  <2>3. QED BY <2>1, <2>2
<1>8. CASE EnqueueVectorSync(c) \/ InvalidateMenuCache(c) \/ InstanceDies(c)
  <2>1. \E pc \in {"del", "done", "lost"} : MGoto(c, pc)
    BY <1>0, <1>8 DEF EnqueueVectorSync, AfterEnqueue, InTransaction, InvalidateMenuCache, AfterDel,
       InstanceDies, MGoto
  <2>2. QED BY <1>2, <1>4, <2>1 DEF MenuPc
<1>9. CASE ~(\/ CreateMenu(c) \/ LookupCategory(c) \/ SaveMenu(c)
             \/ EnqueueVectorSync(c) \/ InvalidateMenuCache(c) \/ InstanceDies(c))
  BY <1>0, <1>3, <1>9 DEF CatalogStep, IngestionStep, ReadCategories, ReadProducts, FillCache,
     FindOrCreateCategory, FindImportCategory, CreateImportCategory,
     SaveInTransaction, CommitImport, RetryTransaction, WriteCategory,
     ReadForCascade, InTransaction, Uncommitted, EnqueueIngestion, StartIngestion, ParseFile,
     RecordSource, InvalidateAgain, CompleteIngestion, IngestionThrows, FailIngestion
<1>10. QED BY <1>5, <1>6, <1>7, <1>8, <1>9

\* Who changes the name of a category, and to what.
NameChange(c) ==
    \/ catName' = catName
    \/ \E k \in Categories, g \in CategoryNames :
         /\ catName' = [catName EXCEPT ![k] = g]
         /\ NamedCategory(g) \subseteq {k}
         /\ ~NamePending(g) \/ (Pending(c) /\ mcall[c].label = g)
         /\ \/ mcall[c].op = "rename" /\ catName[k] # None
            \/ \E t \in Attempts : k = <<c, t>> /\ Unmade(c, t) /\ ~Unmade(c, t)'
    \/ \E k \in Categories : DeleteCategory(c, k)

\* A category is made once, under a name that no other has or is about to have.
LEMMA NameChanges ==
    ASSUME CatalogInv, NamingInv, NEW c \in Calls,
           CatalogStep(c) \/ IngestionStep(c) \/ BeginCatalogCall(c)
              \/ \E f \in Files : UploadMenu(c, f[1], f[2])
    PROVE  NameChange(c)
<1> USE DEF CatalogInv, CatalogTypeOK
<1>0. PICK call \in MenuCall : /\ call = mcall[c] /\ OpAt(call) /\ Knows(call)
                               /\ HasItsMenu(call)
  BY CallTypes
<1>1. PICK next : Moves(c, next)
  BY CatalogInvOfMoves
<1>2. /\ mcall'[c] = next /\ next \in MenuCall /\ Onward(call, next) /\ hasTx' = hasTx
      /\ \A op \in Imports : op # None
  BY <1>0, <1>1, NoOp, OpNames, OneMoves DEF Moves
<1>3. call.try \in Attempts /\ call.try \in Nat /\ <<c, call.try>> \in Categories
  BY <1>0 DEF MenuCall, Attempts, Categories
<1>4. CASE FindOrCreateCategory(c)
  <2>1. CASE catName' # catName
    <3>1. /\ ~hasTx /\ catName' = [catName EXCEPT ![<<c, call.try>>] = call.label]
          /\ NamedCategory(call.label) = {} /\ ~NamePending(call.label)
          /\ mcall' = [mcall EXCEPT ![c].cat = <<c, call.try>>, ![c].pc = "save"]
          /\ call.pc = "newCategory"
      BY <1>0, <1>4, <2>1, ImportCategorySteps
    <3>2. call.op \in Imports /\ call.label \in CategoryNames
      BY <1>0, <3>1 DEF OpAt, Knows, Ended
    <3>3. next = [call EXCEPT !.cat = <<c, call.try>>, !.pc = "save"]
      BY <1>0, <1>2, <3>1
    <3>4. next.pc = "save" /\ next.try = call.try /\ next.op = call.op
      BY <3>3 DEF MenuCall
    <3>5. Unmade(c, call.try)
      BY <1>0, <3>1, <3>2 DEF Unmade, Finding
    <3>6. ~Unmade(c, call.try)'
      BY <1>2, <1>3, <3>1, <3>2, <3>4 DEF Unmade, Finding
    <3>7. QED BY <1>3, <3>1, <3>2, <3>5, <3>6 DEF NameChange
  <2>2. QED BY <2>1 DEF NameChange
<1>5. CASE CommitImport(c)
  <2>1. call.pc = "commit" /\ hasTx /\ call.op \in Imports /\ call.label \in CategoryNames
    BY <1>0, <1>5 DEF CommitImport, OpAt, Knows, HasItsMenu, Ended
  <2>2. CASE catName' # catName
    <3>1. /\ call.cat = <<c, call.try>>
          /\ catName' = [catName EXCEPT ![<<c, call.try>>] = call.label]
          /\ mcall' = [mcall EXCEPT ![c].pc = "del", ![c].snap = None, ![c].ver = 0]
      BY <1>0, <1>5, <2>2 DEF CommitImport
    <3>2. next = [call EXCEPT !.pc = "del", !.snap = None, !.ver = 0]
      BY <1>0, <1>2, <3>1
    <3>3. next.pc = "del" /\ next.try = call.try /\ next.op = call.op
      BY <3>2 DEF MenuCall
    <3>4. Unmade(c, call.try)
      BY <1>0, <2>1 DEF Unmade, Finding, Inserting
    <3>5. ~Unmade(c, call.try)'
      BY <1>2, <1>3, <2>1, <3>3 DEF Unmade, Finding, Inserting
    <3>6. Pending(c)
      BY <1>0, <2>1, <3>1 DEF Pending, InTransaction, Inserting
    <3>7. NamedCategory(call.label) = {}
      BY <1>0, <3>6 DEF NamingInv, PendingAlone
    <3>8. QED BY <1>0, <1>3, <2>1, <3>1, <3>4, <3>5, <3>6, <3>7 DEF NameChange
  <2>3. QED BY <2>2 DEF NameChange
<1>6. CASE WriteCategory(c)
  <2>1. call.op = "rename" /\ call.cat \in Categories /\ call.name \in CategoryNames
    BY <1>0, <1>6 DEF WriteCategory, OpAt, Knows, Ended, CategoryOps
  <2>2. CASE catName' # catName
    BY <1>0, <1>6, <2>1, <2>2 DEF WriteCategory, NameChange
  <2>3. QED BY <2>2 DEF NameChange
<1>7. ASSUME NEW g \in CategoryNames, CreateCategory(c, g) PROVE NameChange(c)
  <2>1. CASE catName' # catName
    <3>1. /\ call.pc = "idle" /\ ~NamePending(g) /\ NamedCategory(g) = {}
          /\ catName' = [catName EXCEPT ![<<c, 1>>] = g]
          /\ mcall' = [mcall EXCEPT ![c] = [Opened("create") EXCEPT !.pc = "del"]]
      BY <1>0, <1>7, <2>1 DEF CreateCategory
    <3>2. PICK o \in MenuCall : Opening(o, "create")
      BY OpenedOk, OpNames
    <3>3. next = [o EXCEPT !.pc = "del"]
      BY <1>2, <3>1, <3>2 DEF Opening
    <3>4. next.op = "create" /\ next.try = 1
      BY <3>2, <3>3 DEF Opening, MenuCall
    <3>5. "create" # None /\ "create" \notin Imports
      BY NoOp, OpNames DEF Imports
    <3>6. 1 \in Attempts /\ <<c, 1>> \in Categories
      BY DEF Attempts, Categories
    <3>7. Unmade(c, 1)
      BY <1>0, <3>1 DEF Unmade, OpAt
    <3>8. ~Unmade(c, 1)'
      BY <1>2, <3>4, <3>5 DEF Unmade
    <3>9. QED BY <3>1, <3>6, <3>7, <3>8 DEF NameChange
  <2>2. QED BY <2>1 DEF NameChange
<1>8. CASE CatalogStep(c) \/ IngestionStep(c)
  <2>1. CASE ~FindOrCreateCategory(c) /\ ~CommitImport(c) /\ ~WriteCategory(c)
    <3>1. catName' = catName
      BY <1>8, <2>1 DEF CatalogStep, CreateMenu, ReadCategories, ReadProducts, FillCache,
         LookupCategory, SaveMenu, SaveInTransaction, RetryTransaction, EnqueueVectorSync,
         InvalidateMenuCache, ReadForCascade, Load, IngestionStep, EnqueueIngestion,
         StartIngestion, ParseFile, RecordSource, InvalidateAgain, CompleteIngestion,
         IngestionThrows, FailIngestion, InstanceDies, InCatalog
    <3>2. QED BY <3>1 DEF NameChange
  <2>2. QED BY <1>4, <1>5, <1>6, <2>1
<1>9. CASE BeginCatalogCall(c) \/ \E f \in Files : UploadMenu(c, f[1], f[2])
  <2>1. PICK n : Moves(c, n) /\ Begun(c, n)
    BY <1>9, BeginMoves
  <2>2. QED BY <1>7, <2>1 DEF Begun, FromNames, NameChange
<1>10. QED BY <1>8, <1>9

\* An import that begins has nothing to insert yet.
LEMMA ImportBegins ==
    ASSUME CatalogInv, NEW c \in Calls,
           BeginCatalogCall(c) \/ \E f \in Files : UploadMenu(c, f[1], f[2]),
           mcall'[c].op \in Imports
    PROVE  mcall'[c].pc \notin Inserting
<1>1. PICK next : Moves(c, next) /\ Begun(c, next)
  BY BeginMoves
<1>2. mcall'[c] = next
  BY <1>1, OneMoves
<1>3. CASE next.op = "upload"
  <2>1. PICK f \in Files : UploadMenu(c, f[1], f[2])
    BY <1>1, <1>3 DEF Begun
  <2>2. PICK o \in MenuCall : Opening(o, "upload")
    BY OpenedOk, OpNames
  <2>3. PICK q : q = [o EXCEPT !.name = f[1], !.label = f[2], !.pc = "ingest"]
    OBVIOUS
  <2>4. mcall' = [mcall EXCEPT ![c] = q]
    BY <2>1, <2>2, <2>3 DEF UploadMenu, Opening
  <2>5. next = q
    BY <1>2, <2>4 DEF CatalogInv, CatalogTypeOK
  <2>6. QED BY <1>2, <2>2, <2>3, <2>5 DEF MenuCall, Inserting
<1>4. CASE next.op = "import"
  BY <1>1, <1>2, <1>4 DEF Begun, Inserting
<1>5. QED BY <1>2, <1>3, <1>4 DEF Imports

\* A category that has been made is never unmade; one that waits for its commit was looked
\* for in vain.
LEMMA Making ==
    ASSUME CatalogInv, UnmadeNameless, NEW c \in Calls,
           CatalogStep(c) \/ IngestionStep(c) \/ BeginCatalogCall(c)
              \/ \E f \in Files : UploadMenu(c, f[1], f[2])
    PROVE  /\ \A d \in Calls, t \in Attempts : Unmade(d, t)' => Unmade(d, t)
           /\ Pending(c)' =>
                 /\ catName' = catName
                 /\ \/ Pending(c) /\ mcall'[c].label = mcall[c].label
                    \/ NamedCategory(mcall'[c].label) = {} /\ ~NamePending(mcall'[c].label)
<1>0. PICK call \in MenuCall : call = mcall[c] /\ OpAt(call) /\ Knows(call)
  BY CallTypes DEF CatalogInv
<1>1. PICK next : Moves(c, next)
  BY CatalogInvOfMoves
<1>2. /\ mcall'[c] = next /\ next \in MenuCall /\ Onward(call, next) /\ hasTx' = hasTx
      /\ \A d \in Calls \ {c} : mcall'[d] = mcall[d]
  BY <1>0, <1>1, OneMoves DEF Moves
<1>a. /\ \A op \in Imports : op # None
      /\ call.try \in Nat /\ next.try \in Nat /\ call.try \in Attempts
  BY <1>0, <1>2, NoOp, OpNames DEF MenuCall, Attempts
<1>3. ASSUME call.op # None PROVE CatalogStep(c) \/ IngestionStep(c)
  BY <1>0, <1>3, BeginMoves
<1>4. ASSUME call.op = None, next.op \in Imports PROVE next.pc \notin Inserting
  BY <1>0, <1>2, <1>4, ImportBegins, OnlyAtWork
<1>5. ASSUME call.op \in Imports
      PROVE  /\ ImportGoesOn(c) /\ next.op = call.op
  BY <1>0, <1>2, <1>a, <1>3, <1>5, ImportSteps DEF ImportGoesOn
<1>6. ASSUME NEW t \in Attempts, Unmade(c, t)' PROVE Unmade(c, t)
  <2>0. t \in Nat
    BY DEF Attempts
  <2>1. CASE call.op = None
    BY <1>0, <2>1 DEF Unmade
  <2>2. CASE call.op # None
    <3>1. next.op = call.op
      BY <1>2, <1>a, <2>2 DEF Onward
    <3>2. next.try = call.try \/ next.try = call.try + 1
      <4>1. next.try # call.try => next = NextAttempt(call)
        BY <1>0, <1>2, <1>a, <1>3, <2>2, LocalsStep
      <4>2. NextAttempt(call).try = call.try + 1
        BY DEF NextAttempt, MenuCall
      <4>3. QED BY <4>1, <4>2
    <3>3. CASE t > next.try
      BY <1>0, <1>2, <1>a, <2>0, <3>2, <3>3 DEF Unmade
    <3>4. CASE ~(t > next.try)
      <4>1. /\ t = next.try /\ call.op \in Imports
            /\ next.pc \in Finding \/ (hasTx /\ next.pc \in Inserting)
        BY <1>2, <1>a, <1>6, <2>2, <3>1, <3>4 DEF Unmade
      <4>2. CASE t > call.try
        BY <1>0, <4>2 DEF Unmade
      <4>3. CASE ~(t > call.try)
        <5>1. next.try = call.try
          BY <1>2, <1>a, <2>0, <3>2, <4>1, <4>3
        <5>2. call.pc \in Finding \/ (hasTx /\ call.pc \in Inserting)
          <6>1. CASE next.pc \in Finding
            BY <1>0, <1>2, <1>a, <1>5, <4>1, <5>1, <6>1 DEF ImportGoesOn
          <6>2. CASE hasTx /\ next.pc \in Inserting
            <7>1. FindOrCreateCategory(c) \/ (hasTx /\ call.pc \in {"save", "enqueue"})
              BY <1>0, <1>2, <1>a, <1>5, <4>1, <6>2 DEF ImportGoesOn
            <7>2. QED BY <1>0, <7>1, ImportCategorySteps DEF Finding, Inserting
          <6>3. QED BY <4>1, <6>1, <6>2
        <5>3. QED BY <1>0, <4>1, <5>1, <5>2 DEF Unmade
      <4>4. QED BY <4>2, <4>3
    <3>5. QED BY <3>3, <3>4
  <2>3. QED BY <2>1, <2>2
<1>7. ASSUME NEW d \in Calls, NEW t \in Attempts, Unmade(d, t)' PROVE Unmade(d, t)
  <2>1. CASE d = c
    BY <1>6, <1>7, <2>1
  <2>2. CASE d # c
    BY <1>2, <1>a, <1>7, <2>2 DEF Unmade
  <2>3. QED BY <2>1, <2>2
<1>8. ASSUME Pending(c)'
      PROVE  /\ catName' = catName
             /\ \/ Pending(c) /\ next.label = call.label
                \/ NamedCategory(next.label) = {} /\ ~NamePending(next.label)
  <2>1. hasTx /\ next.op \in Imports /\ next.pc \in Inserting /\ next.cat = <<c, next.try>>
    BY <1>2, <1>a, <1>8 DEF Pending, InTransaction
  <2>2. call.op \in Imports /\ call.op # None
    BY <1>2, <1>a, <1>4, <2>1 DEF Onward
  <2>3. /\ next.label = call.label /\ next.try = call.try
        /\ \/ FindOrCreateCategory(c) /\ next.pc = "save" /\ next.cat # None
           \/ /\ hasTx /\ call.pc \in {"save", "enqueue"} /\ next.cat = call.cat
              /\ catName' = catName
    BY <1>0, <1>2, <1>a, <1>5, <2>1, <2>2 DEF ImportGoesOn
  <2>4. CASE FindOrCreateCategory(c)
    <3>1. call.pc \in {"category", "newCategory"}
      BY <1>0, <2>4, ImportCategorySteps
    <3>2. catName[<<c, call.try>>] = None
      <4>1. Unmade(c, call.try)
        BY <1>0, <2>2, <3>1 DEF Unmade, Finding
      <4>2. QED BY <1>2, <1>a, <4>1 DEF UnmadeNameless
    <3>3. call.label # None
      BY <1>0, <2>2, <3>1 DEF Knows, Ended
    <3>4. CASE NamedCategory(call.label) = {} /\ ~NamePending(call.label) /\ catName' = catName
      BY <2>3, <3>4
    <3>5. ASSUME NEW k \in NamedCategory(call.label),
                 mcall' = [mcall EXCEPT ![c].cat = k, ![c].pc = "save"]
          PROVE  FALSE
      <4>1. next = [call EXCEPT !.cat = k, !.pc = "save"]
        BY <1>0, <1>2, <1>a, <3>5 DEF CatalogInv, CatalogTypeOK
      <4>2. next.cat = k
        BY <4>1 DEF MenuCall
      <4>3. catName[<<c, call.try>>] = call.label
        BY <2>1, <2>3, <3>5, <4>2 DEF NamedCategory
      <4>4. QED BY <3>2, <3>3, <4>3
    <3>6. next.pc = "save"
      BY <1>0, <2>3, <3>1
    <3>7. CASE mcall' = [mcall EXCEPT ![c].pc = "newCategory"]
      <4>1. next = [call EXCEPT !.pc = "newCategory"]
        BY <1>0, <1>2, <1>a, <3>7 DEF CatalogInv, CatalogTypeOK
      <4>2. next.pc = "newCategory"
        BY <4>1 DEF MenuCall
      <4>3. QED BY <3>6, <4>2
    <3>8. CASE Refused(c)
      <4>1. \E pc \in {"fail", "failed"} : MGoto(c, pc)
        BY <3>8 DEF Refused
      <4>2. next.pc \in {"fail", "failed"}
        BY <1>0, <1>2, <1>a, <4>1, AtKeeps DEF MGoto, MenuPc, CatalogInv, CatalogTypeOK
      <4>3. QED BY <3>6, <4>2
    <3>9. QED BY <1>0, <2>1, <2>4, <3>4, <3>5, <3>7, <3>8, ImportCategorySteps
  <2>5. CASE call.pc \in {"save", "enqueue"} /\ next.cat = call.cat /\ catName' = catName
    BY <1>0, <2>1, <2>2, <2>3, <2>5 DEF Pending, InTransaction, Inserting
  <2>6. QED BY <2>3, <2>4, <2>5
<1>9. QED BY <1>0, <1>2, <1>a, <1>7, <1>8

\* A step of a request leaves the names of categories apart.
LEMMA NamingStep ==
    ASSUME CatalogInv, NamingInv, NEW c \in Calls,
           CatalogStep(c) \/ IngestionStep(c) \/ BeginCatalogCall(c)
              \/ \E f \in Files : UploadMenu(c, f[1], f[2])
    PROVE  NamingInv'
<1> USE DEF NamingInv
<1>1. PICK next : Moves(c, next)
  BY CatalogInvOfMoves
<1>2. /\ mcall'[c] = next /\ \A d \in Calls \ {c} : mcall'[d] = mcall[d]
      /\ hasTx' = hasTx /\ CatalogInv'
  BY <1>1, OneMoves, CatalogInvOfMoves DEF Moves
<1>3. catName \in Naming /\ catName' \in Naming
  BY <1>2 DEF CatalogInv, CatalogTypeOK
<1>4. NameChange(c)
  BY NameChanges
<1>5. /\ \A d \in Calls, t \in Attempts : Unmade(d, t)' => Unmade(d, t)
      /\ Pending(c)' =>
            /\ catName' = catName
            /\ \/ Pending(c) /\ mcall'[c].label = mcall[c].label
               \/ NamedCategory(mcall'[c].label) = {} /\ ~NamePending(mcall'[c].label)
  BY Making
<1>6. \A d \in Calls : Pending(d) => NamePending(mcall[d].label)
  BY DEF Pending, NamePending, Uncommitted, Inserting, InTransaction
<1>7. \A d \in Calls \ {c} : Pending(d)' <=> Pending(d)
  BY <1>2 DEF Pending, InTransaction
<1>8. None \notin CategoryNames
  OBVIOUS
<1>9. NamesDiffer'
  <2>1. CASE catName' = catName
    BY <2>1 DEF NamesDiffer
  <2>2. ASSUME NEW k \in Categories, NEW g \in CategoryNames, catName' = [catName EXCEPT ![k] = g],
               NamedCategory(g) \subseteq {k}
        PROVE  NamesDiffer'
    BY <1>3, <2>2 DEF NamesDiffer, NamedCategory, Naming
  <2>3. ASSUME NEW k \in Categories, DeleteCategory(c, k) PROVE NamesDiffer'
    BY <1>3, <2>3 DEF DeleteCategory, NamesDiffer, Naming
  <2>4. QED BY <1>4, <2>1, <2>2, <2>3 DEF NameChange
<1>10. UnmadeNameless'
  <2>1. ASSUME NEW d \in Calls, NEW t \in Attempts, Unmade(d, t)'
        PROVE  catName'[<<d, t>>] = None
    <3>1. Unmade(d, t) /\ catName[<<d, t>>] = None /\ <<d, t>> \in Categories
      BY <1>5, <2>1 DEF UnmadeNameless, Categories
    <3>2. CASE catName' = catName
      BY <3>1, <3>2
    <3>3. ASSUME NEW k \in Categories, NEW g \in CategoryNames,
                 catName' = [catName EXCEPT ![k] = g],
                 \/ catName[k] # None
                 \/ \E s \in Attempts : k = <<c, s>> /\ ~Unmade(c, s)'
          PROVE  catName'[<<d, t>>] = None
      <4>1. <<d, t>> # k
        BY <2>1, <3>1, <3>3
      <4>2. QED BY <1>3, <3>1, <3>3, <4>1 DEF Naming
    <3>4. ASSUME NEW k \in Categories, DeleteCategory(c, k) PROVE catName'[<<d, t>>] = None
      BY <1>3, <3>1, <3>4 DEF DeleteCategory, Naming
    <3>5. QED BY <1>4, <3>2, <3>3, <3>4 DEF NameChange
  <2>2. QED BY <2>1 DEF UnmadeNameless
<1>11. PendingAlone'
  <2>1. ASSUME NEW d \in Calls, Pending(d)' PROVE NamedCategory(mcall[d].label)' = {}
    <3>1. CASE catName' = catName
      <4>1. NamedCategory(mcall'[d].label) = {}
        <5>1. CASE d = c
          BY <1>5, <2>1, <5>1 DEF PendingAlone
        <5>2. CASE d # c
          BY <1>2, <1>7, <2>1, <5>2 DEF PendingAlone
        <5>3. QED BY <5>1, <5>2
      <4>2. QED BY <3>1, <4>1 DEF NamedCategory
    <3>2. CASE d # c
      <4>1. Pending(d) /\ NamedCategory(mcall[d].label) = {} /\ mcall'[d] = mcall[d]
        BY <1>2, <1>7, <2>1, <3>2 DEF PendingAlone
      <4>2. \A k \in Categories : catName[k] # mcall[d].label
        BY <4>1 DEF NamedCategory
      <4>3. ASSUME NEW k \in Categories, NEW g \in CategoryNames,
                   catName' = [catName EXCEPT ![k] = g],
                   ~NamePending(g) \/ (Pending(c) /\ mcall[c].label = g)
            PROVE  \A j \in Categories : catName'[j] # mcall[d].label
        <5>1. g # mcall[d].label
          BY <1>6, <3>2, <4>1, <4>3 DEF PendingAlone
        <5>2. QED BY <1>3, <4>2, <4>3, <5>1 DEF Naming
      <4>4. ASSUME NEW k \in Categories, DeleteCategory(c, k)
            PROVE  \A j \in Categories : catName'[j] # mcall[d].label
        <5>1. catName' = [catName EXCEPT ![k] = None]
          BY <4>4 DEF DeleteCategory
        <5>2. mcall[d].label # None
          BY <4>1, CallTypes DEF CatalogInv, Pending, Knows, InTransaction, Inserting, Ended
        <5>3. QED BY <1>3, <4>2, <5>1, <5>2 DEF Naming
      <4>5. \A j \in Categories : catName'[j] # mcall[d].label
        BY <1>4, <4>2, <4>3, <4>4 DEF NameChange
      <4>6. QED BY <4>1, <4>5 DEF NamedCategory
    <3>3. CASE d = c
      BY <1>5, <2>1, <3>1, <3>3
    <3>4. QED BY <3>2, <3>3
  <2>2. ASSUME NEW d \in Calls, Pending(d)', NEW e \in Calls, Pending(e)',
               mcall'[e].label = mcall'[d].label
        PROVE  e = d
    <3>1. CASE e # c /\ d # c
      BY <1>2, <1>7, <2>2, <3>1 DEF PendingAlone
    <3>2. ASSUME NEW o \in Calls \ {c}, Pending(o)', Pending(c)', mcall'[o].label = mcall'[c].label
          PROVE  FALSE
      <4>1. Pending(o) /\ mcall'[o] = mcall[o] /\ NamePending(mcall[o].label)
        BY <1>2, <1>6, <1>7, <3>2
      <4>2. Pending(c) /\ mcall'[c].label = mcall[c].label
        BY <1>5, <3>2, <4>1
      <4>3. QED BY <3>2, <4>1, <4>2 DEF PendingAlone
    <3>3. QED BY <2>2, <3>1, <3>2
  <2>3. QED BY <2>1, <2>2 DEF PendingAlone
<1>12. QED BY <1>9, <1>10, <1>11

\* No two categories of one name, in every reachable state.
LEMMA NamingHolds == Spec => []NamingInv
<1>1. Init => NamingInv
  <2> SUFFICES ASSUME Init PROVE NamingInv
    OBVIOUS
  <2> USE DEF Init, CatalogInit
  <2>1. \A c \in Calls : mcall[c].op = None /\ mcall[c].pc = "idle"
    BY DEF IdleCall
  <2>2. NamesDiffer
    BY OldMenuInOrder DEF NamesDiffer
  <2>3. UnmadeNameless
    <3>1. \A c \in Calls, t \in Attempts : <<c, t>> \in Categories \ OldCategories
      BY DEF Categories
    <3>2. QED BY <3>1 DEF UnmadeNameless
  <2>4. PendingAlone
    BY <2>1 DEF PendingAlone, Pending, Inserting
  <2>5. QED BY <2>2, <2>3, <2>4 DEF NamingInv
<1>2. MenuInv /\ NamingInv /\ [Next]_allVars => NamingInv'
  <2> SUFFICES ASSUME MenuInv, NamingInv, [Next]_allVars PROVE NamingInv'
    OBVIOUS
  <2>1. CASE \E c \in Calls : Begin(c) \/ ImportStep(c) \/ IngestionStep(c)
    BY <2>1, NamingStep DEF Begin, ImportStep, MenuInv
  <2>2. CASE VectorNext \/ UNCHANGED allVars
    <3>1. UNCHANGED <<hasTx, catName, mcall>>
      BY <2>2 DEF VectorNext, TakeJob, ResetNamespace, ReadMenu, WriteVectors, DeleteVector,
         JobFails, allVars, catalogVars, menuVars
    <3>2. QED BY <3>1 DEF NamingInv, NamesDiffer, UnmadeNameless, Unmade, PendingAlone, Pending,
         InTransaction, NamedCategory
  <2>3. QED BY <2>1, <2>2 DEF Next
<1>3. QED BY <1>1, <1>2, MenuInvariant, PTL DEF Spec

\* Categories come and keep their names; none goes.
NamesGrow == \A k \in Categories : catName[k] # None => catName'[k] = catName[k]

\* While categories only come, what was in order stays so.
LEMMA OrderStays ==
    ASSUME NamesGrow, NEW arr \in Arrays, ArrayInOrder(arr)
    PROVE  ArrayInOrder(arr)'
<1>1. ASSUME NEW id \in Ids, arr[id] # None PROVE InOrder(arr[id])'
  <2>1. arr[id] \in Product /\ InOrder(arr[id])
    BY <1>1 DEF ArrayInOrder, Arrays
  <2>2. QED BY <2>1 DEF InOrder, NamesGrow, Product
<1>2. QED BY <1>1 DEF ArrayInOrder

\* A save that writes a product writes its category and its label together, or neither.
LEMMA SavedInOrder ==
    ASSUME CatalogInv, NamesDiffer, NamesGrow, NEW c \in Calls,
           mcall[c].pc \in {"save", "commit"}, mcall[c].op \notin CategoryOps,
           NEW want \in Wanted(c), SaveArray(c, want),
           ArrayInOrder(products), ArrayInOrder(mcall[c].snap),
           mcall[c].op # "remove" =>
              IF mcall[c].cat = None THEN mcall[c].label = None
              ELSE /\ mcall[c].label # None /\ catName'[mcall[c].cat] = mcall[c].label
                   /\ \A j \in Categories : catName[j] = mcall[c].label => j = mcall[c].cat
    PROVE  ArrayInOrder(products)'
<1>0. PICK call \in MenuCall : call = mcall[c] /\ OpAt(call) /\ Knows(call)
  BY CallTypes DEF CatalogInv
<1>1. PICK snap \in Arrays : snap = call.snap
  BY <1>0 DEF Knows, MenuCall
<1>2. PICK arr \in Arrays : arr = products
  BY DEF CatalogInv, CatalogTypeOK
<1>3. want \in Arrays
  BY WantedArrays DEF CatalogInv
<1>4. \A i \in SameName(c) : i \in Ids /\ snap[i] \in Product
  BY <1>0, <1>1 DEF SameName, InArray, Arrays
<1>5. call.op # "remove" => IF call.cat = None THEN call.label = None ELSE call.label # None
  BY <1>0
<1>6. ASSUME NEW q \in Product, call.op # "remove"
      PROVE  \/ Priced(c, q).cat = q.cat /\ Priced(c, q).label = q.label
             \/ Priced(c, q).cat = call.cat /\ Priced(c, q).label = call.label
  BY <1>0, <1>5, <1>6 DEF Priced
<1>7. NewProduct(c).cat = call.cat /\ NewProduct(c).label = call.label
  BY <1>0 DEF NewProduct
\* What is wanted has its category and label from what was loaded, or from the request.
<1>8. ASSUME NEW id \in Ids, want[id] # None
      PROVE  \/ snap[id] # None /\ want[id].cat = snap[id].cat /\ want[id].label = snap[id].label
             \/ /\ call.op # "remove"
                /\ want[id].cat = call.cat /\ want[id].label = call.label
  <2>1. CASE /\ call.op \in Pushers
             /\ want = [snap EXCEPT ![<<c, call.try>>] = NewProduct(c)]
    BY <1>1, <1>7, <1>8, <2>1 DEF Arrays, Pushers, Imports
  <2>2. CASE /\ call.op \in Pushers
             /\ \E i \in SameName(c) : want = [snap EXCEPT ![i] = Priced(c, snap[i])]
    <3>1. PICK i \in SameName(c) : want = [snap EXCEPT ![i] = Priced(c, snap[i])]
      BY <2>2
    <3>2. snap[i] # None /\ call.op # "remove"
      BY <1>4, <2>2 DEF Pushers, Imports
    <3>3. CASE id = i
      BY <1>1, <1>4, <1>6, <3>1, <3>2, <3>3 DEF Arrays
    <3>4. CASE id # i
      BY <1>1, <1>8, <3>1, <3>4 DEF Arrays
    <3>5. QED BY <3>3, <3>4
  <2>3. CASE call.op = "update" /\ want = [snap EXCEPT ![call.id] = Priced(c, snap[call.id])]
    <3>1. call.id \in Ids /\ snap[call.id] # None /\ snap[call.id] \in Product
      BY <1>0, <1>1, <2>3 DEF Knows, OpAt, Imports, Arrays
    <3>2. CASE id = call.id
      BY <1>1, <1>6, <2>3, <3>1, <3>2 DEF Arrays
    <3>3. CASE id # call.id
      BY <1>1, <1>8, <2>3, <3>3 DEF Arrays
    <3>4. QED BY <3>2, <3>3
  <2>4. CASE call.op = "remove" /\ want = [snap EXCEPT ![call.id] = None]
    BY <1>1, <1>8, <2>4 DEF Arrays
  <2>5. QED BY <1>0, <1>1, <2>1, <2>2, <2>3, <2>4, WantedForms
\* So it is in order, and differs from what was loaded in both or in neither.
<1>9. ASSUME NEW q \in Product, InOrder(q) PROVE InOrder(q)'
  BY <1>9 DEF InOrder, NamesGrow, Product
<1>10. ASSUME NEW id \in Ids, want[id] # None
       PROVE  /\ InOrder(want[id])'
              /\ snap[id] # None =>
                    (want[id].cat # snap[id].cat <=> want[id].label # snap[id].label)
  <2>1. want[id] \in Product /\ snap[id] \in Product \cup {None}
    BY <1>3, <1>10 DEF Arrays
  <2>2. snap[id] # None => InOrder(snap[id]) /\ InOrder(snap[id])'
    BY <1>0, <1>1, <1>9, <2>1 DEF ArrayInOrder
  <2>3. CASE /\ snap[id] # None
             /\ want[id].cat = snap[id].cat /\ want[id].label = snap[id].label
    BY <2>1, <2>2, <2>3 DEF InOrder
  <2>4. CASE call.op # "remove" /\ want[id].cat = call.cat /\ want[id].label = call.label
    <3>1. /\ IF call.cat = None THEN call.label = None
             ELSE /\ call.label # None /\ catName'[call.cat] = call.label
                  /\ \A j \in Categories : catName[j] = call.label => j = call.cat
      BY <1>0, <2>4
    <3>2. InOrder(want[id])'
      BY <2>4, <3>1 DEF InOrder
    <3>3. CASE snap[id] # None
      <4>1. PICK q \in Product : q = snap[id] /\ InOrder(q) /\ InOrder(q)'
        BY <2>1, <2>2, <3>3
      <4>2. IF q.cat = None THEN q.label = None
            ELSE q.label # None /\ catName[q.cat] = q.label /\ catName'[q.cat] = q.label
        BY <4>1 DEF InOrder
      <4>3. q.cat \in Categories \cup {None}
        BY <4>1 DEF Product
      <4>4. call.cat # q.cat <=> call.label # q.label
        BY <3>1, <4>2, <4>3
      <4>5. QED BY <2>4, <3>2, <4>1, <4>4
    <3>4. QED BY <3>2, <3>3
  <2>5. QED BY <1>8, <1>10, <2>3, <2>4
<1>11. ASSUME NEW id \in Ids, NEW p, p = products'[id], p # None PROVE InOrder(p)'
  <2>1. products'[id] = IF id \in Moved(c, want) THEN want[id]
                        ELSE IF id \in Edited(c, want) /\ arr[id] # None
                             THEN Fields(arr[id], snap[id], want[id])
                             ELSE arr[id]
    BY <1>0, <1>1, <1>2 DEF SaveArray
  <2>2. arr[id] # None => arr[id] \in Product /\ InOrder(arr[id])'
    BY <1>2, <1>9 DEF ArrayInOrder, Arrays
  <2>3. CASE id \in Moved(c, want)
    BY <1>10, <1>11, <2>1, <2>3
  <2>4. CASE id \notin Moved(c, want) /\ id \in Edited(c, want) /\ arr[id] # None
    <3>1. want[id] # None /\ snap[id] # None
      BY <1>0, <1>1, <2>4 DEF Edited
    <3>2. PICK old \in Product, q \in Product, r \in Product :
             old = arr[id] /\ q = snap[id] /\ r = want[id]
      BY <1>3, <2>2, <2>4, <3>1 DEF Arrays
    <3>3. PICK m : m = Fields(old, q, r)
      OBVIOUS
    <3>4. /\ m.cat = IF r.cat # q.cat THEN r.cat ELSE old.cat
          /\ m.label = IF r.label # q.label THEN r.label ELSE old.label
      BY <3>3 DEF Fields
    <3>5. InOrder(old)' /\ InOrder(r)' /\ (r.cat # q.cat <=> r.label # q.label)
      BY <1>10, <2>2, <2>4, <3>1, <3>2
    <3>6. InOrder(m)'
      BY <3>4, <3>5 DEF InOrder
    <3>7. p = m
      BY <1>11, <2>1, <2>4, <3>2, <3>3
    <3>8. QED BY <3>6, <3>7
  <2>5. CASE id \notin Moved(c, want) /\ ~(id \in Edited(c, want) /\ arr[id] # None)
    BY <1>11, <2>1, <2>2, <2>5
  <2>6. QED BY <2>3, <2>4, <2>5
<1>12. QED BY <1>11 DEF ArrayInOrder, InOrder

\* How a rename or a deletion goes on.
CascadeGoesOn(c) == LET call == mcall[c] next == mcall'[c] IN
    /\ next.op = call.op
    /\ \/ next.pc \in {"lost", "failed"}
       \/ /\ call.pc = "write" /\ products' = products
          /\ \/ next.pc = "denied" /\ catName[call.cat] = None /\ catName' = catName
             \/ /\ next.pc = "del" /\ catName' = [catName EXCEPT ![call.cat] = call.name]
                /\ next.cat = call.cat /\ next.name = call.name /\ next.label = call.label
       \/ /\ call.pc = "del" /\ products' = products /\ catName' = catName
          /\ \/ next.pc = "done" /\ call.op = "rename" /\ call.name = call.label
             \/ /\ next.pc = "cascade"
                /\ next.cat = call.cat /\ next.name = call.name /\ next.label = call.label
       \/ /\ call.pc = "cascade" /\ products' = products /\ catName' = catName
          /\ \/ next.pc = "done" /\ InCategory(call.cat) = {}
             \/ /\ next.pc = "save" /\ next.snap = products
                /\ next.cat = call.cat /\ next.name = call.name /\ next.label = call.label
       \/ /\ call.pc = "save" /\ next.pc = "enqueue" /\ catName' = catName
          /\ \E want \in Wanted(c) : SaveArray(c, want)
       \/ /\ call.pc = "enqueue" /\ next.pc = "done"
          /\ products' = products /\ catName' = catName

\* Every step of a rename or a deletion is of this kind.
LEMMA CascadeSteps ==
    ASSUME CatalogInv, NEW c \in Calls, CatalogStep(c) \/ IngestionStep(c),
           mcall[c].op \in CategoryOps
    PROVE  CascadeGoesOn(c)
<1> USE DEF CatalogInv, CatalogTypeOK
<1>0. PICK call \in MenuCall : /\ call = mcall[c] /\ OpAt(call) /\ Knows(call)
                               /\ call.op \in CategoryOps /\ call.op # "read"
                               /\ call.op \notin Imports \cup Writers \cup {"upload"}
                               /\ call.pc \notin Ended
  BY CallTypes, OnlyAtWork DEF Imports, CategoryOps, Writers
<1>1. PICK next : Moves(c, next)
  BY CatalogInvOfMoves
<1>2. mcall'[c] = next /\ next \in MenuCall /\ next.op = call.op
  BY <1>0, <1>1, NoOp, OpNames, OneMoves DEF Moves, Onward
<1>3. call.pc \in {"write", "del", "cascade", "save", "enqueue"}
  BY <1>0 DEF OpAt, Imports, CategoryOps, Writers, MenuCall, MenuPc, Ended
<1>4. ASSUME NEW q \in MenuCall, NEW pc \in MenuPc, mcall' = [mcall EXCEPT ![c] = At(q, pc)]
      PROVE  /\ next.pc = pc
             /\ pc \notin Ended => /\ next.cat = q.cat /\ next.label = q.label
                                   /\ next.name = q.name /\ next.snap = q.snap
  <2>1. next = At(q, pc)
    BY <1>2, <1>4
  <2>2. pc \notin Ended => next = [q EXCEPT !.pc = pc]
    BY <2>1 DEF At
  <2>3. QED BY <2>1, <2>2, AtKeeps DEF MenuCall
<1>5. ASSUME NEW pc \in MenuPc, MGoto(c, pc)
      PROVE  /\ next.pc = pc
             /\ pc \notin Ended => /\ next.cat = call.cat /\ next.label = call.label
                                   /\ next.name = call.name
  BY <1>0, <1>4, <1>5 DEF MGoto
<1>6. CASE next.pc \in {"lost", "failed"}
  BY <1>0, <1>2, <1>6 DEF CascadeGoesOn
<1>7. CASE WriteCategory(c)
  <2>1. call.pc = "write" /\ products' = products
    BY <1>0, <1>7 DEF WriteCategory, menuVars
  <2>2. CASE MGoto(c, "denied") /\ catName[call.cat] = None /\ catName' = catName
    <3>1. next.pc = "denied"
      BY <1>5, <2>2 DEF MenuPc
    <3>2. QED BY <1>0, <1>2, <2>1, <2>2, <3>1 DEF CascadeGoesOn
  <2>3. CASE MGoto(c, "del") /\ catName' = [catName EXCEPT ![call.cat] = call.name]
    <3>1. /\ next.pc = "del" /\ next.cat = call.cat /\ next.label = call.label
          /\ next.name = call.name
      BY <1>5, <2>3 DEF MenuPc, Ended
    <3>2. QED BY <1>0, <1>2, <2>1, <2>3, <3>1 DEF CascadeGoesOn
  <2>4. CASE MGoto(c, "failed")
    <3>1. next.pc = "failed"
      BY <1>5, <2>4 DEF MenuPc
    <3>2. QED BY <1>6, <3>1
  <2>5. QED BY <1>0, <1>7, <2>2, <2>3, <2>4 DEF WriteCategory
<1>8. CASE InvalidateMenuCache(c)
  <2>1. /\ call.pc = "del" /\ products' = products /\ catName' = catName
        /\ MGoto(c, AfterDel(c))
    BY <1>0, <1>8 DEF InvalidateMenuCache, menuVars
  <2>2. CASE AfterDel(c) = "cascade"
    <3>1. /\ next.pc = "cascade" /\ next.cat = call.cat /\ next.label = call.label
          /\ next.name = call.name
      BY <1>5, <2>1, <2>2 DEF MenuPc, Ended
    <3>2. QED BY <1>0, <1>2, <2>1, <3>1 DEF CascadeGoesOn
  <2>3. CASE AfterDel(c) # "cascade"
    <3>1. AfterDel(c) = "done" /\ call.op = "rename" /\ call.name = call.label
      BY <1>0, <2>3 DEF AfterDel, CategoryOps
    <3>2. next.pc = "done"
      BY <1>5, <2>1, <3>1 DEF MenuPc
    <3>3. QED BY <1>0, <1>2, <2>1, <3>1, <3>2 DEF CascadeGoesOn
  <2>4. QED BY <2>2, <2>3
<1>9. CASE ReadForCascade(c)
  <2>1. PICK arr \in Arrays, n \in Nat : arr = products /\ n = version
    OBVIOUS
  <2>2. PICK q : q = [call EXCEPT !.snap = arr, !.ver = n]
    OBVIOUS
  <2>3. /\ q \in MenuCall /\ q.snap = products /\ q.cat = call.cat
        /\ q.label = call.label /\ q.name = call.name
    BY ZenonT(60), <2>1, <2>2 DEF MenuCall
  <2>4. /\ call.pc = "cascade" /\ products' = products /\ catName' = catName
        /\ mcall' = [mcall EXCEPT ![c] = At(q, IF InCategory(call.cat) = {} THEN "done"
                                                                           ELSE "save")]
    BY <1>0, <1>9, <2>1, <2>2 DEF ReadForCascade, menuVars
  <2>5. CASE InCategory(call.cat) = {}
    <3>1. next.pc = "done"
      BY <1>4, <2>3, <2>4, <2>5 DEF MenuPc
    <3>2. QED BY <1>0, <1>2, <2>4, <2>5, <3>1 DEF CascadeGoesOn
  <2>6. CASE InCategory(call.cat) # {}
    <3>1. /\ next.pc = "save" /\ next.cat = q.cat /\ next.label = q.label
          /\ next.name = q.name /\ next.snap = q.snap
      BY <1>4, <2>3, <2>4, <2>6 DEF MenuPc, Ended
    <3>2. QED BY <1>0, <1>2, <2>3, <2>4, <3>1 DEF CascadeGoesOn
  <2>7. QED BY <2>5, <2>6
<1>10. CASE SaveMenu(c)
  <2>1. call.pc = "save" /\ catName' = catName
    BY <1>0, <1>10 DEF SaveMenu
  <2>2. CASE Refused(c)
    <3>1. next.pc = "failed"
      BY <1>0, <1>5, <2>2 DEF Refused, MenuPc
    <3>2. QED BY <1>6, <3>1
  <2>3. CASE ~Refused(c)
    <3>1. PICK want \in Wanted(c) :
            /\ SaveArray(c, want)
            /\ \E i : mcall' = [mcall EXCEPT ![c].pc = "enqueue", ![c].snap = None,
                                             ![c].ver = 0, ![c].id = i]
      BY <1>10, <2>3 DEF SaveMenu
    <3>2. PICK i : mcall' = [mcall EXCEPT ![c].pc = "enqueue", ![c].snap = None,
                                          ![c].ver = 0, ![c].id = i]
      BY <3>1
    <3>3. next = [call EXCEPT !.pc = "enqueue", !.snap = None, !.ver = 0, !.id = i]
      BY <1>0, <1>2, <3>2
    <3>4. next.pc = "enqueue"
      BY <3>3 DEF MenuCall
    <3>5. QED BY <1>0, <1>2, <2>1, <3>1, <3>4 DEF CascadeGoesOn
  <2>4. QED BY <2>2, <2>3
<1>11. CASE EnqueueVectorSync(c)
  <2>1. /\ call.pc = "enqueue" /\ products' = products /\ catName' = catName
        /\ MGoto(c, "done")
    BY <1>0, <1>11 DEF EnqueueVectorSync, AfterEnqueue, InTransaction, menuVars
  <2>2. next.pc = "done"
    BY <1>5, <2>1 DEF MenuPc
  <2>3. QED BY <1>0, <1>2, <2>1, <2>2 DEF CascadeGoesOn
<1>12. CASE InstanceDies(c)
  <2>1. MGoto(c, "lost")
    BY <1>0, <1>12 DEF InstanceDies, MGoto
  <2>2. next.pc = "lost"
    BY <1>5, <2>1 DEF MenuPc
  <2>3. QED BY <1>6, <2>2
<1>13. CASE ~(\/ WriteCategory(c) \/ InvalidateMenuCache(c) \/ ReadForCascade(c)
              \/ SaveMenu(c) \/ EnqueueVectorSync(c) \/ InstanceDies(c))
  BY <1>0, <1>3, <1>13 DEF CatalogStep, IngestionStep, CreateMenu, LookupCategory, ReadCategories,
     ReadProducts, FillCache, FindOrCreateCategory, FindImportCategory, CreateImportCategory,
     SaveInTransaction, CommitImport,
     RetryTransaction, InTransaction, Uncommitted, EnqueueIngestion, StartIngestion, ParseFile,
     RecordSource, InvalidateAgain, CompleteIngestion, IngestionThrows, FailIngestion
<1>14. QED BY <1>7, <1>8, <1>9, <1>10, <1>11, <1>12, <1>13

\* A cascade that saves what it read leaves none of its category behind.
LEMMA CascadeSaves ==
    ASSUME CatalogInv, NEW c \in Calls, mcall[c].op \in CategoryOps, mcall[c].pc = "save",
           mcall[c].snap = products, NEW want \in Wanted(c), SaveArray(c, want),
           NEW id \in Ids, products'[id] # None
    PROVE  /\ products[id] # None
           /\ IF products[id].cat = mcall[c].cat
              THEN IF mcall[c].op = "drop"
                   THEN products'[id].cat = None /\ products'[id].label = None
                   ELSE products'[id].cat = mcall[c].cat /\ products'[id].label = mcall[c].name
              ELSE products'[id] = products[id]
<1>0. PICK call \in MenuCall : call = mcall[c] /\ OpAt(call) /\ Knows(call)
  BY CallTypes DEF CatalogInv
<1>1. PICK arr \in Arrays : arr = products /\ arr = call.snap
  BY <1>0 DEF CatalogInv, CatalogTypeOK
<1>2. want = [i \in Ids |-> Relabelled(c, arr[i])] /\ want \in Arrays
  BY <1>0, <1>1, WantedArrays DEF Wanted, Imports, CategoryOps, CatalogInv
<1>3. Moved(c, want) = {}
  BY CascadeKeepsVersion
<1>4. products'[id] = IF id \in Edited(c, want) /\ arr[id] # None
                      THEN Fields(arr[id], arr[id], want[id]) ELSE arr[id]
  BY <1>0, <1>1, <1>3 DEF SaveArray
<1>5. arr[id] # None
  BY <1>4
<1>6. PICK p \in Product : p = arr[id]
  BY <1>5 DEF Arrays
<1>7. want[id] # None /\ want[id] = Relabelled(c, p)
  BY <1>0, <1>1, <1>2, <1>3, <1>5, <1>6 DEF Moved
<1>8. PICK r \in Product : r = want[id]
  BY <1>2, <1>7 DEF Arrays
<1>9. r = Relabelled(c, p)
  BY <1>7, <1>8
<1>10. CASE id \notin Edited(c, want)
  <2>1. r = p /\ products'[id] = p
    BY <1>0, <1>1, <1>4, <1>5, <1>6, <1>7, <1>8, <1>10 DEF Edited
  <2>2. p # None
    BY <1>5, <1>6
  <2>3. CASE p.cat = call.cat
    <3>1. CASE call.op = "drop"
      <4>1. r = [p EXCEPT !.cat = None, !.label = None, !.price = c]
        BY <1>0, <1>9, <2>2, <2>3, <3>1 DEF Relabelled
      <4>2. r.cat = None /\ r.label = None
        BY <4>1 DEF Product
      <4>3. QED BY <1>0, <1>1, <1>5, <1>6, <2>1, <2>3, <3>1, <4>2
    <3>2. CASE call.op # "drop"
      <4>1. r = [p EXCEPT !.label = call.name, !.price = c]
        BY <1>0, <1>9, <2>2, <2>3, <3>2 DEF Relabelled
      <4>2. r.cat = call.cat /\ r.label = call.name
        BY <2>3, <4>1 DEF Product
      <4>3. QED BY <1>0, <1>1, <1>5, <1>6, <2>1, <2>3, <3>2, <4>2
    <3>3. QED BY <3>1, <3>2
  <2>4. CASE p.cat # call.cat
    BY <1>0, <1>1, <1>5, <1>6, <2>1, <2>4
  <2>5. QED BY <2>3, <2>4
<1>11. CASE id \in Edited(c, want)
  <2>1. r # p
    BY <1>0, <1>1, <1>6, <1>8, <1>11 DEF Edited
  <2>2. p # None /\ p.cat = call.cat
    BY <1>0, <1>5, <1>6, <1>9, <2>1 DEF Relabelled
  <2>3. PICK m : m = Fields(p, p, r)
    OBVIOUS
  <2>4. products'[id] = m /\ m.cat = r.cat /\ m.label = r.label
    BY <1>4, <1>5, <1>6, <1>8, <1>11, <2>3 DEF Fields
  <2>5. CASE call.op = "drop"
    <3>1. r = [p EXCEPT !.cat = None, !.label = None, !.price = c]
      BY <1>0, <1>9, <2>2, <2>5 DEF Relabelled
    <3>2. r.cat = None /\ r.label = None
      BY <3>1 DEF Product
    <3>3. QED BY <1>0, <1>1, <1>5, <1>6, <2>2, <2>4, <2>5, <3>2
  <2>6. CASE call.op # "drop"
    <3>1. r = [p EXCEPT !.label = call.name, !.price = c]
      BY <1>0, <1>9, <2>2, <2>6 DEF Relabelled
    <3>2. r.cat = call.cat /\ r.label = call.name
      BY <2>2, <3>1 DEF Product
    <3>3. QED BY <1>0, <1>1, <1>5, <1>6, <2>2, <2>4, <2>6, <3>2
  <2>7. QED BY <2>5, <2>6
<1>12. QED BY <1>10, <1>11

\* Undisturbed, a rename or a deletion has the menu for itself.
LEMMA Alone ==
    ASSUME CatalogInv, EndedBefore, EndedBefore', ~Disturbed', NEW c \in Calls,
           CatalogStep(c) \/ IngestionStep(c) \/ BeginCatalogCall(c)
              \/ \E f \in Files : UploadMenu(c, f[1], f[2])
    PROVE  /\ ~Disturbed
           /\ Writer(c)' => \A w \in Calls \ {c} :
                 \/ mcall[w].op \in CategoryOps
                 \/ mcall'[c].op \in CategoryOps /\ Writer(w)
                 => mcall[w].pc \in Ended
<1>1. /\ mcall[c].pc \notin Ended \ {"idle"}
      /\ \A e \in Calls : c \notin mcall[e].after
      /\ \A e \in Calls : mcall[e].op # None =>
             mcall'[e].op = mcall[e].op /\ mcall'[e].after = mcall[e].after
      /\ \A e \in Calls \ {c} : mcall'[e] = mcall[e]
      /\ \A d, e \in Calls : mcall[d].op # None /\ mcall[e].op # None =>
             Overlap(d, e)' = Overlap(d, e)
  BY OverlapStays
<1>2. \A op \in CategoryOps : op # None /\ op # "read"
  BY NoOp, OpNames DEF CategoryOps
<1>3. ASSUME Disturbed PROVE FALSE
  <2>1. PICK w \in Calls : /\ mcall[w].op \in CategoryOps
                           /\ \/ mcall[w].pc \in {"lost", "failed"}
                              \/ \E x \in Calls : Writer(x) /\ Overlap(w, x)
    BY <1>3 DEF Disturbed
  <2>2. mcall'[w].op \in CategoryOps
    BY <1>1, <1>2, <2>1
  <2>3. CASE mcall[w].pc \in {"lost", "failed"}
    <3>1. w # c
      BY <1>1, <2>3 DEF Ended
    <3>2. mcall'[w].pc \in {"lost", "failed"}
      BY <1>1, <2>3, <3>1
    <3>3. QED BY <2>2, <3>2 DEF Disturbed
  <2>4. ASSUME NEW x \in Calls, Writer(x), Overlap(w, x) PROVE FALSE
    <3>1. Writer(x)' /\ Overlap(w, x)'
      BY <1>1, <1>2, <2>1, <2>4 DEF Writer
    <3>2. QED BY <2>2, <3>1 DEF Disturbed
  <2>5. QED BY <2>1, <2>3, <2>4
<1>4. ASSUME Writer(c)', NEW w \in Calls \ {c}, mcall[w].pc \notin Ended,
             mcall[w].op \in CategoryOps \/ (mcall'[c].op \in CategoryOps /\ Writer(w))
      PROVE  FALSE
  <2>1. mcall'[w] = mcall[w] /\ c \notin mcall'[w].after
    BY <1>1, <1>4
  <2>2. w \notin mcall'[c].after
    BY <1>4, <2>1 DEF EndedBefore
  <2>3. Overlap(w, c)' /\ Overlap(c, w)'
    BY <2>1, <2>2 DEF Overlap
  <2>4. Writer(w)'
    BY <1>2, <1>4, <2>1 DEF Writer
  <2>5. QED BY <1>4, <2>1, <2>3, <2>4 DEF Disturbed
<1>5. QED BY <1>3, <1>4

\* A rename or a deletion that nobody disturbs leaves the products in order, but for its own
\* category until its cascade.
LEMMA LabelsOfCascade ==
    ASSUME CatalogInv, ~Disturbed', ProductsInOrder, RequestsInOrder, NEW c \in Calls,
           CatalogStep(c) \/ IngestionStep(c) \/ BeginCatalogCall(c)
              \/ \E f \in Files : UploadMenu(c, f[1], f[2]),
           mcall'[c].op \in CategoryOps,
           \A w \in Calls \ {c} : Writer(w) => mcall[w].pc \in Ended
    PROVE  ProductsInOrder' /\ RequestsInOrder'
<1>0. PICK call \in MenuCall : call = mcall[c] /\ OpAt(call) /\ Knows(call)
  BY CallTypes DEF CatalogInv
<1>1. PICK next : Moves(c, next)
  BY CatalogInvOfMoves
<1>2. /\ mcall'[c] = next /\ next \in MenuCall /\ Onward(call, next) /\ Knows(next)
      /\ \A d \in Calls \ {c} : mcall'[d] = mcall[d]
      /\ next.op \in CategoryOps
  BY <1>0, <1>1, OneMoves DEF Moves
<1>3. /\ \A op \in CategoryOps : op \notin {None, "read", "add", "update"} \cup Imports
      /\ \A op \in {"add", "update"} \cup Imports : op \notin {None, "read"}
      /\ catName \in Naming /\ products \in Arrays
  BY NoOp, OpNames DEF CategoryOps, Imports, CatalogInv, CatalogTypeOK
<1>4. next.pc \notin {"lost", "failed"}
  BY <1>2 DEF Disturbed
<1>5. ASSUME NEW k
      PROVE  /\ Changing(k) <=> /\ call.op \in CategoryOps /\ call.pc \in {"del", "cascade", "save"}
                                /\ call.cat = k
                                /\ call.op = "rename" => call.name # call.label
             /\ Changing(k)' <=> /\ next.pc \in {"del", "cascade", "save"} /\ next.cat = k
                                 /\ next.op = "rename" => next.name # next.label
  <2>1. \A w \in Calls \ {c} : mcall[w].op \in CategoryOps =>
            mcall[w].pc \notin {"del", "cascade", "save"}
    BY <1>3 DEF Writer, Ended
  <2>2. QED BY <1>0, <1>2, <2>1 DEF Changing
<1>6. ASSUME /\ next.op = "rename" /\ next.pc = "write" => catName'[next.cat] = next.label
             /\ next.op = "rename" /\ next.pc \in {"del", "cascade", "save"} =>
                   catName'[next.cat] = next.name
             /\ next.pc = "save" => next.snap = products'
      PROVE  RequestsInOrder'
  <2>1. ASSUME NEW x \in Calls, mcall'[x].pc \notin Ended PROVE MeansOrder(x)'
    <3>1. CASE x = c
      BY <1>2, <1>3, <1>6, <3>1 DEF MeansOrder, Writer
    <3>2. CASE x # c
      <4>1. mcall'[x] = mcall[x] /\ mcall[x].op \in {None, "read"}
        BY <1>2, <2>1, <3>2 DEF Writer
      <4>2. mcall'[x].op \notin CategoryOps \cup {"add", "update", "rename"} \cup Imports
        BY <1>3, <4>1 DEF CategoryOps
      <4>3. QED BY <4>1, <4>2 DEF MeansOrder, Writer
    <3>3. QED BY <3>1, <3>2
  <2>2. QED BY <2>1 DEF RequestsInOrder
\* It is enough to look at one product.
<1>7. ASSUME \A id \in Ids : \A p : p = products'[id] /\ p # None => InOrder(p)' \/ Changing(p.cat)'
      PROVE  ProductsInOrder'
  BY <1>7 DEF ProductsInOrder, InOrder, Changing
<1>8. ASSUME NEW id \in Ids, products[id] # None
      PROVE  /\ products[id] \in Product
             /\ InOrder(products[id]) \/ Changing(products[id].cat)
  BY <1>3, <1>8 DEF ProductsInOrder, Arrays
<1>9. CASE call.op = None
  <2>1. BeginCatalogCall(c) \/ \E f \in Files : UploadMenu(c, f[1], f[2])
    BY <1>0, <1>9, OnlyAtWork
  <2>2. PICK n : Moves(c, n) /\ Begun(c, n)
    BY <2>1, BeginMoves
  <2>3. n = next
    BY <1>2, <2>2, OneMoves
  <2>4. PICK k \in Categories :
           DeleteCategory(c, k) \/ \E g \in CategoryNames : FindCategory(c, k, g)
    BY <1>2, <2>2, <2>3 DEF Begun, FromNames
  <2>5. products' = products /\ \A j : ~Changing(j)
    BY <1>3, <1>5, <1>9, <2>4 DEF DeleteCategory, FindCategory, menuVars
  <2>6. CASE DeleteCategory(c, k)
    <3>1. PICK o \in MenuCall : Opening(o, "drop")
      BY OpenedOk, OpNames
    <3>2. PICK q : q = [o EXCEPT !.cat = k, !.pc = "del"]
      OBVIOUS
    <3>3. /\ mcall' = [mcall EXCEPT ![c] = q] /\ catName' = [catName EXCEPT ![k] = None]
      BY <2>6, <3>1, <3>2 DEF DeleteCategory, Opening
    <3>4. next = q
      BY <1>2, <3>3 DEF CatalogInv, CatalogTypeOK
    <3>5. next.op = "drop" /\ next.pc = "del" /\ next.cat = k
      BY <3>1, <3>2, <3>4 DEF Opening, MenuCall
    <3>6. RequestsInOrder'
      BY <1>6, <3>5
    <3>7. ASSUME NEW id \in Ids, NEW p, p = products'[id], p # None
          PROVE  InOrder(p)' \/ Changing(p.cat)'
      <4>1. p \in Product /\ InOrder(p)
        BY <1>8, <2>5, <3>7
      <4>2. CASE p.cat = k
        BY <1>5, <3>5, <4>2
      <4>3. CASE p.cat # k
        BY <1>3, <3>3, <4>1, <4>3 DEF InOrder, Naming, Product
      <4>4. QED BY <4>2, <4>3
    <3>8. QED BY <1>7, <3>6, <3>7
  <2>7. CASE \E g \in CategoryNames : FindCategory(c, k, g)
    <3>1. PICK g \in CategoryNames : FindCategory(c, k, g)
      BY <2>7
    <3>2. PICK o \in MenuCall : Opening(o, "rename")
      BY OpenedOk, OpNames
    <3>3. PICK q : q = [o EXCEPT !.cat = k, !.name = g, !.label = catName[k], !.pc = "write"]
      OBVIOUS
    <3>4. mcall' = [mcall EXCEPT ![c] = q] /\ catName' = catName
      BY <3>1, <3>2, <3>3 DEF FindCategory, Opening
    <3>5. next = q
      BY <1>2, <3>4 DEF CatalogInv, CatalogTypeOK
    <3>6. next.op = "rename" /\ next.pc = "write" /\ next.cat = k /\ next.label = catName[k]
      BY <3>2, <3>3, <3>5 DEF Opening, MenuCall
    <3>7. RequestsInOrder'
      BY <1>6, <3>4, <3>6
    <3>8. ASSUME NEW id \in Ids, NEW p, p = products'[id], p # None PROVE InOrder(p)'
      BY <1>8, <2>5, <3>4, <3>8 DEF InOrder
    <3>9. QED BY <1>7, <3>7, <3>8
  <2>8. QED BY <2>4, <2>6, <2>7
<1>10. CASE call.op # None
  <2>1. CatalogStep(c) \/ IngestionStep(c)
    BY <1>0, <1>10, BeginMoves
  <2>2. call.op \in CategoryOps /\ next.op = call.op /\ call.pc \notin Ended
    BY <1>0, <1>2, <1>10, <2>1, OnlyAtWork DEF Onward
  <2>3. MeansOrder(c) /\ CascadeGoesOn(c)
    BY <1>0, <2>1, <2>2, CascadeSteps DEF RequestsInOrder
  <2>4. call.cat \in Categories /\ (call.op = "rename" => call.name \in CategoryNames)
    BY <1>0, <2>2 DEF Knows
  <2>5. /\ call.op = "rename" /\ call.pc = "write" => catName[call.cat] = call.label
        /\ call.op = "rename" /\ call.pc \in {"del", "cascade", "save"} =>
              catName[call.cat] = call.name
        /\ call.pc = "save" => call.snap = products
    BY <1>0, <2>2, <2>3 DEF MeansOrder
  <2>6. CASE /\ call.pc = "write" /\ next.pc = "denied" /\ catName[call.cat] = None
    <3>1. call.op = "rename" /\ call.label \in CategoryNames
      BY <1>0, <2>2, <2>6 DEF OpAt, Knows
    <3>2. QED BY <2>5, <2>6, <3>1
  <2>7. CASE /\ call.pc = "write" /\ products' = products
             /\ next.pc = "del" /\ catName' = [catName EXCEPT ![call.cat] = call.name]
             /\ next.cat = call.cat /\ next.name = call.name /\ next.label = call.label
    <3>1. call.op = "rename" /\ catName[call.cat] = call.label
      BY <1>0, <2>5, <2>7 DEF OpAt
    <3>2. catName'[call.cat] = call.name
      BY <1>3, <2>4, <2>7 DEF Naming
    <3>3. RequestsInOrder'
      BY <1>6, <2>7, <3>2
    <3>4. ASSUME NEW id \in Ids, NEW p, p = products'[id], p # None
          PROVE  InOrder(p)' \/ Changing(p.cat)'
      <4>1. p \in Product /\ InOrder(p)
        BY <1>5, <1>8, <2>7, <3>4
      <4>2. CASE p.cat # call.cat
        BY <1>3, <2>7, <4>1, <4>2 DEF InOrder, Naming, Product
      <4>3. CASE p.cat = call.cat /\ call.name # call.label
        BY <1>5, <2>7, <4>3
      <4>4. CASE p.cat = call.cat /\ call.name = call.label
        BY <2>4, <3>1, <3>2, <4>1, <4>4 DEF InOrder
      <4>5. QED BY <4>2, <4>3, <4>4
    <3>5. QED BY <1>7, <3>3, <3>4
  <2>8. CASE /\ call.pc \in {"del", "cascade"} /\ products' = products /\ catName' = catName
             /\ next.pc \in {"cascade", "save"} /\ (next.pc = "save" => next.snap = products)
             /\ next.cat = call.cat /\ next.name = call.name /\ next.label = call.label
    <3>1. RequestsInOrder'
      BY <1>6, <2>2, <2>5, <2>8
    <3>2. ASSUME NEW id \in Ids, NEW p, p = products'[id], p # None
          PROVE  InOrder(p)' \/ Changing(p.cat)'
      <4>1. InOrder(p) \/ Changing(p.cat)
        BY <1>8, <2>8, <3>2
      <4>2. CASE InOrder(p)
        BY <2>8, <4>2 DEF InOrder
      <4>3. CASE Changing(p.cat)
        BY <1>5, <2>2, <2>8, <4>3
      <4>4. QED BY <4>1, <4>2, <4>3
    <3>3. QED BY <1>7, <3>1, <3>2
  <2>9. CASE /\ products' = products /\ catName' = catName /\ next.pc = "done"
             /\ \/ call.pc = "del" /\ call.op = "rename" /\ call.name = call.label
                \/ call.pc = "cascade" /\ InCategory(call.cat) = {}
                \/ call.pc = "enqueue"
    <3>1. RequestsInOrder'
      BY <1>6, <2>9
    <3>2. ASSUME NEW id \in Ids, NEW p, p = products'[id], p # None PROVE InOrder(p)'
      <4>1. InOrder(p) \/ Changing(p.cat)
        BY <1>8, <2>9, <3>2
      <4>2. ~Changing(p.cat)
        <5>1. CASE call.pc = "cascade" /\ InCategory(call.cat) = {}
          BY <1>5, <2>9, <3>2, <5>1 DEF InCategory, Live, InArray
        <5>2. CASE call.pc # "cascade"
          BY <1>5, <2>9, <5>2
        <5>3. QED BY <2>9, <5>1, <5>2
      <4>3. QED BY <2>9, <4>1, <4>2 DEF InOrder
    <3>3. QED BY <1>7, <3>1, <3>2
  <2>10. CASE /\ call.pc = "save" /\ next.pc = "enqueue" /\ catName' = catName
              /\ \E want \in Wanted(c) : SaveArray(c, want)
    <3>1. RequestsInOrder'
      BY <1>6, <2>10
    <3>2. ASSUME NEW id \in Ids, NEW p, p = products'[id], p # None PROVE InOrder(p)'
      <4>1. /\ products[id] # None
            /\ IF products[id].cat = call.cat
               THEN IF call.op = "drop" THEN p.cat = None /\ p.label = None
                    ELSE p.cat = call.cat /\ p.label = call.name
               ELSE p = products[id]
        BY <1>0, <2>2, <2>5, <2>10, <3>2, CascadeSaves
      <4>2. PICK old \in Product : old = products[id] /\ (InOrder(old) \/ Changing(old.cat))
        BY <1>8, <4>1
      <4>3. CASE old.cat = call.cat /\ call.op = "drop"
        BY <4>1, <4>2, <4>3 DEF InOrder
      <4>4. CASE old.cat = call.cat /\ call.op # "drop"
        <5>1. call.op = "rename"
          BY <2>2, <4>4 DEF CategoryOps
        <5>2. catName[call.cat] = call.name /\ call.name # None /\ call.cat # None
          BY <2>4, <2>5, <2>10, <5>1
        <5>3. QED BY <2>10, <4>1, <4>2, <4>4, <5>2 DEF InOrder
      <4>5. CASE old.cat # call.cat
        <5>1. ~Changing(old.cat)
          BY <1>5, <4>5
        <5>2. QED BY <2>10, <4>1, <4>2, <4>5, <5>1 DEF InOrder
      <4>6. QED BY <4>3, <4>4, <4>5
    <3>3. QED BY <1>7, <3>1, <3>2
  <2>11. QED BY <1>0, <1>2, <1>4, <2>3, <2>6, <2>7, <2>8, <2>9, <2>10 DEF CascadeGoesOn
<1>11. QED BY <1>9, <1>10

\* What is saved or about to be, while no category is renamed or deleted.
LEMMA LabelsOfWriter ==
    ASSUME CatalogInv, NamingInv, ProductsInOrder, RequestsInOrder, NEW c \in Calls,
           CatalogStep(c) \/ IngestionStep(c) \/ BeginCatalogCall(c)
              \/ \E f \in Files : UploadMenu(c, f[1], f[2]),
           Writer(c)', mcall'[c].op \notin CategoryOps,
           \A w \in Calls \ {c} : mcall[w].op \in CategoryOps => mcall[w].pc \in Ended
    PROVE  ProductsInOrder' /\ RequestsInOrder'
<1>0. PICK call \in MenuCall : call = mcall[c] /\ OpAt(call) /\ Knows(call) /\ HasItsMenu(call)
  BY CallTypes DEF CatalogInv
<1>1. PICK next : Moves(c, next)
  BY CatalogInvOfMoves
<1>2. /\ mcall'[c] = next /\ next \in MenuCall /\ Onward(call, next) /\ OpAt(next)
      /\ \A d \in Calls \ {c} : mcall'[d] = mcall[d]
      /\ next.op \notin CategoryOps \cup {None, "read"} /\ hasTx' = hasTx
      /\ CatalogInv'
  BY <1>0, <1>1, OneMoves, CatalogInvOfMoves DEF Moves, Writer
<1>3. /\ call.op \notin CategoryOps
      /\ call.op # None => call.op = next.op
      /\ \A op \in Imports \cup CategoryOps \cup {"add", "update"} : op # None
      /\ catName \in Naming /\ products \in Arrays /\ products' \in Arrays
      /\ \A op \in Imports : op \notin {"add", "update", "remove"} \cup CategoryOps
  BY <1>2, NoOp, OpNames DEF Onward, Imports, CategoryOps, CatalogInv, CatalogTypeOK
<1>4. \A k : ~Changing(k)
  BY <1>0, <1>3 DEF Changing, Ended
<1>5. ArrayInOrder(products)
  BY <1>4 DEF ProductsInOrder, ArrayInOrder
<1>6. ASSUME call.op # None PROVE /\ CatalogStep(c) \/ IngestionStep(c)
                                  /\ call.pc \notin Ended
  BY <1>0, <1>6, BeginMoves, OnlyAtWork
<1>7. ASSUME call.op # None PROVE MeansOrder(c) /\ Writer(c)
  BY <1>0, <1>2, <1>3, <1>6, <1>7 DEF RequestsInOrder, Writer
<1>8. NamesGrow
  <2>1. NameChange(c)
    BY NameChanges
  <2>2. ASSUME NEW k \in Categories, NEW g \in CategoryNames, catName' = [catName EXCEPT ![k] = g],
               \E t \in Attempts : k = <<c, t>> /\ Unmade(c, t)
        PROVE  NamesGrow
    <3>1. catName[k] = None
      BY <2>2 DEF NamingInv, UnmadeNameless
    <3>2. QED BY <1>3, <2>2, <3>1 DEF NamesGrow, Naming
  <2>3. ASSUME NEW k \in Categories, DeleteCategory(c, k) PROVE FALSE
    <3>1. PICK o \in MenuCall : Opening(o, "drop")
      BY OpenedOk, OpNames
    <3>2. PICK q : q = [o EXCEPT !.cat = k, !.pc = "del"]
      OBVIOUS
    <3>3. mcall' = [mcall EXCEPT ![c] = q]
      BY <2>3, <3>1, <3>2 DEF DeleteCategory, Opening
    <3>4. next = q
      BY <1>2, <3>3 DEF CatalogInv, CatalogTypeOK
    <3>5. next.op = "drop"
      BY <3>1, <3>2, <3>4 DEF Opening, MenuCall
    <3>6. QED BY <1>2, <3>5 DEF CategoryOps
  <2>4. call.op # "rename"
    BY <1>3 DEF CategoryOps
  <2>5. QED BY <1>0, <2>1, <2>2, <2>3, <2>4 DEF NameChange, NamesGrow
\* A request that has been looking for its category and label will write them together.
<1>9. ASSUME call.op \in Imports, catName[call.cat] = call.label, call.cat # None,
             call.pc \notin Ended
      PROVE  /\ call.label # None /\ catName'[call.cat] = call.label
             /\ \A j \in Categories : catName[j] = call.label => j = call.cat
  <2>1. call.label # None /\ call.cat \in Categories
    BY <1>0, <1>9 DEF Knows, MenuCall
  <2>2. QED BY <1>8, <1>9, <2>1 DEF NamesGrow, NamingInv, NamesDiffer
<1>10. ArrayInOrder(products)'
  <2>1. CASE products' = products
    <3>1. PICK arr \in Arrays : arr = products
      BY <1>3
    <3>2. ArrayInOrder(arr)'
      BY <1>5, <1>8, <3>1, OrderStays
    <3>3. QED BY <2>1, <3>1, <3>2 DEF ArrayInOrder, InOrder
  <2>2. CASE products' # products
    <3>1. /\ SaveMenu(c) \/ CommitImport(c)
          /\ \/ call.pc = "save" /\ next.pc = "enqueue" /\ ~InTransaction(c)
             \/ call.pc = "commit" /\ next.pc = "del"
      BY <1>0, <1>2, <2>2, OnlySaves
    <3>2. PICK want \in Wanted(c) : SaveArray(c, want)
      BY <2>2, OnlySaves
    <3>3. call.op # None /\ call.pc \notin Ended
      BY <1>0, <3>1 DEF OpAt, Ended
    <3>4. ArrayInOrder(call.snap)
      BY <1>0, <1>3, <1>7, <3>1, <3>3 DEF MeansOrder, Knows
    <3>5. IF call.cat = None THEN call.op \in {"add", "update"} => call.label = None
          ELSE call.op # "remove" =>
               /\ call.label # None /\ catName'[call.cat] = call.label
               /\ \A j \in Categories : catName[j] = call.label => j = call.cat
      <4>1. CASE call.pc = "save" /\ call.op \in {"add", "update"}
        <5>1. /\ call.cat = None => call.label = None
              /\ call.cat # None =>
                    catName[call.cat] # None /\ call.label = catName[call.cat]
          BY <1>0, <1>7, <3>3, <4>1 DEF MeansOrder
        <5>2. call.cat \in Categories \cup {None}
          BY <1>0 DEF MenuCall
        <5>3. QED BY <1>8, <4>1, <5>1, <5>2 DEF NamesGrow, NamingInv, NamesDiffer
      <4>2. CASE call.pc = "save" /\ call.op \in Imports
        <5>1. call.cat # None /\ (Pending(c) \/ catName[call.cat] = call.label)
          BY <1>0, <1>7, <3>3, <4>2 DEF MeansOrder
        <5>2. ~Pending(c)
          BY <1>0, <3>1, <4>2 DEF Pending
        <5>3. QED BY <1>3, <1>9, <3>3, <4>2, <5>1, <5>2
      <4>3. CASE call.pc = "commit"
        <5>1. call.op \in Imports /\ hasTx
          BY <1>0, <4>3 DEF OpAt, HasItsMenu
        <5>2. call.cat # None /\ (Pending(c) \/ catName[call.cat] = call.label)
          BY <1>0, <1>7, <3>3, <4>3, <5>1 DEF MeansOrder, Inserting
        <5>3. CASE Pending(c)
          <6>1. NamedCategory(call.label) = {}
            BY <1>0, <5>3 DEF NamingInv, PendingAlone
          <6>2. CommitImport(c) /\ call.cat = <<c, call.try>>
            BY <1>0, <3>1, <4>3, <5>3 DEF Pending, SaveMenu
          <6>3. catName' = [catName EXCEPT ![call.cat] = call.label]
            BY <1>0, <6>2 DEF CommitImport
          <6>4. call.cat \in Categories /\ call.label # None
            BY <1>0, <3>3, <5>1, <5>2 DEF MenuCall, Knows
          <6>5. QED BY <1>3, <5>1, <6>1, <6>3, <6>4 DEF NamedCategory, Naming
        <5>4. CASE catName[call.cat] = call.label
          BY <1>3, <1>9, <3>3, <5>1, <5>2, <5>4
        <5>5. QED BY <5>2, <5>3, <5>4
      <4>4. CASE call.op = "remove"
        BY <4>4
      <4>5. call.op \in {"add", "update", "remove"} \cup Imports
        BY <1>0, <1>3, <3>1 DEF OpAt, Writers
      <4>6. QED BY <3>1, <4>1, <4>2, <4>3, <4>4, <4>5
    <3>6. call.op \in Imports => call.cat # None
      BY <1>0, <1>7, <3>1, <3>3 DEF MeansOrder, OpAt, HasItsMenu, Inserting
    <3>7. call.op \in {"add", "update", "remove"} \cup Imports
      BY <1>0, <1>3, <3>1 DEF OpAt, Writers
    <3>8. QED BY <1>0, <1>3, <1>5, <1>8, <3>1, <3>2, <3>4, <3>5, <3>6, <3>7, SavedInOrder
             DEF NamingInv
  <2>3. QED BY <2>1, <2>2
<1>11. ProductsInOrder'
  BY <1>10 DEF ProductsInOrder, ArrayInOrder
\* What the requests mean to write.
<1>12. ASSUME NEW x \in Calls, NEW q \in MenuCall, q = mcall'[x], q.op \notin CategoryOps,
              Writer(x)' /\ q.snap # None => ArrayInOrder(q.snap)',
              q.op \in {"add", "update"} /\ q.pc \in {"newMenu", "lookup", "save"} =>
                 IF q.cat = None THEN q.label = None
                 ELSE /\ catName'[q.cat] # None
                      /\ q.pc = "save" => q.label = catName'[q.cat],
              q.op \in Imports /\ (q.pc = "save" \/ (hasTx /\ q.pc \in Inserting)) =>
                 q.cat # None /\ (Pending(x)' \/ catName'[q.cat] = q.label)
       PROVE  MeansOrder(x)'
  BY <1>2, <1>12 DEF MeansOrder, CategoryOps, ArrayInOrder, InOrder
<1>13. ASSUME NEW x \in Calls \ {c}, mcall'[x].pc \notin Ended PROVE MeansOrder(x)'
  <2>1. PICK q \in MenuCall : /\ q = mcall[x] /\ q = mcall'[x] /\ q.pc \notin Ended /\ Knows(q)
                              /\ q.op \notin CategoryOps
    BY <1>2, <1>13, CallTypes DEF CatalogInv
  <2>2. MeansOrder(x)
    BY <2>1 DEF RequestsInOrder
  <2>3. Writer(x)' /\ q.snap # None => ArrayInOrder(q.snap)'
    <3>1. Writer(x)' /\ q.snap # None => ArrayInOrder(q.snap)
      BY <2>1, <2>2 DEF MeansOrder, Writer
    <3>2. q.snap # None => q.snap \in Arrays
      BY DEF MenuCall
    <3>3. QED BY <1>8, <3>1, <3>2, OrderStays
  <2>4. q.op \in {"add", "update"} /\ q.pc \in {"newMenu", "lookup", "save"} =>
           IF q.cat = None THEN q.label = None
           ELSE catName'[q.cat] # None /\ (q.pc = "save" => q.label = catName'[q.cat])
    <3>1. q.op \in {"add", "update"} /\ q.pc \in {"newMenu", "lookup", "save"} =>
             IF q.cat = None THEN q.label = None
             ELSE catName[q.cat] # None /\ (q.pc = "save" => q.label = catName[q.cat])
      BY <2>1, <2>2 DEF MeansOrder
    <3>2. QED BY <1>8, <3>1 DEF NamesGrow, MenuCall
  <2>5. ASSUME q.op \in Imports, q.pc = "save" \/ (hasTx /\ q.pc \in Inserting)
        PROVE  q.cat # None /\ (Pending(x)' \/ catName'[q.cat] = q.label)
    <3>1. q.cat # None /\ (Pending(x) \/ catName[q.cat] = q.label)
      BY <2>1, <2>2, <2>5 DEF MeansOrder
    <3>2. Pending(x)' <=> Pending(x)
      BY <1>2, <2>1 DEF Pending, InTransaction
    <3>3. q.label # None /\ q.cat \in Categories
      BY <2>1, <2>5, <3>1 DEF Knows, MenuCall
    <3>4. QED BY <1>8, <3>1, <3>2, <3>3 DEF NamesGrow
  <2>6. QED BY <1>12, <2>1, <2>3, <2>4, <2>5
<1>14. ASSUME next.pc \notin Ended PROVE MeansOrder(c)'
  <2>1. next.snap \in {None, products} \/ (call.op # None /\ next.snap = call.snap)
    <3>1. CASE call.op # None
      BY <1>0, <1>2, <1>6, <3>1, LocalsStep
    <3>2. CASE call.op = None
      <4>1. PICK n : Moves(c, n) /\ Begun(c, n)
        BY <1>0, <3>2, BeginMoves, OnlyAtWork
      <4>2. QED BY <1>2, <4>1, OneMoves DEF Begun
    <3>3. QED BY <3>1, <3>2
  <2>2. Writer(c)' /\ next.snap # None => ArrayInOrder(next.snap)'
    <3>1. next.snap # None => next.snap \in Arrays
      BY <1>2 DEF MenuCall
    <3>2. CASE next.snap = products
      BY <1>5, <1>8, <3>1, <3>2, OrderStays, <1>3
    <3>3. CASE call.op # None /\ next.snap = call.snap /\ next.snap # None
      <4>1. ArrayInOrder(next.snap)
        BY <1>0, <1>3, <1>7, <3>3 DEF MeansOrder
      <4>2. QED BY <1>8, <3>1, <3>3, <4>1, OrderStays
    <3>4. QED BY <2>1, <3>2, <3>3
  <2>3. ASSUME next.op \in {"add", "update"}, next.pc \in {"newMenu", "lookup", "save"}
        PROVE  IF next.cat = None THEN next.label = None
               ELSE /\ catName'[next.cat] # None
                    /\ next.pc = "save" => next.label = catName'[next.cat]
    <3>1. next.cat \in Categories \cup {None}
      BY <1>2 DEF MenuCall
    <3>2. CASE call.op = None
      <4>1. PICK n : Moves(c, n) /\ Begun(c, n)
        BY <1>0, <3>2, BeginMoves, OnlyAtWork
      <4>2. FromNames(c, next)
        BY <1>2, <4>1, OneMoves DEF Begun
      <4>3. QED BY <1>8, <1>14, <2>3, <3>1, <4>2 DEF FromNames, NamesGrow
    <3>3. CASE call.op # None
      <4>1. call.op \in {"add", "update"}
        BY <1>3, <2>3, <3>3
      <4>2. /\ catName' = catName /\ next.cat = call.cat
            /\ call.pc \in {"newMenu", "lookup"}
            /\ IF call.pc = "newMenu"
               THEN /\ next.label = call.label
                    /\ next.pc = "save" => call.cat = None
               ELSE next.label = catName[call.cat]
        BY <1>0, <1>2, <1>6, <2>3, <3>3, <4>1, ProductLabels
      <4>3. /\ call.cat = None => call.label = None
            /\ call.cat # None => catName[call.cat] # None
        BY <1>0, <1>7, <3>3, <4>1, <4>2 DEF MeansOrder
      <4>4. call.pc = "lookup" => call.cat # None
        BY <1>0 DEF OpAt
      <4>5. QED BY <4>2, <4>3, <4>4
    <3>4. QED BY <3>2, <3>3
  <2>4. ASSUME next.op \in Imports, next.pc = "save" \/ (hasTx /\ next.pc \in Inserting)
        PROVE  next.cat # None /\ (Pending(c)' \/ catName'[next.cat] = next.label)
    <3>1. next.pc \in Inserting
      BY <2>4 DEF Inserting
    <3>2. call.op \in Imports /\ call.op # None
      BY <1>0, <1>2, <1>3, <2>4, <3>1, ImportBegins, OnlyAtWork
    <3>3. /\ next.label = call.label /\ next.try = call.try
          /\ \/ FindOrCreateCategory(c) /\ next.pc = "save" /\ next.cat # None
             \/ /\ hasTx /\ call.pc \in {"save", "enqueue"} /\ next.cat = call.cat
                /\ catName' = catName
      BY <1>0, <1>2, <1>6, <2>4, <3>2, ImportSteps DEF ImportGoesOn
    <3>4. CASE FindOrCreateCategory(c) /\ next.pc = "save" /\ next.cat # None
      <4>0. ~(Refused(c) \/ mcall' = [mcall EXCEPT ![c].pc = "newCategory"])
        <5>1. CASE mcall' = [mcall EXCEPT ![c].pc = "newCategory"]
          <6>1. next = [call EXCEPT !.pc = "newCategory"]
            BY <1>0, <1>2, <5>1 DEF CatalogInv, CatalogTypeOK
          <6>2. next.pc = "newCategory"
            BY <6>1 DEF MenuCall
          <6>3. QED BY <3>4, <6>2
        <5>2. CASE Refused(c)
          <6>1. \E pc \in {"fail", "failed"} : MGoto(c, pc)
            BY <5>2 DEF Refused
          <6>2. next.pc \in {"fail", "failed"}
            BY <1>0, <1>2, <6>1, AtKeeps DEF MGoto, MenuPc, CatalogInv, CatalogTypeOK
          <6>3. QED BY <3>4, <6>2
        <5>3. QED BY <5>1, <5>2
      <4>1. PICK k : mcall' = [mcall EXCEPT ![c].cat = k, ![c].pc = "save"]
                     /\ \/ k \in NamedCategory(call.label) /\ catName' = catName
                        \/ /\ k = <<c, call.try>>
                           /\ catName' = IF hasTx THEN catName
                                         ELSE [catName EXCEPT ![k] = call.label]
        BY <1>0, <3>4, <4>0, ImportCategorySteps
      <4>2. next = [call EXCEPT !.cat = k, !.pc = "save"]
        BY <1>0, <1>2, <4>1 DEF CatalogInv, CatalogTypeOK
      <4>3. next.cat = k /\ next.pc = "save"
        BY <4>2 DEF MenuCall
      <4>a. next.cat # None
        BY <3>4
      <4>4. CASE k \in NamedCategory(call.label) /\ catName' = catName
        BY <3>3, <4>3, <4>4, <4>a DEF NamedCategory
      <4>5. CASE k = <<c, call.try>> /\ hasTx
        BY <1>2, <2>4, <3>1, <3>3, <4>3, <4>5, <4>a DEF Pending, InTransaction
      <4>6. CASE k = <<c, call.try>> /\ catName' = [catName EXCEPT ![k] = call.label]
        <5>1. k \in Categories
          BY <1>2, <4>3, <4>a DEF MenuCall
        <5>2. QED BY <1>3, <3>3, <4>3, <4>6, <4>a, <5>1 DEF Naming
      <4>7. QED BY <4>1, <4>4, <4>5, <4>6
    <3>5. CASE /\ hasTx /\ call.pc \in {"save", "enqueue"} /\ next.cat = call.cat
               /\ catName' = catName
      <4>1. call.cat # None /\ (Pending(c) \/ catName[call.cat] = call.label)
        BY <1>0, <1>7, <3>2, <3>5 DEF MeansOrder, Inserting
      <4>2. Pending(c) => Pending(c)'
        BY <1>0, <1>2, <2>4, <3>1, <3>3, <3>5 DEF Pending, InTransaction
      <4>3. QED BY <3>3, <3>5, <4>1, <4>2
    <3>6. QED BY <3>3, <3>4, <3>5
  <2>5. QED BY <1>2, <1>12, <2>2, <2>3, <2>4
<1>15. RequestsInOrder'
  BY <1>2, <1>13, <1>14 DEF RequestsInOrder
<1>16. QED BY <1>11, <1>15

\* A step of a request leaves the products in order.
LEMMA LabelsOfRequests ==
    ASSUME CatalogInv, EndedBefore, EndedBefore', NamingInv, LabelsInv, NEW c \in Calls,
           CatalogStep(c) \/ IngestionStep(c) \/ BeginCatalogCall(c)
              \/ \E f \in Files : UploadMenu(c, f[1], f[2])
    PROVE  LabelsInv'
<1> SUFFICES ASSUME ~Disturbed' PROVE ProductsInOrder' /\ RequestsInOrder'
  BY DEF LabelsInv
<1>1. /\ ProductsInOrder /\ RequestsInOrder
      /\ Writer(c)' => \A w \in Calls \ {c} :
            \/ mcall[w].op \in CategoryOps
            \/ mcall'[c].op \in CategoryOps /\ Writer(w)
            => mcall[w].pc \in Ended
  BY Alone DEF LabelsInv
<1>2. CASE mcall'[c].op \in CategoryOps
  <2>1. Writer(c)'
    BY <1>2, NoOp, OpNames DEF Writer, CategoryOps
  <2>2. QED BY <1>1, <1>2, <2>1, LabelsOfCascade
<1>3. CASE Writer(c)' /\ mcall'[c].op \notin CategoryOps
  BY <1>1, <1>3, LabelsOfWriter
<1>4. CASE ~Writer(c)'
  <2>1. PICK next : Moves(c, next)
    BY CatalogInvOfMoves
  <2>2. /\ mcall'[c] = next /\ \A d \in Calls \ {c} : mcall'[d] = mcall[d] /\ hasTx' = hasTx
        /\ Onward(mcall[c], next) /\ OpAt(mcall[c]) /\ OpAt(next)
    BY <2>1, OneMoves, CallTypes DEF Moves, CatalogInv
  <2>3. next.op = "read"
    <3>1. CASE mcall[c].op # None
      <4>1. next.op # None
        BY <2>2, <3>1 DEF Onward
      <4>2. QED BY <1>4, <2>2, <4>1 DEF Writer
    <3>2. CASE mcall[c].op = None
      <4>1. PICK n : Moves(c, n) /\ Begun(c, n)
        BY <3>2, BeginMoves, OnlyAtWork
      <4>2. next.op # None
        BY <2>2, <4>1, OneMoves, NoOp DEF Begun
      <4>3. QED BY <1>4, <2>2, <4>2 DEF Writer
    <3>3. QED BY <3>1, <3>2
  <2>4. catName' = catName /\ products' = products
    BY <2>2, <2>3, ReaderSteps
  <2>5. next.op \notin CategoryOps \cup Imports \cup {"add", "update", "rename"}
    BY <2>3 DEF CategoryOps, Imports
  <2>6. mcall[c].op \notin CategoryOps
    BY <2>2, <2>5, NoOp, OpNames DEF Onward, CategoryOps
  <2>7. ASSUME NEW k PROVE Changing(k) => Changing(k)'
    BY <2>2, <2>6 DEF Changing
  <2>8. ProductsInOrder'
    <3>1. ASSUME NEW id \in Ids, NEW p, p = products[id], p # None
          PROVE  InOrder(p)' \/ Changing(p.cat)'
      BY <1>1, <2>4, <2>7, <3>1 DEF ProductsInOrder, InOrder
    <3>2. QED BY <2>4, <3>1 DEF ProductsInOrder, InOrder, Changing
  <2>9. ASSUME NEW x \in Calls, mcall'[x].pc \notin Ended PROVE MeansOrder(x)'
    <3>1. CASE x = c
      BY <1>4, <2>2, <2>5, <3>1 DEF MeansOrder
    <3>2. CASE x # c
      <4>1. mcall'[x] = mcall[x] /\ MeansOrder(x) /\ hasTx' = hasTx
        BY <1>1, <2>2, <2>9, <3>2 DEF RequestsInOrder
      <4>2. QED BY <2>4, <4>1 DEF MeansOrder, Writer, ArrayInOrder, InOrder, Pending, InTransaction
    <3>3. QED BY <3>1, <3>2
  <2>10. QED BY <2>8, <2>9 DEF RequestsInOrder
<1>5. QED BY <1>2, <1>3, <1>4

\* What is known of the labels holds in every reachable state.
LEMMA LabelsHold == Spec => []LabelsInv
<1>1. Init => LabelsInv
  <2> SUFFICES ASSUME Init PROVE LabelsInv
    OBVIOUS
  <2> USE DEF Init, CatalogInit
  <2>1. \A c \in Calls : mcall[c].pc = "idle"
    BY DEF IdleCall
  <2>2. RequestsInOrder
    BY <2>1 DEF RequestsInOrder, Ended
  <2>3. ASSUME NEW id \in Ids, products[id] # None PROVE InOrder(products[id])
    <3>1. id \in OldProducts /\ products[id] = OldMenu[id]
      BY <2>3
    <3>2. PICK p \in Product : p = OldMenu[id]
      BY <3>1
    <3>3. IF p.cat = None THEN p.label = None
          ELSE p.cat \in OldCategories /\ p.label = OldNames[p.cat]
      BY <3>1, <3>2, OldMenuInOrder
    <3>4. \A k \in OldCategories : catName[k] = OldNames[k] /\ OldNames[k] # None
      BY DEF Categories
    <3>5. QED BY <3>1, <3>2, <3>3, <3>4 DEF InOrder
  <2>4. QED BY <2>2, <2>3 DEF LabelsInv, ProductsInOrder
<1>2. MenuInv /\ NamesInv /\ NamesInv' /\ NamingInv /\ LabelsInv /\ [Next]_allVars => LabelsInv'
  <2> SUFFICES ASSUME MenuInv, NamesInv, NamesInv', NamingInv, LabelsInv, [Next]_allVars
               PROVE  LabelsInv'
    OBVIOUS
  <2>1. CASE \E c \in Calls : Begin(c) \/ ImportStep(c) \/ IngestionStep(c)
    BY <2>1, LabelsOfRequests DEF Begin, ImportStep, MenuInv, NamesInv
  <2>2. CASE VectorNext \/ UNCHANGED allVars
    <3>1. UNCHANGED <<hasTx, products, catName, mcall>>
      BY <2>2 DEF VectorNext, TakeJob, ResetNamespace, ReadMenu, WriteVectors, DeleteVector,
         JobFails, allVars, catalogVars, menuVars
    <3>2. QED BY <3>1 DEF LabelsInv, Disturbed, ProductsInOrder, RequestsInOrder, InOrder, Changing,
         MeansOrder, ArrayInOrder, Writer, Overlap, Pending, InTransaction
  <2>3. QED BY <2>1, <2>2 DEF Next
<1>3. QED BY <1>1, <1>2, MenuInvariant, NamesHold, NamingHolds, PTL DEF Spec

\* A product carries the name its category has, unless a rename or a deletion overlapped a
\* writer of the menu or is still to cascade, or did not finish, with any number of requests,
\* products and categories (categories/service.ts:22-46; menu/repository.ts:158-163, 251-255).
THEOREM LabelsFollow == Spec => []LabelsFollowCategories
<1>1. MenuInv /\ LabelsInv => LabelsFollowCategories
  <2> SUFFICES ASSUME MenuInv, LabelsInv, NEW id \in Live, products[id].cat # None,
                      catName[products[id].cat] # None,
                      products[id].label # catName[products[id].cat]
               PROVE  \E w \in Calls : /\ mcall[w].op \in CategoryOps
                                       /\ \/ Unfinished(w)
                                          \/ \E x \in Calls : /\ mcall[x].op \notin {None, "read"}
                                                               /\ Overlap(w, x)
    BY DEF LabelsFollowCategories
  <2>1. CASE Disturbed
    BY <2>1 DEF Disturbed, Unfinished, Writer
  <2>2. CASE ~Disturbed
    <3>1. id \in Ids /\ products[id] # None /\ ~InOrder(products[id])
      BY DEF Live, InArray, InOrder
    <3>2. Changing(products[id].cat)
      BY <2>2, <3>1 DEF LabelsInv, ProductsInOrder
    <3>3. PICK w \in Calls : /\ mcall[w].op \in CategoryOps
                             /\ mcall[w].pc \in {"del", "cascade", "save"}
      BY <3>2 DEF Changing
    <3>4. Unfinished(w)
      BY <3>3 DEF Unfinished, Ended
    <3>5. QED BY <3>3, <3>4
  <2>3. QED BY <2>1, <2>2
<1>2. QED BY <1>1, MenuInvariant, LabelsHold, PTL
=============================================================================
