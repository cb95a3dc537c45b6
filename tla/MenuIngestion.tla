---------------------------- MODULE MenuIngestion ----------------------------
(***************************************************************************)
(* Files of menus: modules/menu/upload.controller.ts and the worker         *)
(* menu-ingestion.worker.ts, on top of the catalog and its vector index.    *)
(* A request stores the file, creates a status document and enqueues a      *)
(* job; each delivery of the job downloads and parses the file and runs the *)
(* same import as a JSON body, then records the file and the outcome.       *)
(*                                                                          *)
(*   request   idle -> ingest -> status                                     *)
(*   delivery  status -> processing -> category -> [newCategory] -> save -> *)
(*             enqueue -> [commit] -> del -> record -> del2 -> complete ->  *)
(*             done                                                         *)
(*             ... -> fail -> status (the next delivery) | failed           *)
(***************************************************************************)
EXTENDS VectorIndex

CONSTANT MaxUploads   \* bound on files uploaded

ASSUME UploadAssumption == /\ MaxUploads \in Nat
                           /\ None \notin {"queued", "processing", "completed", "failed"}

VARIABLES status,    \* [call -> status of its MenuUploadStatus document, or None]
          records,   \* [call -> entries of its file in Menu.sourceDocuments]
          imported   \* history: uploads one of whose attempts saved its products

ingestionVars == <<status, records, imported>>
allVars       == <<catalogVars, vectorVars, ingestionVars>>

Statuses == {"queued", "processing", "completed", "failed"}

Init == /\ CatalogInit /\ VectorInit
        /\ status = [c \in Calls |-> None] /\ records = [c \in Calls |-> 0]
        /\ imported = {}

InCatalog == UNCHANGED <<menuVars, catName, cache, jobs, unsynced, faults, renamed>>

SetStatus(c, s) == status' = [status EXCEPT ![c] = s]

-----------------------------------------------------------------------------
\* The file holds one product in one category.
UploadMenu(c, name, g) ==
    /\ mcall[c].pc = "idle"
    /\ Cardinality({d \in Calls : mcall[d].op = "upload"}) < MaxUploads
    /\ mcall' = [mcall EXCEPT ![c] = [Opened("upload") EXCEPT
                    !.name = name, !.label = g, !.pc = "ingest"]]
    /\ SetStatus(c, "queued")
    /\ InCatalog /\ UNCHANGED <<records, imported>>

EnqueueIngestion(c) ==
    /\ mcall[c].pc = "ingest"
    /\ MGoto(c, "status")
    /\ InCatalog /\ UNCHANGED ingestionVars

StartIngestion(c) ==
    /\ mcall[c].pc = "status"
    /\ MGoto(c, "processing")
    /\ SetStatus(c, "processing")
    /\ InCatalog /\ UNCHANGED <<records, imported>>

\* The import begins with the menu as it is.
ParseFile(c) ==
    /\ mcall[c].pc = "processing"
    /\ Load(c, mcall[c])
    /\ UNCHANGED ingestionVars

ImportStep(c) ==
    /\ CatalogStep(c)
    /\ imported' = IF mcall[c].op = "upload" /\ mcall'[c].pc = "del"
                   THEN imported \cup {c} ELSE imported
    /\ UNCHANGED <<status, records>>

\* The file is entered in the menu that there is; no upsert.
RecordSource(c) ==
    /\ mcall[c].pc = "record"
    /\ MGoto(c, "del2")
    /\ records' = IF hasMenu THEN [records EXCEPT ![c] = @ + 1] ELSE records
    /\ InCatalog /\ UNCHANGED <<status, imported>>

InvalidateAgain(c) ==
    /\ mcall[c].pc = "del2"
    /\ cache' = None
    /\ MGoto(c, "complete")
    /\ UNCHANGED <<menuVars, catName, jobs, unsynced, faults, renamed, ingestionVars>>

CompleteIngestion(c) ==
    /\ mcall[c].pc = "complete"
    /\ MGoto(c, "done")
    /\ SetStatus(c, "completed")
    /\ InCatalog /\ UNCHANGED <<records, imported>>

\* The download, the parser, the schema or what follows the import throws: the catch sees one
\* failure like another.
IngestionThrows(c) ==
    /\ mcall[c].pc \in {"processing", "record", "del2", "complete"} /\ faults < MaxFaults
    /\ faults' = faults + 1
    /\ Refused(c)
    /\ UNCHANGED <<menuVars, catName, cache, jobs, unsynced, renamed, ingestionVars>>

NextAttempt(call) == [call EXCEPT !.try = @ + 1, !.pc = "status", !.cat = None,
                                  !.snap = None, !.ver = 0, !.made = FALSE]

\* What becomes of an upload whose delivery ended badly: the queue delivers the job again
\* while it has retries; a job that could not be published ran in the process, only once.
Afterwards(c, end) == {At(mcall[c], end)} \cup
                      IF mcall[c].try < MaxAttempts THEN {NextAttempt(mcall[c])} ELSE {}

\* The error is thrown on before the status is written.
FailIngestion_NoStatus(c) ==
    /\ mcall[c].pc = "fail"
    /\ \E call \in Afterwards(c, "failed") : mcall' = [mcall EXCEPT ![c] = call]
    /\ InCatalog /\ UNCHANGED ingestionVars

\* The status is written and the error thrown on.
FailIngestion(c) ==
    /\ mcall[c].pc = "fail"
    /\ \E call \in Afterwards(c, "failed") : mcall' = [mcall EXCEPT ![c] = call]
    /\ SetStatus(c, "failed")
    /\ InCatalog /\ UNCHANGED <<records, imported>>

InstanceDies(c) ==
    /\ faults < MaxFaults /\ mcall[c].pc \notin Ended
    /\ faults' = faults + 1
    /\ \E call \in IF mcall[c].op = "upload" /\ mcall[c].pc # "ingest"
                    THEN Afterwards(c, "lost") ELSE {At(mcall[c], "lost")} :
          mcall' = [mcall EXCEPT ![c] = call]
    /\ unsynced' = IF mcall[c].pc = "enqueue" /\ ~InTransaction(c)
                   THEN unsynced \cup {c} ELSE unsynced
    /\ UNCHANGED <<menuVars, catName, cache, jobs, renamed, ingestionVars>>

IngestionStep(c) ==
    \/ EnqueueIngestion(c) \/ StartIngestion(c) \/ ParseFile(c) \/ RecordSource(c)
    \/ InvalidateAgain(c) \/ CompleteIngestion(c) \/ IngestionThrows(c) \/ FailIngestion(c)
    \/ InstanceDies(c)

Begin(c) ==
    \/ BeginCatalogCall(c) /\ UNCHANGED ingestionVars
    \/ \E f \in Files : UploadMenu(c, f[1], f[2])

Next == \/ /\ \E c \in Calls : Begin(c) \/ ImportStep(c) \/ IngestionStep(c)
           /\ UNCHANGED vectorVars
        \/ VectorNext /\ UNCHANGED ingestionVars

Spec == Init /\ [][Next]_allVars

-----------------------------------------------------------------------------
TypeOK == /\ CatalogTypeOK /\ VectorTypeOK
          /\ status \in [Calls -> Statuses \cup {None}]
          /\ records \in [Calls -> 0 .. MaxAttempts]
          /\ imported \subseteq Calls

\* What the client polls is true of the menu: "completed" means an attempt has saved the
\* products and entered the file; a file is entered twice only for a second delivery; and
\* when no delivery will come any more the status says how it ended, unless an instance died
\* (menu-ingestion.worker.ts:27-82, upload.controller.ts:67-97).
UploadStatusTrue ==
    \A c \in Calls :
        /\ status[c] = "completed" => c \in imported /\ records[c] > 0
        /\ records[c] <= mcall[c].try
        /\ records[c] > 0 => c \in imported
        /\ mcall[c].pc \in {"done", "failed"} /\ mcall[c].op = "upload"
               => status[c] \in {"completed", "failed"}
=============================================================================
