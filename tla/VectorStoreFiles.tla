-------------------------- MODULE VectorStoreFiles --------------------------
(***************************************************************************)
(* One file batch of a vector store: VectorStoreServiceImpl creates the     *)
(* rows and enqueues a task per file, FileObjectTaskHandler::Handle ingests *)
(* a file on a consumer thread, FileBatchObjectBackgroundTask scans pending *)
(* batches on a thread of its own, and clients cancel the batch or delete   *)
(* files or the store.                                                      *)
(*                                                                         *)
(* Every database statement that matters to another actor is one step,      *)
(* because nothing here uses a transaction.  The files of a batch are       *)
(* inserted by one statement and share created_at, so that a listing may    *)
(* return them in any order.                                                *)
(***************************************************************************)
EXTENDS Naturals, FiniteSets

CONSTANTS
    Files,       \* files of the batch
    Workers,     \* consumer threads of the task scheduler
    PageSize,    \* rows of one listing: DEFAULT_LIST_LIMIT + 1
    MaxRequests, \* bound: requests that cancel the batch or delete something
    MaxCrashes   \* bound: process crashes

ASSUME FilesAssumption ==
    /\ IsFiniteSet(Files) /\ Files # {} /\ "none" \notin Files
    /\ PageSize \in Nat \ {0} /\ MaxRequests \in Nat /\ MaxCrashes \in Nat

VARIABLES
    store,     \* does the vector store's row exist?
    retriever, \* does its instance (metadata row and vector table) exist?
    file,      \* status of each file's row, "none" if there is no row
    docs,      \* files with documents in the doc store
    batch,     \* status of the batch's row
    checked,   \* is sanity_check_at set?
    queue,     \* files whose task waits in the scheduler
    creator,   \* progress of CreateVectorStoreFileBatch
    canceller, \* progress of CancelVectorStoreFileBatch
    deleter,   \* progress of DeleteVectorStore
    worker,    \* progress of each consumer thread
    scanner,   \* progress of the background task
    requests, crashes

rows == <<store, retriever, file, docs, batch, checked>>
threads == <<worker, scanner, crashes>>
vars == <<rows, queue, creator, canceller, deleter, requests, threads>>

FileStatus == {"in_progress", "completed", "failed", "cancelled"}
Settled == {"completed", "failed", "cancelled"}

(* Locals of Handle: the file, and the status to be written next, first to  *)
(* the file and then to the batch.                                          *)
Local == [pc : {"idle", "mark", "open", "ingest",
                "recheck", "finish", "count", "batch"},
          file : Files \cup {"none"}, result : Settled \cup {"none"}]

Resting == [pc |-> "idle", file |-> "none", result |-> "none"]

(* Locals of the scan: files whose documents are to be removed, and the     *)
(* batch's new status ("none": not terminal).                               *)
Scan == [pc : {"sleep", "list", "clean", "update"}, bad : SUBSET Files, verdict : Settled \cup {"none"}]

Asleep == [pc |-> "sleep", bad |-> {}, verdict |-> "none"]

(* All variables have their types.                                          *)
TypeOK ==
    /\ store \in BOOLEAN /\ retriever \in BOOLEAN
    /\ file \in [Files -> FileStatus \cup {"none"}]
    /\ docs \subseteq Files
    /\ batch \in FileStatus \cup {"none"}
    /\ checked \in BOOLEAN
    /\ queue \subseteq Files
    /\ creator \in {"start", "files", "enqueue", "done"}
    /\ canceller \in {"idle", "files"}
    /\ deleter \in {"idle", "files", "row", "docs", "instance"}
    /\ worker \in [Workers -> Local]
    /\ scanner \in Scan
    /\ requests \in 0..MaxRequests /\ crashes \in 0..MaxCrashes

(* The store was created before, without files.                             *)
Init ==
    /\ store = TRUE /\ retriever = TRUE
    /\ file = [f \in Files |-> "none"] /\ docs = {}
    /\ batch = "none" /\ checked = FALSE /\ queue = {}
    /\ creator = "start" /\ canceller = "idle" /\ deleter = "idle"
    /\ worker = [w \in Workers |-> Resting]
    /\ scanner = Asleep
    /\ requests = 0 /\ crashes = 0

-----------------------------------------------------------------------------
(* VectorStoreServiceImpl *)

(* A client makes one more request.                                         *)
Request == requests < MaxRequests /\ requests' = requests + 1

Listed == {f \in Files : file[f] # "none"}
With(status) == {f \in Files : file[f] = status}

(* CreateVectorStoreFileBatch inserts the batch ...                         *)
InsertBatch ==
    /\ creator = "start"
    /\ batch' = "in_progress"
    /\ creator' = "files"
    /\ UNCHANGED <<store, retriever, file, docs, checked, queue, canceller, deleter, requests, threads>>

(* ... the files ...                                                        *)
InsertFiles ==
    /\ creator = "files"
    /\ file' = [f \in Files |-> "in_progress"]
    /\ creator' = "enqueue"
    /\ UNCHANGED <<store, retriever, docs, batch, checked, queue, canceller, deleter, requests, threads>>

(* ... and enqueues a task for each row it reads back.  (The scheduler may  *)
(* take any of them late, so that enqueuing one by one adds no behaviour.)  *)
EnqueueFiles ==
    /\ creator = "enqueue"
    /\ queue' = Listed
    /\ creator' = "done"
    /\ UNCHANGED <<rows, canceller, deleter, requests, threads>>

(* CancelVectorStoreFileBatch overwrites the batch's status ...             *)
CancelBatch ==
    /\ batch # "none" /\ canceller = "idle"
    /\ Request
    /\ batch' = "cancelled"
    /\ canceller' = "files"
    /\ UNCHANGED <<store, retriever, file, docs, checked, queue, creator, deleter, threads>>

(* Mutant: the update has no condition on the status.                       *)
CancelFilesAll ==
    /\ canceller = "files"
    /\ file' = [f \in Files |-> IF file[f] # "none" THEN "cancelled" ELSE file[f]]
    /\ canceller' = "idle"
    /\ UNCHANGED <<store, retriever, docs, batch, checked, queue, creator, deleter, requests, threads>>

(* ... and cancels the files in progress (it throws if there is none).      *)
CancelFiles ==
    /\ canceller = "files"
    /\ file' = [f \in Files |-> IF file[f] = "in_progress" THEN "cancelled" ELSE file[f]]
    /\ canceller' = "idle"
    /\ UNCHANGED <<store, retriever, docs, batch, checked, queue, creator, deleter, requests, threads>>

(* DeleteVectorStoreFile removes the row.  Its filter then asks for         *)
(* documents whose parent_doc_id is the file's id; documents carry that id  *)
(* as file_source, so none match.  (With the store's row gone the code      *)
(* dereferences an empty optional at that point: Crash covers its outcome.) *)
DeleteFile(f) ==
    /\ Request /\ file[f] # "none"
    /\ file' = [file EXCEPT ![f] = "none"]
    /\ UNCHANGED <<store, retriever, docs, batch, checked, queue, creator, canceller, deleter, threads>>

(* DeleteVectorStore goes ahead if no file is in progress ...               *)
DeleteStore ==
    /\ Request /\ store /\ deleter = "idle"
    /\ With("in_progress") = {}
    /\ deleter' = "files"
    /\ UNCHANGED <<rows, queue, creator, canceller, threads>>

(* ... removes the files' rows ...                                          *)
DeleteStoreFiles ==
    /\ deleter = "files"
    /\ file' = [f \in Files |-> "none"]
    /\ deleter' = "row"
    /\ UNCHANGED <<store, retriever, docs, batch, checked, queue, creator, canceller, requests, threads>>

(* ... then the store (the batch's row stays) ...                           *)
DeleteStoreRow ==
    /\ deleter = "row"
    /\ store' = FALSE
    /\ deleter' = "docs"
    /\ UNCHANGED <<retriever, file, docs, batch, checked, queue, creator, canceller, requests, threads>>

(* ... and cleans up its documents and its instance.                        *)
CleanupRetriever ==
    /\ \/ /\ deleter = "docs" /\ deleter' = "instance"
          /\ docs' = {} /\ UNCHANGED retriever
       \/ /\ deleter = "instance" /\ deleter' = "idle"
          /\ retriever' = FALSE /\ UNCHANGED docs
    /\ UNCHANGED <<store, file, batch, checked, queue, creator, canceller, requests, threads>>

-----------------------------------------------------------------------------
(* FileObjectTaskHandler::Handle *)

rest == <<store, retriever, checked, creator, canceller, deleter, requests, scanner, crashes>>
At(w, pc) == worker[w].pc = pc
Goto(w, pc) == worker' = [worker EXCEPT ![w].pc = pc]
Result(w, pc, result) == worker' = [worker EXCEPT ![w].pc = pc, ![w].result = result]
Leave(w) == worker' = [worker EXCEPT ![w] = Resting]

(* ModifyVectorStoreFile throws if the row is gone; it does not look at the *)
(* row's status.                                                            *)
ModifyFile(w, status, pc) ==
    \/ /\ file[worker[w].file] # "none"
       /\ file' = [file EXCEPT ![worker[w].file] = status]
       /\ Goto(w, pc)
    \/ /\ file[worker[w].file] = "none"
       /\ Leave(w)
       /\ UNCHANGED file

(* Mutant: the row is not looked at before the file is marked.              *)
TakeTaskUnchecked(w) ==
    /\ At(w, "idle")
    /\ \E f \in queue :
          /\ queue' = queue \ {f}
          /\ worker' = [worker EXCEPT ![w].pc = "mark", ![w].file = f]
    /\ UNCHANGED <<rest, file, docs, batch>>

(* CheckVectorStoreFileOk: a file that is not in progress is left alone.    *)
TakeTask(w) ==
    /\ At(w, "idle")
    /\ \E f \in queue :
          /\ queue' = queue \ {f}
          /\ IF file[f] = "in_progress"
                THEN worker' = [worker EXCEPT ![w].pc = "mark", ![w].file = f]
                ELSE UNCHANGED worker
    /\ UNCHANGED <<rest, file, docs, batch>>

MarkFile(w) ==
    /\ At(w, "mark")
    /\ ModifyFile(w, "in_progress", "open")
    /\ UNCHANGED <<rest, docs, batch, queue>>

(* The store, the file and the retriever are found.                         *)
Open(w) ==
    /\ At(w, "open") /\ store /\ retriever
    /\ Goto(w, "ingest")
    /\ UNCHANGED <<rest, file, docs, batch, queue>>

(* The documents are written and summarised.                                *)
Ingest(w) ==
    /\ At(w, "ingest") /\ retriever
    /\ docs' = docs \cup {worker[w].file}
    /\ Result(w, "recheck", "completed")
    /\ UNCHANGED <<rest, file, batch, queue>>

(* Any of these throws; documents written before the exception stay.        *)
HandlingFails(w) ==
    /\ \/ At(w, "open") /\ UNCHANGED docs
       \/ At(w, "ingest") /\ docs' \in {docs, docs \cup {worker[w].file}}
    /\ Result(w, "recheck", "failed")
    /\ UNCHANGED <<rest, file, batch, queue>>

(* CheckVectorStoreFileOk again; if it fails nothing else is done.          *)
RecheckFile(w) ==
    /\ At(w, "recheck")
    /\ IF file[worker[w].file] = "in_progress" THEN Goto(w, "finish") ELSE Leave(w)
    /\ UNCHANGED <<rest, file, docs, batch, queue>>

FinishFile(w) ==
    /\ At(w, "finish")
    /\ ModifyFile(w, worker[w].result, "count")
    /\ UNCHANGED <<rest, docs, batch, queue>>

(* Mutant: the test for failed files is inverted.                           *)
VerdictInverted ==
    IF With("cancelled") # {} THEN "cancelled"
    ELSE IF With("failed") = {} THEN "failed" ELSE "completed"

(* The batch's status once no file is in progress.                          *)
Verdict ==
    IF With("cancelled") # {} THEN "cancelled"
    ELSE IF With("failed") # {} THEN "failed" ELSE "completed"

(* Mutant: the counts are taken to be those before this file was finished.  *)
CountFilesEarly(w) ==
    /\ At(w, "count")
    /\ IF With("in_progress") \cup {worker[w].file} = {} THEN Result(w, "batch", Verdict) ELSE Leave(w)
    /\ UNCHANGED <<rest, file, docs, batch, queue>>

(* Only who sees no file in progress updates the batch.                     *)
CountFiles(w) ==
    /\ At(w, "count")
    /\ IF With("in_progress") = {} THEN Result(w, "batch", Verdict) ELSE Leave(w)
    /\ UNCHANGED <<rest, file, docs, batch, queue>>

UpdateBatch(w) ==
    /\ At(w, "batch")
    /\ batch' = worker[w].result
    /\ Leave(w)
    /\ UNCHANGED <<rest, file, docs, queue>>

-----------------------------------------------------------------------------
(* FileBatchObjectBackgroundTask::Handle *)

unscanned == <<store, retriever, file, queue, creator, canceller, deleter, requests, worker, crashes>>

(* A pending batch is one that no scan has closed.                          *)
ScanStart ==
    /\ scanner.pc = "sleep"
    /\ batch # "none" /\ ~checked
    /\ retriever
    /\ scanner' = [Asleep EXCEPT !.pc = "list"]
    /\ UNCHANGED <<unscanned, docs, batch, checked>>

(* Mutant: the flag `completed' starts as false.                            *)
ScanVerdictNeverCompleted(page, verdict) ==
    \/ verdict = "none" /\ (\A f \in page : file[f] = "completed")
    \/ verdict \in {"failed", "cancelled"} /\ (\E f \in page : file[f] = verdict)
    \/ verdict = "none" /\ (\E f \in page : file[f] = "in_progress")

(* What the loop makes of a page: its flag `terminal' and the new status    *)
(* are those of the last file that is not completed; without any the batch  *)
(* is completed.                                                            *)
ScanVerdict(page, verdict) ==
    \/ verdict = "completed" /\ (\A f \in page : file[f] = "completed")
    \/ verdict \in {"failed", "cancelled"} /\ (\E f \in page : file[f] = verdict)
    \/ verdict = "none" /\ (\E f \in page : file[f] = "in_progress")

(* The listing never reports has_more, so that there is only one page.      *)
ScanList ==
    /\ scanner.pc = "list"
    /\ \E page \in SUBSET Listed, verdict \in Settled \cup {"none"} :
          /\ page = Listed \/ Cardinality(page) = PageSize
          /\ Cardinality(page) <= PageSize
          /\ ScanVerdict(page, verdict)
          /\ scanner' = [pc |-> "clean", verdict |-> verdict,
                         bad |-> {f \in page : file[f] \in {"failed", "cancelled"}}]
    /\ UNCHANGED <<unscanned, docs, batch, checked>>

(* retriever->Remove for the failed and cancelled files of the page.        *)
ScanClean ==
    /\ scanner.pc = "clean"
    /\ retriever \/ scanner.bad = {}
    /\ docs' = docs \ scanner.bad
    /\ scanner' = IF scanner.verdict = "none" THEN Asleep ELSE [scanner EXCEPT !.pc = "update"]
    /\ UNCHANGED <<unscanned, batch, checked>>

ScanUpdate ==
    /\ scanner.pc = "update"
    /\ batch' = scanner.verdict
    /\ checked' = TRUE
    /\ scanner' = Asleep
    /\ UNCHANGED <<unscanned, docs>>

-----------------------------------------------------------------------------
(* The process dies and starts again: only the rows are left.               *)
Restart ==
    /\ crashes < MaxCrashes
    /\ crashes' = crashes + 1
    /\ queue' = {} /\ creator' = "done" /\ canceller' = "idle" /\ deleter' = "idle"
    /\ worker' = [w \in Workers |-> Resting]
    /\ scanner' = Asleep
    /\ UNCHANGED <<store, retriever, file, batch, checked, requests>>

Crash == Restart /\ UNCHANGED docs

(* Without its instance the retriever cannot be loaded, or cleaned beyond   *)
(* the doc store: the exception leaves the scanner's thread and ends the    *)
(* process.                                                                 *)
ScannerThrows ==
    /\ ~retriever
    /\ \/ scanner.pc = "sleep" /\ batch # "none" /\ ~checked
       \/ scanner.pc = "clean" /\ scanner.bad # {}
    /\ docs' = docs \ scanner.bad
    /\ Restart

-----------------------------------------------------------------------------
Create == InsertBatch \/ InsertFiles \/ EnqueueFiles

Handle(w) ==
    \/ TakeTask(w) \/ MarkFile(w) \/ Open(w) \/ Ingest(w)
    \/ HandlingFails(w) \/ RecheckFile(w) \/ FinishFile(w) \/ CountFiles(w) \/ UpdateBatch(w)

DeleteRest == DeleteStoreFiles \/ DeleteStoreRow \/ CleanupRetriever

ScanStep == ScanStart \/ ScanList \/ ScanClean \/ ScanUpdate

Next ==
    \/ Create
    \/ CancelBatch \/ CancelFiles
    \/ \E f \in Files : DeleteFile(f)
    \/ DeleteStore \/ DeleteRest
    \/ \E w \in Workers : Handle(w)
    \/ ScanStep
    \/ Crash \/ ScannerThrows

Spec == Init /\ [][Next]_vars

(* Accepted requests, consumer threads and the background task make         *)
(* progress; cancellations, deletions and crashes are free.                 *)
Fairness ==
    /\ WF_vars(Create) /\ WF_vars(CancelFiles) /\ WF_vars(DeleteRest)
    /\ \A w \in Workers : WF_vars(Handle(w))
    /\ WF_vars(ScanStep)

FairSpec == Spec /\ Fairness

-----------------------------------------------------------------------------
AllIdle == \A w \in Workers : At(w, "idle")

(* The last handler out closes the batch: when every task is done, nothing  *)
(* crashed and no file was deleted, the batch is not left in progress,      *)
(* whatever the order in which handlers finish their files and count them   *)
(* and wherever a cancellation comes between.                               *)
LastHandlerClosesBatch ==
    creator = "done" /\ crashes = 0 /\ Listed = Files /\ queue = {} /\ AllIdle
        => batch # "in_progress"

(* A finished file is not touched again, by another handler or by a         *)
(* cancellation; only its deletion removes it.                              *)
FinishedFileIsFinal ==
    [][\A f \in Files : file[f] \in {"completed", "failed"} => file'[f] \in {file[f], "none"}]_file

(* A file cancelled before a handler has started on it is never worked on,  *)
(* although its task may still be queued: no step takes it up, and until it *)
(* is deleted it stays cancelled and gets no documents.                     *)
CancelledBeforeStartIsKept ==
    [][\A f \in Files :
          file[f] = "cancelled" /\ (\A w \in Workers : worker[w].file # f)
             => /\ file'[f] \in {"cancelled", "none"} /\ (f \in docs' => f \in docs)
                /\ \A w \in Workers : worker'[w].file # f]_<<file, docs, worker>>

(* A batch is called failed only if one of its files failed, or could have  *)
(* before it was deleted.                                                   *)
FailureHasCause == batch = "failed" => \E f \in Files : file[f] \in {"failed", "none"}

(* A batch does not stay in progress, although handlers may abort without   *)
(* updating it, unless the process crashed or the store is being deleted.   *)
BatchSettles == batch = "in_progress" ~> (batch # "in_progress" \/ crashes > 0 \/ ~store)
=============================================================================
