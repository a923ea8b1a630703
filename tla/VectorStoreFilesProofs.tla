----------------------- MODULE VectorStoreFilesProofs -----------------------
(***************************************************************************)
(* What holds of a file batch for any number of files, consumer threads,    *)
(* client requests and crashes and for every page size.                     *)
(***************************************************************************)
EXTENDS VectorStoreFiles, TLAPS

PC == {"idle", "mark", "open", "ingest", "recheck", "finish", "count", "batch"}

(* A handler at work has a file, and a status when it is to write one.      *)
LocalOK ==
    \A w \in Workers :
        /\ worker[w].pc # "idle" => worker[w].file \in Files
        /\ worker[w].pc \in {"recheck", "finish", "batch"} => worker[w].result \in Settled

(* The scan writes a status only if it has one.                             *)
ScanOK == scanner.pc = "update" => scanner.verdict # "none"

Typed == TypeOK /\ LocalOK /\ ScanOK

-----------------------------------------------------------------------------
(* The locals of handler w become p, f and r, those of the others stay.     *)
Moves(w, p, f, r) ==
    /\ worker' \in [Workers -> Local]
    /\ worker'[w].pc = p /\ worker'[w].file = f /\ worker'[w].result = r
    /\ \A v \in Workers \ {w} : worker'[v] = worker[v]

(* Going to another line changes the line only.                             *)
LEMMA GotoMoves ==
    ASSUME TypeOK, NEW w \in Workers, NEW p \in PC, Goto(w, p)
    PROVE  Moves(w, p, worker[w].file, worker[w].result)
<1> DEFINE m == [worker[w] EXCEPT !.pc = p]
<1>1. worker \in [Workers -> Local]
  BY DEF TypeOK
<1>2. m \in Local /\ m.pc = p /\ m.file = worker[w].file /\ m.result = worker[w].result
  BY <1>1 DEF Local, PC
<1>3. worker' = [worker EXCEPT ![w] = m]
  BY DEF Goto
<1> HIDE DEF m
<1> QED BY <1>1, <1>2, <1>3 DEF Moves

(* Going there with a status to write changes these two.                    *)
LEMMA ResultMoves ==
    ASSUME TypeOK, NEW w \in Workers, NEW p \in PC, NEW r \in Settled, Result(w, p, r)
    PROVE  Moves(w, p, worker[w].file, r)
<1> DEFINE m == [worker[w] EXCEPT !.pc = p, !.result = r]
<1>1. worker \in [Workers -> Local]
  BY DEF TypeOK
<1>2. m \in Local /\ m.pc = p /\ m.file = worker[w].file /\ m.result = r
  BY <1>1 DEF Local, PC
<1>3. worker' = [worker EXCEPT ![w] = m]
  BY DEF Result
<1> HIDE DEF m
<1> QED BY <1>1, <1>2, <1>3 DEF Moves

(* Taking a task changes the line and the file.                             *)
LEMMA TakeMoves ==
    ASSUME TypeOK, NEW w \in Workers, NEW f \in Files,
           worker' = [worker EXCEPT ![w].pc = "mark", ![w].file = f]
    PROVE  Moves(w, "mark", f, worker[w].result)
<1> DEFINE m == [worker[w] EXCEPT !.pc = "mark", !.file = f]
<1>1. worker \in [Workers -> Local]
  BY DEF TypeOK
<1>2. m \in Local /\ m.pc = "mark" /\ m.file = f /\ m.result = worker[w].result
  BY <1>1 DEF Local
<1>3. worker' = [worker EXCEPT ![w] = m]
  OBVIOUS
<1> HIDE DEF m
<1> QED BY <1>1, <1>2, <1>3 DEF Moves

(* The locals of an idle consumer have their type.                          *)
LEMMA RestingLocal == Resting \in Local /\ Resting.pc = "idle" /\ Resting.file = "none" /\ Resting.result = "none"
  BY DEF Resting, Local

(* Returning from Handle clears the locals.                                 *)
LEMMA LeaveMoves ==
    ASSUME TypeOK, NEW w \in Workers, Leave(w)
    PROVE  Moves(w, "idle", "none", "none")
<1>1. worker \in [Workers -> Local]
  BY DEF TypeOK
<1> QED BY <1>1, RestingLocal DEF Leave, Moves

-----------------------------------------------------------------------------
(* What a writing handler does to its file.                                 *)
LEMMA ModifyFacts ==
    ASSUME Typed, NEW w \in Workers, worker[w].pc # "idle",
           NEW status \in FileStatus, NEW p \in PC, ModifyFile(w, status, p)
    PROVE  \/ /\ file[worker[w].file] # "none"
              /\ file' = [file EXCEPT ![worker[w].file] = status]
              /\ file' \in [Files -> FileStatus \cup {"none"}]
              /\ Moves(w, p, worker[w].file, worker[w].result)
           \/ /\ file[worker[w].file] = "none"
              /\ file' = file
              /\ Moves(w, "idle", "none", "none")
<1>1. TypeOK /\ worker[w].file \in Files
  BY DEF Typed, LocalOK
<1>2. CASE file[worker[w].file] # "none"
  BY <1>1, <1>2, GotoMoves DEF ModifyFile, TypeOK
<1>3. CASE file[worker[w].file] = "none"
  BY <1>1, <1>3, LeaveMoves DEF ModifyFile
<1> QED BY <1>2, <1>3

(* A handler closes the batch with a settled status.                        *)
LEMMA VerdictSettled == Verdict \in Settled
  BY DEF Verdict, Settled

(* A move that gives the handler what its place needs keeps the locals.     *)
LEMMA MovesLocalOK ==
    ASSUME Typed, NEW w \in Workers, NEW p, NEW f, NEW r, Moves(w, p, f, r),
           p # "idle" => f \in Files,
           p \in {"recheck", "finish", "batch"} => r \in Settled
    PROVE  LocalOK' /\ worker' \in [Workers -> Local]
  BY DEF Typed, LocalOK, Moves

(* Handlers keep the types.                                                 *)
LEMMA HandleTyped ==
    ASSUME Typed, NEW w \in Workers, Handle(w)
    PROVE  Typed'
<1> USE DEF rest
<1>0. /\ TypeOK
      /\ worker[w].pc # "idle" => worker[w].file \in Files
      /\ worker[w].pc \in {"recheck", "finish", "batch"} => worker[w].result \in Settled
  BY DEF Typed, LocalOK
<1>1. SUFFICES /\ LocalOK' /\ worker' \in [Workers -> Local]
               /\ file' \in [Files -> FileStatus \cup {"none"}]
               /\ docs' \subseteq Files /\ queue' \subseteq Files
               /\ batch' \in FileStatus \cup {"none"}
               /\ UNCHANGED rest
  BY <1>0, <1>1 DEF Typed, TypeOK, ScanOK
<1>2. CASE TakeTask(w)
  <2>1. PICK f \in queue : /\ queue' = queue \ {f}
                           /\ \/ worker' = [worker EXCEPT ![w].pc = "mark", ![w].file = f]
                              \/ worker' = worker
    BY <1>2 DEF TakeTask
  <2>2. f \in Files
    BY <1>0 DEF TypeOK
  <2>3. LocalOK' /\ worker' \in [Workers -> Local]
    <3>1. CASE worker' = worker
      BY <3>1, <1>0 DEF Typed, LocalOK, TypeOK
    <3>2. CASE worker' = [worker EXCEPT ![w].pc = "mark", ![w].file = f]
      BY <3>2, <2>2, <1>0, TakeMoves, MovesLocalOK
    <3> QED BY <2>1, <3>1, <3>2
  <2> QED BY <1>0, <1>2, <2>1, <2>3 DEF TakeTask, TypeOK
<1>3. CASE MarkFile(w)
  <2>1. worker[w].pc = "mark" /\ ModifyFile(w, "in_progress", "open")
    BY <1>3 DEF MarkFile, At
  <2>2. LocalOK' /\ worker' \in [Workers -> Local] /\ file' \in [Files -> FileStatus \cup {"none"}]
    BY <2>1, <1>0, ModifyFacts, MovesLocalOK DEF PC, FileStatus, TypeOK
  <2> QED BY <1>0, <1>3, <2>2 DEF MarkFile, TypeOK
<1>4. CASE Open(w)
  <2>1. worker[w].pc = "open" /\ Goto(w, "ingest")
    BY <1>4 DEF Open, At
  <2>2. LocalOK' /\ worker' \in [Workers -> Local]
    BY <2>1, <1>0, GotoMoves, MovesLocalOK DEF PC
  <2> QED BY <1>0, <1>4, <2>2 DEF Open, TypeOK
<1>5. CASE Ingest(w)
  <2>1. worker[w].pc = "ingest" /\ Result(w, "recheck", "completed")
    BY <1>5 DEF Ingest, At
  <2>2. LocalOK' /\ worker' \in [Workers -> Local]
    BY <2>1, <1>0, ResultMoves, MovesLocalOK DEF PC, Settled
  <2> QED BY <1>0, <1>5, <2>1, <2>2 DEF Ingest, TypeOK
<1>6. CASE HandlingFails(w)
  <2>1. worker[w].pc \in {"open", "ingest"} /\ Result(w, "recheck", "failed")
    BY <1>6 DEF HandlingFails, At
  <2>2. LocalOK' /\ worker' \in [Workers -> Local]
    BY <2>1, <1>0, ResultMoves, MovesLocalOK DEF PC, Settled
  <2>3. docs' \subseteq Files
    BY <1>0, <1>6, <2>1 DEF HandlingFails, TypeOK
  <2> QED BY <1>0, <1>6, <2>2, <2>3 DEF HandlingFails, TypeOK
<1>7. CASE RecheckFile(w)
  <2>1. worker[w].pc = "recheck" /\ (Goto(w, "finish") \/ Leave(w))
    BY <1>7 DEF RecheckFile, At
  <2>2. LocalOK' /\ worker' \in [Workers -> Local]
    <3>1. CASE Goto(w, "finish")
      BY <3>1, <2>1, <1>0, GotoMoves, MovesLocalOK DEF PC
    <3>2. CASE Leave(w)
      BY <3>2, <1>0, LeaveMoves, MovesLocalOK
    <3> QED BY <2>1, <3>1, <3>2
  <2> QED BY <1>0, <1>7, <2>2 DEF RecheckFile, TypeOK
<1>8. CASE FinishFile(w)
  <2>1. worker[w].pc = "finish" /\ ModifyFile(w, worker[w].result, "count")
    BY <1>8 DEF FinishFile, At
  <2>2. worker[w].result \in FileStatus
    BY <2>1, <1>0 DEF FileStatus, Settled
  <2>3. LocalOK' /\ worker' \in [Workers -> Local] /\ file' \in [Files -> FileStatus \cup {"none"}]
    BY <2>1, <2>2, <1>0, ModifyFacts, MovesLocalOK DEF PC, TypeOK
  <2> QED BY <1>0, <1>8, <2>3 DEF FinishFile, TypeOK
<1>9. CASE CountFiles(w)
  <2>1. worker[w].pc = "count" /\ (Result(w, "batch", Verdict) \/ Leave(w))
    BY <1>9 DEF CountFiles, At
  <2>2. LocalOK' /\ worker' \in [Workers -> Local]
    <3>1. CASE Result(w, "batch", Verdict)
      BY <3>1, <2>1, <1>0, VerdictSettled, ResultMoves, MovesLocalOK DEF PC
    <3>2. CASE Leave(w)
      BY <3>2, <1>0, LeaveMoves, MovesLocalOK
    <3> QED BY <2>1, <3>1, <3>2
  <2> QED BY <1>0, <1>9, <2>2 DEF CountFiles, TypeOK
<1>10. CASE UpdateBatch(w)
  <2>1. worker[w].pc = "batch" /\ Leave(w) /\ batch' = worker[w].result
    BY <1>10 DEF UpdateBatch, At
  <2>2. LocalOK' /\ worker' \in [Workers -> Local]
    BY <2>1, <1>0, LeaveMoves, MovesLocalOK
  <2>3. batch' \in FileStatus
    BY <2>1, <1>0 DEF FileStatus, Settled
  <2> QED BY <1>0, <1>10, <2>2, <2>3 DEF UpdateBatch, TypeOK
<1> QED BY <1>2, <1>3, <1>4, <1>5, <1>6, <1>7, <1>8, <1>9, <1>10 DEF Handle

(* The steps of the services.                                               *)
Serve ==
    \/ Create \/ CancelBatch \/ CancelFiles
    \/ \E f \in Files : DeleteFile(f)
    \/ DeleteStore \/ DeleteRest

(* The services keep the types.                                             *)
LEMMA ServeTyped ==
    ASSUME Typed, Serve
    PROVE  Typed'
<1> USE FilesAssumption DEF rows, threads
<1>0. TypeOK
  BY DEF Typed
<1>1. UNCHANGED <<worker, scanner>> /\ TypeOK'
  <2>1. CASE InsertBatch
    BY <1>0, <2>1 DEF InsertBatch, TypeOK, FileStatus
  <2>2. CASE InsertFiles
    BY <1>0, <2>2 DEF InsertFiles, TypeOK, FileStatus
  <2>3. CASE EnqueueFiles
    BY <1>0, <2>3 DEF EnqueueFiles, Listed, TypeOK
  <2>4. CASE CancelBatch
    BY <1>0, <2>4 DEF CancelBatch, Request, TypeOK, FileStatus
  <2>5. CASE CancelFiles
    <3>1. file' \in [Files -> FileStatus \cup {"none"}]
      BY <1>0, <2>5 DEF CancelFiles, TypeOK, FileStatus
    <3> QED BY <1>0, <2>5, <3>1 DEF CancelFiles, TypeOK
  <2>6. ASSUME NEW f \in Files, DeleteFile(f)
        PROVE  UNCHANGED <<worker, scanner>> /\ TypeOK'
    BY <1>0, <2>6 DEF DeleteFile, Request, TypeOK
  <2>7. CASE DeleteStore
    BY <1>0, <2>7 DEF DeleteStore, Request, TypeOK
  <2>8. CASE DeleteStoreFiles
    BY <1>0, <2>8 DEF DeleteStoreFiles, TypeOK
  <2>9. CASE DeleteStoreRow
    BY <1>0, <2>9 DEF DeleteStoreRow, TypeOK
  <2>10. CASE CleanupRetriever
    BY <1>0, <2>10 DEF CleanupRetriever, TypeOK
  <2> QED BY <2>1, <2>2, <2>3, <2>4, <2>5, <2>6, <2>7, <2>8, <2>9, <2>10
          DEF Serve, Create, DeleteRest
<1> QED BY <1>1 DEF Typed, LocalOK, ScanOK

(* The locals of a sleeping scan have their type.                           *)
LEMMA AsleepScan == Asleep \in Scan /\ Asleep.pc = "sleep"
  BY DEF Asleep, Scan

(* The background task keeps the types.                                     *)
LEMMA ScanTyped ==
    ASSUME Typed, ScanStep
    PROVE  Typed'
<1> USE DEF unscanned
<1>0. TypeOK /\ ScanOK /\ LocalOK /\ scanner \in Scan
  BY DEF Typed, TypeOK
<1>1. CASE ScanStart
  <2>1. scanner' \in Scan /\ scanner'.pc = "list"
    BY <1>1 DEF ScanStart, Asleep, Scan
  <2> QED BY <1>0, <1>1, <2>1 DEF ScanStart, Typed, TypeOK, ScanOK, LocalOK
<1>2. CASE ScanList
  <2>1. scanner' \in Scan /\ scanner'.pc = "clean"
    BY <1>2 DEF ScanList, Scan, Listed
  <2> QED BY <1>0, <1>2, <2>1 DEF ScanList, Typed, TypeOK, ScanOK, LocalOK
<1>3. CASE ScanClean
  <2>1. scanner' \in Scan /\ ScanOK'
    <3>1. CASE scanner.verdict = "none"
      BY <1>3, <3>1, AsleepScan DEF ScanClean, ScanOK
    <3>2. CASE scanner.verdict # "none"
      BY <1>0, <1>3, <3>2 DEF ScanClean, ScanOK, Scan
    <3> QED BY <3>1, <3>2
  <2> QED BY <1>0, <1>3, <2>1 DEF ScanClean, Typed, TypeOK, LocalOK
<1>4. CASE ScanUpdate
  <2>1. batch' \in FileStatus
    BY <1>0, <1>4 DEF ScanUpdate, ScanOK, Scan, Settled, FileStatus
  <2> QED BY <1>0, <1>4, <2>1, AsleepScan DEF ScanUpdate, Typed, TypeOK, ScanOK, LocalOK
<1> QED BY <1>1, <1>2, <1>3, <1>4 DEF ScanStep

(* A restart keeps the types.                                               *)
LEMMA RestartTyped ==
    ASSUME Typed, Restart, docs' \subseteq docs
    PROVE  Typed'
<1>0. TypeOK
  BY DEF Typed
<1>1. worker' \in [Workers -> Local] /\ \A w \in Workers : worker'[w].pc = "idle"
  BY RestingLocal DEF Restart
<1>2. TypeOK'
  BY <1>0, <1>1, AsleepScan, FilesAssumption DEF Restart, TypeOK
<1> QED BY <1>1, <1>2, AsleepScan DEF Restart, Typed, LocalOK, ScanOK

(* The types hold initially ...                                             *)
LEMMA InitTyped == Init => Typed
<1> SUFFICES ASSUME Init PROVE Typed
  OBVIOUS
<1>1. worker \in [Workers -> Local] /\ \A w \in Workers : worker[w].pc = "idle"
  BY RestingLocal DEF Init
<1>2. store \in BOOLEAN /\ retriever \in BOOLEAN /\ checked \in BOOLEAN
  BY Zenon DEF Init
<1>3. /\ file \in [Files -> FileStatus \cup {"none"}]
      /\ requests \in 0..MaxRequests /\ crashes \in 0..MaxCrashes
  <2>1. file = [f \in Files |-> "none"] /\ requests = 0 /\ crashes = 0
    BY DEF Init
  <2> QED BY <2>1, FilesAssumption
<1>4. TypeOK
  BY <1>1, <1>2, <1>3, AsleepScan DEF Init, TypeOK
<1> QED BY <1>1, <1>4, AsleepScan DEF Init, Typed, LocalOK, ScanOK

(* ... and every step keeps them.                                           *)
LEMMA NextTyped == Typed /\ [Next]_vars => Typed'
<1> SUFFICES ASSUME Typed, [Next]_vars PROVE Typed'
  OBVIOUS
<1>1. CASE Serve
  BY <1>1, ServeTyped
<1>2. ASSUME NEW w \in Workers, Handle(w) PROVE Typed'
  BY <1>2, HandleTyped
<1>3. CASE ScanStep
  BY <1>3, ScanTyped
<1>4. CASE Crash
  BY <1>4, RestartTyped DEF Crash
<1>5. CASE ScannerThrows
  BY <1>5, RestartTyped DEF ScannerThrows
<1>6. CASE UNCHANGED vars
  BY <1>6 DEF vars, rows, threads, Typed, TypeOK, LocalOK, ScanOK
<1> QED BY <1>1, <1>2, <1>3, <1>4, <1>5, <1>6 DEF Next, Serve

(* Rows, queue and locals of the handlers and of the scan keep their types. *)
THEOREM FilesTypeCorrect == Spec => []TypeOK
<1>1. Typed => TypeOK
  BY DEF Typed
<1> QED BY <1>1, InitTyped, NextTyped, PTL DEF Spec

-----------------------------------------------------------------------------
(* No handler, scan or cancellation comes before the rows it works on.      *)
RowsFirst ==
    /\ creator = "start" => batch = "none" /\ canceller = "idle" /\ scanner.pc = "sleep"
    /\ creator \in {"start", "files"} => queue = {} /\ AllIdle

(* A cancellation has settled the batch before it looks at the files.       *)
CancelSettles == canceller = "files" => batch # "in_progress"

(* Some task is responsible for a file in progress.                         *)
Responsible(f) ==
    \/ creator = "enqueue"
    \/ f \in queue
    \/ \E w \in Workers : worker[w].file = f /\ worker[w].pc \in PC \ {"idle", "count", "batch"}

Owned == crashes = 0 => \A f \in With("in_progress") : Responsible(f)

(* A batch in progress without a file in progress has someone to close it.  *)
Closing ==
    crashes = 0 /\ creator \in {"enqueue", "done"} /\ Listed = Files /\ With("in_progress") = {}
        => batch # "in_progress" \/ \E w \in Workers : worker[w].pc \in {"count", "batch"}

LastInv == RowsFirst /\ CancelSettles /\ Owned /\ Closing

(* The invariant holds initially ...                                        *)
LEMMA InitLast == Init => LastInv
<1> SUFFICES ASSUME Init PROVE LastInv
  OBVIOUS
<1>1. AllIdle
  BY RestingLocal DEF Init, AllIdle, At
<1>2. With("in_progress") = {}
  BY DEF Init, With
<1> QED BY <1>1, <1>2, AsleepScan DEF Init, LastInv, RowsFirst, CancelSettles, Owned, Closing

(* The services preserve the invariant.                                     *)
LEMMA ServeLast ==
    ASSUME Typed, LastInv, Serve
    PROVE  LastInv'
<1> USE DEF rows, threads, LastInv
<1>0. TypeOK /\ Files # {}
  BY FilesAssumption DEF Typed
<1>1. CASE InsertBatch
  BY <1>1 DEF InsertBatch, RowsFirst, CancelSettles, Owned, Closing, AllIdle, At, With, Responsible
<1>2. CASE InsertFiles
  <2>1. With("in_progress")' = Files /\ creator' = "enqueue"
    BY <1>2 DEF InsertFiles, With
  <2>2. RowsFirst' /\ CancelSettles'
    BY <1>2 DEF InsertFiles, RowsFirst, CancelSettles
  <2>3. Owned' /\ Closing'
    BY <1>0, <2>1 DEF Owned, Closing, Responsible
  <2> QED BY <2>2, <2>3
<1>3. CASE EnqueueFiles
  <2>1. RowsFirst' /\ CancelSettles' /\ Closing'
    BY <1>3 DEF EnqueueFiles, RowsFirst, CancelSettles, Closing, Listed, With
  <2>2. Owned'
    BY <1>3 DEF EnqueueFiles, Owned, Responsible, Listed, With
  <2> QED BY <2>1, <2>2
<1>4. CASE CancelBatch
  BY <1>4 DEF CancelBatch, RowsFirst, CancelSettles, Owned, Closing, AllIdle, At, With, Responsible
<1>5. CASE CancelFiles
  <2>1. batch' # "in_progress" /\ With("in_progress")' = {}
    BY <1>5 DEF CancelFiles, CancelSettles, With
  <2> QED BY <1>5, <2>1 DEF CancelFiles, RowsFirst, CancelSettles, Owned, Closing, AllIdle, At
<1>6. ASSUME NEW f \in Files, DeleteFile(f) PROVE LastInv'
  <2>1. With("in_progress")' \subseteq With("in_progress") /\ Listed' # Files
    BY <1>0, <1>6 DEF DeleteFile, With, Listed, TypeOK
  <2>2. Owned' /\ Closing'
    BY <1>6, <2>1 DEF DeleteFile, Owned, Closing, Responsible
  <2> QED BY <1>6, <2>2 DEF DeleteFile, RowsFirst, CancelSettles, AllIdle, At
<1>7. CASE DeleteStore
  BY <1>7 DEF DeleteStore, RowsFirst, CancelSettles, Owned, Closing, AllIdle, At, With, Listed, Responsible
<1>8. CASE DeleteStoreFiles
  <2>1. With("in_progress")' = {} /\ Listed' # Files
    BY <1>0, <1>8 DEF DeleteStoreFiles, With, Listed
  <2> QED BY <1>8, <2>1 DEF DeleteStoreFiles, RowsFirst, CancelSettles, Owned, Closing, AllIdle, At
<1>9. CASE DeleteStoreRow
  BY <1>9 DEF DeleteStoreRow, RowsFirst, CancelSettles, Owned, Closing, AllIdle, At, With, Listed, Responsible
<1>10. CASE CleanupRetriever
  BY <1>10 DEF CleanupRetriever, RowsFirst, CancelSettles, Owned, Closing, AllIdle, At, With, Listed, Responsible
<1> QED BY <1>1, <1>2, <1>3, <1>4, <1>5, <1>6, <1>7, <1>8, <1>9, <1>10
        DEF Serve, Create, DeleteRest

(* A handler exists only after the rows, so that its steps keep the parts   *)
(* about the beginning and about cancellations.                             *)
LEMMA HandleStarted ==
    ASSUME Typed, LastInv, NEW w \in Workers, Handle(w)
    PROVE  /\ creator \in {"enqueue", "done"}
           /\ RowsFirst' /\ CancelSettles'
<1>1. worker[w].pc # "idle" \/ queue # {}
  BY DEF Handle, TakeTask, MarkFile, Open, Ingest, HandlingFails, RecheckFile, FinishFile, CountFiles, UpdateBatch, At
<1>2. creator \in {"enqueue", "done"} /\ creator' = creator /\ canceller' = canceller
  <2>1. creator \in {"enqueue", "done"}
    BY <1>1 DEF LastInv, RowsFirst, AllIdle, At, Typed, TypeOK
  <2> QED BY <2>1 DEF Handle, TakeTask, MarkFile, Open, Ingest, HandlingFails, RecheckFile, FinishFile,
                     CountFiles, UpdateBatch, rest
<1>3. batch' = batch \/ batch' \in Settled
  BY DEF Handle, TakeTask, MarkFile, Open, Ingest, HandlingFails, RecheckFile, FinishFile, CountFiles,
         UpdateBatch, At, Typed, LocalOK
<1> QED BY <1>2, <1>3 DEF LastInv, RowsFirst, CancelSettles, Settled

(* If the others stay and so do the rows of the files and the queue, a      *)
(* handler that keeps its file and goes on being responsible keeps Owned.   *)
LEMMA MoveOwned ==
    ASSUME Typed, Owned, NEW w \in Workers, NEW p, NEW f, NEW r, Moves(w, p, f, r),
           UNCHANGED <<crashes, creator, queue, file>>,
           \/ f = worker[w].file /\ p \in PC \ {"idle", "count", "batch"}
           \/ worker[w].pc \in {"idle", "count", "batch"}
           \/ worker[w].file \in Files /\ file[worker[w].file] # "in_progress"
    PROVE  Owned'
<1> SUFFICES ASSUME crashes = 0, NEW g \in With("in_progress")
             PROVE  Responsible(g)'
  BY DEF Owned, With
<1>1. Responsible(g)
  BY DEF Owned
<1>2. ASSUME NEW v \in Workers, worker[v].file = g, worker[v].pc \in PC \ {"idle", "count", "batch"}
      PROVE  Responsible(g)'
  <2>1. CASE v = w
    BY <1>2, <2>1 DEF Moves, Responsible, With
  <2>2. CASE v # w
    BY <1>2, <2>2 DEF Moves, Responsible
  <2> QED BY <2>1, <2>2
<1> QED BY <1>1, <1>2 DEF Responsible

(* A handler that does not leave `count' or `batch' keeps Closing.          *)
LEMMA MoveClosing ==
    ASSUME Typed, Closing, NEW w \in Workers, NEW p, NEW f, NEW r, Moves(w, p, f, r),
           UNCHANGED <<crashes, creator, file, batch>>,
           worker[w].pc \in {"count", "batch"} => p \in {"count", "batch"}
    PROVE  Closing'
<1>1. ASSUME NEW v \in Workers, worker[v].pc \in {"count", "batch"}
      PROVE  \E u \in Workers : worker'[u].pc \in {"count", "batch"}
  BY <1>1 DEF Moves
<1> QED BY <1>1 DEF Closing, Listed, With

(* Handlers preserve the invariant.                                         *)
LEMMA HandleLast ==
    ASSUME Typed, LastInv, NEW w \in Workers, Handle(w)
    PROVE  LastInv'
<1> USE DEF rest
<1>0. /\ TypeOK /\ Owned /\ Closing
      /\ worker[w].pc # "idle" => worker[w].file \in Files
      /\ worker[w].pc \in {"recheck", "finish", "batch"} => worker[w].result \in Settled
  BY DEF Typed, LocalOK, LastInv
<1>1. SUFFICES Owned' /\ Closing'
  BY <1>1, HandleStarted DEF LastInv
<1>2. CASE TakeTask(w)
  <2>1. PICK f \in queue : /\ queue' = queue \ {f}
                           /\ IF file[f] = "in_progress"
                                THEN worker' = [worker EXCEPT ![w].pc = "mark", ![w].file = f]
                                ELSE UNCHANGED worker
    BY <1>2 DEF TakeTask
  <2>2. f \in Files /\ worker[w].pc = "idle" /\ UNCHANGED <<crashes, creator, file, batch>>
    BY <1>0, <1>2 DEF TypeOK, TakeTask, At
  <2>3. CASE file[f] # "in_progress"
    BY <1>0, <2>1, <2>2, <2>3 DEF Owned, Closing, Responsible, With, Listed
  <2>4. CASE file[f] = "in_progress"
    <3>1. Moves(w, "mark", f, worker[w].result)
      BY <1>0, <2>1, <2>2, <2>4, TakeMoves
    <3>2. Closing'
      BY <1>0, <2>2, <3>1, MoveClosing
    <3>3. ASSUME crashes = 0, NEW g \in With("in_progress") PROVE Responsible(g)'
      <4>1. CASE g = f
        BY <3>1, <4>1 DEF Moves, Responsible, PC
      <4>2. CASE g # f
        <5>1. Responsible(g)
          BY <1>0, <3>3 DEF Owned
        <5>2. ASSUME NEW v \in Workers, worker[v].file = g, worker[v].pc \in PC \ {"idle", "count", "batch"}
              PROVE  v # w
          BY <5>2, <2>2
        <5> QED BY <2>1, <2>2, <3>1, <4>2, <5>1, <5>2 DEF Moves, Responsible
      <4> QED BY <4>1, <4>2
    <3> QED BY <2>2, <3>2, <3>3 DEF Owned, With
  <2> QED BY <2>3, <2>4
<1>3. CASE MarkFile(w)
  <2>1. /\ worker[w].pc = "mark" /\ ModifyFile(w, "in_progress", "open")
        /\ UNCHANGED <<crashes, creator, queue, batch>>
    BY <1>3 DEF MarkFile, At
  <2>2. CASE file[worker[w].file] = "none"
    <3>1. Moves(w, "idle", "none", "none") /\ file' = file
      BY <2>1, <2>2, ModifyFacts DEF PC, FileStatus
    <3> QED BY <1>0, <2>1, <2>2, <3>1, MoveOwned, MoveClosing
  <2>3. CASE file[worker[w].file] # "none"
    <3>1. /\ Moves(w, "open", worker[w].file, worker[w].result)
          /\ file' = [file EXCEPT ![worker[w].file] = "in_progress"]
      BY <2>1, <2>3, ModifyFacts DEF PC, FileStatus
    <3>2. With("in_progress")' = With("in_progress") \cup {worker[w].file}
      BY <1>0, <2>1, <3>1 DEF With, TypeOK
    <3>3. Closing'
      BY <3>2 DEF Closing
    <3>4. ASSUME crashes = 0, NEW g \in With("in_progress")' PROVE Responsible(g)'
      <4>1. CASE g = worker[w].file
        BY <3>1, <4>1 DEF Moves, Responsible, PC
      <4>2. CASE g # worker[w].file
        <5>1. Responsible(g)
          BY <1>0, <3>2, <3>4, <4>2 DEF Owned
        <5> QED BY <2>1, <3>1, <4>2, <5>1 DEF Moves, Responsible
      <4> QED BY <4>1, <4>2
    <3> QED BY <2>1, <3>3, <3>4 DEF Owned
  <2> QED BY <2>2, <2>3
<1>4. CASE Open(w)
  <2>1. worker[w].pc = "open" /\ Goto(w, "ingest") /\ UNCHANGED <<crashes, creator, queue, file, batch>>
    BY <1>4 DEF Open, At
  <2>2. Moves(w, "ingest", worker[w].file, worker[w].result)
    BY <1>0, <2>1, GotoMoves DEF PC
  <2> QED BY <1>0, <2>1, <2>2, MoveOwned, MoveClosing DEF PC
<1>5. CASE Ingest(w)
  <2>1. /\ worker[w].pc = "ingest" /\ Result(w, "recheck", "completed")
        /\ UNCHANGED <<crashes, creator, queue, file, batch>>
    BY <1>5 DEF Ingest, At
  <2>2. Moves(w, "recheck", worker[w].file, "completed")
    BY <1>0, <2>1, ResultMoves DEF PC, Settled
  <2> QED BY <1>0, <2>1, <2>2, MoveOwned, MoveClosing DEF PC
<1>6. CASE HandlingFails(w)
  <2>1. /\ worker[w].pc \in {"open", "ingest"} /\ Result(w, "recheck", "failed")
        /\ UNCHANGED <<crashes, creator, queue, file, batch>>
    BY <1>6 DEF HandlingFails, At
  <2>2. Moves(w, "recheck", worker[w].file, "failed")
    BY <1>0, <2>1, ResultMoves DEF PC, Settled
  <2> QED BY <1>0, <2>1, <2>2, MoveOwned, MoveClosing DEF PC
<1>7. CASE RecheckFile(w)
  <2>1. /\ worker[w].pc = "recheck"
        /\ IF file[worker[w].file] = "in_progress" THEN Goto(w, "finish") ELSE Leave(w)
        /\ UNCHANGED <<crashes, creator, queue, file, batch>>
    BY <1>7 DEF RecheckFile, At
  <2>2. CASE file[worker[w].file] = "in_progress"
    <3>1. Moves(w, "finish", worker[w].file, worker[w].result)
      BY <1>0, <2>1, <2>2, GotoMoves DEF PC
    <3> QED BY <1>0, <2>1, <3>1, MoveOwned, MoveClosing DEF PC
  <2>3. CASE file[worker[w].file] # "in_progress"
    <3>1. Moves(w, "idle", "none", "none")
      BY <1>0, <2>1, <2>3, LeaveMoves
    <3> QED BY <1>0, <2>1, <2>3, <3>1, MoveOwned, MoveClosing
  <2> QED BY <2>2, <2>3
<1>8. CASE FinishFile(w)
  <2>1. /\ worker[w].pc = "finish" /\ ModifyFile(w, worker[w].result, "count")
        /\ worker[w].result \in Settled /\ worker[w].file \in Files
        /\ UNCHANGED <<crashes, creator, queue, batch>>
    BY <1>0, <1>8 DEF FinishFile, At
  <2>2. CASE file[worker[w].file] = "none"
    <3>1. Moves(w, "idle", "none", "none") /\ file' = file
      BY <2>1, <2>2, ModifyFacts DEF PC, FileStatus, Settled
    <3> QED BY <1>0, <2>1, <2>2, <3>1, MoveOwned, MoveClosing
  <2>3. CASE file[worker[w].file] # "none"
    <3>1. /\ Moves(w, "count", worker[w].file, worker[w].result)
          /\ file' = [file EXCEPT ![worker[w].file] = worker[w].result]
      BY <2>1, <2>3, ModifyFacts DEF PC, FileStatus, Settled
    <3>2. With("in_progress")' = With("in_progress") \ {worker[w].file}
      BY <1>0, <2>1, <3>1 DEF With, TypeOK, Settled
    <3>3. Closing'
      BY <3>1 DEF Closing, Moves
    <3>4. ASSUME crashes = 0, NEW g \in With("in_progress")' PROVE Responsible(g)'
      <4>1. Responsible(g) /\ g # worker[w].file
        BY <1>0, <3>2, <3>4 DEF Owned
      <4> QED BY <2>1, <3>1, <4>1 DEF Moves, Responsible
    <3> QED BY <2>1, <3>3, <3>4 DEF Owned
  <2> QED BY <2>2, <2>3
<1>9. CASE CountFiles(w)
  <2>1. /\ worker[w].pc = "count"
        /\ IF With("in_progress") = {} THEN Result(w, "batch", Verdict) ELSE Leave(w)
        /\ UNCHANGED <<crashes, creator, queue, file, batch>>
    BY <1>9 DEF CountFiles, At
  <2>2. CASE With("in_progress") = {}
    <3>1. Moves(w, "batch", worker[w].file, Verdict)
      BY <1>0, <2>1, <2>2, VerdictSettled, ResultMoves DEF PC
    <3> QED BY <1>0, <2>1, <3>1, MoveOwned, MoveClosing
  <2>3. CASE With("in_progress") # {}
    <3>1. Moves(w, "idle", "none", "none")
      BY <1>0, <2>1, <2>3, LeaveMoves
    <3>2. Owned'
      BY <1>0, <2>1, <3>1, MoveOwned
    <3>3. Closing'
      BY <2>1, <2>3 DEF Closing, With
    <3> QED BY <3>2, <3>3
  <2> QED BY <2>2, <2>3
<1>10. CASE UpdateBatch(w)
  <2>1. /\ worker[w].pc = "batch" /\ Leave(w) /\ batch' = worker[w].result
        /\ UNCHANGED <<crashes, creator, queue, file>>
    BY <1>10 DEF UpdateBatch, At
  <2>2. Moves(w, "idle", "none", "none")
    BY <1>0, <2>1, LeaveMoves
  <2>3. Closing'
    BY <1>0, <2>1 DEF Closing, Settled
  <2> QED BY <1>0, <2>1, <2>2, <2>3, MoveOwned
<1> QED BY <1>2, <1>3, <1>4, <1>5, <1>6, <1>7, <1>8, <1>9, <1>10 DEF Handle

(* ... and every step keeps it.                                             *)
LEMMA NextLast == Typed /\ LastInv /\ [Next]_vars => LastInv'
<1> SUFFICES ASSUME Typed, LastInv, [Next]_vars PROVE LastInv'
  OBVIOUS
<1> USE DEF LastInv
<1>1. CASE Serve
  BY <1>1, ServeLast
<1>2. ASSUME NEW w \in Workers, Handle(w) PROVE LastInv'
  BY <1>2, HandleLast
<1>3. CASE ScanStep
  <2>1. /\ UNCHANGED <<crashes, creator, queue, file, worker, canceller>>
        /\ creator # "start"
    BY <1>3 DEF ScanStep, ScanStart, ScanList, ScanClean, ScanUpdate, unscanned, RowsFirst
  <2>2. batch' = batch \/ batch' # "in_progress"
    BY <1>3 DEF ScanStep, ScanStart, ScanList, ScanClean, ScanUpdate, Typed, TypeOK, Scan, Settled
  <2> QED BY <2>1, <2>2 DEF RowsFirst, CancelSettles, Owned, Closing, Responsible, AllIdle, At, With, Listed
<1>4. CASE Restart
  <2>1. crashes' # 0
    BY <1>4, FilesAssumption DEF Restart, Typed, TypeOK
  <2> QED BY <1>4, <2>1 DEF Restart, RowsFirst, CancelSettles, Owned, Closing
<1>5. CASE UNCHANGED vars
  BY <1>5 DEF vars, rows, threads, RowsFirst, CancelSettles, Owned, Closing, Responsible,
              AllIdle, At, With, Listed
<1> QED BY <1>1, <1>2, <1>3, <1>4, <1>5 DEF Next, Serve, Crash, ScannerThrows

(* When every task is done, nothing crashed and no file was deleted, the    *)
(* batch is not left in progress: FileObjectTaskHandler::Handle counts the  *)
(* files after it has finished its own, and the last to do so sees no other *)
(* in progress.                                                             *)
THEOREM LastOneOut == Spec => []LastHandlerClosesBatch
<1>1. Typed /\ LastInv => LastHandlerClosesBatch
  BY DEF LastInv, Owned, Closing, Responsible, LastHandlerClosesBatch, AllIdle, At
<1> QED BY <1>1, InitTyped, NextTyped, InitLast, NextLast, PTL DEF Spec

-----------------------------------------------------------------------------
(* The steps of a handler, by what they do to the rows.  It takes a task ... *)
Takes(w) ==
    \E f \in queue :
        /\ worker[w].pc = "idle" /\ queue' = queue \ {f}
        /\ UNCHANGED <<file, docs, batch, rest>>
        /\ \/ file[f] = "in_progress" /\ Moves(w, "mark", f, worker[w].result)
           \/ worker' = worker

(* ... writes the row of its file, if it is still there ...                 *)
Writes(w, s) ==
    /\ file[worker[w].file] # "none"
    /\ file' = [file EXCEPT ![worker[w].file] = s]
    /\ UNCHANGED <<queue, docs, batch, rest>>
    /\ \/ worker[w].pc = "mark" /\ s = "in_progress" /\ Moves(w, "open", worker[w].file, worker[w].result)
       \/ worker[w].pc = "finish" /\ s \in Settled /\ Moves(w, "count", worker[w].file, worker[w].result)

(* ... ingests or looks at the row ...                                      *)
Advances(w) ==
    /\ worker[w].pc \in {"open", "ingest", "recheck"}
    /\ UNCHANGED <<queue, file, batch, rest>>
    /\ docs' \subseteq docs \cup {worker[w].file}
    /\ \E p \in {"ingest", "recheck", "finish"}, r \in Settled \cup {"none"} : Moves(w, p, worker[w].file, r)

(* ... finds that it is the one to close the batch ...                      *)
Concludes(w) ==
    /\ worker[w].pc = "count"
    /\ UNCHANGED <<queue, file, docs, batch, rest>>
    /\ Moves(w, "batch", worker[w].file, Verdict)

(* ... or is done, perhaps having closed it.                                *)
Quits(w) ==
    /\ worker[w].pc # "idle" /\ Moves(w, "idle", "none", "none")
    /\ UNCHANGED <<queue, file, docs, rest>>
    /\ batch' = batch \/ (worker[w].pc = "batch" /\ batch' = worker[w].result)

(* Every step of Handle is one of these.                                    *)
LEMMA HandleEffect ==
    ASSUME Typed, NEW w \in Workers, Handle(w)
    PROVE  Takes(w) \/ (\E s \in FileStatus : Writes(w, s)) \/ Advances(w) \/ Concludes(w) \/ Quits(w)
<1>0. /\ TypeOK
      /\ worker[w].pc # "idle" => worker[w].file \in Files
      /\ worker[w].pc \in {"recheck", "finish", "batch"} => worker[w].result \in Settled
      /\ worker[w].result \in Settled \cup {"none"}
  BY DEF Typed, LocalOK, TypeOK, Local
<1>1. CASE TakeTask(w)
  <2>1. PICK f \in queue : /\ queue' = queue \ {f}
                           /\ IF file[f] = "in_progress"
                                 THEN worker' = [worker EXCEPT ![w].pc = "mark", ![w].file = f]
                                 ELSE UNCHANGED worker
    BY <1>1 DEF TakeTask
  <2>2. f \in Files
    BY <1>0 DEF TypeOK
  <2>3. worker[w].pc = "idle" /\ UNCHANGED <<file, docs, batch, rest>>
    BY <1>1 DEF TakeTask, At
  <2>4. file[f] = "in_progress" => Moves(w, "mark", f, worker[w].result)
    BY <1>0, <2>1, <2>2, TakeMoves
  <2>5. Takes(w)
    BY <2>1, <2>3, <2>4 DEF Takes
  <2> QED BY <2>5
<1>2. CASE MarkFile(w)
  <2>1. /\ worker[w].pc = "mark" /\ ModifyFile(w, "in_progress", "open")
        /\ UNCHANGED <<queue, docs, batch, rest>>
    BY <1>2 DEF MarkFile, At
  <2>2. Writes(w, "in_progress") \/ Quits(w)
    BY <2>1, ModifyFacts DEF PC, FileStatus, Writes, Quits
  <2> QED BY <2>2 DEF FileStatus
<1>3. CASE FinishFile(w)
  <2>1. /\ worker[w].pc = "finish" /\ ModifyFile(w, worker[w].result, "count") /\ worker[w].result \in Settled
        /\ UNCHANGED <<queue, docs, batch, rest>>
    BY <1>0, <1>3 DEF FinishFile, At
  <2>2. worker[w].result \in FileStatus
    BY <2>1 DEF Settled, FileStatus
  <2>3. Writes(w, worker[w].result) \/ Quits(w)
    BY <2>1, <2>2, ModifyFacts DEF PC, Writes, Quits
  <2> QED BY <2>2, <2>3
<1>4. CASE Open(w)
  <2>1. Moves(w, "ingest", worker[w].file, worker[w].result)
    BY <1>0, <1>4, GotoMoves DEF Open, PC
  <2> QED BY <1>0, <1>4, <2>1 DEF Open, At, Advances
<1>5. CASE Ingest(w) \/ HandlingFails(w)
  <2>1. \E r \in {"completed", "failed"} : Result(w, "recheck", r)
    BY <1>5 DEF Ingest, HandlingFails
  <2>2. \E r \in Settled : Moves(w, "recheck", worker[w].file, r)
    BY <1>0, <2>1, ResultMoves DEF PC, Settled
  <2>3. /\ worker[w].pc \in {"open", "ingest"} /\ docs' \subseteq docs \cup {worker[w].file}
        /\ UNCHANGED <<queue, file, batch, rest>>
    BY <1>5 DEF Ingest, HandlingFails, At
  <2> QED BY <2>2, <2>3 DEF Advances
<1>6. CASE RecheckFile(w)
  <2>1. /\ worker[w].pc = "recheck" /\ UNCHANGED <<queue, file, docs, batch, rest>>
        /\ Goto(w, "finish") \/ Leave(w)
    BY <1>6 DEF RecheckFile, At
  <2>2. Goto(w, "finish") => Moves(w, "finish", worker[w].file, worker[w].result)
    BY <1>0, GotoMoves DEF PC
  <2>3. Leave(w) => Moves(w, "idle", "none", "none")
    BY <1>0, LeaveMoves
  <2> QED BY <1>0, <2>1, <2>2, <2>3 DEF Advances, Quits
<1>7. CASE CountFiles(w)
  <2>1. /\ worker[w].pc = "count" /\ UNCHANGED <<queue, file, docs, batch, rest>>
        /\ Result(w, "batch", Verdict) \/ Leave(w)
    BY <1>7 DEF CountFiles, At
  <2>2. Result(w, "batch", Verdict) => Moves(w, "batch", worker[w].file, Verdict)
    BY <1>0, VerdictSettled, ResultMoves DEF PC
  <2>3. Leave(w) => Moves(w, "idle", "none", "none")
    BY <1>0, LeaveMoves
  <2> QED BY <2>1, <2>2, <2>3 DEF Concludes, Quits
<1>8. CASE UpdateBatch(w)
  <2>1. Moves(w, "idle", "none", "none")
    BY <1>0, <1>8, LeaveMoves DEF UpdateBatch
  <2> QED BY <1>8, <2>1 DEF UpdateBatch, At, Quits
<1> QED BY <1>1, <1>2, <1>3, <1>4, <1>5, <1>6, <1>7, <1>8 DEF Handle

-----------------------------------------------------------------------------
Finished == {"completed", "failed"}
Untouched == {"mark", "open", "ingest", "recheck", "finish"}

(* A file is one task: queued or with one handler, and not finished before  *)
(* that handler writes its result.                                          *)
OneTask ==
    /\ creator # "done" => queue = {} /\ \A w \in Workers : worker[w].file = "none"
    /\ creator \in {"start", "files"} => \A f \in Files : file[f] = "none"
    /\ \A w \in Workers : worker[w].pc = "idle" => worker[w].file = "none"
    /\ \A v, w \in Workers : worker[v].file = worker[w].file /\ worker[v].file # "none" => v = w
    /\ \A w \in Workers : worker[w].file \notin queue
    /\ \A w \in Workers : worker[w].pc \in Untouched => file[worker[w].file] \notin Finished

(* Initially there is no task.                                              *)
LEMMA InitOneTask == Init => OneTask
  BY RestingLocal, FilesAssumption DEF Init, OneTask, Untouched

(* The services change rows only to cancelled or removed, once created.     *)
LEMMA ServeRows ==
    ASSUME Typed, OneTask, Serve
    PROVE  /\ worker' = worker /\ scanner' = scanner /\ docs' \subseteq docs
           /\ \A f \in Files : \/ file'[f] = file[f] \/ file'[f] = "none"
                               \/ file[f] = "in_progress" /\ file'[f] = "cancelled"
                               \/ creator = "files" /\ file[f] = "none" /\ creator' = "enqueue"
           /\ \/ queue' = queue /\ creator' = creator
              \/ creator = "start" /\ creator' = "files" /\ queue' = queue /\ file' = file
              \/ creator = "files" /\ creator' = "enqueue" /\ queue' = queue
              \/ creator = "enqueue" /\ creator' = "done" /\ queue' \subseteq Files
           /\ batch' \in {batch, "in_progress", "cancelled"}
<1> USE DEF Typed, TypeOK, rows, threads
<1>1. CASE InsertBatch
  BY <1>1 DEF InsertBatch
<1>2. CASE InsertFiles
  BY <1>2 DEF InsertFiles, OneTask
<1>3. CASE EnqueueFiles
  BY <1>3 DEF EnqueueFiles, Listed
<1>4. CASE CancelBatch
  BY <1>4 DEF CancelBatch
<1>5. CASE CancelFiles
  BY <1>5 DEF CancelFiles
<1>6. ASSUME NEW f \in Files, DeleteFile(f)
      PROVE  /\ UNCHANGED <<worker, scanner, docs, queue, creator, batch>>
             /\ \A g \in Files : file'[g] = file[g] \/ file'[g] = "none"
  BY <1>6 DEF DeleteFile
<1>7. CASE DeleteStore
  BY <1>7 DEF DeleteStore
<1>8. CASE DeleteRest
  BY <1>8 DEF DeleteRest, DeleteStoreFiles, DeleteStoreRow, CleanupRetriever
<1> QED BY <1>1, <1>2, <1>3, <1>4, <1>5, <1>6, <1>7, <1>8 DEF Serve, Create

(* A handler that works has a file, and only after the batch was created.   *)
LEMMA HandlerHasFile ==
    ASSUME Typed, OneTask, NEW w \in Workers, worker[w].pc # "idle"
    PROVE  /\ worker[w].file \in Files /\ worker[w].file # "none" /\ creator = "done"
           /\ \A v \in Workers : v # w => worker[v].file # worker[w].file
  BY FilesAssumption DEF Typed, LocalOK, OneTask

(* Handlers take each task once and write only the row of their own file.   *)
LEMMA HandleOneTask ==
    ASSUME Typed, OneTask, NEW w \in Workers, Handle(w)
    PROVE  OneTask'
<1>0. TypeOK /\ file \in [Files -> FileStatus \cup {"none"}] /\ queue \subseteq Files
  BY DEF Typed, TypeOK
<1>1. CASE Takes(w)
  <2>1. PICK f \in queue :
           /\ worker[w].pc = "idle" /\ queue' = queue \ {f}
           /\ UNCHANGED <<file, docs, batch, rest>>
           /\ \/ file[f] = "in_progress" /\ Moves(w, "mark", f, worker[w].result)
              \/ worker' = worker
    BY <1>1 DEF Takes
  <2>2. f \in Files /\ f # "none" /\ creator = "done" /\ creator' = creator
    BY <1>0, <2>1, FilesAssumption DEF OneTask, rest
  <2>3. CASE worker' = worker
    BY <2>1, <2>2, <2>3 DEF OneTask
  <2>4. CASE file[f] = "in_progress" /\ Moves(w, "mark", f, worker[w].result)
    <3>1. /\ worker'[w].pc = "mark" /\ worker'[w].file = f
          /\ \A v \in Workers : v # w => worker'[v] = worker[v] /\ worker[v].file # f
      BY <2>1, <2>4 DEF Moves, OneTask
    <3> QED BY <2>1, <2>2, <2>4, <3>1 DEF OneTask, Finished
  <2> QED BY <2>1, <2>3, <2>4
<1>2. ASSUME worker[w].pc # "idle", queue' = queue, creator' = creator, file' = file,
             NEW p, NEW r, Moves(w, p, worker[w].file, r), p # "idle",
             p \in Untouched => worker[w].pc \in Untouched
      PROVE  OneTask'
  <2>1. /\ worker'[w].pc = p /\ worker'[w].file = worker[w].file
        /\ \A v \in Workers : v # w => worker'[v] = worker[v]
    BY <1>2 DEF Moves
  <2>2. worker[w].file \in Files /\ worker[w].file # "none" /\ creator = "done"
    BY <1>2, HandlerHasFile
  <2> QED BY <1>2, <2>1, <2>2 DEF OneTask
<1>3. ASSUME NEW s \in FileStatus, Writes(w, s) PROVE OneTask'
  <2>1. worker[w].pc # "idle" /\ queue' = queue /\ creator' = creator
    BY <1>3 DEF Writes, rest
  <2>2. /\ worker[w].file \in Files /\ worker[w].file # "none" /\ creator = "done"
        /\ \A v \in Workers : v # w => worker[v].file # worker[w].file
    BY <2>1, HandlerHasFile
  <2>3. /\ file'[worker[w].file] = s
        /\ \A f \in Files : f # worker[w].file => file'[f] = file[f]
    BY <1>0, <1>3, <2>2 DEF Writes
  <2>4. PICK p \in {"open", "count"} :
           /\ worker'[w].pc = p /\ worker'[w].file = worker[w].file
           /\ \A v \in Workers : v # w => worker'[v] = worker[v]
           /\ p = "open" => s = "in_progress"
    BY <1>3 DEF Writes, Moves
  <2>5. \A v \in Workers : worker[v].pc \in Untouched => worker[v].file \in Files
    BY DEF Typed, LocalOK, Untouched
  <2>6. \A v \in Workers : worker'[v].pc \in Untouched => file'[worker'[v].file] \notin Finished
    BY <2>2, <2>3, <2>4, <2>5 DEF OneTask, Untouched, Finished
  <2> QED BY <2>1, <2>2, <2>4, <2>6 DEF OneTask
<1>4. CASE Advances(w)
  <2>1. PICK p \in {"ingest", "recheck", "finish"}, r \in Settled \cup {"none"} : Moves(w, p, worker[w].file, r)
    BY <1>4 DEF Advances
  <2>2. /\ worker[w].pc \in Untouched /\ worker[w].pc # "idle"
        /\ queue' = queue /\ creator' = creator /\ file' = file
    BY <1>4 DEF Advances, rest, Untouched
  <2> QED BY <1>2, <2>1, <2>2
<1>5. CASE Concludes(w)
  <2>1. /\ worker[w].pc # "idle" /\ Moves(w, "batch", worker[w].file, Verdict)
        /\ queue' = queue /\ creator' = creator /\ file' = file
    BY <1>5 DEF Concludes, rest
  <2>2. "batch" \notin Untouched
    BY DEF Untouched
  <2> QED BY <1>2, <2>1, <2>2
<1>6. CASE Quits(w)
  <2>1. /\ worker'[w].pc = "idle" /\ worker'[w].file = "none" /\ queue' = queue /\ creator' = creator /\ file' = file
        /\ \A v \in Workers : v # w => worker'[v] = worker[v]
    BY <1>6 DEF Quits, Moves, rest
  <2>2. "none" \notin queue /\ "idle" \notin Untouched
    BY <1>0, FilesAssumption DEF Untouched
  <2> QED BY <2>1, <2>2 DEF OneTask
<1> QED BY <1>1, <1>3, <1>4, <1>5, <1>6, HandleEffect

(* Every step keeps a file one task.                                        *)
LEMMA NextOneTask == Typed /\ OneTask /\ [Next]_vars => OneTask'
<1> SUFFICES ASSUME Typed, OneTask, [Next]_vars PROVE OneTask'
  OBVIOUS
<1>1. CASE Serve
  <2>1. \A w \in Workers : worker[w].pc \in Untouched => worker[w].file \in Files
    BY DEF Typed, LocalOK, Untouched
  <2>2. \A w \in Workers : worker[w].pc \in Untouched => creator = "done"
    BY <2>1, FilesAssumption DEF OneTask
  <2>3. "none" \notin queue'
    BY <1>1, ServeRows, FilesAssumption DEF Typed, TypeOK
  <2>4. /\ worker' = worker
        /\ \A f \in Files : \/ file'[f] = file[f] \/ file'[f] = "none"
                            \/ file[f] = "in_progress" /\ file'[f] = "cancelled"
                            \/ creator = "files" /\ file[f] = "none" /\ creator' = "enqueue"
        /\ \/ queue' = queue /\ creator' = creator
           \/ creator = "start" /\ creator' = "files" /\ queue' = queue /\ file' = file
           \/ creator = "files" /\ creator' = "enqueue" /\ queue' = queue
           \/ creator = "enqueue" /\ creator' = "done" /\ queue' \subseteq Files
    BY <1>1, ServeRows
  <2>5. creator' \in {"start", "files"} => \A f \in Files : file'[f] = "none"
    BY <2>4 DEF OneTask
  <2>6. \A w \in Workers : worker'[w].pc \in Untouched => file'[worker'[w].file] \notin Finished
    BY <2>1, <2>2, <2>4 DEF OneTask, Finished
  <2>7. \A w \in Workers : worker'[w].file \notin queue'
    BY <2>3, <2>4 DEF OneTask
  <2>8. creator' # "done" => queue' = {} /\ \A w \in Workers : worker'[w].file = "none"
    BY <2>4 DEF OneTask
  <2> QED BY <2>4, <2>5, <2>6, <2>7, <2>8 DEF OneTask
<1>2. ASSUME NEW w \in Workers, Handle(w) PROVE OneTask'
  BY <1>2, HandleOneTask
<1>3. CASE ScanStep
  BY <1>3 DEF ScanStep, ScanStart, ScanList, ScanClean, ScanUpdate, unscanned, OneTask
<1>4. CASE Restart
  BY <1>4, RestingLocal DEF Restart, OneTask, Untouched
<1>5. CASE UNCHANGED vars
  BY <1>5 DEF vars, rows, threads, OneTask
<1> QED BY <1>1, <1>2, <1>3, <1>4, <1>5 DEF Next, Serve, Crash, ScannerThrows

(* Only the handler of a file in progress or cancelled writes its row.      *)
LEMMA HandleRows ==
    ASSUME Typed, OneTask, NEW w \in Workers, Handle(w)
    PROVE  /\ \A f \in Files : file'[f] # file[f] => /\ worker[w].file = f /\ file[f] # "none"
                                                     /\ file[f] \notin Finished
           /\ docs' \subseteq docs \cup {worker[w].file}
<1>1. ASSUME file' = file, docs' \subseteq docs \cup {worker[w].file}
      PROVE  /\ \A f \in Files : file'[f] = file[f]
             /\ docs' \subseteq docs \cup {worker[w].file}
  BY <1>1
<1>2. CASE Takes(w) \/ Advances(w) \/ Concludes(w) \/ Quits(w)
  BY <1>1, <1>2 DEF Takes, Advances, Concludes, Quits
<1>3. ASSUME NEW s \in FileStatus, Writes(w, s)
      PROVE  /\ \A f \in Files : file'[f] # file[f] => /\ worker[w].file = f /\ file[f] # "none"
                                                       /\ file[f] \notin Finished
             /\ docs' = docs
  <2>1. worker[w].pc \in Untouched /\ file[worker[w].file] # "none"
    BY <1>3 DEF Writes, Untouched
  <2>2. file[worker[w].file] \notin Finished
    BY <2>1 DEF OneTask
  <2>3. \A f \in Files : f # worker[w].file => file'[f] = file[f]
    BY <1>3 DEF Writes, Typed, TypeOK
  <2> QED BY <1>3, <2>1, <2>2, <2>3 DEF Writes
<1> QED BY <1>2, <1>3, HandleEffect

(* A finished file is not touched again, by another handler of any number   *)
(* of consumers, by a cancellation or after a restart; only its deletion    *)
(* removes it.                                                              *)
THEOREM FinishedIsFinal == Spec => FinishedFileIsFinal
<1>1. Typed /\ OneTask /\ [Next]_vars
        => [\A f \in Files : file[f] \in {"completed", "failed"} => file'[f] \in {file[f], "none"}]_file
  <2> SUFFICES ASSUME Typed, OneTask, Next, NEW f \in Files, file[f] \in Finished
               PROVE  file'[f] \in {file[f], "none"}
    BY DEF vars, rows, Finished
  <2>1. CASE Serve
    <3>1. \/ file'[f] = file[f] \/ file'[f] = "none"
          \/ file[f] = "in_progress" \/ file[f] = "none"
      BY <2>1, ServeRows
    <3> QED BY <3>1 DEF Finished
  <2>2. ASSUME NEW w \in Workers, Handle(w) PROVE file'[f] = file[f]
    BY <2>2, HandleRows
  <2>3. CASE ScanStep \/ Restart
    BY <2>3 DEF ScanStep, ScanStart, ScanList, ScanClean, ScanUpdate, unscanned, Restart
  <2> QED BY <2>1, <2>2, <2>3 DEF Next, Serve, Crash, ScannerThrows
<1> QED BY <1>1, InitTyped, NextTyped, InitOneTask, NextOneTask, PTL DEF Spec, FinishedFileIsFinal

(* A file cancelled before a handler has started on it is never worked on,  *)
(* whatever is still queued, for any number of consumers.                   *)
THEOREM CancelledIsKept == Spec => CancelledBeforeStartIsKept
<1>1. Typed /\ OneTask /\ [Next]_vars
        => [\A f \in Files :
              file[f] = "cancelled" /\ (\A w \in Workers : worker[w].file # f)
                 => /\ file'[f] \in {"cancelled", "none"} /\ (f \in docs' => f \in docs)
                    /\ \A w \in Workers : worker'[w].file # f]_<<file, docs, worker>>
  <2> SUFFICES ASSUME Typed, OneTask, Next, NEW f \in Files, file[f] = "cancelled",
                      \A w \in Workers : worker[w].file # f
               PROVE  /\ file'[f] \in {"cancelled", "none"} /\ (f \in docs' => f \in docs)
                      /\ \A w \in Workers : worker'[w].file # f
    BY DEF vars, rows, threads
  <2>1. CASE Serve
    <3>1. \/ file'[f] = file[f] \/ file'[f] = "none"
          \/ file[f] = "in_progress" \/ file[f] = "none"
      BY <2>1, ServeRows
    <3>2. worker' = worker /\ docs' \subseteq docs
      BY <2>1, ServeRows
    <3> QED BY <3>1, <3>2
  <2>2. ASSUME NEW w \in Workers, Handle(w)
        PROVE  /\ file'[f] = "cancelled" /\ (f \in docs' => f \in docs)
               /\ \A v \in Workers : worker'[v].file # f
    <3>1. file'[f] = "cancelled" /\ (f \in docs' => f \in docs)
      BY <2>2, HandleRows
    <3>2. \A v \in Workers : worker'[v].file # f
      <4>1. \A g, p, r : Moves(w, p, g, r) /\ g # f => \A v \in Workers : worker'[v].file # f
        BY DEF Moves
      <4>2. f # "none"
        BY FilesAssumption
      <4>3. \A s \in FileStatus : Writes(w, s) => \E p, r : Moves(w, p, worker[w].file, r)
        BY DEF Writes
      <4>4. Takes(w) => worker' = worker \/ \E g, p, r : Moves(w, p, g, r) /\ g # f
        BY DEF Takes
      <4>5. Advances(w) \/ Concludes(w) => \E p, r : Moves(w, p, worker[w].file, r)
        BY DEF Advances, Concludes
      <4>6. Quits(w) => Moves(w, "idle", "none", "none")
        BY DEF Quits
      <4> QED BY <2>2, <4>1, <4>2, <4>3, <4>4, <4>5, <4>6, HandleEffect
    <3> QED BY <3>1, <3>2
  <2>3. CASE ScanStep
    BY <2>3 DEF ScanStep, ScanStart, ScanList, ScanClean, ScanUpdate, unscanned
  <2>4. CASE Restart /\ docs' \subseteq docs
    BY <2>4, RestingLocal, FilesAssumption DEF Restart
  <2> QED BY <2>1, <2>2, <2>3, <2>4 DEF Next, Serve, Crash, ScannerThrows
<1> QED BY <1>1, InitTyped, NextTyped, InitOneTask, NextOneTask, PTL DEF Spec, CancelledBeforeStartIsKept

-----------------------------------------------------------------------------
Cause == \E f \in Files : file[f] \in {"failed", "none"}

(* Somebody calls the batch failed or is about to: a handler that counted,  *)
(* or a scan that has made up its mind.                                     *)
Blaming == \/ batch = "failed" \/ scanner.verdict = "failed"
           \/ \E w \in Workers : worker[w].pc = "batch" /\ worker[w].result = "failed"

CauseInv == Blaming => creator \notin {"start", "files"} /\ Cause

(* Once the files are inserted a cause does not go away.                    *)
LEMMA CauseStays ==
    ASSUME Typed, OneTask, Next, creator \notin {"start", "files"}, Cause
    PROVE  creator' \notin {"start", "files"} /\ Cause'
<1>1. PICK f \in Files : file[f] \in {"failed", "none"}
  BY DEF Cause
<1>2. CASE Serve
  <2>1. /\ \/ file'[f] = file[f] \/ file'[f] = "none"
           \/ file[f] = "in_progress"
        /\ creator' \in {creator, "done"}
    BY <1>2, ServeRows
  <2> QED BY <1>1, <2>1 DEF Cause
<1>3. ASSUME NEW w \in Workers, Handle(w) PROVE file'[f] = file[f] /\ creator' = creator
  <2>1. creator' = creator
    BY <1>3, HandleEffect DEF Takes, Writes, Advances, Concludes, Quits, rest
  <2> QED BY <1>1, <1>3, <2>1, HandleRows DEF Finished
<1>4. CASE ScanStep \/ Restart
  <2>1. file' = file /\ creator' \in {creator, "done"}
    BY <1>4 DEF ScanStep, ScanStart, ScanList, ScanClean, ScanUpdate, unscanned, Restart
  <2> QED BY <1>1, <2>1 DEF Cause
<1> QED BY <1>1, <1>2, <1>3, <1>4 DEF Next, Serve, Crash, ScannerThrows, Cause

(* A step that lays new blame has seen a failed file.                       *)
LEMMA BlameHasCause ==
    ASSUME Typed, OneTask, Next, ~Blaming, Blaming'
    PROVE  creator \notin {"start", "files"} /\ Cause
<1>0. TypeOK /\ batch # "failed" /\ scanner.verdict # "failed" /\ scanner \in Scan
  BY DEF Blaming, Typed, TypeOK
<1>1. ASSUME NEW f \in Files, file[f] = "failed" PROVE creator \notin {"start", "files"} /\ Cause
  BY <1>1 DEF OneTask, Cause
<1>2. CASE Serve
  <2>1. UNCHANGED <<worker, scanner>> /\ batch' # "failed"
    BY <1>0, <1>2, ServeRows
  <2> QED BY <2>1 DEF Blaming
<1>3. ASSUME NEW w \in Workers, Handle(w) PROVE \E f \in Files : file[f] = "failed"
  <2>1. scanner' = scanner
    BY <1>3, HandleEffect DEF Takes, Writes, Advances, Concludes, Quits, rest
  <2>2. batch' # "failed"
    <3>1. Quits(w) => batch' # "failed"
      BY <1>0 DEF Quits, Blaming
    <3> QED BY <1>0, <1>3, <3>1, HandleEffect DEF Takes, Writes, Advances, Concludes
  <2>3. PICK v \in Workers : worker'[v].pc = "batch" /\ worker'[v].result = "failed"
    BY <1>0, <2>1, <2>2 DEF Blaming
  <2>4. worker'[v] # worker[v]
    BY <2>3 DEF Blaming
  <2>5. Concludes(w) /\ v = w
    BY <1>3, <2>3, <2>4, HandleEffect DEF Takes, Writes, Advances, Quits, Concludes, Moves
  <2>6. Verdict = "failed"
    BY <2>3, <2>5 DEF Concludes, Moves
  <2>7. With("failed") # {}
    BY <2>6 DEF Verdict
  <2> QED BY <2>7 DEF With
<1>4. CASE ScanList
  <2>1. PICK page \in SUBSET Listed, verdict \in Settled \cup {"none"} :
           /\ ScanVerdict(page, verdict) /\ scanner'.verdict = verdict
           /\ batch' = batch /\ worker' = worker
    BY <1>4 DEF ScanList, unscanned
  <2>2. verdict = "failed"
    BY <1>0, <2>1 DEF Blaming
  <2>3. \E f \in page : file[f] = "failed"
    BY <2>1, <2>2 DEF ScanVerdict
  <2> QED BY <1>1, <2>3 DEF Listed
<1>5. CASE ScanStart \/ ScanClean \/ ScanUpdate
  <2>1. scanner'.verdict # "failed" /\ worker' = worker
    BY <1>0, <1>5 DEF ScanStart, ScanClean, ScanUpdate, Asleep, Scan, unscanned
  <2>2. batch' # "failed"
    BY <1>0, <1>5 DEF ScanStart, ScanClean, ScanUpdate
  <2> QED BY <2>1, <2>2 DEF Blaming
<1>6. CASE Restart
  <2>1. scanner'.verdict # "failed" /\ batch' # "failed" /\ \A w \in Workers : worker'[w].pc # "batch"
    BY <1>0, <1>6, RestingLocal DEF Restart, Asleep
  <2> QED BY <2>1 DEF Blaming
<1> QED BY <1>1, <1>2, <1>3, <1>4, <1>5, <1>6 DEF Next, Serve, ScanStep, Crash, ScannerThrows

(* A batch is called failed, by a handler or by a scan, only if one of its  *)
(* files failed, or could have before it was deleted: for any number of     *)
(* files and consumers and any page size of the scan.                       *)
THEOREM FailureCause == Spec => []FailureHasCause
<1>1. Init => CauseInv
  BY RestingLocal DEF Init, CauseInv, Blaming, Asleep
<1>2. Typed /\ OneTask /\ CauseInv /\ [Next]_vars => CauseInv'
  <2> SUFFICES ASSUME Typed, OneTask, CauseInv, [Next]_vars PROVE CauseInv'
    OBVIOUS
  <2>1. CASE UNCHANGED vars
    BY <2>1 DEF vars, rows, threads, CauseInv, Blaming, Cause
  <2>2. CASE Next
    <3>1. SUFFICES ASSUME Blaming' PROVE creator \notin {"start", "files"} /\ Cause
      BY <2>2, CauseStays DEF CauseInv
    <3>2. CASE Blaming
      BY <3>2 DEF CauseInv
    <3>3. CASE ~Blaming
      BY <2>2, <3>1, <3>3, BlameHasCause
    <3> QED BY <3>2, <3>3
  <2> QED BY <2>1, <2>2
<1>3. CauseInv => FailureHasCause
  BY DEF CauseInv, Blaming, Cause, FailureHasCause
<1> QED BY <1>1, <1>2, <1>3, InitTyped, NextTyped, InitOneTask, NextOneTask, PTL DEF Spec

=============================================================================
