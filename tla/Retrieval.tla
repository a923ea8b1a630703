------------------------------- MODULE Retrieval -------------------------------
(***************************************************************************)
(* Retrievers over DuckDB: one document store that all vector stores share, *)
(* and an embedding table and a metadata row per vector store.  Threads     *)
(* provision and remove an instance, ingest a file, remove a file and       *)
(* search.  Every statement (or transaction) is one step; there is no       *)
(* transaction around them.                                                 *)
(***************************************************************************)
EXTENDS Integers, Sequences, SequencesExt, FiniteSets

CONSTANTS
    Stores,         \* ids of vector stores
    Provisioned,    \* the stores that exist at the start
    Files,          \* ids of files
    Threads,        \* threads that call the retriever operator
    Format,         \* the extension of each file
    Content,        \* the pages of each file, each of them some paragraphs
    PageParagraphs, \* paragraphs of a DOCX that make a document (20)
    BatchSize,      \* documents that are inserted together (50)
    Guidances,      \* per store, the kinds of retrievers that are used on it
    MaxQueries,     \* bound on the queries a model generates for a document
    TopKs,          \* the result limits that searches ask for
    DefaultLimit,   \* the limit of a search that asks for none (10)
    MaxLimit,       \* the largest limit of a search (10000)
    FilterLimit,    \* a search with a filter must stay below this limit (1000)
    MaxOps,         \* bound on the operations of a behaviour
    MaxCrashes      \* bound on the crashes of the process

ASSUME RetrievalAssumption ==
    /\ PageParagraphs \in Nat \ {0} /\ BatchSize \in Nat \ {0}
    /\ Guidances \in [Stores -> SUBSET {"chunks", "summary", "queries"}]
    /\ Provisioned \subseteq Stores
    /\ Content \in [Files -> Seq(Seq(STRING))]
    /\ MaxQueries \in Nat /\ TopKs \subseteq Int
    /\ DefaultLimit \in Nat \ {0} /\ MaxLimit \in Nat \ {0} /\ FilterLimit \in Nat
    /\ MaxOps \in Nat /\ MaxCrashes \in Nat

VARIABLES
    docs,       \* rows of the document store
    tables,     \* the embedding tables that exist
    chunks,     \* rows of the embedding tables, each with its table
    meta,       \* instances with a metadata row
    nextId,     \* the next document id
    known,      \* ids that were given to a store
    thread,     \* what each thread does
    ingested,   \* files whose ingestion succeeded, with the ids of their documents
    removed,    \* <<store, file>> pairs removed after they were last ingested
    halfRemoved,\* instances whose removal was cut by a crash
    silent,     \* <<store, document>> pairs for which nothing was there to embed
    ops, crashes

vars == <<docs, tables, chunks, meta, nextId, known, thread, ingested, removed, halfRemoved,
          silent, ops, crashes>>

stores == <<docs, tables, chunks, meta, nextId>>
history == <<ingested, removed, halfRemoved>>
bounds == <<known, silent, ops, crashes>>

-----------------------------------------------------------------------------
(* Document metadata is a list of named values; a name may occur twice.      *)

Field(name, value) == <<name, value>>

AddPresetMetadataFields(metadata, parent, page, source, start, end) ==
    metadata \o << Field("parent_doc_id", parent), Field("page_no", page),
                   Field("file_source", source), Field("start", start), Field("end", end) >>

Places(metadata, name) == {i \in DOMAIN metadata : metadata[i][1] = name}

\* Reading a field of a document takes the first one of that name.
GetMetadataField(metadata, name) ==
    metadata[CHOOSE i \in Places(metadata, name) : \A j \in Places(metadata, name) : i <= j][2]

\* Mutant: the index of a name is kept when the name comes again.
ColumnFirst(metadata, name) == GetMetadataField(metadata, name)

\* Writing a row takes the last one: a later field replaces an earlier index.
Column(metadata, name) ==
    metadata[CHOOSE i \in Places(metadata, name) : \A j \in Places(metadata, name) : i >= j][2]

PresetSchema == {"parent_doc_id", "page_no", "file_source", "start", "end"}
DocStoreSchema == PresetSchema \cup {"vs_id"}

\* A document that lacks a field of the schema leaves an unfinished row in the
\* appender, and the whole insertion is rolled back.
Insertable(batch, schema) ==
    \A i \in DOMAIN batch : \A name \in schema : Places(batch[i].metadata, name) # {}

-----------------------------------------------------------------------------
(* Ingestors.  A page is a sequence of paragraphs, each "blank" or text.     *)

RootDocId == 0

Blank(text) == \A i \in DOMAIN text : text[i] = "blank"

NewDocument(text, page, source, store) ==
    [text |-> text, metadata |-> AddPresetMetadataFields(<<>>, RootDocId, page, source, 0, 0)
                                     \o <<Field("vs_id", store)>>]

\* The elements of a sequence at some places, in order.
Selected(s, places) == FlattenSeq([i \in DOMAIN s |-> IF i \in places THEN <<s[i]>> ELSE <<>>])

\* A plain text file is one document.
LoadText(file, store) == <<NewDocument(FlattenSeq(Content[file]), 1, file, store)>>

\* A PDF file is one document per page.
LoadPdf(file, store) ==
    [i \in DOMAIN Content[file] |-> NewDocument(Content[file][i], i, file, store)]

\* A DOCX file has no pages: every PageParagraphs paragraphs, and the rest, are
\* a document.  Blank ones are left out and the page numbers count the others.
LoadDocx(file, store) ==
    LET all == FlattenSeq(Content[file])
        n == Len(all)
        groups == [g \in 1..(n + PageParagraphs - 1) \div PageParagraphs |->
                     SubSeq(all, (g - 1) * PageParagraphs + 1,
                            IF g * PageParagraphs < n THEN g * PageParagraphs ELSE n)]
        kept == Selected(groups, {g \in DOMAIN groups : ~ Blank(groups[g])})
    IN  [i \in DOMAIN kept |-> NewDocument(kept[i], i, file, store)]

\* The extension chooses the ingestor; there is none for other files.
CanIngest(file) == Format[file] \in {"pdf", "txt", "md", "docx"}

Load(file, store) ==
    CASE Format[file] = "pdf" -> LoadPdf(file, store)
      [] Format[file] \in {"txt", "md"} -> LoadText(file, store)
      [] Format[file] = "docx" -> LoadDocx(file, store)

\* SplitDocuments: a chunk per paragraph that is not blank, with the metadata
\* of its document and its place in it.
SplitDocuments(documents) ==
    LET split(d) ==
          LET text == Selected(d.text, {i \in DOMAIN d.text : d.text[i] # "blank"})
          IN  [i \in DOMAIN text |->
                 [text |-> <<text[i]>>,
                  metadata |-> d.metadata \o <<Field("start", i), Field("end", i + 1)>>]]
    IN  FlattenSeq([i \in DOMAIN documents |-> split(documents[i])])

\* What ingestion relies on of a document: some text, and metadata that names
\* its file and its store, whichever way it is read.
IngestedDocument(doc, file, store) ==
    /\ DOMAIN doc.text # {}
    /\ doc.metadata \in Seq(ToSet(doc.metadata))
    /\ GetMetadataField(doc.metadata, "file_source") = file
    /\ Column(doc.metadata, "file_source") = file
    /\ Column(doc.metadata, "vs_id") = store

\* Loading and splitting a file yields such documents.
SplitsKeepOrigin ==
    \A file \in Files, store \in Stores : CanIngest(file) =>
        LET documents == SplitDocuments(Load(file, store))
        IN  /\ documents \in Seq(ToSet(documents))
            /\ \A d \in ToSet(documents) : IngestedDocument(d, file, store)

-----------------------------------------------------------------------------
(* Guidance documents: what is embedded for a document of the store.         *)

\* A chunk copies the metadata of its document and then appends its own.
SplitChildDoc(doc) ==
    [i \in DOMAIN doc.text |->
        [text |-> <<doc.text[i]>>,
         metadata |-> AddPresetMetadataFields(doc.metadata, doc.id, i,
                          GetMetadataField(doc.metadata, "file_source"), i, i + 1)]]

SummaryDoc(doc) ==
    <<[text |-> <<"summary">>,
       metadata |-> AddPresetMetadataFields(<<>>, doc.id, 0,
                        GetMetadataField(doc.metadata, "file_source"), 0, 0)]>>

\* One document for each line of the answer that is not blank: maybe none.
QueryDocs(doc, n) ==
    [i \in 1..n |->
        [text |-> <<"query">>,
         metadata |-> AddPresetMetadataFields(<<>>, doc.id, i - 1,
                          GetMetadataField(doc.metadata, "file_source"), 0, 0)]]

\* What may be embedded for a document.
Guidance(kind, doc) ==
    CASE kind = "chunks" -> {SplitChildDoc(doc)}
      [] kind = "summary" -> {SummaryDoc(doc)}
      [] kind = "queries" -> {QueryDocs(doc, n) : n \in 0..MaxQueries}

-----------------------------------------------------------------------------
(* Threads.                                                                  *)

Idle == [op |-> "idle", at |-> "-", store |-> "-", file |-> "-", guidance |-> "-",
         input |-> <<>>, batch |-> <<>>, ids |-> {}, paths |-> {}, alone |-> TRUE]

At(t, at) == thread[t].at = at
GoTo(t, at) == thread' = [thread EXCEPT ![t].at = at]
Fail(t) == thread' = [thread EXCEPT ![t] = Idle]

\* What a removal takes back: a file of all stores, as the document store is
\* shared and the file id is all it asks for, or all files of a store.
Destroys(x, store, file) ==
    (x.op = "remove" /\ x.file = file) \/ (x.op = "cleanup" /\ x.store = store)
Adds(x, me) ==
    x.op = "ingest" /\ x.store = me.store /\ (me.op = "remove" => x.file = me.file)

\* Operation x overlaps me in a way that me cannot be expected to hold.
Spoils(x, me) == \/ me.op = "ingest" /\ Destroys(x, me.store, me.file)
                 \/ me.op \in {"remove", "cleanup"} /\ Adds(x, me)

Launch(t, me) ==
    /\ thread[t] = Idle /\ ops < MaxOps
    /\ ops' = ops + 1
    /\ thread' = [u \in Threads |->
          IF u = t THEN [me EXCEPT !.alone = \A v \in Threads : ~ Spoils(thread[v], me)]
          ELSE [thread[u] EXCEPT !.alone = @ /\ ~ Spoils(me, thread[u])]]
    /\ ingested' = {r \in ingested : ~ Destroys(me, r.store, r.file)}
    /\ removed' = {r \in removed : ~ (me.op = "ingest" /\ r = <<me.store, me.file>>)}
    /\ known' = known \cup (IF me.op = "provision" THEN {me.store} ELSE {})
    /\ UNCHANGED <<stores, halfRemoved, silent, crashes>>

\* CreateVectorStore: the id of the store is new.
StartProvision(t, store) ==
    /\ store \notin known
    /\ Launch(t, [Idle EXCEPT !.op = "provision", !.at = "getInstance", !.store = store])

StartIngest(t, store, file, guidance) ==
    /\ CanIngest(file)
    /\ Launch(t, [Idle EXCEPT !.op = "ingest", !.at = "load", !.store = store, !.file = file,
                              !.guidance = guidance, !.paths = {store},
                              !.input = SplitDocuments(Load(file, store))])

\* The background scan removes the documents of failed and cancelled files.
StartRemove(t, store, file) ==
    Launch(t, [Idle EXCEPT !.op = "remove", !.at = "load", !.store = store, !.file = file,
                           !.paths = {store}])

StartCleanup(t, store) ==
    Launch(t, [Idle EXCEPT !.op = "cleanup", !.at = "deleteDocs", !.store = store,
                           !.paths = {store}])

\* A search over the stores of an assistant and of a thread.
StartSearch(t, some) ==
    Launch(t, [Idle EXCEPT !.op = "search", !.at = "load", !.paths = some])

-----------------------------------------------------------------------------
(* The instances of the vector store operator.                               *)

\* Mutant: the metadata row is inserted before the table is created.
GetInstanceThenRow(t) ==
    LET store == thread[t].store
    IN  /\ At(t, "getInstance")
        /\ IF store \in meta THEN Fail(t) /\ UNCHANGED meta
           ELSE meta' = meta \cup {store} /\ GoTo(t, "createTable")
        /\ UNCHANGED <<docs, tables, chunks, nextId, history, bounds>>

\* CreateInstance: the instance must be unknown,
GetInstance(t) ==
    /\ At(t, "getInstance")
    /\ IF thread[t].store \in meta THEN Fail(t) ELSE GoTo(t, "createTable")
    /\ UNCHANGED <<stores, history, bounds>>

\* then the store creates its table if it is not there,
CreateTable(t) ==
    /\ At(t, "createTable")
    /\ tables' = tables \cup {thread[t].store}
    /\ GoTo(t, "insertInstance")
    /\ UNCHANGED <<docs, chunks, meta, nextId, history, bounds>>

\* and the metadata row, whose key is the instance, comes last.
InsertInstance(t) ==
    /\ At(t, "insertInstance")
    /\ meta' = meta \cup {thread[t].store}
    /\ Fail(t)
    /\ UNCHANGED <<docs, tables, chunks, nextId, history, bounds>>

\* LoadInstance of every store the operation needs: without a metadata row it
\* fails, but a removal goes on with the row it does not find.
LoadInstance(t) ==
    LET me == thread[t]
    IN  /\ At(t, "load")
        /\ IF me.paths \subseteq meta THEN GoTo(t, "open")
           ELSE IF me.op = "cleanup" THEN GoTo(t, "removeRow")
           ELSE Fail(t)
        /\ UNCHANGED <<stores, history, bounds>>

\* The store prepares statements on its table, which must exist.
AfterOpen == [ingest |-> "addParents", remove |-> "deleteParents", cleanup |-> "drop",
              search |-> "search"]
OpenStore(t) ==
    LET me == thread[t]
    IN  /\ At(t, "open")
        /\ IF me.paths \subseteq tables THEN GoTo(t, AfterOpen[me.op]) ELSE Fail(t)
        /\ UNCHANGED <<stores, history, bounds>>

\* CleanupRetriever deletes the documents of the store first.
CleanupDocs(t) ==
    /\ At(t, "deleteDocs")
    /\ docs' = {d \in docs : d.vs # thread[t].store}
    /\ GoTo(t, "load")
    /\ UNCHANGED <<tables, chunks, meta, nextId, history, bounds>>

\* Destroy; a failing drop is ignored.
DropTable(t) ==
    /\ At(t, "drop")
    /\ tables' = tables \ {thread[t].store}
    /\ chunks' = {c \in chunks : c.table # thread[t].store}
    /\ GoTo(t, "removeRow")
    /\ UNCHANGED <<docs, meta, nextId, history, bounds>>

\* The removal succeeded if it deleted the one row.
RemoveInstance(t) ==
    LET me == thread[t]
    IN  /\ At(t, "removeRow")
        /\ meta' = meta \ {me.store}
        /\ removed' = IF me.alone /\ me.store \in meta THEN removed \cup ({me.store} \X Files) ELSE removed
        /\ Fail(t)
        /\ UNCHANGED <<docs, tables, chunks, nextId, ingested, halfRemoved, bounds>>

-----------------------------------------------------------------------------
(* MultiVectorRetriever.                                                     *)

WithId(doc, id) == [text |-> doc.text, metadata |-> doc.metadata, id |-> id]

\* The next batch goes into the document store in one transaction, which may
\* fail; the documents have got their ids.
AddParents(t) ==
    LET me == thread[t]
        n == IF Len(me.input) < BatchSize THEN Len(me.input) ELSE BatchSize
        batch == [i \in 1..n |-> WithId(me.input[i], nextId + i - 1)]
        rows == {[id |-> batch[i].id, source |-> Column(batch[i].metadata, "file_source"),
                  vs |-> Column(batch[i].metadata, "vs_id")] : i \in 1..n}
    IN  /\ At(t, "addParents") /\ me.input # <<>>
        /\ \/ /\ Insertable(batch, DocStoreSchema)
              /\ docs' = docs \cup rows
              /\ nextId' = nextId + n
              /\ thread' = [thread EXCEPT ![t].at = "addChildren", ![t].batch = batch,
                                          ![t].input = SubSeq(@, n + 1, Len(@)),
                                          ![t].ids = @ \cup {r.id : r \in rows}]
           \/ Fail(t) /\ UNCHANGED <<docs, nextId>>
        /\ UNCHANGED <<tables, chunks, meta, history, bounds>>

\* The rows of the guidance documents in the table of a store.
ChildRows(store, children) ==
    {[table |-> store, parent |-> Column(children[i].metadata, "parent_doc_id"),
      page |-> Column(children[i].metadata, "page_no"),
      source |-> Column(children[i].metadata, "file_source")] : i \in DOMAIN children}

\* The guidance documents of the next document of the batch, in a transaction
\* of their own.  Embedding may fail, and so does a table that was dropped; no
\* guidance documents at all are inserted as well.
AddChildren(t) ==
    LET me == thread[t]
        parent == Head(me.batch)
    IN  /\ At(t, "addChildren") /\ me.batch # <<>>
        /\ \/ \E children \in Guidance(me.guidance, parent) :
                /\ me.store \in tables /\ Insertable(children, PresetSchema)
                /\ chunks' = chunks \cup ChildRows(me.store, children)
                /\ silent' = silent \cup {p \in {<<me.store, parent.id>>} : DOMAIN children = {}}
                /\ thread' = [thread EXCEPT ![t].batch = Tail(@),
                                            ![t].at = IF Len(me.batch) = 1 THEN "addParents" ELSE @]
           \/ Fail(t) /\ UNCHANGED <<chunks, silent>>
        /\ UNCHANGED <<docs, tables, meta, nextId, history, known, ops, crashes>>

FinishIngest(t) ==
    LET me == thread[t]
    IN  /\ At(t, "addParents") /\ me.input = <<>>
        /\ ingested' = IF me.alone
                       THEN ingested \cup {[store |-> me.store, file |-> me.file, ids |-> me.ids]}
                       ELSE ingested
        /\ Fail(t)
        /\ UNCHANGED <<stores, removed, halfRemoved, bounds>>

\* Remove: the documents of the file in the shared store,
RemoveParents(t) ==
    /\ At(t, "deleteParents")
    /\ docs' = {d \in docs : d.source # thread[t].file}
    /\ GoTo(t, "deleteChildren")
    /\ UNCHANGED <<tables, chunks, meta, nextId, history, bounds>>

\* Mutant: only the document store is cleaned.
RemoveChildrenForgotten(t) ==
    LET me == thread[t]
    IN  /\ At(t, "deleteChildren")
        /\ removed' = IF me.store \in tables /\ me.alone
                      THEN removed \cup {<<me.store, me.file>>} ELSE removed
        /\ Fail(t)
        /\ UNCHANGED <<stores, ingested, halfRemoved, bounds>>

\* then what was embedded for them in the table of one store.
RemoveChildren(t) ==
    LET me == thread[t]
        there == me.store \in tables
    IN  /\ At(t, "deleteChildren")
        /\ chunks' = {c \in chunks : ~ (there /\ c.table = me.store /\ c.source = me.file)}
        /\ removed' = IF there /\ me.alone THEN removed \cup {<<me.store, me.file>>} ELSE removed
        /\ Fail(t)
        /\ UNCHANGED <<docs, tables, meta, nextId, ingested, halfRemoved, bounds>>

\* SearchDocuments: the rows of a table that pass the filter on their files,
\* ordered by similarity, up to the limit.
Limit(top_k) ==
    IF top_k > 0 THEN IF top_k < MaxLimit THEN top_k ELSE MaxLimit ELSE DefaultLimit

Rows(store, files) == {c \in chunks : c.table = store /\ c.source \in files}

\* The similarities are the model's, so any rows may be the nearest ones.
SearchDocuments(store, files, top_k) ==
    IF Cardinality(Rows(store, files)) <= Limit(top_k) THEN {Rows(store, files)}
    ELSE {found \in SUBSET Rows(store, files) : Cardinality(found) = Limit(top_k)}

MultiGetDocuments(ids) == {d \in docs : d.id \in ids}

\* Retrieve: what is found in each store leads to the documents it stands for.
\* The file search filters by the files it ranked best, with a limit that must
\* be below FilterLimit.
Search(t) ==
    LET me == thread[t]
    IN  /\ At(t, "search")
        /\ \/ /\ me.paths \subseteq tables
              /\ \E top_k \in TopKs, files \in SUBSET Files, found \in SUBSET chunks :
                    /\ Limit(top_k) < FilterLimit
                    /\ \A c \in found : c.table \in me.paths
                    /\ \A s \in me.paths :
                          {c \in found : c.table = s} \in SearchDocuments(s, files, top_k)
                    /\ thread' = [thread EXCEPT ![t].ids = {c.parent : c \in found},
                                                ![t].at = "multiGet"]
           \/ /\ ~ me.paths \subseteq tables \/ \E top_k \in TopKs : Limit(top_k) >= FilterLimit
              /\ Fail(t)
        /\ UNCHANGED <<stores, history, bounds>>

\* One retriever answers; several are merged by an observable that never
\* completes, so that the caller waits for ever.
MultiGet(t) ==
    LET me == thread[t]
    IN  /\ At(t, "multiGet")
        /\ IF Cardinality(me.paths) = 1 THEN Fail(t) ELSE GoTo(t, "waiting")
        /\ UNCHANGED <<stores, history, bounds>>

-----------------------------------------------------------------------------
\* The process stops and starts; every statement is durable or undone.
Crash ==
    /\ crashes < MaxCrashes
    /\ \E t \in Threads : thread[t] # Idle
    /\ crashes' = crashes + 1
    /\ halfRemoved' = halfRemoved \cup {thread[t].store : t \in {u \in Threads : At(u, "removeRow")}}
    /\ thread' = [t \in Threads |-> Idle]
    /\ UNCHANGED <<stores, ingested, removed, known, silent, ops>>

Init ==
    /\ docs = {} /\ tables = Provisioned /\ chunks = {} /\ meta = Provisioned /\ nextId = 1
    /\ known = Provisioned
    /\ thread = [t \in Threads |-> Idle]
    /\ ingested = {} /\ removed = {} /\ halfRemoved = {} /\ silent = {}
    /\ ops = 0 /\ crashes = 0

Start(t) ==
    \/ \E s \in Stores : StartProvision(t, s)
    \/ \E s \in known : StartCleanup(t, s)
    \/ \E s \in known, f \in Files : StartRemove(t, s, f)
    \/ \E s \in known : \E f \in Files, g \in Guidances[s] : StartIngest(t, s, f, g)
    \/ \E some \in SUBSET known \ {{}} : StartSearch(t, some)

Step(t) ==
    \/ GetInstance(t) \/ CreateTable(t) \/ InsertInstance(t) \/ LoadInstance(t) \/ OpenStore(t)
    \/ CleanupDocs(t) \/ DropTable(t) \/ RemoveInstance(t)
    \/ AddParents(t) \/ AddChildren(t) \/ FinishIngest(t)
    \/ RemoveParents(t) \/ RemoveChildren(t) \/ Search(t) \/ MultiGet(t)

Next == (\E t \in Threads : Start(t) \/ Step(t)) \/ Crash

Spec == Init /\ [][Next]_vars

-----------------------------------------------------------------------------
(* Properties.                                                               *)

\* After an ingestion succeeded, every document of the file is in the document
\* store and has an embedded row in the table of its store that leads to it,
\* until the store is removed or the file is removed from any store: a search
\* that is not filtered otherwise finds it whenever its limit reaches that row.
\* The rows of the chunks must name their document although they inherit its
\* own parent id in their metadata.  The one exception is a retriever guided by
\* hypothetical queries when the model's answer had no line: the ingestion
\* succeeds, and no search can ever find the document.
IngestedIsRetrievable ==
    \A r \in ingested : \A id \in r.ids :
        /\ MultiGetDocuments({id}) # {}
        /\ \/ id \in {c.parent : c \in Rows(r.store, {r.file})}
           \/ <<r.store, id>> \in silent /\ "queries" \in Guidances[r.store]

\* After a removal of a file or of a store, without an ingestion beside it or
\* since, neither the document store nor the table has anything left of it.
RemovedIsGone ==
    \A r \in removed :
        /\ ~ \E d \in docs : d.vs = r[1] /\ d.source = r[2]
        /\ ~ \E c \in chunks : c.table = r[1] /\ c.source = r[2]

\* An instance that is listed can be opened: LoadInstance relies on the table.
\* The one exception is a removal between its two statements, or one that a
\* crash cut there, after which the instance can neither be used nor removed.
ListedInstanceHasTable ==
    \A s \in meta \ tables :
        s \in halfRemoved \/ \E t \in Threads : At(t, "removeRow") /\ thread[t].store = s
===============================================================================
