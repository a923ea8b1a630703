----------------------------- MODULE DocumentStore -----------------------------
(***************************************************************************)
(* Documents with metadata in a table: the schema, the validation of a      *)
(* document against it, the rows that DuckDB's appender is given, the       *)
(* transaction around them, and the documents read back.  A metadata field  *)
(* is [name, kind, is], of kind "none" where no value is set.               *)
(***************************************************************************)
EXTENDS Integers, Sequences, SequencesExt, FiniteSets, FiniteSetsExt

-----------------------------------------------------------------------------
(* Schemas.                                                                  *)

\* The kind of value that a field of a type has.
KindOf ==
    [VARCHAR |-> "string", INT32 |-> "int32", INT64 |-> "int64", FLOAT |-> "float",
     DOUBLE |-> "double", BOOL |-> "bool"]

Define(schema, name, type) == Append(schema, [name |-> name, type |-> type])

\* The preset fields of every store.
CreateDocStorePresetMetadataSchema ==
    Define(Define(Define(Define(Define(<<>>, "parent_doc_id", "VARCHAR"), "page_no", "INT32"),
                         "file_source", "VARCHAR"), "start_index", "INT32"), "end_index", "INT32")

Names(schema) == {f.name : f \in ToSet(schema)}

\* The columns of a table: with a dimension there is a vector before the
\* metadata.  (A field of a type that is not known is an error; there is none.)
CreateTableColumns(schema, dimension) ==
    <<[name |-> "id", type |-> "VARCHAR"], [name |-> "text", type |-> "VARCHAR"]>>
    \o (IF dimension > 0 THEN <<[name |-> "vector", type |-> "ARRAY"]>> ELSE <<>>)
    \o schema

-----------------------------------------------------------------------------
(* Metadata of a document.                                                   *)

FieldAt(metadata, name) == {i \in DOMAIN metadata : metadata[i].name = name}

HasMetadataField(metadata, name) == FieldAt(metadata, name) # {}

\* Setting replaces the first field of the name, or adds one.
SetValueMetadataField(metadata, field) ==
    IF HasMetadataField(metadata, field.name)
    THEN [metadata EXCEPT ![Min(FieldAt(metadata, field.name))] = field]
    ELSE Append(metadata, field)

AddMissingPresetMetadataFields(metadata) ==
    LET Missing(f) == ~ HasMetadataField(metadata, f.name)
        missing == SelectSeq(CreateDocStorePresetMetadataSchema, Missing)
    IN  metadata \o [i \in DOMAIN missing |->
                        [name |-> missing[i].name, kind |-> KindOf[missing[i].type], is |-> 0]]

\* What is wrong with one field: nothing, a violation, or an unknown name that
\* is looked up all the same.
FieldProblem(field, schema, bypass) ==
    LET type == CHOOSE t \in {f.type : f \in ToSet(schema)} :
                    [name |-> field.name, type |-> t] \in ToSet(schema)
    IN  IF field.name \notin Names(schema) THEN IF bypass THEN "throws" ELSE "violations"
        ELSE IF field.kind = "none" \/ type \notin DOMAIN KindOf THEN "violations"
        ELSE IF field.kind # KindOf[type] THEN "violations" ELSE "ok"

\* Fields are looked at in order, up to the first problem.
ValidateDocument(doc, schema, bypass) ==
    LET problems == [i \in DOMAIN doc.metadata |-> FieldProblem(doc.metadata[i], schema, bypass)]
        bad == {i \in DOMAIN problems : problems[i] # "ok"}
    IN  IF doc.text = "blank" THEN "violations"
        ELSE IF schema = <<>> THEN "ok"
        ELSE IF bad # {} THEN problems[Min(bad)]
        ELSE IF \E name \in Names(schema) : ~ HasMetadataField(doc.metadata, name) THEN "violations"
        ELSE "ok"

-----------------------------------------------------------------------------
(* The appender of DuckDB: finished rows and the values of the open one.     *)
(* BeginRow does not give up an open row.                                    *)

Convertible(kind, type) ==
    \/ type \in DOMAIN KindOf /\ (kind = KindOf[type] \/ type = "VARCHAR")
    \/ type = kind

ToCell(value, type) == [kind |-> IF type = "ARRAY" THEN "ARRAY" ELSE KindOf[type], is |-> value.is]

Put(a, value) ==
    IF a.status # "ok" THEN a
    ELSE IF Len(a.open) = Len(a.columns) \/ ~ Convertible(value.kind, a.columns[Len(a.open) + 1].type)
    THEN [a EXCEPT !.status = "duckdb"]
    ELSE [a EXCEPT !.open = Append(@, ToCell(value, a.columns[Len(a.open) + 1].type))]

EndRow(a) ==
    CASE a.status # "ok" -> a
      [] a.status = "ok" /\ Len(a.open) # Len(a.columns) -> [a EXCEPT !.status = "duckdb"]
      [] OTHER -> [a EXCEPT !.rows = Append(@, a.open), !.open = <<>>]

\* Closing flushes the rows only where no row is open.
Close(a) ==
    CASE a.open = <<>> -> a
      [] Len(a.open) = Len(a.columns) -> [a EXCEPT !.status = "duckdb"]
      [] OTHER -> [a EXCEPT !.rows = <<>>]

-----------------------------------------------------------------------------
(* Rows.                                                                     *)

AppendRowBasicFields(a, doc) ==
    Put(Put(a, [kind |-> "string", is |-> doc.id]), [kind |-> "string", is |-> doc.text])

AppendVector(a, dimension) ==
    IF dimension > 0 THEN Put(a, [kind |-> "ARRAY", is |-> 0]) ELSE a

\* What the fields must be: all of the schema's are there; unknown ones, and
\* the second of a name, are refused unless they are let pass.
MetadataAccepted(doc, schema, bypass) ==
    /\ Names(schema) \subseteq Names(doc.metadata)
    /\ bypass \/ \A i \in DOMAIN doc.metadata :
                    /\ doc.metadata[i].name \in Names(schema)
                    /\ FieldAt(doc.metadata, doc.metadata[i].name) = {i}

\* Mutant: the fields are appended in the document's order.
AppendRowMetadataFieldsAsGiven(a, doc, schema, bypass) ==
    LET known == SelectSeq(doc.metadata, LAMBDA f : f.name \in Names(schema) /\ f.kind # "none")
    IN  IF schema = <<>> \/ a.status # "ok" THEN a
        ELSE IF ~ MetadataAccepted(doc, schema, bypass) THEN [a EXCEPT !.status = "instinct"]
        ELSE FoldLeft(Put, a, known)

\* The last field of each name is appended, in the order of the schema; a field
\* without a value appends nothing.
AppendRowMetadataFields(a, doc, schema, bypass) ==
    LET value(i) == doc.metadata[Max(FieldAt(doc.metadata, schema[i].name))]
        values == SelectSeq([i \in DOMAIN schema |-> value(i)], LAMBDA v : v.kind # "none")
    IN  IF schema = <<>> \/ a.status # "ok" THEN a
        ELSE IF ~ MetadataAccepted(doc, schema, bypass) THEN [a EXCEPT !.status = "instinct"]
        ELSE FoldLeft(Put, a, values)

AppendRow(a, doc, schema, dimension, bypass) ==
    EndRow(AppendRowMetadataFields(AppendVector(AppendRowBasicFields(a, doc), dimension),
                                   doc, schema, bypass))

\* A document that is refused is set aside and the next one follows; an error
\* of DuckDB ends it.
AppendRows(a, docs, schema, dimension, bypass) ==
    FoldLeft(LAMBDA x, doc :
                 LET y == AppendRow(x, doc, schema, dimension, bypass)
                 IN  IF y.status = "instinct" THEN [y EXCEPT !.status = "ok", !.failed = @ + 1] ELSE y,
             a, docs)

Appender(schema, dimension) ==
    [columns |-> CreateTableColumns(schema, dimension), rows |-> <<>>, open |-> <<>>,
     status |-> "ok", failed |-> 0]

\* One transaction: the rows it leaves in the table, or an error.
AddDocuments(docs, schema, dimension, bypass) ==
    LET a == AppendRows(Appender(schema, dimension), docs, schema, dimension, bypass)
        closed == IF a.status = "ok" THEN Close(a) ELSE a
    IN  [threw |-> closed.status # "ok", failed |-> closed.failed,
         rows |-> IF closed.status = "ok" THEN closed.rows ELSE <<>>]

AddDocument(doc, schema, dimension, bypass) ==
    LET a == AppendRow(Appender(schema, dimension), doc, schema, dimension, bypass)
    IN  [threw |-> a.status # "ok", failed |-> 0, rows |-> IF a.status = "ok" THEN a.rows ELSE <<>>]

-----------------------------------------------------------------------------
(* Reading.                                                                  *)

\* The columns after id and text are taken for the fields of the schema.
ObserveQueryResult(row, schema) ==
    [text |-> row[2].is,
     metadata |-> [i \in DOMAIN schema |->
                      IF Convertible(row[i + 2].kind, schema[i].type)
                      THEN [name |-> schema[i].name, kind |-> KindOf[schema[i].type], is |-> row[i + 2].is]
                      ELSE [name |-> schema[i].name, kind |-> "throws", is |-> 0]]]

\* Getting by id selects the columns by name, finding selects all of them.
MultiGet(row, schema, dimension) ==
    ObserveQueryResult(IF dimension > 0 THEN RemoveAt(row, 3) ELSE row, schema)

FindDocument(row, schema) == ObserveQueryResult(row, schema)

-----------------------------------------------------------------------------
(* Reference: the document, with the last field of each name of the schema.  *)

Whole(doc, schema) ==
    [text |-> doc.text,
     metadata |-> [i \in DOMAIN schema |-> doc.metadata[Max(FieldAt(doc.metadata, schema[i].name))]]]
===============================================================================
