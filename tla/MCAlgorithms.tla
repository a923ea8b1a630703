----------------------------- MODULE MCAlgorithms -----------------------------
(***************************************************************************)
(* The pure parts of the library over bounded inputs, conversations and the *)
(* configuration of models.                                                 *)
(* An initial state is one input (a search filter, a text to split, a batch *)
(* of documents, texts to summarise), an empty conversation, from which     *)
(* chains are invoked, or a model that is about to be made and configured.  *)
(***************************************************************************)
EXTENDS Chains, SqlFilter, TextSplit, ModelConfig, DocumentStore, Summary

VARIABLE subject   \* [is, ...]: what this behaviour is about

allVars == <<memory, asks, llm, made, subject>>

MCQuestions == {<<"q">>, <<"p">>}
MCAnswers == {<<"a", "blank">>, <<"b">>}

SeqsUpTo(S, n) == UNION {[1..k -> S] : k \in 0..n}

-----------------------------------------------------------------------------
(* Filters: bool queries over terms, lists and ranges, two levels deep, on a *)
(* table with all rows over two columns.                                     *)

Query(kind) ==
    [kind |-> kind, name |-> "x", term |-> [type |-> "int", is |-> 1], terms |-> <<>>, from |-> Null,
     to |-> Null, inclusive_start |-> TRUE, inclusive_end |-> FALSE, must |-> <<>>, should |-> <<>>,
     mustnot |-> <<>>]

TermX == Query("term")
TermY == [TermX EXCEPT !.name = "y", !.term.is = 2]
TermNull == [TermX EXCEPT !.term.type = "null"]
TermLong == [TermX EXCEPT !.term.type = "long"]
TermsX == [Query("terms") EXCEPT !.terms = <<[type |-> "int", is |-> 1], [type |-> "string", is |-> 3]>>]
RangeBoth == [Query("int_range") EXCEPT !.from = 1, !.to = 3]
RangeFrom == [Query("double_range") EXCEPT !.from = 1, !.inclusive_start = FALSE, !.name = "y"]
Leaves == {TermX, TermY, TermNull, TermLong, TermsX, Query("terms"), RangeBoth, RangeFrom,
           Query("int_range"), Query("none")}

Bools(must, should, mustnot) ==
    {[Query("bool") EXCEPT !.must = a, !.should = b, !.mustnot = c] :
        a \in must, b \in should, c \in mustnot}

Flat == Bools(SeqsUpTo({TermX, TermNull}, 2), SeqsUpTo({TermY, RangeFrom}, 2), SeqsUpTo({RangeBoth, TermsX}, 2))

Small == Bools(SeqsUpTo({TermX}, 1), SeqsUpTo({TermY}, 1), SeqsUpTo({RangeBoth}, 1))

Nested ==
    Bools(SeqsUpTo(Small, 1), SeqsUpTo({TermY}, 1), SeqsUpTo(Small \cup {TermsX}, 2))

Filters == Leaves \cup Bools(SeqsUpTo(Leaves, 1), SeqsUpTo(Leaves, 1), SeqsUpTo(Leaves, 1)) \cup Flat \cup Nested

Table == [x : 1..3, y : 1..2]

\* A search filter selects and deletes the rows that it describes, in every
\* statement built from it: no filter means all rows, and a filter with a
\* condition in every part is never refused by the database.  It is said of the
\* filters for which the text is right: no bool query with several conjuncts is
\* negated, because NOT reaches only its first one, and no long is compared,
\* because it is printed as a double.
FilterIsQuery ==
    subject.is = "filter" =>
        LET q == subject.filter
            rows == {r \in Table : NotSet(q) \/ Meaning(q, r) = 2}
            sorter == [field_name |-> "x", order |-> "DESC"]
        IN  Sound(q) \/ NotSet(q) =>
                /\ ~ Refused(q, Table)
                /\ ToSelectString(q, Table, sorter, 0) = rows
                /\ ToDeleteString(q, Table) = Table \ rows
                /\ LET top == ToSelectString(q, Table, sorter, 1)
                   IN  top = {r \in rows : \A s \in rows : s.x <= r.x}

-----------------------------------------------------------------------------
(* Texts to split, of white space, a letter and a character that a regular   *)
(* expression escapes.                                                       *)

Spaces == <<<<Newline, Newline>>, <<Newline>>, <<Space>>, <<>>>>
Sentences == <<<<Dot>>, <<>>>>

Splittings ==
    [is : {"text"}, text : SeqsUpTo({Space, Newline, 2}, 6), seps : {Spaces}, size : {1, 3},
     overlap : {0, 1}, keep : BOOLEAN, strip : {TRUE}]
    \cup [is : {"text"}, text : SeqsUpTo({2, Dot}, 6), seps : {Sentences}, size : 1..3,
          overlap : {0, 1}, keep : BOOLEAN, strip : BOOLEAN]

\* Splitting loses no text, but for the case that a TODO of SplitWithRegex
\* records ("sometimes last chunk of remaining split is ill-formed resulting
\* incomplete text return"): a full window that ends with the separator leaves
\* an empty rest, whose field is never added, and PairwiseMerge reads past the
\* end.  That case takes kept separators and one that is found as often as a
\* window has fields.  In all others the chunks without overlap have together
\* all the visible characters of the text in order, whether separators are kept
\* or are white space, and with the separators kept each chunk is found in the
\* text at its recorded place.  Only the first chunk is known to fit the size,
\* against the comment of MergeSplits_ (strings "which have size less than
\* `chunk_size`"): the calls of the splitter share one list of separators, and
\* what the first long piece used up is missing to the long pieces after it.
SplitsKeepText ==
    subject.is = "text" =>
        LET t == subject.text
            o == [size |-> subject.size, overlap |-> subject.overlap, keep |-> subject.keep,
                  strip |-> subject.strip]
            chunks == SplitTextRecursively(t, subject.seps, o)
            undefined == <<-1>> \in ToSet(chunks)
        IN  /\ undefined => o.keep /\ \E s \in ToSet(subject.seps) :
                   s # <<>> /\ Count(t, s) >= (MaxSplitSize - 1) \div 2
            /\ ~ undefined /\ o.overlap = 0 /\ (o.keep \/ subject.seps = Spaces) =>
                   Visible(FlattenSeq(chunks)) = Visible(t)
            /\ ~ o.keep /\ o.overlap = 0 /\ subject.seps = Spaces =>
                   Visible(FlattenSeq(SplitTextByCharacter(t, <<Newline>>, o))) = Visible(t)
            /\ ~ undefined /\ o.keep =>
                   /\ \A c \in ToSet(chunks) : StartIndex(t, c) >= 0 /\ EndIndex(t, c) <= Len(t)
                   /\ chunks # <<>> => Len(chunks[1]) <= o.size

-----------------------------------------------------------------------------
(* Model configurations.                                                     *)

Given(value, m, h, d) ==
    LET set(b) == IF b THEN value ELSE Unset
    IN  [model |-> set(m), host |-> set(h), port |-> set(h), protocol |-> IF h THEN "http" ELSE Unset,
         api_key |-> set(m), dimension |-> set(d), stop_words |-> set(d), temperature |-> set(m),
         top_p |-> set(h)]

Options(m, h, d) == [s \in FactorySettings |-> Given("option", m, h, d)[s]]

Environments(dimensions) ==
    {[model |-> em, host |-> eh, port |-> ep, protocol |-> pr, api_key |-> em, dimension |-> ed] :
        em \in {"missing", "blank", "env"}, eh \in {"missing", "env"}, ep \in {"missing", "blank", "env"},
        pr \in {"missing", "https"}, ed \in dimensions}

\* The provider's own record has all of its settings or none.
FromFactory(kind, known, dimensions) ==
    {[kind |-> kind, provider |-> p, known |-> k, options |-> Options(m, h, d),
      own |-> Given("own", w, w, w), env |-> env] :
        p \in {"openai", "llamacpp", "ollama", "local"}, k \in known, m \in BOOLEAN, h \in BOOLEAN,
        d \in BOOLEAN, w \in BOOLEAN, env \in Environments(dimensions)}

TextModels ==
    {[kind |-> "llm", provider |-> p, known |-> FALSE, options |-> Options(FALSE, FALSE, FALSE),
      own |-> Given("own", m, h, d), env |-> env] :
        p \in {"openai", "llamacpp", "ollama"}, m \in BOOLEAN, h \in BOOLEAN, d \in BOOLEAN,
        env \in Environments({"missing"})}

MCConfigurations ==
    FromFactory("chat", {FALSE}, {"missing"}) \cup TextModels
        \cup FromFactory("embed", BOOLEAN, {"missing", "blank", "env"})

None == [model |-> Unset, stop_words |-> Unset, temperature |-> Unset, top_p |-> Unset]
MCOverrides ==
    {None, [None EXCEPT !.stop_words = "first"], [None EXCEPT !.model = "first", !.top_p = "first"],
     [None EXCEPT !.model = "second", !.temperature = "second"]}

-----------------------------------------------------------------------------
(* Batches of documents.                                                     *)

Schema == <<[name |-> "x", type |-> "VARCHAR"], [name |-> "y", type |-> "INT32"]>>

Metadata ==
    {[i \in DOMAIN m |-> [name |-> m[i].name, kind |-> m[i].kind, is |-> i]] :
        m \in SeqsUpTo([name : {"x", "y", "z"}, kind : {"string", "int32", "none"}], 3)}

Doc(metadata) == [id |-> 0, text |-> "text", metadata |-> metadata]
Good == <<[name |-> "y", kind |-> "int32", is |-> 5], [name |-> "x", kind |-> "string", is |-> 6]>>

DocumentBatches ==
    {[is |-> "documents", docs |-> docs, dimension |-> n, bypass |-> b] :
        docs \in {<<Doc(m)>> : m \in Metadata} \cup {<<Doc(m), Doc(Good)>> : m \in Metadata}
                 \cup {<<Doc(Good), Doc(m)>> : m \in Metadata},
        n \in {0, 2}, b \in BOOLEAN}

\* A batch of documents is stored whole or not at all, and nothing of it is
\* stored without an error unless its last document was refused.  Documents
\* that are valid for the schema are stored, and are read back by id with the
\* text and, for every field of the schema, the value they had, of the same
\* kind, also when a field was set before; finding them by a query gives the
\* same documents in a table without vectors.  (For this schema: where the
\* second field is a text, too, a document without values can complete the row
\* that a refused one left.)
StoredDocumentIsWhole ==
    subject.is = "documents" =>
        LET s == subject
            stored == AddDocuments(s.docs, Schema, s.dimension, s.bypass)
            Valid(doc) == /\ ValidateDocument(doc, Schema, s.bypass) = "ok"
                          /\ s.bypass \/ \A name \in Names(Schema) : Cardinality(FieldAt(doc.metadata, name)) = 1
            once == \A d \in ToSet(s.docs) : \A name \in Names(Schema) :
                        Cardinality(FieldAt(d.metadata, name)) = 1
            set == [name |-> "x", kind |-> "string", is |-> 9]
            reset == [i \in DOMAIN s.docs |-> [s.docs[i] EXCEPT !.metadata = SetValueMetadataField(@, set)]]
            again == AddDocuments(reset, Schema, s.dimension, s.bypass)
            filled == [i \in DOMAIN s.docs |-> AddMissingPresetMetadataFields(s.docs[i].metadata)]
        IN  /\ Len(stored.rows) \in {0, Len(s.docs)}
            /\ stored.rows = <<>> => stored.threw \/ ~ MetadataAccepted(Last(s.docs), Schema, s.bypass)
            /\ (\A d \in ToSet(s.docs) : Valid(d)) =>
                   /\ ~ stored.threw /\ stored.failed = 0 /\ stored.rows # <<>>
                   /\ \A i \in DOMAIN s.docs :
                          /\ MultiGet(stored.rows[i], Schema, s.dimension) = Whole(s.docs[i], Schema)
                          /\ s.dimension = 0 =>
                                 FindDocument(stored.rows[i], Schema) = Whole(s.docs[i], Schema)
            /\ once /\ again.rows # <<>> =>
                   \A i \in DOMAIN reset :
                       MultiGet(again.rows[i], Schema, s.dimension).metadata[1] = set
            /\ LET one == AddDocument(s.docs[1], Schema, s.dimension, s.bypass)
               IN  one.rows = <<>> <=> one.threw
            /\ \A i \in DOMAIN filled :
                   MetadataAccepted([metadata |-> filled[i]], CreateDocStorePresetMetadataSchema, TRUE)

-----------------------------------------------------------------------------
(* Texts to summarise and answers to annotate.                               *)

Summaries ==
    {[is |-> "summary", n |-> n, size |-> size, limit |-> limit, sentence |-> sentence] :
        n \in 0..7, size \in {1, 5}, limit \in 1..12, sentence \in 1..5}
    \cup {[is |-> "citation", matches |-> m, n |-> n] : m \in SeqsUpTo((-1)..4, 3), n \in 0..3}

\* A summary is made of all the sources, each once and in order, whenever two
\* sentences of the model fit into one input; where they do not, several
\* sources are never reduced to one summary.  Of an answer's annotations
\* those are quoted that name a source of the prompt, where these are numbered
\* from 1, but for two: the last source is never quoted, because numbers are
\* compared as if they started with 0 (although the example in the prompt cites
\* its last source), and 0, which is no source's number, is.
SummaryCoversSources ==
    /\ subject.is = "summary" =>
           LET s == subject
               result == CreateSummary([i \in 1..s.n |-> Text(<<i>>, s.size)], s.limit, s.sentence, 8)
           IN  IF s.n = 0 THEN result.is = "throws"
               ELSE IF s.n = 1 \/ 2 * s.sentence < s.limit
               THEN result = [is |-> "summary", covers |-> [i \in 1..s.n |-> i]]
               ELSE result.is = "never"
    /\ subject.is = "citation" =>
           LET entries == [i \in 1..subject.n |-> i]
               result == CitationAnnotatingChain(subject.matches, entries)
               shown == {e.number : e \in ToSet(parse_citation_annotating_context(entries))}
           IN  result.ok => result.quoted = ToSet(subject.matches) \cap ((shown \ {subject.n}) \cup {0})

-----------------------------------------------------------------------------
Subjects ==
    {[is |-> "filter", filter |-> q] : q \in Filters} \cup Splittings \cup DocumentBatches
    \cup Summaries

MCInit ==
    /\ Init /\ ConfigInit
    /\ subject \in Subjects \/ subject \in [is : {"chat", "model"}]

Converse == subject.is = "chat" /\ Next /\ UNCHANGED <<llm, made, subject>>
Ask == subject.is = "model" /\ ConfigNext /\ UNCHANGED <<memory, asks, subject>>

MCSpec == MCInit /\ [][Converse \/ Ask]_allVars
===============================================================================
