------------------------------- MODULE SqlFilter -------------------------------
(***************************************************************************)
(* Search queries as SQL (SQLBuilder), and what DuckDB reads in that SQL.   *)
(* A condition is the list of conjuncts that AND separates at its top       *)
(* level, because that is what a NOT written before it applies to: its      *)
(* first conjunct only.  Truth values: 0 false, 1 NULL, 2 true.             *)
(***************************************************************************)
EXTENDS Integers, Sequences, SequencesExt, FiniteSets, FiniteSetsExt

\* A literal NULL and a bound that is not given: a number that no cell has.
Null == -9

And(values) == IF values = <<>> THEN 2 ELSE Min(ToSet(values))
Or(values) == Max(ToSet(values))
Not(value) == 2 - value

Truth(b) == IF b THEN 2 ELSE 0

\* A text that is no SQL expression; an empty text is none either, and the
\* join of a text with an empty one makes it one.
Malformed == <<-1>>
Illegal(text) == text = <<>> \/ text = Malformed

-----------------------------------------------------------------------------
(* The leaves.                                                               *)

\* A value is [type, is]; a long is printed with the accessor of the double,
\* which is zero.
BuildTermValue(value) ==
    CASE value.type = "null" -> Null
      [] value.type = "long" -> 0
      [] OTHER -> value.is

Equal(cell, literal) == IF literal = Null THEN 1 ELSE Truth(cell = literal)

BuildTermQuery(q, row) == <<Equal(row[q.name], BuildTermValue(q.term))>>

BuildTermsQuery(q, row) ==
    IF q.terms = <<>> THEN Malformed
    ELSE <<Or([i \in DOMAIN q.terms |-> Equal(row[q.name], BuildTermValue(q.terms[i]))])>>

\* A bound is Null where it is not given; two bounds stand in parentheses.
Bounds(q, cell) ==
    (IF q.from = Null THEN <<>>
     ELSE <<Truth(IF q.inclusive_start THEN cell >= q.from ELSE cell > q.from)>>) \o
    (IF q.to = Null THEN <<>>
     ELSE <<Truth(IF q.inclusive_end THEN cell <= q.to ELSE cell < q.to)>>)

Parentheses(conjuncts) == IF Len(conjuncts) > 1 THEN <<And(conjuncts)>> ELSE conjuncts

BuildIntRangeQuery(q, row) == Parentheses(Bounds(q, row[q.name]))
BuildDoubleRangeQuery(q, row) == Parentheses(Bounds(q, row[q.name]))

-----------------------------------------------------------------------------
(* Bool queries.                                                             *)

\* Texts joined with AND inside parentheses, with OR, and without parentheses.
JoinAnd(texts) ==
    IF \E i \in DOMAIN texts : Illegal(texts[i]) THEN Malformed ELSE <<And(FlattenSeq(texts))>>

JoinOr(texts) ==
    IF \E i \in DOMAIN texts : Illegal(texts[i]) THEN Malformed
    ELSE <<Or([i \in DOMAIN texts |-> And(texts[i])])>>

JoinPredicates(texts) ==
    IF Len(texts) > 1 /\ \E i \in DOMAIN texts : Illegal(texts[i]) THEN Malformed
    ELSE FlattenSeq(texts)

Negate(text) == IF Illegal(text) THEN Malformed ELSE <<Not(Head(text))>> \o Tail(text)

Must(texts) == IF Len(texts) > 1 THEN <<JoinAnd(texts)>> ELSE texts

Should(texts) == IF Len(texts) > 1 THEN <<JoinOr(texts)>> ELSE texts

\* Mutant: NOT is written once, before the parentheses.
MustNotOnce(texts) ==
    IF Len(texts) > 1 THEN <<Negate(JoinAnd(texts))>>
    ELSE [i \in DOMAIN texts |-> Negate(texts[i])]

MustNot(texts) ==
    LET negated == [i \in DOMAIN texts |-> Negate(texts[i])]
    IN  IF Len(texts) > 1 THEN <<JoinAnd(negated)>> ELSE negated

RECURSIVE BuildSearchQuery(_, _)
BuildBoolQuery(q, row) ==
    LET Texts(queries) == [i \in DOMAIN queries |-> BuildSearchQuery(queries[i], row)]
    IN  JoinPredicates(Must(Texts(q.must)) \o Should(Texts(q.should)) \o MustNot(Texts(q.mustnot)))

BuildSearchQuery(q, row) ==
    CASE q.kind = "bool"  -> BuildBoolQuery(q, row)
      [] q.kind = "term"  -> BuildTermQuery(q, row)
      [] q.kind = "terms" -> BuildTermsQuery(q, row)
      [] q.kind = "double_range" -> BuildDoubleRangeQuery(q, row)
      [] q.kind = "int_range"    -> BuildIntRangeQuery(q, row)
      [] OTHER -> <<>>

-----------------------------------------------------------------------------
(* Statements on a table, a set of rows.  A query that is not set has no     *)
(* WHERE and means all rows; one whose text is empty is a WHERE without a    *)
(* condition.                                                                *)

NotSet(q) == q.kind = "none"

Refused(q, table) == ~ NotSet(q) /\ \E row \in table : Illegal(BuildSearchQuery(q, row))

Where(q, table) == {row \in table : NotSet(q) \/ And(BuildSearchQuery(q, row)) = 2}

BuildSorters(sorter, r, s) ==
    IF sorter.order = "DESC" THEN r[sorter.field_name] > s[sorter.field_name]
    ELSE r[sorter.field_name] < s[sorter.field_name]

ToSelectString(q, table, sorter, limit) ==
    LET rows == Where(q, table)
        Before(r) == {s \in rows : BuildSorters(sorter, s, r)}
    IN  IF limit > 0 THEN {r \in rows : Cardinality(Before(r)) < limit} ELSE rows

ToDeleteString(q, table) == table \ Where(q, table)

-----------------------------------------------------------------------------
(* Reference: what a query says of a row.                                    *)

RECURSIVE Meaning(_, _)
Meaning(q, row) ==
    LET All(queries) == And([i \in DOMAIN queries |-> Meaning(queries[i], row)])
        None(queries) == And([i \in DOMAIN queries |-> Not(Meaning(queries[i], row))])
        Some(queries) == IF queries = <<>> THEN 2
                         ELSE Or([i \in DOMAIN queries |-> Meaning(queries[i], row)])
        Literal(value) == IF value.type = "null" THEN Null ELSE value.is
    IN  CASE q.kind = "bool" -> Min({All(q.must), Some(q.should), None(q.mustnot)})
          [] q.kind = "term" -> Equal(row[q.name], Literal(q.term))
          [] q.kind = "terms" ->
                 Or([i \in DOMAIN q.terms |-> Equal(row[q.name], Literal(q.terms[i]))])
          [] q.kind = "none" -> 2
          [] OTHER -> And(Bounds(q, row[q.name]))

\* The queries of which this cannot be said: under mustnot a bool query whose
\* text has several conjuncts, a long that is not zero, and anything without a
\* condition.
RECURSIVE OneConjunct(_)
OneConjunct(q) ==
    LET groups == SelectSeq(<<q.must, q.should, q.mustnot>>, LAMBDA g : g # <<>>)
    IN  q.kind = "bool" =>
            Len(groups) = 1 /\ (Len(groups[1]) = 1 => OneConjunct(groups[1][1]))

RECURSIVE Sound(_)
Sound(q) ==
    LET Long(value) == value.type = "long" /\ value.is # 0
        Parts == ToSet(q.must \o q.should \o q.mustnot)
    IN  CASE q.kind = "bool" ->
                 /\ Parts # {} /\ \A p \in Parts : Sound(p)
                 /\ \A p \in ToSet(q.mustnot) : OneConjunct(p)
          [] q.kind = "term"  -> ~ Long(q.term)
          [] q.kind = "terms" -> q.terms # <<>> /\ \A v \in ToSet(q.terms) : ~ Long(v)
          [] q.kind = "none"  -> FALSE
          [] OTHER -> q.from # Null \/ q.to # Null
===============================================================================
