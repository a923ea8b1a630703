-------------------------------- MODULE Summary --------------------------------
(***************************************************************************)
(* Summaries by map and reduce, and citations of sources in answers.  A     *)
(* text is [covers, size]: the sources it tells of, in order.               *)
(***************************************************************************)
EXTENDS Integers, Sequences, SequencesExt, FiniteSets, FiniteSetsExt

Text(covers, size) == [covers |-> covers, size |-> size]

\* The texts of a batch, each with a newline, as one input of the chain.
ParseDocumentList(batch) ==
    Text(FlattenSeq([i \in DOMAIN batch |-> batch[i].covers]),
         FoldLeft(LAMBDA n, t : n + t.size + 1, 0, batch))

\* The model tells the same in a sentence of a given size.
InvokeSummaryChain(batch, sentence) == Text(ParseDocumentList(batch).covers, sentence)

\* Whether what is buffered is to be reduced before another text is added.
IsReducible(data, delta, limit) == FoldLeft(LAMBDA n, t : n + t.size, 0, data) + delta.size >= limit

\* Mutant: what is buffered at the end is dropped.
BatchesUnfinished(texts, limit) ==
    LET Add(b, t) ==
            IF b.data # <<>> /\ IsReducible(b.data, t, limit)
            THEN [done |-> Append(b.done, b.data), data |-> <<t>>]
            ELSE [b EXCEPT !.data = Append(@, t)]
        end == FoldLeft(Add, [done |-> <<>>, data |-> <<>>], texts)
    IN  IF end.done = <<>> THEN <<end.data>> ELSE end.done

Batches(texts, limit) ==
    LET Add(b, t) ==
            IF b.data # <<>> /\ IsReducible(b.data, t, limit)
            THEN [done |-> Append(b.done, b.data), data |-> <<t>>]
            ELSE [b EXCEPT !.data = Append(@, t)]
        end == FoldLeft(Add, [done |-> <<>>, data |-> <<>>], texts)
    IN  IF end.data = <<>> THEN end.done ELSE Append(end.done, end.data)

\* Every text is summarised alone, then every batch; several summaries are a
\* source again.  The recursion is followed for a number of rounds.
RECURSIVE CreateSummary(_, _, _, _)
CreateSummary(texts, limit, sentence, rounds) ==
    LET mapped == [i \in DOMAIN texts |-> InvokeSummaryChain(<<texts[i]>>, sentence)]
        batches == Batches(mapped, limit)
        summaries == [i \in DOMAIN batches |-> InvokeSummaryChain(batches[i], sentence)]
    IN  CASE summaries = <<>> -> [is |-> "throws"]
          [] Len(summaries) = 1 -> [is |-> "summary", covers |-> summaries[1].covers]
          [] Len(summaries) > 1 /\ rounds = 0 -> [is |-> "never"]
          [] OTHER -> CreateSummary(summaries, limit, sentence, rounds - 1)

-----------------------------------------------------------------------------
(* Citations.  A match is the number in "(source.n)", -1 where it is absent. *)

parse_citation_annotating_context(entries) ==
    [i \in DOMAIN entries |-> [number |-> i, content |-> entries[i]]]

\* Numbers start with 1 in the prompt; they are compared as if with 0.
parse_answer_with_citations(matches, entries) ==
    IF \E m \in ToSet(matches) : m = -1 THEN [ok |-> FALSE]
    ELSE [ok |-> TRUE, quoted |-> {m \in ToSet(matches) : m < Len(entries)}]

CitationAnnotatingChain(matches, entries) ==
    IF parse_citation_annotating_context(entries) = <<>> THEN [ok |-> FALSE]
    ELSE parse_answer_with_citations(matches, entries)
===============================================================================
