------------------------------- MODULE TextSplit -------------------------------
(***************************************************************************)
(* Splitting of texts into chunks: the regular-expression split in windows, *)
(* the recursive splitter with its list of separators, the merge of small   *)
(* pieces, and the positions that chunks are given.  A text is a sequence   *)
(* of characters, numbers; 0 and 1 are white space, Dot is one that a       *)
(* regular expression escapes.                                              *)
(***************************************************************************)
EXTENDS Integers, Sequences, SequencesExt, FiniteSets, FiniteSetsExt

CONSTANT MaxSplitSize   \* slots of one regular-expression split; 19 in the code

ASSUME TextSplitAssumption == MaxSplitSize \in Nat /\ MaxSplitSize >= 3 /\ MaxSplitSize % 2 = 1

Space == 0
Newline == 1
Dot == 3
Backslash == 9
IsSpace(char) == char \in {Space, Newline}

\* The result of reading past the end of a vector: anything.
Undefined == <<<<-1>>>>

Positions(text, sep) == {i \in 1..(Len(text) - Len(sep) + 1) : SubSeq(text, i, i + Len(sep) - 1) = sep}

EscapeForRegularExpression(sep) ==
    FlattenSeq([i \in DOMAIN sep |-> IF sep[i] = Dot THEN <<Backslash, Dot>> ELSE <<sep[i]>>])

-----------------------------------------------------------------------------
(* One split of ICU: at most MaxSplitSize slots, of which the last has the   *)
(* rest; separators are kept in slots of their own when they are captured.   *)
(* A text of length 0 has no fields.                                         *)

RECURSIVE Slots(_, _, _, _)
Slots(text, sep, captured, n) ==
    LET i == Min(Positions(text, sep))
    IN  IF n <= 1 \/ Positions(text, sep) = {} THEN <<text>>
        ELSE <<SubSeq(text, 1, i - 1)>> \o (IF captured THEN <<sep>> ELSE <<>>)
             \o Slots(SubSeq(text, i + Len(sep), Len(text)), sep, captured,
                      n - (IF captured THEN 2 ELSE 1))

IcuSplit(text, sep, captured) ==
    IF text = <<>> THEN <<>> ELSE Slots(text, sep, captured, MaxSplitSize)

\* Mutant: the last field is never added.
RECURSIVE SplitWithRegexDropping(_, _, _)
SplitWithRegexDropping(text, sep, captured) ==
    LET parts == IcuSplit(text, sep, captured)
    IN  IF Len(parts) = MaxSplitSize
        THEN Front(parts) \o SplitWithRegexDropping(Last(parts), sep, captured)
        ELSE IF Len(parts) <= 2 THEN parts ELSE SubSeq(parts, 1, Len(parts) - 2)

\* Windows until one is not full; the last field of a window is split again.
RECURSIVE SplitWithRegex(_, _, _)
SplitWithRegex(text, sep, captured) ==
    LET parts == IcuSplit(text, sep, captured)
    IN  IF Len(parts) = MaxSplitSize
        THEN Front(parts) \o SplitWithRegex(Last(parts), sep, captured)
        ELSE parts

\* Fields with the separators before them.  A last window that got an empty
\* text leaves an even number of slots: the merge reads past the end.
PairwiseMerge(splits) ==
    IF Len(splits) % 2 = 0 THEN Undefined
    ELSE <<splits[1]>> \o [i \in 1..(Len(splits) \div 2) |-> splits[2 * i] \o splits[2 * i + 1]]

SplitTextWithSeparator(text, sep, keep) ==
    LET splits == IF sep = <<>> THEN [i \in DOMAIN text |-> <<text[i]>>]
                  ELSE IF keep THEN PairwiseMerge(SplitWithRegex(text, sep, TRUE))
                  ELSE SplitWithRegex(text, sep, FALSE)
    IN  SelectSeq(splits, LAMBDA s : s # <<>>)

-----------------------------------------------------------------------------
(* Merging of pieces into chunks.                                            *)

Trim(text) ==
    LET visible == {i \in DOMAIN text : ~ IsSpace(text[i])}
    IN  IF visible = {} THEN <<>> ELSE SubSeq(text, Min(visible), Max(visible))

JoinDocs(docs, sep, o) ==
    LET text == FlattenSeq([i \in DOMAIN docs |-> IF i < Len(docs) THEN docs[i] \o sep ELSE docs[i]])
    IN  IF o.strip THEN Trim(text) ELSE text

PushDoc(docs, current, sep, o) ==
    LET doc == JoinDocs(current, sep, o)
    IN  IF doc = <<>> THEN docs ELSE Append(docs, doc)

If(condition, n) == IF condition THEN n ELSE 0

\* The pieces that are kept as the overlap with the next chunk.
RECURSIVE Shrink(_, _, _, _)
Shrink(m, d_len, s_len, o) ==
    IF m.total > o.overlap
       \/ (m.total + d_len + If(m.current = <<>>, s_len) > o.size /\ m.total > 0)
    THEN Shrink([m EXCEPT !.total = @ - Len(Head(m.current)) - If(Len(m.current) > 1, s_len),
                          !.current = Tail(@)], d_len, s_len, o)
    ELSE m

MergeSplits(splits, sep, o) ==
    LET s_len == Len(sep)
        Add(m, s) == [m EXCEPT !.current = Append(@, s),
                               !.total = @ + Len(s) + If(m.current # <<>>, s_len)]
        Step(m, s) ==
            IF m.total + Len(s) + If(m.current # <<>>, s_len) > o.size /\ m.current # <<>>
            THEN Add(Shrink([m EXCEPT !.docs = PushDoc(@, m.current, sep, o)], Len(s), s_len, o), s)
            ELSE Add(m, s)
        end == FoldLeft(Step, [docs |-> <<>>, current |-> <<>>, total |-> 0], splits)
    IN  PushDoc(end.docs, end.current, sep, o)

-----------------------------------------------------------------------------
(* The recursive splitter.  The list of separators is one object: what an    *)
(* inner call removes is missing to the calls after it.                      *)

\* The separator a text is split by, and the list afterwards.
ChooseSeparator(text, seps) ==
    LET usable == {i \in DOMAIN seps : seps[i] = <<>> \/ Positions(text, seps[i]) # {}}
        i == Min(usable)
    IN  IF usable = {} THEN [sep |-> Last(seps), seps |-> seps]
        ELSE IF seps[i] = <<>> THEN [sep |-> <<>>, seps |-> <<>>]
        ELSE [sep |-> seps[i], seps |-> RemoveAt(seps, i)]

RECURSIVE SplitTextInto(_, _, _, _)
SplitTextInto(text, seps, chunks, o) ==
    LET chosen == ChooseSeparator(text, seps)
        splits == SplitTextWithSeparator(text, chosen.sep, o.keep)
        merging == IF o.keep THEN <<>> ELSE EscapeForRegularExpression(chosen.sep)
        Flush(t) == IF t.good = <<>> THEN t
                    ELSE [t EXCEPT !.good = <<>>, !.chunks = @ \o MergeSplits(t.good, merging, o)]
        Deeper(t, s) ==
            IF t.seps = <<>> THEN [t EXCEPT !.chunks = Append(@, s)]
            ELSE LET inner == SplitTextInto(s, t.seps, t.chunks, o)
                 IN  [t EXCEPT !.chunks = inner.chunks, !.seps = inner.seps]
        Step(t, s) == IF Len(s) < o.size THEN [t EXCEPT !.good = Append(@, s)] ELSE Deeper(Flush(t), s)
    IN  IF splits = Undefined THEN [good |-> <<>>, chunks |-> Undefined, seps |-> <<>>]
        ELSE Flush(FoldLeft(Step, [good |-> <<>>, chunks |-> chunks, seps |-> chosen.seps], splits))

SplitTextRecursively(text, seps, o) == SplitTextInto(text, seps, <<>>, o).chunks

\* The splitter with one separator joins with it whether it is kept or not.
SplitTextByCharacter(text, sep, o) ==
    LET splits == SplitTextWithSeparator(text, sep, o.keep)
    IN  IF splits = Undefined THEN Undefined
        ELSE MergeSplits(splits, EscapeForRegularExpression(sep), o)

\* The place of a chunk: its first occurrence, -1 where there is none.
StartIndex(text, chunk) ==
    IF Positions(text, chunk) = {} THEN -1 ELSE Min(Positions(text, chunk)) - 1

EndIndex(text, chunk) == StartIndex(text, chunk) + Len(chunk)

-----------------------------------------------------------------------------
(* Reference.                                                                *)

Visible(text) == SelectSeq(text, LAMBDA char : ~ IsSpace(char))

\* How often a separator is found in a text, one after the other.
Count(text, sep) == Len(SplitWithRegex(Append(text, -1), sep, FALSE)) - 1
===============================================================================
