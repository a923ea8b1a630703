---------------------------- MODULE RetrievalProofs ----------------------------
(***************************************************************************)
(* Proofs about retrievers over DuckDB: a listed instance has its table,    *)
(* what was removed is gone and what was ingested can be found, for any     *)
(* number of threads, stores, files and crashes.                            *)
(***************************************************************************)
EXTENDS Retrieval, SequenceTheorems, WellFoundedInduction, TLAPS

-----------------------------------------------------------------------------
(* Loading and splitting, by induction over the pages and paragraphs.        *)

(* A set with 0 that is closed under successors has all numbers: the form   *)
(* of induction in which a property is a set.                               *)
LEMMA SetInduction ==
    ASSUME NEW S, 0 \in S, \A n \in Nat : n \in S => n + 1 \in S
    PROVE  Nat \subseteq S
<1> DEFINE R == OpToRel(<, Nat)
           T == Nat \ S
<1>1. IsWellFoundedOn(R, Nat)
  BY NatLessThanWellFounded
<1>2. \A x, y \in Nat : y < x => <<y, x>> \in R
  BY DEF OpToRel
<1> HIDE DEF R
<1> SUFFICES ASSUME T # {} PROVE FALSE
  OBVIOUS
<1>3. PICK x \in T : \A y \in T : ~ (<<y, x>> \in R)
  BY <1>1, WFMin
<1>4. x # 0 /\ x \in Nat
  OBVIOUS
<1>5. x - 1 \in Nat /\ x - 1 < x
  BY <1>4
<1>6. x - 1 \in S
  BY <1>2, <1>3, <1>4, <1>5
<1>7. QED
  BY <1>4, <1>5, <1>6

(* f is the table of the sequences that the first i of seqs make together.  *)
Flattens(f, seqs, n, S) ==
    /\ f \in [1..n -> Seq(S)]
    /\ \A i \in 1..n : f[i] = IF i = 1 THEN seqs[i] ELSE f[i - 1] \o seqs[i]

(* There is such a table for every prefix.                                  *)
LEMMA FlattenExists ==
    ASSUME NEW S, NEW seqs \in Seq(Seq(S))
    PROVE  \A n \in Nat : n <= Len(seqs) => \E f : Flattens(f, seqs, n, S)
<1> DEFINE G == {n \in Nat : n <= Len(seqs) => \E f : Flattens(f, seqs, n, S)}
<1>1. 0 \in G
  <2>1. Flattens([i \in 1..0 |-> <<>>], seqs, 0, S)
    BY DEF Flattens
  <2> QED BY <2>1
<1>2. ASSUME NEW n \in Nat, n \in G PROVE n + 1 \in G
  <2> SUFFICES ASSUME n + 1 <= Len(seqs) PROVE \E f : Flattens(f, seqs, n + 1, S)
    OBVIOUS
  <2>1. PICK f : Flattens(f, seqs, n, S)
    BY <1>2
  <2>2. seqs[n + 1] \in Seq(S)
    OBVIOUS
  <2> DEFINE x == IF n = 0 THEN seqs[n + 1] ELSE f[n] \o seqs[n + 1]
             g == [i \in 1..(n + 1) |-> IF i = n + 1 THEN x ELSE f[i]]
  <2>3. x \in Seq(S)
    <3>1. CASE n = 0
      BY <3>1, <2>2
    <3>2. CASE n # 0
      <4>1. f[n] \in Seq(S)
        BY <3>2, <2>1 DEF Flattens
      <4> QED BY <4>1, <3>2, <2>2
    <3> QED BY <3>1, <3>2
  <2>4. g \in [1..(n + 1) -> Seq(S)]
    BY <2>1, <2>3 DEF Flattens
  <2>5. ASSUME NEW i \in 1..(n + 1)
        PROVE  g[i] = IF i = 1 THEN seqs[i] ELSE g[i - 1] \o seqs[i]
    <3>1. CASE i = n + 1
      BY <3>1
    <3>2. CASE i # n + 1
      <4>1. i \in 1..n /\ (i # 1 => i - 1 \in 1..n /\ i - 1 # n + 1 /\ i - 1 \in 1..(n + 1))
        BY <3>2
      <4>2. g[i] = f[i] /\ (i # 1 => g[i - 1] = f[i - 1])
        BY <3>2, <4>1
      <4>3. f[i] = IF i = 1 THEN seqs[i] ELSE f[i - 1] \o seqs[i]
        BY <4>1, <2>1 DEF Flattens
      <4> QED BY <4>2, <4>3
    <3> QED BY <3>1, <3>2
  <2>6. Flattens(g, seqs, n + 1, S)
    BY <2>4, <2>5 DEF Flattens
  <2> QED BY <2>6
<1> HIDE DEF G
<1>3. Nat \subseteq G
  BY <1>1, <1>2, SetInduction
<1> QED BY <1>3 DEF G

(* FlattenSeq puts sequences over S together to one over S.                 *)
LEMMA FlattenType ==
    ASSUME NEW S, NEW seqs \in Seq(Seq(S))
    PROVE  FlattenSeq(seqs) \in Seq(S)
<1> DEFINE n == Len(seqs)
           Table == CHOOSE f : f = [i \in 1..n |-> IF i = 1 THEN seqs[i] ELSE f[i - 1] \o seqs[i]]
<1>1. n \in Nat
  OBVIOUS
<1>2. CASE n = 0
  <2>1. seqs = <<>>
    BY <1>2
  <2> QED BY <1>2, <2>1 DEF FlattenSeq
<1>3. CASE n # 0
  <2>1. PICK f : Flattens(f, seqs, n, S)
    BY <1>1, FlattenExists
  <2>2. f = [i \in 1..n |-> IF i = 1 THEN seqs[i] ELSE f[i - 1] \o seqs[i]]
    BY <2>1 DEF Flattens
  <2>3. Table = [i \in 1..n |-> IF i = 1 THEN seqs[i] ELSE Table[i - 1] \o seqs[i]]
    BY <2>2
  <2>4. FlattenSeq(seqs) = Table[n]
    BY <1>3 DEF FlattenSeq
  <2> HIDE DEF Table
  <2> DEFINE G == {i \in Nat : i + 1 \in 1..n => Table[i + 1] \in Seq(S)}
  <2>5. 0 \in G
    BY <1>1, <1>3, <2>3
  <2>6. ASSUME NEW i \in Nat, i \in G PROVE i + 1 \in G
    <3> SUFFICES ASSUME i + 2 \in 1..n PROVE Table[i + 2] \in Seq(S)
      OBVIOUS
    <3>1. i + 1 \in 1..n /\ i + 2 # 1 /\ (i + 2) - 1 = i + 1
      BY <1>1
    <3>2. Table[i + 2] = Table[i + 1] \o seqs[i + 2]
      BY <2>3, <3>1
    <3>3. Table[i + 1] \in Seq(S) /\ seqs[i + 2] \in Seq(S)
      BY <2>6, <3>1
    <3> QED BY <3>2, <3>3
  <2> HIDE DEF G
  <2>7. Nat \subseteq G
    BY <2>5, <2>6, SetInduction
  <2>8. n - 1 \in Nat /\ (n - 1) + 1 = n /\ n \in 1..n
    BY <1>1, <1>3
  <2> QED BY <2>4, <2>7, <2>8 DEF G
<1> QED BY <1>2, <1>3

(* Selecting elements keeps the type of a sequence.                         *)
LEMMA SelectedType ==
    ASSUME NEW S, NEW s \in Seq(S), NEW places
    PROVE  Selected(s, places) \in Seq(S)
<1> DEFINE seqs == [i \in DOMAIN s |-> IF i \in places THEN <<s[i]>> ELSE <<>>]
<1>1. Len(s) \in Nat /\ DOMAIN s = 1..Len(s)
  OBVIOUS
<1>2. ASSUME NEW i \in DOMAIN s PROVE seqs[i] \in Seq(S)
  <2>1. <<s[i]>> \in Seq(S) /\ <<>> \in Seq(S)
    BY <1>1
  <2> QED BY <2>1
<1>3. seqs \in Seq(Seq(S))
  BY <1>1, <1>2
<1> HIDE DEF seqs
<1>4. FlattenSeq(seqs) \in Seq(S)
  BY <1>3, FlattenType
<1> QED BY <1>4 DEF Selected, seqs

(* The values of metadata fields; what loading makes of a file.             *)
Values(file, store) == Nat \cup {file, store}
Documents(file, store) == [text : Seq(STRING), metadata : Seq(DocStoreSchema \X Values(file, store))]

Preset(page, file, store) ==
    <<Field("parent_doc_id", RootDocId), Field("page_no", page), Field("file_source", file),
      Field("start", 0), Field("end", 0), Field("vs_id", store)>>

Loaded(file, store) ==
    {d \in Documents(file, store) : \E page \in Nat : d.metadata = Preset(page, file, store)}

(* The elements of two sequences that are put together.                     *)
LEMMA Joined ==
    ASSUME NEW X, NEW s \in Seq(X), NEW u \in Seq(X)
    PROVE  /\ s \o u \in Seq(X) /\ Len(s \o u) = Len(s) + Len(u)
           /\ \A i \in 1..Len(s) : (s \o u)[i] = s[i]
           /\ \A i \in 1..Len(u) : (s \o u)[Len(s) + i] = u[i]
<1> DEFINE q == s \o u
<1>1. /\ q \in Seq(X) /\ Len(q) = Len(s) + Len(u)
      /\ \A i \in 1..(Len(s) + Len(u)) : q[i] = IF i <= Len(s) THEN s[i] ELSE u[i - Len(s)]
  BY ConcatProperties, Zenon
<1> HIDE DEF q
<1>2. \A i \in 1..Len(s) : q[i] = s[i]
  BY <1>1
<1>3. ASSUME NEW i \in 1..Len(u) PROVE q[Len(s) + i] = u[i]
  <2>1. Len(s) + i \in 1..(Len(s) + Len(u)) /\ ~ (Len(s) + i <= Len(s)) /\ (Len(s) + i) - Len(s) = i
    OBVIOUS
  <2> QED BY <1>1, <2>1
<1> QED BY <1>1, <1>2, <1>3 DEF q

(* The same, element by element, for the lengths that occur.                *)
LEMMA FiveJoined ==
    ASSUME NEW X, NEW s \in Seq(X), NEW u \in Seq(X)
    PROVE  Len(s) = 5 /\ Len(u) = 1 =>
           /\ s \o u \in Seq(X) /\ Len(s \o u) = 6
           /\ \A i \in 1..5 : (s \o u)[i] = s[i]
           /\ (s \o u)[6] = u[1]
<1> DEFINE q == s \o u
<1>1. /\ q \in Seq(X) /\ Len(q) = Len(s) + Len(u)
      /\ \A i \in 1..Len(s) : q[i] = s[i]
      /\ \A i \in 1..Len(u) : q[Len(s) + i] = u[i]
  BY Joined
<1> HIDE DEF q
<1> SUFFICES ASSUME Len(s) = 5, Len(u) = 1
               PROVE  q \in Seq(X) /\ Len(q) = 6 /\ (\A i \in 1..5 : q[i] = s[i]) /\ q[6] = u[1]
  BY DEF q
<1> QED BY <1>1

(* A document's own fields and the two of a chunk.                          *)
LEMMA SixJoined ==
    ASSUME NEW X, NEW s \in Seq(X), NEW u \in Seq(X)
    PROVE  Len(s) = 6 /\ Len(u) = 2 =>
           /\ s \o u \in Seq(X) /\ Len(s \o u) = 8
           /\ \A i \in 1..6 : (s \o u)[i] = s[i]
           /\ (s \o u)[7] = u[1] /\ (s \o u)[8] = u[2]
<1> DEFINE q == s \o u
<1>1. /\ q \in Seq(X) /\ Len(q) = Len(s) + Len(u)
      /\ \A i \in 1..Len(s) : q[i] = s[i]
      /\ \A i \in 1..Len(u) : q[Len(s) + i] = u[i]
  BY Joined
<1> HIDE DEF q
<1> SUFFICES ASSUME Len(s) = 6, Len(u) = 2
               PROVE  /\ q \in Seq(X) /\ Len(q) = 8 /\ \A i \in 1..6 : q[i] = s[i]
                      /\ q[7] = u[1] /\ q[8] = u[2]
  BY DEF q
<1>2. q \in Seq(X) /\ Len(q) = 8 /\ \A i \in 1..6 : q[i] = s[i]
  BY <1>1
<1>3. q[6 + 1] = u[1] /\ q[6 + 2] = u[2]
  BY <1>1
<1>4. q[7] = u[1] /\ q[8] = u[2]
  BY <1>3
<1> QED BY <1>2, <1>4

(* A sequence is one over its own elements.                                 *)
LEMMA OverItself ==
    ASSUME NEW X, NEW s \in Seq(X)
    PROVE  s \in Seq(ToSet(s)) /\ ToSet(s) \subseteq X
<1>1. Len(s) \in Nat /\ DOMAIN s = 1..Len(s) /\ s \in [1..Len(s) -> X]
  BY LenProperties
<1>2. \A i \in 1..Len(s) : s[i] \in ToSet(s)
  BY <1>1 DEF ToSet
<1>3. ToSet(s) \subseteq X
  BY <1>1 DEF ToSet
<1> DEFINE T == ToSet(s)
<1> HIDE DEF T
<1>4. s \in [1..Len(s) -> T]
  BY <1>1, <1>2 DEF T
<1>5. s \in Seq(T)
  BY <1>1, <1>4
<1> QED BY <1>3, <1>5 DEF T

(* Five fields and one are six.                                             *)
LEMMA FiveAndOne ==
    ASSUME NEW X, NEW a \in X, NEW b \in X, NEW c \in X, NEW d \in X, NEW e \in X, NEW f \in X
    PROVE  <<a, b, c, d, e>> \o <<f>> = <<a, b, c, d, e, f>>
<1> DEFINE s == <<a, b, c, d, e>>
           q == s \o <<f>>
           r == <<a, b, c, d, e, f>>
<1>1. /\ s \in Seq(X) /\ Len(s) = 5 /\ <<f>> \in Seq(X) /\ Len(<<f>>) = 1 /\ <<f>>[1] = f
      /\ s[1] = a /\ s[2] = b /\ s[3] = c /\ s[4] = d /\ s[5] = e
  OBVIOUS
<1>2. /\ r \in [1..6 -> X] /\ r[1] = a /\ r[2] = b /\ r[3] = c /\ r[4] = d /\ r[5] = e /\ r[6] = f
  OBVIOUS
<1> DEFINE u == <<f>>
<1> HIDE DEF s, u
<1>3. /\ q \in Seq(X) /\ Len(q) = 6 /\ q[6] = f
      /\ q[1] = s[1] /\ q[2] = s[2] /\ q[3] = s[3] /\ q[4] = s[4] /\ q[5] = s[5]
  <2>1. s \in Seq(X) /\ u \in Seq(X) /\ Len(s) = 5 /\ Len(u) = 1 /\ u[1] = f
    BY <1>1 DEF u
  <2>2. q = s \o u
    BY DEF u
  <2> HIDE DEF q
  <2>3. q \in Seq(X) /\ Len(q) = 6 /\ q[6] = f /\ \A i \in 1..5 : q[i] = s[i]
    BY <2>1, <2>2, FiveJoined
  <2> QED BY <2>3
<1> HIDE DEF q, r
<1>4. q \in [1..6 -> X]
  BY <1>3, LenProperties
<1>5. ASSUME NEW i \in 1..6 PROVE q[i] = r[i]
  <2>1. i = 1 \/ i = 2 \/ i = 3 \/ i = 4 \/ i = 5 \/ i = 6
    OBVIOUS
  <2> QED BY <2>1, <1>1, <1>2, <1>3
<1>6. q = r
  BY <1>2, <1>4, <1>5
<1> QED BY <1>6 DEF q, r, s

(* A new document has its six fields.                                       *)
LEMMA NewIsLoaded ==
    ASSUME NEW file, NEW store, NEW text \in Seq(STRING), NEW page \in Nat
    PROVE  NewDocument(text, page, file, store) \in Loaded(file, store)
<1> DEFINE V == Values(file, store)
           m == Preset(page, file, store)
<1> DEFINE X == DocStoreSchema \X V
           a == Field("parent_doc_id", RootDocId)
           b == Field("page_no", page)
           c == Field("file_source", file)
           d == Field("start", 0)
           e == Field("end", 0)
           f == Field("vs_id", store)
<1>0. a \in X /\ b \in X /\ c \in X /\ d \in X /\ e \in X /\ f \in X
  <2>1. ASSUME NEW x \in DocStoreSchema, NEW v \in V PROVE Field(x, v) \in X
    BY DEF Field
  <2>2. RootDocId \in V /\ page \in V /\ file \in V /\ 0 \in V /\ store \in V
    BY DEF Values, RootDocId
  <2>3. /\ "parent_doc_id" \in DocStoreSchema /\ "page_no" \in DocStoreSchema /\ "file_source" \in DocStoreSchema
        /\ "start" \in DocStoreSchema /\ "end" \in DocStoreSchema /\ "vs_id" \in DocStoreSchema
    BY DEF DocStoreSchema, PresetSchema
  <2> HIDE DEF X, V
  <2> QED BY <2>1, <2>2, <2>3, Zenon
<1>1. AddPresetMetadataFields(<<>>, RootDocId, page, file, 0, 0) \o <<Field("vs_id", store)>> = m
  <2>1. AddPresetMetadataFields(<<>>, RootDocId, page, file, 0, 0) = <<>> \o <<a, b, c, d, e>>
    BY Zenon DEF AddPresetMetadataFields
  <2>2. m = <<a, b, c, d, e, f>>
    BY Zenon DEF Preset
  <2> HIDE DEF a, b, c, d, e, f, X, m
  <2>3. <<>> \o <<a, b, c, d, e>> = <<a, b, c, d, e>>
    <3>1. <<a, b, c, d, e>> \in Seq(X)
      BY <1>0
    <3> QED BY <3>1, ConcatEmptySeq
  <2>4. <<a, b, c, d, e>> \o <<f>> = <<a, b, c, d, e, f>>
    BY <1>0, FiveAndOne
  <2> QED BY <2>1, <2>2, <2>3, <2>4, Zenon DEF f
<1>2. m \in Seq(DocStoreSchema \X V)
  <2> HIDE DEF a, b, c, d, e, f, X
  <2>1. <<a, b, c, d, e, f>> \in Seq(X)
    BY <1>0
  <2> QED BY <2>1 DEF Preset, a, b, c, d, e, f, X
<1> HIDE DEF m
<1>3. NewDocument(text, page, file, store) = [text |-> text, metadata |-> m]
  BY <1>1 DEF NewDocument
<1>4. [text |-> text, metadata |-> m] \in Documents(file, store)
  BY <1>2 DEF Documents
<1> QED BY <1>3, <1>4 DEF Loaded, m

(* Each ingestor makes a sequence of such documents.                        *)
LEMMA LoadType ==
    ASSUME NEW file \in Files, NEW store \in Stores, CanIngest(file)
    PROVE  Load(file, store) \in Seq(Loaded(file, store))
<1> DEFINE c == Content[file]
           L == Loaded(file, store)
<1>1. c \in Seq(Seq(STRING))
  BY RetrievalAssumption
<1> DEFINE all == FlattenSeq(c)
<1>2. all \in Seq(STRING)
  BY <1>1, FlattenType
<1>3. CASE Format[file] = "pdf"
  <2>1. Len(c) \in Nat /\ DOMAIN c = 1..Len(c)
    BY <1>1
  <2>2. ASSUME NEW i \in 1..Len(c) PROVE NewDocument(c[i], i, file, store) \in L
    <3>1. c[i] \in Seq(STRING) /\ i \in Nat
      BY <1>1, <2>1
    <3> QED BY <3>1, NewIsLoaded
  <2> HIDE DEF L, c
  <2>3. [i \in 1..Len(c) |-> NewDocument(c[i], i, file, store)] \in Seq(L)
    BY <2>1, <2>2
  <2>4. LoadPdf(file, store) \in Seq(L)
    BY <2>1, <2>3 DEF LoadPdf, c
  <2> QED BY <1>3, <2>4 DEF Load, L
<1>4. CASE Format[file] \in {"txt", "md"}
  <2>1. NewDocument(all, 1, file, store) \in L
    BY <1>2, NewIsLoaded
  <2> HIDE DEF L
  <2>2. LoadText(file, store) \in Seq(L)
    BY <2>1 DEF LoadText
  <2> QED BY <1>4, <2>2 DEF Load, L
<1>5. CASE Format[file] = "docx"
  <2> DEFINE n == Len(all)
             P == PageParagraphs
             count == (n + P - 1) \div P
             groups == [g \in 1..count |->
                          SubSeq(all, (g - 1) * P + 1, IF g * P < n THEN g * P ELSE n)]
             kept == Selected(groups, {g \in DOMAIN groups : ~ Blank(groups[g])})
  <2>1. n \in Nat /\ P \in Nat \ {0} /\ count \in Nat
    <3>1. n \in Nat /\ P \in Nat \ {0}
      BY <1>2, RetrievalAssumption
    <3> HIDE DEF n, P
    <3>2. n + P - 1 \in Nat
      BY <3>1
    <3>3. (n + P - 1) \div P \in Nat
      BY <3>1, <3>2
    <3> QED BY <3>1, <3>3
  <2>2. ASSUME NEW g \in 1..count
        PROVE  SubSeq(all, (g - 1) * P + 1, IF g * P < n THEN g * P ELSE n) \in Seq(STRING)
    <3> DEFINE a == (g - 1) * P + 1
               b == IF g * P < n THEN g * P ELSE n
    <3>1. a \in Nat \ {0} /\ b \in Nat /\ b <= n
      <4>1. g \in Nat \ {0} /\ g - 1 \in Nat
        BY <2>1
      <4>2. g * P \in Nat /\ (g - 1) * P \in Nat
        BY <2>1, <4>1
      <4> QED BY <2>1, <4>2
    <3> HIDE DEF a, b
    <3>2. \A i \in a..b : all[i] \in STRING
      BY <1>2, <2>1, <3>1
    <3>3. SubSeq(all, a, b) \in Seq(STRING)
      BY <3>1, <3>2, SubSeqProperties
    <3> QED BY <3>3 DEF a, b
  <2> HIDE DEF n, P, count
  <2>3. groups \in Seq(Seq(STRING))
    BY <2>1, <2>2
  <2> HIDE DEF groups
  <2>4. kept \in Seq(Seq(STRING))
    BY <2>3, SelectedType
  <2> HIDE DEF kept
  <2>5. Len(kept) \in Nat /\ DOMAIN kept = 1..Len(kept)
    BY <2>4
  <2>6. ASSUME NEW i \in 1..Len(kept) PROVE NewDocument(kept[i], i, file, store) \in L
    <3>1. kept[i] \in Seq(STRING) /\ i \in Nat
      BY <2>4, <2>5
    <3> QED BY <3>1, NewIsLoaded
  <2> HIDE DEF L
  <2>7. [i \in 1..Len(kept) |-> NewDocument(kept[i], i, file, store)] \in Seq(L)
    BY <2>5, <2>6
  <2>8. LoadDocx(file, store) = [i \in DOMAIN kept |-> NewDocument(kept[i], i, file, store)]
    BY DEF LoadDocx, kept, groups, n, P, count
  <2>9. LoadDocx(file, store) \in Seq(L)
    BY <2>5, <2>7, <2>8
  <2> QED BY <1>5, <2>9 DEF Load, L
<1> QED BY <1>3, <1>4, <1>5 DEF CanIngest

(* A chunk of a loaded document: text, and metadata of which the places of  *)
(* the file and of the store are the only ones of their name.               *)
LEMMA ChunkIsIngested ==
    ASSUME NEW file, NEW store, NEW d \in Loaded(file, store), NEW p, NEW i \in Nat,
           NEW doc, doc = [text |-> <<p>>,
                           metadata |-> d.metadata \o <<Field("start", i), Field("end", i + 1)>>]
    PROVE  IngestedDocument(doc, file, store)
<1> DEFINE X == DocStoreSchema \X Values(file, store)
           u == <<Field("start", i), Field("end", i + 1)>>
           m == doc.metadata
<1>1. PICK page \in Nat : d.metadata = Preset(page, file, store)
  BY DEF Loaded
<1>2. d.metadata \in Seq(X)
  BY DEF Loaded, Documents
<1>3. /\ Len(d.metadata) = 6
      /\ d.metadata[1][1] = "parent_doc_id" /\ d.metadata[2][1] = "page_no"
      /\ d.metadata[3][1] = "file_source" /\ d.metadata[3][2] = file
      /\ d.metadata[4][1] = "start" /\ d.metadata[5][1] = "end"
      /\ d.metadata[6][1] = "vs_id" /\ d.metadata[6][2] = store
  BY <1>1 DEF Preset, Field
<1>4. u \in Seq(X) /\ Len(u) = 2 /\ u[1][1] = "start" /\ u[2][1] = "end"
  <2>1. "start" \in DocStoreSchema /\ "end" \in DocStoreSchema
    BY DEF DocStoreSchema, PresetSchema
  <2>2. i \in Values(file, store) /\ i + 1 \in Values(file, store)
    BY DEF Values
  <2>3. Field("start", i) \in X /\ Field("end", i + 1) \in X
    BY <2>1, <2>2 DEF Field
  <2>4. Field("start", i)[1] = "start" /\ Field("end", i + 1)[1] = "end"
    BY DEF Field
  <2> HIDE DEF X
  <2> QED BY <2>3, <2>4
<1>5. m = d.metadata \o u /\ DOMAIN doc.text # {}
  OBVIOUS
<1> HIDE DEF u, X, m
<1>6. /\ m \in Seq(X) /\ Len(m) = 8
      /\ \A j \in 1..6 : m[j] = d.metadata[j]
      /\ m[7] = u[1] /\ m[8] = u[2]
  <2> DEFINE s == d.metadata
  <2>1. s \in Seq(X) /\ u \in Seq(X) /\ Len(s) = 6 /\ Len(u) = 2 /\ m = s \o u
    BY <1>2, <1>3, <1>4, <1>5
  <2> HIDE DEF s
  <2>2. /\ m \in Seq(X) /\ Len(m) = 8 /\ m[7] = u[1] /\ m[8] = u[2]
        /\ \A j \in 1..6 : m[j] = s[j]
    <3>1. /\ s \o u \in Seq(X) /\ Len(s \o u) = 8
          /\ \A k \in 1..6 : (s \o u)[k] = s[k]
          /\ (s \o u)[7] = u[1] /\ (s \o u)[8] = u[2]
      BY <2>1, SixJoined, SMTT(30)
    <3> QED BY <2>1, <3>1
  <2> QED BY <2>2 DEF s
<1>7. /\ DOMAIN m = 1..8 /\ m[3][2] = file /\ m[6][2] = store
      /\ \A j \in 1..8 : (m[j][1] = "file_source" <=> j = 3) /\ (m[j][1] = "vs_id" <=> j = 6)
  <2>1. DOMAIN m = 1..8
    BY <1>6
  <2>2. /\ m[1] = d.metadata[1] /\ m[2] = d.metadata[2] /\ m[3] = d.metadata[3]
        /\ m[4] = d.metadata[4] /\ m[5] = d.metadata[5] /\ m[6] = d.metadata[6]
        /\ m[7] = u[1] /\ m[8] = u[2]
    BY <1>6
  <2>3. ASSUME NEW j \in 1..8 PROVE (m[j][1] = "file_source" <=> j = 3) /\ (m[j][1] = "vs_id" <=> j = 6)
    <3>1. j = 1 \/ j = 2 \/ j = 3 \/ j = 4 \/ j = 5 \/ j = 6 \/ j = 7 \/ j = 8
      OBVIOUS
    <3> QED BY <3>1, <2>2, <1>3, <1>4
  <2> QED BY <2>1, <2>2, <2>3, <1>3
<1>8. Places(m, "file_source") = {3} /\ Places(m, "vs_id") = {6}
  BY <1>7 DEF Places
<1>9. /\ (CHOOSE j \in {3} : \A k \in {3} : j <= k) = 3
      /\ (CHOOSE j \in {3} : \A k \in {3} : j >= k) = 3
      /\ (CHOOSE j \in {6} : \A k \in {6} : j >= k) = 6
  OBVIOUS
<1>10. /\ GetMetadataField(m, "file_source") = file
       /\ Column(m, "file_source") = file /\ Column(m, "vs_id") = store
  BY <1>7, <1>8, <1>9 DEF GetMetadataField, Column
<1>11. m \in Seq(ToSet(m))
  BY <1>6, OverItself
<1> QED BY <1>5, <1>10, <1>11 DEF IngestedDocument, m

(* Loading and splitting keep the origin of a document, for every content   *)
(* of a file: by induction over its pages and paragraphs.                   *)
THEOREM OriginIsKept == SplitsKeepOrigin
<1> SUFFICES ASSUME NEW file \in Files, NEW store \in Stores, CanIngest(file)
             PROVE  LET documents == SplitDocuments(Load(file, store))
                    IN  /\ documents \in Seq(ToSet(documents))
                        /\ \A d \in ToSet(documents) : IngestedDocument(d, file, store)
  BY DEF SplitsKeepOrigin
<1> DEFINE docs0 == Load(file, store)
           L == Loaded(file, store)
           chosen(d) == Selected(d.text, {i \in DOMAIN d.text : d.text[i] # "blank"})
           chunk(d, i) == [text |-> <<chosen(d)[i]>>,
                           metadata |-> d.metadata \o <<Field("start", i), Field("end", i + 1)>>]
           split(d) == [i \in DOMAIN chosen(d) |-> chunk(d, i)]
           all == {chunk(d, i) : d \in L, i \in Nat}
           seqs == [i \in DOMAIN docs0 |-> split(docs0[i])]
<1>1. docs0 \in Seq(L)
  BY LoadType
<1>2. ASSUME NEW d \in L PROVE split(d) \in Seq(all)
  <2> DEFINE text == chosen(d)
  <2>1. d.text \in Seq(STRING)
    BY DEF Loaded, Documents
  <2>2. text \in Seq(STRING)
    BY <2>1, SelectedType
  <2>3. Len(text) \in Nat /\ DOMAIN text = 1..Len(text)
    BY <2>2
  <2>4. ASSUME NEW i \in 1..Len(text) PROVE chunk(d, i) \in all
    <3>1. i \in Nat
      BY <2>3
    <3> HIDE DEF chunk, L
    <3> QED BY <3>1
  <2> HIDE DEF all, chunk, chosen, L
  <2>5. [i \in 1..Len(text) |-> chunk(d, i)] \in Seq(all)
    BY <2>3, <2>4
  <2> QED BY <2>3, <2>5
<1>3. \A d \in all : IngestedDocument(d, file, store)
  <2> SUFFICES ASSUME NEW d \in L, NEW i \in Nat PROVE IngestedDocument(chunk(d, i), file, store)
    <3> HIDE DEF chunk, L
    <3> QED OBVIOUS
  <2> DEFINE p == chosen(d)[i]
             doc == chunk(d, i)
  <2>1. doc = [text |-> <<p>>, metadata |-> d.metadata \o <<Field("start", i), Field("end", i + 1)>>]
    OBVIOUS
  <2> HIDE DEF p, doc
  <2>2. IngestedDocument(doc, file, store)
    BY <2>1, ChunkIsIngested
  <2> QED BY <2>2 DEF doc
<1>4. SplitDocuments(docs0) = FlattenSeq(seqs)
  BY DEF SplitDocuments
<1> HIDE DEF docs0, L, split, all
<1>5. seqs \in Seq(Seq(all))
  <2>1. Len(docs0) \in Nat /\ DOMAIN docs0 = 1..Len(docs0) /\ \A i \in 1..Len(docs0) : docs0[i] \in L
    BY <1>1
  <2>2. \A i \in 1..Len(docs0) : split(docs0[i]) \in Seq(all)
    BY <1>2, <2>1
  <2> QED BY <2>1, <2>2
<1> HIDE DEF seqs
<1> DEFINE documents == FlattenSeq(seqs)
<1>6. documents \in Seq(all)
  BY <1>5, FlattenType
<1> HIDE DEF documents
<1>7. documents \in Seq(ToSet(documents)) /\ ToSet(documents) \subseteq all
  BY <1>6, OverItself
<1> QED BY <1>3, <1>4, <1>7 DEF documents, docs0

-----------------------------------------------------------------------------
(* The records of the threads, and how the steps change them.                *)

\* A record with the fields of Idle, whatever they hold.
Shape(x) ==
    x \in [op : {x.op}, at : {x.at}, store : {x.store}, file : {x.file},
           guidance : {x.guidance}, input : {x.input}, batch : {x.batch}, ids : {x.ids},
           paths : {x.paths}, alone : {x.alone}]

ShapeInv ==
    /\ thread \in [Threads -> {thread[t] : t \in Threads}]
    /\ \A t \in Threads : Shape(thread[t])

\* What an operation keeps until it ends.
Keeps(x, y) ==
    /\ y.op = x.op /\ y.store = x.store /\ y.file = x.file /\ y.guidance = x.guidance
    /\ y.paths = x.paths /\ y.alone = x.alone

Others(t) == \A u \in Threads : u # t => thread'[u] = thread[u]

\* A thread without an operation.
LEMMA IdleFacts ==
    /\ Shape(Idle) /\ Idle.op = "idle" /\ Idle.at = "-" /\ Idle.store = "-"
BY DEF Shape, Idle

\* A step that only moves its thread on.
LEMMA GoToShape ==
    ASSUME ShapeInv, NEW t \in Threads, NEW a, GoTo(t, a)
    PROVE  /\ ShapeInv' /\ Others(t)
           /\ thread'[t].at = a /\ Keeps(thread[t], thread'[t])
           /\ thread'[t].input = thread[t].input /\ thread'[t].batch = thread[t].batch
           /\ thread'[t].ids = thread[t].ids
<1>1. Shape(thread[t])
  BY DEF ShapeInv
<1>2. thread' = [thread EXCEPT ![t] = [thread[t] EXCEPT !.at = a]]
  BY DEF GoTo
<1>3. Shape([thread[t] EXCEPT !.at = a])
  BY <1>1 DEF Shape
<1>4. thread'[t] = [thread[t] EXCEPT !.at = a] /\ Others(t)
  BY <1>2 DEF ShapeInv, Others
<1>5. ShapeInv'
  BY <1>2, <1>3, <1>4 DEF ShapeInv, Others
<1>6. QED
  BY <1>1, <1>4, <1>5 DEF Shape, Keeps

\* A step that ends its operation.
LEMMA FailShape ==
    ASSUME ShapeInv, NEW t \in Threads, Fail(t)
    PROVE  ShapeInv' /\ Others(t) /\ thread'[t] = Idle
<1>1. thread'[t] = Idle /\ Others(t)
  BY DEF ShapeInv, Others, Fail
<1>2. QED
  BY <1>1, IdleFacts DEF ShapeInv, Others, Fail

\* An operation that starts: what it spoils is told, the rest is left alone.
LEMMA LaunchShape ==
    ASSUME ShapeInv, NEW t \in Threads, NEW me, Shape(me), Launch(t, me)
    PROVE  /\ ShapeInv' /\ thread[t] = Idle
           /\ thread'[t].at = me.at /\ thread'[t].op = me.op /\ thread'[t].store = me.store
           /\ thread'[t].file = me.file /\ thread'[t].guidance = me.guidance
           /\ thread'[t].paths = me.paths /\ thread'[t].input = me.input
           /\ thread'[t].batch = me.batch /\ thread'[t].ids = me.ids
           /\ thread'[t].alone => \A v \in Threads : ~ Spoils(thread[v], me)
           /\ \A u \in Threads : u # t =>
                /\ thread'[u].at = thread[u].at /\ thread'[u].op = thread[u].op
                /\ thread'[u].store = thread[u].store /\ thread'[u].file = thread[u].file
                /\ thread'[u].guidance = thread[u].guidance /\ thread'[u].paths = thread[u].paths
                /\ thread'[u].input = thread[u].input /\ thread'[u].batch = thread[u].batch
                /\ thread'[u].ids = thread[u].ids
                /\ thread'[u].alone => thread[u].alone /\ ~ Spoils(me, thread[u])
<1> DEFINE Spoilt == \A v \in Threads : ~ Spoils(thread[v], me)
           Stays(u) == thread[u].alone /\ ~ Spoils(me, thread[u])
<1>1. /\ thread[t] = Idle
      /\ thread' = [u \in Threads |-> IF u = t THEN [me EXCEPT !.alone = Spoilt]
                                      ELSE [thread[u] EXCEPT !.alone = Stays(u)]]
  BY Zenon DEF Launch
<1> HIDE DEF Spoilt, Stays
<1>2. thread'[t] = [me EXCEPT !.alone = Spoilt]
  BY <1>1, Zenon
<1>3. \A u \in Threads : u # t => thread'[u] = [thread[u] EXCEPT !.alone = Stays(u)]
  BY <1>1, Zenon
<1>4. /\ Shape(thread'[t]) /\ thread'[t].alone = Spoilt
      /\ thread'[t].at = me.at /\ thread'[t].op = me.op /\ thread'[t].store = me.store
      /\ thread'[t].file = me.file /\ thread'[t].guidance = me.guidance
      /\ thread'[t].paths = me.paths /\ thread'[t].input = me.input
      /\ thread'[t].batch = me.batch /\ thread'[t].ids = me.ids
  BY <1>2 DEF Shape
<1>5. ASSUME NEW u \in Threads, u # t
      PROVE  /\ Shape(thread'[u]) /\ thread'[u].alone = Stays(u)
             /\ thread'[u].at = thread[u].at /\ thread'[u].op = thread[u].op
             /\ thread'[u].store = thread[u].store /\ thread'[u].file = thread[u].file
             /\ thread'[u].guidance = thread[u].guidance /\ thread'[u].paths = thread[u].paths
             /\ thread'[u].input = thread[u].input /\ thread'[u].batch = thread[u].batch
             /\ thread'[u].ids = thread[u].ids
  <2>1. Shape(thread[u]) /\ thread'[u] = [thread[u] EXCEPT !.alone = Stays(u)]
    BY <1>3, <1>5 DEF ShapeInv
  <2>2. QED
    BY <2>1 DEF Shape
<1>6. ShapeInv'
  <2>1. \A u \in Threads : Shape(thread'[u])
    BY <1>4, <1>5, Zenon
  <2>2. thread' \in [Threads -> {thread'[u] : u \in Threads}]
    BY <1>1, Zenon
  <2>3. QED
    BY <2>1, <2>2, Zenon DEF ShapeInv, Shape
<1>7. thread'[t].alone => Spoilt
  BY <1>4, Zenon
<1>8. \A u \in Threads : u # t => (thread'[u].alone => Stays(u))
  BY <1>5, Zenon
<1>9. QED
  BY <1>1, <1>4, <1>5, <1>6, <1>7, <1>8, ZenonT(40) DEF Spoilt, Stays


\* What an operation is when it starts.
StartsAs(me) ==
    /\ Shape(me) /\ me.batch = <<>> /\ me.ids = {}
    /\ \/ me.op = "provision" /\ me.at = "getInstance" /\ me.store \in Stores \ known
       \/ me.op = "cleanup" /\ me.at = "deleteDocs" /\ me.store \in known /\ me.paths = {me.store}
       \/ /\ me.op = "remove" /\ me.at = "load" /\ me.store \in known /\ me.paths = {me.store}
          /\ me.file \in Files
       \/ /\ me.op = "ingest" /\ me.at = "load" /\ me.store \in known /\ me.paths = {me.store}
          /\ me.file \in Files /\ CanIngest(me.file) /\ me.guidance \in Guidances[me.store]
          /\ me.input = SplitDocuments(Load(me.file, me.store))
       \/ me.op = "search" /\ me.at = "load"

\* Every operation starts as one of these.
LEMMA StartLaunches ==
    ASSUME NEW t \in Threads, Start(t)
    PROVE  \E me : StartsAs(me) /\ Launch(t, me)
<1>1. ASSUME NEW s \in Stores, StartProvision(t, s)
      PROVE  \E me : StartsAs(me) /\ Launch(t, me)
  <2> DEFINE me == [Idle EXCEPT !.op = "provision", !.at = "getInstance", !.store = s]
  <2>1. Launch(t, me) /\ s \notin known
    BY <1>1, Zenon DEF StartProvision
  <2>2. Shape(me) /\ me.op = "provision" /\ me.at = "getInstance" /\ me.store = s
        /\ me.batch = <<>> /\ me.ids = {}
    BY DEF Idle, Shape
  <2>3. StartsAs(me)
    BY <2>1, <2>2 DEF StartsAs
  <2>4. QED
    BY <2>1, <2>3, Zenon
<1>2. ASSUME NEW s \in known, StartCleanup(t, s)
      PROVE  \E me : StartsAs(me) /\ Launch(t, me)
  <2> DEFINE me == [Idle EXCEPT !.op = "cleanup", !.at = "deleteDocs", !.store = s,
                                !.paths = {s}]
  <2>1. Launch(t, me)
    BY <1>2, Zenon DEF StartCleanup
  <2>2. Shape(me) /\ me.op = "cleanup" /\ me.at = "deleteDocs" /\ me.store = s /\ me.paths = {s}
        /\ me.batch = <<>> /\ me.ids = {}
    BY DEF Idle, Shape
  <2>3. StartsAs(me)
    BY <2>2 DEF StartsAs
  <2>4. QED
    BY <2>1, <2>3, Zenon
<1>3. ASSUME NEW s \in known, NEW f \in Files, StartRemove(t, s, f)
      PROVE  \E me : StartsAs(me) /\ Launch(t, me)
  <2> DEFINE me == [Idle EXCEPT !.op = "remove", !.at = "load", !.store = s, !.file = f,
                                !.paths = {s}]
  <2>1. Launch(t, me)
    BY <1>3, Zenon DEF StartRemove
  <2>2. Shape(me) /\ me.op = "remove" /\ me.at = "load" /\ me.store = s /\ me.paths = {s}
        /\ me.file = f /\ me.batch = <<>> /\ me.ids = {}
    BY DEF Idle, Shape
  <2>3. StartsAs(me)
    BY <2>2 DEF StartsAs
  <2>4. QED
    BY <2>1, <2>3, Zenon
<1>4. ASSUME NEW s \in known, NEW f \in Files, NEW g \in Guidances[s], StartIngest(t, s, f, g)
      PROVE  \E me : StartsAs(me) /\ Launch(t, me)
  <2> DEFINE me == [Idle EXCEPT !.op = "ingest", !.at = "load", !.store = s, !.file = f,
                                !.guidance = g, !.paths = {s},
                                !.input = SplitDocuments(Load(f, s))]
  <2>1. Launch(t, me) /\ CanIngest(f)
    BY <1>4, Zenon DEF StartIngest
  <2>2. Shape(me) /\ me.op = "ingest" /\ me.at = "load" /\ me.store = s /\ me.paths = {s}
        /\ me.file = f /\ me.guidance = g /\ me.input = SplitDocuments(Load(f, s))
        /\ me.batch = <<>> /\ me.ids = {}
    BY DEF Idle, Shape
  <2>3. StartsAs(me)
    BY <2>1, <2>2 DEF StartsAs
  <2>4. QED
    BY <2>1, <2>3, Zenon
<1>5. ASSUME NEW some \in SUBSET known \ {{}}, StartSearch(t, some)
      PROVE  \E me : StartsAs(me) /\ Launch(t, me)
  <2> DEFINE me == [Idle EXCEPT !.op = "search", !.at = "load", !.paths = some]
  <2>1. Launch(t, me)
    BY <1>5, Zenon DEF StartSearch
  <2>2. Shape(me) /\ me.op = "search" /\ me.at = "load" /\ me.batch = <<>> /\ me.ids = {}
    BY DEF Idle, Shape
  <2>3. StartsAs(me)
    BY <2>2 DEF StartsAs
  <2>4. QED
    BY <2>1, <2>3, Zenon
<1>6. QED
  BY <1>1, <1>2, <1>3, <1>4, <1>5, Zenon DEF Start


\* The batch that AddParents takes from the input, and its rows.
BatchLen(x) == IF Len(x.input) < BatchSize THEN Len(x.input) ELSE BatchSize
Batch(x) == [i \in 1..BatchLen(x) |-> WithId(x.input[i], nextId + i - 1)]
ParentRows(b, n) == {[id |-> b[i].id, source |-> Column(b[i].metadata, "file_source"),
                      vs |-> Column(b[i].metadata, "vs_id")] : i \in 1..n}

\* AddParents inserts its batch, or the operation ends.
LEMMA AddParentsShape ==
    ASSUME ShapeInv, NEW t \in Threads, AddParents(t)
    PROVE  /\ ShapeInv' /\ Others(t) /\ thread[t].at = "addParents" /\ thread[t].input # <<>>
           /\ UNCHANGED <<tables, chunks, meta, history, bounds>>
           /\ \/ /\ Keeps(thread[t], thread'[t]) /\ thread'[t].at = "addChildren"
                 /\ docs' = docs \cup ParentRows(Batch(thread[t]), BatchLen(thread[t]))
                 /\ thread'[t].batch = Batch(thread[t])
                 /\ thread'[t].input = SubSeq(thread[t].input, BatchLen(thread[t]) + 1,
                                              Len(thread[t].input))
                 /\ thread'[t].ids = thread[t].ids \cup
                      {r.id : r \in ParentRows(Batch(thread[t]), BatchLen(thread[t]))}
              \/ thread'[t] = Idle /\ UNCHANGED docs
<1> DEFINE x == thread[t]
           n == BatchLen(x)
           batch == Batch(x)
           rows == ParentRows(batch, n)
           rest == SubSeq(x.input, n + 1, Len(x.input))
           y == [x EXCEPT !.at = "addChildren", !.batch = batch, !.input = rest,
                          !.ids = x.ids \cup {r.id : r \in rows}]
<1>1. /\ x.at = "addParents" /\ x.input # <<>>
      /\ UNCHANGED <<tables, chunks, meta, history, bounds>>
  BY DEF AddParents, At
<1>2. \/ /\ docs' = docs \cup rows
         /\ thread' = [thread EXCEPT ![t].at = "addChildren", ![t].batch = batch,
                                     ![t].input = SubSeq(@, n + 1, Len(@)),
                                     ![t].ids = @ \cup {r.id : r \in rows}]
      \/ Fail(t) /\ UNCHANGED docs
  BY Zenon DEF AddParents, BatchLen, Batch, ParentRows
<1> HIDE DEF n, batch, rows
<1>3. CASE /\ docs' = docs \cup rows
           /\ thread' = [thread EXCEPT ![t].at = "addChildren", ![t].batch = batch,
                                       ![t].input = SubSeq(@, n + 1, Len(@)),
                                       ![t].ids = @ \cup {r.id : r \in rows}]
  <2>1. Shape(x)
    BY DEF ShapeInv
  <2>2. thread'[t] = y /\ Others(t)
    BY <1>3, <2>1 DEF ShapeInv, Others, Shape
  <2>3. Shape(y) /\ Keeps(x, y) /\ y.at = "addChildren" /\ y.batch = batch /\ y.input = rest
        /\ y.ids = x.ids \cup {r.id : r \in rows}
    BY <2>1 DEF Shape, Keeps
  <2>4. ShapeInv'
    <3>1. thread' \in [Threads -> {thread'[u] : u \in Threads}]
      BY <1>3, Zenon DEF ShapeInv
    <3>2. \A u \in Threads : Shape(thread'[u])
      BY <2>2, <2>3, Zenon DEF ShapeInv, Others
    <3>3. QED
      BY <3>1, <3>2, Zenon DEF ShapeInv, Shape
  <2>5. QED
    BY <1>1, <1>3, <2>2, <2>3, <2>4, Zenon DEF n, batch, rows
<1>4. CASE Fail(t) /\ UNCHANGED docs
  BY <1>1, <1>4, FailShape, Zenon
<1>5. QED
  BY <1>2, <1>3, <1>4

\* Some guidance documents for the head of the batch are embedded.
Embeds(x, children) ==
    /\ chunks' = chunks \cup ChildRows(x.store, children)
    /\ silent' = silent \cup {p \in {<<x.store, Head(x.batch).id>>} : DOMAIN children = {}}

\* AddChildren embeds the next document of the batch, or the operation ends.
LEMMA AddChildrenShape ==
    ASSUME ShapeInv, NEW t \in Threads, AddChildren(t)
    PROVE  /\ ShapeInv' /\ Others(t) /\ thread[t].at = "addChildren" /\ thread[t].batch # <<>>
           /\ UNCHANGED <<docs, tables, meta, nextId, history, known, ops, crashes>>
           /\ \/ /\ Keeps(thread[t], thread'[t]) /\ thread[t].store \in tables
                 /\ thread'[t].at = IF Len(thread[t].batch) = 1 THEN "addParents"
                                    ELSE "addChildren"
                 /\ \E children \in Guidance(thread[t].guidance, Head(thread[t].batch)) :
                       Embeds(thread[t], children)
                 /\ thread'[t].batch = Tail(thread[t].batch)
                 /\ thread'[t].input = thread[t].input /\ thread'[t].ids = thread[t].ids
              \/ thread'[t] = Idle /\ UNCHANGED <<chunks, silent>>
<1> DEFINE x == thread[t]
           Some == \E children \in Guidance(x.guidance, Head(x.batch)) : Embeds(x, children)
           after == IF Len(x.batch) = 1 THEN "addParents" ELSE x.at
           y == [x EXCEPT !.batch = Tail(x.batch), !.at = after]
<1>1. /\ x.at = "addChildren" /\ x.batch # <<>>
      /\ UNCHANGED <<docs, tables, meta, nextId, history, known, ops, crashes>>
  BY Zenon DEF AddChildren, At
<1>2. \/ /\ x.store \in tables /\ Some
         /\ thread' = [thread EXCEPT ![t].batch = Tail(@),
                                     ![t].at = IF Len(x.batch) = 1 THEN "addParents" ELSE @]
      \/ Fail(t) /\ UNCHANGED <<chunks, silent>>
  BY Zenon DEF AddChildren, Embeds
<1> HIDE DEF Some
<1>3. CASE /\ x.store \in tables /\ Some
           /\ thread' = [thread EXCEPT ![t].batch = Tail(@),
                                       ![t].at = IF Len(x.batch) = 1 THEN "addParents" ELSE @]
  <2>1. Shape(x)
    BY DEF ShapeInv
  <2>2. thread'[t] = y /\ Others(t)
    BY <1>3, <2>1 DEF ShapeInv, Others, Shape
  <2>3. Shape(y) /\ Keeps(x, y) /\ y.at = after /\ y.batch = Tail(x.batch)
        /\ y.input = x.input /\ y.ids = x.ids
    BY <2>1 DEF Shape, Keeps
  <2>4. ShapeInv'
    BY <1>3, <2>2, <2>3 DEF ShapeInv, Others
  <2>5. after = IF Len(x.batch) = 1 THEN "addParents" ELSE "addChildren"
    BY <1>1
  <2>6. QED
    BY <1>1, <1>3, <2>2, <2>3, <2>4, <2>5, Zenon DEF Some
<1>4. CASE Fail(t) /\ UNCHANGED <<chunks, silent>>
  BY <1>1, <1>4, FailShape, Zenon
<1>5. QED
  BY <1>2, <1>3, <1>4

\* Search remembers what it found, or the operation ends.
LEMMA SearchShape ==
    ASSUME ShapeInv, NEW t \in Threads, Search(t)
    PROVE  /\ ShapeInv' /\ Others(t) /\ thread[t].at = "search"
           /\ \/ Keeps(thread[t], thread'[t]) /\ thread'[t].at = "multiGet"
              \/ thread'[t] = Idle
<1> DEFINE x == thread[t]
<1>1. /\ x.at = "search"
      /\ \/ \E found : thread' = [thread EXCEPT ![t].ids = {c.parent : c \in found},
                                               ![t].at = "multiGet"]
         \/ Fail(t)
  BY Zenon DEF Search, At
<1>2. ASSUME NEW found, thread' = [thread EXCEPT ![t].ids = {c.parent : c \in found},
                                                 ![t].at = "multiGet"]
      PROVE  /\ ShapeInv' /\ Others(t)
             /\ Keeps(x, thread'[t]) /\ thread'[t].at = "multiGet"
  <2> DEFINE ids == {c.parent : c \in found}
             y == [x EXCEPT !.ids = ids, !.at = "multiGet"]
  <2>0. thread' = [thread EXCEPT ![t].ids = ids, ![t].at = "multiGet"]
    BY <1>2
  <2> HIDE DEF ids
  <2>1. Shape(x)
    BY DEF ShapeInv
  <2>2. thread'[t] = y /\ Others(t)
    BY <2>0, <2>1 DEF ShapeInv, Others, Shape
  <2>3. Shape(y) /\ Keeps(x, y) /\ y.at = "multiGet"
    BY <2>1 DEF Shape, Keeps
  <2>4. ShapeInv'
    BY <2>0, <2>2, <2>3 DEF ShapeInv, Others
  <2>5. QED
    BY <2>2, <2>3, <2>4, Zenon
<1>3. CASE Fail(t)
  BY <1>1, <1>3, FailShape, Zenon
<1>4. QED
  BY <1>1, <1>2, <1>3, Zenon


\* The next place of an operation.
Moves(x, y) ==
    \/ x.at = "getInstance" /\ y.at = "createTable"
    \/ x.at = "createTable" /\ y.at = "insertInstance"
    \/ x.at = "load" /\ y.at = "open" /\ x.paths \subseteq meta
    \/ x.at = "load" /\ y.at = "removeRow" /\ x.op = "cleanup" /\ ~ x.paths \subseteq meta
    \/ x.at = "open" /\ y.at = AfterOpen[x.op]
    \/ x.at = "deleteDocs" /\ y.at = "load"
    \/ x.at = "drop" /\ y.at = "removeRow"
    \/ x.at \in {"addParents", "addChildren"} /\ y.at \in {"addParents", "addChildren"}
    \/ x.at = "deleteParents" /\ y.at = "deleteChildren"
    \/ x.at = "search" /\ y.at = "multiGet"
    \/ x.at = "multiGet" /\ y.at = "waiting"

\* A step changes its own thread only: its operation moves on or ends.
LEMMA StepShape ==
    ASSUME ShapeInv, NEW t \in Threads, Step(t)
    PROVE  /\ ShapeInv' /\ Others(t) /\ UNCHANGED <<known, ops, crashes>>
           /\ \/ Keeps(thread[t], thread'[t]) /\ Moves(thread[t], thread'[t])
              \/ thread'[t] = Idle
<1> DEFINE Goal == /\ ShapeInv' /\ Others(t) /\ UNCHANGED <<known, ops, crashes>>
                   /\ \/ Keeps(thread[t], thread'[t]) /\ Moves(thread[t], thread'[t])
                      \/ thread'[t] = Idle
<1>0. ASSUME NEW a, GoTo(t, a)
      PROVE  /\ ShapeInv' /\ Others(t) /\ Keeps(thread[t], thread'[t]) /\ thread'[t].at = a
  BY <1>0, GoToShape
<1>f. Fail(t) => ShapeInv' /\ Others(t) /\ thread'[t] = Idle
  BY FailShape
<1> USE DEF At, Moves, bounds
<1>1. CASE GetInstance(t)
  BY <1>0, <1>1, <1>f DEF GetInstance
<1>2. CASE CreateTable(t)
  BY <1>0, <1>2 DEF CreateTable
<1>3. CASE InsertInstance(t)
  BY <1>3, <1>f DEF InsertInstance
<1>4. CASE LoadInstance(t)
  BY <1>0, <1>4, <1>f DEF LoadInstance
<1>5. CASE OpenStore(t)
  BY <1>0, <1>5, <1>f DEF OpenStore
<1>6. CASE CleanupDocs(t)
  BY <1>0, <1>6 DEF CleanupDocs
<1>7. CASE DropTable(t)
  BY <1>0, <1>7 DEF DropTable
<1>8. CASE RemoveInstance(t)
  BY <1>8, <1>f DEF RemoveInstance
<1>9. CASE AddParents(t)
  BY <1>9, AddParentsShape
<1>10. CASE AddChildren(t)
  BY <1>10, AddChildrenShape
<1>11. CASE FinishIngest(t)
  BY <1>11, <1>f DEF FinishIngest
<1>12. CASE RemoveParents(t)
  BY <1>0, <1>12 DEF RemoveParents
<1>13. CASE RemoveChildren(t)
  BY <1>13, <1>f DEF RemoveChildren
<1>14. CASE Search(t)
  <2>1. UNCHANGED <<known, ops, crashes>>
    BY <1>14, Zenon DEF Search, bounds
  <2>2. QED
    BY <1>14, <2>1, SearchShape
<1>15. CASE MultiGet(t)
  BY <1>0, <1>15, <1>f DEF MultiGet
<1>16. QED
  BY <1>1, <1>2, <1>3, <1>4, <1>5, <1>6, <1>7, <1>8, <1>9, <1>10, <1>11, <1>12, <1>13, <1>14,
     <1>15, Zenon DEF Step

-----------------------------------------------------------------------------
(* What each operation is at each of its places.                             *)

PcOf(x, ids) ==
    /\ x.op \in {"idle", "provision", "ingest", "remove", "cleanup", "search"}
    /\ x.op = "provision" => x.at \in {"getInstance", "createTable", "insertInstance"}
    /\ x.op = "ingest" => x.at \in {"load", "open", "addParents", "addChildren"}
    /\ x.op = "remove" => x.at \in {"load", "open", "deleteParents", "deleteChildren"}
    /\ x.op = "cleanup" => x.at \in {"deleteDocs", "load", "open", "drop", "removeRow"}
    /\ x.op = "search" => x.at \in {"load", "open", "search", "multiGet", "waiting"}
    /\ x.op = "idle" => x.at = "-"
    /\ x.op \in {"ingest", "remove", "cleanup"} => x.paths = {x.store}
    /\ x.op \in {"provision", "ingest", "remove", "cleanup"} => x.store \in ids
    /\ x.op \in {"ingest", "remove"} => x.file \in Files
    /\ x.op = "ingest" => x.guidance \in Guidances[x.store]

PcInv == known \subseteq Stores /\ \A t \in Threads : PcOf(thread[t], known)

\* The store of a provision is new and is known from its start.
LEMMA PcLaunch ==
    ASSUME ShapeInv, PcInv, NEW t \in Threads, NEW me, StartsAs(me), Launch(t, me)
    PROVE  PcInv'
<1>1. known' = known \cup (IF me.op = "provision" THEN {me.store} ELSE {})
  BY DEF Launch
<1>2. known \subseteq known' /\ known' \subseteq Stores
  BY <1>1 DEF StartsAs, PcInv
<1>3. me.op = "provision" => me.store \in known'
  BY <1>1
<1>4. PcOf(me, known')
  BY <1>2, <1>3 DEF PcOf, StartsAs
<1>5. Shape(me)
  BY DEF StartsAs
<1>6. PcOf(thread'[t], known')
  <2>1. /\ thread'[t].op = me.op /\ thread'[t].at = me.at /\ thread'[t].store = me.store
        /\ thread'[t].paths = me.paths /\ thread'[t].file = me.file
        /\ thread'[t].guidance = me.guidance
    BY <1>5, LaunchShape
  <2>2. QED
    BY <1>4, <2>1 DEF PcOf
<1>7. ASSUME NEW u \in Threads, u # t PROVE PcOf(thread'[u], known')
  <2>1. /\ thread'[u].op = thread[u].op /\ thread'[u].at = thread[u].at
        /\ thread'[u].store = thread[u].store /\ thread'[u].paths = thread[u].paths
        /\ thread'[u].file = thread[u].file /\ thread'[u].guidance = thread[u].guidance
    BY <1>5, <1>7, LaunchShape, ZenonT(40)
  <2>2. PcOf(thread[u], known)
    BY DEF PcInv
  <2>3. QED
    BY <1>2, <2>1, <2>2 DEF PcOf
<1>8. QED
  BY <1>2, <1>6, <1>7, Zenon DEF PcInv

\* Every step keeps the shape of the threads and their places.
LEMMA PcStep == ShapeInv /\ PcInv /\ [Next]_vars => ShapeInv' /\ PcInv'
<1> SUFFICES ASSUME ShapeInv, PcInv, [Next]_vars PROVE ShapeInv' /\ PcInv'
  OBVIOUS
<1>1. ASSUME NEW t \in Threads, Start(t) PROVE ShapeInv' /\ PcInv'
  <2> PICK me : StartsAs(me) /\ Launch(t, me)
    BY <1>1, StartLaunches
  <2>1. Shape(me)
    BY DEF StartsAs
  <2>2. QED
    BY <2>1, LaunchShape, PcLaunch, Zenon
<1>2. ASSUME NEW t \in Threads, Step(t) PROVE ShapeInv' /\ PcInv'
  <2>1. /\ ShapeInv' /\ Others(t) /\ known' = known
        /\ \/ Keeps(thread[t], thread'[t]) /\ Moves(thread[t], thread'[t])
           \/ thread'[t] = Idle
    BY <1>2, StepShape, Zenon DEF bounds
  <2>2. PcOf(thread[t], known)
    BY DEF PcInv
  <2>3. PcOf(thread'[t], known)
    <3>1. CASE Keeps(thread[t], thread'[t]) /\ Moves(thread[t], thread'[t])
      BY <2>2, <3>1 DEF PcOf, Keeps, Moves, AfterOpen
    <3>2. CASE thread'[t] = Idle
      BY <3>2, IdleFacts DEF PcOf
    <3>3. QED
      BY <2>1, <3>1, <3>2
  <2>4. QED
    BY <2>1, <2>3, Zenon DEF PcInv, Others
<1>3. CASE Crash
  <2>1. thread' = [t \in Threads |-> Idle] /\ known' = known
    BY <1>3, Zenon DEF Crash
  <2>2. PcOf(Idle, known)
    BY IdleFacts DEF PcOf
  <2>3. \A t \in Threads : thread'[t] = Idle
    BY <2>1, Zenon
  <2>4. thread' \in [Threads -> {thread'[t] : t \in Threads}]
    BY <2>1, Zenon
  <2>5. PcInv'
    BY <2>1, <2>2, <2>3, Zenon DEF PcInv
  <2>6. \A t \in Threads : Shape(thread'[t])
    BY <2>3, IdleFacts, Zenon
  <2>7. QED
    BY <2>4, <2>5, <2>6, Zenon DEF ShapeInv, Shape
<1>4. CASE UNCHANGED vars
  BY <1>4 DEF vars, PcInv, ShapeInv, PcOf, Shape
<1>5. QED
  BY <1>1, <1>2, <1>3, <1>4, Zenon DEF Next


-----------------------------------------------------------------------------
(* A listed instance has its table.                                          *)

Provisioning(s) == \E t \in Threads : thread[t].op = "provision" /\ thread[t].store = s

\* The id was given to a store whose provision has ended, or was cut.
Settled(s) == s \in known /\ ~ Provisioning(s)

\* An id is given once, so that one thread at most provisions a store.
OneProvision ==
    \A t, u \in Threads :
        thread[t].op = "provision" /\ thread[u].op = "provision"
            /\ thread[t].store = thread[u].store => t = u

\* Whoever went past LoadInstance met a store whose provision had ended.
OpenedIsSettled ==
    \A t \in Threads :
        thread[t].op \in {"ingest", "cleanup"}
            /\ thread[t].at \in {"open", "drop", "addParents", "addChildren"}
            => Settled(thread[t].store)

ListedIsSettled == \A s \in meta : Settled(s)

\* The table is there when the metadata row is about to be inserted.
TableIsFirst == \A t \in Threads : At(t, "insertInstance") => thread[t].store \in tables

\* The threads as a launch leaves them, for what the proofs below look at.
LEMMA LaunchOps ==
    ASSUME ShapeInv, PcInv, NEW t \in Threads, NEW me, StartsAs(me), Launch(t, me)
    PROVE  /\ known' = known \cup (IF me.op = "provision" THEN {me.store} ELSE {})
           /\ UNCHANGED <<docs, tables, chunks, meta, halfRemoved>>
           /\ thread[t] = Idle
           /\ thread'[t].op = me.op /\ thread'[t].at = me.at /\ thread'[t].store = me.store
           /\ thread'[t].file = me.file
           /\ \A u \in Threads : u # t =>
                /\ thread'[u].op = thread[u].op /\ thread'[u].at = thread[u].at
                /\ thread'[u].store = thread[u].store /\ thread'[u].file = thread[u].file
<1>1. Shape(me)
  BY DEF StartsAs
<1>2. /\ known' = known \cup (IF me.op = "provision" THEN {me.store} ELSE {})
      /\ UNCHANGED <<docs, tables, chunks, meta, halfRemoved>>
  BY Zenon DEF Launch, stores
<1>3. /\ thread[t] = Idle
      /\ thread'[t].op = me.op /\ thread'[t].at = me.at /\ thread'[t].store = me.store
      /\ thread'[t].file = me.file
  BY <1>1, LaunchShape
<1>4. ASSUME NEW u \in Threads, u # t
      PROVE  /\ thread'[u].op = thread[u].op /\ thread'[u].at = thread[u].at
             /\ thread'[u].store = thread[u].store /\ thread'[u].file = thread[u].file
  BY <1>1, <1>4, LaunchShape, ZenonT(40)
<1>5. QED
  BY <1>2, <1>3, <1>4, Zenon

\* A launch gives an id that was not known, and leaves the others as they were.
LEMMA LaunchSettles ==
    ASSUME ShapeInv, PcInv, NEW t \in Threads, NEW me, StartsAs(me), Launch(t, me)
    PROVE  \A s : Settled(s) => Settled(s)'
<1> SUFFICES ASSUME NEW s, Settled(s) PROVE Settled(s)'
  OBVIOUS
<1>1. s \in known /\ \A u \in Threads : ~ (thread[u].op = "provision" /\ thread[u].store = s)
  BY Zenon DEF Settled, Provisioning
<1>2. s \in known'
  BY <1>1, LaunchOps
<1>3. ASSUME NEW u \in Threads PROVE ~ (thread'[u].op = "provision" /\ thread'[u].store = s)
  <2>1. CASE u = t
    <3>1. thread'[t].op = me.op /\ thread'[t].store = me.store
      BY LaunchOps
    <3>2. me.op = "provision" => me.store \notin known
      BY DEF StartsAs
    <3>3. QED
      BY <1>1, <2>1, <3>1, <3>2
  <2>2. CASE u # t
    BY <1>1, <2>2, LaunchOps, Zenon
  <2>3. QED
    BY <2>1, <2>2
<1>4. QED
  BY <1>2, <1>3, Zenon DEF Settled, Provisioning

\* An id that is settled stays so: it is never given again.
LEMMA SettledStays ==
    ASSUME ShapeInv, PcInv, [Next]_vars
    PROVE  \A s : Settled(s) => Settled(s)'
<1>1. ASSUME NEW t \in Threads, Start(t) PROVE \A s : Settled(s) => Settled(s)'
  BY <1>1, StartLaunches, LaunchSettles
<1>2. ASSUME NEW t \in Threads, Step(t) PROVE \A s : Settled(s) => Settled(s)'
  <2>1. /\ Others(t) /\ known' = known
        /\ Keeps(thread[t], thread'[t]) \/ thread'[t] = Idle
    BY <1>2, StepShape, Zenon DEF bounds
  <2>2. thread'[t].op = "provision" =>
            thread[t].op = "provision" /\ thread'[t].store = thread[t].store
    BY <2>1, IdleFacts DEF Keeps
  <2>3. QED
    BY <2>1, <2>2, Zenon DEF Settled, Provisioning, Others
<1>3. CASE Crash
  <2>1. known' = known /\ \A t \in Threads : thread'[t] = Idle
    BY <1>3, Zenon DEF Crash
  <2>2. \A t \in Threads : thread'[t].op # "provision"
    BY <2>1, IdleFacts
  <2>3. QED
    BY <2>1, <2>2, Zenon DEF Settled, Provisioning
<1>4. CASE UNCHANGED vars
  BY <1>4, Zenon DEF vars, Settled, Provisioning
<1>5. QED
  BY <1>1, <1>2, <1>3, <1>4, Zenon DEF Next

\* Two threads never provision the same store.
LEMMA OneProvisionStep ==
    ShapeInv /\ PcInv /\ OneProvision /\ [Next]_vars => OneProvision'
<1> SUFFICES ASSUME ShapeInv, PcInv, OneProvision, [Next]_vars PROVE OneProvision'
  OBVIOUS
<1>1. ASSUME NEW t \in Threads, Start(t) PROVE OneProvision'
  <2> PICK me : StartsAs(me) /\ Launch(t, me)
    BY <1>1, StartLaunches
  <2>1. /\ thread'[t].op = me.op /\ thread'[t].store = me.store
        /\ \A u \in Threads : u # t =>
             thread'[u].op = thread[u].op /\ thread'[u].store = thread[u].store
    BY LaunchOps, Zenon
  <2>2. me.op = "provision" => me.store \notin known
    BY DEF StartsAs
  <2>3. \A u \in Threads : thread[u].op = "provision" => thread[u].store \in known
    BY DEF PcInv, PcOf
  <2>4. QED
    BY <2>1, <2>2, <2>3 DEF OneProvision
<1>2. ASSUME NEW t \in Threads, Step(t) PROVE OneProvision'
  <2>1. Others(t) /\ (Keeps(thread[t], thread'[t]) \/ thread'[t] = Idle)
    BY <1>2, StepShape, Zenon
  <2>2. thread'[t].op = "provision" =>
            thread[t].op = "provision" /\ thread'[t].store = thread[t].store
    BY <2>1, IdleFacts DEF Keeps
  <2>3. QED
    BY <2>1, <2>2 DEF OneProvision, Others
<1>3. CASE Crash
  BY <1>3, IdleFacts DEF Crash, OneProvision
<1>4. CASE UNCHANGED vars
  BY <1>4 DEF vars, OneProvision
<1>5. QED
  BY <1>1, <1>2, <1>3, <1>4, Zenon DEF Next

\* What is opened is settled, as LoadInstance asks for the metadata row.
LEMMA OpenedStep ==
    ShapeInv /\ PcInv /\ ListedIsSettled /\ OpenedIsSettled /\ [Next]_vars => OpenedIsSettled'
<1> SUFFICES ASSUME ShapeInv, PcInv, ListedIsSettled, OpenedIsSettled, [Next]_vars,
                    NEW u \in Threads, thread'[u].op \in {"ingest", "cleanup"},
                    thread'[u].at \in {"open", "drop", "addParents", "addChildren"}
             PROVE  Settled(thread[u].store)'
  BY DEF OpenedIsSettled
<1>1. SUFFICES Settled(thread'[u].store)
  <2> DEFINE s == thread'[u].store
  <2>1. Settled(s) => s \in known' /\ ~ \E t \in Threads : thread'[t].op = "provision" /\ thread'[t].store = s
    <3> HIDE DEF s
    <3>1. QED
      BY SettledStays, Zenon DEF Settled, Provisioning
  <2>2. QED
    BY <2>1, Zenon DEF Settled, Provisioning
<1>2. ASSUME NEW t \in Threads, Start(t) PROVE Settled(thread'[u].store)
  <2> PICK me : StartsAs(me) /\ Launch(t, me)
    BY <1>2, StartLaunches
  <2>1. me.at \notin {"open", "drop", "addParents", "addChildren"}
    BY DEF StartsAs
  <2>2. u # t
    BY <2>1, LaunchOps
  <2>3. /\ thread'[u].op = thread[u].op /\ thread'[u].at = thread[u].at
        /\ thread'[u].store = thread[u].store
    BY <2>2, LaunchOps, Zenon
  <2>4. QED
    BY <2>3 DEF OpenedIsSettled
<1>3. ASSUME NEW t \in Threads, Step(t) PROVE Settled(thread'[u].store)
  <2>1. /\ Others(t)
        /\ \/ Keeps(thread[t], thread'[t]) /\ Moves(thread[t], thread'[t])
           \/ thread'[t] = Idle
    BY <1>3, StepShape, Zenon
  <2>2. CASE u # t
    BY <2>1, <2>2 DEF OpenedIsSettled, Others
  <2>3. CASE u = t
    <3>1. Keeps(thread[t], thread'[t]) /\ Moves(thread[t], thread'[t])
      BY <2>1, <2>3, IdleFacts
    <3>2. PcOf(thread[t], known)
      BY DEF PcInv
    <3>3. /\ thread'[t].op = thread[t].op /\ thread'[t].store = thread[t].store
          /\ thread[t].op \in {"ingest", "cleanup"}
      BY <2>3, <3>1 DEF Keeps
    <3>4. CASE thread[t].at \in {"open", "drop", "addParents", "addChildren"}
      BY <2>3, <3>3, <3>4 DEF OpenedIsSettled
    <3>5. CASE thread[t].at \notin {"open", "drop", "addParents", "addChildren"}
      <4>1. thread[t].at = "load" /\ thread[t].paths \subseteq meta
        BY <2>3, <3>1, <3>2, <3>3, <3>5 DEF Moves, PcOf
      <4>2. thread[t].store \in meta
        BY <3>2, <3>3, <4>1 DEF PcOf
      <4>3. QED
        BY <2>3, <3>3, <4>2 DEF ListedIsSettled
    <3>6. QED
      BY <3>4, <3>5
  <2>4. QED
    BY <2>2, <2>3
<1>4. CASE Crash
  <2>1. thread'[u] = Idle
    BY <1>4, Zenon DEF Crash
  <2>2. QED
    BY <2>1, IdleFacts
<1>5. CASE UNCHANGED vars
  <2>1. thread' = thread
    BY <1>5, Zenon DEF vars
  <2>2. QED
    BY <2>1, Zenon DEF OpenedIsSettled
<1>6. QED
  BY <1>2, <1>3, <1>4, <1>5, Zenon DEF Next


\* The steps that touch the tables and the metadata rows.
LEMMA InstanceFrame ==
    ASSUME NEW t \in Threads, Step(t)
    PROVE  /\ UNCHANGED halfRemoved
           /\ \/ CreateTable(t) \/ InsertInstance(t) \/ DropTable(t) \/ RemoveInstance(t)
              \/ UNCHANGED <<tables, meta>>
<1> USE DEF stores, history
<1>1. CASE GetInstance(t) \/ CreateTable(t) \/ InsertInstance(t) \/ LoadInstance(t)
  BY <1>1, Zenon DEF GetInstance, CreateTable, InsertInstance, LoadInstance
<1>2. CASE OpenStore(t) \/ CleanupDocs(t) \/ DropTable(t) \/ RemoveInstance(t)
  BY <1>2, Zenon DEF OpenStore, CleanupDocs, DropTable, RemoveInstance
<1>3. CASE AddParents(t)
  BY <1>3, Zenon DEF AddParents
<1>4. CASE AddChildren(t)
  BY <1>4, Zenon DEF AddChildren
<1>5. CASE FinishIngest(t) \/ RemoveParents(t) \/ RemoveChildren(t)
  BY <1>5, Zenon DEF FinishIngest, RemoveParents, RemoveChildren
<1>6. CASE Search(t) \/ MultiGet(t)
  BY <1>6, Zenon DEF Search, MultiGet
<1>7. QED
  BY <1>1, <1>2, <1>3, <1>4, <1>5, <1>6, Zenon DEF Step

\* The row of an instance is inserted at the end of the one provision of it.
LEMMA ListedStep ==
    ShapeInv /\ PcInv /\ OneProvision /\ ListedIsSettled /\ [Next]_vars => ListedIsSettled'
<1> SUFFICES ASSUME ShapeInv, PcInv, OneProvision, ListedIsSettled, [Next]_vars,
                    NEW s \in meta'
             PROVE  Settled(s)'
  BY DEF ListedIsSettled
<1>1. CASE s \in meta
  BY <1>1, SettledStays DEF ListedIsSettled
<1>2. CASE s \notin meta
  <2>1. PICK t \in Threads : InsertInstance(t)
    <3>1. ASSUME NEW t \in Threads, Start(t) PROVE meta' = meta
      BY <3>1, StartLaunches, LaunchOps
    <3>2. ASSUME NEW t \in Threads, Step(t) PROVE InsertInstance(t) \/ meta' \subseteq meta
      BY <3>2, InstanceFrame DEF CreateTable, DropTable, RemoveInstance
    <3>3. Crash \/ UNCHANGED vars => meta' = meta
      BY Zenon DEF Crash, vars, stores
    <3>4. QED
      BY <1>2, <3>1, <3>2, <3>3 DEF Next
  <2>2. s = thread[t].store /\ At(t, "insertInstance") /\ Fail(t) /\ known' = known
    BY <1>2, <2>1 DEF InsertInstance, bounds
  <2>3. PcOf(thread[t], known)
    BY DEF PcInv
  <2>4. thread[t].op = "provision" /\ s \in known
    BY <2>2, <2>3 DEF PcOf, At
  <2>5. thread'[t] = Idle /\ Others(t)
    BY <2>2, FailShape
  <2>6. \A u \in Threads : ~ (thread'[u].op = "provision" /\ thread'[u].store = s)
    BY <2>2, <2>4, <2>5, IdleFacts DEF OneProvision, Others
  <2>7. QED
    BY <2>2, <2>4, <2>6 DEF Settled, Provisioning
<1>3. QED
  BY <1>1, <1>2

\* Nobody drops the table of a store that is being provisioned.
LEMMA TableIsFirstStep ==
    ShapeInv /\ PcInv /\ OpenedIsSettled /\ TableIsFirst /\ [Next]_vars => TableIsFirst'
<1> SUFFICES ASSUME ShapeInv, PcInv, OpenedIsSettled, TableIsFirst, [Next]_vars,
                    NEW u \in Threads, thread'[u].at = "insertInstance"
             PROVE  thread'[u].store \in tables'
  BY DEF TableIsFirst, At
<1>0. \A v \in Threads : thread[v].at = "insertInstance" => thread[v].op = "provision"
  BY DEF PcInv, PcOf
<1>1. ASSUME NEW t \in Threads, Start(t) PROVE thread'[u].store \in tables'
  <2> PICK me : StartsAs(me) /\ Launch(t, me)
    BY <1>1, StartLaunches
  <2>1. me.at # "insertInstance" /\ tables' = tables
    BY LaunchOps DEF StartsAs
  <2>2. u # t
    BY <2>1, LaunchOps
  <2>3. thread'[u].at = thread[u].at /\ thread'[u].store = thread[u].store
    BY <2>2, LaunchOps, Zenon
  <2>4. QED
    BY <2>1, <2>3 DEF TableIsFirst, At
<1>2. ASSUME NEW t \in Threads, Step(t) PROVE thread'[u].store \in tables'
  <2>1. /\ Others(t)
        /\ \/ Keeps(thread[t], thread'[t]) /\ Moves(thread[t], thread'[t])
           \/ thread'[t] = Idle
    BY <1>2, StepShape, Zenon
  <2>2. CASE u # t
    <3>1. thread'[u] = thread[u] /\ thread[u].store \in tables /\ thread[u].op = "provision"
      BY <1>0, <2>1, <2>2 DEF Others, TableIsFirst, At
    <3>2. CASE DropTable(t)
      <4>1. thread[t].at = "drop" /\ tables' = tables \ {thread[t].store}
        BY <3>2 DEF DropTable, At
      <4>2. thread[t].op = "cleanup"
        BY <4>1 DEF PcInv, PcOf
      <4>3. Settled(thread[t].store)
        BY <4>1, <4>2 DEF OpenedIsSettled
      <4>4. thread[u].store # thread[t].store
        BY <3>1, <4>3 DEF Settled, Provisioning
      <4>5. QED
        BY <3>1, <4>1, <4>4
    <3>3. CASE ~ DropTable(t)
      BY <1>2, <3>1, <3>3, InstanceFrame DEF CreateTable, InsertInstance, RemoveInstance
    <3>4. QED
      BY <3>2, <3>3
  <2>3. CASE u = t
    <3>1. Keeps(thread[t], thread'[t]) /\ Moves(thread[t], thread'[t])
      BY <2>1, <2>3, IdleFacts
    <3>2. PcOf(thread[t], known)
      BY DEF PcInv
    <3>3. thread[t].at = "createTable" /\ thread'[t].store = thread[t].store
      BY <2>3, <3>1, <3>2 DEF Moves, Keeps, PcOf, AfterOpen
    <3>4. CreateTable(t)
      BY <1>2, <3>3 DEF Step, GetInstance, InsertInstance, LoadInstance, OpenStore, CleanupDocs,
            DropTable, RemoveInstance, AddParents, AddChildren, FinishIngest, RemoveParents,
            RemoveChildren, Search, MultiGet, At
    <3>5. QED
      BY <2>3, <3>3, <3>4 DEF CreateTable
  <2>4. QED
    BY <2>2, <2>3
<1>3. CASE Crash
  BY <1>3, IdleFacts DEF Crash
<1>4. CASE UNCHANGED vars
  BY <1>4 DEF vars, TableIsFirst, At
<1>5. QED
  BY <1>1, <1>2, <1>3, <1>4, Zenon DEF Next

\* A table leaves the database only with a removal that goes on to the row.
LEMMA ListedInstanceStep ==
    /\ ShapeInv /\ PcInv /\ TableIsFirst /\ ListedInstanceHasTable
    /\ [Next]_vars
    => ListedInstanceHasTable'
<1> SUFFICES ASSUME ShapeInv, PcInv, TableIsFirst, ListedInstanceHasTable, [Next]_vars,
                    NEW s \in meta', s \notin tables'
             PROVE  \/ s \in halfRemoved'
                    \/ \E t \in Threads : thread'[t].at = "removeRow" /\ thread'[t].store = s
  BY DEF ListedInstanceHasTable, At
<1> DEFINE Cut == \/ s \in halfRemoved'
                  \/ \E t \in Threads : thread'[t].at = "removeRow" /\ thread'[t].store = s
<1>0. s \in meta /\ s \notin tables =>
        \/ s \in halfRemoved
        \/ \E t \in Threads : thread[t].at = "removeRow" /\ thread[t].store = s
  BY DEF ListedInstanceHasTable, At
<1>1. ASSUME NEW t \in Threads, Start(t) PROVE Cut
  <2> PICK me : StartsAs(me) /\ Launch(t, me)
    BY <1>1, StartLaunches
  <2>1. s \in meta /\ s \notin tables /\ halfRemoved' = halfRemoved
    BY LaunchOps
  <2>2. CASE s \in halfRemoved
    BY <2>1, <2>2
  <2>3. ASSUME NEW u \in Threads, thread[u].at = "removeRow", thread[u].store = s
        PROVE  Cut
    <3>1. u # t
      BY <2>3, LaunchOps, IdleFacts
    <3>2. QED
      BY <2>3, <3>1, LaunchOps, Zenon
  <2>4. QED
    BY <1>0, <2>1, <2>2, <2>3
<1>2. ASSUME NEW t \in Threads, Step(t) PROVE Cut
  <2>1. halfRemoved' = halfRemoved /\ Others(t)
    BY <1>2, StepShape, InstanceFrame
  <2>2. CASE DropTable(t)
    <3>1. /\ tables' = tables \ {thread[t].store} /\ meta' = meta /\ GoTo(t, "removeRow")
          /\ thread[t].at = "drop"
      BY <2>2 DEF DropTable, At
    <3>2. thread'[t].at = "removeRow" /\ thread'[t].store = thread[t].store
      BY <3>1, GoToShape DEF Keeps
    <3>3. CASE s = thread[t].store
      BY <3>2, <3>3
    <3>4. CASE s # thread[t].store
      BY <1>0, <2>1, <3>1, <3>4 DEF Others
    <3>5. QED
      BY <3>3, <3>4
  <2>3. CASE InsertInstance(t)
    <3>1. /\ meta' = meta \cup {thread[t].store} /\ tables' = tables
          /\ thread[t].at = "insertInstance"
      BY <2>3 DEF InsertInstance, At
    <3>2. s \in meta /\ s \notin tables
      BY <3>1 DEF TableIsFirst, At
    <3>3. QED
      BY <1>0, <2>1, <3>1, <3>2 DEF Others
  <2>4. CASE RemoveInstance(t)
    <3>1. meta' = meta \ {thread[t].store} /\ tables' = tables
      BY <2>4 DEF RemoveInstance
    <3>2. QED
      BY <1>0, <2>1, <3>1 DEF Others
  <2>5. CASE CreateTable(t)
    <3>1. /\ tables' = tables \cup {thread[t].store} /\ meta' = meta
          /\ thread[t].at = "createTable"
      BY <2>5 DEF CreateTable, At
    <3>2. QED
      BY <1>0, <2>1, <3>1 DEF Others
  <2>6. CASE UNCHANGED <<tables, meta>> /\ ~ RemoveInstance(t)
    <3>1. s \in meta /\ s \notin tables
      BY <2>6
    <3>2. thread[t].at # "removeRow"
      BY <1>2, <2>6 DEF Step, GetInstance, CreateTable, InsertInstance, LoadInstance, OpenStore,
            CleanupDocs, DropTable, AddParents, AddChildren, FinishIngest, RemoveParents,
            RemoveChildren, Search, MultiGet, At
    <3>3. QED
      BY <1>0, <2>1, <3>1, <3>2 DEF Others
  <2>7. QED
    BY <1>2, <2>2, <2>3, <2>4, <2>5, <2>6, InstanceFrame
<1>3. CASE Crash
  <2>1. /\ halfRemoved' = halfRemoved \cup
             {thread[t].store : t \in {u \in Threads : At(u, "removeRow")}}
        /\ meta' = meta /\ tables' = tables
    BY <1>3, Zenon DEF Crash, stores
  <2>2. QED
    BY <1>0, <2>1 DEF At
<1>4. CASE UNCHANGED vars
  BY <1>0, <1>4 DEF vars
<1>5. QED
  BY <1>1, <1>2, <1>3, <1>4, Zenon DEF Next

InstanceInv ==
    /\ ShapeInv /\ PcInv /\ OneProvision /\ ListedIsSettled /\ OpenedIsSettled /\ TableIsFirst

\* The invariant of the instances of the vector store operator: an id is
\* provisioned once, rows and open stores belong to provisions that ended, and
\* the table comes before the row.
THEOREM InstanceInvariant == Spec => []InstanceInv
<1>1. Init => InstanceInv
  <2> SUFFICES ASSUME Init PROVE InstanceInv
    OBVIOUS
  <2>1. \A t \in Threads : thread[t] = Idle
    BY Zenon DEF Init
  <2>2. thread \in [Threads -> {thread[t] : t \in Threads}]
    BY Zenon DEF Init
  <2>3. ShapeInv
    BY <2>1, <2>2, IdleFacts, Zenon DEF ShapeInv
  <2>4. known \subseteq Stores
    BY RetrievalAssumption DEF Init
  <2>5. PcInv
    BY <2>1, <2>4, IdleFacts DEF PcInv, PcOf
  <2>6. OneProvision /\ OpenedIsSettled /\ TableIsFirst
    BY <2>1, IdleFacts DEF OneProvision, OpenedIsSettled, TableIsFirst, At
  <2>7. ListedIsSettled
    BY <2>1, IdleFacts DEF ListedIsSettled, Init, Settled, Provisioning
  <2>8. QED
    BY <2>3, <2>5, <2>6, <2>7 DEF InstanceInv
<1>2. InstanceInv /\ [Next]_vars => InstanceInv'
  BY PcStep, OneProvisionStep, ListedStep, OpenedStep, TableIsFirstStep, Zenon DEF InstanceInv
<1>3. QED
  BY <1>1, <1>2, PTL DEF Spec

\* Whenever an instance has its metadata row it has its table, except between
\* the two statements of its removal or after a crash there: provisions,
\* removals and crashes of any number of threads never list an instance that
\* LoadInstance could not open.
THEOREM ListedHasTable == Spec => []ListedInstanceHasTable
<1>1. Init => ListedInstanceHasTable
  BY DEF Init, ListedInstanceHasTable
<1>2. InstanceInv /\ ListedInstanceHasTable /\ [Next]_vars => ListedInstanceHasTable'
  BY ListedInstanceStep, Zenon DEF InstanceInv
<1>3. QED
  BY <1>1, <1>2, InstanceInvariant, PTL DEF Spec


-----------------------------------------------------------------------------
(* Operations that spoil each other.                                         *)

\* Only what two operations are, and on what, tells whether one spoils the other.
LEMMA SpoilsSame ==
    ASSUME NEW x, NEW y, NEW a, NEW b,
           a.op = x.op, a.store = x.store, a.file = x.file,
           b.op = y.op, b.store = y.store, b.file = y.file, Spoils(a, b)
    PROVE  Spoils(x, y)
BY DEF Spoils, Destroys, Adds

\* No operation spoils itself, and a thread without one neither spoils nor is spoilt.
LEMMA SpoilsFacts ==
    ASSUME NEW x
    PROVE  ~ Spoils(x, x) /\ ~ Spoils(Idle, x) /\ ~ Spoils(x, Idle)
BY IdleFacts DEF Spoils, Destroys, Adds

\* An operation that is still alone is spoilt by none that runs.
AloneInv == \A t, v \in Threads : thread[t].alone => ~ Spoils(thread[v], thread[t])

\* A launch tells whom it spoils, and knows who spoils it.
LEMMA AloneLaunch ==
    ASSUME ShapeInv, PcInv, AloneInv, NEW t \in Threads, NEW me, StartsAs(me), Launch(t, me)
    PROVE  AloneInv'
<1> SUFFICES ASSUME NEW u \in Threads, NEW v \in Threads, thread'[u].alone,
                    Spoils(thread'[v], thread'[u])
             PROVE  FALSE
  BY Zenon DEF AloneInv
<1>0. Shape(me)
  BY DEF StartsAs
<1>1. ASSUME NEW w \in Threads, w # t
      PROVE  /\ thread'[w].op = thread[w].op /\ thread'[w].store = thread[w].store
             /\ thread'[w].file = thread[w].file
  BY <1>1, LaunchOps, Zenon
<1>2. thread'[t].op = me.op /\ thread'[t].store = me.store /\ thread'[t].file = me.file
  BY LaunchOps
<1>3. CASE u = t /\ v = t
  BY <1>3, SpoilsFacts, Zenon
<1>4. CASE u = t /\ v # t
  <2>1. ~ Spoils(thread[v], me)
    BY <1>0, <1>4, LaunchShape, Zenon
  <2>2. QED
    BY <1>1, <1>2, <1>4, <2>1, SpoilsSame
<1>5. CASE u # t /\ v = t
  <2>1. ~ Spoils(me, thread[u])
    BY <1>0, <1>5, LaunchShape, Zenon
  <2>2. QED
    BY <1>1, <1>2, <1>5, <2>1, SpoilsSame
<1>6. CASE u # t /\ v # t
  <2>1. thread[u].alone
    BY <1>0, <1>6, LaunchShape, Zenon
  <2>2. ~ Spoils(thread[v], thread[u])
    BY <2>1, Zenon DEF AloneInv
  <2>3. QED
    BY <1>1, <1>6, <2>2, SpoilsSame
<1>7. QED
  BY <1>3, <1>4, <1>5, <1>6, Zenon

\* Every step keeps it.
LEMMA AloneStep == ShapeInv /\ PcInv /\ AloneInv /\ [Next]_vars => AloneInv'
<1> SUFFICES ASSUME ShapeInv, PcInv, AloneInv, [Next]_vars PROVE AloneInv'
  OBVIOUS
<1>1. ASSUME NEW t \in Threads, Start(t) PROVE AloneInv'
  BY <1>1, StartLaunches, AloneLaunch
<1>2. ASSUME NEW t \in Threads, Step(t) PROVE AloneInv'
  <2> SUFFICES ASSUME NEW u \in Threads, NEW v \in Threads, thread'[u].alone,
                      Spoils(thread'[v], thread'[u])
               PROVE  FALSE
    BY Zenon DEF AloneInv
  <2>1. Others(t) /\ (Keeps(thread[t], thread'[t]) \/ thread'[t] = Idle)
    BY <1>2, StepShape, Zenon
  <2>2. \A w \in Threads :
            thread'[w] = Idle \/ Keeps(thread[w], thread'[w])
    BY <2>1, Zenon DEF Others, Keeps
  <2>3. thread'[u] # Idle /\ thread'[v] # Idle
    BY SpoilsFacts, Zenon
  <2>4. Keeps(thread[u], thread'[u]) /\ Keeps(thread[v], thread'[v])
    BY <2>2, <2>3
  <2>5. thread[u].alone
    BY <2>4, Zenon DEF Keeps
  <2>6. ~ Spoils(thread[v], thread[u])
    BY <2>5, Zenon DEF AloneInv
  <2>7. QED
    BY <2>4, <2>6, SpoilsSame DEF Keeps
<1>3. CASE Crash
  <2>1. \A t \in Threads : thread'[t] = Idle
    BY <1>3, Zenon DEF Crash
  <2>2. QED
    BY <2>1, SpoilsFacts, Zenon DEF AloneInv
<1>4. CASE UNCHANGED vars
  BY <1>4, Zenon DEF vars, AloneInv
<1>5. QED
  BY <1>1, <1>2, <1>3, <1>4, Zenon DEF Next


-----------------------------------------------------------------------------
(* The metadata of what is embedded.                                         *)

\* A preset field that is appended is the one that a row takes, although the
\* metadata before it may have a field of that name.
LEMMA PresetColumns ==
    ASSUME NEW m, m \in Seq(ToSet(m)), NEW parent, NEW page, NEW source, NEW start, NEW end
    PROVE  LET all == AddPresetMetadataFields(m, parent, page, source, start, end)
           IN  /\ Column(all, "parent_doc_id") = parent
               /\ Column(all, "file_source") = source
<1> DEFINE all == AddPresetMetadataFields(m, parent, page, source, start, end)
           preset == << Field("parent_doc_id", parent), Field("page_no", page),
                        Field("file_source", source), Field("start", start), Field("end", end) >>
           S == ToSet(m) \cup {preset[i] : i \in 1..5}
           n == Len(m)
<1>1. m \in Seq(S) /\ n \in Nat
  BY SeqMonotonic
<1>2. preset \in Seq(S) /\ Len(preset) = 5
  OBVIOUS
<1>3. /\ all \in Seq(S) /\ Len(all) = n + 5
      /\ \A i \in 1..n + 5 : all[i] = IF i <= n THEN m[i] ELSE preset[i - n]
  BY <1>1, <1>2, ConcatProperties DEF AddPresetMetadataFields
<1>4. DOMAIN all = 1..n + 5
  BY <1>3
<1>5. /\ all[n + 1] = Field("parent_doc_id", parent) /\ all[n + 2] = Field("page_no", page)
      /\ all[n + 3] = Field("file_source", source) /\ all[n + 4] = Field("start", start)
      /\ all[n + 5] = Field("end", end)
  <2>1. /\ preset[1] = Field("parent_doc_id", parent) /\ preset[2] = Field("page_no", page)
        /\ preset[3] = Field("file_source", source) /\ preset[4] = Field("start", start)
        /\ preset[5] = Field("end", end)
    BY DEF Field
  <2> HIDE DEF all, preset, S, n
  <2>2. \A k \in 1..5 : all[n + k] = preset[n + k - n]
    BY <1>1, <1>3
  <2>3. \A k \in 1..5 : n + k - n = k
    BY <1>1
  <2>4. QED
    BY <2>1, <2>2, <2>3
<1> HIDE DEF all, preset, S, n
<1>6. Column(all, "parent_doc_id") = parent
  <2>1. n + 1 \in Places(all, "parent_doc_id")
    BY <1>1, <1>4, <1>5 DEF Places, Field
  <2>2. \A j \in Places(all, "parent_doc_id") : j \in 1..n + 5 /\ j <= n + 1
    <3> SUFFICES ASSUME NEW j \in 1..n + 5, all[j][1] = "parent_doc_id" PROVE j <= n + 1
      BY <1>4 DEF Places
    <3>1. /\ all[n + 2][1] # "parent_doc_id" /\ all[n + 3][1] # "parent_doc_id"
          /\ all[n + 4][1] # "parent_doc_id" /\ all[n + 5][1] # "parent_doc_id"
      BY <1>5 DEF Field
    <3>2. j # n + 2 /\ j # n + 3 /\ j # n + 4 /\ j # n + 5
      BY <3>1
    <3>3. QED
      BY <1>1, <3>2
  <2>3. (CHOOSE i \in Places(all, "parent_doc_id") :
            \A j \in Places(all, "parent_doc_id") : i >= j) = n + 1
    BY <1>1, <2>1, <2>2
  <2>4. Column(all, "parent_doc_id") = all[n + 1][2]
    BY <2>3, Zenon DEF Column
  <2>5. QED
    BY <1>5, <2>4 DEF Field
<1>7. Column(all, "file_source") = source
  <2>1. n + 3 \in Places(all, "file_source")
    BY <1>1, <1>4, <1>5 DEF Places, Field
  <2>2. \A j \in Places(all, "file_source") : j \in 1..n + 5 /\ j <= n + 3
    <3> SUFFICES ASSUME NEW j \in 1..n + 5, all[j][1] = "file_source" PROVE j <= n + 3
      BY <1>4 DEF Places
    <3>1. all[n + 4][1] # "file_source" /\ all[n + 5][1] # "file_source"
      BY <1>5 DEF Field
    <3>2. j # n + 4 /\ j # n + 5
      BY <3>1
    <3>3. QED
      BY <1>1, <3>2
  <2>3. (CHOOSE i \in Places(all, "file_source") :
            \A j \in Places(all, "file_source") : i >= j) = n + 3
    BY <1>1, <2>1, <2>2
  <2>4. Column(all, "file_source") = all[n + 3][2]
    BY <2>3, Zenon DEF Column
  <2>5. QED
    BY <1>5, <2>4 DEF Field
<1>8. QED
  BY <1>6, <1>7 DEF all

\* Whatever the kind of guidance, every row that is embedded for a document
\* leads to the document and names its file; and unless the model was asked for
\* queries, there is one.
LEMMA GuidanceRows ==
    ASSUME NEW kind \in {"chunks", "summary", "queries"}, NEW doc, NEW file, NEW store,
           NEW table, IngestedDocument(doc, file, store), NEW g \in Guidance(kind, doc)
    PROVE  /\ DOMAIN g # {} => ChildRows(table, g) # {}
           /\ DOMAIN g # {} \/ kind = "queries"
           /\ \A c \in ChildRows(table, g) :
                c.table = table /\ c.parent = doc.id /\ c.source = file
<1>1. /\ DOMAIN doc.text # {} /\ doc.metadata \in Seq(ToSet(doc.metadata))
      /\ GetMetadataField(doc.metadata, "file_source") = file
  BY DEF IngestedDocument
<1>2. <<>> \in Seq(ToSet(<<>>))
  OBVIOUS
<1>3. /\ DOMAIN g # {} \/ kind = "queries"
      /\ \A i \in DOMAIN g : \E m, page, start, end :
            /\ m \in Seq(ToSet(m))
            /\ g[i].metadata = AddPresetMetadataFields(m, doc.id, page, file, start, end)
  <2>1. CASE kind = "chunks"
    <3>1. g = SplitChildDoc(doc)
      BY <2>1 DEF Guidance
    <3>2. DOMAIN g = DOMAIN doc.text
      BY <3>1 DEF SplitChildDoc
    <3>3. \A i \in DOMAIN g : g[i].metadata =
              AddPresetMetadataFields(doc.metadata, doc.id, i, file, i, i + 1)
      BY <1>1, <3>1, <3>2 DEF SplitChildDoc
    <3>4. QED
      BY <1>1, <3>2, <3>3, Zenon
  <2>2. CASE kind = "summary"
    <3>1. g = SummaryDoc(doc)
      BY <2>2 DEF Guidance
    <3>2. /\ DOMAIN g = {1}
          /\ g[1].metadata = AddPresetMetadataFields(<<>>, doc.id, 0, file, 0, 0)
      BY <1>1, <3>1 DEF SummaryDoc
    <3>3. QED
      BY <1>2, <3>2
  <2>3. CASE kind = "queries"
    <3>1. PICK n \in 0..MaxQueries : g = QueryDocs(doc, n)
      BY <2>3 DEF Guidance
    <3>2. DOMAIN g = 1..n
      BY <3>1 DEF QueryDocs
    <3>3. \A i \in DOMAIN g : g[i].metadata =
              AddPresetMetadataFields(<<>>, doc.id, i - 1, file, 0, 0)
      BY <1>1, <3>1, <3>2 DEF QueryDocs
    <3>4. QED
      BY <1>2, <2>3, <3>3, Zenon
  <2>4. QED
    BY <2>1, <2>2, <2>3
<1>4. \A i \in DOMAIN g : /\ Column(g[i].metadata, "parent_doc_id") = doc.id
                          /\ Column(g[i].metadata, "file_source") = file
  BY <1>3, PresetColumns
<1>5. DOMAIN g # {} => ChildRows(table, g) # {}
  BY Zenon DEF ChildRows
<1>6. ASSUME NEW c \in ChildRows(table, g)
      PROVE  c.table = table /\ c.parent = doc.id /\ c.source = file
  <2>1. PICK i \in DOMAIN g :
            c = [table |-> table, parent |-> Column(g[i].metadata, "parent_doc_id"),
                 page |-> Column(g[i].metadata, "page_no"),
                 source |-> Column(g[i].metadata, "file_source")]
    BY <1>6, Zenon DEF ChildRows
  <2>2. QED
    BY <1>4, <2>1
<1>7. QED
  BY <1>3, <1>5, <1>6


-----------------------------------------------------------------------------
(* What an ingestion holds.                                                  *)

\* The documents that are left and those of the batch are of the file and store.
InputOf(x) ==
    /\ x.input \in Seq(ToSet(x.input)) /\ x.batch \in Seq(ToSet(x.batch))
    /\ \A d \in ToSet(x.input) : IngestedDocument(d, x.file, x.store)
    /\ \A d \in ToSet(x.batch) : IngestedDocument(d, x.file, x.store)

InputInv == \A t \in Threads : thread[t].op = "ingest" => InputOf(thread[t])

\* The steps that touch the documents an ingestion holds.
LEMMA InputFrame ==
    ASSUME ShapeInv, PcInv, NEW t \in Threads, Step(t), thread[t].op = "ingest"
    PROVE  \/ AddParents(t) \/ AddChildren(t) \/ thread'[t] = Idle
           \/ /\ Keeps(thread[t], thread'[t]) /\ thread'[t].input = thread[t].input
              /\ thread'[t].batch = thread[t].batch /\ thread'[t].ids = thread[t].ids
<1>0. ASSUME NEW a, GoTo(t, a)
      PROVE  /\ Keeps(thread[t], thread'[t]) /\ thread'[t].input = thread[t].input
             /\ thread'[t].batch = thread[t].batch /\ thread'[t].ids = thread[t].ids
  BY <1>0, GoToShape
<1>f. Fail(t) => thread'[t] = Idle
  BY FailShape
<1>1. thread[t].at # "search"
  BY DEF PcInv, PcOf
<1>2. CASE GetInstance(t) \/ CreateTable(t) \/ InsertInstance(t) \/ LoadInstance(t)
  BY <1>0, <1>2, <1>f DEF GetInstance, CreateTable, InsertInstance, LoadInstance
<1>3. CASE OpenStore(t) \/ CleanupDocs(t) \/ DropTable(t) \/ RemoveInstance(t)
  BY <1>0, <1>3, <1>f DEF OpenStore, CleanupDocs, DropTable, RemoveInstance
<1>4. CASE FinishIngest(t) \/ RemoveParents(t) \/ RemoveChildren(t) \/ MultiGet(t)
  BY <1>0, <1>4, <1>f DEF FinishIngest, RemoveParents, RemoveChildren, MultiGet
<1>5. CASE Search(t)
  BY <1>1, <1>5 DEF Search, At
<1>6. QED
  BY <1>2, <1>3, <1>4, <1>5, Zenon DEF Step

\* The batch of AddParents: at least one document, each with its new id.
LEMMA BatchFacts ==
    ASSUME NEW x, InputOf(x), x.input # <<>>
    PROVE  /\ BatchLen(x) \in 1..Len(x.input)
           /\ Batch(x) \in Seq(ToSet(Batch(x))) /\ DOMAIN Batch(x) = 1..BatchLen(x)
           /\ \A d \in ToSet(Batch(x)) : IngestedDocument(d, x.file, x.store)
<1> DEFINE S == ToSet(x.input)
           n == BatchLen(x)
           batch == Batch(x)
<1>1. x.input \in Seq(S) /\ Len(x.input) \in Nat \ {0} /\ DOMAIN x.input = 1..Len(x.input)
  BY DEF InputOf
<1>2. n \in 1..Len(x.input)
  BY <1>1, RetrievalAssumption DEF BatchLen
<1>3. /\ batch = [i \in 1..n |-> WithId(x.input[i], nextId + i - 1)]
      /\ n \in Nat
  BY <1>2 DEF Batch
<1> HIDE DEF n, batch
<1>4. DOMAIN batch = 1..n /\ batch \in Seq(ToSet(batch))
  BY <1>3 DEF ToSet
<1>5. ASSUME NEW i \in 1..n PROVE IngestedDocument(batch[i], x.file, x.store)
  <2>1. x.input[i] \in ToSet(x.input)
    BY <1>1, <1>2 DEF ToSet
  <2>2. IngestedDocument(x.input[i], x.file, x.store)
    BY <2>1 DEF InputOf
  <2>3. batch[i] = WithId(x.input[i], nextId + i - 1)
    BY <1>3
  <2>4. batch[i].text = x.input[i].text /\ batch[i].metadata = x.input[i].metadata
    BY <2>3 DEF WithId
  <2>5. QED
    BY <2>2, <2>4 DEF IngestedDocument
<1>6. QED
  BY <1>2, <1>4, <1>5 DEF n, batch, ToSet

\* What is left of the input has documents of the input.
LEMMA SuffixFacts ==
    ASSUME NEW s, NEW n \in 1..Len(s), s \in Seq(ToSet(s))
    PROVE  /\ SubSeq(s, n + 1, Len(s)) \in Seq(ToSet(SubSeq(s, n + 1, Len(s))))
           /\ ToSet(SubSeq(s, n + 1, Len(s))) \subseteq ToSet(s)
<1> DEFINE r == SubSeq(s, n + 1, Len(s))
<1>1. Len(s) \in Nat /\ n \in Nat /\ n <= Len(s) /\ DOMAIN s = 1..Len(s)
  OBVIOUS
<1>2. \A i \in n + 1..Len(s) : s[i] \in ToSet(s)
  BY <1>1 DEF ToSet
<1>3. r \in Seq(ToSet(s))
  BY <1>1, <1>2, SubSeqProperties
<1> HIDE DEF r
<1>4. r \in Seq(ToSet(r)) /\ ToSet(r) \subseteq ToSet(s)
  BY <1>3 DEF ToSet
<1>5. QED
  BY <1>4 DEF r

\* Documents only move from the input to the batch and out of it.
LEMMA InputStep ==
    ASSUME ShapeInv, PcInv, InputInv, [Next]_vars
    PROVE  InputInv'
<1>1. ASSUME NEW t \in Threads, Start(t) PROVE InputInv'
  <2> PICK me : StartsAs(me) /\ Launch(t, me)
    BY <1>1, StartLaunches
  <2>0. Shape(me)
    BY DEF StartsAs
  <2>1. me.op = "ingest" => InputOf(me)
    <3> SUFFICES ASSUME me.op = "ingest" PROVE InputOf(me)
      OBVIOUS
    <3>1. /\ me.file \in Files /\ me.store \in Stores /\ CanIngest(me.file) /\ me.batch = <<>>
          /\ me.input = SplitDocuments(Load(me.file, me.store))
      BY DEF StartsAs, PcInv
    <3>2. /\ me.input \in Seq(ToSet(me.input))
          /\ \A d \in ToSet(me.input) : IngestedDocument(d, me.file, me.store)
      BY <3>1, OriginIsKept, Zenon DEF SplitsKeepOrigin
    <3>3. me.batch \in Seq(ToSet(me.batch)) /\ ToSet(me.batch) = {}
      BY <3>1 DEF ToSet
    <3>4. QED
      BY <3>2, <3>3 DEF InputOf
  <2>2. /\ thread'[t].op = me.op /\ thread'[t].input = me.input /\ thread'[t].batch = me.batch
        /\ thread'[t].file = me.file /\ thread'[t].store = me.store
    BY <2>0, LaunchShape
  <2>3. ASSUME NEW u \in Threads, u # t
        PROVE  /\ thread'[u].op = thread[u].op /\ thread'[u].input = thread[u].input
               /\ thread'[u].batch = thread[u].batch
               /\ thread'[u].file = thread[u].file /\ thread'[u].store = thread[u].store
    BY <2>0, <2>3, LaunchShape, ZenonT(40)
  <2>4. \A u \in Threads : thread'[u].op = "ingest" => InputOf(thread'[u])
    BY <2>1, <2>2, <2>3 DEF InputInv, InputOf
  <2>5. QED
    BY <2>4, Zenon DEF InputInv, InputOf
<1>2. ASSUME NEW t \in Threads, Step(t) PROVE InputInv'
  <2>1. Others(t) /\ (Keeps(thread[t], thread'[t]) \/ thread'[t] = Idle)
    BY <1>2, StepShape, Zenon
  <2>2. thread'[t].op = "ingest" => InputOf(thread'[t])
    <3> SUFFICES ASSUME thread'[t].op = "ingest" PROVE InputOf(thread'[t])
      OBVIOUS
    <3>1. Keeps(thread[t], thread'[t]) /\ thread[t].op = "ingest" /\ thread'[t] # Idle
      BY <2>1, IdleFacts DEF Keeps
    <3>2. InputOf(thread[t]) /\ thread'[t].file = thread[t].file /\ thread'[t].store = thread[t].store
      BY <3>1 DEF InputInv, Keeps
    <3>3. CASE AddParents(t)
      <4> DEFINE x == thread[t]
      <4>1. /\ thread'[t].batch = Batch(x) /\ x.input # <<>>
            /\ thread'[t].input = SubSeq(x.input, BatchLen(x) + 1, Len(x.input))
        BY <3>1, <3>3, AddParentsShape
      <4>2. /\ BatchLen(x) \in 1..Len(x.input) /\ Batch(x) \in Seq(ToSet(Batch(x)))
            /\ \A d \in ToSet(Batch(x)) : IngestedDocument(d, x.file, x.store)
        BY <3>2, <4>1, BatchFacts, Zenon
      <4>3. x.input \in Seq(ToSet(x.input))
        BY <3>2 DEF InputOf
      <4> DEFINE rest == SubSeq(x.input, BatchLen(x) + 1, Len(x.input))
      <4>4. rest \in Seq(ToSet(rest)) /\ ToSet(rest) \subseteq ToSet(x.input)
        BY <4>2, <4>3, SuffixFacts
      <4> HIDE DEF rest
      <4>5. /\ thread'[t].input \in Seq(ToSet(thread'[t].input))
            /\ ToSet(thread'[t].input) \subseteq ToSet(x.input)
        BY <4>1, <4>4, Zenon DEF rest
      <4>6. QED
        BY <3>2, <4>1, <4>2, <4>5, Zenon DEF InputOf
    <3>4. CASE AddChildren(t)
      <4> DEFINE x == thread[t]
      <4>1. /\ thread'[t].batch = Tail(x.batch) /\ x.batch # <<>>
            /\ thread'[t].input = x.input
        BY <3>1, <3>4, AddChildrenShape
      <4>2. x.batch \in Seq(ToSet(x.batch))
        BY <3>2 DEF InputOf
      <4> DEFINE rest == Tail(x.batch)
      <4>3. rest \in Seq(ToSet(x.batch))
        BY <4>1, <4>2, HeadTailProperties
      <4> HIDE DEF rest
      <4>4. rest \in Seq(ToSet(rest)) /\ ToSet(rest) \subseteq ToSet(x.batch)
        BY <4>3 DEF ToSet
      <4>5. /\ thread'[t].batch \in Seq(ToSet(thread'[t].batch))
            /\ ToSet(thread'[t].batch) \subseteq ToSet(x.batch)
        BY <4>1, <4>4, Zenon DEF rest
      <4>6. QED
        BY <3>2, <4>1, <4>5, Zenon DEF InputOf
    <3>5. CASE thread'[t].input = thread[t].input /\ thread'[t].batch = thread[t].batch
      BY <3>2, <3>5, Zenon DEF InputOf
    <3>6. QED
      BY <1>2, <3>1, <3>3, <3>4, <3>5, InputFrame
  <2>3. QED
    BY <2>1, <2>2, Zenon DEF InputInv, InputOf, Others
<1>3. CASE Crash
  <2>1. \A t \in Threads : thread'[t] = Idle
    BY <1>3, Zenon DEF Crash
  <2>2. \A t \in Threads : thread'[t].op # "ingest"
    BY <2>1, IdleFacts
  <2>3. QED
    BY <2>2, Zenon DEF InputInv
<1>4. CASE UNCHANGED vars
  BY <1>4, Zenon DEF vars, InputInv, InputOf
<1>5. QED
  BY <1>1, <1>2, <1>3, <1>4, Zenon DEF Next


-----------------------------------------------------------------------------
(* What was removed is gone.                                                 *)

\* A row of either store comes from an ingestion of its file into its store.
LEMMA RowsFrame ==
    ASSUME ShapeInv, PcInv, InputInv, NEW t \in Threads, Step(t)
    PROVE  /\ \A d \in docs' : d \in docs \/ /\ thread[t].op = "ingest" /\ AddParents(t)
                                             /\ d.vs = thread[t].store /\ d.source = thread[t].file
           /\ \A c \in chunks' : c \in chunks \/ /\ thread[t].op = "ingest" /\ AddChildren(t)
                                                 /\ c.table = thread[t].store
                                                 /\ c.source = thread[t].file
<1> DEFINE x == thread[t]
<1>0. PcOf(x, known) /\ known \subseteq Stores
  BY DEF PcInv
<1>1. CASE AddParents(t)
  <2>1. /\ x.at = "addParents" /\ x.input # <<>> /\ chunks' = chunks
        /\ docs' = docs \cup ParentRows(Batch(x), BatchLen(x)) \/ docs' = docs
    BY <1>1, AddParentsShape, Zenon
  <2>2. x.op = "ingest"
    BY <1>0, <2>1 DEF PcOf
  <2>3. InputOf(x)
    BY <2>2 DEF InputInv
  <2>4. /\ DOMAIN Batch(x) = 1..BatchLen(x)
        /\ \A d \in ToSet(Batch(x)) : IngestedDocument(d, x.file, x.store)
    BY <2>1, <2>3, BatchFacts, Zenon
  <2>5. ASSUME NEW d \in ParentRows(Batch(x), BatchLen(x))
        PROVE  d.vs = x.store /\ d.source = x.file
    <3>1. PICK i \in 1..BatchLen(x) :
              d = [id |-> Batch(x)[i].id, source |-> Column(Batch(x)[i].metadata, "file_source"),
                   vs |-> Column(Batch(x)[i].metadata, "vs_id")]
      BY <2>5, Zenon DEF ParentRows
    <3>2. Batch(x)[i] \in ToSet(Batch(x))
      BY <2>4, Zenon DEF ToSet
    <3>3. IngestedDocument(Batch(x)[i], x.file, x.store)
      BY <2>4, <3>2
    <3>4. QED
      BY <3>1, <3>3 DEF IngestedDocument
  <2>6. QED
    BY <1>1, <2>1, <2>2, <2>5
<1>2. CASE AddChildren(t)
  <2>1. /\ x.at = "addChildren" /\ x.batch # <<>> /\ docs' = docs
        /\ \/ \E g \in Guidance(x.guidance, Head(x.batch)) :
                 chunks' = chunks \cup ChildRows(x.store, g)
           \/ chunks' = chunks
    BY <1>2, AddChildrenShape, Zenon DEF Embeds
  <2>2. x.op = "ingest"
    BY <1>0, <2>1 DEF PcOf
  <2>3. InputOf(x) /\ x.store \in Stores /\ x.guidance \in Guidances[x.store]
    BY <1>0, <2>2 DEF InputInv, PcOf
  <2>4. x.guidance \in {"chunks", "summary", "queries"}
    BY <2>3, RetrievalAssumption
  <2>5. Head(x.batch) \in ToSet(x.batch)
    BY <2>1, <2>3, HeadTailProperties DEF InputOf
  <2>6. IngestedDocument(Head(x.batch), x.file, x.store)
    BY <2>3, <2>5 DEF InputOf
  <2>7. ASSUME NEW g \in Guidance(x.guidance, Head(x.batch))
        PROVE  \A c \in ChildRows(x.store, g) : c.table = x.store /\ c.source = x.file
    <3> HIDE DEF x
    <3> DEFINE doc == Head(x.batch)
    <3>0. IngestedDocument(doc, x.file, x.store) /\ g \in Guidance(x.guidance, doc)
      BY <2>6, <2>7
    <3> HIDE DEF doc
    <3>1. \A c \in ChildRows(x.store, g) :
            c.table = x.store /\ c.parent = doc.id /\ c.source = x.file
      BY <2>4, <3>0, GuidanceRows
    <3>2. QED
      BY <3>1, Zenon
  <2>8. QED
    BY <1>2, <2>1, <2>2, <2>7, Zenon
<1>3. CASE GetInstance(t) \/ CreateTable(t) \/ InsertInstance(t) \/ LoadInstance(t)
  BY <1>3 DEF GetInstance, CreateTable, InsertInstance, LoadInstance, stores
<1>4. CASE OpenStore(t) \/ CleanupDocs(t) \/ DropTable(t) \/ RemoveInstance(t)
  BY <1>4 DEF OpenStore, CleanupDocs, DropTable, RemoveInstance, stores
<1>5. CASE FinishIngest(t) \/ RemoveParents(t) \/ RemoveChildren(t)
  BY <1>5 DEF FinishIngest, RemoveParents, RemoveChildren, stores
<1>6. CASE Search(t) \/ MultiGet(t)
  BY <1>6, Zenon DEF Search, MultiGet, stores
<1>7. QED
  BY <1>1, <1>2, <1>3, <1>4, <1>5, <1>6, Zenon DEF Step

\* The rows of the embedding tables belong to provisions that have ended.
ChunksAreSettled == \A c \in chunks : Settled(c.table)

\* Every step keeps the rows of the embedding tables in settled stores.
LEMMA ChunksStep ==
    ASSUME InstanceInv, InputInv, ChunksAreSettled, [Next]_vars
    PROVE  ChunksAreSettled'
<1> USE DEF InstanceInv
<1> SUFFICES ASSUME NEW c \in chunks' PROVE Settled(c.table)'
  BY DEF ChunksAreSettled
<1>1. SUFFICES Settled(c.table)
  BY SettledStays
<1>2. ASSUME NEW t \in Threads, Start(t) PROVE Settled(c.table)
  <2>1. chunks' = chunks
    BY <1>2, StartLaunches, LaunchOps
  <2>2. QED
    BY <2>1 DEF ChunksAreSettled
<1>3. ASSUME NEW t \in Threads, Step(t) PROVE Settled(c.table)
  <2>1. CASE c \in chunks
    BY <2>1 DEF ChunksAreSettled
  <2>2. CASE c \notin chunks
    <3>1. thread[t].op = "ingest" /\ AddChildren(t) /\ c.table = thread[t].store
      BY <1>3, <2>2, RowsFrame
    <3>2. thread[t].at = "addChildren"
      BY <3>1 DEF AddChildren, At
    <3>3. QED
      BY <3>1, <3>2 DEF OpenedIsSettled
  <2>3. QED
    BY <2>1, <2>2
<1>4. CASE Crash \/ UNCHANGED vars
  <2>1. chunks' = chunks
    BY <1>4, Zenon DEF Crash, vars, stores
  <2>2. QED
    BY <2>1 DEF ChunksAreSettled
<1>5. QED
  BY <1>2, <1>3, <1>4, Zenon DEF Next

\* A removal that is alone has done what it has passed: the documents are gone
\* after the first statement, and at the metadata row the table is empty or
\* the row will not be found.
CleanOf(x) ==
    /\ x.op = "remove" /\ x.at = "deleteChildren"
         => \A d \in docs : ~ (d.vs = x.store /\ d.source = x.file)
    /\ x.op = "cleanup" /\ x.at # "deleteDocs" => \A d \in docs : d.vs # x.store
    /\ x.op = "cleanup" /\ x.at = "removeRow"
         => \/ \A c \in chunks : c.table # x.store
            \/ x.store \notin meta /\ Settled(x.store)

CleanInv == \A t \in Threads : thread[t].alone => CleanOf(thread[t])


\* Nothing that a removal has taken comes back while it is alone.
LEMMA CleanBesides ==
    ASSUME InstanceInv, AloneInv, InputInv, CleanInv, NEW t \in Threads, Step(t),
           NEW u \in Threads, u # t, thread[u].alone
    PROVE  /\ thread[u].op = "remove" /\ thread[u].at = "deleteChildren"
                => \A d \in docs' : ~ (d.vs = thread[u].store /\ d.source = thread[u].file)
           /\ thread[u].op = "cleanup" /\ thread[u].at # "deleteDocs"
                => \A d \in docs' : d.vs # thread[u].store
           /\ thread[u].op = "cleanup" /\ thread[u].at = "removeRow"
                => \/ \A c \in chunks' : c.table # thread[u].store
                   \/ thread[u].store \notin meta' /\ Settled(thread[u].store)
<1> USE DEF InstanceInv
<1>1. CleanOf(thread[u]) /\ ~ Spoils(thread[t], thread[u])
  BY Zenon DEF CleanInv, AloneInv
<1>2. thread[u].op = "remove" /\ thread[u].at = "deleteChildren"
        => \A d \in docs' : ~ (d.vs = thread[u].store /\ d.source = thread[u].file)
  BY <1>1, RowsFrame DEF CleanOf, Spoils, Adds
<1>3. thread[u].op = "cleanup" /\ thread[u].at # "deleteDocs"
        => \A d \in docs' : d.vs # thread[u].store
  BY <1>1, RowsFrame DEF CleanOf, Spoils, Adds
<1>4. ASSUME thread[u].op = "cleanup", thread[u].at = "removeRow"
      PROVE  \/ \A c \in chunks' : c.table # thread[u].store
             \/ thread[u].store \notin meta' /\ Settled(thread[u].store)
  <2>1. CASE \A c \in chunks : c.table # thread[u].store
    BY <1>1, <1>4, <2>1, RowsFrame DEF Spoils, Adds
  <2>2. CASE thread[u].store \notin meta /\ Settled(thread[u].store)
    <3>1. CASE InsertInstance(t)
      <4>1. meta' = meta \cup {thread[t].store} /\ thread[t].at = "insertInstance"
        BY <3>1 DEF InsertInstance, At
      <4>2. thread[t].op = "provision"
        BY <4>1 DEF PcInv, PcOf
      <4>3. thread[t].store # thread[u].store
        BY <2>2, <4>2 DEF Settled, Provisioning
      <4>4. QED
        BY <2>2, <4>1, <4>3
    <3>2. CASE ~ InsertInstance(t)
      <4>1. meta' \subseteq meta
        BY <3>2, InstanceFrame DEF CreateTable, DropTable, RemoveInstance
      <4>2. QED
        BY <2>2, <4>1
    <3>3. QED
      BY <3>1, <3>2
  <2>3. QED
    BY <1>1, <1>4, <2>1, <2>2, Zenon DEF CleanOf
<1>5. QED
  BY <1>2, <1>3, <1>4, Zenon

\* The statements of a removal take what it is about.
LEMMA CleanItself ==
    ASSUME InstanceInv, InputInv, ChunksAreSettled, CleanInv, NEW t \in Threads, Step(t),
           thread'[t].alone
    PROVE  /\ thread'[t].op = "remove" /\ thread'[t].at = "deleteChildren"
                => \A d \in docs' : ~ (d.vs = thread'[t].store /\ d.source = thread'[t].file)
           /\ thread'[t].op = "cleanup" /\ thread'[t].at # "deleteDocs"
                => \A d \in docs' : d.vs # thread'[t].store
           /\ thread'[t].op = "cleanup" /\ thread'[t].at = "removeRow"
                => \/ \A c \in chunks' : c.table # thread'[t].store
                   \/ thread'[t].store \notin meta' /\ Settled(thread'[t].store)
<1> USE DEF InstanceInv
<1> DEFINE x == thread[t]
           y == thread'[t]
<1>1. \/ Keeps(x, y) /\ Moves(x, y)
      \/ y = Idle
  BY StepShape, Zenon
<1>2. CASE y = Idle
  BY <1>2, IdleFacts
<1>3. CASE Keeps(x, y) /\ Moves(x, y)
  <2>0. /\ y.op = x.op /\ y.store = x.store /\ y.file = x.file
        /\ PcOf(x, known)
    BY <1>3 DEF Keeps, PcInv
  <2>a. x.alone
    BY <1>3, Zenon DEF Keeps
  <2>1. CleanOf(x)
    BY <2>a, Zenon DEF CleanInv
  <2> HIDE DEF x, y
  <2>2. ASSUME y.op = "remove", y.at = "deleteChildren"
        PROVE  \A d \in docs' : ~ (d.vs = y.store /\ d.source = y.file)
    <3>1. x.at = "deleteParents"
      BY <1>3, <2>0, <2>2 DEF Moves, PcOf, AfterOpen
    <3>2. RemoveParents(t)
      BY <3>1 DEF Step, GetInstance, CreateTable, InsertInstance, LoadInstance, OpenStore,
            CleanupDocs, DropTable, RemoveInstance, AddParents, AddChildren, FinishIngest,
            RemoveChildren, Search, MultiGet, At, x
    <3>3. QED
      BY <2>0, <3>2 DEF RemoveParents, x
  <2>3. ASSUME y.op = "cleanup", y.at # "deleteDocs"
        PROVE  \A d \in docs' : d.vs # y.store
    <3>1. CASE x.at = "deleteDocs"
      <4>1. CleanupDocs(t)
        BY <3>1 DEF Step, GetInstance, CreateTable, InsertInstance, LoadInstance, OpenStore,
              DropTable, RemoveInstance, AddParents, AddChildren, FinishIngest, RemoveParents,
              RemoveChildren, Search, MultiGet, At, x
      <4>2. QED
        BY <2>0, <4>1 DEF CleanupDocs, x
    <3>2. CASE x.at # "deleteDocs"
      <4>1. docs' \subseteq docs
        BY <2>0, <2>3, RowsFrame DEF x
      <4>2. QED
        BY <2>0, <2>1, <2>3, <3>2, <4>1 DEF CleanOf
    <3>3. QED
      BY <3>1, <3>2
  <2>4. ASSUME y.op = "cleanup", y.at = "removeRow"
        PROVE  \/ \A c \in chunks' : c.table # y.store
               \/ y.store \notin meta' /\ Settled(y.store)
    <3>1. \/ x.at = "drop"
          \/ x.at = "load" /\ ~ x.paths \subseteq meta
      BY <1>3, <2>0, <2>4 DEF Moves, PcOf, AfterOpen
    <3>2. CASE x.at = "drop"
      <4>1. DropTable(t)
        BY <3>2 DEF Step, GetInstance, CreateTable, InsertInstance, LoadInstance, OpenStore,
              CleanupDocs, RemoveInstance, AddParents, AddChildren, FinishIngest,
              RemoveParents, RemoveChildren, Search, MultiGet, At, x
      <4>2. QED
        BY <2>0, <4>1 DEF DropTable, x
    <3>3. CASE x.at = "load" /\ ~ x.paths \subseteq meta
      <4>1. LoadInstance(t)
        BY <3>3 DEF Step, GetInstance, CreateTable, InsertInstance, OpenStore, CleanupDocs,
              DropTable, RemoveInstance, AddParents, AddChildren, FinishIngest,
              RemoveParents, RemoveChildren, Search, MultiGet, At, x
      <4>2. meta' = meta /\ chunks' = chunks
        BY <4>1, Zenon DEF LoadInstance, stores
      <4>3. y.store \notin meta
        BY <2>0, <2>4, <3>3 DEF PcOf
      <4>4. CASE \A c \in chunks : c.table # y.store
        BY <4>2, <4>4
      <4>5. CASE ~ \A c \in chunks : c.table # y.store
        <5>1. Settled(y.store)
          BY <4>5 DEF ChunksAreSettled
        <5>2. QED
          BY <4>2, <4>3, <5>1
      <4>6. QED
        BY <4>4, <4>5
    <3>4. QED
      BY <3>1, <3>2, <3>3
  <2>5. QED
    BY <2>2, <2>3, <2>4, Zenon DEF x, y
<1>4. QED
  BY <1>1, <1>2, <1>3

\* Every step keeps what the removals have taken.
LEMMA CleanStep ==
    ASSUME InstanceInv, AloneInv, InputInv, ChunksAreSettled, CleanInv, [Next]_vars
    PROVE  CleanInv'
<1> USE DEF InstanceInv
<1> SUFFICES ASSUME NEW u \in Threads, thread'[u].alone PROVE CleanOf(thread[u])'
  BY Zenon DEF CleanInv
<1> DEFINE y == thread'[u]
           Clean == /\ y.op = "remove" /\ y.at = "deleteChildren"
                         => \A d \in docs' : ~ (d.vs = y.store /\ d.source = y.file)
                    /\ y.op = "cleanup" /\ y.at # "deleteDocs"
                         => \A d \in docs' : d.vs # y.store
                    /\ y.op = "cleanup" /\ y.at = "removeRow"
                         => \/ \A c \in chunks' : c.table # y.store
                            \/ y.store \notin meta' /\ Settled(y.store)
<1>1. SUFFICES Clean
  <2> DEFINE s == thread'[u].store
  <2>1. Settled(s) => /\ s \in known'
                      /\ ~ \E t \in Threads : thread'[t].op = "provision" /\ thread'[t].store = s
    <3> HIDE DEF s
    <3>1. QED
      BY SettledStays, Zenon DEF Settled, Provisioning
  <2>2. QED
    BY <2>1, Zenon DEF CleanOf, Settled, Provisioning
<1>2. ASSUME NEW t \in Threads, Start(t) PROVE Clean
  <2> PICK me : StartsAs(me) /\ Launch(t, me)
    BY <1>2, StartLaunches
  <2>1. docs' = docs /\ chunks' = chunks /\ meta' = meta
    BY LaunchOps, Zenon
  <2>2. CASE u = t
    <3>1. y.op = me.op /\ y.at = me.at
      BY <2>2, LaunchOps
    <3>2. /\ me.at \notin {"deleteChildren", "removeRow"}
          /\ me.op = "cleanup" => me.at = "deleteDocs"
      BY DEF StartsAs
    <3>3. QED
      BY <3>1, <3>2
  <2>3. CASE u # t
    <3>1. Shape(me)
      BY DEF StartsAs
    <3>2. /\ y.op = thread[u].op /\ y.at = thread[u].at /\ y.store = thread[u].store
          /\ y.file = thread[u].file
      BY <2>3, LaunchOps, Zenon
    <3>3. thread[u].alone
      BY <2>3, <3>1, LaunchShape, Zenon
    <3>4. CleanOf(thread[u])
      BY <3>3, Zenon DEF CleanInv
    <3> HIDE DEF y
    <3>5. QED
      BY <2>1, <3>2, <3>4 DEF CleanOf
  <2>4. QED
    BY <2>2, <2>3
<1>3. ASSUME NEW t \in Threads, Step(t) PROVE Clean
  <2>1. CASE u = t
    BY <1>3, <2>1, CleanItself, Zenon
  <2>2. CASE u # t
    <3>1. y = thread[u]
      BY <1>3, <2>2, StepShape, Zenon DEF Others
    <3>2. thread[u].alone
      BY <3>1, Zenon
    <3>3. QED
      BY <1>3, <2>2, <3>1, <3>2, CleanBesides, Zenon
  <2>3. QED
    BY <2>1, <2>2
<1>4. CASE Crash
  <2>1. y = Idle
    BY <1>4, Zenon DEF Crash
  <2>2. QED
    BY <2>1, IdleFacts
<1>5. CASE UNCHANGED vars
  <2>1. y = thread[u] /\ docs' = docs /\ chunks' = chunks /\ meta' = meta
    BY <1>5, Zenon DEF vars
  <2>2. CleanOf(thread[u])
    BY <2>1, Zenon DEF CleanInv
  <2>3. QED
    BY <2>1, <2>2, Zenon DEF CleanOf
<1>6. QED
  BY <1>2, <1>3, <1>4, <1>5, Zenon DEF Next


\* Nobody ingests a file that counts as removed from its store.
RemovedIsQuiet ==
    \A r \in removed :
        /\ r = <<r[1], r[2]>>
        /\ \A t \in Threads :
              ~ (thread[t].op = "ingest" /\ thread[t].store = r[1] /\ thread[t].file = r[2])

\* What a step may add to the removed pairs.
LEMMA RemovedFrame ==
    ASSUME NEW t \in Threads, Step(t), NEW r \in removed', r \notin removed
    PROVE  /\ thread[t].alone
           /\ \/ /\ RemoveChildren(t) /\ thread[t].store \in tables
                 /\ r = <<thread[t].store, thread[t].file>>
              \/ /\ RemoveInstance(t) /\ thread[t].store \in meta
                 /\ r \in {thread[t].store} \X Files
<1> USE DEF history
<1>1. CASE GetInstance(t) \/ CreateTable(t) \/ InsertInstance(t) \/ LoadInstance(t)
  BY <1>1, Zenon DEF GetInstance, CreateTable, InsertInstance, LoadInstance
<1>2. CASE OpenStore(t) \/ CleanupDocs(t) \/ DropTable(t)
  BY <1>2, Zenon DEF OpenStore, CleanupDocs, DropTable
<1>3. CASE AddParents(t)
  BY <1>3, Zenon DEF AddParents
<1>4. CASE AddChildren(t)
  BY <1>4, Zenon DEF AddChildren
<1>5. CASE FinishIngest(t) \/ RemoveParents(t) \/ Search(t) \/ MultiGet(t)
  BY <1>5, Zenon DEF FinishIngest, RemoveParents, Search, MultiGet
<1>6. CASE RemoveChildren(t)
  <2>1. removed' = IF thread[t].store \in tables /\ thread[t].alone
                   THEN removed \cup {<<thread[t].store, thread[t].file>>} ELSE removed
    BY <1>6, Zenon DEF RemoveChildren
  <2>2. QED
    BY <1>6, <2>1, Zenon
<1>7. CASE RemoveInstance(t)
  <2>1. removed' = IF thread[t].alone /\ thread[t].store \in meta
                   THEN removed \cup ({thread[t].store} \X Files) ELSE removed
    BY <1>7, Zenon DEF RemoveInstance
  <2>2. QED
    BY <1>7, <2>1, Zenon
<1>8. QED
  BY <1>1, <1>2, <1>3, <1>4, <1>5, <1>6, <1>7, Zenon DEF Step

\* A pair that a removal adds is gone and quiet at that moment.
LEMMA RemovedNow ==
    ASSUME InstanceInv, AloneInv, CleanInv, NEW t \in Threads, Step(t),
           NEW r \in removed', r \notin removed
    PROVE  /\ r = <<r[1], r[2]>>
           /\ \A u \in Threads :
                 ~ (thread[u].op = "ingest" /\ thread[u].store = r[1] /\ thread[u].file = r[2])
           /\ \A d \in docs' : ~ (d.vs = r[1] /\ d.source = r[2])
           /\ \A c \in chunks' : ~ (c.table = r[1] /\ c.source = r[2])
<1> USE DEF InstanceInv
<1> DEFINE x == thread[t]
<1>1. /\ x.alone
      /\ \/ RemoveChildren(t) /\ x.store \in tables /\ r = <<x.store, x.file>>
         \/ RemoveInstance(t) /\ x.store \in meta /\ r \in {x.store} \X Files
  BY RemovedFrame, Zenon
<1>2. CleanOf(x) /\ \A u \in Threads : ~ Spoils(thread[u], x)
  BY <1>1, Zenon DEF CleanInv, AloneInv
<1>3. CASE RemoveChildren(t) /\ x.store \in tables /\ r = <<x.store, x.file>>
  <2>1. /\ x.at = "deleteChildren" /\ docs' = docs
        /\ chunks' = {c \in chunks : ~ (c.table = x.store /\ c.source = x.file)}
    BY <1>3 DEF RemoveChildren, At
  <2>2. x.op = "remove"
    BY <2>1 DEF PcInv, PcOf
  <2>3. r[1] = x.store /\ r[2] = x.file /\ r = <<r[1], r[2]>>
    BY <1>3
  <2>4. \A u \in Threads :
            ~ (thread[u].op = "ingest" /\ thread[u].store = r[1] /\ thread[u].file = r[2])
    BY <1>2, <2>2, <2>3 DEF Spoils, Adds
  <2>5. QED
    BY <1>2, <2>1, <2>2, <2>3, <2>4 DEF CleanOf
<1>4. CASE RemoveInstance(t) /\ x.store \in meta /\ r \in {x.store} \X Files
  <2>1. x.at = "removeRow" /\ docs' = docs /\ chunks' = chunks
    BY <1>4 DEF RemoveInstance, At
  <2>2. x.op = "cleanup"
    BY <2>1 DEF PcInv, PcOf
  <2>3. r[1] = x.store /\ r = <<r[1], r[2]>>
    BY <1>4
  <2>4. \A u \in Threads : ~ (thread[u].op = "ingest" /\ thread[u].store = r[1])
    BY <1>2, <2>2, <2>3 DEF Spoils, Adds
  <2>5. \A c \in chunks : c.table # x.store
    BY <1>2, <1>4, <2>1, <2>2 DEF CleanOf
  <2>6. \A d \in docs : d.vs # x.store
    BY <1>2, <2>1, <2>2 DEF CleanOf
  <2>7. QED
    BY <2>1, <2>3, <2>4, <2>5, <2>6
<1>5. QED
  BY <1>1, <1>3, <1>4

\* A pair that counts as removed stays gone until its ingestion starts.
LEMMA GoneStep ==
    ASSUME InstanceInv, AloneInv, InputInv, CleanInv, RemovedIsQuiet, RemovedIsGone, [Next]_vars
    PROVE  RemovedIsQuiet' /\ RemovedIsGone'
<1> USE DEF InstanceInv
<1> DEFINE Quiet(r) == \A u \in Threads :
                 ~ (thread'[u].op = "ingest" /\ thread'[u].store = r[1] /\ thread'[u].file = r[2])
           Gone(r) == /\ \A d \in docs' : ~ (d.vs = r[1] /\ d.source = r[2])
                      /\ \A c \in chunks' : ~ (c.table = r[1] /\ c.source = r[2])
<1>0. \A r \in removed :
        /\ r = <<r[1], r[2]>>
        /\ \A u \in Threads :
              ~ (thread[u].op = "ingest" /\ thread[u].store = r[1] /\ thread[u].file = r[2])
        /\ \A d \in docs : ~ (d.vs = r[1] /\ d.source = r[2])
        /\ \A c \in chunks : ~ (c.table = r[1] /\ c.source = r[2])
  BY Zenon DEF RemovedIsQuiet, RemovedIsGone
<1>1. SUFFICES ASSUME NEW r \in removed'
               PROVE  r = <<r[1], r[2]>> /\ Quiet(r) /\ Gone(r)
  BY Zenon DEF RemovedIsQuiet, RemovedIsGone
<1>2. ASSUME NEW t \in Threads, Start(t) PROVE r = <<r[1], r[2]>> /\ Quiet(r) /\ Gone(r)
  <2> PICK me : StartsAs(me) /\ Launch(t, me)
    BY <1>2, StartLaunches
  <2>1. docs' = docs /\ chunks' = chunks
    BY LaunchOps, Zenon
  <2>2. r \in removed /\ ~ (me.op = "ingest" /\ r = <<me.store, me.file>>)
    BY Zenon DEF Launch
  <2>3. r = <<r[1], r[2]>> /\ Gone(r)
    BY <1>0, <2>1, <2>2, Zenon
  <2>4. ASSUME NEW u \in Threads
        PROVE  ~ (thread'[u].op = "ingest" /\ thread'[u].store = r[1] /\ thread'[u].file = r[2])
    <3>1. CASE u = t
      <4>1. thread'[t].op = me.op /\ thread'[t].store = me.store /\ thread'[t].file = me.file
        BY LaunchOps
      <4>2. QED
        BY <2>2, <2>3, <3>1, <4>1
    <3>2. CASE u # t
      <4>1. /\ thread'[u].op = thread[u].op /\ thread'[u].store = thread[u].store
            /\ thread'[u].file = thread[u].file
        BY <3>2, LaunchOps, Zenon
      <4>2. QED
        BY <1>0, <2>2, <4>1, Zenon
    <3>3. QED
      BY <3>1, <3>2
  <2>5. QED
    BY <2>3, <2>4
<1>3. ASSUME NEW t \in Threads, Step(t) PROVE r = <<r[1], r[2]>> /\ Quiet(r) /\ Gone(r)
  <2>1. Others(t) /\ (Keeps(thread[t], thread'[t]) \/ thread'[t] = Idle)
    BY <1>3, StepShape, Zenon
  <2>2. thread'[t].op = "ingest" => /\ thread[t].op = "ingest"
                                    /\ thread'[t].store = thread[t].store
                                    /\ thread'[t].file = thread[t].file
    BY <2>1, IdleFacts DEF Keeps
  <2>3. (\A u \in Threads :
            ~ (thread[u].op = "ingest" /\ thread[u].store = r[1] /\ thread[u].file = r[2]))
        => Quiet(r)
    BY <2>1, <2>2 DEF Others
  <2>4. CASE r \in removed
    <3>1. Gone(r)
      BY <1>0, <1>3, <2>4, RowsFrame
    <3>2. QED
      BY <1>0, <2>3, <2>4, <3>1, Zenon
  <2>5. CASE r \notin removed
    BY <1>3, <2>3, <2>5, RemovedNow, Zenon
  <2>6. QED
    BY <2>4, <2>5
<1>4. CASE Crash
  <2>1. /\ removed' = removed /\ docs' = docs /\ chunks' = chunks
        /\ \A u \in Threads : thread'[u] = Idle
    BY <1>4, Zenon DEF Crash, stores
  <2>2. Quiet(r)
    BY <2>1, IdleFacts
  <2>3. QED
    BY <1>0, <2>1, <2>2, Zenon
<1>5. CASE UNCHANGED vars
  <2>1. removed' = removed /\ docs' = docs /\ chunks' = chunks /\ thread' = thread
    BY <1>5, Zenon DEF vars
  <2>2. QED
    BY <1>0, <2>1, Zenon
<1>6. QED
  BY <1>2, <1>3, <1>4, <1>5, Zenon DEF Next

RemovalInv == AloneInv /\ InputInv /\ ChunksAreSettled /\ CleanInv /\ RemovedIsQuiet

\* Initially there are no operations and nothing is stored or removed.
LEMMA RemovalInit == Init => RemovalInv /\ RemovedIsGone
<1> SUFFICES ASSUME Init PROVE RemovalInv /\ RemovedIsGone
  OBVIOUS
<1>1. /\ \A t \in Threads : thread[t] = Idle
      /\ docs = {} /\ chunks = {} /\ removed = {}
  BY Zenon DEF Init
<1>2. AloneInv
  BY <1>1, SpoilsFacts, Zenon DEF AloneInv
<1>3. InputInv
  <2>1. \A t \in Threads : thread[t].op # "ingest"
    BY <1>1, IdleFacts
  <2>2. QED
    BY <2>1, Zenon DEF InputInv
<1>4. CleanInv
  <2>1. CleanOf(Idle)
    BY IdleFacts DEF CleanOf
  <2>2. QED
    BY <1>1, <2>1, Zenon DEF CleanInv
<1>5. ChunksAreSettled /\ RemovedIsQuiet /\ RemovedIsGone
  BY <1>1, Zenon DEF ChunksAreSettled, RemovedIsQuiet, RemovedIsGone
<1>6. QED
  BY <1>2, <1>3, <1>4, <1>5 DEF RemovalInv

\* After a file or a store was removed, without an ingestion of it beside the
\* removal or since, neither the shared document store nor the embedding table
\* has a row of it, whatever other operations, failures and crashes there were.
THEOREM RemovedStaysGone == Spec => []RemovedIsGone
<1>1. InstanceInv /\ RemovalInv /\ RemovedIsGone /\ [Next]_vars
          => RemovalInv' /\ RemovedIsGone'
  <2> SUFFICES ASSUME InstanceInv, RemovalInv, RemovedIsGone, [Next]_vars
               PROVE  RemovalInv' /\ RemovedIsGone'
    OBVIOUS
  <2>1. ShapeInv /\ PcInv /\ AloneInv /\ InputInv /\ ChunksAreSettled /\ CleanInv /\ RemovedIsQuiet
    BY DEF InstanceInv, RemovalInv
  <2>2. AloneInv'
    BY <2>1, AloneStep
  <2>3. InputInv'
    BY <2>1, InputStep
  <2>4. ChunksAreSettled' /\ CleanInv'
    BY <2>1, ChunksStep, CleanStep
  <2>5. RemovedIsQuiet' /\ RemovedIsGone'
    BY <2>1, GoneStep
  <2>6. QED
    BY <2>2, <2>3, <2>4, <2>5 DEF RemovalInv
<1>2. QED
  BY <1>1, RemovalInit, InstanceInvariant, PTL DEF Spec


-----------------------------------------------------------------------------
(* What was ingested can be found.                                           *)

HasDoc(id, s, f) == \E d \in docs : d.id = id /\ d.vs = s /\ d.source = f
HasChunk(id, s, f) ==
    \/ \E c \in chunks : c.parent = id /\ c.table = s /\ c.source = f
    \/ <<s, id>> \in silent /\ "queries" \in Guidances[s]

\* An ingestion that is alone has a document for every id, and something
\* embedded for those that are not left in its batch.
PendingOf(x) ==
    \A id \in x.ids :
        /\ HasDoc(id, x.store, x.file)
        /\ \/ HasChunk(id, x.store, x.file)
           \/ x.at = "addChildren" /\ \E d \in ToSet(x.batch) : d.id = id

PendingInv == \A t \in Threads : thread[t].alone /\ thread[t].op = "ingest" => PendingOf(thread[t])

\* An ingested file has all its rows, and nobody is taking them.
FoundInv ==
    \A r \in ingested :
        /\ \A t \in Threads : ~ Destroys(thread[t], r.store, r.file)
        /\ \A id \in r.ids : HasDoc(id, r.store, r.file) /\ HasChunk(id, r.store, r.file)

\* Every row that AddParents adds is of the file and has an id of the batch.
LEMMA ParentRowFacts ==
    ASSUME NEW x, InputOf(x), x.input # <<>>, NEW d \in ParentRows(Batch(x), BatchLen(x))
    PROVE  d.vs = x.store /\ d.source = x.file /\ \E b \in ToSet(Batch(x)) : b.id = d.id
<1>1. /\ DOMAIN Batch(x) = 1..BatchLen(x)
      /\ \A b \in ToSet(Batch(x)) : IngestedDocument(b, x.file, x.store)
  BY BatchFacts, Zenon
<1>2. PICK i \in 1..BatchLen(x) :
          d = [id |-> Batch(x)[i].id, source |-> Column(Batch(x)[i].metadata, "file_source"),
               vs |-> Column(Batch(x)[i].metadata, "vs_id")]
  BY Zenon DEF ParentRows
<1>3. Batch(x)[i] \in ToSet(Batch(x))
  BY <1>1, Zenon DEF ToSet
<1>4. IngestedDocument(Batch(x)[i], x.file, x.store)
  BY <1>1, <1>3
<1>5. d.vs = x.store /\ d.source = x.file /\ d.id = Batch(x)[i].id
  BY <1>2, <1>4 DEF IngestedDocument
<1>6. QED
  BY <1>3, <1>5, Zenon

\* A step only takes rows that its operation destroys.
LEMMA RowsStay ==
    ASSUME PcInv, NEW t \in Threads, Step(t), NEW s, NEW f, ~ Destroys(thread[t], s, f)
    PROVE  /\ \A d \in docs : d.vs = s /\ d.source = f => d \in docs'
           /\ \A c \in chunks : c.table = s /\ c.source = f => c \in chunks'
           /\ silent \subseteq silent'
<1> USE DEF bounds
<1>0. PcOf(thread[t], known)
  BY DEF PcInv
<1>1. CASE CleanupDocs(t)
  <2>1. /\ thread[t].at = "deleteDocs" /\ chunks' = chunks /\ silent' = silent
        /\ docs' = {d \in docs : d.vs # thread[t].store}
    BY <1>1 DEF CleanupDocs, At
  <2>2. thread[t].op = "cleanup"
    BY <1>0, <2>1 DEF PcOf
  <2>3. QED
    BY <2>1, <2>2 DEF Destroys
<1>2. CASE DropTable(t)
  <2>1. /\ thread[t].at = "drop" /\ docs' = docs /\ silent' = silent
        /\ chunks' = {c \in chunks : c.table # thread[t].store}
    BY <1>2 DEF DropTable, At
  <2>2. thread[t].op = "cleanup"
    BY <1>0, <2>1 DEF PcOf
  <2>3. QED
    BY <2>1, <2>2 DEF Destroys
<1>3. CASE RemoveParents(t)
  <2>1. /\ thread[t].at = "deleteParents" /\ chunks' = chunks /\ silent' = silent
        /\ docs' = {d \in docs : d.source # thread[t].file}
    BY <1>3 DEF RemoveParents, At
  <2>2. thread[t].op = "remove"
    BY <1>0, <2>1 DEF PcOf
  <2>3. QED
    BY <2>1, <2>2 DEF Destroys
<1>4. CASE RemoveChildren(t)
  <2>1. /\ thread[t].at = "deleteChildren" /\ docs' = docs /\ silent' = silent
        /\ chunks' = {c \in chunks : ~ (/\ thread[t].store \in tables
                                        /\ c.table = thread[t].store
                                        /\ c.source = thread[t].file)}
    BY <1>4 DEF RemoveChildren, At
  <2>2. thread[t].op = "remove"
    BY <1>0, <2>1 DEF PcOf
  <2>3. QED
    BY <2>1, <2>2 DEF Destroys
<1>5. CASE AddParents(t)
  BY <1>5 DEF AddParents
<1>6. CASE AddChildren(t)
  BY <1>6, Zenon DEF AddChildren, ChildRows
<1>7. CASE GetInstance(t) \/ CreateTable(t) \/ InsertInstance(t) \/ LoadInstance(t)
  BY <1>7 DEF GetInstance, CreateTable, InsertInstance, LoadInstance, stores
<1>8. CASE OpenStore(t) \/ RemoveInstance(t) \/ FinishIngest(t) \/ MultiGet(t)
  BY <1>8 DEF OpenStore, RemoveInstance, FinishIngest, MultiGet, stores
<1>9. CASE Search(t)
  BY <1>9, Zenon DEF Search, stores
<1>10. QED
  BY <1>1, <1>2, <1>3, <1>4, <1>5, <1>6, <1>7, <1>8, <1>9, Zenon DEF Step

\* What a step does not destroy stays.
LEMMA HasStays ==
    ASSUME PcInv, NEW t \in Threads, Step(t), NEW s, NEW f, ~ Destroys(thread[t], s, f), NEW id
    PROVE  /\ HasDoc(id, s, f) => HasDoc(id, s, f)'
           /\ HasChunk(id, s, f) => HasChunk(id, s, f)'
<1>1. /\ \A d \in docs : d.vs = s /\ d.source = f => d \in docs'
      /\ \A c \in chunks : c.table = s /\ c.source = f => c \in chunks'
      /\ silent \subseteq silent'
  BY RowsStay, Zenon
<1>2. QED
  BY <1>1, Zenon DEF HasDoc, HasChunk


\* A document of the batch is the one that AddChildren embeds, or stays in it.
LEMMA HeadOrRest ==
    ASSUME NEW s, s \in Seq(ToSet(s)), s # <<>>, NEW d \in ToSet(s)
    PROVE  \/ d = Head(s)
           \/ d \in ToSet(Tail(s)) /\ Len(s) # 1
<1>1. Len(s) \in Nat \ {0} /\ DOMAIN s = 1..Len(s)
  OBVIOUS
<1>2. PICK i \in 1..Len(s) : d = s[i]
  BY <1>1, Zenon DEF ToSet
<1>3. CASE i = 1
  BY <1>1, <1>2, <1>3
<1>4. CASE i # 1
  <2>1. /\ Tail(s) \in Seq(ToSet(s)) /\ Len(Tail(s)) = Len(s) - 1
        /\ \A j \in 1..Len(Tail(s)) : Tail(s)[j] = s[j + 1]
    BY HeadTailProperties
  <2>2. i - 1 \in 1..Len(Tail(s)) /\ DOMAIN Tail(s) = 1..Len(Tail(s)) /\ Len(s) # 1
    BY <1>1, <1>4, <2>1
  <2>3. Tail(s)[i - 1] = d
    BY <1>2, <2>1, <2>2
  <2>4. QED
    BY <2>2, <2>3, Zenon DEF ToSet
<1>5. QED
  BY <1>3, <1>4

\* The next batch: a new id has its document, and it is left in the batch.
LEMMA PendingParents ==
    ASSUME ShapeInv, PcInv, InputInv, NEW t \in Threads, AddParents(t), thread'[t] # Idle,
           thread[t].op = "ingest", PendingOf(thread[t]), NEW id \in thread'[t].ids
    PROVE  /\ HasDoc(id, thread[t].store, thread[t].file)'
           /\ \/ HasChunk(id, thread[t].store, thread[t].file)'
              \/ thread'[t].at = "addChildren" /\ \E d \in ToSet(thread'[t].batch) : d.id = id
<1> DEFINE x == thread[t]
           rows == ParentRows(Batch(x), BatchLen(x))
<1>1. /\ x.at = "addParents" /\ x.input # <<>> /\ chunks' = chunks /\ silent' = silent
      /\ Keeps(x, thread'[t]) /\ thread'[t].at = "addChildren"
      /\ docs' = docs \cup rows /\ thread'[t].batch = Batch(x)
      /\ thread'[t].ids = x.ids \cup {r.id : r \in rows}
  BY AddParentsShape, Zenon DEF bounds
<1>2. InputOf(x)
  BY Zenon DEF InputInv
<1>3. thread'[t].store = x.store /\ thread'[t].file = x.file
  BY <1>1 DEF Keeps
<1> DEFINE s == x.store
           f == x.file
<1>4. SUFFICES /\ \E d \in docs' : d.id = id /\ d.vs = s /\ d.source = f
               /\ \/ \E c \in chunks' : c.parent = id /\ c.table = s /\ c.source = f
                  \/ <<s, id>> \in silent' /\ "queries" \in Guidances[s]
                  \/ \E d \in ToSet(Batch(x)) : d.id = id
  BY <1>1, <1>3, Zenon DEF HasDoc, HasChunk
<1>5. CASE id \in x.ids
  <2>1. HasDoc(id, s, f) /\ HasChunk(id, s, f)
    BY <1>1, <1>5 DEF PendingOf
  <2>2. QED
    BY <1>1, <2>1, Zenon DEF HasDoc, HasChunk
<1>6. CASE id \notin x.ids
  <2>1. PICK r \in rows : id = r.id
    BY <1>1, <1>6
  <2>2. r.vs = s /\ r.source = f /\ \E b \in ToSet(Batch(x)) : b.id = r.id
    BY <1>1, <1>2, ParentRowFacts, Zenon
  <2>3. QED
    BY <1>1, <2>1, <2>2, Zenon
<1>7. QED
  BY <1>5, <1>6

\* The head of the batch gets its chunks, the others stay in the batch.
LEMMA PendingChildren ==
    ASSUME ShapeInv, PcInv, InputInv, NEW t \in Threads, AddChildren(t), thread'[t] # Idle,
           thread[t].op = "ingest", PendingOf(thread[t]), NEW id \in thread'[t].ids
    PROVE  /\ HasDoc(id, thread[t].store, thread[t].file)'
           /\ \/ HasChunk(id, thread[t].store, thread[t].file)'
              \/ thread'[t].at = "addChildren" /\ \E d \in ToSet(thread'[t].batch) : d.id = id
<1> DEFINE x == thread[t]
           doc == Head(x.batch)
<1>1. /\ x.at = "addChildren" /\ x.batch # <<>> /\ docs' = docs
      /\ Keeps(x, thread'[t])
      /\ thread'[t].at = IF Len(x.batch) = 1 THEN "addParents" ELSE "addChildren"
      /\ thread'[t].batch = Tail(x.batch) /\ thread'[t].ids = x.ids
      /\ \E g \in Guidance(x.guidance, doc) : Embeds(x, g)
  BY AddChildrenShape, Zenon
<1>b. PICK g \in Guidance(x.guidance, doc) : Embeds(x, g)
  BY <1>1
<1> DEFINE rows == ChildRows(x.store, g)
<1>c. /\ chunks' = chunks \cup rows
      /\ silent' = silent \cup {p \in {<<x.store, doc.id>>} : DOMAIN g = {}}
  BY <1>b, Zenon DEF Embeds
<1>d. silent \subseteq silent' /\ chunks \subseteq chunks'
  BY <1>c, Zenon
<1>2. InputOf(x) /\ PcOf(x, known) /\ known \subseteq Stores
  BY Zenon DEF InputInv, PcInv
<1>3. thread'[t].store = x.store /\ thread'[t].file = x.file
  BY <1>1 DEF Keeps
<1> DEFINE s == x.store
           f == x.file
<1>4. SUFFICES /\ \E d \in docs' : d.id = id /\ d.vs = s /\ d.source = f
               /\ \/ \E c \in chunks' : c.parent = id /\ c.table = s /\ c.source = f
                  \/ <<s, id>> \in silent' /\ "queries" \in Guidances[s]
                  \/ Len(x.batch) # 1 /\ \E d \in ToSet(Tail(x.batch)) : d.id = id
  BY <1>1, <1>3, Zenon DEF HasDoc, HasChunk
<1>5. /\ HasDoc(id, s, f)
      /\ HasChunk(id, s, f) \/ \E d \in ToSet(x.batch) : d.id = id
  BY <1>1, Zenon DEF PendingOf
<1>6. \E d \in docs' : d.id = id /\ d.vs = s /\ d.source = f
  BY <1>1, <1>5, Zenon DEF HasDoc
<1>7. CASE HasChunk(id, s, f)
  BY <1>d, <1>6, <1>7, Zenon DEF HasChunk
<1>8. ASSUME NEW d \in ToSet(x.batch), d.id = id
      PROVE  \/ \E c \in chunks' : c.parent = id /\ c.table = s /\ c.source = f
             \/ <<s, id>> \in silent' /\ "queries" \in Guidances[s]
             \/ Len(x.batch) # 1 /\ \E e \in ToSet(Tail(x.batch)) : e.id = id
  <2>1. d = doc \/ (d \in ToSet(Tail(x.batch)) /\ Len(x.batch) # 1)
    BY <1>1, <1>2, HeadOrRest, Zenon DEF InputOf
  <2>2. CASE d = doc
    <3>1. IngestedDocument(doc, f, s)
      BY <1>2, <1>8, <2>2, Zenon DEF InputOf
    <3>2. x.guidance \in Guidances[s] /\ x.guidance \in {"chunks", "summary", "queries"}
      BY <1>2, RetrievalAssumption DEF PcOf
    <3> HIDE DEF doc
    <3>3. /\ DOMAIN g # {} => rows # {}
          /\ DOMAIN g # {} \/ x.guidance = "queries"
          /\ \A c \in rows : c.table = s /\ c.parent = doc.id /\ c.source = f
      BY <3>1, <3>2, GuidanceRows
    <3> HIDE DEF rows
    <3>4. CASE DOMAIN g # {}
      <4>1. PICK c \in rows : c.table = s /\ c.parent = doc.id /\ c.source = f
        BY <3>3, <3>4, Zenon
      <4>2. QED
        BY <1>c, <1>8, <2>2, <4>1, Zenon
    <3>5. CASE DOMAIN g = {}
      <4>1. <<s, id>> \in silent'
        BY <1>c, <1>8, <2>2, <3>5, Zenon
      <4>2. QED
        BY <3>2, <3>3, <3>5, <4>1, Zenon
    <3>6. QED
      BY <3>4, <3>5
  <2>3. CASE d \in ToSet(Tail(x.batch)) /\ Len(x.batch) # 1
    BY <1>8, <2>3, Zenon
  <2>4. QED
    BY <2>1, <2>2, <2>3
<1>9. QED
  BY <1>5, <1>6, <1>7, <1>8, Zenon


\* Every step keeps what the ingestions that are alone have stored.
LEMMA PendingStep ==
    ASSUME InstanceInv, AloneInv, InputInv, PendingInv, [Next]_vars
    PROVE  PendingInv'
<1> USE DEF InstanceInv
<1> SUFFICES ASSUME NEW u \in Threads, thread'[u].alone, thread'[u].op = "ingest",
                    NEW id \in thread'[u].ids
             PROVE  /\ HasDoc(id, thread[u].store, thread[u].file)'
                    /\ \/ HasChunk(id, thread[u].store, thread[u].file)'
                       \/ /\ thread'[u].at = "addChildren"
                          /\ \E d \in ToSet(thread'[u].batch) : d.id = id
  BY Zenon DEF PendingInv, PendingOf
<1> DEFINE y == thread'[u]
           Stored == /\ \E d \in docs' : d.id = id /\ d.vs = y.store /\ d.source = y.file
                     /\ \/ \E c \in chunks' :
                             c.parent = id /\ c.table = y.store /\ c.source = y.file
                        \/ <<y.store, id>> \in silent' /\ "queries" \in Guidances[y.store]
                        \/ y.at = "addChildren" /\ \E d \in ToSet(y.batch) : d.id = id
<1>1. SUFFICES Stored
  BY Zenon DEF HasDoc, HasChunk
<1>2. ASSUME NEW t \in Threads, Start(t) PROVE Stored
  <2> PICK me : StartsAs(me) /\ Launch(t, me)
    BY <1>2, StartLaunches
  <2>0. Shape(me) /\ me.ids = {}
    BY DEF StartsAs
  <2>1. docs' = docs /\ chunks' = chunks /\ silent' = silent
    BY LaunchOps, Zenon DEF Launch
  <2>2. u # t
    <3>1. thread'[t].ids = me.ids
      BY <2>0, LaunchShape
    <3>2. QED
      BY <2>0, <3>1
  <2>3. /\ y.op = thread[u].op /\ y.at = thread[u].at /\ y.store = thread[u].store
        /\ y.file = thread[u].file /\ y.batch = thread[u].batch /\ y.ids = thread[u].ids
    BY <2>0, <2>2, LaunchShape, ZenonT(40)
  <2>4. thread[u].alone
    BY <2>0, <2>2, LaunchShape, Zenon
  <2>5. PendingOf(thread[u])
    BY <2>3, <2>4, Zenon DEF PendingInv
  <2>6. id \in thread[u].ids
    BY <2>3, Zenon
  <2>7. /\ HasDoc(id, thread[u].store, thread[u].file)
        /\ \/ HasChunk(id, thread[u].store, thread[u].file)
           \/ thread[u].at = "addChildren" /\ \E d \in ToSet(thread[u].batch) : d.id = id
    BY <2>5, <2>6, Zenon DEF PendingOf
  <2> HIDE DEF y
  <2>8. /\ HasDoc(id, y.store, y.file)
        /\ \/ HasChunk(id, y.store, y.file)
           \/ y.at = "addChildren" /\ \E d \in ToSet(y.batch) : d.id = id
    BY <2>3, <2>7
  <2>9. QED
    BY <2>1, <2>8, Zenon DEF HasDoc, HasChunk
<1>3. ASSUME NEW t \in Threads, Step(t) PROVE Stored
  <2>1. Others(t) /\ (Keeps(thread[t], thread'[t]) \/ thread'[t] = Idle)
    BY <1>3, StepShape, Zenon
  <2>2. CASE u # t
    <3>1. y = thread[u]
      BY <2>1, <2>2, Zenon DEF Others
    <3>2. PendingOf(thread[u]) /\ ~ Spoils(thread[t], thread[u])
      BY <3>1, Zenon DEF PendingInv, AloneInv
    <3> DEFINE s == thread[u].store
               f == thread[u].file
    <3>3. ~ Destroys(thread[t], s, f)
      BY <3>1, <3>2, Zenon DEF Spoils
    <3>4. /\ HasDoc(id, s, f)
          /\ \/ HasChunk(id, s, f)
             \/ thread[u].at = "addChildren" /\ \E d \in ToSet(thread[u].batch) : d.id = id
      BY <3>1, <3>2, Zenon DEF PendingOf
    <3>5. /\ \A d \in docs : d.vs = s /\ d.source = f => d \in docs'
          /\ \A c \in chunks : c.table = s /\ c.source = f => c \in chunks'
          /\ silent \subseteq silent'
      BY <1>3, <3>3, RowsStay, Zenon
    <3>6. QED
      BY <3>1, <3>4, <3>5, Zenon DEF HasDoc, HasChunk
  <2>3. CASE u = t
    <3>1. Keeps(thread[t], y) /\ y # Idle
      BY <2>1, <2>3, IdleFacts
    <3>2. /\ y.store = thread[t].store /\ y.file = thread[t].file /\ thread[t].op = "ingest"
      BY <2>3, <3>1 DEF Keeps
    <3>3. thread[t].alone
      BY <2>3, <3>1, Zenon DEF Keeps
    <3>4. PendingOf(thread[t])
      BY <3>2, <3>3, Zenon DEF PendingInv
    <3>5. CASE AddParents(t)
      BY <2>3, <3>1, <3>2, <3>4, <3>5, PendingParents, Zenon DEF HasDoc, HasChunk
    <3>6. CASE AddChildren(t)
      BY <2>3, <3>1, <3>2, <3>4, <3>6, PendingChildren, Zenon DEF HasDoc, HasChunk
    <3>7. CASE ~ AddParents(t) /\ ~ AddChildren(t)
      <4> DEFINE s == thread[t].store
                 f == thread[t].file
      <4>1. y.batch = thread[t].batch /\ y.ids = thread[t].ids
        BY <1>3, <2>3, <3>1, <3>2, <3>7, InputFrame, Zenon
      <4>2. ~ Destroys(thread[t], s, f)
        BY <3>2 DEF Destroys
      <4>3. /\ \A d \in docs : d.vs = s /\ d.source = f => d \in docs'
            /\ \A c \in chunks : c.table = s /\ c.source = f => c \in chunks'
            /\ silent \subseteq silent'
        BY <1>3, <4>2, RowsStay, Zenon
      <4>4. thread[t].at # "addChildren"
        BY <1>3, <3>7 DEF Step, GetInstance, CreateTable, InsertInstance, LoadInstance,
              OpenStore, CleanupDocs, DropTable, RemoveInstance, FinishIngest, RemoveParents,
              RemoveChildren, Search, MultiGet, At
      <4>5. HasDoc(id, s, f) /\ HasChunk(id, s, f)
        BY <2>3, <3>4, <4>1, <4>4, Zenon DEF PendingOf
      <4>6. QED
        BY <3>2, <4>3, <4>5, Zenon DEF HasDoc, HasChunk
    <3>8. QED
      BY <3>5, <3>6, <3>7
  <2>4. QED
    BY <2>2, <2>3
<1>4. CASE Crash
  <2>1. y = Idle
    BY <1>4, Zenon DEF Crash
  <2>2. QED
    BY <2>1, IdleFacts
<1>5. CASE UNCHANGED vars
  <2>1. y = thread[u] /\ docs' = docs /\ chunks' = chunks /\ silent' = silent
    BY <1>5, Zenon DEF vars
  <2>2. PendingOf(thread[u])
    BY <2>1, Zenon DEF PendingInv
  <2>3. /\ HasDoc(id, y.store, y.file)
        /\ \/ HasChunk(id, y.store, y.file)
           \/ y.at = "addChildren" /\ \E d \in ToSet(y.batch) : d.id = id
    BY <2>1, <2>2, Zenon DEF PendingOf
  <2>4. QED
    BY <2>1, <2>3, Zenon DEF HasDoc, HasChunk
<1>6. QED
  BY <1>2, <1>3, <1>4, <1>5, Zenon DEF Next

\* What a step may add to the ingested files.
LEMMA IngestedFrame ==
    ASSUME NEW t \in Threads, Step(t), NEW r \in ingested', r \notin ingested
    PROVE  /\ FinishIngest(t) /\ thread[t].alone
           /\ r = [store |-> thread[t].store, file |-> thread[t].file, ids |-> thread[t].ids]
<1> USE DEF history
<1>1. CASE GetInstance(t) \/ CreateTable(t) \/ InsertInstance(t) \/ LoadInstance(t)
  BY <1>1, Zenon DEF GetInstance, CreateTable, InsertInstance, LoadInstance
<1>2. CASE OpenStore(t) \/ CleanupDocs(t) \/ DropTable(t) \/ RemoveInstance(t)
  BY <1>2, Zenon DEF OpenStore, CleanupDocs, DropTable, RemoveInstance
<1>3. CASE AddParents(t)
  BY <1>3, Zenon DEF AddParents
<1>4. CASE AddChildren(t)
  BY <1>4, Zenon DEF AddChildren
<1>5. CASE RemoveParents(t) \/ RemoveChildren(t) \/ Search(t) \/ MultiGet(t)
  BY <1>5, Zenon DEF RemoveParents, RemoveChildren, Search, MultiGet
<1>6. CASE FinishIngest(t)
  <2>1. ingested' = IF thread[t].alone
                    THEN ingested \cup {[store |-> thread[t].store, file |-> thread[t].file,
                                         ids |-> thread[t].ids]}
                    ELSE ingested
    BY <1>6, Zenon DEF FinishIngest
  <2>2. QED
    BY <1>6, <2>1, Zenon
<1>7. QED
  BY <1>1, <1>2, <1>3, <1>4, <1>5, <1>6, Zenon DEF Step

\* An ingested file keeps its rows until an operation that takes them starts.
LEMMA FoundStep ==
    ASSUME InstanceInv, AloneInv, PendingInv, FoundInv, [Next]_vars
    PROVE  FoundInv'
<1> USE DEF InstanceInv
<1> DEFINE Quiet(r) == \A u \in Threads : ~ Destroys(thread'[u], r.store, r.file)
           Stored(r) == \A id \in r.ids :
                 /\ \E d \in docs' : d.id = id /\ d.vs = r.store /\ d.source = r.file
                 /\ \/ \E c \in chunks' : c.parent = id /\ c.table = r.store /\ c.source = r.file
                    \/ <<r.store, id>> \in silent' /\ "queries" \in Guidances[r.store]
<1>0. \A r \in ingested :
        /\ \A u \in Threads : ~ Destroys(thread[u], r.store, r.file)
        /\ \A id \in r.ids : HasDoc(id, r.store, r.file) /\ HasChunk(id, r.store, r.file)
  BY Zenon DEF FoundInv
<1>1. SUFFICES ASSUME NEW r \in ingested' PROVE Quiet(r) /\ Stored(r)
  BY Zenon DEF FoundInv, HasDoc, HasChunk
<1>2. ASSUME NEW t \in Threads, Start(t) PROVE Quiet(r) /\ Stored(r)
  <2> PICK me : StartsAs(me) /\ Launch(t, me)
    BY <1>2, StartLaunches
  <2>1. docs' = docs /\ chunks' = chunks /\ silent' = silent
    BY LaunchOps, Zenon DEF Launch
  <2>2. r \in ingested /\ ~ Destroys(me, r.store, r.file)
    BY Zenon DEF Launch
  <2>3. Stored(r)
    BY <1>0, <2>1, <2>2, Zenon DEF HasDoc, HasChunk
  <2>4. ASSUME NEW u \in Threads PROVE ~ Destroys(thread'[u], r.store, r.file)
    <3>1. CASE u = t
      <4>1. thread'[t].op = me.op /\ thread'[t].store = me.store /\ thread'[t].file = me.file
        BY LaunchOps
      <4>2. QED
        BY <2>2, <3>1, <4>1 DEF Destroys
    <3>2. CASE u # t
      <4>1. /\ thread'[u].op = thread[u].op /\ thread'[u].store = thread[u].store
            /\ thread'[u].file = thread[u].file
        BY <3>2, LaunchOps, Zenon
      <4>2. ~ Destroys(thread[u], r.store, r.file)
        BY <1>0, <2>2, Zenon
      <4>3. QED
        BY <4>1, <4>2 DEF Destroys
    <3>3. QED
      BY <3>1, <3>2
  <2>5. QED
    BY <2>3, <2>4, Zenon
<1>3. ASSUME NEW t \in Threads, Step(t) PROVE Quiet(r) /\ Stored(r)
  <2>1. Others(t) /\ (Keeps(thread[t], thread'[t]) \/ thread'[t] = Idle)
    BY <1>3, StepShape, Zenon
  <2>2. Destroys(thread'[t], r.store, r.file) => Destroys(thread[t], r.store, r.file)
    BY <2>1, IdleFacts DEF Keeps, Destroys
  <2>3. (\A u \in Threads : ~ Destroys(thread[u], r.store, r.file)) => Quiet(r)
    BY <2>1, <2>2, Zenon DEF Others
  <2>4. CASE r \in ingested
    <3>1. ~ Destroys(thread[t], r.store, r.file)
      BY <1>0, <2>4, Zenon
    <3>2. /\ \A d \in docs : d.vs = r.store /\ d.source = r.file => d \in docs'
          /\ \A c \in chunks : c.table = r.store /\ c.source = r.file => c \in chunks'
          /\ silent \subseteq silent'
      BY <1>3, <3>1, RowsStay, Zenon
    <3>3. Stored(r)
      BY <1>0, <2>4, <3>2, Zenon DEF HasDoc, HasChunk
    <3>4. QED
      BY <1>0, <2>3, <2>4, <3>3, Zenon
  <2>5. CASE r \notin ingested
    <3> DEFINE x == thread[t]
    <3>1. /\ FinishIngest(t) /\ x.alone
          /\ r = [store |-> x.store, file |-> x.file, ids |-> x.ids]
      BY <1>3, <2>5, IngestedFrame, Zenon
    <3>2. x.at = "addParents" /\ docs' = docs /\ chunks' = chunks /\ silent' = silent
      BY <3>1, Zenon DEF FinishIngest, At, stores, bounds
    <3>3. x.op = "ingest"
      BY <3>2 DEF PcInv, PcOf
    <3>4. r.store = x.store /\ r.file = x.file /\ r.ids = x.ids
      BY <3>1
    <3>5. PendingOf(x) /\ \A u \in Threads : ~ Spoils(thread[u], x)
      BY <3>1, <3>3, Zenon DEF PendingInv, AloneInv
    <3>6. \A u \in Threads : ~ Destroys(thread[u], r.store, r.file)
      BY <3>3, <3>4, <3>5 DEF Spoils
    <3>7. \A id \in r.ids : HasDoc(id, r.store, r.file) /\ HasChunk(id, r.store, r.file)
      BY <3>2, <3>4, <3>5 DEF PendingOf
    <3>8. Stored(r)
      BY <3>2, <3>7, Zenon DEF HasDoc, HasChunk
    <3>9. QED
      BY <2>3, <3>6, <3>8, Zenon
  <2>6. QED
    BY <2>4, <2>5
<1>4. CASE Crash
  <2>1. /\ ingested' = ingested /\ docs' = docs /\ chunks' = chunks /\ silent' = silent
        /\ \A u \in Threads : thread'[u] = Idle
    BY <1>4, Zenon DEF Crash, stores
  <2>2. Quiet(r)
    BY <2>1, IdleFacts DEF Destroys
  <2>3. QED
    BY <1>0, <2>1, <2>2, Zenon DEF HasDoc, HasChunk
<1>5. CASE UNCHANGED vars
  <2>1. /\ ingested' = ingested /\ docs' = docs /\ chunks' = chunks /\ thread' = thread
        /\ silent' = silent
    BY <1>5, Zenon DEF vars
  <2>2. QED
    BY <1>0, <2>1, Zenon DEF HasDoc, HasChunk
<1>6. QED
  BY <1>2, <1>3, <1>4, <1>5, Zenon DEF Next

\* A document with all its rows is retrievable.
LEMMA FoundIsRetrievable == FoundInv => IngestedIsRetrievable
<1> SUFFICES ASSUME FoundInv, NEW r \in ingested, NEW id \in r.ids
             PROVE  /\ MultiGetDocuments({id}) # {}
                    /\ \/ id \in {c.parent : c \in Rows(r.store, {r.file})}
                       \/ <<r.store, id>> \in silent /\ "queries" \in Guidances[r.store]
  BY Zenon DEF IngestedIsRetrievable
<1>1. MultiGetDocuments({id}) # {}
  BY Zenon DEF FoundInv, HasDoc, MultiGetDocuments
<1>2. \/ \E c \in chunks : c.parent = id /\ c.table = r.store /\ c.source = r.file
      \/ <<r.store, id>> \in silent /\ "queries" \in Guidances[r.store]
  BY Zenon DEF FoundInv, HasChunk
<1>3. QED
  BY <1>1, <1>2, Zenon DEF Rows

\* When an ingestion has succeeded without a removal beside it, every document
\* of the file is stored and an embedded row of the store's table leads to it,
\* for all three kinds of guidance and whatever limits and filters searches
\* have, until a removal of the file or the store starts; failing batches,
\* crashes and the other threads do not matter.  Only a document for which the
\* model generated no query at all has no row.
THEOREM IngestedStaysRetrievable == Spec => []IngestedIsRetrievable
<1>1. Init => AloneInv /\ InputInv /\ PendingInv /\ FoundInv
  <2> SUFFICES ASSUME Init PROVE PendingInv /\ FoundInv
    BY RemovalInit DEF RemovalInv
  <2>1. (\A t \in Threads : thread[t] = Idle) /\ ingested = {}
    BY Zenon DEF Init
  <2>2. \A t \in Threads : thread[t].op # "ingest"
    BY <2>1, IdleFacts
  <2>3. QED
    BY <2>1, <2>2, Zenon DEF PendingInv, FoundInv
<1>2. InstanceInv /\ AloneInv /\ InputInv /\ PendingInv /\ FoundInv /\ [Next]_vars
          => AloneInv' /\ InputInv' /\ PendingInv' /\ FoundInv'
  <2> SUFFICES ASSUME InstanceInv, AloneInv, InputInv, PendingInv, FoundInv, [Next]_vars
               PROVE  AloneInv' /\ InputInv' /\ PendingInv' /\ FoundInv'
    OBVIOUS
  <2>1. ShapeInv /\ PcInv
    BY DEF InstanceInv
  <2>2. AloneInv' /\ InputInv'
    BY <2>1, AloneStep, InputStep
  <2>3. QED
    BY <2>2, PendingStep, FoundStep
<1>3. QED
  BY <1>1, <1>2, InstanceInvariant, FoundIsRetrievable, PTL DEF Spec

===============================================================================
