--------------------------- MODULE ModelClientProofs ---------------------------
(***************************************************************************)
(* The model clients for any number of callers, any operations and any      *)
(* streamed answers, cut anywhere; their configuration for any options,     *)
(* environment and overrides; and the file vault for any number of threads, *)
(* deletions and crashes.                                                   *)
(***************************************************************************)
EXTENDS ModelClient, FileVault, ModelConfig, WellFoundedInduction, TLAPS

Kinds == {"chat", "llm", "stream", "embed"}
Providers == {"openai", "ollama"}
Phases == {"start", "call", "wait", "collect", "unwind", "returned"}
Outcomes == {"none", "completed", "failed", "empty response", "malformed", "status", "lost",
             "timeout"}
Requests == {"queued", "sending", "exception", "empty", "ok"}

Chars == [line : Nat, half : Nat]
AnyBody == Bodies \cup {NoBody}

(* Only a batch waits, and a result is a text, a vector or, while a         *)
(* generation goes on, the generations of one response.                     *)
ClientTypeOK ==
    /\ op \in [Callers -> Ops]
    /\ phase \in [Callers -> Phases]
    /\ got \in [Callers -> Seq(Nat \cup Seq(Nat))]
    /\ outcome \in [Callers -> Outcomes]
    /\ body \in [Callers -> AnyBody]
    /\ received \in [Callers -> Nat]
    /\ buffer \in [Callers -> Seq(Chars)]
    /\ request \in [Callers -> Seq(Requests)]
    /\ pool \in Seq(Callers \X Nat)

(* Which phases an operation goes through; before the end there is no       *)
(* outcome, except for a stream that has seen the sentinel.                 *)
PhaseInv(c) ==
    /\ phase[c] \in {"wait", "collect", "unwind"} => op[c].kind = "embed" /\ op[c].provider = "ollama"
    /\ phase[c] \in {"start", "call", "wait", "collect"} /\ op[c].kind # "stream" => outcome[c] = "none"
    /\ phase[c] = "start" => got[c] = <<>>
    /\ phase[c] = "call" /\ op[c].kind \in {"chat", "llm"} => got[c] \in Seq(Seq(Nat))
    /\ op[c].kind \in {"stream", "embed"} => got[c] \in Seq(Nat)

(* What a subscriber has been given is what the answer is worth so far.     *)
Faithful(g, end, b, provider) ==
    /\ Len(g) <= Len(Worth(b, provider))
    /\ \A i \in 1..Len(g) : g[i] = Worth(b, provider)[i]
    /\ end = "completed" => Len(g) = Len(Worth(b, provider))

(* What was received from a place on.                                       *)
IsWindow(q, bytes, base, to) == Len(q) = to - base /\ \A i \in 1..Len(q) : q[i] = bytes[base + i]

(* The first k lines went to the subscriber, who may have seen the sentinel *)
(* before; the buffer holds what was received after them.                   *)
ReadTo(k, c) ==
    LET b == body[c]
        provider == op[c].provider
        w == Width(provider)
    IN  /\ k \in 0..Len(b.lines)
        /\ k * w <= received[c] /\ received[c] <= Length(b, provider)
        /\ IsWindow(buffer[c], Bytes(b, provider), k * w, received[c])
        /\ outcome[c] = "none" \/ outcome[c] = "completed"
        /\ outcome[c] = "none" => Len(got[c]) = k

StreamInv(c) ==
    op[c].kind = "stream" =>
        /\ Faithful(got[c], outcome[c], body[c], op[c].provider)
        /\ phase[c] = "start" => outcome[c] = "none" /\ received[c] = 0 /\ buffer[c] = <<>>
        /\ phase[c] = "call" => \E k \in 0..Len(body[c].lines) : ReadTo(k, c)

(* The requests in the pool are queued ones, each once; a batch is queued   *)
(* at once, and has no request left when it is over.                        *)
PoolInv ==
    /\ \A j \in DOMAIN pool :
          /\ pool[j][2] \in DOMAIN request[pool[j][1]]
          /\ request[pool[j][1]][pool[j][2]] = "queued"
    /\ \A i, j \in DOMAIN pool : pool[i] = pool[j] => i = j

BatchInv(c) ==
    /\ phase[c] \in {"start", "call"} => request[c] = <<>>
    /\ phase[c] = "returned" => AllReady(c)
    /\ op[c].kind = "embed" => \A i \in DOMAIN got[c] : got[c][i] = 0 \/ got[c][i] = i
    /\ op[c].kind = "embed" /\ op[c].provider = "ollama" =>
          /\ phase[c] # "returned" => Len(got[c]) <= op[c].n
          /\ outcome[c] = "completed" => Len(got[c]) = op[c].n

CallerInv(c) == PhaseInv(c) /\ StreamInv(c) /\ BatchInv(c)

ClientInv == ClientTypeOK /\ PoolInv /\ \A c \in Callers : CallerInv(c)

-----------------------------------------------------------------------------
(* Streams.                                                                 *)

(* A nonempty set of numbers has a least one.                               *)
LEMMA LeastNumber ==
    ASSUME NEW S \in SUBSET Nat, S # {}
    PROVE  \E n \in S : \A m \in S : n <= m
<1> DEFINE R == OpToRel(<, Nat)
<1>1. IsWellFoundedOn(R, Nat)
  BY NatLessThanWellFounded
<1>2. \A x, y \in Nat : y < x => <<y, x>> \in R
  BY DEF OpToRel
<1> HIDE DEF R
<1>3. PICK x \in S : \A y \in S : ~ (<<y, x>> \in R)
  BY <1>1, WFMin
<1>4. ASSUME NEW y \in S PROVE x <= y
  <2>1. x \in Nat /\ y \in Nat
    OBVIOUS
  <2>2. ~ (y < x)
    BY <2>1, <1>2, <1>3
  <2> QED BY <2>1, <2>2
<1> QED BY <1>3, <1>4

(* A breaker is one newline or two.                                         *)
LEMMA Breakers ==
    ASSUME NEW provider \in Providers
    PROVE  /\ Breaker(provider) \in Seq(Chars)
           /\ Width(provider) = 2 + Len(Breaker(provider))
           /\ Width(provider) \in {3, 4} /\ Len(Breaker(provider)) = Width(provider) - 2
           /\ \A j \in 1..Len(Breaker(provider)) : Breaker(provider)[j] = Newline
<1>1. CASE provider = "openai"
  BY <1>1 DEF Width, Breaker, Newline, Chars
<1>2. CASE provider = "ollama"
  BY <1>2 DEF Width, Breaker, Newline, Chars
<1> QED BY <1>1, <1>2 DEF Providers

(* The text of a line has no newline in it, and tells the lines apart.      *)
LEMMA Lines ==
    ASSUME NEW k \in Nat
    PROVE  /\ Line(k) \in Seq(Chars) /\ Len(Line(k)) = 2
           /\ Line(k)[1] # Newline /\ Line(k)[2] # Newline
           /\ Newline \in Chars /\ \A j \in 1..2 : Line(k)[j] \in Chars
           /\ \A m \in Nat : Line(k) = Line(m) => k = m
  BY DEF Line, Newline, Chars

(* An answer is a sequence of lines of five kinds.                          *)
LEMMA BodyType ==
    ASSUME NEW b \in AnyBody
    PROVE  /\ b.lines \in Seq({"chunk", "marked", "empty", "bad", "done"}) /\ Len(b.lines) \in Nat
           /\ b.closed \in BOOLEAN /\ b.status \in Nat
<1>1. CASE b \in Bodies
  BY <1>1, ModelClientAssumption
<1>2. CASE b = NoBody
  BY <1>2 DEF NoBody
<1> QED BY <1>1, <1>2 DEF AnyBody

\* What the subscriber is given for a line.
ResultOf(b, k) == IF b.lines[k] = "empty" THEN 0 ELSE StripDataStreamPrefix(b, k)

(* What the sentinel or the first error leaves of an answer.                *)
LEMMA WorthOfLines ==
    ASSUME NEW b \in AnyBody, NEW provider \in Providers
    PROVE  /\ b.lines \in Seq({"chunk", "marked", "empty", "bad", "done"}) /\ b.status \in Nat
           /\ Worth(b, provider) \in Seq(Nat)
           /\ Len(Worth(b, provider)) <= Len(b.lines)
           /\ \A k \in 1..Len(Worth(b, provider)) :
                 /\ ~ Stops(b.lines[k], provider)
                 /\ Worth(b, provider)[k] = ResultOf(b, k)
           /\ Len(Worth(b, provider)) < Len(b.lines) =>
                 Stops(b.lines[Len(Worth(b, provider)) + 1], provider)
<1> DEFINE stops == {k \in DOMAIN b.lines : Stops(b.lines[k], provider)}
           least == CHOOSE k \in stops : \A j \in stops : k <= j
           n == IF stops = {} THEN Len(b.lines) ELSE least - 1
<1>1. b.lines \in Seq({"chunk", "marked", "empty", "bad", "done"}) /\ b.status \in Nat
  BY BodyType
<1>2. stops \in SUBSET Nat /\ \A k \in stops : k \in 1..Len(b.lines)
  BY <1>1
<1>3. stops # {} => least \in stops /\ \A j \in stops : least <= j
  BY <1>2, LeastNumber
<1>4. /\ n \in 0..Len(b.lines)
      /\ \A k \in 1..n : k \notin stops
      /\ n < Len(b.lines) => n + 1 \in stops
  <2> HIDE DEF stops, least
  <2>1. CASE stops = {}
    BY <2>1, <1>1
  <2>2. CASE stops # {}
    <3>1. least \in stops /\ least \in 1..Len(b.lines) /\ \A j \in stops : least <= j
      BY <2>2, <1>2, <1>3
    <3>2. n = least - 1
      BY <2>2
    <3>3. n \in 0..Len(b.lines) /\ n + 1 = least /\ \A k \in 1..n : k < least /\ k \in Int
      BY <3>1, <3>2, <1>1
    <3>4. \A k \in 1..n : k \notin stops
      <4> SUFFICES ASSUME NEW k \in 1..n, k \in stops PROVE FALSE
        OBVIOUS
      <4>1. least <= k /\ k < least /\ k \in Int
        BY <3>1, <3>3
      <4>2. least \in Int
        BY <3>1
      <4> QED BY <4>1, <4>2
    <3> QED BY <3>1, <3>3, <3>4
  <2> QED BY <2>1, <2>2
<1>5. Worth(b, provider) = [k \in 1..n |-> ResultOf(b, k)]
  <2>1. Worth(b, provider) = [k \in 1..n |-> CASE b.lines[k] = "empty" -> 0
                                              [] b.lines[k] = "marked" -> Cut(b, k)
                                              [] OTHER -> k]
    BY DEF Worth
  <2> HIDE DEF n
  <2>2. \A k \in 1..n : (CASE b.lines[k] = "empty" -> 0
                          [] b.lines[k] = "marked" -> Cut(b, k)
                          [] OTHER -> k) = ResultOf(b, k)
    BY DEF ResultOf, StripDataStreamPrefix
  <2> QED BY <2>1, <2>2
<1> HIDE DEF n
<1>R. \A k \in 1..n : ResultOf(b, k) \in Nat
  BY <1>1, <1>4 DEF ResultOf, StripDataStreamPrefix, Cut
<1>6. Worth(b, provider) \in Seq(Nat) /\ Len(Worth(b, provider)) = n
  BY <1>4, <1>5, <1>R
<1>7. \A k \in 1..n : ~ Stops(b.lines[k], provider)
  BY <1>1, <1>4
<1>8. n < Len(b.lines) => Stops(b.lines[n + 1], provider)
  BY <1>4
<1> QED BY <1>1, <1>4, <1>5, <1>6, <1>7, <1>8

(* Where the bytes of a line are.                                           *)
LEMMA BytesOfLines ==
    ASSUME NEW b \in AnyBody, NEW provider \in Providers
    PROVE  /\ Length(b, provider) \in Nat
           /\ Bytes(b, provider) \in Seq(Chars)
           /\ Len(Bytes(b, provider)) = Length(b, provider)
           /\ \A k \in Nat, j \in 1..Width(provider) :
                 k * Width(provider) + j <= Length(b, provider) =>
                    Bytes(b, provider)[k * Width(provider) + j] =
                        IF j <= 2 THEN Line(k + 1)[j] ELSE Newline
           /\ b.closed \/ b.lines = <<>> => Length(b, provider) = Len(b.lines) * Width(provider)
           /\ ~ b.closed /\ b.lines # <<>> =>
                 /\ Length(b, provider) = (Len(b.lines) - 1) * Width(provider) + 2
                 /\ Len(b.lines) > 0
<1> DEFINE w == Width(provider)
<1>1. w \in {3, 4} /\ w = 2 + Len(Breaker(provider)) /\ Len(Breaker(provider)) = w - 2
  BY Breakers
<1>2. b.lines \in Seq({"chunk", "marked", "empty", "bad", "done"}) /\ b.closed \in BOOLEAN
  BY BodyType
<1>3. /\ b.closed \/ b.lines = <<>> => Length(b, provider) = Len(b.lines) * w
      /\ ~ b.closed /\ b.lines # <<>> => Length(b, provider) = Len(b.lines) * w - (w - 2)
  <2>1. Len(b.lines) * w \in Int
    <3>1. Len(b.lines) \in Int /\ w \in Int
      BY <1>1, <1>2
    <3> QED BY <3>1
  <2>2. CASE b.closed \/ b.lines = <<>>
    <3>1. Length(b, provider) = Len(b.lines) * w - 0
      BY <2>2 DEF Length
    <3> QED BY <2>1, <2>2, <3>1
  <2>3. CASE ~ (b.closed \/ b.lines = <<>>)
    BY <2>1, <2>3, <1>1 DEF Length
  <2> QED BY <2>2, <2>3
<1>4. /\ b.lines # <<>> => Len(b.lines) > 0
      /\ Len(b.lines) \in Nat
  BY <1>2
<1> DEFINE n == Length(b, provider)
           L == Len(b.lines)
           byte(i) == IF ((i - 1) % w) + 1 <= 2 THEN Line((i - 1) \div w + 1)[((i - 1) % w) + 1] ELSE Newline
<1>5. Bytes(b, provider) = [i \in 1..n |-> byte(i)]
  BY DEF Bytes
<1> HIDE DEF w, n
<1>6. n \in Nat /\ (~ b.closed /\ b.lines # <<>> => n = (L - 1) * w + 2 /\ L > 0)
  <2> HIDE DEF L
  <2>1. CASE w = 3
    BY <2>1, <1>3, <1>4 DEF n, L
  <2>2. CASE w = 4
    BY <2>2, <1>3, <1>4 DEF n, L
  <2> QED BY <2>1, <2>2, <1>1
<1>7. ASSUME NEW k \in Nat, NEW j \in 1..w
      PROVE  /\ (k * w + j - 1) % w = j - 1 /\ (k * w + j - 1) \div w = k
             /\ k * w \in Nat
  <2>1. CASE w = 3
    BY <2>1
  <2>2. CASE w = 4
    BY <2>2
  <2> QED BY <2>1, <2>2, <1>1
<1>8. ASSUME NEW i \in 1..n
      PROVE  byte(i) \in Chars
  <2>1. (i - 1) % w \in Nat /\ (i - 1) \div w \in Nat
    <3>1. CASE w = 3
      BY <3>1, <1>6
    <3>2. CASE w = 4
      BY <3>2, <1>6
    <3> QED BY <3>1, <3>2, <1>1
  <2> DEFINE k == (i - 1) \div w + 1
             j == ((i - 1) % w) + 1
  <2>2. k \in Nat /\ j \in Nat /\ j >= 1
    BY <2>1
  <2> HIDE DEF k, j
  <2>3. j <= 2 => Line(k)[j] \in Chars
    <3>1. j <= 2 => j \in 1..2
      BY <2>2
    <3> QED BY <2>2, <3>1, Lines
  <2>4. Newline \in Chars
    BY DEF Newline, Chars
  <2> QED BY <2>3, <2>4 DEF k, j
<1>9. Bytes(b, provider) \in Seq(Chars) /\ Len(Bytes(b, provider)) = n
  <2>1. \A i \in 1..n : byte(i) \in Chars
    BY <1>8
  <2> HIDE DEF byte
  <2>2. Bytes(b, provider) \in [1..n -> Chars]
    BY <1>5, <2>1
  <2> QED BY <1>6, <2>2
<1>10. ASSUME NEW k \in Nat, NEW j \in 1..w, k * w + j <= n
       PROVE  Bytes(b, provider)[k * w + j] = IF j <= 2 THEN Line(k + 1)[j] ELSE Newline
  <2> DEFINE i == k * w + j
  <2>1. i \in 1..n /\ (i - 1) % w = j - 1 /\ (i - 1) \div w = k
    <3>1. i - 1 = k * w + j - 1 /\ k * w \in Nat /\ j \in Nat /\ j >= 1 /\ i <= n
      BY <1>7, <1>10, <1>1
    <3>2. i \in 1..n
      BY <3>1, <1>6
    <3> QED BY <3>1, <3>2, <1>7
  <2> HIDE DEF i
  <2>2. Bytes(b, provider)[i] = byte(i)
    BY <1>5, <2>1
  <2>3. ((i - 1) % w) + 1 = j /\ (i - 1) \div w + 1 = k + 1
    BY <2>1, <1>1
  <2> QED BY <2>2, <2>3 DEF i
<1> QED BY <1>3, <1>6, <1>9, <1>10 DEF w, n


(* The parsers recognise a whole line.                                      *)
LEMMA WholeLine ==
    ASSUME NEW b \in AnyBody, NEW k \in 1..Len(b.lines)
    PROVE  Kind(b, Line(k)) = b.lines[k] /\ Result(b, Line(k)) = k
<1>1. DOMAIN b.lines = 1..Len(b.lines)
  BY BodyType
<1>2. \A m \in 1..Len(b.lines) : Line(m) = Line(k) <=> m = k
  <2>1. k \in Nat /\ \A m \in 1..Len(b.lines) : m \in Nat
    BY BodyType
  <2> QED BY <2>1, Lines
<1> DEFINE ks == {m \in DOMAIN b.lines : Line(m) = Line(k)}
<1>3. ks = {k}
  BY <1>1, <1>2
<1>4. Kind(b, Line(k)) = IF ks = {} THEN "bad" ELSE b.lines[CHOOSE m \in ks : TRUE]
  BY DEF Kind
<1>5. Kind(b, Line(k)) = b.lines[k]
  <2> HIDE DEF ks
  <2>1. (CHOOSE m \in ks : TRUE) = k
    BY <1>3
  <2> QED BY <1>3, <1>4, <2>1
<1>6. Result(b, Line(k)) = k
  BY <1>1, <1>2 DEF Result
<1> QED BY <1>5, <1>6

(* What a line does to a stream that has given k results.                   *)
Handed(s, b, provider, k) ==
    \E g \in Seq(Nat), e \in {"none", "completed", "malformed", "empty response"}, t \in BOOLEAN :
        /\ s = [got |-> g, end |-> e, thrown |-> t]
        /\ ~ t => e \in {"none", "completed"}
        /\ t => e # "none"
        /\ e = "none" => Len(g) = k + 1
        /\ Faithful(g, e, b, provider)

(* A line given to the subscriber: the next result, the sentinel, or an     *)
(* error that ends the request.                                             *)
LEMMA NextLine ==
    ASSUME NEW b \in AnyBody, NEW provider \in Providers, NEW k \in Nat, k < Len(b.lines),
           NEW g \in Seq(Nat), NEW e \in {"none", "completed"},
           Faithful(g, e, b, provider), e = "none" => Len(g) = k
    PROVE  Handed(OnNext([got |-> g, end |-> e, thrown |-> FALSE], b, provider, Line(k + 1)), b, provider, k)
<1> USE DEF Handed
<1> DEFINE s == [got |-> g, end |-> e, thrown |-> FALSE]
           line == b.lines[k + 1]
           worth == Worth(b, provider)
           after(g2, e2, t) == [got |-> g2, end |-> e2, thrown |-> t]
<1>0. /\ b.lines \in Seq({"chunk", "marked", "empty", "bad", "done"}) /\ Len(b.lines) \in Nat
      /\ worth \in Seq(Nat) /\ Len(worth) \in Nat /\ Len(worth) <= Len(b.lines)
  BY BodyType, WorthOfLines
<1>W. /\ \A j \in 1..Len(worth) : ~ Stops(b.lines[j], provider) /\ worth[j] = ResultOf(b, j)
      /\ Len(worth) < Len(b.lines) => Stops(b.lines[Len(worth) + 1], provider)
  BY WorthOfLines
<1> HIDE DEF worth
<1>1. k + 1 \in 1..Len(b.lines) /\ line \in {"chunk", "marked", "empty", "bad", "done"}
  BY <1>0
<1>2. Kind(b, Line(k + 1)) = line /\ Result(b, Line(k + 1)) = k + 1
  BY <1>1, WholeLine
<1> HIDE DEF line
<1>3. CASE e = "completed"
  <2>1. OnNext(s, b, provider, Line(k + 1)) = after(g, e, FALSE)
    BY <1>3 DEF OnNext, Open
  <2> QED BY <2>1, <1>3
<1>4. CASE e = "none" /\ Stops(line, provider)
  <2>1. \/ OnNext(s, b, provider, Line(k + 1)) = after(g, "completed", FALSE)
        \/ OnNext(s, b, provider, Line(k + 1)) = after(g, "malformed", TRUE)
        \/ OnNext(s, b, provider, Line(k + 1)) = after(g, "empty response", TRUE)
    <3>1. CASE line = "done" /\ provider = "openai"
      <4> HIDE DEF s
      <4>1. OnNext(s, b, provider, Line(k + 1)) = Ended(s, "completed", FALSE)
        <5>1. s.end = "none"
          BY <1>4 DEF s
        <5> QED BY <5>1, <1>2, <3>1 DEF OnNext, Open
      <4>2. Ended(s, "completed", FALSE) = after(g, "completed", FALSE)
        BY DEF s, Ended
      <4> QED BY <4>1, <4>2
    <3>2. CASE line \in {"bad", "done"} /\ ~ (line = "done" /\ provider = "openai")
      BY <1>2, <1>4, <3>2 DEF OnNext, Open, Ended
    <3>3. CASE line = "empty" /\ provider = "openai"
      <4> HIDE DEF s
      <4>1. OnNext(s, b, provider, Line(k + 1)) = Ended(s, "empty response", TRUE)
        <5>1. s.end = "none"
          BY <1>4 DEF s
        <5>2. ~ HasAnswer(Call(provider, line, 0))
          BY <3>3 DEF Call, CallOpenAI, HasAnswer
        <5> QED BY <5>1, <5>2, <1>2, <3>3 DEF OnNext, Open
      <4>2. Ended(s, "empty response", TRUE) = after(g, "empty response", TRUE)
        BY DEF s, Ended
      <4> QED BY <4>1, <4>2
    <3> QED BY <1>4, <3>1, <3>2, <3>3 DEF Stops
  <2>2. Len(g) = Len(worth)
    <3>1. Len(g) = k /\ Len(g) <= Len(worth)
      BY <1>4 DEF Faithful, worth
    <3>2. ~ (k + 1 \in 1..Len(worth))
      BY <1>4, <1>W DEF line
    <3> QED BY <3>1, <3>2, <1>0
  <2>3. \A e2 : Faithful(g, e2, b, provider)
    BY <2>2 DEF Faithful, worth
  <2> QED BY <2>1, <2>3
<1>5. CASE e = "none" /\ ~ Stops(line, provider)
  <2> DEFINE v == ResultOf(b, k + 1)
             text == StripDataStreamPrefix(b, k + 1)
  <2>0. v = IF line = "empty" THEN 0 ELSE text
    BY DEF ResultOf, line
  <2> HIDE DEF v, text
  <2>1. OnNext(s, b, provider, Line(k + 1)) = after(Append(g, v), "none", FALSE)
    <3>1. CASE line = "empty"
      <4>1. provider = "ollama"
        BY <1>5, <3>1 DEF Stops, Providers
      <4> QED BY <4>1, <3>1, <2>0, <1>2, <1>5 DEF OnNext, Open, Call, CallOllama, HasAnswer, FirstGeneration, Given
    <3>2. CASE line \in {"chunk", "marked"}
      <4>1. Call(provider, "ok", text) = <<text>>
        BY DEF Call, CallOpenAI, CallOllama
      <4>2. /\ HasAnswer(Call(provider, "ok", text))
            /\ FirstGeneration(Call(provider, "ok", text)) = text
        BY <4>1 DEF HasAnswer, FirstGeneration
      <4> HIDE DEF s
      <4>3. OnNext(s, b, provider, Line(k + 1)) = Given(s, text)
        <5>1. s.end = "none"
          BY <1>5 DEF s
        <5> QED BY <5>1, <4>2, <1>2, <3>2 DEF OnNext, Open, text
      <4>4. Given(s, text) = after(Append(g, v), "none", FALSE)
        <5>1. v = text /\ e = "none"
          BY <1>5, <3>2, <2>0
        <5> QED BY <5>1 DEF s, Given
      <4> QED BY <4>3, <4>4
    <3> QED BY <1>1, <1>5, <3>1, <3>2 DEF Stops
  <2>2. Len(g) = k /\ Len(g) <= Len(worth) /\ \A i \in 1..Len(g) : g[i] = worth[i]
    BY <1>5 DEF Faithful, worth
  <2>3. Len(worth) # k
    <3> SUFFICES ASSUME Len(worth) = k PROVE FALSE
      OBVIOUS
    <3> QED BY <1>5, <1>W DEF line
  <2>4. k + 1 \in 1..Len(worth) /\ worth[k + 1] = v
    <3>1. k + 1 \in 1..Len(worth)
      BY <2>2, <2>3, <1>0
    <3> QED BY <3>1, <1>W DEF line, v
  <2>5. v \in Nat
    BY <2>4, <1>0
  <2>6. /\ Append(g, v) \in Seq(Nat) /\ Len(Append(g, v)) = k + 1
        /\ \A i \in 1..(k + 1) : Append(g, v)[i] = IF i <= k THEN g[i] ELSE v
    BY <2>2, <2>5
  <2>7. Faithful(Append(g, v), "none", b, provider)
    <3>1. Len(Append(g, v)) <= Len(worth)
      BY <2>4, <2>6, <1>0
    <3>2. ASSUME NEW i \in 1..Len(Append(g, v))
          PROVE  Append(g, v)[i] = worth[i]
      <4>1. CASE i <= k
        <5>1. i \in 1..Len(g) /\ i \in 1..(k + 1)
          BY <4>1, <2>2, <2>6
        <5> QED BY <5>1, <4>1, <2>2, <2>6
      <4>2. CASE i = k + 1
        BY <4>2, <2>4, <2>6
      <4> QED BY <4>1, <4>2, <2>6
    <3> QED BY <3>1, <3>2 DEF Faithful, worth
  <2> QED BY <2>1, <2>6, <2>7
<1> QED BY <1>3, <1>4, <1>5


(* A piece of a sequence.                                                   *)
LEMMA Piece ==
    ASSUME NEW S, NEW q \in Seq(S), NEW m \in Nat, NEW n \in Nat, 1 <= m, m <= n + 1, n <= Len(q)
    PROVE  /\ SubSeq(q, m, n) \in Seq(S) /\ Len(SubSeq(q, m, n)) = n + 1 - m
           /\ \A i \in 1..(n + 1 - m) : SubSeq(q, m, n)[i] = q[m + i - 1]
<1> DEFINE p == SubSeq(q, m, n)
<1>1. p = [i \in 1..(n + 1 - m) |-> q[m + i - 1]]
  OBVIOUS
<1>2. \A i \in 1..(n + 1 - m) : m + i - 1 \in 1..Len(q)
  OBVIOUS
<1>3. \A i \in 1..(n + 1 - m) : q[m + i - 1] \in S
  BY <1>2
<1> HIDE DEF p
<1>4. p \in [1..(n + 1 - m) -> S] /\ n + 1 - m \in Nat
  BY <1>1, <1>3
<1>5. p \in Seq(S) /\ Len(p) = n + 1 - m
  BY <1>4
<1> QED BY <1>1, <1>5 DEF p

(* One sequence after another.                                              *)
LEMMA Joined ==
    ASSUME NEW S, NEW p \in Seq(S), NEW q \in Seq(S)
    PROVE  /\ p \o q \in Seq(S) /\ Len(p \o q) = Len(p) + Len(q)
           /\ \A i \in 1..(Len(p) + Len(q)) : (p \o q)[i] = IF i <= Len(p) THEN p[i] ELSE q[i - Len(p)]
  OBVIOUS

(* Texts and vectors are results.                                           *)
LEMMA Results ==
    ASSUME NEW g \in Seq(Nat)
    PROVE  g \in Seq(Nat \cup Seq(Nat))
  OBVIOUS

(* What is known of a caller.                                               *)
LEMMA CallerTypes ==
    ASSUME ClientTypeOK, NEW c \in Callers
    PROVE  /\ op[c] \in Ops /\ op[c].kind \in Kinds /\ op[c].provider \in Providers
           /\ op[c].n \in Nat /\ op[c].parallel \in BOOLEAN
           /\ phase[c] \in Phases /\ outcome[c] \in Outcomes /\ body[c] \in AnyBody
           /\ received[c] \in Nat /\ buffer[c] \in Seq(Chars) /\ request[c] \in Seq(Requests)
           /\ got[c] \in Seq(Nat \cup Seq(Nat))
<1>1. op[c] \in Ops
  BY DEF ClientTypeOK
<1>2. op[c] \in [kind : Kinds, provider : Providers, n : Nat, parallel : BOOLEAN]
  BY <1>1, ModelClientAssumption DEF Kinds, Providers
<1>3. /\ phase[c] \in Phases /\ outcome[c] \in Outcomes /\ body[c] \in AnyBody
      /\ received[c] \in Nat /\ buffer[c] \in Seq(Chars) /\ request[c] \in Seq(Requests)
      /\ got[c] \in Seq(Nat \cup Seq(Nat))
  BY DEF ClientTypeOK
<1> QED BY <1>1, <1>2, <1>3

(* A width of three or four characters makes positions linear.              *)
LEMMA Positions ==
    ASSUME NEW w \in {3, 4}, NEW k \in Nat, NEW m \in Nat
    PROVE  /\ k * w \in Nat /\ (k + 1) * w = k * w + w /\ (k - 1) * w = k * w - w
           /\ k * w < m * w + w => k <= m
           /\ k <= m => k * w <= m * w
<1>1. CASE w = 3
  BY <1>1
<1>2. CASE w = 4
  BY <1>2
<1> QED BY <1>1, <1>2

(* A line is in the buffer as soon as all its characters and its breaker    *)
(* are, and it is at the front.                                             *)
LEMMA LineInBuffer ==
    ASSUME ClientTypeOK, NEW c \in Callers, NEW k \in Nat, ReadTo(k, c)
    PROVE  LET w == Width(op[c].provider)
               ends == LineEnds(op[c].provider, buffer[c])
           IN  /\ HasLine(c) <=> Len(buffer[c]) >= w
               /\ Len(buffer[c]) >= w => 3 \in ends /\ \A i \in ends : i \in Nat /\ 3 <= i
               /\ Len(buffer[c]) >= 1 => buffer[c][1] = Line(k + 1)[1] /\ buffer[c][1] # Newline
               /\ Len(buffer[c]) >= 2 => buffer[c][2] = Line(k + 1)[2]
<1> DEFINE provider == op[c].provider
           b == body[c]
           w == Width(provider)
           q == buffer[c]
           breaker == Breaker(provider)
           bytes == Bytes(b, provider)
           ends == LineEnds(provider, q)
<1>1. /\ provider \in Providers /\ b \in AnyBody /\ q \in Seq(Chars) /\ received[c] \in Nat
  BY CallerTypes
<1>2. /\ w \in {3, 4} /\ breaker \in Seq(Chars) /\ Len(breaker) = w - 2
      /\ \A j \in 1..Len(breaker) : breaker[j] = Newline
  BY <1>1, Breakers
<1>3. k * w \in Nat
  BY <1>2, Positions
<1>4. /\ k * w <= received[c] /\ received[c] <= Length(b, provider) /\ Length(b, provider) \in Nat
      /\ Len(q) = received[c] - k * w /\ Len(q) \in Nat
      /\ \A i \in 1..Len(q) : q[i] = bytes[k * w + i]
  BY <1>1, BytesOfLines DEF ReadTo, IsWindow
<1>5. \A j \in 1..w : k * w + j <= Length(b, provider) =>
          bytes[k * w + j] = IF j <= 2 THEN Line(k + 1)[j] ELSE Newline
  BY <1>1, BytesOfLines
<1>6. Line(k + 1)[1] # Newline /\ Line(k + 1)[2] # Newline
  BY Lines
<1> HIDE DEF w, q, b, provider, bytes, breaker
<1>7. \A j \in 1..w : j <= Len(q) => q[j] = IF j <= 2 THEN Line(k + 1)[j] ELSE Newline
  <2> SUFFICES ASSUME NEW j \in 1..w, j <= Len(q)
               PROVE  q[j] = IF j <= 2 THEN Line(k + 1)[j] ELSE Newline
    OBVIOUS
  <2>1. j \in 1..Len(q) /\ k * w + j <= Length(b, provider)
    <3> DEFINE base == k * w
    <3>1. base \in Nat /\ Len(q) = received[c] - base
      BY <1>3, <1>4
    <3> HIDE DEF base
    <3>2. j \in Nat /\ 1 <= j
      BY <1>2
    <3>3. j \in 1..Len(q) /\ base + j <= Length(b, provider)
      BY <3>1, <3>2, <1>1, <1>4
    <3> QED BY <3>3 DEF base
  <2> QED BY <2>1, <1>4, <1>5
<1>8. /\ Len(q) >= 1 => q[1] = Line(k + 1)[1]
      /\ Len(q) >= 2 => q[2] = Line(k + 1)[2]
  <2>1. 1 \in 1..w /\ 2 \in 1..w
    BY <1>2
  <2> QED BY <2>1, <1>7
<1>9. ends = {i \in 1..Len(q) : \A j \in 1..(w - 2) : i + j - 1 \in 1..Len(q) /\ q[i + j - 1] = breaker[j]}
  <2>1. DOMAIN q = 1..Len(q) /\ DOMAIN breaker = 1..(w - 2)
    BY <1>1, <1>2 DEF q
  <2> QED BY <2>1 DEF LineEnds, breaker
<1>10. ASSUME NEW i \in ends
       PROVE  i \in Nat /\ 3 <= i /\ Len(q) >= w
  <2>1. i \in 1..Len(q) /\ \A j \in 1..(w - 2) : i + j - 1 \in 1..Len(q) /\ q[i + j - 1] = breaker[j]
    BY <1>9
  <2>2. 1 \in 1..(w - 2) /\ w - 2 \in 1..(w - 2)
    BY <1>2
  <2>3. i + 1 - 1 = i
    BY <2>1
  <2>4. q[i] = Newline
    BY <2>1, <2>2, <2>3, <1>2
  <2>5. i # 1 /\ i # 2
    <3>1. i = 1 => Len(q) >= 1
      BY <2>1, <1>4
    <3>2. i = 2 => Len(q) >= 2
      BY <2>1, <1>4
    <3> QED BY <3>1, <3>2, <2>4, <1>6, <1>8
  <2>6. i + (w - 2) - 1 \in 1..Len(q)
    BY <2>1, <2>2
  <2> QED BY <2>1, <2>5, <2>6, <1>2, <1>4
<1>11. ASSUME Len(q) >= w
       PROVE  3 \in ends
  <2>1. 3 \in 1..Len(q)
    BY <1>2, <1>4, <1>11
  <2>2. ASSUME NEW j \in 1..(w - 2)
        PROVE  3 + j - 1 \in 1..Len(q) /\ q[3 + j - 1] = breaker[j]
    <3>1. 3 + j - 1 \in 1..w /\ 3 + j - 1 <= Len(q) /\ ~ (3 + j - 1 <= 2) /\ 3 + j - 1 \in 1..Len(q)
      BY <1>2, <1>4, <1>11
    <3>2. q[3 + j - 1] = Newline
      BY <3>1, <1>7
    <3> QED BY <3>1, <3>2, <1>2
  <2> QED BY <2>1, <2>2, <1>9
<1>12. HasLine(c) <=> ends # {}
  BY DEF HasLine, q, provider
<1>13. HasLine(c) <=> Len(q) >= w
  <2> HIDE DEF ends
  <2> QED BY <1>10, <1>11, <1>12
<1> QED BY <1>6, <1>8, <1>10, <1>11, <1>13 DEF w, q, provider


-----------------------------------------------------------------------------
(* Steps of one caller.                                                     *)

(* A caller whose state does not change keeps what is known of it.          *)
LEMMA Rests ==
    ASSUME NEW c \in Callers, CallerInv(c), op'[c] = op[c], phase'[c] = phase[c], got'[c] = got[c],
           outcome'[c] = outcome[c], body'[c] = body[c], received'[c] = received[c],
           buffer'[c] = buffer[c], request'[c] = request[c]
    PROVE  CallerInv(c)'
<1>1. PhaseInv(c)'
  BY DEF CallerInv, PhaseInv
<1>2. StreamInv(c)'
  BY DEF CallerInv, StreamInv, Faithful, ReadTo
<1>3. BatchInv(c)'
  BY DEF CallerInv, BatchInv, AllReady, Ready
<1> QED BY <1>1, <1>2, <1>3 DEF CallerInv

(* A step of one caller that leaves the batches alone.                      *)
LEMMA CallerStep ==
    ASSUME ClientInv, NEW c \in Callers, ClientTypeOK', UNCHANGED <<op, request, pool>>,
           \A d \in Callers : d # c =>
              /\ phase'[d] = phase[d] /\ got'[d] = got[d] /\ outcome'[d] = outcome[d]
              /\ body'[d] = body[d] /\ received'[d] = received[d] /\ buffer'[d] = buffer[d],
           CallerInv(c)'
    PROVE  ClientInv'
<1>1. PoolInv'
  BY DEF ClientInv, PoolInv
<1>2. ASSUME NEW d \in Callers, d # c
      PROVE  CallerInv(d)'
  BY <1>2, Rests DEF ClientInv
<1> QED BY <1>1, <1>2 DEF ClientInv

(* Begin: nothing is known yet but that the call goes on.                   *)
LEMMA BeginKeeps ==
    ASSUME ClientInv, NEW c \in Callers, Begin(c)
    PROVE  ClientInv'
<1>0. ClientTypeOK /\ CallerInv(c)
  BY DEF ClientInv
<1>1. /\ phase[c] = "start" /\ op[c].kind # "stream" /\ phase' = [phase EXCEPT ![c] = "call"]
      /\ UNCHANGED <<op, got, outcome, body, received, buffer, request, pool>>
  BY DEF Begin
<1>2. /\ phase' \in [Callers -> Phases] /\ phase'[c] = "call"
      /\ \A d \in Callers : d # c => phase'[d] = phase[d]
  BY <1>0, <1>1 DEF ClientTypeOK, Phases
<1>3. ClientTypeOK'
  BY <1>0, <1>1, <1>2 DEF ClientTypeOK
<1>4. PhaseInv(c)'
  <2>1. got[c] = <<>> /\ outcome[c] = "none"
    BY <1>0, <1>1 DEF CallerInv, PhaseInv
  <2>2. got[c] \in Seq(Seq(Nat)) /\ got[c] \in Seq(Nat)
    BY <2>1
  <2> QED BY <1>0, <1>1, <1>2, <2>1, <2>2 DEF CallerInv, PhaseInv
<1>5. StreamInv(c)'
  BY <1>1 DEF StreamInv
<1>6. BatchInv(c)'
  BY <1>0, <1>1, <1>2 DEF CallerInv, BatchInv, AllReady, Ready
<1>7. CallerInv(c)'
  BY <1>4, <1>5, <1>6 DEF CallerInv
<1> QED BY <1>1, <1>2, <1>3, <1>7, CallerStep

(* StreamChunkObject: a body, of which nothing is read.                     *)
LEMMA StreamChunkObjectKeeps ==
    ASSUME ClientInv, NEW c \in Callers, StreamChunkObject(c)
    PROVE  ClientInv'
<1>0. ClientTypeOK /\ CallerInv(c)
  BY DEF ClientInv
<1>1. /\ op[c].kind = "stream" /\ phase[c] = "start" /\ phase' = [phase EXCEPT ![c] = "call"]
      /\ UNCHANGED <<op, got, outcome, received, buffer, request, pool>>
  BY DEF StreamChunkObject
<1>B. PICK b \in Bodies : body' = [body EXCEPT ![c] = b]
  BY DEF StreamChunkObject
<1>2. /\ phase' \in [Callers -> Phases] /\ phase'[c] = "call"
      /\ \A d \in Callers : d # c => phase'[d] = phase[d]
  BY <1>0, <1>1 DEF ClientTypeOK, Phases
<1>3. /\ body' \in [Callers -> AnyBody] /\ body'[c] = b
      /\ \A d \in Callers : d # c => body'[d] = body[d]
  BY <1>0, <1>B DEF ClientTypeOK, AnyBody
<1>4. ClientTypeOK'
  BY <1>0, <1>1, <1>2, <1>3 DEF ClientTypeOK
<1>5. PhaseInv(c)'
  BY <1>0, <1>1, <1>2 DEF CallerInv, PhaseInv
<1>6. StreamInv(c)'
  <2>1. b \in AnyBody /\ op[c].provider \in Providers
    BY <1>0, CallerTypes DEF AnyBody
  <2>2. got[c] = <<>> /\ outcome[c] = "none" /\ received[c] = 0 /\ buffer[c] = <<>>
    BY <1>0, <1>1 DEF CallerInv, PhaseInv, StreamInv
  <2>3. Faithful(<<>>, "none", b, op[c].provider)
    BY <2>1, WorthOfLines DEF Faithful
  <2>4. 0 * Width(op[c].provider) = 0 /\ Length(b, op[c].provider) \in Nat /\ Len(b.lines) \in Nat
    <3>1. Width(op[c].provider) \in {3, 4}
      BY <2>1, Breakers
    <3> QED BY <3>1, <2>1, BytesOfLines, BodyType
  <2>5. ReadTo(0, c)'
    BY <1>1, <1>3, <2>2, <2>4 DEF ReadTo, IsWindow
  <2>6. 0 \in 0..Len(b.lines)
    BY <2>4
  <2> QED BY <1>1, <1>2, <1>3, <2>2, <2>3, <2>5, <2>6 DEF StreamInv
<1>7. BatchInv(c)'
  BY <1>0, <1>1, <1>2 DEF CallerInv, BatchInv, AllReady, Ready
<1>8. CallerInv(c)'
  BY <1>5, <1>6, <1>7 DEF CallerInv
<1> QED BY <1>1, <1>2, <1>3, <1>4, <1>8, CallerStep

(* A window of a sequence that grows at its end.                            *)
LEMMA Window ==
    ASSUME NEW S, NEW bytes \in Seq(S), NEW q \in Seq(S), NEW base \in Nat, NEW from \in Nat, NEW to \in Nat,
           base <= from, from <= to, to <= Len(bytes), IsWindow(q, bytes, base, from)
    PROVE  /\ q \o SubSeq(bytes, from + 1, to) \in Seq(S)
           /\ IsWindow(q \o SubSeq(bytes, from + 1, to), bytes, base, to)
<1> USE DEF IsWindow
<1> DEFINE piece == SubSeq(bytes, from + 1, to)
           p == q \o piece
<1>1. /\ piece \in Seq(S) /\ Len(piece) = to + 1 - (from + 1)
      /\ \A i \in 1..(to + 1 - (from + 1)) : piece[i] = bytes[from + 1 + i - 1]
  <2>1. from + 1 \in Nat /\ 1 <= from + 1 /\ from + 1 <= to + 1
    OBVIOUS
  <2> HIDE DEF piece
  <2> QED BY <2>1, Piece DEF piece
<1>2. /\ to + 1 - (from + 1) = to - from
      /\ \A i \in 1..(to - from) : from + 1 + i - 1 = from + i
  OBVIOUS
<1> HIDE DEF piece
<1>3. Len(piece) = to - from /\ \A i \in 1..(to - from) : piece[i] = bytes[from + i]
  BY <1>1, <1>2
<1>4. /\ p \in Seq(S) /\ Len(p) = Len(q) + Len(piece)
      /\ \A i \in 1..(Len(q) + Len(piece)) : p[i] = IF i <= Len(q) THEN q[i] ELSE piece[i - Len(q)]
  BY <1>1, Joined
<1> HIDE DEF p
<1>5. Len(p) = to - base /\ Len(q) \in Nat
  BY <1>3, <1>4
<1>6. ASSUME NEW i \in 1..Len(p)
      PROVE  p[i] = bytes[base + i]
  <2>1. i \in Nat /\ 1 <= i /\ i <= to - base /\ i \in 1..(Len(q) + Len(piece))
    BY <1>4, <1>5
  <2>2. CASE i <= Len(q)
    <3>1. i \in 1..Len(q)
      BY <1>5, <2>1, <2>2
    <3> QED BY <3>1, <2>1, <2>2, <1>4
  <2>3. CASE ~ (i <= Len(q))
    <3>1. i - Len(q) \in 1..(to - from) /\ from + (i - Len(q)) = base + i
      BY <1>5, <2>1, <2>3
    <3>2. p[i] = piece[i - Len(q)]
      BY <2>1, <2>3, <1>4
    <3> QED BY <3>1, <3>2, <1>3
  <2> QED BY <2>2, <2>3
<1> QED BY <1>4, <1>5, <1>6 DEF p, piece

(* Receive: the buffer goes on with the next bytes of the answer.           *)
LEMMA ReceiveKeeps ==
    ASSUME ClientInv, NEW c \in Callers, Receive(c)
    PROVE  ClientInv'
<1> DEFINE provider == op[c].provider
           b == body[c]
           w == Width(provider)
           bytes == Bytes(b, provider)
<1>0. ClientTypeOK /\ CallerInv(c)
  BY DEF ClientInv
<1>1. /\ op[c].kind = "stream" /\ phase[c] = "call"
      /\ UNCHANGED <<op, phase, got, outcome, body, request, pool>>
  BY DEF Receive, Reading
<1>2. /\ provider \in Providers /\ b \in AnyBody /\ received[c] \in Nat /\ buffer[c] \in Seq(Chars)
  BY <1>0, CallerTypes
<1>3. /\ bytes \in Seq(Chars) /\ Len(bytes) = Length(b, provider) /\ Length(b, provider) \in Nat
      /\ w \in {3, 4}
  BY <1>2, BytesOfLines, Breakers
<1>4. PICK to \in Nat :
          /\ received[c] + 1 <= to /\ to <= Len(bytes)
          /\ received' = [received EXCEPT ![c] = to]
          /\ buffer' = [buffer EXCEPT ![c] = @ \o SubSeq(bytes, received[c] + 1, to)]
  <2>1. \A to \in (received[c] + 1)..Len(bytes) : to \in Nat /\ received[c] + 1 <= to /\ to <= Len(bytes)
    BY <1>2, <1>3
  <2> QED BY <2>1 DEF Receive
<1>5. PICK k \in 0..Len(b.lines) : ReadTo(k, c)
  BY <1>0, <1>1 DEF CallerInv, StreamInv
<1> DEFINE base == k * w
           q == buffer[c] \o SubSeq(bytes, received[c] + 1, to)
<1>6. /\ base <= received[c] /\ IsWindow(buffer[c], bytes, base, received[c])
      /\ (outcome[c] = "none" \/ outcome[c] = "completed") /\ (outcome[c] = "none" => Len(got[c]) = k)
  BY <1>5 DEF ReadTo
<1>7. base \in Nat
  <2>1. k \in Nat
    BY <1>2, BodyType
  <2> QED BY <2>1, <1>3, Positions
<1>8. q \in Seq(Chars) /\ IsWindow(q, bytes, base, to)
  <2> HIDE DEF base, bytes
  <2>1. received[c] <= to
    BY <1>2, <1>4
  <2> QED BY <1>2, <1>3, <1>4, <1>6, <1>7, <2>1, Window
<1> HIDE DEF q
<1>9. /\ received' \in [Callers -> Nat] /\ received'[c] = to
      /\ buffer' \in [Callers -> Seq(Chars)] /\ buffer'[c] = q
      /\ \A d \in Callers : d # c => received'[d] = received[d] /\ buffer'[d] = buffer[d]
  <2>1. /\ received' \in [Callers -> Nat] /\ received'[c] = to
        /\ \A d \in Callers : d # c => received'[d] = received[d]
    BY <1>0, <1>4 DEF ClientTypeOK
  <2>2. buffer' = [buffer EXCEPT ![c] = q]
    BY <1>4 DEF q
  <2>3. /\ buffer' \in [Callers -> Seq(Chars)] /\ buffer'[c] = q
        /\ \A d \in Callers : d # c => buffer'[d] = buffer[d]
    BY <1>0, <1>8, <2>2 DEF ClientTypeOK
  <2> QED BY <2>1, <2>3
<1>10. ClientTypeOK'
  BY <1>0, <1>1, <1>9 DEF ClientTypeOK
<1>11. PhaseInv(c)'
  BY <1>0, <1>1 DEF CallerInv, PhaseInv
<1>12. ReadTo(k, c)'
  <2>1. base <= to /\ to <= Length(b, provider)
    <3> HIDE DEF base
    <3> QED BY <1>2, <1>3, <1>4, <1>6, <1>7
  <2> QED BY <1>1, <1>6, <1>8, <1>9, <2>1 DEF ReadTo
<1>13. StreamInv(c)'
  BY <1>0, <1>1, <1>12 DEF CallerInv, StreamInv
<1>14. BatchInv(c)'
  BY <1>0, <1>1 DEF CallerInv, BatchInv, AllReady, Ready
<1>15. CallerInv(c)'
  BY <1>11, <1>13, <1>14 DEF CallerInv
<1> QED BY <1>1, <1>9, <1>10, <1>15, CallerStep


(* A window of a sequence that loses its front.                             *)
LEMMA Shorter ==
    ASSUME NEW S, NEW q \in Seq(S), NEW bytes, NEW base \in Nat, NEW to \in Nat, NEW w \in Nat, w <= Len(q),
           IsWindow(q, bytes, base, to)
    PROVE  /\ SubSeq(q, w + 1, Len(q)) \in Seq(S)
           /\ IsWindow(SubSeq(q, w + 1, Len(q)), bytes, base + w, to)
           /\ base + w <= to
<1> DEFINE p == SubSeq(q, w + 1, Len(q))
           n == Len(q)
<1>1. n \in Nat /\ n = to - base /\ w <= n /\ \A i \in 1..n : q[i] = bytes[base + i]
  BY DEF IsWindow
<1> HIDE DEF n
<1>2. w + 1 \in Nat /\ 1 <= w + 1 /\ w + 1 <= n + 1 /\ n + 1 - (w + 1) = n - w
  BY <1>1
<1>3. /\ p \in Seq(S) /\ Len(p) = n - w
      /\ \A i \in 1..(n - w) : p[i] = q[w + 1 + i - 1]
  <2>1. /\ p \in Seq(S) /\ Len(p) = n + 1 - (w + 1)
        /\ \A i \in 1..(n + 1 - (w + 1)) : p[i] = q[w + 1 + i - 1]
    BY <1>2, Piece DEF n
  <2> QED BY <2>1, <1>2
<1> HIDE DEF p
<1>4. ASSUME NEW i \in 1..(n - w)
      PROVE  p[i] = bytes[base + w + i]
  <2>1. w + 1 + i - 1 = w + i /\ w + i \in 1..n /\ base + (w + i) = base + w + i
    BY <1>1
  <2> QED BY <2>1, <1>1, <1>3
<1>5. Len(p) = to - (base + w) /\ base + w <= to
  BY <1>1, <1>3
<1> QED BY <1>3, <1>4, <1>5 DEF p, IsWindow

(* No answer is longer than its lines.                                      *)
LEMMA LengthBound ==
    ASSUME NEW b \in AnyBody, NEW provider \in Providers
    PROVE  Length(b, provider) <= Len(b.lines) * Width(provider)
<1> DEFINE w == Width(provider)
           L == Len(b.lines)
<1>1. w \in {3, 4} /\ L \in Nat
  BY Breakers, BodyType
<1>2. L * w \in Nat /\ (L - 1) * w = L * w - w
  BY <1>1, Positions
<1> DEFINE n == Length(b, provider)
<1>3. n \in Nat /\ (n = L * w \/ n = (L - 1) * w + 2)
  BY BytesOfLines, BodyType
<1> HIDE DEF L, w, n
<1>4. n <= L * w
  <2>1. CASE w = 3
    BY <1>1, <1>3, <2>1
  <2>2. CASE w = 4
    BY <1>1, <1>3, <2>2
  <2> QED BY <1>1, <2>1, <2>2
<1> QED BY <1>4 DEF L, w, n

(* Bytes that hold one more line than k come from an answer of more lines.  *)
LEMMA AnotherLine ==
    ASSUME NEW k \in Nat, NEW n \in Nat, NEW w \in {3, 4}, NEW r \in Nat, NEW l \in Nat,
           k * w + w <= r, r <= l, l <= n * w
    PROVE  k + 1 <= n
<1>1. CASE w = 3
  <2>1. k * 3 + 3 <= n * 3
    BY <1>1
  <2> QED BY <2>1
<1>2. CASE w = 4
  <2>1. k * 4 + 4 <= n * 4
    BY <1>2
  <2> QED BY <2>1
<1> QED BY <1>1, <1>2


(* A sequence of numbers is one of numbers and vectors.                     *)
LEMMA SeqOfNumbers ==
    ASSUME NEW g \in Seq(Nat)
    PROVE  g \in Seq(Nat \cup Seq(Nat))
  OBVIOUS


(* What a stream's step leaves of a caller: its results, its outcome, its   *)
(* buffer and its phase.                                                    *)
LEMMA PutKeeps ==
    ASSUME ClientInv, NEW c \in Callers, NEW g \in Seq(Nat), NEW e \in Outcomes, NEW rest \in Seq(Chars),
           NEW ph \in {"call", "returned"},
           op[c].kind = "stream", phase[c] = "call",
           got' = [got EXCEPT ![c] = g], outcome' = [outcome EXCEPT ![c] = e],
           buffer' = [buffer EXCEPT ![c] = rest], phase' = [phase EXCEPT ![c] = ph],
           UNCHANGED <<op, body, received, request, pool>>,
           Faithful(g, e, body[c], op[c].provider),
           ph = "call" => \E k \in 0..Len(body[c].lines) :
              /\ k * Width(op[c].provider) <= received[c]
              /\ received[c] <= Length(body[c], op[c].provider)
              /\ IsWindow(rest, Bytes(body[c], op[c].provider), k * Width(op[c].provider), received[c])
              /\ e = "none" \/ e = "completed"
              /\ e = "none" => Len(g) = k
    PROVE  ClientInv'
<1>0. ClientTypeOK /\ CallerInv(c)
  BY DEF ClientInv
<1>1. /\ got' \in [Callers -> Seq(Nat \cup Seq(Nat))] /\ got'[c] = g
      /\ \A d \in Callers : d # c => got'[d] = got[d]
  <2>1. g \in Seq(Nat \cup Seq(Nat))
    BY SeqOfNumbers
  <2> QED BY <1>0, <2>1 DEF ClientTypeOK
<1>2. /\ outcome' \in [Callers -> Outcomes] /\ outcome'[c] = e
      /\ \A d \in Callers : d # c => outcome'[d] = outcome[d]
  BY <1>0 DEF ClientTypeOK
<1>3. /\ buffer' \in [Callers -> Seq(Chars)] /\ buffer'[c] = rest
      /\ \A d \in Callers : d # c => buffer'[d] = buffer[d]
  BY <1>0 DEF ClientTypeOK
<1>4. /\ phase' \in [Callers -> Phases] /\ phase'[c] = ph
      /\ \A d \in Callers : d # c => phase'[d] = phase[d]
  BY <1>0 DEF ClientTypeOK, Phases
<1>5. ClientTypeOK'
  BY <1>0, <1>1, <1>2, <1>3, <1>4 DEF ClientTypeOK
<1>6. PhaseInv(c)'
  BY <1>1, <1>4 DEF PhaseInv
<1>7. StreamInv(c)'
  <2>1. CASE ph = "call"
    <3>1. PICK k \in 0..Len(body[c].lines) :
              /\ k * Width(op[c].provider) <= received[c]
              /\ received[c] <= Length(body[c], op[c].provider)
              /\ IsWindow(rest, Bytes(body[c], op[c].provider), k * Width(op[c].provider), received[c])
              /\ e = "none" \/ e = "completed"
              /\ e = "none" => Len(g) = k
      BY <2>1
    <3>2. ReadTo(k, c)'
      BY <3>1, <1>1, <1>2, <1>3 DEF ReadTo
    <3> QED BY <3>2, <2>1, <1>1, <1>2, <1>4 DEF StreamInv
  <2>2. CASE ph = "returned"
    BY <2>2, <1>1, <1>2, <1>4 DEF StreamInv
  <2> QED BY <2>1, <2>2
<1>8. BatchInv(c)'
  <2>1. request[c] = <<>>
    BY <1>0 DEF CallerInv, BatchInv
  <2>2. AllReady(c)'
    BY <2>1 DEF AllReady
  <2> QED BY <2>1, <2>2 DEF BatchInv
<1>9. CallerInv(c)'
  BY <1>6, <1>7, <1>8 DEF CallerInv
<1> QED BY <1>1, <1>2, <1>3, <1>4, <1>5, <1>9, CallerStep

(* EmitLine: the first line of the buffer is the next line of the answer.   *)
LEMMA EmitLineKeeps ==
    ASSUME ClientInv, NEW c \in Callers, EmitLine(c)
    PROVE  ClientInv'
<1> DEFINE provider == op[c].provider
           b == body[c]
           w == Width(provider)
           q == buffer[c]
           bytes == Bytes(b, provider)
           ends == LineEnds(provider, q)
           idx == CHOOSE i \in ends : \A j \in ends : i <= j
<1>0. ClientTypeOK /\ CallerInv(c)
  BY DEF ClientInv
<1>1. /\ op[c].kind = "stream" /\ phase[c] = "call" /\ HasLine(c)
      /\ UNCHANGED <<op, body, received, request, pool>>
      /\ Put(c, OnNext(Stream(c), b, provider, SubSeq(q, 1, idx - 1)),
             SubSeq(q, idx + Len(Breaker(provider)), Len(q)), FALSE)
  BY DEF EmitLine
<1>2. /\ provider \in Providers /\ b \in AnyBody /\ received[c] \in Nat /\ q \in Seq(Chars)
      /\ outcome[c] \in Outcomes
  BY <1>0, CallerTypes
<1>3. /\ w \in {3, 4} /\ Len(Breaker(provider)) = w - 2 /\ Length(b, provider) \in Nat
      /\ Len(b.lines) \in Nat
  BY <1>2, BytesOfLines, Breakers, BodyType
<1>4. PICK k \in 0..Len(b.lines) : ReadTo(k, c)
  BY <1>0, <1>1 DEF CallerInv, StreamInv
<1>5. /\ k \in Nat /\ k * w <= received[c] /\ received[c] <= Length(b, provider)
      /\ IsWindow(q, bytes, k * w, received[c])
      /\ outcome[c] = "none" \/ outcome[c] = "completed"
      /\ outcome[c] = "none" => Len(got[c]) = k
  BY <1>3, <1>4 DEF ReadTo
<1>6. /\ Len(q) >= w /\ 3 \in ends /\ \A i \in ends : i \in Nat /\ 3 <= i
      /\ q[1] = Line(k + 1)[1] /\ q[2] = Line(k + 1)[2]
  <2>1. /\ HasLine(c) <=> Len(q) >= w
        /\ Len(q) >= w => 3 \in ends /\ \A i \in ends : i \in Nat /\ 3 <= i
        /\ Len(q) >= 1 => q[1] = Line(k + 1)[1]
        /\ Len(q) >= 2 => q[2] = Line(k + 1)[2]
    BY <1>0, <1>4, <1>5, LineInBuffer
  <2>2. Len(q) >= w
    BY <2>1, <1>1
  <2>3. Len(q) >= 1 /\ Len(q) >= 2
    BY <2>2, <1>2, <1>3
  <2> QED BY <2>1, <2>2, <2>3
<1>7. idx = 3
  <2> HIDE DEF ends
  <2>1. idx \in ends /\ \A j \in ends : idx <= j
    BY <1>6
  <2>2. idx \in Nat /\ 3 <= idx /\ idx <= 3
    BY <1>6, <2>1
  <2> QED BY <2>2
<1> HIDE DEF idx, ends
<1>8. SubSeq(q, 1, idx - 1) = Line(k + 1)
  <2> HIDE DEF q
  <2>1. idx - 1 = 2
    BY <1>7
  <2>2. 2 <= Len(q)
    BY <1>2, <1>3, <1>6
  <2>3. /\ SubSeq(q, 1, 2) \in Seq(Chars) /\ Len(SubSeq(q, 1, 2)) = 2
        /\ SubSeq(q, 1, 2)[1] = q[1] /\ SubSeq(q, 1, 2)[2] = q[2]
    BY <2>2, <1>2
  <2>4. Line(k + 1) = <<q[1], q[2]>>
    BY <1>6 DEF Line
  <2> QED BY <2>1, <2>3, <2>4
<1> DEFINE rest == SubSeq(q, w + 1, Len(q))
<1>9. idx + Len(Breaker(provider)) = w + 1
  BY <1>3, <1>7
<1>10. /\ rest \in Seq(Chars) /\ IsWindow(rest, bytes, (k + 1) * w, received[c])
       /\ (k + 1) * w <= received[c] /\ k + 1 <= Len(b.lines)
  <2>1. k * w \in Nat /\ (k + 1) * w = k * w + w /\ w \in Nat
    BY <1>3, <1>5, Positions
  <2>2. rest \in Seq(Chars) /\ IsWindow(rest, bytes, k * w + w, received[c]) /\ k * w + w <= received[c]
    <3> DEFINE base == k * w
    <3>1. base \in Nat /\ IsWindow(q, bytes, base, received[c])
      BY <1>5, <2>1
    <3>2. w <= Len(q)
      BY <1>2, <1>3, <1>6
    <3> HIDE DEF base, bytes, q, w
    <3>3. rest \in Seq(Chars) /\ IsWindow(rest, bytes, base + w, received[c]) /\ base + w <= received[c]
      BY <1>2, <2>1, <3>1, <3>2, Shorter
    <3> QED BY <3>3 DEF base
  <2>3. Length(b, provider) <= Len(b.lines) * w
    BY <1>2, LengthBound
  <2>4. k + 1 <= Len(b.lines)
    BY <1>2, <1>3, <1>5, <2>2, <2>3, AnotherLine
  <2> QED BY <2>1, <2>2, <2>4
<1>11. got[c] \in Seq(Nat) /\ Faithful(got[c], outcome[c], b, provider)
  BY <1>0, <1>1 DEF CallerInv, PhaseInv, StreamInv
<1>11a. k + 1 \in 0..Len(b.lines)
  <2> DEFINE L == Len(b.lines)
  <2>1. k \in Nat /\ L \in Nat /\ k + 1 <= L
    BY <1>3, <1>5, <1>10
  <2> HIDE DEF L
  <2>2. k + 1 \in 0..L
    BY <2>1
  <2> QED BY <2>2 DEF L
<1>12. PICK g \in Seq(Nat), e \in {"none", "completed", "malformed", "empty response"}, t \in BOOLEAN :
          /\ OnNext([got |-> got[c], end |-> outcome[c], thrown |-> FALSE], b, provider, Line(k + 1))
                = [got |-> g, end |-> e, thrown |-> t]
          /\ ~ t => e \in {"none", "completed"}
          /\ t => e # "none"
          /\ e = "none" => Len(g) = k + 1
          /\ Faithful(g, e, b, provider)
  <2>1. k < Len(b.lines)
    BY <1>3, <1>5, <1>10
  <2>2. outcome[c] \in {"none", "completed"} /\ (outcome[c] = "none" => Len(got[c]) = k)
    BY <1>5
  <2>3. Handed(OnNext([got |-> got[c], end |-> outcome[c], thrown |-> FALSE], b, provider, Line(k + 1)),
               b, provider, k)
    BY <1>2, <1>5, <1>11, <2>1, <2>2, NextLine
  <2> QED BY <2>3 DEF Handed
<1>13. Put(c, [got |-> g, end |-> e, thrown |-> t], rest, FALSE)
  BY <1>1, <1>8, <1>9, <1>12 DEF Stream
<1> DEFINE ph == IF t THEN "returned" ELSE "call"
<1>14. /\ got' = [got EXCEPT ![c] = g] /\ outcome' = [outcome EXCEPT ![c] = e]
       /\ buffer' = [buffer EXCEPT ![c] = rest] /\ phase' = [phase EXCEPT ![c] = ph]
  <2> DEFINE s == [got |-> g, end |-> e, thrown |-> t]
  <2>1. s.got = g /\ s.end = e /\ s.thrown = t
    OBVIOUS
  <2> HIDE DEF s
  <2>2. /\ got' = [got EXCEPT ![c] = s.got] /\ outcome' = [outcome EXCEPT ![c] = s.end]
        /\ buffer' = [buffer EXCEPT ![c] = rest]
        /\ phase' = [phase EXCEPT ![c] = IF s.thrown THEN "returned" ELSE @]
    BY <1>13 DEF Put, s
  <2>3. phase' = [phase EXCEPT ![c] = IF t THEN "returned" ELSE "call"]
    BY <1>1, <2>1, <2>2
  <2> QED BY <2>1, <2>2, <2>3
<1>15. ph = "call" => /\ e = "none" \/ e = "completed"
                      /\ e = "none" => Len(g) = k + 1
  BY <1>12
<1>16. ph \in {"call", "returned"} /\ e \in Outcomes
  <2>1. ph \in {"call", "returned"}
    OBVIOUS
  <2>2. e \in Outcomes
    BY DEF Outcomes
  <2> QED BY <2>1, <2>2
<1> HIDE DEF ph, rest
<1> QED BY <1>1, <1>5, <1>10, <1>12, <1>14, <1>15, <1>16, <1>11a, PutKeeps


(* At the end of the answer the buffer is empty, or it holds the last line. *)
LEMMA EndOfAnswer ==
    ASSUME ClientTypeOK, NEW c \in Callers, NEW k \in Nat, ReadTo(k, c), ~ HasLine(c),
           received[c] = Length(body[c], op[c].provider)
    PROVE  /\ IsBlank(buffer[c]) => k = Len(body[c].lines)
           /\ ~ IsBlank(buffer[c]) => k + 1 = Len(body[c].lines) /\ buffer[c] = Line(k + 1)
<1> DEFINE provider == op[c].provider
           b == body[c]
           w == Width(provider)
           q == buffer[c]
           L == Len(b.lines)
           n == Len(q)
           size == Length(b, provider)
<1>1. provider \in Providers /\ b \in AnyBody /\ q \in Seq(Chars)
  BY CallerTypes
<1>2. /\ w \in {3, 4} /\ L \in Nat /\ size \in Nat /\ n \in Nat
  BY <1>1, BytesOfLines, Breakers, BodyType
<1>3. k <= L /\ k * w <= size /\ n = size - k * w
  BY <1>2 DEF ReadTo, IsWindow
<1>4. /\ ~ (n >= w)
      /\ n >= 1 => q[1] = Line(k + 1)[1] /\ q[1] # Newline
      /\ n >= 2 => q[2] = Line(k + 1)[2]
  BY LineInBuffer
<1>5. size = L * w \/ (size = (L - 1) * w + 2 /\ L > 0)
  BY <1>1, BytesOfLines, BodyType
<1> HIDE DEF w, L, n, size
<1>6. (n = 0 /\ k = L) \/ (n = 2 /\ k + 1 = L)
  <2>1. CASE w = 3
    BY <2>1, <1>2, <1>3, <1>4, <1>5
  <2>2. CASE w = 4
    BY <2>2, <1>2, <1>3, <1>4, <1>5
  <2> QED BY <1>2, <2>1, <2>2
<1>7. DOMAIN q = 1..n
  BY <1>1 DEF n
<1>8. n = 0 => IsBlank(q)
  BY <1>7 DEF IsBlank
<1>9. ASSUME n = 2
      PROVE  ~ IsBlank(q) /\ q = Line(k + 1)
  <2>1. 1 \in DOMAIN q /\ q[1] # Newline /\ q[1] = Line(k + 1)[1] /\ q[2] = Line(k + 1)[2]
    BY <1>4, <1>7, <1>9
  <2>2. Line(k + 1) = <<q[1], q[2]>>
    BY <2>1 DEF Line
  <2>3. q = <<q[1], q[2]>>
    BY <1>1, <1>9 DEF n
  <2> QED BY <2>1, <2>2, <2>3 DEF IsBlank
<1>10. n = 0 \/ n = 2
  BY <1>6
<1>11. /\ n = 0 => k = L
       /\ n = 2 => k + 1 = L
  BY <1>2, <1>6
<1> QED BY <1>8, <1>9, <1>10, <1>11 DEF L

(* All results of an answer were given when as many were as it has lines.   *)
LEMMA AllGiven ==
    ASSUME NEW b \in AnyBody, NEW provider \in Providers, NEW g \in Seq(Nat), NEW e, NEW e2,
           Faithful(g, e, b, provider), Len(g) = Len(b.lines)
    PROVE  Faithful(g, e2, b, provider)
<1>1. Len(g) <= Len(Worth(b, provider)) /\ Len(Worth(b, provider)) <= Len(b.lines)
  BY WorthOfLines DEF Faithful
<1>2. Len(Worth(b, provider)) \in Nat /\ Len(b.lines) \in Nat
  BY WorthOfLines, BodyType
<1>3. Len(g) = Len(Worth(b, provider))
  BY <1>1, <1>2
<1> QED BY <1>3 DEF Faithful

(* EndOfStream: the last line counts, and then the stream completes.        *)
LEMMA EndOfStreamKeeps ==
    ASSUME ClientInv, NEW c \in Callers, EndOfStream(c)
    PROVE  ClientInv'
<1> DEFINE provider == op[c].provider
           b == body[c]
           why == IF b.status >= 400 THEN "status" ELSE "completed"
           s == IF IsBlank(buffer[c]) THEN Stream(c) ELSE OnNext(Stream(c), b, provider, buffer[c])
<1>0. ClientTypeOK /\ CallerInv(c)
  BY DEF ClientInv
<1>1. /\ op[c].kind = "stream" /\ phase[c] = "call" /\ ~ HasLine(c)
      /\ received[c] = Len(Bytes(b, provider))
      /\ UNCHANGED <<op, body, received, request, pool>>
      /\ Put(c, OnTerminal(s, why), <<>>, TRUE)
  BY DEF EndOfStream, Reading
<1>2. provider \in Providers /\ b \in AnyBody
  BY <1>0, CallerTypes
<1>3. PICK k \in 0..Len(b.lines) : ReadTo(k, c)
  BY <1>0, <1>1 DEF CallerInv, StreamInv
<1>4. k \in Nat
  BY <1>2, BodyType
<1>5. /\ outcome[c] \in {"none", "completed"} /\ (outcome[c] = "none" => Len(got[c]) = k)
      /\ got[c] \in Seq(Nat) /\ Faithful(got[c], outcome[c], b, provider)
  BY <1>0, <1>1, <1>3 DEF ReadTo, CallerInv, PhaseInv, StreamInv
<1>6. received[c] = Length(b, provider)
  BY <1>1, <1>2, BytesOfLines
<1>7. /\ IsBlank(buffer[c]) => k = Len(b.lines)
      /\ ~ IsBlank(buffer[c]) => k + 1 = Len(b.lines) /\ buffer[c] = Line(k + 1)
  BY <1>0, <1>1, <1>3, <1>4, <1>6, EndOfAnswer
<1>8. \E g \in Seq(Nat), e \in Outcomes : \E t \in BOOLEAN :
          OnTerminal(s, why) = [got |-> g, end |-> e, thrown |-> t] /\ Faithful(g, e, b, provider)
  <2>1. why \in Outcomes
    BY DEF Outcomes
  <2>0. \A g, e, t, w : OnTerminal([got |-> g, end |-> e, thrown |-> t], w) =
            IF e = "none" THEN [got |-> g, end |-> w, thrown |-> FALSE] ELSE [got |-> g, end |-> e, thrown |-> t]
    BY DEF OnTerminal, Open, Ended
  <2>4. \A g, e, t, w : e # "none" =>
            OnTerminal([got |-> g, end |-> e, thrown |-> t], w) = [got |-> g, end |-> e, thrown |-> t]
    BY <2>0
  <2> HIDE DEF why
  <2>2. CASE IsBlank(buffer[c])
    <3>1. s = [got |-> got[c], end |-> outcome[c], thrown |-> FALSE]
      BY <2>2 DEF Stream
    <3> HIDE DEF s
    <3>2. CASE outcome[c] = "none"
      <4>1. Faithful(got[c], why, b, provider)
        BY <1>2, <1>5, <1>7, <2>2, <3>2, AllGiven
      <4>2. OnTerminal(s, why) = [got |-> got[c], end |-> why, thrown |-> FALSE]
        BY <2>0, <3>1, <3>2
      <4> QED BY <1>5, <2>1, <4>1, <4>2
    <3>3. CASE outcome[c] # "none"
      <4>1. OnTerminal(s, why) = [got |-> got[c], end |-> outcome[c], thrown |-> FALSE]
        <5>1. s.end # "none"
          BY <3>1, <3>3
        <5>2. OnTerminal(s, why) = s
          BY <5>1 DEF OnTerminal, Open
        <5> QED BY <3>1, <5>2
      <4>2. outcome[c] \in Outcomes
        BY <1>0, CallerTypes
      <4> QED BY <1>5, <4>1, <4>2
    <3> QED BY <3>2, <3>3
  <2>3. CASE ~ IsBlank(buffer[c])
    <3>0. k < Len(b.lines)
      <4>1. Len(b.lines) \in Nat /\ k + 1 = Len(b.lines)
        BY <1>2, <1>7, <2>3, BodyType
      <4> QED BY <1>4, <4>1
    <3>1. s = OnNext([got |-> got[c], end |-> outcome[c], thrown |-> FALSE], b, provider, Line(k + 1))
      BY <2>3, <1>7 DEF Stream
    <3>2. Handed(s, b, provider, k)
      BY <3>0, <3>1, <1>2, <1>4, <1>5, NextLine
    <3>A. k + 1 = Len(b.lines)
      BY <1>7, <2>3
    <3>B. {"none", "completed", "malformed", "empty response"} \subseteq Outcomes
      BY DEF Outcomes
    <3> HIDE DEF s
    <3>3. PICK g \in Seq(Nat), e \in {"none", "completed", "malformed", "empty response"}, t \in BOOLEAN :
              /\ s = [got |-> g, end |-> e, thrown |-> t]
              /\ e = "none" => Len(g) = k + 1
              /\ Faithful(g, e, b, provider)
      BY <3>2 DEF Handed
    <3>4. CASE e = "none"
      <4>1. Faithful(g, why, b, provider)
        BY <1>2, <3>A, <3>3, <3>4, AllGiven
      <4>2. OnTerminal(s, why) = [got |-> g, end |-> why, thrown |-> FALSE]
        BY <2>0, <3>3, <3>4
      <4> QED BY <2>1, <4>1, <4>2
    <3>5. CASE e # "none"
      <4>1. OnTerminal(s, why) = [got |-> g, end |-> e, thrown |-> t]
        <5>1. s = [got |-> g, end |-> e, thrown |-> t]
          BY <3>3, Zenon
        <5>2. OnTerminal([got |-> g, end |-> e, thrown |-> t], why) = [got |-> g, end |-> e, thrown |-> t]
          BY <2>4, <3>5, Zenon
        <5> QED BY <5>1, <5>2
      <4>2. e \in Outcomes
        BY <3>B, Zenon
      <4> QED BY <3>3, <4>1, <4>2
    <3> QED BY <3>4, <3>5
  <2> QED BY <2>2, <2>3
<1> HIDE DEF s, why
<1>9. PICK g \in Seq(Nat), e \in Outcomes : \E t \in BOOLEAN :
          OnTerminal(s, why) = [got |-> g, end |-> e, thrown |-> t] /\ Faithful(g, e, b, provider)
  BY <1>8
<1>10. /\ got' = [got EXCEPT ![c] = g] /\ outcome' = [outcome EXCEPT ![c] = e]
       /\ buffer' = [buffer EXCEPT ![c] = <<>>] /\ phase' = [phase EXCEPT ![c] = "returned"]
  <2> DEFINE r == OnTerminal(s, why)
  <2>1. r.got = g /\ r.end = e
    BY <1>9
  <2> HIDE DEF r
  <2> QED BY <1>1, <2>1 DEF Put, r
<1>11. <<>> \in Seq(Chars) /\ Faithful(g, e, b, provider)
  BY <1>9
<1> QED BY <1>1, <1>10, <1>11, PutKeeps

(* LoseConnection: what was given before stays given.                       *)
LEMMA LoseConnectionKeeps ==
    ASSUME ClientInv, NEW c \in Callers, LoseConnection(c)
    PROVE  ClientInv'
<1>0. ClientTypeOK /\ CallerInv(c)
  BY DEF ClientInv
<1>1. /\ op[c].kind = "stream" /\ phase[c] = "call"
      /\ UNCHANGED <<op, body, received, request, pool>>
      /\ Put(c, OnTerminal(Stream(c), "lost"), <<>>, TRUE)
  BY DEF LoseConnection, Reading
<1>2. got[c] \in Seq(Nat) /\ Faithful(got[c], outcome[c], body[c], op[c].provider) /\ outcome[c] \in Outcomes
  BY <1>0, <1>1, CallerTypes DEF CallerInv, PhaseInv, StreamInv
<1> DEFINE e == IF outcome[c] = "none" THEN "lost" ELSE outcome[c]
<1>3. /\ got' = [got EXCEPT ![c] = got[c]] /\ outcome' = [outcome EXCEPT ![c] = e]
      /\ buffer' = [buffer EXCEPT ![c] = <<>>] /\ phase' = [phase EXCEPT ![c] = "returned"]
  <2> DEFINE r == OnTerminal(Stream(c), "lost")
  <2>1. r.got = got[c] /\ r.end = e
    BY DEF OnTerminal, Stream, Open, Ended
  <2> HIDE DEF r, e
  <2> QED BY <1>1, <2>1 DEF Put, r
<1>4. e \in Outcomes /\ <<>> \in Seq(Chars)
  <2>1. CASE outcome[c] = "none"
    BY <2>1 DEF Outcomes
  <2>2. CASE outcome[c] # "none"
    BY <1>2, <2>2
  <2> QED BY <2>1, <2>2
<1>5. Faithful(got[c], e, body[c], op[c].provider)
  BY <1>2 DEF Faithful
<1> HIDE DEF e
<1> QED BY <1>1, <1>2, <1>3, <1>4, <1>5, PutKeeps


-----------------------------------------------------------------------------
(* Answers and vectors.                                                     *)

(* What a step may leave of a caller that reads no stream.                  *)
MayLeave(c, g, e, ph) ==
    /\ g \in Seq(Nat \cup Seq(Nat)) /\ e \in Outcomes /\ ph \in Phases
    /\ ph \in {"wait", "collect", "unwind"} => op[c].kind = "embed" /\ op[c].provider = "ollama"
    /\ ph \in {"start", "call", "wait", "collect"} => e = "none"
    /\ ph = "start" => g = <<>>
    /\ ph = "call" /\ op[c].kind \in {"chat", "llm"} => g \in Seq(Seq(Nat))
    /\ op[c].kind = "embed" => g \in Seq(Nat) /\ \A i \in DOMAIN g : g[i] = 0 \/ g[i] = i
    /\ ph \in {"start", "call"} => request[c] = <<>>
    /\ ph = "returned" => AllReady(c)
    /\ op[c].kind = "embed" /\ op[c].provider = "ollama" =>
          /\ ph # "returned" => Len(g) <= op[c].n
          /\ e = "completed" => Len(g) = op[c].n

(* A step of such a caller.                                                 *)
LEMMA OwnStep ==
    ASSUME ClientInv, NEW c \in Callers, NEW g, NEW e, NEW ph, op[c].kind # "stream",
           got' = [got EXCEPT ![c] = g], outcome' = [outcome EXCEPT ![c] = e],
           phase' = [phase EXCEPT ![c] = ph],
           UNCHANGED <<op, body, received, buffer, request, pool>>,
           MayLeave(c, g, e, ph)
    PROVE  ClientInv'
<1>0. ClientTypeOK /\ g \in Seq(Nat \cup Seq(Nat)) /\ e \in Outcomes /\ ph \in Phases
  BY DEF ClientInv, MayLeave
<1>1. /\ got' \in [Callers -> Seq(Nat \cup Seq(Nat))] /\ got'[c] = g
      /\ \A d \in Callers : d # c => got'[d] = got[d]
  BY <1>0 DEF ClientTypeOK
<1>2. /\ outcome' \in [Callers -> Outcomes] /\ outcome'[c] = e
      /\ \A d \in Callers : d # c => outcome'[d] = outcome[d]
  BY <1>0 DEF ClientTypeOK
<1>3. /\ phase' \in [Callers -> Phases] /\ phase'[c] = ph
      /\ \A d \in Callers : d # c => phase'[d] = phase[d]
  BY <1>0 DEF ClientTypeOK
<1>4. ClientTypeOK'
  BY <1>0, <1>1, <1>2, <1>3 DEF ClientTypeOK
<1>5. PhaseInv(c)'
  BY <1>1, <1>2, <1>3 DEF PhaseInv, MayLeave
<1>6. StreamInv(c)'
  BY DEF StreamInv
<1>7. BatchInv(c)'
  BY <1>1, <1>2, <1>3 DEF BatchInv, MayLeave, AllReady, Ready
<1>8. CallerInv(c)'
  BY <1>5, <1>6, <1>7 DEF CallerInv
<1> QED BY <1>1, <1>2, <1>3, <1>4, <1>8, CallerStep

(* The same for a step that changes only some of it.                        *)
LEMMA Unassigned ==
    ASSUME ClientTypeOK, NEW c \in Callers
    PROVE  /\ got = [got EXCEPT ![c] = got[c]] /\ outcome = [outcome EXCEPT ![c] = outcome[c]]
           /\ phase = [phase EXCEPT ![c] = phase[c]]
  BY DEF ClientTypeOK

(* In a call no request is queued.                                          *)
LEMMA InCall ==
    ASSUME ClientInv, NEW c \in Callers, phase[c] = "call", op[c].kind # "stream"
    PROVE  /\ request[c] = <<>> /\ AllReady(c) /\ outcome[c] = "none"
           /\ op[c].kind \in {"chat", "llm"} => got[c] \in Seq(Seq(Nat))
           /\ op[c].kind = "embed" => got[c] \in Seq(Nat) /\ \A i \in DOMAIN got[c] : got[c][i] = 0 \/ got[c][i] = i
           /\ op[c].kind = "embed" /\ op[c].provider = "ollama" => Len(got[c]) <= op[c].n
<1>1. PhaseInv(c) /\ BatchInv(c)
  BY DEF ClientInv, CallerInv
<1>2. request[c] = <<>>
  BY <1>1 DEF BatchInv
<1>3. AllReady(c)
  BY <1>2 DEF AllReady
<1> QED BY <1>1, <1>2, <1>3 DEF PhaseInv, BatchInv

(* The answers of a batch of responses are texts.                           *)
LEMMA ConvertedType ==
    ASSUME NEW batch \in Seq(Seq(Nat)), NEW kind
    PROVE  Converted(kind, batch) \in Seq(Nat)
<1>1. ASSUME NEW i \in 1..Len(batch), HasAnswer(batch[i])
      PROVE  FirstGeneration(batch[i]) \in Nat
  <2>1. batch[i] \in Seq(Nat) /\ batch[i] # <<>>
    BY <1>1 DEF HasAnswer
  <2> DEFINE g == batch[i]
  <2> HIDE DEF g
  <2>2. g \in Seq(Nat) /\ g # <<>>
    BY <2>1 DEF g
  <2>3. g[1] \in Nat
    BY <2>2
  <2> QED BY <2>3 DEF FirstGeneration, g
<1>2. Answers(batch) \in Seq(Nat)
  <2> DEFINE missing == {i \in DOMAIN batch : ~ HasAnswer(batch[i])}
             least == CHOOSE i \in missing : \A j \in missing : i <= j
             n == IF missing = {} THEN Len(batch) ELSE least - 1
  <2>1. missing \in SUBSET Nat /\ \A k \in missing : k \in 1..Len(batch)
    OBVIOUS
  <2>2. missing # {} => least \in missing /\ \A j \in missing : least <= j
    BY <2>1, LeastNumber
  <2>3. n \in 0..Len(batch) /\ \A i \in 1..n : i \in 1..Len(batch) /\ i \notin missing
    <3> HIDE DEF missing, least
    <3>0. Len(batch) \in Nat
      OBVIOUS
    <3>1. CASE missing = {}
      BY <3>0, <3>1
    <3>2. CASE missing # {}
      <4>1. least \in missing /\ least \in 1..Len(batch) /\ \A j \in missing : least <= j
        BY <2>1, <2>2, <3>2
      <4>2. n = least - 1
        BY <3>2
      <4>3. n \in 0..Len(batch) /\ \A k \in 1..n : k < least /\ k \in Int /\ k \in 1..Len(batch)
        BY <4>1, <4>2, <3>0
      <4>4. \A k \in 1..n : k \notin missing
        <5> SUFFICES ASSUME NEW k \in 1..n, k \in missing PROVE FALSE
          OBVIOUS
        <5>1. least <= k /\ k < least /\ k \in Int
          BY <4>1, <4>3
        <5>2. least \in Int
          BY <4>1
        <5> QED BY <5>1, <5>2
      <4> QED BY <4>3, <4>4
    <3> QED BY <3>1, <3>2
  <2>4. \A i \in 1..n : FirstGeneration(batch[i]) \in Nat
    <3>1. \A i \in 1..n : HasAnswer(batch[i])
      <4> SUFFICES ASSUME NEW i \in 1..n PROVE HasAnswer(batch[i])
        OBVIOUS
      <4>0. DOMAIN batch = 1..Len(batch)
        OBVIOUS
      <4>1. i \in 1..Len(batch) /\ i \notin missing
        <5> HIDE DEF missing, n
        <5> QED BY <2>3
      <4> HIDE DEF n
      <4> QED BY <4>0, <4>1
    <3> HIDE DEF n
    <3> QED BY <1>1, <2>3, <3>1
  <2>5. Answers(batch) = [i \in 1..n |-> FirstGeneration(batch[i])]
    BY DEF Answers
  <2> HIDE DEF n
  <2>6. Answers(batch) \in [1..n -> Nat] /\ n \in Nat
    BY <2>3, <2>4, <2>5
  <2> QED BY <2>6
<1>3. AnswersOfLLM(batch) \in Seq(Nat)
  <2>1. CASE \A i \in DOMAIN batch : HasAnswer(batch[i])
    <3>1. AnswersOfLLM(batch) = [i \in 1..Len(batch) |-> FirstGeneration(batch[i])]
      <4>1. DOMAIN batch = 1..Len(batch)
        OBVIOUS
      <4> QED BY <2>1, <4>1, Zenon DEF AnswersOfLLM
    <3>2. \A i \in 1..Len(batch) : FirstGeneration(batch[i]) \in Nat
      BY <1>1, <2>1
    <3>3. AnswersOfLLM(batch) \in [1..Len(batch) -> Nat] /\ Len(batch) \in Nat
      BY <3>1, <3>2
    <3> DEFINE n == Len(batch)
    <3> HIDE DEF n
    <3>4. AnswersOfLLM(batch) \in [1..n -> Nat] /\ n \in Nat
      BY <3>3 DEF n
    <3> QED BY <3>4
  <2>2. CASE ~ \A i \in DOMAIN batch : HasAnswer(batch[i])
    BY <2>2 DEF AnswersOfLLM
  <2> QED BY <2>1, <2>2
<1> QED BY <1>2, <1>3 DEF Converted

(* Generate: one more response, all answers, or the first failure.          *)
LEMMA GenerateKeeps ==
    ASSUME ClientInv, NEW c \in Callers, Generate(c)
    PROVE  ClientInv'
<1> DEFINE i == Len(got[c]) + 1
           answers == Converted(op[c].kind, got[c])
<1>0. ClientTypeOK
  BY DEF ClientInv
<1>1. /\ op[c].kind \in {"chat", "llm"} /\ phase[c] = "call" /\ op[c].kind # "stream" /\ op[c].kind # "embed"
      /\ UNCHANGED <<op, body, received, buffer, request, pool>>
  BY DEF Generate
<1>2. request[c] = <<>> /\ AllReady(c) /\ outcome[c] = "none" /\ got[c] \in Seq(Seq(Nat))
  BY <1>1, InCall
<1>3. \/ \E why \in {"completed", "empty response"} : End(c, why, answers)
      \/ End(c, "failed", <<>>)
      \/ \E r \in Responses :
            /\ got' = [got EXCEPT ![c] = Append(@, Call(op[c].provider, PostObject(r), i))]
            /\ UNCHANGED <<phase, outcome>>
  <2> HIDE DEF answers, i
  <2> QED BY DEF Generate, i, answers
<1>4. ASSUME NEW g \in Seq(Nat), NEW why \in {"completed", "empty response", "failed"}, End(c, why, g)
      PROVE  ClientInv'
  <2>1. /\ got' = [got EXCEPT ![c] = g] /\ outcome' = [outcome EXCEPT ![c] = why]
        /\ phase' = [phase EXCEPT ![c] = "returned"]
    BY <1>4 DEF End
  <2>2. MayLeave(c, g, why, "returned")
    <3>1. g \in Seq(Nat \cup Seq(Nat)) /\ why \in Outcomes /\ "returned" \in Phases
      <4>1. g \in Seq(Nat \cup Seq(Nat))
        BY Results
      <4>2. why \in Outcomes /\ "returned" \in Phases
        BY DEF Outcomes, Phases
      <4> QED BY <4>1, <4>2
    <3> QED BY <3>1, <1>1, <1>2 DEF MayLeave
  <2> QED BY <2>1, <2>2, <1>1, OwnStep
<1>5. CASE \E why \in {"completed", "empty response"} : End(c, why, answers)
  <2>1. answers \in Seq(Nat)
    BY <1>2, ConvertedType
  <2> QED BY <2>1, <1>4, <1>5
<1>6. CASE End(c, "failed", <<>>)
  <2>1. <<>> \in Seq(Nat)
    OBVIOUS
  <2> QED BY <1>4, <1>6, <2>1
<1>7. ASSUME NEW r \in Responses,
             got' = [got EXCEPT ![c] = Append(@, Call(op[c].provider, PostObject(r), i))],
             UNCHANGED <<phase, outcome>>
      PROVE  ClientInv'
  <2> DEFINE answer == Call(op[c].provider, PostObject(r), i)
             g == Append(got[c], answer)
  <2>1. i \in Nat
    BY <1>2
  <2>2. answer \in Seq(Nat)
    <3> HIDE DEF i
    <3> QED BY <2>1 DEF Call, CallOpenAI, CallOllama
  <2> HIDE DEF answer
  <2>3. g \in Seq(Seq(Nat))
    BY <1>2, <2>2
  <2> HIDE DEF g
  <2>4. g \in Seq(Nat \cup Seq(Nat))
    BY <2>3
  <2>5. MayLeave(c, g, "none", "call")
    <3>1. "none" \in Outcomes /\ "call" \in Phases
      BY DEF Outcomes, Phases
    <3> QED BY <3>1, <1>1, <1>2, <2>3, <2>4 DEF MayLeave
  <2>6. /\ got' = [got EXCEPT ![c] = g] /\ outcome' = [outcome EXCEPT ![c] = "none"]
        /\ phase' = [phase EXCEPT ![c] = "call"]
    BY <1>0, <1>1, <1>2, <1>7, Unassigned DEF g, answer
  <2> QED BY <2>5, <2>6, <1>1, OwnStep
<1> QED BY <1>3, <1>5, <1>6, <1>7


(* One more vector at its place, or an empty one.                           *)
LEMMA NextVector ==
    ASSUME NEW g \in Seq(Nat), \A i \in DOMAIN g : g[i] = 0 \/ g[i] = i,
           NEW v \in Nat, v = 0 \/ v = Len(g) + 1
    PROVE  /\ Append(g, v) \in Seq(Nat) /\ Len(Append(g, v)) = Len(g) + 1
           /\ \A i \in DOMAIN Append(g, v) : Append(g, v)[i] = 0 \/ Append(g, v)[i] = i
<1> DEFINE p == Append(g, v)
           n == Len(g)
<1>1. /\ p \in Seq(Nat) /\ Len(p) = n + 1 /\ n \in Nat /\ p[n + 1] = v
      /\ \A i \in 1..n : p[i] = g[i]
  OBVIOUS
<1>2. DOMAIN p = 1..(n + 1) /\ \A i \in 1..n : g[i] = 0 \/ g[i] = i
  BY <1>1
<1>3. v = 0 \/ v = n + 1
  OBVIOUS
<1> HIDE DEF p, n
<1>4. ASSUME NEW i \in DOMAIN p
      PROVE  p[i] = 0 \/ p[i] = i
  <2>1. CASE i = n + 1
    BY <1>1, <1>3, <2>1
  <2>2. CASE i # n + 1
    <3>1. i \in 1..n
      BY <1>1, <1>2, <2>2
    <3> QED BY <3>1, <1>1, <1>2
  <2> QED BY <2>1, <2>2
<1> QED BY <1>1, <1>4 DEF p, n

(* EmbedDocuments of OpenAI: the vectors as they come, or none.             *)
LEMMA EmbedDocumentsKeeps ==
    ASSUME ClientInv, NEW c \in Callers, EmbedDocuments(c)
    PROVE  ClientInv'
<1>1. /\ op[c].kind = "embed" /\ op[c].provider = "openai" /\ phase[c] = "call" /\ op[c].kind # "stream"
      /\ UNCHANGED <<op, body, received, buffer, request, pool>>
  BY DEF EmbedDocuments
<1>2. request[c] = <<>> /\ AllReady(c)
  BY <1>1, InCall
<1>3. op[c].n \in Nat
  BY CallerTypes DEF ClientInv
<1>4. \E n \in 0..op[c].n : \E why \in {"failed", "completed"} : End(c, why, [i \in 1..n |-> i])
  <2>1. PICK r \in Responses, k \in 0..op[c].n :
            LET n == IF PostObject(r) = "ok" THEN k ELSE 0
            IN  IF PostObject(r) = "exception" \/ n = 0 THEN End(c, "failed", <<>>)
                ELSE End(c, "completed", [i \in 1..n |-> i])
    BY DEF EmbedDocuments
  <2>2. CASE End(c, "failed", <<>>)
    <3>1. [i \in 1..0 |-> i] = <<>> /\ 0 \in 0..op[c].n
      BY <1>3
    <3> QED BY <2>2, <3>1
  <2>3. CASE ~ End(c, "failed", <<>>)
    <3> DEFINE n == IF PostObject(r) = "ok" THEN k ELSE 0
    <3>1. n \in 0..op[c].n
      BY <1>3
    <3>2. End(c, "completed", [i \in 1..n |-> i])
      BY <2>1, <2>3
    <3> HIDE DEF n
    <3> QED BY <3>1, <3>2
  <2> QED BY <2>2, <2>3
<1>5. PICK n \in 0..op[c].n, why \in {"failed", "completed"} : End(c, why, [i \in 1..n |-> i])
  BY <1>4
<1> DEFINE g == [i \in 1..n |-> i]
<1>6. n \in Nat
  BY <1>3
<1>7. g \in Seq(Nat) /\ \A i \in DOMAIN g : g[i] = i
  BY <1>6
<1>8. /\ got' = [got EXCEPT ![c] = g] /\ outcome' = [outcome EXCEPT ![c] = why]
      /\ phase' = [phase EXCEPT ![c] = "returned"]
  BY <1>5 DEF End
<1> HIDE DEF g
<1>9. g \in Seq(Nat \cup Seq(Nat))
  BY <1>7, Results
<1>10. why \in Outcomes /\ "returned" \in Phases
  BY DEF Outcomes, Phases
<1>11. MayLeave(c, g, why, "returned")
  BY <1>1, <1>2, <1>7, <1>9, <1>10 DEF MayLeave
<1> QED BY <1>1, <1>8, <1>11, OwnStep

(* EmbedOneByOne: the i-th request gives the i-th vector.                   *)
LEMMA EmbedOneByOneKeeps ==
    ASSUME ClientInv, NEW c \in Callers, EmbedOneByOne(c)
    PROVE  ClientInv'
<1> DEFINE i == Len(got[c]) + 1
<1>0. ClientTypeOK
  BY DEF ClientInv
<1>1. /\ op[c].kind = "embed" /\ op[c].provider = "ollama" /\ phase[c] = "call" /\ op[c].kind # "stream"
      /\ UNCHANGED <<op, body, received, buffer, request, pool>>
  BY DEF EmbedOneByOne
<1>2. /\ request[c] = <<>> /\ AllReady(c) /\ outcome[c] = "none" /\ Len(got[c]) <= op[c].n
      /\ got[c] \in Seq(Nat) /\ \A j \in DOMAIN got[c] : got[c][j] = 0 \/ got[c][j] = j
  BY <1>1, InCall
<1>3. op[c].n \in Nat /\ Len(got[c]) \in Nat
  BY <1>0, <1>2, CallerTypes
<1>S. /\ "none" \in Outcomes /\ "completed" \in Outcomes /\ "failed" \in Outcomes
      /\ "call" \in Phases /\ "returned" \in Phases
  BY DEF Outcomes, Phases
<1>4. \/ i > op[c].n /\ End(c, "completed", got[c])
      \/ End(c, "failed", <<>>)
      \/ ~ (i > op[c].n) /\ \E r \in Responses :
            /\ got' = [got EXCEPT ![c] = Append(@, CallOllama(PostObject(r), i)[1])]
            /\ UNCHANGED <<phase, outcome>>
  <2> HIDE DEF i
  <2> QED BY DEF EmbedOneByOne, i
<1>5. CASE i > op[c].n /\ End(c, "completed", got[c])
  <2>1. Len(got[c]) = op[c].n
    BY <1>2, <1>3, <1>5
  <2>2. /\ got' = [got EXCEPT ![c] = got[c]] /\ outcome' = [outcome EXCEPT ![c] = "completed"]
        /\ phase' = [phase EXCEPT ![c] = "returned"]
    BY <1>5 DEF End
  <2>3. got[c] \in Seq(Nat \cup Seq(Nat))
    BY <1>2, Results
  <2>4. MayLeave(c, got[c], "completed", "returned")
    BY <1>1, <1>2, <1>S, <2>1, <2>3 DEF MayLeave
  <2> QED BY <1>1, <2>2, <2>4, OwnStep
<1>6. CASE End(c, "failed", <<>>)
  <2>1. /\ got' = [got EXCEPT ![c] = <<>>] /\ outcome' = [outcome EXCEPT ![c] = "failed"]
        /\ phase' = [phase EXCEPT ![c] = "returned"]
    BY <1>6 DEF End
  <2>2. <<>> \in Seq(Nat) /\ <<>> \in Seq(Nat \cup Seq(Nat)) /\ DOMAIN <<>> = {}
    OBVIOUS
  <2>3. MayLeave(c, <<>>, "failed", "returned")
    BY <1>1, <1>2, <1>S, <2>2 DEF MayLeave
  <2> QED BY <1>1, <2>1, <2>3, OwnStep
<1>7. ASSUME ~ (i > op[c].n), NEW r \in Responses,
             got' = [got EXCEPT ![c] = Append(@, CallOllama(PostObject(r), i)[1])], UNCHANGED <<phase, outcome>>
      PROVE  ClientInv'
  <2> DEFINE v == CallOllama(PostObject(r), i)[1]
             g == Append(got[c], v)
  <2>1. v \in Nat /\ (v = 0 \/ v = Len(got[c]) + 1)
    BY <1>3 DEF CallOllama
  <2> HIDE DEF v
  <2>2. /\ g \in Seq(Nat) /\ Len(g) = Len(got[c]) + 1
        /\ \A j \in DOMAIN g : g[j] = 0 \/ g[j] = j
    <3> DEFINE old == got[c]
    <3>1. old \in Seq(Nat) /\ (\A j \in DOMAIN old : old[j] = 0 \/ old[j] = j) /\ (v = 0 \/ v = Len(old) + 1)
      BY <1>2, <2>1
    <3> HIDE DEF old
    <3>2. /\ Append(old, v) \in Seq(Nat) /\ Len(Append(old, v)) = Len(old) + 1
          /\ \A j \in DOMAIN Append(old, v) : Append(old, v)[j] = 0 \/ Append(old, v)[j] = j
      BY <2>1, <3>1, NextVector
    <3> QED BY <3>2 DEF old
  <2>3. Len(g) <= op[c].n
    BY <1>3, <1>7, <2>2
  <2>4. /\ got' = [got EXCEPT ![c] = g] /\ outcome' = [outcome EXCEPT ![c] = "none"]
        /\ phase' = [phase EXCEPT ![c] = "call"]
    BY <1>0, <1>1, <1>2, <1>7, Unassigned DEF g, v
  <2> HIDE DEF g
  <2>5. g \in Seq(Nat \cup Seq(Nat))
    BY <2>2, Results
  <2>6. MayLeave(c, g, "none", "call")
    BY <1>1, <1>2, <1>S, <2>2, <2>3, <2>5 DEF MayLeave
  <2> QED BY <1>1, <2>4, <2>6, OwnStep
<1> QED BY <1>4, <1>5, <1>6, <1>7


-----------------------------------------------------------------------------
(* Batches.                                                                 *)

(* WaitFor: an end of the wait, or of the time.                             *)
LEMMA WaitForKeeps ==
    ASSUME ClientInv, NEW c \in Callers, WaitFor(c)
    PROVE  ClientInv'
<1>0. ClientTypeOK /\ PhaseInv(c) /\ BatchInv(c)
  BY DEF ClientInv, CallerInv
<1>1. phase[c] = "wait" /\ UNCHANGED <<op, got, body, received, buffer, request, pool>>
  BY DEF WaitFor
<1>2. /\ op[c].kind = "embed" /\ op[c].provider = "ollama" /\ op[c].kind # "stream"
      /\ outcome[c] = "none" /\ got[c] \in Seq(Nat) /\ Len(got[c]) <= op[c].n
      /\ \A i \in DOMAIN got[c] : got[c][i] = 0 \/ got[c][i] = i
  <2>1. op[c].kind = "embed" /\ op[c].provider = "ollama"
    BY <1>0, <1>1 DEF PhaseInv
  <2>2. op[c].kind # "stream"
    BY <2>1
  <2> QED BY <1>0, <1>1, <2>1, <2>2 DEF PhaseInv, BatchInv
<1>3. \/ phase' = [phase EXCEPT ![c] = "collect"] /\ UNCHANGED outcome
      \/ phase' = [phase EXCEPT ![c] = "unwind"] /\ outcome' = [outcome EXCEPT ![c] = "timeout"]
  BY DEF WaitFor
<1>4. got' = [got EXCEPT ![c] = got[c]] /\ outcome = [outcome EXCEPT ![c] = "none"]
  BY <1>0, <1>1, <1>2, Unassigned
<1>5. got[c] \in Seq(Nat \cup Seq(Nat))
  BY <1>2, Results
<1>6. MayLeave(c, got[c], "none", "collect") /\ MayLeave(c, got[c], "timeout", "unwind")
  <2>1. "none" \in Outcomes /\ "timeout" \in Outcomes /\ "collect" \in Phases /\ "unwind" \in Phases
    BY DEF Outcomes, Phases
  <2> QED BY <1>2, <1>5, <2>1 DEF MayLeave
<1>7. CASE phase' = [phase EXCEPT ![c] = "collect"] /\ UNCHANGED outcome
  BY <1>1, <1>2, <1>4, <1>6, <1>7, OwnStep
<1>8. CASE phase' = [phase EXCEPT ![c] = "unwind"] /\ outcome' = [outcome EXCEPT ![c] = "timeout"]
  BY <1>1, <1>2, <1>4, <1>6, <1>8, OwnStep
<1> QED BY <1>3, <1>7, <1>8

(* Collect: the i-th answer gives the i-th vector.                          *)
LEMMA CollectKeeps ==
    ASSUME ClientInv, NEW c \in Callers, Collect(c)
    PROVE  ClientInv'
<1> DEFINE i == Len(got[c]) + 1
<1>0. ClientTypeOK /\ PhaseInv(c) /\ BatchInv(c)
  BY DEF ClientInv, CallerInv
<1>1. phase[c] = "collect" /\ UNCHANGED <<op, body, received, buffer, request, pool>>
  BY DEF Collect
<1>2. /\ op[c].kind = "embed" /\ op[c].provider = "ollama" /\ op[c].kind # "stream"
      /\ outcome[c] = "none" /\ got[c] \in Seq(Nat) /\ Len(got[c]) <= op[c].n
      /\ \A j \in DOMAIN got[c] : got[c][j] = 0 \/ got[c][j] = j
  <2>1. op[c].kind = "embed" /\ op[c].provider = "ollama"
    BY <1>0, <1>1 DEF PhaseInv
  <2>2. op[c].kind # "stream"
    BY <2>1
  <2> QED BY <1>0, <1>1, <2>1, <2>2 DEF PhaseInv, BatchInv
<1>3. op[c].n \in Nat /\ Len(got[c]) \in Nat
  BY <1>0, <1>2, CallerTypes
<1>S. /\ "none" \in Outcomes /\ "completed" \in Outcomes /\ "failed" \in Outcomes
      /\ "collect" \in Phases /\ "unwind" \in Phases
  BY DEF Outcomes, Phases
<1>4. \/ /\ i > op[c].n /\ outcome' = [outcome EXCEPT ![c] = "completed"]
         /\ phase' = [phase EXCEPT ![c] = "unwind"] /\ UNCHANGED got
      \/ /\ ~ (i > op[c].n) /\ outcome' = [outcome EXCEPT ![c] = "failed"]
         /\ phase' = [phase EXCEPT ![c] = "unwind"] /\ UNCHANGED got
      \/ /\ ~ (i > op[c].n) /\ got' = [got EXCEPT ![c] = Append(@, CallOllama(request[c][i], i)[1])]
         /\ UNCHANGED <<phase, outcome>>
  <2> HIDE DEF i
  <2> QED BY DEF Collect, i
<1>5. got[c] \in Seq(Nat \cup Seq(Nat)) /\ got = [got EXCEPT ![c] = got[c]]
  BY <1>0, <1>2, Results, Unassigned
<1>6. CASE /\ i > op[c].n /\ outcome' = [outcome EXCEPT ![c] = "completed"]
           /\ phase' = [phase EXCEPT ![c] = "unwind"] /\ UNCHANGED got
  <2>1. Len(got[c]) = op[c].n
    BY <1>2, <1>3, <1>6
  <2>2. MayLeave(c, got[c], "completed", "unwind")
    BY <1>2, <1>5, <1>S, <2>1 DEF MayLeave
  <2>3. got' = [got EXCEPT ![c] = got[c]]
    BY <1>5, <1>6
  <2> QED BY <1>1, <1>2, <1>6, <2>2, <2>3, OwnStep
<1>7. CASE /\ outcome' = [outcome EXCEPT ![c] = "failed"]
           /\ phase' = [phase EXCEPT ![c] = "unwind"] /\ UNCHANGED got
  <2>1. MayLeave(c, got[c], "failed", "unwind")
    BY <1>2, <1>5, <1>S DEF MayLeave
  <2>2. got' = [got EXCEPT ![c] = got[c]]
    BY <1>5, <1>7
  <2> QED BY <1>1, <1>2, <1>7, <2>1, <2>2, OwnStep
<1>8. CASE /\ ~ (i > op[c].n) /\ got' = [got EXCEPT ![c] = Append(@, CallOllama(request[c][i], i)[1])]
           /\ UNCHANGED <<phase, outcome>>
  <2> DEFINE v == CallOllama(request[c][i], i)[1]
             g == Append(got[c], v)
  <2>1. v \in Nat /\ (v = 0 \/ v = Len(got[c]) + 1)
    BY <1>3 DEF CallOllama
  <2> HIDE DEF v
  <2>2. /\ g \in Seq(Nat) /\ Len(g) = Len(got[c]) + 1
        /\ \A j \in DOMAIN g : g[j] = 0 \/ g[j] = j
    <3> DEFINE old == got[c]
    <3>1. old \in Seq(Nat) /\ (\A j \in DOMAIN old : old[j] = 0 \/ old[j] = j) /\ (v = 0 \/ v = Len(old) + 1)
      BY <1>2, <2>1
    <3> HIDE DEF old
    <3>2. /\ Append(old, v) \in Seq(Nat) /\ Len(Append(old, v)) = Len(old) + 1
          /\ \A j \in DOMAIN Append(old, v) : Append(old, v)[j] = 0 \/ Append(old, v)[j] = j
      BY <2>1, <3>1, NextVector
    <3> QED BY <3>2 DEF old
  <2>3. Len(g) <= op[c].n
    BY <1>3, <1>8, <2>2
  <2>4. /\ got' = [got EXCEPT ![c] = g] /\ outcome' = [outcome EXCEPT ![c] = "none"]
        /\ phase' = [phase EXCEPT ![c] = "collect"]
    BY <1>0, <1>1, <1>2, <1>8, Unassigned DEF g, v
  <2> HIDE DEF g
  <2>5. g \in Seq(Nat \cup Seq(Nat))
    BY <2>2, Results
  <2>6. MayLeave(c, g, "none", "collect")
    BY <1>1, <1>2, <1>S, <2>2, <2>3, <2>5 DEF MayLeave
  <2> QED BY <1>1, <1>2, <2>4, <2>6, OwnStep
<1> QED BY <1>4, <1>6, <1>7, <1>8

(* Unwind: no request is left when the caller goes on.                      *)
LEMMA UnwindKeeps ==
    ASSUME ClientInv, NEW c \in Callers, Unwind(c)
    PROVE  ClientInv'
<1> DEFINE g == IF outcome[c] = "completed" THEN got[c] ELSE <<>>
<1>0. ClientTypeOK /\ PhaseInv(c) /\ BatchInv(c) /\ outcome[c] \in Outcomes
  BY CallerTypes DEF ClientInv, CallerInv
<1>1. /\ phase[c] = "unwind" /\ AllReady(c) /\ UNCHANGED <<op, body, received, buffer, request, pool>>
      /\ got' = [got EXCEPT ![c] = g] /\ outcome' = [outcome EXCEPT ![c] = outcome[c]]
      /\ phase' = [phase EXCEPT ![c] = "returned"]
  BY DEF Unwind, End
<1>2. /\ op[c].kind = "embed" /\ op[c].provider = "ollama" /\ op[c].kind # "stream"
      /\ got[c] \in Seq(Nat) /\ \A j \in DOMAIN got[c] : got[c][j] = 0 \/ got[c][j] = j
      /\ outcome[c] = "completed" => Len(got[c]) = op[c].n
  <2>1. op[c].kind = "embed" /\ op[c].provider = "ollama"
    BY <1>0, <1>1 DEF PhaseInv
  <2>2. op[c].kind # "stream"
    BY <2>1
  <2> QED BY <1>0, <1>1, <2>1, <2>2 DEF PhaseInv, BatchInv
<1>3. /\ g \in Seq(Nat) /\ \A j \in DOMAIN g : g[j] = 0 \/ g[j] = j
      /\ outcome[c] = "completed" => Len(g) = op[c].n
  <2>1. CASE outcome[c] = "completed"
    BY <1>2, <2>1
  <2>2. CASE outcome[c] # "completed"
    <3>1. g = <<>>
      BY <2>2
    <3> HIDE DEF g
    <3> QED BY <2>2, <3>1
  <2> QED BY <2>1, <2>2
<1> HIDE DEF g
<1>4. g \in Seq(Nat \cup Seq(Nat)) /\ "returned" \in Phases
  BY <1>3, Results DEF Phases
<1>5. MayLeave(c, g, outcome[c], "returned")
  BY <1>0, <1>1, <1>2, <1>3, <1>4 DEF MayLeave
<1> QED BY <1>1, <1>2, <1>5, OwnStep

(* A request that is not ready belongs to a batch that goes on, so it may   *)
(* change as it likes.                                                      *)
LEMMA RequestStep ==
    ASSUME ClientInv, NEW d \in Callers, NEW i \in DOMAIN request[d], ~ Ready(d, i), NEW x \in Requests,
           request' = [request EXCEPT ![d][i] = x],
           UNCHANGED <<op, phase, got, outcome, body, received, buffer>>
    PROVE  /\ request' \in [Callers -> Seq(Requests)]
           /\ \A c \in Callers : CallerInv(c)'
           /\ \A c \in Callers, j \in Nat : j \in DOMAIN request[c] /\ <<c, j>> # <<d, i>> =>
                 j \in DOMAIN request'[c] /\ request'[c][j] = request[c][j]
<1>0. ClientTypeOK /\ request \in [Callers -> Seq(Requests)] /\ request[d] \in Seq(Requests)
  BY DEF ClientInv, ClientTypeOK
<1> DEFINE q == [request[d] EXCEPT ![i] = x]
<1>1. request' = [request EXCEPT ![d] = q]
  BY <1>0
<1>2. /\ q \in Seq(Requests) /\ DOMAIN q = DOMAIN request[d]
      /\ \A j \in DOMAIN request[d] : j # i => q[j] = request[d][j]
  <2> DEFINE p == request[d]
  <2>1. p \in Seq(Requests) /\ i \in DOMAIN p
    BY <1>0
  <2> HIDE DEF p
  <2>2. /\ [p EXCEPT ![i] = x] \in Seq(Requests) /\ DOMAIN [p EXCEPT ![i] = x] = DOMAIN p
        /\ \A j \in DOMAIN p : j # i => [p EXCEPT ![i] = x][j] = p[j]
    BY <2>1
  <2> QED BY <2>2 DEF p
<1> HIDE DEF q
<1>3. /\ request' \in [Callers -> Seq(Requests)] /\ request'[d] = q
      /\ \A c \in Callers : c # d => request'[c] = request[c]
  BY <1>0, <1>1, <1>2
<1>4. \A c \in Callers, j \in Nat : j \in DOMAIN request[c] /\ <<c, j>> # <<d, i>> =>
          j \in DOMAIN request'[c] /\ request'[c][j] = request[c][j]
  <2> SUFFICES ASSUME NEW c \in Callers, NEW j \in Nat, j \in DOMAIN request[c], <<c, j>> # <<d, i>>
               PROVE  j \in DOMAIN request'[c] /\ request'[c][j] = request[c][j]
    OBVIOUS
  <2>1. CASE c # d
    BY <2>1, <1>3
  <2>2. CASE c = d
    <3>1. j # i
      BY <2>2
    <3> QED BY <2>2, <3>1, <1>2, <1>3
  <2> QED BY <2>1, <2>2
<1>5. ASSUME NEW c \in Callers
      PROVE  CallerInv(c)'
  <2>0. CallerInv(c)
    BY DEF ClientInv
  <2>1. CASE c # d
    BY <2>0, <2>1, <1>3, Rests
  <2>2. CASE c = d
    <3>1. phase[d] # "returned" /\ phase[d] \notin {"start", "call"}
      <4>1. BatchInv(d)
        BY <2>0, <2>2 DEF CallerInv
      <4>2. ~ AllReady(d)
        BY DEF AllReady
      <4>3. request[d] # <<>>
        OBVIOUS
      <4> QED BY <4>1, <4>2, <4>3 DEF BatchInv
    <3>2. PhaseInv(c)'
      BY <2>0 DEF CallerInv, PhaseInv
    <3>3. StreamInv(c)'
      BY <2>0 DEF CallerInv, StreamInv, Faithful, ReadTo
    <3>4. BatchInv(c)'
      BY <2>0, <2>2, <3>1 DEF CallerInv, BatchInv
    <3> QED BY <3>2, <3>3, <3>4 DEF CallerInv
  <2> QED BY <2>1, <2>2
<1> QED BY <1>3, <1>4, <1>5

(* Take: the first request of the pool, which is in it only once.           *)
LEMMA TakeKeeps ==
    ASSUME ClientInv, Take
    PROVE  ClientInv'
<1>0. ClientTypeOK /\ PoolInv /\ pool \in Seq(Callers \X Nat)
  BY DEF ClientInv, ClientTypeOK
<1>1. /\ pool # <<>> /\ pool' = Tail(pool) /\ request' = [request EXCEPT ![Head(pool)[1]][Head(pool)[2]] = "sending"]
      /\ UNCHANGED <<op, phase, got, outcome, body, received, buffer>>
  BY DEF Take
<1>2. 1 \in DOMAIN pool /\ Head(pool) = pool[1] /\ pool[1] \in Callers \X Nat
  BY <1>0, <1>1
<1>D. PICK d \in Callers, i \in Nat : pool[1] = <<d, i>>
  BY <1>2
<1>3. pool[1] = <<d, i>> /\ i \in DOMAIN request[d] /\ request[d][i] = "queued"
  <2>1. pool[1][1] = d /\ pool[1][2] = i
    BY <1>D
  <2> QED BY <2>1, <1>D, <1>0, <1>2 DEF PoolInv
<1> DEFINE x == "sending"
<1>4. request' = [request EXCEPT ![d][i] = x]
  <2>1. Head(pool)[1] = d /\ Head(pool)[2] = i
    BY <1>2, <1>D
  <2> QED BY <1>1, <2>1
<1>5. ~ Ready(d, i) /\ x \in Requests
  BY <1>3 DEF Ready, Requests
<1> HIDE DEF x
<1>6. /\ request' \in [Callers -> Seq(Requests)]
      /\ \A c \in Callers : CallerInv(c)'
      /\ \A c \in Callers, j \in Nat : j \in DOMAIN request[c] /\ <<c, j>> # <<d, i>> =>
            j \in DOMAIN request'[c] /\ request'[c][j] = request[c][j]
  <2>1. UNCHANGED <<op, phase, got, outcome, body, received, buffer>>
    BY <1>1
  <2>2. i \in DOMAIN request[d]
    BY <1>3
  <2> QED BY <1>4, <1>5, <2>1, <2>2, RequestStep, Zenon
<1>7. /\ pool' \in Seq(Callers \X Nat) /\ Len(pool') = Len(pool) - 1
      /\ \A j \in DOMAIN pool' : j \in Nat /\ j + 1 \in DOMAIN pool /\ pool'[j] = pool[j + 1] /\ j + 1 # 1
  <2> DEFINE p == pool
             t == Tail(pool)
  <2>1. p \in Seq(Callers \X Nat) /\ p # <<>> /\ t = Tail(p)
    BY <1>0, <1>1
  <2> HIDE DEF p, t
  <2>2. t \in Seq(Callers \X Nat) /\ Len(t) = Len(p) - 1 /\ \A j \in 1..(Len(p) - 1) : t[j] = p[j + 1]
    BY <2>1
  <2>3. /\ DOMAIN t = 1..(Len(p) - 1) /\ DOMAIN p = 1..Len(p)
        /\ \A j \in 1..(Len(p) - 1) : j \in Nat /\ j + 1 \in 1..Len(p) /\ j + 1 # 1
    BY <2>1, <2>2
  <2>4. pool' = t /\ pool = p
    BY <1>1 DEF t, p
  <2> QED BY <2>2, <2>3, <2>4
<1>8. ClientTypeOK'
  BY <1>0, <1>1, <1>6, <1>7 DEF ClientTypeOK
<1>9. PoolInv'
  <2>1. ASSUME NEW j \in DOMAIN pool'
        PROVE  /\ pool'[j][2] \in DOMAIN request'[pool'[j][1]]
               /\ request'[pool'[j][1]][pool'[j][2]] = "queued"
    <3>1. j + 1 \in DOMAIN pool /\ pool'[j] = pool[j + 1] /\ j + 1 # 1
      BY <1>7
    <3> DEFINE c == pool[j + 1][1]
               m == pool[j + 1][2]
    <3>2. pool[j + 1] \in Callers \X Nat /\ m \in DOMAIN request[c] /\ request[c][m] = "queued"
      BY <1>0, <3>1 DEF PoolInv
    <3>3. c \in Callers /\ m \in Nat /\ pool[j + 1] = <<c, m>> /\ pool[j + 1] # pool[1]
      <4>1. c \in Callers /\ m \in Nat /\ pool[j + 1] = <<c, m>>
        BY <3>2
      <4>2. pool[j + 1] # pool[1]
        BY <1>0, <1>2, <3>1 DEF PoolInv
      <4> QED BY <4>1, <4>2
    <3> HIDE DEF c, m
    <3>4. m \in DOMAIN request'[c] /\ request'[c][m] = "queued"
      BY <1>3, <1>6, <3>2, <3>3
    <3> QED BY <3>1, <3>4 DEF c, m
  <2>2. ASSUME NEW j \in DOMAIN pool', NEW k \in DOMAIN pool', pool'[j] = pool'[k]
        PROVE  j = k
    <3>1. j \in Nat /\ k \in Nat /\ j + 1 \in DOMAIN pool /\ k + 1 \in DOMAIN pool /\ pool[j + 1] = pool[k + 1]
      BY <1>7, <2>2
    <3>2. j + 1 = k + 1
      BY <1>0, <3>1 DEF PoolInv
    <3> QED BY <3>1, <3>2
  <2> QED BY <2>1, <2>2 DEF PoolInv
<1> QED BY <1>6, <1>8, <1>9 DEF ClientInv

(* Answer: of a request that some thread has taken.                         *)
LEMMA AnswerKeeps ==
    ASSUME ClientInv, Answer
    PROVE  ClientInv'
<1>0. ClientTypeOK /\ PoolInv /\ pool \in Seq(Callers \X Nat)
  BY DEF ClientInv, ClientTypeOK
<1>1. UNCHANGED <<op, phase, got, outcome, body, received, buffer, pool>>
  BY DEF Answer
<1>2. PICK s \in Sending, r \in Responses :
          request' = [request EXCEPT ![s[1]][s[2]] = Deserialize(IF r = "status" THEN "bad" ELSE Execute(r))]
  BY DEF Answer
<1> DEFINE x == Deserialize(IF r = "status" THEN "bad" ELSE Execute(r))
<1>3. x \in Requests
  BY DEF Responses, Requests, Deserialize, Execute
<1> HIDE DEF x
<1>4. PICK d \in Callers : s \in {<<d, j>> : j \in {m \in DOMAIN request[d] : request[d][m] = "sending"}}
  BY <1>2 DEF Sending
<1>5. PICK i \in DOMAIN request[d] : s = <<d, i>> /\ request[d][i] = "sending"
  BY <1>4
<1>6. request' = [request EXCEPT ![d][i] = x]
  BY <1>2, <1>5 DEF x
<1>7. ~ Ready(d, i)
  BY <1>5 DEF Ready
<1>8. /\ request' \in [Callers -> Seq(Requests)]
      /\ \A c \in Callers : CallerInv(c)'
      /\ \A c \in Callers, j \in Nat : j \in DOMAIN request[c] /\ <<c, j>> # <<d, i>> =>
            j \in DOMAIN request'[c] /\ request'[c][j] = request[c][j]
  BY <1>1, <1>3, <1>6, <1>7, RequestStep
<1>9. ClientTypeOK'
  BY <1>0, <1>1, <1>8 DEF ClientTypeOK
<1>10. PoolInv'
  <2>1. ASSUME NEW j \in DOMAIN pool
        PROVE  /\ pool[j][2] \in DOMAIN request'[pool[j][1]]
               /\ request'[pool[j][1]][pool[j][2]] = "queued"
    <3> DEFINE c == pool[j][1]
               m == pool[j][2]
    <3>1. pool[j] \in Callers \X Nat /\ m \in DOMAIN request[c] /\ request[c][m] = "queued"
      BY <1>0 DEF PoolInv
    <3>2. c \in Callers /\ m \in Nat
      BY <3>1
    <3> HIDE DEF c, m
    <3>3. <<c, m>> # <<d, i>>
      BY <1>5, <3>1
    <3>4. m \in DOMAIN request'[c] /\ request'[c][m] = "queued"
      BY <1>8, <3>1, <3>2, <3>3
    <3> QED BY <3>4 DEF c, m
  <2> QED BY <2>1, <1>0, <1>1 DEF PoolInv
<1> QED BY <1>8, <1>9, <1>10 DEF ClientInv


(* ExecuteBatch: a caller without requests queues its own, each once.       *)
LEMMA ExecuteBatchKeeps ==
    ASSUME ClientInv, NEW c \in Callers, ExecuteBatch(c)
    PROVE  ClientInv'
<1> DEFINE n == op[c].n
           q == [i \in 1..n |-> "queued"]
           mine == [i \in 1..n |-> <<c, i>>]
<1>0. ClientTypeOK /\ PoolInv /\ CallerInv(c) /\ pool \in Seq(Callers \X Nat)
  BY DEF ClientInv, ClientTypeOK
<1>1. /\ op[c].kind = "embed" /\ op[c].provider = "ollama" /\ phase[c] = "call"
      /\ request' = [request EXCEPT ![c] = q] /\ pool' = pool \o mine
      /\ phase' = [phase EXCEPT ![c] = "wait"]
      /\ UNCHANGED <<op, got, outcome, body, received, buffer>>
  BY DEF ExecuteBatch
<1>2. request[c] = <<>> /\ op[c].kind # "stream"
  BY <1>0, <1>1 DEF CallerInv, BatchInv
<1>3. n \in Nat
  BY <1>0, CallerTypes
<1> HIDE DEF n
<1>4. q \in Seq(Requests) /\ DOMAIN q = 1..n /\ \A i \in 1..n : q[i] = "queued"
  <2>1. "queued" \in Requests
    BY DEF Requests
  <2> QED BY <1>3, <2>1
<1>5. /\ mine \in Seq(Callers \X Nat) /\ Len(mine) = n /\ \A i \in 1..n : mine[i] = <<c, i>>
  BY <1>3
<1> HIDE DEF q, mine
<1> DEFINE m == Len(pool)
<1>6. /\ pool' \in Seq(Callers \X Nat) /\ m \in Nat /\ DOMAIN pool = 1..m /\ DOMAIN pool' = 1..(m + n)
      /\ \A j \in 1..(m + n) : pool'[j] = IF j <= m THEN pool[j] ELSE <<c, j - m>>
  <2> DEFINE p == pool
             r == p \o mine
  <2>1. p \in Seq(Callers \X Nat)
    BY <1>0
  <2> HIDE DEF p
  <2>2. /\ r \in Seq(Callers \X Nat) /\ Len(r) = Len(p) + Len(mine)
        /\ \A i \in 1..(Len(p) + Len(mine)) : r[i] = IF i <= Len(p) THEN p[i] ELSE mine[i - Len(p)]
    BY <2>1, <1>5, Joined
  <2>3. Len(p) \in Nat /\ DOMAIN p = 1..Len(p) /\ DOMAIN r = 1..(Len(p) + n)
    <3> HIDE DEF r
    <3> QED BY <2>1, <2>2, <1>3, <1>5
  <2>4. \A i \in 1..(Len(p) + n) : r[i] = IF i <= Len(p) THEN p[i] ELSE <<c, i - Len(p)>>
    <3> SUFFICES ASSUME NEW i \in 1..(Len(p) + n)
                 PROVE  r[i] = IF i <= Len(p) THEN p[i] ELSE <<c, i - Len(p)>>
      OBVIOUS
    <3> HIDE DEF r
    <3>1. r[i] = IF i <= Len(p) THEN p[i] ELSE mine[i - Len(p)]
      BY <2>2, <1>5
    <3>2. ~ (i <= Len(p)) => i - Len(p) \in 1..n
      BY <1>3, <2>3
    <3> QED BY <3>1, <3>2, <1>5
  <2>5. pool' = r /\ pool = p
    BY <1>1 DEF p
  <2> HIDE DEF r
  <2> QED BY <2>2, <2>3, <2>4, <2>5
<1> HIDE DEF m
<1>7. /\ request' \in [Callers -> Seq(Requests)] /\ request'[c] = q
      /\ phase' \in [Callers -> Phases] /\ phase'[c] = "wait"
      /\ \A d \in Callers : d # c => request'[d] = request[d] /\ phase'[d] = phase[d]
  <2>1. /\ request' \in [Callers -> Seq(Requests)] /\ request'[c] = q
        /\ \A d \in Callers : d # c => request'[d] = request[d]
    BY <1>0, <1>1, <1>4 DEF ClientTypeOK
  <2>2. /\ phase' \in [Callers -> Phases] /\ phase'[c] = "wait"
        /\ \A d \in Callers : d # c => phase'[d] = phase[d]
    BY <1>0, <1>1 DEF ClientTypeOK, Phases
  <2> QED BY <2>1, <2>2
<1>8. ClientTypeOK'
  BY <1>0, <1>1, <1>6, <1>7 DEF ClientTypeOK
<1>9. \A j \in 1..m : /\ pool[j] \in Callers \X Nat /\ pool[j][1] # c
                      /\ pool[j][2] \in DOMAIN request[pool[j][1]]
                      /\ request[pool[j][1]][pool[j][2]] = "queued"
  <2> SUFFICES ASSUME NEW j \in 1..m
               PROVE  /\ pool[j] \in Callers \X Nat /\ pool[j][1] # c
                      /\ pool[j][2] \in DOMAIN request[pool[j][1]]
                      /\ request[pool[j][1]][pool[j][2]] = "queued"
    OBVIOUS
  <2>1. /\ pool[j] \in Callers \X Nat
        /\ pool[j][2] \in DOMAIN request[pool[j][1]]
        /\ request[pool[j][1]][pool[j][2]] = "queued"
    BY <1>0, <1>6 DEF PoolInv
  <2>2. DOMAIN request[c] = {}
    BY <1>2
  <2> QED BY <2>1, <2>2
<1>10. PoolInv'
  <2>1. ASSUME NEW j \in 1..(m + n)
        PROVE  /\ pool'[j][2] \in DOMAIN request'[pool'[j][1]]
               /\ request'[pool'[j][1]][pool'[j][2]] = "queued"
    <3>1. CASE j <= m
      <4>1. j \in 1..m /\ pool'[j] = pool[j]
        BY <1>3, <1>6, <3>1
      <4>2. pool[j][1] \in Callers /\ pool[j][1] # c
        BY <1>9, <4>1
      <4> QED BY <1>7, <1>9, <4>1, <4>2
    <3>2. CASE ~ (j <= m)
      <4>1. j - m \in 1..n /\ pool'[j] = <<c, j - m>>
        BY <1>3, <1>6, <3>2
      <4>2. pool'[j][1] = c /\ pool'[j][2] = j - m
        BY <4>1
      <4> QED BY <1>4, <1>7, <4>1, <4>2
    <3> QED BY <3>1, <3>2
  <2>2. ASSUME NEW j \in 1..(m + n), NEW k \in 1..(m + n), pool'[j] = pool'[k]
        PROVE  j = k
    <3>0. j \in Nat /\ k \in Nat
      BY <1>3, <1>6
    <3>1. CASE j <= m /\ k <= m
      <4>1. j \in 1..m /\ k \in 1..m /\ pool[j] = pool[k]
        BY <1>3, <1>6, <2>2, <3>1
      <4> QED BY <1>0, <1>6, <4>1 DEF PoolInv
    <3>2. CASE j <= m /\ ~ (k <= m)
      <4>1. j \in 1..m /\ pool'[j] = pool[j] /\ pool'[k] = <<c, k - m>>
        BY <1>3, <1>6, <3>2
      <4>2. pool[j] = <<c, k - m>>
        BY <2>2, <4>1
      <4>3. pool[j][1] = c
        BY <4>2
      <4> QED BY <1>9, <4>1, <4>3
    <3>3. CASE ~ (j <= m) /\ k <= m
      <4>1. k \in 1..m /\ pool'[k] = pool[k] /\ pool'[j] = <<c, j - m>>
        BY <1>3, <1>6, <3>3
      <4>2. pool[k] = <<c, j - m>>
        BY <2>2, <4>1
      <4>3. pool[k][1] = c
        BY <4>2
      <4> QED BY <1>9, <4>1, <4>3
    <3>4. CASE ~ (j <= m) /\ ~ (k <= m)
      <4>1. <<c, j - m>> = <<c, k - m>>
        BY <1>6, <2>2, <3>4
      <4>2. j - m = k - m
        BY <4>1
      <4> QED BY <1>6, <3>0, <4>2
    <3> QED BY <3>1, <3>2, <3>3, <3>4
  <2> QED BY <2>1, <2>2, <1>6 DEF PoolInv
<1>11. CallerInv(c)'
  <2>1. PhaseInv(c)'
    BY <1>0, <1>1, <1>2, <1>7 DEF CallerInv, PhaseInv
  <2>2. StreamInv(c)'
    BY <1>1, <1>2 DEF StreamInv
  <2>3. BatchInv(c)'
    BY <1>0, <1>1, <1>7 DEF CallerInv, BatchInv
  <2> QED BY <2>1, <2>2, <2>3 DEF CallerInv
<1>12. ASSUME NEW d \in Callers, d # c
       PROVE  CallerInv(d)'
  <2>1. CallerInv(d)
    BY DEF ClientInv
  <2> QED BY <1>1, <1>7, <1>12, <2>1, Rests
<1> QED BY <1>8, <1>10, <1>11, <1>12 DEF ClientInv


-----------------------------------------------------------------------------
(* At the start nobody has asked for anything.                              *)
LEMMA ClientStarts ==
    ASSUME Init
    PROVE  ClientInv
<1>1. ClientTypeOK
  <2>1. op \in [Callers -> Ops]
    BY DEF Init
  <2>2. phase \in [Callers -> Phases] /\ outcome \in [Callers -> Outcomes]
    BY DEF Init, Phases, Outcomes
  <2>3. /\ got \in [Callers -> Seq(Nat \cup Seq(Nat))] /\ buffer \in [Callers -> Seq(Chars)]
        /\ request \in [Callers -> Seq(Requests)] /\ pool \in Seq(Callers \X Nat)
    BY DEF Init
  <2>4. body \in [Callers -> AnyBody] /\ received \in [Callers -> Nat]
    BY DEF Init, AnyBody
  <2> QED BY <2>1, <2>2, <2>3, <2>4 DEF ClientTypeOK
<1>2. PoolInv
  BY DEF Init, PoolInv
<1>3. ASSUME NEW c \in Callers
      PROVE  CallerInv(c)
  <2>1. /\ phase[c] = "start" /\ got[c] = <<>> /\ outcome[c] = "none" /\ body[c] = NoBody
        /\ received[c] = 0 /\ buffer[c] = <<>> /\ request[c] = <<>>
    BY DEF Init
  <2>2. PhaseInv(c)
    <3>1. got[c] \in Seq(Nat)
      BY <2>1
    <3> QED BY <2>1, <3>1 DEF PhaseInv
  <2>3. StreamInv(c)
    <3>1. op[c].provider \in Providers /\ body[c] \in AnyBody
      BY <1>1, CallerTypes
    <3>2. Faithful(<<>>, "none", body[c], op[c].provider)
      BY <3>1, WorthOfLines DEF Faithful
    <3> QED BY <2>1, <3>2 DEF StreamInv
  <2>4. BatchInv(c)
    <3>1. op[c].n \in Nat
      BY <1>1, CallerTypes
    <3> QED BY <2>1, <3>1 DEF BatchInv
  <2> QED BY <2>2, <2>3, <2>4 DEF CallerInv
<1> QED BY <1>1, <1>2, <1>3 DEF ClientInv

(* Every step of the callers and of the pool keeps the invariant.           *)
LEMMA ClientKeeps ==
    ASSUME ClientInv, [Next]_vars
    PROVE  ClientInv'
<1>1. CASE Take
  BY <1>1, TakeKeeps
<1>2. CASE Answer
  BY <1>2, AnswerKeeps
<1>3. ASSUME NEW c \in Callers, Step(c)
      PROVE  ClientInv'
  <2>1. CASE Begin(c) \/ Generate(c)
    BY <2>1, BeginKeeps, GenerateKeeps
  <2>2. CASE StreamChunkObject(c) \/ Receive(c) \/ EmitLine(c) \/ EndOfStream(c) \/ LoseConnection(c)
    BY <2>2, StreamChunkObjectKeeps, ReceiveKeeps, EmitLineKeeps, EndOfStreamKeeps, LoseConnectionKeeps
  <2>3. CASE EmbedDocuments(c) \/ EmbedOneByOne(c) \/ ExecuteBatch(c)
    BY <2>3, EmbedDocumentsKeeps, EmbedOneByOneKeeps, ExecuteBatchKeeps
  <2>4. CASE WaitFor(c) \/ Collect(c) \/ Unwind(c)
    BY <2>4, WaitForKeeps, CollectKeeps, UnwindKeeps
  <2> QED BY <1>3, <2>1, <2>2, <2>3, <2>4 DEF Step
<1>4. CASE UNCHANGED vars
  <2>1. UNCHANGED <<op, phase, got, outcome, body, received, buffer, request, pool>>
    BY <1>4 DEF vars
  <2>2. ClientTypeOK' /\ PoolInv'
    BY <2>1 DEF ClientInv, ClientTypeOK, PoolInv
  <2>3. ASSUME NEW c \in Callers PROVE CallerInv(c)'
    BY <2>1, Rests DEF ClientInv
  <2> QED BY <2>2, <2>3 DEF ClientInv
<1> QED BY <1>1, <1>2, <1>3, <1>4 DEF Next

(* The inductive invariant of the model clients: how far a stream is read,  *)
(* what its buffer holds, which requests are in the pool.                   *)
THEOREM ClientInvariant == Spec => []ClientInv
<1>1. Init => ClientInv
  BY ClientStarts
<1>2. ClientInv /\ [Next]_vars => ClientInv'
  BY ClientKeeps
<1> QED BY <1>1, <1>2, PTL DEF Spec

(* Whatever chunks the network cuts an answer into, a subscriber of         *)
(* StreamChunkObject gets its lines in order, each once and whole, and all  *)
(* of them up to the sentinel when the stream completes.                    *)
THEOREM StreamsAreFaithful == Spec => []StreamIsFaithful
<1>1. ClientInv => StreamIsFaithful
  <2> SUFFICES ASSUME ClientInv, NEW c \in Callers, op[c].kind = "stream"
               PROVE  /\ IsPrefix(got[c], Worth(body[c], op[c].provider))
                      /\ outcome[c] = "completed" => got[c] = Worth(body[c], op[c].provider)
    BY DEF StreamIsFaithful
  <2> DEFINE g == got[c]
             worth == Worth(body[c], op[c].provider)
  <2>1. g \in Seq(Nat) /\ Faithful(g, outcome[c], body[c], op[c].provider)
    BY DEF ClientInv, CallerInv, PhaseInv, StreamInv
  <2>2. worth \in Seq(Nat)
    BY CallerTypes, WorthOfLines DEF ClientInv
  <2>3. /\ Len(g) <= Len(worth) /\ \A i \in 1..Len(g) : g[i] = worth[i]
        /\ outcome[c] = "completed" => Len(g) = Len(worth)
    BY <2>1 DEF Faithful
  <2> HIDE DEF g, worth
  <2>4. IsPrefix(g, worth)
    <3>0. Len(g) \in Nat /\ 1 \in Nat
      BY <2>1
    <3>1. /\ SubSeq(g, 1, Len(g)) \in Seq(Nat) /\ Len(SubSeq(g, 1, Len(g))) = Len(g)
          /\ \A i \in 1..Len(g) : SubSeq(g, 1, Len(g))[i] = g[i]
      BY <2>1
    <3>2. /\ SubSeq(worth, 1, Len(g)) \in Seq(Nat) /\ Len(SubSeq(worth, 1, Len(g))) = Len(g)
          /\ \A i \in 1..Len(g) : SubSeq(worth, 1, Len(g))[i] = worth[i]
      BY <2>1, <2>2, <2>3, <3>0
    <3>3. SubSeq(g, 1, Len(g)) = SubSeq(worth, 1, Len(g))
      <4> DEFINE p == SubSeq(g, 1, Len(g))
                 r == SubSeq(worth, 1, Len(g))
                 n == Len(g)
      <4>1. /\ p \in Seq(Nat) /\ r \in Seq(Nat) /\ Len(p) = n /\ Len(r) = n
            /\ \A i \in 1..n : p[i] = r[i]
        BY <3>1, <3>2, <2>3
      <4> HIDE DEF p, r, n
      <4>2. p \in [1..n -> Nat] /\ r \in [1..n -> Nat]
        BY <4>1
      <4>3. p = r
        BY <4>1, <4>2
      <4> QED BY <4>3 DEF p, r
    <3> QED BY <2>3, <3>3 DEF IsPrefix
  <2>5. outcome[c] = "completed" => g = worth
    BY <2>1, <2>2, <2>3
  <2> QED BY <2>4, <2>5 DEF g, worth
<1> QED BY <1>1, ClientInvariant, PTL

(* Whenever EmbedDocuments returns or throws, after a timeout too, none of  *)
(* its requests is queued or under way, and the i-th vector it returns      *)
(* belongs to the i-th text.                                                *)
THEOREM BatchesQuiesce == Spec => []BatchQuiesces
<1>1. ClientInv => BatchQuiesces
  <2> SUFFICES ASSUME ClientInv, NEW c \in Callers, phase[c] = "returned", op[c].kind = "embed"
               PROVE  /\ \A i \in DOMAIN request[c] : Ready(c, i)
                      /\ \A j \in DOMAIN pool : pool[j][1] # c
                      /\ \A i \in DOMAIN got[c] : got[c][i] \in {0, i}
                      /\ outcome[c] = "completed" /\ op[c].provider = "ollama" => Len(got[c]) = op[c].n
    BY DEF BatchQuiesces
  <2>1. BatchInv(c) /\ PoolInv
    BY DEF ClientInv, CallerInv
  <2>2. \A i \in DOMAIN request[c] : Ready(c, i)
    BY <2>1 DEF BatchInv, AllReady
  <2>3. \A j \in DOMAIN pool : pool[j][1] # c
    <3> SUFFICES ASSUME NEW j \in DOMAIN pool, pool[j][1] = c PROVE FALSE
      OBVIOUS
    <3>1. pool[j][2] \in DOMAIN request[c] /\ request[c][pool[j][2]] = "queued"
      BY <2>1 DEF PoolInv
    <3> QED BY <2>2, <3>1 DEF Ready
  <2>4. \A i \in DOMAIN got[c] : got[c][i] \in {0, i}
    BY <2>1 DEF BatchInv
  <2>5. outcome[c] = "completed" /\ op[c].provider = "ollama" => Len(got[c]) = op[c].n
    BY <2>1 DEF BatchInv
  <2> QED BY <2>2, <2>3, <2>4, <2>5
<1> QED BY <1>1, ClientInvariant, PTL


(***************************************************************************)
(* The file vault.                                                          *)
(***************************************************************************)

Inside == {"look for data", "look for json", "read", "fetch", "clean data", "clean json",
           "fetch again", "move", "open json", "write json"}
Outside == {"idle", "look up", "insert", "lock"}
Removing == {"lock for removal", "remove json", "erase"}

(* Where the two files are being replaced.                                  *)
Replacing == {"fetch", "clean data", "clean json", "fetch again", "move", "open json", "write json"}

VaultTypeOK ==
    /\ checked \in BOOLEAN /\ registered \in BOOLEAN
    /\ data \in {"none", "good", "wrong", "part"}
    /\ json \in {"none", "empty", "whole"}
    /\ resourceMutex \in VaultThreads \cup {NoThread}
    /\ writeMutex \in VaultThreads \cup {NoThread}
    /\ at \in [VaultThreads -> Outside \cup Inside \cup Removing]
    /\ temp \in [VaultThreads -> {"none", "good", "wrong", "part"}]
    /\ entry \in [VaultThreads -> BOOLEAN]
    /\ deletes \in 0..MaxDeletes /\ vaultCrashes \in 0..MaxVaultCrashes
    /\ mutexKnown \in BOOLEAN /\ own \subseteq VaultThreads /\ insertRaced \in BOOLEAN

(* The shared mutex of the resource is held exactly between the first look  *)
(* and the end of GetResource, by everyone without a mutex of its own; and  *)
(* only a racing insertion gives such a one.                                *)
MutexInv ==
    /\ ~insertRaced => own = {}
    /\ \A t \in VaultThreads : (at[t] \in Inside /\ t \notin own) <=> resourceMutex = t

(* Content that is on its way into the vault has passed the checksum, and   *)
(* was not cut off; only a wrong checksum leads to a second attempt.        *)
ContentInv ==
    /\ checked => data \in {"none", "good"}
    /\ data # "part"
    /\ \A t \in VaultThreads :
          /\ at[t] = "move" => temp[t] # "part" /\ (checked => temp[t] = "good") /\ temp[t] # "none"
          /\ at[t] \in {"clean data", "clean json", "fetch again"} => checked

Calm == deletes = 0 /\ ~insertRaced

(* While nobody deletes and the insertions did not race, the files are      *)
(* replaced only if no entry is out, and each place of GetResource knows    *)
(* which of them exist.                                                     *)
EntryInv ==
    /\ deletes = 0 => \A t \in VaultThreads : at[t] \notin Removing
    /\ Calm =>
        /\ \A t \in VaultThreads :
              /\ entry[t] => data # "none" /\ json = "whole"
              /\ at[t] \in {"look for json", "read", "open json", "write json"} => data # "none"
              /\ at[t] = "write json" => json # "none"
        /\ (\E t \in VaultThreads : at[t] \in Replacing) => \A u \in VaultThreads : ~entry[u]

VaultInv == VaultTypeOK /\ MutexInv /\ ContentInv /\ EntryInv

-----------------------------------------------------------------------------
(* Going to a place changes the place of this thread only.                  *)
LEMMA Goes ==
    ASSUME VaultTypeOK, NEW t \in VaultThreads,
           NEW p \in Outside \cup Inside \cup Removing, Go(t, p)
    PROVE  /\ at' \in [VaultThreads -> Outside \cup Inside \cup Removing]
           /\ at'[t] = p
           /\ \A u \in VaultThreads : u # t => at'[u] = at[u]
  BY DEF VaultTypeOK, Go

(* Leaving GetResource gives the mutex back and says whether there is an    *)
(* entry.                                                                   *)
LEMMA Leaves ==
    ASSUME VaultTypeOK, NEW t \in VaultThreads, NEW b \in BOOLEAN, Leave(t, b)
    PROVE  /\ at' \in [VaultThreads -> Outside \cup Inside \cup Removing]
           /\ at'[t] = "idle" /\ resourceMutex' = IF t \in own THEN resourceMutex ELSE NoThread
           /\ \A u \in VaultThreads : u # t => at'[u] = at[u] /\ entry'[u] = entry[u]
           /\ entry' \in [VaultThreads -> BOOLEAN] /\ entry'[t] = b
<1>1. /\ Go(t, "idle") /\ resourceMutex' = IF t \in own THEN resourceMutex ELSE NoThread
      /\ entry' = [entry EXCEPT ![t] = b]
  BY DEF Leave
<1>2. /\ entry' \in [VaultThreads -> BOOLEAN] /\ entry'[t] = b
      /\ \A u \in VaultThreads : u # t => entry'[u] = entry[u]
  BY <1>1 DEF VaultTypeOK
<1>3. "idle" \in Outside
  BY DEF Outside
<1> QED BY <1>1, <1>2, <1>3, Goes

(* Without a race the thread inside GetResource is alone there.             *)
LEMMA Alone ==
    ASSUME VaultTypeOK, MutexInv, ~insertRaced, NEW t \in VaultThreads, at[t] \in Inside
    PROVE  \A u \in VaultThreads : u # t => at[u] \notin Inside
  BY DEF MutexInv

(* A step inside GetResource that keeps the mutex and the entries.          *)
LEMMA InsideStep ==
    ASSUME VaultInv, NEW t \in VaultThreads, at[t] \in Inside, NEW p \in Inside, Go(t, p),
           UNCHANGED <<checked, registered, resourceMutex, writeMutex, entry, vaultRest>>,
           data' \in {"none", "good", "wrong"}, json' \in {"none", "empty", "whole"},
           temp' \in [VaultThreads -> {"none", "good", "wrong", "part"}],
           \A u \in VaultThreads : u # t => temp'[u] = temp[u],
           checked => data' \in {"none", "good"},
           p = "move" => temp'[t] # "part" /\ (checked => temp'[t] = "good") /\ temp'[t] # "none",
           p \in {"clean data", "clean json", "fetch again"} => checked,
           Calm => /\ p \in {"look for json", "read", "open json", "write json"} => data' # "none"
                   /\ p = "write json" => json' # "none"
                   /\ p \in Replacing => \A u \in VaultThreads : ~entry[u]
                   /\ files' = files \/ \A u \in VaultThreads : ~entry[u]
    PROVE  VaultInv'
<1> USE DEF VaultInv
<1>0. UNCHANGED <<deletes, vaultCrashes, mutexKnown, own, insertRaced>>
  BY DEF vaultRest, mutexMap
<1>1. /\ at' \in [VaultThreads -> Outside \cup Inside \cup Removing]
      /\ at'[t] = p
      /\ \A u \in VaultThreads : u # t => at'[u] = at[u]
  BY Goes
<1>2. VaultTypeOK'
  BY <1>0, <1>1 DEF VaultTypeOK
<1>3. MutexInv'
  BY <1>0, <1>1 DEF MutexInv
<1>4. ContentInv'
  BY <1>1 DEF ContentInv
<1>5. Inside \cap Removing = {} /\ Replacing \subseteq Inside
  BY DEF Inside, Removing, Replacing
<1>6. deletes' = 0 => \A u \in VaultThreads : at'[u] \notin Removing
  BY <1>0, <1>1, <1>5 DEF EntryInv
<1>7. EntryInv'
  <2> SUFFICES ASSUME Calm
               PROVE  /\ \A u \in VaultThreads :
                            /\ entry'[u] => data' # "none" /\ json' = "whole"
                            /\ at'[u] \in {"look for json", "read", "open json", "write json"} => data' # "none"
                            /\ at'[u] = "write json" => json' # "none"
                      /\ (\E u \in VaultThreads : at'[u] \in Replacing) => \A u \in VaultThreads : ~entry'[u]
    BY <1>0, <1>6 DEF EntryInv, Calm
  <2>1. \A u \in VaultThreads : u # t => at[u] \notin Inside
    BY Alone DEF Calm
  <2>3. \A u \in VaultThreads : entry'[u] => data' # "none" /\ json' = "whole"
    BY DEF EntryInv, files
  <2>4. \A u \in VaultThreads : u # t => at'[u] \notin {"look for json", "read", "open json", "write json"}
    BY <1>1, <2>1 DEF Inside
  <2>5. (\E u \in VaultThreads : at'[u] \in Replacing) => p \in Replacing
    BY <1>1, <1>5, <2>1
  <2> QED BY <1>1, <2>3, <2>4, <2>5
<1> QED BY <1>2, <1>3, <1>4, <1>7

(* A step out of GetResource.                                               *)
LEMMA LeaveStep ==
    ASSUME VaultInv, NEW t \in VaultThreads, at[t] \in Inside, NEW b \in BOOLEAN, Leave(t, b),
           UNCHANGED <<checked, registered, data, writeMutex, vaultRest>>,
           json' \in {"none", "empty", "whole"},
           temp' \in [VaultThreads -> {"none", "good", "wrong", "part"}],
           \A u \in VaultThreads : u # t => temp'[u] = temp[u],
           Calm => /\ b => data # "none" /\ json' = "whole"
                   /\ json' = json \/ \A u \in VaultThreads : ~entry[u]
    PROVE  VaultInv'
<1> USE DEF VaultInv
<1>0. UNCHANGED <<deletes, vaultCrashes, mutexKnown, own, insertRaced>>
  BY DEF vaultRest, mutexMap
<1>1. /\ at' \in [VaultThreads -> Outside \cup Inside \cup Removing]
      /\ at'[t] = "idle" /\ resourceMutex' = IF t \in own THEN resourceMutex ELSE NoThread
      /\ \A u \in VaultThreads : u # t => at'[u] = at[u] /\ entry'[u] = entry[u]
      /\ entry' \in [VaultThreads -> BOOLEAN] /\ entry'[t] = b
  BY Leaves
<1>2. "idle" \notin Inside /\ "idle" \notin Removing /\ Replacing \subseteq Inside
  BY DEF Inside, Removing, Replacing
<1>3. VaultTypeOK'
  BY <1>0, <1>1 DEF VaultTypeOK
<1>4. MutexInv'
  <2>1. CASE t \in own
    BY <1>0, <1>1, <1>2, <2>1 DEF MutexInv
  <2>2. CASE t \notin own
    <3>1. resourceMutex = t /\ resourceMutex' = NoThread
      BY <1>1, <2>2 DEF MutexInv
    <3>2. \A u \in VaultThreads : ~(at'[u] \in Inside /\ u \notin own)
      BY <1>1, <1>2, <3>1 DEF MutexInv
    <3> QED BY <1>0, <3>1, <3>2, FileVaultAssumption DEF MutexInv
  <2> QED BY <2>1, <2>2
<1>5. ContentInv'
  BY <1>1 DEF ContentInv
<1>6. deletes' = 0 => \A u \in VaultThreads : at'[u] \notin Removing
  BY <1>0, <1>1, <1>2 DEF EntryInv
<1>7. EntryInv'
  <2> SUFFICES ASSUME Calm
               PROVE  /\ \A u \in VaultThreads :
                            /\ entry'[u] => data' # "none" /\ json' = "whole"
                            /\ at'[u] \notin {"look for json", "read", "open json", "write json"}
                      /\ ~ \E u \in VaultThreads : at'[u] \in Replacing
    BY <1>0, <1>6 DEF EntryInv, Calm
  <2>2. \A u \in VaultThreads : at'[u] \notin Inside
    <3>1. \A u \in VaultThreads : u # t => at[u] \notin Inside
      BY Alone DEF Calm
    <3> QED BY <1>1, <1>2, <3>1
  <2>3. \A u \in VaultThreads : u # t /\ entry[u] => data # "none" /\ json' = "whole"
    BY DEF EntryInv
  <2>4. \A u \in VaultThreads : entry'[u] => data' # "none" /\ json' = "whole"
    BY <1>1, <2>3
  <2> QED BY <1>2, <2>2, <2>4 DEF Inside
<1> QED BY <1>3, <1>4, <1>5, <1>7

(* GetResource before the mutex is taken, and AddResource.                  *)
LEMMA OutsideStep ==
    ASSUME VaultInv, NEW t \in VaultThreads,
           \/ AddResource(t) \/ GetResource(t) \/ LookUpMutex(t) \/ InsertMutex(t) \/ LockResource(t)
    PROVE  VaultInv'
<1> USE DEF VaultInv, files, vaultRest, mutexMap
<1>0. /\ "idle" \notin Inside /\ "lock" \notin Inside /\ "look up" \notin Inside /\ "insert" \notin Inside
      /\ "look for data" \in Inside /\ NoThread \notin VaultThreads
      /\ "look up" \in Outside /\ "insert" \in Outside /\ "lock" \in Outside /\ "idle" \in Outside
  BY FileVaultAssumption DEF Inside, Outside
<1>1. CASE AddResource(t)
  <2>1. /\ registered' = TRUE
        /\ UNCHANGED <<checked, data, json, resourceMutex, writeMutex, at, temp, entry, deletes, vaultCrashes,
                       mutexKnown, own, insertRaced>>
    BY <1>1 DEF AddResource
  <2>2. VaultTypeOK'
    BY <2>1 DEF VaultTypeOK
  <2> QED BY <2>1, <2>2 DEF MutexInv, ContentInv, EntryInv, Calm
<1>2. ASSUME NEW p \in {"look up", "insert", "lock"}, Go(t, p), at[t] \in Outside,
             entry' \in [VaultThreads -> BOOLEAN], \A u \in VaultThreads : entry'[u] => entry[u],
             own' \subseteq VaultThreads, \A u \in VaultThreads : u # t => (u \in own' <=> u \in own),
             ~insertRaced' => ~insertRaced /\ own' = {},
             mutexKnown' \in BOOLEAN, insertRaced' \in BOOLEAN,
             UNCHANGED <<checked, registered, data, json, resourceMutex, writeMutex, temp, deletes, vaultCrashes>>
      PROVE  VaultInv'
  <2>1. /\ at' \in [VaultThreads -> Outside \cup Inside \cup Removing] /\ at'[t] = p
        /\ \A u \in VaultThreads : u # t => at'[u] = at[u]
    BY <1>0, <1>2, Goes
  <2>2. at[t] \notin Inside
    BY <1>2 DEF Outside, Inside
  <2>3. VaultTypeOK'
    BY <1>2, <2>1 DEF VaultTypeOK
  <2>4. MutexInv'
    BY <1>0, <1>2, <2>1, <2>2 DEF MutexInv
  <2>5. ContentInv'
    BY <1>2, <2>1 DEF ContentInv
  <2>6. EntryInv'
    BY <1>2, <2>1 DEF EntryInv, Calm, Removing, Replacing
  <2> QED BY <2>3, <2>4, <2>5, <2>6
<1>3. CASE GetResource(t)
  <2>1. /\ at[t] = "idle" /\ Go(t, "look up") /\ entry' = [entry EXCEPT ![t] = FALSE]
        /\ UNCHANGED <<checked, registered, data, json, resourceMutex, writeMutex, temp, deletes, vaultCrashes,
                       mutexKnown, own, insertRaced>>
    BY <1>3 DEF GetResource
  <2>2. entry' \in [VaultThreads -> BOOLEAN] /\ \A u \in VaultThreads : entry'[u] => entry[u]
    BY <2>1 DEF VaultTypeOK
  <2>3. /\ own' \subseteq VaultThreads /\ (~insertRaced' => ~insertRaced /\ own' = {})
        /\ mutexKnown' \in BOOLEAN /\ insertRaced' \in BOOLEAN
    BY <2>1 DEF VaultTypeOK, MutexInv
  <2> QED BY <1>0, <1>2, <2>1, <2>2, <2>3
<1>4. CASE LookUpMutex(t) \/ InsertMutex(t)
  <2>0. /\ UNCHANGED <<checked, registered, data, json, resourceMutex, writeMutex, temp, entry, deletes, vaultCrashes>>
        /\ entry \in [VaultThreads -> BOOLEAN] /\ own \subseteq VaultThreads
        /\ mutexKnown \in BOOLEAN /\ insertRaced \in BOOLEAN
    BY <1>4 DEF LookUpMutex, InsertMutex, VaultTypeOK
  <2>1. CASE LookUpMutex(t)
    <3>1. PICK p \in {"insert", "lock"} :
             /\ Go(t, p) /\ at[t] = "look up" /\ mutexKnown' = mutexKnown /\ own' \in {own, own \ {t}}
             /\ \/ insertRaced' = insertRaced
                \/ insertRaced' = (insertRaced \/ Inserting # {})
      BY <2>1 DEF LookUpMutex
    <3>2. insertRaced' \in BOOLEAN /\ (~insertRaced' => ~insertRaced)
      <4>1. insertRaced \in BOOLEAN /\ (insertRaced' = insertRaced \/ insertRaced' = (insertRaced \/ Inserting # {}))
        BY <2>0, <3>1, Zenon
      <4> HIDE DEF VaultInv
      <4> QED BY <4>1, Zenon
    <3>3. own' \subseteq VaultThreads /\ (~insertRaced' => own' = {})
      BY <2>0, <3>1, <3>2 DEF MutexInv
    <3> QED BY <1>0, <1>2, <2>0, <3>1, <3>2, <3>3
  <2>2. CASE InsertMutex(t)
    <3>1. /\ Go(t, "lock") /\ at[t] = "insert" /\ mutexKnown' = TRUE /\ insertRaced' = insertRaced
          /\ own' \in {own \ {t}} \cup (IF insertRaced THEN {own \cup {t}} ELSE {})
      BY <2>2 DEF InsertMutex
    <3>2. own' \in {own \ {t}, own \cup {t}} /\ (~insertRaced => own' = own \ {t})
      BY <2>0, <3>1
    <3>3. own' \subseteq VaultThreads /\ (~insertRaced' => own' = {})
      BY <2>0, <3>1, <3>2 DEF MutexInv
    <3> QED BY <1>0, <1>2, <2>0, <3>1, <3>2, <3>3
  <2> QED BY <1>4, <2>1, <2>2
<1>5. CASE LockResource(t)
  <2>1. PICK p \in {"idle", "look for data"} :
           /\ Go(t, p) /\ resourceMutex' = IF p = "idle" \/ t \in own THEN resourceMutex ELSE t
           /\ at[t] = "lock" /\ (t \in own \/ resourceMutex = NoThread)
           /\ UNCHANGED <<checked, registered, data, json, writeMutex, temp, entry, deletes, vaultCrashes,
                          mutexKnown, own, insertRaced>>
    BY <1>5 DEF LockResource
  <2>2. /\ at' \in [VaultThreads -> Outside \cup Inside \cup Removing] /\ at'[t] = p
        /\ \A u \in VaultThreads : u # t => at'[u] = at[u]
    BY <1>0, <2>1, Goes
  <2>3. VaultTypeOK'
    BY <2>1, <2>2 DEF VaultTypeOK
  <2>4. MutexInv'
    BY <1>0, <2>1, <2>2 DEF MutexInv
  <2>5. ContentInv'
    BY <2>1, <2>2 DEF ContentInv
  <2>6. EntryInv'
    BY <2>1, <2>2 DEF EntryInv, Calm, Removing, Replacing
  <2> QED BY <2>3, <2>4, <2>5, <2>6
<1> QED BY <1>1, <1>3, <1>4, <1>5

(* Looking for the files and downloading them.                              *)
LEMMA FetchStep ==
    ASSUME VaultInv, NEW t \in VaultThreads,
           \/ LookForData(t) \/ LookForJson(t) \/ Fetch(t) \/ CleanData(t) \/ CleanJson(t) \/ FetchAgain(t)
    PROVE  VaultInv'
<1> USE DEF VaultInv, files
<1>0. /\ data \in {"none", "good", "wrong"} /\ json \in {"none", "empty", "whole"}
      /\ checked => data \in {"none", "good"}
      /\ temp \in [VaultThreads -> {"none", "good", "wrong", "part"}]
  BY DEF VaultTypeOK, ContentInv
<1>1. CASE LookForData(t)
  <2>1. PICK p \in {"fetch", "look for json"} :
           /\ Go(t, p) /\ at[t] = "look for data" /\ (p = "fetch" <=> data = "none")
           /\ UNCHANGED <<checked, registered, data, json, resourceMutex, writeMutex, temp, entry, vaultRest>>
    BY <1>1 DEF LookForData
  <2>2. Calm /\ p \in Replacing => \A u \in VaultThreads : ~entry[u]
    BY <2>1 DEF EntryInv, Replacing
  <2>3. at[t] \in Inside /\ p \in Inside
    BY <2>1 DEF Inside
  <2> QED BY <1>0, <2>1, <2>2, <2>3, InsideStep
<1>2. CASE LookForJson(t)
  <2>1. PICK p \in {"fetch", "read"} :
           /\ Go(t, p) /\ at[t] = "look for json" /\ (p = "fetch" <=> json = "none")
           /\ UNCHANGED <<checked, registered, data, json, resourceMutex, writeMutex, temp, entry, vaultRest>>
    BY <1>2 DEF LookForJson
  <2>2. Calm => /\ data # "none"
                /\ p \in Replacing => \A u \in VaultThreads : ~entry[u]
    BY <2>1 DEF EntryInv, Replacing
  <2>3. at[t] \in Inside /\ p \in Inside
    BY <2>1 DEF Inside
  <2> QED BY <1>0, <2>1, <2>2, <2>3, InsideStep
<1>3. CASE Fetch(t)
  <2>1. PICK content \in Write :
           /\ at[t] = "fetch"
           /\ temp' = [temp EXCEPT ![t] = IF Throws(content) THEN "none" ELSE content]
           /\ IF Throws(content) THEN Leave(t, FALSE)
              ELSE /\ Go(t, IF Checksum(content) THEN "move" ELSE "clean data")
                   /\ UNCHANGED <<resourceMutex, entry>>
           /\ UNCHANGED <<checked, registered, data, json, writeMutex, vaultRest>>
    BY <1>3 DEF Fetch
  <2>2. /\ temp' \in [VaultThreads -> {"none", "good", "wrong", "part"}]
        /\ ~ Throws(content) => temp'[t] = content
        /\ \A u \in VaultThreads : u # t => temp'[u] = temp[u]
    BY <1>0, <2>1 DEF Write
  <2>3. at[t] \in Inside /\ "move" \in Inside /\ "clean data" \in Inside
    BY <2>1 DEF Inside
  <2>4. Calm => \A u \in VaultThreads : ~entry[u]
    BY <2>1 DEF EntryInv, Replacing
  <2>5. CASE Throws(content)
    BY <1>0, <2>1, <2>2, <2>3, <2>5, LeaveStep
  <2>6. CASE ~Throws(content) /\ Checksum(content)
    <3>1. content # "part" /\ content # "none" /\ (checked => content = "good")
      BY <2>1, <2>6 DEF Throws, Checksum, Write
    <3> QED BY <1>0, <2>1, <2>2, <2>3, <2>4, <2>6, <3>1, InsideStep
  <2>7. CASE ~Throws(content) /\ ~Checksum(content)
    <3>1. checked
      BY <2>7 DEF Checksum
    <3> QED BY <1>0, <2>1, <2>2, <2>3, <2>4, <2>7, <3>1, InsideStep
  <2> QED BY <2>5, <2>6, <2>7
<1>4. CASE CleanData(t) \/ CleanJson(t)
  <2>1. PICK p \in {"clean json", "fetch again"} :
           /\ Go(t, p) /\ at[t] \in {"clean data", "clean json"}
           /\ data' \in {data, "none"} /\ json' \in {json, "none"}
           /\ UNCHANGED <<checked, registered, resourceMutex, writeMutex, temp, entry, vaultRest>>
    BY <1>4 DEF CleanData, CleanJson
  <2>2. at[t] \in Inside /\ p \in Inside
    BY <2>1 DEF Inside
  <2>3. checked /\ (Calm => \A u \in VaultThreads : ~entry[u])
    BY <2>1 DEF EntryInv, ContentInv, Replacing
  <2> QED BY <1>0, <2>1, <2>2, <2>3, InsideStep
<1>5. CASE FetchAgain(t)
  <2>1. PICK content \in Write :
           /\ at[t] = "fetch again"
           /\ temp' = [temp EXCEPT ![t] = IF Checksum(content) THEN content ELSE "none"]
           /\ IF Checksum(content) THEN Go(t, "move") /\ UNCHANGED <<resourceMutex, entry>>
              ELSE Leave(t, FALSE)
           /\ UNCHANGED <<checked, registered, data, json, writeMutex, vaultRest>>
    BY <1>5 DEF FetchAgain
  <2>2. /\ temp' \in [VaultThreads -> {"none", "good", "wrong", "part"}]
        /\ Checksum(content) => temp'[t] = content
        /\ \A u \in VaultThreads : u # t => temp'[u] = temp[u]
    BY <1>0, <2>1 DEF Write
  <2>3. at[t] \in Inside /\ "move" \in Inside
    BY <2>1 DEF Inside
  <2>4. checked /\ (Calm => \A u \in VaultThreads : ~entry[u])
    BY <2>1 DEF EntryInv, ContentInv, Replacing
  <2>5. CASE ~Checksum(content)
    BY <1>0, <2>1, <2>2, <2>3, <2>5, LeaveStep
  <2>6. CASE Checksum(content)
    <3>1. content = "good"
      BY <2>4, <2>6 DEF Checksum
    <3> QED BY <1>0, <2>1, <2>2, <2>3, <2>4, <2>6, <3>1, InsideStep
  <2> QED BY <2>5, <2>6
<1> QED BY <1>1, <1>2, <1>3, <1>4, <1>5

(* Moving the data into the vault, writing its description, and reading it. *)
LEMMA StoreStep ==
    ASSUME VaultInv, NEW t \in VaultThreads,
           MoveToVault(t) \/ OpenJson(t) \/ WriteDataJson(t) \/ BuildEntryFromJson(t)
    PROVE  VaultInv'
<1> USE DEF VaultInv, files
<1>0. /\ data \in {"none", "good", "wrong"} /\ json \in {"none", "empty", "whole"}
      /\ checked => data \in {"none", "good"}
      /\ temp \in [VaultThreads -> {"none", "good", "wrong", "part"}]
  BY DEF VaultTypeOK, ContentInv
<1>1. CASE MoveToVault(t)
  <2>1. /\ Go(t, "open json") /\ at[t] = "move" /\ data' = temp[t] /\ json' = json
        /\ temp' = [temp EXCEPT ![t] = "none"]
        /\ UNCHANGED <<checked, registered, resourceMutex, writeMutex, entry, vaultRest>>
    BY <1>1 DEF MoveToVault
  <2>2. at[t] \in Inside /\ "open json" \in Inside
    BY <2>1 DEF Inside
  <2>3. /\ temp[t] \in {"good", "wrong"} /\ (checked => temp[t] = "good")
        /\ Calm => \A u \in VaultThreads : ~entry[u]
    BY <1>0, <2>1 DEF EntryInv, ContentInv, Replacing
  <2> QED BY <1>0, <2>1, <2>2, <2>3, InsideStep
<1>2. CASE OpenJson(t)
  <2>1. /\ Go(t, "write json") /\ at[t] = "open json" /\ data' = data /\ json' = "empty"
        /\ UNCHANGED <<checked, registered, resourceMutex, writeMutex, temp, entry, vaultRest>>
    BY <1>2 DEF OpenJson
  <2>2. at[t] \in Inside /\ "write json" \in Inside
    BY <2>1 DEF Inside
  <2>3. Calm => data # "none" /\ \A u \in VaultThreads : ~entry[u]
    BY <2>1 DEF EntryInv, Replacing
  <2> QED BY <1>0, <2>1, <2>2, <2>3, InsideStep
<1>3. CASE WriteDataJson(t)
  <2>1. /\ Leave(t, TRUE) /\ at[t] = "write json" /\ json' = IF json = "none" THEN "none" ELSE "whole"
        /\ UNCHANGED <<checked, registered, data, writeMutex, temp, vaultRest>>
    BY <1>3 DEF WriteDataJson
  <2>2. at[t] \in Inside
    BY <2>1 DEF Inside
  <2>3. Calm => data # "none" /\ json # "none" /\ \A u \in VaultThreads : ~entry[u]
    BY <2>1 DEF EntryInv, Replacing
  <2> QED BY <1>0, <2>1, <2>2, <2>3, LeaveStep
<1>4. CASE BuildEntryFromJson(t)
  <2>1. /\ Leave(t, json = "whole") /\ at[t] = "read"
        /\ UNCHANGED <<checked, registered, data, json, writeMutex, temp, vaultRest>>
    BY <1>4 DEF BuildEntryFromJson
  <2>2. at[t] \in Inside /\ (Calm => data # "none")
    BY <2>1 DEF Inside, EntryInv
  <2>3. PICK b \in BOOLEAN : b = (json = "whole")
    OBVIOUS
  <2>4. Leave(t, b)
    BY <2>1, <2>3
  <2> QED BY <1>0, <2>1, <2>2, <2>3, <2>4, LeaveStep
<1> QED BY <1>1, <1>2, <1>3, <1>4

(* DeleteResource, which is what EntryInv excludes, and a crash.            *)
LEMMA RemoveStep ==
    ASSUME VaultInv, NEW t \in VaultThreads,
           CheckResource(t) \/ RemoveData(t) \/ RemoveJson(t) \/ EraseResource(t)
    PROVE  VaultInv'
<1> USE DEF VaultInv, files, vaultRest, mutexMap
<1>0. "idle" \notin Inside /\ \A p \in Removing : p \notin Inside
  BY DEF Inside, Removing
<1>1. PICK p \in Removing \cup {"idle"} :
         /\ Go(t, p) /\ at[t] \in Removing \cup {"idle"}
         /\ data' \in {data, "none"} /\ json' \in {json, "none"}
         /\ writeMutex' \in {writeMutex, t, NoThread} /\ registered' \in BOOLEAN
         /\ deletes' \in 0..MaxDeletes /\ deletes' # 0
         /\ UNCHANGED <<checked, resourceMutex, temp, entry, vaultCrashes, mutexKnown, own, insertRaced>>
  <2>1. registered \in BOOLEAN /\ deletes \in 0..MaxDeletes
    BY DEF VaultTypeOK
  <2>2. CASE CheckResource(t)
    <3>0. deletes < MaxDeletes /\ deletes' = deletes + 1
      BY <2>2, Zenon DEF CheckResource
    <3>1. deletes + 1 \in 0..MaxDeletes /\ deletes + 1 # 0
      BY <2>1, <3>0, FileVaultAssumption
    <3> QED BY <2>1, <2>2, <3>0, <3>1 DEF CheckResource, Removing
  <2>3. CASE RemoveData(t) \/ RemoveJson(t) \/ EraseResource(t)
    <3>1. at[t] \in Removing
      BY <2>3 DEF RemoveData, RemoveJson, EraseResource, Removing
    <3>2. deletes # 0
      BY <3>1 DEF EntryInv
    <3> QED BY <2>1, <2>3, <3>1, <3>2 DEF RemoveData, RemoveJson, EraseResource, Removing
  <2> QED BY <2>2, <2>3
<1>2. /\ at' \in [VaultThreads -> Outside \cup Inside \cup Removing] /\ at'[t] = p
      /\ \A u \in VaultThreads : u # t => at'[u] = at[u]
  <2>1. p \in Outside \cup Inside \cup Removing
    BY <1>1 DEF Outside
  <2> QED BY <1>1, <2>1, Goes
<1>3. VaultTypeOK'
  BY <1>1, <1>2 DEF VaultTypeOK
<1>4. MutexInv'
  BY <1>0, <1>1, <1>2 DEF MutexInv
<1>5. ContentInv'
  BY <1>0, <1>1, <1>2 DEF ContentInv, Inside
<1>6. EntryInv'
  BY <1>1 DEF EntryInv, Calm
<1> QED BY <1>3, <1>4, <1>5, <1>6

(* A crash leaves the files as they are, and nobody with an entry.          *)
LEMMA CrashStep ==
    ASSUME VaultInv, VaultCrash
    PROVE  VaultInv'
<1> USE DEF VaultInv, files
<1>1. /\ \A t \in VaultThreads : at'[t] = "idle" /\ temp'[t] = "none" /\ entry'[t] = FALSE
      /\ UNCHANGED <<checked, data, json, deletes>> /\ resourceMutex' = NoThread
      /\ own' = {} /\ mutexKnown' = FALSE /\ insertRaced' = FALSE
  BY DEF VaultCrash
<1>2. VaultTypeOK'
  <2>1. vaultCrashes < MaxVaultCrashes /\ vaultCrashes' = vaultCrashes + 1
    BY Zenon DEF VaultCrash
  <2>2. vaultCrashes \in 0..MaxVaultCrashes
    BY Zenon DEF VaultTypeOK
  <2>3. vaultCrashes' \in 0..MaxVaultCrashes
    BY <2>1, <2>2, FileVaultAssumption
  <2>4. registered' \in BOOLEAN /\ entry' \in [VaultThreads -> BOOLEAN]
    BY Zenon DEF VaultCrash
  <2>5. /\ at' \in [VaultThreads -> Outside \cup Inside \cup Removing]
        /\ temp' \in [VaultThreads -> {"none", "good", "wrong", "part"}]
        /\ writeMutex' \in VaultThreads \cup {NoThread}
    BY DEF VaultCrash, Outside
  <2> QED BY <1>1, <2>3, <2>4, <2>5 DEF VaultTypeOK
<1>3. MutexInv'
  BY <1>1, FileVaultAssumption DEF MutexInv, Inside
<1>4. ContentInv' /\ EntryInv'
  BY <1>1 DEF ContentInv, EntryInv, Calm, Removing, Replacing
<1> QED BY <1>2, <1>3, <1>4

(* The vault's variables keep their types, the mutex of the resource is     *)
(* held by who is inside GetResource (unless insertions of the mutex raced),*)
(* and nothing unchecked is on its way into the vault.                      *)
THEOREM VaultInvariant == VaultSpec => []VaultInv
<1>1. VaultInit => VaultInv
  <2> SUFFICES ASSUME VaultInit PROVE VaultInv
    OBVIOUS
  <2>1. /\ \A t \in VaultThreads : at[t] = "idle" /\ temp[t] = "none" /\ entry[t] = FALSE
        /\ data = "none" /\ resourceMutex = NoThread /\ own = {} /\ mutexKnown = FALSE /\ insertRaced = FALSE
    BY DEF VaultInit
  <2>2. VaultTypeOK
    <3>1. deletes \in 0..MaxDeletes /\ vaultCrashes \in 0..MaxVaultCrashes
      <4>1. deletes = 0 /\ vaultCrashes = 0
        BY Zenon DEF VaultInit
      <4> QED BY <4>1, FileVaultAssumption
    <3>2. checked \in BOOLEAN /\ registered \in BOOLEAN /\ entry \in [VaultThreads -> BOOLEAN]
      BY Zenon DEF VaultInit
    <3>3. /\ at \in [VaultThreads -> Outside \cup Inside \cup Removing]
          /\ temp \in [VaultThreads -> {"none", "good", "wrong", "part"}]
          /\ json = "none" /\ writeMutex = NoThread
      BY DEF VaultInit, Outside
    <3> QED BY <2>1, <3>1, <3>2, <3>3 DEF VaultTypeOK
  <2>3. MutexInv
    BY <2>1, FileVaultAssumption DEF MutexInv, Inside
  <2>4. ContentInv /\ EntryInv
    BY <2>1 DEF ContentInv, EntryInv, Calm, Removing, Replacing
  <2> QED BY <2>2, <2>3, <2>4 DEF VaultInv
<1>2. VaultInv /\ [VaultNext]_vaultVars => VaultInv'
  <2> SUFFICES ASSUME VaultInv, [VaultNext]_vaultVars PROVE VaultInv'
    OBVIOUS
  <2>1. CASE UNCHANGED vaultVars
    BY <2>1, ZenonT(60) DEF vaultVars, vaultRest, mutexMap, VaultInv, VaultTypeOK, MutexInv, ContentInv, EntryInv, Calm
  <2>2. ASSUME NEW t \in VaultThreads, VaultStep(t) PROVE VaultInv'
    BY <2>2, OutsideStep, FetchStep, StoreStep, RemoveStep DEF VaultStep
  <2> QED BY <2>1, <2>2, CrashStep DEF VaultNext
<1> QED BY <1>1, <1>2, PTL DEF VaultSpec

(* For any number of threads and crashes: the data file of a resource with  *)
(* a checksum always has the content the checksum is for, even if threads   *)
(* raced for its mutex; and an entry that was handed out names two complete *)
(* files as long as nobody deletes and no insertion of the mutex raced.     *)
THEOREM VaultEntriesWhole == VaultSpec => []VaultEntryIsWhole
<1>1. VaultInv => VaultEntryIsWhole
  BY DEF VaultInv, ContentInv, EntryInv, Calm, VaultEntryIsWhole
<1> QED BY <1>1, VaultInvariant, PTL

-----------------------------------------------------------------------------
(* The configuration of models.                                             *)

(* Places in a list have a last one.                                        *)
LEMMA LastPlace ==
    ASSUME NEW n \in Nat, NEW S \in SUBSET (1..n), S # {}
    PROVE  Max(S) \in S /\ \A i \in S : i <= Max(S)
<1> DEFINE B == {b \in Nat : \A i \in S : i <= b}
<1>1. n \in B
  OBVIOUS
<1>2. PICK b \in B : \A x \in B : b <= x
  <2> B \in SUBSET Nat /\ B # {}
    BY <1>1
  <2> HIDE DEF B
  <2> QED BY LeastNumber
<1>3. b \in S
  <2> SUFFICES ASSUME b \notin S PROVE FALSE
    OBVIOUS
  <2>1. b \in Nat /\ \A i \in S : i \in Nat /\ 1 <= i /\ i <= b
    BY <1>2
  <2>2. b - 1 \in Nat
    <3>1. PICK i \in S : TRUE
      OBVIOUS
    <3> QED BY <2>1, <3>1
  <2>0. ASSUME NEW i \in S PROVE i <= b - 1
    <3>1. i \in Nat /\ i <= b /\ i # b
      BY <2>1
    <3> QED BY <2>1, <3>1
  <2>3. b - 1 \in B
    BY <2>2, <2>0
  <2> QED BY <2>1, <2>3, <1>2
<1>4. \A i \in S : b >= i
  BY <1>2, <1>3
<1>5. \E x \in S : \A y \in S : x >= y
  BY <1>3, <1>4
<1>6. Max(S) \in S /\ \A y \in S : Max(S) >= y
  BY <1>5 DEF Max
<1> QED BY <1>6

(* The last override of a setting is the new one, if it sets it, and else   *)
(* what it was.                                                             *)
LEMMA OverrideAdded ==
    ASSUME NEW X, NEW o \in Seq(X), NEW x \in X, NEW s
    PROVE  LastOverride(Append(o, x), s) = Override(LastOverride(o, s), x[s])
<1> DEFINE q == Append(o, x)
           n == Len(o)
           old == {i \in DOMAIN o : o[i][s] # Unset}
           new == {i \in DOMAIN q : q[i][s] # Unset}
<1>1. /\ n \in Nat /\ DOMAIN o = 1..n /\ DOMAIN q = 1..(n + 1) /\ q[n + 1] = x
      /\ \A i \in 1..n : q[i] = o[i]
  OBVIOUS
<1> HIDE DEF q
<1>2. LastOverride(q, s) = IF new = {} THEN Unset ELSE q[Max(new)][s]
  BY DEF LastOverride
<1>3. LastOverride(o, s) = IF old = {} THEN Unset ELSE o[Max(old)][s]
  BY DEF LastOverride
<1>4. CASE x[s] = Unset
  <2>1. new = old
    BY <1>1, <1>4
  <2>2. CASE old = {}
    BY <2>1, <2>2, <1>2, <1>3, <1>4 DEF Override, q
  <2>3. CASE old # {}
    <3>1. Max(old) \in old
      <4> old \in SUBSET (1..n)
        BY <1>1
      <4> QED BY <1>1, <2>3, LastPlace
    <3>2. q[Max(old)] = o[Max(old)]
      BY <3>1, <1>1
    <3> HIDE DEF old, new
    <3>3. LastOverride(q, s) = LastOverride(o, s)
      BY <1>2, <1>3, <2>1, <2>3, <3>2
    <3> QED BY <3>3, <1>4 DEF Override, q
  <2> QED BY <2>2, <2>3
<1>5. CASE x[s] # Unset
  <2>1. n + 1 \in new /\ new \in SUBSET (1..(n + 1)) /\ new # {}
    BY <1>1, <1>5
  <2> HIDE DEF old, new
  <2>2. Max(new) \in new /\ \A i \in new : i <= Max(new)
    <3>1. n + 1 \in Nat
      BY <1>1
    <3> QED BY <3>1, <2>1, LastPlace
  <2>3. Max(new) = n + 1
    <3>1. Max(new) \in 1..(n + 1) /\ n + 1 <= Max(new)
      BY <2>1, <2>2
    <3> QED BY <1>1, <3>1
  <2>4. LastOverride(q, s) = x[s]
    BY <1>1, <1>2, <2>1, <2>3
  <2> QED BY <2>4, <1>5 DEF Override, q
<1> QED BY <1>4, <1>5


(* Loading the endpoint changes nothing but the endpoint.                   *)
LEMMA EndpointIs ==
    ASSUME NEW cfg, NEW env, NEW default, NEW r,
           DOMAIN cfg = Settings, r = LoadEndpoint(cfg, env, default)
    PROVE  /\ DOMAIN r = Settings
           /\ r.host = OrElse(cfg.host, GetEnv(env.host, "default"))
           /\ r.port = OrElse(cfg.port, GetIntEnv(env.port, "default"))
           /\ r.protocol = OrElse(cfg.protocol, Protocol(env.protocol, default))
           /\ \A s \in Settings \ {"host", "port", "protocol"} : r[s] = cfg[s]
BY DEF LoadEndpoint, Settings

AllProviders == LikeOpenAI \cup {"ollama", "local"}

(* What the factory passes on to a loader.                                  *)
LEMMA OptionsAre ==
    ASSUME NEW record, NEW options, DOMAIN record = Settings
    PROVE  LET o == WithOptions(record, options)
           IN  /\ DOMAIN o = Settings
               /\ \A s \in Settings : o[s] =
                      IF s \in {"model", "host", "port", "protocol"} THEN options[s] ELSE record[s]
BY DEF WithOptions, Settings

Loaded(c) == ~ (c.kind = "llm" /\ c.provider \in LikeOpenAI)

(* The configuration a model is made with, setting by setting.              *)
MadeWith(c, cfg) ==
    /\ DOMAIN cfg = Settings
    /\ cfg.model = IF Loaded(c) THEN OrElse(Asked(c, "model"), GetEnv(c.env.model, "default"))
                   ELSE Asked(c, "model")
    /\ cfg.host = IF Loaded(c) THEN OrElse(Asked(c, "host"), GetEnv(c.env.host, "default"))
                  ELSE Asked(c, "host")
    /\ cfg.port = IF Loaded(c) THEN OrElse(Asked(c, "port"), GetIntEnv(c.env.port, "default"))
                  ELSE Asked(c, "port")
    /\ Asked(c, "protocol") # Unset => cfg.protocol = Asked(c, "protocol")
    /\ Loaded(c) => cfg.protocol # Unset
    /\ c.provider \in LikeOpenAI =>
           cfg.api_key = IF Loaded(c) THEN OrElse(Asked(c, "api_key"), GetEnv(c.env.api_key, Unset))
                         ELSE Asked(c, "api_key")
    /\ cfg.stop_words = Asked(c, "stop_words") /\ cfg.temperature = Asked(c, "temperature")
    /\ cfg.top_p = Asked(c, "top_p")
    /\ c.kind # "embed" => cfg.dimension = c.own.dimension
    /\ c.kind = "embed" /\ Asked(c, "dimension") # Unset => cfg.dimension = Asked(c, "dimension")
    /\ c.kind = "embed" /\ Asked(c, "dimension") = Unset /\ cfg.dimension \in {Unset, "throws"}
           => GetEnv(c.env.dimension, Unset) = Unset


(* Every branch of the factory and its loaders makes a model with these     *)
(* settings.                                                                *)
LEMMA FactoryIs ==
    ASSUME NEW c \in Configurations, NEW cfg,
           cfg = Create(c.kind, c.provider, c.own, c.options, c.env, c.known)
    PROVE  MadeWith(c, cfg)
<1> DEFINE o == WithOptions(c.own, c.options)
           model == OrElse(Asked(c, "model"), GetEnv(c.env.model, "default"))
<1>1. /\ DOMAIN c.own = Settings
      /\ c.kind \in {"chat", "embed", "llm"}
      /\ c.provider \in AllProviders
      /\ c.env.dimension # "throws"
  BY ConfigAssumption DEF LikeOpenAI, AllProviders, Variables
<1>2. /\ DOMAIN o = Settings
      /\ c.kind # "llm" =>
            \A s \in Settings \ {"api_key", "dimension"} : o[s] = Asked(c, s)
      /\ o.api_key = c.own.api_key /\ o.dimension = c.own.dimension
  <2>1. /\ DOMAIN o = Settings
        /\ \A s \in Settings : o[s] =
              IF s \in {"model", "host", "port", "protocol"} THEN c.options[s] ELSE c.own[s]
    BY <1>1, OptionsAre
  <2> HIDE DEF o
  <2> QED BY <2>1 DEF Asked, FactorySettings, Settings
<1>A. /\ c.kind = "llm" => \A s \in Settings : c.own[s] = Asked(c, s)
      /\ c.kind # "llm" => /\ c.options.api_key = Asked(c, "api_key")
                           /\ c.options.dimension = Asked(c, "dimension")
  BY DEF Asked, FactorySettings
<1> HIDE DEF o
<1>3. Protocol(c.env.protocol, "https") # Unset /\ Protocol(c.env.protocol, "http") # Unset
  BY DEF Protocol, Unset
<1>4. CASE c.kind = "llm" /\ c.provider \in LikeOpenAI
  <2>1. cfg = c.own
    BY <1>4 DEF Create, CreateOpenAILLM
  <2> QED BY <1>1, <1>A, <1>4, <2>1 DEF MadeWith, Loaded, Settings
<1>5. CASE c.kind # "embed" /\ ~ (c.kind = "llm" /\ c.provider \in LikeOpenAI)
  <2>1. PICK x, default : /\ DOMAIN x = Settings
                          /\ \A s \in Settings \ {"model", "api_key", "dimension"} : x[s] = Asked(c, s)
                          /\ x.dimension = c.own.dimension
                          /\ x.model = model
                          /\ c.provider \in LikeOpenAI =>
                                x.api_key = OrElse(Asked(c, "api_key"), GetEnv(c.env.api_key, Unset))
                          /\ default \in {"http", "https"}
                          /\ cfg = LoadEndpoint(x, c.env, default)
    <3>1. CASE c.provider \in LikeOpenAI
      <4> DEFINE y == [o EXCEPT !.api_key = c.options.api_key]
                 x == [y EXCEPT !.api_key = OrElse(@, GetEnv(c.env.api_key, Unset)),
                                !.model = OrElse(@, GetEnv(c.env.model, "default"))]
      <4>1. c.kind = "chat"
        BY <1>1, <1>5, <3>1
      <4>2. cfg = LoadEndpoint(x, c.env, "https")
        BY <4>1, <3>1 DEF Create, CreateChatModel, LoadOpenAIChatConfiguration, o
      <4>3. /\ DOMAIN y = Settings
            /\ \A s \in Settings \ {"dimension"} : y[s] = Asked(c, s)
            /\ y.dimension = c.own.dimension
        BY <1>2, <1>A, <4>1 DEF Settings
      <4> HIDE DEF y
      <4>4. /\ DOMAIN x = Settings
            /\ \A s \in Settings \ {"model", "api_key", "dimension"} : x[s] = Asked(c, s)
            /\ x.dimension = c.own.dimension
            /\ x.model = model
            /\ x.api_key = OrElse(Asked(c, "api_key"), GetEnv(c.env.api_key, Unset))
        BY <4>3 DEF Settings
      <4> HIDE DEF x, model
      <4> QED BY <4>2, <4>4
    <3>2. CASE c.provider \notin LikeOpenAI
      <4> DEFINE y == IF c.kind = "llm" THEN c.own ELSE o
                 x == [y EXCEPT !.model = OrElse(@, GetEnv(c.env.model, "default"))]
      <4>1. cfg = LoadEndpoint(x, c.env, "http")
        BY <1>1, <1>5, <3>2 DEF Create, CreateChatModel, LoadOllamaChatConfiguration,
                               CreateOllamaLLM, o
      <4>3. /\ DOMAIN y = Settings
            /\ \A s \in Settings \ {"api_key", "dimension"} : y[s] = Asked(c, s)
            /\ y.dimension = c.own.dimension
        BY <1>1, <1>2, <1>A
      <4> HIDE DEF y
      <4>2. /\ DOMAIN x = Settings
            /\ \A s \in Settings \ {"model", "api_key", "dimension"} : x[s] = Asked(c, s)
            /\ x.dimension = c.own.dimension
            /\ x.model = model
        BY <4>3 DEF Settings
      <4> HIDE DEF x, model
      <4> QED BY <3>2, <4>1, <4>2
    <3> QED BY <3>1, <3>2
  <2> HIDE DEF model
  <2>2. /\ DOMAIN cfg = Settings
        /\ cfg.host = OrElse(x.host, GetEnv(c.env.host, "default"))
        /\ cfg.port = OrElse(x.port, GetIntEnv(c.env.port, "default"))
        /\ cfg.protocol = OrElse(x.protocol, Protocol(c.env.protocol, default))
        /\ \A s \in Settings \ {"host", "port", "protocol"} : cfg[s] = x[s]
    BY <2>1, EndpointIs
  <2>3. cfg.protocol # Unset /\ (Asked(c, "protocol") # Unset => cfg.protocol = Asked(c, "protocol"))
    BY <1>3, <2>1, <2>2 DEF OrElse, Settings
  <2> QED BY <1>5, <2>1, <2>2, <2>3 DEF MadeWith, Loaded, Settings, model
<1>6. CASE c.kind = "embed"
  <2>1. PICK x, default : /\ DOMAIN x = Settings
                          /\ \A s \in Settings \ {"model", "api_key", "dimension"} : x[s] = Asked(c, s)
                          /\ x.model = model
                          /\ x.dimension = OrElse(OrElse(Asked(c, "dimension"),
                                                         GetIntEnv(c.env.dimension, Unset)),
                                                  GuessDimension(model, c.known))
                          /\ c.provider \in LikeOpenAI =>
                                x.api_key = OrElse(Asked(c, "api_key"), GetEnv(c.env.api_key, Unset))
                          /\ default \in {"http", "https"}
                          /\ cfg = LoadEndpoint(x, c.env, default)
    <3>1. CASE c.provider \in LikeOpenAI
      <4> DEFINE y == [o EXCEPT !.api_key = c.options.api_key, !.dimension = c.options.dimension]
                 z == [y EXCEPT !.api_key = OrElse(@, GetEnv(c.env.api_key, Unset)),
                                !.model = OrElse(@, GetEnv(c.env.model, "default"))]
                 x == LoadDimension(z, c.env, c.known)
      <4>2. cfg = LoadEndpoint(x, c.env, "https")
        BY <1>6, <3>1 DEF Create, CreateEmbeddingModel, LoadOpenAIEmbeddingConfiguration, o
      <4>3. DOMAIN y = Settings /\ \A s \in Settings : y[s] = Asked(c, s)
        BY <1>2, <1>A, <1>6 DEF Settings
      <4> HIDE DEF y
      <4>4. /\ DOMAIN z = Settings
            /\ \A s \in Settings \ {"model", "api_key"} : z[s] = Asked(c, s)
            /\ z.model = model
            /\ z.api_key = OrElse(Asked(c, "api_key"), GetEnv(c.env.api_key, Unset))
        BY <4>3 DEF Settings
      <4> HIDE DEF z, model
      <4>5. /\ DOMAIN x = Settings
            /\ \A s \in Settings \ {"dimension"} : x[s] = z[s]
            /\ x.dimension = OrElse(OrElse(z.dimension, GetIntEnv(c.env.dimension, Unset)),
                                    GuessDimension(z.model, c.known))
        BY <4>4 DEF LoadDimension, Settings
      <4> HIDE DEF x
      <4> QED BY <4>2, <4>4, <4>5 DEF Settings
    <3>2. CASE c.provider \notin LikeOpenAI
      <4> DEFINE y == [o EXCEPT !.dimension = c.options.dimension]
                 z == [y EXCEPT !.model = OrElse(@, GetEnv(c.env.model, "default"))]
                 x == LoadDimension(z, c.env, c.known)
      <4>2. cfg = LoadEndpoint(x, c.env, "http")
        BY <1>6, <3>2 DEF Create, CreateEmbeddingModel, LoadOllamaEmbeddingConfiguration, o
      <4>3. DOMAIN y = Settings /\ \A s \in Settings \ {"api_key"} : y[s] = Asked(c, s)
        BY <1>2, <1>A, <1>6 DEF Settings
      <4> HIDE DEF y
      <4>4. /\ DOMAIN z = Settings
            /\ \A s \in Settings \ {"model", "api_key"} : z[s] = Asked(c, s)
            /\ z.model = model
        BY <4>3 DEF Settings
      <4> HIDE DEF z, model
      <4>5. /\ DOMAIN x = Settings
            /\ \A s \in Settings \ {"dimension"} : x[s] = z[s]
            /\ x.dimension = OrElse(OrElse(z.dimension, GetIntEnv(c.env.dimension, Unset)),
                                    GuessDimension(z.model, c.known))
        BY <4>4 DEF LoadDimension, Settings
      <4> HIDE DEF x
      <4> QED BY <3>2, <4>2, <4>4, <4>5 DEF Settings
    <3> QED BY <3>1, <3>2
  <2> HIDE DEF model
  <2>2. /\ DOMAIN cfg = Settings
        /\ cfg.host = OrElse(x.host, GetEnv(c.env.host, "default"))
        /\ cfg.port = OrElse(x.port, GetIntEnv(c.env.port, "default"))
        /\ cfg.protocol = OrElse(x.protocol, Protocol(c.env.protocol, default))
        /\ \A s \in Settings \ {"host", "port", "protocol"} : cfg[s] = x[s]
    BY <2>1, EndpointIs
  <2>3. cfg.protocol # Unset /\ (Asked(c, "protocol") # Unset => cfg.protocol = Asked(c, "protocol"))
    BY <1>3, <2>1, <2>2 DEF OrElse, Settings
  <2>4. Asked(c, "dimension") # Unset => cfg.dimension = Asked(c, "dimension")
    BY <2>1, <2>2 DEF OrElse, Settings
  <2>5. Asked(c, "dimension") = Unset /\ cfg.dimension \in {Unset, "throws"}
            => GetEnv(c.env.dimension, Unset) = Unset
    <3>1. cfg.dimension = x.dimension
      BY <2>2 DEF Settings
    <3>2. GuessDimension(model, c.known) \in {"guess", Unset}
      BY DEF GuessDimension
    <3> QED BY <1>1, <2>1, <3>1, <3>2 DEF OrElse, GetIntEnv, GetEnv, Unset
  <2> QED BY <1>6, <2>1, <2>2, <2>3, <2>4, <2>5 DEF MadeWith, Loaded, Settings, model
<1> QED BY <1>4, <1>5, <1>6


Known(provider) == {s \in Overridable : ~ Ignored(provider, s)}

(* Configure replaces what an override sets and the provider knows.         *)
LEMMA ConfigureIs ==
    ASSUME NEW provider \in LikeOpenAI \cup {"ollama"}, NEW cfg, NEW o, DOMAIN cfg = Settings
    PROVE  /\ DOMAIN Configure(provider, cfg, o) = Settings
           /\ \A s \in Settings : Configure(provider, cfg, o)[s] =
                  IF s \in Known(provider) THEN Override(cfg[s], o[s]) ELSE cfg[s]
<1> DEFINE x == ConfigureOllama(cfg, o)
           y == ConfigureOpenAI(cfg, o)
<1>1. /\ DOMAIN x = Settings
      /\ \A s \in Settings : x[s] = IF s \in {"model", "stop_words", "temperature"}
                                    THEN Override(cfg[s], o[s]) ELSE cfg[s]
  BY DEF ConfigureOllama, Settings
<1>2. y = [x EXCEPT !.top_p = Override(@, o.top_p)]
  BY DEF ConfigureOpenAI
<1> HIDE DEF x, y
<1>3. /\ DOMAIN y = Settings
      /\ \A s \in Settings : y[s] = IF s \in Overridable THEN Override(cfg[s], o[s]) ELSE cfg[s]
  BY <1>1, <1>2 DEF Settings, Overridable
<1>4. CASE provider \in LikeOpenAI
  <2>1. Known(provider) = Overridable
    BY <1>4 DEF Known, Ignored, LikeOpenAI
  <2> QED BY <1>3, <1>4, <2>1 DEF Configure, y
<1>5. CASE provider = "ollama"
  <2>1. Known(provider) = {"model", "stop_words", "temperature"}
    BY <1>5 DEF Known, Ignored, Overridable
  <2> QED BY <1>1, <1>5, <2>1 DEF Configure, LikeOpenAI, x
<1> QED BY <1>4, <1>5

AnyOverride == Overrides \cup {AgentWords}

(* The setting s of a model of provider that was made with cfg.             *)
Overridden(provider, cfg, o, s) ==
    IF s \in Known(provider) THEN Override(cfg[s], LastOverride(o, s)) ELSE cfg[s]

(* A model object has the settings it was made with, except for the last    *)
(* override of each.                                                        *)
ModelOK(x, o) ==
    /\ DOMAIN x = {"state", "use", "cfg"}
    /\ x.use \in Configurations /\ DOMAIN x.cfg = Settings
    /\ x.use.kind = "embed" \/ x.state # "ready" => o = <<>>
    /\ \E cfg : /\ MadeWith(x.use, cfg)
                /\ x.state = IF Created(x.use.kind, x.use.provider, cfg) THEN "ready" ELSE "failed"
                /\ \A s \in Settings : x.cfg[s] = Overridden(x.use.provider, cfg, o, s)

ConfigInv ==
    /\ made \in Seq(AnyOverride)
    /\ \/ llm = [state |-> "none"] /\ made = <<>>
       \/ llm.state # "none" /\ ModelOK(llm, made)

(* Nothing was overridden.                                                  *)
LEMMA NoOverride == \A s : LastOverride(<<>>, s) = Unset
BY DEF LastOverride

(* CreateModel.                                                             *)
LEMMA CreateKeeps ==
    ASSUME ConfigInv, llm.state = "none", NEW c \in Configurations, CreateModel(c)
    PROVE  ConfigInv'
<1> DEFINE cfg == Create(c.kind, c.provider, c.own, c.options, c.env, c.known)
           st == IF Created(c.kind, c.provider, cfg) THEN "ready" ELSE "failed"
<1>1. llm' = [state |-> st, use |-> c, cfg |-> cfg] /\ made' = made
  BY DEF CreateModel
<1>2. MadeWith(c, cfg)
  BY FactoryIs
<1>3. made = <<>> /\ made \in Seq(AnyOverride)
  BY DEF ConfigInv
<1>4. DOMAIN cfg = Settings
  BY <1>2 DEF MadeWith
<1>5. \A s \in Settings : cfg[s] = Overridden(c.provider, cfg, <<>>, s)
  BY NoOverride DEF Overridden, Override
<1> HIDE DEF cfg
<1>6. st \in {"ready", "failed"}
  OBVIOUS
<1>7. ModelOK(llm', made')
  BY <1>1, <1>2, <1>3, <1>4, <1>5 DEF ModelOK
<1> QED BY <1>1, <1>3, <1>6, <1>7 DEF ConfigInv

(* Applying an override that is worth the list of overrides more.           *)
LEMMA ApplyKeeps ==
    ASSUME ConfigInv, CanOverride, NEW o, Apply(o),
           NEW more \in Seq(AnyOverride), made' = more,
           \A s \in Known(llm.use.provider) :
               \A v : Override(v, LastOverride(more, s))
                          = Override(Override(v, LastOverride(made, s)), o[s])
    PROVE  ConfigInv'
<1> DEFINE p == llm.use.provider
           new == Configure(p, llm.cfg, o)
<1>1. llm.state = "ready" /\ ModelOK(llm, made) /\ llm.use.kind # "embed"
  BY DEF ConfigInv, CanOverride
<1>2. PICK cfg : /\ MadeWith(llm.use, cfg)
                 /\ llm.state = IF Created(llm.use.kind, p, cfg) THEN "ready" ELSE "failed"
                 /\ \A s \in Settings : llm.cfg[s] = Overridden(p, cfg, made, s)
  BY <1>1 DEF ModelOK
<1>3. llm.use \in Configurations /\ DOMAIN llm.cfg = Settings /\ DOMAIN llm = {"state", "use", "cfg"}
  BY <1>1 DEF ModelOK
<1>4. p \in LikeOpenAI \cup {"ollama"}
  <2>1. p # "local"
    BY <1>1, <1>2 DEF Created
  <2> QED BY <1>3, <2>1, ConfigAssumption DEF LikeOpenAI
<1>5. /\ DOMAIN new = Settings
      /\ \A s \in Settings : new[s] = IF s \in Known(p) THEN Override(llm.cfg[s], o[s]) ELSE llm.cfg[s]
  BY <1>3, <1>4, ConfigureIs
<1>6. llm' = [llm EXCEPT !.cfg = new]
  BY DEF Apply
<1> HIDE DEF new
<1>7. /\ DOMAIN llm' = {"state", "use", "cfg"} /\ llm'.cfg = new
      /\ llm'.use = llm.use /\ llm'.state = "ready"
  BY <1>1, <1>3, <1>6
<1>8. ASSUME NEW s \in Settings PROVE new[s] = Overridden(p, cfg, more, s)
  BY <1>2, <1>5 DEF Overridden
<1>9. ModelOK(llm', more)
  BY <1>1, <1>2, <1>3, <1>5, <1>7, <1>8 DEF ModelOK
<1> QED BY <1>7, <1>9 DEF ConfigInv

(* ConfigureModel.                                                          *)
LEMMA ConfigureKeeps ==
    ASSUME ConfigInv, NEW o \in Overrides, ConfigureModel(o)
    PROVE  ConfigInv'
<1>1. CanOverride /\ Apply(o) /\ made' = Append(made, o)
  BY DEF ConfigureModel
<1>2. made \in Seq(AnyOverride) /\ o \in AnyOverride
  BY DEF ConfigInv, AnyOverride
<1>3. Append(made, o) \in Seq(AnyOverride)
  BY <1>2
<1>4. \A s : LastOverride(Append(made, o), s) = Override(LastOverride(made, s), o[s])
  BY <1>2, OverrideAdded
<1>5. \A s, v : Override(v, LastOverride(Append(made, o), s))
                   = Override(Override(v, LastOverride(made, s)), o[s])
  BY <1>4 DEF Override
<1> QED BY <1>1, <1>3, <1>5, ApplyKeeps

(* BuildAgentExecutor: one override that is worth three.                    *)
LEMMA BuildKeeps ==
    ASSUME ConfigInv, NEW run \in Overrides, NEW assistant \in Overrides,
           BuildAgentExecutor(run, assistant)
    PROVE  ConfigInv'
<1> DEFINE a == Append(<<>>, assistant)
           b == Append(a, run)
           d == Append(b, AgentWords)
           o == RunOverrides(run, assistant)
<1>1. CanOverride /\ Apply(o) /\ made' = d /\ made = <<>>
  BY DEF BuildAgentExecutor
<1>2. /\ <<>> \in Seq(AnyOverride) /\ assistant \in AnyOverride /\ run \in AnyOverride
      /\ AgentWords \in AnyOverride
  BY DEF AnyOverride
<1>3. \A s : LastOverride(a, s) = Override(Unset, assistant[s])
  <2>1. ASSUME NEW s PROVE LastOverride(a, s) = Override(LastOverride(<<>>, s), assistant[s])
    <3> HIDE DEF LastOverride
    <3> QED BY <1>2, OverrideAdded
  <2> HIDE DEF a
  <2> QED BY <2>1, NoOverride
<1>4. a \in Seq(AnyOverride)
  BY <1>2
<1> HIDE DEF a
<1>5. \A s : LastOverride(b, s) = Override(LastOverride(a, s), run[s])
  BY <1>2, <1>4, OverrideAdded
<1>6. b \in Seq(AnyOverride)
  BY <1>2, <1>4
<1> HIDE DEF b
<1>7. \A s : LastOverride(d, s) = Override(LastOverride(b, s), AgentWords[s])
  BY <1>2, <1>6, OverrideAdded
<1>8. d \in Seq(AnyOverride)
  BY <1>2, <1>6
<1> HIDE DEF d, o
<1>9. ASSUME NEW s \in Overridable
      PROVE  o[s] = LastOverride(d, s)
  <2>1. LastOverride(d, s) = Override(Override(Override(Unset, assistant[s]), run[s]), AgentWords[s])
    BY <1>3, <1>5, <1>7
  <2>2. CASE s = "stop_words"
    BY <2>1, <2>2 DEF o, RunOverrides, AgentWords, Override, Unset
  <2>3. CASE s # "stop_words"
    <3>1. AgentWords[s] = Unset
      BY <2>3 DEF AgentWords, Overridable
    <3>2. o[s] = OrElse(run[s], assistant[s])
      BY <2>3 DEF o, RunOverrides, Overridable
    <3> QED BY <2>1, <3>1, <3>2 DEF Override, OrElse
  <2> QED BY <2>2, <2>3
<1>10. \A s \in Known(llm.use.provider) :
           \A v : Override(v, LastOverride(d, s))
                      = Override(Override(v, LastOverride(made, s)), o[s])
  BY <1>1, <1>9, NoOverride DEF Known, Override
<1> QED BY <1>1, <1>8, <1>10, ApplyKeeps DEF o

(* The inductive invariant of the configuration: a model object has the     *)
(* settings that the factory gave it, except that the last override of      *)
(* each setting replaces it, whoever made it.                               *)
THEOREM ConfigInvariant == ConfigSpec => []ConfigInv
<1>1. ConfigInit => ConfigInv
  BY DEF ConfigInit, ConfigInv
<1>2. ConfigInv /\ [ConfigNext]_config => ConfigInv'
  <2> SUFFICES ASSUME ConfigInv, [ConfigNext]_config PROVE ConfigInv'
    OBVIOUS
  <2>1. CASE UNCHANGED config
    BY <2>1 DEF config, ConfigInv
  <2>2. CASE ConfigNext
    BY <2>2, CreateKeeps, ConfigureKeeps, BuildKeeps DEF ConfigNext
  <2> QED BY <2>1, <2>2
<1> QED BY <1>1, <1>2, PTL DEF ConfigSpec

(* What a setting is, where it was made with the option, else with value.   *)
LEMMA SettingIs ==
    ASSUME NEW c, NEW o, NEW s \in Overridable, NEW cfg,
           cfg[s] = Asked(c, s) \/ s = "model",
           s = "model" => cfg[s] = IF Loaded(c) THEN OrElse(Asked(c, s), GetEnv(c.env[s], "default"))
                                   ELSE Asked(c, s)
    PROVE  Overridden(c.provider, cfg, o, s) = Effective(c, o, s)
<1> DEFINE over == IF s \in Overridable /\ ~ Ignored(c.provider, s) THEN LastOverride(o, s) ELSE Unset
<1>1. Overridden(c.provider, cfg, o, s) = Override(cfg[s], over)
  BY DEF Overridden, Known, Override
<1>2. CASE over # Unset
  BY <1>1, <1>2 DEF Effective, Override
<1>3. CASE over = Unset
  <2>1. Overridden(c.provider, cfg, o, s) = cfg[s]
    BY <1>1, <1>3 DEF Override
  <2>2. CASE s = "model"
    BY <2>1, <2>2, <1>3 DEF Effective, OrElse, Loaded
  <2>3. CASE s # "model"
    <3>1. s \notin {"model", "host", "port", "api_key"}
      BY <2>3 DEF Overridable
    <3> QED BY <2>1, <2>3, <3>1, <1>3 DEF Effective
  <2> QED BY <2>2, <2>3
<1> QED BY <1>2, <1>3

(* A setting that nobody overrides.                                         *)
LEMMA FixedIs ==
    ASSUME NEW c, NEW o, NEW s \in {"host", "port", "api_key"}
    PROVE  Effective(c, o, s) =
               IF Asked(c, s) # Unset THEN Asked(c, s)
               ELSE IF Loaded(c) THEN GetEnv(c.env[s], IF s = "api_key" THEN Unset ELSE "default")
               ELSE Unset
BY DEF Effective, Loaded, Overridable

(* What a request has of a configuration.                                   *)
LEMMA RequestIs ==
    ASSUME NEW kind \in {"chat", "embed", "llm"}, NEW p \in LikeOpenAI \cup {"ollama"},
           NEW stream \in BOOLEAN, NEW x
    PROVE  LET msg == RequestOf(kind, p, stream, x)
               openai == p \in LikeOpenAI
           IN  /\ msg.model = x.model
               /\ kind # "embed" => msg.temperature = x.temperature
               /\ openai => msg.api_key = x.api_key
               /\ kind # "embed" /\ (kind = "chat" \/ openai \/ stream) =>
                      msg.stop_words = x.stop_words
               /\ kind # "embed" /\ openai => msg.top_p = x.top_p
               /\ kind = "embed" /\ openai => msg.dimension = x.dimension
<1> DEFINE msg == RequestOf(kind, p, stream, x)
<1>1. CASE kind = "embed" /\ p \in LikeOpenAI
  <2>1. msg = EmbedOpenAI(x)
    BY <1>1 DEF RequestOf
  <2> HIDE DEF msg
  <2>2. msg.model = x.model /\ msg.api_key = x.api_key /\ msg.dimension = x.dimension
    BY <2>1 DEF EmbedOpenAI, Request
  <2> QED BY <1>1, <2>2 DEF msg
<1>2. CASE kind = "embed" /\ p \notin LikeOpenAI
  <2>1. msg = EmbedOllama(x)
    BY <1>2 DEF RequestOf
  <2> HIDE DEF msg
  <2>2. msg.model = x.model
    BY <2>1 DEF EmbedOllama, Request
  <2> QED BY <1>2, <2>2 DEF msg
<1>3. CASE kind # "embed" /\ p \in LikeOpenAI
  <2>1. msg = BuildRequest(x)
    BY <1>3 DEF RequestOf, LikeOpenAI
  <2> HIDE DEF msg
  <2>2. /\ msg.model = x.model /\ msg.api_key = x.api_key /\ msg.temperature = x.temperature
        /\ msg.stop_words = x.stop_words /\ msg.top_p = x.top_p
    BY <2>1 DEF BuildRequest, Request
  <2> QED BY <1>3, <2>2 DEF msg
<1>4. CASE kind # "embed" /\ p \notin LikeOpenAI
  <2>1. msg \in {StreamOllamaChat(x), CallOllamaChat(x), StreamOllamaLLM(x), CallOllamaLLM(x)}
        /\ (kind = "chat" \/ stream =>
               msg \in {StreamOllamaChat(x), CallOllamaChat(x), StreamOllamaLLM(x)})
    BY <1>4 DEF RequestOf, LikeOpenAI
  <2> HIDE DEF msg
  <2>2. msg.model = x.model /\ msg.temperature = x.temperature
    BY <2>1 DEF StreamOllamaChat, CallOllamaChat, StreamOllamaLLM, CallOllamaLLM, Request
  <2>3. kind = "chat" \/ stream => msg.stop_words = x.stop_words
    BY <2>1 DEF StreamOllamaChat, CallOllamaChat, StreamOllamaLLM, Request
  <2> QED BY <1>4, <2>2, <2>3 DEF msg
<1> QED BY <1>1, <1>2, <1>3, <1>4

(* What is sent, and what is not, by a model object that is as it should.   *)
LEMMA SentIs == ConfigInv => RequestIsConfigured
<1> SUFFICES ASSUME ConfigInv, llm.state # "none" PROVE RequestIsConfigured
  BY DEF RequestIsConfigured
<1> DEFINE c == llm.use
           p == c.provider
           openai == p \in LikeOpenAI
           e(s) == Effective(c, made, s)
           x == llm.cfg
<1>1. ModelOK(llm, made)
  BY DEF ConfigInv
<1>2. PICK cfg : /\ MadeWith(c, cfg)
                 /\ llm.state = IF Created(c.kind, p, cfg) THEN "ready" ELSE "failed"
                 /\ \A s \in Settings : x[s] = Overridden(p, cfg, made, s)
  BY <1>1 DEF ModelOK
<1>3. c \in Configurations /\ (c.kind = "embed" \/ llm.state # "ready" => made = <<>>)
  BY <1>1 DEF ModelOK
<1>4. /\ c.kind \in {"chat", "embed", "llm"} /\ p \in AllProviders
      /\ \A s \in Settings : Asked(c, s) # "throws" /\ c.own[s] # "throws"
      /\ \A s \in Variables : c.env[s] # "throws"
  BY <1>3, ConfigAssumption DEF LikeOpenAI, AllProviders, Asked, FactorySettings, Settings
<1>5. \A s \in Settings \ Overridable : x[s] = cfg[s]
  BY <1>2 DEF Overridden, Known
<1>6. \A s \in Overridable : x[s] = e(s)
  <2> SUFFICES ASSUME NEW s \in Overridable PROVE x[s] = e(s)
    OBVIOUS
  <2>1. s \in Settings
    BY DEF Settings, Overridable
  <2>2. cfg[s] = Asked(c, s) \/ s = "model"
    BY <1>2 DEF MadeWith, Overridable
  <2>3. s = "model" => cfg[s] = IF Loaded(c) THEN OrElse(Asked(c, s), GetEnv(c.env[s], "default"))
                                ELSE Asked(c, s)
    BY <1>2 DEF MadeWith
  <2> QED BY <1>2, <2>1, <2>2, <2>3, SettingIs
<1>7. x.host = e("host") /\ (openai => x.api_key = e("api_key"))
  <2>1. x.host = cfg.host /\ x.api_key = cfg.api_key
    BY <1>5 DEF Settings, Overridable
  <2>2. openai => cfg.api_key = IF Loaded(c) THEN OrElse(Asked(c, "api_key"), GetEnv(c.env.api_key, Unset))
                                ELSE Asked(c, "api_key")
    BY <1>2 DEF MadeWith
  <2>3. cfg.host = IF Loaded(c) THEN OrElse(Asked(c, "host"), GetEnv(c.env.host, "default"))
                   ELSE Asked(c, "host")
    BY <1>2 DEF MadeWith
  <2>4. e("host") = IF Asked(c, "host") # Unset THEN Asked(c, "host")
                    ELSE IF Loaded(c) THEN GetEnv(c.env.host, "default") ELSE Unset
    BY FixedIs
  <2>5. e("api_key") = IF Asked(c, "api_key") # Unset THEN Asked(c, "api_key")
                       ELSE IF Loaded(c) THEN GetEnv(c.env.api_key, Unset) ELSE Unset
    BY FixedIs
  <2> HIDE DEF e, openai, x
  <2> QED BY <2>1, <2>2, <2>3, <2>4, <2>5 DEF OrElse
<1>8. /\ x.port # "throws" => x.port = e("port")
      /\ x.port = "throws" => e("port") = Unset
  <2>1. x.port = IF Loaded(c) THEN OrElse(Asked(c, "port"), GetIntEnv(c.env.port, "default"))
                 ELSE Asked(c, "port")
    BY <1>2, <1>5 DEF MadeWith, Settings, Overridable
  <2>2. e("port") = IF Asked(c, "port") # Unset THEN Asked(c, "port")
                    ELSE IF Loaded(c) THEN GetEnv(c.env.port, "default") ELSE Unset
    BY FixedIs
  <2>3. Asked(c, "port") # "throws" /\ c.env.port # "throws"
    BY <1>4 DEF Settings, Variables
  <2> HIDE DEF e, x
  <2> QED BY <2>1, <2>2, <2>3 DEF OrElse, GetIntEnv, GetEnv, Unset
<1>9. /\ Asked(c, "protocol") # Unset => x.protocol = Asked(c, "protocol")
      /\ Loaded(c) => x.protocol # Unset
  BY <1>2, <1>5 DEF MadeWith, Settings, Overridable
<1>10. /\ x.dimension = cfg.dimension /\ x.port = cfg.port
       /\ c.kind = "embed" /\ Asked(c, "dimension") # Unset => x.dimension = Asked(c, "dimension")
       /\ Asked(c, "dimension") # "throws" /\ c.own.dimension # "throws"
       /\ c.kind # "embed" => x.dimension = c.own.dimension
       /\ c.kind = "embed" /\ Asked(c, "dimension") = Unset /\ x.dimension \in {Unset, "throws"}
             => GetEnv(c.env.dimension, Unset) = Unset
  BY <1>2, <1>4, <1>5 DEF MadeWith, Settings, Overridable
<1>11. llm.state \in {"ready", "failed"}
       /\ (llm.state = "ready" <=> /\ p # "local" /\ x.port # "throws" /\ x.dimension # "throws"
                                   /\ c.kind = "embed" /\ openai => x.dimension # Unset)
  BY <1>2, <1>10 DEF Created
<1> SUFFICES ASSUME NEW stream \in {FALSE, c.kind # "embed"}
             PROVE  LET r == Send(stream)
                    IN  IF r.sent
                    THEN /\ r.body.model = e("model")
                         /\ c.kind = "embed" \/ r.body.temperature = e("temperature")
                         /\ openai => r.body.api_key = e("api_key")
                         /\ c.kind # "embed" /\ (c.kind = "chat" \/ openai \/ stream) =>
                                r.body.stop_words = e("stop_words")
                         /\ c.kind # "embed" /\ openai => r.body.top_p = e("top_p")
                         /\ r.url.host = e("host")
                         /\ e("port") # Unset => r.url.port = e("port")
                         /\ Asked(c, "protocol") # Unset => r.url.protocol = Asked(c, "protocol")
                         /\ c.kind = "embed" /\ openai =>
                                /\ r.body.dimension # Unset
                                /\ c.options.dimension # Unset => r.body.dimension = c.options.dimension
                    ELSE \/ e("port") = Unset
                         \/ stream /\ e("host") = Unset
                         \/ stream /\ c.kind = "llm" /\ openai /\ c.own.protocol = Unset
                         \/ p = "local"
                         \/ c.kind = "embed" /\ c.options.dimension = Unset
                            /\ GetEnv(c.env.dimension, Unset) = Unset
  BY DEF RequestIsConfigured
<1> DEFINE r == Send(stream)
           msg == RequestOf(c.kind, p, stream, x)
           url == CreateUrlString(x)
<1>O. /\ c.kind = "embed" => Asked(c, "dimension") = c.options.dimension
      /\ c.kind = "llm" => Asked(c, "protocol") = c.own.protocol
  BY DEF Asked, FactorySettings
<1>12. stream \in BOOLEAN /\ (stream => c.kind # "embed")
  OBVIOUS
<1>13. CASE llm.state = "failed" \/ (stream /\ ~ AssertHttpRequest(x))
  <2>1. r = [sent |-> FALSE]
    BY <1>13 DEF Send
  <2>2. \/ e("port") = Unset
        \/ stream /\ e("host") = Unset
        \/ stream /\ c.kind = "llm" /\ openai /\ c.own.protocol = Unset
        \/ p = "local"
        \/ c.kind = "embed" /\ c.options.dimension = Unset /\ GetEnv(c.env.dimension, Unset) = Unset
    <3>1. CASE llm.state = "failed"
      <4>1. \/ x.port = "throws" \/ x.dimension = "throws" \/ (c.kind = "embed" /\ x.dimension = Unset)
            \/ p = "local"
        BY <3>1, <1>11
      <4> HIDE DEF e, x, c, p
      <4> QED BY <4>1, <1>8, <1>10, <1>O
    <3>2. CASE stream /\ llm.state # "failed"
      <4>1. x.host = Unset \/ x.port = Unset \/ x.protocol = Unset
        BY <3>2, <1>13 DEF AssertHttpRequest
      <4>2. x.port = Unset => e("port") = Unset
        BY <1>8 DEF Unset
      <4>3. x.protocol = Unset => c.kind = "llm" /\ openai /\ c.own.protocol = Unset
        BY <1>9, <1>O DEF Loaded
      <4> HIDE DEF e, x, c, p, openai
      <4> QED BY <3>2, <4>1, <4>2, <4>3, <1>7
    <3> QED BY <1>13, <3>1, <3>2
  <2> HIDE DEF e, c, p, openai
  <2> QED BY <2>1, <2>2
<1>14. CASE ~ (llm.state = "failed" \/ (stream /\ ~ AssertHttpRequest(x)))
  <2>1. r = [sent |-> TRUE, body |-> msg, url |-> url]
    BY <1>14 DEF Send
  <2>2. llm.state = "ready" /\ x.port # "throws"
    BY <1>11, <1>14
  <2>3. url.host = x.host /\ url.protocol = x.protocol /\ (x.port # Unset => url.port = x.port)
    BY DEF CreateUrlString, OrElse
  <2>4. /\ msg.model = x.model
        /\ c.kind # "embed" => msg.temperature = x.temperature
        /\ openai => msg.api_key = x.api_key
        /\ c.kind # "embed" /\ (c.kind = "chat" \/ openai \/ stream) => msg.stop_words = x.stop_words
        /\ c.kind # "embed" /\ openai => msg.top_p = x.top_p
        /\ c.kind = "embed" /\ openai => msg.dimension = x.dimension
    <3>1. p \in LikeOpenAI \cup {"ollama"}
      BY <1>4, <1>11, <2>2 DEF AllProviders
    <3> HIDE DEF c, p, x
    <3> QED BY <1>4, <3>1, <1>12, RequestIs
  <2>9. c.kind = "embed" /\ openai => x.dimension # Unset
    BY <1>11, <2>2
  <2>10. /\ x.model = e("model") /\ x.temperature = e("temperature")
         /\ x.stop_words = e("stop_words") /\ x.top_p = e("top_p")
    BY <1>6 DEF Overridable
  <2> HIDE DEF e, c, p, openai, x, msg, url
  <2> QED BY <1>7, <1>8, <1>9, <1>10, <1>O, <2>1, <2>2, <2>3, <2>4, <2>9, <2>10
<1> QED BY <1>11, <1>13, <1>14

(* Whatever the application's options, its environment and the number of    *)
(* overrides, a model sends the settings that were made last, and sends     *)
(* nothing only where a number, a dimension or an endpoint is missing.      *)
THEOREM RequestsAreConfigured == ConfigSpec => []RequestIsConfigured
BY SentIs, ConfigInvariant, PTL

================================================================================
