-------------------------- MODULE AssistantApiProofs --------------------------
(***************************************************************************)
(* What holds of the assistant API for any number of HTTP workers, requests *)
(* and crashes: a file that has a row has an object, a deletion is claimed  *)
(* by one request, and what outlives a deleted thread came after the        *)
(* deletion began.  No statement is in a transaction, so each argument is   *)
(* about what the statements that are still to come will find.              *)
(***************************************************************************)
EXTENDS AssistantApi, FiniteSetTheorems, TLAPS

(* Every service function, and what is left of one from statement k on.     *)
Programs ==
    {CreateThread(TRUE), CreateThread(FALSE), CreateThreadAndRun, CreateRun(TRUE),
     CreateRun(FALSE), CreateMessage, CreateAssistant, DeleteThread, DeleteAssistant,
     UploadFile, DeleteFile, DownloadFile, ModifyThread, ModifyMessage, ModifyAssistant,
     ExecuteRun, <<"Read">>, <<"AnswerError">>}

Rest(p, k) == SubSeq(p, k, Len(p))

Fields == {"op", "want", "todo", "ids", "thread", "messages", "batch", "target", "old", "since",
           "count"}

(* A thread executes one of the programs from some statement on.            *)
ThreadInv ==
    /\ DOMAIN worker = Threads
    /\ \A t \in Threads :
         /\ DOMAIN worker[t] = Fields
         /\ \E p \in Programs : \E k \in 1..Len(p) + 1 : worker[t].todo = Rest(p, k)
         /\ worker[t].old \in Nat /\ worker[t].batch \in Seq(Nat)

TimeInv ==
    /\ clock \in Nat /\ gen \in Nat
    /\ \A t \in Threads : worker[t].since \in Nat /\ worker[t].since <= clock
    /\ \A j \in DOMAIN cut : cut[j] \in Nat /\ cut[j] <= clock

(* The kinds of rows that a request deletes by their own id.                *)
Owned == {"thread", "assistant", "file"}

NameOf(kind) == IF kind = "thread" THEN "ThreadId"
                ELSE IF kind = "assistant" THEN "AssistantId" ELSE "FileId"
InsertOf(kind) == IF kind = "thread" THEN "InsertOneThread"
                  ELSE IF kind = "assistant" THEN "InsertOneAssistant" ELSE "InsertOneFile"
DeleteOf(kind) == IF kind = "thread" THEN "DeleteThreadRow"
                  ELSE IF kind = "assistant" THEN "DeleteAssistantRow" ELSE "DeleteObject"

(* Statement s is still to come in what thread x does; the id it will       *)
(* insert is drawn; it will delete its target; its object is stored; its    *)
(* row is deleted; the rows of a kind in its thread are deleted.            *)
Left(x, s) == s \in Range(x.todo)
Pending(x, kind) == Left(x, InsertOf(kind)) /\ ~ Left(x, NameOf(kind))
IdOf(x, kind) == x.ids[NameOf(kind)]
Deleting(x, kind) == Left(x, DeleteOf(kind))
Stored(x) == Pending(x, "file") /\ ~ Left(x, "PutObject")
RowGone(x) == Left(x, "DeleteObject") /\ ~ Left(x, "DeleteFileRow")
SweepOf(kind) == IF kind = "run" THEN "DeleteManyRuns"
                 ELSE IF kind = "step" THEN "DeleteManyRunSteps" ELSE "DeleteManyMessages"
Swept(x, kind) == Left(x, "DeleteThreadRow") /\ ~ Left(x, SweepOf(kind))

(* Every id in use was handed out by the generator; 0 is no id.             *)
KnownInv ==
    /\ \A i \in DOMAIN issued : i \in Nat \ {0} /\ issued[i] \in Nat \ {0}
    /\ objects \subseteq DOMAIN issued
    /\ \A r \in rows : r.kind \in Owned => r.id \in DOMAIN issued
    /\ \A c \in DOMAIN claims : /\ c = <<c[1], c[2]>>
                                /\ c[2] \in DOMAIN issued /\ claims[c] \in Nat
    /\ \A t \in Threads, kind \in Owned :
         /\ Pending(worker[t], kind) => /\ NameOf(kind) \in DOMAIN worker[t].ids
                                        /\ IdOf(worker[t], kind) \in DOMAIN issued
         /\ Deleting(worker[t], kind) => worker[t].target \in DOMAIN issued \cup {0}

(* An id that was handed out once and is about to be inserted is not yet    *)
(* known to anybody else.                                                   *)
Unheard(t, kind, i) ==
    /\ i \notin IdsOf(kind)
    /\ <<kind, i>> \notin DOMAIN claims
    /\ \A u \in Threads : /\ Deleting(worker[u], kind) => worker[u].target # i
                          /\ u # t /\ Pending(worker[u], kind) => IdOf(worker[u], kind) # i

FreshInv ==
    \A t \in Threads, kind \in Owned :
        Pending(worker[t], kind) => \/ IdOf(worker[t], kind) \in Duplicated
                                    \/ Unheard(t, kind, IdOf(worker[t], kind))

(* The object of a file is there from before its row until after.           *)
ObjectInv ==
    /\ \A t \in Threads : Stored(worker[t]) => IdOf(worker[t], "file") \in objects \cup Duplicated
    /\ \A t \in Threads : RowGone(worker[t]) => \/ worker[t].target \notin IdsOf("file")
                                                \/ worker[t].target \in Duplicated

(* Nobody claimed the deletion of a row that is there, nor that of a file   *)
(* whose row one request has just deleted.                                  *)
Holds(x) == RowGone(x) /\ x.count = 1

ClaimInv ==
    /\ \A kind \in Owned : \A i \in IdsOf(kind) : <<kind, i>> \in DOMAIN claims => i \in Duplicated
    /\ \A t \in Threads : Holds(worker[t]) /\ worker[t].target \notin Duplicated =>
         /\ <<"file", worker[t].target>> \notin DOMAIN claims
         /\ \A u \in Threads : Holds(worker[u]) /\ worker[u].target = worker[t].target => u = t

(* Of what was in a thread when its deletion began, the kinds that are      *)
(* deleted already have no row.                                             *)
Contents == {"run", "step", "message"}

RowOK(r) == /\ DOMAIN r = {"kind", "id", "thread", "status", "at"}
            /\ r.kind \in Kinds /\ (r.kind \in Owned => r.thread = 0) /\ r.at \in Nat

SweepInv ==
    /\ 0 \notin DOMAIN cut
    /\ \A r \in rows : RowOK(r)
    /\ \A t \in Threads, r \in rows :
         r.kind \in Contents /\ Swept(worker[t], r.kind) /\ r.thread = worker[t].target
            => r.at > worker[t].since

OwnedInv == /\ KnownInv /\ FreshInv /\ ObjectInv /\ RowHasObject
            /\ ClaimInv /\ DeletionClaimedOnce

IInv == ThreadInv /\ TimeInv /\ OwnedInv /\ SweepInv /\ OrphansAreLate

-----------------------------------------------------------------------------
(* The order of the statements in the service functions.                    *)

(* Every b of the program p has an a before it, and none behind it.         *)
Before(p, a, b) ==
    \A j \in 1..Len(p) : p[j] = b => /\ \E i \in 1..Len(p) : p[i] = a
                                     /\ \A i \in 1..Len(p) : p[i] = a => i < j

(* The statements of the service functions.                                *)
Statements ==
    {"ThreadId", "MessageId", "InsertManyMessages", "InsertOneThread", "AnswerThread",
     "RunId", "InsertOneRun", "RetrieveRun", "Enqueue", "InsertOneMessages",
     "AnswerMessage", "AssistantId", "InsertOneAssistant", "AnswerAssistant",
     "CheckActiveRuns", "DeleteManyRuns", "DeleteManyRunSteps", "DeleteManyMessages",
     "DeleteThreadRow", "DeleteAssistantRow", "FileId", "PutObject", "GetObjectState",
     "InsertOneFile", "AnswerFile", "FindFile", "DeleteFileRow", "DeleteObject",
     "GetObject", "Update", "MarkInProgress", "StepId", "InsertOneRunStep",
     "MarkCompleted", "Read", "AnswerError"}

(* What the arguments below use of the order of a program p: no statement   *)
(* occurs twice; an id is drawn before it is inserted or its object is      *)
(* stored; the object of a file is stored before its row and deleted after  *)
(* it; the row of a thread is deleted after what it contains.               *)
Orderly(p) ==
    /\ p \in Seq(Statements)
    /\ \A i, j \in 1..Len(p) : p[i] = p[j] => i = j
    /\ \A kind \in Owned : Before(p, NameOf(kind), InsertOf(kind))
    /\ Before(p, "FileId", "PutObject") /\ Before(p, "PutObject", "InsertOneFile")
    /\ Before(p, "DeleteFileRow", "DeleteObject")
    /\ \A kind \in Contents : Before(p, SweepOf(kind), "DeleteThreadRow")
    /\ \A i \in 1..Len(p) : p[i] = "PutObject" => \E j \in 1..Len(p) : p[j] = "InsertOneFile"

(* Every service function keeps this order.                                 *)
LEMMA ProgramsOrderly == \A p \in Programs : Orderly(p)
<1>1. Orderly(<<"ThreadId", "MessageId", "InsertManyMessages", "InsertOneThread",
              "AnswerThread">>)
  BY DEF Orderly, Statements, Before, Owned, NameOf, InsertOf, Contents, SweepOf
<1>2. Orderly(<<"ThreadId", "InsertOneThread", "AnswerThread">>)
  BY DEF Orderly, Statements, Before, Owned, NameOf, InsertOf, Contents, SweepOf
<1>3. Orderly(<<"RunId", "ThreadId", "InsertOneThread", "MessageId", "InsertManyMessages",
              "InsertOneRun", "RetrieveRun", "Enqueue">>)
  BY DEF Orderly, Statements, Before, Owned, NameOf, InsertOf, Contents, SweepOf
<1>4. Orderly(<<"RunId", "MessageId", "InsertManyMessages", "InsertOneRun",
              "RetrieveRun", "Enqueue">>)
  BY DEF Orderly, Statements, Before, Owned, NameOf, InsertOf, Contents, SweepOf
<1>5. Orderly(<<"RunId", "InsertOneRun", "RetrieveRun", "Enqueue">>)
  BY DEF Orderly, Statements, Before, Owned, NameOf, InsertOf, Contents, SweepOf
<1>6. Orderly(<<"MessageId", "InsertOneMessages", "AnswerMessage">>)
  BY DEF Orderly, Statements, Before, Owned, NameOf, InsertOf, Contents, SweepOf
<1>7. Orderly(<<"AssistantId", "InsertOneAssistant", "AnswerAssistant">>)
  BY DEF Orderly, Statements, Before, Owned, NameOf, InsertOf, Contents, SweepOf
<1>8. Orderly(<<"CheckActiveRuns", "DeleteManyRuns", "DeleteManyRunSteps", "DeleteManyMessages",
              "DeleteThreadRow">>)
  BY DEF Orderly, Statements, Before, Owned, NameOf, InsertOf, Contents, SweepOf
<1>9. Orderly(<<"DeleteAssistantRow">>)
  BY DEF Orderly, Statements, Before, Owned, NameOf, InsertOf, Contents, SweepOf
<1>10. Orderly(<<"FileId", "PutObject", "GetObjectState", "InsertOneFile", "AnswerFile">>)
  BY DEF Orderly, Statements, Before, Owned, NameOf, InsertOf, Contents, SweepOf
<1>11. Orderly(<<"FindFile", "DeleteFileRow", "DeleteObject">>)
  BY DEF Orderly, Statements, Before, Owned, NameOf, InsertOf, Contents, SweepOf
<1>12. Orderly(<<"FindFile", "GetObject">>)
  BY DEF Orderly, Statements, Before, Owned, NameOf, InsertOf, Contents, SweepOf
<1>13. Orderly(<<"Update">>)
  BY DEF Orderly, Statements, Before, Owned, NameOf, InsertOf, Contents, SweepOf
<1>14. Orderly(<<"MarkInProgress", "MessageId", "InsertOneMessages", "StepId",
              "InsertOneRunStep", "MarkCompleted">>)
  BY DEF Orderly, Statements, Before, Owned, NameOf, InsertOf, Contents, SweepOf
<1>15. Orderly(<<"Read">>)
  BY DEF Orderly, Statements, Before, Owned, NameOf, InsertOf, Contents, SweepOf
<1>16. Orderly(<<"AnswerError">>)
  BY DEF Orderly, Statements, Before, Owned, NameOf, InsertOf, Contents, SweepOf
<1> QED
  BY <1>1, <1>2, <1>3, <1>4, <1>5, <1>6, <1>7, <1>8, <1>9, <1>10, <1>11, <1>12, <1>13, <1>14, <1>15,
     <1>16
     DEF Programs, CreateThread, CreateThreadAndRun, CreateRun, CreateMessage,
         CreateAssistant, DeleteThread, DeleteAssistant, UploadFile, DeleteFile, DownloadFile,
         ModifyThread, ModifyMessage, ModifyAssistant, ExecuteRun

-----------------------------------------------------------------------------
(* What is left of a program.                                               *)

Doing(s) == \E p \in Programs : \E k \in 1..Len(p) + 1 : s = Rest(p, k)

(* The rest of a program from statement k on: its first statement, what     *)
(* follows it, and which statements it holds.                               *)
LEMMA RestIs ==
    ASSUME NEW p \in Programs, NEW k \in 1..Len(p) + 1
    PROVE  /\ k \in 1..Len(p) => /\ Rest(p, k) # <<>> /\ Head(Rest(p, k)) = p[k]
                                 /\ Tail(Rest(p, k)) = Rest(p, k + 1)
                                 /\ k + 1 \in 1..Len(p) + 1
           /\ k = Len(p) + 1 => Rest(p, k) = <<>>
           /\ Range(Rest(p, k)) = {p[j] : j \in k..Len(p)}
<1>1. p \in Seq(Statements) /\ Len(p) \in Nat
  BY ProgramsOrderly DEF Orderly
<1>2. /\ Rest(p, k) \in Seq(Statements) /\ Len(Rest(p, k)) = Len(p) - k + 1
      /\ \A i \in 1..Len(p) - k + 1 : Rest(p, k)[i] = p[k + i - 1]
  BY <1>1 DEF Rest
<1>3. k \in 1..Len(p) => /\ Rest(p, k) # <<>> /\ Head(Rest(p, k)) = p[k]
                         /\ Tail(Rest(p, k)) = Rest(p, k + 1)
                         /\ k + 1 \in 1..Len(p) + 1
  <2> SUFFICES ASSUME k \in 1..Len(p)
               PROVE  /\ Rest(p, k) # <<>> /\ Head(Rest(p, k)) = p[k]
                      /\ Tail(Rest(p, k)) = Rest(p, k + 1)
                      /\ k + 1 \in 1..Len(p) + 1
    OBVIOUS
  <2>1. /\ Rest(p, k + 1) \in Seq(Statements) /\ Len(Rest(p, k + 1)) = Len(p) - k
        /\ \A i \in 1..Len(p) - k : Rest(p, k + 1)[i] = p[k + i]
    BY <1>1 DEF Rest
  <2>2. Len(Rest(p, k)) >= 1 /\ k + 1 - 1 = k /\ 1 \in 1..Len(p) - k + 1
    BY <1>1, <1>2
  <2>3. Rest(p, k) # <<>> /\ Head(Rest(p, k)) = p[k]
    BY <1>1, <1>2, <2>2
  <2> DEFINE s == Rest(p, k)  u == Rest(p, k + 1)
  <2>4. /\ Tail(s) \in Seq(Statements) /\ Len(Tail(s)) = Len(p) - k
        /\ \A i \in 1..Len(p) - k : Tail(s)[i] = s[i + 1]
    BY <1>1, <1>2, <2>2, <2>3
  <2>5. \A i \in 1..Len(p) - k : i + 1 \in 1..Len(p) - k + 1 /\ k + (i + 1) - 1 = k + i
    BY <1>1
  <2>6. \A i \in 1..Len(p) - k : Tail(s)[i] = u[i]
    <3> SUFFICES ASSUME NEW i \in 1..Len(p) - k PROVE Tail(s)[i] = u[i]
      OBVIOUS
    <3>1. s[i + 1] = p[k + i]
      BY <1>2, <2>5
    <3> QED BY <2>1, <2>4, <3>1
  <2>7. Tail(s) = u
    <3> DEFINE v == Tail(s)
    <3>1. u \in Seq(Statements) /\ Len(u) = Len(p) - k
      BY <2>1
    <3>2. v \in Seq(Statements) /\ Len(v) = Len(p) - k
      BY <2>4
    <3>3. \A i \in 1..Len(p) - k : v[i] = u[i]
      BY <2>6
    <3>4. Len(p) - k \in Nat
      BY <1>1
    <3> HIDE DEF s, u, v
    <3>5. v = u
      BY <3>1, <3>2, <3>3, <3>4
    <3> QED BY <3>5 DEF v
  <2> QED BY <1>1, <2>3, <2>7
<1>4. k = Len(p) + 1 => Rest(p, k) = <<>>
  BY <1>1, <1>2
<1>5. Range(Rest(p, k)) = {p[j] : j \in k..Len(p)}
  <2>1. DOMAIN Rest(p, k) = 1..Len(p) - k + 1
    BY <1>2
  <2>2. ASSUME NEW j \in k..Len(p) PROVE p[j] \in Range(Rest(p, k))
    <3>1. j - k + 1 \in 1..Len(p) - k + 1 /\ k + (j - k + 1) - 1 = j
      BY <1>1
    <3> QED BY <1>1, <1>2, <2>1, <3>1 DEF Range
  <2>3. ASSUME NEW s \in Range(Rest(p, k)) PROVE s \in {p[j] : j \in k..Len(p)}
    <3>1. PICK i \in 1..Len(p) - k + 1 : s = Rest(p, k)[i]
      BY <2>1 DEF Range
    <3>2. k + i - 1 \in k..Len(p)
      BY <1>1
    <3> QED BY <1>1, <1>2, <3>1, <3>2
  <2> QED BY <2>2, <2>3
<1> QED BY <1>3, <1>4, <1>5

(* Executing the first statement of what is left takes exactly this         *)
(* statement away, and the order of the programs tells what was executed    *)
(* before and what is still to come.                                        *)
LEMMA Advance ==
    ASSUME NEW s, Doing(s), s # <<>>
    PROVE  /\ Doing(Tail(s))
           /\ Head(s) \in Range(s)
           /\ Range(Tail(s)) = Range(s) \ {Head(s)}
           /\ \A kind \in Owned : Head(s) = InsertOf(kind) => NameOf(kind) \notin Range(s)
           /\ Head(s) = "PutObject" => "FileId" \notin Range(s) /\ "InsertOneFile" \in Range(s)
           /\ Head(s) = "InsertOneFile" => "PutObject" \notin Range(s)
           /\ Head(s) = "FileId" /\ "InsertOneFile" \in Range(s) => "PutObject" \in Range(s)
           /\ Head(s) = "DeleteObject" => "DeleteFileRow" \notin Range(s)
           /\ \A kind \in Contents : Head(s) = "DeleteThreadRow" => SweepOf(kind) \notin Range(s)
<1>1. PICK p \in Programs : \E k \in 1..Len(p) + 1 : s = Rest(p, k)
  BY DEF Doing
<1>2. PICK k \in 1..Len(p) + 1 : s = Rest(p, k)
  BY <1>1
<1>3. p \in Seq(Statements) /\ Len(p) \in Nat /\ Orderly(p)
  BY ProgramsOrderly DEF Orderly
<1>4. k \in 1..Len(p) /\ Head(s) = p[k] /\ Tail(s) = Rest(p, k + 1) /\ k + 1 \in 1..Len(p) + 1
  BY <1>2, <1>3, RestIs
<1>5. Range(s) = {p[j] : j \in k..Len(p)} /\ Range(Tail(s)) = {p[j] : j \in k + 1..Len(p)}
  BY <1>2, <1>4, RestIs
<1>6. Doing(Tail(s))
  BY <1>4 DEF Doing
<1>7. \A i, j \in 1..Len(p) : p[i] = p[j] => i = j
  BY <1>3 DEF Orderly
<1>8. Head(s) \in Range(s) /\ Range(Tail(s)) = Range(s) \ {Head(s)}
  <2>1. k \in k..Len(p) /\ \A j \in k..Len(p) : j \in 1..Len(p) /\ (j = k \/ j \in k + 1..Len(p))
    BY <1>3, <1>4
  <2>2. \A j \in k + 1..Len(p) : j \in k..Len(p) /\ j # k
    BY <1>3, <1>4
  <2> QED BY <1>4, <1>5, <1>7, <2>1, <2>2
<1>9. \A a, b : Before(p, a, b) /\ Head(s) = b => a \notin Range(s)
  <2> SUFFICES ASSUME NEW a, NEW b, Before(p, a, b), p[k] = b, NEW j \in k..Len(p), p[j] = a
               PROVE  FALSE
    BY <1>4, <1>5
  <2>1. j \in 1..Len(p) /\ k \in 1..Len(p) /\ ~ (j < k)
    BY <1>3, <1>4
  <2> QED BY <2>1 DEF Before
<1>10. Head(s) = "PutObject" => "InsertOneFile" \in Range(s)
  <2> SUFFICES ASSUME Head(s) = "PutObject" PROVE "InsertOneFile" \in Range(s)
    OBVIOUS
  <2>1. PICK j \in 1..Len(p) : p[j] = "InsertOneFile"
    BY <1>3, <1>4 DEF Orderly
  <2>2. k < j
    BY <1>3, <1>4, <2>1 DEF Orderly, Before
  <2>3. j \in k..Len(p)
    BY <1>3, <1>4, <2>2
  <2> QED BY <1>5, <2>1, <2>3
<1>11. Head(s) = "FileId" /\ "InsertOneFile" \in Range(s) => "PutObject" \in Range(s)
  <2> SUFFICES ASSUME Head(s) = "FileId", "InsertOneFile" \in Range(s)
               PROVE  "PutObject" \in Range(s)
    OBVIOUS
  <2>1. PICK j \in k..Len(p) : p[j] = "InsertOneFile"
    BY <1>5
  <2>2. j \in 1..Len(p)
    BY <1>3, <1>4
  <2>3. PICK i \in 1..Len(p) : p[i] = "PutObject"
    BY <1>3, <2>1, <2>2 DEF Orderly, Before
  <2>4. k < i
    BY <1>3, <1>4, <2>3 DEF Orderly, Before
  <2>5. i \in k..Len(p)
    BY <1>3, <1>4, <2>4
  <2> QED BY <1>5, <2>3, <2>5
<1> QED BY <1>3, <1>6, <1>8, <1>9, <1>10, <1>11 DEF Orderly

-----------------------------------------------------------------------------
(* What a statement does to the threads.                                    *)

Others(w) == \A t \in Threads : t # w => worker'[t] = worker[t]

(* y is x behind its first statement.                                       *)
Moved(y, x) ==
    /\ DOMAIN y = Fields /\ y.todo = Tail(x.todo) /\ y.old = x.old /\ y.ids = x.ids
    /\ y.batch = x.batch /\ y.target = x.target /\ y.since = x.since /\ y.count = x.count

WorkerOK(x) == DOMAIN x = Fields /\ Doing(x.todo) /\ x.old \in Nat /\ x.batch \in Seq(Nat)

(* y will do no more than x, and to the same rows and objects.              *)
SameId(y, x, kind) == /\ IdOf(y, kind) = IdOf(x, kind)
                      /\ NameOf(kind) \in DOMAIN x.ids => NameOf(kind) \in DOMAIN y.ids

LighterOwned(y, x) ==
    /\ \A kind \in Owned : Pending(y, kind) => Pending(x, kind) /\ SameId(y, x, kind)
    /\ \A kind \in Owned : Deleting(y, kind) => Deleting(x, kind) /\ y.target = x.target
    /\ Stored(y) => Stored(x)
    /\ RowGone(y) => RowGone(x) /\ y.count = x.count

LighterSwept(y, x) ==
    \A kind \in Contents :
        Swept(y, kind) => Swept(x, kind) /\ y.since = x.since /\ y.target = x.target

Lighter(y, x) == LighterOwned(y, x) /\ LighterSwept(y, x)

(* The statements whose execution an invariant above takes note of.         *)
OwnedMarks == {"ThreadId", "AssistantId", "FileId", "PutObject", "DeleteFileRow"}
SweepMarks == {"DeleteManyRuns", "DeleteManyRunSteps", "DeleteManyMessages"}
Marks == OwnedMarks \cup SweepMarks

(* ThreadInv for one thread.                                                *)
LEMMA ThreadInvIs == ThreadInv <=> DOMAIN worker = Threads /\ \A t \in Threads : WorkerOK(worker[t])
BY DEF ThreadInv, WorkerOK, Doing

(* A thread with nothing to do.                                             *)
LEMMA IdleIs == WorkerOK(Idle) /\ Idle.since = 0 /\ Idle.todo = <<>> /\ \A x : Lighter(Idle, x)
<1>1. /\ DOMAIN Idle = Fields /\ Idle.old = 0 /\ Idle.since = 0 /\ Idle.todo = <<>>
      /\ Idle.batch = <<>>
  BY DEF Idle, Fields
<1>2. Doing(<<>>)
  <2> DEFINE p == <<"Read">>
  <2>1. p \in Programs /\ Len(p) = 1
    BY DEF Programs
  <2> HIDE DEF p
  <2>2. 2 \in 1..Len(p) + 1 /\ 2 = Len(p) + 1
    BY <2>1
  <2>3. Rest(p, 2) = <<>>
    BY <2>1, <2>2, RestIs
  <2> QED BY <2>1, <2>2, <2>3 DEF Doing
<1>3. \A s : ~ Left(Idle, s)
  BY <1>1 DEF Left, Range
<1> QED BY <1>1, <1>2, <1>3 DEF WorkerOK, Lighter, LighterOwned, LighterSwept, Pending, Deleting, Stored, RowGone, Swept

(* Go ends the request or moves it behind its statement.                    *)
LEMMA GoIs ==
    ASSUME DOMAIN worker = Threads, NEW w \in Threads, NEW me, DOMAIN me = Fields, Go(w, me)
    PROVE  DOMAIN worker' = Threads /\ Others(w) /\ (worker'[w] = Idle \/ Moved(worker'[w], me))
<1>1. Moved(Next1(me), me)
  BY DEF Moved, Next1, Fields
<1> QED BY <1>1 DEF Go, Others

(* Stop ends it.                                                            *)
LEMMA StopIs ==
    ASSUME DOMAIN worker = Threads, NEW w \in Threads, Stop(w)
    PROVE  DOMAIN worker' = Threads /\ Others(w) /\ worker'[w] = Idle
BY DEF Stop, Others

(* A thread that moves stays in its program.                                *)
LEMMA MovedOK ==
    ASSUME NEW x, NEW y, WorkerOK(x), x.todo # <<>>, Moved(y, x)
    PROVE  WorkerOK(y)
BY Advance DEF WorkerOK, Moved

(* A statement that leaves no mark makes its thread lighter.                *)
LEMMA MovedLighter ==
    ASSUME NEW x, NEW y, WorkerOK(x), x.todo # <<>>, Moved(y, x)
    PROVE  /\ \A s : Left(y, s) <=> Left(x, s) /\ s # Head(x.todo)
           /\ Head(x.todo) \notin OwnedMarks => LighterOwned(y, x)
           /\ Head(x.todo) \notin SweepMarks => LighterSwept(y, x)
<1>1. \A s : Left(y, s) <=> Left(x, s) /\ s # Head(x.todo)
  BY Advance DEF WorkerOK, Moved, Left
<1>2. \A s : s # Head(x.todo) /\ ~ Left(y, s) => ~ Left(x, s)
  BY <1>1
<1>3. /\ \A kind \in Owned : NameOf(kind) \in OwnedMarks
      /\ \A kind \in Contents : SweepOf(kind) \in SweepMarks
      /\ "PutObject" \in OwnedMarks /\ "DeleteFileRow" \in OwnedMarks
  BY DEF Owned, NameOf, Contents, SweepOf, OwnedMarks, SweepMarks
<1>4. y.ids = x.ids /\ y.target = x.target /\ y.since = x.since /\ y.count = x.count
  BY DEF Moved
<1>5. ASSUME Head(x.todo) \notin OwnedMarks PROVE LighterOwned(y, x)
  <2>1. ASSUME NEW kind \in Owned, Pending(y, kind) PROVE Pending(x, kind)
    BY <1>1, <1>2, <1>3, <1>5, <2>1 DEF Pending
  <2>2. ASSUME NEW kind \in Owned, Deleting(y, kind) PROVE Deleting(x, kind)
    BY <1>1, <2>2 DEF Deleting
  <2>3. ASSUME Stored(y) PROVE Stored(x)
    BY <1>2, <1>3, <1>5, <2>1, <2>3 DEF Stored, Owned
  <2>4. ASSUME RowGone(y) PROVE RowGone(x)
    BY <1>1, <1>2, <1>3, <1>5, <2>4 DEF RowGone
  <2> QED BY <1>4, <2>1, <2>2, <2>3, <2>4 DEF LighterOwned, SameId, IdOf
<1>6. ASSUME Head(x.todo) \notin SweepMarks PROVE LighterSwept(y, x)
  <2>1. ASSUME NEW kind \in Contents, Swept(y, kind) PROVE Swept(x, kind)
    BY <1>1, <1>2, <1>3, <1>6, <2>1 DEF Swept
  <2> QED BY <1>4, <2>1 DEF LighterSwept
<1> QED BY <1>1, <1>5, <1>6

(* A thread that stays as it is is not heavier.                             *)
LEMMA LighterReflexive == \A x : Lighter(x, x)
BY DEF Lighter, LighterOwned, LighterSwept, SameId

-----------------------------------------------------------------------------
(* The invariants about rows that are deleted by their own id, and those    *)
(* about the contents of threads, for a step in which every thread is as    *)
(* before or lighter.                                                       *)

PendingLighter ==
    \A t \in Threads, kind \in Owned : Pending(worker'[t], kind) =>
        Pending(worker[t], kind) /\ SameId(worker'[t], worker[t], kind)
DeletingLighter ==
    \A t \in Threads, kind \in Owned : Deleting(worker'[t], kind) =>
        Deleting(worker[t], kind) /\ worker'[t].target = worker[t].target
StoredLighter ==
    \A t \in Threads : Stored(worker'[t]) =>
        Stored(worker[t]) /\ SameId(worker'[t], worker[t], "file")
GoneLighter ==
    \A t \in Threads : RowGone(worker'[t]) =>
        /\ RowGone(worker[t]) /\ worker'[t].target = worker[t].target
        /\ worker'[t].count = worker[t].count
OwnedLighter == PendingLighter /\ DeletingLighter /\ StoredLighter /\ GoneLighter
SweptLighter == \A t \in Threads : LighterSwept(worker'[t], worker[t])

(* Lighter threads, one by one.                                             *)
LEMMA AllLighter ==
    /\ (\A t \in Threads : LighterOwned(worker'[t], worker[t])) => OwnedLighter
    /\ (\A t \in Threads : Lighter(worker'[t], worker[t])) => OwnedLighter /\ SweptLighter
<1>1. \A y : /\ Stored(y) => Pending(y, "file")
             /\ RowGone(y) => Deleting(y, "file")
  BY DEF Stored, RowGone, Deleting, DeleteOf
<1>2. "file" \in Owned
  BY DEF Owned
<1>3. ASSUME \A t \in Threads : LighterOwned(worker'[t], worker[t]) PROVE OwnedLighter
  <2>1. PendingLighter /\ DeletingLighter
    BY <1>3 DEF LighterOwned, PendingLighter, DeletingLighter
  <2>2. StoredLighter /\ GoneLighter
    BY <1>1, <1>2, <1>3 DEF LighterOwned, StoredLighter, GoneLighter
  <2> QED BY <2>1, <2>2 DEF OwnedLighter
<1> QED BY <1>3 DEF Lighter, SweptLighter

(* Ids that are in use stay known when no owned row appears.                *)
LEMMA KnownKeeps ==
    ASSUME KnownInv, PendingLighter, DeletingLighter, UNCHANGED <<issued, claims>>,
           objects' \subseteq DOMAIN issued,
           \A kind \in Owned : IdsOf(kind)' \subseteq IdsOf(kind)
    PROVE  KnownInv'
<1>1. ASSUME NEW r \in rows', r.kind \in Owned PROVE r.id \in DOMAIN issued'
  <2>1. r.id \in IdsOf(r.kind)'
    BY DEF IdsOf
  <2>2. PICK q \in rows : q.kind = r.kind /\ q.id = r.id
    BY <1>1, <2>1 DEF IdsOf
  <2> QED BY <1>1, <2>2 DEF KnownInv
<1>2. ASSUME NEW t \in Threads, NEW kind \in Owned
      PROVE  /\ Pending(worker'[t], kind) => /\ NameOf(kind) \in DOMAIN worker'[t].ids
                                             /\ IdOf(worker'[t], kind) \in DOMAIN issued
             /\ Deleting(worker'[t], kind) => worker'[t].target \in DOMAIN issued \cup {0}
  BY DEF KnownInv, PendingLighter, DeletingLighter, SameId
<1> QED BY <1>1, <1>2 DEF KnownInv

(* Ids that are about to be inserted stay unheard of.                       *)
LEMMA FreshKeeps ==
    ASSUME FreshInv, PendingLighter, DeletingLighter, UNCHANGED claims,
           Duplicated \subseteq Duplicated',
           \A kind \in Owned : IdsOf(kind)' \subseteq IdsOf(kind)
    PROVE  FreshInv'
<1> SUFFICES ASSUME NEW t \in Threads, NEW kind \in Owned, Pending(worker'[t], kind),
                    IdOf(worker'[t], kind) \notin Duplicated'
             PROVE  Unheard(t, kind, IdOf(worker[t], kind))'
  BY DEF FreshInv
<1> DEFINE i == IdOf(worker'[t], kind)
<1>1. Pending(worker[t], kind) /\ IdOf(worker[t], kind) = i
  BY DEF PendingLighter, SameId
<1>2. Unheard(t, kind, i)
  BY <1>1 DEF FreshInv
<1> HIDE DEF i
<1>3. ASSUME NEW u \in Threads, Deleting(worker'[u], kind) PROVE worker'[u].target # i
  BY <1>2, <1>3 DEF Unheard, DeletingLighter
<1>4. ASSUME NEW u \in Threads, u # t, Pending(worker'[u], kind)
      PROVE  IdOf(worker'[u], kind) # i
  BY <1>2, <1>4 DEF Unheard, PendingLighter, SameId
<1>5. i \notin IdsOf(kind)' /\ <<kind, i>> \notin DOMAIN claims'
  BY <1>2 DEF Unheard
<1> QED BY <1>3, <1>4, <1>5 DEF Unheard, i

(* Objects stay with their rows.                                            *)
LEMMA ObjectsKeep ==
    ASSUME ObjectInv, RowHasObject, StoredLighter, GoneLighter, UNCHANGED objects,
           Duplicated \subseteq Duplicated', IdsOf("file")' \subseteq IdsOf("file")
    PROVE  ObjectInv' /\ RowHasObject'
<1>1. ASSUME NEW t \in Threads, Stored(worker'[t])
      PROVE  IdOf(worker'[t], "file") \in objects' \cup Duplicated'
  BY <1>1 DEF ObjectInv, StoredLighter, SameId
<1>2. ASSUME NEW t \in Threads, RowGone(worker'[t])
      PROVE  worker'[t].target \notin IdsOf("file")' \/ worker'[t].target \in Duplicated'
  BY <1>2 DEF ObjectInv, GoneLighter
<1> QED BY <1>1, <1>2 DEF ObjectInv, RowHasObject

(* Claims stay true.                                                        *)
LEMMA ClaimsKeep ==
    ASSUME ClaimInv, DeletionClaimedOnce, GoneLighter, UNCHANGED claims,
           Duplicated \subseteq Duplicated',
           \A kind \in Owned : IdsOf(kind)' \subseteq IdsOf(kind)
    PROVE  ClaimInv' /\ DeletionClaimedOnce'
<1>1. ASSUME NEW kind \in Owned, NEW i \in IdsOf(kind)', <<kind, i>> \in DOMAIN claims'
      PROVE  i \in Duplicated'
  BY <1>1 DEF ClaimInv
<1>2. ASSUME NEW t \in Threads, Holds(worker'[t])
      PROVE  Holds(worker[t]) /\ worker'[t].target = worker[t].target
  BY <1>2 DEF GoneLighter, Holds
<1>3. ASSUME NEW t \in Threads, Holds(worker'[t]), worker'[t].target \notin Duplicated'
      PROVE  /\ <<"file", worker'[t].target>> \notin DOMAIN claims'
             /\ \A u \in Threads : Holds(worker'[u]) /\ worker'[u].target = worker'[t].target
                   => u = t
  BY <1>2, <1>3 DEF ClaimInv
<1> QED BY <1>1, <1>3 DEF ClaimInv, DeletionClaimedOnce

(* Nothing about owned rows changes when no such row appears and objects,   *)
(* ids and claims stay.                                                     *)
LEMMA OwnedKeeps ==
    ASSUME OwnedInv, OwnedLighter, UNCHANGED <<objects, issued, claims>>,
           \A kind \in Owned : IdsOf(kind)' \subseteq IdsOf(kind)
    PROVE  OwnedInv'
<1>1. Duplicated \subseteq Duplicated' /\ "file" \in Owned
  BY DEF Duplicated, Owned
<1>2. objects' \subseteq DOMAIN issued
  BY DEF OwnedInv, KnownInv
<1> QED BY <1>1, <1>2, KnownKeeps, FreshKeeps, ObjectsKeep, ClaimsKeep DEF OwnedInv, OwnedLighter

(* Rows that differ in their status only.                                   *)
Resembles(r, q) == r.kind = q.kind /\ r.id = q.id /\ r.thread = q.thread /\ r.at = q.at

(* A new row is later than every deletion that has begun, so inserts and    *)
(* updates do not disturb what a deletion has swept.                        *)
LEMMA SweepKeeps ==
    ASSUME TimeInv, SweepInv, OrphansAreLate, SweptLighter, cut' = cut,
           IdsOf("thread") \subseteq IdsOf("thread")',
           \A r \in rows' : RowOK(r) /\ (r.at > clock \/ \E q \in rows : Resembles(r, q))
    PROVE  SweepInv' /\ OrphansAreLate'
<1>1. ASSUME NEW t \in Threads, NEW r \in rows', r.kind \in Contents, Swept(worker'[t], r.kind),
             r.thread = worker'[t].target
      PROVE  r.at > worker'[t].since
  <2>1. /\ Swept(worker[t], r.kind) /\ worker'[t].since = worker[t].since
        /\ worker'[t].target = worker[t].target
    BY <1>1 DEF SweptLighter, LighterSwept
  <2>2. worker[t].since \in Nat /\ worker[t].since <= clock /\ clock \in Nat /\ r.at \in Nat
    BY DEF TimeInv, RowOK
  <2>3. CASE r.at > clock
    BY <2>1, <2>2, <2>3
  <2>4. CASE \E q \in rows : Resembles(r, q)
    BY <1>1, <2>1, <2>4 DEF Resembles, SweepInv
  <2> QED BY <2>3, <2>4
<1>2. SweepInv'
  <2>1. \A r \in rows' : RowOK(r)'
    BY DEF RowOK
  <2>2. \A t \in Threads, r \in rows' :
          r.kind \in Contents /\ Swept(worker'[t], r.kind) /\ r.thread = worker'[t].target
            => r.at > worker'[t].since
    BY <1>1
  <2>3. 0 \notin DOMAIN cut'
    BY DEF SweepInv
  <2> QED BY <2>1, <2>2, <2>3 DEF SweepInv
<1>3. OrphansAreLate'
  <2> SUFFICES ASSUME NEW r \in rows', r.thread \in DOMAIN cut \ IdsOf("thread")'
               PROVE  r.at > cut[r.thread]
    BY DEF OrphansAreLate
  <2>1. /\ r.thread \in DOMAIN cut \ IdsOf("thread") /\ r.at \in Nat /\ clock \in Nat
        /\ cut[r.thread] \in Nat /\ cut[r.thread] <= clock
    BY DEF TimeInv, RowOK
  <2>2. CASE r.at > clock
    BY <2>1, <2>2
  <2>3. CASE \E q \in rows : Resembles(r, q)
    BY <2>1, <2>3 DEF Resembles, OrphansAreLate
  <2> QED BY <2>2, <2>3
<1> QED BY <1>2, <1>3

(* Threads: the one that moves stays in its program.                        *)
LEMMA ThreadsKeep ==
    ASSUME ThreadInv, NEW w \in Threads, DOMAIN worker' = Threads, Others(w),
           WorkerOK(worker'[w])
    PROVE  ThreadInv'
<1>1. \A t \in Threads : WorkerOK(worker[t])
  BY ThreadInvIs
<1>2. \A t \in Threads : WorkerOK(worker'[t])
  BY <1>1 DEF Others
<1> QED BY <1>2 DEF ThreadInv, WorkerOK, Doing, Rest

(* Times: a request begins now, and time does not run backwards.            *)
LEMMA TimeKeeps ==
    ASSUME TimeInv, clock' \in Nat, clock <= clock', gen' \in Nat,
           \A t \in Threads : worker'[t].since \in {worker[t].since, 0, clock},
           cut' = cut
    PROVE  TimeInv'
<1>1. ASSUME NEW t \in Threads PROVE worker'[t].since \in Nat /\ worker'[t].since <= clock'
  BY DEF TimeInv
<1>2. ASSUME NEW j \in DOMAIN cut' PROVE cut'[j] \in Nat /\ cut'[j] <= clock'
  BY DEF TimeInv
<1> QED BY <1>1, <1>2 DEF TimeInv

(* A statement without a mark moves its thread or ends it.                  *)
LEMMA UnmarkedStep ==
    ASSUME ThreadInv, NEW w \in Threads, worker[w].todo # <<>>, Head(worker[w].todo) \notin Marks,
           DOMAIN worker' = Threads, Others(w),
           worker'[w] = Idle \/ Moved(worker'[w], worker[w])
    PROVE  /\ ThreadInv' /\ OwnedLighter /\ SweptLighter
           /\ \A t \in Threads : worker'[t].since \in {worker[t].since, 0, clock}
<1>1. WorkerOK(worker[w])
  BY ThreadInvIs
<1>2. WorkerOK(worker'[w]) /\ Lighter(worker'[w], worker[w])
  BY <1>1, IdleIs, MovedOK, MovedLighter DEF Marks, Lighter
<1>3. \A t \in Threads : Lighter(worker'[t], worker[t])
  BY <1>2, LighterReflexive DEF Others
<1>4. \A t \in Threads : worker'[t].since \in {worker[t].since, 0}
  BY IdleIs DEF Others, Moved
<1> QED BY <1>2, <1>3, <1>4, AllLighter, ThreadsKeep

(* A step that changes no owned row and leaves objects, ids and history     *)
(* alone keeps the invariant.                                               *)
LEMMA StepKeeps ==
    ASSUME IInv, ThreadInv', OwnedLighter, SweptLighter,
           \A t \in Threads : worker'[t].since \in {worker[t].since, 0, clock},
           UNCHANGED <<objects, gen, issued, claims, cut>>, clock' \in {clock, clock + 1},
           \A kind \in Owned : IdsOf(kind)' = IdsOf(kind),
           \A r \in rows' : RowOK(r) /\ (r.at > clock \/ \E q \in rows : Resembles(r, q))
    PROVE  IInv'
<1>1. OwnedInv'
  BY OwnedKeeps DEF IInv
<1>2. SweepInv' /\ OrphansAreLate'
  BY SweepKeeps DEF IInv, Owned
<1>3. clock' \in Nat /\ clock <= clock' /\ gen' \in Nat
  BY DEF IInv, TimeInv
<1>4. TimeInv'
  BY <1>3, TimeKeeps DEF IInv
<1> QED BY <1>1, <1>2, <1>4 DEF IInv

(* A step that leaves the database, objects, ids and history alone.         *)
LEMMA QuietKeeps ==
    ASSUME IInv, ThreadInv', OwnedLighter, SweptLighter,
           \A t \in Threads : worker'[t].since \in {worker[t].since, 0, clock},
           UNCHANGED <<rows, clock, objects, gen, issued, claims, cut>>
    PROVE  IInv'
<1>1. \A kind \in Owned : IdsOf(kind)' = IdsOf(kind)
  BY DEF IdsOf
<1>2. \A r \in rows' : RowOK(r) /\ (r.at > clock \/ \E q \in rows : Resembles(r, q))
  BY DEF IInv, SweepInv, Resembles
<1> QED BY <1>1, <1>2, StepKeeps

-----------------------------------------------------------------------------
(* The statements that change no row, object, id or claim.                  *)

(* A statement that reads and then goes on or ends the request.             *)
LEMMA ReadingKeeps ==
    ASSUME IInv, NEW w \in Threads, NEW s, At(w, s), s \notin Marks,
           Go(w, worker[w]) \/ Stop(w),
           UNCHANGED <<rows, clock, objects, gen, issued, claims, cut>>
    PROVE  IInv'
<1>1. ThreadInv /\ DOMAIN worker = Threads /\ DOMAIN worker[w] = Fields
  BY DEF IInv, ThreadInv
<1>2. DOMAIN worker' = Threads /\ Others(w) /\ (worker'[w] = Idle \/ Moved(worker'[w], worker[w]))
  BY <1>1, GoIs, StopIs
<1>3. worker[w].todo # <<>> /\ Head(worker[w].todo) \notin Marks
  BY DEF At
<1>4. /\ ThreadInv' /\ OwnedLighter /\ SweptLighter
      /\ \A t \in Threads : worker'[t].since \in {worker[t].since, 0, clock}
  BY <1>1, <1>2, <1>3, UnmarkedStep
<1> QED BY <1>4, QuietKeeps

(* The statements that only read, and Enqueue.                              *)
LEMMA ReadsKeep ==
    ASSUME IInv, NEW w \in Threads,
           \/ Read(w) \/ RetrieveRun(w) \/ Enqueue(w) \/ CheckActiveRuns(w) \/ FindFile(w)
           \/ GetObjectState(w) \/ GetObject(w)
    PROVE  IInv'
<1>1. ASSUME Read(w) PROVE IInv'
  <2>1. PICK s \in ReadStatements : At(w, s)
    BY <1>1 DEF Read
  <2>2. s \notin Marks
    BY DEF ReadStatements, Marks, OwnedMarks, SweepMarks
  <2> QED BY <1>1, <2>1, <2>2, ReadingKeeps DEF Read, database, ids, history
<1>2. ASSUME RetrieveRun(w) PROVE IInv'
  BY <1>2, ReadingKeeps DEF RetrieveRun, Marks, OwnedMarks, SweepMarks, database, ids, history
<1>3. ASSUME Enqueue(w) PROVE IInv'
  BY <1>3, ReadingKeeps DEF Enqueue, Marks, OwnedMarks, SweepMarks, database, ids, history
<1>4. ASSUME CheckActiveRuns(w) PROVE IInv'
  BY <1>4, ReadingKeeps DEF CheckActiveRuns, Marks, OwnedMarks, SweepMarks, database, ids, history
<1>5. ASSUME FindFile(w) PROVE IInv'
  BY <1>5, ReadingKeeps DEF FindFile, Marks, OwnedMarks, SweepMarks, database, ids, history
<1>6. ASSUME GetObjectState(w) PROVE IInv'
  BY <1>6, ReadingKeeps DEF GetObjectState, Marks, OwnedMarks, SweepMarks, database, ids, history
<1>7. ASSUME GetObject(w) PROVE IInv'
  BY <1>7, ReadingKeeps DEF GetObject, Marks, OwnedMarks, SweepMarks, database, ids, history
<1> QED BY <1>1, <1>2, <1>3, <1>4, <1>5, <1>6, <1>7

(* Reading the generator changes nothing but what the thread remembers.     *)
LEMMA NextIdReadKeeps ==
    ASSUME IInv, NEW w \in Threads, NextIdRead(w)
    PROVE  IInv'
<1>1. ThreadInv /\ DOMAIN worker = Threads /\ WorkerOK(worker[w]) /\ gen \in Nat
  BY ThreadInvIs DEF IInv, TimeInv
<1> DEFINE x == worker[w]  y == worker'[w]
<1>2. DOMAIN worker' = Threads /\ Others(w)
  BY <1>1 DEF NextIdRead, Others
<1>3. /\ DOMAIN y = DOMAIN x /\ y.todo = x.todo /\ y.ids = x.ids /\ y.old = gen + 1
      /\ y.target = x.target /\ y.since = x.since /\ y.count = x.count /\ y.batch = x.batch
  BY <1>1 DEF NextIdRead, WorkerOK, Fields
<1>4. WorkerOK(y)
  BY <1>1, <1>3 DEF WorkerOK
<1>5. Lighter(y, x)
  <2> HIDE DEF x, y
  <2> QED BY <1>3 DEF Lighter, LighterOwned, LighterSwept, Pending, Deleting, Stored, RowGone,
                      Swept, Left, SameId, IdOf
<1>6. \A t \in Threads : Lighter(worker'[t], worker[t]) /\ worker'[t].since = worker[t].since
  BY <1>2, <1>3, <1>5, LighterReflexive DEF Others
<1>7. ThreadInv'
  BY <1>1, <1>2, <1>4, ThreadsKeep
<1>8. UNCHANGED <<rows, clock, objects, gen, issued, claims, cut>>
  BY DEF NextIdRead, database, ids, history
<1> QED BY <1>6, <1>7, <1>8, AllLighter, QuietKeeps

(* Which statements the programs hold that a request or a run begins with.  *)
LEMMA WholeProgram ==
    ASSUME NEW p \in Programs
    PROVE  /\ Doing(p) /\ Range(p) = {p[j] : j \in 1..Len(p)}
           /\ \A kind \in Owned : InsertOf(kind) \in Range(p) => NameOf(kind) \in Range(p)
           /\ "DeleteObject" \in Range(p) => "DeleteFileRow" \in Range(p)
           /\ \A kind \in Contents : "DeleteThreadRow" \in Range(p) => SweepOf(kind) \in Range(p)
<1>1. p \in Seq(Statements) /\ Len(p) \in Nat
  BY ProgramsOrderly DEF Orderly
<1>2. Rest(p, 1) = p /\ 1 \in 1..Len(p) + 1
  BY <1>1 DEF Rest
<1>3. Range(p) = {p[j] : j \in 1..Len(p)}
  BY <1>2, RestIs
<1>4. \A a, b : Before(p, a, b) /\ b \in Range(p) => a \in Range(p)
  BY <1>3 DEF Before
<1> QED BY <1>2, <1>3, <1>4, ProgramsOrderly DEF Doing, Orderly

(* The consumer takes a run: its program deletes nothing and inserts no     *)
(* owned row.                                                               *)
LEMMA TakeRunKeeps ==
    ASSUME IInv, TakeRun
    PROVE  IInv'
<1>1. ThreadInv /\ DOMAIN worker = Threads /\ Consumer \in Threads
  BY DEF IInv, ThreadInv, Threads
<1> DEFINE y == worker'[Consumer]
<1>2. /\ DOMAIN worker' = Threads /\ Others(Consumer)
      /\ DOMAIN y = Fields /\ y.todo = ExecuteRun /\ y.old = 0 /\ y.since = 0 /\ y.batch = <<>>
  BY <1>1 DEF TakeRun, Others, Idle, Fields
<1>3. ExecuteRun \in Programs
  BY DEF Programs
<1>4. WorkerOK(y)
  BY <1>2, <1>3, WholeProgram DEF WorkerOK
<1>5. \A s : Left(y, s) => s \in {"MarkInProgress", "MessageId", "InsertOneMessages", "StepId",
                                  "InsertOneRunStep", "MarkCompleted"}
  BY <1>2, <1>3, WholeProgram DEF Left, ExecuteRun
<1>6. \A x : Lighter(y, x)
  <2>1. \A kind \in Owned : ~ Pending(y, kind) /\ ~ Deleting(y, kind)
    BY <1>5 DEF Owned, Pending, Deleting, InsertOf, DeleteOf
  <2>2. ~ Stored(y) /\ ~ RowGone(y) /\ \A kind \in Contents : ~ Swept(y, kind)
    BY <1>5, <2>1 DEF Owned, Stored, RowGone, Swept
  <2> QED BY <2>1, <2>2 DEF Lighter, LighterOwned, LighterSwept
<1>7. \A t \in Threads : Lighter(worker'[t], worker[t])
  BY <1>2, <1>6, LighterReflexive DEF Others
<1>8. \A t \in Threads : worker'[t].since \in {worker[t].since, 0, clock}
  BY <1>2 DEF Others
<1>9. ThreadInv'
  BY <1>1, <1>2, <1>4, ThreadsKeep
<1>10. UNCHANGED <<rows, clock, objects, gen, issued, claims, cut>>
  BY DEF TakeRun, database, ids, history
<1> QED BY <1>7, <1>8, <1>9, <1>10, AllLighter, QuietKeeps

(* A crash leaves every thread idle.                                        *)
LEMMA CrashKeeps ==
    ASSUME IInv, Crash
    PROVE  IInv'
<1>1. DOMAIN worker' = Threads /\ \A t \in Threads : worker'[t] = Idle
  BY DEF Crash
<1>2. ThreadInv'
  <2>1. \A t \in Threads : WorkerOK(worker'[t])
    BY <1>1, IdleIs
  <2> QED BY <1>1, <2>1 DEF ThreadInv, WorkerOK, Doing, Rest
<1>3. \A t \in Threads : Lighter(worker'[t], worker[t]) /\ worker'[t].since = 0
  BY <1>1, IdleIs
<1>4. UNCHANGED <<rows, clock, objects, gen, issued, claims, cut>>
  BY DEF Crash, database, ids, history
<1> QED BY <1>2, <1>3, <1>4, AllLighter, QuietKeeps

(* The paging client touches nothing, and neither does a stuttering step.   *)
LEMMA StillKeeps ==
    ASSUME IInv, UNCHANGED <<rows, clock, objects, gen, issued, claims, cut, worker>>
    PROVE  IInv'
<1>1. ThreadInv'
  BY DEF IInv, ThreadInv, Rest
<1>2. \A t \in Threads : Lighter(worker'[t], worker[t])
  BY LighterReflexive
<1> QED BY <1>1, <1>2, AllLighter, QuietKeeps

-----------------------------------------------------------------------------
(* A request arrives.                                                       *)

(* A handler runs one of the programs, and deletes by id only rows of the   *)
(* kind whose id its path names.                                            *)
LEMMA HandlerProgram ==
    ASSUME NEW h, NEW full
    PROVE  /\ Program(h, full) \in Programs
           /\ \A kind \in Owned : DeleteOf(kind) \in Range(Program(h, full)) => TargetKind(h) = kind
<1> DEFINE P == Program(h, full)
<1>1. /\ P \in Programs
      /\ h \notin {"DeleteThread", "DeleteAssistant", "DeleteFile"} =>
            P \notin {DeleteThread, DeleteAssistant, DeleteFile}
      /\ h = "DeleteThread" => P = DeleteThread
      /\ h = "DeleteAssistant" => P = DeleteAssistant
      /\ h = "DeleteFile" => P = DeleteFile
  BY DEF Program, Programs, CreateThread, CreateThreadAndRun, CreateRun, CreateMessage,
         CreateAssistant, DeleteThread, DeleteAssistant, UploadFile, DeleteFile, DownloadFile,
         ModifyThread, ModifyMessage, ModifyAssistant
<1>2. /\ TargetKind("DeleteThread") = "thread" /\ TargetKind("DeleteAssistant") = "assistant"
      /\ TargetKind("DeleteFile") = "file"
  BY DEF TargetKind
<1> HIDE DEF P
<1>3. \A p \in Programs, kind \in Owned : DeleteOf(kind) \in Range(p) =>
         p = IF kind = "thread" THEN DeleteThread
             ELSE IF kind = "assistant" THEN DeleteAssistant ELSE DeleteFile
  <2> SUFFICES ASSUME NEW p \in Programs, NEW kind \in Owned,
                      \E j \in 1..Len(p) : p[j] = DeleteOf(kind)
               PROVE  p = IF kind = "thread" THEN DeleteThread
                          ELSE IF kind = "assistant" THEN DeleteAssistant ELSE DeleteFile
    BY WholeProgram
  <2> QED
    BY DEF Programs, CreateThread, CreateThreadAndRun, CreateRun, CreateMessage,
           CreateAssistant, DeleteThread, DeleteAssistant, UploadFile, DeleteFile, DownloadFile,
           ModifyThread, ModifyMessage, ModifyAssistant, ExecuteRun, Owned, DeleteOf
<1>4. /\ DeleteThread # DeleteAssistant /\ DeleteThread # DeleteFile
      /\ DeleteAssistant # DeleteFile
  BY DEF DeleteThread, DeleteAssistant, DeleteFile
<1>5. ASSUME NEW kind \in Owned, DeleteOf(kind) \in Range(P) PROVE TargetKind(h) = kind
  <2>1. CASE kind = "thread"
    <3>1. P = DeleteThread
      BY <1>1, <1>3, <1>5, <2>1
    <3> QED BY <1>1, <1>2, <1>4, <2>1, <3>1
  <2>2. CASE kind = "assistant"
    <3>1. P = DeleteAssistant
      BY <1>1, <1>3, <1>5, <2>2
    <3> QED BY <1>1, <1>2, <1>4, <2>2, <3>1
  <2>3. CASE kind = "file"
    <3>1. P = DeleteFile
      BY <1>1, <1>3, <1>5, <2>3
    <3> QED BY <1>1, <1>2, <1>4, <2>3, <3>1
  <2> QED BY <2>1, <2>2, <2>3 DEF Owned
<1> QED BY <1>1, <1>5 DEF P

(* A request that arrives has drawn no id and deleted nothing yet; what it  *)
(* will delete is a row that is there, so no id that is still to be         *)
(* inserted.                                                                *)
LEMMA ArriveKeeps ==
    ASSUME IInv, NEW w \in Workers, NEW op \in Ops, Arrive(w, op)
    PROVE  IInv'
<1>1. UNCHANGED <<rows, clock, objects, gen, issued, claims, cut>>
  BY DEF Arrive, database, ids, history
<1>2. ASSUME NEW code, worker' = [worker EXCEPT ![w] = Refused(code, op)] PROVE IInv'
  <2> DEFINE p == <<"AnswerError">>  y == worker'[w]
  <2>1. w \in Threads /\ ThreadInv /\ DOMAIN worker = Threads
    BY DEF Threads, IInv, ThreadInv
  <2>2. /\ DOMAIN worker' = Threads /\ Others(w)
        /\ DOMAIN y = Fields /\ y.todo = p /\ y.old = 0 /\ y.since = 0 /\ y.batch = <<>>
    BY <1>2, <2>1 DEF Refused, Others, Idle, Fields
  <2>3. p \in Programs /\ Range(p) = {"AnswerError"}
    <3>1. p \in Programs
      BY DEF Programs
    <3> QED BY <3>1, WholeProgram
  <2> HIDE DEF p, y
  <2>4. WorkerOK(y)
    BY <2>2, <2>3, WholeProgram DEF WorkerOK
  <2>5. \A x : Lighter(y, x)
    <3>1. \A s : Left(y, s) => s = "AnswerError"
      BY <2>2, <2>3 DEF Left
    <3>2. \A kind \in Owned : ~ Pending(y, kind) /\ ~ Deleting(y, kind)
      BY <3>1 DEF Owned, Pending, Deleting, InsertOf, DeleteOf
    <3>3. ~ Stored(y) /\ ~ RowGone(y) /\ \A kind \in Contents : ~ Swept(y, kind)
      BY <3>1, <3>2 DEF Owned, Stored, RowGone, Swept
    <3> QED BY <3>2, <3>3 DEF Lighter, LighterOwned, LighterSwept
  <2>6. ThreadInv'
    BY <2>1, <2>2, <2>4, ThreadsKeep DEF y
  <2>7. \A t \in Threads : /\ Lighter(worker'[t], worker[t])
                           /\ worker'[t].since \in {worker[t].since, 0, clock}
    BY <2>2, <2>5, LighterReflexive DEF Others, y
  <2> QED BY <1>1, <2>6, <2>7, AllLighter, QuietKeeps
<1> DEFINE route == MountedRoutes[Dispatch(Endpoint(op).method, Filled(Endpoint(op).path))]
<1>3. ASSUME \E body \in Bodies(route.handler), target \in Targets(route) :
               worker' = [worker EXCEPT ![w] =
                   IF ~ body.good THEN Idle
                   ELSE [Idle EXCEPT !.op = route.handler, !.want = op,
                                     !.todo = Program(route.handler, body.messages > 0),
                                     !.messages = body.messages,
                                     !.thread = target, !.target = target,
                                     !.since = IF route.handler = "DeleteThread"
                                               THEN clock ELSE 0]]
      PROVE  IInv'
  <2>1. PICK h, full, n, target, since :
          /\ target \in IdsOf(TargetKind(h)) \cup {0} /\ since \in {0, clock}
          /\ \/ worker' = [worker EXCEPT ![w] = Idle]
             \/ worker' = [worker EXCEPT ![w] =
                   [Idle EXCEPT !.op = h, !.want = op, !.todo = Program(h, full), !.messages = n,
                                !.thread = target, !.target = target, !.since = since]]
    <3> DEFINE h == route.handler
    <3>1. Targets(route) \subseteq IdsOf(TargetKind(h)) \cup {0}
      <4> HIDE DEF route
      <4> QED BY Zenon DEF Targets
    <3>2. PICK body, target :
             /\ target \in Targets(route)
             /\ worker' = [worker EXCEPT ![w] =
                   IF ~ body.good THEN Idle
                   ELSE [Idle EXCEPT !.op = h, !.want = op, !.todo = Program(h, body.messages > 0),
                                     !.messages = body.messages,
                                     !.thread = target, !.target = target,
                                     !.since = IF h = "DeleteThread" THEN clock ELSE 0]]
      BY <1>3, Zenon
    <3> HIDE DEF h, route
    <3>3. target \in IdsOf(TargetKind(h)) \cup {0}
      BY <3>1, <3>2
    <3>4. CASE body.good
      <4> DEFINE since == IF h = "DeleteThread" THEN clock ELSE 0
      <4>1. worker' = [worker EXCEPT ![w] =
                   [Idle EXCEPT !.op = h, !.want = op, !.todo = Program(h, body.messages > 0),
                                !.messages = body.messages,
                                !.thread = target, !.target = target, !.since = since]]
        BY <3>2, <3>4
      <4>2. since \in {0, clock}
        OBVIOUS
      <4> QED BY <3>3, <4>1, <4>2, Zenon
    <3>5. CASE ~ body.good
      BY <3>2, <3>3, <3>5
    <3> QED BY <3>4, <3>5
  <2>2. w \in Threads /\ ThreadInv /\ DOMAIN worker = Threads
    BY DEF Threads, IInv, ThreadInv
  <2>3. CASE worker' = [worker EXCEPT ![w] = Idle]
    <3>1. DOMAIN worker' = Threads /\ Others(w) /\ worker'[w] = Idle
      BY <2>2, <2>3 DEF Others
    <3>2. ThreadInv'
      BY <2>2, <3>1, IdleIs, ThreadsKeep
    <3>3. \A t \in Threads : /\ Lighter(worker'[t], worker[t])
                             /\ worker'[t].since \in {worker[t].since, 0, clock}
      BY <3>1, IdleIs, LighterReflexive DEF Others
    <3> QED BY <1>1, <3>2, <3>3, AllLighter, QuietKeeps
  <2>4. CASE worker' = [worker EXCEPT ![w] =
                 [Idle EXCEPT !.op = h, !.want = op, !.todo = Program(h, full), !.messages = n,
                              !.thread = target, !.target = target, !.since = since]]
    <3> DEFINE y == worker'[w]
    <3>1. DOMAIN worker' = Threads /\ Others(w)
      BY <2>2, <2>4 DEF Others
    <3>2. /\ DOMAIN y = Fields /\ y.todo = Program(h, full) /\ y.old = 0 /\ y.since = since
          /\ y.target = target /\ y.batch = <<>>
      BY <2>2, <2>4 DEF Idle, Fields
    <3>3. WorkerOK(y)
      BY <2>1, <3>2, HandlerProgram, WholeProgram DEF WorkerOK
    <3>4. ThreadInv'
      BY <2>2, <3>1, <3>3, ThreadsKeep
    <3>5. \A t \in Threads : worker'[t].since \in {worker[t].since, 0, clock}
      BY <2>1, <3>1, <3>2 DEF Others
    <3>6. TimeInv'
      BY <1>1, <3>5, TimeKeeps DEF IInv, TimeInv
    <3>7. /\ \A kind \in Owned : ~ Pending(y, kind)
          /\ ~ Stored(y) /\ ~ RowGone(y)
          /\ \A kind \in Contents : ~ Swept(y, kind)
      <4> HIDE DEF y
      <4> QED BY <2>1, <3>2, HandlerProgram, WholeProgram
              DEF Pending, Stored, RowGone, Swept, Left, Owned
    <3>8. \A kind \in Owned : Deleting(y, kind) => y.target \in IdsOf(kind) \cup {0}
      <4> HIDE DEF y
      <4> QED BY <2>1, <3>2, HandlerProgram DEF Deleting, Left
    <3>9. PendingLighter /\ StoredLighter /\ GoneLighter /\ SweptLighter
      BY <3>1, <3>7 DEF Others, SameId, PendingLighter, StoredLighter, GoneLighter, SweptLighter, LighterSwept
    <3>10. SweepInv' /\ OrphansAreLate'
      <4>1. \A r \in rows' : RowOK(r) /\ (r.at > clock \/ \E q \in rows : Resembles(r, q))
        BY <1>1 DEF IInv, SweepInv, Resembles
      <4>2. IdsOf("thread") \subseteq IdsOf("thread")'
        BY <1>1 DEF IdsOf
      <4> QED BY <1>1, <3>9, <4>1, <4>2, SweepKeeps DEF IInv
    <3>11. Duplicated' = Duplicated /\ \A kind : IdsOf(kind)' = IdsOf(kind)
      BY <1>1 DEF Duplicated, IdsOf
    <3>12. ObjectInv' /\ RowHasObject' /\ ClaimInv' /\ DeletionClaimedOnce'
      BY <1>1, <3>9, <3>11, ObjectsKeep, ClaimsKeep DEF IInv, OwnedInv
    <3>13. KnownInv'
      <4>1. \A kind \in Owned : IdsOf(kind) \subseteq DOMAIN issued
        BY DEF IInv, OwnedInv, KnownInv, IdsOf
      <4>2. ASSUME NEW t \in Threads, NEW kind \in Owned
            PROVE  /\ Pending(worker'[t], kind) => /\ NameOf(kind) \in DOMAIN worker'[t].ids
                                                   /\ IdOf(worker'[t], kind) \in DOMAIN issued
                   /\ Deleting(worker'[t], kind) => worker'[t].target \in DOMAIN issued \cup {0}
        BY <3>1, <3>7, <3>8, <4>1 DEF Others, IInv, OwnedInv, KnownInv
      <4> QED BY <1>1, <4>2 DEF IInv, OwnedInv, KnownInv
    <3>14. FreshInv'
      <4> SUFFICES ASSUME NEW t \in Threads, NEW kind \in Owned, Pending(worker'[t], kind),
                          IdOf(worker'[t], kind) \notin Duplicated
                   PROVE  Unheard(t, kind, IdOf(worker[t], kind))'
        BY <3>11 DEF FreshInv
      <4>1. t # w /\ worker'[t] = worker[t]
        BY <3>1, <3>7 DEF Others
      <4> DEFINE i == IdOf(worker'[t], kind)
      <4>2. Unheard(t, kind, i) /\ i \in DOMAIN issued /\ i # 0
        BY <4>1 DEF IInv, OwnedInv, FreshInv, KnownInv
      <4> HIDE DEF i
      <4>3. ASSUME NEW u \in Threads, Deleting(worker'[u], kind) PROVE worker'[u].target # i
        BY <3>1, <3>8, <4>2, <4>3 DEF Others, Unheard
      <4>4. ASSUME NEW u \in Threads, u # t, Pending(worker'[u], kind)
            PROVE  IdOf(worker'[u], kind) # i
        BY <3>1, <3>7, <4>2, <4>4 DEF Others, Unheard
      <4> QED BY <1>1, <3>11, <4>2, <4>3, <4>4 DEF Unheard, i
    <3> QED BY <3>4, <3>6, <3>10, <3>12, <3>13, <3>14 DEF IInv, OwnedInv
  <2> QED BY <2>1, <2>3, <2>4
<1> QED BY <1>2, <1>3, Zenon DEF Arrive

-----------------------------------------------------------------------------
(* An id is handed out.                                                     *)

(* An id that is handed out for the second time is a duplicate from then    *)
(* on; one that is handed out for the first time is in use nowhere.         *)
LEMMA NextIdWriteKeeps ==
    ASSUME IInv, NEW w \in Threads, NextIdWrite(w)
    PROVE  IInv'
<1> DEFINE x == worker[w]  y == worker'[w]  name == Head(x.todo)  old == x.old
           me == IF name = "MessageId"
                 THEN [x EXCEPT !.old = 0, !.ids = Assign(@, name, old),
                                !.batch = Append(@, old), !.messages = @ - 1]
                 ELSE [x EXCEPT !.old = 0, !.ids = Assign(@, name, old),
                                !.thread = IF name = "ThreadId" THEN old ELSE @]
<1>1. /\ x.todo # <<>> /\ name \in IdStatements /\ old # 0 /\ gen' = old
      /\ issued' = Assign(issued, old, IF old \in DOMAIN issued THEN issued[old] + 1 ELSE 1)
      /\ \/ Go(w, me)
         \/ name = "MessageId" /\ worker' = [worker EXCEPT ![w] = me]
      /\ UNCHANGED <<rows, clock, objects, claims, cut>>
  BY DEF NextIdWrite, database, history
<1>2. DOMAIN worker = Threads /\ WorkerOK(x) /\ old \in Nat \ {0}
  BY <1>1, ThreadInvIs DEF IInv, WorkerOK
<1>3. /\ DOMAIN me = Fields /\ me.todo = x.todo /\ me.target = x.target /\ me.since = x.since
      /\ me.count = x.count /\ me.old = 0 /\ me.ids = Assign(x.ids, name, old)
      /\ me.batch \in {x.batch, Append(x.batch, old)}
  BY <1>2 DEF WorkerOK, Fields
<1>4. /\ DOMAIN worker' = Threads /\ Others(w)
      /\ y = Idle \/ Moved(y, me) \/ (y = me /\ name = "MessageId")
  <2>1. CASE Go(w, me)
    BY <1>2, <1>3, <2>1, GoIs
  <2>2. CASE name = "MessageId" /\ worker' = [worker EXCEPT ![w] = me]
    BY <1>2, <2>2 DEF Others
  <2> QED BY <1>1, <2>1, <2>2
<1>5. WorkerOK(me)
  BY <1>2, <1>3 DEF WorkerOK
<1>6. ThreadInv'
  BY <1>1, <1>3, <1>4, <1>5, MovedOK, IdleIs, ThreadsKeep, ZenonT(60) DEF IInv
<1> HIDE DEF me
<1>7. TimeInv'
  <2>1. \A t \in Threads : worker'[t].since \in {worker[t].since, 0, clock}
    BY <1>3, <1>4, IdleIs DEF Others, Moved
  <2> QED BY <1>1, <1>2, <2>1, TimeKeeps DEF IInv, TimeInv
<1>8. /\ DOMAIN issued' = DOMAIN issued \cup {old}
      /\ \A i \in DOMAIN issued \ {old} : issued'[i] = issued[i]
      /\ issued'[old] = IF old \in DOMAIN issued THEN issued[old] + 1 ELSE 1
  BY <1>1 DEF Assign
<1>9. \A i \in DOMAIN issued : i \in Nat \ {0} /\ issued[i] \in Nat \ {0}
  BY DEF IInv, OwnedInv, KnownInv
<1>10. Duplicated \subseteq Duplicated' /\ (old \in DOMAIN issued => old \in Duplicated')
  BY <1>8, <1>9 DEF Duplicated
<1>11. \A kind : IdsOf(kind)' = IdsOf(kind)
  BY <1>1 DEF IdsOf
<1>12. \A s : Left(y, s) => Left(x, s)
  <2>1. CASE y = Idle
    BY <2>1, IdleIs DEF Left, Range
  <2>2. CASE Moved(y, me)
    BY <1>1, <1>2, <1>3, <2>2, Advance DEF WorkerOK, Moved, Left
  <2>3. CASE y = me
    BY <1>3, <2>3 DEF Left
  <2> QED BY <1>4, <2>1, <2>2, <2>3
<1>13. \A s : ~ Left(y, s) /\ s # name /\ y # Idle => ~ Left(x, s)
  <2>1. CASE Moved(y, me)
    BY <1>1, <1>2, <1>3, <2>1, Advance DEF WorkerOK, Moved, Left
  <2>2. CASE y = me
    BY <1>3, <2>2 DEF Left
  <2> QED BY <1>4, <2>1, <2>2
<1>14. \A s : ~ Left(Idle, s)
  BY IdleIs DEF Left, Range
<1>15. /\ y # Idle => /\ y.ids = Assign(x.ids, name, old) /\ y.target = x.target
                      /\ y.since = x.since /\ y.count = x.count
  BY <1>3, <1>4 DEF Moved
<1>16. \A kind \in Owned : Pending(y, kind) =>
          /\ NameOf(kind) = name => NameOf(kind) \in DOMAIN y.ids /\ IdOf(y, kind) = old
          /\ NameOf(kind) # name => Pending(x, kind) /\ SameId(y, x, kind)
  <2> SUFFICES ASSUME NEW kind \in Owned, Pending(y, kind)
               PROVE  /\ NameOf(kind) = name => NameOf(kind) \in DOMAIN y.ids /\ IdOf(y, kind) = old
                      /\ NameOf(kind) # name => Pending(x, kind) /\ SameId(y, x, kind)
    OBVIOUS
  <2>1. y # Idle /\ y.ids = Assign(x.ids, name, old)
    BY <1>14, <1>15 DEF Pending
  <2>2. CASE NameOf(kind) = name
    BY <2>1, <2>2 DEF IdOf, Assign
  <2>3. CASE NameOf(kind) # name
    <3>1. Pending(x, kind)
      BY <1>12, <1>13, <2>1, <2>3 DEF Pending
    <3>2. NameOf(kind) \in DOMAIN x.ids
      BY <3>1 DEF IInv, OwnedInv, KnownInv
    <3> QED BY <2>1, <2>3, <3>1, <3>2 DEF SameId, IdOf, Assign
  <2> QED BY <2>2, <2>3
<1>17. \A kind \in Owned : Deleting(y, kind) => Deleting(x, kind) /\ y.target = x.target
  <2> SUFFICES ASSUME NEW kind \in Owned, Deleting(y, kind)
               PROVE  Deleting(x, kind) /\ y.target = x.target
    OBVIOUS
  <2>1. Deleting(x, kind)
    BY <1>12 DEF Deleting
  <2>2. y # Idle
    BY <1>14 DEF Deleting
  <2> QED BY <1>15, <2>1, <2>2
<1>18. Stored(y) => Stored(x) /\ SameId(y, x, "file")
  <2> SUFFICES ASSUME Stored(y) PROVE Stored(x) /\ SameId(y, x, "file")
    OBVIOUS
  <2>1. Pending(y, "file") /\ ~ Left(y, "PutObject") /\ y # Idle
    BY <1>14 DEF Stored, Pending
  <2>2. name # "PutObject" /\ ~ Left(x, "PutObject") /\ Left(x, "InsertOneFile")
    BY <1>1, <1>12, <1>13, <2>1 DEF IdStatements, Pending, InsertOf
  <2>3. name # "FileId"
    BY <1>1, <1>2, <2>2, Advance DEF WorkerOK, Left
  <2> QED BY <1>16, <2>1, <2>2, <2>3 DEF Stored, Owned, NameOf
<1>19. RowGone(y) => RowGone(x) /\ y.target = x.target /\ y.count = x.count
  BY <1>1, <1>12, <1>13, <1>14, <1>15 DEF RowGone, IdStatements
<1>20. LighterSwept(y, x)
  BY <1>1, <1>12, <1>13, <1>14, <1>15 DEF LighterSwept, Swept, IdStatements, Contents, SweepOf
<1> HIDE DEF x, y, name, old
<1>21. DeletingLighter /\ StoredLighter /\ GoneLighter /\ SweptLighter
  <2>1. ASSUME NEW t \in Threads, t # w PROVE worker'[t] = worker[t]
    BY <1>4, <2>1 DEF Others
  <2> QED BY <1>17, <1>18, <1>19, <1>20, <2>1 
          DEF DeletingLighter, StoredLighter, GoneLighter, SweptLighter, LighterSwept, SameId, x, y
<1>22. SweepInv' /\ OrphansAreLate'
  <2>1. \A r \in rows' : RowOK(r) /\ (r.at > clock \/ \E q \in rows : Resembles(r, q))
    BY <1>1 DEF IInv, SweepInv, Resembles
  <2> QED BY <1>1, <1>11, <1>21, <2>1, SweepKeeps DEF IInv
<1>23. ObjectInv' /\ RowHasObject' /\ ClaimInv' /\ DeletionClaimedOnce'
  BY <1>1, <1>10, <1>11, <1>21, ObjectsKeep, ClaimsKeep DEF IInv, OwnedInv
<1>24. \A t \in Threads, kind \in Owned : Pending(worker'[t], kind) =>
          \/ t = w /\ NameOf(kind) \in DOMAIN worker'[t].ids /\ IdOf(worker'[t], kind) = old
          \/ Pending(worker[t], kind) /\ SameId(worker'[t], worker[t], kind)
  BY <1>4, <1>16 DEF Others, SameId, x, y
<1>25. KnownInv'
  <2>1. ASSUME NEW t \in Threads, NEW kind \in Owned
        PROVE  /\ Pending(worker'[t], kind) => /\ NameOf(kind) \in DOMAIN worker'[t].ids
                                               /\ IdOf(worker'[t], kind) \in DOMAIN issued'
               /\ Deleting(worker'[t], kind) => worker'[t].target \in DOMAIN issued' \cup {0}
    BY <1>8, <1>21, <1>24 DEF IInv, OwnedInv, KnownInv, SameId, DeletingLighter
  <2>2. \A i \in DOMAIN issued' : i \in Nat \ {0} /\ issued'[i] \in Nat \ {0}
    BY <1>2, <1>8, <1>9
  <2>3. /\ objects' \subseteq DOMAIN issued'
        /\ \A r \in rows' : r.kind \in Owned => r.id \in DOMAIN issued'
        /\ \A c \in DOMAIN claims' : /\ c = <<c[1], c[2]>>
                                     /\ c[2] \in DOMAIN issued' /\ claims'[c] \in Nat
    BY <1>1, <1>8 DEF IInv, OwnedInv, KnownInv
  <2> QED BY <2>1, <2>2, <2>3 DEF KnownInv
<1>26. FreshInv'
  <2> SUFFICES ASSUME NEW t \in Threads, NEW kind \in Owned, Pending(worker'[t], kind),
                      IdOf(worker'[t], kind) \notin Duplicated'
               PROVE  Unheard(t, kind, IdOf(worker[t], kind))'
    BY DEF FreshInv
  <2> DEFINE i == IdOf(worker'[t], kind)
  <2>1. CASE Pending(worker[t], kind) /\ SameId(worker'[t], worker[t], kind)
    <3>1. Unheard(t, kind, i) /\ i \in DOMAIN issued
      BY <1>10, <2>1 DEF IInv, OwnedInv, FreshInv, KnownInv, SameId
    <3>2. i # old
      BY <1>10, <3>1
    <3> HIDE DEF i
    <3>3. ASSUME NEW u \in Threads, Deleting(worker'[u], kind) PROVE worker'[u].target # i
      BY <1>21, <3>1, <3>3 DEF Unheard, DeletingLighter
    <3>4. ASSUME NEW u \in Threads, u # t, Pending(worker'[u], kind)
          PROVE  IdOf(worker'[u], kind) # i
      BY <1>24, <3>1, <3>2, <3>4 DEF Unheard, SameId
    <3> QED BY <1>1, <1>11, <3>1, <3>3, <3>4 DEF Unheard, i
  <2>2. CASE t = w /\ i = old /\ ~ (Pending(worker[t], kind) /\ SameId(worker'[t], worker[t], kind))
    <3>1. i \notin DOMAIN issued /\ i # 0
      BY <1>2, <1>10, <2>2
    <3> HIDE DEF i
    <3>2. i \notin IdsOf(kind) /\ <<kind, i>> \notin DOMAIN claims
      BY <3>1 DEF IInv, OwnedInv, KnownInv, IdsOf
    <3>3. ASSUME NEW u \in Threads, Deleting(worker'[u], kind) PROVE worker'[u].target # i
      BY <1>21, <3>1, <3>3 DEF DeletingLighter, IInv, OwnedInv, KnownInv
    <3>4. ASSUME NEW u \in Threads, u # t, Pending(worker'[u], kind)
          PROVE  IdOf(worker'[u], kind) # i
      BY <1>24, <2>2, <3>1, <3>4 DEF SameId, IInv, OwnedInv, KnownInv
    <3> QED BY <1>1, <1>11, <3>2, <3>3, <3>4 DEF Unheard, i
  <2> QED BY <1>24, <2>1, <2>2
<1> QED BY <1>6, <1>7, <1>22, <1>23, <1>25, <1>26 DEF IInv, OwnedInv

-----------------------------------------------------------------------------
(* Inserts.                                                                 *)

(* What an insert that succeeds does to rows and threads.                   *)
LEMMA InsertIs ==
    ASSUME IInv, NEW w \in Threads, NEW s, NEW kind \in Kinds, NEW id, NEW thread, NEW status,
           Insert(w, s, kind, id, thread, status), s \notin Marks, kind \in Owned => thread = 0
    PROVE  \/ IInv'
           \/ /\ At(w, s)
              /\ rows' = rows \cup {[kind |-> kind, id |-> id, thread |-> thread,
                                     status |-> status, at |-> clock + 1]}
              /\ clock' = clock + 1 /\ UNCHANGED <<objects, gen, issued, claims, cut>>
              /\ Others(w) /\ (worker'[w] = Idle \/ Moved(worker'[w], worker[w]))
              /\ ThreadInv' /\ OwnedLighter /\ SweptLighter
              /\ \A t \in Threads : worker'[t].since \in {worker[t].since, 0, clock}
              /\ \A r \in rows' : RowOK(r) /\ (r.at > clock \/ \E q \in rows : Resembles(r, q))
<1>1. CASE Stop(w) /\ UNCHANGED database
  BY <1>1, ReadingKeeps DEF Insert, database, ids, history
<1>2. CASE /\ rows' = rows \cup {[kind |-> kind, id |-> id, thread |-> thread,
                                  status |-> status, at |-> clock + 1]}
           /\ clock' = clock + 1
           /\ Go(w, worker[w])
  <2>1. DOMAIN worker = Threads /\ DOMAIN worker[w] = Fields /\ clock \in Nat /\ ThreadInv
    BY DEF IInv, ThreadInv, TimeInv
  <2>2. DOMAIN worker' = Threads /\ Others(w) /\ (worker'[w] = Idle \/ Moved(worker'[w], worker[w]))
    BY <1>2, <2>1, GoIs
  <2>3. At(w, s) /\ worker[w].todo # <<>> /\ Head(worker[w].todo) \notin Marks
    BY DEF Insert, At
  <2>4. /\ ThreadInv' /\ OwnedLighter /\ SweptLighter
        /\ \A t \in Threads : worker'[t].since \in {worker[t].since, 0, clock}
    BY <2>1, <2>2, <2>3, UnmarkedStep
  <2>5. ASSUME NEW r \in rows' PROVE RowOK(r) /\ (r.at > clock \/ \E q \in rows : Resembles(r, q))
    <3>1. CASE r \in rows
      BY <3>1 DEF IInv, SweepInv, Resembles
    <3>2. CASE r = [kind |-> kind, id |-> id, thread |-> thread,
                    status |-> status, at |-> clock + 1]
      BY <2>1, <3>2 DEF RowOK
    <3> QED BY <1>2, <3>1, <3>2
  <2>6. UNCHANGED <<objects, gen, issued, claims, cut>>
    BY DEF Insert, ids, history
  <2> QED BY <1>2, <2>2, <2>3, <2>4, <2>5, <2>6
<1> QED BY <1>1, <1>2 DEF Insert

(* Messages, runs and steps.                                                *)
LEMMA InsertContentKeeps ==
    ASSUME IInv, NEW w \in Threads, NEW s, NEW kind \in Contents, NEW id, NEW thread, NEW status,
           Insert(w, s, kind, id, thread, status), s \notin Marks
    PROVE  IInv'
<1>1. kind \in Kinds /\ kind \notin Owned
  BY DEF Contents, Kinds, Owned
<1>2. \/ IInv'
      \/ /\ rows' = rows \cup {[kind |-> kind, id |-> id, thread |-> thread,
                                status |-> status, at |-> clock + 1]}
         /\ clock' = clock + 1 /\ UNCHANGED <<objects, gen, issued, claims, cut>>
         /\ ThreadInv' /\ OwnedLighter /\ SweptLighter
         /\ \A t \in Threads : worker'[t].since \in {worker[t].since, 0, clock}
         /\ \A r \in rows' : RowOK(r) /\ (r.at > clock \/ \E q \in rows : Resembles(r, q))
  BY <1>1, InsertIs
<1>3. CASE rows' = rows \cup {[kind |-> kind, id |-> id, thread |-> thread,
                               status |-> status, at |-> clock + 1]}
  <2>1. \A k \in Owned : IdsOf(k)' = IdsOf(k)
    BY <1>1, <1>3 DEF IdsOf
  <2> QED BY <1>2, <2>1, StepKeeps
<1> QED BY <1>2, <1>3

(* The messages of a request.                                               *)
LEMMA InsertManyKeeps ==
    ASSUME IInv, NEW w \in Threads, InsertManyMessages(w)
    PROVE  IInv'
<1> DEFINE batch == worker[w].batch
           new == {[kind |-> "message", id |-> i, thread |-> worker[w].thread,
                    status |-> "-", at |-> clock + 1] : i \in Range(batch)}
<1>1. At(w, "InsertManyMessages") /\ "InsertManyMessages" \notin Marks
  BY DEF InsertManyMessages, Marks, OwnedMarks, SweepMarks
<1>2. UNCHANGED <<objects, gen, issued, claims, cut>>
  BY DEF InsertManyMessages, ids, history
<1>3. CASE Stop(w) /\ UNCHANGED database
  BY <1>1, <1>2, <1>3, ReadingKeeps DEF database
<1>4. CASE rows' = rows \cup new /\ clock' = clock + 1 /\ Go(w, worker[w])
  <2>1. DOMAIN worker = Threads /\ DOMAIN worker[w] = Fields /\ clock \in Nat /\ ThreadInv
    BY DEF IInv, ThreadInv, TimeInv
  <2>2. DOMAIN worker' = Threads /\ Others(w) /\ (worker'[w] = Idle \/ Moved(worker'[w], worker[w]))
    BY <1>4, <2>1, GoIs
  <2>3. worker[w].todo # <<>> /\ Head(worker[w].todo) \notin Marks
    BY <1>1 DEF At
  <2>4. /\ ThreadInv' /\ OwnedLighter /\ SweptLighter
        /\ \A t \in Threads : worker'[t].since \in {worker[t].since, 0, clock}
    BY <2>1, <2>2, <2>3, UnmarkedStep
  <2>5. ASSUME NEW r \in new PROVE RowOK(r) /\ r.at > clock /\ r.kind = "message"
    BY <2>1 DEF RowOK, Kinds, Owned
  <2> HIDE DEF new
  <2>6. ASSUME NEW r \in rows' PROVE RowOK(r) /\ (r.at > clock \/ \E q \in rows : Resembles(r, q))
    <3>1. CASE r \in rows
      BY <3>1 DEF IInv, SweepInv, Resembles
    <3>2. CASE r \in new
      BY <2>5, <3>2
    <3> QED BY <1>4, <3>1, <3>2
  <2>7. \A k \in Owned : IdsOf(k)' = IdsOf(k)
    BY <1>4, <2>5 DEF IdsOf, Owned
  <2> QED BY <1>2, <1>4, <2>4, <2>6, <2>7, StepKeeps
<1> QED BY <1>3, <1>4 DEF InsertManyMessages

(* Threads, assistants and files: the id of the new row was drawn by this   *)
(* request and, unless it is a duplicate, nobody has heard of it.           *)
LEMMA InsertOwnedKeeps ==
    ASSUME IInv, NEW w \in Threads, NEW kind \in Owned, NEW status,
           Insert(w, InsertOf(kind), kind, IdOf(worker[w], kind), 0, status)
    PROVE  IInv'
<1> DEFINE x == worker[w]  i == IdOf(x, kind)
           new == [kind |-> kind, id |-> i, thread |-> 0, status |-> status, at |-> clock + 1]
<1>1. kind \in Kinds /\ InsertOf(kind) \notin Marks
  BY DEF Kinds, Owned, InsertOf, Marks, OwnedMarks, SweepMarks
<1>2. \/ IInv'
      \/ /\ At(w, InsertOf(kind)) /\ rows' = rows \cup {new}
         /\ clock' = clock + 1 /\ UNCHANGED <<objects, gen, issued, claims, cut>>
         /\ Others(w) /\ (worker'[w] = Idle \/ Moved(worker'[w], x))
         /\ ThreadInv' /\ OwnedLighter /\ SweptLighter
         /\ \A t \in Threads : worker'[t].since \in {worker[t].since, 0, clock}
         /\ \A r \in rows' : RowOK(r) /\ (r.at > clock \/ \E q \in rows : Resembles(r, q))
  BY <1>1, InsertIs
<1> SUFFICES ASSUME At(w, InsertOf(kind)), rows' = rows \cup {new},
                    clock' = clock + 1, UNCHANGED <<objects, gen, issued, claims, cut>>,
                    Others(w), worker'[w] = Idle \/ Moved(worker'[w], x),
                    ThreadInv', OwnedLighter, SweptLighter,
                    \A t \in Threads : worker'[t].since \in {worker[t].since, 0, clock},
                    \A r \in rows' : RowOK(r) /\ (r.at > clock \/ \E q \in rows : Resembles(r, q))
             PROVE  IInv'
  BY <1>2
<1>3. WorkerOK(x) /\ x.todo # <<>> /\ Head(x.todo) = InsertOf(kind)
  BY ThreadInvIs DEF IInv, At
<1>4. Pending(x, kind) /\ (kind = "file" => Stored(x))
  <2>1. /\ Head(x.todo) \in Range(x.todo) /\ NameOf(kind) \notin Range(x.todo)
        /\ Head(x.todo) = "InsertOneFile" => "PutObject" \notin Range(x.todo)
    BY <1>3, Advance DEF WorkerOK
  <2>2. kind = "file" => InsertOf(kind) = "InsertOneFile"
    BY DEF InsertOf
  <2> QED BY <1>3, <2>1, <2>2 DEF Pending, Stored, Left
<1>5. ~ Pending(worker'[w], kind)
  <2>1. CASE worker'[w] = Idle
    BY <2>1, IdleIs DEF Pending, Left, Range
  <2>2. CASE Moved(worker'[w], x)
    BY <1>3, <2>2, Advance DEF WorkerOK, Moved, Pending, Left
  <2> QED BY <2>1, <2>2
<1>6. i \in DOMAIN issued /\ (i \in Duplicated \/ Unheard(w, kind, i))
  BY <1>4 DEF IInv, OwnedInv, KnownInv, FreshInv
<1>7. /\ new.kind = kind /\ new.id = i
      /\ IdsOf(kind)' = IdsOf(kind) \cup {i}
      /\ \A k \in Owned : k # kind => IdsOf(k)' = IdsOf(k)
  <2>1. new.kind = kind /\ new.id = i
    OBVIOUS
  <2> HIDE DEF i, new
  <2> QED BY <2>1 DEF IdsOf
<1>8. Duplicated' = Duplicated
  BY DEF Duplicated
<1> HIDE DEF i, new
<1>9. PendingLighter /\ DeletingLighter /\ StoredLighter /\ GoneLighter
  BY DEF OwnedLighter
<1>10. KnownInv'
  <2>1. \A r \in rows' : r.kind \in Owned => r.id \in DOMAIN issued'
    BY <1>6, <1>7 DEF IInv, OwnedInv, KnownInv
  <2>2. ASSUME NEW t \in Threads, NEW k \in Owned
        PROVE  /\ Pending(worker'[t], k) => /\ NameOf(k) \in DOMAIN worker'[t].ids
                                            /\ IdOf(worker'[t], k) \in DOMAIN issued
               /\ Deleting(worker'[t], k) => worker'[t].target \in DOMAIN issued \cup {0}
    BY <1>9 DEF IInv, OwnedInv, KnownInv, PendingLighter, DeletingLighter, SameId
  <2> QED BY <2>1, <2>2 DEF IInv, OwnedInv, KnownInv
<1>11. FreshInv'
  <2> SUFFICES ASSUME NEW t \in Threads, NEW k \in Owned, Pending(worker'[t], k),
                      IdOf(worker'[t], k) \notin Duplicated
               PROVE  Unheard(t, k, IdOf(worker[t], k))'
    BY <1>8 DEF FreshInv
  <2> DEFINE j == IdOf(worker'[t], k)
  <2>1. Pending(worker[t], k) /\ IdOf(worker[t], k) = j
    BY <1>9 DEF PendingLighter, SameId
  <2>2. Unheard(t, k, j)
    BY <2>1 DEF IInv, OwnedInv, FreshInv
  <2> HIDE DEF j
  <2>3. ASSUME NEW u \in Threads, Deleting(worker'[u], k) PROVE worker'[u].target # j
    BY <1>9, <2>2, <2>3 DEF Unheard, DeletingLighter
  <2>4. ASSUME NEW u \in Threads, u # t, Pending(worker'[u], k)
        PROVE  IdOf(worker'[u], k) # j
    BY <1>9, <2>2, <2>4 DEF Unheard, PendingLighter, SameId
  <2>5. j \notin IdsOf(k)'
    <3>1. CASE k # kind
      BY <1>7, <2>2, <3>1 DEF Unheard
    <3>2. CASE k = kind
      <4>1. t # w
        BY <1>5, <3>2
      <4>2. i # j
        BY <1>4, <2>2, <3>2, <4>1 DEF Unheard, i
      <4> QED BY <1>7, <2>2, <3>2, <4>2 DEF Unheard
    <3> QED BY <3>1, <3>2
  <2> QED BY <2>2, <2>3, <2>4, <2>5 DEF Unheard, j
<1>12. ObjectInv' /\ RowHasObject'
  <2>1. ASSUME NEW t \in Threads, Stored(worker'[t])
        PROVE  IdOf(worker'[t], "file") \in objects' \cup Duplicated'
    BY <1>8, <1>9, <2>1 DEF IInv, OwnedInv, ObjectInv, StoredLighter, SameId
  <2>2. ASSUME NEW t \in Threads, RowGone(worker'[t])
        PROVE  worker'[t].target \notin IdsOf("file")' \/ worker'[t].target \in Duplicated'
    <3>1. RowGone(worker[t]) /\ worker'[t].target = worker[t].target
      BY <1>9, <2>2 DEF GoneLighter
    <3>2. worker[t].target \notin IdsOf("file") \/ worker[t].target \in Duplicated
      BY <3>1 DEF IInv, OwnedInv, ObjectInv
    <3>3. CASE kind # "file"
      BY <1>7, <1>8, <3>1, <3>2, <3>3 DEF Owned
    <3>4. CASE kind = "file"
      <4>1. Deleting(worker[t], "file")
        BY <3>1 DEF RowGone, Deleting, DeleteOf
      <4>2. worker[t].target # i \/ i \in Duplicated
        BY <1>6, <3>4, <4>1 DEF Unheard
      <4> QED BY <1>7, <1>8, <3>1, <3>2, <3>4, <4>2
    <3> QED BY <3>3, <3>4
  <2>3. \A id \in IdsOf("file")' : id \in objects' \/ id \in Duplicated'
    <3>1. kind = "file" => i \in objects \cup Duplicated
      BY <1>4 DEF IInv, OwnedInv, ObjectInv, i
    <3> QED BY <1>7, <1>8, <3>1 DEF IInv, OwnedInv, RowHasObject, Owned
  <2> QED BY <2>1, <2>2, <2>3 DEF ObjectInv, RowHasObject
<1>13. ClaimInv' /\ DeletionClaimedOnce'
  <2>1. ASSUME NEW k \in Owned, NEW j \in IdsOf(k)', <<k, j>> \in DOMAIN claims'
        PROVE  j \in Duplicated'
    <3>1. CASE j \in IdsOf(k)
      BY <1>8, <2>1, <3>1 DEF IInv, OwnedInv, ClaimInv
    <3>2. CASE k = kind /\ j = i
      BY <1>6, <1>8, <2>1, <3>2 DEF Unheard
    <3> QED BY <1>7, <3>1, <3>2
  <2>2. ASSUME NEW t \in Threads, Holds(worker'[t])
        PROVE  Holds(worker[t]) /\ worker'[t].target = worker[t].target
    BY <1>9, <2>2 DEF GoneLighter, Holds
  <2>3. ASSUME NEW t \in Threads, Holds(worker'[t]), worker'[t].target \notin Duplicated'
        PROVE  /\ <<"file", worker'[t].target>> \notin DOMAIN claims'
               /\ \A u \in Threads : Holds(worker'[u]) /\ worker'[u].target = worker'[t].target
                     => u = t
    BY <1>8, <2>2, <2>3 DEF IInv, OwnedInv, ClaimInv
  <2> QED BY <1>8, <2>1, <2>3 DEF IInv, OwnedInv, ClaimInv, DeletionClaimedOnce
<1>14. SweepInv' /\ OrphansAreLate'
  <2>1. IdsOf("thread") \subseteq IdsOf("thread")'
    BY <1>7 DEF Owned
  <2> QED BY <2>1, SweepKeeps DEF IInv
<1>15. TimeInv'
  <2>1. clock' \in Nat /\ clock <= clock' /\ gen' \in Nat
    BY DEF IInv, TimeInv
  <2> QED BY <2>1, TimeKeeps DEF IInv
<1> QED BY <1>10, <1>11, <1>12, <1>13, <1>14, <1>15 DEF IInv, OwnedInv

(* Every insert statement.                                                  *)
LEMMA InsertsKeep ==
    ASSUME IInv, NEW w \in Threads,
           \/ InsertOneThread(w) \/ InsertManyMessages(w) \/ InsertOneMessages(w)
           \/ InsertOneRun(w) \/ InsertOneRunStep(w) \/ InsertOneFile(w) \/ InsertOneAssistant(w)
    PROVE  IInv'
<1>1. CASE InsertOneThread(w)
  BY <1>1, InsertOwnedKeeps DEF InsertOneThread, Owned, InsertOf, IdOf, NameOf
<1>2. CASE InsertOneFile(w)
  BY <1>2, InsertOwnedKeeps DEF InsertOneFile, Owned, InsertOf, IdOf, NameOf
<1>3. CASE InsertOneAssistant(w)
  <2>1. CASE Insert(w, "InsertOneAssistant", "assistant", worker[w].ids["AssistantId"], 0, "-")
    BY <2>1, InsertOwnedKeeps DEF Owned, InsertOf, IdOf, NameOf
  <2>2. CASE /\ At(w, "InsertOneAssistant") /\ Stop(w)
             /\ UNCHANGED <<objects, database, ids, queue, history, clients>>
    BY <2>2, ReadingKeeps DEF Marks, OwnedMarks, SweepMarks, database, ids, history
  <2> QED BY <1>3, <2>1, <2>2 DEF InsertOneAssistant
<1>4. CASE InsertManyMessages(w)
  BY <1>4, InsertManyKeeps
<1>5. CASE InsertOneMessages(w)
  BY <1>5, InsertContentKeeps DEF InsertOneMessages, Contents, Marks, OwnedMarks, SweepMarks
<1>6. CASE InsertOneRun(w)
  BY <1>6, InsertContentKeeps DEF InsertOneRun, Contents, Marks, OwnedMarks, SweepMarks
<1>7. CASE InsertOneRunStep(w)
  BY <1>7, InsertContentKeeps DEF InsertOneRunStep, Contents, Marks, OwnedMarks, SweepMarks
<1> QED BY <1>1, <1>2, <1>3, <1>4, <1>5, <1>6, <1>7

-----------------------------------------------------------------------------
(* Updates and deletions.                                                   *)

(* An update changes the status of a run and nothing else.                  *)
LEMMA UpdateRunKeeps ==
    ASSUME IInv, NEW w \in Threads, NEW s, NEW status, UpdateRun(w, s, status), s \notin Marks
    PROVE  IInv'
<1> DEFINE run == worker[w].target
           Upd(r) == IF r.kind = "run" /\ r.id = run THEN [r EXCEPT !.status = status] ELSE r
<1>1. At(w, s) /\ UNCHANGED <<objects, clock, gen, issued, claims, cut>>
  BY DEF UpdateRun, ids, history
<1>2. CASE Stop(w) /\ UNCHANGED rows
  BY <1>1, <1>2, ReadingKeeps
<1>3. CASE rows' = {Upd(r) : r \in rows} /\ Go(w, worker[w])
  <2>1. DOMAIN worker = Threads /\ DOMAIN worker[w] = Fields /\ ThreadInv
    BY DEF IInv, ThreadInv
  <2>2. DOMAIN worker' = Threads /\ Others(w) /\ (worker'[w] = Idle \/ Moved(worker'[w], worker[w]))
    BY <1>3, <2>1, GoIs
  <2>3. /\ ThreadInv' /\ OwnedLighter /\ SweptLighter
        /\ \A t \in Threads : worker'[t].since \in {worker[t].since, 0, clock}
    BY <1>1, <2>1, <2>2, UnmarkedStep DEF At
  <2>4. ASSUME NEW q \in rows PROVE RowOK(Upd(q)) /\ Resembles(Upd(q), q)
    BY DEF IInv, SweepInv, RowOK, Resembles
  <2> HIDE DEF Upd
  <2>5. \A r \in rows' : RowOK(r) /\ \E q \in rows : Resembles(r, q)
    BY <1>3, <2>4
  <2>6. \A kind \in Owned : IdsOf(kind)' = IdsOf(kind)
    <3>1. \A q \in rows : Upd(q) \in rows' /\ Upd(q).kind = q.kind /\ Upd(q).id = q.id
      BY <1>3, <2>4 DEF Resembles
    <3>2. \A r \in rows' : \E q \in rows : r.kind = q.kind /\ r.id = q.id
      BY <2>5 DEF Resembles
    <3> QED BY <3>1, <3>2 DEF IdsOf
  <2> QED BY <1>1, <2>3, <2>5, <2>6, StepKeeps
<1> QED BY <1>2, <1>3 DEF UpdateRun

(* A sweep deletes one kind of rows of the thread that is being deleted.    *)
LEMMA DeleteManyKeeps ==
    ASSUME IInv, NEW w \in Threads, NEW kind \in Contents, DeleteMany(w, SweepOf(kind), kind)
    PROVE  IInv'
<1> DEFINE x == worker[w]  y == worker'[w]
<1>1. /\ rows' = {r \in rows : ~ (r.kind = kind /\ r.thread = x.target)}
      /\ UNCHANGED <<objects, clock, gen, issued, claims, cut>> /\ Go(w, x)
      /\ x.todo # <<>> /\ Head(x.todo) = SweepOf(kind)
  BY DEF DeleteMany, At, ids, history
<1>2. DOMAIN worker = Threads /\ WorkerOK(x) /\ DOMAIN x = Fields
  BY ThreadInvIs DEF IInv, WorkerOK
<1>3. DOMAIN worker' = Threads /\ Others(w) /\ (y = Idle \/ Moved(y, x))
  BY <1>1, <1>2, GoIs
<1>4. ThreadInv'
  BY <1>1, <1>2, <1>3, MovedOK, IdleIs, ThreadsKeep DEF IInv
<1>5. TimeInv'
  <2>1. \A t \in Threads : worker'[t].since \in {worker[t].since, 0, clock}
    BY <1>3, IdleIs DEF Others, Moved
  <2> QED BY <1>1, <2>1, TimeKeeps DEF IInv, TimeInv
<1>6. OwnedInv'
  <2>1. SweepOf(kind) \notin OwnedMarks
    BY DEF Contents, SweepOf, OwnedMarks
  <2>2. LighterOwned(y, x)
    BY <1>1, <1>2, <1>3, <2>1, MovedLighter, IdleIs DEF Lighter
  <2>3. OwnedLighter
    BY <1>3, <2>2, LighterReflexive, AllLighter DEF Others, Lighter
  <2>4. \A k \in Owned : IdsOf(k)' \subseteq IdsOf(k)
    BY <1>1 DEF IdsOf
  <2> QED BY <1>1, <2>3, <2>4, OwnedKeeps DEF IInv
<1>7. IdsOf("thread")' = IdsOf("thread")
  BY <1>1 DEF IdsOf, Contents
<1>8. OrphansAreLate'
  BY <1>1, <1>7 DEF IInv, OrphansAreLate
<1>9. SweepInv'
  <2>1. ASSUME NEW t \in Threads, NEW r \in rows', r.kind \in Contents, Swept(worker'[t], r.kind),
               r.thread = worker'[t].target
        PROVE  r.at > worker'[t].since
    <3>1. CASE t # w
      BY <1>1, <1>3, <2>1, <3>1 DEF Others, IInv, SweepInv
    <3>2. CASE t = w
      <4>1. Moved(y, x)
        BY <1>3, <2>1, <3>2, IdleIs DEF Swept, Left, Range
      <4>2. y.target = x.target /\ y.since = x.since
        BY <4>1 DEF Moved
      <4>3. r.kind # kind
        BY <1>1, <2>1, <3>2, <4>2
      <4>4. SweepOf(r.kind) # SweepOf(kind)
        BY <2>1, <4>3 DEF Contents, SweepOf
      <4>5. Swept(x, r.kind)
        BY <1>1, <1>2, <2>1, <3>2, <4>1, <4>4, MovedLighter DEF Swept
      <4> QED BY <1>1, <2>1, <3>2, <4>2, <4>5 DEF IInv, SweepInv
    <3> QED BY <3>1, <3>2
  <2> QED BY <1>1, <2>1 DEF IInv, SweepInv
<1> QED BY <1>4, <1>5, <1>6, <1>8, <1>9 DEF IInv

(* The row of a thread or an assistant is deleted: only the request that    *)
(* finds it claims so.                                                      *)
LEMMA DeleteOwnedRow ==
    ASSUME OwnedInv, OwnedLighter, NEW w \in Threads, NEW kind \in {"thread", "assistant"}, NEW id,
           rows' = {r \in rows : ~ (r.kind = kind /\ r.id = id)},
           Claim(kind, id, id \in IdsOf(kind)), UNCHANGED <<objects, issued>>
    PROVE  OwnedInv' /\ \A k \in Owned : IdsOf(k)' = IF k = kind THEN IdsOf(k) \ {id} ELSE IdsOf(k)
<1>1. \A k \in Owned : IdsOf(k)' = IF k = kind THEN IdsOf(k) \ {id} ELSE IdsOf(k)
  BY DEF IdsOf
<1>2. (\A k \in Owned : IdsOf(k)' \subseteq IdsOf(k)) /\ Duplicated' = Duplicated
  BY <1>1 DEF Duplicated
<1>3. CASE id \notin IdsOf(kind)
  <2>1. claims' = claims
    BY <1>3 DEF Claim
  <2> QED BY <1>1, <1>2, <2>1, OwnedKeeps
<1>4. CASE id \in IdsOf(kind)
  <2> DEFINE key == <<kind, id>>
  <2>1. claims' = Assign(claims, key, Claimed(kind, id) + 1)
    BY <1>4 DEF Claim
  <2>2. /\ DOMAIN claims' = DOMAIN claims \cup {key}
        /\ claims'[key] = Claimed(kind, id) + 1
        /\ \A c \in DOMAIN claims : c # key => claims'[c] = claims[c]
    BY <2>1 DEF Assign
  <2>3. Claimed(kind, id) \in Nat /\ (id \notin Duplicated => Claimed(kind, id) = 0)
    BY <1>4 DEF OwnedInv, KnownInv, ClaimInv, Claimed, Owned
  <2>4. kind \in Owned /\ kind # "file" /\ id \in DOMAIN issued
    BY <1>4 DEF OwnedInv, KnownInv, IdsOf, Owned
  <2>5. key = <<key[1], key[2]>> /\ key[2] = id /\ key[1] = kind
    OBVIOUS
  <2>6. PendingLighter /\ DeletingLighter /\ StoredLighter /\ GoneLighter
    BY DEF OwnedLighter
  <2>7. KnownInv'
    <3>1. ASSUME NEW r \in rows', r.kind \in Owned PROVE r.id \in DOMAIN issued'
      BY <3>1 DEF OwnedInv, KnownInv
    <3>2. ASSUME NEW t \in Threads, NEW k \in Owned
          PROVE  /\ Pending(worker'[t], k) => /\ NameOf(k) \in DOMAIN worker'[t].ids
                                              /\ IdOf(worker'[t], k) \in DOMAIN issued
                 /\ Deleting(worker'[t], k) => worker'[t].target \in DOMAIN issued \cup {0}
      BY <2>6 DEF OwnedInv, KnownInv, PendingLighter, DeletingLighter, SameId
    <3>3. ASSUME NEW c \in DOMAIN claims'
          PROVE  c = <<c[1], c[2]>> /\ c[2] \in DOMAIN issued /\ claims'[c] \in Nat
      <4>1. CASE c = key
        BY <2>2, <2>3, <2>4, <4>1
      <4>2. CASE c # key
        BY <2>2, <4>2 DEF OwnedInv, KnownInv
      <4> QED BY <4>1, <4>2
    <3> QED BY <3>1, <3>2, <3>3 DEF OwnedInv, KnownInv
  <2> HIDE DEF key
  <2>8. FreshInv'
    <3> SUFFICES ASSUME NEW t \in Threads, NEW k \in Owned, Pending(worker'[t], k),
                        IdOf(worker'[t], k) \notin Duplicated
                 PROVE  Unheard(t, k, IdOf(worker[t], k))'
      BY <1>2 DEF FreshInv
    <3> DEFINE j == IdOf(worker'[t], k)
    <3>1. Pending(worker[t], k) /\ IdOf(worker[t], k) = j
      BY <2>6 DEF PendingLighter, SameId
    <3>2. Unheard(t, k, j)
      BY <3>1 DEF OwnedInv, FreshInv
    <3> HIDE DEF j
    <3>3. ASSUME NEW u \in Threads, Deleting(worker'[u], k) PROVE worker'[u].target # j
      BY <2>6, <3>2, <3>3 DEF Unheard, DeletingLighter
    <3>4. ASSUME NEW u \in Threads, u # t, Pending(worker'[u], k)
          PROVE  IdOf(worker'[u], k) # j
      BY <2>6, <3>2, <3>4 DEF Unheard, PendingLighter, SameId
    <3>5. j \notin IdsOf(k)' /\ <<k, j>> # key
      BY <1>2, <1>4, <3>2 DEF Unheard, key
    <3> QED BY <2>2, <3>2, <3>3, <3>4, <3>5 DEF Unheard, j
  <2>9. ObjectInv' /\ RowHasObject'
    BY <1>2, <2>6, ObjectsKeep DEF OwnedInv, Owned
  <2>10. ClaimInv'
    <3>1. ASSUME NEW k \in Owned, NEW j \in IdsOf(k)', <<k, j>> \in DOMAIN claims'
          PROVE  j \in Duplicated'
      <4>1. <<k, j>> # key
        BY <1>1 DEF key
      <4> QED BY <1>2, <2>2, <3>1, <4>1 DEF OwnedInv, ClaimInv
    <3>2. ASSUME NEW t \in Threads, Holds(worker'[t])
          PROVE  Holds(worker[t]) /\ worker'[t].target = worker[t].target
      BY <2>6, <3>2 DEF GoneLighter, Holds
    <3>3. ASSUME NEW t \in Threads, Holds(worker'[t]), worker'[t].target \notin Duplicated'
          PROVE  /\ <<"file", worker'[t].target>> \notin DOMAIN claims'
                 /\ \A u \in Threads : Holds(worker'[u]) /\ worker'[u].target = worker'[t].target
                       => u = t
      <4>1. <<"file", worker'[t].target>> # key
        BY <2>4 DEF key
      <4> QED BY <1>2, <2>2, <3>2, <3>3, <4>1 DEF OwnedInv, ClaimInv
    <3> QED BY <3>1, <3>3 DEF ClaimInv
  <2>11. DeletionClaimedOnce'
    <3> SUFFICES ASSUME NEW c \in DOMAIN claims', c[2] \notin Duplicated PROVE claims'[c] <= 1
      BY <1>2 DEF DeletionClaimedOnce
    <3>1. CASE c = key
      BY <2>2, <2>3, <2>5, <3>1
    <3>2. CASE c # key
      BY <2>2, <3>2 DEF OwnedInv, DeletionClaimedOnce
    <3> QED BY <3>1, <3>2
  <2> QED BY <1>1, <2>7, <2>8, <2>9, <2>10, <2>11 DEF OwnedInv
<1> QED BY <1>3, <1>4

(* The last statement of DeleteThread: when the thread is still there, what *)
(* is left in it came after the deletion began, as the rest was swept.      *)
LEMMA DeleteThreadRowKeeps ==
    ASSUME IInv, NEW w \in Threads, DeleteThreadRow(w)
    PROVE  IInv'
<1> DEFINE x == worker[w]  y == worker'[w]  id == x.target
<1>1. /\ rows' = {r \in rows : ~ (r.kind = "thread" /\ r.id = id)}
      /\ Claim("thread", id, id \in IdsOf("thread"))
      /\ cut' = IF id \in IdsOf("thread") THEN Assign(cut, id, x.since) ELSE cut
      /\ UNCHANGED <<objects, clock, gen, issued>> /\ Go(w, x)
      /\ x.todo # <<>> /\ Head(x.todo) = "DeleteThreadRow"
  BY DEF DeleteThreadRow, At, ids
<1>2. ThreadInv /\ DOMAIN worker = Threads /\ WorkerOK(x) /\ DOMAIN x = Fields
  BY ThreadInvIs DEF IInv, WorkerOK
<1>3. DOMAIN worker' = Threads /\ Others(w) /\ (y = Idle \/ Moved(y, x))
  BY <1>1, <1>2, GoIs
<1>4. /\ ThreadInv' /\ OwnedLighter /\ SweptLighter
      /\ \A t \in Threads : worker'[t].since \in {worker[t].since, 0, clock}
  BY <1>1, <1>2, <1>3, UnmarkedStep DEF Marks, OwnedMarks, SweepMarks
<1>5. OwnedInv' /\ IdsOf("thread")' = IdsOf("thread") \ {id}
  BY <1>1, <1>4, DeleteOwnedRow DEF IInv, Owned
<1>6. \A kind \in Contents : Swept(x, kind)
  BY <1>1, <1>2, Advance DEF WorkerOK, Swept, Left
<1>7. CASE id \notin IdsOf("thread")
  <2>1. cut' = cut /\ IdsOf("thread")' = IdsOf("thread")
    BY <1>1, <1>5, <1>7
  <2>2. \A r \in rows' : RowOK(r) /\ (r.at > clock \/ \E q \in rows : Resembles(r, q))
    BY <1>1 DEF IInv, SweepInv, Resembles
  <2>3. SweepInv' /\ OrphansAreLate'
    BY <1>4, <2>1, <2>2, SweepKeeps DEF IInv
  <2>4. TimeInv'
    BY <1>1, <1>4, <2>1, TimeKeeps DEF IInv, TimeInv
  <2> QED BY <1>4, <1>5, <2>3, <2>4 DEF IInv
<1>8. CASE id \in IdsOf("thread")
  <2>1. id # 0
    <3>1. id \in DOMAIN issued
      BY <1>8 DEF IInv, OwnedInv, KnownInv, IdsOf, Owned
    <3> QED BY <3>1 DEF IInv, OwnedInv, KnownInv
  <2>2. /\ DOMAIN cut' = DOMAIN cut \cup {id} /\ cut'[id] = x.since
        /\ \A j \in DOMAIN cut : j # id => cut'[j] = cut[j]
    BY <1>1, <1>8 DEF Assign
  <2>3. x.since \in Nat /\ x.since <= clock /\ clock \in Nat /\ clock' = clock
    BY <1>1 DEF IInv, TimeInv
  <2>4. TimeInv'
    <3>1. ASSUME NEW j \in DOMAIN cut' PROVE cut'[j] \in Nat /\ cut'[j] <= clock'
      <4>1. CASE j = id
        BY <2>2, <2>3, <4>1
      <4>2. CASE j # id
        BY <2>2, <2>3, <4>2 DEF IInv, TimeInv
      <4> QED BY <4>1, <4>2
    <3>2. ASSUME NEW t \in Threads PROVE worker'[t].since \in Nat /\ worker'[t].since <= clock'
      BY <1>4, <2>3 DEF IInv, TimeInv
    <3> QED BY <1>1, <3>1, <3>2 DEF IInv, TimeInv
  <2>5. SweepInv'
    <3>1. ASSUME NEW t \in Threads, NEW r \in rows', r.kind \in Contents, Swept(worker'[t], r.kind),
                 r.thread = worker'[t].target
          PROVE  r.at > worker'[t].since
      <4>1. /\ Swept(worker[t], r.kind) /\ worker'[t].since = worker[t].since
            /\ worker'[t].target = worker[t].target
        BY <1>4, <3>1 DEF SweptLighter, LighterSwept
      <4> QED BY <1>1, <3>1, <4>1 DEF IInv, SweepInv
    <3> QED BY <1>1, <2>1, <2>2, <3>1 DEF IInv, SweepInv
  <2>6. OrphansAreLate'
    <3> SUFFICES ASSUME NEW r \in rows', r.thread \in DOMAIN cut', r.thread \notin IdsOf("thread")'
                 PROVE  r.at > cut'[r.thread]
      BY DEF OrphansAreLate
    <3>1. r \in rows /\ RowOK(r)
      BY <1>1 DEF IInv, SweepInv
    <3>2. CASE r.thread = id
      <4>1. r.kind \in Contents
        BY <2>1, <3>1, <3>2 DEF RowOK, Kinds, Owned, Contents
      <4> QED BY <1>6, <2>2, <3>1, <3>2, <4>1 DEF IInv, SweepInv
    <3>3. CASE r.thread # id
      BY <1>5, <2>2, <3>1, <3>3 DEF IInv, OrphansAreLate
    <3> QED BY <3>2, <3>3
  <2> QED BY <1>4, <1>5, <2>4, <2>5, <2>6 DEF IInv
<1> QED BY <1>7, <1>8

(* The row of an assistant.                                                 *)
LEMMA DeleteAssistantRowKeeps ==
    ASSUME IInv, NEW w \in Threads, DeleteAssistantRow(w)
    PROVE  IInv'
<1> DEFINE x == worker[w]  y == worker'[w]  id == x.target
<1>1. /\ rows' = {r \in rows : ~ (r.kind = "assistant" /\ r.id = id)}
      /\ Claim("assistant", id, id \in IdsOf("assistant"))
      /\ UNCHANGED <<objects, clock, cut, gen, issued>> /\ Go(w, x)
      /\ x.todo # <<>> /\ Head(x.todo) = "DeleteAssistantRow"
  BY DEF DeleteAssistantRow, At, ids
<1>2. ThreadInv /\ DOMAIN worker = Threads /\ DOMAIN x = Fields
  BY DEF IInv, ThreadInv
<1>3. DOMAIN worker' = Threads /\ Others(w) /\ (y = Idle \/ Moved(y, x))
  BY <1>1, <1>2, GoIs
<1>4. /\ ThreadInv' /\ OwnedLighter /\ SweptLighter
      /\ \A t \in Threads : worker'[t].since \in {worker[t].since, 0, clock}
  BY <1>1, <1>2, <1>3, UnmarkedStep DEF Marks, OwnedMarks, SweepMarks
<1>5. OwnedInv' /\ IdsOf("thread")' = IdsOf("thread")
  BY <1>1, <1>4, DeleteOwnedRow DEF IInv, Owned
<1>6. \A r \in rows' : RowOK(r) /\ (r.at > clock \/ \E q \in rows : Resembles(r, q))
  BY <1>1 DEF IInv, SweepInv, Resembles
<1>7. SweepInv' /\ OrphansAreLate'
  BY <1>1, <1>4, <1>5, <1>6, SweepKeeps DEF IInv
<1>8. TimeInv'
  BY <1>1, <1>4, TimeKeeps DEF IInv, TimeInv
<1> QED BY <1>4, <1>5, <1>7, <1>8 DEF IInv

-----------------------------------------------------------------------------
(* Files and their objects.                                                 *)

(* The row of a file is deleted first.  The request that finds it is the    *)
(* only one that holds the right to claim the deletion.                     *)
LEMMA DeleteFileRowKeeps ==
    ASSUME IInv, NEW w \in Threads, DeleteFileRow(w)
    PROVE  IInv'
<1> DEFINE x == worker[w]  y == worker'[w]  id == x.target
           me == [x EXCEPT !.count = IF id \in IdsOf("file") THEN 1 ELSE 0]
<1>1. /\ rows' = {r \in rows : ~ (r.kind = "file" /\ r.id = id)}
      /\ UNCHANGED <<objects, clock, gen, issued, claims, cut>> /\ Go(w, me)
      /\ x.todo # <<>> /\ Head(x.todo) = "DeleteFileRow"
  BY DEF DeleteFileRow, At, ids, history
<1>2. DOMAIN worker = Threads /\ WorkerOK(x) /\ DOMAIN x = Fields /\ x.old \in Nat
  BY ThreadInvIs DEF IInv, WorkerOK
<1>3. /\ DOMAIN me = Fields /\ me.todo = x.todo /\ me.target = x.target /\ me.since = x.since
      /\ me.old = x.old /\ me.ids = x.ids /\ (me.count = 1 => id \in IdsOf("file"))
  BY <1>2 DEF Fields
<1>4. DOMAIN worker' = Threads /\ Others(w) /\ (y = Idle \/ Moved(y, me))
  BY <1>1, <1>2, <1>3, GoIs
<1>5. WorkerOK(me)
  BY <1>2, <1>3 DEF WorkerOK
<1> HIDE DEF me
<1>6. ThreadInv'
  BY <1>1, <1>3, <1>4, <1>5, MovedOK, IdleIs, ThreadsKeep DEF IInv
<1>7. TimeInv'
  <2>1. \A t \in Threads : worker'[t].since \in {worker[t].since, 0, clock}
    BY <1>3, <1>4, IdleIs DEF Others, Moved
  <2> QED BY <1>1, <2>1, TimeKeeps DEF IInv, TimeInv
<1>8. \A s : ~ Left(Idle, s)
  BY IdleIs DEF Left, Range
<1>9. /\ \A s : Left(y, s) => Left(x, s)
      /\ \A s : y # Idle /\ s # "DeleteFileRow" /\ ~ Left(y, s) => ~ Left(x, s)
      /\ y # Idle => /\ y.ids = x.ids /\ y.target = x.target /\ y.since = x.since
                     /\ (y.count = 1 => id \in IdsOf("file"))
  <2>1. CASE y = Idle
    BY <1>8, <2>1
  <2>2. CASE Moved(y, me)
    <3>1. \A s : Left(y, s) <=> Left(me, s) /\ s # Head(me.todo)
      BY <1>1, <1>3, <1>5, <2>2, MovedLighter
    <3>2. \A s : Left(me, s) <=> Left(x, s)
      BY <1>3 DEF Left
    <3> QED BY <1>1, <1>3, <2>2, <3>1, <3>2 DEF Moved
  <2> QED BY <1>4, <2>1, <2>2
<1>10. /\ \A kind \in Owned : Pending(y, kind) => y # Idle /\ Pending(x, kind)
       /\ \A kind \in Owned : Deleting(y, kind) => y # Idle /\ Deleting(x, kind)
       /\ Stored(y) => y # Idle /\ Stored(x)
       /\ RowGone(y) => y # Idle
       /\ \A kind \in Contents : Swept(y, kind) => y # Idle /\ Swept(x, kind)
  <2>1. \A kind \in Owned : NameOf(kind) # "DeleteFileRow"
    BY DEF NameOf
  <2>2. \A kind \in Contents : SweepOf(kind) # "DeleteFileRow"
    BY DEF SweepOf
  <2>3. ASSUME NEW kind \in Owned, Pending(y, kind) PROVE y # Idle /\ Pending(x, kind)
    BY <1>8, <1>9, <2>1, <2>3 DEF Pending
  <2>4. ASSUME NEW kind \in Owned, Deleting(y, kind) PROVE y # Idle /\ Deleting(x, kind)
    BY <1>8, <1>9, <2>4 DEF Deleting
  <2>5. ASSUME Stored(y) PROVE y # Idle /\ Stored(x)
    BY <1>9, <2>3, <2>5 DEF Stored, Owned
  <2>6. ASSUME RowGone(y) PROVE y # Idle
    BY <1>8, <2>6 DEF RowGone
  <2>7. ASSUME NEW kind \in Contents, Swept(y, kind) PROVE y # Idle /\ Swept(x, kind)
    BY <1>8, <1>9, <2>2, <2>7 DEF Swept
  <2> QED BY <2>3, <2>4, <2>5, <2>6, <2>7
<1> HIDE DEF y
<1>11. ASSUME NEW t \in Threads, t # w PROVE worker'[t] = worker[t]
  BY <1>4, <1>11 DEF Others
<1>12. PendingLighter /\ DeletingLighter /\ StoredLighter /\ SweptLighter
  BY <1>9, <1>10, <1>11 DEF PendingLighter, DeletingLighter, StoredLighter, SweptLighter,
                            LighterSwept, SameId, IdOf, y
<1>13. /\ IdsOf("file")' = IdsOf("file") \ {id} /\ IdsOf("thread")' = IdsOf("thread")
       /\ \A kind \in Owned : IdsOf(kind)' \subseteq IdsOf(kind)
  BY <1>1 DEF IdsOf
<1>14. Duplicated' = Duplicated
  BY <1>1 DEF Duplicated
<1>15. KnownInv' /\ FreshInv'
  BY <1>1, <1>12, <1>13, <1>14, KnownKeeps, FreshKeeps DEF IInv, OwnedInv, KnownInv
<1>16. ObjectInv' /\ RowHasObject'
  <2>1. ASSUME NEW t \in Threads, Stored(worker'[t])
        PROVE  IdOf(worker'[t], "file") \in objects' \cup Duplicated'
    BY <1>1, <1>12, <1>14, <2>1 DEF IInv, OwnedInv, ObjectInv, StoredLighter, SameId
  <2>2. ASSUME NEW t \in Threads, RowGone(worker'[t])
        PROVE  worker'[t].target \notin IdsOf("file")' \/ worker'[t].target \in Duplicated'
    <3>1. CASE t = w
      BY <1>9, <1>10, <1>13, <2>2, <3>1 DEF y
    <3>2. CASE t # w
      BY <1>11, <1>13, <1>14, <2>2, <3>2 DEF IInv, OwnedInv, ObjectInv
    <3> QED BY <3>1, <3>2
  <2>3. RowHasObject'
    BY <1>1, <1>13, <1>14 DEF IInv, OwnedInv, RowHasObject
  <2> QED BY <2>1, <2>2, <2>3 DEF ObjectInv
<1>17. ClaimInv' /\ DeletionClaimedOnce'
  <2>1. ASSUME NEW k \in Owned, NEW j \in IdsOf(k)', <<k, j>> \in DOMAIN claims'
        PROVE  j \in Duplicated'
    BY <1>1, <1>13, <1>14, <2>1 DEF IInv, OwnedInv, ClaimInv
  <2>2. Holds(y) => y.target = id /\ id \in IdsOf("file")
    BY <1>9, <1>10 DEF Holds
  <2>3. \A t \in Threads : t # w /\ Holds(worker'[t]) /\ worker'[t].target \notin Duplicated =>
           Holds(worker[t]) /\ worker[t] = worker'[t] /\ worker'[t].target \notin IdsOf("file")
    BY <1>11 DEF Holds, IInv, OwnedInv, ObjectInv
  <2>4. ASSUME NEW t \in Threads, Holds(worker'[t]), worker'[t].target \notin Duplicated'
        PROVE  /\ <<"file", worker'[t].target>> \notin DOMAIN claims'
               /\ \A u \in Threads : Holds(worker'[u]) /\ worker'[u].target = worker'[t].target
                     => u = t
    <3>1. CASE t = w
      <4>1. <<"file", worker'[t].target>> \notin DOMAIN claims'
        BY <1>1, <1>14, <2>2, <2>4, <3>1 DEF IInv, OwnedInv, ClaimInv, Owned, y
      <4>2. ASSUME NEW u \in Threads, Holds(worker'[u]), worker'[u].target = worker'[t].target
            PROVE  u = t
        BY <1>14, <2>2, <2>3, <2>4, <3>1, <4>2 DEF y
      <4> QED BY <4>1, <4>2
    <3>2. CASE t # w
      <4>1. <<"file", worker'[t].target>> \notin DOMAIN claims'
        BY <1>1, <1>14, <2>3, <2>4, <3>2 DEF IInv, OwnedInv, ClaimInv
      <4>2. ASSUME NEW u \in Threads, Holds(worker'[u]), worker'[u].target = worker'[t].target
            PROVE  u = t
        <5>1. u # w
          BY <1>14, <2>2, <2>3, <2>4, <3>2, <4>2 DEF y
        <5> QED BY <1>14, <2>3, <2>4, <3>2, <4>2, <5>1 DEF IInv, OwnedInv, ClaimInv
      <4> QED BY <4>1, <4>2
    <3> QED BY <3>1, <3>2
  <2> QED BY <1>1, <1>14, <2>1, <2>4 DEF IInv, OwnedInv, ClaimInv, DeletionClaimedOnce
<1>18. SweepInv' /\ OrphansAreLate'
  <2>1. \A r \in rows' : RowOK(r) /\ (r.at > clock \/ \E q \in rows : Resembles(r, q))
    BY <1>1 DEF IInv, SweepInv, Resembles
  <2> QED BY <1>1, <1>12, <1>13, <2>1, SweepKeeps DEF IInv
<1> QED BY <1>6, <1>7, <1>15, <1>16, <1>17, <1>18 DEF IInv, OwnedInv

(* An object is stored under an id that no other upload will insert and no  *)
(* row has, unless it is a duplicate; so neither storing it nor failing to  *)
(* takes the object of a row away.                                          *)
LEMMA PutObjectKeeps ==
    ASSUME IInv, NEW w \in Threads, PutObject(w)
    PROVE  IInv'
<1> DEFINE x == worker[w]  y == worker'[w]  id == IdOf(x, "file")
<1>1. /\ \/ objects' = objects \cup {id} /\ Go(w, x)
         \/ objects' = objects \ {id} /\ Stop(w)
      /\ UNCHANGED <<rows, clock, gen, issued, claims, cut>>
      /\ x.todo # <<>> /\ Head(x.todo) = "PutObject"
  BY DEF PutObject, At, ids, history, database, IdOf, NameOf
<1>2. DOMAIN worker = Threads /\ WorkerOK(x) /\ DOMAIN x = Fields
  BY ThreadInvIs DEF IInv, WorkerOK
<1>3. DOMAIN worker' = Threads /\ Others(w) /\ (y = Idle \/ Moved(y, x))
  BY <1>1, <1>2, GoIs, StopIs
<1>4. ThreadInv'
  BY <1>1, <1>2, <1>3, MovedOK, IdleIs, ThreadsKeep DEF IInv
<1>5. TimeInv'
  <2>1. \A t \in Threads : worker'[t].since \in {worker[t].since, 0, clock}
    BY <1>3, IdleIs DEF Others, Moved
  <2> QED BY <1>1, <2>1, TimeKeeps DEF IInv, TimeInv
<1>6. Pending(x, "file") /\ "file" \in Owned
  <2>1. "FileId" \notin Range(x.todo) /\ "InsertOneFile" \in Range(x.todo)
    BY <1>1, <1>2, Advance DEF WorkerOK
  <2> QED BY <2>1 DEF Pending, Left, InsertOf, NameOf, Owned
<1>7. id \in DOMAIN issued /\ (id \in Duplicated \/ Unheard(w, "file", id))
  BY <1>6 DEF IInv, OwnedInv, KnownInv, FreshInv
<1>8. \A s : ~ Left(Idle, s)
  BY IdleIs DEF Left, Range
<1>9. /\ \A s : Left(y, s) => Left(x, s)
      /\ \A s : y # Idle /\ s # "PutObject" /\ ~ Left(y, s) => ~ Left(x, s)
      /\ y # Idle => /\ y.ids = x.ids /\ y.target = x.target /\ y.since = x.since
                     /\ y.count = x.count
  <2>1. CASE y = Idle
    BY <1>8, <2>1
  <2>2. CASE Moved(y, x)
    <3>1. \A s : Left(y, s) <=> Left(x, s) /\ s # Head(x.todo)
      BY <1>1, <1>2, <2>2, MovedLighter
    <3> QED BY <1>1, <2>2, <3>1 DEF Moved
  <2> QED BY <1>3, <2>1, <2>2
<1>10. /\ \A kind \in Owned : Pending(y, kind) => y # Idle /\ Pending(x, kind)
       /\ \A kind \in Owned : Deleting(y, kind) => y # Idle /\ Deleting(x, kind)
       /\ RowGone(y) => y # Idle /\ RowGone(x)
       /\ \A kind \in Contents : Swept(y, kind) => y # Idle /\ Swept(x, kind)
  <2>1. \A kind \in Owned : NameOf(kind) # "PutObject"
    BY DEF NameOf
  <2>2. \A kind \in Contents : SweepOf(kind) # "PutObject"
    BY DEF SweepOf
  <2>3. ASSUME NEW kind \in Owned, Pending(y, kind) PROVE y # Idle /\ Pending(x, kind)
    BY <1>8, <1>9, <2>1, <2>3 DEF Pending
  <2>4. ASSUME NEW kind \in Owned, Deleting(y, kind) PROVE y # Idle /\ Deleting(x, kind)
    BY <1>8, <1>9, <2>4 DEF Deleting
  <2>5. ASSUME RowGone(y) PROVE y # Idle /\ RowGone(x)
    BY <1>8, <1>9, <2>5 DEF RowGone
  <2>6. ASSUME NEW kind \in Contents, Swept(y, kind) PROVE y # Idle /\ Swept(x, kind)
    BY <1>8, <1>9, <2>2, <2>6 DEF Swept
  <2> QED BY <2>3, <2>4, <2>5, <2>6
<1>11. Stored(y) => y # Idle /\ Pending(x, "file") /\ id = IdOf(y, "file")
  BY <1>6, <1>9, <1>10 DEF Stored, IdOf
<1>12. y # Idle => objects' = objects \cup {id}
  BY <1>1, <1>2, StopIs
<1> HIDE DEF y
<1>13. ASSUME NEW t \in Threads, t # w PROVE worker'[t] = worker[t]
  BY <1>3, <1>13 DEF Others
<1>14. PendingLighter /\ DeletingLighter /\ GoneLighter /\ SweptLighter
  BY <1>9, <1>10, <1>13 DEF PendingLighter, DeletingLighter, GoneLighter, SweptLighter,
                            LighterSwept, SameId, IdOf, y
<1>15. /\ Duplicated' = Duplicated /\ \A kind : IdsOf(kind)' = IdsOf(kind)
       /\ objects' \subseteq DOMAIN issued
  BY <1>1, <1>7 DEF Duplicated, IdsOf, IInv, OwnedInv, KnownInv
<1>16. KnownInv' /\ FreshInv' /\ ClaimInv' /\ DeletionClaimedOnce'
  BY <1>1, <1>14, <1>15, KnownKeeps, FreshKeeps, ClaimsKeep DEF IInv, OwnedInv
<1>17. ObjectInv' /\ RowHasObject'
  <2>1. ASSUME NEW t \in Threads, Stored(worker'[t])
        PROVE  IdOf(worker'[t], "file") \in objects' \cup Duplicated'
    <3>1. CASE t = w
      BY <1>11, <1>12, <2>1, <3>1 DEF y
    <3>2. CASE t # w
      <4>1. Stored(worker[t]) /\ Pending(worker[t], "file") /\ worker'[t] = worker[t]
        BY <1>13, <2>1, <3>2 DEF Stored
      <4>2. IdOf(worker[t], "file") \in objects \cup Duplicated
        BY <4>1 DEF IInv, OwnedInv, ObjectInv
      <4>3. IdOf(worker[t], "file") # id \/ id \in Duplicated
        BY <1>7, <3>2, <4>1 DEF Unheard
      <4> QED BY <1>1, <1>15, <4>1, <4>2, <4>3
    <3> QED BY <3>1, <3>2
  <2>2. ASSUME NEW t \in Threads, RowGone(worker'[t])
        PROVE  worker'[t].target \notin IdsOf("file")' \/ worker'[t].target \in Duplicated'
    BY <1>14, <1>15, <2>2 DEF IInv, OwnedInv, ObjectInv, GoneLighter
  <2>3. \A j \in IdsOf("file")' : j \in objects' \/ j \in Duplicated'
    <3>1. id \notin IdsOf("file") \/ id \in Duplicated
      BY <1>7 DEF Unheard
    <3> QED BY <1>1, <1>15, <3>1 DEF IInv, OwnedInv, RowHasObject
  <2> QED BY <2>1, <2>2, <2>3 DEF ObjectInv, RowHasObject
<1>18. SweepInv' /\ OrphansAreLate'
  <2>1. \A r \in rows' : RowOK(r) /\ (r.at > clock \/ \E q \in rows : Resembles(r, q))
    BY <1>1 DEF IInv, SweepInv, Resembles
  <2> QED BY <1>1, <1>14, <1>15, <2>1, SweepKeeps DEF IInv
<1> QED BY <1>4, <1>5, <1>16, <1>17, <1>18 DEF IInv, OwnedInv

(* An object is deleted when its row is gone.  Of the requests that got so  *)
(* far only the one that deleted the row claims the deletion.               *)
LEMMA DeleteObjectKeeps ==
    ASSUME IInv, NEW w \in Threads, DeleteObject(w)
    PROVE  IInv'
<1> DEFINE x == worker[w]  y == worker'[w]  id == x.target  key == <<"file", id>>
           found == id \in objects /\ x.count = 1
<1>1. /\ objects' = objects \ {id} /\ Claim("file", id, found)
      /\ UNCHANGED <<rows, clock, gen, issued, cut>> /\ Go(w, x)
      /\ x.todo # <<>> /\ Head(x.todo) = "DeleteObject"
  BY DEF DeleteObject, At, ids, database
<1>2. ThreadInv /\ DOMAIN worker = Threads /\ WorkerOK(x) /\ DOMAIN x = Fields
  BY ThreadInvIs DEF IInv, WorkerOK
<1>3. DOMAIN worker' = Threads /\ Others(w) /\ (y = Idle \/ Moved(y, x))
  BY <1>1, <1>2, GoIs
<1>4. /\ ThreadInv' /\ OwnedLighter /\ SweptLighter
      /\ \A t \in Threads : worker'[t].since \in {worker[t].since, 0, clock}
  BY <1>1, <1>2, <1>3, UnmarkedStep DEF Marks, OwnedMarks, SweepMarks
<1>5. PendingLighter /\ DeletingLighter /\ StoredLighter /\ GoneLighter
  BY <1>4 DEF OwnedLighter
<1>6. RowGone(x) /\ Deleting(x, "file") /\ "file" \in Owned
  <2>1. "DeleteObject" \in Range(x.todo) /\ "DeleteFileRow" \notin Range(x.todo)
    BY <1>1, <1>2, Advance DEF WorkerOK
  <2> QED BY <2>1 DEF RowGone, Deleting, Left, DeleteOf, Owned
<1>7. ~ RowGone(y)
  <2>1. CASE y = Idle
    BY <2>1, IdleIs DEF RowGone, Left, Range
  <2>2. CASE Moved(y, x)
    BY <1>1, <1>2, <2>2, MovedLighter DEF RowGone
  <2> QED BY <1>3, <2>1, <2>2
<1>8. id \notin IdsOf("file") \/ id \in Duplicated
  BY <1>6 DEF IInv, OwnedInv, ObjectInv
<1>9. Duplicated' = Duplicated /\ \A kind : IdsOf(kind)' = IdsOf(kind)
  BY <1>1 DEF Duplicated, IdsOf
<1>10. found => Holds(x) /\ id \in DOMAIN issued
  BY <1>6 DEF Holds, IInv, OwnedInv, KnownInv
<1>11. /\ DOMAIN claims' = DOMAIN claims \cup (IF found THEN {key} ELSE {})
       /\ found => claims'[key] = Claimed("file", id) + 1
       /\ \A c \in DOMAIN claims : ~ found \/ c # key => claims'[c] = claims[c]
  <2>1. CASE found
    <3>1. claims' = Assign(claims, key, Claimed("file", id) + 1)
      BY <1>1, <2>1 DEF Claim
    <3> QED BY <2>1, <3>1 DEF Assign
  <2>2. CASE ~ found
    BY <1>1, <2>2 DEF Claim
  <2> QED BY <2>1, <2>2
<1>12. /\ Claimed("file", id) \in Nat
       /\ found /\ id \notin Duplicated => Claimed("file", id) = 0
  BY <1>10 DEF IInv, OwnedInv, KnownInv, ClaimInv, Claimed
<1>13. key = <<key[1], key[2]>> /\ key[2] = id /\ key[1] = "file"
  OBVIOUS
<1>14. \A k, j : <<k, j>> = key => k = "file" /\ j = id
  OBVIOUS
<1> HIDE DEF key, found, y
<1>15. KnownInv'
  <2>1. ASSUME NEW t \in Threads, NEW k \in Owned
        PROVE  /\ Pending(worker'[t], k) => /\ NameOf(k) \in DOMAIN worker'[t].ids
                                            /\ IdOf(worker'[t], k) \in DOMAIN issued
               /\ Deleting(worker'[t], k) => worker'[t].target \in DOMAIN issued \cup {0}
    BY <1>5 DEF IInv, OwnedInv, KnownInv, PendingLighter, DeletingLighter, SameId
  <2>2. ASSUME NEW c \in DOMAIN claims'
        PROVE  c = <<c[1], c[2]>> /\ c[2] \in DOMAIN issued /\ claims'[c] \in Nat
    <3>1. CASE found /\ c = key
      BY <1>10, <1>11, <1>12, <1>13, <3>1
    <3>2. CASE ~ (found /\ c = key)
      BY <1>11, <3>2 DEF IInv, OwnedInv, KnownInv
    <3> QED BY <3>1, <3>2
  <2> QED BY <1>1, <2>1, <2>2 DEF IInv, OwnedInv, KnownInv
<1>16. FreshInv'
  <2> SUFFICES ASSUME NEW t \in Threads, NEW k \in Owned, Pending(worker'[t], k),
                      IdOf(worker'[t], k) \notin Duplicated
               PROVE  Unheard(t, k, IdOf(worker[t], k))'
    BY <1>9 DEF FreshInv
  <2> DEFINE j == IdOf(worker'[t], k)
  <2>1. Pending(worker[t], k) /\ IdOf(worker[t], k) = j
    BY <1>5 DEF PendingLighter, SameId
  <2>2. Unheard(t, k, j)
    BY <2>1 DEF IInv, OwnedInv, FreshInv
  <2> HIDE DEF j
  <2>3. ASSUME NEW u \in Threads, Deleting(worker'[u], k) PROVE worker'[u].target # j
    BY <1>5, <2>2, <2>3 DEF Unheard, DeletingLighter
  <2>4. ASSUME NEW u \in Threads, u # t, Pending(worker'[u], k)
        PROVE  IdOf(worker'[u], k) # j
    BY <1>5, <2>2, <2>4 DEF Unheard, PendingLighter, SameId
  <2>5. <<k, j>> # key
    BY <1>6, <1>14, <2>2 DEF Unheard
  <2> QED BY <1>9, <1>11, <2>2, <2>3, <2>4, <2>5 DEF Unheard, j
<1>17. ObjectInv' /\ RowHasObject'
  <2>1. ASSUME NEW t \in Threads, Stored(worker'[t])
        PROVE  IdOf(worker'[t], "file") \in objects' \cup Duplicated'
    <3>1. /\ Stored(worker[t]) /\ Pending(worker[t], "file")
          /\ IdOf(worker'[t], "file") = IdOf(worker[t], "file")
      BY <1>5, <2>1 DEF StoredLighter, SameId, Stored
    <3>2. IdOf(worker[t], "file") \in objects \cup Duplicated
      BY <3>1 DEF IInv, OwnedInv, ObjectInv
    <3>3. IdOf(worker[t], "file") # id \/ IdOf(worker[t], "file") \in Duplicated
      BY <1>6, <3>1 DEF IInv, OwnedInv, FreshInv, Unheard
    <3> QED BY <1>1, <1>9, <3>1, <3>2, <3>3
  <2>2. ASSUME NEW t \in Threads, RowGone(worker'[t])
        PROVE  worker'[t].target \notin IdsOf("file")' \/ worker'[t].target \in Duplicated'
    BY <1>5, <1>9, <2>2 DEF IInv, OwnedInv, ObjectInv, GoneLighter
  <2>3. \A j \in IdsOf("file")' : j \in objects' \/ j \in Duplicated'
    BY <1>1, <1>8, <1>9 DEF IInv, OwnedInv, RowHasObject
  <2> QED BY <2>1, <2>2, <2>3 DEF ObjectInv, RowHasObject
<1>18. ClaimInv'
  <2>1. ASSUME NEW k \in Owned, NEW j \in IdsOf(k)', <<k, j>> \in DOMAIN claims'
        PROVE  j \in Duplicated'
    <3>1. CASE <<k, j>> = key
      BY <1>8, <1>9, <1>14, <3>1
    <3>2. CASE <<k, j>> # key
      BY <1>9, <1>11, <2>1, <3>2 DEF IInv, OwnedInv, ClaimInv
    <3> QED BY <3>1, <3>2
  <2>2. ASSUME NEW t \in Threads, Holds(worker'[t])
        PROVE  t # w /\ Holds(worker[t]) /\ worker'[t].target = worker[t].target
    BY <1>5, <1>7, <2>2 DEF GoneLighter, Holds, y
  <2>3. ASSUME NEW t \in Threads, Holds(worker'[t]), worker'[t].target \notin Duplicated'
        PROVE  /\ <<"file", worker'[t].target>> \notin DOMAIN claims'
               /\ \A u \in Threads : Holds(worker'[u]) /\ worker'[u].target = worker'[t].target
                     => u = t
    <3>1. ASSUME found PROVE <<"file", worker'[t].target>> # key
      <4>1. Holds(worker[w])
        BY <1>10, <3>1
      <4>2. t # w /\ Holds(worker[t]) /\ worker'[t].target = worker[t].target
        BY <2>2, <2>3
      <4>3. worker[t].target # id
        BY <1>9, <2>3, <4>1, <4>2 DEF IInv, OwnedInv, ClaimInv
      <4> QED BY <1>14, <4>2, <4>3
    <3>2. <<"file", worker'[t].target>> \notin DOMAIN claims
      BY <1>9, <2>2, <2>3 DEF IInv, OwnedInv, ClaimInv
    <3>3. \A u \in Threads : Holds(worker'[u]) /\ worker'[u].target = worker'[t].target => u = t
      BY <1>9, <2>2, <2>3 DEF IInv, OwnedInv, ClaimInv
    <3> QED BY <1>11, <3>1, <3>2, <3>3
  <2> QED BY <2>1, <2>3 DEF ClaimInv
<1>19. DeletionClaimedOnce'
  <2> SUFFICES ASSUME NEW c \in DOMAIN claims', c[2] \notin Duplicated PROVE claims'[c] <= 1
    BY <1>9 DEF DeletionClaimedOnce
  <2>1. CASE found /\ c = key
    BY <1>11, <1>12, <1>13, <2>1
  <2>2. CASE ~ (found /\ c = key)
    BY <1>11, <2>2 DEF IInv, OwnedInv, DeletionClaimedOnce
  <2> QED BY <2>1, <2>2
<1>20. SweepInv' /\ OrphansAreLate'
  <2>1. \A r \in rows' : RowOK(r) /\ (r.at > clock \/ \E q \in rows : Resembles(r, q))
    BY <1>1 DEF IInv, SweepInv, Resembles
  <2> QED BY <1>1, <1>4, <1>9, <2>1, SweepKeeps DEF IInv
<1>21. TimeInv'
  BY <1>1, <1>4, TimeKeeps DEF IInv, TimeInv
<1> QED BY <1>4, <1>15, <1>16, <1>17, <1>18, <1>19, <1>20, <1>21 DEF IInv, OwnedInv

-----------------------------------------------------------------------------
(* The invariant holds at the start and every step keeps it.                *)

(* The server starts with idle threads and rows whose ids are issued once.  *)
LEMMA InitIInv == Init => IInv
<1> SUFFICES ASSUME Init PROVE IInv
  OBVIOUS
<1>1. DOMAIN worker = Threads /\ \A t \in Threads : worker[t] = Idle
  BY DEF Init
<1>2. ThreadInv
  BY <1>1, IdleIs, ThreadInvIs
<1>3. clock = 5 /\ gen = 5 /\ DOMAIN cut = {} /\ DOMAIN claims = {} /\ objects = {5}
  BY DEF Init
<1>4. DOMAIN issued = 1..5 /\ \A i \in 1..5 : issued[i] = 1
  BY DEF Init
<1>5. \A s : ~ Left(Idle, s)
  BY IdleIs DEF Left, Range
<1>6. \A t \in Threads :
         /\ \A kind \in Owned : ~ Pending(worker[t], kind) /\ ~ Deleting(worker[t], kind)
         /\ ~ Stored(worker[t]) /\ ~ RowGone(worker[t]) /\ ~ Holds(worker[t])
         /\ \A kind \in Contents : ~ Swept(worker[t], kind)
  BY <1>1, <1>5 DEF Pending, Deleting, Stored, RowGone, Holds, Swept
<1>7. TimeInv
  BY <1>1, <1>3, IdleIs DEF TimeInv
<1>8. \A r \in rows : RowOK(r) /\ r.id \in 1..5 /\ (r.kind = "file" => r.id = 5)
  BY DEF Init, RowOK, Kinds, Owned
<1>9. KnownInv
  <2>1. \A i \in DOMAIN issued : i \in Nat \ {0} /\ issued[i] \in Nat \ {0}
    BY <1>4
  <2>2. objects \subseteq DOMAIN issued
    BY <1>3, <1>4
  <2> QED BY <1>3, <1>4, <1>6, <1>8, <2>1, <2>2 DEF KnownInv
<1>10. FreshInv /\ ObjectInv /\ ClaimInv
  BY <1>3, <1>6 DEF FreshInv, ObjectInv, ClaimInv
<1>11. RowHasObject
  BY <1>3, <1>8 DEF RowHasObject, IdsOf
<1>12. DeletionClaimedOnce /\ OrphansAreLate
  BY <1>3 DEF DeletionClaimedOnce, OrphansAreLate
<1>13. SweepInv
  BY <1>3, <1>6, <1>8 DEF SweepInv
<1> QED BY <1>2, <1>7, <1>9, <1>10, <1>11, <1>12, <1>13 DEF IInv, OwnedInv

(* Each statement keeps the invariant, whichever thread executes it.        *)
LEMMA StatementKeeps ==
    ASSUME IInv, NEW w \in Threads, Statement(w)
    PROVE  IInv'
<1>1. CASE NextIdRead(w)
  BY <1>1, NextIdReadKeeps
<1>2. CASE NextIdWrite(w)
  BY <1>2, NextIdWriteKeeps
<1>3. CASE \/ InsertOneThread(w) \/ InsertManyMessages(w) \/ InsertOneMessages(w)
           \/ InsertOneRun(w) \/ InsertOneRunStep(w) \/ InsertOneFile(w) \/ InsertOneAssistant(w)
  BY <1>3, InsertsKeep
<1>4. CASE \/ Read(w) \/ RetrieveRun(w) \/ Enqueue(w) \/ CheckActiveRuns(w) \/ FindFile(w)
           \/ GetObjectState(w) \/ GetObject(w)
  BY <1>4, ReadsKeep
<1>5. CASE DeleteManyRuns(w)
  BY <1>5, DeleteManyKeeps DEF DeleteManyRuns, Contents, SweepOf
<1>6. CASE DeleteManyRunSteps(w)
  BY <1>6, DeleteManyKeeps DEF DeleteManyRunSteps, Contents, SweepOf
<1>7. CASE DeleteManyMessages(w)
  BY <1>7, DeleteManyKeeps DEF DeleteManyMessages, Contents, SweepOf
<1>8. CASE DeleteThreadRow(w)
  BY <1>8, DeleteThreadRowKeeps
<1>9. CASE DeleteAssistantRow(w)
  BY <1>9, DeleteAssistantRowKeeps
<1>10. CASE DeleteFileRow(w)
  BY <1>10, DeleteFileRowKeeps
<1>11. CASE PutObject(w)
  BY <1>11, PutObjectKeeps
<1>12. CASE DeleteObject(w)
  BY <1>12, DeleteObjectKeeps
<1>13. CASE MarkInProgress(w)
  BY <1>13, UpdateRunKeeps DEF MarkInProgress, Marks, OwnedMarks, SweepMarks
<1>14. CASE MarkCompleted(w)
  BY <1>14, UpdateRunKeeps DEF MarkCompleted, Marks, OwnedMarks, SweepMarks
<1> QED BY <1>1, <1>2, <1>3, <1>4, <1>5, <1>6, <1>7, <1>8, <1>9, <1>10, <1>11, <1>12, <1>13,
           <1>14 DEF Statement

(* The invariant of the assistant API.                                      *)
THEOREM ApiInvariant == Spec => []IInv
<1>1. ASSUME IInv, Next PROVE IInv'
  <2>1. ASSUME NEW w \in Workers, NEW op \in Ops, Arrive(w, op) PROVE IInv'
    BY <1>1, <2>1, ArriveKeeps
  <2>2. ASSUME NEW t \in Threads, Statement(t) PROVE IInv'
    BY <1>1, <2>2, StatementKeeps
  <2>3. CASE TakeRun
    BY <1>1, <2>3, TakeRunKeeps
  <2>4. CASE StartPaging
    BY <1>1, <2>4, StillKeeps DEF StartPaging, database, ids, history
  <2>5. CASE ListMessages
    BY <1>1, <2>5, StillKeeps DEF ListMessages, database, ids, history
  <2>6. CASE Crash
    BY <1>1, <2>6, CrashKeeps
  <2> QED BY <1>1, <2>1, <2>2, <2>3, <2>4, <2>5, <2>6 DEF Next
<1>2. ASSUME IInv, UNCHANGED vars PROVE IInv'
  BY <1>2, StillKeeps DEF vars
<1> QED BY <1>1, <1>2, InitIInv, PTL DEF Spec

(* A file row has its object, however uploads, deletions and crashes        *)
(* interleave between their statements, unless the unlocked generator       *)
(* handed out its id twice: the object is stored before FileServiceImpl     *)
(* inserts the row and removed after the row.                               *)
THEOREM FilesAreDownloadable == Spec => []RowHasObject
<1>1. IInv => RowHasObject
  BY DEF IInv, OwnedInv
<1> QED BY <1>1, ApiInvariant, PTL

(* Of all requests that delete the same thread, assistant or file at most   *)
(* one answers deleted = true, for any number of workers.                   *)
THEOREM DeletionsAreClaimedOnce == Spec => []DeletionClaimedOnce
<1>1. IInv => DeletionClaimedOnce
  BY DEF IInv, OwnedInv
<1> QED BY <1>1, ApiInvariant, PTL

(* DeleteThread forgets no run, step or message that was stored before it   *)
(* began: what outlives its thread is later than the deletion.              *)
THEOREM OnlyLateRowsSurvive == Spec => []OrphansAreLate
<1>1. IInv => OrphansAreLate
  BY DEF IInv
<1> QED BY <1>1, ApiInvariant, PTL

-----------------------------------------------------------------------------
(* Pages.                                                                   *)

(* Rows with creation times.                                                *)
Timed(found) == IsFiniteSet(found) /\ \A r \in found : r.at \in Nat

(* A page of the first k rows.                                              *)
Heads(page, found, k) ==
    /\ page \in SUBSET found /\ Cardinality(page) = k
    /\ \A a \in page, b \in found \ page : a.at <= b.at

(* What ORDER BY created_at ASC LIMIT n may select.                         *)
LEMMA FirstsAre ==
    ASSUME NEW found, Timed(found), NEW n \in Nat, NEW page \in Firsts(found, n, "asc")
    PROVE  Heads(page, found, IF Cardinality(found) < n THEN Cardinality(found) ELSE n)
<1>1. ASSUME NEW a \in page, NEW b \in found \ page
      PROVE  ~ Earlier(b, a, "asc") => a.at <= b.at
  <2>1. a.at \in Nat /\ b.at \in Nat
    BY DEF Timed, Firsts
  <2> QED BY <2>1 DEF Earlier
<1> QED BY <1>1 DEF Heads, Firsts

(* What ListMessages may return of the messages that it finds, oldest       *)
(* first: all that there are behind the cursor, or some, with none left out *)
(* before them.                                                             *)
LEMMA PagesAre ==
    ASSUME NEW found, Timed(found), NEW after, NEW size \in Nat \ {0},
           NEW page \in ListPage(found, after, "asc", size)
    PROVE  LET left == {r \in found : after = 0 \/ r.id > after}
           IN  /\ page.data \in SUBSET left
               /\ page.more \in BOOLEAN
               /\ ~ page.more => page.data = left
               /\ page.more => page.data # {}
               /\ \A a \in page.data, b \in left \ page.data : a.at <= b.at
<1> DEFINE left == {r \in found : after = 0 \/ r.id > after}
           More(got) == Cardinality(got) >= size + 1
           Data(got) == IF More(got) THEN Firsts(got, Cardinality(got) - 1, "asc") ELSE {got}
           Right == /\ page.data \in SUBSET left
                    /\ page.more \in BOOLEAN
                    /\ ~ page.more => page.data = left
                    /\ page.more => page.data # {}
                    /\ \A a \in page.data, b \in left \ page.data : a.at <= b.at
<1>1. Timed(left)
  <2>1. IsFiniteSet(left)
    BY FS_Subset DEF Timed
  <2> QED BY <2>1 DEF Timed
<1>2. Cardinality(left) \in Nat
  BY <1>1, FS_CardinalityType DEF Timed
<1>3. PICK got \in Firsts(left, size + 1, "asc") :
         \E data \in Data(got) : page = [data |-> data, more |-> More(got)]
  BY DEF ListPage, SelectMany
<1>4. PICK data \in Data(got) : page = [data |-> data, more |-> More(got)]
  BY <1>3
<1> DEFINE n == Cardinality(got)
<1> HIDE DEF left
<1>5. Heads(got, left, IF Cardinality(left) < size + 1 THEN Cardinality(left) ELSE size + 1)
  BY <1>1, FirstsAre
<1>6. /\ got \in SUBSET left /\ n = IF Cardinality(left) < size + 1 THEN Cardinality(left) ELSE size + 1
      /\ \A a \in got, b \in left \ got : a.at <= b.at
  BY <1>5 DEF Heads
<1>7. Timed(got) /\ n \in Nat /\ n <= size + 1
  <2>1. IsFiniteSet(got)
    BY <1>1, <1>6, FS_Subset DEF Timed
  <2>2. n \in Nat /\ n <= size + 1
    BY <1>2, <1>6
  <2> QED BY <1>1, <1>6, <2>1, <2>2 DEF Timed
<1>8. page.data = data /\ page.more = (n >= size + 1)
  BY <1>4
<1>9. data \in IF n >= size + 1 THEN Firsts(got, n - 1, "asc") ELSE {got}
  BY <1>4
<1> HIDE DEF n
<1>10. ASSUME n >= size + 1 PROVE Right
  <2>1. n - 1 \in Nat /\ n - 1 # 0 /\ n - 1 < n
    BY <1>7, <1>10
  <2>2. page.data \in Firsts(got, n - 1, "asc") /\ page.more = TRUE
    BY <1>8, <1>9, <1>10
  <2>3. Heads(page.data, got, n - 1)
    <3>1. Heads(page.data, got, IF n < n - 1 THEN n ELSE n - 1)
      BY <1>7, <2>1, <2>2, FirstsAre DEF n
    <3>2. ~ (n < n - 1)
      BY <1>7
    <3> QED BY <3>1, <3>2
  <2>4. page.data \in SUBSET got /\ page.data # {}
    <3>1. page.data \in SUBSET got /\ Cardinality(page.data) # 0
      BY <2>1, <2>3 DEF Heads
    <3> QED BY <3>1, FS_EmptySet
  <2>5. ASSUME NEW a \in page.data, NEW b \in left \ page.data PROVE a.at <= b.at
    BY <1>6, <2>3, <2>4 DEF Heads
  <2> QED BY <1>6, <2>2, <2>4, <2>5
<1>11. ASSUME ~ (n >= size + 1) PROVE Right
  <2>1. page.data = got /\ page.more = FALSE
    <3>1. data \in {got}
      BY <1>9, <1>11
    <3>2. (n >= size + 1) = FALSE
      BY <1>11
    <3>3. page.more = FALSE
      BY <1>8, <3>2, Zenon
    <3> QED BY <1>8, <3>1, <3>3
  <2>2. n = Cardinality(left)
    BY <1>2, <1>6, <1>7, <1>11
  <2>3. got = left
    BY <1>1, <1>6, <2>2, FS_Subset DEF n, Timed
  <2> QED BY <2>1, <2>3
<1>12. Right
  BY <1>10, <1>11
<1> QED BY <1>12 DEF left

(* The messages of a thread have times, and the client began with messages  *)
(* of the thread; what it did not see yet of these is behind its cursor or  *)
(* was overtaken.                                                           *)
ClockInv ==
    /\ clock \in Nat
    /\ Timed(MessagesOf(1)) /\ \A r \in MessagesOf(1) : r.at <= clock

BasisInv ==
    /\ DOMAIN pager = {"state", "order", "after", "seen", "basis"}
    /\ pager.state = "idle" => pager.after = 0
    /\ \A b \in pager.basis : /\ b.kind = "message" /\ b.thread = 1
                              /\ b.at \in Nat /\ b.at <= clock

Unseen(r) == pager.after = 0 \/ r.id > pager.after

CursorInv ==
    pager.state = "reading" /\ pager.order = "asc"
        => \A r \in pager.basis \cap MessagesOf(1) : Unseen(r) \/ r \in pager.seen \/ Overtaken(r)

PageInv == ClockInv /\ BasisInv /\ CursorInv /\ PagesCoverRows

(* A step that deletes messages and adds some, which are new.               *)
MessageStep ==
    /\ UNCHANGED pager
    /\ clock' \in {clock, clock + 1}
    /\ \/ MessagesOf(1)' \subseteq MessagesOf(1)
       \/ /\ clock' = clock + 1
          /\ \E new : /\ IsFiniteSet(new) /\ \A r \in new : r.at = clock + 1
                      /\ MessagesOf(1)' \subseteq MessagesOf(1) \cup new

(* What there is of the messages that the client began with.                *)
LEMMA BasisLeft == BasisInv => pager.basis \cap rows = pager.basis \cap MessagesOf(1)
BY DEF BasisInv, MessagesOf

(* Such a step keeps what the pages are about.                              *)
LEMMA MessageStepKeeps ==
    ASSUME PageInv, MessageStep
    PROVE  PageInv'
<1> DEFINE M == MessagesOf(1)  N == MessagesOf(1)'
<1>1. PICK new : /\ IsFiniteSet(new) /\ N \subseteq M \cup new
                 /\ N \subseteq M \/ (clock' = clock + 1 /\ \A r \in new : r.at = clock + 1)
  <2>1. CASE N \subseteq M
    <3>1. IsFiniteSet({}) /\ N \subseteq M \cup {}
      BY <2>1, FS_EmptySet
    <3> QED BY <2>1, <3>1
  <2>2. CASE ~ (N \subseteq M)
    BY <2>2 DEF MessageStep
  <2> QED BY <2>1, <2>2
<1>2. /\ clock \in Nat /\ clock' \in Nat /\ clock <= clock' /\ pager' = pager
      /\ Timed(M) /\ \A r \in M : r.at \in Nat /\ r.at <= clock
  BY DEF MessageStep, PageInv, ClockInv, Timed
<1>3. ASSUME NEW r \in N, r \notin M PROVE r.at = clock + 1 /\ clock' = clock + 1
  BY <1>1, <1>3
<1>4. IsFiniteSet(N)
  <2>1. IsFiniteSet(M \cup new)
    BY <1>1, <1>2, FS_Union DEF Timed
  <2> QED BY <1>1, <2>1, FS_Subset
<1> HIDE DEF M, N
<1>5. ClockInv'
  <2>1. ASSUME NEW r \in N PROVE r.at \in Nat /\ r.at <= clock'
    BY <1>2, <1>3
  <2> QED BY <1>2, <1>4, <2>1 DEF ClockInv, Timed, N
<1>6. BasisInv'
  <2>1. ASSUME NEW b \in pager.basis
        PROVE  b.kind = "message" /\ b.thread = 1 /\ b.at \in Nat /\ b.at <= clock'
    BY <1>2 DEF PageInv, BasisInv
  <2> QED BY <1>2, <2>1 DEF PageInv, BasisInv
<1>7. ASSUME NEW r \in pager.basis, r \in N PROVE r \in M
  <2>1. r.at \in Nat /\ r.at <= clock
    BY DEF PageInv, BasisInv
  <2> QED BY <1>2, <1>3, <1>7, <2>1
<1>8. CursorInv'
  BY <1>2, <1>7 DEF PageInv, CursorInv, Unseen, Overtaken, M, N
<1>9. PagesCoverRows'
  <2>1. pager'.basis \cap rows' = pager'.basis \cap N
    BY <1>6, BasisLeft, <1>2 DEF BasisInv, MessagesOf, N
  <2>2. pager.basis \cap rows = pager.basis \cap M
    BY BasisLeft DEF PageInv, M
  <2>3. pager.basis \cap N \subseteq pager.basis \cap M
    BY <1>7
  <2> QED BY <1>2, <2>1, <2>2, <2>3 DEF PageInv, PagesCoverRows, Overtaken
<1> QED BY <1>5, <1>6, <1>8, <1>9 DEF PageInv

(* Every statement of a request is such a step.                             *)
LEMMA StatementMessages ==
    ASSUME IInv, NEW w \in Threads, Statement(w)
    PROVE  MessageStep
<1>1. ASSUME UNCHANGED <<rows, clock, pager>> PROVE MessageStep
  BY <1>1 DEF MessageStep, MessagesOf
<1>2. ASSUME NEW s, NEW kind, NEW id, NEW thread, NEW status,
             Insert(w, s, kind, id, thread, status)
      PROVE  MessageStep
  <2>1. pager' = pager
    BY <1>2 DEF Insert, clients
  <2>2. CASE UNCHANGED database
    BY <1>1, <2>1, <2>2 DEF database
  <2>3. CASE ~ UNCHANGED database
    <3> DEFINE new == [kind |-> kind, id |-> id, thread |-> thread, status |-> status,
                       at |-> clock + 1]
    <3>1. rows' = rows \cup {new} /\ clock' = clock + 1 /\ new.at = clock + 1
      BY <1>2, <2>3 DEF Insert
    <3> HIDE DEF new
    <3>2. MessagesOf(1)' \subseteq MessagesOf(1) \cup {new}
      BY <3>1 DEF MessagesOf
    <3>3. IsFiniteSet({new})
      BY FS_Singleton
    <3> QED BY <2>1, <3>1, <3>2, <3>3 DEF MessageStep
  <2> QED BY <2>2, <2>3
<1>15. ASSUME InsertManyMessages(w) PROVE MessageStep
  <2> DEFINE batch == worker[w].batch
             Row(i) == [kind |-> "message", id |-> i, thread |-> worker[w].thread,
                        status |-> "-", at |-> clock + 1]
             new == {Row(i) : i \in Range(batch)}
  <2>1. pager' = pager
    BY <1>15 DEF InsertManyMessages, clients
  <2>2. CASE UNCHANGED database
    BY <1>1, <2>1, <2>2 DEF database
  <2>3. CASE rows' = rows \cup new /\ clock' = clock + 1
    <3>1. IsFiniteSet(new)
      <4>1. batch \in Seq(Nat)
        BY DEF IInv, ThreadInv
      <4>2. IsFiniteSet(DOMAIN batch)
        <5>1. DOMAIN batch = 1..Len(batch) /\ Len(batch) \in Nat
          BY <4>1
        <5> HIDE DEF batch
        <5>2. IsFiniteSet(1..Len(batch))
          BY <5>1, FS_Interval
        <5> QED BY <5>1, <5>2
      <4> DEFINE f == [k \in DOMAIN batch |-> Row(batch[k])]
      <4>3. f \in Surjection(DOMAIN batch, new)
        <5> HIDE DEF Row, batch
        <5> QED BY DEF Range, Surjection
      <4> HIDE DEF f, new, batch
      <4> QED BY <4>2, <4>3, FS_Surjection
    <3>2. \A r \in new : r.at = clock + 1
      OBVIOUS
    <3> HIDE DEF new
    <3>3. MessagesOf(1)' \subseteq MessagesOf(1) \cup new
      BY <2>3 DEF MessagesOf
    <3> QED BY <2>1, <2>3, <3>1, <3>2, <3>3 DEF MessageStep
  <2> QED BY <1>15, <2>2, <2>3 DEF InsertManyMessages
<1>3. ASSUME rows' \subseteq rows, UNCHANGED <<clock, pager>> PROVE MessageStep
  BY <1>3 DEF MessageStep, MessagesOf
<1>4. ASSUME NEW s, NEW status, UpdateRun(w, s, status) PROVE MessageStep
  <2>1. UNCHANGED <<clock, pager>>
    BY <1>4 DEF UpdateRun, clients
  <2>2. CASE UNCHANGED rows
    BY <1>1, <2>1, <2>2
  <2>3. CASE ~ UNCHANGED rows
    <3> DEFINE run == worker[w].target
    <3>1. rows' = {IF r.kind = "run" /\ r.id = run THEN [r EXCEPT !.status = status] ELSE r :
                      r \in rows}
      BY <1>4, <2>3 DEF UpdateRun
    <3>2. \A r \in rows : DOMAIN r = {"kind", "id", "thread", "status", "at"}
      BY DEF IInv, SweepInv, RowOK
    <3>3. ASSUME NEW r \in rows, r.kind = "run" PROVE [r EXCEPT !.status = status].kind = "run"
      BY <3>2, <3>3
    <3>4. MessagesOf(1)' \subseteq MessagesOf(1)
      BY <3>1, <3>3 DEF MessagesOf
    <3> QED BY <2>1, <3>4 DEF MessageStep
  <2> QED BY <2>2, <2>3
<1>5. CASE NextIdRead(w) \/ NextIdWrite(w)
  BY <1>1, <1>5 DEF NextIdRead, NextIdWrite, database, clients
<1>6. CASE InsertOneThread(w) \/ InsertManyMessages(w) \/ InsertOneMessages(w)
  BY <1>2, <1>6, <1>15 DEF InsertOneThread, InsertOneMessages
<1>7. CASE InsertOneRun(w) \/ InsertOneRunStep(w) \/ InsertOneFile(w)
  BY <1>2, <1>7 DEF InsertOneRun, InsertOneRunStep, InsertOneFile
<1>8. CASE InsertOneAssistant(w)
  BY <1>1, <1>2, <1>8 DEF InsertOneAssistant, database, clients
<1>9. CASE Read(w) \/ RetrieveRun(w) \/ Enqueue(w)
  BY <1>1, <1>9 DEF Read, RetrieveRun, Enqueue, database, clients
<1>10. CASE CheckActiveRuns(w) \/ FindFile(w) \/ PutObject(w)
  BY <1>1, <1>10 DEF CheckActiveRuns, FindFile, PutObject, database, clients
<1>11. CASE GetObjectState(w) \/ DeleteObject(w) \/ GetObject(w)
  BY <1>1, <1>11 DEF GetObjectState, DeleteObject, GetObject, database, clients
<1>12. CASE DeleteManyRuns(w) \/ DeleteManyRunSteps(w) \/ DeleteManyMessages(w)
  BY <1>3, <1>12 DEF DeleteManyRuns, DeleteManyRunSteps, DeleteManyMessages, DeleteMany, clients
<1>13. CASE DeleteThreadRow(w) \/ DeleteAssistantRow(w) \/ DeleteFileRow(w)
  BY <1>3, <1>13 DEF DeleteThreadRow, DeleteAssistantRow, DeleteFileRow, clients
<1>14. CASE MarkInProgress(w) \/ MarkCompleted(w)
  BY <1>4, <1>14 DEF MarkInProgress, MarkCompleted
<1> QED BY <1>5, <1>6, <1>7, <1>8, <1>9, <1>10, <1>11, <1>12, <1>13, <1>14 DEF Statement

(* The client begins with the messages that are there.                      *)
LEMMA StartPagingKeeps ==
    ASSUME PageInv, StartPaging
    PROVE  PageInv'
<1>1. PICK order \in Orders :
         pager' = [pager EXCEPT !.state = "reading", !.order = order, !.basis = MessagesOf(1)]
  BY DEF StartPaging
<1>2. UNCHANGED <<rows, clock>> /\ MessagesOf(1)' = MessagesOf(1)
  BY DEF StartPaging, database, MessagesOf
<1>3. DOMAIN pager = {"state", "order", "after", "seen", "basis"}
  BY DEF PageInv, BasisInv
<1>4. /\ DOMAIN pager' = DOMAIN pager /\ pager'.state = "reading" /\ pager'.basis = MessagesOf(1)
  BY <1>1, <1>3
<1>5. pager.state = "idle"
  BY DEF StartPaging
<1>6. ClockInv'
  BY <1>2 DEF PageInv, ClockInv
<1>7. BasisInv'
  BY <1>2, <1>3, <1>4 DEF PageInv, ClockInv, BasisInv, Timed, MessagesOf
<1>8. CursorInv' /\ PagesCoverRows'
  <2>1. pager'.after = pager.after /\ pager.after = 0
    BY <1>1, <1>3, <1>5 DEF PageInv, BasisInv
  <2> QED BY <1>4, <2>1 DEF CursorInv, Unseen, PagesCoverRows
<1> QED BY <1>6, <1>7, <1>8 DEF PageInv

(* A page shows what it returns.  What it leaves out is not older than the  *)
(* last of the page: it is behind the new cursor, or its id is not greater  *)
(* than the cursor and it was overtaken.                                    *)
LEMMA ListMessagesKeeps ==
    ASSUME PageInv, ListMessages
    PROVE  PageInv'
<1> DEFINE M == MessagesOf(1)
           left == {r \in M : pager.after = 0 \/ r.id > pager.after}
<1>1. PICK page \in ListPage(M, pager.after, pager.order, PageSize) :
        \E last \in IF page.data = {} THEN {pager.after} ELSE LastIds(page.data, pager.order) :
          pager' = [pager EXCEPT !.seen = @ \cup page.data, !.after = last,
                                 !.state = IF page.more THEN @ ELSE "done"]
  BY DEF ListMessages
<1>2. PICK last \in IF page.data = {} THEN {pager.after} ELSE LastIds(page.data, pager.order) :
          pager' = [pager EXCEPT !.seen = @ \cup page.data, !.after = last,
                                 !.state = IF page.more THEN @ ELSE "done"]
  BY <1>1
<1>3. UNCHANGED <<rows, clock>> /\ MessagesOf(1)' = M
  BY DEF ListMessages, database, MessagesOf
<1>4. DOMAIN pager = {"state", "order", "after", "seen", "basis"} /\ pager.state = "reading"
  BY DEF ListMessages, PageInv, BasisInv
<1>5. /\ DOMAIN pager' = DOMAIN pager /\ pager'.basis = pager.basis /\ pager'.order = pager.order
      /\ pager'.state = IF page.more THEN "reading" ELSE "done"
      /\ pager'.seen = pager.seen \cup page.data
      /\ pager'.after = last
  BY <1>2, <1>4
<1>6. ClockInv'
  BY <1>3 DEF PageInv, ClockInv
<1>7. BasisInv'
  BY <1>3, <1>4, <1>5 DEF PageInv, BasisInv
<1>8. \A x : Overtaken(x) => Overtaken(x)'
  BY <1>5 DEF Overtaken
<1>9. ASSUME pager.order = "asc" PROVE CursorInv' /\ PagesCoverRows'
  <2>1. Timed(M)
    BY DEF PageInv, ClockInv
  <2> HIDE DEF M
  <2>2. PageSize \in Nat \ {0} /\ page \in ListPage(M, pager.after, "asc", PageSize)
    BY <1>9, ApiAssumption
  <2>3. /\ page.data \in SUBSET left
        /\ page.more \in BOOLEAN
        /\ ~ page.more => page.data = left
        /\ page.more => page.data # {}
        /\ \A a \in page.data, b \in left \ page.data : a.at <= b.at
    BY <2>1, <2>2, PagesAre
  <2>4. left \subseteq M
    OBVIOUS
  <2>5. ASSUME NEW r \in pager.basis, r \in M PROVE r \in left \/ r \in pager.seen \/ Overtaken(r)
    BY <1>4, <1>9, <2>5 DEF PageInv, CursorInv, Unseen, M
  <2> HIDE DEF left
  <2>6. CASE page.more
    <3>1. PICK z \in page.data : last = z.id
      BY <1>9, <2>3, <2>6 DEF LastIds
    <3>2. ASSUME NEW r \in pager.basis, r \in M
          PROVE  r.id > last \/ r \in pager'.seen \/ Overtaken(r)'
      <4> SUFFICES ASSUME r \notin pager'.seen, ~ Overtaken(r), ~ (r.id > last)
                   PROVE  Overtaken(r)'
        BY <1>8
      <4>1. r \in left \ page.data /\ z # r
        BY <1>5, <2>5, <3>1, <3>2
      <4>2. z.at <= r.at /\ z \in pager'.seen
        BY <1>5, <2>3, <3>1, <4>1
      <4> QED BY <3>1, <4>1, <4>2 DEF Overtaken
    <3>3. pager'.state = "reading"
      BY <1>5, <2>6
    <3>4. CursorInv'
      BY <1>3, <1>5, <3>2 DEF CursorInv, Unseen, M
    <3> QED BY <3>3, <3>4 DEF PagesCoverRows
  <2>7. CASE ~ page.more
    <3>1. pager'.state = "done"
      BY <1>5, <2>7
    <3>2. pager'.basis \cap rows' = pager'.basis \cap M
      BY <1>3, <1>5, BasisLeft DEF PageInv, M
    <3>3. \A r \in pager'.basis \cap M : r \in pager'.seen \/ Overtaken(r)'
      BY <1>5, <1>8, <2>3, <2>5, <2>7
    <3> QED BY <3>1, <3>2, <3>3 DEF CursorInv, PagesCoverRows
  <2> QED BY <2>6, <2>7
<1>10. ASSUME pager.order # "asc" PROVE CursorInv' /\ PagesCoverRows'
  BY <1>5, <1>10 DEF CursorInv, PagesCoverRows
<1> QED BY <1>6, <1>7, <1>9, <1>10 DEF PageInv

(* The thread starts with two messages and nobody reads it.                 *)
LEMMA InitPageInv == Init => PageInv
<1> SUFFICES ASSUME Init PROVE PageInv
  OBVIOUS
<1> DEFINE m == [kind |-> "message", id |-> 2, thread |-> 1, status |-> "-", at |-> 2]
           n == [kind |-> "message", id |-> 3, thread |-> 1, status |-> "-", at |-> 3]
<1>1. MessagesOf(1) = {m, n} /\ clock = 5
  BY DEF Init, MessagesOf
<1>2. IsFiniteSet({m, n})
  <2>1. IsFiniteSet({} \cup {m})
    BY FS_EmptySet, FS_AddElement
  <2>2. IsFiniteSet(({} \cup {m}) \cup {n})
    BY <2>1, FS_AddElement
  <2>3. ({} \cup {m}) \cup {n} = {m, n}
    OBVIOUS
  <2> QED BY <2>2, <2>3
<1>3. m.at = 2 /\ n.at = 3
  OBVIOUS
<1> HIDE DEF m, n
<1>4. ClockInv
  BY <1>1, <1>2, <1>3 DEF ClockInv, Timed
<1>5. /\ DOMAIN pager = {"state", "order", "after", "seen", "basis"}
      /\ pager.state = "idle" /\ pager.after = 0 /\ pager.basis = {}
  BY DEF Init
<1> QED BY <1>4, <1>5 DEF PageInv, BasisInv, CursorInv, PagesCoverRows

(* Reading a thread page by page, oldest first, while other requests add    *)
(* and delete messages, shows every message that was there at the start and *)
(* is still there at the end, for any page size, but for those that the     *)
(* cursor has passed: MessageServiceImpl::ListMessages cuts by id what it   *)
(* orders by time, and messages of one request have the same time.          *)
THEOREM PagesAreComplete == Spec => []PagesCoverRows
<1>1. ASSUME IInv, PageInv, Next PROVE PageInv'
  <2>1. ASSUME NEW w \in Workers, NEW op \in Ops, Arrive(w, op) PROVE MessageStep
    BY <2>1 DEF Arrive, database, MessageStep, MessagesOf
  <2>2. ASSUME NEW t \in Threads, Statement(t) PROVE MessageStep
    BY <1>1, <2>2, StatementMessages
  <2>3. ASSUME TakeRun \/ Crash PROVE MessageStep
    BY <2>3 DEF TakeRun, Crash, database, clients, MessageStep, MessagesOf
  <2>4. CASE StartPaging
    BY <1>1, <2>4, StartPagingKeeps
  <2>5. CASE ListMessages
    BY <1>1, <2>5, ListMessagesKeeps
  <2> QED BY <1>1, <2>1, <2>2, <2>3, <2>4, <2>5, MessageStepKeeps DEF Next
<1>2. ASSUME PageInv, UNCHANGED vars PROVE PageInv'
  <2>1. MessageStep
    BY <1>2 DEF vars, MessageStep, MessagesOf
  <2> QED BY <1>2, <2>1, MessageStepKeeps
<1>3. PageInv => PagesCoverRows
  BY DEF PageInv
<1> QED BY <1>1, <1>2, <1>3, InitPageInv, ApiInvariant, PTL DEF Spec

===============================================================================
