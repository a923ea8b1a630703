--------------------------- MODULE ConnectionPool ---------------------------
(***************************************************************************)
(* BaseConnectionPool as DuckDBConnectionPool instantiates it, and its      *)
(* callers, the statements of DuckDBDataTemplate: Acquire, run the query,   *)
(* Release when the GuardConnection goes out of scope.                      *)
(*                                                                         *)
(* TryAcquire works under mutex_; Release pushes to the same std::deque     *)
(* without it.  A push_back beside a pop_front touches the other end, but   *)
(* two push_backs write the same slot: what is left is undefined and is     *)
(* chosen in RacyPush.  (With a few connections the deque keeps its block   *)
(* map; a push_back that moves the map beside a pop_front is not            *)
(* distinguished.)  Nothing in the code keeps two Releases apart.          *)
(* DuckDBConnectionPool::Check is constantly true and the idle test         *)
(* (last_active - now < 60 min) holds for every connection,                 *)
(* so neither function creates a replacement.                               *)
(***************************************************************************)
EXTENDS Naturals, Sequences, FiniteSets

CONSTANTS
    Threads,          \* threads that run statements
    Connections,      \* what Initialize creates
    NoConnection,     \* nullptr
    Garbage           \* the bits of a slot nobody wrote

ASSUME PoolAssumption ==
    /\ IsFiniteSet(Connections)
    /\ NoConnection \notin Connections /\ Garbage \notin Connections
    /\ NoConnection # Garbage

VARIABLES
    pool_,    \* pool_, front first
    mutex,   \* the threads that own mutex_
    pc,      \* where each thread is
    held,    \* the connection each thread owns
    raced,   \* did another Release overlap this thread's?
    overlapped  \* history: have two Releases ever overlapped?

poolVars == <<pool_, mutex, pc, held, raced, overlapped>>

Connection == Connections \cup {Garbage}

PC == {"idle", "locked", "sleepy", "waiting", "woken", "timedout",
       "using", "pushing", "notify"}

TypeOK ==
    /\ pool_ \in Seq(Connection)
    /\ mutex \in SUBSET Threads
    /\ pc \in [Threads -> PC]
    /\ held \in [Threads -> Connection \cup {NoConnection}]
    /\ raced \in [Threads -> BOOLEAN]
    /\ overlapped \in BOOLEAN

(* Initialize pushes one connection after the other. *)
PoolInit ==
    /\ pool_ \in [1..Cardinality(Connections) -> Connections]
    /\ \A c \in Connections : \E i \in 1..Len(pool_) : pool_[i] = c
    /\ \A i, j \in 1..Len(pool_) : pool_[i] = pool_[j] => i = j
    /\ mutex = {}
    /\ pc = [t \in Threads |-> "idle"]
    /\ held = [t \in Threads |-> NoConnection]
    /\ raced = [t \in Threads |-> FALSE]
    /\ overlapped = FALSE

-----------------------------------------------------------------------------
(* Acquire, which throws where TryAcquire returns nullptr. *)

(* std::unique_lock lock(mutex_), for a new call or after a wake-up.        *)
Lock(t) ==
    /\ pc[t] \in {"idle", "woken"}
    /\ mutex = {}
    /\ mutex' = {t}
    /\ pc' = [pc EXCEPT ![t] = "locked"]
    /\ UNCHANGED <<pool_, held, raced, overlapped>>

(* while (pool_.empty()) ...                                                *)
FindEmpty(t) ==
    /\ pc[t] = "locked"
    /\ pool_ = <<>>
    /\ pc' = [pc EXCEPT ![t] = "sleepy"]
    /\ UNCHANGED <<pool_, mutex, held, raced, overlapped>>

(* ... condition_.wait_for(lock, ...): registers as a waiter and unlocks.   *)
Sleep(t) ==
    /\ pc[t] = "sleepy"
    /\ mutex' = {}
    /\ pc' = [pc EXCEPT ![t] = "waiting"]
    /\ UNCHANGED <<pool_, held, raced, overlapped>>

SpuriousWake(t) ==
    /\ pc[t] = "waiting"
    /\ pc' = [pc EXCEPT ![t] = "woken"]
    /\ UNCHANGED <<pool_, mutex, held, raced, overlapped>>

TimeOut(t) ==
    /\ pc[t] = "waiting"
    /\ pc' = [pc EXCEPT ![t] = "timedout"]
    /\ UNCHANGED <<pool_, mutex, held, raced, overlapped>>

(* wait_for has the mutex back; nullptr is returned without another look at *)
(* the pool, and Acquire throws.                                            *)
GiveUp(t) ==
    /\ pc[t] = "timedout"
    /\ mutex = {}
    /\ pc' = [pc EXCEPT ![t] = "idle"]
    /\ UNCHANGED <<pool_, mutex, held, raced, overlapped>>

(* Mutant: the front is copied but not popped.                              *)
TakeWithoutPop(t) ==
    /\ pc[t] = "locked"
    /\ pool_ # <<>>
    /\ held' = [held EXCEPT ![t] = Head(pool_)]
    /\ mutex' = {}
    /\ pc' = [pc EXCEPT ![t] = "using"]
    /\ UNCHANGED <<pool_, raced, overlapped>>

TakeConnection(t) ==
    /\ pc[t] = "locked"
    /\ pool_ # <<>>
    /\ held' = [held EXCEPT ![t] = Head(pool_)]
    /\ pool_' = Tail(pool_)
    /\ mutex' = {}
    /\ pc' = [pc EXCEPT ![t] = "using"]
    /\ UNCHANGED <<raced, overlapped>>

-----------------------------------------------------------------------------
(* Release, when the query has returned or thrown. *)

Pushing == {t \in Threads : pc[t] = "pushing"}

BeginRelease(t) ==
    /\ pc[t] = "using"
    /\ pc' = [pc EXCEPT ![t] = "pushing"]
    /\ raced' = [u \in Threads |-> IF u = t THEN Pushing # {}
                                   ELSE raced[u] \/ u \in Pushing]
    /\ overlapped' = (overlapped \/ Pushing # {})
    /\ UNCHANGED <<pool_, mutex, held>>

(* Two push_backs that overlap: the second store may hit the slot of the    *)
(* first, and the end may then advance once or, past an unwritten slot,     *)
(* twice.  If a consumer popped that slot meanwhile the store is behind it. *)
RacyPush(c) ==
    LET hit == IF pool_ = <<>> THEN <<>> ELSE [pool_ EXCEPT ![Len(pool_)] = c]
    IN  {Append(pool_, c), hit, Append(hit, Garbage)}

(* pool_.push_back(connection)                                              *)
EndRelease(t) ==
    /\ pc[t] = "pushing"
    /\ pool_' \in IF raced[t] THEN RacyPush(held[t]) ELSE {Append(pool_, held[t])}
    /\ held' = [held EXCEPT ![t] = NoConnection]
    /\ raced' = [raced EXCEPT ![t] = FALSE]
    /\ pc' = [pc EXCEPT ![t] = "notify"]
    /\ UNCHANGED <<mutex, overlapped>>

(* condition_.notify_one() wakes one of the waiters there are now.          *)
Notify(t) ==
    /\ pc[t] = "notify"
    /\ \/ /\ \A u \in Threads : pc[u] # "waiting"
          /\ pc' = [pc EXCEPT ![t] = "idle"]
       \/ \E u \in Threads : /\ pc[u] = "waiting"
                             /\ pc' = [pc EXCEPT ![t] = "idle", ![u] = "woken"]
    /\ UNCHANGED <<pool_, mutex, held, raced, overlapped>>

-----------------------------------------------------------------------------
Thread(t) ==
    \/ Lock(t) \/ FindEmpty(t) \/ Sleep(t) \/ SpuriousWake(t) \/ TimeOut(t) \/ GiveUp(t) \/ TakeConnection(t)
    \/ BeginRelease(t) \/ EndRelease(t) \/ Notify(t)

PoolNext == \E t \in Threads : Thread(t)

PoolSpec == PoolInit /\ [][PoolNext]_poolVars

-----------------------------------------------------------------------------
Pooled(c) == {i \in 1..Len(pool_) : pool_[i] = c}
Holders(c) == {t \in Threads : held[t] = c}

(* Until two Releases overlap, every connection is in the pool once or with *)
(* one thread, never both and never lost, however one unlocked push_back of *)
(* Release (BaseConnectionPool.hpp:94) falls beside the locked TryAcquire:  *)
(* no two statements share a connection and the pool does not shrink.       *)
(* Nothing is claimed once two Releases have overlapped, which nothing in   *)
(* the code prevents: a connection may then be gone.                        *)
EachConnectionOnce ==
    ~overlapped =>
        \A c \in Connections :
            \/ Holders(c) = {} /\ \E i \in Pooled(c) : Pooled(c) = {i}
            \/ Pooled(c) = {} /\ \E t \in Holders(c) : Holders(c) = {t}

(* mutex_ protects every test and pop of the deque.                         *)
LockedByOne ==
    /\ \A t \in Threads : pc[t] \in {"locked", "sleepy"} => mutex = {t}
    /\ mutex # {} => \E t \in Threads : pc[t] \in {"locked", "sleepy"}

(* The statements that are running or releasing are the ones that own a     *)
(* connection.                                                              *)
OwnersRun == \A t \in Threads : held[t] # NoConnection <=> pc[t] \in {"using", "pushing"}

=============================================================================
