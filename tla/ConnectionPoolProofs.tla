------------------------ MODULE ConnectionPoolProofs ------------------------
(***************************************************************************)
(* What holds of the pool for any number of threads and connections: the    *)
(* mutex discipline always; that no connection is shared or lost, until two *)
(* Releases overlap.                                                        *)
(***************************************************************************)
EXTENDS ConnectionPool, FiniteSetTheorems, TLAPS

(* Initialize and every step of a thread keep the variables in their types; *)
(* a nullptr never reaches the deque because only owners push.              *)
LEMMA TypeInit == PoolInit => TypeOK /\ OwnersRun
<1> SUFFICES ASSUME PoolInit PROVE TypeOK /\ OwnersRun
    OBVIOUS
<1>1. pool_ \in Seq(Connection)
  <2>1. Cardinality(Connections) \in Nat
    <3>1. IsFiniteSet(Connections)
      BY PoolAssumption
    <3> QED BY <3>1, FS_CardinalityType
  <2>2. pool_ \in Seq(Connections)
    BY <2>1 DEF PoolInit
  <2> QED BY <2>2 DEF Connection
<1>2. OwnersRun
  BY PoolAssumption DEF PoolInit, OwnersRun
<1> QED BY <1>1, <1>2 DEF PoolInit, TypeOK, PC

(* What the overlapping pushes may leave behind is still a sequence.        *)
LEMMA RacyPushType ==
    ASSUME TypeOK, NEW c \in Connection, NEW q \in RacyPush(c)
    PROVE  q \in Seq(Connection)
<1> DEFINE hit == IF pool_ = <<>> THEN <<>> ELSE [pool_ EXCEPT ![Len(pool_)] = c]
<1>1. hit \in Seq(Connection)
  BY DEF TypeOK
<1>2. Append(pool_, c) \in Seq(Connection) /\ Append(hit, Garbage) \in Seq(Connection)
  BY <1>1 DEF TypeOK, Connection
<1> QED BY <1>1, <1>2 DEF RacyPush

(* Every action keeps the types and the ownership discipline.               *)
LEMMA TypeStep == TypeOK /\ OwnersRun /\ [PoolNext]_poolVars => TypeOK' /\ OwnersRun'
<1> SUFFICES ASSUME TypeOK, OwnersRun, [PoolNext]_poolVars PROVE TypeOK' /\ OwnersRun'
    OBVIOUS
<1> USE PoolAssumption DEF TypeOK, OwnersRun, PC
<1>1. CASE UNCHANGED poolVars
  BY <1>1 DEF poolVars
<1>2. ASSUME NEW t \in Threads, Lock(t) PROVE TypeOK' /\ OwnersRun'
  BY <1>2 DEF Lock
<1>3. ASSUME NEW t \in Threads, FindEmpty(t) PROVE TypeOK' /\ OwnersRun'
  BY <1>3 DEF FindEmpty
<1>4. ASSUME NEW t \in Threads, Sleep(t) PROVE TypeOK' /\ OwnersRun'
  BY <1>4 DEF Sleep
<1>5. ASSUME NEW t \in Threads, SpuriousWake(t) PROVE TypeOK' /\ OwnersRun'
  BY <1>5 DEF SpuriousWake
<1>6. ASSUME NEW t \in Threads, TimeOut(t) PROVE TypeOK' /\ OwnersRun'
  BY <1>6 DEF TimeOut
<1>7. ASSUME NEW t \in Threads, GiveUp(t) PROVE TypeOK' /\ OwnersRun'
  BY <1>7 DEF GiveUp
<1>8. ASSUME NEW t \in Threads, TakeConnection(t) PROVE TypeOK' /\ OwnersRun'
  <2>1. Head(pool_) \in Connection /\ Tail(pool_) \in Seq(Connection)
    BY <1>8 DEF TakeConnection
  <2>2. Head(pool_) # NoConnection
    BY <2>1 DEF Connection
  <2> QED BY <1>8, <2>1, <2>2 DEF TakeConnection
<1>9. ASSUME NEW t \in Threads, BeginRelease(t) PROVE TypeOK' /\ OwnersRun'
  BY <1>9 DEF BeginRelease, Pushing
<1>10. ASSUME NEW t \in Threads, EndRelease(t) PROVE TypeOK' /\ OwnersRun'
  <2>1. held[t] \in Connection
    BY <1>10 DEF EndRelease
  <2>2. pool_' \in Seq(Connection)
    <3>1. CASE raced[t]
      BY <1>10, <2>1, <3>1, RacyPushType DEF EndRelease
    <3>2. CASE ~raced[t]
      BY <1>10, <2>1, <3>2 DEF EndRelease
    <3> QED BY <3>1, <3>2
  <2> QED BY <1>10, <2>2 DEF EndRelease
<1>11. ASSUME NEW t \in Threads, Notify(t) PROVE TypeOK' /\ OwnersRun'
  <2>1. PICK u \in Threads : \/ pc' = [pc EXCEPT ![t] = "idle"]
                             \/ pc[u] = "waiting" /\ pc' = [pc EXCEPT ![t] = "idle", ![u] = "woken"]
    BY <1>11 DEF Notify
  <2> QED BY <1>11, <2>1 DEF Notify
<1> QED BY <1>1, <1>2, <1>3, <1>4, <1>5, <1>6, <1>7, <1>8, <1>9, <1>10, <1>11 DEF PoolNext, Thread

(* The types of the pool's state are kept by every call, racing Releases    *)
(* included.                                                                *)
THEOREM PoolTypeCorrect == PoolSpec => [](TypeOK /\ OwnersRun)
<1> QED BY TypeInit, TypeStep, PTL DEF PoolSpec

-----------------------------------------------------------------------------
(* Whoever tests or pops the deque owns the mutex, and a mutex that is held *)
(* is held by such a thread: wait_for gives it up and every return path of  *)
(* TryAcquire unlocks.                                                      *)
LEMMA LockStep == TypeOK /\ LockedByOne /\ [PoolNext]_poolVars => LockedByOne'
<1> SUFFICES ASSUME TypeOK, LockedByOne, [PoolNext]_poolVars PROVE LockedByOne'
    OBVIOUS
<1> USE DEF TypeOK, LockedByOne, PC
<1>1. CASE UNCHANGED poolVars
  BY <1>1 DEF poolVars
<1>2. ASSUME NEW t \in Threads, Lock(t) PROVE LockedByOne'
  BY <1>2 DEF Lock
<1>3. ASSUME NEW t \in Threads, FindEmpty(t) PROVE LockedByOne'
  BY <1>3 DEF FindEmpty
<1>4. ASSUME NEW t \in Threads, Sleep(t) PROVE LockedByOne'
  BY <1>4 DEF Sleep
<1>5. ASSUME NEW t \in Threads, SpuriousWake(t) \/ TimeOut(t) \/ GiveUp(t) PROVE LockedByOne'
  BY <1>5 DEF SpuriousWake, TimeOut, GiveUp
<1>6. ASSUME NEW t \in Threads, TakeConnection(t) PROVE LockedByOne'
  BY <1>6 DEF TakeConnection
<1>7. ASSUME NEW t \in Threads, BeginRelease(t) \/ EndRelease(t) PROVE LockedByOne'
  BY <1>7 DEF BeginRelease, EndRelease
<1>8. ASSUME NEW t \in Threads, Notify(t) PROVE LockedByOne'
  BY <1>8 DEF Notify
<1> QED BY <1>1, <1>2, <1>3, <1>4, <1>5, <1>6, <1>7, <1>8 DEF PoolNext, Thread

(* mutex_ is owned by at most one thread and exactly while TryAcquire looks *)
(* at the deque.                                                            *)
THEOREM MutexDiscipline == PoolSpec => []LockedByOne
<1>1. PoolInit => LockedByOne
  BY DEF PoolInit, LockedByOne
<1> QED BY <1>1, LockStep, PoolTypeCorrect, PTL DEF PoolSpec

-----------------------------------------------------------------------------
(* The strengthening of EachConnectionOnce, in parts a step can be checked  *)
(* against: the deque has no duplicate, no connection has two owners, none  *)
(* is both owned and pooled, none is missing, nobody saw an unwritten slot, *)
(* and one thread at most is inside push_back.                              *)
NoDuplicate == \A i, j \in 1..Len(pool_) : pool_[i] = pool_[j] => i = j
OneOwner == \A t, u \in Threads : held[t] = held[u] /\ held[t] # NoConnection => t = u
OwnedIsOut == \A t \in Threads : \A i \in 1..Len(pool_) : held[t] # pool_[i]
NoneMissing == \A c \in Connections :
                  (\E i \in 1..Len(pool_) : pool_[i] = c) \/ \E t \in Threads : held[t] = c
NothingRaced == \A t \in Threads : ~raced[t]
OnePusher == \A t, u \in Threads : pc[t] = "pushing" /\ pc[u] = "pushing" => t = u

PoolInv == /\ TypeOK /\ OwnersRun
           /\ NoDuplicate /\ OneOwner /\ OwnedIsOut /\ NoneMissing
           /\ NothingRaced /\ OnePusher

(* The parts hold until two Releases overlap.                               *)
PoolUntilOverlap == TypeOK /\ OwnersRun /\ (~overlapped => PoolInv)

(* The parts together say that each connection is in exactly one place.     *)
LEMMA PoolInvImplies == PoolUntilOverlap => EachConnectionOnce
<1> SUFFICES ASSUME PoolInv, NEW c \in Connections
             PROVE  \/ Holders(c) = {} /\ \E i \in Pooled(c) : Pooled(c) = {i}
                    \/ Pooled(c) = {} /\ \E t \in Holders(c) : Holders(c) = {t}
    BY DEF EachConnectionOnce, PoolUntilOverlap
<1>1. c # NoConnection
  BY PoolAssumption
<1>2. CASE \E i \in 1..Len(pool_) : pool_[i] = c
  <2>1. PICK i \in 1..Len(pool_) : pool_[i] = c
    BY <1>2
  <2>2. Pooled(c) = {i}
    BY <2>1 DEF PoolInv, NoDuplicate, Pooled
  <2>3. Holders(c) = {}
    BY <2>1 DEF PoolInv, OwnedIsOut, Holders
  <2> QED BY <2>2, <2>3
<1>3. CASE \A i \in 1..Len(pool_) : pool_[i] # c
  <2>1. PICK t \in Threads : held[t] = c
    BY <1>3 DEF PoolInv, NoneMissing
  <2>2. Holders(c) = {t}
    BY <1>1, <2>1 DEF PoolInv, OneOwner, Holders
  <2>3. Pooled(c) = {}
    BY <1>3 DEF Pooled
  <2> QED BY <2>2, <2>3
<1> QED BY <1>2, <1>3

(* Initialize establishes it.                                               *)
LEMMA InitPoolInv == PoolInit => PoolInv
<1> SUFFICES ASSUME PoolInit PROVE PoolInv
    OBVIOUS
<1>1. TypeOK /\ OwnersRun
  BY TypeInit
<1>2. \A i \in 1..Len(pool_) : pool_[i] \in Connections
  <2>1. Cardinality(Connections) \in Nat
    <3>1. IsFiniteSet(Connections)
      BY PoolAssumption
    <3> QED BY <3>1, FS_CardinalityType
  <2> QED BY <2>1 DEF PoolInit
<1>3. NoDuplicate /\ NoneMissing /\ OneOwner /\ NothingRaced /\ OnePusher
  BY DEF PoolInit, NoDuplicate, NoneMissing, OneOwner, NothingRaced, OnePusher
<1>4. OwnedIsOut
  BY <1>2, PoolAssumption DEF PoolInit, OwnedIsOut
<1> QED BY <1>1, <1>3, <1>4 DEF PoolInv

(* TryAcquire moves the front from the deque to the caller.                 *)
LEMMA TakeKeeps ==
    ASSUME PoolInv, NEW t \in Threads, TakeConnection(t)
    PROVE  NoDuplicate' /\ OneOwner' /\ OwnedIsOut' /\ NoneMissing'
<1> USE DEF PoolInv, TypeOK
<1>1. /\ pool_ \in Seq(Connection) /\ pool_ # <<>> /\ Len(pool_) \in Nat \ {0}
      /\ pool_' = Tail(pool_) /\ held' = [held EXCEPT ![t] = pool_[1]]
      /\ held[t] = NoConnection
  BY DEF TakeConnection, OwnersRun
<1>2. /\ Len(pool_') = Len(pool_) - 1
      /\ \A i \in 1..Len(pool_') : pool_'[i] = pool_[i + 1] /\ i + 1 \in 1..Len(pool_) /\ i + 1 # 1
  BY <1>1
<1>3. NoDuplicate'
  BY <1>1, <1>2 DEF NoDuplicate
<1>4. OneOwner'
  <2>1. \A u \in Threads : held[u] # pool_[1]
    BY <1>1 DEF OwnedIsOut
  <2> QED BY <1>1, <2>1 DEF OneOwner
<1>5. OwnedIsOut'
  <2>1. \A i \in 1..Len(pool_') : pool_'[i] # pool_[1]
    BY <1>1, <1>2 DEF NoDuplicate
  <2>2. \A i \in 1..Len(pool_') : \A u \in Threads : held[u] # pool_'[i]
    BY <1>2 DEF OwnedIsOut
  <2> QED BY <1>1, <2>1, <2>2 DEF OwnedIsOut
<1>6. NoneMissing'
  <2> SUFFICES ASSUME NEW c \in Connections
               PROVE  (\E i \in 1..Len(pool_') : pool_'[i] = c) \/ \E u \in Threads : held'[u] = c
      BY DEF NoneMissing
  <2>1. CASE \E u \in Threads : held[u] = c
    BY <1>1, <2>1, PoolAssumption
  <2>2. CASE \E i \in 1..Len(pool_) : pool_[i] = c
    <3>1. PICK i \in 1..Len(pool_) : pool_[i] = c
      BY <2>2
    <3>2. CASE i = 1
      BY <1>1, <3>1, <3>2
    <3>3. CASE i # 1
      <4>1. i - 1 \in 1..Len(pool_') /\ (i - 1) + 1 = i
        BY <1>2, <3>1, <3>3
      <4>2. pool_'[i - 1] = c
        BY <1>2, <3>1, <4>1
      <4> QED BY <4>1, <4>2
    <3> QED BY <3>2, <3>3
  <2> QED BY <2>1, <2>2 DEF NoneMissing
<1> QED BY <1>3, <1>4, <1>5, <1>6

(* An undisturbed push_back moves the connection back to the deque.         *)
LEMMA ReleaseKeeps ==
    ASSUME PoolInv, NEW t \in Threads, EndRelease(t)
    PROVE  NoDuplicate' /\ OneOwner' /\ OwnedIsOut' /\ NoneMissing'
<1> USE DEF PoolInv, TypeOK
<1>1. /\ pool_ \in Seq(Connection) /\ held[t] \in Connection /\ held[t] # NoConnection
      /\ pool_' = Append(pool_, held[t]) /\ held' = [held EXCEPT ![t] = NoConnection]
  BY DEF EndRelease, OwnersRun, NothingRaced
<1>2. /\ Len(pool_') = Len(pool_) + 1 /\ Len(pool_) \in Nat
      /\ \A i \in 1..Len(pool_) : pool_'[i] = pool_[i]
      /\ pool_'[Len(pool_) + 1] = held[t]
  BY <1>1
<1>3. NoDuplicate'
  BY <1>1, <1>2 DEF NoDuplicate, OwnedIsOut
<1>4. OneOwner'
  BY <1>1 DEF OneOwner
<1>5. OwnedIsOut'
  <2>1. \A i \in 1..Len(pool_') : pool_'[i] # NoConnection
    BY <1>1, <1>2, PoolAssumption DEF Connection
  <2>2. \A u \in Threads \ {t} : \A i \in 1..Len(pool_') : held[u] # pool_'[i]
    BY <1>1, <1>2 DEF OwnedIsOut, OneOwner
  <2> QED BY <1>1, <2>1, <2>2 DEF OwnedIsOut
<1>6. NoneMissing'
  BY <1>1, <1>2 DEF NoneMissing
<1> QED BY <1>3, <1>4, <1>5, <1>6

(* A step after which no two Releases have overlapped keeps the parts.      *)
LEMMA PoolStep ==
    ASSUME PoolInv, [PoolNext]_poolVars, ~overlapped'
    PROVE  PoolInv'
<1>1. TypeOK' /\ OwnersRun'
  BY TypeStep DEF PoolInv
<1>2. NothingRaced' /\ OnePusher'
  <2> USE DEF PoolInv, TypeOK, NothingRaced, OnePusher, PC
  <2>1. CASE UNCHANGED poolVars
    BY <2>1 DEF poolVars
  <2>2. ASSUME NEW t \in Threads, BeginRelease(t) PROVE NothingRaced' /\ OnePusher'
    BY <2>2 DEF BeginRelease, Pushing
  <2>3. ASSUME NEW t \in Threads, EndRelease(t) PROVE NothingRaced' /\ OnePusher'
    BY <2>3 DEF EndRelease
  <2>4. ASSUME NEW t \in Threads, Notify(t) PROVE NothingRaced' /\ OnePusher'
    BY <2>4 DEF Notify
  <2>5. ASSUME NEW t \in Threads,
               \/ Lock(t) \/ FindEmpty(t) \/ Sleep(t) \/ SpuriousWake(t)
               \/ TimeOut(t) \/ GiveUp(t) \/ TakeConnection(t)
        PROVE NothingRaced' /\ OnePusher'
    BY <2>5 DEF Lock, FindEmpty, Sleep, SpuriousWake, TimeOut, GiveUp, TakeConnection
  <2> QED BY <2>1, <2>2, <2>3, <2>4, <2>5 DEF PoolNext, Thread
<1>3. NoDuplicate' /\ OneOwner' /\ OwnedIsOut' /\ NoneMissing'
  <2>1. CASE UNCHANGED <<pool_, held>>
    BY <2>1 DEF PoolInv, NoDuplicate, OneOwner, OwnedIsOut, NoneMissing
  <2>2. ASSUME NEW t \in Threads, TakeConnection(t) \/ EndRelease(t)
        PROVE NoDuplicate' /\ OneOwner' /\ OwnedIsOut' /\ NoneMissing'
    BY <2>2, TakeKeeps, ReleaseKeeps
  <2>3. ASSUME NEW t \in Threads,
               \/ Lock(t) \/ FindEmpty(t) \/ Sleep(t) \/ SpuriousWake(t)
               \/ TimeOut(t) \/ GiveUp(t) \/ BeginRelease(t) \/ Notify(t)
        PROVE UNCHANGED <<pool_, held>>
    BY <2>3 DEF Lock, FindEmpty, Sleep, SpuriousWake, TimeOut, GiveUp, BeginRelease, Notify
  <2> QED BY <2>1, <2>2, <2>3 DEF PoolNext, Thread, poolVars
<1> QED BY <1>1, <1>2, <1>3 DEF PoolInv

(* Until two Releases overlap, no two statements ever share a connection    *)
(* and none is lost, however TryAcquire, its time-outs, spurious wake-ups   *)
(* and the unlocked push_back of Release interleave.                        *)
THEOREM ConnectionsAreExclusive == PoolSpec => []EachConnectionOnce
<1>1. PoolInit => PoolUntilOverlap
  BY InitPoolInv, TypeInit DEF PoolUntilOverlap
<1>2. PoolUntilOverlap /\ [PoolNext]_poolVars => PoolUntilOverlap'
  <2> SUFFICES ASSUME PoolUntilOverlap, [PoolNext]_poolVars PROVE PoolUntilOverlap'
    OBVIOUS
  <2>1. TypeOK' /\ OwnersRun'
    BY TypeStep DEF PoolUntilOverlap
  <2>2. ASSUME ~overlapped' PROVE ~overlapped
    <3>1. overlapped => overlapped'
      BY DEF PoolNext, poolVars, Thread, Lock, FindEmpty, Sleep, SpuriousWake, TimeOut, GiveUp, TakeConnection,
             BeginRelease, EndRelease, Notify
    <3> QED BY <2>2, <3>1
  <2>3. ASSUME ~overlapped' PROVE PoolInv'
    BY <2>2, <2>3, PoolStep DEF PoolUntilOverlap
  <2> QED BY <2>1, <2>3 DEF PoolUntilOverlap
<1> QED BY <1>1, <1>2, PoolInvImplies, PTL DEF PoolSpec

=============================================================================
