------------------------------- MODULE FileVault -------------------------------
(***************************************************************************)
(* FileSystemFileVault with one named resource: concurrent GetResource,     *)
(* CheckResource and DeleteResource (each on a thread of its own), the      *)
(* download with its checksum and one retry, and crashes between the file   *)
(* operations.                                                              *)
(*                                                                         *)
(* The mutex of the resource lives in the unordered_map resource_mutexes_,  *)
(* and GetResource looks it up without a lock: operator[] is a look-up and, *)
(* if the name is missing, an insertion.  Two insertions at once are a data *)
(* race; its outcomes here are one shared mutex or one of its own for some  *)
(* of the threads (a crash is VaultCrash).  resources_ is read without a    *)
(* lock as well; contains and at are taken as single steps.                 *)
(***************************************************************************)
EXTENDS Naturals

CONSTANTS
    VaultThreads,   \* threads that use the vault
    NoThread,       \* holder of a free mutex
    MaxDeletes,     \* bound on DeleteResource
    MaxVaultCrashes \* bound on crashes

ASSUME FileVaultAssumption ==
    /\ NoThread \notin VaultThreads
    /\ MaxDeletes \in Nat /\ MaxVaultCrashes \in Nat

VARIABLES
    checked,       \* whether the resource has a checksum
    registered,    \* resources_ contains the name
    data, json,    \* the two files of the resource
    resourceMutex, writeMutex,
    mutexKnown,    \* resource_mutexes_ contains the name
    own,           \* threads that a racing insertion gave a mutex of their own
    insertRaced,   \* history: two threads of this process inserted the mutex at once
    at,            \* where each thread is
    temp,          \* the content of the temporary file it is to move, if any
    entry,         \* TRUE when it was given an entry
    deletes, vaultCrashes

files == <<data, json>>
mutexMap == <<mutexKnown, own, insertRaced>>
vaultRest == <<deletes, vaultCrashes, mutexMap>>
vaultVars == <<checked, registered, data, json, resourceMutex, writeMutex, at, temp, entry,
               vaultRest>>

-----------------------------------------------------------------------------
\* What a download leaves in the file: the content, other content, or a part
\* with an exception (no connection, or a status of 400 and more).
Write == {"good", "wrong", "part"}
Throws(content) == content = "part"

Checksum(content) == ~ checked \/ content = "good"

Go(t, place) == at' = [at EXCEPT ![t] = place]

AddResource(t) ==
    /\ at[t] = "idle" /\ ~ registered /\ writeMutex = NoThread
    /\ registered' = TRUE
    /\ UNCHANGED <<checked, files, resourceMutex, writeMutex, at, temp, entry, vaultRest>>

(* GetResource: look up the mutex of the resource, or insert it, ...         *)
GetResource(t) ==
    /\ at[t] = "idle" /\ registered /\ Go(t, "look up")
    /\ entry' = [entry EXCEPT ![t] = FALSE]
    /\ UNCHANGED <<checked, registered, files, resourceMutex, writeMutex, temp, vaultRest>>

Inserting == {u \in VaultThreads : at[u] = "insert"}

LookUpMutex(t) ==
    /\ at[t] = "look up"
    /\ \/ mutexKnown /\ own' = own \ {t} /\ Go(t, "lock") /\ UNCHANGED insertRaced
       \/ /\ ~ mutexKnown /\ Go(t, "insert") /\ UNCHANGED own
          /\ insertRaced' = (insertRaced \/ Inserting # {})
    /\ UNCHANGED <<checked, registered, files, resourceMutex, writeMutex, temp, entry, deletes,
                   vaultCrashes, mutexKnown>>

InsertMutex(t) ==
    /\ at[t] = "insert" /\ mutexKnown' = TRUE /\ Go(t, "lock")
    /\ own' \in {own \ {t}} \cup (IF insertRaced THEN {own \cup {t}} ELSE {})
    /\ UNCHANGED <<checked, registered, files, resourceMutex, writeMutex, temp, entry, deletes,
                   vaultCrashes, insertRaced>>

(* ... then hold it to the end.                                              *)
LockResource(t) ==
    /\ at[t] = "lock" /\ (t \in own \/ resourceMutex = NoThread)
    /\ IF registered THEN /\ resourceMutex' = IF t \in own THEN resourceMutex ELSE t
                          /\ Go(t, "look for data")
       ELSE UNCHANGED resourceMutex /\ Go(t, "idle")   \* resources_.at throws
    /\ UNCHANGED <<checked, registered, files, writeMutex, temp, entry, vaultRest>>

LookForData(t) ==
    /\ at[t] = "look for data"
    /\ Go(t, IF data = "none" THEN "fetch" ELSE "look for json")
    /\ UNCHANGED <<checked, registered, files, resourceMutex, writeMutex, temp, entry, vaultRest>>

LookForJson(t) ==
    /\ at[t] = "look for json"
    /\ Go(t, IF json = "none" THEN "fetch" ELSE "read")
    /\ UNCHANGED <<checked, registered, files, resourceMutex, writeMutex, temp, entry, vaultRest>>

Leave(t, success) ==
    /\ Go(t, "idle") /\ resourceMutex' = IF t \in own THEN resourceMutex ELSE NoThread
    /\ entry' = [entry EXCEPT ![t] = success]

\* The JSON must be there and be complete, or the parser throws.
BuildEntryFromJson(t) ==
    /\ at[t] = "read" /\ Leave(t, json = "whole")
    /\ UNCHANGED <<checked, registered, files, writeMutex, temp, vaultRest>>

\* Mutant: the exception of the first download is ignored as that of the second.
FetchIgnoring(t) ==
    /\ at[t] = "fetch"
    /\ \E content \in Write :
          /\ temp' = [temp EXCEPT ![t] = content]
          /\ Go(t, IF Checksum(content) \/ Throws(content) THEN "move" ELSE "clean data")
          /\ UNCHANGED <<resourceMutex, entry>>
    /\ UNCHANGED <<checked, registered, files, writeMutex, vaultRest>>

Fetch(t) ==
    /\ at[t] = "fetch"
    /\ \E content \in Write :
          /\ temp' = [temp EXCEPT ![t] = IF Throws(content) THEN "none" ELSE content]
          /\ IF Throws(content) THEN Leave(t, FALSE)
             ELSE /\ Go(t, IF Checksum(content) THEN "move" ELSE "clean data")
                  /\ UNCHANGED <<resourceMutex, entry>>
    /\ UNCHANGED <<checked, registered, files, writeMutex, vaultRest>>

CleanData(t) ==
    /\ at[t] = "clean data" /\ data' = "none" /\ Go(t, "clean json")
    /\ UNCHANGED <<checked, registered, json, resourceMutex, writeMutex, temp, entry, vaultRest>>

CleanJson(t) ==
    /\ at[t] = "clean json" /\ json' = "none" /\ Go(t, "fetch again")
    /\ UNCHANGED <<checked, registered, data, resourceMutex, writeMutex, temp, entry, vaultRest>>

\* Only the checksum of the second attempt counts: its exception is not asked
\* for.
FetchAgain(t) ==
    /\ at[t] = "fetch again"
    /\ \E content \in Write :
          /\ temp' = [temp EXCEPT ![t] = IF Checksum(content) THEN content ELSE "none"]
          /\ IF Checksum(content) THEN Go(t, "move") /\ UNCHANGED <<resourceMutex, entry>>
             ELSE Leave(t, FALSE)
    /\ UNCHANGED <<checked, registered, files, writeMutex, vaultRest>>

MoveToVault(t) ==
    /\ at[t] = "move" /\ data' = temp[t] /\ temp' = [temp EXCEPT ![t] = "none"]
    /\ Go(t, "open json")
    /\ UNCHANGED <<checked, registered, json, resourceMutex, writeMutex, entry, vaultRest>>

OpenJson(t) ==
    /\ at[t] = "open json" /\ json' = "empty" /\ Go(t, "write json")
    /\ UNCHANGED <<checked, registered, data, resourceMutex, writeMutex, temp, entry, vaultRest>>

\* A file that was removed while it is open stays removed.
WriteDataJson(t) ==
    /\ at[t] = "write json"
    /\ json' = IF json = "none" THEN "none" ELSE "whole"
    /\ Leave(t, TRUE)
    /\ UNCHANGED <<checked, registered, data, writeMutex, temp, vaultRest>>

(* DeleteResource: a check, then the removal, each under the write mutex.    *)
CheckResource(t) ==
    /\ at[t] = "idle" /\ writeMutex = NoThread /\ deletes < MaxDeletes
    /\ registered /\ data # "none" /\ json # "none"
    /\ deletes' = deletes + 1 /\ Go(t, "lock for removal")
    /\ UNCHANGED <<checked, registered, files, resourceMutex, writeMutex, temp, entry, vaultCrashes, mutexMap>>

RemoveData(t) ==
    /\ at[t] = "lock for removal" /\ writeMutex = NoThread
    /\ writeMutex' = t /\ data' = "none" /\ Go(t, "remove json")
    /\ UNCHANGED <<checked, registered, json, resourceMutex, temp, entry, vaultRest>>

RemoveJson(t) ==
    /\ at[t] = "remove json" /\ json' = "none" /\ Go(t, "erase")
    /\ UNCHANGED <<checked, registered, data, resourceMutex, writeMutex, temp, entry, vaultRest>>

EraseResource(t) ==
    /\ at[t] = "erase" /\ registered' = FALSE /\ writeMutex' = NoThread /\ Go(t, "idle")
    /\ UNCHANGED <<checked, files, resourceMutex, temp, entry, vaultRest>>

\* The process ends; the files stay.
VaultCrash ==
    /\ vaultCrashes < MaxVaultCrashes /\ vaultCrashes' = vaultCrashes + 1
    /\ registered' = FALSE /\ resourceMutex' = NoThread /\ writeMutex' = NoThread
    /\ at' = [t \in VaultThreads |-> "idle"] /\ temp' = [t \in VaultThreads |-> "none"]
    /\ entry' = [t \in VaultThreads |-> FALSE]
    /\ mutexKnown' = FALSE /\ own' = {} /\ insertRaced' = FALSE
    /\ UNCHANGED <<checked, files, deletes>>

-----------------------------------------------------------------------------
VaultInit ==
    /\ checked \in BOOLEAN /\ registered = FALSE
    /\ data = "none" /\ json = "none"
    /\ resourceMutex = NoThread /\ writeMutex = NoThread
    /\ at = [t \in VaultThreads |-> "idle"] /\ temp = [t \in VaultThreads |-> "none"]
    /\ entry = [t \in VaultThreads |-> FALSE]
    /\ deletes = 0 /\ vaultCrashes = 0
    /\ mutexKnown = FALSE /\ own = {} /\ insertRaced = FALSE

VaultStep(t) ==
    \/ AddResource(t) \/ GetResource(t) \/ LookUpMutex(t) \/ InsertMutex(t) \/ LockResource(t)
    \/ LookForData(t) \/ LookForJson(t)
    \/ BuildEntryFromJson(t) \/ Fetch(t) \/ CleanData(t) \/ CleanJson(t) \/ FetchAgain(t)
    \/ MoveToVault(t) \/ OpenJson(t) \/ WriteDataJson(t)
    \/ CheckResource(t) \/ RemoveData(t) \/ RemoveJson(t) \/ EraseResource(t)

VaultNext == VaultCrash \/ \E t \in VaultThreads : VaultStep(t)

VaultSpec == VaultInit /\ [][VaultNext]_vaultVars

-----------------------------------------------------------------------------
\* The data file of a resource with a checksum always has the content the
\* checksum is for, through crashes, failed downloads, removals beside
\* downloads and downloads beside each other; without one it is at least never
\* a download that broke off at the first attempt.  And an entry that was
\* handed out names two complete files, unless somebody deletes the resource
\* or two first callers raced at the unlocked insertion of its mutex
\* (FileSystemFileVault.hpp:165): then two threads may be downloading at once,
\* and one removes the files that the other has handed out.
VaultEntryIsWhole ==
    /\ checked => data \in {"none", "good"}
    /\ data # "part"
    /\ deletes = 0 /\ ~ insertRaced =>
          \A t \in VaultThreads : entry[t] => data # "none" /\ json = "whole"
===============================================================================
