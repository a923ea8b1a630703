---------------------------- MODULE TaskDelivery ----------------------------
(***************************************************************************)
(* What a task scheduler promises about one task, whatever threads, queue  *)
(* and handlers implement it: an accepted task is taken by a consumer at   *)
(* most once, a taken task is finished, and a task that nobody took is     *)
(* either still pending or was removed by a shutdown, which hands it back  *)
(* ("returned") or throws it away ("discarded").  Nothing else happens to  *)
(* a task and nothing is ever undone.                                      *)
(*                                                                         *)
(* This is the contract of ITaskScheduler (ITaskScheduler.hpp).            *)
(***************************************************************************)
EXTENDS Naturals

CONSTANT Tasks

VARIABLE status      \* life cycle of every task

Stage == {"new", "pending", "taken", "finished", "returned", "discarded"}

TypeOK == status \in [Tasks -> Stage]

Init == status = [t \in Tasks |-> "new"]

(* A client hands a task over. *)
Accept(t) == /\ status[t] = "new"
             /\ status' = [status EXCEPT ![t] = "pending"]

(* A consumer takes a pending task; no other consumer can take it again. *)
Take(t) == /\ status[t] = "pending"
           /\ status' = [status EXCEPT ![t] = "taken"]

(* The consumer is through with it, whatever the handlers did. *)
Finish(t) == /\ status[t] = "taken"
             /\ status' = [status EXCEPT ![t] = "finished"]

(* A shutdown empties the pending set in one go; `how' says whether the    *)
(* caller gets the tasks.                                                  *)
Shutdown(how) ==
    /\ how \in {"returned", "discarded"}
    /\ status' = [t \in Tasks |-> IF status[t] = "pending" THEN how ELSE status[t]]

Next == \/ \E t \in Tasks : Accept(t) \/ Take(t) \/ Finish(t)
        \/ \E how \in {"returned", "discarded"} : Shutdown(how)

Spec == Init /\ [][Next]_status

=============================================================================
