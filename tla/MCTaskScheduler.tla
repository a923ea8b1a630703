--------------------------- MODULE MCTaskScheduler ---------------------------
(* Small instance of TaskScheduler: two Starts of one thread each, two      *)
(* handlers whose categories overlap in one task, one task nobody accepts.  *)
EXTENDS TaskScheduler, TLC

CONSTANTS t1, t2, t3, h1, h2

MCAccepts == [h \in Handlers |-> IF h = h1 THEN {t1} ELSE {t1, t2} \cap Tasks]
=============================================================================
