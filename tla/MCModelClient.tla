----------------------------- MODULE MCModelClient -----------------------------
(* Two callers with streams, chats and embeddings in pairs; or three threads  *)
(* at the file vault; or four threads that share two connections, so that     *)
(* they wait for each other's releases.  One of the three runs while the      *)
(* others rest: they have no state in common.                                 *)
EXTENDS ModelClient, FileVault, ConnectionPool, TLC

CONSTANTS c1, c2, v1, v2, v3, t1, t2, t3, t4, d1, d2

Op(kind, provider, n) == [kind |-> kind, provider |-> provider, n |-> n, parallel |-> FALSE]
Batch(n) == [Op("embed", "ollama", n) EXCEPT !.parallel = TRUE]

MCOps == {Op("stream", "openai", 1), Op("stream", "ollama", 1), Op("chat", "openai", 2),
          Op("chat", "ollama", 2), Op("llm", "openai", 2), Op("llm", "ollama", 2),
          Op("embed", "openai", 2), Op("embed", "ollama", 2), Batch(2), Batch(3)}

Body(lines, closed, status) == [lines |-> lines, closed |-> closed, status |-> status]

MCBodies == {
    Body(<<"chunk", "marked", "done">>, TRUE, 200),
    Body(<<"chunk", "empty", "chunk">>, TRUE, 200),
    Body(<<"chunk", "chunk">>, FALSE, 200),
    Body(<<"chunk", "bad", "chunk">>, TRUE, 200),
    Body(<<"empty">>, FALSE, 500)}

Symmetry == Permutations(Callers) \cup Permutations(VaultThreads)

VARIABLE part

MCInit ==
    /\ Init /\ VaultInit /\ PoolInit
    /\ part \in {"models", "vault", "connections"}
    /\ part # "vault" => checked = TRUE
    /\ part # "models" => op = [c \in Callers |-> Batch(2)]

MCNext ==
    \/ part = "models" /\ Next /\ UNCHANGED <<part, vaultVars, poolVars>>
    \/ part = "vault" /\ VaultNext /\ UNCHANGED <<part, vars, poolVars>>
    \/ part = "connections" /\ PoolNext /\ UNCHANGED <<part, vars, vaultVars>>

MCSpec == MCInit /\ [][MCNext]_<<part, vars, vaultVars, poolVars>>
===============================================================================
