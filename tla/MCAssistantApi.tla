---------------------------- MODULE MCAssistantApi ----------------------------
EXTENDS AssistantApi

\* Every documented endpoint.
AllOps == {e.handler : e \in Documented}

\* The threads of the HTTP server are interchangeable.
WorkerSymmetry == Permutations(Workers)
===============================================================================
