------------------------------ MODULE HttpRoutes ------------------------------
(***************************************************************************)
(* The routes of mini-assistant.  Every controller adds its routes to the   *)
(* server in Mount; cpp-httplib serves a request with the first route of    *)
(* the method, in the order of registration, whose pattern matches.  A      *)
(* route is the method, the pattern behind "/v1", the handler and the path  *)
(* parameters the handler reads with path_params.at, which throws for a     *)
(* name that is not in the pattern.                                        *)
(***************************************************************************)
EXTENDS Naturals, Sequences, SequencesExt

PathVars == {":assistant_id", ":assitant_id", ":thread_id", ":message_id", ":run_id",
             ":step_id", ":file_id", ":vector_store_id", ":batch_id", ":files"}

Route(method, path, handler, reads) ==
    [method |-> method, path |-> path, handler |-> handler, reads |-> reads]

AssistantRoutes == <<
    Route("GET", <<"assistants">>, "ListAssistants", {}),
    Route("POST", <<"assistants">>, "CreateAssistant", {}),
    Route("GET", <<"assistants", ":assitant_id">>, "GetAssistant", {":assistant_id"}),
    Route("POST", <<"assistants", ":assistant_id">>, "ModifyAssistant", {":assistant_id"}),
    Route("DELETE", <<"assistants", ":assistant_id">>, "DeleteAssistant", {":assistant_id"}) >>

FileRoutes == <<
    Route("GET", <<"files">>, "ListFiles", {}),
    Route("GET", <<"files", ":file_id">>, "GetFile", {":file_id"}),
    Route("GET", <<"files", ":file_id", "content">>, "DownloadFile", {":file_id"}),
    Route("DELETE", <<"files", ":file_id">>, "DeleteFile", {":file_id"}),
    Route("POST", <<"files">>, "UploadFile", {}) >>

MessageRoutes ==
    LET messages == <<"threads", ":thread_id", "messages">>
        one == messages \o <<":message_id">>
    IN  << Route("GET", messages, "ListMessages", {":thread_id"}),
           Route("POST", messages, "CreateMessage", {":thread_id"}),
           Route("GET", one, "GetMessage", {":thread_id", ":message_id"}),
           Route("POST", one, "ModifyMessage", {":thread_id", ":message_id"}) >>

RunRoutes ==
    LET runs == <<"threads", ":thread_id", "runs">>
        one == runs \o <<":run_id">>
        ids == {":thread_id", ":run_id"}
    IN  << Route("POST", runs, "CreateRun", {":thread_id"}),
           Route("GET", runs, "ListRuns", {":thread_id"}),
           Route("GET", one, "GetRun", ids),
           Route("POST", one, "ModifyRun", ids),
           Route("POST", one \o <<"submit_tool_outputs">>, "SubmitToolOutputs", ids),
           Route("POST", one \o <<"cancel">>, "CancelRun", ids) >>

\* Mutant: the route with the parameter is registered before the fixed one.
ThreadRoutesGeneralFirst ==
    LET one == <<"threads", ":thread_id">>
    IN  << Route("POST", <<"threads">>, "CreateThread", {}),
           Route("GET", one, "GetThread", {":thread_id"}),
           Route("POST", one, "ModifyThread", {":thread_id"}),
           Route("POST", <<"threads", "runs">>, "CreateThreadAndRun", {}),
           Route("DELETE", one, "DeleteThread", {":thread_id"}) >>

ThreadRoutes ==
    LET one == <<"threads", ":thread_id">>
    IN  << Route("POST", <<"threads">>, "CreateThread", {}),
           Route("GET", one, "GetThread", {":thread_id"}),
           Route("POST", <<"threads", "runs">>, "CreateThreadAndRun", {}),
           Route("POST", one, "ModifyThread", {":thread_id"}),
           Route("DELETE", one, "DeleteThread", {":thread_id"}) >>

RunStepRoutes ==
    LET steps == <<"threads", ":thread_id", "runs", ":run_id", "steps">>
        ids == {":thread_id", ":run_id"}
    IN  << Route("GET", steps, "ListRunSteps", ids),
           Route("GET", steps \o <<":step_id">>, "GetRunStep", ids \cup {":step_id"}) >>

VectorStoreRoutes ==
    LET one == <<"vector_stores", ":vector_store_id">>
        id == {":vector_store_id"}
    IN  << Route("GET", <<"vector_stores">>, "ListVectorStores", {}),
           Route("POST", <<"vector_stores">>, "CreateVectorStore", {}),
           Route("GET", one, "GetVectorStore", id),
           Route("POST", one, "ModifyVectorStore", id),
           Route("DELETE", one, "DeleteVectorStore", id) >>

VectorStoreFileRoutes ==
    LET files == <<"vector_stores", ":vector_store_id", "files">>
        ids == {":vector_store_id", ":file_id"}
    IN  << Route("GET", files, "ListVectorStoreFiles", {":vector_store_id"}),
           Route("POST", files, "CreateVectorStoreFile", {":vector_store_id"}),
           Route("GET", files \o <<":file_id">>, "GetVectorStoreFile", ids),
           Route("DELETE", <<"vector_stores", ":vector_store_id", ":files", ":file_id">>,
                 "DeleteVectorStoreFile", ids) >>

VectorStoreFileBatchRoutes ==
    LET batches == <<"vector_stores", ":vector_store_id", "file_batches">>
        one == batches \o <<":batch_id">>
        ids == {":vector_store_id", ":batch_id"}
    IN  << Route("POST", batches, "CreateVectorStoreFileBatch", {":vector_store_id"}),
           Route("GET", one, "GetVectorStoreFileBatch", ids),
           Route("POST", one \o <<"cancel">>, "CancelVectorStoreFileBatch", ids),
           Route("GET", one \o <<"files">>, "ListFilesInVectorStoreBatch", ids) >>

\* The controllers in the order in which the application mounts them; there
\* is no run step controller among them.
MountedRoutes ==
    AssistantRoutes \o FileRoutes \o MessageRoutes \o RunRoutes \o ThreadRoutes
        \o VectorStoreRoutes \o VectorStoreFileRoutes \o VectorStoreFileBatchRoutes

IsVar(segment) == segment \in PathVars

\* httplib's matchers: a parameter takes one whole segment.
Matches(route, method, path) ==
    /\ route.method = method
    /\ Len(route.path) = Len(path)
    /\ \A i \in DOMAIN path : IsVar(route.path[i]) \/ route.path[i] = path[i]

\* The place in MountedRoutes of the route that serves a request, or 0.
Dispatch(method, path) ==
    SelectInSeq(MountedRoutes, LAMBDA r : Matches(r, method, path))

\* The parameters that path_params.at finds.
Bound(route) == {route.path[i] : i \in {j \in DOMAIN route.path : IsVar(route.path[j])}}

\* The endpoints of docs/assistant_api.md; a client fills every parameter in.
Documented ==
    Range(AssistantRoutes \o FileRoutes \o MessageRoutes \o RunRoutes \o ThreadRoutes
              \o RunStepRoutes \o VectorStoreRoutes \o VectorStoreFileRoutes
              \o VectorStoreFileBatchRoutes)

Filled(path) == [i \in DOMAIN path |-> IF IsVar(path[i]) /\ path[i] # ":files" THEN "x"
                                       ELSE IF path[i] = ":files" THEN "files" ELSE path[i]]

Endpoint(name) == CHOOSE e \in Documented : e.handler = name
===============================================================================
