----------------------------- MODULE ChatStream -----------------------------
(***************************************************************************)
(* chat_stream and _agent_sse (agent/router.py): retrieval, then a stream  *)
(* of events under one timeout for all of it.  The timeout cancels the     *)
(* task that runs the stream.  While the generator waits for the model the *)
(* cancellation arrives in it and becomes its TimeoutError; while the task *)
(* is sending, the generator is suspended at a yield, and the cancellation *)
(* ends the response instead.                                              *)
(***************************************************************************)
EXTENDS ApiState, EmbeddingErrors

CONSTANT Failures   \* exceptions the retrieval may end in

ASSUME ChatAssumption == Failures \subseteq Exception

Unsent == [said |-> <<>>, finished |-> FALSE, gone |-> FALSE]

StreamGoto(r, pc) == req' = [req EXCEPT ![r].pc = pc]

\* get_work_for_user in retrieve_for_user
ChatGet(r) ==
  /\ At(r, "chat", "begin") /\ CanConnect
  /\ req[r].ask.id \in IdsOf(req[r].user)
  /\ StreamGoto(r, "retrieve")
  /\ UNCHANGED stream

\* similarity_search raises, or wait_for with RAG_RETRIEVE_TIMEOUT_SECONDS
RetrieveRaises(r) ==
  /\ req[r].pc = "retrieve"
  /\ \E e \in Failures : Reply(r, MapEmbeddingError(e), {e})
  /\ UNCHANGED stream

\* The status and the headers are sent, and _get_agent() returns the agent
StreamOpens(r) ==
  /\ req[r].pc = "retrieve"
  /\ StreamGoto(r, "await")
  /\ UNCHANGED stream

\* The response ends without its last chunk
Cut(r) == Reply(r, 0, {})

\* _get_agent() raises, before the try and after the headers
AgentRaises(r) ==
  /\ req[r].pc = "retrieve"
  /\ Cut(r)
  /\ UNCHANGED stream

\* A chunk of astream; is_disconnected ends the loop
Chunk(r) ==
  /\ req[r].pc = "await"
  /\ StreamGoto(r, IF stream[r].gone THEN "done" ELSE "send")
  /\ UNCHANGED stream

ModelEnds(r) ==
  /\ req[r].pc = "await"
  /\ StreamGoto(r, "done")
  /\ stream' = [stream EXCEPT ![r].finished = TRUE]

ModelRaises(r) ==
  /\ req[r].pc = "await"
  /\ StreamGoto(r, "error")
  /\ UNCHANGED stream

\* Mutant: a timeout for each chunk instead of one for the stream
StreamTimeoutPerChunk(r) ==
  /\ req[r].pc = "await"
  /\ StreamGoto(r, "error")
  /\ UNCHANGED stream

\* Mutant: the except branch only logs
StreamTimeoutUntold(r) ==
  /\ \/ req[r].pc = "await" /\ StreamGoto(r, "done")
     \/ req[r].pc = "send" /\ Cut(r)
  /\ UNCHANGED stream

\* AGENT_SSE_TIMEOUT_SECONDS have passed
StreamTimeout(r) ==
  /\ \/ req[r].pc = "await" /\ StreamGoto(r, "error")
     \/ req[r].pc = "send" /\ Cut(r)
  /\ UNCHANGED stream

Say(r, event) ==
  LET said == stream[r].said
  IN  stream' = IF stream[r].gone \/ (said # <<>> /\ said[Len(said)] = event)
                THEN stream
                ELSE [stream EXCEPT ![r].said = Append(said, event)]

\* The client takes an event (one after the other of a kind count once).  Nothing limits
\* how long it takes the error and the closing event, which are sent after the timeout.
Sent(r) ==
  \/ req[r].pc = "send"  /\ Say(r, "data")  /\ StreamGoto(r, "await")
  \/ req[r].pc = "error" /\ Say(r, "error") /\ StreamGoto(r, "done")
  \/ req[r].pc = "done"  /\ Say(r, "done")  /\ Reply(r, 200, {})

ClientLeaves(r) ==
  /\ req[r].pc \in StreamPCs /\ ~stream[r].gone
  /\ stream' = [stream EXCEPT ![r].gone = TRUE]
  /\ UNCHANGED req

\* Starlette cancels the response of a client that has left
Cancelled(r) ==
  /\ req[r].pc \in StreamPCs /\ stream[r].gone
  /\ Cut(r)
  /\ UNCHANGED stream

TakesTheLast(r) ==
  req[r].pc \in {"error", "done"} /\ (Sent(r) \/ ClientLeaves(r) \/ Cancelled(r))

RetrieveStep(r) == RetrieveRaises(r) \/ StreamOpens(r) \/ AgentRaises(r)

StreamStep(r) ==
  \/ Chunk(r) \/ ModelEnds(r) \/ ModelRaises(r) \/ StreamTimeout(r)
  \/ Sent(r) \/ ClientLeaves(r) \/ Cancelled(r)
=============================================================================
