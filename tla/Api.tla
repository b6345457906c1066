-------------------------------- MODULE Api --------------------------------
(***************************************************************************)
(* The requests of the HTTP interface together: authentication, works,     *)
(* chats and the page "/", over one table and one pool of connections.     *)
(* A chat keeps its connection for as long as its stream lasts, and the    *)
(* other requests wait, or fail when pool_timeout has passed.              *)
(***************************************************************************)
EXTENDS WorksHandlers, ChatStream, HelloPage

CONSTANTS InitialWorks,  \* the rows at the beginning
          Now            \* when the requests are made

\* Only this server has the secret: a signed token is one it made
ASSUME NowAssumption ==
  /\ Now \in Nat
  /\ \A r \in Requests : \A ask \in AskedBy[r] : ask.bearer.signed =>
       \E t \in 0 .. Now : ask.bearer = CreateToken(ask.bearer.user, t)
  /\ InitialWorks \in Seq(Row) /\ Len(InitialWorks) <= MaxWorks

vars == <<works, req, stream, hello>>

Answers == {0, 200, 201, 204, 400, 401, 404, 409, 429, 500, 502, 503, 504}

\* What the body of an answer tells
Shown == Row \cup Failures \cup DatabaseErrors

RequestType ==
  [pc : {"new", "lock", "sleep"}]
    \cup [pc : {"auth"}, ask : Ask]
    \cup [pc : {"begin", "retrieve"} \cup StreamPCs, ask : Ask, user : Users]
    \cup [pc : {"loaded"}, ask : Ask, user : Users, was : Titles]
    \cup [pc : {"refresh"}, ask : Ask, id : 1 .. MaxWorks]
    \cup [pc : {"end"}, status : Answers, body : SUBSET Shown]

TypeOK ==
  /\ works \in Seq(Row \cup {Deleted}) /\ Len(works) <= MaxWorks
  /\ req \in [Requests -> RequestType]
  /\ stream \in [Requests -> [said : Seq({"data", "error", "done"}),
                              finished : BOOLEAN, gone : BOOLEAN]]
  /\ hello \in BOOLEAN

Init ==
  /\ works = InitialWorks
  /\ req = [r \in Requests |-> [pc |-> "new"]]
  /\ stream = [r \in Requests |-> Unsent]
  /\ hello = FALSE

Arrive(r) ==
  /\ req[r].pc = "new"
  /\ \E ask \in AskedBy[r] : Goto(r, [pc |-> "auth", ask |-> ask])

\* CurrentUserIdDep, for every endpoint but "/"
Authenticate(r) ==
  LET ask  == req[r].ask
      user == VerifyToken(ask.bearer, Now)
  IN  /\ req[r].pc = "auth"
      /\ \/ ask.kind = "hello" /\ Goto(r, [pc |-> "lock"])
         \/ ask.kind # "hello" /\ user = NoUser /\ Reply(r, 401, {})
         \/ /\ ask.kind # "hello" /\ user # NoUser
            /\ Goto(r, [pc |-> "begin", ask |-> ask, user |-> user])

\* The pool had no connection for pool_timeout seconds
PoolTimeout(r) ==
  /\ req[r].pc \in {"begin", "refresh"} /\ ~CanConnect
  /\ Unhandled(r, "PoolTimeout")

Serve(r) ==
  \/ (Authenticate(r) \/ PoolTimeout(r)) /\ UNCHANGED <<works, stream, hello>>
  \/ WorksStep(r) /\ UNCHANGED <<stream, hello>>
  \/ (ChatGet(r) \/ RetrieveStep(r)) /\ UNCHANGED <<works, hello>>
  \/ HelloStep(r) /\ UNCHANGED <<works, stream>>

Next ==
  \E r \in Requests :
    \/ Arrive(r) /\ UNCHANGED <<works, stream, hello>>
    \/ Serve(r)
    \/ StreamStep(r) /\ UNCHANGED <<works, hello>>

Spec == Init /\ [][Next]_vars

\* The event loop runs what can run, the pool, the retrieval and the stream have their
\* timeouts, and a client takes the last two events or leaves; nothing says that it
\* takes the others, that the model goes on, or that it ever leaves.
Fairness ==
  \A r \in Requests :
    /\ WF_vars(Serve(r))
    /\ WF_vars((StreamTimeout(r) \/ Cancelled(r) \/ TakesTheLast(r)) /\ UNCHANGED <<works, hello>>)

LiveSpec == Spec /\ Fairness
-----------------------------------------------------------------------------
(* Properties *)

Ends(r, status) == /\ req[r].pc # "end" /\ req'[r].pc = "end"
                   /\ req'[r].status = status

\* Nobody acts for somebody else or after the token's time, and a 401 always means the
\* caller's own token: what the embedding service thinks of the server's key never
\* looks like a session that ended.
OwnTokenDecides ==
  [][\A r \in Requests :
       LET bearer == req[r].ask.bearer IN
       /\ Ends(r, 401) => ~\E u \in Users : Genuine(bearer, u, Now)
       /\ (req[r].pc = "auth" /\ req'[r].pc = "begin")
             => Genuine(bearer, req'[r].user, Now)]_vars

\* A row changes only by a rename or a deletion of its owner, even when it was deleted,
\* and another work inserted, after the request had read it.
OnlyOwnersChangeWorks ==
  [][/\ DOMAIN works \subseteq DOMAIN works'
     /\ \A i \in DOMAIN works : works'[i] # works[i] =>
          \E r \in Requests :
             /\ req[r].pc = "loaded" /\ req[r].ask.id = i
             /\ Exists(i) /\ works[i].user = req[r].user
             /\ works'[i] \in {Deleted, [user |-> req[r].user, title |-> req[r].ask.title]}
    ]_vars

\* What a success answers is what the table holds for the caller at that time, whatever
\* was committed since the request's own commit.
AnswerIsStored ==
  [][\A r \in Requests :
       Ends(r, 200) \/ Ends(r, 201) =>
         \A row \in req'[r].body :
            \E i \in DOMAIN works : works[i] = row /\ row.user = req[r].ask.bearer.user]_vars

Blames(r, name) == req'[r].body = {DatabaseError(name)}

\* The causes of a 500
Cause(r) ==
  \/ req[r].pc = "retrieve"
  \/ Blames(r, "DBAPIError")
  \/ Blames(r, "PoolTimeout") /\ req[r].pc \in {"begin", "refresh"} /\ ~CanConnect
  \/ Blames(r, "StaleDataError") /\ req[r].pc = "loaded" /\ ~Exists(req[r].ask.id)
  \/ Blames(r, "InvalidRequestError") /\ req[r].pc = "refresh" /\ ~Exists(req[r].id)

\* What makes a 500 of a request is the retrieval, the database or its driver, a pool with
\* no connection in time, or a deletion that overtook the request between two of its
\* statements; another rename or creation, which may take the title at any moment up to
\* the commit, never does.
ServerErrorHasCause ==
  [][\A r \in Requests : Ends(r, 500) => Cause(r)]_vars

\* The classes that map_embedding_error tests, and those it meets by inheritance
Network == {"TimeoutError", "ConnectTimeout", "ReadTimeout", "ConnectError",
            "APIConnectionError", "APITimeoutError"}

\* A chat that fails in the retrieval tells the trouble of the network its classes or the
\* words of its message give away, which a client may try again, from a refusal: 503 or
\* 504.  (httpx.WriteError, say, without the words, is a 500.)
NetworkTroubleIsTold ==
  [][\A r \in Requests :
       req[r].pc = "retrieve" /\ req'[r].pc = "end" =>
         \A e \in req'[r].body :
           /\ (e.name \in Network \/ (e.words /\ e.code = 0)) => req'[r].status \in {503, 504}
           /\ e.code \in 500 .. 599 => req'[r].status = 502]_vars

\* A client that stays until [DONE] has the whole answer, or an error event just before
\* it; nothing comes after either.  (A stream may also be cut off with no [DONE].)
StreamTellsItsEnd ==
  \A r \in Requests :
    LET said == stream[r].said IN
    \A i \in DOMAIN said :
      /\ said[i] = "done" => /\ i = Len(said)
                             /\ stream[r].finished \/ (i > 1 /\ said[i - 1] = "error")
      /\ said[i] = "error" => i = Len(said) \/ said[i + 1] = "done"

\* Requests that waited for the lock while another slept do not sleep again.
HelloSleepsOnce == hello => \A r \in Requests : req[r].pc # "sleep"

\* Every request ends, with the pool full of chats, a model that never ends and a client
\* that stops reading before the timeout.
EveryRequestEnds ==
  \A r \in Requests : req[r].pc = "auth" ~> req[r].pc = "end"
=============================================================================
