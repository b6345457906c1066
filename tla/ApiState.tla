------------------------------ MODULE ApiState ------------------------------
(***************************************************************************)
(* What the requests of the HTTP interface share: the table of works, and  *)
(* the pool of database connections.  A request holds a connection from    *)
(* the first statement of a transaction to its commit or, when it only     *)
(* reads, to the end of the request: get_session closes the session after  *)
(* the response.                                                           *)
(***************************************************************************)
EXTENDS AccessToken, Sequences, FiniteSets

CONSTANTS Requests,  \* requests, each made once
          AskedBy,   \* what each may ask: sets of [kind, bearer, id, title]
          Titles,    \* titles as strip() leaves them
          Deleted,   \* the place of a row that was deleted: ids are not given twice
          PoolSize,  \* pool_size and max_overflow of the engine
          MaxWorks   \* bound: the rows ever inserted

Kinds == {"create", "list", "get", "rename", "delete", "chat", "hello"}

Ask == [kind : Kinds, bearer : Token, id : 1 .. MaxWorks, title : Titles]

ASSUME ApiAssumption ==
  /\ AskedBy \in [Requests -> SUBSET Ask]
  /\ PoolSize \in Nat \ {0} /\ MaxWorks \in Nat
  /\ Deleted \notin [user : Users, title : Titles]

VARIABLES
  works,   \* the rows, in the order of their ids
  req,     \* per request: pc, what it asks, its user, and what it has read
  stream,  \* per request: events sent, whether the model ended, whether the client left
  hello    \* _hello_payload is set

Row == [user : Users, title : Titles]

IdsOf(user) == {i \in DOMAIN works : works[i] # Deleted /\ works[i].user = user}

Exists(id) == id \in DOMAIN works /\ works[id] # Deleted

\* Where a transaction is open: "loaded", between the SELECT and the commit of a rename
\* or a deletion, and a chat from its SELECT to the last event
StreamPCs == {"await", "send", "error", "done"}
Holding == {"loaded", "retrieve"} \cup StreamPCs

CanConnect == Cardinality({r \in Requests : req[r].pc \in Holding}) < PoolSize

At(r, kind, pc) == req[r].pc = pc /\ req[r].ask.kind = kind

Goto(r, next) == req' = [req EXCEPT ![r] = next]

\* The answer: a status, and the rows or the exception in its body
Reply(r, status, body) == Goto(r, [pc |-> "end", status |-> status, body |-> body])

\* An exception of the database.  "DBAPIError" is one the database or its driver raises,
\* but IntegrityError: a lost connection, or a value out of range.
DatabaseError(name) == [name |-> name, code |-> 0, words |-> FALSE]

DatabaseErrors == {DatabaseError(name) : name \in {"DBAPIError", "IntegrityError",
                     "PoolTimeout", "StaleDataError", "InvalidRequestError"}}

\* unhandled_exception_handler, which has the type of the exception
Unhandled(r, name) == Reply(r, 500, {DatabaseError(name)})
=============================================================================
