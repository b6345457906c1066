--------------------------- MODULE WorksHandlers ---------------------------
(***************************************************************************)
(* Create, list, read, rename and delete works (rag/router.py and          *)
(* rag/service.py).  The works here have no documents: RagIngest models    *)
(* the deletion of those that have.                                        *)
(***************************************************************************)
EXTENDS ApiState

\* get_work_for_user, and the SELECT of delete_work: WorkNotFound
NotFound(r) ==
  /\ req[r].pc = "begin" /\ req[r].ask.kind \in {"get", "rename", "delete", "chat"}
  /\ CanConnect
  /\ req[r].ask.id \notin IdsOf(req[r].user)
  /\ Reply(r, 404, {})
  /\ UNCHANGED works

\* The unique titles of a user's works (migrations/002, outside the source): the commit
\* raises IntegrityError
TitleTaken(user, title, id) == \E i \in IdsOf(user) \ {id} : works[i].title = title

\* Mutant: IntegrityError is not caught
ConflictUncaught(r) == Unhandled(r, "IntegrityError") /\ UNCHANGED works

\* IntegrityError: rollback
Conflict(r) == Reply(r, 409, {}) /\ UNCHANGED works

\* Mutant: the id of a deleted row is given again
InsertReusing(row) ==
  LET free == {i \in DOMAIN works : works[i] = Deleted}
      id == IF free = {} THEN Len(works) + 1 ELSE CHOOSE i \in free : TRUE
  IN  [i \in DOMAIN works \cup {id} |-> IF i = id THEN row ELSE works[i]]

\* autoincrement
Insert(row) == Append(works, row)

\* Only IntegrityError is caught: any other exception of a statement or of a commit, the
\* pool's aside, ends the request, here with nothing committed
StatementRaises(r) ==
  /\ req[r].pc = "loaded" \/ (req[r].pc \in {"begin", "refresh"} /\ CanConnect)
  /\ Unhandled(r, "DBAPIError")
  /\ UNCHANGED works

\* A commit that was executed and whose acknowledgement is lost
Unheard(r) == Unhandled(r, "DBAPIError")

\* create_work up to the commit, which gives the connection back
CreateCommit(r) ==
  LET user == req[r].user  title == req[r].ask.title
  IN  /\ At(r, "create", "begin") /\ CanConnect
      /\ \/ /\ TitleTaken(user, title, 0)
            /\ Conflict(r)
         \/ /\ ~TitleTaken(user, title, 0) /\ Len(works) < MaxWorks
            /\ works' = Insert([user |-> user, title |-> title])
            /\ \/ Goto(r, [pc |-> "refresh", id |-> Len(works) + 1, ask |-> req[r].ask])
               \/ Unheard(r)

ListWorks(r) ==
  /\ At(r, "list", "begin") /\ CanConnect
  /\ Reply(r, 200, {works[i] : i \in IdsOf(req[r].user)})
  /\ UNCHANGED works

GetWork(r) ==
  /\ At(r, "get", "begin") /\ CanConnect
  /\ req[r].ask.id \in IdsOf(req[r].user)
  /\ Reply(r, 200, {works[req[r].ask.id]})
  /\ UNCHANGED works

\* get_work_for_user in update_work_title, and the SELECT of delete_work
Load(r) ==
  /\ req[r].pc = "begin" /\ req[r].ask.kind \in {"rename", "delete"} /\ CanConnect
  /\ req[r].ask.id \in IdsOf(req[r].user)
  /\ Goto(r, [pc |-> "loaded", user |-> req[r].user, ask |-> req[r].ask,
              was |-> works[req[r].ask.id].title])
  /\ UNCHANGED works

\* The commit of update_work_title.  A title equal to the one loaded makes no UPDATE;
\* an UPDATE that finds no row raises StaleDataError.
RenameCommit(r) ==
  LET id == req[r].ask.id
      title == req[r].ask.title
      proceed == Goto(r, [pc |-> "refresh", id |-> id, ask |-> req[r].ask])
  IN  /\ At(r, "rename", "loaded")
      /\ \/ req[r].was = title /\ proceed /\ UNCHANGED works
         \/ /\ req[r].was # title /\ Exists(id)
            /\ ~TitleTaken(req[r].user, title, id)
            /\ works' = [works EXCEPT ![id].title = title]
            /\ proceed \/ Unheard(r)
         \/ /\ req[r].was # title /\ Exists(id)
            /\ TitleTaken(req[r].user, title, id)
            /\ Conflict(r)
         \/ /\ req[r].was # title /\ ~Exists(id)
            /\ Unhandled(r, "StaleDataError") /\ UNCHANGED works

Success(r) == IF req[r].ask.kind = "create" THEN 201 ELSE 200

\* Mutant: the object in memory is answered, as expire_on_commit=False leaves it
RefreshNot(r) ==
  /\ req[r].pc = "refresh" /\ CanConnect
  /\ Reply(r, Success(r), {[user |-> req[r].ask.bearer.user, title |-> req[r].ask.title]})
  /\ UNCHANGED works

\* Mutant: nothing is raised when the row is gone
RefreshBlind(r) ==
  /\ req[r].pc = "refresh" /\ CanConnect
  /\ Reply(r, Success(r), {works[req[r].id]})
  /\ UNCHANGED works

\* session.refresh after the commit of create_work and update_work_title
Refresh(r) ==
  /\ req[r].pc = "refresh" /\ CanConnect
  /\ IF Exists(req[r].id) THEN Reply(r, Success(r), {works[req[r].id]})
                          ELSE Unhandled(r, "InvalidRequestError")
  /\ UNCHANGED works

\* A DELETE that finds no row only warns
DeleteCommit(r) ==
  /\ At(r, "delete", "loaded")
  /\ works' = [works EXCEPT ![req[r].ask.id] = Deleted]
  /\ Reply(r, 204, {}) \/ Unheard(r)

WorksStep(r) ==
  \/ NotFound(r) \/ CreateCommit(r) \/ ListWorks(r) \/ GetWork(r)
  \/ Load(r) \/ RenameCommit(r) \/ Refresh(r) \/ DeleteCommit(r)
  \/ StatementRaises(r)
=============================================================================
