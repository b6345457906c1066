----------------------------- MODULE Api_proofs -----------------------------
(***************************************************************************)
(* Works, chats and authentication, for any numbers of requests, users,    *)
(* works and connections, anything the requests may ask, and any failures  *)
(* of the retrieval.                                                       *)
(***************************************************************************)
EXTENDS Api, SequenceTheorems, TLAPS

-----------------------------------------------------------------------------
(* The mapping of exceptions *)

LEMMA Least ==
  ASSUME NEW T, T \subseteq 1 .. 12, T # {}
  PROVE  First(T) \in T
<1>1. \E i \in T : \A j \in T : i <= j
  <2>1. \A j \in T : j \in {1, 2, 3, 4, 5, 6, 7, 8, 9, 10, 11, 12}
    OBVIOUS
  <2>2. \/ 1 \in T \/ 2 \in T \/ 3 \in T \/ 4 \in T \/ 5 \in T \/ 6 \in T
        \/ 7 \in T \/ 8 \in T \/ 9 \in T \/ 10 \in T \/ 11 \in T \/ 12 \in T
    BY <2>1
  <2>3. QED BY <2>1, <2>2
<1>2. QED BY <1>1 DEF First

\* The retrieval never makes the answer of a chat a 401, 403 or 404
LEMMA Mapped ==
  ASSUME NEW e
  PROVE  MapEmbeddingError(e) \in {400, 429, 500, 502, 503, 504}
<1>1. /\ DOMAIN Branches = 1 .. 12
      /\ \A i \in 1 .. 12 : Branches[i].status \in {400, 429, 502, 503, 504}
  BY DEF Branches, Branch
<1>2. Taken(e) \subseteq 1 .. 12
  BY <1>1 DEF Taken
<1>3. Taken(e) # {} => First(Taken(e)) \in 1 .. 12
  BY <1>2, Least
<1>4. QED BY <1>1, <1>3 DEF MapEmbeddingError

-----------------------------------------------------------------------------
(* Types *)

\* A request with an open transaction, or about to begin one, and a stream
Open == [pc : {"begin", "retrieve"} \cup StreamPCs, ask : Ask, user : Users]

LEMMA Fields ==
  ASSUME req \in [Requests -> RequestType], NEW r \in Requests
  PROVE  /\ req[r].pc = "auth" => req[r].ask \in Ask
         /\ req[r].pc \in {"begin", "retrieve"} \cup StreamPCs => req[r] \in Open
         /\ req[r].pc = "loaded" =>
              req[r] \in [pc : {"loaded"}, ask : Ask, user : Users, was : Titles]
         /\ req[r].pc = "refresh" =>
              req[r] \in [pc : {"refresh"}, ask : Ask, id : 1 .. MaxWorks]
BY DEF RequestType, Open, StreamPCs

LEMMA GotoType ==
  ASSUME req \in [Requests -> RequestType], NEW r \in Requests, NEW n, Goto(r, n)
  PROVE  /\ n \in RequestType => req' \in [Requests -> RequestType]
         /\ req'[r] = n
         /\ \A q \in Requests \ {r} : req'[q] = req[q]
BY DEF Goto

LEMMA StreamGotoType ==
  ASSUME req \in [Requests -> RequestType], NEW r \in Requests,
         req[r].pc \in {"begin", "retrieve"} \cup StreamPCs,
         NEW pc \in {"retrieve"} \cup StreamPCs, StreamGoto(r, pc)
  PROVE  /\ req' \in [Requests -> RequestType]
         /\ req'[r].pc = pc /\ req'[r].ask = req[r].ask /\ req'[r].user = req[r].user
         /\ \A q \in Requests \ {r} : req'[q] = req[q]
<1>1. req[r] \in Open
  BY Fields
<1>2. req' = [req EXCEPT ![r] = [req[r] EXCEPT !.pc = pc]]
  BY DEF StreamGoto
<1>3. /\ [req[r] EXCEPT !.pc = pc] \in Open
      /\ [req[r] EXCEPT !.pc = pc].pc = pc
      /\ [req[r] EXCEPT !.pc = pc].ask = req[r].ask
      /\ [req[r] EXCEPT !.pc = pc].user = req[r].user
  BY <1>1 DEF Open
<1>4. [req[r] EXCEPT !.pc = pc] \in RequestType
  BY <1>3 DEF RequestType, Open
<1>5. QED BY <1>2, <1>3, <1>4

LEMMA ReplyType ==
  ASSUME req \in [Requests -> RequestType], NEW r \in Requests,
         NEW status \in Answers, NEW body, body \subseteq Shown,
         Reply(r, status, body)
  PROVE  /\ req' \in [Requests -> RequestType]
         /\ req'[r] = [pc |-> "end", status |-> status, body |-> body]
         /\ \A q \in Requests \ {r} : req'[q] = req[q]
<1>1. [pc |-> "end", status |-> status, body |-> body] \in RequestType
  BY DEF RequestType
<1>2. QED BY <1>1, GotoType DEF Reply

\* A table with the row of one id replaced
LEMMA Replace ==
  ASSUME works \in Seq(Row \cup {Deleted}), NEW id, NEW x \in Row \cup {Deleted},
         works' = [works EXCEPT ![id] = x]
  PROVE  /\ works' \in Seq(Row \cup {Deleted}) /\ Len(works') = Len(works)
         /\ DOMAIN works' = DOMAIN works
         /\ \A j \in DOMAIN works : works'[j] = IF j = id THEN x ELSE works[j]
<1>1. /\ Len(works) \in Nat /\ DOMAIN works = 1 .. Len(works)
      /\ works \in [1 .. Len(works) -> Row \cup {Deleted}]
  OBVIOUS
<1>2. works' \in [1 .. Len(works) -> Row \cup {Deleted}]
  BY <1>1
<1>3. works' \in Seq(Row \cup {Deleted}) /\ Len(works') = Len(works)
  BY <1>1, <1>2
<1>4. QED BY <1>1, <1>2, <1>3

\* How a step may change the table
Shape ==
  \/ works' = works
  \/ \E row \in Row : works' = Append(works, row) /\ Len(works) < MaxWorks
  \/ \E id \in DOMAIN works, title \in Titles :
        works[id] # Deleted /\ works' = [works EXCEPT ![id].title = title]
  \/ \E id : works' = [works EXCEPT ![id] = Deleted]

LEMMA ShapeType ==
  ASSUME works \in Seq(Row \cup {Deleted}), Len(works) <= MaxWorks, Shape
  PROVE  /\ works' \in Seq(Row \cup {Deleted}) /\ Len(works') <= MaxWorks
         /\ DOMAIN works \subseteq DOMAIN works'
         /\ \A i \in DOMAIN works :
               \/ works'[i] = works[i] \/ works'[i] = Deleted
               \/ /\ works[i] # Deleted /\ works'[i] \in Row
                  /\ works'[i].user = works[i].user
<1>0. MaxWorks \in Nat /\ Deleted \notin Row
  BY ApiAssumption DEF Row
<1>1. CASE works' = works
  BY <1>1
<1>2. ASSUME NEW row \in Row, works' = Append(works, row), Len(works) < MaxWorks
      PROVE  /\ works' \in Seq(Row \cup {Deleted}) /\ Len(works') <= MaxWorks
             /\ DOMAIN works \subseteq DOMAIN works'
             /\ \A i \in DOMAIN works : works'[i] = works[i]
  BY <1>0, <1>2
<1>3. ASSUME NEW id \in DOMAIN works, NEW title \in Titles, works[id] # Deleted,
             works' = [works EXCEPT ![id].title = title]
      PROVE  /\ works' \in Seq(Row \cup {Deleted}) /\ Len(works') <= MaxWorks
             /\ DOMAIN works' = DOMAIN works
             /\ \A i \in DOMAIN works \ {id} : works'[i] = works[i]
             /\ works'[id] \in Row /\ works'[id].user = works[id].user
  <2>1. works[id] \in Row
    BY <1>3
  <2>2. works' = [works EXCEPT ![id] = [works[id] EXCEPT !.title = title]]
    BY <1>3
  <2>3. /\ [works[id] EXCEPT !.title = title] \in Row
        /\ [works[id] EXCEPT !.title = title].user = works[id].user
    BY <2>1 DEF Row
  <2>4. QED BY <1>3, <2>2, <2>3, Replace
<1>4. ASSUME NEW id, works' = [works EXCEPT ![id] = Deleted]
      PROVE  /\ works' \in Seq(Row \cup {Deleted}) /\ Len(works') <= MaxWorks
             /\ DOMAIN works' = DOMAIN works
             /\ \A i \in DOMAIN works : works'[i] = works[i] \/ works'[i] = Deleted
  BY <1>4, Replace
<1>5. QED BY <1>1, <1>2, <1>3, <1>4 DEF Shape

-----------------------------------------------------------------------------
(* What a request knows of the row it works on stays true, whatever the     *)
(* others do: the row is its user's, or deleted                              *)

Belongs(id, user) == id \in DOMAIN works /\ (works[id] = Deleted \/ works[id].user = user)

WillBelong(id, user) ==
  id \in DOMAIN works' /\ (works'[id] = Deleted \/ works'[id].user = user)

Own(r) ==
  /\ req[r].pc \in {"auth", "begin", "loaded", "refresh", "retrieve"} \cup StreamPCs
       => req[r].ask \in AskedBy[r]
  /\ req[r].pc \in {"begin", "loaded", "retrieve"} \cup StreamPCs
       => req[r].user = req[r].ask.bearer.user
  /\ req[r].pc = "loaded"  => Belongs(req[r].ask.id, req[r].user)
  /\ req[r].pc = "refresh" => Belongs(req[r].id, req[r].ask.bearer.user)

Owning == \A r \in Requests : Own(r)

LEMMA OthersOwn ==
  ASSUME TypeOK, Owning, Shape, NEW q \in Requests, req'[q] = req[q]
  PROVE  Own(q)'
<1>1. \A id, user : Belongs(id, user) => WillBelong(id, user)
  BY ShapeType DEF TypeOK, Belongs, WillBelong
<1>2. Own(q)
  BY DEF Owning
<1>3. QED BY <1>1, <1>2 DEF Own, Belongs, WillBelong

\* A step of r that answers, or goes on with a transaction, keeps what holds of works
LEMMA ReplyKeeps ==
  ASSUME TypeOK, Owning, Shape, NEW r \in Requests, NEW status \in Answers,
         NEW body, body \subseteq Shown, Reply(r, status, body)
  PROVE  req' \in [Requests -> RequestType] /\ Owning'
<1>0. req \in [Requests -> RequestType]
  BY DEF TypeOK
<1>1. /\ req' \in [Requests -> RequestType]
      /\ req'[r] = [pc |-> "end", status |-> status, body |-> body]
      /\ \A q \in Requests \ {r} : req'[q] = req[q]
  BY <1>0, ReplyType
<1>2. Own(r)'
  BY <1>1 DEF Own, StreamPCs
<1>3. QED BY <1>1, <1>2, OthersOwn DEF Owning

LEMMA UnhandledKeeps ==
  ASSUME TypeOK, Owning, Shape, NEW r \in Requests, NEW name,
         DatabaseError(name) \in DatabaseErrors, Unhandled(r, name)
  PROVE  req' \in [Requests -> RequestType] /\ Owning'
<1>1. PICK e \in DatabaseErrors : Reply(r, 500, {e})
  BY DEF Unhandled
<1>2. 500 \in Answers /\ {e} \subseteq Shown
  BY <1>1 DEF Answers, Shown
<1>3. QED BY <1>1, <1>2, ReplyKeeps

\* The exceptions the steps name
LEMMA Named ==
  \A name \in {"DBAPIError", "IntegrityError", "PoolTimeout", "StaleDataError",
               "InvalidRequestError"} : DatabaseError(name) \in DatabaseErrors
BY DEF DatabaseErrors

LEMMA StreamGotoKeeps ==
  ASSUME TypeOK, Owning, Shape, NEW r \in Requests,
         req[r].pc \in {"begin", "retrieve"} \cup StreamPCs,
         NEW pc \in {"retrieve"} \cup StreamPCs, StreamGoto(r, pc)
  PROVE  req' \in [Requests -> RequestType] /\ Owning'
<1>1. /\ req' \in [Requests -> RequestType]
      /\ req'[r].pc = pc /\ req'[r].ask = req[r].ask /\ req'[r].user = req[r].user
      /\ \A q \in Requests \ {r} : req'[q] = req[q]
  BY StreamGotoType DEF TypeOK
<1>2. Own(r)'
  BY <1>1 DEF Owning, Own, StreamPCs
<1>3. QED BY <1>1, <1>2, OthersOwn DEF Owning

\* What a request may remember when it goes on with a transaction
Befits(n, r) ==
  /\ n.pc \in {"auth", "begin", "loaded", "refresh"} => n.ask \in AskedBy[r]
  /\ n.pc \in {"begin", "loaded"} => n.user = n.ask.bearer.user
  /\ n.pc = "loaded"  => WillBelong(n.ask.id, n.user)
  /\ n.pc = "refresh" => WillBelong(n.id, n.ask.bearer.user)
  /\ n.pc \notin {"retrieve"} \cup StreamPCs

LEMMA GotoKeeps ==
  ASSUME TypeOK, Owning, Shape, NEW r \in Requests, NEW n \in RequestType, Goto(r, n),
         Befits(n, r)
  PROVE  req' \in [Requests -> RequestType] /\ Owning'
<1>1. /\ req' \in [Requests -> RequestType] /\ req'[r] = n
      /\ \A q \in Requests \ {r} : req'[q] = req[q]
  BY GotoType DEF TypeOK
<1>2. Own(r)'
  BY <1>1 DEF Own, Befits, Belongs, WillBelong
<1>3. QED BY <1>1, <1>2, OthersOwn DEF Owning

LEMMA Reading ==
  ASSUME TypeOK, Owning, NEW r \in Requests, req[r].pc = "begin"
  PROVE  /\ req[r].ask \in Ask /\ req[r].user \in Users /\ req[r].ask \in AskedBy[r]
         /\ req[r].user = req[r].ask.bearer.user /\ req[r].ask.title \in Titles
         /\ \A i \in IdsOf(req[r].user) :
               /\ i \in DOMAIN works /\ works[i] \in Row /\ works[i].user = req[r].user
               /\ Belongs(i, req[r].user)
<1>1. req[r] \in Open /\ works \in Seq(Row \cup {Deleted})
  BY Fields DEF TypeOK
<1>2. req[r].ask \in Ask /\ req[r].user \in Users /\ req[r].ask.title \in Titles
  BY <1>1 DEF Open, Ask
<1>3. req[r].ask \in AskedBy[r] /\ req[r].user = req[r].ask.bearer.user
  BY DEF Owning, Own
<1>4. QED BY <1>1, <1>2, <1>3 DEF IdsOf, Belongs

LEMMA Insertion ==
  ASSUME TypeOK, Owning, NEW r \in Requests, CreateCommit(r)
  PROVE  Shape /\ req' \in [Requests -> RequestType] /\ Owning'
<1> DEFINE row == [user |-> req[r].user, title |-> req[r].ask.title]
           n == [pc |-> "refresh", id |-> Len(works) + 1, ask |-> req[r].ask]
<1>1. /\ req[r].ask \in Ask /\ row \in Row /\ req[r].ask \in AskedBy[r]
      /\ row.user = req[r].ask.bearer.user
  BY Reading DEF CreateCommit, At, Row
<1>2. CASE Conflict(r)
  <2>1. Shape /\ 409 \in Answers /\ {} \subseteq Shown /\ Reply(r, 409, {})
    BY <1>2 DEF Conflict, Shape, Answers
  <2>2. QED BY <2>1, ReplyKeeps
<1>3. CASE Len(works) < MaxWorks /\ works' = Insert(row) /\ Goto(r, n)
  <2>1. works' = Append(works, row) /\ Shape
    BY <1>1, <1>3 DEF Insert, Shape
  <2>2. works \in Seq(Row \cup {Deleted}) /\ Len(works) \in Nat /\ MaxWorks \in Nat
    BY ApiAssumption DEF TypeOK
  <2>3. Len(works) + 1 \in 1 .. MaxWorks
    BY <1>3, <2>2
  <2>4. n \in RequestType /\ n.pc = "refresh" /\ n.ask = req[r].ask /\ n.id = Len(works) + 1
    BY <1>1, <2>3 DEF RequestType
  <2>5. WillBelong(Len(works) + 1, row.user)
    BY <1>1, <2>1, <2>2 DEF WillBelong
  <2>6. WillBelong(n.id, n.ask.bearer.user)
    BY <1>1, <2>4, <2>5
  <2>7. Befits(n, r)
    BY <1>1, <2>4, <2>6 DEF Befits, StreamPCs
  <2> HIDE DEF n, row
  <2>8. QED BY <1>3, <2>1, <2>4, <2>7, GotoKeeps
<1>4. CASE works' = Insert(row) /\ Len(works) < MaxWorks /\ Unheard(r)
  <2>1. Shape
    BY <1>1, <1>4 DEF Insert, Shape
  <2>2. QED BY <1>4, <2>1, Named, UnhandledKeeps DEF Unheard
<1>5. QED BY <1>2, <1>3, <1>4 DEF CreateCommit

LEMMA Loading ==
  ASSUME TypeOK, Owning, NEW r \in Requests, Load(r)
  PROVE  Shape /\ req' \in [Requests -> RequestType] /\ Owning'
<1> DEFINE n == [pc |-> "loaded", user |-> req[r].user, ask |-> req[r].ask,
                 was |-> works[req[r].ask.id].title]
<1>1. /\ req[r].ask \in Ask /\ req[r].user \in Users /\ req[r].ask \in AskedBy[r]
      /\ req[r].user = req[r].ask.bearer.user /\ works[req[r].ask.id] \in Row
      /\ Belongs(req[r].ask.id, req[r].user)
  BY Reading DEF Load
<1>2. /\ n \in RequestType /\ n.pc = "loaded" /\ n.ask = req[r].ask /\ n.user = req[r].user
  BY <1>1 DEF RequestType, Row
<1>3. Shape /\ Goto(r, n) /\ works' = works
  BY DEF Load, Shape
<1>4. WillBelong(n.ask.id, n.user)
  BY <1>1, <1>2, <1>3 DEF Belongs, WillBelong
<1>5. Befits(n, r)
  BY <1>1, <1>2, <1>4 DEF Befits, StreamPCs
<1> HIDE DEF n
<1>6. QED BY <1>2, <1>3, <1>5, GotoKeeps

LEMMA Renaming ==
  ASSUME TypeOK, Owning, NEW r \in Requests, RenameCommit(r)
  PROVE  Shape /\ req' \in [Requests -> RequestType] /\ Owning'
<1> DEFINE n == [pc |-> "refresh", id |-> req[r].ask.id, ask |-> req[r].ask]
<1>1. req[r] \in [pc : {"loaded"}, ask : Ask, user : Users, was : Titles]
  BY Fields DEF TypeOK, RenameCommit, At
<1>2. /\ req[r].ask \in AskedBy[r] /\ req[r].user = req[r].ask.bearer.user
      /\ Belongs(req[r].ask.id, req[r].user)
  BY <1>1 DEF Owning, Own
<1>3. req[r].ask \in Ask /\ req[r].ask.title \in Titles /\ req[r].ask.id \in 1 .. MaxWorks
  BY <1>1 DEF Ask
<1>4. Shape
  BY <1>3 DEF RenameCommit, Shape, Conflict, Exists
<1>5. CASE Goto(r, n)
  <2>1. n \in RequestType /\ n.pc = "refresh" /\ n.ask = req[r].ask /\ n.id = req[r].ask.id
    BY <1>3 DEF RequestType
  <2>2. \A id, user : Belongs(id, user) => WillBelong(id, user)
    BY <1>4, ShapeType DEF TypeOK, Belongs, WillBelong
  <2>3. WillBelong(n.id, n.ask.bearer.user)
    BY <1>2, <2>1, <2>2
  <2>4. Befits(n, r)
    BY <1>2, <2>1, <2>3 DEF Befits, StreamPCs
  <2> HIDE DEF n
  <2>5. QED BY <1>4, <1>5, <2>1, <2>4, GotoKeeps
<1>6. CASE \E status \in Answers : Reply(r, status, {})
  BY <1>4, <1>6, ReplyKeeps
<1>7. CASE \E name \in {"DBAPIError", "StaleDataError"} : Unhandled(r, name)
  BY <1>4, <1>7, Named, UnhandledKeeps
<1>8. QED BY <1>5, <1>6, <1>7 DEF RenameCommit, Conflict, Unheard, Answers

LEMMA WorksKeep ==
  ASSUME TypeOK, Owning, NEW r \in Requests, WorksStep(r)
  PROVE  Shape /\ req' \in [Requests -> RequestType] /\ Owning'
<1>1. CASE \E status \in Answers, body \in SUBSET Shown :
             Shape /\ Reply(r, status, body)
  BY <1>1, ReplyKeeps
<1>2. CASE NotFound(r)
  BY <1>1, <1>2 DEF NotFound, Answers, Shape
<1>3. CASE ListWorks(r)
  <2>1. {works[i] : i \in IdsOf(req[r].user)} \subseteq Row
    BY <1>3, Reading DEF ListWorks, At
  <2>2. QED BY <1>1, <1>3, <2>1 DEF ListWorks, Answers, Shape, Shown
<1>4. CASE GetWork(r)
  <2>1. {works[req[r].ask.id]} \subseteq Row
    BY <1>4, Reading DEF GetWork, At
  <2>2. QED BY <1>1, <1>4, <2>1 DEF GetWork, Answers, Shape, Shown
<1>5. CASE Refresh(r)
  <2>1. Exists(req[r].id) => {works[req[r].id]} \subseteq Row
    BY DEF TypeOK, Exists
  <2>2. Success(r) \in Answers /\ 500 \in Answers /\ Shape
    BY <1>5 DEF Success, Answers, Refresh, Shape
  <2>3. CASE Exists(req[r].id)
    <3> DEFINE body == {works[req[r].id]}
    <3>1. Reply(r, Success(r), body)
      BY <1>5, <2>3 DEF Refresh
    <3>2. body \subseteq Shown
      BY <2>1, <2>3 DEF Shown
    <3> HIDE DEF body
    <3>3. QED BY <2>2, <3>1, <3>2, ReplyKeeps
  <2>4. CASE ~Exists(req[r].id)
    <3>1. Unhandled(r, "InvalidRequestError")
      BY <1>5, <2>4 DEF Refresh
    <3>2. QED BY <2>2, <3>1, Named, UnhandledKeeps
  <2>5. QED BY <2>3, <2>4
<1>6. CASE DeleteCommit(r)
  <2>1. Shape
    BY <1>6 DEF DeleteCommit, Shape
  <2>2. 204 \in Answers /\ {} \subseteq Shown
    BY DEF Answers
  <2>3. CASE Reply(r, 204, {})
    BY <2>1, <2>2, <2>3, ReplyKeeps
  <2>4. CASE Unheard(r)
    BY <2>1, <2>4, Named, UnhandledKeeps DEF Unheard
  <2>5. QED BY <1>6, <2>3, <2>4 DEF DeleteCommit
<1>7. CASE StatementRaises(r)
  BY <1>7, Named, UnhandledKeeps DEF StatementRaises, Shape
<1>8. QED
  BY <1>2, <1>3, <1>4, <1>5, <1>6, <1>7, Insertion, Loading, Renaming DEF WorksStep

-----------------------------------------------------------------------------
(* The steps that leave the works alone *)

LEMMA Untouched ==
  ASSUME UNCHANGED works
  PROVE  Shape
BY DEF Shape

LEMMA Quiet ==
  ASSUME TypeOK, Owning, UNCHANGED <<works, req>>
  PROVE  req' \in [Requests -> RequestType] /\ Owning'
<1>1. \A q \in Requests : Own(q)'
  BY Untouched, OthersOwn
<1>2. QED BY <1>1 DEF TypeOK, Owning

LEMMA Verified ==
  ASSUME NEW token \in Token, NEW now
  PROVE  VerifyToken(token, now) \in Users \cup {NoUser}
BY DEF VerifyToken, Token

LEMMA ArriveKeeps ==
  ASSUME TypeOK, Owning, NEW r \in Requests, Arrive(r), UNCHANGED works
  PROVE  req' \in [Requests -> RequestType] /\ Owning'
<1>1. PICK ask \in AskedBy[r] : Goto(r, [pc |-> "auth", ask |-> ask])
  BY DEF Arrive
<1>2. PICK n : n = [pc |-> "auth", ask |-> ask]
  OBVIOUS
<1>3. ask \in Ask
  BY ApiAssumption
<1>4. n \in RequestType
  BY <1>2, <1>3 DEF RequestType
<1>5. Befits(n, r)
  BY <1>2 DEF Befits, StreamPCs
<1>6. QED BY <1>1, <1>2, <1>4, <1>5, Untouched, GotoKeeps

LEMMA AuthenticateKeeps ==
  ASSUME TypeOK, Owning, NEW r \in Requests, Authenticate(r), UNCHANGED works
  PROVE  req' \in [Requests -> RequestType] /\ Owning'
<1> DEFINE ask == req[r].ask
           user == VerifyToken(ask.bearer, Now)
<1>1. ask \in Ask /\ ask \in AskedBy[r] /\ ask.bearer \in Token
  BY Fields DEF TypeOK, Owning, Own, Authenticate, Ask
<1>2. user \in Users \cup {NoUser}
  BY <1>1, Verified
<1>3. CASE Goto(r, [pc |-> "lock"])
  <2>1. PICK n : n = [pc |-> "lock"]
    OBVIOUS
  <2>2. n \in RequestType /\ Befits(n, r)
    BY <2>1 DEF RequestType, Befits, StreamPCs
  <2>3. QED BY <1>3, <2>1, <2>2, Untouched, GotoKeeps
<1>4. CASE Reply(r, 401, {})
  <2>1. 401 \in Answers /\ {} \subseteq Shown
    BY DEF Answers
  <2>2. QED BY <1>4, <2>1, Untouched, ReplyKeeps
<1>5. CASE user # NoUser /\ Goto(r, [pc |-> "begin", ask |-> ask, user |-> user])
  <2>1. PICK n : n = [pc |-> "begin", ask |-> ask, user |-> user]
    OBVIOUS
  <2>2. user \in Users /\ user = ask.bearer.user
    BY <1>2, <1>5 DEF VerifyToken
  <2>3. n \in RequestType
    BY <1>1, <2>1, <2>2 DEF RequestType
  <2>4. Befits(n, r)
    BY <1>1, <2>1, <2>2 DEF Befits, StreamPCs
  <2>5. QED BY <1>5, <2>1, <2>3, <2>4, Untouched, GotoKeeps
<1>6. QED BY <1>3, <1>4, <1>5 DEF Authenticate

LEMMA PoolTimeoutKeeps ==
  ASSUME TypeOK, Owning, NEW r \in Requests, PoolTimeout(r), UNCHANGED works
  PROVE  req' \in [Requests -> RequestType] /\ Owning'
BY Untouched, Named, UnhandledKeeps DEF PoolTimeout

LEMMA RetrievalKeeps ==
  ASSUME TypeOK, Owning, NEW r \in Requests, ChatGet(r) \/ RetrieveStep(r), UNCHANGED works
  PROVE  req' \in [Requests -> RequestType] /\ Owning'
<1>1. CASE ChatGet(r)
  BY <1>1, Untouched, StreamGotoKeeps DEF ChatGet, At
<1>2. CASE RetrieveRaises(r)
  <2>1. PICK e \in Failures : Reply(r, MapEmbeddingError(e), {e})
    BY <1>2 DEF RetrieveRaises
  <2>2. PICK status, body : status = MapEmbeddingError(e) /\ body = {e}
    OBVIOUS
  <2>3. status \in Answers /\ body \subseteq Shown
    BY <2>2, Mapped DEF Answers, Shown
  <2>4. QED BY <2>1, <2>2, <2>3, Untouched, ReplyKeeps
<1>3. CASE StreamOpens(r)
  BY <1>3, Untouched, StreamGotoKeeps DEF StreamOpens, StreamPCs
<1>4. CASE AgentRaises(r)
  <2>1. 0 \in Answers /\ {} \subseteq Shown /\ Reply(r, 0, {})
    BY <1>4 DEF AgentRaises, Cut, Answers
  <2>2. QED BY <2>1, Untouched, ReplyKeeps
<1>5. QED BY <1>1, <1>2, <1>3, <1>4 DEF RetrieveStep

LEMMA HelloKeeps ==
  ASSUME TypeOK, Owning, NEW r \in Requests, HelloStep(r), UNCHANGED works
  PROVE  req' \in [Requests -> RequestType] /\ Owning'
<1>1. CASE Reply(r, 200, {})
  <2>1. 200 \in Answers /\ {} \subseteq Shown
    BY DEF Answers
  <2>2. QED BY <1>1, <2>1, Untouched, ReplyKeeps
<1>2. CASE Goto(r, [pc |-> "sleep"])
  <2>1. PICK n : n = [pc |-> "sleep"]
    OBVIOUS
  <2>2. n \in RequestType /\ Befits(n, r)
    BY <2>1 DEF RequestType, Befits, StreamPCs
  <2>3. QED BY <1>2, <2>1, <2>2, Untouched, GotoKeeps
<1>3. QED BY <1>1, <1>2 DEF HelloStep, HelloLock, HelloWake

LEMMA StreamKeeps ==
  ASSUME TypeOK, Owning, NEW r \in Requests, StreamStep(r), UNCHANGED works
  PROVE  req' \in [Requests -> RequestType] /\ Owning'
<1>1. CASE req[r].pc \in StreamPCs /\ \E pc \in StreamPCs : StreamGoto(r, pc)
  BY <1>1, Untouched, StreamGotoKeeps
<1>2. CASE \E status \in {0, 200} : Reply(r, status, {})
  <2>1. PICK status \in {0, 200} : Reply(r, status, {})
    BY <1>2
  <2>2. status \in Answers /\ {} \subseteq Shown
    BY DEF Answers
  <2>3. QED BY <2>1, <2>2, Untouched, ReplyKeeps
<1>3. CASE UNCHANGED req
  BY <1>3, Quiet
<1>4. CASE Chunk(r)
  BY <1>1, <1>4 DEF Chunk, StreamPCs
<1>5. CASE ModelEnds(r) \/ ModelRaises(r)
  BY <1>1, <1>5 DEF ModelEnds, ModelRaises, StreamPCs
<1>6. CASE StreamTimeout(r)
  BY <1>1, <1>2, <1>6 DEF StreamTimeout, StreamPCs, Cut
<1>7. CASE Sent(r)
  BY <1>1, <1>2, <1>7 DEF Sent, StreamPCs
<1>8. CASE ClientLeaves(r) \/ Cancelled(r)
  BY <1>2, <1>3, <1>8 DEF ClientLeaves, Cancelled, Cut
<1>9. QED BY <1>4, <1>5, <1>6, <1>7, <1>8 DEF StreamStep

-----------------------------------------------------------------------------
(* Where a step leads: the pcs and the statuses an action can give to its   *)
(* request, the others' being unchanged                                    *)

Moved(r, pcs, statuses) ==
  /\ \A q \in Requests \ {r} : req'[q] = req[q]
  /\ req'[r].pc \in pcs
  /\ req'[r].pc = "end" => req'[r].status \in statuses

LEMMA Goes ==
  ASSUME TypeOK, NEW r \in Requests, NEW n, Goto(r, n)
  PROVE  req'[r] = n /\ \A q \in Requests \ {r} : req'[q] = req[q]
BY GotoType DEF TypeOK

LEMMA Replies ==
  ASSUME TypeOK, NEW r \in Requests, NEW status, NEW body, Reply(r, status, body)
  PROVE  /\ req'[r].pc = "end" /\ req'[r].status = status /\ req'[r].body = body
         /\ Moved(r, {"end"}, {status})
BY Goes DEF Reply, Moved

LEMMA UnhandledReplies ==
  ASSUME TypeOK, NEW r \in Requests, NEW name, Unhandled(r, name)
  PROVE  req'[r].status = 500 /\ Blames(r, name) /\ Moved(r, {"end"}, {500})
<1>1. PICK status, body : status = 500 /\ body = {DatabaseError(name)} /\ Reply(r, status, body)
  BY DEF Unhandled
<1>2. /\ req'[r].status = status /\ req'[r].body = body /\ Moved(r, {"end"}, {status})
  BY <1>1, Replies
<1>3. QED BY <1>1, <1>2 DEF Blames

LEMMA RepliesEnd ==
  ASSUME TypeOK, NEW r \in Requests, \E status, body : Reply(r, status, body)
  PROVE  req'[r].pc = "end"
<1>1. PICK status, body : Reply(r, status, body)
  OBVIOUS
<1>2. QED BY <1>1, Replies

LEMMA StreamGoes ==
  ASSUME TypeOK, NEW r \in Requests, req[r].pc \in {"begin", "retrieve"} \cup StreamPCs,
         NEW pc \in {"retrieve"} \cup StreamPCs, StreamGoto(r, pc)
  PROVE  req'[r].pc = pc /\ Moved(r, {pc}, {})
BY StreamGotoType DEF TypeOK, Moved, StreamPCs

LEMMA MovedArrive ==
  ASSUME TypeOK, NEW r \in Requests, Arrive(r)
  PROVE  Moved(r, {"auth"}, {})
<1>1. PICK ask \in AskedBy[r] : Goto(r, [pc |-> "auth", ask |-> ask])
  BY DEF Arrive
<1>2. QED BY <1>1, Goes DEF Moved

LEMMA MovedAuthenticate ==
  ASSUME TypeOK, NEW r \in Requests, Authenticate(r)
  PROVE  Moved(r, {"lock", "end", "begin"}, {401})
<1>1. CASE Goto(r, [pc |-> "lock"])
  BY <1>1, Goes DEF Moved
<1>2. CASE Reply(r, 401, {})
  BY <1>2, Replies DEF Moved
<1>3. CASE \E ask, user : Goto(r, [pc |-> "begin", ask |-> ask, user |-> user])
  <2>1. PICK ask, user : Goto(r, [pc |-> "begin", ask |-> ask, user |-> user])
    BY <1>3
  <2>2. QED BY <2>1, Goes DEF Moved
<1>4. QED BY <1>1, <1>2, <1>3 DEF Authenticate

LEMMA MovedPoolTimeout ==
  ASSUME TypeOK, NEW r \in Requests, PoolTimeout(r)
  PROVE  Moved(r, {"end"}, {500})
BY UnhandledReplies DEF PoolTimeout

\* Only what is not an IntegrityError ends in a 500
LEMMA MovedWorks ==
  ASSUME TypeOK, NEW r \in Requests, WorksStep(r)
  PROVE  \/ Moved(r, {"end", "loaded", "refresh"}, {200, 201, 204, 404, 409})
         \/ Moved(r, {"end"}, {500}) /\ Cause(r)
<1>1. CASE \E status \in {200, 201, 204, 404, 409} : \E body : Reply(r, status, body)
  <2>1. PICK status \in {200, 201, 204, 404, 409} : \E body : Reply(r, status, body)
    BY <1>1
  <2>2. QED BY <2>1, Replies DEF Moved
<1>2. CASE \E n : n.pc \in {"loaded", "refresh"} /\ Goto(r, n)
  BY <1>2, Goes DEF Moved
<1>3. ASSUME NEW name, Unhandled(r, name) PROVE Moved(r, {"end"}, {500}) /\ Blames(r, name)
  BY <1>3, UnhandledReplies
<1>4. CASE NotFound(r) \/ ListWorks(r) \/ GetWork(r) \/ DeleteCommit(r) \/ StatementRaises(r)
  <2>1. CASE Unhandled(r, "DBAPIError")
    BY <1>3, <2>1 DEF Cause
  <2>2. QED
    BY <1>1, <1>4, <2>1 DEF NotFound, ListWorks, GetWork, DeleteCommit, StatementRaises, Unheard
<1>5. CASE Load(r)
  <2>1. PICK n : n.pc = "loaded" /\ Goto(r, n)
    BY <1>5 DEF Load
  <2>2. QED BY <1>2, <2>1
<1>6. CASE CreateCommit(r)
  <2>1. CASE Goto(r, [pc |-> "refresh", id |-> Len(works) + 1, ask |-> req[r].ask])
    <3>1. PICK n : n.pc = "refresh" /\ Goto(r, n)
      BY <2>1
    <3>2. QED BY <1>2, <3>1
  <2>2. CASE Unheard(r)
    BY <1>3, <2>2 DEF Unheard, Cause
  <2>3. QED BY <1>1, <1>6, <2>1, <2>2 DEF CreateCommit, Conflict
<1>7. CASE RenameCommit(r)
  <2>1. CASE Goto(r, [pc |-> "refresh", id |-> req[r].ask.id, ask |-> req[r].ask])
    <3>1. PICK n : n.pc = "refresh" /\ Goto(r, n)
      BY <2>1
    <3>2. QED BY <1>2, <3>1
  <2>2. CASE Unheard(r)
    BY <1>3, <2>2 DEF Unheard, Cause
  <2>3. CASE Unhandled(r, "StaleDataError") /\ ~Exists(req[r].ask.id)
    BY <1>3, <1>7, <2>3 DEF RenameCommit, At, Cause
  <2>4. QED BY <1>1, <1>7, <2>1, <2>2, <2>3 DEF RenameCommit, Conflict
<1>8. CASE Refresh(r)
  <2>1. Success(r) \in {200, 201}
    BY DEF Success
  <2>2. CASE Exists(req[r].id)
    BY <1>1, <1>8, <2>1, <2>2 DEF Refresh
  <2>3. CASE ~Exists(req[r].id)
    BY <1>3, <1>8, <2>3 DEF Refresh, Cause
  <2>4. QED BY <2>2, <2>3
<1>9. QED BY <1>4, <1>5, <1>6, <1>7, <1>8 DEF WorksStep

LEMMA MovedRetrieval ==
  ASSUME TypeOK, NEW r \in Requests, ChatGet(r) \/ RetrieveStep(r)
  PROVE  Moved(r, {"retrieve", "await", "end"}, {0, 400, 429, 500, 502, 503, 504})
<1>1. CASE ChatGet(r)
  BY <1>1, StreamGoes DEF ChatGet, At, Moved
<1>2. CASE RetrieveRaises(r)
  <2>1. PICK e \in Failures : Reply(r, MapEmbeddingError(e), {e})
    BY <1>2 DEF RetrieveRaises
  <2>2. QED BY <2>1, Replies, Mapped DEF Moved
<1>3. CASE StreamOpens(r)
  BY <1>3, StreamGoes DEF StreamOpens, StreamPCs, Moved
<1>4. CASE AgentRaises(r)
  BY <1>4, Replies DEF AgentRaises, Cut, Moved
<1>5. QED BY <1>1, <1>2, <1>3, <1>4 DEF RetrieveStep

LEMMA MovedHello ==
  ASSUME TypeOK, NEW r \in Requests, HelloStep(r)
  PROVE  Moved(r, {"sleep", "end"}, {200})
BY Goes, Replies DEF HelloStep, HelloLock, HelloWake, Moved

LEMMA MovedStream ==
  ASSUME TypeOK, NEW r \in Requests, StreamStep(r)
  PROVE  req[r].pc \in StreamPCs /\ Moved(r, StreamPCs \cup {"end"}, {0, 200})
<1>1. req[r].pc \in StreamPCs
  BY DEF StreamStep, Chunk, ModelEnds, ModelRaises, StreamTimeout, Sent, ClientLeaves,
         Cancelled, StreamPCs
<1>2. CASE \E pc \in StreamPCs : StreamGoto(r, pc)
  <2>1. PICK pc \in StreamPCs : StreamGoto(r, pc)
    BY <1>2
  <2>2. QED BY <1>1, <2>1, StreamGoes DEF Moved
<1>3. CASE Reply(r, 0, {}) \/ Reply(r, 200, {})
  BY <1>1, <1>3, Replies DEF Moved
<1>4. CASE UNCHANGED req
  BY <1>1, <1>4 DEF Moved, StreamPCs
<1>5. QED
  BY <1>2, <1>3, <1>4 DEF StreamStep, Chunk, ModelEnds, ModelRaises, StreamTimeout, Sent,
     ClientLeaves, Cancelled, Cut, StreamPCs

-----------------------------------------------------------------------------
(* The events of a stream *)

Events == {"data", "error", "done"}
StreamRecord == [said : Seq(Events), finished : BOOLEAN, gone : BOOLEAN]

LEMMA SayType ==
  ASSUME stream \in [Requests -> StreamRecord], NEW r \in Requests,
         NEW event \in Events, Say(r, event)
  PROVE  /\ stream' \in [Requests -> StreamRecord]
         /\ stream'[r].finished = stream[r].finished /\ stream'[r].gone = stream[r].gone
         /\ \/ /\ stream'[r].said = stream[r].said
               /\ stream[r].gone \/ (stream[r].said # <<>> /\
                                     stream[r].said[Len(stream[r].said)] = event)
            \/ /\ stream'[r].said = Append(stream[r].said, event)
               /\ ~stream[r].gone
               /\ ~(stream[r].said # <<>> /\
                    stream[r].said[Len(stream[r].said)] = event)
         /\ \A q \in Requests \ {r} : stream'[q] = stream[q]
<1> DEFINE longer == [stream[r] EXCEPT !.said = Append(stream[r].said, event)]
<1>1. stream[r] \in StreamRecord
  OBVIOUS
<1>2. CASE stream' = stream
  BY <1>2 DEF Say
<1>3. CASE stream' = [stream EXCEPT ![r] = longer]
  <2>0. stream[r].said \in Seq(Events)
    BY <1>1 DEF StreamRecord
  <2>. PICK more : more = Append(stream[r].said, event)
    OBVIOUS
  <2>1. /\ longer \in StreamRecord /\ longer.said = Append(stream[r].said, event)
        /\ longer.finished = stream[r].finished /\ longer.gone = stream[r].gone
    <3>1. more \in Seq(Events)
      BY <2>0
    <3>2. longer = [stream[r] EXCEPT !.said = more]
      OBVIOUS
    <3>3. /\ longer \in StreamRecord /\ longer.said = more
          /\ longer.finished = stream[r].finished /\ longer.gone = stream[r].gone
      BY <1>1, <3>1, <3>2 DEF StreamRecord
    <3>4. QED BY <3>3
  <2>2. CASE stream[r].gone \/ (stream[r].said # <<>>
                                /\ stream[r].said[Len(stream[r].said)] = event)
    BY <1>2, <2>2 DEF Say
  <2> HIDE DEF longer
  <2>3. QED BY <1>3, <2>1, <2>2
<1>4. QED BY <1>2, <1>3 DEF Say

LEMMA StreamMoves ==
  ASSUME stream \in [Requests -> StreamRecord], NEW r \in Requests, StreamStep(r)
  PROVE  /\ stream' \in [Requests -> StreamRecord]
         /\ \A q \in Requests \ {r} : stream'[q] = stream[q]
         /\ stream[r].finished => stream'[r].finished
         /\ stream[r].gone => stream'[r].gone
<1>1. CASE UNCHANGED stream
  BY <1>1
<1>2. CASE \E event \in Events : Say(r, event)
  BY <1>2, SayType
<1>3. CASE stream' = [stream EXCEPT ![r].finished = TRUE]
  BY <1>3 DEF StreamRecord
<1>4. CASE stream' = [stream EXCEPT ![r].gone = TRUE]
  BY <1>4 DEF StreamRecord
<1>5. CASE Sent(r)
  BY <1>2, <1>5 DEF Sent, Events
<1>6. QED
  BY <1>1, <1>3, <1>4, <1>5 DEF StreamStep, Chunk, ModelEnds, ModelRaises, StreamTimeout,
     ClientLeaves, Cancelled

-----------------------------------------------------------------------------
(* Type correctness *)

Inv == TypeOK /\ Owning

LEMMA InvInit ==
  ASSUME Init
  PROVE  Inv
<1>1. req \in [Requests -> RequestType]
  BY DEF Init, RequestType
<1>2. Owning
  BY DEF Init, Owning, Own, StreamPCs
<1>3. works \in Seq(Row \cup {Deleted}) /\ Len(works) <= MaxWorks
  BY NowAssumption DEF Init
<1>4. stream \in [Requests -> StreamRecord]
  BY DEF Init, Unsent, StreamRecord
<1>5. QED BY <1>1, <1>2, <1>3, <1>4 DEF Init, Inv, TypeOK, StreamRecord, Events

LEMMA StepShape ==
  ASSUME Inv, [Next]_vars
  PROVE  Shape /\ req' \in [Requests -> RequestType] /\ Owning'
<1>1. TypeOK /\ Owning
  BY DEF Inv
<1>2. CASE UNCHANGED vars
  BY <1>1, <1>2, Untouched, Quiet DEF vars
<1>3. ASSUME NEW r \in Requests, Arrive(r), UNCHANGED works
      PROVE  Shape /\ req' \in [Requests -> RequestType] /\ Owning'
  BY <1>1, <1>3, Untouched, ArriveKeeps
<1>4. ASSUME NEW r \in Requests, Serve(r)
      PROVE  Shape /\ req' \in [Requests -> RequestType] /\ Owning'
  <2>1. CASE Authenticate(r) /\ UNCHANGED works
    BY <1>1, <2>1, Untouched, AuthenticateKeeps
  <2>2. CASE PoolTimeout(r) /\ UNCHANGED works
    BY <1>1, <2>2, Untouched, PoolTimeoutKeeps
  <2>3. CASE WorksStep(r)
    BY <1>1, <2>3, WorksKeep
  <2>4. CASE (ChatGet(r) \/ RetrieveStep(r)) /\ UNCHANGED works
    BY <1>1, <2>4, Untouched, RetrievalKeeps
  <2>5. CASE HelloStep(r) /\ UNCHANGED works
    BY <1>1, <2>5, Untouched, HelloKeeps
  <2>6. QED BY <1>4, <2>1, <2>2, <2>3, <2>4, <2>5 DEF Serve
<1>5. ASSUME NEW r \in Requests, StreamStep(r), UNCHANGED works
      PROVE  Shape /\ req' \in [Requests -> RequestType] /\ Owning'
  BY <1>1, <1>5, Untouched, StreamKeeps
<1>6. QED BY <1>2, <1>3, <1>4, <1>5 DEF Next

LEMMA StepStream ==
  ASSUME Inv, [Next]_vars
  PROVE  stream' \in [Requests -> StreamRecord] /\ hello' \in BOOLEAN
<1>1. stream \in [Requests -> StreamRecord] /\ hello \in BOOLEAN
  BY DEF Inv, TypeOK, StreamRecord, Events
<1>2. CASE UNCHANGED vars
  BY <1>1, <1>2 DEF vars
<1>3. ASSUME NEW r \in Requests, Serve(r)
      PROVE  UNCHANGED stream /\ hello' \in BOOLEAN
  BY <1>1, <1>3 DEF Serve, ChatGet, RetrieveStep, RetrieveRaises, StreamOpens, AgentRaises,
     HelloStep, HelloLock, HelloWake
<1>4. ASSUME NEW r \in Requests, StreamStep(r)
      PROVE  stream' \in [Requests -> StreamRecord]
  BY <1>1, <1>4, StreamMoves
<1>5. QED BY <1>1, <1>2, <1>3, <1>4 DEF Next

LEMMA InvNext ==
  ASSUME Inv, [Next]_vars
  PROVE  Inv'
<1>1. works' \in Seq(Row \cup {Deleted}) /\ Len(works') <= MaxWorks
  BY StepShape, ShapeType DEF Inv, TypeOK
<1>2. QED BY <1>1, StepShape, StepStream DEF Inv, TypeOK, StreamRecord, Events

LEMMA InvHolds == Spec => []Inv
<1>1. QED BY InvInit, InvNext, PTL DEF Spec

\* The table, the requests, what they have read and the streams have their types
\* whatever the requests ask and however their steps interleave: no answer has a status
\* that no handler gives.
THEOREM TypeCorrect == Spec => []TypeOK
<1>1. Inv => TypeOK
  BY DEF Inv
<1>2. QED BY <1>1, InvHolds, PTL

-----------------------------------------------------------------------------
(* Action properties.  Every one is a fact of [Next]_vars under Inv.        *)

LEMMA Unmoved ==
  ASSUME UNCHANGED vars, NEW r
  PROVE  req'[r] = req[r] /\ works' = works
BY DEF vars

\* Only the request that takes the step ends, and only with a status it may give
LEMMA EndsHere ==
  ASSUME NEW r \in Requests, NEW q \in Requests, NEW pcs, NEW statuses,
         Moved(r, pcs, statuses), NEW status, Ends(q, status)
  PROVE  q = r /\ status \in statuses
BY DEF Moved, Ends

LEMMA ServerErrorStep ==
  ASSUME Inv, [Next]_vars, NEW q \in Requests, Ends(q, 500)
  PROVE  Cause(q)
<1>1. TypeOK
  BY DEF Inv
<1>2. CASE UNCHANGED vars
  BY <1>2, Unmoved DEF Ends
<1>3. ASSUME NEW r \in Requests, Arrive(r) \/ Authenticate(r) \/ HelloStep(r) \/ StreamStep(r)
      PROVE  FALSE
  BY <1>1, <1>3, MovedArrive, MovedAuthenticate, MovedHello, MovedStream, EndsHere
<1>4. ASSUME NEW r \in Requests, PoolTimeout(r)
      PROVE  Cause(q)
  <2>1. q = r
    BY <1>1, <1>4, MovedPoolTimeout, EndsHere
  <2>2. Blames(r, "PoolTimeout")
    BY <1>1, <1>4, UnhandledReplies DEF PoolTimeout
  <2>3. QED BY <1>4, <2>1, <2>2 DEF PoolTimeout, Cause
<1>5. ASSUME NEW r \in Requests, WorksStep(r)
      PROVE  Cause(q)
  BY <1>1, <1>5, MovedWorks, EndsHere
<1>6. ASSUME NEW r \in Requests, ChatGet(r) \/ RetrieveStep(r)
      PROVE  req[q].pc = "retrieve"
  <2>1. q = r
    BY <1>1, <1>6, MovedRetrieval, EndsHere
  <2>2. CASE ChatGet(r)
    <3>1. req[r].pc = "begin" /\ StreamGoto(r, "retrieve")
      BY <2>2 DEF ChatGet, At
    <3>2. req'[r].pc = "retrieve"
      BY <1>1, <3>1, StreamGoes
    <3>3. QED BY <2>1, <3>2 DEF Ends
  <2>3. CASE RetrieveStep(r)
    BY <2>1, <2>3 DEF RetrieveStep, RetrieveRaises, StreamOpens, AgentRaises
  <2>4. QED BY <1>6, <2>2, <2>3
<1>7. QED BY <1>2, <1>3, <1>4, <1>5, <1>6 DEF Next, Serve, Cause

\* Whatever the mix of requests, a 500 is the retrieval's, the database's, the pool's or
\* that of a deletion that overtook the request: two renames, or a rename and a creation,
\* that race for a title never end in one.
THEOREM ServerErrors == Spec => ServerErrorHasCause
<1>1. Inv /\ [Next]_vars =>
        [\A r \in Requests : Ends(r, 500) => Cause(r)]_vars
  BY ServerErrorStep
<1>2. QED BY <1>1, InvHolds, PTL DEF Spec, ServerErrorHasCause

LEMMA AuthenticTokens ==
  ASSUME Inv, NEW r \in Requests, req[r].pc = "auth"
  PROVE  LET bearer == req[r].ask.bearer
             user == VerifyToken(bearer, Now)
         IN  /\ user = NoUser => ~\E u \in Users : Genuine(bearer, u, Now)
             /\ user # NoUser => Genuine(bearer, user, Now)
<1> DEFINE bearer == req[r].ask.bearer
           user == VerifyToken(bearer, Now)
<1>1. req[r].ask \in AskedBy[r] /\ bearer \in Token /\ Now \in Nat
  BY Fields, NowAssumption DEF Inv, TypeOK, Owning, Own, Ask
<1>2. NoUser \notin Users /\ AccessTTL \in Nat
  BY TokenAssumption
<1>3. ASSUME NEW u \in Users, Genuine(bearer, u, Now)
      PROVE  user # NoUser
  <2>1. PICK t \in 0 .. Now : bearer = CreateToken(u, t) /\ Now - t < AccessTTL
    BY <1>3 DEF Genuine
  <2>2. bearer.signed /\ bearer.user = u /\ bearer.exp = t + AccessTTL
    BY <2>1 DEF CreateToken
  <2>3. Now < bearer.exp
    BY <1>1, <1>2, <2>1, <2>2
  <2>4. QED BY <1>2, <2>2, <2>3 DEF VerifyToken
<1>4. ASSUME user # NoUser
      PROVE  Genuine(bearer, user, Now)
  <2>1. bearer.signed /\ Now < bearer.exp /\ user = bearer.user
    BY <1>4 DEF VerifyToken
  <2>2. PICK t \in 0 .. Now : bearer = CreateToken(bearer.user, t)
    BY <1>1, <2>1, NowAssumption
  <2>3. bearer.exp = t + AccessTTL
    BY <2>2 DEF CreateToken
  <2>4. Now - t < AccessTTL
    BY <1>1, <1>2, <2>1, <2>3
  <2>5. QED BY <2>1, <2>2, <2>4 DEF Genuine
<1>5. QED BY <1>3, <1>4

LEMMA OwnTokenStep ==
  ASSUME Inv, [Next]_vars, NEW q \in Requests
  PROVE  /\ Ends(q, 401) => ~\E u \in Users : Genuine(req[q].ask.bearer, u, Now)
         /\ req[q].pc = "auth" /\ req'[q].pc = "begin"
              => Genuine(req[q].ask.bearer, req'[q].user, Now)
<1>1. TypeOK
  BY DEF Inv
<1>2. CASE \E r \in Requests : Authenticate(r)
  <2>1. PICK r \in Requests : Authenticate(r)
    BY <1>2
  <2>2. CASE q # r
    BY <1>1, <2>1, <2>2, MovedAuthenticate DEF Moved, Ends
  <2>3. CASE q = r
    <3>1. Ends(q, 401) => VerifyToken(req[q].ask.bearer, Now) = NoUser
      BY <1>1, <2>1, <2>3, Goes DEF Authenticate, Ends
    <3>2. req'[q].pc = "begin" => /\ VerifyToken(req[q].ask.bearer, Now) # NoUser
                                  /\ req'[q].user = VerifyToken(req[q].ask.bearer, Now)
      <4> DEFINE user == VerifyToken(req[q].ask.bearer, Now)
      <4>1. CASE user # NoUser /\ Goto(r, [pc |-> "begin", ask |-> req[r].ask, user |-> user])
        BY <1>1, <2>3, <4>1, Goes
      <4>2. CASE Goto(r, [pc |-> "lock"]) \/ Reply(r, 401, {})
        BY <1>1, <2>3, <4>2, Goes DEF Reply
      <4>3. QED BY <2>1, <2>3, <4>1, <4>2 DEF Authenticate
    <3>3. req[q].pc = "auth"
      BY <2>1, <2>3 DEF Authenticate
    <3>4. QED BY <3>1, <3>2, <3>3, AuthenticTokens
  <2>4. QED BY <2>2, <2>3
<1>3. CASE UNCHANGED vars
  BY <1>3, Unmoved DEF Ends
<1>4. ASSUME NEW r \in Requests,
             Arrive(r) \/ PoolTimeout(r) \/ WorksStep(r) \/ ChatGet(r) \/ RetrieveStep(r)
               \/ HelloStep(r) \/ StreamStep(r)
      PROVE  ~Ends(q, 401) /\ (req[q].pc = "auth" => req'[q].pc # "begin")
  <2>1. PICK pcs, statuses : Moved(r, pcs, statuses) /\ "begin" \notin pcs /\ 401 \notin statuses
    BY <1>1, <1>4, MovedArrive, MovedPoolTimeout, MovedWorks, MovedRetrieval, MovedHello,
       MovedStream DEF StreamPCs
  <2>2. QED BY <2>1, EndsHere DEF Moved
<1>5. QED BY <1>2, <1>3, <1>4 DEF Next, Serve

\* Whoever acts holds a token this server gave that user less than AccessTTL ago, and
\* whoever is answered 401 holds none: no retrieval, whatever it raises, ends in a 401.
THEOREM OwnToken == Spec => OwnTokenDecides
<1>1. Inv /\ [Next]_vars =>
        [\A r \in Requests :
           LET bearer == req[r].ask.bearer IN
           /\ Ends(r, 401) => ~\E u \in Users : Genuine(bearer, u, Now)
           /\ (req[r].pc = "auth" /\ req'[r].pc = "begin")
                 => Genuine(bearer, req'[r].user, Now)]_vars
  BY OwnTokenStep
<1>2. QED BY <1>1, InvHolds, PTL DEF Spec, OwnTokenDecides

LEMMA OwnersStep ==
  ASSUME Inv, [Next]_vars
  PROVE  /\ DOMAIN works \subseteq DOMAIN works'
         /\ \A i \in DOMAIN works : works'[i] # works[i] =>
              \E r \in Requests :
                 /\ req[r].pc = "loaded" /\ req[r].ask.id = i
                 /\ Exists(i) /\ works[i].user = req[r].user
                 /\ works'[i] \in {Deleted, [user |-> req[r].user, title |-> req[r].ask.title]}
<1>1. TypeOK /\ Owning /\ works \in Seq(Row \cup {Deleted})
  BY DEF Inv, TypeOK
<1>2. DOMAIN works \subseteq DOMAIN works'
  BY StepShape, ShapeType DEF Inv, TypeOK
<1>3. SUFFICES ASSUME NEW i \in DOMAIN works, works'[i] # works[i]
               PROVE  \E r \in Requests :
                 /\ req[r].pc = "loaded" /\ req[r].ask.id = i
                 /\ Exists(i) /\ works[i].user = req[r].user
                 /\ works'[i] \in {Deleted, [user |-> req[r].user, title |-> req[r].ask.title]}
  BY <1>2
<1>4. PICK r \in Requests : CreateCommit(r) \/ RenameCommit(r) \/ DeleteCommit(r)
  <2>1. works' # works
    BY <1>3
  <2>2. PICK r \in Requests : WorksStep(r)
    BY <2>1 DEF Next, Serve, vars
  <2>3. QED
    BY <2>1, <2>2 DEF WorksStep, NotFound, ListWorks, GetWork, Load, Refresh, StatementRaises
<1>5. CASE CreateCommit(r)
  <2>1. PICK row : works' = Append(works, row)
    BY <1>3, <1>5 DEF CreateCommit, Conflict, Insert
  <2>2. works'[i] = works[i]
    BY <1>1, <2>1
  <2>3. QED BY <1>3, <2>2
<1>6. ASSUME req[r].pc = "loaded"
      PROVE  Belongs(req[r].ask.id, req[r].user)
  BY <1>1, <1>6 DEF Owning, Own
<1>7. CASE RenameCommit(r)
  <2> DEFINE id == req[r].ask.id
  <2>1. /\ req[r].pc = "loaded" /\ Exists(id)
        /\ works' = [works EXCEPT ![id].title = req[r].ask.title]
    BY <1>3, <1>7 DEF RenameCommit, Conflict, At
  <2>2. works[id] \in Row /\ works[id].user = req[r].user
    BY <1>1, <1>6, <2>1 DEF Exists, Belongs
  <2>3. id \in DOMAIN works /\ works' = [works EXCEPT ![id] = [works[id] EXCEPT !.title = req[r].ask.title]]
    BY <2>1 DEF Exists
  <2>4. i = id /\ works'[i] = [works[id] EXCEPT !.title = req[r].ask.title]
    BY <1>1, <1>3, <2>3
  <2>5. works'[i] = [user |-> req[r].user, title |-> req[r].ask.title]
    BY <2>2, <2>4 DEF Row
  <2>6. QED BY <2>1, <2>2, <2>4, <2>5
<1>8. CASE DeleteCommit(r)
  <2> DEFINE id == req[r].ask.id
  <2>1. req[r].pc = "loaded" /\ works' = [works EXCEPT ![id] = Deleted]
    BY <1>8 DEF DeleteCommit, At
  <2>2. i = id /\ works'[i] = Deleted /\ works[i] # Deleted
    BY <1>1, <1>3, <2>1
  <2>3. Exists(i) /\ works[i].user = req[r].user
    BY <1>6, <2>1, <2>2 DEF Exists, Belongs
  <2>4. QED BY <2>1, <2>2, <2>3
<1>9. QED BY <1>4, <1>5, <1>7, <1>8

\* No row is ever changed but by its owner's rename or deletion of that very work,
\* whatever was deleted or inserted after the request had read it; ids are never reused.
THEOREM OnlyOwners == Spec => OnlyOwnersChangeWorks
<1>1. Inv /\ [Next]_vars =>
        [/\ DOMAIN works \subseteq DOMAIN works'
         /\ \A i \in DOMAIN works : works'[i] # works[i] =>
              \E r \in Requests :
                 /\ req[r].pc = "loaded" /\ req[r].ask.id = i
                 /\ Exists(i) /\ works[i].user = req[r].user
                 /\ works'[i] \in {Deleted, [user |-> req[r].user, title |-> req[r].ask.title]}
        ]_vars
  BY OwnersStep
<1>2. QED BY <1>1, InvHolds, PTL DEF Spec, OnlyOwnersChangeWorks

LEMMA AnswerStep ==
  ASSUME Inv, [Next]_vars, NEW q \in Requests, Ends(q, 200) \/ Ends(q, 201),
         NEW row \in req'[q].body
  PROVE  \E i \in DOMAIN works : works[i] = row /\ row.user = req[q].ask.bearer.user
<1>1. TypeOK /\ Owning
  BY DEF Inv
<1>2. CASE UNCHANGED vars
  BY <1>2, Unmoved DEF Ends
<1>3. ASSUME NEW r \in Requests,
             Arrive(r) \/ Authenticate(r) \/ PoolTimeout(r) \/ ChatGet(r) \/ RetrieveStep(r)
      PROVE  FALSE
  <2>1. PICK pcs, statuses : Moved(r, pcs, statuses) /\ 200 \notin statuses /\ 201 \notin statuses
    BY <1>1, <1>3, MovedArrive, MovedAuthenticate, MovedPoolTimeout, MovedRetrieval
  <2>2. QED BY <2>1, EndsHere
<1>4. ASSUME NEW r \in Requests, HelloStep(r) \/ StreamStep(r)
      PROVE  FALSE
  <2>1. q = r
    BY <1>1, <1>4, MovedHello, MovedStream, EndsHere
  <2>2. CASE \E status, body : Reply(r, status, body) /\ body = {}
    <3>1. PICK status, body : Reply(r, status, body) /\ body = {}
      BY <2>2
    <3>2. req'[r].body = {}
      BY <1>1, <3>1, Replies
    <3>3. QED BY <2>1, <3>2
  <2>3. CASE HelloStep(r)
    <3>1. CASE \E n : Goto(r, n) /\ n.pc = "sleep"
      BY <1>1, <2>1, <3>1, Goes DEF Ends
    <3>2. QED BY <2>2, <2>3, <3>1 DEF HelloStep, HelloLock, HelloWake
  <2>4. CASE UNCHANGED req
    BY <2>1, <2>4 DEF Ends
  <2>5. CASE req[r].pc \in StreamPCs /\ \E pc \in StreamPCs : StreamGoto(r, pc)
    BY <1>1, <2>1, <2>5, StreamGoes DEF Ends, StreamPCs
  <2>6. CASE StreamStep(r)
    BY <2>2, <2>4, <2>5, <2>6 DEF StreamStep, Chunk, ModelEnds, ModelRaises, StreamTimeout,
       Sent, ClientLeaves, Cancelled, Cut, StreamPCs
  <2>7. QED BY <1>4, <2>3, <2>6
<1>5. ASSUME NEW r \in Requests, WorksStep(r)
      PROVE  \E i \in DOMAIN works : works[i] = row /\ row.user = req[q].ask.bearer.user
  <2>1. q = r
    BY <1>1, <1>5, MovedWorks, EndsHere
  <2>2. CASE \E status, body : Reply(r, status, body) /\ body = {}
    <3>1. PICK status, body : Reply(r, status, body) /\ body = {}
      BY <2>2
    <3>2. req'[r].body = {}
      BY <1>1, <3>1, Replies
    <3>3. QED BY <2>1, <3>2
  <2>3. CASE \E n : Goto(r, n) /\ n.pc \in {"loaded", "refresh"}
    <3>1. PICK n : Goto(r, n) /\ n.pc \in {"loaded", "refresh"}
      BY <2>3
    <3>2. req'[r].pc \in {"loaded", "refresh"}
      BY <1>1, <3>1, Goes
    <3>3. QED BY <2>1, <3>2 DEF Ends
  <2>4. CASE ListWorks(r)
    <3> DEFINE body == {works[i] : i \in IdsOf(req[r].user)}
    <3>1. req[r].pc = "begin" /\ Reply(r, 200, body)
      BY <2>4 DEF ListWorks, At
    <3>2. \A shown \in body : \E i \in IdsOf(req[r].user) : works[i] = shown
      OBVIOUS
    <3> HIDE DEF body
    <3>3. row \in body
      <4>1. req'[r].body = body
        BY <1>1, <3>1, Replies
      <4>2. QED BY <2>1, <4>1
    <3>4. PICK i \in IdsOf(req[r].user) : works[i] = row
      BY <3>2, <3>3
    <3>5. i \in DOMAIN works /\ row.user = req[r].ask.bearer.user
      BY <1>1, <3>1, <3>4, Reading
    <3>6. QED BY <2>1, <3>4, <3>5
  <2>5. CASE GetWork(r)
    <3> DEFINE body == {works[req[r].ask.id]}
    <3>1. req[r].pc = "begin" /\ req[r].ask.id \in IdsOf(req[r].user) /\ Reply(r, 200, body)
      BY <2>5 DEF GetWork, At
    <3>2. \A shown \in body : works[req[r].ask.id] = shown
      OBVIOUS
    <3> HIDE DEF body
    <3>3. row \in body
      <4>1. req'[r].body = body
        BY <1>1, <3>1, Replies
      <4>2. QED BY <2>1, <4>1
    <3>4. works[req[r].ask.id] = row
      BY <3>2, <3>3
    <3>5. req[r].ask.id \in DOMAIN works /\ row.user = req[r].ask.bearer.user
      BY <1>1, <3>1, <3>4, Reading
    <3>6. QED BY <2>1, <3>4, <3>5
  <2>6. CASE Refresh(r) /\ Exists(req[r].id)
    <3>1. req[r].pc = "refresh" /\ req'[r].body = {works[req[r].id]}
      BY <1>1, <2>6, Replies DEF Refresh
    <3>2. works[req[r].id] = row /\ Belongs(req[r].id, req[r].ask.bearer.user)
      BY <1>1, <2>1, <3>1 DEF Owning, Own
    <3>3. QED BY <2>1, <2>6, <3>2 DEF Belongs, Exists
  <2>7. CASE Load(r)
    BY <2>3, <2>7 DEF Load
  <2>8. CASE \E name : Unhandled(r, name)
    <3>1. req'[r].status = 500
      BY <1>1, <2>8, UnhandledReplies
    <3>2. QED BY <2>1, <3>1 DEF Ends
  <2>9. CASE CreateCommit(r)
    BY <2>2, <2>3, <2>8, <2>9 DEF CreateCommit, Conflict, Unheard
  <2>10. CASE RenameCommit(r)
    BY <2>2, <2>3, <2>8, <2>10 DEF RenameCommit, Conflict, Unheard
  <2>11. QED
    BY <1>5, <2>2, <2>4, <2>5, <2>6, <2>7, <2>8, <2>9, <2>10 DEF WorksStep, NotFound, Refresh,
       DeleteCommit, StatementRaises, Unheard
<1>6. QED BY <1>2, <1>3, <1>4, <1>5 DEF Next, Serve

\* A success never tells of a row that the caller does not have at that moment, though
\* others renamed or deleted it after the caller's own commit.
THEOREM Answered == Spec => AnswerIsStored
<1>1. Inv /\ [Next]_vars =>
        [\A r \in Requests :
           Ends(r, 200) \/ Ends(r, 201) =>
             \A row \in req'[r].body :
                \E i \in DOMAIN works : works[i] = row /\ row.user = req[r].ask.bearer.user]_vars
  BY AnswerStep
<1>2. QED BY <1>1, InvHolds, PTL DEF Spec, AnswerIsStored

-----------------------------------------------------------------------------
(* The branch an exception takes *)

\* What the least of the branches taken decides
LEMMA Decides ==
  ASSUME NEW e, NEW i \in Taken(e), \A j \in Taken(e) : i <= j
  PROVE  MapEmbeddingError(e) = Branches[i].status
<1>1. DOMAIN Branches = 1 .. 12
  BY DEF Branches, Branch
<1>2. Taken(e) \subseteq 1 .. 12
  BY <1>1 DEF Taken
<1>3. First(Taken(e)) \in Taken(e) /\ \A j \in Taken(e) : First(Taken(e)) <= j
  BY DEF First
<1>4. First(Taken(e)) = i
  BY <1>2, <1>3
<1>5. QED BY <1>4 DEF MapEmbeddingError

\* The branches one class meets, by the code
LEMMA Meets ==
  ASSUME NEW e, NEW i
  PROVE  i \in Taken(e) <=>
           /\ i \in 1 .. 12
           /\ \/ i = 1 /\ "TimeoutError" \in Classes(e.name) /\ e.code \in AnyCode
              \/ i = 2 /\ "TimeoutException" \in Classes(e.name) /\ e.code \in AnyCode
              \/ i = 3 /\ Classes(e.name) \cap {"ConnectError", "ConnectTimeout"} # {}
                       /\ e.code \in AnyCode
              \/ i \in 4 .. 7 /\ "HTTPStatusError" \in Classes(e.name)
                             /\ e.code \in Branches[i].codes
              \/ i = 8 /\ Classes(e.name) \cap {"APIConnectionError", "APITimeoutError"} # {}
                       /\ e.code \in AnyCode
              \/ i \in 9 .. 12 /\ "APIStatusError" \in Classes(e.name)
                              /\ e.code \in Branches[i].codes
BY DEF Taken, Branches, Branch

LEMMA Told ==
  ASSUME NEW e \in Exception
  PROVE  /\ (e.name \in Network \/ (e.words /\ e.code = 0)) => MapEmbeddingError(e) \in {503, 504}
         /\ e.code \in 500 .. 599 => MapEmbeddingError(e) = 502
<1>1. /\ \/ e.name \in {"HTTPStatusError", "APIStatusError"} /\ e.code \in 1 .. 599
         \/ e.name \in Network \cup {"other"} /\ e.code = 0
      /\ e.code \in AnyCode
  BY DEF Exception, AnyCode, Network
<1>2. /\ Branches[1].status = 504 /\ Branches[2].status = 504 /\ Branches[3].status = 503
      /\ Branches[8].status = 503
      /\ Branches[7].status = 502 /\ Branches[12].status = 502
      /\ Branches[4].codes = {401, 403} /\ Branches[5].codes = {429} /\ Branches[6].codes = {400}
      /\ Branches[7].codes = 500 .. 599
      /\ Branches[9].codes = {401, 403} /\ Branches[10].codes = {429} /\ Branches[11].codes = {400}
      /\ Branches[12].codes = 500 .. 599
  BY DEF Branches, Branch
<1>3. CASE e.name = "TimeoutError"
  <2>1. Classes(e.name) = {"TimeoutError"}
    BY <1>3 DEF Classes
  <2>2. 1 \in Taken(e) /\ \A j \in Taken(e) : 1 <= j
    BY <1>1, <2>1, Meets
  <2>3. MapEmbeddingError(e) = Branches[1].status
    BY <2>2, Decides
  <2>4. QED BY <1>1, <1>2, <1>3, <2>3
<1>4. CASE e.name \in {"ConnectTimeout", "ReadTimeout"}
  <2>1. "TimeoutException" \in Classes(e.name) /\ "TimeoutError" \notin Classes(e.name)
    BY <1>4 DEF Classes
  <2>2. 2 \in Taken(e) /\ \A j \in Taken(e) : 2 <= j
    BY <1>1, <2>1, Meets
  <2>3. MapEmbeddingError(e) = Branches[2].status
    BY <2>2, Decides
  <2>4. QED BY <1>1, <1>2, <1>4, <2>3
<1>5. CASE e.name = "ConnectError"
  <2>1. Classes(e.name) = {"ConnectError"}
    BY <1>5 DEF Classes
  <2>2. 3 \in Taken(e) /\ \A j \in Taken(e) : 3 <= j
    BY <1>1, <2>1, Meets
  <2>3. MapEmbeddingError(e) = Branches[3].status
    BY <2>2, Decides
  <2>4. QED BY <1>1, <1>2, <1>5, <2>3
<1>6. CASE e.name \in {"APIConnectionError", "APITimeoutError"}
  <2>1. /\ "APIConnectionError" \in Classes(e.name)
        /\ Classes(e.name) \subseteq {"APIConnectionError", "APITimeoutError"}
    BY <1>6 DEF Classes
  <2>2. 8 \in Taken(e) /\ \A j \in Taken(e) : 8 <= j
    BY <1>1, <2>1, Meets
  <2>3. MapEmbeddingError(e) = Branches[8].status
    BY <2>2, Decides
  <2>4. QED BY <1>1, <1>2, <1>6, <2>3
<1>7. CASE e.name = "other"
  <2>1. Classes(e.name) = {"other"}
    BY <1>7 DEF Classes
  <2>2. Taken(e) = {}
    BY <2>1, Meets
  <2>3. QED BY <1>1, <1>7, <2>2 DEF MapEmbeddingError, Network
<1>8. CASE e.name = "HTTPStatusError"
  <2>1. Classes(e.name) = {"HTTPStatusError"}
    BY <1>8 DEF Classes
  <2>2. ASSUME e.code \in 500 .. 599
        PROVE  MapEmbeddingError(e) = 502
    <3>1. 7 \in Taken(e) /\ \A j \in Taken(e) : 7 <= j
      BY <1>2, <2>1, <2>2, Meets
    <3>2. MapEmbeddingError(e) = Branches[7].status
      BY <3>1, Decides
    <3>3. QED BY <1>2, <3>2
  <2>3. QED BY <1>1, <1>8, <2>2 DEF Network
<1>9. CASE e.name = "APIStatusError"
  <2>1. Classes(e.name) = {"APIStatusError"}
    BY <1>9 DEF Classes
  <2>2. ASSUME e.code \in 500 .. 599
        PROVE  MapEmbeddingError(e) = 502
    <3>1. 12 \in Taken(e) /\ \A j \in Taken(e) : 12 <= j
      BY <1>2, <2>1, <2>2, Meets
    <3>2. MapEmbeddingError(e) = Branches[12].status
      BY <3>1, Decides
    <3>3. QED BY <1>2, <3>2
  <2>3. QED BY <1>1, <1>9, <2>2 DEF Network
<1>10. QED BY <1>1, <1>3, <1>4, <1>5, <1>6, <1>7, <1>8, <1>9 DEF Network

LEMMA RetrievalStep ==
  ASSUME Inv, [Next]_vars, NEW q \in Requests, req[q].pc = "retrieve", req'[q].pc = "end",
         NEW e \in req'[q].body
  PROVE  e \in Failures /\ req'[q].status = MapEmbeddingError(e)
<1>1. TypeOK
  BY DEF Inv
<1>2. req' # req
  OBVIOUS
<1>3. PICK r \in Requests : Arrive(r) \/ Serve(r) \/ StreamStep(r)
  BY <1>2 DEF Next, vars
<1>4. \E pcs, statuses : Moved(r, pcs, statuses)
  BY <1>1, <1>3, MovedArrive, MovedAuthenticate, MovedPoolTimeout, MovedWorks,
     MovedRetrieval, MovedHello, MovedStream DEF Serve
<1>5. q = r
  BY <1>4 DEF Moved
<1>6. RetrieveStep(r)
  BY <1>3, <1>5 DEF Arrive, Serve, Authenticate, PoolTimeout, WorksStep, NotFound, CreateCommit,
     ListWorks, GetWork, Load, RenameCommit, Refresh, DeleteCommit, StatementRaises, At, ChatGet, HelloStep,
     HelloLock, HelloWake, StreamStep, Chunk, ModelEnds, ModelRaises, StreamTimeout, Sent,
     ClientLeaves, Cancelled, StreamPCs
<1>7. CASE RetrieveRaises(r)
  <2>1. PICK f \in Failures : Reply(r, MapEmbeddingError(f), {f})
    BY <1>7 DEF RetrieveRaises
  <2>2. req'[r].status = MapEmbeddingError(f) /\ req'[r].body = {f}
    BY <1>1, <2>1, Replies
  <2>3. QED BY <1>5, <2>2
<1>8. CASE StreamOpens(r)
  <2>1. StreamGoto(r, "await") /\ "await" \in StreamPCs
    BY <1>8 DEF StreamOpens, StreamPCs
  <2>2. req'[r].pc = "await"
    BY <1>1, <1>5, <2>1, StreamGoes
  <2>3. QED BY <1>5, <2>2
<1>9. CASE AgentRaises(r)
  <2>1. Reply(r, 0, {})
    BY <1>9 DEF AgentRaises, Cut
  <2>2. req'[r].body = {}
    BY <1>1, <2>1, Replies
  <2>3. QED BY <1>5, <2>2
<1>10. QED BY <1>6, <1>7, <1>8, <1>9 DEF RetrieveStep

\* An exception of the six classes of Network, or one without a status code whose message
\* has the words looked for, is answered 503 or 504, and a server error of the provider
\* 502: the order of the branches, and what falls through them, never gives a client
\* another status for these.
THEOREM NetworkTrouble == Spec => NetworkTroubleIsTold
<1>1. Inv /\ [Next]_vars =>
        [\A r \in Requests :
           req[r].pc = "retrieve" /\ req'[r].pc = "end" =>
             \A e \in req'[r].body :
               /\ (e.name \in Network \/ (e.words /\ e.code = 0)) => req'[r].status \in {503, 504}
               /\ e.code \in 500 .. 599 => req'[r].status = 502]_vars
  BY RetrievalStep, Told, ChatAssumption
<1>2. QED BY <1>1, InvHolds, PTL DEF Spec, NetworkTroubleIsTold

-----------------------------------------------------------------------------
(* The page "/": one request at most sleeps, and none once the payload is set *)

Hello ==
  /\ hello => \A r \in Requests : req[r].pc # "sleep"
  /\ \A r, s \in Requests : req[r].pc = "sleep" /\ req[s].pc = "sleep" => r = s

\* Whoever falls asleep holds the lock, and the payload is not set
LEMMA Falls ==
  ASSUME Inv, [Next]_vars, NEW q \in Requests, req[q].pc # "sleep", req'[q].pc = "sleep"
  PROVE  /\ \A s \in Requests : req[s].pc # "sleep"
         /\ \A s \in Requests \ {q} : req'[s] = req[s]
         /\ ~hello /\ ~hello'
<1>1. TypeOK
  BY DEF Inv
<1>2. req' # req
  OBVIOUS
<1>3. ASSUME NEW r \in Requests, NEW pcs, NEW statuses, Moved(r, pcs, statuses), "sleep" \notin pcs
      PROVE  FALSE
  BY <1>3 DEF Moved
<1>4. PICK r \in Requests : HelloStep(r)
  BY <1>1, <1>2, <1>3, MovedArrive, MovedAuthenticate, MovedPoolTimeout, MovedWorks,
     MovedRetrieval, MovedStream DEF Next, Serve, vars, StreamPCs
<1>5. Moved(r, {"sleep", "end"}, {200})
  BY <1>1, <1>4, MovedHello
<1>6. r = q
  BY <1>5 DEF Moved
<1>7. CASE HelloLock(r) /\ ~hello
  BY <1>1, <1>5, <1>6, <1>7 DEF HelloLock, TypeOK, Moved
<1>8. ASSUME Reply(r, 200, {})
      PROVE  FALSE
  BY <1>1, <1>6, <1>8, RepliesEnd
<1>9. QED BY <1>4, <1>7, <1>8 DEF HelloStep, HelloLock, HelloWake

\* The payload is set by the one that slept, which ends
LEMMA Wakes ==
  ASSUME Inv, [Next]_vars, hello' # hello
  PROVE  \E r \in Requests : /\ req[r].pc = "sleep" /\ req'[r].pc = "end"
                            /\ \A s \in Requests \ {r} : req'[s] = req[s]
<1>1. TypeOK
  BY DEF Inv
<1>2. PICK r \in Requests : HelloWake(r)
  BY DEF Next, Serve, vars, HelloStep, HelloLock, StreamStep
<1>3. Reply(r, 200, {}) /\ req[r].pc = "sleep"
  BY <1>2 DEF HelloWake
<1>4. req'[r].pc = "end" /\ \A s \in Requests \ {r} : req'[s] = req[s]
  BY <1>1, <1>3, Replies DEF Moved
<1>5. QED BY <1>3, <1>4

LEMMA HelloNext ==
  ASSUME Inv, Hello, [Next]_vars
  PROVE  Hello'
<1>1. hello' => \A r \in Requests : req'[r].pc # "sleep"
  <2>1. CASE hello' = hello
    BY <2>1, Falls DEF Hello
  <2>2. CASE hello' # hello
    <3>1. PICK r \in Requests : /\ req[r].pc = "sleep" /\ req'[r].pc = "end"
                               /\ \A s \in Requests \ {r} : req'[s] = req[s]
      BY <2>2, Wakes
    <3>2. QED BY <3>1 DEF Hello
  <2>3. QED BY <2>1, <2>2
<1>2. ASSUME NEW r \in Requests, NEW s \in Requests,
             req'[r].pc = "sleep", req'[s].pc = "sleep", r # s
      PROVE  FALSE
  <2>1. CASE req[r].pc = "sleep" /\ req[s].pc = "sleep"
    BY <1>2, <2>1 DEF Hello
  <2>2. CASE req[r].pc # "sleep"
    BY <1>2, <2>2, Falls
  <2>3. CASE req[s].pc # "sleep"
    BY <1>2, <2>3, Falls
  <2>4. QED BY <2>1, <2>2, <2>3
<1>3. QED BY <1>1, <1>2 DEF Hello

\* However many requests for "/" come while one sleeps, none of them sleeps after it.
THEOREM SleepsOnce == Spec => []HelloSleepsOnce
<1>1. Init => Hello
  BY DEF Init, Hello
<1>2. Inv /\ Hello /\ [Next]_vars => Hello'
  BY HelloNext
<1>3. Hello => HelloSleepsOnce
  BY DEF Hello, HelloSleepsOnce
<1>4. QED BY <1>1, <1>2, <1>3, InvHolds, PTL DEF Spec

-----------------------------------------------------------------------------
(* How a stream ends.  What was said is one of ten short sequences, and the *)
(* pc tells which.                                                          *)

Early == {<<>>, <<"data">>}
Failed == {<<"error">>, <<"data", "error">>}
Over == {<<"error", "done">>, <<"data", "error", "done">>}
Whole == {<<"done">>, <<"data", "done">>}

Telling(pc, s) ==
  /\ pc \notin StreamPCs \cup {"end"} => s.said = <<>>
  /\ pc \in {"await", "send", "error"} => s.said \in Early
  /\ pc = "done" => s.said \in Failed \/ (s.said \in Early /\ (s.finished \/ s.gone))
  /\ pc = "end" => s.said \in Early \cup Failed \cup Over \/ (s.finished /\ s.said \in Whole)

Telltale == \A r \in Requests : Telling(req[r].pc, stream[r])

LEMMA Pair ==
  ASSUME NEW S, NEW d \in S, NEW e \in S
  PROVE  Append(<<d>>, e) = <<d, e>> /\ Len(<<d>>) = 1 /\ <<d>>[1] = d
<1>1. <<d>> \in Seq(S) /\ Len(<<d>>) = 1 /\ <<d>>[1] = d
  OBVIOUS
<1>2. PICK s, t : s = <<d>> /\ t = <<d, e>>
  OBVIOUS
<1>3. t \in Seq(S) /\ Len(t) = 2 /\ t[1] = d /\ t[2] = e
  BY <1>2
<1>4. /\ Append(s, e) \in Seq(S) /\ Len(Append(s, e)) = 2
      /\ Append(s, e)[1] = d /\ Append(s, e)[2] = e
  BY <1>1, <1>2
<1>5. Append(s, e) = t
  BY <1>3, <1>4, SeqEqual
<1>6. QED BY <1>1, <1>2, <1>5

LEMMA Triple ==
  ASSUME NEW S, NEW c \in S, NEW d \in S, NEW e \in S
  PROVE  Append(<<c, d>>, e) = <<c, d, e>>
<1>1. PICK s, t : s = <<c, d>> /\ t = <<c, d, e>>
  OBVIOUS
<1>2. s \in Seq(S) /\ Len(s) = 2 /\ s[1] = c /\ s[2] = d
  BY <1>1
<1>3. t \in Seq(S) /\ Len(t) = 3 /\ t[1] = c /\ t[2] = d /\ t[3] = e
  BY <1>1
<1>4. /\ Append(s, e) \in Seq(S) /\ Len(Append(s, e)) = 3
      /\ Append(s, e)[1] = c /\ Append(s, e)[2] = d /\ Append(s, e)[3] = e
  <2>1. /\ Append(s, e) \in Seq(S) /\ Len(Append(s, e)) = Len(s) + 1
        /\ \A i \in 1 .. Len(s) : Append(s, e)[i] = s[i]
        /\ Append(s, e)[Len(s) + 1] = e
    BY <1>2, AppendProperties
  <2>2. QED BY <1>2, <2>1
<1>5. Append(s, e) = t
  BY <1>3, <1>4, SeqEqual
<1>6. QED BY <1>1, <1>5

\* What one event adds
LEMMA SayTells ==
  ASSUME Inv, NEW r \in Requests, NEW event \in Events, Say(r, event)
  PROVE  /\ stream[r].gone => stream'[r].said = stream[r].said
         /\ event = "data" /\ stream[r].said \in Early => stream'[r].said \in Early
         /\ event = "error" /\ ~stream[r].gone /\ stream[r].said \in Early
              => stream'[r].said \in Failed
         /\ event = "done" /\ stream[r].said \in Failed => stream'[r].said \in Failed \cup Over
         /\ event = "done" /\ ~stream[r].gone /\ stream[r].said \in Early
              => stream'[r].said \in Whole
         /\ stream'[r].finished = stream[r].finished /\ stream'[r].gone = stream[r].gone
<1>1. PICK said, more : said = stream[r].said /\ more = stream'[r].said
  OBVIOUS
<1>2. stream \in [Requests -> StreamRecord]
  BY DEF Inv, TypeOK, StreamRecord, Events
<1>3. /\ stream'[r].finished = stream[r].finished /\ stream'[r].gone = stream[r].gone
      /\ \/ more = said /\ (stream[r].gone \/ (said # <<>> /\ said[Len(said)] = event))
         \/ /\ more = Append(said, event) /\ ~stream[r].gone
            /\ ~(said # <<>> /\ said[Len(said)] = event)
  BY <1>1, <1>2, SayType
<1>4. /\ event = "data" /\ said \in Early => more \in Early
      /\ event = "error" /\ ~stream[r].gone /\ said \in Early => more \in Failed
      /\ event = "done" /\ said \in Failed => more \in Failed \cup Over
      /\ event = "done" /\ ~stream[r].gone /\ said \in Early => more \in Whole
  <2>1. CASE said = <<>>
    <3>1. Append(said, event) = <<event>>
      BY <2>1
    <3>2. QED BY <1>3, <2>1, <3>1 DEF Early, Failed, Whole
  <2>2. CASE said = <<"data">>
    <3>1. said[Len(said)] = "data" /\ said # <<>> /\ Append(said, event) = <<"data", event>>
      BY <2>2, Pair DEF Events
    <3>2. QED BY <1>3, <2>2, <3>1 DEF Early, Failed, Whole
  <2>3. CASE said = <<"error">>
    <3>1. Append(said, event) = <<"error", event>>
      BY <2>3, Pair DEF Events
    <3>2. QED BY <1>3, <2>3, <3>1 DEF Early, Failed, Over
  <2>4. CASE said = <<"data", "error">>
    <3>1. Append(said, event) = <<"data", "error", event>>
      BY <2>4, Triple DEF Events
    <3>2. QED BY <1>3, <2>4, <3>1 DEF Early, Failed, Over
  <2>5. QED BY <2>1, <2>2, <2>3, <2>4 DEF Early, Failed
<1>5. QED BY <1>1, <1>3, <1>4

\* The steps outside a stream
LEMMA BeforeStream ==
  ASSUME Inv, NEW r \in Requests, (Arrive(r) /\ UNCHANGED stream) \/ Serve(r)
  PROVE  /\ stream' = stream /\ req[r].pc \notin StreamPCs \cup {"end"}
         /\ \E pcs, statuses : Moved(r, pcs, statuses) /\ "done" \notin pcs
<1>1. TypeOK
  BY DEF Inv
<1>2. stream' = stream
  BY DEF Serve, ChatGet, RetrieveStep, RetrieveRaises, StreamOpens, AgentRaises
<1>3. req[r].pc \notin StreamPCs \cup {"end"}
  <2>1. CASE Arrive(r) \/ Authenticate(r) \/ PoolTimeout(r)
    BY <2>1 DEF Arrive, Authenticate, PoolTimeout, StreamPCs
  <2>2. CASE WorksStep(r)
    <3>1. CASE NotFound(r) \/ ListWorks(r) \/ GetWork(r) \/ Load(r)
      BY <3>1 DEF NotFound, ListWorks, GetWork, Load, At, StreamPCs
    <3>2. CASE CreateCommit(r) \/ RenameCommit(r) \/ Refresh(r) \/ DeleteCommit(r) \/ StatementRaises(r)
      BY <3>2 DEF CreateCommit, RenameCommit, Refresh, DeleteCommit, StatementRaises, At, StreamPCs
    <3>3. QED BY <2>2, <3>1, <3>2 DEF WorksStep
  <2>3. CASE ChatGet(r) \/ RetrieveStep(r)
    BY <2>3 DEF ChatGet, RetrieveStep, RetrieveRaises, StreamOpens, AgentRaises, At, StreamPCs
  <2>4. CASE HelloStep(r)
    BY <2>4 DEF HelloStep, HelloLock, HelloWake, At, StreamPCs
  <2>5. QED BY <2>1, <2>2, <2>3, <2>4 DEF Serve
<1>4. \E pcs, statuses : Moved(r, pcs, statuses) /\ "done" \notin pcs
  BY <1>1, MovedArrive, MovedAuthenticate, MovedPoolTimeout, MovedWorks, MovedRetrieval,
     MovedHello DEF Serve
<1>5. QED BY <1>2, <1>3, <1>4

LEMMA StreamTelling ==
  ASSUME Inv, Telltale, NEW r \in Requests, StreamStep(r)
  PROVE  Telling(req'[r].pc, stream'[r])
<1>1. TypeOK /\ stream \in [Requests -> StreamRecord] /\ req[r].pc \in StreamPCs
  BY MovedStream DEF Inv, TypeOK, StreamRecord, Events
<1>2. /\ stream'[r] = stream[r] => Telling(req[r].pc, stream'[r])
      /\ Telling(req[r].pc, stream[r])
  BY DEF Telltale
<1>3. ASSUME NEW pc \in StreamPCs, StreamGoto(r, pc)
      PROVE  req'[r].pc = pc
  BY <1>1, <1>3, StreamGoes
<1>4. ASSUME NEW status \in {0, 200}, Reply(r, status, {})
      PROVE  req'[r].pc = "end"
  BY <1>1, <1>4, RepliesEnd
<1>5. CASE Chunk(r)
  <2>1. /\ req[r].pc = "await" /\ stream' = stream
        /\ StreamGoto(r, IF stream[r].gone THEN "done" ELSE "send")
    BY <1>5 DEF Chunk
  <2>2. CASE stream[r].gone
    BY <1>2, <1>3, <2>1, <2>2 DEF Telling, StreamPCs
  <2>3. CASE ~stream[r].gone
    BY <1>2, <1>3, <2>1, <2>3 DEF Telling, StreamPCs
  <2>4. QED BY <2>2, <2>3
<1>6. CASE ModelEnds(r)
  <2>1. stream'[r].said = stream[r].said /\ stream'[r].finished
    BY <1>1, <1>6 DEF ModelEnds, StreamRecord
  <2>2. req[r].pc = "await" /\ req'[r].pc = "done"
    BY <1>3, <1>6 DEF ModelEnds, StreamPCs
  <2>3. QED BY <1>2, <2>1, <2>2 DEF Telling, StreamPCs
<1>7. CASE ModelRaises(r) \/ StreamTimeout(r)
  <2>1. /\ stream' = stream /\ req[r].pc \in {"await", "send"}
        /\ req'[r].pc \in {"error", "end"}
    BY <1>3, <1>4, <1>7 DEF ModelRaises, StreamTimeout, Cut, StreamPCs
  <2>2. QED BY <1>2, <2>1 DEF Telling, StreamPCs
<1>8. CASE Cancelled(r)
  <2>1. stream' = stream /\ req'[r].pc = "end"
    BY <1>4, <1>8 DEF Cancelled, Cut
  <2>2. QED BY <1>1, <1>2, <2>1 DEF Telling, StreamPCs
<1>9. CASE ClientLeaves(r)
  <2>1. /\ stream'[r].said = stream[r].said /\ stream'[r].finished = stream[r].finished
        /\ stream'[r].gone /\ req' = req
    BY <1>1, <1>9 DEF ClientLeaves, StreamRecord
  <2>2. QED BY <1>1, <1>2, <2>1 DEF Telling, StreamPCs
<1>10. CASE Sent(r)
  <2>1. CASE req[r].pc = "send" /\ Say(r, "data") /\ StreamGoto(r, "await")
    BY <1>2, <1>3, <2>1, SayTells DEF Telling, StreamPCs, Events
  <2>2. CASE req[r].pc = "error" /\ Say(r, "error") /\ StreamGoto(r, "done")
    BY <1>2, <1>3, <2>2, SayTells DEF Telling, StreamPCs, Events
  <2>3. CASE req[r].pc = "done" /\ Say(r, "done") /\ Reply(r, 200, {})
    BY <1>2, <1>4, <2>3, SayTells DEF Telling, StreamPCs, Events
  <2>4. QED BY <1>10, <2>1, <2>2, <2>3 DEF Sent
<1>11. QED BY <1>5, <1>6, <1>7, <1>8, <1>9, <1>10 DEF StreamStep

LEMMA TelltaleNext ==
  ASSUME Inv, Telltale, [Next]_vars
  PROVE  Telltale'
<1>1. TypeOK /\ stream \in [Requests -> StreamRecord]
  BY DEF Inv, TypeOK, StreamRecord, Events
<1>2. CASE UNCHANGED vars
  BY <1>2 DEF Telltale, vars
<1>3. ASSUME NEW r \in Requests, (Arrive(r) /\ UNCHANGED stream) \/ Serve(r)
      PROVE  Telltale'
  <2>1. /\ stream' = stream /\ req[r].pc \notin StreamPCs \cup {"end"}
        /\ req'[r].pc # "done" /\ \A q \in Requests \ {r} : req'[q] = req[q]
    BY <1>3, BeforeStream DEF Moved
  <2>2. stream[r].said = <<>>
    BY <2>1 DEF Telltale, Telling
  <2>3. Telling(req'[r].pc, stream'[r])
    BY <2>1, <2>2 DEF Telling, Early, StreamPCs
  <2>4. QED BY <2>1, <2>3 DEF Telltale
<1>4. ASSUME NEW r \in Requests, StreamStep(r)
      PROVE  Telltale'
  <2>1. \A q \in Requests \ {r} : req'[q] = req[q] /\ stream'[q] = stream[q]
    BY <1>1, <1>4, MovedStream, StreamMoves DEF Moved
  <2>2. QED BY <1>4, <2>1, StreamTelling DEF Telltale
<1>5. QED BY <1>2, <1>3, <1>4 DEF Next

LEMMA TelltaleTells ==
  ASSUME Telltale
  PROVE  StreamTellsItsEnd
<1>1. SUFFICES ASSUME NEW r \in Requests, NEW i \in DOMAIN stream[r].said
               PROVE  LET said == stream[r].said IN
                      /\ said[i] = "done" => /\ i = Len(said)
                                             /\ stream[r].finished \/ (i > 1 /\ said[i - 1] = "error")
                      /\ said[i] = "error" => i = Len(said) \/ said[i + 1] = "done"
  BY DEF StreamTellsItsEnd
<1>2. \/ stream[r].said \in Early \cup Failed \cup Over
      \/ stream[r].finished /\ stream[r].said \in Whole
  BY DEF Telltale, Telling, StreamPCs, Early
<1>3. CASE stream[r].said = <<>>
  BY <1>3
<1>4. CASE stream[r].said = <<"data">>
  BY <1>4
<1>5. CASE stream[r].said = <<"error">>
  BY <1>5
<1>6. CASE stream[r].said = <<"data", "error">>
  BY <1>6
<1>7. CASE stream[r].said = <<"error", "done">>
  BY <1>7
<1>8. CASE stream[r].said = <<"data", "error", "done">>
  BY <1>8
<1>9. CASE stream[r].said = <<"done">> /\ stream[r].finished
  BY <1>9
<1>10. CASE stream[r].said = <<"data", "done">> /\ stream[r].finished
  BY <1>10
<1>11. QED
  BY <1>2, <1>3, <1>4, <1>5, <1>6, <1>7, <1>8, <1>9, <1>10 DEF Early, Failed, Over, Whole

\* [DONE] comes last, and only after the model's own end or an error event, wherever the
\* timeout fires, the model fails or the client leaves.
THEOREM StreamTells == Spec => []StreamTellsItsEnd
<1>1. Init => Telltale
  BY DEF Init, Telltale, Telling, Unsent, StreamPCs
<1>2. Inv /\ Telltale /\ [Next]_vars => Telltale'
  BY TelltaleNext
<1>3. Telltale => StreamTellsItsEnd
  BY TelltaleTells
<1>4. QED BY <1>1, <1>2, <1>3, InvHolds, PTL DEF Spec
=============================================================================
