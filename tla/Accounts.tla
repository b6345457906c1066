------------------------------ MODULE Accounts ------------------------------
(***************************************************************************)
(* Registration, login, refresh and logout (account/router.py) over the    *)
(* table of users and the refresh tokens in Redis                          *)
(* (account/refresh_token_store.py).  Every await is a step boundary; an   *)
(* early return that changes nothing (401, 409, 503) is the absence of the *)
(* step.  Hashing a password or digesting a token is injective here: a row *)
(* holds the password, a key the token.  The access token of a pair is not *)
(* stored; AccessToken says what becomes of it.                            *)
(***************************************************************************)
EXTENDS Integers, Sequences, FiniteSets

CONSTANTS Slots,       \* requests the event loop has under way at a time
          Names,       \* usernames
          Passwords,
          Tokens,      \* what secrets.token_urlsafe returns, never the same twice
          NoToken,
          RefreshTTL,  \* _refresh_ttl_seconds()
          MaxNow       \* bound: the last tick

ASSUME AccountsAssumption ==
  /\ NoToken \notin Tokens
  /\ RefreshTTL \in Nat \ {0}
  /\ MaxNow \in Nat
  /\ IsFiniteSet(Slots)

VARIABLES
  users,     \* the rows, [name, password], in the order of their ids
  live,      \* Redis: the user id and the expiry of every refresh token's key
  now,
  req,       \* per slot: pc, who registers, the user id and the token read
  \* History
  known,     \* tokens that clients were answered
  parent,    \* the token a saved one was exchanged for; NoToken after a login
  spent,     \* tokens a DEL has been executed for
  closed,    \* tokens owed no successor: logged out, or their exchange failed
  welcomed   \* the registrations answered 201

vars == <<users, live, now, req, known, parent, spent, closed, welcomed>>
history == <<known, parent, spent, closed, welcomed>>

Account == [name : Names, password : Passwords]

NoKey == [user |-> 0, dies |-> 0]

Live(t) == live[t].user # 0 /\ now < live[t].dies

Idle == [pc |-> "idle"]

\* "insert": register has found the name free; "delete": refresh has read the token's
\* user; "issue": about to save a new token
RequestType ==
  [pc : {"idle"}] \cup [pc : {"insert"}, account : Account]
    \cup [pc : {"delete"}, user : 1 .. Len(users), token : Tokens]
    \cup [pc : {"issue"}, user : 1 .. Len(users), token : Tokens \cup {NoToken}]

\* In particular every session, stored or about to be, is one of a registered user
TypeOK ==
  /\ users \in Seq(Account)
  /\ live \in [Tokens -> [user : 0 .. Len(users), dies : Nat]]
  /\ now \in Nat
  /\ req \in [Slots -> RequestType]
  /\ known \subseteq Tokens /\ spent \subseteq Tokens /\ closed \subseteq Tokens
  /\ parent \in [Tokens -> Tokens \cup {NoToken}]
  /\ welcomed \subseteq Account

Init ==
  /\ users = <<>>
  /\ live = [t \in Tokens |-> NoKey]
  /\ now = 0
  /\ req = [p \in Slots |-> Idle]
  /\ known = {} /\ spent = {} /\ closed = {} /\ welcomed = {}
  /\ parent = [t \in Tokens |-> NoToken]

-----------------------------------------------------------------------------
(* register *)

IdsOf(name) == {i \in DOMAIN users : users[i].name = name}

Enter(p, r) == req[p] = Idle /\ req' = [req EXCEPT ![p] = r]

Leave(p) == req' = [req EXCEPT ![p] = Idle]

\* The name is free, and the password is hashed before anybody else runs
RegisterSelect(p, a) ==
  /\ IdsOf(a.name) = {}
  /\ Enter(p, [pc |-> "insert", account |-> a])
  /\ UNCHANGED <<users, live, now, history>>

\* Mutant: users.username without its unique constraint
RegisterCommitAnyway(p) ==
  /\ req[p].pc = "insert"
  /\ users' = Append(users, req[p].account)
  /\ welcomed' = welcomed \cup {req[p].account}
  /\ Leave(p)
  /\ UNCHANGED <<live, now, known, parent, spent, closed>>

\* The unique constraint decides: 201, or IntegrityError and 409.  A commit or refresh
\* that fails otherwise is a 500, whether or not the row is there.
RegisterCommit(p) ==
  /\ req[p].pc = "insert"
  /\ \/ /\ IdsOf(req[p].account.name) = {}
        /\ users' = Append(users, req[p].account)
        /\ welcomed' = welcomed \cup {req[p].account} \/ UNCHANGED welcomed
     \/ UNCHANGED <<users, welcomed>>
  /\ Leave(p)
  /\ UNCHANGED <<live, now, known, parent, spent, closed>>

-----------------------------------------------------------------------------
(* login *)

\* Mutant: an unknown name goes on after the dummy checkpw
LoginUnknown(p, a) ==
  /\ Enter(p, [pc |-> "issue", user |-> Len(users) + 1, token |-> NoToken])
  /\ UNCHANGED <<users, live, now, history>>

\* SELECT ... LIMIT 1, which promises no order, and checkpw
Login(p, a) ==
  /\ \E id \in IdsOf(a.name) :
        /\ users[id].password = a.password
        /\ Enter(p, [pc |-> "issue", user |-> id, token |-> NoToken])
  /\ UNCHANGED <<users, live, now, history>>

-----------------------------------------------------------------------------
(* refresh_tokens: GET, DEL and, in _issue_token_pair, SETEX.  The client    *)
(* library retries a command whose reply is lost; all three may be executed  *)
(* twice without harm.  When the retry fails too the request ends in a 500,  *)
(* with or without the command executed.                                     *)

RefreshGet(p, t) ==
  /\ t \in known /\ Live(t)
  /\ Enter(p, [pc |-> "delete", user |-> live[t].user, token |-> t])
  /\ UNCHANGED <<users, live, now, history>>

Forfeit(ts) == closed' = closed \cup (ts \ {NoToken})

Del(t) == /\ live' = [live EXCEPT ![t] = NoKey]
          /\ spent' = spent \cup {t}

\* Mutant: the token is left to expire by itself
RefreshDeleteKeeps(p) ==
  /\ req[p].pc = "delete"
  /\ req' = [req EXCEPT ![p].pc = "issue"]
  /\ UNCHANGED <<users, live, now, known, parent, spent, closed, welcomed>>

RefreshDelete(p) ==
  /\ req[p].pc = "delete"
  /\ Del(req[p].token)
  /\ req' = [req EXCEPT ![p].pc = "issue"]
  /\ UNCHANGED <<users, now, known, parent, closed, welcomed>>

RefreshDeleteRaises(p) ==
  /\ req[p].pc = "delete"
  /\ \/ Del(req[p].token) /\ Forfeit({req[p].token})
     \/ UNCHANGED <<live, spent, closed>>
  /\ Leave(p)
  /\ UNCHANGED <<users, now, known, parent, welcomed>>

Fresh(t) == t \notin known /\ parent[t] = NoToken /\ live[t] = NoKey

\* Mutant: the token presented is given another TTL instead of a successor
SaveSliding(p, t) ==
  LET s == IF req[p].token = NoToken THEN t ELSE req[p].token
  IN  /\ live' = [live EXCEPT ![s] = [user |-> req[p].user, dies |-> now + RefreshTTL]]
      /\ UNCHANGED parent

\* SETEX of a new token for the user of request p
Save(p, t) ==
  /\ live' = [live EXCEPT ![t] = [user |-> req[p].user, dies |-> now + RefreshTTL]]
  /\ parent' = [parent EXCEPT ![t] = req[p].token]

\* _issue_token_pair, for login and refresh
Issue(p, t) ==
  /\ req[p].pc = "issue" /\ Fresh(t)
  /\ Save(p, t)
  /\ known' = known \cup {t}
  /\ Leave(p)
  /\ UNCHANGED <<users, now, spent, closed, welcomed>>

\* Mutant: a SETEX that raises is swallowed and the pair answered all the same
IssueRaisesUnnoticed(p, t) ==
  /\ req[p].pc = "issue" /\ Fresh(t)
  /\ known' = known \cup {t}
  /\ Leave(p)
  /\ UNCHANGED <<users, now, live, parent, spent, closed, welcomed>>

\* The client never learns the token, saved or not
IssueRaises(p, t) ==
  /\ req[p].pc = "issue" /\ Fresh(t)
  /\ Save(p, t) \/ UNCHANGED <<live, parent>>
  /\ Forfeit({req[p].token})
  /\ Leave(p)
  /\ UNCHANGED <<users, now, known, spent, welcomed>>

-----------------------------------------------------------------------------
(* logout: one DEL, whatever the other requests have read *)

Logout(t) ==
  /\ t \in known
  /\ Del(t) /\ Forfeit({t})
  /\ UNCHANGED <<users, now, req, known, parent, welcomed>>

-----------------------------------------------------------------------------
(* The process is stopped, at any point; time *)

Restart ==
  /\ \E p \in Slots : req[p] # Idle
  /\ req' = [p \in Slots |-> Idle]
  /\ Forfeit({req[p].token : p \in {q \in Slots : req[q].pc = "issue"}})
  /\ UNCHANGED <<users, live, now, known, parent, spent, welcomed>>

Tick == /\ now < MaxNow
        /\ now' = now + 1
        /\ UNCHANGED <<users, live, req, history>>

RequestStep(p) ==
  \/ \E a \in Account : RegisterSelect(p, a) \/ Login(p, a)
  \/ RegisterCommit(p) \/ RefreshDelete(p) \/ RefreshDeleteRaises(p)
  \/ \E t \in Tokens : RefreshGet(p, t) \/ Issue(p, t) \/ IssueRaises(p, t)

Next ==
  \/ \E p \in Slots : RequestStep(p)
  \/ \E t \in Tokens : Logout(t)
  \/ Restart \/ Tick

Spec == Init /\ [][Next]_vars
-----------------------------------------------------------------------------
(* Properties *)

\* Whoever was told 201 owns the name: every row a login under it can find has the
\* password of that registration, however many registrations of the name ran at once.
RegistrationHolds ==
  \A a \in welcomed : \A id \in IdsOf(a.name) : users[id].password = a.password

\* The key of a refresh token that was exchanged or logged out is never set again: no
\* request that had read it earlier, and no saving of another, brings it back.  (Such a
\* request still saves a successor of its own: see ForksBounded.)
SpentStaysSpent == \A t \in spent : live[t] = NoKey

\* Rotation loses no session by itself: a token that was deleted was logged out, or
\* its exchange failed, or is under way, or has told the client the next token.
Succession ==
  \A t \in spent : \/ t \in closed
                   \/ \E s \in known : parent[s] = t
                   \/ \E p \in Slots : req[p].pc = "issue" /\ req[p].token = t

\* GET and DEL are two commands, so requests that present a token together may all
\* be given a new one; but no more than ran at once: a client that presents a token
\* again later gets nothing.
ForksBounded ==
  \A t \in Tokens :
    Cardinality({s \in Tokens : parent[s] = t}) <= Cardinality(Slots)
=============================================================================
