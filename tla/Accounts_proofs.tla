--------------------------- MODULE Accounts_proofs ---------------------------
(***************************************************************************)
(* Sessions and registrations, for any numbers of users, requests at a     *)
(* time and tokens, any lifetime, and restarts and failing commands at any *)
(* point.                                                                  *)
(***************************************************************************)
EXTENDS Accounts, FiniteSetTheorems, TLAPS

\* The steps of one request that read or write a refresh token
SessionStep(p) ==
  \/ \E a \in Account : Login(p, a)
  \/ RefreshDelete(p) \/ RefreshDeleteRaises(p)
  \/ \E t \in Tokens : RefreshGet(p, t) \/ Issue(p, t) \/ IssueRaises(p, t)

\* A session of an existing user is one of an existing user after another row
LEMMA UsersGrow ==
  ASSUME TypeOK, NEW p \in Slots, RegisterCommit(p)
  PROVE  /\ users' \in Seq(Account) /\ welcomed' \subseteq Account
         /\ Len(users) <= Len(users')
         /\ req' \in [Slots -> RequestType']
<1>1. /\ req[p].account \in Account /\ users \in Seq(Account)
      /\ req \in [Slots -> RequestType]
  BY DEF TypeOK, RequestType, RegisterCommit
<1>2. users' = Append(users, req[p].account) \/ users' = users
  BY DEF RegisterCommit
<1>3. users' \in Seq(Account) /\ Len(users) <= Len(users')
  BY <1>1, <1>2
<1>4. \A r \in RequestType : r \in RequestType'
  <2>1. Len(users) \in Nat /\ Len(users') \in Nat
    BY <1>1, <1>3
  <2>2. \A i \in 1 .. Len(users) : i \in 1 .. Len(users')
    BY <1>3, <2>1
  <2>3. QED BY <2>2 DEF RequestType
<1>5. [pc |-> "idle"] \in RequestType
  BY DEF RequestType
<1>6. QED BY <1>1, <1>3, <1>4, <1>5 DEF RegisterCommit, Leave, Idle, TypeOK

LEMMA SaveType ==
  ASSUME TypeOK, NEW p \in Slots, NEW t \in Tokens, req[p].pc = "issue",
         Save(p, t) \/ UNCHANGED <<live, parent>>
  PROVE  /\ live' \in [Tokens -> [user : 0 .. Len(users), dies : Nat]]
         /\ parent' \in [Tokens -> Tokens \cup {NoToken}]
<1> DEFINE key == [user |-> req[p].user, dies |-> now + RefreshTTL]
<1>1. /\ req[p] \in RequestType /\ now \in Nat /\ Len(users) \in Nat
      /\ live \in [Tokens -> [user : 0 .. Len(users), dies : Nat]]
      /\ parent \in [Tokens -> Tokens \cup {NoToken}]
  BY DEF TypeOK
<1>2. /\ req[p].user \in 0 .. Len(users) /\ req[p].token \in Tokens \cup {NoToken}
      /\ now + RefreshTTL \in Nat
  BY <1>1, AccountsAssumption DEF RequestType
<1>3. key \in [user : 0 .. Len(users), dies : Nat]
  BY <1>2
<1>4. /\ live' = live \/ live' = [live EXCEPT ![t] = key]
      /\ parent' = parent \/ parent' = [parent EXCEPT ![t] = req[p].token]
  BY DEF Save
<1> HIDE DEF key
<1>5. live' \in [Tokens -> [user : 0 .. Len(users), dies : Nat]]
  BY <1>1, <1>3, <1>4
<1>6. parent' \in [Tokens -> Tokens \cup {NoToken}]
  BY <1>1, <1>2, <1>4
<1>7. QED BY <1>5, <1>6

\* The types are kept by the steps of sessions
LEMMA SessionType ==
  ASSUME TypeOK, NEW p \in Slots, SessionStep(p)
  PROVE  TypeOK'
<1>1. /\ users \in Seq(Account) /\ Len(users) \in Nat
      /\ live \in [Tokens -> [user : 0 .. Len(users), dies : Nat]]
      /\ req \in [Slots -> RequestType] /\ req[p] \in RequestType
      /\ NoKey \in [user : 0 .. Len(users), dies : Nat] /\ Idle \in RequestType
  BY DEF TypeOK, NoKey, Idle, RequestType
<1>2. ASSUME NEW a \in Account, Login(p, a)
      PROVE  TypeOK'
  <2>1. PICK id \in DOMAIN users :
          Enter(p, [pc |-> "issue", user |-> id, token |-> NoToken])
    BY <1>2 DEF Login, IdsOf
  <2>2. [pc |-> "issue", user |-> id, token |-> NoToken] \in RequestType
    BY <1>1, <2>1 DEF RequestType
  <2>3. QED BY <1>1, <1>2, <2>1, <2>2 DEF Login, Enter, TypeOK, RequestType, history
<1>3. ASSUME NEW t \in Tokens, RefreshGet(p, t)
      PROVE  TypeOK'
  <2>1. [pc |-> "delete", user |-> live[t].user, token |-> t] \in RequestType
    BY <1>1, <1>3 DEF RefreshGet, Live, RequestType
  <2>2. QED BY <1>1, <1>3, <2>1 DEF RefreshGet, Enter, TypeOK, RequestType, history
<1>4. ASSUME req[p].pc = "delete"
      PROVE  /\ req[p].token \in Tokens
             /\ [req[p] EXCEPT !.pc = "issue"] \in RequestType
  BY <1>1, <1>4 DEF RequestType
<1>5. CASE RefreshDelete(p)
  <2>1. req' \in [Slots -> RequestType]
    BY <1>1, <1>4, <1>5 DEF RefreshDelete
  <2>2. live' \in [Tokens -> [user : 0 .. Len(users), dies : Nat]] /\ spent' \subseteq Tokens
    BY <1>1, <1>4, <1>5 DEF RefreshDelete, Del, TypeOK
  <2>3. QED BY <1>5, <2>1, <2>2 DEF RefreshDelete, TypeOK, RequestType
<1>6. CASE RefreshDeleteRaises(p)
  <2>1. req' \in [Slots -> RequestType]
    BY <1>1, <1>6 DEF RefreshDeleteRaises, Leave
  <2>2. live' \in [Tokens -> [user : 0 .. Len(users), dies : Nat]]
    BY <1>1, <1>4, <1>6 DEF RefreshDeleteRaises, Del
  <2>3. spent' \subseteq Tokens /\ closed' \subseteq Tokens
    BY <1>4, <1>6 DEF RefreshDeleteRaises, Del, Forfeit, TypeOK
  <2>4. QED BY <1>6, <2>1, <2>2, <2>3 DEF RefreshDeleteRaises, TypeOK, RequestType
<1>7. ASSUME NEW t \in Tokens, Issue(p, t)
      PROVE  TypeOK'
  <2>1. /\ live' \in [Tokens -> [user : 0 .. Len(users), dies : Nat]]
        /\ parent' \in [Tokens -> Tokens \cup {NoToken}]
    BY <1>7, SaveType DEF Issue
  <2>2. req' \in [Slots -> RequestType]
    BY <1>1, <1>7 DEF Issue, Leave
  <2>3. QED BY <1>7, <2>1, <2>2 DEF Issue, TypeOK, RequestType
<1>8. ASSUME NEW t \in Tokens, IssueRaises(p, t)
      PROVE  TypeOK'
  <2>1. /\ live' \in [Tokens -> [user : 0 .. Len(users), dies : Nat]]
        /\ parent' \in [Tokens -> Tokens \cup {NoToken}]
    BY <1>8, SaveType DEF IssueRaises
  <2>2. req[p].token \in Tokens \cup {NoToken}
    BY <1>1, <1>8 DEF IssueRaises, RequestType
  <2>3. req' \in [Slots -> RequestType]
    BY <1>1, <1>8 DEF IssueRaises, Leave
  <2>4. QED BY <1>8, <2>1, <2>2, <2>3 DEF IssueRaises, Forfeit, TypeOK, RequestType
<1>9. QED BY <1>2, <1>3, <1>5, <1>6, <1>7, <1>8 DEF SessionStep

LEMMA StepType ==
  ASSUME TypeOK, [Next]_vars
  PROVE  TypeOK'
<1>1. ASSUME NEW p \in Slots, RequestStep(p)
      PROVE  TypeOK'
  <2>1. ASSUME NEW a \in Account, RegisterSelect(p, a)
        PROVE  TypeOK'
    <3>1. [pc |-> "insert", account |-> a] \in RequestType
      BY DEF RequestType
    <3>2. QED BY <2>1, <3>1 DEF RegisterSelect, Enter, TypeOK, RequestType, history
  <2>2. CASE RegisterCommit(p)
    <3>1. /\ users' \in Seq(Account) /\ welcomed' \subseteq Account
          /\ Len(users) <= Len(users') /\ req' \in [Slots -> RequestType']
      BY <2>2, UsersGrow
    <3>2. \A i \in 0 .. Len(users) : i \in 0 .. Len(users')
      BY <3>1 DEF TypeOK
    <3>3. live \in [Tokens -> [user : 0 .. Len(users'), dies : Nat]]
      BY <3>2 DEF TypeOK
    <3>4. QED BY <2>2, <3>1, <3>3 DEF RegisterCommit, TypeOK
  <2>3. CASE SessionStep(p)
    BY <2>3, SessionType
  <2>4. QED BY <1>1, <2>1, <2>2, <2>3 DEF RequestStep, SessionStep
<1>2. ASSUME NEW t \in Tokens, Logout(t)
      PROVE  TypeOK'
  <2>1. NoKey \in [user : 0 .. Len(users), dies : Nat]
    BY DEF TypeOK, NoKey
  <2>2. live' \in [Tokens -> [user : 0 .. Len(users), dies : Nat]]
    BY <1>2, <2>1 DEF Logout, Del, TypeOK
  <2>3. spent' \subseteq Tokens /\ closed' \subseteq Tokens
    BY <1>2 DEF Logout, Del, Forfeit, TypeOK
  <2>4. QED BY <1>2, <2>2, <2>3 DEF Logout, TypeOK, RequestType
<1>3. CASE Restart
  <2>1. Idle \in RequestType
    BY DEF Idle, RequestType
  <2>2. \A p \in Slots : req[p].pc = "issue" => req[p].token \in Tokens \cup {NoToken}
    BY DEF TypeOK, RequestType
  <2>3. closed' \subseteq Tokens
    BY <1>3, <2>2 DEF Restart, Forfeit, TypeOK
  <2>4. QED BY <1>3, <2>1, <2>3 DEF Restart, TypeOK, RequestType
<1>4. CASE Tick
  BY <1>4 DEF Tick, TypeOK, RequestType, history
<1>5. CASE UNCHANGED vars
  BY <1>5 DEF vars, TypeOK, RequestType
<1>6. QED BY <1>1, <1>2, <1>3, <1>4, <1>5 DEF Next

LEMMA InitType == Init => TypeOK
<1>1. <<>> \in Seq(Account)
  OBVIOUS
<1>2. QED BY <1>1, AccountsAssumption DEF Init, TypeOK, NoKey, Idle, RequestType

\* Every session, stored or about to be, is one of a registered user, for any number
\* of requests at a time (TypeOK)
THEOREM TypeCorrect == Spec => []TypeOK
<1>1. Init => TypeOK
  BY InitType
<1>2. TypeOK /\ [Next]_vars => TypeOK'
  BY StepType
<1>3. QED BY <1>1, <1>2, PTL DEF Spec

-----------------------------------------------------------------------------
(* The tokens: what is deleted was known to a client, so it is not the one a *)
(* later SETEX writes                                                        *)

KnownDeleted ==
  /\ spent \subseteq known
  /\ \A p \in Slots : req[p].pc = "delete" => req[p].token \in known

TokenInv == TypeOK /\ KnownDeleted /\ SpentStaysSpent /\ Succession

\* A slot that is entered was idle, one that is left is idle
LEMMA OneSlot ==
  ASSUME TypeOK, NEW p \in Slots, NEW r, req' = [req EXCEPT ![p] = r]
  PROVE  \A q \in Slots : req'[q] = IF q = p THEN r ELSE req[q]
BY DEF TypeOK

\* Steps that touch no token keep the invariant when the slot they leave or enter is
\* neither deleting an unknown token nor was exchanging one
LEMMA QuietStep ==
  ASSUME TokenInv, NEW p \in Slots, NEW r,
         req' = [req EXCEPT ![p] = r], req[p].pc # "issue",
         r.pc = "delete" => r.token \in known,
         UNCHANGED <<live, known, parent, spent, closed>>
  PROVE  KnownDeleted' /\ SpentStaysSpent' /\ Succession'
<1>1. \A q \in Slots : req'[q] = IF q = p THEN r ELSE req[q]
  BY OneSlot DEF TokenInv
<1>2. KnownDeleted'
  BY <1>1 DEF TokenInv, KnownDeleted
<1>3. SpentStaysSpent'
  BY DEF TokenInv, SpentStaysSpent, NoKey
<1>4. Succession'
  BY <1>1 DEF TokenInv, Succession
<1>5. QED BY <1>2, <1>3, <1>4

\* DEL of a known token that is closed at once, or whose exchange goes on
LEMMA DelStep ==
  ASSUME TokenInv, NEW t \in known, Del(t),
         UNCHANGED <<known, parent>>, closed \subseteq closed',
         \A q \in Slots : req'[q] = req[q]
                          \/ (req[q].pc = "delete" /\ req'[q].pc # "delete"),
         t \in closed' \/ \E q \in Slots : req'[q].pc = "issue" /\ req'[q].token = t
  PROVE  KnownDeleted' /\ SpentStaysSpent' /\ Succession'
<1>1. /\ t \in Tokens /\ spent' = spent \cup {t}
      /\ \A s \in Tokens : live'[s] = IF s = t THEN NoKey ELSE live[s]
  BY DEF TokenInv, TypeOK, Del
<1>2. KnownDeleted'
  BY <1>1 DEF TokenInv, KnownDeleted
<1>3. SpentStaysSpent'
  BY <1>1 DEF TokenInv, TypeOK, SpentStaysSpent, NoKey
<1>4. ASSUME NEW s \in spent
      PROVE  \/ s \in closed'
             \/ \E u \in known : parent[u] = s
             \/ \E q \in Slots : req'[q].pc = "issue" /\ req'[q].token = s
  BY <1>4 DEF TokenInv, Succession
<1>5. Succession'
  BY <1>1, <1>4 DEF Succession
<1>6. QED BY <1>2, <1>3, <1>5

\* SETEX of a token that no client knows, or none: the exchange it belongs to gets its
\* successor, or is closed
LEMMA SaveStep ==
  ASSUME TokenInv, NEW p \in Slots, NEW t \in Tokens, t \notin known, Leave(p),
         req[p].pc = "issue",
         Save(p, t) \/ UNCHANGED <<live, parent>>,
         UNCHANGED spent, known \subseteq known', closed \subseteq closed',
         \/ known' = known \cup {t} /\ parent'[t] = req[p].token
         \/ req[p].token \in closed' \cup {NoToken}
  PROVE  KnownDeleted' /\ SpentStaysSpent' /\ Succession'
<1>1. /\ \A q \in Slots : req'[q] = IF q = p THEN Idle ELSE req[q]
      /\ \A s \in Tokens : s # t => live'[s] = live[s] /\ parent'[s] = parent[s]
      /\ Idle.pc = "idle" /\ NoToken \notin Tokens /\ known \subseteq Tokens
      /\ spent \subseteq known
  <2>1. /\ live \in [Tokens -> [user : 0 .. Len(users), dies : Nat]]
        /\ parent \in [Tokens -> Tokens \cup {NoToken}]
    BY DEF TokenInv, TypeOK
  <2>2. \A s \in Tokens : s # t => live'[s] = live[s] /\ parent'[s] = parent[s]
    BY <2>1 DEF Save
  <2>3. \A q \in Slots : req'[q] = IF q = p THEN Idle ELSE req[q]
    <3>1. req' = [req EXCEPT ![p] = Idle] /\ req \in [Slots -> RequestType]
      BY DEF TokenInv, TypeOK, Leave
    <3>2. QED BY <3>1
  <2>4. QED BY <2>2, <2>3, AccountsAssumption DEF TokenInv, TypeOK, KnownDeleted, Idle
<1>2. KnownDeleted'
  BY <1>1 DEF TokenInv, KnownDeleted
<1>3. SpentStaysSpent'
  BY <1>1 DEF TokenInv, SpentStaysSpent, NoKey
<1>4. ASSUME NEW s \in spent
      PROVE  \/ s \in closed'
             \/ \E u \in known' : parent'[u] = s
             \/ \E q \in Slots : req'[q].pc = "issue" /\ req'[q].token = s
  <2>1. CASE s \in closed
    BY <2>1
  <2>2. CASE \E u \in known : parent[u] = s
    BY <1>1, <2>2
  <2>3. CASE \E q \in Slots : req[q].pc = "issue" /\ req[q].token = s
    BY <1>1, <1>4, <2>3
  <2>4. QED BY <1>4, <2>1, <2>2, <2>3 DEF TokenInv, Succession
<1>5. Succession'
  BY <1>4 DEF Succession
<1>6. QED BY <1>2, <1>3, <1>5

LEMMA TokenStep ==
  ASSUME TokenInv, [Next]_vars
  PROVE  KnownDeleted' /\ SpentStaysSpent' /\ Succession'
<1>1. ASSUME NEW p \in Slots, NEW a \in Account, RegisterSelect(p, a) \/ Login(p, a)
      PROVE  KnownDeleted' /\ SpentStaysSpent' /\ Succession'
  <2>1. PICK r : /\ Enter(p, r) /\ r.pc # "delete"
                 /\ UNCHANGED <<live, known, parent, spent, closed>>
    BY <1>1 DEF RegisterSelect, Login, history
  <2>2. req' = [req EXCEPT ![p] = r] /\ req[p].pc # "issue"
    BY <2>1 DEF Enter, Idle
  <2>3. QED BY <2>1, <2>2, QuietStep
<1>2. ASSUME NEW p \in Slots, RegisterCommit(p)
      PROVE  KnownDeleted' /\ SpentStaysSpent' /\ Succession'
  <2>1. /\ req' = [req EXCEPT ![p] = Idle] /\ Idle.pc = "idle" /\ req[p].pc # "issue"
        /\ UNCHANGED <<live, known, parent, spent, closed>>
    BY <1>2 DEF RegisterCommit, Leave, Idle
  <2>2. QED BY <2>1, QuietStep
<1>3. ASSUME NEW p \in Slots, NEW t \in Tokens, RefreshGet(p, t)
      PROVE  KnownDeleted' /\ SpentStaysSpent' /\ Succession'
  <2> DEFINE r == [pc |-> "delete", user |-> live[t].user, token |-> t]
  <2>1. /\ req' = [req EXCEPT ![p] = r] /\ r.token \in known /\ req[p].pc # "issue"
        /\ UNCHANGED <<live, known, parent, spent, closed>>
    BY <1>3 DEF RefreshGet, Enter, Idle, history
  <2>2. QED BY <2>1, QuietStep
<1>4. ASSUME NEW p \in Slots, RefreshDelete(p)
      PROVE  KnownDeleted' /\ SpentStaysSpent' /\ Succession'
  <2>1. req[p].token \in known
    BY <1>4 DEF RefreshDelete, TokenInv, KnownDeleted
  <2>2. \A q \in Slots : req'[q] = IF q = p THEN [req[p] EXCEPT !.pc = "issue"] ELSE req[q]
    BY <1>4 DEF RefreshDelete, TokenInv, TypeOK
  <2>3. req[p] \in [pc : {"delete"}, user : 1 .. Len(users), token : Tokens]
    BY <1>4 DEF RefreshDelete, TokenInv, TypeOK, RequestType
  <2>4. req'[p].pc = "issue" /\ req'[p].token = req[p].token
    BY <2>2, <2>3
  <2>5. \A q \in Slots : req'[q] = req[q] \/ (req[q].pc = "delete" /\ req'[q].pc # "delete")
    BY <1>4, <2>2, <2>4 DEF RefreshDelete
  <2>6. QED BY <1>4, <2>1, <2>4, <2>5, DelStep DEF RefreshDelete
<1>5. ASSUME NEW p \in Slots, RefreshDeleteRaises(p)
      PROVE  KnownDeleted' /\ SpentStaysSpent' /\ Succession'
  <2>1. req[p].token \in known /\ req[p].token \in Tokens /\ NoToken \notin Tokens
    BY <1>5, AccountsAssumption DEF RefreshDeleteRaises, TokenInv, KnownDeleted, TypeOK
  <2>2. req' = [req EXCEPT ![p] = Idle] /\ Idle.pc = "idle" /\ req[p].pc = "delete"
    BY <1>5 DEF RefreshDeleteRaises, Leave, Idle
  <2>3. \A q \in Slots : req'[q] = IF q = p THEN Idle ELSE req[q]
    BY <2>2, OneSlot DEF TokenInv
  <2>4. CASE Del(req[p].token) /\ Forfeit({req[p].token})
    BY <1>5, <2>1, <2>2, <2>3, <2>4, DelStep DEF RefreshDeleteRaises, Forfeit
  <2>5. CASE UNCHANGED <<live, spent, closed>>
    BY <1>5, <2>2, <2>5, QuietStep DEF RefreshDeleteRaises
  <2>6. QED BY <1>5, <2>4, <2>5 DEF RefreshDeleteRaises
<1>6. ASSUME NEW p \in Slots, NEW t \in Tokens, Issue(p, t)
      PROVE  KnownDeleted' /\ SpentStaysSpent' /\ Succession'
  <2>1. parent'[t] = req[p].token
    BY <1>6 DEF Issue, Save, TokenInv, TypeOK
  <2>2. QED BY <1>6, <2>1, SaveStep DEF Issue, Fresh
<1>7. ASSUME NEW p \in Slots, NEW t \in Tokens, IssueRaises(p, t)
      PROVE  KnownDeleted' /\ SpentStaysSpent' /\ Succession'
  <2>1. req[p].token \in closed' \cup {NoToken}
    BY <1>7 DEF IssueRaises, Forfeit
  <2>2. QED BY <1>7, <2>1, SaveStep DEF IssueRaises, Fresh, Forfeit
<1>8. ASSUME NEW t \in Tokens, Logout(t)
      PROVE  KnownDeleted' /\ SpentStaysSpent' /\ Succession'
  <2>1. t \in closed'
    BY <1>8, AccountsAssumption DEF Logout, Forfeit
  <2>2. QED BY <1>8, <2>1, DelStep DEF Logout, Forfeit
<1>9. CASE Restart
  <2>1. /\ \A q \in Slots : req'[q] = Idle
        /\ UNCHANGED <<live, known, parent, spent>> /\ Idle.pc = "idle"
    BY <1>9 DEF Restart, Idle
  <2>2. KnownDeleted' /\ SpentStaysSpent'
    BY <2>1 DEF TokenInv, KnownDeleted, SpentStaysSpent, NoKey
  <2>3. ASSUME NEW q \in Slots, req[q].pc = "issue", req[q].token \in spent
        PROVE  req[q].token \in closed'
    BY <1>9, <2>3, AccountsAssumption DEF Restart, Forfeit, TokenInv, TypeOK
  <2>4. Succession'
    BY <1>9, <2>1, <2>3 DEF TokenInv, Succession, Restart, Forfeit
  <2>5. QED BY <2>2, <2>4
<1>10. CASE Tick \/ UNCHANGED vars
  BY <1>10 DEF Tick, vars, history, TokenInv, KnownDeleted, SpentStaysSpent, Succession, NoKey
<1>11. QED BY <1>1, <1>2, <1>3, <1>4, <1>5, <1>6, <1>7, <1>8, <1>9, <1>10 DEF Next, RequestStep

LEMMA TokenInvariant == Spec => []TokenInv
<1>1. Init => TokenInv
  <2>1. Init => KnownDeleted /\ SpentStaysSpent /\ Succession
    BY DEF Init, KnownDeleted, SpentStaysSpent, Succession, Idle
  <2>2. QED BY <2>1, InitType DEF TokenInv
<1>2. TokenInv /\ [Next]_vars => TokenInv'
  BY StepType, TokenStep DEF TokenInv
<1>3. QED BY <1>1, <1>2, PTL DEF Spec

\* The key of a refresh token that was exchanged or logged out is never set again,
\* whatever requests had read before (SpentStaysSpent)
THEOREM SpentForGood == Spec => []SpentStaysSpent
BY TokenInvariant, PTL DEF TokenInv

\* Rotation by itself loses no session: the successor of a deleted token is known to
\* the client, under way, or given up with an error or a logout (Succession)
THEOREM RotationLosesNone == Spec => []Succession
BY TokenInvariant, PTL DEF TokenInv

-----------------------------------------------------------------------------
(* The unique constraint, and not the SELECT before it, keeps a name its     *)
(* owner's: a name once welcomed has its rows, all of them of that account   *)

Owned == \A a \in welcomed : IdsOf(a.name) # {}

LEMMA AccountStep ==
  ASSUME TypeOK, RegistrationHolds, Owned, [Next]_vars
  PROVE  RegistrationHolds' /\ Owned'
<1>1. CASE UNCHANGED <<users, welcomed>>
  BY <1>1 DEF RegistrationHolds, Owned, IdsOf
<1>2. ASSUME NEW p \in Slots, RegisterCommit(p), ~ UNCHANGED <<users, welcomed>>
      PROVE  RegistrationHolds' /\ Owned'
  <2>0. PICK b : b = req[p].account
    OBVIOUS
  <2>1. /\ IdsOf(b.name) = {} /\ users' = Append(users, b)
        /\ welcomed' \in {welcomed, welcomed \cup {b}}
    BY <1>2, <2>0 DEF RegisterCommit
  <2>2. users \in Seq(Account) /\ b \in Account
    BY <1>2, <2>0 DEF TypeOK, RequestType, RegisterCommit
  <2>3. /\ DOMAIN users' = DOMAIN users \cup {Len(users) + 1}
        /\ users'[Len(users) + 1] = b
        /\ \A i \in DOMAIN users : users'[i] = users[i]
    BY <2>1, <2>2
  <2>4. ASSUME NEW a \in welcomed
        PROVE  /\ IdsOf(a.name)' = IdsOf(a.name)
               /\ \A id \in IdsOf(a.name) : users'[id].password = a.password
    <3>1. a.name # b.name
      BY <2>1 DEF Owned
    <3>2. IdsOf(a.name)' = IdsOf(a.name)
      BY <2>3, <3>1 DEF IdsOf
    <3>3. QED BY <2>3, <3>2 DEF RegistrationHolds, IdsOf
  <2>5. IdsOf(b.name)' = {Len(users) + 1}
    BY <2>1, <2>3 DEF IdsOf
  <2>6. RegistrationHolds'
    <3>1. \A a \in welcomed' : \A id \in IdsOf(a.name)' : users'[id].password = a.password
      <4>1. ASSUME NEW a \in welcomed, NEW id \in IdsOf(a.name)'
            PROVE  (users')[id].password = a.password
        BY <2>4
      <4>2. ASSUME NEW id \in IdsOf(b.name)'
            PROVE  (users')[id].password = b.password
        BY <2>3, <2>5
      <4>3. QED BY <2>1, <4>1, <4>2
    <3>2. QED BY <3>1 DEF RegistrationHolds, IdsOf
  <2>7. Owned'
    <3>1. \A a \in welcomed' : IdsOf(a.name)' # {}
      BY <2>1, <2>4, <2>5 DEF Owned
    <3>2. QED BY <3>1 DEF Owned, IdsOf
  <2>8. QED BY <2>6, <2>7
<1>3. (\E p \in Slots : RegisterCommit(p)) \/ UNCHANGED <<users, welcomed>>
  BY DEF Next, RequestStep, RegisterSelect, Login, RefreshGet, RefreshDelete,
         RefreshDeleteRaises, Issue, IssueRaises, Logout, Restart, Tick, history, vars
<1>4. QED BY <1>1, <1>2, <1>3

\* Whoever was answered 201 owns the name, whatever registrations of it ran at the same
\* time (RegistrationHolds)
THEOREM OneOwner == Spec => []RegistrationHolds
<1>1. Init => RegistrationHolds /\ Owned
  BY DEF Init, RegistrationHolds, Owned
<1>2. TypeOK /\ RegistrationHolds /\ Owned /\ [Next]_vars => RegistrationHolds' /\ Owned'
  BY AccountStep
<1>3. QED BY <1>1, <1>2, TypeCorrect, PTL DEF Spec

-----------------------------------------------------------------------------
(* The successors of one token: whoever may still save one is among the     *)
(* requests that were under way when the token was deleted                  *)

Forks(t) == {s \in Tokens : parent[s] = t}

\* The requests that have read the token and are not over
Holders(t) == {p \in Slots : req[p].pc \in {"delete", "issue"} /\ req[p].token = t}

\* Before its DEL a token has no successor, and none is about to be saved
NoneYet(t) == Forks(t) = {} /\ \A p \in Slots : req[p].pc = "issue" => req[p].token # t

\* There is a slot for each successor, saved or to come
Room(t) ==
  /\ IsFiniteSet(Forks(t))
  /\ Cardinality(Forks(t)) + Cardinality(Holders(t)) <= Cardinality(Slots)

ForksFit == \A t \in Tokens : Room(t) /\ (t \notin spent => NoneYet(t))

\* There are finitely many of each
LEMMA Counts ==
  ASSUME NEW t \in Tokens, Room(t)
  PROVE  /\ Cardinality(Slots) \in Nat
         /\ IsFiniteSet(Forks(t)) /\ Cardinality(Forks(t)) \in Nat
         /\ IsFiniteSet(Holders(t)) /\ Cardinality(Holders(t)) \in Nat
         /\ Cardinality(Holders(t)) <= Cardinality(Slots)
<1>1. IsFiniteSet(Slots) /\ Holders(t) \subseteq Slots
  BY AccountsAssumption DEF Holders
<1>2. IsFiniteSet(Holders(t)) /\ Cardinality(Holders(t)) <= Cardinality(Slots)
  BY <1>1, FS_Subset
<1>3. QED BY <1>1, <1>2, FS_CardinalityType DEF Room

LEMMA RoomKept ==
  ASSUME NEW t \in Tokens, Room(t), UNCHANGED parent, Holders(t)' \subseteq Holders(t)
  PROVE  Room(t)'
<1>1. Forks(t)' = Forks(t)
  BY DEF Forks
<1>2. Cardinality(Holders(t)') <= Cardinality(Holders(t)) /\ IsFiniteSet(Holders(t)')
  BY Counts, FS_Subset
<1>3. Cardinality(Holders(t)') \in Nat
  BY <1>2, FS_CardinalityType
<1>4. /\ IsFiniteSet(Forks(t)')
      /\ Cardinality(Forks(t)') + Cardinality(Holders(t)') <= Cardinality(Slots)
  BY <1>1, <1>2, <1>3, Counts DEF Room
<1>5. QED BY <1>4 DEF Room

\* Steps that save no token, and read none from Redis, make no more successors
LEMMA HoldersLeave ==
  ASSUME ForksFit, UNCHANGED parent, spent \subseteq spent',
         \A q \in Slots :
           \/ req'[q] = req[q]
           \/ req'[q].pc \notin {"delete", "issue"}
           \/ req'[q].token \notin Tokens
           \/ /\ req[q].pc = "delete" /\ req'[q].token = req[q].token
              /\ req[q].token \in spent'
  PROVE  ForksFit'
<1>1. ASSUME NEW t \in Tokens
      PROVE  Room(t)'
  <2>1. Holders(t)' \subseteq Holders(t)
    BY DEF Holders
  <2>2. QED BY <2>1, RoomKept DEF ForksFit
<1>2. ASSUME NEW t \in Tokens, t \notin spent'
      PROVE  NoneYet(t)'
  <2>1. NoneYet(t)
    BY <1>2 DEF ForksFit
  <2>2. Forks(t)' = {}
    BY <2>1 DEF NoneYet, Forks
  <2>3. \A q \in Slots : req'[q].pc = "issue" => req'[q].token # t
    BY <1>2, <2>1 DEF NoneYet
  <2>4. QED BY <2>2, <2>3 DEF NoneYet
<1>3. QED BY <1>1, <1>2 DEF ForksFit

\* A token that can be read has no successor, whoever reads it besides
LEMMA GetFits ==
  ASSUME TokenInv, ForksFit, NEW p \in Slots, NEW t \in Tokens, RefreshGet(p, t)
  PROVE  ForksFit'
<1>1. /\ \A q \in Slots :
           req'[q] = IF q = p THEN [pc |-> "delete", user |-> live[t].user, token |-> t]
                     ELSE req[q]
      /\ UNCHANGED <<parent, spent, live>>
  BY OneSlot DEF RefreshGet, Enter, history, TokenInv
<1>2. t \notin spent
  BY DEF RefreshGet, Live, TokenInv, SpentStaysSpent, NoKey
<1>3. ASSUME NEW u \in Tokens
      PROVE  Room(u)'
  <2>1. CASE u # t
    <3>1. Holders(u)' \subseteq Holders(u)
      BY <1>1, <2>1 DEF Holders
    <3>2. QED BY <1>1, <3>1, RoomKept DEF ForksFit
  <2>2. CASE u = t
    <3>1. Forks(u) = {}
      BY <1>2, <2>2 DEF ForksFit, NoneYet
    <3>2. Forks(u)' = {} /\ Holders(u)' \subseteq Slots
      BY <1>1, <3>1 DEF Forks, Holders
    <3>3. /\ IsFiniteSet(Forks(u)') /\ Cardinality(Forks(u)') = 0
          /\ IsFiniteSet(Holders(u)') /\ Cardinality(Holders(u)') <= Cardinality(Slots)
      BY <3>2, FS_EmptySet, FS_Subset, AccountsAssumption
    <3>4. Cardinality(Holders(u)') \in Nat
      BY <3>3, FS_CardinalityType
    <3>5. Cardinality(Forks(u)') + Cardinality(Holders(u)') <= Cardinality(Slots)
      BY <3>3, <3>4
    <3>6. QED BY <3>3, <3>5 DEF Room
  <2>3. QED BY <2>1, <2>2
<1>4. ASSUME NEW u \in Tokens, u \notin spent'
      PROVE  NoneYet(u)'
  BY <1>1, <1>4 DEF ForksFit, NoneYet, Forks
<1>5. QED BY <1>3, <1>4 DEF ForksFit

\* A successor takes the place of the request that saves it
LEMMA SaveFits ==
  ASSUME TokenInv, ForksFit, NEW p \in Slots, NEW s \in Tokens, req[p].pc = "issue",
         Fresh(s), Save(p, s), Leave(p), UNCHANGED spent
  PROVE  ForksFit'
<1>1. /\ \A q \in Slots : req'[q] = IF q = p THEN Idle ELSE req[q]
      /\ \A u \in Tokens : parent'[u] = IF u = s THEN req[p].token ELSE parent[u]
      /\ Idle.pc = "idle" /\ parent[s] \notin Tokens
  BY OneSlot, AccountsAssumption DEF TokenInv, TypeOK, Leave, Save, Fresh, Idle
<1>2. ASSUME NEW t \in Tokens
      PROVE  Room(t)'
  <2>1. CASE t # req[p].token
    <3>1. Forks(t)' = Forks(t) /\ Holders(t)' = Holders(t)
      BY <1>1, <2>1 DEF Forks, Holders
    <3>2. Room(t)
      BY DEF ForksFit
    <3>3. /\ IsFiniteSet(Forks(t)')
          /\ Cardinality(Forks(t)') + Cardinality(Holders(t)') <= Cardinality(Slots)
      BY <3>1, <3>2 DEF Room
    <3>4. QED BY <3>3 DEF Room
  <2>2. CASE t = req[p].token
    <3>1. Forks(t)' = Forks(t) \cup {s} /\ s \notin Forks(t)
      BY <1>1, <2>2 DEF Forks
    <3>2. Holders(t)' = Holders(t) \ {p} /\ p \in Holders(t)
      BY <1>1, <2>2 DEF Holders
    <3>3. Room(t)
      BY DEF ForksFit
    <3>4. IsFiniteSet(Forks(t)') /\ Cardinality(Forks(t)') = Cardinality(Forks(t)) + 1
      BY <3>1, <3>3, Counts, FS_AddElement
    <3>5. Cardinality(Holders(t)') = Cardinality(Holders(t)) - 1
      BY <3>2, <3>3, Counts, FS_RemoveElement
    <3>6. Cardinality(Forks(t)') + Cardinality(Holders(t)') <= Cardinality(Slots)
      BY <3>3, <3>4, <3>5, Counts DEF Room
    <3>7. QED BY <3>4, <3>6 DEF Room
  <2>3. QED BY <2>1, <2>2
<1>3. ASSUME NEW t \in Tokens, t \notin spent'
      PROVE  NoneYet(t)'
  <2>1. NoneYet(t)
    BY <1>3 DEF ForksFit
  <2>2. Forks(t)' = {} /\ \A q \in Slots : req'[q].pc = "issue" => req'[q].token # t
    BY <1>1, <2>1 DEF NoneYet, Forks
  <2>3. QED BY <2>2 DEF NoneYet
<1>4. QED BY <1>2, <1>3 DEF ForksFit

LEMMA ForkStep ==
  ASSUME TokenInv, ForksFit, [Next]_vars
  PROVE  ForksFit'
<1>0. TypeOK /\ NoToken \notin Tokens /\ Idle.pc = "idle"
  BY AccountsAssumption DEF TokenInv, Idle
<1>1. ASSUME NEW p \in Slots, NEW a \in Account, RegisterSelect(p, a) \/ Login(p, a)
      PROVE  ForksFit'
  <2>1. PICK r : /\ Enter(p, r) /\ UNCHANGED <<parent, spent>>
                 /\ r.pc \notin {"delete", "issue"} \/ r.token = NoToken
    <3>1. CASE RegisterSelect(p, a)
      <4>1. [pc |-> "insert", account |-> a].pc = "insert"
        OBVIOUS
      <4>2. QED BY <3>1, <4>1 DEF RegisterSelect, history
    <3>2. CASE Login(p, a)
      <4>1. PICK id : Enter(p, [pc |-> "issue", user |-> id, token |-> NoToken])
        BY <3>2 DEF Login
      <4>2. [pc |-> "issue", user |-> id, token |-> NoToken].token = NoToken
        OBVIOUS
      <4>3. QED BY <3>2, <4>1, <4>2 DEF Login, history
    <3>3. QED BY <1>1, <3>1, <3>2
  <2>2. \A q \in Slots : req'[q] = IF q = p THEN r ELSE req[q]
    BY <1>0, <2>1, OneSlot DEF Enter
  <2>3. QED BY <1>0, <2>1, <2>2, HoldersLeave
<1>2. ASSUME NEW p \in Slots, RegisterCommit(p) \/ RefreshDeleteRaises(p)
      PROVE  ForksFit'
  <2>1. \A q \in Slots : req'[q] = IF q = p THEN Idle ELSE req[q]
    BY <1>0, <1>2, OneSlot DEF RegisterCommit, RefreshDeleteRaises, Leave
  <2>2. UNCHANGED parent /\ spent \subseteq spent'
    BY <1>2 DEF RegisterCommit, RefreshDeleteRaises, Del
  <2>3. QED BY <1>0, <2>1, <2>2, HoldersLeave
<1>3. ASSUME NEW p \in Slots, RefreshDelete(p)
      PROVE  ForksFit'
  <2>1. req[p] \in [pc : {"delete"}, user : 1 .. Len(users), token : Tokens]
    BY <1>3 DEF RefreshDelete, TokenInv, TypeOK, RequestType
  <2>2. /\ \A q \in Slots : req'[q] = IF q = p THEN [req[p] EXCEPT !.pc = "issue"] ELSE req[q]
        /\ UNCHANGED parent /\ spent' = spent \cup {req[p].token}
    BY <1>0, <1>3 DEF RefreshDelete, Del, TypeOK
  <2>3. req'[p].token = req[p].token
    BY <2>1, <2>2
  <2>4. QED BY <2>1, <2>2, <2>3, HoldersLeave
<1>4. ASSUME NEW p \in Slots, NEW t \in Tokens, RefreshGet(p, t)
      PROVE  ForksFit'
  BY <1>4, GetFits
<1>5. ASSUME NEW p \in Slots, NEW t \in Tokens, Issue(p, t)
      PROVE  ForksFit'
  BY <1>5, SaveFits DEF Issue
<1>6. ASSUME NEW p \in Slots, NEW t \in Tokens, IssueRaises(p, t)
      PROVE  ForksFit'
  <2>1. CASE Save(p, t)
    BY <1>6, <2>1, SaveFits DEF IssueRaises
  <2>2. CASE UNCHANGED <<live, parent>>
    <3>1. \A q \in Slots : req'[q] = IF q = p THEN Idle ELSE req[q]
      BY <1>0, <1>6, OneSlot DEF IssueRaises, Leave
    <3>2. QED BY <1>0, <1>6, <2>2, <3>1, HoldersLeave DEF IssueRaises
  <2>3. QED BY <1>6, <2>1, <2>2 DEF IssueRaises
<1>7. CASE Restart
  BY <1>0, <1>7, HoldersLeave DEF Restart
<1>8. CASE (\E t \in Tokens : Logout(t)) \/ Tick \/ UNCHANGED vars
  <2>1. UNCHANGED <<parent, req>> /\ spent \subseteq spent'
    BY <1>8 DEF Logout, Del, Tick, vars, history
  <2>2. QED BY <2>1, HoldersLeave
<1>9. QED BY <1>1, <1>2, <1>3, <1>4, <1>5, <1>6, <1>7, <1>8 DEF Next, RequestStep

\* However many requests present a refresh token together, it is never exchanged more
\* often than requests run at once: whoever read it before its DEL is under way, and
\* nobody reads it after (ForksBounded)
THEOREM ForksFitTheSlots == Spec => []ForksBounded
<1>1. Init => ForksFit
  <2>1. SUFFICES ASSUME Init, NEW t \in Tokens PROVE Room(t) /\ NoneYet(t)
    BY DEF ForksFit
  <2>2. Forks(t) = {} /\ Holders(t) = {}
    BY <2>1, AccountsAssumption DEF Init, Forks, Holders, Idle
  <2>3. Cardinality(Slots) \in Nat
    BY AccountsAssumption, FS_CardinalityType
  <2>4. Room(t)
    BY <2>2, <2>3, FS_EmptySet DEF Room
  <2>5. NoneYet(t)
    BY <2>1, <2>2 DEF Init, NoneYet, Idle
  <2>6. QED BY <2>4, <2>5
<1>2. TokenInv /\ ForksFit /\ [Next]_vars => ForksFit'
  BY ForkStep
<1>3. ForksFit => ForksBounded
  <2>1. ASSUME NEW t \in Tokens, Room(t)
        PROVE  Cardinality(Forks(t)) <= Cardinality(Slots)
    BY <2>1, Counts DEF Room
  <2>2. QED BY <2>1 DEF ForksFit, ForksBounded, Forks
<1>4. QED BY <1>1, <1>2, <1>3, TokenInvariant, PTL DEF Spec
=============================================================================
