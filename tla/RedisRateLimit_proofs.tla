------------------------ MODULE RedisRateLimit_proofs ------------------------
(***************************************************************************)
(* The interval the limiter keeps with Redis, for any requests, clients,   *)
(* delays, clock skews and lost replies.                                   *)
(***************************************************************************)
EXTENDS RedisRateLimit, TLAPS

\* A request under way arrived not too long ago, and its timestamp lags behind
\* its arrival by the skew at most.
OnItsWay(r) ==
  Waiting(r) => /\ req[r].at <= now
                /\ now <= req[r].at + MaxDelay
                /\ req[r].stamp >= req[r].at - MaxSkew

\* The key of a client remembers every request that was let through for it, its
\* timestamp lagging behind by delay and skew at most.
Remembered(r) ==
  req[r].pc = "allowed" =>
    /\ req[r].at <= now
    /\ last[ClientOf[r]].stamp >= req[r].at - MaxDelay - MaxSkew
    /\ last[ClientOf[r]].expires >= req[r].at + StaleAfter

IInv ==
  /\ TypeOK
  /\ \A r \in Requests : OnItsWay(r) /\ Remembered(r)
  /\ Spaced

-----------------------------------------------------------------------------
\* Retry-After is a natural number of seconds: a request is denied only when the
\* interval is not over
LEMMA RetryAfterType ==
  ASSUME NEW elapsed \in Int, elapsed < MinInterval
  PROVE  RetryAfter(elapsed) \in Nat
<1>1. MinInterval - elapsed \in Nat /\ TicksPerSecond \in Nat /\ TicksPerSecond > 0
  BY RateLimitAssumption
<1>2. ASSUME NEW x \in Nat, NEW t \in Nat, t > 0
      PROVE  x \div t \in Nat
  BY <1>2, SMTT(30)
<1>3. QED BY <1>1, <1>2 DEF RetryAfter

\* An answer changes the record of one request
LEMMA AnswerChanges ==
  ASSUME TypeOK, NEW r \in Requests, NEW pc \in RequestPC, NEW stamp \in Int,
         NEW retry \in Nat, Answer(r, pc, stamp, retry)
  PROVE  /\ req' \in [Requests -> RequestType]
         /\ req'[r] = [pc |-> pc, stamp |-> stamp, at |-> now, retry |-> retry]
         /\ \A s \in Requests \ {r} : req'[s] = req[s]
BY DEF TypeOK, Answer, RequestType

\* Whatever becomes of it, the script keeps what the key remembers or replaces it
\* by a timestamp of the present
LEMMA ScriptStores ==
  ASSUME TypeOK, NEW r \in Requests, Script(r) \/ UNCHANGED <<last, storedAt>>
  PROVE  /\ last' \in [Clients -> [stamp : Int, expires : Nat]]
         /\ storedAt' \in [Requests -> SUBSET Nat]
         /\ \A c \in Clients :
              \/ last'[c] = last[c]
              \/ /\ c = ClientOf[r] /\ ~Limited(c)
                 /\ last'[c] = [stamp |-> req[r].stamp, expires |-> now + StaleAfter]
<1>1. /\ ClientOf[r] \in Clients /\ StaleAfter \in Nat /\ now \in Nat
      /\ req[r].stamp \in Int
  BY RateLimitAssumption DEF TypeOK, RequestType
<1>2. QED BY <1>1 DEF TypeOK, Script, Stored, Expires

-----------------------------------------------------------------------------
\* The script keeps Remembered for every request that was let through before:
\* a new timestamp is at least as recent as any of theirs can be
LEMMA RememberedKept ==
  ASSUME IInv, NEW r \in Requests, Waiting(r), Script(r) \/ UNCHANGED <<last, storedAt>>,
         UNCHANGED now, NEW s \in Requests, req'[s] = req[s]
  PROVE  Remembered(s)'
<1>1. SUFFICES ASSUME req[s].pc = "allowed" PROVE Remembered(s)'
  BY DEF Remembered
<1>2. /\ Remembered(s) /\ OnItsWay(r) /\ ClientOf[s] \in Clients
      /\ req[s].at \in Nat /\ req[r].at \in Nat /\ req[r].stamp \in Int /\ now \in Nat
      /\ MaxDelay \in Nat /\ MaxSkew \in Nat /\ StaleAfter \in Nat
  BY RateLimitAssumption, RedisAssumption DEF IInv, TypeOK, RequestType
<1>3. CASE last'[ClientOf[s]] = last[ClientOf[s]]
  BY <1>1, <1>2, <1>3 DEF Remembered
<1>4. CASE last'[ClientOf[s]] = [stamp |-> req[r].stamp, expires |-> now + StaleAfter]
  <2>1. /\ req[s].at <= now /\ req[r].stamp >= req[r].at - MaxSkew
        /\ now <= req[r].at + MaxDelay
    BY <1>1, <1>2 DEF Remembered, OnItsWay
  <2>2. /\ last'[ClientOf[s]].stamp >= req[s].at - MaxDelay - MaxSkew
        /\ last'[ClientOf[s]].expires >= req[s].at + StaleAfter
    BY <1>2, <1>4, <2>1
  <2>3. QED BY <1>1, <2>1, <2>2 DEF Remembered
<1>5. QED BY <1>2, <1>3, <1>4, ScriptStores DEF IInv

\* A request the script lets through comes late enough after the others
LEMMA NotLimitedApart ==
  ASSUME IInv, NEW s \in Requests, req[s].pc = "allowed", ~Limited(ClientOf[s])
  PROVE  now - req[s].at >= MinInterval - MaxDelay - MaxSkew
<1>1. /\ Remembered(s) /\ ClientOf[s] \in Clients
      /\ req[s].at \in Nat /\ now \in Nat
      /\ last[ClientOf[s]].stamp \in Int /\ last[ClientOf[s]].expires \in Nat
      /\ MaxDelay \in Nat /\ MaxSkew \in Nat /\ MinInterval \in Nat
      /\ StaleAfter \in Nat /\ StaleAfter >= MinInterval
  BY RateLimitAssumption, RedisAssumption DEF IInv, TypeOK, RequestType
<1>2. CASE ~Live(ClientOf[s])
  <2>1. now >= req[s].at + StaleAfter
    BY <1>1, <1>2 DEF Live, Remembered
  <2>2. QED BY <1>1, <2>1
<1>3. CASE now - last[ClientOf[s]].stamp >= MinInterval
  BY <1>1, <1>3 DEF Remembered
<1>4. QED BY <1>1, <1>2, <1>3 DEF Limited

-----------------------------------------------------------------------------
LEMMA InitIInv == Init => IInv
<1>1. SUFFICES ASSUME Init PROVE IInv
  OBVIOUS
<1>2. TypeOK
  BY <1>1 DEF Init, TypeOK, Unsent, RequestType, RequestPC
<1>3. \A r \in Requests : OnItsWay(r) /\ Remembered(r)
  BY <1>1 DEF Init, Unsent, OnItsWay, Remembered, Waiting
<1>4. Spaced
  BY <1>1 DEF Init, Unsent, Spaced, Apart, Allowed
<1>5. QED BY <1>2, <1>3, <1>4 DEF IInv

\* Requests that are let through stay apart when no other is let through
LEMMA SpacedKept ==
  ASSUME Spaced, NEW r \in Requests, req'[r].pc # "allowed",
         \A s \in Requests \ {r} : req'[s] = req[s]
  PROVE  Spaced'
BY DEF Spaced, Apart, Allowed

LEMMA ArriveKeeps ==
  ASSUME IInv, NEW r \in Requests, Arrive(r)
  PROVE  IInv'
<1>1. PICK skew \in -MaxSkew .. MaxSkew : Answer(r, "sent", now + skew, 0)
  BY DEF Arrive
<1>2. /\ TypeOK /\ now \in Nat /\ MaxSkew \in Nat /\ MaxDelay \in Nat
      /\ now + skew \in Int /\ skew >= -MaxSkew
  BY RedisAssumption DEF IInv, TypeOK
<1>3. /\ req' \in [Requests -> RequestType]
      /\ req'[r] = [pc |-> "sent", stamp |-> now + skew, at |-> now, retry |-> 0]
      /\ \A s \in Requests \ {r} : req'[s] = req[s]
  <2>1. "sent" \in RequestPC /\ 0 \in Nat
    BY DEF RequestPC
  <2>2. QED BY <1>1, <1>2, <2>1, AnswerChanges
<1>4. TypeOK'
  BY <1>2, <1>3 DEF TypeOK, Arrive
<1>5. ASSUME NEW s \in Requests
      PROVE  OnItsWay(s)' /\ Remembered(s)'
  <2>1. CASE s = r
    BY <1>2, <1>3, <2>1 DEF OnItsWay, Remembered, Waiting, Arrive
  <2>2. CASE s # r
    BY <1>3, <2>2 DEF IInv, OnItsWay, Remembered, Waiting, Arrive
  <2>3. QED BY <2>1, <2>2
<1>6. Spaced'
  BY <1>3, SpacedKept DEF IInv
<1>7. QED BY <1>4, <1>5, <1>6 DEF IInv

\* What the script and the answer to r keep, when r is not let through: both
\* "resent" and the final answers
LEMMA NotAllowedKeeps ==
  ASSUME IInv, NEW r \in Requests, Waiting(r), Script(r) \/ UNCHANGED <<last, storedAt>>,
         UNCHANGED now, req' \in [Requests -> RequestType],
         req'[r].pc # "allowed", OnItsWay(r)',
         \A s \in Requests \ {r} : req'[s] = req[s]
  PROVE  IInv'
<1>1. TypeOK'
  BY ScriptStores DEF IInv, TypeOK
<1>2. ASSUME NEW s \in Requests
      PROVE  OnItsWay(s)' /\ Remembered(s)'
  <2>1. CASE s = r
    BY <2>1 DEF Remembered
  <2>2. CASE s # r
    <3>1. OnItsWay(s)'
      BY <2>2 DEF IInv, OnItsWay, Waiting
    <3>2. Remembered(s)'
      BY <2>2, RememberedKept
    <3>3. QED BY <3>1, <3>2
  <2>3. QED BY <2>1, <2>2
<1>3. Spaced'
  BY SpacedKept DEF IInv
<1>4. QED BY <1>1, <1>2, <1>3 DEF IInv

LEMMA LoseReplyKeeps ==
  ASSUME IInv, NEW r \in Requests, LoseReply(r)
  PROVE  IInv'
<1>1. /\ req' \in [Requests -> RequestType]
      /\ req'[r] = [req[r] EXCEPT !.pc = "resent"]
      /\ \A s \in Requests \ {r} : req'[s] = req[s]
  BY DEF IInv, TypeOK, LoseReply, RequestType, RequestPC
<1>2. req'[r].pc = "resent" /\ req'[r].at = req[r].at /\ req'[r].stamp = req[r].stamp
  BY <1>1 DEF IInv, TypeOK, RequestType
<1>3. Waiting(r) /\ OnItsWay(r)'
  BY <1>2 DEF IInv, OnItsWay, Waiting, LoseReply
<1>4. QED BY <1>1, <1>2, <1>3, NotAllowedKeeps DEF LoseReply

LEMMA RedisRaisesKeeps ==
  ASSUME IInv, NEW r \in Requests, RedisRaises(r)
  PROVE  IInv'
<1>1. "unchecked" \in RequestPC /\ 0 \in Nat /\ req[r].stamp \in Int
  BY DEF IInv, TypeOK, RequestType, RequestPC
<1>2. /\ req' \in [Requests -> RequestType]
      /\ req'[r] = [pc |-> "unchecked", stamp |-> req[r].stamp, at |-> now, retry |-> 0]
      /\ \A s \in Requests \ {r} : req'[s] = req[s]
  BY <1>1, AnswerChanges DEF IInv, RedisRaises
<1>3. OnItsWay(r)'
  BY <1>2 DEF OnItsWay, Waiting
<1>4. QED BY <1>2, <1>3, NotAllowedKeeps DEF RedisRaises

LEMMA DenyKeeps ==
  ASSUME IInv, NEW r \in Requests, Decide(r), Limited(ClientOf[r])
  PROVE  IInv'
<1> DEFINE elapsed == now - last[ClientOf[r]].stamp
<1>1. elapsed \in Int /\ elapsed < MinInterval
  BY RateLimitAssumption DEF IInv, TypeOK, Limited
<1>2. RetryAfter(elapsed) \in Nat
  BY <1>1, RetryAfterType
<1>3. "denied" \in RequestPC /\ req[r].stamp \in Int
  BY DEF IInv, TypeOK, RequestType, RequestPC
<1>4. PICK retry \in Nat : Answer(r, "denied", req[r].stamp, retry)
  BY <1>2 DEF Decide
<1>5. /\ req' \in [Requests -> RequestType]
      /\ req'[r] = [pc |-> "denied", stamp |-> req[r].stamp, at |-> now, retry |-> retry]
      /\ \A s \in Requests \ {r} : req'[s] = req[s]
  BY <1>3, <1>4, AnswerChanges DEF IInv
<1>6. OnItsWay(r)'
  BY <1>5 DEF OnItsWay, Waiting
<1>7. QED BY <1>5, <1>6, NotAllowedKeeps DEF Decide

LEMMA AllowKeeps ==
  ASSUME IInv, NEW r \in Requests, Decide(r), ~Limited(ClientOf[r])
  PROVE  IInv'
<1>1. /\ "allowed" \in RequestPC /\ 0 \in Nat /\ req[r].stamp \in Int
      /\ req[r].at \in Nat /\ now \in Nat /\ now' = now /\ ClientOf[r] \in Clients
      /\ MaxDelay \in Nat /\ MaxSkew \in Nat /\ StaleAfter \in Nat /\ MinInterval \in Nat
      /\ Waiting(r) /\ Script(r)
  BY RateLimitAssumption, RedisAssumption DEF IInv, TypeOK, RequestType, RequestPC, Decide
<1>2. /\ req' \in [Requests -> RequestType]
      /\ req'[r] = [pc |-> "allowed", stamp |-> req[r].stamp, at |-> now, retry |-> 0]
      /\ \A s \in Requests \ {r} : req'[s] = req[s]
  BY <1>1, AnswerChanges DEF IInv, Decide
<1>3. TypeOK'
  BY <1>1, <1>2, ScriptStores DEF IInv, TypeOK
<1>4. last'[ClientOf[r]] = [stamp |-> req[r].stamp, expires |-> now + StaleAfter]
  BY <1>1 DEF IInv, TypeOK, Script, Stored, Expires
<1>5. ASSUME NEW s \in Requests
      PROVE  OnItsWay(s)' /\ Remembered(s)'
  <2>1. CASE s = r
    <3>1. req[r].stamp >= req[r].at - MaxSkew /\ now <= req[r].at + MaxDelay
      BY <1>1 DEF IInv, OnItsWay
    <3>2. req[r].stamp >= now - MaxDelay - MaxSkew
      BY <1>1, <3>1
    <3>3. Remembered(r)'
      BY <1>1, <1>2, <1>4, <3>2 DEF Remembered
    <3>4. QED BY <1>2, <2>1, <3>3 DEF OnItsWay, Waiting
  <2>2. CASE s # r
    <3>1. OnItsWay(s)'
      BY <1>1, <1>2, <2>2 DEF IInv, OnItsWay, Waiting
    <3>2. Remembered(s)'
      BY <1>1, <1>2, <2>2, RememberedKept
    <3>3. QED BY <3>1, <3>2
  <2>3. QED BY <2>1, <2>2
<1>6. Spaced'
  <2> DEFINE gap == MinInterval - MaxDelay - MaxSkew
  <2>1. ASSUME NEW s \in Requests \ {r}, ClientOf[s] = ClientOf[r], req[s].pc = "allowed"
        PROVE  req'[r].at - req'[s].at >= gap
    BY <1>2, <2>1, NotLimitedApart
  <2>2. ASSUME NEW c \in Clients, NEW s \in Allowed(c)', NEW t \in Allowed(c)', s # t
        PROVE  req'[s].at - req'[t].at >= gap \/ req'[t].at - req'[s].at >= gap
    <3>1. CASE s = r
      BY <1>2, <2>1, <2>2, <3>1 DEF Allowed
    <3>2. CASE t = r
      BY <1>2, <2>1, <2>2, <3>2 DEF Allowed
    <3>3. CASE s # r /\ t # r
      BY <1>2, <2>2, <3>3 DEF IInv, Spaced, Apart, Allowed
    <3>4. QED BY <3>1, <3>2, <3>3
  <2>3. QED BY <2>2 DEF Spaced, Apart
<1>7. QED BY <1>3, <1>5, <1>6 DEF IInv

LEMMA TickKeeps ==
  ASSUME IInv, Tick
  PROVE  IInv'
<1>1. TypeOK'
  BY DEF IInv, TypeOK, Tick
<1>2. ASSUME NEW r \in Requests
      PROVE  OnItsWay(r)' /\ Remembered(r)'
  <2>1. now \in Nat /\ req[r].at \in Nat /\ MaxDelay \in Nat
    BY RedisAssumption DEF IInv, TypeOK, RequestType
  <2>2. OnItsWay(r)'
    BY <2>1 DEF IInv, OnItsWay, Waiting, Tick
  <2>3. Remembered(r)'
    BY <2>1 DEF IInv, Remembered, Tick
  <2>4. QED BY <2>2, <2>3
<1>3. Spaced'
  BY DEF IInv, Spaced, Apart, Allowed, Tick
<1>4. QED BY <1>1, <1>2, <1>3 DEF IInv

LEMMA NextKeeps == IInv /\ [Next]_vars => IInv'
<1>1. SUFFICES ASSUME IInv, [Next]_vars PROVE IInv'
  OBVIOUS
<1>2. ASSUME NEW r \in Requests, Arrive(r) PROVE IInv'
  BY <1>1, <1>2, ArriveKeeps
<1>3. ASSUME NEW r \in Requests, Decide(r) PROVE IInv'
  BY <1>1, <1>3, DenyKeeps, AllowKeeps
<1>4. ASSUME NEW r \in Requests, LoseReply(r) PROVE IInv'
  BY <1>1, <1>4, LoseReplyKeeps
<1>5. ASSUME NEW r \in Requests, RedisRaises(r) PROVE IInv'
  BY <1>1, <1>5, RedisRaisesKeeps
<1>6. CASE Tick
  BY <1>1, <1>6, TickKeeps
<1>7. CASE UNCHANGED vars
  BY <1>1, <1>7 DEF IInv, vars, TypeOK, OnItsWay, Remembered, Waiting,
                    Spaced, Apart, Allowed
<1>8. QED BY <1>1, <1>2, <1>3, <1>4, <1>5, <1>6, <1>7 DEF Next

\* Timestamps are integers, and Retry-After natural, however the clocks differ.
THEOREM LimiterTypeCorrect == Spec => []TypeOK
<1>1. IInv => TypeOK
  BY DEF IInv
<1>2. QED BY <1>1, InitIInv, NextKeeps, PTL DEF Spec

\* For any clients, requests, delays, skews and failures of Redis, two requests
\* whose interval was checked are let through at least the interval less the
\* delay and skew apart: the script is atomic and the key outlives the interval.
THEOREM SpacingKept == Spec => []Spaced
<1>1. IInv => Spaced
  BY DEF IInv
<1>2. QED BY <1>1, InitIInv, NextKeeps, PTL DEF Spec

-----------------------------------------------------------------------------
(* Why requests are denied *)

\* A timestamp is ahead of the arrival of its request by the skew at most
Stamped(r) == Waiting(r) => req[r].stamp <= req[r].at + MaxSkew

\* The timestamp t of c's key is one that a request of c stored then
StoredBy(c, s, t) ==
  /\ ClientOf[s] = c /\ t \in storedAt[s]
  /\ t <= now /\ last[c].stamp <= t + MaxSkew

\* A key that has not expired holds the timestamp of some request of its client
HasOrigin(c) == Live(c) => \E s \in Requests : \E t \in Nat : StoredBy(c, s, t)

\* What DeniedForCause says of one denied request
HasCause(r) ==
  req[r].pc = "denied" =>
    \E s \in Requests : \E t \in storedAt[s] :
       /\ ClientOf[s] = ClientOf[r]
       /\ t <= req[r].at /\ req[r].at - t < MinInterval + MaxSkew

CInv ==
  /\ IInv
  /\ \A r \in Requests : Stamped(r) /\ HasCause(r)
  /\ \A c \in Clients : HasOrigin(c)

\* The history only grows
LEMMA StoredGrows ==
  ASSUME TypeOK, NEW r \in Requests, Script(r) \/ UNCHANGED <<last, storedAt>>
  PROVE  \A s \in Requests : storedAt[s] \subseteq storedAt'[s]
BY DEF TypeOK, Script

\* The script replaces a timestamp by the one of its own request
LEMMA OriginKept ==
  ASSUME CInv, NEW r \in Requests, Waiting(r), UNCHANGED now,
         Script(r) \/ UNCHANGED <<last, storedAt>>
  PROVE  \A c \in Clients : HasOrigin(c)'
<1>1. SUFFICES ASSUME NEW c \in Clients PROVE HasOrigin(c)'
  OBVIOUS
<1>2. TypeOK /\ HasOrigin(c)
  BY DEF CInv, IInv
<1>3. CASE UNCHANGED <<last, storedAt>>
  BY <1>2, <1>3 DEF HasOrigin, StoredBy, Live
<1>4. CASE Script(r) /\ ~Limited(ClientOf[r]) /\ c = ClientOf[r]
  <2>1. last'[c].stamp = req[r].stamp /\ now \in storedAt'[r]
    BY <1>2, <1>4 DEF TypeOK, Script, Stored
  <2>2. req[r].stamp <= req[r].at + MaxSkew /\ req[r].at <= now
    BY DEF CInv, IInv, Stamped, OnItsWay
  <2>3. req[r].stamp <= now + MaxSkew
    BY <1>2, <2>2, RedisAssumption DEF TypeOK, RequestType
  <2>4. now \in Nat /\ StoredBy(c, r, now)'
    BY <1>2, <1>4, <2>1, <2>3 DEF TypeOK, StoredBy
  <2>5. QED BY <2>4 DEF HasOrigin, StoredBy
<1>5. CASE Script(r) /\ ~Limited(ClientOf[r]) /\ c # ClientOf[r]
  <2>1. last'[c] = last[c]
    BY <1>2, <1>5 DEF TypeOK, Script, Stored
  <2>2. ASSUME NEW s \in Requests, NEW t \in Nat, StoredBy(c, s, t)
        PROVE  StoredBy(c, s, t)'
    BY <1>2, <2>1, <2>2, StoredGrows DEF StoredBy
  <2>3. QED BY <1>2, <2>1, <2>2 DEF HasOrigin, Live
<1>6. QED BY <1>3, <1>4, <1>5 DEF Script

LEMMA CauseKept ==
  ASSUME NEW r \in Requests, HasCause(r), req'[r] = req[r],
         \A s \in Requests : storedAt[s] \subseteq storedAt'[s]
  PROVE  HasCause(r)'
BY DEF HasCause

\* The script and the answer to r keep the invariant if the answer has a cause
LEMMA StepKeepsCauses ==
  ASSUME CInv, IInv', NEW r \in Requests, Waiting(r), UNCHANGED now,
         Script(r) \/ UNCHANGED <<last, storedAt>>,
         \A s \in Requests \ {r} : req'[s] = req[s],
         Stamped(r)', HasCause(r)'
  PROVE  CInv'
<1>1. \A c \in Clients : HasOrigin(c)'
  BY OriginKept
<1>2. ASSUME NEW s \in Requests
      PROVE  Stamped(s)' /\ HasCause(s)'
  <2>1. CASE s = r
    BY <2>1
  <2>2. CASE s # r
    <3>1. Stamped(s)'
      BY <2>2 DEF CInv, Stamped, Waiting
    <3>2. HasCause(s)'
      BY <2>2, CauseKept, StoredGrows DEF CInv, IInv
    <3>3. QED BY <3>1, <3>2
  <2>3. QED BY <2>1, <2>2
<1>3. QED BY <1>1, <1>2 DEF CInv

LEMMA ArriveKeepsCauses ==
  ASSUME CInv, IInv', NEW r \in Requests, Arrive(r)
  PROVE  CInv'
<1>1. PICK skew \in -MaxSkew .. MaxSkew : Answer(r, "sent", now + skew, 0)
  BY DEF Arrive
<1>2. TypeOK /\ now \in Nat /\ MaxSkew \in Nat /\ skew <= MaxSkew /\ now + skew \in Int
  BY RedisAssumption DEF CInv, IInv, TypeOK
<1>3. /\ req'[r] = [pc |-> "sent", stamp |-> now + skew, at |-> now, retry |-> 0]
      /\ \A s \in Requests \ {r} : req'[s] = req[s]
  <2>1. "sent" \in RequestPC /\ 0 \in Nat
    BY DEF RequestPC
  <2>2. QED BY <1>1, <1>2, <2>1, AnswerChanges
<1>4. ASSUME NEW s \in Requests
      PROVE  Stamped(s)' /\ HasCause(s)'
  <2>1. CASE s = r
    BY <1>2, <1>3, <2>1 DEF Stamped, HasCause
  <2>2. CASE s # r
    BY <1>3, <2>2 DEF CInv, Stamped, Waiting, HasCause, Arrive
  <2>3. QED BY <2>1, <2>2
<1>5. \A c \in Clients : HasOrigin(c)'
  BY DEF CInv, HasOrigin, StoredBy, Live, Arrive
<1>6. QED BY <1>4, <1>5 DEF CInv

LEMMA DecideKeepsCauses ==
  ASSUME CInv, IInv', NEW r \in Requests, Decide(r)
  PROVE  CInv'
<1>1. /\ TypeOK /\ req'[r].at = now /\ ~Waiting(r)'
      /\ req'[r].pc = IF Limited(ClientOf[r]) THEN "denied" ELSE "allowed"
      /\ \A s \in Requests \ {r} : req'[s] = req[s]
  BY DEF CInv, IInv, TypeOK, Decide, Answer, Waiting
<1>2. HasCause(r)'
  <2>1. SUFFICES ASSUME Limited(ClientOf[r]) PROVE HasCause(r)'
    BY <1>1 DEF HasCause
  <2>2. ClientOf[r] \in Clients
    BY RateLimitAssumption
  <2>3. PICK s \in Requests, t \in Nat : StoredBy(ClientOf[r], s, t)
    BY <2>1, <2>2 DEF CInv, HasOrigin, Limited
  <2>4. t <= now /\ now - t < MinInterval + MaxSkew
    BY <1>1, <2>1, <2>2, <2>3, RateLimitAssumption, RedisAssumption
       DEF TypeOK, StoredBy, Limited
  <2>5. t \in storedAt'[s] /\ ClientOf[s] = ClientOf[r]
    BY <1>1, <2>3, StoredGrows DEF StoredBy, Decide
  <2>6. QED BY <1>1, <2>4, <2>5 DEF HasCause
<1>3. Stamped(r)'
  BY <1>1 DEF Stamped
<1>4. QED BY <1>1, <1>2, <1>3, StepKeepsCauses DEF Decide

LEMMA LoseReplyKeepsCauses ==
  ASSUME CInv, IInv', NEW r \in Requests, LoseReply(r)
  PROVE  CInv'
<1>1. /\ req'[r].pc = "resent" /\ req'[r].stamp = req[r].stamp /\ req'[r].at = req[r].at
      /\ \A s \in Requests \ {r} : req'[s] = req[s]
  BY DEF CInv, IInv, TypeOK, RequestType, LoseReply
<1>2. Waiting(r) /\ Stamped(r)' /\ HasCause(r)'
  BY <1>1 DEF CInv, Stamped, HasCause, Waiting, LoseReply
<1>3. QED BY <1>1, <1>2, StepKeepsCauses DEF LoseReply

LEMMA RedisRaisesKeepsCauses ==
  ASSUME CInv, IInv', NEW r \in Requests, RedisRaises(r)
  PROVE  CInv'
<1>1. /\ req'[r].pc = "unchecked"
      /\ \A s \in Requests \ {r} : req'[s] = req[s]
  BY DEF CInv, IInv, TypeOK, RedisRaises, Answer
<1>2. Stamped(r)' /\ HasCause(r)'
  BY <1>1 DEF Stamped, HasCause, Waiting
<1>3. QED BY <1>1, <1>2, StepKeepsCauses DEF RedisRaises

LEMMA TickKeepsCauses ==
  ASSUME CInv, IInv', Tick
  PROVE  CInv'
<1>1. now \in Nat /\ now' = now + 1 /\ UNCHANGED <<req, last, storedAt>> /\ TypeOK
  BY DEF CInv, IInv, TypeOK, Tick
<1>2. \A r \in Requests : Stamped(r)' /\ HasCause(r)'
  BY <1>1 DEF CInv, Stamped, Waiting, HasCause
<1>3. ASSUME NEW c \in Clients
      PROVE  HasOrigin(c)'
  <2>1. Live(c)' => Live(c)
    BY <1>1 DEF TypeOK, Live
  <2>2. ASSUME NEW s \in Requests, NEW t \in Nat, StoredBy(c, s, t)
        PROVE  StoredBy(c, s, t)'
    BY <1>1, <2>2 DEF StoredBy
  <2>3. QED BY <2>1, <2>2 DEF CInv, HasOrigin
<1>4. QED BY <1>2, <1>3 DEF CInv

LEMMA NextKeepsCauses == CInv /\ [Next]_vars => CInv'
<1>1. SUFFICES ASSUME CInv, [Next]_vars PROVE CInv'
  OBVIOUS
<1>2. IInv'
  BY <1>1, NextKeeps DEF CInv
<1>3. ASSUME NEW r \in Requests, Arrive(r) PROVE CInv'
  BY <1>1, <1>2, <1>3, ArriveKeepsCauses
<1>4. ASSUME NEW r \in Requests, Decide(r) PROVE CInv'
  BY <1>1, <1>2, <1>4, DecideKeepsCauses
<1>5. ASSUME NEW r \in Requests, LoseReply(r) PROVE CInv'
  BY <1>1, <1>2, <1>5, LoseReplyKeepsCauses
<1>6. ASSUME NEW r \in Requests, RedisRaises(r) PROVE CInv'
  BY <1>1, <1>2, <1>6, RedisRaisesKeepsCauses
<1>7. CASE Tick
  BY <1>1, <1>2, <1>7, TickKeepsCauses
<1>8. CASE UNCHANGED vars
  BY <1>1, <1>2, <1>8 DEF CInv, vars, Stamped, Waiting, HasCause, HasOrigin, StoredBy, Live
<1>9. QED BY <1>1, <1>3, <1>4, <1>5, <1>6, <1>7, <1>8 DEF Next

\* For any delays, skews and failures of Redis, a request is denied only because
\* of a timestamp that a request of its client stored recently: denied requests
\* store nothing, so a client that keeps asking is not kept out by its own denials.
THEOREM DenialsHaveCause == Spec => []DeniedForCause
<1>1. Init => CInv
  <2>1. SUFFICES ASSUME Init PROVE CInv
    OBVIOUS
  <2>2. \A r \in Requests : Stamped(r) /\ HasCause(r)
    BY <2>1 DEF Init, Unsent, Stamped, Waiting, HasCause
  <2>3. \A c \in Clients : HasOrigin(c)
    BY <2>1 DEF Init, HasOrigin, Live
  <2>4. QED BY <2>1, <2>2, <2>3, InitIInv DEF CInv
<1>2. CInv => DeniedForCause
  BY DEF CInv, HasCause, DeniedForCause
<1>3. QED BY <1>1, <1>2, NextKeepsCauses, PTL DEF Spec

-----------------------------------------------------------------------------
(* How long a denied client has to wait *)

\* When a client denied with r may come again
Due(r) == req[r].at + req[r].retry * TicksPerSecond

\* Another request of r's client was let through, or may have been, after r was denied
Overtaken(r) ==
  \E s \in Requests : \E t \in storedAt[s] : ClientOf[s] = ClientOf[r] /\ t > req[r].at

\* The key a denied request found is there, and its interval over when r is due, until
\* another request overtakes it, which none can in the same tick
WaitsLongEnough(r) ==
  req[r].pc = "denied" =>
    /\ req[r].at <= now
    /\ \/ Overtaken(r)
       \/ /\ last[ClientOf[r]].stamp + MinInterval <= Due(r)
          /\ req[r].at = now => Limited(ClientOf[r])

WInv == IInv /\ \A r \in Requests : WaitsLongEnough(r)

\* The whole seconds of Retry-After are no shorter than the rest of the interval
LEMMA RetryAfterIsEnough ==
  ASSUME NEW elapsed \in Int, elapsed < MinInterval
  PROVE  /\ RetryAfter(elapsed) \in Nat
         /\ RetryAfter(elapsed) * TicksPerSecond >= MinInterval - elapsed
<1>1. MinInterval - elapsed \in Nat /\ TicksPerSecond \in Nat /\ TicksPerSecond > 0
  BY RateLimitAssumption
<1>2. ASSUME NEW x \in Nat, NEW t \in Nat, t > 0
      PROVE  (x \div t + 1) * t >= x
  BY <1>2, SMTT(30)
<1>3. QED BY <1>1, <1>2, RetryAfterType DEF RetryAfter

LEMMA WaitFacts ==
  ASSUME TypeOK, NEW r \in Requests
  PROVE  /\ ClientOf[r] \in Clients /\ MinInterval \in Nat /\ now \in Nat
         /\ req[r].at \in Nat /\ req[r].retry \in Nat /\ Due(r) \in Nat
         /\ last[ClientOf[r]].stamp \in Int
<1>1. req[r].at \in Nat /\ req[r].retry \in Nat /\ TicksPerSecond \in Nat
  BY RateLimitAssumption DEF TypeOK, RequestType
<1>2. \A n, t \in Nat : n * t \in Nat
  OBVIOUS
<1>3. Due(r) \in Nat
  BY <1>1, <1>2 DEF Due
<1>4. QED BY <1>1, <1>3, RateLimitAssumption DEF TypeOK

\* A script that finds s's client limited changes nothing; one that does not overtakes s
LEMMA ScriptOvertakes ==
  ASSUME WInv, NEW r \in Requests, UNCHANGED now, Script(r) \/ UNCHANGED <<last, storedAt>>,
         NEW s \in Requests, req'[s] = req[s]
  PROVE  WaitsLongEnough(s)'
<1> DEFINE c == ClientOf[s]
<1>1. SUFFICES ASSUME req[s].pc = "denied" PROVE WaitsLongEnough(s)'
  BY DEF WaitsLongEnough
<1>2. /\ TypeOK /\ c \in Clients /\ now \in Nat /\ req[s].at \in Nat /\ req[s].at <= now
      /\ WaitsLongEnough(s)
  BY <1>1, WaitFacts DEF WInv, IInv, WaitsLongEnough
<1>3. CASE Overtaken(s)
  <2>1. Overtaken(s)'
    BY <1>2, <1>3, StoredGrows DEF Overtaken
  <2>2. QED BY <1>2, <2>1 DEF WaitsLongEnough
<1>4. CASE ~Overtaken(s) /\ last'[c] = last[c]
  BY <1>1, <1>2, <1>4 DEF WaitsLongEnough, Due, Limited, Live
<1>5. CASE ~Overtaken(s) /\ last'[c] # last[c]
  <2>1. c = ClientOf[r] /\ ~Limited(c)
    BY <1>2, <1>5, ScriptStores
  <2>2. req[s].at < now
    BY <1>1, <1>2, <1>5, <2>1 DEF WaitsLongEnough
  <2>3. now \in storedAt'[r]
    BY <1>2, <1>5, <2>1 DEF Script, TypeOK
  <2>4. Overtaken(s)'
    BY <2>1, <2>2, <2>3 DEF Overtaken
  <2>5. QED BY <1>2, <2>4 DEF WaitsLongEnough
<1>6. QED BY <1>3, <1>4, <1>5

\* The wait the answer gives is long enough
LEMMA DecideWaits ==
  ASSUME WInv, NEW r \in Requests, Decide(r)
  PROVE  WaitsLongEnough(r)'
<1> DEFINE c == ClientOf[r]
           elapsed == now - last[c].stamp
<1>1. /\ TypeOK /\ c \in Clients /\ MinInterval \in Nat /\ now \in Nat /\ now' = now
      /\ last[c].stamp \in Int /\ TicksPerSecond \in Nat
  BY WaitFacts, RateLimitAssumption DEF WInv, IInv, Decide
<1>2. CASE Limited(c)
  <2>1. elapsed \in Int /\ elapsed < MinInterval
    BY <1>1, <1>2 DEF Limited
  <2>2. PICK retry : retry = RetryAfter(elapsed)
    OBVIOUS
  <2>3. /\ retry \in Nat /\ retry * TicksPerSecond >= MinInterval - elapsed
        /\ retry * TicksPerSecond \in Nat
    <3>1. \A n, t \in Nat : n * t \in Nat
      OBVIOUS
    <3>2. QED BY <1>1, <2>1, <2>2, <3>1, RetryAfterIsEnough
  <2>4. /\ req'[r].at = now /\ req'[r].retry = retry
        /\ UNCHANGED <<last, storedAt>>
    BY <1>1, <1>2, <2>2 DEF Decide, Answer, Script, TypeOK
  <2>5. last[c].stamp + MinInterval <= Due(r)'
    <3>1. Due(r)' = now + retry * TicksPerSecond
      BY <2>4 DEF Due
    <3>2. PICK wait \in Nat : wait = retry * TicksPerSecond
      BY <2>3
    <3>3. QED BY <1>1, <2>3, <3>1, <3>2
  <2>6. Limited(c)'
    BY <1>1, <1>2, <2>4 DEF Limited, Live
  <2>7. QED BY <1>1, <2>4, <2>5, <2>6 DEF WaitsLongEnough
<1>3. CASE ~Limited(c)
  BY <1>1, <1>3 DEF Decide, Answer, WaitsLongEnough, TypeOK
<1>4. QED BY <1>2, <1>3

LEMMA NextWaits == WInv /\ [Next]_vars => WInv'
<1>1. SUFFICES ASSUME WInv, [Next]_vars PROVE WInv'
  OBVIOUS
<1>2. IInv' /\ TypeOK
  BY <1>1, NextKeeps DEF WInv, IInv
<1>3. SUFFICES ASSUME NEW s \in Requests PROVE WaitsLongEnough(s)'
  BY <1>2 DEF WInv
<1>4. WaitsLongEnough(s)
  BY <1>1 DEF WInv
<1>5. ASSUME NEW r \in Requests, Arrive(r) PROVE WaitsLongEnough(s)'
  <2>1. req'[s] = req[s] \/ req'[s].pc = "sent"
    BY <1>2, <1>5 DEF Arrive, Answer, TypeOK
  <2>2. QED BY <1>4, <1>5, <2>1 DEF Arrive, WaitsLongEnough, Overtaken, Due, Limited, Live
<1>6. ASSUME NEW r \in Requests, Decide(r) PROVE WaitsLongEnough(s)'
  <2>1. s # r => req'[s] = req[s]
    BY <1>2, <1>6 DEF Decide, Answer, TypeOK
  <2>2. QED BY <1>1, <1>6, <2>1, DecideWaits, ScriptOvertakes DEF Decide
<1>7. ASSUME NEW r \in Requests, LoseReply(r) PROVE WaitsLongEnough(s)'
  <2>1. req'[s] = req[s] \/ req'[s].pc = "resent"
    BY <1>2, <1>7 DEF LoseReply, TypeOK, RequestType
  <2>2. CASE req'[s] = req[s]
    BY <1>1, <1>7, <2>2, ScriptOvertakes DEF LoseReply
  <2>3. QED BY <2>1, <2>2 DEF WaitsLongEnough
<1>8. ASSUME NEW r \in Requests, RedisRaises(r) PROVE WaitsLongEnough(s)'
  <2>1. req'[s] = req[s] \/ req'[s].pc = "unchecked"
    BY <1>2, <1>8 DEF RedisRaises, Answer, TypeOK
  <2>2. CASE req'[s] = req[s]
    BY <1>1, <1>8, <2>2, ScriptOvertakes DEF RedisRaises
  <2>3. QED BY <2>1, <2>2 DEF WaitsLongEnough
<1>9. CASE Tick
  <2>1. now \in Nat /\ req[s].at \in Nat /\ now' = now + 1 /\ UNCHANGED <<req, last, storedAt>>
    BY <1>2, <1>9, WaitFacts DEF Tick
  <2>2. Overtaken(s)' = Overtaken(s) /\ Due(s)' = Due(s)
    BY <2>1 DEF Overtaken, Due
  <2>3. QED BY <1>4, <2>1, <2>2 DEF WaitsLongEnough
<1>10. CASE UNCHANGED vars
  BY <1>4, <1>10 DEF vars, WaitsLongEnough, Overtaken, Due, Limited, Live
<1>11. QED BY <1>1, <1>5, <1>6, <1>7, <1>8, <1>9, <1>10 DEF Next

\* For any clocks, delays and failures, a client that was denied and waits for the
\* seconds of Retry-After finds its interval over, unless another request of it got
\* through meanwhile: rounding down and adding one is enough.
THEOREM WaitingIsEnough == Spec => []RetryAfterSuffices
<1>1. Init => WInv
  BY InitIInv DEF Init, Unsent, WInv, WaitsLongEnough
<1>2. WInv => RetryAfterSuffices
  <2>1. SUFFICES ASSUME WInv, NEW r \in Requests, req[r].pc = "denied",
                        now >= Due(r), ~Overtaken(r)
                 PROVE  ~Limited(ClientOf[r])
    <3>1. ASSUME TypeOK, NEW r \in Requests,
                 \A s \in Requests : \A t \in storedAt[s] :
                    ClientOf[s] = ClientOf[r] => t <= req[r].at
          PROVE  ~Overtaken(r)
      <4>1. req[r].at \in Nat /\ \A s \in Requests : storedAt[s] \subseteq Nat
        BY <3>1, WaitFacts DEF TypeOK
      <4>2. QED BY <3>1, <4>1 DEF Overtaken
    <3>2. QED BY <3>1 DEF WInv, IInv, RetryAfterSuffices, Due
  <2>2. TypeOK /\ last[ClientOf[r]].stamp + MinInterval <= Due(r)
    BY <2>1 DEF WInv, IInv, WaitsLongEnough
  <2>3. QED BY <2>1, <2>2, WaitFacts DEF Limited
<1>3. QED BY <1>1, <1>2, NextWaits, PTL DEF Spec
=============================================================================
