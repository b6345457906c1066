----------------------- MODULE LocalRateLimit_proofs -----------------------
(***************************************************************************)
(* The limiter without Redis, for any requests, clients, interval, size of *)
(* the dictionary and number of requests between cleanups.                 *)
(***************************************************************************)
EXTENDS LocalRateLimit, FiniteSetTheorems, WellFoundedInduction, TLAPS

\* The clients some request of which was let through
Served == {c \in Clients : Allowed(c) # {}}

\* The clients let through in the time of a fresh entry before t
Crowd(t) ==
  {c \in Clients : \E r \in Allowed(c) : req[r].at <= t /\ t - req[r].at <= StaleAfter}

\* More clients than the dictionary has room for were let through before a moment
\* between time since and now
Crowded(since) ==
  \E t \in 0 .. now : since <= t /\ Cardinality(Crowd(t)) > MaxTracked

\* Only finitely many clients have come so far
Finite == IsFiniteSet(DOMAIN lastSeen) /\ IsFiniteSet(Served)

\* An entry is the time of a request of its client that was let through
Rooted == \A c \in DOMAIN lastSeen : \E r \in Allowed(c) : req[r].at = lastSeen[c].at

\* A request is let through at a time that is past
Past == \A r \in Requests : req[r].pc = "allowed" => req[r].at <= now

\* The dictionary remembers a request let through within the interval, unless it had
\* to make room
Remembered ==
  \A r \in Requests :
     req[r].pc = "allowed" /\ now - req[r].at < MinInterval =>
       \/ ClientOf[r] \in DOMAIN lastSeen /\ lastSeen[ClientOf[r]].at >= req[r].at
       \/ Crowded(req[r].at)

IInv == TypeOK /\ Finite /\ Bounded /\ Rooted /\ Past /\ Remembered /\ SpacedUnlessCrowded

-----------------------------------------------------------------------------
(* Finite sets *)

\* A set with more than n elements inside a finite one makes that larger than n
LEMMA Larger ==
  ASSUME NEW S, NEW T, IsFiniteSet(T), S \subseteq T, NEW n \in Nat, Cardinality(S) > n
  PROVE  Cardinality(T) > n
<1>1. /\ IsFiniteSet(S) /\ Cardinality(S) <= Cardinality(T)
  BY FS_Subset
<1>2. Cardinality(S) \in Nat /\ Cardinality(T) \in Nat
  BY <1>1, FS_CardinalityType
<1>3. QED BY <1>1, <1>2

\* Among entries there is a first one
LEMMA First ==
  ASSUME NEW S, S # {}, NEW f, \A c \in S : f[c] \in Nat
  PROVE  \E c \in S : \A d \in S : f[d] >= f[c]
<1> DEFINE T == {f[c] : c \in S}
<1>1. T \subseteq Nat /\ T # {}
  OBVIOUS
<1>2. PICK n \in T : \A m \in T : ~ (<<m, n>> \in OpToRel(<, Nat))
  BY <1>1, WFMin, NatLessThanWellFounded
<1>3. PICK c \in S : f[c] = n
  OBVIOUS
<1>4. ASSUME NEW d \in S
      PROVE  f[d] >= f[c]
  <2>1. f[d] \in T /\ f[d] \in Nat /\ n \in Nat
    BY <1>1
  <2>2. ~ (f[d] < n)
    BY <1>2, <2>1 DEF OpToRel
  <2>3. QED BY <1>3, <2>1, <2>2
<1>5. QED BY <1>4

-----------------------------------------------------------------------------
(* Types *)

LEMMA Facts ==
  ASSUME TypeOK
  PROVE  /\ now \in Nat /\ inserted \in Nat
         /\ MinInterval \in Nat /\ MinInterval > 0
         /\ StaleAfter \in Nat /\ StaleAfter >= MinInterval
         /\ MaxTracked \in Nat
         /\ \A r \in Requests : req[r].at \in Nat /\ ClientOf[r] \in Clients
         /\ \A c \in DOMAIN lastSeen : /\ c \in Clients
                                      /\ lastSeen[c].at \in Nat /\ lastSeen[c].since \in Nat
BY RateLimitAssumption, LocalAssumption DEF TypeOK, RequestType

\* Retry-After is a natural number of seconds
LEMMA RetryAfterType ==
  ASSUME NEW elapsed \in Int, elapsed < MinInterval
  PROVE  RetryAfter(elapsed) \in Nat
<1>1. MinInterval - elapsed \in Nat /\ TicksPerSecond \in Nat /\ TicksPerSecond > 0
  BY RateLimitAssumption
<1>2. ASSUME NEW x \in Nat, NEW t \in Nat, t > 0
      PROVE  x \div t \in Nat
  BY <1>2, SMTT(30)
<1>3. QED BY <1>1, <1>2 DEF RetryAfter

\* An answer changes the record of one request
LEMMA AnswerChanges ==
  ASSUME TypeOK, NEW r \in Requests, NEW pc \in RequestPC, NEW retry \in Nat,
         Answer(r, pc, now, retry)
  PROVE  /\ req' \in [Requests -> RequestType]
         /\ req'[r].pc = pc /\ req'[r].at = now
         /\ \A s \in Requests \ {r} : req'[s] = req[s]
BY DEF TypeOK, Answer, RequestType

\* What is tracked was in the dictionary
LEMMA TrackedKnown == Tracked \subseteq DOMAIN lastSeen
BY DEF Tracked, Kept, Fresh

\* The dictionary after a step: the entries tracked, and that of the client let through
LEMMA Entries ==
  ASSUME TypeOK, NEW c \in Clients,
         \/ Stamp(c)
         \/ lastSeen' = [d \in Tracked |-> lastSeen[d]] /\ UNCHANGED inserted
  PROVE  /\ DOMAIN lastSeen' \subseteq Clients
         /\ lastSeen' \in [DOMAIN lastSeen' -> [at : Nat, since : Nat]]
         /\ inserted' \in Nat
         /\ Tracked \subseteq DOMAIN lastSeen' /\ DOMAIN lastSeen' \subseteq Tracked \cup {c}
         /\ \A d \in DOMAIN lastSeen' :
              \/ d \in Tracked /\ lastSeen'[d] = lastSeen[d]
              \/ d = c /\ Stamp(c) /\ lastSeen'[d].at = now
         /\ Stamp(c) => c \in DOMAIN lastSeen' /\ lastSeen'[c].at = now
<1>1. /\ now \in Nat /\ inserted \in Nat /\ Tracked \subseteq Clients
      /\ \A d \in Tracked : lastSeen[d] \in [at : Nat, since : Nat]
  BY Facts, TrackedKnown DEF TypeOK
<1>2. CASE lastSeen' = [d \in Tracked |-> lastSeen[d]] /\ UNCHANGED inserted /\ ~Stamp(c)
  <2>1. DOMAIN lastSeen' = Tracked /\ \A d \in Tracked : lastSeen'[d] = lastSeen[d]
    BY <1>2
  <2>2. QED BY <1>1, <1>2, <2>1
<1>3. CASE Stamp(c)
  <2> DEFINE new == [at |-> now, since |-> IF c \in Tracked THEN lastSeen[c].since ELSE inserted]
  <2>1. new \in [at : Nat, since : Nat] /\ new.at = now
    BY <1>1
  <2>2. lastSeen' = [d \in Tracked \cup {c} |-> IF d # c THEN lastSeen[d] ELSE new]
    BY <1>3 DEF Stamp
  <2> HIDE DEF new
  <2>3. /\ DOMAIN lastSeen' = Tracked \cup {c} /\ lastSeen'[c] = new
        /\ \A d \in Tracked \ {c} : lastSeen'[d] = lastSeen[d]
    BY <2>2
  <2>4. inserted' \in Nat
    BY <1>1, <1>3 DEF Stamp
  <2>5. lastSeen' \in [Tracked \cup {c} -> [at : Nat, since : Nat]]
    BY <1>1, <2>1, <2>2
  <2>6. QED BY <1>1, <1>3, <2>1, <2>3, <2>4, <2>5
<1>4. QED BY <1>2, <1>3

LEMMA OpsType ==
  ASSUME TypeOK, ops' = IF CleanupDue THEN 0 ELSE ops + 1
  PROVE  ops' \in 0 .. CleanupEvery - 1
BY LocalAssumption DEF TypeOK, CleanupDue

\* What a dispatch does, answer by answer
LEMMA DispatchDoes ==
  ASSUME TypeOK, NEW r \in Requests, Dispatch(r)
  PROVE  /\ TypeOK'
         /\ req[r].pc = "new" /\ now' = now /\ req'[r].at = now
         /\ \A s \in Requests \ {r} : req'[s] = req[s]
         /\ \/ req'[r].pc = "denied" /\ Limited(ClientOf[r]) /\ Deny(r)
            \/ req'[r].pc = "allowed" /\ ~Limited(ClientOf[r]) /\ Stamp(ClientOf[r])
<1> DEFINE c == ClientOf[r]
<1>1. c \in Clients /\ {"denied", "allowed"} \subseteq RequestPC /\ 0 \in Nat
  BY Facts DEF RequestPC
<1>2. CASE Deny(r)
  <2>1. now - lastSeen[c].at \in Int /\ now - lastSeen[c].at < MinInterval
    BY <1>2, Facts, TrackedKnown DEF Deny, Limited
  <2>2. PICK retry \in Nat : Answer(r, "denied", now, retry)
    BY <1>2, <2>1, RetryAfterType DEF Deny
  <2>3. /\ req' \in [Requests -> RequestType]
        /\ req'[r].pc = "denied" /\ req'[r].at = now
        /\ \A s \in Requests \ {r} : req'[s] = req[s]
    BY <1>1, <2>2, AnswerChanges
  <2>4. /\ DOMAIN lastSeen' \subseteq Clients /\ inserted' \in Nat
        /\ lastSeen' \in [DOMAIN lastSeen' -> [at : Nat, since : Nat]]
    BY <1>1, <1>2, Entries DEF Deny
  <2>5. TypeOK'
    BY <2>3, <2>4, OpsType DEF Dispatch, TypeOK
  <2>6. QED BY <1>2, <2>3, <2>5 DEF Dispatch, Deny
<1>3. CASE Allow(r)
  <2>1. /\ req' \in [Requests -> RequestType]
        /\ req'[r].pc = "allowed" /\ req'[r].at = now
        /\ \A s \in Requests \ {r} : req'[s] = req[s]
    BY <1>1, <1>3, AnswerChanges DEF Allow
  <2>2. /\ DOMAIN lastSeen' \subseteq Clients /\ inserted' \in Nat
        /\ lastSeen' \in [DOMAIN lastSeen' -> [at : Nat, since : Nat]]
    BY <1>1, <1>3, Entries DEF Allow
  <2>3. TypeOK'
    BY <2>1, <2>2, OpsType DEF Dispatch, TypeOK
  <2>4. QED BY <1>3, <2>1, <2>3 DEF Dispatch, Allow
<1>4. QED BY <1>2, <1>3 DEF Dispatch

-----------------------------------------------------------------------------
(* Bounded *)

\* A cleanup leaves as many entries as there may be
LEMMA KeptBounded ==
  ASSUME TypeOK, IsFiniteSet(DOMAIN lastSeen)
  PROVE  IsFiniteSet(Kept) /\ Cardinality(Kept) <= MaxTracked
<1>1. Kept \subseteq DOMAIN lastSeen /\ Fresh \subseteq DOMAIN lastSeen
  BY DEF Kept, Fresh
<1>2. IsFiniteSet(Kept) /\ IsFiniteSet(Fresh)
  BY <1>1, FS_Subset
<1>3. CASE Kept = {}
  BY <1>2, <1>3, FS_EmptySet, LocalAssumption
<1>4. CASE Kept # {}
  <2> DEFINE since == [c \in DOMAIN lastSeen |-> lastSeen[c].since]
  <2>1. \A c \in Kept : since[c] \in Nat
    BY <1>1, Facts
  <2>2. PICK c \in Kept : \A d \in Kept : since[d] >= since[c]
    <3> HIDE DEF since
    <3>1. QED BY <1>4, <2>1, First
  <2>3. Kept \subseteq Behind(c)
    BY <1>1, <2>2 DEF Behind, Kept
  <2>4. Behind(c) \subseteq Fresh
    BY DEF Behind
  <2>5. IsFiniteSet(Behind(c)) /\ Cardinality(Kept) <= Cardinality(Behind(c))
    BY <1>2, <2>3, <2>4, FS_Subset
  <2>6. Cardinality(Behind(c)) <= MaxTracked
    BY <2>2 DEF Kept
  <2>7. Cardinality(Kept) \in Nat /\ Cardinality(Behind(c)) \in Nat
    BY <1>2, <2>5, FS_CardinalityType
  <2>8. QED BY <1>2, <2>5, <2>6, <2>7, LocalAssumption
<1>5. QED BY <1>3, <1>4

\* So that there is room for one more
LEMMA TrackedBounded ==
  ASSUME TypeOK, IsFiniteSet(DOMAIN lastSeen)
  PROVE  IsFiniteSet(Tracked) /\ Cardinality(Tracked) <= MaxTracked
<1>1. CASE CleanupDue
  BY <1>1, KeptBounded DEF Tracked
<1>2. CASE ~CleanupDue
  <2>1. Cardinality(DOMAIN lastSeen) \in Nat
    BY FS_CardinalityType
  <2>2. QED BY <1>2, <2>1, LocalAssumption DEF Tracked, CleanupDue
<1>3. QED BY <1>1, <1>2

\* Only finitely many clients get into the dictionary, one more than tracked
LEMMA BoundedStep ==
  ASSUME TypeOK, Finite, NEW r \in Requests, Dispatch(r)
  PROVE  IsFiniteSet(DOMAIN lastSeen') /\ Bounded'
<1> DEFINE c == ClientOf[r]
<1>1. c \in Clients /\ IsFiniteSet(Tracked) /\ Cardinality(Tracked) <= MaxTracked
  BY Facts, TrackedBounded DEF Finite
<1>2. DOMAIN lastSeen' \subseteq Tracked \cup {c}
  BY <1>1, Entries DEF Dispatch, Deny, Allow
<1>3. /\ IsFiniteSet(Tracked \cup {c})
      /\ Cardinality(Tracked \cup {c}) <= Cardinality(Tracked) + 1
  <2>1. Cardinality(Tracked) \in Nat
    BY <1>1, FS_CardinalityType
  <2>2. QED BY <1>1, <2>1, FS_AddElement
<1>4. /\ IsFiniteSet(DOMAIN lastSeen')
      /\ Cardinality(DOMAIN lastSeen') <= Cardinality(Tracked \cup {c})
  BY <1>2, <1>3, FS_Subset
<1>5. /\ Cardinality(DOMAIN lastSeen') \in Nat /\ Cardinality(Tracked) \in Nat
      /\ Cardinality(Tracked \cup {c}) \in Nat
  BY <1>1, <1>3, <1>4, FS_CardinalityType
<1>6. QED BY <1>1, <1>3, <1>4, <1>5, LocalAssumption DEF Bounded

-----------------------------------------------------------------------------
(* Who was let through *)

\* A dispatch lets at most its own request through, and changes no answer given before
LEMMA AllowedGrows ==
  ASSUME TypeOK, NEW r \in Requests, Dispatch(r), NEW c
  PROVE  /\ \A s \in Allowed(c) : s # r /\ s \in Allowed(c)' /\ req'[s] = req[s]
         /\ \A s \in Allowed(c)' : s \in Allowed(c) \/ (s = r /\ c = ClientOf[r] /\ Stamp(c))
BY DispatchDoes DEF Allowed

\* So that there are never fewer clients let through
LEMMA ServedGrows ==
  ASSUME TypeOK, Finite, NEW r \in Requests, Dispatch(r)
  PROVE  IsFiniteSet(Served')
<1>1. Served' \subseteq Served \cup {ClientOf[r]}
  BY AllowedGrows DEF Served
<1>2. IsFiniteSet(Served \cup {ClientOf[r]})
  BY FS_AddElement DEF Finite
<1>3. QED BY <1>1, <1>2, FS_Subset

\* A crowd stays one
LEMMA CrowdStays ==
  ASSUME TypeOK, Finite, NEW r \in Requests, Dispatch(r), NEW t \in Nat,
         Cardinality(Crowd(t)) > MaxTracked
  PROVE  Cardinality(Crowd(t)') > MaxTracked
<1>1. Crowd(t) \subseteq Crowd(t)'
  <2>1. ASSUME NEW c \in Clients, NEW s \in Allowed(c),
               req[s].at <= t /\ t - req[s].at <= StaleAfter
        PROVE  \E q \in Allowed(c)' : req'[q].at <= t /\ t - req'[q].at <= StaleAfter
    BY <2>1, AllowedGrows
  <2>2. QED BY <2>1 DEF Crowd
<1>2. Crowd(t)' \subseteq Served'
  BY DEF Crowd, Served
<1>3. IsFiniteSet(Crowd(t)')
  BY <1>2, ServedGrows, FS_Subset
<1>4. MaxTracked \in Nat
  BY LocalAssumption
<1>5. QED BY <1>1, <1>3, <1>4, Larger

\* A fresh entry that a cleanup deletes has more than MaxTracked at its back or its
\* side, each of a client let through lately
LEMMA CrowdedOut ==
  ASSUME TypeOK, Finite, Rooted, Past, NEW c \in Fresh, c \notin Kept
  PROVE  Cardinality(Crowd(now)) > MaxTracked
<1>1. Behind(c) \subseteq Crowd(now)
  <2>1. ASSUME NEW d \in Fresh
        PROVE  d \in Crowd(now)
    <3>1. d \in DOMAIN lastSeen /\ lastSeen[d].at >= now - StaleAfter
      BY DEF Fresh
    <3>2. PICK q \in Allowed(d) : req[q].at = lastSeen[d].at
      BY <3>1 DEF Rooted
    <3>3. q \in Requests /\ req[q].at <= now /\ req[q].at \in Nat
      BY <3>2, Facts DEF Allowed, Past
    <3>4. d \in Clients /\ now - req[q].at <= StaleAfter
      BY <3>1, <3>2, <3>3, Facts
    <3>5. QED BY <3>2, <3>3, <3>4 DEF Crowd
  <2>2. QED BY <2>1 DEF Behind
<1>2. Behind(c) \subseteq DOMAIN lastSeen
  BY DEF Behind, Fresh
<1>3. IsFiniteSet(Behind(c)) /\ MaxTracked \in Nat
  BY <1>2, FS_Subset, LocalAssumption DEF Finite
<1>4. Cardinality(Behind(c)) > MaxTracked
  <2>1. ~ (Cardinality(Behind(c)) <= MaxTracked)
    BY DEF Kept
  <2>2. Cardinality(Behind(c)) \in Nat
    BY <1>3, FS_CardinalityType
  <2>3. QED BY <1>3, <2>1, <2>2
<1>5. IsFiniteSet(Crowd(now))
  <2>1. Crowd(now) \subseteq Served
    BY DEF Crowd, Served
  <2>2. QED BY <2>1, FS_Subset DEF Finite
<1>6. QED BY <1>1, <1>3, <1>4, <1>5, Larger

\* A client whose last request came within the interval is tracked, or crowded out
LEMMA TrackedOrCrowdedOut ==
  ASSUME TypeOK, Finite, Rooted, Past, NEW c \in DOMAIN lastSeen,
         now - lastSeen[c].at < MinInterval
  PROVE  c \in Tracked \/ Cardinality(Crowd(now)) > MaxTracked
<1>1. c \in Fresh
  BY Facts DEF Fresh
<1>2. QED BY <1>1, CrowdedOut DEF Tracked

-----------------------------------------------------------------------------
(* Remembered *)

\* At a dispatch, a request let through within the interval limits its client, unless
\* there was a crowd between the two
LEMMA LimitedOrCrowded ==
  ASSUME TypeOK, Finite, Rooted, Past, Remembered,
         NEW q \in Requests, req[q].pc = "allowed", now - req[q].at < MinInterval
  PROVE  \/ /\ ClientOf[q] \in Tracked /\ Limited(ClientOf[q])
            /\ lastSeen[ClientOf[q]].at >= req[q].at
         \/ Crowded(req[q].at)
<1> DEFINE c == ClientOf[q]
<1>1. req[q].at \in Nat /\ now \in Nat /\ req[q].at <= now /\ MinInterval \in Nat
  BY Facts DEF Past
<1>2. CASE c \in DOMAIN lastSeen /\ lastSeen[c].at >= req[q].at
  <2>1. lastSeen[c].at \in Nat
    BY <1>2, Facts
  <2>2. now - lastSeen[c].at < MinInterval
    BY <1>1, <1>2, <2>1
  <2>3. CASE Cardinality(Crowd(now)) > MaxTracked
    BY <1>1, <2>3 DEF Crowded
  <2>4. QED BY <1>2, <2>2, <2>3, TrackedOrCrowdedOut DEF Limited
<1>3. QED BY <1>2 DEF Remembered

LEMMA RememberedStep ==
  ASSUME TypeOK, Finite, Rooted, Past, Remembered, NEW r \in Requests, Dispatch(r)
  PROVE  Remembered'
<1> DEFINE c == ClientOf[r]
<1>1. /\ now' = now /\ req'[r].at = now /\ c \in Clients /\ now \in Nat
      /\ \A s \in Requests \ {r} : req'[s] = req[s]
      /\ \/ Stamp(c)
         \/ lastSeen' = [d \in Tracked |-> lastSeen[d]] /\ UNCHANGED inserted
      /\ req'[r].pc = "allowed" => Stamp(c)
  BY DispatchDoes, Facts DEF Deny
<1>2. /\ Tracked \subseteq DOMAIN lastSeen'
      /\ \A d \in DOMAIN lastSeen' : \/ d \in Tracked /\ lastSeen'[d] = lastSeen[d]
                                     \/ lastSeen'[d].at = now
      /\ Stamp(c) => c \in DOMAIN lastSeen' /\ lastSeen'[c].at = now
  BY <1>1, Entries
<1>3. ASSUME NEW q \in Requests, req'[q].pc = "allowed", now' - req'[q].at < MinInterval
      PROVE  \/ ClientOf[q] \in DOMAIN lastSeen' /\ lastSeen'[ClientOf[q]].at >= req'[q].at
             \/ \E t \in 0 .. now' : req'[q].at <= t /\ Cardinality(Crowd(t)') > MaxTracked
  <2>1. CASE q = r
    BY <1>1, <1>2, <1>3, <2>1
  <2>2. CASE q # r
    <3>1. req'[q] = req[q] /\ req[q].pc = "allowed" /\ now - req[q].at < MinInterval
      BY <1>1, <1>3, <2>2
    <3>2. req[q].at \in Nat /\ req[q].at <= now
      BY <3>1, Facts DEF Past
    <3>3. CASE /\ ClientOf[q] \in Tracked
               /\ lastSeen[ClientOf[q]].at >= req[q].at
      BY <1>1, <1>2, <3>1, <3>2, <3>3
    <3>4. CASE Crowded(req[q].at)
      <4>1. PICK t \in 0 .. now : req[q].at <= t /\ Cardinality(Crowd(t)) > MaxTracked
        BY <3>4 DEF Crowded
      <4>2. t \in Nat
        BY <1>1, <4>1
      <4>3. Cardinality(Crowd(t)') > MaxTracked
        BY <4>1, <4>2, CrowdStays
      <4>4. QED BY <1>1, <3>1, <4>1, <4>3
    <3>5. QED BY <3>1, <3>3, <3>4, LimitedOrCrowded
  <2>3. QED BY <2>1, <2>2
<1>4. QED BY <1>3 DEF Remembered, Crowded

-----------------------------------------------------------------------------
(* SpacedUnlessCrowded *)

LEMMA RecentStays ==
  ASSUME TypeOK, Finite, NEW r \in Requests, Dispatch(r), NEW t \in Nat,
         Cardinality(Recent(t)) > MaxTracked
  PROVE  Cardinality(Recent(t)') > MaxTracked
<1>1. Recent(t) \subseteq Recent(t)'
  <2>1. ASSUME NEW c \in Clients, NEW s \in Allowed(c),
               req[s].at <= t /\ t - req[s].at <= StaleAfter + MinInterval
        PROVE  \E q \in Allowed(c)' :
                  req'[q].at <= t /\ t - req'[q].at <= StaleAfter + MinInterval
    BY <2>1, AllowedGrows
  <2>2. QED BY <2>1 DEF Recent
<1>2. Recent(t)' \subseteq Served'
  BY DEF Recent, Served
<1>3. IsFiniteSet(Recent(t)')
  BY <1>2, ServedGrows, FS_Subset
<1>4. MaxTracked \in Nat
  BY LocalAssumption
<1>5. QED BY <1>1, <1>3, <1>4, Larger

\* A crowd within the interval before now is a recent one now
LEMMA CrowdIsRecent ==
  ASSUME TypeOK, Finite, NEW since \in Nat, now - since < MinInterval, Crowded(since)
  PROVE  Cardinality(Recent(now)) > MaxTracked
<1>1. PICK t \in 0 .. now : since <= t /\ Cardinality(Crowd(t)) > MaxTracked
  BY DEF Crowded
<1>2. Crowd(t) \subseteq Recent(now)
  <2>1. ASSUME NEW c \in Clients, NEW s \in Allowed(c),
               req[s].at <= t /\ t - req[s].at <= StaleAfter
        PROVE  req[s].at <= now /\ now - req[s].at <= StaleAfter + MinInterval
    <3>1. /\ req[s].at \in Nat /\ now \in Nat /\ t \in Nat /\ t <= now
          /\ StaleAfter \in Nat /\ MinInterval \in Nat
      BY <1>1, Facts DEF Allowed
    <3>2. QED BY <1>1, <2>1, <3>1
  <2>2. QED BY <2>1 DEF Crowd, Recent
<1>3. IsFiniteSet(Recent(now))
  <2>1. Recent(now) \subseteq Served
    BY DEF Recent, Served
  <2>2. QED BY <2>1, FS_Subset DEF Finite
<1>4. QED BY <1>1, <1>2, <1>3, LocalAssumption, Larger

LEMMA SpacedStep ==
  ASSUME TypeOK, Finite, Rooted, Past, Remembered, SpacedUnlessCrowded,
         NEW r \in Requests, Dispatch(r)
  PROVE  SpacedUnlessCrowded'
<1> SUFFICES ASSUME NEW c \in Clients, NEW p \in Allowed(c)', NEW s \in Allowed(c)',
                    p # s, req'[p].at <= req'[s].at, req'[s].at - req'[p].at < MinInterval,
                    NEW t \in Nat, t = req'[s].at
             PROVE  Cardinality(Recent(t)') > MaxTracked
  <2>1. \A s \in Requests : req'[s].at \in Nat
    BY DispatchDoes DEF TypeOK, RequestType
  <2>2. QED BY <2>1 DEF SpacedUnlessCrowded, Recent, Allowed
<1>1. /\ req'[r].at = now /\ now \in Nat /\ MinInterval \in Nat /\ MinInterval > 0
      /\ req'[r].pc = "allowed" => ~Limited(ClientOf[r])
      /\ \A q \in Allowed(c) : /\ q \in Requests /\ req[q].pc = "allowed" /\ ClientOf[q] = c
                               /\ req[q].at \in Nat /\ req[q].at <= now
                               /\ q # r /\ req'[q] = req[q]
      /\ \A q \in Allowed(c)' : \/ q \in Allowed(c)
                                \/ q = r /\ c = ClientOf[r] /\ req'[r].pc = "allowed"
  BY DispatchDoes, Facts, AllowedGrows DEF Allowed, Past
<1>2. CASE p \in Allowed(c) /\ s \in Allowed(c)
  <2>1. Cardinality(Recent(req[s].at)) > MaxTracked
    BY <1>1, <1>2 DEF SpacedUnlessCrowded
  <2>2. t = req[s].at
    BY <1>1, <1>2
  <2>3. QED BY <2>1, <2>2, RecentStays
<1>3. CASE p = r \/ s = r
  <2>1. PICK q \in Allowed(c) : {p, s} = {q, r}
    BY <1>1, <1>3
  <2>2. /\ t = now /\ ~Limited(c) /\ now - req[q].at < MinInterval
        /\ req[q].at \in Nat
    BY <1>1, <1>3, <2>1
  <2>3. Crowded(req[q].at)
    BY <1>1, <2>2, LimitedOrCrowded
  <2>4. Cardinality(Recent(now)) > MaxTracked
    BY <2>2, <2>3, CrowdIsRecent
  <2>5. QED BY <2>2, <2>4, RecentStays
<1>4. QED BY <1>1, <1>2, <1>3

-----------------------------------------------------------------------------
(* The invariant *)

LEMMA RootedStep ==
  ASSUME TypeOK, Rooted, Past, NEW r \in Requests, Dispatch(r)
  PROVE  Rooted' /\ Past'
<1> DEFINE c == ClientOf[r]
<1>1. /\ now' = now /\ req'[r].at = now /\ c \in Clients /\ now \in Nat
      /\ \A s \in Requests \ {r} : req'[s] = req[s]
      /\ \/ Stamp(c) /\ req'[r].pc = "allowed"
         \/ lastSeen' = [d \in Tracked |-> lastSeen[d]] /\ UNCHANGED inserted
  BY DispatchDoes, Facts DEF Deny
<1>2. Past'
  BY <1>1 DEF Past
<1>3. ASSUME NEW d \in DOMAIN lastSeen'
      PROVE  \E q \in Allowed(d)' : req'[q].at = lastSeen'[d].at
  <2>1. CASE d \in Tracked /\ lastSeen'[d] = lastSeen[d]
    <3>1. PICK q \in Allowed(d) : req[q].at = lastSeen[d].at
      BY <2>1, TrackedKnown DEF Rooted
    <3>2. QED BY <2>1, <3>1, AllowedGrows
  <2>2. CASE d = c /\ Stamp(c) /\ req'[r].pc = "allowed" /\ lastSeen'[d].at = now
    BY <1>1, <2>2 DEF Allowed
  <2>3. CASE lastSeen' = [e \in Tracked |-> lastSeen[e]]
    BY <2>1, <2>3
  <2>4. QED BY <1>1, <2>1, <2>2, <2>3, Entries
<1>4. QED BY <1>2, <1>3 DEF Rooted

LEMMA InitIInv == Init => IInv
<1> SUFFICES ASSUME Init PROVE IInv
  OBVIOUS
<1>1. DOMAIN lastSeen = {} /\ (\A r \in Requests : req[r] = Unsent) /\ Unsent.pc = "new"
  BY DEF Init, Unsent
<1>2. TypeOK
  BY <1>1, RateLimitAssumption, LocalAssumption DEF Init, TypeOK, Unsent, RequestType, RequestPC
<1>3. \A c \in Clients : Allowed(c) = {}
  BY <1>1 DEF Allowed
<1>4. Finite /\ Bounded
  <2>1. Served = {}
    BY <1>3 DEF Served
  <2>2. IsFiniteSet({}) /\ Cardinality({}) = 0
    BY FS_EmptySet
  <2>3. QED BY <1>1, <2>1, <2>2, LocalAssumption DEF Finite, Bounded
<1>5. Rooted /\ Past /\ Remembered /\ SpacedUnlessCrowded
  BY <1>1, <1>3 DEF Rooted, Past, Remembered, SpacedUnlessCrowded
<1>6. QED BY <1>2, <1>4, <1>5 DEF IInv

LEMMA TickStep == IInv /\ Tick => IInv'
<1> SUFFICES ASSUME IInv, Tick PROVE IInv'
  OBVIOUS
<1>1. now' = now + 1 /\ UNCHANGED <<req, lastSeen, inserted, ops>>
  BY DEF Tick
<1>2. TypeOK /\ TypeOK'
  BY <1>1 DEF IInv, TypeOK
<1>3. Finite' /\ Bounded' /\ Rooted'
  BY <1>1 DEF IInv, Finite, Served, Allowed, Bounded, Rooted
<1>4. Past'
  BY <1>1, <1>2, Facts DEF IInv, Past
<1>5. Remembered'
  <2>1. ASSUME NEW r \in Requests, req[r].pc = "allowed", (now + 1) - req[r].at < MinInterval
        PROVE  \/ ClientOf[r] \in DOMAIN lastSeen /\ lastSeen[ClientOf[r]].at >= req[r].at
               \/ \E t \in 0 .. now + 1 : req[r].at <= t /\ Cardinality(Crowd(t)) > MaxTracked
    <3>1. now \in Nat /\ req[r].at \in Nat /\ MinInterval \in Nat
      BY <1>2, Facts
    <3>2. now - req[r].at < MinInterval
      BY <2>1, <3>1
    <3>3. QED BY <2>1, <3>1, <3>2 DEF IInv, Remembered, Crowded
  <2>2. ASSUME NEW t \in Nat
        PROVE  Crowd(t)' = Crowd(t)
    BY <1>1 DEF Crowd, Allowed
  <2>3. now \in Nat /\ now' = now + 1 /\ req' = req /\ lastSeen' = lastSeen
    BY <1>1, <1>2, Facts
  <2>4. ASSUME NEW r \in Requests, req'[r].pc = "allowed", now' - req'[r].at < MinInterval
        PROVE  \/ ClientOf[r] \in DOMAIN lastSeen' /\ lastSeen'[ClientOf[r]].at >= req'[r].at
               \/ \E t \in 0 .. now' : req'[r].at <= t /\ Cardinality(Crowd(t)') > MaxTracked
    <3>1. req[r].pc = "allowed" /\ (now + 1) - req[r].at < MinInterval /\ req'[r] = req[r]
      BY <2>3, <2>4
    <3>2. CASE \E t \in 0 .. now + 1 : req[r].at <= t /\ Cardinality(Crowd(t)) > MaxTracked
      <4>1. PICK t \in 0 .. now + 1 : req[r].at <= t /\ Cardinality(Crowd(t)) > MaxTracked
        BY <3>2
      <4>2. t \in Nat /\ t \in 0 .. now'
        BY <2>3, <4>1
      <4>3. Cardinality(Crowd(t)') > MaxTracked
        BY <2>2, <4>1, <4>2
      <4>4. QED BY <3>1, <4>1, <4>2, <4>3
    <3>3. QED BY <2>1, <2>3, <3>1, <3>2
  <2>5. QED BY <2>4 DEF Remembered, Crowded
<1>6. SpacedUnlessCrowded'
  BY <1>1 DEF IInv, SpacedUnlessCrowded, Allowed, Recent
<1>7. QED BY <1>2, <1>3, <1>4, <1>5, <1>6 DEF IInv

LEMMA IInvStep == IInv /\ [Next]_vars => IInv'
<1> SUFFICES ASSUME IInv, [Next]_vars PROVE IInv'
  OBVIOUS
<1>1. ASSUME NEW r \in Requests, Dispatch(r)
      PROVE  IInv'
  <2>1. TypeOK' /\ Finite' /\ Bounded'
    BY <1>1, DispatchDoes, BoundedStep, ServedGrows DEF IInv, Finite
  <2>2. Rooted' /\ Past' /\ Remembered' /\ SpacedUnlessCrowded'
    BY <1>1, RootedStep, RememberedStep, SpacedStep DEF IInv
  <2>3. QED BY <2>1, <2>2 DEF IInv
<1>2. CASE Tick
  BY <1>2, TickStep
<1>3. CASE UNCHANGED vars
  <2>1. TypeOK' /\ Finite' /\ Bounded' /\ Rooted' /\ Past'
    BY <1>3 DEF vars, IInv, TypeOK, Finite, Served, Allowed, Bounded, Rooted, Past
  <2>2. Remembered'
    BY <1>3 DEF vars, IInv, Remembered, Crowded, Crowd, Allowed
  <2>3. SpacedUnlessCrowded'
    BY <1>3 DEF vars, IInv, SpacedUnlessCrowded, Recent, Allowed
  <2>4. QED BY <2>1, <2>2, <2>3 DEF IInv
<1>4. QED BY <1>1, <1>2, <1>3 DEF Next

LEMMA Invariant == Spec => []IInv
BY InitIInv, IInvStep, PTL DEF Spec

\* _last_seen and the counter of dispatch have their types at all times: in particular
\* the counter comes back to 0 before it passes the number of requests between cleanups.
THEOREM TypeCorrect == Spec => []TypeOK
<1>1. IInv => TypeOK
  BY DEF IInv
<1>2. QED BY Invariant, <1>1, PTL

\* However many clients come, _last_seen has at most one entry more than _max_tracked.
THEOREM DictionaryBounded == Spec => []Bounded
<1>1. IInv => Bounded
  BY DEF IInv
<1>2. QED BY Invariant, <1>1, PTL

\* dispatch lets two requests of one client through closer together than the interval
\* only when it had to make room for more than _max_tracked clients in between.
THEOREM OnlyACrowdExcuses == Spec => []SpacedUnlessCrowded
<1>1. IInv => SpacedUnlessCrowded
  BY DEF IInv
<1>2. QED BY Invariant, <1>1, PTL
=============================================================================
