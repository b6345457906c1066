--------------------------- MODULE LocalRateLimit ---------------------------
(***************************************************************************)
(* RateLimitMiddleware without Redis: a dictionary in the process, guarded *)
(* by an asyncio.Lock that nothing awaits under, so that dispatch is one   *)
(* step.  A Python dictionary keeps the order in which its keys were       *)
(* inserted, and assigning to a key that is there leaves it in its place:  *)
(* every entry has the number of its insertion here.  "now" is             *)
(* time.time(), not set back.                                              *)
(***************************************************************************)
EXTENDS RateLimit

CONSTANTS MaxTracked,    \* _max_tracked
          CleanupEvery   \* the 256 of dispatch

ASSUME LocalAssumption == MaxTracked \in Nat \ {0} /\ CleanupEvery \in Nat \ {0}

VARIABLES lastSeen,  \* _last_seen: of each client in it, the time and the insertion
          inserted,  \* insertions so far
          ops        \* _ops_since_cleanup

vars == <<now, req, lastSeen, inserted, ops>>

\* The counter stays below the number of requests that brings a cleanup
TypeOK ==
  /\ now \in Nat
  /\ req \in [Requests -> RequestType]
  /\ DOMAIN lastSeen \subseteq Clients
  /\ lastSeen \in [DOMAIN lastSeen -> [at : Nat, since : Nat]]
  /\ inserted \in Nat
  /\ ops \in 0 .. CleanupEvery - 1

\* At the beginning every client's last request, 0.0, is more than an interval ago
Init ==
  /\ now = MinInterval
  /\ req = [r \in Requests |-> Unsent]
  /\ lastSeen = [c \in {} |-> [at |-> 0, since |-> 0]]
  /\ inserted = 0
  /\ ops = 0

-----------------------------------------------------------------------------
(* _evict_if_needed *)

Fresh == {c \in DOMAIN lastSeen : lastSeen[c].at >= now - StaleAfter}

\* Mutant: only the stale entries are dropped
KeptStaleOnly == Fresh

\* Mutant: the dictionary is cleared
KeptNone == {}

\* The fresh entries inserted no earlier than c's
Behind(c) == {d \in Fresh : lastSeen[d].since >= lastSeen[c].since}

\* The stale entries are deleted, and then the first ones while there are too many
Kept == {c \in Fresh : Cardinality(Behind(c)) <= MaxTracked}

-----------------------------------------------------------------------------
(* dispatch *)

\* Mutant: the counter is compared before it is counted up
CleanupDueLate == ops >= CleanupEvery \/ Cardinality(DOMAIN lastSeen) > MaxTracked

CleanupDue == ops + 1 >= CleanupEvery \/ Cardinality(DOMAIN lastSeen) > MaxTracked

\* The clients in the dictionary when dispatch looks the client up
Tracked == IF CleanupDue THEN Kept ELSE DOMAIN lastSeen

Limited(c) == c \in Tracked /\ now - lastSeen[c].at < MinInterval

\* self._last_seen[client_key] = now
Stamp(c) ==
  /\ lastSeen' = [d \in Tracked \cup {c} |->
                    IF d # c THEN lastSeen[d]
                    ELSE [at    |-> now,
                          since |-> IF c \in Tracked THEN lastSeen[c].since ELSE inserted]]
  /\ inserted' = IF c \in Tracked THEN inserted ELSE inserted + 1

Deny(r) ==
  /\ Limited(ClientOf[r])
  /\ lastSeen' = [d \in Tracked |-> lastSeen[d]]
  /\ UNCHANGED inserted
  /\ Answer(r, "denied", now, RetryAfter(now - lastSeen[ClientOf[r]].at))

Allow(r) ==
  /\ ~Limited(ClientOf[r])
  /\ Stamp(ClientOf[r])
  /\ Answer(r, "allowed", now, 0)

Dispatch(r) ==
  /\ req[r].pc = "new"
  /\ ops' = IF CleanupDue THEN 0 ELSE ops + 1
  /\ Deny(r) \/ Allow(r)
  /\ UNCHANGED now

Tick ==
  /\ now < MaxNow
  /\ now' = now + 1
  /\ UNCHANGED <<req, lastSeen, inserted, ops>>

Next == (\E r \in Requests : Dispatch(r)) \/ Tick

Spec == Init /\ [][Next]_vars

-----------------------------------------------------------------------------
(* Properties *)

\* The dictionary has room for one more client than _max_tracked: the cleanup runs
\* before the insertion, not after it.
Bounded == Cardinality(DOMAIN lastSeen) <= MaxTracked + 1

\* The clients let through in the window in which entries are not stale
Recent(t) ==
  {c \in Clients : \E r \in Allowed(c) :
                      req[r].at <= t /\ t - req[r].at <= StaleAfter + MinInterval}

\* Forgetting costs the interval only in a crowd: two requests of one client let
\* through closer together mean that more than _max_tracked clients were let
\* through lately, so that the first entries had to go.
SpacedUnlessCrowded ==
  \A c \in Clients : \A r, s \in Allowed(c) :
     /\ r # s /\ req[r].at <= req[s].at
     /\ req[s].at - req[r].at < MinInterval
     => Cardinality(Recent(req[s].at)) > MaxTracked
=============================================================================
