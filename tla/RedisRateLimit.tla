--------------------------- MODULE RedisRateLimit ---------------------------
(***************************************************************************)
(* RateLimitMiddleware with Redis: dispatch takes the application's clock, *)
(* then awaits the Lua script _RL_LAST_SEEN_LUA, which reads, compares     *)
(* with Redis' own clock and writes atomically.  Redis' clock is "now".    *)
(* Any number of server processes share the key, each with a clock of its  *)
(* own; the connection has no read timeout (db/redis.py), so the script    *)
(* runs when it runs.                                                      *)
(***************************************************************************)
EXTENDS RateLimit

CONSTANTS MaxDelay,  \* bound: ticks between time.time() and the end of the script
          MaxSkew    \* bound: how far an application's clock is from Redis'

ASSUME RedisAssumption == MaxDelay \in Nat /\ MaxSkew \in Nat

VARIABLES last,     \* the key of each client: its value, and when it expires
          storedAt  \* history: when the script stored the timestamp of each request

vars == <<now, req, last, storedAt>>

\* Timestamps may be ahead of or behind Redis' clock, Retry-After is natural
TypeOK ==
  /\ now \in Nat
  /\ req \in [Requests -> RequestType]
  /\ last \in [Clients -> [stamp : Int, expires : Nat]]
  /\ storedAt \in [Requests -> SUBSET Nat]

Init ==
  /\ now = 0
  /\ req = [r \in Requests |-> Unsent]
  /\ last = [c \in Clients |-> [stamp |-> 0, expires |-> 0]]
  /\ storedAt = [r \in Requests |-> {}]

-----------------------------------------------------------------------------
(* The script *)

Live(c) == last[c].expires > now

Limited(c) == Live(c) /\ now - last[c].stamp < MinInterval

\* Mutant: the expiry in the wrong unit
ExpiresSoon == now + 1

Expires == now + StaleAfter

Stored(r) == [last EXCEPT ![ClientOf[r]] = [stamp |-> req[r].stamp, expires |-> Expires]]

\* Mutant: the timestamp is set before it is known whether the request is let through
ScriptSlides(r) ==
  /\ last' = Stored(r)
  /\ IF Limited(ClientOf[r]) THEN UNCHANGED storedAt
                             ELSE storedAt' = [storedAt EXCEPT ![r] = @ \cup {now}]

\* SET of the application's timestamp, unless the interval is not over
Script(r) ==
  IF Limited(ClientOf[r])
  THEN UNCHANGED <<last, storedAt>>
  ELSE last' = Stored(r) /\ storedAt' = [storedAt EXCEPT ![r] = @ \cup {now}]

-----------------------------------------------------------------------------
(* dispatch *)

Waiting(r) == req[r].pc \in {"sent", "resent"}

Arrive(r) ==
  /\ req[r].pc = "new"
  /\ \E skew \in -MaxSkew .. MaxSkew : Answer(r, "sent", now + skew, 0)
  /\ UNCHANGED <<now, last, storedAt>>

Decide(r) ==
  LET c == ClientOf[r]
  IN  /\ Waiting(r)
      /\ Script(r)
      /\ IF Limited(c)
         THEN Answer(r, "denied", req[r].stamp, RetryAfter(now - last[c].stamp))
         ELSE Answer(r, "allowed", req[r].stamp, 0)
      /\ UNCHANGED now

\* The reply is lost and the client sends the command once more
LoseReply(r) ==
  /\ req[r].pc = "sent"
  /\ Script(r)
  /\ req' = [req EXCEPT ![r].pc = "resent"]
  /\ UNCHANGED now

\* except RedisError: the request goes through
RedisRaises(r) ==
  /\ Waiting(r)
  /\ Script(r) \/ UNCHANGED <<last, storedAt>>
  /\ Answer(r, "unchecked", req[r].stamp, 0)
  /\ UNCHANGED now

Tick ==
  /\ now < MaxNow
  /\ \A r \in Requests : Waiting(r) => now < req[r].at + MaxDelay
  /\ now' = now + 1
  /\ UNCHANGED <<req, last, storedAt>>

Next ==
  \/ \E r \in Requests : Arrive(r) \/ Decide(r) \/ LoseReply(r) \/ RedisRaises(r)
  \/ Tick

Spec == Init /\ [][Next]_vars

-----------------------------------------------------------------------------
(* Properties *)

\* The interval the limiter really keeps at Redis: the stored timestamp may be
\* older than the moment it is stored by the delay of the request and the skew
\* of the clock that made it.  Lost replies and expiring keys do not shorten it.
Spaced == Apart(MinInterval - MaxDelay - MaxSkew)

\* The class promises a minimum interval between the requests of a client.
IntervalKept == Apart(MinInterval)

\* A request is denied only because a timestamp of its client was stored no longer
\* ago than interval and skew, that of a request the script found in time; never
\* because of requests that were denied.  (With a lost reply it may be its own: the
\* script sent again finds the timestamp of its first execution.)
DeniedForCause ==
  \A r \in Requests : req[r].pc = "denied" =>
    \E s \in Requests : \E t \in storedAt[s] :
       /\ ClientOf[s] = ClientOf[r]
       /\ t <= req[r].at /\ req[r].at - t < MinInterval + MaxSkew

\* A denied client that waits for Retry-After is let through, unless another
\* request of it was let through meanwhile.
RetryAfterSuffices ==
  \A r \in Requests :
     /\ req[r].pc = "denied"
     /\ now >= req[r].at + req[r].retry * TicksPerSecond
     /\ \A s \in Requests : \A t \in storedAt[s] :
          ClientOf[s] = ClientOf[r] => t <= req[r].at
     => ~Limited(ClientOf[r])
=============================================================================
