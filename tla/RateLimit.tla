----------------------------- MODULE RateLimit -----------------------------
(***************************************************************************)
(* What the two modes of RateLimitMiddleware (core/middleware.py) share:   *)
(* time, the requests to a limited path, and the answer of dispatch to     *)
(* each.  RedisRateLimit and LocalRateLimit extend it.                     *)
(*                                                                         *)
(* Time is counted in ticks, TicksPerSecond of them to the second, so that *)
(* fractions of a second and the whole seconds of Retry-After differ.      *)
(***************************************************************************)
EXTENDS Integers, FiniteSets

CONSTANTS Requests,       \* requests that may arrive, each answered once
          Clients,        \* the keys _rate_limit_client_key gives
          ClientOf,       \* the client of each request
          MinInterval,    \* _min_interval, in ticks
          StaleAfter,     \* _stale_after, in ticks
          TicksPerSecond,
          MaxNow          \* bound: the last tick

\* __init__: stale_after defaults to max(10 * min_interval, 60 s)
ASSUME RateLimitAssumption ==
  /\ ClientOf \in [Requests -> Clients]
  /\ MinInterval \in Nat \ {0}
  /\ StaleAfter \in Nat /\ StaleAfter >= MinInterval
  /\ TicksPerSecond \in Nat \ {0}
  /\ MaxNow \in Nat

VARIABLES
  now,   \* the present tick
  req    \* progress of each request: pc, stamp (its "now = time.time()"),
         \* at (tick of its arrival, then of its answer), retry (Retry-After, seconds)

RequestPC == {"new", "sent", "resent", "allowed", "unchecked", "denied"}

RequestType == [pc : RequestPC, stamp : Int, at : Nat, retry : Nat]

Unsent == [pc |-> "new", stamp |-> 0, at |-> 0, retry |-> 0]

\* Mutant: whole seconds, rounded down
RetryAfterFloor(elapsed) == (MinInterval - elapsed) \div TicksPerSecond

\* Mutant: the difference the wrong way round
RetryAfterSwapped(elapsed) == (elapsed - MinInterval) \div TicksPerSecond + 1

\* Retry-After of a request that came elapsed ticks after the last one
RetryAfter(elapsed) == (MinInterval - elapsed) \div TicksPerSecond + 1

Answer(r, pc, stamp, retry) ==
  req' = [req EXCEPT ![r] = [pc |-> pc, stamp |-> stamp, at |-> now, retry |-> retry]]

\* The answered requests of client c that were let through after its interval
\* was checked; "unchecked" ones were let through because Redis failed
Allowed(c) == {r \in Requests : ClientOf[r] = c /\ req[r].pc = "allowed"}

\* Any two requests let through for one client are at least gap apart
Apart(gap) ==
  \A c \in Clients : \A r, s \in Allowed(c) :
     r # s => req[r].at - req[s].at >= gap \/ req[s].at - req[r].at >= gap
=============================================================================
