-------------------------- MODULE MCRedisRateLimit --------------------------
(***************************************************************************)
(* One client: keys of different clients never meet.  A quarter of a       *)
(* second to the tick, so the interval of one second is four.              *)
(***************************************************************************)
EXTENDS RedisRateLimit, TLC

CONSTANTS c1, r1, r2, r3

OneClient == [r \in {r1, r2, r3} |-> c1]
\* Requests of one client are alike
Symmetry == Permutations({r1, r2, r3})
=============================================================================
