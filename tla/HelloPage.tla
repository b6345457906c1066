----------------------------- MODULE HelloPage -----------------------------
(***************************************************************************)
(* The page "/" (main.py): the first request sleeps for five seconds under *)
(* a lock, the requests that come meanwhile wait for the lock.             *)
(***************************************************************************)
EXTENDS ApiState

\* Mutant: the payload is looked at before the lock is taken, and not again
HelloLockUnchecked(r) ==
  /\ req[r].pc = "lock"
  /\ \A s \in Requests : req[s].pc # "sleep"
  /\ Goto(r, [pc |-> "sleep"])
  /\ UNCHANGED hello

HelloLock(r) ==
  /\ req[r].pc = "lock"
  /\ \A s \in Requests : req[s].pc # "sleep"
  /\ IF hello THEN Reply(r, 200, {}) ELSE Goto(r, [pc |-> "sleep"])
  /\ UNCHANGED hello

HelloWake(r) ==
  /\ req[r].pc = "sleep"
  /\ hello' = TRUE
  /\ Reply(r, 200, {})

HelloStep(r) == HelloLock(r) \/ HelloWake(r)
=============================================================================
