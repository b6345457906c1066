----------------------------- MODULE MCAccounts -----------------------------
(***************************************************************************)
(* One name and two passwords: two people register the same name, and the  *)
(* one who succeeds logs in.  Tokens, like slots, are alike.               *)
(***************************************************************************)
EXTENDS Accounts, TLC

CONSTANTS p1, p2, t1, t2, t3, t4

Symmetry == Permutations({p1, p2}) \cup Permutations({t1, t2, t3, t4})
=============================================================================
