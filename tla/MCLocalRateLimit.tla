-------------------------- MODULE MCLocalRateLimit --------------------------
(***************************************************************************)
(* Four clients and room for two, two of which come again after others     *)
(* have pushed their entry out.                                            *)
(***************************************************************************)
EXTENDS LocalRateLimit

CONSTANTS c1, c2, c3, c4, r1, r2, r3, r4, r5, r6

TwoComeAgain == [r \in {r1, r2, r3, r4, r5, r6} |->
                   CASE r \in {r1, r2} -> c1 [] r \in {r3, r4} -> c2
                     [] r = r5 -> c3         [] r = r6 -> c4]
=============================================================================
