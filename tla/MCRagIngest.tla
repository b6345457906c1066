----------------------------- MODULE MCRagIngest -----------------------------
(***************************************************************************)
(* Instances of RagIngest for TLC.  Document d1 needs two batches, d2 one, *)
(* so that a job can fail before, between and after its batches.           *)
(***************************************************************************)
EXTENDS RagIngest

CONSTANTS d1, d2

Chunks == [d \in Docs |-> IF d = d1 THEN 3 ELSE 1]

\* d2 is a file that cannot be split
BlankChunks == [d \in Docs |-> IF d = d1 THEN 3 ELSE 0]
=============================================================================
