-------------------------- MODULE DocumentLifecycle --------------------------
(***************************************************************************)
(* What the knowledge base promises the client of its API about a          *)
(* document, without workers, queues, files or batches:                    *)
(*                                                                         *)
(*  - an accepted document is pending until it is given one verdict, done  *)
(*    or failed, which only a deletion ends;                               *)
(*  - it is done only once the whole of it can be searched;                *)
(*  - while it is done it stays searchable until its deletion, or that of  *)
(*    its work, is requested;                                              *)
(*  - no document is accepted into a deleted work.                         *)
(***************************************************************************)
CONSTANT Docs

VARIABLES open,       \* the work exists
          phase,      \* what GET .../documents shows of each document
          searchable, \* documents every chunk of which retrieval can return
          closing     \* deletions requested and not answered: documents, or Work

vars == <<open, phase, searchable, closing>>

Work == "work"

Listed(d) == phase[d] \in {"pending", "done", "failed"}

Init ==
  /\ open = TRUE
  /\ phase = [d \in Docs |-> "none"]
  /\ searchable = {} /\ closing = {}

Accept(d) ==
  /\ open /\ phase[d] = "none"
  /\ phase' = [phase EXCEPT ![d] = "pending"]
  /\ UNCHANGED <<open, searchable, closing>>

\* Chunks of a document that is gone may still be indexed
Index(d) ==
  /\ phase[d] # "none"
  /\ searchable' = searchable \cup {d}
  /\ UNCHANGED <<open, phase, closing>>

Publish(d) ==
  /\ phase[d] = "pending" /\ d \in searchable
  /\ phase' = [phase EXCEPT ![d] = "done"]
  /\ UNCHANGED <<open, searchable, closing>>

Reject(d) ==
  /\ phase[d] = "pending"
  /\ phase' = [phase EXCEPT ![d] = "failed"]
  /\ UNCHANGED <<open, searchable, closing>>

\* Vectors go away: of an unpublished document, or for a deletion
Retract(S) ==
  /\ S # {}
  /\ \A d \in S : phase[d] # "done" \/ closing \cap {d, Work} # {}
  /\ searchable' = searchable \ S
  /\ UNCHANGED <<open, phase, closing>>

Request(target) ==
  /\ open
  /\ target = Work \/ Listed(target)
  /\ closing' = closing \cup {target}
  /\ UNCHANGED <<open, phase, searchable>>

\* The request is answered with an error, or finds nothing left to delete
GiveUp(target) ==
  /\ target \in closing
  /\ closing' = closing \ {target}
  /\ UNCHANGED <<open, phase, searchable>>

DeleteDocument(d) ==
  /\ d \in closing /\ Listed(d)
  /\ phase' = [phase EXCEPT ![d] = "deleted"]
  /\ closing' = closing \ {d}
  /\ UNCHANGED <<open, searchable>>

DeleteWork ==
  /\ Work \in closing
  /\ open' = FALSE
  /\ phase' = [d \in Docs |-> IF Listed(d) THEN "deleted" ELSE phase[d]]
  /\ closing' = closing \ {Work}
  /\ UNCHANGED searchable

Next ==
  \/ \E d \in Docs : \/ Accept(d) \/ Index(d) \/ Publish(d) \/ Reject(d)
                     \/ DeleteDocument(d)
  \/ \E S \in SUBSET Docs : Retract(S)
  \/ \E target \in Docs \cup {Work} : Request(target) \/ GiveUp(target)
  \/ DeleteWork

Spec == Init /\ [][Next]_vars
=============================================================================
