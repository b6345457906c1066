-------------------------- MODULE EmbeddingErrors --------------------------
(***************************************************************************)
(* map_embedding_error (rag/errors.py): the HTTP status of an exception of *)
(* the retrieval.  An exception is the classes it is an instance of, the   *)
(* status code it carries, 0 if none, and whether its message holds one of *)
(* the words looked for.  The hint of the provider only goes into wording. *)
(***************************************************************************)
EXTENDS Integers, Sequences

\* The class hierarchies of asyncio, httpx and openai
Classes(name) ==
  CASE name = "ConnectTimeout"  -> {"ConnectTimeout", "TimeoutException"}
    [] name = "ReadTimeout"     -> {"TimeoutException"}
    [] name = "APITimeoutError" -> {"APITimeoutError", "APIConnectionError"}
    [] OTHER                    -> {name}

AnyCode == 0 .. 599

\* Only the errors of a status carry a code
Exception ==
  LET raised(names, codes) == [name : names, code : codes, words : BOOLEAN]
  IN  raised({"HTTPStatusError", "APIStatusError"}, AnyCode \ {0})
        \cup raised({"TimeoutError", "ConnectTimeout", "ReadTimeout", "ConnectError",
                    "APIConnectionError", "APITimeoutError", "other"}, {0})

Branch(classes, codes, status) ==
  [classes |-> classes, codes |-> codes, status |-> status]

\* The branches in the order of the source: the classes tested, the codes, the status.
\* A status error with no branch of its own falls through.
Branches ==
  <<Branch({"TimeoutError"}, AnyCode, 504),
    Branch({"TimeoutException"}, AnyCode, 504),
    Branch({"ConnectError", "ConnectTimeout"}, AnyCode, 503),
    Branch({"HTTPStatusError"}, {401, 403}, 502),
    Branch({"HTTPStatusError"}, {429}, 429),
    Branch({"HTTPStatusError"}, {400}, 400),
    Branch({"HTTPStatusError"}, 500 .. 599, 502),
    Branch({"APIConnectionError", "APITimeoutError"}, AnyCode, 503),
    Branch({"APIStatusError"}, {401, 403}, 502),
    Branch({"APIStatusError"}, {429}, 429),
    Branch({"APIStatusError"}, {400}, 400),
    Branch({"APIStatusError"}, 500 .. 599, 502)>>

Taken(e) == {i \in DOMAIN Branches : /\ Classes(e.name) \cap Branches[i].classes # {}
                                     /\ e.code \in Branches[i].codes}

First(indices) == CHOOSE i \in indices : \A j \in indices : i <= j

\* Mutant: the status of the provider is passed on
MapEmbeddingErrorPassedOn(e) ==
  IF e.code # 0 THEN e.code
  ELSE IF Taken(e) = {} THEN 500
  ELSE Branches[First(Taken(e))].status

\* Mutant: the words of the message are not looked at
MapEmbeddingErrorByClass(e) ==
  IF Taken(e) = {} THEN 500
  ELSE Branches[First(Taken(e))].status

\* The first branch taken; after them the words, "timeout", "10060" or "connect"
MapEmbeddingError(e) ==
  IF Taken(e) # {} THEN Branches[First(Taken(e))].status
  ELSE IF e.words THEN 503 ELSE 500
=============================================================================
