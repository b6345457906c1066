------------------------------- MODULE MCApi -------------------------------
(***************************************************************************)
(* Three requests on two connections, two users, one of whom has a work,   *)
(* and a token of every age.                                               *)
(***************************************************************************)
EXTENDS Api, TLC

CONSTANTS r1, r2, r3

Ann == CreateToken("ann", Now)
Bob == CreateToken("bob", Now)

\* Made at every time up to Now, the boundary of exp included; and not made here
Bearers == {CreateToken("ann", t) : t \in 0 .. Now}
             \cup {Bob, [Ann EXCEPT !.signed = FALSE], [Ann EXCEPT !.user = NoUser]}

By(bearer, kind, id, title) ==
  [kind |-> kind, bearer |-> bearer, id |-> id, title |-> title]

\* r1 chats, reads or deletes, r2 chats, renames or creates, r3 does what gets in the way
\* of both; all may want the page "/"
WhoAsksWhat ==
  (r1 :> {By(b, "get", 1, "a") : b \in Bearers}
           \cup {By(Ann, "chat", 1, "a"), By(Ann, "delete", 1, "a"), By(Ann, "hello", 1, "a")}) @@
  (r2 :> {By(Ann, "chat", 1, "a"), By(Ann, "create", 1, "b"), By(Ann, "hello", 1, "a")}
           \cup {By(Ann, "rename", 1, t) : t \in {"a", "b"}}) @@
  (r3 :> {By(Ann, "delete", 1, "a"), By(Ann, "rename", 1, "b"), By(Ann, "rename", 1, "c"),
          By(Bob, "create", 1, "b"), By(Ann, "list", 1, "a"), By(Ann, "hello", 1, "a")})

AnnsWork == <<[user |-> "ann", title |-> "a"]>>

\* One exception of every branch, and of every way through none
Raised(name, code, words) == [name |-> name, code |-> code, words |-> words]

AllFailures ==
  {Raised(name, 0, FALSE) : name \in Network \cup {"other"}}
    \cup {Raised("other", 0, TRUE), Raised("HTTPStatusError", 408, TRUE)}
    \cup {Raised(name, code, FALSE) : name \in {"HTTPStatusError", "APIStatusError"},
                                      code \in {400, 401, 404, 429, 503}}

=============================================================================
