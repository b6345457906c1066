---------------------------- MODULE AccessToken ----------------------------
(***************************************************************************)
(* The access tokens of core/security.py.  A token is its claims and       *)
(* whether this server's secret signed them; PyJWT, outside the source,    *)
(* checks the signature and then exp.                                      *)
(***************************************************************************)
EXTENDS Integers

CONSTANTS Users,
          NoUser,     \* a user_id claim that is missing or no integer
          AccessTTL   \* JWT_ACCESS_TOKEN_EXPIRE_MINUTES

ASSUME TokenAssumption == NoUser \notin Users /\ AccessTTL \in Nat \ {0}

Token == [user : Users \cup {NoUser}, exp : Nat, signed : BOOLEAN]

CreateToken(user, now) == [user |-> user, exp |-> now + AccessTTL, signed |-> TRUE]

\* The user id, or NoUser for both AuthTokenExpired and AuthTokenInvalid, which
\* get_current_user_id answers alike, with a 401
VerifyToken(token, now) ==
  IF token.signed /\ now < token.exp THEN token.user ELSE NoUser

\* What the token is worth by its origin: this server gave it to the user less than
\* AccessTTL ago
Genuine(token, user, now) ==
  \E t \in 0 .. now : token = CreateToken(user, t) /\ now - t < AccessTTL
=============================================================================
