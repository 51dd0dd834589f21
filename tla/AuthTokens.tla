----------------------------- MODULE AuthTokens -----------------------------
(***************************************************************************)
(* The authentication service as its clients meet it, with the in-memory   *)
(* repository, whose mutex makes each call one step: token pairs are       *)
(* numbered as they are issued, and a number stands for the access token,  *)
(* the refresh token and the hash of a pair.                               *)
(***************************************************************************)
EXTENDS Naturals, Sequences

CONSTANTS Users

VARIABLE tokens  \* every pair issued: its memoryRefresh row and its access token

NoPair == 0

Issued == DOMAIN tokens

\* usedAt and revokedAt are set or nil; fresh: the access token is still valid.
Pair == [user: Users, family: Nat, used: BOOLEAN, revoked: BOOLEAN, fresh: BOOLEAN]

NewPair(u, f) == [user |-> u, family |-> f, used |-> FALSE, revoked |-> FALSE, fresh |-> TRUE]

\* Register and Login both open a family, named for its first pair.
IssueSession(u) == Append(tokens, NewPair(u, Len(tokens) + 1))

Rotatable(n) == ~tokens[n].used /\ ~tokens[n].revoked

RevokeFamily(n) ==
    [m \in Issued |->
        IF tokens[m].family = tokens[n].family THEN [tokens[m] EXCEPT !.revoked = TRUE]
        ELSE tokens[m]]

Rotate(n) == Append([tokens EXCEPT ![n].used = TRUE], NewPair(tokens[n].user, tokens[n].family))

\* A used token revokes its family, a revoked one changes nothing.
RotateRefresh(n) ==
    IF Rotatable(n) THEN Rotate(n)
    ELSE IF tokens[n].revoked THEN tokens ELSE RevokeFamily(n)

\* What Refresh answers: the new pair, or 401.
RefreshReply(n) == IF Rotatable(n) THEN Len(tokens) + 1 ELSE NoPair

\* The middleware's verdict on the Authorization header of a pair.
ValidateAccess(n) == tokens[n].fresh

\* Fifteen minutes later.
AccessExpires(n) ==
    /\ tokens[n].fresh
    /\ tokens' = [tokens EXCEPT ![n].fresh = FALSE]

SameFamily(m, n) == tokens[m].family = tokens[n].family
-----------------------------------------------------------------------------
\* The pairs make token families, as the rows of the PostgreSQL table do: what
\* a used pair was exchanged for is the next pair of its family.
IsNext(m, n) ==
    n < m /\ SameFamily(m, n) /\ \A k \in Issued : n < k /\ k < m => ~SameFamily(k, n)

NextPair(n) == CHOOSE m \in Issued : IsNext(m, n)

UsedPairs == {n \in Issued : tokens[n].used}

Families == INSTANCE TokenFamilies WITH
    Tokens <- Nat,
    family <- [n \in Issued |-> tokens[n].family],
    successor <- [n \in UsedPairs |-> NextPair(n)],
    revoked <- {n \in Issued : tokens[n].revoked}

\* Rotation goes from the last pair of a family to the next one.
Linear ==
    \A n \in Issued :
        /\ tokens[n].used => \E m \in Issued : IsNext(m, n)
        /\ ~tokens[n].used => \A m \in Issued : n < m => ~SameFamily(m, n)

\* Under its mutex the in-memory repository revokes a family as a whole.
RevokedWhole ==
    \A m, n \in Issued : SameFamily(m, n) /\ tokens[m].revoked => tokens[n].revoked

Chained == Linear /\ RevokedWhole
=============================================================================
