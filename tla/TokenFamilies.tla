---------------------------- MODULE TokenFamilies ----------------------------
(***************************************************************************)
(* What refresh-token rotation promises, without requests, transactions or *)
(* clocks: every session is a family of tokens, each of which is exchanged *)
(* for at most one other; a token that is presented again is revoked with  *)
(* its successor and every older token of the family.  How much of the     *)
(* rest of the family a revocation reaches is up to the repository: what   *)
(* escapes can only be the youngest end of the chain.                      *)
(***************************************************************************)
CONSTANT Tokens

VARIABLES family,     \* the family of every token issued
          successor,  \* what each used token was exchanged for
          revoked     \* the revoked tokens

vars == <<family, successor, revoked>>

Issued == DOMAIN family
Used   == DOMAIN successor
FamilyOf(t) == {x \in Issued : family[x] = family[t]}

\* With a token of S, every older token of its family is in S.
OldestOf(S) == \A x \in Used : successor[x] \in S => x \in S

\* The server is started on a table of chains that earlier steps have made.
Linked ==
    /\ Used \subseteq Issued /\ revoked \subseteq Issued
    /\ \A x \in Used : successor[x] \in FamilyOf(x)
    /\ \A x, y \in Used : successor[x] = successor[y] => x = y
    /\ OldestOf(revoked)

Init == Linked

Add(t, f) == family' = [x \in Issued \cup {t} |-> IF x = t THEN f ELSE family[x]]

\* Registration and login.
Open(t) ==
    /\ t \notin Issued
    /\ Add(t, t)
    /\ UNCHANGED <<successor, revoked>>

\* Rotation of t into s.
Exchange(t, s) ==
    /\ t \in Issued \ (Used \cup revoked)
    /\ s \notin Issued
    /\ Add(s, family[t])
    /\ successor' = [x \in Used \cup {t} |-> IF x = t THEN s ELSE successor[x]]
    /\ UNCHANGED revoked

\* Reuse of t.
Revoke(t, S) ==
    /\ t \in Used \ revoked
    /\ S \subseteq FamilyOf(t)
    /\ {t, successor[t]} \subseteq S
    /\ OldestOf(S)
    /\ revoked' = revoked \cup S
    /\ UNCHANGED <<family, successor>>

Next ==
    \/ \E t \in Tokens : Open(t)
    \/ \E t, s \in Tokens : Exchange(t, s)
    \/ \E t \in Tokens, S \in SUBSET Tokens : Revoke(t, S)

Spec == Init /\ [][Next]_vars
=============================================================================
