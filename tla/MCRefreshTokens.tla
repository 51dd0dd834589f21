-------------------------- MODULE MCRefreshTokens --------------------------
(***************************************************************************)
(* Instances of RefreshTokens for TLC.  The deep instance starts from a    *)
(* reachable state: one account whose session has rotated twice, so that   *)
(* replays of two different used tokens of one family can meet.            *)
(***************************************************************************)
EXTENDS RefreshTokens, TLC

CONSTANTS r1, r2, r3, t1, t2, t3, alice

RequestSymmetry == Permutations(Requests)

\* r1 logged alice in and was given t1; r2 exchanged t1 for t2, r3 t2 for t3.
Past == {r1, r2, r3}
Session(used) == [user |-> alice, family |-> t1, exp |-> TTL, used |-> used, revoked |-> FALSE]

DeepInit ==
    /\ clock = 0
    /\ users = {alice}
    /\ row  = [t \in Tokens |-> IF t \in {t1, t2, t3} THEN Session(t # t3) ELSE NoRow]
    /\ lock = [t \in Tokens |-> Free]
    /\ pc   = [r \in Requests |-> IF r \in Past THEN "pair" ELSE "new"]
    /\ who  = [r \in Requests |-> IF r = r1 THEN alice ELSE NoUser]
    /\ tok  = [r \in Requests |-> IF r = r2 THEN t1 ELSE IF r = r3 THEN t2 ELSE NoToken]
    /\ at   = [r \in Requests |-> 0]
    /\ repl = [r \in Requests |-> IF r = r1 THEN t1 ELSE IF r = r2 THEN t2
                                  ELSE IF r = r3 THEN t3 ELSE NoToken]
    /\ todo = [r \in Requests |-> {}]

DeepSpec == DeepInit /\ [][Next]_vars /\ \A r \in Requests : WF_vars(Serve(r))
=============================================================================
