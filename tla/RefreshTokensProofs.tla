------------------------ MODULE RefreshTokensProofs ------------------------
(***************************************************************************)
(* Theorems about RefreshTokens, for any set of requests and tokens: the   *)
(* invariant IInv is inductive, so rotation consumes a token at most once, *)
(* a family never has two unused tokens, a reported replay has revoked the *)
(* token's successor, and a dead family stays dead.                        *)
(***************************************************************************)
EXTENDS RefreshTokens, TLAPS

\* The initial table is empty, so every part of the invariant holds of it.
LEMMA InitIInv == Init => IInv
<1> SUFFICES ASSUME Init PROVE IInv
  OBVIOUS
<1> USE ConstantsAssumption DEF Init
<1>1. TypeOK
  BY DEF TypeOK
<1>2. Rows = {}
  BY DEF Rows
<1>3. LocksHeld /\ SelectedRow /\ FamilyRooted /\ Replaced /\ RevokingCovers /\ ReuseReported
  BY <1>2 DEF LocksHeld, SelectedRow, FamilyRooted, Replaced, RevokingCovers, ReuseReported
<1>4. OneUnusedToken /\ ConsumedOnce /\ ReuseRevokesSuccessor
  BY <1>2 DEF OneUnusedToken, ConsumedOnce, ReuseRevokesSuccessor
<1>5. ReachIsOldest /\ UsedWasExchanged /\ GivenOnce /\ RevokedIsOldest
  BY <1>2 DEF ReachIsOldest, UsedWasExchanged, Used, GivenOnce, RevokedIsOldest
<1> QED
  BY <1>1, <1>3, <1>4, <1>5 DEF IInv

\* What a rotation does to the table.
LEMMA RotateCommitRows ==
  ASSUME IInv, NEW r \in Requests, RotateCommit(r)
  PROVE  \E n \in Tokens \ Rows :
           /\ repl' = [repl EXCEPT ![r] = n]
           /\ row' \in [Tokens -> Row \cup {NoRow}]
           /\ Rows' = Rows \cup {n}
           /\ row'[n].family = row[tok[r]].family /\ ~row'[n].used /\ ~row'[n].revoked
           /\ \A t \in Rows : /\ row'[t].family = row[t].family
                             /\ row'[t].revoked = row[t].revoked
                             /\ row'[t].used = (row[t].used \/ t = tok[r])
<1> USE DEF IInv, TypeOK
<1> DEFINE old == tok[r]
<1> DEFINE new == NewRow(row[old].user, row[old].family, at[r])
<1>1. PICK n \in Fresh : /\ row' = [row EXCEPT ![old].used = TRUE, ![n] = new]
                         /\ repl' = [repl EXCEPT ![r] = n]
  BY DEF RotateCommit
<1>2. n \in Tokens /\ n \notin Rows
  BY DEF Fresh
<1>3. old \in Rows
  BY DEF RotateCommit, SelectedRow
<1>4. NoRow \notin Row
  BY ConstantsAssumption DEF Row
<1>5. old \in Tokens /\ n # old /\ row[old] \in Row
  BY <1>2, <1>3 DEF Rows
<1>6. new \in Row
  BY <1>5, ConstantsAssumption DEF Row, NewRow
<1>7. [row[old] EXCEPT !.used = TRUE] \in Row
  BY <1>5 DEF Row
<1>8. row' = [t \in Tokens |-> IF t = n THEN new
                              ELSE IF t = old THEN [row[old] EXCEPT !.used = TRUE] ELSE row[t]]
  BY <1>1, <1>2, <1>5
<1>9. row' \in [Tokens -> Row \cup {NoRow}]
  BY <1>6, <1>7, <1>8
<1>10. Rows' = Rows \cup {n}
  BY <1>2, <1>3, <1>4, <1>6, <1>7, <1>8 DEF Rows
<1>11. row'[n].family = row[old].family /\ ~row'[n].used /\ ~row'[n].revoked
  BY <1>2, <1>8 DEF NewRow
<1>12. \A t \in Rows : /\ row'[t].family = row[t].family
                      /\ row'[t].revoked = row[t].revoked
                      /\ row'[t].used = (row[t].used \/ t = old)
  <2> SUFFICES ASSUME NEW t \in Rows
               PROVE  /\ row'[t].family = row[t].family
                      /\ row'[t].revoked = row[t].revoked
                      /\ row'[t].used = (row[t].used \/ t = old)
    OBVIOUS
  <2>1. t \in Tokens /\ t # n /\ row[t] \in Row
    BY <1>2 DEF Rows
  <2>2. CASE t = old
    BY <1>8, <2>1, <2>2 DEF Row
  <2>3. CASE t # old
    <3>1. row'[t] = row[t] /\ row[t].used \in BOOLEAN
      BY <1>8, <2>1, <2>3 DEF Row
    <3> QED
      BY <2>3, <3>1
  <2> QED
    BY <2>2, <2>3
<1> QED
  BY <1>1, <1>2, <1>9, <1>10, <1>11, <1>12

\* What a revocation's commit does to the table.
LEMMA RevokeCommitRows ==
  ASSUME IInv, NEW r \in Requests, RevokeCommit(r)
  PROVE  /\ row' \in [Tokens -> Row \cup {NoRow}]
         /\ Rows' = Rows
         /\ \A t \in Rows : /\ row'[t].family = row[t].family
                           /\ row'[t].used = row[t].used
                           /\ row'[t].revoked = (row[t].revoked \/ lock[t] = r)
<1> USE DEF IInv, TypeOK
<1>1. row' = [t \in Tokens |-> IF lock[t] = r THEN [row[t] EXCEPT !.revoked = TRUE] ELSE row[t]]
  BY DEF RevokeCommit
<1>2. NoRow \notin Row /\ Free \notin Requests
  BY ConstantsAssumption DEF Row
<1>3. ASSUME NEW t \in Tokens, lock[t] = r
      PROVE  /\ row[t] \in Row /\ t \in Rows
             /\ [row[t] EXCEPT !.revoked = TRUE] \in Row
             /\ row'[t].family = row[t].family
             /\ row'[t].used = row[t].used
             /\ row'[t].revoked
  <2>1. row[t] \in Row /\ t \in Rows
    BY <1>2, <1>3 DEF LocksHeld, Rows
  <2>2. row'[t] = [row[t] EXCEPT !.revoked = TRUE]
    BY <1>1, <1>3
  <2> QED
    BY <2>1, <2>2 DEF Row
<1>4. \A t \in Tokens : lock[t] # r => row'[t] = row[t]
  BY <1>1
<1>5. row' \in [Tokens -> Row \cup {NoRow}]
  BY <1>1, <1>3
<1>6. Rows' = Rows
  BY <1>1, <1>2, <1>3, <1>4 DEF Rows
<1>7. \A t \in Rows : row[t].revoked \in BOOLEAN
  BY DEF Rows, Row
<1> QED
  BY <1>3, <1>4, <1>5, <1>6, <1>7 DEF Rows

\* Every step keeps the types.
LEMMA TypeStep ==
  ASSUME IInv, [Next]_vars
  PROVE  TypeOK'
<1> USE ConstantsAssumption DEF IInv, TypeOK, Goto, Unlock, call, Working, Answered
<1>1. CASE UNCHANGED vars
  BY <1>1 DEF vars
<1>2. CASE Tick
  BY <1>2 DEF Tick
<1>3. ASSUME NEW r \in Requests, Arrive(r) PROVE TypeOK'
  BY <1>3 DEF Arrive, Register, Login, Present
<1>4. ASSUME NEW r \in Requests, IssueSession(r) PROVE TypeOK'
  BY <1>4 DEF IssueSession, Fresh, Rows, Row, NewRow, Replaced
<1>5. ASSUME NEW r \in Requests, SelectInvalid(r) \/ SelectForUpdate(r) PROVE TypeOK'
  BY <1>5 DEF SelectInvalid, SelectForUpdate, Replaced
<1>6. ASSUME NEW r \in Requests, RotateCommit(r) PROVE TypeOK'
  <2>1. repl' \in [Requests -> Tokens \cup {NoToken}] /\ row' \in [Tokens -> Row \cup {NoRow}]
    BY <1>6, RotateCommitRows
  <2> QED
    BY <1>6, <2>1 DEF RotateCommit
<1>7. ASSUME NEW r \in Requests, StartRevoke(r) PROVE TypeOK'
  BY <1>7 DEF StartRevoke, Snapshot, Family, Rows
<1>8. ASSUME NEW r \in Requests, NEW t \in Tokens, RevokeRow(r, t) PROVE TypeOK'
  BY <1>8 DEF RevokeRow
<1>9. ASSUME NEW r \in Requests, RevokeCommit(r) PROVE TypeOK'
  <2>1. row' \in [Tokens -> Row \cup {NoRow}]
    BY <1>9, RevokeCommitRows
  <2>2. PICK answer \in {"reuse", "error"} : pc' = [pc EXCEPT ![r] = answer]
    BY <1>9 DEF RevokeCommit
  <2> QED
    BY <1>9, <2>1, <2>2 DEF RevokeCommit
<1>10. ASSUME NEW r \in Requests, Reply(r) \/ ReadClock(r) PROVE TypeOK'
  BY <1>10 DEF Reply, ReadClock
<1>11. ASSUME NEW r \in Requests, Rollback(r) PROVE TypeOK'
  BY <1>11 DEF Rollback
<1> QED
  BY <1>1, <1>2, <1>3, <1>4, <1>5, <1>6, <1>7, <1>8, <1>9, <1>10, <1>11
     DEF Next, Serve, Fail, DeadlockAbort

\* A request that arrives holds no lock and has exchanged nothing yet.
LEMMA ArriveStep ==
  ASSUME IInv, TypeOK', NEW r \in Requests, Arrive(r)
  PROVE  IInv'
<1> USE ConstantsAssumption DEF IInv, TypeOK, Rows, Goto, call,
    Arrive, Register, Login, Present, Delivered
<1>1. LocksHeld'
  BY DEF LocksHeld
<1>2. SelectedRow'
  BY DEF SelectedRow
<1>3. FamilyRooted'
  BY DEF FamilyRooted
<1>4. Replaced'
  BY DEF Replaced
<1>5. RevokingCovers'
  BY DEF RevokingCovers, Replaced
<1>6. ReuseReported'
  BY DEF ReuseReported
<1>7. OneUnusedToken'
  BY DEF OneUnusedToken
<1>8. ConsumedOnce'
  BY DEF ConsumedOnce, Replaced
<1>9. ReuseRevokesSuccessor'
  BY DEF ReuseRevokesSuccessor, Replaced
<1>10. ReachIsOldest'
  BY DEF ReachIsOldest, Reach, Replaced
<1>11. UsedWasExchanged'
  BY DEF UsedWasExchanged, Used, Replaced
<1>12. GivenOnce'
  BY DEF GivenOnce
<1>13. RevokedIsOldest'
  BY DEF RevokedIsOldest, Replaced
<1> QED
  BY <1>1, <1>2, <1>3, <1>4, <1>5, <1>6, <1>7, <1>8, <1>9, <1>10, <1>11, <1>12, <1>13

\* A session starts with a row nobody else can name yet, in a family of its own.
LEMMA IssueSessionStep ==
  ASSUME IInv, TypeOK', NEW r \in Requests, IssueSession(r)
  PROVE  IInv'
<1> USE ConstantsAssumption DEF IInv, TypeOK, Row, Goto, call
<1>1. PICK n \in Fresh :
        /\ row' = [row EXCEPT ![n] = NewRow(who[r], n, at[r])]
        /\ repl' = [repl EXCEPT ![r] = n]
  BY DEF IssueSession
<1>2. pc[r] = "insert" /\ pc' = [pc EXCEPT ![r] = "reply"] /\ UNCHANGED <<lock, tok, who, todo>>
  BY DEF IssueSession
<1>3. n \in Tokens /\ n \notin Rows /\ row[n] = NoRow
  BY DEF Fresh, Rows
<1>4. row'[n].family = n /\ ~row'[n].used /\ n \in Rows'
  <2>1. row'[n] = NewRow(who[r], n, at[r])
    BY <1>1, <1>3
  <2>2. row'[n] \in [user : Users, family : Tokens, exp : Nat, used : BOOLEAN, revoked : BOOLEAN]
    BY <1>2, <1>3, <2>1 DEF Replaced, NewRow
  <2>3. row'[n] # NoRow /\ n \in Tokens
    BY <1>3, <2>2
  <2> QED
    BY <2>1, <2>3 DEF Rows, NewRow
<1>5. Rows' = Rows \cup {n} /\ \A t \in Rows : row'[t] = row[t]
  BY <1>1, <1>3, <1>4 DEF Rows
<1>6. tok[r] = NoToken
  BY <1>2 DEF Replaced
<1>7. LocksHeld'
  BY <1>2, <1>5 DEF LocksHeld
<1>8. SelectedRow'
  BY <1>2, <1>5 DEF SelectedRow
<1>9. FamilyRooted'
  BY <1>4, <1>5 DEF FamilyRooted
<1>10. Replaced'
  BY <1>1, <1>2, <1>5, <1>6 DEF Replaced
<1>11. RevokingCovers' /\ ReuseReported'
  BY <1>1, <1>2, <1>5, <1>6 DEF RevokingCovers, ReuseReported, Replaced
<1>12. OneUnusedToken'
  BY <1>3, <1>4, <1>5 DEF OneUnusedToken, FamilyRooted
<1>13. ConsumedOnce'
  BY <1>1, <1>2, <1>6 DEF ConsumedOnce
<1>14. ReuseRevokesSuccessor'
  BY <1>1, <1>2, <1>5, <1>6 DEF ReuseRevokesSuccessor, ReuseReported, Replaced
<1>15. \A q \in Requests : Reach(q)' = Reach(q)
  BY <1>2 DEF Reach
<1>16. \A q \in Requests : Reach(q) \subseteq Tokens /\ (pc[q] = "revoking" => Reach(q) \subseteq Rows)
  BY DEF Reach, RevokingCovers, LocksHeld, Rows
<1>17. \A q \in Requests \ {r} : repl'[q] = repl[q]
  BY <1>1
<1>18. ReachIsOldest'
  <2> SUFFICES ASSUME NEW q \in Requests
               PROVE  /\ pc'[q] \in {"rotate", "revoke"} => \A t \in Tokens : lock[t] = q => t = tok[q]
                      /\ pc'[q] = "revoking" =>
                            /\ lock[tok[q]] = q
                            /\ ~row'[tok[q]].revoked
                            /\ \A t \in Reach(q) : row'[t].family = row'[tok[q]].family
                            /\ \A p \in Requests :
                                 tok[p] # NoToken /\ repl'[p] \in Reach(q) => tok[p] \in Reach(q)
    BY <1>2, <1>15 DEF ReachIsOldest
  <2>1. pc'[q] \in {"rotate", "revoke", "revoking"} => pc[q] = pc'[q]
    BY <1>2
  <2>2. pc[q] = "revoking" => tok[q] \in Rows
    BY DEF RevokingCovers
  <2> QED
    BY <1>5, <1>6, <1>16, <1>17, <2>1, <2>2 DEF ReachIsOldest
<1>19. UsedWasExchanged'
  BY <1>1, <1>2, <1>4, <1>5, <1>6, <1>17 DEF UsedWasExchanged, Used
<1>20. GivenOnce'
  BY <1>1, <1>3, <1>17 DEF GivenOnce, Replaced
<1>21. RevokedIsOldest'
  BY <1>2, <1>5, <1>6, <1>17 DEF RevokedIsOldest, Replaced
<1> QED
  BY <1>7, <1>8, <1>9, <1>10, <1>11, <1>12, <1>13, <1>14, <1>18, <1>19, <1>20, <1>21

\* A SELECT that gets the row lock reads what the invariant says of a locked row;
\* one that is refused leaves no trace.
LEMMA SelectStep ==
  ASSUME IInv, TypeOK', NEW r \in Requests, SelectInvalid(r) \/ SelectForUpdate(r)
  PROVE  IInv'
<1> USE ConstantsAssumption DEF IInv, TypeOK, Rows, Goto, call,
    SelectInvalid, SelectForUpdate, Refusable
<1>1. LocksHeld'
  BY DEF LocksHeld
<1>2. SelectedRow'
  BY DEF SelectedRow, Replaced
<1>3. FamilyRooted'
  BY DEF FamilyRooted
<1>4. Replaced'
  BY DEF Replaced
<1>5. RevokingCovers'
  BY DEF RevokingCovers
<1>6. ReuseReported'
  BY DEF ReuseReported
<1>7. OneUnusedToken'
  BY DEF OneUnusedToken
<1>8. ConsumedOnce'
  BY DEF ConsumedOnce
<1>9. ReuseRevokesSuccessor'
  BY DEF ReuseRevokesSuccessor
<1>10. ReachIsOldest'
  BY DEF ReachIsOldest, Reach, LocksHeld, Replaced
<1>11. UsedWasExchanged'
  BY DEF UsedWasExchanged, Used
<1>12. GivenOnce'
  BY DEF GivenOnce
<1>13. RevokedIsOldest'
  BY DEF RevokedIsOldest
<1> QED
  BY <1>1, <1>2, <1>3, <1>4, <1>5, <1>6, <1>7, <1>8, <1>9, <1>10, <1>11, <1>12, <1>13

\* A rotation uses the row it has locked and adds one row to its family.  No
\* other request has exchanged the token, and none is revoking the row.
LEMMA RotateCommitStep ==
  ASSUME IInv, TypeOK', NEW r \in Requests, RotateCommit(r)
  PROVE  IInv'
<1> USE ConstantsAssumption DEF IInv, TypeOK
<1> DEFINE old == tok[r]
<1>1. PICK n \in Tokens \ Rows :
        /\ repl' = [repl EXCEPT ![r] = n]
        /\ Rows' = Rows \cup {n}
        /\ row'[n].family = row[old].family /\ ~row'[n].used /\ ~row'[n].revoked
        /\ \A t \in Rows : /\ row'[t].family = row[t].family
                          /\ row'[t].revoked = row[t].revoked
                          /\ row'[t].used = (row[t].used \/ t = old)
  BY RotateCommitRows
<1>2. /\ pc[r] = "rotate"
      /\ pc' = [pc EXCEPT ![r] = "reply"]
      /\ lock' = [t \in Tokens |-> IF lock[t] = r THEN Free ELSE lock[t]]
      /\ UNCHANGED <<tok, who, todo>>
  BY DEF RotateCommit, Unlock, Goto, call
<1>3. old \in Rows /\ lock[old] = r /\ ~row[old].used /\ ~row[old].revoked /\ old # NoToken
  BY <1>2 DEF SelectedRow, Rows
<1>4. \A q \in Requests : tok[q] = old => repl[q] = NoToken
  BY <1>3 DEF Replaced
<1>5. LocksHeld'
  BY <1>1, <1>2 DEF LocksHeld
<1>6. SelectedRow'
  <2> SUFFICES ASSUME NEW q \in Requests, pc'[q] \in {"rotate", "revoke"}
               PROVE  /\ tok[q] \in Rows' /\ lock'[tok[q]] = q /\ ~row'[tok[q]].revoked
                      /\ pc'[q] = "rotate" => ~row'[tok[q]].used
                      /\ pc'[q] = "revoke" => row'[tok[q]].used
    BY <1>2 DEF SelectedRow
  <2>1. q # r /\ pc[q] = pc'[q]
    BY <1>2
  <2>2. tok[q] \in Rows /\ tok[q] \in Tokens /\ lock[tok[q]] = q /\ tok[q] # old
    BY <1>3, <2>1 DEF SelectedRow, Rows
  <2>3. row'[tok[q]].revoked = row[tok[q]].revoked
    BY <1>1, <2>2
  <2>4. row'[tok[q]].used <=> row[tok[q]].used
    BY <1>1, <2>2
  <2>5. tok[q] \in Rows' /\ lock'[tok[q]] = q
    BY <1>1, <1>2, <2>1, <2>2
  <2> QED
    BY <2>1, <2>3, <2>4, <2>5, Zenon DEF SelectedRow
<1>7. FamilyRooted'
  BY <1>1, <1>3 DEF FamilyRooted
<1>8. Replaced'
  <2> SUFFICES ASSUME NEW q \in Requests
               PROVE  /\ repl'[q] # NoToken => /\ pc'[q] \in {"reply", "pair", "error"}
                                               /\ repl'[q] \in Rows'
                      /\ repl'[q] # NoToken /\ tok[q] # NoToken =>
                            /\ tok[q] \in Rows' /\ row'[tok[q]].used
                            /\ row'[repl'[q]].family = row'[tok[q]].family
                      /\ pc'[q] \in {"new", "session", "insert"} => tok[q] = NoToken
                      /\ pc'[q] \in {"session", "insert"} => who[q] \in Users
                      /\ pc'[q] \in {"select", "rotate", "revoke", "revoking", "reuse"} => tok[q] \in Tokens
    BY <1>2 DEF Replaced
  <2>1. CASE q = r
    <3>1. /\ repl'[r] = n /\ n \in Rows' /\ old \in Rows' /\ row'[old].used
          /\ row'[n].family = row'[old].family
      BY <1>1, <1>3
    <3>2. pc'[r] = "reply"
      BY <1>2
    <3> QED
      BY <2>1, <3>1, <3>2
  <2>2. CASE q # r
    <3>1. repl'[q] = repl[q] /\ pc'[q] = pc[q]
      BY <1>1, <1>2, <2>2
    <3>2. /\ repl[q] # NoToken => repl[q] \in Rows
          /\ repl[q] # NoToken /\ tok[q] # NoToken =>
               tok[q] \in Rows /\ row[tok[q]].used /\ row[repl[q]].family = row[tok[q]].family
      BY DEF Replaced
    <3>3. repl[q] # NoToken /\ tok[q] # NoToken =>
            row'[tok[q]].used /\ row'[repl[q]].family = row'[tok[q]].family
      BY <1>1, <3>2
    <3> QED
      BY <1>1, <1>2, <3>1, <3>2, <3>3 DEF Replaced
  <2> QED
    BY <2>1, <2>2
<1>9. RevokingCovers'
  <2> SUFFICES ASSUME NEW q \in Requests, pc'[q] = "revoking"
               PROVE  /\ tok[q] \in Rows' /\ row'[tok[q]].used
                      /\ todo[q] \subseteq Rows'
                      /\ tok[q] \in todo[q] \/ lock'[tok[q]] = q
                      /\ \A p \in Requests : tok[p] = tok[q] /\ repl'[p] # NoToken =>
                            repl'[p] \in todo[q] \/ lock'[repl'[p]] = q
    BY <1>2 DEF RevokingCovers
  <2>1. q # r /\ pc[q] = "revoking"
    BY <1>2
  <2>2. \A t \in Tokens : lock[t] = q => lock'[t] = q
    BY <1>2, <2>1
  <2>3. tok[q] \in Rows /\ tok[q] # old
    BY <1>3, <2>1 DEF RevokingCovers
  <2>4. \A p \in Requests : tok[p] = tok[q] /\ repl'[p] # NoToken =>
           repl'[p] = repl[p] /\ repl[p] \in Tokens
    BY <1>1, <2>3
  <2>5. /\ tok[q] \in Rows' /\ row'[tok[q]].used /\ todo[q] \subseteq Rows'
        /\ tok[q] \in todo[q] \/ lock'[tok[q]] = q
    BY <1>1, <2>1, <2>2, <2>3 DEF RevokingCovers, Rows
  <2> QED
    BY <2>1, <2>2, <2>4, <2>5 DEF RevokingCovers
<1>10. ReuseReported'
  BY <1>1, <1>2 DEF ReuseReported
<1>11. OneUnusedToken'
  <2>1. ASSUME NEW t \in Rows, row'[t].family = row[old].family
        PROVE  row'[t].used
    <3>1. CASE t = old
      BY <1>1, <1>3, <3>1
    <3>2. CASE t # old
      BY <1>1, <1>3, <2>1, <3>2 DEF OneUnusedToken
    <3> QED
      BY <3>1, <3>2
  <2>2. ASSUME NEW t \in Rows, NEW u \in Rows,
               row'[t].family = row'[u].family, ~row'[t].used, ~row'[u].used
        PROVE  t = u
    BY <1>1, <2>2 DEF OneUnusedToken
  <2> QED
    BY <1>1, <2>1, <2>2 DEF OneUnusedToken
<1>12. ConsumedOnce'
  BY <1>1, <1>2, <1>4 DEF ConsumedOnce
<1>13. ReuseRevokesSuccessor'
  <2> SUFFICES ASSUME NEW q \in Requests, pc'[q] = "reuse"
               PROVE  /\ row'[tok[q]].revoked
                      /\ \A p \in Requests :
                           tok[p] = tok[q] /\ repl'[p] # NoToken => row'[repl'[p]].revoked
    BY <1>2 DEF ReuseRevokesSuccessor
  <2>1. q # r /\ pc[q] = "reuse"
    BY <1>2
  <2>2. tok[q] \in Rows /\ tok[q] # old
    BY <1>3, <2>1 DEF ReuseReported
  <2>3. \A p \in Requests : tok[p] = tok[q] /\ repl'[p] # NoToken =>
           repl'[p] = repl[p] /\ repl[p] \in Rows
    BY <1>1, <2>2 DEF Replaced
  <2> QED
    BY <1>1, <2>1, <2>2, <2>3 DEF ReuseRevokesSuccessor
<1>14. \A q \in Requests : pc[q] = "revoking" => Reach(q)' = Reach(q) /\ Reach(q) \subseteq Rows
  BY <1>2 DEF Reach, RevokingCovers, LocksHeld, Rows
<1>15. ReachIsOldest'
  <2>1. ASSUME NEW q \in Requests, pc'[q] \in {"rotate", "revoke"}, NEW t \in Tokens, lock'[t] = q
        PROVE  t = tok[q]
    BY <1>2, <2>1 DEF ReachIsOldest
  <2>2. ASSUME NEW q \in Requests, pc'[q] = "revoking"
        PROVE  /\ lock'[tok[q]] = q
               /\ ~row'[tok[q]].revoked
               /\ \A t \in Reach(q)' : row'[t].family = row'[tok[q]].family
               /\ \A p \in Requests :
                    tok[p] # NoToken /\ repl'[p] \in Reach(q)' => tok[p] \in Reach(q)'
    <3>1. q # r /\ pc[q] = "revoking"
      BY <1>2, <2>2
    <3>2. tok[q] \in Rows /\ lock[tok[q]] = q
      BY <3>1 DEF RevokingCovers, ReachIsOldest
    <3>3. lock'[tok[q]] = q
      BY <1>2, <3>1, <3>2 DEF Rows
    <3>4. row'[tok[q]].revoked = row[tok[q]].revoked /\ row'[tok[q]].family = row[tok[q]].family
      BY <1>1, <3>2
    <3>5. \A t \in Reach(q) : row'[t].family = row'[tok[q]].family
      BY <1>1, <1>14, <3>1, <3>4 DEF ReachIsOldest
    <3>6. ASSUME NEW p \in Requests, tok[p] # NoToken, repl'[p] \in Reach(q)
          PROVE  tok[p] \in Reach(q)
      BY <1>1, <1>14, <3>1, <3>6 DEF ReachIsOldest
    <3>7. ~row[tok[q]].revoked
      BY <3>1 DEF ReachIsOldest
    <3>8. ~row'[tok[q]].revoked
      BY <3>4, <3>7, Zenon
    <3> QED
      BY <1>2, <1>14, <3>1, <3>3, <3>5, <3>6, <3>8
  <2>3. tok' = tok
    BY <1>2
  <2> QED
    BY <2>1, <2>2, <2>3 DEF ReachIsOldest
<1>16. UsedWasExchanged'
  <2> SUFFICES ASSUME NEW t \in Rows', row'[t].used
               PROVE  \E q \in Requests : tok[q] = t /\ repl'[q] # NoToken
    BY <1>2 DEF UsedWasExchanged, Used
  <2>1. CASE t = old
    BY <1>1, <2>1
  <2>2. CASE t # old
    <3>1. t \in Rows /\ row[t].used
      BY <1>1, <2>2
    <3>2. PICK q \in Requests : tok[q] = t /\ repl[q] # NoToken
      BY <3>1 DEF UsedWasExchanged, Used
    <3> QED
      BY <1>1, <2>2, <3>2
  <2> QED
    BY <2>1, <2>2
<1>17. GivenOnce'
  BY <1>1 DEF GivenOnce, Replaced
<1>18. RevokedIsOldest'
  <2> SUFFICES ASSUME NEW q \in Requests, tok[q] # NoToken, repl'[q] # NoToken, row'[repl'[q]].revoked
               PROVE  row'[tok[q]].revoked
    BY <1>2 DEF RevokedIsOldest
  <2>1. CASE q = r
    BY <1>1, <2>1
  <2>2. CASE q # r
    <3>1. repl'[q] = repl[q] /\ repl[q] \in Rows /\ tok[q] \in Rows
      BY <1>1, <2>2 DEF Replaced
    <3>2. row'[repl[q]].revoked = row[repl[q]].revoked /\ row'[tok[q]].revoked = row[tok[q]].revoked
      BY <1>1, <3>1
    <3>3. row[repl[q]].revoked
      BY <3>1, <3>2
    <3>4. row[tok[q]].revoked
      BY <3>1, <3>3 DEF RevokedIsOldest
    <3> QED
      BY <3>2, <3>4, Zenon
  <2> QED
    BY <2>1, <2>2
<1> QED
  BY <1>5, <1>6, <1>7, <1>8, <1>9, <1>10, <1>11, <1>12, <1>13, <1>15, <1>16, <1>17, <1>18

\* The snapshot of the family UPDATE holds the replayed token and its successor,
\* both committed before the SELECT saw the token used.
LEMMA StartRevokeStep ==
  ASSUME IInv, TypeOK', NEW r \in Requests, StartRevoke(r)
  PROVE  IInv'
<1> USE ConstantsAssumption DEF IInv, TypeOK, Rows, Goto, call, StartRevoke, Snapshot, Family
<1>1. LocksHeld'
  BY DEF LocksHeld
<1>2. SelectedRow'
  BY DEF SelectedRow
<1>3. FamilyRooted'
  BY DEF FamilyRooted
<1>4. Replaced'
  BY DEF Replaced
<1>5. RevokingCovers'
  BY DEF RevokingCovers, Replaced, SelectedRow
<1>6. ReuseReported'
  BY DEF ReuseReported
<1>7. OneUnusedToken'
  BY DEF OneUnusedToken
<1>8. ConsumedOnce'
  BY DEF ConsumedOnce
<1>9. ReuseRevokesSuccessor'
  BY DEF ReuseRevokesSuccessor
<1>10. ReachIsOldest'
  <2>1. ASSUME NEW q \in Requests, pc'[q] \in {"rotate", "revoke"}, NEW t \in Tokens, lock'[t] = q
        PROVE  t = tok[q]
    BY <2>1 DEF ReachIsOldest
  <2>2. ASSUME NEW q \in Requests, pc'[q] = "revoking", q # r
        PROVE  Reach(q)' = Reach(q) /\ pc[q] = "revoking"
    BY <2>2 DEF Reach
  <2>3. Reach(r)' = Snapshot(r) /\ lock[tok[r]] = r /\ ~row[tok[r]].revoked /\ tok[r] \in Rows
    <3>1. \A t \in Tokens : lock[t] = r => t = tok[r]
      BY DEF ReachIsOldest
    <3>2. lock[tok[r]] = r /\ ~row[tok[r]].revoked /\ tok[r] \in Rows
      BY DEF SelectedRow
    <3>3. todo'[r] = Snapshot(r)
      OBVIOUS
    <3> QED
      BY <3>1, <3>2, <3>3 DEF Reach
  <2>4. \A q \in Requests : tok[q] # NoToken /\ repl[q] \in Snapshot(r) => tok[q] \in Snapshot(r)
    BY DEF Replaced
  <2> QED
    BY <2>1, <2>2, <2>3, <2>4 DEF ReachIsOldest
<1>11. UsedWasExchanged'
  BY DEF UsedWasExchanged, Used
<1>12. GivenOnce'
  BY DEF GivenOnce
<1>13. RevokedIsOldest'
  BY DEF RevokedIsOldest
<1> QED
  BY <1>1, <1>2, <1>3, <1>4, <1>5, <1>6, <1>7, <1>8, <1>9, <1>10, <1>11, <1>12, <1>13

\* A visited row moves from the statement's snapshot to its locks.
LEMMA RevokeRowStep ==
  ASSUME IInv, TypeOK', NEW r \in Requests, NEW t \in Tokens, RevokeRow(r, t)
  PROVE  IInv'
<1> USE ConstantsAssumption DEF IInv, TypeOK, Rows, call, RevokeRow
<1>1. LocksHeld'
  BY DEF LocksHeld, Replaced, SelectedRow, RevokingCovers, ReuseReported
<1>2. SelectedRow'
  BY DEF SelectedRow
<1>3. FamilyRooted'
  BY DEF FamilyRooted
<1>4. Replaced'
  BY DEF Replaced
<1>5. RevokingCovers'
  BY DEF RevokingCovers
<1>6. ReuseReported'
  BY DEF ReuseReported
<1>7. OneUnusedToken'
  BY DEF OneUnusedToken
<1>8. ConsumedOnce'
  BY DEF ConsumedOnce
<1>9. ReuseRevokesSuccessor'
  BY DEF ReuseRevokesSuccessor
<1>10. ReachIsOldest'
  BY DEF ReachIsOldest, Reach
<1>11. UsedWasExchanged'
  BY DEF UsedWasExchanged, Used
<1>12. GivenOnce'
  BY DEF GivenOnce
<1>13. RevokedIsOldest'
  BY DEF RevokedIsOldest
<1> QED
  BY <1>1, <1>2, <1>3, <1>4, <1>5, <1>6, <1>7, <1>8, <1>9, <1>10, <1>11, <1>12, <1>13

\* A revocation's commit revokes every row it locked: the replayed token and
\* its successor are among them.
LEMMA RevokeCommitStep ==
  ASSUME IInv, TypeOK', NEW r \in Requests, RevokeCommit(r)
  PROVE  IInv'
<1> USE ConstantsAssumption DEF IInv, TypeOK, Goto, call
<1>0. PICK answer \in {"reuse", "error"} : pc' = [pc EXCEPT ![r] = answer]
  BY DEF RevokeCommit
<1>1. /\ pc[r] = "revoking" /\ todo[r] = {}
      /\ pc'[r] \in {"reuse", "error"}
      /\ \A q \in Requests \ {r} : pc'[q] = pc[q]
      /\ lock' = [t \in Tokens |-> IF lock[t] = r THEN Free ELSE lock[t]]
      /\ UNCHANGED <<tok, who, repl, todo>>
  BY <1>0 DEF RevokeCommit, Unlock
<1>2. Rows' = Rows
  BY RevokeCommitRows
<1>3. \A t \in Rows : /\ row'[t].family = row[t].family
                     /\ row'[t].used = row[t].used
                     /\ row'[t].revoked = (row[t].revoked \/ lock[t] = r)
  BY RevokeCommitRows
<1>4. LocksHeld'
  BY <1>1, <1>2 DEF LocksHeld
<1>5. SelectedRow'
  <2> SUFFICES ASSUME NEW q \in Requests, pc'[q] \in {"rotate", "revoke"}
               PROVE  /\ tok[q] \in Rows' /\ lock'[tok[q]] = q /\ ~row'[tok[q]].revoked
                      /\ pc'[q] = "rotate" => ~row'[tok[q]].used
                      /\ pc'[q] = "revoke" => row'[tok[q]].used
    BY <1>1 DEF SelectedRow
  <2>1. q # r /\ pc[q] = pc'[q]
    BY <1>1
  <2>2. tok[q] \in Rows /\ tok[q] \in Tokens /\ lock[tok[q]] = q
    BY <2>1 DEF SelectedRow, Rows
  <2> QED
    BY <1>1, <1>2, <1>3, <2>1, <2>2 DEF SelectedRow
<1>6. FamilyRooted'
  BY <1>2, <1>3 DEF FamilyRooted
<1>7. Replaced'
  BY <1>1, <1>2, <1>3 DEF Replaced
<1>8. RevokingCovers'
  BY <1>1, <1>2, <1>3 DEF RevokingCovers, Rows
<1>9. ReuseReported'
  BY <1>1, <1>2, <1>3 DEF ReuseReported, RevokingCovers
<1>10. OneUnusedToken'
  BY <1>2, <1>3 DEF OneUnusedToken
<1>11. ConsumedOnce'
  BY <1>1 DEF ConsumedOnce
<1>12. ReuseRevokesSuccessor'
  <2> SUFFICES ASSUME NEW q \in Requests, pc'[q] = "reuse"
               PROVE  /\ row'[tok[q]].revoked
                      /\ \A p \in Requests :
                           tok[p] = tok[q] /\ repl[p] # NoToken => row'[repl[p]].revoked
    BY <1>1 DEF ReuseRevokesSuccessor
  <2>1. \A p \in Requests : repl[p] # NoToken => repl[p] \in Rows
    BY DEF Replaced
  <2>2. CASE q = r
    BY <1>1, <1>3, <2>1, <2>2 DEF RevokingCovers
  <2>3. CASE q # r
    <3>1. pc[q] = "reuse" /\ tok[q] \in Rows
      BY <1>1, <2>3 DEF ReuseReported
    <3> QED
      BY <1>3, <2>1, <3>1 DEF ReuseRevokesSuccessor
  <2> QED
    BY <2>2, <2>3
<1>13. \A q \in Requests \ {r} : Reach(q)' = Reach(q)
  BY <1>1 DEF Reach
<1>14. \A q \in Requests : pc[q] = "revoking" => Reach(q) \subseteq Rows
  BY DEF Reach, RevokingCovers, LocksHeld, Rows
<1>15. ReachIsOldest'
  <2>1. ASSUME NEW q \in Requests, pc'[q] \in {"rotate", "revoke"}, NEW t \in Tokens, lock'[t] = q
        PROVE  t = tok[q]
    BY <1>1, <2>1 DEF ReachIsOldest
  <2>2. ASSUME NEW q \in Requests, pc'[q] = "revoking"
        PROVE  /\ lock'[tok[q]] = q
               /\ ~row'[tok[q]].revoked
               /\ \A t \in Reach(q)' : row'[t].family = row'[tok[q]].family
               /\ \A p \in Requests :
                    tok[p] # NoToken /\ repl[p] \in Reach(q)' => tok[p] \in Reach(q)'
    <3>1. q # r /\ pc[q] = "revoking" /\ Reach(q)' = Reach(q)
      BY <1>1, <1>13, <2>2
    <3>2. tok[q] \in Rows /\ tok[q] \in Tokens /\ lock[tok[q]] = q
      BY <3>1 DEF RevokingCovers, ReachIsOldest, Rows
    <3>3. lock'[tok[q]] = q
      BY <1>1, <3>1, <3>2
    <3>4. ~row[tok[q]].revoked
      BY <3>1 DEF ReachIsOldest
    <3>5. ~row'[tok[q]].revoked
      BY <1>3, <3>1, <3>2, <3>4
    <3>6. \A t \in Reach(q) : row'[t].family = row'[tok[q]].family
      BY <1>3, <1>14, <3>1, <3>2 DEF ReachIsOldest
    <3> QED
      BY <3>1, <3>3, <3>5, <3>6 DEF ReachIsOldest
  <2>3. tok' = tok /\ repl' = repl
    BY <1>1
  <2> QED
    BY <2>1, <2>2, <2>3 DEF ReachIsOldest
<1>16. UsedWasExchanged'
  BY <1>1, <1>2, <1>3 DEF UsedWasExchanged, Used
<1>17. GivenOnce'
  BY <1>1 DEF GivenOnce
<1>18. RevokedIsOldest'
  <2> SUFFICES ASSUME NEW q \in Requests, tok[q] # NoToken, repl[q] # NoToken, row'[repl[q]].revoked
               PROVE  row'[tok[q]].revoked
    BY <1>1 DEF RevokedIsOldest
  <2>1. repl[q] \in Rows /\ tok[q] \in Rows /\ tok[q] \in Tokens /\ repl[q] \in Tokens
    BY DEF Replaced, Rows
  <2>2. CASE lock[repl[q]] = r
    <3>1. repl[q] \in Reach(r)
      BY <2>1, <2>2 DEF Reach
    <3>2. lock[tok[q]] = r
      BY <1>1, <3>1 DEF ReachIsOldest, Reach
    <3> QED
      BY <1>3, <2>1, <3>2
  <2>3. CASE lock[repl[q]] # r
    <3>1. row[repl[q]].revoked
      BY <1>3, <2>1, <2>3
    <3>2. row[tok[q]].revoked
      BY <3>1 DEF RevokedIsOldest
    <3> QED
      BY <1>3, <2>1, <3>2
  <2> QED
    BY <2>2, <2>3
<1> QED
  BY <1>4, <1>5, <1>6, <1>7, <1>8, <1>9, <1>10, <1>11, <1>12, <1>15, <1>16, <1>17, <1>18

\* Neither a reply nor a reading of the clock changes a table.
LEMMA ReplyStep ==
  ASSUME IInv, TypeOK', NEW r \in Requests, Reply(r) \/ ReadClock(r)
  PROVE  IInv'
<1> USE ConstantsAssumption DEF IInv, TypeOK, Rows, Goto, call, Reply, ReadClock
<1>1. LocksHeld'
  BY DEF LocksHeld
<1>2. SelectedRow'
  BY DEF SelectedRow
<1>3. FamilyRooted'
  BY DEF FamilyRooted
<1>4. Replaced'
  BY DEF Replaced
<1>5. RevokingCovers'
  BY DEF RevokingCovers
<1>6. ReuseReported'
  BY DEF ReuseReported
<1>7. OneUnusedToken'
  BY DEF OneUnusedToken
<1>8. ConsumedOnce'
  BY DEF ConsumedOnce
<1>9. ReuseRevokesSuccessor'
  BY DEF ReuseRevokesSuccessor
<1>10. ReachIsOldest'
  BY DEF ReachIsOldest, Reach
<1>11. UsedWasExchanged'
  BY DEF UsedWasExchanged, Used
<1>12. GivenOnce'
  BY DEF GivenOnce
<1>13. RevokedIsOldest'
  BY DEF RevokedIsOldest
<1> QED
  BY <1>1, <1>2, <1>3, <1>4, <1>5, <1>6, <1>7, <1>8, <1>9, <1>10, <1>11, <1>12, <1>13

\* A rollback drops locks and the snapshot, and records no replacement.
LEMMA RollbackStep ==
  ASSUME IInv, TypeOK', NEW r \in Requests, Rollback(r), pc[r] \in Working
  PROVE  IInv'
<1> USE ConstantsAssumption DEF IInv, TypeOK, Rows, Goto, Unlock, call,
    Rollback, Working
<1>1. LocksHeld'
  BY DEF LocksHeld
<1>2. SelectedRow'
  BY DEF SelectedRow
<1>3. FamilyRooted'
  BY DEF FamilyRooted
<1>4. Replaced'
  BY DEF Replaced
<1>5. RevokingCovers'
  BY DEF RevokingCovers
<1>6. ReuseReported'
  BY DEF ReuseReported
<1>7. OneUnusedToken'
  BY DEF OneUnusedToken
<1>8. ConsumedOnce'
  BY DEF ConsumedOnce
<1>9. ReuseRevokesSuccessor'
  BY DEF ReuseRevokesSuccessor
<1>10. ReachIsOldest'
  <2>1. ASSUME NEW q \in Requests, pc'[q] \in {"rotate", "revoke", "revoking"}
        PROVE  /\ q # r /\ pc'[q] = pc[q]
               /\ Reach(q)' = Reach(q)
               /\ \A t \in Tokens : lock'[t] = q <=> lock[t] = q
    BY <2>1 DEF Reach
  <2>2. \A q \in Requests : pc[q] = "revoking" => tok[q] \in Tokens
    BY DEF RevokingCovers
  <2> QED
    BY <2>1, <2>2 DEF ReachIsOldest
<1>11. UsedWasExchanged'
  BY DEF UsedWasExchanged, Used
<1>12. GivenOnce'
  BY DEF GivenOnce
<1>13. RevokedIsOldest'
  BY DEF RevokedIsOldest
<1> QED
  BY <1>1, <1>2, <1>3, <1>4, <1>5, <1>6, <1>7, <1>8, <1>9, <1>10, <1>11, <1>12, <1>13

\* Time passes without touching a request.
LEMMA QuietStep ==
  ASSUME IInv, TypeOK', Tick \/ UNCHANGED vars
  PROVE  IInv'
<1> USE ConstantsAssumption DEF IInv, TypeOK, Rows, call, Tick, vars
<1>1. LocksHeld'
  BY DEF LocksHeld
<1>2. SelectedRow'
  BY DEF SelectedRow
<1>3. FamilyRooted'
  BY DEF FamilyRooted
<1>4. Replaced'
  BY DEF Replaced
<1>5. RevokingCovers'
  BY DEF RevokingCovers
<1>6. ReuseReported'
  BY DEF ReuseReported
<1>7. OneUnusedToken'
  BY DEF OneUnusedToken
<1>8. ConsumedOnce'
  BY DEF ConsumedOnce
<1>9. ReuseRevokesSuccessor'
  BY DEF ReuseRevokesSuccessor
<1>10. ReachIsOldest'
  BY DEF ReachIsOldest, Reach
<1>11. UsedWasExchanged'
  BY DEF UsedWasExchanged, Used
<1>12. GivenOnce'
  BY DEF GivenOnce
<1>13. RevokedIsOldest'
  BY DEF RevokedIsOldest
<1> QED
  BY <1>1, <1>2, <1>3, <1>4, <1>5, <1>6, <1>7, <1>8, <1>9, <1>10, <1>11, <1>12, <1>13

-----------------------------------------------------------------------------
\* Every step of the system preserves the strengthened invariant.
LEMMA NextIInv == IInv /\ [Next]_vars => IInv'
<1> SUFFICES ASSUME IInv, [Next]_vars PROVE IInv'
  OBVIOUS
<1>1. TypeOK'
  BY TypeStep
<1>2. ASSUME NEW r \in Requests, Arrive(r) PROVE IInv'
  BY <1>1, <1>2, ArriveStep
<1>3. ASSUME NEW r \in Requests, Serve(r) PROVE IInv'
  <2>1. CASE IssueSession(r)
    BY <1>1, <2>1, IssueSessionStep
  <2>2. CASE SelectInvalid(r) \/ SelectForUpdate(r)
    BY <1>1, <2>2, SelectStep
  <2>3. CASE RotateCommit(r)
    BY <1>1, <2>3, RotateCommitStep
  <2>4. CASE StartRevoke(r)
    BY <1>1, <2>4, StartRevokeStep
  <2>5. ASSUME NEW t \in Tokens, RevokeRow(r, t) PROVE IInv'
    BY <1>1, <2>5, RevokeRowStep
  <2>6. CASE RevokeCommit(r)
    BY <1>1, <2>6, RevokeCommitStep
  <2>7. CASE Reply(r) \/ ReadClock(r)
    BY <1>1, <2>7, ReplyStep
  <2>8. CASE DeadlockAbort(r)
    <3>1. Rollback(r) /\ pc[r] \in Working
      BY <2>8 DEF DeadlockAbort, Deadlocked, Working
    <3> QED
      BY <1>1, <3>1, RollbackStep
  <2> QED
    BY <1>3, <2>1, <2>2, <2>3, <2>4, <2>5, <2>6, <2>7, <2>8 DEF Serve
<1>4. ASSUME NEW r \in Requests, Fail(r) PROVE IInv'
  BY <1>1, <1>4, RollbackStep DEF Fail
<1>5. CASE Tick \/ UNCHANGED vars
  BY <1>1, <1>5, QuietStep
<1> QED
  BY <1>2, <1>3, <1>4, <1>5 DEF Next

\* The strengthened invariant holds in every reachable state.
THEOREM Invariance == Spec => []IInv
BY InitIInv, NextIInv, PTL DEF Spec

\* The variables keep their types, for any number of concurrent requests.
THEOREM TypeCorrect == Spec => []TypeOK
<1>1. IInv => TypeOK
  BY DEF IInv
<1> QED
  BY <1>1, Invariance, PTL

\* Rotation is exclusive: no refresh token is exchanged twice, even when the
\* reply to the first exchange is lost (RotateRefresh under FOR UPDATE).
THEOREM RotationConsumesOnce == Spec => []ConsumedOnce
<1>1. IInv => ConsumedOnce
  BY DEF IInv
<1> QED
  BY <1>1, Invariance, PTL

\* A session never has two tokens that could still be exchanged for the first
\* time (the UPDATE of used_at and the INSERT commit together).
THEOREM OneUnusedTokenPerFamily == Spec => []OneUnusedToken
<1>1. IInv => OneUnusedToken
  BY DEF IInv
<1> QED
  BY <1>1, Invariance, PTL

\* Reuse detection always revokes the replayed token and its successor, in
\* spite of rotations that race the revocation (the UPDATE of the family).
THEOREM ReuseKillsSuccessor == Spec => []ReuseRevokesSuccessor
<1>1. IInv => ReuseRevokesSuccessor
  BY DEF IInv
<1> QED
  BY <1>1, Invariance, PTL

\* A step adds no live token to a family whose tokens are all revoked: the
\* only step that extends a family rotates an unrevoked row it has locked.
LEMMA DeadStep == IInv /\ [Next]_vars => \A f \in Tokens : Dead(f) => Dead(f)'
<1> SUFFICES ASSUME IInv, [Next]_vars, NEW f \in Tokens, Dead(f) PROVE Dead(f)'
  OBVIOUS
<1>1. Family(f) # {} /\ \A t \in Family(f) : row[t].revoked
  BY DEF Dead
<1>2. ASSUME row' = row PROVE Dead(f)'
  BY <1>1, <1>2 DEF Dead, Family, Rows
<1>3. ASSUME NEW r \in Requests, IssueSession(r) PROVE Dead(f)'
  <2>1. PICK n \in Fresh : row' = [row EXCEPT ![n] = NewRow(who[r], n, at[r])]
    BY <1>3 DEF IssueSession
  <2>2. n \in Tokens /\ n \notin Rows
    BY DEF Fresh
  <2>3. f \in Rows
    BY <1>1 DEF Family, IInv, FamilyRooted
  <2>4. row'[n].family = n /\ \A t \in Tokens \ {n} : row'[t] = row[t]
    BY <2>1, <2>2 DEF IInv, TypeOK, NewRow
  <2>5. Family(f)' = Family(f)
    BY <2>2, <2>3, <2>4 DEF Family, Rows
  <2> QED
    BY <1>1, <2>2, <2>4, <2>5 DEF Dead, Family, Rows
<1>4. ASSUME NEW r \in Requests, RotateCommit(r) PROVE Dead(f)'
  <2>1. PICK n \in Tokens \ Rows :
          /\ Rows' = Rows \cup {n}
          /\ row'[n].family = row[tok[r]].family
          /\ \A t \in Rows : row'[t].family = row[t].family /\ row'[t].revoked = row[t].revoked
    BY <1>4, RotateCommitRows
  <2>2. tok[r] \in Rows /\ ~row[tok[r]].revoked
    BY <1>4 DEF IInv, SelectedRow, RotateCommit
  <2>3. row'[n].family # f
    BY <1>1, <2>1, <2>2 DEF Family
  <2>4. Family(f)' = Family(f)
    BY <2>1, <2>3 DEF Family
  <2> QED
    BY <1>1, <2>1, <2>4 DEF Dead, Family
<1>5. ASSUME NEW r \in Requests, RevokeCommit(r) PROVE Dead(f)'
  <2>1. /\ Rows' = Rows
        /\ \A t \in Rows : /\ row'[t].family = row[t].family
                          /\ row'[t].revoked = (row[t].revoked \/ lock[t] = r)
    BY <1>5, RevokeCommitRows
  <2>2. Family(f)' = Family(f)
    BY <2>1 DEF Family
  <2> QED
    BY <1>1, <2>1, <2>2 DEF Dead, Family
<1>6. CASE UNCHANGED vars \/ Tick
  BY <1>2, <1>6 DEF vars, Tick
<1>7. ASSUME NEW r \in Requests, Arrive(r) \/ Fail(r) PROVE Dead(f)'
  BY <1>2, <1>7 DEF Arrive, Register, Login, Present, Fail, Rollback
<1>8. ASSUME NEW r \in Requests, Serve(r) PROVE Dead(f)'
  BY <1>2, <1>3, <1>4, <1>5, <1>8
     DEF Serve, SelectInvalid, SelectForUpdate, StartRevoke, RevokeRow, Reply, ReadClock,
         DeadlockAbort, Rollback
<1> QED
  BY <1>6, <1>7, <1>8 DEF Next

\* Once every token of a session is revoked, no request in flight brings the
\* session back.
THEOREM DeadFamilyForever == Spec => DeadFamilyStaysDead
BY Invariance, DeadStep, PTL DEF Spec, DeadFamilyStaysDead

-----------------------------------------------------------------------------
\* The table implements token families.

\* What a token was exchanged for can be read off any request that exchanged it.
LEMMA SuccessorIs ==
  ASSUME ConsumedOnce, NEW r \in Requests, tok[r] # NoToken, repl[r] # NoToken
  PROVE  Successor(tok[r]) = repl[r]
<1> DEFINE Q(q) == tok[q] = tok[r] /\ repl[q] # NoToken
<1> DEFINE c == CHOOSE q \in Requests : Q(q)
<1>1. c \in Requests /\ Q(c)
  <2>1. Q(r)
    OBVIOUS
  <2> QED
    BY <2>1
<1>2. c = r
  BY <1>1 DEF ConsumedOnce
<1> QED
  BY <1>2 DEF Successor

\* No step changes what a used token was exchanged for.
LEMMA SuccessorStays ==
  ASSUME IInv, IInv', NEW t \in Used,
         \A q \in Requests : repl[q] # NoToken => tok'[q] = tok[q] /\ repl'[q] = repl[q]
  PROVE  Successor(t)' = Successor(t)
<1>1. PICK r \in Requests : tok[r] = t /\ repl[r] # NoToken
  BY DEF IInv, UsedWasExchanged
<1>2. tok'[r] = t /\ repl'[r] = repl[r]
  BY <1>1
<1>3. t # NoToken
  BY ConstantsAssumption DEF Used, Rows
<1>4. ConsumedOnce /\ ConsumedOnce'
  BY DEF IInv
<1>5. Successor(t) = repl[r]
  BY <1>1, <1>3, <1>4, SuccessorIs
<1>6. Successor(t)' = repl'[r]
  <2> DEFINE Q(q) == tok'[q] = t /\ repl'[q] # NoToken
  <2> DEFINE c == CHOOSE q \in Requests : Q(q)
  <2>1. Q(r)
    BY <1>1, <1>2
  <2>2. c \in Requests /\ Q(c)
    BY <2>1
  <2>3. c = r
    BY <1>1, <1>2, <1>3, <1>4, <2>2 DEF ConsumedOnce
  <2> QED
    BY <2>3 DEF Successor
<1> QED
  BY <1>2, <1>5, <1>6

\* Every reachable table is one of linked chains.
LEMMA TableIsLinked == IInv => Families!Linked
<1> SUFFICES ASSUME IInv PROVE Families!Linked
  OBVIOUS
<1> USE ConstantsAssumption
<1>1. ASSUME NEW x \in Used
      PROVE  \E r \in Requests : tok[r] = x /\ repl[r] # NoToken /\ Successor(x) = repl[r]
  <2>1. PICK r \in Requests : tok[r] = x /\ repl[r] # NoToken
    BY DEF IInv, UsedWasExchanged
  <2>2. x # NoToken
    BY DEF Used, Rows
  <2> QED
    BY <2>1, <2>2, SuccessorIs DEF IInv
<1>2. \A x \in Used : Successor(x) \in Rows /\ row[Successor(x)].family = row[x].family
  BY <1>1 DEF IInv, Replaced, Used, Rows
<1>3. \A x, y \in Used : Successor(x) = Successor(y) => x = y
  BY <1>1 DEF IInv, GivenOnce
<1>4. \A x \in Used : row[Successor(x)].revoked => row[x].revoked
  BY <1>1 DEF IInv, RevokedIsOldest, Used, Rows
<1>5. Used \subseteq Rows
  BY DEF Used
<1> QED
  BY <1>2, <1>3, <1>4, <1>5
     DEF Families!Linked, Families!Used, Families!Issued, Families!FamilyOf, Families!OldestOf

\* A step that keeps the table and the replacements keeps the families.
LEMMA TableStays ==
  ASSUME IInv, IInv', row' = row,
         \A q \in Requests : repl[q] # NoToken => tok'[q] = tok[q] /\ repl'[q] = repl[q]
  PROVE  UNCHANGED Families!vars
<1>1. Rows' = Rows /\ Used' = Used
  BY DEF Rows, Used
<1>2. \A t \in Used : Successor(t)' = Successor(t)
  BY SuccessorStays
<1>3. [t \in Rows |-> row[t].family]' = [t \in Rows |-> row[t].family]
  BY <1>1
<1>4. [t \in Used |-> Successor(t)]' = [t \in Used |-> Successor(t)]
  BY <1>1, <1>2
<1>5. {t \in Rows : row[t].revoked}' = {t \in Rows : row[t].revoked}
  BY <1>1
<1> QED
  BY <1>3, <1>4, <1>5 DEF Families!vars

\* A session opens a family.
LEMMA IssueOpens ==
  ASSUME IInv, IInv', NEW r \in Requests, IssueSession(r)
  PROVE  Families!Next
<1> USE ConstantsAssumption
<1>1. PICK n \in Fresh : /\ row' = [row EXCEPT ![n] = NewRow(who[r], n, at[r])]
                         /\ repl' = [repl EXCEPT ![r] = n]
  BY DEF IssueSession
<1>2. /\ pc[r] = "insert" /\ UNCHANGED <<tok, who>>
  BY DEF IssueSession, call
<1>3. n \in Tokens /\ n \notin Rows
  BY <1>1 DEF Fresh
<1>4. row'[n] = NewRow(who[r], n, at[r]) /\ \A t \in Tokens \ {n} : row'[t] = row[t]
  BY <1>1, <1>3 DEF IInv, TypeOK
<1>5. row'[n].family = n /\ row'[n].used = FALSE /\ row'[n].revoked = FALSE
  BY <1>4 DEF NewRow
<1>6. repl'[r] = n /\ n # NoToken
  BY <1>1, <1>3 DEF IInv, TypeOK
<1>7. n \in Rows'
  BY <1>6 DEF IInv, Replaced
<1>8. Rows' = Rows \cup {n}
  BY <1>3, <1>4, <1>7 DEF Rows
<1>9. \A t \in Rows : row'[t] = row[t]
  BY <1>3, <1>4 DEF Rows
<1>10. Used' = Used
  BY <1>5, <1>8, <1>9 DEF Used
<1>11. repl[r] = NoToken
  BY <1>2 DEF IInv, Replaced
<1>12. \A t \in Used : Successor(t)' = Successor(t)
  BY <1>1, <1>2, <1>11, SuccessorStays DEF IInv, TypeOK
<1>13. [t \in Rows |-> row[t].family]'
         = [x \in Rows \cup {n} |-> IF x = n THEN n ELSE [t \in Rows |-> row[t].family][x]]
  BY <1>3, <1>5, <1>8, <1>9
<1>14. [t \in Used |-> Successor(t)]' = [t \in Used |-> Successor(t)]
  BY <1>10, <1>12
<1>15. {t \in Rows : row[t].revoked}' = {t \in Rows : row[t].revoked}
  BY <1>5, <1>8, <1>9
<1>16. Families!Open(n)
  BY <1>3, <1>13, <1>14, <1>15 DEF Families!Open, Families!Add, Families!Issued
<1> QED
  BY <1>3, <1>16 DEF Families!Next

\* A rotation's commit is one exchange.
LEMMA RotationExchanges ==
  ASSUME IInv, IInv', NEW r \in Requests, RotateCommit(r)
  PROVE  Families!Next
<1> USE ConstantsAssumption
<1>0. PICK old \in Tokens : old = tok[r]
  BY DEF RotateCommit, IInv, SelectedRow, Rows
<1>1. PICK n \in Tokens \ Rows :
        /\ repl' = [repl EXCEPT ![r] = n]
        /\ Rows' = Rows \cup {n}
        /\ row'[n].family = row[old].family /\ ~row'[n].used /\ ~row'[n].revoked
        /\ \A t \in Rows : /\ row'[t].family = row[t].family
                          /\ row'[t].revoked = row[t].revoked
                          /\ row'[t].used = (row[t].used \/ t = old)
  BY <1>0, RotateCommitRows
<1>2. /\ pc[r] = "rotate" /\ tok' = tok
  BY DEF RotateCommit, call
<1>3. old \in Rows /\ ~row[old].used /\ ~row[old].revoked
  BY <1>0, <1>2 DEF IInv, SelectedRow
<1>4. Used' = Used \cup {old}
  <2>1. \A t \in Rows : row'[t].used <=> row[t].used \/ t = old
    BY <1>1
  <2>2. ~row'[n].used
    BY <1>1
  <2> QED
    BY <1>1, <1>3, <2>1, <2>2, Zenon DEF Used
<1>5. repl[r] = NoToken
  BY <1>2 DEF IInv, Replaced
<1>6. \A t \in Used : Successor(t)' = Successor(t)
  BY <1>1, <1>2, <1>5, SuccessorStays DEF IInv, TypeOK
<1>7. Successor(old)' = n
  <2>1. repl'[r] = n /\ n # NoToken /\ tok'[r] = old /\ old # NoToken
    BY <1>0, <1>1, <1>2 DEF IInv, TypeOK
  <2>2. ConsumedOnce'
    BY DEF IInv
  <2> DEFINE Q(q) == tok'[q] = old /\ repl'[q] # NoToken
  <2> DEFINE c == CHOOSE q \in Requests : Q(q)
  <2>3. Q(r)
    BY <2>1
  <2>4. c \in Requests /\ Q(c)
    BY <2>3
  <2>5. c = r
    BY <2>1, <2>2, <2>4 DEF ConsumedOnce
  <2>6. Successor(old)' = repl'[c]
    BY DEF Successor
  <2> QED
    BY <2>1, <2>5, <2>6
<1>8. [t \in Rows |-> row[t].family]'
        = [x \in Rows \cup {n} |-> IF x = n THEN row[old].family
                                   ELSE [t \in Rows |-> row[t].family][x]]
  BY <1>1
<1>9. [t \in Used |-> Successor(t)]'
        = [x \in Used \cup {old} |-> IF x = old THEN n ELSE [t \in Used |-> Successor(t)][x]]
  <2>1. \A x \in Used : x # old
    BY <1>3 DEF Used
  <2>2. \A x \in Used \cup {old} :
           Successor(x)' = IF x = old THEN n ELSE [t \in Used |-> Successor(t)][x]
    BY <1>6, <1>7, <2>1
  <2> QED
    BY <1>4, <2>2, Zenon
<1>10. {t \in Rows : row[t].revoked}' = {t \in Rows : row[t].revoked}
  <2>1. \A t \in Rows : row'[t].revoked <=> row[t].revoked
    BY <1>1
  <2>2. ~row'[n].revoked
    BY <1>1
  <2> QED
    BY <1>1, <2>1, <2>2, Zenon
<1>11. old \in Rows \ (Used \cup {t \in Rows : row[t].revoked})
  BY <1>3 DEF Used
<1>12. Families!Exchange(old, n)
  BY <1>1, <1>3, <1>8, <1>9, <1>10, <1>11
     DEF Families!Exchange, Families!Add, Families!Issued, Families!Used
<1> QED
  BY <1>1, <1>3, <1>12 DEF Families!Next

\* A revocation's commit revokes the replayed token, its successor and what is
\* older.
LEMMA RevocationRevokes ==
  ASSUME IInv, IInv', NEW r \in Requests, RevokeCommit(r)
  PROVE  Families!Next
<1> USE ConstantsAssumption
<1>1. /\ pc[r] = "revoking" /\ todo[r] = {}
      /\ UNCHANGED <<tok, repl>>
  BY DEF RevokeCommit, call
<1>2. Rows' = Rows
  BY RevokeCommitRows
<1>3. \A t \in Rows : /\ row'[t].family = row[t].family
                     /\ row'[t].used = row[t].used
                     /\ row'[t].revoked = (row[t].revoked \/ lock[t] = r)
  BY RevokeCommitRows
<1>4. PICK t0 \in Tokens, S \in SUBSET Tokens :
         t0 = tok[r] /\ S = {t \in Tokens : lock[t] = r} /\ S = Reach(r)
  <2>1. tok[r] \in Tokens /\ {t \in Tokens : lock[t] = r} = Reach(r)
    BY <1>1 DEF IInv, RevokingCovers, Rows, Reach
  <2> QED
    BY <2>1
<1>5. S \subseteq Rows
  BY <1>4 DEF IInv, TypeOK, LocksHeld
<1>6. t0 \in Rows /\ row[t0].used /\ lock[t0] = r /\ ~row[t0].revoked
  BY <1>1, <1>4 DEF IInv, RevokingCovers, ReachIsOldest
<1>7. t0 \in S /\ t0 \in Used
  BY <1>4, <1>6 DEF Used
<1>8. \A t \in S : row[t].family = row[t0].family
  BY <1>1, <1>4 DEF IInv, ReachIsOldest
<1>9. ASSUME NEW x \in Used
      PROVE  \E q \in Requests : tok[q] = x /\ repl[q] # NoToken /\ Successor(x) = repl[q]
  <2>1. PICK q \in Requests : tok[q] = x /\ repl[q] # NoToken
    BY DEF IInv, UsedWasExchanged
  <2>2. x # NoToken
    BY DEF Used, Rows
  <2> QED
    BY <2>1, <2>2, SuccessorIs DEF IInv
<1>10. Successor(t0) \in S
  <2>1. PICK q \in Requests : tok[q] = t0 /\ repl[q] # NoToken /\ Successor(t0) = repl[q]
    BY <1>7, <1>9
  <2>2. lock[repl[q]] = r
    BY <1>1, <1>4, <2>1 DEF IInv, RevokingCovers
  <2> QED
    BY <1>4, <2>1, <2>2 DEF IInv, TypeOK
<1>11. \A x \in Used : Successor(x) \in S => x \in S
  <2> SUFFICES ASSUME NEW x \in Used, Successor(x) \in S PROVE x \in S
    OBVIOUS
  <2>1. PICK q \in Requests : tok[q] = x /\ repl[q] # NoToken /\ Successor(x) = repl[q]
    BY <1>9
  <2>2. x # NoToken
    BY DEF Used, Rows
  <2> QED
    BY <1>1, <1>4, <2>1, <2>2 DEF IInv, ReachIsOldest
<1>12. Used' = Used
  <2>1. \A t \in Rows : row'[t].used <=> row[t].used
    BY <1>3
  <2> QED
    BY <1>2, <2>1, Zenon DEF Used
<1>13. \A t \in Used : Successor(t)' = Successor(t)
  BY <1>1, SuccessorStays
<1>14. [t \in Rows |-> row[t].family]' = [t \in Rows |-> row[t].family]
  BY <1>2, <1>3
<1>15. [t \in Used |-> Successor(t)]' = [t \in Used |-> Successor(t)]
  BY <1>12, <1>13
<1>16. {t \in Rows : row[t].revoked}' = {t \in Rows : row[t].revoked} \cup S
  <2>1. \A t \in Rows : row'[t].revoked <=> row[t].revoked \/ t \in S
    BY <1>3, <1>4 DEF Rows
  <2> QED
    BY <1>2, <1>5, <2>1, Zenon
<1>17. t0 \in Used \ {t \in Rows : row[t].revoked}
  BY <1>6, <1>7
<1>18. Families!Revoke(t0, S)
  BY <1>5, <1>6, <1>7, <1>8, <1>10, <1>11, <1>14, <1>15, <1>16, <1>17
     DEF Families!Revoke, Families!FamilyOf, Families!Issued, Families!Used, Families!OldestOf
<1> QED
  BY <1>18 DEF Families!Next

\* Every step of the server is a step of the token families, or none.
LEMMA StepImplements ==
  ASSUME IInv, IInv', [Next]_vars
  PROVE  [Families!Next]_Families!vars
<1> DEFINE Keeps == \A q \in Requests : repl[q] # NoToken => tok'[q] = tok[q] /\ repl'[q] = repl[q]
<1>1. ASSUME row' = row, Keeps PROVE UNCHANGED Families!vars
  BY <1>1, TableStays
<1>2. CASE UNCHANGED vars \/ Tick
  BY <1>1, <1>2 DEF vars, Tick, call
<1>3. ASSUME NEW r \in Requests, Arrive(r) PROVE UNCHANGED Families!vars
  <2>1. pc[r] = "new" /\ row' = row /\ repl' = repl
    BY <1>3 DEF Arrive, Register, Login, Present
  <2>2. repl[r] = NoToken
    BY <2>1 DEF IInv, Replaced
  <2>3. \A q \in Requests \ {r} : tok'[q] = tok[q]
    BY <1>3 DEF Arrive, Register, Login, Present, IInv, TypeOK
  <2> QED
    BY <1>1, <2>1, <2>2, <2>3
<1>4. ASSUME NEW r \in Requests, Rollback(r) PROVE UNCHANGED Families!vars
  BY <1>1, <1>4 DEF Rollback, call
<1>5. ASSUME NEW r \in Requests,
             \/ SelectInvalid(r) \/ SelectForUpdate(r) \/ StartRevoke(r)
             \/ Reply(r) \/ ReadClock(r)
      PROVE  UNCHANGED Families!vars
  BY <1>1, <1>5 DEF SelectInvalid, SelectForUpdate, StartRevoke, Reply, ReadClock, call
<1>6. ASSUME NEW r \in Requests, NEW t \in Tokens, RevokeRow(r, t) PROVE UNCHANGED Families!vars
  BY <1>1, <1>6 DEF RevokeRow, call
<1>7. ASSUME NEW r \in Requests, IssueSession(r) \/ RotateCommit(r) \/ RevokeCommit(r)
      PROVE  Families!Next
  BY <1>7, IssueOpens, RotationExchanges, RevocationRevokes
<1> QED
  BY <1>2, <1>3, <1>4, <1>5, <1>6, <1>7 DEF Next, Serve, Fail, DeadlockAbort

\* The refresh_tokens table, under any interleaving of statements, locks and
\* failures, implements token families (RotateRefresh).
THEOREM RotationImplementsFamilies == Spec => RotationPromise
<1>1. Init => Families!Init
  BY InitIInv, TableIsLinked DEF Families!Init
<1>2. IInv /\ IInv' /\ [Next]_vars => [Families!Next]_Families!vars
  BY StepImplements
<1> QED
  BY <1>1, <1>2, Invariance, PTL DEF Spec, RotationPromise, Families!Spec

\* What a revocation leaves live is the youngest end of a chain: no token stays
\* live when the one it was exchanged for is revoked (the family UPDATE).
THEOREM SurvivorsAreYoungest == Spec => []Families!Linked
BY Invariance, TableIsLinked, PTL
=============================================================================
