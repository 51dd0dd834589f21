--------------------------- MODULE RefreshTokens ---------------------------
(***************************************************************************)
(* Refresh-token rotation and family revocation as the API server runs it  *)
(* on PostgreSQL: auth.Service over auth.PostgresRepository.  A request is *)
(* one HTTP call to /auth/register, /auth/login or /auth/refresh; any      *)
(* number of them, on any replica, run against the same table.             *)
(*                                                                         *)
(* Transactions are READ COMMITTED (pgx.TxOptions{}).  `row' holds the     *)
(* committed version of every row, `lock' the transaction that holds its   *)
(* row lock; a transaction's own writes become visible when it commits,    *)
(* and each statement sees the rows committed when the statement starts.   *)
(***************************************************************************)
EXTENDS Naturals, FiniteSets

CONSTANTS Requests,   \* HTTP calls to the auth endpoints
          Tokens,     \* refresh-token hashes
          Forged,     \* a hash no session was ever issued for
          Users,      \* normalised e-mail addresses
          TTL,        \* refreshTTL, in ticks of the service's clock
          MaxClock,   \* bound on the clock (model checking only)
          NoRow, NoToken, NoUser, Free

ASSUME ConstantsAssumption ==
    /\ Forged \in Tokens
    /\ TTL \in Nat \ {0}
    /\ MaxClock \in Nat
    /\ NoToken \notin Tokens
    /\ NoUser \notin Users
    /\ Free \notin Requests
    /\ NoRow \notin [user : Users, family : Tokens, exp : Nat,
                     used : BOOLEAN, revoked : BOOLEAN]

VARIABLES clock,  \* Service.now
          users,  \* the users table
          row,    \* the refresh_tokens table, committed versions
          lock,   \* holder of each row lock
          pc,     \* where each request is
          who,    \* the account a login or registration is for
          tok,    \* the refresh token a request presents
          at,     \* `now' as the request read it
          repl,   \* the refresh token committed on behalf of a request
          todo    \* rows the family UPDATE has still to visit

vars == <<clock, users, row, lock, pc, who, tok, at, repl, todo>>
call == <<who, tok, at>>

\* A family identifier is as fresh as the token it is created with, so the
\* family is named by its first token.
Row == [user : Users, family : Tokens, exp : Nat, used : BOOLEAN, revoked : BOOLEAN]

Working  == {"session", "insert", "select", "rotate", "revoke", "revoking", "reply"}
Answered == {"pair", "reuse", "invalid", "taken", "error"}

TypeOK ==
    /\ clock \in Nat
    /\ users \subseteq Users
    /\ row  \in [Tokens -> Row \cup {NoRow}]
    /\ lock \in [Tokens -> Requests \cup {Free}]
    /\ pc   \in [Requests -> {"new"} \cup Working \cup Answered]
    /\ who  \in [Requests -> Users \cup {NoUser}]
    /\ tok  \in [Requests -> Tokens \cup {NoToken}]
    /\ at   \in [Requests -> Nat]
    /\ repl \in [Requests -> Tokens \cup {NoToken}]
    /\ todo \in [Requests -> SUBSET Tokens]

Init ==
    /\ clock = 0
    /\ users = {}
    /\ row  = [t \in Tokens |-> NoRow]
    /\ lock = [t \in Tokens |-> Free]
    /\ pc   = [r \in Requests |-> "new"]
    /\ who  = [r \in Requests |-> NoUser]
    /\ tok  = [r \in Requests |-> NoToken]
    /\ at   = [r \in Requests |-> 0]
    /\ repl = [r \in Requests |-> NoToken]
    /\ todo = [r \in Requests |-> {}]

Rows      == {t \in Tokens : row[t] # NoRow}
Family(f) == {t \in Rows : row[t].family = f}
Fresh     == Tokens \ (Rows \cup {Forged})

\* The row of a token issued at time `now'.
NewRow(u, f, now) ==
    [user |-> u, family |-> f, exp |-> now + TTL, used |-> FALSE, revoked |-> FALSE]

\* The tokens some client or thief can know: those a reply delivered.
Delivered == {repl[r] : r \in {q \in Requests : pc[q] = "pair"}}

Goto(r, label) == pc' = [pc EXCEPT ![r] = label]

\* Mutant: the transaction is left open.
UnlockForgotten(r) == UNCHANGED lock

\* What COMMIT and ROLLBACK do to the row locks of r.
Unlock(r) == lock' = [t \in Tokens |-> IF lock[t] = r THEN Free ELSE lock[t]]

-----------------------------------------------------------------------------
\* Sessions: Register creates the account, Login verifies the password, and
\* both go on to issueSession.

Register(r, u) ==
    /\ pc[r] = "new"
    /\ IF u \in users
         THEN Goto(r, "taken") /\ UNCHANGED <<users, who>>
         ELSE /\ users' = users \cup {u}
              /\ who' = [who EXCEPT ![r] = u]
              /\ Goto(r, "session")
    /\ UNCHANGED <<clock, row, lock, tok, at, repl, todo>>

\* `right' says whether the password verifies.
Login(r, u, right) ==
    /\ pc[r] = "new"
    /\ IF u \in users /\ right
         THEN Goto(r, "session") /\ who' = [who EXCEPT ![r] = u]
         ELSE Goto(r, "invalid") /\ UNCHANGED who
    /\ UNCHANGED <<clock, users, row, lock, tok, at, repl, todo>>

\* issueSession reads the clock, which the tokens' expiry is counted from.
ReadClock(r) ==
    /\ pc[r] = "session"
    /\ at' = [at EXCEPT ![r] = clock]
    /\ Goto(r, "insert")
    /\ UNCHANGED <<clock, users, row, lock, who, tok, repl, todo>>

\* CreateRefresh: one INSERT outside any transaction.
IssueSession(r) ==
    /\ pc[r] = "insert"
    /\ \E t \in Fresh :
         /\ row' = [row EXCEPT ![t] = NewRow(who[r], t, at[r])]
         /\ repl' = [repl EXCEPT ![r] = t]
    /\ Goto(r, "reply")
    /\ UNCHANGED <<clock, users, lock, call, todo>>

-----------------------------------------------------------------------------
\* Refresh: RotateRefresh, statement by statement.

\* Service.Refresh reads the clock before the transaction begins.
Present(r, t) ==
    /\ pc[r] = "new"
    /\ t \in Delivered \cup {Forged}
    /\ tok' = [tok EXCEPT ![r] = t]
    /\ at' = [at EXCEPT ![r] = clock]
    /\ Goto(r, "select")
    /\ UNCHANGED <<clock, users, row, lock, who, repl, todo>>

\* Mutant: revoked_at is not checked.
RefusableExpired(r) == row[tok[r]].exp <= at[r]

Refusable(r) == LET e == row[tok[r]] IN e.revoked \/ e.exp <= at[r]

\* SELECT ... FOR UPDATE finds no row, or a revoked or expired one: ROLLBACK.
SelectInvalid(r) ==
    /\ pc[r] = "select"
    /\ \/ row[tok[r]] = NoRow
       \/ /\ row[tok[r]] # NoRow
          /\ lock[tok[r]] = Free
          /\ Refusable(r)
    /\ Goto(r, "invalid")
    /\ UNCHANGED <<clock, users, row, lock, call, repl, todo>>

\* Mutant: a plain SELECT, which waits for nobody and locks nothing.
SelectPlain(r) ==
    /\ pc[r] = "select"
    /\ row[tok[r]] # NoRow
    /\ ~Refusable(r)
    /\ Goto(r, IF row[tok[r]].used THEN "revoke" ELSE "rotate")
    /\ UNCHANGED <<clock, users, row, lock, call, repl, todo>>

\* SELECT ... FOR UPDATE waits for the row lock and reads the version that is
\* committed when it gets it.
SelectForUpdate(r) ==
    /\ pc[r] = "select"
    /\ row[tok[r]] # NoRow
    /\ lock[tok[r]] = Free
    /\ ~Refusable(r)
    /\ lock' = [lock EXCEPT ![tok[r]] = r]
    /\ Goto(r, IF row[tok[r]].used THEN "revoke" ELSE "rotate")
    /\ UNCHANGED <<clock, users, row, call, repl, todo>>

\* UPDATE used_at, INSERT the replacement, COMMIT.  The two statements touch
\* the locked row and a row nobody can see, so they take effect together.
RotateCommit(r) ==
    /\ pc[r] = "rotate"
    /\ \E t \in Fresh :
         /\ row' = [row EXCEPT ![tok[r]].used = TRUE,
                               ![t] = NewRow(row[tok[r]].user, row[tok[r]].family, at[r])]
         /\ repl' = [repl EXCEPT ![r] = t]
    /\ Goto(r, "reply")
    /\ Unlock(r)
    /\ UNCHANGED <<clock, users, call, todo>>

\* Mutant: the UPDATE names the replayed token instead of its family.
SnapshotOfToken(r) == {tok[r]}

\* Mutant: only the tokens that could still be exchanged are revoked.
SnapshotOfUnused(r) == {t \in Family(row[tok[r]].family) : ~row[t].used}

\* UPDATE ... WHERE family_id: the statement's snapshot holds the rows
\* committed now; one that another transaction inserts later is not in it.
Snapshot(r) == Family(row[tok[r]].family)

StartRevoke(r) ==
    /\ pc[r] = "revoke"
    /\ todo' = [todo EXCEPT ![r] = Snapshot(r)]
    /\ Goto(r, "revoking")
    /\ UNCHANGED <<clock, users, row, lock, call, repl>>

\* The UPDATE waits for each row's lock and keeps it.
RevokeRow(r, t) ==
    /\ pc[r] = "revoking"
    /\ t \in todo[r]
    /\ lock[t] \in {Free, r}
    /\ lock' = [lock EXCEPT ![t] = r]
    /\ todo' = [todo EXCEPT ![r] = @ \ {t}]
    /\ UNCHANGED <<clock, users, row, pc, call, repl>>

\* COMMIT; its answer can be lost, and the client is then told of an error.
RevokeCommit(r) ==
    /\ pc[r] = "revoking"
    /\ todo[r] = {}
    /\ row' = [t \in Tokens |-> IF lock[t] = r THEN [row[t] EXCEPT !.revoked = TRUE]
                                               ELSE row[t]]
    /\ Unlock(r)
    /\ \E answer \in {"reuse", "error"} : Goto(r, answer)
    /\ UNCHANGED <<clock, users, call, repl, todo>>

Reply(r) ==
    /\ pc[r] = "reply"
    /\ Goto(r, "pair")
    /\ UNCHANGED <<clock, users, row, lock, call, repl, todo>>

-----------------------------------------------------------------------------
\* Failures.

\* A statement fails, the client goes away or the replica crashes: the
\* transaction rolls back; what has been committed stays.
Rollback(r) ==
    /\ Goto(r, "error")
    /\ Unlock(r)
    /\ todo' = [todo EXCEPT ![r] = {}]
    /\ UNCHANGED <<clock, users, row, call, repl>>

Fail(r) == pc[r] \in Working /\ Rollback(r)

\* Transactions that each wait for a row another of them holds.
Deadlocked(S) ==
    \A q \in S : /\ pc[q] = "revoking"
                 /\ todo[q] # {}
                 /\ \A t \in todo[q] : lock[t] \in S \ {q}

\* PostgreSQL's deadlock detector aborts one of them.
DeadlockAbort(r) == (\E S \in SUBSET Requests : r \in S /\ Deadlocked(S)) /\ Rollback(r)

Tick ==
    /\ clock < MaxClock
    /\ clock' = clock + 1
    /\ UNCHANGED <<users, row, lock, pc, call, repl, todo>>

-----------------------------------------------------------------------------
\* What the server does for a request that has arrived, without failures.
Serve(r) ==
    \/ ReadClock(r)
    \/ IssueSession(r)
    \/ SelectInvalid(r)
    \/ SelectForUpdate(r)
    \/ RotateCommit(r)
    \/ StartRevoke(r)
    \/ \E t \in Tokens : RevokeRow(r, t)
    \/ RevokeCommit(r)
    \/ Reply(r)
    \/ DeadlockAbort(r)

Arrive(r) ==
    \/ \E u \in Users : Register(r, u)
    \/ \E u \in Users, right \in BOOLEAN : Login(r, u, right)
    \/ \E t \in Tokens : Present(r, t)

Next ==
    \/ \E r \in Requests : Arrive(r) \/ Serve(r) \/ Fail(r)
    \/ Tick

Spec == Init /\ [][Next]_vars

\* The database and the handler goroutine keep running; nothing obliges a
\* client to call, a transaction to fail or time to pass.
FairSpec == Spec /\ \A r \in Requests : WF_vars(Serve(r))

-----------------------------------------------------------------------------
\* A family has at most one token that was never used, whatever requests
\* race on it (RotateRefresh marks the old row used in the transaction that
\* inserts its replacement).
OneUnusedToken ==
    \A t, s \in Rows :
        row[t].family = row[s].family /\ ~row[t].used /\ ~row[s].used => t = s

\* No refresh token buys two token pairs, also when the reply to the first
\* was lost: FOR UPDATE serialises the requests that present it.
ConsumedOnce ==
    \A r, q \in Requests :
        tok[r] = tok[q] /\ tok[r] # NoToken /\ repl[r] # NoToken /\ repl[q] # NoToken
            => r = q

\* Once a replay is reported, the replayed token and the token it had been
\* exchanged for are both revoked (docs/AUTH.md: "B can no longer refresh").
ReuseRevokesSuccessor ==
    \A r \in Requests : pc[r] = "reuse" =>
        /\ row[tok[r]].revoked
        /\ \A q \in Requests :
             tok[q] = tok[r] /\ repl[q] # NoToken => row[repl[q]].revoked

\* A family all of whose tokens are revoked stays dead: no transaction in
\* flight can still add a live token to it.
Dead(f) == Family(f) # {} /\ \A t \in Family(f) : row[t].revoked
DeadFamilyStaysDead == [][\A f \in Tokens : Dead(f) => Dead(f)']_vars

\* Every call that arrives is answered: two replays that lock each other's
\* rows do not hang, and a waiting SELECT gets its turn.
EveryCallAnswered == \A r \in Requests : pc[r] \in Working ~> pc[r] \in Answered

\* What docs/AUTH.md promises of reuse detection: "Subsequent tokens from the
\* revoked family are invalid."  A rotation that commits between the UPDATE's
\* snapshot and its commit escapes it.
ReuseRevokesFamily ==
    \A r \in Requests : pc[r] = "reuse" =>
        \A t \in Family(row[tok[r]].family) : row[t].revoked

-----------------------------------------------------------------------------
\* Whatever statements, locks and failures interleave, the table behaves like
\* token families: an exchange is one step on a live, unused token, and a
\* reuse revokes at least the token, its successor and all that is older.
Used == {t \in Rows : row[t].used}
Successor(t) == repl[CHOOSE r \in Requests : tok[r] = t /\ repl[r] # NoToken]

Families == INSTANCE TokenFamilies WITH
    family <- [t \in Rows |-> row[t].family],
    successor <- [t \in Used |-> Successor(t)],
    revoked <- {t \in Rows : row[t].revoked}

RotationPromise == Families!Spec

-----------------------------------------------------------------------------
\* The inductive strengthening of the safety properties.

\* A row lock belongs to a transaction past its SELECT, and to a real row.
LocksHeld ==
    \A t \in Tokens : lock[t] # Free =>
        t \in Rows /\ pc[lock[t]] \in {"rotate", "revoke", "revoking"}

\* What SELECT ... FOR UPDATE read is still so when the transaction acts on it.
SelectedRow ==
    \A r \in Requests :
        /\ pc[r] \in {"rotate", "revoke"} =>
              tok[r] \in Rows /\ lock[tok[r]] = r /\ ~row[tok[r]].revoked
        /\ pc[r] = "rotate" => ~row[tok[r]].used
        /\ pc[r] = "revoke" => row[tok[r]].used

\* The first token of a family is never deleted, so a fresh family is empty.
FamilyRooted == \A t \in Rows : row[t].family \in Rows

\* Replacements are recorded for finished transactions only, and the token
\* they were exchanged for is used and of the same family.
Replaced ==
    \A r \in Requests :
        /\ repl[r] # NoToken => /\ pc[r] \in {"reply", "pair", "error"}
                                /\ repl[r] \in Rows
        /\ repl[r] # NoToken /\ tok[r] # NoToken =>
              /\ tok[r] \in Rows
              /\ row[tok[r]].used
              /\ row[repl[r]].family = row[tok[r]].family
        /\ pc[r] \in {"new", "session", "insert"} => tok[r] = NoToken
        /\ pc[r] \in {"session", "insert"} => who[r] \in Users
        /\ pc[r] \in {"select", "rotate", "revoke", "revoking", "reuse"} => tok[r] \in Tokens

\* A replay in progress holds, or has still to visit, the replayed token and
\* the one it was exchanged for.
RevokingCovers ==
    \A r \in Requests : pc[r] = "revoking" =>
        /\ tok[r] \in Rows
        /\ row[tok[r]].used
        /\ todo[r] \subseteq Rows
        /\ tok[r] \in todo[r] \/ lock[tok[r]] = r
        /\ \A q \in Requests : tok[q] = tok[r] /\ repl[q] # NoToken =>
              repl[q] \in todo[r] \/ lock[repl[q]] = r

\* A reported replay concerns a row, used before: no later rotation of it.
ReuseReported ==
    \A r \in Requests : pc[r] = "reuse" => tok[r] \in Rows /\ row[tok[r]].used

\* The rows a family UPDATE has locked or has still to visit.
Reach(r) == todo[r] \cup {t \in Tokens : lock[t] = r}

\* A transaction locks one row before its family UPDATE; the UPDATE keeps that
\* row, stays in its family, and with a row reaches the row exchanged for it.
ReachIsOldest ==
    \A r \in Requests :
        /\ pc[r] \in {"rotate", "revoke"} => \A t \in Tokens : lock[t] = r => t = tok[r]
        /\ pc[r] = "revoking" =>
              /\ lock[tok[r]] = r
              /\ ~row[tok[r]].revoked
              /\ \A t \in Reach(r) : row[t].family = row[tok[r]].family
              /\ \A q \in Requests :
                   tok[q] # NoToken /\ repl[q] \in Reach(r) => tok[q] \in Reach(r)

\* A used row was exchanged by some request.
UsedWasExchanged == \A t \in Used : \E r \in Requests : tok[r] = t /\ repl[r] # NoToken

\* No two requests were given the same token.
GivenOnce ==
    \A r, q \in Requests : repl[r] = repl[q] /\ repl[r] # NoToken => r = q

\* What escapes a revocation is the youngest end of its family's chain.
RevokedIsOldest ==
    \A r \in Requests :
        tok[r] # NoToken /\ repl[r] # NoToken /\ row[repl[r]].revoked => row[tok[r]].revoked

IInv ==
    /\ TypeOK
    /\ LocksHeld
    /\ SelectedRow
    /\ FamilyRooted
    /\ Replaced
    /\ RevokingCovers
    /\ ReuseReported
    /\ ReachIsOldest
    /\ UsedWasExchanged
    /\ GivenOnce
    /\ RevokedIsOldest
    /\ OneUnusedToken
    /\ ConsumedOnce
    /\ ReuseRevokesSuccessor
=============================================================================
