---------------------------- MODULE ClientSession ----------------------------
(***************************************************************************)
(* The session of a signed-in app, as far as the Android and the iOS app   *)
(* keep it alike: a stored token pair, calls that carry its access token,  *)
(* refresh calls that exchange it, sign-ins.  AndroidSession and           *)
(* IosSession say how each app coordinates them.                           *)
(***************************************************************************)
EXTENDS AuthTokens, FiniteSets

CONSTANTS Requests,     \* calls of the app, each made once
          None,
          MaxExpiries,  \* bound on access tokens that expire
          MaxKills      \* bound on kills of the app

ASSUME SessionAssumption ==
    MaxExpiries \in Nat /\ MaxKills \in Nat /\ None \notin Requests \cup Users

VARIABLES store,    \* SessionStore: the stored pair, or NoPair
          account,  \* the user whom the app shows as signed in, or None
          pc,       \* how far each call is
          loaded,   \* the pair whose access token a call carries
          shown,    \* the pair whose refresh token it has presented
          refresh,  \* that refresh call: none, sent, or answered by the server
          reply,    \* the pair a refresh or sign-in was answered with
          strays,   \* families of pairs saved over a store that had changed meanwhile
          torn,     \* families of which a kill left a presented pair behind
          kills

session == <<tokens, store, account, loaded, shown, refresh, reply, strays, torn, kills>>

MaybePair == Issued \cup {NoPair}

SessionTypeOK ==
    /\ tokens \in Seq(Pair)
    /\ \A n \in Issued : tokens[n].family \in Issued
    /\ store \in MaybePair
    /\ account \in Users \cup {None}
    /\ loaded \in [Requests -> MaybePair] /\ shown \in [Requests -> MaybePair]
    /\ refresh \in [Requests -> {"none", "sent", "answered"}]
    /\ reply \in [Requests -> MaybePair]
    /\ strays \subseteq Issued /\ torn \subseteq Issued
    /\ kills \in 0..MaxKills

\* The app is started with the session it has stored.
SessionInit ==
    /\ \E u \in Users : tokens = <<NewPair(u, 1)>> /\ account = u
    /\ store = 1
    /\ pc = [q \in Requests |-> "idle"]
    /\ loaded = [q \in Requests |-> NoPair] /\ shown = loaded /\ reply = loaded
    /\ refresh = [q \in Requests |-> "none"]
    /\ strays = {} /\ torn = {} /\ kills = 0

Goto(q, at) == pc' = [pc EXCEPT ![q] = at]

-----------------------------------------------------------------------------
\* The server.

Expire(n) ==
    /\ Cardinality({m \in Issued : ~tokens[m].fresh}) < MaxExpiries
    /\ AccessExpires(n)
    /\ UNCHANGED <<store, account, pc, loaded, shown, refresh, reply, strays, torn, kills>>

\* The refresh call arrives, which its caller may have given up by then.
Refresh(q) ==
    /\ refresh[q] = "sent"
    /\ tokens' = RotateRefresh(shown[q])
    /\ reply' = [reply EXCEPT ![q] = RefreshReply(shown[q])]
    /\ refresh' = [refresh EXCEPT ![q] = "answered"]
    /\ UNCHANGED <<store, account, pc, loaded, shown, strays, torn, kills>>

\* Registration or login.
SignIn(q, u) ==
    /\ pc[q] = "signing"
    /\ tokens' = IssueSession(u)
    /\ reply' = [reply EXCEPT ![q] = Len(tokens) + 1]
    /\ Goto(q, "welcomed")
    /\ UNCHANGED <<store, account, loaded, shown, refresh, strays, torn, kills>>

Serve ==
    \/ \E n \in Issued : Expire(n)
    \/ \E q \in Requests : Refresh(q) \/ \E u \in Users : SignIn(q, u)

-----------------------------------------------------------------------------
\* What calls do in both apps.

\* A screen with a signed-in user starts a call with the stored access token.
Ask(q) ==
    /\ pc[q] = "idle" /\ account # None /\ store # NoPair
    /\ loaded' = [loaded EXCEPT ![q] = store]
    /\ Goto(q, "asked")
    /\ UNCHANGED <<tokens, store, account, shown, refresh, reply, strays, torn, kills>>

\* Any answer but 401, or none, ends the call.
Answered(q) ==
    /\ pc[q] = "asked"
    /\ Goto(q, "done")
    /\ UNCHANGED session

Unauthorized(q) ==
    /\ pc[q] = "asked" /\ ~ValidateAccess(loaded[q])
    /\ Goto(q, "waiting")
    /\ UNCHANGED session

\* Sends the refresh token of a pair.
Present(q, n) ==
    /\ shown' = [shown EXCEPT ![q] = n]
    /\ refresh' = [refresh EXCEPT ![q] = "sent"]

\* Saves the pair that a refresh call was answered with.
Keep(q) ==
    /\ store' = reply[q]
    /\ strays' = IF store = shown[q] THEN strays ELSE strays \cup {tokens[reply[q]].family}

\* The sign-in screen.
Submit(q) ==
    /\ pc[q] = "idle" /\ account = None
    /\ Goto(q, "signing")
    /\ UNCHANGED session

\* Refused, or the answer is lost.
SignInFails(q) ==
    /\ pc[q] \in {"signing", "welcomed"}
    /\ Goto(q, "done")
    /\ UNCHANGED session

\* Whom the app shows when it is opened with pair n.
UserOf(n) == IF n = NoPair THEN None ELSE tokens[n].user

\* The family of n, if a call has presented n.
PresentedFamily(n) ==
    {tokens[m].family : m \in ({shown[q] : q \in Requests} \cap {n}) \ {NoPair}}

\* The process is killed and the app opened again with the pair on disk, which
\* may have been presented by then.
KillWith(disk) ==
    /\ kills < MaxKills /\ kills' = kills + 1
    /\ store' = disk /\ account' = UserOf(disk)
    /\ pc' = [q \in Requests |-> IF pc[q] = "idle" THEN "idle" ELSE "done"]
    /\ torn' = torn \cup PresentedFamily(disk)
    /\ UNCHANGED <<tokens, loaded, shown, refresh, reply, strays>>

-----------------------------------------------------------------------------
\* Part of the inductive strengthening of both.
UsedWasShown ==
    \A n \in Issued : tokens[n].used =>
        \E p \in Requests : shown[p] = n /\ refresh[p] = "answered"
=============================================================================
