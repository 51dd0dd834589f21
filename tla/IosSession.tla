----------------------------- MODULE IosSession -----------------------------
(***************************************************************************)
(* APIClient of the iOS app, an actor: every await lets other calls in,    *)
(* and SessionStore is an actor of its own, so that a pair that was loaded *)
(* may be old when the call goes on.  One refreshTask is shared by the     *)
(* calls that find it; the one that started it saves its pair.             *)
(***************************************************************************)
EXTENDS ClientSession

VARIABLES refreshTask,  \* the call whose task is shared, or None
          awaited,      \* the call whose task each call awaits, or None
          outcome,      \* of the task a call has started: none, ok or failed
          stale,        \* calls that presented a pair no longer stored
          cancelled,    \* calls whose task a sign-out has taken away
          crossed       \* families saved while a sign-in or sign-out was ending

task    == <<refreshTask, awaited, outcome, stale, cancelled, crossed>>
iosVars == <<session, pc, task>>

IosPCs == {"idle", "asked", "waiting", "deciding", "following", "saving", "saved",
           "retrying", "retried", "refused", "expired", "leaving", "left",
           "signing", "welcomed", "entering", "done"}

TaskTypeOK ==
    /\ pc \in [Requests -> IosPCs]
    /\ refreshTask \in Requests \cup {None}
    /\ awaited \in [Requests -> Requests \cup {None}]
    /\ outcome \in [Requests -> {"none", "ok", "failed"}]
    /\ stale \subseteq Requests /\ cancelled \subseteq Requests
    /\ crossed \subseteq Issued

IosTypeOK == SessionTypeOK /\ TaskTypeOK

IosInit ==
    /\ SessionInit
    /\ refreshTask = None
    /\ awaited = [q \in Requests |-> None]
    /\ outcome = [q \in Requests |-> "none"]
    /\ stale = {} /\ cancelled = {} /\ crossed = {}

-----------------------------------------------------------------------------
\* refreshSession.

\* What the store holds now, and another answers: no session, the pair that
\* another call saved, or still the one whose access token has expired.
Reload(q) ==
    /\ pc[q] = "waiting"
    /\ Goto(q, CASE store = NoPair    -> "refused"
                 [] store = loaded[q] -> "deciding"
                 [] OTHER             -> "retrying")
    /\ UNCHANGED <<session, task>>

Follow(q) ==
    /\ pc[q] = "deciding" /\ refreshTask # None
    /\ awaited' = [awaited EXCEPT ![q] = refreshTask]
    /\ Goto(q, "following")
    /\ UNCHANGED <<session, refreshTask, outcome, stale, cancelled, crossed>>

\* Mutant: refreshTask is not looked at.
MayLeadAlways == TRUE

MayLead == refreshTask = None

StartTask(q) ==
    /\ pc[q] = "deciding" /\ MayLead
    /\ refreshTask' = q
    /\ awaited' = [awaited EXCEPT ![q] = q]
    /\ Present(q, loaded[q])
    /\ stale' = IF loaded[q] = store THEN stale ELSE stale \cup {q}
    /\ Goto(q, "following")
    /\ UNCHANGED <<tokens, store, account, loaded, reply, strays, torn, kills, outcome, cancelled, crossed>>

\* The pair, or any error: refused, lost, late.
TaskEnds(q) ==
    /\ refresh[q] # "none" /\ outcome[q] = "none"
    /\ \E end \in {"ok", "failed"} :
          /\ end = "ok" => reply[q] # NoPair
          /\ outcome' = [outcome EXCEPT ![q] = end]
    /\ UNCHANGED <<session, pc, refreshTask, awaited, stale, cancelled, crossed>>

\* The awaited task is over.
Resumable(q) == pc[q] = "following" /\ outcome[awaited[q]] # "none"

\* Whichever task it is by now.
ForgetTask(q) == refreshTask' = None

\* Mutant: the task is forgotten before its pair is saved.
HoldNothing(q) == refreshTask' = IF awaited[q] = q THEN None ELSE refreshTask

HoldTask(q) == UNCHANGED refreshTask

\* The leader has a pair to save; the others go on at once.
ResumeWithPair(q) ==
    /\ Resumable(q) /\ outcome[awaited[q]] = "ok"
    /\ Goto(q, IF awaited[q] = q THEN "saving" ELSE "retrying")
    /\ HoldTask(q)
    /\ awaited' = [awaited EXCEPT ![q] = None]
    /\ UNCHANGED <<session, outcome, stale, cancelled, crossed>>

ResumeWithError(q) ==
    /\ Resumable(q) /\ outcome[awaited[q]] # "ok"
    /\ IF awaited[q] = q THEN ForgetTask(q) ELSE UNCHANGED refreshTask
    /\ Goto(q, "refused")
    /\ awaited' = [awaited EXCEPT ![q] = None]
    /\ UNCHANGED <<session, outcome, stale, cancelled, crossed>>

SavePair(q) ==
    /\ pc[q] = "saving"
    /\ Keep(q)
    /\ Goto(q, "saved")
    /\ UNCHANGED <<tokens, account, loaded, shown, refresh, reply, torn, kills, task>>

Lead(q) ==
    /\ pc[q] = "saved"
    /\ ForgetTask(q)
    /\ Goto(q, "retrying")
    /\ UNCHANGED <<session, awaited, outcome, stale, cancelled, crossed>>

-----------------------------------------------------------------------------
\* performAuthenticated with retryAfterRefresh: false, and its catch.

Retry(q) ==
    /\ pc[q] = "retrying"
    /\ loaded' = [loaded EXCEPT ![q] = store]
    /\ Goto(q, IF store = NoPair THEN "refused" ELSE "retried")
    /\ UNCHANGED <<tokens, store, account, shown, refresh, reply, strays, torn, kills, task>>

RetrySucceeds(q) ==
    /\ pc[q] = "retried" /\ ValidateAccess(loaded[q])
    /\ Goto(q, "done")
    /\ UNCHANGED <<session, task>>

\* Any error of the second request, a second 401 included.
RetryFails(q) ==
    /\ pc[q] = "retried"
    /\ Goto(q, "refused")
    /\ UNCHANGED <<session, task>>

\* refreshFailed is thrown once the store is cleared.
Clear(q) ==
    /\ pc[q] = "refused"
    /\ store' = NoPair
    /\ Goto(q, "expired")
    /\ UNCHANGED <<tokens, account, loaded, shown, refresh, reply, strays, torn, kills, task>>

-----------------------------------------------------------------------------
\* AppModel.signOut, pressed or after refreshFailed or noSession.

Press(q) ==
    /\ pc[q] = "idle" /\ account # None
    /\ Goto(q, "expired")
    /\ UNCHANGED <<session, task>>

\* Callers like devicePresence ignore the error.
Ignore(q) ==
    /\ pc[q] = "expired"
    /\ Goto(q, "done")
    /\ UNCHANGED <<session, task>>

\* closeEvents, cancel, and nil, in one go.
Cancel(q) ==
    /\ pc[q] = "expired"
    /\ outcome' = IF refreshTask # None /\ outcome[refreshTask] = "none"
                  THEN [outcome EXCEPT ![refreshTask] = "failed"] ELSE outcome
    /\ cancelled' = cancelled \cup ({refreshTask} \ {None})
    /\ refreshTask' = None
    /\ Goto(q, "leaving")
    /\ UNCHANGED <<session, awaited, stale, crossed>>

\* Mutant: the stored pair stays.
ClearNothing == UNCHANGED store

ClearStore == store' = NoPair

Leave(q) ==
    /\ pc[q] = "leaving"
    /\ ClearStore
    /\ Goto(q, "left")
    /\ UNCHANGED <<tokens, account, loaded, shown, refresh, reply, strays, torn, kills, task>>

\* Back on the main actor: isAuthenticated = false.
SignedOut(q) ==
    /\ pc[q] = "left"
    /\ account' = None
    /\ Goto(q, "done")
    /\ UNCHANGED <<tokens, store, loaded, shown, refresh, reply, strays, torn, kills, task>>

-----------------------------------------------------------------------------
\* AppModel.authenticate.

\* The reply is saved ...
SaveSignIn(q) ==
    /\ pc[q] = "welcomed"
    /\ store' = reply[q]
    /\ crossed' = IF \E p \in Requests : pc[p] \in {"entering", "left"}
                  THEN crossed \cup {tokens[reply[q]].family} ELSE crossed
    /\ Goto(q, "entering")
    /\ UNCHANGED <<tokens, account, loaded, shown, refresh, reply, strays, torn, kills>>
    /\ UNCHANGED <<refreshTask, awaited, outcome, stale, cancelled>>

\* ... and then isAuthenticated set on the main actor.
Enter(q) ==
    /\ pc[q] = "entering"
    /\ account' = tokens[reply[q]].user
    /\ Goto(q, "done")
    /\ UNCHANGED <<tokens, store, loaded, shown, refresh, reply, strays, torn, kills, task>>

\* The keychain is written at once.
KillIos ==
    /\ KillWith(store)
    /\ refreshTask' = None
    /\ outcome' = [q \in Requests |->
                     IF refresh[q] # "none" /\ outcome[q] = "none" THEN "failed" ELSE outcome[q]]
    /\ UNCHANGED <<awaited, stale, cancelled, crossed>>

-----------------------------------------------------------------------------
ProceedIos(q) ==
    \/ Reload(q) \/ Follow(q) \/ StartTask(q)
    \/ TaskEnds(q) \/ ResumeWithPair(q) \/ ResumeWithError(q) \/ SavePair(q) \/ Lead(q)
    \/ Retry(q) \/ RetrySucceeds(q) \/ RetryFails(q) \/ Clear(q)
    \/ Ignore(q) \/ Cancel(q) \/ Leave(q) \/ SignedOut(q)
    \/ SaveSignIn(q) \/ Enter(q)
    \/ (Answered(q) \/ Unauthorized(q) \/ SignInFails(q)) /\ UNCHANGED task

IosNext ==
    \/ \E q \in Requests : ProceedIos(q) \/ Press(q)
    \/ \E q \in Requests : (Ask(q) \/ Submit(q)) /\ UNCHANGED task
    \/ Serve /\ UNCHANGED task
    \/ KillIos

IosSpec == IosInit /\ [][IosNext]_iosVars

-----------------------------------------------------------------------------
\* The stored session is the shown account's, or of the account that is being
\* shown next; unless a refresh was overtaken by a sign-out, a sign-in or a
\* failed refresh and saved its pair all the same, or a sign-in saved its pair
\* while another sign-in or a sign-out had yet to change the screen.
IosStoreIsAccounts ==
    store # NoPair =>
        \/ tokens[store].user = account
        \/ \E q \in Requests : pc[q] = "entering" /\ tokens[reply[q]].user = tokens[store].user
        \/ tokens[store].family \in strays \cup crossed

\* "Coalesces simultaneous 401 responses into one refresh-token rotation": no
\* two tasks are under way, unless a sign-out has cancelled one.
SingleFlight ==
    cancelled = {} =>
        \A p, q \in Requests :
            /\ refresh[p] # "none" /\ outcome[p] = "none"
            /\ refresh[q] # "none" /\ outcome[q] = "none"
            => p = q

\* The server takes the app for a thief only if a kill lost a rotation, a call
\* refreshed the pair it had loaded before another call saved its replacement,
\* or two calls presented one pair: the second after the refresh of the first
\* had failed and before the store was cleared, or after a sign-out that
\* cancelled a task, whose caller forgets the task that is shared by then.
IosReuseIsExplained ==
    \A n \in Issued : tokens[n].revoked =>
        \/ tokens[n].family \in torn
        \/ \E q \in stale : SameFamily(shown[q], n)
        \/ \E p, q \in Requests :
              /\ p # q /\ shown[p] = shown[q] /\ shown[p] # NoPair /\ SameFamily(shown[p], n)
              /\ outcome[p] = "failed" \/ cancelled # {}

-----------------------------------------------------------------------------
\* The inductive strengthening.

\* A call whose task is under way or whose pair is not saved for good.
Leads(q) ==
    \/ refresh[q] # "none" /\ outcome[q] = "none"
    \/ pc[q] = "following" /\ awaited[q] = q
    \/ pc[q] \in {"saving", "saved"}

LeaderIsShared == cancelled = {} => \A q \in Requests : Leads(q) => refreshTask = q

\* What a call has by the time it gets somewhere.
IosStages ==
    \A q \in Requests :
        /\ pc[q] \in {"idle", "asked", "waiting", "deciding", "signing"} =>
              shown[q] = NoPair /\ reply[q] = NoPair /\ refresh[q] = "none" /\ outcome[q] = "none"
        /\ pc[q] \in {"asked", "waiting", "deciding"} => loaded[q] # NoPair
        /\ refresh[q] # "none" => shown[q] # NoPair
        /\ refresh[q] = "sent" => reply[q] = NoPair
        /\ pc[q] \in {"saving", "saved"} => outcome[q] = "ok"
        /\ pc[q] \in {"welcomed", "entering"} \/ outcome[q] = "ok" => reply[q] # NoPair
        /\ pc[q] \in {"welcomed", "entering"} => shown[q] = NoPair
        /\ refreshTask = q => refresh[q] # "none"

IosBase == IosTypeOK /\ IosStages /\ LeaderIsShared

\* A task that is under way is awaited by the call that started it.
TaskIsAwaited ==
    \A q \in Requests :
        /\ refresh[q] # "none" /\ outcome[q] = "none" => pc[q] = "following" /\ awaited[q] = q
        /\ shown[q] # NoPair => refresh[q] # "none"
        /\ outcome[q] # "none" \/ q \in stale => shown[q] # NoPair

IosReplyIsSuccessor ==
    \A q \in Requests : shown[q] # NoPair /\ reply[q] # NoPair =>
        /\ tokens[reply[q]].user = tokens[shown[q]].user
        /\ SameFamily(reply[q], shown[q])

\* A pair that was issued and not yet saved is known to one call only.
HoldsPair(q) == pc[q] \in {"following", "saving", "welcomed"} /\ reply[q] # NoPair

IosReplyIsNew ==
    \A q \in Requests : HoldsPair(q) =>
        /\ reply[q] # store
        /\ \A p \in Requests : shown[p] # reply[q] /\ loaded[p] # reply[q]
        /\ \A p \in Requests : HoldsPair(p) /\ reply[p] = reply[q] => p = q

\* A call that has exchanged the stored pair has yet to save its successor.
ExchangedIsGone ==
    store # NoPair =>
        \A p \in Requests :
            shown[p] = store /\ outcome[p] = "ok" =>
                \/ pc[p] = "following" /\ awaited[p] = p
                \/ pc[p] = "saving"
                \/ tokens[store].family \in torn

\* What the call that is about to change the screen leaves in the store.
ScreenFollows ==
    store # NoPair =>
        \A q \in Requests :
            /\ pc[q] = "entering" => \/ tokens[reply[q]].user = tokens[store].user
                                     \/ tokens[store].family \in strays \cup crossed
            /\ pc[q] = "left" => tokens[store].family \in strays \cup crossed

\* When two calls present one pair, this is why.
IosRotatesOnce ==
    \A p, q \in Requests : p # q /\ shown[p] = shown[q] /\ shown[p] # NoPair =>
        \/ tokens[shown[p]].family \in torn
        \/ {p, q} \cap stale # {}
        \/ "failed" \in {outcome[p], outcome[q]}
        \/ cancelled # {}

IosCoordinated ==
    /\ TaskIsAwaited
    /\ IosReplyIsSuccessor /\ IosReplyIsNew
    /\ ExchangedIsGone /\ UsedWasShown
    /\ IosStoreIsAccounts /\ ScreenFollows /\ IosRotatesOnce /\ IosReuseIsExplained

IosIInv == IosBase /\ IosCoordinated
=============================================================================
