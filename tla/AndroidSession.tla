--------------------------- MODULE AndroidSession ---------------------------
(***************************************************************************)
(* ApiClient of the Android app: refreshSingleFlight under a Mutex.  The   *)
(* app's calls run on the main thread, so that what happens between two    *)
(* suspensions is one step.  Every Activity makes an ApiClient, and so a   *)
(* Mutex, of its own over the same store; the calls of the Activity before *)
(* it are cancelled.  PixelGoMessagingService has an ApiClient per call.   *)
(***************************************************************************)
EXTENDS ClientSession

VARIABLES mutex,   \* the Activity's call that holds refreshMutex, or None
          pushed,  \* the calls of the messaging service
          old,     \* the calls of Activities that are gone
          split,   \* families whose stored pair was presented when one went
          disk     \* what SharedPreferences.apply() has written so far

clients == <<mutex, pushed, old, split>>
androidVars == <<session, pc, clients, disk>>

AppTypeOK ==
    /\ pc \in [Requests -> {"idle", "asked", "waiting", "refreshing", "signing", "welcomed", "done"}]
    /\ mutex \in Requests \cup {None}
    /\ pushed \subseteq Requests /\ old \subseteq Requests
    /\ split \subseteq Issued
    /\ disk \in MaybePair

AndroidTypeOK == SessionTypeOK /\ AppTypeOK

AndroidInit ==
    /\ SessionInit
    /\ mutex = None /\ pushed = {} /\ old = {} /\ split = {} /\ disk = store

-----------------------------------------------------------------------------
\* onNewToken.
Push(q) ==
    /\ pc[q] = "idle" /\ store # NoPair
    /\ loaded' = [loaded EXCEPT ![q] = store]
    /\ pushed' = pushed \cup {q}
    /\ Goto(q, "asked")
    /\ UNCHANGED <<tokens, store, account, shown, refresh, reply, strays, torn, kills, mutex, old, split, disk>>

\* Mutant: the mutex is not waited for.
MayEnterAnyway(q) == pc[q] = "waiting"

MayEnter(q) == pc[q] = "waiting" /\ (q \in pushed \/ mutex = None)

Lock(q) == mutex' = IF q \in pushed THEN mutex ELSE q

\* Mutant: a failed refresh keeps the mutex.
UnlockOnSave(q) == mutex' = IF q \in pushed \/ store' = NoPair THEN mutex ELSE None

\* withLock releases it on every way out.
Unlock(q) == mutex' = IF q \in pushed THEN mutex ELSE None

\* Mutant: the session is read before the lock is awaited.
CurrentEarly(q) == loaded[q]

\* The session as refreshSingleFlight reads it under the lock.
Current(q) == store

EnterRefresh(q) ==
    /\ MayEnter(q) /\ Current(q) = loaded[q]
    /\ Lock(q)
    /\ Present(q, loaded[q])
    /\ Goto(q, "refreshing")
    /\ UNCHANGED <<tokens, store, account, loaded, reply, strays, torn, kills, pushed, old, split, disk>>

\* Another call has refreshed, or another session is stored: the call is
\* repeated with its access token, and any answer ends it.
UseCurrent(q) ==
    /\ MayEnter(q) /\ Current(q) \notin {NoPair, loaded[q]}
    /\ Goto(q, "done")
    /\ UNCHANGED <<session, clients, disk>>

\* The refresh is answered: save, unlock, repeat the call.
Save(q) ==
    /\ pc[q] = "refreshing" /\ refresh[q] = "answered" /\ reply[q] # NoPair
    /\ Keep(q)
    /\ Unlock(q)
    /\ Goto(q, "done")
    /\ UNCHANGED <<tokens, account, loaded, shown, refresh, reply, torn, kills, pushed, old, split, disk>>

ClearOnFailure == store' = NoPair

\* The refresh is refused, its answer is lost or late, or there is no session
\* any more: whatever is stored is cleared, and most callers sign out.
Fail(q) ==
    /\ \/ pc[q] = "refreshing"
       \/ MayEnter(q) /\ store = NoPair
    /\ ClearOnFailure
    /\ IF q \in pushed THEN UNCHANGED account ELSE account' \in {account, None}
    /\ IF pc[q] = "refreshing" THEN Unlock(q) ELSE UNCHANGED mutex
    /\ Goto(q, "done")
    /\ UNCHANGED <<tokens, loaded, shown, refresh, reply, strays, torn, kills, pushed, old, split, disk>>

\* The reply to a sign-in: saved and shown without a suspension in between.
Welcome(q) ==
    /\ pc[q] = "welcomed"
    /\ store' = reply[q] /\ account' = tokens[reply[q]].user
    /\ Goto(q, "done")
    /\ UNCHANGED <<tokens, loaded, shown, refresh, reply, strays, torn, kills>>

\* Mutant: the stored session is kept.
SignOutKeeping ==
    /\ account # None /\ account' = None
    /\ UNCHANGED <<tokens, store, pc, loaded, shown, refresh, reply, strays, torn, kills, clients, disk>>

\* clearAuthenticatedState: nothing under way is cancelled.
SignOut ==
    /\ account # None /\ account' = None
    /\ store' = NoPair
    /\ UNCHANGED <<tokens, pc, loaded, shown, refresh, reply, strays, torn, kills, clients, disk>>

\* apply() writes in the background.
Flush ==
    /\ disk # store /\ disk' = store
    /\ UNCHANGED <<session, pc, clients>>

-----------------------------------------------------------------------------
\* Activities.

Begun == {q \in Requests : pc[q] # "idle"}

KillApp ==
    /\ KillWith(disk)
    /\ mutex' = None /\ old' = old \cup Begun
    /\ UNCHANGED <<pushed, split, disk>>

\* The screen is turned, or the Activity left and opened again: a new ApiClient
\* over the stored session; the composition's scope cancels its calls.
Recreate ==
    /\ mutex' = None /\ old' = old \cup (Begun \ pushed)
    /\ account' = UserOf(store)
    /\ split' = split \cup PresentedFamily(store)
    /\ UNCHANGED <<tokens, store, pc, loaded, shown, refresh, reply, strays, torn, kills, pushed, disk>>

\* Mutant: the exception of a cancelled call is not caught.
CancelledQuietly(q) ==
    /\ pc[q] # "done"
    /\ Goto(q, "done")
    /\ UNCHANGED <<session, clients, disk>>

\* A cancelled call ends with its exception, which under refreshSingleFlight is
\* caught like a failed refresh.
Cancelled(q) ==
    /\ pc[q] # "done"
    /\ \/ pc[q] # "refreshing" /\ UNCHANGED store
       \/ pc[q] \in {"waiting", "refreshing"} /\ ClearOnFailure
    /\ Goto(q, "done")
    /\ UNCHANGED <<tokens, account, loaded, shown, refresh, reply, strays, torn, kills, clients, disk>>

-----------------------------------------------------------------------------
Proceed(q) ==
    \/ q \in old /\ Cancelled(q)
    \/ /\ q \notin old
       /\ \/ EnterRefresh(q) \/ UseCurrent(q) \/ Save(q) \/ Fail(q)
          \/ /\ Answered(q) \/ Unauthorized(q) \/ Welcome(q) \/ SignInFails(q)
             /\ UNCHANGED <<clients, disk>>

AndroidNext ==
    \/ \E q \in Requests : Proceed(q) \/ Push(q)
    \/ \E q \in Requests : (Ask(q) \/ Submit(q)) /\ UNCHANGED <<clients, disk>>
    \/ Serve /\ UNCHANGED <<clients, disk>>
    \/ SignOut \/ Flush \/ KillApp \/ Recreate

AndroidSpec == AndroidInit /\ [][AndroidNext]_androidVars

\* Connections time out, and the mutex is given to those who wait.
AndroidFairness == \A q \in Requests : WF_androidVars(Proceed(q))

FairAndroid == AndroidSpec /\ AndroidFairness

-----------------------------------------------------------------------------
\* The stored session is the shown account's, unless a refresh was overtaken
\* by a sign-out, a sign-in or a failed refresh and saved its pair all the
\* same.
StoreIsAccounts ==
    store # NoPair =>
        tokens[store].user = account \/ tokens[store].family \in strays

\* The calls that share the Activity's ApiClient.
Shared == Requests \ (pushed \cup old)

\* docs/ARCHITECTURE.md: "A coroutine Mutex coalesces refresh rotation after
\* concurrent 401 responses": two calls of one ApiClient never present the
\* same refresh token.
AppRotatesOnce ==
    \A p, q \in Shared : shown[p] = shown[q] /\ shown[p] # NoPair => p = q

\* Two calls, and one of them the messaging service's.
Apart(p, q) == p # q /\ {p, q} \cap pushed # {}

\* The server takes the app for a thief only if a kill lost a rotation, the
\* Activity was replaced while a call of it was refreshing, or the messaging
\* service presented the same token as another call.
ReuseIsExplained ==
    \A n \in Issued : tokens[n].revoked =>
        \/ tokens[n].family \in torn \cup split
        \/ \E p, q \in Requests :
              Apart(p, q) /\ shown[p] = shown[q] /\ shown[p] # NoPair /\ SameFamily(shown[p], n)

\* The app never keeps a refresh token that has been exchanged, unless a call
\* is exchanging it now or a kill has brought it back.
StoredIsUnused ==
    store # NoPair /\ tokens[store].used =>
        \/ tokens[store].family \in torn
        \/ \E q \in Requests : pc[q] = "refreshing" /\ shown[q] = store

\* Every call ends, whoever holds the mutex and whatever gets lost.
CallsEnd == \A q \in Requests : pc[q] = "asked" ~> pc[q] = "done"

-----------------------------------------------------------------------------
\* The inductive strengthening.

\* What a call has by the time it gets somewhere.
Stages ==
    \A q \in Requests :
        /\ pc[q] \in {"idle", "asked", "waiting", "signing"} =>
              shown[q] = NoPair /\ reply[q] = NoPair /\ refresh[q] = "none"
        /\ pc[q] = "welcomed" => shown[q] = NoPair /\ reply[q] # NoPair /\ refresh[q] = "none"
        /\ pc[q] \in {"asked", "waiting"} => loaded[q] # NoPair
        /\ pc[q] = "refreshing" => shown[q] # NoPair
        /\ refresh[q] # "none" => shown[q] # NoPair

MutexIsHeld == \A q \in Shared : pc[q] = "refreshing" => mutex = q

\* A pair that was issued and not yet saved is known to one call only.
Holds(q) == pc[q] \in {"refreshing", "welcomed"} /\ reply[q] # NoPair

ReplyIsNew ==
    \A q \in Requests : Holds(q) =>
        /\ reply[q] # store
        /\ \A p \in Requests : shown[p] # reply[q]
        /\ \A p \in Requests : Holds(p) /\ reply[p] = reply[q] => p = q

ReplyIsSuccessor ==
    \A q \in Requests : pc[q] = "refreshing" /\ reply[q] # NoPair =>
        /\ tokens[reply[q]].user = tokens[shown[q]].user
        /\ SameFamily(reply[q], shown[q])

\* A call that has presented the stored pair has not ended, but by a kill; if
\* its Activity is gone, that is on record.
PresentedIsGone ==
    store # NoPair =>
        \A p \in Requests : shown[p] = store =>
            /\ pc[p] = "refreshing" \/ (p \notin Shared /\ tokens[store].family \in torn)
            /\ p \in old => tokens[store].family \in torn \cup split

\* When two calls present one pair, this is why.
TwinsAreExplained ==
    \A p, q \in Requests : p # q /\ shown[p] = shown[q] /\ shown[p] # NoPair =>
        tokens[shown[p]].family \in torn \cup split \/ Apart(p, q)

Coordinated ==
    /\ Stages /\ MutexIsHeld
    /\ ReplyIsNew /\ ReplyIsSuccessor
    /\ PresentedIsGone /\ TwinsAreExplained /\ UsedWasShown
    /\ StoreIsAccounts /\ AppRotatesOnce /\ ReuseIsExplained

AndroidIInv == AndroidTypeOK /\ Coordinated
=============================================================================
