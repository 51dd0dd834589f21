-------------------------- MODULE RedisIdempotency --------------------------
(***************************************************************************)
(* One idempotency key under withRedisIdempotency: POST requests that carry *)
(* the key reach any API replica, coordinate through the key's lock and    *)
(* result entries in Redis, and one of them should execute the handler.    *)
(* Keys do not interact (requestKeyHash of user and key), so one key is    *)
(* modelled.  Each Redis command, and each Lua script, is one step.        *)
(***************************************************************************)
EXTENDS Naturals, FiniteSets

CONSTANTS Requests,      \* POST requests with this key
          Fingerprints,  \* method, path, user and body of a request
          Faults,        \* what may go wrong, a subset of AllFaults
          NoLock, NoResult, None

\* slow:   a handler may run longer than redisIdempotencyLockTTL;
\* redis:  a Redis command may fail, before or after taking effect;
\* cancel: the client may go away, which cancels r.Context();
\* crash:  the replica serving a request may die.
AllFaults == {"slow", "redis", "cancel", "crash"}

ASSUME ConstantsAssumption ==
    /\ Faults \subseteq AllFaults
    /\ NoLock \notin [owner : Requests, fingerprint : Fingerprints]

\* The handler's response as far as the middleware tells responses apart:
\* done (2xx), refused (4xx; createTransfer and registerDevice answer 400 to
\* every error, a failing store included), failed (5xx).
Status == {"done", "refused", "failed"}
Stored == Status \ {"failed"}
ResultRecord == [fingerprint : Fingerprints, status : Stored]

ASSUME AbsentAssumption == NoResult \notin ResultRecord /\ None \notin Status

VARIABLES lock,     \* the key's :lock entry
          result,   \* the key's :result entry
          pc,       \* next step of each request
          fp,       \* fingerprint of each request
          status,   \* what each request's own handler run answered
          replay,   \* the stored status a request was answered with
          lapsed,   \* leaders whose lock expired under them
          dropped,  \* leaders whose commit or release failed
          late,     \* requests that arrived when a result was stored
          missed    \* of a leader: who had read no result before its commit

vars == <<lock, result, pc, fp, status, replay, lapsed, dropped, late, missed>>

Looping == {"get", "setnx", "getlock"}
Leading == {"run", "finish"}
Final   == {"answered", "replayed", "conflict", "unavailable", "gone"}

TypeOK ==
    /\ lock \in [owner : Requests, fingerprint : Fingerprints] \cup {NoLock}
    /\ result \in ResultRecord \cup {NoResult}
    /\ pc \in [Requests -> {"new"} \cup Looping \cup Leading \cup Final]
    /\ fp \in [Requests -> Fingerprints]
    /\ status \in [Requests -> Status \cup {None}]
    /\ replay \in [Requests -> Stored \cup {None}]
    /\ lapsed \subseteq Requests /\ dropped \subseteq Requests
    /\ late \subseteq Requests
    /\ missed \in [Requests -> SUBSET Requests]

Init ==
    /\ lock = NoLock
    /\ result = NoResult
    /\ pc = [r \in Requests |-> "new"]
    /\ fp \in [Requests -> Fingerprints]
    /\ status = [r \in Requests |-> None]
    /\ replay = [r \in Requests |-> None]
    /\ lapsed = {} /\ dropped = {}
    /\ late = {}
    /\ missed = [r \in Requests |-> {}]

Goto(r, label) == pc' = [pc EXCEPT ![r] = label]
Owns(r) == lock # NoLock /\ lock.owner = r

\* What r's commit stores: its fingerprint and the response of its handler.
Record(r) == [fingerprint |-> fp[r], status |-> status[r]]

-----------------------------------------------------------------------------
\* acquireRedisIdempotency: the loop of GET result, SETNX lock, GET lock.

Arrive(r) ==
    /\ pc[r] = "new"
    /\ Goto(r, "get")
    /\ late' = IF result = NoResult THEN late ELSE late \cup {r}
    /\ UNCHANGED <<lock, result, fp, status, replay, lapsed, dropped, missed>>

GetResult(r) ==
    /\ pc[r] = "get"
    /\ \/ result = NoResult /\ Goto(r, "setnx") /\ UNCHANGED replay
       \/ /\ result # NoResult
          /\ IF result.fingerprint = fp[r]
               THEN Goto(r, "replayed") /\ replay' = [replay EXCEPT ![r] = result.status]
               ELSE Goto(r, "conflict") /\ UNCHANGED replay
    /\ UNCHANGED <<lock, result, fp, status, lapsed, dropped, late, missed>>

\* The owner string is random for every attempt; only a winning attempt's is
\* ever compared, so the request stands for it.
SetNX(r) ==
    /\ pc[r] = "setnx"
    /\ IF lock = NoLock
         THEN lock' = [owner |-> r, fingerprint |-> fp[r]] /\ Goto(r, "run")
         ELSE Goto(r, "getlock") /\ UNCHANGED lock
    /\ UNCHANGED <<result, fp, status, replay, lapsed, dropped, late, missed>>

\* The lock gone or held for the same request: around the loop, in the latter
\* case after 25 ms.
GetLock(r) ==
    /\ pc[r] = "getlock"
    /\ Goto(r, IF lock = NoLock \/ lock.fingerprint = fp[r] THEN "get" ELSE "conflict")
    /\ UNCHANGED <<lock, result, fp, status, replay, lapsed, dropped, late, missed>>

-----------------------------------------------------------------------------
\* The leader runs the handler, then commits or releases and answers.

RunHandler(r, s) ==
    /\ pc[r] = "run"
    /\ status' = [status EXCEPT ![r] = s]
    /\ Goto(r, "finish")
    /\ UNCHANGED <<lock, result, fp, replay, lapsed, dropped, late, missed>>

\* Mutant: SET result and DEL lock, whoever holds the lock.
CommitAnyOwner(r) == result' = Record(r) /\ lock' = NoLock

\* commitIdempotencyScript: SET result and DEL lock, if the lock is still r's.
CommitScript(r) ==
    IF Owns(r)
      THEN result' = Record(r) /\ lock' = NoLock
      ELSE UNCHANGED <<result, lock>>

\* Mutant: DEL whoever holds the lock.
ReleaseAnyOwner(r) == lock' = NoLock /\ UNCHANGED result

\* Mutant: DEL both keys.
ReleaseBothKeys(r) == lock' = NoLock /\ result' = NoResult

\* releaseIdempotencyScript: DEL lock, if it is still r's.
ReleaseScript(r) ==
    /\ lock' = IF Owns(r) THEN NoLock ELSE lock
    /\ UNCHANGED result

\* Of a mutation that is recorded, those between their GET and their SETNX.
NoteMissed(r) ==
    IF status[r] = "done" /\ Owns(r)
      THEN missed' = [missed EXCEPT ![r] = {q \in Requests : pc[q] = "setnx"}]
      ELSE UNCHANGED missed

\* Mutant: a 5xx is committed like any other response.
FinishCommits(r) ==
    /\ pc[r] = "finish"
    /\ CommitScript(r)
    /\ NoteMissed(r)
    /\ Goto(r, "answered")
    /\ UNCHANGED <<fp, status, replay, lapsed, dropped, late>>

Finish(r) ==
    /\ pc[r] = "finish"
    /\ IF status[r] = "failed" THEN ReleaseScript(r) ELSE CommitScript(r)
    /\ NoteMissed(r)
    /\ Goto(r, "answered")
    /\ UNCHANGED <<fp, status, replay, lapsed, dropped, late>>

-----------------------------------------------------------------------------
\* Faults.

\* A failing command of the loop answers 503; SETNX may have taken effect.
RedisFails(r) ==
    /\ "redis" \in Faults
    /\ pc[r] \in Looping
    /\ \/ UNCHANGED lock
       \/ /\ pc[r] = "setnx" /\ lock = NoLock
          /\ lock' = [owner |-> r, fingerprint |-> fp[r]]
    /\ Goto(r, "unavailable")
    /\ UNCHANGED <<result, fp, status, replay, lapsed, dropped, late, missed>>

\* The error of a failed commit or release is dropped: the handler's response
\* goes out all the same.
FinishFails(r) ==
    /\ "redis" \in Faults
    /\ pc[r] = "finish"
    /\ Goto(r, "answered")
    /\ dropped' = dropped \cup {r}
    /\ UNCHANGED <<lock, result, fp, status, replay, lapsed, late, missed>>

\* The client goes away.  The loop stops at its next command; a handler ends
\* as it may, and the scripts then fail on the cancelled context.
Cancel(r) ==
    /\ "cancel" \in Faults
    /\ pc[r] \in Looping \cup {"finish"}
    /\ Goto(r, "gone")
    /\ UNCHANGED <<lock, result, fp, status, replay, lapsed, dropped, late, missed>>

Crash(r) ==
    /\ "crash" \in Faults
    /\ pc[r] \in Looping \cup Leading
    /\ Goto(r, "gone")
    /\ UNCHANGED <<lock, result, fp, status, replay, lapsed, dropped, late, missed>>

\* Mutant: the lock is set without an expiry.
LockStays == FALSE /\ UNCHANGED vars

\* redisIdempotencyLockTTL passes.  Unless handlers may be slow, it outlasts
\* its owner's run.
LockExpires ==
    /\ lock # NoLock
    /\ "slow" \in Faults \/ pc[lock.owner] \notin Leading
    /\ lock' = NoLock
    /\ lapsed' = IF pc[lock.owner] \in Leading THEN lapsed \cup {lock.owner} ELSE lapsed
    /\ UNCHANGED <<result, pc, fp, status, replay, dropped, late, missed>>

-----------------------------------------------------------------------------
Serve(r) ==
    \/ GetResult(r)
    \/ SetNX(r)
    \/ GetLock(r)
    \/ \E s \in Status : RunHandler(r, s)
    \/ Finish(r)

Fault(r) == RedisFails(r) \/ FinishFails(r) \/ Cancel(r) \/ Crash(r)

Next ==
    \/ \E r \in Requests : Arrive(r) \/ Serve(r) \/ Fault(r)
    \/ LockExpires

Spec == Init /\ [][Next]_vars

\* Replicas keep serving and Redis keeps its promise to expire a lock; faults
\* and arrivals are never obliged to happen.
FairSpec == Spec /\ WF_vars(LockExpires) /\ \A r \in Requests : WF_vars(Serve(r))

-----------------------------------------------------------------------------
\* Two requests run the handler at the same time only if a lock expired under
\* one of them: commit and release never remove another owner's lock.
LeaderHoldsLock ==
    \A r \in Requests : pc[r] \in Leading => Owns(r) \/ r \in lapsed

\* What a replay answers is what the handler answered another request with the
\* same fingerprint, and never a 5xx.
ReplayIsGenuine ==
    \A r \in Requests : pc[r] = "replayed" =>
        \E q \in Requests : /\ fp[q] = fp[r]
                            /\ status[q] = replay[r]
                            /\ status[q] \in Stored

\* A request that arrives after a result was stored never runs the handler
\* again (within the record's TTL).
LateNeverRuns == \A r \in late : status[r] = None /\ pc[r] \notin Leading

\* Every request is answered or lost with its replica: a crashed leader's
\* lock expires, and the waiters go on.
EveryRequestEnds == \A r \in Requests : pc[r] \in Looping \cup Leading ~> pc[r] \in Final

\* README.md: "Two retries can hit two API instances and still execute the
\* underlying mutation once."
ExecutedOnce ==
    \A r, q \in Requests :
        status[r] = "done" /\ status[q] = "done" /\ fp[r] = fp[q] => r = q

\* A mutation that was acknowledged: its response has gone out as a 2xx, its
\* commit reached Redis and the lock was still its own (the errors of a commit
\* and the refusal of its script are both dropped).
Acknowledged(r) == pc[r] = "answered" /\ status[r] = "done" /\ r \notin dropped \cup lapsed

\* The record of an acknowledged mutation stays, so that its retry is answered
\* from it, unless a request that had looked for a record before it was stored
\* won the lock after that, ran the handler as well and stored its own.
AcknowledgedIsReplayed ==
    \A r \in Requests : Acknowledged(r) =>
        \E q \in {r} \cup missed[r] : result = Record(q)

-----------------------------------------------------------------------------
\* The inductive strengthening: what the loop and the stored result say about
\* the requests before them.
RunsOnce ==
    \A r \in Requests : /\ pc[r] \in {"new", "run"} \cup Looping => status[r] = None
                        /\ pc[r] = "finish" => status[r] # None

ResultIsGenuine ==
    result # NoResult =>
        \E q \in Requests : fp[q] = result.fingerprint /\ status[q] = result.status

LateSeesResult ==
    \A r \in late : result # NoResult /\ pc[r] \in {"get"} \cup Final

\* After an acknowledged mutation, whoever has or may still win the lock had
\* missed its record.
OnlyMissedLead ==
    \A r \in Requests : Acknowledged(r) =>
        /\ result # NoResult
        /\ \A q \in Requests : pc[q] = "setnx" \/ Owns(q) => q \in missed[r]

IInv ==
    /\ TypeOK
    /\ RunsOnce
    /\ ResultIsGenuine
    /\ LateSeesResult
    /\ LeaderHoldsLock
    /\ ReplayIsGenuine
    /\ LateNeverRuns
    /\ OnlyMissedLead
    /\ AcknowledgedIsReplayed
=============================================================================
