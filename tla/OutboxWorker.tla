---------------------------- MODULE OutboxWorker ----------------------------
(***************************************************************************)
(* The push workers of the API replicas over the rows of                   *)
(* notification_outbox: claim a batch, send each delivery, record the      *)
(* result; lock timeouts, database errors, shutdowns, crashes, restarts.   *)
(* A row's id is its number.  Time is left out: a lock is fresh or older   *)
(* than five minutes, a retry is due or not.                               *)
(***************************************************************************)
EXTENDS Naturals, FiniteSets

CONSTANTS NumRows,      \* rows of the outbox, all inserted
          Workers,      \* one per API process
          BatchSize,    \* worker.batchSize, 50 in the code
          MaxAttempts,  \* worker.maxAttempts, 8 in the code
          MaxFaults,    \* bound on database errors
          MaxStops      \* bound on shutdowns and crashes

ASSUME ConstantsAssumption ==
    /\ NumRows \in Nat /\ BatchSize \in Nat \ {0} /\ MaxAttempts \in Nat \ {0}
    /\ MaxFaults \in Nat /\ MaxStops \in Nat

Rows == 1..NumRows

VARIABLES sent, failed,  \* rows with sent_at, with failed_at
          due,           \* rows with available_at <= now()
          lock,          \* locked_at of each row: free, fresh or stale
          attempts,      \* the column attempts
          ctx,           \* each process: live, cancelled (shutting down) or gone
          batch,         \* rows each worker still has to deliver
          seen,          \* attempts of the rows of a batch as the claim read them
          result,        \* of the delivery a worker has just sent
          told,          \* the device got the push, or was online
          refused,       \* the provider refused the row for good
          outlived,      \* rows whose lock got old under a worker's batch
          faults, stops

row  == <<sent, failed, due, lock, attempts>>
vars == <<row, ctx, batch, seen, result, told, refused, outlived, faults, stops>>

TypeOK ==
    /\ sent \subseteq Rows /\ failed \subseteq Rows /\ due \subseteq Rows
    /\ lock \in [Rows -> {"free", "fresh", "stale"}]
    /\ attempts \in [Rows -> Nat]
    /\ ctx \in [Workers -> {"live", "cancelled", "gone"}]
    /\ batch \in [Workers -> SUBSET Rows]
    /\ seen \in [Workers -> [Rows -> Nat]]
    /\ result \in [Workers -> {"none", "ok", "transient", "permanent"}]
    /\ told \subseteq Rows /\ refused \subseteq Rows /\ outlived \subseteq Rows
    /\ faults \in 0..MaxFaults /\ stops \in 0..MaxStops

Init ==
    /\ sent = {} /\ failed = {} /\ due = Rows
    /\ lock = [r \in Rows |-> "free"]
    /\ attempts = [r \in Rows |-> 0]
    /\ ctx = [w \in Workers |-> "live"]
    /\ batch = [w \in Workers |-> {}]
    /\ seen = [w \in Workers |-> attempts]
    /\ result = [w \in Workers |-> "none"]
    /\ told = {} /\ refused = {} /\ outlived = {}
    /\ faults = 0 /\ stops = 0

-----------------------------------------------------------------------------
\* PostgresRepository.Claim: one statement, SKIP LOCKED.

\* Mutant: locked_at is not looked at.
PendingUnlocked == due \ (sent \cup failed)

\* Mutant: an old lock is not reclaimed.
PendingNeverStale == {r \in due \ (sent \cup failed) : lock[r] = "free"}

\* Mutant: failed rows are not filtered out.
PendingFailed == {r \in due \ sent : lock[r] # "fresh"}

Pending == {r \in due \ (sent \cup failed) : lock[r] # "fresh"}

\* ORDER BY id LIMIT batchSize
Picked == {r \in Pending : Cardinality({q \in Pending : q < r}) < BatchSize}

LockPicked == lock' = [r \in Rows |-> IF r \in Picked THEN "fresh" ELSE lock[r]]

Idle(w) == ctx[w] = "live" /\ batch[w] = {}

Claim(w) ==
    /\ Idle(w) /\ Pending # {}
    /\ LockPicked
    /\ batch' = [batch EXCEPT ![w] = Picked]
    /\ seen' = [seen EXCEPT ![w] = [r \in Rows |-> IF r \in Picked THEN attempts[r] ELSE 0]]
    /\ UNCHANGED <<sent, failed, due, attempts, ctx, result, told, refused, outlived, faults, stops>>

\* The statement commits and the worker gets an error: drain gives up.
ClaimLost(w) ==
    /\ Idle(w) /\ Pending # {} /\ faults < MaxFaults
    /\ faults' = faults + 1
    /\ LockPicked
    /\ UNCHANGED <<sent, failed, due, attempts, ctx, batch, seen, result, told, refused, outlived, stops>>

-----------------------------------------------------------------------------
\* Worker.deliver, row by row in the order of the ids.

Head(w) == CHOOSE r \in batch[w] : \A q \in batch[w] : r <= q

\* OfflineOnlySender and the providers.  ok: the device is online or the
\* provider took the push; transient: the provider failed, or took the push
\* and its answer was lost; permanent: the provider refused it.
Send(w, answer) ==
    /\ batch[w] # {} /\ result[w] = "none"
    /\ result' = [result EXCEPT ![w] = answer]
    /\ told' \in CASE answer = "ok"        -> {told \cup {Head(w)}}
                   [] answer = "transient" -> {told, told \cup {Head(w)}}
                   [] answer = "permanent" -> {told}
    /\ refused' = IF answer = "permanent" THEN refused \cup {Head(w)} ELSE refused
    /\ UNCHANGED <<row, ctx, batch, seen, outlived, faults, stops>>

\* Mutant: any answer is recorded as sent.
FinishedAny(w) == result[w] # "none"

Finished(w) == result[w] = "ok"

Delivered(w) ==
    /\ batch' = [batch EXCEPT ![w] = @ \ {Head(w)}]
    /\ seen' = [seen EXCEPT ![w][Head(w)] = 0]
    /\ result' = [result EXCEPT ![w] = "none"]

\* With the worker's own context: after a shutdown the statement is not run,
\* the error is logged and the row stays as it is.
MarkSent(w) ==
    /\ Finished(w)
    /\ Delivered(w)
    /\ IF ctx[w] = "live"
         THEN sent' = sent \cup {Head(w)} /\ lock' = [lock EXCEPT ![Head(w)] = "free"]
         ELSE UNCHANGED <<sent, lock>>
    /\ UNCHANGED <<failed, due, attempts, ctx, told, refused, outlived, faults, stops>>

\* Mutant: one attempt more than configured.
IsFinalLate(w) == result[w] = "permanent" \/ seen[w][Head(w)] + 1 > MaxAttempts

\* Mutant: gives up at once.
IsFinalAlways(w) == TRUE

\* The attempt is counted from what the claim read.
IsFinal(w) == result[w] = "permanent" \/ seen[w][Head(w)] + 1 >= MaxAttempts

CountAttempt(w) == attempts' = [attempts EXCEPT ![Head(w)] = @ + 1]

\* With a context of its own after a shutdown, and then without backoff.
Retry(w) ==
    /\ result[w] \in {"transient", "permanent"}
    /\ Delivered(w)
    /\ CountAttempt(w)
    /\ lock' = [lock EXCEPT ![Head(w)] = "free"]
    /\ IF IsFinal(w)
         THEN failed' = failed \cup {Head(w)} /\ UNCHANGED due
         ELSE /\ due' = IF ctx[w] = "live" THEN due \ {Head(w)} ELSE due \cup {Head(w)}
              /\ UNCHANGED failed
    /\ UNCHANGED <<sent, ctx, told, refused, outlived, faults, stops>>

\* The UPDATE fails: the error is logged and the worker goes on.
RecordFails(w) ==
    /\ result[w] # "none" /\ faults < MaxFaults
    /\ faults' = faults + 1
    /\ Delivered(w)
    /\ UNCHANGED <<row, ctx, told, refused, outlived, stops>>

-----------------------------------------------------------------------------
\* Time.

Held(r) == \E w \in Workers : r \in batch[w]

LockAges(r) ==
    /\ lock[r] = "fresh"
    /\ lock' = [lock EXCEPT ![r] = "stale"]
    /\ outlived' = IF Held(r) THEN outlived \cup {r} ELSE outlived
    /\ UNCHANGED <<sent, failed, due, attempts, ctx, batch, seen, result, told, refused, faults, stops>>

BackoffElapses(r) ==
    /\ r \notin due
    /\ due' = due \cup {r}
    /\ UNCHANGED <<sent, failed, lock, attempts, ctx, batch, seen, result, told, refused, outlived, faults, stops>>

-----------------------------------------------------------------------------
\* Processes.

\* main cancels the worker's context and waits for the worker.
Cancel(w) ==
    /\ ctx[w] = "live" /\ stops < MaxStops
    /\ ctx' = [ctx EXCEPT ![w] = "cancelled"] /\ stops' = stops + 1
    /\ UNCHANGED <<row, batch, seen, result, told, refused, outlived, faults>>

\* Run returns: a claim with a cancelled context fails.
Exit(w) ==
    /\ ctx[w] = "cancelled" /\ batch[w] = {}
    /\ ctx' = [ctx EXCEPT ![w] = "gone"]
    /\ UNCHANGED <<row, batch, seen, result, told, refused, outlived, faults, stops>>

\* A crash, or main does not wait longer than three seconds.
Kill(w) ==
    /\ ctx[w] # "gone"
    /\ ctx[w] = "live" => stops < MaxStops
    /\ stops' = IF ctx[w] = "live" THEN stops + 1 ELSE stops
    /\ ctx' = [ctx EXCEPT ![w] = "gone"]
    /\ batch' = [batch EXCEPT ![w] = {}]
    /\ seen' = [seen EXCEPT ![w] = [r \in Rows |-> 0]]
    /\ result' = [result EXCEPT ![w] = "none"]
    /\ UNCHANGED <<row, told, refused, outlived, faults>>

Restart(w) ==
    /\ ctx[w] = "gone"
    /\ ctx' = [ctx EXCEPT ![w] = "live"]
    /\ UNCHANGED <<row, batch, seen, result, told, refused, outlived, faults, stops>>

Answers == {"ok", "transient", "permanent"}

Work(w) ==
    \/ Claim(w)
    \/ \E answer \in Answers : Send(w, answer)
    \/ MarkSent(w) \/ Retry(w)
    \/ Exit(w) \/ Restart(w)

Fault(w) == ClaimLost(w) \/ RecordFails(w) \/ Cancel(w) \/ Kill(w)

Next ==
    \/ \E w \in Workers : Work(w) \/ Fault(w)
    \/ \E r \in Rows : LockAges(r) \/ BackoffElapses(r)

Spec == Init /\ [][Next]_vars

\* Workers poll every second and processes are restarted, clients have
\* timeouts, and the clock goes on.
Fairness ==
    /\ \A w \in Workers : WF_vars(Work(w))
    /\ \A r \in Rows : WF_vars(LockAges(r)) /\ WF_vars(BackoffElapses(r))

FairSpec == Spec /\ Fairness

-----------------------------------------------------------------------------
\* A row is sent only if its device was told, online or by the provider.
SentMeansTold == sent \subseteq told

\* A row is given up only after a refusal or the configured attempts, even
\* when two workers count its attempts at once.
FailedMeansExhausted == \A r \in failed : r \in refused \/ attempts[r] >= MaxAttempts

\* Two workers deliver one row only if its lock got old in a batch.
ExclusiveInTime ==
    \A w, v \in Workers : w # v => batch[w] \cap batch[v] \subseteq outlived

\* A row ends both sent and given up only then.
OneOutcome == sent \cap failed \subseteq outlived

\* Retries are bounded by the configured attempts otherwise.
RetriesBounded == \A r \in Rows \ outlived : attempts[r] <= MaxAttempts

\* Every wake-up intent ends sent or given up, whatever the providers answer
\* and wherever a process stops.
EveryRowSettles == \A r \in Rows : <>(r \in sent \cup failed)

-----------------------------------------------------------------------------
\* The inductive strengthening.

\* A worker without a batch has nothing to record.
ResultOfBatch ==
    \A w \in Workers :
        /\ result[w] # "none" => batch[w] # {}
        /\ result[w] = "ok" => Head(w) \in told
        /\ result[w] = "permanent" => Head(w) \in refused
        /\ \A r \in batch[w] : seen[w][r] <= attempts[r]

\* As long as its lock has not got old in a batch, a row in a batch is locked,
\* and nothing has happened to it since the claim.
HeldIsLocked ==
    \A w \in Workers : \A r \in batch[w] \ outlived :
        /\ lock[r] = "fresh"
        /\ r \notin sent \cup failed
        /\ seen[w][r] = attempts[r]

OpenIsBelowLimit ==
    \A r \in Rows \ outlived : r \notin failed => attempts[r] < MaxAttempts

IInv ==
    /\ TypeOK
    /\ ResultOfBatch
    /\ SentMeansTold /\ FailedMeansExhausted
    /\ ExclusiveInTime /\ HeldIsLocked
    /\ OneOutcome
    /\ RetriesBounded /\ OpenIsBelowLimit
=============================================================================
