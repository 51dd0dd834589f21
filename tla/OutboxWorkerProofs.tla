------------------------- MODULE OutboxWorkerProofs -------------------------
(***************************************************************************)
(* Theorems about OutboxWorker, for any number of rows, workers, attempts  *)
(* and faults: what sent and failed mean, even when batches outlive their  *)
(* locks; and for every row whose lock did not get old in a batch, that    *)
(* workers exclude each other, one outcome and bounded retries.            *)
(***************************************************************************)
EXTENDS OutboxWorker, WellFoundedInduction, TLAPS

\* What holds of a row as long as its lock has not got old in a batch.
Exclusive ==
    ExclusiveInTime /\ HeldIsLocked /\ OneOutcome /\ RetriesBounded /\ OpenIsBelowLimit

\* A nonempty batch has a lowest row: the one that is delivered next.
LEMMA HeadInBatch ==
    ASSUME TypeOK, NEW w \in Workers, batch[w] # {}
    PROVE  Head(w) \in batch[w] /\ Head(w) \in Rows
<1>1. batch[w] \subseteq Rows /\ Rows \subseteq Nat
  BY ConstantsAssumption DEF TypeOK, Rows
<1>2. PICK r \in batch[w] : \A q \in batch[w] : ~(<<q, r>> \in OpToRel(<, Nat))
  <2>1. batch[w] \subseteq Nat
    BY <1>1
  <2> QED
    BY <2>1, WFMin, NatLessThanWellFounded
<1>3. \A q \in batch[w] : r <= q
  <2> SUFFICES ASSUME NEW q \in batch[w] PROVE r <= q
    OBVIOUS
  <2>1. r \in Nat /\ q \in Nat
    BY <1>1
  <2>2. ~(q < r)
    BY <1>2, <2>1 DEF OpToRel
  <2> QED
    BY <2>1, <2>2
<1> QED
  BY <1>1, <1>3 DEF Head

\* Nothing is claimed, sent or failed at first.
LEMMA InitIInv == Init => IInv
<1> SUFFICES ASSUME Init PROVE IInv
  OBVIOUS
<1>1. TypeOK
  BY ConstantsAssumption DEF Init, TypeOK
<1>2. ResultOfBatch /\ SentMeansTold /\ FailedMeansExhausted
  BY DEF Init, ResultOfBatch, SentMeansTold, FailedMeansExhausted
<1>3. Exclusive
  BY ConstantsAssumption DEF Init, Exclusive, ExclusiveInTime, HeldIsLocked,
     OneOutcome, RetriesBounded, OpenIsBelowLimit
<1> QED
  BY <1>1, <1>2, <1>3 DEF IInv, Exclusive

\* Picked rows are neither settled nor locked by a claim younger than five
\* minutes.
LEMMA PickedPending ==
    Picked \subseteq Pending
BY DEF Picked

\* A claim locks rows that nobody holds unless locks have aged.
LEMMA ClaimStep ==
    ASSUME IInv, NEW w \in Workers, Claim(w) \/ ClaimLost(w)
    PROVE  IInv'
<1> USE DEF IInv, Exclusive, Idle, LockPicked
<1>1. Picked \subseteq Rows /\ Picked \cap (sent \cup failed) = {}
         /\ \A r \in Picked : lock[r] # "fresh"
  BY PickedPending DEF Pending, TypeOK
<1>2. TypeOK'
  <2>1. CASE Claim(w)
    BY <2>1, <1>1 DEF Claim, TypeOK
  <2>2. CASE ClaimLost(w)
    BY <2>2, ConstantsAssumption DEF ClaimLost, TypeOK
  <2> QED
    BY <2>1, <2>2
<1>3. result[w] = "none" /\ Picked \subseteq Rows
  BY <1>1 DEF Claim, ClaimLost, ResultOfBatch
<1>4. ResultOfBatch'
  <2>1. CASE Claim(w)
    <3>1. \A v \in Workers : v # w => batch'[v] = batch[v] /\ seen'[v] = seen[v]
      BY <2>1 DEF Claim, TypeOK
    <3>2. result'[w] = "none" /\ \A r \in batch'[w] : seen'[w][r] = attempts[r]
      BY <2>1, <1>3 DEF Claim, TypeOK
    <3>3. \A v \in Workers : v # w => Head(v)' = Head(v)
      BY <3>1 DEF Head
    <3>4. \A r \in Rows : attempts[r] <= attempts[r]
      BY DEF TypeOK
    <3> QED
      BY <2>1, <3>1, <3>2, <3>3, <3>4, <1>2 DEF Claim, ResultOfBatch, TypeOK
  <2>2. CASE ClaimLost(w)
    BY <2>2 DEF ClaimLost, ResultOfBatch, Head
  <2> QED
    BY <2>1, <2>2
<1>5. (SentMeansTold /\ FailedMeansExhausted)'
  BY DEF Claim, ClaimLost, SentMeansTold, FailedMeansExhausted
<1>6. Exclusive'
  <2>1. \A v \in Workers : Picked \cap batch[v] \subseteq outlived
    BY <1>1 DEF HeldIsLocked
  <2>2. outlived' = outlived /\ sent' = sent /\ failed' = failed /\ attempts' = attempts
    BY DEF Claim, ClaimLost
  <2>3. CASE Claim(w)
    <3>1. \A v \in Workers : v # w => batch'[v] = batch[v] /\ seen'[v] = seen[v]
      BY <2>3 DEF Claim, TypeOK
    <3>2. batch'[w] = Picked /\ \A r \in Picked : seen'[w][r] = attempts[r]
      BY <2>3, <1>1 DEF Claim, TypeOK
    <3>3. \A r \in Rows : lock'[r] = IF r \in Picked THEN "fresh" ELSE lock[r]
      BY <2>3 DEF Claim
    <3>4. ExclusiveInTime'
      BY <2>1, <2>2, <3>1, <3>2 DEF ExclusiveInTime
    <3>5. HeldIsLocked'
      BY <2>2, <1>1, <3>1, <3>2, <3>3 DEF HeldIsLocked, TypeOK
    <3> QED
      BY <2>2, <3>4, <3>5 DEF OneOutcome, RetriesBounded, OpenIsBelowLimit
  <2>4. CASE ClaimLost(w)
    <3>1. ExclusiveInTime' /\ HeldIsLocked'
      BY <2>4 DEF ClaimLost, ExclusiveInTime, HeldIsLocked, TypeOK
    <3> QED
      BY <2>2, <3>1 DEF OneOutcome, RetriesBounded, OpenIsBelowLimit
  <2> QED
    BY <2>3, <2>4
<1> QED
  BY <1>2, <1>4, <1>5, <1>6

\* Sending changes no row.
LEMMA SendStep ==
    ASSUME IInv, NEW w \in Workers, NEW answer \in Answers, Send(w, answer)
    PROVE  IInv'
<1> USE DEF IInv, Exclusive, row
<1>1. Head(w) \in batch[w] /\ Head(w) \in Rows
  BY HeadInBatch DEF Send
<1>2. \A v \in Workers : Head(v)' = Head(v)
  BY DEF Send, Head
<1>3. told \subseteq told' /\ told' \subseteq told \cup {Head(w)}
         /\ (answer = "ok" => Head(w) \in told')
  BY DEF Send, Answers
<1>4. refused \subseteq refused' /\ refused' \subseteq refused \cup {Head(w)}
         /\ (answer = "permanent" => Head(w) \in refused')
  BY DEF Send
<1>5. TypeOK'
  BY <1>1, <1>3, <1>4 DEF Send, TypeOK, Answers
<1>6. ResultOfBatch'
  BY <1>2, <1>3, <1>4 DEF Send, ResultOfBatch, TypeOK
<1>7. (SentMeansTold /\ FailedMeansExhausted)'
  BY <1>3, <1>4 DEF Send, SentMeansTold, FailedMeansExhausted
<1>8. Exclusive'
  BY DEF Send, ExclusiveInTime, HeldIsLocked, OneOutcome, RetriesBounded, OpenIsBelowLimit
<1> QED
  BY <1>5, <1>6, <1>7, <1>8

-----------------------------------------------------------------------------
\* What every recording step leaves of the worker's batch.
LEMMA DeliveredFacts ==
    ASSUME IInv, NEW w \in Workers, result[w] # "none", Delivered(w)
    PROVE  /\ Head(w) \in batch[w] /\ Head(w) \in Rows
           /\ batch' \in [Workers -> SUBSET Rows]
           /\ seen' \in [Workers -> [Rows -> Nat]]
           /\ result' = [result EXCEPT ![w] = "none"]
           /\ \A v \in Workers : v # w => batch'[v] = batch[v] /\ seen'[v] = seen[v]
                                          /\ Head(v)' = Head(v)
           /\ \A r \in batch'[w] : r \in batch[w] /\ r # Head(w) /\ seen'[w][r] = seen[w][r]
<1> USE DEF IInv, Exclusive
<1>1. Head(w) \in batch[w] /\ Head(w) \in Rows
  BY HeadInBatch DEF ResultOfBatch
<1>2. batch' \in [Workers -> SUBSET Rows] /\ seen' \in [Workers -> [Rows -> Nat]]
  BY <1>1 DEF Delivered, TypeOK
<1>3. \A v \in Workers : v # w => batch'[v] = batch[v] /\ seen'[v] = seen[v]
  BY DEF Delivered, TypeOK
<1>4. \A v \in Workers : v # w => Head(v)' = Head(v)
  BY <1>3 DEF Head
<1>5. batch'[w] = batch[w] \ {Head(w)}
  BY DEF Delivered, TypeOK
<1>6. \A r \in Rows : r # Head(w) => seen'[w][r] = seen[w][r]
  BY DEF Delivered, TypeOK
<1> QED
  BY <1>1, <1>2, <1>3, <1>4, <1>5, <1>6 DEF Delivered, TypeOK

\* What is kept when a delivery is recorded without touching its row: the
\* row stays locked and nobody holds it.
LEMMA LeftLocked ==
    ASSUME IInv, NEW w \in Workers, result[w] # "none", Delivered(w),
           UNCHANGED <<row, ctx, told, refused, outlived, stops>>, faults' \in 0..MaxFaults
    PROVE  IInv'
<1> USE DEF IInv, Exclusive, row
<1>1. TypeOK'
  BY DeliveredFacts DEF TypeOK
<1>2. ResultOfBatch'
  BY DeliveredFacts DEF ResultOfBatch, TypeOK
<1>3. (SentMeansTold /\ FailedMeansExhausted)'
  BY DEF SentMeansTold, FailedMeansExhausted
<1>4. Exclusive'
  <2>1. \A v \in Workers : \A r \in batch'[v] : r \in batch[v] /\ seen'[v][r] = seen[v][r]
    BY DeliveredFacts DEF TypeOK
  <2>2. ExclusiveInTime'
    BY <2>1 DEF ExclusiveInTime
  <2>3. HeldIsLocked'
    BY <2>1 DEF HeldIsLocked
  <2>4. (OneOutcome /\ RetriesBounded /\ OpenIsBelowLimit)'
    BY DEF OneOutcome, RetriesBounded, OpenIsBelowLimit
  <2> QED
    BY <2>2, <2>3, <2>4
<1> QED
  BY <1>1, <1>2, <1>3, <1>4

\* What is kept when the row of a delivery is settled or given back.
LEMMA Recorded ==
    ASSUME IInv, NEW w \in Workers, result[w] # "none", Delivered(w),
           UNCHANGED <<ctx, told, refused, outlived, faults, stops>>,
           lock' = [lock EXCEPT ![Head(w)] = "free"],
           \A r \in Rows : r # Head(w) => /\ attempts'[r] = attempts[r]
                                          /\ (r \in sent' <=> r \in sent)
                                          /\ (r \in failed' <=> r \in failed),
           \A r \in Rows : attempts'[r] >= attempts[r],
           TypeOK'
    PROVE  (ExclusiveInTime /\ HeldIsLocked)'
<1> USE DEF IInv, Exclusive
<1>1. ExclusiveInTime'
  BY DeliveredFacts DEF ExclusiveInTime
<1>2. \A v \in Workers : v # w /\ Head(w) \in batch[v] => Head(w) \in outlived
  BY DeliveredFacts DEF ExclusiveInTime
<1>3. \A v \in Workers : \A r \in batch'[v] \ outlived :
          r \in batch[v] /\ r # Head(w) /\ r \in Rows /\ seen'[v][r] = seen[v][r]
  <2>1. \A r \in batch'[w] : r \in batch[w] /\ r # Head(w) /\ seen'[w][r] = seen[w][r]
    BY DeliveredFacts
  <2>2. \A v \in Workers : v # w => batch'[v] = batch[v] /\ seen'[v] = seen[v]
    BY DeliveredFacts
  <2>3. \A v \in Workers : batch[v] \subseteq Rows
    BY DEF TypeOK
  <2> QED
    BY <1>2, <2>1, <2>2, <2>3
<1>4. HeldIsLocked'
  BY <1>3 DEF HeldIsLocked, TypeOK
<1> QED
  BY <1>1, <1>4

\* MarkSent: the row was told to its device.
LEMMA MarkSentStep ==
    ASSUME IInv, NEW w \in Workers, MarkSent(w)
    PROVE  IInv'
<1> USE DEF IInv, Exclusive, Finished
<1>1. Delivered(w) /\ result[w] = "ok" /\ Head(w) \in told
  BY DEF MarkSent, ResultOfBatch
<1>2. CASE ctx[w] # "live"
  <2>1. faults' \in 0..MaxFaults /\ UNCHANGED <<row, ctx, told, refused, outlived, stops>>
    BY <1>2 DEF MarkSent, TypeOK, row
  <2> QED
    BY <1>1, <2>1, LeftLocked
<1>3. CASE ctx[w] = "live"
  <2>1. TypeOK'
    <3>1. /\ Head(w) \in Rows
          /\ batch' \in [Workers -> SUBSET Rows] /\ seen' \in [Workers -> [Rows -> Nat]]
          /\ result' = [result EXCEPT ![w] = "none"]
      BY <1>1, DeliveredFacts
    <3>2. sent' \subseteq Rows /\ lock' \in [Rows -> {"free", "fresh", "stale"}]
      BY <1>3, <3>1 DEF MarkSent, TypeOK
    <3> QED
      BY <3>1, <3>2 DEF MarkSent, TypeOK
  <2>2. ResultOfBatch'
    BY <1>1, DeliveredFacts DEF MarkSent, ResultOfBatch, TypeOK
  <2>3. (SentMeansTold /\ FailedMeansExhausted)'
    BY <1>1, <1>3 DEF MarkSent, SentMeansTold, FailedMeansExhausted
  <2>4. Exclusive'
    <3>1. (ExclusiveInTime /\ HeldIsLocked)'
      <4>1. \A r \in Rows : attempts'[r] = attempts[r] /\ attempts'[r] >= attempts[r]
        BY DEF MarkSent, TypeOK
      <4>2. sent' = sent \cup {Head(w)} /\ failed' = failed
               /\ lock' = [lock EXCEPT ![Head(w)] = "free"]
               /\ UNCHANGED <<ctx, told, refused, outlived, faults, stops>>
        BY <1>3 DEF MarkSent
      <4> QED
        BY <1>1, <2>1, <4>1, <4>2, Recorded
    <3>2. Head(w) \in failed => Head(w) \in outlived
      BY <1>1, DeliveredFacts DEF HeldIsLocked
    <3> QED
      BY <1>3, <3>1, <3>2 DEF MarkSent, OneOutcome, RetriesBounded, OpenIsBelowLimit
  <2> QED
    BY <2>1, <2>2, <2>3, <2>4
<1> QED
  BY <1>2, <1>3

\* Retry: the row is given up after a refusal or the last attempt only.
LEMMA RetryStep ==
    ASSUME IInv, NEW w \in Workers, Retry(w)
    PROVE  IInv'
<1> USE DEF IInv, Exclusive, CountAttempt
<1> DEFINE h == Head(w)
<1>1. Delivered(w) /\ result[w] \in {"transient", "permanent"}
         /\ (result[w] = "permanent" => h \in refused)
  BY DEF Retry, ResultOfBatch
<1>2. h \in batch[w] /\ h \in Rows /\ seen[w][h] \in Nat /\ attempts[h] \in Nat
         /\ seen[w][h] <= attempts[h]
  BY <1>1, DeliveredFacts DEF ResultOfBatch, TypeOK
<1>3. attempts' \in [Rows -> Nat] /\ attempts'[h] = attempts[h] + 1
         /\ \A r \in Rows : attempts'[r] >= attempts[r] /\ (r # h => attempts'[r] = attempts[r])
  BY <1>2 DEF Retry, TypeOK
<1>4. failed' \subseteq failed \cup {h} /\ failed \subseteq failed'
         /\ (h \in failed' => h \in failed \/ IsFinal(w))
  BY DEF Retry
<1>5. TypeOK'
  <2>1. due' \subseteq Rows /\ failed' \subseteq Rows
    BY <1>2, <1>4 DEF Retry, TypeOK
  <2>2. lock' \in [Rows -> {"free", "fresh", "stale"}]
    BY <1>2 DEF Retry, TypeOK
  <2>3. /\ batch' \in [Workers -> SUBSET Rows] /\ seen' \in [Workers -> [Rows -> Nat]]
        /\ result' \in [Workers -> {"none", "ok", "transient", "permanent"}]
    BY <1>1, DeliveredFacts DEF TypeOK
  <2> QED
    BY <1>3, <2>1, <2>2, <2>3 DEF Retry, TypeOK
<1>6. ResultOfBatch'
  <2> SUFFICES ASSUME NEW v \in Workers
               PROVE  /\ result'[v] # "none" => batch'[v] # {}
                      /\ result'[v] = "ok" => Head(v)' \in told'
                      /\ result'[v] = "permanent" => Head(v)' \in refused'
                      /\ \A r \in batch'[v] : seen'[v][r] <= attempts'[r]
    BY DEF ResultOfBatch
  <2>1. \A r \in batch'[v] : r \in batch[v] /\ r \in Rows /\ seen'[v][r] = seen[v][r]
    BY <1>1, DeliveredFacts DEF TypeOK
  <2>2. \A r \in batch'[v] : seen'[v][r] <= attempts'[r]
    <3> SUFFICES ASSUME NEW r \in batch'[v] PROVE seen'[v][r] <= attempts'[r]
      OBVIOUS
    <3>1. seen[v][r] \in Nat /\ attempts[r] \in Nat /\ attempts'[r] \in Nat
             /\ seen[v][r] <= attempts[r] /\ attempts[r] <= attempts'[r]
      BY <2>1, <1>3 DEF ResultOfBatch, TypeOK
    <3> QED
      BY <2>1, <3>1
  <2>3. result'[v] = IF v = w THEN "none" ELSE result[v]
    BY <1>1, DeliveredFacts DEF TypeOK
  <2> QED
    BY <1>1, <2>2, <2>3, DeliveredFacts DEF ResultOfBatch, Retry
<1>7. SentMeansTold'
  BY DEF Retry, SentMeansTold
<1>8. FailedMeansExhausted'
  <2> SUFFICES ASSUME NEW r \in failed'
               PROVE  r \in refused' \/ attempts'[r] >= MaxAttempts
    BY DEF FailedMeansExhausted
  <2>1. r \in Rows /\ attempts[r] \in Nat /\ attempts'[r] \in Nat /\ attempts'[r] >= attempts[r]
    BY <1>2, <1>3, <1>4 DEF TypeOK
  <2>2. CASE r \in failed
    BY <2>1, <2>2, ConstantsAssumption DEF FailedMeansExhausted, Retry
  <2>3. CASE r \notin failed
    <3>1. r = h /\ IsFinal(w)
      BY <1>4, <2>3
    <3>2. r \in refused \/ seen[w][h] + 1 >= MaxAttempts
      BY <1>1, <3>1 DEF IsFinal
    <3> QED
      BY <1>2, <1>3, <3>1, <3>2, ConstantsAssumption DEF Retry
  <2> QED
    BY <2>2, <2>3
<1>9. Exclusive'
  <2>1. h \in outlived \/ (h \notin sent \cup failed /\ seen[w][h] = attempts[h]
                             /\ attempts[h] < MaxAttempts)
    BY <1>2 DEF HeldIsLocked, OpenIsBelowLimit
  <2>2. (ExclusiveInTime /\ HeldIsLocked)'
    <3>1. /\ UNCHANGED <<ctx, told, refused, outlived, faults, stops>>
          /\ lock' = [lock EXCEPT ![h] = "free"]
          /\ sent' = sent
      BY DEF Retry
    <3> HIDE DEF h
    <3>2. \A r \in Rows : r # h => /\ attempts'[r] = attempts[r]
                                   /\ (r \in sent' <=> r \in sent)
                                   /\ (r \in failed' <=> r \in failed)
      BY <1>3, <1>4, <3>1
    <3>3. h = Head(w)
      BY DEF h
    <3> QED
      BY <1>1, <1>3, <1>5, <3>1, <3>2, <3>3, Recorded
  <2>3. OneOutcome'
    BY <1>4, <2>1 DEF OneOutcome, Retry
  <2>4. h \notin outlived /\ ~IsFinal(w) => attempts[h] + 1 < MaxAttempts
    BY <1>2, <2>1, ConstantsAssumption DEF IsFinal
  <2>5. \A r \in Rows \ outlived :
            attempts'[r] <= MaxAttempts /\ (r \notin failed' => attempts'[r] < MaxAttempts)
    <3> SUFFICES ASSUME NEW r \in Rows \ outlived
                 PROVE  attempts'[r] <= MaxAttempts /\ (r \notin failed' => attempts'[r] < MaxAttempts)
      OBVIOUS
    <3>1. CASE r # h
      BY <1>3, <1>4, <3>1 DEF RetriesBounded, OpenIsBelowLimit
    <3>2. CASE r = h
      <4>1. IsFinal(w) => h \in failed'
        BY DEF Retry
      <4>2. attempts[h] + 1 <= MaxAttempts
        BY <1>2, <2>1, <3>2, ConstantsAssumption
      <4> QED
        BY <1>3, <2>4, <3>2, <4>1, <4>2
    <3> QED
      BY <3>1, <3>2
  <2>6. outlived' = outlived
    BY DEF Retry
  <2> QED
    BY <2>2, <2>3, <2>5, <2>6 DEF RetriesBounded, OpenIsBelowLimit
<1> QED
  BY <1>5, <1>6, <1>7, <1>8, <1>9

\* An UPDATE that fails leaves the row locked.
LEMMA RecordFailsStep ==
    ASSUME IInv, NEW w \in Workers, RecordFails(w)
    PROVE  IInv'
BY LeftLocked, ConstantsAssumption DEF RecordFails, IInv, TypeOK

-----------------------------------------------------------------------------
\* A lock that ages in a batch takes its row out of the exclusive ones.
LEMMA TimeStep ==
    ASSUME IInv, NEW r \in Rows, LockAges(r) \/ BackoffElapses(r)
    PROVE  IInv'
<1> USE DEF IInv, Exclusive, LockAges, BackoffElapses
<1>1. TypeOK'
  BY DEF TypeOK
<1>2. ResultOfBatch'
  BY DEF ResultOfBatch, Head
<1>3. (SentMeansTold /\ FailedMeansExhausted)'
  BY DEF SentMeansTold, FailedMeansExhausted
<1>4. Exclusive'
  BY DEF ExclusiveInTime, HeldIsLocked, OneOutcome, RetriesBounded,
     OpenIsBelowLimit, Held, TypeOK
<1> QED
  BY <1>1, <1>2, <1>3, <1>4

\* Processes stop and start without touching the rows.
LEMMA ProcessStep ==
    ASSUME IInv, NEW w \in Workers, Cancel(w) \/ Exit(w) \/ Kill(w) \/ Restart(w)
    PROVE  IInv'
<1> USE DEF IInv, Exclusive, row
<1>1. TypeOK'
  <2>1. CASE Cancel(w)
    BY <2>1, ConstantsAssumption DEF TypeOK, Cancel
  <2>2. CASE Exit(w) \/ Restart(w)
    BY <2>2 DEF TypeOK, Exit, Restart
  <2>3. CASE Kill(w)
    <3>1. stops' \in 0..MaxStops
      BY <2>3, ConstantsAssumption DEF Kill, TypeOK
    <3>2. [r \in Rows |-> 0] \in [Rows -> Nat]
      OBVIOUS
    <3> QED
      BY <2>3, <3>1, <3>2 DEF Kill, TypeOK
  <2> QED
    BY <2>1, <2>2, <2>3
<1>2. UNCHANGED <<sent, failed, due, lock, attempts, told, refused, outlived>>
  BY DEF Cancel, Exit, Kill, Restart
<1>3. ASSUME NEW v \in Workers
      PROVE  \/ batch'[v] = batch[v] /\ seen'[v] = seen[v] /\ result'[v] = result[v]
             \/ batch'[v] = {} /\ result'[v] = "none"
  <2>1. CASE Cancel(w) \/ Exit(w) \/ Restart(w)
    BY <2>1 DEF Cancel, Exit, Restart
  <2>2. CASE Kill(w)
    BY <2>2 DEF Kill, TypeOK
  <2> QED
    BY <2>1, <2>2
<1>4. \A v \in Workers : batch'[v] = batch[v] => Head(v)' = Head(v)
  BY DEF Head
<1>5. ResultOfBatch'
  BY <1>2, <1>3, <1>4 DEF ResultOfBatch
<1>6. (SentMeansTold /\ FailedMeansExhausted)'
  BY <1>2 DEF SentMeansTold, FailedMeansExhausted
<1>7. Exclusive'
  BY <1>2, <1>3 DEF ExclusiveInTime, HeldIsLocked, OneOutcome, RetriesBounded, OpenIsBelowLimit
<1> QED
  BY <1>1, <1>5, <1>6, <1>7

\* Every step of the system preserves the strengthened invariant.
LEMMA NextIInv == IInv /\ [Next]_vars => IInv'
<1> SUFFICES ASSUME IInv, [Next]_vars PROVE IInv'
  OBVIOUS
<1>1. ASSUME NEW w \in Workers, Work(w) PROVE IInv'
  BY <1>1, ClaimStep, SendStep, MarkSentStep, RetryStep, ProcessStep DEF Work
<1>2. ASSUME NEW w \in Workers, Fault(w) PROVE IInv'
  BY <1>2, ClaimStep, RecordFailsStep, ProcessStep DEF Fault
<1>3. ASSUME NEW r \in Rows, LockAges(r) \/ BackoffElapses(r) PROVE IInv'
  BY <1>3, TimeStep
<1>4. CASE UNCHANGED vars
  BY <1>4 DEF vars, row, IInv, TypeOK, ResultOfBatch, Head, SentMeansTold,
     FailedMeansExhausted, ExclusiveInTime, HeldIsLocked, OneOutcome, RetriesBounded,
     OpenIsBelowLimit
<1> QED
  BY <1>1, <1>2, <1>3, <1>4 DEF Next

\* The strengthened invariant holds in every reachable state.
THEOREM Invariance == Spec => []IInv
BY InitIInv, NextIInv, PTL DEF Spec

\* The variables keep their types, whatever fails and stops.
THEOREM TypeCorrect == Spec => []TypeOK
<1>1. IInv => TypeOK
  BY DEF IInv
<1> QED
  BY <1>1, Invariance, PTL

\* A row is marked sent only once a worker has told its device, also when
\* workers overlap.
THEOREM SentIsEarned == Spec => []SentMeansTold
<1>1. IInv => SentMeansTold
  BY DEF IInv
<1> QED
  BY <1>1, Invariance, PTL

\* A row is marked failed only if its device refused it or it was tried
\* MaxAttempts times, also when workers overlap.
THEOREM FailureIsEarned == Spec => []FailedMeansExhausted
<1>1. IInv => FailedMeansExhausted
  BY DEF IInv
<1> QED
  BY <1>1, Invariance, PTL

\* Two workers deliver one row only if its lock got old in a batch, whatever
\* crashes, shutdowns and database errors happen.
THEOREM WorkersExclude == Spec => []ExclusiveInTime
<1>1. IInv => ExclusiveInTime
  BY DEF IInv
<1> QED
  BY <1>1, Invariance, PTL

\* A row whose lock did not get old is not marked both sent and failed.
THEOREM OutcomesExclude == Spec => []OneOutcome
<1>1. IInv => OneOutcome
  BY DEF IInv
<1> QED
  BY <1>1, Invariance, PTL

\* Nor is it tried more than MaxAttempts times.
THEOREM RetriesEnd == Spec => []RetriesBounded
<1>1. IInv => RetriesBounded
  BY DEF IInv
<1> QED
  BY <1>1, Invariance, PTL
=============================================================================
