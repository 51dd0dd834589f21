----------------------- MODULE RedisIdempotencyProofs -----------------------
(***************************************************************************)
(* Theorems about RedisIdempotency, for any number of requests and any     *)
(* combination of faults: a leader keeps the key's lock until it expires,  *)
(* replays are genuine, and a request that comes after the record was      *)
(* stored does not run the handler.                                        *)
(***************************************************************************)
EXTENDS RedisIdempotency, TLAPS

\* A key nobody has used satisfies the invariant.
LEMMA InitIInv == Init => IInv
<1> SUFFICES ASSUME Init PROVE IInv
  OBVIOUS
<1>1. TypeOK
  BY DEF Init, TypeOK
<1>2. RunsOnce /\ ResultIsGenuine /\ LateSeesResult
  BY DEF Init, RunsOnce, ResultIsGenuine, LateSeesResult
<1>3. LeaderHoldsLock /\ ReplayIsGenuine /\ LateNeverRuns
  BY DEF Init, LeaderHoldsLock, ReplayIsGenuine, LateNeverRuns, Leading
<1>4. OnlyMissedLead /\ AcknowledgedIsReplayed
  BY DEF Init, OnlyMissedLead, AcknowledgedIsReplayed, Acknowledged
<1> QED
  BY <1>1, <1>2, <1>3, <1>4 DEF IInv

\* Every step keeps the types.
LEMMA TypeStep == IInv /\ [Next]_vars => TypeOK'
<1> SUFFICES ASSUME IInv, [Next]_vars PROVE TypeOK'
  OBVIOUS
<1> USE DEF IInv, TypeOK, Goto, Looping, Leading, Final
<1>1. CASE UNCHANGED vars
  BY <1>1 DEF vars
<1>2. CASE LockExpires
  BY <1>2 DEF LockExpires
<1>3. ASSUME NEW r \in Requests, Arrive(r) PROVE TypeOK'
  BY <1>3 DEF Arrive
<1>4. ASSUME NEW r \in Requests, GetResult(r) PROVE TypeOK'
  BY <1>4 DEF GetResult, ResultRecord
<1>5. ASSUME NEW r \in Requests, SetNX(r) PROVE TypeOK'
  BY <1>5 DEF SetNX
<1>6. ASSUME NEW r \in Requests, GetLock(r) PROVE TypeOK'
  BY <1>6 DEF GetLock
<1>7. ASSUME NEW r \in Requests, NEW s \in Status, RunHandler(r, s) PROVE TypeOK'
  BY <1>7 DEF RunHandler
<1>8. ASSUME NEW r \in Requests, Finish(r) PROVE TypeOK'
  BY <1>8 DEF Finish, NoteMissed, CommitScript, ReleaseScript, Record, ResultRecord, Stored, RunsOnce
<1>9. ASSUME NEW r \in Requests, Fault(r) PROVE TypeOK'
  BY <1>9 DEF Fault, RedisFails, FinishFails, Cancel, Crash
<1> QED
  BY <1>1, <1>2, <1>3, <1>4, <1>5, <1>6, <1>7, <1>8, <1>9 DEF Next, Serve

\* A request arrives: it joins `late' exactly if a result is stored.
LEMMA ArriveStep ==
  ASSUME IInv, TypeOK', NEW r \in Requests, Arrive(r)
  PROVE  IInv'
<1> USE DEF IInv, TypeOK, Goto, Looping, Leading, Final, Arrive
<1>1. RunsOnce'
  BY ConstantsAssumption, AbsentAssumption DEF RunsOnce
<1>2. ResultIsGenuine'
  BY ConstantsAssumption, AbsentAssumption DEF ResultIsGenuine, RunsOnce
<1>3. LateSeesResult'
  BY ConstantsAssumption, AbsentAssumption DEF LateSeesResult
<1>4. LeaderHoldsLock'
  BY ConstantsAssumption, AbsentAssumption DEF LeaderHoldsLock, Owns
<1>5. ReplayIsGenuine'
  BY ConstantsAssumption, AbsentAssumption DEF ReplayIsGenuine, ResultIsGenuine, RunsOnce
<1>6. LateNeverRuns'
  BY ConstantsAssumption, AbsentAssumption DEF LateNeverRuns, LateSeesResult, RunsOnce
<1>7. OnlyMissedLead'
  BY ConstantsAssumption, AbsentAssumption DEF OnlyMissedLead, Acknowledged, Owns
<1>8. AcknowledgedIsReplayed'
  BY ConstantsAssumption, AbsentAssumption
     DEF AcknowledgedIsReplayed, Acknowledged, OnlyMissedLead, Record
<1> QED
  BY <1>1, <1>2, <1>3, <1>4, <1>5, <1>6, <1>7, <1>8

\* GET of the result entry: a stored result answers the request.
LEMMA GetResultStep ==
  ASSUME IInv, TypeOK', NEW r \in Requests, GetResult(r)
  PROVE  IInv'
<1> USE DEF IInv, TypeOK, Goto, Looping, Leading, Final, GetResult
<1>1. RunsOnce'
  BY ConstantsAssumption, AbsentAssumption DEF RunsOnce
<1>2. ResultIsGenuine'
  BY ConstantsAssumption, AbsentAssumption DEF ResultIsGenuine, RunsOnce
<1>3. LateSeesResult'
  BY ConstantsAssumption, AbsentAssumption DEF LateSeesResult
<1>4. LeaderHoldsLock'
  BY ConstantsAssumption, AbsentAssumption DEF LeaderHoldsLock, Owns
<1>5. ReplayIsGenuine'
  <2> SUFFICES ASSUME NEW p \in Requests, pc'[p] = "replayed"
               PROVE  \E q \in Requests :
                        fp[q] = fp[p] /\ status[q] = replay'[p] /\ status[q] \in Stored
    BY DEF ReplayIsGenuine
  <2>1. CASE p = r
    <3>1. result # NoResult /\ result.fingerprint = fp[r] /\ replay'[r] = result.status
      BY <2>1
    <3>2. result.status \in Stored
      BY <3>1 DEF ResultRecord
    <3> QED
      BY <2>1, <3>1, <3>2 DEF ResultIsGenuine, Stored
  <2>2. CASE p # r
    BY <2>2 DEF ReplayIsGenuine
  <2> QED
    BY <2>1, <2>2
<1>6. LateNeverRuns'
  BY ConstantsAssumption, AbsentAssumption DEF LateNeverRuns, LateSeesResult, RunsOnce
<1>7. OnlyMissedLead'
  BY ConstantsAssumption, AbsentAssumption DEF OnlyMissedLead, Acknowledged, Owns
<1>8. AcknowledgedIsReplayed'
  BY ConstantsAssumption, AbsentAssumption
     DEF AcknowledgedIsReplayed, Acknowledged, OnlyMissedLead, Record
<1> QED
  BY <1>1, <1>2, <1>3, <1>4, <1>5, <1>6, <1>7, <1>8

\* SETNX: the winner leads and owns the lock.
LEMMA SetNXStep ==
  ASSUME IInv, TypeOK', NEW r \in Requests, SetNX(r)
  PROVE  IInv'
<1> USE DEF IInv, TypeOK, Goto, Looping, Leading, Final, SetNX
<1>1. RunsOnce'
  BY ConstantsAssumption, AbsentAssumption DEF RunsOnce
<1>2. ResultIsGenuine'
  BY ConstantsAssumption, AbsentAssumption DEF ResultIsGenuine, RunsOnce
<1>3. LateSeesResult'
  BY ConstantsAssumption, AbsentAssumption DEF LateSeesResult
<1>4. LeaderHoldsLock'
  BY ConstantsAssumption, AbsentAssumption DEF LeaderHoldsLock, Owns
<1>5. ReplayIsGenuine'
  BY ConstantsAssumption, AbsentAssumption DEF ReplayIsGenuine, ResultIsGenuine, RunsOnce
<1>6. LateNeverRuns'
  BY ConstantsAssumption, AbsentAssumption DEF LateNeverRuns, LateSeesResult, RunsOnce
<1>7. OnlyMissedLead'
  BY ConstantsAssumption, AbsentAssumption DEF OnlyMissedLead, Acknowledged, Owns
<1>8. AcknowledgedIsReplayed'
  BY ConstantsAssumption, AbsentAssumption
     DEF AcknowledgedIsReplayed, Acknowledged, OnlyMissedLead, Record
<1> QED
  BY <1>1, <1>2, <1>3, <1>4, <1>5, <1>6, <1>7, <1>8

\* GET of the lock entry sends the request around the loop or away.
LEMMA GetLockStep ==
  ASSUME IInv, TypeOK', NEW r \in Requests, GetLock(r)
  PROVE  IInv'
<1> USE DEF IInv, TypeOK, Goto, Looping, Leading, Final, GetLock
<1>1. RunsOnce'
  BY ConstantsAssumption, AbsentAssumption DEF RunsOnce
<1>2. ResultIsGenuine'
  BY ConstantsAssumption, AbsentAssumption DEF ResultIsGenuine, RunsOnce
<1>3. LateSeesResult'
  BY ConstantsAssumption, AbsentAssumption DEF LateSeesResult
<1>4. LeaderHoldsLock'
  BY ConstantsAssumption, AbsentAssumption DEF LeaderHoldsLock, Owns
<1>5. ReplayIsGenuine'
  BY ConstantsAssumption, AbsentAssumption DEF ReplayIsGenuine, ResultIsGenuine, RunsOnce
<1>6. LateNeverRuns'
  BY ConstantsAssumption, AbsentAssumption DEF LateNeverRuns, LateSeesResult, RunsOnce
<1>7. OnlyMissedLead'
  BY ConstantsAssumption, AbsentAssumption DEF OnlyMissedLead, Acknowledged, Owns
<1>8. AcknowledgedIsReplayed'
  BY ConstantsAssumption, AbsentAssumption
     DEF AcknowledgedIsReplayed, Acknowledged, OnlyMissedLead, Record
<1> QED
  BY <1>1, <1>2, <1>3, <1>4, <1>5, <1>6, <1>7, <1>8

\* The handler runs once per request.
LEMMA RunStep ==
  ASSUME IInv, TypeOK', NEW r \in Requests, NEW s \in Status, RunHandler(r, s)
  PROVE  IInv'
<1> USE DEF IInv, TypeOK, Goto, Looping, Leading, Final, RunHandler
<1>1. RunsOnce'
  BY ConstantsAssumption, AbsentAssumption DEF RunsOnce
<1>2. ResultIsGenuine'
  <2> SUFFICES ASSUME result # NoResult
               PROVE  \E q \in Requests : fp[q] = result.fingerprint /\ status'[q] = result.status
    BY DEF ResultIsGenuine
  <2>1. PICK q \in Requests : fp[q] = result.fingerprint /\ status[q] = result.status
    BY DEF ResultIsGenuine
  <2>2. status[q] # None
    BY <2>1, AbsentAssumption DEF ResultRecord, Stored
  <2>3. status[r] = None
    BY DEF RunsOnce
  <2> QED
    BY <2>1, <2>2, <2>3
<1>3. LateSeesResult'
  BY ConstantsAssumption, AbsentAssumption DEF LateSeesResult
<1>4. LeaderHoldsLock'
  BY ConstantsAssumption, AbsentAssumption DEF LeaderHoldsLock, Owns
<1>5. ReplayIsGenuine'
  <2> SUFFICES ASSUME NEW p \in Requests, pc[p] = "replayed"
               PROVE  \E q \in Requests :
                        fp[q] = fp[p] /\ status'[q] = replay[p] /\ status'[q] \in Stored
    BY DEF ReplayIsGenuine
  <2>1. PICK q \in Requests : fp[q] = fp[p] /\ status[q] = replay[p] /\ status[q] \in Stored
    BY DEF ReplayIsGenuine
  <2>2. status[q] # None
    BY <2>1, AbsentAssumption DEF Stored
  <2>3. status[r] = None
    BY DEF RunsOnce
  <2> QED
    BY <2>1, <2>2, <2>3
<1>6. LateNeverRuns'
  BY ConstantsAssumption, AbsentAssumption DEF LateNeverRuns, LateSeesResult, RunsOnce
<1>7. OnlyMissedLead'
  BY ConstantsAssumption, AbsentAssumption DEF OnlyMissedLead, Acknowledged, Owns
<1>8. AcknowledgedIsReplayed'
  <2> SUFFICES ASSUME NEW p \in Requests, Acknowledged(p)'
               PROVE  \E q \in {p} \cup missed[p] : result = Record(q)'
    BY DEF AcknowledgedIsReplayed
  <2>1. p # r /\ Acknowledged(p)
    BY DEF Acknowledged
  <2>2. PICK q \in {p} \cup missed[p] : result = Record(q)
    BY <2>1 DEF AcknowledgedIsReplayed
  <2>3. q \in Requests /\ status[q] # None
    <3>1. result \in ResultRecord
      BY <2>1 DEF OnlyMissedLead
    <3>2. status[q] \in Stored
      BY <2>2, <3>1 DEF ResultRecord, Record
    <3> QED
      BY <3>2, AbsentAssumption DEF Stored
  <2>4. q # r
    BY <2>3 DEF RunsOnce
  <2> QED
    BY <2>2, <2>3, <2>4 DEF Record
<1> QED
  BY <1>1, <1>2, <1>3, <1>4, <1>5, <1>6, <1>7, <1>8

\* The scripts remove the lock only from its owner, and store what it answered.
LEMMA FinishStep ==
  ASSUME IInv, TypeOK', NEW r \in Requests, Finish(r)
  PROVE  IInv'
<1> USE DEF IInv, TypeOK, Goto, Looping, Leading, Final, Finish, NoteMissed, CommitScript, ReleaseScript,
             Record, Owns
<1>1. RunsOnce'
  BY ConstantsAssumption, AbsentAssumption DEF RunsOnce
<1>2. ResultIsGenuine'
  BY ConstantsAssumption, AbsentAssumption DEF ResultIsGenuine, RunsOnce
<1>a. status[r] # "failed" => [fingerprint |-> fp[r], status |-> status[r]] # NoResult
  <2>1. status[r] # "failed" => [fingerprint |-> fp[r], status |-> status[r]] \in ResultRecord
    BY DEF RunsOnce, ResultRecord, Stored
  <2> QED
    BY <2>1, AbsentAssumption
<1>b. result # NoResult => result' # NoResult
  BY <1>a
<1>3. LateSeesResult'
  BY <1>b DEF LateSeesResult
<1>4. LeaderHoldsLock'
  BY ConstantsAssumption, AbsentAssumption DEF LeaderHoldsLock, Owns
<1>5. ReplayIsGenuine'
  BY ConstantsAssumption, AbsentAssumption DEF ReplayIsGenuine, ResultIsGenuine, RunsOnce
<1>6. LateNeverRuns'
  BY ConstantsAssumption, AbsentAssumption DEF LateNeverRuns, LateSeesResult, RunsOnce
<1>7. OnlyMissedLead'
  <2> SUFFICES ASSUME NEW p \in Requests, Acknowledged(p)'
               PROVE  /\ result' # NoResult
                      /\ \A q \in Requests : pc'[q] = "setnx" \/ Owns(q)' => q \in missed'[p]
    BY DEF OnlyMissedLead
  <2>1. CASE p = r
    <3>1. Owns(r) /\ status[r] = "done"
      BY <2>1 DEF LeaderHoldsLock, Acknowledged
    <3>2. lock' = NoLock /\ result' # NoResult
      BY <3>1, <1>a
    <3>3. missed'[r] = {q \in Requests : pc[q] = "setnx"}
      BY <3>1
    <3> QED
      BY <2>1, <3>2, <3>3
  <2>2. CASE p # r
    <3>1. Acknowledged(p) /\ missed'[p] = missed[p]
      BY <2>2 DEF Acknowledged
    <3> QED
      BY <2>2, <3>1, <1>b DEF OnlyMissedLead
  <2> QED
    BY <2>1, <2>2
<1>8. AcknowledgedIsReplayed'
  <2> SUFFICES ASSUME NEW p \in Requests, Acknowledged(p)'
               PROVE  \E q \in {p} \cup missed'[p] : result' = Record(q)
    BY DEF AcknowledgedIsReplayed
  <2>1. CASE p = r
    <3>1. Owns(r) /\ status[r] = "done"
      BY <2>1 DEF LeaderHoldsLock, Acknowledged
    <3> QED
      BY <2>1, <3>1
  <2>2. CASE p # r
    <3>1. Acknowledged(p) /\ missed'[p] = missed[p]
      BY <2>2 DEF Acknowledged
    <3>2. CASE result' = result
      BY <3>1, <3>2 DEF AcknowledgedIsReplayed
    <3>3. CASE result' # result
      <4>1. Owns(r) /\ result' = Record(r)
        BY <3>3
      <4>2. r \in missed[p]
        BY <3>1, <4>1 DEF OnlyMissedLead
      <4> QED
        BY <3>1, <4>1, <4>2
    <3> QED
      BY <3>2, <3>3
  <2> QED
    BY <2>1, <2>2
<1> QED
  BY <1>1, <1>2, <1>3, <1>4, <1>5, <1>6, <1>7, <1>8

\* A fault ends a request and touches no other request's lock.
LEMMA FaultStep ==
  ASSUME IInv, TypeOK', NEW r \in Requests, Fault(r)
  PROVE  IInv'
<1> USE DEF IInv, TypeOK, Goto, Looping, Leading, Final, Fault, RedisFails, FinishFails, Cancel, Crash, Owns
<1>1. RunsOnce'
  BY ConstantsAssumption, AbsentAssumption DEF RunsOnce
<1>2. ResultIsGenuine'
  BY ConstantsAssumption, AbsentAssumption DEF ResultIsGenuine, RunsOnce
<1>3. LateSeesResult'
  BY ConstantsAssumption, AbsentAssumption DEF LateSeesResult
<1>4. LeaderHoldsLock'
  BY ConstantsAssumption, AbsentAssumption DEF LeaderHoldsLock, Owns
<1>5. ReplayIsGenuine'
  BY ConstantsAssumption, AbsentAssumption DEF ReplayIsGenuine, ResultIsGenuine, RunsOnce
<1>6. LateNeverRuns'
  BY ConstantsAssumption, AbsentAssumption DEF LateNeverRuns, LateSeesResult, RunsOnce
<1>7. OnlyMissedLead'
  BY ConstantsAssumption, AbsentAssumption DEF OnlyMissedLead, Acknowledged, Owns
<1>8. AcknowledgedIsReplayed'
  BY ConstantsAssumption, AbsentAssumption
     DEF AcknowledgedIsReplayed, Acknowledged, OnlyMissedLead, Record
<1> QED
  BY <1>1, <1>2, <1>3, <1>4, <1>5, <1>6, <1>7, <1>8

-----------------------------------------------------------------------------
\* A lock that expires under its owner makes the owner lapsed.
LEMMA ExpiryStep ==
  ASSUME IInv, TypeOK', LockExpires
  PROVE  IInv'
<1> USE DEF IInv, TypeOK, LockExpires
<1>1. RunsOnce' /\ ResultIsGenuine' /\ LateSeesResult'
  BY DEF RunsOnce, ResultIsGenuine, LateSeesResult
<1>2. LeaderHoldsLock'
  BY DEF LeaderHoldsLock, Owns
<1>3. ReplayIsGenuine' /\ LateNeverRuns'
  BY DEF ReplayIsGenuine, LateNeverRuns
<1>4. OnlyMissedLead' /\ AcknowledgedIsReplayed'
  BY DEF OnlyMissedLead, AcknowledgedIsReplayed, Acknowledged, Owns, Record
<1> QED
  BY <1>1, <1>2, <1>3, <1>4

\* Every step of the system preserves the strengthened invariant.
LEMMA NextIInv == IInv /\ [Next]_vars => IInv'
<1> SUFFICES ASSUME IInv, [Next]_vars PROVE IInv'
  OBVIOUS
<1>1. TypeOK'
  BY TypeStep
<1>2. ASSUME NEW r \in Requests, Arrive(r) PROVE IInv'
  BY <1>1, <1>2, ArriveStep
<1>3. ASSUME NEW r \in Requests, Serve(r) PROVE IInv'
  BY <1>1, <1>3, GetResultStep, SetNXStep, GetLockStep, RunStep, FinishStep DEF Serve
<1>4. ASSUME NEW r \in Requests, Fault(r) PROVE IInv'
  BY <1>1, <1>4, FaultStep
<1>5. CASE LockExpires
  BY <1>1, <1>5, ExpiryStep
<1>6. CASE UNCHANGED vars
  BY <1>6 DEF vars, IInv, TypeOK, RunsOnce, ResultIsGenuine, LateSeesResult,
              LeaderHoldsLock, Owns, ReplayIsGenuine, LateNeverRuns, OnlyMissedLead,
              AcknowledgedIsReplayed, Acknowledged, Record
<1> QED
  BY <1>2, <1>3, <1>4, <1>5, <1>6 DEF Next

\* The strengthened invariant holds in every reachable state.
THEOREM Invariance == Spec => []IInv
BY InitIInv, NextIInv, PTL DEF Spec

\* The variables keep their types, whatever fails.
THEOREM TypeCorrect == Spec => []TypeOK
<1>1. IInv => TypeOK
  BY DEF IInv
<1> QED
  BY <1>1, Invariance, PTL

\* Two handler runs for one key overlap only if the lock's 60 seconds ended
\* under one of them: the scripts are owner-scoped.
THEOREM LeaderExclusion == Spec => []LeaderHoldsLock
<1>1. IInv => LeaderHoldsLock
  BY DEF IInv
<1> QED
  BY <1>1, Invariance, PTL

\* A replayed response is one the handler gave to an equivalent request, and
\* not a 5xx (what commit stores and GET compares).
THEOREM ReplaysAreGenuine == Spec => []ReplayIsGenuine
<1>1. IInv => ReplayIsGenuine
  BY DEF IInv
<1> QED
  BY <1>1, Invariance, PTL

\* A retry that starts after the first answer was recorded is never executed,
\* whatever fails.
THEOREM LateRetriesNeverRun == Spec => []LateNeverRuns
<1>1. IInv => LateNeverRuns
  BY DEF IInv
<1> QED
  BY <1>1, Invariance, PTL

\* The record of an acknowledged mutation is only ever replaced by a request
\* that had read no record before it was stored: acquireRedisIdempotency does
\* not read again once it has the lock.
THEOREM AcknowledgedReplayable == Spec => []AcknowledgedIsReplayed
<1>1. IInv => AcknowledgedIsReplayed
  BY DEF IInv
<1> QED
  BY <1>1, Invariance, PTL
=============================================================================
