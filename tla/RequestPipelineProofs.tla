----------------------- MODULE RequestPipelineProofs -----------------------
(***************************************************************************)
(* Theorems about MemoryIdempotency and RequestPipeline, for any number of *)
(* requests, keys and fingerprints and any TTL: an entry stays until its   *)
(* record expires, executions of a key stay apart, the adapter keeps the   *)
(* abstract promise, and all that remains true behind the rate limiter.    *)
(***************************************************************************)
EXTENDS RequestPipeline, FiniteSetTheorems, TLAPS

\* An empty map satisfies the invariant.
LEMMA InitIInv == Init => IInv
<1> SUFFICES ASSUME Init PROVE IInv
  OBVIOUS
<1> USE DEF Init, Asked, Leading, Final
<1>1. TypeOK
  BY ConstantsAssumption, NoneAssumption DEF TypeOK
<1>2. EntryHasItsKey /\ StampsArePast /\ KeptUntilExpiry
  BY <1>1 DEF EntryHasItsKey, StampsArePast, KeptUntilExpiry, Leaders, TypeOK
<1>3. StepsInOrder
  BY <1>1 DEF StepsInOrder, TypeOK
<1> QED
  BY <1>1, <1>2, <1>3 DEF IInv

\* What pruneExpiredLocked leaves, and what it takes.
LEMMA PrunedFacts ==
  ASSUME IInv, NEW k \in Keys
  PROVE  /\ Pruned(now)[k] \in Requests \cup {NoEntry}
         /\ Pruned(now)[k] # NoEntry => Pruned(now)[k] = entries[k]
         /\ Pruned(now)[k] = NoEntry /\ entries[k] # NoEntry =>
               Recorded(entries[k]) /\ ExpiresAt(entries[k]) <= now
<1> QED
  BY DEF Pruned, IInv, TypeOK

\* Every step keeps the types.
LEMMA TypeStep == IInv /\ [Next]_vars => TypeOK'
<1> SUFFICES ASSUME IInv, [Next]_vars PROVE TypeOK'
  OBVIOUS
<1> USE DEF IInv, TypeOK, Goto, Leading, Final
<1>1. CASE UNCHANGED vars
  BY <1>1 DEF vars
<1>2. CASE Tick /\ UNCHANGED <<key, fp, entries, pc, stamp, status, leader>>
  BY <1>2 DEF Tick
<1>3. ASSUME NEW r \in Requests, Lookup(r) PROVE TypeOK'
  <2>1. key[r] \in Keys
    BY <1>3 DEF Lookup
  <2>2. entries' \in [Keys -> Requests \cup {NoEntry}]
    BY <1>3, <2>1, PrunedFacts DEF Lookup, Lead, Wait, Refuse, Pruned
  <2>3. Pruned(now)[key[r]] \in Requests \cup {NoEntry}
    BY <2>1, PrunedFacts
  <2> HIDE DEF IInv
  <2> QED
    BY <1>3, <2>1, <2>2, <2>3 DEF Lookup, Lead, Wait, Refuse, IInv
<1>4. ASSUME NEW r \in Requests, Coordinate(r) PROVE TypeOK'
  BY <1>4 DEF Coordinate, Record, Close, Replay, StepsInOrder
<1>5. ASSUME NEW r \in Requests, Handle(r) PROVE TypeOK'
  BY <1>5 DEF Handle, Panic, Execute
<1> QED
  BY <1>1, <1>2, <1>3, <1>4, <1>5 DEF Next

\* A request makes an entry, joins one, or is refused for one.
LEMMA LookupStep ==
  ASSUME IInv, TypeOK', NEW r \in Requests, Lookup(r)
  PROVE  IInv'
<1>1. key[r] \in Keys /\ r # NoEntry /\ pc[r] = "new" /\ key[r] # NoKey
  BY ConstantsAssumption DEF Lookup, IInv, TypeOK
<1>2. UNCHANGED <<now, key, fp, status>>
  BY DEF Lookup
<1>3. CASE Lead(r)
  <2>1. /\ entries' = [Pruned(now) EXCEPT ![key[r]] = r]
        /\ stamp' = [stamp EXCEPT ![r] = now]
        /\ pc' = [pc EXCEPT ![r] = "run"]
        /\ leader' = leader
        /\ Pruned(now)[key[r]] = NoEntry
    BY <1>3 DEF Lead, Goto
  <2>2. Leaders' = Leaders \cup {r}
    BY <1>1, <1>2, <2>1 DEF Leaders, Leading, IInv, TypeOK
  <2>3. EntryHasItsKey'
    BY <1>1, <1>2, <2>1, <2>2, PrunedFacts DEF EntryHasItsKey, IInv, TypeOK, Pruned
  <2>4. StampsArePast'
    BY <1>2, <2>1 DEF StampsArePast, IInv, TypeOK
  <2>5. StepsInOrder'
    BY <1>1, <1>2, <2>1, <2>2 DEF StepsInOrder, IInv, TypeOK
  <2>6. KeptUntilExpiry'
    <3> SUFFICES ASSUME NEW q \in Leaders'
                 PROVE  \/ entries'[key[q]] = q
                        \/ Recorded(q)' /\ (status[q] = "failed" \/ now >= ExpiresAt(q)')
      BY <1>2 DEF KeptUntilExpiry
    <3>1. CASE q = r
      BY <1>1, <2>1, <3>1 DEF Pruned
    <3>2. CASE q # r /\ key[q] = key[r]
      <4>1. q \in Leaders /\ q \in Requests /\ pc'[q] = pc[q] /\ stamp'[q] = stamp[q]
        BY <2>1, <2>2, <3>2 DEF Leaders, IInv, TypeOK
      <4>2. entries[key[q]] # q \/ (Recorded(q) /\ ExpiresAt(q) <= now)
        BY <1>1, <2>1, <3>2, <4>1, PrunedFacts, ConstantsAssumption
      <4> QED
        BY <4>1, <4>2, ConstantsAssumption
           DEF KeptUntilExpiry, IInv, TypeOK, Recorded, ExpiresAt
    <3>3. CASE q # r /\ key[q] # key[r]
      <4>1. q \in Leaders /\ q \in Requests /\ pc'[q] = pc[q] /\ stamp'[q] = stamp[q] /\ key[q] \in Keys
        BY <2>1, <2>2, <3>3 DEF Leaders, IInv, TypeOK
      <4>2. entries'[key[q]] = Pruned(now)[key[q]]
        BY <1>1, <2>1, <3>3, <4>1 DEF Pruned
      <4>3. entries'[key[q]] = q \/ entries[key[q]] # q \/ (Recorded(q) /\ ExpiresAt(q) <= now)
        BY <4>1, <4>2, PrunedFacts, ConstantsAssumption
      <4> QED
        BY <4>1, <4>3, ConstantsAssumption
           DEF KeptUntilExpiry, IInv, TypeOK, Recorded, ExpiresAt
    <3> QED
      BY <3>1, <3>2, <3>3
  <2> QED
    BY <2>3, <2>4, <2>5, <2>6 DEF IInv
<1>4. CASE Wait(r) \/ Refuse(r)
  <2>1. /\ entries' = Pruned(now) /\ stamp' = stamp
        /\ pc' \in {[pc EXCEPT ![r] = "waiting"], [pc EXCEPT ![r] = "conflict"]}
    BY <1>4 DEF Wait, Refuse, Goto
  <2>2. Leaders' = Leaders
    BY <1>1, <1>2, <2>1 DEF Leaders, Leading, IInv, TypeOK
  <2>3. EntryHasItsKey'
    BY <1>2, <2>1, <2>2, PrunedFacts DEF EntryHasItsKey, IInv
  <2>4. StampsArePast'
    BY <1>2, <2>1 DEF StampsArePast, IInv
  <2>5. StepsInOrder'
    <3>1. CASE Wait(r)
      <4>1. Pruned(now)[key[r]] \in Leaders /\ key[Pruned(now)[key[r]]] = key[r]
            /\ fp[Pruned(now)[key[r]]] = fp[r]
        BY <1>1, <3>1, PrunedFacts DEF Wait, EntryHasItsKey, IInv
      <4>2. leader' = [leader EXCEPT ![r] = Pruned(now)[key[r]]] /\ pc' = [pc EXCEPT ![r] = "waiting"]
        BY <3>1 DEF Wait, Goto
      <4> QED
        BY <1>1, <1>2, <2>2, <4>1, <4>2 DEF StepsInOrder, IInv, TypeOK
    <3>2. CASE Refuse(r)
      <4>1. leader' = leader /\ pc' = [pc EXCEPT ![r] = "conflict"]
        BY <3>2 DEF Refuse, Goto
      <4> QED
        BY <1>1, <1>2, <2>2, <4>1 DEF StepsInOrder, IInv, TypeOK
    <3> QED
      BY <1>4, <3>1, <3>2
  <2>6. KeptUntilExpiry'
    <3> SUFFICES ASSUME NEW q \in Leaders
                 PROVE  \/ entries'[key[q]] = q
                        \/ Recorded(q)' /\ (status[q] = "failed" \/ now >= ExpiresAt(q)')
      BY <1>2, <2>2 DEF KeptUntilExpiry
    <3>1. q \in Requests /\ q # r /\ key[q] \in Keys /\ pc'[q] = pc[q] /\ stamp'[q] = stamp[q]
      BY <1>1, <2>1 DEF Leaders, Leading, IInv, TypeOK
    <3>2. entries'[key[q]] = q \/ entries[key[q]] # q \/ (Recorded(q) /\ ExpiresAt(q) <= now)
      BY <2>1, <3>1, PrunedFacts, ConstantsAssumption
    <3> QED
      BY <3>1, <3>2, ConstantsAssumption
         DEF KeptUntilExpiry, IInv, TypeOK, Recorded, ExpiresAt
  <2> QED
    BY <2>3, <2>4, <2>5, <2>6 DEF IInv
<1> QED
  BY <1>3, <1>4 DEF Lookup

\* The leader stores or drops its entry, closes the channel; a waiter wakes.
LEMMA CoordinateStep ==
  ASSUME IInv, TypeOK', NEW r \in Requests, Coordinate(r)
  PROVE  IInv'
<1> USE DEF IInv, TypeOK, Goto, Leading
<1>1. CASE Record(r)
  <2> USE <1>1 DEF Record
  <2>1. Leaders' = Leaders /\ r \in Leaders /\ key[r] \in Keys
    BY DEF Leaders, StepsInOrder
  <2>2. EntryHasItsKey'
    BY <2>1 DEF EntryHasItsKey
  <2>3. StampsArePast' /\ StepsInOrder'
    BY <2>1 DEF StampsArePast, StepsInOrder
  <2>4. KeptUntilExpiry'
    BY <2>1 DEF KeptUntilExpiry, Leaders, Recorded, ExpiresAt
  <2> QED
    BY <2>2, <2>3, <2>4
<1>2. CASE Close(r) \/ Replay(r)
  <2> USE <1>2 DEF Close, Replay
  <2>1. Leaders' = Leaders
    BY DEF Leaders
  <2>2. EntryHasItsKey'
    BY <2>1 DEF EntryHasItsKey
  <2>3. StampsArePast' /\ StepsInOrder'
    BY <2>1 DEF StampsArePast, StepsInOrder
  <2>4. KeptUntilExpiry'
    BY <2>1 DEF KeptUntilExpiry, Leaders, Recorded, ExpiresAt
  <2> QED
    BY <2>2, <2>3, <2>4
<1> QED
  BY <1>1, <1>2 DEF Coordinate

\* The handler answers or panics.
LEMMA HandleStep ==
  ASSUME IInv, TypeOK', NEW r \in Requests, Handle(r)
  PROVE  IInv'
<1> USE DEF IInv, TypeOK, Goto, Leading, Handle, Execute, Panic
<1>1. Leaders' = Leaders
  BY DEF Leaders
<1>2. EntryHasItsKey'
  BY <1>1 DEF EntryHasItsKey
<1>3. StampsArePast' /\ StepsInOrder'
  BY <1>1, NoneAssumption DEF StampsArePast, StepsInOrder
<1>4. KeptUntilExpiry'
  BY <1>1 DEF KeptUntilExpiry, Leaders, Recorded, ExpiresAt
<1> QED
  BY <1>2, <1>3, <1>4

\* Time alone drops no entry.
LEMMA TickStep ==
  ASSUME IInv, TypeOK', Tick, UNCHANGED <<key, fp, entries, pc, stamp, status, leader>>
  PROVE  IInv'
<1> USE DEF IInv, TypeOK, Tick
<1>1. Leaders' = Leaders
  BY DEF Leaders
<1>2. EntryHasItsKey' /\ StampsArePast' /\ StepsInOrder'
  BY <1>1 DEF EntryHasItsKey, StampsArePast, StepsInOrder
<1>3. KeptUntilExpiry'
  BY <1>1, ConstantsAssumption DEF KeptUntilExpiry, Leaders, Recorded, ExpiresAt
<1> QED
  BY <1>2, <1>3

\* withIdempotency: the strengthened invariant is inductive.
THEOREM Invariance == Spec => []IInv
<1>1. IInv /\ [Next]_vars => IInv'
  <2> SUFFICES ASSUME IInv, [Next]_vars PROVE IInv'
    OBVIOUS
  <2>1. TypeOK'
    BY TypeStep
  <2>2. CASE UNCHANGED vars
    BY <2>2 DEF vars, IInv, TypeOK, EntryHasItsKey, StampsArePast, StepsInOrder,
                KeptUntilExpiry, Leaders, Recorded, ExpiresAt
  <2> QED
    BY <2>1, <2>2, LookupStep, CoordinateStep, HandleStep, TickStep DEF Next
<1> QED
  BY InitIInv, <1>1, PTL DEF Spec

\* An execution starts only where the pruned map has no entry.
LEMMA OnlyLeadStarts ==
  ASSUME IInv, [Next]_vars, NEW r \in Leaders', r \notin Leaders
  PROVE  r \in Requests /\ Lookup(r) /\ Lead(r)
<1> USE DEF IInv, TypeOK, Leaders, Leading, Final, Goto
<1>1. CASE UNCHANGED vars
  BY <1>1 DEF vars
<1>2. CASE Tick /\ UNCHANGED <<key, fp, entries, pc, stamp, status, leader>>
  BY <1>2
<1>3. ASSUME NEW q \in Requests, Lookup(q) PROVE q = r /\ Lead(r)
  BY <1>3 DEF Lookup, Lead, Wait, Refuse
<1>4. ASSUME NEW q \in Requests, Coordinate(q) PROVE FALSE
  BY <1>4 DEF Coordinate, Record, Close, Replay, StepsInOrder
<1>5. ASSUME NEW q \in Requests, Handle(q) PROVE FALSE
  BY <1>5 DEF Handle, Panic, Execute
<1>6. r \in Requests
  OBVIOUS
<1> QED
  BY <1>1, <1>2, <1>3, <1>4, <1>5, <1>6 DEF Next

\* withIdempotency: a key is executed again only after a server error, or
\* when its record has expired.
THEOREM ExecutionsApart == Spec => RunsApart
<1>1. IInv /\ [Next]_vars =>
        [\A r \in Leaders' \ Leaders, p \in Leaders :
           key[p] = key[r] => Recorded(p) /\ (status[p] = "failed" \/ now >= ExpiresAt(p))]_vars
  <2> SUFFICES ASSUME IInv, [Next]_vars, NEW r \in Leaders', r \notin Leaders,
                      NEW p \in Leaders, key[p] = key[r]
               PROVE  Recorded(p) /\ (status[p] = "failed" \/ now >= ExpiresAt(p))
    OBVIOUS
  <2>1. r \in Requests /\ key[r] \in Keys /\ Pruned(now)[key[r]] = NoEntry
    BY OnlyLeadStarts DEF Lookup, Lead, IInv, TypeOK
  <2>2. CASE entries[key[p]] = p
    <3>1. p # NoEntry
      BY ConstantsAssumption DEF Leaders
    <3>2. Recorded(p) /\ ExpiresAt(p) <= now
      BY <2>1, <2>2, <3>1, PrunedFacts
    <3>3. now \in Nat /\ ExpiresAt(p) \in Nat
      BY ConstantsAssumption DEF IInv, TypeOK, ExpiresAt, Leaders
    <3> QED
      BY <3>2, <3>3
  <2>3. CASE entries[key[p]] # p
    BY <2>3 DEF KeptUntilExpiry, IInv
  <2> QED
    BY <2>2, <2>3
<1> QED
  BY <1>1, Invariance, PTL DEF Spec, RunsApart

-----------------------------------------------------------------------------
PromiseStep == [Promise!Next]_(Promise!vars)

\* The keys that a look at the map drops.
Dropped == {k \in Keys : entries[k] # NoEntry /\ Pruned(now)[k] = NoEntry}

\* What pruning drops is known, and so may be forgotten.
LEMMA PruningForgets ==
  ASSUME IInv
  PROVE  Dropped \in SUBSET Promise!Kept /\ Promise!After(Dropped) = Pruned(now)
<1>1. ASSUME NEW k \in Dropped PROVE k \in Promise!Kept
  <2>1. /\ k \in Keys /\ entries[k] # NoEntry /\ entries[k] \in Requests
        /\ Recorded(entries[k])
    BY PrunedFacts DEF Dropped, IInv, TypeOK
  <2>2. key[entries[k]] # NoKey /\ status[entries[k]] # None
    BY <2>1 DEF IInv, EntryHasItsKey, StepsInOrder, Leaders, Recorded
  <2> QED
    BY <2>1, <2>2 DEF Promise!Kept, Outcome
<1>2. ASSUME NEW k \in Keys PROVE Promise!After(Dropped)[k] = Pruned(now)[k]
  BY PrunedFacts DEF Promise!After, Dropped, Pruned
<1>3. Promise!After(Dropped) = Pruned(now)
  BY <1>2 DEF Promise!After, Pruned
<1> QED
  BY <1>1, <1>3

\* A look at the map begins an execution, turns a request away, or only
\* forgets what has expired.
LEMMA LookupPromise ==
  ASSUME IInv, NEW r \in Requests, Lookup(r)
  PROVE  PromiseStep
<1>1. key[r] \in Keys /\ pc[r] = "new" /\ key[r] # NoKey
  BY DEF Lookup, IInv, TypeOK
<1>2. UNCHANGED <<key, fp, status>>
  BY DEF Lookup
<1>3. Outcome' = Outcome
  <2>1. \A q \in Requests : Recorded(q)' <=> Recorded(q)
    BY <1>1 DEF Lookup, Lead, Wait, Refuse, Goto, Recorded, IInv, TypeOK
  <2> QED
    BY <1>2, <2>1 DEF Outcome
<1>4. Outcome[r] = None /\ Told[r] = None
  BY <1>1 DEF Outcome, Told, Recorded
<1>5. CASE Lead(r)
  <2>1. Told' = Told
    BY <1>1, <1>2, <1>5 DEF Lead, Goto, Told, IInv, TypeOK
  <2>2. Promise!Begin(r)
    BY <1>1, <1>2, <1>3, <1>4, <1>5, <2>1, PruningForgets DEF Lead, Promise!Begin
  <2> QED
    BY <2>2 DEF PromiseStep, Promise!Next
<1>6. CASE Wait(r)
  <2>1. Told' = Told
    BY <1>1, <1>2, <1>6 DEF Wait, Goto, Told, IInv, TypeOK
  <2>2. Promise!Forget
    BY <1>2, <1>3, <1>6, <2>1, PruningForgets DEF Wait, Promise!Forget
  <2> QED
    BY <2>2 DEF PromiseStep, Promise!Next
<1>7. CASE Refuse(r)
  <2>1. Told' = [Told EXCEPT ![r] = Conflict]
    BY <1>1, <1>2, <1>7 DEF Refuse, Goto, Told, IInv, TypeOK
  <2>2. Promise!Reject(r)
    BY <1>1, <1>2, <1>3, <1>4, <1>7, <2>1, PruningForgets DEF Refuse, Promise!Reject
  <2> QED
    BY <2>2 DEF PromiseStep, Promise!Next
<1> QED
  BY <1>5, <1>6, <1>7 DEF Lookup

\* The leader's record ends its execution; a closed channel answers.
LEMMA CoordinatePromise ==
  ASSUME IInv, NEW r \in Requests, Coordinate(r)
  PROVE  PromiseStep
<1> USE DEF IInv, TypeOK, Goto
<1>1. CASE Record(r)
  <2> USE <1>1 DEF Record
  <2>1. key[r] \in Keys /\ status[r] \in Status /\ key[r] # NoKey
    BY DEF StepsInOrder
  <2>2. entries[key[r]] = r
    BY <2>1 DEF KeptUntilExpiry, Leaders, Leading, Recorded
  <2>3. Outcome[r] = None
    BY DEF Outcome, Recorded
  <2>4. Outcome' = [Outcome EXCEPT ![r] = status[r]]
    BY <2>1 DEF Outcome, Recorded
  <2>5. Told' = Told
    BY DEF Told
  <2>6. Promise!End(r, status[r])
    BY <2>1, <2>2, <2>3, <2>4, <2>5 DEF Promise!End
  <2>7. status[r] \in {"done", "limited", "failed"}
    BY <2>1 DEF Status
  <2> QED
    BY <2>6, <2>7 DEF PromiseStep, Promise!Next
<1>2. CASE Close(r)
  <2> USE <1>2 DEF Close
  <2>1. key[r] # NoKey /\ status[r] # None
    BY DEF StepsInOrder
  <2>2. Outcome' = Outcome /\ Outcome[r] # None
    BY <2>1 DEF Outcome, Recorded
  <2>3. Told[r] = None /\ Told' = [Told EXCEPT ![r] = r]
    BY <2>1 DEF Told
  <2>4. Promise!Reply(r, r)
    BY <2>2, <2>3 DEF Promise!Reply
  <2> QED
    BY <2>4 DEF PromiseStep, Promise!Next
<1>3. CASE Replay(r)
  <2> USE <1>3 DEF Replay
  <2>1. leader[r] \in Leaders /\ key[leader[r]] = key[r] /\ fp[leader[r]] = fp[r] /\ Ready(leader[r])
    BY DEF StepsInOrder
  <2>2. leader[r] \in Requests /\ key[leader[r]] # NoKey /\ status[leader[r]] # None
    BY <2>1 DEF StepsInOrder, Leaders, Ready
  <2>3. Outcome' = Outcome
    BY DEF Outcome, Recorded
  <2>4. Outcome[leader[r]] # None
    BY <2>1, <2>2 DEF Outcome, Recorded, Ready
  <2>5. Told[r] = None /\ Told' = [Told EXCEPT ![r] = leader[r]]
    BY DEF Told
  <2>6. Promise!Reply(r, leader[r])
    BY <2>1, <2>3, <2>4, <2>5 DEF Promise!Reply
  <2> QED
    BY <2>2, <2>6 DEF PromiseStep, Promise!Next
<1> QED
  BY <1>1, <1>2, <1>3 DEF Coordinate

\* The handler itself and the passing of time are not seen by the promise.
LEMMA HandlePromise ==
  ASSUME IInv, NEW r \in Requests, Handle(r)
  PROVE  PromiseStep
<1> USE DEF IInv, TypeOK, Goto, Handle, Panic, Execute
<1>1. Outcome' = Outcome
  BY DEF Outcome, Recorded
<1>2. Told' = Told
  BY DEF Told
<1>3. UNCHANGED <<key, fp, entries>>
  OBVIOUS
<1> QED
  BY <1>1, <1>2, <1>3 DEF PromiseStep, Promise!vars

\* withIdempotency keeps the promise of an idempotency key: its critical
\* sections and channels implement the abstract table of keys.
THEOREM Refinement == Spec => PromiseKept
<1>1. Init => Promise!Init
  BY DEF Init, Asked, Promise!Init, Outcome, Told, Recorded
<1>2. IInv /\ [Next]_vars => [Promise!Next]_(Promise!vars)
  <2> SUFFICES ASSUME IInv, [Next]_vars PROVE PromiseStep
    BY DEF PromiseStep
  <2>1. CASE UNCHANGED <<key, fp, entries, pc, status, leader>>
    BY <2>1 DEF PromiseStep, Promise!vars, Outcome, Told, Recorded
  <2> QED
    BY <2>1, LookupPromise, CoordinatePromise, HandlePromise DEF Next, vars
<1> QED
  BY <1>1, <1>2, Invariance, PTL DEF Spec, PromiseKept, Promise!Spec

-----------------------------------------------------------------------------
\* The parts of a rate limiter's counts are finite.
LEMMA CountsFinite ==
  ASSUME NEW S \in SUBSET Requests
  PROVE  IsFiniteSet(S) /\ Cardinality(S) \in Nat
BY LimitsAssumption, FS_Subset, FS_CardinalityType

LEMMA CountsGrow ==
  ASSUME NEW S \in SUBSET Requests, NEW T \in SUBSET S
  PROVE  Cardinality(T) <= Cardinality(S)
BY CountsFinite, FS_Subset

\* A limiter that nobody has asked satisfies the invariant.
LEMMA InitLimits == Init /\ LimitInit => LimitIInv
<1> SUFFICES ASSUME Init, LimitInit PROVE LimitIInv
  OBVIOUS
<1>1. LimitTypeOK
  BY DEF LimitInit, LimitTypeOK
<1>2. TimesInOrder
  BY LimitsAssumption DEF Init, LimitInit, TimesInOrder
<1>3. ASSUME NEW b \in Buckets
      PROVE  InWindow(b, {"admitted"}) = {} /\ InLast(b) = {} /\ windows[b].count = 0
  BY <1>3 DEF LimitInit, InWindow, InLast
<1>4. CountsAreTrue
  <2> SUFFICES ASSUME NEW b \in Buckets
               PROVE  /\ Cardinality(InWindow(b, {"admitted"})) <= windows[b].count
                      /\ Cardinality(InWindow(b, {"admitted"})) <= Limit(b)
                      /\ Cardinality(InLast(b)) <= Limit(b)
                      /\ windows[b].count <= Cardinality(InWindow(b, {"admitted", "open"}))
    BY DEF CountsAreTrue
  <2>1. Limit(b) \in Nat
    BY LimitsAssumption DEF Limit
  <2>2. Cardinality(InWindow(b, {"admitted", "open"})) \in Nat
    BY CountsFinite DEF InWindow
  <2> QED
    BY <1>3, <2>1, <2>2, FS_EmptySet
<1> QED
  BY <1>1, <1>2, <1>4 DEF LimitIInv

\* One request more is counted for its bucket, with verdict v.
CountStep(r, v) ==
    /\ verdict[r] = "none" /\ now' = now /\ UNCHANGED <<adapter, bucket>>
    /\ windows' = [windows EXCEPT ![bucket[r]] = Counted(bucket[r])]
    /\ verdict' = [verdict EXCEPT ![r] = v]
    /\ at' = IF v = "refused" THEN at ELSE [at EXCEPT ![r] = now]
    /\ v = "admitted" => Counted(bucket[r]).count <= Limit(bucket[r])
    /\ v = "refused" => Counted(bucket[r]).count > Limit(bucket[r])

\* What is counted for one bucket does not touch the others.
LEMMA OtherBuckets ==
  ASSUME LimitIInv, NEW r \in Requests, NEW v \in {"admitted", "refused", "open"},
         verdict[r] = "none", verdict' = [verdict EXCEPT ![r] = v],
         at' = IF v = "refused" THEN at ELSE [at EXCEPT ![r] = now], bucket' = bucket,
         NEW b \in Buckets, b # bucket[r], windows'[b] = windows[b]
  PROVE  /\ \A V \in SUBSET {"admitted", "open"} : InWindow(b, V)' = InWindow(b, V)
         /\ InLast(b)' = InLast(b)
BY DEF LimitIInv, LimitTypeOK, InWindow, InLast

\* In a window that is not over, the request joins those let through.
LEMMA LiveCount ==
  ASSUME LimitIInv, now \in Nat, NEW r \in Requests, NEW v \in {"admitted", "refused", "open"},
         CountStep(r, v), windows[bucket[r]].expires > now
  PROVE  LET b == bucket[r] IN
         /\ windows'[b].expires = windows[b].expires
         /\ windows'[b].count = windows[b].count + 1
         /\ InWindow(b, {"admitted"})' =
               IF v = "admitted" THEN InWindow(b, {"admitted"}) \cup {r} ELSE InWindow(b, {"admitted"})
         /\ InWindow(b, {"admitted", "open"})' =
               IF v = "refused" THEN InWindow(b, {"admitted", "open"})
                                ELSE InWindow(b, {"admitted", "open"}) \cup {r}
         /\ r \notin InWindow(b, {"admitted", "open"}) /\ r \notin InWindow(b, {"admitted"})
         /\ InLast(b)' = InLast(b)
<1> DEFINE b == bucket[r]
<1> USE DEF LimitIInv, LimitTypeOK
<1>1. b \in Buckets /\ windows[b].count \in Nat /\ windows[b].expires \in Nat
  OBVIOUS
<1>2. windows[b].expires <= now + Window
  BY <1>1 DEF TimesInOrder
<1>3. windows'[b] = [windows[b] EXCEPT !.count = @ + 1]
  BY <1>1 DEF CountStep, Counted
<1>4. windows'[b].expires = windows[b].expires /\ windows'[b].count = windows[b].count + 1
  BY <1>1, <1>3
<1>5. bucket' = bucket /\ verdict[r] = "none" /\ verdict' = [verdict EXCEPT ![r] = v]
      /\ at' = IF v = "refused" THEN at ELSE [at EXCEPT ![r] = now]
  BY DEF CountStep
<1>6. InWindow(b, {"admitted"})' =
        IF v = "admitted" THEN InWindow(b, {"admitted"}) \cup {r} ELSE InWindow(b, {"admitted"})
  BY <1>1, <1>2, <1>4, <1>5 DEF InWindow
<1>7. InWindow(b, {"admitted", "open"})' =
        IF v = "refused" THEN InWindow(b, {"admitted", "open"})
                         ELSE InWindow(b, {"admitted", "open"}) \cup {r}
  BY <1>1, <1>2, <1>4, <1>5 DEF InWindow
<1>8. r \notin InWindow(b, {"admitted", "open"}) /\ r \notin InWindow(b, {"admitted"})
  BY <1>5 DEF InWindow
<1>9. InLast(b)' = InLast(b)
  BY <1>1, <1>2, <1>4, <1>5, LimitsAssumption DEF InLast
<1> QED
  BY <1>4, <1>6, <1>7, <1>8, <1>9

\* A window that is over gives way to a new one, and becomes the last.
LEMMA NewCount ==
  ASSUME LimitIInv, now \in Nat, NEW r \in Requests, NEW v \in {"admitted", "refused", "open"},
         CountStep(r, v), ~(windows[bucket[r]].expires > now)
  PROVE  LET b == bucket[r] IN
         /\ windows'[b].expires = now + Window /\ windows'[b].count = 1
         /\ v # "refused"
         /\ InWindow(b, {"admitted"})' \subseteq {r}
         /\ r \in InWindow(b, {"admitted", "open"})'
         /\ InLast(b)' \subseteq InWindow(b, {"admitted"})
<1> DEFINE b == bucket[r]
<1> USE DEF LimitIInv, LimitTypeOK
<1>1. b \in Buckets /\ windows[b].count \in Nat /\ windows[b].expires \in Nat /\ windows[b].expires <= now
  OBVIOUS
<1>2. windows'[b] = [count |-> 1, expires |-> now + Window]
  BY <1>1 DEF CountStep, Counted
<1>3. windows'[b].expires = now + Window /\ windows'[b].count = 1
  BY <1>2
<1>4. v # "refused"
  BY <1>1, LimitsAssumption DEF CountStep, Counted, Limit
<1>5. bucket' = bucket /\ verdict[r] = "none" /\ verdict' = [verdict EXCEPT ![r] = v]
      /\ at' = [at EXCEPT ![r] = now]
  BY <1>4 DEF CountStep
<1>6. InWindow(b, {"admitted"})' \subseteq {r}
  <2> SUFFICES ASSUME NEW q \in Requests, q # r, bucket[q] = b, verdict[q] = "admitted",
                      now + Window <= at[q] + Window
               PROVE  FALSE
    BY <1>3, <1>5 DEF InWindow
  <2>1. at[q] < windows[b].expires
    BY DEF TimesInOrder
  <2> QED
    BY <1>1, <2>1, LimitsAssumption
<1>7. r \in InWindow(b, {"admitted", "open"})'
  <2>1. at'[r] = now /\ verdict'[r] \in {"admitted", "open"} /\ bucket'[r] = b
    BY <1>4, <1>5
  <2>2. windows'[b].expires <= at'[r] + Window
    BY <1>3, <2>1, LimitsAssumption
  <2> QED
    BY <2>1, <2>2 DEF InWindow
<1>8. InLast(b)' \subseteq InWindow(b, {"admitted"})
  <2> SUFFICES ASSUME NEW q \in Requests, q # r, bucket[q] = b, verdict[q] = "admitted",
                      now + Window <= at[q] + 2 * Window
               PROVE  windows[b].expires <= at[q] + Window
    BY <1>3, <1>5, LimitsAssumption DEF InLast, InWindow
  <2> QED
    BY <1>1, LimitsAssumption
<1> QED
  BY <1>3, <1>4, <1>6, <1>7, <1>8

\* Counting a request keeps the counts true.
LEMMA CountKeeps ==
  ASSUME LimitIInv, now \in Nat, NEW r \in Requests, NEW v \in {"admitted", "refused", "open"},
         CountStep(r, v)
  PROVE  LimitIInv'
<1> DEFINE b == bucket[r]
<1>1. /\ b \in Buckets /\ windows[b].count \in Nat /\ windows[b].expires \in Nat
      /\ Limit(b) \in Nat /\ Limit(b) >= 1
  BY LimitsAssumption DEF LimitIInv, LimitTypeOK, Limit
<1>2. /\ bucket' = bucket /\ adapter' = adapter /\ now' = now /\ verdict[r] = "none"
      /\ verdict' = [verdict EXCEPT ![r] = v]
      /\ at' = IF v = "refused" THEN at ELSE [at EXCEPT ![r] = now]
  BY DEF CountStep
<1>3. windows' = [windows EXCEPT ![b] = Counted(b)] /\ Counted(b) \in [count : Nat, expires : Nat]
  BY <1>1, LimitsAssumption DEF CountStep, Counted, LimitIInv, LimitTypeOK
<1>4. LimitTypeOK'
  BY <1>1, <1>2, <1>3 DEF LimitIInv, LimitTypeOK
<1>5. windows'[b].expires <= now + Window /\ windows'[b].expires >= windows[b].expires
      /\ now < windows'[b].expires
  <2>1. CASE windows[b].expires > now
    BY <1>1, <2>1, LiveCount DEF LimitIInv, TimesInOrder
  <2>2. CASE ~(windows[b].expires > now)
    BY <1>1, <2>2, NewCount, LimitsAssumption
  <2> QED
    BY <2>1, <2>2
<1>6. TimesInOrder'
  BY <1>1, <1>2, <1>3, <1>4, <1>5 DEF LimitIInv, LimitTypeOK, TimesInOrder
<1>7. CountsAreTrue'
  <2> SUFFICES ASSUME NEW c \in Buckets
               PROVE  /\ Cardinality(InWindow(c, {"admitted"})') <= windows'[c].count
                      /\ Cardinality(InWindow(c, {"admitted"})') <= Limit(c)
                      /\ Cardinality(InLast(c)') <= Limit(c)
                      /\ \/ windows'[c].count <= Cardinality(InWindow(c, {"admitted", "open"})')
                         \/ Limit(c) <= Cardinality(InWindow(c, {"admitted", "open"})')
    BY DEF CountsAreTrue
  <2>1. CASE c # b
    <3>1. windows'[c] = windows[c]
      BY <1>3, <2>1 DEF LimitIInv, LimitTypeOK
    <3>2. \A V \in SUBSET {"admitted", "open"} : InWindow(c, V)' = InWindow(c, V)
      BY <1>2, <2>1, <3>1, OtherBuckets
    <3>3. InLast(c)' = InLast(c)
      BY <1>2, <2>1, <3>1, OtherBuckets
    <3> QED
      BY <3>1, <3>2, <3>3 DEF LimitIInv, CountsAreTrue
  <2>2. CASE c = b /\ windows[b].expires > now
    <3> DEFINE A == InWindow(b, {"admitted"})
               O == InWindow(b, {"admitted", "open"})
    <3>0. /\ InWindow(c, {"admitted"})' = A' /\ InWindow(c, {"admitted", "open"})' = O'
          /\ InLast(c)' = InLast(b)'
      BY <1>2, <2>2 DEF InWindow, InLast
    <3>1. Cardinality(A) \in Nat /\ Cardinality(O) \in Nat
          /\ IsFiniteSet(A) /\ IsFiniteSet(O)
      BY CountsFinite DEF InWindow
    <3>2. r \notin A /\ r \notin O
      BY <2>2, LiveCount
    <3>3. Cardinality(A \cup {r}) = Cardinality(A) + 1 /\ Cardinality(O \cup {r}) = Cardinality(O) + 1
      BY <3>1, <3>2, FS_AddElement
    <3>4. /\ Cardinality(A) <= windows[b].count /\ Cardinality(A) <= Limit(b)
          /\ Cardinality(InLast(b)) <= Limit(b)
          /\ windows[b].count <= Cardinality(O) \/ Limit(b) <= Cardinality(O)
      BY <1>1 DEF LimitIInv, CountsAreTrue
    <3>5. windows'[b].count = windows[b].count + 1 /\ InLast(b)' = InLast(b)
      BY <2>2, LiveCount
    <3>6. windows'[b].count = Counted(b).count
      BY <1>1, <1>3 DEF LimitIInv, LimitTypeOK
    <3>7. CASE v = "admitted"
      <4>1. A' = A \cup {r} /\ O' = O \cup {r}
        BY <2>2, <3>7, LiveCount
      <4>2. windows[b].count + 1 <= Limit(b)
        BY <3>5, <3>6, <3>7 DEF CountStep
      <4>3. Cardinality(A') = Cardinality(A) + 1 /\ Cardinality(O') = Cardinality(O) + 1
        BY <3>3, <4>1
      <4> QED
        BY <1>1, <2>2, <3>0, <3>1, <3>4, <3>5, <4>2, <4>3
    <3>8. CASE v = "open"
      <4>1. A' = A /\ O' = O \cup {r}
        BY <2>2, <3>8, LiveCount
      <4>2. Cardinality(A') = Cardinality(A) /\ Cardinality(O') = Cardinality(O) + 1
        BY <3>3, <4>1
      <4> QED
        BY <1>1, <2>2, <3>0, <3>1, <3>4, <3>5, <4>2
    <3>9. CASE v = "refused"
      <4>1. A' = A /\ O' = O
        BY <2>2, <3>9, LiveCount
      <4>2. windows[b].count + 1 > Limit(b)
        BY <3>5, <3>6, <3>9 DEF CountStep
      <4> QED
        BY <1>1, <2>2, <3>0, <3>1, <3>4, <3>5, <4>1, <4>2
    <3> QED
      BY <3>7, <3>8, <3>9
  <2>3. CASE c = b /\ ~(windows[b].expires > now)
    <3> DEFINE A == InWindow(b, {"admitted"})
               O == InWindow(b, {"admitted", "open"})
    <3>0. /\ InWindow(c, {"admitted"})' = A' /\ InWindow(c, {"admitted", "open"})' = O'
          /\ InLast(c)' = InLast(b)'
      BY <1>2, <2>3 DEF InWindow, InLast
    <3>1. windows'[b].count = 1 /\ A' \subseteq {r} /\ r \in O' /\ InLast(b)' \subseteq A
      BY <2>3, NewCount
    <3>2. Cardinality({r}) = 1 /\ IsFiniteSet({r})
      BY FS_Singleton
    <3>3. Cardinality(A') <= 1
      BY <3>1, <3>2, FS_Subset
    <3>4. Cardinality(O') >= 1
      <4>1. O' \in SUBSET Requests /\ {r} \in SUBSET O'
        BY <3>1 DEF InWindow
      <4> QED
        BY <3>2, <4>1, CountsFinite, CountsGrow
    <3>5. Cardinality(InLast(b)') <= Limit(b)
      <4>1. A \in SUBSET Requests /\ InLast(b)' \in SUBSET Requests
        BY DEF InWindow, InLast
      <4>2. Cardinality(InLast(b)') <= Cardinality(A) /\ Cardinality(A) <= Limit(b)
        BY <1>1, <3>1, <4>1, CountsGrow DEF LimitIInv, CountsAreTrue
      <4> QED
        BY <1>1, <4>1, <4>2, CountsFinite
    <3>6. Cardinality(A') \in Nat
      BY CountsFinite DEF InWindow
    <3> QED
      BY <1>1, <2>3, <3>0, <3>1, <3>3, <3>4, <3>5, <3>6
  <2> QED
    BY <2>1, <2>2, <2>3
<1> QED
  BY <1>4, <1>6, <1>7 DEF LimitIInv

\* Failing open without having counted, or the passing of time.
LEMMA UncountedKeeps ==
  ASSUME LimitIInv, now \in Nat, now' \in Nat, now <= now', UNCHANGED <<adapter, bucket, windows>>,
         \/ UNCHANGED <<verdict, at>>
         \/ \E r \in Requests : /\ verdict[r] = "none" /\ verdict' = [verdict EXCEPT ![r] = "open"]
                                /\ at' = [at EXCEPT ![r] = now]
  PROVE  LimitIInv'
<1> USE DEF LimitIInv, LimitTypeOK
<1>1. LimitTypeOK'
  OBVIOUS
<1>2. TimesInOrder'
  BY LimitsAssumption DEF TimesInOrder
<1>3. CountsAreTrue'
  <2> SUFFICES ASSUME NEW b \in Buckets
               PROVE  /\ Cardinality(InWindow(b, {"admitted"})') <= windows[b].count
                      /\ Cardinality(InWindow(b, {"admitted"})') <= Limit(b)
                      /\ Cardinality(InLast(b)') <= Limit(b)
                      /\ \/ windows[b].count <= Cardinality(InWindow(b, {"admitted", "open"})')
                         \/ Limit(b) <= Cardinality(InWindow(b, {"admitted", "open"})')
    BY DEF CountsAreTrue
  <2>1. InWindow(b, {"admitted"})' = InWindow(b, {"admitted"})
    BY DEF InWindow
  <2>2. InLast(b)' = InLast(b)
    BY DEF InLast
  <2>3. InWindow(b, {"admitted", "open"}) \subseteq InWindow(b, {"admitted", "open"})'
    BY DEF InWindow
  <2>4. Cardinality(InWindow(b, {"admitted", "open"})) <= Cardinality(InWindow(b, {"admitted", "open"})')
    <3>1. InWindow(b, {"admitted", "open"})' \in SUBSET Requests
      BY DEF InWindow
    <3> QED
      BY <2>3, <3>1, CountsGrow
  <2>5. /\ Cardinality(InWindow(b, {"admitted", "open"})) \in Nat
        /\ Cardinality(InWindow(b, {"admitted", "open"})') \in Nat
    <3>1. InWindow(b, {"admitted", "open"})' \in SUBSET Requests
      BY DEF InWindow
    <3>2. InWindow(b, {"admitted", "open"}) \in SUBSET Requests
      BY DEF InWindow
    <3> QED
      BY <3>1, <3>2, CountsFinite
  <2>6. windows[b].count \in Nat /\ Limit(b) \in Nat
    BY LimitsAssumption DEF Limit
  <2> QED
    BY <2>1, <2>2, <2>4, <2>5, <2>6 DEF CountsAreTrue
<1> QED
  BY <1>1, <1>2, <1>3

-----------------------------------------------------------------------------
\* A limiter's answer is a counted request, or one let through uncounted.
LEMMA AllowCounts ==
  ASSUME LimitIInv, now \in Nat, now' = now, NEW r \in Requests, Allow(r) \/ FailOpen(r)
  PROVE  \/ \E v \in {"admitted", "refused", "open"} : CountStep(r, v)
         \/ /\ UNCHANGED <<adapter, bucket, windows>> /\ verdict[r] = "none"
            /\ verdict' = [verdict EXCEPT ![r] = "open"] /\ at' = [at EXCEPT ![r] = now]
<1>1. CASE Allow(r) /\ Within(bucket[r], Counted(bucket[r]).count)
  <2>1. CountStep(r, "admitted")
    BY <1>1 DEF Allow, Within, CountStep
  <2> QED
    BY <2>1
<1>2. CASE Allow(r) /\ ~Within(bucket[r], Counted(bucket[r]).count)
  <2>1. Counted(bucket[r]).count \in Nat /\ Limit(bucket[r]) \in Nat
    BY LimitsAssumption DEF LimitIInv, LimitTypeOK, Counted, Limit
  <2>2. CountStep(r, "refused")
    BY <1>2, <2>1 DEF Allow, Within, CountStep
  <2> QED
    BY <2>2
<1>3. CASE FailOpen(r) /\ windows' # windows
  <2>1. CountStep(r, "open")
    BY <1>3 DEF FailOpen, CountStep
  <2> QED
    BY <2>1
<1>4. CASE FailOpen(r) /\ windows' = windows
  BY <1>4 DEF FailOpen
<1> QED
  BY <1>1, <1>2, <1>3, <1>4

\* What a step of the pipeline is to the limiter: an answer, or nothing.
LEMMA LimiterSteps ==
  ASSUME [PipelineNext]_pipeline, now \in Nat
  PROVE  \/ \E r \in Requests : (Allow(r) \/ FailOpen(r)) /\ now' = now
         \/ UNCHANGED limits /\ now' \in Nat /\ now <= now'
<1>1. CASE UNCHANGED pipeline
  BY <1>1 DEF pipeline, limits, vars
<1>2. CASE Tick /\ UNCHANGED <<key, fp, entries, pc, stamp, status, leader, limits>>
  BY <1>2 DEF Tick
<1>3. ASSUME NEW r \in Requests, Lookup(r) /\ UNCHANGED limits
      PROVE  UNCHANGED limits /\ now' = now
  BY <1>3 DEF Lookup
<1>4. ASSUME NEW r \in Requests, ToLimiter(r)
      PROVE  (Allow(r) \/ FailOpen(r)) /\ now' = now
  BY <1>4 DEF ToLimiter, vars
<1>5. ASSUME NEW r \in Requests, ToHandler(r)
      PROVE  UNCHANGED limits /\ now' = now
  BY <1>5 DEF ToHandler, Panic, Execute
<1>6. ASSUME NEW r \in Requests, Coordinate(r) /\ UNCHANGED limits
      PROVE  UNCHANGED limits /\ now' = now
  BY <1>6 DEF Coordinate, Record, Close, Replay
<1> QED
  BY <1>1, <1>2, <1>3, <1>4, <1>5, <1>6 DEF PipelineNext, Process

\* The middleware outside the limiter runs as it does alone.
THEOREM PipelineIsIdempotent == PipelineSpec => Spec
<1>1. PipelineInit => Init
  BY DEF PipelineInit
<1>2. [PipelineNext]_pipeline => [Next]_vars
  <2> SUFFICES ASSUME [PipelineNext]_pipeline PROVE [Next]_vars
    OBVIOUS
  <2>1. ASSUME NEW r \in Requests, ToHandler(r) PROVE Handle(r)
    BY <2>1 DEF ToHandler, Handle, Status
  <2>2. ASSUME NEW r \in Requests, ToLimiter(r) PROVE UNCHANGED vars
    BY <2>2 DEF ToLimiter
  <2>3. CASE UNCHANGED pipeline
    BY <2>3 DEF pipeline
  <2> QED
    BY <2>1, <2>2, <2>3 DEF PipelineNext, Process, Next
<1> QED
  BY <1>1, <1>2, PTL DEF PipelineSpec, Spec

\* Behind the limiter too, executions of a key stay apart.
THEOREM PipelineRunsApart == PipelineSpec => RunsApart
BY PipelineIsIdempotent, ExecutionsApart, PTL

\* The middleware with the limiter inside keeps the promise of the keys.
THEOREM PipelineKeepsPromise == PipelineSpec => PromiseKept
BY PipelineIsIdempotent, Refinement, PTL

\* The limiters: the strengthened invariant is inductive.
THEOREM LimitInvariance == PipelineSpec => []LimitIInv
<1>1. PipelineInit => LimitIInv
  BY InitLimits DEF PipelineInit
<1>2. IInv /\ LimitIInv /\ [PipelineNext]_pipeline => LimitIInv'
  <2> SUFFICES ASSUME IInv, LimitIInv, [PipelineNext]_pipeline PROVE LimitIInv'
    OBVIOUS
  <2>1. now \in Nat
    BY DEF IInv, TypeOK
  <2>2. ASSUME NEW r \in Requests, Allow(r) \/ FailOpen(r), now' = now PROVE LimitIInv'
    <3>1. CASE \E v \in {"admitted", "refused", "open"} : CountStep(r, v)
      BY <2>1, <3>1, CountKeeps
    <3>2. CASE /\ UNCHANGED <<adapter, bucket, windows>> /\ verdict[r] = "none"
               /\ verdict' = [verdict EXCEPT ![r] = "open"] /\ at' = [at EXCEPT ![r] = now]
      <4>1. now' \in Nat /\ now <= now'
        BY <2>1, <2>2
      <4> QED
        BY <2>1, <3>2, <4>1, UncountedKeeps
    <3> QED
      BY <2>1, <2>2, <3>1, <3>2, AllowCounts
  <2>3. CASE UNCHANGED limits /\ now' \in Nat /\ now <= now'
    BY <2>1, <2>3, UncountedKeeps DEF limits
  <2> QED
    BY <2>1, <2>2, <2>3, LimiterSteps
<1>3. PipelineSpec => []IInv
  BY PipelineIsIdempotent, Invariance, PTL
<1> QED
  BY <1>1, <1>2, <1>3, PTL DEF PipelineSpec

\* The pipeline's types.
THEOREM PipelineTypes == PipelineSpec => []PipelineTypeOK
<1>1. IInv /\ LimitIInv => PipelineTypeOK
  BY DEF IInv, LimitIInv, PipelineTypeOK
<1> QED
  BY <1>1, PipelineIsIdempotent, Invariance, LimitInvariance, PTL

\* withRateLimit: nobody is refused who has not spent the budget within the
\* last window.
THEOREM RefusalsAreJustified == PipelineSpec => RefusedMeansSpent
<1>1. IInv /\ LimitIInv /\ [PipelineNext]_pipeline =>
        [\A r \in Requests : verdict[r] = "none" /\ verdict'[r] = "refused" =>
          Cardinality({q \in Requests : /\ bucket[q] = bucket[r]
                                        /\ verdict[q] \in {"admitted", "open"}
                                        /\ at[q] + Window > now}) >= Limit(bucket[r])]_limits
  <2> SUFFICES ASSUME IInv, LimitIInv, [PipelineNext]_pipeline,
                      NEW r \in Requests, verdict[r] = "none", verdict'[r] = "refused"
               PROVE  Cardinality({q \in Requests : /\ bucket[q] = bucket[r]
                                        /\ verdict[q] \in {"admitted", "open"}
                                        /\ at[q] + Window > now}) >= Limit(bucket[r])
    OBVIOUS
  <2> DEFINE b == bucket[r]
             O == InWindow(b, {"admitted", "open"})
             R == {q \in Requests : /\ bucket[q] = bucket[r]
                                    /\ verdict[q] \in {"admitted", "open"}
                                    /\ at[q] + Window > now}
  <2>1. now \in Nat
    BY DEF IInv, TypeOK
  <2>2. now' = now /\ CountStep(r, "refused")
    <3>1. PICK q \in Requests : (Allow(q) \/ FailOpen(q)) /\ now' = now
      BY <2>1, LimiterSteps DEF limits
    <3>2. \/ \E v \in {"admitted", "refused", "open"} : CountStep(q, v)
          \/ verdict[q] = "none" /\ verdict' = [verdict EXCEPT ![q] = "open"]
      BY <2>1, <3>1, AllowCounts
    <3> QED
      BY <3>1, <3>2 DEF CountStep, LimitIInv, LimitTypeOK
  <2>3. windows[b].expires > now
    BY <2>1, <2>2, NewCount
  <2>4. /\ b \in Buckets /\ windows[b].count \in Nat /\ windows[b].expires \in Nat
        /\ Limit(b) \in Nat
    BY LimitsAssumption DEF LimitIInv, LimitTypeOK, Limit
  <2>5. windows[b].count + 1 > Limit(b)
    <3>1. windows'[b].count = windows[b].count + 1
      BY <2>1, <2>2, <2>3, LiveCount
    <3>2. windows'[b].count = Counted(b).count
      BY <2>2, <2>4 DEF CountStep, LimitIInv, LimitTypeOK
    <3> QED
      BY <2>2, <3>1, <3>2 DEF CountStep
  <2>6. Cardinality(O) >= Limit(b)
    <3>1. Cardinality(O) \in Nat
      BY CountsFinite DEF InWindow
    <3> QED
      BY <2>4, <2>5, <3>1 DEF LimitIInv, CountsAreTrue
  <2>7. O \subseteq R
    BY <2>1, <2>3, <2>4, LimitsAssumption DEF InWindow, LimitIInv, LimitTypeOK
  <2>8. O \in SUBSET Requests /\ R \in SUBSET Requests
    BY DEF InWindow
  <2>9. Cardinality(O) <= Cardinality(R) /\ Cardinality(O) \in Nat /\ Cardinality(R) \in Nat
    BY <2>7, <2>8, CountsGrow, CountsFinite
  <2> QED
    BY <2>4, <2>6, <2>9
<1> QED
  BY <1>1, PipelineIsIdempotent, Invariance, LimitInvariance, PTL DEF PipelineSpec, RefusedMeansSpent

\* The stronger form, at every time: what any window's length of time let
\* through.
TwoWindows ==
    \A b \in Buckets, t \in Nat :
        Cardinality(Verdicts(b, "admitted", t, t + Window)) <= 2 * Limit(b)

\* A request let through now lies in the window of its bucket; what was let
\* through less than a window ago lies in that window or in the last.
LEMMA CountTwoWindows ==
  ASSUME LimitIInv, LimitIInv', TwoWindows, now \in Nat, NEW r \in Requests, CountStep(r, "admitted")
  PROVE  TwoWindows'
<1>1. /\ bucket' = bucket /\ now' = now /\ verdict[r] = "none"
      /\ verdict' = [verdict EXCEPT ![r] = "admitted"] /\ at' = [at EXCEPT ![r] = now]
  BY DEF CountStep
<1> SUFFICES ASSUME NEW b \in Buckets, NEW t \in Nat
             PROVE  Cardinality(Verdicts(b, "admitted", t, t + Window)') <= 2 * Limit(b)
  BY DEF TwoWindows
<1> DEFINE V == Verdicts(b, "admitted", t, t + Window)
           A == InWindow(b, {"admitted"})
           L == InLast(b)
<1>2. CASE V' \subseteq V
  <2>1. V \in SUBSET Requests /\ V' \in SUBSET Requests
    BY DEF Verdicts
  <2>2. Cardinality(V') <= Cardinality(V) /\ Cardinality(V) <= 2 * Limit(b)
    BY <1>2, <2>1, CountsGrow DEF TwoWindows
  <2>3. Cardinality(V') \in Nat /\ Cardinality(V) \in Nat /\ Limit(b) \in Nat
    BY <2>1, CountsFinite, LimitsAssumption DEF Limit
  <2> QED
    BY <2>2, <2>3
<1>3. CASE ~(V' \subseteq V)
  <2>1. b = bucket[r] /\ t <= now /\ now < t + Window
    BY <1>1, <1>3 DEF Verdicts, LimitIInv, LimitTypeOK
  <2>2. windows'[b].expires <= now + Window /\ windows'[b].expires \in Nat
    BY <1>1 DEF LimitIInv, LimitTypeOK, TimesInOrder
  <2>3. V' \subseteq A' \cup L'
    <3> SUFFICES ASSUME NEW q \in Requests, bucket'[q] = b, verdict'[q] = "admitted",
                        t <= at'[q], at'[q] < t + Window
                 PROVE  q \in A' \cup L'
      BY DEF Verdicts
    <3>1. at'[q] \in Nat
      BY DEF LimitIInv, LimitTypeOK
    <3>2. windows'[b].expires <= at'[q] + 2 * Window
      BY <2>1, <2>2, <3>1, LimitsAssumption
    <3> QED
      BY <2>2, <3>1, <3>2, LimitsAssumption DEF InWindow, InLast
  <2>4. A' \in SUBSET Requests /\ L' \in SUBSET Requests /\ V' \in SUBSET Requests
    BY DEF InWindow, InLast, Verdicts
  <2>5. Cardinality(A') <= Limit(b) /\ Cardinality(L') <= Limit(b)
    BY DEF LimitIInv, CountsAreTrue
  <2>6. /\ IsFiniteSet(A') /\ IsFiniteSet(L') /\ Cardinality(A') \in Nat /\ Cardinality(L') \in Nat
        /\ Cardinality(V') \in Nat
    BY <2>4, CountsFinite
  <2>7. /\ Cardinality(A' \cup L') = Cardinality(A') + Cardinality(L') - Cardinality(A' \cap L')
        /\ Cardinality(A' \cap L') \in Nat
    BY <2>4, <2>6, FS_Union, CountsFinite
  <2>8. Cardinality(V') <= Cardinality(A' \cup L')
    BY <2>3, <2>4, CountsGrow
  <2>9. Limit(b) \in Nat
    BY LimitsAssumption DEF Limit
  <2> QED
    BY <2>5, <2>6, <2>7, <2>8, <2>9
<1> QED
  BY <1>2, <1>3

\* withRateLimit: no stretch of time as long as a window lets more through
\* than two windows may, wherever it begins.
THEOREM AdmissionIsBounded == PipelineSpec => []AtMostTwoWindows
<1>1. PipelineInit => TwoWindows
  <2> SUFFICES ASSUME PipelineInit, NEW b \in Buckets, NEW t \in Nat
               PROVE  Cardinality(Verdicts(b, "admitted", t, t + Window)) <= 2 * Limit(b)
    BY DEF TwoWindows
  <2>1. Verdicts(b, "admitted", t, t + Window) = {}
    BY DEF PipelineInit, LimitInit, Verdicts
  <2>2. Limit(b) \in Nat
    BY LimitsAssumption DEF Limit
  <2> QED
    BY <2>1, <2>2, FS_EmptySet
<1>2. /\ IInv /\ LimitIInv /\ LimitIInv' /\ TwoWindows /\ [PipelineNext]_pipeline
      => TwoWindows'
  <2> SUFFICES ASSUME IInv, LimitIInv, LimitIInv', TwoWindows, [PipelineNext]_pipeline
               PROVE  TwoWindows'
    OBVIOUS
  <2>1. now \in Nat
    BY DEF IInv, TypeOK
  <2>2. CASE \E r \in Requests : CountStep(r, "admitted")
    BY <2>1, <2>2, CountTwoWindows
  <2>3. CASE ~ \E r \in Requests : CountStep(r, "admitted")
    <3>1. /\ bucket' = bucket
          /\ \A q \in Requests : verdict'[q] = "admitted" => verdict[q] = "admitted" /\ at'[q] = at[q]
      <4>1. CASE UNCHANGED limits
        BY <4>1 DEF limits
      <4>2. ASSUME NEW r \in Requests, Allow(r) \/ FailOpen(r), now' = now PROVE <3>1
        <5>1. \/ CountStep(r, "refused") \/ CountStep(r, "open")
              \/ /\ UNCHANGED <<adapter, bucket, windows>> /\ verdict[r] = "none"
                 /\ verdict' = [verdict EXCEPT ![r] = "open"] /\ at' = [at EXCEPT ![r] = now]
          BY <2>1, <2>3, <4>2, AllowCounts
        <5> QED
          BY <5>1 DEF CountStep, LimitIInv, LimitTypeOK
      <4> QED
        BY <2>1, <4>1, <4>2, LimiterSteps
    <3> SUFFICES ASSUME NEW b \in Buckets, NEW t \in Nat
                 PROVE  Cardinality(Verdicts(b, "admitted", t, t + Window)') <= 2 * Limit(b)
      BY DEF TwoWindows
    <3> DEFINE V == Verdicts(b, "admitted", t, t + Window)
    <3>2. V' \subseteq V
      BY <3>1 DEF Verdicts
    <3>3. V \in SUBSET Requests /\ V' \in SUBSET Requests
      BY DEF Verdicts
    <3>4. Cardinality(V') <= Cardinality(V) /\ Cardinality(V) <= 2 * Limit(b)
      BY <3>2, <3>3, CountsGrow DEF TwoWindows
    <3>5. Cardinality(V') \in Nat /\ Cardinality(V) \in Nat /\ Limit(b) \in Nat
      BY <3>3, CountsFinite, LimitsAssumption DEF Limit
    <3> QED
      BY <3>4, <3>5
  <2> QED
    BY <2>2, <2>3
<1>3. PipelineSpec => []IInv
  BY PipelineIsIdempotent, Invariance, PTL
<1>4. IInv /\ TwoWindows => AtMostTwoWindows
  BY DEF TwoWindows, AtMostTwoWindows, IInv, TypeOK
<1> QED
  BY <1>1, <1>2, <1>3, <1>4, LimitInvariance, PTL DEF PipelineSpec

\* Rounding to seconds takes away less than half a second.
LEMMA RoundingLoss == LimitIInv /\ now \in Nat => WaitIsEnough
<1> SUFFICES ASSUME LimitIInv, now \in Nat, NEW b \in Buckets, windows[b].expires > now
             PROVE  windows[b].expires <= now + RetryAfter(windows[b].expires - now) * Second + (Second - 1) \div 2
  BY DEF WaitIsEnough
<1> DEFINE d == windows[b].expires - now
<1>1. d \in Nat /\ Second \in Nat /\ Second > 0 /\ windows[b].expires \in Nat
  BY LimitsAssumption DEF LimitIInv, LimitTypeOK
<1>2. \A a, c \in Nat : c > 0 => a \div c \in Nat /\ a < c * (a \div c) + c
  OBVIOUS
<1> DEFINE R == Rounded(d)
           m == R * Second
           h == (Second - 1) \div 2
<1>3. R \in Nat /\ 2 * d + Second < (2 * Second) * R + 2 * Second
  <2> DEFINE a == 2 * d + Second
             c == 2 * Second
  <2>1. a \in Nat /\ c \in Nat /\ c > 0
    BY <1>1
  <2>2. a \div c \in Nat /\ a < c * (a \div c) + c
    BY <1>2, <2>1
  <2>3. R = a \div c
    BY DEF Rounded
  <2> QED
    BY <2>2, <2>3
<1>4. m \in Nat /\ (2 * Second) * R = 2 * m
  BY <1>1, <1>3
<1>5. h \in Nat /\ Second <= 2 * h + 2
  <2>1. \A n \in Nat : n \div 2 \in Nat /\ n <= 2 * (n \div 2) + 1
    OBVIOUS
  <2> QED
    BY <1>1, <2>1
<1>6. RetryAfter(d) * Second \in Nat /\ m <= RetryAfter(d) * Second
  <2>1. CASE R < 1
    BY <1>1, <1>3, <2>1 DEF RetryAfter
  <2>2. CASE ~(R < 1)
    BY <1>1, <1>3, <1>4, <2>2 DEF RetryAfter
  <2> QED
    BY <2>1, <2>2
<1>7. d <= m + h
  <2> HIDE DEF d, m, h
  <2> QED
    BY <1>1, <1>3, <1>4, <1>5
<1> QED
  <2> DEFINE w == RetryAfter(d) * Second
  <2>1. w \in Nat /\ m <= w /\ d <= m + h
    BY <1>6, <1>7
  <2>2. windows[b].expires = now + d
    BY <1>1
  <2> HIDE DEF w, m, h, d
  <2>3. now + d <= now + w + h
    BY <1>1, <1>4, <1>5, <2>1
  <2> QED
    BY <2>2, <2>3 DEF w, h, d

\* writeRateLimitHeaders: Retry-After is enough, up to half a second that
\* rounding may take away.
THEOREM RetryAfterSuffices == PipelineSpec => []WaitIsEnough
<1>1. IInv => now \in Nat
  BY DEF IInv, TypeOK
<1> QED
  BY <1>1, RoundingLoss, PipelineIsIdempotent, Invariance, LimitInvariance, PTL
\* A handler runs, and its answer is recorded, after the limiter's verdict; the
\* verdict is that of the request that runs, and a 429 is recorded for a
\* refused one only.
RunsArePaid ==
    /\ OnlyRunsAreCounted
    /\ \A r \in Requests : pc[r] \in {"record", "close", "panicked"} => verdict[r] # "none"

LEMMA RunsPaidStep ==
  ASSUME IInv, LimitTypeOK, RunsArePaid, [PipelineNext]_pipeline
  PROVE  RunsArePaid'
<1> USE DEF IInv, TypeOK, LimitTypeOK, Leading, Final
<1> DEFINE Paid(r) ==
      /\ verdict[r] # "none" => pc[r] \in {"run", "record", "close", "answered", "panicked"}
      /\ pc[r] \in {"record", "close", "answered", "panicked"} => verdict[r] # "none"
      /\ status[r] # None => (status[r] = "limited" <=> verdict[r] = "refused")
<1>1. \A r \in Requests : Paid(r)
  BY DEF RunsArePaid, OnlyRunsAreCounted
<1>2. SUFFICES ASSUME NEW q \in Requests PROVE Paid(q)'
  BY DEF RunsArePaid, OnlyRunsAreCounted
<1>3. CASE UNCHANGED <<pc, status, verdict>>
  BY <1>1, <1>3
<1>4. ASSUME NEW r \in Requests, Lookup(r), UNCHANGED limits PROVE Paid(q)'
  <2>1. pc[r] = "new" /\ pc' = [pc EXCEPT ![r] = pc'[r]] /\ pc'[r] \in {"run", "waiting", "conflict"}
    BY <1>4 DEF Lookup, Lead, Wait, Refuse, Goto
  <2> QED
    BY <1>1, <1>4, <2>1 DEF Lookup, limits
<1>5. ASSUME NEW r \in Requests, ToLimiter(r) PROVE Paid(q)'
  <2>1. /\ pc[r] = "run" /\ UNCHANGED <<pc, status>> /\ verdict[r] = "none"
        /\ verdict' = [verdict EXCEPT ![r] = verdict'[r]] /\ verdict'[r] # "none"
    BY <1>5 DEF ToLimiter, Allow, FailOpen, vars
  <2>2. status[r] = None
    BY <2>1 DEF StepsInOrder
  <2> QED
    BY <1>1, <2>1, <2>2
<1>6. ASSUME NEW r \in Requests, ToHandler(r) PROVE Paid(q)'
  <2>1. UNCHANGED verdict /\ verdict[r] # "none" /\ pc[r] = "run"
    BY <1>6 DEF ToHandler, Panic, Execute, limits
  <2>2. /\ pc' = [pc EXCEPT ![r] = pc'[r]] /\ pc'[r] \in {"record", "answered", "panicked"}
        /\ \/ UNCHANGED status
           \/ /\ status' = [status EXCEPT ![r] = status'[r]]
              /\ status'[r] = "limited" <=> verdict[r] = "refused"
    BY <1>6 DEF ToHandler, Panic, Execute, Goto
  <2> QED
    BY <1>1, <2>1, <2>2
<1>7. ASSUME NEW r \in Requests, Coordinate(r), UNCHANGED limits PROVE Paid(q)'
  <2>1. /\ pc' = [pc EXCEPT ![r] = pc'[r]] /\ UNCHANGED <<status, verdict>>
        /\ \/ pc[r] \in {"record", "close"} /\ pc'[r] \in {"close", "answered"}
           \/ pc[r] = "waiting" /\ pc'[r] = "replayed"
    BY <1>7 DEF Coordinate, Record, Close, Replay, Goto, limits
  <2> QED
    BY <1>1, <2>1
<1>8. CASE Tick /\ UNCHANGED <<key, fp, entries, pc, stamp, status, leader, limits>>
  BY <1>3, <1>8 DEF limits
<1>9. CASE UNCHANGED pipeline
  BY <1>3, <1>9 DEF pipeline, vars, limits
<1> QED
  BY <1>4, <1>5, <1>6, <1>7, <1>8, <1>9 DEF PipelineNext, Process

\* withIdempotency outside withRateLimit: a replay, a conflict or a wait costs
\* no budget, every handler's answer was paid for, and a stored 429 is that of
\* a request the limiter refused.
THEOREM ReplaysAreFree == PipelineSpec => []OnlyRunsAreCounted
<1>1. PipelineInit => RunsArePaid
  BY NoneAssumption DEF PipelineInit, Init, LimitInit, RunsArePaid, OnlyRunsAreCounted, Leading
<1>2. IInv /\ LimitIInv /\ RunsArePaid /\ [PipelineNext]_pipeline => RunsArePaid'
  BY RunsPaidStep DEF LimitIInv
<1>3. RunsArePaid => OnlyRunsAreCounted
  BY DEF RunsArePaid
<1>4. PipelineSpec => []IInv
  BY PipelineIsIdempotent, Invariance, PTL
<1> QED
  BY <1>1, <1>2, <1>3, <1>4, LimitInvariance, PTL DEF PipelineSpec
=============================================================================
