---------------------- MODULE TransferLifecycleProofs ----------------------
(***************************************************************************)
(* Theorems about TransferLifecycle, for any number of calls: a told       *)
(* destination finds the transfer readable, and with the local adapter and *)
(* no restart an offered transfer has its declared bytes.                  *)
(***************************************************************************)
EXTENDS TransferLifecycle, TLAPS

\* Nothing is created, stored or told at first.
LEMMA InitIInv == Init => IInv
<1> SUFFICES ASSUME Init PROVE IInv
  OBVIOUS
<1>1. TypeOK
  BY DEF Init, TypeOK, Statuses, Ops
<1>2. OneCreate /\ HandlersKnow
  BY DEF Init, OneCreate, HandlersKnow
<1>3. CheckedPayload
  BY DEF Init, CheckedPayload, ReadyMeansPayload
<1>4. ToldMeansReadable
  BY DEF Init, ToldMeansReadable
<1> QED
  BY <1>1, <1>2, <1>3, <1>4 DEF IInv

\* The one creating call inserts the row of an absent transfer.
LEMMA CreateStep ==
  ASSUME IInv, NEW r \in Requests, CreateCheck(r) \/ CreateInsert(r)
  PROVE  IInv'
<1> USE DEF IInv, TypeOK, world, store, Goto, Working, Final,
    CreateCheck, CreateInsert, Begin
<1>1. TypeOK'
  <2>1. CASE CreateCheck(r)
    BY <2>1 DEF Ops
  <2>2. CASE CreateInsert(r)
    BY <2>2 DEF Statuses
  <2> QED
    BY <2>1, <2>2
<1>2. OneCreate'
  <2>1. CASE CreateCheck(r)
    BY <2>1 DEF OneCreate
  <2>2. CASE CreateInsert(r)
    <3>1. \A q \in Requests : pc[q] = "insert" => q = r
      BY <2>2 DEF OneCreate
    <3> QED
      BY <2>2, <3>1 DEF OneCreate
  <2> QED
    BY <2>1, <2>2
<1>3. HandlersKnow'
  BY DEF HandlersKnow, OneCreate
<1>4. CheckedPayload'
  BY DEF CheckedPayload, ReadyMeansPayload
<1>5. ToldMeansReadable'
  BY DEF ToldMeansReadable, OneCreate, HandlersKnow
<1> QED
  BY <1>1, <1>2, <1>3, <1>4, <1>5

\* devUpload stores nothing but the declared bytes.
LEMMA UploadStep ==
  ASSUME IInv, NEW r \in Requests, (\E p \in Payloads : UploadCheck(r, p)) \/ UploadPut(r)
  PROVE  IInv'
<1> USE DEF IInv, TypeOK, world, store, Goto, Working, Final,
    UploadCheck, UploadPut, Begin
<1>1. TypeOK'
  BY DEF Statuses, Payloads, Ops
<1>2. OneCreate'
  BY DEF OneCreate, HandlersKnow
<1>3. HandlersKnow'
  BY DEF HandlersKnow, OneCreate
<1>4. CheckedPayload'
  BY DEF CheckedPayload, ReadyMeansPayload
<1>5. ToldMeansReadable'
  BY DEF ToldMeansReadable, OneCreate, HandlersKnow
<1> QED
  BY <1>1, <1>2, <1>3, <1>4, <1>5

\* /uploaded offers what it inspected, and tells after the update.
LEMMA MarkStep ==
  ASSUME IInv, NEW r \in Requests, MarkGet(r) \/ Inspect(r) \/ MarkUpdate(r) \/ MarkPublish(r)
  PROVE  IInv'
<1> USE DEF IInv, TypeOK, world, store, Goto, Working, Final,
    MarkGet, Inspect, Passes, MarkUpdate, Enqueue, MarkPublish, Begin
<1>1. TypeOK'
  <2>1. CASE MarkGet(r)
    BY <2>1 DEF Ops
  <2>3. CASE Inspect(r) \/ MarkPublish(r)
    BY <2>3
  <2>2. CASE MarkUpdate(r)
    <3>1. outbox' \in Nat
      BY <2>2
    <3> QED
      BY <2>2, <3>1 DEF Statuses
  <2> QED
    BY <2>1, <2>2, <2>3
<1>2. OneCreate'
  BY DEF OneCreate, HandlersKnow
<1>3. HandlersKnow'
  BY DEF HandlersKnow, OneCreate
<1>4. CheckedPayload'
  BY DEF CheckedPayload, ReadyMeansPayload
<1>5. ToldMeansReadable'
  BY DEF ToldMeansReadable, OneCreate, HandlersKnow
<1> QED
  BY <1>1, <1>2, <1>3, <1>4, <1>5

\* /complete acts on an offered transfer only.
LEMMA CompleteStep ==
  ASSUME IInv, NEW r \in Requests, CompleteGet(r) \/ CompleteUpdate(r) \/ CompleteAnnounce(r)
  PROVE  IInv'
<1> USE DEF IInv, TypeOK, world, store, Goto, Working, Final,
    CompleteGet, CompleteUpdate, CompleteAnnounce, Begin
<1>1. TypeOK'
  BY DEF Statuses, Payloads, Ops
<1>2. OneCreate'
  BY DEF OneCreate, HandlersKnow
<1>3. HandlersKnow'
  BY DEF HandlersKnow, OneCreate
<1>4. CheckedPayload'
  BY DEF CheckedPayload, ReadyMeansPayload
<1>5. ToldMeansReadable'
  BY DEF ToldMeansReadable, OneCreate, HandlersKnow
<1> QED
  BY <1>1, <1>2, <1>3, <1>4, <1>5

\* A failing handler changes no data.
LEMMA FailStep ==
  ASSUME IInv, NEW r \in Requests, Fail(r)
  PROVE  IInv'
<1> USE DEF IInv, TypeOK, world, store, Goto, Working, Final,
    Fail
<1>1. TypeOK'
  BY DEF Statuses, Payloads, Ops
<1>2. OneCreate'
  BY DEF OneCreate, HandlersKnow
<1>3. HandlersKnow'
  BY DEF HandlersKnow, OneCreate
<1>4. CheckedPayload'
  BY DEF CheckedPayload, ReadyMeansPayload
<1>5. ToldMeansReadable'
  BY DEF ToldMeansReadable, OneCreate, HandlersKnow
<1> QED
  BY <1>1, <1>2, <1>3, <1>4, <1>5

\* Storage, devices, URLs and restarts: steps that no call makes.
LEMMA OutsideStep ==
  ASSUME IInv,
         \/ \E p \in Payloads : BucketPut(p)
         \/ Decorate \/ UrlExpires \/ Restart \/ UpdatePushToken \/ DeleteDevice
         \/ UNCHANGED vars
  PROVE  IInv'
<1> USE DEF IInv, TypeOK, Working, Final, vars, world, store,
    BucketPut, Decorate, UrlExpires, Restart, UpdatePushToken, DeleteDevice
<1>1. TypeOK'
  <2>1. CASE \E p \in Payloads : BucketPut(p)
    BY <2>1
  <2>2. CASE Decorate \/ UrlExpires
    BY <2>2
  <2>3. CASE Restart
    BY <2>3
  <2>4. CASE UpdatePushToken \/ DeleteDevice
    <3>1. token' \in BOOLEAN /\ device' \in BOOLEAN
      BY <2>4
    <3>2. UNCHANGED <<world, status, blob, url, outbox, told, op, pc>>
      BY <2>4
    <3> QED
      BY <3>1, <3>2
  <2>5. CASE UNCHANGED vars
    BY <2>5
  <2> QED
    BY <2>1, <2>2, <2>3, <2>4, <2>5
<1>2. OneCreate'
  BY DEF OneCreate, HandlersKnow
<1>3. HandlersKnow'
  BY DEF HandlersKnow, OneCreate
<1>4. CheckedPayload'
  BY DEF CheckedPayload, ReadyMeansPayload
<1>5. ToldMeansReadable'
  BY DEF ToldMeansReadable, OneCreate, HandlersKnow
<1> QED
  BY <1>1, <1>2, <1>3, <1>4, <1>5

-----------------------------------------------------------------------------
\* Every step of the system preserves the strengthened invariant.
LEMMA NextIInv == IInv /\ [Next]_vars => IInv'
<1> SUFFICES ASSUME IInv, [Next]_vars PROVE IInv'
  OBVIOUS
<1>1. ASSUME NEW r \in Requests, Handle(r) PROVE IInv'
  BY <1>1, CreateStep, UploadStep, MarkStep, CompleteStep DEF Handle
<1>2. ASSUME NEW r \in Requests, Fail(r) PROVE IInv'
  BY <1>2, FailStep
<1> QED
  BY <1>1, <1>2, OutsideStep DEF Next

\* The strengthened invariant holds in every reachable state.
THEOREM Invariance == Spec => []IInv
BY InitIInv, NextIInv, PTL DEF Spec

\* The variables keep their types, whatever calls overlap.
THEOREM TypeCorrect == Spec => []TypeOK
<1>1. IInv => TypeOK
  BY DEF IInv
<1> QED
  BY <1>1, Invariance, PTL

\* A destination that the hub or the outbox tells of a transfer finds it ready
\* or completed, even when a late /uploaded call sets it back to ready.
THEOREM ToldIsReadable == Spec => []ToldMeansReadable
<1>1. IInv => ToldMeansReadable
  BY DEF IInv
<1> QED
  BY <1>1, Invariance, PTL

\* With the local adapter in a process that does not restart, an offered or
\* delivered transfer has its declared bytes in storage.
THEOREM OfferedHasPayload == Spec => []ReadyMeansPayload
<1>1. IInv => ReadyMeansPayload
  BY DEF IInv, CheckedPayload, ReadyMeansPayload
<1> QED
  BY <1>1, Invariance, PTL

-----------------------------------------------------------------------------
\* The refinement.

PromiseStep == [Promise!Next]_(Promise!vars)

\* The steps of a call before its update change neither side of the promise,
\* but for the insert and the inspection.
LEMMA CreatePromise ==
  ASSUME IInv, NEW r \in Requests, CreateCheck(r) \/ CreateInsert(r)
  PROVE  PromiseStep
<1> USE DEF PromiseStep, Promise!Next, Promise!vars, Promise!Create,
            IInv, TypeOK, OneCreate, HandlersKnow, world, store, Goto, Begin, Working, Final
<1>1. \A q \in Requests : pc'[q] = "ready" <=> pc[q] = "ready"
  BY DEF CreateCheck, CreateInsert
<1>2. CASE CreateCheck(r)
  BY <1>1, <1>2 DEF CreateCheck
<1>3. CASE CreateInsert(r)
  BY <1>1, <1>3 DEF CreateInsert
<1> QED
  BY <1>2, <1>3

\* An upload is no step of the promise.
LEMMA UploadPromise ==
  ASSUME IInv, NEW r \in Requests, (\E p \in Payloads : UploadCheck(r, p)) \/ UploadPut(r)
  PROVE  PromiseStep
<1> USE DEF PromiseStep, Promise!Next, Promise!vars,
            IInv, TypeOK, world, store, Goto, Begin, Working, Final
<1>1. \A q \in Requests : pc'[q] = "ready" <=> pc[q] = "ready"
  BY DEF UploadCheck, UploadPut
<1>2. UNCHANGED status
  BY DEF UploadCheck, UploadPut
<1> QED
  BY <1>1, <1>2

\* An inspection that passes is Inspect, the update Offer, OfferAgain or
\* nothing, by the status it meets.
LEMMA MarkPromise ==
  ASSUME IInv, NEW r \in Requests, MarkGet(r) \/ Inspect(r) \/ MarkUpdate(r) \/ MarkPublish(r)
  PROVE  PromiseStep
<1> USE DEF PromiseStep, Promise!Next, Promise!vars,
            IInv, TypeOK, HandlersKnow, world, store, Goto, Begin, Working, Final
<1>1. CASE MarkGet(r) \/ MarkPublish(r)
  <2>1. \A q \in Requests : pc'[q] = "ready" <=> pc[q] = "ready"
    BY <1>1 DEF MarkGet, MarkPublish
  <2>2. UNCHANGED status
    BY <1>1 DEF MarkGet, MarkPublish
  <2> QED
    BY <2>1, <2>2
<1>2. CASE Inspect(r)
  <2>1. UNCHANGED status /\ status # "absent"
    BY <1>2 DEF Inspect
  <2>2. \A q \in Requests : q # r => pc'[q] = pc[q]
    BY <1>2 DEF Inspect
  <2>3. pc'[r] \in {"ready", "refused"} /\ pc[r] = "inspect"
    BY <1>2 DEF Inspect
  <2>4. CASE pc'[r] = "ready"
    BY <2>1, <2>4 DEF Promise!Inspect
  <2>5. CASE pc'[r] # "ready"
    BY <2>1, <2>2, <2>3, <2>5
  <2> QED
    BY <2>4, <2>5
<1>3. CASE MarkUpdate(r)
  <2>1. status' = "ready" /\ pc[r] = "ready" /\ status # "absent"
    BY <1>3 DEF MarkUpdate
  <2>2. CASE status = "uploading"
    BY <2>1, <2>2 DEF Promise!Offer
  <2>3. CASE status = "ready"
    BY <2>1, <2>3
  <2>4. CASE status = "completed"
    BY <2>1, <2>4 DEF Promise!OfferAgain
  <2> QED
    BY <2>1, <2>2, <2>3, <2>4 DEF Statuses
<1> QED
  BY <1>1, <1>2, <1>3

-----------------------------------------------------------------------------
\* Completing acknowledges a transfer that is ready, or is one already
\* completed.
LEMMA CompletePromise ==
  ASSUME IInv, IInv', NEW r \in Requests, CompleteGet(r) \/ CompleteUpdate(r) \/ CompleteAnnounce(r)
  PROVE  PromiseStep
<1> USE DEF PromiseStep, Promise!Next, Promise!vars,
            IInv, TypeOK, HandlersKnow, world, store, Goto, Begin, Working, Final
<1>1. \A q \in Requests : pc'[q] = "ready" <=> pc[q] = "ready"
  BY DEF CompleteGet, CompleteUpdate, CompleteAnnounce
<1>2. CASE CompleteGet(r) \/ CompleteAnnounce(r)
  BY <1>1, <1>2 DEF CompleteGet, CompleteAnnounce
<1>3. CASE CompleteUpdate(r)
  <2>1. status \in {"ready", "completed"} /\ status' = "completed"
    BY <1>3 DEF CompleteUpdate
  <2> QED
    BY <2>1 DEF Promise!Acknowledge
<1> QED
  BY <1>2, <1>3

\* A call that ends early may take the inspection with it.
LEMMA EndPromise ==
  ASSUME IInv, (\E r \in Requests : Fail(r)) \/ Restart
  PROVE  PromiseStep
<1> USE DEF PromiseStep, Promise!Next, Promise!vars,
            IInv, TypeOK, HandlersKnow, world, store, Goto, Working, Final
<1>1. UNCHANGED status
  BY DEF Fail, Restart
<1>2. \A q \in Requests : pc'[q] = "ready" => pc[q] = "ready"
  BY DEF Fail, Restart
<1>3. (\E q \in Requests : pc[q] = "ready") => status # "absent"
  OBVIOUS
<1>4. CASE status = "uploading"
  BY <1>1, <1>2, <1>4 DEF Promise!Forget
<1>5. CASE status # "uploading"
  BY <1>1, <1>2, <1>3, <1>5 DEF Statuses
<1> QED
  BY <1>4, <1>5

\* Nothing else is a step of the promise.
LEMMA OutsidePromise ==
  ASSUME IInv,
         \/ \E p \in Payloads : BucketPut(p)
         \/ Decorate \/ UrlExpires \/ UpdatePushToken \/ DeleteDevice
         \/ UNCHANGED vars
  PROVE  PromiseStep
<1>1. UNCHANGED <<status, pc>>
  BY DEF BucketPut, Decorate, UrlExpires, UpdatePushToken, DeleteDevice, vars, world, store
<1> QED
  BY <1>1 DEF PromiseStep, Promise!vars

\* The interleaved handlers implement the atomic transfer: every order of
\* their statements, failures and restarts is one of its behaviours.
THEOREM Refinement == Spec => PromiseKept
<1>1. Init => Promise!Init
  BY DEF Init, Promise!Init
<1>2. IInv /\ IInv' /\ [Next]_vars => [Promise!Next]_(Promise!vars)
  <2> SUFFICES ASSUME IInv, IInv', [Next]_vars PROVE PromiseStep
    BY DEF PromiseStep
  <2>1. ASSUME NEW r \in Requests, Handle(r) PROVE PromiseStep
    BY <2>1, CreatePromise, UploadPromise, MarkPromise, CompletePromise DEF Handle
  <2> QED
    BY <2>1, EndPromise, OutsidePromise DEF Next
<1> QED
  BY <1>1, <1>2, Invariance, PTL DEF Spec, PromiseKept, Promise!Spec
=============================================================================
