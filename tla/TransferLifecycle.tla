------------------------- MODULE TransferLifecycle -------------------------
(***************************************************************************)
(* One transfer under concurrent HTTP calls: transfers.Service over        *)
(* PostgreSQL, the payload in the local adapter of files.Service or in an  *)
(* S3 bucket, and the trigger that writes the notification outbox.  The    *)
(* database statements, the storage calls and the publication of a handler *)
(* are separate steps; calls of the same or of other clients run between.  *)
(***************************************************************************)
EXTENDS Naturals

CONSTANT Requests    \* HTTP calls about the transfer

VARIABLES local,    \* configured storage: in-memory adapter, or S3
          status,   \* transfers.status; absent before the INSERT
          blob,     \* what storage holds under the transfer's object key
          url,      \* an upload URL that has not expired is out
          device,   \* the destination's row in devices
          token,    \* the destination has a push token
          outbox,   \* rows in notification_outbox for destination and transfer
          told,     \* transfer.ready has been handed to the hub
          restarted,  \* the process has restarted
          op, pc    \* handler of each call, and its next step

world == <<local, restarted>>
store == <<status, blob, url, device, token, outbox, told>>
vars == <<world, store, op, pc>>

Statuses == {"absent", "uploading", "ready", "completed"}

\* good: the declared bytes; corrupt: other bytes of the declared size;
\* short: another size.
Payloads == {"good", "corrupt", "short"}

Ops     == {"none", "create", "upload", "uploaded", "complete"}
Working == {"insert", "put", "inspect", "ready", "publish", "completed", "announce"}
Final   == {"ok", "refused", "error"}

TypeOK ==
    /\ status \in Statuses
    /\ blob \in Payloads \cup {"none"}
    /\ local \in BOOLEAN /\ restarted \in BOOLEAN
    /\ url \in BOOLEAN /\ device \in BOOLEAN /\ token \in BOOLEAN /\ told \in BOOLEAN
    /\ outbox \in Nat
    /\ op \in [Requests -> Ops]
    /\ pc \in [Requests -> {"new"} \cup Working \cup Final]

Init ==
    /\ local \in BOOLEAN /\ restarted = FALSE
    /\ status = "absent"
    /\ blob = "none"
    /\ url = FALSE
    /\ device = TRUE
    /\ token \in BOOLEAN
    /\ outbox = 0
    /\ told = FALSE
    /\ op = [r \in Requests |-> "none"]
    /\ pc = [r \in Requests |-> "new"]

Goto(r, label) == pc' = [pc EXCEPT ![r] = label]
Begin(r, o, label) ==
    pc[r] = "new" /\ op' = [op EXCEPT ![r] = o] /\ Goto(r, label)

-----------------------------------------------------------------------------
\* POST /v1/transfers: the ownership SELECT, then the INSERT, whose foreign
\* keys fail if the device has gone in between.

CreateCheck(r) ==
    /\ \A q \in Requests : op[q] # "create"
    /\ Begin(r, "create", IF device THEN "insert" ELSE "refused")
    /\ UNCHANGED <<world, store>>

CreateInsert(r) ==
    /\ pc[r] = "insert"
    /\ IF device
         THEN status' = "uploading" /\ url' = TRUE /\ Goto(r, "ok")
         ELSE Goto(r, "refused") /\ UNCHANGED <<status, url>>
    /\ UNCHANGED <<world, blob, device, token, outbox, told, op>>

\* GET of the transfer or the list: decorate signs a new upload URL while the
\* transfer is uploading.
Decorate ==
    /\ status = "uploading" /\ ~url
    /\ url' = TRUE
    /\ UNCHANGED <<world, status, blob, device, token, outbox, told, op, pc>>

UrlExpires == url /\ url' = FALSE /\ UNCHANGED <<world, status, blob, device, token, outbox, told, op, pc>>

-----------------------------------------------------------------------------
\* PUT of the payload.

\* devUpload: Verify, Get, read and check the body ...
UploadCheck(r, payload) ==
    /\ local /\ url
    /\ Begin(r, "upload", IF status = "uploading" /\ payload = "good" THEN "put" ELSE "refused")
    /\ UNCHANGED <<world, store>>

\* ... and Put, whatever has become of the transfer since.
UploadPut(r) ==
    /\ pc[r] = "put"
    /\ blob' = "good"
    /\ Goto(r, "ok")
    /\ UNCHANGED <<world, status, url, device, token, outbox, told, op>>

\* A presigned PUT goes to the bucket: it takes any bytes as long as the URL
\* is valid, and only the checksum header is signed.
BucketPut(payload) ==
    /\ ~local /\ url
    /\ blob' = payload
    /\ UNCHANGED <<world, status, url, device, token, outbox, told, op, pc>>

-----------------------------------------------------------------------------
\* POST .../uploaded: Get, InspectUploaded, Update with its trigger, publish.

MarkGet(r) ==
    /\ status # "absent"
    /\ Begin(r, "uploaded", IF status = "uploading" THEN "inspect" ELSE "refused")
    /\ UNCHANGED <<world, store>>

\* Mutant: a missing payload is not an error.
PassesAlways == TRUE

\* Size and checksum agree.  The local adapter hashes the bytes; HEAD returns
\* the checksum the PUT had to send along, whatever the bytes were.
Passes == IF local THEN blob = "good" ELSE blob \in {"good", "corrupt"}

\* Mutant: the destination is told before the status is updated.
InspectTells(r) ==
    /\ pc[r] = "inspect"
    /\ Goto(r, IF Passes THEN "ready" ELSE "refused")
    /\ told' = (told \/ Passes)
    /\ UNCHANGED <<world, status, blob, url, device, token, outbox, op>>

Inspect(r) ==
    /\ pc[r] = "inspect"
    /\ Goto(r, IF Passes THEN "ready" ELSE "refused")
    /\ UNCHANGED <<world, store, op>>

\* pixelgo_enqueue_transfer_ready_notification, in the UPDATE's transaction.
Enqueue ==
    outbox' = IF status # "ready" /\ token /\ outbox = 0 THEN outbox + 1 ELSE outbox

\* UPDATE ... WHERE id: the status the handler read is not a condition.
MarkUpdate(r) ==
    /\ pc[r] = "ready"
    /\ status' = "ready"
    /\ Enqueue
    /\ Goto(r, "publish")
    /\ UNCHANGED <<world, blob, url, device, token, told, op>>

MarkPublish(r) ==
    /\ pc[r] = "publish"
    /\ told' = TRUE
    /\ Goto(r, "ok")
    /\ UNCHANGED <<world, status, blob, url, device, token, outbox, op>>

-----------------------------------------------------------------------------
\* POST .../complete: Get, Update, publish to the source.

\* Mutant: the status is not looked at.
CompleteGetAny(r) ==
    /\ status # "absent"
    /\ Begin(r, "complete", "completed")
    /\ UNCHANGED <<world, store>>

CompleteGet(r) ==
    /\ status # "absent"
    /\ Begin(r, "complete", IF status = "ready" THEN "completed" ELSE "refused")
    /\ UNCHANGED <<world, store>>

CompleteUpdate(r) ==
    /\ pc[r] = "completed"
    /\ status' = "completed"
    /\ Goto(r, "announce")
    /\ UNCHANGED <<world, blob, url, device, token, outbox, told, op>>

CompleteAnnounce(r) ==
    /\ pc[r] = "announce"
    /\ Goto(r, "ok")
    /\ UNCHANGED <<world, store, op>>

-----------------------------------------------------------------------------
\* A database or storage error, a cancelled call, or a statement that took
\* effect and was never acknowledged: the handler stops where it is.
Fail(r) ==
    /\ pc[r] \in Working
    /\ Goto(r, "error")
    /\ UNCHANGED <<world, store, op>>

\* The process restarts: its calls die, and so do the blobs it kept.
Restart ==
    /\ restarted' = TRUE
    /\ pc' = [r \in Requests |-> IF pc[r] \in Working THEN "error" ELSE pc[r]]
    /\ blob' = IF local THEN "none" ELSE blob
    /\ UNCHANGED <<local, status, url, device, token, outbox, told, op>>

\* PUT and DELETE of the destination device.
UpdatePushToken ==
    /\ device
    /\ token' = ~token
    /\ UNCHANGED <<world, status, blob, url, device, outbox, told, op, pc>>

\* ON DELETE RESTRICT keeps a device that a transfer names.
DeleteDevice ==
    /\ device /\ status = "absent"
    /\ device' = FALSE /\ token' = FALSE
    /\ UNCHANGED <<world, status, blob, url, outbox, told, op, pc>>

Handle(r) ==
    \/ CreateCheck(r) \/ CreateInsert(r)
    \/ \E p \in Payloads : UploadCheck(r, p)
    \/ UploadPut(r)
    \/ MarkGet(r) \/ Inspect(r) \/ MarkUpdate(r) \/ MarkPublish(r)
    \/ CompleteGet(r) \/ CompleteUpdate(r) \/ CompleteAnnounce(r)

Next ==
    \/ \E r \in Requests : Handle(r) \/ Fail(r)
    \/ \E p \in Payloads : BucketPut(p)
    \/ Decorate \/ UrlExpires
    \/ Restart
    \/ UpdatePushToken \/ DeleteDevice

Spec == Init /\ [][Next]_vars

-----------------------------------------------------------------------------
\* A transfer that is offered or was delivered has its declared bytes in the
\* local adapter, whatever uploads raced the call that offered it, until a
\* restart empties the adapter.  (S3 takes other bytes: see BucketPut, Passes.)
ReadyMeansPayload ==
    local /\ ~restarted /\ status \in {"ready", "completed"} => blob = "good"

\* A destination that is told of a transfer, by event or by notification,
\* never finds it still uploading.
ToldMeansReadable == told \/ outbox > 0 => status \in {"ready", "completed"}

\* docs/TRANSFER_LIFECYCLE.md on completed: "destination verified the payload
\* and acknowledged delivery": the acknowledgement is not undone.
AcknowledgedIsCompleted ==
    \A r \in Requests : op[r] = "complete" /\ pc[r] = "ok" => status = "completed"

\* The interleaved handlers implement the atomic transfer of TransferPromise,
\* where an inspection counts from its success to the end of its call.
Promise == INSTANCE TransferPromise WITH
    inspected <- \/ status \in {"ready", "completed"}
                 \/ \E r \in Requests : pc[r] = "ready"
PromiseKept == Promise!Spec

-----------------------------------------------------------------------------
\* The inductive strengthening.

\* Identifiers are fresh: one call creates the transfer.
OneCreate ==
    /\ \A r, q \in Requests : op[r] = "create" /\ op[q] = "create" => r = q
    /\ status # "absent" => \E r \in Requests : op[r] = "create"
    /\ \A r \in Requests : pc[r] = "new" => op[r] = "none"
    /\ \A r \in Requests : pc[r] = "insert" => op[r] = "create" /\ status = "absent"

\* What a handler has read or done before its next step.
HandlersKnow ==
    \A r \in Requests :
        /\ pc[r] \in {"inspect", "ready"} => status # "absent"
        /\ pc[r] \in {"publish", "completed"} => status \in {"ready", "completed"}

\* The local adapter stores checked bytes only, and the offer has seen them.
CheckedPayload ==
    local /\ ~restarted =>
        /\ blob \in {"none", "good"}
        /\ \A r \in Requests : pc[r] = "ready" => blob = "good"
        /\ ReadyMeansPayload
        /\ \A r \in Requests : pc[r] = "completed" => blob = "good"

IInv ==
    /\ TypeOK
    /\ OneCreate
    /\ HandlersKnow
    /\ CheckedPayload
    /\ ToldMeansReadable
=============================================================================
