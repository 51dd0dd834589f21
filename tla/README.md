# PixelGo in TLA+

Specifications of PixelGo (`src/`), a file-sharing system of a Go server, an iOS and an
Android client: TLA+ modules translated from the source, TLC configurations that check
them on small instances, and theorems about them that TLAPS proves for every value of
their constants. `PROJECT.json` maps every definition to its lines.

Go paths below are relative to `src/server/internal/`.

## 1. The system

| Component | State | Operations | Interacts with |
|---|---|---|---|
| Auth (`auth/`) | users; refresh tokens with family, expiry, used, revoked | Register, Login, Refresh (rotation, reuse revocation), ValidateAccess | PostgreSQL row locks; clients keep one session each |
| Idempotency, Redis (`httpapi/idempotency_redis.go`) | per key: result record (24 h), owner lock (60 s) | wrap every POST with a key: read, lock, run, commit or release | any mutating handler; other replicas through Redis |
| Idempotency, in memory (`httpapi/idempotency.go`) | per key: entry with a `ready` channel | the same within one process | any mutating handler |
| Transfers (`transfers/`) | transfer row: status, declared size and checksum | Create, List, Get, MarkUploaded, Complete | files, devices, hub, the outbox trigger |
| Files (`files/`) | blobs in memory or an S3 bucket; signed URLs | UploadURL, DownloadURL, InspectUploaded, Put, Get, Verify | transfers; the client's PUT goes to S3 directly |
| Devices (`devices/`) | device row with push token | Register, List, UpdatePushToken, Delete | foreign keys of transfers and outbox |
| Outbox (`platform/postgresdb/schema.sql`, `notifications/`) | notification rows: attempts, available, locked, sent, failed | trigger; Claim, MarkSent, Retry; Worker.Run | presence, push providers, process shutdown |
| Realtime (`realtime/`, `presence/`) | open sockets; presence key with TTL | ServeHTTP, publish, route, Close; Online, Offline, IsOnline | Redis pub/sub, the worker, transfers |
| Rate limits (`ratelimit/`, `httpapi/ratelimit.go`) | counter per client and scope, and the end of its window | Allow | Redis; fails open |
| Clients (`src/ios`, `src/android`) | session, refresh in flight, device id, socket | authenticated requests with one refresh, sign-out, send, receive, events | the API |

What is hard about each, and what makes it correct:

- **Auth.** Requests race on one token family; replies get lost. A token is exchanged once,
  a family has one unused token, a replay kills what it should, nothing hangs on row locks.
- **Idempotency.** GET, SETNX, the handler and the commit are separate steps; the lock may
  lapse, a command may fail, a replica may die. A mutation runs once, a replay is genuine,
  a failure is not recorded as a result, waiters are not left behind.
- **Transfers.** Get, inspection, UPDATE and publication are separate steps; uploads race the
  offer. Ready means that the payload is there; completed is final; nobody is told too
  early.
- **Outbox.** Several workers, locks with a timeout, at-least-once sending, shutdown in the
  middle of a batch. Each row ends sent or given up for a reason, and by one worker at a time.
- **Realtime and presence.** Reconnects, late cleanups, missed publications. An online mark
  without a connection suppresses the push, so a wake-up may be lost.
- **Middleware.** The map, the handler and the record are separate critical sections; the
  limiter answers inside the idempotency record. Executions of one key stay apart, budgets are
  neither exceeded nor charged for replays, waiters are not left behind.
- **Clients.** Concurrent 401s, sign-out and sign-in during a refresh, a kill between the reply
  and the disk. One rotation at a time, no alarm without a cause, the stored session is that of the
  account on the screen.

## 2. Modules

| Module | Content |
|---|---|
| `TokenFamilies` | abstract: what refresh-token rotation promises |
| `RefreshTokens` | rotation and revocation as PostgreSQL transactions; implements the promise |
| `RefreshTokensProofs` | its theorems |
| `RedisIdempotency` | one key in Redis under concurrent requests and faults |
| `RedisIdempotencyProofs` | its theorems |
| `TransferPromise` | abstract: what a transfer promises the devices |
| `TransferLifecycle` | one transfer under concurrent calls; implements the promise |
| `TransferLifecycleProofs` | its theorems |
| `OutboxWorker` | the push workers over the outbox rows |
| `OutboxWorkerProofs` | its theorems |
| `PresenceHub` | connections of a device on the hubs, its presence key, Pub/Sub |
| `PresenceHubProofs` | its theorems |
| `Delivery` | `PresenceHub` with publication, outbox worker and app |
| `DeliveryProofs` | its theorems |
| `RequestClock` | the requests of one process and its clock |
| `IdempotentMutation` | abstract: what an idempotency key promises |
| `MemoryIdempotency` | `withIdempotency` over its map of entries; implements the promise |
| `RateLimit` | `withRateLimit` and its limiters |
| `RequestPipeline` | the two as `httpapi.New` nests them |
| `RequestPipelineProofs` | theorems of the last three |
| `AuthTokens` | the token pairs and calls of the auth service as its clients meet them, over the in-memory repository; implements `TokenFamilies` |
| `ClientSession` | what the two apps' sessions have in common |
| `AndroidSession`, `IosSession` | how each app coordinates its calls: a mutex, a shared task |
| `ClientSessionProofs` | theorems of both |
| `MC...` | instances for TLC |

A definition preceded by a comment `Mutant:` is not part of a model: it is a plausible bug in
the definition after it, and the properties that must fail under it are listed in
`PROJECT.json`.

### RefreshTokens

Rows of `refresh_tokens` are the function `row`; a database transaction is a value of `pc`
with the row locks it holds in `lock`. `SelectForUpdate`, `RotateCommit`, `StartRevoke`,
`RevokeRow`, `RevokeCommit` are the statements of `PostgresRepository.RotateRefresh`. The
family UPDATE works on the snapshot that it takes at its start (READ COMMITTED) and locks the
rows one by one in any order; a row that another transaction inserts meanwhile is not in the
snapshot. A cycle of waiting transactions is broken by `DeadlockAbort`, which is PostgreSQL's
and external. `Fail` rolls back at any step, and a commit whose answer is lost, of a rotation or of
a revocation, ends in `error` as well. Time is a bounded clock; a session's expiry counts from the
reading of it (`ReadClock`) that comes before the INSERT. A client presents a token it was given, or one that
no server issued (`Forged`).

### TokenFamilies

The abstract specification of rotation: `family` says which tokens were issued and in which
session, `successor` what a used token was exchanged for, `revoked` which are dead. `Exchange` takes
a live, unused token; `Revoke` is what a reuse does, all at once: it takes a set of the family that
has in it the token, its successor and every older token. How far the set reaches beyond that is open, and
this is the one difference between the repositories: the in-memory one takes the whole family
under its mutex, and the UPDATE of the PostgreSQL one may miss tokens that were exchanged while it
ran, but only the youngest end of the chain (`OldestOf`). Its initial states are all tables of such
chains (`Linked`), because a server is started on the table that it finds.

`RefreshTokens` implements it with the committed rows; the successor of a used row is the replacement
of the request that presented it. `AuthTokens` implements it with the pairs; the successor
of a used pair is the next pair of its family.

### RedisIdempotency

One key; `result` and `lock` are its two Redis keys. A request loops over `GetResult`,
`SetNX`, `GetLock`, runs the handler, and `Finish` executes the commit or the release script
atomically. The handler's outcome is `done`, `refused` (a 4xx) or `failed` (a 5xx). `Faults`
selects what may go wrong: locks that lapse under a slow handler, failing commands (before or
after they took effect), a client that goes away, a replica that dies. The histories `lapsed`,
`dropped` and `late` name the leaders whose lock expired under them or whose commit failed, and
the requests that came after the record; `missed[r]` are those that had read no record, and had not
asked for the lock, when r's mutation was recorded. They are the only ones that may still lead
and overwrite it (`AcknowledgedIsReplayed`), and if its body is another one, a retry of the acknowledged
request finds a record that is not its own. The 24-hour expiry of a record is not modelled: the
properties speak about its lifetime. `createTransfer` and `registerDevice` answer every error of
their service, a failing database included, with 400; the middleware stores such an answer like
any `refused`, although docs/TRANSFER_LIFECYCLE.md:84 expects server failures not to be stored.

### TransferLifecycle and TransferPromise

The status in PostgreSQL, the object in storage, the destination device, the outbox row that
the trigger writes, and the calls as `pc`. `local` is the configured adapter: in the local one
`devUpload` checks the bytes before `Put` (two steps, since the transfer may change while the
body is read), and a restart empties it; with S3 a presigned PUT reaches the bucket without the
API and only the checksum header is bound. Payloads are `good` (the declared bytes), `corrupt`
(others of the declared size) and `short`. `ReadyMeansPayload` is a property of the local
adapter: with S3, other bytes of the declared size pass the inspection, against
docs/TRANSFER_LIFECYCLE.md:11. That a second wake-up adds no second outbox row is the UNIQUE key's
(`Enqueue`) and no property of its own. The statuses `created`, `downloading` and `failed` of the
enumeration are never written by the code and are left out. `List`, `Get` and the download
change nothing; they appear as `Decorate`, because they sign a new upload URL.

`TransferPromise` is the abstract specification: created once, ready only on an inspection that
passed, completed only from ready, never back to uploading. Its `OfferAgain` is what a late
duplicate of `/uploaded` does to a completed transfer, which the refinement therefore permits; that
the docs do not expect it is shown by run `transfer_regress` alone. `TransferLifecycle` implements it under the mapping that an inspection counts
from its success (`pc` = `ready`) to the end of its call.

### OutboxWorker

Rows are numbers (their ids). `Claim` is one statement that locks the first `BatchSize`
pending rows; overlapping statements skip each other's rows, which is the same as one after
the other. `Send` covers `OfflineOnlySender`, the router and the providers by the answers they
can give; `MarkSent` and `Retry` are the two records, with the contexts the code uses: after
`Cancel` (shutdown) `MarkSent` has no effect while `Retry` does. `LockAges` makes a lock older
than five minutes, and `outlived` remembers the rows to which that happened in a worker's batch:
a batch of 50 sequential sends with a 10-second timeout each may take longer. `Kill` is a crash, or the end of
main's three seconds of patience. All rows are inserted at the start: a row that comes later
is one whose backoff is still running.

### PresenceHub

One device. A connection `s` has a handler (`conn[s]`: the steps of `ServeHTTP` and of its
deferred function) and a refresher (`refreshPresence`), which may be past its ping while the
handler cleans up. `mark` is the Redis key, `fresh` the connections whose last `Online`
succeeded, which is all that is kept of time: a key expires unless some connection that is up
keeps setting it. A finished connection is reused for the next one. `ear` follows a replica from
its start through the goroutine that subscribes (tried once, then left to the Redis client) to
draining and its end. A publication puts the event into the `inbox` of every subscribed replica,
or writes it to the publisher's own connections if Redis fails; `Route` writes to the connections
that are registered when it runs. While Redis is down commands have no effect; messages that it
was about to deliver may be lost with it.

Events of one kind are a set: two that wait together are read as one, which is enough for an app
that reacts to each by listing everything.

### Delivery

`PresenceHub` composed with what uses it: a replica confirms an upload (`MarkReady`, status and
outbox row in one transaction) and then publishes (`PublishReady`); the worker reads the key and
skips or pushes (`Send`; retries are `OutboxWorker`'s); the app lists before it connects
(`Receive`), after (`Reload`), and at every event (`ReadEvent`), and dials again when its
connection ends (`Connect`). `due` stands for the listings that the app's coroutines are about to
make. A listing may fail and is not repeated. `owed` is a history: the registered connections that
a published event must still reach. Listing is what both apps do in `reload`; receiving the text
is done for `transfer.ready` and at the start only and is not told apart.

### RequestClock, MemoryIdempotency, IdempotentMutation

`entries` is the map of `newMemoryIdempotencyStore`. An entry outlives its place in the map, since
waiters hold a pointer to it, and is named by the request that made it. `Lookup` is the first
critical section (prune, look up; `Lead`, `Wait` or `Refuse`), `Execute` the handler with a
buffered response, `Record` the second critical section, `Close` the closing of `ready` and the
leader's own answer; `Panic` is a handler whose panic net/http recovers. The expiry of a record
counts from the arrival of its request (idempotency.go:102), which is why `RunsApart` speaks of
`stamp` and not of the end of the handler.

`IdempotentMutation` is the abstract specification: one execution of a key at a time, equal requests
are told its outcome, different ones are turned away, and the key is free again after a server
error or when its record is forgotten. `MemoryIdempotency` implements it (`PromiseKept`). The Redis
adapter does not: run `idempotency_twice`.

### RateLimit and RequestPipeline

One step of `Allow` is the critical section of the in-memory limiter or the script in Redis, which
count alike; with Redis it may also fail, before or after the script took effect, and the request
goes on (`FailOpen`). `Rounded` is `Duration.Round` to seconds, half a second upwards, on a clock of
`Second` ticks; the code's nanoseconds are such ticks.

`RequestPipeline` nests them as server.go:131 does: the idempotency middleware outside, the limiter
inside. A request reaches the limiter when its key is new and its handler is due (`ToLimiter`), and
the handler, or the 429 in its place, after that (`ToHandler`). It follows that a retry costs no
budget (`OnlyRunsAreCounted`), and that a 429 is recorded like any answer: **the key of a request that
was refused for its rate answers 429 for 24 hours**, whatever `Retry-After` says. Redis installs both
its limiter and its idempotency adapter, so that requests with keys meet the in-memory limiter only.

### AuthTokens, ClientSession, AndroidSession, IosSession

`AuthTokens` numbers token pairs as they are issued; a number stands for the access token, the
refresh token and the stored hash. It is the in-memory repository, where each call is one step, and
what both apps are composed with. `fresh` is the validity of an access token; the expiry of refresh
tokens (30 days) is covered by the answers that get lost or come late, which the apps treat alike.

A call of an app is a `Request`, made once: it loads the stored pair (`Ask`), is answered or gets
401, and then refreshes as its platform does. A refresh has two ends: the server's (`Refresh`, which
comes at any time after the call was sent, also when its caller has given up) and the caller's. A
`Request` can be a sign-in too (`Submit`, `SignIn`, and how each app takes its reply). `KillWith` ends the process and
starts it again with the pair on disk; `torn` remembers the families of which a kill left a pair on
disk that some call had presented, and `strays` those of pairs saved over a store that had changed
since their refresh was sent.

- **Android.** The app's calls run on the main thread, so that what lies
  between two suspensions is one step. `refreshMutex` belongs to an `ApiClient`, and each Activity makes
  one over the same store (MainActivity.kt:63): `mutex` is the open Activity's. `Recreate` replaces the
  Activity, as a turn of the screen does: the calls begun so far are `old`, and end when their
  cancellation reaches them (`Cancelled`), which clears the store if it finds them in
  `refreshSingleFlight`. `split` remembers the families whose stored pair a call had presented when its
  Activity went. `PixelGoMessagingService.onNewToken` builds an `ApiClient` of
  its own, hence a mutex of its own: its calls (`pushed`) neither wait nor lock. `Flush` is the
  background write of `SharedPreferences.apply`. `Fail` clears the store and leaves it to the caller
  to sign out: a presence call does not, and the home screen stays without a session.
- **iOS.** `APIClient` and `SessionStore` are actors, and every await lets other calls in:
  `Reload`, `Follow`/`StartTask`, the resumptions, `SavePair`, `Lead`, `Retry` and `Clear` are what
  lies between awaits, and so are the two ends of a sign-in (`SaveSignIn`, then `Enter` on the main
  actor) and of a sign-out (`Cancel`, `Leave`, then `SignedOut`). `crossed` remembers the families that a
  sign-in saved while another sign-in or a sign-out had yet to change the screen. `awaited` is the task a call holds, `refreshTask` the shared one, which
  `Cancel` (sign-out) takes away. `stale` and `cancelled` are histories: the calls that presented a
  pair which was not stored any more, and the calls whose task a sign-out took away.

What the runs found out about the comments "coalesces refresh rotation" (docs/ARCHITECTURE.md:45, :53,
README.md:104, APIClient.swift:564) is in the properties, as their exceptions: on Android the
messaging service may present the same token as the app, and so may a new Activity while the
refresh of the one before is under way; on iOS a call may decide to refresh the
pair it loaded just before another call saves the next one, start a task between the failure of
another and the clearing of the store, or start one although another is under way, after a sign-out
has cancelled a task: the call that started the cancelled one forgets the task that is shared by
then. Each of these makes the server revoke the session. A pair that is saved after a sign-out stays stored (`strays`), although no account is
shown; and so, on iOS, does one that a sign-in saves before a sign-out that had cleared the store
turns the screen, if the sign-in turned it first (`crossed`). A call that gets 401 may be repeated with the token of an account that has signed in
meanwhile (`UseCurrent`, `Retry`).

## 3. What is checked

All runs are listed in `PROJECT.json`; every property of a passing run is also shown to fail
under a mutant of the code.

| Run | Question | Answer |
|---|---|---|
| `refresh_deep` | After two rotations: `TokenFamilies` implemented, exclusive rotation, replay kills the successor, dead families stay dead, every call answered (replays may deadlock in the database)? | yes |
| `refresh_phantom` | Does a replay revoke the whole family, as docs/AUTH.md:74 says? | **no**: a rotation in flight escapes |
| `idempotency` | Under all faults: one leader unless a lock lapsed, genuine replays, late retries never run, the record of an acknowledged mutation kept for its retries, every request ends? | yes, unless its commit was dropped, its lock lapsed, or a request that had missed the record ran too |
| `idempotency_twice` | Is a mutation executed once (README.md:207)? | **no**, without any fault |
| `transfer` | Both adapters and restarts: ready means payload (local), told means readable, `TransferPromise` implemented? | yes |
| `transfer_regress` | Does an acknowledged transfer stay completed? | **no**: a late `/uploaded` resets it |
| `outbox` | One fault of any kind, locks that get old: does every row settle; sent means told, failed means refused or exhausted; otherwise exclusive workers, one outcome, bounded retries? | yes |
| `presence` | With replicas and Redis failing: which keys are orphaned, does a device that is gone go offline, does one that stays come back online? | a lost DEL, a dead process, a late refresh; yes; yes |
| `delivery` | Does a published event reach every registered connection, and does an app that stays connected list the transfer? | yes, while the replicas stay subscribed |
| `pipeline` | Keyed and other requests until records and windows expire: are executions of a key apart and the abstract promise kept, budgets kept and earned, `Retry-After` at most half a second short, who waits for good? | yes; those behind a handler that panicked |
| `android` | Calls, sign-outs, sign-ins, the messaging service, lost answers, a kill or a new Activity: does an Activity present a token once, what raises the reuse alarm, is the stored pair unused and the account's, does every call end? | yes, with the exceptions above |
| `ios` | The same interleaved at every await: one refresh at a time, what raises the alarm, does the stored pair follow the screen? | yes, with the exceptions above |

The answers in bold are the findings of `PROJECT.json`, each with the line it contradicts. More
disagreements are visible in the models without a run of their own:

- a 2xx whose commit fails goes out without a record (`dropped` in `AcknowledgedIsReplayed`), although
  idempotency_redis.go:60-62 wants to fail closed;
- a request with another body that read no record before a mutation was recorded, and gets the lock
  after it, runs its handler and overwrites the record (`missed` in `AcknowledgedIsReplayed`): the retry
  of the acknowledged mutation gets 409, without any fault, although README.md:200 says that it is
  answered the original response;
- a graceful shutdown between the provider's answer and `MarkSent` leaves the row locked for five
  minutes, since only `Retry` gets a context of its own, although worker.go:147-149 wants no row
  stranded;
- a batch that outlives the five minutes of its locks is claimed by another worker as well
  (`outlived` in `ExclusiveInTime`), although docs/ARCHITECTURE.md:161 calls the worker safe to run on
  multiple replicas;
- a device whose push was skipped as it was online may have connected after the event was published,
  and then knows the transfer from its own listing only (`Delivery`), although the same line says
  that its connection already received the event;
- a 429 is stored for 24 hours and replayed, and so is a 400 that stands for a failing database.

The type invariants and the inductive invariants are not part of the runs: they are proved (section
4), and were checked with TLC at the runs' bounds before.

### Bounds

- `RefreshTokens`: the deep instance starts from a reachable state, a session that has rotated
  twice, and lets two more calls race, which is the least for two replays that deadlock; a second
  account can register or not. The phantom run starts from an empty database with four calls.
  `TTL = 1` and `MaxClock = 1` let a token be valid and expired.
- `RedisIdempotency`: three requests of two bodies: a leader, a waiter and a late retry, one of
  them with another body; two for the violation run.
- `TransferLifecycle`: five calls on one transfer: create, upload, two overlapping `/uploaded`
  calls and `/complete`. Transfers do not interact.
- `OutboxWorker`: two workers and two rows in batches of two; two attempts, so that one is not the
  last; one fault in all, at any step (`MCOutboxWorker!OneFault`; `MaxFaults` and `MaxStops` bound the
  two counters), and one row at most whose lock gets old in a batch (`OneOutlives`), which is enough for
  two workers to have a row, and leaves another to which the properties apply in full. A batch ends, so
  the lock that may not get old in it can do so later and no fairness is lost. The code's 50 and 8 are
  constants of the model.

- `PresenceHub`: two replicas and two connections at a time, the old and the new one of a device
  that reconnects, with any number of reconnects, restarts and Redis outages.
- `Delivery`: two replicas, so that publisher and connection can be apart, one connection at a
  time, and one fault (`MaxFaults`) of any kind at any step; a replica that drains ends without a
  second fault. The overlap of two connections is `presence`'s question.

- `RequestPipeline`: three requests of two bodies, or without a key, on one key and one client: a
  leader, a waiter or a request refused, and one more after record and window have expired (`TTL` = 3,
  `Window` = 5, `MaxTime` = 5). Limits of one, so that the second request is refused; three ticks a
  second, so that a duration can be rounded either way: a rest of four ticks is told as one second, which
  is one tick short, and one of five as two. Keys and clients do not interact.
- `AndroidSession`, `IosSession`: three requests, each a call, a sign-in or (iOS) a sign-out, which is
  one more than the two that race for a token; two accounts; two access tokens that expire, the
  first pair's and its successor's; one kill, or on Android instead of it one Activity that is replaced
  while a call of it waits for the mutex or refreshes (`MCAndroidSession!OneRestart`).

Calls are symmetric in `transfer`; the requests of `pipeline`, `android` and `ios` start in the order of
their names, which loses no behaviour but for renaming; the first account is fixed.

### Fairness

- `RefreshTokens!FairSpec`: weak fairness of every step of a running call: a handler goroutine
  runs, PostgreSQL executes its statement or breaks the deadlock. Clients, failures and time owe
  nothing.
- `RedisIdempotency!FairSpec`: the same, and Redis expires the lock it was given a TTL for.
- `OutboxWorker!FairSpec`: workers poll every second and sends have a 10-second timeout;
  processes are restarted by their supervisor; a five-minute lock and a backoff elapse.

- `RequestPipeline!Fairness`: the server goes on with a request it has received; a request that has not
  been looked up owes nothing, and the clock may stop.
- `AndroidSession!AndroidFairness`: a call that can proceed does, since connections time out and a
  coroutine Mutex is fair to those who wait. Users, expiry, the server and kills owe nothing, and
  neither does a call that was not made. `ios` has no liveness property: fairness of every await of
  three calls is too much to evaluate over its four million states.
- `PresenceHub!HubFairness`: goroutines run (every Redis command, ping and write has a timeout),
  a draining process ends, a key that nobody sets expires.
- `Delivery!Spec`: the handlers of connections, the subscriptions and the worker run, and a
  running app lists, reads and dials. Nothing makes anyone start the app or ends an outage;
  `ReadyIsSeen` states what it assumes: subscribed replicas, and in the end a connection.

Deadlock checking is off where all calls are over or all rows settled: there the system stops.

## 4. What is proved

Every `...Proofs` module proves `Spec => []IInv` from `Init => IInv` and one lemma per action or
group of actions, and reads the properties off `IInv`.

- **RefreshTokens** (assumption: `ConstantsAssumption`). `RotationConsumesOnce`,
  `OneUnusedTokenPerFamily`, `ReuseKillsSuccessor`, `DeadFamilyForever`, and the refinement
  `RotationImplementsFamilies`. The strengthening says
  that what SELECT FOR UPDATE read stays true while the lock is held (`SelectedRow`), and that a
  revocation in progress holds, or has still to visit, the replayed token and its successor
  (`RevokingCovers`): the successor was inserted before the old token could be read as used, so
  the snapshot has it. The token inserted *during* the UPDATE is not covered, which is
  run `refresh_phantom`. For the refinement, three steps change the families and all others stutter:
  `IssueOpens`, `RotationExchanges` and `RevocationRevokes`. The last needs `ReachIsOldest`: the rows that
  an UPDATE has locked or has still to visit belong to the replayed token's family, and with a row
  they have the one it replaced, since the snapshot that has a replacement has all that was committed
  before it. `ConsumedOnce` makes the successor of a token a function that no later step changes
  (`SuccessorStays`). `SurvivorsAreYoungest` is what follows for the table: whatever escapes a
  revocation, no token stays live while the one it was exchanged for is revoked.
- **RedisIdempotency**. `LeaderExclusion`, `ReplaysAreGenuine`, `LateRetriesNeverRun`,
  `AcknowledgedReplayable`, under every set of faults. The strengthening: a record was computed by
  a request with its fingerprint, a late request sees it in its first GET, and a leader past its
  handler has the status it will store. For `AcknowledgedReplayable`, `OnlyMissedLead`: after an
  acknowledged mutation a record is always there, so that whoever reads it stops, and whoever has or
  may still win the lock had missed it.
- **TransferLifecycle**. `ToldIsReadable` and `Refinement` (every step of every call is a step of
  `TransferPromise` or none) for both adapters with restarts; `OfferedHasPayload` for the local
  adapter until a restart. The strengthening: one call creates the transfer, a handler past its
  Get knows how far the transfer has come, and the local adapter stores only checked bytes.
- **OutboxWorker**. `SentIsEarned` and `FailureIsEarned` also when workers overlap; `WorkersExclude`,
  `OutcomesExclude` and `RetriesEnd` for every row whose lock did not get old in a batch, whatever crashes, shutdowns and
  database errors happen. The strengthening: such a row in a batch is freshly locked, unsettled, and
  its attempts are those the claim read (`HeldIsLocked`), so the last attempt is recognised.

- **PresenceHub**. `KeysAreOwned`: the action property `OrphansAreExceptional`, from the type
  invariant: a step either leaves every owner of the key in place, or moves one connection that
  stays an owner or was none, or deletes the key, or is one of the exceptions.
- **Delivery**. `OwedCorrect`. `OwedIsComing` is inductive with the type invariant because it
  also says that an owed connection is up and registered: a replica that forgets its inbox has
  broken the connection before.

- **RequestPipeline**. `PipelineIsIdempotent`: a step of the chain is a step of `MemoryIdempotency` or
  leaves it alone, so that what holds of the middleware alone (`ExecutionsApart`, the refinement of
  `IdempotentMutation`) holds of the chain (`PipelineRunsApart`, `PipelineKeepsPromise`). The
  strengthening there is `KeptUntilExpiry`: the map keeps the entry of every execution under way. For
  the limiter, `AdmissionIsBounded`, `RefusalsAreJustified` and `RetryAfterSuffices` rest on
  `CountsAreTrue`, which counts the requests of the current window and of the one before it: a stretch
  as long as a window meets no third one. `ReplaysAreFree` adds that a leader whose
  handler is over has had its verdict from the limiter (`RunsArePaid`).
- **ClientSession**. For Android, `AndroidRotatesOnce`, `AndroidReuseIsExplained`,
  `AndroidStoredIsUnused`, `AndroidStoreIsAccounts`. The strengthening: a call that refreshes holds the
  mutex; a pair that was issued and not yet saved is known to one call and was presented by none
  (`ReplyIsNew`); a call that presented the stored pair is still refreshing, or a kill came between, and
  if its Activity is gone that is on record in `split` or `torn` (`PresentedIsGone`); a used pair was presented by a call whose refresh was answered
  (`UsedWasShown`). So when a used token is presented again, there is another call that presented it,
  and the two did not share a mutex, or a kill or a new Activity explains them (`TwinsAreExplained`). For iOS, `IosSingleFlight`: as long as
  no sign-out has cancelled one, whoever has a task under way or a pair to save is the call that
  `refreshTask` names (`LeaderIsShared`). `IosRevocationsAreExplained` adds what
  stands in for the mutex: a call that has exchanged the stored pair is about to save its successor, or
  a kill tore the family (`ExchangedIsGone`), so that a call which finds no shared task and presents
  the stored pair is the first to do so, the exceptions aside (`IosRotatesOnce`); a task under way is
  awaited by the call that started it (`TaskIsAwaited`), and `IosReplyIsNew` is `ReplyIsNew`. `IosStoreFollowsScreen` needs what a call
  that is about to change the screen leaves in the store (`ScreenFollows`): the end of a sign-in finds a
  pair of its account, and the end of a sign-out none, strays and crossings aside. The steps
  of the server are proved once for both apps (`ServeUsed`, `ServeRevoked`), and so is that they are steps
  of `TokenFamilies` (`ServeImplements`), from `Chained`: a pair is used exactly if its family has a
  later one, and a family is revoked as a whole. With it, `AndroidImplementsFamilies` and
  `IosImplementsFamilies`: both sessions run against the same abstract service as the database.

Every proof module but `DeliveryProofs` also proves its type invariant (`TypeCorrect`, `PipelineTypes`,
`AndroidTypes`, `IosTypes`); in `DeliveryProofs` it is part of `Invariance`.

Only model-checked: the liveness properties (`EveryCallAnswered`, `EveryRequestEnds`,
`EveryRowSettles`, `PresenceEnds`, `PresenceReturns`, `ReadyIsSeen`, `CallsEnd`,
`StuckOnlyBehindPanic`), which fairness and ENABLED put beyond TLAPS. The refinements of the two
`...ImplementsFamilies` theorems have no run of their own: TLC was given them, and `Chained`, on part of the
states of `android` and `ios`.

## 5. Not modelled, and why

- Password hashing, JWT and HMAC signatures, JSON, routing, headers: pure functions whose
  results the models take as given. (docs speak of bcrypt; `auth/password.go` uses PBKDF2. No
  property here depends on it.)
- The in-memory repositories of users, devices and transfers: one mutex around each operation, so that
  they behave like the PostgreSQL ones without their interleavings.
- APNs and FCM requests and token caches: only the answers matter to the worker; a cached token that
  the provider no longer accepts is such an answer.
- Observability, readiness, load tests, deployment files, analytics examples, user interfaces:
  no state that the protocol depends on.
- Registration and listing of devices: single statements, and a POST with a key like any other.
- The apps' sending and downloads, keychain errors, the reconnection of Android's `RealtimeClient` and its
  generations: a save that the keychain refuses loses a rotation as a kill does, and a socket of an old
  generation brings events that only cause another listing.
- The middleware in front of `withIdempotency` (recovery, logging, authentication) but for the verdict
  on an access token, and the bodies and keys that are turned away for their length.
- What Redis may lose besides: a message to a subscriber whose go-redis channel is full, and the rate
  counters at a restart.
- Two losses that `ReadyIsSeen` assumes away and the code accepts: a replica whose subscription
  is not up (`ear`) serves connections that no event reaches, and a process that dies between the
  UPDATE and the publication leaves a connected device without event and without push.

## 6. Plan

Written: `TokenFamilies`/`RefreshTokens`, `RedisIdempotency`, `TransferPromise`/`TransferLifecycle`, `OutboxWorker`,
`PresenceHub`, `Delivery`, `IdempotentMutation`/`MemoryIdempotency`/`RateLimit`/`RequestPipeline`,
`AuthTokens`/`ClientSession`/`AndroidSession`/`IosSession`, each with proofs.

What is left: Android's `RealtimeClient` generations and the registration of a device with its key.
