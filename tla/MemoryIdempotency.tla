------------------------- MODULE MemoryIdempotency -------------------------
(***************************************************************************)
(* withIdempotency, the adapter of a server without Redis: POST requests   *)
(* of one process share a map of entries under a mutex; the first request  *)
(* of a key runs the handler, equal ones wait on its channel.              *)
(* Requests without a key go straight to the handler; one with a key too   *)
(* long or a body too large is turned away before it comes here.  The      *)
(* handler is whatever is behind the middleware: RequestPipeline.          *)
(* An entry outlives its place in the map (waiters hold a pointer), so it  *)
(* is named by the request that made it.                                   *)
(***************************************************************************)
EXTENDS RequestClock

CONSTANTS Keys,          \* user and Idempotency-Key: scopedIdempotencyKey
          Fingerprints,  \* method, path, user and body: requestFingerprint
          TTL,           \* of a record, 24 hours in the code
          NoKey, NoEntry, Conflict, None

ASSUME ConstantsAssumption ==
    /\ TTL \in Nat \ {0}
    /\ NoKey \notin Keys /\ None \notin Fingerprints /\ NoEntry \notin Requests
    /\ Conflict \notin Requests /\ None \notin Requests \cup {Conflict}

\* Answers of what is behind the middleware: limited (429, withRateLimit),
\* failed (5xx), and done, all others: 2xx and 4xx are kept alike.
Status == {"done", "limited", "failed"}

ASSUME NoneAssumption == None \notin Status

VARIABLES key,      \* key of each request; NoKey: none, not a POST, or /v1/auth/
          fp,       \* its fingerprint, if it has a key
          entries,  \* the map: the request that made the entry of each key
          pc,       \* next step of each request
          stamp,    \* the now of each request that made an entry
          status,   \* what its handler answered, into a buffer
          leader    \* the entry a request waits on

vars == <<now, key, fp, entries, pc, stamp, status, leader>>

Leading == {"run", "record", "close"}
Final   == {"answered", "replayed", "conflict", "panicked"}

TypeOK ==
    /\ now \in Nat
    /\ key \in [Requests -> Keys \cup {NoKey}] /\ fp \in [Requests -> Fingerprints \cup {None}]
    /\ entries \in [Keys -> Requests \cup {NoEntry}]
    /\ pc \in [Requests -> {"new", "waiting"} \cup Leading \cup Final]
    /\ stamp \in [Requests -> Nat]
    /\ status \in [Requests -> Status \cup {None}]
    /\ leader \in [Requests -> Requests \cup {None}]

Asked ==
    /\ key \in [Requests -> Keys \cup {NoKey}] /\ fp \in [Requests -> Fingerprints \cup {None}]
    /\ \A r \in Requests : fp[r] = None <=> key[r] = NoKey

Init ==
    /\ Asked
    /\ now = 0
    /\ entries = [k \in Keys |-> NoEntry]
    /\ pc = [r \in Requests |-> IF key[r] = NoKey THEN "run" ELSE "new"]
    /\ stamp = [r \in Requests |-> 0]
    /\ status = [r \in Requests |-> None]
    /\ leader = [r \in Requests |-> None]

Goto(r, label) == pc' = [pc EXCEPT ![r] = label]

\* The entry of p as the map's readers see it: status, header and expiresAt
\* are set together under the mutex, and the channel is closed after it.
Recorded(p) == pc[p] \in {"close", "answered"}
Ready(p)    == pc[p] = "answered"

ExpiresAt(p) == stamp[p] + TTL

-----------------------------------------------------------------------------
\* Mutant: records are dropped one tick early.
PruneEarly(t) ==
    [k \in Keys |-> IF /\ entries[k] # NoEntry /\ Recorded(entries[k])
                       /\ ExpiresAt(entries[k]) <= t + 1
                      THEN NoEntry ELSE entries[k]]

\* pruneExpiredLocked, for all keys.
Pruned(t) ==
    [k \in Keys |-> IF /\ entries[k] # NoEntry /\ Recorded(entries[k])
                       /\ ExpiresAt(entries[k]) <= t
                      THEN NoEntry ELSE entries[k]]

\* The first critical section: prune, look the key up, put a new entry.
Lead(r) ==
    /\ Pruned(now)[key[r]] = NoEntry
    /\ entries' = [Pruned(now) EXCEPT ![key[r]] = r]
    /\ stamp' = [stamp EXCEPT ![r] = now]
    /\ Goto(r, "run")
    /\ UNCHANGED leader

\* Mutant: the fingerprint is not compared.
WaitForAny(r) ==
    LET found == Pruned(now)[key[r]] IN
    /\ found # NoEntry
    /\ entries' = Pruned(now)
    /\ leader' = [leader EXCEPT ![r] = found]
    /\ Goto(r, "waiting")
    /\ UNCHANGED stamp

Wait(r) ==
    LET found == Pruned(now)[key[r]] IN
    /\ found # NoEntry /\ fp[found] = fp[r]
    /\ entries' = Pruned(now)
    /\ leader' = [leader EXCEPT ![r] = found]
    /\ Goto(r, "waiting")
    /\ UNCHANGED stamp

Refuse(r) ==
    LET found == Pruned(now)[key[r]] IN
    /\ found # NoEntry /\ fp[found] # fp[r]
    /\ entries' = Pruned(now)
    /\ Goto(r, "conflict")
    /\ UNCHANGED <<stamp, leader>>

\* Once the body is read.  The clock is read just before the mutex is taken:
\* a wait for it is short against a TTL of hours.
Lookup(r) ==
    /\ pc[r] = "new" /\ key[r] # NoKey
    /\ Lead(r) \/ Wait(r) \/ Refuse(r)
    /\ UNCHANGED <<now, key, fp, status>>

\* next.ServeHTTP with a buffer for the response; with the response itself for
\* a request without a key.
Execute(r, s) ==
    /\ pc[r] = "run"
    /\ IF key[r] = NoKey
         THEN Goto(r, "answered") /\ UNCHANGED status
         ELSE Goto(r, "record") /\ status' = [status EXCEPT ![r] = s]
    /\ UNCHANGED <<now, key, fp, entries, stamp, leader>>

\* net/http recovers the panic and drops the connection: the entry stays, and
\* nobody closes its channel.
Panic(r) ==
    /\ pc[r] = "run" /\ key[r] # NoKey
    /\ Goto(r, "panicked")
    /\ UNCHANGED <<now, key, fp, entries, stamp, status, leader>>

\* The second critical section.
Record(r) ==
    /\ pc[r] = "record"
    /\ entries' = IF status[r] = "failed" THEN [entries EXCEPT ![key[r]] = NoEntry] ELSE entries
    /\ Goto(r, "close")
    /\ UNCHANGED <<now, key, fp, stamp, status, leader>>

\* Mutant: the channel of a failed request is not closed.
CloseStored(r) ==
    /\ pc[r] = "close" /\ status[r] # "failed"
    /\ Goto(r, "answered")
    /\ UNCHANGED <<now, key, fp, entries, stamp, status, leader>>

\* close(entry.ready), and the leader's own response.
Close(r) ==
    /\ pc[r] = "close"
    /\ Goto(r, "answered")
    /\ UNCHANGED <<now, key, fp, entries, stamp, status, leader>>

\* <-ready, without regard to the request's context.
Replay(r) ==
    /\ pc[r] = "waiting" /\ Ready(leader[r])
    /\ Goto(r, "replayed")
    /\ UNCHANGED <<now, key, fp, entries, stamp, status, leader>>

-----------------------------------------------------------------------------
Coordinate(r) == Record(r) \/ Close(r) \/ Replay(r)
Handle(r) == Panic(r) \/ \E s \in Status : Execute(r, s)

Next ==
    \/ \E r \in Requests : Lookup(r) \/ Coordinate(r) \/ Handle(r)
    \/ Tick /\ UNCHANGED <<key, fp, entries, pc, stamp, status, leader>>

Spec == Init /\ [][Next]_vars

-----------------------------------------------------------------------------
\* The requests that made an entry.
Leaders == {r \in Requests : key[r] # NoKey /\ pc[r] \in Leading \cup {"answered", "panicked"}}

\* A request executes although another of its key did only when that one
\* ended in a server error, or has ended and arrived a TTL ago, however long
\* its handler ran.  A 429 of the limiter is no server error: the key of a
\* request that was turned away for its rate is spent for the TTL.
RunsApart ==
    [][\A r \in Leaders' \ Leaders, p \in Leaders :
          key[p] = key[r] => Recorded(p) /\ (status[p] = "failed" \/ now >= ExpiresAt(p))]_vars

\* The map keeps the entry of every execution that is under way, and of every
\* one that ended without a server error until its record expires.
KeptUntilExpiry ==
    \A r \in Leaders :
        \/ entries[key[r]] = r
        \/ Recorded(r) /\ (status[r] = "failed" \/ now >= ExpiresAt(r))

\* Where the code is at the abstract promise.
Outcome == [r \in Requests |-> IF key[r] # NoKey /\ Recorded(r) THEN status[r] ELSE None]

Told == [r \in Requests |->
    IF pc[r] = "replayed" THEN leader[r]
    ELSE IF pc[r] = "conflict" THEN Conflict
    ELSE IF key[r] # NoKey /\ pc[r] = "answered" THEN r
    ELSE None]

Promise == INSTANCE IdempotentMutation
    WITH slot <- entries, outcome <- Outcome, reply <- Told, Failed <- "failed"

\* docs/TRANSFER_LIFECYCLE.md, "Current semantics": the adapter keeps the
\* promise of an idempotency key.
PromiseKept == Promise!Spec

-----------------------------------------------------------------------------
\* The inductive strengthening.
EntryHasItsKey ==
    \A k \in Keys : entries[k] # NoEntry => entries[k] \in Leaders /\ key[entries[k]] = k

StampsArePast == \A r \in Requests : stamp[r] <= now

StepsInOrder ==
    \A r \in Requests :
        /\ pc[r] \in {"waiting", "record", "close", "replayed", "conflict"} => key[r] # NoKey
        /\ pc[r] \in {"record", "close"} => status[r] # None
        /\ pc[r] = "answered" /\ key[r] # NoKey => status[r] # None
        /\ pc[r] \in {"new", "waiting", "run"} => status[r] = None
        /\ pc[r] \in {"waiting", "replayed"} =>
              /\ leader[r] \in Leaders
              /\ key[leader[r]] = key[r] /\ fp[leader[r]] = fp[r]

IInv ==
    /\ TypeOK
    /\ EntryHasItsKey
    /\ StampsArePast
    /\ StepsInOrder
    /\ KeptUntilExpiry
=============================================================================
