-------------------------- MODULE RequestPipeline ---------------------------
(***************************************************************************)
(* The middleware of httpapi.New for a server without Redis idempotency:   *)
(* withIdempotency outside, withRateLimit inside it, the handlers inside   *)
(* both.  So a replay costs no budget, and a 429 is an answer like any     *)
(* other to the idempotency record.                                        *)
(***************************************************************************)
EXTENDS MemoryIdempotency, RateLimit

pipeline == <<vars, limits>>

PipelineTypeOK == TypeOK /\ LimitTypeOK

\* Only POSTs use keys; and main installs the Redis limiter together with the
\* Redis idempotency: behind it, this module has the requests without a key.
PipelineInit ==
    /\ Init /\ LimitInit
    /\ \A r \in Requests : key[r] # NoKey => adapter = "memory" /\ bucket[r][1] = "mutation"

\* Mutant: the limiter looks at requests before their keys are looked up.
LimitFirst(r) ==
    /\ pc[r] \in {"new", "run"}
    /\ Allow(r) \/ FailOpen(r)
    /\ UNCHANGED vars

ToLimiter(r) ==
    /\ pc[r] = "run"
    /\ Allow(r) \/ FailOpen(r)
    /\ UNCHANGED vars

\* The handler is reached, or the limiter has answered in its place.
ToHandler(r) ==
    /\ \/ verdict[r] \in {"admitted", "open"} /\ (Panic(r) \/ \E s \in Status \ {"limited"} : Execute(r, s))
       \/ verdict[r] = "refused" /\ Execute(r, "limited")
    /\ UNCHANGED limits

Process(r) == ToLimiter(r) \/ ToHandler(r) \/ (Coordinate(r) /\ UNCHANGED limits)

PipelineNext ==
    \/ \E r \in Requests : Lookup(r) /\ UNCHANGED limits
    \/ \E r \in Requests : Process(r)
    \/ Tick /\ UNCHANGED <<key, fp, entries, pc, stamp, status, leader, limits>>

PipelineSpec == PipelineInit /\ [][PipelineNext]_pipeline

\* The server goes on with every request it has received.
Fairness == \A r \in Requests : WF_pipeline(Process(r))

FairPipeline == PipelineSpec /\ Fairness

-----------------------------------------------------------------------------
\* Every request is answered, unless an equal one before it panicked: its
\* entry never becomes ready and never expires, and those behind it wait for
\* good, whatever their clients do.
StuckOnlyBehindPanic ==
    \A r \in Requests :
        pc[r] # "new" ~> pc[r] \in Final \/ (pc[r] = "waiting" /\ pc[leader[r]] = "panicked")

\* A retry that is answered from a record, or refused for its key, spends no
\* budget of its client; and every answer of a handler was paid for.
OnlyRunsAreCounted ==
    \A r \in Requests :
        /\ verdict[r] # "none" => pc[r] \in Leading \cup {"answered", "panicked"}
        /\ pc[r] = "answered" => verdict[r] # "none"
        /\ status[r] # None => (status[r] = "limited" <=> verdict[r] = "refused")
=============================================================================
