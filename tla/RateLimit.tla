----------------------------- MODULE RateLimit ------------------------------
(***************************************************************************)
(* withRateLimit and its two limiters: fixed windows of requests per       *)
(* client address and scope, in a map under a mutex or in Redis, where the *)
(* script's INCR and PEXPIRE are one step.  A window that is over and a    *)
(* window that was never opened are the same to both.                      *)
(* Allow reads the clock and counts in one step: a wait for the mutex is   *)
(* short against a window of a minute.  Paths outside /v1/ and servers     *)
(* that are built without a limiter bypass it, and are left out.           *)
(***************************************************************************)
EXTENDS RequestClock, FiniteSets

CONSTANTS Hosts,          \* client addresses
          ReadLimit,      \* readRequestLimit, 240 in the code
          MutationLimit,  \* mutationRequestLimit, 120
          Window,         \* rateLimitWindow, a minute
          Second          \* ticks of the clock in a second

ASSUME LimitsAssumption ==
    /\ IsFiniteSet(Requests)
    /\ ReadLimit \in Nat \ {0} /\ MutationLimit \in Nat \ {0}
    /\ Window \in Nat \ {0} /\ Second \in Nat \ {0}

Scopes  == {"read", "mutation"}
Buckets == Scopes \X Hosts
Limit(b) == IF b[1] = "read" THEN ReadLimit ELSE MutationLimit

VARIABLES adapter,  \* the limiter that main installs: memory or redis
          bucket,   \* clientRateLimitKey of each request
          windows,  \* count and expiry of each bucket; expiry 0: none yet
          verdict,  \* what became of each request
          at        \* when a request that was let through was counted

limits == <<adapter, bucket, windows, verdict, at>>

LimitTypeOK ==
    /\ adapter \in {"memory", "redis"}
    /\ bucket \in [Requests -> Buckets]
    /\ windows \in [Buckets -> [count : Nat, expires : Nat]]
    /\ verdict \in [Requests -> {"none", "admitted", "refused", "open"}]
    /\ at \in [Requests -> Nat]

LimitInit ==
    /\ adapter \in {"memory", "redis"}
    /\ bucket \in [Requests -> Buckets]
    /\ windows = [b \in Buckets |-> [count |-> 0, expires |-> 0]]
    /\ verdict = [r \in Requests |-> "none"]
    /\ at = [r \in Requests |-> 0]

\* Mutant: every request moves the end of the window.
CountedSliding(b) ==
    [count   |-> IF windows[b].expires <= now THEN 1 ELSE windows[b].count + 1,
     expires |-> now + Window]

\* Mutant: every request opens a window.
CountedAnew(b) == [count |-> 1, expires |-> now + Window]

\* The window of b with one request more.
Counted(b) ==
    IF windows[b].expires <= now
      THEN [count |-> 1, expires |-> now + Window]
      ELSE [windows[b] EXCEPT !.count = @ + 1]

\* Mutant: seconds are cut off.
Truncated(d) == d \div Second

\* Duration.Round(time.Second): half a second rounds up.
Rounded(d) == (2 * d + Second) \div (2 * Second)

RetryAfter(d) == IF Rounded(d) < 1 THEN 1 ELSE Rounded(d)

Within(b, count) == count <= Limit(b)

Allow(r) ==
    LET b == bucket[r]
        w == Counted(b)
    IN  /\ verdict[r] = "none"
        /\ windows' = [windows EXCEPT ![b] = w]
        /\ IF Within(b, w.count)
             THEN verdict' = [verdict EXCEPT ![r] = "admitted"] /\ at' = [at EXCEPT ![r] = now]
             ELSE verdict' = [verdict EXCEPT ![r] = "refused"] /\ UNCHANGED at
        /\ UNCHANGED <<adapter, bucket>>

\* Redis fails, before or after the script has run: the request goes on.
FailOpen(r) ==
    /\ adapter = "redis" /\ verdict[r] = "none"
    /\ windows' \in {windows, [windows EXCEPT ![bucket[r]] = Counted(bucket[r])]}
    /\ verdict' = [verdict EXCEPT ![r] = "open"]
    /\ at' = [at EXCEPT ![r] = now]
    /\ UNCHANGED <<adapter, bucket>>

-----------------------------------------------------------------------------
Verdicts(b, v, from, to) ==
    {r \in Requests : bucket[r] = b /\ verdict[r] = v /\ from <= at[r] /\ at[r] < to}

\* Any stretch of time as long as a window admits at most two windows'
\* requests of a client: the end of one and the start of the next.
AtMostTwoWindows ==
    \A b \in Buckets, t \in 0..now :
        Cardinality(Verdicts(b, "admitted", t, t + Window)) <= 2 * Limit(b)

\* A client is refused only if it spent its budget less than a window before;
\* a request that a failing Redis let through may have been counted too.
RefusedMeansSpent ==
    [][\A r \in Requests : verdict[r] = "none" /\ verdict'[r] = "refused" =>
          Cardinality({q \in Requests : /\ bucket[q] = bucket[r]
                                        /\ verdict[q] \in {"admitted", "open"}
                                        /\ at[q] + Window > now}) >= Limit(bucket[r])]_limits

\* The window that refuses a request is over when the client has waited as
\* long as Retry-After says, and less than half a second for its rounding.
WaitIsEnough ==
    \A b \in Buckets :
        windows[b].expires > now =>
            windows[b].expires <= now + RetryAfter(windows[b].expires - now) * Second + (Second - 1) \div 2

-----------------------------------------------------------------------------
\* The inductive strengthening: which requests the window of b, and the one
\* before it, let through.
InWindow(b, V) ==
    {r \in Requests : bucket[r] = b /\ verdict[r] \in V /\ windows[b].expires <= at[r] + Window}

InLast(b) ==
    {r \in Requests : /\ bucket[r] = b /\ verdict[r] = "admitted"
                      /\ at[r] + Window < windows[b].expires
                      /\ windows[b].expires <= at[r] + 2 * Window}

TimesInOrder ==
    /\ \A b \in Buckets : windows[b].expires <= now + Window
    /\ \A r \in Requests :
          /\ at[r] <= now
          /\ verdict[r] = "admitted" => at[r] < windows[bucket[r]].expires

CountsAreTrue ==
    \A b \in Buckets :
        /\ Cardinality(InWindow(b, {"admitted"})) <= windows[b].count
        /\ Cardinality(InWindow(b, {"admitted"})) <= Limit(b)
        /\ Cardinality(InLast(b)) <= Limit(b)
        /\ \/ windows[b].count <= Cardinality(InWindow(b, {"admitted", "open"}))
           \/ Limit(b) <= Cardinality(InWindow(b, {"admitted", "open"}))

LimitIInv == LimitTypeOK /\ TimesInOrder /\ CountsAreTrue
=============================================================================
