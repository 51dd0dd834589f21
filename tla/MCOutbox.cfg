\* Two workers, batches of two in which one lock may get old, one fault.
SPECIFICATION MCSpec
CONSTANTS
    NumRows = 2
    Workers = {w1, w2}
    BatchSize = 2
    MaxAttempts = 2
    MaxFaults = 1
    MaxStops = 1
INVARIANTS SentMeansTold FailedMeansExhausted ExclusiveInTime OneOutcome RetriesBounded
PROPERTY EveryRowSettles
\* all rows settled and all locks free: the system stops
CHECK_DEADLOCK FALSE
