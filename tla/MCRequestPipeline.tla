------------------------- MODULE MCRequestPipeline --------------------------
(* Instance of RequestPipeline for TLC.  Requests are interchangeable, and  *)
(* so are the fingerprints: of the initial states that differ in their      *)
(* names alone, only the one in the order of Rank is a start.               *)
EXTENDS RequestPipeline, Integers

Rank(r) == IF key[r] = NoKey THEN (IF bucket[r][1] = "read" THEN -2 ELSE -1) ELSE fp[r]

MCInit ==
    /\ PipelineInit
    /\ \A r, q \in Requests : r < q => Rank(r) <= Rank(q)
    /\ \A r \in Requests : Rank(r) = 2 => \E q \in Requests : Rank(q) = 1

MCSpec == MCInit /\ [][PipelineNext]_pipeline /\ Fairness
=============================================================================
