-------------------------- MODULE MCOutboxWorker --------------------------
(* Instance of OutboxWorker for TLC: one fault in all, be it a database     *)
(* error, a shutdown or a crash, and one row whose lock gets old in a       *)
(* batch.                                                                   *)
EXTENDS OutboxWorker

OneFault == faults' + stops' <= 1

OneOutlives == Cardinality(outlived') <= 1

MCNext == Next /\ OneFault /\ OneOutlives

MCSpec == Init /\ [][MCNext]_vars /\ Fairness
=============================================================================
