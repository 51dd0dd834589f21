---------------------------- MODULE MCIosSession ----------------------------
(* Instance of IosSession for TLC.  Calls are interchangeable: of each set  *)
(* of behaviours that differ in their names, the one that starts them in    *)
(* order is explored.                                                       *)
EXTENDS IosSession

CONSTANT Alice

\* The first account is as good as any.
MCInit == IosInit /\ account = Alice

InOrder == \A p, q \in Requests : p < q /\ pc'[p] = "idle" => pc'[q] = "idle"

MCNext == IosNext /\ InOrder

MCSpec == MCInit /\ [][MCNext]_iosVars
=============================================================================
