-------------------------- MODULE MCAndroidSession --------------------------
(* Instance of AndroidSession for TLC.  Calls are interchangeable: of each  *)
(* set of behaviours that differ in their names, the one that starts them   *)
(* in order is explored.                                                    *)
EXTENDS AndroidSession

CONSTANT Alice

InOrder == \A p, q \in Requests : p < q /\ pc'[p] = "idle" => pc'[q] = "idle"

\* Bound: the app is killed or its Activity is replaced, once, and the Activity
\* with a call in refreshSingleFlight.
OneRestart ==
    /\ Recreate \/ KillApp => old = {}
    /\ Recreate => \E q \in Begun \ pushed : pc[q] \in {"waiting", "refreshing"}

\* The first account is as good as any.
MCInit == AndroidInit /\ account = Alice

MCNext == AndroidNext /\ InOrder /\ OneRestart

MCSpec == MCInit /\ [][MCNext]_androidVars /\ AndroidFairness
=============================================================================
