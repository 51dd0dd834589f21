------------------------- MODULE IdempotentMutation -------------------------
(***************************************************************************)
(* What an idempotency key promises to POST requests that carry it: at any *)
(* time at most one of them executes, its outcome is what every equal      *)
(* request is answered with, a different request is turned away while the  *)
(* key is in use, and the key is free again after a server error or when   *)
(* its record is forgotten.                                                *)
(***************************************************************************)
CONSTANTS Requests, Keys, NoEntry, Conflict, None, Failed

VARIABLES key,      \* the key of each request
          fp,       \* what it asks for
          slot,     \* the request that holds each key
          outcome,  \* what the execution of each request came to
          reply     \* the request whose outcome each request was told

vars == <<key, fp, slot, outcome, reply>>

Init ==
    /\ slot = [k \in Keys |-> NoEntry]
    /\ outcome = [r \in Requests |-> None]
    /\ reply = [r \in Requests |-> None]

\* Keys whose outcome is known may be forgotten at any step that takes one.
Kept == {k \in Keys : slot[k] # NoEntry /\ outcome[slot[k]] # None}
After(F) == [k \in Keys |-> IF k \in F THEN NoEntry ELSE slot[k]]

Begin(r) ==
    /\ outcome[r] = None /\ reply[r] = None /\ key[r] \in Keys
    /\ \E F \in SUBSET Kept :
          /\ After(F)[key[r]] = NoEntry
          /\ slot' = [After(F) EXCEPT ![key[r]] = r]
    /\ UNCHANGED <<key, fp, outcome, reply>>

End(r, s) ==
    /\ key[r] \in Keys /\ slot[key[r]] = r /\ outcome[r] = None
    /\ outcome' = [outcome EXCEPT ![r] = s]
    /\ slot' = IF s = Failed THEN [slot EXCEPT ![key[r]] = NoEntry] ELSE slot
    /\ UNCHANGED <<key, fp, reply>>

Reply(r, q) ==
    /\ reply[r] = None
    /\ key[q] = key[r] /\ fp[q] = fp[r] /\ outcome[q] # None
    /\ reply' = [reply EXCEPT ![r] = q]
    /\ UNCHANGED <<key, fp, slot, outcome>>

Reject(r) ==
    /\ reply[r] = None /\ key[r] \in Keys
    /\ \E F \in SUBSET Kept :
          /\ slot' = After(F)
          /\ slot'[key[r]] # NoEntry /\ fp[slot'[key[r]]] # fp[r]
    /\ reply' = [reply EXCEPT ![r] = Conflict]
    /\ UNCHANGED <<key, fp, outcome>>

Forget ==
    /\ \E F \in SUBSET Kept : slot' = After(F)
    /\ UNCHANGED <<key, fp, outcome, reply>>

Next ==
    \/ \E r \in Requests : Begin(r) \/ Reject(r) \/ \E q \in Requests : Reply(r, q)
    \/ \E r \in Requests, s \in {"done", "limited", Failed} : End(r, s)
    \/ Forget

Spec == Init /\ [][Next]_vars
=============================================================================
