--------------------------- MODULE TransferPromise ---------------------------
(***************************************************************************)
(* What a transfer promises the two devices, without its handlers: it is   *)
(* created once, becomes ready only on an inspection of the payload that   *)
(* passed, and completed only from ready; it is never deleted and never    *)
(* goes back to uploading.  Read off transfers.Status and the guards of    *)
(* transfers.Service.                                                      *)
(***************************************************************************)
VARIABLES status,    \* what the devices see of the transfer
          inspected  \* an inspection that passed is in force

vars == <<status, inspected>>

Init == status = "absent" /\ inspected = FALSE

Create == status = "absent" /\ status' = "uploading" /\ UNCHANGED inspected

Inspect == status # "absent" /\ inspected' = TRUE /\ UNCHANGED status

\* The call that inspected the payload ends without an offer.
Forget == status = "uploading" /\ inspected' = FALSE /\ UNCHANGED status

Offer == status = "uploading" /\ inspected /\ status' = "ready" /\ UNCHANGED inspected

Acknowledge == status = "ready" /\ status' = "completed" /\ UNCHANGED inspected

\* A late duplicate of the offer; the destination acknowledges once more.
OfferAgain == status = "completed" /\ status' = "ready" /\ UNCHANGED inspected

Next == Create \/ Inspect \/ Forget \/ Offer \/ Acknowledge \/ OfferAgain

Spec == Init /\ [][Next]_vars
=============================================================================
