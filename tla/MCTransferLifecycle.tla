------------------------ MODULE MCTransferLifecycle ------------------------
(* Instance of TransferLifecycle for TLC: calls are interchangeable.        *)
EXTENDS TransferLifecycle, TLC

RequestSymmetry == Permutations(Requests)
=============================================================================
