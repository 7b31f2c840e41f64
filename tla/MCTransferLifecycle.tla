------------------------- MODULE MCTransferLifecycle -------------------------
(***************************************************************************)
(* Two transfers updated at different times and a third one that may be    *)
(* created, listed one at a time.                                          *)
(***************************************************************************)
EXTENDS TransferLifecycle, TLC

CONSTANTS t1, t2, t3, w1, w2

TwoTransfers == (t1 :> 1) @@ (t2 :> 2)

SomeStatuses == {"created", "completed", "rejected"}

WorkerSymmetry == Permutations(Workers)

=============================================================================
