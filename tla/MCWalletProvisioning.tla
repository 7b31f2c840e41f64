------------------------ MODULE MCWalletProvisioning ------------------------
(***************************************************************************)
(* Values for model-checking WalletProvisioning: a registered tenant t1, a *)
(* registered tenant t2, and t3, which no row of tenants names.            *)
(***************************************************************************)
EXTENDS WalletProvisioning, TLC

CONSTANTS t1, t2, t3

\* t2's UUID has the lower 64 bits of t1's.
SharedBits == (t1 :> 1) @@ (t2 :> 1) @@ (t3 :> 2)

\* Every tenant has bits of its own, as UUID v7 makes all but certain.
DistinctBits == (t1 :> 1) @@ (t2 :> 2) @@ (t3 :> 3)

\* Handlers are interchangeable.
HandlerSymmetry == Permutations(Handlers)

=============================================================================
