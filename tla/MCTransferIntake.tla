-------------------------- MODULE MCTransferIntake --------------------------
(***************************************************************************)
(* Bodies for model-checking TransferIntake.  Two bodies of one corridor   *)
(* differ in the amount only.                                              *)
(***************************************************************************)
EXTENDS TransferIntake, TLC

CONSTANTS t1, t2, k1, k2

Body(tenant, key, from, to, amount, form) ==
    [tenant |-> tenant, key |-> key, from |-> from, to |-> to,
     amount |-> amount, form |-> form]

\* Every key has corridors of one compliance region, the keys between them of
\* all: two tenants, two keys, no key, and bodies the handler or the table refuses.
OneRegionBodies ==
    {Body(t1, k1, "EUR", "SEK", 1, "ok"), Body(t1, k1, "GBP", "DKK", 1, "ok"),
     Body(t1, k2, "EUR", "IDR", 2, "ok"), Body(t2, k1, "GBP", "USD", 1, "ok"),
     Body(t1, NoKey, "USD", "USD", 1, "ok"), Body(t1, k1, "EUR", "EUR", 1, "unfit"),
     Body(t1, k1, "EUR", "EUR", 1, "bad")}

\* One tenant, one key, corridors of every region.
MixedBodies ==
    {Body(t1, k1, c[1], c[2], 1, "ok") :
        c \in {<<"EUR", "IDR">>, <<"GBP", "SEK">>, <<"GBP", "GBP">>, <<"USD", "USD">>,
               <<"IDR", "GBP">>, <<"SEK", "USD">>}}
    \union {Body(t1, k2, "EUR", "IDR", 1, "ok")}

\* Requests are interchangeable.
RequestSymmetry == Permutations(Requests)

=============================================================================
