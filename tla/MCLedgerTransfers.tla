------------------------- MODULE MCLedgerTransfers -------------------------
(***************************************************************************)
(* Orders and accounts for model-checking LedgerTransfers.                 *)
(***************************************************************************)
EXTENDS LedgerTransfers

Order(name, kind, tenantID, src, dst, amount, dstAmount, feeAmount) ==
    [name |-> name, kind |-> kind, tenantID |-> tenantID, srcCurrency |-> src,
     dstCurrency |-> dst, amount |-> amount, dstAmount |-> dstAmount,
     feeAmount |-> feeAmount]

Account(id, limited) == [id |-> id, limited |-> limited]

SystemAccounts(types, currency) == {Account(System(t, currency), FALSE) : t \in types}

EURWallet(tenantID) == NewAccountID(tenantID, "TENANT_WALLET", "EUR")

\* A top-up of tenant 2, whose wallet is limited, by a batch, and a payout of
\* all it brings; a payout and a conversion with a fee above the amount, and a
\* conversion without a fee in the other direction.
MixedOrders ==
    {Order("payout", "simple", 2, "EUR", "EUR", 3, 0, 2),
     Order("topup", "batch", 2, "EUR", "EUR", 4, 0, 1),
     Order("small", "simple", 1, "EUR", "EUR", 1, 0, 2),
     Order("there", "fx", 1, "EUR", "IDR", 3, 7, 0),
     Order("back", "fx", 1, "IDR", "EUR", 6, 4, 5)}

\* The settlement accounts and the limited wallet are opened late.
MixedOpened ==
    {Account(NewAccountID(1, "TENANT_WALLET", c), FALSE) : c \in {"EUR", "IDR"}}
    \union SystemAccounts({"PENDING_OUTBOUND", "PENDING_INBOUND", "FX_SETTLEMENT",
                           "FEE_REVENUE"}, "EUR")
    \union SystemAccounts({"PENDING_OUTBOUND", "FX_SETTLEMENT", "FEE_REVENUE",
                           "REGIONAL_SETTLEMENT"}, "IDR")

MixedOpenable ==
    {Account(EURWallet(2), TRUE)} \union SystemAccounts({"REGIONAL_SETTLEMENT"}, "EUR")

=============================================================================
