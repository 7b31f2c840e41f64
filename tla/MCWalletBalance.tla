-------------------------- MODULE MCWalletBalance --------------------------
(***************************************************************************)
(* Wallets and amounts for model-checking WalletBalance, with the real     *)
(* currency codes.  A byte has 32 values: the codes need two of the three  *)
(* bytes, as they do with 256.                                             *)
(***************************************************************************)
EXTENDS WalletBalance

EUR == 978
SEK == 752
DKK == 208
IDR == 360

WalletsOf(tenants, currencies) == [tenantID : tenants, currency : currencies]

\* Two wallets of a tenant, whose account ids have no factor ten.
TwoWallets == WalletsOf({18}, {SEK, DKK})

\* Every tenant meets a currency that gives it one.
AllWallets == WalletsOf({16, 17}, {EUR, IDR, SEK})

\* Amounts with minor units, whose sums pass a word of 1024 values.
WordAmounts == {350, 700}
NoAmounts == {}

=============================================================================
