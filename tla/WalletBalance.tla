---------------------------- MODULE WalletBalance ----------------------------
(***************************************************************************)
(* GET /api/v1/wallets/{id}/balance (internal/handler/wallet.go,           *)
(* WalletHandler.GetBalance): the account id of the wallet goes through a  *)
(* NUMERIC column, the totals of its account from 128 to 64 bits, and the  *)
(* result to text.  Widths are scaled down: Base stands for the 256 values *)
(* of a byte, Word for 2^64.                                               *)
(***************************************************************************)
EXTENDS Integers, FiniteSets

CONSTANTS
    Base,       \* values of a byte of an account id
    Word,       \* 2^64
    Wallets,    \* the wallets that may exist: tenant bits and currency code
    Amounts,    \* amounts that are posted or held
    MaxTotal    \* bound on the totals of an account

ASSUME WidthsAssumption ==
    /\ Base \in Nat /\ Base > 1
    /\ Word \in Nat /\ Word > 0 /\ Word % 2 = 0
    /\ MaxTotal \in Nat /\ Amounts \subseteq Nat

\* A tenant's bits are the lower half of its UUID, which begins with the variant
\* bits 10: the first bit is set.
ASSUME WalletsAssumption ==
    Wallets \subseteq [tenantID : Base \div 2 .. Base - 1, currency : 0 .. Base * Base * Base - 1]

VARIABLES
    rows,   \* tb_account_id of each wallet row, NoRow before
    book,   \* totals of each account of the cluster, by account id
    view    \* what the reader holds: its step, wallet and answer

vars == <<rows, book, view>>

NoRow == -1

-----------------------------------------------------------------------------
(* Account ids: tenant, type and currency, big-endian, and reserved zeros. *)
(* Tenant and reserved part are one byte each here, eight and four there.  *)

\* Mutant: two bytes of the currency code are lost.
NewAccountIDNarrow(tenantID, accountType, currency) ==
    <<tenantID, accountType, 0, 0, currency % Base, 0>>

NewAccountID(tenantID, accountType, currency) ==
    <<tenantID, accountType, (currency \div (Base * Base)) % Base, (currency \div Base) % Base,
      currency % Base, 0>>

ToBigInt(id) ==
    ((((id[1] * Base + id[2]) * Base + id[3]) * Base + id[4]) * Base + id[5]) * Base + id[6]

\* What is left of n without its lowest byte.
Higher(n) == n \div Base

\* Mutant: the bytes are laid out from the low end.
FromBigIntLittleEndian(n) ==
    LET n5 == Higher(n)
        n4 == Higher(n5)
        n3 == Higher(n4)
        n2 == Higher(n3)
    IN <<n % Base, n5 % Base, n4 % Base, n3 % Base, n2 % Base, Higher(n2) % Base>>

FromBigInt(n) ==
    LET n5 == Higher(n)
        n4 == Higher(n5)
        n3 == Higher(n4)
        n2 == Higher(n3)
        n1 == Higher(n2)
    IN <<n1 % Base, n2 % Base, n3 % Base, n4 % Base, n5 % Base, n % Base>>

\* External: pgx reads an integral NUMERIC as Int * 10^Exp and moves trailing
\* zeros from Int to Exp, one by one.
Numeric(n) ==
    LET strip[m \in 0 .. n] ==
            IF m > 0 /\ m % 10 = 0
              THEN [Int |-> strip[m \div 10].Int, Exp |-> strip[m \div 10].Exp + 1]
              ELSE [Int |-> m, Exp |-> 0]
    IN strip[n]

\* Exp is not looked at.
numericToBigInt(numeric) == numeric.Int

AccountTypeTenantWallet == 1

AccountOf(w) == NewAccountID(w.tenantID, AccountTypeTenantWallet, w.currency)

-----------------------------------------------------------------------------
(* Amounts.                                                                *)

\* Mutant: the conversion saturates.
uint128ToUint64Saturates(v) == IF v < Word THEN v ELSE Word - 1

uint128ToUint64(v) == v % Word

\* int64 of a 64-bit pattern.
int64(n) == LET m == n % Word IN IF m < Word \div 2 THEN m ELSE m - Word

Balance(totals) ==
    [Debits |-> uint128ToUint64(totals.debits_posted),
     Credits |-> uint128ToUint64(totals.credits_posted),
     Pending |-> uint128ToUint64(totals.debits_pending)]

Available(b) == int64(int64(b.Credits) - int64(b.Debits) - int64(b.Pending))

Total(b) == int64(int64(b.Credits) - int64(b.Debits))

Abs(n) == IF n < 0 THEN -n ELSE n

\* The text of an amount: the sign is that of the major part, which division
\* truncates towards zero.
formatAmount(minorUnits) ==
    LET major == Abs(minorUnits) \div 100
        minor == Abs(minorUnits) % 100
    IN [minus |-> minorUnits < 0 /\ major # 0, major |-> major, minor |-> minor]

ValueOf(text) == (IF text.minus THEN -1 ELSE 1) * (100 * text.major + text.minor)

-----------------------------------------------------------------------------
NoTotals == [credits_posted |-> 0, debits_posted |-> 0, debits_pending |-> 0]

Idle == [step |-> "idle"]

Init ==
    /\ rows = [w \in Wallets |-> NoRow]
    /\ book = [id \in {} |-> NoTotals]
    /\ view = Idle

\* WalletProvisioning, when nothing fails: the account, then the row.
CreateWallet(w) ==
    /\ rows[w] = NoRow
    /\ AccountOf(w) \notin DOMAIN book
    /\ book' = [id \in DOMAIN book \union {AccountOf(w)} |->
                    IF id \in DOMAIN book THEN book[id] ELSE NoTotals]
    /\ rows' = [rows EXCEPT ![w] = ToBigInt(AccountOf(w))]
    /\ UNCHANGED view

\* External: a transfer posts to, or holds on, the account.
Record(id, total, amount) ==
    /\ book[id][total] + amount <= MaxTotal
    /\ book' = [book EXCEPT ![id][total] = @ + amount]
    /\ UNCHANGED <<rows, view>>

\* repo.GetByID; a wallet without a row is answered 404.
GetByID(w) ==
    /\ view = Idle
    /\ view' = IF rows[w] = NoRow
                 THEN [step |-> "done", wallet |-> w, code |-> 404]
                 ELSE [step |-> "ledger", wallet |-> w,
                       accountID |-> FromBigInt(numericToBigInt(Numeric(rows[w])))]
    /\ UNCHANGED <<rows, book>>

Respond(balance, totals) ==
    view' = [step |-> "done", wallet |-> view.wallet, code |-> 200,
             available |-> formatAmount(Available(balance)),
             pending |-> formatAmount(int64(balance.Pending)),
             total |-> formatAmount(Total(balance)), of |-> totals]

\* ledgerClient.GetBalance and the answer.  "of" keeps the totals of the
\* wallet's own account at that moment, for the properties.
GetBalance ==
    /\ view.step = "ledger"
    /\ IF view.accountID \in DOMAIN book
         THEN Respond(Balance(book[view.accountID]), book[AccountOf(view.wallet)])
         ELSE view' = [step |-> "done", wallet |-> view.wallet, code |-> 500]
    /\ UNCHANGED <<rows, book>>

\* The reader asks again.
Again ==
    /\ view.step = "done"
    /\ view' = Idle
    /\ UNCHANGED <<rows, book>>

Next ==
    \/ \E w \in Wallets : CreateWallet(w) \/ GetByID(w)
    \/ \E id \in DOMAIN book, total \in DOMAIN NoTotals, amount \in Amounts :
          Record(id, total, amount)
    \/ GetBalance
    \/ Again

Spec == Init /\ [][Next]_vars

-----------------------------------------------------------------------------
(* Correctness.                                                            *)

\* Type invariant: the number stored for a wallet is, byte by byte, the id of an
\* account.  How the column gives it back, Numeric, is no part of it: see
\* CreatedWalletsAreReadable.
TypeOK ==
    /\ \A w \in Wallets : rows[w] # NoRow => FromBigInt(rows[w]) \in DOMAIN book
    /\ \A id \in DOMAIN book : \A total \in DOMAIN NoTotals : book[id][total] \in 0 .. MaxTotal
    /\ view.step \in {"idle", "ledger", "done"}

\* The amounts that are answered are those of the wallet's own account at the
\* moment of the lookup, whatever is posted around it, also when a total no
\* longer fits in 64 bits ("This may overflow for very large values",
\* client.go:175), as long as the result does.  formatAmount loses the sign of
\* what is less than one major unit.
Shows(text, amount) ==
    amount \in -(Word \div 2) .. Word \div 2 - 1 /\ amount \notin -99 .. -1
        => ValueOf(text) = amount

AnswerIsExact ==
    view.step = "done" /\ view.code = 200 =>
        LET settled == view.of.credits_posted - view.of.debits_posted IN
        /\ Shows(view.available, settled - view.of.debits_pending)
        /\ Shows(view.total, settled)
        /\ Shows(view.pending, view.of.debits_pending)

\* Each account belongs to one wallet: no posting shows in the balance of
\* another tenant or another currency.
AccountsAreNotShared ==
    \A id \in DOMAIN book : Cardinality({w \in Wallets : AccountOf(w) = id}) = 1

\* e2e/phase1_demo_test.go:469 "balance endpoint should work": the balance of
\* a wallet that exists is answered.
CreatedWalletsAreReadable == view.step = "done" => view.code # 500

=============================================================================
