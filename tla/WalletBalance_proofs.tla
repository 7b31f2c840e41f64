------------------------- MODULE WalletBalance_proofs -------------------------
(***************************************************************************)
(* Proofs about WalletBalance, for any width of a byte and of a word, any  *)
(* wallets, amounts and bound on the totals.                               *)
(*                                                                         *)
(* An id keeps what it is made of through bytes and number, and what pgx   *)
(* and numericToBigInt make of it is itself or nobody's.  Sums in a word   *)
(* are sums up to multiples of the word, so a result that fits is exact.   *)
(***************************************************************************)
EXTENDS WalletBalance, FiniteSetTheorems, NaturalsInduction, TLAPS

-----------------------------------------------------------------------------
(* Division by the base of the bytes.                                      *)

\* Division undoes appending a digit.
LEMMA Quotient ==
    ASSUME NEW x \in Nat, NEW q \in Int, NEW r \in 0 .. Base - 1, x = q * Base + r
    PROVE  x \div Base = q /\ x % Base = r
BY WidthsAssumption

\* A number is its quotient and its remainder.
LEMMA Parts ==
    ASSUME NEW x \in Nat
    PROVE  /\ x \div Base \in Nat /\ x % Base \in 0 .. Base - 1
           /\ x = Base * (x \div Base) + (x % Base)
BY WidthsAssumption

\* If one number is ten times another or more, so are the quotients.
LEMMA TenfoldQuotient ==
    ASSUME NEW m \in Nat, NEW n \in Nat, 10 * m <= n
    PROVE  10 * (m \div Base) <= n \div Base
<1> DEFINE p == m \div Base
           q == n \div Base
<1>1. /\ p \in Nat /\ Base * p <= m
      /\ q \in Nat /\ n < Base * q + Base
    BY Parts, WidthsAssumption
<1> HIDE DEF p, q
<1>2. Base \in Nat /\ Base > 0
    BY WidthsAssumption
<1>3. Base * (10 * p) < Base * (q + 1)
    BY <1>1, <1>2
<1>4. 10 * p < q + 1
    BY <1>1, <1>2, <1>3
<1>5. 10 * p <= q
    BY <1>1, <1>4
<1> QED
    BY <1>5 DEF p, q

Byte == 0 .. Base - 1

\* Six bytes, read as a number and laid out again, are the same bytes.
LEMMA RoundTrip ==
    ASSUME NEW a \in Byte, NEW b \in Byte, NEW c \in Byte, NEW d \in Byte, NEW e \in Byte,
           NEW f \in Byte
    PROVE  /\ ToBigInt(<<a, b, c, d, e, f>>) \in Nat
           /\ FromBigInt(ToBigInt(<<a, b, c, d, e, f>>)) = <<a, b, c, d, e, f>>
           /\ Higher(Higher(Higher(Higher(Higher(ToBigInt(<<a, b, c, d, e, f>>)))))) = a
<1> DEFINE n1 == a
           n2 == n1 * Base + b
           n3 == n2 * Base + c
           n4 == n3 * Base + d
           n5 == n4 * Base + e
           n == n5 * Base + f
<1>1. Base \in Nat /\ Base > 1 /\ a \in Nat /\ b \in Nat /\ c \in Nat /\ d \in Nat /\ e \in Nat
      /\ f \in Nat
    BY WidthsAssumption DEF Byte
<1>2. ToBigInt(<<a, b, c, d, e, f>>) = n
    BY DEF ToBigInt
<1>3. n1 \in Nat
    BY <1>1
<1> HIDE DEF n1
<1>4. n2 \in Nat /\ n2 = n1 * Base + b
    BY <1>1, <1>3
<1> HIDE DEF n2
<1>5. n3 \in Nat /\ n3 = n2 * Base + c
    BY <1>1, <1>4
<1> HIDE DEF n3
<1>6. n4 \in Nat /\ n4 = n3 * Base + d
    BY <1>1, <1>5
<1> HIDE DEF n4
<1>7. n5 \in Nat /\ n5 = n4 * Base + e
    BY <1>1, <1>6
<1> HIDE DEF n5
<1>8. n \in Nat /\ n = n5 * Base + f
    BY <1>1, <1>7
<1> HIDE DEF n
<1>9. Higher(n) = n5 /\ n % Base = f
    BY <1>7, <1>8, Quotient DEF Higher, Byte
<1>10. Higher(n5) = n4 /\ n5 % Base = e
    BY <1>6, <1>7, Quotient DEF Higher, Byte
<1>11. Higher(n4) = n3 /\ n4 % Base = d
    BY <1>5, <1>6, Quotient DEF Higher, Byte
<1>12. Higher(n3) = n2 /\ n3 % Base = c
    BY <1>4, <1>5, Quotient DEF Higher, Byte
<1>13. Higher(n2) = n1 /\ n2 % Base = b
    BY <1>3, <1>4, Quotient DEF Higher, Byte
<1>14. n1 % Base = a
    <2>1. n1 = 0 * Base + a
        BY <1>1 DEF n1
    <2> QED
        BY <1>3, <2>1, Quotient DEF Byte
<1>15. FromBigInt(n) = <<a, b, c, d, e, f>>
    BY <1>9, <1>10, <1>11, <1>12, <1>13, <1>14 DEF FromBigInt
<1>16. Higher(Higher(Higher(Higher(Higher(n))))) = a
    BY <1>9, <1>10, <1>11, <1>12, <1>13 DEF n1
<1> QED
    BY <1>2, <1>8, <1>15, <1>16

-----------------------------------------------------------------------------
(* Account ids.                                                            *)

\* The parts of a wallet, as numbers.
LEMMA WalletTypes ==
    ASSUME NEW w \in Wallets
    PROVE  /\ w \in [tenantID : Base \div 2 .. Base - 1, currency : 0 .. Base * Base * Base - 1]
           /\ w.tenantID \in Nat /\ w.tenantID >= Base \div 2 /\ w.tenantID < Base
           /\ w.currency \in Nat /\ w.currency < Base * (Base * Base)
<1>1. w \in [tenantID : Base \div 2 .. Base - 1, currency : 0 .. Base * Base * Base - 1]
    BY WalletsAssumption
<1>2. Base \div 2 \in Nat
    BY WidthsAssumption
<1>3. Base * Base * Base = Base * (Base * Base) /\ Base * Base * Base \in Nat
    BY WidthsAssumption
<1>4. w.tenantID \in Base \div 2 .. Base - 1 /\ w.currency \in 0 .. Base * Base * Base - 1
    BY <1>1
<1> DEFINE h == Base \div 2
           cube == Base * Base * Base
<1> HIDE DEF h, cube
<1>5. /\ w.tenantID \in Nat /\ w.tenantID >= h /\ w.tenantID < Base
      /\ w.currency \in Nat /\ w.currency < cube
    BY <1>2, <1>3, <1>4, WidthsAssumption DEF h, cube
<1> QED
    BY <1>1, <1>3, <1>5 DEF h, cube

\* The three bytes of a currency code give the code back.
LEMMA CurrencyBytes ==
    ASSUME NEW c \in Nat, c < Base * (Base * Base)
    PROVE  c = ((c \div (Base * Base)) % Base) * (Base * Base) + ((c \div Base) % Base) * Base
               + (c % Base)
<1> DEFINE sq == Base * Base
           h == c \div sq
           m == c \div Base
<1>1. Base \in Nat /\ Base > 1 /\ sq \in Nat /\ sq > 0
    BY WidthsAssumption
<1>2. m \in Nat /\ c % Base \in Nat /\ c = Base * m + (c % Base)
    BY <1>1, Parts
<1>3. m \div Base \in Nat /\ m % Base \in Byte /\ m = Base * (m \div Base) + (m % Base)
    <2> HIDE DEF m
    <2> QED
        BY <1>1, <1>2, Parts DEF Byte
<1>4. c % Base \in Byte
    BY Parts DEF Byte
<1> DEFINE l == c % Base
           n == m % Base
           k == m \div Base
<1> HIDE DEF m, l, n, k
<1>5. c = sq * k + (Base * n + l)
    <2>1. c = Base * (Base * k + n) + l
        BY <1>2, <1>3 DEF l, n, k
    <2>2. Base * (Base * k + n) = sq * k + Base * n
        BY <1>1, <1>3 DEF n, k, Byte
    <2> QED
        BY <1>1, <1>3, <1>4, <2>1, <2>2 DEF n, k, l, Byte
<1>6. Base * n + l \in 0 .. sq - 1
    <2>1. n \in Nat /\ n <= Base - 1 /\ l \in Nat /\ l <= Base - 1
        BY <1>1, <1>3, <1>4 DEF n, l, Byte
    <2>2. Base * n <= Base * (Base - 1)
        BY <1>1, <2>1
    <2> QED
        BY <1>1, <2>1, <2>2
<1>7. k \in Nat
    BY <1>3 DEF k
<1> DEFINE rest == Base * n + l
<1> HIDE DEF sq, rest
<1>8. c \div sq = k
    BY <1>1, <1>5, <1>6, <1>7 DEF rest
<1>9. k < Base
    <2>1. c < Base * sq
        BY DEF sq
    <2>2. sq * k < Base * sq
        BY <1>1, <1>5, <1>6, <1>7, <2>1 DEF rest
    <2> QED
        BY <1>1, <1>7, <2>2
<1>10. k % Base = k
    BY <1>1, <1>7, <1>9
<1>11. c = k * sq + n * Base + l
    <2>1. n \in Nat /\ l \in Nat
        BY <1>3, <1>4 DEF n, l, Byte
    <2> QED
        BY <1>1, <1>5, <1>7, <2>1
<1> QED
    BY <1>8, <1>10, <1>11 DEF sq, n, l, m

\* The account of a wallet: six bytes, and no other wallet has it.
LEMMA AccountBytes ==
    ASSUME NEW w \in Wallets
    PROVE  \E b, c, d \in Byte : AccountOf(w) = <<w.tenantID, 1, b, c, d, 0>>
<1>1. AccountOf(w) = <<w.tenantID, 1, (w.currency \div (Base * Base)) % Base,
                       (w.currency \div Base) % Base, w.currency % Base, 0>>
    BY DEF AccountOf, NewAccountID, AccountTypeTenantWallet
<1>2. w.currency \in Nat /\ Base * Base \in Nat /\ Base * Base > 0
    BY WalletTypes, WidthsAssumption
<1>3. w.currency \div (Base * Base) \in Nat /\ w.currency \div Base \in Nat
    BY <1>2, Parts
<1>4. \A x \in Nat : x % Base \in Byte
    BY Parts DEF Byte
<1> QED
    BY <1>1, <1>2, <1>3, <1>4

\* Wallets with the same account are the same wallet.
LEMMA AccountIsOwn ==
    ASSUME NEW v \in Wallets, NEW w \in Wallets, AccountOf(v) = AccountOf(w)
    PROVE  v = w
<1> DEFINE High(x) == (x \div (Base * Base)) % Base
           Middle(x) == (x \div Base) % Base
           Low(x) == x % Base
<1>1. ASSUME NEW u \in Wallets
      PROVE  /\ AccountOf(u)[1] = u.tenantID /\ AccountOf(u)[3] = High(u.currency)
             /\ AccountOf(u)[4] = Middle(u.currency) /\ AccountOf(u)[5] = Low(u.currency)
    BY DEF AccountOf, NewAccountID
<1>2. /\ v.currency = High(v.currency) * (Base * Base) + Middle(v.currency) * Base + Low(v.currency)
      /\ w.currency = High(w.currency) * (Base * Base) + Middle(w.currency) * Base + Low(w.currency)
    BY WalletTypes, CurrencyBytes
<1> HIDE DEF High, Middle, Low
<1>3. /\ v.tenantID = w.tenantID /\ High(v.currency) = High(w.currency)
      /\ Middle(v.currency) = Middle(w.currency) /\ Low(v.currency) = Low(w.currency)
    BY <1>1
<1>4. v.currency = w.currency
    BY <1>2, <1>3
<1>5. v = [tenantID |-> v.tenantID, currency |-> v.currency]
      /\ w = [tenantID |-> w.tenantID, currency |-> w.currency]
    BY WalletTypes
<1> QED
    BY <1>3, <1>4, <1>5

\* A row written by Create names the account of its wallet.
LEMMA RowNames ==
    ASSUME NEW w \in Wallets
    PROVE  /\ ToBigInt(AccountOf(w)) \in Nat
           /\ FromBigInt(ToBigInt(AccountOf(w))) = AccountOf(w)
           /\ Higher(Higher(Higher(Higher(Higher(ToBigInt(AccountOf(w))))))) = w.tenantID
<1>1. PICK b, c, d \in Byte : AccountOf(w) = <<w.tenantID, 1, b, c, d, 0>>
    BY AccountBytes
<1>2. w.tenantID \in Byte /\ 1 \in Byte /\ 0 \in Byte
    BY WalletTypes, WidthsAssumption DEF Byte
<1> QED
    BY <1>1, <1>2, RoundTrip

-----------------------------------------------------------------------------
(* Reading an id back.                                                     *)

\* A non-empty set of numbers has a smallest element.
LEMMA SmallestElement ==
    ASSUME NEW S \in SUBSET Nat, S # {}
    PROVE  \E n \in S : \A m \in S : n <= m
<1> DEFINE R == OpToRel(<, Nat)
<1>1. IsWellFoundedOn(R, Nat)
    BY NatLessThanWellFounded
<1>2. PICK n \in S : \A m \in S : ~(<<m, n>> \in R)
    <2> HIDE DEF R
    <2> QED
        BY <1>1, WFMin
<1>3. \A m \in S : m \in Nat /\ n \in Nat /\ ~(m < n)
    BY <1>2 DEF OpToRel
<1> QED
    BY <1>3

\* Induction, on a set of numbers instead of a predicate.
LEMMA InductiveSet ==
    ASSUME NEW S, 0 \in S, \A n \in Nat : n \in S => n + 1 \in S
    PROVE  Nat \subseteq S
<1> SUFFICES ASSUME Nat \ S # {} PROVE FALSE
    OBVIOUS
<1>1. PICK n \in Nat \ S : \A m \in Nat \ S : n <= m
    BY SmallestElement
<1>2. n - 1 \in Nat /\ n - 1 \in S
    BY <1>1
<1> QED
    BY <1>2, <1>1

\* A tenth is smaller.
LEMMA Tenth ==
    ASSUME NEW m \in Nat, m > 0
    PROVE  m \div 10 \in 0 .. m - 1 /\ 10 * (m \div 10) <= m
OBVIOUS

\* One step of the loop that moves zeros to the exponent.
Strip(f, m) ==
    IF m > 0 /\ m % 10 = 0
      THEN [Int |-> f[m \div 10].Int, Exp |-> f[m \div 10].Exp + 1]
      ELSE [Int |-> m, Exp |-> 0]

Strips(f, k) == f = [m \in 0 .. k |-> Strip(f, m)]

\* The loop is well defined.
LEMMA StripsExists == \A k \in Nat : \E f : Strips(f, k)
<1> DEFINE Good == {k \in Nat : \E f : Strips(f, k)}
<1>1. 0 \in Good
    <2> DEFINE f == [m \in 0 .. 0 |-> [Int |-> m, Exp |-> 0]]
    <2>1. \A m \in 0 .. 0 : Strip(f, m) = [Int |-> m, Exp |-> 0]
        <3> HIDE DEF f
        <3> QED
            BY DEF Strip
    <2>2. f = [m \in 0 .. 0 |-> Strip(f, m)]
        <3> DEFINE S(m) == Strip(f, m)
        <3>1. \A m \in 0 .. 0 : S(m) = [Int |-> m, Exp |-> 0]
            BY <2>1
        <3> HIDE DEF S
        <3>2. f = [m \in 0 .. 0 |-> S(m)]
            BY <3>1
        <3> QED
            BY <3>2 DEF S
    <2> QED
        BY <2>2 DEF Strips
<1>2. ASSUME NEW k \in Nat, k \in Good PROVE k + 1 \in Good
    <2>1. PICK g : Strips(g, k)
        BY <1>2
    <2> DEFINE h == [m \in 0 .. k + 1 |-> Strip(g, m)]
    <2>2. \A m \in 0 .. k : h[m] = g[m]
        <3> DEFINE S(m) == Strip(g, m)
        <3>1. g = [m \in 0 .. k |-> S(m)] /\ h = [m \in 0 .. k + 1 |-> S(m)]
            BY <2>1 DEF Strips
        <3> HIDE DEF S, h
        <3>2. \A m \in 0 .. k : m \in 0 .. k + 1
            OBVIOUS
        <3>3. \A m \in 0 .. k : g[m] = S(m)
            BY <3>1
        <3>4. \A m \in 0 .. k + 1 : h[m] = S(m)
            BY <3>1
        <3> QED
            BY <3>2, <3>3, <3>4
    <2>3. ASSUME NEW m \in 0 .. k + 1 PROVE Strip(g, m) = Strip(h, m)
        <3>1. m > 0 => m \div 10 \in 0 .. k
            BY Tenth
        <3>2. m > 0 => g[m \div 10] = h[m \div 10]
            BY <2>2, <3>1
        <3> HIDE DEF h
        <3> QED
            BY <3>2 DEF Strip
    <2>4. Strips(h, k + 1)
        <3> DEFINE A(m) == Strip(g, m)
                   B(m) == Strip(h, m)
        <3>1. \A m \in 0 .. k + 1 : A(m) = B(m)
            BY <2>3
        <3>2. h = [m \in 0 .. k + 1 |-> A(m)]
            OBVIOUS
        <3> HIDE DEF A, B, h
        <3>3. h = [m \in 0 .. k + 1 |-> B(m)]
            BY <3>1, <3>2
        <3> QED
            BY <3>3 DEF B, Strips
    <2> HIDE DEF h
    <2> QED
        BY <2>4
<1> HIDE DEF Good
<1>3. Nat \subseteq Good
    BY <1>1, <1>2, InductiveSet
<1> QED
    BY <1>3 DEF Good

\* The decoded integer is the number itself, or at most a tenth of it.
LEMMA Decoded ==
    ASSUME NEW n \in Nat, n > 0
    PROVE  \/ numericToBigInt(Numeric(n)) = n
           \/ /\ numericToBigInt(Numeric(n)) \in Nat
              /\ 10 * numericToBigInt(Numeric(n)) <= n
<1> DEFINE f == CHOOSE g : Strips(g, n)
<1>1. Strips(f, n)
    BY StripsExists
<1>2. Numeric(n) = f[n]
    BY DEF Numeric, Strips, Strip
<1> HIDE DEF f
<1>3. \A m \in 0 .. n : f[m] = Strip(f, m)
    <2> DEFINE S(m) == Strip(f, m)
    <2>1. f = [m \in 0 .. n |-> S(m)]
        BY <1>1 DEF Strips
    <2> HIDE DEF S
    <2>2. \A m \in 0 .. n : f[m] = S(m)
        BY <2>1
    <2> QED
        BY <2>2 DEF S
<1>4. ASSUME NEW m \in 0 .. n
      PROVE  /\ m > 0 /\ m % 10 = 0 => f[m].Int = f[m \div 10].Int
             /\ ~(m > 0 /\ m % 10 = 0) => f[m].Int = m
    <2>1. f[m] = Strip(f, m)
        BY <1>3
    <2> QED
        BY <2>1 DEF Strip
<1>5. \A m \in 0 .. n : f[m].Int \in 0 .. m
    <2> DEFINE Bad == {m \in 0 .. n : f[m].Int \notin 0 .. m}
    <2> SUFFICES ASSUME Bad # {} PROVE FALSE
        OBVIOUS
    <2>1. Bad \in SUBSET Nat
        OBVIOUS
    <2>2. PICK m \in Bad : \A k \in Bad : m <= k
        <3> HIDE DEF Bad
        <3> QED
            BY <2>1, SmallestElement
    <2>3. m \in 0 .. n /\ f[m].Int \notin 0 .. m /\ m \in Nat
        BY <2>2
    <2>4. m > 0 /\ m % 10 = 0 /\ f[m].Int = f[m \div 10].Int
        BY <1>4, <2>3
    <2> DEFINE k == m \div 10
    <2>5. k \in 0 .. m - 1
        BY <2>3, <2>4, Tenth
    <2> HIDE DEF k
    <2>6. k \notin Bad /\ k \in 0 .. n
        BY <2>2, <2>3, <2>5
    <2>7. f[k].Int \in 0 .. k
        BY <2>6
    <2>8. f[m].Int = f[k].Int
        BY <2>4 DEF k
    <2> QED
        BY <2>3, <2>5, <2>7, <2>8
<1>6. CASE n % 10 # 0
    BY <1>2, <1>4, <1>6 DEF numericToBigInt
<1>7. CASE n % 10 = 0
    <2> DEFINE k == n \div 10
    <2>1. f[n].Int = f[k].Int
        BY <1>4, <1>7
    <2>2. k \in 0 .. n - 1 /\ 10 * k <= n
        BY Tenth
    <2> HIDE DEF k
    <2>3. f[k].Int \in 0 .. k
        BY <1>5, <2>2
    <2>4. f[k].Int \in Nat /\ 10 * f[k].Int <= n
        BY <2>2, <2>3
    <2> QED
        BY <1>2, <2>1, <2>4 DEF numericToBigInt
<1> QED
    BY <1>6, <1>7

\* The id that is read back is the wallet's own, or nobody's: a tenth of it
\* lacks the leading bit that every tenant's bits have.
LEMMA ReadBack ==
    ASSUME NEW w \in Wallets, NEW v \in Wallets,
           FromBigInt(numericToBigInt(Numeric(ToBigInt(AccountOf(w))))) = AccountOf(v)
    PROVE  v = w
<1> DEFINE n == ToBigInt(AccountOf(w))
           m == numericToBigInt(Numeric(n))
<1>1. /\ n \in Nat /\ FromBigInt(n) = AccountOf(w)
      /\ Higher(Higher(Higher(Higher(Higher(n))))) = w.tenantID
    BY RowNames
<1>2. /\ w.tenantID \in Nat /\ w.tenantID < Base
      /\ v.tenantID \in Nat /\ v.tenantID >= Base \div 2
    BY WalletTypes
<1>3. FromBigInt(m) = AccountOf(v)
    OBVIOUS
<1>4. Base \in Nat /\ Base > 1
    BY WidthsAssumption
<1> HIDE DEF n, m
<1>5. CASE m = n
    BY <1>1, <1>3, <1>5, AccountIsOwn
<1>6. CASE m \in Nat /\ 10 * m <= n
    <2> DEFINE m5 == Higher(m)   n5 == Higher(n)
               m4 == Higher(m5)  n4 == Higher(n5)
               m3 == Higher(m4)  n3 == Higher(n4)
               m2 == Higher(m3)  n2 == Higher(n3)
               m1 == Higher(m2)  n1 == Higher(n2)
    <2>1. \A x, y \in Nat : 10 * x <= y =>
              /\ Higher(x) \in Nat /\ Higher(y) \in Nat
              /\ 10 * Higher(x) <= Higher(y)
        BY Parts, TenfoldQuotient DEF Higher
    <2>2. n1 = w.tenantID /\ FromBigInt(m)[1] = m1 % Base
        BY <1>1 DEF FromBigInt
    <2>3. m5 \in Nat /\ n5 \in Nat /\ 10 * m5 <= n5
        BY <1>1, <1>6, <2>1
    <2> HIDE DEF m5, n5
    <2>4. m4 \in Nat /\ n4 \in Nat /\ 10 * m4 <= n4
        BY <2>1, <2>3
    <2> HIDE DEF m4, n4
    <2>5. m3 \in Nat /\ n3 \in Nat /\ 10 * m3 <= n3
        BY <2>1, <2>4
    <2> HIDE DEF m3, n3
    <2>6. m2 \in Nat /\ n2 \in Nat /\ 10 * m2 <= n2
        BY <2>1, <2>5
    <2> HIDE DEF m2, n2
    <2>7. m1 \in Nat /\ n1 \in Nat /\ 10 * m1 <= n1
        BY <2>1, <2>6
    <2> HIDE DEF m1, n1
    <2>8. 10 * m1 < Base
        BY <1>2, <1>4, <2>2, <2>7
    <2>9. m1 % Base = m1
        BY <1>4, <2>7, <2>8
    <2>10. AccountOf(v)[1] = v.tenantID
        BY DEF AccountOf, NewAccountID
    <2>11. v.tenantID = m1
        BY <1>3, <2>2, <2>9, <2>10
    <2>12. m1 < Base \div 2
        BY <1>4, <2>7, <2>8
    <2> DEFINE h == Base \div 2
    <2>13. h \in Nat
        BY <1>4
    <2> HIDE DEF h
    <2> QED
        BY <1>2, <2>11, <2>12, <2>13 DEF h
<1>7. n > 0
    <2>1. n # 0
        <3> SUFFICES ASSUME n = 0 PROVE FALSE
            OBVIOUS
        <3>1. Higher(0) = 0
            BY <1>4 DEF Higher
        <3>2. w.tenantID = 0
            BY <1>1, <3>1
        <3>3. w.tenantID >= Base \div 2
            BY WalletTypes
        <3> QED
            BY <1>4, <3>2, <3>3
    <2> QED
        BY <1>1, <2>1
<1> QED
    BY <1>1, <1>5, <1>6, <1>7, Decoded DEF m

-----------------------------------------------------------------------------
(* Amounts.                                                                *)

\* Integers that are the same in a word.
Same(x, y) == \E k \in Int : x = y + k * Word

\* A word has two halves.
LEMMA WordHalves ==
    /\ Word \in Nat /\ Word \div 2 \in Nat /\ Word \div 2 > 0 /\ Word = 2 * (Word \div 2)
BY WidthsAssumption

\* Differences of numbers that are the same in a word.
LEMMA SameDifference ==
    ASSUME NEW a \in Int, NEW b \in Int, NEW x \in Int, NEW y \in Int, Same(a, x), Same(b, y)
    PROVE  Same(a - b, x - y)
<1>1. PICK k \in Int : a = x + k * Word
    BY DEF Same
<1>2. PICK l \in Int : b = y + l * Word
    BY DEF Same
<1>3. a - b = (x - y) + (k - l) * Word
    <2>1. (k - l) * Word = k * Word - l * Word /\ k * Word \in Int /\ l * Word \in Int
        BY WordHalves
    <2> QED
        BY <1>1, <1>2, <2>1
<1>4. k - l \in Int
    OBVIOUS
<1> QED
    BY <1>3, <1>4 DEF Same

\* Being the same in a word is transitive.
LEMMA SameTransitive ==
    ASSUME NEW x \in Int, NEW y \in Int, NEW z \in Int, Same(x, y), Same(y, z)
    PROVE  Same(x, z)
<1>1. PICK k \in Int : x = y + k * Word
    BY DEF Same
<1>2. PICK l \in Int : y = z + l * Word
    BY DEF Same
<1>3. x = z + (k + l) * Word
    <2>1. (k + l) * Word = k * Word + l * Word /\ k * Word \in Int /\ l * Word \in Int
        BY WordHalves
    <2> QED
        BY <1>1, <1>2, <2>1
<1>4. k + l \in Int
    OBVIOUS
<1> QED
    BY <1>3, <1>4 DEF Same

\* What is left of an integer in a word.
LEMMA SameLow ==
    ASSUME NEW n \in Int
    PROVE  n % Word \in 0 .. Word - 1 /\ Same(n % Word, n)
<1>1. n % Word \in 0 .. Word - 1 /\ n \div Word \in Int /\ n = Word * (n \div Word) + (n % Word)
    BY WidthsAssumption
<1> DEFINE q == n \div Word
           r == n % Word
<1> HIDE DEF q, r
<1>2. r = n + (-q) * Word /\ -q \in Int
    <2>1. Word \in Nat /\ q \in Int /\ r \in Int /\ n = Word * q + r
        BY <1>1, WidthsAssumption DEF q, r
    <2> QED
        BY <2>1
<1> QED
    BY <1>1, <1>2 DEF Same, r

\* int64 keeps what an integer is in a word, and gives it a sign.
LEMMA Signed ==
    ASSUME NEW n \in Int
    PROVE  int64(n) \in -(Word \div 2) .. (Word \div 2) - 1 /\ Same(int64(n), n)
<1> DEFINE r == n % Word
           h == Word \div 2
<1>1. r \in 0 .. Word - 1 /\ Same(r, n)
    BY SameLow
<1>2. Word \in Nat /\ h \in Nat /\ h > 0 /\ Word = 2 * h
    BY WordHalves
<1>3. int64(n) = IF r < h THEN r ELSE r - Word
    BY DEF int64
<1> HIDE DEF r, h
<1>4. int64(n) \in -h .. h - 1 /\ int64(n) \in Int /\ r \in Int
    BY <1>1, <1>2, <1>3
<1>5. Same(int64(n), r)
    <2>1. r = r + 0 * Word /\ r - Word = r + (-1) * Word
        BY <1>1, <1>2
    <2> QED
        BY <1>3, <2>1 DEF Same
<1>6. Same(int64(n), n)
    BY <1>1, <1>4, <1>5, SameTransitive
<1> QED
    BY <1>4, <1>6 DEF h

\* A result that fits is exact, whatever overflowed on the way.
LEMMA SignedExact ==
    ASSUME NEW x \in Int, NEW y \in -(Word \div 2) .. (Word \div 2) - 1, Same(x, y)
    PROVE  int64(x) = y
<1> DEFINE a == int64(x)
           h == Word \div 2
<1>1. a \in -h .. h - 1 /\ Same(a, x)
    BY Signed
<1>2. Word \in Nat /\ h \in Nat /\ Word = 2 * h
    BY WordHalves
<1>3. y \in -h .. h - 1
    OBVIOUS
<1> HIDE DEF a, h
<1>4. a \in Int /\ y \in Int
    BY <1>1, <1>2, <1>3
<1>5. Same(a, y)
    BY <1>1, <1>4, SameTransitive
<1>6. PICK k \in Int : a = y + k * Word
    BY <1>5 DEF Same
<1>7. CASE k >= 1
    <2>1. k * Word >= Word
        BY <1>2, <1>7
    <2> QED
        BY <1>1, <1>2, <1>3, <1>6, <2>1
<1>8. CASE k <= -1
    <2>1. k * Word <= -Word
        BY <1>2, <1>8
    <2> QED
        BY <1>1, <1>2, <1>3, <1>6, <2>1
<1>9. CASE k = 0
    BY <1>2, <1>4, <1>6, <1>9 DEF a
<1> QED
    BY <1>7, <1>8, <1>9

\* Text gives the amount back, but for the sign of less than one major unit.
LEMMA FormatExact ==
    ASSUME NEW m \in Int, m \notin -99 .. -1
    PROVE  ValueOf(formatAmount(m)) = m
<1> DEFINE a == Abs(m)
           q == a \div 100
           r == a % 100
<1>1. a \in Nat /\ (m < 0 => m = -a) /\ (m >= 0 => m = a) /\ (m < 0 => a >= 100)
    BY DEF Abs
<1> HIDE DEF a
<1>2. q \in Nat /\ r \in Nat /\ a = 100 * q + r /\ (a >= 100 => q # 0)
    BY <1>1
<1>3. formatAmount(m) = [minus |-> m < 0 /\ q # 0, major |-> q, minor |-> r]
    BY DEF formatAmount, a
<1> HIDE DEF q, r
<1>4. ValueOf([minus |-> TRUE, major |-> q, minor |-> r]) = -(100 * q + r)
    BY <1>2 DEF ValueOf
<1>5. ValueOf([minus |-> FALSE, major |-> q, minor |-> r]) = 100 * q + r
    BY <1>2 DEF ValueOf
<1>6. CASE m < 0
    <2>1. (m < 0 /\ q # 0) = TRUE
        BY <1>1, <1>2, <1>6
    <2>2. formatAmount(m) = [minus |-> TRUE, major |-> q, minor |-> r]
        BY <1>3, <2>1, Zenon
    <2> QED
        BY <1>1, <1>2, <1>4, <1>6, <2>2
<1>7. CASE m >= 0
    <2>1. (m < 0 /\ q # 0) = FALSE
        BY <1>7
    <2>2. formatAmount(m) = [minus |-> FALSE, major |-> q, minor |-> r]
        BY <1>3, <2>1, Zenon
    <2> QED
        BY <1>1, <1>2, <1>5, <1>7, <2>2
<1> QED
    BY <1>6, <1>7

\* What is computed in a word is shown as what it stands for, if that fits.
LEMMA ShowsExact ==
    ASSUME NEW x \in Int, NEW y \in Int, Same(x, y)
    PROVE  Shows(formatAmount(int64(x)), y)
<1> SUFFICES ASSUME y \in -(Word \div 2) .. (Word \div 2) - 1, y \notin -99 .. -1
             PROVE  ValueOf(formatAmount(int64(x))) = y
    BY DEF Shows
<1>1. int64(x) = y
    BY SignedExact
<1> QED
    BY <1>1, FormatExact

\* The three amounts of an answer made from an account's totals.
LEMMA TotalsShown ==
    ASSUME NEW t, t.credits_posted \in Nat, t.debits_posted \in Nat, t.debits_pending \in Nat
    PROVE  LET b == Balance(t)
               settled == t.credits_posted - t.debits_posted IN
           /\ Shows(formatAmount(Available(b)), settled - t.debits_pending)
           /\ Shows(formatAmount(Total(b)), settled)
           /\ Shows(formatAmount(int64(b.Pending)), t.debits_pending)
<1> DEFINE c == t.credits_posted
           d == t.debits_posted
           p == t.debits_pending
           b == Balance(t)
<1>1. ASSUME NEW v \in Nat
      PROVE  /\ uint128ToUint64(v) \in Int /\ Same(uint128ToUint64(v), v)
             /\ int64(uint128ToUint64(v)) \in Int /\ Same(int64(uint128ToUint64(v)), v)
    <2> DEFINE u == uint128ToUint64(v)
               i == int64(u)
    <2>1. u \in Int /\ Same(u, v)
        BY SameLow, WordHalves DEF uint128ToUint64
    <2> HIDE DEF u
    <2>2. i \in Int /\ Same(i, u)
        BY <2>1, Signed, WordHalves
    <2> HIDE DEF i
    <2>3. Same(i, v)
        BY <2>1, <2>2, SameTransitive
    <2> QED
        BY <2>1, <2>2, <2>3 DEF u, i
<1>2. /\ b.Credits = uint128ToUint64(c) /\ b.Debits = uint128ToUint64(d)
      /\ b.Pending = uint128ToUint64(p)
    BY DEF Balance
<1> DEFINE ic == int64(b.Credits)
           id == int64(b.Debits)
           ip == int64(b.Pending)
<1>3. /\ ic \in Int /\ Same(ic, c) /\ id \in Int /\ Same(id, d) /\ ip \in Int /\ Same(ip, p)
      /\ b.Pending \in Int /\ Same(b.Pending, p)
    BY <1>1, <1>2
<1>4. Available(b) = int64(ic - id - ip) /\ Total(b) = int64(ic - id)
    BY DEF Available, Total
<1> HIDE DEF b, ic, id, ip, c, d, p
<1>5. c \in Int /\ d \in Int /\ p \in Int
    BY DEF c, d, p
<1>6. Same(ic - id, c - d) /\ ic - id \in Int /\ c - d \in Int
    BY <1>3, <1>5, SameDifference
<1>7. Same(ic - id - ip, c - d - p) /\ ic - id - ip \in Int /\ c - d - p \in Int
    <2> DEFINE i == ic - id
               s == c - d
    <2>1. Same(i, s) /\ i \in Int /\ s \in Int
        BY <1>6
    <2> HIDE DEF i, s
    <2>2. Same(i - ip, s - p) /\ i - ip \in Int /\ s - p \in Int
        BY <1>3, <1>5, <2>1, SameDifference
    <2> QED
        BY <2>2 DEF i, s
<1>8. Shows(formatAmount(Available(b)), c - d - p)
    <2> DEFINE i == ic - id - ip
               s == c - d - p
    <2>1. Same(i, s) /\ i \in Int /\ s \in Int /\ Available(b) = int64(i)
        BY <1>4, <1>7
    <2> HIDE DEF i, s
    <2>2. Shows(formatAmount(Available(b)), s)
        BY <2>1, ShowsExact
    <2> QED
        BY <2>2 DEF s
<1>9. Shows(formatAmount(Total(b)), c - d)
    <2> DEFINE i == ic - id
               s == c - d
    <2>1. Same(i, s) /\ i \in Int /\ s \in Int /\ Total(b) = int64(i)
        BY <1>4, <1>6
    <2> HIDE DEF i, s
    <2>2. Shows(formatAmount(Total(b)), s)
        BY <2>1, ShowsExact
    <2> QED
        BY <2>2 DEF s
<1>10. Shows(formatAmount(int64(b.Pending)), p)
    BY <1>3, <1>5, ShowsExact
<1> QED
    BY <1>8, <1>9, <1>10 DEF b, c, d, p

-----------------------------------------------------------------------------
(* The endpoint.                                                           *)

Totals == [credits_posted : 0 .. MaxTotal, debits_posted : 0 .. MaxTotal,
           debits_pending : 0 .. MaxTotal]

\* The id GetBalance looks up for a wallet.
ReadID(w) == FromBigInt(numericToBigInt(Numeric(ToBigInt(AccountOf(w)))))

\* The answer made from totals t.
Answer(w, t) ==
    [step |-> "done", wallet |-> w, code |-> 200,
     available |-> formatAmount(Available(Balance(t))),
     pending |-> formatAmount(int64(Balance(t).Pending)),
     total |-> formatAmount(Total(Balance(t))), of |-> t]

\* A row comes after its account, and names it.
RowsInv ==
    /\ rows = [w \in Wallets |-> rows[w]]
    /\ \A w \in Wallets : rows[w] # NoRow =>
           rows[w] = ToBigInt(AccountOf(w)) /\ AccountOf(w) \in DOMAIN book

BookInv ==
    /\ book \in [DOMAIN book -> Totals]
    /\ \A id \in DOMAIN book : \E w \in Wallets : AccountOf(w) = id

\* The reader looks up the id of a wallet that has an account, and answers with
\* the totals of that very account or not at all.
ViewInv ==
    \/ view = Idle
    \/ \E w \in Wallets : /\ view = [step |-> "ledger", wallet |-> w, accountID |-> ReadID(w)]
                          /\ AccountOf(w) \in DOMAIN book
    \/ \E w \in Wallets, code \in {404, 500} :
           view = [step |-> "done", wallet |-> w, code |-> code]
    \/ \E w \in Wallets, t \in Totals : view = Answer(w, t)

IInv == RowsInv /\ BookInv /\ ViewInv

\* The totals of a new account.
LEMMA RecordTotals ==
    /\ DOMAIN NoTotals = {"credits_posted", "debits_posted", "debits_pending"}
    /\ NoTotals \in Totals
BY WidthsAssumption DEF NoTotals, Totals

\* IInv holds at the start.
LEMMA InitIInv == Init => IInv
<1> SUFFICES ASSUME Init PROVE IInv
    OBVIOUS
<1>1. RowsInv
    BY DEF Init, RowsInv
<1>2. BookInv
    BY DEF Init, BookInv
<1>3. ViewInv
    BY DEF Init, ViewInv
<1> QED
    BY <1>1, <1>2, <1>3 DEF IInv

\* More accounts and other totals do not change what the reader holds.
LEMMA ViewKept ==
    ASSUME ViewInv, view' = view, DOMAIN book \subseteq DOMAIN book'
    PROVE  ViewInv'
<1>1. CASE view = Idle
    BY <1>1 DEF ViewInv
<1>2. CASE \E w \in Wallets :
               /\ view = [step |-> "ledger", wallet |-> w, accountID |-> ReadID(w)]
               /\ AccountOf(w) \in DOMAIN book
    <2>1. PICK w \in Wallets :
              /\ view = [step |-> "ledger", wallet |-> w, accountID |-> ReadID(w)]
              /\ AccountOf(w) \in DOMAIN book
        BY <1>2
    <2>2. /\ view' = [step |-> "ledger", wallet |-> w, accountID |-> ReadID(w)]
          /\ AccountOf(w) \in DOMAIN book'
        BY <2>1
    <2> QED
        BY <2>2 DEF ViewInv
<1>3. CASE \E w \in Wallets, code \in {404, 500} :
               view = [step |-> "done", wallet |-> w, code |-> code]
    BY <1>3 DEF ViewInv
<1>4. CASE \E w \in Wallets, t \in Totals : view = Answer(w, t)
    BY <1>4 DEF ViewInv
<1> QED
    BY <1>1, <1>2, <1>3, <1>4 DEF ViewInv

\* A new wallet has an account that is its own.
LEMMA CreateKeeps ==
    ASSUME IInv, NEW w \in Wallets, CreateWallet(w)
    PROVE  IInv'
<1> DEFINE own == AccountOf(w)
<1>1. /\ book' = [id \in DOMAIN book \union {own} |->
                      IF id \in DOMAIN book THEN book[id] ELSE NoTotals]
      /\ rows' = [rows EXCEPT ![w] = ToBigInt(own)]
      /\ view' = view
    BY DEF CreateWallet
<1>2. DOMAIN book' = DOMAIN book \union {own}
    BY <1>1
<1>3. RowsInv'
    <2>1. \A v \in Wallets : rows'[v] = IF v = w THEN ToBigInt(AccountOf(w)) ELSE rows[v]
        BY <1>1 DEF IInv, RowsInv
    <2>2. rows' = [v \in Wallets |-> rows'[v]]
        BY <1>1 DEF IInv, RowsInv
    <2> QED
        BY <1>2, <2>1, <2>2 DEF IInv, RowsInv
<1>4. BookInv'
    <2>1. book \in [DOMAIN book -> Totals] /\ NoTotals \in Totals
        BY RecordTotals DEF IInv, BookInv
    <2>2. book' \in [DOMAIN book' -> Totals]
        BY <1>1, <1>2, <2>1
    <2> QED
        BY <1>2, <2>2 DEF IInv, BookInv
<1>5. ViewInv'
    BY <1>1, <1>2, ViewKept DEF IInv
<1> QED
    BY <1>3, <1>4, <1>5 DEF IInv

\* A posting changes one total.
LEMMA RecordKeeps ==
    ASSUME IInv, NEW id \in DOMAIN book, NEW total \in DOMAIN NoTotals, NEW amount \in Amounts,
           Record(id, total, amount)
    PROVE  IInv'
<1>1. /\ book[id][total] + amount <= MaxTotal
      /\ book' = [book EXCEPT ![id][total] = @ + amount]
      /\ rows' = rows /\ view' = view
    BY DEF Record
<1>2. book \in [DOMAIN book -> Totals]
    BY DEF IInv, BookInv
<1>3. /\ DOMAIN book' = DOMAIN book
      /\ book' = [book EXCEPT ![id] = [book[id] EXCEPT ![total] = book[id][total] + amount]]
    BY <1>1, <1>2
<1>4. [book[id] EXCEPT ![total] = book[id][total] + amount] \in Totals
    <2>1. total \in {"credits_posted", "debits_posted", "debits_pending"}
        BY RecordTotals
    <2>2. book[id] \in Totals
        BY <1>2
    <2>3. book[id][total] \in 0 .. MaxTotal
        BY <2>1, <2>2 DEF Totals
    <2>4. book[id][total] + amount \in 0 .. MaxTotal
        BY <1>1, <2>3, WidthsAssumption
    <2> QED
        BY <2>1, <2>2, <2>4 DEF Totals
<1>5. BookInv'
    BY <1>2, <1>3, <1>4 DEF IInv, BookInv
<1>6. RowsInv'
    BY <1>1, <1>3 DEF IInv, RowsInv
<1>7. ViewInv'
    BY <1>1, <1>3, ViewKept DEF IInv
<1> QED
    BY <1>5, <1>6, <1>7 DEF IInv

\* The reader takes the id from the row.
LEMMA GetByIDKeeps ==
    ASSUME IInv, NEW w \in Wallets, GetByID(w)
    PROVE  IInv'
<1>1. rows' = rows /\ book' = book
    BY DEF GetByID
<1>2. RowsInv' /\ BookInv'
    BY <1>1 DEF IInv, RowsInv, BookInv
<1>3. CASE rows[w] = NoRow
    <2>1. view' = [step |-> "done", wallet |-> w, code |-> 404]
        BY <1>3 DEF GetByID
    <2> QED
        BY <1>2, <2>1 DEF IInv, ViewInv
<1>4. CASE rows[w] # NoRow
    <2>1. rows[w] = ToBigInt(AccountOf(w)) /\ AccountOf(w) \in DOMAIN book'
        BY <1>1, <1>4 DEF IInv, RowsInv
    <2>2. view' = [step |-> "ledger", wallet |-> w, accountID |-> ReadID(w)]
        BY <1>4, <2>1 DEF GetByID, ReadID
    <2> QED
        BY <1>2, <2>1, <2>2 DEF IInv, ViewInv
<1> QED
    BY <1>3, <1>4

\* The answer is about the wallet's own account, or there is none.
LEMMA GetBalanceKeeps ==
    ASSUME IInv, GetBalance
    PROVE  IInv'
<1>1. rows' = rows /\ book' = book /\ view.step = "ledger"
    BY DEF GetBalance
<1>2. RowsInv' /\ BookInv'
    BY <1>1 DEF IInv, RowsInv, BookInv
<1>3. PICK w \in Wallets :
          /\ view = [step |-> "ledger", wallet |-> w, accountID |-> ReadID(w)]
          /\ AccountOf(w) \in DOMAIN book
    BY <1>1 DEF IInv, ViewInv, Idle, Answer
<1>4. view.wallet = w /\ view.accountID = ReadID(w)
    BY <1>3
<1>5. CASE view.accountID \in DOMAIN book
    <2>1. PICK v \in Wallets : AccountOf(v) = ReadID(w)
        BY <1>4, <1>5 DEF IInv, BookInv
    <2>2. ReadID(w) = AccountOf(w)
        BY <2>1, ReadBack DEF ReadID
    <2> DEFINE t == book[AccountOf(w)]
    <2>3. t \in Totals
        BY <1>3 DEF IInv, BookInv
    <2>4. view' = Answer(w, t)
        BY <1>4, <1>5, <2>2 DEF GetBalance, Respond, Answer
    <2> HIDE DEF t
    <2>5. ViewInv'
        BY <2>3, <2>4 DEF ViewInv
    <2> QED
        BY <1>2, <2>5 DEF IInv
<1>6. CASE view.accountID \notin DOMAIN book
    <2>1. view' = [step |-> "done", wallet |-> w, code |-> 500]
        BY <1>4, <1>6 DEF GetBalance
    <2> QED
        BY <1>2, <2>1 DEF IInv, ViewInv
<1> QED
    BY <1>5, <1>6

\* The inductive invariant holds in every reachable state.
LEMMA Invariance == Spec => []IInv
<1>1. IInv /\ [Next]_vars => IInv'
    <2> SUFFICES ASSUME IInv, [Next]_vars PROVE IInv'
        OBVIOUS
    <2>1. CASE \E w \in Wallets : CreateWallet(w) \/ GetByID(w)
        BY <2>1, CreateKeeps, GetByIDKeeps
    <2>2. CASE \E id \in DOMAIN book, total \in DOMAIN NoTotals, amount \in Amounts :
                   Record(id, total, amount)
        BY <2>2, RecordKeeps
    <2>3. CASE GetBalance
        BY <2>3, GetBalanceKeeps
    <2>4. CASE Again
        BY <2>4 DEF Again, IInv, RowsInv, BookInv, ViewInv
    <2>5. CASE UNCHANGED vars
        <3>1. rows' = rows /\ book' = book /\ view' = view
            BY <2>5 DEF vars
        <3>2. ViewInv'
            BY <3>1, ViewKept DEF IInv
        <3> QED
            BY <3>1, <3>2 DEF IInv, RowsInv, BookInv
    <2> QED
        BY <2>1, <2>2, <2>3, <2>4, <2>5 DEF Next
<1> QED
    BY <1>1, InitIInv, PTL DEF Spec

-----------------------------------------------------------------------------
(* Theorems.                                                               *)

\* The number that is stored for a wallet is, byte by byte, the id of an account
\* of the cluster (ToBigInt and FromBigInt are inverse to each other), and totals
\* stay in their range.  Nothing is said of the way back through the NUMERIC
\* column, which GetByID takes and which loses decimal zeros.
THEOREM TypeCorrect == Spec => []TypeOK
<1>1. IInv => TypeOK
    <2> SUFFICES ASSUME IInv PROVE TypeOK
        OBVIOUS
    <2>1. \A w \in Wallets : rows[w] # NoRow => FromBigInt(rows[w]) \in DOMAIN book
        BY RowNames DEF IInv, RowsInv
    <2>2. \A id \in DOMAIN book : \A total \in DOMAIN NoTotals :
              book[id][total] \in 0 .. MaxTotal
        BY RecordTotals DEF IInv, BookInv, Totals
    <2>3. view.step \in {"idle", "ledger", "done"}
        BY DEF IInv, ViewInv, Idle, Answer
    <2> QED
        BY <2>1, <2>2, <2>3 DEF TypeOK
<1> QED
    BY <1>1, Invariance, PTL

\* Two wallets never have one account: NewAccountID keeps every byte of the
\* tenant's bits and of the currency code.
THEOREM NoSharedAccounts == Spec => []AccountsAreNotShared
<1>1. IInv => AccountsAreNotShared
    <2> SUFFICES ASSUME IInv, NEW id \in DOMAIN book
                 PROVE  Cardinality({w \in Wallets : AccountOf(w) = id}) = 1
        BY DEF AccountsAreNotShared
    <2>1. PICK w \in Wallets : AccountOf(w) = id
        BY DEF IInv, BookInv
    <2>2. {v \in Wallets : AccountOf(v) = id} = {w}
        BY <2>1, AccountIsOwn
    <2> QED
        BY <2>2, FS_Singleton
<1> QED
    BY <1>1, Invariance, PTL

\* An answer with 200 shows the totals of the wallet's own account at the
\* moment of the lookup, exactly if they fit, although the id may have lost its
\* decimal zeros on the way: then it is nobody's id and there is no such answer.
THEOREM AnswersAreExact == Spec => []AnswerIsExact
<1>1. IInv => AnswerIsExact
    <2> SUFFICES ASSUME IInv, view.step = "done", view.code = 200
                 PROVE  LET settled == view.of.credits_posted - view.of.debits_posted IN
                        /\ Shows(view.available, settled - view.of.debits_pending)
                        /\ Shows(view.total, settled)
                        /\ Shows(view.pending, view.of.debits_pending)
        BY DEF AnswerIsExact
    <2>1. PICK w \in Wallets, t \in Totals : view = Answer(w, t)
        BY DEF IInv, ViewInv, Idle
    <2>2. /\ view.of = t
          /\ view.available = formatAmount(Available(Balance(t)))
          /\ view.pending = formatAmount(int64(Balance(t).Pending))
          /\ view.total = formatAmount(Total(Balance(t)))
        BY <2>1 DEF Answer
    <2>3. t.credits_posted \in Nat /\ t.debits_posted \in Nat /\ t.debits_pending \in Nat
        BY WidthsAssumption DEF Totals
    <2> QED
        BY <2>2, <2>3, TotalsShown
<1> QED
    BY <1>1, Invariance, PTL

=============================================================================
