--------------------------- MODULE LedgerTransfers ---------------------------
(***************************************************************************)
(* The double-entry ledger: transfer chains (internal/ledger/transfer.go)  *)
(* posted through the TigerBeetle client (internal/ledger/client.go).      *)
(*                                                                         *)
(* The repository builds and posts chains but has no caller yet.  Callers  *)
(* are therefore the most general ones: they build the chains of an order  *)
(* once and post any leg, by either call, as often as they like, and they  *)
(* may never see the answer.                                               *)
(***************************************************************************)
EXTENDS Integers, FiniteSets, Sequences, SequencesExt, Functions

CONSTANTS
    Orders,     \* what callers build chains for
    Word,       \* 2^64: amounts are uint64
    Opened,     \* accounts that exist at the start
    Openable,   \* accounts that may be opened later
    MaxCalls    \* bound on calls that post transfers

ASSUME WordAssumption == Word \in Nat \ {0} /\ MaxCalls \in Nat

\* The name stands for the ids drawn when the chains of an order are built.
ASSUME OrdersAssumption ==
    \A o \in Orders :
        /\ o.kind \in {"simple", "fx", "batch"}
        /\ {o.amount, o.dstAmount, o.feeAmount} \subseteq 0 .. Word - 1
        /\ \A p \in Orders : o.name = p.name => o = p

VARIABLES
    accounts,   \* accounts of the cluster: id, and whether debits are limited
    journal,    \* transfers the cluster has accepted
    spent,      \* ids of transfers refused for a reason that may pass
    chains,     \* the legs built for each order, <<>> before
    told,       \* answers the callers have seen
    calls       \* calls made

vars == <<accounts, journal, spent, chains, told, calls>>

-----------------------------------------------------------------------------
(* Chains.                                                                 *)

SystemTenantID == 0

NewAccountID(tenantID, accountType, currency) ==
    [tenant |-> tenantID, type |-> accountType, currency |-> currency]

Wallet(o) == NewAccountID(o.tenantID, "TENANT_WALLET", o.srcCurrency)
System(accountType, currency) == NewAccountID(SystemTenantID, accountType, currency)

\* uint64 subtraction.
Minus(a, b) == (a - b) % Word

\* The n-th transfer built for order o: a UUID v7 of its own, no flags.
NewTransfer(o, n, debit, credit, amount, currency) ==
    [ID |-> <<o.name, n>>, DebitAccount |-> debit, CreditAccount |-> credit,
     Amount |-> amount, Ledger |-> currency, Flags |-> {}, UserData128 |-> "none"]

WithFlag(t, flag) == [t EXCEPT !.Flags = @ \union {flag}]

\* Mutant: the last transfer is linked too.
LinkAll(ts) == [n \in DOMAIN ts |-> WithFlag(ts[n], "linked")]

\* The loop that BuildLinked and CreateLinkedTransfers share.
LinkAllButLast(ts) ==
    [n \in DOMAIN ts |-> IF n < Len(ts) THEN WithFlag(ts[n], "linked") ELSE ts[n]]

\* Mutant: one transfer too few is linked.
BuildLinkedShort(ts) ==
    [n \in DOMAIN ts |-> IF n < Len(ts) - 1 THEN WithFlag(ts[n], "linked") ELSE ts[n]]

BuildLinked(ts) == LinkAllButLast(ts)

Correlated(ts, id) == [n \in DOMAIN ts |-> [ts[n] EXCEPT !.UserData128 = id]]

\* The fee step is left out when there is no fee.
SimpleTransferChain(o) ==
    LET pendingOut == System("PENDING_OUTBOUND", o.srcCurrency)
        post(n, debit, credit, amount) == NewTransfer(o, n, debit, credit, amount, o.srcCurrency)
    IN BuildLinked(
        <<post(1, Wallet(o), pendingOut, o.amount)>>
        \o (IF o.feeAmount > 0
              THEN <<post(2, pendingOut, System("FEE_REVENUE", o.srcCurrency), o.feeAmount)>>
              ELSE <<>>)
        \o <<post(3, pendingOut, System("REGIONAL_SETTLEMENT", o.srcCurrency),
                  Minus(o.amount, o.feeAmount))>>)

SourceChain(o) ==
    LET pendingOut == System("PENDING_OUTBOUND", o.srcCurrency) IN
    Correlated(BuildLinked(
        <<NewTransfer(o, 1, Wallet(o), pendingOut, o.amount, o.srcCurrency),
          NewTransfer(o, 2, pendingOut, System("FX_SETTLEMENT", o.srcCurrency),
                      o.amount, o.srcCurrency)>>),
        o.name)

DestinationSteps(o, payout) ==
    LET fxPosition == System("FX_SETTLEMENT", o.dstCurrency) IN
    BuildLinked(
        (IF o.feeAmount > 0
           THEN <<NewTransfer(o, 3, fxPosition, System("FEE_REVENUE", o.dstCurrency),
                              o.feeAmount, o.dstCurrency)>>
           ELSE <<>>)
        \o <<NewTransfer(o, 4, fxPosition, System("REGIONAL_SETTLEMENT", o.dstCurrency),
                         payout, o.dstCurrency)>>)

\* Mutant: the recipient is paid the fee as well.
DestinationChainGross(o) == Correlated(DestinationSteps(o, o.dstAmount), o.name)

DestinationChain(o) ==
    Correlated(DestinationSteps(o, Minus(o.dstAmount, o.feeAmount)), o.name)

FXTransferChains(o) == <<SourceChain(o), DestinationChain(o)>>

\* TransferBuilder.Add and Build: a top-up less its fee, not linked.
TopUp(o) ==
    LET pendingIn == System("PENDING_INBOUND", o.srcCurrency) IN
    <<NewTransfer(o, 1, pendingIn, Wallet(o), Minus(o.amount, o.feeAmount), o.srcCurrency),
      NewTransfer(o, 2, pendingIn, System("FEE_REVENUE", o.srcCurrency),
                  o.feeAmount, o.srcCurrency)>>

LegsOf(o) ==
    CASE o.kind = "simple" -> <<SimpleTransferChain(o)>>
      [] o.kind = "fx" -> FXTransferChains(o)
      [] o.kind = "batch" -> <<TopUp(o)>>

\* Mutant: every submission of a transfer draws a new id.
toTigerBeetleFreshID(t) ==
    [id |-> <<t.ID, calls>>, debit |-> t.DebitAccount, credit |-> t.CreditAccount,
     amount |-> t.Amount, ledger |-> t.Ledger, flags |-> t.Flags,
     user_data_128 |-> t.UserData128]

\* The conversion, field by field; PendingID is never set.
toTigerBeetle(t) ==
    [id |-> t.ID, debit |-> t.DebitAccount, credit |-> t.CreditAccount,
     amount |-> t.Amount, ledger |-> t.Ledger, flags |-> t.Flags,
     user_data_128 |-> t.UserData128]

-----------------------------------------------------------------------------
(* TigerBeetle 0.16, external: create_transfers on a batch of events.      *)

AmountsOf(S) == SumFunctionOnSet([t \in S |-> t.amount], S)

Debits(entries, id) == AmountsOf({t \in entries : t.debit = id})

Credits(entries, id) == AmountsOf({t \in entries : t.credit = id})

\* Reasons that may pass: an account is missing, or a limited one lacks credit.
Transient(entries, e) ==
    \/ {e.debit, e.credit} \ {a.id : a \in accounts} # {}
    \/ \E a \in accounts :
          /\ a.id = e.debit /\ a.limited
          /\ Debits(entries, e.debit) + e.amount > Credits(entries, e.debit)

\* Reasons that never pass.
Invalid(entries, failed, e) ==
    \/ e.id \in failed \union {t.id : t \in entries}
    \/ e.debit = e.credit
    \/ {e.debit.currency, e.credit.currency} # {e.ledger}

\* Events are taken in order; a chain is a run of linked events and the one
\* that ends it, and the failure of one of them discards the others.
Linked(events, n) == n > 0 /\ "linked" \in events[n].flags

Take(events, s, n) ==
    LET e == events[n]
        base == IF Linked(events, n - 1) THEN s.base ELSE s.entries
        broken == Linked(events, n - 1) /\ s.broken
        open == n = Len(events) /\ Linked(events, n)
        never == broken \/ open \/ Invalid(s.entries, s.failed, e)
    IN IF never \/ Transient(s.entries, e)
         THEN [entries |-> base, base |-> base, broken |-> TRUE, ok |-> FALSE,
               failed |-> IF never THEN s.failed ELSE s.failed \union {e.id}]
         ELSE [s EXCEPT !.entries = @ \union {e}, !.base = base, !.broken = FALSE]

create_transfers(events) ==
    LET after[n \in 0 .. Len(events)] ==
            IF n = 0 THEN [entries |-> journal, base |-> journal, broken |-> FALSE,
                           ok |-> TRUE, failed |-> spent]
                     ELSE Take(events, after[n - 1], n)
    IN after[Len(events)]

-----------------------------------------------------------------------------
(* The client.                                                             *)

Init ==
    /\ accounts = Opened
    /\ journal = {}
    /\ spent = {}
    /\ chains = [o \in Orders |-> <<>>]
    /\ told = {}
    /\ calls = 0

\* CreateAccount (limited = FALSE) and CreateAccountWithFlags; an id that is
\* taken is refused.
CreateAccount(a) ==
    /\ ~\E b \in accounts : b.id = a.id
    /\ accounts' = accounts \union {a}
    /\ UNCHANGED <<journal, spent, chains, told, calls>>

Build(o) ==
    /\ chains[o] = <<>>
    /\ chains' = [chains EXCEPT ![o] = LegsOf(o)]
    /\ UNCHANGED <<accounts, journal, spent, told, calls>>

\* One request to the cluster with the transfers ts of leg l of order o.  The
\* answer, which may never arrive, is an error as soon as one event failed.
Post(o, l, ts) ==
    LET outcome == create_transfers([n \in DOMAIN ts |-> toTigerBeetle(ts[n])]) IN
    /\ calls < MaxCalls
    /\ calls' = calls + 1
    /\ journal' = outcome.entries
    /\ spent' = outcome.failed
    /\ \/ told' = told \union {[order |-> o.name, leg |-> l, ok |-> outcome.ok]}
       \/ UNCHANGED told
    /\ UNCHANGED accounts

\* Mutant: the results are not looked at.
CreateTransfersIgnoresResults(o, l) ==
    LET ts == chains[o][l]
        outcome == create_transfers([n \in DOMAIN ts |-> toTigerBeetle(ts[n])]) IN
    /\ calls < MaxCalls
    /\ calls' = calls + 1
    /\ journal' = outcome.entries
    /\ spent' = outcome.failed
    /\ told' = told \union {[order |-> o.name, leg |-> l, ok |-> TRUE]}
    /\ UNCHANGED <<accounts, chains>>

\* CreateTransfer is the case of one transfer.
CreateTransfers(o, l) ==
    /\ Post(o, l, chains[o][l])
    /\ UNCHANGED chains

\* Mutant: the transfers are posted as they come.
CreateLinkedTransfersUnmarked(o, l) ==
    /\ Post(o, l, chains[o][l])
    /\ UNCHANGED chains

\* The flags are set in the caller's slice.
CreateLinkedTransfers(o, l) ==
    /\ Post(o, l, LinkAllButLast(chains[o][l]))
    /\ chains' = [chains EXCEPT ![o][l] = LinkAllButLast(@)]

Next ==
    \/ \E a \in Openable : CreateAccount(a)
    \/ \E o \in Orders : Build(o)
    \/ \E o \in Orders : \E l \in DOMAIN chains[o] :
          CreateTransfers(o, l) \/ CreateLinkedTransfers(o, l)

Spec == Init /\ [][Next]_vars

-----------------------------------------------------------------------------
(* Correctness.                                                            *)

Names == {o.name : o \in Orders}

Posted(o, l) ==
    /\ l \in DOMAIN chains[o]
    /\ \A n \in DOMAIN chains[o][l] : \E t \in journal : t.id = chains[o][l][n].ID

\* Type invariant: entries name open accounts of their ledger, no id is both
\* accepted and refused, and no leg ends in a chain that is left open.
TypeOK ==
    /\ \A o \in Orders : \A l \in DOMAIN chains[o] :
          "linked" \notin Last(chains[o][l]).Flags
    /\ accounts \subseteq Opened \union Openable
    /\ \A t \in journal :
          /\ {t.debit, t.credit} \subseteq {a.id : a \in accounts}
          /\ t.amount \in 0 .. Word - 1
          /\ t.id \notin spent
    /\ \A t, u \in journal : t.id = u.id => t = u
    /\ told \subseteq [order : Names, leg : {1, 2}, ok : BOOLEAN]
    /\ calls \in 0 .. MaxCalls

Currencies == {o.srcCurrency : o \in Orders} \union {o.dstCurrency : o \in Orders}

\* Payouts in currency c that were posted with a fee above their amount: the
\* last step, amount less fee, has wrapped around.
WrappedPayouts(c) ==
    {o \in Orders : /\ o.kind = "simple" /\ o.srcCurrency = c
                    /\ o.feeAmount > o.amount /\ Posted(o, 1)}

\* PENDING_OUTBOUND "holds funds being disbursed" (types.go:19).  Chains are
\* all-or-nothing, so between calls it holds nothing: whatever was refused,
\* posted twice or left unanswered, no wallet paid for a payout that is missing.
\* The builders do not compare a fee with its amount: a fee that exceeds it is
\* not refused, and each such payout disburses a whole word more than it took.
PendingOutboundNets ==
    \A c \in Currencies :
        LET pendingOut == System("PENDING_OUTBOUND", c)
        IN Debits(journal, pendingOut)
               = Credits(journal, pendingOut) + Word * Cardinality(WrappedPayouts(c))

\* CreateLinkedTransfers is "all-or-nothing" (client.go:160): a call accepts
\* every transfer it is given or none, even one that repeats an earlier call.
LinkedCallsAreAtomic ==
    [][\A o \in Orders : \A l \in DOMAIN chains[o] :
          CreateLinkedTransfers(o, l) =>
              \/ journal' = journal
              \/ Cardinality(journal' \ journal) = Len(chains[o][l])]_vars

\* What payouts and conversions took from a wallet.
PaidFrom(entries, wallet) ==
    AmountsOf({t \in entries : t.debit = wallet /\ t.credit.type = "PENDING_OUTBOUND"})

\* A caller that posts again after an error or a lost answer does not pay
\* again: an order takes from its wallet at most what it says, once.
PaidAtMostOnce ==
    \A o \in Orders :
        o.kind \in {"simple", "fx"} =>
            PaidFrom(journal, Wallet(o))
            <= AmountsOf({p \in Orders : /\ Wallet(p) = Wallet(o)
                                         /\ p.kind \in {"simple", "fx"}
                                         /\ chains[p] # <<>>})

\* A caller that is told a call succeeded finds every transfer of it in the
\* journal, then and later.
AnsweredOkIsPosted ==
    \A a \in told : a.ok => \A o \in Orders : o.name = a.order => Posted(o, a.leg)

DstAmountsOf(S) == SumFunctionOnSet([o \in S |-> o.dstAmount], S)

FXOrders == {o \in Orders : o.kind = "fx"}

\* Destination chains in currency c that were posted with a fee above the amount.
WrappedConversions(c) ==
    {o \in FXOrders : /\ o.dstCurrency = c
                      /\ o.feeAmount > o.dstAmount /\ Posted(o, 2)}

\* "The FX_POSITION accounts track the platform's currency exposure"
\* (transfer.go:192): the balance in each currency is what source chains
\* brought in less what destination chains paid out, fees included, and less a
\* whole word for every chain that was built with a fee above its amount.
ExposureIsTheOpenPairs ==
    \A c \in Currencies :
        LET position == System("FX_SETTLEMENT", c) IN
        Credits(journal, position) - Debits(journal, position)
            = AmountsOf({o \in FXOrders : o.srcCurrency = c /\ Posted(o, 1)})
              - DstAmountsOf({o \in FXOrders : o.dstCurrency = c /\ Posted(o, 2)})
              - Word * Cardinality(WrappedConversions(c))

=============================================================================
