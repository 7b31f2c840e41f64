--------------------- MODULE WalletProvisioning_proofs ---------------------
(***************************************************************************)
(* Proofs about WalletProvisioning, for any number of handlers, tenants,   *)
(* currencies and faults, and any lower bits of the tenant UUIDs.          *)
(***************************************************************************)
EXTENDS WalletProvisioning, TLAPS

\* Only validated requests get past Receive, and only those are acknowledged.
ValidInFlight ==
    \A h \in Handlers :
        \/ pc[h] \in {"lookup", "ledger", "insert"}
        \/ pc[h] = "respond" /\ status[h] \in {201, 409}
        => req[h] \in WellFormed

\* An INSERT is sent only for an account the ledger holds.
HasAccount == \A r \in Inserting : LedgerAccount(r) \in accounts

\* The inductive invariant: SoleProvisioner needs to know that every row and
\* every INSERT already put its account id in the ledger, so that an id the
\* ledger does not hold is free of both.
IInv ==
    /\ TypeOK
    /\ ValidInFlight
    /\ HasAccount
    /\ WalletBacked
    /\ SoleProvisioner
    /\ AnswersAreTrue

\* The three parts of SoleProvisioner.
FreeToInsert ==
    \A r \in Inserting :
        /\ \A w \in wallets : w.tb_account_id # AccountOf(r)
        /\ ~WalletExists(r)
        /\ \A q \in Inserting : AccountOf(q) = AccountOf(r) => q = r

OneHandler ==
    \A h, g \in Handlers :
        pc[h] = "insert" /\ pc[g] = "insert" /\ AccountOf(req[h]) = AccountOf(req[g])
            => h = g

NotLeftBehind ==
    \A h \in Handlers : pc[h] = "insert" => [call |-> "insert", of |-> req[h]] \notin late

LEMMA SoleParts == SoleProvisioner <=> FreeToInsert /\ OneHandler /\ NotLeftBehind
BY DEF SoleProvisioner, FreeToInsert, OneHandler, NotLeftBehind

-----------------------------------------------------------------------------
LEMMA CurrencyIsNat ==
    ASSUME NEW s PROVE CurrencyFromString(s) \in Nat
BY DEF CurrencyFromString

LEMMA AccountTypes ==
    ASSUME NEW r \in WellFormed
    PROVE  /\ AccountOf(r) \in AccountID
           /\ LedgerAccount(r) \in [id : AccountID, ledger : Nat, code : {AccountTypeTenantWallet}]
           /\ LedgerAccount(r).id = AccountOf(r)
           /\ Row(r) \in [tenant_id : Tenants, currency : Currencies, tb_account_id : AccountID]
           /\ r = [tenant |-> r.tenant, currency |-> r.currency]
           /\ r \in Request
<1>1. CurrencyFromString(r.currency) \in Nat  BY CurrencyIsNat
<1>2. r.tenant \in Tenants /\ LowerBits[r.tenant] \in Nat
  BY TenantsAssumption DEF WellFormed
<1>3. AccountOf(r) \in AccountID
  BY <1>1, <1>2 DEF AccountOf, NewAccountID, AccountID, AccountTypeTenantWallet
<1> QED
  BY <1>1, <1>2, <1>3 DEF LedgerAccount, Row, WellFormed, Request

LEMMA CallTypes ==
    ASSUME NEW r \in WellFormed
    PROVE  [call |-> "ledger", of |-> r] \in Calls /\ [call |-> "insert", of |-> r] \in Calls
BY DEF Calls

\* Who may still insert: a handler at its INSERT, or one that was left behind.
LEMMA InsertingIs ==
    ASSUME NEW r
    PROVE  r \in Inserting <=>
             \/ \E h \in Handlers : pc[h] = "insert" /\ req[h] = r
             \/ \E d \in late : d.call = "insert" /\ d.of = r
BY DEF Inserting

LEMMA InsertingIsNext ==
    ASSUME NEW r
    PROVE  r \in Inserting' <=>
             \/ \E h \in Handlers : pc'[h] = "insert" /\ req'[h] = r
             \/ \E d \in late' : d.call = "insert" /\ d.of = r
BY DEF Inserting

LEMMA InsertingIsWellFormed ==
    ASSUME IInv, NEW r \in Inserting PROVE r \in WellFormed
<1>1. CASE \E h \in Handlers : pc[h] = "insert" /\ req[h] = r
  BY <1>1 DEF IInv, ValidInFlight
<1>2. CASE \E d \in late : d.call = "insert" /\ d.of = r
  BY <1>2 DEF IInv, TypeOK, Calls
<1> QED  BY <1>1, <1>2, InsertingIs

LEMMA InitIInv == Init => IInv
<1> SUFFICES ASSUME Init PROVE IInv  OBVIOUS
<1>1. TypeOK
  <2>1. 0 \in 0 .. MaxFaults  BY BoundsAssumption
  <2> QED  BY <2>1 DEF Init, TypeOK, ZeroRequest, Request
<1>2. Inserting = {}  BY DEF Init, Inserting
<1>3. ValidInFlight /\ HasAccount /\ WalletBacked /\ SoleProvisioner /\ AnswersAreTrue
  BY <1>2 DEF Init, ValidInFlight, HasAccount, WalletBacked, SoleProvisioner, AnswersAreTrue
<1> QED  BY <1>1, <1>3 DEF IInv

-----------------------------------------------------------------------------
(* Each action preserves the invariant.                                    *)

\* A step that sends no INSERT and commits no row keeps what relates the stores.
LEMMA NothingInserted ==
    ASSUME IInv, Inserting' \subseteq Inserting, accounts \subseteq accounts',
           UNCHANGED wallets
    PROVE  HasAccount' /\ WalletBacked' /\ FreeToInsert'
<1>1. HasAccount'  BY DEF IInv, HasAccount, LedgerAccount, AccountOf
<1>2. WalletBacked'
  <2>1. ASSUME NEW w \in wallets
        PROVE  LET r == [tenant |-> w.tenant_id, currency |-> w.currency] IN
                 w.tb_account_id = AccountOf(r) /\ LedgerAccount(r) \in accounts'
    BY DEF IInv, WalletBacked
  <2> QED  BY <2>1 DEF WalletBacked
<1>3. FreeToInsert'
  <2>1. FreeToInsert  BY SoleParts DEF IInv
  <2> QED  BY <2>1 DEF FreeToInsert, WalletExists
<1> QED  BY <1>1, <1>2, <1>3

\* Handlers that are at their INSERT after a step were there before, and no
\* more INSERTs are left behind.
NoNewInserter ==
    /\ \A h \in Handlers : pc'[h] = "insert" => pc[h] = "insert" /\ req'[h] = req[h]
    /\ \A d \in late' : d.call = "insert" => d \in late

LEMMA NoNewInserterKeeps ==
    ASSUME IInv, NoNewInserter
    PROVE  Inserting' \subseteq Inserting /\ OneHandler' /\ NotLeftBehind'
<1>1. Inserting' \subseteq Inserting
  BY InsertingIs, InsertingIsNext DEF NoNewInserter
<1>2. OneHandler /\ NotLeftBehind  BY SoleParts DEF IInv
<1>3. OneHandler'  BY <1>2 DEF OneHandler, NoNewInserter
<1>4. NotLeftBehind'
  <2> SUFFICES ASSUME NEW h \in Handlers, pc'[h] = "insert",
                      [call |-> "insert", of |-> req'[h]] \in late'
               PROVE  FALSE
    BY DEF NotLeftBehind
  <2>1. [call |-> "insert", of |-> req[h]] \in late  BY DEF NoNewInserter
  <2> QED  BY <1>2, <2>1 DEF NotLeftBehind, NoNewInserter
<1> QED  BY <1>1, <1>3, <1>4

\* The two together, for the actions that neither send nor commit an INSERT.
LEMMA Quiet ==
    ASSUME IInv, NoNewInserter, accounts \subseteq accounts', UNCHANGED wallets
    PROVE  HasAccount' /\ WalletBacked' /\ SoleProvisioner'
<1>1. SoleProvisioner' <=> FreeToInsert' /\ OneHandler' /\ NotLeftBehind'
  BY SoleParts DEF SoleProvisioner, FreeToInsert, OneHandler, NotLeftBehind
<1> QED  BY <1>1, NothingInserted, NoNewInserterKeeps

LEMMA ReceiveIInv ==
    ASSUME IInv, NEW h \in Handlers, NEW r \in Request, Receive(h, r)
    PROVE  IInv'
<1> USE DEF Receive, Goto, Answer
<1>1. TypeOK'  BY DEF IInv, TypeOK
<1>2. ValidInFlight'  BY DEF IInv, TypeOK, ValidInFlight
<1>3. NoNewInserter  BY DEF IInv, TypeOK, NoNewInserter
<1>4. AnswersAreTrue'  BY DEF IInv, TypeOK, AnswersAreTrue, WalletExists
<1> QED  BY <1>1, <1>2, <1>3, <1>4, Quiet DEF IInv

LEMMA LookUpIInv ==
    ASSUME IInv, NEW h \in Handlers, LookUp(h)
    PROVE  IInv'
<1> USE DEF LookUp, Goto, Answer
<1>1. TypeOK'  BY DEF IInv, TypeOK
<1>2. ValidInFlight'  BY DEF IInv, TypeOK, ValidInFlight
<1>3. NoNewInserter  BY DEF IInv, TypeOK, NoNewInserter
<1>4. AnswersAreTrue'  BY DEF IInv, TypeOK, AnswersAreTrue, WalletExists
<1> QED  BY <1>1, <1>2, <1>3, <1>4, Quiet DEF IInv

\* Every row and every INSERT uses an id the ledger holds.
LEMMA NewIdIsFree ==
    ASSUME IInv, NEW id, AccountIsNew(id)
    PROVE  /\ \A w \in wallets : w.tb_account_id # id
           /\ \A q \in Inserting : AccountOf(q) # id
<1>1. ASSUME NEW w \in wallets PROVE w.tb_account_id # id
  <2> DEFINE r == [tenant |-> w.tenant_id, currency |-> w.currency]
  <2>1. w.tb_account_id = AccountOf(r) /\ LedgerAccount(r) \in accounts
    BY DEF IInv, WalletBacked
  <2>2. LedgerAccount(r).id = AccountOf(r)  BY DEF LedgerAccount
  <2> QED  BY <2>1, <2>2 DEF AccountIsNew
<1>2. ASSUME NEW q \in Inserting PROVE AccountOf(q) # id
  <2>1. LedgerAccount(q) \in accounts  BY DEF IInv, HasAccount
  <2>2. LedgerAccount(q).id = AccountOf(q)  BY DEF LedgerAccount
  <2> QED  BY <2>1, <2>2 DEF AccountIsNew
<1> QED  BY <1>1, <1>2

\* A pair whose account is in no row has no row: its row would use the account.
LEMMA NoRowWithoutAccount ==
    ASSUME IInv, NEW r \in WellFormed,
           \A w \in wallets : w.tb_account_id # AccountOf(r)
    PROVE  ~WalletExists(r)
<1> SUFFICES ASSUME NEW w \in wallets, w.tenant_id = r.tenant, w.currency = r.currency
             PROVE  FALSE
  BY DEF WalletExists
<1>1. r = [tenant |-> w.tenant_id, currency |-> w.currency]  BY AccountTypes
<1>2. w.tb_account_id = AccountOf(r)  BY <1>1 DEF IInv, WalletBacked
<1> QED  BY <1>2

LEMMA CreateLedgerAccountIInv ==
    ASSUME IInv, NEW h \in Handlers, CreateLedgerAccount(h)
    PROVE  IInv'
<1> DEFINE r == req[h]
<1> USE DEF CreateLedgerAccount, Goto, Answer
<1>r. r \in WellFormed  BY DEF IInv, ValidInFlight
<1>1. TypeOK'
  <2>1. accounts' \subseteq [id : AccountID, ledger : Nat, code : {AccountTypeTenantWallet}]
    BY <1>r, AccountTypes DEF IInv, TypeOK
  <2> QED  BY <2>1 DEF IInv, TypeOK
<1>2. ValidInFlight'  BY DEF IInv, TypeOK, ValidInFlight
<1>3. AnswersAreTrue'  BY DEF IInv, TypeOK, AnswersAreTrue, WalletExists
<1>4. HasAccount' /\ WalletBacked' /\ SoleProvisioner'
  <2>1. CASE ~AccountIsNew(AccountOf(r))
    <3>1. NoNewInserter  BY <2>1 DEF IInv, TypeOK, NoNewInserter
    <3> QED  BY <2>1, <3>1, Quiet
  <2>2. CASE AccountIsNew(AccountOf(r))
    <3>1. /\ pc' = [pc EXCEPT ![h] = "insert"]
          /\ accounts' = accounts \union {LedgerAccount(r)}
          /\ UNCHANGED <<req, wallets, late>>
      BY <2>2
    <3>2. Inserting' \subseteq Inserting \union {r} /\ r \notin Inserting
      <4>1. ASSUME NEW q \in Inserting' PROVE q \in Inserting \union {r}
        BY <3>1, InsertingIs, InsertingIsNext DEF IInv, TypeOK
      <4>2. r \notin Inserting  BY <2>2, NewIdIsFree
      <4> QED  BY <4>1, <4>2
    <3>3. /\ \A w \in wallets : w.tb_account_id # AccountOf(r)
          /\ \A q \in Inserting : AccountOf(q) # AccountOf(r)
          /\ ~WalletExists(r)
      BY <2>2, <1>r, NewIdIsFree, NoRowWithoutAccount
    <3>4. HasAccount'
      <4>1. \A q \in Inserting : LedgerAccount(q) \in accounts  BY DEF IInv, HasAccount
      <4> QED  BY <3>1, <3>2, <4>1 DEF HasAccount
    <3>5. WalletBacked'
      <4>1. ASSUME NEW w \in wallets
            PROVE  LET q == [tenant |-> w.tenant_id, currency |-> w.currency] IN
                     w.tb_account_id = AccountOf(q) /\ LedgerAccount(q) \in accounts'
        BY <3>1 DEF IInv, WalletBacked
      <4> QED  BY <3>1, <4>1 DEF WalletBacked
    <3>6. FreeToInsert'
      <4>1. FreeToInsert  BY SoleParts DEF IInv
      <4> HIDE DEF r
      <4>2. \A q \in Inserting' : ~WalletExists(q)
        BY <3>2, <3>3, <4>1 DEF FreeToInsert
      <4>3. \A q \in Inserting' : ~WalletExists(q)'
        BY <3>1, <4>2 DEF WalletExists
      <4> QED  BY <3>1, <3>2, <3>3, <4>1, <4>3 DEF FreeToInsert
    <3>7. OneHandler'
      <4>1. OneHandler  BY SoleParts DEF IInv
      <4>2. \A g \in Handlers : pc[g] = "insert" => AccountOf(req[g]) # AccountOf(r)
        BY <3>3, InsertingIs
      <4> QED  BY <3>1, <4>1, <4>2 DEF OneHandler, IInv, TypeOK
    <3>8. NotLeftBehind'
      <4>1. NotLeftBehind  BY SoleParts DEF IInv
      <4>2. [call |-> "insert", of |-> r] \notin late
        <5> DEFINE d == [call |-> "insert", of |-> r]
        <5>1. d.call = "insert" /\ d.of = r  OBVIOUS
        <5> HIDE DEF d
        <5>2. d \notin late  BY <3>2, <5>1, InsertingIs
        <5> QED  BY <5>2 DEF d
      <4> QED  BY <3>1, <4>1, <4>2 DEF NotLeftBehind, IInv, TypeOK
    <3>9. SoleProvisioner' <=> FreeToInsert' /\ OneHandler' /\ NotLeftBehind'
      BY SoleParts DEF SoleProvisioner, FreeToInsert, OneHandler, NotLeftBehind
    <3> QED  BY <3>4, <3>5, <3>6, <3>7, <3>8, <3>9
  <2> QED  BY <2>1, <2>2
<1> QED  BY <1>1, <1>2, <1>3, <1>4 DEF IInv

\* The row of an INSERT that is executed is backed by its account and takes
\* nothing that an INSERT still to come may need.
LEMMA RowCommitted ==
    ASSUME IInv, NEW r \in Inserting, Inserting' \subseteq Inserting \ {r},
           wallets' = wallets \union {Row(r)}, UNCHANGED accounts
    PROVE  HasAccount' /\ WalletBacked' /\ FreeToInsert'
<1>r. r \in WellFormed  BY InsertingIsWellFormed
<1>1. /\ Row(r).tb_account_id = AccountOf(r)
      /\ Row(r).tenant_id = r.tenant
      /\ Row(r).currency = r.currency
  BY DEF Row
<1>2. HasAccount'  BY DEF IInv, HasAccount
<1>3. WalletBacked'
  <2>1. r = [tenant |-> Row(r).tenant_id, currency |-> Row(r).currency]
    BY <1>r, <1>1, AccountTypes
  <2>2. LedgerAccount(r) \in accounts  BY DEF IInv, HasAccount
  <2>3. ASSUME NEW w \in wallets
        PROVE  LET q == [tenant |-> w.tenant_id, currency |-> w.currency] IN
                 w.tb_account_id = AccountOf(q) /\ LedgerAccount(q) \in accounts
    BY DEF IInv, WalletBacked
  <2> QED  BY <1>1, <2>1, <2>2, <2>3 DEF WalletBacked
<1>4. FreeToInsert'
  <2>0. FreeToInsert  BY SoleParts DEF IInv
  <2> SUFFICES ASSUME NEW q \in Inserting'
               PROVE  /\ \A w \in wallets' : w.tb_account_id # AccountOf(q)
                      /\ ~WalletExists(q)'
                      /\ \A p \in Inserting' : AccountOf(p) = AccountOf(q) => p = q
    BY DEF FreeToInsert
  <2>1. q \in Inserting /\ AccountOf(q) # AccountOf(r)  BY <2>0 DEF FreeToInsert
  <2>2. \A w \in wallets' : w.tb_account_id # AccountOf(q)
    BY <1>1, <2>0, <2>1 DEF FreeToInsert
  <2>3. ~(r.tenant = q.tenant /\ r.currency = q.currency)  BY <2>1 DEF AccountOf
  <2>4. ~WalletExists(q)'  BY <1>1, <2>0, <2>1, <2>3 DEF FreeToInsert, WalletExists
  <2> QED  BY <2>0, <2>1, <2>2, <2>4 DEF FreeToInsert
<1> QED  BY <1>2, <1>3, <1>4

LEMMA InsertWalletIInv ==
    ASSUME IInv, NEW h \in Handlers, InsertWallet(h)
    PROVE  IInv'
<1> DEFINE r == req[h]
<1>r. r \in WellFormed  BY DEF IInv, InsertWallet, ValidInFlight
<1>1. TypeOK'
  <2>1. wallets' \subseteq [tenant_id : Tenants, currency : Currencies, tb_account_id : AccountID]
    BY <1>r, AccountTypes DEF IInv, TypeOK, InsertWallet
  <2> QED  BY <2>1 DEF IInv, TypeOK, InsertWallet, Answer, Goto
<1>2. ValidInFlight'
  BY <1>r DEF IInv, TypeOK, ValidInFlight, InsertWallet, Answer, Goto
<1>3. NoNewInserter
  BY DEF IInv, TypeOK, NoNewInserter, InsertWallet, Answer, Goto
<1>4. OneHandler' /\ NotLeftBehind' /\ Inserting' \subseteq Inserting
  BY <1>3, NoNewInserterKeeps
<1>5. SoleProvisioner' <=> FreeToInsert' /\ OneHandler' /\ NotLeftBehind'
  BY SoleParts DEF SoleProvisioner, FreeToInsert, OneHandler, NotLeftBehind
<1>6. r \in Inserting  BY InsertingIs DEF InsertWallet
<1>7. r \notin Inserting'
  <2>1. OneHandler /\ NotLeftBehind  BY SoleParts DEF IInv
  <2>2. ~\E g \in Handlers : pc'[g] = "insert" /\ req'[g] = r
    BY <2>1 DEF OneHandler, IInv, TypeOK, InsertWallet, Answer, Goto
  <2>3. ASSUME NEW d \in late', d.call = "insert", d.of = r PROVE FALSE
    <3>1. d \in late /\ d = [call |-> "insert", of |-> r]
      BY <2>3 DEF IInv, TypeOK, Calls, InsertWallet
    <3> QED  BY <2>1, <3>1 DEF NotLeftBehind, InsertWallet
  <2> QED  BY <2>2, <2>3, InsertingIsNext
<1>8. HasAccount' /\ WalletBacked' /\ FreeToInsert'
  <2>1. CASE InsertAccepted(Row(r))
    <3>1. wallets' = wallets \union {Row(r)} /\ UNCHANGED accounts
      BY <2>1 DEF InsertWallet
    <3> QED  BY <1>4, <1>6, <1>7, <3>1, RowCommitted
  <2>2. CASE ~InsertAccepted(Row(r))
    <3>1. UNCHANGED <<wallets, accounts>>  BY <2>2 DEF InsertWallet
    <3> QED  BY <1>4, <3>1, NothingInserted
  <2> QED  BY <2>1, <2>2
<1>9. AnswersAreTrue'
  <2>1. wallets \subseteq wallets' /\ UNCHANGED <<req, told>>
        /\ pc' = [pc EXCEPT ![h] = "respond"]
    BY DEF InsertWallet, Answer, Goto
  <2>2. status'[h] \in {201, 409} => Row(r) \in wallets'
    BY DEF IInv, TypeOK, InsertWallet, Answer
  <2>3. Row(r).tenant_id = r.tenant /\ Row(r).currency = r.currency  BY DEF Row
  <2>4. \A g \in Handlers \ {h} : status'[g] = status[g]
    BY DEF IInv, TypeOK, InsertWallet, Answer
  <2>5. \A q \in told' : WalletExists(q)'
    BY <2>1 DEF IInv, AnswersAreTrue, WalletExists
  <2>6. ASSUME NEW g \in Handlers, pc'[g] = "respond", status'[g] \in {201, 409}
        PROVE  WalletExists(req[g])'
    <3>1. CASE g = h  BY <2>1, <2>2, <2>3, <2>6, <3>1 DEF WalletExists
    <3>2. CASE g # h
      BY <2>1, <2>4, <2>6, <3>2 DEF IInv, TypeOK, AnswersAreTrue, WalletExists
    <3> QED  BY <3>1, <3>2
  <2> QED  BY <2>5, <2>6 DEF AnswersAreTrue
<1> QED  BY <1>1, <1>2, <1>4, <1>5, <1>8, <1>9 DEF IInv

LEMMA RespondIInv ==
    ASSUME IInv, NEW h \in Handlers, Respond(h)
    PROVE  IInv'
<1> USE DEF Respond, Release, Goto
<1>0. status[h] \in {201, 409} => req[h] \in WellFormed /\ WalletExists(req[h])
  BY DEF IInv, ValidInFlight, AnswersAreTrue
<1>1. TypeOK'
  <2>1. ZeroRequest \in Request  BY DEF ZeroRequest, Request
  <2> QED  BY <1>0, <2>1 DEF IInv, TypeOK
<1>2. ValidInFlight'  BY DEF IInv, TypeOK, ValidInFlight
<1>3. NoNewInserter  BY DEF IInv, TypeOK, NoNewInserter
<1>4. AnswersAreTrue'  BY <1>0 DEF IInv, TypeOK, AnswersAreTrue, WalletExists
<1> QED  BY <1>1, <1>2, <1>3, <1>4, Quiet DEF IInv

LEMMA FaultType == ASSUME IInv, Fault PROVE faults' \in 0 .. MaxFaults
BY BoundsAssumption DEF IInv, TypeOK, Fault

LEMMA LookUpFailsIInv ==
    ASSUME IInv, NEW h \in Handlers, LookUpFails(h)
    PROVE  IInv'
<1> USE DEF LookUpFails, Goto, Answer
<1>1. TypeOK'  BY FaultType DEF IInv, TypeOK
<1>2. ValidInFlight'  BY DEF IInv, TypeOK, ValidInFlight
<1>3. NoNewInserter  BY DEF IInv, TypeOK, NoNewInserter
<1>4. AnswersAreTrue'  BY DEF IInv, TypeOK, AnswersAreTrue, WalletExists
<1> QED  BY <1>1, <1>2, <1>3, <1>4, Quiet DEF IInv

LEMMA LedgerCallFailsIInv ==
    ASSUME IInv, NEW h \in Handlers, LedgerCallFails(h)
    PROVE  IInv'
<1> USE DEF LedgerCallFails, Goto, Answer
<1>r. req[h] \in WellFormed  BY DEF IInv, ValidInFlight
<1>1. TypeOK'
  <2>0. [call |-> "ledger", of |-> req[h]] \in Calls  BY <1>r, CallTypes
  <2>1. late' \subseteq Calls  BY <2>0 DEF IInv, TypeOK
  <2> QED  BY <2>1, FaultType DEF IInv, TypeOK
<1>2. ValidInFlight'  BY DEF IInv, TypeOK, ValidInFlight
<1>3. NoNewInserter  BY DEF IInv, TypeOK, NoNewInserter
<1>4. AnswersAreTrue'  BY DEF IInv, TypeOK, AnswersAreTrue, WalletExists
<1> QED  BY <1>1, <1>2, <1>3, <1>4, Quiet DEF IInv

\* An INSERT that loses its handler is the same INSERT.
LEMMA InsertFailsIInv ==
    ASSUME IInv, NEW h \in Handlers, InsertFails(h)
    PROVE  IInv'
<1> DEFINE c == [call |-> "insert", of |-> req[h]]
<1>r. req[h] \in WellFormed  BY DEF IInv, InsertFails, ValidInFlight
<1>1. TypeOK'
  <2>0. [call |-> "insert", of |-> req[h]] \in Calls  BY <1>r, CallTypes
  <2>1. late' \subseteq Calls  BY <2>0 DEF IInv, TypeOK, InsertFails
  <2> QED  BY <2>1, FaultType DEF IInv, TypeOK, InsertFails, Answer, Goto
<1>2. ValidInFlight'
  BY <1>r DEF IInv, TypeOK, ValidInFlight, InsertFails, Answer, Goto
<1>3. \A g \in Handlers : pc'[g] = "insert" => g # h /\ pc[g] = "insert" /\ req'[g] = req[g]
  BY DEF IInv, TypeOK, InsertFails, Answer, Goto
<1>4. c.of = req[h] /\ late' \subseteq late \union {c}  BY DEF InsertFails
<1>5. Inserting' \subseteq Inserting
  <2> HIDE DEF c
  <2> SUFFICES ASSUME NEW q \in Inserting' PROVE q \in Inserting  OBVIOUS
  <2>1. CASE \E g \in Handlers : pc'[g] = "insert" /\ req'[g] = q
    BY <1>3, <2>1, InsertingIs
  <2>2. CASE \E d \in late' : d.call = "insert" /\ d.of = q
    <3>1. PICK d \in late' : d.call = "insert" /\ d.of = q  BY <2>2
    <3>2. CASE d = c  BY <1>4, <3>1, <3>2, InsertingIs DEF InsertFails
    <3>3. CASE d \in late  BY <3>1, <3>3, InsertingIs
    <3> QED  BY <1>4, <3>2, <3>3
  <2> QED  BY <2>1, <2>2, InsertingIsNext
<1>6. OneHandler' /\ NotLeftBehind'
  <2>1. OneHandler /\ NotLeftBehind  BY SoleParts DEF IInv
  <2>2. OneHandler'  BY <1>3, <2>1 DEF OneHandler
  <2>3. NotLeftBehind'
    <3> SUFFICES ASSUME NEW g \in Handlers, pc'[g] = "insert",
                        [call |-> "insert", of |-> req'[g]] \in late'
                 PROVE  FALSE
      BY DEF NotLeftBehind
    <3>1. g # h /\ pc[g] = "insert" /\ req'[g] = req[g]  BY <1>3
    <3>2. req[g] # req[h]  BY <2>1, <3>1 DEF OneHandler, InsertFails
    <3>3. [call |-> "insert", of |-> req[g]] \in late  BY <1>4, <3>1, <3>2
    <3> QED  BY <2>1, <3>1, <3>3 DEF NotLeftBehind
  <2> QED  BY <2>2, <2>3
<1>7. HasAccount' /\ WalletBacked' /\ FreeToInsert'
  BY <1>5, NothingInserted DEF InsertFails
<1>8. SoleProvisioner' <=> FreeToInsert' /\ OneHandler' /\ NotLeftBehind'
  BY SoleParts DEF SoleProvisioner, FreeToInsert, OneHandler, NotLeftBehind
<1>9. AnswersAreTrue'
  BY DEF IInv, TypeOK, AnswersAreTrue, WalletExists, InsertFails, Answer, Goto
<1> QED  BY <1>1, <1>2, <1>6, <1>7, <1>8, <1>9 DEF IInv

LEMMA CrashIInv == ASSUME IInv, Crash PROVE IInv'
<1>0. /\ \A h \in Handlers : pc'[h] = "idle"
      /\ late' \subseteq late \union UnderWay
      /\ UNCHANGED <<accounts, wallets, told>>
  BY DEF Crash
<1>1. TypeOK'
  <2>1. ZeroRequest \in Request  BY DEF ZeroRequest, Request
  <2>2. late' \subseteq Calls  BY <1>0 DEF UnderWay, IInv, TypeOK
  <2> QED  BY <2>1, <2>2, FaultType DEF IInv, TypeOK, Crash
<1>2. ValidInFlight'  BY <1>0 DEF ValidInFlight
<1>3. Inserting' \subseteq Inserting
  <2> SUFFICES ASSUME NEW q \in Inserting' PROVE q \in Inserting  OBVIOUS
  <2>1. PICK d \in late' : d.call = "insert" /\ d.of = q  BY <1>0, InsertingIsNext
  <2>2. CASE d \in late  BY <2>1, <2>2, InsertingIs
  <2>3. CASE d \in UnderWay  BY <2>1, <2>3, InsertingIs DEF UnderWay
  <2> QED  BY <1>0, <2>2, <2>3
<1>4. OneHandler' /\ NotLeftBehind'  BY <1>0 DEF OneHandler, NotLeftBehind
<1>5. HasAccount' /\ WalletBacked' /\ FreeToInsert'  BY <1>0, <1>3, NothingInserted
<1>6. SoleProvisioner' <=> FreeToInsert' /\ OneHandler' /\ NotLeftBehind'
  BY SoleParts DEF SoleProvisioner, FreeToInsert, OneHandler, NotLeftBehind
<1>7. AnswersAreTrue'  BY <1>0 DEF IInv, AnswersAreTrue, WalletExists
<1> QED  BY <1>1, <1>2, <1>4, <1>5, <1>6, <1>7 DEF IInv

LEMMA LateCommitIInv ==
    ASSUME IInv, NEW c \in late, LateCommit(c)
    PROVE  IInv'
<1> DEFINE r == c.of
<1>r. c \in Calls /\ r \in WellFormed  BY DEF IInv, TypeOK, Calls
<1>1. TypeOK'
  <2>1. accounts' \subseteq [id : AccountID, ledger : Nat, code : {AccountTypeTenantWallet}]
    BY <1>r, AccountTypes DEF IInv, TypeOK, LateCommit
  <2>2. wallets' \subseteq [tenant_id : Tenants, currency : Currencies, tb_account_id : AccountID]
    BY <1>r, AccountTypes DEF IInv, TypeOK, LateCommit
  <2> QED  BY <2>1, <2>2 DEF IInv, TypeOK, LateCommit
<1>2. ValidInFlight'  BY DEF IInv, ValidInFlight, LateCommit
<1>3. NoNewInserter  BY DEF NoNewInserter, LateCommit
<1>4. OneHandler' /\ NotLeftBehind' /\ Inserting' \subseteq Inserting
  BY <1>3, NoNewInserterKeeps
<1>5. SoleProvisioner' <=> FreeToInsert' /\ OneHandler' /\ NotLeftBehind'
  BY SoleParts DEF SoleProvisioner, FreeToInsert, OneHandler, NotLeftBehind
<1>6. AnswersAreTrue'
  <2>1. \A q : WalletExists(q) => WalletExists(q)'  BY DEF WalletExists, LateCommit
  <2> QED  BY <2>1 DEF IInv, AnswersAreTrue, LateCommit
<1>7. HasAccount' /\ WalletBacked' /\ FreeToInsert'
  <2>1. CASE c.call = "insert" /\ InsertAccepted(Row(r))
    <3>1. wallets' = wallets \union {Row(r)} /\ UNCHANGED accounts
      BY <2>1 DEF LateCommit
    <3>2. r \in Inserting  BY <2>1, InsertingIs
    <3>3. r \notin Inserting'
      <4>1. NotLeftBehind  BY SoleParts DEF IInv
      <4>2. \A d \in late : d.call = "insert" /\ d.of = r => d = c
        BY <2>1 DEF IInv, TypeOK, Calls
      <4>3. c = [call |-> "insert", of |-> r]  BY <1>r, <2>1 DEF Calls
      <4>4. ~\E g \in Handlers : pc[g] = "insert" /\ req[g] = r
        BY <4>1, <4>3 DEF NotLeftBehind
      <4> QED  BY <4>2, <4>4, InsertingIsNext DEF LateCommit
    <3> QED  BY <1>4, <3>1, <3>2, <3>3, RowCommitted
  <2>2. CASE ~(c.call = "insert" /\ InsertAccepted(Row(r)))
    <3>1. accounts \subseteq accounts' /\ UNCHANGED wallets  BY <2>2 DEF LateCommit
    <3> QED  BY <1>4, <3>1, NothingInserted
  <2> QED  BY <2>1, <2>2
<1> QED  BY <1>1, <1>2, <1>4, <1>5, <1>6, <1>7 DEF IInv

LEMMA StutterIInv == ASSUME IInv, UNCHANGED vars PROVE IInv'
BY DEF IInv, TypeOK, ValidInFlight, HasAccount, WalletBacked, SoleProvisioner,
       Inserting, AnswersAreTrue, WalletExists, vars

LEMMA NextIInv == IInv /\ [Next]_vars => IInv'
<1> SUFFICES ASSUME IInv, [Next]_vars PROVE IInv'  OBVIOUS
<1>1. CASE \E h \in Handlers, r \in Request : Receive(h, r)  BY <1>1, ReceiveIInv
<1>2. CASE \E h \in Handlers : Step(h)
  BY <1>2, LookUpIInv, CreateLedgerAccountIInv, InsertWalletIInv, RespondIInv DEF Step
<1>3. CASE \E h \in Handlers : Fails(h)
  BY <1>3, LookUpFailsIInv, LedgerCallFailsIInv, InsertFailsIInv DEF Fails
<1>4. CASE Crash  BY <1>4, CrashIInv
<1>5. CASE \E c \in late : LateCommit(c)  BY <1>5, LateCommitIInv
<1>6. CASE UNCHANGED vars  BY <1>6, StutterIInv
<1> QED  BY <1>1, <1>2, <1>3, <1>4, <1>5, <1>6 DEF Next

-----------------------------------------------------------------------------
LEMMA Invariance == Spec => []IInv
BY InitIInv, NextIInv, PTL DEF Spec

\* The state of the endpoint is well typed in every reachable state.
THEOREM TypeCorrect == Spec => []TypeOK
<1>1. IInv => TypeOK  BY DEF IInv
<1> QED  BY <1>1, Invariance, PTL

\* A wallet is never committed before its own account, for any interleaving of
\* any number of handlers, any failures and any delay of an INSERT left behind.
THEOREM WalletsAreBacked == Spec => []WalletBacked
<1>1. IInv => WalletBacked  BY DEF IInv
<1> QED  BY <1>1, Invariance, PTL

\* The account creation in TigerBeetle serializes concurrent requests: whoever
\* reaches the INSERT is alone with its account and its (tenant, currency), and
\* stays so in an INSERT left behind.
THEOREM ProvisionerIsSole == Spec => []SoleProvisioner
<1>1. IInv => SoleProvisioner  BY DEF IInv
<1> QED  BY <1>1, Invariance, PTL

\* A 201 or a 409 is never taken back, and is never given for a wallet that is
\* not there.
THEOREM AnswersStayTrue == Spec => []AnswersAreTrue
<1>1. IInv => AnswersAreTrue  BY DEF IInv
<1> QED  BY <1>1, Invariance, PTL
-----------------------------------------------------------------------------
(* Orphaned accounts.                                                      *)

\* How the accounts, the rows and the INSERTs still to come may change in a step.
LEMMA StepOfStores ==
    ASSUME IInv, [Next]_vars
    PROVE  \/ UNCHANGED wallets /\ Inserting' \subseteq Inserting
           \/ \E h \in Handlers :
                 /\ CreateLedgerAccount(h) /\ AccountIsNew(AccountOf(req[h]))
                 /\ UNCHANGED wallets
                 /\ Inserting' \subseteq Inserting \union {req[h]}
           \/ \E r \in Inserting :
                 wallets' \subseteq wallets \union {Row(r)} /\ Inserting' \subseteq Inserting
<1>1. ASSUME NEW h \in Handlers, NEW r \in Request, Receive(h, r)
      PROVE  UNCHANGED wallets /\ NoNewInserter
  BY <1>1 DEF IInv, TypeOK, Receive, Goto, Answer, NoNewInserter
<1>2. ASSUME NEW h \in Handlers,
             LookUp(h) \/ Respond(h) \/ LookUpFails(h) \/ LedgerCallFails(h)
      PROVE  UNCHANGED wallets /\ NoNewInserter
  BY <1>2 DEF IInv, TypeOK, LookUp, Respond, Release, LookUpFails, LedgerCallFails, Goto,
       Answer, NoNewInserter
<1>3. ASSUME NEW h \in Handlers, CreateLedgerAccount(h), ~AccountIsNew(AccountOf(req[h]))
      PROVE  UNCHANGED wallets /\ NoNewInserter
  BY <1>3 DEF IInv, TypeOK, CreateLedgerAccount, Goto, Answer, NoNewInserter
<1>4. ASSUME NEW h \in Handlers, CreateLedgerAccount(h), AccountIsNew(AccountOf(req[h]))
      PROVE  UNCHANGED wallets /\ Inserting' \subseteq Inserting \union {req[h]}
  <2>1. UNCHANGED <<wallets, req, late>> /\ pc' = [pc EXCEPT ![h] = "insert"]
    BY <1>4 DEF CreateLedgerAccount, Goto
  <2> QED  BY <2>1, InsertingIs, InsertingIsNext DEF IInv, TypeOK
<1>5. ASSUME NEW h \in Handlers, InsertWallet(h)
      PROVE  /\ NoNewInserter /\ req[h] \in Inserting
             /\ wallets' \subseteq wallets \union {Row(req[h])}
  BY <1>5, InsertingIs DEF IInv, TypeOK, InsertWallet, Goto, Answer, NoNewInserter
<1>6. ASSUME NEW h \in Handlers, InsertFails(h)
      PROVE  UNCHANGED wallets /\ Inserting' \subseteq Inserting
  <2> DEFINE c == [call |-> "insert", of |-> req[h]]
  <2>1. /\ \A g \in Handlers : pc'[g] = "insert" => pc[g] = "insert" /\ req'[g] = req[g]
        /\ late' \subseteq late \union {c} /\ c.of = req[h] /\ pc[h] = "insert"
        /\ UNCHANGED wallets
    BY <1>6 DEF IInv, TypeOK, InsertFails, Goto, Answer
  <2> HIDE DEF c
  <2> SUFFICES ASSUME NEW q \in Inserting' PROVE q \in Inserting  BY <2>1
  <2>2. CASE \E g \in Handlers : pc'[g] = "insert" /\ req'[g] = q  BY <2>1, <2>2, InsertingIs
  <2>3. CASE \E d \in late' : d.call = "insert" /\ d.of = q  BY <2>1, <2>3, InsertingIs
  <2> QED  BY <2>2, <2>3, InsertingIsNext
<1>7. CASE Crash
  <2>1. /\ \A h \in Handlers : pc'[h] = "idle"
        /\ late' \subseteq late \union UnderWay
        /\ UNCHANGED wallets
    BY <1>7 DEF Crash
  <2>2. ASSUME NEW q \in Inserting' PROVE q \in Inserting
    <3>1. PICK d \in late' : d.call = "insert" /\ d.of = q  BY <2>1, InsertingIsNext
    <3> QED  BY <2>1, <3>1, InsertingIs DEF UnderWay
  <2> QED  BY <2>1, <2>2
<1>8. ASSUME NEW c \in late, LateCommit(c), c.call = "insert"
      PROVE  NoNewInserter /\ c.of \in Inserting /\ wallets' \subseteq wallets \union {Row(c.of)}
  BY <1>8, InsertingIs DEF LateCommit, NoNewInserter
<1>9. ASSUME NEW c \in late, LateCommit(c), c.call # "insert"
      PROVE  NoNewInserter /\ UNCHANGED wallets
  BY <1>9 DEF LateCommit, NoNewInserter
<1>10. CASE UNCHANGED vars  BY <1>10 DEF vars, Inserting
<1>11. NoNewInserter => Inserting' \subseteq Inserting  BY NoNewInserterKeeps
<1> QED
  BY <1>1, <1>2, <1>3, <1>4, <1>5, <1>6, <1>7, <1>8, <1>9, <1>10, <1>11 DEF Next, Step, Fails

\* An INSERT is sent only by the handler that created its account, and a row
\* comes from an INSERT only.
LEMMA OrphanStep ==
    ASSUME IInv, [Next]_vars, NEW a \in accounts, Orphan(a)
    PROVE  Orphan(a)'
<1>1. /\ \A w \in wallets : w.tb_account_id # a.id
      /\ \A r \in Inserting : AccountOf(r) # a.id
  BY DEF Orphan
<1> SUFFICES /\ \A w \in wallets' : w.tb_account_id # a.id
             /\ \A r \in Inserting' : AccountOf(r) # a.id
  BY DEF Orphan
<1>2. CASE UNCHANGED wallets /\ Inserting' \subseteq Inserting  BY <1>1, <1>2
<1>3. CASE \E h \in Handlers :
              /\ CreateLedgerAccount(h) /\ AccountIsNew(AccountOf(req[h]))
              /\ UNCHANGED wallets
              /\ Inserting' \subseteq Inserting \union {req[h]}
  BY <1>1, <1>3 DEF AccountIsNew
<1>4. CASE \E r \in Inserting :
              wallets' \subseteq wallets \union {Row(r)} /\ Inserting' \subseteq Inserting
  <2>1. PICK r \in Inserting :
              wallets' \subseteq wallets \union {Row(r)} /\ Inserting' \subseteq Inserting
    BY <1>4
  <2>2. Row(r).tb_account_id # a.id  BY <1>1 DEF Row
  <2> QED  BY <1>1, <2>1, <2>2
<1> QED  BY <1>2, <1>3, <1>4, StepOfStores

\* Once no INSERT is left that could follow an account's creation, no later step
\* of any handler gives that account an owner.
THEOREM OrphansStayOrphaned == Spec => OrphansStay
<1>1. IInv /\ [Next]_vars => [\A a \in accounts : Orphan(a) => Orphan(a)']_vars
  BY OrphanStep
<1> QED  BY <1>1, Invariance, PTL DEF Spec, OrphansStay

-----------------------------------------------------------------------------
\* While nothing fails, nothing is left behind.
NothingLate == faults = 0 => late = {}

LEMMA FaultFreeStep ==
    ASSUME IInv, NothingLate, [Next]_vars, ~(faults' > 0)
    PROVE  /\ ~(faults > 0) /\ late = {} /\ late' = {}
           /\ \/ \E h \in Handlers, r \in Request : Receive(h, r)
              \/ \E h \in Handlers : Step(h)
              \/ UNCHANGED vars
<1>1. faults \in Nat /\ faults' \in Nat
  BY BoundsAssumption, NextIInv DEF IInv, TypeOK
<1>2. ~Fault  BY <1>1 DEF Fault
<1>3. ~Crash /\ \A h \in Handlers : ~Fails(h)
  BY <1>2 DEF Crash, Fails, LookUpFails, LedgerCallFails, InsertFails
<1>4. UNCHANGED faults
  BY <1>3 DEF Next, Step, vars, Receive, LookUp, CreateLedgerAccount, InsertWallet, Respond,
     LateCommit
<1>5. late = {}  BY <1>1, <1>4 DEF NothingLate
<1>6. \/ \E h \in Handlers, r \in Request : Receive(h, r)
      \/ \E h \in Handlers : Step(h)
      \/ UNCHANGED vars
  BY <1>3, <1>5 DEF Next
<1>7. late' = late
  BY <1>6 DEF Step, vars, Receive, LookUp, CreateLedgerAccount, InsertWallet, Respond
<1> QED  BY <1>1, <1>4, <1>5, <1>6, <1>7

LEMMA CauseStep ==
    ASSUME IInv, NothingLate, OrphanNeedsCause, [Next]_vars
    PROVE  OrphanNeedsCause' /\ NothingLate'
<1>0. NothingLate'
  <2>1. faults' \in Nat  BY BoundsAssumption, NextIInv DEF IInv, TypeOK
  <2> QED  BY <2>1, FaultFreeStep DEF NothingLate
<1> SUFFICES ASSUME NEW a \in accounts', Orphan(a)', ~(faults' > 0), AppGeneratesId
             PROVE  \E t \in Tenants \ RegisteredTenants : LowerBits[t] = a.id.tenant
  BY <1>0 DEF OrphanNeedsCause
<1>f. /\ ~(faults > 0) /\ late = {} /\ late' = {}
      /\ \/ \E h \in Handlers, r \in Request : Receive(h, r)
         \/ \E h \in Handlers : Step(h)
         \/ UNCHANGED vars
  BY FaultFreeStep
<1>1. CASE a \in accounts /\ Orphan(a)
  BY <1>f, <1>1 DEF OrphanNeedsCause
<1>2. CASE a \notin accounts
  \* Only CreateLedgerAccount adds an account, and its handler goes to the INSERT.
  <2>1. PICK h \in Handlers : CreateLedgerAccount(h)
    BY <1>f, <1>2 DEF Step, vars, Receive, LookUp, InsertWallet, Respond
  <2>2. a = LedgerAccount(req[h]) /\ pc'[h] = "insert" /\ req' = req
    BY <2>1, <1>2 DEF CreateLedgerAccount, Goto, IInv, TypeOK
  <2>3. a.id = AccountOf(req'[h])  BY <2>2 DEF LedgerAccount
  <2>4. req'[h] \in Inserting'  BY <2>2, InsertingIsNext
  <2> QED  BY <2>3, <2>4 DEF Orphan
<1>3. CASE a \in accounts /\ ~Orphan(a)
  \* Only an INSERT that is refused gives up an account, and only the foreign
  \* key can refuse one.
  <2>1. \A w \in wallets : w.tb_account_id # a.id
    BY <1>f DEF Orphan, Step, vars, Receive, LookUp, CreateLedgerAccount, InsertWallet, Respond
  <2>2. PICK h \in Handlers : pc[h] = "insert" /\ AccountOf(req[h]) = a.id
    BY <1>3, <1>f, <2>1, InsertingIs DEF Orphan
  <2>3. ~(pc'[h] = "insert" /\ req'[h] = req[h])
    BY <2>2, InsertingIsNext DEF Orphan
  <2>4. InsertWallet(h)
    BY <1>f, <2>2, <2>3 DEF IInv, TypeOK, Step, vars, Receive, LookUp,
       CreateLedgerAccount, InsertWallet, Respond, Release, Goto, Answer
  <2>r. req[h] \in WellFormed /\ req[h] \in Inserting
    BY <2>2, InsertingIs DEF IInv, ValidInFlight
  <2>5. Row(req[h]).tb_account_id = a.id  BY <2>2 DEF Row
  <2>6. ~InsertAccepted(Row(req[h]))  BY <2>4, <2>5 DEF InsertWallet, Orphan
  <2>7. /\ \A w \in wallets : w.tb_account_id # Row(req[h]).tb_account_id
        /\ \A w \in wallets : w.tenant_id = req[h].tenant => w.currency # req[h].currency
    <3>1. FreeToInsert  BY SoleParts DEF IInv
    <3> QED  BY <2>2, <2>5, <2>r, <3>1 DEF FreeToInsert, WalletExists
  <2>8. req[h].tenant \in Tenants \ RegisteredTenants
    BY <2>6, <2>7, <2>r DEF InsertAccepted, Row, WellFormed
  <2>9. a.id.tenant = LowerBits[req[h].tenant]  BY <2>2 DEF AccountOf, NewAccountID
  <2> QED  BY <2>8, <2>9
<1> QED  BY <1>1, <1>2, <1>3

\* An account is left without a wallet only by a failed call, by a tenant that
\* has no row, or by an INSERT that gives no id; no interleaving does it.
THEOREM OrphansHaveACause == Spec => []OrphanNeedsCause
<1>1. Init => OrphanNeedsCause /\ NothingLate  BY DEF Init, OrphanNeedsCause, NothingLate
<1>2. IInv /\ OrphanNeedsCause /\ NothingLate /\ [Next]_vars
        => (OrphanNeedsCause /\ NothingLate)'
  BY CauseStep
<1> QED  BY <1>1, <1>2, Invariance, PTL DEF Spec

-----------------------------------------------------------------------------
\* The INSERT as committed gives no id: no row is ever written, and every
\* account the endpoint creates is an orphan as soon as no INSERT is pending.
NoneProvisioned ==
    ~AppGeneratesId =>
        /\ wallets = {}
        /\ \A a \in accounts : Orphan(a) \/ \E r \in Inserting : AccountOf(r) = a.id

\* The committed code, AppGeneratesId = FALSE, never creates a wallet.
THEOREM NoWalletWithoutId == Spec => []NoneProvisioned
<1>1. Init => NoneProvisioned  BY DEF Init, NoneProvisioned
<1>2. NoneProvisioned /\ [Next]_vars => NoneProvisioned'
  <2> SUFFICES ASSUME NoneProvisioned, [Next]_vars, ~AppGeneratesId
               PROVE  NoneProvisioned'
    BY DEF NoneProvisioned
  <2>1. wallets = {}  BY DEF NoneProvisioned
  <2>2. \A row : ~InsertAccepted(row)  BY DEF InsertAccepted
  <2>3. UNCHANGED wallets
    BY <2>2 DEF Next, Step, Fails, vars, Receive, LookUp, CreateLedgerAccount, InsertWallet,
       Respond, LookUpFails, LedgerCallFails, InsertFails, Crash, LateCommit
  <2> QED  BY <2>1, <2>3 DEF NoneProvisioned, Orphan
<1> QED  BY <1>1, <1>2, PTL DEF Spec
=============================================================================
