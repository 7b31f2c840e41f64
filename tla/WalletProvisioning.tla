------------------------- MODULE WalletProvisioning -------------------------
(***************************************************************************)
(* POST /api/v1/wallets (internal/handler/wallet.go, WalletHandler.Create). *)
(*                                                                         *)
(* net/http serves every request on a goroutine of its own.  A handler     *)
(* looks the wallet up in PostgreSQL, creates an account in TigerBeetle    *)
(* and then inserts the wallet row, with no transaction that spans the     *)
(* two stores and no lock between handlers.  Each call to a store is one   *)
(* action, so the calls of concurrent handlers interleave, and any call    *)
(* may fail and take effect all the same: at once, later, or never.        *)
(***************************************************************************)
EXTENDS Naturals

CONSTANTS
    Handlers,           \* goroutines that may serve the endpoint at one time
    Tenants,            \* tenant UUIDs that requests name
    RegisteredTenants,  \* those with a row in the tenants table
    NilTenant,          \* uuid.Nil, the zero value of the field
    Currencies,         \* three-letter codes that requests name
    LowerBits,          \* the lower 64 bits of each tenant UUID
    AppGeneratesId,     \* TRUE when wallets.id gets a value (see InsertAccepted)
    MaxFaults           \* bound on failed calls and crashes

ASSUME TenantsAssumption ==
    /\ RegisteredTenants \subseteq Tenants
    /\ NilTenant \notin Tenants
    /\ LowerBits \in [Tenants -> Nat]

ASSUME CurrenciesAssumption == Currencies \subseteq STRING

ASSUME BoundsAssumption == AppGeneratesId \in BOOLEAN /\ MaxFaults \in Nat

VARIABLES
    accounts,   \* accounts TigerBeetle holds
    wallets,    \* committed rows of the wallets table
    pc,         \* the next call of each handler
    req,        \* the decoded request of each handler
    status,     \* HTTP status a handler is about to write
    erred,      \* handlers whose current request met a failed call
    told,       \* requests some client was told 201 or 409 about
    late,       \* calls left behind by a handler that may still take effect
    faults      \* failed calls and crashes so far

vars == <<accounts, wallets, pc, req, status, erred, told, late, faults>>

-----------------------------------------------------------------------------
(* Account ids and requests.                                               *)

\* ISO 4217 numbers double as TigerBeetle ledger ids; 0 means unsupported.
CurrencyFromString(s) ==
    CASE s = "EUR" -> 978
      [] s = "GBP" -> 826
      [] s = "IDR" -> 360
      [] s = "SEK" -> 752
      [] s = "DKK" -> 208
      [] s = "USD" -> 840
      [] OTHER -> 0

AccountTypeTenantWallet == 1

\* Mutant: the tenant's bytes are not copied.
NewAccountIDWithoutTenant(tenantID, accountType, currency) ==
    [tenant |-> 0, type |-> accountType, currency |-> currency]

\* The 128-bit id is the tuple of the fields packed into it.
NewAccountID(tenantID, accountType, currency) ==
    [tenant |-> tenantID, type |-> accountType, currency |-> currency]

\* A request body: both fields given, or the zero request, which stands for
\* every body that does not decode or lacks a field.
WellFormed == [tenant : Tenants, currency : Currencies]

ZeroRequest == [tenant |-> NilTenant, currency |-> ""]

Request == WellFormed \union {ZeroRequest}

AccountOf(r) ==
    NewAccountID(LowerBits[r.tenant], AccountTypeTenantWallet,
                 CurrencyFromString(r.currency))

\* What CreateAccount sends: the ledger is the currency, Flags is zero.
LedgerAccount(r) ==
    [id |-> AccountOf(r), ledger |-> CurrencyFromString(r.currency),
     code |-> AccountTypeTenantWallet]

\* A call that changes a store: CreateAccount or the INSERT of a request.
Calls == [call : {"ledger", "insert"}, of : WellFormed]

Row(r) ==
    [tenant_id |-> r.tenant, currency |-> r.currency, tb_account_id |-> AccountOf(r)]

\* GetByTenantAndCurrency found a row.
WalletExists(r) ==
    \E w \in wallets : w.tenant_id = r.tenant /\ w.currency = r.currency

-----------------------------------------------------------------------------
(* The two stores.                                                         *)

\* Mutant: "exists" is taken for success, as in an upsert.
AccountIsNewOrExists(id) == TRUE

\* TigerBeetle creates an account once: an id it holds is answered "exists",
\* which CreateAccount turns into an error like every result but AccountOK.
AccountIsNew(id) == \A a \in accounts : a.id # id

\* The constraints of the wallets table.  id is NOT NULL with no DEFAULT
\* ("app generates"), but the INSERT names only tenant_id, currency and
\* tb_account_id: AppGeneratesId = FALSE is the code as committed, TRUE the
\* code with an id supplied as the schema's comment says.
InsertAccepted(row) ==
    /\ AppGeneratesId
    /\ row.tenant_id \in RegisteredTenants
    /\ \A w \in wallets : w.tb_account_id # row.tb_account_id
    /\ \A w \in wallets : w.tenant_id = row.tenant_id => w.currency # row.currency

-----------------------------------------------------------------------------
(* The handler.                                                            *)

Goto(h, label) == pc' = [pc EXCEPT ![h] = label]

Answer(h, code) ==
    /\ Goto(h, "respond")
    /\ status' = [status EXCEPT ![h] = code]

Fault ==
    /\ faults < MaxFaults
    /\ faults' = faults + 1

Init ==
    /\ accounts = {}
    /\ wallets = {}
    /\ pc = [h \in Handlers |-> "idle"]
    /\ req = [h \in Handlers |-> ZeroRequest]
    /\ status = [h \in Handlers |-> 0]
    /\ erred = {}
    /\ told = {}
    /\ late = {}
    /\ faults = 0

\* The body is decoded and validated before any store is asked.
Receive(h, r) ==
    /\ pc[h] = "idle"
    /\ req' = [req EXCEPT ![h] = r]
    /\ IF r \in WellFormed
         THEN Goto(h, "lookup") /\ UNCHANGED status
         ELSE Answer(h, 400)
    /\ UNCHANGED <<accounts, wallets, erred, told, late, faults>>

\* The duplicate check comes first, the currency is looked at after it.
LookUp(h) ==
    /\ pc[h] = "lookup"
    /\ IF WalletExists(req[h])
         THEN Answer(h, 409)
         ELSE IF CurrencyFromString(req[h].currency) = 0
                THEN Answer(h, 400)
                ELSE Goto(h, "ledger") /\ UNCHANGED status
    /\ UNCHANGED <<accounts, wallets, req, erred, told, late, faults>>

\* Mutant: every result is taken for an error, AccountOK too.
CreateLedgerAccountAnyResultFails(h) ==
    /\ pc[h] = "ledger"
    /\ accounts' = accounts \union {LedgerAccount(req[h])}
    /\ Answer(h, 500)
    /\ UNCHANGED <<wallets, req, erred, told, late, faults>>

CreateLedgerAccount(h) ==
    /\ pc[h] = "ledger"
    /\ IF AccountIsNew(AccountOf(req[h]))
         THEN /\ accounts' = accounts \union {LedgerAccount(req[h])}
              /\ Goto(h, "insert")
              /\ UNCHANGED status
         ELSE /\ Answer(h, 500)
              /\ UNCHANGED accounts
    /\ UNCHANGED <<wallets, req, erred, told, late, faults>>

\* Mutant: the error of repo.Create is not looked at.
InsertWalletIgnoresError(h) ==
    /\ pc[h] = "insert"
    /\ Answer(h, 201)
    /\ wallets' = IF InsertAccepted(Row(req[h])) THEN wallets \union {Row(req[h])} ELSE wallets
    /\ UNCHANGED <<accounts, req, erred, told, late, faults>>

InsertWallet(h) ==
    /\ pc[h] = "insert"
    /\ IF InsertAccepted(Row(req[h]))
         THEN /\ wallets' = wallets \union {Row(req[h])}
              /\ Answer(h, 201)
         ELSE /\ Answer(h, 500)
              /\ UNCHANGED wallets
    /\ UNCHANGED <<accounts, req, erred, told, late, faults>>

Release(h) ==
    /\ Goto(h, "idle")
    /\ req' = [req EXCEPT ![h] = ZeroRequest]
    /\ status' = [status EXCEPT ![h] = 0]
    /\ erred' = erred \ {h}

\* Mutant: a client takes every answer for an acknowledgement.
RespondAlwaysAcks(h) ==
    /\ pc[h] = "respond"
    /\ Release(h)
    /\ told' = told \union {req[h]}
    /\ UNCHANGED <<accounts, wallets, late, faults>>

\* The response is written; WriteTimeout or a client that is gone loses it.
Respond(h) ==
    /\ pc[h] = "respond"
    /\ Release(h)
    /\ \/ told' = IF status[h] \in {201, 409} THEN told \union {req[h]} ELSE told
       \/ told' = told
    /\ UNCHANGED <<accounts, wallets, late, faults>>

-----------------------------------------------------------------------------
(* Failures.  An error from a call says nothing of whether it took effect, *)
(* nor does a handler that is gone: what was sent to a store by then may    *)
(* still be executed, at once or much later, or never.                     *)

LookUpFails(h) ==
    /\ pc[h] = "lookup"
    /\ Fault
    /\ Answer(h, 500)
    /\ erred' = erred \union {h}
    /\ UNCHANGED <<accounts, wallets, req, told, late>>

\* Mutant: the error of CreateAccount is not looked at.
LedgerCallFailureIgnored(h) ==
    /\ pc[h] = "ledger"
    /\ Fault
    /\ Goto(h, "insert")
    /\ UNCHANGED <<accounts, wallets, req, status, erred, told, late>>

\* The handler answers 500 on an error from CreateAccounts, which says the
\* request was lost or that its reply was.
LedgerCallFails(h) ==
    /\ pc[h] = "ledger"
    /\ Fault
    /\ Answer(h, 500)
    /\ erred' = erred \union {h}
    /\ late' \in {late, late \union {[call |-> "ledger", of |-> req[h]]}}
    /\ UNCHANGED <<accounts, wallets, req, told>>

\* The INSERT runs under the 30 s of the request: the handler answers 500 when
\* they are over, or the connection breaks, though PostgreSQL may yet commit.
InsertFails(h) ==
    /\ pc[h] = "insert"
    /\ Fault
    /\ Answer(h, 500)
    /\ erred' = erred \union {h}
    /\ late' \in {late, late \union {[call |-> "insert", of |-> req[h]]}}
    /\ UNCHANGED <<accounts, wallets, req, told>>

\* The calls that handlers are making, sent or about to be sent.
UnderWay ==
    {c \in Calls : \E h \in Handlers : pc[h] = c.call /\ req[h] = c.of}

\* The process dies, or Shutdown gives up and main closes the clients.
Crash ==
    /\ Fault
    /\ \E h \in Handlers : pc[h] # "idle"
    /\ pc' = [h \in Handlers |-> "idle"]
    /\ req' = [h \in Handlers |-> ZeroRequest]
    /\ status' = [h \in Handlers |-> 0]
    /\ erred' = {}
    /\ \E left \in SUBSET UnderWay : late' = late \union left
    /\ UNCHANGED <<accounts, wallets, told>>

\* A call left behind is executed, with nobody waiting for its result.
LateCommit(c) ==
    /\ c \in late
    /\ late' = late \ {c}
    /\ accounts' = IF c.call = "ledger" /\ AccountIsNew(AccountOf(c.of))
                      THEN accounts \union {LedgerAccount(c.of)} ELSE accounts
    /\ wallets' = IF c.call = "insert" /\ InsertAccepted(Row(c.of))
                     THEN wallets \union {Row(c.of)} ELSE wallets
    /\ UNCHANGED <<pc, req, status, erred, told, faults>>

-----------------------------------------------------------------------------
Step(h) ==
    \/ LookUp(h)
    \/ CreateLedgerAccount(h)
    \/ InsertWallet(h)
    \/ Respond(h)

Fails(h) ==
    \/ LookUpFails(h)
    \/ LedgerCallFails(h)
    \/ InsertFails(h)

Next ==
    \/ \E h \in Handlers, r \in Request : Receive(h, r)
    \/ \E h \in Handlers : Step(h)
    \/ \E h \in Handlers : Fails(h)
    \/ Crash
    \/ \E c \in late : LateCommit(c)

Spec == Init /\ [][Next]_vars

\* A goroutine that can run is run, and every call to a store returns: pgx by
\* the request context (30s), the TigerBeetle client once it has a reply.
Fairness == \A h \in Handlers : WF_vars(Step(h))

FairSpec == Spec /\ Fairness

-----------------------------------------------------------------------------
(* Correctness.                                                            *)

AccountID ==
    [tenant : Nat, type : {AccountTypeTenantWallet}, currency : Nat]

\* Type invariant of the endpoint's state: what the stores, the handlers and
\* the history variables may hold.
TypeOK ==
    /\ accounts \subseteq [id : AccountID, ledger : Nat, code : {AccountTypeTenantWallet}]
    /\ wallets \subseteq [tenant_id : Tenants, currency : Currencies, tb_account_id : AccountID]
    /\ pc \in [Handlers -> {"idle", "lookup", "ledger", "insert", "respond"}]
    /\ req \in [Handlers -> Request]
    /\ status \in [Handlers -> {0, 201, 400, 409, 500}]
    /\ erred \subseteq Handlers
    /\ told \subseteq WellFormed
    /\ late \subseteq Calls
    /\ faults \in 0 .. MaxFaults

\* Every wallet row points at an account TigerBeetle holds, in the ledger of
\* the row's currency and derived from the row's tenant: whatever call failed
\* or whichever handler was slow, a wallet is never committed before its
\* account (CreateAccount precedes repo.Create, and its error ends the request).
WalletBacked ==
    \A w \in wallets :
        LET r == [tenant |-> w.tenant_id, currency |-> w.currency] IN
        /\ w.tb_account_id = AccountOf(r)
        /\ LedgerAccount(r) \in accounts

\* The INSERTs that may still be executed, by request.
Inserting ==
    {req[h] : h \in {g \in Handlers : pc[g] = "insert"}}
        \union {c.of : c \in {d \in late : d.call = "insert"}}

\* The race between the duplicate check and the INSERT is closed by the
\* ledger: a handler that got AccountOK is the only one that may insert that
\* account, and no row uses it or its (tenant, currency) yet; an INSERT left
\* behind keeps that right after its handler is gone.  So two tenants whose
\* UUIDs share their lower 64 bits never share a balance either.
SoleProvisioner ==
    /\ \A r \in Inserting :
           /\ \A w \in wallets : w.tb_account_id # AccountOf(r)
           /\ ~WalletExists(r)
           /\ \A q \in Inserting : AccountOf(q) = AccountOf(r) => q = r
    /\ \A h, g \in Handlers :
           pc[h] = "insert" /\ pc[g] = "insert" /\ AccountOf(req[h]) = AccountOf(req[g])
               => h = g
    /\ \A h \in Handlers : pc[h] = "insert" => [call |-> "insert", of |-> req[h]] \notin late

\* A client that was told 201 or 409, or is about to be, has its wallet in
\* PostgreSQL, across crashes, lost replies and failed calls of other requests.
AnswersAreTrue ==
    /\ \A r \in told : WalletExists(r)
    /\ \A h \in Handlers :
           pc[h] = "respond" /\ status[h] \in {201, 409} => WalletExists(req[h])

\* An account no row owns and no INSERT that is under way or left behind may
\* still give a row.
Orphan(a) ==
    /\ \A w \in wallets : w.tb_account_id # a.id
    /\ \A r \in Inserting : AccountOf(r) # a.id

\* Without a failed call, an account is orphaned only by a tenant that has no
\* row (the foreign key refuses the wallet after the account was made) or by
\* the INSERT that gives no id: concurrency alone, and any mix of tenants and
\* currencies, never does it.
OrphanNeedsCause ==
    \A a \in accounts :
        Orphan(a) =>
            \/ faults > 0
            \/ ~AppGeneratesId
            \/ \E t \in Tenants \ RegisteredTenants : LowerBits[t] = a.id.tenant

\* An orphaned account is never adopted: once the INSERT that should have
\* followed CreateAccount is lost for good, no later request, retry, restart or
\* late statement ever gives that tenant a wallet in that currency.
OrphansStay == [][\A a \in accounts : Orphan(a) => Orphan(a)']_vars

\* A request that names a registered tenant and a supported currency and meets
\* no failed call is answered 201 or 409, as the end-to-end tests expect of
\* repeated requests (testMultiCurrencyAccounts).
CreatedOrConflict ==
    \A h \in Handlers :
        /\ pc[h] = "respond"
        /\ h \notin erred
        /\ req[h].tenant \in RegisteredTenants
        /\ CurrencyFromString(req[h].currency) # 0
        => status[h] \in {201, 409}

\* Once calls have ceased to fail, a request for a registered tenant and a
\* supported currency ends with its account in the possession of a wallet: its
\* own, or the one of the request that won the race, or that of a tenant with the
\* same lower bits.  Excepted are accounts that an earlier failure or a tenant
\* without a row had left behind, or that such a tenant or a CreateAccount left
\* behind may still take.
Provisioned ==
    \A t \in RegisteredTenants, c \in Currencies :
        LET r == [tenant |-> t, currency |-> c] IN
        (/\ faults = MaxFaults
         /\ CurrencyFromString(c) # 0
         /\ \A u \in Tenants : LowerBits[u] = LowerBits[t] => u \in RegisteredTenants
         /\ AccountIsNew(AccountOf(r))
         /\ \A d \in late : AccountOf(d.of) # AccountOf(r)
         /\ \E h \in Handlers : pc[h] = "lookup" /\ req[h] = r)
            ~> (\E w \in wallets : w.tb_account_id = AccountOf(r))

=============================================================================
