# Kovra in TLA+

Kovra moves money across borders for business tenants. Clients call an HTTP API
(`internal/handler`); PostgreSQL keeps tenants, wallets and transfers
(`internal/repository`, `migrations`), TigerBeetle keeps the double-entry ledger
(`internal/ledger`), Redis keeps rates, limits and keys (`internal/cache`). This
directory specifies the parts of it where state lives in more than one place or
is touched by more than one request, checks them with TLC on small instances
and proves the central results with TLAPS.

Paths below are relative to the repository; `module!Name` is a definition.

## 1. Inventory

| Component | State it keeps | Operations | Interacts with | What is hard | What makes it correct |
|---|---|---|---|---|---|
| Wallet provisioning: `handler/wallet.go` `Create`, `wallet_repo.go`, migration 7 | rows of `wallets`; accounts of TigerBeetle | `POST /wallets`: look up, create account, insert row | tenants (foreign key), account ids, ledger client | two stores and no transaction over them; concurrent requests; lost answers; crashes; calls that outlive their handler | a row never lacks its account; an account has one owner; answers stay true; what an orphan is and where it comes from |
| Wallet balance, account ids: `handler/wallet.go` `GetBalance`, `ledger/account_id.go`, `wallet_repo.go` | none of its own; reads `wallets.tb_account_id` and account totals | `GET /wallets/{id}/balance`; id codec; amounts to text | pgx NUMERIC, TigerBeetle | 128-bit ids through a decimal column, 128-bit totals through 64 bits | the balance read is the wallet's own, and exact when it fits |
| Transfer intake: `handler/transfer.go` `Create`, `transfer_repo.go`, migration 8 | rows of the partitioned `transfers` | `POST /transfers`: validate, check key, insert | compliance trigger, partitions, unique constraint | check and insert are two statements; the constraint names the partition key; retries while the first INSERT may still commit | one transfer per key; all answers under a key agree; no transfer is changed |
| Ledger transfers: `ledger/transfer.go`, `ledger/client.go` | none; TigerBeetle's accounts and transfers | chain builders, `CreateAccount*`, `CreateTransfer(s)`, `CreateLinkedTransfers` | TigerBeetle | linked chains, legs of an FX pair posted apart, repeated submission, refused events, uint64 amounts | chains are all-or-nothing, nothing is paid twice, the FX accounts show exactly the half-settled pairs |
| Redis cache: `cache/client.go` | FX rate locks, sliding-window rate limit, idempotency keys, tenants of API keys | lock/get/delete rate, check limit, set/get key, cache/get tenant | Redis; no handler calls it yet | SETNX then EXPIRE as two commands, by key and not by lock; lifetimes cut to seconds; TTL read after the value; scripts that arrive late | no lock is left without a lifetime but by a failure; what was acknowledged stands; a reported rate holds up to the rounding of TTL; the limiter counts the seconds of its window |
| Transfer status: `models/enums.go`, `transfer_repo.go`, `queries/transfers.sql.go` | `status`, `failure_reason`, `updated_at`, `completed_at` | `UpdateStatus`, `UpdateTBTransferIDs`, three more statements; `GET /tenants/{id}/transfers` in pages | intake | UPDATE by id only, executed in another order than begun; pages cut by OFFSET from an order the updates change; no handler calls the updates yet | `completed_at` dates the ending that was executed last; a walk misses nothing that kept still |
| Tenants, legal entities: `handler/tenant.go`, `handler/legal_entity.go` and repos, migration 4 | rows of `tenants`; `legal_entities` is read only | `POST /tenants`, `PATCH` and `GET /tenants/{id}`, the tenants of a legal entity | PostgreSQL; wallets and transfers (foreign keys) | concurrent PATCHes of one row; statements that outlive their handler and commit late; a table that references itself; numbers cut to 32 bits | parents form a forest; no update is lost or undone; reads show what was acknowledged |
| Database transactions: `db/tx.go`, `db/db.go` | connection pool | `WithTx`, `WithTxResult` | PostgreSQL, the repositories; no caller yet | panic in the callback, a second connection taken inside a transaction, ambiguous commit, outages | every connection is accounted for; the answer is true of the database; everyone stops waiting |
| HTTP server, process: `server/server.go`, `cmd/api/main.go` | running requests, open clients | start, listen, shut down, close | everything | a signal at any moment of the start; 30 s of grace, then the clients are closed under running handlers; requests that come late on open connections; a server that fails; a ledger that never answers | a request is cut off only for a cause; clients are closed in order and always; a signal ends the process |
| Row-level security (migration 9), configuration, sqlc output | – | – | – | – | static |

`PROJECT.json` lists every place where one of these behaviours can go wrong
(`hazards`) and the properties aimed at it.

## 2. Modules

| Module | Role |
|---|---|
| `WalletProvisioning` | the endpoint, both stores, failures and crashes |
| `WalletProvisioning_proofs` | its inductive invariant and theorems |
| `IdempotentIntake` | abstract: what an idempotency key promises |
| `TransferIntake` | the endpoint, the table and its constraints; refines `IdempotentIntake` |
| `TransferIntake_proofs` | its invariant, the refinement proof and theorems |
| `LedgerTransfers` | chains, the client, and TigerBeetle's `create_transfers` as an external operator |
| `LedgerTransfers_proofs` | its inductive invariant and theorems |
| `TenantLifecycle` | the tenant endpoints over one table, statements that commit late |
| `TenantLifecycle_proofs` | its inductive invariant and theorems |
| `TransferLifecycle` | the statements that change a transfer after its creation, and the paged listing |
| `TransferLifecycle_proofs` | its inductive invariant and theorems |
| `CacheKeys` | the Redis client: one key of any family, several callers, a clock |
| `CacheKeys_proofs` | its inductive invariant and theorems |
| `ServerProcess` | `run()`, listener, requests in flight, connection pool, `WithTx` |
| `ServerProcess_proofs` | its inductive invariant and theorems |
| `WalletBalance` | id codec, NUMERIC, totals, text, around one reader and concurrent postings |
| `WalletBalance_proofs` | its inductive invariant and theorems |
| `MC…` | constants and symmetry for TLC |

### WalletProvisioning

net/http runs every request on a goroutine; `Handlers` are those goroutines.
`pc[h]` is the call a handler makes next: `lookup` (`GetByTenantAndCurrency`),
`ledger` (`CreateAccount`), `insert` (`repo.Create`), `respond`. Each call is
one action because the stores run it atomically and nothing else is held
between calls. `req`, `status` are the handler's locals; `erred`, `told` and
`faults` are history: which requests met a failed call, what clients were told,
how many failures happened.

`Receive` is decoding and validation, including the branches that answer 400.
`LookUp` keeps the order of the code: the duplicate check comes before the
currency is looked at, so an unsupported currency gets as far as the table. `CreateLedgerAccount` fails when TigerBeetle answers
`exists`, as `CreateAccount` turns every result but OK into an error.
`InsertAccepted` is the table: primary key, foreign key, both unique
constraints. A failed call (`LookUpFails`, `LedgerCallFails`, `InsertFails`) says nothing
of its effect: the handler answers 500 and may leave the call behind in `late`,
from where `LateCommit` executes it at once, at any later time, or never. The
INSERT runs under the 30 s of the request, and PostgreSQL may commit what it
received after they are over. `Crash` loses all handlers and none of the stores,
and leaves any of the calls that were under way behind; `Respond` may lose the
answer. An account is an `Orphan` when no row names it and no INSERT, under way
or left behind, is going to.

The account id is the tuple of the fields packed into it; that `NewAccountID`
packs without loss is `WalletBalance!AccountsAreNotShared`. Only the lower 64 bits of the tenant go in:
`LowerBits` is a constant, and a run gives two tenants the same bits.

*Assumption.* `INSERT INTO wallets` names no `id` while the column has no
default. `AppGeneratesId = FALSE` is the code as committed (every creation then
ends in 500, run `wallet_schema`); the other runs set it `TRUE`, the code as the
comment of the migration describes it, because everything behind that line
would be unreachable otherwise.

### TransferIntake

`Requests` are all requests ever made, a retry being one of its own. A body has
a tenant, a key (or `NoKey`), a corridor, an amount and a `form`: `bad` fails
the handler's validation, `unfit` passes it and is refused by a column type,
`ok` is neither. `CheckIdempotency` and `InsertTransfer` are the two statements
of the handler. `UniqueKey` is `UNIQUE (tenant_id, idempotency_key,
compliance_region)`, in which a NULL key collides with nothing;
`compute_compliance_region` is the SQL trigger, `DeriveComplianceRegion` the Go
function. As in `WalletProvisioning`, an INSERT whose handler gave up or died is
in `late` and may commit after any number of retries. `KeepsPromise` is the
refinement of `IdempotentIntake`: the first request under a key executes, and
whoever repeats its payload is answered with that transfer. What a request is
answered that reuses the key for another payload is left open (`AnswerReuse`),
because the code and `docs/SECURITY.md` disagree on it (section 5).

*Assumptions.* `AppGeneratesId` as above. `RoutesAfterTrigger = TRUE` is what
the migration's comment says of its trigger; PostgreSQL 13 and later route a
row by its default region first and refuse a trigger that moves it, so as
committed no transfer of a known region can be stored.

### LedgerTransfers

Chains are sequences of transfers with the code's debit, credit, amount, flags
and correlation id; `Minus` wraps like uint64, which a fee above its amount makes
it do (`transfer.go:256,310` subtract without looking). An order's chains are built once
(`Build`), and any leg is then posted by `CreateTransfers` or
`CreateLinkedTransfers`, any number of times, in any order, with the answer
seen or not: `src/` has no caller yet, so callers are the most general ones.
`CreateLinkedTransfers` sets the flags in the caller's slice, which the model
keeps (`chains'`). `create_transfers` is TigerBeetle 0.16, a function over the events of a batch
in their order: linked runs, an id accepted once, an id refused for a reason that may pass
never accepted later (`spent`), limited accounts. Two-phase transfers are left
out: `Transfer` has no field for the id of a hold, so a transfer with
`TransferFlagPostPending` could not name the one it posts.

### WalletBalance

Byte and word widths are scaled (`Base`, `Word`): ids have six bytes of 32
values, with the real layout, the real currency codes and big-endian order; a
word has 1024 values. `Numeric` is how pgx hands an integral NUMERIC to
`numericToBigInt`: it strips one zero after the other into the exponent, which
`numericToBigInt` drops. The tenant's bits are the lower half of a UUID, whose
first two bits are the variant `10` (RFC 4122, and so in the seed's ids);
`WalletsAssumption` keeps the first of them. `CreateWallet` and `Record` are the environment of the
reader.

### TenantLifecycle

Every endpoint is one SQL statement, so every handler is two steps: `Receive`
(decoding and validation) and the statement with its answer (`CreateTenant`,
`UpdateTenant`, `GetTenant`, `ListByLegalEntity`). Three columns stand for all
that a PATCH may set: a text (`display_name`), an enum (`tenant_status`) and
the number that `int32()` cuts (`netting_window_minutes`). `Absent` is a field
the body leaves out, which reaches the table as NULL, and `Coalesce` keeps the
column then. `InsertAccepted` is the table: enums, NOT NULL, both foreign keys,
`chk_connected_parent`.

`QueryFails` and `Crash` may leave a statement behind in `late`: PostgreSQL can
have received it although the handler gave up, and `LateCommit` applies it at
any later time, after a retry too. A statement that fails and commits at once is
`QueryFails` followed by `LateCommit`.

`past[r]` is history: which requests were acknowledged when `r` came, and which
were over (answered or given up, with no statement left). A column is then a
register, and `IsCurrent` says which values it may show: one that a writer set
and that none of the requests heard of overwrote after that writer was over.
`UpdatesAreOrdered` says it of the table, with all acknowledged requests heard
of; `ReadsSeeAcknowledged` of every answer, with those acknowledged before it
was asked for.

*Assumptions.* `AppGeneratesId` as above; `Seed` holds rows the table takes.
(The fourth row of migration 11 is none: see section 5.)

### TransferLifecycle

No code calls the updates yet, so `Workers` are the most general callers. A
statement is two steps: `Begin` fixes `NOW()`, and `Update` or `Create` executes
it on the newest version of the row, after any wait for the row's lock and
in any order. `UpdateTransferStatus` is the SQL with its list of terminal
statuses, `IsTerminal` the Go function that repeats that list;
`UpdateTransferDetails` stands for three statements that differ only in columns
nothing here reads. `born` and `ended` are history: when each row was created,
and the date of the statement that gave it a final status last.

The client's walk asks for pages of `PageSize` until one is short. `Pages` is
every answer `ORDER BY updated_at DESC LIMIT OFFSET` may give, ties in any
order. `walk.stayed` and `walk.disturbed` are history too: which rows nobody
touched during the walk, and which of those lost a row that was listed ahead of
them, had one put behind them, or tied with another.

The rows are those of one tenant, as all listings are.

### CacheKeys

Redis keys do not interact and every operation of `Client` names one key, so a
behaviour is that of one key, of the family `Init` chooses: a rate lock, an
idempotency result, the tenant of an API key or a limiter's sorted set. A
caller's record in `call` names the command it sends next (`expire`, `ttl`,
`eval`) or the clock it reads next (`stamp`) and its locals; each command is
one action, each has a failure (`ExpireUnanswered` and `ExpireFails` are EXPIRE
executed and not executed, both with the reply lost), and `Crash` kills a caller
in between. `SetNX` and `Expire` are the two halves
of `LockFXRate` and `SetIdempotencyKey`, which differ in what they do with an
error of EXPIRE; a lifetime below a second is `int64(ttl.Seconds()) = 0`, and
EXPIRE 0 deletes the key. `GetValue`, `GetTTL` and `Stamp` are `GetFXRate`:
Redis answers TTL in seconds, to the nearest one (`TTLReply`), and the caller
reads its clock up to `MaxDelay` ticks later (`lag`). `Script` is the Lua script
of `CheckRateLimit`, which runs with the second its caller read that long ago. A
member of the sorted set is that second: `math.random()`, the rest of its name,
is seeded alike for every script.

Times are counted from now (what is left of a lifetime, the age of an entry), and
`Tick` moves all of them; so no clock has to be bounded. A second has `Second`
ticks where lifetimes are read, so that the half second Redis rounds by is seen;
the limiter only knows whole seconds, and a tick is one of them. History:
`stands` (sets that were acknowledged, with what is left of their promise),
`admitted` (the seconds of the window in which a request was let through),
`undone` (callers whose lock was gone before their EXPIRE, which then hits the
next one), `abandoned` (the EXPIRE of the last SETNX will not come) and `steady`
(readers whose lock was not removed nor given a second lifetime since GET).

### ServerProcess

`main` is where `run()` is: opening the three clients, the `select`, Shutdown,
the deferred `Close` calls in reverse order, the wait of `pgxpool.Close` for
connections that are out. `listener` is the goroutine of `ListenAndServe`, which
may not have bound its socket yet when the signal comes; after a failure of
Serve, and while Shutdown waits, it is `lingering`: requests still come on the
connections that are open. `outcome` is what run returns, "server error" when it
was the server that failed: run then closes the clients without Shutdown. `task[h]` is the
request of handler `h`: the call it is in, whether its context has ended
(`middleware.Timeout`), and its transaction. As handlers differ only in their
sequence of calls, and `WithTx` has no caller yet, a request is any sequence: a
repository call (`AcquireForStatement`, `Statement`), a call to TigerBeetle
(`LedgerAnswers`, which may never happen, and `LedgerClosed`), or a transaction,
whose callback may make the same calls again (repositories are built on the
pool, so they take a second connection). `txConn`, `stmtConn`, `free` and
`leaked` say where each connection of the pool is. `Panic` is `Recoverer`:
`WithTx` has no deferred rollback, so a panic in its callback leaves the
connection in `leaked`.

`WithTx` and `WithTxResult` differ in the value they pass on, which is left out.
`Outage` and `Recovery` are PostgreSQL's. TigerBeetle's own client, pgxpool and
net/http are external, and modelled by what the code relies on.

How the modules relate: a `Crash` of `WalletProvisioning` and of `TenantLifecycle`
is what `ServerProcess` shows as `AcquireFails` after `graceOver`, a cut-off
request, besides the death of the process; the late statements of
`WalletProvisioning`, `TransferIntake` and `TenantLifecycle` are those whose
request ended by `Timeout` or by a `commit error` in `ServerProcess`.
`TransferLifecycle` begins with the rows `TransferIntake` inserts
(`CreateTransfer`).

## 3. Runs

| Run | Instance | Shows |
|---|---|---|
| `wallet_faults` | 2 handlers, 3 tenants (1 unregistered, 2 sharing their lower bits), a supported and an unsupported currency, 2 faults with late calls, fair | `TypeOK`, `WalletBacked`, `SoleProvisioner`, `AnswersAreTrue`, `OrphanNeedsCause`, `OrphansStay`, `Provisioned` |
| `wallet_wedged` | 1 handler, 1 fault | violates `CreatedOrConflict`: a request that dies between `CreateAccount` and its INSERT blocks the wallet for good |
| `wallet_schema` | 1 handler, the INSERT as committed | violates `CreatedOrConflict` at the first request |
| `intake_one_region` | 3 requests at once, 2 tenants, 2 keys of one region each and no key, corridors of all regions, 1 fault with a late INSERT, fair | `TypeOK`, `OneTransferPerKey`, `AnswersAgree`, `KeepsPromise` (refinement), `KeyedRequestsExecute` |
| `intake_regions_race` | 2 requests at once, corridors of several regions | violates `OneTransferPerKey`: the constraint names the region |
| `ledger_mixed` | a top-up, two payouts and two conversions, one of each with a fee above its amount, 4 calls, 2 accounts opened late, 1 limited wallet | `TypeOK`, `PendingOutboundNets`, `PaidAtMostOnce`, `AnsweredOkIsPosted`, `LinkedCallsAreAtomic`, `ExposureIsTheOpenPairs` |
| `tenant_registers` | 3 requests at once, any of 8 creations, PATCHes of 4 tenants and 4 + 1 reads, 1 fault, a 16-value integer | `TypeOK`, `HierarchyIsAForest`, `UpdatesAreOrdered`, `ReadsSeeAcknowledged` |
| `transfer_lifecycle` | 2 transfers of different age and a third that may be created, 2 workers, 3 statements of any kind, 3 statuses, a walk in pages of one | `TypeOK`, `EndingsAreDated`, `WalkIsComplete` |
| `cache_keys` | 2 callers, 2 values, lifetimes of 0, 1 and 2 s in half seconds, a window of 3 s, a limit of 2, scripts and clocks up to 1 tick late, 2 faults | `TypeOK`, `EndlessNeedsCause`, `AcknowledgedStands`, `ReportedRatesHold`, `LimiterCountsSeconds` |
| `process_lifecycle` | 2 requests, 2 connections, 1 outage, panic, bind or accept error, fair | `TypeOK`, `CutOffNeedsCause`, `ExitIsOrderly`, `ConnectionsAreAccounted`, `TxAnswersAreTrue`, `RequestsEnd`, `SignalStops` |
| `balance_totals` | 2 wallets of a tenant in two currencies, totals beyond the word | `TypeOK`, `AnswerIsExact`, `AccountsAreNotShared` |
| `balance_unreadable` | 6 wallets | violates `CreatedWalletsAreReadable`: ids divisible by ten are read back wrong |

Every property of a passing run has a mutant in `PROJECT.json`: a definition
changed as a plausible bug would change it, with which the run fails.

*Bounds.* Two handlers are enough for every race of `WalletProvisioning`: the
guards of an action look at one handler and the stores, and a third one can only
do what one of the two does after it is idle again. Two faults let the failure
of a retry follow the failure of the first attempt, each leaving a call behind; one
currency is enough, as accounts of different currencies do not meet, and the
unsupported one shows the branch that answers 400. Three requests let a retry
and a competitor meet a lost answer or a late INSERT. Four ledger calls post a chain, repeat it,
and post both legs of a pair in either order around them; the orders share the
wallet and the PENDING_OUTBOUND account, a two-event and a three-event chain
exist, and a fee wraps in a chain of either kind. Three tenant requests are two writers
and a reader, or a writer, its retry and another writer; a cycle of parents
needs two creations. Two callers of a key are a locker and a releaser, a reader
or a second locker, and after the first is done its place is free for a third;
two lifetimes of different length let a late EXPIRE shorten or lengthen a lock,
and a window of three seconds is older than a late script, younger than its key
and fills up. Two requests on two connections take both for transactions and
wait for one more each, and one fault (a panic) empties half of the pool.
Statements in `transfer_lifecycle` overtake each other, create while others
update, and with pages of one every shift between two pages shows. Totals of up to 1050 with a word of 1024 pass the 64-bit boundary on
both sides of a subtraction; wallets of different tenants are left to
`NoSharedAccounts`, since a third wallet makes the run too large.

*Fairness.* `WF(Step(h))`: the Go scheduler runs a goroutine that can run,
queries end with the request's context (30 s), and a call to TigerBeetle returns
once there is a reply. Failures and crashes are never fair, and `Receive` is not either:
nobody has to send a request. `Provisioned` and `KeyedRequestsExecute` are about
requests received after the last failure, retries included; `Provisioned`
excepts accounts an earlier failure left behind, for which `wallet_wedged` shows
that it is false.

In `ServerProcess`, `WF(MainStep)` is the main goroutine (Shutdown returns after
30 s at the latest), `WF(Continues(h))` what ends a wait on the pool or a
statement, `WF(Timeout(h))` the timer. `SF(Respond(h))` and `SF(FnReturns(h))`
say that no handler and no callback makes calls without end: each is enabled
only between calls, hence strong. Nothing is assumed of TigerBeetle, which may never answer (its calls
take no context), nor that PostgreSQL recovers, nor that a signal comes.

*Deadlock* is allowed in the runs over a bounded set of requests or calls, and
in `process_lifecycle`, where the process exits. It is checked in the wallet,
balance and cache runs, which can always go on.

## 4. Proofs

`WalletProvisioning_proofs` proves, for any number of handlers, tenants and
currencies, any assignment of lower bits and any number of faults:

| Theorem | Says |
|---|---|
| `TypeCorrect` | `Spec => []TypeOK` |
| `WalletsAreBacked` | a row never precedes its account |
| `ProvisionerIsSole` | between `CreateAccount` and the INSERT a handler is alone with its account |
| `AnswersStayTrue` | 201 and 409 are true of the table from then on |
| `OrphansStayOrphaned` | no step, no late statement either, ever adopts an orphaned account |
| `OrphansHaveACause` | an orphan needs a failure, a tenant without a row, or the INSERT that gives no id |
| `NoWalletWithoutId` | the code as committed (`AppGeneratesId = FALSE`) never makes a wallet, only orphans |

None of the properties is inductive alone. `SoleProvisioner` needs to know that
every row and every INSERT, under way or left behind, has an account in the ledger, since
it is the ledger's refusal of a known id that keeps a second one out; that
in turn needs the request to be well-formed and its currency known;
`WalletBacked` needs it at the INSERT. The inductive invariant is therefore
`TypeOK`, `ValidInFlight` (past validation a request is well-formed, past the
lookup its currency is supported), `HasAccount` (an INSERT that may still be
executed has its account), `WalletBacked`, `SoleProvisioner` and `AnswersAreTrue`. Each
action has a lemma that it preserves them, conjunct by conjunct.
`OrphansStayOrphaned` follows from the invariant at each step: the only action
that adds a row executes an INSERT of `Inserting`, whose account is no orphan,
and the only one that adds to `Inserting` makes a new account.
`OrphansHaveACause` needs no more than that nothing is late before the first
fault (`NothingLate`).

The assumptions are those of `WalletProvisioning` (`TenantsAssumption`,
`CurrenciesAssumption`, `BoundsAssumption`), which TLC evaluates in every run
of it.

`TransferIntake_proofs` proves, for any requests, bodies and faults:

| Theorem | Says |
|---|---|
| `TypeCorrect` | `Spec => []TypeOK` |
| `TransfersNeverChange` | no step changes or removes a transfer |
| `RegionsAlwaysAgree` | a transfer lies in the region the Go code derives |
| `KeysAreUnique` | under `OneRegion`, a key makes one transfer |
| `AnswersAlwaysAgree` | under `OneRegion`, all answers under a key name it |
| `HandlerKeepsPromise` | under `OneRegion`, `Spec => KeepsPromise`: the handler implements `IdempotentIntake` |

`OneRegion` says that bodies which share a key of a tenant have corridors of one
region. `intake_regions_race` shows that it is needed, and `intake_one_region`
is an instance of it. The invariant `Base` holds without it: `TypeOK`;
`InFlightHasBody` (past validation a request has a body, and no answer until it
is done); `RowsAreRequests` (each transfer is the row of a request that is
done, so a request in flight has none and its id is new); `AnswersAreMade`
(an answer names a transfer of the tenant and key that asked). With
`OneTransferPerKey` added it is inductive under `OneRegion`, because the unique
constraint then compares every row of the key, whoever commits it and when. The
check before the INSERT carries nothing: requests that come one at a time need
`OneRegion` too, for a late INSERT may commit between the check of its retry and
the retry's own INSERT. The refinement shows that a step changes what is
executed and what is answered under a key as `IdempotentIntake` lets it: `CheckIdempotency`
is `Answer`, or `AnswerReuse` for another payload, a committed INSERT is
`ExecuteAndAnswer`, a late one `Execute`, and all else is a stutter. The only assumption on the constants is
`BoundsAssumption`.

`TenantLifecycle_proofs` proves, for any requests, messages, seed, column width
and number of faults:

| Theorem | Says |
|---|---|
| `TypeCorrect` | `Spec => []TypeOK`: the table keeps to its columns |
| `HierarchyStaysAForest` | nobody becomes its own ancestor |
| `NoUpdateIsLost` | `Spec => []UpdatesAreOrdered` |
| `ReadsAreFresh` | `Spec => []ReadsSeeAcknowledged` |

The invariant `IInv` adds to the first three properties `Lives` (what a request
has at each step of its life; one that succeeded left no statement behind),
`PastIsPast` (whom a request found over or acknowledged still is) and
`RowsAreCreated` (a row beside the seed is that of the POST with its id). The
step that matters is a write, by its handler or late: the writer is not over,
so it is in nobody's `past`, and its value becomes current whoever is heard of
(`WriteOrder`); the columns it leaves alone keep their witness, as the writer
does not set them. Late statements are never acknowledged, so they add nobody
to hear of. An answer shows the table as it is, and hears of fewer requests
than the table does (`SeesAll`), so `ReadsAreFresh` follows from `IInv`. For
the forest, a set of tenants with the new one in it either is that one alone,
whose parent is another, or has, without it, a member with its parent outside;
and the new one is nobody's parent yet (`InsertedForest`). The
assumptions are `ConstantsAssumption`, `SeedAssumption` and
`MessagesAssumption`.

`TransferLifecycle_proofs` proves, for any transfers, workers, statuses and page
size:

| Theorem | Says |
|---|---|
| `TypeCorrect` | `Spec => []TypeOK` |
| `EndingsAreAlwaysDated` | `Spec => []EndingsAreDated` |
| `WalksAreComplete` | `Spec => []WalkIsComplete` |

The invariant adds to the types what a statement under way may name
(`StatementsOK`): an update a row that exists, a creation one that does not, and
no two creations the same. Without it an `Update` could reach a row that a
`Create` is about to make, whose `born` is not there yet.

For the walk, `WalkSound` says what pages already read still mean: a transfer
that is there since the start, was not disturbed and is not listed yet has at
least `offset` rows ahead of it. A statement on another row keeps that, unless
it takes a row from ahead of the transfer or ties with it, which is what
`disturbed` records (`WatchIsSound`). A page lists the rows whose place is within
it, whatever order the database gives to ties, and the place of a transfer that
ties with none is the number of rows ahead of it and one more
(`PlaceInOrder`, `PageLists`); so what the page passes over is still further
back. The assumption is `LifecycleAssumption`.

`CacheKeys_proofs` proves, for any callers, values, lifetimes, window, limit and
number of faults:

| Theorem | Says |
|---|---|
| `TypeCorrect` | `Spec => []TypeOK` |
| `NothingIsEndless` | `Spec => []EndlessNeedsCause` |
| `AcknowledgedLocksStand` | `Spec => []AcknowledgedStands` |
| `ReportedRatesAlwaysHold` | `Spec => []ReportedRatesHold` |
| `LimiterAlwaysCountsSeconds` | `Spec => LimiterCountsSeconds`, an action property |

`FamilyOK` says which operations a key of each family can meet, so that the
other parts need to look at one family each. `HolderOK`: the caller whose lock is in
the key and who has still to send EXPIRE is alone and nothing stands yet; this
is what makes its EXPIRE hit its own lock. `TrueReader` carries what a
reader of a steady lock has in its hands from GET over TTL to the answer: half a
second (`ReplyIs`) and the lag is all it may be wrong by. `WindowOK` is the
limiter: the sorted set, once trimmed, is the set of seconds that were admitted, and no
member is younger than the key will let it live (`age + windowTTL >= Window`);
that a late script adds an old member and renews the key for a full window keeps
it true. `LimiterCountsSeconds` then follows at each step, because what the script
counts is that set. The assumption is `CacheAssumption`.

`ServerProcess_proofs` proves, for any requests, any pool, a finite one or not,
and any number of faults:

| Theorem | Says |
|---|---|
| `TypeCorrect` | `Spec => []TypeOK` |
| `CutOffsHaveCause` | `Spec => []CutOffNeedsCause` |
| `ExitsAreOrderly` | `Spec => []ExitIsOrderly` |
| `ConnectionsAreNeverLost` | `Spec => []ConnectionsAreAccounted` |
| `TxAnswersAreAlwaysTrue` | `Spec => []TxAnswersAreTrue` |

The invariant has two halves. `ProcessOK` is about `run()`: how far it is tells
which clients are open (`OpenAt`), it listens only between start and Shutdown,
and once it closes clients somebody gave up on the requests, the server failed, or
there are no requests and none can come (`NobodyComes`).
`RequestsOK` is about requests and the pool: where a request is tells whether
it has a transaction, and each connection has one place. A step of one half
leaves the other alone but for what each must know of the other: requests start
only while the process listens or its connections linger, and the process exits only with a full pool,
from which `ConnectionsAreAccounted` shows that nobody is in a statement or a
transaction (`FullPoolHolds`). The lemmas on the pool come first: what taking
and giving back a connection does to the account of all of them, whichever
request does it. The assumption is `PoolAssumption`.

`LedgerTransfers_proofs` proves, for any orders, accounts, word size and number
of calls:

| Theorem | Says |
|---|---|
| `LedgerIsSound` | the inductive invariant `LedgerInv` |
| `TypeCorrect` | `Spec => []TypeOK` |
| `LinkedCallsAllOrNothing` | `Spec => LinkedCallsAreAtomic`, an action property |
| `OkMeansPosted` | `Spec => []AnsweredOkIsPosted` |
| `PaidOnce` | `Spec => []PaidAtMostOnce` |
| `PendingNets` | `Spec => []PendingOutboundNets`, fees that wrap included |
| `ExposureTracked` | `Spec => []ExposureIsTheOpenPairs`, fees that wrap included |

`LedgerInv` says of the legs built that each still has the shape its builder
gave it and the flags of a chain (`ChainsInv`), and of the journal that it is a finite
set of transfers of such legs, with no id taken twice and none in `spent`
(`JournalInv`). Flags need a part of their own because
`CreateLinkedTransfers` writes them into the caller's slice: what is posted by
`CreateTransfers` afterwards is another batch than before. That a leg is in the
journal as a whole or not at all is not part of it but follows at each step, from
`RequestEffect`. The argument goes from the batch to the books:

1. `BatchStep` and `BatchOutcome` say what `create_transfers` does to any batch,
   and `ChainStep`, `ChainOutcome` that of one chain it accepts every event or
   none. They are inductions over the events of a batch.
2. `OrderTypes` to `LegsBuilt` say what the builders build, `Marking` and
   `MarkedShape` what setting flags leaves of it.
3. `SimpleMoves`, `SourceMoves`, `DestinationMoves` say which accounts a leg
   moves and by how much; here the amounts of a chain add up to what it takes
   from the wallet, and a word more if its fee exceeds the amount (`Excess`,
   `Overpaid`).
4. `StepEffect`: a step leaves the books of payouts and conversions alone
   (`Quiet`), or posts one leg that was not posted before (`PostsLeg`). Each
   balance is then an invariant sum: `PaidInv` for a wallet (the amounts of the
   orders posted), `ExposureKept` for an FX account (what is in of the first
   legs without what is out of the second).

No condition is put on fees. Where one exceeds the amount, `Minus` wraps and the
chain pays out a word more than it takes in; both properties count those chains
(`WrappedPayouts`, `WrappedConversions`), so they say that this, once for each
such chain that was posted, is the only difference there ever is.
The assumptions are `WordAssumption` and `OrdersAssumption`.

`WalletBalance_proofs` proves, for any width of byte and word, any wallets,
amounts and bound on totals:

| Theorem | Says |
|---|---|
| `TypeCorrect` | `Spec => []TypeOK`: the number that is stored is, byte by byte, an account id; the column is not in it |
| `NoSharedAccounts` | `Spec => []AccountsAreNotShared` |
| `AnswersAreExact` | `Spec => []AnswerIsExact` |

The invariant is `RowsInv` (a row names its own account, which exists),
`BookInv` (every account is some wallet's) and `ViewInv` (the reader looks up
the id read back from the row of a wallet that has an account; what it answers
are the totals of that account). Two facts carry it:

- An id written, read and unpacked is the wallet's own or nobody's.
  `RoundTrip` is the codec without the column. In the column an id that ends in
  zeros loses them (`balance_unreadable`); what is left is at most a tenth of it
  (`Decoded`), so its first byte lacks the leading bit that every tenant's bits
  have, and no account has such an id (`ReadBack`). The lookup then ends in an
  error: a wrong balance is never shown. Without the bit, which is the variant
  of the UUID, the argument and the property would fail: the stripped id could be another wallet's.
- uint64 subtraction, the cast to int64 and `formatAmount` agree with the
  integers wherever those fit: `Same` is equality in a word, which subtraction
  keeps (`SameDifference`) and which is equality of numbers inside the word
  (`SignedExact`, `FormatExact`).

The assumptions are `WidthsAssumption` and `WalletsAssumption`.

Both modules need induction: over the events of a batch, the size of a set that
is summed, the zeros of an id. The library's induction theorems take a
predicate as a parameter, which the provers here cannot instantiate. The two
modules state it over sets of numbers (`InductiveSet`: a set with 0 and, with each
number, the next has all of them), from the well-foundedness of `<` on `Nat`, and
so that a function is what its recursion says is proved by building its finite
parts (`SumUpTo`, `StripsExists`).

Every safety invariant and action property of a passing run is thus a theorem,
and the refinement `KeepsPromise` is one. Only model-checked is liveness, which
needs ENABLED: `Provisioned`, `KeyedRequestsExecute`, `RequestsEnd`,
`SignalStops`. What the runs that end in a violation show is not proved either.

## 5. Disagreements between the code and what is said of it

Shown by a run: see the runs that end in a violation, and `findings`.

Seen while modelling, without a run:

- `POST /transfers`: the INSERT gives no `id` either, like `wallet_schema`.
- `migrations/00008_create_transfers_partitioned.sql:87`: the trigger does not
  fire before routing (see `RoutesAfterTrigger`).
- Of two equal concurrent requests with one key the loser is answered 500;
  `docs/SECURITY.md:152` asks for the cached response.
- A key reused with another payload is answered 200 with the first transfer
  (`handler/transfer.go:96-106` does not compare them); `docs/SECURITY.md:153` asks
  for 422. `IdempotentIntake` leaves that answer open, so `KeepsPromise` endorses neither.
- The idempotency check reads PostgreSQL, where keys stay; `docs/SECURITY.md:146-147`
  keeps them in Redis for 24 hours, with functions of the cache that nobody calls.
- Of two concurrent requests for one wallet the loser is answered 500;
  `e2e/phase1_demo_test.go:556` expects a conflict.
- `POST /tenants` gives no `id` either.
- `migrations/00011_seed_demo_data.sql:66` inserts a tenant of kind `seller`,
  which `tenant_kind_enum` (`migrations/00002_create_enums.sql:12-17`) does not
  have, so the migration fails; the Go enum has `seller` as well, and
  `e2e/phase1_demo_test.go:256` expects `sub_merchant`.
- The table takes a parent of any kind; `docs/TIMELINE.md:306-307` has sellers
  under platforms and no hierarchy for direct tenants.
- PATCH of a tenant that does not exist answers 500 and not 404, takes an empty
  `display_name` that POST refuses, and stores a window beyond 32 bits as
  another number.
- `Tenant.CanTransact` and `IsActive` are called by nobody.
- A fee above the amount wraps around in `SimpleTransferChain` and
  `FXTransferChains` (`ledger/transfer.go:256,310`): the chain pays out almost a
  whole word, from accounts that have no limit. `PendingOutboundNets` and
  `ExposureIsTheOpenPairs` say by how much the books are then off. Wallets are
  opened without a limit either, and no caller checks the balance
  `docs/ARCHITECTURE.md:616` speaks of.
- `internal/ledger/client.go:139` says `CreateTransfers` creates "multiple
  transfers atomically"; without linked flags TigerBeetle accepts some and
  refuses others. `LinkedCallsAreAtomic` is stated of `CreateLinkedTransfers`.
- `internal/ledger/types.go:108` has a flag to post a hold, and `Transfer` no
  field to say which.
- A status that `models/enums.go:35` and `docs/ARCHITECTURE.md:489,558,565` call
  terminal can be left again (`queries/transfers.sql.go:398`: `WHERE id =`, and
  nothing else), `completed_at` staying beside a status that is not final; no code
  asks `TransferStatus.IsTerminal`. `EndingsAreDated` is about what does hold.
- `cache/client.go:128,145-149` and `docs/SECURITY.md:156-162` count requests per
  minute. The members of the sorted set are a second and `math.random()`, which
  Redis seeds alike for every script, so requests of one second are one member:
  the script counts seconds, and a limit above 60 never denies anything.
  `LimiterCountsSeconds` says what is counted.
- The end that `GetFXRate` reports may lie half a second, and the time the caller
  takes, after the real one, as TTL is rounded to the nearest second. It may also
  report the rate of one lock with the lifetime of the next, when a lock ends
  between its GET and its TTL; `ReportedRatesHold` excepts that.
- An EXPIRE sent after its lock was deleted applies to the next lock, and shortens
  what that was promised; `AcknowledgedStands` counts from it.
- A lifetime below a second locks nothing although `LockFXRate` returns nil.
- `/ready` reports "all dependencies" (`server/server.go:132`) without asking
  TigerBeetle.
- A panic in a callback of `WithTx` keeps its connection for good, and
  `database.Close` then never returns: `SignalStops` excepts it.
- When the server fails, `run` returns at `cmd/api/main.go:111` and its deferred
  Close calls cut off the requests in flight; lines 97-99 say failures are handled
  "the same way as OS shutdown signals" and lines 28-30 promise "graceful cleanup".
  `CutOffNeedsCause` excepts the outcome "server error".
- `formatAmount` prints -50 as `0.50`; `AnswerIsExact` excludes that interval.

## 6. Order of work, and what is not modelled

Written in this order: `WalletProvisioning`, `TransferIntake` and
`TenantLifecycle` with their proofs, `IdempotentIntake`, `LedgerTransfers`,
`WalletBalance`; then `TransferLifecycle`, `ServerProcess` and `CacheKeys` with
theirs; then the proofs about the walk of `TransferLifecycle`, about
`LedgerTransfers` and about `WalletBalance`.

Possible next: tenants are registered while wallets are provisioned, so
`RegisteredTenants` of `WalletProvisioning` could become the rows of
`TenantLifecycle`; as rows of tenants are never deleted, what is proved of a
fixed set holds of each request from its INSERT on.

Not modelled:

- Row-level security (migration 9): static policies, evaluated by PostgreSQL.
- Configuration: environment variables read once at the start; what they set is
  a constant here (`Conns`).
- Generated query code beyond the statements that the modules name, and the
  read-only endpoints that answer one SELECT without paging
  (`GET /wallets/{id}`, lists of wallets, `/health`, `/ready`): one statement is
  one snapshot, and they change nothing.
