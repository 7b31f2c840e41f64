-------------------------- MODULE TransferLifecycle --------------------------
(***************************************************************************)
(* A transfer after its creation: the statements that change its row       *)
(* (UpdateStatus and UpdateTBTransferIDs of                                *)
(* internal/repository/transfer_repo.go, and the three statements of       *)
(* internal/repository/queries/transfers.sql.go that have no repository    *)
(* method yet) and GET /tenants/{id}/transfers, which a client walks page  *)
(* by page while they run.                                                 *)
(*                                                                         *)
(* No code calls the updates yet: workers are the most general callers.    *)
(* Each statement is its own transaction.  NOW() is the time it began, and *)
(* it may have to wait for the lock of its row before it is executed, on   *)
(* the newest version of the row.  The rows are those of one tenant.       *)
(***************************************************************************)
EXTENDS Integers, Sequences, FiniteSets

CONSTANTS
    Transfers,      \* ids of transfers
    UpdatedAt,      \* rows that exist at first, and when they were last updated
    StartTime,      \* the time at first
    Workers,        \* callers of the repository
    Statuses,       \* members of transfer_status_enum in use
    Reasons,        \* failure reasons
    PageSize,       \* the limit a client asks for
    MaxStatements   \* bound on statements begun

ASSUME LifecycleAssumption ==
    /\ IsFiniteSet(Transfers)
    /\ DOMAIN UpdatedAt \subseteq Transfers
    /\ StartTime \in Nat
    /\ \A t \in DOMAIN UpdatedAt : UpdatedAt[t] \in 0 .. StartTime
    /\ Statuses \subseteq {"created", "validating", "rejected", "processing", "completed",
                           "rolled_back", "cancelled"}
    /\ "created" \in Statuses
    /\ PageSize \in Nat \ {0}
    /\ MaxStatements \in Nat

VARIABLES
    rows,       \* the tenant's rows of the transfers table
    clock,      \* the time at the server
    running,    \* the statement each worker has begun
    begun,      \* statements begun so far
    walk,       \* the client's walk through the pages
    born,       \* NOW() of the statement that created each transfer
    ended       \* NOW() of the statement that ended each transfer, the last executed of them

vars == <<rows, clock, running, begun, walk, born, ended>>

-----------------------------------------------------------------------------
(* The table.                                                              *)

NULL == "null"

\* NULL in a column of timestamps.
NoTime == -1

IsTerminal(status) == status \in {"completed", "rolled_back", "cancelled", "rejected"}

\* A row as CreateTransfer leaves it; the columns nobody changes are left out.
CreateTransfer(now) ==
    [status |-> "created", failure_reason |-> NULL, updated_at |-> now, completed_at |-> NoTime]

\* Mutant: the statement forgets one of the terminal statuses.
UpdateTransferStatusNoRejected(row, s) ==
    [row EXCEPT !.status = s.status, !.failure_reason = s.reason, !.updated_at = s.now,
                !.completed_at = IF s.status \in {"completed", "rolled_back", "cancelled"}
                                   THEN s.now ELSE @]

\* Mutant: without a reason the empty string is stored, and not NULL.
UpdateTransferStatusEmptyReason(row, s) ==
    [row EXCEPT !.status = s.status, !.updated_at = s.now,
                !.failure_reason = IF s.reason = NULL THEN "" ELSE s.reason,
                !.completed_at = IF IsTerminal(s.status) THEN s.now ELSE @]

\* The status the row had does not matter: a terminal one can be left.
UpdateTransferStatus(row, s) ==
    [row EXCEPT !.status = s.status, !.failure_reason = s.reason, !.updated_at = s.now,
                !.completed_at =
                    IF s.status \in {"completed", "rolled_back", "cancelled", "rejected"}
                      THEN s.now ELSE @]

\* The other columns matter here only as updates of the row.
UpdateTransferTBTransferIDs(row, s) == [row EXCEPT !.updated_at = s.now]

\* Compliance status, netting group and rail reference.
UpdateTransferDetails(row, s) == [row EXCEPT !.updated_at = s.now]

-----------------------------------------------------------------------------
(* Listing.                                                                *)

NoFilter == "any"

Matches(row, filter) == filter = NoFilter \/ row.status = filter

Matching(table, filter) == {t \in DOMAIN table : Matches(table[t], filter)}

\* Mutant: the oldest update comes first.
PrecedesOldest(t, u) == rows[t].updated_at <= rows[u].updated_at

\* ORDER BY updated_at DESC: rows updated at the same time come in any order.
Precedes(t, u) == rows[t].updated_at >= rows[u].updated_at

\* What ListTransfersByTenant may answer for OFFSET offset LIMIT PageSize.
Pages(filter, offset) ==
    LET matching == Matching(rows, filter)
        last == IF offset + PageSize < Cardinality(matching)
                  THEN offset + PageSize ELSE Cardinality(matching)
        orders == {s \in [1 .. Cardinality(matching) -> matching] :
                      \A i, j \in DOMAIN s :
                          i < j => s[i] # s[j] /\ Precedes(s[i], s[j])}
    IN {{s[i] : i \in (offset + 1) .. last} : s \in orders}

\* Transfers that are listed before t, and those that may be.
Ahead(table, t, filter) ==
    {u \in Matching(table, filter) : table[u].updated_at > table[t].updated_at}

Tied(table, t, filter) ==
    {u \in Matching(table, filter) \ {t} : table[u].updated_at = table[t].updated_at}

-----------------------------------------------------------------------------
NotRunning == [kind |-> "none"]

NoWalk == [at |-> "none", filter |-> NoFilter, offset |-> 0, listed |-> {}, stayed |-> {},
           disturbed |-> {}]

Init ==
    /\ rows = [t \in DOMAIN UpdatedAt |-> CreateTransfer(UpdatedAt[t])]
    /\ clock = StartTime
    /\ running = [w \in Workers |-> NotRunning]
    /\ begun = 0
    /\ walk = NoWalk
    /\ born = [t \in DOMAIN UpdatedAt |-> UpdatedAt[t]]
    /\ ended = [t \in DOMAIN UpdatedAt |-> NoTime]

\* A statement of the given kind on transfer t.
Statement(kind, t, status, reason) ==
    [kind |-> kind, id |-> t, status |-> status, reason |-> reason, now |-> clock']

\* Ids of statements under way: every new transfer has one of its own.
Named == {running[w].id : w \in {w \in Workers : running[w] # NotRunning}}

\* Updates name transfers the caller has seen.
Begin(w) ==
    /\ running[w] = NotRunning
    /\ begun < MaxStatements
    /\ begun' = begun + 1
    /\ clock' \in {clock, clock + 1}
    /\ \/ \E t \in DOMAIN rows, status \in Statuses, reason \in Reasons \union {NULL} :
              running' = [running EXCEPT ![w] = Statement("status", t, status, reason)]
       \/ \E t \in DOMAIN rows, kind \in {"ledger ids", "details"} :
              running' = [running EXCEPT ![w] = Statement(kind, t, "created", NULL)]
       \/ \E t \in Transfers \ (DOMAIN rows \union Named) :
              running' = [running EXCEPT ![w] = Statement("create", t, "created", NULL)]
    /\ UNCHANGED <<rows, walk, born, ended>>

\* Who walks the pages notices what became of the rows: a transfer that was
\* updated did not stay, and one is disturbed when a transfer ahead of it left
\* or fell behind it, or when their order is open.
Watch(touched) ==
    walk' = [walk EXCEPT
        !.stayed = @ \ touched,
        !.disturbed = @ \union {t \in walk.stayed \ touched :
            \/ ~(Ahead(rows, t, walk.filter) \subseteq Ahead(rows', t, walk.filter))
            \/ Tied(rows', t, walk.filter) # {}}]

Executed(row, s) ==
    CASE s.kind = "status" -> UpdateTransferStatus(row, s)
      [] s.kind = "ledger ids" -> UpdateTransferTBTransferIDs(row, s)
      [] s.kind = "details" -> UpdateTransferDetails(row, s)

\* Whether a statement ends its transfer, as the code tells a final status.
Ends(s) == s.kind = "status" /\ IsTerminal(s.status)

Done(w) == running' = [running EXCEPT ![w] = NotRunning]

\* WHERE id = $1, and nothing else: no status, region or version is compared.
Update(w) ==
    LET s == running[w] IN
    /\ s.kind \notin {"none", "create"}
    /\ rows' = [rows EXCEPT ![s.id] = Executed(@, s)]
    /\ ended' = IF Ends(s) THEN [ended EXCEPT ![s.id] = s.now] ELSE ended
    /\ Watch({s.id})
    /\ Done(w)
    /\ UNCHANGED <<clock, begun, born>>

Create(w) ==
    LET s == running[w] IN
    /\ s.kind = "create"
    /\ rows' = [t \in DOMAIN rows \union {s.id} |->
           IF t = s.id THEN CreateTransfer(s.now) ELSE rows[t]]
    /\ born' = [t \in DOMAIN rows \union {s.id} |-> IF t = s.id THEN s.now ELSE born[t]]
    /\ ended' = [t \in DOMAIN rows \union {s.id} |-> IF t = s.id THEN NoTime ELSE ended[t]]
    /\ Watch({s.id})
    /\ Done(w)
    /\ UNCHANGED <<clock, begun>>

\* The statement fails or is cancelled.
StatementFails(w) ==
    /\ running[w] # NotRunning
    /\ Done(w)
    /\ UNCHANGED <<rows, clock, begun, walk, born, ended>>

-----------------------------------------------------------------------------
(* The client's walk: one request per page, until a page is short.         *)

StartWalk(filter) ==
    /\ walk.at = "none"
    /\ walk' = [NoWalk EXCEPT
           !.at = "walking",
           !.filter = filter,
           !.stayed = Matching(rows, filter),
           !.disturbed = {t \in Matching(rows, filter) : Tied(rows, t, filter) # {}}]
    /\ UNCHANGED <<rows, clock, running, begun, born, ended>>

NextPage ==
    /\ walk.at = "walking"
    /\ \E page \in Pages(walk.filter, walk.offset) :
           walk' = [walk EXCEPT
               !.listed = @ \union page,
               !.offset = @ + PageSize,
               !.at = IF Cardinality(page) < PageSize THEN "done" ELSE @]
    /\ UNCHANGED <<rows, clock, running, begun, born, ended>>

Next ==
    \/ \E w \in Workers : Begin(w)
    \/ \E w \in Workers : Update(w)
    \/ \E w \in Workers : Create(w)
    \/ \E w \in Workers : StatementFails(w)
    \/ \E filter \in Statuses \union {NoFilter} : StartWalk(filter)
    \/ NextPage

Spec == Init /\ [][Next]_vars

-----------------------------------------------------------------------------
(* Correctness.                                                            *)

Row == [status : Statuses, failure_reason : Reasons \union {NULL}, updated_at : Nat,
        completed_at : Nat \union {NoTime}]

\* Type invariant of the table, the statements under way and the walk.
TypeOK ==
    /\ DOMAIN rows \subseteq Transfers
    /\ \A t \in DOMAIN rows : rows[t] \in Row /\ rows[t].updated_at <= clock
    /\ clock \in Nat
    /\ DOMAIN running = Workers
    /\ \A w \in Workers :
           \/ running[w] = NotRunning
           \/ running[w].id \in Transfers /\ running[w].now \in 0 .. clock
    /\ begun \in 0 .. MaxStatements
    /\ walk.filter \in Statuses \union {NoFilter}
    /\ walk.listed \union walk.stayed \union walk.disturbed \subseteq Transfers
    /\ DOMAIN born = DOMAIN rows /\ DOMAIN ended = DOMAIN rows

\* In whatever order statements began, completed_at dates the ending that was
\* executed last: it is there exactly if the transfer ever had a status that is
\* final in the sense of IsTerminal, which repeats in Go the list that the
\* statement has in SQL, so a final row is never without a date; and no ending
\* is dated before the creation, although NOW() is the time at which a
\* statement began and not the one at which it was executed.
\* The enums and ARCHITECTURE.md call these statuses terminal, and the statement
\* does not hold to that: a final status can be left, and completed_at then stays
\* beside a status that is not final.
EndingsAreDated ==
    \A t \in DOMAIN rows :
        /\ rows[t].completed_at = ended[t]
        /\ IsTerminal(rows[t].status) => ended[t] # NoTime
        /\ ended[t] # NoTime => born[t] <= ended[t]

\* A client that walks the pages to the end has seen every transfer that
\* matched from the start and was not touched meanwhile, whatever was created
\* or updated in between.  It may miss one only if another transfer that was
\* ahead of it left the filter, or was put behind it by a statement that began
\* long before it was executed, or if two were updated at the same time.
WalkIsComplete ==
    walk.at = "done" => walk.stayed \ walk.disturbed \subseteq walk.listed

=============================================================================
