--------------------------- MODULE TenantLifecycle ---------------------------
(***************************************************************************)
(* The tenant endpoints (internal/handler/tenant.go) over the tenants      *)
(* table: POST /tenants, PATCH and GET /tenants/{id}, and the tenants of a *)
(* legal entity.                                                           *)
(*                                                                         *)
(* Every endpoint is one SQL statement.  PATCH sends NULL for what the     *)
(* body leaves out and COALESCE keeps the column, so each column behaves   *)
(* as a register of its own, shared by all clients.  A statement whose     *)
(* handler gave up may still be waiting in PostgreSQL and commit later.    *)
(***************************************************************************)
EXTENDS Integers

CONSTANTS
    Requests,       \* the requests ever made; a retry is one of its own
    Messages,       \* what they may ask
    Seed,           \* rows inserted by migration or by hand, by id
    LegalEntities,  \* ids of the rows of legal_entities
    NoTenant,       \* parent_tenant_id NULL
    NoMessage,      \* no request received yet
    Absent,         \* a field the body leaves out
    Names,          \* values of the text columns
    Int32Size,      \* the number of values of an INTEGER column, 2^32
    MaxFaults,      \* bound on failed queries and crashes
    AppGeneratesId  \* TRUE when tenants.id gets a value

VARIABLES
    tenants,    \* the rows of the table, by id
    pc,         \* the next step of each request
    msg,        \* what each request asks
    reply,      \* status and tenants answered to each request
    late,       \* requests whose statement outlives their handler
    past,       \* history: requests answered, and over, when each one came
    faults      \* failed queries and crashes so far

vars == <<tenants, pc, msg, reply, late, past, faults>>

-----------------------------------------------------------------------------
(* The tenants table.                                                      *)

tenant_kind_enum == {"platform", "connected", "direct", "internal"}

tenant_status_enum == {"pending_kyc", "active", "suspended", "closed"}

\* The columns a PATCH may set: display_name stands for the other text columns
\* and metadata, tenant_status for kyc_level and netting_enabled.
Fields == {"display_name", "tenant_status", "netting_window_minutes"}

Column(f) ==
    CASE f = "display_name" -> Names
      [] f = "tenant_status" -> tenant_status_enum
      [] OTHER -> -(Int32Size \div 2) .. (Int32Size \div 2) - 1

\* A generated id is one no other row has: that of the request that made it.
Ids == Requests \union DOMAIN Seed

\* T holds rows of the tenants table.
AreRows(T) ==
    \A t \in DOMAIN T :
        /\ T[t].kind \in tenant_kind_enum
        /\ T[t].parent \in Ids \union {NoTenant}
        /\ T[t].entity \in LegalEntities
        /\ \A f \in Fields : T[t].fields[f] \in Column(f)

\* T is a hierarchy: parents exist, a connected tenant has one, and whichever
\* tenants are looked at, one of them has its parent outside: nobody is its own
\* ancestor.
IsForest(T) ==
    /\ \A t \in DOMAIN T :
          /\ T[t].parent \in DOMAIN T \union {NoTenant}
          /\ T[t].kind = "connected" => T[t].parent # NoTenant
    /\ \A S \in SUBSET DOMAIN T : S # {} => \E t \in S : T[t].parent \notin S

ASSUME ConstantsAssumption ==
    /\ Int32Size \in Nat /\ Int32Size % 2 = 0 /\ Int32Size > 10
    /\ MaxFaults \in Nat
    /\ AppGeneratesId \in BOOLEAN
    /\ NoTenant \notin Ids
    /\ NoMessage \notin Messages

ASSUME SeedAssumption == AreRows(Seed) /\ IsForest(Seed) /\ Requests \intersect DOMAIN Seed = {}

\* "bad" messages fail decoding or validation; "unfit" ones pass it but hold a
\* value no column takes (a status outside its enum, a name too long).
ASSUME MessagesAssumption ==
    \A m \in Messages :
        /\ m.op \in {"POST", "PATCH", "GET", "LIST"}
        /\ m.form \in {"bad", "unfit", "ok"}
        /\ m.op = "POST" /\ m.form = "ok" => m.fields["display_name"] \in Names
        /\ m.op = "PATCH" /\ m.form = "ok" =>
              /\ m.fields["display_name"] \in Names \union {Absent}
              /\ m.fields["tenant_status"] \in tenant_status_enum \union {Absent}
              /\ m.fields["netting_window_minutes"] \in Int \union {Absent}

\* Mutant: the column takes the number as it is.
int32Unchecked(n) == n

\* int32(*params.NettingWindowMinutes): numbers out of range wrap.
int32(n) == ((n + Int32Size \div 2) % Int32Size) - (Int32Size \div 2)

\* What a message writes into column f.
Param(m, f) == IF f = "netting_window_minutes" THEN int32(m.fields[f]) ELSE m.fields[f]

\* Mutant: the zero value of a field left out is sent, not NULL.
CoalesceZero(m, f, old) ==
    IF m.fields[f] # Absent THEN Param(m, f)
    ELSE IF f = "netting_window_minutes" THEN 0 ELSE old

\* COALESCE(narg, column)
Coalesce(m, f, old) == IF m.fields[f] = Absent THEN old ELSE Param(m, f)

Default(f) == IF f = "tenant_status" THEN "pending_kyc" ELSE 5

Row(kind, parent, entity, fields) ==
    [kind |-> kind, parent |-> parent, entity |-> entity, fields |-> fields]

\* The row of a POST: what the INSERT does not name gets its default.
NewRow(m) ==
    Row(m.kind, m.parent, m.entity,
        [f \in Fields |-> IF f = "display_name" THEN m.fields[f] ELSE Default(f)])

\* Mutant: parent_tenant_id references nothing.
InsertAcceptedNoParentKey(r) ==
    LET m == msg[r] IN
    /\ AppGeneratesId
    /\ m.form = "ok"
    /\ m.kind \in tenant_kind_enum
    /\ m.kind = "connected" => m.parent # NoTenant
    /\ m.entity \in LegalEntities

\* The constraints of the table.  id is NOT NULL without a default and the
\* INSERT does not name it: AppGeneratesId = FALSE is the code as committed,
\* TRUE the code as the comment on tenants.id has it.  A row may reference
\* itself.
InsertAccepted(r) ==
    LET m == msg[r] IN
    /\ AppGeneratesId
    /\ m.form = "ok"
    /\ m.kind \in tenant_kind_enum
    /\ m.kind = "connected" => m.parent # NoTenant
    /\ m.parent \in DOMAIN tenants \union {NoTenant, r}
    /\ m.entity \in LegalEntities

Inserted(r) ==
    [t \in DOMAIN tenants \union {r} |-> IF t = r THEN NewRow(msg[r]) ELSE tenants[t]]

\* WHERE id = $9, with values the columns take.
UpdateAccepted(r) == msg[r].form = "ok" /\ msg[r].id \in DOMAIN tenants

Updated(r) ==
    [t \in DOMAIN tenants |->
        IF t = msg[r].id
          THEN Row(tenants[t].kind, tenants[t].parent, tenants[t].entity,
                   [f \in Fields |-> Coalesce(msg[r], f, tenants[t].fields[f])])
          ELSE tenants[t]]

\* A late statement does what its handler would have had it do, or fails.
Applied(r) ==
    IF msg[r].op = "POST"
      THEN IF InsertAccepted(r) THEN Inserted(r) ELSE tenants
      ELSE IF UpdateAccepted(r) THEN Updated(r) ELSE tenants

-----------------------------------------------------------------------------
(* The handlers.                                                           *)

InFlight == {r \in Requests : pc[r] = "query"}

\* The models.Tenant of row t of T.
toModel(T, t) == [id |-> t, row |-> T[t]]

Answer(r, code, found) ==
    /\ pc' = [pc EXCEPT ![r] = "done"]
    /\ reply' = [reply EXCEPT ![r] = [code |-> code, tenants |-> found]]

\* Nobody waits for r and no statement of it is left.
Over(r) == pc[r] = "done" /\ r \notin late

Succeeded(r) == reply[r].code \in {200, 201}

Fault ==
    /\ faults < MaxFaults
    /\ faults' = faults + 1

Init ==
    /\ tenants = Seed
    /\ pc = [r \in Requests |-> "new"]
    /\ msg = [r \in Requests |-> NoMessage]
    /\ reply = [r \in Requests |-> [code |-> 0, tenants |-> {}]]
    /\ late = {}
    /\ past = [r \in Requests |-> [answered |-> {}, over |-> {}]]
    /\ faults = 0

\* Decoding and validation.  The id of a new tenant is generated after its
\* request was written, which therefore cannot name it as its own parent.
Receive(r, m) ==
    /\ pc[r] = "new"
    /\ m.op = "POST" => m.parent # r
    /\ msg' = [msg EXCEPT ![r] = m]
    /\ past' = [past EXCEPT ![r] = [answered |-> {q \in Requests : Succeeded(q)},
                                    over |-> {q \in Requests : Over(q)}]]
    /\ IF m.form = "bad"
         THEN Answer(r, 400, {})
         ELSE pc' = [pc EXCEPT ![r] = "query"] /\ UNCHANGED reply
    /\ UNCHANGED <<tenants, late, faults>>

\* Any error of the INSERT is a 500.
CreateTenant(r) ==
    /\ pc[r] = "query" /\ msg[r].op = "POST"
    /\ IF InsertAccepted(r)
         THEN tenants' = Inserted(r) /\ Answer(r, 201, {toModel(Inserted(r), r)})
         ELSE UNCHANGED tenants /\ Answer(r, 500, {})
    /\ UNCHANGED <<msg, late, past, faults>>

\* Mutant: the tenant is loaded first and the answer written before the UPDATE,
\* which is left to a goroutine.
UpdateTenantAsync(r) ==
    /\ pc[r] = "query" /\ msg[r].op = "PATCH"
    /\ UNCHANGED tenants
    /\ IF UpdateAccepted(r)
         THEN Answer(r, 200, {toModel(Updated(r), msg[r].id)}) /\ late' = late \union {r}
         ELSE Answer(r, 500, {}) /\ UNCHANGED late
    /\ UNCHANGED <<msg, past, faults>>

\* RETURNING gives the row as this statement leaves it.  A tenant that does
\* not exist is no row, an error like any other: 500.
UpdateTenant(r) ==
    /\ pc[r] = "query" /\ msg[r].op = "PATCH"
    /\ IF UpdateAccepted(r)
         THEN tenants' = Updated(r) /\ Answer(r, 200, {toModel(Updated(r), msg[r].id)})
         ELSE UNCHANGED tenants /\ Answer(r, 500, {})
    /\ UNCHANGED <<msg, late, past, faults>>

GetTenant(r) ==
    /\ pc[r] = "query" /\ msg[r].op = "GET"
    /\ IF msg[r].id \in DOMAIN tenants
         THEN Answer(r, 200, {toModel(tenants, msg[r].id)})
         ELSE Answer(r, 404, {})
    /\ UNCHANGED <<tenants, msg, late, past, faults>>

ListByLegalEntity(r) ==
    /\ pc[r] = "query" /\ msg[r].op = "LIST"
    /\ Answer(r, 200, {toModel(tenants, t) : t \in {u \in DOMAIN tenants : tenants[u].entity = msg[r].entity}})
    /\ UNCHANGED <<tenants, msg, late, past, faults>>

-----------------------------------------------------------------------------
(* Failures.                                                               *)

Writing == {r \in InFlight : msg[r].op \in {"POST", "PATCH"}}

\* The handler answers 500; pgx gives the connection up without cancelling the
\* statement, which is lost or left behind.
QueryFails(r) ==
    /\ pc[r] = "query"
    /\ Fault
    /\ Answer(r, 500, {})
    /\ \/ UNCHANGED late
       \/ r \in Writing /\ late' = late \union {r}
    /\ UNCHANGED <<tenants, msg, past>>

\* All requests in flight go unanswered, whatever became of their statements.
Crash ==
    /\ Fault
    /\ InFlight # {}
    /\ pc' = [r \in Requests |-> IF r \in InFlight THEN "done" ELSE pc[r]]
    /\ \E left \in SUBSET Writing : late' = late \union left
    /\ UNCHANGED <<tenants, msg, reply, past>>

LateCommit(r) ==
    /\ r \in late
    /\ late' = late \ {r}
    /\ tenants' = Applied(r)
    /\ UNCHANGED <<pc, msg, reply, past, faults>>

-----------------------------------------------------------------------------
Step(r) == CreateTenant(r) \/ UpdateTenant(r) \/ GetTenant(r) \/ ListByLegalEntity(r)

Next ==
    \/ \E r \in Requests, m \in Messages : Receive(r, m)
    \/ \E r \in Requests : Step(r)
    \/ \E r \in Requests : QueryFails(r) \/ LateCommit(r)
    \/ Crash

Spec == Init /\ [][Next]_vars

-----------------------------------------------------------------------------
(* Correctness.                                                            *)

\* Type invariant: the table keeps to its columns, an answer shows tenants as
\* the table has them, and only writes are left behind.
TypeOK ==
    /\ DOMAIN tenants \subseteq Ids /\ AreRows(tenants)
    /\ pc \in [Requests -> {"new", "query", "done"}]
    /\ msg \in [Requests -> Messages \union {NoMessage}]
    /\ DOMAIN reply = Requests /\ DOMAIN past = Requests
    /\ \A r \in Requests :
          /\ reply[r].code \in {0, 200, 201, 400, 404, 500}
          /\ \A shown \in reply[r].tenants : shown.id \in Ids
    /\ late \subseteq Requests
    /\ \A r \in late : pc[r] = "done" /\ msg[r] # NoMessage /\ msg[r].op \in {"POST", "PATCH"}
    /\ \A r \in Requests : past[r].answered \subseteq Requests /\ past[r].over \subseteq Requests
    /\ faults \in 0 .. MaxFaults

\* Tenants form a forest (platforms and what is connected to them): however
\* creations meet, fail and commit late, a parent exists before its children
\* and no PATCH moves a tenant, so nobody becomes its own ancestor.
HierarchyIsAForest == IsForest(tenants)

\* Request q sets column f of tenant t, as its creator or by a PATCH.
Sets(q, t, f) ==
    /\ msg[q] # NoMessage
    /\ msg[q].form = "ok"
    /\ \/ msg[q].op = "POST" /\ q = t
       \/ msg[q].op = "PATCH" /\ msg[q].id = t /\ msg[q].fields[f] # Absent

SetTo(q, f) == IF msg[q].op = "POST" THEN NewRow(msg[q]).fields[f] ELSE Param(msg[q], f)

\* v is a value column f of t may have for someone who knows that the requests
\* of heard succeeded: one of the writers set it, and none of heard set the
\* column after that writer was over.
IsCurrent(t, f, v, heard) ==
    \/ \E q \in Requests :
          /\ Sets(q, t, f) /\ SetTo(q, f) = v
          /\ \A b \in heard : Sets(b, t, f) => q \notin past[b].over
    \/ /\ t \in DOMAIN Seed /\ Seed[t].fields[f] = v
       /\ \A b \in heard : ~Sets(b, t, f)

\* No update is lost: PATCHes of different columns both stay, and a column
\* never falls back behind a PATCH that was answered 200, unless to a write
\* that was still under way when that PATCH came (a late commit is one).
UpdatesAreOrdered ==
    \A t \in DOMAIN tenants, f \in Fields :
        IsCurrent(t, f, tenants[t].fields[f], {b \in Requests : Succeeded(b)})

\* Who asks after an update or a creation was acknowledged sees it, in the
\* answer to a GET, a list or a PATCH of other columns.
ReadsSeeAcknowledged ==
    \A r \in Requests :
        /\ \A shown \in reply[r].tenants, f \in Fields :
              IsCurrent(shown.id, f, shown.row.fields[f], past[r].answered)
        /\ \A q \in past[r].answered :
              msg[q].op = "POST" =>
                  /\ reply[r].code = 404 => msg[r].id # q
                  /\ Succeeded(r) /\ msg[r].op = "LIST" /\ msg[r].entity = msg[q].entity
                         => \E shown \in reply[r].tenants : shown.id = q

=============================================================================
