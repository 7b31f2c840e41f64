--------------------------- MODULE TransferIntake ---------------------------
(***************************************************************************)
(* POST /api/v1/transfers (internal/handler/transfer.go,                   *)
(* TransferHandler.Create) over the partitioned transfers table.           *)
(*                                                                         *)
(* A request that carries an idempotency key first looks for a transfer    *)
(* of the tenant under that key and, finding none, inserts one: two        *)
(* queries with no transaction around them.  The unique constraint that    *)
(* backs the check includes the partition key, compliance_region.          *)
(***************************************************************************)
EXTENDS Integers, FiniteSets

CONSTANTS
    Requests,       \* the requests ever made; a retry is one of its own
    Bodies,         \* the bodies they carry
    NoKey,          \* idempotency_key absent
    NoBody,         \* no request received yet
    MaxInFlight,    \* bound on requests being served at one time
    MaxFaults,      \* bound on failed calls and crashes
    AppGeneratesId, \* TRUE when transfers.id gets a value
    RoutesAfterTrigger \* TRUE when the trigger runs before partition routing

ASSUME BoundsAssumption ==
    /\ MaxInFlight \in Nat \ {0}
    /\ MaxFaults \in Nat
    /\ AppGeneratesId \in BOOLEAN
    /\ RoutesAfterTrigger \in BOOLEAN

\* "bad" bodies fail the handler's validation; "unfit" ones pass it but hold a
\* value no column takes (a key over 64 characters, an unknown rail, ...).
ASSUME BodiesAssumption ==
    \A b \in Bodies : b.form \in {"bad", "unfit", "ok"}

VARIABLES
    transfers,  \* committed rows of the transfers table, in all partitions
    pc,         \* the next call of each request
    body,       \* the decoded body of each request
    reply,      \* status and transfer id answered to each request
    late,       \* requests that are over though their INSERT may yet commit
    faults      \* failed calls and crashes so far

vars == <<transfers, pc, body, reply, late, faults>>

NoReply == [code |-> 0, id |-> "none"]

-----------------------------------------------------------------------------
(* The compliance region of a corridor, derived twice: by the trigger that *)
(* sets the partition key and by the models package.                       *)

compute_compliance_region(from_curr, to_curr) ==
    IF from_curr = "IDR" \/ to_curr = "IDR" THEN "ID"
    ELSE IF from_curr \in {"EUR", "SEK", "DKK"} \/ to_curr \in {"EUR", "SEK", "DKK"} THEN "EU"
    ELSE IF from_curr = "GBP" \/ to_curr = "GBP" THEN "UK"
    ELSE "UNKNOWN"

DeriveComplianceRegion(fromCurrency, toCurrency) ==
    LET touches(c) == fromCurrency = c \/ toCurrency = c IN
    CASE touches("IDR") -> "ID"
      [] ~touches("IDR") /\ (touches("EUR") \/ touches("SEK") \/ touches("DKK")) -> "EU"
      [] touches("GBP") /\ ~\E c \in {"IDR", "EUR", "SEK", "DKK"} : touches(c) -> "UK"
      [] OTHER -> "UNKNOWN"

-----------------------------------------------------------------------------
(* The transfers table.                                                    *)

Region(b) == compute_compliance_region(b.from, b.to)

\* The row of request r: NUMERIC, CHAR and enum columns hold what was sent.
Row(r) ==
    [id |-> r, tenant_id |-> body[r].tenant, idempotency_key |-> body[r].key,
     payload |-> body[r], compliance_region |-> Region(body[r])]

\* Rows GetTransferByIdempotencyKey may return: any one if there are several.
UnderKey(b) ==
    {t \in transfers : t.tenant_id = b.tenant /\ t.idempotency_key = b.key}

\* Mutant: the unique constraint does not name the key.
UniqueKeyMissing(row) == TRUE

\* UNIQUE (tenant_id, idempotency_key, compliance_region); NULLs never collide.
UniqueKey(row) ==
    \/ row.idempotency_key = NoKey
    \/ \A t \in transfers :
          ~ /\ t.tenant_id = row.tenant_id
            /\ t.idempotency_key = row.idempotency_key
            /\ t.compliance_region = row.compliance_region

\* The row is routed by the default region, 'UNKNOWN', before the BEFORE ROW
\* trigger of the partition runs, and a trigger may not move it elsewhere
\* (RoutesAfterTrigger = FALSE, PostgreSQL 13 and later); the migration's
\* comment has it the other way round (TRUE).
Routable(row) == RoutesAfterTrigger \/ row.compliance_region = "UNKNOWN"

\* Mutant: the columns take whatever the handler lets through.
InsertAcceptedUnfit(row) ==
    /\ AppGeneratesId
    /\ Routable(row)
    /\ UniqueKey(row)

InsertAccepted(row) ==
    /\ AppGeneratesId
    /\ row.payload.form = "ok"
    /\ Routable(row)
    /\ UniqueKey(row)

-----------------------------------------------------------------------------
(* The handler.                                                            *)

InFlight == {r \in Requests : pc[r] \in {"check", "insert"}}

Goto(r, label) == pc' = [pc EXCEPT ![r] = label]

Answer(r, code, id) ==
    /\ Goto(r, "done")
    /\ reply' = [reply EXCEPT ![r] = [code |-> code, id |-> id]]

Fault ==
    /\ faults < MaxFaults
    /\ faults' = faults + 1

Init ==
    /\ transfers = {}
    /\ pc = [r \in Requests |-> "new"]
    /\ body = [r \in Requests |-> NoBody]
    /\ reply = [r \in Requests |-> NoReply]
    /\ late = {}
    /\ faults = 0

\* Validation; without a key the check is skipped.
Receive(r, b) ==
    /\ pc[r] = "new"
    /\ Cardinality(InFlight) < MaxInFlight
    /\ body' = [body EXCEPT ![r] = b]
    /\ IF b.form = "bad"
         THEN Answer(r, 400, "none")
         ELSE /\ Goto(r, IF b.key = NoKey THEN "insert" ELSE "check")
              /\ UNCHANGED reply
    /\ UNCHANGED <<transfers, late, faults>>

\* Mutant: the check finds any transfer of the tenant.
CheckIdempotencyIgnoresKey(r) ==
    /\ pc[r] = "check"
    /\ LET found == {t \in transfers : t.tenant_id = body[r].tenant} IN
       IF found # {}
         THEN \E t \in found : Answer(r, 200, t.id)
         ELSE Goto(r, "insert") /\ UNCHANGED reply
    /\ UNCHANGED <<transfers, body, late, faults>>

\* An existing transfer is returned as it is, whatever this body says.
CheckIdempotency(r) ==
    /\ pc[r] = "check"
    /\ IF UnderKey(body[r]) # {}
         THEN \E t \in UnderKey(body[r]) : Answer(r, 200, t.id)
         ELSE Goto(r, "insert") /\ UNCHANGED reply
    /\ UNCHANGED <<transfers, body, late, faults>>

\* Mutant: the error of repo.Create is not looked at.
InsertTransferIgnoresError(r) ==
    /\ pc[r] = "insert"
    /\ transfers' = IF InsertAccepted(Row(r)) THEN transfers \union {Row(r)} ELSE transfers
    /\ Answer(r, 201, r)
    /\ UNCHANGED <<body, late, faults>>

\* Mutant: ON CONFLICT (the key) DO UPDATE in place of the plain INSERT.
InsertTransferUpserts(r) ==
    /\ pc[r] = "insert"
    /\ IF InsertAccepted(Row(r)) \/ UnderKey(body[r]) # {}
         THEN /\ transfers' = (transfers \ UnderKey(body[r])) \union {Row(r)}
              /\ Answer(r, 201, r)
         ELSE /\ Answer(r, 500, "none")
              /\ UNCHANGED transfers
    /\ UNCHANGED <<body, late, faults>>

\* Any error of the INSERT, a lost race for the key included, is a 500.
InsertTransfer(r) ==
    /\ pc[r] = "insert"
    /\ IF InsertAccepted(Row(r))
         THEN /\ transfers' = transfers \union {Row(r)}
              /\ Answer(r, 201, r)
         ELSE /\ Answer(r, 500, "none")
              /\ UNCHANGED transfers
    /\ UNCHANGED <<body, late, faults>>

CheckFails(r) ==
    /\ pc[r] = "check"
    /\ Fault
    /\ Answer(r, 500, "none")
    /\ UNCHANGED <<transfers, body, late>>

\* The INSERT is reported failed, the 30 s of the request being over or the
\* connection gone; PostgreSQL may commit it all the same, then or later.
InsertFails(r) ==
    /\ pc[r] = "insert"
    /\ Fault
    /\ Answer(r, 500, "none")
    /\ late' \in {late, late \union {r}}
    /\ UNCHANGED <<transfers, body>>

\* Requests in flight get no answer, and what they committed stays; an INSERT
\* that was sent may yet commit.
Crash ==
    /\ Fault
    /\ InFlight # {}
    /\ pc' = [r \in Requests |-> IF r \in InFlight THEN "done" ELSE pc[r]]
    /\ \E left \in SUBSET {r \in InFlight : pc[r] = "insert"} : late' = late \union left
    /\ UNCHANGED <<transfers, body, reply>>

\* PostgreSQL executes the INSERT of a request that is over.
LateCommit(r) ==
    /\ r \in late
    /\ late' = late \ {r}
    /\ transfers' = IF InsertAccepted(Row(r)) THEN transfers \union {Row(r)} ELSE transfers
    /\ UNCHANGED <<pc, body, reply, faults>>

-----------------------------------------------------------------------------
Step(r) == CheckIdempotency(r) \/ InsertTransfer(r)

Next ==
    \/ \E r \in Requests, b \in Bodies : Receive(r, b)
    \/ \E r \in Requests : Step(r)
    \/ \E r \in Requests : CheckFails(r) \/ InsertFails(r) \/ LateCommit(r)
    \/ Crash

Spec == Init /\ [][Next]_vars

\* The scheduler runs a goroutine that can run, and pgx returns within the
\* request's 30s context.
Fairness == \A r \in Requests : WF_vars(Step(r))

FairSpec == Spec /\ Fairness

-----------------------------------------------------------------------------
(* Correctness.                                                            *)

Regions == {"ID", "EU", "UK", "UNKNOWN"}

\* Type invariant: a row is made by one request, of a body that fits the
\* columns of the table; an answer is one the handler writes.
TypeOK ==
    /\ \A t \in transfers :
          /\ t.id \in Requests
          /\ t.payload \in {b \in Bodies : b.form = "ok"}
          /\ t.compliance_region \in Regions
    /\ pc \in [Requests -> {"new", "check", "insert", "done"}]
    /\ body \in [Requests -> Bodies \union {NoBody}]
    /\ reply \in [Requests -> [code : {0, 200, 201, 400, 500}, id : Requests \union {"none"}]]
    /\ late \subseteq {r \in Requests : pc[r] = "done"}
    /\ faults \in 0 .. MaxFaults

Keyed(t) == t.idempotency_key # NoKey

\* The idempotency key of a tenant makes at most one transfer ("Idempotency
\* key prevents duplicate transfers", docs/TIMELINE.md:394), whatever the
\* corridor of the requests that carry it, their order and their failures.
OneTransferPerKey ==
    \A t, u \in transfers :
        /\ Keyed(t)
        /\ t.tenant_id = u.tenant_id
        /\ t.idempotency_key = u.idempotency_key
        => t = u

Answered(r) == reply[r].code \in {200, 201}

\* A client that is answered 200 or 201 is given a committed transfer of its
\* own tenant and key, and for one key every such answer names the same one
\* (that of another payload too: the check does not compare payloads).
AnswersAgree ==
    \A r \in Requests :
        Answered(r) =>
            /\ \E t \in transfers :
                  /\ t.id = reply[r].id
                  /\ t.tenant_id = body[r].tenant
                  /\ t.idempotency_key = body[r].key
            /\ \A q \in Requests :
                  /\ Answered(q)
                  /\ body[r].key # NoKey
                  /\ body[q].tenant = body[r].tenant
                  /\ body[q].key = body[r].key
                  => reply[q].id = reply[r].id

\* The trigger stores a row where models.DeriveComplianceRegion says it
\* belongs: data residency follows the corridor in the database and in Go.
RegionsAgree ==
    \A t \in transfers :
        t.compliance_region = DeriveComplianceRegion(t.payload.from, t.payload.to)

\* A transfer is never changed or removed by a later request, retry or crash:
\* the one that answered a key stays what its first request said.
TransfersStay == [][\A t \in transfers : t \in transfers']_vars

\* A valid request with a key that is received after the last failure ends with
\* a transfer under its key: its own, the one it lost a race to, or the one of a
\* request that was told 500 and committed after all.
KeyedRequestsExecute ==
    \A r \in Requests :
        (pc[r] = "check" /\ body[r].form = "ok" /\ faults = MaxFaults)
            ~> (pc[r] = "done" /\ UnderKey(body[r]) # {})

-----------------------------------------------------------------------------
(* The promise of the key, with what the table and the replies hold of it. *)

KeyOf(b) == <<b.tenant, b.key>>

Promise == INSTANCE IdempotentIntake WITH
    Keys <- {KeyOf(b) : b \in {c \in Bodies : c.key # NoKey}},
    Payloads <- Bodies,
    Ids <- Requests,
    executed <- {<<KeyOf(t.payload), t.payload, t.id>> : t \in {u \in transfers : Keyed(u)}},
    answered <- {<<KeyOf(body[r]), body[r], reply[r].id>> :
                    r \in {q \in Requests : Answered(q) /\ body[q].key # NoKey}}

\* The handler keeps the promise of the key: every step of it makes at most
\* one transfer under a key, answers a repetition of the request that made it
\* with that transfer, or answers a request the promise leaves open.
KeepsPromise == Promise!Spec

=============================================================================
