----------------------- MODULE TenantLifecycle_proofs -----------------------
(***************************************************************************)
(* Proofs about TenantLifecycle, for any number of requests, any messages  *)
(* and any failures: the hierarchy stays a forest, no update is lost, and  *)
(* reads see what was acknowledged before them.                            *)
(***************************************************************************)
EXTENDS TenantLifecycle, TLAPS

Acknowledged == {b \in Requests : Succeeded(b)}

\* A request has a message once it is received and an answer once it is done;
\* one that succeeded left no statement behind.
Lives ==
    \A r \in Requests :
        /\ pc[r] = "new" => msg[r] = NoMessage
        /\ pc[r] # "new" => msg[r] # NoMessage
        /\ pc[r] # "done" => reply[r] = [code |-> 0, tenants |-> {}]
        /\ Succeeded(r) => Over(r)
        /\ pc[r] # "new" => msg[r] \in Messages
        /\ pc[r] # "new" /\ msg[r].op = "POST" => msg[r].parent # r

\* Whom a request found over, or answered, still is.
PastIsPast ==
    \A r \in Requests :
        /\ \A q \in past[r].over : Over(q)
        /\ \A q \in past[r].answered : Succeeded(q)
        /\ pc[r] = "new" => past[r].over = {} /\ past[r].answered = {}

\* A row beside the seed is of the POST that has its id, which is over.
RowsAreCreated ==
    /\ \A t \in DOMAIN tenants \ DOMAIN Seed :
          /\ t \in Requests /\ Over(t)
          /\ msg[t] # NoMessage /\ msg[t].op = "POST"
          /\ tenants[t].entity = msg[t].entity
    /\ \A q \in Requests :
          Succeeded(q) /\ msg[q].op = "POST" => q \in DOMAIN tenants \ DOMAIN Seed

\* IsCurrent, for messages m and history p: what the lemmas reason about.
SetsIn(m, q, t, f) ==
    /\ m[q] # NoMessage
    /\ m[q].form = "ok"
    /\ \/ m[q].op = "POST" /\ q = t
       \/ m[q].op = "PATCH" /\ m[q].id = t /\ m[q].fields[f] # Absent

SetToIn(m, q, f) == IF m[q].op = "POST" THEN NewRow(m[q]).fields[f] ELSE Param(m[q], f)

CurrentIn(m, p, t, f, v, heard) ==
    \/ \E q \in Requests :
          /\ SetsIn(m, q, t, f) /\ SetToIn(m, q, f) = v
          /\ \A b \in heard : SetsIn(m, b, t, f) => q \notin p[b].over
    \/ /\ t \in DOMAIN Seed /\ Seed[t].fields[f] = v
       /\ \A b \in heard : ~SetsIn(m, b, t, f)

\* The inductive invariant of the table and its history.
IInv ==
    /\ TypeOK
    /\ Lives
    /\ PastIsPast
    /\ RowsAreCreated
    /\ HierarchyIsAForest
    /\ UpdatesAreOrdered

-----------------------------------------------------------------------------
(* The columns.                                                            *)

\* An int32 is one, whatever number it is made from.
LEMMA Int32Range ==
    ASSUME NEW n \in Int
    PROVE  int32(n) \in -(Int32Size \div 2) .. (Int32Size \div 2) - 1
BY ConstantsAssumption DEF int32

\* What a PATCH leaves in a column is a value of the column.
LEMMA CoalesceType ==
    ASSUME NEW m \in Messages, m.op = "PATCH", m.form = "ok",
           NEW f \in Fields, NEW old \in Column(f)
    PROVE  Coalesce(m, f, old) \in Column(f)
<1>1. CASE f = "display_name"
  BY <1>1, MessagesAssumption DEF Coalesce, Param, Column
<1>2. CASE f = "tenant_status"
  BY <1>2, MessagesAssumption DEF Coalesce, Param, Column
<1>3. CASE f = "netting_window_minutes"
  <2>1. m.fields[f] # Absent => m.fields[f] \in Int
    BY <1>3, MessagesAssumption
  <2> QED
    BY <1>3, <2>1, Int32Range DEF Coalesce, Param, Column
<1> QED
  BY <1>1, <1>2, <1>3 DEF Fields

-----------------------------------------------------------------------------
(* The statements that write.                                              *)

\* r's statement, with its handler or without, is applied.
Write(r) ==
    /\ r \in Requests /\ ~Over(r) /\ pc[r] # "new"
    /\ msg[r].op \in {"POST", "PATCH"}

\* The table takes it.
WriteAccepted(r) ==
    \/ msg[r].op = "POST" /\ InsertAccepted(r)
    \/ msg[r].op = "PATCH" /\ UpdateAccepted(r)

\* The row of an unfinished POST is not there yet.
LEMMA RowIsNew ==
    ASSUME IInv, NEW r, Write(r)
    PROVE  r \notin DOMAIN tenants
BY SeedAssumption DEF IInv, RowsAreCreated, Write

LEMMA InsertedRows ==
    ASSUME IInv, NEW r, Write(r), msg[r].op = "POST", InsertAccepted(r)
    PROVE  AreRows(Inserted(r)) /\ DOMAIN Inserted(r) \subseteq Ids
<1>1. msg[r] \in Messages /\ r \in Ids /\ DOMAIN tenants \subseteq Ids
  BY DEF IInv, Lives, Write, TypeOK, Ids
<1>2. \A f \in Fields : NewRow(msg[r]).fields[f] \in Column(f)
  <2> TAKE f \in Fields
  <2>1. CASE f = "display_name"
    BY <2>1, <1>1, MessagesAssumption DEF NewRow, Row, InsertAccepted, Column, Fields
  <2>2. CASE f = "tenant_status"
    BY <2>2 DEF NewRow, Row, Default, Column, Fields, tenant_status_enum
  <2>3. CASE f = "netting_window_minutes"
    <3>1. 5 \in -(Int32Size \div 2) .. (Int32Size \div 2) - 1
      BY ConstantsAssumption
    <3>2. NewRow(msg[r]).fields[f] = 5
      BY <2>3 DEF NewRow, Row, Default, Fields
    <3> QED
      BY <2>3, <3>1, <3>2 DEF Column
  <2> QED
    BY <2>1, <2>2, <2>3 DEF Fields
<1>3. /\ NewRow(msg[r]).kind \in tenant_kind_enum
      /\ NewRow(msg[r]).parent \in Ids \union {NoTenant}
      /\ NewRow(msg[r]).entity \in LegalEntities
  BY <1>1 DEF NewRow, Row, InsertAccepted
<1>4. /\ DOMAIN Inserted(r) = DOMAIN tenants \union {r}
      /\ Inserted(r)[r] = NewRow(msg[r])
      /\ \A t \in DOMAIN tenants \ {r} : Inserted(r)[t] = tenants[t]
  BY DEF Inserted
<1>5. AreRows(tenants)
  BY DEF IInv, TypeOK
<1> HIDE DEF NewRow, Inserted
<1> QED
  BY <1>1, <1>2, <1>3, <1>4, <1>5 DEF AreRows

LEMMA UpdatedRows ==
    ASSUME IInv, NEW r, Write(r), msg[r].op = "PATCH", UpdateAccepted(r)
    PROVE  AreRows(Updated(r)) /\ DOMAIN Updated(r) \subseteq Ids
<1>1. msg[r] \in Messages /\ msg[r].form = "ok" /\ DOMAIN tenants \subseteq Ids /\ AreRows(tenants)
  BY DEF IInv, Lives, Write, TypeOK, UpdateAccepted
<1>2. \A t \in DOMAIN tenants, f \in Fields :
          Coalesce(msg[r], f, tenants[t].fields[f]) \in Column(f)
  BY <1>1, CoalesceType DEF AreRows
<1> QED
  BY <1>1, <1>2 DEF AreRows, Updated, Row

\* A new tenant is nobody's parent yet, and its own parent is already there.
LEMMA InsertedForest ==
    ASSUME IInv, NEW r, Write(r), msg[r].op = "POST", InsertAccepted(r)
    PROVE  IsForest(Inserted(r))
<1> DEFINE T == Inserted(r)
<1>1. /\ r \notin DOMAIN tenants
      /\ DOMAIN T = DOMAIN tenants \union {r}
      /\ \A t \in DOMAIN tenants : T[t] = tenants[t]
      /\ T[r] = NewRow(msg[r])
  BY RowIsNew DEF Inserted
<1>2. /\ T[r].parent = msg[r].parent /\ T[r].kind = msg[r].kind
      /\ msg[r].parent \in DOMAIN tenants \union {NoTenant}
  <2>1. msg[r].parent # r
    BY DEF IInv, Lives, Write
  <2> QED
    BY <1>1, <2>1 DEF NewRow, Row, InsertAccepted
<1>3. IsForest(tenants)
  BY DEF IInv, HierarchyIsAForest
<1>4. \A t \in DOMAIN T :
          /\ T[t].parent \in DOMAIN T \union {NoTenant}
          /\ T[t].kind = "connected" => T[t].parent # NoTenant
  BY <1>1, <1>2, <1>3 DEF IsForest, InsertAccepted
<1>5. ASSUME NEW S \in SUBSET DOMAIN T, S # {}
      PROVE  \E t \in S : T[t].parent \notin S
  <2>1. CASE S = {r}
    <3>1. r # NoTenant
      BY ConstantsAssumption DEF Write, Ids
    <3> QED
      BY <1>1, <1>2, <2>1, <3>1
  <2>2. CASE S # {r}
    <3>1. S \ {r} \in SUBSET DOMAIN tenants /\ S \ {r} # {}
      BY <1>1, <1>5, <2>2
    <3>2. PICK t \in S \ {r} : tenants[t].parent \notin S \ {r}
      BY <1>3, <3>1 DEF IsForest
    <3>3. tenants[t].parent \in DOMAIN tenants \union {NoTenant} /\ t \in DOMAIN tenants
      BY <1>3, <3>1, <3>2 DEF IsForest
    <3>4. tenants[t].parent # r
      BY <1>1, <3>3, ConstantsAssumption DEF Write, Ids
    <3> QED
      BY <1>1, <3>2, <3>3, <3>4
  <2> QED
    BY <2>1, <2>2
<1> QED
  BY <1>4, <1>5 DEF IsForest

\* A PATCH moves nobody.
LEMMA UpdatedForest ==
    ASSUME IInv, NEW r
    PROVE  IsForest(Updated(r))
<1>1. /\ DOMAIN Updated(r) = DOMAIN tenants
      /\ \A t \in DOMAIN tenants : /\ Updated(r)[t].parent = tenants[t].parent
                                   /\ Updated(r)[t].kind = tenants[t].kind
  BY DEF Updated, Row
<1> QED
  BY <1>1 DEF IsForest, IInv, HierarchyIsAForest

\* What a write leaves: rows of the table, in a forest, none of them gone.
LEMMA WriteTable ==
    ASSUME IInv, NEW r, Write(r)
    PROVE  /\ AreRows(Applied(r)) /\ DOMAIN Applied(r) \subseteq Ids
           /\ IsForest(Applied(r))
           /\ DOMAIN tenants \subseteq DOMAIN Applied(r)
           /\ DOMAIN Applied(r) \subseteq DOMAIN tenants \union {r}
           /\ \A t \in DOMAIN tenants : Applied(r)[t].entity = tenants[t].entity
<1>1. CASE msg[r].op = "POST" /\ InsertAccepted(r)
  BY <1>1, InsertedRows, InsertedForest, RowIsNew DEF Applied, Inserted
<1>2. CASE msg[r].op = "PATCH" /\ UpdateAccepted(r)
  BY <1>2, UpdatedRows, UpdatedForest DEF Applied, Updated, Row
<1>3. CASE Applied(r) = tenants
  BY <1>3 DEF IInv, TypeOK, HierarchyIsAForest
<1> QED
  BY <1>1, <1>2, <1>3 DEF Applied, Write

-----------------------------------------------------------------------------
(* The order of updates.                                                   *)

\* A value stays current when no new writer of the column is heard of.
LEMMA CurrentStays ==
    ASSUME NEW m, NEW n, NEW p, NEW o, NEW t, NEW f, NEW v, NEW heard, NEW heard2,
           CurrentIn(m, p, t, f, v, heard),
           \A q \in Requests : m[q] # NoMessage => n[q] = m[q] /\ o[q] = p[q],
           heard2 \subseteq Requests,
           \A b \in heard2 : m[b] # NoMessage /\ (SetsIn(m, b, t, f) => b \in heard)
    PROVE  CurrentIn(n, o, t, f, v, heard2)
<1>1. \A q \in Requests : SetsIn(m, q, t, f) =>
          n[q] = m[q] /\ o[q] = p[q] /\ SetsIn(n, q, t, f)
  BY DEF SetsIn
<1>2. \A b \in heard2 : SetsIn(n, b, t, f) => SetsIn(m, b, t, f) /\ b \in heard /\ o[b] = p[b]
  BY DEF SetsIn
<1>3. CASE \E q \in Requests :
               /\ SetsIn(m, q, t, f) /\ SetToIn(m, q, f) = v
               /\ \A b \in heard : SetsIn(m, b, t, f) => q \notin p[b].over
  <2>1. PICK q \in Requests :
               /\ SetsIn(m, q, t, f) /\ SetToIn(m, q, f) = v
               /\ \A b \in heard : SetsIn(m, b, t, f) => q \notin p[b].over
    BY <1>3
  <2>2. SetsIn(n, q, t, f) /\ SetToIn(n, q, f) = v
    BY <1>1, <2>1 DEF SetToIn
  <2>3. \A b \in heard2 : SetsIn(n, b, t, f) => q \notin o[b].over
    BY <1>2, <2>1
  <2> QED
    BY <2>2, <2>3 DEF CurrentIn
<1>4. CASE /\ t \in DOMAIN Seed /\ Seed[t].fields[f] = v
           /\ \A b \in heard : ~SetsIn(m, b, t, f)
  BY <1>2, <1>4 DEF CurrentIn
<1> QED
  BY <1>3, <1>4 DEF CurrentIn

\* A write makes its own value current: it is over for nobody yet.  Columns it
\* does not set keep theirs.
LEMMA WriteOrder ==
    ASSUME IInv, NEW r, Write(r), NEW heard \in SUBSET (Acknowledged \union {r}),
           r \in heard => WriteAccepted(r),
           NEW t \in DOMAIN Applied(r), NEW f \in Fields
    PROVE  CurrentIn(msg, past, t, f, Applied(r)[t].fields[f], heard)
<1>0. msg[r] # NoMessage
  BY DEF IInv, Lives, Write
<1>1. CASE WriteAccepted(r) /\ SetsIn(msg, r, t, f)
  <2>1. SetToIn(msg, r, f) = Applied(r)[t].fields[f]
    <3>1. CASE msg[r].op = "POST"
      BY <1>1, <3>1 DEF WriteAccepted, SetsIn, SetToIn, Applied, Inserted
    <3>2. CASE msg[r].op = "PATCH"
      BY <1>1, <3>2 DEF WriteAccepted, SetsIn, SetToIn, Applied, Updated, Coalesce, Row, UpdateAccepted
    <3> QED
      BY <3>1, <3>2 DEF Write
  <2>2. \A b \in heard : r \notin past[b].over
    BY DEF IInv, PastIsPast, Write, Acknowledged
  <2> QED
    BY <1>1, <2>1, <2>2 DEF CurrentIn, Write
<1>2. CASE ~(WriteAccepted(r) /\ SetsIn(msg, r, t, f))
  <2>1. t \in DOMAIN tenants /\ Applied(r)[t].fields[f] = tenants[t].fields[f]
    <3>1. CASE msg[r].op = "POST" /\ InsertAccepted(r)
      <4>1. t # r
        <5>1. msg[r].form = "ok"
          BY <3>1 DEF InsertAccepted
        <5>2. ~SetsIn(msg, r, t, f)
          BY <1>2, <3>1 DEF WriteAccepted
        <5> QED
          BY <1>0, <3>1, <5>1, <5>2 DEF SetsIn
      <4> QED
        BY <3>1, <4>1 DEF Applied, Inserted
    <3>2. CASE msg[r].op = "PATCH" /\ UpdateAccepted(r)
      <4>1. t = msg[r].id => msg[r].fields[f] = Absent
        BY <1>0, <1>2, <3>2 DEF WriteAccepted, SetsIn, UpdateAccepted
      <4> QED
        BY <3>2, <4>1 DEF Applied, Updated, Coalesce, Row
    <3>3. CASE Applied(r) = tenants
      BY <3>3
    <3> QED
      BY <3>1, <3>2, <3>3 DEF Applied, Write
  <2>2. CurrentIn(msg, past, t, f, tenants[t].fields[f], Acknowledged)
    BY <2>1 DEF IInv, UpdatesAreOrdered, IsCurrent, Sets, SetTo, CurrentIn, SetsIn, SetToIn,
                Acknowledged
  <2>3. heard \subseteq Requests
    BY DEF Write, Acknowledged
  <2>4. \A b \in heard : msg[b] # NoMessage /\ (SetsIn(msg, b, t, f) => b \in Acknowledged)
    BY <1>2, <2>3, ConstantsAssumption
    DEF IInv, Lives, Write, Acknowledged, Over
  <2> QED
    BY <2>1, <2>2, <2>3, <2>4, CurrentStays
<1> QED
  BY <1>1, <1>2

-----------------------------------------------------------------------------
(* The invariant.                                                          *)

LEMMA InitInv == Init => IInv
<1> SUFFICES ASSUME Init PROVE IInv
  OBVIOUS
<1>1. TypeOK
  BY ConstantsAssumption, SeedAssumption DEF Init, TypeOK, Ids
<1>2. Lives
  <2> USE DEF Lives
  <2> TAKE r \in Requests
  <2>1. pc[r] = "new" /\ msg[r] = NoMessage /\ reply[r] = [code |-> 0, tenants |-> {}]
    BY DEF Init
  <2> QED
    BY <2>1 DEF Succeeded
<1>3. PastIsPast /\ RowsAreCreated
  BY DEF Init, PastIsPast, RowsAreCreated, Succeeded
<1>4. HierarchyIsAForest
  BY SeedAssumption DEF Init, HierarchyIsAForest
<1>5. UpdatesAreOrdered
  BY DEF Init, UpdatesAreOrdered, IsCurrent, Succeeded
<1> QED
  BY <1>1, <1>2, <1>3, <1>4, <1>5 DEF IInv

\* A handler that writes, and a statement left behind, write.
LEMMA Writers ==
    ASSUME IInv, NEW r \in Requests, CreateTenant(r) \/ UpdateTenant(r) \/ LateCommit(r)
    PROVE  Write(r) /\ tenants' = Applied(r) /\ msg' = msg /\ past' = past
<1>1. CASE CreateTenant(r)
  BY <1>1 DEF IInv, TypeOK, CreateTenant, Write, Over, Applied
<1>2. CASE UpdateTenant(r)
  BY <1>2 DEF IInv, TypeOK, UpdateTenant, Write, Over, Applied
<1>3. CASE LateCommit(r)
  BY <1>3 DEF IInv, TypeOK, LateCommit, Write, Over
<1> QED
  BY <1>1, <1>2, <1>3

\* Whom a handler's answer shows are tenants.
LEMMA AnswersShowTenants ==
    ASSUME IInv, NEW r \in Requests, Step(r)
    PROVE  /\ reply' = [reply EXCEPT ![r] = reply'[r]]
           /\ reply'[r].code \in {200, 201, 404, 500}
           /\ \A shown \in reply'[r].tenants :
                 shown.id \in DOMAIN tenants' /\ shown.row = tenants'[shown.id]
           /\ pc[r] = "query" /\ pc' = [pc EXCEPT ![r] = "done"]
           /\ late' = late /\ msg' = msg /\ past' = past /\ faults' = faults
<1>1. CASE CreateTenant(r)
  BY <1>1 DEF IInv, TypeOK, CreateTenant, Answer, toModel, Inserted
<1>2. CASE UpdateTenant(r)
  <2>1. CASE UpdateAccepted(r)
    <3>1. msg[r].id \in DOMAIN Updated(r)
      BY <2>1 DEF UpdateAccepted, Updated
    <3> QED
      BY <1>2, <2>1, <3>1 DEF IInv, TypeOK, UpdateTenant, Answer, toModel
  <2>2. CASE ~UpdateAccepted(r)
    BY <1>2, <2>2 DEF IInv, TypeOK, UpdateTenant, Answer
  <2> QED
    BY <2>1, <2>2
<1>3. CASE GetTenant(r)
  BY <1>3 DEF IInv, TypeOK, GetTenant, Answer, toModel
<1>4. CASE ListByLegalEntity(r)
  BY <1>4 DEF IInv, TypeOK, ListByLegalEntity, Answer, toModel
<1> QED
  BY <1>1, <1>2, <1>3, <1>4 DEF Step

\* Steps of the handlers and late statements change the table by writes only.
LEMMA TableStep ==
    ASSUME IInv, [Next]_vars
    PROVE  /\ AreRows(tenants') /\ DOMAIN tenants' \subseteq Ids /\ IsForest(tenants')
           /\ DOMAIN tenants \subseteq DOMAIN tenants'
           /\ \A t \in DOMAIN tenants : tenants'[t].entity = tenants[t].entity
<1>1. CASE \E r \in Requests : CreateTenant(r) \/ UpdateTenant(r) \/ LateCommit(r)
  BY <1>1, Writers, WriteTable
<1>2. CASE tenants' = tenants
  BY <1>2 DEF IInv, TypeOK, HierarchyIsAForest
<1> QED
  BY <1>1, <1>2 DEF Next, vars, Step, Receive, GetTenant, ListByLegalEntity, QueryFails, Crash

LEMMA TypeStep ==
    ASSUME IInv, [Next]_vars
    PROVE  TypeOK'
<1>0. DOMAIN tenants' \subseteq Ids /\ AreRows(tenants)' /\ TypeOK /\ Lives
  BY TableStep DEF IInv
<1>1. ASSUME NEW r \in Requests, NEW m \in Messages, Receive(r, m)
      PROVE  TypeOK'
  BY <1>0, <1>1 DEF Receive, Answer, TypeOK
<1>2. ASSUME NEW r \in Requests, Step(r)
      PROVE  TypeOK'
  BY <1>0, <1>2, AnswersShowTenants DEF TypeOK
<1>3. ASSUME NEW r \in Requests, QueryFails(r)
      PROVE  TypeOK'
  <2>1. faults' \in 0 .. MaxFaults /\ late' \subseteq late \union Writing
    BY <1>0, <1>3, ConstantsAssumption DEF QueryFails, Fault, TypeOK
  <2>2. pc' = [pc EXCEPT ![r] = "done"] /\ msg' = msg /\ past' = past /\ late' \subseteq late \union {r}
    BY <1>3 DEF QueryFails, Answer
  <2>3. reply' = [reply EXCEPT ![r] = [code |-> 500, tenants |-> {}]] /\ pc[r] = "query"
    BY <1>3 DEF QueryFails, Answer
  <2>4. \A q \in late' : pc'[q] = "done" /\ msg[q] # NoMessage /\ msg[q].op \in {"POST", "PATCH"}
    BY <1>0, <2>1, <2>2 DEF Writing, InFlight, TypeOK, Lives
  <2> QED
    BY <1>0, <2>1, <2>2, <2>3, <2>4 DEF TypeOK, Writing, InFlight
<1>4. ASSUME NEW r \in Requests, LateCommit(r)
      PROVE  TypeOK'
  BY <1>0, <1>4 DEF LateCommit, TypeOK
<1>5. CASE Crash
  <2>1. faults' \in 0 .. MaxFaults /\ late' \subseteq late \union Writing
    BY <1>0, <1>5, ConstantsAssumption DEF Crash, Fault, TypeOK
  <2>2. pc' = [r \in Requests |-> IF r \in InFlight THEN "done" ELSE pc[r]]
    BY <1>5 DEF Crash
  <2>3. msg' = msg /\ past' = past /\ reply' = reply
    BY <1>5 DEF Crash
  <2>4. \A q \in late' : pc'[q] = "done" /\ msg[q] # NoMessage /\ msg[q].op \in {"POST", "PATCH"}
    BY <1>0, <2>1, <2>2 DEF Writing, InFlight, TypeOK, Lives
  <2>5. pc' \in [Requests -> {"new", "query", "done"}] /\ late' \subseteq Requests
    BY <1>0, <2>1, <2>2 DEF TypeOK, Writing, InFlight
  <2> QED
    BY <1>0, <2>1, <2>3, <2>4, <2>5 DEF TypeOK
<1>6. CASE UNCHANGED vars
  BY <1>0, <1>6 DEF vars, TypeOK
<1> QED
  BY <1>1, <1>2, <1>3, <1>4, <1>5, <1>6 DEF Next

LEMMA LivesStep ==
    ASSUME IInv, [Next]_vars
    PROVE  Lives'
<1> USE DEF Over, Succeeded
<1>0. TypeOK /\ Lives
  BY DEF IInv
<1>1. ASSUME NEW r \in Requests, NEW m \in Messages, Receive(r, m)
      PROVE  Lives'
  <2>1. /\ pc[r] = "new" /\ m # NoMessage /\ m \in Messages
        /\ m.op = "POST" => m.parent # r
        /\ msg' = [msg EXCEPT ![r] = m] /\ late' = late
    BY <1>1, ConstantsAssumption DEF Receive
  <2>2. CASE m.form = "bad"
    <3>1. /\ pc' = [pc EXCEPT ![r] = "done"]
          /\ reply' = [reply EXCEPT ![r] = [code |-> 400, tenants |-> {}]]
      BY <1>1, <2>2 DEF Receive, Answer
    <3> QED
      BY <1>0, <2>1, <3>1 DEF TypeOK, Lives
  <2>3. CASE m.form # "bad"
    <3>1. pc' = [pc EXCEPT ![r] = "query"] /\ reply' = reply
      BY <1>1, <2>3 DEF Receive
    <3> QED
      BY <1>0, <2>1, <3>1 DEF TypeOK, Lives
  <2> QED
    BY <2>2, <2>3
<1>2. ASSUME NEW r \in Requests, Step(r)
      PROVE  Lives'
  <2>1. /\ reply' = [reply EXCEPT ![r] = reply'[r]]
        /\ pc[r] = "query" /\ pc' = [pc EXCEPT ![r] = "done"]
        /\ late' = late /\ msg' = msg
    BY <1>2, AnswersShowTenants
  <2>2. r \notin late
    BY <1>0, <2>1 DEF TypeOK
  <2>3. \A q \in Requests \ {r} : reply'[q] = reply[q] /\ pc'[q] = pc[q]
    BY <1>0, <2>1 DEF TypeOK
  <2>4. pc'[r] = "done"
    BY <1>0, <2>1 DEF TypeOK
  <2> QED
    BY <1>0, <2>1, <2>2, <2>3, <2>4 DEF Lives
<1>3. ASSUME NEW r \in Requests, QueryFails(r)
      PROVE  Lives'
  BY <1>0, <1>3 DEF QueryFails, Answer, TypeOK, Lives
<1>4. ASSUME NEW r \in Requests, LateCommit(r)
      PROVE  Lives'
  BY <1>0, <1>4 DEF LateCommit, TypeOK, Lives
<1>5. CASE Crash
  BY <1>0, <1>5 DEF Crash, Writing, InFlight, TypeOK, Lives
<1>6. CASE UNCHANGED vars
  BY <1>0, <1>6 DEF vars, Lives
<1> QED
  BY <1>1, <1>2, <1>3, <1>4, <1>5, <1>6 DEF Next

\* Being over and having succeeded are for ever.
LEMMA OverStays ==
    ASSUME IInv, [Next]_vars, NEW q \in Requests
    PROVE  /\ Over(q) => Over(q)'
           /\ Succeeded(q) => Succeeded(q)'
           /\ msg[q] # NoMessage => msg'[q] = msg[q] /\ past'[q] = past[q]
<1> USE DEF Over, Succeeded
<1>0. TypeOK /\ Lives
  BY DEF IInv
<1>1. ASSUME NEW r \in Requests, NEW m \in Messages, Receive(r, m)
      PROVE  /\ Over(q) => Over(q)'
             /\ Succeeded(q) => Succeeded(q)'
             /\ msg[q] # NoMessage => msg'[q] = msg[q] /\ past'[q] = past[q]
  BY <1>0, <1>1 DEF Receive, Answer, TypeOK, Lives
<1>2. ASSUME NEW r \in Requests, Step(r)
      PROVE  /\ Over(q) => Over(q)'
             /\ Succeeded(q) => Succeeded(q)'
             /\ msg'[q] = msg[q] /\ past'[q] = past[q]
  BY <1>0, <1>2, AnswersShowTenants DEF TypeOK, Lives
<1>3. ASSUME NEW r \in Requests, QueryFails(r)
      PROVE  /\ Over(q) => Over(q)'
             /\ Succeeded(q) => Succeeded(q)'
             /\ msg'[q] = msg[q] /\ past'[q] = past[q]
  BY <1>0, <1>3 DEF QueryFails, Answer, TypeOK, Lives
<1>4. ASSUME NEW r \in Requests, LateCommit(r)
      PROVE  /\ Over(q) => Over(q)'
             /\ Succeeded(q) => Succeeded(q)'
             /\ msg'[q] = msg[q] /\ past'[q] = past[q]
  BY <1>0, <1>4 DEF LateCommit, TypeOK
<1>5. CASE Crash
  BY <1>0, <1>5 DEF Crash, Writing, InFlight, TypeOK
<1>6. CASE UNCHANGED vars
  BY <1>6 DEF vars
<1> QED
  BY <1>1, <1>2, <1>3, <1>4, <1>5, <1>6 DEF Next

LEMMA PastStep ==
    ASSUME IInv, [Next]_vars
    PROVE  PastIsPast'
<1>0. TypeOK /\ Lives /\ PastIsPast
  BY DEF IInv
<1>1. ASSUME NEW r \in Requests, NEW m \in Messages, Receive(r, m)
      PROVE  PastIsPast'
  <2>1. /\ past' = [past EXCEPT ![r] = [answered |-> {q \in Requests : Succeeded(q)},
                                       over |-> {q \in Requests : Over(q)}]]
        /\ pc'[r] # "new" /\ \A q \in Requests \ {r} : pc'[q] = pc[q]
    BY <1>0, <1>1 DEF Receive, Answer, TypeOK
  <2>2. ASSUME NEW b \in Requests
        PROVE  /\ \A q \in past'[b].over : q \in Requests /\ Over(q)
               /\ \A q \in past'[b].answered : q \in Requests /\ Succeeded(q)
               /\ pc'[b] = "new" => past'[b].over = {} /\ past'[b].answered = {}
    BY <1>0, <2>1 DEF TypeOK, PastIsPast
  <2> QED
    BY <2>2, OverStays DEF PastIsPast
<1>2. ASSUME past' = past, \A q \in Requests : pc'[q] = "new" => pc[q] = "new"
      PROVE  PastIsPast'
  BY <1>0, <1>2, OverStays DEF PastIsPast, TypeOK
<1>3. ASSUME NEW r \in Requests, Step(r) \/ QueryFails(r) \/ LateCommit(r)
      PROVE  past' = past /\ \A q \in Requests : pc'[q] = "new" => pc[q] = "new"
  <2>1. CASE Step(r)
    BY <1>0, <2>1, AnswersShowTenants DEF TypeOK
  <2>2. CASE QueryFails(r)
    BY <1>0, <2>2 DEF QueryFails, Answer, TypeOK
  <2>3. CASE LateCommit(r)
    BY <2>3 DEF LateCommit
  <2> QED
    BY <1>3, <2>1, <2>2, <2>3
<1>4. CASE Crash
  BY <1>2, <1>4 DEF Crash
<1>5. CASE UNCHANGED vars
  BY <1>2, <1>5 DEF vars
<1> QED
  BY <1>1, <1>2, <1>3, <1>4, <1>5 DEF Next

\* A request succeeds by its own step: a write the table takes, or a read.
LEMMA SuccessStep ==
    ASSUME IInv, [Next]_vars, NEW b \in Requests, Succeeded(b)', ~Succeeded(b)
    PROVE  Step(b) /\ pc[b] = "query" /\ (WriteAccepted(b) \/ msg[b].op \in {"GET", "LIST"})
<1>0. TypeOK
  BY DEF IInv
<1>1. ASSUME NEW r \in Requests, Step(r)
      PROVE  r = b
  BY <1>0, <1>1, AnswersShowTenants DEF TypeOK, Succeeded
<1>2. ASSUME NEW r \in Requests, NEW m \in Messages, Receive(r, m)
      PROVE  FALSE
  BY <1>0, <1>2 DEF Receive, Answer, TypeOK, Succeeded
<1>3. ASSUME NEW r \in Requests, QueryFails(r) \/ LateCommit(r)
      PROVE  FALSE
  BY <1>0, <1>3 DEF QueryFails, LateCommit, Answer, TypeOK, Succeeded
<1>4. CASE Crash
  BY <1>4 DEF Crash, Succeeded
<1>5. CASE UNCHANGED vars
  BY <1>5 DEF vars, Succeeded
<1>6. Step(b)
  BY <1>1, <1>2, <1>3, <1>4, <1>5 DEF Next
<1>7. CASE CreateTenant(b)
  <2>1. msg[b].op = "POST" /\ pc[b] = "query"
    BY <1>7 DEF CreateTenant
  <2>2. ASSUME ~InsertAccepted(b)
        PROVE  FALSE
    <3>1. reply' = [reply EXCEPT ![b] = [code |-> 500, tenants |-> {}]]
      BY <1>7, <2>2 DEF CreateTenant, Answer
    <3>2. reply'[b].code = 500
      BY <1>0, <3>1 DEF TypeOK
    <3> QED
      BY <3>2 DEF Succeeded
  <2> QED
    BY <1>6, <2>1, <2>2 DEF WriteAccepted
<1>8. CASE UpdateTenant(b)
  <2>1. msg[b].op = "PATCH" /\ pc[b] = "query"
    BY <1>8 DEF UpdateTenant
  <2>2. ASSUME ~UpdateAccepted(b)
        PROVE  FALSE
    <3>1. reply' = [reply EXCEPT ![b] = [code |-> 500, tenants |-> {}]]
      BY <1>8, <2>2 DEF UpdateTenant, Answer
    <3>2. reply'[b].code = 500
      BY <1>0, <3>1 DEF TypeOK
    <3> QED
      BY <3>2 DEF Succeeded
  <2> QED
    BY <1>6, <2>1, <2>2 DEF WriteAccepted
<1>9. CASE GetTenant(b) \/ ListByLegalEntity(b)
  BY <1>6, <1>9 DEF GetTenant, ListByLegalEntity
<1> QED
  BY <1>6, <1>7, <1>8, <1>9 DEF Step

LEMMA RowsStep ==
    ASSUME IInv, [Next]_vars
    PROVE  RowsAreCreated'
<1>0. TypeOK /\ Lives /\ RowsAreCreated
  BY DEF IInv
<1>1. ASSUME NEW t \in DOMAIN tenants' \ DOMAIN Seed
      PROVE  /\ t \in Requests /\ Over(t)'
             /\ msg'[t] # NoMessage /\ msg'[t].op = "POST"
             /\ tenants'[t].entity = msg'[t].entity
  <2>1. CASE t \in DOMAIN tenants
    BY <1>0, <1>1, <2>1, OverStays, TableStep DEF RowsAreCreated
  <2>2. CASE t \notin DOMAIN tenants
    <3>1. PICK r \in Requests : CreateTenant(r) \/ UpdateTenant(r) \/ LateCommit(r)
      BY <1>1, <2>2
      DEF Next, vars, Step, Receive, GetTenant, ListByLegalEntity, QueryFails, Crash
    <3>2. Write(r) /\ tenants' = Applied(r) /\ msg' = msg
      BY <3>1, Writers
    <3>3. /\ t = r /\ msg[r].op = "POST"
          /\ tenants'[r] = NewRow(msg[r]) /\ msg[r] # NoMessage
      BY <1>0, <1>1, <2>2, <3>2 DEF Applied, Inserted, Updated, Write, Lives
    <3>4. CreateTenant(r) \/ LateCommit(r)
      BY <3>1, <3>3 DEF UpdateTenant
    <3>5. Over(r)'
      BY <1>0, <3>4 DEF CreateTenant, LateCommit, Answer, TypeOK, Over
    <3> QED
      BY <3>2, <3>3, <3>5 DEF NewRow, Row
  <2> QED
    BY <2>1, <2>2
<1>2. ASSUME NEW q \in Requests, Succeeded(q)', msg'[q].op = "POST"
      PROVE  q \in DOMAIN tenants' \ DOMAIN Seed
  <2>1. CASE Succeeded(q)
    <3>1. msg'[q] = msg[q]
      BY <1>0, <2>1, OverStays DEF Lives, Over
    <3> QED
      BY <1>0, <1>2, <2>1, <3>1, TableStep DEF RowsAreCreated
  <2>2. CASE ~Succeeded(q)
    <3>1. Step(q) /\ pc[q] = "query" /\ (WriteAccepted(q) \/ msg[q].op \in {"GET", "LIST"})
      BY <1>2, <2>2, SuccessStep
    <3>2. msg' = msg
      BY <3>1, AnswersShowTenants
    <3>3. CreateTenant(q) /\ InsertAccepted(q)
      BY <1>2, <3>1, <3>2
      DEF Step, WriteAccepted, UpdateTenant, GetTenant, ListByLegalEntity
    <3>4. tenants' = Inserted(q)
      BY <3>3 DEF CreateTenant
    <3> QED
      BY <3>4, SeedAssumption DEF Inserted
  <2> QED
    BY <2>1, <2>2
<1> QED
  BY <1>1, <1>2 DEF RowsAreCreated

LEMMA OrderStep ==
    ASSUME IInv, [Next]_vars
    PROVE  UpdatesAreOrdered'
<1>0. TypeOK /\ Lives
  BY DEF IInv
<1> DEFINE heard == {b \in Requests : Succeeded(b)'}
<1>1. SUFFICES \A t \in DOMAIN tenants', f \in Fields :
                   CurrentIn(msg', past', t, f, tenants'[t].fields[f], heard)
  BY DEF UpdatesAreOrdered, IsCurrent, Sets, SetTo, CurrentIn, SetsIn, SetToIn
<1>2. ASSUME NEW r \in Requests, CreateTenant(r) \/ UpdateTenant(r) \/ LateCommit(r)
      PROVE  \A t \in DOMAIN tenants', f \in Fields :
                   CurrentIn(msg', past', t, f, tenants'[t].fields[f], heard)
  <2>1. Write(r) /\ tenants' = Applied(r) /\ msg' = msg /\ past' = past
    BY <1>2, Writers
  <2>2. ~Succeeded(r)
    BY <1>0, <2>1 DEF Lives, Write
  <2>3. \A b \in Requests \ {r} : Succeeded(b)' => Succeeded(b)
    BY <1>0, <1>2 DEF CreateTenant, UpdateTenant, LateCommit, Answer, TypeOK, Succeeded
  <2>4. heard \in SUBSET (Acknowledged \union {r})
    BY <2>3 DEF Acknowledged
  <2>5. r \in heard => WriteAccepted(r)
    BY <2>1, <2>2, SuccessStep DEF Write
  <2> QED
    BY <2>1, <2>4, <2>5, WriteOrder
<1>3. ASSUME tenants' = tenants,
             ~ \E r \in Requests : CreateTenant(r) \/ UpdateTenant(r) \/ LateCommit(r)
      PROVE  \A t \in DOMAIN tenants', f \in Fields :
                   CurrentIn(msg', past', t, f, tenants'[t].fields[f], heard)
  <2> TAKE t \in DOMAIN tenants', f \in Fields
  <2>1. CurrentIn(msg, past, t, f, tenants[t].fields[f], Acknowledged)
    BY <1>3 DEF IInv, UpdatesAreOrdered, IsCurrent, Sets, SetTo, CurrentIn, SetsIn, SetToIn,
                Acknowledged
  <2>2. ASSUME NEW b \in heard
        PROVE  msg[b] # NoMessage /\ (SetsIn(msg, b, t, f) => b \in Acknowledged)
    <3>1. CASE Succeeded(b)
      BY <1>0, <3>1 DEF Lives, Over, Acknowledged
    <3>2. CASE ~Succeeded(b)
      <4>1. Step(b) /\ pc[b] = "query" /\ (WriteAccepted(b) \/ msg[b].op \in {"GET", "LIST"})
        BY <2>2, <3>2, SuccessStep
      <4>2. msg[b] # NoMessage
        BY <1>0, <2>2, <4>1 DEF Lives
      <4>3. CASE CreateTenant(b) \/ UpdateTenant(b)
        BY <1>3, <2>2, <4>3
      <4>4. CASE GetTenant(b) \/ ListByLegalEntity(b)
        BY <4>2, <4>4 DEF GetTenant, ListByLegalEntity, SetsIn
      <4> QED
        BY <4>1, <4>3, <4>4 DEF Step
    <3> QED
      BY <3>1, <3>2
  <2> QED
    BY <1>3, <2>1, <2>2, OverStays, CurrentStays
<1> QED
  BY <1>2, <1>3
  DEF Next, vars, Step, Receive, GetTenant, ListByLegalEntity, QueryFails, Crash

\* The lemmas above, one for each part of IInv, together.
LEMMA Inductive == Spec => []IInv
<1>1. IInv /\ [Next]_vars => IInv'
  BY TypeStep, LivesStep, PastStep, RowsStep, TableStep, OrderStep DEF IInv, HierarchyIsAForest
<1> QED
  BY <1>1, InitInv, PTL DEF Spec

-----------------------------------------------------------------------------
(* Reads.                                                                  *)

\* An answer is given once, by the request's own step or with nothing in it.
LEMMA AnswerStep ==
    ASSUME IInv, [Next]_vars, NEW r \in Requests
    PROVE  \/ reply'[r] = reply[r]
           \/ pc[r] # "done" /\ Step(r)
           \/ pc[r] # "done" /\ reply'[r].tenants = {} /\ reply'[r].code \in {400, 500}
<1>0. TypeOK
  BY DEF IInv
<1>1. ASSUME NEW q \in Requests, NEW m \in Messages, Receive(q, m)
      PROVE  \/ reply'[r] = reply[r]
             \/ pc[r] # "done" /\ reply'[r].tenants = {} /\ reply'[r].code \in {400, 500}
  BY <1>0, <1>1 DEF Receive, Answer, TypeOK
<1>2. ASSUME NEW q \in Requests, Step(q)
      PROVE  reply'[r] = reply[r] \/ (pc[r] # "done" /\ Step(r))
  BY <1>0, <1>2, AnswersShowTenants DEF TypeOK
<1>3. ASSUME NEW q \in Requests, QueryFails(q) \/ LateCommit(q)
      PROVE  \/ reply'[r] = reply[r]
             \/ pc[r] # "done" /\ reply'[r].tenants = {} /\ reply'[r].code \in {400, 500}
  BY <1>0, <1>3 DEF QueryFails, LateCommit, Answer, TypeOK
<1>4. CASE Crash \/ UNCHANGED vars
  BY <1>4 DEF Crash, vars
<1> QED
  BY <1>1, <1>2, <1>3, <1>4 DEF Next

\* What ReadsSeeAcknowledged says of one request.
Sees(r) ==
    /\ \A shown \in reply[r].tenants, f \in Fields :
          CurrentIn(msg, past, shown.id, f, shown.row.fields[f], past[r].answered)
    /\ \A q \in past[r].answered :
          msg[q].op = "POST" =>
              /\ reply[r].code = 404 => msg[r].id # q
              /\ Succeeded(r) /\ msg[r].op = "LIST" /\ msg[r].entity = msg[q].entity
                     => \E shown \in reply[r].tenants : shown.id = q

LEMMA SeesAll == ReadsSeeAcknowledged <=> \A r \in Requests : Sees(r)
BY DEF ReadsSeeAcknowledged, Sees, IsCurrent, Sets, SetTo, CurrentIn, SetsIn, SetToIn

\* A read takes what the table has, and the table is behind nobody who was
\* acknowledged.
LEMMA FreshAnswerSees ==
    ASSUME IInv, IInv', NEW r \in Requests, [Next]_vars, Step(r)
    PROVE  Sees(r)'
<1>0. TypeOK /\ Lives /\ RowsAreCreated /\ PastIsPast
  BY DEF IInv
<1>1. /\ msg' = msg /\ past' = past
      /\ \A shown \in reply'[r].tenants :
            shown.id \in DOMAIN tenants' /\ shown.row = tenants'[shown.id]
  BY AnswersShowTenants
<1>2. ASSUME NEW b \in past[r].answered
      PROVE  b \in Requests /\ Succeeded(b) /\ Succeeded(b)' /\ msg[b] # NoMessage
  BY <1>0, <1>2, OverStays DEF TypeOK, PastIsPast, Lives, Over
<1>3. ASSUME NEW shown \in reply'[r].tenants, NEW f \in Fields
      PROVE  CurrentIn(msg', past', shown.id, f, shown.row.fields[f], past'[r].answered)
  <2> DEFINE all == {b \in Requests : Succeeded(b)'}
  <2>1. CurrentIn(msg', past', shown.id, f, shown.row.fields[f], all)
    BY <1>1, <1>3 DEF IInv, UpdatesAreOrdered, IsCurrent, Sets, SetTo, CurrentIn, SetsIn, SetToIn
  <2>2. past'[r].answered \subseteq Requests /\ \A b \in past'[r].answered : b \in all /\ msg'[b] # NoMessage
    BY <1>1, <1>2
  <2> HIDE DEF all
  <2> QED
    BY <2>1, <2>2, CurrentStays
<1>4. ASSUME NEW q \in past'[r].answered, msg'[q].op = "POST"
      PROVE  /\ reply'[r].code = 404 => msg'[r].id # q
             /\ Succeeded(r)' /\ msg'[r].op = "LIST" /\ msg'[r].entity = msg'[q].entity
                    => \E shown \in reply'[r].tenants : shown.id = q
  <2>1. q \in DOMAIN tenants /\ tenants[q].entity = msg[q].entity
    BY <1>0, <1>1, <1>2, <1>4 DEF RowsAreCreated
  <2>2. CASE CreateTenant(r) \/ UpdateTenant(r)
    <3>1. reply'[r].code # 404 /\ msg[r].op # "LIST"
      BY <1>0, <2>2 DEF CreateTenant, UpdateTenant, Answer, TypeOK
    <3> QED
      BY <1>1, <3>1
  <2>3. CASE GetTenant(r)
    BY <1>0, <1>1, <2>1, <2>3 DEF GetTenant, Answer, TypeOK
  <2>4. CASE ListByLegalEntity(r)
    <3>1. reply'[r] = [code |-> 200, tenants |->
              {toModel(tenants, t) : t \in {u \in DOMAIN tenants : tenants[u].entity = msg[r].entity}}]
      BY <1>0, <2>4 DEF ListByLegalEntity, Answer, TypeOK
    <3>2. msg[r].entity = msg[q].entity => toModel(tenants, q) \in reply'[r].tenants
      BY <2>1, <3>1
    <3>3. reply'[r].code # 404 /\ toModel(tenants, q).id = q
      BY <3>1 DEF toModel
    <3> QED
      BY <1>1, <3>2, <3>3
  <2> QED
    BY <2>2, <2>3, <2>4 DEF Step
<1> QED
  BY <1>3, <1>4 DEF Sees

LEMMA ReadsStep ==
    ASSUME IInv, IInv', ReadsSeeAcknowledged, [Next]_vars
    PROVE  ReadsSeeAcknowledged'
<1> SUFFICES ASSUME NEW r \in Requests PROVE Sees(r)'
  BY DEF ReadsSeeAcknowledged, Sees, IsCurrent, Sets, SetTo, CurrentIn, SetsIn, SetToIn
<1>0. TypeOK /\ Lives /\ PastIsPast /\ Sees(r)
  BY SeesAll DEF IInv
<1>1. CASE reply'[r] = reply[r] /\ pc[r] # "new"
  <2>1. msg'[r] = msg[r] /\ past'[r] = past[r]
    BY <1>0, <1>1, OverStays DEF Lives
  <2>2. ASSUME NEW b \in past[r].answered
        PROVE  b \in Requests /\ msg[b] # NoMessage /\ msg'[b] = msg[b]
    BY <1>0, <2>2, OverStays DEF TypeOK, PastIsPast, Lives, Over
  <2>3. ASSUME NEW shown \in reply'[r].tenants, NEW f \in Fields
        PROVE  CurrentIn(msg', past', shown.id, f, shown.row.fields[f], past'[r].answered)
    <3>1. CurrentIn(msg, past, shown.id, f, shown.row.fields[f], past[r].answered)
      BY <1>0, <1>1, <2>3 DEF Sees
    <3>2. \A q \in Requests : msg[q] # NoMessage => msg'[q] = msg[q] /\ past'[q] = past[q]
      BY OverStays
    <3> QED
      BY <2>1, <2>2, <3>1, <3>2, CurrentStays
  <2>4. Succeeded(r)' => Succeeded(r)
    BY <1>1 DEF Succeeded
  <2> QED
    BY <1>0, <1>1, <2>1, <2>2, <2>3, <2>4 DEF Sees
<1>2. CASE Step(r)
  BY <1>2, FreshAnswerSees
<1>3. CASE reply'[r].tenants = {} /\ reply'[r].code \in {0, 400, 500}
  BY <1>3 DEF Sees, Succeeded
<1>4. CASE reply'[r] = reply[r] /\ pc[r] = "new"
  BY <1>0, <1>3, <1>4 DEF Lives
<1> QED
  BY <1>1, <1>2, <1>3, <1>4, AnswerStep

LEMMA InitSees == Init => ReadsSeeAcknowledged
<1> SUFFICES ASSUME Init PROVE ReadsSeeAcknowledged
  OBVIOUS
<1>1. \A r \in Requests : reply[r].tenants = {} /\ past[r].answered = {}
  BY DEF Init
<1> QED
  BY <1>1 DEF ReadsSeeAcknowledged

-----------------------------------------------------------------------------
(* The theorems.                                                           *)

\* The table keeps to its columns, whatever numbers and names clients send
\* (tenant_repo.go, Update), and only writes are left behind.
THEOREM TypeCorrect == Spec => []TypeOK
<1>1. IInv => TypeOK
  BY DEF IInv
<1> QED
  BY <1>1, Inductive, PTL

\* The parents of tenants never form a cycle: the foreign key of
\* parent_tenant_id, ids that are new, and a PATCH that moves nobody suffice,
\* late commits included.
THEOREM HierarchyStaysAForest == Spec => []HierarchyIsAForest
<1>1. IInv => HierarchyIsAForest
  BY DEF IInv
<1> QED
  BY <1>1, Inductive, PTL

\* COALESCE in one UPDATE loses no update, for any number of clients.
THEOREM NoUpdateIsLost == Spec => []UpdatesAreOrdered
<1>1. IInv => UpdatesAreOrdered
  BY DEF IInv
<1> QED
  BY <1>1, Inductive, PTL

\* Answers are never behind what was acknowledged before the question came.
THEOREM ReadsAreFresh == Spec => []ReadsSeeAcknowledged
<1>1. IInv /\ IInv' /\ ReadsSeeAcknowledged /\ [Next]_vars => ReadsSeeAcknowledged'
  BY ReadsStep
<1> QED
  BY <1>1, Inductive, InitSees, PTL DEF Spec

=============================================================================
