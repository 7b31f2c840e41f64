----------------------- MODULE TransferLifecycle_proofs -----------------------
(***************************************************************************)
(* Proofs about TransferLifecycle, for any transfers, workers, statuses    *)
(* and page size: what completed_at dates, in whatever order statements    *)
(* begin and are executed, and that a walk through the pages misses no     *)
(* transfer but those it may.                                              *)
(***************************************************************************)
EXTENDS TransferLifecycle, FiniteSetTheorems, TLAPS

Kinds == {"status", "ledger ids", "details", "create"}

StatementRec == [kind : Kinds, id : Transfers, status : Statuses,
                 reason : Reasons \union {NULL}, now : Nat]

WalkRec == [at : {"none", "walking", "done"}, filter : Statuses \union {NoFilter},
            offset : Nat, listed : SUBSET Transfers, stayed : SUBSET Transfers,
            disturbed : SUBSET Transfers]

\* The rows, and what is remembered of each of them.
TableOK ==
    /\ DOMAIN rows \subseteq Transfers
    /\ rows \in [DOMAIN rows -> Row]
    /\ \A t \in DOMAIN rows : rows[t].updated_at <= clock
    /\ clock \in Nat
    /\ born \in [DOMAIN rows -> Nat]
    /\ \A t \in DOMAIN rows : born[t] <= clock
    /\ ended \in [DOMAIN rows -> Nat \union {NoTime}]

\* An update names a row that exists and began after it, a creation one that does not, and no two
\* creations name the same.
StatementsOK ==
    /\ running \in [Workers -> StatementRec \union {NotRunning}]
    /\ begun \in 0 .. MaxStatements
    /\ \A w \in Workers : running[w] # NotRunning =>
           /\ running[w].now <= clock
           /\ running[w].kind # "create" =>
                  running[w].id \in DOMAIN rows /\ born[running[w].id] <= running[w].now
           /\ running[w].kind = "create" => running[w].id \notin DOMAIN rows
    /\ \A v, w \in Workers :
           /\ v # w
           /\ running[v] # NotRunning /\ running[v].kind = "create"
           /\ running[w] # NotRunning
           => running[v].id # running[w].id

WalkOK == walk \in WalkRec

\* The strengthening: with the types, what the rows tell is inductive.
IInv ==
    /\ TableOK
    /\ StatementsOK
    /\ WalkOK
    /\ EndingsAreDated

-----------------------------------------------------------------------------
LEMMA NotRunningKind ==
    ASSUME NEW s \in StatementRec \union {NotRunning}
    PROVE  /\ s = NotRunning => s.kind = "none"
           /\ s \in StatementRec => s.kind \in Kinds /\ s # NotRunning
<1>1. s = NotRunning => s.kind = "none"
    BY DEF NotRunning
<1>2. s \in StatementRec => s.kind \in Kinds
    BY DEF StatementRec
<1>3. "none" \notin Kinds
    BY DEF Kinds
<1> QED
    BY <1>1, <1>2, <1>3

LEMMA StatusesUsed == "created" \in Statuses
BY LifecycleAssumption

LEMMA InitIInv == Init => IInv
<1> SUFFICES ASSUME Init PROVE IInv
    OBVIOUS
<1>1. rows = [t \in DOMAIN UpdatedAt |->
                 [status |-> "created", failure_reason |-> NULL, updated_at |-> UpdatedAt[t],
                  completed_at |-> NoTime]]
    BY DEF Init, CreateTransfer
<1>2. /\ DOMAIN rows = DOMAIN UpdatedAt
      /\ DOMAIN UpdatedAt \subseteq Transfers
      /\ \A t \in DOMAIN UpdatedAt : UpdatedAt[t] \in Nat /\ UpdatedAt[t] <= StartTime
      /\ clock = StartTime /\ StartTime \in Nat
    BY <1>1, LifecycleAssumption DEF Init
<1>3. TableOK
    BY <1>1, <1>2, StatusesUsed DEF Init, TableOK, Row
<1>4. StatementsOK
    BY LifecycleAssumption DEF Init, StatementsOK, NotRunning
<1>5. WalkOK
    BY DEF Init, WalkOK, NoWalk, WalkRec
<1>6. EndingsAreDated
    BY <1>1, <1>2 DEF Init, EndingsAreDated, IsTerminal
<1> QED
    BY <1>3, <1>4, <1>5, <1>6 DEF IInv

\* The table and what is remembered of it do not change.
LEMMA SameTable ==
    ASSUME IInv, UNCHANGED <<rows, born, ended>>, clock' \in Nat, clock <= clock'
    PROVE  TableOK' /\ EndingsAreDated'
<1>1. EndingsAreDated'
    BY DEF IInv, EndingsAreDated, IsTerminal
<1>2. /\ DOMAIN rows' = DOMAIN rows
      /\ \A t \in DOMAIN rows : rows[t].updated_at \in Nat /\ born[t] \in Nat
    BY DEF IInv, TableOK, Row
<1>3. TableOK'
    BY <1>2 DEF IInv, TableOK
<1> QED
    BY <1>1, <1>3

-----------------------------------------------------------------------------
LEMMA BeginKeeps ==
    ASSUME IInv, NEW w \in Workers, Begin(w)
    PROVE  IInv'
<1>1. clock' \in Nat /\ clock <= clock' /\ clock \in Nat
    <2>1. clock \in Nat
        BY DEF IInv, TableOK
    <2>2. clock' \in {clock, clock + 1}
        BY DEF Begin
    <2> QED
        BY <2>1, <2>2
<1>2. TableOK' /\ EndingsAreDated'
    BY <1>1, SameTable DEF Begin
<1>3. PICK s \in StatementRec :
          /\ running' = [running EXCEPT ![w] = s]
          /\ s.now = clock'
          /\ s.kind # "create" => s.id \in DOMAIN rows
          /\ s.kind = "create" => s.id \notin DOMAIN rows \union Named
    <2>1. DOMAIN rows \subseteq Transfers
        BY DEF IInv, TableOK
    <2>2. CASE \E t \in DOMAIN rows, status \in Statuses, reason \in Reasons \union {NULL} :
                   running' = [running EXCEPT ![w] = Statement("status", t, status, reason)]
        <3>1. PICK t \in DOMAIN rows, status \in Statuses, reason \in Reasons \union {NULL} :
                  running' = [running EXCEPT ![w] = Statement("status", t, status, reason)]
            BY <2>2
        <3>2. /\ Statement("status", t, status, reason) \in StatementRec
              /\ Statement("status", t, status, reason).now = clock'
              /\ Statement("status", t, status, reason).kind = "status"
              /\ Statement("status", t, status, reason).id = t
            BY <1>1, <2>1 DEF Statement, StatementRec, Kinds
        <3> QED
            BY <3>1, <3>2, <2>1
    <2>3. CASE \E t \in DOMAIN rows, kind \in {"ledger ids", "details"} :
                   running' = [running EXCEPT ![w] = Statement(kind, t, "created", NULL)]
        <3>1. PICK t \in DOMAIN rows, kind \in {"ledger ids", "details"} :
                  running' = [running EXCEPT ![w] = Statement(kind, t, "created", NULL)]
            BY <2>3
        <3>2. /\ Statement(kind, t, "created", NULL) \in StatementRec
              /\ Statement(kind, t, "created", NULL).now = clock'
              /\ Statement(kind, t, "created", NULL).kind = kind
              /\ Statement(kind, t, "created", NULL).id = t
            BY <1>1, <2>1, StatusesUsed DEF Statement, StatementRec, Kinds
        <3> QED
            BY <3>1, <3>2, <2>1
    <2>4. CASE \E t \in Transfers \ (DOMAIN rows \union Named) :
                   running' = [running EXCEPT ![w] = Statement("create", t, "created", NULL)]
        <3>1. PICK t \in Transfers \ (DOMAIN rows \union Named) :
                  running' = [running EXCEPT ![w] = Statement("create", t, "created", NULL)]
            BY <2>4
        <3>2. /\ Statement("create", t, "created", NULL) \in StatementRec
              /\ Statement("create", t, "created", NULL).now = clock'
              /\ Statement("create", t, "created", NULL).kind = "create"
              /\ Statement("create", t, "created", NULL).id = t
            BY <1>1, StatusesUsed DEF Statement, StatementRec, Kinds
        <3> QED
            BY <3>1, <3>2, <2>1
    <2> QED
        BY <2>2, <2>3, <2>4 DEF Begin
<1>4. s # NotRunning
    BY NotRunningKind
<1>5. /\ running \in [Workers -> StatementRec \union {NotRunning}]
      /\ running'[w] = s
      /\ \A v \in Workers \ {w} : running'[v] = running[v]
      /\ running' \in [Workers -> StatementRec \union {NotRunning}]
    BY <1>3 DEF IInv, StatementsOK
<1>6. begun' \in 0 .. MaxStatements
    <2>1. begun \in 0 .. MaxStatements
        BY DEF IInv, StatementsOK
    <2>2. begun < MaxStatements /\ begun' = begun + 1 /\ MaxStatements \in Nat
        BY LifecycleAssumption DEF Begin
    <2> QED
        BY <2>1, <2>2
<1>7. /\ rows' = rows
      /\ \A v \in Workers : running[v] # NotRunning =>
             running[v].now \in Nat /\ running[v].id \in Named
    BY <1>5 DEF Begin, Named, StatementRec
<1>8. ASSUME NEW v \in Workers, running'[v] # NotRunning
      PROVE  /\ running'[v].now <= clock'
             /\ running'[v].kind # "create" =>
                    running'[v].id \in DOMAIN rows' /\ born'[running'[v].id] <= running'[v].now
             /\ running'[v].kind = "create" => running'[v].id \notin DOMAIN rows'
    <2>1. CASE v = w
        <3>1. born' = born /\ \A t \in DOMAIN rows : born[t] \in Nat /\ born[t] <= clock
            BY DEF Begin, IInv, TableOK
        <3> QED
            BY <2>1, <3>1, <1>1, <1>3, <1>5, <1>7
    <2>2. CASE v # w
        <3>1. running'[v] = running[v] /\ rows' = rows /\ born' = born
            BY <2>2, <1>5 DEF Begin
        <3>2. running[v].now \in Nat /\ running[v].now <= clock'
            BY <3>1, <1>1, <1>7, <1>8 DEF IInv, StatementsOK
        <3> QED
            BY <3>1, <3>2, <1>8 DEF IInv, StatementsOK
    <2> QED
        BY <2>1, <2>2
<1>9. ASSUME NEW u \in Workers, NEW v \in Workers, u # v,
             running'[u] # NotRunning, running'[u].kind = "create", running'[v] # NotRunning
      PROVE  running'[u].id # running'[v].id
    <2>1. CASE u = w
        BY <2>1, <1>3, <1>5, <1>7, <1>9
    <2>2. CASE v = w
        <3>1. /\ running[u] # NotRunning /\ running[u].kind = "create"
              /\ running'[u].id = running[u].id /\ running'[v] = s
            BY <2>2, <1>5, <1>9
        <3>2. running[u].id \notin DOMAIN rows /\ running[u].id \in Named
            BY <3>1, <1>7 DEF IInv, StatementsOK
        <3> QED
            BY <3>1, <3>2, <1>3
    <2>3. CASE u # w /\ v # w
        BY <2>3, <1>5, <1>9 DEF IInv, StatementsOK
    <2> QED
        BY <2>1, <2>2, <2>3
<1>10. StatementsOK'
    BY <1>5, <1>6, <1>8, <1>9 DEF StatementsOK
<1>11. WalkOK'
    BY DEF IInv, WalkOK, Begin
<1> QED
    BY <1>2, <1>10, <1>11 DEF IInv

\* A statement that has been executed or given up leaves the others as they were.
LEMMA DoneKeeps ==
    ASSUME IInv, NEW w \in Workers, Done(w), UNCHANGED <<clock, begun>>,
           \/ DOMAIN rows' = DOMAIN rows
           \/ /\ running[w] # NotRunning
              /\ running[w].kind = "create"
              /\ DOMAIN rows' = DOMAIN rows \union {running[w].id},
           \A t \in DOMAIN rows : born'[t] = born[t]
    PROVE  StatementsOK'
<1>1. /\ running \in [Workers -> StatementRec \union {NotRunning}]
      /\ running' \in [Workers -> StatementRec \union {NotRunning}]
      /\ running'[w] = NotRunning
      /\ \A v \in Workers \ {w} : running'[v] = running[v]
    BY DEF IInv, StatementsOK, Done
<1>2. ASSUME NEW v \in Workers, running'[v] # NotRunning
      PROVE  /\ v # w
             /\ running'[v] = running[v]
             /\ running'[v].now <= clock'
             /\ running'[v].kind # "create" =>
                    running'[v].id \in DOMAIN rows' /\ born'[running'[v].id] <= running'[v].now
             /\ running'[v].kind = "create" => running'[v].id \notin DOMAIN rows'
    BY <1>1, <1>2 DEF IInv, StatementsOK
<1>3. ASSUME NEW u \in Workers, NEW v \in Workers, u # v,
             running'[u] # NotRunning, running'[u].kind = "create", running'[v] # NotRunning
      PROVE  running'[u].id # running'[v].id
    BY <1>2, <1>3 DEF IInv, StatementsOK
<1>4. begun' \in 0 .. MaxStatements
    BY DEF IInv, StatementsOK
<1> QED
    BY <1>1, <1>2, <1>3, <1>4 DEF StatementsOK

LEMMA WatchKeeps ==
    ASSUME IInv, NEW touched, Watch(touched)
    PROVE  WalkOK'
<1>1. walk \in WalkRec
    BY DEF IInv, WalkOK
<1>2. PICK more \in SUBSET walk.stayed :
          walk' = [walk EXCEPT !.stayed = @ \ touched, !.disturbed = @ \union more]
    <2> DEFINE more == {t \in walk.stayed \ touched :
            \/ ~(Ahead(rows, t, walk.filter) \subseteq Ahead(rows', t, walk.filter))
            \/ Tied(rows', t, walk.filter) # {}}
    <2>1. more \in SUBSET walk.stayed
        OBVIOUS
    <2>2. walk' = [walk EXCEPT !.stayed = @ \ touched, !.disturbed = @ \union more]
        BY DEF Watch
    <2> QED
        BY <2>1, <2>2
<1> QED
    BY <1>1, <1>2 DEF WalkOK, WalkRec

LEMMA UpdateKeeps ==
    ASSUME IInv, NEW w \in Workers, Update(w)
    PROVE  IInv'
<1> DEFINE s == running[w]
<1>1. /\ s \in StatementRec
      /\ s # NotRunning
      /\ s.kind \in {"status", "ledger ids", "details"}
      /\ s.id \in DOMAIN rows
      /\ s.now <= clock /\ born[s.id] <= s.now
    <2>1. s \in StatementRec \union {NotRunning} /\ s.kind \notin {"none", "create"}
        BY DEF IInv, StatementsOK, Update
    <2>2. s # NotRunning /\ s \in StatementRec
        BY <2>1, NotRunningKind
    <2>3. s.kind \in {"status", "ledger ids", "details"}
        BY <2>1, <2>2, NotRunningKind DEF Kinds
    <2>4. s.id \in DOMAIN rows /\ s.now <= clock /\ born[s.id] <= s.now
        BY <2>1, <2>2 DEF IInv, StatementsOK
    <2> QED
        BY <2>2, <2>3, <2>4
<1>2. /\ s.status \in Statuses /\ s.reason \in Reasons \union {NULL} /\ s.now \in Nat
      /\ s.id \in Transfers
    BY <1>1 DEF StatementRec
<1>3. /\ clock' = clock /\ begun' = begun
      /\ rows' = [rows EXCEPT ![s.id] = Executed(rows[s.id], s)]
      /\ ended' = (IF Ends(s) THEN [ended EXCEPT ![s.id] = s.now] ELSE ended)
      /\ born' = born /\ Watch({s.id}) /\ Done(w)
    BY DEF Update
<1>4. /\ rows \in [DOMAIN rows -> Row]
      /\ born \in [DOMAIN rows -> Nat]
      /\ \A t \in DOMAIN rows : born[t] <= clock
      /\ ended \in [DOMAIN rows -> Nat \union {NoTime}]
      /\ clock \in Nat
      /\ DOMAIN rows \subseteq Transfers
      /\ \A t \in DOMAIN rows : rows[t].updated_at <= clock
    BY DEF IInv, TableOK
<1>5. EndingsAreDated
    BY DEF IInv
<1> DEFINE row == rows[s.id]  new == Executed(row, s)
<1>6. row \in Row
    BY <1>1, <1>4
<1>7. /\ DOMAIN rows' = DOMAIN rows
      /\ rows'[s.id] = new
      /\ \A t \in DOMAIN rows \ {s.id} : rows'[t] = rows[t]
      /\ rows' = [t \in DOMAIN rows |-> rows'[t]]
    BY <1>1, <1>3, <1>4
<1>8. /\ ended' \in [DOMAIN rows -> Nat \union {NoTime}]
      /\ ended'[s.id] = IF Ends(s) THEN s.now ELSE ended[s.id]
      /\ \A t \in DOMAIN rows \ {s.id} : ended'[t] = ended[t]
    BY <1>1, <1>2, <1>3, <1>4
<1>9. StatementsOK' /\ WalkOK'
    BY <1>3, <1>7, DoneKeeps, WatchKeeps
<1>10. CASE s.kind = "status"
    <2>1. new = UpdateTransferStatus(row, s)
        BY <1>10 DEF Executed
    <2>2. /\ new.status = s.status
          /\ new.failure_reason = s.reason
          /\ new.updated_at = s.now
          /\ new.completed_at = IF IsTerminal(s.status) THEN s.now ELSE row.completed_at
          /\ new \in Row
        BY <2>1, <1>2, <1>6 DEF UpdateTransferStatus, Row, IsTerminal
    <2>3. Ends(s) <=> IsTerminal(s.status)
        BY <1>10 DEF Ends
    <2> HIDE DEF s, row, new
    <2>4. row.completed_at = ended[s.id] /\ (ended[s.id] # NoTime => born[s.id] <= ended[s.id])
        BY <1>1, <1>5 DEF EndingsAreDated, row
    <2>5. s.now # NoTime
        BY <1>2 DEF NoTime
    <2>6. TableOK'
        BY <1>1, <1>3, <1>4, <1>7, <1>8, <2>2 DEF TableOK
    <2>7. EndingsAreDated'
        <3> SUFFICES ASSUME NEW t \in DOMAIN rows
                     PROVE  /\ rows'[t].completed_at = ended'[t]
                            /\ IsTerminal(rows'[t].status) => ended'[t] # NoTime
                            /\ ended'[t] # NoTime => born[t] <= ended'[t]
            BY <1>3, <1>7 DEF EndingsAreDated, IsTerminal
        <3>1. CASE t = s.id
            BY <3>1, <1>1, <1>7, <1>8, <2>2, <2>3, <2>4, <2>5
        <3>2. CASE t # s.id
            BY <3>2, <1>5, <1>7, <1>8 DEF EndingsAreDated
        <3> QED
            BY <3>1, <3>2
    <2> QED
        BY <1>9, <2>6, <2>7 DEF IInv
<1>11. CASE s.kind # "status"
    <2>1. new = [row EXCEPT !.updated_at = s.now]
        BY <1>1, <1>11 DEF Executed, UpdateTransferTBTransferIDs, UpdateTransferDetails
    <2>2. /\ new.status = row.status
              /\ new.updated_at = s.now
          /\ new.completed_at = row.completed_at
          /\ new \in Row
        BY <2>1, <1>2, <1>6 DEF Row
    <2>3. ended' = ended
        BY <1>3, <1>11 DEF Ends
    <2> HIDE DEF s, row, new
    <2>4. TableOK'
        BY <1>1, <1>3, <1>4, <1>7, <2>2, <2>3 DEF TableOK
    <2>5. EndingsAreDated'
        <3> SUFFICES ASSUME NEW t \in DOMAIN rows
                     PROVE  /\ rows'[t].completed_at = ended[t]
                            /\ IsTerminal(rows'[t].status) => ended[t] # NoTime
                            /\ ended[t] # NoTime => born[t] <= ended[t]
            BY <1>3, <1>7, <2>3 DEF EndingsAreDated, IsTerminal
        <3>1. CASE t = s.id
            BY <3>1, <1>5, <1>7, <2>2 DEF EndingsAreDated, row
        <3>2. CASE t # s.id
            BY <3>2, <1>5, <1>7 DEF EndingsAreDated
        <3> QED
            BY <3>1, <3>2
    <2> QED
        BY <1>9, <2>4, <2>5 DEF IInv
<1> QED
    BY <1>10, <1>11

LEMMA CreateKeeps ==
    ASSUME IInv, NEW w \in Workers, Create(w)
    PROVE  IInv'
<1> DEFINE s == running[w]
<1>1. s # NotRunning /\ s \in StatementRec /\ s.kind = "create"
    <2>1. s \in StatementRec \union {NotRunning} /\ s.kind = "create"
        BY DEF IInv, StatementsOK, Create
    <2> QED
        BY <2>1, NotRunningKind
<1>2. s.id \in Transfers /\ s.now \in Nat /\ s.now <= clock /\ s.id \notin DOMAIN rows
    BY <1>1 DEF IInv, StatementsOK, StatementRec
<1>3. /\ rows' = [t \in DOMAIN rows \union {s.id} |->
                     IF t = s.id THEN CreateTransfer(s.now) ELSE rows[t]]
      /\ born' = [t \in DOMAIN rows \union {s.id} |-> IF t = s.id THEN s.now ELSE born[t]]
      /\ ended' = [t \in DOMAIN rows \union {s.id} |-> IF t = s.id THEN NoTime ELSE ended[t]]
      /\ clock' = clock /\ begun' = begun
      /\ Watch({s.id}) /\ Done(w)
    BY DEF Create
<1>4. /\ rows \in [DOMAIN rows -> Row]
      /\ born \in [DOMAIN rows -> Nat]
      /\ \A t \in DOMAIN rows : born[t] <= clock
      /\ ended \in [DOMAIN rows -> Nat \union {NoTime}]
      /\ clock \in Nat
      /\ DOMAIN rows \subseteq Transfers
      /\ \A t \in DOMAIN rows : rows[t].updated_at <= clock
    BY DEF IInv, TableOK
<1>5. EndingsAreDated
    BY DEF IInv
<1>6. /\ CreateTransfer(s.now) \in Row
      /\ CreateTransfer(s.now).updated_at = s.now
      /\ CreateTransfer(s.now).status = "created"
      /\ CreateTransfer(s.now).completed_at = NoTime
    BY <1>2, StatusesUsed DEF CreateTransfer, Row
<1>7. ~IsTerminal("created")
    BY DEF IsTerminal
<1> HIDE DEF s
<1>8. /\ DOMAIN rows' = DOMAIN rows \union {s.id}
      /\ rows'[s.id] = CreateTransfer(s.now)
      /\ \A t \in DOMAIN rows : rows'[t] = rows[t]
      /\ born'[s.id] = s.now /\ ended'[s.id] = NoTime
      /\ \A t \in DOMAIN rows : born'[t] = born[t] /\ ended'[t] = ended[t]
    BY <1>2, <1>3
<1>9. TableOK'
    BY <1>2, <1>3, <1>4, <1>6, <1>7, <1>8 DEF TableOK
<1>10. EndingsAreDated'
    <2> SUFFICES ASSUME NEW t \in DOMAIN rows \union {s.id}
                 PROVE  /\ rows'[t].completed_at = ended'[t]
                        /\ IsTerminal(rows'[t].status) => ended'[t] # NoTime
                        /\ ended'[t] # NoTime => born'[t] <= ended'[t]
        BY <1>3, <1>8 DEF EndingsAreDated, IsTerminal
    <2>1. CASE t = s.id
        BY <2>1, <1>6, <1>7, <1>8
    <2>2. CASE t \in DOMAIN rows
        BY <2>2, <1>5, <1>8 DEF EndingsAreDated
    <2> QED
        BY <2>1, <2>2
<1>11. StatementsOK'
    BY <1>1, <1>3, <1>8, DoneKeeps DEF s
<1>12. WalkOK'
    BY <1>3, WatchKeeps
<1> QED
    BY <1>9, <1>10, <1>11, <1>12 DEF IInv

LEMMA FailureKeeps ==
    ASSUME IInv, NEW w \in Workers, StatementFails(w)
    PROVE  IInv'
<1>1. /\ UNCHANGED <<rows, born, ended, clock, begun, walk>>
      /\ Done(w)
    BY DEF StatementFails
<1>2. clock \in Nat /\ clock <= clock' /\ clock' \in Nat
    BY <1>1 DEF IInv, TableOK
<1>3. TableOK' /\ EndingsAreDated'
    BY <1>1, <1>2, SameTable
<1>4. StatementsOK'
    BY <1>1, DoneKeeps
<1>5. WalkOK'
    BY <1>1 DEF IInv, WalkOK
<1> QED
    BY <1>3, <1>4, <1>5 DEF IInv

-----------------------------------------------------------------------------
(* The client.                                                             *)

LEMMA MatchingAreTransfers ==
    ASSUME IInv, NEW filter
    PROVE  /\ Matching(rows, filter) \subseteq Transfers
           /\ IsFiniteSet(Matching(rows, filter))
           /\ Cardinality(Matching(rows, filter)) \in Nat
<1>1. Matching(rows, filter) \subseteq Transfers
    BY DEF IInv, TableOK, Matching
<1>2. IsFiniteSet(Matching(rows, filter))
    BY <1>1, LifecycleAssumption, FS_Subset
<1> QED
    BY <1>1, <1>2, FS_CardinalityType

\* A page holds transfers, whatever the order of the rows.
LEMMA PagesAreTransfers ==
    ASSUME IInv, NEW filter, NEW offset \in Nat, NEW page \in Pages(filter, offset)
    PROVE  page \subseteq Transfers
<1> DEFINE matching == Matching(rows, filter)
           size == Cardinality(matching)
           last == IF offset + PageSize < size THEN offset + PageSize ELSE size
<1>1. PICK s \in [1 .. size -> matching] : page = {s[i] : i \in (offset + 1) .. last}
    BY DEF Pages
<1>2. size \in Nat /\ matching \subseteq Transfers /\ PageSize \in Nat
    BY MatchingAreTransfers, LifecycleAssumption
<1> HIDE DEF matching, size
<1>3. last \in Nat /\ last <= size
    BY <1>2
<1>4. \A i \in (offset + 1) .. last : i \in 1 .. size
    BY <1>2, <1>3
<1> QED
    BY <1>1, <1>2, <1>4

LEMMA ClientKeeps ==
    ASSUME IInv, (\E filter \in Statuses \union {NoFilter} : StartWalk(filter)) \/ NextPage
    PROVE  IInv'
<1>1. UNCHANGED <<rows, clock, running, begun, born, ended>>
    BY DEF StartWalk, NextPage
<1>2. clock \in Nat /\ clock <= clock' /\ clock' \in Nat
    BY <1>1 DEF IInv, TableOK
<1>3. TableOK' /\ EndingsAreDated'
    BY <1>1, <1>2, SameTable
<1>4. StatementsOK'
    BY <1>1 DEF IInv, StatementsOK
<1>5. CASE \E filter \in Statuses \union {NoFilter} : StartWalk(filter)
    <2>1. PICK filter \in Statuses \union {NoFilter} : StartWalk(filter)
        BY <1>5
    <2>2. PICK stayed \in SUBSET Transfers, disturbed \in SUBSET Transfers :
              walk' = [NoWalk EXCEPT !.at = "walking", !.filter = filter,
                                     !.stayed = stayed, !.disturbed = disturbed]
        <3>1. Matching(rows, filter) \subseteq Transfers
            BY MatchingAreTransfers
        <3>2. {t \in Matching(rows, filter) : Tied(rows, t, filter) # {}} \subseteq Transfers
            BY <3>1
        <3> QED
            BY <2>1, <3>1, <3>2 DEF StartWalk
    <2> QED
        BY <2>2, <1>3, <1>4 DEF WalkOK, WalkRec, NoWalk, IInv
<1>6. CASE NextPage
    <2>1. walk \in WalkRec
        BY DEF IInv, WalkOK
    <2>2. PICK page \in Pages(walk.filter, walk.offset) :
              walk' = [walk EXCEPT !.listed = @ \union page, !.offset = @ + PageSize,
                           !.at = IF Cardinality(page) < PageSize THEN "done" ELSE @]
        BY <1>6 DEF NextPage
    <2>3. page \subseteq Transfers
        BY <2>1, PagesAreTransfers DEF WalkRec
    <2>4. PageSize \in Nat
        BY LifecycleAssumption
    <2>5. walk.offset + PageSize \in Nat /\ walk.listed \union page \in SUBSET Transfers
        BY <2>1, <2>3, <2>4 DEF WalkRec
    <2>6. walk' \in WalkRec
        BY <2>1, <2>2, <2>5 DEF WalkRec
    <2> QED
        BY <2>6, <1>3, <1>4 DEF WalkOK, IInv
<1> QED
    BY <1>5, <1>6

-----------------------------------------------------------------------------
LEMMA Invariance == Spec => []IInv
<1>1. IInv /\ [Next]_vars => IInv'
    <2> SUFFICES ASSUME IInv, [Next]_vars PROVE IInv'
        OBVIOUS
    <2>1. CASE \E w \in Workers : Begin(w)
        BY <2>1, BeginKeeps
    <2>2. CASE \E w \in Workers : Update(w)
        BY <2>2, UpdateKeeps
    <2>3. CASE \E w \in Workers : Create(w)
        BY <2>3, CreateKeeps
    <2>4. CASE \E w \in Workers : StatementFails(w)
        BY <2>4, FailureKeeps
    <2>5. CASE (\E filter \in Statuses \union {NoFilter} : StartWalk(filter)) \/ NextPage
        BY <2>5, ClientKeeps
    <2>6. CASE UNCHANGED vars
        <3>1. UNCHANGED <<rows, clock, running, begun, walk, born, ended>>
            BY <2>6 DEF vars
        <3>2. clock \in Nat /\ clock <= clock' /\ clock' \in Nat
            BY <3>1 DEF IInv, TableOK
        <3>3. TableOK' /\ EndingsAreDated'
            BY <3>1, <3>2, SameTable
        <3>4. StatementsOK'
            BY <3>1 DEF IInv, StatementsOK
        <3> QED
            BY <3>1, <3>3, <3>4 DEF IInv, WalkOK
    <2> QED
        BY <2>1, <2>2, <2>3, <2>4, <2>5, <2>6 DEF Next
<1> QED
    BY <1>1, InitIInv, PTL DEF Spec

\* The rows, the statements under way and the walk are of their types.
THEOREM TypeCorrect == Spec => []TypeOK
<1>1. IInv => TypeOK
    <2> SUFFICES ASSUME IInv PROVE TypeOK
        OBVIOUS
    <2>1. /\ DOMAIN rows \subseteq Transfers
          /\ \A t \in DOMAIN rows : rows[t] \in Row /\ rows[t].updated_at <= clock
          /\ clock \in Nat
          /\ DOMAIN born = DOMAIN rows /\ DOMAIN ended = DOMAIN rows
        BY DEF IInv, TableOK
    <2>2. /\ DOMAIN running = Workers
          /\ begun \in 0 .. MaxStatements
          /\ \A w \in Workers :
                 \/ running[w] = NotRunning
                 \/ running[w] \in StatementRec /\ running[w].now <= clock
        BY DEF IInv, StatementsOK
    <2>3. \A w \in Workers :
              \/ running[w] = NotRunning
              \/ running[w].id \in Transfers /\ running[w].now \in 0 .. clock
        BY <2>1, <2>2 DEF StatementRec
    <2>4. /\ walk.filter \in Statuses \union {NoFilter}
          /\ walk.listed \union walk.stayed \union walk.disturbed \subseteq Transfers
        BY DEF IInv, WalkOK, WalkRec
    <2> QED
        BY <2>1, <2>2, <2>3, <2>4 DEF TypeOK
<1> QED
    BY <1>1, Invariance, PTL

\* Whatever the order in which statements begin and are executed, completed_at
\* is the time of the last statement that gave the row a final status, and it is
\* NULL if there was none; Go and SQL agree on what is final, and no ending is
\* dated before the creation.  Nothing is said of a row that left a final status
\* but that it keeps the date: UpdateTransferStatus lets it leave.
THEOREM EndingsAreAlwaysDated == Spec => []EndingsAreDated
<1>1. IInv => EndingsAreDated
    BY DEF IInv
<1> QED
    BY <1>1, Invariance, PTL

-----------------------------------------------------------------------------
(* The walk.                                                               *)

\* A list of n members of M without repetitions.
IsList(s, n, M) ==
    /\ s \in [1 .. n -> M]
    /\ \A i, j \in 1 .. n : i < j => s[i] # s[j]

\* What a list holds between two indices.
Between(s, a, b) == {s[i] : i \in a .. b}

\* A list without repetitions has as many elements as indices.
LEMMA ListedOnce ==
    ASSUME NEW s, NEW N \in Nat, NEW M, IsList(s, N, M),
           NEW a \in Nat, NEW b \in Nat, 1 <= a, b <= N
    PROVE  /\ IsFiniteSet(Between(s, a, b))
           /\ Cardinality(Between(s, a, b)) = IF a > b THEN 0 ELSE b - a + 1
<1> DEFINE I == a .. b
           T == {s[i] : i \in I}
           f == [i \in I |-> s[i]]
<1>1. IsFiniteSet(I) /\ Cardinality(I) = IF a > b THEN 0 ELSE b - a + 1
    BY FS_Interval
<1>2. I \subseteq 1 .. N
    OBVIOUS
<1>3. \A i, j \in I : s[i] = s[j] => i = j
    BY <1>2 DEF IsList
<1>4. f \in Bijection(I, T)
    <2> HIDE DEF I
    <2>1. f \in [I -> T]
        OBVIOUS
    <2>2. IsInjective(f)
        BY <1>3 DEF IsInjective
    <2>3. \A t \in T : \E i \in I : f[i] = t
        OBVIOUS
    <2> QED
        BY <2>1, <2>2, <2>3 DEF Bijection, Injection, Surjection
<1> HIDE DEF I, T, f
<1>5. IsFiniteSet(T) /\ Cardinality(T) = Cardinality(I)
    BY <1>1, <1>4, FS_Bijection DEF ExistsBijection
<1> QED
    BY <1>1, <1>5 DEF I, T, Between

\* An order that a page is cut from lists every matching row, and the rows
\* listed before t are those ahead of it, if none is tied with it.
IsOrder(s, filter) ==
    LET matching == Matching(rows, filter) IN
    /\ s \in [1 .. Cardinality(matching) -> matching]
    /\ \A i, j \in 1 .. Cardinality(matching) : i < j => s[i] # s[j] /\ Precedes(s[i], s[j])

LEMMA PlaceInOrder ==
    ASSUME IInv, NEW filter, NEW s, IsOrder(s, filter),
           NEW t \in Matching(rows, filter), Tied(rows, t, filter) = {}
    PROVE  \E p \in 1 .. Cardinality(Matching(rows, filter)) :
               s[p] = t /\ Cardinality(Ahead(rows, t, filter)) = p - 1
<1> DEFINE M == Matching(rows, filter)
           N == Cardinality(M)
<1>1. IsFiniteSet(M) /\ N \in Nat
    BY MatchingAreTransfers
<1>2. /\ s \in [1 .. N -> M]
      /\ \A i, j \in 1 .. N : i < j => s[i] # s[j]
      /\ \A i, j \in 1 .. N : i < j => rows[s[i]].updated_at >= rows[s[j]].updated_at
    BY DEF IsOrder, Precedes
<1>3. IsList(s, N, M) /\ \A u \in M : rows[u].updated_at \in Nat
    BY <1>2 DEF IsList, IInv, TableOK, Row, Matching
<1>4. /\ Ahead(rows, t, filter) = {u \in M : rows[u].updated_at > rows[t].updated_at}
      /\ \A u \in M : u # t => rows[u].updated_at # rows[t].updated_at
      /\ t \in M
    BY DEF Ahead, Tied
<1> HIDE DEF M, N
<1>5. Between(s, 1, N) = M
    <2> DEFINE T == Between(s, 1, N)
    <2>1. T \in SUBSET M
        BY <1>2 DEF Between
    <2>2. Cardinality(T) = IF 1 > N THEN 0 ELSE N - 1 + 1
        BY <1>1, <1>3, ListedOnce
    <2>3. Cardinality(T) = N
        BY <1>1, <2>2
    <2> HIDE DEF T
    <2>4. T = M
        BY <1>1, <2>1, <2>3, FS_Subset DEF N
    <2> QED
        BY <2>4 DEF T
<1>6. PICK p \in 1 .. N : s[p] = t
    BY <1>4, <1>5 DEF Between
<1>7. p - 1 \in Nat /\ p \in Nat /\ p - 1 <= N
    BY <1>1, <1>6
<1>8. Ahead(rows, t, filter) = Between(s, 1, p - 1)
    <2>1. ASSUME NEW u \in M, rows[u].updated_at > rows[t].updated_at
          PROVE  \E i \in 1 .. p - 1 : s[i] = u
        <3>1. PICK i \in 1 .. N : s[i] = u
            BY <1>5 DEF Between
        <3>2. ~(p < i)
            BY <1>2, <1>3, <1>4, <1>6, <2>1, <3>1
        <3>3. p # i
            BY <1>3, <1>4, <1>6, <2>1, <3>1
        <3>4. i \in 1 .. p - 1
            BY <1>1, <1>6, <3>1, <3>2, <3>3
        <3> QED
            BY <3>1, <3>4
    <2>2. ASSUME NEW i \in 1 .. p - 1
          PROVE  s[i] \in M /\ rows[s[i]].updated_at > rows[t].updated_at
        <3>1. i \in 1 .. N /\ i < p
            BY <1>1, <1>6
        <3>2. s[i] \in M /\ s[i] # t /\ rows[s[i]].updated_at >= rows[t].updated_at
            BY <1>2, <1>6, <3>1
        <3> QED
            BY <1>3, <1>4, <3>2
    <2> QED
        BY <1>4, <2>1, <2>2 DEF Between
<1>9. Cardinality(Between(s, 1, p - 1)) = p - 1
    <2> DEFINE q == p - 1
    <2>1. q \in Nat /\ q <= N
        BY <1>7
    <2> HIDE DEF q
    <2>2. Cardinality(Between(s, 1, q)) = IF 1 > q THEN 0 ELSE q - 1 + 1
        BY <1>1, <1>3, <2>1, ListedOnce
    <2>3. Cardinality(Between(s, 1, q)) = q
        BY <2>1, <2>2
    <2> QED
        BY <2>3 DEF q
<1>10. Cardinality(Ahead(rows, t, filter)) = p - 1
    BY <1>7, <1>8, <1>9
<1> QED
    BY <1>6, <1>10 DEF M, N

\* A page lists a row whose place is within it, and is full if rows remain.
LEMMA PageLists ==
    ASSUME IInv, NEW filter, NEW offset \in Nat, NEW page \in Pages(filter, offset),
           NEW t \in Matching(rows, filter), Tied(rows, t, filter) = {},
           Cardinality(Ahead(rows, t, filter)) >= offset, t \notin page
    PROVE  /\ Cardinality(Ahead(rows, t, filter)) >= offset + PageSize
           /\ Cardinality(page) = PageSize
<1> DEFINE M == Matching(rows, filter)
           N == Cardinality(M)
           last == IF offset + PageSize < N THEN offset + PageSize ELSE N
<1>1. PICK s : IsOrder(s, filter) /\ page = Between(s, offset + 1, last)
    BY DEF Pages, IsOrder, Between
<1>2. PICK p \in 1 .. N : s[p] = t /\ Cardinality(Ahead(rows, t, filter)) = p - 1
    BY <1>1, PlaceInOrder
<1>3. N \in Nat /\ PageSize \in Nat /\ PageSize > 0
    BY MatchingAreTransfers, LifecycleAssumption
<1>4. IsList(s, N, M)
    BY <1>1 DEF IsOrder, IsList
<1> HIDE DEF M, N
<1>5. p \notin (offset + 1) .. last
    BY <1>1, <1>2 DEF Between
<1>6. p \in Nat /\ p <= N /\ p - 1 >= offset
    BY <1>2, <1>3
<1>7. offset + PageSize < N /\ last = offset + PageSize /\ p - 1 >= offset + PageSize
    BY <1>3, <1>5, <1>6
<1> HIDE DEF last
<1>8. Cardinality(Between(s, offset + 1, last))
          = IF offset + 1 > last THEN 0 ELSE last - (offset + 1) + 1
    <2> DEFINE first == offset + 1
    <2>1. first \in Nat /\ last \in Nat /\ 1 <= first /\ last <= N
        BY <1>3, <1>7
    <2> HIDE DEF last, first
    <2>2. Cardinality(Between(s, first, last)) = IF first > last THEN 0 ELSE last - first + 1
        BY <1>3, <1>4, <2>1, ListedOnce
    <2> QED
        BY <2>2 DEF first
<1> QED
    BY <1>1, <1>2, <1>3, <1>7, <1>8

\* A transfer that stayed undisturbed and is not listed yet has at least as
\* many rows ahead of it as the client has asked to skip.
WalkSound ==
    LET seen == walk.stayed \ walk.disturbed IN
    /\ walk.stayed \subseteq Matching(rows, walk.filter)
    /\ \A t \in seen : Tied(rows, t, walk.filter) = {}
    /\ walk.at = "walking" =>
           \A t \in seen \ walk.listed :
               Cardinality(Ahead(rows, t, walk.filter)) >= walk.offset
    /\ walk.at = "done" => seen \subseteq walk.listed
    /\ walk.at = "none" => seen = {}

\* A row is executed on: who stayed has no fewer rows ahead of it than before.
LEMMA WatchIsSound ==
    ASSUME IInv, IInv', WalkSound, NEW x, Watch({x}),
           \A t \in DOMAIN rows \ {x} : t \in DOMAIN rows' /\ rows'[t] = rows[t]
    PROVE  WalkSound'
<1> DEFINE f == walk.filter
           left == {t \in walk.stayed \ {x} :
               \/ ~(Ahead(rows, t, f) \subseteq Ahead(rows', t, f))
               \/ Tied(rows', t, f) # {}}
<1>1. walk \in WalkRec
    BY DEF IInv, WalkOK
<1>2. /\ walk'.filter = f /\ walk'.at = walk.at /\ walk'.offset = walk.offset
      /\ walk'.listed = walk.listed
      /\ walk'.stayed = walk.stayed \ {x}
      /\ walk'.disturbed = walk.disturbed \union left
    BY <1>1 DEF Watch, WalkRec
<1>3. ASSUME NEW t \in walk'.stayed
      PROVE  t \in Matching(rows', f)
    <2>1. t \in Matching(rows, f) /\ t # x
        BY <1>2 DEF WalkSound
    <2> QED
        BY <2>1 DEF Matching, Matches
<1>4. ASSUME NEW t \in walk'.stayed \ walk'.disturbed
      PROVE  /\ t \in walk.stayed \ walk.disturbed
             /\ Tied(rows', t, f) = {}
             /\ Ahead(rows, t, f) \subseteq Ahead(rows', t, f)
    BY <1>2
<1>5. ASSUME NEW t \in walk'.stayed \ walk'.disturbed
      PROVE  Cardinality(Ahead(rows, t, f)) <= Cardinality(Ahead(rows', t, f))
    <2>1. Ahead(rows', t, f) \subseteq Transfers
        BY DEF IInv, TableOK, Ahead, Matching
    <2>2. IsFiniteSet(Ahead(rows', t, f))
        BY <2>1, LifecycleAssumption, FS_Subset
    <2> QED
        BY <1>4, <2>2, FS_Subset
<1>6. ASSUME NEW t \in walk'.stayed \ walk'.disturbed
      PROVE  /\ Cardinality(Ahead(rows, t, f)) \in Nat
             /\ Cardinality(Ahead(rows', t, f)) \in Nat
    <2>1. Ahead(rows', t, f) \subseteq Transfers /\ Ahead(rows, t, f) \subseteq Transfers
        BY DEF IInv, TableOK, Ahead, Matching
    <2>2. IsFiniteSet(Ahead(rows', t, f)) /\ IsFiniteSet(Ahead(rows, t, f))
        BY <2>1, LifecycleAssumption, FS_Subset
    <2> QED
        BY <2>2, FS_CardinalityType
<1>7. walk.offset \in Nat
    BY <1>1 DEF WalkRec
<1> DEFINE A(t) == Cardinality(Ahead(rows, t, f))
           B(t) == Cardinality(Ahead(rows', t, f))
           seen == walk.stayed \ walk.disturbed
           seen1 == walk'.stayed \ walk'.disturbed
<1>8. /\ \A t \in seen1 : t \in seen /\ A(t) <= B(t) /\ A(t) \in Nat /\ B(t) \in Nat
      /\ walk.at = "walking" => \A t \in seen \ walk.listed : A(t) >= walk.offset
    BY <1>4, <1>5, <1>6 DEF WalkSound
<1>9. walk.at = "walking" => \A t \in seen1 \ walk.listed : B(t) >= walk.offset
    <2> HIDE DEF A, B, seen, seen1
    <2> QED
        BY <1>7, <1>8
<1>10. /\ walk.at = "done" => seen1 \subseteq walk.listed
       /\ walk.at = "none" => seen1 = {}
    BY <1>4 DEF WalkSound
<1> QED
    BY <1>2, <1>3, <1>4, <1>9, <1>10 DEF WalkSound

LEMMA WalkSoundKept ==
    ASSUME IInv, IInv', WalkSound, [Next]_vars
    PROVE  WalkSound'
<1>1. walk \in WalkRec
    BY DEF IInv, WalkOK
<1>2. CASE UNCHANGED <<rows, walk>>
    BY <1>2 DEF WalkSound, Matching, Matches, Tied, Ahead
<1>3. ASSUME NEW w \in Workers, Update(w) PROVE WalkSound'
    <2>1. Watch({running[w].id})
        BY <1>3 DEF Update
    <2>2. DOMAIN rows' = DOMAIN rows
          /\ \A t \in DOMAIN rows \ {running[w].id} : rows'[t] = rows[t]
        BY <1>3 DEF Update
    <2> QED
        BY <2>1, <2>2, WatchIsSound
<1>4. ASSUME NEW w \in Workers, Create(w) PROVE WalkSound'
    <2>1. Watch({running[w].id})
        BY <1>4 DEF Create
    <2>2. \A t \in DOMAIN rows \ {running[w].id} : t \in DOMAIN rows' /\ rows'[t] = rows[t]
        BY <1>4 DEF Create
    <2> QED
        BY <2>1, <2>2, WatchIsSound
<1>5. ASSUME NEW filter \in Statuses \union {NoFilter}, StartWalk(filter) PROVE WalkSound'
    <2> DEFINE M == Matching(rows, filter)
               ties == {t \in M : Tied(rows, t, filter) # {}}
    <2>1. /\ walk'.at = "walking" /\ walk'.filter = filter /\ walk'.offset = 0
          /\ walk'.stayed = M /\ walk'.disturbed = ties
          /\ rows' = rows
        BY <1>5 DEF StartWalk, NoWalk
    <2>2. \A t \in M : Cardinality(Ahead(rows, t, filter)) >= 0
        <3>1. \A t \in M : Ahead(rows, t, filter) \subseteq M
            BY DEF Ahead
        <3> QED
            BY <3>1, MatchingAreTransfers, FS_Subset, FS_CardinalityType
    <2> QED
        BY <2>1, <2>2 DEF WalkSound
<1>6. ASSUME NextPage PROVE WalkSound'
    <2> DEFINE f == walk.filter
               seen == walk.stayed \ walk.disturbed
               A(t) == Cardinality(Ahead(rows, t, f))
    <2>1. PICK page \in Pages(f, walk.offset) :
              walk' = [walk EXCEPT
                  !.listed = @ \union page,
                  !.offset = @ + PageSize,
                  !.at = IF Cardinality(page) < PageSize THEN "done" ELSE @]
        BY <1>6 DEF NextPage
    <2>2. /\ walk'.filter = f /\ walk'.stayed = walk.stayed /\ walk'.disturbed = walk.disturbed
          /\ walk'.listed = walk.listed \union page
          /\ walk'.offset = walk.offset + PageSize
          /\ walk'.at = IF Cardinality(page) < PageSize THEN "done" ELSE walk.at
          /\ walk.at = "walking" /\ rows' = rows
        BY <1>1, <1>6, <2>1 DEF NextPage, WalkRec
    <2>3. walk.offset \in Nat /\ PageSize \in Nat
        BY <1>1, LifecycleAssumption DEF WalkRec
    <2>4. \A t \in seen : t \in Matching(rows, f) /\ Tied(rows, t, f) = {}
        BY DEF WalkSound
    <2>5. \A t \in seen \ walk.listed : A(t) >= walk.offset
        BY <2>2 DEF WalkSound
    <2>6. ASSUME NEW t \in seen \ walk'.listed
          PROVE  A(t) >= walk.offset + PageSize /\ Cardinality(page) = PageSize
        <3>1. /\ t \in Matching(rows, f) /\ Tied(rows, t, f) = {}
              /\ Cardinality(Ahead(rows, t, f)) >= walk.offset /\ t \notin page
            BY <2>2, <2>4, <2>5
        <3> QED
            BY <2>1, <2>3, <3>1, PageLists
    <2>7. walk'.at = "walking" => \A t \in seen \ walk'.listed : A(t) >= walk'.offset
        BY <2>2, <2>6
    <2>8. walk'.at = "done" => seen \subseteq walk'.listed
        <3>1. walk'.at = "done" => Cardinality(page) < PageSize
            BY <2>2
        <3>2. Cardinality(page) = PageSize => ~(Cardinality(page) < PageSize)
            BY <2>3
        <3> QED
            BY <2>6, <3>1, <3>2
    <2>9. walk'.at # "none"
        BY <2>2
    <2>10. walk.stayed \subseteq Matching(rows, f)
        BY DEF WalkSound
    <2> QED
        BY <2>2, <2>4, <2>7, <2>8, <2>9, <2>10 DEF WalkSound
<1>7. ASSUME NEW w \in Workers, Begin(w) \/ StatementFails(w) PROVE UNCHANGED <<rows, walk>>
    BY <1>7 DEF Begin, StatementFails
<1> QED
    BY <1>2, <1>3, <1>4, <1>5, <1>6, <1>7 DEF Next, vars

\* A client that walks the pages (ListTransfersByTenant, newest update first,
\* by LIMIT and OFFSET) to the end has seen every transfer that was there from
\* the start, stayed as it was, and lost nobody that was ahead of it.
THEOREM WalksAreComplete == Spec => []WalkIsComplete
<1>1. Init => WalkSound
    BY DEF Init, WalkSound, NoWalk
<1>2. IInv /\ IInv' /\ WalkSound /\ [Next]_vars => WalkSound'
    BY WalkSoundKept
<1>3. WalkSound => WalkIsComplete
    BY DEF WalkSound, WalkIsComplete
<1> QED
    BY <1>1, <1>2, <1>3, Invariance, PTL DEF Spec

=============================================================================
