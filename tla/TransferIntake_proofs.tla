------------------------ MODULE TransferIntake_proofs ------------------------
(***************************************************************************)
(* Proofs about TransferIntake, for any number of requests in flight, any  *)
(* bodies, any failures and any delay of an INSERT that outlives its       *)
(* request.  That a key makes one transfer is proved for bodies that keep  *)
(* a key within one region, where the unique constraint is enough; without *)
(* that it is false, and the check alone does not save it.                 *)
(***************************************************************************)
EXTENDS TransferIntake, TLAPS

\* The bodies that share a key of a tenant have corridors of one region.
OneRegion ==
    \A b, c \in Bodies :
        b.tenant = c.tenant /\ b.key = c.key => Region(b) = Region(c)

\* A request past validation has a body, an INSERT left behind included, it is
\* checked only for a key, and until it is done it has no answer.
InFlightHasBody ==
    \A r \in Requests :
        /\ pc[r] \in {"check", "insert"} \/ r \in late => body[r] \in Bodies
        /\ pc[r] = "check" => body[r].key # NoKey
        /\ pc[r] # "done" => reply[r] = NoReply

\* Every transfer is the row of a request that is done with its INSERT too.
RowsAreRequests ==
    \A t \in transfers :
        /\ t.id \in Requests
        /\ pc[t.id] = "done" /\ t.id \notin late
        /\ body[t.id] \in Bodies
        /\ body[t.id].form = "ok"
        /\ t = Row(t.id)

\* An answer names a transfer of the tenant and the key that asked for it.
AnswersAreMade ==
    \A r \in Requests :
        Answered(r) =>
            \E t \in transfers :
                /\ t.id = reply[r].id
                /\ t.tenant_id = body[r].tenant
                /\ t.idempotency_key = body[r].key

\* What holds whatever the regions: a transfer stays the row of its request,
\* so one that answered a key goes on answering it.
Base ==
    /\ TypeOK
    /\ InFlightHasBody
    /\ RowsAreRequests
    /\ AnswersAreMade

-----------------------------------------------------------------------------
LEMMA RowFields ==
    ASSUME NEW r
    PROVE  /\ Row(r).id = r
           /\ Row(r).tenant_id = body[r].tenant
           /\ Row(r).idempotency_key = body[r].key
           /\ Row(r).payload = body[r]
           /\ Row(r).compliance_region = Region(body[r])
BY DEF Row

LEMMA RegionType == ASSUME NEW b PROVE Region(b) \in Regions
BY DEF Region, compute_compliance_region, Regions

LEMMA InitBase == Init => Base
<1> SUFFICES ASSUME Init PROVE Base  OBVIOUS
<1>1. TypeOK
  <2>1. 0 \in 0 .. MaxFaults  BY BoundsAssumption
  <2>2. NoReply \in [code : {0, 200, 201, 400, 500}, id : Requests \union {"none"}]
    BY DEF NoReply
  <2> QED  BY <2>1, <2>2 DEF Init, TypeOK
<1>2. InFlightHasBody  BY DEF Init, InFlightHasBody
<1>3. RowsAreRequests  BY DEF Init, RowsAreRequests
<1>4. AnswersAreMade  BY DEF Init, AnswersAreMade, Answered, NoReply
<1> QED  BY <1>1, <1>2, <1>3, <1>4 DEF Base

\* A row depends on the body of its request only, which is set once.
LEMMA RowsStay ==
    ASSUME Base, transfers' = transfers,
           \A r \in Requests : pc[r] = "done" => pc'[r] = "done" /\ body'[r] = body[r],
           \A r \in late' : r \in late \/ pc[r] # "done"
    PROVE  RowsAreRequests'
<1> SUFFICES ASSUME NEW t \in transfers
             PROVE  /\ t.id \in Requests /\ pc'[t.id] = "done" /\ t.id \notin late'
                    /\ body'[t.id] \in Bodies /\ body'[t.id].form = "ok"
                    /\ t = Row(t.id)'
  BY DEF RowsAreRequests
<1>1. t.id \in Requests /\ pc[t.id] = "done" /\ t.id \notin late /\ t = Row(t.id)
      /\ body[t.id] \in Bodies /\ body[t.id].form = "ok"
  BY DEF Base, RowsAreRequests
<1>2. pc'[t.id] = "done" /\ body'[t.id] = body[t.id] /\ t.id \notin late'  BY <1>1
<1> QED  BY <1>1, <1>2 DEF Row

LEMMA ReceiveBase ==
    ASSUME Base, NEW r \in Requests, NEW b \in Bodies, Receive(r, b)
    PROVE  Base'
<1> USE DEF Receive, Goto, Answer
<1>1. TypeOK'  BY DEF Base, TypeOK
<1>2. InFlightHasBody'  BY DEF Base, TypeOK, InFlightHasBody
<1>3. RowsAreRequests'
  <2>1. \A q \in Requests : pc[q] = "done" => pc'[q] = "done" /\ body'[q] = body[q]
    BY DEF Base, TypeOK
  <2> QED  BY <2>1, RowsStay
<1>4. AnswersAreMade'
  <2> SUFFICES ASSUME NEW q \in Requests, Answered(q)'
               PROVE  \E t \in transfers : /\ t.id = reply'[q].id
                                           /\ t.tenant_id = body'[q].tenant
                                           /\ t.idempotency_key = body'[q].key
    BY DEF AnswersAreMade
  <2>1. reply[r] = NoReply  BY DEF Base, InFlightHasBody
  <2>2. q # r  BY <2>1 DEF Base, TypeOK, Answered, NoReply
  <2>3. reply'[q] = reply[q] /\ body'[q] = body[q]  BY <2>2 DEF Base, TypeOK
  <2> QED  BY <2>3 DEF Base, AnswersAreMade, Answered
<1> QED  BY <1>1, <1>2, <1>3, <1>4 DEF Base

-----------------------------------------------------------------------------
\* A request in flight gets no transfer and an answer that names none.
LEMMA RefusedBase ==
    ASSUME Base, NEW r \in Requests, pc[r] \in {"check", "insert"},
           Answer(r, 500, "none"), UNCHANGED <<transfers, body>>,
           late' \in {late, late \union {r}}, faults' \in 0 .. MaxFaults
    PROVE  Base'
<1> USE DEF Answer, Goto
<1>1. TypeOK'  BY DEF Base, TypeOK
<1>2. InFlightHasBody'  BY DEF Base, TypeOK, InFlightHasBody
<1>3. RowsAreRequests'
  <2>1. \A q \in Requests : pc[q] = "done" => pc'[q] = "done" /\ body'[q] = body[q]
    BY DEF Base, TypeOK
  <2> QED  BY <2>1, RowsStay
<1>4. AnswersAreMade'
  <2> SUFFICES ASSUME NEW q \in Requests, Answered(q)'
               PROVE  \E t \in transfers : /\ t.id = reply'[q].id
                                           /\ t.tenant_id = body'[q].tenant
                                           /\ t.idempotency_key = body'[q].key
    BY DEF AnswersAreMade
  <2>1. q # r  BY DEF Base, TypeOK, Answered
  <2>2. reply'[q] = reply[q] /\ body'[q] = body[q]  BY <2>1 DEF Base, TypeOK
  <2> QED  BY <2>2 DEF Base, AnswersAreMade, Answered
<1> QED  BY <1>1, <1>2, <1>3, <1>4 DEF Base

LEMMA CheckIdempotencyBase ==
    ASSUME Base, NEW r \in Requests, CheckIdempotency(r)
    PROVE  Base'
<1> USE DEF CheckIdempotency, Goto, Answer
<1>1. TypeOK'
  <2>1. \A t \in UnderKey(body[r]) : t.id \in Requests  BY DEF Base, TypeOK, UnderKey
  <2> QED  BY <2>1 DEF Base, TypeOK
<1>2. InFlightHasBody'  BY DEF Base, TypeOK, InFlightHasBody
<1>3. RowsAreRequests'
  <2>1. \A q \in Requests : pc[q] = "done" => pc'[q] = "done" /\ body'[q] = body[q]
    BY DEF Base, TypeOK
  <2> QED  BY <2>1, RowsStay
<1>4. AnswersAreMade'
  <2> SUFFICES ASSUME NEW q \in Requests, Answered(q)'
               PROVE  \E t \in transfers : /\ t.id = reply'[q].id
                                           /\ t.tenant_id = body[q].tenant
                                           /\ t.idempotency_key = body[q].key
    BY DEF AnswersAreMade
  <2>1. CASE q # r \/ UNCHANGED reply
    <3>1. reply'[q] = reply[q]  BY <2>1 DEF Base, TypeOK
    <3> QED  BY <3>1 DEF Base, AnswersAreMade, Answered
  <2>2. CASE q = r /\ reply' # reply
    <3>1. PICK t \in UnderKey(body[r]) : Answer(r, 200, t.id)  BY <2>2
    <3>2. reply'[q].id = t.id  BY <2>2, <3>1 DEF Base, TypeOK
    <3> QED  BY <2>2, <3>2 DEF UnderKey
  <2> QED  BY <2>1, <2>2
<1> QED  BY <1>1, <1>2, <1>3, <1>4 DEF Base

\* The row of a request that has none is committed, for its handler or late.
Commits(r) ==
    /\ body[r] \in Bodies
    /\ InsertAccepted(Row(r))
    /\ \A t \in transfers : t.id # r
    /\ transfers' = transfers \union {Row(r)}
    /\ body' = body
    /\ \/ pc[r] = "insert" /\ Answer(r, 201, r) /\ late' = late
       \/ r \in late /\ UNCHANGED <<pc, reply>> /\ late' = late \ {r}

LEMMA CommittedBase ==
    ASSUME Base, NEW r \in Requests, Commits(r), faults' \in 0 .. MaxFaults
    PROVE  Base'
<1> USE DEF Answer, Goto
<1>b. body[r] \in Bodies /\ body[r].form = "ok"
  BY RowFields DEF Commits, InsertAccepted
<1>r. ASSUME NEW q PROVE Row(q)' = Row(q)  BY DEF Row, Commits
<1>d. /\ \A q \in Requests \ {r} : pc'[q] = pc[q] /\ reply'[q] = reply[q]
      /\ pc'[r] = "done" /\ r \notin late' /\ late' \subseteq late
      /\ (Answered(r)' => Answered(r) \/ reply'[r].id = r)
      /\ (Answered(r) => reply'[r] = reply[r])
  <2>1. pc[r] = "insert" => ~Answered(r) /\ r \notin late
    BY DEF Base, TypeOK, InFlightHasBody, Answered, NoReply
  <2> QED  BY <2>1 DEF Base, TypeOK, Commits, Answered
<1>1. TypeOK'
  <2>1. \A t \in transfers' :
            t.id \in Requests /\ t.payload \in {b \in Bodies : b.form = "ok"}
            /\ t.compliance_region \in Regions
    BY <1>b, RowFields, RegionType DEF Base, TypeOK, Commits
  <2>2. /\ pc' \in [Requests -> {"new", "check", "insert", "done"}]
        /\ body' \in [Requests -> Bodies \union {NoBody}]
        /\ reply' \in [Requests -> [code : {0, 200, 201, 400, 500}, id : Requests \union {"none"}]]
    BY DEF Base, TypeOK, Commits
  <2>3. late' \subseteq {q \in Requests : pc'[q] = "done"}  BY <1>d DEF Base, TypeOK
  <2> QED  BY <2>1, <2>2, <2>3 DEF TypeOK
<1>2. InFlightHasBody'  BY <1>d DEF Base, TypeOK, InFlightHasBody, Commits
<1>3. RowsAreRequests'
  <2> SUFFICES ASSUME NEW t \in transfers'
               PROVE  /\ t.id \in Requests /\ pc'[t.id] = "done" /\ t.id \notin late'
                      /\ body[t.id] \in Bodies /\ body[t.id].form = "ok"
                      /\ t = Row(t.id)
    BY <1>r DEF RowsAreRequests, Commits
  <2>1. CASE t \in transfers
    <3>1. t.id # r  BY <2>1 DEF Commits
    <3> QED  BY <1>d, <2>1, <3>1 DEF Base, RowsAreRequests
  <2>2. CASE t = Row(r)  BY <2>2, <1>b, <1>d, RowFields
  <2> QED  BY <2>1, <2>2 DEF Commits
<1>4. AnswersAreMade'
  <2> SUFFICES ASSUME NEW q \in Requests, Answered(q)'
               PROVE  \E t \in transfers' : /\ t.id = reply'[q].id
                                            /\ t.tenant_id = body[q].tenant
                                            /\ t.idempotency_key = body[q].key
    BY DEF AnswersAreMade, Commits
  <2>1. CASE Answered(q) /\ reply'[q] = reply[q]
    <3>1. \E t \in transfers : /\ t.id = reply[q].id
                               /\ t.tenant_id = body[q].tenant
                               /\ t.idempotency_key = body[q].key
      BY <2>1 DEF Base, AnswersAreMade
    <3> QED  BY <2>1, <3>1 DEF Commits
  <2>2. CASE ~(Answered(q) /\ reply'[q] = reply[q])
    <3>1. q = r /\ reply'[q].id = r  BY <1>d, <2>2 DEF Answered
    <3>2. Row(r) \in transfers'  BY DEF Commits
    <3> QED  BY <3>1, <3>2, RowFields
  <2> QED  BY <2>1, <2>2
<1> QED  BY <1>1, <1>2, <1>3, <1>4 DEF Base

LEMMA FaultType == ASSUME Base, Fault PROVE faults' \in 0 .. MaxFaults
BY BoundsAssumption DEF Base, TypeOK, Fault

LEMMA CrashBase == ASSUME Base, Crash PROVE Base'
<1>0. /\ \A q \in Requests : pc[q] = "done" => pc'[q] = "done" /\ body'[q] = body[q]
      /\ \A q \in late' : q \in late \/ (q \in Requests /\ pc[q] = "insert" /\ pc'[q] = "done")
      /\ UNCHANGED <<transfers, body, reply>>
  BY DEF Crash, InFlight
<1>1. TypeOK'
  <2>1. late' \subseteq {q \in Requests : pc'[q] = "done"}  BY <1>0 DEF Base, TypeOK
  <2>2. pc' \in [Requests -> {"new", "check", "insert", "done"}]
    BY DEF Base, TypeOK, Crash
  <2> QED  BY <1>0, <2>1, <2>2, FaultType DEF Base, TypeOK, Crash
<1>2. InFlightHasBody'
  <2>1. \A q \in Requests : pc'[q] # "done" => pc'[q] = pc[q]
    BY DEF Crash, Base, TypeOK
  <2>2. \A q \in Requests : pc'[q] \in {"check", "insert"} => pc'[q] # "done"  OBVIOUS
  <2> QED  BY <1>0, <2>1, <2>2 DEF Base, InFlightHasBody
<1>3. RowsAreRequests'  BY <1>0, RowsStay
<1>4. AnswersAreMade'  BY <1>0 DEF Base, AnswersAreMade, Answered
<1> QED  BY <1>1, <1>2, <1>3, <1>4 DEF Base

\* What a late INSERT does when it is refused: nothing but being over.
LEMMA LateRefusedBase ==
    ASSUME Base, NEW r \in late, LateCommit(r), ~InsertAccepted(Row(r))
    PROVE  Base'
<1>0. late' \subseteq late /\ UNCHANGED <<transfers, pc, body, reply, faults>>
  BY DEF LateCommit
<1>1. TypeOK'  BY <1>0 DEF Base, TypeOK
<1>2. InFlightHasBody'  BY <1>0 DEF Base, InFlightHasBody
<1>3. RowsAreRequests'  BY <1>0, RowsStay
<1>4. AnswersAreMade'  BY <1>0 DEF Base, AnswersAreMade, Answered
<1> QED  BY <1>1, <1>2, <1>3, <1>4 DEF Base

\* The ways in which a statement of a request can end.
LEMMA InsertOutcome ==
    ASSUME Base, NEW r \in Requests, InsertTransfer(r) \/ InsertFails(r) \/ CheckFails(r)
    PROVE  /\ faults' \in 0 .. MaxFaults
           /\ \/ /\ pc[r] \in {"check", "insert"} /\ Answer(r, 500, "none")
                 /\ UNCHANGED <<transfers, body>> /\ late' \in {late, late \union {r}}
              \/ Commits(r)
<1>1. CASE InsertTransfer(r)
  <2>1. \A t \in transfers : t.id # r  BY <1>1 DEF InsertTransfer, Base, RowsAreRequests
  <2>2. body[r] \in Bodies  BY <1>1 DEF InsertTransfer, Base, InFlightHasBody
  <2> QED  BY <1>1, <2>1, <2>2 DEF InsertTransfer, Commits, Base, TypeOK
<1>2. CASE InsertFails(r)  BY <1>2, FaultType DEF InsertFails
<1>3. CASE CheckFails(r)  BY <1>3, FaultType DEF CheckFails
<1> QED  BY <1>1, <1>2, <1>3

LEMMA LateOutcome ==
    ASSUME Base, NEW r \in late, LateCommit(r), InsertAccepted(Row(r))
    PROVE  r \in Requests /\ Commits(r)
<1>1. r \in Requests  BY DEF Base, TypeOK
<1>2. \A t \in transfers : t.id # r  BY DEF Base, RowsAreRequests
<1>3. body[r] \in Bodies  BY <1>1 DEF Base, InFlightHasBody
<1> QED  BY <1>1, <1>2, <1>3 DEF LateCommit, Commits

LEMMA NextBase == Base /\ [Next]_vars => Base'
<1> SUFFICES ASSUME Base, [Next]_vars PROVE Base'  OBVIOUS
<1>1. CASE \E r \in Requests, b \in Bodies : Receive(r, b)  BY <1>1, ReceiveBase
<1>2. ASSUME NEW r \in Requests, CheckIdempotency(r) PROVE Base'
  BY <1>2, CheckIdempotencyBase
<1>3. ASSUME NEW r \in Requests, InsertTransfer(r) \/ InsertFails(r) \/ CheckFails(r)
      PROVE  Base'
  BY <1>3, InsertOutcome, RefusedBase, CommittedBase
<1>4. ASSUME NEW r \in Requests, LateCommit(r) PROVE Base'
  <2>1. r \in late /\ faults' \in 0 .. MaxFaults  BY <1>4 DEF LateCommit, Base, TypeOK
  <2> QED  BY <1>4, <2>1, LateOutcome, LateRefusedBase, CommittedBase
<1>5. CASE Crash  BY <1>5, CrashBase
<1>6. CASE UNCHANGED vars
  BY <1>6 DEF Base, TypeOK, InFlightHasBody, RowsAreRequests, AnswersAreMade, Answered,
     Row, vars
<1> QED  BY <1>1, <1>2, <1>3, <1>4, <1>5, <1>6 DEF Next, Step

LEMMA BaseInvariance == Spec => []Base
BY InitBase, NextBase, PTL DEF Spec

\* Type correctness for any requests, bodies and faults.
THEOREM TypeCorrect == Spec => []TypeOK
<1>1. Base => TypeOK  BY DEF Base
<1> QED  BY <1>1, BaseInvariance, PTL

-----------------------------------------------------------------------------
(* What a step does to the table and to the answers.                       *)

\* The only change to the table is one more row, of a request that had none.
LEMMA TableStep ==
    ASSUME Base, [Next]_vars
    PROVE  transfers' = transfers \/ \E r \in Requests : Commits(r)
<1>1. ASSUME NEW r \in Requests, NEW b \in Bodies, Receive(r, b) PROVE transfers' = transfers
  BY <1>1 DEF Receive
<1>2. ASSUME NEW r \in Requests, CheckIdempotency(r) PROVE transfers' = transfers
  BY <1>2 DEF CheckIdempotency
<1>3. ASSUME NEW r \in Requests, InsertTransfer(r) \/ InsertFails(r) \/ CheckFails(r)
      PROVE  transfers' = transfers \/ Commits(r)
  BY <1>3, InsertOutcome
<1>4. ASSUME NEW r \in Requests, LateCommit(r) PROVE transfers' = transfers \/ Commits(r)
  BY <1>4, LateOutcome DEF LateCommit
<1>5. CASE Crash  BY <1>5 DEF Crash
<1>6. CASE UNCHANGED vars  BY <1>6 DEF vars
<1> QED  BY <1>1, <1>2, <1>3, <1>4, <1>5, <1>6 DEF Next, Step

\* A transfer that answered a key is never changed or removed: no request, no
\* retry, no crash and no late INSERT rewrites what the first request under it said.
THEOREM TransfersNeverChange == Spec => TransfersStay
<1>1. Base /\ [Next]_vars => [\A t \in transfers : t \in transfers']_vars
  BY TableStep DEF Commits
<1> QED  BY <1>1, BaseInvariance, PTL DEF Spec, TransfersStay

-----------------------------------------------------------------------------
(* The region of a transfer.                                               *)

\* The SQL function and the Go function derive one region for any corridor.
LEMMA SameDerivation ==
    ASSUME NEW from, NEW to
    PROVE  compute_compliance_region(from, to) = DeriveComplianceRegion(from, to)
<1> DEFINE touches(c) == from = c \/ to = c
<1>1. CASE touches("IDR")
  BY <1>1 DEF compute_compliance_region, DeriveComplianceRegion
<1>2. CASE ~touches("IDR") /\ (touches("EUR") \/ touches("SEK") \/ touches("DKK"))
  BY <1>2 DEF compute_compliance_region, DeriveComplianceRegion
<1>3. CASE ~touches("IDR") /\ ~touches("EUR") /\ ~touches("SEK") /\ ~touches("DKK")
  BY <1>3 DEF compute_compliance_region, DeriveComplianceRegion
<1> QED  BY <1>1, <1>2, <1>3

\* Every transfer lies in the partition that the Go code takes its corridor to
\* belong to, for any currencies a request may name.
THEOREM RegionsAlwaysAgree == Spec => []RegionsAgree
<1>1. Base => RegionsAgree
  <2> SUFFICES ASSUME Base, NEW t \in transfers
               PROVE  t.compliance_region = DeriveComplianceRegion(t.payload.from, t.payload.to)
    BY DEF RegionsAgree
  <2>1. t.compliance_region = Region(t.payload)
    BY RowFields DEF Base, RowsAreRequests
  <2> QED  BY <2>1, SameDerivation DEF Region
<1> QED  BY <1>1, BaseInvariance, PTL

-----------------------------------------------------------------------------
(* The unique constraint, for bodies that keep a key within a region.      *)

LEMMA KeyStaysUnique ==
    ASSUME OneRegion, Base, OneTransferPerKey, [Next]_vars
    PROVE  OneTransferPerKey'
<1>1. CASE transfers' = transfers  BY <1>1 DEF OneTransferPerKey, Keyed
<1>2. ASSUME NEW r \in Requests, Commits(r)
      PROVE  OneTransferPerKey'
  <2>1. /\ body[r] \in Bodies /\ InsertAccepted(Row(r))
        /\ transfers' = transfers \union {Row(r)}
    BY <1>2 DEF Commits
  <2>2. ASSUME NEW t \in transfers, t.tenant_id = body[r].tenant,
               t.idempotency_key = body[r].key
        PROVE  body[r].key = NoKey
    <3>1. body[t.id] \in Bodies /\ t = Row(t.id)  BY DEF Base, RowsAreRequests
    <3>2. body[t.id].tenant = body[r].tenant /\ body[t.id].key = body[r].key
      BY <2>2, <3>1, RowFields
    <3>3. t.compliance_region = Region(body[t.id])  BY <3>1, RowFields
    <3>4. t.compliance_region = Row(r).compliance_region
      BY <2>1, <3>1, <3>2, <3>3, RowFields DEF OneRegion
    <3> QED  BY <2>1, <2>2, <3>4, RowFields DEF InsertAccepted, UniqueKey
  <2> QED  BY <2>1, <2>2, RowFields DEF OneTransferPerKey, Keyed
<1> QED  BY <1>1, <1>2, TableStep

\* The key of a tenant makes one transfer, under any number of concurrent
\* requests, retries, failures and late INSERTs, as long as its corridors are of one region.
THEOREM KeysAreUnique == ASSUME OneRegion PROVE Spec => []OneTransferPerKey
<1>1. Init => OneTransferPerKey  BY DEF Init, OneTransferPerKey
<1>2. Base /\ OneTransferPerKey /\ [Next]_vars => OneTransferPerKey'  BY KeyStaysUnique
<1> QED  BY <1>1, <1>2, BaseInvariance, PTL DEF Spec

-----------------------------------------------------------------------------
(* What a unique key gives the clients.                                    *)

LEMMA AgreeingAnswers == Base /\ OneTransferPerKey => AnswersAgree
<1> SUFFICES ASSUME Base, OneTransferPerKey, NEW r \in Requests, Answered(r)
             PROVE  \A q \in Requests :
                       /\ Answered(q)
                       /\ body[r].key # NoKey
                       /\ body[q].tenant = body[r].tenant
                       /\ body[q].key = body[r].key
                       => reply[q].id = reply[r].id
  BY DEF AnswersAgree, Base, AnswersAreMade
<1> SUFFICES ASSUME NEW q \in Requests, Answered(q), body[r].key # NoKey,
                    body[q].tenant = body[r].tenant, body[q].key = body[r].key
             PROVE  reply[q].id = reply[r].id
  OBVIOUS
<1>1. PICK t \in transfers : /\ t.id = reply[r].id
                             /\ t.tenant_id = body[r].tenant
                             /\ t.idempotency_key = body[r].key
  BY DEF Base, AnswersAreMade
<1>2. PICK u \in transfers : /\ u.id = reply[q].id
                             /\ u.tenant_id = body[q].tenant
                             /\ u.idempotency_key = body[q].key
  BY DEF Base, AnswersAreMade
<1>3. t = u  BY <1>1, <1>2 DEF OneTransferPerKey, Keyed
<1> QED  BY <1>1, <1>2, <1>3

\* All clients of a key are told of one transfer, which exists, as long as the
\* corridors of the key are of one region.
THEOREM AnswersAlwaysAgree == ASSUME OneRegion PROVE Spec => []AnswersAgree
<1>1. Base /\ OneTransferPerKey => AnswersAgree  BY AgreeingAnswers
<1> QED  BY <1>1, BaseInvariance, KeysAreUnique, PTL

-----------------------------------------------------------------------------
(* The refinement of IdempotentIntake.                                     *)

\* Its two variables, as KeepsPromise maps them.
Executed == {<<KeyOf(t.payload), t.payload, t.id>> : t \in {u \in transfers : Keyed(u)}}

AnswersGiven ==
    {<<KeyOf(body[r]), body[r], reply[r].id>> :
        r \in {q \in Requests : Answered(q) /\ body[q].key # NoKey}}

Keys == {KeyOf(b) : b \in {c \in Bodies : c.key # NoKey}}

\* A row adds its key, payload and id to what is executed, when it has a key.
LEMMA ExecutedGrows ==
    ASSUME NEW r \in Requests, transfers' = transfers \union {Row(r)}
    PROVE  Executed' = IF body[r].key = NoKey THEN Executed
                       ELSE Executed \union {<<KeyOf(body[r]), body[r], r>>}
<1>1. Keyed(Row(r)) <=> body[r].key # NoKey  BY RowFields DEF Keyed
<1>2. <<KeyOf(Row(r).payload), Row(r).payload, Row(r).id>> = <<KeyOf(body[r]), body[r], r>>  BY RowFields
<1>3. {u \in transfers' : Keyed(u)}
        = IF body[r].key = NoKey THEN {u \in transfers : Keyed(u)}
          ELSE {u \in transfers : Keyed(u)} \union {Row(r)}
  BY <1>1
<1>4. Executed' = {<<KeyOf(t.payload), t.payload, t.id>> : t \in {u \in transfers' : Keyed(u)}}
  BY DEF Executed, Keyed, KeyOf
<1> QED  BY <1>2, <1>3, <1>4 DEF Executed

\* An answer to a request that had none adds itself to the answers given.
LEMMA AnswersGrow ==
    ASSUME Base, NEW r \in Requests, ~Answered(r), body' = body,
           NEW code, NEW id, Answer(r, code, id)
    PROVE  AnswersGiven' = IF code \in {200, 201} /\ body[r].key # NoKey
                           THEN AnswersGiven \union {<<KeyOf(body[r]), body[r], id>>}
                           ELSE AnswersGiven
<1> DEFINE Of(q) == <<KeyOf(body[q]), body[q], reply[q].id>>
           Given == {q \in Requests : Answered(q) /\ body[q].key # NoKey}
           Now == {q \in Requests : Answered(q)' /\ body[q].key # NoKey}
           New == code \in {200, 201} /\ body[r].key # NoKey
<1>1. /\ reply'[r].code = code /\ reply'[r].id = id
      /\ \A q \in Requests \ {r} : reply'[q] = reply[q]
  BY DEF Base, TypeOK, Answer
<1>2. Now = IF New THEN Given \union {r} ELSE Given  BY <1>1 DEF Answered
<1>3. AnswersGiven' = {<<KeyOf(body[q]), body[q], reply'[q].id>> : q \in Now}
  BY DEF AnswersGiven, Answered, KeyOf
<1>4. \A q \in Given : <<KeyOf(body[q]), body[q], reply'[q].id>> = Of(q)  BY <1>1
<1>5. AnswersGiven = {Of(q) : q \in Given}  BY DEF AnswersGiven
<1>6. r \notin Given  OBVIOUS
<1>7. CASE New
  <2>1. AnswersGiven' = {<<KeyOf(body[q]), body[q], reply'[q].id>> : q \in Given} \union {<<KeyOf(body[r]), body[r], id>>}
    BY <1>1, <1>2, <1>3, <1>7
  <2> QED  BY <1>4, <1>5, <1>7, <2>1
<1>8. CASE ~New
  <2>1. AnswersGiven' = {<<KeyOf(body[q]), body[q], reply'[q].id>> : q \in Given}  BY <1>2, <1>3, <1>8
  <2> QED  BY <1>4, <1>5, <1>8, <2>1
<1> QED  BY <1>7, <1>8

-----------------------------------------------------------------------------
\* A step of the promise, or none: what every action has to be.
PromiseStep == [Promise!Next]_<<Executed, AnswersGiven>>

LEMMA KeysOfBodies ==
    ASSUME Base, NEW r \in Requests, body[r] \in Bodies, body[r].key # NoKey
    PROVE  KeyOf(body[r]) \in Keys
BY DEF Keys

LEMMA ReceiveKeeps ==
    ASSUME Base, NEW r \in Requests, NEW b \in Bodies, Receive(r, b)
    PROVE  Executed' = Executed /\ AnswersGiven' = AnswersGiven
<1>1. transfers' = transfers  BY DEF Receive
<1>2. reply[r] = NoReply  BY DEF Base, InFlightHasBody, Receive
<1>3. /\ reply'[r].code \in {0, 400}
      /\ \A q \in Requests \ {r} : reply'[q] = reply[q] /\ body'[q] = body[q]
  BY <1>2 DEF Base, TypeOK, Receive, Answer, NoReply
<1>4. ~Answered(r) /\ ~Answered(r)'  BY <1>2, <1>3 DEF Answered, NoReply
<1> DEFINE Given == {q \in Requests : Answered(q) /\ body[q].key # NoKey}
           Now == {q \in Requests : Answered(q)' /\ body'[q].key # NoKey}
<1>5. Now = Given  BY <1>3, <1>4 DEF Answered
<1>6. \A q \in Given : body'[q] = body[q] /\ reply'[q].id = reply[q].id
  BY <1>3, <1>4
<1>7. AnswersGiven' = {<<KeyOf(body'[q]), body'[q], reply'[q].id>> : q \in Now}
  BY DEF AnswersGiven, KeyOf, Answered
<1>8. AnswersGiven = {<<KeyOf(body[q]), body[q], reply[q].id>> : q \in Given}  BY DEF AnswersGiven
<1>9. Executed' = Executed  BY <1>1 DEF Executed, Keyed, KeyOf
<1> QED  BY <1>5, <1>6, <1>7, <1>8, <1>9 DEF KeyOf

\* A request in flight that ends with no row and a 500 shows nothing.
LEMMA RefusedKeeps ==
    ASSUME Base, NEW r \in Requests, pc[r] \in {"check", "insert"}, body' = body,
           transfers' = transfers, Answer(r, 500, "none")
    PROVE  Executed' = Executed /\ AnswersGiven' = AnswersGiven
<1>1. ~Answered(r)  BY DEF Base, InFlightHasBody, Answered, NoReply
<1>2. AnswersGiven' = AnswersGiven  BY <1>1, AnswersGrow
<1>3. Executed' = Executed  BY DEF Executed, Keyed, KeyOf
<1> QED  BY <1>2, <1>3

\* The check answers with what was executed under the key.
LEMMA CheckAnswers ==
    ASSUME Base, NEW r \in Requests, CheckIdempotency(r)
    PROVE  PromiseStep
<1>1. pc[r] = "check" /\ transfers' = transfers /\ body' = body
  BY DEF CheckIdempotency
<1>2. ~Answered(r) /\ body[r] \in Bodies /\ body[r].key # NoKey
  BY <1>1 DEF Base, InFlightHasBody, Answered, NoReply
<1>3. Executed' = Executed  BY <1>1 DEF Executed, Keyed, KeyOf
<1>4. CASE UnderKey(body[r]) = {}
  <2>1. AnswersGiven' = AnswersGiven
    BY <1>1, <1>4 DEF CheckIdempotency, AnswersGiven, Answered, KeyOf
  <2> QED  BY <1>3, <2>1 DEF PromiseStep
<1>5. CASE UnderKey(body[r]) # {}
  <2>1. PICK t \in UnderKey(body[r]) : Answer(r, 200, t.id)  BY <1>5 DEF CheckIdempotency
  <2>2. AnswersGiven' = AnswersGiven \union {<<KeyOf(body[r]), body[r], t.id>>}
    BY <1>1, <1>2, <2>1, AnswersGrow
  <2>3. /\ t \in transfers /\ Keyed(t)
        /\ t.payload.tenant = body[r].tenant /\ t.payload.key = body[r].key
        /\ t.id \in Requests
    BY <1>2, RowFields DEF UnderKey, Keyed, Base, RowsAreRequests
  <2>4. <<KeyOf(body[r]), t.payload, t.id>> \in Executed  BY <2>3 DEF Executed, KeyOf
  <2>5. KeyOf(body[r]) \in Keys  BY <1>2, KeysOfBodies
  <2>6. CASE t.payload = body[r]
    <3>1. Promise!Answer(KeyOf(body[r]), body[r], t.id)
      BY <1>3, <2>2, <2>4, <2>6 DEF Promise!Answer, Executed, AnswersGiven
    <3> QED  BY <1>2, <2>3, <2>5, <3>1 DEF PromiseStep, Promise!Next, Keys
  <2>7. CASE t.payload # body[r]
    <3> DEFINE e == <<KeyOf(body[r]), t.payload, t.id>>
    <3>1. e \in Executed /\ e[1] = KeyOf(body[r]) /\ e[2] # body[r]  BY <2>4, <2>7
    <3> HIDE DEF e
    <3>2. Promise!AnswerReuse(KeyOf(body[r]), body[r], t.id)
      BY <1>3, <2>2, <3>1 DEF Promise!AnswerReuse, Executed, AnswersGiven
    <3> QED  BY <1>2, <2>3, <2>5, <3>2 DEF PromiseStep, Promise!Next, Keys
  <2> QED  BY <2>6, <2>7
<1> QED  BY <1>4, <1>5

\* The INSERT executes the key, which nothing has executed before, for its
\* handler or after it.
LEMMA CommitExecutes ==
    ASSUME Base, OneTransferPerKey', NEW r \in Requests, Commits(r)
    PROVE  PromiseStep
<1>1. /\ body[r] \in Bodies /\ body' = body /\ transfers' = transfers \union {Row(r)}
      /\ \A t \in transfers : t.id # r
  BY DEF Commits
<1>2. CASE body[r].key = NoKey
  <2>1. Executed' = Executed  BY <1>1, <1>2, ExecutedGrows
  <2>2. CASE pc[r] = "insert" /\ Answer(r, 201, r)
    <3>1. ~Answered(r)  BY <2>2 DEF Base, InFlightHasBody, Answered, NoReply
    <3>2. AnswersGiven' = AnswersGiven  BY <1>1, <1>2, <2>2, <3>1, AnswersGrow
    <3> QED  BY <2>1, <3>2 DEF PromiseStep
  <2>3. CASE reply' = reply
    <3>1. AnswersGiven' = AnswersGiven  BY <1>1, <2>3 DEF AnswersGiven, Answered, KeyOf
    <3> QED  BY <2>1, <3>1 DEF PromiseStep
  <2> QED  BY <2>2, <2>3 DEF Commits
<1>3. CASE body[r].key # NoKey
  <2> DEFINE k == KeyOf(body[r])
  <2>1. Executed' = Executed \union {<<k, body[r], r>>}  BY <1>1, <1>3, ExecutedGrows
  <2>2. k \in Keys  BY <1>1, <1>3, KeysOfBodies
  <2>3. ASSUME NEW e \in Executed PROVE e[1] # k /\ e[3] # r
    <3>1. PICK t \in transfers : Keyed(t) /\ e = <<KeyOf(t.payload), t.payload, t.id>>
      BY DEF Executed
    <3>2. t.id # r /\ t = Row(t.id)  BY <1>1 DEF Base, RowsAreRequests
    <3>3. t # Row(r)  BY <3>2, RowFields
    <3>4. ~(t.tenant_id = body[r].tenant /\ t.idempotency_key = body[r].key)
      BY <1>1, <1>3, <3>1, <3>3, RowFields DEF OneTransferPerKey, Keyed
    <3>5. t.payload.tenant = t.tenant_id /\ t.payload.key = t.idempotency_key
      BY <3>2, RowFields
    <3> QED  BY <3>1, <3>2, <3>4, <3>5 DEF KeyOf
  <2>4. CASE pc[r] = "insert" /\ Answer(r, 201, r)
    <3>0. ~Answered(r)  BY <2>4 DEF Base, InFlightHasBody, Answered, NoReply
    <3>1. AnswersGiven' = AnswersGiven \union {<<k, body[r], r>>}
      BY <1>1, <1>3, <2>4, <3>0, AnswersGrow
    <3>2. Promise!ExecuteAndAnswer(k, body[r], r)
      BY <2>1, <2>3, <3>1
         DEF Promise!ExecuteAndAnswer, Promise!Free, Executed, AnswersGiven
    <3> QED  BY <1>1, <2>2, <3>2 DEF PromiseStep, Promise!Next, Keys
  <2>5. CASE reply' = reply
    <3>1. AnswersGiven' = AnswersGiven  BY <1>1, <2>5 DEF AnswersGiven, Answered, KeyOf
    <3>2. Promise!Execute(k, body[r], r)
      BY <2>1, <2>3, <3>1 DEF Promise!Execute, Promise!Free, Executed, AnswersGiven
    <3> QED  BY <1>1, <2>2, <3>2 DEF PromiseStep, Promise!Next, Keys
  <2> QED  BY <2>4, <2>5 DEF Commits
<1> QED  BY <1>2, <1>3

LEMMA StepKeeps ==
    ASSUME Base, OneTransferPerKey', [Next]_vars
    PROVE  PromiseStep
<1>1. ASSUME NEW r \in Requests, NEW b \in Bodies, Receive(r, b) PROVE PromiseStep
  BY <1>1, ReceiveKeeps DEF PromiseStep
<1>2. ASSUME NEW r \in Requests, CheckIdempotency(r) PROVE PromiseStep
  BY <1>2, CheckAnswers
<1>3. ASSUME NEW r \in Requests, InsertTransfer(r) \/ InsertFails(r) \/ CheckFails(r)
      PROVE  PromiseStep
  <2>1. CASE pc[r] \in {"check", "insert"} /\ Answer(r, 500, "none")
             /\ UNCHANGED <<transfers, body>>
    BY <2>1, RefusedKeeps DEF PromiseStep
  <2> QED  BY <1>3, <2>1, InsertOutcome, CommitExecutes
<1>4. ASSUME NEW r \in Requests, LateCommit(r) PROVE PromiseStep
  <2>1. CASE InsertAccepted(Row(r))
    BY <1>4, <2>1, LateOutcome, CommitExecutes DEF LateCommit
  <2>2. CASE ~InsertAccepted(Row(r))
    BY <1>4, <2>2 DEF LateCommit, PromiseStep, Executed, AnswersGiven, Keyed, Answered, KeyOf
  <2> QED  BY <2>1, <2>2
<1>5. CASE Crash
  BY <1>5 DEF Crash, PromiseStep, Executed, AnswersGiven, Keyed, Answered, KeyOf
<1>6. CASE UNCHANGED vars
  BY <1>6 DEF vars, PromiseStep, Executed, AnswersGiven, Keyed, Answered, KeyOf
<1> QED  BY <1>1, <1>2, <1>3, <1>4, <1>5, <1>6 DEF Next, Step

\* The handler implements the promise of the key for any load, any failures
\* and any late INSERT, as long as the corridors of a key are of one region.
THEOREM HandlerKeepsPromise == ASSUME OneRegion PROVE Spec => KeepsPromise
<1>1. Init => Promise!Init
  BY DEF Init, Promise!Init, Answered, NoReply
<1>2. Base /\ OneTransferPerKey' /\ [Next]_vars => PromiseStep  BY StepKeeps
<1> QED
  BY <1>1, <1>2, BaseInvariance, KeysAreUnique, PTL
     DEF Spec, KeepsPromise, Promise!Spec, PromiseStep, Executed, AnswersGiven

=============================================================================
