------------------------- MODULE ServerProcess_proofs -------------------------
(***************************************************************************)
(* Proofs about ServerProcess, for any requests, any finite or infinite    *)
(* pool and any number of faults: when a request can be cut off, how the   *)
(* process ends, where every connection is, and what WithTx tells.  The    *)
(* process is proved apart from its requests: a step of one leaves the     *)
(* other alone, but for the little each must know of the other.            *)
(***************************************************************************)
EXTENDS ServerProcess, TLAPS

Starting == {"database", "ledger", "cache"}

Closing == {"closeCache", "closeLedger", "closeDatabase", "waitForPool", "exited"}

\* How far run() is tells which clients are open.
OpenAt ==
    [l \in MainLabels |->
        IF l \in {"database", "waitForPool", "exited"} THEN {}
        ELSE IF l \in {"ledger", "closeDatabase"} THEN {"database"}
        ELSE IF l \in {"cache", "closeLedger"} THEN {"database", "ledger"}
        ELSE Clients]

NobodyLives == \A h \in Handlers : ~Live(h)

ProcessTypes ==
    /\ main \in MainLabels
    /\ outcome \in {"none", "ok", "error", "server error"}
    /\ signalled \in BOOLEAN
    /\ serverErr \in BOOLEAN
    /\ graceOver \in BOOLEAN
    /\ listener \in {"none", "binding", "open", "lingering", "closed"}
    /\ answers \in BOOLEAN
    /\ faults \in 0 .. MaxFaults

\* Nobody is in flight, and nobody can come on a connection any more.
NobodyComes == NobodyLives /\ listener \notin {"open", "lingering"}

\* The process: nobody is in flight before it listens, it listens only until
\* Shutdown, and it closes clients only when requests are done or given up.
ProcessOK ==
    /\ ProcessTypes
    /\ open = OpenAt[main]
    /\ main \in Starting => listener = "none"
    /\ listener \in {"none", "binding"} => NobodyLives
    /\ listener = "open" => main \in {"select", "shutdown"}
    /\ serverErr => listener \in {"lingering", "closed"}
    /\ main \in Closing => graceOver \/ outcome = "server error" \/ NobodyComes
    /\ ExitIsOrderly

PoolTypes ==
    /\ txConn \in [Handlers -> Conns \union {NoConn}]
    /\ stmtConn \in [Handlers -> Conns \union {NoConn}]
    /\ free \subseteq Conns
    /\ leaked \subseteq Conns

Told == [result : {"none", "ok", "error", "commit error"}, committed : BOOLEAN]

\* A request has a transaction exactly where the code of WithTx has one.
TasksOK ==
    /\ task \in [Handlers -> Task]
    /\ \A h \in Handlers :
           /\ task[h].at \in {"fn", "rollback", "commit"} => task[h].tx # "none"
           /\ task[h].at \in {"idle", "run", "begin"} => task[h].tx = "none"

ToldOK == told \in [Handlers -> Told] /\ TxAnswersAreTrue

RequestsOK ==
    /\ PoolTypes
    /\ TasksOK
    /\ ToldOK
    /\ ConnectionsAreAccounted

\* The strengthening: both halves together are inductive.
IInv == ProcessOK /\ RequestsOK

-----------------------------------------------------------------------------
LEMMA InitIInv == Init => IInv
<1> SUFFICES ASSUME Init PROVE IInv
    OBVIOUS
<1>1. \A h \in Handlers : task[h] = NoTask /\ told[h] = NotTold /\ txConn[h] = NoConn /\ stmtConn[h] = NoConn
    BY DEF Init
<1>2. NoTask \in Task /\ NoTask.at = "idle" /\ NoTask.tx = "none"
    BY DEF NoTask, Task, TaskLabels
<1>3. NotTold \in Told /\ NotTold.result = "none"
    BY DEF NotTold, Told
<1>4. PoolTypes
    BY DEF Init, PoolTypes
<1>5. TasksOK
    BY <1>1, <1>2 DEF Init, TasksOK
<1>6. ToldOK
    BY <1>1, <1>3 DEF Init, ToldOK, TxAnswersAreTrue
<1>7. ConnectionsAreAccounted
    BY <1>1, <1>2, PoolAssumption DEF Init, ConnectionsAreAccounted
<1>8. ProcessTypes
    <2>1. faults \in 0 .. MaxFaults
        BY PoolAssumption DEF Init
    <2>2. main \in MainLabels
        BY DEF Init, MainLabels
    <2> QED
        BY <2>1, <2>2, Zenon DEF Init, ProcessTypes
<1>9. NobodyLives
    BY <1>1, <1>2 DEF NobodyLives, Live
<1>10. ProcessOK
    BY <1>8, <1>9 DEF Init, ProcessOK, OpenAt, MainLabels, Closing, ExitIsOrderly
<1> QED
    BY <1>4, <1>5, <1>6, <1>7, <1>10 DEF IInv, RequestsOK

LEMMA FaultCounts ==
    ASSUME faults \in 0 .. MaxFaults, Fault
    PROVE  faults' \in 0 .. MaxFaults /\ faults' > faults
BY PoolAssumption DEF Fault

\* What an assignment to one field of a task does to the tasks.
LEMMA GotoTask ==
    ASSUME task \in [Handlers -> Task], NEW h \in Handlers, NEW label \in TaskLabels, Goto(h, label)
    PROVE  /\ task' \in [Handlers -> Task]
           /\ task'[h].at = label /\ task'[h].tx = task[h].tx
           /\ \A g \in Handlers \ {h} : task'[g] = task[g]
BY DEF Goto, Task

LEMMA SetTask ==
    ASSUME task \in [Handlers -> Task], NEW h \in Handlers, NEW t \in Task,
           task' = [task EXCEPT ![h] = t]
    PROVE  /\ task' \in [Handlers -> Task]
           /\ task'[h] = t
           /\ \A g \in Handlers \ {h} : task'[g] = task[g]
OBVIOUS

LEMMA CallerLabel ==
    ASSUME NEW h \in Handlers, task \in [Handlers -> Task]
    PROVE  /\ CallerOf(h) \in {"run", "fn"}
           /\ CallerOf(h) = "fn" => task[h].tx # "none"
           /\ CallerOf(h) = "run" => task[h].tx = "none"
BY DEF CallerOf

-----------------------------------------------------------------------------
(* The pool, as a step takes a connection, gives it back or leaves it.     *)

\* Neither transactions nor statements begin or end.
LEMMA PoolUntouched ==
    ASSUME PoolTypes, ConnectionsAreAccounted, UNCHANGED pool, faults \in Nat, faults' \in Nat,
           faults' >= faults,
           \A g \in Handlers : /\ task'[g].tx = "none" <=> task[g].tx = "none"
                               /\ task'[g].at = "statement" <=> task[g].at = "statement"
    PROVE  PoolTypes' /\ ConnectionsAreAccounted'
<1>1. PoolTypes'
    BY DEF PoolTypes, pool
<1>2. txConn' = txConn /\ stmtConn' = stmtConn /\ free' = free /\ leaked' = leaked
    BY DEF pool
<1>3. leaked # {} => faults' > 0
    BY DEF ConnectionsAreAccounted
<1>4. \A g \in Handlers : /\ txConn[g] = NoConn <=> task'[g].tx = "none"
                          /\ stmtConn[g] = NoConn <=> task'[g].at # "statement"
    BY DEF ConnectionsAreAccounted
<1> QED
    BY <1>1, <1>2, <1>3, <1>4 DEF ConnectionsAreAccounted

LEMMA StatementTakes ==
    ASSUME PoolTypes, ConnectionsAreAccounted, NEW h \in Handlers, NEW c \in free,
           task \in [Handlers -> Task], task[h].at = "acquire",
           free' = free \ {c}, stmtConn' = [stmtConn EXCEPT ![h] = c],
           UNCHANGED <<txConn, leaked, faults>>, Goto(h, "statement")
    PROVE  PoolTypes' /\ ConnectionsAreAccounted'
<1>1. PoolTypes'
    BY DEF PoolTypes
<1>2. /\ c \in Conns /\ c # NoConn /\ c \notin leaked
      /\ \A g \in Handlers : c \notin {txConn[g], stmtConn[g]}
    BY PoolAssumption DEF PoolTypes, ConnectionsAreAccounted
<1>3. /\ stmtConn[h] = NoConn
      /\ stmtConn'[h] = c
      /\ \A g \in Handlers \ {h} : stmtConn'[g] = stmtConn[g]
    BY DEF PoolTypes, ConnectionsAreAccounted
<1>4. /\ task'[h].at = "statement" /\ task'[h].tx = task[h].tx
      /\ \A g \in Handlers \ {h} : task'[g] = task[g]
    BY GotoTask DEF TaskLabels
<1>5. \A g \in Handlers :
          /\ txConn'[g] = NoConn <=> task'[g].tx = "none"
          /\ stmtConn'[g] = NoConn <=> task'[g].at # "statement"
          /\ {txConn'[g], stmtConn'[g]} \cap (free' \union leaked') = {}
          /\ txConn'[g] = stmtConn'[g] => txConn'[g] = NoConn
    BY <1>2, <1>3, <1>4 DEF ConnectionsAreAccounted
<1>6. \A g, k \in Handlers :
          g # k => {txConn'[g], stmtConn'[g]} \cap {txConn'[k], stmtConn'[k]} \subseteq {NoConn}
    BY <1>2, <1>3 DEF ConnectionsAreAccounted
<1>7. \A d \in Conns :
          d \in free' \union leaked' \/ \E g \in Handlers : d \in {txConn'[g], stmtConn'[g]}
    <2> TAKE d \in Conns
    <2>1. CASE d = c
        BY <2>1, <1>3
    <2>2. CASE d # c
        <3>1. d \in free \union leaked \/ \E g \in Handlers : d \in {txConn[g], stmtConn[g]}
            BY DEF ConnectionsAreAccounted
        <3>2. d # NoConn
            BY PoolAssumption
        <3> QED
            BY <2>2, <3>1, <3>2, <1>3
    <2> QED
        BY <2>1, <2>2
<1> QED
    BY <1>1, <1>5, <1>6, <1>7 DEF ConnectionsAreAccounted

LEMMA BeginTakes ==
    ASSUME PoolTypes, ConnectionsAreAccounted, NEW h \in Handlers, NEW c \in free,
           task[h].tx = "none", task[h].at # "statement",
           free' = free \ {c}, txConn' = [txConn EXCEPT ![h] = c],
           UNCHANGED <<stmtConn, leaked, faults>>,
           task'[h].tx = "open", task'[h].at = "fn",
           \A g \in Handlers \ {h} : task'[g] = task[g]
    PROVE  PoolTypes' /\ ConnectionsAreAccounted'
<1>1. PoolTypes'
    BY DEF PoolTypes
<1>2. /\ c \in Conns /\ c # NoConn /\ c \notin leaked
      /\ \A g \in Handlers : c \notin {txConn[g], stmtConn[g]}
    BY PoolAssumption DEF PoolTypes, ConnectionsAreAccounted
<1>3. /\ txConn[h] = NoConn
      /\ txConn'[h] = c
      /\ \A g \in Handlers \ {h} : txConn'[g] = txConn[g]
    BY DEF PoolTypes, ConnectionsAreAccounted
<1>5. \A g \in Handlers :
          /\ txConn'[g] = NoConn <=> task'[g].tx = "none"
          /\ stmtConn'[g] = NoConn <=> task'[g].at # "statement"
          /\ {txConn'[g], stmtConn'[g]} \cap (free' \union leaked') = {}
          /\ txConn'[g] = stmtConn'[g] => txConn'[g] = NoConn
    BY <1>2, <1>3 DEF ConnectionsAreAccounted
<1>6. \A g, k \in Handlers :
          g # k => {txConn'[g], stmtConn'[g]} \cap {txConn'[k], stmtConn'[k]} \subseteq {NoConn}
    BY <1>2, <1>3 DEF ConnectionsAreAccounted
<1>7. \A d \in Conns :
          d \in free' \union leaked' \/ \E g \in Handlers : d \in {txConn'[g], stmtConn'[g]}
    <2> TAKE d \in Conns
    <2>1. CASE d = c
        BY <2>1, <1>3
    <2>2. CASE d # c
        <3>1. d \in free \union leaked \/ \E g \in Handlers : d \in {txConn[g], stmtConn[g]}
            BY DEF ConnectionsAreAccounted
        <3>2. d # NoConn
            BY PoolAssumption
        <3> QED
            BY <2>2, <3>1, <3>2, <1>3
    <2> QED
        BY <2>1, <2>2
<1> QED
    BY <1>1, <1>5, <1>6, <1>7 DEF ConnectionsAreAccounted


LEMMA StatementGives ==
    ASSUME PoolTypes, ConnectionsAreAccounted, NEW h \in Handlers,
           task[h].at = "statement",
           free' = free \union {stmtConn[h]}, stmtConn' = [stmtConn EXCEPT ![h] = NoConn],
           UNCHANGED <<txConn, leaked, faults>>,
           task'[h].at # "statement", task'[h].tx = task[h].tx,
           \A g \in Handlers \ {h} : task'[g] = task[g]
    PROVE  PoolTypes' /\ ConnectionsAreAccounted'
<1>1. stmtConn[h] \in Conns
    BY DEF PoolTypes, ConnectionsAreAccounted
<1>2. PoolTypes'
    BY <1>1 DEF PoolTypes
<1>3. /\ stmtConn'[h] = NoConn
      /\ \A g \in Handlers \ {h} : stmtConn'[g] = stmtConn[g]
    BY DEF PoolTypes
<1>4. NoConn \notin free' /\ NoConn \notin leaked'
    BY <1>2, PoolAssumption DEF PoolTypes
<1>5. \A g \in Handlers :
          /\ txConn'[g] = NoConn <=> task'[g].tx = "none"
          /\ stmtConn'[g] = NoConn <=> task'[g].at # "statement"
          /\ txConn'[g] = stmtConn'[g] => txConn'[g] = NoConn
    <2> TAKE g \in Handlers
    <2>1. CASE g = h
        BY <2>1, <1>1, <1>3 DEF ConnectionsAreAccounted
    <2>2. CASE g # h
        <3>1. task'[g] = task[g] /\ txConn'[g] = txConn[g] /\ stmtConn'[g] = stmtConn[g]
            BY <2>2, <1>3
        <3> QED
            BY <3>1 DEF ConnectionsAreAccounted
    <2> QED
        BY <2>1, <2>2
<1>6. \A g \in Handlers : txConn[g] # stmtConn[h] /\ (g # h => stmtConn[g] # stmtConn[h])
    <2> TAKE g \in Handlers
    <2>1. stmtConn[h] # NoConn
        BY <1>1, PoolAssumption
    <2>2. CASE g = h
        BY <2>1, <2>2 DEF ConnectionsAreAccounted
    <2>3. CASE g # h
        <3>1. {txConn[g], stmtConn[g]} \cap {txConn[h], stmtConn[h]} \subseteq {NoConn}
            BY <2>3 DEF ConnectionsAreAccounted
        <3> QED
            BY <3>1, <2>1
    <2> QED
        BY <2>2, <2>3
<1>7. \A g \in Handlers : {txConn'[g], stmtConn'[g]} \cap (free' \union leaked') = {}
    <2> TAKE g \in Handlers
    <2>1. {txConn[g], stmtConn[g]} \cap (free \union leaked) = {}
        BY DEF ConnectionsAreAccounted
    <2>2. txConn[g] \notin free' /\ txConn[g] \notin leaked'
        BY <2>1, <1>6
    <2>3. stmtConn'[g] \notin free' /\ stmtConn'[g] \notin leaked'
        BY <2>1, <1>3, <1>4, <1>6
    <2> QED
        BY <2>2, <2>3
<1>8. \A g, k \in Handlers :
          g # k => {txConn'[g], stmtConn'[g]} \cap {txConn'[k], stmtConn'[k]} \subseteq {NoConn}
    BY <1>3 DEF ConnectionsAreAccounted
<1>9. \A d \in Conns :
          d \in free' \union leaked' \/ \E g \in Handlers : d \in {txConn'[g], stmtConn'[g]}
    <2> TAKE d \in Conns
    <2>1. d \in free \union leaked \/ \E g \in Handlers : d \in {txConn[g], stmtConn[g]}
        BY DEF ConnectionsAreAccounted
    <2> QED
        BY <2>1, <1>3
<1>10. free' \cap leaked' = {} /\ (leaked' # {} => faults' > 0)
    BY <1>1 DEF ConnectionsAreAccounted
<1> QED
    BY <1>2, <1>5, <1>7, <1>8, <1>9, <1>10 DEF ConnectionsAreAccounted

\* A transaction ends: its connection is free again, or lost with its request.
LEMMA TransactionGives ==
    ASSUME PoolTypes, ConnectionsAreAccounted, NEW h \in Handlers,
           task[h].tx # "none", task[h].at # "statement",
           \/ free' = free \union {txConn[h]} /\ leaked' = leaked /\ faults' = faults
           \/ leaked' = leaked \union {txConn[h]} /\ free' = free /\ faults' > 0,
           txConn' = [txConn EXCEPT ![h] = NoConn], stmtConn' = stmtConn,
           task'[h].at # "statement", task'[h].tx = "none",
           \A g \in Handlers \ {h} : task'[g] = task[g]
    PROVE  PoolTypes' /\ ConnectionsAreAccounted'
<1>1. txConn[h] \in Conns /\ stmtConn[h] = NoConn
    BY DEF PoolTypes, ConnectionsAreAccounted
<1>2. PoolTypes'
    BY <1>1 DEF PoolTypes
<1>3. /\ txConn'[h] = NoConn
      /\ \A g \in Handlers \ {h} : txConn'[g] = txConn[g]
    BY DEF PoolTypes
<1>4. NoConn \notin free' /\ NoConn \notin leaked'
    BY <1>2, PoolAssumption DEF PoolTypes
<1>5. \A g \in Handlers :
          /\ txConn'[g] = NoConn <=> task'[g].tx = "none"
          /\ stmtConn'[g] = NoConn <=> task'[g].at # "statement"
          /\ txConn'[g] = stmtConn'[g] => txConn'[g] = NoConn
    <2> TAKE g \in Handlers
    <2>1. CASE g = h
        BY <2>1, <1>1, <1>3 DEF ConnectionsAreAccounted
    <2>2. CASE g # h
        <3>1. task'[g] = task[g] /\ txConn'[g] = txConn[g] /\ stmtConn'[g] = stmtConn[g]
            BY <2>2, <1>3
        <3> QED
            BY <3>1 DEF ConnectionsAreAccounted
    <2> QED
        BY <2>1, <2>2
<1>6. \A g \in Handlers : stmtConn[g] # txConn[h] /\ (g # h => txConn[g] # txConn[h])
    <2> TAKE g \in Handlers
    <2>1. txConn[h] # NoConn
        BY <1>1, PoolAssumption
    <2>2. CASE g = h
        BY <2>1, <2>2 DEF ConnectionsAreAccounted
    <2>3. CASE g # h
        <3>1. {txConn[g], stmtConn[g]} \cap {txConn[h], stmtConn[h]} \subseteq {NoConn}
            BY <2>3 DEF ConnectionsAreAccounted
        <3> QED
            BY <3>1, <2>1
    <2> QED
        BY <2>2, <2>3
<1>7. \A g \in Handlers : {txConn'[g], stmtConn'[g]} \cap (free' \union leaked') = {}
    <2> TAKE g \in Handlers
    <2>1. {txConn[g], stmtConn[g]} \cap (free \union leaked) = {}
        BY DEF ConnectionsAreAccounted
    <2>2. stmtConn[g] \notin free' /\ stmtConn[g] \notin leaked'
        BY <2>1, <1>6
    <2>3. txConn'[g] \notin free' /\ txConn'[g] \notin leaked'
        BY <2>1, <1>3, <1>4, <1>6
    <2> QED
        BY <2>2, <2>3
<1>8. \A g, k \in Handlers :
          g # k => {txConn'[g], stmtConn'[g]} \cap {txConn'[k], stmtConn'[k]} \subseteq {NoConn}
    BY <1>3 DEF ConnectionsAreAccounted
<1>9. \A d \in Conns :
          d \in free' \union leaked' \/ \E g \in Handlers : d \in {txConn'[g], stmtConn'[g]}
    <2> TAKE d \in Conns
    <2>1. d \in free \union leaked \/ \E g \in Handlers : d \in {txConn[g], stmtConn[g]}
        BY DEF ConnectionsAreAccounted
    <2> QED
        BY <2>1, <1>3
<1>10. free' \cap leaked' = {}
    BY <1>1 DEF ConnectionsAreAccounted
<1>11. leaked' # {} => faults' > 0
    BY DEF ConnectionsAreAccounted
<1> QED
    BY <1>2, <1>5, <1>7, <1>8, <1>9, <1>10, <1>11 DEF ConnectionsAreAccounted

-----------------------------------------------------------------------------
(* Requests.                                                               *)

\* What a request's step does to tasks: TasksOK asks only for the task itself.
LEMMA TaskChanges ==
    ASSUME TasksOK, NEW h \in Handlers,
           task' \in [Handlers -> Task],
           \A g \in Handlers \ {h} : task'[g] = task[g],
           task'[h].at \in {"fn", "rollback", "commit"} => task'[h].tx # "none",
           task'[h].at \in {"idle", "run", "begin"} => task'[h].tx = "none"
    PROVE  TasksOK'
BY DEF TasksOK

LEMMA ToldChanges ==
    ASSUME ToldOK, NEW h \in Handlers, NEW t \in Told, told' = [told EXCEPT ![h] = t],
           t.result = "ok" => t.committed, t.result = "error" => ~t.committed
    PROVE  ToldOK'
BY DEF ToldOK, TxAnswersAreTrue

LEMMA ToldStays == ToldOK /\ told' = told => ToldOK'
BY DEF ToldOK, TxAnswersAreTrue

LEMMA ToldForgotten ==
    ASSUME ToldOK, NEW h \in Handlers, told' = [told EXCEPT ![h] = NotTold]
    PROVE  ToldOK'
<1>1. NotTold \in Told /\ NotTold.result = "none"
    BY DEF NotTold, Told
<1> QED
    BY <1>1, ToldChanges

\* The steps that move a request from one label to another, and no more.
LEMMA GotoKeepsRequests ==
    ASSUME RequestsOK, NEW h \in Handlers, NEW label \in TaskLabels, Goto(h, label),
           UNCHANGED <<pool, faults>>, faults \in Nat,
           label # "statement", task[h].at # "statement",
           label \in {"fn", "rollback", "commit"} => task[h].tx # "none",
           label \in {"idle", "run", "begin"} => task[h].tx = "none",
           told' = told \/ told' = [told EXCEPT ![h] = NotTold]
    PROVE  RequestsOK'
<1>1. /\ task' \in [Handlers -> Task]
      /\ task'[h].at = label /\ task'[h].tx = task[h].tx
      /\ \A g \in Handlers \ {h} : task'[g] = task[g]
    BY GotoTask DEF RequestsOK, TasksOK
<1>2. TasksOK'
    BY <1>1, TaskChanges DEF RequestsOK
<1>3. PoolTypes' /\ ConnectionsAreAccounted'
    BY <1>1, PoolUntouched DEF RequestsOK
<1>4. ToldOK'
    BY ToldStays, ToldForgotten DEF RequestsOK
<1> QED
    BY <1>2, <1>3, <1>4 DEF RequestsOK

\* WithTx ends with an answer.
LEMMA EndsTask ==
    ASSUME TasksOK, NEW h \in Handlers, NEW result, NEW committed, Ends(h, result, committed)
    PROVE  /\ TasksOK'
           /\ task'[h].at = "run" /\ task'[h].tx = "none"
           /\ \A g \in Handlers \ {h} : task'[g] = task[g]
<1>1. task \in [Handlers -> Task] /\ task[h] \in Task
    BY DEF TasksOK
<1>2. task' = [task EXCEPT ![h].at = "run", ![h].tx = "none"]
    BY DEF Ends
<1>3. /\ task'[h].at = "run" /\ task'[h].tx = "none" /\ task'[h] \in Task
      /\ \A g \in Handlers \ {h} : task'[g] = task[g]
    BY <1>1, <1>2 DEF Task, TaskLabels
<1>4. task' \in [Handlers -> Task]
    BY <1>1, <1>2, <1>3
<1> QED
    BY <1>3, <1>4, TaskChanges

LEMMA EndsTold ==
    ASSUME ToldOK, NEW h \in Handlers, NEW result \in {"ok", "error", "commit error"},
           NEW committed \in BOOLEAN, Ends(h, result, committed),
           result = "ok" => committed, result = "error" => ~committed
    PROVE  ToldOK'
<1> DEFINE t == [result |-> result, committed |-> committed]
<1>1. t \in Told /\ t.result = result /\ t.committed = committed
    BY DEF Told
<1>2. told' = [told EXCEPT ![h] = t]
    BY DEF Ends
<1> HIDE DEF t
<1> QED
    BY <1>1, <1>2, ToldChanges

\* The end of a transaction, with its connection given back.
LEMMA EndKeepsRequests ==
    ASSUME RequestsOK, NEW h \in Handlers, task[h].at \in {"rollback", "commit"},
           NEW result \in {"ok", "error", "commit error"}, NEW committed \in BOOLEAN,
           Ends(h, result, committed), Release(h), faults' = faults,
           result = "ok" => committed, result = "error" => ~committed
    PROVE  RequestsOK'
<1>1. /\ TasksOK'
      /\ task'[h].at = "run" /\ task'[h].tx = "none"
      /\ \A g \in Handlers \ {h} : task'[g] = task[g]
    BY EndsTask DEF RequestsOK
<1>2. task[h].tx # "none" /\ task[h].at # "statement"
    BY DEF RequestsOK, TasksOK
<1>3. PoolTypes' /\ ConnectionsAreAccounted'
    <2>1. /\ free' = free \union {txConn[h]} /\ leaked' = leaked
          /\ txConn' = [txConn EXCEPT ![h] = NoConn] /\ stmtConn' = stmtConn
        BY DEF Release
    <2>2. PoolTypes /\ ConnectionsAreAccounted
        BY DEF RequestsOK
    <2> QED
        BY <1>1, <1>2, <2>1, <2>2, TransactionGives
<1>4. ToldOK'
    BY EndsTold DEF RequestsOK
<1> QED
    BY <1>1, <1>3, <1>4 DEF RequestsOK

LEMMA PanicKeepsRequests ==
    ASSUME RequestsOK, NEW h \in Handlers, Panic(h), faults \in 0 .. MaxFaults
    PROVE  RequestsOK'
<1>1. task[h].at \in {"run", "fn"} /\ task[h].at # "statement"
    BY DEF Panic, At
<1>2. faults' \in Nat /\ faults \in Nat /\ faults' >= faults /\ faults' > 0
    BY FaultCounts, PoolAssumption DEF Panic, Fault
<1>3. NoTask \in Task /\ NoTask.at = "idle" /\ NoTask.tx = "none"
    BY DEF NoTask, Task, TaskLabels
<1>4. /\ task' \in [Handlers -> Task] /\ task'[h] = NoTask
      /\ \A g \in Handlers \ {h} : task'[g] = task[g]
    BY <1>3, SetTask DEF Panic, RequestsOK, TasksOK
<1>5. TasksOK'
    BY <1>3, <1>4, TaskChanges DEF RequestsOK
<1>6. ToldOK'
    BY ToldForgotten DEF Panic, RequestsOK
<1>7. CASE task[h].tx = "none"
    <2>1. txConn[h] = NoConn /\ txConn \in [Handlers -> Conns \union {NoConn}]
        BY <1>7 DEF RequestsOK, ConnectionsAreAccounted, PoolTypes
    <2>2. txConn' = txConn
        BY <2>1 DEF Panic
    <2>3. UNCHANGED pool
        BY <1>7, <2>2 DEF Panic, pool
    <2>4. \A g \in Handlers : /\ task'[g].tx = "none" <=> task[g].tx = "none"
                              /\ task'[g].at = "statement" <=> task[g].at = "statement"
        <3> TAKE g \in Handlers
        <3>1. CASE g = h
            BY <3>1, <1>1, <1>3, <1>4, <1>7
        <3>2. CASE g # h
            BY <3>2, <1>4
        <3> QED
            BY <3>1, <3>2
    <2>5. PoolTypes /\ ConnectionsAreAccounted
        BY DEF RequestsOK
    <2>6. PoolTypes' /\ ConnectionsAreAccounted'
        BY <1>2, <2>3, <2>4, <2>5, PoolUntouched
    <2> QED
        BY <1>5, <1>6, <2>6 DEF RequestsOK
<1>8. CASE task[h].tx # "none"
    <2>1. /\ leaked' = leaked \union {txConn[h]} /\ free' = free
          /\ txConn' = [txConn EXCEPT ![h] = NoConn] /\ stmtConn' = stmtConn
        BY <1>8 DEF Panic
    <2>2. task'[h].tx = "none" /\ task'[h].at # "statement"
        BY <1>3, <1>4
    <2>3. PoolTypes /\ ConnectionsAreAccounted
        BY DEF RequestsOK
    <2>4. PoolTypes' /\ ConnectionsAreAccounted'
        BY <1>1, <1>2, <1>4, <1>8, <2>1, <2>2, <2>3, TransactionGives
    <2> QED
        BY <1>5, <1>6, <2>4 DEF RequestsOK
<1> QED
    BY <1>7, <1>8

\* A step that changes a request and leaves its transaction and the pool alone.
LEMMA SetKeepsRequests ==
    ASSUME RequestsOK, NEW h \in Handlers,
           task' \in [Handlers -> Task],
           \A g \in Handlers \ {h} : task'[g] = task[g],
           task'[h].tx = "none" <=> task[h].tx = "none",
           task[h].at # "statement", task'[h].at # "statement",
           task'[h].at \in {"fn", "rollback", "commit"} => task'[h].tx # "none",
           task'[h].at \in {"idle", "run", "begin"} => task'[h].tx = "none",
           UNCHANGED <<pool, faults>>, faults \in Nat, ToldOK'
    PROVE  RequestsOK'
<1>1. TasksOK'
    BY TaskChanges DEF RequestsOK
<1>2. \A g \in Handlers : /\ task'[g].tx = "none" <=> task[g].tx = "none"
                          /\ task'[g].at = "statement" <=> task[g].at = "statement"
    <2> TAKE g \in Handlers
    <2>1. CASE g = h
        BY <2>1
    <2>2. CASE g # h
        BY <2>2
    <2> QED
        BY <2>1, <2>2
<1>3. PoolTypes' /\ ConnectionsAreAccounted'
    BY <1>2, PoolUntouched DEF RequestsOK
<1> QED
    BY <1>1, <1>3 DEF RequestsOK

LEMMA RequestKeepsRequests ==
    ASSUME RequestsOK, NEW h \in Handlers, RequestStep(h), faults \in 0 .. MaxFaults
    PROVE  RequestsOK'
<1> faults \in Nat
    BY PoolAssumption
<1>1. /\ task \in [Handlers -> Task] /\ task[h] \in Task /\ ToldOK
      /\ PoolTypes /\ ConnectionsAreAccounted /\ TasksOK
    BY DEF RequestsOK, TasksOK
<1>2. NoTask \in Task /\ NoTask.at = "idle" /\ NoTask.tx = "none"
    BY DEF NoTask, Task, TaskLabels
<1>3. TaskLabels = {"idle", "run", "acquire", "statement", "ledger", "begin", "fn", "rollback",
                    "commit"}
    BY DEF TaskLabels
<1>4. CallerOf(h) \in {"run", "fn"} /\ (CallerOf(h) = "fn" => task[h].tx # "none")
      /\ (CallerOf(h) = "run" => task[h].tx = "none")
    BY <1>1, CallerLabel
<1>5. CASE Accept(h)
    <2>1. task[h].at = "idle" /\ task[h].tx = "none"
        BY <1>1, <1>5 DEF Accept, At, TasksOK
    <2>2. PICK t \in Task : t.at = "run" /\ t.tx = "none" /\ task' = [task EXCEPT ![h] = t]
        BY <1>2, <1>3, <1>5 DEF Accept, Task
    <2>3. ToldOK' /\ UNCHANGED <<pool, faults>>
        BY <1>1, <1>5, ToldStays DEF Accept
    <2>4. /\ task' \in [Handlers -> Task] /\ task'[h] = t
          /\ \A g \in Handlers \ {h} : task'[g] = task[g]
        BY <1>1, <2>2, SetTask
    <2> QED
        BY <2>1, <2>2, <2>3, <2>4, SetKeepsRequests
<1>6. CASE Call(h)
    <2>1. PICK label \in {"acquire", "ledger"} \union
                         (IF task[h].tx = "none" THEN {"begin"} ELSE {}) : Goto(h, label)
        BY <1>6 DEF Call
    <2>2. /\ label \in {"acquire", "ledger", "begin"} /\ (label = "begin" => task[h].tx = "none")
          /\ label \in TaskLabels
        BY <2>1, <1>3
    <2>3. /\ task[h].at # "statement" /\ UNCHANGED <<pool, faults>>
          /\ told' = [told EXCEPT ![h] = NotTold]
        BY <1>6 DEF Call, At
    <2> QED
        BY <2>1, <2>2, <2>3, GotoKeepsRequests
<1>7. CASE Respond(h)
    <2>1. task[h].at = "run" /\ task[h].tx = "none" /\ task' = [task EXCEPT ![h] = NoTask]
        BY <1>1, <1>7 DEF Respond, At, TasksOK
    <2>2. ToldOK' /\ UNCHANGED <<pool, faults>>
        BY <1>1, <1>7, ToldForgotten DEF Respond
    <2>3. /\ task' \in [Handlers -> Task] /\ task'[h] = NoTask
          /\ \A g \in Handlers \ {h} : task'[g] = task[g]
        BY <1>1, <1>2, <2>1, SetTask
    <2> QED
        BY <1>2, <2>1, <2>2, <2>3, SetKeepsRequests
<1>8. CASE Timeout(h)
    <2>1. task' = [task EXCEPT ![h].late = TRUE] /\ UNCHANGED <<pool, faults, told>>
        BY <1>8 DEF Timeout
    <2>2. /\ task' \in [Handlers -> Task]
          /\ task'[h].at = task[h].at /\ task'[h].tx = task[h].tx
          /\ \A g \in Handlers \ {h} : task'[g] = task[g]
        BY <1>1, <2>1 DEF Task
    <2>3. TasksOK'
        BY <1>1, <2>2, TaskChanges DEF TasksOK
    <2>4. \A g \in Handlers : /\ task'[g].tx = "none" <=> task[g].tx = "none"
                              /\ task'[g].at = "statement" <=> task[g].at = "statement"
        <3> TAKE g \in Handlers
        <3>1. CASE g = h
            BY <3>1, <2>2
        <3>2. CASE g # h
            BY <3>2, <2>2
        <3> QED
            BY <3>1, <3>2
    <2>5. PoolTypes' /\ ConnectionsAreAccounted'
        BY <1>1, <2>1, <2>4, PoolUntouched
    <2>6. ToldOK'
        BY <1>1, <2>1, ToldStays
    <2> QED
        BY <2>3, <2>5, <2>6 DEF RequestsOK
<1>9. CASE AcquireForStatement(h)
    <2>1. PICK c \in free : free' = free \ {c} /\ stmtConn' = [stmtConn EXCEPT ![h] = c]
        BY <1>9 DEF AcquireForStatement
    <2>2. /\ task[h].at = "acquire" /\ Goto(h, "statement")
          /\ UNCHANGED <<txConn, leaked, faults>> /\ told' = told
        BY <1>9 DEF AcquireForStatement, At
    <2>3. PoolTypes' /\ ConnectionsAreAccounted'
        BY <1>1, <2>1, <2>2, StatementTakes
    <2>4. TasksOK'
        <3>1. /\ task' \in [Handlers -> Task]
              /\ task'[h].at = "statement"
              /\ \A g \in Handlers \ {h} : task'[g] = task[g]
            BY <1>1, <1>3, <2>2, GotoTask
        <3> QED
            BY <1>1, <3>1, TaskChanges
    <2>5. ToldOK'
        BY <1>1, <2>2, ToldStays
    <2> QED
        BY <2>3, <2>4, <2>5 DEF RequestsOK
<1>10. CASE AcquireFails(h)
    <2>1. task[h].at # "statement" /\ Goto(h, CallerOf(h)) /\ UNCHANGED <<pool, faults, told>>
        BY <1>10 DEF AcquireFails, At
    <2> QED
        BY <1>3, <1>4, <2>1, GotoKeepsRequests
<1>11. CASE Statement(h)
    <2>1. /\ task[h].at = "statement" /\ Goto(h, CallerOf(h)) /\ told' = told
          /\ free' = free \union {stmtConn[h]} /\ stmtConn' = [stmtConn EXCEPT ![h] = NoConn]
          /\ UNCHANGED <<txConn, leaked, faults>>
        BY <1>11 DEF Statement, At
    <2>2. /\ task' \in [Handlers -> Task]
          /\ task'[h].at = CallerOf(h) /\ task'[h].tx = task[h].tx
          /\ \A g \in Handlers \ {h} : task'[g] = task[g]
        BY <1>1, <1>3, <1>4, <2>1, GotoTask
    <2>3. PoolTypes' /\ ConnectionsAreAccounted'
        BY <1>1, <1>4, <2>1, <2>2, StatementGives
    <2>4. TasksOK'
        BY <1>1, <1>4, <2>2, TaskChanges
    <2>5. ToldOK'
        BY <1>1, <2>1, ToldStays
    <2> QED
        BY <2>3, <2>4, <2>5 DEF RequestsOK
<1>12. CASE LedgerAnswers(h) \/ LedgerClosed(h)
    <2>1. task[h].at # "statement" /\ Goto(h, CallerOf(h)) /\ UNCHANGED <<pool, faults, told>>
        BY <1>12 DEF LedgerAnswers, LedgerClosed, At
    <2> QED
        BY <1>3, <1>4, <2>1, GotoKeepsRequests
<1>13. CASE Begin(h)
    <2>1. PICK c \in free : free' = free \ {c} /\ txConn' = [txConn EXCEPT ![h] = c]
        BY <1>13 DEF Begin
    <2>2. /\ task[h].at = "begin" /\ UNCHANGED <<stmtConn, leaked, faults>> /\ told' = told
          /\ task' = [task EXCEPT ![h].at = "fn", ![h].tx = "open"]
        BY <1>13 DEF Begin, At
    <2>3. task[h].tx = "none"
        BY <1>1, <2>2 DEF TasksOK
    <2>4. /\ task'[h].at = "fn" /\ task'[h].tx = "open" /\ task'[h] \in Task
          /\ \A g \in Handlers \ {h} : task'[g] = task[g]
        BY <1>1, <1>3, <2>2 DEF Task
    <2>5. task' \in [Handlers -> Task]
        BY <1>1, <2>2, <2>4
    <2>6. PoolTypes' /\ ConnectionsAreAccounted'
        BY <1>1, <2>1, <2>2, <2>3, <2>4, BeginTakes
    <2>7. TasksOK'
        BY <1>1, <2>4, <2>5, TaskChanges
    <2>8. ToldOK'
        BY <1>1, <2>2, ToldStays
    <2> QED
        BY <2>6, <2>7, <2>8 DEF RequestsOK
<1>14. CASE BeginFails(h)
    <2>1. task[h].at = "begin" /\ Ends(h, "error", FALSE) /\ UNCHANGED <<pool, faults>>
        BY <1>14 DEF BeginFails, At
    <2>2. task[h].tx = "none"
        BY <1>1, <2>1 DEF TasksOK
    <2>3. /\ TasksOK' /\ task'[h].at = "run" /\ task'[h].tx = "none"
          /\ \A g \in Handlers \ {h} : task'[g] = task[g]
        BY <1>1, <2>1, EndsTask
    <2>4. ToldOK'
        BY <1>1, <2>1, EndsTold
    <2>5. task' \in [Handlers -> Task]
        BY <2>3 DEF TasksOK
    <2> QED
        BY <2>1, <2>2, <2>3, <2>4, <2>5, SetKeepsRequests
<1>15. CASE StatementInTxFails(h)
    <2>1. /\ task[h].at = "fn" /\ UNCHANGED <<pool, faults>> /\ told' = told
          /\ task' = [task EXCEPT ![h].tx = "aborted"]
        BY <1>15 DEF StatementInTxFails, At
    <2>2. task[h].tx # "none"
        BY <1>1, <2>1 DEF TasksOK
    <2>3. /\ task' \in [Handlers -> Task]
          /\ task'[h].at = "fn" /\ task'[h].tx = "aborted"
          /\ \A g \in Handlers \ {h} : task'[g] = task[g]
        BY <1>1, <2>1 DEF Task
    <2>4. ToldOK'
        BY <1>1, <2>1, ToldStays
    <2> QED
        BY <2>1, <2>2, <2>3, <2>4, SetKeepsRequests
<1>16. CASE FnReturns(h)
    <2>1. PICK label \in {"rollback", "commit"} : Goto(h, label)
        BY <1>16 DEF FnReturns
    <2>2. task[h].at = "fn" /\ UNCHANGED <<pool, faults, told>>
        BY <1>16 DEF FnReturns, At
    <2>3. task[h].tx # "none"
        BY <1>1, <2>2 DEF TasksOK
    <2> QED
        BY <1>3, <2>1, <2>2, <2>3, GotoKeepsRequests
<1>17. CASE Rollback(h)
    <2>1. task[h].at = "rollback" /\ Release(h) /\ Ends(h, "error", FALSE) /\ faults' = faults
        BY <1>17 DEF Rollback, At
    <2> QED
        BY <2>1, EndKeepsRequests
<1>18. CASE Commit(h)
    <2>1. task[h].at = "commit" /\ Release(h) /\ faults' = faults
        BY <1>18 DEF Commit, At
    <2>2. \/ Ends(h, "ok", TRUE)
          \/ \E committed \in BOOLEAN : Ends(h, "commit error", committed)
        BY <1>18 DEF Commit
    <2>3. CASE Ends(h, "ok", TRUE)
        BY <2>1, <2>3, EndKeepsRequests
    <2>4. ASSUME NEW committed \in BOOLEAN, Ends(h, "commit error", committed)
          PROVE  RequestsOK'
        BY <2>1, <2>4, EndKeepsRequests
    <2> QED
        BY <2>2, <2>3, <2>4
<1>19. CASE Panic(h)
    BY <1>19, PanicKeepsRequests
<1> QED
    BY <1>5, <1>6, <1>7, <1>8, <1>9, <1>10, <1>11, <1>12, <1>13, <1>14, <1>15, <1>16, <1>17,
       <1>18, <1>19, Zenon DEF RequestStep, Continues

-----------------------------------------------------------------------------
(* The process.                                                            *)

LEMMA OpenAtLabel ==
    /\ \A l \in {"database", "waitForPool", "exited"} : OpenAt[l] = {}
    /\ \A l \in {"ledger", "closeDatabase"} : OpenAt[l] = {"database"}
    /\ \A l \in {"cache", "closeLedger"} : OpenAt[l] = {"database", "ledger"}
    /\ \A l \in {"select", "shutdown", "drain", "closeCache"} : OpenAt[l] = Clients
BY DEF OpenAt, MainLabels

LEMMA NobodyHolds ==
    ASSUME TasksOK, NobodyLives
    PROVE  \A h \in Handlers : task[h].tx = "none" /\ task[h].at # "statement"
BY DEF TasksOK, NobodyLives, Live

\* A pool with every connection back in it has nothing under way.
LEMMA FullPoolHolds ==
    ASSUME RequestsOK, free = Conns
    PROVE  \A h \in Handlers : task[h].tx = "none" /\ task[h].at # "statement"
<1> SUFFICES ASSUME NEW h \in Handlers
             PROVE  task[h].tx = "none" /\ task[h].at # "statement"
    OBVIOUS
<1>1. txConn[h] \in Conns \union {NoConn} /\ stmtConn[h] \in Conns \union {NoConn}
    BY DEF RequestsOK, PoolTypes
<1>2. {txConn[h], stmtConn[h]} \cap (free \union leaked) = {}
    BY DEF RequestsOK, ConnectionsAreAccounted
<1>3. txConn[h] = NoConn /\ stmtConn[h] = NoConn
    BY <1>1, <1>2
<1> QED
    BY <1>3 DEF RequestsOK, ConnectionsAreAccounted

\* Connecting: run() goes on to the next client, or back through the open ones.
LEMMA ConnectKeepsProcess ==
    ASSUME ProcessOK, TasksOK, ConnectDatabase \/ ConnectLedger \/ ConnectCache
    PROVE  ProcessOK'
<1>1. /\ listener = "none" /\ NobodyLives /\ ~serverErr /\ task' = task
      /\ UNCHANGED <<signalled, serverErr, graceOver, answers>>
    BY DEF ProcessOK, ConnectDatabase, ConnectLedger, ConnectCache, Starting
<1>2. NobodyLives'
    BY <1>1 DEF NobodyLives, Live
<1>3. /\ main' \in MainLabels /\ open' = OpenAt[main']
      /\ main' \in Starting => listener' = "none"
      /\ listener' \in {"none", "binding"}
      /\ outcome' \in {"none", "ok", "error", "server error"}
      /\ faults' \in 0 .. MaxFaults
    <2>1. CASE ConnectDatabase
        <3>1. main = "database" /\ open = {} /\ listener' = listener /\ faults' = faults
            BY <2>1, OpenAtLabel DEF ProcessOK, ConnectDatabase
        <3>2. \/ main' = "ledger" /\ open' = {"database"} /\ outcome' = outcome
              \/ main' = "exited" /\ open' = {} /\ outcome' = "error"
            BY <2>1, <3>1 DEF ConnectDatabase, ReturnError
        <3> QED
            BY <1>1, <3>1, <3>2, OpenAtLabel DEF ProcessOK, ProcessTypes, MainLabels
    <2>2. CASE ConnectLedger
        <3>1. main = "ledger" /\ open = {"database"} /\ listener' = listener
            BY <2>2, OpenAtLabel DEF ProcessOK, ConnectLedger
        <3>2. faults' \in 0 .. MaxFaults
            BY <2>2, FaultCounts DEF ProcessOK, ProcessTypes, ConnectLedger
        <3>3. \/ main' = "cache" /\ open' = {"database", "ledger"} /\ outcome' = outcome
              \/ main' = "closeDatabase" /\ open' = {"database"} /\ outcome' = "error"
            BY <2>2, <3>1 DEF ConnectLedger, ReturnError
        <3> QED
            BY <1>1, <3>1, <3>2, <3>3, OpenAtLabel DEF ProcessOK, ProcessTypes, MainLabels
    <2>3. CASE ConnectCache
        <3>1. main = "cache" /\ open = {"database", "ledger"}
            BY <2>3, OpenAtLabel DEF ProcessOK, ConnectCache
        <3>2. faults' \in 0 .. MaxFaults
            BY <2>3, FaultCounts DEF ProcessOK, ProcessTypes, ConnectCache
        <3>3. \/ /\ main' = "select" /\ open' = Clients /\ outcome' = outcome
                 /\ listener' = "binding"
              \/ /\ main' = "closeLedger" /\ open' = {"database", "ledger"}
                 /\ outcome' = "error" /\ listener' = listener
            BY <2>3, <3>1 DEF ConnectCache, ReturnError, Clients
        <3> QED
            BY <1>1, <3>1, <3>2, <3>3, OpenAtLabel
            DEF ProcessOK, ProcessTypes, MainLabels, Starting
    <2> QED
        BY <2>1, <2>2, <2>3
<1>4. ProcessTypes'
    BY <1>1, <1>3 DEF ProcessOK, ProcessTypes
<1>5. ExitIsOrderly'
    <2>1. \A h \in Handlers : task'[h].tx = "none" /\ task'[h].at # "statement"
        BY <1>1, NobodyHolds
    <2> QED
        BY <1>3, <2>1, OpenAtLabel DEF ExitIsOrderly
<1>6. main' \in Closing => NobodyComes'
    BY <1>2, <1>3 DEF NobodyComes
<1> QED
    BY <1>1, <1>2, <1>3, <1>4, <1>5, <1>6 DEF ProcessOK

\* The goroutine of the listener, and what comes from outside.
LEMMA OutsideKeepsProcess ==
    ASSUME ProcessOK, Signal \/ Bind \/ AcceptError \/ Outage \/ Recovery
    PROVE  ProcessOK'
<1>1. /\ UNCHANGED <<main, outcome, graceOver, open, task>> /\ main # "exited"
      /\ NobodyLives' <=> NobodyLives
    <2>1. UNCHANGED <<main, outcome, graceOver, open, task>> /\ main # "exited"
        BY DEF Signal, Bind, AcceptError, Outage, Recovery, Running, process
    <2> QED
        BY <2>1 DEF NobodyLives, Live
<1>2. faults' \in 0 .. MaxFaults
    BY FaultCounts DEF ProcessOK, ProcessTypes, Signal, Bind, AcceptError, Outage, Recovery
<1>3. signalled' \in BOOLEAN /\ answers' \in BOOLEAN
    BY DEF ProcessOK, ProcessTypes, Signal, Bind, AcceptError, Outage, Recovery, process
<1>4. \/ listener' = listener /\ serverErr' = serverErr
      \/ /\ listener = "binding" /\ serverErr' = serverErr
         /\ \/ listener' = "open" /\ main \in {"select", "shutdown"}
            \/ listener' = "closed"
      \/ /\ listener = "binding"
         /\ listener' = "closed" /\ serverErr' = TRUE
      \/ /\ listener = "open"
         /\ listener' = "lingering" /\ serverErr' = TRUE
    BY DEF Signal, Bind, AcceptError, Outage, Recovery, process
<1>5. ProcessTypes'
    BY <1>1, <1>2, <1>3, <1>4 DEF ProcessOK, ProcessTypes
<1>6. main' \in Starting => listener' = "none"
    BY <1>1, <1>4 DEF ProcessOK
<1>7. listener' \in {"none", "binding"} => NobodyLives'
    BY <1>1, <1>4 DEF ProcessOK
<1>8. listener' = "open" => main' \in {"select", "shutdown"}
    BY <1>1, <1>4 DEF ProcessOK
<1>9. serverErr' => listener' \in {"lingering", "closed"}
    BY <1>4 DEF ProcessOK, ProcessTypes
<1>10. main' \in Closing => graceOver' \/ outcome' = "server error" \/ NobodyComes'
    BY <1>1, <1>4 DEF ProcessOK, NobodyComes, Closing
<1>11. ExitIsOrderly'
    BY <1>1 DEF ExitIsOrderly
<1> QED
    BY <1>1, <1>5, <1>6, <1>7, <1>8, <1>9, <1>10, <1>11 DEF ProcessOK

\* Stopping: the clients are closed once the requests are done or given up.
LEMMA StopKeepsProcess ==
    ASSUME ProcessOK, RequestsOK, Select \/ StopListening \/ Drain \/ CloseClients \/ PoolClosed
    PROVE  ProcessOK'
<1>1. UNCHANGED <<signalled, serverErr, answers, task, faults>> /\ (NobodyLives' <=> NobodyLives)
    <2>1. UNCHANGED <<signalled, serverErr, answers, task, faults>>
        BY DEF Select, StopListening, Drain, CloseClients, Closes, PoolClosed
    <2> QED
        BY <2>1 DEF NobodyLives, Live
<1>2. CASE Select
    <2>1. /\ main = "select" /\ open = Clients /\ UNCHANGED <<listener, graceOver, open>>
          /\ \/ serverErr /\ main' = "closeCache" /\ outcome' = "server error"
             \/ main' = "shutdown" /\ outcome' = outcome
        BY <1>2, OpenAtLabel DEF ProcessOK, Select
    <2>2. ProcessTypes' /\ ExitIsOrderly'
        BY <1>1, <2>1 DEF ProcessOK, ProcessTypes, MainLabels, ExitIsOrderly
    <2> QED
        BY <1>1, <2>1, <2>2, OpenAtLabel DEF ProcessOK, Starting, Closing
<1>3. CASE StopListening
    <2>1. /\ main = "shutdown" /\ main' = "drain" /\ open = Clients
          /\ UNCHANGED <<outcome, graceOver, open>>
          /\ listener' = IF listener = "open" THEN "lingering" ELSE listener
        BY <1>3, OpenAtLabel DEF ProcessOK, StopListening
    <2>2. ProcessTypes' /\ ExitIsOrderly'
        BY <1>1, <2>1 DEF ProcessOK, ProcessTypes, MainLabels, ExitIsOrderly
    <2> QED
        BY <1>1, <2>1, <2>2, OpenAtLabel DEF ProcessOK, ProcessTypes, Starting, Closing
<1>4. CASE Drain
    <2>1. /\ main = "drain" /\ main' = "closeCache" /\ open = Clients /\ open' = open
          /\ \/ /\ NobodyLives /\ outcome' = "ok" /\ graceOver' = graceOver
                /\ listener' = IF listener = "lingering" THEN "closed" ELSE listener
             \/ outcome' = "error" /\ graceOver' = TRUE /\ listener' = listener
        BY <1>4, OpenAtLabel DEF ProcessOK, Drain, NobodyLives
    <2>2. ProcessTypes' /\ ExitIsOrderly'
        BY <1>1, <2>1 DEF ProcessOK, ProcessTypes, MainLabels, ExitIsOrderly
    <2>3. listener # "open"
        BY <2>1 DEF ProcessOK
    <2>4. graceOver' \/ NobodyComes'
        BY <1>1, <2>1, <2>3 DEF NobodyComes
    <2>5. /\ serverErr' => listener' \in {"lingering", "closed"}
          /\ listener' \in {"none", "binding"} => NobodyLives'
          /\ listener' # "open"
        <3>1. listener' = listener \/ listener' = "closed"
            BY <2>1
        <3>2. serverErr' = serverErr /\ (NobodyLives' <=> NobodyLives)
            BY <1>1
        <3>3. serverErr => listener \in {"lingering", "closed"}
            BY DEF ProcessOK
        <3>4. listener \in {"none", "binding"} => NobodyLives
            BY DEF ProcessOK
        <3> QED
            BY <2>3, <3>1, <3>2, <3>3, <3>4
    <2> QED
        BY <2>1, <2>2, <2>4, <2>5, OpenAtLabel DEF ProcessOK, Starting
<1>5. CASE CloseClients
    <2>1. /\ UNCHANGED <<outcome, listener, graceOver>>
          /\ \/ main = "closeCache" /\ main' = "closeLedger" /\ open' = open \ {"cache"}
             \/ main = "closeLedger" /\ main' = "closeDatabase" /\ open' = open \ {"ledger"}
             \/ main = "closeDatabase" /\ main' = "waitForPool" /\ open' = open \ {"database"}
        BY <1>5 DEF CloseClients, Closes
    <2>2. open' = OpenAt[main']
        BY <2>1, OpenAtLabel DEF ProcessOK, Clients
    <2>3. ProcessTypes' /\ ExitIsOrderly'
        BY <1>1, <2>1 DEF ProcessOK, ProcessTypes, MainLabels, ExitIsOrderly
    <2>4. main \in Closing /\ main' \in Closing /\ main' \notin Starting
        BY <2>1 DEF Closing, Starting
    <2>5. listener # "open" /\ listener' = listener
        BY <2>1 DEF ProcessOK
    <2>6. NobodyComes => NobodyComes'
        BY <1>1, <2>1 DEF NobodyComes
    <2> QED
        BY <1>1, <2>1, <2>2, <2>3, <2>4, <2>5, <2>6 DEF ProcessOK
<1>6. CASE PoolClosed
    <2>1. /\ main = "waitForPool" /\ main' = "exited" /\ free = Conns
          /\ UNCHANGED <<outcome, listener, graceOver, open>>
        BY <1>6 DEF PoolClosed
    <2>2. ProcessTypes'
        BY <1>1, <2>1 DEF ProcessOK, ProcessTypes, MainLabels
    <2>3. open' = {}
        BY <2>1, OpenAtLabel DEF ProcessOK
    <2>4. ExitIsOrderly'
        BY <1>1, <2>1, <2>3, FullPoolHolds DEF ExitIsOrderly
    <2>5. NobodyComes => NobodyComes'
        BY <1>1, <2>1 DEF NobodyComes
    <2> QED
        BY <1>1, <2>1, <2>2, <2>3, <2>4, <2>5, OpenAtLabel DEF ProcessOK, Starting, Closing
<1> QED
    BY <1>2, <1>3, <1>4, <1>5, <1>6

\* A request lives only once the server listens, and has ended when it exits.
LEMMA RequestKeepsProcess ==
    ASSUME ProcessOK, RequestsOK, NEW h \in Handlers, RequestStep(h)
    PROVE  ProcessOK'
<1>1. UNCHANGED <<process, answers>> /\ main # "exited"
    BY DEF RequestStep, Continues, Accept, Call, Respond, Timeout, AcquireForStatement,
           AcquireFails, Statement, LedgerAnswers, LedgerClosed, Begin, BeginFails, Rollback,
           Commit, StatementInTxFails, FnReturns, Panic, At, Running
<1>2. /\ UNCHANGED <<main, outcome, signalled, listener, serverErr, graceOver, open, answers>>
      /\ main # "exited"
    BY <1>1 DEF process
<1>3. faults' \in 0 .. MaxFaults
    <2>1. CASE Panic(h)
        BY <2>1, FaultCounts DEF ProcessOK, ProcessTypes, Panic
    <2>2. CASE ~Panic(h)
        <3>1. faults' = faults
            BY <2>2 DEF RequestStep, Continues, Accept, Call, Respond, Timeout,
               AcquireForStatement, AcquireFails, Statement, LedgerAnswers, LedgerClosed, Begin,
               BeginFails, Rollback, Commit, StatementInTxFails, FnReturns
        <3> QED
            BY <3>1 DEF ProcessOK, ProcessTypes
    <2> QED
        BY <2>1, <2>2
<1>4. listener \in {"open", "lingering"} \/ Live(h)
    BY DEF RequestStep, Continues, Accept, Call, Respond, Timeout, AcquireForStatement,
           AcquireFails, Statement, LedgerAnswers, LedgerClosed, Begin, BeginFails, Rollback,
           Commit, StatementInTxFails, FnReturns, Panic, At, Live
<1>5. listener \notin {"none", "binding"}
    BY <1>4 DEF ProcessOK, NobodyLives
<1>6. main \in Closing => graceOver \/ outcome = "server error"
    BY <1>4 DEF ProcessOK, NobodyComes, NobodyLives
<1>7. ProcessTypes'
    BY <1>2, <1>3 DEF ProcessOK, ProcessTypes
<1>8. ExitIsOrderly'
    BY <1>2 DEF ExitIsOrderly
<1> QED
    BY <1>2, <1>5, <1>6, <1>7, <1>8 DEF ProcessOK

-----------------------------------------------------------------------------
LEMMA RequestsStay ==
    ASSUME RequestsOK, UNCHANGED <<task, pool, told>>, faults \in Nat, faults' \in Nat,
           faults' >= faults
    PROVE  RequestsOK'
<1>1. PoolTypes' /\ ConnectionsAreAccounted'
    BY PoolUntouched DEF RequestsOK
<1>2. TasksOK' /\ ToldOK'
    BY ToldStays DEF RequestsOK, TasksOK
<1> QED
    BY <1>1, <1>2 DEF RequestsOK

LEMMA StepIInv == IInv /\ [Next]_vars => IInv'
<1> SUFFICES ASSUME IInv, [Next]_vars PROVE IInv'
    OBVIOUS
<1>1. ProcessOK /\ RequestsOK /\ TasksOK /\ faults \in 0 .. MaxFaults /\ faults \in Nat
    <2>1. ProcessOK /\ RequestsOK /\ TasksOK
        BY DEF IInv, RequestsOK
    <2>2. faults \in 0 .. MaxFaults
        BY <2>1 DEF ProcessOK, ProcessTypes
    <2> QED
        BY <2>1, <2>2, PoolAssumption
<1>2. ASSUME UNCHANGED <<task, pool, told>>, faults' = faults \/ Fault
      PROVE  RequestsOK'
    <2>1. faults' \in Nat /\ faults' >= faults
        BY <1>1, <1>2, FaultCounts, PoolAssumption
    <2> QED
        BY <1>1, <1>2, <2>1, RequestsStay
<1>3. CASE MainStep
    <2>1. UNCHANGED <<task, pool, told>> /\ (faults' = faults \/ Fault)
        BY <1>3 DEF MainStep, ConnectDatabase, ConnectLedger, ConnectCache, Select, StopListening,
                    Drain, CloseClients, Closes, PoolClosed
    <2>2. ProcessOK'
        BY <1>1, <1>3, ConnectKeepsProcess, StopKeepsProcess DEF MainStep
    <2> QED
        BY <1>2, <2>1, <2>2 DEF IInv
<1>4. CASE Signal \/ Bind \/ AcceptError \/ Outage \/ Recovery
    <2>1. UNCHANGED <<task, pool, told>> /\ (faults' = faults \/ Fault)
        BY <1>4 DEF Signal, Bind, AcceptError, Outage, Recovery
    <2>2. ProcessOK'
        BY <1>1, <1>4, OutsideKeepsProcess
    <2> QED
        BY <1>2, <2>1, <2>2 DEF IInv
<1>5. ASSUME NEW h \in Handlers, RequestStep(h) PROVE IInv'
    BY <1>1, <1>5, RequestKeepsProcess, RequestKeepsRequests DEF IInv
<1>6. CASE UNCHANGED vars
    <2>1. UNCHANGED <<main, outcome, signalled, listener, serverErr, graceOver, open, answers,
                      task, faults>>
        BY <1>6 DEF vars, process
    <2>2. UNCHANGED <<task, pool, told>> /\ faults' = faults
        BY <1>6 DEF vars
    <2>3. ProcessOK'
        BY <1>1, <2>1 DEF ProcessOK, ProcessTypes, NobodyComes, NobodyLives, Live, ExitIsOrderly
    <2> QED
        BY <1>2, <2>2, <2>3 DEF IInv
<1> QED
    BY <1>3, <1>4, <1>5, <1>6 DEF Next

\* The inductive invariant holds in every reachable state.
THEOREM Inductive == Spec => []IInv
BY InitIInv, StepIInv, PTL DEF Spec

-----------------------------------------------------------------------------
\* In every reachable state the process, its requests and the pool have their
\* types.
THEOREM TypeCorrect == Spec => []TypeOK
<1>1. IInv => TypeOK
    <2> SUFFICES ASSUME IInv PROVE TypeOK
        OBVIOUS
    <2>1. ProcessTypes /\ open = OpenAt[main]
        BY DEF IInv, ProcessOK
    <2>2. open \subseteq Clients
        BY <2>1, OpenAtLabel DEF ProcessTypes, MainLabels, Clients
    <2>3. PoolTypes
        BY DEF IInv, RequestsOK
    <2>4. task \in [Handlers -> Task] /\ told \in [Handlers -> Told]
        BY DEF IInv, RequestsOK, TasksOK, ToldOK
    <2>5. /\ {signalled, serverErr, graceOver} \subseteq BOOLEAN
          /\ {txConn, stmtConn} \subseteq [Handlers -> Conns \union {NoConn}]
        BY <2>1, <2>3 DEF ProcessTypes, PoolTypes
    <2> QED
        BY <2>1, <2>2, <2>3, <2>4, <2>5, Zenon DEF ProcessTypes, PoolTypes, Told, TypeOK
<1> QED
    BY <1>1, Inductive, PTL

\* A client is closed under a live request only after Shutdown gave up on it
\* or when run returns because the server failed, whenever the signal comes.
THEOREM CutOffsHaveCause == Spec => []CutOffNeedsCause
<1>1. IInv => CutOffNeedsCause
    <2> SUFFICES ASSUME IInv, NEW h \in Handlers, Live(h), open # Clients
                 PROVE  graceOver \/ outcome = "server error"
        BY DEF CutOffNeedsCause
    <2>1. listener \notin {"none", "binding"}
        BY DEF IInv, ProcessOK, NobodyLives
    <2>2. main \notin Starting
        BY <2>1 DEF IInv, ProcessOK
    <2>3. main \notin {"select", "shutdown", "drain", "closeCache"}
        BY OpenAtLabel DEF IInv, ProcessOK
    <2>4. main \in Closing
        BY <2>2, <2>3 DEF IInv, ProcessOK, ProcessTypes, MainLabels, Starting, Closing
    <2> QED
        BY <2>4 DEF IInv, ProcessOK, NobodyComes, NobodyLives
<1> QED
    BY <1>1, Inductive, PTL

\* However far the start came, a process that ends has closed every client it
\* opened and cut no statement or transaction in two.
THEOREM ExitsAreOrderly == Spec => []ExitIsOrderly
<1>1. IInv => ExitIsOrderly
    BY DEF IInv, ProcessOK
<1> QED
    BY <1>1, Inductive, PTL

\* Every connection of the pool is free, with exactly one request, or leaked by
\* a panic, whatever times out, fails or is cut off.
THEOREM ConnectionsAreNeverLost == Spec => []ConnectionsAreAccounted
<1>1. IInv => ConnectionsAreAccounted
    BY DEF IInv, RequestsOK
<1> QED
    BY <1>1, Inductive, PTL

\* nil from WithTx means committed, and an error that is not COMMIT's own means
\* that nothing was.
THEOREM TxAnswersAreAlwaysTrue == Spec => []TxAnswersAreTrue
<1>1. IInv => TxAnswersAreTrue
    BY DEF IInv, RequestsOK, ToldOK
<1> QED
    BY <1>1, Inductive, PTL

=============================================================================
