---------------------------- MODULE ServerProcess ----------------------------
(***************************************************************************)
(* The process from start to exit: run (cmd/api/main.go), the HTTP server  *)
(* (internal/server/server.go) with its requests in flight, the connection *)
(* pool they share (internal/db/db.go) and transactions on it              *)
(* (internal/db/tx.go).                                                    *)
(*                                                                         *)
(* A request is any sequence of the calls that handlers are built from: a  *)
(* repository call, which takes a connection of the pool for one           *)
(* statement, a call to TigerBeetle, which takes no context, and WithTx or *)
(* WithTxResult, whose callback may make the same calls again              *)
(* (repositories are built on the pool, so inside a callback they take a   *)
(* second connection).  No handler calls WithTx yet: its callers are the   *)
(* most general ones.                                                      *)
(***************************************************************************)
EXTENDS Integers, FiniteSets

CONSTANTS
    Handlers,   \* requests that may be in flight at once
    Conns,      \* connections of the pool (MaxConns of them)
    NoConn,     \* not a connection
    MaxFaults   \* bound on outages, panics, bind and accept errors

ASSUME PoolAssumption ==
    /\ Conns # {} /\ NoConn \notin Conns
    /\ MaxFaults \in Nat

VARIABLES
    main,       \* where run() is
    outcome,    \* what it is going to return
    signalled,  \* SIGINT or SIGTERM has come: ctx is cancelled
    listener,   \* the socket and its connections, served by goroutines of their own
    serverErr,  \* errChan holds an error of ListenAndServe
    graceOver,  \* Shutdown gave up waiting
    open,       \* clients that were opened and not closed
    answers,    \* the database answers
    task,       \* the request of each handler: its next call, its context, its transaction
    txConn,     \* the connection of each request's transaction
    stmtConn,   \* the connection of each request's statement outside a transaction
    free,       \* connections the pool can hand out
    leaked,     \* connections whose request is gone
    told,       \* what WithTx has just returned to a request, and whether it committed
    faults      \* outages, panics and errors so far

process == <<main, outcome, signalled, listener, serverErr, graceOver, open>>
pool == <<txConn, stmtConn, free, leaked>>
vars == <<process, answers, task, pool, told, faults>>

-----------------------------------------------------------------------------
Clients == {"database", "ledger", "cache"}

NoTask == [at |-> "idle", late |-> FALSE, tx |-> "none"]

NotTold == [result |-> "none", committed |-> FALSE]

Init ==
    /\ main = "database"
    /\ outcome = "none"
    /\ signalled = FALSE
    /\ listener = "none"
    /\ serverErr = FALSE
    /\ graceOver = FALSE
    /\ open = {}
    /\ answers = TRUE
    /\ task = [h \in Handlers |-> NoTask]
    /\ txConn = [h \in Handlers |-> NoConn]
    /\ stmtConn = [h \in Handlers |-> NoConn]
    /\ free = Conns
    /\ leaked = {}
    /\ told = [h \in Handlers |-> NotTold]
    /\ faults = 0

Live(h) == task[h].at # "idle"

Fault ==
    /\ faults < MaxFaults
    /\ faults' = faults + 1

-----------------------------------------------------------------------------
(* run().  The deferred calls close the clients in the reverse order.      *)

\* Mutant: the process ends at once when a dependency is missing.
FailFast(label) ==
    /\ outcome' = "error"
    /\ main' = "exited"

\* run returns an error: whatever was opened is closed, the latest first.
ReturnError(label) ==
    /\ outcome' = "error"
    /\ main' = label

\* db.New opens the pool and pings through it; a failed ping closes it again.
ConnectDatabase ==
    /\ main = "database"
    /\ \/ /\ ~signalled /\ answers
          /\ open' = open \union {"database"}
          /\ main' = "ledger"
          /\ UNCHANGED outcome
       \/ /\ signalled \/ ~answers
          /\ ReturnError("exited")
          /\ UNCHANGED open
    /\ UNCHANGED <<signalled, listener, serverErr, graceOver, answers, task, pool, told, faults>>

\* ledger.NewClient neither waits for the cluster nor looks at the context.
ConnectLedger ==
    /\ main = "ledger"
    /\ \/ /\ open' = open \union {"ledger"}
          /\ main' = "cache"
          /\ UNCHANGED <<outcome, faults>>
       \/ /\ Fault
          /\ ReturnError("closeDatabase")
          /\ UNCHANGED open
    /\ UNCHANGED <<signalled, listener, serverErr, graceOver, answers, task, pool, told>>

ConnectCache ==
    /\ main = "cache"
    /\ \/ /\ ~signalled
          /\ open' = open \union {"cache"}
          /\ main' = "select"
          /\ listener' = "binding"
          /\ UNCHANGED <<outcome, faults>>
       \/ /\ IF signalled THEN UNCHANGED faults ELSE Fault
          /\ ReturnError("closeLedger")
          /\ UNCHANGED <<open, listener>>
    /\ UNCHANGED <<signalled, serverErr, graceOver, answers, task, pool, told>>

\* A further signal changes nothing: ctx is already cancelled.
Signal ==
    /\ main # "exited"
    /\ ~signalled
    /\ signalled' = TRUE
    /\ UNCHANGED <<main, outcome, listener, serverErr, graceOver, open, answers, task, pool, told,
                   faults>>

\* ListenAndServe, in its goroutine: after Shutdown it does not listen.
Bind ==
    /\ listener = "binding"
    /\ main # "exited"
    /\ \/ /\ listener' = IF main \in {"select", "shutdown"} THEN "open" ELSE "closed"
          /\ UNCHANGED <<serverErr, faults>>
       \/ /\ Fault
          /\ listener' = "closed"
          /\ serverErr' = TRUE
    /\ UNCHANGED <<main, outcome, signalled, graceOver, open, answers, task, pool, told>>

\* Accept fails for good: Serve returns while requests are in flight, and the
\* connections that clients have opened go on being served.
AcceptError ==
    /\ listener = "open"
    /\ main # "exited"
    /\ Fault
    /\ listener' = "lingering"
    /\ serverErr' = TRUE
    /\ UNCHANGED <<main, outcome, signalled, graceOver, open, answers, task, pool, told>>

\* Either case of the select may be taken when both are ready.  An error of the
\* server is returned at once: there is no Shutdown on that way out.
Select ==
    /\ main = "select"
    /\ \/ /\ serverErr
          /\ outcome' = "server error"
          /\ main' = "closeCache"
       \/ /\ signalled
          /\ main' = "shutdown"
          /\ UNCHANGED outcome
    /\ UNCHANGED <<signalled, listener, serverErr, graceOver, open, answers, task, pool, told,
                   faults>>

\* Shutdown closes the listener before it waits; a request may still come on a
\* connection that was opened before.
StopListening ==
    /\ main = "shutdown"
    /\ listener' = IF listener = "open" THEN "lingering" ELSE listener
    /\ main' = "drain"
    /\ UNCHANGED <<outcome, signalled, serverErr, graceOver, open, answers, task, pool, told, faults>>

\* Mutant: Close instead of Shutdown, which waits for nobody.
DrainAtOnce ==
    /\ main = "drain"
    /\ main' = "closeCache"
    /\ outcome' = "ok"
    /\ UNCHANGED <<signalled, listener, serverErr, graceOver, open, answers, task, pool, told, faults>>

\* It returns when no request is in flight and every connection is closed, or
\* after 30 seconds.
Drain ==
    /\ main = "drain"
    /\ main' = "closeCache"
    /\ \/ /\ \A h \in Handlers : ~Live(h)
          /\ outcome' = "ok"
          /\ listener' = IF listener = "lingering" THEN "closed" ELSE listener
          /\ UNCHANGED graceOver
       \/ /\ \E h \in Handlers : Live(h)
          /\ outcome' = "error"
          /\ graceOver' = TRUE
          /\ UNCHANGED listener
    /\ UNCHANGED <<signalled, serverErr, open, answers, task, pool, told, faults>>

Closes(label, client, next) ==
    /\ main = label
    /\ open' = open \ {client}
    /\ main' = next
    /\ UNCHANGED <<outcome, signalled, listener, serverErr, graceOver, answers, task, pool, told,
                   faults>>

\* Mutant: the database is closed before the ledger.
CloseClientsInOpeningOrder ==
    \/ Closes("closeCache", "cache", "closeDatabase")
    \/ Closes("closeDatabase", "database", "waitForPool")

CloseClients ==
    \/ Closes("closeCache", "cache", "closeLedger")
    \/ Closes("closeLedger", "ledger", "closeDatabase")
    \/ Closes("closeDatabase", "database", "waitForPool")

\* pgxpool.Close returns when every connection has come back, and run with it.
PoolClosed ==
    /\ main = "waitForPool"
    /\ free = Conns
    /\ main' = "exited"
    /\ UNCHANGED <<outcome, signalled, listener, serverErr, graceOver, open, answers, task, pool, told,
                   faults>>

-----------------------------------------------------------------------------
(* Requests.                                                               *)

Running == main # "exited"

At(h, labels) == Running /\ task[h].at \in labels

Goto(h, label) == task' = [task EXCEPT ![h].at = label]

\* The code that made a call goes on: a callback, or the handler itself.
CallerOf(h) == IF task[h].tx = "none" THEN "run" ELSE "fn"

\* A request comes, on a connection that is new or was opened before.
Accept(h) ==
    /\ At(h, {"idle"})
    /\ listener \in {"open", "lingering"}
    /\ task' = [task EXCEPT ![h] = [NoTask EXCEPT !.at = "run"]]
    /\ UNCHANGED <<process, answers, pool, told, faults>>

\* The next call: a statement, the ledger or, outside a callback, WithTx.
Call(h) ==
    /\ At(h, {"run", "fn"})
    /\ \E label \in {"acquire", "ledger"} \union (IF task[h].tx = "none" THEN {"begin"} ELSE {}) :
           Goto(h, label)
    /\ told' = [told EXCEPT ![h] = NotTold]
    /\ UNCHANGED <<process, answers, pool, faults>>

Respond(h) ==
    /\ At(h, {"run"})
    /\ task' = [task EXCEPT ![h] = NoTask]
    /\ told' = [told EXCEPT ![h] = NotTold]
    /\ UNCHANGED <<process, answers, pool, faults>>

\* Mutant: the middleware is not installed.
NoTimeout(h) == FALSE

\* middleware.Timeout cancels the context of a request after 30 seconds.
Timeout(h) ==
    /\ Running
    /\ Live(h)
    /\ ~task[h].late
    /\ task' = [task EXCEPT ![h].late = TRUE]
    /\ UNCHANGED <<process, answers, pool, told, faults>>

AcquireForStatement(h) ==
    /\ At(h, {"acquire"})
    /\ "database" \in open /\ ~task[h].late
    /\ \E c \in free :
          /\ free' = free \ {c}
          /\ stmtConn' = [stmtConn EXCEPT ![h] = c]
    /\ Goto(h, "statement")
    /\ UNCHANGED <<process, answers, txConn, leaked, told, faults>>

\* The pool is closed, or the context ended before a connection was free.
AcquireFails(h) ==
    /\ At(h, {"acquire"})
    /\ "database" \notin open \/ task[h].late
    /\ Goto(h, CallerOf(h))
    /\ UNCHANGED <<process, answers, pool, told, faults>>

\* A statement succeeds or fails, on its own connection.
Statement(h) ==
    /\ At(h, {"statement"})
    /\ free' = free \union {stmtConn[h]}
    /\ stmtConn' = [stmtConn EXCEPT ![h] = NoConn]
    /\ Goto(h, CallerOf(h))
    /\ UNCHANGED <<process, answers, txConn, leaked, told, faults>>

\* The cluster may never answer, and no context ends the wait.
LedgerAnswers(h) ==
    /\ At(h, {"ledger"})
    /\ Goto(h, CallerOf(h))
    /\ UNCHANGED <<process, answers, pool, told, faults>>

\* Closing the client answers every request that is still waiting.
LedgerClosed(h) ==
    /\ At(h, {"ledger"})
    /\ "ledger" \notin open
    /\ Goto(h, CallerOf(h))
    /\ UNCHANGED <<process, answers, pool, told, faults>>

-----------------------------------------------------------------------------
(* WithTx and WithTxResult.                                                *)

Ends(h, result, committed) ==
    /\ told' = [told EXCEPT ![h] = [result |-> result, committed |-> committed]]
    /\ task' = [task EXCEPT ![h].at = "run", ![h].tx = "none"]

\* The connection of the transaction goes back to the pool.
Release(h) ==
    /\ free' = free \union {txConn[h]}
    /\ txConn' = [txConn EXCEPT ![h] = NoConn]
    /\ UNCHANGED <<stmtConn, leaked>>

Begin(h) ==
    /\ At(h, {"begin"})
    /\ "database" \in open /\ answers /\ ~task[h].late
    /\ \E c \in free :
          /\ free' = free \ {c}
          /\ txConn' = [txConn EXCEPT ![h] = c]
    /\ task' = [task EXCEPT ![h].at = "fn", ![h].tx = "open"]
    /\ UNCHANGED <<process, answers, stmtConn, leaked, told, faults>>

\* Mutant: WithTx releases on every error, also a connection it never got.
BeginFailsReleases(h) ==
    /\ At(h, {"begin"})
    /\ "database" \notin open \/ ~answers \/ task[h].late
    /\ Release(h)
    /\ Ends(h, "error", FALSE)
    /\ UNCHANGED <<process, answers, faults>>

\* A connection that BEGIN failed on goes straight back.
BeginFails(h) ==
    /\ At(h, {"begin"})
    /\ "database" \notin open \/ ~answers \/ task[h].late
    /\ Ends(h, "error", FALSE)
    /\ UNCHANGED <<process, answers, pool, faults>>

\* A statement of the callback on tx fails: the transaction can only roll back.
StatementInTxFails(h) ==
    /\ At(h, {"fn"})
    /\ ~answers \/ task[h].late
    /\ task' = [task EXCEPT ![h].tx = "aborted"]
    /\ UNCHANGED <<process, answers, pool, told, faults>>

\* The callback returns an error or nil, whatever became of its statements.
FnReturns(h) ==
    /\ At(h, {"fn"})
    /\ \E label \in {"rollback", "commit"} : Goto(h, label)
    /\ UNCHANGED <<process, answers, pool, told, faults>>

\* Mutant: the transaction is not rolled back when the callback fails.
RollbackForgotten(h) ==
    /\ At(h, {"rollback"})
    /\ Ends(h, "error", FALSE)
    /\ UNCHANGED <<process, answers, pool, faults>>

\* A failed ROLLBACK closes the connection; it goes back either way.
Rollback(h) ==
    /\ At(h, {"rollback"})
    /\ Release(h)
    /\ Ends(h, "error", FALSE)
    /\ UNCHANGED <<process, answers, faults>>

\* Mutant: the error of COMMIT is not looked at.
CommitIgnoresError(h) ==
    /\ At(h, {"commit"})
    /\ Release(h)
    /\ Ends(h, "ok", task[h].tx = "open" /\ answers /\ ~task[h].late)
    /\ UNCHANGED <<process, answers, faults>>

\* COMMIT of an aborted transaction rolls back, and pgx makes an error of it.
\* When the store or the context ends meanwhile, it may have committed or not.
Commit(h) ==
    /\ At(h, {"commit"})
    /\ Release(h)
    /\ \/ /\ task[h].tx = "open" /\ answers /\ ~task[h].late
          /\ Ends(h, "ok", TRUE)
       \/ /\ task[h].tx = "aborted"
          /\ Ends(h, "commit error", FALSE)
       \/ /\ task[h].tx = "open"
          /\ ~answers \/ task[h].late
          /\ \E committed \in BOOLEAN : Ends(h, "commit error", committed)
    /\ UNCHANGED <<process, answers, faults>>

\* Recoverer answers 500 and the request is gone.  WithTx has no deferred
\* rollback: a panic in its callback leaves the connection acquired for good.
Panic(h) ==
    /\ At(h, {"run", "fn"})
    /\ Fault
    /\ task' = [task EXCEPT ![h] = NoTask]
    /\ leaked' = IF task[h].tx = "none" THEN leaked ELSE leaked \union {txConn[h]}
    /\ txConn' = [txConn EXCEPT ![h] = NoConn]
    /\ told' = [told EXCEPT ![h] = NotTold]
    /\ UNCHANGED <<process, answers, stmtConn, free>>

-----------------------------------------------------------------------------
(* PostgreSQL.                                                             *)

Outage ==
    /\ Running
    /\ answers
    /\ Fault
    /\ answers' = FALSE
    /\ UNCHANGED <<process, task, pool, told>>

Recovery ==
    /\ Running
    /\ ~answers
    /\ answers' = TRUE
    /\ UNCHANGED <<process, task, pool, told, faults>>

MainStep ==
    \/ ConnectDatabase
    \/ ConnectLedger
    \/ ConnectCache
    \/ Select
    \/ StopListening
    \/ Drain
    \/ CloseClients
    \/ PoolClosed

\* What ends a wait of a request, or a call it made.
Continues(h) ==
    \/ AcquireForStatement(h)
    \/ AcquireFails(h)
    \/ Statement(h)
    \/ LedgerClosed(h)
    \/ Begin(h)
    \/ BeginFails(h)
    \/ Rollback(h)
    \/ Commit(h)

RequestStep(h) ==
    \/ Accept(h)
    \/ Call(h)
    \/ Respond(h)
    \/ Timeout(h)
    \/ Continues(h)
    \/ LedgerAnswers(h)
    \/ StatementInTxFails(h)
    \/ FnReturns(h)
    \/ Panic(h)

Next ==
    \/ MainStep
    \/ Signal
    \/ Bind
    \/ AcceptError
    \/ \E h \in Handlers : RequestStep(h)
    \/ Outage
    \/ Recovery

Spec == Init /\ [][Next]_vars

\* main and every handler are scheduled, timers run out, and no handler or
\* callback makes calls without end.  Nothing is assumed of the ledger, nor
\* that a store ever recovers.
Fairness ==
    /\ WF_vars(MainStep)
    /\ \A h \in Handlers :
           /\ WF_vars(Continues(h))
           /\ WF_vars(Timeout(h))
           /\ SF_vars(Respond(h))
           /\ SF_vars(FnReturns(h))

FairSpec == Spec /\ Fairness

-----------------------------------------------------------------------------
(* Correctness.                                                            *)

MainLabels == {"database", "ledger", "cache", "select", "shutdown", "drain", "closeCache",
               "closeLedger", "closeDatabase", "waitForPool", "exited"}

TaskLabels == {"idle", "run", "acquire", "statement", "ledger", "begin", "fn", "rollback",
               "commit"}

Task == [at : TaskLabels, late : BOOLEAN, tx : {"none", "open", "aborted"}]

\* Type invariant of the process, its requests and the pool.
TypeOK ==
    /\ main \in MainLabels
    /\ outcome \in {"none", "ok", "error", "server error"}
    /\ {signalled, serverErr, graceOver} \subseteq BOOLEAN
    /\ listener \in {"none", "binding", "open", "lingering", "closed"}
    /\ open \subseteq Clients
    /\ answers \in BOOLEAN
    /\ task \in [Handlers -> Task]
    /\ {txConn, stmtConn} \subseteq [Handlers -> Conns \union {NoConn}]
    /\ free \subseteq Conns
    /\ leaked \subseteq Conns
    /\ told \in [Handlers -> [result : {"none", "ok", "error", "commit error"},
                              committed : BOOLEAN]]
    /\ faults \in 0 .. MaxFaults

\* A request finds a client closed only after Shutdown has given up on it, when
\* a signal ends the process: neither a signal at any moment, the one that races
\* with the start of the listener or with its failure included, nor a request
\* that comes late on an open connection is cut off while it could still finish.
\* When run returns because the server failed it waits for nobody, although the
\* comments of main.go:28-30 and 97-99 promise a graceful end in both cases.
CutOffNeedsCause ==
    (\E h \in Handlers : Live(h)) /\ open # Clients => graceOver \/ outcome = "server error"

\* However far the start came and however the process stops, the clients it
\* opened are closed when it ends, and no statement or transaction is cut in
\* two by its end: database.Close waits for the connections that are out.
ExitIsOrderly ==
    main = "exited" =>
        /\ open = {}
        /\ \A h \in Handlers : task[h].tx = "none" /\ task[h].at # "statement"

\* Every connection is free, or in the hands of one request for the statement
\* or the transaction it is at, or was left behind by a panic: timeouts, outages,
\* failed rollbacks and ambiguous commits lose none, and two never share one.
ConnectionsAreAccounted ==
    /\ \A h \in Handlers :
           /\ txConn[h] = NoConn <=> task[h].tx = "none"
           /\ stmtConn[h] = NoConn <=> task[h].at # "statement"
           /\ {txConn[h], stmtConn[h]} \cap (free \union leaked) = {}
           /\ txConn[h] = stmtConn[h] => txConn[h] = NoConn
    /\ \A g, h \in Handlers :
           g # h => {txConn[g], stmtConn[g]} \cap {txConn[h], stmtConn[h]} \subseteq {NoConn}
    /\ \A c \in Conns :
           c \in free \union leaked \/ \E h \in Handlers : c \in {txConn[h], stmtConn[h]}
    /\ free \cap leaked = {}
    /\ leaked # {} => faults > 0

\* What WithTx returned is true of the database: nil means committed, and only
\* an error of COMMIT itself leaves open whether the work was done.
TxAnswersAreTrue ==
    \A h \in Handlers :
        /\ told[h].result = "ok" => told[h].committed
        /\ told[h].result = "error" => ~told[h].committed

\* Every request comes to an end, even when transactions take every connection
\* and each waits for one more, or a leak has emptied the pool: unless it is the
\* ledger that never answers.
RequestsEnd ==
    \A h \in Handlers :
        ([]<>(task[h].at # "ledger")) => (Live(h) ~> (~Live(h) \/ main = "exited"))

\* A signal ends the process, even if the ledger never answers and requests
\* wait for it inside a transaction: the ledger's client is closed before the
\* pool is waited for.  A leaked connection is the one thing that prevents it.
SignalStops == signalled ~> (main = "exited" \/ leaked # {})

=============================================================================
