-------------------------- MODULE IdempotentIntake --------------------------
(***************************************************************************)
(* What the idempotency key of a transfer request promises its tenant      *)
(* (docs/TIMELINE.md: "Idempotency key prevents duplicate transfers";      *)
(* docs/SECURITY.md, Idempotency): the first request under a key executes, *)
(* and whoever repeats its payload is answered with the transfer it made.  *)
(* A request that reuses the key for another payload executes nothing;     *)
(* what it is answered is left open here, since the code answers it as a   *)
(* repetition and docs/SECURITY.md asks for 422.                           *)
(***************************************************************************)
CONSTANTS
    Keys,       \* (tenant, key) pairs
    Payloads,   \* what requests ask for
    Ids         \* transfer ids

VARIABLES
    executed,   \* the transfers made: triples <<key, payload, id>>
    answered    \* the ids answered: triples <<key, payload, id>>

Init ==
    /\ executed = {}
    /\ answered = {}

Free(k, id) == \A e \in executed : e[1] # k /\ e[3] # id

\* The first request under k makes transfer id.
Execute(k, p, id) ==
    /\ Free(k, id)
    /\ executed' = executed \union {<<k, p, id>>}
    /\ UNCHANGED answered

\* A request that makes the transfer is answered in the same step.
ExecuteAndAnswer(k, p, id) ==
    /\ Free(k, id)
    /\ executed' = executed \union {<<k, p, id>>}
    /\ answered' = answered \union {<<k, p, id>>}

\* A repetition of the request that made a transfer is answered with it.
Answer(k, p, id) ==
    /\ <<k, p, id>> \in executed
    /\ answered' = answered \union {<<k, p, id>>}
    /\ UNCHANGED executed

\* The key is taken by another payload: any answer.
AnswerReuse(k, p, id) ==
    /\ \E e \in executed : e[1] = k /\ e[2] # p
    /\ answered' = answered \union {<<k, p, id>>}
    /\ UNCHANGED executed

Next ==
    \E k \in Keys, p \in Payloads, id \in Ids :
        \/ Execute(k, p, id)
        \/ ExecuteAndAnswer(k, p, id)
        \/ Answer(k, p, id)
        \/ AnswerReuse(k, p, id)

Spec == Init /\ [][Next]_<<executed, answered>>

=============================================================================
