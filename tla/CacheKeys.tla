------------------------------ MODULE CacheKeys ------------------------------
(***************************************************************************)
(* The Redis cache (internal/cache/client.go): FX rate locks, results of   *)
(* idempotent requests, tenants of API keys, and the rate limiter.         *)
(*                                                                         *)
(* Every operation touches one key, and Redis keys do not interact, so a   *)
(* behaviour is that of one key of one family.  The repository builds the  *)
(* client but calls only Ping and Close on it: callers are the most        *)
(* general ones, several at a time, with any arguments.                    *)
(*                                                                         *)
(* Times are counted from now (what is left of a lifetime, or the age of   *)
(* an entry), in ticks, so no clock has to be bounded.  There are Second   *)
(* ticks in a second where lifetimes are read; the limiter reads Unix      *)
(* seconds, and a tick is one of those.                                    *)
(***************************************************************************)
EXTENDS Integers, FiniteSets

CONSTANTS
    Callers,    \* goroutines that use the client
    Values,     \* rates, results or tenants
    TTLs,       \* int64(ttl.Seconds()): 0 is a lifetime below one second
    Second,     \* ticks in a second, for the keys with a TTL reply
    Window,     \* seconds of the rate window and of its key (60)
    Limit,      \* requests per window
    MaxDelay,   \* bound on the ticks between time.Now() and its Redis command
    MaxFaults   \* bound on failed commands and crashes

ASSUME CacheAssumption ==
    /\ TTLs \subseteq Nat
    /\ {Window, Second} \subseteq Nat \ {0}
    /\ {Limit, MaxDelay, MaxFaults} \subseteq Nat

VARIABLES
    family,     \* which operations use the key
    entry,      \* the string key: value and remaining lifetime
    window,     \* the sorted set of the rate limiter, its members by age
    windowTTL,  \* remaining lifetime of the sorted set
    call,       \* the command each caller is about to send, and its locals
    got,        \* what each caller's last read or decision returned
    stands,     \* successful sets whose lifetime has not passed
    admitted,   \* ages below Window of the seconds in which a request was let through
    undone,     \* callers whose lock was gone before they sent EXPIRE
    abandoned,  \* the EXPIRE that belongs to the last SETNX will not come
    steady,     \* readers whose lock was not removed, nor given a second lifetime, since
    faults      \* failed commands and crashes so far

cacheVars == <<entry, window, windowTTL>>
ghosts == <<stands, admitted, undone, abandoned, steady>>
vars == <<family, cacheVars, call, got, ghosts, faults>>

-----------------------------------------------------------------------------
(* Redis, external.                                                        *)

NoExpiry == -1
NoKey == -2
NoValue == "none"

Absent == [value |-> NoValue, ttl |-> NoKey]

Ticks(secs) == secs * Second

Half == Second \div 2

\* EXPIRE on a key that may be gone; a lifetime of 0 deletes the key.
Expired(e, secs) ==
    IF e = Absent \/ secs = 0 THEN Absent ELSE [e EXCEPT !.ttl = Ticks(secs)]

\* TTL answers in seconds, to the nearest one.
TTLReply(ttl) == IF ttl < 0 THEN ttl ELSE (ttl + Half) \div Second

\* One tick less to live.
Older(e) ==
    IF e.ttl = 1 THEN Absent ELSE IF e.ttl > 1 THEN [e EXCEPT !.ttl = @ - 1] ELSE e

Idle == [at |-> "idle", value |-> NoValue, secs |-> 0, lag |-> 0]

Nothing == [value |-> NoValue, left |-> 0, lag |-> 0]

Families == {"fx_rate", "idempotency", "api_key", "rate_limit"}

Init ==
    /\ family \in Families
    /\ entry = Absent
    /\ window = {}
    /\ windowTTL = 0
    /\ call = [c \in Callers |-> Idle]
    /\ got = [c \in Callers |-> Nothing]
    /\ stands = {}
    /\ admitted = {}
    /\ undone = {}
    /\ abandoned = FALSE
    /\ steady = {}
    /\ faults = 0

At(c, label) == call[c].at = label

Goto(c, label, value, secs) ==
    call' = [call EXCEPT ![c] = [at |-> label, value |-> value, secs |-> secs, lag |-> 0]]

Return(c) == call' = [call EXCEPT ![c] = Idle]

Fault ==
    /\ faults < MaxFaults
    /\ faults' = faults + 1

\* Callers that have still to send the EXPIRE of their lock.
Unexpired == {c \in Callers : At(c, "expire")}

\* Readers between GET and TTL.
Reading == {c \in Callers : At(c, "ttl")}

-----------------------------------------------------------------------------
(* LockFXRate and SetIdempotencyKey.  On a key that exists SETNX changes   *)
(* nothing and the caller is told so.                                      *)

\* Mutant: SET where SETNX is meant.
SetNXOverwrites(c, v, secs) ==
    /\ family \in {"fx_rate", "idempotency"}
    /\ At(c, "idle")
    /\ entry' = [value |-> v, ttl |-> NoExpiry]
    /\ Goto(c, "expire", v, secs)
    /\ abandoned' = FALSE
    /\ UNCHANGED <<family, window, windowTTL, got, stands, admitted, undone, steady, faults>>

SetNX(c, v, secs) ==
    /\ family \in {"fx_rate", "idempotency"}
    /\ At(c, "idle")
    /\ entry = Absent
    /\ entry' = [value |-> v, ttl |-> NoExpiry]
    /\ Goto(c, "expire", v, secs)
    /\ abandoned' = FALSE
    /\ UNCHANGED <<family, window, windowTTL, got, stands, admitted, undone, steady, faults>>

\* The reply to SETNX is lost: an error, whether the key was set or not.
SetNXFails(c, v) ==
    /\ family \in {"fx_rate", "idempotency"}
    /\ At(c, "idle")
    /\ entry = Absent
    /\ Fault
    /\ entry' = [value |-> v, ttl |-> NoExpiry]
    /\ abandoned' = TRUE
    /\ UNCHANGED <<family, window, windowTTL, call, got, stands, admitted, undone, steady>>

\* What is promised when a lock gets at most this many ticks to live.
Shortened(left) ==
    IF left = 0 THEN {}
    ELSE {[s EXCEPT !.left = IF left < @ THEN left ELSE @] : s \in stands}

\* The caller is told of success: a promise for that many ticks, unless its
\* lock was gone before.
Acknowledge(c, left) ==
    stands' = IF c \in undone \/ left = 0 THEN stands
              ELSE stands \union {[value |-> call[c].value, left |-> left]}

\* EXPIRE names the key and not the lock: it hits whatever is there now, and
\* when that is the lock of another caller it shortens what that was promised.
ExpireRuns(c) ==
    /\ entry' = Expired(entry, call[c].secs)
    /\ undone' = (IF call[c].secs = 0 THEN Unexpired ELSE undone) \ {c}
    /\ steady' = IF call[c].secs = 0 \/ entry.ttl # NoExpiry THEN {} ELSE steady

\* Mutant: a lifetime that rounds to zero is not set.
ExpireUnlessZero(c) ==
    /\ At(c, "expire")
    /\ entry' = IF call[c].secs = 0 THEN entry ELSE Expired(entry, call[c].secs)
    /\ undone' = undone \ {c}
    /\ IF c \in undone THEN stands' = Shortened(Ticks(call[c].secs))
       ELSE Acknowledge(c, Ticks(call[c].secs))
    /\ Return(c)
    /\ UNCHANGED <<family, window, windowTTL, got, admitted, abandoned, steady, faults>>

Expire(c) ==
    /\ At(c, "expire")
    /\ ExpireRuns(c)
    /\ IF c \in undone THEN stands' = Shortened(Ticks(call[c].secs))
       ELSE Acknowledge(c, Ticks(call[c].secs))
    /\ Return(c)
    /\ UNCHANGED <<family, window, windowTTL, got, admitted, abandoned, faults>>

\* EXPIRE was executed and its reply is lost.  LockFXRate does not look at it
\* and returns nil, SetIdempotencyKey returns the error.
ExpireUnanswered(c) ==
    /\ At(c, "expire")
    /\ Fault
    /\ ExpireRuns(c)
    /\ IF c \in undone THEN stands' = Shortened(Ticks(call[c].secs))
       ELSE IF family = "fx_rate" THEN Acknowledge(c, Ticks(call[c].secs))
       ELSE UNCHANGED stands
    /\ Return(c)
    /\ UNCHANGED <<family, window, windowTTL, got, admitted, abandoned>>

\* EXPIRE was not executed, with the same answers.  The promise lasts as long
\* as the key may when another caller's EXPIRE has hit it already.
ExpireFails(c) ==
    /\ At(c, "expire")
    /\ Fault
    /\ IF family = "fx_rate"
         THEN LET left == Ticks(call[c].secs)
              IN Acknowledge(c, IF entry.ttl > 0 /\ entry.ttl < left THEN entry.ttl ELSE left)
         ELSE UNCHANGED stands
    /\ abandoned' = (abandoned \/ c \notin undone)
    /\ undone' = undone \ {c}
    /\ Return(c)
    /\ UNCHANGED <<family, cacheVars, got, admitted, steady>>

DeleteFXRate(c) ==
    /\ family = "fx_rate"
    /\ At(c, "idle")
    /\ entry # Absent
    /\ entry' = Absent
    /\ stands' = {}
    /\ undone' = Unexpired
    /\ steady' = {}
    /\ UNCHANGED <<family, window, windowTTL, call, got, admitted, abandoned, faults>>

-----------------------------------------------------------------------------
(* GetFXRate: GET, then TTL, then time.Now().  A missing key is not found. *)

GetValue(c) ==
    /\ family = "fx_rate"
    /\ At(c, "idle")
    /\ entry # Absent
    /\ Goto(c, "ttl", entry.value, 0)
    /\ got' = [got EXCEPT ![c] = Nothing]
    /\ steady' = steady \union {c}
    /\ UNCHANGED <<family, cacheVars, stands, admitted, undone, abandoned, faults>>

GetTTL(c) ==
    /\ At(c, "ttl")
    /\ Goto(c, "stamp", call[c].value, TTLReply(entry.ttl))
    /\ UNCHANGED <<family, cacheVars, got, ghosts, faults>>

\* Mutant: without a TTL the longest lifetime is assumed.
GetTTLFailsOpen(c) ==
    /\ At(c, "ttl")
    /\ Fault
    /\ \E secs \in TTLs :
           /\ \A other \in TTLs : other <= secs
           /\ Goto(c, "stamp", call[c].value, secs)
    /\ UNCHANGED <<family, cacheVars, got, ghosts>>

\* An error of TTL counts as a lock that ends now.
GetTTLFails(c) ==
    /\ At(c, "ttl")
    /\ Fault
    /\ Goto(c, "stamp", call[c].value, 0)
    /\ UNCHANGED <<family, cacheVars, got, ghosts>>

\* ExpiresAt is the reply added to the time now, lag ticks after the reply;
\* -1 and -2 are seconds too.
Stamp(c) ==
    /\ At(c, "stamp")
    /\ got' = [got EXCEPT ![c] =
           [value |-> call[c].value, left |-> Ticks(call[c].secs), lag |-> call[c].lag]]
    /\ Return(c)
    /\ UNCHANGED <<family, cacheVars, ghosts, faults>>

-----------------------------------------------------------------------------
(* GetIdempotencyKey, CacheTenantByAPIKey and GetTenantByAPIKey.           *)

\* SET with EX, one command; Redis refuses a lifetime of 0.
CacheTenantByAPIKey(c, v, secs) ==
    /\ family = "api_key"
    /\ At(c, "idle")
    /\ secs > 0
    /\ entry' = [value |-> v, ttl |-> Ticks(secs)]
    /\ UNCHANGED <<family, window, windowTTL, call, got, ghosts, faults>>

\* Both reads answer the value, or that there is none.
GetString(c) ==
    /\ family \in {"idempotency", "api_key"}
    /\ At(c, "idle")
    /\ got' = [got EXCEPT ![c] = [value |-> entry.value, left |-> 0, lag |-> 0]]
    /\ UNCHANGED <<family, cacheVars, call, ghosts, faults>>

-----------------------------------------------------------------------------
(* CheckRateLimit.  A member is the second a request came and a number     *)
(* from math.random(), which Redis seeds alike for every script: requests  *)
(* of one second are one member, given here by its age.                    *)

TakeNow(c) ==
    /\ family = "rate_limit"
    /\ At(c, "idle")
    /\ Goto(c, "eval", NoValue, 0)
    /\ UNCHANGED <<family, cacheVars, got, ghosts, faults>>

\* Members that ZREMRANGEBYSCORE -inf now-60 leaves, now being lag ago.
InWindow(members, lag) == {age \in members : age < lag + Window}

HasRoom(members) == Cardinality(members) < Limit

\* Mutant: the key lives one second less than the window.
KeyLifetimeShort == Window - 1

\* Mutant: the key lives one second more than the window.
KeyLifetimeLong == Window + 1

KeyLifetime == Window

Script(c) ==
    LET kept == InWindow(window, call[c].lag)
        new == {call[c].lag}
    IN IF HasRoom(kept)
         THEN /\ window' = kept \union new
              /\ windowTTL' = KeyLifetime
              /\ admitted' = admitted \union InWindow(new, 0)
         ELSE /\ window' = kept
              /\ UNCHANGED <<windowTTL, admitted>>

Eval(c) ==
    /\ At(c, "eval")
    /\ Script(c)
    /\ got' = [got EXCEPT ![c] =
           [value |-> IF HasRoom(InWindow(window, call[c].lag)) THEN "allowed" ELSE "denied",
            left |-> 0, lag |-> 0]]
    /\ Return(c)
    /\ UNCHANGED <<family, entry, stands, undone, abandoned, steady, faults>>

\* The reply is lost: an error, though the script may have run.
EvalFails(c) ==
    /\ At(c, "eval")
    /\ Fault
    /\ Script(c) \/ UNCHANGED <<window, windowTTL, admitted>>
    /\ Return(c)
    /\ UNCHANGED <<family, entry, got, stands, undone, abandoned, steady>>

-----------------------------------------------------------------------------
\* The process of a caller dies between two of its commands.
Crash(c) ==
    /\ ~At(c, "idle")
    /\ Fault
    /\ Return(c)
    /\ abandoned' = (abandoned \/ (At(c, "expire") /\ c \notin undone))
    /\ undone' = undone \ {c}
    /\ UNCHANGED <<family, cacheVars, got, stands, admitted, steady>>

\* Callers that wait between the clock and Redis.
Lagging == {c \in Callers : At(c, "stamp") \/ At(c, "eval")}

\* Time passes; the key may go.
Tick ==
    /\ \A c \in Lagging : call[c].lag < MaxDelay
    /\ entry' = Older(entry)
    /\ window' = IF windowTTL <= 1 THEN {} ELSE {age + 1 : age \in window}
    /\ windowTTL' = IF windowTTL <= 1 THEN 0 ELSE windowTTL - 1
    /\ call' = [c \in Callers |->
           IF c \in Lagging THEN [call[c] EXCEPT !.lag = @ + 1] ELSE call[c]]
    /\ got' = [c \in Callers |->
           IF got[c].left > 0 THEN [got[c] EXCEPT !.left = @ - 1] ELSE got[c]]
    /\ stands' = {[s EXCEPT !.left = @ - 1] : s \in {s \in stands : s.left > 1}}
    /\ admitted' = {age \in {a + 1 : a \in admitted} : age < Window}
    /\ undone' = IF entry.ttl = 1 THEN Unexpired ELSE undone
    /\ steady' = IF entry.ttl = 1 THEN steady \ Reading ELSE steady
    /\ UNCHANGED <<family, abandoned, faults>>

Commands(c) ==
    \/ \E v \in Values, secs \in TTLs : SetNX(c, v, secs)
    \/ \E v \in Values : SetNXFails(c, v)
    \/ DeleteFXRate(c)
    \/ GetValue(c)
    \/ \E v \in Values, secs \in TTLs : CacheTenantByAPIKey(c, v, secs)
    \/ GetString(c)
    \/ TakeNow(c)

Continues(c) ==
    \/ Expire(c)
    \/ GetTTL(c)
    \/ Stamp(c)
    \/ Eval(c)

Fails(c) ==
    \/ ExpireUnanswered(c)
    \/ ExpireFails(c)
    \/ GetTTLFails(c)
    \/ EvalFails(c)
    \/ Crash(c)

Next ==
    \/ \E c \in Callers : Commands(c)
    \/ \E c \in Callers : Continues(c)
    \/ \E c \in Callers : Fails(c)
    \/ Tick

Spec == Init /\ [][Next]_vars

-----------------------------------------------------------------------------
(* Correctness.                                                            *)

Labels == {"idle", "expire", "ttl", "stamp", "eval"}

\* Type invariant of the key, the callers and the history variables.
TypeOK ==
    /\ family \in Families
    /\ entry \in {Absent} \union [value : Values, ttl : {NoExpiry} \union (Nat \ {0})]
    /\ window \subseteq Nat
    /\ windowTTL \in 0 .. Window
    /\ call \in [Callers -> [at : Labels, value : Values \union {NoValue}, secs : Int, lag : Nat]]
    /\ got \in [Callers -> [value : Values \union {NoValue, "allowed", "denied"},
                            left : Int, lag : Nat]]
    /\ stands \subseteq [value : Values, left : Nat \ {0}]
    /\ admitted \subseteq Nat
    /\ undone \subseteq Callers
    /\ abandoned \in BOOLEAN
    /\ steady \subseteq Callers
    /\ faults \in 0 .. MaxFaults

\* A key is without a lifetime only for as long as the caller that set it
\* still has its EXPIRE to send, or because exactly that EXPIRE was lost to a
\* failure or a crash: no interleaving of lockers, releasers and readers makes
\* a quote or an idempotency key permanent, a lifetime below a second included,
\* and a failure makes permanent no lock but the one it hit.
EndlessNeedsCause ==
    entry.ttl = NoExpiry =>
        \/ abandoned
        \/ \E c \in Callers : At(c, "expire") /\ c \notin undone

\* What was acknowledged stands: a rate that was locked, or a result that was
\* stored, is the one the key holds until the lifetime counted from its EXPIRE
\* has passed, whoever else sets the same key and whichever commands fail.  An
\* EXPIRE of a caller whose own lock is gone shortens that to its lifetime,
\* and is the only thing that does.
AcknowledgedStands ==
    \A s \in stands :
        entry.value = s.value /\ (entry.ttl = NoExpiry \/ entry.ttl >= s.left)

\* A rate that GetFXRate reported is the locked rate until half a second, and
\* the time between the TTL reply and time.Now(), before the reported end:
\* Redis rounds what is left to the nearest second.  It holds whatever else
\* happens in between, unless the lock was removed or given a second lifetime
\* since GET; a read that straddles two locks may combine the rate of one with
\* the lifetime of the next.
ReportedRatesHold ==
    \A c \in steady :
        LET late == Half + got[c].lag
        IN got[c].left > late =>
               entry.value = got[c].value /\ entry.ttl >= got[c].left - late

\* The rate limiter decides as a log of the last Window seconds would, although
\* it trims the sorted set only when asked, and the whole key expires: a
\* request whose script runs in its own second is let through exactly when
\* requests were let through in fewer than Limit seconds of that window,
\* whatever slower scripts ran in between.  It counts seconds, not requests.
LimiterCountsSeconds ==
    [][\A c \in Callers :
           At(c, "eval") /\ call[c].lag = 0 /\ ~At(c, "eval")' /\ faults' = faults
               => (got'[c].value = "allowed" <=> Cardinality(admitted) < Limit)]_vars

=============================================================================
