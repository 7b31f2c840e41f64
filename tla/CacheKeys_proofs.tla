--------------------------- MODULE CacheKeys_proofs ---------------------------
(***************************************************************************)
(* Proofs about CacheKeys, for any callers, values, lifetimes, ticks,      *)
(* window, limit and number of faults.  The inductive invariant says which *)
(* operations a key of each family can meet, and then, one part each, why  *)
(* locks last, why reported rates are true and why the sorted set is the   *)
(* log of its window.                                                      *)
(***************************************************************************)
EXTENDS CacheKeys, TLAPS

\* A caller that is about to send EXPIRE for a lock that is still its own.
Holds(c) == At(c, "expire") /\ c \notin undone

\* Callers are only ever inside operations of the key's family.
FamilyOK ==
    /\ \A c \in Callers :
           /\ At(c, "expire") => /\ family \in {"fx_rate", "idempotency"}
                                 /\ call[c].value \in Values /\ call[c].secs \in TTLs
           /\ At(c, "ttl") \/ At(c, "stamp") => family = "fx_rate"
           /\ At(c, "ttl") => call[c].value \in Values
           /\ At(c, "eval") => family = "rate_limit"
    /\ stands # {} => family \in {"fx_rate", "idempotency"}
    /\ steady # {} => family = "fx_rate"
    /\ \A c \in undone : At(c, "expire")

\* The caller whose lock is in the key is alone, and nothing stands before it
\* has been told so.
HolderOK ==
    \A c \in Callers : Holds(c) =>
        /\ entry.value = call[c].value /\ entry.ttl # NoKey
        /\ stands = {}
        /\ \A d \in Callers : Holds(d) => d = c

LockOK == EndlessNeedsCause /\ HolderOK /\ AcknowledgedStands

\* The key holds this value for so many ticks, but for Half and the lag.
Backed(value, left, lag) ==
    left > Half + lag => entry.value = value /\ entry.ttl >= left - (Half + lag)

\* What a reader with a steady lock has in its hands is still in the key.
TrueReader(c) ==
    /\ At(c, "ttl") => entry.value = call[c].value /\ entry.ttl # NoKey
    /\ At(c, "stamp") => Backed(call[c].value, Ticks(call[c].secs), call[c].lag)
    /\ Backed(got[c].value, got[c].left, got[c].lag)

ReadOK == \A c \in steady : TrueReader(c)

\* The sorted set, without what is older than the window, is the log; a key
\* about to expire holds nothing younger than the window.
WindowOK ==
    /\ InWindow(window, 0) = admitted
    /\ \A age \in window : age + windowTTL >= Window
    /\ windowTTL = 0 => window = {}

\* The strengthening: together the parts are inductive.
IInv == TypeOK /\ FamilyOK /\ LockOK /\ ReadOK /\ WindowOK

-----------------------------------------------------------------------------
(* Ticks and seconds.                                                      *)

LEMMA TicksAre ==
    /\ \A secs \in Nat : Ticks(secs) \in Nat /\ (Ticks(secs) = 0 <=> secs = 0)
    /\ \A secs \in Int : Ticks(secs) \in Int
    /\ Ticks(NoKey) <= 0 /\ Ticks(NoExpiry) <= 0
BY CacheAssumption, SMT DEF Ticks, NoKey, NoExpiry

LEMMA HalfIs == Half \in Nat
BY CacheAssumption DEF Half

\* A quotient times its divisor is no more than the dividend.
LEMMA QuotientBelow ==
    ASSUME NEW a \in Nat, NEW n \in Nat \ {0}
    PROVE  a \div n \in Nat /\ (a \div n) * n <= a
OBVIOUS

\* A reply of TTL is at most half a second more than what is left.
LEMMA ReplyIs ==
    ASSUME NEW ttl \in {NoKey, NoExpiry} \union Nat
    PROVE  /\ TTLReply(ttl) \in Int
           /\ ttl \in Nat => Ticks(TTLReply(ttl)) <= ttl + Half
           /\ ttl \notin Nat => Ticks(TTLReply(ttl)) <= 0
<1>1. CASE ttl \in Nat
    <2>1. ttl + Half \in Nat /\ Second \in Nat \ {0}
        BY <1>1, HalfIs, CacheAssumption
    <2>2. /\ (ttl + Half) \div Second \in Nat
          /\ ((ttl + Half) \div Second) * Second <= ttl + Half
        BY <2>1, QuotientBelow
    <2>3. TTLReply(ttl) = (ttl + Half) \div Second
        BY <1>1 DEF TTLReply
    <2> QED
        BY <1>1, <2>2, <2>3 DEF Ticks
<1>2. CASE ttl \in {NoKey, NoExpiry}
    <2>1. TTLReply(ttl) = ttl /\ ttl \in Int /\ ttl \notin Nat
        BY <1>2 DEF TTLReply, NoKey, NoExpiry
    <2> QED
        BY <1>2, <2>1, TicksAre
<1> QED
    BY <1>1, <1>2

-----------------------------------------------------------------------------
LEMMA IdleIs == /\ Idle.at = "idle" /\ Idle.value = NoValue /\ Idle.secs = 0 /\ Idle.lag = 0
                /\ Nothing.value = NoValue /\ Nothing.left = 0 /\ Nothing.lag = 0
                /\ Absent.value = NoValue /\ Absent.ttl = NoKey
BY DEF Idle, Nothing, Absent

\* A key is absent exactly when Redis says so.
LEMMA AbsentIs ==
    ASSUME TypeOK
    PROVE  /\ entry = Absent <=> entry.ttl = NoKey
           /\ entry # Absent => entry.value \in Values
           /\ entry # Absent => entry.ttl = NoExpiry \/ entry.ttl \in Nat \ {0}
           /\ entry.ttl \in Int
BY DEF TypeOK, Absent, NoKey, NoExpiry

CallRec == [at : Labels, value : Values \union {NoValue}, secs : Int, lag : Nat]

LEMMA GotoCall ==
    ASSUME call \in [Callers -> CallRec], NEW c \in Callers, NEW label \in Labels,
           NEW v \in Values \union {NoValue}, NEW secs \in Int, Goto(c, label, v, secs)
    PROVE  /\ call' \in [Callers -> CallRec]
           /\ call'[c].at = label /\ call'[c].value = v
           /\ call'[c].secs = secs /\ call'[c].lag = 0
           /\ \A d \in Callers \ {c} : call'[d] = call[d]
<1> DEFINE r == [at |-> label, value |-> v, secs |-> secs, lag |-> 0]
<1>1. r \in CallRec /\ r.at = label /\ r.value = v /\ r.secs = secs /\ r.lag = 0
    BY DEF CallRec
<1>2. call' = [call EXCEPT ![c] = r]
    BY DEF Goto
<1> HIDE DEF r
<1> QED
    BY <1>1, <1>2

LEMMA ReturnCall ==
    ASSUME call \in [Callers -> CallRec], NEW c \in Callers, Return(c)
    PROVE  /\ call' \in [Callers -> CallRec]
           /\ call'[c] = Idle
           /\ \A d \in Callers \ {c} : call'[d] = call[d]
<1>1. Idle \in CallRec
    BY DEF Idle, CallRec, Labels
<1> QED
    BY <1>1 DEF Return

LEMMA FaultCounts ==
    ASSUME faults \in 0 .. MaxFaults, Fault
    PROVE  faults' \in 0 .. MaxFaults /\ faults' > 0 /\ faults' # faults
BY CacheAssumption DEF Fault

Entry == {Absent} \union [value : Values, ttl : {NoExpiry} \union (Nat \ {0})]

GotRec == [value : Values \union {NoValue, "allowed", "denied"}, left : Int, lag : Nat]

LEMMA InitIInv == Init => IInv
<1> SUFFICES ASSUME Init PROVE IInv
    OBVIOUS
<1>1. \A c \in Callers : call[c] = Idle /\ got[c] = Nothing
    BY DEF Init
<1>2. TypeOK
    <2>1. Idle \in CallRec
        BY DEF Idle, CallRec, Labels
    <2>2. Nothing \in GotRec
        BY DEF Nothing, GotRec
    <2>3. faults \in 0 .. MaxFaults /\ windowTTL \in 0 .. Window
        BY CacheAssumption DEF Init
    <2> QED
        BY <2>1, <2>2, <2>3 DEF Init, TypeOK, CallRec, GotRec
<1>3. FamilyOK
    BY <1>1, IdleIs DEF Init, FamilyOK, At
<1>4. LockOK
    BY <1>1, IdleIs DEF Init, LockOK, EndlessNeedsCause, HolderOK, Holds, AcknowledgedStands, At,
                        NoKey, NoExpiry
<1>5. ReadOK
    BY DEF Init, ReadOK
<1>6. WindowOK
    BY DEF Init, WindowOK, InWindow
<1> QED
    BY <1>2, <1>3, <1>4, <1>5, <1>6 DEF IInv

-----------------------------------------------------------------------------
(* Types and families.                                                     *)

LEMMA LabelsAre == Labels = {"idle", "expire", "ttl", "stamp", "eval"}
BY DEF Labels

LEMMA ExpiredIs ==
    ASSUME NEW e \in Entry, NEW secs \in Nat
    PROVE  /\ Expired(e, secs) \in Entry
           /\ secs = 0 => Expired(e, secs) = Absent
           /\ e = Absent => Expired(e, secs) = Absent
           /\ secs # 0 /\ e # Absent => /\ Expired(e, secs).value = e.value
                                        /\ Expired(e, secs).ttl = Ticks(secs)
<1>1. CASE e = Absent \/ secs = 0
    BY <1>1 DEF Expired, Entry
<1>2. CASE e # Absent /\ secs # 0
    <2>1. e \in [value : Values, ttl : {NoExpiry} \union (Nat \ {0})]
        BY <1>2 DEF Entry
    <2>2. Expired(e, secs) = [e EXCEPT !.ttl = Ticks(secs)]
        BY <1>2 DEF Expired
    <2>3. Ticks(secs) \in Nat \ {0}
        BY <1>2, TicksAre
    <2> QED
        BY <1>2, <2>1, <2>2, <2>3 DEF Entry
<1> QED
    BY <1>1, <1>2

LEMMA OlderIs ==
    ASSUME NEW e \in Entry
    PROVE  /\ Older(e) \in Entry
           /\ e.ttl = 1 => Older(e) = Absent
           /\ e.ttl \in Nat /\ e.ttl > 1 => Older(e).ttl = e.ttl - 1 /\ Older(e).value = e.value
           /\ e = Absent \/ e.ttl = NoExpiry => Older(e) = e
<1>1. CASE e = Absent
    BY <1>1 DEF Older, Entry, Absent, NoKey, NoExpiry
<1>2. CASE e # Absent
    <2>1. e \in [value : Values, ttl : {NoExpiry} \union (Nat \ {0})]
        BY <1>2 DEF Entry
    <2>2. CASE e.ttl = 1
        BY <2>2, <1>2 DEF Older, Entry, NoExpiry
    <2>3. CASE e.ttl = NoExpiry
        BY <2>3, <1>2 DEF Older, Entry, NoExpiry
    <2>4. CASE e.ttl \in Nat \ {0, 1}
        <3>1. Older(e) = [e EXCEPT !.ttl = e.ttl - 1] /\ e.ttl - 1 \in Nat \ {0} /\ e.ttl > 1
            BY <2>4 DEF Older
        <3> QED
            BY <1>2, <2>1, <2>4, <3>1 DEF Entry, NoExpiry
    <2> QED
        BY <2>1, <2>2, <2>3, <2>4
<1> QED
    BY <1>1, <1>2

\* The parts of the type invariant, as the steps change them.
LEMMA TypeParts ==
    TypeOK <=>
        /\ family \in Families /\ entry \in Entry
        /\ window \subseteq Nat /\ windowTTL \in 0 .. Window
        /\ call \in [Callers -> CallRec] /\ got \in [Callers -> GotRec]
        /\ stands \subseteq [value : Values, left : Nat \ {0}]
        /\ admitted \subseteq Nat
        /\ undone \subseteq Callers /\ abandoned \in BOOLEAN /\ steady \subseteq Callers
        /\ faults \in 0 .. MaxFaults
BY Zenon DEF TypeOK, Entry, CallRec, GotRec

LEMMA ScriptTypes ==
    ASSUME TypeOK, NEW c \in Callers, Script(c)
    PROVE  window' \subseteq Nat /\ windowTTL' \in 0 .. Window /\ admitted' \subseteq Nat
<1>1. /\ window \subseteq Nat /\ windowTTL \in 0 .. Window /\ admitted \subseteq Nat
      /\ call[c].lag \in Nat
    BY DEF TypeOK
<1>2. /\ InWindow(window, call[c].lag) \subseteq window
      /\ InWindow({call[c].lag}, 0) \subseteq {call[c].lag}
    BY DEF InWindow
<1>3. Window \in 0 .. Window
    BY CacheAssumption
<1>4. \/ /\ window' = InWindow(window, call[c].lag) \union {call[c].lag}
         /\ windowTTL' = Window /\ admitted' = admitted \union InWindow({call[c].lag}, 0)
      \/ /\ window' = InWindow(window, call[c].lag)
         /\ windowTTL' = windowTTL /\ admitted' = admitted
    BY DEF Script, KeyLifetime
<1> QED
    BY <1>1, <1>2, <1>3, <1>4

LEMMA ShortenedIs ==
    ASSUME stands \subseteq [value : Values, left : Nat \ {0}], NEW left \in Nat
    PROVE  /\ Shortened(left) \subseteq [value : Values, left : Nat \ {0}]
           /\ left = 0 => Shortened(left) = {}
           /\ \A s \in Shortened(left) :
                  /\ s.left <= left
                  /\ \E t \in stands : s.value = t.value
<1>1. CASE left = 0
    BY <1>1 DEF Shortened
<1>2. CASE left # 0
    <2> SUFFICES ASSUME NEW s \in Shortened(left)
                 PROVE  /\ s \in [value : Values, left : Nat \ {0}]
                        /\ s.left <= left
                        /\ \E t \in stands : s.value = t.value
        BY <1>2
    <2>1. PICK t \in stands : s = [t EXCEPT !.left = IF left < t.left THEN left ELSE t.left]
        BY <1>2 DEF Shortened
    <2>2. t \in [value : Values, left : Nat \ {0}]
        OBVIOUS
    <2>3. CASE left < t.left
        <3>1. s = [t EXCEPT !.left = left]
            BY <2>1, <2>3
        <3> QED
            BY <1>2, <2>2, <3>1
    <2>4. CASE ~(left < t.left)
        <3>1. s = [t EXCEPT !.left = t.left]
            BY <2>1, <2>4
        <3> QED
            BY <2>2, <2>4, <3>1
    <2> QED
        BY <2>3, <2>4
<1> QED
    BY <1>1, <1>2

LEMMA AcknowledgeTypes ==
    ASSUME TypeOK, NEW c \in Callers, call[c].value \in Values, NEW left \in Nat,
           Acknowledge(c, left)
    PROVE  stands' \subseteq [value : Values, left : Nat \ {0}]
<1>1. stands \subseteq [value : Values, left : Nat \ {0}]
    BY DEF TypeOK
<1>2. CASE c \in undone \/ left = 0
    BY <1>1, <1>2 DEF Acknowledge
<1>3. CASE ~(c \in undone \/ left = 0)
    <2>1. stands' = stands \union {[value |-> call[c].value, left |-> left]}
        BY <1>3 DEF Acknowledge
    <2>2. [value |-> call[c].value, left |-> left] \in [value : Values, left : Nat \ {0}]
        BY <1>3
    <2> QED
        BY <1>1, <2>1, <2>2
<1> QED
    BY <1>2, <1>3

\* The callers after a step of one of them, whatever it does to the key.
LEMMA FamilyStep ==
    ASSUME TypeOK, FamilyOK, NEW c \in Callers, family' = family,
           \A d \in Callers \ {c} : call'[d] = call[d],
           call'[c].at = "expire" => /\ family \in {"fx_rate", "idempotency"}
                                     /\ call'[c].value \in Values /\ call'[c].secs \in TTLs,
           call'[c].at \in {"ttl", "stamp"} => family = "fx_rate",
           call'[c].at = "ttl" => call'[c].value \in Values,
           call'[c].at = "eval" => family = "rate_limit",
           stands' # {} => family \in {"fx_rate", "idempotency"},
           steady' # {} => family = "fx_rate",
           undone' \subseteq Callers,
           \A d \in undone' : call'[d].at = "expire"
    PROVE  FamilyOK'
<1>1. \A d \in Callers \ {c} :
          /\ call'[d].at = "expire" => /\ family \in {"fx_rate", "idempotency"}
                                       /\ call'[d].value \in Values /\ call'[d].secs \in TTLs
          /\ call'[d].at = "ttl" \/ call'[d].at = "stamp" => family = "fx_rate"
          /\ call'[d].at = "ttl" => call'[d].value \in Values
          /\ call'[d].at = "eval" => family = "rate_limit"
    BY DEF FamilyOK, At
<1> QED
    BY <1>1 DEF FamilyOK, At

\* Sending SETNX, GET or the start of a script, or reading at once.
LEMMA CommandTypes ==
    ASSUME TypeOK, FamilyOK, NEW c \in Callers, Commands(c)
    PROVE  TypeOK' /\ FamilyOK'
<1>1. /\ family \in Families /\ entry \in Entry
      /\ window \subseteq Nat /\ windowTTL \in 0 .. Window
      /\ call \in [Callers -> CallRec] /\ got \in [Callers -> GotRec]
      /\ stands \subseteq [value : Values, left : Nat \ {0}]
      /\ admitted \subseteq Nat
      /\ undone \subseteq Callers /\ abandoned \in BOOLEAN /\ steady \subseteq Callers
      /\ faults \in 0 .. MaxFaults
    BY TypeParts
<1>2. call[c].at \in Labels /\ Absent \in Entry /\ Nothing \in GotRec
    BY <1>1 DEF CallRec, Entry, GotRec, Nothing
<1>3. TTLs \subseteq Nat /\ TTLs \subseteq Int
    BY CacheAssumption
<1>4. ASSUME NEW v \in Values, NEW secs \in TTLs, SetNX(c, v, secs) PROVE TypeOK' /\ FamilyOK'
    <2>1. [value |-> v, ttl |-> NoExpiry] \in Entry
        BY DEF Entry
    <2>2. /\ family \in {"fx_rate", "idempotency"} /\ call[c].at = "idle"
          /\ entry' = [value |-> v, ttl |-> NoExpiry] /\ Goto(c, "expire", v, secs)
          /\ UNCHANGED <<family, window, windowTTL, got, faults>>
          /\ UNCHANGED <<stands, admitted, undone, steady>> /\ abandoned' \in BOOLEAN
        BY <1>4 DEF SetNX, At
    <2>3. /\ call' \in [Callers -> CallRec]
          /\ call'[c].at = "expire" /\ call'[c].value = v /\ call'[c].secs = secs
          /\ \A d \in Callers \ {c} : call'[d] = call[d]
        BY <1>1, <1>3, <2>2, GotoCall, LabelsAre
    <2>4. \A d \in undone : d # c /\ call[d].at = "expire"
        BY <2>2 DEF FamilyOK, At
    <2>5. FamilyOK'
        BY <1>1, <2>2, <2>3, <2>4, FamilyStep DEF FamilyOK
    <2>6. TypeOK'
        BY <1>1, <2>1, <2>2, <2>3, Zenon DEF TypeOK, Entry, CallRec, GotRec
    <2> QED
        BY <2>5, <2>6
<1>5. ASSUME NEW v \in Values, SetNXFails(c, v) PROVE TypeOK' /\ FamilyOK'
    <2>1. [value |-> v, ttl |-> NoExpiry] \in Entry
        BY DEF Entry
    <2>2. /\ entry' = [value |-> v, ttl |-> NoExpiry] /\ Fault
          /\ UNCHANGED <<family, window, windowTTL, call, got>>
          /\ UNCHANGED <<stands, admitted, undone, steady>> /\ abandoned' \in BOOLEAN
        BY <1>5 DEF SetNXFails
    <2>3. faults' \in 0 .. MaxFaults
        BY <1>1, <2>2, FaultCounts
    <2>4. FamilyOK'
        BY <2>2 DEF FamilyOK, At
    <2>5. TypeOK'
        BY <1>1, <2>1, <2>2, <2>3, Zenon DEF TypeOK, Entry, CallRec, GotRec
    <2> QED
        BY <2>4, <2>5
<1>6. CASE DeleteFXRate(c)
    <2>1. /\ family = "fx_rate" /\ entry' = Absent /\ stands' = {} /\ steady' = {}
          /\ undone' = Unexpired
          /\ UNCHANGED <<family, window, windowTTL, call, got, admitted, abandoned, faults>>
        BY <1>6 DEF DeleteFXRate
    <2>2. undone' \subseteq Callers /\ \A d \in undone' : call'[d].at = "expire"
        BY <2>1 DEF Unexpired, At
    <2>3. FamilyOK'
        BY <2>1, <2>2 DEF FamilyOK, At
    <2>4. TypeOK'
        BY <1>1, <1>2, <2>1, <2>2, Zenon DEF TypeOK, Entry, CallRec, GotRec
    <2> QED
        BY <2>3, <2>4
<1>7. CASE GetValue(c)
    <2>1. /\ family = "fx_rate" /\ call[c].at = "idle" /\ entry # Absent
          /\ Goto(c, "ttl", entry.value, 0) /\ got' = [got EXCEPT ![c] = Nothing]
          /\ steady' = steady \union {c}
          /\ UNCHANGED <<family, stands, admitted, undone, abandoned, faults>>
          /\ UNCHANGED <<entry, window, windowTTL>>
        BY <1>7 DEF GetValue, At, cacheVars
    <2>2. entry.value \in Values
        BY <2>1, AbsentIs
    <2>3. /\ call' \in [Callers -> CallRec]
          /\ call'[c].at = "ttl" /\ call'[c].value = entry.value
          /\ \A d \in Callers \ {c} : call'[d] = call[d]
        BY <1>1, <2>1, <2>2, GotoCall, LabelsAre
    <2>4. \A d \in undone : d # c /\ call[d].at = "expire"
        BY <2>1 DEF FamilyOK, At
    <2>5. FamilyOK'
        BY <1>1, <2>1, <2>2, <2>3, <2>4, FamilyStep DEF FamilyOK
    <2>6. got' \in [Callers -> GotRec] /\ steady' \subseteq Callers
        BY <1>1, <1>2, <2>1
    <2>7. TypeOK'
        BY <1>1, <2>1, <2>3, <2>6, Zenon DEF TypeOK, Entry, CallRec, GotRec
    <2> QED
        BY <2>5, <2>7
<1>8. ASSUME NEW v \in Values, NEW secs \in TTLs, CacheTenantByAPIKey(c, v, secs)
      PROVE  TypeOK' /\ FamilyOK'
    <2>1. /\ entry' = [value |-> v, ttl |-> Ticks(secs)] /\ secs > 0
          /\ UNCHANGED <<family, window, windowTTL, call, got, faults>>
          /\ UNCHANGED <<stands, admitted, undone, abandoned, steady>>
        BY <1>8 DEF CacheTenantByAPIKey, ghosts
    <2>2. entry' \in Entry
        BY <1>3, <2>1, TicksAre DEF Entry
    <2>3. FamilyOK'
        BY <2>1 DEF FamilyOK, At
    <2>4. TypeOK'
        BY <1>1, <2>1, <2>2, Zenon DEF TypeOK, Entry, CallRec, GotRec
    <2> QED
        BY <2>3, <2>4
<1>9. CASE GetString(c)
    <2>1. /\ got' = [got EXCEPT ![c] = [value |-> entry.value, left |-> 0, lag |-> 0]]
          /\ UNCHANGED <<family, call, faults>> /\ UNCHANGED <<entry, window, windowTTL>>
          /\ UNCHANGED <<stands, admitted, undone, abandoned, steady>>
        BY <1>9 DEF GetString, cacheVars, ghosts
    <2>2. entry.value \in Values \union {NoValue}
        BY AbsentIs, IdleIs
    <2>3. got' \in [Callers -> GotRec]
        BY <1>1, <2>1, <2>2 DEF GotRec
    <2>4. FamilyOK'
        BY <2>1 DEF FamilyOK, At
    <2>5. TypeOK'
        BY <1>1, <2>1, <2>3, Zenon DEF TypeOK, Entry, CallRec, GotRec
    <2> QED
        BY <2>4, <2>5
<1>10. CASE TakeNow(c)
    <2>1. /\ family = "rate_limit" /\ call[c].at = "idle" /\ Goto(c, "eval", NoValue, 0)
          /\ UNCHANGED <<family, got, faults>> /\ UNCHANGED <<entry, window, windowTTL>>
          /\ UNCHANGED <<stands, admitted, undone, abandoned, steady>>
        BY <1>10 DEF TakeNow, At, cacheVars, ghosts
    <2>2. /\ call' \in [Callers -> CallRec]
          /\ call'[c].at = "eval"
          /\ \A d \in Callers \ {c} : call'[d] = call[d]
        BY <1>1, <2>1, GotoCall, LabelsAre
    <2>3. \A d \in undone : d # c /\ call[d].at = "expire"
        BY <2>1 DEF FamilyOK, At
    <2>4. FamilyOK'
        BY <1>1, <2>1, <2>2, <2>3, FamilyStep DEF FamilyOK
    <2>5. TypeOK'
        BY <1>1, <2>1, <2>2, Zenon DEF TypeOK, Entry, CallRec, GotRec
    <2> QED
        BY <2>4, <2>5
<1> QED
    BY <1>4, <1>5, <1>6, <1>7, <1>8, <1>9, <1>10 DEF Commands

\* A caller leaves its operation: what remains is its own business no more.
LEMMA ReturnFamily ==
    ASSUME TypeOK, FamilyOK, NEW c \in Callers, Return(c), family' = family,
           stands' # {} => family \in {"fx_rate", "idempotency"},
           steady' # {} => family = "fx_rate",
           undone' \subseteq undone \ {c}
    PROVE  FamilyOK'
<1>1. /\ call'[c] = Idle
      /\ \A d \in Callers \ {c} : call'[d] = call[d]
    BY ReturnCall, TypeParts
<1>2. \A d \in undone' : d \in Callers /\ d # c /\ call'[d].at = "expire"
    BY <1>1, TypeParts DEF FamilyOK, At
<1> QED
    BY <1>1, <1>2, IdleIs, FamilyStep

\* What the EXPIRE of one caller does to the key and to the others.
LEMMA ExpireTypes ==
    ASSUME TypeOK, FamilyOK, NEW c \in Callers, At(c, "expire"), ExpireRuns(c), Return(c),
           family' = family, window' = window, windowTTL' = windowTTL, got' = got,
           admitted' = admitted, abandoned' = abandoned, faults' \in 0 .. MaxFaults,
           \/ stands' = Shortened(Ticks(call[c].secs))
           \/ Acknowledge(c, Ticks(call[c].secs))
           \/ stands' = stands
    PROVE  TypeOK' /\ FamilyOK'
<1>1. /\ family \in Families /\ entry \in Entry
      /\ window \subseteq Nat /\ windowTTL \in 0 .. Window
      /\ call \in [Callers -> CallRec] /\ got \in [Callers -> GotRec]
      /\ stands \subseteq [value : Values, left : Nat \ {0}]
      /\ admitted \subseteq Nat
      /\ undone \subseteq Callers /\ abandoned \in BOOLEAN /\ steady \subseteq Callers
    BY TypeParts
<1>2. /\ call[c].secs \in Nat /\ call[c].value \in Values
      /\ family \in {"fx_rate", "idempotency"} /\ Ticks(call[c].secs) \in Nat
    BY CacheAssumption, TicksAre DEF FamilyOK
<1>3. entry' \in Entry
    BY <1>1, <1>2, ExpiredIs DEF ExpireRuns
<1>4. stands' \subseteq [value : Values, left : Nat \ {0}]
    BY <1>1, <1>2, ShortenedIs, AcknowledgeTypes
<1>5. steady' \subseteq steady
    BY DEF ExpireRuns
<1>6. call' \in [Callers -> CallRec] /\ \A d \in Callers \ {c} : call'[d] = call[d]
    BY <1>1, ReturnCall
<1>7. undone' \subseteq Callers /\ \A d \in undone' : call'[d].at = "expire"
    <2> SUFFICES ASSUME NEW d \in undone' PROVE d \in Callers /\ call'[d].at = "expire"
        OBVIOUS
    <2>1. d # c /\ (d \in undone \/ d \in Unexpired)
        BY DEF ExpireRuns
    <2>2. d \in Callers /\ call[d].at = "expire"
        BY <1>1, <2>1 DEF Unexpired, FamilyOK, At
    <2> QED
        BY <1>6, <2>1, <2>2
<1>8. FamilyOK'
    <2>1. call'[c].at = "idle"
        BY <1>1, ReturnCall, IdleIs
    <2>2. steady' # {} => family = "fx_rate"
        BY <1>5 DEF FamilyOK
    <2> QED
        BY <1>2, <1>6, <1>7, <2>1, <2>2, FamilyStep
<1>9. steady' \subseteq Callers
    BY <1>1, <1>5
<1>10. TypeOK'
    BY <1>1, <1>3, <1>4, <1>6, <1>7, <1>9, Zenon DEF TypeOK, Entry, CallRec, GotRec
<1> QED
    BY <1>8, <1>10

\* The last commands of an operation, as they succeed.
LEMMA ContinueTypes ==
    ASSUME TypeOK, FamilyOK, NEW c \in Callers, Continues(c)
    PROVE  TypeOK' /\ FamilyOK'
<1>1. /\ family \in Families /\ entry \in Entry
      /\ window \subseteq Nat /\ windowTTL \in 0 .. Window
      /\ call \in [Callers -> CallRec] /\ got \in [Callers -> GotRec]
      /\ stands \subseteq [value : Values, left : Nat \ {0}]
      /\ admitted \subseteq Nat
      /\ undone \subseteq Callers /\ abandoned \in BOOLEAN /\ steady \subseteq Callers
      /\ faults \in 0 .. MaxFaults
    BY TypeParts
<1>2. CASE Expire(c)
    <2>1. /\ At(c, "expire") /\ ExpireRuns(c) /\ Return(c)
          /\ UNCHANGED <<family, window, windowTTL, got, admitted, abandoned, faults>>
          /\ \/ stands' = Shortened(Ticks(call[c].secs))
             \/ Acknowledge(c, Ticks(call[c].secs))
        BY <1>2 DEF Expire
    <2> QED
        BY <1>1, <2>1, ExpireTypes
<1>3. CASE GetTTL(c)
    <2>1. /\ call[c].at = "ttl" /\ Goto(c, "stamp", call[c].value, TTLReply(entry.ttl))
          /\ UNCHANGED <<family, got, faults>> /\ UNCHANGED <<entry, window, windowTTL>>
          /\ UNCHANGED <<stands, admitted, undone, abandoned, steady>>
        BY <1>3 DEF GetTTL, At, cacheVars, ghosts
    <2>2. call[c].value \in Values /\ TTLReply(entry.ttl) \in Int /\ family = "fx_rate"
        BY <2>1, AbsentIs, ReplyIs DEF FamilyOK, At
    <2>3. /\ call' \in [Callers -> CallRec] /\ call'[c].at = "stamp"
          /\ \A d \in Callers \ {c} : call'[d] = call[d]
        BY <1>1, <2>1, <2>2, GotoCall, LabelsAre
    <2>4. \A d \in undone : d # c /\ call[d].at = "expire"
        BY <2>1 DEF FamilyOK, At
    <2>5. FamilyOK'
        BY <1>1, <2>1, <2>2, <2>3, <2>4, FamilyStep DEF FamilyOK
    <2>6. TypeOK'
        BY <1>1, <2>1, <2>3, Zenon DEF TypeOK, Entry, CallRec, GotRec
    <2> QED
        BY <2>5, <2>6
<1>4. CASE Stamp(c)
    <2>1. /\ call[c].at = "stamp" /\ Return(c)
          /\ got' = [got EXCEPT ![c] = [value |-> call[c].value,
                 left |-> Ticks(call[c].secs), lag |-> call[c].lag]]
          /\ UNCHANGED <<family, faults>> /\ UNCHANGED <<entry, window, windowTTL>>
          /\ UNCHANGED <<stands, admitted, undone, abandoned, steady>>
        BY <1>4 DEF Stamp, At, cacheVars, ghosts
    <2>2. c \notin undone
        BY <2>1 DEF FamilyOK, At
    <2>3. call' \in [Callers -> CallRec]
        BY <1>1, <2>1, ReturnCall
    <2>4. got' \in [Callers -> GotRec]
        <3>1. call[c].value \in Values \union {NoValue} /\ call[c].lag \in Nat
              /\ Ticks(call[c].secs) \in Int
            BY <1>1, TicksAre DEF CallRec
        <3> QED
            BY <1>1, <2>1, <3>1 DEF GotRec
    <2>5. FamilyOK'
        BY <2>1, <2>2, ReturnFamily DEF FamilyOK
    <2>6. TypeOK'
        BY <1>1, <2>1, <2>3, <2>4, Zenon DEF TypeOK, Entry, CallRec, GotRec
    <2> QED
        BY <2>5, <2>6
<1>5. CASE Eval(c)
    <2>1. /\ call[c].at = "eval" /\ Script(c) /\ Return(c)
          /\ UNCHANGED <<family, entry, stands, undone, abandoned, steady, faults>>
        BY <1>5 DEF Eval, At
    <2>2. PICK answer \in {"allowed", "denied"} :
              got' = [got EXCEPT ![c] = [value |-> answer, left |-> 0, lag |-> 0]]
        BY <1>5 DEF Eval
    <2>3. got' \in [Callers -> GotRec]
        BY <1>1, <2>2 DEF GotRec
    <2>4. c \notin undone
        BY <2>1 DEF FamilyOK, At
    <2>5. window' \subseteq Nat /\ windowTTL' \in 0 .. Window /\ admitted' \subseteq Nat
        BY <2>1, ScriptTypes
    <2>6. call' \in [Callers -> CallRec]
        BY <1>1, <2>1, ReturnCall
    <2>7. FamilyOK'
        BY <2>1, <2>4, ReturnFamily DEF FamilyOK
    <2>8. TypeOK'
        BY <1>1, <2>1, <2>3, <2>5, <2>6, Zenon DEF TypeOK, Entry, CallRec, GotRec
    <2> QED
        BY <2>7, <2>8
<1> QED
    BY <1>2, <1>3, <1>4, <1>5 DEF Continues

\* The same commands as they fail, and a crash before one.
LEMMA FailTypes ==
    ASSUME TypeOK, FamilyOK, NEW c \in Callers, Fails(c)
    PROVE  TypeOK' /\ FamilyOK'
<1>1. /\ family \in Families /\ entry \in Entry
      /\ window \subseteq Nat /\ windowTTL \in 0 .. Window
      /\ call \in [Callers -> CallRec] /\ got \in [Callers -> GotRec]
      /\ stands \subseteq [value : Values, left : Nat \ {0}]
      /\ admitted \subseteq Nat
      /\ undone \subseteq Callers /\ abandoned \in BOOLEAN /\ steady \subseteq Callers
      /\ faults \in 0 .. MaxFaults
    BY TypeParts
<1>2. faults' \in 0 .. MaxFaults
    BY <1>1, FaultCounts DEF Fails, ExpireUnanswered, ExpireFails, GetTTLFails, EvalFails, Crash
<1>3. CASE ExpireFails(c)
    <2>1. /\ call[c].at = "expire" /\ Return(c) /\ undone' = undone \ {c}
          /\ abandoned' = (abandoned \/ c \notin undone)
          /\ UNCHANGED <<family, got, admitted, steady>>
          /\ UNCHANGED <<entry, window, windowTTL>>
        BY <1>3 DEF ExpireFails, At, cacheVars
    <2>2. /\ call[c].value \in Values /\ call[c].secs \in Nat /\ Ticks(call[c].secs) \in Nat
          /\ family \in {"fx_rate", "idempotency"}
        BY <2>1, CacheAssumption, TicksAre DEF FamilyOK, At
    <2>3. stands' \subseteq [value : Values, left : Nat \ {0}]
        <3>1. entry.ttl > 0 => entry.ttl \in Nat
            BY AbsentIs
        <3>2. (\E left \in Nat : Acknowledge(c, left)) \/ stands' = stands
            BY <1>3, <2>2, <3>1 DEF ExpireFails
        <3> QED
            BY <1>1, <2>2, <3>2, AcknowledgeTypes
    <2>4. call' \in [Callers -> CallRec] /\ undone' \subseteq Callers
        BY <1>1, <2>1, ReturnCall
    <2>5. FamilyOK'
        BY <2>1, <2>2, ReturnFamily DEF FamilyOK
    <2>6. abandoned' \in BOOLEAN
        BY <2>1
    <2>7. TypeOK'
        BY <1>1, <1>2, <2>1, <2>3, <2>4, <2>6, Zenon DEF TypeOK, Entry, CallRec, GotRec
    <2> QED
        BY <2>5, <2>7
<1>7. CASE ExpireUnanswered(c)
    <2>1. /\ At(c, "expire") /\ ExpireRuns(c) /\ Return(c)
          /\ UNCHANGED <<family, window, windowTTL, got, admitted, abandoned>>
          /\ \/ stands' = Shortened(Ticks(call[c].secs))
             \/ Acknowledge(c, Ticks(call[c].secs))
             \/ stands' = stands
        BY <1>7, Zenon DEF ExpireUnanswered
    <2> QED
        BY <1>2, <2>1, ExpireTypes
<1>4. CASE GetTTLFails(c)
    <2>1. /\ call[c].at = "ttl" /\ Goto(c, "stamp", call[c].value, 0)
          /\ UNCHANGED <<family, got>> /\ UNCHANGED <<entry, window, windowTTL>>
          /\ UNCHANGED <<stands, admitted, undone, abandoned, steady>>
        BY <1>4 DEF GetTTLFails, At, cacheVars, ghosts
    <2>2. call[c].value \in Values /\ family = "fx_rate"
        BY <2>1 DEF FamilyOK, At
    <2>3. /\ call' \in [Callers -> CallRec] /\ call'[c].at = "stamp"
          /\ \A d \in Callers \ {c} : call'[d] = call[d]
        BY <1>1, <2>1, <2>2, GotoCall, LabelsAre
    <2>4. \A d \in undone : d # c /\ call[d].at = "expire"
        BY <2>1 DEF FamilyOK, At
    <2>5. FamilyOK'
        BY <1>1, <2>1, <2>2, <2>3, <2>4, FamilyStep DEF FamilyOK
    <2>6. TypeOK'
        BY <1>1, <1>2, <2>1, <2>3, Zenon DEF TypeOK, Entry, CallRec, GotRec
    <2> QED
        BY <2>5, <2>6
<1>5. CASE EvalFails(c)
    <2>1. /\ call[c].at = "eval" /\ Return(c)
          /\ Script(c) \/ UNCHANGED <<window, windowTTL, admitted>>
          /\ UNCHANGED <<family, entry, got, stands, undone, abandoned, steady>>
        BY <1>5 DEF EvalFails, At
    <2>2. c \notin undone
        BY <2>1 DEF FamilyOK, At
    <2>3. window' \subseteq Nat /\ windowTTL' \in 0 .. Window /\ admitted' \subseteq Nat
        BY <1>1, <2>1, ScriptTypes
    <2>4. call' \in [Callers -> CallRec]
        BY <1>1, <2>1, ReturnCall
    <2>5. FamilyOK'
        BY <2>1, <2>2, ReturnFamily DEF FamilyOK
    <2>6. TypeOK'
        BY <1>1, <1>2, <2>1, <2>3, <2>4, Zenon DEF TypeOK, Entry, CallRec, GotRec
    <2> QED
        BY <2>5, <2>6
<1>6. CASE Crash(c)
    <2>1. /\ Return(c) /\ undone' = undone \ {c} /\ abandoned' \in BOOLEAN
          /\ UNCHANGED <<family, got, stands, admitted, steady>>
          /\ UNCHANGED <<entry, window, windowTTL>>
        BY <1>1, <1>6 DEF Crash, cacheVars
    <2>2. call' \in [Callers -> CallRec] /\ undone' \subseteq Callers
        BY <1>1, <2>1, ReturnCall
    <2>3. FamilyOK'
        BY <2>1, ReturnFamily DEF FamilyOK
    <2>4. TypeOK'
        BY <1>1, <1>2, <2>1, <2>2, Zenon DEF TypeOK, Entry, CallRec, GotRec
    <2> QED
        BY <2>3, <2>4
<1> QED
    BY <1>3, <1>4, <1>5, <1>6, <1>7 DEF Fails

\* What a tick does to the calls, the answers and the log.
LEMMA TickIs ==
    ASSUME TypeOK, Tick
    PROVE  /\ \A d \in Callers :
                  /\ call'[d].at = call[d].at /\ call'[d].value = call[d].value
                  /\ call'[d].secs = call[d].secs
                  /\ call[d].at = "stamp" => call'[d].lag = call[d].lag + 1
                  /\ got[d].left > 0 => got'[d].left = got[d].left - 1
                  /\ got[d].left <= 0 => got'[d].left = got[d].left
                  /\ got'[d].value = got[d].value /\ got'[d].lag = got[d].lag
           /\ call' \in [Callers -> CallRec] /\ got' \in [Callers -> GotRec]
           /\ \A s \in stands' : \E t \in stands :
                  t.left > 1 /\ s.value = t.value /\ s.left = t.left - 1
           /\ stands' \subseteq [value : Values, left : Nat \ {0}]
           /\ stands' # {} => stands # {}
<1>1. /\ call \in [Callers -> CallRec] /\ got \in [Callers -> GotRec]
      /\ stands \subseteq [value : Values, left : Nat \ {0}]
    BY TypeParts
<1>2. \A d \in Callers :
          /\ call[d] \in CallRec /\ got[d] \in GotRec
          /\ call'[d] = IF d \in Lagging THEN [call[d] EXCEPT !.lag = @ + 1] ELSE call[d]
          /\ got'[d] = IF got[d].left > 0 THEN [got[d] EXCEPT !.left = @ - 1] ELSE got[d]
    BY <1>1 DEF Tick
<1>3. \A d \in Callers :
          /\ call'[d] \in CallRec
          /\ call'[d].at = call[d].at /\ call'[d].value = call[d].value
          /\ call'[d].secs = call[d].secs
          /\ call[d].at = "stamp" => call'[d].lag = call[d].lag + 1
    <2> TAKE d \in Callers
    <2>0. call[d] \in CallRec /\ call[d].lag \in Nat
        BY <1>2 DEF CallRec
    <2>1. CASE d \in Lagging
        <3>1. call'[d] = [call[d] EXCEPT !.lag = call[d].lag + 1]
            BY <2>1, <1>2
        <3> QED
            BY <2>0, <3>1 DEF CallRec
    <2>2. CASE d \notin Lagging
        BY <2>0, <2>2, <1>2 DEF Lagging, At
    <2> QED
        BY <2>1, <2>2
<1>4. \A d \in Callers :
          /\ got'[d] \in GotRec
          /\ got[d].left > 0 => got'[d].left = got[d].left - 1
          /\ got[d].left <= 0 => got'[d].left = got[d].left
          /\ got'[d].value = got[d].value /\ got'[d].lag = got[d].lag
    <2> TAKE d \in Callers
    <2>0. got[d] \in GotRec /\ got[d].left \in Int
        BY <1>2 DEF GotRec
    <2>1. CASE got[d].left > 0
        <3>1. got'[d] = [got[d] EXCEPT !.left = got[d].left - 1]
            BY <2>1, <1>2
        <3>2. got[d].left - 1 \in Int
            BY <2>0
        <3> QED
            BY <2>0, <2>1, <3>1, <3>2 DEF GotRec
    <2>2. CASE got[d].left <= 0
        <3>1. ~(got[d].left > 0)
            BY <2>0, <2>2
        <3>2. got'[d] = got[d]
            BY <3>1, <1>2
        <3> QED
            BY <2>0, <3>1, <3>2
    <2> QED
        BY <2>0, <2>1, <2>2
<1>5. call' \in [Callers -> CallRec] /\ got' \in [Callers -> GotRec]
    <2>1. /\ call' = [d \in Callers |-> call'[d]]
          /\ got' = [d \in Callers |-> got'[d]]
        BY DEF Tick
    <2> QED
        BY <2>1, <1>3, <1>4
<1>6. stands' = {[t EXCEPT !.left = @ - 1] : t \in {t \in stands : t.left > 1}}
    BY DEF Tick
<1>7. \A s \in stands' : \E t \in stands :
          /\ t.left > 1 /\ s.value = t.value /\ s.left = t.left - 1
          /\ s \in [value : Values, left : Nat \ {0}]
    <2> TAKE s \in stands'
    <2>1. PICK t \in stands : t.left > 1 /\ s = [t EXCEPT !.left = @ - 1]
        BY <1>6
    <2>2. t \in [value : Values, left : Nat \ {0}]
        BY <1>1
    <2>3. s.value = t.value /\ s.left = t.left - 1 /\ s \in [value : Values, left : Nat \ {0}]
        BY <2>1, <2>2
    <2> QED
        BY <2>1, <2>3
<1> QED
    BY <1>3, <1>4, <1>5, <1>7

LEMMA TickTypes ==
    ASSUME TypeOK, FamilyOK, Tick
    PROVE  TypeOK' /\ FamilyOK'
<1>1. /\ family \in Families /\ entry \in Entry
      /\ window \subseteq Nat /\ windowTTL \in 0 .. Window
      /\ call \in [Callers -> CallRec] /\ got \in [Callers -> GotRec]
      /\ stands \subseteq [value : Values, left : Nat \ {0}]
      /\ admitted \subseteq Nat
      /\ undone \subseteq Callers /\ abandoned \in BOOLEAN /\ steady \subseteq Callers
      /\ faults \in 0 .. MaxFaults
    BY TypeParts
<1>2. entry' \in Entry
    BY <1>1, OlderIs DEF Tick
<1>3. window' \subseteq Nat /\ admitted' \subseteq Nat
    BY <1>1 DEF Tick
<1>4. windowTTL' \in 0 .. Window
    BY <1>1, CacheAssumption DEF Tick
<1>5. steady' \subseteq steady
    BY DEF Tick
<1>6. UNCHANGED <<family, abandoned, faults>>
    BY DEF Tick
<1>7. \A d \in Callers : /\ call'[d].at = call[d].at /\ call'[d].value = call[d].value
                         /\ call'[d].secs = call[d].secs
    BY TickIs
<1>8. undone' \subseteq Callers /\ \A d \in undone' : call'[d].at = "expire"
    <2>1. \A d \in undone' : d \in Callers /\ call[d].at = "expire"
        BY <1>1 DEF Tick, Unexpired, FamilyOK, At
    <2> QED
        BY <1>7, <2>1
<1>9. FamilyOK'
    <2>1. stands' # {} => stands # {}
        BY TickIs
    <2> QED
        BY <1>1, <1>5, <1>6, <1>7, <1>8, <2>1 DEF FamilyOK, At
<1>10. /\ call' \in [Callers -> CallRec] /\ got' \in [Callers -> GotRec]
       /\ stands' \subseteq [value : Values, left : Nat \ {0}] /\ steady' \subseteq Callers
    BY <1>1, <1>5, TickIs
<1>11. TypeOK'
    BY <1>1, <1>2, <1>3, <1>4, <1>6, <1>8, <1>10, Zenon DEF TypeOK, Entry, CallRec, GotRec
<1> QED
    BY <1>9, <1>11

-----------------------------------------------------------------------------
(* Locks and idempotency keys.                                             *)

\* Steps that touch neither the string key nor a caller about to send EXPIRE.
LEMMA QuietKeepsLock ==
    ASSUME LockOK, UNCHANGED <<entry, stands, abandoned, undone>>,
           \A d \in Callers : /\ call[d].at = "expire" <=> call'[d].at = "expire"
                              /\ call[d].at = "expire" => call'[d] = call[d]
    PROVE  LockOK'
<1>1. \A d \in Callers : (Holds(d)' <=> Holds(d)) /\ (Holds(d) => call'[d] = call[d])
    BY DEF Holds, At
<1>2. EndlessNeedsCause'
    BY <1>1 DEF LockOK, EndlessNeedsCause, Holds
<1>3. HolderOK'
    BY <1>1 DEF LockOK, HolderOK
<1>4. AcknowledgedStands'
    BY DEF LockOK, AcknowledgedStands
<1> QED
    BY <1>2, <1>3, <1>4 DEF LockOK

\* An absent key has no holder, and nothing stands in it.
LEMMA AbsentKey ==
    ASSUME TypeOK, LockOK, entry.ttl = NoKey
    PROVE  stands = {} /\ \A d \in Callers : ~Holds(d)
<1>1. stands = {}
    <2> SUFFICES ASSUME NEW s \in stands PROVE FALSE
        OBVIOUS
    <2>1. s.left \in Nat \ {0}
        BY DEF TypeOK
    <2> QED
        BY <2>1 DEF LockOK, AcknowledgedStands, NoKey, NoExpiry
<1>2. \A d \in Callers : ~Holds(d)
    BY DEF LockOK, HolderOK
<1> QED
    BY <1>1, <1>2

LEMMA CommandKeepsLock ==
    ASSUME TypeOK, FamilyOK, LockOK, NEW c \in Callers, Commands(c)
    PROVE  LockOK'
<1>1. call \in [Callers -> CallRec] /\ got \in [Callers -> GotRec] /\ faults \in 0 .. MaxFaults
    BY TypeParts
<1>2. ASSUME NEW v \in Values, NEW secs \in TTLs, SetNX(c, v, secs) PROVE LockOK'
    <2>1. /\ call[c].at = "idle" /\ entry = Absent
          /\ entry' = [value |-> v, ttl |-> NoExpiry] /\ Goto(c, "expire", v, secs)
          /\ UNCHANGED <<stands, undone, faults>>
        BY <1>2 DEF SetNX, At
    <2>2. /\ call'[c].at = "expire" /\ call'[c].value = v
          /\ \A d \in Callers \ {c} : call'[d] = call[d]
        BY <1>1, <2>1, CacheAssumption, GotoCall, LabelsAre
    <2>3. c \notin undone /\ Holds(c)'
        BY <2>1, <2>2 DEF FamilyOK, At, Holds
    <2>4. \A d \in Callers \ {c} : Holds(d)' <=> Holds(d)
        BY <2>1, <2>2 DEF Holds, At
    <2>5. stands = {} /\ \A d \in Callers : ~Holds(d)
        BY <2>1, AbsentIs, AbsentKey
    <2>6. EndlessNeedsCause'
        BY <2>3 DEF EndlessNeedsCause, Holds
    <2>7. entry'.value = v /\ entry'.ttl # NoKey
        BY <2>1 DEF NoKey, NoExpiry
    <2>8. HolderOK'
        BY <2>1, <2>2, <2>4, <2>5, <2>7 DEF HolderOK
    <2>9. AcknowledgedStands'
        BY <2>1, <2>5 DEF AcknowledgedStands
    <2> QED
        BY <2>6, <2>8, <2>9 DEF LockOK
<1>3. ASSUME NEW v \in Values, SetNXFails(c, v) PROVE LockOK'
    <2>1. entry = Absent /\ abandoned' = TRUE /\ UNCHANGED <<call, stands, undone>>
        BY <1>3 DEF SetNXFails
    <2>2. stands = {} /\ \A d \in Callers : ~Holds(d)
        BY <2>1, AbsentIs, AbsentKey
    <2>3. HolderOK'
        BY <2>1, <2>2 DEF HolderOK, Holds, At
    <2>4. AcknowledgedStands'
        BY <2>1, <2>2 DEF AcknowledgedStands
    <2> QED
        BY <2>1, <2>3, <2>4 DEF LockOK, EndlessNeedsCause
<1>4. CASE DeleteFXRate(c)
    <2>1. entry' = Absent /\ stands' = {} /\ call' = call /\ undone' = Unexpired
        BY <1>4 DEF DeleteFXRate
    <2>2. \A d \in Callers : ~Holds(d)'
        BY <2>1 DEF Holds, At, Unexpired
    <2>3. entry'.ttl # NoExpiry
        BY <2>1, IdleIs DEF NoKey, NoExpiry
    <2> QED
        BY <2>1, <2>2, <2>3 DEF LockOK, EndlessNeedsCause, HolderOK, AcknowledgedStands
<1>5. CASE GetValue(c)
    <2>1. /\ call[c].at = "idle" /\ Goto(c, "ttl", entry.value, 0) /\ entry # Absent
          /\ UNCHANGED <<entry, stands, undone, abandoned>>
        BY <1>5 DEF GetValue, At, cacheVars
    <2>2. entry.value \in Values
        BY <2>1, AbsentIs
    <2>3. call'[c].at = "ttl" /\ \A d \in Callers \ {c} : call'[d] = call[d]
        BY <1>1, <2>1, <2>2, GotoCall, LabelsAre
    <2>4. \A d \in Callers : /\ call[d].at = "expire" <=> call'[d].at = "expire"
                             /\ call[d].at = "expire" => call'[d] = call[d]
        BY <2>1, <2>3
    <2> QED
        BY <2>1, <2>4, QuietKeepsLock
<1>6. ASSUME NEW v \in Values, NEW secs \in TTLs, CacheTenantByAPIKey(c, v, secs) PROVE LockOK'
    <2>1. /\ family = "api_key" /\ entry' = [value |-> v, ttl |-> Ticks(secs)]
          /\ UNCHANGED <<call, stands, undone>>
        BY <1>6 DEF CacheTenantByAPIKey, ghosts
    <2>2. stands = {} /\ \A d \in Callers : ~Holds(d)'
        BY <2>1 DEF FamilyOK, Holds, At
    <2>3. entry'.ttl # NoExpiry
        BY <2>1, CacheAssumption, TicksAre DEF NoExpiry
    <2> QED
        BY <2>1, <2>2, <2>3 DEF LockOK, EndlessNeedsCause, HolderOK, AcknowledgedStands
<1>7. CASE GetString(c)
    <2>1. UNCHANGED <<entry, stands, undone, abandoned, call>>
        BY <1>7 DEF GetString, cacheVars, ghosts
    <2> QED
        BY <2>1, QuietKeepsLock
<1>8. CASE TakeNow(c)
    <2>1. /\ call[c].at = "idle" /\ Goto(c, "eval", NoValue, 0)
          /\ UNCHANGED <<entry, stands, undone, abandoned>>
        BY <1>8 DEF TakeNow, At, cacheVars, ghosts
    <2>2. call'[c].at = "eval" /\ \A d \in Callers \ {c} : call'[d] = call[d]
        BY <1>1, <2>1, GotoCall, LabelsAre
    <2>3. \A d \in Callers : /\ call[d].at = "expire" <=> call'[d].at = "expire"
                             /\ call[d].at = "expire" => call'[d] = call[d]
        BY <2>1, <2>2
    <2> QED
        BY <2>1, <2>3, QuietKeepsLock
<1> QED
    BY <1>2, <1>3, <1>4, <1>5, <1>6, <1>7, <1>8 DEF Commands

\* EXPIRE by the holder makes its promise true; by another it finds no key, or
\* shortens what stands as it shortens the lock.
LEMMA ExpireKeepsLock ==
    ASSUME TypeOK, FamilyOK, LockOK, NEW c \in Callers, At(c, "expire"), ExpireRuns(c), Return(c),
           c \in undone => stands' = Shortened(Ticks(call[c].secs)),
           c \notin undone => Acknowledge(c, Ticks(call[c].secs)) \/ stands' = stands
    PROVE  LockOK'
<1> DEFINE left == Ticks(call[c].secs)
<1>1. /\ call[c].secs \in Nat /\ entry \in Entry /\ call \in [Callers -> CallRec]
      /\ left \in Nat /\ (left = 0 <=> call[c].secs = 0)
      /\ stands \subseteq [value : Values, left : Nat \ {0}]
    BY CacheAssumption, TypeParts, TicksAre DEF FamilyOK
<1>2. call'[c].at = "idle" /\ \A d \in Callers \ {c} : call'[d] = call[d]
    BY <1>1, ReturnCall, IdleIs
<1>3. /\ call[c].secs = 0 => entry' = Absent
      /\ entry = Absent => entry' = Absent
      /\ call[c].secs # 0 /\ entry # Absent => entry'.value = entry.value /\ entry'.ttl = left
    BY <1>1, ExpiredIs DEF ExpireRuns
<1> HIDE DEF left
<1>4. /\ ~Holds(c)'
      /\ \A d \in Callers \ {c} : Holds(d)' => Holds(d) /\ call[c].secs # 0
    BY <1>2 DEF Holds, At, ExpireRuns, Unexpired
<1>5. EndlessNeedsCause'
    <2>1. entry'.ttl # NoExpiry
        BY <1>1, <1>3, IdleIs DEF NoKey, NoExpiry
    <2> QED
        BY <2>1 DEF EndlessNeedsCause
<1>6. CASE entry = Absent
    <2>1. stands = {} /\ \A d \in Callers : ~Holds(d)
        BY <1>6, IdleIs, AbsentKey
    <2>2. c \in undone
        BY <2>1 DEF Holds
    <2>3. stands' = {}
        BY <1>1, <2>1, <2>2, ShortenedIs DEF left
    <2> QED
        BY <1>4, <1>5, <2>1, <2>3 DEF LockOK, HolderOK, AcknowledgedStands
<1>7. CASE entry # Absent /\ c \in undone
    <2>1. /\ left = 0 => stands' = {}
          /\ \A s \in stands' : s.left <= left /\ \E t \in stands : s.value = t.value
        BY <1>1, <1>7, ShortenedIs DEF left
    <2>2. AcknowledgedStands'
        <3> SUFFICES ASSUME NEW s \in stands'
                     PROVE  entry'.value = s.value /\ entry'.ttl >= s.left
            BY DEF AcknowledgedStands
        <3>1. PICK t \in stands : s.value = t.value
            BY <2>1
        <3>2. entry.value = t.value
            BY DEF LockOK, AcknowledgedStands
        <3>3. entry'.value = entry.value /\ entry'.ttl = left
            BY <1>1, <1>3, <1>7, <2>1
        <3>4. s.left \in Nat
            <4>1. stands' \subseteq [value : Values, left : Nat \ {0}]
                BY <1>1, <1>7, ShortenedIs DEF left
            <4> QED
                BY <4>1
        <3> QED
            BY <1>1, <2>1, <3>1, <3>2, <3>3, <3>4
    <2>3. HolderOK'
        <3> SUFFICES ASSUME NEW d \in Callers, Holds(d)'
                     PROVE  /\ entry'.value = call'[d].value /\ entry'.ttl # NoKey
                            /\ stands' = {}
                            /\ \A e \in Callers : Holds(e)' => e = d
            BY DEF HolderOK
        <3>1. d # c /\ Holds(d) /\ call[c].secs # 0 /\ call'[d] = call[d]
            BY <1>2, <1>4
        <3>2. /\ entry.value = call[d].value /\ stands = {}
              /\ \A e \in Callers : Holds(e) => e = d
            BY <3>1 DEF LockOK, HolderOK
        <3>3. stands' = {}
            BY <2>1, <3>2
        <3>4. entry'.value = entry.value /\ entry'.ttl # NoKey
            BY <1>1, <1>3, <1>7, <3>1 DEF NoKey
        <3> QED
            BY <1>4, <3>1, <3>2, <3>3, <3>4
    <2> QED
        BY <1>5, <2>2, <2>3 DEF LockOK
<1>8. CASE entry # Absent /\ c \notin undone
    <2>1. /\ Holds(c) /\ entry.value = call[c].value /\ stands = {}
          /\ \A d \in Callers : Holds(d) => d = c
        BY <1>8 DEF Holds, LockOK, HolderOK
    <2>2. \A d \in Callers : ~Holds(d)'
        BY <1>4, <2>1
    <2>3. stands' \subseteq IF left = 0 THEN {} ELSE {[value |-> call[c].value, left |-> left]}
        BY <1>8, <2>1 DEF Acknowledge, left
    <2>4. \A s \in stands' : entry'.value = s.value /\ entry'.ttl >= s.left
        BY <1>1, <1>3, <1>8, <2>1, <2>3
    <2> QED
        BY <1>5, <2>2, <2>4 DEF LockOK, HolderOK, AcknowledgedStands
<1> QED
    BY <1>6, <1>7, <1>8

LEMMA ContinueKeepsLock ==
    ASSUME TypeOK, FamilyOK, LockOK, NEW c \in Callers, Continues(c)
    PROVE  LockOK'
<1>1. call \in [Callers -> CallRec]
    BY TypeParts
<1>2. CASE Expire(c)
    <2>1. /\ At(c, "expire") /\ ExpireRuns(c) /\ Return(c)
          /\ c \in undone => stands' = Shortened(Ticks(call[c].secs))
          /\ c \notin undone => Acknowledge(c, Ticks(call[c].secs))
        BY <1>2 DEF Expire
    <2> QED
        BY <2>1, ExpireKeepsLock
<1>3. CASE GetTTL(c) \/ Stamp(c) \/ Eval(c)
    <2>1. /\ call[c].at # "expire"
          /\ Return(c) \/ (Goto(c, "stamp", call[c].value, TTLReply(entry.ttl)) /\ call[c].at = "ttl")
          /\ UNCHANGED <<entry, stands, undone, abandoned>>
        BY <1>3 DEF GetTTL, Stamp, Eval, At, cacheVars, ghosts
    <2>2. call'[c].at # "expire" /\ \A d \in Callers \ {c} : call'[d] = call[d]
        <3>1. CASE Return(c)
            BY <1>1, <3>1, ReturnCall, IdleIs
        <3>2. CASE Goto(c, "stamp", call[c].value, TTLReply(entry.ttl)) /\ call[c].at = "ttl"
            <4>1. call[c].value \in Values /\ TTLReply(entry.ttl) \in Int
                BY <3>2, AbsentIs, ReplyIs DEF FamilyOK, At
            <4> QED
                BY <1>1, <3>2, <4>1, GotoCall, LabelsAre
        <3> QED
            BY <2>1, <3>1, <3>2
    <2>3. \A d \in Callers : /\ call[d].at = "expire" <=> call'[d].at = "expire"
                             /\ call[d].at = "expire" => call'[d] = call[d]
        BY <2>1, <2>2
    <2> QED
        BY <2>1, <2>3, QuietKeepsLock
<1> QED
    BY <1>2, <1>3 DEF Continues

\* A caller goes without its EXPIRE: a lock of its own is abandoned.
LEMMA LeavingKeepsLock ==
    ASSUME TypeOK, FamilyOK, LockOK, NEW c \in Callers, Return(c), entry' = entry,
           undone' = undone \ {c}, abandoned' = (abandoned \/ Holds(c)),
           ~Holds(c) => stands' = stands,
           \A s \in stands' : \/ s \in stands
                              \/ /\ s.value = call[c].value
                                 /\ entry.ttl = NoExpiry \/ entry.ttl >= s.left
    PROVE  LockOK'
<1>1. call'[c].at = "idle" /\ \A d \in Callers \ {c} : call'[d] = call[d]
    BY TypeParts, ReturnCall, IdleIs
<1>2. ~Holds(c)' /\ \A d \in Callers \ {c} : Holds(d)' <=> Holds(d)
    BY <1>1 DEF Holds, At
<1>3. EndlessNeedsCause'
    BY <1>2 DEF LockOK, EndlessNeedsCause, Holds
<1>4. CASE Holds(c)
    <2>1. /\ entry.value = call[c].value /\ stands = {}
          /\ \A d \in Callers : Holds(d) => d = c
        BY <1>4 DEF LockOK, HolderOK
    <2>2. HolderOK' /\ AcknowledgedStands'
        BY <1>2, <2>1 DEF HolderOK, AcknowledgedStands
    <2> QED
        BY <1>3, <2>2 DEF LockOK
<1>5. CASE ~Holds(c)
    <2>1. HolderOK'
        BY <1>1, <1>2, <1>5 DEF LockOK, HolderOK
    <2>2. AcknowledgedStands'
        BY <1>5 DEF LockOK, AcknowledgedStands
    <2> QED
        BY <1>3, <2>1, <2>2 DEF LockOK
<1> QED
    BY <1>4, <1>5

LEMMA FailKeepsLock ==
    ASSUME TypeOK, FamilyOK, LockOK, NEW c \in Callers, Fails(c)
    PROVE  LockOK'
<1>1. call \in [Callers -> CallRec]
    BY TypeParts
<1>2. CASE ExpireUnanswered(c)
    <2>1. /\ At(c, "expire") /\ ExpireRuns(c) /\ Return(c)
          /\ c \in undone => stands' = Shortened(Ticks(call[c].secs))
          /\ c \notin undone => Acknowledge(c, Ticks(call[c].secs)) \/ stands' = stands
        BY <1>2, Zenon DEF ExpireUnanswered
    <2> QED
        BY <2>1, ExpireKeepsLock
<1>3. CASE ExpireFails(c)
    <2>1. /\ At(c, "expire") /\ Return(c) /\ entry' = entry /\ undone' = undone \ {c}
          /\ abandoned' = (abandoned \/ Holds(c))
        BY <1>3 DEF ExpireFails, Holds, cacheVars
    <2>2. call[c].secs \in Nat /\ Ticks(call[c].secs) \in Nat /\ entry.ttl \in Int
        BY <2>1, CacheAssumption, TicksAre, AbsentIs DEF FamilyOK
    <2>3. PICK left \in Nat :
              /\ Acknowledge(c, left) \/ stands' = stands
              /\ entry.ttl > 0 => entry.ttl >= left
        BY <1>3, <2>2 DEF ExpireFails
    <2>4. CASE ~Holds(c)
        <3>1. stands' = stands
            BY <2>1, <2>3, <2>4 DEF Holds, Acknowledge
        <3> QED
            BY <2>1, <2>4, <3>1, LeavingKeepsLock
    <2>5. CASE Holds(c)
        <3>1. entry.ttl # NoKey
            BY <2>5 DEF LockOK, HolderOK
        <3>2. entry.ttl = NoExpiry \/ entry.ttl > 0
            BY <3>1, AbsentIs
        <3>3. stands' = stands \/ stands' = stands \union {[value |-> call[c].value, left |-> left]}
            BY <2>3 DEF Acknowledge
        <3>4. \A s \in stands' : s \in stands \/ (s.value = call[c].value /\ s.left = left)
            BY <3>3
        <3> QED
            BY <2>1, <2>3, <2>5, <3>2, <3>4, LeavingKeepsLock
    <2> QED
        BY <2>4, <2>5
<1>4. CASE Crash(c)
    <2>1. /\ Return(c) /\ undone' = undone \ {c} /\ UNCHANGED <<entry, stands>>
          /\ abandoned' = (abandoned \/ Holds(c))
        BY <1>4 DEF Crash, Holds, cacheVars
    <2> QED
        BY <2>1, LeavingKeepsLock
<1>5. CASE GetTTLFails(c) \/ EvalFails(c)
    <2>1. /\ call[c].at # "expire"
          /\ Return(c) \/ (Goto(c, "stamp", call[c].value, 0) /\ call[c].at = "ttl")
          /\ UNCHANGED <<entry, stands, undone, abandoned>>
        BY <1>5 DEF GetTTLFails, EvalFails, At, cacheVars, ghosts
    <2>2. call'[c].at # "expire" /\ \A d \in Callers \ {c} : call'[d] = call[d]
        <3>1. CASE Return(c)
            BY <1>1, <3>1, ReturnCall, IdleIs
        <3>2. CASE Goto(c, "stamp", call[c].value, 0) /\ call[c].at = "ttl"
            <4>1. call[c].value \in Values
                BY <3>2 DEF FamilyOK, At
            <4> QED
                BY <1>1, <3>2, <4>1, GotoCall, LabelsAre
        <3> QED
            BY <2>1, <3>1, <3>2
    <2>3. \A d \in Callers : /\ call[d].at = "expire" <=> call'[d].at = "expire"
                             /\ call[d].at = "expire" => call'[d] = call[d]
        BY <2>1, <2>2
    <2> QED
        BY <2>1, <2>3, QuietKeepsLock
<1> QED
    BY <1>2, <1>3, <1>4, <1>5 DEF Fails

LEMMA TickKeepsLock ==
    ASSUME TypeOK, FamilyOK, LockOK, Tick
    PROVE  LockOK'
<1>1. /\ entry \in Entry /\ entry' = Older(entry) /\ UNCHANGED abandoned
      /\ undone' = IF entry.ttl = 1 THEN Unexpired ELSE undone
    BY TypeParts DEF Tick
<1>2. \A d \in Callers : call'[d].at = call[d].at /\ call'[d].value = call[d].value
    BY TickIs
<1>3. /\ entry.ttl = 1 => entry' = Absent
      /\ entry.ttl \in Nat /\ entry.ttl > 1 => entry'.ttl = entry.ttl - 1 /\ entry'.value = entry.value
      /\ entry = Absent \/ entry.ttl = NoExpiry => entry' = entry
    BY <1>1, OlderIs
<1>4. entry = Absent \/ entry.ttl = NoExpiry \/ entry.ttl \in Nat \ {0}
    BY AbsentIs
<1>5. /\ entry.ttl = 1 => \A d \in Callers : ~Holds(d)'
      /\ entry.ttl # 1 => \A d \in Callers : Holds(d)' <=> Holds(d)
    BY <1>1, <1>2 DEF Holds, At, Unexpired
<1>6. EndlessNeedsCause'
    <2>1. entry'.ttl = NoExpiry => entry.ttl = NoExpiry
        BY <1>3, <1>4, IdleIs DEF NoKey, NoExpiry
    <2> QED
        BY <1>1, <1>5, <2>1 DEF LockOK, EndlessNeedsCause, Holds, NoExpiry
<1>7. HolderOK'
    <2> SUFFICES ASSUME NEW c \in Callers, Holds(c)'
                 PROVE  /\ entry'.value = call'[c].value /\ entry'.ttl # NoKey
                        /\ stands' = {}
                        /\ \A d \in Callers : Holds(d)' => d = c
        BY DEF HolderOK
    <2>1. Holds(c) /\ entry.ttl # 1
        BY <1>5
    <2>2. /\ entry.value = call[c].value /\ entry.ttl # NoKey /\ stands = {}
          /\ \A d \in Callers : Holds(d) => d = c
        BY <2>1 DEF LockOK, HolderOK
    <2>3. stands' = {}
        BY <2>2, TickIs
    <2>4. entry'.value = entry.value /\ entry'.ttl # NoKey
        BY <1>3, <1>4, <2>1, <2>2, IdleIs DEF NoKey, NoExpiry
    <2> QED
        BY <1>2, <1>5, <2>1, <2>2, <2>3, <2>4
<1>8. AcknowledgedStands'
    <2> SUFFICES ASSUME NEW s \in stands'
                 PROVE  entry'.value = s.value /\ (entry'.ttl = NoExpiry \/ entry'.ttl >= s.left)
        BY DEF AcknowledgedStands
    <2>1. PICK t \in stands : t.left > 1 /\ s.value = t.value /\ s.left = t.left - 1
        BY TickIs
    <2>2. entry.value = t.value /\ (entry.ttl = NoExpiry \/ entry.ttl >= t.left)
        BY DEF LockOK, AcknowledgedStands
    <2>3. t.left \in Nat
        BY DEF TypeOK
    <2>4. CASE entry.ttl = NoExpiry
        BY <1>3, <2>1, <2>2, <2>4
    <2>5. CASE entry.ttl # NoExpiry
        <3>1. entry.ttl \in Nat /\ entry.ttl > 1
            BY <1>4, <2>1, <2>2, <2>3, <2>5, IdleIs DEF NoKey
        <3> QED
            BY <1>3, <2>1, <2>2, <2>3, <2>5, <3>1
    <2> QED
        BY <2>4, <2>5
<1> QED
    BY <1>6, <1>7, <1>8 DEF LockOK

-----------------------------------------------------------------------------
(* Readers.                                                                *)

\* Steps that leave the key alone and change no reader but by ending its call.
LEMMA QuietKeepsRead ==
    ASSUME ReadOK, entry' = entry, got' = got, steady' \subseteq steady,
           \A d \in steady : call'[d] = call[d] \/ call'[d].at \notin {"ttl", "stamp"}
    PROVE  ReadOK'
<1> SUFFICES ASSUME NEW d \in steady PROVE TrueReader(d)'
    BY DEF ReadOK
<1>1. TrueReader(d)
    BY DEF ReadOK
<1>2. CASE call'[d] = call[d]
    BY <1>1, <1>2 DEF TrueReader, Backed, At
<1>3. CASE call'[d].at \notin {"ttl", "stamp"}
    BY <1>1, <1>3 DEF TrueReader, Backed, At
<1> QED
    BY <1>2, <1>3

\* Nobody reads rates where the key is not one.
LEMMA NoReaders ==
    ASSUME FamilyOK, family # "fx_rate", steady' \subseteq steady
    PROVE  ReadOK'
BY DEF FamilyOK, ReadOK

LEMMA ReaderTypes ==
    ASSUME TypeOK
    PROVE  /\ steady \subseteq Callers
           /\ \A d \in Callers : /\ got[d].left \in Int /\ got[d].lag \in Nat
                                 /\ call[d].secs \in Int /\ call[d].lag \in Nat
                                 /\ Ticks(call[d].secs) \in Int
BY TypeParts, TicksAre DEF GotRec, CallRec

\* When the key is without a running lifetime no reader counts on one.
LEMMA NothingCounted ==
    ASSUME TypeOK, ReadOK, entry.ttl \in {NoKey, NoExpiry}, NEW d \in steady
    PROVE  /\ got[d].left <= Half + got[d].lag
           /\ At(d, "stamp") => Ticks(call[d].secs) <= Half + call[d].lag
           /\ entry.ttl = NoKey => ~At(d, "ttl")
<1>1. TrueReader(d)
    BY DEF ReadOK
<1>2. /\ got[d].left \in Int /\ got[d].lag \in Nat
      /\ call[d].lag \in Nat /\ Ticks(call[d].secs) \in Int /\ Half \in Nat
    BY ReaderTypes, HalfIs
<1> QED
    BY <1>1, <1>2 DEF TrueReader, Backed, NoKey, NoExpiry

\* Then the key may change under a reader that counts on nothing.
LEMMA FreeKey ==
    ASSUME TypeOK, NEW d \in Callers,
           got[d].left <= Half + got[d].lag,
           At(d, "stamp") => Ticks(call[d].secs) <= Half + call[d].lag,
           got'[d] = got[d],
           call'[d] = call[d] \/ call'[d].at \notin {"ttl", "stamp"},
           call'[d].at = "ttl" => entry'.value = call'[d].value /\ entry'.ttl # NoKey
    PROVE  TrueReader(d)'
<1>1. /\ got[d].left \in Int /\ got[d].lag \in Nat
      /\ call[d].lag \in Nat /\ Ticks(call[d].secs) \in Int /\ Half \in Nat
    BY ReaderTypes, HalfIs
<1>2. Backed(got[d].value, got[d].left, got[d].lag)'
    BY <1>1 DEF Backed
<1>3. At(d, "stamp")' => Backed(call[d].value, Ticks(call[d].secs), call[d].lag)'
    <2> SUFFICES ASSUME call'[d].at = "stamp"
                 PROVE  ~(Ticks(call'[d].secs) > Half + call'[d].lag)
        BY DEF Backed, At, Ticks, Half
    <2>1. call'[d] = call[d] /\ At(d, "stamp")
        BY DEF At
    <2> QED
        BY <1>1, <2>1
<1> QED
    BY <1>2, <1>3 DEF TrueReader, At

LEMMA CommandKeepsRead ==
    ASSUME TypeOK, FamilyOK, ReadOK, NEW c \in Callers, Commands(c)
    PROVE  ReadOK'
<1>1. /\ call \in [Callers -> CallRec] /\ got \in [Callers -> GotRec] /\ steady \subseteq Callers
    BY TypeParts
<1>2. ASSUME NEW v \in Values, NEW secs \in TTLs, SetNX(c, v, secs) PROVE ReadOK'
    <2>1. /\ entry = Absent /\ Goto(c, "expire", v, secs) /\ UNCHANGED <<got, steady>>
        BY <1>2 DEF SetNX, At
    <2>2. call'[c].at = "expire" /\ \A d \in Callers \ {c} : call'[d] = call[d]
        BY <1>1, <2>1, CacheAssumption, GotoCall, LabelsAre
    <2>3. entry.ttl = NoKey
        BY <2>1, IdleIs
    <2> SUFFICES ASSUME NEW d \in steady PROVE TrueReader(d)'
        BY <2>1 DEF ReadOK
    <2>4. /\ got[d].left <= Half + got[d].lag /\ ~At(d, "ttl")
          /\ At(d, "stamp") => Ticks(call[d].secs) <= Half + call[d].lag
        BY <2>3, NothingCounted
    <2>5. /\ d \in Callers /\ got'[d] = got[d]
          /\ call'[d] = call[d] \/ call'[d].at \notin {"ttl", "stamp"}
          /\ call'[d].at # "ttl"
        BY <1>1, <2>1, <2>2, <2>4 DEF At
    <2> QED
        BY <2>4, <2>5, FreeKey
<1>3. ASSUME NEW v \in Values, SetNXFails(c, v) PROVE ReadOK'
    <2>1. entry = Absent /\ UNCHANGED <<call, got, steady>>
        BY <1>3 DEF SetNXFails
    <2>2. entry.ttl = NoKey
        BY <2>1, IdleIs
    <2> SUFFICES ASSUME NEW d \in steady PROVE TrueReader(d)'
        BY <2>1 DEF ReadOK
    <2>3. /\ got[d].left <= Half + got[d].lag /\ ~At(d, "ttl")
          /\ At(d, "stamp") => Ticks(call[d].secs) <= Half + call[d].lag
        BY <2>2, NothingCounted
    <2>4. d \in Callers /\ got'[d] = got[d] /\ call'[d] = call[d] /\ call'[d].at # "ttl"
        BY <1>1, <2>1, <2>3 DEF At
    <2> QED
        BY <2>3, <2>4, FreeKey
<1>4. CASE DeleteFXRate(c)
    BY <1>4 DEF DeleteFXRate, ReadOK
<1>5. CASE GetValue(c)
    <2>1. /\ call[c].at = "idle" /\ Goto(c, "ttl", entry.value, 0) /\ entry # Absent
          /\ got' = [got EXCEPT ![c] = Nothing] /\ steady' = steady \union {c}
          /\ entry' = entry
        BY <1>5 DEF GetValue, At, cacheVars
    <2>2. entry.value \in Values /\ entry.ttl # NoKey
        BY <2>1, AbsentIs
    <2>3. /\ call'[c].at = "ttl" /\ call'[c].value = entry.value
          /\ \A d \in Callers \ {c} : call'[d] = call[d]
        BY <1>1, <2>1, <2>2, GotoCall, LabelsAre
    <2>4. /\ got'[c].left = 0 /\ got'[c].lag = 0 /\ \A d \in Callers \ {c} : got'[d] = got[d]
        BY <1>1, <2>1, IdleIs
    <2>5. TrueReader(c)'
        BY <2>1, <2>2, <2>3, <2>4, HalfIs DEF TrueReader, Backed, At, Half
    <2>6. ASSUME NEW d \in steady, d # c PROVE TrueReader(d)'
        <3>1. TrueReader(d) /\ d \in Callers
            BY <1>1 DEF ReadOK
        <3>2. call'[d] = call[d] /\ got'[d] = got[d]
            BY <2>3, <2>4, <2>6, <3>1
        <3> QED
            BY <2>1, <3>1, <3>2 DEF TrueReader, Backed, At
    <2> QED
        BY <2>1, <2>5, <2>6 DEF ReadOK
<1>6. ASSUME NEW v \in Values, NEW secs \in TTLs, CacheTenantByAPIKey(c, v, secs) PROVE ReadOK'
    BY <1>6, NoReaders DEF CacheTenantByAPIKey, ghosts
<1>7. CASE GetString(c)
    BY <1>7, NoReaders DEF GetString, ghosts
<1>8. CASE TakeNow(c)
    BY <1>8, NoReaders DEF TakeNow, ghosts
<1> QED
    BY <1>2, <1>3, <1>4, <1>5, <1>6, <1>7, <1>8 DEF Commands

\* EXPIRE leaves steady only those who saw a lock without a lifetime.
LEMMA ExpireKeepsRead ==
    ASSUME TypeOK, FamilyOK, ReadOK, NEW c \in Callers, At(c, "expire"), ExpireRuns(c), Return(c),
           got' = got
    PROVE  ReadOK'
<1>1. /\ call[c].secs \in Nat /\ entry \in Entry /\ steady \subseteq Callers
      /\ call \in [Callers -> CallRec]
    BY CacheAssumption, TypeParts DEF FamilyOK
<1>2. call'[c].at = "idle" /\ \A d \in Callers \ {c} : call'[d] = call[d]
    BY <1>1, ReturnCall, IdleIs
<1> SUFFICES ASSUME NEW d \in steady' PROVE TrueReader(d)'
    BY DEF ReadOK
<1>3. d \in steady /\ d \in Callers /\ call[c].secs # 0 /\ entry.ttl = NoExpiry
    BY <1>1 DEF ExpireRuns
<1>4. /\ got[d].left <= Half + got[d].lag
      /\ At(d, "stamp") => Ticks(call[d].secs) <= Half + call[d].lag
    BY <1>3, NothingCounted
<1>5. entry # Absent
    BY <1>3, IdleIs DEF NoKey, NoExpiry
<1>6. entry'.value = entry.value /\ entry'.ttl = Ticks(call[c].secs)
    BY <1>1, <1>3, <1>5, ExpiredIs DEF ExpireRuns
<1>7. entry'.ttl # NoKey
    BY <1>1, <1>6, TicksAre DEF NoKey
<1>8. call'[d] = call[d] \/ call'[d].at \notin {"ttl", "stamp"}
    BY <1>2, <1>3
<1>9. call'[d].at = "ttl" => entry'.value = call'[d].value
    <2> SUFFICES ASSUME call'[d].at = "ttl" PROVE entry'.value = call'[d].value
        OBVIOUS
    <2>1. call'[d] = call[d] /\ At(d, "ttl")
        BY <1>8 DEF At
    <2> QED
        BY <1>3, <1>6, <2>1 DEF ReadOK, TrueReader
<1> QED
    BY <1>3, <1>4, <1>7, <1>8, <1>9, FreeKey

LEMMA ContinueKeepsRead ==
    ASSUME TypeOK, FamilyOK, ReadOK, NEW c \in Callers, Continues(c)
    PROVE  ReadOK'
<1>1. /\ call \in [Callers -> CallRec] /\ got \in [Callers -> GotRec] /\ steady \subseteq Callers
    BY TypeParts
<1>2. CASE Expire(c)
    BY <1>2, ExpireKeepsRead DEF Expire
<1>3. CASE GetTTL(c)
    <2>1. /\ call[c].at = "ttl" /\ Goto(c, "stamp", call[c].value, TTLReply(entry.ttl))
          /\ UNCHANGED <<entry, got, steady>>
        BY <1>3 DEF GetTTL, At, cacheVars, ghosts
    <2>2. entry.ttl \in {NoKey, NoExpiry} \union Nat
        BY AbsentIs
    <2>3. call[c].value \in Values /\ TTLReply(entry.ttl) \in Int
        BY <2>1, <2>2, ReplyIs DEF FamilyOK, At
    <2>4. /\ call'[c].at = "stamp" /\ call'[c].value = call[c].value
          /\ call'[c].secs = TTLReply(entry.ttl) /\ call'[c].lag = 0
          /\ \A d \in Callers \ {c} : call'[d] = call[d]
        BY <1>1, <2>1, <2>3, GotoCall, LabelsAre
    <2> SUFFICES ASSUME NEW d \in steady PROVE TrueReader(d)'
        BY <2>1 DEF ReadOK
    <2>5. TrueReader(d) /\ d \in Callers
        BY <1>1 DEF ReadOK
    <2>6. Backed(got[d].value, got[d].left, got[d].lag)'
        BY <2>1, <2>5 DEF TrueReader, Backed
    <2>7. CASE d = c
        <3>1. entry.value = call[c].value
            BY <2>1, <2>5, <2>7 DEF TrueReader, At
        <3>2. /\ Ticks(TTLReply(entry.ttl)) \in Int /\ Half \in Nat /\ entry.ttl \in Int
              /\ entry.ttl \in Nat => Ticks(TTLReply(entry.ttl)) <= entry.ttl + Half
              /\ entry.ttl \notin Nat => Ticks(TTLReply(entry.ttl)) <= 0
            BY <2>2, <2>3, TicksAre, ReplyIs, HalfIs, AbsentIs
        <3>3. Ticks(TTLReply(entry.ttl)) > Half + 0 =>
                  entry.ttl >= Ticks(TTLReply(entry.ttl)) - (Half + 0)
            BY <3>2
        <3>4. Backed(call[d].value, Ticks(call[d].secs), call[d].lag)'
            <4>1. Ticks(call[d].secs)' = Ticks(TTLReply(entry.ttl))
                BY <2>4, <2>7 DEF Ticks
            <4> QED
                BY <2>1, <2>4, <2>7, <3>1, <3>3, <4>1 DEF Backed, Half
        <3> QED
            BY <2>4, <2>6, <2>7, <3>4 DEF TrueReader, At
    <2>8. CASE d # c
        BY <2>1, <2>4, <2>5, <2>8 DEF TrueReader, Backed, At
    <2> QED
        BY <2>7, <2>8
<1>4. CASE Stamp(c)
    <2>1. /\ call[c].at = "stamp" /\ Return(c)
          /\ got' = [got EXCEPT ![c] = [value |-> call[c].value,
                 left |-> Ticks(call[c].secs), lag |-> call[c].lag]]
          /\ UNCHANGED <<entry, steady>>
        BY <1>4 DEF Stamp, At, cacheVars, ghosts
    <2>2. call'[c].at = "idle" /\ \A d \in Callers \ {c} : call'[d] = call[d]
        BY <1>1, <2>1, ReturnCall, IdleIs
    <2>3. /\ got'[c].value = call[c].value /\ got'[c].left = Ticks(call[c].secs)
          /\ got'[c].lag = call[c].lag
          /\ \A d \in Callers \ {c} : got'[d] = got[d]
        BY <1>1, <2>1
    <2> SUFFICES ASSUME NEW d \in steady PROVE TrueReader(d)'
        BY <2>1 DEF ReadOK
    <2>4. TrueReader(d) /\ d \in Callers
        BY <1>1 DEF ReadOK
    <2>5. CASE d = c
        <3>1. Backed(call[c].value, Ticks(call[c].secs), call[c].lag)
            BY <2>1, <2>4, <2>5 DEF TrueReader, At
        <3>2. Backed(got[c].value, got[c].left, got[c].lag)'
            BY <2>1, <2>3, <3>1 DEF Backed
        <3> QED
            BY <2>2, <2>5, <3>2 DEF TrueReader, At
    <2>6. CASE d # c
        BY <2>1, <2>2, <2>3, <2>4, <2>6 DEF TrueReader, Backed, At
    <2> QED
        BY <2>5, <2>6
<1>5. CASE Eval(c)
    BY <1>5, NoReaders DEF Eval, FamilyOK
<1> QED
    BY <1>2, <1>3, <1>4, <1>5 DEF Continues

LEMMA FailKeepsRead ==
    ASSUME TypeOK, FamilyOK, ReadOK, NEW c \in Callers, Fails(c)
    PROVE  ReadOK'
<1>1. /\ call \in [Callers -> CallRec] /\ got \in [Callers -> GotRec] /\ steady \subseteq Callers
    BY TypeParts
<1>2. CASE ExpireUnanswered(c)
    BY <1>2, ExpireKeepsRead DEF ExpireUnanswered
<1>3. CASE ExpireFails(c) \/ Crash(c)
    <2>1. Return(c) /\ UNCHANGED <<entry, got, steady>>
        BY <1>3 DEF ExpireFails, Crash, cacheVars
    <2>2. call'[c].at = "idle" /\ \A d \in Callers \ {c} : call'[d] = call[d]
        BY <1>1, <2>1, ReturnCall, IdleIs
    <2>3. \A d \in steady : call'[d] = call[d] \/ call'[d].at \notin {"ttl", "stamp"}
        BY <1>1, <2>2
    <2> QED
        BY <2>1, <2>3, QuietKeepsRead
<1>4. CASE GetTTLFails(c)
    <2>1. /\ call[c].at = "ttl" /\ Goto(c, "stamp", call[c].value, 0)
          /\ UNCHANGED <<entry, got, steady>>
        BY <1>4 DEF GetTTLFails, At, cacheVars, ghosts
    <2>2. call[c].value \in Values
        BY <2>1 DEF FamilyOK, At
    <2>3. /\ call'[c].at = "stamp" /\ call'[c].secs = 0 /\ call'[c].lag = 0
          /\ \A d \in Callers \ {c} : call'[d] = call[d]
        BY <1>1, <2>1, <2>2, GotoCall, LabelsAre
    <2> SUFFICES ASSUME NEW d \in steady PROVE TrueReader(d)'
        BY <2>1 DEF ReadOK
    <2>4. TrueReader(d) /\ d \in Callers
        BY <1>1 DEF ReadOK
    <2>5. CASE d = c
        <3>1. ~(Ticks(0) > Half + 0)
            BY TicksAre, HalfIs
        <3>2. Backed(call[d].value, Ticks(call[d].secs), call[d].lag)'
            BY <2>3, <2>5, <3>1 DEF Backed, Ticks, Half
        <3> QED
            BY <2>1, <2>3, <2>4, <2>5, <3>2 DEF TrueReader, Backed, At
    <2>6. CASE d # c
        BY <2>1, <2>3, <2>4, <2>6 DEF TrueReader, Backed, At
    <2> QED
        BY <2>5, <2>6
<1>5. CASE EvalFails(c)
    BY <1>5, NoReaders DEF EvalFails, FamilyOK
<1> QED
    BY <1>2, <1>3, <1>4, <1>5 DEF Fails

LEMMA TickKeepsRead ==
    ASSUME TypeOK, FamilyOK, ReadOK, Tick
    PROVE  ReadOK'
<1>1. /\ entry \in Entry /\ entry' = Older(entry)
      /\ steady' = IF entry.ttl = 1 THEN steady \ Reading ELSE steady
    BY TypeParts DEF Tick
<1> SUFFICES ASSUME NEW d \in steady' PROVE TrueReader(d)'
    BY DEF ReadOK
<1>2. d \in Callers /\ d \in steady /\ TrueReader(d)
    BY <1>1, ReaderTypes DEF ReadOK
<1>3. /\ got[d].left \in Int /\ got[d].lag \in Nat
      /\ call[d].lag \in Nat /\ Ticks(call[d].secs) \in Int /\ Half \in Nat
    BY <1>2, ReaderTypes, HalfIs
<1>4. /\ call'[d].at = call[d].at /\ call'[d].value = call[d].value
      /\ call'[d].secs = call[d].secs
      /\ call[d].at = "stamp" => call'[d].lag = call[d].lag + 1
      /\ got[d].left > 0 => got'[d].left = got[d].left - 1
      /\ got[d].left <= 0 => got'[d].left = got[d].left
      /\ got'[d].value = got[d].value /\ got'[d].lag = got[d].lag
    BY <1>2, TickIs
<1>5. At(d, "ttl")' => entry'.value = call'[d].value /\ entry'.ttl # NoKey
    <2> SUFFICES ASSUME At(d, "ttl") PROVE entry'.value = call[d].value /\ entry'.ttl # NoKey
        BY <1>4 DEF At
    <2>1. entry.ttl # 1 /\ entry.value = call[d].value /\ entry.ttl # NoKey
        BY <1>1, <1>2 DEF Reading, TrueReader
    <2>2. entry.ttl = NoExpiry \/ (entry.ttl \in Nat /\ entry.ttl > 1)
        BY <2>1, AbsentIs, IdleIs
    <2> QED
        BY <1>1, <2>1, <2>2, OlderIs DEF NoKey, NoExpiry
<1>6. At(d, "stamp")' => Backed(call[d].value, Ticks(call[d].secs), call[d].lag)'
    <2>0. Ticks(call[d].secs)' = Ticks(call[d].secs)
        BY <1>4 DEF Ticks
    <2> SUFFICES ASSUME At(d, "stamp"), Ticks(call[d].secs) > Half + call'[d].lag
                 PROVE  /\ entry'.value = call[d].value
                        /\ entry'.ttl >= Ticks(call[d].secs) - (Half + call'[d].lag)
        BY <1>4, <2>0 DEF At, Backed, Half
    <2>1. call'[d].lag = call[d].lag + 1 /\ Ticks(call[d].secs) > (Half + call[d].lag) + 1
        BY <1>3, <1>4 DEF At
    <2>2. /\ entry.value = call[d].value
          /\ entry.ttl >= Ticks(call[d].secs) - (Half + call[d].lag)
        BY <1>2, <1>3, <2>1 DEF TrueReader, Backed
    <2>3. entry.ttl \in Nat /\ entry.ttl > 1
        BY <1>3, <2>1, <2>2, AbsentIs
    <2>4. entry'.ttl = entry.ttl - 1 /\ entry'.value = entry.value
        BY <1>1, <2>3, OlderIs
    <2> QED
        BY <1>3, <2>1, <2>2, <2>3, <2>4
<1>7. Backed(got[d].value, got[d].left, got[d].lag)'
    <2> SUFFICES ASSUME got'[d].left > Half + got[d].lag
                 PROVE  entry'.value = got[d].value /\ entry'.ttl >= got'[d].left - (Half + got[d].lag)
        BY <1>4 DEF Backed, Half
    <2>1. got'[d].left = got[d].left - 1 /\ got[d].left > (Half + got[d].lag) + 1
        BY <1>3, <1>4
    <2>2. entry.value = got[d].value /\ entry.ttl >= got[d].left - (Half + got[d].lag)
        BY <1>2, <1>3, <2>1 DEF TrueReader, Backed
    <2>3. entry.ttl \in Nat /\ entry.ttl > 1
        BY <1>3, <2>1, <2>2, AbsentIs
    <2>4. entry'.ttl = entry.ttl - 1 /\ entry'.value = entry.value
        BY <1>1, <2>3, OlderIs
    <2> QED
        BY <1>3, <2>1, <2>2, <2>3, <2>4
<1> QED
    BY <1>5, <1>6, <1>7 DEF TrueReader

-----------------------------------------------------------------------------
(* The rate limiter.                                                       *)

LEMMA ScriptKeepsWindow ==
    ASSUME TypeOK, WindowOK, NEW c \in Callers, Script(c)
    PROVE  WindowOK'
<1> DEFINE lag == call[c].lag
<1> DEFINE kept == InWindow(window, lag)
<1>1. /\ window \subseteq Nat /\ windowTTL \in 0 .. Window /\ Window \in Nat \ {0} /\ lag \in Nat
    BY CacheAssumption DEF TypeOK
<1>2. \/ /\ window' = kept \union {lag} /\ windowTTL' = Window
         /\ admitted' = admitted \union InWindow({lag}, 0)
      \/ window' = kept /\ windowTTL' = windowTTL /\ admitted' = admitted
    BY DEF Script, KeyLifetime
<1>3. kept \subseteq window /\ InWindow(kept, 0) = admitted
    <2>1. \A age \in window : age < 0 + Window => age < lag + Window
        BY <1>1
    <2>2. InWindow(kept, 0) = InWindow(window, 0)
        BY <2>1 DEF InWindow
    <2> QED
        BY <2>2 DEF WindowOK, InWindow
<1> HIDE DEF kept, lag
<1>4. InWindow(kept \union {lag}, 0) = InWindow(kept, 0) \union InWindow({lag}, 0)
    BY DEF InWindow
<1>5. InWindow(window', 0) = admitted'
    BY <1>2, <1>3, <1>4
<1>6. \A age \in window' : age + windowTTL' >= Window
    <2> TAKE age \in window'
    <2>1. age \in Nat
        BY <1>1, <1>2, <1>3
    <2>2. CASE windowTTL' = Window
        BY <1>1, <2>1, <2>2
    <2>3. CASE window' = kept /\ windowTTL' = windowTTL
        BY <1>3, <2>3 DEF WindowOK
    <2> QED
        BY <1>2, <2>2, <2>3
<1>7. windowTTL' = 0 => window' = {}
    BY <1>1, <1>2, <1>3 DEF WindowOK
<1>8. InWindow(window, 0)' = InWindow(window', 0)
    BY DEF InWindow
<1> QED
    BY <1>5, <1>6, <1>7, <1>8 DEF WindowOK

LEMMA TickKeepsWindow ==
    ASSUME TypeOK, WindowOK, Tick
    PROVE  WindowOK'
<1>1. /\ window \subseteq Nat /\ admitted \subseteq Nat /\ windowTTL \in 0 .. Window
      /\ Window \in Nat \ {0} /\ windowTTL \in Nat
    BY CacheAssumption DEF TypeOK
<1>2. /\ window' = IF windowTTL <= 1 THEN {} ELSE {age + 1 : age \in window}
      /\ windowTTL' = IF windowTTL <= 1 THEN 0 ELSE windowTTL - 1
      /\ admitted' = {age \in {a + 1 : a \in admitted} : age < Window}
    BY DEF Tick
<1>3. admitted = {age \in window : age < Window}
    BY <1>1 DEF WindowOK, InWindow
<1>4. InWindow(window, 0)' = {age \in window' : age < Window}
    BY <1>1 DEF InWindow
<1>5. CASE windowTTL <= 1
    <2>1. admitted' = {}
        <3> SUFFICES ASSUME NEW age \in admitted' PROVE FALSE
            OBVIOUS
        <3>1. PICK a \in admitted : age = a + 1 /\ age < Window
            BY <1>2
        <3>2. a \in window /\ a \in Nat
            BY <1>1, <1>3
        <3>3. a + windowTTL >= Window
            BY <3>2 DEF WindowOK
        <3> QED
            BY <1>1, <1>5, <3>1, <3>2, <3>3
    <2> QED
        BY <1>2, <1>4, <1>5, <2>1 DEF WindowOK
<1>6. CASE windowTTL > 1
    <2>1. window' = {age + 1 : age \in window} /\ windowTTL' = windowTTL - 1
        BY <1>1, <1>2, <1>6
    <2>2. \A age \in admitted' : age \in window' /\ age < Window
        <3> TAKE age \in admitted'
        <3>1. PICK a \in admitted : age = a + 1 /\ age < Window
            BY <1>2
        <3> QED
            BY <1>3, <2>1, <3>1
    <2>3. \A age \in window' : age < Window => age \in admitted'
        <3> TAKE age \in window'
        <3> HAVE age < Window
        <3>1. PICK a \in window : age = a + 1
            BY <2>1
        <3>2. a \in Nat /\ a < Window
            BY <1>1, <3>1
        <3>3. a \in admitted
            BY <1>3, <3>2
        <3> QED
            BY <1>2, <3>1, <3>3
    <2>4. \A age \in window' : age + windowTTL' >= Window
        <3> TAKE age \in window'
        <3>1. PICK a \in window : age = a + 1
            BY <2>1
        <3>2. a + windowTTL >= Window /\ a \in Nat
            BY <1>1 DEF WindowOK
        <3> QED
            BY <1>1, <2>1, <3>1, <3>2
    <2>5. windowTTL' # 0
        BY <1>1, <1>6, <2>1
    <2>6. InWindow(window, 0)' = admitted'
        BY <1>4, <2>2, <2>3
    <2> QED
        BY <2>4, <2>5, <2>6 DEF WindowOK
<1> QED
    BY <1>1, <1>5, <1>6

LEMMA StepKeepsWindow ==
    ASSUME TypeOK, WindowOK, Next
    PROVE  WindowOK'
<1>1. ASSUME UNCHANGED <<window, windowTTL, admitted>> PROVE WindowOK'
    BY <1>1 DEF WindowOK, InWindow
<1>2. ASSUME NEW c \in Callers, Commands(c) PROVE WindowOK'
    <2>1. UNCHANGED <<window, windowTTL, admitted>>
        BY <1>2 DEF Commands, SetNX, SetNXFails, DeleteFXRate, GetValue, CacheTenantByAPIKey,
                    GetString, TakeNow, cacheVars, ghosts
    <2> QED
        BY <1>1, <2>1
<1>3. ASSUME NEW c \in Callers, Continues(c) PROVE WindowOK'
    <2>1. UNCHANGED <<window, windowTTL, admitted>> \/ Script(c)
        BY <1>3 DEF Continues, Expire, GetTTL, Stamp, Eval, cacheVars, ghosts
    <2> QED
        BY <1>1, <2>1, ScriptKeepsWindow
<1>4. ASSUME NEW c \in Callers, Fails(c) PROVE WindowOK'
    <2>1. UNCHANGED <<window, windowTTL, admitted>> \/ Script(c)
        BY <1>4 DEF Fails, ExpireUnanswered, ExpireFails, GetTTLFails, EvalFails, Crash,
                    cacheVars, ghosts
    <2> QED
        BY <1>1, <2>1, ScriptKeepsWindow
<1> QED
    BY <1>2, <1>3, <1>4, TickKeepsWindow DEF Next

-----------------------------------------------------------------------------
LEMMA StepIInv == IInv /\ [Next]_vars => IInv'
<1> SUFFICES ASSUME IInv, [Next]_vars PROVE IInv'
    OBVIOUS
<1>1. TypeOK /\ FamilyOK /\ LockOK /\ ReadOK /\ WindowOK
    BY DEF IInv
<1>2. CASE Next
    <2>1. WindowOK'
        BY <1>1, <1>2, StepKeepsWindow
    <2>2. ASSUME NEW c \in Callers, Commands(c)
          PROVE  TypeOK' /\ FamilyOK' /\ LockOK' /\ ReadOK'
        BY <1>1, <2>2, CommandTypes, CommandKeepsLock, CommandKeepsRead
    <2>3. ASSUME NEW c \in Callers, Continues(c)
          PROVE  TypeOK' /\ FamilyOK' /\ LockOK' /\ ReadOK'
        BY <1>1, <2>3, ContinueTypes, ContinueKeepsLock, ContinueKeepsRead
    <2>4. ASSUME NEW c \in Callers, Fails(c)
          PROVE  TypeOK' /\ FamilyOK' /\ LockOK' /\ ReadOK'
        BY <1>1, <2>4, FailTypes, FailKeepsLock, FailKeepsRead
    <2>5. Tick => TypeOK' /\ FamilyOK' /\ LockOK' /\ ReadOK'
        BY <1>1, TickTypes, TickKeepsLock, TickKeepsRead
    <2> QED
        BY <1>2, <2>1, <2>2, <2>3, <2>4, <2>5 DEF Next, IInv
<1>3. CASE UNCHANGED vars
    <2>1. /\ UNCHANGED <<family, entry, window, windowTTL, call, got, stands, admitted, undone>>
          /\ UNCHANGED <<abandoned, steady, faults>>
        BY <1>3 DEF vars, cacheVars, ghosts
    <2>2. TypeOK'
        BY <1>1, <2>1 DEF TypeOK
    <2>3. FamilyOK'
        BY <1>1, <2>1 DEF FamilyOK, At
    <2>4. LockOK'
        BY <1>1, <2>1, QuietKeepsLock
    <2>5. ReadOK'
        BY <1>1, <2>1, QuietKeepsRead
    <2>6. WindowOK'
        BY <1>1, <2>1 DEF WindowOK, InWindow
    <2> QED
        BY <2>2, <2>3, <2>4, <2>5, <2>6 DEF IInv
<1> QED
    BY <1>2, <1>3

\* The inductive invariant holds in every reachable state.
THEOREM Inductive == Spec => []IInv
BY InitIInv, StepIInv, PTL DEF Spec

-----------------------------------------------------------------------------
\* In every reachable state the key, the callers and the history have their
\* types.
THEOREM TypeCorrect == Spec => []TypeOK
<1>1. IInv => TypeOK
    BY DEF IInv
<1> QED
    BY <1>1, Inductive, PTL

\* A key is left without a lifetime only while its own EXPIRE is to come, or
\* by the failure or crash that lost it.
THEOREM NothingIsEndless == Spec => []EndlessNeedsCause
<1>1. IInv => EndlessNeedsCause
    BY DEF IInv, LockOK
<1> QED
    BY <1>1, Inductive, PTL

\* A lock or a result that was acknowledged is in the key for its lifetime,
\* whatever fails, or for that of a later EXPIRE whose own lock was gone.
THEOREM AcknowledgedLocksStand == Spec => []AcknowledgedStands
<1>1. IInv => AcknowledgedStands
    BY DEF IInv, LockOK
<1> QED
    BY <1>1, Inductive, PTL

\* What GetFXRate reports holds, but for half a second and its own delay, until
\* it says, while the lock is neither removed nor given a second lifetime.
THEOREM ReportedRatesAlwaysHold == Spec => []ReportedRatesHold
<1>1. IInv => ReportedRatesHold
    BY DEF IInv, ReadOK, TrueReader, Backed, ReportedRatesHold
<1> QED
    BY <1>1, Inductive, PTL

\* The rate limiter counts the seconds of its window in which it let a request
\* through, however its set is trimmed and expires.
THEOREM LimiterAlwaysCountsSeconds == Spec => LimiterCountsSeconds
<1>1. ASSUME IInv, Next, NEW c \in Callers, At(c, "eval"), call[c].lag = 0, ~At(c, "eval")',
             faults' = faults
      PROVE  got'[c].value = "allowed" <=> Cardinality(admitted) < Limit
    <2>1. /\ TypeOK /\ FamilyOK /\ call \in [Callers -> CallRec] /\ got \in [Callers -> GotRec]
          /\ faults \in 0 .. MaxFaults
          /\ call[c].at = "eval" /\ call'[c].at # "eval" /\ family = "rate_limit"
        BY <1>1, TypeParts DEF IInv, FamilyOK, At
    <2>2. ASSUME NEW d \in Callers, Commands(d) PROVE FALSE
        <3>1. call' = call \/ (Goto(d, "eval", NoValue, 0) /\ call[d].at = "idle")
            BY <2>1, <2>2 DEF Commands, SetNX, SetNXFails, DeleteFXRate, GetValue,
                             CacheTenantByAPIKey, GetString, TakeNow, At
        <3> QED
            BY <2>1, <3>1 DEF Goto
    <2>3. ASSUME NEW d \in Callers, Fails(d) PROVE FALSE
        BY <1>1, <2>1, <2>3, FaultCounts DEF Fails, ExpireUnanswered, ExpireFails, GetTTLFails,
                                             EvalFails, Crash
    <2>4. ~Tick
        BY <2>1, TickIs
    <2>5. PICK d \in Callers : Continues(d)
        BY <1>1, <2>2, <2>3, <2>4 DEF Next
    <2>6. Eval(d)
        BY <2>1, <2>5 DEF Continues, Expire, GetTTL, Stamp, FamilyOK
    <2>7. d = c
        <3>1. \A e \in Callers \ {d} : call'[e] = call[e]
            BY <2>1, <2>6, ReturnCall DEF Eval
        <3> QED
            BY <2>1, <3>1
    <2>8. got'[c].value = IF HasRoom(InWindow(window, 0)) THEN "allowed" ELSE "denied"
        BY <1>1, <2>1, <2>6, <2>7 DEF Eval
    <2>9. InWindow(window, 0) = admitted
        BY <1>1 DEF IInv, WindowOK
    <2> QED
        BY <2>8, <2>9 DEF HasRoom
<1>2. IInv /\ [Next]_vars =>
          [\A c \in Callers :
               At(c, "eval") /\ call[c].lag = 0 /\ ~At(c, "eval")' /\ faults' = faults
                   => (got'[c].value = "allowed" <=> Cardinality(admitted) < Limit)]_vars
    BY <1>1
<1> QED
    BY <1>2, Inductive, PTL DEF Spec, LimiterCountsSeconds

=============================================================================
