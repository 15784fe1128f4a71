---- MODULE McpRateLimiter ----
(***************************************************************************)
(* bridge/core/mcp/mcp-rate-limiter.js: token buckets per bearer token and *)
(* per address, refilled lazily when they are looked at, created full, and *)
(* pruned when they have been full for long.  Time counts in the time one  *)
(* token takes to refill, so fractions of a token are left out; both       *)
(* dimensions have the same parameters.                                    *)
(***************************************************************************)
EXTENDS Naturals

CONSTANTS
    Tokens, Ips,   \* the keys of the two dimensions
    Capacity,
    IdleAge,       \* IDLE_PRUNE_AGE_MS
    PruneEvery,    \* PRUNE_INTERVAL: the prune pass runs every so many admissions
    MaxTime,       \* bound: the last instant
    None

Keys == Tokens \cup Ips

VARIABLES
    time,
    bucket,    \* [Keys -> the bucket, or None]
    calls,     \* _callCount modulo the interval
    eager      \* history: what buckets that are refilled at every instant would hold

limiterVars == <<time, bucket, calls, eager>>

Init ==
    /\ time = 0
    /\ bucket = [k \in Keys |-> None]
    /\ calls = 0
    /\ eager = [k \in Keys |-> Capacity]

Least(a, b) == IF a < b THEN a ELSE b

\* Fault: the refill forgets to move the instant it counts from.
RefilledTwice(b) ==
    IF b = None THEN [tokens |-> Capacity, last |-> time]
    ELSE [tokens |-> Least(Capacity, b.tokens + (time - b.last)), last |-> b.last]

\* _checkBucket: a missing bucket is full, another is refilled up to now.
Refilled(b) ==
    IF b = None THEN [tokens |-> Capacity, last |-> time]
    ELSE [tokens |-> Least(Capacity, b.tokens + (time - b.last)), last |-> time]

\* _pruneStore: would be full now, and has been for IdleAge.
Prunable(b) ==
    /\ b # None
    /\ b.tokens + (time - b.last) >= Capacity
    /\ b.last + (Capacity - b.tokens) + IdleAge <= time

\* _maybePrune runs on every PruneEvery-th admission.
Pruned(bs) ==
    IF (calls + 1) % PruneEvery = 0
    THEN [k \in Keys |-> IF Prunable(bs[k]) THEN None ELSE bs[k]]
    ELSE bs

\* check: every bucket the request names is refilled; one token is taken
\* from each of them, or from none.
Check(ks) ==
    LET looked == [k \in Keys |-> IF k \in ks THEN Refilled(bucket[k]) ELSE bucket[k]]
        ok == \A k \in ks : looked[k].tokens >= 1
    IN  /\ ks # {}
        /\ IF ok
           THEN /\ bucket' = Pruned([k \in Keys |->
                                 IF k \in ks THEN [looked[k] EXCEPT !.tokens = @ - 1] ELSE looked[k]])
                /\ calls' = (calls + 1) % PruneEvery
                /\ eager' = [k \in Keys |-> IF k \in ks THEN eager[k] - 1 ELSE eager[k]]
           ELSE bucket' = looked /\ UNCHANGED <<calls, eager>>
        /\ UNCHANGED time

Pass ==
    /\ time < MaxTime
    /\ time' = time + 1
    /\ eager' = [k \in Keys |-> Least(Capacity, eager[k] + 1)]
    /\ UNCHANGED <<bucket, calls>>

AtMostOne(S) == {{}} \cup {{x} : x \in S}

\* A request names at most one key of each dimension.
Next ==
    \/ \E ts \in AtMostOne(Tokens), is \in AtMostOne(Ips) : Check(ts \cup is)
    \/ Pass

-----------------------------------------------------------------------------

\* A bucket that is refilled only when it is looked at, and thrown away when
\* idle, admits exactly what one refilled at every instant would: pruning
\* gives nothing away, and a request the other dimension refuses costs nothing.
LazyIsEager == \A k \in Keys : Refilled(bucket[k]).tokens = eager[k]
====
