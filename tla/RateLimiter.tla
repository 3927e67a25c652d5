---------------------------- MODULE RateLimiter -----------------------------
(***************************************************************************)
(* The per-peer token bucket (internal/httpapi/middleware/ratelimit.go).   *)
(* A bucket is refilled only when its peer calls, and forgotten when the   *)
(* peer stays away: what it promises is what a bucket refilled at every    *)
(* instant and never forgotten would do.                                   *)
(*                                                                         *)
(* One unit is what flows in during one tick.  A request takes Cost units, *)
(* and the burst of perMinute requests is what flows in during one minute. *)
(***************************************************************************)
EXTENDS Integers

CONSTANTS
    Peers,          \* TCP peer addresses
    PerMinute,      \* requests per minute, and the burst
    Cost,           \* ticks per request at the sustained rate
    MaxTicks        \* bound: the clock

ASSUME RateAssumption ==
    PerMinute \in Nat \ {0} /\ Cost \in Nat \ {0} /\ MaxTicks \in Nat

Minute == PerMinute * Cost

VARIABLES
    now,        \* the clock, in ticks
    buckets,    \* rl.buckets: the peers that have one
    credit      \* what a bucket refilled at every tick would hold

limiterVars == <<now, buckets, credit>>

Bucket == [tokens : 0..Minute, last : Nat]

LeastOf(m, n) == IF m <= n THEN m ELSE n

NewRateLimiter ==
    /\ now = 0
    /\ buckets = [p \in {} |-> 0]
    /\ credit = [p \in Peers |-> Minute]

Clock ==
    /\ now < MaxTicks
    /\ now' = now + 1
    /\ credit' = [p \in Peers |-> LeastOf(Minute, credit[p] + 1)]
    /\ UNCHANGED buckets

\* Bug: the refill is not capped at the burst.
BugUncapped(p) ==
    IF p \in DOMAIN buckets THEN buckets[p].tokens + (now - buckets[p].last) ELSE Minute

\* b.tokens after the refill
Refilled(p) ==
    IF p \in DOMAIN buckets
    THEN LeastOf(Minute, buckets[p].tokens + (now - buckets[p].last))
    ELSE Minute

Allowed(p) == Refilled(p) >= Cost

\* The bucket is refilled and stamped whether or not the request is allowed.
allow(p) ==
    /\ buckets' = [q \in DOMAIN buckets \cup {p} |->
                     IF q # p THEN buckets[q]
                     ELSE [tokens |-> Refilled(p) - IF Allowed(p) THEN Cost ELSE 0,
                           last   |-> now]]
    /\ UNCHANGED now

\* Every minute, late or not, the buckets idle for ten are dropped.
evictLoop ==
    LET idle == {p \in DOMAIN buckets : buckets[p].last < now - 10 * Minute}
    IN  /\ idle # {}
        /\ buckets' = [p \in DOMAIN buckets \ idle |-> buckets[p]]
        /\ UNCHANGED <<now, credit>>

\* A request of p that the limiter wraps, and the credit it uses up.
Request(p) ==
    /\ allow(p)
    /\ credit' = IF Allowed(p) THEN [credit EXCEPT ![p] = @ - Cost] ELSE credit

LimiterNext ==
    \/ Clock
    \/ evictLoop
    \/ \E p \in Peers : Request(p)

LimiterSpec == NewRateLimiter /\ [][LimiterNext]_limiterVars

(***************************************************************************)
(* Refilling on demand, capping and forgetting are invisible: what a peer  *)
(* may still use is at every instant what a bucket kept up to date would   *)
(* hold, so no peer gets past the burst plus the rate, and none is refused *)
(* below it, however its requests and the eviction interleave.             *)
(***************************************************************************)
LimiterIsExact ==
    \A p \in Peers : credit[p] \in 0..Minute /\ Refilled(p) = credit[p]
=============================================================================
