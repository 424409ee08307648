--------------------------- MODULE SourceLimiter ---------------------------
(***************************************************************************)
(* The per-source limiter (internal/udp/limit.go): a token bucket for each *)
(* IPv4 address or IPv6 /64, in a table of at most MaxSources buckets.  A  *)
(* bucket is created full, refilled when it is next used, and dropped when *)
(* it has been idle and the table is full.                                 *)
(*                                                                         *)
(* Tokens are counted in units, Cost of them for a datagram, so that a     *)
(* rate below one datagram per tick can be stated.  A bucket's `last` is   *)
(* kept as its age, which saturates just past Idle.                        *)
(***************************************************************************)
EXTENDS Integers, FiniteSets

CONSTANTS
    Addrs,        \* source addresses
    SourceKeys,   \* IPv4 addresses and /64 prefixes
    SourceKey,    \* sourceKey, as a function
    MaxSources,   \* sourceLimiter.max
    Cost,         \* units in a token
    Rate, Burst,  \* units gained in a tick, and at most held
    Idle          \* sourceLimiter.idle, in ticks

ASSUME LimiterAssumption ==
    /\ SourceKey \in [Addrs -> SourceKeys]
    /\ MaxSources \in Nat \ {0} /\ Cost \in Nat \ {0}
    /\ Rate \in Nat \ {0} /\ Burst \in Nat \ {0} /\ Idle \in Nat \ {0}

\* What the defaults satisfy (5/s for a minute, burst 20): a bucket dropped as
\* idle would have been full again.  The configuration does not enforce it.
IdleRefills == Rate * Idle >= Burst

VARIABLES
    tracked,   \* the keys of sourceLimiter.buckets
    tokens,    \* bucket.tokens, 0 where there is no bucket
    age,       \* time since bucket.last, 0 where there is no bucket
    budget     \* history: what each source may still send under its rate and burst

limVars == <<tracked, tokens, age, budget>>

Least(x, y) == IF x < y THEN x ELSE y

LimInit ==
    /\ tracked = {}
    /\ tokens = [k \in SourceKeys |-> 0]
    /\ age = [k \in SourceKeys |-> 0]
    /\ budget = [k \in SourceKeys |-> Burst]

Full == Cardinality(tracked) >= MaxSources

\* The buckets evict drops.
Evictable == {k \in tracked : age[k] > Idle}

\* The bucket's tokens at the time of a call; a new bucket is full.
Refilled(k) == Least(Burst, tokens[k] + age[k] * Rate)

Available(k) == IF k \in tracked THEN Refilled(k) ELSE Burst

\* The keys that stay when k's bucket is looked up or made.
Remaining(k) == IF k \notin tracked /\ Full THEN tracked \ Evictable ELSE tracked

\* k has a bucket, the table has room, or evict frees some.
Trackable(k) == k \in tracked \/ ~Full \/ Evictable # {}

\* The table after a call that leaves k's bucket with t units.
Store(k, t) ==
    /\ tracked' = Remaining(k) \cup {k}
    /\ tokens' = [x \in SourceKeys |-> IF x = k THEN t ELSE IF x \in Remaining(k) THEN tokens[x] ELSE 0]
    /\ age' = [x \in SourceKeys |-> IF x \in Remaining(k) \ {k} THEN age[x] ELSE 0]

\* allow returns true.
Allowed(a) ==
    LET k == SourceKey[a] IN
    /\ Trackable(k) /\ Available(k) >= Cost
    /\ Store(k, Available(k) - Cost)
    /\ budget' = [budget EXCEPT ![k] = @ - Cost]

\* Mutant of Overspent: the refill is kept but its time is not.
OverspentKeepsAge(a) ==
    LET k == SourceKey[a] IN
    /\ Trackable(k) /\ Available(k) < Cost
    /\ tracked' = Remaining(k) \cup {k}
    /\ tokens' = [x \in SourceKeys |-> IF x = k THEN Available(k) ELSE IF x \in Remaining(k) THEN tokens[x] ELSE 0]
    /\ age' = [x \in SourceKeys |-> IF x \in Remaining(k) THEN age[x] ELSE 0]
    /\ UNCHANGED budget

\* allow returns false: the bucket holds less than a token.
Overspent(a) ==
    LET k == SourceKey[a] IN
    /\ Trackable(k) /\ Available(k) < Cost
    /\ Store(k, Available(k))
    /\ UNCHANGED budget

\* allow returns false: no room for a new source.
TableRefuses(a) == ~Trackable(SourceKey[a]) /\ UNCHANGED limVars

\* A tick of time passes.
LimTick ==
    /\ age' = [k \in SourceKeys |-> IF k \in tracked /\ age[k] <= Idle THEN age[k] + 1 ELSE age[k]]
    /\ budget' = [k \in SourceKeys |-> Least(Burst, budget[k] + Rate)]
    /\ UNCHANGED <<tracked, tokens>>

LimNext ==
    \/ \E a \in Addrs : Allowed(a) \/ Overspent(a) \/ TableRefuses(a)
    \/ LimTick

LimSpec == LimInit /\ [][LimNext]_limVars

----------------------------------------------------------------------------
(* Properties. *)

\* Types, and the bound on the table (limit.go:9-11).
LimTypeOK ==
    /\ tracked \subseteq SourceKeys
    /\ tokens \in [SourceKeys -> 0..Burst]
    /\ age \in [SourceKeys -> 0..(Idle + 1)]
    /\ budget \in [SourceKeys -> Int]

\* "The table is bounded" (limit.go:10), whatever the number of sources.
TableBounded == Cardinality(tracked) <= MaxSources

\* No source, or /64, is admitted more often than its burst and its rate since
\* allow, whatever the table forgot about it in between (limit.go:9-10).
NeverOverBudget == \A k \in SourceKeys : budget[k] >= 0

\* A bucket holds what the source may still send, and a source without one may
\* send its whole burst: eviction and late refills lose and grant nothing.
BucketsMatch == \A k \in SourceKeys : budget[k] = Available(k)

\* The inductive invariant: with it, allow's answer is the budget's, both ways.
LimInv == LimTypeOK /\ BucketsMatch
=============================================================================
