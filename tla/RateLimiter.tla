---------------------------- MODULE RateLimiter ----------------------------
(***************************************************************************)
(* The fixed-window limiter of projects/11-redis-cache: enforce counts a   *)
(* request with CacheBackend::incr, which gives the counter its time to    *)
(* live on the first call of a window and leaves it alone afterwards.      *)
(* incr runs under one mutex: each call of enforce is one step.            *)
(***************************************************************************)
EXTENDS Naturals, Sequences

CONSTANTS
    Buckets,      \* keys
    MaxRequests,  \* Policy.max_requests
    Window,       \* Policy.window, in ticks
    CountCeiling, \* u64::MAX
    MaxTicks      \* bound: the clock

ASSUME LimiterAssumption ==
    /\ CountCeiling \in Nat /\ Window \in Nat \ {0} /\ MaxTicks \in Nat \ {0}
    \* 0 admits nobody, ever, and u64::MAX is no limit.
    /\ MaxRequests \in Nat /\ 0 < MaxRequests /\ MaxRequests < CountCeiling

VARIABLES
    ticks,     \* Instant::now()
    counter,   \* the entries of InMemoryBackend: value and expires_at
    admitted,  \* when the requests of each bucket were allowed (history)
    told       \* when each bucket was first told retry_after since its last admission, or 0

limiterVars == <<ticks, counter, admitted, told>>

Ticks == 1..MaxTicks
Missing == [value |-> 0, expires |-> 0]

LimiterTypeOK ==
    /\ ticks \in Ticks
    /\ counter \in [Buckets -> [value : 0..CountCeiling, expires : 0..(MaxTicks + Window)]]
    /\ admitted \in [Buckets -> Seq(Ticks)]
    /\ told \in [Buckets -> 0..MaxTicks]

LimiterInit ==
    /\ ticks = 1
    /\ counter = [k \in Buckets |-> Missing]
    /\ admitted = [k \in Buckets |-> <<>>]
    /\ told = [k \in Buckets |-> 0]

-----------------------------------------------------------------------------
\* Entry::is_alive: expires_at > now
Alive(entry) == entry.expires > ticks

\* purge_expired: every call drops every dead entry, whatever its key.
Purged == [k \in Buckets |-> IF Alive(counter[k]) THEN counter[k] ELSE Missing]

\* Mutant: the counter dies one tick early.
ShortLived(k) ==
    IF Alive(counter[k])
    THEN [counter[k] EXCEPT !.value = IF @ < CountCeiling THEN @ + 1 ELSE @]
    ELSE [value |-> 1, expires |-> ticks + Window - 1]

\* incr(key, 1, Some(window)): saturating_add on a live entry, or a new one.
Counted(k) ==
    IF Alive(counter[k])
    THEN [counter[k] EXCEPT !.value = IF @ < CountCeiling THEN @ + 1 ELSE @]
    ELSE [value |-> 1, expires |-> ticks + Window]

Incr(k) == counter' = [Purged EXCEPT ![k] = Counted(k)]

Allow(k) ==
    /\ Counted(k).value <= MaxRequests
    /\ Incr(k)
    /\ admitted' = [admitted EXCEPT ![k] = Append(@, ticks)]
    /\ told' = [told EXCEPT ![k] = 0]
    /\ UNCHANGED ticks

\* Limited { retry_after: window }
Limit(k) ==
    /\ Counted(k).value > MaxRequests
    /\ Incr(k)
    /\ told' = [told EXCEPT ![k] = IF @ = 0 THEN ticks ELSE @]
    /\ UNCHANGED <<ticks, admitted>>

LimiterTick ==
    /\ ticks < MaxTicks
    /\ ticks' = ticks + 1
    /\ UNCHANGED <<counter, admitted, told>>

LimiterNext == LimiterTick \/ \E k \in Buckets : Allow(k) \/ Limit(k)

LimiterSpec == LimiterInit /\ [][LimiterNext]_limiterVars

-----------------------------------------------------------------------------
\* "a caller can fire up to 2 * max_requests across a window boundary": at most
\* one less is admitted in any stretch as long as a window, because the request
\* that opens a window is in it.
BurstBounded ==
    \A k \in Buckets : \A i, j \in DOMAIN admitted[k] :
        j - i >= 2 * MaxRequests - 1 => admitted[k][j] >= admitted[k][i] + Window

\* retry_after is long enough: a caller that was refused is admitted once it has
\* passed, however many refused requests it or others made meanwhile.
RetryAfterIsEnough ==
    \A k \in Buckets :
        told[k] > 0 /\ ticks >= told[k] + Window => Counted(k).value <= MaxRequests

\* Any stretch of one window admits fewer than twice the limit, and a caller
\* that waits for retry_after is admitted.
AdmissionIsFair == BurstBounded /\ RetryAfterIsEnough
=============================================================================
