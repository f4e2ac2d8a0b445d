------------------------------ MODULE Fetcher ------------------------------
(***************************************************************************)
(* fetch_all of projects/02-quote-generator: one future per URL behind a   *)
(* semaphore, each with a timeout around the headers and another around    *)
(* the body, and the consumer of main.rs with its deadline.  A future is   *)
(* polled when the consumer asks for the next result: what the network and *)
(* the timers did since is seen then, the network first.                   *)
(***************************************************************************)
EXTENDS Integers, FiniteSets

CONSTANTS
    Urls,
    Concurrency,  \* FetchConfig.concurrency
    Timeout,      \* per_request_timeout, in ticks
    Deadlines     \* what overall_deadline may be, in ticks; 0 for None

ASSUME FetchAssumption ==
    IsFiniteSet(Urls) /\ Concurrency \in Nat /\ Timeout \in Nat /\ Deadlines \subseteq Nat

VARIABLES
    fetch,      \* where each future is
    reply,      \* what the network has for it since its last await began
    left,       \* ticks until the timeout of that await
    remaining,  \* ticks until the overall deadline
    results     \* how many results the stream yielded for each URL

fetchVars == <<fetch, reply, left, remaining, results>>

FetchTypeOK ==
    /\ fetch \in [Urls -> {"queued", "sending", "reading", "ok", "timeout", "network", "dropped"}]
    /\ reply \in [Urls -> {"none", "arrived", "error"}]
    /\ left \in [Urls -> 0..Timeout]
    /\ remaining \in Nat
    /\ results \in [Urls -> Nat]

FetchInit ==
    /\ fetch = [u \in Urls |-> "queued"]
    /\ reply = [u \in Urls |-> "none"]
    /\ left = [u \in Urls |-> 0]
    /\ remaining \in Deadlines
    /\ results = [u \in Urls |-> 0]

-----------------------------------------------------------------------------
\* Semaphore::new(cfg.concurrency.max(1))
Permits == IF Concurrency < 1 THEN 1 ELSE Concurrency

InFlight == {u \in Urls : fetch[u] \in {"sending", "reading"}}

\* Mutant: the permit is dropped once the headers are there.
Sending == {u \in Urls : fetch[u] = "sending"}

\* The futures that hold their _permit.
Holders == InFlight

\* Begin an await under timeout(per_request_timeout, _).
Await(u, place) ==
    /\ fetch' = [fetch EXCEPT ![u] = place]
    /\ reply' = [reply EXCEPT ![u] = "none"]
    /\ left' = [left EXCEPT ![u] = Timeout]
    /\ UNCHANGED <<remaining, results>>

\* The future completes, its permit is dropped, and the stream yields it.
Yield(u, verdict) ==
    /\ fetch' = [fetch EXCEPT ![u] = verdict]
    /\ results' = [results EXCEPT ![u] = @ + 1]
    /\ UNCHANGED <<reply, left, remaining>>

Acquire(u) ==
    /\ fetch[u] = "queued"
    /\ Cardinality(Holders) < Permits
    /\ Await(u, "sending")

Headers(u) == fetch[u] = "sending" /\ reply[u] = "arrived" /\ Await(u, "reading")

Body(u) == fetch[u] = "reading" /\ reply[u] = "arrived" /\ Yield(u, "ok")

NetworkError(u) == u \in InFlight /\ reply[u] = "error" /\ Yield(u, "network")

\* Mutant: no timeout around the body.
HeadersTimeOut(u) ==
    fetch[u] = "sending" /\ reply[u] = "none" /\ left[u] = 0 /\ Yield(u, "timeout")

\* timeout polls what it wraps before its timer.
TimesOut(u) == u \in InFlight /\ reply[u] = "none" /\ left[u] = 0 /\ Yield(u, "timeout")

Poll(u) == Acquire(u) \/ Headers(u) \/ Body(u) \/ NetworkError(u) \/ TimesOut(u)

Unfinished == \E u \in Urls : fetch[u] \in {"queued", "sending", "reading"}

\* main.rs: the deadline passes first, and the stream is dropped.
Exceeded ==
    /\ Unfinished
    /\ remaining = 1
    /\ fetch' = [u \in Urls |-> IF fetch[u] \in {"queued", "sending", "reading"}
                                THEN "dropped" ELSE fetch[u]]
    /\ UNCHANGED <<reply, left, remaining, results>>

\* The server (external) answers, or not.
Respond(u) ==
    /\ u \in InFlight /\ reply[u] = "none"
    /\ \E r \in {"arrived", "error"} : reply' = [reply EXCEPT ![u] = r]
    /\ UNCHANGED <<fetch, left, remaining, results>>

FetchTick ==
    /\ \E u \in Urls : u \in InFlight /\ left[u] > 0
    /\ left' = [u \in Urls |-> IF left[u] > 0 THEN left[u] - 1 ELSE 0]
    /\ remaining' = IF remaining > 1 THEN remaining - 1 ELSE remaining
    /\ UNCHANGED <<fetch, reply, results>>

-----------------------------------------------------------------------------
FetchNext ==
    \/ FetchTick \/ Exceeded
    \/ \E u \in Urls : Poll(u) \/ Respond(u)

\* The consumer goes on asking, and time passes; a server need not answer.
FetchFairness == WF_fetchVars(FetchTick) /\ \A u \in Urls : WF_fetchVars(Poll(u))

FetchSpec == FetchInit /\ [][FetchNext]_fetchVars /\ FetchFairness

-----------------------------------------------------------------------------
\* "Bounded concurrency: at most cfg.concurrency requests are in flight at any
\* time", the reading of their bodies included (one, when it is 0).
InFlightBounded == Cardinality(InFlight) <= Permits

\* "One result per input URL": whatever the servers do, slow, silent or broken,
\* every URL ends with exactly one result, or the whole batch is past its
\* deadline: no request that hangs keeps the permit the others wait for.
EveryUrlAnswered ==
    \A u \in Urls : results[u] = 1 \/ (fetch[u] = "dropped" /\ results[u] = 0)
=============================================================================
