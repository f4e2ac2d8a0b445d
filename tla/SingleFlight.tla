---------------------------- MODULE SingleFlight ----------------------------
(***************************************************************************)
(* SingleFlight::get_or_compute of projects/11-redis-cache for one key:    *)
(* callers that miss in the cache claim the in-flight slot and compute, or *)
(* find it claimed and wait on the watch channel of whoever did.           *)
(*                                                                         *)
(* One action per await point or critical section.  A caller runs one call *)
(* and its channel is named after it.  The cache keeps versions of what    *)
(* the upstream holds, so that a stale value can be told from a fresh one. *)
(***************************************************************************)
EXTENDS Naturals

CONSTANTS
    Callers,     \* calls of get_or_compute
    MaxVersion,  \* bound: how often the upstream changes
    Empty         \* no value, no slot, no channel

ASSUME MaxVersionAssumption == MaxVersion \in Nat
ASSUME EmptyAssumption == Empty \notin Nat /\ Empty \notin Callers

VARIABLES
    cache,     \* the backend's live entry for the key
    upstream,  \* the version compute() would return now
    slot,      \* inflight[key]: whose channel is registered
    stage,        \* where each call is
    value,     \* the value a call computed or is about to return
    peer,      \* whose channel a waiting call holds a receiver of
    sent,      \* what was sent on each call's channel
    failed,    \* history: calls whose own backend or compute failed
    computed   \* history: calls whose compute() was started

shared  == <<cache, upstream, slot>>
locals  == <<stage, value, peer, sent>>
history == <<failed, computed>>
flightVars == <<shared, locals, history>>

Versions == 0..MaxVersion

Returned == {"ok", "err"}
Dropped  == Returned \cup {"gone"}  \* the watch::Sender went with the call
Suspended == {"start", "computing", "setting", "waiting", "fallback"}
FlightPlaces == Suspended \cup Dropped \cup {"missed", "computed", "publishing"}

FlightTypeOK ==
    /\ cache \in Versions \cup {Empty}
    /\ upstream \in Versions
    /\ slot \in Callers \cup {Empty}
    /\ stage \in [Callers -> FlightPlaces]
    /\ value \in [Callers -> Versions \cup {Empty}]
    /\ peer \in [Callers -> Callers \cup {Empty}]
    /\ sent \in [Callers -> Versions \cup {Empty}]
    /\ failed \subseteq Callers
    /\ computed \subseteq Callers

FlightInit ==
    /\ cache \in {Empty, 0}
    /\ upstream = 0
    /\ slot = Empty
    /\ stage = [c \in Callers |-> "start"]
    /\ value = [c \in Callers |-> Empty]
    /\ peer = [c \in Callers |-> Empty]
    /\ sent = [c \in Callers |-> Empty]
    /\ failed = {}
    /\ computed = {}

MoveTo(c, place) == stage' = [stage EXCEPT ![c] = place]

-----------------------------------------------------------------------------
\* InMemoryBackend::get answers with the live entry or Empty.

Return(c, v) == MoveTo(c, "ok") /\ value' = [value EXCEPT ![c] = v]

GetHit(c) ==
    /\ stage[c] = "start"
    /\ cache # Empty
    /\ Return(c, cache)
    /\ UNCHANGED <<shared, peer, sent, history>>

GetMiss(c) ==
    /\ stage[c] = "start"
    /\ cache = Empty
    /\ MoveTo(c, "missed")
    /\ UNCHANGED <<shared, value, peer, sent, history>>

\* Under the map's mutex: insert a fresh channel or clone the receiver found.
ClaimSlot(c) ==
    /\ stage[c] = "missed"
    /\ slot = Empty
    /\ slot' = c
    /\ computed' = computed \cup {c}
    /\ MoveTo(c, "computing")
    /\ UNCHANGED <<cache, upstream, value, peer, sent, failed>>

JoinWaiters(c) ==
    /\ stage[c] = "missed"
    /\ slot # Empty
    /\ peer' = [peer EXCEPT ![c] = slot]
    /\ MoveTo(c, "waiting")
    /\ UNCHANGED <<shared, value, sent, history>>

-----------------------------------------------------------------------------
\* WaitKind::Compute

ComputeOk(c) ==
    /\ stage[c] = "computing"
    /\ value' = [value EXCEPT ![c] = upstream]
    /\ MoveTo(c, "computed")
    /\ UNCHANGED <<shared, peer, sent, history>>

ComputeErr(c) ==
    /\ stage[c] = "computing"
    /\ failed' = failed \cup {c}
    /\ MoveTo(c, "computed")
    /\ UNCHANGED <<shared, value, peer, sent, computed>>

\* Mutant: `result?` comes first, so an error leaves the slot behind.
RemoveSlotUnlessErr(c) ==
    /\ stage[c] = "computed"
    /\ slot' = IF value[c] = Empty THEN slot ELSE Empty
    /\ MoveTo(c, IF value[c] = Empty THEN "err" ELSE "setting")
    /\ UNCHANGED <<cache, upstream, value, peer, sent, history>>

\* The slot is released before `result?` and before the value is cached.
RemoveSlot(c) ==
    /\ stage[c] = "computed"
    /\ slot' = Empty
    /\ MoveTo(c, IF value[c] = Empty THEN "err" ELSE "setting")
    /\ UNCHANGED <<cache, upstream, value, peer, sent, history>>

SetCache(c) ==
    /\ stage[c] = "setting"
    /\ cache' = value[c]
    /\ MoveTo(c, "publishing")
    /\ UNCHANGED <<upstream, slot, value, peer, sent, history>>

\* Mutant: the computing call returns without broadcasting.
BroadcastNothing(c) ==
    /\ stage[c] = "publishing"
    /\ MoveTo(c, "ok")
    /\ UNCHANGED <<shared, value, peer, sent, history>>

Broadcast(c) ==
    /\ stage[c] = "publishing"
    /\ sent' = [sent EXCEPT ![c] = value[c]]
    /\ MoveTo(c, "ok")
    /\ UNCHANGED <<shared, value, peer, history>>

-----------------------------------------------------------------------------
\* WaitKind::Wait.  changed() reports an unseen value even when the sender is
\* gone, and an error only when it is gone without one.

ReceiveValue(c) ==
    /\ stage[c] = "waiting"
    /\ sent[peer[c]] # Empty
    /\ Return(c, sent[peer[c]])
    /\ UNCHANGED <<shared, peer, sent, history>>

\* Mutant: a closed channel is reported before an unseen value.
SenderDroppedFirst(c) ==
    /\ stage[c] = "waiting"
    /\ stage[peer[c]] \in Dropped
    /\ MoveTo(c, "fallback")
    /\ UNCHANGED <<shared, value, peer, sent, history>>

\* Mutant: a sender dropped by cancellation goes unnoticed.
SenderReturned(c) ==
    /\ stage[c] = "waiting"
    /\ sent[peer[c]] = Empty
    /\ stage[peer[c]] \in Returned
    /\ MoveTo(c, "fallback")
    /\ UNCHANGED <<shared, value, peer, sent, history>>

SenderDropped(c) ==
    /\ stage[c] = "waiting"
    /\ sent[peer[c]] = Empty
    /\ stage[peer[c]] \in Dropped
    /\ MoveTo(c, "fallback")
    /\ UNCHANGED <<shared, value, peer, sent, history>>

FallbackHit(c) ==
    /\ stage[c] = "fallback"
    /\ cache # Empty
    /\ Return(c, cache)
    /\ UNCHANGED <<shared, peer, sent, history>>

FallbackMiss(c) ==
    /\ stage[c] = "fallback"
    /\ cache = Empty
    /\ MoveTo(c, "err")
    /\ UNCHANGED <<shared, value, peer, sent, history>>

-----------------------------------------------------------------------------
\* The environment.

\* A call of the backend returns Err (a backend over the network).
BackendErr(c) ==
    /\ stage[c] \in {"start", "setting", "fallback"}
    /\ failed' = failed \cup {c}
    /\ MoveTo(c, "err")
    /\ UNCHANGED <<shared, value, peer, sent, computed>>

\* The future is dropped at an await (a request timeout), or compute() panics.
Cancel(c) ==
    /\ stage[c] \in Suspended
    /\ MoveTo(c, "gone")
    /\ UNCHANGED <<shared, value, peer, sent, history>>

\* The TTL passes: the next get purges the entry.
Expire ==
    /\ cache # Empty
    /\ cache' = Empty
    /\ UNCHANGED <<upstream, slot, locals, history>>

UpstreamChanges ==
    /\ upstream < MaxVersion
    /\ upstream' = upstream + 1
    /\ UNCHANGED <<cache, slot, locals, history>>

-----------------------------------------------------------------------------
Wait(c) == ReceiveValue(c) \/ SenderDropped(c) \/ FallbackHit(c) \/ FallbackMiss(c)

Compute(c) ==
    ComputeOk(c) \/ ComputeErr(c) \/ RemoveSlot(c) \/ SetCache(c) \/ Broadcast(c)

Step(c) == GetHit(c) \/ GetMiss(c) \/ ClaimSlot(c) \/ JoinWaiters(c) \/ Compute(c) \/ Wait(c)

Environment == Expire \/ UpstreamChanges \/ \E c \in Callers : BackendErr(c) \/ Cancel(c)

FlightNext == Environment \/ \E c \in Callers : Step(c)

\* The executor polls every task that can make progress, and compute() returns.
FlightFairness == \A c \in Callers : WF_flightVars(Step(c))

FlightSpec == FlightInit /\ [][FlightNext]_flightVars /\ FlightFairness

-----------------------------------------------------------------------------
(* Safety *)

\* The upstream never serves two computations of a key at once, however calls
\* interleave, fail or are cancelled (the slot in the inflight map).
OneComputation ==
    \A c, d \in Callers : stage[c] = "computing" /\ stage[d] = "computing" => c = d

\* A call that returns an error has itself met one, or waited on a call that
\* ended without a value: a waiter is not failed by a peer that delivered.
ErrorsHaveACause ==
    \A c \in Callers : stage[c] = "err" =>
        \/ c \in failed
        \/ peer[c] # Empty /\ (peer[c] \in failed \/ stage[peer[c]] = "gone")

\* A registered slot belongs to a computation that is running or was dropped
\* inside compute(); a call that is past its computation never holds it, so
\* those that miss later do not join a channel that will not be written.
SlotHasComputation ==
    /\ slot # Empty => stage[slot] \in {"computing", "computed", "gone"}
    /\ \A c \in Callers : stage[c] \in {"computing", "computed"} => slot = c

\* Whoever waited on a call that delivered returns that call's value, even when
\* the cache has meanwhile expired or been overwritten by a later computation.
WaitersAgree ==
    \A c \in Callers :
        stage[c] = "ok" /\ peer[c] # Empty /\ stage[peer[c]] = "ok" => value[c] = value[peer[c]]

(* Liveness *)

\* "so callers don't deadlock waiting on a watch that never fills": every call
\* returns or is dropped, whatever happened to the call it waits for.
AllOver == \A c \in Callers : stage[c] \in Dropped

-----------------------------------------------------------------------------
(* What the documentation says and the code does not do *)

\* "Always remove the slot, even on error": a slot whose computation is gone
\* is freed.
AbandonedSlotFreed ==
    \A c \in Callers : slot = c /\ stage[c] = "gone" ~> slot # c
=============================================================================
