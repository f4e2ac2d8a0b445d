-------------------------- MODULE WebhookReceiver --------------------------
(***************************************************************************)
(* projects/07-webhook-receiver: Stripe delivers events at least once, the *)
(* receiver verifies, stores, handles and marks them in separate steps, so *)
(* that a delivery cut short is resumed by the next one.                   *)
(*                                                                         *)
(* Stripe is external: it signs and posts an event until an answer of 200  *)
(* reaches it.  Times are in units of the signature's seconds.             *)
(***************************************************************************)
EXTENDS Naturals, FiniteSets

CONSTANTS
    Events,      \* stripe_event_id
    Deliveries,  \* requests in flight at once
    MaxSkew,     \* AppState.max_skew
    MaxSeconds,  \* bound: the clock
    MaxTrouble   \* bound: crashes, database errors, forged and replayed requests

ASSUME HookAssumption == MaxSeconds \in Nat /\ MaxTrouble \in Nat

VARIABLES
    seconds,   \* SystemTime::now()
    delivery,  \* each request: where its handler is, its event and signature
    row,       \* stripe_events: absent, stored (processed_at is null), processed
    signed,    \* [event, at] Stripe has signed so far
    handled,   \* how often step 4 ran for an event
    acked,     \* the events Stripe received a 200 for
    cut,       \* the events whose handling was cut short or overlapped
    trouble

hookVars == <<seconds, delivery, row, signed, handled, acked, cut, trouble>>

Signatures == [event : Events, at : 0..MaxSeconds]
HookPlaces == {"received", "verified", "conflict", "handling", "marking", "answering"}
NoDelivery == [at |-> "none"]
Requests == [at : HookPlaces, event : Events, signedAt : 0..MaxSeconds,
             body : {"event", "no event", "forged"}]

HookTypeOK ==
    /\ seconds \in 0..MaxSeconds
    /\ delivery \in [Deliveries -> Requests \cup {NoDelivery}]
    /\ row \in [Events -> {"absent", "stored", "processed"}]
    /\ signed \subseteq Signatures
    /\ handled \in [Events -> Nat]
    /\ acked \subseteq Events
    /\ cut \subseteq Events
    /\ trouble \in 0..MaxTrouble

HookInit ==
    /\ seconds = 0
    /\ delivery = [d \in Deliveries |-> NoDelivery]
    /\ row = [e \in Events |-> "absent"]
    /\ signed = {}
    /\ handled = [e \in Events |-> 0]
    /\ acked = {}
    /\ cut = {}
    /\ trouble = 0

-----------------------------------------------------------------------------
At(d, place) == delivery[d].at = place

EventAt(d) == delivery[d].event

Goto(d, place) == delivery' = [delivery EXCEPT ![d].at = place]

End(d) == delivery' = [delivery EXCEPT ![d] = NoDelivery]

Receive(d, e, at, body) ==
    /\ At(d, "none")
    /\ delivery' = [delivery EXCEPT ![d] =
          [at |-> "received", event |-> e, signedAt |-> at, body |-> body]]

\* Stripe (external) posts an event it has had no 200 for, freshly signed.
Post(d, e) ==
    /\ e \notin acked
    /\ Receive(d, e, seconds, "event")
    /\ signed' = signed \cup {[event |-> e, at |-> seconds]}
    /\ UNCHANGED <<seconds, row, handled, acked, cut, trouble>>

\* The network (external) delivers a request Stripe once signed a second time,
\* or somebody posts one without a valid signature or a payload that parses.
Stray(d) ==
    /\ trouble < MaxTrouble
    /\ trouble' = trouble + 1
    /\ \/ \E s \in signed : Receive(d, s.event, s.at, "event")
       \/ \E e \in Events, body \in {"no event", "forged"} : Receive(d, e, seconds, body)
    /\ UNCHANGED <<seconds, row, signed, handled, acked, cut>>

\* The header parses, and its v1 is the HMAC of its timestamp and the body.
Authentic(d) == delivery[d].body # "forged"

\* now.abs_diff(timestamp) <= max_skew
Recent(d) == seconds - delivery[d].signedAt <= MaxSkew

\* parse_event_meta finds id, type and created.
Parses(d) == delivery[d].body # "no event"

Passes(d) == Recent(d) /\ Authentic(d) /\ Parses(d)

Verify(d) ==
    /\ At(d, "received") /\ Passes(d)
    /\ Goto(d, "verified")
    /\ UNCHANGED <<seconds, row, signed, handled, acked, cut, trouble>>

\* 400, nothing stored.
Reject(d) ==
    /\ At(d, "received") /\ ~Passes(d)
    /\ End(d)
    /\ UNCHANGED <<seconds, row, signed, handled, acked, cut, trouble>>

\* Another request is between the lookup and mark_processed of the same event.
Overlaps(d) ==
    \E other \in Deliveries \ {d} :
        /\ delivery[other].at \in {"handling", "marking"}
        /\ EventAt(other) = EventAt(d)

NoteOverlap(d) == cut' = IF Overlaps(d) THEN cut \cup {EventAt(d)} ELSE cut

\* Mutant: a conflict is a database error, as without ON CONFLICT DO NOTHING.
StoreOrFail(d) ==
    /\ At(d, "verified")
    /\ \/ /\ row[EventAt(d)] = "absent"
          /\ row' = [row EXCEPT ![EventAt(d)] = "stored"]
          /\ Goto(d, "handling")
       \/ /\ row[EventAt(d)] # "absent"
          /\ End(d)
          /\ UNCHANGED row
    /\ UNCHANGED <<seconds, signed, handled, acked, cut, trouble>>

\* store_event: INSERT ... ON CONFLICT DO NOTHING RETURNING id
Store(d) ==
    /\ At(d, "verified")
    /\ \/ /\ row[EventAt(d)] = "absent"
          /\ row' = [row EXCEPT ![EventAt(d)] = "stored"]
          /\ Goto(d, "handling")
       \/ /\ row[EventAt(d)] # "absent"
          /\ Goto(d, "conflict")
          /\ UNCHANGED row
    /\ UNCHANGED <<seconds, signed, handled, acked, cut, trouble>>

\* Mutant: stored counts as finished.
NothingPending(d) == At(d, "conflict") /\ row[EventAt(d)] = "absent"

\* pending_event_id: ... AND processed_at IS NULL
Pending(d) == At(d, "conflict") /\ row[EventAt(d)] = "stored"

Resume(d) ==
    /\ Pending(d)
    /\ Goto(d, "handling")
    /\ NoteOverlap(d)
    /\ UNCHANGED <<seconds, row, signed, handled, acked, trouble>>

\* A duplicate of a processed event is answered with 200.
Duplicate(d) ==
    /\ At(d, "conflict") /\ ~Pending(d)
    /\ Goto(d, "answering")
    /\ UNCHANGED <<seconds, row, signed, handled, acked, cut, trouble>>

Handle(d) ==
    /\ At(d, "handling")
    /\ handled' = [handled EXCEPT ![EventAt(d)] = @ + 1]
    /\ Goto(d, "marking")
    /\ UNCHANGED <<seconds, row, signed, acked, cut, trouble>>

MarkProcessed(d) ==
    /\ At(d, "marking")
    /\ row' = [row EXCEPT ![EventAt(d)] = "processed"]
    /\ Goto(d, "answering")
    /\ UNCHANGED <<seconds, signed, handled, acked, cut, trouble>>

\* Stripe receives the 200.
Answer(d) ==
    /\ At(d, "answering")
    /\ acked' = acked \cup {EventAt(d)}
    /\ End(d)
    /\ UNCHANGED <<seconds, row, signed, handled, cut, trouble>>

CutShort(ds) == cut' = cut \cup {EventAt(d) : d \in {x \in ds : At(x, "marking")}}

\* A statement fails (500), the connection drops, or the answer is lost.
Fail(d) ==
    /\ trouble < MaxTrouble
    /\ delivery[d].at \in {"verified", "conflict", "handling", "marking", "answering"}
    /\ trouble' = trouble + 1
    /\ CutShort({d})
    /\ End(d)
    /\ UNCHANGED <<seconds, row, signed, handled, acked>>

\* The process dies with every request it was serving.
HookCrash ==
    /\ trouble < MaxTrouble
    /\ trouble' = trouble + 1
    /\ CutShort(Deliveries)
    /\ delivery' = [d \in Deliveries |-> NoDelivery]
    /\ UNCHANGED <<seconds, row, signed, handled, acked>>

Second ==
    /\ seconds < MaxSeconds
    /\ seconds' = seconds + 1
    /\ UNCHANGED <<delivery, row, signed, handled, acked, cut, trouble>>

-----------------------------------------------------------------------------
Serve(d) ==
    \/ Verify(d) \/ Reject(d) \/ Store(d) \/ Resume(d) \/ Duplicate(d)
    \/ Handle(d) \/ MarkProcessed(d) \/ Answer(d)

HookNext ==
    \/ Second \/ HookCrash
    \/ \E d \in Deliveries : Serve(d) \/ Stray(d) \/ Fail(d) \/ \E e \in Events : Post(d, e)

\* A request the server has is served, and Stripe goes on posting an event.
HookFairness ==
    /\ \A d \in Deliveries : WF_hookVars(Serve(d))
    /\ \A e \in Events : WF_hookVars(\E d \in Deliveries : Post(d, e))

HookSpec == HookInit /\ [][HookNext]_hookVars /\ HookFairness

-----------------------------------------------------------------------------
\* An event Stripe stops sending was handled and is marked: a crash between the
\* insert and the handler never turns the next delivery into a finished
\* duplicate ("the side effect is lost forever while Stripe sees a 200").
AckedWasHandled == \A e \in acked : handled[e] > 0 /\ row[e] = "processed"

\* The handler runs once for an event unless a delivery was cut short between
\* it and mark_processed, or two deliveries were resumed side by side: neither
\* redeliveries nor replays of an answered event run it again.
OnceUnlessCut == \A e \in Events : handled[e] > 1 => e \in cut

\* At least once, and once where nothing goes wrong.
HandledOnce == AckedWasHandled /\ OnceUnlessCut

\* Stripe gets its 200 for every event, whatever failed before.
EveryEventAcked == acked = Events
=============================================================================
