------------------------------ MODULE Billing ------------------------------
(***************************************************************************)
(* The Stripe mirror of apps/memberclub/api: the webhook that records an   *)
(* event and mirrors it in one SQLite transaction, under deliveries that   *)
(* are repeated, reordered and cut short, and the checkout and portal      *)
(* handlers that mint a customer row beside it.                            *)
(*                                                                         *)
(* What an event says of a subscription or an invoice is reduced to when   *)
(* Stripe created it, which tells newer content from older.                *)
(***************************************************************************)
EXTENDS Naturals

CONSTANTS
    StripeEvents, \* what Stripe has to deliver
    Kind,         \* "checkout", "subscription", "invoice" or "other"
    CustomerOf,   \* the customer an event is about
    ObjectOf,     \* the subscription or invoice it is about, if any
    CreatedAt,    \* when Stripe created it
    Customers,    \* stripe_customer_id values
    Objects,      \* stripe_subscription_id and stripe_invoice_id values
    Buyers,       \* the users
    MetadataUser, \* metadata.user_id of a checkout session
    Placeholder,  \* the customer id ensure_stripe_customer derives for a user
    Calls,        \* calls of create_checkout and create_portal
    CallerOf,     \* the authenticated user of a call
    MaxFaults,    \* bound: failed statements, crashes, lost responses
    None

ASSUME EventAssumption ==
    /\ Kind \in [StripeEvents -> {"checkout", "subscription", "invoice", "other"}]
    /\ CustomerOf \in [StripeEvents -> Customers]
    /\ ObjectOf \in [StripeEvents -> Objects \cup {None}]
    /\ CreatedAt \in [StripeEvents -> Nat]
    /\ MetadataUser \in [StripeEvents -> Buyers]
    /\ \A e \in StripeEvents : Kind[e] \in {"subscription", "invoice"} <=> ObjectOf[e] \in Objects
    /\ \A d, e \in StripeEvents :
        ObjectOf[d] = ObjectOf[e] /\ ObjectOf[e] \in Objects => CustomerOf[d] = CustomerOf[e]
ASSUME RequestAssumption ==
    /\ Placeholder \in [Buyers -> Customers]
    /\ CallerOf \in [Calls -> Buyers]
ASSUME MaxFaultsAssumption == MaxFaults \in Nat
ASSUME NoneAssumption ==
    None \notin StripeEvents \cup Buyers \cup Nat \cup Objects \cup Customers

VARIABLES
    customers,  \* stripe_customers: whose each customer id is
    rowUser,    \* user_id of a subscription or invoice row
    rowAt,      \* created of the event whose content the row has
    recorded,   \* stripe_events
    tx,         \* the event whose webhook transaction holds the write lock
    confirmed,  \* history: events that Stripe was answered 200 for
    mirrored,   \* history: how often an event's mirror was committed
    request,    \* where each checkout or portal call is
    answered,   \* the customer a call has answered with
    faults

tables == <<customers, rowUser, rowAt, recorded>>
callVars == <<request, answered>>
billingVars == <<tables, tx, confirmed, mirrored, callVars, faults>>

BillingTypeOK ==
    /\ customers \in [Customers -> Buyers \cup {None}]
    /\ rowUser \in [Objects -> Buyers \cup {None}]
    /\ rowAt \in [Objects -> Nat \cup {None}]
    /\ recorded \subseteq StripeEvents
    /\ tx \in StripeEvents \cup {None}
    /\ confirmed \subseteq StripeEvents
    /\ mirrored \in [StripeEvents -> Nat]
    /\ request \in [Calls -> {"start", "minting", "ok", "err"}]
    /\ answered \in [Calls -> Customers \cup {None}]
    /\ faults \in 0..MaxFaults

BillingInit ==
    /\ customers = [c \in Customers |-> None]
    /\ rowUser = [o \in Objects |-> None]
    /\ rowAt = [o \in Objects |-> None]
    /\ recorded = {}
    /\ tx = None
    /\ confirmed = {}
    /\ mirrored = [e \in StripeEvents |-> 0]
    /\ request = [q \in Calls |-> "start"]
    /\ answered = [q \in Calls |-> None]
    /\ faults = 0

-----------------------------------------------------------------------------
\* The webhook.  Its first statement takes the write lock, so nothing it reads
\* changes before it commits; a rollback leaves no trace.

OfKind(e, kinds) == Kind[e] \in kinds
HasRow(e) == OfKind(e, {"subscription", "invoice"})

\* Mutant: no idempotency gate.
SeenNever(e) == tx # e

\* rows_affected() == 0
Seen(e) == e \in recorded

\* Mutant: a missing customer is not an error.
KnownAnyway(e) == e \in StripeEvents

\* mirror_subscription and mirror_invoice look the customer up.
Known(e) == HasRow(e) => customers[CustomerOf[e]] # None

\* Mutant: the checkout is recorded only.
OwnerNotMirrored(e) == IF Seen(e) THEN [customers EXCEPT ![CustomerOf[e]] = @] ELSE customers

\* INSERT ... ON CONFLICT DO NOTHING
OwnerAfter(e) ==
    IF OfKind(e, {"checkout"}) /\ customers[CustomerOf[e]] = None
    THEN [customers EXCEPT ![CustomerOf[e]] = MetadataUser[e]]
    ELSE customers

\* The upserts overwrite the content of a row, whatever it holds, and leave its
\* user_id alone.
MirrorRow(e) ==
    IF HasRow(e)
    THEN /\ rowAt' = [rowAt EXCEPT ![ObjectOf[e]] = CreatedAt[e]]
         /\ rowUser' = [rowUser EXCEPT ![ObjectOf[e]] =
                           IF @ = None THEN customers[CustomerOf[e]] ELSE @]
    ELSE UNCHANGED <<rowAt, rowUser>>

\* A delivery, the first or a repeated one, gets to INSERT INTO stripe_events.
Deliver(e) ==
    /\ tx = None
    /\ tx' = e
    /\ UNCHANGED <<tables, confirmed, mirrored, callVars, faults>>

CommitReplay(e) ==
    /\ tx = e
    /\ Seen(e)
    /\ tx' = None
    /\ confirmed' = confirmed \cup {e}
    /\ UNCHANGED <<tables, mirrored, callVars, faults>>

CommitMirror(e) ==
    /\ tx = e
    /\ ~Seen(e)
    /\ Known(e)
    /\ recorded' = recorded \cup {e}
    /\ customers' = OwnerAfter(e)
    /\ MirrorRow(e)
    /\ mirrored' = [mirrored EXCEPT ![e] = @ + 1]
    /\ tx' = None
    /\ UNCHANGED callVars

Mirror(e) == CommitMirror(e) /\ confirmed' = confirmed \cup {e} /\ UNCHANGED faults

\* 400: the transaction is dropped, the event is not recorded, and Stripe will
\* deliver it again.
RejectEvent(e) ==
    /\ tx = e
    /\ ~Seen(e)
    /\ ~Known(e)
    /\ tx' = None
    /\ UNCHANGED <<tables, confirmed, mirrored, callVars, faults>>

-----------------------------------------------------------------------------
\* ensure_stripe_customer, called by create_checkout and create_portal: a
\* SELECT, and if it finds nothing an INSERT of its own.

CustomersOf(u) == {c \in Customers : customers[c] = u}

Reply(q, result, c) ==
    /\ request' = [request EXCEPT ![q] = result]
    /\ answered' = [answered EXCEPT ![q] = c]

\* SELECT ... LIMIT 1: whichever row comes first.
LookUpHit(q) ==
    /\ request[q] = "start"
    /\ \E c \in CustomersOf(CallerOf[q]) : Reply(q, "ok", c)
    /\ UNCHANGED <<tables, tx, confirmed, mirrored, faults>>

LookUpMiss(q) ==
    /\ request[q] = "start"
    /\ CustomersOf(CallerOf[q]) = {}
    /\ Reply(q, "minting", None)
    /\ UNCHANGED <<tables, tx, confirmed, mirrored, faults>>

\* Mutant: every mint asks Stripe for a new customer.
AnyFreeId(u) == {c \in Customers : customers[c] = None /\ u \in Buyers}

\* The id is a function of the user, the same whoever mints it.
MintedId(u) == {Placeholder[u]}

Mint(q) ==
    /\ request[q] = "minting"
    /\ tx = None
    /\ \E c \in MintedId(CallerOf[q]) :
          /\ customers[c] = None
          /\ customers' = [customers EXCEPT ![c] = CallerOf[q]]
          /\ Reply(q, "ok", c)
    /\ UNCHANGED <<rowUser, rowAt, recorded, tx, confirmed, mirrored, faults>>

\* Somebody minted it between the two statements: the UNIQUE constraint.
MintConflict(q) ==
    /\ request[q] = "minting"
    /\ tx = None
    /\ customers[Placeholder[CallerOf[q]]] # None
    /\ Reply(q, "err", None)
    /\ UNCHANGED <<tables, tx, confirmed, mirrored, faults>>

-----------------------------------------------------------------------------
\* Faults.

\* The commit went through and the answer did not.
MirrorUnanswered(e) == CommitMirror(e) /\ UNCHANGED confirmed

\* A statement or the commit fails, or the process dies.
Abort ==
    /\ tx # None
    /\ tx' = None
    /\ UNCHANGED <<tables, confirmed, mirrored, callVars>>

RequestFails(q) ==
    /\ request[q] \in {"start", "minting"}
    /\ Reply(q, "err", None)
    /\ UNCHANGED <<tables, tx, confirmed, mirrored>>

Fault ==
    /\ faults < MaxFaults
    /\ faults' = faults + 1
    /\ Abort \/ (\E e \in StripeEvents : MirrorUnanswered(e)) \/ (\E q \in Calls : RequestFails(q))

-----------------------------------------------------------------------------
HandleEvent(e) == CommitReplay(e) \/ Mirror(e) \/ RejectEvent(e)

ServeCall(q) == LookUpHit(q) \/ LookUpMiss(q) \/ Mint(q) \/ MintConflict(q)

BillingNext ==
    \/ Fault
    \/ \E e \in StripeEvents : Deliver(e) \/ HandleEvent(e)
    \/ \E q \in Calls : ServeCall(q)

\* Stripe delivers again what was not answered 200.
DeliverDue(kinds) == \E e \in StripeEvents \ confirmed : OfKind(e, kinds) /\ Deliver(e)
DeliverCheckout == DeliverDue({"checkout"})
DeliverRest == DeliverDue({"subscription", "invoice", "other"})

\* A handler that has the lock goes on; and neither the checkout sessions nor the
\* other events are for ever without one that gets the lock within the busy
\* timeout.
BillingFairness ==
    /\ \A e \in StripeEvents : WF_billingVars(HandleEvent(e))
    /\ SF_billingVars(DeliverCheckout) /\ SF_billingVars(DeliverRest)

BillingSpec == BillingInit /\ [][BillingNext]_billingVars /\ BillingFairness

-----------------------------------------------------------------------------
(* Safety *)

\* "replaying the same event a hundred times updates the DB exactly once": an
\* event is recorded exactly when its mirror is committed, once, and Stripe is
\* told to stop only about events that are.
OncePerEvent ==
    /\ \A e \in StripeEvents : mirrored[e] = IF e \in recorded THEN 1 ELSE 0
    /\ confirmed \subseteq recorded

\* A subscription or invoice row belongs to the user its Stripe customer is
\* mirrored for, in whatever order checkout, subscription and invoice events
\* come in, and next to a checkout call that mints the customer itself.
RowsFollowTheCustomer ==
    \A e \in recorded : HasRow(e) =>
        /\ rowUser[ObjectOf[e]] # None
        /\ rowUser[ObjectOf[e]] = customers[CustomerOf[e]]

\* The customer a checkout or portal call has answered with is the caller's and
\* stays his, whatever webhooks do to the table afterwards; and two calls of one
\* user name two customers only if a checkout session of his brought one of them:
\* calls that race between the SELECT and the INSERT never mint him a second.
CallersGetTheirOwnCustomer ==
    \A q \in Calls : answered[q] # None =>
        /\ customers[answered[q]] = CallerOf[q]
        /\ \A p \in Calls :
              /\ CallerOf[p] = CallerOf[q]
              /\ answered[p] \notin {None, answered[q]}
              => \E e \in recorded :
                    /\ OfKind(e, {"checkout"}) /\ MetadataUser[e] = CallerOf[q]
                    /\ CustomerOf[e] \in {answered[p], answered[q]}

(* Liveness *)

\* Every event is mirrored in the end: one that comes before its customer is
\* known is refused and retried, not lost.
AllMirrored == \A e \in StripeEvents : e \in confirmed /\ mirrored[e] = 1

-----------------------------------------------------------------------------
(* What the documentation says and the code does not do *)

\* "Out-of-order updates are guarded by comparing event timestamps" (ADR 0008):
\* a row shows the newest of the events recorded for it.
NewestWins ==
    \A e \in recorded : HasRow(e) => rowAt[ObjectOf[e]] >= CreatedAt[e]
=============================================================================
