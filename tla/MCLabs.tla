-------------------------------- MODULE MCLabs --------------------------------
(***************************************************************************)
(* Eleven parts in one run.  They share no state in the code, so TLC       *)
(* explores one at a time: the initial state picks a lab, and the others   *)
(* stand still.                                                            *)
(***************************************************************************)
EXTENDS MCSaga, MCSingleFlight, MCBilling, Credentials, WebhookReceiver, RateLimiter,
        RbacPolicy, Fetcher, NotesApi, Money, Subscription

CONSTANTS
    e1, d1, d2,                                 \* webhook receiver
    k1, k2,                                     \* rate limiter
    textA, textB,                               \* notes API
    usd, jpy,                                   \* money
    o1, o2,                                     \* RBAC policies
    url1, url2, url3                            \* quote generator

VARIABLE lab

MCEvents == {e1}
MCDeliveries == {d1, d2}
MCBuckets == {k1, k2}
MCTexts == {textA, textB}
MCPageSizes == {0, 2, 9}
MCCurrencies == {usd, jpy}
MCOrgs == {o1, o2}
MCUrls == {url1, url2, url3}
MCDeadlines == {0, 3}

sagaVars == vars
labVars == <<lab, sagaVars, flightVars, billingVars, hookVars, limiterVars, notesVars,
             moneyVars, policyVars, fetchVars, subVars, credVars>>

\* What the labs that are not picked start from, where they have a choice.
Resting ==
    /\ lab # "sagas" => armed = [k \in {Charge, Subscribe, Email} |-> 0]
    /\ lab # "flights" => cache = Empty
    /\ lab # "money" => amount.currency = usd
    /\ lab # "policy" =>
          /\ user.org = o1 /\ user.tier = 1
          /\ document = [own |-> TRUE, org |-> o1, minTier |-> 1, published |-> FALSE]
    /\ lab # "quotes" => remaining = 0
    /\ lab # "tokens" => fromEnv

LabsInit ==
    /\ lab \in {"sagas", "flights", "billing", "webhook", "limiter", "notes", "money",
               "policy", "quotes", "subscriber", "tokens"}
    /\ Init /\ FlightInit /\ BillingInit /\ HookInit /\ LimiterInit /\ NotesInit
    /\ MoneyInit /\ PolicyInit
    /\ FetchInit /\ SubInit /\ CredInit
    /\ Resting

\* A step of one lab leaves the others alone.
In(l) ==
    /\ lab = l /\ lab' = l
    /\ l # "sagas" => UNCHANGED sagaVars
    /\ l # "flights" => UNCHANGED flightVars
    /\ l # "billing" => UNCHANGED billingVars
    /\ l # "webhook" => UNCHANGED hookVars
    /\ l # "limiter" => UNCHANGED limiterVars
    /\ l # "notes" => UNCHANGED notesVars
    /\ l # "money" => UNCHANGED moneyVars
    /\ l # "policy" => UNCHANGED policyVars
    /\ l # "quotes" => UNCHANGED fetchVars
    /\ l # "subscriber" => UNCHANGED subVars
    /\ l # "tokens" => UNCHANGED credVars

LabsNext ==
    \/ In("sagas") /\ Next
    \/ In("flights") /\ FlightNext
    \/ In("billing") /\ BillingNext
    \/ In("webhook") /\ HookNext
    \/ In("limiter") /\ LimiterNext
    \/ In("notes") /\ NotesNext
    \/ In("money") /\ MoneyNext
    \/ In("policy") /\ PolicyNext
    \/ In("quotes") /\ FetchNext
    \/ In("subscriber") /\ SubNext
    \/ In("tokens") /\ CredNext

\* The fairness of each lab's own specification, for the one that runs.
LabsFairness ==
    /\ \A s \in Sagas : WF_labVars(In("sagas") /\ (Forward(s) \/ Backward(s)))
    /\ \A c \in Callers : WF_labVars(In("flights") /\ Step(c))
    /\ \A e \in StripeEvents : WF_labVars(In("billing") /\ HandleEvent(e))
    /\ SF_labVars(In("billing") /\ DeliverCheckout)
    /\ SF_labVars(In("billing") /\ DeliverRest)
    /\ \A d \in Deliveries : WF_labVars(In("webhook") /\ Serve(d))
    /\ \A e \in Events : WF_labVars(In("webhook") /\ \E d \in Deliveries : Post(d, e))
    /\ WF_labVars(In("quotes") /\ FetchTick)
    /\ \A u \in Urls : WF_labVars(In("quotes") /\ Poll(u))
    /\ WF_labVars(In("subscriber") /\ Task)
    /\ WF_labVars(In("subscriber") /\ ReceiveRow)

LabsSpec == LabsInit /\ [][LabsNext]_labVars /\ LabsFairness

-----------------------------------------------------------------------------
\* The properties of the labs, under the names the run uses.

\* Nothing grows past its limit: tries of a compensation, channels, counters and
\* the requests in flight, whose bodies count; every variable has its type; and
\* a subscriber has seen no gap.
LimitsHold ==
    /\ TypeOK /\ FlightTypeOK /\ BillingTypeOK /\ HookTypeOK /\ LimiterTypeOK
    /\ NotesTypeOK /\ MoneyTypeOK /\ PolicyTypeOK
    /\ FetchTypeOK /\ SubTypeOK /\ CredTypeOK
    /\ InFlightBounded
    /\ SeenWithoutGap

\* A saga and a batch of fetches return, unless their callers drop them.
CallsReturn ==
    <>[](/\ lab = "sagas" => AllReturned
         /\ lab = "quotes" => EveryUrlAnswered)

\* "so callers don't deadlock waiting on a watch that never fills": every call of
\* get_or_compute returns or is dropped, whatever happened to the one it waits for.
FlightsReturn == <>[](lab = "flights" => AllOver)

\* Every event is mirrored in the end: one that comes before its customer is
\* known is refused and retried, not lost.
EveryEventMirrored == <>[](lab = "billing" => AllMirrored)

\* Every event of Stripe's is answered with 200 in the end.
StripeIsAnswered == <>[](lab = "webhook" => EveryEventAcked)
=============================================================================
