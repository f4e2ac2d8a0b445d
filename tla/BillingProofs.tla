---------------------------- MODULE BillingProofs ----------------------------
(***************************************************************************)
(* The safety of Billing, for any events, customers, users and calls.      *)
(***************************************************************************)
EXTENDS Billing, TLAPS

-----------------------------------------------------------------------------
(* The inductive invariant.  RowsFollowTheCustomer is not inductive: an    *)
(* upsert leaves the user_id of a row alone, and what it finds there has   *)
(* to come from an event of the same customer.                             *)

RowsHaveAnEvent ==
    \A o \in Objects : rowUser[o] # None =>
        \E d \in recorded : HasRow(d) /\ ObjectOf[d] = o

\* A row of stripe_customers was minted by a call of its user or brought by one
\* of his checkout sessions.
BroughtBy(e, c, u) ==
    OfKind(e, {"checkout"}) /\ CustomerOf[e] = c /\ MetadataUser[e] = u

MintedOrBrought ==
    \A c \in Customers : customers[c] # None =>
        \/ c = Placeholder[customers[c]]
        \/ \E e \in recorded : BroughtBy(e, c, customers[c])

AnswersAreTheCallers ==
    \A q \in Calls : answered[q] # None => customers[answered[q]] = CallerOf[q]

BillingInv ==
    /\ BillingTypeOK
    /\ OncePerEvent
    /\ RowsHaveAnEvent
    /\ RowsFollowTheCustomer
    /\ MintedOrBrought
    /\ AnswersAreTheCallers

\* A row has an object, and all events of one object are of one customer.
LEMMA OneCustomerPerObject ==
    ASSUME NEW d \in StripeEvents, NEW e \in StripeEvents, HasRow(d), HasRow(e), ObjectOf[d] = ObjectOf[e]
    PROVE  ObjectOf[e] \in Objects /\ CustomerOf[d] = CustomerOf[e]
BY EventAssumption DEF HasRow, OfKind

LEMMA BillingInitially == BillingInit => BillingInv
BY MaxFaultsAssumption, NoneAssumption
   DEF BillingInit, BillingInv, BillingTypeOK, OncePerEvent, RowsHaveAnEvent, RowsFollowTheCustomer,
       MintedOrBrought, AnswersAreTheCallers

\* Of two customers of one user at least one is not the minted one.
LEMMA TwoCustomersNeedACheckout ==
    ASSUME BillingInv
    PROVE  CallersGetTheirOwnCustomer
<1>. SUFFICES ASSUME NEW q \in Calls, answered[q] # None,
                     NEW p \in Calls, CallerOf[p] = CallerOf[q],
                     answered[p] # None, answered[p] # answered[q]
              PROVE  \E e \in recorded :
                        /\ OfKind(e, {"checkout"}) /\ MetadataUser[e] = CallerOf[q]
                        /\ CustomerOf[e] \in {answered[p], answered[q]}
  BY DEF BillingInv, AnswersAreTheCallers, CallersGetTheirOwnCustomer
<1>1. answered[p] \in Customers /\ answered[q] \in Customers
  BY DEF BillingInv, BillingTypeOK
<1>2. customers[answered[p]] = CallerOf[q] /\ customers[answered[q]] = CallerOf[q]
  BY DEF BillingInv, AnswersAreTheCallers
<1>3. CallerOf[q] # None
  BY RequestAssumption, NoneAssumption
<1>4. PICK c \in {answered[p], answered[q]} : c # Placeholder[CallerOf[q]]
  OBVIOUS
<1>5. \E e \in recorded : BroughtBy(e, c, CallerOf[q])
  BY <1>1, <1>2, <1>3, <1>4 DEF BillingInv, MintedOrBrought
<1>. QED  BY <1>5 DEF BroughtBy

\* No step but CommitMirror and Mint touches the tables; a step that leaves them
\* and the count of mirrors alone keeps what is said of them.
LEMMA BillingQuiet ==
    ASSUME BillingInv, BillingTypeOK', UNCHANGED <<tables, mirrored>>, confirmed' \subseteq recorded,
           \A q \in Calls :
               answered'[q] \in {None, answered[q]} \cup CustomersOf(CallerOf[q])
    PROVE  BillingInv'
<1>1. OncePerEvent' /\ RowsHaveAnEvent' /\ RowsFollowTheCustomer'
  BY DEF BillingInv, OncePerEvent, RowsHaveAnEvent, RowsFollowTheCustomer, tables
<1>2. MintedOrBrought'
  BY DEF BillingInv, MintedOrBrought, BroughtBy, OfKind, tables
<1>3. AnswersAreTheCallers'
  BY DEF BillingInv, AnswersAreTheCallers, CustomersOf, tables
<1>. QED  BY <1>1, <1>2, <1>3 DEF BillingInv

-----------------------------------------------------------------------------
(* One lemma per writing action. *)

LEMMA MirrorKeeps ==
    ASSUME BillingInv, NEW e \in StripeEvents, CommitMirror(e), BillingTypeOK',
           confirmed' \subseteq confirmed \cup {e}
    PROVE  BillingInv'
<1>1. e \in StripeEvents /\ e \notin recorded /\ recorded' = recorded \cup {e}
  BY DEF CommitMirror, Seen
<1>2. customers \in [Customers -> Buyers \cup {None}] /\ CustomerOf[e] \in Customers
  BY EventAssumption DEF BillingInv, BillingTypeOK
<1>3. \A c \in Customers : customers[c] # None => customers'[c] = customers[c]
  BY <1>2 DEF CommitMirror, OwnerAfter
<1>4. OncePerEvent'
  BY <1>1 DEF BillingInv, BillingTypeOK, OncePerEvent, CommitMirror
<1>5. MintedOrBrought' /\ AnswersAreTheCallers'
  <2>1. \A c \in Customers : customers'[c] # customers[c] => BroughtBy(e, c, customers'[c])
    BY <1>2 DEF CommitMirror, OwnerAfter, BroughtBy
  <2>2. MintedOrBrought'
    BY <2>1, <1>1 DEF BillingInv, MintedOrBrought, BroughtBy, OfKind
  <2>3. UNCHANGED answered
    BY DEF CommitMirror, callVars
  <2>4. \A q \in Calls : answered[q] # None => answered[q] \in Customers
    BY DEF BillingInv, BillingTypeOK
  <2>5. \A q \in Calls : CallerOf[q] # None
    BY RequestAssumption, NoneAssumption
  <2>6. AnswersAreTheCallers'
    BY <1>3, <2>3, <2>4, <2>5 DEF BillingInv, AnswersAreTheCallers
  <2>. QED  BY <2>2, <2>6
<1>6. CASE ~HasRow(e)
  <2>1. UNCHANGED rowUser
    BY <1>6 DEF CommitMirror, MirrorRow
  <2>2. RowsHaveAnEvent'
    BY <2>1, <1>1 DEF BillingInv, RowsHaveAnEvent, HasRow, OfKind
  <2>3. RowsFollowTheCustomer'
    BY <2>1, <1>1, <1>3, <1>6, EventAssumption
       DEF BillingInv, BillingTypeOK, RowsFollowTheCustomer, HasRow, OfKind
  <2>. QED  BY <2>2, <2>3, <1>4, <1>5 DEF BillingInv
<1>7. CASE HasRow(e)
  <2>. DEFINE o == ObjectOf[e]
              owner == customers[CustomerOf[e]]
  <2>1. o \in Objects /\ owner # None
    BY <1>7, EventAssumption DEF CommitMirror, Known, HasRow, OfKind
  <2>2. rowUser[o] # None => rowUser[o] = owner
    BY <1>7, <2>1, OneCustomerPerObject
       DEF BillingInv, BillingTypeOK, RowsHaveAnEvent, RowsFollowTheCustomer
  <2>3. rowUser' = [rowUser EXCEPT ![o] = owner]
    <3>1. rowUser' = [rowUser EXCEPT ![o] = IF @ = None THEN owner ELSE @]
      BY <1>7 DEF CommitMirror, MirrorRow
    <3>. QED  BY <3>1, <2>2
  <2>4. \A p \in Objects : rowUser'[p] = IF p = o THEN owner ELSE rowUser[p]
    BY <2>3 DEF BillingInv, BillingTypeOK
  <2>5. RowsHaveAnEvent'
    BY <2>4, <1>1, <1>7 DEF BillingInv, RowsHaveAnEvent, HasRow, OfKind
  <2>6. RowsFollowTheCustomer'
    <3>. SUFFICES ASSUME NEW d \in recorded', HasRow(d)
                  PROVE  /\ rowUser'[ObjectOf[d]] # None
                         /\ rowUser'[ObjectOf[d]] = customers'[CustomerOf[d]]
      BY DEF RowsFollowTheCustomer, HasRow, OfKind
    <3>1. d \in StripeEvents /\ ObjectOf[d] \in Objects /\ CustomerOf[d] \in Customers
      BY <1>1, OneCustomerPerObject, EventAssumption DEF BillingInv, BillingTypeOK
    <3>2. CASE ObjectOf[d] = o
      BY <3>1, <3>2, <1>7, <1>2, <1>3, <2>1, <2>4, OneCustomerPerObject
    <3>3. CASE ObjectOf[d] # o
      BY <3>1, <3>3, <1>1, <1>3, <2>4 DEF BillingInv, RowsFollowTheCustomer
    <3>. QED  BY <3>2, <3>3
  <2>. QED  BY <2>5, <2>6, <1>4, <1>5 DEF BillingInv
<1>. QED  BY <1>6, <1>7

LEMMA MintKeeps ==
    ASSUME BillingInv, NEW q \in Calls, Mint(q), BillingTypeOK'
    PROVE  BillingInv'
<1>1. CallerOf[q] \in Buyers /\ Placeholder[CallerOf[q]] \in Customers
  BY RequestAssumption
<1>2. /\ \A c \in Customers : customers[c] # None => customers'[c] = customers[c]
      /\ customers'[Placeholder[CallerOf[q]]] = CallerOf[q]
  BY <1>1 DEF Mint, MintedId, BillingInv, BillingTypeOK
<1>3. OncePerEvent' /\ RowsHaveAnEvent'
  BY DEF Mint, BillingInv, OncePerEvent, RowsHaveAnEvent
<1>4. RowsFollowTheCustomer'
  BY <1>2, EventAssumption DEF Mint, BillingInv, BillingTypeOK, RowsFollowTheCustomer
<1>5. MintedOrBrought'
  <2>1. \A c \in Customers : customers'[c] # customers[c] => c = Placeholder[customers'[c]]
    BY <1>1 DEF Mint, MintedId, BillingInv, BillingTypeOK
  <2>2. UNCHANGED recorded
    BY DEF Mint
  <2>. QED  BY <2>1, <2>2 DEF BillingInv, MintedOrBrought, BroughtBy, OfKind
<1>6. AnswersAreTheCallers'
  <2>1. \A p \in Calls : answered'[p] = IF p = q THEN Placeholder[CallerOf[q]] ELSE answered[p]
    BY DEF Mint, MintedId, Reply, BillingInv, BillingTypeOK
  <2>2. \A p \in Calls : answered[p] # None => answered[p] \in Customers
    BY DEF BillingInv, BillingTypeOK
  <2>3. \A p \in Calls : CallerOf[p] # None
    BY RequestAssumption, NoneAssumption
  <2>. QED  BY <1>2, <2>1, <2>2, <2>3 DEF BillingInv, AnswersAreTheCallers
<1>. QED  BY <1>3, <1>4, <1>5, <1>6 DEF BillingInv

-----------------------------------------------------------------------------
LEMMA TypeKeeps ==
    ASSUME BillingTypeOK, [BillingNext]_billingVars
    PROVE  BillingTypeOK'
<1>1. CASE UNCHANGED billingVars
  BY <1>1 DEF billingVars, callVars, tables, BillingTypeOK
<1>2. ASSUME NEW e \in StripeEvents, CommitMirror(e), confirmed' \subseteq confirmed \cup {e},
             faults' \in 0..MaxFaults
      PROVE  BillingTypeOK'
  <2>1. customers' \in [Customers -> Buyers \cup {None}]
    BY <1>2, EventAssumption DEF BillingTypeOK, CommitMirror, OwnerAfter
  <2>2. customers[CustomerOf[e]] \in Buyers \cup {None} /\ CreatedAt[e] \in Nat
    BY EventAssumption DEF BillingTypeOK
  <2>3. rowUser' \in [Objects -> Buyers \cup {None}] /\ rowAt' \in [Objects -> Nat \cup {None}]
    BY <1>2, <2>2 DEF BillingTypeOK, CommitMirror, MirrorRow
  <2>. QED  BY <1>2, <2>1, <2>3 DEF BillingTypeOK, CommitMirror, callVars
<1>3. ASSUME NEW e \in StripeEvents, Deliver(e) \/ HandleEvent(e)
      PROVE  BillingTypeOK'
  <2>1. CASE Mirror(e)
    BY <1>2, <2>1 DEF Mirror, BillingTypeOK
  <2>2. CASE Deliver(e) \/ CommitReplay(e) \/ RejectEvent(e)
    BY <2>2 DEF Deliver, CommitReplay, RejectEvent, BillingTypeOK, callVars, tables
  <2>. QED  BY <1>3, <2>1, <2>2 DEF HandleEvent
<1>4. ASSUME NEW q \in Calls, ServeCall(q)
      PROVE  BillingTypeOK'
  <2>1. CASE LookUpHit(q) \/ LookUpMiss(q) \/ MintConflict(q)
    BY <2>1 DEF LookUpHit, LookUpMiss, MintConflict, CustomersOf, Reply, BillingTypeOK, tables
  <2>2. CASE Mint(q)
    <3>1. CallerOf[q] \in Buyers /\ Placeholder[CallerOf[q]] \in Customers
      BY RequestAssumption
    <3>2. customers' \in [Customers -> Buyers \cup {None}]
      BY <2>2, <3>1 DEF Mint, MintedId, BillingTypeOK
    <3>3. /\ request' \in [Calls -> {"start", "minting", "ok", "err"}]
          /\ answered' \in [Calls -> Customers \cup {None}]
      BY <2>2, <3>1 DEF Mint, MintedId, Reply, BillingTypeOK
    <3>. QED  BY <2>2, <3>2, <3>3 DEF Mint, BillingTypeOK
  <2>. QED  BY <1>4, <2>1, <2>2 DEF ServeCall
<1>5. CASE Fault
  <2>1. faults' \in 0..MaxFaults
    BY <1>5, MaxFaultsAssumption DEF Fault, BillingTypeOK
  <2>2. ASSUME NEW e \in StripeEvents, MirrorUnanswered(e)
        PROVE  BillingTypeOK'
    BY <1>2, <2>1, <2>2 DEF MirrorUnanswered
  <2>3. CASE Abort
    BY <2>1, <2>3 DEF Abort, BillingTypeOK, callVars, tables
  <2>4. ASSUME NEW q \in Calls, RequestFails(q)
        PROVE  BillingTypeOK'
    BY <2>1, <2>4 DEF RequestFails, Reply, BillingTypeOK, tables
  <2>. QED  BY <1>5, <2>2, <2>3, <2>4 DEF Fault
<1>. QED  BY <1>1, <1>3, <1>4, <1>5 DEF BillingNext

LEMMA BillingNextKeeps ==
    ASSUME BillingInv, [BillingNext]_billingVars
    PROVE  BillingInv'
<1>1. BillingTypeOK'
  BY TypeKeeps DEF BillingInv
<1>2. confirmed \subseteq recorded
  BY DEF BillingInv, OncePerEvent
<1>3. CASE UNCHANGED billingVars
  BY <1>1, <1>2, <1>3, BillingQuiet DEF billingVars, callVars
<1>4. ASSUME NEW e \in StripeEvents, Deliver(e) \/ HandleEvent(e)
      PROVE  BillingInv'
  <2>1. CASE Mirror(e)
    BY <1>1, <2>1, MirrorKeeps DEF Mirror
  <2>2. CASE CommitReplay(e)
    <3>1. confirmed' \subseteq recorded /\ UNCHANGED <<tables, mirrored, answered>>
      BY <1>2, <2>2 DEF CommitReplay, Seen, callVars
    <3>. QED  BY <1>1, <3>1, BillingQuiet
  <2>3. CASE Deliver(e) \/ RejectEvent(e)
    <3>1. UNCHANGED <<tables, confirmed, mirrored, answered>>
      BY <2>3 DEF Deliver, RejectEvent, callVars
    <3>. QED  BY <1>1, <1>2, <3>1, BillingQuiet
  <2>. QED  BY <1>4, <2>1, <2>2, <2>3 DEF HandleEvent
<1>5. ASSUME NEW q \in Calls, ServeCall(q)
      PROVE  BillingInv'
  <2>1. CASE Mint(q)
    BY <1>1, <2>1, MintKeeps
  <2>2. CASE LookUpHit(q) \/ LookUpMiss(q) \/ MintConflict(q)
    <3>1. UNCHANGED <<tables, confirmed, mirrored>>
      BY <2>2 DEF LookUpHit, LookUpMiss, MintConflict
    <3>2. \A p \in Calls :
              answered'[p] \in {None, answered[p]} \cup CustomersOf(CallerOf[p])
      BY <2>2 DEF LookUpHit, LookUpMiss, MintConflict, Reply, BillingInv, BillingTypeOK
    <3>. QED  BY <1>1, <1>2, <3>1, <3>2, BillingQuiet
  <2>. QED  BY <1>5, <2>1, <2>2 DEF ServeCall
<1>6. CASE Fault
  <2>1. ASSUME NEW e \in StripeEvents, MirrorUnanswered(e)
        PROVE  BillingInv'
    BY <1>1, <2>1, MirrorKeeps DEF MirrorUnanswered
  <2>2. CASE Abort
    BY <1>1, <1>2, <2>2, BillingQuiet DEF Abort, callVars
  <2>3. ASSUME NEW q \in Calls, RequestFails(q)
        PROVE  BillingInv'
    <3>1. UNCHANGED <<tables, confirmed, mirrored>>
      BY <2>3 DEF RequestFails
    <3>2. \A p \in Calls : answered'[p] \in {None, answered[p]}
      BY <2>3 DEF RequestFails, Reply, BillingInv, BillingTypeOK
    <3>. QED  BY <1>1, <1>2, <3>1, <3>2, BillingQuiet
  <2>. QED  BY <1>6, <2>1, <2>2, <2>3 DEF Fault
<1>. QED  BY <1>3, <1>4, <1>5, <1>6 DEF BillingNext

-----------------------------------------------------------------------------
\* The invariant the theorems below follow from holds in every reachable state.
THEOREM BillingInvariant == BillingSpec => []BillingInv
<1>1. BillingInv /\ [BillingNext]_billingVars => BillingInv'
  BY BillingNextKeeps
<1>. QED  BY <1>1, BillingInitially, PTL DEF BillingSpec

\* Whatever is repeated, reordered or cut short, an event's mirror is committed
\* at most once, exactly when the event is recorded, and only then answered 200.
THEOREM MirroredOnce == BillingSpec => []OncePerEvent
<1>1. BillingInv => OncePerEvent
  BY DEF BillingInv
<1>. QED  BY <1>1, BillingInvariant, PTL

\* Rows of subscriptions and invoices belong to the user of their customer.
THEOREM RowsAreTheCustomers == BillingSpec => []RowsFollowTheCustomer
<1>1. BillingInv => RowsFollowTheCustomer
  BY DEF BillingInv
<1>. QED  BY <1>1, BillingInvariant, PTL

\* The customer create_checkout or create_portal has answered with stays the
\* caller's, and two calls of one user differ only over a checkout session's.
THEOREM CallersCustomer == BillingSpec => []CallersGetTheirOwnCustomer
<1>1. BillingInv => CallersGetTheirOwnCustomer
  BY TwoCustomersNeedACheckout
<1>. QED  BY <1>1, BillingInvariant, PTL
=============================================================================
