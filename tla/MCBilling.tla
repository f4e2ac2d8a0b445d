----------------------------- MODULE MCBilling -----------------------------
(* The constants of Billing for TLC. *)
EXTENDS Billing, TLC

CONSTANTS ann, bob, cus1, cus2, cus3, sub1, inv3, q1, q2, q3

MCBuyers == {ann, bob}
MCCustomers == {cus1, cus2, cus3}
MCObjects == {sub1, inv3}

\* cus1 is minted by a call of ann or by ann's checkout session, whichever comes
\* first; its subscription is updated after it was created.  bob has two
\* customers, one that either of his two calls mints and one that a checkout
\* session brings.
MCStripeEvents == {"checkout", "created", "updated", "checkout3", "paid3"}
MCKind ==
    [e \in MCStripeEvents |-> CASE e \in {"created", "updated"} -> "subscription"
                                [] e = "paid3" -> "invoice"
                                [] OTHER -> "checkout"]
MCCustomerOf ==
    [e \in MCStripeEvents |-> IF e \in {"checkout3", "paid3"} THEN cus3 ELSE cus1]
MCObjectOf ==
    [e \in MCStripeEvents |-> CASE e \in {"created", "updated"} -> sub1
                                [] e = "paid3" -> inv3
                                [] OTHER -> None]
MCCreatedAt ==
    [e \in MCStripeEvents |-> IF e \in {"checkout", "checkout3"} THEN 1
                             ELSE IF e = "updated" THEN 3 ELSE 2]
MCMetadataUser == [e \in MCStripeEvents |-> IF e = "checkout3" THEN bob ELSE ann]

MCPlaceholder == ann :> cus1 @@ bob :> cus2
MCCalls == {q1, q2, q3}
MCCallerOf == q1 :> ann @@ q2 :> bob @@ q3 :> bob
=============================================================================
