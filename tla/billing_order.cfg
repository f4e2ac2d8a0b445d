SPECIFICATION BillingSpec
CONSTANTS
    ann = ann
    bob = bob
    cus1 = cus1
    cus2 = cus2
    cus3 = cus3
    sub1 = sub1
    inv3 = inv3
    q1 = q1
    q2 = q2
    q3 = q3
    None = None
    MaxFaults = 0
    StripeEvents <- MCStripeEvents
    Kind <- MCKind
    CustomerOf <- MCCustomerOf
    ObjectOf <- MCObjectOf
    CreatedAt <- MCCreatedAt
    Customers <- MCCustomers
    Objects <- MCObjects
    Buyers <- MCBuyers
    MetadataUser <- MCMetadataUser
    Placeholder <- MCPlaceholder
    Calls <- MCCalls
    CallerOf <- MCCallerOf
INVARIANT NewestWins
