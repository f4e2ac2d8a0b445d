SPECIFICATION SupervisedSpec
CONSTANTS
    w1 = w1
    w2 = w2
    Workers <- MCWorkers
    MaxAttempts <- MCMaxAttempts
    MaxRows = 2
    Accounts = {alice, bob}
    Amounts = {0, 1, 9}
    AmountCeiling = 9
    NoRow = NoRow
PROPERTIES
    RetriedAfterCrash
