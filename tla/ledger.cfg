SPECIFICATION Spec
CONSTANTS
    w1 = w1
    w2 = w2
    r1 = r1
    acct1 = acct1
    acct2 = acct2
    Writers <- MCWriters
    Runners <- MCRunners
    Streams <- MCStreams
    Commands <- MCCommands
    Batches <- MCBatches
    MaxCommands = 2
    MaxCents = 3
    BatchSize = 2
    MaxFaults = 1
    NoOrder = NoOrder
    None = None
INVARIANTS
    OneSuccessor
    TableIsTheReplay
    CacheAtMostOneEventAhead
PROPERTIES
    DecidedOnCurrent
    CommandsAnswered
    CatchesUp
