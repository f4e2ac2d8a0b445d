----------------------------- MODULE EventStore -----------------------------
(***************************************************************************)
(* The event log of projects/16-event-sourcing and the writers that load a *)
(* stream, decide on a command and append under optimistic concurrency.    *)
(*                                                                         *)
(* A writer asks for the aggregate and for the version in two queries, so   *)
(* that an event may land between them.                                    *)
(***************************************************************************)
EXTENDS BankAccount, Sequences, FiniteSetsExt

CONSTANTS
    Streams,      \* stream ids
    Writers,      \* tasks that run the command loop
    Commands,     \* [kind, cents] that may be sent
    MaxCommands,  \* bound: how many commands are sent
    Batches,      \* ready-made histories that are appended to a new stream
    NoOrder

ASSUME CommandsAssumption ==
    Commands \subseteq [kind : {"open", "deposit", "withdraw", "close"}, cents : MinCents..MaxCents]
ASSUME MaxCommandsAssumption == MaxCommands \in Nat
\* Every batch the repository appends opens its account first, and once.
ASSUME BatchesAssumption ==
    \A events \in Batches :
        /\ events \in Seq([kind : {"opened", "deposited", "withdrew", "closed"},
                           cents : MinCents..MaxCents])
        /\ events # <<>>
        /\ \A k \in DOMAIN events : events[k].kind = "opened" <=> k = 1
ASSUME NoOrderAssumption == NoOrder \notin [stream : Streams, command : Commands]

VARIABLES
    log,       \* table events: the index is the position
    wpc,       \* where each writer is in its loop
    order,     \* the stream_id and command of the writer's caller
    loaded,    \* the aggregate it loaded
    expected,  \* the expected_version it will append at
    seen,      \* history: the version of the last event in that aggregate
    issued     \* how many commands were sent

writerVars == <<wpc, order, loaded, expected, seen, issued>>
storeVars == <<log, writerVars>>

Orders == [stream : Streams, command : Commands]
Events == [kind : {"opened", "deposited", "withdrew", "closed"}, cents : MinCents..MaxCents]
Rows == [stream : Streams, version : Nat \ {0}, event : Events]
Places == {"idle", "loading", "loaded", "ready"}

StoreTypeOK ==
    /\ log \in Seq(Rows)
    /\ wpc \in [Writers -> Places]
    /\ order \in [Writers -> Orders \cup {NoOrder}]
    /\ loaded \in [Writers -> Accounts]
    /\ expected \in [Writers -> Nat]
    /\ seen \in [Writers -> Nat]
    /\ issued \in 0..MaxCommands

StoreInit ==
    /\ log = <<>>
    /\ wpc = [w \in Writers |-> "idle"]
    /\ order = [w \in Writers |-> NoOrder]
    /\ loaded = [w \in Writers |-> Fresh]
    /\ expected = [w \in Writers |-> 0]
    /\ seen = [w \in Writers |-> 0]
    /\ issued = 0

-----------------------------------------------------------------------------
\* Queries on the log.

\* WHERE stream_id = ?
Positions(s) == {i \in DOMAIN log : log[i].stream = s}

Versions(s) == {log[i].version : i \in Positions(s)}

\* MAX(version), or 0 for a stream without events
CurrentVersion(s) == Max(Versions(s) \cup {0})

\* load: ... ORDER BY version ASC
ByVersion(s) ==
    [v \in Versions(s) |-> log[CHOOSE i \in Positions(s) : log[i].version = v].event]

\* load_aggregate
Aggregate(s) == Replay(ByVersion(s), CurrentVersion(s))

\* The same events as read_from gives them.
ByPosition(s) == [i \in Positions(s) |-> log[i].event]

\* Mutant: an index on (stream_id, version) that is not UNIQUE.
Indexed(s, version, events) == version >= 0

\* UNIQUE(stream_id, version) holds for every event of a batch.
Unique(s, version, events) == \A k \in DOMAIN events : version + k \notin Versions(s)

\* Mutant: every event of a batch lands at the first version.
RowsAtFirst(s, version, events) ==
    [k \in DOMAIN events |-> [stream |-> s, version |-> version + 1, event |-> events[k]]]

\* The events of one append, at the versions from expected_version + 1 on.
RowsOf(s, version, events) ==
    [k \in DOMAIN events |-> [stream |-> s, version |-> version + k, event |-> events[k]]]

\* BEGIN, an INSERT for each event and COMMIT: all of them or none.
InsertAll(s, version, events) ==
    /\ Unique(s, version, events)
    /\ log' = log \o RowsOf(s, version, events)

-----------------------------------------------------------------------------
\* The command loop: load, ask for the version, handle, append, and again on
\* ConcurrencyConflict.

Goto(w, place) == wpc' = [wpc EXCEPT ![w] = place]

Send(w) ==
    /\ wpc[w] = "idle"
    /\ issued < MaxCommands
    /\ issued' = issued + 1
    /\ \E o \in Orders : order' = [order EXCEPT ![w] = o]
    /\ Goto(w, "loading")
    /\ UNCHANGED <<log, loaded, expected, seen>>

\* load_aggregate: one SELECT, folded.
Load(w) ==
    /\ wpc[w] = "loading"
    /\ loaded' = [loaded EXCEPT ![w] = Aggregate(order[w].stream)]
    /\ seen' = [seen EXCEPT ![w] = CurrentVersion(order[w].stream)]
    /\ Goto(w, "loaded")
    /\ UNCHANGED <<log, order, expected, issued>>

\* current_version: another SELECT, which sees what was appended since.
ReadVersion(w) ==
    /\ wpc[w] = "loaded"
    /\ expected' = [expected EXCEPT ![w] = CurrentVersion(order[w].stream)]
    /\ Goto(w, "ready")
    /\ UNCHANGED <<log, order, loaded, seen, issued>>

Decided(w) == wpc[w] = "ready" /\ Permits(loaded[w], order[w].command)

\* What handle returned: BankAccount's commands cause one event each.
Produced(w) == <<EventOf(order[w].command)>>

\* The command is answered: the writer's locals are gone.
Answer(w) ==
    /\ Goto(w, "idle")
    /\ order' = [order EXCEPT ![w] = NoOrder]
    /\ loaded' = [loaded EXCEPT ![w] = Fresh]
    /\ expected' = [expected EXCEPT ![w] = 0]
    /\ seen' = [seen EXCEPT ![w] = 0]

Reject(w) ==
    /\ wpc[w] = "ready"
    /\ ~Permits(loaded[w], order[w].command)
    /\ Answer(w)
    /\ UNCHANGED <<log, issued>>

\* The first statement of the transaction takes the write lock.
AppendEvents(w) ==
    /\ Decided(w)
    /\ InsertAll(order[w].stream, expected[w], Produced(w))
    /\ Answer(w)
    /\ UNCHANGED issued

\* Mutant: retry the append as it is.
ConflictKeepsVersion(w) ==
    /\ Decided(w)
    /\ ~Unique(order[w].stream, expected[w], Produced(w))
    /\ UNCHANGED storeVars

\* The unique violation rolls back, and the caller reloads and retries.
Conflict(w) ==
    /\ Decided(w)
    /\ ~Unique(order[w].stream, expected[w], Produced(w))
    /\ Goto(w, "loading")
    /\ UNCHANGED <<log, order, loaded, expected, seen, issued>>

\* Any other database error, or the caller is dropped: nothing was written.
Abandon(w) ==
    /\ wpc[w] # "idle"
    /\ Answer(w)
    /\ UNCHANGED <<log, issued>>

\* A caller that hands append a whole history, for a stream it takes to be
\* empty.  When the stream is not, it gets its error and nothing is written.
AppendHistory ==
    /\ \E s \in Streams, events \in Batches : InsertAll(s, 0, events)
    /\ UNCHANGED writerVars

-----------------------------------------------------------------------------
Serve(w) == Load(w) \/ ReadVersion(w) \/ Reject(w) \/ AppendEvents(w) \/ Conflict(w)

Write(w) == Send(w) \/ Serve(w) \/ Abandon(w)

-----------------------------------------------------------------------------
(* Safety *)

\* Optimistic concurrency: the versions of a stream are 1, 2, ... in the order
\* of their positions, so that no two events follow the same predecessor and a
\* replay by version and one by position are the same.
OneSuccessor ==
    \A s \in Streams :
        /\ Versions(s) = 1..CurrentVersion(s)
        /\ \A i, j \in Positions(s) : i < j => log[i].version < log[j].version
        /\ Aggregate(s) = Replay(ByPosition(s), Len(log))

\* The promise to those who send commands, as accounts without a log.
Account == INSTANCE Ledger WITH account <- [s \in Streams |-> Aggregate(s)]

\* An append carries out a permitted command on the account as it is now,
\* whoever races whom, as long as nothing landed between the writer's two
\* queries: what lands after them is a conflict.
DecidedOnCurrent ==
    [][\A w \in Writers : AppendEvents(w) /\ seen[w] = expected[w]
          => Account!Execute(order[w].stream, order[w].command)]_storeVars

\* The rule of the aggregate: "can't withdraw past the balance".  An event that
\* lands between the two queries breaks it.
NeverOverdrawn == \A s \in Streams : Aggregate(s).balance >= 0

(* Liveness *)

\* Every command is answered: the retries on conflict end, because each
\* conflict is another writer's progress and only MaxCommands are sent.
CommandsAnswered == <>[](\A w \in Writers : wpc[w] = "idle")
=============================================================================
