------------------------- MODULE BalanceProjection -------------------------
(***************************************************************************)
(* The read model of projects/16-event-sourcing: run_projection polls the  *)
(* log behind the writers' backs and BalanceProjection::handle folds each  *)
(* event into account_balances, with the checkpoint in the same            *)
(* transaction and an in-memory cache beside it.                           *)
(*                                                                         *)
(* A runner is one process: it has its own cache.  The doubt about what a  *)
(* fault leaves behind is modelled with at most MaxFaults of them.         *)
(***************************************************************************)
EXTENDS EventStore

CONSTANTS
    Runners,    \* processes that call run_projection
    BatchSize,  \* its batch_size
    MaxFaults,  \* bound: failed statements, dropped futures and crashes
    None        \* no row, no cache entry, no transaction

ASSUME BatchSizeAssumption == BatchSize \in Nat \ {0}
\* Nobody starts a second run_projection, and handle is not idempotent.
ASSUME OneRunnerAssumption == \A r, q \in Runners : r = q
ASSUME MaxFaultsAssumption == MaxFaults \in Nat
ASSUME NoneAssumption ==
    None \notin Runners \cup Int \cup [balance : Int, status : {"open", "closed"}]

VARIABLES
    table,       \* account_balances
    checkpoint,  \* projection_checkpoints.position of 'balance'
    rpc,         \* where each runner is
    after,       \* the runner's local checkpoint
    batch,       \* the positions of its batch not yet handled
    writing,     \* the runner whose transaction holds the write lock
    staged,      \* the row its transaction has upserted
    cache,       \* each process's in-memory balances
    faults

runnerVars == <<table, checkpoint, rpc, after, batch, writing, staged, cache>>
vars == <<storeVars, runnerVars, faults>>

Balances == [balance : MinCents..MaxCents, status : {"open", "closed"}]

TypeOK ==
    /\ StoreTypeOK
    /\ table \in [Streams -> Balances \cup {None}]
    /\ checkpoint \in Nat
    /\ rpc \in [Runners -> {"off", "polling", "reading", "handling", "upserted"}]
    /\ after \in [Runners -> Nat]
    /\ batch \in [Runners -> Seq(Nat)]
    /\ writing \in Runners \cup {None}
    /\ staged \in Balances \cup {None}
    /\ cache \in [Runners -> [Streams -> (MinCents..MaxCents) \cup {None}]]
    /\ faults \in 0..MaxFaults

Init ==
    /\ StoreInit
    /\ table = [s \in Streams |-> None]
    /\ checkpoint = 0
    /\ rpc = [r \in Runners |-> "off"]
    /\ after = [r \in Runners |-> 0]
    /\ batch = [r \in Runners |-> <<>>]
    /\ writing = None
    /\ staged = None
    /\ cache = [r \in Runners |-> [s \in Streams |-> None]]
    /\ faults = 0

-----------------------------------------------------------------------------

\* The i64 arithmetic of handle wraps in a release build.
Wrap(n) == ((n - MinCents) % (2 * MaxCents + 2)) + MinCents

Delta(event) ==
    CASE event.kind = "deposited" -> event.cents
      [] event.kind = "withdrew"  -> -event.cents
      [] OTHER -> 0

\* The row an event makes of the prior one.
Upserted(prior, event) ==
    LET balance == IF prior = None THEN 0 ELSE prior.balance
        status  == IF prior = None THEN "open" ELSE prior.status
    IN  [balance |-> Wrap(balance + Delta(event)),
         status  |-> IF event.kind = "opened" THEN "open"
                     ELSE IF event.kind = "closed" THEN "closed" ELSE status]

MoveTo(r, place) == rpc' = [rpc EXCEPT ![r] = place]

\* run_projection is called, after whatever ended the last call.
StartRunner(r) ==
    /\ rpc[r] = "off"
    /\ MoveTo(r, "polling")
    /\ UNCHANGED <<table, checkpoint, after, batch, writing, staged, cache>>

ReadCheckpoint(r) ==
    /\ rpc[r] = "polling"
    /\ after' = [after EXCEPT ![r] = checkpoint]
    /\ MoveTo(r, "reading")
    /\ UNCHANGED <<table, checkpoint, batch, writing, staged, cache>>

LastRead(r) ==
    IF after[r] + BatchSize < Len(log) THEN after[r] + BatchSize ELSE Len(log)

\* Mutant: position >= ?
ReadFromInclusive(r) ==
    /\ rpc[r] = "reading"
    /\ after[r] < Len(log)
    /\ LET first == IF after[r] = 0 THEN 1 ELSE after[r]
       IN  batch' = [batch EXCEPT ![r] = [i \in 1..(LastRead(r) - first + 1) |-> first + i - 1]]
    /\ MoveTo(r, "handling")
    /\ UNCHANGED <<table, checkpoint, after, writing, staged, cache>>

\* read_from: position > ? ORDER BY position LIMIT ?
ReadFrom(r) ==
    /\ rpc[r] = "reading"
    /\ after[r] < Len(log)
    /\ batch' = [batch EXCEPT ![r] = [i \in 1..(LastRead(r) - after[r]) |-> after[r] + i]]
    /\ MoveTo(r, "handling")
    /\ UNCHANGED <<table, checkpoint, after, writing, staged, cache>>

\* An empty batch: sleep and poll again, or the cancel future wins.
Idle(r) ==
    /\ rpc[r] = "reading"
    /\ after[r] >= Len(log)
    /\ MoveTo(r, "polling")
    /\ UNCHANGED <<table, checkpoint, after, batch, writing, staged, cache>>

Cancel(r) ==
    /\ rpc[r] = "reading"
    /\ after[r] >= Len(log)
    /\ MoveTo(r, "off")
    /\ UNCHANGED <<table, checkpoint, after, batch, writing, staged, cache>>

Current(r) == log[Head(batch[r])]

\* Mutant: the prior balance is taken from the cache when it has one.
UpsertFromCache(r) ==
    /\ rpc[r] = "handling"
    /\ writing = None
    /\ LET stream == Current(r).stream
           prior == IF cache[r][stream] = None THEN table[stream]
                    ELSE [balance |-> cache[r][stream], status |-> "open"]
           row == Upserted(prior, Current(r).event)
       IN  /\ staged' = row
           /\ cache' = [cache EXCEPT ![r][stream] = row.balance]
    /\ writing' = r
    /\ MoveTo(r, "upserted")
    /\ UNCHANGED <<table, checkpoint, after, batch>>

\* handle, first half: SELECT the prior row, upsert it in the transaction, and
\* insert the balance in the cache before anything is committed.
Upsert(r) ==
    /\ rpc[r] = "handling"
    /\ writing = None
    /\ LET row == Upserted(table[Current(r).stream], Current(r).event)
       IN  /\ staged' = row
           /\ cache' = [cache EXCEPT ![r][Current(r).stream] = row.balance]
    /\ writing' = r
    /\ MoveTo(r, "upserted")
    /\ UNCHANGED <<table, checkpoint, after, batch>>

\* Mutant: the guard of the checkpoint is the wrong way round.
CommitEventBackwards(r) ==
    /\ rpc[r] = "upserted"
    /\ table' = [table EXCEPT ![Current(r).stream] = staged]
    /\ checkpoint' = IF checkpoint > Head(batch[r]) THEN Head(batch[r]) ELSE checkpoint
    /\ batch' = [batch EXCEPT ![r] = Tail(@)]
    /\ MoveTo(r, IF Len(batch[r]) = 1 THEN "polling" ELSE "handling")
    /\ writing' = None
    /\ staged' = None
    /\ UNCHANGED <<after, cache>>

\* Second half: UPDATE ... WHERE position < ?, COMMIT, and on to the next event.
CommitEvent(r) ==
    /\ rpc[r] = "upserted"
    /\ table' = [table EXCEPT ![Current(r).stream] = staged]
    /\ checkpoint' = IF checkpoint < Head(batch[r]) THEN Head(batch[r]) ELSE checkpoint
    /\ batch' = [batch EXCEPT ![r] = Tail(@)]
    /\ MoveTo(r, IF Len(batch[r]) = 1 THEN "polling" ELSE "handling")
    /\ writing' = None
    /\ staged' = None
    /\ UNCHANGED <<after, cache>>

\* The call is over: its transaction is rolled back, its locals are gone.
Stop(r) ==
    /\ rpc[r] # "off"
    /\ MoveTo(r, "off")
    /\ after' = [after EXCEPT ![r] = 0]
    /\ batch' = [batch EXCEPT ![r] = <<>>]
    /\ writing' = IF writing = r THEN None ELSE writing
    /\ staged' = IF writing = r THEN None ELSE staged
    /\ UNCHANGED <<table, checkpoint>>

\* A statement fails (`?` ends run_projection) or its future is dropped; the
\* process lives on, and so does the cache.
FailRunner(r) == Stop(r) /\ UNCHANGED cache

CrashRunner(r) == Stop(r) /\ cache' = [cache EXCEPT ![r] = [s \in Streams |-> None]]

-----------------------------------------------------------------------------
Run(r) ==
    \/ StartRunner(r) \/ ReadCheckpoint(r) \/ ReadFrom(r) \/ Idle(r)
    \/ Upsert(r) \/ CommitEvent(r)

Runner == \E r \in Runners : Run(r) \/ Cancel(r)

\* SQLite admits one writer: an append waits for the transaction of handle.
Locked == log' # log => writing = None

Client == ((\E w \in Writers : Write(w)) \/ AppendHistory) /\ Locked

Fault ==
    /\ faults < MaxFaults
    /\ faults' = faults + 1
    /\ \E r \in Runners : FailRunner(r) \/ CrashRunner(r)
    /\ UNCHANGED storeVars

Next ==
    \/ Fault
    \/ Runner /\ UNCHANGED <<storeVars, faults>>
    \/ Client /\ UNCHANGED <<runnerVars, faults>>

\* The executor polls the runner and the writers, and whoever called
\* run_projection calls it again when it has returned.
Fairness ==
    /\ \A r \in Runners : WF_vars(Run(r) /\ UNCHANGED <<storeVars, faults>>)
    /\ \A w \in Writers : WF_vars(Serve(w) /\ Locked /\ UNCHANGED <<runnerVars, faults>>)

Spec == Init /\ [][Next]_vars /\ Fairness

-----------------------------------------------------------------------------
(* Safety, with one runner: a second one would apply a batch twice *)

\* The account as of the event at a position.
AccountAt(s, position) == Replay(ByPosition(s), position)

\* No balance on the way to the checkpoint left the range of an i64: replay
\* saturates where handle wraps.
InRange(s) ==
    \A i \in Positions(s) : i <= checkpoint =>
        AccountAt(s, i - 1).balance + Delta(log[i].event) \in MinCents..MaxCents

\* The account was not opened a second time up to the checkpoint (by a writer
\* whose two queries disagree): replay resets the balance where handle keeps it.
OpenedOnce(s) ==
    \A i \in Positions(s) : i <= checkpoint /\ log[i].event.kind = "opened" =>
        \A j \in Positions(s) : i <= j

\* The read model is the replay of the log up to the checkpoint, no event
\* skipped or applied twice, whatever fails or crashes in between (the table
\* and the checkpoint commit together), as long as the projection and the
\* aggregate mean the same by the events.
TableIsTheReplay ==
    \A s \in Streams :
        /\ table[s] = None <=> \A i \in Positions(s) : i > checkpoint
        /\ table[s] # None /\ InRange(s) /\ OpenedOnce(s) => table[s] = AccountAt(s, checkpoint)

BalanceInTable(s) == IF table[s] = None THEN None ELSE table[s].balance

\* balance(): the cache first.
Balance(r, s) == IF cache[r][s] # None THEN cache[r][s] ELSE BalanceInTable(s)

\* What balance() returns is what is committed or what the event right after
\* the checkpoint makes of it: the cache, written before the commit and kept
\* when the commit fails, never gets further ahead and never falls behind.
CacheAtMostOneEventAhead ==
    \A r \in Runners, s \in Streams :
        \/ Balance(r, s) = BalanceInTable(s)
        \/ /\ checkpoint < Len(log)
           /\ log[checkpoint + 1].stream = s
           /\ Balance(r, s) = Upserted(table[s], log[checkpoint + 1].event).balance

(* Liveness *)

\* The read model catches up with the log for good once commands and faults
\* stop: no batch, failure or restart leaves the checkpoint short of it.
CatchesUp == <>[](checkpoint = Len(log))

=============================================================================
