------------------------------- MODULE Outbox -------------------------------
(***************************************************************************)
(* The transactional outbox of projects/08-outbox-demo: producers that     *)
(* write a transfer and its outbox row in one SQLite transaction, and      *)
(* workers that claim a due row, hand it to the dispatcher and record the  *)
(* outcome, with exponential backoff and a cap on the attempts.            *)
(*                                                                         *)
(* One action per SQL statement: everything between two statements (and    *)
(* the synchronous call of the dispatcher) can be overtaken by another     *)
(* worker, a producer, a cancellation or a crash.                          *)
(***************************************************************************)
EXTENDS Integers

CONSTANTS
    MaxRows,      \* bound: how many transfers are recorded
    Workers,      \* processes running run_loop
    MaxAttempts,  \* the --max-attempts each worker was started with
    Accounts,     \* account names a caller may pass
    Amounts,      \* amounts a caller may pass, in cents
    AmountCeiling,\* the CHECK of the transfers table, 2100000000000 there
    NoRow

ASSUME MaxRowsAssumption == MaxRows \in Nat
ASSUME MaxAttemptsAssumption == MaxAttempts \in [Workers -> Int]
ASSUME NoRowAssumption == NoRow \notin Nat

Ids == 1..MaxRows

VARIABLES
    transfers,   \* committed transfers: their ids are 1..transfers
    rows,        \* committed outbox rows: their ids are 1..rows
    tx,          \* the open write transaction (SQLite admits one)
    transferOf,  \* outbox.payload, reduced to its transfer_id
    status,      \* outbox.status; "absent" while there is no such row
    attempts,    \* outbox.attempts
    nextAt,      \* outbox.next_attempt_at, in seconds
    now,         \* the wall clock, in seconds
    pc,          \* where each worker is in run_loop
    held,        \* the row in the worker's local `row`
    seen,        \* mark_failed's local `attempts`
    delivered,   \* history: how often the dispatcher returned Ok for a row
    failures,    \* history: how often it returned Err
    failedAt     \* history: when it last returned Err

producerVars == <<transfers, rows, tx, transferOf>>
rowVars      == <<status, attempts, nextAt>>
workerVars   == <<pc, held, seen>>
historyVars  == <<delivered, failures, failedAt>>
vars == <<producerVars, rowVars, now, workerVars, historyVars>>

Statuses == {"absent", "pending", "processing", "done", "failed"}

\* Where a worker that holds a row can be: before the dispatcher, after an Ok,
\* after an Err, and between the two statements of mark_failed.
Holding  == {"claimed", "succeeded", "errored", "selected"}
Awaiting == {"polling"} \cup Holding
Places   == {"off", "sleeping"} \cup Awaiting

NoTx == [stage |-> "none", transfer |-> 0, stamp |-> 0]
Transactions == [stage : {"none", "transfer", "both"}, transfer : Nat, stamp : Nat]

TypeOK ==
    /\ transfers \in 0..MaxRows
    /\ rows \in 0..MaxRows
    /\ tx \in Transactions
    /\ transferOf \in [Ids -> Nat]
    /\ status \in [Ids -> Statuses]
    /\ attempts \in [Ids -> Nat]
    /\ nextAt \in [Ids -> Nat]
    /\ now \in Nat
    /\ pc \in [Workers -> Places]
    /\ held \in [Workers -> Ids \cup {NoRow}]
    /\ seen \in [Workers -> Nat]
    /\ delivered \in [Ids -> Nat]
    /\ failures \in [Ids -> Nat]
    /\ failedAt \in [Ids -> Nat]

Init ==
    /\ transfers = 0
    /\ rows = 0
    /\ tx = NoTx
    /\ transferOf = [r \in Ids |-> 0]
    /\ status = [r \in Ids |-> "absent"]
    /\ attempts = [r \in Ids |-> 0]
    /\ nextAt = [r \in Ids |-> 0]
    /\ now = 0
    /\ pc = [w \in Workers |-> "off"]
    /\ held = [w \in Workers |-> NoRow]
    /\ seen = [w \in Workers |-> 0]
    /\ delivered = [r \in Ids |-> 0]
    /\ failures = [r \in Ids |-> 0]
    /\ failedAt = [r \in Ids |-> 0]

-----------------------------------------------------------------------------
\* backoff_for_attempt: 2^clamp(attempts, 0, 8) seconds.

PowersOfTwo == <<1, 2, 4, 8, 16, 32, 64, 128, 256>>

Clamp(n, lo, hi) == IF n < lo THEN lo ELSE IF n > hi THEN hi ELSE n

Backoff(n) == PowersOfTwo[Clamp(n, 0, 8) + 1]

-----------------------------------------------------------------------------
\* record_transfer.  Both INSERTs are staged in tx and published by Commit;
\* an id is the successor of the last committed one, because a rollback also
\* rolls back sqlite_sequence.

WriteLockFree == tx.stage = "none"

\* Mutant: the INSERT runs on the pool instead of the transaction.
InsertTransferAutocommit ==
    /\ WriteLockFree
    /\ transfers < MaxRows
    /\ transfers' = transfers + 1
    /\ tx' = [tx EXCEPT !.stage = "transfer", !.transfer = transfers + 1]
    /\ UNCHANGED <<rows, transferOf, rowVars, now, workerVars, historyVars>>

\* The early returns for a bad amount and for equal accounts, and the CHECK
\* constraint of the transfers table, all leave the database alone.
InsertTransfer ==
    /\ WriteLockFree
    /\ transfers < MaxRows
    /\ \E amount \in Amounts, from \in Accounts, to \in Accounts :
          amount > 0 /\ amount < AmountCeiling /\ from # to
    /\ tx' = [tx EXCEPT !.stage = "transfer", !.transfer = transfers + 1]
    /\ UNCHANGED <<transfers, rows, transferOf, rowVars, now, workerVars, historyVars>>

InsertOutboxRow ==
    /\ tx.stage = "transfer"
    /\ tx' = [tx EXCEPT !.stage = "both", !.stamp = now]
    /\ UNCHANGED <<transfers, rows, transferOf, rowVars, now, workerVars, historyVars>>

Commit ==
    /\ tx.stage = "both"
    /\ transfers' = tx.transfer
    /\ rows' = rows + 1
    /\ transferOf' = [transferOf EXCEPT ![rows + 1] = tx.transfer]
    /\ status' = [status EXCEPT ![rows + 1] = "pending"]
    /\ nextAt' = [nextAt EXCEPT ![rows + 1] = tx.stamp]
    /\ tx' = NoTx
    /\ UNCHANGED <<attempts, now, workerVars, historyVars>>

\* A statement fails, the caller is dropped, or the process dies.
Rollback ==
    /\ ~WriteLockFree
    /\ tx' = NoTx
    /\ UNCHANGED <<transfers, rows, transferOf, rowVars, now, workerVars, historyVars>>

-----------------------------------------------------------------------------
\* The worker: run_loop around run_once.

\* Mutant: claim_next also picks rows another worker is processing.
DueAnyStatus(r) == status[r] \in {"pending", "processing"} /\ nextAt[r] <= now

\* Mutant: a row that was tried is not looked at again.
DueUntried(r) == status[r] = "pending" /\ attempts[r] = 0 /\ nextAt[r] <= now

Due(r) == status[r] = "pending" /\ nextAt[r] <= now

\* Mutant: no ORDER BY.
AnyDue(r) == Due(r)

\* ORDER BY next_attempt_at, id.  The column is text: the "...123Z" of the
\* default and the "...123456+00:00" of mark_failed compare like the instants,
\* and where those tie to the millisecond the rescheduled row comes first (two
\* of them in either order).
Precedes(r, s) ==
    \/ nextAt[r] < nextAt[s]
    \/ /\ nextAt[r] = nextAt[s]
       /\ attempts[r] > 0 \/ (attempts[s] = 0 /\ r <= s)

\* LIMIT 1
FirstDue(r) == Due(r) /\ \A s \in Ids : Due(s) => Precedes(r, s)

Goto(w, place) == pc' = [pc EXCEPT ![w] = place]

\* Mutant: a starting worker requeues every row in processing.
StartRequeues(w) ==
    /\ pc[w] = "off"
    /\ Goto(w, "polling")
    /\ status' = [r \in Ids |-> IF status[r] = "processing" THEN "pending" ELSE status[r]]
    /\ UNCHANGED <<producerVars, attempts, nextAt, now, held, seen, historyVars>>

Start(w) ==
    /\ pc[w] = "off"
    /\ Goto(w, "polling")
    /\ UNCHANGED <<producerVars, rowVars, now, held, seen, historyVars>>

\* claim_next: one UPDATE ... RETURNING.
Claim(w) ==
    /\ pc[w] = "polling"
    /\ WriteLockFree
    /\ \E r \in Ids :
         /\ FirstDue(r)
         /\ status' = [status EXCEPT ![r] = "processing"]
         /\ attempts' = [attempts EXCEPT ![r] = @ + 1]
         /\ held' = [held EXCEPT ![w] = r]
    /\ Goto(w, "claimed")
    /\ UNCHANGED <<producerVars, nextAt, now, seen, historyVars>>

ClaimNothing(w) ==
    /\ pc[w] = "polling"
    /\ WriteLockFree
    /\ \A r \in Ids : ~Due(r)
    /\ Goto(w, "sleeping")
    /\ UNCHANGED <<producerVars, rowVars, now, held, seen, historyVars>>

\* dispatcher.handle(&row), a synchronous call, returns Ok or Err.
DispatchOk(w) ==
    /\ pc[w] = "claimed"
    /\ delivered' = [delivered EXCEPT ![held[w]] = @ + 1]
    /\ Goto(w, "succeeded")
    /\ UNCHANGED <<producerVars, rowVars, now, held, seen, failures, failedAt>>

DispatchErr(w) ==
    /\ pc[w] = "claimed"
    /\ failures' = [failures EXCEPT ![held[w]] = @ + 1]
    /\ failedAt' = [failedAt EXCEPT ![held[w]] = now]
    /\ Goto(w, "errored")
    /\ UNCHANGED <<producerVars, rowVars, now, held, seen, delivered>>

\* run_once returns: the loop goes round and its locals are gone.
NextRound(w, place) ==
    /\ Goto(w, place)
    /\ held' = [held EXCEPT ![w] = NoRow]
    /\ seen' = [seen EXCEPT ![w] = 0]

MarkDone(w) ==
    /\ pc[w] = "succeeded"
    /\ WriteLockFree
    /\ status' = [status EXCEPT ![held[w]] = "done"]
    /\ NextRound(w, "polling")
    /\ UNCHANGED <<producerVars, attempts, nextAt, now, historyVars>>

\* mark_failed: first a SELECT of attempts ...
SelectAttempts(w) ==
    /\ pc[w] = "errored"
    /\ seen' = [seen EXCEPT ![w] = attempts[held[w]]]
    /\ Goto(w, "selected")
    /\ UNCHANGED <<producerVars, rowVars, now, held, historyVars>>

\* Mutant: off by one at the cap.
ExhaustedStrictly(w) == seen[w] > MaxAttempts[w]

\* ... then one of two UPDATEs, chosen from what the SELECT returned.
Exhausted(w) == seen[w] >= MaxAttempts[w]

GiveUp(w) ==
    /\ pc[w] = "selected"
    /\ WriteLockFree
    /\ Exhausted(w)
    /\ status' = [status EXCEPT ![held[w]] = "failed"]
    /\ NextRound(w, "polling")
    /\ UNCHANGED <<producerVars, attempts, nextAt, now, historyVars>>

\* Mutant: the backoff of the attempt before.
RescheduleEarly(w) ==
    /\ pc[w] = "selected"
    /\ WriteLockFree
    /\ ~Exhausted(w)
    /\ status' = [status EXCEPT ![held[w]] = "pending"]
    /\ nextAt' = [nextAt EXCEPT ![held[w]] = now + Backoff(seen[w] - 1)]
    /\ NextRound(w, "polling")
    /\ UNCHANGED <<producerVars, attempts, now, historyVars>>

Reschedule(w) ==
    /\ pc[w] = "selected"
    /\ WriteLockFree
    /\ ~Exhausted(w)
    /\ status' = [status EXCEPT ![held[w]] = "pending"]
    /\ nextAt' = [nextAt EXCEPT ![held[w]] = now + Backoff(seen[w])]
    /\ NextRound(w, "polling")
    /\ UNCHANGED <<producerVars, attempts, now, historyVars>>

Wake(w) ==
    /\ pc[w] = "sleeping"
    /\ Goto(w, "polling")
    /\ UNCHANGED <<producerVars, rowVars, now, held, seen, historyVars>>

\* Mutant: after a database error the row is put back for another worker.
DbErrorRequeues(w) ==
    /\ pc[w] \in {"succeeded", "errored", "selected"}
    /\ status' = [status EXCEPT ![held[w]] = "pending"]
    /\ NextRound(w, "sleeping")
    /\ UNCHANGED <<producerVars, attempts, nextAt, now, historyVars>>

\* A statement of run_once fails (I/O error, SQLITE_BUSY after the timeout):
\* the loop logs the error and sleeps; the row it held is not touched.
DbError(w) ==
    /\ pc[w] \in {"polling", "succeeded", "errored", "selected"}
    /\ NextRound(w, "sleeping")
    /\ UNCHANGED <<producerVars, rowVars, now, historyVars>>

\* `biased` select: a ready cancel wins over a ready run_once, whose future is
\* dropped at whatever statement it awaits, the claim's answer included.
Cancel(w) ==
    /\ pc[w] \in Awaiting
    /\ NextRound(w, "off")
    /\ UNCHANGED <<producerVars, rowVars, now, historyVars>>

Crash(w) ==
    /\ pc[w] # "off"
    /\ NextRound(w, "off")
    /\ UNCHANGED <<producerVars, rowVars, now, historyVars>>

\* The clock moves only while some row waits for it: when none does, a later
\* reading of the clock orders and enables exactly what this one does.
Tick ==
    /\ \E r \in Ids : status[r] = "pending" /\ nextAt[r] > now
    /\ now' = now + 1
    /\ UNCHANGED <<producerVars, rowVars, workerVars, historyVars>>

-----------------------------------------------------------------------------
Producer == InsertTransfer \/ InsertOutboxRow \/ Commit

Mark(w) == MarkDone(w) \/ SelectAttempts(w) \/ GiveUp(w) \/ Reschedule(w)

Loop(w) ==
    \/ Start(w) \/ Claim(w) \/ ClaimNothing(w)
    \/ DispatchOk(w) \/ DispatchErr(w)
    \/ Mark(w) \/ Wake(w)

Work == Producer \/ Tick \/ \E w \in Workers : Loop(w)

Fault == Rollback \/ \E w \in Workers : DbError(w) \/ Cancel(w) \/ Crash(w)

Next == Work \/ Fault

Spec == Init /\ [][Next]_vars

\* What the runtime schedules: a transaction that was begun ends, a running
\* worker takes its next step, a worker that is down is started, time passes.
Fairness ==
    /\ WF_vars(InsertOutboxRow \/ Commit)
    /\ WF_vars(Tick)
    /\ \A w \in Workers : WF_vars(Loop(w))

\* Faults at any time, and a supervisor that restarts what went down.
SupervisedSpec == Spec /\ Fairness

-----------------------------------------------------------------------------
(* Safety *)

\* No orphaned side effect and no missed one: every committed transfer has
\* exactly one outbox row naming it, and every outbox row names a committed
\* transfer (record_transfer: both commit or neither does).
TransferAndRowTogether ==
    /\ \A r \in 1..rows : transferOf[r] \in 1..transfers
    /\ \A t \in 1..transfers : \E r \in 1..rows :
          /\ transferOf[r] = t
          /\ \A s \in 1..rows : transferOf[s] = t => s = r

\* Concurrent workers work on disjoint rows (claim_next), from the claim to the
\* last statement of mark_done or mark_failed.
OneHolder ==
    \A v, w \in Workers :
        v # w /\ pc[v] \in Holding /\ pc[w] \in Holding => held[v] # held[w]

\* The dispatcher succeeds at most once for a row, whatever crashes: a row that
\* was delivered is never offered again, reported failed, or marked done
\* without having been delivered.
DeliveredAtMostOnce ==
    \A r \in Ids :
        /\ delivered[r] <= 1
        /\ status[r] = "done" => delivered[r] = 1
        /\ status[r] \in {"pending", "failed"} => delivered[r] = 0

\* A row is given up only when the dispatcher failed on every one of its
\* attempts and some worker's cap is reached; it is put back only below the cap
\* of some worker, with no attempt unaccounted for.
RetriesCapped ==
    \A r \in Ids :
        /\ status[r] = "failed" =>
              /\ failures[r] = attempts[r]
              /\ \E w \in Workers : attempts[r] >= MaxAttempts[w]
        /\ status[r] = "pending" /\ attempts[r] > 0 =>
              /\ failures[r] = attempts[r]
              /\ \E w \in Workers : attempts[r] < MaxAttempts[w]

\* Rows get their first attempt in the order they were recorded: a retry or a
\* second worker never lets a younger row overtake one not yet tried.
FirstAttemptsFifo ==
    \A r, s \in Ids : r < s /\ attempts[s] > 0 => attempts[r] > 0

\* A failed row is claimed again only when the backoff of its latest failure
\* has elapsed since the dispatcher reported that failure.
RetryWaitsOutBackoff ==
    [][\A r \in Ids :
          /\ status[r] = "pending"
          /\ status'[r] = "processing"
          /\ failures[r] > 0
          => now >= failedAt[r] + Backoff(failures[r])]_vars

\* What a row is to JobQueue.
JobOf(r) ==
    CASE status[r] = "absent"  -> "absent"
      [] status[r] = "pending" -> "queued"
      [] status[r] = "failed"  -> "dead"
      [] OTHER -> IF delivered[r] > 0 THEN "delivered" ELSE "held"

Queue == INSTANCE JobQueue WITH Jobs <- Ids, job <- [r \in Ids |-> JobOf(r)]

\* The outbox implements JobQueue, under every interleaving and every fault.
ImplementsJobQueue == Queue!Spec

-----------------------------------------------------------------------------
(* Liveness *)

\* A row in processing that no running worker holds.
Stranded(r) ==
    /\ status[r] = "processing"
    /\ \A w \in Workers : pc[w] \in Holding => held[w] # r

\* Once the faults stop, every recorded row is settled: done, or failed at the
\* cap, if it is not stranded by an earlier fault.
EventuallySettled ==
    <>[][Work]_vars =>
        \A r \in Ids :
            status[r] = "pending" ~> status[r] \in {"done", "failed"} \/ Stranded(r)

\* "If a worker crashes after the side effect but before UPDATE outbox SET
\* status='done', the row will retry" (lesson 11.5): claim_next only looks at
\* pending rows and nothing resets processing ones, so it does not.
RetriedAfterCrash == \A r \in Ids : Stranded(r) ~> ~Stranded(r)
=============================================================================
