---------------------------- MODULE OutboxProofs ----------------------------
(***************************************************************************)
(* What TLC checks of Outbox on two rows and two workers, proved for every *)
(* number of rows, set of workers and choice of caps.                      *)
(***************************************************************************)
EXTENDS Outbox, TLAPS

\* backoff_for_attempt returns between 1 and 256 seconds whatever it is given.
LEMMA BackoffBounded ==
    ASSUME NEW n \in Int
    PROVE  Backoff(n) \in 1..256
<1>1. Clamp(n, 0, 8) + 1 \in 1..9
  BY DEF Clamp
<1>2. \A i \in 1..9 : PowersOfTwo[i] \in 1..256
  BY DEF PowersOfTwo
<1>. QED  BY <1>1, <1>2 DEF Backoff

\* The form in which the step lemmas use it.
LEMMA BackoffIsNat == \A n \in Int : Backoff(n) \in Nat
  BY BackoffBounded

-----------------------------------------------------------------------------
(***************************************************************************)
(* The inductive invariant.  TransferAndRowTogether and the others do not  *)
(* hold inductively: a commit is safe because of what is staged in tx, and *)
(* what a worker writes is safe because of the row it holds.               *)
(***************************************************************************)

\* Row ids and transfer ids advance together; an open transaction stages the
\* next id.
TxInv ==
    /\ rows = transfers
    /\ tx.stage # "none" => tx.transfer = transfers + 1 /\ transfers < MaxRows
    /\ \A r \in Ids : status[r] # "absent" <=> r <= rows
    /\ \A r \in Ids : r <= rows => transferOf[r] = r

\* A row nobody is working on agrees with the history of its deliveries.
RowInv ==
    \A r \in Ids :
        /\ status[r] = "absent" => attempts[r] = 0 /\ delivered[r] = 0 /\ failures[r] = 0
        /\ status[r] \in {"pending", "failed"} => delivered[r] = 0 /\ failures[r] = attempts[r]
        /\ status[r] = "done" => delivered[r] = 1
        /\ delivered[r] <= 1
        /\ attempts[r] = 0 => status[r] \in {"absent", "pending"}

\* The worker that holds a row is the only one that can change it.
HoldInv ==
    \A w \in Workers : pc[w] \in Holding =>
        /\ held[w] \in Ids
        /\ status[held[w]] = "processing"
        /\ pc[w] = "claimed" =>
              delivered[held[w]] = 0 /\ attempts[held[w]] = failures[held[w]] + 1
        /\ pc[w] = "succeeded" => delivered[held[w]] = 1
        /\ pc[w] \in {"errored", "selected"} =>
              /\ delivered[held[w]] = 0
              /\ attempts[held[w]] = failures[held[w]]
              /\ failedAt[held[w]] <= now
        /\ pc[w] = "selected" => seen[w] = attempts[held[w]]

\* Caps: what a worker decided from the attempts it selected.
CapInv ==
    \A r \in Ids :
        /\ status[r] = "failed" => \E w \in Workers : attempts[r] >= MaxAttempts[w]
        /\ status[r] = "pending" /\ attempts[r] > 0 =>
              \E w \in Workers : attempts[r] < MaxAttempts[w]

\* Rows not yet tried are due in the order of their ids.
Untried(r) == status[r] = "pending" /\ attempts[r] = 0

FifoInv ==
    /\ \A r \in Ids : Untried(r) => nextAt[r] <= now
    /\ \A r, s \in Ids : Untried(r) /\ Untried(s) /\ r < s => nextAt[r] <= nextAt[s]
    /\ tx.stage = "both" =>
          tx.stamp <= now /\ \A r \in Ids : Untried(r) => nextAt[r] <= tx.stamp

BackoffInv ==
    \A r \in Ids : status[r] = "pending" /\ failures[r] > 0 =>
        nextAt[r] >= failedAt[r] + Backoff(failures[r])

IInv ==
    /\ TypeOK
    /\ TxInv
    /\ RowInv
    /\ OneHolder
    /\ HoldInv
    /\ CapInv
    /\ FifoInv
    /\ FirstAttemptsFifo
    /\ BackoffInv

USE MaxRowsAssumption, MaxAttemptsAssumption, NoRowAssumption
USE DEF Places, Awaiting, Holding, Statuses, producerVars, rowVars, workerVars,
        historyVars, Goto, NextRound, WriteLockFree

\* A step that leaves the database, the clock and the history alone, and after
\* which no worker holds what it did not hold before, keeps the invariant.
LEMMA Quiet ==
    ASSUME IInv, TypeOK',
           UNCHANGED <<producerVars, rowVars, now, historyVars>>,
           \A w \in Workers : pc'[w] \in Holding =>
               pc'[w] = pc[w] /\ held'[w] = held[w] /\ seen'[w] = seen[w]
    PROVE  IInv'
<1>1. TypeOK'
  OBVIOUS
<1>2. TxInv'
  BY DEF IInv, TxInv
<1>3. RowInv'
  BY DEF IInv, RowInv
<1>4. OneHolder'
  BY DEF IInv, OneHolder
<1>5. HoldInv'
  BY DEF HoldInv, IInv
<1>6. CapInv'
  BY DEF CapInv, IInv
<1>7. FifoInv'
  BY DEF FifoInv, IInv, Untried
<1>8. FirstAttemptsFifo'
  BY DEF FirstAttemptsFifo, IInv
<1>9. BackoffInv'
  BY DEF BackoffInv, IInv
<1>. QED  BY <1>1, <1>2, <1>3, <1>4, <1>5, <1>6, <1>7, <1>8, <1>9 DEF IInv

\* Starting, sleeping, waking, and every way of dropping what is held.
LEMMA StepQuiet ==
    ASSUME IInv, NEW w \in Workers,
           \/ Start(w) \/ ClaimNothing(w) \/ Wake(w)
           \/ DbError(w) \/ Cancel(w) \/ Crash(w)
    PROVE  IInv'
<1>1. TypeOK'
  BY DEF Cancel, ClaimNothing, Crash, DbError, IInv, Start, TypeOK, Wake
<1>2. UNCHANGED <<producerVars, rowVars, now, historyVars>>
  BY DEF Cancel, ClaimNothing, Crash, DbError, Start, Wake
<1>3. \A v \in Workers : pc'[v] \in Holding =>
          pc'[v] = pc[v] /\ held'[v] = held[v] /\ seen'[v] = seen[v]
  BY DEF Cancel, ClaimNothing, Crash, DbError, IInv, Start, TypeOK, Wake
<1>. QED  BY <1>1, <1>2, <1>3, Quiet

\* record_transfer, first INSERT: only the open transaction changes.
LEMMA StepInsertTransfer ==
    ASSUME IInv, InsertTransfer
    PROVE  IInv'
<1>1. transfers + 1 \in Nat /\ tx \in Transactions
  BY DEF IInv, TypeOK
<1>2. tx' \in Transactions
  BY <1>1 DEF InsertTransfer, Transactions
<1>3. TypeOK'
  BY <1>2 DEF IInv, InsertTransfer, TypeOK
<1>4. TxInv'
  BY <1>1 DEF IInv, InsertTransfer, TxInv
<1>5. RowInv'
  BY DEF IInv, InsertTransfer, RowInv
<1>6. OneHolder'
  BY DEF IInv, InsertTransfer, OneHolder
<1>7. HoldInv'
  BY DEF HoldInv, IInv, InsertTransfer
<1>8. CapInv'
  BY DEF CapInv, IInv, InsertTransfer
<1>9. FifoInv'
  BY <1>1 DEF FifoInv, IInv, InsertTransfer, Untried
<1>10. FirstAttemptsFifo'
  BY DEF FirstAttemptsFifo, IInv, InsertTransfer
<1>11. BackoffInv'
  BY DEF BackoffInv, IInv, InsertTransfer
<1>. QED  BY <1>3, <1>4, <1>5, <1>6, <1>7, <1>8, <1>9, <1>10, <1>11 DEF IInv

\* record_transfer, second INSERT: the row is stamped with the present, after
\* which no untried row is due.
LEMMA StepInsertOutboxRow ==
    ASSUME IInv, InsertOutboxRow
    PROVE  IInv'
<1>1. now \in Nat /\ tx \in Transactions /\ tx' \in Transactions
  BY DEF IInv, InsertOutboxRow, Transactions, TypeOK
<1>2. TypeOK'
  BY <1>1 DEF IInv, InsertOutboxRow, TypeOK
<1>3. TxInv'
  BY <1>1 DEF IInv, InsertOutboxRow, TxInv
<1>4. RowInv'
  BY DEF IInv, InsertOutboxRow, RowInv
<1>5. OneHolder'
  BY DEF IInv, InsertOutboxRow, OneHolder
<1>6. HoldInv'
  BY DEF HoldInv, IInv, InsertOutboxRow
<1>7. CapInv'
  BY DEF CapInv, IInv, InsertOutboxRow
<1>8. FifoInv'
  BY <1>1 DEF FifoInv, IInv, InsertOutboxRow, Untried
<1>9. FirstAttemptsFifo'
  BY DEF FirstAttemptsFifo, IInv, InsertOutboxRow
<1>10. BackoffInv'
  BY DEF BackoffInv, IInv, InsertOutboxRow
<1>. QED  BY <1>2, <1>3, <1>4, <1>5, <1>6, <1>7, <1>8, <1>9, <1>10 DEF IInv

\* The row that appears has never been tried and belongs to nobody.
LEMMA StepCommit ==
    ASSUME IInv, Commit
    PROVE  IInv'
<1>1. /\ rows + 1 \in Ids
      /\ tx.transfer = rows + 1
      /\ rows + 1 \in 0..MaxRows
      /\ tx.stamp \in Nat
  BY DEF Commit, IInv, Ids, Transactions, TxInv, TypeOK
<1>2. /\ status[rows + 1] = "absent"
      /\ attempts[rows + 1] = 0
      /\ delivered[rows + 1] = 0
      /\ failures[rows + 1] = 0
  BY <1>1 DEF IInv, RowInv, TxInv, TypeOK
<1>3. \A r \in Ids : r \in Nat
  BY DEF Ids
<1>4. NoTx \in Transactions /\ tx'.stage = "none"
  BY DEF Commit, NoTx, Transactions
<1>5. TypeOK'
  BY <1>1, <1>2, <1>3, <1>4 DEF Commit, IInv, TypeOK
<1>6. TxInv'
  BY <1>1, <1>2, <1>3, <1>4 DEF Commit, IInv, TxInv, TypeOK
<1>7. RowInv'
  BY <1>1, <1>2, <1>3, <1>4 DEF Commit, IInv, RowInv
<1>8. OneHolder'
  BY <1>1, <1>2, <1>3, <1>4 DEF Commit, IInv, OneHolder
<1>9. HoldInv'
  BY <1>1, <1>2, <1>3, <1>4 DEF Commit, HoldInv, IInv
<1>10. CapInv'
  BY <1>1, <1>2, <1>3, <1>4 DEF CapInv, Commit, IInv
<1>11. FifoInv'
  BY <1>1, <1>2, <1>3, <1>4 DEF Commit, FifoInv, IInv, TxInv, TypeOK, Untried
<1>12. FirstAttemptsFifo'
  BY <1>1, <1>2, <1>3, <1>4 DEF Commit, FirstAttemptsFifo, IInv
<1>13. BackoffInv'
  BY <1>1, <1>2, <1>3, <1>4 DEF BackoffInv, Commit, IInv
<1>. QED  BY <1>5, <1>6, <1>7, <1>8, <1>9, <1>10, <1>11, <1>12, <1>13 DEF IInv

\* A dropped transaction publishes nothing.
LEMMA StepRollback ==
    ASSUME IInv, Rollback
    PROVE  IInv'
<1>1. tx' \in Transactions /\ tx'.stage = "none"
  BY DEF NoTx, Rollback, Transactions
<1>2. TypeOK'
  BY <1>1 DEF IInv, Rollback, TypeOK
<1>3. TxInv'
  BY <1>1 DEF IInv, Rollback, TxInv
<1>4. RowInv'
  BY <1>1 DEF IInv, Rollback, RowInv
<1>5. OneHolder'
  BY <1>1 DEF IInv, OneHolder, Rollback
<1>6. HoldInv'
  BY <1>1 DEF HoldInv, IInv, Rollback
<1>7. CapInv'
  BY <1>1 DEF CapInv, IInv, Rollback
<1>8. FifoInv'
  BY <1>1 DEF FifoInv, IInv, Rollback, Untried
<1>9. FirstAttemptsFifo'
  BY <1>1 DEF FirstAttemptsFifo, IInv, Rollback
<1>10. BackoffInv'
  BY <1>1 DEF BackoffInv, IInv, Rollback
<1>. QED  BY <1>2, <1>3, <1>4, <1>5, <1>6, <1>7, <1>8, <1>9, <1>10 DEF IInv

\* Time only makes more rows due.
LEMMA StepTick ==
    ASSUME IInv, Tick
    PROVE  IInv'
<1>1. tx \in Transactions /\ now \in Nat
  BY DEF IInv, TypeOK
<1>2. tx.stamp \in Nat
  BY <1>1 DEF Transactions
<1>3. TypeOK'
  BY <1>1, <1>2 DEF IInv, Tick, TypeOK
<1>4. TxInv'
  BY <1>1, <1>2 DEF IInv, Tick, TxInv
<1>5. RowInv'
  BY <1>1, <1>2 DEF IInv, RowInv, Tick
<1>6. OneHolder'
  BY <1>1, <1>2 DEF IInv, OneHolder, Tick
<1>7. HoldInv'
  BY <1>1, <1>2 DEF HoldInv, IInv, Tick, TypeOK
<1>8. CapInv'
  BY <1>1, <1>2 DEF CapInv, IInv, Tick
<1>9. FifoInv'
  BY <1>1, <1>2 DEF FifoInv, IInv, Tick, TypeOK, Untried
<1>10. FirstAttemptsFifo'
  BY <1>1, <1>2 DEF FirstAttemptsFifo, IInv, Tick
<1>11. BackoffInv'
  BY <1>1, <1>2 DEF BackoffInv, IInv, Tick
<1>. QED  BY <1>3, <1>4, <1>5, <1>6, <1>7, <1>8, <1>9, <1>10, <1>11 DEF IInv

\* The claimed row is the first due one: no worker holds it, and a row with a
\* smaller id that was never tried would have been due before it.
LEMMA StepClaim ==
    ASSUME IInv, NEW w \in Workers, Claim(w)
    PROVE  IInv'
<1>1. TypeOK'
  BY DEF Claim, IInv, TypeOK
<1>2. TxInv'
  BY DEF Claim, Due, FirstDue, IInv, TxInv
<1>3. RowInv'
  BY DEF Claim, IInv, RowInv, TypeOK
<1>4. OneHolder'
  BY DEF Claim, Due, FirstDue, HoldInv, IInv, OneHolder, TypeOK
<1>5. HoldInv'
  BY DEF Claim, Due, FirstDue, HoldInv, IInv, RowInv, TypeOK
<1>6. CapInv'
  BY DEF CapInv, Claim, IInv, TypeOK
<1>7. FifoInv'
  BY DEF Claim, FifoInv, IInv, TypeOK, Untried
<1>8. FirstAttemptsFifo'
  <2>1. PICK c \in Ids : FirstDue(c) /\ attempts' = [attempts EXCEPT ![c] = @ + 1]
    BY DEF Claim
  <2>2. SUFFICES ASSUME NEW r \in Ids, NEW s \in Ids, r < s, attempts'[s] > 0,
                        attempts'[r] = 0
                 PROVE  FALSE
    BY <2>1 DEF FirstAttemptsFifo, IInv, TypeOK
  <2>3. r # c /\ attempts[r] = 0
    BY <2>1, <2>2 DEF IInv, TypeOK
  <2>4. attempts[s] = 0
    BY <2>2, <2>3 DEF FirstAttemptsFifo, IInv, TypeOK
  <2>5. s = c
    BY <2>1, <2>2, <2>4
  <2>6. r \in Nat /\ s \in Nat /\ rows \in Nat
    BY DEF IInv, Ids, TypeOK
  <2>7. Untried(r) /\ Untried(s)
    BY <2>1, <2>2, <2>3, <2>4, <2>5, <2>6 DEF Due, FirstDue, IInv, RowInv, TxInv,
       Untried
  <2>8. nextAt[r] <= nextAt[s] /\ Due(r)
    BY <2>2, <2>7 DEF Due, FifoInv, IInv, Untried
  <2>. QED
    BY <2>1, <2>2, <2>3, <2>4, <2>5, <2>6, <2>8 DEF FirstDue, Precedes, IInv, TypeOK
<1>9. BackoffInv'
  BY DEF BackoffInv, Claim, IInv
<1>. QED  BY <1>1, <1>2, <1>3, <1>4, <1>5, <1>6, <1>7, <1>8, <1>9 DEF IInv

\* The dispatcher returned Ok: the first delivery of the held row, because it
\* was claimed with none.
LEMMA StepDispatchOk ==
    ASSUME IInv, NEW w \in Workers, DispatchOk(w)
    PROVE  IInv'
<1>1. TypeOK'
  BY DEF DispatchOk, HoldInv, IInv, TypeOK
<1>2. TxInv'
  BY DEF DispatchOk, IInv, TxInv
<1>3. RowInv'
  BY DEF DispatchOk, HoldInv, IInv, RowInv
<1>4. OneHolder'
  BY DEF DispatchOk, IInv, OneHolder
<1>5. HoldInv'
  BY DEF DispatchOk, HoldInv, IInv, OneHolder, TypeOK
<1>6. CapInv'
  BY DEF CapInv, DispatchOk, IInv
<1>7. FifoInv'
  BY DEF DispatchOk, FifoInv, IInv, Untried
<1>8. FirstAttemptsFifo'
  BY DEF DispatchOk, FirstAttemptsFifo, IInv
<1>9. BackoffInv'
  BY DEF BackoffInv, DispatchOk, IInv
<1>. QED  BY <1>1, <1>2, <1>3, <1>4, <1>5, <1>6, <1>7, <1>8, <1>9 DEF IInv

\* The dispatcher returned Err: the failures have caught up with the attempts.
LEMMA StepDispatchErr ==
    ASSUME IInv, NEW w \in Workers, DispatchErr(w)
    PROVE  IInv'
<1>1. TypeOK'
  BY DEF DispatchErr, HoldInv, IInv, TypeOK
<1>2. TxInv'
  BY DEF DispatchErr, IInv, TxInv
<1>3. RowInv'
  BY DEF DispatchErr, HoldInv, IInv, RowInv
<1>4. OneHolder'
  BY DEF DispatchErr, IInv, OneHolder
<1>5. HoldInv'
  BY DEF DispatchErr, HoldInv, IInv, OneHolder, TypeOK
<1>6. CapInv'
  BY DEF CapInv, DispatchErr, IInv
<1>7. FifoInv'
  BY DEF DispatchErr, FifoInv, IInv, Untried
<1>8. FirstAttemptsFifo'
  BY DEF DispatchErr, FirstAttemptsFifo, IInv
<1>9. BackoffInv'
  BY DEF BackoffInv, DispatchErr, HoldInv, IInv
<1>. QED  BY <1>1, <1>2, <1>3, <1>4, <1>5, <1>6, <1>7, <1>8, <1>9 DEF IInv

\* mark_done settles the row of the worker and no other.
LEMMA StepMarkDone ==
    ASSUME IInv, NEW w \in Workers, MarkDone(w)
    PROVE  IInv'
<1>1. TypeOK'
  BY DEF IInv, MarkDone, TypeOK
<1>2. TxInv'
  BY DEF HoldInv, IInv, MarkDone, TxInv
<1>3. RowInv'
  BY DEF HoldInv, IInv, MarkDone, RowInv
<1>4. OneHolder'
  BY DEF IInv, MarkDone, OneHolder, TypeOK
<1>5. HoldInv'
  BY DEF HoldInv, IInv, MarkDone, OneHolder, TypeOK
<1>6. CapInv'
  BY DEF CapInv, IInv, MarkDone
<1>7. FifoInv'
  BY DEF FifoInv, IInv, MarkDone, Untried
<1>8. FirstAttemptsFifo'
  BY DEF FirstAttemptsFifo, IInv, MarkDone
<1>9. BackoffInv'
  BY DEF BackoffInv, IInv, MarkDone
<1>. QED  BY <1>1, <1>2, <1>3, <1>4, <1>5, <1>6, <1>7, <1>8, <1>9 DEF IInv

\* mark_failed, the SELECT: what it reads stays true while the row is held.
LEMMA StepSelectAttempts ==
    ASSUME IInv, NEW w \in Workers, SelectAttempts(w)
    PROVE  IInv'
<1>1. TypeOK'
  BY DEF HoldInv, IInv, SelectAttempts, TypeOK
<1>2. TxInv'
  BY DEF IInv, SelectAttempts, TxInv
<1>3. RowInv'
  BY DEF IInv, RowInv, SelectAttempts
<1>4. OneHolder'
  BY DEF IInv, OneHolder, SelectAttempts
<1>5. HoldInv'
  BY DEF HoldInv, IInv, SelectAttempts, TypeOK
<1>6. CapInv'
  BY DEF CapInv, IInv, SelectAttempts
<1>7. FifoInv'
  BY DEF FifoInv, IInv, SelectAttempts, Untried
<1>8. FirstAttemptsFifo'
  BY DEF FirstAttemptsFifo, IInv, SelectAttempts
<1>9. BackoffInv'
  BY DEF BackoffInv, IInv, SelectAttempts
<1>. QED  BY <1>1, <1>2, <1>3, <1>4, <1>5, <1>6, <1>7, <1>8, <1>9 DEF IInv

\* mark_failed, the UPDATE at the cap.
LEMMA StepGiveUp ==
    ASSUME IInv, NEW w \in Workers, GiveUp(w)
    PROVE  IInv'
<1>1. TypeOK'
  BY DEF GiveUp, IInv, TypeOK
<1>2. TxInv'
  BY DEF GiveUp, HoldInv, IInv, TxInv
<1>3. RowInv'
  BY DEF GiveUp, HoldInv, IInv, RowInv
<1>4. OneHolder'
  BY DEF GiveUp, IInv, OneHolder, TypeOK
<1>5. HoldInv'
  BY DEF GiveUp, HoldInv, IInv, OneHolder, TypeOK
<1>6. CapInv'
  BY DEF CapInv, Exhausted, GiveUp, HoldInv, IInv
<1>7. FifoInv'
  BY DEF FifoInv, GiveUp, IInv, Untried
<1>8. FirstAttemptsFifo'
  BY DEF FirstAttemptsFifo, GiveUp, IInv
<1>9. BackoffInv'
  BY DEF BackoffInv, GiveUp, IInv
<1>. QED  BY <1>1, <1>2, <1>3, <1>4, <1>5, <1>6, <1>7, <1>8, <1>9 DEF IInv

\* mark_failed, the UPDATE below the cap: the row is pending again, tried and
\* with its backoff ahead.
LEMMA StepReschedule ==
    ASSUME IInv, NEW w \in Workers, Reschedule(w)
    PROVE  IInv'
<1>1. TypeOK'
  BY BackoffIsNat DEF HoldInv, IInv, Reschedule, TypeOK
<1>2. TxInv'
  BY BackoffIsNat DEF HoldInv, IInv, Reschedule, TxInv
<1>3. RowInv'
  BY BackoffIsNat DEF HoldInv, IInv, Reschedule, RowInv
<1>4. OneHolder'
  BY BackoffIsNat DEF IInv, OneHolder, Reschedule, TypeOK
<1>5. HoldInv'
  BY BackoffIsNat DEF HoldInv, IInv, OneHolder, Reschedule, TypeOK
<1>6. CapInv'
  BY BackoffIsNat DEF CapInv, Exhausted, HoldInv, IInv, Reschedule, TypeOK
<1>7. FifoInv'
  BY BackoffIsNat DEF FifoInv, HoldInv, IInv, Reschedule, RowInv, Untried
<1>8. FirstAttemptsFifo'
  BY BackoffIsNat DEF FirstAttemptsFifo, IInv, Reschedule
<1>9. BackoffInv'
  BY BackoffIsNat DEF BackoffInv, HoldInv, IInv, Reschedule, TypeOK
<1>. QED  BY <1>1, <1>2, <1>3, <1>4, <1>5, <1>6, <1>7, <1>8, <1>9 DEF IInv

\* Every step of the workers, the producers and the faults keeps the invariant.
LEMMA IInvStep == IInv /\ [Next]_vars => IInv'
<1> SUFFICES ASSUME IInv, [Next]_vars
             PROVE  IInv'
  OBVIOUS
<1>1. CASE Producer
  BY <1>1, StepInsertTransfer, StepInsertOutboxRow, StepCommit DEF Producer
<1>2. CASE Tick
  BY <1>2, StepTick
<1>3. ASSUME NEW w \in Workers, Loop(w)
      PROVE  IInv'
  BY <1>3, StepQuiet, StepClaim, StepDispatchOk, StepDispatchErr, StepMarkDone,
     StepSelectAttempts, StepGiveUp, StepReschedule DEF Loop, Mark
<1>4. CASE Fault
  BY <1>4, StepRollback, StepQuiet DEF Fault
<1>5. CASE UNCHANGED vars
  <2>1. TypeOK'
    BY <1>5 DEF vars, IInv, TypeOK
  <2>. QED  BY <1>5, <2>1, Quiet DEF vars
<1>. QED  BY <1>1, <1>2, <1>3, <1>4, <1>5 DEF Next, Work

\* An empty database and workers that are off satisfy the invariant.
LEMMA IInvInit == Init => IInv
<1> SUFFICES ASSUME Init
             PROVE  IInv
  OBVIOUS
<1>1. \A r \in Ids : r \in Nat /\ ~(r <= 0)
  BY DEF Ids
<1>. QED
  BY <1>1 DEF Init, NoTx, Transactions, IInv, TypeOK, TxInv, RowInv, OneHolder, HoldInv, CapInv,
       FifoInv, Untried, FirstAttemptsFifo, BackoffInv

\* The invariant holds in every reachable state.
THEOREM InductiveInvariant == Spec => []IInv
  BY IInvInit, IInvStep, PTL DEF Spec

-----------------------------------------------------------------------------
(* The properties of Outbox, for every value of the constants. *)

\* Every variable keeps its type.
THEOREM TypeCorrect == Spec => []TypeOK
<1>1. IInv => TypeOK
  BY DEF IInv
<1>. QED  BY <1>1, InductiveInvariant, PTL

\* record_transfer: the transfer and its outbox row commit together or not at
\* all, one row for one transfer.
THEOREM AtomicRecord == Spec => []TransferAndRowTogether
<1>1. IInv => TransferAndRowTogether
  <2>1. SUFFICES ASSUME IInv
                 PROVE  TransferAndRowTogether
    OBVIOUS
  <2>2. rows = transfers /\ \A r \in 1..rows : r \in Ids /\ transferOf[r] = r
    BY <2>1 DEF IInv, TypeOK, TxInv, Ids
  <2>. QED  BY <2>2 DEF TransferAndRowTogether
<1>. QED  BY <1>1, InductiveInvariant, PTL

\* claim_next: two workers never work on one row.
THEOREM DisjointClaims == Spec => []OneHolder
<1>1. IInv => OneHolder
  BY DEF IInv
<1>. QED  BY <1>1, InductiveInvariant, PTL

\* A row is delivered at most once, and its status never contradicts that.
THEOREM AtMostOnce == Spec => []DeliveredAtMostOnce
<1>1. IInv => DeliveredAtMostOnce
  BY DEF IInv, RowInv, DeliveredAtMostOnce
<1>. QED  BY <1>1, InductiveInvariant, PTL

\* A row is retried only below a cap and given up only at one, after as many
\* failures as attempts.
THEOREM CapsRespected == Spec => []RetriesCapped
<1>1. IInv => RetriesCapped
  BY DEF IInv, RowInv, CapInv, RetriesCapped
<1>. QED  BY <1>1, InductiveInvariant, PTL

\* First attempts happen in the order of recording.
THEOREM FifoFirstAttempts == Spec => []FirstAttemptsFifo
<1>1. IInv => FirstAttemptsFifo
  BY DEF IInv
<1>. QED  BY <1>1, InductiveInvariant, PTL

\* A failed row is claimed again only after its backoff: next_attempt_at is at
\* least the time of the last failure plus the backoff, and a claim needs it due.
THEOREM BackoffWaitedOut == Spec => RetryWaitsOutBackoff
<1> DEFINE Early(r) == /\ status[r] = "pending"
                       /\ status'[r] = "processing"
                       /\ failures[r] > 0
<1>1. ASSUME IInv, [Next]_vars, NEW r \in Ids, Early(r)
      PROVE  now >= failedAt[r] + Backoff(failures[r])
  <2>1. /\ failures[r] \in Nat /\ failedAt[r] \in Nat /\ nextAt[r] \in Nat /\ now \in Nat
        /\ status \in [Ids -> Statuses]
    BY <1>1 DEF IInv, TypeOK
  <2>2. nextAt[r] >= failedAt[r] + Backoff(failures[r])
    BY <1>1 DEF IInv, BackoffInv
  <2>3. ASSUME NEW w \in Workers, Claim(w)
        PROVE  nextAt[r] <= now
    BY <1>1, <2>1, <2>3 DEF Claim, FirstDue, Due
  <2>4. \E w \in Workers : Claim(w)
    <3>1. ASSUME NEW w \in Workers, Loop(w)
          PROVE  Claim(w)
      BY <1>1, <2>1, <3>1 DEF Loop, Mark, Start, ClaimNothing, DispatchOk, DispatchErr,
         MarkDone, SelectAttempts, GiveUp, Reschedule, Wake
    <3>2. ~Producer
      BY <1>1, <2>1 DEF Producer, InsertTransfer, InsertOutboxRow, Commit
    <3>3. ~Tick /\ ~Fault /\ vars' # vars
      BY <1>1 DEF Tick, Fault, Rollback, DbError, Cancel, Crash, vars
    <3>. QED  BY <1>1, <3>1, <3>2, <3>3 DEF Next, Work
  <2>5. Backoff(failures[r]) \in Nat
    BY <2>1, BackoffIsNat
  <2>. QED  BY <2>1, <2>2, <2>3, <2>4, <2>5
<1>2. IInv /\ [Next]_vars =>
        [\A r \in Ids : Early(r) => now >= failedAt[r] + Backoff(failures[r])]_vars
  BY <1>1
<1>. QED  BY <1>2, InductiveInvariant, PTL DEF Spec, RetryWaitsOutBackoff

-----------------------------------------------------------------------------
(***************************************************************************)
(* The refinement: a row is a job, and every step of the outbox is a step  *)
(* of JobQueue or leaves every job where it is.                            *)
(***************************************************************************)

\* A step that changes at most row r, and moves its job the way JobQueue may,
\* is a step of JobQueue.
LEMMA OneRowMoves ==
    ASSUME NEW r \in Ids, NEW from, NEW to,
           \A s \in Ids \ {r} : status'[s] = status[s] /\ delivered'[s] = delivered[s],
           JobOf(r) = from, JobOf(r)' = to,
           <<from, to>> \in {<<"absent", "queued">>, <<"queued", "held">>,
                             <<"held", "delivered">>, <<"held", "queued">>,
                             <<"held", "dead">>}
    PROVE  Queue!Next
<1> DEFINE job == [s \in Ids |-> JobOf(s)]
<1>1. \A s \in Ids \ {r} : JobOf(s)' = JobOf(s)
  BY DEF JobOf
<1>2. job[r] = from /\ job' = [job EXCEPT ![r] = to]
  BY <1>1
<1>. QED
  BY <1>2 DEF Queue!Next, Queue!Enqueue, Queue!Take, Queue!Deliver, Queue!Return,
     Queue!Bury, Queue!Move

\* A step after which no row has moved on leaves the queue alone.
LEMMA NoRowMoves ==
    ASSUME \A r \in Ids : JobOf(r)' = JobOf(r)
    PROVE  UNCHANGED [r \in Ids |-> JobOf(r)]
  OBVIOUS

\* Every step is a step of JobQueue or a stutter.
LEMMA QueueStep == IInv /\ [Next]_vars => [Queue!Next]_[r \in Ids |-> JobOf(r)]
<1> SUFFICES ASSUME IInv, [Next]_vars
             PROVE  [Queue!Next]_[r \in Ids |-> JobOf(r)]
  OBVIOUS
<1>1. CASE UNCHANGED <<status, delivered>>
  BY <1>1, NoRowMoves DEF JobOf
<1>2. status \in [Ids -> Statuses] /\ delivered \in [Ids -> Nat]
  BY DEF IInv, TypeOK
<1>3. CASE Commit
  <2>1. PICK r \in Ids : r = rows + 1 /\ status[r] = "absent"
    BY <1>3 DEF Commit, IInv, Ids, Transactions, TxInv, TypeOK
  <2>2. JobOf(r) = "absent" /\ JobOf(r)' = "queued"
    BY <1>2, <1>3, <2>1 DEF Commit, JobOf
  <2>3. \A s \in Ids \ {r} : status'[s] = status[s] /\ delivered'[s] = delivered[s]
    BY <1>2, <1>3, <2>1 DEF Commit
  <2>. QED  BY <2>2, <2>3, OneRowMoves
<1>4. ASSUME NEW w \in Workers, Claim(w)
      PROVE  Queue!Next
  <2>1. PICK r \in Ids : FirstDue(r) /\ status' = [status EXCEPT ![r] = "processing"]
    BY <1>4 DEF Claim
  <2>2. delivered' = delivered /\ status[r] = "pending" /\ delivered[r] = 0
    BY <1>4, <2>1 DEF Claim, FirstDue, Due, IInv, RowInv
  <2>3. JobOf(r) = "queued" /\ JobOf(r)' = "held"
    BY <1>2, <2>1, <2>2 DEF JobOf
  <2>4. \A s \in Ids \ {r} : status'[s] = status[s] /\ delivered'[s] = delivered[s]
    BY <1>2, <2>1, <2>2
  <2>. QED  BY <2>3, <2>4, OneRowMoves
<1>5. ASSUME NEW w \in Workers, DispatchOk(w) \/ GiveUp(w) \/ Reschedule(w)
      PROVE  Queue!Next
  <2>1. PICK r \in Ids : r = held[w] /\ status[r] = "processing" /\ delivered[r] = 0
    BY <1>5 DEF DispatchOk, GiveUp, Reschedule, IInv, HoldInv
  <2>2. JobOf(r) = "held"
    BY <2>1 DEF JobOf
  <2>3. \A s \in Ids \ {r} : status'[s] = status[s] /\ delivered'[s] = delivered[s]
    BY <1>2, <1>5, <2>1 DEF DispatchOk, GiveUp, Reschedule
  <2>4. JobOf(r)' \in {"delivered", "dead", "queued"}
    BY <1>2, <1>5, <2>1 DEF DispatchOk, GiveUp, Reschedule, JobOf
  <2>. QED  BY <2>2, <2>3, <2>4, OneRowMoves
<1>6. ASSUME NEW w \in Workers, MarkDone(w)
      PROVE  UNCHANGED [r \in Ids |-> JobOf(r)]
  <2>1. held[w] \in Ids /\ status[held[w]] = "processing" /\ delivered[held[w]] = 1
    BY <1>6 DEF MarkDone, IInv, HoldInv
  <2>2. \A r \in Ids : JobOf(r)' = JobOf(r)
    BY <1>2, <1>6, <2>1 DEF MarkDone, JobOf
  <2>. QED  BY <2>2, NoRowMoves
<1>7. ASSUME NEW w \in Workers, Loop(w)
      PROVE  [Queue!Next]_[r \in Ids |-> JobOf(r)]
  <2>1. CASE Claim(w) \/ DispatchOk(w) \/ GiveUp(w) \/ Reschedule(w)
    BY <1>4, <1>5, <2>1
  <2>2. CASE MarkDone(w)
    BY <1>6, <2>2
  <2>3. CASE Start(w) \/ ClaimNothing(w) \/ DispatchErr(w) \/ SelectAttempts(w) \/ Wake(w)
    BY <1>1, <2>3 DEF Start, ClaimNothing, DispatchErr, SelectAttempts, Wake
  <2>. QED  BY <1>7, <2>1, <2>2, <2>3 DEF Loop, Mark
<1>8. CASE InsertTransfer \/ InsertOutboxRow \/ Tick
  BY <1>1, <1>8 DEF InsertTransfer, InsertOutboxRow, Tick
<1>9. CASE Fault
  BY <1>1, <1>9 DEF Fault, Rollback, DbError, Cancel, Crash
<1>10. CASE UNCHANGED vars
  BY <1>1, <1>10 DEF vars
<1>. QED  BY <1>3, <1>7, <1>8, <1>9, <1>10 DEF Next, Work, Producer

\* The outbox implements JobQueue, whatever interleaves and whatever fails.
THEOREM RefinesJobQueue == Spec => ImplementsJobQueue
<1>1. Init => Queue!Init
  BY DEF Init, Queue!Init, JobOf
<1>. QED  BY <1>1, QueueStep, InductiveInvariant, PTL DEF Spec, ImplementsJobQueue, Queue!Spec
=============================================================================
