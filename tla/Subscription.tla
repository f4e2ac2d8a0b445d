---------------------------- MODULE Subscription ----------------------------
(***************************************************************************)
(* EventStore::subscribe of projects/16-event-sourcing: a task polls the   *)
(* log behind a checkpoint of its own and feeds a bounded channel.  A row  *)
(* that does not decode (the store writes none; somebody else did) is      *)
(* skipped, and does not move the checkpoint.                              *)
(***************************************************************************)
EXTENDS Naturals, Sequences

CONSTANTS
    FromPosition,
    PollBatch,     \* batch_size
    Capacity,      \* of the mpsc channel: 64
    MaxRows        \* bound: the rows of the log

ASSUME SubscriptionAssumption ==
    /\ MaxRows \in Nat /\ FromPosition \in 0..MaxRows
    /\ Capacity \in Nat /\ PollBatch \in Nat \ {0}

VARIABLES
    rows,      \* table events: whether each row decodes
    mark,      \* the task's local checkpoint
    batch,     \* the positions of its batch still to be sent
    channel,
    received,  \* what the consumer took from the stream
    stream     \* open, dropped by the consumer, or stopped with its task

subVars == <<rows, mark, batch, channel, received, stream>>

SubTypeOK ==
    /\ rows \in Seq({"event", "damaged"})
    /\ mark \in 0..MaxRows
    /\ batch \in Seq(1..MaxRows)
    /\ channel \in Seq(1..MaxRows) /\ Len(channel) <= Capacity
    /\ received \in Seq(1..MaxRows)
    /\ stream \in {"open", "dropped", "stopped"}

SubInit ==
    /\ rows = <<>>
    /\ mark = FromPosition
    /\ batch = <<>>
    /\ channel = <<>>
    /\ received = <<>>
    /\ stream = "open"

-----------------------------------------------------------------------------
\* Writers (external to the subscription) append.
AppendRow(kind) ==
    /\ Len(rows) < MaxRows
    /\ rows' = Append(rows, kind)
    /\ UNCHANGED <<mark, batch, channel, received, stream>>

\* SELECT ... WHERE position > ? ORDER BY position ASC
Behind == mark + 1 .. Len(rows)

\* LIMIT ?; a failed poll or an empty batch changes nothing but the time.
PollRows ==
    /\ stream # "stopped" /\ batch = <<>> /\ Behind # {}
    /\ LET size == IF mark + PollBatch <= Len(rows) THEN PollBatch ELSE Len(rows) - mark
       IN  batch' = [i \in 1..size |-> mark + i]
    /\ UNCHANGED <<rows, mark, channel, received, stream>>

\* Mutant: a row that does not decode ends the batch.
SkipBatch ==
    /\ stream # "stopped" /\ batch # <<>> /\ rows[Head(batch)] = "damaged"
    /\ batch' = <<>>
    /\ UNCHANGED <<rows, mark, channel, received, stream>>

\* continue
Skip ==
    /\ stream # "stopped" /\ batch # <<>> /\ rows[Head(batch)] = "damaged"
    /\ batch' = Tail(batch)
    /\ UNCHANGED <<rows, mark, channel, received, stream>>

\* The checkpoint moves, then the send waits for room in the channel.
SendRow ==
    /\ stream = "open" /\ batch # <<>> /\ rows[Head(batch)] = "event"
    /\ Len(channel) < Capacity
    /\ mark' = Head(batch)
    /\ batch' = Tail(batch)
    /\ channel' = Append(channel, Head(batch))
    /\ UNCHANGED <<rows, received, stream>>

\* The send finds the receiver gone: only then does the task return.
StopTask ==
    /\ stream = "dropped" /\ batch # <<>> /\ rows[Head(batch)] = "event"
    /\ mark' = Head(batch)
    /\ batch' = <<>>
    /\ stream' = "stopped"
    /\ UNCHANGED <<rows, channel, received>>

ReceiveRow ==
    /\ stream = "open" /\ channel # <<>>
    /\ received' = Append(received, Head(channel))
    /\ channel' = Tail(channel)
    /\ UNCHANGED <<rows, mark, batch, stream>>

DropStream ==
    /\ stream = "open"
    /\ stream' = "dropped"
    /\ channel' = <<>>
    /\ UNCHANGED <<rows, mark, batch, received>>

-----------------------------------------------------------------------------
Task == PollRows \/ Skip \/ SendRow \/ StopTask

SubNext == Task \/ ReceiveRow \/ DropStream \/ \E kind \in {"event", "damaged"} : AppendRow(kind)

\* The executor runs the task, and the consumer goes on reading.
SubFairness == WF_subVars(Task) /\ WF_subVars(ReceiveRow)

SubSpec == SubInit /\ [][SubNext]_subVars /\ SubFairness

-----------------------------------------------------------------------------
Readable == SelectSeq([i \in DOMAIN rows |-> i], LAMBDA i : i > FromPosition /\ rows[i] = "event")

WithoutGap(s) ==
    /\ \A i \in DOMAIN s : s[i] \in FromPosition + 1 .. Len(rows)
    /\ \A i, j \in DOMAIN s : i < j => s[i] < s[j]
    /\ \A i \in DOMAIN s : \A p \in FromPosition + 1 .. s[i] :
          rows[p] = "event" <=> \E j \in 1..i : s[j] = p

\* What the consumer has taken from the stream so far is in the order of the log
\* and has no gap: up to each row it got, it got every row that decodes, and it
\* never got one twice, one that does not decode or one before its start.
SeenWithoutGap == WithoutGap(received)

\* The next batch has no row that decodes: the checkpoint stays, and each poll
\* reads the same batch again.
Stalled ==
    /\ mark + PollBatch <= Len(rows)
    /\ \A i \in mark + 1 .. mark + PollBatch : rows[i] = "damaged"

\* A subscriber that keeps its stream gets every row that decodes, once and in
\* the order of the log, full channels and damaged rows in between
\* notwithstanding, unless the task has come to a batch of nothing else.
SeesAllUnlessStalled == <>[](stream = "open" => received = Readable \/ Stalled)

-----------------------------------------------------------------------------
(* What the documentation says and the code does not do *)

\* "emits each new row": every row that decodes, also behind a batch of rows
\* that do not.
SubscriberSeesAll == <>[](stream = "open" => received = Readable)
=============================================================================
