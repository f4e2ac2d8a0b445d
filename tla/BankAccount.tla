---------------------------- MODULE BankAccount ----------------------------
(* The aggregate of projects/16-event-sourcing: what an event does to an     *)
(* account (apply) and which event a command may cause (handle).             *)
EXTENDS Integers

CONSTANT MaxCents  \* i64::MAX there

ASSUME MaxCentsAssumption == MaxCents \in Nat \ {0}

MinCents == -MaxCents - 1

Fresh == [status |-> "uninitialized", balance |-> 0]

Accounts == [status : {"uninitialized", "open", "closed"}, balance : MinCents..MaxCents]

Saturate(n) == IF n > MaxCents THEN MaxCents ELSE IF n < MinCents THEN MinCents ELSE n

Apply(account, event) ==
    CASE event.kind = "opened"    -> [status |-> "open", balance |-> 0]
      [] event.kind = "deposited" -> [account EXCEPT !.balance = Saturate(@ + event.cents)]
      [] event.kind = "withdrew"  -> [account EXCEPT !.balance = Saturate(@ - event.cents)]
      [] event.kind = "closed"    -> [account EXCEPT !.status = "closed"]

Permits(account, command) ==
    CASE command.kind = "open"     -> account.status = "uninitialized"
      [] command.kind = "deposit"  -> command.cents > 0 /\ account.status = "open"
      [] command.kind = "withdraw" -> /\ command.cents > 0
                                      /\ account.status = "open"
                                      /\ command.cents <= account.balance
      [] command.kind = "close"    -> account.status = "open"

PastTense == [open |-> "opened", deposit |-> "deposited", withdraw |-> "withdrew", close |-> "closed"]

\* handle returns Err or one event, never an empty Ok.
EventOf(command) == [kind |-> PastTense[command.kind], cents |-> command.cents]

Follow(account, events, n) == IF n \in DOMAIN events THEN Apply(account, events[n]) ELSE account

\* replay: Default, then apply, event by event in the order of their numbers
\* (versions, or positions), as far as number last.
Replay(events, last) ==
    LET account[n \in Nat] == IF n = 0 THEN Fresh ELSE Follow(account[n - 1], events, n)
    IN  account[last]
=============================================================================
