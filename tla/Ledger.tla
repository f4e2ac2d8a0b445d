------------------------------- MODULE Ledger -------------------------------
(* What the event store promises to those who send commands: accounts that   *)
(* carry out one permitted command at a time.  No log, no versions, no       *)
(* writers that race each other.                                             *)
EXTENDS BankAccount

CONSTANTS Streams, Commands

VARIABLE account

Init == account = [s \in Streams |-> Fresh]

Execute(s, command) ==
    /\ Permits(account[s], command)
    /\ account' = [account EXCEPT ![s] = Apply(@, EventOf(command))]

Next == \E s \in Streams, command \in Commands : Execute(s, command)

Spec == Init /\ [][Next]_account
=============================================================================
