------------------------------ MODULE MCOutbox ------------------------------
(* The constants of Outbox for TLC. *)
EXTENDS Outbox, TLC

CONSTANTS w1, w2

MCWorkers == {w1, w2}

\* Two workers started with different caps.
MCMaxAttempts == w1 :> 2 @@ w2 :> 3
=============================================================================
