------------------------ MODULE MCBalanceProjection ------------------------
(* The constants of BalanceProjection for TLC: two writers race on two        *)
(* streams while one runner follows the log.                                  *)
EXTENDS BalanceProjection

CONSTANTS w1, w2, r1, acct1, acct2

MCWriters == {w1, w2}
MCRunners == {r1}
MCStreams == {acct1, acct2}

\* What a decision depends on: that nothing happened, that the account is open,
\* and its balance.
MCCommands ==
    {[kind |-> k, cents |-> 0] : k \in {"open", "close"}}
        \cup {[kind |-> "withdraw", cents |-> 1]}

\* Two customers of one account that empty it.
MCWithdrawals == {[kind |-> "withdraw", cents |-> 1]}

MCBatches == {<<[kind |-> "opened", cents |-> 0], [kind |-> "deposited", cents |-> 1]>>}
=============================================================================
