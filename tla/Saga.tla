---------------------------------- MODULE Saga ----------------------------------
(* The saga orchestrator and its worked example (projects/14-sagas/src/lib.rs).  *)
(* Several `run` calls share one FakeWorld; each holds the world's mutex for one *)
(* step, so a step is one action and sagas interleave between steps. A step of   *)
(* kind "other" is any other `dyn Step`: its execute and its compensate may end  *)
(* in any error. Progress is only in memory: Drop is a crash, or a dropped `run`.*)
EXTENDS Naturals, Sequences, FiniteSets

CONSTANTS Sagas, Users,
          UserOf,        \* the user a saga upgrades
          Steps,         \* the saga's steps, in the order of add_step
          BadAmount,     \* sagas with an amount that is not positive
          MaxAttempts,   \* policy.max_attempts of each saga
          MaxFailures    \* bound on the failures armed for each kind of step

Charge == "charge_card"
Subscribe == "update_subscription_row"
Email == "send_welcome_email"
Kinds == {Charge, Subscribe, Email, "other"}

Last == Len(Steps)
Places == {i \in 1 .. Last : Steps[i] = "other"}

(* upgrade_subscription_saga charges before it subscribes; each of its steps    *)
(* occurs once. Idempotency keys differ, so a charge is named by its saga.      *)
ASSUME SagaAssumption ==
    /\ UserOf \in [Sagas -> Users]
    /\ Steps \in Seq(Kinds) /\ Steps # << >>
    /\ \A i, j \in 1 .. Len(Steps) :
          /\ Steps[i] = Steps[j] /\ Steps[i] # "other" => i = j
          /\ Steps[i] = Charge /\ Steps[j] = Subscribe => i < j
    /\ \E i \in 1 .. Len(Steps) : Steps[i] = Charge
    /\ \E i \in 1 .. Len(Steps) : Steps[i] = Subscribe
    /\ BadAmount \subseteq Sagas
    /\ MaxAttempts \in [Sagas -> Nat]
    /\ MaxFailures \in Nat

VARIABLES pc,        \* where each run is: forward, backward, ok, failed or gone
          idx,       \* the index of the step it executes or compensates
          attempt,   \* try_compensate's attempt
          clean,     \* compensations_clean
          charges,   \* the charge of each saga
          subs,      \* the subscription row of each user
          emailed,   \* the sagas whose mail was sent
          held,      \* the other steps of each saga that are in effect
          armed      \* *_failures_remaining of each kind of step

world == <<charges, subs, emailed, held, armed>>
vars == <<pc, idx, attempt, clean, world>>

Init ==
    /\ pc = [s \in Sagas |-> "forward"]
    /\ idx = [s \in Sagas |-> 1]
    /\ attempt = [s \in Sagas |-> 1]
    /\ clean = [s \in Sagas |-> TRUE]
    /\ charges = [s \in Sagas |-> "none"]
    /\ subs = [u \in Users |-> "none"]
    /\ emailed = {}
    /\ held = [s \in Sagas |-> {}]
    /\ armed \in [{Charge, Subscribe, Email} -> 0 .. MaxFailures]

-----------------------------------------------------------------------------
(* run: the loop over the steps *)

(* The step returned Ok: on to the next one, or `run` returns Ok. *)
Advance(s) ==
    /\ idx' = [idx EXCEPT ![s] = @ + 1]
    /\ pc' = [pc EXCEPT ![s] = IF idx[s] = Last THEN "ok" ELSE @]
    /\ UNCHANGED <<attempt, clean>>

(* The step returned an error: compensate_through the earlier ones. With no      *)
(* earlier step, or no attempt allowed, its loops change nothing and run returns.*)
FailStep(s) ==
    /\ LET undo == idx[s] > 1 /\ MaxAttempts[s] > 0
       IN  /\ pc' = [pc EXCEPT ![s] = IF undo THEN "backward" ELSE "failed"]
           /\ idx' = [idx EXCEPT ![s] = @ - 1]
           /\ clean' = [clean EXCEPT ![s] = undo \/ idx[s] = 1]
    /\ UNCHANGED attempt

Executing(s, kind) == pc[s] = "forward" /\ Steps[idx[s]] = kind

(* An armed failure of the world, taken by whichever saga gets there first. *)
ExecuteArmed(s, kind) ==
    /\ Executing(s, kind) /\ armed[kind] > 0
    /\ kind = Charge => s \notin BadAmount
    /\ armed' = [armed EXCEPT ![kind] = @ - 1]
    /\ FailStep(s)
    /\ UNCHANGED <<charges, subs, emailed, held>>

(* A charge that is not positive is refused before the world is looked at. *)
RefuseAmount(s) ==
    /\ Executing(s, Charge) /\ s \in BadAmount
    /\ FailStep(s)
    /\ UNCHANGED world

ExecuteCharge(s) ==
    /\ Executing(s, Charge) /\ armed[Charge] = 0 /\ s \notin BadAmount
    /\ charges' = [charges EXCEPT ![s] = "live"]
    /\ Advance(s)
    /\ UNCHANGED <<subs, emailed, held, armed>>

ExecuteSubscribe(s) ==
    /\ Executing(s, Subscribe) /\ armed[Subscribe] = 0
    /\ subs' = [subs EXCEPT ![UserOf[s]] = "active"]
    /\ Advance(s)
    /\ UNCHANGED <<charges, emailed, held, armed>>

ExecuteEmail(s) ==
    /\ Executing(s, Email) /\ armed[Email] = 0
    /\ emailed' = emailed \union {s}
    /\ Advance(s)
    /\ UNCHANGED <<charges, subs, held, armed>>

ExecuteOther(s) ==
    /\ Executing(s, "other")
    /\ \/ Advance(s) /\ held' = [held EXCEPT ![s] = @ \union {idx[s]}]
       \/ FailStep(s) /\ UNCHANGED held
    /\ UNCHANGED <<charges, subs, emailed, armed>>

-----------------------------------------------------------------------------
(* compensate_through and try_compensate *)

(* Mutant: the first compensation that is given up ends the rollback. *)
StepBackOrStop(s, ok) ==
    /\ idx' = [idx EXCEPT ![s] = @ - 1]
    /\ pc' = [pc EXCEPT ![s] = IF idx[s] = 1 \/ ~ok THEN "failed" ELSE @]
    /\ attempt' = [attempt EXCEPT ![s] = 1]
    /\ clean' = [clean EXCEPT ![s] = @ /\ ok]

(* On to the step before, or `run` returns StepFailed. A compensation that was   *)
(* given up does not keep the earlier ones from running.                         *)
StepBack(s, ok) ==
    /\ idx' = [idx EXCEPT ![s] = @ - 1]
    /\ pc' = [pc EXCEPT ![s] = IF idx[s] = 1 THEN "failed" ELSE @]
    /\ attempt' = [attempt EXCEPT ![s] = 1]
    /\ clean' = [clean EXCEPT ![s] = @ /\ ok]

Compensating(s, kind) == pc[s] = "backward" /\ Steps[idx[s]] = kind

(* A refund; nothing when the charge is already refunded. *)
CompensateCharge(s) ==
    /\ Compensating(s, Charge)
    /\ charges' = [charges EXCEPT ![s] = IF @ = "live" THEN "refunded" ELSE @]
    /\ StepBack(s, TRUE)
    /\ UNCHANGED <<subs, emailed, held, armed>>

(* The row of the user is made inactive, whoever activated it. *)
CompensateSubscribe(s) ==
    /\ Compensating(s, Subscribe)
    /\ subs' = [subs EXCEPT ![UserOf[s]] = IF @ = "none" THEN @ ELSE "inactive"]
    /\ StepBack(s, TRUE)
    /\ UNCHANGED <<charges, emailed, held, armed>>

(* A mail cannot be unsent. *)
CompensateEmail(s) ==
    /\ Compensating(s, Email)
    /\ StepBack(s, TRUE)
    /\ UNCHANGED world

CompensateOther(s) ==
    /\ Compensating(s, "other")
    /\ StepBack(s, TRUE)
    /\ held' = [held EXCEPT ![s] = @ \ {idx[s]}]
    /\ UNCHANGED <<charges, subs, emailed, armed>>

(* A transient error with attempts left: sleep, try again. *)
Retry(s) ==
    /\ Compensating(s, "other") /\ attempt[s] < MaxAttempts[s]
    /\ attempt' = [attempt EXCEPT ![s] = @ + 1]
    /\ UNCHANGED <<pc, idx, clean, world>>

(* A permanent error, at any attempt, or the last transient one. *)
GiveUp(s) ==
    /\ Compensating(s, "other")
    /\ StepBack(s, FALSE)
    /\ UNCHANGED world

(* The process dies, or the caller drops the future of `run`. *)
Drop(s) ==
    /\ pc[s] \in {"forward", "backward"}
    /\ pc' = [pc EXCEPT ![s] = "gone"]
    /\ UNCHANGED <<idx, attempt, clean, world>>

Forward(s) ==
    \/ \E kind \in {Charge, Subscribe, Email} : ExecuteArmed(s, kind)
    \/ RefuseAmount(s) \/ ExecuteCharge(s) \/ ExecuteSubscribe(s)
    \/ ExecuteEmail(s) \/ ExecuteOther(s)

Backward(s) ==
    \/ CompensateCharge(s) \/ CompensateSubscribe(s) \/ CompensateEmail(s)
    \/ CompensateOther(s) \/ Retry(s) \/ GiveUp(s)

Next == \E s \in Sagas : Forward(s) \/ Backward(s) \/ Drop(s)

(* A run that is polled takes its next step: execute and compensate return. *)
Fairness == \A s \in Sagas : WF_vars(Forward(s) \/ Backward(s))

Spec == Init /\ [][Next]_vars /\ Fairness

-----------------------------------------------------------------------------
(* The variables hold what the code's types allow, and a retry never exceeds    *)
(* max_attempts.                                                                 *)
TypeOK ==
    /\ pc \in [Sagas -> {"forward", "backward", "ok", "failed", "gone"}]
    /\ idx \in [Sagas -> 0 .. Last + 1]
    /\ \A s \in Sagas : pc[s] \in {"forward", "backward"} => idx[s] \in 1 .. Last
    /\ attempt \in [Sagas -> Nat \ {0}]
    /\ \A s \in Sagas : attempt[s] > 1 => attempt[s] <= MaxAttempts[s]
    /\ clean \in [Sagas -> BOOLEAN]
    /\ charges \in [Sagas -> {"none", "live", "refunded"}]
    /\ subs \in [Users -> {"none", "active", "inactive"}]
    /\ emailed \subseteq Sagas
    /\ held \in [Sagas -> SUBSET Places]
    /\ armed \in [{Charge, Subscribe, Email} -> 0 .. MaxFailures]

(* Another saga of the same user has met an error, or was dropped, and may have   *)
(* deactivated the row on its way back.                                          *)
Disturbed(s) ==
    \E t \in Sagas \ {s} :
       /\ UserOf[t] = UserOf[s] /\ MaxAttempts[t] > 0
       /\ pc[t] \in {"backward", "failed", "gone"}

(* A saga that returned Ok has all its effects; the row of its user is active     *)
(* unless another saga of that user was rolled back. One that returned an error  *)
(* has no live charge, even when the compensation of another step was given up,  *)
(* and where its user's row is active another saga of that user has paid for it. *)
(* compensations_clean says exactly whether something was left behind.           *)
NoPartialState ==
    \A s \in Sagas :
       /\ pc[s] = "ok" =>
             /\ charges[s] = "live" /\ held[s] = Places
             /\ Disturbed(s) \/ subs[UserOf[s]] = "active"
             /\ (\E i \in 1 .. Last : Steps[i] = Email) => s \in emailed
       /\ pc[s] = "failed" /\ (clean[s] \/ MaxAttempts[s] > 0) =>
             /\ charges[s] # "live"
             /\ subs[UserOf[s]] = "active" =>
                   \E t \in Sagas \ {s} : UserOf[t] = UserOf[s] /\ charges[t] = "live"
       /\ pc[s] = "failed" /\ MaxAttempts[s] > 0 => (clean[s] <=> held[s] = {})

(* A subscription is never active without a live charge for its user, whatever   *)
(* two sagas of one user, failures and crashes do: compensations run in reverse, *)
(* so the row goes before the charge is refunded.                                *)
ActiveIsPaid ==
    \A u \in Users : subs[u] = "active" =>
       \E s \in Sagas : UserOf[s] = u /\ charges[s] = "live"

(* Effects land together or not at all, but for the row that sagas of one user    *)
(* share.                                                                        *)
AllOrNothing == NoPartialState /\ ActiveIsPaid

(* Every saga returns, unless it is dropped: retries of compensations end. *)
AllReturned == \A s \in Sagas : pc[s] \in {"ok", "failed", "gone"}

-----------------------------------------------------------------------------
(* What the tests say and the code does not do                                   *)

(* "For each saga either: Saga returned Ok -> exactly one live charge AND one     *)
(* active sub" (tests/chaos.rs): a successful upgrade is paid and in force, also *)
(* when its user runs a second one beside it.                                    *)
OkIsInForce ==
    \A s \in Sagas : pc[s] = "ok" => charges[s] = "live" /\ subs[UserOf[s]] = "active"
=============================================================================
