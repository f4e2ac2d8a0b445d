------------------------------- MODULE SagaProofs -------------------------------
(* All of a saga or nothing, for any sagas and users, any steps in the order of  *)
(* the worked example, and any number of attempts and failures.                  *)
EXTENDS Saga, SequenceTheorems, TLAPS

-----------------------------------------------------------------------------
(* The inductive invariant: how far a saga has come, forward or back, says which *)
(* of its effects are in place, step by step.                                    *)

Idx(kind) == CHOOSE i \in 1 .. Last : Steps[i] = kind
ChargeIdx == Idx(Charge)
RowIdx == Idx(Subscribe)

Typed ==
    /\ pc \in [Sagas -> {"forward", "backward", "ok", "failed", "gone"}]
    /\ idx \in [Sagas -> Int]
    /\ clean \in [Sagas -> BOOLEAN]
    /\ charges \in [Sagas -> {"none", "live", "refunded"}]
    /\ subs \in [Users -> {"none", "active", "inactive"}]
    /\ emailed \subseteq Sagas
    /\ held \in [Sagas -> SUBSET Places]

GoingForward(s) ==
    /\ idx[s] \in 1 .. Last
    /\ clean[s]
    /\ held[s] = {i \in Places : i < idx[s]}
    /\ charges[s] = IF ChargeIdx < idx[s] THEN "live" ELSE "none"
    /\ \A i \in 1 .. Last : Steps[i] = Email /\ i < idx[s] => s \in emailed
    /\ RowIdx < idx[s] => Disturbed(s) \/ subs[UserOf[s]] = "active"

GoingBack(s) ==
    /\ idx[s] \in 1 .. Last
    /\ MaxAttempts[s] > 0
    /\ \A i \in Places : i <= idx[s] => i \in held[s]
    /\ clean[s] <=> \A i \in held[s] : i <= idx[s]
    /\ charges[s] = "live" <=> ChargeIdx <= idx[s]

Succeeded(s) ==
    /\ charges[s] = "live" /\ held[s] = Places
    /\ \A i \in 1 .. Last : Steps[i] = Email => s \in emailed
    /\ Disturbed(s) \/ subs[UserOf[s]] = "active"

Failed(s) ==
    /\ clean[s] \/ MaxAttempts[s] > 0 => charges[s] # "live"
    /\ MaxAttempts[s] > 0 => (clean[s] <=> held[s] = {})

Staged ==
    \A s \in Sagas :
        /\ pc[s] = "forward" => GoingForward(s)
        /\ pc[s] = "backward" => GoingBack(s)
        /\ pc[s] = "ok" => Succeeded(s)
        /\ pc[s] = "failed" => Failed(s)

(* A saga that activated its user's row and has not deactivated it since: its    *)
(* charge is live, and is not refunded before the row is.                        *)
Pays(s) ==
    /\ charges[s] = "live"
    /\ pc[s] = "forward" => RowIdx < idx[s]
    /\ pc[s] = "backward" => RowIdx <= idx[s]

ActiveIsBacked ==
    \A u \in Users : subs[u] = "active" => \E s \in Sagas : UserOf[s] = u /\ Pays(s)

IInv == Typed /\ Staged /\ ActiveIsBacked

(* Where the charge and the row are among the steps.                             *)
LEMMA Order ==
    /\ Last \in Nat \ {0}
    /\ ChargeIdx \in 1 .. Last /\ RowIdx \in 1 .. Last /\ ChargeIdx < RowIdx
    /\ \A i \in 1 .. Last : /\ Steps[i] \in Kinds
                            /\ Steps[i] = Charge <=> i = ChargeIdx
                            /\ Steps[i] = Subscribe <=> i = RowIdx
<1>1. Last \in Nat /\ \A i \in 1 .. Last : Steps[i] \in Kinds
  BY SagaAssumption, LenProperties, ElementOfSeq DEF Last
<1>2. ChargeIdx \in 1 .. Last /\ Steps[ChargeIdx] = Charge
  BY SagaAssumption DEF ChargeIdx, Idx, Last
<1>3. RowIdx \in 1 .. Last /\ Steps[RowIdx] = Subscribe
  BY SagaAssumption DEF RowIdx, Idx, Last
<1>4. \A i, j \in 1 .. Last : Steps[i] = Steps[j] /\ Steps[i] # "other" => i = j
  BY SagaAssumption DEF Last
<1>5. ChargeIdx < RowIdx
  BY <1>2, <1>3, SagaAssumption DEF Last
<1>. QED  BY <1>1, <1>2, <1>3, <1>4, <1>5 DEF Charge, Subscribe

LEMMA InitIInv == Init => IInv
<1>. SUFFICES ASSUME Init
              PROVE  IInv
  OBVIOUS
<1>1. Typed
  BY SagaAssumption DEF Init, Typed
<1>2. UserOf \in [Sagas -> Users]
  BY SagaAssumption
<1>3. Staged
  <2>. SUFFICES ASSUME NEW s \in Sagas
                PROVE  pc[s] = "forward" /\ GoingForward(s)
    BY DEF Staged
  <2>1. \A i \in Places : ~(i < 1)
    BY Order DEF Places
  <2>. QED  BY <1>2, <2>1, Order DEF Init, GoingForward
<1>4. ActiveIsBacked
  BY DEF Init, ActiveIsBacked
<1>. QED  BY <1>1, <1>3, <1>4 DEF IInv

-----------------------------------------------------------------------------
(* A step of one saga is seen by the others only in the row of its user, and is   *)
(* to blame for that row once it is on its way back.                             *)
Ended == {"backward", "failed", "gone"}

OnlyOf(s) ==
    \A t \in Sagas \ {s} :
        /\ pc'[t] = pc[t] /\ idx'[t] = idx[t] /\ clean'[t] = clean[t]
        /\ charges'[t] = charges[t] /\ held'[t] = held[t]
        /\ t \in emailed => t \in emailed'

RowOf(s) == \A u \in Users \ {UserOf[s]} : subs'[u] = subs[u]

LEMMA OneSagaMoves ==
    ASSUME IInv, NEW s \in Sagas, Typed', OnlyOf(s), RowOf(s),
           /\ pc'[s] = "forward" => GoingForward(s)'
           /\ pc'[s] = "backward" => GoingBack(s)'
           /\ pc'[s] = "ok" => Succeeded(s)'
           /\ pc'[s] = "failed" => Failed(s)',
           \/ subs'[UserOf[s]] # "active"
           \/ Pays(s)'
           \/ subs'[UserOf[s]] = subs[UserOf[s]] /\ (~Pays(s) \/ Pays(s)'),
           pc[s] \in Ended => pc'[s] \in Ended,
           \/ subs'[UserOf[s]] \in {subs[UserOf[s]], "active"}
           \/ pc'[s] \in Ended /\ MaxAttempts[s] > 0
    PROVE  IInv'
<1>1. UserOf \in [Sagas -> Users]
  BY SagaAssumption
<1>2. ASSUME NEW t \in Sagas, t # s
      PROVE  /\ pc'[t] = "forward" => GoingForward(t)'
             /\ pc'[t] = "backward" => GoingBack(t)'
             /\ pc'[t] = "ok" => Succeeded(t)'
             /\ pc'[t] = "failed" => Failed(t)'
  <2>1. Disturbed(t) => Disturbed(t)'
    BY <1>2 DEF Disturbed, OnlyOf, Ended
  <2>2. subs[UserOf[t]] = "active" => Disturbed(t)' \/ subs'[UserOf[t]] = "active"
    BY <1>1, <1>2 DEF Disturbed, RowOf, Ended
  <2>3. /\ pc'[t] = pc[t] /\ idx'[t] = idx[t] /\ clean'[t] = clean[t]
        /\ charges'[t] = charges[t] /\ held'[t] = held[t]
        /\ t \in emailed => t \in emailed'
    BY <1>2 DEF OnlyOf
  <2>4. pc'[t] = "forward" => GoingForward(t)'
    BY <2>1, <2>2, <2>3 DEF IInv, Staged, GoingForward
  <2>5. pc'[t] = "backward" => GoingBack(t)'
    BY <2>3 DEF IInv, Staged, GoingBack
  <2>6. pc'[t] = "ok" => Succeeded(t)'
    BY <2>1, <2>2, <2>3 DEF IInv, Staged, Succeeded
  <2>7. pc'[t] = "failed" => Failed(t)'
    BY <2>3 DEF IInv, Staged, Failed
  <2>. QED  BY <2>4, <2>5, <2>6, <2>7
<1>3. Staged'
  BY <1>2 DEF Staged
<1>4. \A t \in Sagas \ {s} : Pays(t) => Pays(t)'
  BY DEF OnlyOf, Pays
<1>5. ActiveIsBacked'
  BY <1>1, <1>4 DEF IInv, ActiveIsBacked, RowOf
<1>. QED  BY <1>3, <1>5 DEF IInv

-----------------------------------------------------------------------------
(* The steps of `run`. *)

(* What is common to the steps that go forward. *)
LEMMA Forwarded ==
    ASSUME IInv, NEW s \in Sagas, pc[s] = "forward", Advance(s)
    PROVE  /\ idx[s] \in 1 .. Last /\ idx'[s] = idx[s] + 1 /\ clean'[s] = clean[s]
           /\ pc'[s] = IF idx[s] = Last THEN "ok" ELSE "forward"
           /\ pc' \in [Sagas -> {"forward", "backward", "ok", "failed", "gone"}]
           /\ idx' \in [Sagas -> Int] /\ clean' \in [Sagas -> BOOLEAN]
           /\ \A t \in Sagas \ {s} : pc'[t] = pc[t] /\ idx'[t] = idx[t] /\ clean'[t] = clean[t]
<1>1. idx[s] \in 1 .. Last
  BY DEF IInv, Staged, GoingForward
<1>. QED  BY <1>1, Order DEF IInv, Typed, Advance

(* One step further: what the step put in place, and nothing else. *)
LEMMA ForwardKeeps ==
    ASSUME IInv, NEW s \in Sagas, pc[s] = "forward", Advance(s), Typed', OnlyOf(s), RowOf(s),
           charges'[s] = IF idx[s] = ChargeIdx THEN "live" ELSE charges[s],
           held'[s] = IF Steps[idx[s]] = "other" THEN held[s] \union {idx[s]} ELSE held[s],
           s \in emailed \/ Steps[idx[s]] = Email => s \in emailed',
           subs'[UserOf[s]] = IF idx[s] = RowIdx THEN "active" ELSE subs[UserOf[s]]
    PROVE  IInv'
<1>1. GoingForward(s)
  BY DEF IInv, Staged
<1>2. /\ idx[s] \in 1 .. Last /\ idx'[s] = idx[s] + 1 /\ clean'[s] = clean[s]
      /\ pc'[s] = IF idx[s] = Last THEN "ok" ELSE "forward"
  BY Forwarded
<1>3. \A i \in Places : i \in 1 .. Last /\ Steps[i] = "other"
  BY DEF Places
<1>4. held'[s] = {i \in Places : i < idx'[s]}
  <2>1. idx[s] \in Places <=> Steps[idx[s]] = "other"
    BY <1>2 DEF Places
  <2>2. \A i \in Places : i < idx[s] + 1 <=> i < idx[s] \/ i = idx[s]
    BY <1>2, <1>3, Order
  <2>. QED  BY <1>1, <1>2, <2>1, <2>2 DEF GoingForward
<1>5. charges'[s] = IF ChargeIdx < idx'[s] THEN "live" ELSE "none"
  BY <1>1, <1>2, Order DEF GoingForward
<1>6. \A i \in 1 .. Last : Steps[i] = Email /\ i < idx'[s] => s \in emailed'
  <2>1. \A i \in 1 .. Last : i < idx[s] + 1 => i < idx[s] \/ i = idx[s]
    BY <1>2, Order
  <2>. QED  BY <1>1, <1>2, <2>1 DEF GoingForward
<1>7. RowIdx < idx'[s] => Disturbed(s)' \/ subs'[UserOf[s]] = "active"
  <2>1. Disturbed(s) => Disturbed(s)'
    BY DEF Disturbed, OnlyOf
  <2>. QED  BY <1>1, <1>2, <2>1, Order DEF GoingForward
<1>8. pc'[s] = "forward" => GoingForward(s)'
  BY <1>1, <1>2, <1>4, <1>5, <1>6, <1>7, Order DEF GoingForward
<1>9. pc'[s] = "ok" => Succeeded(s)'
  <2>. SUFFICES ASSUME pc'[s] = "ok"
                PROVE  Succeeded(s)'
    OBVIOUS
  <2>1. idx'[s] = Last + 1
    BY <1>2
  <2>2. held'[s] = Places
    <3>1. \A i \in Places : i < idx'[s]
      BY <1>3, <2>1, Order
    <3>. QED  BY <1>4, <3>1
  <2>. QED  BY <1>5, <1>6, <1>7, <2>1, <2>2, Order DEF Succeeded
<1>10. Pays(s) => Pays(s)'
  BY <1>2, <1>1, <1>5, Order DEF Pays
<1>11. idx[s] = RowIdx => Pays(s)'
  BY <1>2, <1>5, Order DEF Pays
<1>12. pc'[s] \in {"forward", "ok"} /\ pc[s] \notin Ended
  BY <1>2 DEF Ended
<1>. QED  BY <1>8, <1>9, <1>10, <1>11, <1>12, OneSagaMoves

(* A step that failed has put nothing in place. *)
LEMMA FailStepKeeps ==
    ASSUME IInv, NEW s \in Sagas, pc[s] = "forward", FailStep(s),
           UNCHANGED <<charges, subs, emailed, held>>
    PROVE  IInv'
<1>. DEFINE undo == idx[s] > 1 /\ MaxAttempts[s] > 0
<1>1. GoingForward(s) /\ MaxAttempts[s] \in Nat
  BY SagaAssumption DEF IInv, Staged
<1>2. idx[s] \in 1 .. Last /\ idx[s] \in Int
  BY <1>1, Order DEF GoingForward
<1>3. /\ pc' = [pc EXCEPT ![s] = IF undo THEN "backward" ELSE "failed"]
      /\ idx' = [idx EXCEPT ![s] = idx[s] - 1]
      /\ clean' = [clean EXCEPT ![s] = undo \/ idx[s] = 1]
  BY DEF FailStep
<1>4. /\ pc'[s] = IF undo THEN "backward" ELSE "failed"
      /\ idx'[s] = idx[s] - 1
      /\ clean'[s] = (undo \/ idx[s] = 1)
      /\ OnlyOf(s) /\ RowOf(s)
  BY <1>3 DEF IInv, Typed, OnlyOf, RowOf
<1>5. Typed'
  BY <1>2, <1>3 DEF IInv, Typed
<1>6. \A i \in Places : i \in 1 .. Last
  BY DEF Places
<1>7. pc'[s] = "backward" => GoingBack(s)'
  <2>. SUFFICES ASSUME pc'[s] = "backward"
                PROVE  GoingBack(s)'
    OBVIOUS
  <2>1. undo
    BY <1>4
  <2>2. clean'[s]
    BY <1>4, <2>1
  <2>3. idx'[s] \in 1 .. Last /\ \A i \in Places : i <= idx'[s] <=> i < idx[s]
    BY <1>2, <1>4, <1>6, <2>1, Order
  <2>4. (\A i \in Places : i <= idx'[s] => i \in held'[s]) /\ (\A i \in held'[s] : i <= idx'[s])
    BY <1>1, <2>3 DEF GoingForward
  <2>5. charges'[s] = "live" <=> ChargeIdx <= idx'[s]
    BY <1>1, <1>2, <1>4, Order DEF GoingForward
  <2>. QED  BY <2>1, <2>2, <2>3, <2>4, <2>5 DEF GoingBack
<1>8. pc'[s] = "failed" => Failed(s)'
  <2>. SUFFICES ASSUME pc'[s] = "failed"
                PROVE  Failed(s)'
    OBVIOUS
  <2>1. ~undo
    BY <1>4
  <2>2. CASE idx[s] = 1
    <3>1. clean'[s]
      BY <1>4, <2>2
    <3>2. held'[s] = {}
      <4>1. \A i \in Places : ~(i < idx[s])
        BY <1>6, <2>2, Order
      <4>. QED  BY <1>1, <4>1 DEF GoingForward
    <3>3. charges'[s] # "live"
      BY <1>1, <2>2, Order DEF GoingForward
    <3>. QED  BY <3>1, <3>2, <3>3 DEF Failed
  <2>3. CASE idx[s] # 1
    <3>1. ~clean'[s]
      BY <1>4, <2>1, <2>3
    <3>2. ~(MaxAttempts[s] > 0)
      BY <1>2, <2>1, <2>3, Order
    <3>. QED  BY <3>1, <3>2 DEF Failed
  <2>. QED  BY <2>2, <2>3
<1>9. Pays(s) => Pays(s)'
  BY <1>2, <1>4, Order DEF Pays
<1>10. pc'[s] \in {"backward", "failed"} /\ pc[s] \notin Ended
  BY <1>4 DEF Ended
<1>. QED  BY <1>4, <1>5, <1>7, <1>8, <1>9, <1>10, OneSagaMoves

-----------------------------------------------------------------------------
(* The steps of compensate_through: one step back, with the effect of the step   *)
(* taken back or, when its compensation is given up, left in place for good.     *)
LEMMA BackKeeps ==
    ASSUME IInv, NEW s \in Sagas, NEW ok \in BOOLEAN, pc[s] = "backward", StepBack(s, ok),
           Typed', OnlyOf(s), RowOf(s),
           held'[s] = IF ok THEN held[s] \ {idx[s]} ELSE held[s],
           ok \/ Steps[idx[s]] = "other",
           idx[s] = ChargeIdx => charges'[s] # "live",
           idx[s] # ChargeIdx => charges'[s] = charges[s],
           idx[s] = RowIdx => subs'[UserOf[s]] # "active",
           idx[s] # RowIdx => subs'[UserOf[s]] = subs[UserOf[s]]
    PROVE  IInv'
<1>1. GoingBack(s)
  BY DEF IInv, Staged
<1>2. idx[s] \in 1 .. Last /\ idx[s] \in Int
  BY <1>1, Order DEF GoingBack
<1>3. /\ idx'[s] = idx[s] - 1
      /\ pc'[s] = IF idx[s] = 1 THEN "failed" ELSE "backward"
      /\ clean'[s] = (clean[s] /\ ok)
  BY DEF StepBack, IInv, Typed
<1>4. held[s] \subseteq Places /\ \A i \in Places : i \in 1 .. Last
  BY DEF IInv, Typed, Places
<1>5. \A i \in Places : i <= idx'[s] => i \in held'[s]
  BY <1>1, <1>2, <1>3, <1>4, Order DEF GoingBack
<1>6. clean'[s] <=> \A i \in held'[s] : i <= idx'[s]
  <2>1. CASE ok
    <3>1. clean'[s] <=> clean[s]
      BY <1>3, <2>1
    <3>2. \A i \in held[s] : i <= idx[s] <=> i = idx[s] \/ i <= idx'[s]
      BY <1>2, <1>3, <1>4, Order
    <3>3. (\A i \in held[s] : i <= idx[s]) <=> \A i \in held'[s] : i <= idx'[s]
      BY <2>1, <3>2
    <3>. QED  BY <1>1, <3>1, <3>3 DEF GoingBack
  <2>2. CASE ~ok
    <3>1. idx[s] \in Places
      BY <2>2, <1>2 DEF Places
    <3>2. idx[s] \in held'[s]
      BY <3>1, <2>2, <1>1, <1>2 DEF GoingBack
    <3>. QED  BY <2>2, <3>2, <1>2, <1>3
  <2>. QED  BY <2>1, <2>2
<1>7. charges'[s] = "live" <=> ChargeIdx <= idx'[s]
  BY <1>1, <1>2, <1>3, Order DEF GoingBack
<1>8. MaxAttempts[s] > 0
  BY <1>1 DEF GoingBack
<1>9. pc'[s] = "backward" => GoingBack(s)'
  BY <1>1, <1>2, <1>3, <1>5, <1>6, <1>7, Order DEF GoingBack
<1>10. pc'[s] = "failed" => Failed(s)'
  <2>. SUFFICES ASSUME pc'[s] = "failed"
                PROVE  Failed(s)'
    OBVIOUS
  <2>1. idx'[s] = 0
    BY <1>2, <1>3
  <2>2. clean'[s] <=> held'[s] = {}
    <3>1. held'[s] \subseteq Places
      BY DEF Typed
    <3>. QED  BY <1>4, <1>6, <2>1, <3>1, Order
  <2>. QED  BY <1>7, <2>1, <2>2, Order DEF Failed
<1>11. idx[s] # RowIdx /\ Pays(s) => Pays(s)'
  BY <1>2, <1>3, Order DEF Pays
<1>12. pc'[s] \in {"backward", "failed"} /\ pc'[s] \in Ended
  BY <1>3 DEF Ended
<1>. QED  BY <1>8, <1>9, <1>10, <1>11, <1>12, OneSagaMoves

-----------------------------------------------------------------------------
LEMMA RunKeeps ==
    ASSUME IInv, NEW s \in Sagas, Forward(s)
    PROVE  IInv'
<1>. UserOf[s] \in Users
  BY SagaAssumption
<1>1. pc[s] = "forward" /\ idx[s] \in 1 .. Last
  BY DEF IInv, Staged, GoingForward, Forward, Executing, ExecuteArmed, RefuseAmount,
         ExecuteCharge, ExecuteSubscribe, ExecuteEmail, ExecuteOther
<1>2. Steps[idx[s]] = Charge <=> idx[s] = ChargeIdx
  BY <1>1, Order
<1>3. Steps[idx[s]] = Subscribe <=> idx[s] = RowIdx
  BY <1>1, Order
<1>4. ASSUME Advance(s)
      PROVE  /\ pc' \in [Sagas -> {"forward", "backward", "ok", "failed", "gone"}]
             /\ idx' \in [Sagas -> Int] /\ clean' \in [Sagas -> BOOLEAN]
             /\ \A t \in Sagas \ {s} :
                   pc'[t] = pc[t] /\ idx'[t] = idx[t] /\ clean'[t] = clean[t]
  BY <1>1, <1>4, Forwarded
<1>5. CASE ExecuteCharge(s)
  <2>1. /\ Advance(s) /\ Steps[idx[s]] = Charge /\ UNCHANGED <<subs, emailed, held>>
        /\ charges' = [charges EXCEPT ![s] = "live"]
    BY <1>5 DEF ExecuteCharge, Executing
  <2>2. Typed' /\ OnlyOf(s) /\ RowOf(s)
    BY <1>4, <2>1 DEF IInv, Typed, OnlyOf, RowOf
  <2>3. charges'[s] = "live"
    BY <2>1 DEF IInv, Typed
  <2>. QED  BY <1>1, <1>2, <1>3, <2>1, <2>2, <2>3, ForwardKeeps DEF Charge, Subscribe, Email
<1>6. CASE ExecuteSubscribe(s)
  <2>1. /\ Advance(s) /\ Steps[idx[s]] = Subscribe /\ UNCHANGED <<charges, emailed, held>>
        /\ subs' = [subs EXCEPT ![UserOf[s]] = "active"]
    BY <1>6 DEF ExecuteSubscribe, Executing
  <2>2. Typed' /\ OnlyOf(s) /\ RowOf(s)
    BY <1>4, <2>1 DEF IInv, Typed, OnlyOf, RowOf
  <2>3. subs'[UserOf[s]] = "active"
    BY <2>1 DEF IInv, Typed
  <2>. QED  BY <1>1, <1>2, <1>3, <2>1, <2>2, <2>3, ForwardKeeps DEF Charge, Subscribe, Email
<1>7. CASE ExecuteEmail(s)
  <2>1. /\ Advance(s) /\ Steps[idx[s]] = Email /\ UNCHANGED <<charges, subs, held>>
        /\ emailed' = emailed \union {s}
    BY <1>7 DEF ExecuteEmail, Executing
  <2>2. Typed' /\ OnlyOf(s) /\ RowOf(s)
    BY <1>4, <2>1 DEF IInv, Typed, OnlyOf, RowOf
  <2>. QED  BY <1>1, <1>2, <1>3, <2>1, <2>2, ForwardKeeps DEF Charge, Subscribe, Email
<1>8. ASSUME Executing(s, "other"), Advance(s), UNCHANGED <<charges, subs, emailed>>,
             held' = [held EXCEPT ![s] = @ \union {idx[s]}]
      PROVE  IInv'
  <2>1. Steps[idx[s]] = "other" /\ idx[s] \in Places
    BY <1>1, <1>8 DEF Executing, Places
  <2>2. Typed' /\ OnlyOf(s) /\ RowOf(s) /\ held'[s] = held[s] \union {idx[s]}
    BY <1>4, <1>8, <2>1 DEF IInv, Typed, OnlyOf, RowOf
  <2>. QED  BY <1>1, <1>2, <1>3, <1>8, <2>1, <2>2, ForwardKeeps DEF Charge, Subscribe, Email
<1>9. ASSUME FailStep(s), UNCHANGED <<charges, subs, emailed, held>>
      PROVE  IInv'
  BY <1>1, <1>9, FailStepKeeps
<1>. QED
  BY <1>5, <1>6, <1>7, <1>8, <1>9 DEF Forward, ExecuteArmed, RefuseAmount, ExecuteOther, world

LEMMA RollbackKeeps ==
    ASSUME IInv, NEW s \in Sagas, Backward(s)
    PROVE  IInv'
<1>. UserOf[s] \in Users
  BY SagaAssumption
<1>1. pc[s] = "backward" /\ idx[s] \in 1 .. Last
  BY DEF IInv, Staged, GoingBack, Backward, Compensating, CompensateCharge,
         CompensateSubscribe, CompensateEmail, CompensateOther, Retry, GiveUp
<1>2. idx[s] \in Places <=> Steps[idx[s]] = "other"
  BY <1>1 DEF Places
<1>3. (Steps[idx[s]] = Charge <=> idx[s] = ChargeIdx) /\ (Steps[idx[s]] = Subscribe <=> idx[s] = RowIdx)
  BY <1>1, Order
<1>4. held[s] \subseteq Places
  BY DEF IInv, Typed
<1>5. ASSUME NEW ok \in BOOLEAN, StepBack(s, ok)
      PROVE  /\ pc' \in [Sagas -> {"forward", "backward", "ok", "failed", "gone"}]
             /\ idx' \in [Sagas -> Int] /\ clean' \in [Sagas -> BOOLEAN]
             /\ \A t \in Sagas \ {s} :
                   pc'[t] = pc[t] /\ idx'[t] = idx[t] /\ clean'[t] = clean[t]
  BY <1>1, <1>5, Order DEF IInv, Typed, StepBack
<1>6. CASE CompensateCharge(s)
  <2>1. /\ StepBack(s, TRUE) /\ Steps[idx[s]] = Charge /\ UNCHANGED <<subs, emailed, held>>
        /\ charges' = [charges EXCEPT ![s] = IF @ = "live" THEN "refunded" ELSE @]
    BY <1>6 DEF CompensateCharge, Compensating
  <2>2. Typed' /\ OnlyOf(s) /\ RowOf(s) /\ charges'[s] # "live"
    BY <1>5, <2>1 DEF IInv, Typed, OnlyOf, RowOf
  <2>3. held'[s] = held[s] \ {idx[s]}
    BY <1>2, <1>4, <2>1 DEF Charge
  <2>. QED  BY <1>1, <1>3, <2>1, <2>2, <2>3, BackKeeps DEF Charge, Subscribe
<1>7. CASE CompensateSubscribe(s)
  <2>1. /\ StepBack(s, TRUE) /\ Steps[idx[s]] = Subscribe /\ UNCHANGED <<charges, emailed, held>>
        /\ subs' = [subs EXCEPT ![UserOf[s]] = IF @ = "none" THEN @ ELSE "inactive"]
    BY <1>7 DEF CompensateSubscribe, Compensating
  <2>2. Typed' /\ OnlyOf(s) /\ RowOf(s) /\ subs'[UserOf[s]] # "active"
    BY <1>5, <2>1 DEF IInv, Typed, OnlyOf, RowOf
  <2>3. held'[s] = held[s] \ {idx[s]}
    BY <1>2, <1>4, <2>1 DEF Subscribe
  <2>. QED  BY <1>1, <1>3, <2>1, <2>2, <2>3, BackKeeps DEF Charge, Subscribe
<1>8. CASE CompensateEmail(s)
  <2>1. StepBack(s, TRUE) /\ Steps[idx[s]] = Email /\ UNCHANGED <<charges, subs, emailed, held>>
    BY <1>8 DEF CompensateEmail, Compensating, world
  <2>2. Typed' /\ OnlyOf(s) /\ RowOf(s)
    BY <1>5, <2>1 DEF IInv, Typed, OnlyOf, RowOf
  <2>3. held'[s] = held[s] \ {idx[s]}
    BY <1>2, <1>4, <2>1 DEF Email
  <2>. QED  BY <1>1, <1>3, <2>1, <2>2, <2>3, BackKeeps DEF Charge, Subscribe, Email
<1>9. CASE CompensateOther(s)
  <2>1. /\ StepBack(s, TRUE) /\ Steps[idx[s]] = "other" /\ UNCHANGED <<charges, subs, emailed>>
        /\ held' = [held EXCEPT ![s] = @ \ {idx[s]}]
    BY <1>9 DEF CompensateOther, Compensating
  <2>2. Typed' /\ OnlyOf(s) /\ RowOf(s) /\ held'[s] = held[s] \ {idx[s]}
    BY <1>5, <2>1 DEF IInv, Typed, OnlyOf, RowOf
  <2>. QED  BY <1>1, <1>3, <2>1, <2>2, BackKeeps DEF Charge, Subscribe
<1>10. CASE GiveUp(s)
  <2>1. /\ StepBack(s, FALSE) /\ Steps[idx[s]] = "other"
        /\ UNCHANGED <<charges, subs, emailed, held>>
    BY <1>10 DEF GiveUp, Compensating, world
  <2>2. Typed' /\ OnlyOf(s) /\ RowOf(s)
    BY <1>5, <2>1 DEF IInv, Typed, OnlyOf, RowOf
  <2>. QED  BY <1>1, <1>3, <2>1, <2>2, BackKeeps DEF Charge, Subscribe
<1>11. CASE Retry(s)
  <2>1. UNCHANGED <<pc, idx, clean, charges, subs, emailed, held>>
    BY <1>11 DEF Retry, world
  <2>2. Typed' /\ OnlyOf(s) /\ RowOf(s) /\ Pays(s)' = Pays(s)
    BY <2>1 DEF IInv, Typed, OnlyOf, RowOf, Pays
  <2>3. GoingBack(s)'
    BY <1>1, <2>1 DEF IInv, Staged, GoingBack
  <2>. QED  BY <1>1, <2>1, <2>2, <2>3, OneSagaMoves
<1>. QED  BY <1>6, <1>7, <1>8, <1>9, <1>10, <1>11 DEF Backward

LEMMA NextKeeps ==
    ASSUME IInv, [Next]_vars
    PROVE  IInv'
<1>1. CASE UNCHANGED vars
  BY <1>1 DEF IInv, Typed, Staged, ActiveIsBacked, GoingForward, GoingBack, Succeeded, Failed,
              Pays, Disturbed, vars, world
<1>2. ASSUME NEW s \in Sagas, Drop(s)
      PROVE  IInv'
  <2>1. /\ pc' = [pc EXCEPT ![s] = "gone"]
        /\ UNCHANGED <<idx, clean, charges, subs, emailed, held>>
    BY <1>2 DEF Drop, world
  <2>2. Typed' /\ OnlyOf(s) /\ RowOf(s) /\ pc'[s] = "gone"
    BY <2>1 DEF IInv, Typed, OnlyOf, RowOf
  <2>3. Pays(s) => Pays(s)'
    BY <2>1, <2>2 DEF Pays
  <2>. QED  BY <2>1, <2>2, <2>3, OneSagaMoves DEF Ended
<1>. QED  BY <1>1, <1>2, RunKeeps, RollbackKeeps DEF Next

-----------------------------------------------------------------------------
(* The invariant the theorem below follows from holds in every reachable state.  *)
THEOREM InductiveInvariant == Spec => []IInv
<1>1. IInv /\ [Next]_vars => IInv'
  BY NextKeeps
<1>. QED  BY <1>1, InitIInv, PTL DEF Spec

(* A saga that returns Ok is paid, mailed and, unless another saga of the same    *)
(* user was rolled back, in force; one that returns an error has refunded its    *)
(* charge and left nothing but what compensations_clean owns up to; and no       *)
(* subscription is active that nobody pays for, whatever sagas of one user,      *)
(* failures and crashes do.                                                      *)
THEOREM AllOrNothingHolds == Spec => []AllOrNothing
<1>1. IInv => AllOrNothing
  <2>. SUFFICES ASSUME IInv
                PROVE  NoPartialState /\ ActiveIsPaid
    BY DEF AllOrNothing
  <2>1. ASSUME NEW s \in Sagas, charges[s] # "live", subs[UserOf[s]] = "active"
        PROVE  \E t \in Sagas \ {s} : UserOf[t] = UserOf[s] /\ charges[t] = "live"
    <3>1. UserOf[s] \in Users
      BY SagaAssumption
    <3>. QED  BY <2>1, <3>1 DEF IInv, ActiveIsBacked, Pays
  <2>2. NoPartialState
    BY <2>1 DEF IInv, Staged, Succeeded, Failed, NoPartialState
  <2>3. ActiveIsPaid
    BY DEF IInv, ActiveIsBacked, Pays, ActiveIsPaid
  <2>. QED  BY <2>2, <2>3
<1>. QED  BY <1>1, InductiveInvariant, PTL
-----------------------------------------------------------------------------
(* The types are inductive by themselves: where the runs are, and the world they *)
(* share.                                                                        *)

RunsTyped ==
    /\ pc \in [Sagas -> {"forward", "backward", "ok", "failed", "gone"}]
    /\ idx \in [Sagas -> 0 .. Last + 1]
    /\ \A s \in Sagas : pc[s] \in {"forward", "backward"} => idx[s] \in 1 .. Last
    /\ attempt \in [Sagas -> Nat \ {0}]
    /\ \A s \in Sagas : attempt[s] > 1 => attempt[s] <= MaxAttempts[s]
    /\ clean \in [Sagas -> BOOLEAN]

WorldTyped ==
    /\ charges \in [Sagas -> {"none", "live", "refunded"}]
    /\ subs \in [Users -> {"none", "active", "inactive"}]
    /\ emailed \subseteq Sagas
    /\ held \in [Sagas -> SUBSET Places]
    /\ armed \in [{Charge, Subscribe, Email} -> 0 .. MaxFailures]

LEMMA TypeParts == TypeOK <=> RunsTyped /\ WorldTyped
BY DEF TypeOK, RunsTyped, WorldTyped

LEMMA RunsMove ==
    ASSUME RunsTyped, NEW s \in Sagas, NEW ok \in BOOLEAN,
           \/ pc[s] = "forward" /\ (Advance(s) \/ FailStep(s))
           \/ pc[s] = "backward" /\ StepBack(s, ok)
    PROVE  RunsTyped'
<1>1. Last \in Nat /\ idx[s] \in 1 .. Last
  BY Order DEF RunsTyped
<1>2. ASSUME NEW i \in 0 .. Last + 1, idx' = [idx EXCEPT ![s] = i],
             NEW p \in {"forward", "backward", "ok", "failed"}, pc' = [pc EXCEPT ![s] = p],
             p \in {"forward", "backward"} => i \in 1 .. Last,
             attempt' \in {attempt, [attempt EXCEPT ![s] = 1]},
             NEW b \in BOOLEAN, clean' = [clean EXCEPT ![s] = b]
      PROVE  RunsTyped'
  <2>1. /\ attempt' \in [Sagas -> Nat \ {0}]
        /\ \A t \in Sagas : attempt'[t] > 1 => attempt'[t] <= MaxAttempts[t]
    BY <1>2 DEF RunsTyped
  <2>2. \A t \in Sagas : pc'[t] \in {"forward", "backward"} => idx'[t] \in 1 .. Last
    BY <1>2 DEF RunsTyped
  <2>. QED  BY <1>2, <2>1, <2>2 DEF RunsTyped
<1>3. CASE pc[s] = "forward" /\ Advance(s)
  <2>. DEFINE p == IF idx[s] = Last THEN "ok" ELSE pc[s]
  <2>1. /\ idx[s] + 1 \in 0 .. Last + 1 /\ p \in {"forward", "ok"}
        /\ p = "forward" => idx[s] + 1 \in 1 .. Last
    BY <1>1, <1>3
  <2>2. clean[s] \in BOOLEAN /\ clean' = [clean EXCEPT ![s] = clean[s]]
    BY <1>3 DEF Advance, RunsTyped
  <2>. QED  BY <1>2, <1>3, <2>1, <2>2 DEF Advance
<1>4. CASE pc[s] = "forward" /\ FailStep(s)
  <2>. DEFINE undo == idx[s] > 1 /\ MaxAttempts[s] > 0
  <2>1. idx[s] - 1 \in 0 .. Last + 1 /\ (undo => idx[s] - 1 \in 1 .. Last)
    BY <1>1
  <2>2. /\ pc' = [pc EXCEPT ![s] = IF undo THEN "backward" ELSE "failed"]
        /\ idx' = [idx EXCEPT ![s] = idx[s] - 1]
        /\ clean' = [clean EXCEPT ![s] = undo \/ idx[s] = 1] /\ attempt' = attempt
    BY <1>4 DEF FailStep
  <2>3. (undo \/ idx[s] = 1) \in BOOLEAN
    OBVIOUS
  <2>. HIDE DEF undo
  <2>. QED  BY <1>2, <2>1, <2>2, <2>3
<1>5. CASE pc[s] = "backward" /\ StepBack(s, ok)
  <2>. DEFINE p == IF idx[s] = 1 THEN "failed" ELSE pc[s]
  <2>1. /\ idx[s] - 1 \in 0 .. Last + 1 /\ p \in {"backward", "failed"}
        /\ p = "backward" => idx[s] - 1 \in 1 .. Last
    BY <1>1, <1>5
  <2>2. (clean[s] /\ ok) \in BOOLEAN
    OBVIOUS
  <2>. QED  BY <1>2, <1>5, <2>1, <2>2 DEF StepBack
<1>. QED  BY <1>3, <1>4, <1>5

LEMMA TypeNextKeeps ==
    ASSUME TypeOK, [Next]_vars
    PROVE  TypeOK'
<1>1. RunsTyped /\ WorldTyped
  BY TypeParts
<1>2. UserOf \in [Sagas -> Users]
  BY SagaAssumption
<1>3. ASSUME NEW s \in Sagas, Forward(s)
      PROVE  RunsTyped' /\ WorldTyped'
  <2>1. pc[s] = "forward" /\ (Advance(s) \/ FailStep(s))
    BY <1>3 DEF Forward, ExecuteArmed, RefuseAmount, ExecuteCharge, ExecuteSubscribe,
                ExecuteEmail, ExecuteOther, Executing
  <2>2. WorldTyped'
    <3>1. CASE \E kind \in {Charge, Subscribe, Email} : ExecuteArmed(s, kind)
      <4>1. PICK kind \in {Charge, Subscribe, Email} :
               /\ armed[kind] > 0 /\ armed' = [armed EXCEPT ![kind] = armed[kind] - 1]
               /\ UNCHANGED <<charges, subs, emailed, held>>
        BY <3>1 DEF ExecuteArmed
      <4>2. armed[kind] - 1 \in 0 .. MaxFailures
        BY <1>1, <4>1, SagaAssumption DEF WorldTyped
      <4>. QED  BY <1>1, <4>1, <4>2 DEF WorldTyped
    <3>2. CASE RefuseAmount(s) \/ ExecuteCharge(s) \/ ExecuteSubscribe(s) \/ ExecuteEmail(s)
      BY <1>1, <1>2, <3>2 DEF WorldTyped, RefuseAmount, ExecuteCharge, ExecuteSubscribe,
                              ExecuteEmail, world
    <3>3. CASE ExecuteOther(s)
      <4>1. idx[s] \in Places
        BY <1>1, <3>3 DEF RunsTyped, ExecuteOther, Executing, Places
      <4>. QED  BY <1>1, <3>3, <4>1 DEF WorldTyped, ExecuteOther
    <3>. QED  BY <1>3, <3>1, <3>2, <3>3 DEF Forward
  <2>. QED  BY <1>1, <2>1, <2>2, RunsMove
<1>4. ASSUME NEW s \in Sagas, Backward(s), ~Retry(s)
      PROVE  RunsTyped' /\ WorldTyped'
  <2>1. pc[s] = "backward" /\ \E ok \in BOOLEAN : StepBack(s, ok)
    BY <1>4 DEF Backward, CompensateCharge, CompensateSubscribe, CompensateEmail,
                CompensateOther, GiveUp, Compensating
  <2>2. WorldTyped'
    BY <1>1, <1>2, <1>4 DEF WorldTyped, Backward, CompensateCharge, CompensateSubscribe,
                            CompensateEmail, CompensateOther, GiveUp, world
  <2>. QED  BY <1>1, <2>1, <2>2, RunsMove
<1>5. ASSUME NEW s \in Sagas, Retry(s)
      PROVE  RunsTyped' /\ WorldTyped'
  <2>1. attempt[s] \in Nat \ {0} /\ MaxAttempts[s] \in Nat /\ attempt[s] < MaxAttempts[s]
    BY <1>1, <1>5, SagaAssumption DEF Retry, RunsTyped
  <2>2. /\ attempt' \in [Sagas -> Nat \ {0}]
        /\ \A t \in Sagas : attempt'[t] > 1 => attempt'[t] <= MaxAttempts[t]
    BY <1>1, <1>5, <2>1 DEF Retry, RunsTyped
  <2>. QED  BY <1>1, <1>5, <2>2 DEF Retry, RunsTyped, WorldTyped, world
<1>6. ASSUME NEW s \in Sagas, Drop(s)
      PROVE  RunsTyped' /\ WorldTyped'
  BY <1>1, <1>6 DEF Drop, RunsTyped, WorldTyped, world
<1>7. CASE UNCHANGED vars
  BY <1>1, <1>7 DEF vars, world, RunsTyped, WorldTyped, TypeOK
<1>. QED  BY <1>3, <1>4, <1>5, <1>6, <1>7 DEF Next, TypeOK, RunsTyped, WorldTyped

LEMMA TypeInitially == Init => TypeOK
BY Order, SagaAssumption DEF Init, TypeOK

(* Every variable keeps its type: a compensation is never tried more often than  *)
(* its policy allows, and a run stays within its steps.                          *)
THEOREM TypeCorrect == Spec => []TypeOK
<1>1. TypeOK /\ [Next]_vars => TypeOK'
  BY TypeNextKeeps
<1>. QED  BY <1>1, TypeInitially, PTL DEF Spec
=============================================================================
