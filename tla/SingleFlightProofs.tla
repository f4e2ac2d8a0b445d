------------------------- MODULE SingleFlightProofs -------------------------
(***************************************************************************)
(* The safety properties of SingleFlight, for any number of callers and    *)
(* versions, from one inductive invariant.                                 *)
(***************************************************************************)
EXTENDS SingleFlight, TLAPS

Owning == {"computing", "computed", "setting", "publishing"}

\* A call that began to compute does nothing else: it never waits, it has the
\* value from compute() until it returns it, and it returns Ok only after it
\* has sent that value.
OwnerInv ==
    /\ \A p \in Callers : stage[p] \in Owning => p \in computed
    /\ \A p \in computed :
          /\ stage[p] \in Owning \cup Dropped
          /\ peer[p] = Empty
          /\ stage[p] = "computing" => value[p] = Empty
          /\ stage[p] = "computed" /\ value[p] = Empty => p \in failed
          /\ stage[p] \in {"setting", "publishing"} => value[p] # Empty
          /\ stage[p] = "err" => p \in failed
          /\ stage[p] = "ok" => sent[p] # Empty
    /\ \A p \in Callers :
          /\ stage[p] \in {"start", "missed"} => value[p] = Empty /\ peer[p] = Empty
          /\ sent[p] # Empty => sent[p] = value[p] /\ stage[p] = "ok" /\ p \in computed
    /\ slot # Empty => slot \in computed

\* A call waits on a call that began to compute, and takes the fallback only
\* when that one has ended without a value.
WaiterInv ==
    \A c \in Callers :
        /\ peer[c] # Empty => peer[c] \in computed
        /\ stage[c] \in {"waiting", "fallback"} => peer[c] # Empty
        /\ stage[c] = "fallback" => stage[peer[c]] \in {"err", "gone"}
        /\ stage[c] = "ok" /\ peer[c] # Empty =>
              \/ stage[peer[c]] = "ok" /\ value[c] = value[peer[c]]
              \/ stage[peer[c]] \in {"err", "gone"}
        /\ stage[c] = "err" =>
              c \in failed \/ (peer[c] # Empty /\ stage[peer[c]] \in {"err", "gone"})

FlightInv == FlightTypeOK /\ SlotHasComputation /\ OwnerInv /\ WaiterInv
-----------------------------------------------------------------------------
USE EmptyAssumption, MaxVersionAssumption
USE DEF MoveTo, Return, shared, locals, history, Versions, FlightPlaces, Suspended,
        Returned, Dropped, Owning

\* No call has begun.
LEMMA FlightInitially == FlightInit => FlightInv
  BY DEF FlightInv, FlightInit, OwnerInv, SlotHasComputation, FlightTypeOK, WaiterInv

\* Every step of a call, every failure and every change of the environment
\* preserves the invariant.
LEMMA FlightNextKeeps == FlightInv /\ [FlightNext]_flightVars => FlightInv'
<1>. SUFFICES ASSUME FlightInv, [FlightNext]_flightVars PROVE FlightInv'
  OBVIOUS
<1>1. ASSUME NEW c \in Callers, GetHit(c) PROVE FlightInv'
  <2>1. FlightTypeOK'
    BY <1>1 DEF GetHit, FlightInv, FlightTypeOK
  <2>2. SlotHasComputation'
    BY <1>1 DEF GetHit, FlightInv, SlotHasComputation
  <2>3. OwnerInv'
    BY <1>1 DEF GetHit, FlightInv, OwnerInv, FlightTypeOK
  <2>4. WaiterInv'
    BY <1>1 DEF GetHit, FlightInv, OwnerInv, WaiterInv
  <2>. QED  BY <2>1, <2>2, <2>3, <2>4 DEF FlightInv
<1>2. ASSUME NEW c \in Callers, GetMiss(c) PROVE FlightInv'
  <2>1. FlightTypeOK'
    BY <1>2 DEF GetMiss, FlightInv, FlightTypeOK
  <2>2. SlotHasComputation'
    BY <1>2 DEF GetMiss, FlightInv, SlotHasComputation
  <2>3. OwnerInv'
    BY <1>2 DEF GetMiss, FlightInv, OwnerInv
  <2>4. WaiterInv'
    BY <1>2 DEF GetMiss, FlightInv, WaiterInv
  <2>. QED  BY <2>1, <2>2, <2>3, <2>4 DEF FlightInv
<1>3. ASSUME NEW c \in Callers, ClaimSlot(c) PROVE FlightInv'
  <2>1. FlightTypeOK'
    BY <1>3 DEF ClaimSlot, FlightInv, FlightTypeOK
  <2>2. SlotHasComputation'
    BY <1>3 DEF ClaimSlot, FlightInv, SlotHasComputation, FlightTypeOK
  <2>3. OwnerInv'
    BY <1>3 DEF ClaimSlot, FlightInv, OwnerInv, FlightTypeOK
  <2>4. WaiterInv'
    BY <1>3 DEF ClaimSlot, FlightInv, WaiterInv
  <2>. QED  BY <2>1, <2>2, <2>3, <2>4 DEF FlightInv
<1>4. ASSUME NEW c \in Callers, JoinWaiters(c) PROVE FlightInv'
  <2>1. FlightTypeOK'
    BY <1>4 DEF FlightInv, JoinWaiters, FlightTypeOK
  <2>2. SlotHasComputation'
    BY <1>4 DEF FlightInv, JoinWaiters, SlotHasComputation
  <2>3. OwnerInv'
    BY <1>4 DEF FlightInv, JoinWaiters, OwnerInv, FlightTypeOK
  <2>4. WaiterInv'
    BY <1>4 DEF FlightInv, JoinWaiters, OwnerInv, FlightTypeOK, WaiterInv
  <2>. QED  BY <2>1, <2>2, <2>3, <2>4 DEF FlightInv
<1>5. ASSUME NEW c \in Callers, ComputeOk(c) PROVE FlightInv'
  <2>1. FlightTypeOK'
    BY <1>5 DEF ComputeOk, FlightInv, FlightTypeOK
  <2>2. SlotHasComputation'
    BY <1>5 DEF ComputeOk, FlightInv, SlotHasComputation
  <2>3. OwnerInv'
    BY <1>5 DEF ComputeOk, FlightInv, OwnerInv, FlightTypeOK
  <2>4. WaiterInv'
    BY <1>5 DEF ComputeOk, FlightInv, WaiterInv
  <2>. QED  BY <2>1, <2>2, <2>3, <2>4 DEF FlightInv
<1>6. ASSUME NEW c \in Callers, ComputeErr(c) PROVE FlightInv'
  <2>1. FlightTypeOK'
    BY <1>6 DEF ComputeErr, FlightInv, FlightTypeOK
  <2>2. SlotHasComputation'
    BY <1>6 DEF ComputeErr, FlightInv, SlotHasComputation
  <2>3. OwnerInv'
    BY <1>6 DEF ComputeErr, FlightInv, OwnerInv
  <2>4. WaiterInv'
    BY <1>6 DEF ComputeErr, FlightInv, WaiterInv
  <2>. QED  BY <2>1, <2>2, <2>3, <2>4 DEF FlightInv
<1>7. ASSUME NEW c \in Callers, RemoveSlot(c) PROVE FlightInv'
  <2>1. FlightTypeOK'
    BY <1>7 DEF FlightInv, RemoveSlot, FlightTypeOK
  <2>2. SlotHasComputation'
    BY <1>7 DEF FlightInv, RemoveSlot, SlotHasComputation, FlightTypeOK
  <2>3. OwnerInv'
    BY <1>7 DEF FlightInv, OwnerInv, RemoveSlot
  <2>4. WaiterInv'
    BY <1>7 DEF FlightInv, OwnerInv, RemoveSlot, WaiterInv
  <2>. QED  BY <2>1, <2>2, <2>3, <2>4 DEF FlightInv
<1>8. ASSUME NEW c \in Callers, SetCache(c) PROVE FlightInv'
  <2>1. FlightTypeOK'
    BY <1>8 DEF FlightInv, SetCache, FlightTypeOK
  <2>2. SlotHasComputation'
    BY <1>8 DEF FlightInv, SetCache, SlotHasComputation
  <2>3. OwnerInv'
    BY <1>8 DEF FlightInv, OwnerInv, SetCache
  <2>4. WaiterInv'
    BY <1>8 DEF FlightInv, SetCache, WaiterInv
  <2>. QED  BY <2>1, <2>2, <2>3, <2>4 DEF FlightInv
<1>9. ASSUME NEW c \in Callers, Broadcast(c) PROVE FlightInv'
  <2>1. FlightTypeOK'
    BY <1>9 DEF FlightInv, Broadcast, FlightTypeOK
  <2>2. SlotHasComputation'
    BY <1>9 DEF FlightInv, Broadcast, SlotHasComputation
  <2>3. OwnerInv'
    BY <1>9 DEF FlightInv, OwnerInv, Broadcast, FlightTypeOK
  <2>4. WaiterInv'
    BY <1>9 DEF FlightInv, OwnerInv, Broadcast, WaiterInv
  <2>. QED  BY <2>1, <2>2, <2>3, <2>4 DEF FlightInv
<1>10. ASSUME NEW c \in Callers, ReceiveValue(c) PROVE FlightInv'
  <2>1. FlightTypeOK'
    BY <1>10 DEF FlightInv, ReceiveValue, FlightTypeOK, WaiterInv
  <2>2. SlotHasComputation'
    BY <1>10 DEF FlightInv, ReceiveValue, SlotHasComputation
  <2>3. OwnerInv'
    BY <1>10 DEF FlightInv, OwnerInv, ReceiveValue
  <2>4. WaiterInv'
    BY <1>10 DEF FlightInv, OwnerInv, ReceiveValue, FlightTypeOK, WaiterInv
  <2>. QED  BY <2>1, <2>2, <2>3, <2>4 DEF FlightInv
<1>11. ASSUME NEW c \in Callers, SenderDropped(c) PROVE FlightInv'
  <2>1. FlightTypeOK'
    BY <1>11 DEF FlightInv, SenderDropped, FlightTypeOK
  <2>2. SlotHasComputation'
    BY <1>11 DEF FlightInv, SenderDropped, SlotHasComputation
  <2>3. OwnerInv'
    BY <1>11 DEF FlightInv, OwnerInv, SenderDropped
  <2>4. WaiterInv'
    BY <1>11 DEF FlightInv, OwnerInv, SenderDropped, WaiterInv
  <2>. QED  BY <2>1, <2>2, <2>3, <2>4 DEF FlightInv
<1>12. ASSUME NEW c \in Callers, FallbackHit(c) PROVE FlightInv'
  <2>1. FlightTypeOK'
    BY <1>12 DEF FallbackHit, FlightInv, FlightTypeOK
  <2>2. SlotHasComputation'
    BY <1>12 DEF FallbackHit, FlightInv, SlotHasComputation
  <2>3. OwnerInv'
    BY <1>12 DEF FallbackHit, FlightInv, OwnerInv
  <2>4. WaiterInv'
    BY <1>12 DEF FallbackHit, FlightInv, WaiterInv
  <2>. QED  BY <2>1, <2>2, <2>3, <2>4 DEF FlightInv
<1>13. ASSUME NEW c \in Callers, FallbackMiss(c) PROVE FlightInv'
  <2>1. FlightTypeOK'
    BY <1>13 DEF FallbackMiss, FlightInv, FlightTypeOK
  <2>2. SlotHasComputation'
    BY <1>13 DEF FallbackMiss, FlightInv, SlotHasComputation
  <2>3. OwnerInv'
    BY <1>13 DEF FallbackMiss, FlightInv, OwnerInv
  <2>4. WaiterInv'
    BY <1>13 DEF FallbackMiss, FlightInv, WaiterInv
  <2>. QED  BY <2>1, <2>2, <2>3, <2>4 DEF FlightInv
<1>14. ASSUME NEW c \in Callers, BackendErr(c) PROVE FlightInv'
  <2>1. FlightTypeOK'
    BY <1>14 DEF BackendErr, FlightInv, FlightTypeOK
  <2>2. SlotHasComputation'
    BY <1>14 DEF BackendErr, FlightInv, SlotHasComputation
  <2>3. OwnerInv'
    BY <1>14 DEF BackendErr, FlightInv, OwnerInv
  <2>4. WaiterInv'
    BY <1>14 DEF BackendErr, FlightInv, WaiterInv
  <2>. QED  BY <2>1, <2>2, <2>3, <2>4 DEF FlightInv
<1>15. ASSUME NEW c \in Callers, Cancel(c) PROVE FlightInv'
  <2>1. FlightTypeOK'
    BY <1>15 DEF Cancel, FlightInv, FlightTypeOK
  <2>2. SlotHasComputation'
    BY <1>15 DEF Cancel, FlightInv, SlotHasComputation
  <2>3. OwnerInv'
    BY <1>15 DEF Cancel, FlightInv, OwnerInv
  <2>4. WaiterInv'
    BY <1>15 DEF Cancel, FlightInv, WaiterInv
  <2>. QED  BY <2>1, <2>2, <2>3, <2>4 DEF FlightInv
<1>16. CASE Expire
  <2>1. FlightTypeOK'
    BY <1>16 DEF Expire, FlightInv, FlightTypeOK
  <2>2. SlotHasComputation'
    BY <1>16 DEF Expire, FlightInv, SlotHasComputation
  <2>3. OwnerInv'
    BY <1>16 DEF Expire, FlightInv, OwnerInv
  <2>4. WaiterInv'
    BY <1>16 DEF Expire, FlightInv, WaiterInv
  <2>. QED  BY <2>1, <2>2, <2>3, <2>4 DEF FlightInv
<1>17. CASE UpstreamChanges
  <2>1. FlightTypeOK'
    BY <1>17 DEF FlightInv, FlightTypeOK, UpstreamChanges
  <2>2. SlotHasComputation'
    BY <1>17 DEF FlightInv, SlotHasComputation, UpstreamChanges
  <2>3. OwnerInv'
    BY <1>17 DEF FlightInv, OwnerInv, UpstreamChanges
  <2>4. WaiterInv'
    BY <1>17 DEF FlightInv, UpstreamChanges, WaiterInv
  <2>. QED  BY <2>1, <2>2, <2>3, <2>4 DEF FlightInv
<1>18. CASE UNCHANGED flightVars
  BY <1>18 DEF FlightInv, OwnerInv, SlotHasComputation, FlightTypeOK, WaiterInv, flightVars
<1>. QED
  BY <1>1, <1>2, <1>3, <1>4, <1>5, <1>6, <1>7, <1>8, <1>9, <1>10, <1>11, <1>12,
     <1>13, <1>14, <1>15, <1>16, <1>17, <1>18 DEF Compute, Environment, FlightNext,
     Step, Wait

\* The invariant holds in every reachable state.
THEOREM FlightInvariant == FlightSpec => []FlightInv
<1>. QED  BY FlightInitially, FlightNextKeeps, PTL DEF FlightSpec

\* The variables keep their types.
THEOREM FlightTypeCorrect == FlightSpec => []FlightTypeOK
<1>1. FlightInv => FlightTypeOK
  BY DEF FlightInv
<1>. QED  BY <1>1, FlightInvariant, PTL

\* No two calls compute the key at the same time.
THEOREM AtMostOneComputes == FlightSpec => []OneComputation
<1>1. FlightInv => OneComputation
  BY DEF FlightInv, SlotHasComputation, OneComputation
<1>. QED  BY <1>1, FlightInvariant, PTL

\* The slot is registered exactly while its call computes or was dropped there.
THEOREM SlotIsOwned == FlightSpec => []SlotHasComputation
<1>1. FlightInv => SlotHasComputation
  BY DEF FlightInv
<1>. QED  BY <1>1, FlightInvariant, PTL

\* A call fails only by its own fault or by that of the call it waited on.
THEOREM ErrorsExplained == FlightSpec => []ErrorsHaveACause
<1>1. FlightInv => ErrorsHaveACause
  BY DEF FlightInv, FlightTypeOK, OwnerInv, WaiterInv, ErrorsHaveACause
<1>. QED  BY <1>1, FlightInvariant, PTL

\* Waiters return what the call they waited on returned.
THEOREM WaitersReturnTheSame == FlightSpec => []WaitersAgree
<1>1. FlightInv => WaitersAgree
  BY DEF FlightInv, WaiterInv, WaitersAgree
<1>. QED  BY <1>1, FlightInvariant, PTL
=============================================================================
