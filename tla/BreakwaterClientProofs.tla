----------------------- MODULE BreakwaterClientProofs -----------------------
(***************************************************************************)
(* Proofs about BreakwaterClient for every number of calls, queue length,  *)
(* set of grants and setting of the flags.                                 *)
(***************************************************************************)
EXTENDS BreakwaterClient, FiniteSetTheorems, TLAPS

\* The channels and the balance keep their types under any interleaving of the calls, the
\* responses and the timer; in particular the balance never becomes negative.
THEOREM ClientTypeCorrect == Spec => []TypeOK
<1> USE DEF TypeOK
<1>0. MaxQLength \in Nat \ {0} /\ TimerCredits \in Nat \ {0} /\ Grants \subseteq Int
  BY ClientAssumption DEF ClientAssumption
<1>1. Init => TypeOK
  <2> SUFFICES ASSUME Init PROVE TypeOK
    OBVIOUS
  <2>1. 0 \in 0..MaxQLength
    BY <1>0
  <2> QED
    BY <2>1 DEF Init, PCs
<1>2. TypeOK /\ [Next]_vars => TypeOK'
  <2> SUFFICES ASSUME TypeOK, [Next]_vars PROVE TypeOK'
    OBVIOUS
  <2> USE <1>0 DEF Goto, PCs
  <2>1. ASSUME NEW r \in Requests, Call(r) PROVE TypeOK'
    BY <2>1 DEF Call
  <2>2. ASSUME NEW r \in Requests, Wake(r) PROVE TypeOK'
    BY <2>2 DEF Wake
  <2>3. ASSUME NEW r \in Requests, Expire(r) \/ InTime(r) \/ ExpiredUnblock(r) PROVE TypeOK'
    BY <2>3 DEF Expire, InTime, ExpiredUnblock
  <2>4. ASSUME NEW r \in Requests, Leave(r) \/ Depart(r) PROVE TypeOK'
    BY <2>4 DEF Leave, Depart, DequeueOne
  <2>5. ASSUME NEW r \in Requests, Spend(r) \/ NoCredit(r) PROVE TypeOK'
    BY <2>5 DEF Spend, NoCredit
  <2>6. ASSUME NEW r \in Requests, PassOn(r) \/ Measure(r) \/ Notify(r) PROVE TypeOK'
    BY <2>6 DEF PassOn, Measure, Notify
  <2>7. ASSUME NEW r \in Requests, Return(r) PROVE TypeOK'
    <3>1. CASE Fail(r)
      BY <3>1 DEF Fail
    <3>2. CASE ReturnBare(r)
      BY <3>2 DEF ReturnBare, Max2
    <3>3. ASSUME NEW n \in Grants, ReturnCredits(r, n) PROVE TypeOK'
      <4>1. Max2(n, 1) \in Nat
        BY n \in Int DEF Max2
      <4> QED
        BY <3>3, <4>1 DEF ReturnCredits
    <3> QED
      BY <2>7, <3>1, <3>2, <3>3 DEF Return
  <2>8. CASE TimerFires \/ TimerUnblocks
    BY <2>8 DEF TimerFires, TimerUnblocks
  <2>9. CASE UNCHANGED vars
    BY <2>9 DEF vars
  <2> QED
    BY <2>1, <2>2, <2>3, <2>4, <2>5, <2>6, <2>7, <2>8, <2>9 DEF Next, Run
<1> QED
  BY <1>1, <1>2, PTL DEF Spec

\* No wake-up is lost: the invariant is inductive as it stands, because every step that takes
\* the token away leaves its goroutine before a decision, and every step that raises the
\* balance leaves its goroutine before a send.
THEOREM WakeupKept == Spec => []NoLostWakeup
<1> USE DEF TypeOK, NoLostWakeup, Waking
<1>0. MaxQLength \in Nat \ {0} /\ TimerCredits \in Nat \ {0} /\ Grants \subseteq Int
  BY ClientAssumption DEF ClientAssumption
<1>1. Init => NoLostWakeup
  BY DEF Init
<1>2. TypeOK /\ NoLostWakeup /\ [Next]_vars => NoLostWakeup'
  <2> SUFFICES ASSUME TypeOK, NoLostWakeup, [Next]_vars PROVE NoLostWakeup'
    OBVIOUS
  <2> USE <1>0 DEF Goto, PCs
  <2>1. ASSUME NEW r \in Requests, Call(r) PROVE NoLostWakeup'
    BY <2>1 DEF Call
  <2>2. ASSUME NEW r \in Requests, Wake(r) PROVE NoLostWakeup'
    BY <2>2 DEF Wake
  <2>3. ASSUME NEW r \in Requests, Expire(r) \/ InTime(r) \/ ExpiredUnblock(r)
        PROVE NoLostWakeup'
    BY <2>3 DEF Expire, InTime, ExpiredUnblock
  <2>4. ASSUME NEW r \in Requests, Leave(r) \/ Depart(r) \/ Measure(r) PROVE NoLostWakeup'
    BY <2>4 DEF Leave, Depart, Measure
  <2>5. ASSUME NEW r \in Requests, Spend(r) PROVE NoLostWakeup'
    <3>1. CASE credits > 1
      BY <2>5, <3>1 DEF Spend
    <3>2. CASE credits = 1
      BY <2>5, <3>2 DEF Spend
    <3> QED
      BY <2>5, <3>1, <3>2 DEF Spend
  <2>6. ASSUME NEW r \in Requests, NoCredit(r) PROVE NoLostWakeup'
    BY <2>6 DEF NoCredit
  <2>7. ASSUME NEW r \in Requests, PassOn(r) \/ Notify(r) PROVE NoLostWakeup'
    BY <2>7 DEF PassOn, Notify
  <2>8. ASSUME NEW r \in Requests, Return(r) PROVE NoLostWakeup'
    BY <2>8 DEF Return, Fail, ReturnBare, ReturnCredits
  <2>9. CASE TimerFires \/ TimerUnblocks
    BY <2>9 DEF TimerFires, TimerUnblocks
  <2>10. CASE UNCHANGED vars
    BY <2>10 DEF vars
  <2> QED
    BY <2>1, <2>2, <2>3, <2>4, <2>5, <2>6, <2>7, <2>8, <2>9, <2>10 DEF Next, Run
<1> QED
  BY <1>1, <1>2, ClientTypeCorrect, PTL DEF Spec

\* The calls that have spent a credit and not returned.
Spenders == {r \in Requests : Spending(r)}

LEMMA SpendersFinite == ASSUME TypeOK PROVE IsFiniteSet(Spenders) /\ Cardinality(Spenders) \in Nat
<1>1. IsFiniteSet(Requests)
  BY ClientAssumption DEF ClientAssumption
<1>2. Spenders \subseteq Requests
  BY DEF Spenders
<1> QED
  BY <1>1, <1>2, FS_Subset, FS_CardinalityType

\* Before the first response and the timer at most one call has been sent or can be: the
\* premise of RegisterClient, which checks and stores in two steps.
THEOREM FirstCallAlone == Spec => []FirstAlone
<1> DEFINE Alone == Cardinality(Spenders) + credits <= 1
<1>1. FirstAlone <=> (~answered /\ timer = "armed" => Alone)
  BY DEF FirstAlone, Spenders
<1>2. FirstAlone' <=> (~answered' /\ timer' = "armed" => Alone')
  BY DEF FirstAlone, Spenders
<1>3. Init => FirstAlone
  <2>1. Init => Spenders = {}
    BY DEF Init, Spenders, Spending
  <2> QED
    BY <1>1, <2>1, FS_EmptySet DEF Init
<1>4. TypeOK /\ FirstAlone /\ [Next]_vars => FirstAlone'
  <2> SUFFICES ASSUME TypeOK, FirstAlone, [Next]_vars, ~answered', timer' = "armed"
               PROVE  Alone'
    BY <1>2
  <2> USE DEF Goto
  <2>1. credits \in Nat /\ pc \in [Requests -> PCs]
    BY DEF TypeOK
  <2>2. Cardinality(Spenders) \in Nat /\ IsFiniteSet(Spenders)
    BY SpendersFinite
  <2>3. Alone
    <3>1. ~answered /\ timer = "armed"
      BY DEF Next, Run, Return, Call, Wake, Expire, InTime, ExpiredUnblock, Leave, Spend,
             NoCredit, PassOn, Measure, Depart, Notify, Fail, ReturnBare, ReturnCredits,
             TimerFires, TimerUnblocks, vars, TypeOK
    <3> QED
      BY <1>1, <3>1
  <2>4. ASSUME NEW r \in Requests, Call(r) \/ Wake(r) \/ Expire(r) \/ InTime(r)
                 \/ ExpiredUnblock(r) \/ Leave(r) \/ NoCredit(r) \/ Notify(r)
        PROVE  Alone'
    <3>1. Spenders' = Spenders /\ credits' <= credits /\ credits' \in Nat
      BY <2>4, <2>1 DEF Spenders, Spending, Call, Wake, Expire, InTime, ExpiredUnblock, Leave,
                        NoCredit, Notify, PCs
    <3> QED
      BY <3>1, <2>1, <2>2, <2>3
  <2>5. ASSUME NEW r \in Requests, Spend(r) PROVE Alone'
    <3>1. Spenders' = Spenders \union {r} /\ r \notin Spenders
      BY <2>5, <2>1 DEF Spenders, Spending, Spend, PCs
    <3>2. Cardinality(Spenders') = Cardinality(Spenders) + 1
      BY <3>1, <2>2, FS_AddElement
    <3> QED
      BY <2>5, <3>2, <2>1, <2>2, <2>3 DEF Spend
  <2>6. ASSUME NEW r \in Requests, PassOn(r) \/ Measure(r) \/ Depart(r) PROVE Alone'
    <3>1. Spenders' = Spenders /\ credits' = credits
      BY <2>6, <2>1 DEF Spenders, Spending, PassOn, Measure, Depart, PCs
    <3> QED
      BY <3>1, <2>3
  <2>7. ASSUME NEW r \in Requests, Fail(r) PROVE Alone'
    <3>1. Spenders' = Spenders \ {r} /\ r \in Spenders /\ credits' = credits
      BY <2>7, <2>1 DEF Spenders, Spending, Fail, PCs
    <3>2. Cardinality(Spenders') = Cardinality(Spenders) - 1
      BY <3>1, <2>2, FS_RemoveElement
    <3> QED
      BY <3>1, <3>2, <2>1, <2>2, <2>3
  <2>8. ASSUME NEW r \in Requests, ReturnBare(r) \/ \E n \in Grants : ReturnCredits(r, n)
        PROVE  FALSE
    BY <2>8 DEF ReturnBare, ReturnCredits
  <2>9. CASE TimerFires \/ TimerUnblocks
    BY <2>9 DEF TimerFires, TimerUnblocks
  <2>10. CASE UNCHANGED vars
    BY <2>10, <2>3 DEF vars, Spenders, Spending
  <2> QED
    BY <2>4, <2>5, <2>6, <2>7, <2>8, <2>9, <2>10 DEF Next, Run, Return
<1> QED
  BY <1>3, <1>4, ClientTypeCorrect, PTL DEF Spec

\* The calls that hold a place in pendingOutgoing.
Waiters == {r \in Requests : Queued(r)}

\* With UseClientQueueLength the channel's length is the number of queued calls, whatever the
\* interleaving, and every demand reported is at least one; so the buffer is never exceeded.
THEOREM PendingCounts == ASSUME UseQueueLength PROVE Spec => [](PendingExact /\ QueueBounded)
<1> DEFINE Demanded == \A r \in Requests : pc[r] = "depart" => demand[r] >= 1
<1>0. MaxQLength \in Nat \ {0} /\ IsFiniteSet(Requests)
  BY ClientAssumption DEF ClientAssumption
<1>1. PendingExact <=> pending = Cardinality(Waiters) /\ Demanded
  BY DEF PendingExact, Waiters
<1>2. PendingExact' <=> pending' = Cardinality(Waiters') /\ Demanded'
  BY DEF PendingExact, Waiters
<1>3. Init => PendingExact
  <2>1. Init => Waiters = {}
    BY DEF Init, Waiters, Queued
  <2> QED
    BY <1>1, <2>1, FS_EmptySet DEF Init
<1>4. TypeOK /\ PendingExact /\ [Next]_vars => PendingExact'
  <2> SUFFICES ASSUME TypeOK, PendingExact, [Next]_vars
               PROVE  pending' = Cardinality(Waiters') /\ Demanded'
    BY <1>2
  <2> USE DEF Goto
  <2>1. /\ pending \in Nat /\ pc \in [Requests -> PCs]
        /\ demand \in [Requests -> 0..MaxQLength]
    BY <1>0 DEF TypeOK
  <2>2. IsFiniteSet(Waiters) /\ Waiters \subseteq Requests
    BY <1>0, FS_Subset DEF Waiters
  <2>3. pending = Cardinality(Waiters) /\ Demanded
    BY <1>1
  <2>4. ASSUME NEW r \in Requests, Call(r) PROVE pending' = Cardinality(Waiters') /\ Demanded'
    <3>1. Waiters' = Waiters \union {r} /\ r \notin Waiters
      BY <2>4, <2>1 DEF Waiters, Queued, Call, PCs
    <3>2. Cardinality(Waiters') = Cardinality(Waiters) + 1
      BY <3>1, <2>2, FS_AddElement
    <3>3. pending' = pending + 1
      BY <2>4, UseQueueLength DEF Call
    <3>4. Demanded'
      BY <2>4, <2>1, <2>3 DEF Call
    <3> QED
      BY <3>2, <3>3, <3>4, <2>3
  <2>5. ASSUME NEW r \in Requests, Leave(r) \/ Depart(r)
        PROVE  pending' = Cardinality(Waiters') /\ Demanded'
    <3>1. Waiters' = Waiters \ {r} /\ r \in Waiters
      BY <2>5, <2>1 DEF Waiters, Queued, Leave, Depart, PCs
    <3>2. Cardinality(Waiters') = Cardinality(Waiters) - 1
      BY <3>1, <2>2, FS_RemoveElement
    <3>3. Cardinality(Waiters') \in Nat
      BY <3>1, <2>2, FS_Subset, FS_CardinalityType
    <3>4. pending' = pending - 1
      BY <2>5, <2>1, <2>3, <3>2, <3>3 DEF Leave, Depart, DequeueOne
    <3>5. Demanded'
      BY <2>5, <2>1, <2>3 DEF Leave, Depart
    <3> QED
      BY <3>2, <3>4, <3>5, <2>3
  <2>6. ASSUME NEW r \in Requests, Measure(r)
        PROVE  pending' = Cardinality(Waiters') /\ Demanded'
    <3>1. Waiters' = Waiters /\ pending' = pending /\ r \in Waiters
      BY <2>6, <2>1 DEF Waiters, Queued, Measure, PCs
    <3>2. pending # 0
      BY <3>1, <2>2, <2>3, FS_EmptySet
    <3>3. Demanded'
      BY <2>6, <2>1, <2>3, <3>2 DEF Measure
    <3> QED
      BY <3>1, <3>3, <2>3
  <2>7. ASSUME NEW r \in Requests, Wake(r) \/ Expire(r) \/ InTime(r) \/ ExpiredUnblock(r)
                 \/ Spend(r) \/ NoCredit(r) \/ PassOn(r) \/ Notify(r)
        PROVE  pending' = Cardinality(Waiters') /\ Demanded'
    <3>1. Waiters' = Waiters /\ pending' = pending
      BY <2>7, <2>1 DEF Waiters, Queued, Wake, Expire, InTime, ExpiredUnblock, Spend,
                        NoCredit, PassOn, Notify, PCs
    <3>2. Demanded'
      BY <2>7, <2>1, <2>3 DEF Wake, Expire, InTime, ExpiredUnblock, Spend, NoCredit, PassOn,
                              Notify
    <3> QED
      BY <3>1, <3>2, <2>3
  <2>8. ASSUME NEW r \in Requests, Return(r)
        PROVE  pending' = Cardinality(Waiters') /\ Demanded'
    <3>1. Waiters' = Waiters /\ pending' = pending
      BY <2>8, <2>1 DEF Waiters, Queued, Return, Fail, ReturnBare, ReturnCredits, PCs
    <3>2. Demanded'
      BY <2>8, <2>1, <2>3 DEF Return, Fail, ReturnBare, ReturnCredits
    <3> QED
      BY <3>1, <3>2, <2>3
  <2>9. CASE TimerFires \/ TimerUnblocks \/ UNCHANGED vars
    BY <2>9, <2>3 DEF TimerFires, TimerUnblocks, vars, Waiters, Queued
  <2> QED
    BY <2>4, <2>5, <2>6, <2>7, <2>8, <2>9 DEF Next, Run
<1>5. TypeOK /\ PendingExact => QueueBounded
  BY <1>0 DEF TypeOK, PendingExact, QueueBounded
<1> QED
  BY <1>3, <1>4, <1>5, ClientTypeCorrect, PTL DEF Spec

\* The stage of a call in the abstract gate.
Stage == [r \in Requests |->
            IF pc[r] \in {"wait", "expiry", "credit"} THEN "queued"
            ELSE IF Spending(r) THEN "inflight" ELSE "idle"]

\* The channels implement the safety part of the gate: every step of the goroutines, the timer
\* and the responses is a step of CreditGate or leaves it alone.
THEOREM ClientImplementsGate == Spec => Gate!Spec
<1> USE DEF Goto, PCs
<1>1. Init => Gate!Init
  BY DEF Init, Gate!Init, Spending
<1>2. TypeOK /\ [Next]_vars => [Gate!Next]_Gate!gvars
  <2> SUFFICES ASSUME TypeOK, [Next]_vars
               PROVE  Gate!Next \/ (Stage' = Stage /\ credits' = credits)
    BY DEF Gate!gvars, Stage
  <2>1. credits \in Nat /\ pc \in [Requests -> PCs]
    BY DEF TypeOK
  <2>2. TimerCredits \in Nat \ {0} /\ Grants \subseteq Int
    BY ClientAssumption DEF ClientAssumption
  <2>3. ASSUME NEW r \in Requests, Call(r) PROVE Gate!Enter(r)
    BY <2>1, <2>3 DEF Call, Gate!Enter, Gate!Move, Spending
  <2>4. ASSUME NEW r \in Requests, Expire(r) PROVE Gate!Drop(r)
    BY <2>1, <2>4 DEF Expire, Gate!Drop, Gate!Move, Spending
  <2>5. ASSUME NEW r \in Requests, Spend(r) PROVE Gate!Admit(r)
    BY <2>1, <2>5 DEF Spend, Gate!Admit, Gate!Move, Spending
  <2>6. ASSUME NEW r \in Requests, Fail(r) PROVE Gate!Return(r)
    BY <2>1, <2>6 DEF Fail, Gate!Return, Gate!Move, Spending
  <2>7. ASSUME NEW r \in Requests, ReturnBare(r) PROVE Gate!Return(r)
    <3>1. credits' >= 1
      BY <2>1, <2>7 DEF ReturnBare, Max2
    <3> QED
      BY <2>1, <2>7, <3>1 DEF ReturnBare, Gate!Return, Gate!Move, Spending
  <2>8. ASSUME NEW r \in Requests, NEW n \in Grants, ReturnCredits(r, n)
        PROVE  Gate!Return(r)
    <3>1. credits' >= 1
      BY <2>2, <2>8, n \in Int DEF ReturnCredits, Max2
    <3> QED
      BY <2>1, <2>8, <3>1 DEF ReturnCredits, Gate!Return, Gate!Move, Spending
  <2>9. CASE TimerFires
    <3>1. Gate!Timer
      BY <2>2, <2>9 DEF TimerFires, Gate!Timer, Spending
    <3> QED
      BY <3>1 DEF Gate!Next
  <2>10. ASSUME NEW r \in Requests, Wake(r) \/ InTime(r) \/ ExpiredUnblock(r) \/ Leave(r)
                  \/ PassOn(r) \/ Measure(r) \/ Depart(r) \/ Notify(r)
         PROVE  Stage' = Stage /\ credits' = credits
    BY <2>1, <2>10 DEF Stage, Spending, Wake, InTime, ExpiredUnblock, Leave, PassOn, Measure,
                       Depart, Notify
  <2>11. ASSUME NEW r \in Requests, NoCredit(r)
         PROVE  Stage' = Stage /\ credits' = credits
    BY <2>1, <2>11 DEF Stage, Spending, NoCredit
  <2>12. CASE TimerUnblocks \/ UNCHANGED vars
    BY <2>12 DEF TimerUnblocks, vars, Stage, Spending
  <2> QED
    BY <2>3, <2>4, <2>5, <2>6, <2>7, <2>8, <2>9, <2>10, <2>11, <2>12
       DEF Next, Run, Return, Gate!Next
<1> QED
  BY <1>1, <1>2, ClientTypeCorrect, PTL DEF Spec, Gate!Spec
=============================================================================
