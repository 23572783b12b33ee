-------------------------- MODULE BreakwaterClient --------------------------
(***************************************************************************)
(* The client side of breakwater-grpc: one Breakwater value per downstream *)
(* server, whose interceptor every outgoing call runs in the goroutine of  *)
(* its caller.  The calls share three channels: noCreditBlocker (capacity  *)
(* one, a wake-up token), outgoingCredits (capacity one, holds the credit  *)
(* balance; every use receives and sends it back, so a use is one step)    *)
(* and pendingOutgoing (capacity MAX_Q_LENGTH, its length is the demand).  *)
(*                                                                         *)
(* Source: src/breakwater-grpc-main/breakwater/client_interceptor.go and   *)
(* the timer of breakwater.go.  The server and the transport are the       *)
(* environment: a call that was sent returns credits, returns none, or     *)
(* fails.                                                                  *)
(***************************************************************************)
EXTENDS Integers, FiniteSets

CONSTANTS
  Requests,       \* slots for outgoing calls; a finished slot is reused
  MaxQLength,     \* MAX_Q_LENGTH
  Grants,         \* credits a response may carry
  TimerCredits,   \* the balance the timer sets (99999999)
  UseExpiration,  \* BWParameters.UseClientTimeExpiration
  UseQueueLength, \* BWParameters.UseClientQueueLength
  MayFail         \* calls may return an error

ASSUME ClientAssumption ==
  /\ IsFiniteSet(Requests)
  /\ MaxQLength \in Nat \ {0}
  /\ Grants \subseteq Int
  /\ TimerCredits \in Nat \ {0}
  /\ UseExpiration \in BOOLEAN
  /\ UseQueueLength \in BOOLEAN
  /\ MayFail \in BOOLEAN

VARIABLES
  blocker,  \* noCreditBlocker holds its token
  credits,  \* the balance in outgoingCredits
  pending,  \* len(pendingOutgoing)
  timer,    \* startTimeoutRoutine: "armed", "fired" (balance set) or "done"
  answered, \* some call has returned without error
  pc,       \* per call: program counter
  demand    \* per call: the demand it reports

vars == <<blocker, credits, pending, timer, answered, pc, demand>>

Max2(a, b) == IF a >= b THEN a ELSE b

PCs == {"idle", "wait", "expiry", "expired", "leave", "credit", "pass", "measure", "depart",
        "sent", "notify"}

\* A call that has run queueRequest and not yet dequeueRequest.
Queued(r) == pc[r] \in {"wait", "expiry", "expired", "leave", "credit", "pass", "measure",
                        "depart"}
\* A call that has spent a credit and not yet returned.
Spending(r) == pc[r] \in {"pass", "measure", "depart", "sent"}

Goto(r, from, to) == pc[r] = from /\ pc' = [pc EXCEPT ![r] = to]

\* Mutant: the client starts with the credits it would get later.
InitGenerous ==
  /\ blocker = TRUE
  /\ credits = TimerCredits + 1
  /\ pending = 0
  /\ timer = "armed"
  /\ answered = FALSE
  /\ pc = [r \in Requests |-> "idle"]
  /\ demand = [r \in Requests |-> 0]

Init ==
  /\ blocker = TRUE
  /\ credits = 1
  /\ pending = 0
  /\ timer = "armed"
  /\ answered = FALSE
  /\ pc = [r \in Requests |-> "idle"]
  /\ demand = [r \in Requests |-> 0]
-----------------------------------------------------------------------------
\* queueRequest: when the channel is full the call goes on without a place in it, unless
\* UseClientQueueLength makes it return an error at once.
Call(r) ==
  /\ UseQueueLength => pending < MaxQLength
  /\ Goto(r, "idle", "wait")
  /\ pending' = IF pending < MaxQLength THEN pending + 1 ELSE pending
  /\ UNCHANGED <<blocker, credits, timer, answered, demand>>

Wake(r) ==
  /\ blocker
  /\ Goto(r, "wait", IF UseExpiration THEN "expiry" ELSE "credit")
  /\ blocker' = FALSE
  /\ UNCHANGED <<credits, pending, timer, answered, demand>>

Expire(r) ==
  /\ Goto(r, "expiry", "expired")
  /\ UNCHANGED <<blocker, credits, pending, timer, answered, demand>>

InTime(r) ==
  /\ Goto(r, "expiry", "credit")
  /\ UNCHANGED <<blocker, credits, pending, timer, answered, demand>>

\* Mutant: an expired call returns without waking the next one.
ExpiredSilently(r) ==
  /\ Goto(r, "expired", "leave")
  /\ UNCHANGED <<blocker, credits, pending, timer, answered, demand>>

ExpiredUnblock(r) ==
  /\ Goto(r, "expired", "leave")
  /\ blocker' = TRUE
  /\ UNCHANGED <<credits, pending, timer, answered, demand>>

\* dequeueRequest takes any place in the channel, and none when it is empty.
DequeueOne == pending' = IF pending > 0 THEN pending - 1 ELSE 0

\* Mutant: an expired call keeps its place in the queue.
LeaveKeepsPlace(r) ==
  /\ Goto(r, "leave", "idle")
  /\ UNCHANGED <<blocker, credits, pending, timer, answered, demand>>

Leave(r) ==
  /\ Goto(r, "leave", "idle")
  /\ DequeueOne
  /\ UNCHANGED <<blocker, credits, timer, answered, demand>>

\* Mutant: the balance is not checked.
SpendUnchecked(r) ==
  /\ Goto(r, "credit", IF credits > 1 THEN "pass" ELSE "measure")
  /\ credits' = credits - 1
  /\ UNCHANGED <<blocker, pending, timer, answered, demand>>

\* Mutant: the decremented balance is not sent back.
SpendForFree(r) ==
  /\ credits > 0
  /\ Goto(r, "credit", IF credits > 1 THEN "pass" ELSE "measure")
  /\ UNCHANGED <<blocker, credits, pending, timer, answered, demand>>

Spend(r) ==
  /\ credits > 0
  /\ Goto(r, "credit", IF credits > 1 THEN "pass" ELSE "measure")
  /\ credits' = credits - 1
  /\ UNCHANGED <<blocker, pending, timer, answered, demand>>

NoCredit(r) ==
  /\ credits <= 0
  /\ Goto(r, "credit", "wait")
  /\ credits' = 0
  /\ UNCHANGED <<blocker, pending, timer, answered, demand>>

\* Mutant: a call that leaves credits behind wakes nobody.
PassNothing(r) ==
  /\ Goto(r, "pass", "measure")
  /\ UNCHANGED <<blocker, credits, pending, timer, answered, demand>>

PassOn(r) ==
  /\ Goto(r, "pass", "measure")
  /\ blocker' = TRUE
  /\ UNCHANGED <<credits, pending, timer, answered, demand>>

\* getDemand
Measure(r) ==
  /\ Goto(r, "measure", "depart")
  /\ demand' = [demand EXCEPT ![r] = pending]
  /\ UNCHANGED <<blocker, credits, pending, timer, answered>>

Depart(r) ==
  /\ Goto(r, "depart", "sent")
  /\ DequeueOne
  /\ UNCHANGED <<blocker, credits, timer, answered, demand>>

\* err != nil with creditsOnFail never set: no credit comes back and nobody is woken.
Fail(r) ==
  /\ MayFail
  /\ Goto(r, "sent", "idle")
  /\ demand' = [demand EXCEPT ![r] = 0]
  /\ UNCHANGED <<blocker, credits, pending, timer, answered>>

ReturnCredits(r, n) ==
  /\ Goto(r, "sent", "notify")
  /\ credits' = Max2(n, 1)
  /\ answered' = TRUE
  /\ demand' = [demand EXCEPT ![r] = 0]
  /\ UNCHANGED <<blocker, pending, timer>>

ReturnBare(r) ==
  /\ Goto(r, "sent", "notify")
  /\ credits' = Max2(credits, 1)
  /\ answered' = TRUE
  /\ demand' = [demand EXCEPT ![r] = 0]
  /\ UNCHANGED <<blocker, pending, timer>>

\* Mutant: a returning call sets the balance and wakes nobody.
NotifyNobody(r) ==
  /\ Goto(r, "notify", "idle")
  /\ UNCHANGED <<blocker, credits, pending, timer, answered, demand>>

Notify(r) ==
  /\ Goto(r, "notify", "idle")
  /\ blocker' = TRUE
  /\ UNCHANGED <<credits, pending, timer, answered, demand>>
-----------------------------------------------------------------------------
TimerFires ==
  /\ timer = "armed"
  /\ timer' = "fired"
  /\ credits' = TimerCredits
  /\ UNCHANGED <<blocker, pending, answered, pc, demand>>

TimerUnblocks ==
  /\ timer = "fired"
  /\ timer' = "done"
  /\ blocker' = TRUE
  /\ UNCHANGED <<credits, pending, answered, pc, demand>>
-----------------------------------------------------------------------------
\* What the goroutine of a call does by itself.
Run(r) ==
  \/ Expire(r) \/ InTime(r) \/ ExpiredUnblock(r) \/ Leave(r)
  \/ Spend(r) \/ NoCredit(r) \/ PassOn(r) \/ Measure(r) \/ Depart(r) \/ Notify(r)

\* What the server does with it.
Return(r) == Fail(r) \/ ReturnBare(r) \/ \E n \in Grants : ReturnCredits(r, n)

Next ==
  \/ \E r \in Requests : Call(r) \/ Wake(r) \/ Run(r) \/ Return(r)
  \/ TimerFires \/ TimerUnblocks

Spec == Init /\ [][Next]_vars

\* Goroutines run and sent calls return (gRPC reports a lost connection as an error).
\* Receivers on noCreditBlocker are queued first in, first out, so one that waits while tokens
\* keep coming gets one: SF for Wake.
FairSpec ==
  /\ Spec
  /\ \A r \in Requests : WF_vars(Run(r)) /\ WF_vars(Return(r)) /\ SF_vars(Wake(r))
  /\ WF_vars(TimerFires) /\ WF_vars(TimerUnblocks)
-----------------------------------------------------------------------------
TypeOK ==
  /\ blocker \in BOOLEAN
  /\ credits \in Nat
  /\ pending \in 0..MaxQLength
  /\ timer \in {"armed", "fired", "done"}
  /\ answered \in BOOLEAN
  /\ pc \in [Requests -> PCs]
  /\ demand \in [Requests -> 0..MaxQLength]

\* Somebody is about to put the wake-up token into noCreditBlocker, or holds it and has not
\* decided yet.
Waking ==
  \/ blocker
  \/ \E r \in Requests : pc[r] \in {"expiry", "expired", "credit", "pass", "notify"}
  \/ timer = "fired"

\* No lost wake-up: while there is a credit to spend, the token is in the channel or in the
\* hands of a goroutine that will look at the credits or put it back, whatever the order of
\* the balance updates and the non-blocking sends.
NoLostWakeup == credits > 0 => Waking

\* The client's side of the registration protocol: before a response has come back (and
\* before the five-minute timer) at most one call has been sent or can be.  RegisterClient
\* relies on it: its check and its store are not atomic.
FirstAlone ==
  ~answered /\ timer = "armed" => Cardinality({r \in Requests : Spending(r)}) + credits <= 1

\* The demand channel counts the queued calls: with UseClientQueueLength no call leaves with
\* the place of another, and so no call reports a demand of zero.
PendingExact ==
  /\ pending = Cardinality({r \in Requests : Queued(r)})
  /\ \A r \in Requests : pc[r] = "depart" => demand[r] >= 1

\* The channels implement the gate: a credit admits one call, and a call that waits while
\* there is credit leads to a call that goes on.
Gate == INSTANCE CreditGate WITH
  balance <- credits,
  stage <- [r \in Requests |->
              IF pc[r] \in {"wait", "expiry", "credit"} THEN "queued"
              ELSE IF Spending(r) THEN "inflight" ELSE "idle"]
GateSpec == Gate!FairSpec

\* While calls wait for credits, one of them leaves the queue after a while: the client never
\* stops for good.
QueueMoves ==
  (\E r \in Requests : pc[r] = "wait") ~> (\E r \in Requests : pc[r] \in {"depart", "leave"})

\* What "Outgoing buffer drops requests if > 50 requests in queue" asks: no more calls are
\* queued than the buffer has places.  It holds only with UseClientQueueLength.
QueueBounded == Cardinality({r \in Requests : Queued(r)}) <= MaxQLength
=============================================================================
