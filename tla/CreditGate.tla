----------------------------- MODULE CreditGate -----------------------------
(***************************************************************************)
(* What the client side of breakwater promises, without its channels: a    *)
(* call waits until the credit balance is positive, takes one credit and   *)
(* leaves; a returning call or the timer may set the balance; and while    *)
(* there is a credit and a call that waits, some call goes on.             *)
(***************************************************************************)
EXTENDS Integers

CONSTANTS Requests

VARIABLES
  balance, \* credits to spend
  stage    \* "idle", "queued" or "inflight" per call

gvars == <<balance, stage>>

Init == balance = 1 /\ stage = [r \in Requests |-> "idle"]

Move(r, from, to) == stage[r] = from /\ stage' = [stage EXCEPT ![r] = to]

Enter(r) == Move(r, "idle", "queued") /\ UNCHANGED balance

\* A queued call gives up.
Drop(r) == Move(r, "queued", "idle") /\ UNCHANGED balance

Admit(r) ==
  /\ balance > 0
  /\ Move(r, "queued", "inflight")
  /\ balance' = balance - 1

\* A call returns; a failed one leaves the balance as it is, any other sets it.
Return(r) ==
  /\ Move(r, "inflight", "idle")
  /\ balance' # balance => balance' >= 1

Timer == balance' >= 1 /\ UNCHANGED stage

Next ==
  \/ Timer
  \/ \E r \in Requests : Enter(r) \/ Drop(r) \/ Admit(r) \/ Return(r)

Spec == Init /\ [][Next]_gvars

\* No credit is left unused while calls wait.
Leave == balance > 0 /\ \E r \in Requests : Drop(r) \/ Admit(r)
FairSpec == Spec /\ WF_gvars(Leave)
=============================================================================
