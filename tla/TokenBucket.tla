----------------------------- MODULE TokenBucket -----------------------------
(***************************************************************************)
(* What a rate limiter promises: a method's calls are let in against a     *)
(* level that grows by at most Rate a tick, never exceeds Capacity and     *)
(* pays Cost for each call.  So whatever the moment it starts at, a        *)
(* stretch of t ticks lets in at most (Capacity + Rate * t) / Cost calls.  *)
(***************************************************************************)
EXTENDS Integers

CONSTANTS Methods, Calls, Capacity, Rate, Cost

VARIABLES
  level, \* per method
  inside \* per method, the calls that were let in and have not returned

Init ==
  /\ level \in [Methods -> 0..Capacity]
  /\ inside = [m \in Methods |-> {}]

Tick ==
  /\ level' \in [Methods -> 0..Capacity]
  /\ \A m \in Methods : level'[m] <= level[m] + Rate
  /\ UNCHANGED inside

Enter(m, c) ==
  /\ level[m] >= Cost
  /\ \E l \in 0..(level[m] - Cost) : level' = [level EXCEPT ![m] = l]
  /\ inside' = [inside EXCEPT ![m] = @ \union {c}]

Leave(m, c) ==
  /\ c \in inside[m]
  /\ inside' = [inside EXCEPT ![m] = @ \ {c}]
  /\ UNCHANGED level

Next == Tick \/ \E m \in Methods, c \in Calls : Enter(m, c) \/ Leave(m, c)

Spec == Init /\ [][Next]_<<level, inside>>
=============================================================================
