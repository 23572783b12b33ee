---------------------------- MODULE DagorPriority ----------------------------
(***************************************************************************)
(* What both sides of dagor-grpc share: a priority and an admission level  *)
(* are pairs <<B, U>> of a business value and a user priority, compared by *)
(* B first, and a call whose priority reaches a level is admitted.         *)
(***************************************************************************)
EXTENDS Integers

CONSTANTS Bmax, Umax

ASSUME PriorityAssumption == Bmax \in Nat \ {0} /\ Umax \in Nat \ {0}

Cells == (1..Bmax) \X (1..Umax)
Top == <<Bmax, Umax>>
Bottom == <<1, 1>>

Reaches(p, l) == p[1] > l[1] \/ (p[1] = l[1] /\ p[2] >= l[2])
=============================================================================
