---------------------------- MODULE CreditLedger ----------------------------
(***************************************************************************)
(* What the server side of breakwater promises about the credits it hands  *)
(* out, without locks or goroutines: there is one number per client, each  *)
(* call of a client is granted one value computed from the current number, *)
(* and between two RTT updates a client's number is recomputed at most     *)
(* once; every other grant is one credit less, never under 1.              *)
(***************************************************************************)
EXTENDS Integers

CONSTANTS Clients, Requests, NoGrant

VARIABLES
  ledger,   \* credits issued to each client, 0 before the first call
  grants,   \* the value granted to a call that has not been answered yet
  mayRaise, \* clients not recomputed since the last RTT update
  due       \* an RTT update is about to start

lvars == <<ledger, grants, mayRaise, due>>

StepDown(v) == IF v > 1 THEN v - 1 ELSE 1

Init ==
  /\ ledger = [c \in Clients |-> 0]
  /\ grants = [r \in Requests |-> NoGrant]
  /\ mayRaise = Clients
  /\ due = FALSE

\* A call gets v, which becomes the client's number.
Grant(r, c, v) ==
  /\ grants[r] = NoGrant
  /\ v # StepDown(ledger[c]) => v >= 1 /\ c \in mayRaise
  /\ ledger' = [ledger EXCEPT ![c] = v]
  /\ grants' = [grants EXCEPT ![r] = v]
  /\ mayRaise' = mayRaise \ {c}
  /\ UNCHANGED due

Answer(r) ==
  /\ grants[r] # NoGrant
  /\ grants' = [grants EXCEPT ![r] = NoGrant]
  /\ UNCHANGED <<ledger, mayRaise, due>>

Announce ==
  /\ due' = TRUE
  /\ UNCHANGED <<ledger, grants, mayRaise>>

\* An RTT update starts: only now clients may be recomputed again.
NewPeriod ==
  /\ due /\ due' = FALSE
  /\ mayRaise \subseteq mayRaise'
  /\ mayRaise' \subseteq Clients
  /\ UNCHANGED <<ledger, grants>>

\* A client may lose its turn (its connection was stamped after the RTT update).
LoseTurn(c) ==
  /\ mayRaise' = mayRaise \ {c}
  /\ UNCHANGED <<ledger, grants, due>>

Next ==
  \/ \E r \in Requests, c \in Clients : \E v \in {ledger'[c]} : Grant(r, c, v)
  \/ \E r \in Requests : Answer(r)
  \/ Announce \/ NewPeriod
  \/ \E c \in Clients : LoseTurn(c)

Spec == Init /\ [][Next]_lvars
=============================================================================
