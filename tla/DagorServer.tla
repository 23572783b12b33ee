----------------------------- MODULE DagorServer -----------------------------
(***************************************************************************)
(* The server side of dagor-grpc: calls of priority <<B, U>> are admitted  *)
(* when they reach the admission level, counted by goroutines that outlive *)
(* them, and the level is recomputed from the counts every interval by the *)
(* UpdateAdmissionLevel goroutine.  Nothing is locked: the level is two    *)
(* atomics, N, Nadm and each cell of the histogram C are atomics, and the  *)
(* update reads and clears them one by one.                                *)
(*                                                                         *)
(* Source: src/dagor-grpc-main/dagor/server_interceptor.go, options.go and *)
(* utils.go, with UseSyncMap FALSE as hotelApp has it: C is a CounterMatrix *)
(* of atomics.  How an entry service chooses a priority and how others     *)
(* read it from the metadata is left to Arrive, which takes any of         *)
(* Priorities.                                                             *)
(***************************************************************************)
EXTENDS Integers, FiniteSets, DagorPriority

CONSTANTS
  Priorities,   \* the priorities calls carry
  AlphaPercent, \* 100 * alpha
  BetaPercent,  \* 100 * beta
  Requests,     \* slots for calls in flight; a finished slot is reused
  Counters,     \* slots for live UpdateHistogram goroutines (bound)
  MaxN          \* no call arrives when N has reached this (bound)

ASSUME DagorAssumption ==
  /\ Priorities \subseteq Cells
  /\ AlphaPercent \in 0..100 /\ BetaPercent \in Nat
  /\ MaxN \in Nat

VARIABLES
  levelB, levelU,         \* admissionLevel
  N, Nadm, C,             \* the histogram
  pc, prio, seenB, seenU, \* per call: program counter, priority, thresholds it has loaded
  kpc, kprio, kadm,       \* per UpdateHistogram: program counter, priority, admitted
  upc, foverload,         \* UpdateAdmissionLevel: program counter, overload detected
  base, Nprefix, Nexp,    \* Nprefix as first read and as it is; Nexp
  star,                   \* <<Bstar, Ustar>>
  toReset                 \* cells ResetHistogram has still to clear

levelVars == <<levelB, levelU>>
histVars == <<N, Nadm, C>>
reqVars == <<pc, prio, seenB, seenU>>
cntVars == <<kpc, kprio, kadm>>
updVars == <<upc, foverload, base, Nprefix, Nexp, star, toReset>>
vars == <<levelVars, histVars, reqVars, cntVars, updVars>>

Above(p, q) == Reaches(p, q) /\ p # q

\* Mutant: U wraps and B stays.
LowerWraps(p) == IF p[2] > 1 THEN <<p[1], p[2] - 1>> ELSE <<p[1], Umax>>

\* The next cell in either direction, for p # Bottom and p # Top.
Lower(p) == IF p[2] > 1 THEN <<p[1], p[2] - 1>> ELSE <<p[1] - 1, Umax>>

Raise(p) == IF p[2] < Umax THEN <<p[1], p[2] + 1>> ELSE <<p[1] + 1, 1>>

Goto(r, from, to) == pc[r] = from /\ pc' = [pc EXCEPT ![r] = to]
KGoto(k, from, to) == kpc[k] = from /\ kpc' = [kpc EXCEPT ![k] = to]
UGoto(from, to) == upc = from /\ upc' = to

Init ==
  /\ levelB = Bmax /\ levelU = Umax
  /\ N = 0 /\ Nadm = 0 /\ C = [p \in Cells |-> 0]
  /\ pc = [r \in Requests |-> "idle"] /\ prio = [r \in Requests |-> Top]
  /\ seenB = [r \in Requests |-> Bmax] /\ seenU = [r \in Requests |-> Umax]
  /\ kpc = [k \in Counters |-> "idle"] /\ kprio = [k \in Counters |-> Top]
  /\ kadm = [k \in Counters |-> FALSE]
  /\ upc = "tick" /\ foverload = FALSE
  /\ base = 0 /\ Nprefix = 0 /\ Nexp = 0 /\ star = Top /\ toReset = {}
-----------------------------------------------------------------------------
(* UnaryInterceptorServer.                                                 *)

Arrive(r, p) ==
  /\ N < MaxN
  /\ Goto(r, "idle", "loadB")
  /\ prio' = [prio EXCEPT ![r] = p]
  /\ UNCHANGED <<levelVars, histVars, seenB, seenU, cntVars, updVars>>

LoadB(r) ==
  /\ Goto(r, "loadB", "loadU")
  /\ seenB' = [seenB EXCEPT ![r] = levelB]
  /\ UNCHANGED <<levelVars, histVars, prio, seenU, cntVars, updVars>>

LoadU(r) ==
  /\ Goto(r, "loadU", "decide")
  /\ seenU' = [seenU EXCEPT ![r] = levelU]
  /\ UNCHANGED <<levelVars, histVars, prio, seenB, cntVars, updVars>>

\* go d.UpdateHistogram(admitted, B, U)
Count(r, k, admitted) ==
  /\ KGoto(k, "idle", "total")
  /\ kprio' = [kprio EXCEPT ![k] = prio[r]]
  /\ kadm' = [kadm EXCEPT ![k] = admitted]

\* The call is over: its locals are gone.
Forget(r) ==
  /\ prio' = [prio EXCEPT ![r] = Top]
  /\ seenB' = [seenB EXCEPT ![r] = Bmax]
  /\ seenU' = [seenU EXCEPT ![r] = Umax]

Admit(r, k) ==
  /\ Reaches(prio[r], <<seenB[r], seenU[r]>>)
  /\ Goto(r, "decide", "handle")
  /\ Count(r, k, TRUE)
  /\ UNCHANGED <<levelVars, histVars, prio, seenB, seenU, updVars>>

Drop(r, k) ==
  /\ ~Reaches(prio[r], <<seenB[r], seenU[r]>>)
  /\ Goto(r, "decide", "idle")
  /\ Count(r, k, FALSE)
  /\ Forget(r)
  /\ UNCHANGED <<levelVars, histVars, updVars>>

\* The handler returns an error, or a response that carries the loaded thresholds.
Reply(r) ==
  /\ Goto(r, "handle", "idle")
  /\ Forget(r)
  /\ UNCHANGED <<levelVars, histVars, cntVars, updVars>>
-----------------------------------------------------------------------------
(* UpdateHistogram.                                                        *)

IncrementN(k) ==
  /\ KGoto(k, "total", "cell")
  /\ N' = N + 1
  /\ UNCHANGED <<levelVars, Nadm, C, reqVars, kprio, kadm, updVars>>

IncrementCell(k) ==
  /\ KGoto(k, "cell", IF kadm[k] THEN "admitted" ELSE "idle")
  /\ C' = [C EXCEPT ![kprio[k]] = @ + 1]
  /\ kprio' = [kprio EXCEPT ![k] = Top]
  /\ UNCHANGED <<levelVars, N, Nadm, reqVars, kadm, updVars>>

IncrementNadm(k) ==
  /\ KGoto(k, "admitted", "idle")
  /\ Nadm' = Nadm + 1
  /\ kadm' = [kadm EXCEPT ![k] = FALSE]
  /\ UNCHANGED <<levelVars, N, C, reqVars, kprio, updVars>>
-----------------------------------------------------------------------------
(* UpdateAdmissionLevel, CalculateAdmissionLevel and ResetHistogram.       *)

\* A tick with a histogram to compare with (the first tick only takes one).
Tick(overload) ==
  /\ UGoto("tick", "read")
  /\ foverload' = overload
  /\ UNCHANGED <<levelVars, histVars, reqVars, cntVars, base, Nprefix, Nexp, star, toReset>>

\* Mutant: with no call admitted the level is opened.
NothingAdmittedOpens ==
  /\ Nadm = 0
  /\ UGoto("read", "resetN")
  /\ star' = Bottom
  /\ UNCHANGED <<levelVars, histVars, reqVars, cntVars, foverload, base, Nprefix, Nexp,
                 toReset>>

NothingAdmitted ==
  /\ Nadm = 0
  /\ UGoto("read", "resetN")
  /\ star' = Top
  /\ UNCHANGED <<levelVars, histVars, reqVars, cntVars, foverload, base, Nprefix, Nexp,
                 toReset>>

SomeAdmitted ==
  /\ Nadm # 0
  /\ UGoto("read", "expect")
  /\ base' = Nadm /\ Nprefix' = Nadm
  /\ UNCHANGED <<levelVars, histVars, reqVars, cntVars, foverload, Nexp, star, toReset>>

\* Nadm is read again; without overload N is read after it.
ExpectLess ==
  /\ foverload
  /\ UGoto("expect", "walk")
  /\ Nexp' = ((100 - AlphaPercent) * Nadm) \div 100
  /\ star' = Top
  /\ UNCHANGED <<levelVars, histVars, reqVars, cntVars, foverload, base, Nprefix, toReset>>

ExpectAll ==
  /\ ~foverload
  /\ UGoto("expect", "margin")
  /\ Nexp' = Nadm
  /\ UNCHANGED <<levelVars, histVars, reqVars, cntVars, foverload, base, Nprefix, star,
                 toReset>>

ExpectMore ==
  /\ UGoto("margin", "walk")
  /\ Nexp' = Nexp + (BetaPercent * N) \div 100 + 1
  /\ star' = Bottom
  /\ UNCHANGED <<levelVars, histVars, reqVars, cntVars, foverload, base, Nprefix, toReset>>

LowerOn == foverload /\ Nprefix > Nexp /\ star # Bottom
RaiseOn == ~foverload /\ Nprefix <= Nexp /\ star # Top

\* Mutant: U goes past Umax and does not wrap to the next B.
WalkUpUnwrapped ==
  /\ upc = "walk" /\ RaiseOn
  /\ star' = <<star[1], star[2] + 1>>
  /\ Nprefix' = Nprefix + (IF star' \in Cells THEN C[star'] ELSE 0)
  /\ UNCHANGED <<levelVars, histVars, reqVars, cntVars, upc, foverload, base, Nexp, toReset>>

\* Mutant: the cell that is left is counted, not the one that is reached.
WalkDownLate ==
  /\ upc = "walk" /\ LowerOn
  /\ star' = Lower(star)
  /\ Nprefix' = Nprefix - C[star]
  /\ UNCHANGED <<levelVars, histVars, reqVars, cntVars, upc, foverload, base, Nexp, toReset>>

WalkDown ==
  /\ upc = "walk" /\ LowerOn
  /\ star' = Lower(star)
  /\ Nprefix' = Nprefix - C[star']
  /\ UNCHANGED <<levelVars, histVars, reqVars, cntVars, upc, foverload, base, Nexp, toReset>>

WalkUp ==
  /\ upc = "walk" /\ RaiseOn
  /\ star' = Raise(star)
  /\ Nprefix' = Nprefix + C[star']
  /\ UNCHANGED <<levelVars, histVars, reqVars, cntVars, upc, foverload, base, Nexp, toReset>>

WalkEnds ==
  /\ ~LowerOn /\ ~RaiseOn
  /\ UGoto("walk", "resetN")
  /\ UNCHANGED <<levelVars, histVars, reqVars, cntVars, foverload, base, Nprefix, Nexp, star,
                 toReset>>

ResetN ==
  /\ UGoto("resetN", "resetNadm")
  /\ N' = 0
  /\ base' = 0 /\ Nprefix' = 0 /\ Nexp' = 0
  /\ UNCHANGED <<levelVars, Nadm, C, reqVars, cntVars, foverload, star, toReset>>

ResetNadm ==
  /\ UGoto("resetNadm", "resetC")
  /\ Nadm' = 0
  /\ toReset' = Cells
  /\ UNCHANGED <<levelVars, N, C, reqVars, cntVars, foverload, base, Nprefix, Nexp, star>>

\* CounterMatrix.Reset clears the cells in order.
ResetCell(p) ==
  /\ p \in toReset /\ \A q \in toReset : Reaches(q, p)
  /\ UGoto("resetC", IF toReset = {p} THEN "swapB" ELSE "resetC")
  /\ C' = [C EXCEPT ![p] = 0]
  /\ toReset' = toReset \ {p}
  /\ UNCHANGED <<levelVars, N, Nadm, reqVars, cntVars, foverload, base, Nprefix, Nexp, star>>

SwapB ==
  /\ UGoto("swapB", "swapU")
  /\ levelB' = star[1]
  /\ UNCHANGED <<levelU, histVars, reqVars, cntVars, foverload, base, Nprefix, Nexp, star,
                 toReset>>

SwapU ==
  /\ UGoto("swapU", "tick")
  /\ levelU' = star[2]
  /\ foverload' = FALSE /\ star' = Top
  /\ UNCHANGED <<levelB, histVars, reqVars, cntVars, base, Nprefix, Nexp, toReset>>
-----------------------------------------------------------------------------
Serve(r) ==
  \/ LoadB(r) \/ LoadU(r) \/ Reply(r)
  \/ \E k \in Counters : Admit(r, k) \/ Drop(r, k)

Tally(k) == IncrementN(k) \/ IncrementCell(k) \/ IncrementNadm(k)

Update ==
  \/ NothingAdmitted \/ SomeAdmitted \/ ExpectLess \/ ExpectAll \/ ExpectMore
  \/ WalkDown \/ WalkUp \/ WalkEnds
  \/ ResetN \/ ResetNadm \/ (\E p \in Cells : ResetCell(p)) \/ SwapB \/ SwapU

Next ==
  \/ \E r \in Requests : (\E p \in Priorities : Arrive(r, p)) \/ Serve(r)
  \/ \E k \in Counters : Tally(k)
  \/ \E overload \in BOOLEAN : Tick(overload)
  \/ Update

Spec == Init /\ [][Next]_vars

\* The Go scheduler runs every runnable goroutine; nothing here blocks.
FairSpec == Spec /\ WF_vars(Update)
-----------------------------------------------------------------------------
TypeOK ==
  /\ levelB \in 1..Bmax /\ levelU \in 1..Umax
  /\ N \in Nat /\ Nadm \in Nat /\ C \in [Cells -> Nat]
  /\ pc \in [Requests -> {"idle", "loadB", "loadU", "decide", "handle"}]
  /\ prio \in [Requests -> Cells]
  /\ seenB \in [Requests -> 1..Bmax] /\ seenU \in [Requests -> 1..Umax]
  /\ kpc \in [Counters -> {"idle", "total", "cell", "admitted"}]
  /\ kprio \in [Counters -> Cells] /\ kadm \in [Counters -> BOOLEAN]
  /\ upc \in {"tick", "read", "expect", "margin", "walk", "resetN", "resetNadm", "resetC",
              "swapB", "swapU"}
  /\ foverload \in BOOLEAN
  /\ base \in Nat /\ Nprefix \in Int /\ Nexp \in Nat
  /\ star \in Cells /\ toReset \subseteq Cells

\* The calls counted in a set of cells, and how many they are.
CountedIn(c, S) == UNION {{p} \X (1..c[p]) : p \in S}
Counted(S) == Cardinality(CountedIn(C, S))

\* The level an update arrives at, although calls are counted while it walks: under overload
\* the cells from the level up to the top, which it starts below, hold as many calls as the
\* admitted ones are to be fewer; without overload those above the bottom up to the level
\* hold more than the admitted ones may become; unless the walk has reached the end.
LevelReached ==
  upc = "resetN" /\ base > 0 =>
    IF foverload
    THEN star = Bottom \/ Counted({p \in Cells : Reaches(p, star) /\ p # Top})
                            >= base - Nexp
    ELSE star = Top \/ Counted({p \in Cells : ~Above(p, star) /\ p # Bottom})
                         > Nexp - base

\* The node has closed: only calls of the top priority can be admitted, none is counted as
\* admitted or about to be, and what the update is doing will not open it.
Shut ==
  /\ levelB = Bmax /\ levelU = Umax /\ Nadm = 0
  /\ \A k \in Counters : ~kadm[k] /\ kpc[k] # "admitted"
  /\ \A r \in Requests :
       /\ pc[r] \in {"loadU", "decide"} => seenB[r] = Bmax
       /\ pc[r] = "decide" => seenU[r] = Umax
  /\ upc \notin {"expect", "margin", "walk"}
  /\ upc \notin {"tick", "read"} => star = Top

\* A node that has closed stays closed, whatever the load it sees and however many calls it
\* drops, until it admits a call of the top priority: (Bmax, Umax) is a level that
\* CalculateAdmissionLevel leaves only when a call got through it.
ClosedStays ==
  [][Shut => \/ Shut'
             \/ \E r \in Requests, k \in Counters :
                  prio[r] = Top /\ pc[r] = "decide" /\ pc'[r] = "handle"]_vars

\* Every update that starts ends: the walk over the histogram terminates while calls go on
\* being counted, and the level is renewed.
UpdateDone == upc = "read" ~> upc = "tick"
=============================================================================
