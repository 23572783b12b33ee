----------------------------- MODULE DagorProofs -----------------------------
(***************************************************************************)
(* Theorems of DagorServer for any Bmax, Umax, alpha, beta, any number of  *)
(* calls and counting goroutines: the state keeps its types, so the walk   *)
(* over the histogram never leaves it, each level rests on what has been   *)
(* counted, and a node that has closed opens only through a call of the    *)
(* top priority.  And theorems of DagorEntry, for any users, methods,      *)
(* services and calls.                                                     *)
(***************************************************************************)
EXTENDS DagorServer, DagorEntry, FiniteSetTheorems, TLAPS

LEMMA ConstantTypes ==
  /\ Bmax \in Nat /\ Bmax >= 1 /\ Umax \in Nat /\ Umax >= 1
  /\ Priorities \subseteq Cells
  /\ AlphaPercent \in Int /\ 0 <= AlphaPercent /\ AlphaPercent <= 100
  /\ BetaPercent \in Nat
BY DagorAssumption, PriorityAssumption DEF DagorAssumption, PriorityAssumption, Cells

LEMMA EndsAreCells ==
  /\ Top \in Cells /\ Bottom \in Cells
  /\ Top[1] = Bmax /\ Top[2] = Umax
BY ConstantTypes DEF Top, Bottom, Cells

\* The walk down stays in the histogram until it is at the bottom.
LEMMA LowerInCells == ASSUME NEW p \in Cells, p # Bottom PROVE Lower(p) \in Cells
<1>1. PICK b \in 1..Bmax, u \in 1..Umax : p = <<b, u>>
  BY DEF Cells
<1>2. b > 1 \/ u > 1
  BY <1>1, ConstantTypes DEF Bottom
<1>3. CASE u > 1
  BY <1>1, <1>3, ConstantTypes DEF Lower, Cells
<1>4. CASE ~(u > 1)
  BY <1>1, <1>2, <1>4, ConstantTypes DEF Lower, Cells
<1> QED
  BY <1>3, <1>4

\* The walk up stays in the histogram until it is at the top.
LEMMA RaiseInCells == ASSUME NEW p \in Cells, p # Top PROVE Raise(p) \in Cells
<1>1. PICK b \in 1..Bmax, u \in 1..Umax : p = <<b, u>>
  BY DEF Cells
<1>2. b < Bmax \/ u < Umax
  BY <1>1, ConstantTypes DEF Top
<1>3. CASE u < Umax
  BY <1>1, <1>3, ConstantTypes DEF Raise, Cells
<1>4. CASE ~(u < Umax)
  BY <1>1, <1>2, <1>4, ConstantTypes DEF Raise, Cells
<1> QED
  BY <1>3, <1>4
-----------------------------------------------------------------------------
(* Types.                                                                  *)

LEMMA TypeInit == Init => TypeOK
<1> SUFFICES ASSUME Init PROVE TypeOK
  OBVIOUS
<1>1. Bmax \in 1..Bmax /\ Umax \in 1..Umax
  BY ConstantTypes
<1>2. /\ pc \in [Requests -> {"idle", "loadB", "loadU", "decide", "handle"}]
      /\ prio \in [Requests -> Cells]
      /\ seenB \in [Requests -> 1..Bmax] /\ seenU \in [Requests -> 1..Umax]
  BY <1>1, EndsAreCells DEF Init
<1>3. /\ kpc \in [Counters -> {"idle", "total", "cell", "admitted"}]
      /\ kprio \in [Counters -> Cells] /\ kadm \in [Counters -> BOOLEAN]
      /\ C \in [Cells -> Nat]
  BY EndsAreCells DEF Init
<1>4. foverload \in BOOLEAN /\ star \in Cells /\ toReset \subseteq Cells
  BY EndsAreCells DEF Init
<1> QED
  BY <1>1, <1>2, <1>3, <1>4 DEF Init, TypeOK

LEMMA TypeServe == ASSUME TypeOK, NEW r \in Requests, Serve(r) PROVE TypeOK'
<1> USE DEF TypeOK, Goto, KGoto, levelVars, histVars, reqVars, cntVars, updVars
<1>1. CASE LoadB(r)
  BY <1>1 DEF LoadB
<1>2. CASE LoadU(r)
  BY <1>2 DEF LoadU
<1>3. CASE Reply(r)
  BY <1>3, ConstantTypes, EndsAreCells DEF Reply, Forget
<1>4. ASSUME NEW k \in Counters, Admit(r, k) PROVE TypeOK'
  BY <1>4 DEF Admit, Count
<1>5. ASSUME NEW k \in Counters, Drop(r, k) PROVE TypeOK'
  BY <1>5, ConstantTypes, EndsAreCells DEF Drop, Count, Forget
<1> QED
  BY <1>1, <1>2, <1>3, <1>4, <1>5 DEF Serve

LEMMA TypeTally == ASSUME TypeOK, NEW k \in Counters, Tally(k) PROVE TypeOK'
<1> USE DEF TypeOK, KGoto, levelVars, histVars, reqVars, cntVars, updVars
<1>1. CASE IncrementN(k)
  BY <1>1 DEF IncrementN
<1>2. CASE IncrementCell(k)
  BY <1>2, EndsAreCells DEF IncrementCell
<1>3. CASE IncrementNadm(k)
  BY <1>3 DEF IncrementNadm
<1> QED
  BY <1>1, <1>2, <1>3 DEF Tally

LEMMA TypeUpdate == ASSUME TypeOK, Update PROVE TypeOK'
<1> USE DEF TypeOK, UGoto, levelVars, histVars, reqVars, cntVars, updVars
<1>1. CASE NothingAdmitted
  BY <1>1, EndsAreCells DEF NothingAdmitted
<1>2. CASE SomeAdmitted
  BY <1>2 DEF SomeAdmitted
<1>3. CASE ExpectLess
  <2>1. ((100 - AlphaPercent) * Nadm) \div 100 \in Nat
    <3>1. 100 - AlphaPercent \in Nat
      BY ConstantTypes
    <3>2. (100 - AlphaPercent) * Nadm \in Nat
      BY <3>1
    <3> QED
      BY <3>2
  <2> QED
    BY <1>3, <2>1, EndsAreCells DEF ExpectLess
<1>4. CASE ExpectAll
  BY <1>4 DEF ExpectAll
<1>5. CASE ExpectMore
  <2>1. (BetaPercent * N) \div 100 \in Nat
    <3>1. BetaPercent * N \in Nat
      BY ConstantTypes
    <3> QED
      BY <3>1
  <2> QED
    BY <1>5, <2>1, EndsAreCells DEF ExpectMore
<1>6. CASE WalkDown
  <2>1. star' \in Cells /\ C[star'] \in Nat
    BY <1>6, LowerInCells DEF WalkDown, LowerOn
  <2> QED
    BY <1>6, <2>1 DEF WalkDown
<1>7. CASE WalkUp
  <2>1. star' \in Cells /\ C[star'] \in Nat
    BY <1>7, RaiseInCells DEF WalkUp, RaiseOn
  <2> QED
    BY <1>7, <2>1 DEF WalkUp
<1>8. CASE WalkEnds
  BY <1>8 DEF WalkEnds
<1>9. CASE ResetN
  BY <1>9 DEF ResetN
<1>10. CASE ResetNadm
  BY <1>10 DEF ResetNadm
<1>11. ASSUME NEW p \in Cells, ResetCell(p) PROVE TypeOK'
  BY <1>11 DEF ResetCell
<1>12. CASE SwapB
  BY <1>12 DEF SwapB, Cells
<1>13. CASE SwapU
  BY <1>13, EndsAreCells DEF SwapU, Cells
<1> QED
  BY <1>1, <1>2, <1>3, <1>4, <1>5, <1>6, <1>7, <1>8, <1>9, <1>10, <1>11, <1>12, <1>13
     DEF Update

LEMMA TypeOthers ==
  ASSUME TypeOK,
         \/ \E r \in Requests, p \in Priorities : Arrive(r, p)
         \/ \E overload \in BOOLEAN : Tick(overload)
         \/ UNCHANGED vars
  PROVE  TypeOK'
<1> USE DEF TypeOK, levelVars, histVars, reqVars, cntVars, updVars
<1>1. ASSUME NEW r \in Requests, NEW p \in Priorities, Arrive(r, p) PROVE TypeOK'
  BY <1>1, ConstantTypes DEF Arrive, Goto
<1>2. ASSUME NEW overload \in BOOLEAN, Tick(overload) PROVE TypeOK'
  BY <1>2 DEF Tick, UGoto
<1>3. CASE UNCHANGED vars
  BY <1>3 DEF vars
<1> QED
  BY <1>1, <1>2, <1>3

\* The state of a DagorServer keeps its types: the published level and the walk stay within
\* (1, 1) and (Bmax, Umax), whatever is counted or cleared meanwhile.
THEOREM DagorTypeCorrect == Spec => []TypeOK
<1>1. TypeOK /\ [Next]_vars => TypeOK'
  BY TypeServe, TypeTally, TypeUpdate, TypeOthers DEF Next
<1> QED
  BY <1>1, TypeInit, PTL DEF Spec
-----------------------------------------------------------------------------
(* A node that has closed.                                                 *)

\* What the calls do while a node is shut.
LEMMA ServeShut ==
  ASSUME TypeOK, Shut, NEW r \in Requests, Serve(r)
  PROVE  \/ Shut'
         \/ \E q \in Requests, k \in Counters :
              prio[q] = Top /\ pc[q] = "decide" /\ pc'[q] = "handle"
<1> USE DEF TypeOK, Shut, Goto, KGoto, levelVars, histVars, reqVars, cntVars, updVars
<1>1. CASE LoadB(r)
  BY <1>1 DEF LoadB
<1>2. CASE LoadU(r)
  BY <1>2 DEF LoadU
<1>3. CASE Reply(r)
  BY <1>3 DEF Reply, Forget
<1>4. ASSUME NEW k \in Counters, Admit(r, k) PROVE prio[r] = Top
  <2>1. PICK b \in 1..Bmax, u \in 1..Umax : prio[r] = <<b, u>>
    BY DEF Cells
  <2>2. seenB[r] = Bmax /\ seenU[r] = Umax /\ Reaches(prio[r], <<Bmax, Umax>>)
    BY <1>4 DEF Admit
  <2> QED
    BY <2>1, <2>2, ConstantTypes DEF Reaches, Top
<1>5. ASSUME NEW k \in Counters, Admit(r, k) PROVE pc[r] = "decide" /\ pc'[r] = "handle"
  BY <1>5 DEF Admit
<1>6. ASSUME NEW k \in Counters, Drop(r, k) PROVE Shut'
  BY <1>6 DEF Drop, Count, Forget
<1> QED
  BY <1>1, <1>2, <1>3, <1>4, <1>5, <1>6 DEF Serve

\* What the counting goroutines and the update do while a node is shut: nothing opens it.
LEMMA OthersShut ==
  ASSUME TypeOK, Shut,
         \/ \E k \in Counters : Tally(k)
         \/ Update
         \/ \E r \in Requests, p \in Priorities : Arrive(r, p)
         \/ \E overload \in BOOLEAN : Tick(overload)
         \/ UNCHANGED vars
  PROVE  Shut'
<1> USE DEF TypeOK, Shut, levelVars, histVars, reqVars, cntVars, updVars
<1>1. ASSUME NEW k \in Counters, Tally(k) PROVE Shut'
  <2>1. CASE IncrementN(k) \/ IncrementCell(k)
    <3>1. UNCHANGED <<levelB, levelU, Nadm, kadm, pc, seenB, seenU, upc, star>>
      BY <2>1 DEF IncrementN, IncrementCell
    <3>2. kpc' \in [Counters -> {"idle", "total", "cell"}]
      BY <2>1 DEF IncrementN, IncrementCell, KGoto
    <3> QED
      BY <3>1, <3>2
  <2>2. ~IncrementNadm(k)
    BY DEF IncrementNadm, KGoto
  <2> QED
    BY <1>1, <2>1, <2>2 DEF Tally
<1>2. CASE Update
  <2>1. CASE NothingAdmitted \/ ResetN \/ ResetNadm \/ (\E p \in Cells : ResetCell(p))
    BY <1>2, <2>1 DEF NothingAdmitted, ResetN, ResetNadm, ResetCell, UGoto
  <2>2. CASE SwapB \/ SwapU
    BY <2>2, EndsAreCells DEF SwapB, SwapU, UGoto
  <2>3. ~(SomeAdmitted \/ ExpectLess \/ ExpectAll \/ ExpectMore \/ WalkDown \/ WalkUp \/ WalkEnds)
    BY DEF SomeAdmitted, ExpectLess, ExpectAll, ExpectMore, WalkDown, WalkUp, WalkEnds, UGoto
  <2> QED
    BY <1>2, <2>1, <2>2, <2>3 DEF Update
<1>3. ASSUME NEW r \in Requests, NEW p \in Priorities, Arrive(r, p) PROVE Shut'
  BY <1>3 DEF Arrive, Goto
<1>4. ASSUME NEW overload \in BOOLEAN, Tick(overload) PROVE Shut'
  BY <1>4 DEF Tick, UGoto
<1>5. CASE UNCHANGED vars
  BY <1>5 DEF vars
<1> QED
  BY <1>1, <1>2, <1>3, <1>4, <1>5

\* A closed node stays closed until a call of the top priority is admitted: with a user
\* population that never draws (Bmax, Umax), or a businessMap that never gives Bmax, it admits
\* nothing any more.
THEOREM ClosedStaysClosed == Spec => ClosedStays
<1>1. TypeOK /\ [Next]_vars =>
        (Shut => \/ Shut'
                 \/ \E r \in Requests, k \in Counters :
                      prio[r] = Top /\ pc[r] = "decide" /\ pc'[r] = "handle")
  BY ServeShut, OthersShut DEF Next
<1> QED
  BY <1>1, DagorTypeCorrect, PTL DEF Spec, ClosedStays

-----------------------------------------------------------------------------
(* LevelReached: how many calls a set of cells holds, then what the walk    *)
(* has counted at each of its steps.                                       *)

LEMMA CellsFinite == IsFiniteSet(Cells)
<1>1. IsFiniteSet(1..Bmax) /\ IsFiniteSet(1..Umax)
  BY ConstantTypes, FS_Interval
<1> QED
  BY <1>1, FS_Product DEF Cells

\* The calls counted in one cell.
LEMMA CellCount ==
  ASSUME NEW p, NEW n \in Nat
  PROVE  IsFiniteSet({p} \X (1..n)) /\ Cardinality({p} \X (1..n)) = n
<1>1. IsFiniteSet({p}) /\ Cardinality({p}) = 1
  BY FS_Singleton
<1>2. IsFiniteSet(1..n) /\ Cardinality(1..n) = n
  BY FS_Interval
<1>3. /\ IsFiniteSet({p} \X (1..n))
      /\ Cardinality({p} \X (1..n)) = Cardinality({p}) * Cardinality(1..n)
  BY <1>1, <1>2, FS_Product
<1>4. 1 * n = n
  OBVIOUS
<1> QED
  BY <1>1, <1>2, <1>3, <1>4

LEMMA CountFinite ==
  ASSUME NEW c \in [Cells -> Nat], NEW S \in SUBSET Cells
  PROVE  IsFiniteSet(CountedIn(c, S)) /\ Cardinality(CountedIn(c, S)) \in Nat
<1> DEFINE f == [p \in S |-> {p} \X (1..c[p])]
           T == {{p} \X (1..c[p]) : p \in S}
<1>1. IsFiniteSet(S)
  BY CellsFinite, FS_Subset
<1>2. f \in Surjection(S, T)
  <2>1. f \in [S -> T]
    OBVIOUS
  <2>2. \A t \in T : \E p \in S : f[p] = t
    OBVIOUS
  <2> QED
    BY <2>1, <2>2 DEF Surjection
<1>3. IsFiniteSet(T)
  BY <1>1, <1>2, FS_Surjection
<1>4. \A t \in T : IsFiniteSet(t)
  <2>1. \A p \in S : IsFiniteSet({p} \X (1..c[p]))
    <3> SUFFICES ASSUME NEW p \in S PROVE IsFiniteSet({p} \X (1..c[p]))
      OBVIOUS
    <3>1. c[p] \in Nat
      OBVIOUS
    <3> QED
      BY <3>1, CellCount
  <2> QED
    BY <2>1
<1>5. CountedIn(c, S) = UNION T
  BY DEF CountedIn
<1> HIDE DEF T
<1>6. IsFiniteSet(CountedIn(c, S))
  BY <1>3, <1>4, <1>5, FS_UNION
<1> QED
  BY <1>6, FS_CardinalityType

\* Counting goes on while the level is computed: what a set of cells holds grows.
LEMMA CountGrows ==
  ASSUME NEW c \in [Cells -> Nat], NEW d \in [Cells -> Nat], NEW S \in SUBSET Cells,
         \A p \in Cells : c[p] <= d[p]
  PROVE  Cardinality(CountedIn(c, S)) <= Cardinality(CountedIn(d, S))
<1>1. \A p \in S : 1..c[p] \subseteq 1..d[p]
  <2> SUFFICES ASSUME NEW p \in S PROVE 1..c[p] \subseteq 1..d[p]
    OBVIOUS
  <2>1. c[p] \in Nat /\ d[p] \in Nat /\ c[p] <= d[p]
    OBVIOUS
  <2> QED
    BY <2>1
<1>2. CountedIn(c, S) \subseteq CountedIn(d, S)
  BY <1>1 DEF CountedIn
<1> QED
  BY <1>2, CountFinite, FS_Subset

\* One more cell.
LEMMA CountMore ==
  ASSUME NEW c \in [Cells -> Nat], NEW S \in SUBSET Cells, NEW p \in Cells, p \notin S
  PROVE  Cardinality(CountedIn(c, S \union {p})) = Cardinality(CountedIn(c, S)) + c[p]
<1> DEFINE A == CountedIn(c, S)
           B == {p} \X (1..c[p])
<1>1. c[p] \in Nat
  OBVIOUS
<1>2. CountedIn(c, S \union {p}) = A \union B
  BY DEF CountedIn
<1>3. A \cap B = {}
  BY DEF CountedIn
<1> HIDE DEF A
<1>4. IsFiniteSet(A) /\ Cardinality(A) \in Nat
  BY CountFinite DEF A
<1>5. IsFiniteSet(B) /\ Cardinality(B) = c[p]
  BY <1>1, CellCount
<1> HIDE DEF B
<1>6. Cardinality(A \union B) = Cardinality(A) + Cardinality(B) - Cardinality(A \cap B)
  BY <1>4, <1>5, FS_Union
<1>7. Cardinality(A \union B) = Cardinality(A) + c[p]
  <2>1. Cardinality(A \cap B) = 0
    BY <1>3, FS_EmptySet
  <2> QED
    BY <1>1, <1>4, <1>5, <1>6, <2>1
<1> QED
  BY <1>2, <1>7 DEF A

\* The cells the walk has counted: from the level up, but the top; to the level, but the bottom.
FromLevel(s) == {p \in Cells : Reaches(p, s) /\ p # Top}
ToLevel(s) == {p \in Cells : ~Above(p, s) /\ p # Bottom}

LEMMA OneLower ==
  ASSUME NEW s \in Cells, s # Bottom
  PROVE  /\ Lower(s) \in Cells /\ Lower(s) \notin FromLevel(s)
         /\ FromLevel(Lower(s)) = FromLevel(s) \union {Lower(s)}
<1>1. PICK b \in 1..Bmax, u \in 1..Umax : s = <<b, u>>
  BY DEF Cells
<1>2. b > 1 \/ u > 1
  BY <1>1, ConstantTypes DEF Bottom
<1> DEFINE l == Lower(s)
<1>3. l \in Cells
  BY LowerInCells
<1>4. l[1] = (IF u > 1 THEN b ELSE b - 1) /\ l[2] = (IF u > 1 THEN u - 1 ELSE Umax)
  BY <1>1 DEF Lower
<1>5. ~Reaches(l, <<b, u>>) /\ l # Top
  BY <1>1, <1>2, <1>4, ConstantTypes DEF Reaches, Top
<1>6. ASSUME NEW p \in Cells
      PROVE  Reaches(p, l) <=> Reaches(p, <<b, u>>) \/ p = l
  <2>1. PICK pb \in 1..Bmax, pu \in 1..Umax : p = <<pb, pu>>
    BY DEF Cells
  <2>2. PICK lb \in 1..Bmax, lu \in 1..Umax : l = <<lb, lu>>
    BY <1>3 DEF Cells
  <2>3. lb = (IF u > 1 THEN b ELSE b - 1) /\ lu = (IF u > 1 THEN u - 1 ELSE Umax)
    BY <1>4, <2>2
  <2>4. p = l <=> pb = lb /\ pu = lu
    BY <2>1, <2>2
  <2> HIDE DEF l
  <2>5. Reaches(p, l) <=> pb > lb \/ (pb = lb /\ pu >= lu)
    BY <2>1, <2>2 DEF Reaches
  <2>6. Reaches(p, <<b, u>>) <=> pb > b \/ (pb = b /\ pu >= u)
    BY <2>1 DEF Reaches
  <2>7. (pb > lb \/ (pb = lb /\ pu >= lu))
          <=> (pb > b \/ (pb = b /\ pu >= u)) \/ (pb = lb /\ pu = lu)
    BY <2>3, ConstantTypes
  <2> QED
    BY <2>4, <2>5, <2>6, <2>7
<1> HIDE DEF l
<1>7. FromLevel(l) = FromLevel(s) \union {l}
  BY <1>1, <1>3, <1>5, <1>6 DEF FromLevel
<1>8. l \notin FromLevel(s)
  BY <1>1, <1>5 DEF FromLevel
<1> QED
  BY <1>3, <1>7, <1>8 DEF l

LEMMA OneHigher ==
  ASSUME NEW s \in Cells, s # Top
  PROVE  /\ Raise(s) \in Cells /\ Raise(s) \notin ToLevel(s)
         /\ ToLevel(Raise(s)) = ToLevel(s) \union {Raise(s)}
<1>1. PICK b \in 1..Bmax, u \in 1..Umax : s = <<b, u>>
  BY DEF Cells
<1>2. b < Bmax \/ u < Umax
  BY <1>1, ConstantTypes DEF Top
<1> DEFINE h == Raise(s)
<1>3. PICK hb \in 1..Bmax, hu \in 1..Umax : h = <<hb, hu>>
  BY RaiseInCells DEF Cells
<1>4. hb = (IF u < Umax THEN b ELSE b + 1) /\ hu = (IF u < Umax THEN u + 1 ELSE 1)
  BY <1>1, <1>3 DEF Raise
<1> HIDE DEF h
<1>5. h \in Cells /\ h # Bottom
  BY <1>2, <1>3, <1>4, ConstantTypes DEF Cells, Bottom
<1>6. ASSUME NEW p \in Cells
      PROVE  ~Above(p, h) <=> ~Above(p, s) \/ p = h
  <2>1. PICK pb \in 1..Bmax, pu \in 1..Umax : p = <<pb, pu>>
    BY DEF Cells
  <2>2. Above(p, h) <=> pb > hb \/ (pb = hb /\ pu > hu)
    BY <1>3, <2>1 DEF Above, Reaches
  <2>3. Above(p, s) <=> pb > b \/ (pb = b /\ pu > u)
    BY <1>1, <2>1 DEF Above, Reaches
  <2>4. p = h <=> pb = hb /\ pu = hu
    BY <1>3, <2>1
  <2>5. ~(pb > hb \/ (pb = hb /\ pu > hu))
          <=> ~(pb > b \/ (pb = b /\ pu > u)) \/ (pb = hb /\ pu = hu)
    BY <1>4, ConstantTypes
  <2> QED
    BY <2>2, <2>3, <2>4, <2>5
<1>7. ToLevel(h) = ToLevel(s) \union {h}
  BY <1>5, <1>6 DEF ToLevel
<1>8. h \notin ToLevel(s)
  <2>1. Above(h, s)
    BY <1>1, <1>2, <1>3, <1>4, ConstantTypes DEF Above, Reaches
  <2> QED
    BY <2>1 DEF ToLevel
<1> QED
  BY <1>5, <1>7, <1>8 DEF h

\* What the walk knows: Nprefix has moved away from the number of admitted calls, base, by no
\* more than the cells it has passed hold.
WalkInv ==
  /\ upc \notin {"expect", "margin", "walk", "resetN"} => base = 0
  /\ upc \in {"expect", "margin"} => Nprefix = base
  /\ upc = "margin" => ~foverload
  /\ upc = "walk" /\ foverload => base - Nprefix <= Counted(FromLevel(star))
  /\ upc = "walk" /\ ~foverload => Nprefix - base <= Counted(ToLevel(star))
  /\ LevelReached

LEMMA LevelReachedAs ==
  LevelReached <=>
    (upc = "resetN" /\ base > 0 =>
       IF foverload THEN star = Bottom \/ Counted(FromLevel(star)) >= base - Nexp
                    ELSE star = Top \/ Counted(ToLevel(star)) > Nexp - base)
BY DEF LevelReached, FromLevel, ToLevel

LEMMA WalkInit == Init => WalkInv
BY DEF Init, WalkInv, LevelReached

\* Steps of others add to the histogram and leave the update alone.
LEMMA CountingKeepsWalk ==
  ASSUME TypeOK, WalkInv, \A p \in Cells : C[p] <= C'[p], C' \in [Cells -> Nat],
         UNCHANGED <<upc, base, Nprefix, Nexp, foverload, star>>
  PROVE  WalkInv'
<1>1. C \in [Cells -> Nat] /\ base \in Int /\ Nprefix \in Int /\ Nexp \in Int
  BY DEF TypeOK
<1>2. ASSUME NEW S \in SUBSET Cells
      PROVE  Counted(S) \in Int /\ Counted(S)' \in Int /\ Counted(S) <= Counted(S)'
  BY <1>1, CountFinite, CountGrows DEF Counted
<1>3. FromLevel(star) \in SUBSET Cells /\ ToLevel(star) \in SUBSET Cells
  BY DEF FromLevel, ToLevel
<1> DEFINE A == Counted(FromLevel(star))
           B == Counted(ToLevel(star))
<1>4. A \in Int /\ A' \in Int /\ A <= A' /\ B \in Int /\ B' \in Int /\ B <= B'
  <2>1. FromLevel(star)' = FromLevel(star) /\ ToLevel(star)' = ToLevel(star)
    BY DEF FromLevel, ToLevel
  <2> QED
    BY <1>2, <1>3, <2>1 DEF Counted
<1>5. /\ upc = "walk" /\ foverload => base - Nprefix <= A'
      /\ upc = "walk" /\ ~foverload => Nprefix - base <= B'
  <2> HIDE DEF A, B
  <2>1. /\ upc = "walk" /\ foverload => base - Nprefix <= A
        /\ upc = "walk" /\ ~foverload => Nprefix - base <= B
    BY DEF WalkInv, A, B
  <2> QED
    BY <1>1, <1>4, <2>1
<1>6. LevelReached'
  <2> HIDE DEF A, B
  <2>1. upc = "resetN" /\ base > 0 =>
          IF foverload THEN star = Bottom \/ A >= base - Nexp
                       ELSE star = Top \/ B > Nexp - base
    BY LevelReachedAs DEF WalkInv, A, B
  <2>2. upc = "resetN" /\ base > 0 =>
          IF foverload THEN star = Bottom \/ A' >= base - Nexp
                       ELSE star = Top \/ B' > Nexp - base
    BY <1>1, <1>4, <2>1
  <2> QED
    BY <2>2 DEF LevelReached, A, B, FromLevel, ToLevel, Top, Bottom
<1> QED
  BY <1>5, <1>6 DEF WalkInv

LEMMA WalkDownKeeps == ASSUME TypeOK, WalkInv, WalkDown PROVE WalkInv'
<1> DEFINE l == Lower(star)
<1>1. /\ upc = "walk" /\ upc' = "walk" /\ foverload /\ foverload' = foverload
      /\ star # Bottom /\ star' = l /\ Nprefix' = Nprefix - C[l]
      /\ UNCHANGED <<C, base>>
  BY DEF WalkDown, LowerOn, histVars
<1>2. star \in Cells /\ C \in [Cells -> Nat] /\ base \in Int /\ Nprefix \in Int
  BY DEF TypeOK
<1>3. l \in Cells /\ l \notin FromLevel(star) /\ FromLevel(l) = FromLevel(star) \union {l}
  BY <1>1, <1>2, OneLower
<1> HIDE DEF l
<1>4. FromLevel(star) \in SUBSET Cells
  BY DEF FromLevel
<1>5. /\ Counted(FromLevel(l)) = Counted(FromLevel(star)) + C[l]
      /\ Counted(FromLevel(star)) \in Int /\ C[l] \in Int
  BY <1>2, <1>3, <1>4, CountMore, CountFinite DEF Counted
<1>6. base - Nprefix <= Counted(FromLevel(star))
  BY <1>1 DEF WalkInv
<1>7. Counted(FromLevel(star))' = Counted(FromLevel(l))
  BY <1>1 DEF Counted, FromLevel
<1>8. base' - Nprefix' <= Counted(FromLevel(star))'
  BY <1>1, <1>2, <1>5, <1>6, <1>7
<1> QED
  BY <1>1, <1>8 DEF WalkInv, LevelReached

LEMMA WalkUpKeeps == ASSUME TypeOK, WalkInv, WalkUp PROVE WalkInv'
<1> DEFINE h == Raise(star)
<1>1. /\ upc = "walk" /\ upc' = "walk" /\ ~foverload /\ foverload' = foverload
      /\ star # Top /\ star' = h /\ Nprefix' = Nprefix + C[h]
      /\ UNCHANGED <<C, base>>
  BY DEF WalkUp, RaiseOn, histVars
<1>2. star \in Cells /\ C \in [Cells -> Nat] /\ base \in Int /\ Nprefix \in Int
  BY DEF TypeOK
<1>3. h \in Cells /\ h \notin ToLevel(star) /\ ToLevel(h) = ToLevel(star) \union {h}
  BY <1>1, <1>2, OneHigher
<1> HIDE DEF h
<1>4. ToLevel(star) \in SUBSET Cells
  BY DEF ToLevel
<1>5. /\ Counted(ToLevel(h)) = Counted(ToLevel(star)) + C[h]
      /\ Counted(ToLevel(star)) \in Int /\ C[h] \in Int
  BY <1>2, <1>3, <1>4, CountMore, CountFinite DEF Counted
<1>6. Nprefix - base <= Counted(ToLevel(star))
  BY <1>1 DEF WalkInv
<1>7. Counted(ToLevel(star))' = Counted(ToLevel(h))
  BY <1>1 DEF Counted, ToLevel
<1>8. Nprefix' - base' <= Counted(ToLevel(star))'
  BY <1>1, <1>2, <1>5, <1>6, <1>7
<1> QED
  BY <1>1, <1>8 DEF WalkInv, LevelReached

LEMMA WalkEndsKeeps == ASSUME TypeOK, WalkInv, WalkEnds PROVE WalkInv'
<1>1. /\ upc = "walk" /\ upc' = "resetN" /\ ~LowerOn /\ ~RaiseOn
      /\ UNCHANGED <<C, base, Nprefix, Nexp, foverload, star>>
  BY DEF WalkEnds, UGoto, histVars
<1>2. /\ C \in [Cells -> Nat] /\ base \in Int /\ Nprefix \in Int /\ Nexp \in Int
      /\ foverload \in BOOLEAN
  BY DEF TypeOK
<1>3. Counted(FromLevel(star)) \in Int /\ Counted(ToLevel(star)) \in Int
  <2>1. FromLevel(star) \in SUBSET Cells /\ ToLevel(star) \in SUBSET Cells
    BY DEF FromLevel, ToLevel
  <2> QED
    BY <1>2, <2>1, CountFinite DEF Counted
<1>4. IF foverload THEN star = Bottom \/ Counted(FromLevel(star)) >= base - Nexp
                   ELSE star = Top \/ Counted(ToLevel(star)) > Nexp - base
  <2>1. CASE foverload
    BY <1>1, <1>2, <1>3, <2>1 DEF WalkInv, LowerOn
  <2>2. CASE ~foverload
    BY <1>1, <1>2, <1>3, <2>2 DEF WalkInv, RaiseOn
  <2> QED
    BY <2>1, <2>2
<1>5. LevelReached'
  BY <1>1, <1>4 DEF LevelReached, Counted, FromLevel, ToLevel
<1> QED
  BY <1>1, <1>5 DEF WalkInv

LEMMA UpdateKeepsWalk == ASSUME TypeOK, WalkInv, Update PROVE WalkInv'
<1> USE DEF UGoto, histVars, updVars
<1>1. CASE NothingAdmitted
  BY <1>1 DEF NothingAdmitted, WalkInv, LevelReached
<1>2. CASE SomeAdmitted
  BY <1>2 DEF SomeAdmitted, WalkInv, LevelReached
<1>3. CASE ExpectLess \/ ExpectMore
  <2>1. /\ upc \in {"expect", "margin"} /\ upc' = "walk"
        /\ UNCHANGED <<C, base, Nprefix, foverload>>
    BY <1>3 DEF ExpectLess, ExpectMore
  <2>2. Nprefix = base /\ base \in Int /\ C \in [Cells -> Nat]
    BY <2>1 DEF WalkInv, TypeOK
  <2>3. base - Nprefix = 0 /\ Nprefix - base = 0
    BY <2>2
  <2>4. Counted(FromLevel(star'))  >= 0 /\ Counted(ToLevel(star')) >= 0
    <3>1. FromLevel(star') \in SUBSET Cells /\ ToLevel(star') \in SUBSET Cells
      BY DEF FromLevel, ToLevel
    <3>2. Counted(FromLevel(star')) \in Nat /\ Counted(ToLevel(star')) \in Nat
      BY <2>2, <3>1, CountFinite DEF Counted
    <3> QED
      BY <3>2
  <2>5. /\ Counted(FromLevel(star))' = Counted(FromLevel(star'))
        /\ Counted(ToLevel(star))' = Counted(ToLevel(star'))
    BY <2>1 DEF Counted, FromLevel, ToLevel
  <2> QED
    BY <2>1, <2>3, <2>4, <2>5 DEF WalkInv, LevelReached
<1>4. CASE ExpectAll
  BY <1>4 DEF ExpectAll, WalkInv, LevelReached
<1>5. CASE WalkDown \/ WalkUp \/ WalkEnds
  BY <1>5, WalkDownKeeps, WalkUpKeeps, WalkEndsKeeps
<1>6. CASE ResetN
  BY <1>6 DEF ResetN, WalkInv, LevelReached
<1>7. CASE ResetNadm \/ (\E p \in Cells : ResetCell(p)) \/ SwapB \/ SwapU
  BY <1>7 DEF ResetNadm, ResetCell, SwapB, SwapU, WalkInv, LevelReached
<1> QED
  BY <1>1, <1>2, <1>3, <1>4, <1>5, <1>6, <1>7 DEF Update

LEMMA WalkStep == TypeOK /\ WalkInv /\ [Next]_vars => WalkInv'
<1> SUFFICES ASSUME TypeOK, WalkInv, [Next]_vars PROVE WalkInv'
  OBVIOUS
<1>1. CASE /\ C' = C /\ UNCHANGED <<upc, base, Nprefix, Nexp, foverload, star>>
  <2>1. \A p \in Cells : C[p] <= C'[p]
    BY <1>1 DEF TypeOK
  <2> QED
    BY <1>1, <2>1, CountingKeepsWalk DEF TypeOK
<1>2. ASSUME NEW k \in Counters, IncrementCell(k) PROVE WalkInv'
  <2>1. C' = [C EXCEPT ![kprio[k]] = @ + 1] /\ kprio[k] \in Cells /\ C \in [Cells -> Nat]
        /\ UNCHANGED <<upc, base, Nprefix, Nexp, foverload, star>>
    BY <1>2 DEF IncrementCell, TypeOK, updVars
  <2>2. C' \in [Cells -> Nat] /\ \A p \in Cells : C[p] <= C'[p]
    BY <2>1
  <2> QED
    BY <2>1, <2>2, CountingKeepsWalk
<1>3. ASSUME NEW r \in Requests, (\E p \in Priorities : Arrive(r, p)) \/ Serve(r)
      PROVE  WalkInv'
  BY <1>1, <1>3 DEF Arrive, Serve, LoadB, LoadU, Reply, Admit, Drop, histVars, updVars
<1>4. ASSUME NEW k \in Counters, Tally(k) PROVE WalkInv'
  <2>1. CASE IncrementN(k) \/ IncrementNadm(k)
    BY <1>1, <2>1 DEF IncrementN, IncrementNadm, updVars
  <2> QED
    BY <1>2, <1>4, <2>1 DEF Tally
<1>5. ASSUME NEW overload \in BOOLEAN, Tick(overload) PROVE WalkInv'
  BY <1>5 DEF Tick, UGoto, WalkInv, LevelReached, histVars
<1>6. CASE Update
  BY <1>6, UpdateKeepsWalk
<1>7. CASE UNCHANGED vars
  BY <1>1, <1>7 DEF vars, histVars, updVars
<1> QED
  BY <1>2, <1>3, <1>4, <1>5, <1>6, <1>7 DEF Next

\* Calls counted while CalculateAdmissionLevel walks never make it stop at a level that the
\* histogram does not justify: the cells it has passed hold the calls it was to cut or to add.
THEOREM LevelIsReached == Spec => []LevelReached
<1>1. Init => TypeOK /\ WalkInv
  BY TypeInit, WalkInit
<1>2. TypeOK /\ WalkInv /\ [Next]_vars => (TypeOK /\ WalkInv)'
  BY WalkStep, TypeServe, TypeTally, TypeUpdate, TypeOthers DEF Next
<1>3. WalkInv => LevelReached
  BY DEF WalkInv
<1> QED
  BY <1>1, <1>2, <1>3, PTL DEF Spec
-----------------------------------------------------------------------------
(* The entry service.                                                      *)

LEMMA EntryConstants ==
  /\ Bmax \in Nat \ {0} /\ Umax \in Nat \ {0}
         /\ BusinessMap \in [Methods -> 1..Bmax]
         /\ Route \in [Methods -> Seq(Services) \ {<<>>}]
         /\ Levels \subseteq Cells
         /\ Users # {} /\ Methods # {}
  BY EntryAssumption, PriorityAssumption DEF EntryAssumption, PriorityAssumption

\* A user of whom no two calls were ever drawing together has at most one that draws, and
\* none that has its priority yet.
DrawsAlone ==
  \A c, d \in Calls :
    at[c] = "draw" /\ user[c] \notin raced =>
      /\ userPriority[user[c]] = 0
      /\ at[d] = "draw" /\ user[d] = user[c] => d = c

\* From the start a call carries the business value of its method.
Business ==
  \A c \in Calls :
    at[c] \in {"lookup", "draw"} \/ Assigned(c) => carries[c][1] = BusinessMap[method[c]]

\* The thresholds a call brings back are those it reached.
HeaderReached ==
  \A c \in Calls :
    at[c] = "handle" => header[c] \in Cells /\ Reaches(carries[c], header[c])

EntryInv == EntryTypeOK /\ DrawsAlone /\ Business /\ HeaderReached /\ OnePriority /\ WithinReach

LEMMA AnyTypes ==
  AnyUser \in Users /\ AnyMethod \in Methods
  BY EntryConstants DEF AnyUser, AnyMethod

LEMMA RouteType ==
  ASSUME NEW m \in Methods
  PROVE  /\ Route[m] \in Seq(Services)
         /\ Route[m] # <<>>
  BY EntryConstants

LEMMA BusinessType ==
  ASSUME NEW m \in Methods
  PROVE  BusinessMap[m] \in 1..Bmax
  BY EntryConstants

LEMMA EntryInvInit ==
  ASSUME EntryInit
  PROVE  EntryInv
  <1> USE EntryConstants, AnyTypes DEF EntryInit
  <1>1. EntryTypeOK
    BY DEF EntryTypeOK, Cells, Top, NoLevel, Nodes, PCs,
           Assigned
  <1>2. DrawsAlone /\ Business /\ HeaderReached /\ OnePriority
    BY DEF DrawsAlone, Business, HeaderReached, OnePriority, Assigned
  <1>3. WithinReach
    BY BusinessType DEF WithinReach, NoLevel
  <1> QED
    BY <1>1, <1>2, <1>3 DEF EntryInv

\* However a call ends, the locals it forgets were the only thing it held.
LEMMA ForgetKeeps ==
  ASSUME EntryInv, NEW c \in Calls, Release(c),
         UNCHANGED <<userPriority, raced, level>>,
         NEW to \in {"idle", "limited", "failed"}, at' = [at EXCEPT ![c] = to],
         NEW m \in Methods, method' = [method EXCEPT ![c] = m],
         thresholdTable' \in [Methods -> Cells \union {NoLevel}], WithinReach'
  PROVE  EntryInv'
  <1> USE AnyTypes DEF EntryInv, Release
  <1>1. EntryTypeOK'
    <2> USE DEF EntryTypeOK
    <2>1. /\ at' \in [Calls -> PCs] /\ user' \in [Calls -> Users]
          /\ method' \in [Calls -> Methods] /\ left' \in [Calls -> Seq(Services)]
      BY DEF PCs
    <2>2. carries' \in [Calls -> (0..Bmax) \X (0..Umax)]
      <3>1. NoLevel \in (0..Bmax) \X (0..Umax)
        BY EntryConstants DEF NoLevel
      <3>2. /\ carries \in [Calls -> (0..Bmax) \X (0..Umax)]
            /\ carries' = [carries EXCEPT ![c] = NoLevel]
        OBVIOUS
      <3> QED
        BY ONLY <3>1, <3>2
    <2>3. header' \in [Calls -> Cells \union {NoLevel}]
      OBVIOUS
    <2>4. \A d \in Calls : Assigned(d)' => carries'[d] \in Cells
      BY DEF Assigned
    <2>5. \A d \in Calls : at'[d] \in {"send", "serve", "handle"} => left'[d] # <<>>
      OBVIOUS
    <2> QED
      BY <2>1, <2>2, <2>3, <2>4, <2>5
  <1>2. DrawsAlone' /\ OnePriority'
    BY DEF EntryTypeOK, DrawsAlone, OnePriority, Assigned
  <1>3. Business' /\ HeaderReached'
    BY DEF EntryTypeOK, Business, HeaderReached, Assigned, Reaches
  <1> QED
    BY <1>1, <1>2, <1>3

LEMMA ChangeLevelKeeps ==
  ASSUME EntryInv, NEW n \in Nodes, NEW l \in Levels, ChangeLevel(n, l)
  PROVE  EntryInv'
  <1>1. level' \in [Nodes -> Cells]
    BY EntryConstants DEF EntryInv, EntryTypeOK, ChangeLevel
  <1> QED
    BY <1>1 DEF ChangeLevel, callVars, EntryInv, EntryTypeOK, DrawsAlone,
                Business, HeaderReached,
                OnePriority, WithinReach, Assigned

LEMMA ArriveKeeps ==
  ASSUME EntryInv, NEW c \in Calls, NEW u \in Users, NEW m \in Methods,
         Enter(c, u, m)
  PROVE  EntryInv'
  <1> USE DEF EntryInv, Enter, Move, nodeVars
  <1>1. carries' \in [Calls -> (0..Bmax) \X (0..Umax)]
    <2>1. BusinessMap[m] \in 0..Bmax /\ 0 \in 0..Umax
      BY BusinessType, EntryConstants
    <2> QED
      BY <2>1 DEF EntryTypeOK
  <1>2. EntryTypeOK'
    BY <1>1 DEF EntryTypeOK, PCs, Assigned
  <1>3. DrawsAlone' /\ OnePriority' /\ WithinReach'
    BY DEF EntryTypeOK, DrawsAlone, OnePriority, WithinReach,
           WithinReach, Assigned
  <1>4. Business' /\ HeaderReached'
    BY DEF EntryTypeOK, Business, HeaderReached, Assigned
  <1> QED
    BY <1>2, <1>3, <1>4

LEMMA LoadPriorityKeeps ==
  ASSUME EntryInv, NEW c \in Calls, LoadPriority(c)
  PROVE  EntryInv'
  <1> USE DEF EntryInv, Move
  <1>1. CASE userPriority[user[c]] = 0
    <2> Missing(c)
      BY <1>1 DEF LoadPriority
    <2> USE DEF Missing
    <2>1. EntryTypeOK' /\ Business' /\ HeaderReached'
      BY DEF EntryTypeOK, Business, HeaderReached, Assigned, PCs
    <2>2. DrawsAlone'
      BY <1>1 DEF EntryTypeOK, DrawsAlone
    <2>3. OnePriority' /\ WithinReach'
      BY DEF EntryTypeOK, OnePriority, WithinReach,
             Assigned
    <2> QED
      BY <2>1, <2>2, <2>3
  <1>2. CASE userPriority[user[c]] # 0
    <2> DEFINE u == user[c]
               p == <<carries[c][1], userPriority[u]>>
    <2>1. /\ at[c] = "lookup" /\ at' = [at EXCEPT ![c] = "admit"]
          /\ carries' = [carries EXCEPT ![c] = p]
          /\ UNCHANGED <<userPriority, raced, thresholdTable, level, user, method, left,
                         header>>
      BY <1>2 DEF LoadPriority, nodeVars
    <2>2. p = <<BusinessMap[method[c]], userPriority[u]>> /\ p \in Cells
      BY <1>2, <2>1, BusinessType DEF EntryTypeOK, Business, Cells
    <2>3. p \in (0..Bmax) \X (0..Umax)
      BY <2>2, EntryConstants DEF Cells
    <2> HIDE DEF p
    <2>4. EntryTypeOK'
      BY <2>1, <2>2, <2>3 DEF EntryTypeOK, Assigned, PCs
    <2>5. OnePriority' /\ Business'
      BY <2>1, <2>2 DEF EntryTypeOK, OnePriority, Business, Assigned
    <2>6. DrawsAlone' /\ HeaderReached' /\ WithinReach'
      BY <2>1 DEF EntryTypeOK, DrawsAlone, HeaderReached, WithinReach
    <2> QED
      BY <2>4, <2>5, <2>6
  <1> QED
    BY <1>1, <1>2

\* The other users' priorities stay, and the user that draws alone had none before.
LEMMA StorePriorityKeeps ==
  ASSUME EntryInv, NEW c \in Calls, NEW U \in Drawn, StorePriority(c, U)
  PROVE  EntryInv'
  <1> DEFINE p == <<carries[c][1], U>>
  <1> USE DEF EntryInv
  <1>1. /\ at[c] = "draw" /\ at' = [at EXCEPT ![c] = "admit"]
        /\ carries' = [carries EXCEPT ![c] = p]
        /\ userPriority' = [userPriority EXCEPT ![user[c]] = U]
        /\ UNCHANGED <<raced, thresholdTable, level, user, method, left, header>>
    BY DEF StorePriority, Move
  <1>2. /\ p = <<BusinessMap[method[c]], U>> /\ p \in Cells /\ U \in 1..Umax
        /\ p \in (0..Bmax) \X (0..Umax)
    BY <1>1, BusinessType, EntryConstants DEF EntryTypeOK, Business, Cells, Drawn
  <1> HIDE DEF p
  <1>3. EntryTypeOK'
    <2>1. userPriority' \in [Users -> 0..Umax]
      BY <1>1, <1>2, EntryConstants DEF EntryTypeOK
    <2> QED
      BY <1>1, <1>2, <2>1 DEF EntryTypeOK, Assigned, PCs
  <1>4. DrawsAlone'
    BY <1>1 DEF EntryTypeOK, DrawsAlone
  <1>5. Business' /\ HeaderReached'
    BY <1>1, <1>2 DEF EntryTypeOK, Business, HeaderReached, Assigned
  <1>6. user[c] \notin raced =>
          userPriority[user[c]] = 0 /\ \A d \in Calls : user[d] = user[c] => ~Assigned(d)
    <2> SUFFICES ASSUME user[c] \notin raced, NEW d \in Calls, user[d] = user[c],
                        Assigned(d)
                 PROVE  FALSE
      BY <1>1 DEF DrawsAlone
    <2>1. carries[d] = <<BusinessMap[method[d]], 0>> /\ carries[d] \in Cells
      BY <1>1 DEF DrawsAlone, OnePriority, EntryTypeOK
    <2> QED
      BY <2>1 DEF Cells
  <1>7. OnePriority'
    BY <1>1, <1>2, <1>6 DEF EntryTypeOK, OnePriority, Assigned
  <1>8. WithinReach'
    <2> SUFFICES ASSUME NEW m \in Methods, raced = {}, thresholdTable[m] # NoLevel
                 PROVE  \E u \in Users :
                          /\ userPriority'[u] # 0
                          /\ Reaches(<<BusinessMap[m], userPriority'[u]>>,
                                           thresholdTable[m])
      BY <1>1 DEF WithinReach
    <2>1. PICK u \in Users :
            /\ userPriority[u] # 0
            /\ Reaches(<<BusinessMap[m], userPriority[u]>>, thresholdTable[m])
      BY DEF WithinReach
    <2>2. userPriority'[u] = userPriority[u]
      BY <1>1, <1>6, <2>1 DEF EntryTypeOK
    <2> QED
      BY <2>1, <2>2
  <1> QED
    BY <1>3, <1>4, <1>5, <1>7, <1>8

LEMMA AdmitHereKeeps ==
  ASSUME EntryInv, NEW c \in Calls, AdmitHere(c)
  PROVE  EntryInv'
  <1> USE DEF EntryInv, AdmitHere, Move, nodeVars
  <1>1. method[c] \in Methods /\ Assigned(c)
    BY DEF EntryTypeOK, Assigned
  <1>2. EntryTypeOK'
    BY <1>1, RouteType DEF EntryTypeOK, Assigned, PCs
  <1>3. DrawsAlone' /\ OnePriority' /\ WithinReach' /\ Business' /\ HeaderReached'
    BY <1>1 DEF EntryTypeOK, DrawsAlone, OnePriority, WithinReach,
                WithinReach, Business, HeaderReached, Assigned
  <1> QED
    BY <1>2, <1>3

LEMMA SendKeeps ==
  ASSUME EntryInv, NEW c \in Calls, Send(c)
  PROVE  EntryInv'
  <1> USE DEF EntryInv, Send, Move, nodeVars
  <1>1. EntryTypeOK'
    BY DEF EntryTypeOK, Assigned, PCs
  <1>2. DrawsAlone' /\ OnePriority' /\ WithinReach' /\ Business' /\ HeaderReached'
    BY DEF EntryTypeOK, DrawsAlone, OnePriority, WithinReach,
           WithinReach, Business, HeaderReached, Assigned
  <1> QED
    BY <1>1, <1>2

LEMMA AdmitThereKeeps ==
  ASSUME EntryInv, NEW c \in Calls, AdmitThere(c)
  PROVE  EntryInv'
  <1> DEFINE l == level[Head(left[c])]
  <1> USE DEF EntryInv
  <1>1. /\ at[c] = "serve" /\ at' = [at EXCEPT ![c] = "handle"]
        /\ Reaches(carries[c], l) /\ header' = [header EXCEPT ![c] = l]
        /\ UNCHANGED <<nodeVars, user, method, carries, left>>
    BY DEF AdmitThere, Move
  <1>2. l \in Cells
    <2>1. left[c] \in Seq(Services) /\ left[c] # <<>>
      BY <1>1 DEF EntryTypeOK
    <2>2. Head(left[c]) \in Services
      BY <2>1
    <2> QED
      BY <2>2 DEF EntryTypeOK, Nodes
  <1> HIDE DEF l
  <1>3. EntryTypeOK'
    BY <1>1, <1>2 DEF nodeVars, EntryTypeOK, Assigned, PCs
  <1>4. DrawsAlone' /\ OnePriority' /\ WithinReach' /\ Business'
    BY <1>1 DEF nodeVars, EntryTypeOK, DrawsAlone, OnePriority,
                WithinReach, Business, Assigned
  <1>5. HeaderReached'
    BY <1>1, <1>2 DEF EntryTypeOK, HeaderReached, Reaches
  <1> QED
    BY <1>3, <1>4, <1>5

\* A response: the thresholds it brings are those its call reached.
LEMMA ReturnKeeps ==
  ASSUME EntryInv, NEW c \in Calls, Return(c)
  PROVE  EntryInv'
  <1> DEFINE m == method[c]
  <1> USE DEF EntryInv
  <1>1. /\ at[c] = "handle" /\ m \in Methods /\ user[c] \in Users
        /\ thresholdTable' = [thresholdTable EXCEPT ![m] = header[c]]
        /\ UNCHANGED <<userPriority, raced, level>>
    BY DEF Return, Learn, Attached, EntryTypeOK
  <1>2. /\ header[c] \in Cells /\ Reaches(carries[c], header[c])
        /\ carries[c] \in Cells /\ carries[c][1] = BusinessMap[m]
        /\ user[c] \notin raced => carries[c] = <<BusinessMap[m], userPriority[user[c]]>>
    BY <1>1 DEF HeaderReached, EntryTypeOK, Assigned, Business, OnePriority,
                OnePriority
  <1>3. thresholdTable' \in [Methods -> Cells \union {NoLevel}]
    BY <1>1, <1>2 DEF EntryTypeOK
  <1>4. WithinReach'
    <2> SUFFICES ASSUME NEW n \in Methods
                 PROVE  /\ thresholdTable'[n][1] <= BusinessMap[n]
                        /\ raced = {} /\ thresholdTable'[n] # NoLevel
                             => \E u \in Users :
                                  /\ userPriority[u] # 0
                                  /\ Reaches(<<BusinessMap[n], userPriority[u]>>,
                                             thresholdTable'[n])
      BY <1>1 DEF WithinReach
    <2>1. CASE n = m
      <3>1. thresholdTable'[n] = header[c]
        BY <1>1, <2>1 DEF EntryTypeOK
      <3>2. header[c][1] <= BusinessMap[n]
        BY <1>2, <2>1 DEF Reaches, Cells
      <3>3. raced = {} => userPriority[user[c]] # 0
        BY <1>2 DEF Cells
      <3> QED
        BY <1>1, <1>2, <2>1, <3>1, <3>2, <3>3
    <2>2. CASE n # m
      BY <1>1, <2>2 DEF EntryTypeOK, WithinReach
    <2> QED
      BY <2>1, <2>2
  <1>5. CASE Tail(left[c]) = <<>>
    <2>1. Release(c) /\ at' = [at EXCEPT ![c] = "idle"]
          /\ method' = [method EXCEPT ![c] = AnyMethod]
      BY <1>5 DEF Return, End
    <2> QED
      BY <1>1, <1>3, <1>4, <2>1, AnyTypes, ForgetKeeps
  <1>6. CASE Tail(left[c]) # <<>>
    <2>1. /\ at' = [at EXCEPT ![c] = "send"]
          /\ left' = [left EXCEPT ![c] = Tail(@)]
          /\ header' = [header EXCEPT ![c] = NoLevel]
          /\ UNCHANGED <<user, method, carries>>
      BY <1>6 DEF Return
    <2>2. Tail(left[c]) \in Seq(Services)
      <3>1. left[c] \in Seq(Services) /\ left[c] # <<>>
        BY <1>1 DEF EntryTypeOK
      <3> QED
        BY <3>1
    <2>3. EntryTypeOK'
      BY <1>1, <1>3, <1>6, <2>1, <2>2 DEF EntryTypeOK, Assigned, PCs
    <2>4. DrawsAlone' /\ OnePriority' /\ Business' /\ HeaderReached'
      BY <1>1, <2>1 DEF EntryTypeOK, DrawsAlone, OnePriority, Business,
                        HeaderReached, Assigned
    <2> QED
      BY <1>4, <2>3, <2>4
  <1> QED
    BY <1>5, <1>6

LEMMA EndKeeps ==
  ASSUME EntryInv, NEW c \in Calls, End(c), UNCHANGED nodeVars
  PROVE  EntryInv'
  <1>1. WithinReach' /\ thresholdTable' \in [Methods -> Cells \union {NoLevel}]
    BY DEF EntryInv, EntryTypeOK, WithinReach, nodeVars
  <1> QED
    BY <1>1, AnyTypes, ForgetKeeps DEF End, nodeVars

LEMMA StopKeeps ==
  ASSUME EntryInv, NEW c \in Calls, Limit(c) \/ Fail(c)
  PROVE  EntryInv'
  <1>1. PICK to \in {"limited", "failed"} : at' = [at EXCEPT ![c] = to]
    BY DEF Limit, Fail, Move
  <1>2. Release(c) /\ UNCHANGED <<nodeVars, method>>
    BY DEF Limit, Fail
  <1>3. method[c] \in Methods /\ method' = [method EXCEPT ![c] = method[c]]
    BY <1>2 DEF EntryInv, EntryTypeOK
  <1>4. WithinReach' /\ thresholdTable' \in [Methods -> Cells \union {NoLevel}]
    BY <1>2 DEF EntryInv, EntryTypeOK, WithinReach, nodeVars
  <1> QED
    BY <1>1, <1>2, <1>3, <1>4, ForgetKeeps DEF nodeVars

LEMMA EntryInvNext ==
  ASSUME EntryInv, [EntryNext]_entryVars
  PROVE  EntryInv'
  <1>1. CASE \E n \in Nodes, l \in Levels : ChangeLevel(n, l)
    BY <1>1, ChangeLevelKeeps
  <1>2. CASE \E c \in Calls, u \in Users, m \in Methods : Enter(c, u, m)
    BY <1>2, ArriveKeeps
  <1>3. ASSUME NEW c \in Calls, Step(c) PROVE EntryInv'
    <2>1. CASE LoadPriority(c)
      BY <2>1, LoadPriorityKeeps
    <2>2. CASE \E U \in Drawn : StorePriority(c, U)
      BY <2>2, StorePriorityKeeps
    <2>3. CASE AdmitHere(c)
      BY <2>3, AdmitHereKeeps
    <2>4. CASE DropHere(c) \/ DropThere(c) \/ ReturnError(c)
      BY <2>4, EndKeeps DEF DropHere, DropThere, ReturnError
    <2>5. CASE Send(c)
      BY <2>5, SendKeeps
    <2>6. CASE AdmitThere(c)
      BY <2>6, AdmitThereKeeps
    <2>7. CASE Limit(c) \/ Fail(c)
      BY <2>7, StopKeeps
    <2>8. CASE Return(c)
      BY <2>8, ReturnKeeps
    <2> QED
      BY <1>3, <2>1, <2>2, <2>3, <2>4, <2>5, <2>6, <2>7, <2>8 DEF Step
  <1>4. CASE UNCHANGED entryVars
    BY <1>4 DEF entryVars, nodeVars, callVars, EntryInv, EntryTypeOK,
                DrawsAlone, Business, HeaderReached,
                OnePriority, WithinReach, Assigned
  <1> QED
    BY <1>1, <1>2, <1>3, <1>4 DEF EntryNext

\* The invariant is inductive.
THEOREM EntryInductive ==
  EntrySpec => []EntryInv
  <1> QED
    BY EntryInvInit, EntryInvNext, PTL DEF EntrySpec

\* Types.
THEOREM EntryTypes ==
  EntrySpec => []EntryTypeOK
  <1>1. EntryInv => EntryTypeOK
    BY DEF EntryInv
  <1> QED
    BY <1>1, EntryInductive, PTL

\* All calls of a user carry its stored priority, unless its first calls drew together.
THEOREM OnePriorityHolds ==
  EntrySpec => []OnePriority
  <1>1. EntryInv => OnePriority
    BY DEF EntryInv
  <1> QED
    BY <1>1, EntryInductive, PTL

\* No threshold a client learns is out of the reach of all its method's calls.
THEOREM WithinReachHolds ==
  EntrySpec => []WithinReach
  <1>1. EntryInv => WithinReach
    BY DEF EntryInv
  <1> QED
    BY <1>1, EntryInductive, PTL
=============================================================================
